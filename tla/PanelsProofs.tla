---------------------------- MODULE PanelsProofs ----------------------------
(***************************************************************************)
(* Theorems about Panels, for every bound on visits, clicks, entries and   *)
(* operations: what each panel's own invariant says, whatever the panel    *)
(* that is watched.                                                        *)
(***************************************************************************)
EXTENDS Panels, FiniteSetTheorems, SequenceTheorems, WellFoundedInduction, TLAPS

-----------------------------------------------------------------------------
(* What all panels share: the scene stays, and acts are counted.            *)

\* What every step of a panel may do to what they share.
LifeStep == UNCHANGED scene /\ (Act \/ UNCHANGED acts)

\* A step of the Logs page is one.
LEMMA LogLife == LogStep => LifeStep
  BY DEF LogStep, LifeStep, lifeVars, Tick, Open, Effects, Leave, Hear, Receive, NoReply,
     ClickPause, ClickClear, ToggleLevel, OnOpen, OnMessage, OnClose, Reconnect, RunEffects

\* So is each of the Metrics page.
LEMMA MetricLife == MetricStep => LifeStep
  BY DEF MetricStep, LifeStep, lifeVars, OpenMetrics, ConnectMetrics, LeaveMetrics,
     MetricsOpened, MetricsPushed, MetricsClosed, MetricsReconnect, RunEffects

\* So is each of the Storage page.
LEMMA StorageLife == StorageStep => LifeStep
  BY DEF StorageStep, LifeStep, lifeVars, OpenStorage, ConnectStorage, LeaveStorage,
     SelectTab, InspectTable, CloseDrawer, ResizeCluster, TakeFigures, SnapshotsChange,
     StorageOpened, StoragePushed, StorageClosed, StorageReconnect, ClickFlush, Strikes,
     Strike, FlushSettles, ClickCompact, CompactSettles, Ends, LateSettles, OperationEnds,
     RunEffects

\* So is each of the write feed.
LEMMA FeedLife == FeedStep => LifeStep
  BY DEF FeedStep, LifeStep, lifeVars, MountFeed, LeaveFeed, SpawnToken, FrameTick, RunEffects

\* So is each of the overlays.
LEMMA OverlayLife == OverlayStep => LifeStep
  BY DEF OverlayStep, LifeStep, lifeVars, TaskStep, Begin, End, Purge, CloseTimer,
     ClickHeader, ToastStep, AutoDismiss, ClickDismiss

\* So is each of the key operations.
LEMMA KeyLife == KeyStep => LifeStep
  BY DEF KeyStep, LifeStep, lifeVars, MountKeys, LeaveKeys, TypeKey, Clicks, Click, Submit,
     PressEnter, Settles, Succeed, Fail, RunEffects

\* So is each of the Dashboard's controls.
LEMMA ControlLife == ControlStep => LifeStep
  BY DEF ControlStep, LifeStep, lifeVars, MountControls, LeaveControls, HearEvent,
     ClickControl, ClickStart, ClickStop, Dones, OperationDone, LoadEnds, NodesChange,
     FlashEnds, RunEffects

\* So is each of the Timeline.
LEMMA TimelineLife == TimelineStep => LifeStep
  BY DEF TimelineStep, LifeStep, lifeVars, Recording, Record, MountTimeline, LeaveTimeline,
     Jump, JumpTo, TogglePlay, PlaybackTick, HandleStop, RunEffects

\* So the scene stays, and the acts are a number.
LEMMA Life ==
  ASSUME acts \in Nat, [Next]_vars
  PROVE  scene' = scene /\ acts' \in Nat
<1>1. LifeStep \/ UNCHANGED vars
  BY LogLife, MetricLife, StorageLife, FeedLife, OverlayLife, KeyLife, ControlLife,
     TimelineLife DEF Next
<1> QED BY <1>1 DEF LifeStep, Act, vars, lifeVars

-----------------------------------------------------------------------------
(* What filter() does, by induction on the length of the list: a length at  *)
(* which it went wrong would be preceded by a least one.                    *)

\* A set of numbers that is not empty has a least one.
LEMMA Least ==
  ASSUME NEW B, B \subseteq Nat, B # {}
  PROVE  \E m \in B : \A k \in B : m <= k
<1> DEFINE R == {p \in Nat \X Nat : p[1] < p[2]}
<1>1. IsWellFoundedOn(R, Nat)
  BY NatLessThanWellFounded DEF OpToRel
<1>2. PICK m \in B : \A k \in B : <<k, m>> \notin R
  <2> HIDE DEF R
  <2> QED BY <1>1, WFMin
<1>3. ASSUME NEW k \in B PROVE m <= k
  <2>1. m \in Nat /\ k \in Nat /\ <<k, m>> \notin R
    BY <1>2, <1>3
  <2> QED BY <2>1
<1> QED BY <1>3

\* f is the function that Picked names.
IsPicking(f, n, S) ==
  f = [i \in 0..n |->
        IF i = 0 THEN <<>> ELSE IF i \in S THEN Append(f[i - 1], i) ELSE f[i - 1]]

\* There is such a function for every n.
LEMMA PickingExists ==
  ASSUME NEW n \in Nat, NEW S
  PROVE  \E f : IsPicking(f, n, S)
<1> DEFINE B == {m \in Nat : ~\E f : IsPicking(f, m, S)}
<1> SUFFICES ASSUME n \in B PROVE FALSE
  OBVIOUS
<1>1. PICK m \in B : \A k \in B : m <= k
  <2> HIDE DEF B
  <2>1. B \subseteq Nat
    BY DEF B
  <2> QED BY <2>1, Least
<1>2. m # 0
  <2> DEFINE f == [i \in 0..0 |-> <<>>]
  <2>1. IsPicking(f, 0, S)
    BY DEF IsPicking
  <2> QED BY <2>1, <1>1
<1>3. m \in Nat /\ m - 1 \in Nat /\ m - 1 \notin B
  <2>1. m \in Nat /\ m - 1 \in Nat /\ ~(m <= m - 1)
    BY <1>2
  <2> QED BY <1>1, <2>1
<1>4. PICK g : IsPicking(g, m - 1, S)
  BY <1>3
<1> DEFINE h == [i \in 0..m |-> IF i = m
                                THEN IF m \in S THEN Append(g[m - 1], m) ELSE g[m - 1]
                                ELSE g[i]]
<1>5. ASSUME NEW i \in 0..m
      PROVE  h[i] = IF i = 0 THEN <<>> ELSE IF i \in S THEN Append(h[i - 1], i) ELSE h[i - 1]
  <2>1. CASE i = m
    <3>1. m - 1 \in 0..m /\ m - 1 # m
      BY <1>3
    <3>2. h[m - 1] = g[m - 1]
      BY <3>1
    <3> QED BY <1>2, <2>1, <3>2
  <2>2. CASE i # m
    <3>1. i \in 0..(m - 1) /\ h[i] = g[i]
      BY <1>3, <2>2
    <3>2. i # 0 => i - 1 \in 0..m /\ i - 1 # m
      BY <1>3, <2>2
    <3>3. i # 0 => h[i - 1] = g[i - 1]
      BY <3>2
    <3>4. g[i] = IF i = 0 THEN <<>> ELSE IF i \in S THEN Append(g[i - 1], i) ELSE g[i - 1]
      BY <1>4, <3>1 DEF IsPicking
    <3> QED BY <3>1, <3>3, <3>4
  <2> QED BY <2>1, <2>2
<1>6. IsPicking(h, m, S)
  BY <1>5 DEF IsPicking
<1> QED BY <1>1, <1>6

\* filter() keeps what it should, once, in order.
LEMMA PickedInOrder ==
  ASSUME NEW n \in Nat, NEW S, S \subseteq 1..n
  PROVE  /\ Picked(n, S) \in Seq(S)
         /\ \A x \in S : \E k \in 1..Len(Picked(n, S)) : Picked(n, S)[k] = x
         /\ \A j, k \in 1..Len(Picked(n, S)) : j < k => Picked(n, S)[j] < Picked(n, S)[k]
<1> DEFINE Good(s, i) == /\ s \in Seq(S) /\ \A k \in 1..Len(s) : s[k] <= i
                         /\ \A x \in S : x <= i => \E k \in 1..Len(s) : s[k] = x
                         /\ \A j, k \in 1..Len(s) : j < k => s[j] < s[k]
<1>1. PICK f : IsPicking(f, n, S) /\ Picked(n, S) = f[n]
  <2>1. \E f : IsPicking(f, n, S)
    BY PickingExists
  <2> QED BY <2>1 DEF IsPicking, Picked
<1>2. Good(f[0], 0)
  <2>1. f[0] = <<>>
    <3>1. 0 \in 0..n
      OBVIOUS
    <3> QED BY <1>1, <3>1 DEF IsPicking
  <2>2. \A x \in S : ~(x <= 0)
    OBVIOUS
  <2>3. Good(<<>>, 0)
    BY <2>2
  <2> HIDE DEF Good
  <2> QED BY <2>1, <2>3
<1>3. ASSUME NEW i \in 1..n, Good(f[i - 1], i - 1)
      PROVE  Good(f[i], i)
  <2> DEFINE s == f[i - 1]
  <2>0. /\ i \in Nat /\ S \subseteq Int
        /\ f[i] = IF i \in S THEN Append(s, i) ELSE s
    <3>1. i \in 0..n /\ i # 0
      OBVIOUS
    <3>2. f[i] = IF i = 0 THEN <<>> ELSE IF i \in S THEN Append(f[i - 1], i) ELSE f[i - 1]
      BY <1>1, <3>1 DEF IsPicking
    <3> QED BY <3>1, <3>2
  <2> HIDE DEF s
  <2>1. /\ s \in Seq(S) /\ Len(s) \in Nat
        /\ \A k \in 1..Len(s) : s[k] <= i - 1 /\ s[k] \in S /\ s[k] \in Int
        /\ \A x \in S : x <= i - 1 => \E k \in 1..Len(s) : s[k] = x
        /\ \A j, k \in 1..Len(s) : j < k => s[j] < s[k]
    <3>1. Good(s, i - 1)
      BY <1>3 DEF s
    <3>2. s \in Seq(S)
      BY <3>1
    <3>3. Len(s) \in Nat /\ \A k \in 1..Len(s) : s[k] \in S
      BY <3>2
    <3> QED BY <2>0, <3>1, <3>2, <3>3
  <2>2. CASE i \notin S
    <3>1. \A x \in S : x <= i => x <= i - 1
      BY <2>0, <2>2
    <3>2. \A k \in 1..Len(s) : s[k] <= i
      BY <2>0, <2>1
    <3> QED BY <2>0, <2>1, <2>2, <3>1, <3>2
  <2>3. CASE i \in S
    <3> DEFINE t == Append(s, i)
    <3>1. /\ t \in Seq(S) /\ Len(t) = Len(s) + 1 /\ t[Len(s) + 1] = i
          /\ \A k \in 1..Len(s) : t[k] = s[k]
      BY <2>1, <2>3
    <3> HIDE DEF t
    <3>2. \A k \in 1..Len(t) : k \in 1..Len(s) \/ k = Len(s) + 1
      BY <2>1, <3>1
    <3>3. ASSUME NEW k \in 1..Len(t) PROVE t[k] <= i
      <4>1. CASE k = Len(s) + 1
        BY <2>0, <3>1, <4>1
      <4>2. CASE k \in 1..Len(s)
        <5>1. t[k] = s[k] /\ s[k] \in Int /\ s[k] <= i - 1
          BY <2>1, <3>1, <4>2
        <5> QED BY <2>0, <5>1
      <4> QED BY <3>2, <4>1, <4>2
    <3>4. ASSUME NEW x \in S, x <= i PROVE \E k \in 1..Len(t) : t[k] = x
      <4>1. CASE x = i
        BY <2>1, <3>1, <4>1
      <4>2. CASE x # i
        <5>1. x \in Int /\ x <= i - 1
          BY <2>0, <3>4, <4>2
        <5>2. PICK k \in 1..Len(s) : s[k] = x
          BY <2>1, <5>1
        <5>3. k \in 1..Len(t) /\ t[k] = x
          BY <2>1, <3>1, <5>2
        <5> QED BY <5>3
      <4> QED BY <4>1, <4>2
    <3>5. ASSUME NEW j \in 1..Len(t), NEW k \in 1..Len(t), j < k PROVE t[j] < t[k]
      <4>1. j \in 1..Len(s)
        BY <2>1, <3>1, <3>5
      <4>2. CASE k = Len(s) + 1
        <5>1. s[j] \in Int /\ s[j] <= i - 1 /\ t[j] = s[j]
          BY <2>1, <3>1, <4>1
        <5> QED BY <2>0, <3>1, <4>1, <4>2, <5>1
      <4>3. CASE k \in 1..Len(s)
        BY <2>1, <3>1, <3>5, <4>1, <4>3
      <4> QED BY <3>2, <4>2, <4>3
    <3> QED BY <2>0, <2>3, <3>1, <3>3, <3>4, <3>5 DEF t
  <2> QED BY <2>2, <2>3
<1> DEFINE B == {i \in 0..n : ~Good(f[i], i)}
<1>4. B = {}
  <2> SUFFICES ASSUME B # {} PROVE FALSE
    OBVIOUS
  <2>1. PICK m \in B : \A k \in B : m <= k
    <3>1. B \subseteq Nat
      OBVIOUS
    <3> HIDE DEF B
    <3> QED BY <3>1, Least
  <2>2. m \in 1..n /\ m - 1 \in 0..n /\ ~(m <= m - 1)
    <3> HIDE DEF Good
    <3> QED BY <1>2
  <2>3. Good(f[m - 1], m - 1)
    <3> HIDE DEF Good
    <3> QED BY <2>1, <2>2
  <2>4. Good(f[m], m)
    <3> HIDE DEF Good
    <3> QED BY <1>3, <2>2, <2>3
  <2> HIDE DEF Good
  <2> QED BY <2>4
<1>5. Good(f[n], n)
  <2>1. n \in 0..n
    OBVIOUS
  <2> HIDE DEF Good
  <2> QED BY <1>4, <2>1
<1>6. \A x \in S : x <= n
  OBVIOUS
<1> QED BY <1>1, <1>5, <1>6
-----------------------------------------------------------------------------
(* The Logs page.                                                           *)

\* An entry of the log buffer.
Entry == [id : Nat, from : Origins, level : LogLevels]

\* A socket, and a reconnection that is due, belong to the mounted page, and the
\* handler holds the value of "paused" that the page has.
LinkIsCurrent ==
  link.ws # "none" \/ link.timer
    => scene = "logs" /\ stage = "mounted" /\ deaf = paused

\* The page's types, and what it promises.
LogInv ==
  /\ log \in Seq(Entry) /\ nextId \in Nat /\ link \in Links
  /\ paused \in BOOLEAN /\ deaf \in BOOLEAN
  /\ LinkIsCurrent /\ ShownIsLog

\* push appends an entry of its origin, which is the last whatever is dropped.
LEMMA PushEffect ==
  ASSUME log \in Seq(Entry), nextId \in Nat, NEW from \in Origins, Push(from)
  PROVE  /\ log' \in Seq(Entry) /\ nextId' = nextId + 1 /\ Last(log').from = from
         /\ shown' = IF Mounted THEN log' ELSE shown
<1>1. PICK level \in LogLevels :
        log' = Newest(Append(log, [id |-> nextId, from |-> from, level |-> level]))
  BY DEF Push
<1> DEFINE e == [id |-> nextId, from |-> from, level |-> level]
           t == Append(log, e)
<1>2. e \in Entry /\ e.from = from
  BY DEF Entry
<1> HIDE DEF e
<1>3. t \in Seq(Entry) /\ Len(t) = Len(log) + 1 /\ Len(log) \in Nat /\ t[Len(t)] = e
  BY <1>2
<1> HIDE DEF t
<1>4. MaxLog \in Nat \ {0}
  BY LogAssumption
<1>5. log' = Newest(t)
  BY <1>1 DEF t, e
<1>6. CASE Len(t) > MaxLog
  <2>1. log' = SubSeq(t, Len(t) - MaxLog + 1, Len(t))
    BY <1>5, <1>6 DEF Newest
  <2>2. Len(t) - MaxLog + 1 \in 1..Len(t) /\ Len(t) \in Nat
    BY <1>3, <1>4, <1>6
  <2>3. log' \in Seq(Entry) /\ Len(log') = MaxLog /\ log'[MaxLog] = t[Len(t)]
    BY <1>3, <1>4, <2>1, <2>2
  <2> QED BY <1>2, <1>3, <2>3 DEF Push, Notify, Last
<1>7. CASE ~(Len(t) > MaxLog)
  BY <1>2, <1>3, <1>5, <1>7 DEF Newest, Push, Notify, Last
<1> QED BY <1>6, <1>7

\* Whoever writes to the buffer, a page that is mounted shows it.
LEMMA WriteInv ==
  ASSUME LogInv, log' \in Seq(Entry), nextId' \in Nat,
         shown' = IF Mounted THEN log' ELSE shown,
         UNCHANGED <<scene, stage, link, deaf, paused>>
  PROVE  LogInv'
  BY DEF LogInv, LinkIsCurrent, ShownIsLog, Mounted

\* The answer of GET /logs is a list of entries.
LEMMA SeedEffect ==
  ASSUME log \in Seq(Entry), Seed(Backlog)
  PROVE  log' \in Seq(Entry) /\ UNCHANGED nextId /\ shown' = IF Mounted THEN log' ELSE shown
<1>1. Fetched \in Nat /\ "INFO" \in LogLevels /\ MaxLog \in Nat \ {0}
  BY LogAssumption
<1>2. Backlog \in [1..Fetched -> Entry]
  BY <1>1 DEF Backlog, Entry, Origins
<1>3. Backlog \in Seq(Entry)
  BY <1>1, <1>2
<1> HIDE DEF Backlog
<1>4. Newest(Backlog) \in Seq(Entry)
  BY <1>1, <1>3 DEF Newest
<1> QED BY <1>4 DEF Seed, Notify

\* Each step of the page keeps the invariant.
LEMMA LogStepInv ==
  ASSUME LogInv, LogStep
  PROVE  LogInv'
<1>0. /\ log \in Seq(Entry) /\ nextId \in Nat /\ link \in Links
      /\ paused \in BOOLEAN /\ deaf \in BOOLEAN
  BY DEF LogInv
<1>1. ASSUME NEW from \in Origins, Push(from), UNCHANGED <<scene, stage, link, deaf, paused>>
      PROVE  LogInv'
  <2>1. nextId + 1 \in Nat
    BY <1>0
  <2> QED BY <1>0, <1>1, <2>1, PushEffect, WriteInv
<1>2. "generator" \in Origins /\ "event" \in Origins /\ "socket" \in Origins
  BY DEF Origins
<1>3. CASE Tick
  BY <1>1, <1>2, <1>3 DEF Tick, lifeVars
<1>4. CASE Open
  <2>1. link.ws = "none" /\ ~link.timer /\ stage' # "mounted"
    BY <1>4 DEF Open, Enter, LogInv, LinkIsCurrent
  <2> QED BY <1>4, <2>1 DEF Open, LogInv, LinkIsCurrent, ShownIsLog
<1>5. CASE Effects
  <2>1. link' = Connected(link) /\ deaf' = paused /\ stage' = "mounted"
        /\ shown' = log /\ UNCHANGED <<scene, log, nextId, paused>>
    BY <1>5 DEF Effects, RunEffects, Connect
  <2>2. Connected(link) \in Links
    BY <1>0 DEF Connected, Links
  <2>3. scene = "logs"
    BY DEF LogStep
  <2> QED BY <1>0, <2>1, <2>2, <2>3 DEF LogInv, LinkIsCurrent, ShownIsLog
<1>6. CASE Leave
  <2>1. link' = NoLink /\ NoLink \in Links /\ NoLink.ws = "none" /\ ~NoLink.timer
    BY <1>6 DEF Leave, NoLink, Links
  <2>2. stage' # "mounted" /\ deaf' = FALSE /\ paused' = FALSE /\ UNCHANGED <<log, nextId>>
    BY <1>6 DEF Leave, Quit
  <2> QED BY <1>0, <2>1, <2>2 DEF LogInv, LinkIsCurrent, ShownIsLog
<1>7. CASE Hear
  BY <1>1, <1>2, <1>7 DEF Hear
<1>8. CASE Receive
  BY <1>0, <1>8, SeedEffect, WriteInv DEF Receive, lifeVars
<1>9. CASE NoReply \/ ToggleLevel
  BY <1>9 DEF NoReply, ToggleLevel, LogInv, LinkIsCurrent, ShownIsLog
<1>10. CASE ClickPause
  <2> DEFINE new == Connected([NoLink EXCEPT !.badge = link.badge])
  <2>1. link' = new /\ paused' = ~paused /\ deaf' = ~paused /\ Mounted
        /\ UNCHANGED <<scene, stage, log, nextId, shown>>
    BY <1>10 DEF ClickPause
  <2>2. new \in Links
    BY <1>0 DEF Connected, NoLink, Links
  <2>3. scene = "logs"
    BY DEF LogStep
  <2> HIDE DEF new
  <2> QED BY <1>0, <2>1, <2>2, <2>3 DEF LogInv, LinkIsCurrent, ShownIsLog, Mounted
<1>11. CASE ClickClear
  BY <1>0, <1>11, WriteInv DEF ClickClear, Clear, Notify
<1>12. CASE OnOpen
  <2>1. [link EXCEPT !.ws = "open", !.badge = TRUE] \in Links
    BY <1>0 DEF Links
  <2>2. link.ws # "none" /\ link' = [link EXCEPT !.ws = "open", !.badge = TRUE]
        /\ UNCHANGED <<scene, stage, log, nextId, shown, deaf, paused>>
    BY <1>12 DEF OnOpen, lifeVars
  <2> QED BY <1>0, <2>1, <2>2 DEF LogInv, LinkIsCurrent, ShownIsLog
<1>13. CASE OnMessage
  BY <1>1, <1>2, <1>13 DEF OnMessage, lifeVars
<1>14. CASE OnClose
  <2>1. [NoLink EXCEPT !.timer = TRUE] \in Links
    BY DEF Links, NoLink
  <2>2. link.ws # "none" /\ link' = [NoLink EXCEPT !.timer = TRUE]
        /\ UNCHANGED <<scene, stage, log, nextId, shown, deaf, paused>>
    BY <1>14 DEF OnClose
  <2> QED BY <1>0, <2>1, <2>2 DEF LogInv, LinkIsCurrent, ShownIsLog
<1>15. CASE Reconnect
  <2>1. [Connected(link) EXCEPT !.timer = FALSE] \in Links
    BY <1>0 DEF Links, Connected
  <2>2. link.timer /\ link' = [Connected(link) EXCEPT !.timer = FALSE]
        /\ UNCHANGED <<scene, stage, log, nextId, shown, deaf, paused>>
    BY <1>15 DEF Reconnect, lifeVars
  <2> QED BY <1>0, <2>1, <2>2 DEF LogInv, LinkIsCurrent, ShownIsLog
<1> QED BY <1>3, <1>4, <1>5, <1>6, <1>7, <1>8, <1>9, <1>10, <1>11, <1>12, <1>13, <1>14, <1>15
     DEF LogStep

\* The other panels leave the log, and are not its page.
LEMMA LogKept ==
  ASSUME LogInv, acts \in Nat, [Next]_vars
  PROVE  LogInv'
<1>1. LogStep \/ (UNCHANGED logVars /\ (scene # "logs" \/ UNCHANGED lifeVars))
  BY DEF Next, vars, panelVars, MetricStep, StorageStep, FeedStep, OverlayStep, KeyStep,
     ControlStep, TimelineStep
<1>2. scene' = scene
  BY Life
<1>3. CASE UNCHANGED logVars /\ (scene # "logs" \/ UNCHANGED lifeVars)
  BY <1>2, <1>3 DEF logVars, lifeVars, LogInv, LinkIsCurrent, ShownIsLog
<1> QED BY <1>1, <1>3, LogStepInv

\* slice(-MAX_ENTRIES) leaves so many entries at most.
LEMMA NewestFits ==
  ASSUME NEW t \in Seq(Entry)
  PROVE  Newest(t) \in Seq(Entry) /\ Len(Newest(t)) <= MaxLog
<1>1. MaxLog \in Nat \ {0} /\ Len(t) \in Nat
  BY LogAssumption
<1>2. CASE Len(t) > MaxLog
  <2>1. Newest(t) = SubSeq(t, Len(t) - MaxLog + 1, Len(t))
    BY <1>2 DEF Newest
  <2>2. Len(t) - MaxLog + 1 \in 1..Len(t)
    BY <1>1, <1>2
  <2> QED BY <1>1, <2>1, <2>2
<1>3. CASE ~(Len(t) > MaxLog)
  BY <1>1, <1>3 DEF Newest
<1> QED BY <1>2, <1>3

\* push leaves a buffer that fits and ends in the entry.
LEMMA PushFits ==
  ASSUME NEW s \in Seq(Entry), NEW e \in Entry
  PROVE  LET n == Newest(Append(s, e)) IN
         Len(n) <= MaxLog /\ n # <<>> /\ Last(n) = e
<1> DEFINE t == Append(s, e)
           n == Newest(t)
<1>1. MaxLog \in Nat \ {0} /\ Len(s) \in Nat
  BY LogAssumption
<1>2. t \in Seq(Entry) /\ Len(t) = Len(s) + 1 /\ t[Len(t)] = e
  OBVIOUS
<1> HIDE DEF t
<1>3. CASE Len(t) > MaxLog
  <2>1. n = SubSeq(t, Len(t) - MaxLog + 1, Len(t))
    BY <1>3 DEF Newest
  <2> HIDE DEF n
  <2>2. Len(t) - MaxLog + 1 \in 1..Len(t)
    BY <1>1, <1>2, <1>3
  <2>3. n \in Seq(Entry) /\ Len(n) = MaxLog /\ n[MaxLog] = t[Len(t)]
    BY <1>1, <1>2, <2>1, <2>2
  <2>4. Len(n) <= MaxLog /\ n # <<>> /\ Last(n) = e
    BY <1>1, <1>2, <2>3 DEF Last
  <2> QED BY <2>4 DEF n, t
<1>4. CASE ~(Len(t) > MaxLog)
  <2>1. n = t
    BY <1>4 DEF Newest
  <2> HIDE DEF n
  <2>2. Len(n) <= MaxLog /\ n # <<>> /\ Last(n) = e
    BY <1>1, <1>2, <1>4, <2>1 DEF Last
  <2> QED BY <2>2 DEF n, t
<1> QED BY <1>3, <1>4

\* The buffer gets one more entry, and loses the oldest if it must.
OneMore == log' # <<>> /\ log' = Newest(Append(log, Last(log')))

\* Whoever writes to the buffer keeps its size, and takes only what it may.
LEMMA LogKeeps ==
  ASSUME LogInv, Len(log) <= MaxLog, [Next]_vars
  PROVE  /\ Len(log') <= MaxLog
         /\ (log' # log => ClickClear \/ log = <<>> \/ OneMore)
<1> DEFINE Goal == /\ Len(log') <= MaxLog
                   /\ (log' # log => ClickClear \/ log = <<>> \/ OneMore)
<1>1. log \in Seq(Entry) /\ nextId \in Nat /\ MaxLog \in Nat \ {0}
  BY LogAssumption DEF LogInv
<1>2. LogStep \/ UNCHANGED logVars
  BY DEF Next, vars, panelVars
<1>3. ASSUME UNCHANGED log PROVE Goal
  BY <1>3
<1>4. ASSUME NEW from \in Origins, Push(from) PROVE Goal
  <2>1. PICK level \in LogLevels :
          log' = Newest(Append(log, [id |-> nextId, from |-> from, level |-> level]))
    BY <1>4 DEF Push
  <2>2. [id |-> nextId, from |-> from, level |-> level] \in Entry
    BY <1>1 DEF Entry
  <2>3. Len(log') <= MaxLog /\ log' # <<>>
        /\ Last(log') = [id |-> nextId, from |-> from, level |-> level]
    BY <1>1, <2>1, <2>2, PushFits
  <2>4. log' = Newest(Append(log, Last(log')))
    BY <2>1, <2>3
  <2> QED BY <2>3, <2>4 DEF OneMore
<1>5. ASSUME Seed(Backlog) PROVE Goal
  <2>1. CASE log # <<>>
    BY <1>3, <1>5, <2>1 DEF Seed
  <2>2. CASE log = <<>>
    <3>1. Backlog \in Seq(Entry)
      <4>1. Fetched \in Nat /\ "INFO" \in LogLevels
        BY LogAssumption
      <4>2. Backlog \in [1..Fetched -> Entry]
        BY <4>1 DEF Backlog, Entry, Origins
      <4> QED BY <4>1, <4>2
    <3>2. log' = Newest(Backlog)
      BY <1>5, <2>2 DEF Seed
    <3>3. log' \in Seq(Entry) /\ Len(log') <= MaxLog
      BY <3>1, <3>2, NewestFits
    <3> QED BY <2>2, <3>3
  <2> QED BY <2>1, <2>2
<1>6. ASSUME ClickClear PROVE Goal
  <2>1. log' = <<>> /\ Len(<<>>) = 0
    BY <1>6 DEF ClickClear, Clear
  <2> QED BY <1>1, <1>6, <2>1
<1>7. ASSUME Tick \/ Hear \/ OnMessage PROVE Goal
  BY <1>4, <1>7 DEF Tick, Hear, OnMessage, Origins
<1>8. ASSUME Receive PROVE Goal
  BY <1>5, <1>8 DEF Receive
<1>9. ASSUME \/ Open \/ Effects \/ Leave \/ NoReply \/ ClickPause \/ ToggleLevel
              \/ OnOpen \/ OnClose \/ Reconnect
       PROVE  Goal
  BY <1>3, <1>9 DEF Open, Effects, Leave, NoReply, ClickPause, ToggleLevel, OnOpen, OnClose,
     Reconnect
<1>10. ASSUME UNCHANGED logVars PROVE Goal
  BY <1>3, <1>10 DEF logVars
<1> HIDE DEF Goal
<1>11. Goal
  BY <1>2, <1>6, <1>7, <1>8, <1>9, <1>10 DEF LogStep
<1> QED BY <1>11 DEF Goal

-----------------------------------------------------------------------------
(* The Metrics page.                                                        *)

\* The badge is shown of a socket that is open.
MetricInv == feed \in Links /\ (feed.badge => feed.ws = "open")

\* Every step keeps it.
LEMMA MetricKept ==
  ASSUME MetricInv, [Next]_vars
  PROVE  MetricInv'
<1>1. MetricStep \/ UNCHANGED metricVars
  BY DEF Next, vars, panelVars
<1>2. CASE UNCHANGED metricVars
  BY <1>2 DEF metricVars, MetricInv
<1>3. CASE OpenMetrics \/ LeaveMetrics
  <2>1. feed' = NoLink
    BY <1>3 DEF OpenMetrics, LeaveMetrics
  <2>2. NoLink \in Links /\ ~NoLink.badge
    BY DEF NoLink, Links
  <2> QED BY <2>1, <2>2 DEF MetricInv
<1>4. CASE ConnectMetrics
  BY <1>4 DEF ConnectMetrics, Connected, Links, MetricInv
<1>5. CASE MetricsOpened \/ MetricsPushed
  BY <1>5 DEF MetricsOpened, MetricsPushed, Links, MetricInv
<1>6. CASE MetricsClosed
  BY <1>6 DEF MetricsClosed, NoLink, Links, MetricInv
<1>7. CASE MetricsReconnect
  BY <1>7 DEF MetricsReconnect, Connected, Links, MetricInv
<1> QED BY <1>1, <1>2, <1>3, <1>4, <1>5, <1>6, <1>7 DEF MetricStep

-----------------------------------------------------------------------------
(* The Storage page.                                                        *)

\* An animation has one timer, which strikes next what follows its phase.
StorageInv ==
  \/ phase = "idle" /\ timers = <<>>
  \/ \E n \in 1..3 : phase = Phases[5 - n] /\ timers = <<n>>

\* Every step keeps it, and moves the phase by one.
LEMMA StorageKept ==
  ASSUME StorageInv, [Next]_vars
  PROVE  /\ StorageInv'
         /\ phase' # phase /\ stage' = "mounted"
              => \E k \in 1..4 : phase = Phases[k] /\ phase' = Phases[(k % 4) + 1]
<1> DEFINE Goal == /\ StorageInv'
                   /\ phase' # phase /\ stage' = "mounted"
                        => \E k \in 1..4 : phase = Phases[k] /\ phase' = Phases[(k % 4) + 1]
<1>1. StorageStep \/ UNCHANGED storageVars
  BY DEF Next, vars, panelVars
<1>2. ASSUME UNCHANGED <<phase, timers>> PROVE Goal
  BY <1>2 DEF StorageInv
<1>3. ASSUME UNCHANGED storageVars PROVE Goal
  BY <1>2, <1>3 DEF storageVars, diagram
<1>4. ASSUME \/ OpenStorage \/ ConnectStorage \/ SelectTab \/ InspectTable \/ CloseDrawer
             \/ ResizeCluster \/ TakeFigures \/ SnapshotsChange \/ StorageOpened
             \/ StoragePushed \/ StorageClosed \/ StorageReconnect
      PROVE  Goal
  BY <1>2, <1>4 DEF OpenStorage, ConnectStorage, SelectTab, InspectTable, CloseDrawer,
     ResizeCluster, TakeFigures, SnapshotsChange, StorageOpened, StoragePushed,
     StorageClosed, StorageReconnect, diagram
<1>5. ASSUME FlushSettles \/ ClickCompact \/ CompactSettles \/ Ends PROVE Goal
  BY <1>2, <1>5 DEF FlushSettles, ClickCompact, CompactSettles, Ends, LateSettles,
     OperationEnds
<1>6. ASSUME LeaveStorage PROVE Goal
  BY <1>6 DEF LeaveStorage, Quit, StorageInv
<1>7. ASSUME ClickFlush PROVE Goal
  <2>1. phase = "idle"
    BY <1>7 DEF ClickFlush, CanFlush
  <2>2. timers = <<>>
    BY <2>1 DEF StorageInv, Phases
  <2>3. phase' = Phases[2] /\ timers' = <<3>>
    BY <1>7, <2>2 DEF ClickFlush, Phases
  <2>4. StorageInv'
    BY <2>3 DEF StorageInv
  <2>5. phase = Phases[1] /\ phase' = Phases[(1 % 4) + 1]
    BY <2>1, <2>3 DEF Phases
  <2> QED BY <2>4, <2>5
<1>8. ASSUME Strikes PROVE Goal
  <2>1. PICK k \in DOMAIN timers : Strike(k)
    BY <1>8 DEF Strikes
  <2>2. PICK n \in 1..3 : phase = Phases[5 - n] /\ timers = <<n>>
    BY <2>1 DEF StorageInv
  <2>3. k = 1 /\ timers[k] = n
    BY <2>1, <2>2
  <2>4. CASE n = 1
    <3>1. phase' = Phases[1] /\ phase = Phases[4] /\ timers' = RemoveAt(timers, 1)
      BY <2>1, <2>2, <2>3, <2>4 DEF Strike
    <3>2. timers' = <<>>
      BY <2>2, <3>1 DEF RemoveAt
    <3>3. StorageInv'
      BY <3>1, <3>2 DEF StorageInv, Phases
    <3> QED BY <3>1, <3>3
  <2>5. CASE n # 1
    <3>1. phase' = Phases[6 - n] /\ timers' = <<n - 1>>
      BY <2>1, <2>2, <2>3, <2>5 DEF Strike
    <3>2. n - 1 \in 1..3 /\ 5 - (n - 1) = 6 - n /\ 5 - n \in 1..4 /\ ((5 - n) % 4) + 1 = 6 - n
      BY <2>5
    <3>3. StorageInv'
      BY <3>1, <3>2 DEF StorageInv
    <3> QED BY <2>2, <3>1, <3>2, <3>3
  <2> QED BY <2>4, <2>5
<1> HIDE DEF Goal
<1>9. Goal
  BY <1>1, <1>3, <1>4, <1>5, <1>6, <1>7, <1>8 DEF StorageStep
<1> QED BY <1>9 DEF Goal

-----------------------------------------------------------------------------
(* The overlays.                                                            *)

\* While the timer that folds the panel runs, nothing is listed.
OverlayInv == open \in BOOLEAN /\ closing \in BOOLEAN /\ (closing => ListedOf(task) = {})

\* The effects of a render keep it so, and fold nothing.
LEMMA RenderedInv ==
  ASSUME OverlayInv, Rendered
  PROVE  OverlayInv' /\ (open => open')
<1> DEFINE nRunning == Cardinality(RunningOf(task'))
           nListed == Cardinality(ListedOf(task'))
           differ == nRunning # Cardinality(RunningOf(task))
                        \/ nListed # Cardinality(ListedOf(task))
<1>1. \A f : IsFiniteSet(ListedOf(f))
  <2>1. IsFiniteSet(Tasks)
    BY TasksAssumption, FS_Interval DEF Tasks
  <2>2. \A f : ListedOf(f) \subseteq Tasks
    BY DEF ListedOf
  <2> QED BY <2>1, <2>2, FS_Subset
<1>2. nListed = 0 <=> ListedOf(task') = {}
  BY <1>1, FS_EmptySet
<1>3. Cardinality(ListedOf(task)) = 0 <=> ListedOf(task) = {}
  BY <1>1, FS_EmptySet
<1>4. closing' = (IF differ THEN nRunning = 0 /\ nListed = 0 ELSE closing)
  BY DEF Rendered
<1>5. closing' => ListedOf(task') = {}
  <2> HIDE DEF nRunning, nListed
  <2>1. CASE differ
    BY <1>2, <1>4, <2>1
  <2>2. CASE ~differ
    <3>1. nListed = Cardinality(ListedOf(task))
      BY <2>2
    <3>2. closing' => closing
      BY <1>4, <2>2
    <3> QED BY <1>2, <1>3, <3>1, <3>2 DEF OverlayInv
  <2> QED BY <2>1, <2>2
<1>6. closing' \in BOOLEAN
  BY <1>4 DEF OverlayInv
<1>7. open' \in BOOLEAN /\ (open => open')
  BY DEF Rendered
<1> QED BY <1>5, <1>6, <1>7 DEF OverlayInv

\* Every step keeps it, and folds the panel only by hand or when nothing is nListed.
LEMMA OverlayKept ==
  ASSUME OverlayInv, acts \in Nat, [Next]_vars
  PROVE  /\ OverlayInv'
         /\ open /\ ~open' /\ acts' = acts => ListedOf(task) = {}
<1> DEFINE Goal == /\ OverlayInv'
                   /\ open /\ ~open' /\ acts' = acts => ListedOf(task) = {}
<1>1. OverlayStep \/ UNCHANGED overlayVars
  BY DEF Next, vars, panelVars
<1>2. ASSUME UNCHANGED <<open, closing, task>> PROVE Goal
  BY <1>2 DEF OverlayInv
<1>3. ASSUME UNCHANGED overlayVars PROVE Goal
  BY <1>2, <1>3 DEF overlayVars
<1>4. ASSUME TaskStep \/ Purge PROVE Goal
  <2>1. Rendered
    BY <1>4 DEF TaskStep, Begin, End, Purge
  <2> QED BY <2>1, RenderedInv
<1>5. ASSUME CloseTimer PROVE Goal
  BY <1>5 DEF CloseTimer, OverlayInv
<1>6. ASSUME ClickHeader PROVE Goal
  <2>1. acts' # acts
    BY <1>6 DEF ClickHeader, Act
  <2> QED BY <1>6, <2>1 DEF ClickHeader, OverlayInv
<1>7. ASSUME ToastStep PROVE Goal
  BY <1>2, <1>7 DEF ToastStep, AutoDismiss, ClickDismiss, widget
<1> HIDE DEF Goal
<1>8. Goal
  BY <1>1, <1>3, <1>4, <1>5, <1>6, <1>7 DEF OverlayStep
<1> QED BY <1>8 DEF Goal

-----------------------------------------------------------------------------
(* The key operations.                                                      *)

\* A request of the key panel under way.
KeyRequest == [command : Commands, key : Keys]

\* The panel's types, and what it promises.
KeyInv ==
  /\ key \in Keys \cup {""} /\ requests \in Seq(KeyRequest)
  /\ loading \in BOOLEAN /\ error \in BOOLEAN
  /\ PanelFollowsRequests

\* Every step keeps it.
LEMMA KeyKept ==
  ASSUME KeyInv, [Next]_vars
  PROVE  KeyInv'
<1>0. /\ key \in Keys \cup {""} /\ requests \in Seq(KeyRequest)
      /\ loading \in BOOLEAN /\ error \in BOOLEAN
  BY DEF KeyInv
<1>9. requests \in Seq(KeyRequest)
  BY DEF KeyInv
<1>1. KeyStep \/ UNCHANGED keyVars
  BY DEF Next, vars, panelVars
<1>2. CASE UNCHANGED keyVars
  BY <1>2 DEF keyVars, KeyInv, PanelFollowsRequests
<1>3. CASE MountKeys
  BY <1>3 DEF MountKeys, keyVars, KeyInv, PanelFollowsRequests
<1>4. CASE LeaveKeys
  <2>1. key' = "" /\ requests' = <<>> /\ loading' = FALSE /\ error' = FALSE
    BY <1>4 DEF LeaveKeys
  <2>2. requests' = <<>>
    BY <2>1
  <2>3. requests' \in Seq(KeyRequest)
    BY <2>2
  <2> QED BY <2>1, <2>3 DEF KeyInv, PanelFollowsRequests
<1>5. CASE TypeKey
  BY <1>5 DEF TypeKey, KeyInv, PanelFollowsRequests
<1>6. ASSUME NEW command \in Commands, Submit(command) PROVE KeyInv'
  <2> DEFINE r == [command |-> command, key |-> key]
  <2>1. r \in KeyRequest
    BY <1>0, <1>6 DEF Submit, Fits, KeyRequest
  <2>2. requests' = Append(requests, r) /\ loading' = TRUE /\ error' = FALSE /\ UNCHANGED key
    BY <1>6 DEF Submit
  <2> HIDE DEF r
  <2>3. requests' \in Seq(KeyRequest) /\ requests' # <<>>
    BY <1>9, <2>1, <2>2
  <2> QED BY <1>0, <2>2, <2>3 DEF KeyInv, PanelFollowsRequests
<1>7. ASSUME NEW k \in DOMAIN requests, Succeed(k) \/ Fail(k) PROVE KeyInv'
  <2>1. requests' \in Seq(KeyRequest)
    <3>1. requests' = SubSeq(requests, 1, k - 1) \o SubSeq(requests, k + 1, Len(requests))
      BY <1>7 DEF Succeed, Fail, RemoveAt
    <3>2. /\ SubSeq(requests, 1, k - 1) \in Seq(KeyRequest)
          /\ SubSeq(requests, k + 1, Len(requests)) \in Seq(KeyRequest)
      BY <1>9
    <3> QED BY <3>1, <3>2
  <2>2. loading' = FALSE /\ key' \in Keys \cup {""}
    BY <1>0, <1>7 DEF Succeed, Fail
  <2>3. CASE Succeed(k)
    <3>1. requests[k] \in KeyRequest
      BY <1>9
    <3>2. requests[k].command # "none" /\ NoRequest.command = "none"
      BY <3>1 DEF KeyRequest, Commands, NoRequest
    <3>3. requests[k] # NoRequest
      BY <3>2
    <3> QED BY <1>0, <2>1, <2>2, <2>3, <3>3 DEF Succeed, KeyInv, PanelFollowsRequests
  <2>4. CASE Fail(k)
    BY <2>1, <2>2, <2>4 DEF Fail, KeyInv, PanelFollowsRequests
  <2> QED BY <1>7, <2>3, <2>4
<1>8. "SET" \in Commands
  BY DEF Commands
<1> QED BY <1>1, <1>2, <1>3, <1>4, <1>5, <1>6, <1>7, <1>8
     DEF KeyStep, Clicks, Click, PressEnter, Settles

-----------------------------------------------------------------------------
(* The write feed.  A frame moves all tokens alike, so they arrive in the    *)
(* order in which they were spawned: a token that falls is younger than any  *)
(* that is listed.                                                           *)

\* A falling token, or one that has arrived.
Token == [id : Nat, y : 0..Height, done : BOOLEAN]

\* Every line is above the older ones.
Decreasing(s) == \A i, j \in 1..Len(s) : i < j => s[i] > s[j]

\* x has a line, or is older than all lines of a full terminal.
Accounted(x, s) ==
  \/ \E k \in 1..Len(s) : s[k] = x
  \/ Len(s) = MaxListed /\ \A k \in 1..Len(s) : s[k] > x

\* The older of two tokens has fallen as far at least.
InOrder(ts) ==
  \A i, j \in 1..Len(ts) : i < j => ts[i].id < ts[j].id /\ ts[i].y >= ts[j].y

\* The feed's types, and what relates the tokens to the terminal.
FeedInv ==
  /\ tokens \in Seq(Token) /\ spawned \in Nat
  /\ listed \in Seq(Nat) /\ Len(listed) <= MaxListed
  /\ InOrder(tokens) /\ Decreasing(listed)
  /\ \A i \in 1..Len(tokens) : tokens[i].id <= spawned /\ tokens[i].id >= 1
  /\ \A i \in 1..Len(tokens) : tokens[i].done <=> tokens[i].y = Height
  /\ \A k \in 1..Len(listed) : listed[k] <= spawned
  /\ \A i \in 1..Len(tokens) :
       IF tokens[i].done THEN Accounted(tokens[i].id, listed)
       ELSE \A k \in 1..Len(listed) : listed[k] < tokens[i].id

\* The ids of the tokens at S, the newest first, and the lines that fit.
Lines(S) ==
  LET a == Picked(Len(tokens), S) IN Reverse([k \in DOMAIN a |-> tokens[a[k]].id])
Cut(lines) == SubSeq(lines, 1, IF Len(lines) > MaxListed THEN MaxListed ELSE Len(lines))

\* The lines that fit, of lines in order: the others are older than all of them.
LEMMA CutLines ==
  ASSUME NEW lines \in Seq(Nat), Decreasing(lines)
  PROVE  /\ Cut(lines) \in Seq(Nat) /\ Len(Cut(lines)) <= MaxListed
         /\ Decreasing(Cut(lines))
         /\ \A k \in 1..Len(Cut(lines)) : k \in 1..Len(lines) /\ Cut(lines)[k] = lines[k]
         /\ Len(lines) >= MaxListed => Len(Cut(lines)) = MaxListed
         /\ \A k \in 1..Len(lines) : Accounted(lines[k], Cut(lines))
<1> DEFINE cut == Cut(lines)
           m == IF Len(lines) > MaxListed THEN MaxListed ELSE Len(lines)
<1>1. MaxListed \in Nat \ {0} /\ Len(lines) \in Nat
  BY FeedAssumption
<1>2. m \in Nat /\ m <= Len(lines) /\ m <= MaxListed /\ (m < Len(lines) => m = MaxListed)
      /\ (Len(lines) >= MaxListed => m = MaxListed)
  BY <1>1
<1>3. cut = SubSeq(lines, 1, m)
  BY DEF Cut
<1> HIDE DEF m, cut
<1>4. cut \in Seq(Nat) /\ Len(cut) = m /\ \A k \in 1..m : cut[k] = lines[k]
  BY <1>1, <1>2, <1>3
<1>5. \A k \in 1..Len(cut) : k \in 1..Len(lines) /\ cut[k] = lines[k]
  BY <1>1, <1>2, <1>4
<1>6. Decreasing(cut)
  BY <1>5 DEF Decreasing
<1>7. ASSUME NEW k \in 1..Len(lines) PROVE Accounted(lines[k], cut)
  <2>1. CASE k <= m
    <3>1. k \in 1..Len(cut) /\ cut[k] = lines[k]
      BY <1>1, <1>2, <1>4, <2>1
    <3> QED BY <3>1 DEF Accounted
  <2>2. CASE ~(k <= m)
    <3>1. Len(cut) = MaxListed
      BY <1>1, <1>2, <1>4, <2>2
    <3>2. ASSUME NEW j \in 1..Len(cut) PROVE cut[j] > lines[k]
      <4>1. j \in 1..Len(lines) /\ cut[j] = lines[j] /\ j < k
        BY <1>1, <1>2, <1>4, <1>5, <2>2
      <4> QED BY <4>1 DEF Decreasing
    <3> QED BY <3>1, <3>2 DEF Accounted
  <2> QED BY <2>1, <2>2
<1> QED BY <1>2, <1>4, <1>5, <1>6, <1>7 DEF cut

\* The new lines of a frame: of the tokens that arrive, and of no other.
LEMMA NewLines ==
  ASSUME FeedInv, NEW S, S \subseteq 1..Len(tokens)
  PROVE  /\ Lines(S) \in Seq(Nat) /\ Len(Lines(S)) \in Nat /\ Decreasing(Lines(S))
         /\ \A k \in 1..Len(Lines(S)) : \E i \in S : Lines(S)[k] = tokens[i].id
         /\ \A i \in S : \E k \in 1..Len(Lines(S)) : Lines(S)[k] = tokens[i].id
<1> DEFINE a == Picked(Len(tokens), S)
           r == Lines(S)
<1>1. tokens \in Seq(Token) /\ Len(tokens) \in Nat /\ InOrder(tokens)
      /\ \A i \in 1..Len(tokens) : tokens[i].id \in Nat
  <2>1. tokens \in Seq(Token) /\ InOrder(tokens)
    BY DEF FeedInv
  <2>2. \A i \in 1..Len(tokens) : tokens[i] \in Token
    BY <2>1
  <2> QED BY <2>1, <2>2 DEF Token
<1>2. /\ a \in Seq(S) /\ \A x \in S : \E k \in 1..Len(a) : a[k] = x
      /\ \A j, k \in 1..Len(a) : j < k => a[j] < a[k]
  BY <1>1, PickedInOrder
<1> HIDE DEF a
<1>3. Len(a) \in Nat /\ DOMAIN a = 1..Len(a) /\ \A k \in 1..Len(a) : a[k] \in S
  BY <1>2
<1> DEFINE ids == [k \in DOMAIN a |-> tokens[a[k]].id]
<1>4. ids \in Seq(Nat) /\ Len(ids) = Len(a) /\ \A k \in 1..Len(a) : ids[k] = tokens[a[k]].id
  <2>1. ids \in [1..Len(a) -> Nat]
    BY <1>1, <1>3
  <2> QED BY <1>3, <2>1
<1> HIDE DEF ids
<1>5. r = [k \in 1..Len(a) |-> ids[Len(a) - k + 1]]
  BY <1>4 DEF Lines, Reverse, ids, a
<1> HIDE DEF r
<1>6. \A k \in 1..Len(a) : Len(a) - k + 1 \in 1..Len(a)
  BY <1>3
<1>7. r \in Seq(Nat) /\ Len(r) = Len(a)
  <2>1. r \in [1..Len(a) -> Nat]
    BY <1>3, <1>4, <1>5, <1>6
  <2> QED BY <1>3, <2>1
<1>8. ASSUME NEW k \in 1..Len(r) PROVE \E i \in S : r[k] = tokens[i].id
  <2>1. r[k] = tokens[a[Len(a) - k + 1]].id /\ a[Len(a) - k + 1] \in S
    BY <1>3, <1>4, <1>5, <1>6, <1>7
  <2> QED BY <2>1
<1>9. ASSUME NEW i \in S PROVE \E k \in 1..Len(r) : r[k] = tokens[i].id
  <2>1. PICK k \in 1..Len(a) : a[k] = i
    BY <1>2
  <2>2. Len(a) - k + 1 \in 1..Len(a) /\ Len(a) - (Len(a) - k + 1) + 1 = k
    BY <1>3
  <2>3. r[Len(a) - k + 1] = ids[k]
    BY <1>5, <2>2
  <2> QED BY <1>4, <1>7, <2>1, <2>2, <2>3
<1>10. ASSUME NEW j \in 1..Len(r), NEW k \in 1..Len(r), j < k PROVE r[j] > r[k]
  <2> DEFINE x == Len(a) - k + 1
             z == Len(a) - j + 1
  <2>1. x \in 1..Len(a) /\ z \in 1..Len(a) /\ x < z
    <3>1. Len(a) \in Nat /\ j \in 1..Len(a) /\ k \in 1..Len(a) /\ j < k
      BY <1>3, <1>7, <1>10
    <3> QED BY <3>1
  <2>2. r[j] = ids[z] /\ r[k] = ids[x]
    BY <1>5, <1>7
  <2> HIDE DEF x, z
  <2>3. a[x] < a[z] /\ a[x] \in 1..Len(tokens) /\ a[z] \in 1..Len(tokens)
    BY <1>2, <1>3, <2>1
  <2>4. tokens[a[x]].id < tokens[a[z]].id /\ tokens[a[x]].id \in Nat /\ tokens[a[z]].id \in Nat
    BY <1>1, <2>3 DEF InOrder
  <2> QED BY <1>4, <2>1, <2>2, <2>4
<1> QED BY <1>3, <1>7, <1>8, <1>9, <1>10 DEF Decreasing, r

\* A frame moves a token, or leaves it where it has arrived.
LEMMA MovedToken ==
  ASSUME NEW t \in Token, t.done <=> t.y = Height, NEW step \in Nat \ {0}
  PROVE  /\ Moved(t, step) \in Token /\ Moved(t, step).id = t.id
         /\ Moved(t, step).done <=> t.done \/ Arrives(t, step)
         /\ Moved(t, step).done <=> Moved(t, step).y = Height
         /\ ~Moved(t, step).done => Moved(t, step).y = t.y + step /\ t.y + step < Height
<1>1. Height \in Nat \ {0} /\ t.y \in 0..Height /\ t.id \in Nat /\ t.done \in BOOLEAN
  BY FeedAssumption DEF Token
<1>2. t = [id |-> t.id, y |-> t.y, done |-> t.done]
  BY DEF Token
<1>3. CASE t.done
  BY <1>3 DEF Moved, Arrives
<1>4. CASE ~t.done /\ t.y + step >= Height
  <2>1. Moved(t, step) = [id |-> t.id, y |-> Height, done |-> TRUE]
    BY <1>2, <1>4 DEF Moved
  <2>2. Height \in 0..Height
    BY <1>1
  <2> QED BY <1>1, <1>4, <2>1, <2>2 DEF Token, Arrives
<1>5. CASE ~t.done /\ ~(t.y + step >= Height)
  <2>1. Moved(t, step) = [id |-> t.id, y |-> t.y + step, done |-> t.done]
    BY <1>2, <1>5 DEF Moved
  <2>2. t.y + step \in 0..Height /\ t.y + step # Height /\ t.y + step < Height
    BY <1>1, <1>5
  <2> QED BY <1>1, <1>5, <2>1, <2>2 DEF Token, Arrives
<1> QED BY <1>3, <1>4, <1>5

\* What the invariant says of one token, and of two.
LEMMA FeedMeans ==
  ASSUME FeedInv
  PROVE  /\ Len(tokens) \in Nat /\ DOMAIN tokens = 1..Len(tokens)
         /\ Len(listed) \in Nat /\ Height \in Nat \ {0} /\ spawned \in Nat
         /\ \A i \in 1..Len(tokens) :
              /\ tokens[i] \in Token /\ tokens[i].id \in Nat /\ tokens[i].y \in 0..Height
              /\ tokens[i].done <=> tokens[i].y = Height
         /\ \A k \in 1..Len(listed) : listed[k] \in Nat
<1>1. tokens \in Seq(Token) /\ listed \in Seq(Nat)
  BY DEF FeedInv
<1>2. \A i \in 1..Len(tokens) : tokens[i] \in Token
  BY <1>1
<1>3. \A i \in 1..Len(tokens) : tokens[i].id \in Nat /\ tokens[i].y \in 0..Height
  BY <1>2 DEF Token
<1>4. Len(tokens) \in Nat /\ DOMAIN tokens = 1..Len(tokens) /\ Len(listed) \in Nat
      /\ \A k \in 1..Len(listed) : listed[k] \in Nat
  BY <1>1
<1> QED BY <1>2, <1>3, <1>4, FeedAssumption DEF FeedInv

\* A frame keeps the invariant.
LEMMA FrameInv ==
  ASSUME FeedInv, FrameTick
  PROVE  FeedInv'
<1> USE FeedMeans
<1>0. PICK step \in Steps :
        LET arrived == Picked(Len(tokens), {i \in DOMAIN tokens : Arrives(tokens[i], step)})
            lines == Reverse([i \in DOMAIN arrived |-> tokens[arrived[i]].id]) \o listed
        IN /\ tokens' = [i \in DOMAIN tokens |-> Moved(tokens[i], step)]
           /\ listed' = SubSeq(lines, 1,
                               IF Len(lines) > MaxListed THEN MaxListed ELSE Len(lines))
  BY DEF FrameTick
<1> DEFINE S == {i \in DOMAIN tokens : Arrives(tokens[i], step)}
           r == Lines(S)
           new == r \o listed
<1>1. step \in Nat \ {0} /\ MaxListed \in Nat \ {0} /\ spawned' = spawned
  BY FeedAssumption DEF FrameTick
<1>2. /\ tokens' = [i \in 1..Len(tokens) |-> Moved(tokens[i], step)]
      /\ listed' = Cut(new)
  BY <1>0 DEF Lines, Cut
<1>3. S \subseteq 1..Len(tokens)
      /\ \A i \in 1..Len(tokens) : i \in S <=> Arrives(tokens[i], step)
  OBVIOUS
<1> HIDE DEF S
<1>4. /\ r \in Seq(Nat) /\ Len(r) \in Nat /\ Decreasing(r)
      /\ \A k \in 1..Len(r) : \E i \in S : r[k] = tokens[i].id
      /\ \A i \in S : \E k \in 1..Len(r) : r[k] = tokens[i].id
  BY <1>3, NewLines
<1> HIDE DEF r
<1>5. /\ new \in Seq(Nat) /\ Len(new) = Len(r) + Len(listed)
      /\ \A k \in 1..Len(r) : new[k] = r[k] /\ k \in 1..Len(new)
      /\ \A k \in 1..Len(listed) : new[k + Len(r)] = listed[k] /\ k + Len(r) \in 1..Len(new)
  BY <1>4 DEF FeedInv
<1> HIDE DEF new
<1>6. \A k \in 1..Len(new) :
        \/ k \in 1..Len(r) /\ new[k] = r[k]
        \/ \E m \in 1..Len(listed) : k = m + Len(r) /\ new[k] = listed[m]
  <2> SUFFICES ASSUME NEW k \in 1..Len(new), k \notin 1..Len(r)
               PROVE  \E m \in 1..Len(listed) : k = m + Len(r) /\ new[k] = listed[m]
    BY <1>5
  <2>1. k - Len(r) \in 1..Len(listed) /\ k = (k - Len(r)) + Len(r)
    BY <1>4, <1>5
  <2> QED BY <1>5, <2>1
<1>7. \A k \in 1..Len(r), m \in 1..Len(listed) : r[k] > listed[m]
  <2> SUFFICES ASSUME NEW k \in 1..Len(r), NEW m \in 1..Len(listed)
               PROVE  r[k] > listed[m]
    OBVIOUS
  <2>1. PICK i \in S : r[k] = tokens[i].id
    BY <1>4
  <2>2. i \in 1..Len(tokens) /\ ~tokens[i].done
    BY <1>3 DEF Arrives
  <2>3. listed[m] < tokens[i].id
    BY <2>2 DEF FeedInv
  <2> QED BY <2>1, <2>2, <2>3
<1>8. Decreasing(new)
  <2> SUFFICES ASSUME NEW j \in 1..Len(new), NEW k \in 1..Len(new), j < k
               PROVE  new[j] > new[k]
    BY DEF Decreasing
  <2>1. CASE k \in 1..Len(r)
    <3>1. j \in 1..Len(r)
      BY <1>4, <2>1
    <3> QED BY <1>4, <1>5, <2>1, <3>1 DEF Decreasing
  <2>2. CASE k \notin 1..Len(r)
    <3>1. PICK m \in 1..Len(listed) : k = m + Len(r) /\ new[k] = listed[m]
      BY <1>6, <2>2
    <3>2. CASE j \in 1..Len(r)
      BY <1>5, <1>7, <3>1, <3>2
    <3>3. CASE j \notin 1..Len(r)
      <4>1. PICK q \in 1..Len(listed) : j = q + Len(r) /\ new[j] = listed[q]
        BY <1>6, <3>3
      <4>2. q < m
        BY <1>4, <3>1, <4>1
      <4> QED BY <3>1, <4>1, <4>2 DEF FeedInv, Decreasing
    <3> QED BY <3>2, <3>3
  <2> QED BY <2>1, <2>2
<1>9. /\ listed' \in Seq(Nat) /\ Len(listed') <= MaxListed /\ Decreasing(listed')
      /\ \A k \in 1..Len(listed') : k \in 1..Len(new) /\ listed'[k] = new[k]
      /\ Len(new) >= MaxListed => Len(listed') = MaxListed
      /\ \A k \in 1..Len(new) : Accounted(new[k], listed')
  BY <1>2, <1>5, <1>8, CutLines
<1>10. /\ tokens' \in Seq(Token) /\ Len(tokens') = Len(tokens)
       /\ \A i \in 1..Len(tokens) :
            /\ tokens'[i].id = tokens[i].id
            /\ tokens'[i].done <=> tokens[i].done \/ i \in S
            /\ tokens'[i].done <=> tokens'[i].y = Height
            /\ tokens'[i].y \in 0..Height
            /\ ~tokens'[i].done =>
                 tokens'[i].y = tokens[i].y + step /\ tokens[i].y + step < Height
  <2>1. \A i \in 1..Len(tokens) : tokens'[i] = Moved(tokens[i], step) /\ tokens'[i] \in Token
    BY <1>1, <1>2, MovedToken
  <2>2. tokens' \in Seq(Token) /\ Len(tokens') = Len(tokens)
    <3>1. tokens' \in [1..Len(tokens) -> Token]
      BY <1>2, <2>1
    <3> QED BY <3>1
  <2>3. \A i \in 1..Len(tokens) : tokens'[i].y \in 0..Height
    BY <2>1 DEF Token
  <2>4. ASSUME NEW i \in 1..Len(tokens)
        PROVE  /\ tokens'[i].id = tokens[i].id
               /\ tokens'[i].done <=> tokens[i].done \/ i \in S
               /\ tokens'[i].done <=> tokens'[i].y = Height
               /\ ~tokens'[i].done
                    => tokens'[i].y = tokens[i].y + step /\ tokens[i].y + step < Height
    <3>1. tokens[i] \in Token /\ (tokens[i].done <=> tokens[i].y = Height)
      OBVIOUS
    <3>2. tokens'[i] = Moved(tokens[i], step) /\ (i \in S <=> Arrives(tokens[i], step))
      BY <1>3, <2>1
    <3> QED BY ONLY <1>1, <3>1, <3>2, MovedToken
  <2> QED BY ONLY <2>2, <2>3, <2>4
<1>11. InOrder(tokens')
  <2> SUFFICES ASSUME NEW i \in 1..Len(tokens), NEW j \in 1..Len(tokens), i < j
               PROVE  tokens'[i].id < tokens'[j].id /\ tokens'[i].y >= tokens'[j].y
    BY <1>10 DEF InOrder
  <2>1. tokens[i].id < tokens[j].id /\ tokens[i].y >= tokens[j].y
    BY DEF FeedInv, InOrder
  <2>2. CASE tokens'[i].done
    <3>1. tokens'[i].y = Height /\ tokens'[j].y \in 0..Height
      BY <1>10, <2>2
    <3> QED BY <1>10, <2>1, <3>1
  <2>3. CASE ~tokens'[i].done
    <3>1. tokens'[i].y = tokens[i].y + step /\ tokens[i].y + step < Height
      BY <1>10, <2>3
    <3>2. ~tokens[j].done /\ j \notin S
      <4>1. tokens[j].y + step < Height /\ tokens[j].y # Height
        BY <1>1, <2>1, <3>1
      <4> QED BY <1>1, <1>3, <4>1 DEF Arrives
    <3>3. tokens'[j].y = tokens[j].y + step
      BY <1>10, <3>2
    <3>4. tokens[i].y \in Nat /\ tokens[j].y \in Nat /\ step \in Nat
      BY <1>1
    <3>5. tokens'[i].y >= tokens'[j].y
      BY ONLY <2>1, <3>1, <3>3, <3>4
    <3> QED BY <1>10, <2>1, <3>5
  <2> QED BY <2>2, <2>3
<1>12. \A k \in 1..Len(listed') : listed'[k] <= spawned
  <2> SUFFICES ASSUME NEW k \in 1..Len(new) PROVE new[k] <= spawned
    BY <1>9
  <2>1. CASE k \in 1..Len(r)
    <3>1. PICK i \in S : r[k] = tokens[i].id
      BY <1>4, <2>1
    <3> QED BY <1>3, <1>5, <2>1, <3>1 DEF FeedInv
  <2>2. CASE k \notin 1..Len(r)
    BY <1>6, <2>2 DEF FeedInv
  <2> QED BY <2>1, <2>2
<1>13. ASSUME NEW i \in 1..Len(tokens), tokens'[i].done
       PROVE  Accounted(tokens[i].id, listed')
  <2>1. CASE i \in S
    <3>1. PICK k \in 1..Len(r) : r[k] = tokens[i].id
      BY <1>4, <2>1
    <3> QED BY <1>5, <1>9, <3>1
  <2>2. CASE i \notin S
    <3>1. Accounted(tokens[i].id, listed)
      BY <1>10, <1>13, <2>2 DEF FeedInv
    <3>2. CASE \E m \in 1..Len(listed) : listed[m] = tokens[i].id
      <4>1. PICK m \in 1..Len(listed) : listed[m] = tokens[i].id
        BY <3>2
      <4> QED BY <1>5, <1>9, <4>1
    <3>3. CASE Len(listed) = MaxListed /\ \A k \in 1..Len(listed) : listed[k] > tokens[i].id
      <4>1. Len(listed') = MaxListed
        BY <1>1, <1>4, <1>5, <1>9, <3>3
      <4>2. ASSUME NEW k \in 1..Len(listed') PROVE listed'[k] > tokens[i].id
        <5>1. k \in 1..Len(new) /\ listed'[k] = new[k]
          BY <1>9
        <5>2. CASE k \in 1..Len(r)
          <6>1. 1 \in 1..Len(listed)
            BY <1>1, <3>3
          <6>2. r[k] > listed[1] /\ listed[1] > tokens[i].id
            BY <1>7, <3>3, <5>2, <6>1
          <6>3. r[k] \in Nat
            BY <1>4, <5>2
          <6>4. listed[1] \in Nat /\ tokens[i].id \in Nat
            BY <6>1
          <6>5. r[k] > tokens[i].id
            BY ONLY <6>2, <6>3, <6>4
          <6> QED BY <1>5, <5>1, <5>2, <6>5
        <5>3. CASE k \notin 1..Len(r)
          BY <1>6, <3>3, <5>1, <5>3
        <5> QED BY <5>2, <5>3
      <4> QED BY <4>1, <4>2 DEF Accounted
    <3> QED BY <3>1, <3>2, <3>3 DEF Accounted
  <2> QED BY <2>1, <2>2
<1>14. ASSUME NEW i \in 1..Len(tokens), ~tokens'[i].done, NEW k \in 1..Len(listed')
       PROVE  listed'[k] < tokens[i].id
  <2>1. k \in 1..Len(new) /\ listed'[k] = new[k] /\ ~tokens[i].done /\ i \notin S
    BY <1>9, <1>10, <1>14
  <2>2. CASE k \in 1..Len(r)
    <3>1. PICK j \in S : r[k] = tokens[j].id
      BY <1>4, <2>2
    <3>2. j \in 1..Len(tokens) /\ tokens[j].y + step >= Height /\ tokens[i].y + step < Height
      BY <1>3, <1>10, <1>14, <3>1 DEF Arrives
    <3>3. ~(tokens[i].y >= tokens[j].y)
      BY <1>1, <3>2
    <3>4. j < i
      <4>1. ~(i < j)
        BY <3>2, <3>3 DEF FeedInv, InOrder
      <4> QED BY <2>1, <3>2, <4>1
    <3>5. tokens[j].id < tokens[i].id
      BY <3>2, <3>4 DEF FeedInv, InOrder
    <3> QED BY <1>5, <2>1, <2>2, <3>1, <3>5
  <2>3. CASE k \notin 1..Len(r)
    <3>1. PICK m \in 1..Len(listed) : new[k] = listed[m]
      BY <1>6, <2>1, <2>3
    <3> QED BY <2>1, <3>1 DEF FeedInv
  <2> QED BY <2>2, <2>3
<1>15. \A i \in 1..Len(tokens) : tokens'[i].id <= spawned /\ tokens'[i].id >= 1
  BY <1>10 DEF FeedInv
<1> QED BY <1>1, <1>9, <1>10, <1>11, <1>12, <1>13, <1>14, <1>15 DEF FeedInv

\* So does a token that is spawned: it is younger than what falls or is listed.
LEMMA SpawnInv ==
  ASSUME FeedInv, SpawnToken
  PROVE  FeedInv'
<1> USE FeedMeans
<1> DEFINE y == Youngest(tokens, Kept)
           t == [id |-> spawned + 1, y |-> 0, done |-> FALSE]
<1>1. /\ tokens' = Append(y, t) /\ spawned' = spawned + 1 /\ listed' = listed
      /\ Kept \in Nat \ {0}
  BY FeedAssumption DEF SpawnToken
<1>2. t \in Token /\ t.id = spawned + 1 /\ t.y = 0 /\ ~t.done /\ t.y # Height
  BY DEF Token
<1> HIDE DEF t
<1>3. PICK d \in Nat : /\ y \in Seq(Token) /\ Len(y) \in Nat /\ Len(y) + d = Len(tokens)
                       /\ \A k \in 1..Len(y) : y[k] = tokens[k + d] /\ k + d \in 1..Len(tokens)
  <2>1. tokens \in Seq(Token)
    BY DEF FeedInv
  <2>2. CASE Len(tokens) > Kept
    <3>1. y = SubSeq(tokens, Len(tokens) - Kept + 1, Len(tokens))
      BY <2>2 DEF Youngest
    <3>2. Len(tokens) - Kept \in Nat /\ Len(tokens) - Kept + 1 \in 1..Len(tokens)
      BY <1>1, <2>2
    <3>3. y \in Seq(Token) /\ Len(y) = Kept
          /\ \A k \in 1..Kept : y[k] = tokens[k + (Len(tokens) - Kept)]
      BY <1>1, <2>1, <3>1, <3>2
    <3>4. \A k \in 1..Kept : k + (Len(tokens) - Kept) \in 1..Len(tokens)
      BY <1>1, <3>2
    <3>5. Kept + (Len(tokens) - Kept) = Len(tokens)
      BY <1>1
    <3> HIDE DEF y
    <3> QED BY <1>1, <3>2, <3>3, <3>4, <3>5
  <2>3. CASE ~(Len(tokens) > Kept)
    <3>1. y = tokens
      BY <2>3 DEF Youngest
    <3>2. \A k \in 1..Len(tokens) : k + 0 = k
      OBVIOUS
    <3> HIDE DEF y
    <3>3. /\ y \in Seq(Token) /\ Len(y) \in Nat /\ Len(y) + 0 = Len(tokens)
          /\ \A k \in 1..Len(y) : y[k] = tokens[k + 0] /\ k + 0 \in 1..Len(tokens)
      BY <2>1, <3>1, <3>2
    <3> QED BY <3>3
  <2> QED BY <2>2, <2>3
<1> HIDE DEF y
<1>4. /\ tokens' \in Seq(Token) /\ Len(tokens') = Len(y) + 1 /\ tokens'[Len(y) + 1] = t
      /\ \A k \in 1..Len(y) : tokens'[k] = y[k]
  BY <1>1, <1>2, <1>3
<1>5. \A k \in 1..Len(tokens') :
        \/ k = Len(y) + 1 /\ tokens'[k] = t
        \/ k \in 1..Len(y) /\ k + d \in 1..Len(tokens) /\ tokens'[k] = tokens[k + d]
  BY <1>3, <1>4
<1>6. InOrder(tokens')
  <2> SUFFICES ASSUME NEW i \in 1..Len(tokens'), NEW j \in 1..Len(tokens'), i < j
               PROVE  tokens'[i].id < tokens'[j].id /\ tokens'[i].y >= tokens'[j].y
    BY DEF InOrder
  <2>1. i \in 1..Len(y) /\ i + d \in 1..Len(tokens) /\ tokens'[i] = tokens[i + d]
    BY <1>3, <1>4, <1>5
  <2>2. CASE j = Len(y) + 1
    <3>1. tokens[i + d].id <= spawned /\ tokens[i + d].y >= 0 /\ tokens[i + d].id \in Nat
      BY <2>1 DEF FeedInv
    <3> QED BY <1>2, <1>4, <2>1, <2>2, <3>1
  <2>3. CASE j # Len(y) + 1
    <3>1. j + d \in 1..Len(tokens) /\ tokens'[j] = tokens[j + d] /\ i + d < j + d
      BY <1>3, <1>5, <2>3
    <3> QED BY <2>1, <3>1 DEF FeedInv, InOrder
  <2> QED BY <2>2, <2>3
<1>7. ASSUME NEW i \in 1..Len(tokens')
      PROVE  /\ tokens'[i].id <= spawned' /\ tokens'[i].id >= 1
             /\ tokens'[i].done <=> tokens'[i].y = Height
             /\ IF tokens'[i].done THEN Accounted(tokens'[i].id, listed)
                ELSE \A k \in 1..Len(listed) : listed[k] < tokens'[i].id
  <2>1. CASE tokens'[i] = t
    <3>1. \A k \in 1..Len(listed) : listed[k] < spawned + 1
      BY DEF FeedInv
    <3> QED BY <1>1, <1>2, <2>1, <3>1
  <2>2. CASE i + d \in 1..Len(tokens) /\ tokens'[i] = tokens[i + d]
    <3> DEFINE e == tokens[i + d]
    <3>1. /\ e.id <= spawned /\ e.id >= 1 /\ e.id \in Nat
          /\ e.done <=> e.y = Height
          /\ IF e.done THEN Accounted(e.id, listed)
             ELSE \A k \in 1..Len(listed) : listed[k] < e.id
      BY <2>2 DEF FeedInv
    <3>2. tokens'[i] = e
      BY <2>2
    <3> HIDE DEF e
    <3>3. e.id <= spawned'
      BY <1>1, <3>1
    <3> QED BY <3>1, <3>2, <3>3
  <2> QED BY <1>5, <2>1, <2>2
<1>8. \A k \in 1..Len(listed) : listed[k] <= spawned'
  BY <1>1 DEF FeedInv
<1> QED BY <1>1, <1>4, <1>6, <1>7, <1>8 DEF FeedInv

\* What there is to know of a feed that is empty.
LEMMA EmptyFeed ==
  /\ <<>> \in Seq(Token) /\ <<>> \in Seq(Nat) /\ Len(<<>>) = 0 /\ 1..0 = {} /\ 0 \in Nat
  /\ 0 <= MaxListed
  BY FeedAssumption

\* Every step of the feed keeps the invariant.
LEMMA FeedKept ==
  ASSUME FeedInv, [Next]_vars
  PROVE  FeedInv'
<1>1. FeedStep \/ UNCHANGED feedVars
  BY DEF Next, vars, panelVars
<1>2. CASE MountFeed \/ UNCHANGED feedVars
  BY <1>2 DEF MountFeed, feedVars, FeedInv, InOrder, Decreasing, Accounted
<1>3. CASE LeaveFeed
  <2>1. tokens' = <<>> /\ spawned' = 0 /\ listed' = <<>>
    BY <1>3 DEF LeaveFeed
  <2> QED BY <2>1, EmptyFeed DEF FeedInv, InOrder, Decreasing
<1> QED BY <1>1, <1>2, <1>3, FrameInv, SpawnInv DEF FeedStep

\* The feed starts empty.
LEMMA FeedStart == Init => FeedInv
<1> SUFFICES ASSUME Init PROVE FeedInv
  OBVIOUS
<1>1. tokens = <<>> /\ spawned = 0 /\ listed = <<>>
  BY DEF Init, FeedInit
<1> QED BY <1>1, EmptyFeed DEF FeedInv, InOrder, Decreasing

\* The property is what the invariant says of the terminal.
LEMMA FeedLists == FeedInv => TerminalListsArrivals
<1> SUFFICES ASSUME FeedInv PROVE TerminalListsArrivals
  OBVIOUS
<1>1. /\ tokens \in Seq(Token) /\ DOMAIN tokens = 1..Len(tokens)
      /\ listed \in Seq(Nat) /\ DOMAIN listed = 1..Len(listed)
  BY DEF FeedInv
<1>2. \A k \in 1..Len(listed) : listed[k] \in Range(listed)
  BY <1>1 DEF Range
<1>3. \A x \in Range(listed) : \E k \in 1..Len(listed) : x = listed[k]
  BY <1>1 DEF Range
<1>4. ASSUME NEW i \in 1..Len(tokens)
      PROVE  IF tokens[i].done
             THEN \/ tokens[i].id \in Range(listed)
                  \/ Len(listed) = MaxListed /\ \A x \in Range(listed) : x > tokens[i].id
             ELSE tokens[i].id \notin Range(listed)
  <2>1. CASE tokens[i].done
    <3>1. Accounted(tokens[i].id, listed)
      BY <2>1 DEF FeedInv
    <3> QED BY <1>2, <1>3, <2>1, <3>1 DEF Accounted
  <2>2. CASE ~tokens[i].done
    <3>1. \A k \in 1..Len(listed) : listed[k] < tokens[i].id /\ listed[k] \in Nat
      BY <1>1, <2>2 DEF FeedInv
    <3> QED BY <1>3, <2>2, <3>1
  <2> QED BY <2>1, <2>2
<1>5. \A t \in Range(tokens) : \E i \in 1..Len(tokens) : t = tokens[i]
  BY <1>1 DEF Range
<1>6. \A i, j \in DOMAIN listed : i < j => listed[i] > listed[j]
  BY <1>1 DEF FeedInv, Decreasing
<1> QED BY <1>4, <1>5, <1>6 DEF TerminalListsArrivals

-----------------------------------------------------------------------------
(* The Timeline page.  The recorder never drops a snapshot without adding    *)
(* one, so a position that was there stays there; and it drops none before   *)
(* it is full, so until then the position is of the snapshot asked for.      *)

\* Why a snapshot was recorded.
Labels == {"periodic", "change"}

\* The types of the recorder and of the page, and what the page promises.
TimelineInv ==
  /\ history \in Seq(Labels) /\ Len(history) \in 1..MaxHistory
  /\ replay \in 0..Len(history)
  /\ chosen \in 0..replay /\ (chosen < replay => Len(history) = MaxHistory)
  /\ playing \in BOOLEAN /\ (playing => replay # Live)
  /\ pos \in Nat \ {0}

\* Some event is listed, the first snapshot at least, and every event listed is a
\* snapshot.
LEMMA Listing ==
  ASSUME TimelineInv
  PROVE  /\ Len(Significant) \in Nat /\ Len(Significant) >= 1
         /\ \A k \in 1..Len(Significant) : Significant[k] \in 1..Len(history)
         /\ DOMAIN Significant = 1..Len(Significant)
<1> DEFINE S == {i \in DOMAIN history : history[i] # "periodic" \/ (i - 1) % 3 = 0}
<1>1. /\ Len(history) \in Nat /\ Len(history) >= 1 /\ DOMAIN history = 1..Len(history)
  BY HistoryAssumption DEF TimelineInv
<1>2. S \subseteq 1..Len(history)
  BY <1>1
<1>3. 1 \in S
  BY <1>1
<1>4. Significant = Picked(Len(history), S)
  BY DEF Significant
<1> HIDE DEF S
<1>5. /\ Significant \in Seq(S)
      /\ \E k \in 1..Len(Significant) : Significant[k] = 1
  <2> DEFINE p == Picked(Len(history), S)
  <2>1. p \in Seq(S) /\ \A x \in S : \E k \in 1..Len(p) : p[k] = x
    BY <1>1, <1>2, PickedInOrder
  <2> HIDE DEF p
  <2>2. \E k \in 1..Len(p) : p[k] = 1
    BY <1>3, <2>1
  <2> QED BY <1>4, <2>1, <2>2 DEF p
<1>6. \A k \in 1..Len(Significant) : Significant[k] \in S
  BY <1>5
<1>7. Len(Significant) \in Nat /\ DOMAIN Significant = 1..Len(Significant)
  BY <1>5
<1>8. Len(Significant) >= 1
  BY <1>5, <1>7
<1>9. \A k \in 1..Len(Significant) : Significant[k] \in 1..Len(history)
  BY <1>2, <1>6
<1> QED BY <1>7, <1>8, <1>9

\* Recording keeps the positions.
LEMMA RecordKeeps ==
  ASSUME TimelineInv, NEW label \in Labels, Record(label)
  PROVE  TimelineInv'
<1> DEFINE t == Append(history, label)
<1>1. /\ t \in Seq(Labels) /\ Len(t) = Len(history) + 1 /\ Len(history) \in 1..MaxHistory
      /\ MaxHistory \in Nat \ {0}
  BY HistoryAssumption DEF TimelineInv
<1>2. history' = Trim(t) /\ UNCHANGED <<replay, playing, pos>>
      /\ chosen' = After(chosen, Len(history) + 1 - Len(history'))
  BY DEF Record
<1> HIDE DEF t
<1>3. /\ history' \in Seq(Labels) /\ Len(history') \in 1..MaxHistory
      /\ Len(history') >= Len(history)
      /\ Len(history') = Len(history) \/ Len(history') = Len(history) + 1
      /\ Len(history') = Len(history) => Len(history) = MaxHistory
  <2>1. CASE Len(t) > MaxHistory
    <3>1. history' = SubSeq(t, Len(t) - MaxHistory + 1, Len(t))
      BY <1>2, <2>1 DEF Trim
    <3>2. Len(t) - MaxHistory + 1 \in 1..Len(t) /\ Len(t) \in Nat
      BY <1>1, <2>1
    <3>3. history' \in Seq(Labels) /\ Len(history') = MaxHistory
      BY <1>1, <3>1, <3>2
    <3>4. Len(history) = MaxHistory
      BY <1>1, <2>1
    <3> QED BY <1>1, <3>3, <3>4
  <2>2. CASE ~(Len(t) > MaxHistory)
    BY <1>1, <1>2, <2>2 DEF Trim
  <2> QED BY <2>1, <2>2
<1>4. replay \in 0..Len(history')
  BY <1>1, <1>3 DEF TimelineInv
<1>5. chosen' \in 0..replay /\ (chosen' < replay => Len(history') = MaxHistory)
  <2>1. /\ chosen \in 0..replay /\ (chosen < replay => Len(history) = MaxHistory)
        /\ replay \in Nat /\ Len(history) \in Nat /\ Len(history') \in Nat
    BY <1>1, <1>3 DEF TimelineInv
  <2>2. chosen' = IF chosen > Len(history) + 1 - Len(history')
                  THEN chosen - (Len(history) + 1 - Len(history')) ELSE 0
    BY <1>2 DEF After
  <2>3. CASE Len(history') = Len(history)
    <3>1. Len(history) + 1 - Len(history') = 1 /\ Len(history') = MaxHistory
      BY <1>3, <2>1, <2>3
    <3> QED BY <2>1, <2>2, <3>1
  <2>4. CASE Len(history') = Len(history) + 1
    <3>1. chosen' = chosen
      BY <2>1, <2>2, <2>4
    <3>2. Len(history) # MaxHistory
      BY <1>1, <1>3, <2>4
    <3> QED BY <2>1, <3>1, <3>2
  <2> QED BY <1>3, <2>3, <2>4
<1> QED BY <1>2, <1>3, <1>4, <1>5 DEF TimelineInv

\* So does a replay that starts at an event: the snapshot asked for is replayed.
LEMMA ReplayKeeps ==
  ASSUME TimelineInv, NEW e \in 1..Len(Significant), ReplayEvent(e)
  PROVE  /\ replay' \in 1..Len(history) /\ chosen' = replay'
         /\ replay' # Live /\ chosen' \in 0..replay'
<1>1. Significant[e] \in 1..Len(history) /\ Len(history) \in Nat
  BY Listing DEF TimelineInv
<1> QED BY <1>1 DEF ReplayEvent, Live

\* Every step keeps the invariant.
LEMMA TimelineKept ==
  ASSUME TimelineInv, [Next]_vars
  PROVE  TimelineInv'
<1>1. TimelineStep \/ UNCHANGED timelineVars
  BY DEF Next, vars, panelVars
<1>2. /\ Len(Significant) \in Nat /\ Len(Significant) >= 1
      /\ \A k \in 1..Len(Significant) : Significant[k] \in 1..Len(history)
      /\ DOMAIN Significant = 1..Len(Significant)
  BY Listing
<1>3. /\ Len(history) \in Nat /\ Live = 0 /\ playing \in BOOLEAN /\ pos \in Nat \ {0}
      /\ \A i \in 1..Len(history) : i \in 0..Len(history) /\ i # Live
  BY DEF TimelineInv, Live
<1>4. CASE UNCHANGED timelineVars
  BY <1>4 DEF timelineVars, TimelineInv
<1>5. CASE Recording
  BY <1>5, RecordKeeps DEF Recording, Labels
<1>6. CASE MountTimeline
  BY <1>6 DEF MountTimeline, timelineVars, TimelineInv
<1>7. CASE LeaveTimeline
  <2>1. UNCHANGED <<history, replay, chosen>> /\ playing' = FALSE /\ pos' = 1
    BY <1>7 DEF LeaveTimeline
  <2>2. playing' \in BOOLEAN /\ ~playing'
    BY <2>1
  <2>3. 1 \in Nat \ {0}
    OBVIOUS
  <2> QED BY <2>1, <2>2, <2>3 DEF TimelineInv
<1>8. CASE Jump
  <2>1. PICK i \in DOMAIN Significant \cup {Prev} : JumpTo(i)
    BY <1>8 DEF Jump
  <2>2. i \in Nat \ {0}
    BY <1>2, <1>3 DEF Prev
  <2>3. pos' = i /\ UNCHANGED <<history, playing>>
    BY <2>1 DEF JumpTo
  <2>4. CASE i \in DOMAIN Significant
    <3>1. ReplayEvent(i) /\ i \in 1..Len(Significant)
      BY <1>2, <2>1, <2>4 DEF JumpTo
    <3> QED BY <1>3, <2>2, <2>3, <3>1, ReplayKeeps DEF TimelineInv
  <2>5. CASE i \notin DOMAIN Significant
    BY <2>1, <2>2, <2>3, <2>5 DEF JumpTo, TimelineInv
  <2> QED BY <2>4, <2>5
<1>9. CASE TogglePlay
  <2> DEFINE k == IF CurrentIdx = {} \/ Len(Significant) \in CurrentIdx
                  THEN 1 ELSE CHOOSE x \in CurrentIdx : TRUE
  <2>1. k \in 1..Len(Significant)
    <3>1. CurrentIdx \subseteq 1..Len(Significant)
      BY <1>2 DEF CurrentIdx
    <3>2. CurrentIdx # {} => (CHOOSE x \in CurrentIdx : TRUE) \in CurrentIdx
      OBVIOUS
    <3>3. CASE CurrentIdx = {} \/ Len(Significant) \in CurrentIdx
      BY <1>2, <3>3
    <3>4. CASE ~(CurrentIdx = {} \/ Len(Significant) \in CurrentIdx)
      <4>1. k = CHOOSE x \in CurrentIdx : TRUE
        BY <3>4
      <4>2. k \in CurrentIdx
        BY <3>2, <3>4, <4>1
      <4> HIDE DEF k
      <4> QED BY <3>1, <4>2
    <3> QED BY <3>3, <3>4
  <2>2. playing' = ~playing /\ UNCHANGED <<history, pos>>
        /\ IF playing THEN UNCHANGED <<replay, chosen>> ELSE ReplayEvent(k)
    BY <1>9 DEF TogglePlay
  <2> HIDE DEF k
  <2>3. CASE playing
    BY <2>2, <2>3 DEF TimelineInv
  <2>4. CASE ~playing
    <3>1. ReplayEvent(k)
      BY <2>2, <2>4
    <3> QED BY <1>3, <2>1, <2>2, <2>4, <3>1, ReplayKeeps DEF TimelineInv
  <2> QED BY <2>3, <2>4
<1>10. CASE PlaybackTick
  <2>1. playing /\ UNCHANGED history
    BY <1>10 DEF PlaybackTick
  <2>2. CASE pos >= Len(Significant)
    BY <1>10, <2>1, <2>2 DEF PlaybackTick, TimelineInv
  <2>3. CASE ~(pos >= Len(Significant))
    <3>1. pos' = pos + 1 /\ ReplayEvent(pos + 1) /\ UNCHANGED <<playing, history>>
      BY <1>10, <2>3 DEF PlaybackTick
    <3>2. pos + 1 \in 1..Len(Significant) /\ pos + 1 \in Nat \ {0}
      BY <1>2, <1>3, <2>3
    <3> QED BY <1>3, <3>1, <3>2, ReplayKeeps DEF TimelineInv
  <2> QED BY <2>2, <2>3
<1>11. CASE HandleStop
  <2>1. UNCHANGED history /\ replay' = 0 /\ chosen' = 0 /\ playing' = FALSE /\ pos' = 1
    BY <1>11 DEF HandleStop, Live
  <2>2. playing' \in BOOLEAN /\ ~playing'
    BY <2>1
  <2>3. 1 \in Nat \ {0} /\ 0 \in 0..Len(history)
    BY <1>3
  <2> QED BY <2>1, <2>2, <2>3 DEF TimelineInv
<1> QED BY <1>1, <1>4, <1>5, <1>6, <1>7, <1>8, <1>9, <1>10, <1>11 DEF TimelineStep

\* The recorder starts with the change that opens the dashboard.
LEMMA TimelineStart == Init => TimelineInv
<1> SUFFICES ASSUME Init PROVE TimelineInv
  OBVIOUS
<1>1. history = <<"change">> /\ replay = 0 /\ chosen = 0 /\ playing = FALSE /\ pos = 1
  BY DEF Init, TimelineInit, Live
<1>2. history \in Seq(Labels) /\ Len(history) = 1
  BY <1>1 DEF Labels
<1>3. MaxHistory \in Nat \ {0}
  BY HistoryAssumption
<1>4. playing \in BOOLEAN /\ ~playing
  BY <1>1
<1>5. /\ Len(history) \in 1..MaxHistory /\ replay \in 0..Len(history) /\ pos \in Nat \ {0}
      /\ chosen \in 0..replay /\ ~(chosen < replay)
  BY <1>1, <1>2, <1>3
<1> QED BY <1>2, <1>4, <1>5 DEF TimelineInv

-----------------------------------------------------------------------------
(* The invariant.                                                           *)

\* Every panel's own invariant; none is about another panel's state.
IInv ==
  /\ acts \in Nat
  /\ LogInv /\ Len(log) <= MaxLog
  /\ MetricInv /\ StorageInv /\ FeedInv /\ OverlayInv /\ KeyInv /\ TimelineInv

\* Every panel starts in its invariant.
LEMMA InitInv == Init => IInv
<1> SUFFICES ASSUME Init PROVE IInv
  OBVIOUS
<1>1. NoLink \in Links /\ NoLink.ws = "none" /\ ~NoLink.timer /\ ~NoLink.badge
  BY DEF NoLink, Links
<1>2. LogInv
  <2>1. Seeds \in Nat /\ "INFO" \in LogLevels
    BY LogAssumption
  <2>2. Seeded \in [1..Seeds -> Entry]
    BY <2>1 DEF Seeded, Entry, Origins
  <2>3. Seeded \in Seq(Entry)
    BY <2>1, <2>2
  <2>4. stage # "mounted" \/ scene # "logs"
    BY DEF Init
  <2>5. log = Seeded /\ nextId = Seeds + 1 /\ link = NoLink /\ deaf = FALSE /\ paused = FALSE
    BY DEF Init, LogInit
  <2>6. LinkIsCurrent /\ ShownIsLog
    BY <1>1, <2>4, <2>5 DEF LinkIsCurrent, ShownIsLog
  <2>7. nextId \in Nat
    BY <2>1, <2>5
  <2> HIDE DEF Seeded
  <2> QED BY <1>1, <2>3, <2>5, <2>6, <2>7 DEF LogInv
<1>3. MetricInv
  BY <1>1 DEF Init, MetricInit, MetricInv
<1>4. StorageInv
  BY DEF Init, StorageInit, StorageInv
<1>5. OverlayInv
  BY DEF Init, OverlayInit, OverlayInv, ListedOf
<1>6. KeyInv
  <2>1. key = "" /\ requests = <<>> /\ loading = FALSE /\ error = FALSE
    BY DEF Init, KeyInit
  <2>2. requests = <<>>
    BY <2>1
  <2>3. requests \in Seq(KeyRequest)
    BY <2>2
  <2> QED BY <2>1, <2>3 DEF KeyInv, PanelFollowsRequests
<1>7. Len(log) <= MaxLog
  <2>1. Seeds \in Nat /\ Seeds <= MaxLog /\ MaxLog \in Nat
    BY LogAssumption
  <2>2. log = [i \in 1..Seeds |-> [id |-> i, from |-> "generator", level |-> "INFO"]]
    BY DEF Init, LogInit, Seeded
  <2>3. Len(log) = Seeds
    BY <2>1, <2>2
  <2> QED BY <2>1, <2>3
<1> QED BY <1>2, <1>3, <1>4, <1>5, <1>6, <1>7, FeedStart, TimelineStart, ActsAssumption
        DEF IInv, Init

\* The invariant is inductive.
LEMMA Invariance == Spec => []IInv
<1>1. Init => IInv
  BY InitInv
<1>2. IInv /\ [Next]_vars => IInv'
  BY Life, LogKept, LogKeeps, MetricKept, StorageKept, FeedKept, OverlayKept, KeyKept,
     TimelineKept DEF IInv
<1> QED BY <1>1, <1>2, PTL DEF Spec

-----------------------------------------------------------------------------
(* The theorems.                                                            *)

\* What the mounted Logs page shows is the buffer, whatever was written to it
\* between the page's first render and its subscription (logStore.ts).
THEOREM LogIsShown == Spec => []ShownIsLog
<1>1. IInv => ShownIsLog
  BY DEF IInv, LogInv
<1> QED BY <1>1, Invariance, PTL

\* A paused page, or one that was left, takes nothing from the socket (Logs.tsx).
THEOREM PausedIsDeaf == Spec => PausedAddsNothing
<1> DEFINE Holds == nextId' > nextId /\ Last(log').from = "socket"
                     => ~paused /\ stage = "mounted"
<1>1. ASSUME IInv, [Next]_vars PROVE Holds
  <2>1. /\ log \in Seq(Entry) /\ nextId \in Nat /\ LinkIsCurrent
        /\ paused \in BOOLEAN /\ deaf \in BOOLEAN
    BY <1>1 DEF IInv, LogInv
  <2>2. ASSUME UNCHANGED nextId PROVE Holds
    BY <2>1, <2>2
  <2>3. LogStep \/ UNCHANGED logVars
    BY <1>1 DEF Next, vars, panelVars
  <2>4. ASSUME Tick \/ Hear PROVE Holds
    <3>1. PICK from \in {"generator", "event"} : Push(from)
      BY <2>4 DEF Tick, Hear
    <3>2. Last(log').from = from
      BY <2>1, <3>1, PushEffect DEF Origins
    <3> QED BY <3>2
  <2>5. ASSUME OnMessage PROVE Holds
    BY <2>1, <2>5 DEF OnMessage, LinkIsCurrent
  <2>6. ASSUME \/ Open \/ Effects \/ Leave \/ Receive \/ NoReply \/ ClickPause \/ ClickClear
               \/ ToggleLevel \/ OnOpen \/ OnClose \/ Reconnect
        PROVE  Holds
    BY <2>2, <2>6 DEF Open, Effects, Leave, Receive, Seed, NoReply, ClickPause, ClickClear,
       Clear, ToggleLevel, OnOpen, OnClose, Reconnect
  <2>7. ASSUME UNCHANGED logVars PROVE Holds
    BY <2>2, <2>7 DEF logVars
  <2> HIDE DEF Holds
  <2> QED BY <2>3, <2>4, <2>5, <2>6, <2>7 DEF LogStep
<1>2. IInv /\ [Next]_vars => [Holds]_logVars
  BY <1>1
<1> QED BY <1>2, Invariance, PTL DEF Spec, PausedAddsNothing

\* Nothing is called live on the Metrics page but what comes from an open socket
\* (useMetricsWS.ts, Metrics.tsx).
THEOREM LiveIsConnected == Spec => []LiveMeansConnected
<1>1. IInv => LiveMeansConnected
  BY DEF IInv, MetricInv, LiveMeansConnected, LiveCards, IsLive, TableLabel, OfflineHint
<1> QED BY <1>1, Invariance, PTL

\* The diagram of the Storage page goes through the phases of one flush at a time
\* (LSMTreeDiagram.tsx).
THEOREM PhasesAreInOrder == Spec => PhasesInOrder
<1> DEFINE Holds == phase' # phase /\ stage' = "mounted"
                     => \E k \in 1..4 : phase = Phases[k] /\ phase' = Phases[(k % 4) + 1]
<1>1. IInv /\ [Next]_vars => [Holds]_storageVars
  BY StorageKept DEF IInv
<1> QED BY <1>1, Invariance, PTL DEF Spec, PhasesInOrder

\* The task panel folds by itself only when nothing is listed in it
\* (BackgroundTasksWidget.tsx).
THEOREM PanelStays == Spec => PanelStaysForTasks
<1> DEFINE Holds == open /\ ~open' /\ acts' = acts => ListedOf(task) = {}
<1>1. IInv /\ [Next]_vars => [Holds]_overlayVars
  BY OverlayKept DEF IInv
<1> QED BY <1>1, Invariance, PTL DEF Spec, PanelStaysForTasks

\* The key buttons are disabled only while an answer is to come (Dashboard.tsx).
THEOREM PanelFollows == Spec => []PanelFollowsRequests
<1>1. IInv => PanelFollowsRequests
  BY DEF IInv, KeyInv
<1> QED BY <1>1, Invariance, PTL

\* Only the Clear button takes what the buffer holds; whoever else writes to a
\* buffer that holds something adds one entry, at the cost of the oldest only if
\* there is no room (logStore.ts).
THEOREM LogIsKept == Spec => LogKeepsEntries
<1> DEFINE Holds == log' # log =>
                      \/ ClickClear
                      \/ log = <<>>
                      \/ log' # <<>> /\ log' = Newest(Append(log, Last(log')))
<1>1. IInv /\ [Next]_vars => [Holds]_logVars
  BY LogKeeps DEF IInv, OneMore
<1> QED BY <1>1, Invariance, PTL DEF Spec, LogKeepsEntries

\* The terminal of the write feed lists every token that arrived, once, the newest
\* first, as far back as it has room, and none that still falls (LiveWriteFeed.tsx).
THEOREM TerminalLists == Spec => []TerminalListsArrivals
<1>1. IInv => TerminalListsArrivals
  BY FeedLists DEF IInv
<1> QED BY <1>1, Invariance, PTL

\* What is replayed is a snapshot the recorder still has and, until it is full, the
\* one that was asked for (ClusterContext.tsx, Timeline.tsx).
THEOREM ReplayIsChosen == Spec => []ReplayShowsChosen
<1>1. IInv => ReplayShowsChosen
  <2> SUFFICES ASSUME IInv PROVE ReplayShowsChosen
    OBVIOUS
  <2>1. /\ replay \in 0..Len(history) /\ (playing => replay # Live)
        /\ chosen \in 0..replay /\ (chosen < replay => Len(history) = MaxHistory)
        /\ DOMAIN history = 1..Len(history) /\ Len(history) \in Nat
    BY DEF IInv, TimelineInv
  <2> QED BY <2>1 DEF ReplayShowsChosen, Live
<1> QED BY <1>1, Invariance, PTL
=============================================================================
