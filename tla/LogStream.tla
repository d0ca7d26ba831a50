------------------------------ MODULE LogStream ------------------------------
(***************************************************************************)
(* The log of the dashboard: the buffer that survives navigation           *)
(* (store/logStore.ts), the generator of the layout that always writes to  *)
(* it (hooks/useLogGenerator.ts), and the Logs page (pages/Logs.tsx), which *)
(* shows it, adds the cluster events it hears on the bus and the entries   *)
(* of the socket /ws/logs, and may fill it from GET /logs.                 *)
(*                                                                         *)
(* Of an entry the model keeps its id, where it came from and its level;   *)
(* the ids of the backend are its own, so they are kept apart from the     *)
(* stamped ones.  What the page draws from the entries it was given (the   *)
(* list, the tiles, the sidebar) is left out, as are the chips of the      *)
(* components, which work as those of the levels do.                       *)
(***************************************************************************)
EXTENDS PageLife

CONSTANTS
  MaxLog,       \* MAX_ENTRIES of the buffer
  Seeds,        \* entries the layout starts with
  Fetched,      \* entries GET /logs answers with
  MaxStamps,    \* bound: ids the buffer stamps
  LogLevels     \* ALL_LEVELS

ASSUME LogAssumption ==
  /\ MaxLog \in Nat \ {0} /\ Seeds \in 1..MaxLog /\ Fetched \in Nat
  /\ MaxStamps \in Nat /\ MaxStamps >= Seeds
  /\ LogLevels # {} /\ "INFO" \in LogLevels

VARIABLES
  log,          \* the buffer, oldest first
  nextId,       \* the id of the next entry
  shown,        \* what useLogStore gave the page
  seeding,      \* the page's GET /logs: none or sent
  link,         \* the page's socket
  deaf,         \* the value of "paused" the socket's handler holds
  paused,       \* the page's Pause button
  active        \* activeLevels: the levels the page lists

logVars == <<log, nextId, shown, seeding, link, deaf, paused, active>>

Origins == {"generator", "event", "socket", "backend"}
Entries == [id : 1..(MaxStamps + Fetched), from : Origins, level : LogLevels]
Backlog == [i \in 1..Fetched |-> [id |-> i, from |-> "backend", level |-> "INFO"]]

-----------------------------------------------------------------------------
(* The buffer.                                                              *)

\* slice(-MAX_ENTRIES)
Newest(s) == IF Len(s) > MaxLog THEN SubSeq(s, Len(s) - MaxLog + 1, Len(s)) ELSE s

\* _notify: the subscribers, which the page is once its effects have run.
Notify == shown' = IF Mounted THEN log' ELSE shown

\* push: the entry gets the next id.  (At the bound on ids nothing is pushed.)
Push(from) ==
  /\ nextId <= MaxStamps
  /\ \E level \in LogLevels :
       log' = Newest(Append(log, [id |-> nextId, from |-> from, level |-> level]))
  /\ nextId' = nextId + 1
  /\ Notify

\* What if an answer replaced the buffer?
EagerSeed(entries) ==
  /\ log' = Newest(entries)
  /\ Notify
  /\ UNCHANGED nextId

\* seed: only into an empty buffer, keeping the ids the backend gave.
Seed(entries) ==
  /\ log' = IF log = <<>> THEN Newest(entries) ELSE log
  /\ Notify
  /\ UNCHANGED nextId

\* clear
Clear ==
  /\ log' = <<>>
  /\ Notify
  /\ UNCHANGED nextId

-----------------------------------------------------------------------------
(* The generator.  Its effect finds the buffer empty when the dashboard is   *)
(* opened; its tick reschedules itself, and rests only for a flag that the   *)
(* layout never passes.                                                      *)

Seeded == [i \in 1..Seeds |-> [id |-> i, from |-> "generator", level |-> "INFO"]]

Tick ==
  /\ Push("generator")
  /\ UNCHANGED <<lifeVars, seeding, link, deaf, paused, active>>

-----------------------------------------------------------------------------
(* The page.                                                                *)

\* The page is rendered with what the buffer holds at that moment ...
Open ==
  /\ Act /\ Enter
  /\ shown' = log
  /\ UNCHANGED <<scene, log, nextId, seeding, link, deaf, paused, active>>

\* connect, in the effect that depends on "paused": the handlers of the socket
\* hold the value of this render.
Connect(p) == link' = Connected(link) /\ deaf' = p

\* What if the subscription did not read the buffer again?
LateEffects ==
  /\ RunEffects
  /\ seeding' = "sent"
  /\ Connect(paused)
  /\ UNCHANGED <<scene, log, nextId, shown, paused, active>>

\* ... and when its effects run it subscribes to the buffer and reads it again,
\* asks for the backend's entries and connects.
Effects ==
  /\ RunEffects
  /\ shown' = log
  /\ seeding' = "sent"
  /\ Connect(paused)
  /\ UNCHANGED <<scene, log, nextId, paused, active>>

\* The cleanups: the reconnection is cancelled, the socket closed without its
\* onclose, the answer to come ignored.
Leave ==
  /\ Act /\ Quit
  /\ link' = NoLink /\ deaf' = FALSE /\ paused' = FALSE
  /\ active' = LogLevels
  /\ seeding' = "none" /\ shown' = <<>>
  /\ UNCHANGED <<scene, log, nextId>>

\* The handler on the event bus, subscribed while the page is mounted.
Hear ==
  /\ Act /\ Mounted
  /\ Push("event")
  /\ UNCHANGED <<scene, stage, seeding, link, deaf, paused, active>>

\* GET /logs is answered, or fails.
Receive ==
  /\ seeding = "sent" /\ seeding' = "none"
  /\ Seed(Backlog)
  /\ UNCHANGED <<lifeVars, link, deaf, paused, active>>

NoReply ==
  /\ Act
  /\ seeding = "sent" /\ seeding' = "none"
  /\ UNCHANGED <<scene, stage, log, nextId, shown, link, deaf, paused, active>>

\* What if the effect of the socket did not depend on "paused"?
StalePause ==
  /\ Act /\ Mounted
  /\ paused' = ~paused
  /\ UNCHANGED <<scene, stage, log, nextId, shown, seeding, link, deaf, active>>

\* The buttons.  Pause runs the cleanup of the socket's effect, which leaves the
\* badge as it is, and the effect again.
ClickPause ==
  /\ Act /\ Mounted
  /\ paused' = ~paused
  /\ link' = Connected([NoLink EXCEPT !.badge = link.badge])
  /\ deaf' = ~paused
  /\ UNCHANGED <<scene, stage, log, nextId, shown, seeding, active>>

ClickClear ==
  /\ Act /\ Mounted
  /\ Clear
  /\ UNCHANGED <<scene, stage, seeding, link, deaf, paused, active>>

\* toggleLevel: the last level stays.
ToggleLevel ==
  /\ Act /\ Mounted
  /\ \E level \in LogLevels :
       active' = IF level \notin active THEN active \cup {level}
                 ELSE IF active = {level} THEN active ELSE active \ {level}
  /\ UNCHANGED <<scene, stage, log, nextId, shown, seeding, link, deaf, paused>>

-----------------------------------------------------------------------------
(* The socket.                                                              *)

OnOpen ==
  /\ link.ws = "connecting"
  /\ link' = [link EXCEPT !.ws = "open", !.badge = TRUE]
  /\ UNCHANGED <<lifeVars, log, nextId, shown, seeding, deaf, paused, active>>

OnMessage ==
  /\ link.ws = "open" /\ ~deaf
  /\ Push("socket")
  /\ UNCHANGED <<lifeVars, seeding, link, deaf, paused, active>>

\* What if a socket that failed to open were not tried again?
FinalClose ==
  /\ Act
  /\ link.ws # "none"
  /\ link' = [NoLink EXCEPT !.timer = (link.ws = "open")]
  /\ UNCHANGED <<scene, stage, log, nextId, shown, seeding, deaf, paused, active>>

\* onclose, after an error too.
OnClose ==
  /\ Act
  /\ link.ws # "none"
  /\ link' = [NoLink EXCEPT !.timer = TRUE]
  /\ UNCHANGED <<scene, stage, log, nextId, shown, seeding, deaf, paused, active>>

\* The 3 s timer calls the connect of the same effect.
Reconnect ==
  /\ link.timer
  /\ link' = [Connected(link) EXCEPT !.timer = FALSE]
  /\ UNCHANGED <<lifeVars, log, nextId, shown, seeding, deaf, paused, active>>

-----------------------------------------------------------------------------
LogInit ==
  /\ log = Seeded /\ nextId = Seeds + 1
  /\ shown = <<>> /\ seeding = "none"
  /\ link = NoLink /\ deaf = FALSE /\ paused = FALSE
  /\ active = LogLevels

LogStep ==
  /\ scene = "logs"
  /\ \/ Tick \/ Open \/ Effects \/ Leave
     \/ Hear \/ Receive \/ NoReply \/ ClickPause \/ ClickClear \/ ToggleLevel
     \/ OnOpen \/ OnMessage \/ OnClose \/ Reconnect

LogTypeOK ==
  /\ log \in Seq(Entries) /\ Len(log) <= MaxLog
  /\ nextId \in 1..(MaxStamps + 1)
  /\ shown \in Seq(Entries)
  /\ seeding \in {"none", "sent"}
  /\ link \in Links
  /\ deaf \in BOOLEAN /\ paused \in BOOLEAN
  /\ active \in (SUBSET LogLevels) \ {{}}
-----------------------------------------------------------------------------
(* Properties.                                                              *)

\* What the mounted page shows is the buffer, whatever was pushed, cleared or
\* fetched between its first render and its subscription (logStore.ts:87).
ShownIsLog == (scene = "logs" /\ stage = "mounted") => shown = log

\* Only the Clear button takes what the buffer holds: whoever else writes to a
\* buffer that holds something adds one entry behind it, and the oldest goes only
\* if there is no room.  The late answer of GET /logs adds its many to an empty
\* buffer alone, and a visit or a departure changes nothing (logStore.ts:49-77).
LogKeepsEntries ==
  [][log' # log =>
       \/ ClickClear
       \/ log = <<>>
       \/ log' # <<>> /\ log' = Newest(Append(log, Last(log')))]_logVars

\* A paused page, or one that was left, takes nothing from the socket, though
\* "paused" is read by a handler set up at an earlier render (Logs.tsx:233).
PausedAddsNothing ==
  [][(nextId' > nextId /\ Last(log').from = "socket") => (~paused /\ stage = "mounted")]_logVars

\* A mounted page comes to have an open socket, and to say so, whenever the
\* backend lets it (Logs.tsx:247-251).
LogsReconnect ==
  (scene = "logs" /\ stage = "mounted")
    ~> ((link.ws = "open" /\ link.badge) \/ stage # "mounted")
=============================================================================
