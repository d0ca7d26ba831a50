-------------------------- MODULE OperationsProofs --------------------------
(***************************************************************************)
(* Theorems about Operations, for every set of kinds, number of operations *)
(* and polls, and size of a load.  What the invariants rest on is that a   *)
(* load is not polled before its request is answered, so that a late       *)
(* refusal finds no operation that has ended; the parts of IInv below.     *)
(***************************************************************************)
EXTENDS Operations, WellFoundedInduction, TLAPS

InUse(s) == polls[s].stage # "free"
Awaiting == {"sent", "accepted", "rejected", "offline"}

\* A request in flight is about a load that was started.
PollsName ==
  \A s \in Slots : InUse(s) =>
    /\ polls[s].op \in Ids /\ polls[s].op <= count /\ polls[s].mode # "none"
    /\ kind[polls[s].op] = "load"

\* Nothing is known of an operation that was not started.
Untouched ==
  \A i \in Ids : i > count =>
    /\ status[i] = "absent" /\ progress[i] = 0
    /\ timer[i] = "none" /\ post[i] = "none" /\ step[i] = 0

\* Scripts are for the scripted kinds, requests and polls for loads.
KindsApart ==
  \A i \in Ids :
    /\ step[i] > 0 => kind[i] \in Scripted /\ step[i] <= Last(kind[i])
    /\ post[i] # "none" => kind[i] = "load"
    /\ timer[i] # "none" => kind[i] = "load"

\* A load whose request awaits its answer has not completed: nobody polls for it.
NotPolledYet ==
  \A i \in Ids : post[i] \in Awaiting =>
    /\ status[i] # "completed" /\ timer[i] = "none"
    /\ \A s \in Slots : InUse(s) => polls[s].op # i

\* The request of a page that was left belongs to a load that is restored or gone.
OrphansGone ==
  \A i \in Ids \ restored : post[i] = "orphan" =>
    /\ status[i] = "absent" /\ timer[i] = "none"
    /\ \A s \in Slots : InUse(s) => polls[s].op # i

\* When a poll has found the generator idle, the load it asks for does not run
\* again before the answer is looked at.
IdleAnswers ==
  \A s \in Slots :
    polls[s].stage = "answered" /\ ~polls[s].running /\ polls[s].op \notin restored
      => ~(gen.running /\ gen.owner = polls[s].op)

\* The inductive invariant.
IInv ==
  /\ TypeOK /\ PollsName /\ Untouched /\ KindsApart /\ NotPolledYet
  /\ OrphansGone /\ IdleAnswers
  /\ SavedIsRunning /\ RunningIsAttended /\ FullMeansCompleted /\ CompletedLoadIsOver

\* A step leaves completed operations completed, or removes them.
Final == \A i \in Ids : status[i] = "completed" => status'[i] \in {"completed", "absent"}

----------------------------------------------------------------------------
(* Lemmas about the operators *)

\* Loads and scripted operations are apart.
LEMMA LoadIsNotScripted == "load" \notin Scripted
  BY ScriptedAssumption

\* A script has between one and four reports, of percentages below 100, and its
\* call comes within.
LEMMA LevelsType ==
  ASSUME NEW k \in Scripted
  PROVE  /\ Last(k) \in 1..4
         /\ \A n \in 1..Last(k) : Levels(k)[n] \in 1..90
<1>1. CASE k = "flush"
  BY <1>1 DEF Last, Levels
<1>2. CASE k = "compact"
  BY <1>2 DEF Last, Levels
<1>3. CASE k = "snap"
  BY <1>3 DEF Last, Levels
<1>4. CASE k = "restore"
  BY <1>4 DEF Last, Levels
<1>5. CASE k = "add"
  BY <1>5 DEF Last, Levels
<1>6. CASE k = "remove"
  BY <1>6 DEF Last, Levels
<1> QED BY <1>1, <1>2, <1>3, <1>4, <1>5, <1>6, ScriptedAssumption

\* A set of operations that is not empty has a first.
LEMMA FirstOf ==
  ASSUME NEW S, S \subseteq Ids, S # {}
  PROVE  \E i \in S : \A j \in S : i <= j
<1> DEFINE R == {p \in Nat \X Nat : p[1] < p[2]}
<1>1. S \subseteq Nat
  BY DEF Ids
<1>2. IsWellFoundedOn(R, Nat)
  BY NatLessThanWellFounded DEF OpToRel
<1>3. PICK i \in S : \A j \in S : <<j, i>> \notin R
  <2> HIDE DEF R
  <2> QED BY <1>1, <1>2, WFMin
<1>4. ASSUME NEW j \in S PROVE i <= j
  <2>1. i \in Nat /\ j \in Nat
    BY <1>1
  <2>2. j < i => <<j, i>> \in R
    BY <2>1
  <2> HIDE DEF R
  <2> QED BY <1>3, <2>1, <2>2
<1> QED BY <1>4

\* The percentage a poll reports for a running operation stays below 100.
LEMMA QuotientType ==
  ASSUME NEW a \in Nat, NEW b \in Nat \ {0}
  PROVE  a \div b \in Nat
  BY SMT

\* A poll's estimate is below 100, or leaves the percentage as it was.
LEMMA EstimateType ==
  ASSUME TypeOK, NEW s \in Slots, polls[s].op \in Ids
  PROVE  \/ Estimate(polls[s]) \in 0..99
         \/ Estimate(polls[s]) = progress[polls[s].op]
<1> DEFINE done == polls[s].done
<1>1. done \in Nat /\ LoadSize \in Nat \ {0}
  BY LoadAssumption DEF TypeOK
<1>2. (done + 5) \div 10 \in Nat
  BY <1>1, QuotientType
<1>3. (200 * done + LoadSize) \div (2 * LoadSize) \in Nat
  <2>1. 200 * done + LoadSize \in Nat /\ 2 * LoadSize \in Nat \ {0}
    BY <1>1
  <2> QED BY <2>1, QuotientType
<1>4. \A n \in Nat : AtMost99(n) \in 0..99
  BY DEF AtMost99
<1> QED BY <1>2, <1>3, <1>4 DEF Estimate

\* cancelLoadOp fails one running load, or does nothing.
Cancels(i) ==
  /\ kind[i] = "load" /\ IsRunning(i)
  /\ status' = [status EXCEPT ![i] = "failed"]
  /\ timer' = [timer EXCEPT ![i] = "none"]
  /\ Persist

\* cancelLoadOp does just that, and leaves every percentage alone.
LEMMA CancelEffect ==
  ASSUME CancelLoadOp
  PROVE  /\ UNCHANGED progress
         /\ UNCHANGED <<status, saved, timer>> \/ \E i \in Ids : Cancels(i)
<1> DEFINE loads == {i \in Ids : kind[i] = "load" /\ IsRunning(i)}
           IsFirst(i) == /\ kind[i] = "load" /\ IsRunning(i)
                         /\ \A j \in Ids : kind[j] = "load" /\ IsRunning(j) => i <= j
           first == CHOOSE i \in Ids : IsFirst(i)
<1>1. CASE ~LoadRunning
  BY <1>1 DEF CancelLoadOp
<1>2. CASE LoadRunning
  <2>1. \E i \in loads : \A j \in loads : i <= j
    <3> loads \subseteq Ids /\ loads # {}
      BY <1>2 DEF LoadRunning
    <3> HIDE DEF loads
    <3> QED BY FirstOf
  <2>2. first \in Ids /\ IsFirst(first)
    BY <2>1
  <2>3. UNCHANGED progress /\ status' = [status EXCEPT ![first] = "failed"]
        /\ timer' = [timer EXCEPT ![first] = "none"] /\ Persist
    BY <1>2 DEF CancelLoadOp
  <2> QED BY <2>2, <2>3 DEF Cancels
<1> QED BY <1>1, <1>2

\* complete and fail end one operation, or do nothing.
Ends(i, to) ==
  /\ status[i] # "absent"
  /\ status' = [status EXCEPT ![i] = to]
  /\ timer' = [timer EXCEPT ![i] = "none"]
  /\ saved' = Persistent(status', progress')

\* complete does just that, and writes 100.
LEMMA CompleteEffect ==
  ASSUME NEW i \in Ids, Complete(i)
  PROVE  \/ UNCHANGED <<status, progress, saved, timer>> /\ status[i] = "absent"
         \/ Ends(i, "completed") /\ progress' = [progress EXCEPT ![i] = 100]
<1>1. CASE status[i] = "absent"
  BY <1>1 DEF Complete
<1>2. CASE status[i] # "absent"
  BY <1>2 DEF Complete, Ends, Persist
<1> QED BY <1>1, <1>2

\* fail does just that, and leaves every percentage alone.
LEMMA FailEffect ==
  ASSUME NEW i \in Ids, Fail(i)
  PROVE  /\ UNCHANGED progress
         /\ \/ UNCHANGED <<status, saved, timer>> /\ status[i] = "absent"
            \/ Ends(i, "failed")
<1>1. CASE status[i] = "absent"
  BY <1>1 DEF Fail
<1>2. CASE status[i] # "absent"
  BY <1>2 DEF Fail, Ends, Persist
<1> QED BY <1>1, <1>2

\* What is saved, and the records of the polls and of the generator, have their
\* types.
Poll == [stage : {"free", "sent", "answered"}, op : Ids \cup {0},
         mode : {"none", "started", "resumed"}, running : BOOLEAN, done : 0..LoadSize]
Generator == [running : BOOLEAN, done : 0..LoadSize, owner : Ids \cup {0}]

\* The saved set holds identifiers with percentages.
LEMMA PersistentType ==
  ASSUME NEW st, NEW pr \in [Ids -> 0..100]
  PROVE  Persistent(st, pr) \subseteq Ids \X (0..100)
  BY DEF Persistent

\* A poll that is not in flight is a poll,
LEMMA FreePollType == FreePoll \in Poll
  BY LoadAssumption DEF FreePoll, Poll

\* replacing one poll keeps the others,
LEMMA PollsType ==
  ASSUME polls \in [Slots -> Poll], NEW s \in Slots, NEW p \in Poll,
         polls' = [polls EXCEPT ![s] = p]
  PROVE  polls' \in [Slots -> Poll]
  OBVIOUS

\* and the idle generator is a generator.
LEMMA GenIdleType == GenIdle \in Generator
  BY LoadAssumption DEF GenIdle, Generator

\* fail keeps the types of what it writes.
LEMMA FailType ==
  ASSUME TypeOK, NEW i \in Ids, Fail(i)
  PROVE  /\ status' \in [Ids -> {"absent", "running", "completed", "failed"}]
         /\ timer' \in [Ids -> {"none", "started", "resumed"}]
         /\ progress' = progress /\ saved' \subseteq Ids \X (0..100)
<1>1. progress' = progress /\ progress \in [Ids -> 0..100]
  BY FailEffect DEF TypeOK
<1>2. CASE UNCHANGED <<status, saved, timer>>
  BY <1>1, <1>2 DEF TypeOK
<1>3. CASE Ends(i, "failed")
  BY <1>1, <1>3, PersistentType DEF TypeOK, Ends
<1> QED BY <1>2, <1>3, FailEffect

\* So does complete.
LEMMA CompleteType ==
  ASSUME TypeOK, NEW i \in Ids, Complete(i)
  PROVE  /\ status' \in [Ids -> {"absent", "running", "completed", "failed"}]
         /\ timer' \in [Ids -> {"none", "started", "resumed"}]
         /\ progress' \in [Ids -> 0..100] /\ saved' \subseteq Ids \X (0..100)
<1>1. CASE UNCHANGED <<status, progress, saved, timer>>
  BY <1>1 DEF TypeOK
<1>2. CASE Ends(i, "completed") /\ progress' = [progress EXCEPT ![i] = 100]
  <2>1. progress' \in [Ids -> 0..100]
    BY <1>2 DEF TypeOK
  <2> QED BY <1>2, <2>1, PersistentType DEF TypeOK, Ends
<1> QED BY <1>1, <1>2, CompleteEffect

\* What is saved is one entry, with its percentage, for each running operation.
LEMMA SavedEntries ==
  ASSUME SavedIsRunning
  PROVE  /\ \A i \in Ids : i \in SavedIds <=> status[i] = "running"
         /\ \A i \in SavedIds : i \in Ids /\ (CHOOSE e \in saved : e[1] = i)[2] = progress[i]
<1>1. saved = {<<i, progress[i]>> : i \in {j \in Ids : status[j] = "running"}}
  BY DEF SavedIsRunning, Persistent
<1>2. ASSUME NEW i \in SavedIds
      PROVE  i \in Ids /\ status[i] = "running" /\ (CHOOSE e \in saved : e[1] = i)[2] = progress[i]
  <2>1. i \in Ids /\ <<i, progress[i]>> \in saved /\ status[i] = "running"
    BY <1>1, <1>2 DEF SavedIds
  <2>2. \A e \in saved : e[1] = i => e[2] = progress[i]
    BY <1>1
  <2>3. \E e \in saved : e[1] = i
    BY <2>1
  <2> QED BY <2>1, <2>2, <2>3
<1>3. ASSUME NEW i \in Ids, status[i] = "running" PROVE i \in SavedIds
  <2>1. <<i, progress[i]>> \in saved /\ <<i, progress[i]>>[1] = i
    BY <1>1, <1>3
  <2> QED BY <2>1 DEF SavedIds
<1> QED BY <1>2, <1>3

----------------------------------------------------------------------------
(* The steps: one lemma for each part of the invariant *)

\* Every step keeps the types: reports and estimates are percentages, and what is
\* saved are operations with theirs.
LEMMA TypeStep ==
  ASSUME IInv, Next
  PROVE  TypeOK'
<1>1. ASSUME StartLoad PROVE TypeOK'
  <2>1. count + 1 \in Ids /\ progress' \in [Ids -> 0..100]
    BY <1>1, BoundsAssumption DEF StartLoad, Start, IInv, TypeOK, Ids
  <2>2. saved' \subseteq Ids \X (0..100)
    BY <1>1, <2>1, PersistentType DEF StartLoad, Start, Persist
  <2> QED BY <1>1, <2>1, <2>2 DEF StartLoad, Start, IInv, TypeOK, Kinds, Ids
<1>2. ASSUME NEW k \in Scripted, StartScripted(k) PROVE TypeOK'
  <2>1. count + 1 \in Ids
    BY <1>2, BoundsAssumption DEF StartScripted, Start, IInv, TypeOK, Ids
  <2>2. progress' \in [Ids -> 0..100]
    <3>1. Last(k) \in 1..4 /\ \A n \in 1..Last(k) : Levels(k)[n] \in 1..90
      BY LevelsType
    <3>2. Levels(k)[1] \in 0..100
      BY <3>1
    <3> QED BY <1>2, <2>1, <3>2 DEF StartScripted, Start, IInv, TypeOK
  <2>3. saved' \subseteq Ids \X (0..100)
    BY <1>2, <2>2, PersistentType DEF StartScripted, Start, Persist
  <2> QED BY <1>2, <2>1, <2>2, <2>3 DEF StartScripted, Start, IInv, TypeOK, Kinds, Ids
<1>3. ASSUME StopLoad PROVE TypeOK'
  BY <1>3 DEF StopLoad, page, IInv, TypeOK
<1>4. ASSUME NEW i \in Ids, GenerateLoad(i) PROVE TypeOK'
  <2>1. [running |-> TRUE, done |-> 0, owner |-> i] \in Generator
    BY LoadAssumption DEF Generator
  <2>2. gen' \in Generator
    BY <1>4, <2>1 DEF GenerateLoad, IInv, TypeOK, Generator
  <2>3. post' \in [Ids -> {"none", "sent", "accepted", "rejected", "offline", "orphan"}]
    BY <1>4 DEF GenerateLoad, IInv, TypeOK
  <2> QED BY <1>4, <2>2, <2>3 DEF GenerateLoad, page, IInv, TypeOK, Generator
<1>5. ASSUME NEW i \in Ids, PostLost(i) PROVE TypeOK'
  BY <1>5 DEF PostLost, page, IInv, TypeOK
<1>6. ASSUME NEW i \in Ids, LoadAccepted(i) PROVE TypeOK'
  BY <1>6 DEF LoadAccepted, IInv, TypeOK
<1>7. ASSUME NEW i \in Ids, LoadRefused(i) PROVE TypeOK'
  <2>1. Fail(i)
    BY <1>7 DEF LoadRefused
  <2>2. /\ status' \in [Ids -> {"absent", "running", "completed", "failed"}]
        /\ timer' \in [Ids -> {"none", "started", "resumed"}]
        /\ progress' = progress /\ saved' \subseteq Ids \X (0..100)
    BY <2>1, FailType DEF IInv
  <2> QED BY <1>7, <2>2 DEF LoadRefused, IInv, TypeOK
<1>8. ASSUME NEW i \in Ids, PollTick(i) PROVE TypeOK'
  <2>1. PICK s \in Slots :
          polls' = [polls EXCEPT ![s] = [FreePoll EXCEPT !.stage = "sent", !.op = i, !.mode = timer[i]]]
    BY <1>8 DEF PollTick
  <2>2. [FreePoll EXCEPT !.stage = "sent", !.op = i, !.mode = timer[i]] \in Poll
    BY FreePollType DEF Poll, IInv, TypeOK
  <2>3. polls' \in [Slots -> Poll]
    BY <2>1, <2>2, PollsType DEF IInv, TypeOK, Poll
  <2> QED BY <1>8, <2>3 DEF PollTick, IInv, TypeOK, Poll
<1>9. ASSUME NEW s \in Slots, LoadStatus(s) PROVE TypeOK'
  <2>1. [polls[s] EXCEPT !.stage = "answered", !.running = gen.running, !.done = gen.done] \in Poll
    <3>1. polls[s] \in Poll /\ gen.running \in BOOLEAN /\ gen.done \in 0..LoadSize
      BY DEF Poll, IInv, TypeOK
    <3> QED BY <3>1 DEF Poll
  <2>2. polls' \in [Slots -> Poll]
    BY <1>9, <2>1 DEF LoadStatus, IInv, TypeOK, Poll
  <2> QED BY <1>9, <2>2 DEF LoadStatus, IInv, TypeOK, Poll
<1>10. ASSUME NEW s \in Slots, PollFails(s) PROVE TypeOK'
  <2>1. polls' \in [Slots -> Poll]
    BY <1>10, FreePollType DEF PollFails, IInv, TypeOK, Poll
  <2>2. timer' \in [Ids -> {"none", "started", "resumed"}]
    BY <1>10 DEF PollFails, IInv, TypeOK
  <2> QED BY <1>10, <2>1, <2>2 DEF PollFails, IInv, TypeOK, Poll
<1>11. ASSUME NEW s \in Slots, PollOrphaned(s) PROVE TypeOK'
  <2>1. polls' \in [Slots -> Poll]
    BY <1>11, FreePollType DEF PollOrphaned, IInv, TypeOK, Poll
  <2>2. timer' \in [Ids -> {"none", "started", "resumed"}]
    BY <1>11 DEF PollOrphaned, IInv, TypeOK
  <2> QED BY <1>11, <2>1, <2>2 DEF PollOrphaned, IInv, TypeOK, Poll
<1>12. ASSUME NEW s \in Slots, PollShowsProgress(s) PROVE TypeOK'
  <2>1. polls' \in [Slots -> Poll]
    BY <1>12, FreePollType DEF PollShowsProgress, IInv, TypeOK, Poll
  <2>2. polls[s].op \in Ids
    BY <1>12 DEF PollShowsProgress, IInv, PollsName, InUse
  <2>3. Estimate(polls[s]) \in 0..100
    BY <2>2, EstimateType DEF IInv, TypeOK
  <2>4. progress' \in [Ids -> 0..100]
    <3>1. Update(polls[s].op, Estimate(polls[s])) /\ Clamp(Estimate(polls[s])) \in 0..100
      BY <1>12, <2>3 DEF PollShowsProgress, Clamp
    <3>2. CASE IsRunning(polls[s].op)
      BY <2>2, <3>1, <3>2 DEF Update, IInv, TypeOK
    <3>3. CASE ~IsRunning(polls[s].op)
      BY <3>1, <3>3 DEF Update, IInv, TypeOK
    <3> QED BY <3>2, <3>3
  <2>5. saved' \subseteq Ids \X (0..100)
    BY <1>12, <2>4, PersistentType DEF PollShowsProgress, Update, Persist
  <2> QED BY <1>12, <2>1, <2>4, <2>5 DEF PollShowsProgress, Update, IInv, TypeOK, Poll
<1>13. ASSUME NEW s \in Slots, PollShowsEnd(s) PROVE TypeOK'
  <2>1. polls' \in [Slots -> Poll]
    BY <1>13, FreePollType DEF PollShowsEnd, IInv, TypeOK, Poll
  <2>2. polls[s].op \in Ids /\ Complete(polls[s].op)
    BY <1>13 DEF PollShowsEnd, IInv, PollsName, InUse
  <2>3. /\ status' \in [Ids -> {"absent", "running", "completed", "failed"}]
        /\ timer' \in [Ids -> {"none", "started", "resumed"}]
        /\ progress' \in [Ids -> 0..100] /\ saved' \subseteq Ids \X (0..100)
    BY <2>2, CompleteType DEF IInv
  <2> QED BY <1>13, <2>1, <2>3 DEF PollShowsEnd, IInv, TypeOK, Poll
<1>14. ASSUME NEW i \in Ids, ScriptReports(i) PROVE TypeOK'
  <2>1. step[i] + 1 \in 1..Last(kind[i]) /\ kind[i] \in Scripted
    BY <1>14 DEF ScriptReports, IInv, TypeOK, KindsApart, Last
  <2>2. Last(kind[i]) \in 1..4 /\ Levels(kind[i])[step[i] + 1] \in 1..90
    BY <2>1, LevelsType
  <2>3. progress' \in [Ids -> 0..100] /\ step' \in [Ids -> 0..4]
    BY <1>14, <2>1, <2>2 DEF ScriptReports, Update, Clamp, IInv, TypeOK
  <2>4. saved' \subseteq Ids \X (0..100)
    BY <1>14, <2>3, PersistentType DEF ScriptReports, Update, Persist
  <2> QED BY <1>14, <2>3, <2>4 DEF ScriptReports, Update, IInv, TypeOK
<1>15. ASSUME NEW i \in Ids, ScriptEnds(i) PROVE TypeOK'
  <2>1. Complete(i)
    BY <1>15 DEF ScriptEnds
  <2>2. /\ status' \in [Ids -> {"absent", "running", "completed", "failed"}]
        /\ timer' \in [Ids -> {"none", "started", "resumed"}]
        /\ progress' \in [Ids -> 0..100] /\ saved' \subseteq Ids \X (0..100)
    BY <2>1, CompleteType DEF IInv
  <2>3. step' \in [Ids -> 0..4]
    BY <1>15 DEF ScriptEnds, IInv, TypeOK
  <2> QED BY <1>15, <2>2, <2>3 DEF ScriptEnds, IInv, TypeOK
<1>16. ASSUME StopHandled PROVE TypeOK'
  BY <1>16, GenIdleType DEF StopHandled, page, IInv, TypeOK, Generator
<1>17. ASSUME StopLost PROVE TypeOK'
  BY <1>17 DEF StopLost, page, IInv, TypeOK
<1>18. ASSUME StopReturns PROVE TypeOK'
  <2>1. CancelLoadOp
    BY <1>18 DEF StopReturns
  <2>2. /\ status' \in [Ids -> {"absent", "running", "completed", "failed"}]
        /\ timer' \in [Ids -> {"none", "started", "resumed"}]
        /\ progress' \in [Ids -> 0..100] /\ saved' \subseteq Ids \X (0..100)
    <3>1. CASE UNCHANGED <<progress, status, saved, timer>>
      BY <3>1 DEF IInv, TypeOK
    <3>2. CASE UNCHANGED progress /\ \E i \in Ids : Cancels(i)
      <4>1. progress' \in [Ids -> 0..100]
        BY <3>2 DEF IInv, TypeOK
      <4>2. PICK i \in Ids : Cancels(i)
        BY <3>2
      <4>3. saved' \subseteq Ids \X (0..100)
        BY <4>1, <4>2, PersistentType DEF Cancels, Persist
      <4> QED BY <4>1, <4>2, <4>3 DEF IInv, TypeOK, Cancels
    <3> QED BY <2>1, <3>1, <3>2, CancelEffect
  <2> QED BY <1>18, <2>2 DEF StopReturns, IInv, TypeOK
<1>19. ASSUME NEW i \in Ids, Purge(i) PROVE TypeOK'
  BY <1>19 DEF Purge, IInv, TypeOK
<1>20. ASSUME Reload PROVE TypeOK'
  <2>1. polls' \in [Slots -> Poll]
    BY <1>20, FreePollType DEF Reload
  <2>2. progress' \in [Ids -> 0..100]
    <3>1. ASSUME NEW i \in SavedIds PROVE (CHOOSE e \in saved : e[1] = i)[2] \in 0..100
      <4>1. \E e \in saved : e[1] = i
        BY <3>1 DEF SavedIds
      <4> QED BY <4>1 DEF IInv, TypeOK
    <3> QED BY <1>20, <3>1 DEF Reload
  <2>3. restored' \subseteq Ids
    BY <1>20 DEF Reload, SavedIds, IInv, TypeOK
  <2>4. post' \in [Ids -> {"none", "sent", "accepted", "rejected", "offline", "orphan"}]
    BY <1>20 DEF Reload
  <2>5. timer' \in [Ids -> {"none", "started", "resumed"}]
    BY <1>20 DEF Reload, HydratedTimer
  <2>6. status' \in [Ids -> {"absent", "running", "completed", "failed"}]
    BY <1>20 DEF Reload
  <2>7. step' \in [Ids -> 0..4] /\ reloads' \in 0..MaxReloads
    BY <1>20, BoundsAssumption DEF Reload, IInv, TypeOK
  <2> QED BY <1>20, <2>1, <2>2, <2>3, <2>4, <2>5, <2>6, <2>7
       DEF Reload, IInv, TypeOK, Poll
<1>21. ASSUME GenWorks PROVE TypeOK'
  <2>1. gen' \in Generator
    BY <1>21, LoadAssumption DEF GenWorks, IInv, TypeOK, Generator
  <2> QED BY <1>21, <2>1 DEF GenWorks, page, IInv, TypeOK, Generator
<1>22. ASSUME GenEnds PROVE TypeOK'
  BY <1>22, GenIdleType DEF GenEnds, page, IInv, TypeOK, Generator
<1>23. ASSUME ApiRestarts PROVE TypeOK'
  BY <1>23, GenIdleType DEF ApiRestarts, page, IInv, TypeOK, Generator
<1> QED BY <1>1, <1>2, <1>3, <1>4, <1>5, <1>6, <1>7, <1>8, <1>9, <1>10, <1>11, <1>12,
     <1>13, <1>14, <1>15, <1>16, <1>17, <1>18, <1>19, <1>20, <1>21, <1>22, <1>23
       DEF Next, Buttons, LoadStep, PollStep, ScriptStep, StopStep, ApiStep

\* Every step keeps: requests in flight are about loads.
LEMMA PollsNameStep ==
  ASSUME IInv, Next
  PROVE  PollsName'
<1>1. CASE UNCHANGED <<polls, count, kind>>
  BY <1>1 DEF IInv, PollsName, InUse
<1>2. ASSUME \/ StopLoad
             \/ \E i \in Ids : GenerateLoad(i)
             \/ \E i \in Ids : PostLost(i)
             \/ \E i \in Ids : LoadAccepted(i)
             \/ \E i \in Ids : LoadRefused(i)
             \/ \E i \in Ids : ScriptReports(i)
             \/ \E i \in Ids : ScriptEnds(i)
             \/ StopHandled
             \/ StopLost
             \/ StopReturns
             \/ \E i \in Ids : Purge(i)
             \/ GenWorks
             \/ GenEnds
             \/ ApiRestarts
      PROVE  PollsName'
  BY <1>1, <1>2
       DEF StopLoad, GenerateLoad, PostLost, LoadAccepted, LoadRefused, ScriptReports,
       ScriptEnds, StopHandled, StopLost, StopReturns, Purge, GenWorks, GenEnds,
       ApiRestarts, page
<1>3. ASSUME StartLoad PROVE PollsName'
  BY <1>3 DEF StartLoad, Start, IInv, TypeOK, PollsName, InUse, Ids
<1>4. ASSUME NEW k \in Scripted, StartScripted(k) PROVE PollsName'
  BY <1>4 DEF StartScripted, Start, IInv, TypeOK, PollsName, InUse, Ids
<1>5. ASSUME NEW i \in Ids, PollTick(i) PROVE PollsName'
  BY <1>5 DEF PollTick, IInv, TypeOK, PollsName, Untouched, KindsApart, InUse, Ids
<1>6. ASSUME NEW s \in Slots, LoadStatus(s) PROVE PollsName'
  BY <1>6 DEF LoadStatus, IInv, PollsName, InUse
<1>7. ASSUME NEW s \in Slots, PollFails(s) PROVE PollsName'
  BY <1>7 DEF PollFails, FreePoll, IInv, PollsName, InUse
<1>8. ASSUME NEW s \in Slots, PollOrphaned(s) PROVE PollsName'
  BY <1>8 DEF PollOrphaned, FreePoll, IInv, PollsName, InUse
<1>9. ASSUME NEW s \in Slots, PollShowsProgress(s) PROVE PollsName'
  BY <1>9 DEF PollShowsProgress, FreePoll, IInv, PollsName, InUse
<1>10. ASSUME NEW s \in Slots, PollShowsEnd(s) PROVE PollsName'
  BY <1>10, CompleteEffect DEF PollShowsEnd, FreePoll, IInv, PollsName, InUse
<1>11. ASSUME Reload PROVE PollsName'
  BY <1>11 DEF Reload, FreePoll, PollsName, InUse
<1> QED BY <1>2, <1>3, <1>4, <1>5, <1>6, <1>7, <1>8, <1>9, <1>10, <1>11
     DEF Next, Buttons, LoadStep, PollStep, ScriptStep, StopStep, ApiStep

\* Every step keeps: nothing is known of an operation before its start.
LEMMA UntouchedStep ==
  ASSUME IInv, Next
  PROVE  Untouched'
<1>1. CASE UNCHANGED <<count, status, progress, timer, post, step>>
  BY <1>1 DEF IInv, Untouched
<1>2. ASSUME \/ StopLoad
             \/ \E i \in Ids : PollTick(i)
             \/ \E s \in Slots : LoadStatus(s)
             \/ \E s \in Slots : PollFails(s)
             \/ StopHandled
             \/ StopLost
             \/ GenWorks
             \/ GenEnds
             \/ ApiRestarts
      PROVE  Untouched'
  BY <1>1, <1>2
       DEF StopLoad, PollTick, LoadStatus, PollFails, StopHandled, StopLost, GenWorks,
       GenEnds, ApiRestarts, page
<1>3. ASSUME StartLoad PROVE Untouched'
  BY <1>3 DEF StartLoad, Start, IInv, TypeOK, Untouched, Ids
<1>4. ASSUME NEW k \in Scripted, StartScripted(k) PROVE Untouched'
  BY <1>4 DEF StartScripted, Start, IInv, TypeOK, Untouched, Ids
<1>5. ASSUME NEW i \in Ids, GenerateLoad(i) PROVE Untouched'
  BY <1>5 DEF GenerateLoad, page, IInv, Untouched
<1>6. ASSUME NEW i \in Ids, PostLost(i) PROVE Untouched'
  BY <1>6 DEF PostLost, page, IInv, Untouched
<1>7. ASSUME NEW i \in Ids, LoadAccepted(i) PROVE Untouched'
  BY <1>7 DEF LoadAccepted, IInv, Untouched
<1>8. ASSUME NEW i \in Ids, LoadRefused(i) PROVE Untouched'
  <2>1. /\ Fail(i) /\ post[i] \in {"rejected", "offline"} /\ post' = [post EXCEPT ![i] = "none"]
        /\ UNCHANGED <<count, kind, restored, polls, step, gen>>
    BY <1>8 DEF LoadRefused
  <2>2. CASE UNCHANGED <<status, saved, timer, progress>> /\ status[i] = "absent"
    BY <2>1, <2>2 DEF IInv, Untouched
  <2>3. CASE Ends(i, "failed") /\ UNCHANGED progress
    BY <2>1, <2>3 DEF Ends, IInv, Untouched
  <2> QED BY <2>1, <2>2, <2>3, FailEffect
<1>9. ASSUME NEW s \in Slots, PollOrphaned(s) PROVE Untouched'
  BY <1>9 DEF PollOrphaned, IInv, Untouched
<1>10. ASSUME NEW s \in Slots, PollShowsProgress(s) PROVE Untouched'
  BY <1>10
       DEF PollShowsProgress, FreePoll, Update, IInv, TypeOK, Untouched, PollsName,
       Persistent, InUse, Ids
<1>11. ASSUME NEW s \in Slots, PollShowsEnd(s) PROVE Untouched'
  <2>0. polls[s].op \in Ids /\ polls[s].op <= count /\ kind[polls[s].op] = "load" /\ InUse(s)
    BY <1>11 DEF PollShowsEnd, IInv, PollsName, InUse
  <2>1. /\ Complete(polls[s].op) /\ polls' = [polls EXCEPT ![s] = FreePoll]
        /\ UNCHANGED <<count, kind, restored, post, step, gen>>
    BY <1>11 DEF PollShowsEnd
  <2>2. CASE UNCHANGED <<status, saved, timer, progress>>
    BY <2>0, <2>1, <2>2 DEF IInv, Untouched
  <2>3. CASE /\ Ends(polls[s].op, "completed")
             /\ progress' = [progress EXCEPT ![polls[s].op] = 100]
    BY <2>0, <2>1, <2>3 DEF Ends, IInv, Untouched
  <2> QED BY <2>0, <2>1, <2>2, <2>3, CompleteEffect
<1>12. ASSUME NEW i \in Ids, ScriptReports(i) PROVE Untouched'
  BY <1>12 DEF ScriptReports, Update, IInv, Untouched
<1>13. ASSUME NEW i \in Ids, ScriptEnds(i) PROVE Untouched'
  <2>1. /\ Complete(i) /\ step[i] > 0 /\ step' = [step EXCEPT ![i] = 0]
        /\ UNCHANGED <<count, kind, restored, polls, post, gen>>
    BY <1>13 DEF ScriptEnds
  <2>2. CASE UNCHANGED <<status, saved, timer, progress>> /\ status[i] = "absent"
    BY <2>1, <2>2 DEF IInv, Untouched, IsRunning
  <2>3. CASE Ends(i, "completed") /\ progress' = [progress EXCEPT ![i] = 100]
    BY <2>1, <2>3 DEF Ends, IInv, Untouched
  <2> QED BY <2>1, <2>2, <2>3, CompleteEffect
<1>14. ASSUME StopReturns PROVE Untouched'
  <2>1. CancelLoadOp /\ UNCHANGED <<count, kind, restored, polls, post, step, gen>>
    BY <1>14 DEF StopReturns
  <2>2. CASE UNCHANGED <<status, saved, timer, progress>>
    BY <2>1, <2>2 DEF IInv, Untouched
  <2>3. CASE (\E i \in Ids : Cancels(i)) /\ UNCHANGED progress
    BY <2>1, <2>3 DEF Cancels, IInv, Untouched, IsRunning
  <2> QED BY <2>1, <2>2, <2>3, CancelEffect
<1>15. ASSUME NEW i \in Ids, Purge(i) PROVE Untouched'
  BY <1>15 DEF Purge, IInv, Untouched
<1>16. ASSUME Reload PROVE Untouched'
  BY <1>16
       DEF Reload, HydratedTimer, IInv, Untouched, SavedIds, SavedIsRunning, Persistent
<1> QED BY <1>2, <1>3, <1>4, <1>5, <1>6, <1>7, <1>8, <1>9, <1>10, <1>11, <1>12, <1>13,
     <1>14, <1>15, <1>16
       DEF Next, Buttons, LoadStep, PollStep, ScriptStep, StopStep, ApiStep

\* Every step keeps: scripts, polls and requests go to operations of their kind.
LEMMA KindsStep ==
  ASSUME IInv, Next
  PROVE  KindsApart'
<1>1. CASE UNCHANGED <<step, kind, post, timer>>
  BY <1>1 DEF IInv, KindsApart
<1>2. ASSUME \/ StopLoad
             \/ \E i \in Ids : PollTick(i)
             \/ \E s \in Slots : LoadStatus(s)
             \/ \E s \in Slots : PollFails(s)
             \/ \E s \in Slots : PollShowsProgress(s)
             \/ StopHandled
             \/ StopLost
             \/ \E i \in Ids : Purge(i)
             \/ GenWorks
             \/ GenEnds
             \/ ApiRestarts
      PROVE  KindsApart'
  BY <1>1, <1>2
       DEF StopLoad, PollTick, LoadStatus, PollFails, PollShowsProgress, StopHandled,
       StopLost, Purge, GenWorks, GenEnds, ApiRestarts, page
<1>3. ASSUME StartLoad PROVE KindsApart'
  BY <1>3 DEF StartLoad, Start, IInv, TypeOK, Untouched, KindsApart
<1>4. ASSUME NEW k \in Scripted, StartScripted(k) PROVE KindsApart'
  <2>1. count + 1 \in Ids /\ ~(count + 1 <= count) /\ count \in 0..MaxOps
    BY <1>4, BoundsAssumption DEF StartScripted, Start, IInv, TypeOK, Ids
  <2>2. Last(k) \in 1..4
    BY LevelsType
  <2>3. /\ kind' = [kind EXCEPT ![count + 1] = k] /\ step' = [step EXCEPT ![count + 1] = 1]
        /\ UNCHANGED <<timer, post>>
    BY <1>4 DEF StartScripted, Start
  <2>4. timer[count + 1] = "none" /\ post[count + 1] = "none"
    BY <2>1 DEF IInv, Untouched
  <2> QED BY <2>1, <2>2, <2>3, <2>4 DEF IInv, TypeOK, KindsApart
<1>5. ASSUME NEW i \in Ids, GenerateLoad(i) PROVE KindsApart'
  BY <1>5 DEF GenerateLoad, page, IInv, KindsApart
<1>6. ASSUME NEW i \in Ids, PostLost(i) PROVE KindsApart'
  BY <1>6 DEF PostLost, page, IInv, KindsApart
<1>7. ASSUME NEW i \in Ids, LoadAccepted(i) PROVE KindsApart'
  BY <1>7 DEF LoadAccepted, IInv, KindsApart
<1>8. ASSUME NEW i \in Ids, LoadRefused(i) PROVE KindsApart'
  <2>1. /\ Fail(i) /\ post[i] \in {"rejected", "offline"} /\ post' = [post EXCEPT ![i] = "none"]
        /\ UNCHANGED <<count, kind, restored, polls, step, gen>>
    BY <1>8 DEF LoadRefused
  <2>2. CASE UNCHANGED <<status, saved, timer, progress>> /\ status[i] = "absent"
    BY <2>1, <2>2 DEF IInv, KindsApart
  <2>3. CASE Ends(i, "failed") /\ UNCHANGED progress
    BY <2>1, <2>3 DEF Ends, IInv, KindsApart
  <2> QED BY <2>1, <2>2, <2>3, FailEffect
<1>9. ASSUME NEW s \in Slots, PollOrphaned(s) PROVE KindsApart'
  BY <1>9 DEF PollOrphaned, IInv, KindsApart
<1>10. ASSUME NEW s \in Slots, PollShowsEnd(s) PROVE KindsApart'
  <2>0. polls[s].op \in Ids /\ polls[s].op <= count /\ kind[polls[s].op] = "load" /\ InUse(s)
    BY <1>10 DEF PollShowsEnd, IInv, PollsName, InUse
  <2>1. /\ Complete(polls[s].op) /\ polls' = [polls EXCEPT ![s] = FreePoll]
        /\ UNCHANGED <<count, kind, restored, post, step, gen>>
    BY <1>10 DEF PollShowsEnd
  <2>2. CASE UNCHANGED <<status, saved, timer, progress>>
    BY <2>0, <2>1, <2>2 DEF IInv, KindsApart
  <2>3. CASE /\ Ends(polls[s].op, "completed")
             /\ progress' = [progress EXCEPT ![polls[s].op] = 100]
    BY <2>0, <2>1, <2>3 DEF Ends, IInv, KindsApart
  <2> QED BY <2>0, <2>1, <2>2, <2>3, CompleteEffect
<1>11. ASSUME NEW i \in Ids, ScriptReports(i) PROVE KindsApart'
  <2>1. kind[i] \in Scripted /\ step[i] \in 0..4 /\ step[i] < Last(kind[i])
    BY <1>11 DEF ScriptReports, IInv, TypeOK, KindsApart
  <2>2. Last(kind[i]) \in 1..4 /\ step[i] + 1 <= Last(kind[i])
    BY <2>1, LevelsType
  <2>3. UNCHANGED <<kind, timer, post>> /\ step' = [step EXCEPT ![i] = @ + 1]
    BY <1>11 DEF ScriptReports
  <2> QED BY <2>1, <2>2, <2>3 DEF IInv, TypeOK, KindsApart
<1>12. ASSUME NEW i \in Ids, ScriptEnds(i) PROVE KindsApart'
  <2>1. /\ Complete(i) /\ step[i] > 0 /\ step' = [step EXCEPT ![i] = 0]
        /\ UNCHANGED <<count, kind, restored, polls, post, gen>>
    BY <1>12 DEF ScriptEnds
  <2>2. CASE UNCHANGED <<status, saved, timer, progress>> /\ status[i] = "absent"
    BY <2>1, <2>2 DEF IInv, KindsApart
  <2>3. CASE Ends(i, "completed") /\ progress' = [progress EXCEPT ![i] = 100]
    BY <2>1, <2>3 DEF Ends, IInv, KindsApart
  <2> QED BY <2>1, <2>2, <2>3, CompleteEffect
<1>13. ASSUME StopReturns PROVE KindsApart'
  <2>1. CancelLoadOp /\ UNCHANGED <<count, kind, restored, polls, post, step, gen>>
    BY <1>13 DEF StopReturns
  <2>2. CASE UNCHANGED <<status, saved, timer, progress>>
    BY <2>1, <2>2 DEF IInv, KindsApart
  <2>3. CASE (\E i \in Ids : Cancels(i)) /\ UNCHANGED progress
    BY <2>1, <2>3 DEF Cancels, IInv, KindsApart
  <2> QED BY <2>1, <2>2, <2>3, CancelEffect
<1>14. ASSUME Reload PROVE KindsApart'
  BY <1>14 DEF Reload, HydratedTimer, IInv, KindsApart
<1> QED BY <1>2, <1>3, <1>4, <1>5, <1>6, <1>7, <1>8, <1>9, <1>10, <1>11, <1>12, <1>13,
     <1>14
       DEF Next, Buttons, LoadStep, PollStep, ScriptStep, StopStep, ApiStep

\* Every step keeps: nobody polls for a load whose request awaits its answer.
LEMMA NotPolledStep ==
  ASSUME IInv, Next
  PROVE  NotPolledYet'
<1>1. CASE UNCHANGED <<post, status, timer, polls>>
  BY <1>1 DEF IInv, NotPolledYet, InUse
<1>2. ASSUME \/ StopLoad
             \/ \E i \in Ids : ScriptReports(i)
             \/ StopHandled
             \/ StopLost
             \/ GenWorks
             \/ GenEnds
             \/ ApiRestarts
      PROVE  NotPolledYet'
  BY <1>1, <1>2
       DEF StopLoad, ScriptReports, StopHandled, StopLost, GenWorks, GenEnds,
       ApiRestarts, page, Update
<1>3. ASSUME StartLoad PROVE NotPolledYet'
  BY <1>3 DEF StartLoad, Start, IInv, TypeOK, Untouched, PollsName, NotPolledYet, InUse
<1>4. ASSUME NEW k \in Scripted, StartScripted(k) PROVE NotPolledYet'
  BY <1>4 DEF StartScripted, Start, IInv, NotPolledYet, InUse
<1>5. ASSUME NEW i \in Ids, GenerateLoad(i) PROVE NotPolledYet'
  BY <1>5 DEF GenerateLoad, page, IInv, NotPolledYet, InUse, Awaiting
<1>6. ASSUME NEW i \in Ids, PostLost(i) PROVE NotPolledYet'
  BY <1>6 DEF PostLost, page, IInv, NotPolledYet, InUse, Awaiting
<1>7. ASSUME NEW i \in Ids, LoadAccepted(i) PROVE NotPolledYet'
  BY <1>7 DEF LoadAccepted, IInv, TypeOK, NotPolledYet, InUse, Awaiting
<1>8. ASSUME NEW i \in Ids, LoadRefused(i) PROVE NotPolledYet'
  <2>1. /\ Fail(i) /\ post[i] \in {"rejected", "offline"} /\ post' = [post EXCEPT ![i] = "none"]
        /\ UNCHANGED <<count, kind, restored, polls, step, gen>>
    BY <1>8 DEF LoadRefused
  <2>2. CASE UNCHANGED <<status, saved, timer, progress>> /\ status[i] = "absent"
    BY <2>1, <2>2 DEF IInv, NotPolledYet, InUse, Awaiting
  <2>3. CASE Ends(i, "failed") /\ UNCHANGED progress
    BY <2>1, <2>3 DEF Ends, IInv, NotPolledYet, InUse, Awaiting
  <2> QED BY <2>1, <2>2, <2>3, FailEffect
<1>9. ASSUME NEW i \in Ids, PollTick(i) PROVE NotPolledYet'
  BY <1>9 DEF PollTick, IInv, NotPolledYet, InUse
<1>10. ASSUME NEW s \in Slots, LoadStatus(s) PROVE NotPolledYet'
  BY <1>10 DEF LoadStatus, IInv, NotPolledYet, InUse
<1>11. ASSUME NEW s \in Slots, PollFails(s) PROVE NotPolledYet'
  BY <1>11 DEF PollFails, FreePoll, IInv, NotPolledYet, InUse
<1>12. ASSUME NEW s \in Slots, PollOrphaned(s) PROVE NotPolledYet'
  BY <1>12 DEF PollOrphaned, FreePoll, IInv, NotPolledYet, InUse
<1>13. ASSUME NEW s \in Slots, PollShowsProgress(s) PROVE NotPolledYet'
  BY <1>13 DEF PollShowsProgress, FreePoll, Update, IInv, NotPolledYet, InUse
<1>14. ASSUME NEW s \in Slots, PollShowsEnd(s) PROVE NotPolledYet'
  <2>0. polls[s].op \in Ids /\ polls[s].op <= count /\ kind[polls[s].op] = "load" /\ InUse(s)
    BY <1>14 DEF PollShowsEnd, IInv, PollsName, InUse
  <2>1. /\ Complete(polls[s].op) /\ polls' = [polls EXCEPT ![s] = FreePoll]
        /\ UNCHANGED <<count, kind, restored, post, step, gen>>
    BY <1>14 DEF PollShowsEnd
  <2>2. CASE UNCHANGED <<status, saved, timer, progress>>
    BY <2>0, <2>1, <2>2 DEF FreePoll, IInv, NotPolledYet, InUse
  <2>3. CASE /\ Ends(polls[s].op, "completed")
             /\ progress' = [progress EXCEPT ![polls[s].op] = 100]
    BY <2>0, <2>1, <2>3 DEF Ends, FreePoll, IInv, NotPolledYet, InUse
  <2> QED BY <2>0, <2>1, <2>2, <2>3, CompleteEffect
<1>15. ASSUME NEW i \in Ids, ScriptEnds(i) PROVE NotPolledYet'
  <2>1. /\ Complete(i) /\ step[i] > 0 /\ step' = [step EXCEPT ![i] = 0]
        /\ UNCHANGED <<count, kind, restored, polls, post, gen>>
    BY <1>15 DEF ScriptEnds
  <2>2. CASE UNCHANGED <<status, saved, timer, progress>> /\ status[i] = "absent"
    BY <2>1, <2>2 DEF IInv, NotPolledYet, InUse
  <2>3. CASE Ends(i, "completed") /\ progress' = [progress EXCEPT ![i] = 100]
    BY <2>1, <2>3, LoadIsNotScripted
         DEF Ends, IInv, KindsApart, NotPolledYet, InUse, Awaiting
  <2> QED BY <2>1, <2>2, <2>3, CompleteEffect
<1>16. ASSUME StopReturns PROVE NotPolledYet'
  <2>1. CancelLoadOp /\ UNCHANGED <<count, kind, restored, polls, post, step, gen>>
    BY <1>16 DEF StopReturns
  <2>2. CASE UNCHANGED <<status, saved, timer, progress>>
    BY <2>1, <2>2 DEF IInv, NotPolledYet, InUse
  <2>3. CASE (\E i \in Ids : Cancels(i)) /\ UNCHANGED progress
    BY <2>1, <2>3 DEF Cancels, IInv, NotPolledYet, InUse
  <2> QED BY <2>1, <2>2, <2>3, CancelEffect
<1>17. ASSUME NEW i \in Ids, Purge(i) PROVE NotPolledYet'
  BY <1>17 DEF Purge, IInv, NotPolledYet, InUse
<1>18. ASSUME Reload PROVE NotPolledYet'
  BY <1>18 DEF Reload, NotPolledYet, Awaiting
<1> QED BY <1>2, <1>3, <1>4, <1>5, <1>6, <1>7, <1>8, <1>9, <1>10, <1>11, <1>12, <1>13,
     <1>14, <1>15, <1>16, <1>17, <1>18
       DEF Next, Buttons, LoadStep, PollStep, ScriptStep, StopStep, ApiStep

\* Every step, a reload included, leaves saved exactly what is running.
LEMMA SavedStep ==
  ASSUME IInv, Next
  PROVE  SavedIsRunning'
<1>1. CASE UNCHANGED <<saved, status, progress>>
  BY <1>1 DEF IInv, SavedIsRunning
<1>2. ASSUME \/ StopLoad
             \/ \E i \in Ids : GenerateLoad(i)
             \/ \E i \in Ids : PostLost(i)
             \/ \E i \in Ids : LoadAccepted(i)
             \/ \E i \in Ids : PollTick(i)
             \/ \E s \in Slots : LoadStatus(s)
             \/ \E s \in Slots : PollFails(s)
             \/ \E s \in Slots : PollOrphaned(s)
             \/ StopHandled
             \/ StopLost
             \/ GenWorks
             \/ GenEnds
             \/ ApiRestarts
      PROVE  SavedIsRunning'
  BY <1>1, <1>2
       DEF StopLoad, GenerateLoad, PostLost, LoadAccepted, PollTick, LoadStatus,
       PollFails, PollOrphaned, StopHandled, StopLost, GenWorks, GenEnds, ApiRestarts,
       page
<1>3. ASSUME StartLoad PROVE SavedIsRunning'
  BY <1>3 DEF StartLoad, Start, Persist, SavedIsRunning
<1>4. ASSUME NEW k \in Scripted, StartScripted(k) PROVE SavedIsRunning'
  BY <1>4 DEF StartScripted, Start, Persist, SavedIsRunning
<1>5. ASSUME NEW i \in Ids, LoadRefused(i) PROVE SavedIsRunning'
  <2>1. /\ Fail(i) /\ post[i] \in {"rejected", "offline"} /\ post' = [post EXCEPT ![i] = "none"]
        /\ UNCHANGED <<count, kind, restored, polls, step, gen>>
    BY <1>5 DEF LoadRefused
  <2>2. CASE UNCHANGED <<status, saved, timer, progress>> /\ status[i] = "absent"
    BY <2>1, <2>2 DEF IInv, SavedIsRunning
  <2>3. CASE Ends(i, "failed") /\ UNCHANGED progress
    BY <2>1, <2>3 DEF Ends, SavedIsRunning
  <2> QED BY <2>1, <2>2, <2>3, FailEffect
<1>6. ASSUME NEW s \in Slots, PollShowsProgress(s) PROVE SavedIsRunning'
  BY <1>6 DEF PollShowsProgress, Update, Persist, SavedIsRunning
<1>7. ASSUME NEW s \in Slots, PollShowsEnd(s) PROVE SavedIsRunning'
  <2>0. polls[s].op \in Ids /\ polls[s].op <= count /\ kind[polls[s].op] = "load" /\ InUse(s)
    BY <1>7 DEF PollShowsEnd, IInv, PollsName, InUse
  <2>1. /\ Complete(polls[s].op) /\ polls' = [polls EXCEPT ![s] = FreePoll]
        /\ UNCHANGED <<count, kind, restored, post, step, gen>>
    BY <1>7 DEF PollShowsEnd
  <2>2. CASE UNCHANGED <<status, saved, timer, progress>>
    BY <2>0, <2>1, <2>2 DEF IInv, SavedIsRunning
  <2>3. CASE /\ Ends(polls[s].op, "completed")
             /\ progress' = [progress EXCEPT ![polls[s].op] = 100]
    BY <2>0, <2>1, <2>3 DEF Ends, SavedIsRunning
  <2> QED BY <2>0, <2>1, <2>2, <2>3, CompleteEffect
<1>8. ASSUME NEW i \in Ids, ScriptReports(i) PROVE SavedIsRunning'
  BY <1>8 DEF ScriptReports, Update, Persist, SavedIsRunning
<1>9. ASSUME NEW i \in Ids, ScriptEnds(i) PROVE SavedIsRunning'
  <2>1. /\ Complete(i) /\ step[i] > 0 /\ step' = [step EXCEPT ![i] = 0]
        /\ UNCHANGED <<count, kind, restored, polls, post, gen>>
    BY <1>9 DEF ScriptEnds
  <2>2. CASE UNCHANGED <<status, saved, timer, progress>> /\ status[i] = "absent"
    BY <2>1, <2>2 DEF IInv, SavedIsRunning
  <2>3. CASE Ends(i, "completed") /\ progress' = [progress EXCEPT ![i] = 100]
    BY <2>1, <2>3 DEF Ends, SavedIsRunning
  <2> QED BY <2>1, <2>2, <2>3, CompleteEffect
<1>10. ASSUME StopReturns PROVE SavedIsRunning'
  <2>1. CancelLoadOp /\ UNCHANGED <<count, kind, restored, polls, post, step, gen>>
    BY <1>10 DEF StopReturns
  <2>2. CASE UNCHANGED <<status, saved, timer, progress>>
    BY <2>1, <2>2 DEF IInv, SavedIsRunning
  <2>3. CASE (\E i \in Ids : Cancels(i)) /\ UNCHANGED progress
    BY <2>1, <2>3 DEF Cancels, Persist, SavedIsRunning
  <2> QED BY <2>1, <2>2, <2>3, CancelEffect
<1>11. ASSUME NEW i \in Ids, Purge(i) PROVE SavedIsRunning'
  BY <1>11 DEF Purge, IInv, SavedIsRunning, Persistent
<1>12. ASSUME Reload PROVE SavedIsRunning'
  <2>1. /\ \A i \in Ids : i \in SavedIds <=> status[i] = "running"
        /\ \A i \in SavedIds : i \in Ids /\ (CHOOSE e \in saved : e[1] = i)[2] = progress[i]
    BY SavedEntries DEF IInv
  <2>2. \A i \in Ids : /\ status'[i] = "running" <=> status[i] = "running"
                       /\ status[i] = "running" => progress'[i] = progress[i]
    BY <1>12, <2>1 DEF Reload
  <2>3. saved' = saved /\ saved = Persistent(status, progress)
    BY <1>12 DEF Reload, IInv, SavedIsRunning
  <2> DEFINE R == {j \in Ids : status[j] = "running"}
  <2>4. {j \in Ids : status'[j] = "running"} = R
    BY <2>2
  <2>5. {<<j, progress'[j]>> : j \in R} = {<<j, progress[j]>> : j \in R}
    BY <2>2
  <2> QED BY <2>3, <2>4, <2>5 DEF SavedIsRunning, Persistent
<1> QED BY <1>2, <1>3, <1>4, <1>5, <1>6, <1>7, <1>8, <1>9, <1>10, <1>11, <1>12
     DEF Next, Buttons, LoadStep, PollStep, ScriptStep, StopStep, ApiStep

\* Every step leaves a running operation its request, its poll or its script.
LEMMA AttendedStep ==
  ASSUME IInv, Next
  PROVE  RunningIsAttended'
<1>1. CASE UNCHANGED <<status, kind, timer, post, step, restored>>
  BY <1>1 DEF IInv, RunningIsAttended, IsRunning
<1>2. ASSUME \/ StopLoad
             \/ \E i \in Ids : PollTick(i)
             \/ \E s \in Slots : LoadStatus(s)
             \/ \E s \in Slots : PollFails(s)
             \/ \E s \in Slots : PollShowsProgress(s)
             \/ StopHandled
             \/ StopLost
             \/ GenWorks
             \/ GenEnds
             \/ ApiRestarts
      PROVE  RunningIsAttended'
  BY <1>1, <1>2
       DEF StopLoad, PollTick, LoadStatus, PollFails, PollShowsProgress, StopHandled,
       StopLost, GenWorks, GenEnds, ApiRestarts, page, Update
<1>3. ASSUME StartLoad PROVE RunningIsAttended'
  BY <1>3 DEF StartLoad, Start, IInv, TypeOK, RunningIsAttended, IsRunning
<1>4. ASSUME NEW k \in Scripted, StartScripted(k) PROVE RunningIsAttended'
  BY <1>4, LoadIsNotScripted
       DEF StartScripted, Start, IInv, TypeOK, RunningIsAttended, IsRunning
<1>5. ASSUME NEW i \in Ids, GenerateLoad(i) PROVE RunningIsAttended'
  BY <1>5 DEF GenerateLoad, page, IInv, RunningIsAttended, IsRunning
<1>6. ASSUME NEW i \in Ids, PostLost(i) PROVE RunningIsAttended'
  BY <1>6 DEF PostLost, page, IInv, RunningIsAttended, IsRunning
<1>7. ASSUME NEW i \in Ids, LoadAccepted(i) PROVE RunningIsAttended'
  BY <1>7 DEF LoadAccepted, IInv, TypeOK, RunningIsAttended, IsRunning
<1>8. ASSUME NEW i \in Ids, LoadRefused(i) PROVE RunningIsAttended'
  <2>1. /\ Fail(i) /\ post[i] \in {"rejected", "offline"} /\ post' = [post EXCEPT ![i] = "none"]
        /\ UNCHANGED <<count, kind, restored, polls, step, gen>>
    BY <1>8 DEF LoadRefused
  <2>2. CASE UNCHANGED <<status, saved, timer, progress>> /\ status[i] = "absent"
    BY <2>1, <2>2 DEF IInv, RunningIsAttended, IsRunning
  <2>3. CASE Ends(i, "failed") /\ UNCHANGED progress
    BY <2>1, <2>3 DEF Ends, IInv, TypeOK, RunningIsAttended, IsRunning
  <2> QED BY <2>1, <2>2, <2>3, FailEffect
<1>9. ASSUME NEW s \in Slots, PollOrphaned(s) PROVE RunningIsAttended'
  BY <1>9 DEF PollOrphaned, IInv, RunningIsAttended, IsRunning
<1>10. ASSUME NEW s \in Slots, PollShowsEnd(s) PROVE RunningIsAttended'
  <2>0. polls[s].op \in Ids /\ polls[s].op <= count /\ kind[polls[s].op] = "load" /\ InUse(s)
    BY <1>10 DEF PollShowsEnd, IInv, PollsName, InUse
  <2>1. /\ Complete(polls[s].op) /\ polls' = [polls EXCEPT ![s] = FreePoll]
        /\ UNCHANGED <<count, kind, restored, post, step, gen>>
    BY <1>10 DEF PollShowsEnd
  <2>2. CASE UNCHANGED <<status, saved, timer, progress>>
    BY <2>0, <2>1, <2>2 DEF IInv, RunningIsAttended, IsRunning
  <2>3. CASE /\ Ends(polls[s].op, "completed")
             /\ progress' = [progress EXCEPT ![polls[s].op] = 100]
    BY <2>0, <2>1, <2>3 DEF Ends, IInv, TypeOK, RunningIsAttended, IsRunning
  <2> QED BY <2>0, <2>1, <2>2, <2>3, CompleteEffect
<1>11. ASSUME NEW i \in Ids, ScriptReports(i) PROVE RunningIsAttended'
  <2>1. UNCHANGED <<status, kind, timer, post, restored>> /\ step' = [step EXCEPT ![i] = @ + 1]
    BY <1>11 DEF ScriptReports, Update
  <2>2. step[i] \in 0..4 /\ step[i] + 1 > 0
    BY DEF IInv, TypeOK
  <2> QED BY <2>1, <2>2 DEF IInv, RunningIsAttended, IsRunning
<1>12. ASSUME NEW i \in Ids, ScriptEnds(i) PROVE RunningIsAttended'
  <2>1. /\ Complete(i) /\ step[i] > 0 /\ step' = [step EXCEPT ![i] = 0]
        /\ UNCHANGED <<count, kind, restored, polls, post, gen>>
    BY <1>12 DEF ScriptEnds
  <2>2. CASE UNCHANGED <<status, saved, timer, progress>> /\ status[i] = "absent"
    BY <2>1, <2>2 DEF IInv, RunningIsAttended, IsRunning
  <2>3. CASE Ends(i, "completed") /\ progress' = [progress EXCEPT ![i] = 100]
    BY <2>1, <2>3 DEF Ends, IInv, TypeOK, RunningIsAttended, IsRunning
  <2> QED BY <2>1, <2>2, <2>3, CompleteEffect
<1>13. ASSUME StopReturns PROVE RunningIsAttended'
  <2>1. CancelLoadOp /\ UNCHANGED <<count, kind, restored, polls, post, step, gen>>
    BY <1>13 DEF StopReturns
  <2>2. CASE UNCHANGED <<status, saved, timer, progress>>
    BY <2>1, <2>2 DEF IInv, RunningIsAttended, IsRunning
  <2>3. CASE (\E i \in Ids : Cancels(i)) /\ UNCHANGED progress
    BY <2>1, <2>3 DEF Cancels, IInv, TypeOK, RunningIsAttended, IsRunning
  <2> QED BY <2>1, <2>2, <2>3, CancelEffect
<1>14. ASSUME NEW i \in Ids, Purge(i) PROVE RunningIsAttended'
  BY <1>14 DEF Purge, IInv, RunningIsAttended, IsRunning
<1>15. ASSUME Reload PROVE RunningIsAttended'
  BY <1>15 DEF Reload, HydratedTimer, RunningIsAttended, IsRunning
<1> QED BY <1>2, <1>3, <1>4, <1>5, <1>6, <1>7, <1>8, <1>9, <1>10, <1>11, <1>12, <1>13,
     <1>14, <1>15
       DEF Next, Buttons, LoadStep, PollStep, ScriptStep, StopStep, ApiStep

\* Every step keeps 100 % for the completed operations.
LEMMA FullStep ==
  ASSUME IInv, Next
  PROVE  FullMeansCompleted'
<1>1. CASE UNCHANGED <<progress, status>>
  BY <1>1 DEF IInv, FullMeansCompleted
<1>2. ASSUME \/ StopLoad
             \/ \E i \in Ids : GenerateLoad(i)
             \/ \E i \in Ids : PostLost(i)
             \/ \E i \in Ids : LoadAccepted(i)
             \/ \E i \in Ids : PollTick(i)
             \/ \E s \in Slots : LoadStatus(s)
             \/ \E s \in Slots : PollFails(s)
             \/ \E s \in Slots : PollOrphaned(s)
             \/ StopHandled
             \/ StopLost
             \/ GenWorks
             \/ GenEnds
             \/ ApiRestarts
      PROVE  FullMeansCompleted'
  BY <1>1, <1>2
       DEF StopLoad, GenerateLoad, PostLost, LoadAccepted, PollTick, LoadStatus,
       PollFails, PollOrphaned, StopHandled, StopLost, GenWorks, GenEnds, ApiRestarts,
       page
<1>3. ASSUME StartLoad PROVE FullMeansCompleted'
  BY <1>3 DEF StartLoad, Start, IInv, TypeOK, FullMeansCompleted
<1>4. ASSUME NEW k \in Scripted, StartScripted(k) PROVE FullMeansCompleted'
  <2>1. count + 1 \in Ids
    BY <1>4, BoundsAssumption DEF StartScripted, Start, IInv, TypeOK, Ids
  <2>2. Levels(k)[1] \in 1..90
    BY LevelsType
  <2>3. /\ status' = [status EXCEPT ![count + 1] = "running"]
        /\ progress' = [progress EXCEPT ![count + 1] = Levels(k)[1]]
    BY <1>4 DEF StartScripted, Start
  <2> QED BY <2>1, <2>2, <2>3 DEF IInv, TypeOK, FullMeansCompleted
<1>5. ASSUME NEW i \in Ids, LoadRefused(i) PROVE FullMeansCompleted'
  <2>1. /\ Fail(i) /\ post[i] \in {"rejected", "offline"} /\ post' = [post EXCEPT ![i] = "none"]
        /\ UNCHANGED <<count, kind, restored, polls, step, gen>>
    BY <1>5 DEF LoadRefused
  <2>2. CASE UNCHANGED <<status, saved, timer, progress>> /\ status[i] = "absent"
    BY <2>1, <2>2 DEF IInv, FullMeansCompleted
  <2>3. CASE Ends(i, "failed") /\ UNCHANGED progress
    BY <2>1, <2>3 DEF Ends, IInv, NotPolledYet, Awaiting, FullMeansCompleted
  <2> QED BY <2>1, <2>2, <2>3, FailEffect
<1>6. ASSUME NEW s \in Slots, PollShowsProgress(s) PROVE FullMeansCompleted'
  <2>1. polls[s].op \in Ids
    BY <1>6 DEF PollShowsProgress, IInv, PollsName, InUse
  <2>2. Update(polls[s].op, Estimate(polls[s]))
    BY <1>6 DEF PollShowsProgress
  <2>3. CASE ~IsRunning(polls[s].op)
    BY <2>2, <2>3 DEF Update, IInv, FullMeansCompleted
  <2>4. CASE IsRunning(polls[s].op)
    <3>1. progress[polls[s].op] \in 0..99 /\ status[polls[s].op] # "completed"
      BY <2>1, <2>4 DEF IInv, TypeOK, FullMeansCompleted, IsRunning
    <3>2. Clamp(Estimate(polls[s])) \in 0..99
      BY <2>1, <3>1, EstimateType DEF IInv, Clamp
    <3>3. /\ progress' = [progress EXCEPT ![polls[s].op] = Clamp(Estimate(polls[s]))]
          /\ UNCHANGED status
      BY <2>2, <2>4 DEF Update
    <3> QED BY <2>1, <3>1, <3>2, <3>3 DEF IInv, TypeOK, FullMeansCompleted
  <2> QED BY <2>3, <2>4
<1>7. ASSUME NEW s \in Slots, PollShowsEnd(s) PROVE FullMeansCompleted'
  <2>0. polls[s].op \in Ids /\ polls[s].op <= count /\ kind[polls[s].op] = "load" /\ InUse(s)
    BY <1>7 DEF PollShowsEnd, IInv, PollsName, InUse
  <2>1. /\ Complete(polls[s].op) /\ polls' = [polls EXCEPT ![s] = FreePoll]
        /\ UNCHANGED <<count, kind, restored, post, step, gen>>
    BY <1>7 DEF PollShowsEnd
  <2>2. CASE UNCHANGED <<status, saved, timer, progress>>
    BY <2>0, <2>1, <2>2 DEF IInv, FullMeansCompleted
  <2>3. CASE /\ Ends(polls[s].op, "completed")
             /\ progress' = [progress EXCEPT ![polls[s].op] = 100]
    BY <2>0, <2>1, <2>3 DEF Ends, IInv, TypeOK, FullMeansCompleted
  <2> QED BY <2>0, <2>1, <2>2, <2>3, CompleteEffect
<1>8. ASSUME NEW i \in Ids, ScriptReports(i) PROVE FullMeansCompleted'
  <2>1. kind[i] \in Scripted /\ step[i] + 1 \in 1..Last(kind[i])
    BY <1>8 DEF ScriptReports, IInv, TypeOK, KindsApart, Last
  <2>2. Levels(kind[i])[step[i] + 1] \in 1..90
    BY <2>1, LevelsType
  <2>3. Update(i, Levels(kind[i])[step[i] + 1])
    BY <1>8 DEF ScriptReports
  <2> QED BY <2>2, <2>3 DEF Update, Clamp, IInv, FullMeansCompleted, IsRunning
<1>9. ASSUME NEW i \in Ids, ScriptEnds(i) PROVE FullMeansCompleted'
  <2>1. /\ Complete(i) /\ step[i] > 0 /\ step' = [step EXCEPT ![i] = 0]
        /\ UNCHANGED <<count, kind, restored, polls, post, gen>>
    BY <1>9 DEF ScriptEnds
  <2>2. CASE UNCHANGED <<status, saved, timer, progress>> /\ status[i] = "absent"
    BY <2>1, <2>2 DEF IInv, FullMeansCompleted
  <2>3. CASE Ends(i, "completed") /\ progress' = [progress EXCEPT ![i] = 100]
    BY <2>1, <2>3 DEF Ends, IInv, TypeOK, FullMeansCompleted
  <2> QED BY <2>1, <2>2, <2>3, CompleteEffect
<1>10. ASSUME StopReturns PROVE FullMeansCompleted'
  <2>1. CancelLoadOp /\ UNCHANGED <<count, kind, restored, polls, post, step, gen>>
    BY <1>10 DEF StopReturns
  <2>2. CASE UNCHANGED <<status, saved, timer, progress>>
    BY <2>1, <2>2 DEF IInv, FullMeansCompleted
  <2>3. CASE (\E i \in Ids : Cancels(i)) /\ UNCHANGED progress
    BY <2>1, <2>3 DEF Cancels, IInv, FullMeansCompleted, IsRunning
  <2> QED BY <2>1, <2>2, <2>3, CancelEffect
<1>11. ASSUME NEW i \in Ids, Purge(i) PROVE FullMeansCompleted'
  BY <1>11 DEF Purge, IInv, TypeOK, FullMeansCompleted
<1>12. ASSUME Reload PROVE FullMeansCompleted'
  <2>1. \A i \in SavedIds : /\ i \in Ids /\ status[i] = "running"
                              /\ (CHOOSE e \in saved : e[1] = i)[2] = progress[i]
    BY SavedEntries DEF IInv
  <2>2. \A i \in Ids : /\ status'[i] # "completed"
                       /\ progress'[i] = IF i \in SavedIds THEN progress[i] ELSE 0
    BY <1>12, <2>1 DEF Reload
  <2>3. \A i \in SavedIds : progress[i] # 100
    BY <2>1 DEF IInv, FullMeansCompleted
  <2> QED BY <2>2, <2>3 DEF FullMeansCompleted
<1> QED BY <1>2, <1>3, <1>4, <1>5, <1>6, <1>7, <1>8, <1>9, <1>10, <1>11, <1>12
     DEF Next, Buttons, LoadStep, PollStep, ScriptStep, StopStep, ApiStep

\* Every step keeps: a request of a page that was left has no operation any more.
LEMMA OrphansStep ==
  ASSUME IInv, Next
  PROVE  OrphansGone'
<1>1. CASE UNCHANGED <<post, restored, status, timer, polls>>
  BY <1>1 DEF IInv, OrphansGone, InUse
<1>2. ASSUME \/ StopLoad
             \/ \E i \in Ids : ScriptReports(i)
             \/ StopHandled
             \/ StopLost
             \/ GenWorks
             \/ GenEnds
             \/ ApiRestarts
      PROVE  OrphansGone'
  BY <1>1, <1>2
       DEF StopLoad, ScriptReports, StopHandled, StopLost, GenWorks, GenEnds,
       ApiRestarts, page, Update
<1>3. ASSUME StartLoad PROVE OrphansGone'
  BY <1>3 DEF StartLoad, Start, IInv, TypeOK, OrphansGone, InUse
<1>4. ASSUME NEW k \in Scripted, StartScripted(k) PROVE OrphansGone'
  BY <1>4 DEF StartScripted, Start, IInv, TypeOK, Untouched, OrphansGone, InUse
<1>5. ASSUME NEW i \in Ids, GenerateLoad(i) PROVE OrphansGone'
  BY <1>5 DEF GenerateLoad, page, IInv, OrphansGone, InUse
<1>6. ASSUME NEW i \in Ids, PostLost(i) PROVE OrphansGone'
  BY <1>6 DEF PostLost, page, IInv, OrphansGone, InUse
<1>7. ASSUME NEW i \in Ids, LoadAccepted(i) PROVE OrphansGone'
  BY <1>7 DEF LoadAccepted, IInv, OrphansGone, InUse
<1>8. ASSUME NEW i \in Ids, LoadRefused(i) PROVE OrphansGone'
  <2>1. /\ Fail(i) /\ post[i] \in {"rejected", "offline"} /\ post' = [post EXCEPT ![i] = "none"]
        /\ UNCHANGED <<count, kind, restored, polls, step, gen>>
    BY <1>8 DEF LoadRefused
  <2>2. CASE UNCHANGED <<status, saved, timer, progress>> /\ status[i] = "absent"
    BY <2>1, <2>2 DEF IInv, OrphansGone, InUse
  <2>3. CASE Ends(i, "failed") /\ UNCHANGED progress
    BY <2>1, <2>3 DEF Ends, IInv, OrphansGone, InUse
  <2> QED BY <2>1, <2>2, <2>3, FailEffect
<1>9. ASSUME NEW i \in Ids, PollTick(i) PROVE OrphansGone'
  BY <1>9 DEF PollTick, IInv, OrphansGone, InUse
<1>10. ASSUME NEW s \in Slots, LoadStatus(s) PROVE OrphansGone'
  BY <1>10 DEF LoadStatus, IInv, OrphansGone, InUse
<1>11. ASSUME NEW s \in Slots, PollFails(s) PROVE OrphansGone'
  BY <1>11 DEF PollFails, FreePoll, IInv, OrphansGone, InUse
<1>12. ASSUME NEW s \in Slots, PollOrphaned(s) PROVE OrphansGone'
  BY <1>12 DEF PollOrphaned, FreePoll, IInv, OrphansGone, InUse
<1>13. ASSUME NEW s \in Slots, PollShowsProgress(s) PROVE OrphansGone'
  BY <1>13 DEF PollShowsProgress, FreePoll, Update, IInv, OrphansGone, InUse
<1>14. ASSUME NEW s \in Slots, PollShowsEnd(s) PROVE OrphansGone'
  <2>0. polls[s].op \in Ids /\ polls[s].op <= count /\ kind[polls[s].op] = "load" /\ InUse(s)
    BY <1>14 DEF PollShowsEnd, IInv, PollsName, InUse
  <2>1. /\ Complete(polls[s].op) /\ polls' = [polls EXCEPT ![s] = FreePoll]
        /\ UNCHANGED <<count, kind, restored, post, step, gen>>
    BY <1>14 DEF PollShowsEnd
  <2>2. CASE UNCHANGED <<status, saved, timer, progress>>
    BY <2>0, <2>1, <2>2 DEF FreePoll, IInv, OrphansGone, InUse
  <2>3. CASE /\ Ends(polls[s].op, "completed")
             /\ progress' = [progress EXCEPT ![polls[s].op] = 100]
    BY <2>0, <2>1, <2>3 DEF Ends, FreePoll, IInv, OrphansGone, InUse
  <2> QED BY <2>0, <2>1, <2>2, <2>3, CompleteEffect
<1>15. ASSUME NEW i \in Ids, ScriptEnds(i) PROVE OrphansGone'
  <2>1. /\ Complete(i) /\ step[i] > 0 /\ step' = [step EXCEPT ![i] = 0]
        /\ UNCHANGED <<count, kind, restored, polls, post, gen>>
    BY <1>15 DEF ScriptEnds
  <2>2. CASE UNCHANGED <<status, saved, timer, progress>> /\ status[i] = "absent"
    BY <2>1, <2>2 DEF IInv, OrphansGone, InUse
  <2>3. CASE Ends(i, "completed") /\ progress' = [progress EXCEPT ![i] = 100]
    BY <2>1, <2>3 DEF Ends, IInv, OrphansGone, InUse
  <2> QED BY <2>1, <2>2, <2>3, CompleteEffect
<1>16. ASSUME StopReturns PROVE OrphansGone'
  <2>1. CancelLoadOp /\ UNCHANGED <<count, kind, restored, polls, post, step, gen>>
    BY <1>16 DEF StopReturns
  <2>2. CASE UNCHANGED <<status, saved, timer, progress>>
    BY <2>1, <2>2 DEF IInv, OrphansGone, InUse
  <2>3. CASE (\E i \in Ids : Cancels(i)) /\ UNCHANGED progress
    BY <2>1, <2>3 DEF Cancels, IInv, OrphansGone, IsRunning, InUse
  <2> QED BY <2>1, <2>2, <2>3, CancelEffect
<1>17. ASSUME NEW i \in Ids, Purge(i) PROVE OrphansGone'
  BY <1>17 DEF Purge, IInv, OrphansGone, InUse
<1>18. ASSUME Reload PROVE OrphansGone'
  BY <1>18 DEF Reload, HydratedTimer, FreePoll, OrphansGone, InUse
<1> QED BY <1>2, <1>3, <1>4, <1>5, <1>6, <1>7, <1>8, <1>9, <1>10, <1>11, <1>12, <1>13,
     <1>14, <1>15, <1>16, <1>17, <1>18
       DEF Next, Buttons, LoadStep, PollStep, ScriptStep, StopStep, ApiStep

\* Every step keeps: an idle generator does not run again for a load polled for.
LEMMA AnswersStep ==
  ASSUME IInv, Next
  PROVE  IdleAnswers'
<1>1. CASE UNCHANGED <<polls, restored, gen>>
  BY <1>1 DEF IInv, IdleAnswers
<1>2. ASSUME \/ StartLoad
             \/ \E k \in Scripted : StartScripted(k)
             \/ StopLoad
             \/ \E i \in Ids : PostLost(i)
             \/ \E i \in Ids : LoadAccepted(i)
             \/ \E i \in Ids : LoadRefused(i)
             \/ \E i \in Ids : ScriptReports(i)
             \/ \E i \in Ids : ScriptEnds(i)
             \/ StopLost
             \/ StopReturns
             \/ \E i \in Ids : Purge(i)
      PROVE  IdleAnswers'
  BY <1>1, <1>2
       DEF StartLoad, StartScripted, StopLoad, PostLost, LoadAccepted, LoadRefused,
       ScriptReports, ScriptEnds, StopLost, StopReturns, Purge, page
<1>3. ASSUME NEW i \in Ids, GenerateLoad(i) PROVE IdleAnswers'
  BY <1>3
       DEF GenerateLoad, page, IInv, NotPolledYet, Awaiting, OrphansGone, IdleAnswers,
       InUse
<1>4. ASSUME NEW i \in Ids, PollTick(i) PROVE IdleAnswers'
  BY <1>4 DEF PollTick, IInv, IdleAnswers
<1>5. ASSUME NEW s \in Slots, LoadStatus(s) PROVE IdleAnswers'
  BY <1>5 DEF LoadStatus, IInv, IdleAnswers
<1>6. ASSUME NEW s \in Slots, PollFails(s) PROVE IdleAnswers'
  BY <1>6 DEF PollFails, FreePoll, IInv, IdleAnswers
<1>7. ASSUME NEW s \in Slots, PollOrphaned(s) PROVE IdleAnswers'
  BY <1>7 DEF PollOrphaned, FreePoll, IInv, IdleAnswers
<1>8. ASSUME NEW s \in Slots, PollShowsProgress(s) PROVE IdleAnswers'
  BY <1>8 DEF PollShowsProgress, FreePoll, IInv, IdleAnswers
<1>9. ASSUME NEW s \in Slots, PollShowsEnd(s) PROVE IdleAnswers'
  <2>0. polls[s].op \in Ids /\ polls[s].op <= count /\ kind[polls[s].op] = "load" /\ InUse(s)
    BY <1>9 DEF PollShowsEnd, IInv, PollsName, InUse
  <2>1. /\ Complete(polls[s].op) /\ polls' = [polls EXCEPT ![s] = FreePoll]
        /\ UNCHANGED <<count, kind, restored, post, step, gen>>
    BY <1>9 DEF PollShowsEnd
  <2>2. CASE UNCHANGED <<status, saved, timer, progress>>
    BY <2>0, <2>1, <2>2 DEF FreePoll, IInv, IdleAnswers
  <2>3. CASE /\ Ends(polls[s].op, "completed")
             /\ progress' = [progress EXCEPT ![polls[s].op] = 100]
    BY <2>0, <2>1, <2>3 DEF FreePoll, IInv, IdleAnswers
  <2> QED BY <2>0, <2>1, <2>2, <2>3, CompleteEffect
<1>10. ASSUME StopHandled PROVE IdleAnswers'
  BY <1>10 DEF StopHandled, GenIdle, IdleAnswers
<1>11. ASSUME Reload PROVE IdleAnswers'
  BY <1>11 DEF Reload, FreePoll, IdleAnswers
<1>12. ASSUME GenWorks PROVE IdleAnswers'
  BY <1>12 DEF GenWorks, page, IInv, IdleAnswers
<1>13. ASSUME GenEnds PROVE IdleAnswers'
  BY <1>13 DEF GenEnds, GenIdle, IdleAnswers
<1>14. ASSUME ApiRestarts PROVE IdleAnswers'
  BY <1>14 DEF ApiRestarts, GenIdle, IdleAnswers
<1> QED BY <1>2, <1>3, <1>4, <1>5, <1>6, <1>7, <1>8, <1>9, <1>10, <1>11, <1>12, <1>13,
     <1>14
       DEF Next, Buttons, LoadStep, PollStep, ScriptStep, StopStep, ApiStep

\* Every step leaves a completed operation completed, or removes it.
LEMMA FinalStep ==
  ASSUME IInv, Next
  PROVE  Final
<1>1. CASE UNCHANGED status
  BY <1>1 DEF Final
<1>2. ASSUME \/ StopLoad
             \/ \E i \in Ids : GenerateLoad(i)
             \/ \E i \in Ids : PostLost(i)
             \/ \E i \in Ids : LoadAccepted(i)
             \/ \E i \in Ids : PollTick(i)
             \/ \E s \in Slots : LoadStatus(s)
             \/ \E s \in Slots : PollFails(s)
             \/ \E s \in Slots : PollOrphaned(s)
             \/ \E s \in Slots : PollShowsProgress(s)
             \/ \E i \in Ids : ScriptReports(i)
             \/ StopHandled
             \/ StopLost
             \/ GenWorks
             \/ GenEnds
             \/ ApiRestarts
      PROVE  Final
  BY <1>1, <1>2
       DEF StopLoad, GenerateLoad, PostLost, LoadAccepted, PollTick, LoadStatus,
       PollFails, PollOrphaned, PollShowsProgress, ScriptReports, StopHandled,
       StopLost, GenWorks, GenEnds, ApiRestarts, page, Update
<1>3. ASSUME StartLoad PROVE Final
  BY <1>3 DEF StartLoad, Start, IInv, TypeOK, Untouched, Final
<1>4. ASSUME NEW k \in Scripted, StartScripted(k) PROVE Final
  BY <1>4 DEF StartScripted, Start, IInv, TypeOK, Untouched, Final
<1>5. ASSUME NEW i \in Ids, LoadRefused(i) PROVE Final
  <2>1. Fail(i) /\ status[i] # "completed"
    BY <1>5 DEF LoadRefused, IInv, NotPolledYet, Awaiting
  <2>2. CASE UNCHANGED <<status, saved, timer>>
    BY <2>2 DEF Final
  <2>3. CASE Ends(i, "failed")
    BY <2>1, <2>3 DEF Ends, Final
  <2> QED BY <2>1, <2>2, <2>3, FailEffect
<1>6. ASSUME NEW s \in Slots, PollShowsEnd(s) PROVE Final
  <2>0. polls[s].op \in Ids /\ polls[s].op <= count /\ kind[polls[s].op] = "load" /\ InUse(s)
    BY <1>6 DEF PollShowsEnd, IInv, PollsName, InUse
  <2>1. /\ Complete(polls[s].op) /\ polls' = [polls EXCEPT ![s] = FreePoll]
        /\ UNCHANGED <<count, kind, restored, post, step, gen>>
    BY <1>6 DEF PollShowsEnd
  <2>2. CASE UNCHANGED <<status, saved, timer, progress>>
    BY <2>0, <2>1, <2>2 DEF Final
  <2>3. CASE /\ Ends(polls[s].op, "completed")
             /\ progress' = [progress EXCEPT ![polls[s].op] = 100]
    BY <2>0, <2>1, <2>3 DEF Ends, Final
  <2> QED BY <2>0, <2>1, <2>2, <2>3, CompleteEffect
<1>7. ASSUME NEW i \in Ids, ScriptEnds(i) PROVE Final
  <2>1. /\ Complete(i) /\ step[i] > 0 /\ step' = [step EXCEPT ![i] = 0]
        /\ UNCHANGED <<count, kind, restored, polls, post, gen>>
    BY <1>7 DEF ScriptEnds
  <2>2. CASE UNCHANGED <<status, saved, timer, progress>> /\ status[i] = "absent"
    BY <2>1, <2>2 DEF Final
  <2>3. CASE Ends(i, "completed") /\ progress' = [progress EXCEPT ![i] = 100]
    BY <2>1, <2>3 DEF Ends, Final
  <2> QED BY <2>1, <2>2, <2>3, CompleteEffect
<1>8. ASSUME StopReturns PROVE Final
  <2>1. CancelLoadOp /\ UNCHANGED <<count, kind, restored, polls, post, step, gen>>
    BY <1>8 DEF StopReturns
  <2>2. CASE UNCHANGED <<status, saved, timer, progress>>
    BY <2>1, <2>2 DEF Final
  <2>3. CASE (\E i \in Ids : Cancels(i)) /\ UNCHANGED progress
    BY <2>1, <2>3 DEF Cancels, Final, IsRunning
  <2> QED BY <2>1, <2>2, <2>3, CancelEffect
<1>9. ASSUME NEW i \in Ids, Purge(i) PROVE Final
  BY <1>9 DEF Purge, Final
<1>10. ASSUME Reload PROVE Final
  <2>1. \A i \in Ids : status'[i] \in {"running", "absent"} /\ (status'[i] = "running" => i \in SavedIds)
    BY <1>10 DEF Reload
  <2>2. \A i \in SavedIds : status[i] = "running"
    BY SavedEntries DEF IInv
  <2> QED BY <2>1, <2>2 DEF Final
<1> QED BY <1>2, <1>3, <1>4, <1>5, <1>6, <1>7, <1>8, <1>9, <1>10
     DEF Next, Buttons, LoadStep, PollStep, ScriptStep, StopStep, ApiStep

\* Every step leaves a completed load with no generator at work.
LEMMA OverStep ==
  ASSUME IInv, Next
  PROVE  CompletedLoadIsOver'
<1>1. CASE UNCHANGED <<restored, kind, status, gen>>
  BY <1>1 DEF IInv, CompletedLoadIsOver
<1>2. ASSUME \/ StopLoad
             \/ \E i \in Ids : PostLost(i)
             \/ \E i \in Ids : LoadAccepted(i)
             \/ \E i \in Ids : PollTick(i)
             \/ \E s \in Slots : LoadStatus(s)
             \/ \E s \in Slots : PollFails(s)
             \/ \E s \in Slots : PollOrphaned(s)
             \/ \E s \in Slots : PollShowsProgress(s)
             \/ \E i \in Ids : ScriptReports(i)
             \/ StopLost
      PROVE  CompletedLoadIsOver'
  BY <1>1, <1>2
       DEF StopLoad, PostLost, LoadAccepted, PollTick, LoadStatus, PollFails,
       PollOrphaned, PollShowsProgress, ScriptReports, StopLost, page, Update
<1>3. ASSUME StartLoad PROVE CompletedLoadIsOver'
  BY <1>3 DEF StartLoad, Start, IInv, TypeOK, CompletedLoadIsOver
<1>4. ASSUME NEW k \in Scripted, StartScripted(k) PROVE CompletedLoadIsOver'
  BY <1>4, LoadIsNotScripted DEF StartScripted, Start, IInv, CompletedLoadIsOver
<1>5. ASSUME NEW i \in Ids, GenerateLoad(i) PROVE CompletedLoadIsOver'
  BY <1>5
       DEF GenerateLoad, page, IInv, NotPolledYet, Awaiting, OrphansGone,
       CompletedLoadIsOver
<1>6. ASSUME NEW i \in Ids, LoadRefused(i) PROVE CompletedLoadIsOver'
  <2>1. /\ Fail(i) /\ post[i] \in {"rejected", "offline"} /\ post' = [post EXCEPT ![i] = "none"]
        /\ UNCHANGED <<count, kind, restored, polls, step, gen>>
    BY <1>6 DEF LoadRefused
  <2>2. CASE UNCHANGED <<status, saved, timer, progress>> /\ status[i] = "absent"
    BY <2>1, <2>2 DEF IInv, CompletedLoadIsOver
  <2>3. CASE Ends(i, "failed") /\ UNCHANGED progress
    BY <2>1, <2>3 DEF Ends, IInv, CompletedLoadIsOver
  <2> QED BY <2>1, <2>2, <2>3, FailEffect
<1>7. ASSUME NEW s \in Slots, PollShowsEnd(s) PROVE CompletedLoadIsOver'
  <2>0. /\ polls[s].op \in Ids /\ polls[s].stage = "answered" /\ ~polls[s].running
        /\ UNCHANGED <<kind, restored, gen>> /\ Complete(polls[s].op)
    BY <1>7 DEF PollShowsEnd, IInv, PollsName, InUse
  <2>1. polls[s].op \in restored \/ ~(gen.running /\ gen.owner = polls[s].op)
    BY <2>0 DEF IInv, IdleAnswers
  <2>2. CASE UNCHANGED <<status, saved, timer, progress>>
    BY <2>0, <2>2 DEF IInv, CompletedLoadIsOver
  <2>3. CASE Ends(polls[s].op, "completed")
    <3>1. status' = [status EXCEPT ![polls[s].op] = "completed"]
      BY <2>3 DEF Ends
    <3> QED BY <2>0, <2>1, <3>1 DEF IInv, TypeOK, CompletedLoadIsOver
  <2> QED BY <2>0, <2>2, <2>3, CompleteEffect
<1>8. ASSUME NEW i \in Ids, ScriptEnds(i) PROVE CompletedLoadIsOver'
  <2>1. /\ Complete(i) /\ step[i] > 0 /\ step' = [step EXCEPT ![i] = 0]
        /\ UNCHANGED <<count, kind, restored, polls, post, gen>>
    BY <1>8 DEF ScriptEnds
  <2>2. CASE UNCHANGED <<status, saved, timer, progress>> /\ status[i] = "absent"
    BY <2>1, <2>2 DEF IInv, CompletedLoadIsOver
  <2>3. CASE Ends(i, "completed") /\ progress' = [progress EXCEPT ![i] = 100]
    BY <2>1, <2>3, LoadIsNotScripted DEF Ends, IInv, KindsApart, CompletedLoadIsOver
  <2> QED BY <2>1, <2>2, <2>3, CompleteEffect
<1>9. ASSUME StopHandled PROVE CompletedLoadIsOver'
  BY <1>9 DEF StopHandled, GenIdle, CompletedLoadIsOver
<1>10. ASSUME StopReturns PROVE CompletedLoadIsOver'
  <2>1. CancelLoadOp /\ UNCHANGED <<count, kind, restored, polls, post, step, gen>>
    BY <1>10 DEF StopReturns
  <2>2. CASE UNCHANGED <<status, saved, timer, progress>>
    BY <2>1, <2>2 DEF IInv, CompletedLoadIsOver
  <2>3. CASE (\E i \in Ids : Cancels(i)) /\ UNCHANGED progress
    BY <2>1, <2>3 DEF Cancels, IInv, CompletedLoadIsOver
  <2> QED BY <2>1, <2>2, <2>3, CancelEffect
<1>11. ASSUME NEW i \in Ids, Purge(i) PROVE CompletedLoadIsOver'
  BY <1>11 DEF Purge, IInv, CompletedLoadIsOver
<1>12. ASSUME Reload PROVE CompletedLoadIsOver'
  BY <1>12 DEF Reload, CompletedLoadIsOver
<1>13. ASSUME GenWorks PROVE CompletedLoadIsOver'
  BY <1>13 DEF GenWorks, page, IInv, CompletedLoadIsOver
<1>14. ASSUME GenEnds PROVE CompletedLoadIsOver'
  BY <1>14 DEF GenEnds, GenIdle, CompletedLoadIsOver
<1>15. ASSUME ApiRestarts PROVE CompletedLoadIsOver'
  BY <1>15 DEF ApiRestarts, GenIdle, CompletedLoadIsOver
<1> QED BY <1>2, <1>3, <1>4, <1>5, <1>6, <1>7, <1>8, <1>9, <1>10, <1>11, <1>12, <1>13,
     <1>14, <1>15
       DEF Next, Buttons, LoadStep, PollStep, ScriptStep, StopStep, ApiStep

----------------------------------------------------------------------------
(* The theorems *)

\* The page opens with no operation and an idle generator.
LEMMA InitInv == Init => IInv
<1> SUFFICES ASSUME Init PROVE IInv
  OBVIOUS
<1>1. GenIdle \in Generator /\ FreePoll \in Poll
  BY GenIdleType, FreePollType
<1>2. TypeOK
  BY <1>1, BoundsAssumption DEF Init, TypeOK, Generator, Poll
<1>3. PollsName /\ Untouched /\ KindsApart /\ NotPolledYet /\ OrphansGone /\ IdleAnswers
  BY
       DEF Init, PollsName, Untouched, KindsApart, NotPolledYet, OrphansGone,
       IdleAnswers, InUse, FreePoll
<1>4. SavedIsRunning /\ RunningIsAttended /\ FullMeansCompleted /\ CompletedLoadIsOver
  BY
       DEF Init, SavedIsRunning, Persistent, RunningIsAttended, FullMeansCompleted,
       CompletedLoadIsOver, IsRunning
<1> QED BY <1>2, <1>3, <1>4 DEF IInv

\* IInv is inductive: a step of Next by the lemmas above, a stuttering step
\* because IInv is about vars.
LEMMA StepInv == IInv /\ [Next]_vars => IInv'
<1> SUFFICES ASSUME IInv, [Next]_vars PROVE IInv'
  OBVIOUS
<1>1. CASE Next
  BY <1>1, TypeStep, PollsNameStep, UntouchedStep, KindsStep, NotPolledStep,
       SavedStep, AttendedStep, FullStep, OrphansStep, AnswersStep, OverStep DEF IInv
<1>2. CASE UNCHANGED vars
  BY <1>2
       DEF vars, IInv, TypeOK, PollsName, Untouched, KindsApart, NotPolledYet,
       OrphansGone, IdleAnswers, SavedIsRunning, RunningIsAttended, FullMeansCompleted,
       CompletedLoadIsOver, InUse, IsRunning
<1> QED BY <1>1, <1>2

\* IInv holds in every state that operations.ts and main.py can reach.
LEMMA Invariance == Spec => []IInv
  BY InitInv, StepInv, PTL DEF Spec

\* Every variable keeps its type: percentages stay between 0 and 100, and the
\* polls name operations (operationsStore.ts, backgroundOps.ts, main.py).
THEOREM TypeCorrect == Spec => []TypeOK
<1>1. IInv => TypeOK
  BY DEF IInv
<1> QED BY <1>1, Invariance, PTL

\* A reload brings back exactly the running operations with the percentages
\* shown, in every state of the page (_persist and _hydrate).
THEOREM ReloadRestoresRunning == Spec => []SavedIsRunning
<1>1. IInv => SavedIsRunning
  BY DEF IInv
<1> QED BY <1>1, Invariance, PTL

\* No running operation is forgotten by the requests, intervals and scripts of
\* backgroundOps.ts, whatever is lost, cancelled or reloaded.
THEOREM NothingForgotten == Spec => []RunningIsAttended
<1>1. IInv => RunningIsAttended
  BY DEF IInv
<1> QED BY <1>1, Invariance, PTL

\* 100 % and "completed" go together, for every size of a load: the estimates
\* of the polls are capped and late reports touch running operations only.
THEOREM FullIsCompleted == Spec => []FullMeansCompleted
<1>1. IInv => FullMeansCompleted
  BY DEF IInv
<1> QED BY <1>1, Invariance, PTL

\* A load shown as completed is not at work any more, for every number of
\* overlapping polls, Stop clicks and loads that follow each other.
THEOREM CompletedIsOver == Spec => []CompletedLoadIsOver
<1>1. IInv => CompletedLoadIsOver
  BY DEF IInv
<1> QED BY <1>1, Invariance, PTL

\* No refusal, Stop click, poll or reload makes a completed operation anything
\* but completed until it leaves the store.
THEOREM CompletedStays == Spec => CompletedIsFinal
<1>1. IInv /\ [Next]_vars => [Final]_vars
  BY FinalStep
<1>2. Spec => [][Final]_vars
  BY <1>1, Invariance, PTL DEF Spec
<1> QED BY <1>2 DEF CompletedIsFinal, Final

============================================================================
