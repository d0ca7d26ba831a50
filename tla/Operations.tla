----------------------------- MODULE Operations -----------------------------
(***************************************************************************)
(* Background operations of the dashboard: the store that owns every       *)
(* long-running task (store/operationsStore.ts), the functions that start  *)
(* and drive one (services/backgroundOps.ts), the buttons of the Dashboard *)
(* page, and the load generator of the API process (api/main.py) that a    *)
(* load task polls.  The widget and the toasts that show the operations    *)
(* are in TaskOverlays; triggerRefresh, which many steps call, starts a    *)
(* refresh of ClusterSync, where one may start at any moment.              *)
(*                                                                         *)
(* One browser tab.  An operation is a number: ids carry Date.now(), so    *)
(* they grow with the order of the clicks.  Time is left out: an interval  *)
(* may tick, a sleep end and the 30 s purge strike at any moment.          *)
(***************************************************************************)
EXTENDS Naturals, Sequences

CONSTANTS
  Scripted,     \* the kinds of operation, other than "load", that are started
  MaxOps,       \* bound: operations started
  MaxPolls,     \* bound: load-status requests in flight at once
  MaxReloads,   \* bound: page reloads
  LoadSize,     \* writes + reads + deletes of a load
  Batch         \* operations the generator performs in one step

ASSUME ScriptedAssumption ==
  Scripted \subseteq {"flush", "compact", "snap", "restore", "add", "remove"}
ASSUME BoundsAssumption == MaxOps \in Nat /\ MaxPolls \in Nat /\ MaxReloads \in Nat
ASSUME LoadAssumption == LoadSize \in Nat \ {0} /\ Batch \in Nat \ {0}

Ids == 1..MaxOps
Slots == 1..MaxPolls
Kinds == Scripted \cup {"load"}

VARIABLES
  count,        \* how many operations were started
  kind,         \* the prefix of each operation's id
  status,       \* status of each operation, "absent" when the map has no entry
  progress,     \* its percentage
  saved,        \* the running operations in sessionStorage, with their progress
  restored,     \* the operations this page took from sessionStorage
  timer,        \* the poll interval of an operation: started here or resumed
  polls,        \* the load-status requests in flight
  post,         \* the generate-load request of a load
  step,         \* how far the script of another operation has come, 0 when over
  stopping,     \* the stop-load request: none, sent, or answered
  reloads,
  gen           \* the load generator of the API process

page == <<count, kind, status, progress, saved, restored, timer, polls, step, reloads>>
vars == <<count, kind, status, progress, saved, restored, timer, polls, post, step,
          stopping, reloads, gen>>

\* No load.  (The counters an ended load leaves behind are read by no one: a
\* poll that finds the generator idle shows 100 %.)
GenIdle == [running |-> FALSE, done |-> 0, owner |-> 0]
FreePoll == [stage |-> "free", op |-> 0, mode |-> "none", running |-> FALSE, done |-> 0]

TypeOK ==
  /\ count \in 0..MaxOps
  /\ kind \in [Ids -> Kinds \cup {"none"}]
  /\ status \in [Ids -> {"absent", "running", "completed", "failed"}]
  /\ progress \in [Ids -> 0..100]
  /\ saved \subseteq Ids \X (0..100)
  /\ restored \subseteq Ids
  /\ timer \in [Ids -> {"none", "started", "resumed"}]
  /\ polls \in [Slots -> [stage : {"free", "sent", "answered"}, op : Ids \cup {0},
                          mode : {"none", "started", "resumed"},
                          running : BOOLEAN, done : 0..LoadSize]]
  /\ post \in [Ids -> {"none", "sent", "accepted", "rejected", "offline", "orphan"}]
  /\ step \in [Ids -> 0..4]
  /\ stopping \in {"none", "sent", "answered"}
  /\ reloads \in 0..MaxReloads
  /\ gen \in [running : BOOLEAN, done : 0..LoadSize, owner : Ids \cup {0}]

-----------------------------------------------------------------------------
(* The store's mutations.  Each names the operation's entry it leaves.      *)

IsRunning(i) == status[i] = "running"
LoadRunning == \E i \in Ids : kind[i] = "load" /\ IsRunning(i)

\* _persist: what sessionStorage holds when the entries are st with progress pr.
Persistent(st, pr) == {<<i, pr[i]>> : i \in {j \in Ids : st[j] = "running"}}
Persist == saved' = Persistent(status', progress')

\* start, and the update with which most callers follow it at once.
Start(k, first) ==
  /\ count < MaxOps
  /\ count' = count + 1
  /\ kind' = [kind EXCEPT ![count + 1] = k]
  /\ status' = [status EXCEPT ![count + 1] = "running"]
  /\ progress' = [progress EXCEPT ![count + 1] = first]
  /\ Persist

\* Mutant: a late answer also moves an operation that ended.
FaultyUpdate(i, p) ==
  /\ progress' = IF status[i] # "absent" THEN [progress EXCEPT ![i] = p] ELSE progress
  /\ UNCHANGED status
  /\ Persist

\* update: only a running operation moves, within 0 and 100.
Clamp(p) == IF p > 100 THEN 100 ELSE p
Update(i, p) ==
  /\ progress' = IF IsRunning(i) THEN [progress EXCEPT ![i] = Clamp(p)] ELSE progress
  /\ UNCHANGED status
  /\ Persist

\* complete: whatever the status was, unless the entry is gone; stops the poll
\* and fires a toast.
Complete(i) ==
  IF status[i] = "absent"
  THEN UNCHANGED <<status, progress, saved, timer>>
  ELSE /\ status' = [status EXCEPT ![i] = "completed"]
       /\ progress' = [progress EXCEPT ![i] = 100]
       /\ timer' = [timer EXCEPT ![i] = "none"]
       /\ Persist

\* fail: likewise, without a toast and leaving the percentage.
Fail(i) ==
  /\ UNCHANGED progress
  /\ IF status[i] = "absent"
     THEN UNCHANGED <<status, saved, timer>>
     ELSE /\ status' = [status EXCEPT ![i] = "failed"]
          /\ timer' = [timer EXCEPT ![i] = "none"]
          /\ Persist

\* Mutant: the entry is cancelled in memory only.
UnsavedCancelLoadOp ==
  /\ UNCHANGED <<progress, saved>>
  /\ IF ~LoadRunning
     THEN UNCHANGED <<status, timer>>
     ELSE LET i == CHOOSE i \in Ids : kind[i] = "load" /\ IsRunning(i)
          IN  /\ status' = [status EXCEPT ![i] = "failed"]
              /\ timer' = [timer EXCEPT ![i] = "none"]

\* Mutant: the newest load is cancelled, whatever its status is by now.
BlindCancelLoadOp ==
  /\ UNCHANGED progress
  /\ LET loads == {i \in Ids : kind[i] = "load" /\ status[i] # "absent"}
     IN  IF loads = {}
         THEN UNCHANGED <<status, saved, timer>>
         ELSE LET i == CHOOSE i \in loads : \A j \in loads : j <= i
              IN  /\ status' = [status EXCEPT ![i] = "failed"]
                  /\ timer' = [timer EXCEPT ![i] = "none"]
                  /\ Persist

\* cancelLoadOp: fails the first load that is running now, if any.
CancelLoadOp ==
  /\ UNCHANGED progress
  /\ IF ~LoadRunning
     THEN UNCHANGED <<status, saved, timer>>
     ELSE LET i == CHOOSE i \in Ids :
                     /\ kind[i] = "load" /\ IsRunning(i)
                     /\ \A j \in Ids : kind[j] = "load" /\ IsRunning(j) => i <= j
          IN  /\ status' = [status EXCEPT ![i] = "failed"]
              /\ timer' = [timer EXCEPT ![i] = "none"]
              /\ Persist

-----------------------------------------------------------------------------
(* A load: handleGenerateLoad, startLoadGeneration and the poll.            *)

\* Mutant: polling starts with the click instead of with the acceptance.
EagerStartLoad ==
  /\ ~LoadRunning
  /\ Start("load", 0)
  /\ post' = [post EXCEPT ![count + 1] = "sent"]
  /\ timer' = [timer EXCEPT ![count + 1] = "started"]
  /\ UNCHANGED <<restored, polls, step, stopping, reloads, gen>>

\* The Start button is disabled while a load is shown running.
StartLoad ==
  /\ ~LoadRunning
  /\ Start("load", 0)
  /\ post' = [post EXCEPT ![count + 1] = "sent"]
  /\ UNCHANGED <<restored, timer, polls, step, stopping, reloads, gen>>

\* POST /demo/generate-load: refused while a load runs, otherwise a task starts.
\* The request of a page that was reloaded may still arrive.
GenerateLoad(i) ==
  /\ post[i] \in {"sent", "orphan"}
  /\ gen' = IF gen.running THEN gen ELSE [running |-> TRUE, done |-> 0, owner |-> i]
  /\ post' = [post EXCEPT ![i] = IF @ = "orphan" THEN "none"
                                 ELSE IF gen.running THEN "rejected" ELSE "accepted"]
  /\ UNCHANGED <<page, stopping>>

\* The request, or its answer, is lost.
PostLost(i) ==
  /\ post[i] \in {"sent", "accepted", "rejected", "orphan"}
  /\ post' = [post EXCEPT ![i] = IF @ = "orphan" THEN "none" ELSE "offline"]
  /\ UNCHANGED <<page, stopping, gen>>

\* The answer is an acceptance: startLoadPoll, whatever became of the
\* operation meanwhile; the page then asks for a refresh.
LoadAccepted(i) ==
  /\ post[i] = "accepted"
  /\ post' = [post EXCEPT ![i] = "none"]
  /\ timer' = [timer EXCEPT ![i] = "started"]
  /\ UNCHANGED <<count, kind, status, progress, saved, restored, polls, step,
                 stopping, reloads, gen>>

LoadRefused(i) ==
  /\ post[i] \in {"rejected", "offline"}
  /\ post' = [post EXCEPT ![i] = "none"]
  /\ Fail(i)
  /\ UNCHANGED <<count, kind, restored, polls, step, stopping, reloads, gen>>

\* The interval fires: a request leaves without waiting for the previous one.
PollTick(i) ==
  /\ timer[i] # "none"
  /\ \E s \in Slots :
       /\ polls[s].stage = "free"
       /\ \A t \in Slots : polls[t].stage = "free" => s <= t
       /\ polls' = [polls EXCEPT ![s] = [FreePoll EXCEPT !.stage = "sent", !.op = i,
                                                         !.mode = timer[i]]]
  /\ UNCHANGED <<count, kind, status, progress, saved, restored, timer, post,
                 step, stopping, reloads, gen>>

\* GET /demo/load-status.
LoadStatus(s) ==
  /\ polls[s].stage = "sent"
  /\ polls' = [polls EXCEPT ![s] = [@ EXCEPT !.stage = "answered",
                                          !.running = gen.running, !.done = gen.done]]
  /\ UNCHANGED <<count, kind, status, progress, saved, restored, timer, post,
                 step, stopping, reloads, gen>>

\* Mutant: an answer that is not ok ends the polling.
GivesUpPollFails(s) ==
  /\ polls[s].stage = "sent"
  /\ polls' = [polls EXCEPT ![s] = FreePoll]
  /\ timer' = [timer EXCEPT ![polls[s].op] = "none"]
  /\ UNCHANGED <<count, kind, status, progress, saved, restored, post,
                 step, stopping, reloads, gen>>

\* No answer, or not an ok one: the tick is dropped.
PollFails(s) ==
  /\ polls[s].stage = "sent"
  /\ polls' = [polls EXCEPT ![s] = FreePoll]
  /\ UNCHANGED <<count, kind, status, progress, saved, restored, timer, post,
                 step, stopping, reloads, gen>>

\* The percentage a poll reports: of the whole, or, resumed, a guess.
AtMost99(n) == IF n > 99 THEN 99 ELSE n
Estimate(p) ==
  IF p.mode = "resumed"
  THEN IF p.done > 0 THEN AtMost99((p.done + 5) \div 10) ELSE progress[p.op]
  ELSE AtMost99((200 * p.done + LoadSize) \div (2 * LoadSize))

\* A resumed interval clears itself when the operation has been purged.
PollOrphaned(s) ==
  /\ polls[s].stage = "answered"
  /\ polls[s].mode = "resumed" /\ status[polls[s].op] = "absent"
  /\ polls' = [polls EXCEPT ![s] = FreePoll]
  /\ timer' = [timer EXCEPT ![polls[s].op] = "none"]
  /\ UNCHANGED <<count, kind, status, progress, saved, restored, post, step,
                 stopping, reloads, gen>>

PollShowsProgress(s) ==
  /\ polls[s].stage = "answered" /\ polls[s].running
  /\ ~(polls[s].mode = "resumed" /\ status[polls[s].op] = "absent")
  /\ polls' = [polls EXCEPT ![s] = FreePoll]
  /\ Update(polls[s].op, Estimate(polls[s]))
  /\ UNCHANGED <<count, kind, restored, timer, post, step, stopping, reloads, gen>>

\* The generator is idle: the operation is completed, even one cancelled while
\* this request was in flight.
PollShowsEnd(s) ==
  /\ polls[s].stage = "answered" /\ ~polls[s].running
  /\ ~(polls[s].mode = "resumed" /\ status[polls[s].op] = "absent")
  /\ polls' = [polls EXCEPT ![s] = FreePoll]
  /\ Complete(polls[s].op)
  /\ UNCHANGED <<count, kind, restored, post, step, stopping, reloads, gen>>

\* The Stop button is there while a load is shown running (one click at a time).
StopLoad ==
  /\ LoadRunning /\ stopping = "none"
  /\ stopping' = "sent"
  /\ UNCHANGED <<page, post, gen>>

\* POST /demo/stop-load cancels the task, which unwinds before the next request.
StopHandled ==
  /\ stopping = "sent"
  /\ stopping' = "answered"
  /\ gen' = GenIdle
  /\ UNCHANGED <<page, post>>

StopLost ==
  /\ stopping = "sent"
  /\ stopping' = "answered"
  /\ UNCHANGED <<page, post, gen>>

\* Answered or not, the load that is running by now is marked cancelled.
StopReturns ==
  /\ stopping = "answered"
  /\ stopping' = "none"
  /\ CancelLoadOp
  /\ UNCHANGED <<count, kind, restored, polls, post, step, reloads, gen>>

-----------------------------------------------------------------------------
(* The other operations: a script of progress reports around one call.      *)

Levels(k) ==
  CASE k = "flush"   -> <<30>>
    [] k = "compact" -> <<20, 50, 90>>
    [] k = "snap"    -> <<20, 60>>
    [] k = "restore" -> <<15, 60, 90>>
    [] k = "add"     -> <<10, 30, 70, 90>>
    [] k = "remove"  -> <<10, 40, 80>>

\* After which report the script awaits the backend.
CallAt(k) == IF k = "flush" THEN 1 ELSE 2
Last(k) == Len(Levels(k))

StartScripted(k) ==
  /\ Start(k, Levels(k)[1])
  /\ step' = [step EXCEPT ![count + 1] = 1]
  /\ UNCHANGED <<restored, timer, polls, post, stopping, reloads, gen>>

ScriptReports(i) ==
  /\ step[i] > 0 /\ step[i] < Last(kind[i])
  /\ Update(i, Levels(kind[i])[step[i] + 1])
  /\ step' = [step EXCEPT ![i] = @ + 1]
  /\ UNCHANGED <<count, kind, restored, timer, polls, post, stopping, reloads, gen>>

\* The script is at its end, or its call failed: "simulated" is completed too.
\* (The calls of "add" and "remove" never reject, see ClusterContext.)
ScriptEnds(i) ==
  /\ step[i] > 0
  /\ \/ step[i] = Last(kind[i])
     \/ step[i] = CallAt(kind[i]) /\ kind[i] \notin {"add", "remove"}
  /\ Complete(i)
  /\ step' = [step EXCEPT ![i] = 0]
  /\ UNCHANGED <<count, kind, restored, polls, post, stopping, reloads, gen>>

-----------------------------------------------------------------------------
(* Purge, reload, and the API process.                                      *)

\* 30 s after its end an operation leaves the map; its poll is not looked at.
Purge(i) ==
  /\ status[i] \in {"completed", "failed"}
  /\ status' = [status EXCEPT ![i] = "absent"]
  /\ progress' = [progress EXCEPT ![i] = 0]
  /\ UNCHANGED <<count, kind, saved, restored, timer, polls, post, step,
                 stopping, reloads, gen>>

\* The operations in sessionStorage.
SavedIds == {e[1] : e \in saved}

\* Mutant: no poll is resumed.
ForgottenTimer(i) == "none"

\* _hydrate resumes the poll of a load.
HydratedTimer(i) == IF i \in SavedIds /\ kind[i] = "load" THEN "resumed" ELSE "none"

\* The page is reloaded: everything in memory is gone, _hydrate takes the saved
\* operations and resumes the poll of the loads.  A request still on its way
\* to the backend is not called back.
Reload ==
  /\ reloads < MaxReloads
  /\ reloads' = reloads + 1
  /\ status' = [i \in Ids |-> IF i \in SavedIds THEN "running" ELSE "absent"]
  /\ progress' = [i \in Ids |-> IF i \in SavedIds
                                THEN (CHOOSE e \in saved : e[1] = i)[2] ELSE 0]
  /\ restored' = SavedIds
  /\ timer' = [i \in Ids |-> HydratedTimer(i)]
  /\ polls' = [s \in Slots |-> FreePoll]
  /\ post' = [i \in Ids |-> IF post[i] \in {"sent", "orphan"} THEN "orphan" ELSE "none"]
  /\ step' = [i \in Ids |-> 0]
  /\ stopping' = "none"
  /\ UNCHANGED <<count, kind, saved, gen>>

\* _run_load: another batch, or the end, be it an error.
GenWorks ==
  /\ gen.running /\ gen.done < LoadSize
  /\ gen' = [gen EXCEPT !.done = IF @ + Batch > LoadSize THEN LoadSize ELSE @ + Batch]
  /\ UNCHANGED <<page, post, stopping>>

GenEnds ==
  /\ gen.running
  /\ gen' = GenIdle
  /\ UNCHANGED <<page, post, stopping>>

\* The API process dies and starts anew with an idle generator; requests that
\* find it down are among those that fail.
ApiRestarts ==
  /\ gen' = GenIdle
  /\ UNCHANGED <<page, post, stopping>>

Init ==
  /\ count = 0
  /\ kind = [i \in Ids |-> "none"]
  /\ status = [i \in Ids |-> "absent"]
  /\ progress = [i \in Ids |-> 0]
  /\ saved = {} /\ restored = {}
  /\ timer = [i \in Ids |-> "none"]
  /\ polls = [s \in Slots |-> FreePoll]
  /\ post = [i \in Ids |-> "none"]
  /\ step = [i \in Ids |-> 0]
  /\ stopping = "none"
  /\ reloads = 0
  /\ gen = GenIdle

Buttons == StartLoad \/ StopLoad \/ (\E k \in Scripted : StartScripted(k))
LoadStep(i) == GenerateLoad(i) \/ PostLost(i) \/ LoadAccepted(i) \/ LoadRefused(i) \/ PollTick(i)
PollStep(s) == \/ LoadStatus(s) \/ PollFails(s) \/ PollOrphaned(s)
               \/ PollShowsProgress(s) \/ PollShowsEnd(s)
ScriptStep(i) == ScriptReports(i) \/ ScriptEnds(i)
StopStep == StopHandled \/ StopLost \/ StopReturns
ApiStep == GenWorks \/ GenEnds \/ ApiRestarts

Next ==
  \/ Buttons
  \/ \E i \in Ids : LoadStep(i) \/ ScriptStep(i)
  \/ \E s \in Slots : PollStep(s)
  \/ StopStep
  \/ \E i \in Ids : Purge(i)
  \/ Reload
  \/ ApiStep

Spec == Init /\ [][Next]_vars

\* Fairness: intervals keep firing, requests are answered or fail, scripts go
\* on, a load ends; of the requests sent for ever some are answered.
\* Clicks, the purge, restarts and reloads are not owed.
PollAnswered(i) == \E s \in Slots : polls[s].op = i /\ LoadStatus(s)
PollReceived(s) == PollOrphaned(s) \/ PollShowsProgress(s) \/ PollShowsEnd(s)
Fairness ==
  /\ \A i \in Ids :
       /\ WF_vars(GenerateLoad(i) \/ PostLost(i)) /\ WF_vars(LoadAccepted(i) \/ LoadRefused(i))
       /\ SF_vars(PollTick(i)) /\ SF_vars(PollAnswered(i))
       /\ WF_vars(ScriptStep(i))
  /\ \A s \in Slots : WF_vars(LoadStatus(s) \/ PollFails(s)) /\ WF_vars(PollReceived(s))
  /\ WF_vars(GenEnds)

FairSpec == Spec /\ Fairness

-----------------------------------------------------------------------------
(* Properties.                                                              *)

\* What a reload would bring back is exactly what is running, with the
\* percentage shown: every mutation of the store persists, and an entry that
\* ended or was cancelled is not resurrected (_persist, _hydrate).
SavedIsRunning == saved = Persistent(status, progress)

\* A running load is never forgotten: its request is pending or it is polled;
\* another running operation still has its script, unless a reload killed it.
\* (The code never polls a restored "flush" or "add-node": it stays running.)
RunningIsAttended ==
  \A i \in Ids : IsRunning(i) =>
    IF kind[i] = "load"
    THEN timer[i] # "none" \/ post[i] \in {"sent", "accepted", "rejected", "offline"}
    ELSE step[i] > 0 \/ i \in restored

\* 100 % is shown for completed operations and for no others: the 99 % cap of
\* the polls, and late answers that must not touch an operation that ended.
FullMeansCompleted ==
  \A i \in Ids : progress[i] = 100 <=> status[i] = "completed"

\* A load shown as completed is not still writing to the cluster, except one
\* restored by a reload, whose request may reach the backend after the first
\* poll.  Polls overlap, loads follow each other, and one generator serves all.
CompletedLoadIsOver ==
  \A i \in Ids \ restored :
    kind[i] = "load" /\ status[i] = "completed" => ~(gen.running /\ gen.owner = i)

\* Once completed an operation stays completed until it is purged or the page
\* is reloaded, whatever late answer, Stop click or poll comes in.
CompletedIsFinal ==
  [][\A i \in Ids : status[i] = "completed" =>
       status'[i] \in {"completed", "absent"}]_vars

\* An operation does not run for ever, unless its script died in a reload:
\* scripts end, and a load is polled until the generator is idle.
Abandoned(i) == i \in restored /\ kind[i] # "load"
OperationsEnd ==
  \A i \in Ids : IsRunning(i) ~> (~IsRunning(i) \/ Abandoned(i))
=============================================================================
