---------------------------- MODULE TaskOverlays ----------------------------
(***************************************************************************)
(* The two overlays of the layout that show background operations: the     *)
(* widget at the top (components/BackgroundTasksWidget.tsx), which opens   *)
(* when something runs and closes a while after nothing is listed, and the *)
(* toasts (components/ToastContainer.tsx), one per completed operation.    *)
(* Of the store (module Operations) they see the status of each operation  *)
(* and its changes.                                                        *)
(***************************************************************************)
EXTENDS PageLife

CONSTANTS MaxTasks      \* bound: operations started

ASSUME TasksAssumption == MaxTasks \in Nat

Tasks == 1..MaxTasks

VARIABLES
  task,         \* the status of each operation
  open,         \* whether the widget is unfolded
  closing,      \* whether its 500 ms timer is running
  fired,        \* toasts shown so far: _toastId
  toasts,       \* those on the screen
  due           \* those whose 5 s timer is running

overlayVars == <<task, open, closing, fired, toasts, due>>
widget == <<open, closing>>
bread == <<fired, toasts, due>>

\* What useOperations gives the widget.
RunningOf(f) == {i \in Tasks : f[i] = "running"}
ListedOf(f) == {i \in Tasks : f[i] \in {"running", "completed", "failed"}}

-----------------------------------------------------------------------------
(* The widget.                                                              *)

\* What if no change cancelled the timer?
StaleTimer ==
  LET running == Cardinality(RunningOf(task'))
      counted == running # Cardinality(RunningOf(task))
  IN /\ open' = (open \/ (counted /\ running > 0))
     /\ closing' = (closing \/ ListedOf(task') = {})

\* The effects of a render with other operations than the last: a changed count
\* of running ones unfolds it if there are any; the timer is cancelled when a
\* count changes, and set when both are 0.
Rendered ==
  LET running == Cardinality(RunningOf(task'))
      listed == Cardinality(ListedOf(task'))
      counted == running # Cardinality(RunningOf(task))
      changed == counted \/ listed # Cardinality(ListedOf(task))
  IN /\ open' = (open \/ (counted /\ running > 0))
     /\ closing' = IF changed THEN running = 0 /\ listed = 0 ELSE closing

CloseTimer ==
  /\ closing
  /\ closing' = FALSE /\ open' = FALSE
  /\ UNCHANGED <<lifeVars, task, bread>>

\* The header folds and unfolds the list.
ClickHeader ==
  /\ Act
  /\ open' = ~open
  /\ UNCHANGED <<scene, stage, task, closing, bread>>

\* What the header says.
HeaderLabel ==
  IF RunningOf(task) # {} THEN "running"
  ELSE IF ListedOf(task) # {} THEN "recent" ELSE "none"

\* The list: running operations above finished ones, each with its mark.
Panel == IF open THEN <<RunningOf(task), ListedOf(task) \ RunningOf(task)>> ELSE <<{}, {}>>

-----------------------------------------------------------------------------
(* The toasts.                                                              *)

\* What if the toasts shared a timer?
SharedTimer ==
  /\ fired' = fired + 1
  /\ toasts' = toasts \cup {fired'}
  /\ due' = {fired'}

\* The listener: the toast gets an id and a timer of its own.
ShowToast ==
  /\ fired' = fired + 1
  /\ toasts' = toasts \cup {fired'}
  /\ due' = due \cup {fired'}

Dismiss(t) == toasts' = toasts \ {t}

AutoDismiss(t) ==
  /\ t \in due /\ due' = due \ {t}
  /\ Dismiss(t)
  /\ UNCHANGED <<lifeVars, task, widget, fired>>

\* The button of a toast does not stop its timer.
ClickDismiss(t) ==
  /\ Act
  /\ t \in toasts /\ Dismiss(t)
  /\ UNCHANGED <<scene, stage, task, widget, fired, due>>

-----------------------------------------------------------------------------
(* The operations, as module Operations has them: start, complete with its   *)
(* toast, fail, and the purge of finished ones.                              *)

Begin(i) ==
  /\ Act
  /\ task[i] = "none" /\ \A j \in 1..(i - 1) : task[j] # "none"
  /\ task' = [task EXCEPT ![i] = "running"]
  /\ Rendered
  /\ UNCHANGED <<scene, stage, bread>>

End(i) ==
  /\ task[i] = "running"
  /\ \/ task' = [task EXCEPT ![i] = "completed"] /\ ShowToast
     \/ task' = [task EXCEPT ![i] = "failed"] /\ UNCHANGED bread
  /\ Rendered
  /\ UNCHANGED lifeVars

Purge ==
  /\ \E old \in SUBSET {i \in Tasks : task[i] \in {"completed", "failed"}} :
       /\ old # {}
       /\ task' = [i \in Tasks |-> IF i \in old THEN "purged" ELSE task[i]]
  /\ Rendered
  /\ UNCHANGED <<lifeVars, bread>>

-----------------------------------------------------------------------------
OverlayInit ==
  /\ task = [i \in Tasks |-> "none"]
  /\ open = FALSE /\ closing = TRUE
  /\ fired = 0 /\ toasts = {} /\ due = {}

TaskStep == \E i \in Tasks : Begin(i) \/ End(i)
ToastStep == \E t \in toasts \cup due : AutoDismiss(t) \/ ClickDismiss(t)

OverlayStep ==
  /\ scene = "overlays"
  /\ TaskStep \/ Purge \/ CloseTimer \/ ClickHeader \/ ToastStep

OverlayTypeOK ==
  /\ task \in [Tasks -> {"none", "running", "completed", "failed", "purged"}]
  /\ open \in BOOLEAN /\ closing \in BOOLEAN
  /\ fired \in 0..MaxTasks
  /\ toasts \subseteq 1..fired /\ due \subseteq 1..fired
-----------------------------------------------------------------------------
(* Properties.                                                              *)

\* The panel folds by itself only when nothing is listed in it: a timer set
\* when the list was empty finds no operation that was started since
\* (BackgroundTasksWidget.tsx:105-110).
PanelStaysForTasks ==
  [][(open /\ ~open' /\ acts' = acts) => ListedOf(task) = {}]_overlayVars

\* The screen gets clear of toasts, however many came at once and whichever were
\* dismissed by hand before their timers ran out (ToastContainer.tsx:27-35).
ToastsEnd == (scene = "overlays" /\ toasts # {}) ~> toasts = {}
=============================================================================
