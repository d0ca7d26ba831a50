-------------------------- MODULE DashboardControls --------------------------
(***************************************************************************)
(* The rest of the Dashboard page (pages/Dashboard.tsx): the Recent Events *)
(* it collects from the bus and from its own buttons, the buttons of the   *)
(* load generator and of the cluster controls, and the flash of the nodes  *)
(* whose state has changed.  The operations the buttons start are module   *)
(* Operations', the nodes are module ClusterContext'; what is shown of     *)
(* them is in module ClusterViews.                                         *)
(***************************************************************************)
EXTENDS PageLife

CONSTANTS
  Watched,      \* the nodes whose state may change
  MaxRecent     \* 12: events listed

ASSUME ControlsAssumption == IsFiniteSet(Watched) /\ MaxRecent \in Nat \ {0, 1}

VARIABLES
  recent,       \* the levels of the events, newest first
  pending,      \* for each button that was pressed and whose operation has not
                \* ended, the level of the event to come
  load,         \* the status of the load operation the store knows
  flash,        \* the nodes that flash
  ticks         \* timers that will end a flash

controlVars == <<recent, pending, load, flash, ticks>>

Levels == {"ok", "warn", "err"}

-----------------------------------------------------------------------------
(* The list.                                                                *)

\* "Cluster started" and "Replication in sync".
Started == <<"ok", "ok">>

\* pushEvent: [new, ...prev.slice(0, 11)]
PushEvent(level) ==
  recent' = <<level>> \o
    SubSeq(recent, 1, IF Len(recent) < MaxRecent THEN Len(recent) ELSE MaxRecent - 1)

\* The handler on the bus: a failure is "err", a suspect node "warn".
HearEvent ==
  /\ Act /\ Mounted
  /\ \E level \in Levels : PushEvent(level)
  /\ UNCHANGED <<scene, stage, pending, load, flash, ticks>>

-----------------------------------------------------------------------------
(* The buttons.  Each waits for its operation, then adds its event.          *)

LevelOf(control) == IF control \in {"remove", "stop"} THEN "warn" ELSE "ok"

Press(control) == pending' = Append(pending, LevelOf(control))

ClickControl ==
  /\ Act /\ Mounted
  /\ \E control \in {"add", "remove", "snapshot", "flush", "compact"} : Press(control)
  /\ UNCHANGED <<scene, stage, recent, load, flash, ticks>>

\* Start says so at once, and is disabled while a load runs.
ClickStart ==
  /\ Act /\ Mounted
  /\ load # "running" /\ load' = "running"
  /\ PushEvent("ok")
  /\ UNCHANGED <<scene, stage, pending, flash, ticks>>

\* Stop is there while a load runs.
ClickStop ==
  /\ Act /\ Mounted
  /\ load = "running"
  /\ Press("stop")
  /\ UNCHANGED <<scene, stage, recent, load, flash, ticks>>

OperationDone(k) ==
  /\ PushEvent(pending[k])
  /\ pending' = RemoveAt(pending, k)
  /\ UNCHANGED <<lifeVars, load, flash, ticks>>

\* The load ends, by itself or stopped, and its operation is purged later.
LoadEnds ==
  /\ \/ load = "running" /\ load' \in {"completed", "failed"}
     \/ load \in {"completed", "failed"} /\ load' = "none"
  /\ UNCHANGED <<lifeVars, recent, pending, flash, ticks>>

\* What the load generator shows below its buttons.
LoadPanel ==
  IF load = "running" THEN "progress" ELSE IF load = "completed" THEN "result" ELSE "nothing"

-----------------------------------------------------------------------------
(* The flash.                                                               *)

\* What if the effect cleaned up its timer?
CleanedFlash(changed) ==
  IF changed = {} THEN ticks' = 0 /\ UNCHANGED flash
  ELSE flash' = changed /\ ticks' = 1

\* The effect on the nodes: those that changed flash, and no others; the timer
\* of an earlier flash is not cancelled, and may end this one before its time.
Flash(changed) ==
  IF changed = {} THEN UNCHANGED <<flash, ticks>>
  ELSE flash' = changed /\ ticks' = ticks + 1

NodesChange ==
  /\ Act /\ Mounted
  /\ \E changed \in SUBSET Watched : Flash(changed)
  /\ UNCHANGED <<scene, stage, recent, pending, load>>

FlashEnds ==
  /\ ticks > 0 /\ ticks' = ticks - 1
  /\ flash' = {}
  /\ UNCHANGED <<lifeVars, recent, pending, load>>

-----------------------------------------------------------------------------
MountControls ==
  /\ \/ Act /\ Enter
     \/ RunEffects
  /\ UNCHANGED <<scene, controlVars>>

\* The operations and the load go on; what the page holds is gone, the events of
\* operations that end later too.
LeaveControls ==
  /\ Act /\ Quit
  /\ recent' = Started /\ pending' = <<>> /\ flash' = {} /\ ticks' = 0
  /\ UNCHANGED <<scene, load>>

ControlInit ==
  /\ recent = Started /\ pending = <<>> /\ load = "none"
  /\ flash = {} /\ ticks = 0

Dones == \E k \in DOMAIN pending : OperationDone(k)

ControlStep ==
  /\ scene = "controls"
  /\ \/ MountControls \/ LeaveControls \/ HearEvent
     \/ ClickControl \/ ClickStart \/ ClickStop \/ Dones \/ LoadEnds
     \/ NodesChange \/ FlashEnds

ControlTypeOK ==
  /\ recent \in Seq(Levels) /\ Len(recent) \in 1..MaxRecent
  /\ pending \in Seq(Levels)
  /\ load \in {"none", "running", "completed", "failed"}
  /\ flash \subseteq Watched /\ ticks \in Nat
-----------------------------------------------------------------------------
(* Properties.                                                              *)

\* No node flashes for ever: however the changes and the timers interleave, a
\* flash has a timer that ends it (Dashboard.tsx:179-190).
FlashesEnd == (scene = "controls" /\ flash # {}) ~> flash = {}
=============================================================================
