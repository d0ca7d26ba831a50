----------------------------- MODULE StoragePage -----------------------------
(***************************************************************************)
(* The Storage page (pages/Storage.tsx) and its diagram of the LSM tree    *)
(* (components/storage/LSMTreeDiagram.tsx): the tabs over the nodes, the   *)
(* socket that brings the rate of writes, and the two buttons.  A click on *)
(* Flush runs an animation of three timers, posts a flush, and when that   *)
(* has settled has the page start the operation (backgroundOps.ts), which  *)
(* posts another; Compact does the same without timers.  The operations    *)
(* that end, and the snapshots that appear, are listed as storage events.  *)
(*                                                                         *)
(* The animations that start by themselves are left out: the backend       *)
(* reports no compaction queue, and a memtable of 64 MB of which a node's  *)
(* is 4 MB.  So are the messages beside the buttons, and the marks of      *)
(* nodes that are down, which are module ClusterViews'.                    *)
(***************************************************************************)
EXTENDS PageLife

CONSTANTS
  MinNodes, MaxNodes,  \* bounds: how many nodes the cluster may have
  MaxSnapshots,        \* bound: how many snapshots
  MaxEvents            \* 20: storage events listed

ASSUME StorageAssumption ==
  /\ MinNodes \in Nat \ {0} /\ MaxNodes \in Nat /\ MinNodes <= MaxNodes
  /\ MaxSnapshots \in Nat /\ MaxEvents \in Nat \ {0}

VARIABLES
  size,         \* how many nodes the context shows
  reported,     \* how many the page has storage figures of
  selected,     \* the tab that was clicked
  drawer,       \* the node of the table that is inspected, or none
  wire,         \* the page's socket
  leaked,       \* reconnections that outlived their page
  writes,       \* the rate of writes it brought, 0 or 1
  phase,        \* of the flush animation
  timers,       \* for each animation, how many of its timers are to strike
  flush,        \* the diagram's POST /flush: none or sent
  compact,      \* its POST /compact
  operations,   \* the operations started when those had settled: "running",
                \* "orphan" when the page is gone, "late" when it was gone before
                \* they started
  events,       \* the storage events, newest first
  snaps,        \* how many snapshots the store has
  seen          \* prevSnapCount: how many the page saw last

tabs == <<size, reported, selected, drawer>>
rate == <<wire, leaked, writes>>
diagram == <<phase, timers, flush, compact, operations>>
story == <<events, snaps, seen>>
storageVars == <<tabs, rate, diagram, story>>

Phases == <<"idle", "immutable", "flushing", "done">>
Kinds == {"flush", "compact"}
NoTable == -1

-----------------------------------------------------------------------------
(* The tabs.                                                                *)

\* One tab per node of the context, with the backend's figures or a fallback
\* whose figures are null.
Figures(i) == IF i < reported THEN "backend" ELSE "fallback"
Tabs == [i \in 0..(size - 1) |-> Figures(i)]

\* The tab shown: the one that was clicked, or the last when that one is gone.
SafeId == IF selected < size THEN selected ELSE size - 1

\* The pills over the diagram.  A fallback has no figures, and no tables.
PillNames == {"memtable", "usage", "wal", "disk", "sstables", "compactions", "bloom"}
Pills ==
  [p \in PillNames |->
     IF Figures(SafeId) = "backend" THEN "figure"
     ELSE IF p = "sstables" THEN "0" ELSE "-"]

SelectTab ==
  /\ Act /\ Mounted
  /\ selected' \in DOMAIN Tabs \ {selected}
  /\ UNCHANGED <<scene, stage, size, reported, drawer, rate, diagram, story>>

\* The levels of a node without figures are empty: only a reported table can be
\* clicked.  The drawer keeps it whatever happens to the tabs, until its button,
\* the backdrop or Escape closes it.
InspectTable ==
  /\ Act /\ Mounted
  /\ Figures(SafeId) = "backend"
  /\ drawer' = SafeId
  /\ UNCHANGED <<scene, stage, size, reported, selected, rate, diagram, story>>

CloseDrawer ==
  /\ Act /\ Mounted
  /\ drawer # NoTable /\ drawer' = NoTable
  /\ UNCHANGED <<scene, stage, size, reported, selected, rate, diagram, story>>

\* The cluster grows or shrinks under the page.
ResizeCluster ==
  /\ Act
  /\ size' \in (MinNodes..MaxNodes) \cap {size - 1, size + 1}
  /\ UNCHANGED <<scene, stage, reported, selected, drawer, rate, diagram, story>>

\* The store's figures reach the page; an empty list is passed over.
TakeFigures ==
  /\ Mounted
  /\ reported' \in MinNodes..MaxNodes
  /\ UNCHANGED <<lifeVars, size, selected, drawer, rate, diagram, story>>

-----------------------------------------------------------------------------
(* The storage events.                                                      *)

\* slice(0, 20)
Listed(lines) ==
  LET all == lines \o events
  IN SubSeq(all, 1, IF Len(all) > MaxEvents THEN MaxEvents ELSE Len(all))

\* An operation that ends is listed as started and as finished, in this order.
LinesOf(kind) ==
  IF kind = "flush" THEN <<"flush_start", "flush_done">>
  ELSE <<"compact_start", "compact_done">>

\* The effect on the snapshots: a longer list means a new one.
Watch(count) ==
  /\ events' = IF count > seen THEN Listed(<<"snapshot">>) ELSE events
  /\ seen' = count

SnapshotsChange ==
  /\ Act
  /\ snaps' \in (0..MaxSnapshots) \ {snaps}
  /\ IF Mounted THEN Watch(snaps') ELSE UNCHANGED <<events, seen>>
  /\ UNCHANGED <<scene, stage, tabs, rate, diagram>>

-----------------------------------------------------------------------------
(* The page and its socket.                                                 *)

OpenStorage ==
  /\ Act /\ Enter
  /\ seen' = snaps
  /\ UNCHANGED <<scene, tabs, rate, diagram, events, snaps>>

ConnectStorage ==
  /\ RunEffects
  /\ wire' = Connected(wire)
  /\ Watch(snaps)
  /\ UNCHANGED <<scene, tabs, leaked, writes, diagram, snaps>>

StorageOpened ==
  /\ wire.ws = "connecting"
  /\ wire' = [wire EXCEPT !.ws = "open"]
  /\ UNCHANGED <<lifeVars, tabs, leaked, writes, diagram, story>>

\* A push brings the sum of the rates; WAL reads "Writing..." while it is not 0.
StoragePushed ==
  /\ wire.ws = "open"
  /\ writes' \in {0, 1}
  /\ UNCHANGED <<lifeVars, tabs, wire, leaked, diagram, story>>

StorageClosed ==
  /\ Act
  /\ wire.ws # "none"
  /\ wire' = [NoLink EXCEPT !.timer = TRUE]
  /\ UNCHANGED <<scene, stage, tabs, leaked, writes, diagram, story>>

StorageReconnect ==
  /\ wire.timer
  /\ wire' = [Connected(wire) EXCEPT !.timer = FALSE]
  /\ UNCHANGED <<lifeVars, tabs, leaked, writes, diagram, story>>

\* The operations that are left when the page goes: those it started, and those
\* that a request under way will start.
Late(kind, request) ==
  IF request = "sent" THEN <<[kind |-> kind, as |-> "late"]>> ELSE <<>>

Orphaned ==
  [k \in DOMAIN operations |->
     IF operations[k].as = "running" THEN [operations[k] EXCEPT !.as = "orphan"]
     ELSE operations[k]]

\* The cleanup closes the socket but cancels no reconnection: one that is due
\* goes on for ever, for a page that is gone.  The timers of the animation find
\* nothing to change; the diagram's requests still settle.
LeaveStorage ==
  /\ Act /\ Quit
  /\ wire' = NoLink
  /\ leaked' = leaked + (IF wire.timer THEN 1 ELSE 0)
  /\ selected' = 0 /\ reported' = 0 /\ drawer' = NoTable /\ writes' = 0
  /\ phase' = "idle" /\ timers' = <<>>
  /\ flush' = "none" /\ compact' = "none"
  /\ operations' = Orphaned \o Late("flush", flush) \o Late("compact", compact)
  /\ events' = <<>>
  /\ UNCHANGED <<scene, size, snaps, seen>>

-----------------------------------------------------------------------------
(* The diagram.                                                             *)

\* The card of the log, and that of the sealed memtable.
WalStatus == IF writes > 0 THEN "Writing..." ELSE "Healthy"
Immutable ==
  CASE phase = "immutable" -> "Frozen"
    [] phase = "flushing" -> "Flushing to disk"
    [] OTHER -> "Idle"

\* The buttons are disabled as their handlers return early.
CanFlush == phase = "idle" /\ flush = "none"
CanCompact == compact = "none"

\* What if the button looked at its request only?
HastyFlush ==
  /\ Act /\ Mounted
  /\ flush = "none"
  /\ phase' = "immutable"
  /\ timers' = Append(timers, 3)
  /\ flush' = "sent"
  /\ UNCHANGED <<scene, stage, tabs, rate, compact, operations, story>>

\* handleFlush
ClickFlush ==
  /\ Act /\ Mounted
  /\ CanFlush
  /\ phase' = "immutable"
  /\ timers' = Append(timers, 3)
  /\ flush' = "sent"
  /\ UNCHANGED <<scene, stage, tabs, rate, compact, operations, story>>

\* What if they belonged to an effect that each change of the phase cleans up?
CleanedStrike(k) ==
  /\ phase' = Phases[IF timers[k] = 1 THEN 1 ELSE 6 - timers[k]]
  /\ timers' = <<>>
  /\ UNCHANGED <<lifeVars, tabs, rate, flush, compact, operations, story>>

\* The timers of an animation strike in turn, and nothing cancels them.
Strike(k) ==
  /\ phase' = Phases[IF timers[k] = 1 THEN 1 ELSE 6 - timers[k]]
  /\ timers' = IF timers[k] = 1 THEN RemoveAt(timers, k) ELSE [timers EXCEPT ![k] = @ - 1]
  /\ UNCHANGED <<lifeVars, tabs, rate, flush, compact, operations, story>>

\* POST /flush is answered or fails: a failure reads as a simulated success.
\* The page is told, and starts an operation without being waited for.
FlushSettles ==
  /\ flush = "sent" /\ flush' = "none"
  /\ operations' = Append(operations, [kind |-> "flush", as |-> "running"])
  /\ UNCHANGED <<lifeVars, tabs, rate, phase, timers, compact, story>>

\* handleCompact, and the same for its request.
ClickCompact ==
  /\ Act /\ Mounted
  /\ CanCompact /\ compact' = "sent"
  /\ UNCHANGED <<scene, stage, tabs, rate, phase, timers, flush, operations, story>>

CompactSettles ==
  /\ compact = "sent" /\ compact' = "none"
  /\ operations' = Append(operations, [kind |-> "compact", as |-> "running"])
  /\ UNCHANGED <<lifeVars, tabs, rate, phase, timers, flush, story>>

\* The request of a page that is gone settles: its operation is started still.
LateSettles(k) ==
  /\ operations[k].as = "late"
  /\ operations' = [operations EXCEPT ![k].as = "orphan"]
  /\ UNCHANGED <<lifeVars, tabs, rate, phase, timers, flush, compact, story>>

\* handleFlushComplete and handleCompactComplete: the operation ends, whether
\* its own request succeeds or fails, and is listed where it was started.
OperationEnds(k) ==
  /\ operations[k].as # "late"
  /\ operations' = RemoveAt(operations, k)
  /\ events' = IF operations[k].as = "running"
               THEN Listed(LinesOf(operations[k].kind)) ELSE events
  /\ UNCHANGED <<lifeVars, tabs, rate, phase, timers, flush, compact, snaps, seen>>

-----------------------------------------------------------------------------
StorageInit ==
  /\ size = MinNodes /\ reported = 0 /\ selected = 0 /\ drawer = NoTable
  /\ wire = NoLink /\ leaked = 0 /\ writes = 0
  /\ phase = "idle" /\ timers = <<>>
  /\ flush = "none" /\ compact = "none" /\ operations = <<>>
  /\ events = <<>> /\ snaps = 0 /\ seen = 0

Strikes == \E k \in DOMAIN timers : Strike(k)
Ends == \E k \in DOMAIN operations : LateSettles(k) \/ OperationEnds(k)

StorageStep ==
  /\ scene = "storage"
  /\ \/ OpenStorage \/ ConnectStorage \/ LeaveStorage
     \/ SelectTab \/ InspectTable \/ CloseDrawer \/ ResizeCluster \/ TakeFigures
     \/ SnapshotsChange
     \/ StorageOpened \/ StoragePushed \/ StorageClosed \/ StorageReconnect
     \/ ClickFlush \/ Strikes \/ FlushSettles
     \/ ClickCompact \/ CompactSettles \/ Ends

StorageTypeOK ==
  /\ size \in MinNodes..MaxNodes /\ reported \in 0..MaxNodes
  /\ selected \in 0..MaxNodes /\ drawer \in NoTable..MaxNodes
  /\ wire \in Links /\ leaked \in Nat /\ writes \in {0, 1}
  /\ phase \in Range(Phases) /\ timers \in Seq(1..3)
  /\ flush \in {"none", "sent"} /\ compact \in {"none", "sent"}
  /\ operations \in Seq([kind : Kinds, as : {"running", "orphan", "late"}])
  /\ events \in Seq({"flush_start", "flush_done", "compact_start", "compact_done", "snapshot"})
  /\ snaps \in 0..MaxSnapshots /\ seen \in 0..MaxSnapshots
-----------------------------------------------------------------------------
(* Properties.                                                              *)

\* While the page stays, the diagram goes through the phases of one flush at a
\* time: timers of an earlier animation never set it back or forward
\* (LSMTreeDiagram.tsx:142-150).
PhasesInOrder ==
  [][(phase' # phase /\ stage' = "mounted")
       => \E k \in 1..4 : phase = Phases[k] /\ phase' = Phases[(k % 4) + 1]]_storageVars

\* An animation, a request or an operation that a button started is under way.
Busy == phase # "idle" \/ flush = "sent" \/ compact = "sent" \/ operations # <<>>

\* What the two buttons start comes to an end, and the buttons are enabled
\* again, whether the requests succeed or fail and whether the page is left
\* (LSMTreeDiagram.tsx:152-166, Storage.tsx:270-278).
StorageRests == (scene = "storage" /\ Busy) ~> ~Busy
=============================================================================
