---------------------------- MODULE ClusterSync ----------------------------
(***************************************************************************)
(* How the dashboard learns the state of the cluster: the global store     *)
(* (store/clusterStore.ts), the engine that refills it from the API        *)
(* process every 5 s and after every action (store/syncEngine.ts), and the *)
(* part of that process the pages of this development change: its list of  *)
(* snapshots and its ring (api/main.py).  The pages that read the store    *)
(* are modules of their own (SnapshotsPage, RingPage), composed in         *)
(* ClusterPages; at most one is mounted.                                   *)
(*                                                                         *)
(* A refresh is five parallel requests, and the store is written when all  *)
(* five have settled, so a refresh may land after one that started later.  *)
(* They are answered, or fail, in one step here: no page relates two of    *)
(* the answers.                                                            *)
(***************************************************************************)
EXTENDS Integers, Sequences, SequencesExt

CONSTANTS
  MaxRefreshes, \* bound: refreshes in flight at once
  Initial,      \* the snapshots of the backend when the page is opened
  MaxIds,       \* bound: snapshots the backend ever holds
  MaxRing,      \* bound: nodes of the ring, where it is below 6
  MaxTroubles   \* bound: requests that fail, sockets that break and navigations,
                \* taken together

ASSUME BoundsAssumption ==
  /\ MaxRefreshes \in Nat \ {0} /\ MaxRing \in Nat /\ MaxTroubles \in Nat
  /\ Initial \in Nat /\ MaxIds \in Nat /\ Initial <= MaxIds

Refreshes == 1..MaxRefreshes
SnapIds == 1..MaxIds
Pages == {"snapshots", "ring", "other"}

VARIABLES
  snaps,        \* the snapshots of the API process, oldest first
  created,      \* how many it ever held
  ring,         \* how many nodes its ring has
  store,        \* what clusterStore holds
  refreshes,    \* the refreshes in flight
  page,         \* the page that is mounted
  troubles      \* how many of those there were

backend == <<snaps, created, ring>>
syncVars == <<snaps, created, ring, store, refreshes, page, troubles>>

\* A slot for a refresh, with what the nodes and the snapshots request brought.
Idle == [stage |-> "idle", nodes |-> 0, list |-> <<>>]
Started == [Idle EXCEPT !.stage = "sent"]
IsIdle(f) == refreshes[f].stage = "idle"

Trouble == troubles < MaxTroubles /\ troubles' = troubles + 1

-----------------------------------------------------------------------------
(* The API process.                                                         *)

\* create_snapshot: the new snapshot is the last of the list.
CreateSnapshot ==
  /\ created < MaxIds
  /\ created' = created + 1
  /\ snaps' = Append(snaps, created + 1)
  /\ UNCHANGED ring

\* delete_snapshot; the answer is 404 when there is none of that id.
Listed(i) == i \in Range(snaps)
DeleteSnapshot(i) ==
  /\ snaps' = SelectSeq(snaps, LAMBDA s : s # i)
  /\ UNCHANGED <<created, ring>>

\* add_node and remove_node, called from the Dashboard page: 400 at 6 and at 3.
Scale ==
  /\ \/ ring < 6 /\ ring < MaxRing /\ ring' = ring + 1
     \/ ring > 3 /\ ring' = ring - 1
  /\ UNCHANGED <<snaps, created>>

-----------------------------------------------------------------------------
(* The sync engine.                                                         *)

\* refresh: leaves without waiting for those in flight.  (The lowest free slot
\* is taken; at the bound on refreshes none starts.)
StartRefresh ==
  \E f \in Refreshes :
    /\ IsIdle(f)
    /\ \A g \in Refreshes : g < f => ~IsIdle(g)
    /\ refreshes' = [refreshes EXCEPT ![f] = Started]

\* triggerRefresh, at the end of an action.
TriggerRefresh ==
  \/ StartRefresh
  \/ (\A f \in Refreshes : ~IsIdle(f)) /\ UNCHANGED refreshes

\* The 5 s poll.  (Bound: it finds no refresh in flight; those that overlap are
\* the ones actions start.)
Poll ==
  /\ \A f \in Refreshes : IsIdle(f)
  /\ StartRefresh
  /\ UNCHANGED <<backend, store, page, troubles>>

\* The requests are answered with what the backend has now.
\* (Replication and storage go the way of nodes and are left out.)
Answer(f) ==
  /\ refreshes[f].stage = "sent"
  /\ refreshes' = [refreshes EXCEPT ![f] =
       [stage |-> "answered", nodes |-> ring, list |-> snaps]]
  /\ UNCHANGED <<backend, store, page, troubles>>

\* They fail.
NoAnswer(f) ==
  /\ Trouble
  /\ refreshes[f].stage = "sent"
  /\ refreshes' = [refreshes EXCEPT ![f].stage = "failed"]
  /\ UNCHANGED <<backend, store, page>>

\* doRefresh writes the store when all has settled: an answer replaces what is
\* there, a failure leaves it.  ("connected", whether the cluster request
\* succeeded, is a badge of the pages.)
Brought(f) == refreshes[f].stage = "answered"

Land(f) ==
  /\ refreshes[f].stage \in {"answered", "failed"}
  /\ store' = IF Brought(f) THEN [nodes |-> refreshes[f].nodes, list |-> refreshes[f].list]
              ELSE store
  /\ refreshes' = [refreshes EXCEPT ![f] = Idle]
  /\ UNCHANGED <<backend, page, troubles>>

\* Another page is mounted.  (Bound: the two pages are visited by way of another.)
Visit(p) ==
  /\ Trouble
  /\ page # p /\ "other" \in {page, p}
  /\ page' = p
  /\ UNCHANGED <<backend, store, refreshes>>

\* One of the two pages is opened.  The backend has some snapshots by now, and
\* three nodes as it starts with; the layout, which is never unmounted, starts a
\* refresh at once.
SyncInit ==
  /\ snaps = [i \in 1..Initial |-> i] /\ created = Initial /\ ring = 3
  /\ store = [nodes |-> 0, list |-> <<>>]
  /\ refreshes = [f \in Refreshes |-> IF f = 1 THEN Started ELSE Idle]
  /\ page \in {"snapshots", "ring"}
  /\ troubles = 0
=============================================================================
