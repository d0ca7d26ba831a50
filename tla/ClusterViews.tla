---------------------------- MODULE ClusterViews ----------------------------
(***************************************************************************)
(* What the pages make of the nodes and partitions of ClusterContext: the  *)
(* Navbar, the Dashboard, Cluster, Chaos and Replication pages and the     *)
(* Timeline's descriptions each derive a verdict of their own.  The        *)
(* Replication page also keeps rows of its own, which follow the store and *)
(* are extended when the list of nodes outgrows them.                      *)
(*                                                                         *)
(* Colours, texts and figures that are not about a node's state are left   *)
(* out; the lag the backend reports is taken to be small.  The Replication *)
(* page stays mounted, and a refresh of the store is one step: ClusterSync *)
(* has those that overlap.                                                 *)
(***************************************************************************)
EXTENDS ClusterContext

VARIABLE rows   \* the ids of the Replication page's rows

viewVars == <<vars, rows>>

Count(state) == Cardinality({k \in DOMAIN nodes : nodes[k].state = state})
Some(state) == \E k \in DOMAIN nodes : nodes[k].state = state
AllHealthy == Count("HEALTHY") = Len(nodes)
\* The state that a page finds under an id; an id that is gone is taken for healthy.
Found(i) ==
  LET at == {k \in DOMAIN nodes : nodes[k].id = i}
  IN  IF at = {} THEN "HEALTHY" ELSE nodes[CHOOSE k \in at : \A j \in at : k <= j].state

-----------------------------------------------------------------------------
(* The verdicts of the pages.                                               *)

\* The badge beside the bell, on every page.
NavbarStatus ==
  IF Some("UNREACHABLE") THEN "Failure"
  ELSE IF Some("REBALANCING") THEN "Rebalancing"
  ELSE IF Some("SUSPECT") \/ Some("RECOVERING") \/ partitions # <<>> THEN "Degraded"
  ELSE "Healthy"

\* The Dashboard's status, and its two banners.
DashboardStatus ==
  IF Count("UNREACHABLE") > 0 THEN "DEGRADED"
  ELSE IF Count("HEALTHY") < Len(nodes) THEN "SUSPECT" ELSE "HEALTHY"
DashboardBanners ==
  {"unreachable" : k \in {k \in DOMAIN nodes : nodes[k].state = "UNREACHABLE"}}
  \cup {"rebalancing" : k \in {k \in DOMAIN nodes : nodes[k].state = "REBALANCING"}}

\* Mutant: a node counts as healthy unless it cannot be reached.
LenientClusterBadge ==
  IF Count("UNREACHABLE") = 0 THEN "HEALTHY"
  ELSE IF Count("HEALTHY") = 0 THEN "CRITICAL" ELSE "DEGRADED"

ClusterBadge ==
  IF AllHealthy THEN "HEALTHY"
  ELSE IF Count("HEALTHY") = 0 THEN "CRITICAL" ELSE "DEGRADED"

\* The Chaos page's badge, and whether it offers to recover all.
ChaosBadge ==
  IF AllHealthy THEN "green" ELSE IF Count("HEALTHY") = 0 THEN "red" ELSE "yellow"
OffersRecoverAll == ~AllHealthy \/ partitions # <<>>

\* The Replication page, whose quorum is 2.
Quorum == 2
QuorumLost == Count("UNREACHABLE") + Count("REBALANCING") >= Quorum
ReplicationBadge ==
  IF QuorumLost THEN "QUORUM LOST" ELSE IF partitions # <<>> THEN "DEGRADED" ELSE "IN SYNC"

\* What the Timeline calls a snapshot of this moment.
Description ==
  IF Some("UNREACHABLE") THEN "unreachable"
  ELSE IF partitions # <<>> THEN "partitions"
  ELSE IF Some("REBALANCING") THEN "rebalancing"
  ELSE IF Some("SUSPECT") THEN "suspect" ELSE "healthy"

-----------------------------------------------------------------------------
(* The Replication page draws its rows twice: a table that looks a row's node *)
(* up by the row's id, and a diagram that takes the row's place for the id.   *)

\* A row of the Replication page: its lag, and what ReplicaStatus calls it.
Lag(r) ==
  IF r = 1 THEN "none"
  ELSE CASE Found(rows[r]) = "UNREACHABLE" -> "infinite"
         [] Found(rows[r]) \in {"SUSPECT", "REBALANCING", "RECOVERING"} -> "raised"
         [] OTHER -> IF IsPartitioned(0, rows[r]) THEN "growing" ELSE "normal"
Label(r) ==
  CASE Found(rows[r]) = "UNREACHABLE" -> "Down"
    [] Found(rows[r]) = "SUSPECT" -> "Suspect"
    [] Found(rows[r]) = "REBALANCING" -> "Rebalancing"
    [] Found(rows[r]) = "RECOVERING" -> "Recovering"
    [] OTHER -> IF Lag(r) \in {"none", "normal"} THEN "Synced" ELSE "Lagging"

\* Mutant: suspicion alone stops no packet.
DeadBlocked(i) == IsPartitioned(0, i) \/ Found(i) = "UNREACHABLE"

\* A packet to the replica drawn at place i, counted from 0, is stopped on its
\* way, and its line is drawn broken.
Blocked(i) == IsPartitioned(0, i) \/ Found(i) \in {"UNREACHABLE", "SUSPECT"}

-----------------------------------------------------------------------------
(* The Replication page's rows.                                             *)

\* The effect on the number of nodes: rows are added, those there are kept.
FollowNodes ==
  rows' = IF Len(nodes') # Len(nodes) /\ Len(nodes') > Len(rows)
          THEN [k \in DOMAIN nodes' |-> nodes'[k].id] ELSE rows

\* Mutant: an answer with fewer nodes than there are rows is not taken.
GrowingStoreLands ==
  /\ Len(rows) < Cardinality(backend)
  /\ rows' = [k \in 1..Cardinality(backend) |-> k - 1]
  /\ UNCHANGED vars

\* The store is refreshed: the backend numbers its nodes from 0.
StoreLands ==
  /\ rows # [k \in 1..Cardinality(backend) |-> k - 1]
  /\ rows' = [k \in 1..Cardinality(backend) |-> k - 1]
  /\ UNCHANGED vars

ViewInit == Init /\ rows = [k \in DOMAIN nodes |-> nodes[k].id]
ViewNext == (Next /\ FollowNodes) \/ StoreLands
ViewSpec ==
  /\ ViewInit /\ [][ViewNext]_viewVars
  /\ Fairness /\ WF_viewVars(StoreLands)

-----------------------------------------------------------------------------
(* Properties.                                                              *)

\* The pages agree about the cluster: all is well, some node is unreachable, none
\* is healthy, or the quorum is lost, for each of them or for none.
PagesAgree ==
  /\ NavbarStatus = "Healthy" <=> (DashboardStatus = "HEALTHY" /\ ~OffersRecoverAll)
  /\ DashboardStatus = "HEALTHY" <=> ClusterBadge = "HEALTHY"
  /\ ClusterBadge = "HEALTHY" <=> ChaosBadge = "green"
  /\ ClusterBadge = "CRITICAL" <=> ChaosBadge = "red"
  /\ NavbarStatus = "Failure" <=> DashboardStatus = "DEGRADED"
  /\ Description = "unreachable" <=> "unreachable" \in DashboardBanners
  /\ NavbarStatus = "Failure" <=> "unreachable" \in DashboardBanners
  /\ NavbarStatus = "Healthy" => Description = "healthy" /\ ReplicationBadge = "IN SYNC"
  /\ ReplicationBadge = "QUORUM LOST" => NavbarStatus \in {"Failure", "Rebalancing"}

\* In the end the table and the diagram of the Replication page tell the same of
\* every replica: a row that is down or suspect is drawn broken, and one that is
\* synced is not.  Until the store lands, a row added from a list whose ids have
\* gaps or repeat (ClusterContext.tsx:241) is drawn with another node's state, for
\* the diagram counts places (PacketFlow.tsx:44-49, 80-84).
DiagramAgrees ==
  <>[](\A r \in DOMAIN rows \ {1} :
         /\ Label(r) \in {"Down", "Suspect"} => Blocked(r - 1)
         /\ Label(r) = "Synced" => ~Blocked(r - 1))

\* In the end the Replication page has a row for every node of the list and of the
\* backend, whatever order the list, the click and the store were updated in.
RowsConverge == <>[](Len(rows) = Len(nodes) /\ Len(rows) = Cardinality(backend))
=============================================================================
