------------------------- MODULE ClusterViewsProofs -------------------------
(***************************************************************************)
(* Theorems about ClusterViews: the verdicts of the pages, for every list  *)
(* of nodes and every order of clicks, timers and syncs.                   *)
(***************************************************************************)
EXTENDS ClusterViews, ClusterContextProofs

At(state) == {k \in DOMAIN nodes : nodes[k].state = state}

-----------------------------------------------------------------------------
(* What the pages count.                                                    *)

\* The counts are numbers, and positive when there is something to count.
LEMMA CountType ==
  ASSUME nodes \in Seq(Node), NEW state
  PROVE  /\ IsFiniteSet(At(state)) /\ IsFiniteSet(DOMAIN nodes)
         /\ Count(state) = Cardinality(At(state)) /\ Count(state) \in Nat
         /\ Count(state) > 0 <=> Some(state)
<1>1. DOMAIN nodes = 1..Len(nodes) /\ Len(nodes) \in Nat
  OBVIOUS
<1>2. IsFiniteSet(DOMAIN nodes)
  BY <1>1, FS_Interval
<1>3. IsFiniteSet(At(state))
  BY <1>2, FS_Subset DEF At
<1>4. Cardinality(At(state)) \in Nat /\ (Cardinality(At(state)) = 0 <=> At(state) = {})
  BY <1>3, FS_CardinalityType, FS_EmptySet
<1>5. At(state) = {} <=> ~Some(state)
  BY DEF At, Some
<1> QED BY <1>2, <1>3, <1>4, <1>5 DEF Count, At

\* As many healthy nodes as nodes are all of them.
LEMMA AllHealthyMeans ==
  ASSUME nodes \in Seq(Node)
  PROVE  AllHealthy <=> \A k \in DOMAIN nodes : nodes[k].state = "HEALTHY"
<1>1. IsFiniteSet(DOMAIN nodes) /\ Count("HEALTHY") = Cardinality(At("HEALTHY"))
  BY CountType
<1>2. Cardinality(DOMAIN nodes) = Len(nodes)
  <2>1. DOMAIN nodes = 1..Len(nodes) /\ Len(nodes) \in Nat
    OBVIOUS
  <2>2. Cardinality(1..Len(nodes)) = IF 1 > Len(nodes) THEN 0 ELSE Len(nodes) - 1 + 1
    BY <2>1, FS_Interval
  <2> QED BY <2>1, <2>2
<1>3. At("HEALTHY") \subseteq DOMAIN nodes
  BY DEF At
<1>4. Cardinality(At("HEALTHY")) = Cardinality(DOMAIN nodes) <=> At("HEALTHY") = DOMAIN nodes
  BY <1>1, <1>3, FS_Subset
<1> QED BY <1>1, <1>2, <1>4 DEF AllHealthy, At

-----------------------------------------------------------------------------
(* The verdicts.                                                            *)

\* The pages agree whenever the list has its type: what each of them counts or
\* looks for comes down to which states there are.
LEMMA Verdicts ==
  ASSUME nodes \in Seq(Node)
  PROVE  PagesAgree
<1>1. \A k \in DOMAIN nodes : nodes[k].state \in States
  <2>1. \A k \in DOMAIN nodes : nodes[k] \in Node
    OBVIOUS
  <2> QED BY <2>1 DEF Node
<1>2. /\ Count("HEALTHY") \in Nat /\ Count("UNREACHABLE") \in Nat
      /\ Count("REBALANCING") \in Nat
      /\ Count("HEALTHY") > 0 <=> Some("HEALTHY")
      /\ Count("UNREACHABLE") > 0 <=> Some("UNREACHABLE")
      /\ Count("REBALANCING") > 0 <=> Some("REBALANCING")
  BY CountType
<1>3. AllHealthy <=> ~(\/ Some("SUSPECT") \/ Some("UNREACHABLE")
                       \/ Some("RECOVERING") \/ Some("REBALANCING"))
  BY <1>1, AllHealthyMeans DEF Some, States
<1>4. Count("HEALTHY") \in Nat /\ Len(nodes) \in Nat /\ Count("HEALTHY") <= Len(nodes)
  <2>1. IsFiniteSet(DOMAIN nodes) /\ Count("HEALTHY") = Cardinality(At("HEALTHY"))
    BY CountType
  <2>2. DOMAIN nodes = 1..Len(nodes) /\ Len(nodes) \in Nat
    OBVIOUS
  <2>3. Cardinality(1..Len(nodes)) = IF 1 > Len(nodes) THEN 0 ELSE Len(nodes) - 1 + 1
    BY <2>2, FS_Interval
  <2>4. At("HEALTHY") \subseteq DOMAIN nodes
    BY DEF At
  <2>5. Cardinality(At("HEALTHY")) <= Cardinality(DOMAIN nodes)
    BY <2>1, <2>4, FS_Subset
  <2> QED BY <1>2, <2>1, <2>2, <2>3, <2>5
<1>5. DashboardStatus = IF Some("UNREACHABLE") THEN "DEGRADED"
                        ELSE IF AllHealthy THEN "HEALTHY" ELSE "SUSPECT"
  BY <1>2, <1>4 DEF DashboardStatus, AllHealthy
<1>6. "unreachable" \in DashboardBanners <=> Some("UNREACHABLE")
  BY DEF DashboardBanners, Some
<1>7. QuorumLost => Some("UNREACHABLE") \/ Some("REBALANCING")
  BY <1>2 DEF QuorumLost, Quorum
<1>8. ClusterBadge = IF AllHealthy THEN "HEALTHY"
                     ELSE IF Some("HEALTHY") THEN "DEGRADED" ELSE "CRITICAL"
  BY <1>2 DEF ClusterBadge
<1>9. ChaosBadge = IF AllHealthy THEN "green" ELSE IF Some("HEALTHY") THEN "yellow" ELSE "red"
  BY <1>2 DEF ChaosBadge
<1> HIDE DEF AllHealthy, Some, QuorumLost
<1> QED BY <1>3, <1>5, <1>6, <1>7, <1>8, <1>9
     DEF PagesAgree, NavbarStatus, OffersRecoverAll, ReplicationBadge, Description

-----------------------------------------------------------------------------
(* The theorems.                                                            *)

\* What the pages add changes nothing of what they show.
LEMMA ViewIsContext == ViewSpec => Spec
<1>1. ViewInit => Init
  BY DEF ViewInit
<1>2. [ViewNext]_viewVars => [Next]_vars
  BY DEF ViewNext, viewVars, StoreLands
<1> QED BY <1>1, <1>2, PTL DEF ViewSpec, Spec

\* The pages agree about the cluster: the badges of the Navbar, the Dashboard, the
\* Cluster and the Chaos page, the banners and the Timeline's descriptions, each
\* computed by a page of its own (Navbar.tsx, Dashboard.tsx, Cluster.tsx, Chaos.tsx).
THEOREM PagesAlwaysAgree == ViewSpec => []PagesAgree
<1>1. IInv => PagesAgree
  BY Verdicts DEF IInv, Types
<1> QED BY <1>1, ViewIsContext, Invariance, PTL
=============================================================================
