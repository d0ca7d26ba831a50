------------------------ MODULE ClusterContextProofs ------------------------
(***************************************************************************)
(* Theorems about ClusterContext, for every set of nodes that fail and     *)
(* every number of clicks, syncs and lost requests.                        *)
(***************************************************************************)
EXTENDS ClusterContext, FiniteSetTheorems, TLAPS

\* A node of the list, and an Add or Remove Node operation under way.
Node == [id : Nat, state : States, failure : {"none", "soft", "hard"}]
Op == [do : {"add", "remove"}, seen : Nat, stage : {"sleeping", "sent", "settling"}]

\* The types without their bounds.
Types ==
  /\ nodes \in Seq(Node)
  /\ timers \in [Targets \X Kinds -> Nat]
  /\ ops \in Seq(Op)
  /\ syncs \in [Syncs -> [stage : {"idle", "sent", "answered"}, count : Nat]]
  /\ IsFiniteSet(backend)
  /\ clicks \in Nat

\* Only nodes that failures are made of fail, so that each has its timers.
DownAreTargets == \A k \in DOMAIN nodes : IsDown(k) => nodes[k].id \in Targets

\* The inductive invariant.
IInv == Types /\ DownAreTargets /\ RecoveringIsAttended

-----------------------------------------------------------------------------
(* What the operators on the list do.                                       *)

\* _updateNode changes the state of the nodes of one id and leaves the rest.
LEMMA UpdateEffect ==
  ASSUME nodes \in Seq(Node), NEW i, NEW state \in States,
         NEW failure \in {"none", "soft", "hard", "kept"}, UpdateNode(i, state, failure)
  PROVE  /\ nodes' \in Seq(Node) /\ DOMAIN nodes' = DOMAIN nodes
         /\ \A k \in DOMAIN nodes :
              /\ nodes'[k].id = nodes[k].id
              /\ nodes'[k].state = IF nodes[k].id = i THEN state ELSE nodes[k].state
<1>1. nodes' = [k \in DOMAIN nodes |->
        IF nodes[k].id = i THEN Patched(nodes[k], state, failure) ELSE nodes[k]]
  BY DEF UpdateNode
<1>2. \A n \in Node : /\ Patched(n, state, failure) \in Node
                      /\ Patched(n, state, failure).id = n.id
                      /\ Patched(n, state, failure).state = state
  BY DEF Patched, Node
<1>3. /\ DOMAIN nodes = 1..Len(nodes) /\ Len(nodes) \in Nat
      /\ \A k \in DOMAIN nodes : nodes[k] \in Node
  OBVIOUS
<1>4. nodes' \in [1..Len(nodes) -> Node]
  BY <1>1, <1>2, <1>3
<1>5. nodes' \in Seq(Node)
  BY <1>3, <1>4
<1> QED BY <1>1, <1>2, <1>3, <1>5

\* A node of the list is a node, a new one is healthy.
LEMMA HealthyType ==
  ASSUME NEW i \in Nat
  PROVE  Healthy(i) \in Node /\ Healthy(i).state = "HEALTHY"
  BY DEF Healthy, Node, States

\* A list whose nodes are nodes of the old list, at their places, or healthy ones.
Keeps == \A k \in DOMAIN nodes' :
           (k \in DOMAIN nodes /\ nodes'[k] = nodes[k]) \/ nodes'[k].state = "HEALTHY"

\* Such a list has no other nodes that are down, and the timers serve it.
LEMMA KeepsInv ==
  ASSUME DownAreTargets, RecoveringIsAttended, Keeps, UNCHANGED timers
  PROVE  DownAreTargets' /\ RecoveringIsAttended'
  BY DEF DownAreTargets, RecoveringIsAttended, Keeps, IsDown

\* Failures, crashes, rebalancing and healing: no node begins to recover, and the
\* other nodes keep their timers.
LEMMA StrikeInv ==
  ASSUME IInv, NEW i \in Targets, NEW state \in States \ {"RECOVERING"},
         NEW failure \in {"none", "soft", "hard", "kept"}, UpdateNode(i, state, failure),
         \A j \in Targets : j # i => timers'[<<j, "heal">>] = timers[<<j, "heal">>]
  PROVE  nodes' \in Seq(Node) /\ DownAreTargets' /\ RecoveringIsAttended'
<1>1. /\ nodes' \in Seq(Node) /\ DOMAIN nodes' = DOMAIN nodes
      /\ \A k \in DOMAIN nodes :
           /\ nodes'[k].id = nodes[k].id
           /\ nodes'[k].state = IF nodes[k].id = i THEN state ELSE nodes[k].state
  BY UpdateEffect DEF IInv, Types
<1>2. DownAreTargets'
  BY <1>1 DEF IInv, DownAreTargets, IsDown
<1>3. ASSUME NEW k \in DOMAIN nodes, nodes'[k].state = "RECOVERING"
      PROVE  timers'[<<nodes'[k].id, "heal">>] > 0
  <2>1. nodes[k].id # i /\ nodes[k].state = "RECOVERING" /\ nodes'[k].id = nodes[k].id
    BY <1>1, <1>3
  <2>2. nodes[k].id \in Targets
    BY <2>1 DEF IInv, DownAreTargets, IsDown
  <2>3. timers[<<nodes[k].id, "heal">>] > 0
    BY <2>1 DEF IInv, RecoveringIsAttended
  <2> QED BY <2>1, <2>2, <2>3
<1> QED BY <1>1, <1>2, <1>3 DEF RecoveringIsAttended

-----------------------------------------------------------------------------
(* One lemma per action that changes the list or the timers.                *)

\* A timer is set or ends without any other changing.
LEMMA TimerEffect ==
  ASSUME timers \in [Targets \X Kinds -> Nat], NEW t \in Targets \X Kinds, NEW n \in Nat,
         timers' = [timers EXCEPT ![t] = n]
  PROVE  /\ timers' \in [Targets \X Kinds -> Nat]
         /\ timers'[t] = n
         /\ \A u \in Targets \X Kinds : u # t => timers'[u] = timers[u]
  OBVIOUS

\* So setTimeout adds one timer of its kind and target.
LEMMA SetTimerEffect ==
  ASSUME timers \in [Targets \X Kinds -> Nat], NEW i \in Targets, NEW kind \in Kinds,
         SetTimer(i, kind)
  PROVE  /\ timers' \in [Targets \X Kinds -> Nat]
         /\ timers'[<<i, kind>>] = timers[<<i, kind>>] + 1
         /\ \A j \in Targets, other \in Kinds :
              j # i \/ other # kind => timers'[<<j, other>>] = timers[<<j, other>>]
<1>1. <<i, kind>> \in Targets \X Kinds /\ timers[<<i, kind>>] + 1 \in Nat
  OBVIOUS
<1> QED BY <1>1, TimerEffect DEF SetTimer

\* A failure makes its node suspect; the timer it sets does not heal.
LEMMA InjectStep ==
  ASSUME IInv, NEW i \in Targets, NEW failure \in Failures, InjectFailure(i, failure)
  PROVE  nodes' \in Seq(Node) /\ timers' \in [Targets \X Kinds -> Nat]
         /\ DownAreTargets' /\ RecoveringIsAttended'
<1>1. /\ timers' \in [Targets \X Kinds -> Nat]
      /\ \A j \in Targets : timers'[<<j, "heal">>] = timers[<<j, "heal">>]
  <2>1. timers \in [Targets \X Kinds -> Nat] /\ "crash" \in Kinds /\ "heal" \in Kinds
    BY DEF IInv, Types, Kinds
  <2> QED BY <2>1, SetTimerEffect DEF InjectFailure
<1>2. UpdateNode(i, "SUSPECT", failure) /\ failure \in {"none", "soft", "hard", "kept"}
  BY DEF InjectFailure, Failures
<1>3. "SUSPECT" \in States \ {"RECOVERING"}
  BY DEF States
<1> QED BY <1>1, <1>2, <1>3, StrikeInv

\* A failure's timers leave those that heal alone.
LEMMA CrashStep ==
  ASSUME IInv, NEW i \in Targets, Crash(i) \/ Rebalance(i)
  PROVE  nodes' \in Seq(Node) /\ timers' \in [Targets \X Kinds -> Nat]
         /\ DownAreTargets' /\ RecoveringIsAttended'
<1>1. /\ timers' \in [Targets \X Kinds -> Nat]
      /\ \A j \in Targets : timers'[<<j, "heal">>] = timers[<<j, "heal">>]
  <2>1. /\ timers \in [Targets \X Kinds -> Nat]
        /\ \A kind \in Kinds : <<i, kind>> \in Targets \X Kinds /\ timers[<<i, kind>>] \in Nat
    BY DEF IInv, Types
  <2>2. CASE Crash(i)
    <3>1. timers' = [timers EXCEPT ![<<i, "crash">>] = @ - 1, ![<<i, "rebalance">>] = @ + 1]
          /\ timers[<<i, "crash">>] > 0
      BY <2>2 DEF Crash
    <3> QED BY <2>1, <3>1 DEF Kinds
  <2>3. CASE Rebalance(i)
    <3>1. timers' = [timers EXCEPT ![<<i, "rebalance">>] = @ - 1]
          /\ timers[<<i, "rebalance">>] > 0
      BY <2>3 DEF Rebalance
    <3> QED BY <2>1, <3>1 DEF Kinds
  <2> QED BY <2>2, <2>3
<1>2. \E state \in States \ {"RECOVERING"} : UpdateNode(i, state, "kept")
  BY DEF Crash, Rebalance, States
<1> QED BY <1>1, <1>2, StrikeInv

\* The end of a timer that heals leaves no node of its target recovering.
LEMMA HealStep ==
  ASSUME IInv, NEW i \in Targets, Heal(i)
  PROVE  nodes' \in Seq(Node) /\ timers' \in [Targets \X Kinds -> Nat]
         /\ DownAreTargets' /\ RecoveringIsAttended'
<1>1. /\ timers' \in [Targets \X Kinds -> Nat]
      /\ \A j \in Targets : j # i => timers'[<<j, "heal">>] = timers[<<j, "heal">>]
  BY DEF IInv, Types, Heal, Kinds
<1>2. UpdateNode(i, "HEALTHY", "kept")
  BY DEF Heal
<1>3. "HEALTHY" \in States \ {"RECOVERING"}
  BY DEF States
<1> QED BY <1>1, <1>2, <1>3, StrikeInv

\* Recovering begins with its timer.
LEMMA RecoverStep ==
  ASSUME IInv, NEW i \in Targets, Recover(i)
  PROVE  nodes' \in Seq(Node) /\ timers' \in [Targets \X Kinds -> Nat]
         /\ DownAreTargets' /\ RecoveringIsAttended'
<1>1. /\ timers' \in [Targets \X Kinds -> Nat]
      /\ \A j \in Targets : timers'[<<j, "heal">>] >= timers[<<j, "heal">>]
      /\ timers'[<<i, "heal">>] > 0
      /\ \A j \in Targets : timers[<<j, "heal">>] \in Nat /\ timers'[<<j, "heal">>] \in Nat
  <2>1. timers \in [Targets \X Kinds -> Nat] /\ "heal" \in Kinds
    BY DEF IInv, Types, Kinds
  <2>2. \A j \in Targets : timers[<<j, "heal">>] \in Nat
    BY <2>1
  <2>3. /\ timers' \in [Targets \X Kinds -> Nat]
        /\ timers'[<<i, "heal">>] = timers[<<i, "heal">>] + 1
        /\ \A j \in Targets : j # i => timers'[<<j, "heal">>] = timers[<<j, "heal">>]
    BY <2>1, SetTimerEffect DEF Recover
  <2> QED BY <2>2, <2>3
<1>2. /\ nodes' \in Seq(Node) /\ DOMAIN nodes' = DOMAIN nodes
      /\ \A k \in DOMAIN nodes :
           /\ nodes'[k].id = nodes[k].id
           /\ nodes'[k].state = IF nodes[k].id = i THEN "RECOVERING" ELSE nodes[k].state
  BY UpdateEffect DEF Recover, IInv, Types, States
<1>3. DownAreTargets'
  BY <1>2 DEF IInv, DownAreTargets, IsDown
<1>4. ASSUME NEW k \in DOMAIN nodes, nodes'[k].state = "RECOVERING"
      PROVE  timers'[<<nodes'[k].id, "heal">>] > 0
  <2>1. CASE nodes[k].id = i
    BY <1>1, <1>2, <2>1
  <2>2. CASE nodes[k].id # i
    <3>1. nodes[k].state = "RECOVERING" /\ nodes'[k].id = nodes[k].id
      BY <1>2, <1>4, <2>2
    <3>2. nodes[k].id \in Targets /\ timers[<<nodes[k].id, "heal">>] > 0
      BY <3>1 DEF IInv, DownAreTargets, RecoveringIsAttended, IsDown
    <3> QED BY <1>1, <3>1, <3>2
  <2> QED BY <2>1, <2>2
<1> QED BY <1>1, <1>2, <1>3, <1>4 DEF RecoveringIsAttended

\* So does recovering them all: one timer is set for every node that is down.
LEMMA RecoverAllStep ==
  ASSUME IInv, RecoverAll
  PROVE  nodes' \in Seq(Node) /\ timers' \in [Targets \X Kinds -> Nat]
         /\ DownAreTargets' /\ RecoveringIsAttended'
<1> DEFINE Down(i) == {k \in DOMAIN nodes : IsDown(k) /\ nodes[k].id = i}
<1>1. /\ DOMAIN nodes = 1..Len(nodes) /\ Len(nodes) \in Nat
      /\ \A k \in DOMAIN nodes : nodes[k] \in Node
  BY DEF IInv, Types
<1>2. ASSUME NEW i
      PROVE  /\ Cardinality(Down(i)) \in Nat
             /\ Down(i) # {} => Cardinality(Down(i)) > 0
  <2>1. IsFiniteSet(1..Len(nodes)) /\ Down(i) \subseteq 1..Len(nodes)
    BY <1>1, FS_Interval
  <2>2. IsFiniteSet(Down(i))
    BY <2>1, FS_Subset
  <2> QED BY <2>2, FS_CardinalityType, FS_EmptySet
<1>3. timers' = [t \in Targets \X Kinds |->
        IF t[2] # "heal" THEN timers[t] ELSE timers[t] + Cardinality(Down(t[1]))]
  BY DEF RecoverAll, IInv, Types
<1>4. timers' \in [Targets \X Kinds -> Nat]
  <2> HIDE DEF Down
  <2>1. \A t \in Targets \X Kinds : timers[t] \in Nat
    BY DEF IInv, Types
  <2> QED BY <1>2, <1>3, <2>1
<1>5. \A i \in Targets : timers'[<<i, "heal">>] = timers[<<i, "heal">>] + Cardinality(Down(i))
  <2> HIDE DEF Down
  <2> QED BY <1>3 DEF Kinds
<1>6. nodes' = [k \in DOMAIN nodes |->
        IF \E j \in DOMAIN nodes : IsDown(j) /\ nodes[j].id = nodes[k].id
        THEN Patched(nodes[k], "RECOVERING", "none") ELSE nodes[k]]
  BY DEF RecoverAll
<1>7. \A n \in Node : /\ Patched(n, "RECOVERING", "none") \in Node
                      /\ Patched(n, "RECOVERING", "none").id = n.id
  BY DEF Patched, Node, States
<1>8. nodes' \in [1..Len(nodes) -> Node]
  BY <1>1, <1>6, <1>7
<1>9. nodes' \in Seq(Node)
  BY <1>1, <1>8
<1>10. ASSUME NEW k \in DOMAIN nodes', nodes'[k].state # "HEALTHY"
       PROVE  /\ nodes'[k].id \in Targets
              /\ timers'[<<nodes'[k].id, "heal">>] > 0
  <2>1. k \in DOMAIN nodes /\ nodes'[k].id = nodes[k].id
    BY <1>1, <1>6, <1>7
  <2>2. PICK j \in DOMAIN nodes : IsDown(j) /\ nodes[j].id = nodes[k].id
    BY <1>6, <1>10, <2>1 DEF IsDown
  <2>3. nodes[j].id \in Targets
    BY <2>2 DEF IInv, DownAreTargets
  <2>4. Cardinality(Down(nodes[j].id)) \in Nat /\ Cardinality(Down(nodes[j].id)) > 0
    BY <1>2, <2>2
  <2>5. timers[<<nodes[j].id, "heal">>] \in Nat
    BY <2>3 DEF IInv, Types, Kinds
  <2> HIDE DEF Down
  <2> QED BY <1>5, <2>1, <2>2, <2>3, <2>4, <2>5
<1> QED BY <1>4, <1>9, <1>10 DEF DownAreTargets, RecoveringIsAttended, IsDown

\* The operations on the list of nodes keep every node that stays at its place.
LEMMA AddStep ==
  ASSUME IInv, NEW k \in DOMAIN ops, AddNode(k)
  PROVE  nodes' \in Seq(Node) /\ Keeps
<1>1. ops[k] \in Op
  BY DEF IInv, Types
<1>2. Healthy(ops[k].seen) \in Node /\ Healthy(ops[k].seen).state = "HEALTHY"
  BY <1>1, HealthyType DEF Op
<1>3. nodes \in Seq(Node) /\ nodes' = Append(nodes, Healthy(ops[k].seen))
  BY DEF IInv, Types, AddNode
<1> HIDE DEF Healthy
<1> QED BY <1>2, <1>3 DEF Keeps

\* removeNode drops the last node only.
LEMMA RemoveStep ==
  ASSUME IInv, NEW k \in DOMAIN ops, RemoveNode(k)
  PROVE  nodes' \in Seq(Node) /\ Keeps
<1>1. nodes \in Seq(Node)
  BY DEF IInv, Types
<1>2. CASE nodes = <<>>
  BY <1>1, <1>2 DEF RemoveNode, Keeps
<1>3. CASE nodes # <<>>
  <2>1. nodes' = SubSeq(nodes, 1, Len(nodes) - 1)
    BY <1>3 DEF RemoveNode, Front
  <2>2. Len(nodes) \in Nat /\ Len(nodes) > 0
    BY <1>1, <1>3
  <2> QED BY <1>1, <2>1, <2>2 DEF Keeps
<1> QED BY <1>2, <1>3

\* syncNodes cuts the list or extends it with healthy nodes.
LEMMA ResizeEffect ==
  ASSUME nodes \in Seq(Node), NEW n \in Nat, nodes' = Resize(n)
  PROVE  nodes' \in Seq(Node) /\ Keeps
<1>1. ASSUME NEW k \in 1..n
      PROVE  /\ nodes'[k] \in Node
             /\ (k \in DOMAIN nodes /\ nodes'[k] = nodes[k]) \/ nodes'[k].state = "HEALTHY"
  <2>1. CASE k <= Len(nodes)
    BY <2>1 DEF Resize
  <2>2. CASE ~(k <= Len(nodes))
    <3>1. nodes'[k] = Healthy(k - 1)
      BY <2>2 DEF Resize
    <3>2. k - 1 \in Nat
      OBVIOUS
    <3> QED BY <3>1, <3>2, HealthyType
  <2> QED BY <2>1, <2>2
<1>2. DOMAIN nodes' = 1..n /\ nodes' = [k \in 1..n |-> nodes'[k]]
  BY DEF Resize
<1>3. nodes' \in [1..n -> Node]
  BY <1>1, <1>2
<1>4. nodes' \in Seq(Node)
  BY <1>3
<1> QED BY <1>1, <1>2, <1>4 DEF Keeps

-----------------------------------------------------------------------------
(* The invariant.                                                           *)

\* A list given by its places is a sequence.
LEMMA ListType ==
  ASSUME NEW n \in Nat, NEW list \in [1..n -> Node]
  PROVE  list \in Seq(Node)
  OBVIOUS

\* The provider is mounted in a state of the invariant.
LEMMA InitInv == Init => IInv
<1> SUFFICES ASSUME Init PROVE IInv
  OBVIOUS
<1>1. \A k \in 1..3 : Healthy(k - 1) \in Node /\ Healthy(k - 1).state = "HEALTHY"
  BY HealthyType
<1>2. nodes = [k \in 1..3 |-> Healthy(k - 1)]
  BY DEF Init
<1>3. nodes \in Seq(Node) /\ DOMAIN nodes = 1..3
      /\ \A k \in DOMAIN nodes : nodes[k].state = "HEALTHY"
  <2>1. nodes \in [1..3 -> Node] /\ 3 \in Nat
    BY <1>1, <1>2
  <2>2. nodes \in Seq(Node)
    BY <2>1, ListType
  <2> QED BY <1>1, <1>2, <2>2
<1>4. timers \in [Targets \X Kinds -> Nat] /\ ops \in Seq(Op) /\ clicks \in Nat
  BY DEF Init
<1>5. syncs \in [Syncs -> [stage : {"idle", "sent", "answered"}, count : Nat]]
  BY DEF Init, NoSync
<1>6. IsFiniteSet(backend)
  <2>1. backend = 0..2
    BY DEF Init
  <2>2. 0 \in Int /\ 2 \in Int
    OBVIOUS
  <2>3. IsFiniteSet(0..2)
    BY <2>2, FS_Interval, Zenon
  <2> QED BY <2>1, <2>3
<1> QED BY <1>3, <1>4, <1>5, <1>6 DEF IInv, Types, DownAreTargets, RecoveringIsAttended, IsDown

\* Every step leaves the list's nodes typed and every recovering one with a timer.
LEMMA ListStep ==
  ASSUME IInv, [Next]_vars
  PROVE  nodes' \in Seq(Node) /\ timers' \in [Targets \X Kinds -> Nat]
         /\ DownAreTargets' /\ RecoveringIsAttended'
<1> DEFINE Goal == /\ nodes' \in Seq(Node) /\ timers' \in [Targets \X Kinds -> Nat]
                   /\ DownAreTargets' /\ RecoveringIsAttended'
<1>1. ASSUME UNCHANGED timers, nodes' \in Seq(Node), Keeps PROVE Goal
  BY <1>1, KeepsInv DEF IInv, Types
<1>2. ASSUME UNCHANGED <<nodes, timers>> PROVE Goal
  <2>1. Keeps
    BY <1>2 DEF Keeps
  <2> QED BY <1>1, <1>2, <2>1 DEF IInv, Types
<1>3. ASSUME NEW i \in Targets, Kill(i) PROVE Goal
  BY <1>3, InjectStep DEF Kill, Failures
<1>4. ASSUME NEW i \in Targets, Recover(i) PROVE Goal
  BY <1>4, RecoverStep
<1>5. ASSUME NEW i \in Targets, TimerEnds(i) PROVE Goal
  BY <1>5, CrashStep, HealStep DEF TimerEnds
<1>6. ASSUME NEW i \in Targets, NEW failure \in Failures, Inject(i, failure) PROVE Goal
  BY <1>6, InjectStep DEF Inject
<1>7. ASSUME RecoverAll PROVE Goal
  BY <1>7, RecoverAllStep
<1>8. ASSUME NEW a \in Targets, NEW b \in Targets, TogglePair(a, b) PROVE Goal
  BY <1>2, <1>8 DEF TogglePair
<1>9. ASSUME ClickAdd \/ ClickRemove \/ Poll PROVE Goal
  BY <1>2, <1>9 DEF ClickAdd, ClickRemove, Poll
<1>10. ASSUME NEW k \in DOMAIN ops, OpStep(k) PROVE Goal
  <2>1. CASE AddNode(k)
    BY <1>1, <2>1, AddStep DEF AddNode
  <2>2. CASE RemoveNode(k)
    BY <1>1, <2>2, RemoveStep DEF RemoveNode
  <2>3. CASE Handle(k) \/ Unheard(k) \/ Settle(k)
    BY <1>2, <2>3 DEF Handle, Unheard, Settle
  <2> QED BY <1>10, <2>1, <2>2, <2>3 DEF OpStep
<1>11. ASSUME NEW s \in Syncs, SyncStep(s) PROVE Goal
  <2>1. CASE Answer(s) \/ Lose(s)
    BY <1>2, <2>1 DEF Answer, Lose
  <2>2. CASE Land(s)
    <3>1. nodes \in Seq(Node) /\ syncs[s].count \in Nat
      BY DEF IInv, Types
    <3> QED BY <1>1, <2>2, <3>1, ResizeEffect DEF Land
  <2> QED BY <1>11, <2>1, <2>2 DEF SyncStep
<1>12. ASSUME UNCHANGED vars PROVE Goal
  BY <1>2, <1>12 DEF vars
<1> HIDE DEF Goal
<1>13. Goal
  BY <1>3, <1>4, <1>5, <1>6, <1>7, <1>8, <1>9, <1>10, <1>11, <1>12 DEF Next
<1> QED BY <1>13 DEF Goal

\* A request that starts is one more of the requests in flight.
LEMMA StartType ==
  ASSUME IInv, StartSync
  PROVE  syncs' \in [Syncs -> [stage : {"idle", "sent", "answered"}, count : Nat]]
  BY DEF StartSync, IInv, Types

\* The rest of the state keeps its types.
LEMMA RestStep ==
  ASSUME IInv, [Next]_vars
  PROVE  /\ ops' \in Seq(Op)
         /\ syncs' \in [Syncs -> [stage : {"idle", "sent", "answered"}, count : Nat]]
         /\ IsFiniteSet(backend') /\ clicks' \in Nat
<1> DEFINE Goal == /\ ops' \in Seq(Op)
                   /\ syncs' \in [Syncs -> [stage : {"idle", "sent", "answered"}, count : Nat]]
                   /\ IsFiniteSet(backend') /\ clicks' \in Nat
<1>0. /\ ops \in Seq(Op) /\ nodes \in Seq(Node)
      /\ syncs \in [Syncs -> [stage : {"idle", "sent", "answered"}, count : Nat]]
      /\ IsFiniteSet(backend) /\ clicks \in Nat
  BY DEF IInv, Types
<1>1. ASSUME UNCHANGED <<ops, syncs, backend>>, Click \/ UNCHANGED clicks PROVE Goal
  BY <1>0, <1>1 DEF Click
<1>2. ASSUME NEW i \in Targets, Kill(i) \/ Recover(i) \/ TimerEnds(i) PROVE Goal
  BY <1>1, <1>2 DEF Kill, Recover, TimerEnds, Crash, Rebalance, Heal
<1>3. ASSUME NEW i \in Targets, NEW failure \in Failures, Inject(i, failure) PROVE Goal
  BY <1>1, <1>3 DEF Inject
<1>4. ASSUME RecoverAll PROVE Goal
  BY <1>1, <1>4 DEF RecoverAll
<1>5. ASSUME NEW a \in Targets, NEW b \in Targets, TogglePair(a, b) PROVE Goal
  BY <1>1, <1>5 DEF TogglePair
<1>6. ASSUME ClickAdd \/ ClickRemove PROVE Goal
  <2>1. PICK op \in Op : ops' = Append(ops, op)
    BY <1>0, <1>6 DEF ClickAdd, ClickRemove, Op
  <2>2. ops' \in Seq(Op)
    BY <1>0, <2>1
  <2> QED BY <1>0, <1>6, <2>2 DEF ClickAdd, ClickRemove, Click
<1>7. ASSUME Poll PROVE Goal
  BY <1>0, <1>7, StartType DEF Poll
<1>8. ASSUME NEW k \in DOMAIN ops, OpStep(k) PROVE Goal
  <2>0. ops[k] \in Op
    BY <1>0
  <2>1. ASSUME NEW stage \in {"sleeping", "sent", "settling"}
        PROVE  [ops EXCEPT ![k].stage = stage] \in Seq(Op)
    <3>1. [ops[k] EXCEPT !.stage = stage] \in Op
      BY <2>0 DEF Op
    <3>2. [ops EXCEPT ![k] = [ops[k] EXCEPT !.stage = stage]] \in Seq(Op)
      BY <1>0, <3>1
    <3> QED BY <3>2
  <2>2. CASE AddNode(k) \/ RemoveNode(k)
    BY <1>0, <2>1, <2>2 DEF AddNode, RemoveNode, Waking
  <2>3. CASE Handle(k)
    <3>1. IsFiniteSet(backend \cup {ops[k].seen}) /\ IsFiniteSet(backend \ {ops[k].seen - 1})
      BY <1>0, FS_AddElement, FS_RemoveElement
    <3>2. IsFiniteSet(backend')
      BY <1>0, <2>3, <3>1 DEF Handle
    <3> QED BY <1>0, <2>1, <2>3, <3>2 DEF Handle
  <2>4. CASE Unheard(k)
    BY <1>0, <2>1, <2>4 DEF Unheard
  <2>5. CASE Settle(k)
    <3>1. ops' \in Seq(Op)
      <4>1. ops' = SubSeq(ops, 1, k - 1) \o SubSeq(ops, k + 1, Len(ops))
        BY <2>5 DEF Settle, RemoveAt
      <4>2. SubSeq(ops, 1, k - 1) \in Seq(Op) /\ SubSeq(ops, k + 1, Len(ops)) \in Seq(Op)
        BY <1>0
      <4> QED BY <4>1, <4>2
    <3> QED BY <1>0, <2>5, <3>1, StartType DEF Settle
  <2> QED BY <1>8, <2>2, <2>3, <2>4, <2>5 DEF OpStep
<1>9. ASSUME NEW s \in Syncs, SyncStep(s) PROVE Goal
  <2>1. Cardinality(backend) \in Nat
    BY <1>0, FS_CardinalityType
  <2>2. \E new \in [stage : {"idle", "sent", "answered"}, count : Nat] :
          syncs' = [syncs EXCEPT ![s] = new]
    BY <1>9, <2>1 DEF SyncStep, Answer, Lose, Land, NoSync
  <2>3. syncs' \in [Syncs -> [stage : {"idle", "sent", "answered"}, count : Nat]]
    BY <1>0, <2>2
  <2> QED BY <1>0, <1>9, <2>3 DEF SyncStep, Answer, Lose, Land
<1>10. ASSUME UNCHANGED vars PROVE Goal
  BY <1>0, <1>10 DEF vars
<1> HIDE DEF Goal
<1>11. Goal
  BY <1>2, <1>3, <1>4, <1>5, <1>6, <1>7, <1>8, <1>9, <1>10 DEF Next
<1> QED BY <1>11 DEF Goal

\* The invariant is inductive.
LEMMA Invariance == Spec => []IInv
<1>1. Init => IInv
  BY InitInv
<1>2. IInv /\ [Next]_vars => IInv'
  BY ListStep, RestStep DEF IInv, Types
<1> QED BY <1>1, <1>2, PTL DEF Spec

-----------------------------------------------------------------------------
(* The theorems.                                                            *)

\* A node that is recovering has a timer that will make it healthy, whatever
\* became of the list and of other timers since (recoverNode).
THEOREM RecoveringAttended == Spec => []RecoveringIsAttended
<1>1. IInv => RecoveringIsAttended
  BY DEF IInv
<1> QED BY <1>1, Invariance, PTL

\* What is not a click or a timer changes no node that stays in the list
\* (syncNodes, addNode and removeNode).
THEOREM NodesKept == Spec => SyncKeepsNodes
<1> DEFINE Kept == clicks' = clicks /\ timers' = timers =>
             \A k \in DOMAIN nodes \cap DOMAIN nodes' : nodes'[k] = nodes[k]
<1>1. ASSUME IInv, [Next]_vars PROVE Kept
  <2>0. clicks \in Nat /\ nodes \in Seq(Node) /\ timers \in [Targets \X Kinds -> Nat]
    BY <1>1 DEF IInv, Types
  <2>1. ASSUME Click PROVE Kept
    BY <2>0, <2>1 DEF Click
  <2>2. ASSUME UNCHANGED nodes PROVE Kept
    BY <2>2
  <2>3. ASSUME NEW i \in Targets, Kill(i) \/ Recover(i) PROVE Kept
    BY <2>1, <2>3 DEF Kill, Recover
  <2>4. ASSUME NEW i \in Targets, TimerEnds(i) PROVE Kept
    <3>1. \A kind \in Kinds : <<i, kind>> \in Targets \X Kinds /\ timers[<<i, kind>>] \in Nat
      BY <2>0
    <3>2. timers' # timers
      BY <2>0, <2>4, <3>1 DEF TimerEnds, Crash, Rebalance, Heal, Kinds
    <3> QED BY <3>2
  <2>5. ASSUME NEW i \in Targets, NEW failure \in Failures, Inject(i, failure) PROVE Kept
    BY <2>1, <2>5 DEF Inject
  <2>6. CASE RecoverAll \/ ClickAdd \/ ClickRemove
    BY <2>1, <2>6 DEF RecoverAll, ClickAdd, ClickRemove
  <2>7. ASSUME NEW a \in Targets, NEW b \in Targets, TogglePair(a, b) PROVE Kept
    BY <2>1, <2>7 DEF TogglePair
  <2>8. CASE Poll \/ UNCHANGED vars
    BY <2>2, <2>8 DEF Poll, vars
  <2>9. ASSUME NEW k \in DOMAIN ops, OpStep(k) PROVE Kept
    <3>1. CASE AddNode(k)
      BY <2>0, <3>1 DEF AddNode
    <3>2. CASE RemoveNode(k)
      BY <2>0, <3>2 DEF RemoveNode, Front
    <3>3. CASE Handle(k) \/ Unheard(k) \/ Settle(k)
      BY <2>2, <3>3 DEF Handle, Unheard, Settle
    <3> QED BY <2>9, <3>1, <3>2, <3>3 DEF OpStep
  <2>10. ASSUME NEW s \in Syncs, SyncStep(s) PROVE Kept
    <3>1. CASE Land(s)
      BY <2>0, <3>1 DEF Land, Resize
    <3>2. CASE Answer(s) \/ Lose(s)
      BY <2>2, <3>2 DEF Answer, Lose
    <3> QED BY <2>10, <3>1, <3>2 DEF SyncStep
  <2> HIDE DEF Kept
  <2> QED BY <1>1, <2>3, <2>4, <2>5, <2>6, <2>7, <2>8, <2>9, <2>10 DEF Next
<1>2. IInv /\ [Next]_vars => [Kept]_vars
  BY <1>1
<1> QED BY <1>2, Invariance, PTL DEF Spec, SyncKeepsNodes
=============================================================================
