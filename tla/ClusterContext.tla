--------------------------- MODULE ClusterContext ---------------------------
(***************************************************************************)
(* The nodes and partitions that every page of the dashboard shows         *)
(* (context/ClusterContext.tsx): failures injected on the Chaos page and   *)
(* played by timers (services/simulation.ts), the Dashboard's Add Node and *)
(* Remove Node, which change the list at once and ask the API process      *)
(* afterwards (services/backgroundOps.ts), and the poll that brings the    *)
(* list back to the backend's.                                             *)
(*                                                                         *)
(* One browser tab.  A click sees the last render; what it hands to an     *)
(* operation that sleeps first is as old as the click.  Time is left out,  *)
(* except that timers of one delay end in the order they were set.  Lag    *)
(* and CPU figures are left out, and so are the requests that repeat a     *)
(* failure to the backend, whose answer is read by no one here.            *)
(***************************************************************************)
EXTENDS Integers, Sequences, FiniteSets, SequencesExt

CONSTANTS
  Targets,      \* the ids of nodes that failures and partitions are made of
  MaxClicks,    \* bound: clicks
  MaxSyncs,     \* bound: node requests in flight at once
  MaxTroubles   \* bound: requests that fail

ASSUME TargetsAssumption == Targets \subseteq Nat
ASSUME BoundsAssumption ==
  MaxClicks \in Nat /\ MaxSyncs \in Nat \ {0} /\ MaxTroubles \in Nat

VARIABLES
  nodes,        \* the list of nodes shown, each with its id, state and failure
  partitions,   \* the partitions, in the order they were made
  timers,       \* how many timers of each kind are set for each target
  ops,          \* the Add Node and Remove Node operations under way, oldest first
  syncs,        \* the node requests in flight
  backend,      \* the nodes of the backend's ring, by the number in their address
  clicks,       \* how many clicks there were
  troubles      \* how many requests failed

vars == <<nodes, partitions, timers, ops, syncs, backend, clicks, troubles>>

States == {"HEALTHY", "SUSPECT", "UNREACHABLE", "RECOVERING", "REBALANCING"}
Kinds == {"crash", "rebalance", "heal"}
Syncs == 1..MaxSyncs
NoSync == [stage |-> "idle", count |-> 0]
\* No list grows past the six nodes of the guard and one for every click.
MaxNodes == 6 + MaxClicks

Healthy(i) == [id |-> i, state |-> "HEALTHY", failure |-> "none"]

TypeOK ==
  /\ nodes \in Seq([id : 0..MaxNodes, state : States, failure : {"none", "soft", "hard"}])
  /\ partitions \in Seq(Targets \X Targets)
  /\ timers \in [Targets \X Kinds -> 0..MaxClicks]
  /\ ops \in Seq([do : {"add", "remove"}, seen : 0..MaxNodes,
                  stage : {"sleeping", "sent", "settling"}])
  /\ syncs \in [Syncs -> [stage : {"idle", "sent", "answered"}, count : 0..6]]
  /\ backend \subseteq 0..MaxNodes
  /\ clicks \in 0..MaxClicks
  /\ troubles \in 0..MaxTroubles

-----------------------------------------------------------------------------
(* The shown list.                                                          *)

IsShown(i) == \E k \in DOMAIN nodes : nodes[k].id = i
IsShownAs(i, states) == \E k \in DOMAIN nodes : nodes[k].id = i /\ nodes[k].state \in states
IsDown(k) == nodes[k].state # "HEALTHY"

\* _updateNode: every node of that id, none when it has left the list.  A failure
\* "kept" is one the patch does not name.
Patched(n, state, failure) ==
  [n EXCEPT !.state = state, !.failure = IF failure = "kept" THEN @ ELSE failure]
UpdateNode(i, state, failure) ==
  nodes' = [k \in DOMAIN nodes |->
    IF nodes[k].id = i THEN Patched(nodes[k], state, failure) ELSE nodes[k]]

Click == clicks < MaxClicks /\ clicks' = clicks + 1

\* Mutant: the answer may lengthen the list only.
GrowingResize(n) ==
  [k \in 1..(IF n > Len(nodes) THEN n ELSE Len(nodes)) |->
    IF k <= Len(nodes) THEN nodes[k] ELSE Healthy(k - 1)]

\* Mutant: the list is made anew.
FreshResize(n) == [k \in 1..n |-> Healthy(k - 1)]

\* What syncNodes makes of the list when the backend has n nodes: it drops the
\* last ones, or appends healthy ones whose id is their place.
Resize(n) ==
  [k \in 1..n |-> IF k <= Len(nodes) THEN nodes[k] ELSE Healthy(k - 1)]

-----------------------------------------------------------------------------
(* Failures.                                                                *)

Failures == {"soft", "hard"}

\* Mutant: a node has one timer; none is set while another is pending.
SingleSetTimer(i, kind) ==
  timers' = IF \E k \in Kinds : timers[<<i, k>>] > 0 THEN timers
            ELSE [timers EXCEPT ![<<i, kind>>] = @ + 1]

SetTimer(i, kind) == timers' = [timers EXCEPT ![<<i, kind>>] = @ + 1]

\* injectFailure, by the failure selector on any node: the node is suspect; a
\* crash, heartbeat, disk or log failure ("hard") also sets timers, of which the
\* one for the crash always ends before the one for rebalancing.
InjectFailure(i, failure) ==
  /\ UpdateNode(i, "SUSPECT", failure)
  /\ IF failure = "hard" THEN SetTimer(i, "crash") ELSE UNCHANGED timers

Inject(i, failure) ==
  /\ Click
  /\ IsShown(i)
  /\ InjectFailure(i, failure)
  /\ UNCHANGED <<partitions, ops, syncs, backend, troubles>>

\* The Kill button of a node's card.
Kill(i) ==
  /\ Click
  /\ IsShownAs(i, {"HEALTHY", "SUSPECT"})
  /\ InjectFailure(i, "hard")
  /\ UNCHANGED <<partitions, ops, syncs, backend, troubles>>

\* The timers of injectFailure.  Nothing cancels them, and the node they strike
\* may have recovered, or be another of that id.
Crash(i) ==
  /\ timers[<<i, "crash">>] > 0
  /\ UpdateNode(i, "UNREACHABLE", "kept")
  /\ timers' = [timers EXCEPT ![<<i, "crash">>] = @ - 1, ![<<i, "rebalance">>] = @ + 1]
  /\ UNCHANGED <<partitions, ops, syncs, backend, clicks, troubles>>

Rebalance(i) ==
  /\ timers[<<i, "rebalance">>] > 0
  /\ UpdateNode(i, "REBALANCING", "kept")
  /\ timers' = [timers EXCEPT ![<<i, "rebalance">>] = @ - 1]
  /\ UNCHANGED <<partitions, ops, syncs, backend, clicks, troubles>>

\* recoverNode, by the Recover button of a node's card: recovering now, healthy
\* when its timer ends.
Recover(i) ==
  /\ Click
  /\ IsShownAs(i, States \ {"HEALTHY"})
  /\ UpdateNode(i, "RECOVERING", "none")
  /\ SetTimer(i, "heal")
  /\ UNCHANGED <<partitions, ops, syncs, backend, troubles>>

\* The button is there while anything is wrong.
RecoverAll ==
  /\ Click
  /\ partitions # <<>> \/ \E k \in DOMAIN nodes : IsDown(k)
  /\ nodes' = [k \in DOMAIN nodes |->
       IF \E j \in DOMAIN nodes : IsDown(j) /\ nodes[j].id = nodes[k].id
       THEN Patched(nodes[k], "RECOVERING", "none") ELSE nodes[k]]
  /\ timers' = [t \in DOMAIN timers |->
       IF t[2] # "heal" THEN timers[t]
       ELSE timers[t] + Cardinality({k \in DOMAIN nodes : IsDown(k) /\ nodes[k].id = t[1]})]
  /\ partitions' = <<>>
  /\ UNCHANGED <<ops, syncs, backend, troubles>>

\* Mutant: the timer finds the node by its place in the list.
PlaceHeal(i) ==
  /\ timers[<<i, "heal">>] > 0
  /\ nodes' = IF i \in DOMAIN nodes THEN [nodes EXCEPT ![i].state = "HEALTHY"] ELSE nodes
  /\ timers' = [timers EXCEPT ![<<i, "heal">>] = @ - 1]
  /\ UNCHANGED <<partitions, ops, syncs, backend, clicks, troubles>>

Heal(i) ==
  /\ timers[<<i, "heal">>] > 0
  /\ UpdateNode(i, "HEALTHY", "kept")
  /\ timers' = [timers EXCEPT ![<<i, "heal">>] = @ - 1]
  /\ UNCHANGED <<partitions, ops, syncs, backend, clicks, troubles>>

-----------------------------------------------------------------------------
(* Partitions.                                                              *)

IsPartitioned(a, b) == \E p \in Range(partitions) : p = <<a, b>> \/ p = <<b, a>>

\* The button of a pair of shown places: it heals a partitioned pair and
\* partitions another, unless dispatchPartition finds it already is.
TogglePair(a, b) ==
  /\ Click
  /\ a < b /\ b < Len(nodes)
  /\ partitions' =
       IF IsPartitioned(a, b)
       THEN SelectSeq(partitions, LAMBDA p : p # <<a, b>> /\ p # <<b, a>>)
       ELSE Append(partitions, <<a, b>>)
  /\ UNCHANGED <<nodes, timers, ops, syncs, backend, troubles>>

-----------------------------------------------------------------------------
(* Adding and removing nodes.                                               *)

\* startAddNode and startRemoveNode sleep before they call the function they
\* were given, which knows the list of the click.
ClickAdd ==
  /\ Click
  /\ Len(nodes) < 6
  /\ ops' = Append(ops, [do |-> "add", seen |-> Len(nodes), stage |-> "sleeping"])
  /\ UNCHANGED <<nodes, partitions, timers, syncs, backend, troubles>>

ClickRemove ==
  /\ Click
  /\ Len(nodes) > 3
  /\ ops' = Append(ops, [do |-> "remove", seen |-> Len(nodes), stage |-> "sleeping"])
  /\ UNCHANGED <<nodes, partitions, timers, syncs, backend, troubles>>

\* The oldest sleep ends (all last 200 ms): the list changes and the request is
\* sent.  The last node leaves the list, but the partitions dropped are those of
\* the node that was last when the button was clicked.
Waking(k) ==
  /\ ops[k].stage = "sleeping"
  /\ \A j \in 1..(k - 1) : ops[j].stage # "sleeping"
  /\ ops' = [ops EXCEPT ![k].stage = "sent"]

AddNode(k) ==
  /\ Waking(k) /\ ops[k].do = "add"
  /\ nodes' = Append(nodes, Healthy(ops[k].seen))
  /\ UNCHANGED <<partitions, timers, syncs, backend, clicks, troubles>>

RemoveNode(k) ==
  /\ Waking(k) /\ ops[k].do = "remove"
  /\ nodes' = IF nodes = <<>> THEN nodes ELSE Front(nodes)
  /\ partitions' = SelectSeq(partitions,
       LAMBDA p : ops[k].seen - 1 \notin {p[1], p[2]})
  /\ UNCHANGED <<timers, syncs, backend, clicks, troubles>>

\* add_node and remove_node of the API process; it refuses a seventh node, one
\* that it has, a fourth to last and one that it has not.  A refusal is not an
\* error to fetch, and an error is only logged: either way the operation goes on.
Handle(k) ==
  /\ ops[k].stage = "sent"
  /\ ops' = [ops EXCEPT ![k].stage = "settling"]
  /\ backend' =
       IF ops[k].do = "add"
       THEN IF Cardinality(backend) < 6 THEN backend \cup {ops[k].seen} ELSE backend
       ELSE IF Cardinality(backend) > 3 THEN backend \ {ops[k].seen - 1} ELSE backend
  /\ UNCHANGED <<nodes, partitions, timers, syncs, clicks, troubles>>

Unheard(k) ==
  /\ ops[k].stage = "sent"
  /\ troubles < MaxTroubles /\ troubles' = troubles + 1
  /\ ops' = [ops EXCEPT ![k].stage = "settling"]
  /\ UNCHANGED <<nodes, partitions, timers, syncs, backend, clicks>>

-----------------------------------------------------------------------------
(* syncNodes.                                                               *)

SyncIdle == \A s \in Syncs : syncs[s].stage = "idle"

\* A request is sent, in the lowest free slot.
StartSync ==
  \E s \in Syncs :
    /\ syncs[s].stage = "idle" /\ \A r \in Syncs : r < s => syncs[r].stage # "idle"
    /\ syncs' = [syncs EXCEPT ![s].stage = "sent"]

\* 500 ms after its answer the operation asks for the nodes.  (At the bound on
\* requests it asks for none.)
Settle(k) ==
  /\ ops[k].stage = "settling"
  /\ ops' = RemoveAt(ops, k)
  /\ \/ StartSync
     \/ (\A s \in Syncs : syncs[s].stage # "idle") /\ UNCHANGED syncs
  /\ UNCHANGED <<nodes, partitions, timers, backend, clicks, troubles>>

\* The 3 s poll.  (Bound: it finds no request in flight.)
Poll ==
  /\ SyncIdle /\ StartSync
  /\ UNCHANGED <<nodes, partitions, timers, ops, backend, clicks, troubles>>

Answer(s) ==
  /\ syncs[s].stage = "sent"
  /\ syncs' = [syncs EXCEPT ![s] = [stage |-> "answered", count |-> Cardinality(backend)]]
  /\ UNCHANGED <<nodes, partitions, timers, ops, backend, clicks, troubles>>

\* The request fails, on its way there or back, and the failure is ignored.
Lose(s) ==
  /\ syncs[s].stage # "idle"
  /\ troubles < MaxTroubles /\ troubles' = troubles + 1
  /\ syncs' = [syncs EXCEPT ![s] = NoSync]
  /\ UNCHANGED <<nodes, partitions, timers, ops, backend, clicks>>

Land(s) ==
  /\ syncs[s].stage = "answered"
  /\ nodes' = Resize(syncs[s].count)
  /\ syncs' = [syncs EXCEPT ![s] = NoSync]
  /\ UNCHANGED <<partitions, timers, ops, backend, clicks, troubles>>

-----------------------------------------------------------------------------
\* The provider is mounted: three nodes here and there, and the first sync sent.
Init ==
  /\ nodes = [k \in 1..3 |-> Healthy(k - 1)]
  /\ partitions = <<>>
  /\ timers = [t \in Targets \X Kinds |-> 0]
  /\ ops = <<>>
  /\ syncs = [s \in Syncs |-> IF s = 1 THEN [NoSync EXCEPT !.stage = "sent"] ELSE NoSync]
  /\ backend = 0..2
  /\ clicks = 0 /\ troubles = 0

OpStep(k) ==
  AddNode(k) \/ RemoveNode(k) \/ Handle(k) \/ Unheard(k) \/ Settle(k)
SyncStep(s) == Answer(s) \/ Lose(s) \/ Land(s)
TimerEnds(i) == Crash(i) \/ Rebalance(i) \/ Heal(i)

Next ==
  \/ \E i \in Targets : Kill(i) \/ Recover(i) \/ TimerEnds(i)
  \/ \E i \in Targets, failure \in Failures : Inject(i, failure)
  \/ RecoverAll
  \/ \E a, b \in Targets : TogglePair(a, b)
  \/ ClickAdd \/ ClickRemove
  \/ \E k \in DOMAIN ops : OpStep(k)
  \/ Poll
  \/ \E s \in Syncs : SyncStep(s)

Spec == Init /\ [][Next]_vars

\* Fairness: timers end, sleeps end, requests settle and the poll recurs.
Fairness ==
  /\ \A i \in Targets : WF_vars(Crash(i)) /\ WF_vars(Rebalance(i)) /\ WF_vars(Heal(i))
  /\ WF_vars(\E k \in DOMAIN ops : OpStep(k))
  /\ WF_vars(Poll)
  /\ \A s \in Syncs : WF_vars(SyncStep(s))

FairSpec == Spec /\ Fairness

-----------------------------------------------------------------------------
(* Properties.                                                              *)

\* A node that is recovering has a timer that will make it healthy, whatever
\* became of the list and of other timers since (recoverNode).
RecoveringIsAttended ==
  \A k \in DOMAIN nodes :
    nodes[k].state = "RECOVERING" => timers[<<nodes[k].id, "heal">>] > 0

\* What is not a click or a timer changes no node that stays in the list: a
\* sync, however late its answer, keeps the states and the failures (syncNodes).
SyncKeepsNodes ==
  [][clicks' = clicks /\ timers' = timers =>
       \A k \in DOMAIN nodes \cap DOMAIN nodes' : nodes'[k] = nodes[k]]_vars

\* Once the user leaves the buttons alone, the list has as many nodes as the
\* backend for good, however late an answer landed (syncNodes).
CountConverges == <>[](Len(nodes) = Cardinality(backend))

\* A node that is recovering with no timer of an older failure left gets
\* healthy, unless it is made to fail again or leaves the list.
RecoverySucceeds ==
  \A i \in Targets :
    (/\ IsShownAs(i, {"RECOVERING"})
     /\ timers[<<i, "crash">>] = 0 /\ timers[<<i, "rebalance">>] = 0)
    ~> (~IsShown(i) \/ IsShownAs(i, {"HEALTHY", "SUSPECT"}))

\* "Sync with backend nodes" (ClusterContext.tsx:152), "Re-sync with backend after
\* 500ms to confirm" (263): once the user leaves the buttons alone, the nodes shown
\* are the nodes of the backend.  The code compares the lengths of the lists only.
NodesAgree == <>[]({nodes[k].id : k \in DOMAIN nodes} = backend)
=============================================================================
