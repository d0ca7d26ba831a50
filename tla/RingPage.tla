------------------------------ MODULE RingPage ------------------------------
(***************************************************************************)
(* The hash ring page (pages/HashRing.tsx) with its socket                 *)
(* (api/websocket.ts) and the key counts it shows                          *)
(* (components/hashring/Stats.tsx, Nodes.tsx).  The ring is the backend's  *)
(* while the page is "live" and a mock of the store's node count when not. *)
(*                                                                         *)
(* A ring is its number of nodes; node i + 1 of the ring is node i of      *)
(* ClusterContext.                                                         *)
(***************************************************************************)
EXTENDS ClusterSync

CONSTANTS
  MaxFetches,   \* bound: ring requests of the page in flight at once
  MaxPushes,    \* bound: ring updates on their way through the socket
  Keys          \* the sampled keys, by their angle

ASSUME RingBoundsAssumption == MaxFetches \in Nat /\ MaxPushes \in Nat
ASSUME KeysAssumption == Keys \subseteq 0..359

Fetches == 1..MaxFetches

VARIABLES
  shown,        \* the ring drawn: how many nodes, and whether the backend sent them
  owners,       \* the size of the backend ring that named the keys' owners, or 0
  live,         \* the page says "Connected"
  fetches,      \* the requests for the ring: not sent, on their way, or answered
  socket,       \* the socket: closed, connecting, open
  pushes,       \* the updates sent through it and not yet received
  changing      \* an add-node or remove-node operation is running

ringVars == <<shown, owners, live, fetches, socket, pushes, changing>>

NoFetch == [stage |-> "free", value |-> 0]
MockRing(n) == [count |-> n, served |-> FALSE]

\* The mock has at least 3 nodes and at most 6.
MockCount(n) == IF n < 3 THEN 3 ELSE IF n > 6 THEN 6 ELSE n

\* The effect on the node count: offline, a ring of another size than the
\* store's is replaced by a mock.  It runs after every change of either.
Settled(s, isLive, count) ==
  IF ~isLive /\ count > 0 /\ count # s.count THEN MockRing(MockCount(count)) ELSE s

\* applySnapshot.  (A backend ring is never empty; its list of keys may be.)
ApplySnapshot(n) ==
  /\ shown' = [count |-> n, served |-> TRUE]
  /\ owners' = n
  /\ live' = TRUE

\* Mutant: the effect does not run when only "live" changes.
UnnoticedGoOffline ==
  /\ live' = FALSE
  /\ UNCHANGED <<shown, owners>>

\* The page goes offline: what it shows is rebuilt if it must be.
GoOffline ==
  /\ live' = FALSE
  /\ shown' = Settled(shown, FALSE, store.nodes)
  /\ UNCHANGED owners

-----------------------------------------------------------------------------
(* Requests for the ring: one on mount, and one every 800 ms while an       *)
(* operation changes it.                                                    *)

RefetchRing ==
  /\ page = "ring" /\ changing
  /\ \E f \in Fetches :
       /\ fetches[f] = NoFetch
       /\ \A g \in Fetches : g < f => fetches[g] # NoFetch
       /\ fetches' = [fetches EXCEPT ![f].stage = "repeated"]
  /\ UNCHANGED <<syncVars, shown, owners, live, socket, pushes, changing>>

RingAnswered(f) ==
  /\ fetches[f].stage \in {"first", "repeated"}
  /\ fetches' = [fetches EXCEPT ![f] = [stage |-> "answered", value |-> ring]]
  /\ UNCHANGED <<syncVars, shown, owners, live, socket, pushes, changing>>

RingReceived(f) ==
  /\ fetches[f].stage = "answered"
  /\ ApplySnapshot(fetches[f].value)
  /\ fetches' = [fetches EXCEPT ![f] = NoFetch]
  /\ UNCHANGED <<syncVars, socket, pushes, changing>>

\* Only the failure of the first request takes the page offline.
RingLost(f) ==
  /\ Trouble
  /\ fetches[f].stage \in {"first", "repeated"}
  /\ fetches' = [fetches EXCEPT ![f] = NoFetch]
  /\ IF fetches[f].stage = "first" THEN GoOffline ELSE UNCHANGED <<shown, owners, live>>
  /\ UNCHANGED <<backend, store, refreshes, page, socket, pushes, changing>>

-----------------------------------------------------------------------------
(* The socket.                                                              *)

\* Accepted: the API process sends the ring it has.
SocketOpens ==
  /\ socket = "connecting"
  /\ socket' = "open" /\ pushes' = <<ring>>
  /\ UNCHANGED <<syncVars, shown, owners, live, fetches, changing>>

PushReceived ==
  /\ pushes # <<>>
  /\ ApplySnapshot(Head(pushes))
  /\ pushes' = Tail(pushes)
  /\ UNCHANGED <<syncVars, fetches, socket, changing>>

\* It breaks with an error; nothing reconnects it.
SocketErrs ==
  /\ Trouble
  /\ socket # "closed"
  /\ socket' = "closed" /\ pushes' = <<>>
  /\ GoOffline
  /\ UNCHANGED <<backend, store, refreshes, page, fetches, changing>>

\* It is closed by the other side: no error, and the page stays "Connected".
SocketCloses ==
  /\ Trouble
  /\ socket = "open"
  /\ socket' = "closed" /\ pushes' = <<>>
  /\ UNCHANGED <<backend, store, refreshes, page, shown, owners, live, fetches, changing>>

\* A node is added or removed, by an operation of the Dashboard page or from
\* elsewhere, and _broadcast_ring tells every open socket.  (Bound: only while the
\* page that looks at the ring is mounted.)
RingScaled ==
  /\ page = "ring"
  /\ Scale
  /\ pushes' = IF socket = "open" THEN Append(pushes, ring') ELSE pushes
  /\ Len(pushes) < MaxPushes
  /\ UNCHANGED <<store, refreshes, page, troubles, shown, owners, live, fetches,
                 socket, changing>>

\* isRingChanging, as operationsStore says.
OperationToggles ==
  /\ page = "ring"
  /\ changing' = ~changing
  /\ UNCHANGED <<syncVars, shown, owners, live, fetches, socket, pushes>>

\* A refresh has written the store.
FollowStore ==
  shown' = IF page = "ring" THEN Settled(shown, live, store'.nodes) ELSE shown

FirstFetch(p) ==
  [f \in Fetches |-> IF p = "ring" /\ f = 1 THEN [NoFetch EXCEPT !.stage = "first"] ELSE NoFetch]

\* Mounted, the page starts from the mock of three nodes, asks for the ring and
\* connects; left, it closes the socket.
MountRing ==
  /\ live' = FALSE /\ owners' = 0 /\ pushes' = <<>> /\ changing' = FALSE
  /\ shown' = IF page' = "ring" THEN Settled(MockRing(3), FALSE, store.nodes) ELSE MockRing(3)
  /\ fetches' = FirstFetch(page')
  /\ socket' = IF page' = "ring" THEN "connecting" ELSE "closed"

RingInit ==
  /\ shown = MockRing(3) /\ owners = 0 /\ live = FALSE
  /\ fetches = FirstFetch(page)
  /\ socket = IF page = "ring" THEN "connecting" ELSE "closed"
  /\ pushes = <<>> /\ changing = FALSE

RingStep ==
  \/ RefetchRing \/ SocketOpens \/ PushReceived \/ SocketErrs \/ SocketCloses
  \/ RingScaled \/ OperationToggles
  \/ \E f \in Fetches : RingAnswered(f) \/ RingReceived(f) \/ RingLost(f)

-----------------------------------------------------------------------------
(* Which node owns a key, and what is counted.                              *)

\* Where the backend's hash puts node i, and whom its ring makes the owner of
\* a key: neither has to do with the page, these are examples.
ServedAngle == <<250, 40, 310, 120, 15, 200>>
ServedOwner(k, n) == (k % n) + 1

NodeIds == 1..shown.count
Angle(i) == IF shown.served THEN ServedAngle[i] ELSE (360 \div shown.count) * (i - 1) - 90

\* findOwner: the first node at the key's angle or after it, or the first of all.
FindOwner(k, ids) ==
  LET after == {i \in ids : k <= Angle(i)}
      First(s) == CHOOSE i \in s : \A j \in s : Angle(i) <= Angle(j)
  IN  IF after # {} THEN First(after) ELSE First(ids)

\* resolveOwnerIndex: the owner the backend named, if the ring has its address.
ResolveOwner(k, ids) ==
  LET named == ServedOwner(k, owners)
  IN  IF owners > 0 /\ shown.served /\ named \in ids THEN named ELSE FindOwner(k, ids)

\* Mutant: the keys of a node that is down are not given to another.
AllNodes(down) == NodeIds

\* down: the nodes that ClusterContext has as UNREACHABLE, counted from 0.
AliveNodes(down) == {i \in NodeIds : i - 1 \notin down}

KeyCount(i, down) ==
  IF i - 1 \in down THEN 0
  ELSE Cardinality({k \in Keys : ResolveOwner(k, AliveNodes(down)) = i})

-----------------------------------------------------------------------------
(* Properties.                                                              *)

\* The keys counted at the first n nodes of those shown.
KeyTotal(n, down) ==
  LET Total[m \in 0..n] == IF m = 0 THEN 0 ELSE Total[m - 1] + KeyCount(m, down)
  IN  Total[n]

\* Whatever is down, the counts beside the nodes are a distribution of the
\* keys: each is counted once, the keys of a crashed node at a survivor, also
\* when the named owner is gone or the ring is a mock by now.  The average that
\* Stats takes its deviation from relies on it (Stats, Nodes).
KeysCountedOnce ==
  \A down \in SUBSET {i - 1 : i \in NodeIds} :
    page = "ring" /\ AliveNodes(down) # {} =>
      KeyTotal(shown.count, down) = Cardinality(Keys)

\* Offline, the page draws as many nodes as the store knows, whichever of the
\* two changed last: a refresh landing, the socket breaking, or both.
OfflineFollowsStore ==
  page = "ring" /\ ~live /\ store.nodes > 0 => shown.count = store.nodes
=============================================================================
