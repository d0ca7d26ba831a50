------------------------- MODULE ClusterPagesProofs -------------------------
(***************************************************************************)
(* Theorems about ClusterPages, for every number of refreshes and requests *)
(* in flight, of snapshots, pushes and troubles.                           *)
(***************************************************************************)
EXTENDS ClusterPages, FiniteSetTheorems, WellFoundedInduction, TLAPS

\* The sizes a ring may be said to have; 0 before the first answer.
Sizes == {0} \cup 3..6

\* A refresh's stages, and a request of the Snapshots page.
RefreshStages == {"idle", "sent", "answered", "failed"}
Request == [kind : {"none", "create", "restore", "delete"}, id : Nat,
            stage : {"free", "sent", "done", "missing", "after"}, here : BOOLEAN]

\* A refresh in its slot.
IsRefresh(x) ==
  /\ x = [stage |-> x.stage, nodes |-> x.nodes, list |-> x.list]
  /\ x.stage \in RefreshStages /\ x.nodes \in Sizes

\* The types that the rest needs.
SyncTypes ==
  /\ ring \in 3..6 /\ store.nodes \in Sizes /\ created \in Nat
  /\ DOMAIN refreshes = Refreshes /\ \A f \in Refreshes : IsRefresh(refreshes[f])
\* Those of the Snapshots page.
PageTypes ==
  /\ requests \in [Requests -> Request]
  /\ creating \in BOOLEAN /\ restoring \in Nat /\ deleting \in Nat

\* Who is attended to, by a request of the page that is mounted.
Attended(k, i) == \E r \in Requests :
  requests[r].here /\ requests[r].kind = k /\ (k = "create" \/ requests[r].id = i)

\* The ring that is drawn, and whose owners it shows.
RingShown ==
  /\ shown.count \in 3..6 /\ shown.served \in BOOLEAN
  /\ owners \in Sizes

\* The rings on their way to the page: an answer or an update is never empty.
Fetch == [stage : {"free", "first", "repeated", "answered"}, value : Sizes]
RingComes ==
  /\ fetches \in [Fetches -> Fetch]
  /\ \A f \in Fetches : fetches[f].stage = "answered" => fetches[f].value \in 3..6
  /\ pushes \in Seq(3..6)
RingTypes == RingShown /\ RingComes

\* The inductive invariant.
IInv == SyncTypes /\ PageTypes /\ RingTypes /\ BusyIsAttended /\ OfflineFollowsStore

-----------------------------------------------------------------------------
(* What the operators do.                                                   *)

\* Offline, an effect makes the ring drawn as large as the store's.
LEMMA SettledCount ==
  ASSUME NEW n \in Sizes, NEW s, n > 0
  PROVE  Settled(s, FALSE, n).count = n
  BY DEF Settled, Sizes, MockRing, MockCount

\* A refresh that starts takes a slot and leaves the others.
LEMMA StartType ==
  ASSUME SyncTypes, StartRefresh \/ UNCHANGED refreshes
  PROVE  DOMAIN refreshes' = Refreshes /\ \A f \in Refreshes : IsRefresh(refreshes'[f])
<1>1. IsRefresh(Started)
  <2>1. Started = [stage |-> "sent", nodes |-> 0, list |-> <<>>]
    BY DEF Started, Idle
  <2> QED BY <2>1 DEF IsRefresh, RefreshStages, Sizes
<1> QED BY <1>1 DEF StartRefresh, SyncTypes

\* A snapshot that is created gets the next number.
LEMMA CreatedType ==
  ASSUME SyncTypes, CreateSnapshot
  PROVE  created' \in Nat /\ UNCHANGED ring
  BY DEF CreateSnapshot, SyncTypes

\* A request is sent in a slot that is free: whoever was attended to still is.
LEMMA SendBusy ==
  ASSUME PageTypes, NEW k \in {"create", "restore", "delete"}, NEW i \in Nat, Send(k, i)
  PROVE  /\ requests' \in [Requests -> Request]
         /\ Attended(k, i)'
         /\ \A other, j : other # "none" /\ Attended(other, j) => Attended(other, j)'
<1> DEFINE new == [kind |-> k, id |-> i, stage |-> "sent", here |-> TRUE]
<1>1. PICK r \in Requests : requests[r] = Free /\ requests' = [requests EXCEPT ![r] = new]
  BY DEF Send
<1>2. new \in Request
  BY DEF Request
<1>3. requests' \in [Requests -> Request]
  BY <1>1, <1>2 DEF PageTypes
<1>4. requests'[r] = new /\ \A q \in Requests : q # r => requests'[q] = requests[q]
  BY <1>1 DEF PageTypes
<1>5. Attended(k, i)'
  BY <1>4 DEF Attended
<1>6. requests[r].kind = "none"
  BY <1>1 DEF Free
<1>7. ASSUME NEW other, NEW j, other # "none", Attended(other, j)
      PROVE  Attended(other, j)'
  BY <1>4, <1>6, <1>7 DEF Attended
<1> QED BY <1>3, <1>5, <1>7

\* A request that moves on attends to what it attended to.
LEMMA AdvanceBusy ==
  ASSUME PageTypes, NEW r \in Requests,
         NEW stage \in {"free", "sent", "done", "missing", "after"}, Advance(r, stage)
  PROVE  /\ requests' \in [Requests -> Request]
         /\ \A k, j : Attended(k, j) => Attended(k, j)'
<1>1. requests' = [requests EXCEPT ![r] = [requests[r] EXCEPT !.stage = stage]]
  BY DEF Advance
<1>2. requests[r] \in Request
  BY DEF PageTypes
<1>3. /\ [requests[r] EXCEPT !.stage = stage] \in Request
      /\ [requests[r] EXCEPT !.stage = stage].kind = requests[r].kind
      /\ [requests[r] EXCEPT !.stage = stage].id = requests[r].id
      /\ [requests[r] EXCEPT !.stage = stage].here = requests[r].here
  BY <1>2 DEF Request
<1>4. requests' \in [Requests -> Request]
  BY <1>1, <1>3 DEF PageTypes
<1>5. \A q \in Requests : /\ requests'[q].kind = requests[q].kind
                          /\ requests'[q].id = requests[q].id
                          /\ requests'[q].here = requests[q].here
  BY <1>1, <1>3 DEF PageTypes
<1> QED BY <1>4, <1>5 DEF Attended

\* A request that ends leaves what others attend to.
LEMMA DropBusy ==
  ASSUME PageTypes, NEW r \in Requests, Drop(r)
  PROVE  /\ requests' \in [Requests -> Request]
         /\ \A k, j : Attended(k, j) =>
              Attended(k, j)' \/ (requests[r].here /\ requests[r].kind = k)
<1>1. Free \in Request
  BY DEF Free, Request
<1>2. requests' \in [Requests -> Request]
  BY <1>1 DEF Drop, PageTypes
<1>3. \A q \in Requests : q # r => requests'[q] = requests[q]
  BY DEF Drop, PageTypes
<1> QED BY <1>2, <1>3 DEF Attended

\* What is to be shown of a step.
LEMMA BusyFrom ==
  ASSUME /\ creating' => Attended("create", 0)'
         /\ restoring' # 0 => Attended("restore", restoring)'
         /\ deleting' # 0 => Attended("delete", deleting)'
  PROVE  BusyIsAttended'
  BY DEF BusyIsAttended, Attended

\* BusyIsAttended, by the name given above to its part.
LEMMA BusyMeans ==
  ASSUME BusyIsAttended
  PROVE  /\ creating => Attended("create", 0)
         /\ restoring # 0 => Attended("restore", restoring)
         /\ deleting # 0 => Attended("delete", deleting)
  BY DEF BusyIsAttended, Attended

\* The state of the page's actions is left by a step that is not about them.
LEMMA QuietBusy ==
  ASSUME PageTypes, BusyIsAttended, UNCHANGED <<creating, restoring, deleting, requests>>
  PROVE  PageTypes' /\ BusyIsAttended'
  BY DEF PageTypes, BusyIsAttended

-----------------------------------------------------------------------------
(* Types of the store, the backend and the refreshes.                       *)

\* A refresh that is answered, or is not, stays a refresh.
LEMMA RefreshStepTypes ==
  ASSUME SyncTypes, NEW f \in Refreshes, RefreshStep(f)
  PROVE  SyncTypes'
<1>1. CASE Answer(f)
  <2> DEFINE new == [stage |-> "answered", nodes |-> ring, list |-> snaps]
  <2>1. refreshes' = [refreshes EXCEPT ![f] = new]
        /\ UNCHANGED <<ring, store, created>>
    BY <1>1 DEF Answer, backend
  <2>2. IsRefresh(new)
    BY DEF IsRefresh, RefreshStages, Sizes, SyncTypes
  <2> HIDE DEF new
  <2> QED BY <2>1, <2>2 DEF SyncTypes
<1>2. CASE NoAnswer(f)
  <2> DEFINE new == [refreshes[f] EXCEPT !.stage = "failed"]
  <2>1. refreshes' = [refreshes EXCEPT ![f] = new]
        /\ UNCHANGED <<ring, store, created>>
    BY <1>2 DEF NoAnswer, backend
  <2>2. IsRefresh(refreshes[f])
    BY DEF SyncTypes
  <2>3. new = [stage |-> "failed", nodes |-> refreshes[f].nodes, list |-> refreshes[f].list]
    BY <2>2 DEF IsRefresh
  <2>4. IsRefresh(new)
    BY <2>2, <2>3 DEF IsRefresh, RefreshStages
  <2> HIDE DEF new
  <2> QED BY <2>1, <2>4 DEF SyncTypes
<1> QED BY <1>1, <1>2 DEF RefreshStep

\* One that lands writes a size to the store, or leaves it.
LEMMA LandTypes ==
  ASSUME SyncTypes, NEW f \in Refreshes, LandRefresh(f)
  PROVE  SyncTypes'
<1>1. IsRefresh(Idle)
  BY DEF IsRefresh, Idle, RefreshStages, Sizes
<1>2. /\ refreshes' = [refreshes EXCEPT ![f] = Idle] /\ UNCHANGED <<ring, created>>
      /\ store' = IF Brought(f) THEN [nodes |-> refreshes[f].nodes, list |-> refreshes[f].list]
                  ELSE store
  BY DEF LandRefresh, Land, backend
<1>3. IsRefresh(refreshes[f])
  BY DEF SyncTypes
<1>4. store'.nodes \in Sizes
  BY <1>2, <1>3 DEF IsRefresh, SyncTypes
<1> QED BY <1>1, <1>2, <1>4 DEF SyncTypes

\* Every step keeps the types.
LEMMA SyncStep ==
  ASSUME SyncTypes, [Next]_vars
  PROVE  SyncTypes'
<1>1. ASSUME UNCHANGED <<ring, store, created>>, StartRefresh \/ UNCHANGED refreshes
      PROVE  SyncTypes'
  BY <1>1, StartType DEF SyncTypes
<1>2. ASSUME UNCHANGED store, CreateSnapshot, StartRefresh \/ UNCHANGED refreshes
      PROVE  SyncTypes'
  BY <1>2, StartType, CreatedType DEF SyncTypes
<1>3. CASE PollStep
  BY <1>1, <1>3 DEF PollStep, Poll, backend
<1>4. ASSUME NEW f \in Refreshes, RefreshStep(f) \/ LandRefresh(f) PROVE SyncTypes'
  BY <1>4, RefreshStepTypes, LandTypes
<1>5. ASSUME NEW p \in Pages, Navigate(p) PROVE SyncTypes'
  BY <1>1, <1>5 DEF Navigate, Visit, backend
<1>6. CASE SnapClick
  BY <1>1, <1>6 DEF SnapClick, Create, Restore, Delete, syncVars
<1>7. CASE CopyCreated
  BY <1>2, <1>7 DEF CopyCreated, TriggerRefresh
<1>8. ASSUME NEW r \in Requests, RequestLost(r) PROVE SyncTypes'
  BY <1>1, <1>8 DEF RequestLost, backend
<1>9. ASSUME NEW r \in Requests, SnapRequestStep(r) PROVE SyncTypes'
  <2>1. CASE CreateHandled(r)
    BY <1>2, <2>1 DEF CreateHandled
  <2>2. CASE \/ CreateAnswered(r) \/ RestoreHandled(r) \/ RestoreAnswered(r)
             \/ RestoreShown(r) \/ RequestFailed(r)
    BY <1>1, <2>2 DEF CreateAnswered, RestoreHandled, RestoreAnswered, RestoreShown,
         RequestFailed, syncVars
  <2>3. CASE CreateShown(r) \/ DeleteAnswered(r)
    BY <1>1, <2>3 DEF CreateShown, DeleteAnswered, TriggerRefresh, backend
  <2>4. CASE DeleteHandled(r)
    BY <1>1, <2>4 DEF DeleteHandled, DeleteSnapshot
  <2> QED BY <1>9, <2>1, <2>2, <2>3, <2>4 DEF SnapRequestStep
<1>10. CASE RingScaled
  <2>1. ring' \in 3..6 /\ UNCHANGED <<store, created, refreshes>>
    BY <1>10 DEF RingScaled, Scale, SyncTypes
  <2> QED BY <2>1 DEF SyncTypes
<1>11. CASE RefetchRing \/ SocketOpens \/ PushReceived \/ OperationToggles
  BY <1>1, <1>11 DEF RefetchRing, SocketOpens, PushReceived, OperationToggles, syncVars
<1>12. CASE SocketErrs \/ SocketCloses
  BY <1>1, <1>12 DEF SocketErrs, SocketCloses, backend
<1>13. ASSUME NEW f \in Fetches, RingAnswered(f) \/ RingReceived(f) \/ RingLost(f)
       PROVE  SyncTypes'
  BY <1>1, <1>13 DEF RingAnswered, RingReceived, RingLost, backend, syncVars
<1>14. CASE UNCHANGED vars
  BY <1>1, <1>14 DEF vars, syncVars
<1> QED BY <1>3, <1>4, <1>5, <1>6, <1>7, <1>8, <1>9, <1>10, <1>11, <1>12, <1>13, <1>14
     DEF Next, SnapStep, RingStep

-----------------------------------------------------------------------------
(* The page that is busy.                                                   *)

\* A click shows what it has just sent.
LEMMA ClickBusy ==
  ASSUME PageTypes, BusyIsAttended, SnapClick
  PROVE  PageTypes' /\ BusyIsAttended'
<1>1. CASE Create
  <2>1. Send("create", 0) /\ creating' = TRUE /\ UNCHANGED <<restoring, deleting>>
    BY <1>1 DEF Create
  <2>2. /\ requests' \in [Requests -> Request] /\ Attended("create", 0)'
        /\ \A k, j : k # "none" /\ Attended(k, j) => Attended(k, j)'
    BY <2>1, SendBusy
  <2> QED BY <2>1, <2>2, BusyMeans, BusyFrom DEF PageTypes
<1>2. ASSUME NEW i \in SnapIds, Restore(i) PROVE PageTypes' /\ BusyIsAttended'
  <2>1. /\ Send("restore", i) /\ restoring' = i /\ UNCHANGED <<creating, deleting>> /\ i \in Nat
    BY <1>2 DEF Restore, SnapIds
  <2>2. /\ requests' \in [Requests -> Request] /\ Attended("restore", i)'
        /\ \A k, j : k # "none" /\ Attended(k, j) => Attended(k, j)'
    BY <2>1, SendBusy
  <2> QED BY <2>1, <2>2, BusyMeans, BusyFrom DEF PageTypes
<1>3. ASSUME NEW i \in SnapIds, Delete(i) PROVE PageTypes' /\ BusyIsAttended'
  <2>1. /\ Send("delete", i) /\ deleting' = i /\ UNCHANGED <<creating, restoring>> /\ i \in Nat
    BY <1>3 DEF Delete, SnapIds
  <2>2. /\ requests' \in [Requests -> Request] /\ Attended("delete", i)'
        /\ \A k, j : k # "none" /\ Attended(k, j) => Attended(k, j)'
    BY <2>1, SendBusy
  <2> QED BY <2>1, <2>2, BusyMeans, BusyFrom DEF PageTypes
<1> QED BY <1>1, <1>2, <1>3 DEF SnapClick

\* A request that moves on is still the one that is waited for.
LEMMA MoveBusy ==
  ASSUME PageTypes, BusyIsAttended, UNCHANGED <<creating, restoring, deleting>>,
         NEW r \in Requests,
         NEW stage \in {"free", "sent", "done", "missing", "after"}, Advance(r, stage)
  PROVE  PageTypes' /\ BusyIsAttended'
<1>1. /\ requests' \in [Requests -> Request]
      /\ \A k, j : Attended(k, j) => Attended(k, j)'
  BY AdvanceBusy
<1> QED BY <1>1, BusyMeans, BusyFrom DEF PageTypes

\* The creation that the backend has handled learns its number.
LEMMA HandledBusy ==
  ASSUME SyncTypes, PageTypes, BusyIsAttended, NEW r \in Requests, CreateHandled(r)
  PROVE  PageTypes' /\ BusyIsAttended'
<1> DEFINE new == [requests[r] EXCEPT !.stage = "done", !.id = created + 1]
<1>1. requests' = [requests EXCEPT ![r] = new] /\ UNCHANGED <<creating, restoring, deleting>>
  BY DEF CreateHandled, pageVars
<1>2. requests[r] \in Request /\ requests[r].kind = "create" /\ created \in Nat
  BY DEF PageTypes, SyncTypes, CreateHandled, IsAt
<1>3. new \in Request /\ new.kind = "create" /\ new.here = requests[r].here
  <2>1. created + 1 \in Nat
    BY <1>2
  <2> QED BY <1>2, <2>1 DEF Request
<1> HIDE DEF new
<1>4. requests' \in [Requests -> Request]
  BY <1>1, <1>3 DEF PageTypes
<1>5. requests'[r] = new /\ \A q \in Requests : q # r => requests'[q] = requests[q]
  BY <1>1 DEF PageTypes
<1>6. \A k, j : Attended(k, j) => Attended(k, j)'
  BY <1>2, <1>3, <1>5 DEF Attended
<1> QED BY <1>1, <1>4, <1>6, BusyMeans, BusyFrom DEF PageTypes

\* What a request of the mounted page ends, it no longer shows; the request of a
\* page that was left attended to nothing.
LEMMA EndBusy ==
  ASSUME PageTypes, BusyIsAttended, NEW r \in Requests, Drop(r),
         creating' = creating \/ (creating' = FALSE),
         restoring' = restoring \/ restoring' = 0,
         deleting' = deleting \/ deleting' = 0,
         requests[r].here =>
           /\ requests[r].kind = "create" => creating' = FALSE
           /\ requests[r].kind = "restore" => restoring' = 0
           /\ requests[r].kind = "delete" => deleting' = 0
  PROVE  PageTypes' /\ BusyIsAttended'
<1>1. /\ requests' \in [Requests -> Request]
      /\ \A k, j : Attended(k, j) =>
           Attended(k, j)' \/ (requests[r].here /\ requests[r].kind = k)
  BY DropBusy
<1>2. creating' => Attended("create", 0)'
  BY <1>1, BusyMeans
<1>3. restoring' # 0 => Attended("restore", restoring)'
  BY <1>1, BusyMeans
<1>4. deleting' # 0 => Attended("delete", deleting)'
  BY <1>1, BusyMeans
<1>5. creating' \in BOOLEAN
  BY Zenon DEF PageTypes
<1>6. PageTypes'
  BY <1>1, <1>5 DEF PageTypes
<1> QED BY <1>2, <1>3, <1>4, <1>6, BusyFrom

\* Mounted or left, the page shows nothing in progress.
LEMMA MountBusy ==
  ASSUME PageTypes, MountSnapshots
  PROVE  PageTypes' /\ BusyIsAttended'
<1>1. Free \in Request
  BY DEF Free, Request
<1>2. \A r \in Requests : /\ requests[r] \in Request
                           /\ [requests[r] EXCEPT !.here = FALSE] \in Request
  BY DEF PageTypes, Request
<1>3. requests' \in [Requests -> Request]
  BY <1>1, <1>2 DEF MountSnapshots
<1>4. creating' = FALSE /\ restoring' = 0 /\ deleting' = 0
  BY DEF MountSnapshots
<1> QED BY <1>3, <1>4, BusyFrom DEF PageTypes

\* Every step of Next keeps what is shown in progress attended to.
LEMMA BusyStep ==
  ASSUME SyncTypes, PageTypes, BusyIsAttended, [Next]_vars
  PROVE  PageTypes' /\ BusyIsAttended'
<1> DEFINE Goal == PageTypes' /\ BusyIsAttended'
<1>1. ASSUME UNCHANGED <<creating, restoring, deleting, requests>> PROVE Goal
  BY <1>1, QuietBusy
<1>2. ASSUME PollStep PROVE Goal
  BY <1>1, <1>2 DEF PollStep, snapVars
<1>3. ASSUME NEW f \in Refreshes, RefreshStep(f) \/ LandRefresh(f) PROVE Goal
  BY <1>1, <1>3 DEF RefreshStep, LandRefresh, snapVars
<1>4. ASSUME NEW p \in Pages, Navigate(p) PROVE Goal
  BY <1>4, MountBusy DEF Navigate
<1>5. ASSUME SnapClick PROVE Goal
  BY <1>5, ClickBusy
<1>6. ASSUME CopyCreated PROVE Goal
  BY <1>1, <1>6 DEF CopyCreated, pageVars
<1>7. ASSUME NEW r \in Requests, RequestLost(r) PROVE Goal
  BY <1>7, MoveBusy DEF RequestLost, pageVars
<1>8. ASSUME NEW r \in Requests, SnapRequestStep(r) PROVE Goal
  <2>1. CASE CreateHandled(r)
    BY <2>1, HandledBusy
  <2>2. CASE CreateAnswered(r) \/ RestoreHandled(r) \/ RestoreAnswered(r) \/ DeleteHandled(r)
    <3>1. UNCHANGED <<creating, restoring, deleting>>
      BY <2>2 DEF CreateAnswered, RestoreHandled, RestoreAnswered, DeleteHandled, pageVars
    <3>2. \E stage \in {"done", "missing", "after"} : Advance(r, stage)
      BY <2>2 DEF CreateAnswered, RestoreHandled, RestoreAnswered, DeleteHandled
    <3> QED BY <3>1, <3>2, MoveBusy
  <2>3. CASE CreateShown(r)
    BY <2>3, EndBusy DEF CreateShown, Sets, IsAt
  <2>4. CASE RestoreShown(r)
    BY <2>4, EndBusy DEF RestoreShown, Sets, IsAt
  <2>5. CASE DeleteAnswered(r)
    BY <2>5, EndBusy DEF DeleteAnswered, Sets, IsAt
  <2>6. CASE RequestFailed(r)
    <3>1. /\ Drop(r) /\ creating' = Sets(r, creating /\ requests[r].kind # "create", creating)
          /\ restoring' =
               Sets(r, IF requests[r].kind = "restore" THEN 0 ELSE restoring, restoring)
          /\ deleting' = Sets(r, IF requests[r].kind = "delete" THEN 0 ELSE deleting, deleting)
      BY <2>6 DEF RequestFailed
    <3>2. /\ creating' = creating \/ creating' = FALSE
          /\ requests[r].here /\ requests[r].kind = "create" => creating' = FALSE
      BY <3>1 DEF Sets, PageTypes
    <3>3. /\ restoring' = restoring \/ restoring' = 0
          /\ deleting' = deleting \/ deleting' = 0
          /\ requests[r].here /\ requests[r].kind = "restore" => restoring' = 0
          /\ requests[r].here /\ requests[r].kind = "delete" => deleting' = 0
      BY <3>1 DEF Sets
    <3> QED BY <3>1, <3>2, <3>3, EndBusy
  <2> QED BY <1>8, <2>1, <2>2, <2>3, <2>4, <2>5, <2>6 DEF SnapRequestStep
<1>9. ASSUME UNCHANGED snapVars PROVE Goal
  BY <1>1, <1>9 DEF snapVars
<1>10. ASSUME UNCHANGED vars PROVE Goal
  BY <1>9, <1>10 DEF vars
<1> HIDE DEF Goal
<1>11. Goal
  BY <1>2, <1>3, <1>4, <1>5, <1>6, <1>7, <1>8, <1>9, <1>10 DEF Next, SnapStep
<1> QED BY <1>11 DEF Goal

-----------------------------------------------------------------------------
(* The ring that is drawn offline.                                          *)

\* An answer or an update of the backend ends being offline.
LEMMA OnlineStep ==
  ASSUME NEW n, ApplySnapshot(n)
  PROVE  OfflineFollowsStore'
  BY DEF ApplySnapshot, OfflineFollowsStore

\* Going offline runs the effect.
LEMMA OfflineStep ==
  ASSUME SyncTypes, GoOffline, UNCHANGED store
  PROVE  OfflineFollowsStore'
  BY SettledCount DEF GoOffline, SyncTypes, OfflineFollowsStore

\* So does a store with another count.
LEMMA LandStep ==
  ASSUME SyncTypes', OfflineFollowsStore, NEW f \in Refreshes, LandRefresh(f)
  PROVE  OfflineFollowsStore'
<1> SUFFICES ASSUME page' = "ring", ~live', store'.nodes > 0
             PROVE  shown'.count = store'.nodes
  BY DEF OfflineFollowsStore
<1>1. shown' = Settled(shown, live, store'.nodes) /\ ~live
  BY DEF LandRefresh, FollowStore, Land
<1>2. Settled(shown, live, store'.nodes) = Settled(shown, FALSE, store'.nodes)
  BY <1>1 DEF Settled
<1>3. store'.nodes \in Sizes
  BY DEF SyncTypes
<1> QED BY <1>1, <1>2, <1>3, SettledCount

\* Every step of Next keeps the ring drawn offline of the store's size.
LEMMA RingInv ==
  ASSUME SyncTypes, SyncTypes', OfflineFollowsStore, [Next]_vars
  PROVE  OfflineFollowsStore'
<1>1. ASSUME UNCHANGED <<page, live, store, shown>> PROVE OfflineFollowsStore'
  BY <1>1 DEF OfflineFollowsStore
<1>2. CASE PollStep
  BY <1>1, <1>2 DEF PollStep, Poll, ringVars
<1>3. ASSUME NEW f \in Refreshes, RefreshStep(f) PROVE OfflineFollowsStore'
  BY <1>1, <1>3 DEF RefreshStep, Answer, NoAnswer, ringVars
<1>4. ASSUME NEW f \in Refreshes, LandRefresh(f) PROVE OfflineFollowsStore'
  BY <1>4, LandStep
<1>5. ASSUME NEW p \in Pages, Navigate(p) PROVE OfflineFollowsStore'
  BY <1>5, SettledCount DEF Navigate, Visit, MountRing, SyncTypes, OfflineFollowsStore
<1>6. ASSUME SnapStep, UNCHANGED ringVars PROVE OfflineFollowsStore'
  <2>1. UNCHANGED <<page, store>>
    <3>1. CASE SnapClick
      BY <3>1 DEF SnapClick, Create, Restore, Delete, syncVars
    <3>2. CASE CopyCreated
      BY <3>2 DEF CopyCreated
    <3>3. ASSUME NEW r \in Requests, RequestLost(r) PROVE UNCHANGED <<page, store>>
      BY <3>3 DEF RequestLost
    <3>4. ASSUME NEW r \in Requests, SnapRequestStep(r) PROVE UNCHANGED <<page, store>>
      BY <3>4 DEF SnapRequestStep, CreateHandled, CreateAnswered, CreateShown, RestoreHandled,
           RestoreAnswered, RestoreShown, DeleteHandled, DeleteAnswered, RequestFailed, syncVars
    <3> QED BY <1>6, <3>1, <3>2, <3>3, <3>4 DEF SnapStep
  <2> QED BY <1>1, <1>6, <2>1 DEF ringVars
<1>7. CASE RefetchRing \/ SocketOpens \/ OperationToggles \/ SocketCloses \/ RingScaled
  BY <1>1, <1>7 DEF RefetchRing, SocketOpens, OperationToggles, SocketCloses, RingScaled,
       syncVars
<1>8. CASE PushReceived
  BY <1>8, OnlineStep DEF PushReceived
<1>9. CASE SocketErrs
  BY <1>9, OfflineStep DEF SocketErrs
<1>10. ASSUME NEW f \in Fetches, RingAnswered(f) \/ RingReceived(f) \/ RingLost(f)
       PROVE  OfflineFollowsStore'
  <2>1. CASE RingAnswered(f)
    BY <1>1, <2>1 DEF RingAnswered, syncVars
  <2>2. CASE RingReceived(f)
    BY <2>2, OnlineStep DEF RingReceived
  <2>3. CASE RingLost(f)
    <3>1. GoOffline \/ UNCHANGED <<shown, live>>
      BY <2>3 DEF RingLost
    <3>2. UNCHANGED <<page, store>>
      BY <2>3 DEF RingLost
    <3> QED BY <1>1, <3>1, <3>2, OfflineStep
  <2> QED BY <1>10, <2>1, <2>2, <2>3
<1>11. CASE UNCHANGED vars
  BY <1>1, <1>11 DEF vars, syncVars, ringVars
<1> QED BY <1>2, <1>3, <1>4, <1>5, <1>6, <1>7, <1>8, <1>9, <1>10, <1>11 DEF Next, RingStep

-----------------------------------------------------------------------------
(* The ring that is drawn, and those on their way to the page.              *)

\* What an effect draws is a ring.
LEMMA SettledRing ==
  ASSUME NEW s, s.count \in 3..6, s.served \in BOOLEAN, NEW isLive, NEW n \in Sizes
  PROVE  Settled(s, isLive, n).count \in 3..6 /\ Settled(s, isLive, n).served \in BOOLEAN
<1>1. Settled(s, isLive, n) = s \/ (n > 0 /\ Settled(s, isLive, n) = MockRing(MockCount(n)))
  BY Zenon DEF Settled
<1>2. n > 0 => MockCount(n) \in 3..6
  BY DEF Sizes, MockCount
<1>3. MockRing(MockCount(n)).count = MockCount(n) /\ MockRing(MockCount(n)).served = FALSE
  BY DEF MockRing
<1> QED BY <1>1, <1>2, <1>3

\* So is what the backend sends, and owners are named for that ring.
LEMMA AppliedRing ==
  ASSUME NEW n \in 3..6, ApplySnapshot(n)
  PROVE  RingShown'
  BY DEF ApplySnapshot, RingShown, Sizes

\* So is what is drawn when the page goes offline.
LEMMA OfflineRing ==
  ASSUME SyncTypes, RingShown, GoOffline
  PROVE  RingShown'
<1>1. /\ Settled(shown, FALSE, store.nodes).count \in 3..6
      /\ Settled(shown, FALSE, store.nodes).served \in BOOLEAN
  BY SettledRing DEF SyncTypes, RingShown
<1> QED BY <1>1 DEF GoOffline, RingShown

\* The page that is opened asks for the ring and has no other yet.
LEMMA FirstFetchType ==
  ASSUME NEW p
  PROVE  /\ FirstFetch(p) \in [Fetches -> Fetch]
         /\ \A f \in Fetches : FirstFetch(p)[f].stage # "answered"
<1>1. [NoFetch EXCEPT !.stage = "first"] = [stage |-> "first", value |-> 0]
  BY DEF NoFetch
<1>2. \A f \in Fetches : FirstFetch(p)[f] \in {NoFetch, [stage |-> "first", value |-> 0]}
  BY <1>1 DEF FirstFetch
<1>3. NoFetch \in Fetch /\ [stage |-> "first", value |-> 0] \in Fetch
  BY DEF NoFetch, Fetch, Sizes
<1>4. DOMAIN FirstFetch(p) = Fetches
  BY DEF FirstFetch
<1>5. FirstFetch(p) = [f \in Fetches |-> FirstFetch(p)[f]]
  BY DEF FirstFetch
<1>6. FirstFetch(p) \in [Fetches -> Fetch]
  BY <1>2, <1>3, <1>5
<1> QED BY <1>2, <1>6 DEF NoFetch

\* Every step of Next keeps what is drawn a ring.
LEMMA RingStepTypes ==
  ASSUME SyncTypes, RingTypes, [Next]_vars
  PROVE  RingTypes'
<1> USE DEF RingTypes
<1>1. ASSUME UNCHANGED <<shown, owners>> PROVE RingShown'
  BY <1>1 DEF RingShown
<1>2. ASSUME UNCHANGED <<fetches, pushes>> PROVE RingComes'
  BY <1>2 DEF RingComes
<1>3. ASSUME NEW f \in Fetches, NEW x \in Fetch, x.stage = "answered" => x.value \in 3..6,
             fetches' = [fetches EXCEPT ![f] = x], UNCHANGED pushes
      PROVE  RingComes'
  <2>1. fetches' \in [Fetches -> Fetch]
    BY <1>3 DEF RingComes
  <2>2. \A g \in Fetches : fetches'[g] = IF g = f THEN x ELSE fetches[g]
    BY <1>3 DEF RingComes
  <2> QED BY <1>3, <2>1, <2>2 DEF RingComes
<1>4. NoFetch \in Fetch /\ NoFetch.stage # "answered"
  BY DEF NoFetch, Fetch, Sizes
<1>5. CASE PollStep
  BY <1>1, <1>2, <1>5 DEF PollStep, ringVars
<1>6. ASSUME NEW f \in Refreshes, RefreshStep(f) PROVE RingTypes'
  BY <1>1, <1>2, <1>6 DEF RefreshStep, ringVars
<1>7. ASSUME NEW f \in Refreshes, LandRefresh(f) PROVE RingTypes'
  <2>1. store'.nodes \in Sizes
    BY <1>7, LandTypes DEF SyncTypes
  <2>2. UNCHANGED owners /\ shown' \in {shown, Settled(shown, live, store'.nodes)}
    BY <1>7 DEF LandRefresh, FollowStore
  <2>3. /\ Settled(shown, live, store'.nodes).count \in 3..6
        /\ Settled(shown, live, store'.nodes).served \in BOOLEAN
    BY <2>1, SettledRing DEF RingShown
  <2>4. RingShown'
    BY <2>2, <2>3 DEF RingShown
  <2> QED BY <1>2, <1>7, <2>4 DEF LandRefresh
<1>8. ASSUME NEW p \in Pages, Navigate(p) PROVE RingTypes'
  <2>1. UNCHANGED store /\ MountRing
    BY <1>8 DEF Navigate, Visit
  <2>2. MockRing(3).count \in 3..6 /\ MockRing(3).served \in BOOLEAN
    BY DEF MockRing
  <2>3. /\ Settled(MockRing(3), FALSE, store.nodes).count \in 3..6
        /\ Settled(MockRing(3), FALSE, store.nodes).served \in BOOLEAN
    BY <2>2, SettledRing DEF SyncTypes
  <2>4. RingShown'
    BY <2>1, <2>2, <2>3 DEF MountRing, RingShown, Sizes
  <2>5. RingComes'
    BY <2>1, FirstFetchType DEF MountRing, RingComes
  <2> QED BY <2>4, <2>5
<1>9. ASSUME UNCHANGED ringVars PROVE RingTypes'
  BY <1>1, <1>2, <1>9 DEF ringVars
<1>10. CASE RefetchRing
  <2>1. PICK f \in Fetches :
          fetches[f] = NoFetch /\ fetches' = [fetches EXCEPT ![f].stage = "repeated"]
    BY <1>10 DEF RefetchRing
  <2>2. [fetches[f] EXCEPT !.stage = "repeated"] = [stage |-> "repeated", value |-> 0]
    BY <2>1 DEF NoFetch
  <2>3. fetches' = [fetches EXCEPT ![f] = [stage |-> "repeated", value |-> 0]]
    BY <2>1, <2>2
  <2>4. [stage |-> "repeated", value |-> 0] \in Fetch
    BY DEF Fetch, Sizes
  <2> QED BY <1>1, <1>3, <1>10, <2>3, <2>4 DEF RefetchRing
<1>11. CASE SocketOpens
  <2>1. RingComes'
    BY <1>11 DEF SocketOpens, RingComes, SyncTypes
  <2> QED BY <1>1, <1>11, <2>1 DEF SocketOpens
<1>12. CASE PushReceived
  <2>1. Head(pushes) \in 3..6 /\ Tail(pushes) \in Seq(3..6)
    BY <1>12 DEF PushReceived, RingComes
  <2>2. RingShown'
    BY <1>12, <2>1, AppliedRing DEF PushReceived
  <2>3. RingComes'
    BY <1>12, <2>1 DEF PushReceived, RingComes
  <2> QED BY <2>2, <2>3
<1>13. CASE SocketErrs \/ SocketCloses
  <2>1. pushes' = <<>> /\ UNCHANGED fetches
    BY <1>13 DEF SocketErrs, SocketCloses
  <2>2. RingComes'
    BY <2>1 DEF RingComes
  <2> QED BY <1>1, <1>13, <2>2, OfflineRing DEF SocketErrs, SocketCloses
<1>14. CASE RingScaled
  <2>1. ring' \in 3..6
    BY <1>14 DEF RingScaled, Scale, SyncTypes
  <2>2. pushes' \in Seq(3..6)
    BY <1>14, <2>1 DEF RingScaled, RingComes
  <2>3. RingComes'
    BY <1>14, <2>2 DEF RingScaled, RingComes
  <2> QED BY <1>1, <1>14, <2>3 DEF RingScaled
<1>15. CASE OperationToggles
  BY <1>1, <1>2, <1>15 DEF OperationToggles
<1>16. ASSUME NEW f \in Fetches, RingAnswered(f) PROVE RingTypes'
  <2>1. [stage |-> "answered", value |-> ring] \in Fetch /\ ring \in 3..6
    BY DEF Fetch, Sizes, SyncTypes
  <2> QED BY <1>1, <1>3, <1>16, <2>1 DEF RingAnswered
<1>17. ASSUME NEW f \in Fetches, RingReceived(f) PROVE RingTypes'
  <2>1. fetches[f].value \in 3..6
    BY <1>17 DEF RingReceived, RingComes
  <2> QED BY <1>3, <1>4, <1>17, <2>1, AppliedRing DEF RingReceived
<1>18. ASSUME NEW f \in Fetches, RingLost(f) PROVE RingTypes'
  <2>1. GoOffline \/ UNCHANGED <<shown, owners>>
    BY <1>18 DEF RingLost
  <2> QED BY <1>1, <1>3, <1>4, <1>18, <2>1, OfflineRing DEF RingLost
<1> QED BY <1>5, <1>6, <1>7, <1>8, <1>9, <1>10, <1>11, <1>12, <1>13, <1>14, <1>15, <1>16,
     <1>17, <1>18 DEF Next, RingStep, vars

-----------------------------------------------------------------------------
(* What the ring page counts.                                               *)

\* A nonempty set of naturals has a least element.
LEMMA Least ==
  ASSUME NEW B, B \subseteq Nat, B # {}
  PROVE  \E m \in B : \A k \in B : m <= k
<1> DEFINE R == {p \in Nat \X Nat : p[1] < p[2]}
<1>1. IsWellFoundedOn(R, Nat)
  BY NatLessThanWellFounded DEF OpToRel
<1>2. PICK m \in B : \A k \in B : <<k, m>> \notin R
  <2> HIDE DEF R
  <2> QED BY <1>1, WFMin
<1>3. ASSUME NEW k \in B PROVE m <= k
  <2>1. m \in Nat /\ k \in Nat /\ <<k, m>> \notin R
    BY <1>2, <1>3
  <2> QED BY <2>1
<1> QED BY <1>3

\* Every node stands at some angle.
LEMMA AngleType ==
  ASSUME RingShown, NEW i \in NodeIds
  PROVE  Angle(i) \in Int /\ Angle(i) + 90 \in Nat
<1>1. shown.count \in {3, 4, 5, 6} /\ i \in {1, 2, 3, 4, 5, 6}
  BY DEF RingShown, NodeIds
<1>2. ServedAngle[i] \in 0..360
  BY <1>1 DEF ServedAngle
<1>3. 360 \div shown.count \in {120, 90, 72, 60}
  BY <1>1
<1>4. (360 \div shown.count) * (i - 1) \in Nat
  BY <1>1, <1>3
<1> QED BY <1>2, <1>4 DEF Angle

\* Of some nodes one stands first.
LEMMA FirstNode ==
  ASSUME RingShown, NEW s, s \subseteq NodeIds, s # {}
  PROVE  \E i \in s : \A j \in s : Angle(i) <= Angle(j)
<1> DEFINE At(i) == Angle(i) + 90
           B == {At(i) : i \in s}
<1>1. \A i \in s : Angle(i) \in Int /\ At(i) \in Nat
  BY AngleType
<1>2. B \subseteq Nat /\ B # {}
  BY <1>1
<1>3. PICK m \in B : \A k \in B : m <= k
  <2> HIDE DEF B
  <2> QED BY <1>2, Least
<1>4. PICK i \in s : m = At(i)
  OBVIOUS
<1>5. ASSUME NEW j \in s PROVE Angle(i) <= Angle(j)
  <2>1. At(i) <= At(j)
    BY <1>3, <1>4
  <2> QED BY <1>1, <2>1
<1> QED BY <1>5

\* Whatever the key, its owner is one of the nodes that are offered.
LEMMA OwnerAmong ==
  ASSUME RingShown, NEW ids, ids \subseteq NodeIds, ids # {}, NEW k
  PROVE  ResolveOwner(k, ids) \in ids
<1> DEFINE after == {i \in ids : k <= Angle(i)}
           First(s) == CHOOSE i \in s : \A j \in s : Angle(i) <= Angle(j)
<1>1. ASSUME NEW s, s \subseteq ids, s # {} PROVE First(s) \in ids
  BY <1>1, FirstNode
<1>2. First(ids) \in ids
  BY <1>1
<1>3. after # {} => First(after) \in ids
  BY <1>1
<1>4. FindOwner(k, ids) = IF after # {} THEN First(after) ELSE First(ids)
  BY DEF FindOwner
<1>5. FindOwner(k, ids) \in ids
  <2> HIDE DEF after, First
  <2> QED BY <1>2, <1>3, <1>4
<1> QED BY <1>5 DEF ResolveOwner

\* The keys whose owner, of the nodes that are up, is among the first m.
KeysUpTo(m, down) == {k \in Keys : ResolveOwner(k, AliveNodes(down)) \in 1..m}

\* The keys are finitely many.
LEMMA KeysFinite == IsFiniteSet(Keys)
<1>1. \A a, b \in Int : IsFiniteSet(a..b)
  BY FS_Interval
<1>2. IsFiniteSet(0..359)
  <2>1. 0 \in Int /\ 359 \in Int
    OBVIOUS
  <2> QED BY <1>1, <2>1, Zenon
<1> QED BY <1>2, KeysAssumption, FS_Subset

\* Those of one more node are the keys counted beside it.
LEMMA KeysOfOneMore ==
  ASSUME RingShown, NEW down, AliveNodes(down) # {}, NEW m \in NodeIds
  PROVE  Cardinality(KeysUpTo(m, down)) =
           Cardinality(KeysUpTo(m - 1, down)) + KeyCount(m, down)
<1> DEFINE owner(k) == ResolveOwner(k, AliveNodes(down))
           Own == {k \in Keys : owner(k) = m}
           Less == KeysUpTo(m - 1, down)
           More == KeysUpTo(m, down)
<1>1. \A k \in Keys : owner(k) \in AliveNodes(down) /\ owner(k) \in NodeIds
  BY OwnerAmong DEF AliveNodes
<1>2. m \in Nat \ {0} /\ NodeIds \subseteq Nat
  BY DEF NodeIds, RingShown
<1>3. More = Less \cup Own /\ Less \cap Own = {}
  <2>1. \A k \in Keys : owner(k) \in 1..m <=> owner(k) \in 1..(m - 1) \/ owner(k) = m
    <3> HIDE DEF owner
    <3> QED BY <1>1, <1>2
  <2>2. \A k \in Keys : ~(owner(k) \in 1..(m - 1) /\ owner(k) = m)
    <3> HIDE DEF owner
    <3> QED BY <1>2
  <2> QED BY <2>1, <2>2 DEF KeysUpTo
<1>4. IsFiniteSet(Less) /\ IsFiniteSet(Own)
  BY KeysFinite, FS_Subset DEF KeysUpTo
<1>5. Cardinality(Less) \in Nat /\ Cardinality(Own) \in Nat
  <2> HIDE DEF Less, Own
  <2> QED BY <1>4, FS_CardinalityType
<1>6. Cardinality(More) = Cardinality(Less) + Cardinality(Own)
  <2> HIDE DEF Less, Own, More
  <2>1. Cardinality(Less \cap Own) = 0
    BY <1>3, FS_EmptySet
  <2>2. Cardinality(Less \cup Own) =
          Cardinality(Less) + Cardinality(Own) - Cardinality(Less \cap Own)
    BY <1>4, FS_Union
  <2>3. Cardinality(More) = Cardinality(Less \cup Own)
    BY <1>3
  <2> QED BY <1>5, <2>1, <2>2, <2>3
<1>7. KeyCount(m, down) = Cardinality(Own)
  <2>1. CASE m - 1 \in down
    <3>1. Own = {}
      BY <1>1, <2>1 DEF AliveNodes
    <3> QED BY <2>1, <3>1, FS_EmptySet DEF KeyCount
  <2>2. CASE m - 1 \notin down
    BY <2>2 DEF KeyCount
  <2> QED BY <2>1, <2>2
<1> QED BY <1>6, <1>7

\* t is the function that KeyTotal names.
IsTotal(t, n, down) ==
  t = [m \in 0..n |-> IF m = 0 THEN 0 ELSE t[m - 1] + KeyCount(m, down)]

\* There is one, and it counts the keys of the first m nodes.
LEMMA TotalExists ==
  ASSUME RingShown, NEW down, AliveNodes(down) # {}
  PROVE  \E t : IsTotal(t, shown.count, down)
<1> DEFINE n == shown.count
           c(m) == Cardinality(KeysUpTo(m, down))
           t == [m \in 0..n |-> c(m)]
<1>1. n \in 3..6
  BY DEF RingShown
<1>2. c(0) = 0
  <2>1. KeysUpTo(0, down) = {}
    BY DEF KeysUpTo
  <2> QED BY <2>1, FS_EmptySet
<1>3. ASSUME NEW m \in 1..n PROVE c(m) = c(m - 1) + KeyCount(m, down)
  BY <1>3, KeysOfOneMore DEF NodeIds
<1>4. IsTotal(t, n, down)
  <2>1. ASSUME NEW m \in 0..n
        PROVE  t[m] = IF m = 0 THEN 0 ELSE t[m - 1] + KeyCount(m, down)
    <3> HIDE DEF c
    <3>1. CASE m = 0
      BY <1>2, <3>1
    <3>2. CASE m # 0
      <4>1. m \in 1..n /\ m - 1 \in 0..n
        BY <1>1, <3>2
      <4> QED BY <1>3, <3>2, <4>1
    <3> QED BY <3>1, <3>2
  <2> HIDE DEF c
  <2> QED BY <2>1 DEF IsTotal
<1> QED BY <1>4

\* Added up over all nodes, the counts are those of all keys.
LEMMA TotalIsAll ==
  ASSUME RingShown, NEW down, AliveNodes(down) # {}
  PROVE  KeyTotal(shown.count, down) = Cardinality(Keys)
<1> DEFINE n == shown.count
           c(m) == Cardinality(KeysUpTo(m, down))
           t == CHOOSE f : IsTotal(f, n, down)
<1>1. n \in 3..6
  BY DEF RingShown
<1>2. KeyTotal(n, down) = t[n]
  BY DEF KeyTotal, IsTotal
<1>3. IsTotal(t, n, down)
  BY TotalExists
<1> HIDE DEF t
<1>4. \A m \in 0..n : t[m] = IF m = 0 THEN 0 ELSE t[m - 1] + KeyCount(m, down)
  BY <1>3 DEF IsTotal
<1>5. t[0] = 0 /\ \A m \in 1..n : t[m] = t[m - 1] + KeyCount(m, down)
  BY <1>1, <1>4
<1>6. c(0) = 0
  <2>1. KeysUpTo(0, down) = {}
    BY DEF KeysUpTo
  <2> QED BY <2>1, FS_EmptySet
<1>7. \A m \in 1..n : c(m) = c(m - 1) + KeyCount(m, down)
  BY KeysOfOneMore DEF NodeIds
<1>8. t[n] = c(n)
  <2> HIDE DEF c
  <2>1. t[1] = c(1) /\ t[2] = c(2) /\ t[3] = c(3)
    BY <1>1, <1>5, <1>6, <1>7
  <2>2. n > 3 => t[4] = c(4)
    BY <1>1, <1>5, <1>7, <2>1
  <2>3. n > 4 => t[5] = c(5)
    BY <1>1, <1>5, <1>7, <2>2
  <2>4. n > 5 => t[6] = c(6)
    BY <1>1, <1>5, <1>7, <2>3
  <2> QED BY <1>1, <2>1, <2>2, <2>3, <2>4
<1>9. KeysUpTo(n, down) = Keys
  BY OwnerAmong DEF KeysUpTo, AliveNodes, NodeIds
<1> QED BY <1>2, <1>8, <1>9

\* So the counts are a distribution of the keys.
LEMMA CountedOnce == RingShown => KeysCountedOnce
  BY TotalIsAll DEF KeysCountedOnce
-----------------------------------------------------------------------------
(* The invariant, and the theorems.                                         *)

\* A page is opened in a state of the invariant.
LEMMA InitInv == Init => IInv
<1> SUFFICES ASSUME Init PROVE IInv
  OBVIOUS
<1>1. IsRefresh(Started) /\ IsRefresh(Idle)
  <2>1. /\ Started = [stage |-> "sent", nodes |-> 0, list |-> <<>>]
        /\ Idle = [stage |-> "idle", nodes |-> 0, list |-> <<>>]
    BY DEF Started, Idle
  <2> QED BY <2>1 DEF IsRefresh, RefreshStages, Sizes
<1>2. SyncTypes
  BY <1>1, BoundsAssumption DEF Init, SyncInit, SyncTypes, Sizes
<1>3. PageTypes
  BY DEF Init, SnapInit, PageTypes, Free, Request
<1>4. BusyIsAttended
  BY DEF Init, SnapInit, BusyIsAttended
<1>5. OfflineFollowsStore
  BY DEF Init, SyncInit, OfflineFollowsStore
<1>6. RingShown
  BY DEF Init, RingInit, MockRing, RingShown, Sizes
<1>7. RingComes
  BY FirstFetchType DEF Init, RingInit, RingComes
<1> QED BY <1>2, <1>3, <1>4, <1>5, <1>6, <1>7 DEF IInv, RingTypes

\* The invariant is inductive.
LEMMA Invariance == Spec => []IInv
<1>1. Init => IInv
  BY InitInv
<1>2. IInv /\ [Next]_vars => IInv'
  BY SyncStep, BusyStep, RingInv, RingStepTypes DEF IInv
<1> QED BY <1>1, <1>2, PTL DEF Spec

\* What the Snapshots page shows in progress always has the request that will end
\* it (handleCreate, handleRestore, handleDelete), however many are in flight and
\* whichever of them fail or were sent by a page that was left.
THEOREM BusyAttended == Spec => []BusyIsAttended
<1>1. IInv => BusyIsAttended
  BY DEF IInv
<1> QED BY <1>1, Invariance, PTL

\* Offline, the ring page draws as many nodes as the store knows, in whatever order
\* refreshes land, the socket breaks and the page is visited (HashRing.tsx).
THEOREM OfflineFollows == Spec => []OfflineFollowsStore
<1>1. IInv => OfflineFollowsStore
  BY DEF IInv
<1> QED BY <1>1, Invariance, PTL

\* Whatever is down, each key is counted beside one node that is up: the counts of
\* the ring page add up to the keys, however the ring on the screen came to be (Stats,
\* Nodes), also when its owners were named for a larger one.
THEOREM KeysCounted == Spec => []KeysCountedOnce
<1>1. IInv => KeysCountedOnce
  BY CountedOnce DEF IInv, RingTypes
<1> QED BY <1>1, Invariance, PTL
=============================================================================
