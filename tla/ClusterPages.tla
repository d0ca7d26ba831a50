---------------------------- MODULE ClusterPages ----------------------------
(***************************************************************************)
(* The store's readers together: the sync engine refills the store, one of *)
(* the pages is mounted (router.tsx) and takes the store's changes into    *)
(* its own state (useClusterStore), and each acts on the one backend.      *)
(***************************************************************************)
EXTENDS SnapshotsPage, RingPage

vars == <<syncVars, snapVars, ringVars>>

Init == SyncInit /\ SnapInit /\ RingInit

RefreshStep(f) == (Answer(f) \/ NoAnswer(f)) /\ UNCHANGED <<snapVars, ringVars>>
PollStep == Poll /\ UNCHANGED <<snapVars, ringVars>>

\* setState tells the subscribers: the effects of the mounted page follow.
LandRefresh(f) ==
  /\ Land(f)
  /\ MergeStore(f) /\ FollowStore
  /\ UNCHANGED <<creating, restoring, deleting, requests, copies,
                 owners, live, fetches, socket, pushes, changing>>

Navigate(p) == Visit(p) /\ MountSnapshots /\ MountRing

Next ==
  \/ PollStep
  \/ \E f \in Refreshes : RefreshStep(f) \/ LandRefresh(f)
  \/ \E p \in Pages : Navigate(p)
  \/ SnapStep /\ UNCHANGED ringVars
  \/ RingStep /\ UNCHANGED snapVars

Spec == Init /\ [][Next]_vars

\* Fairness: the poll recurs, every request settles and is received, timers
\* end.  Clicks and troubles are not owed.
Fairness ==
  /\ WF_vars(PollStep)
  /\ \A f \in Refreshes : WF_vars(RefreshStep(f) \/ LandRefresh(f))
  /\ \A r \in Requests : WF_vars(SnapRequestStep(r) /\ UNCHANGED ringVars)
  /\ WF_vars(CopyCreated /\ UNCHANGED ringVars)

FairSpec == Spec /\ Fairness
=============================================================================
