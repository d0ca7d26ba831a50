--------------------------- MODULE SnapshotsPage ---------------------------
(***************************************************************************)
(* The Snapshots page (pages/Snapshots.tsx): its own list of snapshots,    *)
(* merged with the store's, and the three actions, each a request whose    *)
(* continuation runs on the page's state when it is answered.              *)
(*                                                                         *)
(* Every snapshot of the API process is "ready" from the start, so the     *)
(* merge never finds an optimistic entry to keep.  A restore also starts   *)
(* a background operation, which asks for the snapshot by its name, finds  *)
(* none and changes nothing.                                               *)
(***************************************************************************)
EXTENDS ClusterSync

CONSTANT MaxRequests    \* bound: requests of the page in flight at once

ASSUME RequestsAssumption == MaxRequests \in Nat

Requests == 1..MaxRequests

VARIABLES
  list,         \* the snapshots shown, newest first
  creating,     \* a creation is shown in progress
  restoring,    \* the snapshot shown as being restored, or 0
  deleting,     \* the one whose delete button is off, or 0
  requests,     \* the requests in flight and the timers that follow them
  copies        \* background operations that will create a snapshot again

pageVars == <<list, creating, restoring, deleting>>
snapVars == <<list, creating, restoring, deleting, requests, copies>>

\* stage: on its way ("sent"), answered ("done", or "missing" for a 404), or
\* followed by a timer ("after").  here: the page that sent it is mounted.
Free == [kind |-> "none", id |-> 0, stage |-> "free", here |-> FALSE]

Send(k, i) ==
  \E r \in Requests :
    /\ requests[r] = Free
    /\ \A s \in Requests : s < r => requests[s] # Free
    /\ requests' = [requests EXCEPT ![r] =
         [kind |-> k, id |-> i, stage |-> "sent", here |-> TRUE]]

IsAt(r, k, stages) == requests[r].kind = k /\ requests[r].stage \in stages
Advance(r, s) == requests' = [requests EXCEPT ![r].stage = s]
Drop(r) == requests' = [requests EXCEPT ![r] = Free]

\* A continuation sets state only while its page is mounted.
Sets(r, value, old) == IF requests[r].here THEN value ELSE old

\* What the backend may still be asked to create, so that the bound on ids is
\* no reason for a request to hang.
Owed == copies + 2 * Cardinality({r \in Requests : IsAt(r, "create", {"sent"})})
               + Cardinality({r \in Requests : IsAt(r, "create", {"done"})})

-----------------------------------------------------------------------------
(* Create.                                                                  *)

\* handleCreate, by the button or by Enter.
Create ==
  /\ page = "snapshots" /\ ~creating
  /\ created + Owed + 2 <= MaxIds
  /\ Send("create", 0)
  /\ creating' = TRUE
  /\ UNCHANGED <<syncVars, list, restoring, deleting, copies>>

CreateHandled(r) ==
  /\ IsAt(r, "create", {"sent"})
  /\ CreateSnapshot
  /\ requests' = [requests EXCEPT ![r].stage = "done", ![r].id = created + 1]
  /\ UNCHANGED <<store, refreshes, page, troubles, pageVars, copies>>

\* Answered: the same name is handed to startSnapshot, and a timer of 400 ms
\* is started.
CreateAnswered(r) ==
  /\ IsAt(r, "create", {"done"})
  /\ Advance(r, "after")
  /\ copies' = copies + 1
  /\ UNCHANGED <<syncVars, pageVars>>

\* startSnapshot, a background operation: 200 ms later it asks the backend to
\* create the snapshot once more.
CopyCreated ==
  /\ copies > 0
  /\ CreateSnapshot
  /\ copies' = copies - 1
  /\ TriggerRefresh
  /\ UNCHANGED <<store, page, troubles, pageVars, requests>>

\* Mutant: the button stays as it is.
ForgetfulCreateShown(r) ==
  /\ IsAt(r, "create", {"after"})
  /\ list' = Sets(r, <<requests[r].id>> \o list, list)
  /\ Drop(r)
  /\ TriggerRefresh
  /\ UNCHANGED <<backend, store, page, troubles, creating, restoring, deleting, copies>>

\* The timer: the answer is put in front of the list, whatever a refresh has
\* put there meanwhile.
CreateShown(r) ==
  /\ IsAt(r, "create", {"after"})
  /\ list' = Sets(r, <<requests[r].id>> \o list, list)
  /\ creating' = Sets(r, FALSE, creating)
  /\ Drop(r)
  /\ TriggerRefresh
  /\ UNCHANGED <<backend, store, page, troubles, restoring, deleting, copies>>

-----------------------------------------------------------------------------
(* Restore.                                                                 *)

Restore(i) ==
  /\ page = "snapshots" /\ restoring = 0
  /\ i \in Range(list)
  /\ Send("restore", i)
  /\ restoring' = i
  /\ UNCHANGED <<syncVars, list, creating, deleting, copies>>

RestoreHandled(r) ==
  /\ IsAt(r, "restore", {"sent"})
  /\ Advance(r, IF Listed(requests[r].id) THEN "done" ELSE "missing")
  /\ UNCHANGED <<syncVars, pageVars, copies>>

\* The progress bar is filled for the seconds the backend estimates.
RestoreAnswered(r) ==
  /\ IsAt(r, "restore", {"done"})
  /\ Advance(r, "after")
  /\ UNCHANGED <<syncVars, pageVars, copies>>

\* It is full.  (The interval of a page left before that has nothing to update.)
RestoreShown(r) ==
  /\ IsAt(r, "restore", {"after"})
  /\ restoring' = Sets(r, 0, restoring)
  /\ Drop(r)
  /\ UNCHANGED <<syncVars, list, creating, deleting, copies>>

-----------------------------------------------------------------------------
(* Delete, and the failure of any of the three.                             *)

\* The button is off for the snapshot deleted last and during a restore.
Delete(i) ==
  /\ page = "snapshots" /\ deleting # i /\ restoring = 0
  /\ i \in Range(list)
  /\ Send("delete", i)
  /\ deleting' = i
  /\ UNCHANGED <<syncVars, list, creating, restoring, copies>>

DeleteHandled(r) ==
  /\ IsAt(r, "delete", {"sent"})
  /\ Advance(r, IF Listed(requests[r].id) THEN "done" ELSE "missing")
  /\ DeleteSnapshot(requests[r].id)
  /\ UNCHANGED <<store, refreshes, page, troubles, pageVars, copies>>

\* The entry goes (with the selection, which is left out here); "finally" clears
\* whichever deletion is shown.
DeleteAnswered(r) ==
  /\ IsAt(r, "delete", {"done"})
  /\ list' = Sets(r, SelectSeq(list, LAMBDA s : s # requests[r].id), list)
  /\ deleting' = Sets(r, 0, deleting)
  /\ Drop(r)
  /\ TriggerRefresh
  /\ UNCHANGED <<backend, store, page, troubles, creating, restoring, copies>>

\* The request or its answer is lost.
RequestLost(r) ==
  /\ Trouble
  /\ requests[r].stage \in {"sent", "done"}
  /\ Advance(r, "missing")
  /\ UNCHANGED <<backend, store, refreshes, page, pageVars, copies>>

\* Mutant: the failure of a restore only shows a message.
ForgetfulRequestFailed(r) ==
  /\ requests[r].stage = "missing"
  /\ creating' = Sets(r, creating /\ requests[r].kind # "create", creating)
  /\ deleting' = Sets(r, IF requests[r].kind = "delete" THEN 0 ELSE deleting, deleting)
  /\ Drop(r)
  /\ UNCHANGED <<syncVars, list, restoring, copies>>

\* The catch of each handler.
RequestFailed(r) ==
  /\ requests[r].stage = "missing"
  /\ creating' = Sets(r, creating /\ requests[r].kind # "create", creating)
  /\ restoring' = Sets(r, IF requests[r].kind = "restore" THEN 0 ELSE restoring, restoring)
  /\ deleting' = Sets(r, IF requests[r].kind = "delete" THEN 0 ELSE deleting, deleting)
  /\ Drop(r)
  /\ UNCHANGED <<syncVars, list, copies>>

-----------------------------------------------------------------------------
(* What the page makes of the store.                                        *)

\* Mutant: a list that lost an entry is taken for an old one.
GrowingMergeStore(f) ==
  list' = IF page = "snapshots" /\ Brought(f) /\ Len(refreshes[f].list) >= Len(list)
          THEN refreshes[f].list ELSE list

\* The effect on storeSnapshots: an answer that lists none leaves what is shown.
MergeStore(f) ==
  list' = IF page = "snapshots" /\ Brought(f) /\ refreshes[f].list # <<>>
          THEN refreshes[f].list ELSE list

\* Mounted or left, all the page's state is new.
MountSnapshots ==
  /\ list' = IF page' = "snapshots" THEN store.list ELSE <<>>
  /\ creating' = FALSE /\ restoring' = 0 /\ deleting' = 0
  /\ requests' = [r \in Requests |-> IF IsAt(r, "restore", {"after"}) THEN Free
                                     ELSE [requests[r] EXCEPT !.here = FALSE]]
  /\ UNCHANGED copies

SnapInit ==
  /\ list = <<>> /\ creating = FALSE /\ restoring = 0 /\ deleting = 0
  /\ requests = [r \in Requests |-> Free]
  /\ copies = 0

SnapRequestStep(r) ==
  \/ CreateHandled(r) \/ CreateAnswered(r) \/ CreateShown(r)
  \/ RestoreHandled(r) \/ RestoreAnswered(r) \/ RestoreShown(r)
  \/ DeleteHandled(r) \/ DeleteAnswered(r)
  \/ RequestFailed(r)

SnapClick == Create \/ \E i \in SnapIds : Restore(i) \/ Delete(i)

SnapStep ==
  \/ SnapClick \/ CopyCreated
  \/ \E r \in Requests : SnapRequestStep(r) \/ RequestLost(r)

-----------------------------------------------------------------------------
(* Properties.                                                              *)

\* What is shown in progress is in progress: a spinner, a progress bar or a
\* dead button always has the request that will end it (handleCreate,
\* handleRestore, handleDelete), even when several are in flight.
BusyIsAttended ==
  LET Attended(k, i) == \E r \in Requests :
        requests[r].here /\ requests[r].kind = k /\ (k = "create" \/ requests[r].id = i)
  IN  /\ creating => Attended("create", 0)
      /\ restoring # 0 => Attended("restore", restoring)
      /\ deleting # 0 => Attended("delete", deleting)

\* Every action comes to an end on the page that started it.
ActionsEnd ==
  /\ creating ~> ~creating
  /\ restoring # 0 ~> restoring = 0
  /\ deleting # 0 ~> deleting = 0

\* With no more clicks the page ends up showing the backend's snapshots,
\* however refreshes and answers overtook each other; except that it never
\* lets go of the last one deleted.
ListConverges == <>[](page = "snapshots" => snaps = <<>> \/ list = snaps)
=============================================================================
