---------------------------- MODULE KeyOperations ----------------------------
(***************************************************************************)
(* The Key Operations panel of the Dashboard page (pages/Dashboard.tsx):   *)
(* SET, GET and DEL on the key that was typed, one flag that disables the  *)
(* buttons, and one line each for a result and an error.  The Enter key    *)
(* sets a key whether or not a request is under way.  The store behind the *)
(* API process is not modelled: a request succeeds or fails.               *)
(***************************************************************************)
EXTENDS PageLife

CONSTANTS Keys        \* what may be typed as a key

ASSUME KeysAssumption == Keys # {} /\ "" \notin Keys

VARIABLES
  key,          \* the key that is typed, "" when none
  value,        \* whether a value is typed
  requests,     \* the requests in flight
  loading,      \* the flag
  result,       \* the request the result line is about, or none
  error         \* whether the error line shows

keyVars == <<key, value, requests, loading, result, error>>

Commands == {"SET", "GET", "DEL"}
NoRequest == [command |-> "none", key |-> ""]

TypeKey ==
  /\ Act /\ Mounted
  /\ key' \in Keys \ {key} /\ value' \in BOOLEAN
  /\ UNCHANGED <<scene, stage, requests, loading, result, error>>

MountKeys ==
  /\ \/ Act /\ Enter
     \/ RunEffects
  /\ UNCHANGED <<scene, keyVars>>

\* On leaving, what the panel holds is gone, and the answers to come find no
\* one.
LeaveKeys ==
  /\ Act /\ Quit
  /\ key' = "" /\ value' = FALSE
  /\ requests' = <<>> /\ loading' = FALSE /\ result' = NoRequest /\ error' = FALSE
  /\ UNCHANGED scene

\* handleSetKey, handleGetKey and handleDeleteKey leave at once without a key,
\* or a value to set; otherwise both lines are emptied.
Fits(command) == key # "" /\ (command = "SET" => value)

Submit(command) ==
  /\ Act /\ Mounted
  /\ Fits(command)
  /\ requests' = Append(requests, [command |-> command, key |-> key])
  /\ loading' = TRUE /\ result' = NoRequest /\ error' = FALSE
  /\ UNCHANGED <<scene, stage, key, value>>

\* The buttons are disabled while loading; Enter, in either field, is not.
Click(command) == ~loading /\ Submit(command)
PressEnter == Submit("SET")

\* An answer empties the fields that a SET or a DEL was made from, typed over
\* since or not.
Succeed(k) ==
  /\ result' = requests[k]
  /\ key' = IF requests[k].command = "GET" THEN key ELSE ""
  /\ value' = (value /\ requests[k].command # "SET")
  /\ requests' = RemoveAt(requests, k)
  /\ loading' = FALSE
  /\ UNCHANGED <<lifeVars, error>>

\* What if a failure left the flag up?
StuckFail(k) ==
  /\ error' = TRUE
  /\ requests' = RemoveAt(requests, k)
  /\ UNCHANGED <<lifeVars, key, value, loading, result>>

\* A failure, the finally of the handler included.
Fail(k) ==
  /\ error' = TRUE
  /\ requests' = RemoveAt(requests, k)
  /\ loading' = FALSE
  /\ UNCHANGED <<lifeVars, key, value, result>>

-----------------------------------------------------------------------------
KeyInit ==
  /\ key = "" /\ value = FALSE /\ requests = <<>>
  /\ loading = FALSE /\ result = NoRequest /\ error = FALSE

Clicks == \E command \in Commands : Click(command)
Settles == \E k \in DOMAIN requests : Succeed(k) \/ Fail(k)

KeyStep ==
  /\ scene = "keys"
  /\ MountKeys \/ LeaveKeys \/ TypeKey \/ Clicks \/ PressEnter \/ Settles

KeyTypeOK ==
  /\ key \in Keys \cup {""} /\ value \in BOOLEAN
  /\ requests \in Seq([command : Commands, key : Keys])
  /\ loading \in BOOLEAN /\ error \in BOOLEAN
  /\ result \in [command : Commands, key : Keys] \cup {NoRequest}
-----------------------------------------------------------------------------
(* Properties.                                                              *)

\* The buttons are disabled only while an answer is to come, though Enter can
\* put several requests under way at once; and the panel says nothing at all
\* only when none is (Dashboard.tsx:246-283).
PanelFollowsRequests ==
  /\ loading => requests # <<>>
  /\ (~loading /\ result = NoRequest /\ ~error) => requests = <<>>
=============================================================================
