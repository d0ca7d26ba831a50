------------------------------- MODULE KVStore -------------------------------
(***************************************************************************)
(* What a node promises its clients: a dictionary.  A write takes effect   *)
(* at once and nothing but a write changes what a key reads - except for   *)
(* the keys at risk, those whose last write was accepted inside one of the *)
(* windows that StorageEngine names (a flush in flight, a torn log tail):  *)
(* these may fall back, all or some of them, at any time.                  *)
(***************************************************************************)
CONSTANTS Keys, Values, Absent

VARIABLES store,   \* what a read of each key returns
          written, \* what was last written at each key
          atRisk   \* the keys whose last write may be lost

Init ==
    /\ store = [k \in Keys |-> Absent]
    /\ written = [k \in Keys |-> Absent]
    /\ atRisk = {}

\* A write at key k; risky says whether it was accepted inside a window.
Put(k, v, risky) ==
    /\ store' = [store EXCEPT ![k] = v]
    /\ written' = [written EXCEPT ![k] = v]
    /\ atRisk' = IF risky THEN atRisk \cup {k} ELSE atRisk \ {k}

\* Keys at risk lose their last write.
FallBack ==
    /\ store' \in [Keys -> Values \cup {Absent}]
    /\ \A k \in Keys \ atRisk : store'[k] = store[k]
    /\ UNCHANGED <<written, atRisk>>

Next ==
    \/ \E k \in Keys, v \in Values \cup {Absent}, risky \in BOOLEAN : Put(k, v, risky)
    \/ FallBack

Spec == Init /\ [][Next]_<<store, written, atRisk>>

=============================================================================
