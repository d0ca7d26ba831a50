------------------------------- MODULE MCEngine -------------------------------
(* The storage engine on small instances: every engine_*.cfg runs this. *)
EXTENDS StorageEngineRefinement, TLC

CONSTANT k1

\* A record written by another node, ahead of this node's versions.
MCForeignRecords == 
    {[key |-> k1, value |-> 9, version |-> 5, timestamp |-> 9, tombstone |-> FALSE]}

MCValues == 1..9

\* The handlers are interchangeable; used where only safety is checked.
MCSymmetry == Permutations(Clients)
=============================================================================
