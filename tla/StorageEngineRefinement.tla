----------------------- MODULE StorageEngineRefinement -----------------------
(***************************************************************************)
(* The engine implements the dictionary of KVStore.                        *)
(***************************************************************************)
EXTENDS StorageEngine

CONSTANTS Values, Absent

\* The values that clients set, and those of other nodes' records.
ASSUME ValuesAssumption ==
    /\ 1..MaxWrites \subseteq Values
    /\ {r.value : r \in Live(ForeignRecords)} \subseteq Values

\* What a GET answers when get_record returns rs, one record or none: the
\* value of a live one, else not found.
Named(rs) ==
    IF Live(rs) = {} THEN Absent ELSE (CHOOSE r \in Live(rs) : TRUE).value

Answer(k) == Named(Visible(k))

KV == INSTANCE KVStore WITH
          store <- [k \in Keys |-> Answer(k)],
          written <- [k \in Keys |-> Named(latest[k])]

\* Through sets, deletes, repairs, overlapping and failing flushes and crashes,
\* a key answers what was last written at it; only keys whose last write fell
\* into a running flush or behind a torn log tail can fall back.
ImplementsKVStore == KV!Spec

=============================================================================
