------------------------------- MODULE Records -------------------------------
(***************************************************************************)
(* Records of the store and the tables that hold them (storage/record.py,  *)
(* storage/memtable.py, the merge rule of storage/compaction.py).          *)
(*                                                                         *)
(* A record is [key, value, version, timestamp, tombstone], without its    *)
(* expiry.  A table, in memory or in an SSTable file, is the set of its    *)
(* records, at most one for a key: the key order of SortedDict and of the  *)
(* files matters to none of these definitions.                             *)
(***************************************************************************)
EXTENDS Naturals, Sequences

CONSTANT Keys

Record == [key: Keys, value: Nat, version: Nat, timestamp: Nat, tombstone: BOOLEAN]

\* What a record says, whenever it says it was written: one write is met under
\* two timestamps, the engine's and the log's.
Content(r) ==
    [key |-> r.key, value |-> r.value, version |-> r.version, tombstone |-> r.tombstone]
Contents(rs) == {Content(r) : r \in rs}

\* q is r under the same timestamp or a later one; so are the records of qs
\* those of rs.
Restamp(r, q) == Content(q) = Content(r) /\ r.timestamp <= q.timestamp
Restamped(rs, qs) ==
    /\ \A r \in rs : \E q \in qs : Restamp(r, q)
    /\ \A q \in qs : \E r \in rs : Restamp(r, q)

\* What MemTable.get_record and SSTable.get_record find: no record, or one.
Lookup(table, k) == {r \in table : r.key = k}

\* MemTable._replace: the new record takes the place of the key's old one.
Upsert(table, r) == {x \in table : x.key # r.key} \cup {r}

\* The MemTable that replaying a log from its first entry to its last builds.
Replay(log) ==
    {log[i] : i \in {j \in DOMAIN log :
                        \A m \in DOMAIN log : log[m].key = log[j].key => m <= j}}

Live(rs) == {r \in rs : ~r.tombstone}

----------------------------------------------------------------------------
(***************************************************************************)
(* The merge of a compaction.  files maps a sequence number to the table   *)
(* of that SSTable; ss is the set of the merged sequence numbers.          *)
(***************************************************************************)

Entries(files, ss) ==
    UNION {{[rec |-> r, seq |-> s] : r \in files[s]} : s \in ss}

\* The three comparisons of _kway_merge: version, then timestamp, then table.
Beats(d, e) ==
    \/ d.rec.version > e.rec.version
    \/ /\ d.rec.version = e.rec.version
       /\ d.rec.timestamp > e.rec.timestamp
    \/ /\ d.rec.version = e.rec.version
       /\ d.rec.timestamp = e.rec.timestamp
       /\ d.seq > e.seq

Winners(es) ==
    {e \in es : \A d \in es : d.rec.key = e.rec.key => d = e \/ Beats(e, d)}

\* What the merge yields: the winner of each key, unless it is a tombstone.
Merged(files, ss) == Live({e.rec : e \in Winners(Entries(files, ss))})

=============================================================================
