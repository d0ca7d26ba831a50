------------------------- MODULE StorageEngineProofs -------------------------
(***************************************************************************)
(* Theorems about StorageEngine, for every number of handlers, compaction  *)
(* threads, keys, writes, failures and crashes.                            *)
(***************************************************************************)
EXTENDS StorageEngine, SequenceTheorems, TLAPS

----------------------------------------------------------------------------
(* Lemmas about the operators *)

\* A replay of the empty log, after a truncate, builds an empty MemTable.
LEMMA ReplayEmpty == Replay(<<>>) = {}
  BY DEF Replay

\* Appending a record to the log changes the replay as applying the record
\* changes the MemTable: the two halves of a write agree.
LEMMA ReplayAppend ==
  ASSUME NEW log \in Seq(Record), NEW r \in Record
  PROVE  Replay(Append(log, r)) = Upsert(Replay(log), r)
<1> DEFINE n == Len(log)
           longer == Append(log, r)
           Last(l, j) == \A m \in DOMAIN l : l[m].key = l[j].key => m <= j
<1>1. /\ n \in Nat /\ DOMAIN log = 1..n /\ DOMAIN longer = 1..(n + 1)
      /\ \A i \in 1..n : longer[i] = log[i]
      /\ longer[n + 1] = r
  BY LenProperties, AppendProperties
<1>2. \A j \in 1..n : Last(longer, j) <=> Last(log, j) /\ log[j].key # r.key
  <2> SUFFICES ASSUME NEW j \in 1..n
               PROVE  Last(longer, j) <=> Last(log, j) /\ log[j].key # r.key
    OBVIOUS
  <2>1. ASSUME Last(longer, j) PROVE Last(log, j) /\ log[j].key # r.key
    BY <1>1, <2>1
  <2>2. ASSUME Last(log, j), log[j].key # r.key PROVE Last(longer, j)
    BY <1>1, <2>2
  <2> QED BY <2>1, <2>2
<1>3. Last(longer, n + 1)
  BY <1>1
<1>4. Replay(longer) = {log[j] : j \in {i \in 1..n : Last(log, i) /\ log[i].key # r.key}} \cup {r}
  BY <1>1, <1>2, <1>3 DEF Replay
<1>5. Upsert(Replay(log), r) = {log[j] : j \in {i \in 1..n : Last(log, i) /\ log[i].key # r.key}} \cup {r}
  BY <1>1 DEF Replay, Upsert
<1> QED BY <1>4, <1>5

\* Records of the same content have the same key, value, version and tombstone.
LEMMA RestampKey ==
  ASSUME NEW r, NEW q, Content(q) = Content(r)
  PROVE  /\ q.key = r.key /\ q.value = r.value
         /\ q.version = r.version /\ q.tombstone = r.tombstone
  BY DEF Content

\* An entry of the log is the record written, under a time read later.
LEMMA EntryRestamps ==
  ASSUME NEW r \in Record, NEW ts \in Nat, r.timestamp <= ts
  PROVE  [r EXCEPT !.timestamp = ts] \in Record /\ Restamp(r, [r EXCEPT !.timestamp = ts])
  BY DEF Record, Restamp, Content

\* Records are their own restamped copies,
LEMMA RestampedSelf == ASSUME NEW rs, rs \subseteq Record PROVE Restamped(rs, rs)
<1>1. \A r \in rs : r.timestamp \in Nat
  BY DEF Record
<1> QED BY <1>1 DEF Restamped, Restamp

\* and applying one record to two tables that differ in timestamps, under two
\* timestamps, keeps them so.
LEMMA UpsertRestamped ==
  ASSUME NEW rs, NEW qs, Restamped(rs, qs), NEW r, NEW q, Restamp(r, q)
  PROVE  Restamped(Upsert(rs, r), Upsert(qs, q))
<1>1. q.key = r.key
  BY RestampKey DEF Restamp
<1>2. \A x, y : Restamp(x, y) => x.key = y.key
  BY RestampKey DEF Restamp
<1>3. ASSUME NEW x \in Upsert(rs, r) PROVE \E y \in Upsert(qs, q) : Restamp(x, y)
  BY <1>1, <1>2 DEF Upsert, Restamped
<1>4. ASSUME NEW y \in Upsert(qs, q) PROVE \E x \in Upsert(rs, r) : Restamp(x, y)
  BY <1>1, <1>2 DEF Upsert, Restamped
<1> QED BY <1>3, <1>4 DEF Restamped

\* A replay and a merge yield records they were given.
LEMMA ReplayType == ASSUME NEW log \in Seq(Record) PROVE Replay(log) \subseteq Record
  BY LenProperties DEF Replay

\* A merge invents no record.
LEMMA MergedType ==
  ASSUME NEW tables, NEW ss, \A s \in ss : tables[s] \subseteq Record
  PROVE  Merged(tables, ss) \subseteq Record
  BY DEF Merged, Live, Winners, Entries

\* Adding an entry to a table of sequence numbers, or taking some out, keeps
\* its entries in the set they come from.
LEMMA WithType ==
  ASSUME NEW V, NEW f, DOMAIN f \subseteq Nat, \A x \in DOMAIN f : f[x] \in V,
         NEW s \in Nat, NEW v \in V
  PROVE  DOMAIN With(f, s, v) \subseteq Nat /\ \A x \in DOMAIN With(f, s, v) : With(f, s, v)[x] \in V
  BY DEF With

\* Taking entries out of such a table.
LEMMA WithoutType ==
  ASSUME NEW V, NEW f, DOMAIN f \subseteq Nat, \A x \in DOMAIN f : f[x] \in V, NEW S
  PROVE  DOMAIN Without(f, S) \subseteq Nat /\ \A x \in DOMAIN Without(f, S) : Without(f, S)[x] \in V
  BY DEF Without

----------------------------------------------------------------------------
(* Type correctness.  A compaction's level must stay within its thread's    *)
(* range for the level it writes to, one below, to exist.                   *)

\* The types, and the level of every thread within its range.
TypeInv ==
    /\ TypeOK
    /\ \A t \in Compactors : job[t].level <= LastLevel(t)

\* A handler outside flush(), and a thread between compactions, are well typed.
LEMMA NoFlushType == NoFlush \in FlushState
  BY DEF NoFlush, FlushState

LEMMA NoJobType == NoJob \in JobState /\ NoJob.level = 0
  BY DEF NoJob, JobState

\* A thread that is done with a level goes on within its range.
LEMMA NextLevelType ==
  ASSUME TypeInv, NEW t \in Compactors
  PROVE  NextLevel(t) \in JobState /\ NextLevel(t).level <= LastLevel(t)
<1>1. job[t] \in JobState /\ job[t].level \in 0..2 /\ job[t].level <= LastLevel(t)
  BY DEF TypeInv, TypeOK, JobState
<1>2. LastLevel(t) \in 1..2
  BY DEF LastLevel
<1>3. CASE job[t].level = LastLevel(t)
  BY <1>2, <1>3, NoJobType DEF NextLevel
<1>4. CASE job[t].level # LastLevel(t)
  BY <1>1, <1>2, <1>4 DEF NextLevel, NoJob, JobState
<1> QED BY <1>3, <1>4

\* A flush that begins takes records of the right type.
LEMMA BeginFlushType ==
  ASSUME TypeInv, NEW c \in Clients, NEW mem, mem \subseteq Record, BeginFlush(c, mem)
  PROVE  seq' \in Nat /\ flushing' \in BOOLEAN /\ flush' \in [Clients -> FlushState]
<1>1. seq \in Nat /\ flush \in [Clients -> FlushState]
  BY DEF TypeInv, TypeOK
<1>2. [pc |-> "write", seq |-> seq + 1, recs |-> mem] \in FlushState
  BY <1>1 DEF FlushState
<1>3. seq' \in Nat /\ flush' \in [Clients -> FlushState]
  BY <1>1, <1>2 DEF BeginFlush
<1>4. flushing' \in BOOLEAN
  BY DEF BeginFlush
<1> QED BY <1>3, <1>4

\* What a client's set or delete writes is a record, and its log entry is
\* stamped later.
LEMMA NewRecordType ==
  ASSUME TypeInv, NEW k \in Keys
  PROVE  /\ EntryTime \in Nat
         /\ NewRecord(k, clock + 1, FALSE) \in Record /\ NewRecord(k, 0, TRUE) \in Record
         /\ NewRecord(k, clock + 1, FALSE).timestamp <= EntryTime
         /\ NewRecord(k, 0, TRUE).timestamp <= EntryTime
<1>1. clock \in Nat /\ nextVersion \in Nat
  BY DEF TypeInv, TypeOK
<1>2. RecordTime \in Nat /\ EntryTime \in Nat /\ RecordTime <= EntryTime /\ clock + 1 \in Nat
  BY <1>1 DEF RecordTime, EntryTime
<1> QED BY <1>1, <1>2 DEF NewRecord, Record

\* A write of a record keeps the types.
LEMMA WriteType ==
  ASSUME TypeInv, NEW c \in Clients, NEW r \in Record, NEW ts \in Nat, Write(c, r, ts),
         nextVersion' \in Nat
  PROVE  TypeInv'
<1> USE DEF TypeInv, TypeOK
<1>1. wal' \in Seq(Record)
  <2>1. [r EXCEPT !.timestamp = ts] \in Record
    BY DEF Record
  <2> QED BY <2>1, AppendProperties DEF Write
<1>2. memtable' \in SUBSET Record
  BY DEF Write, Upsert
<1>3. seq' \in Nat /\ flushing' \in BOOLEAN /\ flush' \in [Clients -> FlushState]
  BY <1>2, BeginFlushType DEF Write
<1>4. /\ latest' \in [Keys -> SUBSET Record] /\ atRisk' \subseteq Keys
      /\ clock' \in Nat
  <2>1. r.key \in Keys
    BY DEF Record
  <2> QED BY <2>1 DEF Write
<1> QED BY <1>1, <1>2, <1>3, <1>4 DEF Write, budget, LastLevel

\* A step of job t to a state of the right type leaves all jobs well-typed.
LEMMA JobStep ==
  ASSUME TypeInv, NEW t \in Compactors, NEW j \in JobState, j.level <= LastLevel(t),
         job' = [job EXCEPT ![t] = j]
  PROVE  /\ job' \in [Compactors -> JobState]
         /\ \A u \in Compactors : job'[u].level <= LastLevel(u)
  BY DEF TypeInv, TypeOK

\* An empty node is well typed.
LEMMA InitType == Init => TypeInv
<1> SUFFICES ASSUME Init PROVE TypeInv
  OBVIOUS
<1>1. wal \in Seq(Record) /\ DOMAIN files = {} /\ DOMAIN manifest = {} /\ DOMAIN registry = {}
  BY EmptySeq DEF Init
<1>2. flush \in [Clients -> FlushState]
  BY NoFlushType DEF Init
<1>3. \A t \in Compactors : NoJob \in JobState /\ NoJob.level <= LastLevel(t)
  BY NoJobType DEF LastLevel
<1>4. job \in [Compactors -> JobState] /\ \A t \in Compactors : job[t].level <= LastLevel(t)
  BY <1>3 DEF Init
<1>5. torn \in BOOLEAN /\ flushing \in BOOLEAN
  BY DEF Init
<1> QED BY <1>1, <1>2, <1>4, <1>5 DEF Init, TypeInv, TypeOK

\* Every step keeps the types.
LEMMA StepType == TypeInv /\ [Next]_vars => TypeInv'
<1> SUFFICES ASSUME TypeInv, [Next]_vars PROVE TypeInv'
  OBVIOUS
<1>0. TypeOK /\ \A t \in Compactors : job[t].level <= LastLevel(t)
  BY DEF TypeInv
<1> USE DEF disk, memory, budget, history
<1>1. ASSUME NEW c \in Clients, NEW k \in Keys, Set(c, k) \/ Delete(c, k)
      PROVE  TypeInv'
  <2>1. nextVersion' \in Nat
    <3>1. nextVersion \in Nat /\ nextVersion' = nextVersion + 1
      BY <1>0, <1>1 DEF TypeOK, Set, Delete
    <3> QED BY <3>1
  <2> QED BY <1>1, <2>1, NewRecordType, WriteType DEF Set, Delete
<1>2. ASSUME NEW c \in Clients, NEW r \in ForeignRecords, RepairSet(c, r)
      PROVE  TypeInv'
  <2>1. r \in Record /\ r.timestamp \in Nat /\ nextVersion' \in Nat
    BY <1>0, <1>2, ConstantsAssumption DEF TypeOK, RepairSet, Record
  <2> QED BY <1>2, <2>1, WriteType DEF RepairSet
<1>3. ASSUME NEW c \in Clients, FlushCommand(c)
      PROVE  TypeInv'
  <2>1. BeginFlush(c, memtable) /\ memtable \subseteq Record
    BY <1>0, <1>3 DEF TypeOK, FlushCommand
  <2>2. seq' \in Nat /\ flushing' \in BOOLEAN /\ flush' \in [Clients -> FlushState]
    BY <2>1, BeginFlushType
  <2> QED BY <1>0, <1>3, <2>2 DEF TypeInv, TypeOK, FlushCommand, LastLevel
<1>4. ASSUME NEW c \in Clients, FlushWrite(c)
      PROVE  TypeInv'
  <2>1. flush[c] \in FlushState
    BY <1>0 DEF TypeOK
  <2>2. flush' \in [Clients -> FlushState]
    BY <1>0, <1>4, <2>1 DEF TypeOK, FlushWrite, FlushState
  <2>3. DOMAIN files' \subseteq Nat /\ \A s \in DOMAIN files' : files'[s] \subseteq Record
    <3>1. files' = With(files, flush[c].seq, flush[c].recs)
      BY <1>4 DEF FlushWrite
    <3>2. \A s \in DOMAIN files : files[s] \in SUBSET Record
      BY <1>0 DEF TypeOK
    <3>3. DOMAIN files \subseteq Nat /\ flush[c].seq \in Nat /\ flush[c].recs \in SUBSET Record
      BY <1>0, <2>1 DEF TypeOK, FlushState
    <3>4. DOMAIN files' \subseteq Nat /\ \A s \in DOMAIN files' : files'[s] \in SUBSET Record
      BY <3>1, <3>2, <3>3, WithType
    <3> QED BY <3>4
  <2> QED BY <1>0, <1>4, <2>2, <2>3 DEF TypeInv, TypeOK, FlushWrite, LastLevel
<1>5. ASSUME NEW c \in Clients, FlushPublish(c)
      PROVE  TypeInv'
  <2>1. flush[c] \in FlushState
    BY <1>0 DEF TypeOK
  <2>2. flush' \in [Clients -> FlushState]
    BY <1>0, <1>5, <2>1 DEF TypeOK, FlushPublish, FlushState
  <2>3. /\ DOMAIN manifest' \subseteq Nat /\ \A s \in DOMAIN manifest' : manifest'[s] \in Levels
        /\ DOMAIN registry' \subseteq Nat /\ \A s \in DOMAIN registry' : registry'[s] \in Levels
    <3>1. /\ manifest' = With(manifest, flush[c].seq, 0)
          /\ registry' = With(registry, flush[c].seq, 0)
      BY <1>5 DEF FlushPublish
    <3>2. flush[c].seq \in Nat /\ 0 \in Levels
      BY <2>1 DEF FlushState, Levels
    <3>3. /\ DOMAIN manifest \subseteq Nat /\ \A s \in DOMAIN manifest : manifest[s] \in Levels
          /\ DOMAIN registry \subseteq Nat /\ \A s \in DOMAIN registry : registry[s] \in Levels
      BY <1>0 DEF TypeOK
    <3> QED BY <3>1, <3>2, <3>3, WithType
  <2> QED BY <1>0, <1>5, <2>2, <2>3 DEF TypeInv, TypeOK, FlushPublish, LastLevel
<1>6. ASSUME NEW c \in Clients, FlushClear(c) \/ FlushFail(c)
      PROVE  TypeInv'
  <2>1. flush' \in [Clients -> FlushState]
    BY <1>0, <1>6, NoFlushType DEF TypeOK, FlushClear, FlushFail
  <2>2. wal' \in Seq(Record) /\ memtable' \subseteq Record /\ failures' \in Nat
    <3>1. wal \in Seq(Record) /\ memtable \subseteq Record /\ failures \in Nat
      BY <1>0 DEF TypeOK
    <3>2. CASE FlushClear(c)
      BY <3>1, <3>2, EmptySeq DEF FlushClear
    <3>3. CASE FlushFail(c)
      BY <3>1, <3>3 DEF FlushFail
    <3> QED BY <1>6, <3>2, <3>3
  <2>3. torn' \in BOOLEAN /\ flushing' \in BOOLEAN
    BY <1>0, <1>6 DEF TypeOK, FlushClear, FlushFail
  <2> QED BY <1>0, <1>6, <2>1, <2>2, <2>3 DEF TypeInv, TypeOK, FlushClear, FlushFail, LastLevel
<1>7. ASSUME NEW t \in Compactors, TakeLevel(t)
      PROVE  TypeInv'
  <2> DEFINE inputs == Tables(job[t].level)
             taken == [job[t] EXCEPT !.pc = "merge", !.inputs = inputs]
  <2>1. job[t] \in JobState /\ inputs \subseteq Nat
    BY <1>0 DEF TypeOK, Tables
  <2>2. taken \in JobState /\ taken.level <= LastLevel(t)
    BY <1>0, <2>1 DEF JobState
  <2>3. NextLevel(t) \in JobState /\ NextLevel(t).level <= LastLevel(t)
    BY NextLevelType
  <2>4. job' = [job EXCEPT ![t] = taken] \/ job' = [job EXCEPT ![t] = NextLevel(t)]
    BY <1>7 DEF TakeLevel
  <2>5. job' \in [Compactors -> JobState] /\ \A u \in Compactors : job'[u].level <= LastLevel(u)
    BY <2>2, <2>3, <2>4, JobStep
  <2> QED BY <1>0, <1>7, <2>5 DEF TypeInv, TypeOK, TakeLevel, LastLevel
<1>8. ASSUME NEW t \in Compactors, Merge(t)
      PROVE  TypeInv'
  <2> DEFINE merged == Merged(files, job[t].inputs)
             empty == [job[t] EXCEPT !.pc = "remove"]
             full == [job[t] EXCEPT !.pc = "manifest", !.out = seq + 1]
  <2>1. job[t] \in JobState /\ seq \in Nat
    BY <1>0 DEF TypeOK
  <2>2. /\ empty \in JobState /\ empty.level <= LastLevel(t)
        /\ full \in JobState /\ full.level <= LastLevel(t)
    <3>1. seq + 1 \in Nat
      BY <2>1
    <3>2. full \in JobState /\ empty \in JobState
      BY <2>1, <3>1 DEF JobState
    <3>3. full.level = job[t].level /\ empty.level = job[t].level
      BY <2>1 DEF JobState
    <3> QED BY <1>0, <3>2, <3>3
  <2>3. job' = [job EXCEPT ![t] = empty] \/ job' = [job EXCEPT ![t] = full]
    BY <1>0, <1>8 DEF Merge, TypeOK
  <2>4. job' \in [Compactors -> JobState] /\ \A u \in Compactors : job'[u].level <= LastLevel(u)
    BY <2>2, <2>3, JobStep
  <2>5. merged \subseteq Record
    BY <1>0, <1>8, MergedType DEF Merge, TypeOK
  <2>6. DOMAIN files' \subseteq Nat /\ \A s \in DOMAIN files' : files'[s] \subseteq Record
    <3>1. files' = files \/ files' = With(files, seq + 1, merged)
      BY <1>8 DEF Merge
    <3>2. seq + 1 \in Nat /\ merged \in SUBSET Record
      BY <2>1, <2>5
    <3>3. DOMAIN files \subseteq Nat /\ \A s \in DOMAIN files : files[s] \in SUBSET Record
      BY <1>0 DEF TypeOK
    <3>4. DOMAIN files' \subseteq Nat /\ \A s \in DOMAIN files' : files'[s] \in SUBSET Record
      BY <3>1, <3>2, <3>3, WithType
    <3> QED BY <3>4
  <2> QED BY <1>0, <1>8, <2>4, <2>6 DEF TypeInv, TypeOK, Merge, LastLevel
<1>9. ASSUME NEW t \in Compactors, MergeFail(t)
      PROVE  TypeInv'
  <2>1. NoJob.level <= LastLevel(t)
    BY NoJobType DEF LastLevel
  <2>2. job' \in [Compactors -> JobState] /\ \A u \in Compactors : job'[u].level <= LastLevel(u)
    BY <1>9, <2>1, NoJobType, JobStep DEF MergeFail
  <2> QED BY <1>0, <1>9, <2>2 DEF TypeInv, TypeOK, MergeFail, LastLevel
<1>10. ASSUME NEW t \in Compactors, CompactManifest(t)
       PROVE  TypeInv'
  <2> DEFINE j == [job[t] EXCEPT !.pc = "publish"]
  <2>1. job[t] \in JobState
    BY <1>0 DEF TypeOK
  <2>2. j \in JobState /\ j.level <= LastLevel(t)
    BY <1>0, <2>1 DEF JobState
  <2>3. job' \in [Compactors -> JobState] /\ \A u \in Compactors : job'[u].level <= LastLevel(u)
    BY <1>10, <2>2, JobStep DEF CompactManifest
  <2>4. job[t].out \in Nat /\ job[t].level + 1 \in Levels
    BY <2>1 DEF JobState, Levels
  <2>5. DOMAIN manifest' \subseteq Nat /\ \A s \in DOMAIN manifest' : manifest'[s] \in Levels
    BY <1>0, <1>10, <2>4 DEF TypeOK, CompactManifest, With, Without
  <2> QED BY <1>0, <1>10, <2>3, <2>5 DEF TypeInv, TypeOK, CompactManifest, LastLevel
<1>11. ASSUME NEW t \in Compactors, CompactPublish(t)
       PROVE  TypeInv'
  <2> DEFINE j == [job[t] EXCEPT !.pc = "remove"]
  <2>1. job[t] \in JobState
    BY <1>0 DEF TypeOK
  <2>2. j \in JobState /\ j.level <= LastLevel(t)
    BY <1>0, <2>1 DEF JobState
  <2>3. job' \in [Compactors -> JobState] /\ \A u \in Compactors : job'[u].level <= LastLevel(u)
    BY <1>11, <2>2, JobStep DEF CompactPublish
  <2>4. job[t].out \in Nat /\ job[t].level + 1 \in Levels
    BY <2>1 DEF JobState, Levels
  <2>5. DOMAIN registry' \subseteq Nat /\ \A s \in DOMAIN registry' : registry'[s] \in Levels
    <3>1. registry' = With(registry, job[t].out, job[t].level + 1)
      BY <1>11 DEF CompactPublish
    <3>2. DOMAIN registry \subseteq Nat /\ \A s \in DOMAIN registry : registry[s] \in Levels
      BY <1>0 DEF TypeOK
    <3> QED BY <2>4, <3>1, <3>2, WithType
  <2> QED BY <1>0, <1>11, <2>3, <2>5 DEF TypeInv, TypeOK, CompactPublish, LastLevel
<1>12. ASSUME NEW t \in Compactors, CompactRemove(t)
       PROVE  TypeInv'
  <2> DEFINE j == [job[t] EXCEPT !.pc = "delete"]
  <2>1. job[t] \in JobState
    BY <1>0 DEF TypeOK
  <2>2. j \in JobState /\ j.level <= LastLevel(t)
    BY <1>0, <2>1 DEF JobState
  <2>3. job' \in [Compactors -> JobState] /\ \A u \in Compactors : job'[u].level <= LastLevel(u)
    BY <1>12, <2>2, JobStep DEF CompactRemove
  <2>4. DOMAIN registry' \subseteq Nat /\ \A s \in DOMAIN registry' : registry'[s] \in Levels
    <3>1. registry' = Without(registry, job[t].inputs)
      BY <1>12 DEF CompactRemove
    <3>2. DOMAIN registry \subseteq Nat /\ \A s \in DOMAIN registry : registry[s] \in Levels
      BY <1>0 DEF TypeOK
    <3> QED BY <3>1, <3>2, WithoutType
  <2> QED BY <1>0, <1>12, <2>3, <2>4 DEF TypeInv, TypeOK, CompactRemove, LastLevel
<1>13. ASSUME NEW t \in Compactors, CompactDelete(t)
       PROVE  TypeInv'
  <2>1. job' \in [Compactors -> JobState] /\ \A u \in Compactors : job'[u].level <= LastLevel(u)
    BY <1>13, NextLevelType, JobStep DEF CompactDelete
  <2>2. DOMAIN files' \subseteq Nat /\ \A s \in DOMAIN files' : files'[s] \subseteq Record
    <3>1. files' = Without(files, job[t].inputs)
      BY <1>13 DEF CompactDelete
    <3>2. DOMAIN files \subseteq Nat /\ \A s \in DOMAIN files : files[s] \in SUBSET Record
      BY <1>0 DEF TypeOK
    <3>3. DOMAIN files' \subseteq Nat /\ \A s \in DOMAIN files' : files'[s] \in SUBSET Record
      BY <3>1, <3>2, WithoutType
    <3> QED BY <3>3
  <2> QED BY <1>0, <1>13, <2>1, <2>2 DEF TypeInv, TypeOK, CompactDelete, LastLevel
<1>14. ASSUME NEW tear \in BOOLEAN, CrashRestart(tear)
       PROVE  TypeInv'
  <2>1. registry' = [s \in Loadable |-> manifest[s]] /\ Loadable \subseteq DOMAIN manifest
    BY <1>14 DEF CrashRestart, Loadable
  <2>2. DOMAIN registry' \subseteq Nat /\ \A s \in DOMAIN registry' : registry'[s] \in Levels
    BY <1>0, <2>1 DEF TypeOK
  <2>3. seq' \in Nat
    BY <1>14, <2>2 DEF CrashRestart
  <2>4. nextVersion' \in Nat
    <3>1. \A i \in DOMAIN wal : wal[i].version \in Nat
      <4>1. \A i \in DOMAIN wal : wal[i] \in Record
        BY <1>0, LenProperties DEF TypeOK
      <4> QED BY <4>1 DEF Record
    <3> QED BY <1>14, <3>1 DEF CrashRestart
  <2>5. memtable' \subseteq Record
    BY <1>0, <1>14, ReplayType DEF TypeOK, CrashRestart
  <2>6. flush' \in [Clients -> FlushState]
    BY <1>14, NoFlushType DEF CrashRestart
  <2>7. job' \in [Compactors -> JobState] /\ \A u \in Compactors : job'[u].level <= LastLevel(u)
    <3>1. \A u \in Compactors : NoJob.level <= LastLevel(u)
      BY NoJobType DEF LastLevel
    <3> QED BY <1>14, <3>1, NoJobType DEF CrashRestart
  <2>8. torn' \in BOOLEAN /\ flushing' \in BOOLEAN
    BY <1>0, <1>14 DEF CrashRestart, TypeOK
  <2>9. crashes' \in Nat
    BY <1>0, <1>14 DEF CrashRestart, TypeOK
  <2> QED BY <1>0, <1>14, <2>2, <2>3, <2>4, <2>5, <2>6, <2>7, <2>8, <2>9
          DEF TypeInv, TypeOK, CrashRestart, LastLevel
<1>15. CASE UNCHANGED vars
  BY <1>0, <1>15 DEF TypeInv, TypeOK, vars, LastLevel
<1> QED
  BY <1>1, <1>2, <1>3, <1>4, <1>5, <1>6, <1>7, <1>8, <1>9, <1>10, <1>11, <1>12, <1>13,
     <1>14, <1>15 DEF Next, ClientStep, FlushStep, CompactStep

\* The state of the engine has the types its code gives it: in particular no
\* SSTable is ever written below level 3, the deepest that COMPACT reaches.
THEOREM TypeCorrect == Spec => []TypeOK
<1>1. Spec => []TypeInv
  BY InitType, StepType, PTL DEF Spec
<1>2. TypeInv => TypeOK
  BY DEF TypeInv
<1> QED BY <1>1, <1>2, PTL

----------------------------------------------------------------------------
(* The log and the MemTable.  Given the types the property is inductive: no  *)
(* action touches one of the two without the other, but for a torn tail, and *)
(* a write stamps what it appends no earlier than what it applies.           *)

\* At every moment a crash and restart would rebuild the MemTable that is lost,
\* the same values and versions under timestamps that are never earlier, unless
\* a torn log entry hides what was appended after it.
THEOREM LogRebuildsMemtable == Spec => []MemtableIsWalReplay
<1>1. Init => MemtableIsWalReplay
  BY ReplayEmpty, RestampedSelf DEF Init, MemtableIsWalReplay
<1>2. TypeInv /\ MemtableIsWalReplay /\ [Next]_vars => MemtableIsWalReplay'
  <2> SUFFICES ASSUME TypeInv, MemtableIsWalReplay, [Next]_vars, ~torn'
               PROVE  Restamped(memtable', Replay(wal'))
    BY DEF MemtableIsWalReplay
  <2> USE DEF disk, memory, budget, history
  <2>0. wal \in Seq(Record) /\ (torn \/ Restamped(memtable, Replay(wal)))
    BY DEF TypeInv, TypeOK, MemtableIsWalReplay
  <2>1. ASSUME NEW c \in Clients, NEW r \in Record, NEW ts \in Nat, r.timestamp <= ts,
               Write(c, r, ts)
        PROVE  Restamped(memtable', Replay(wal'))
    <3> DEFINE entry == [r EXCEPT !.timestamp = ts]
    <3>1. ~torn
      BY <2>1 DEF Write
    <3>2. wal' = Append(wal, entry) /\ memtable' = Upsert(memtable, r)
      BY <2>1, <3>1 DEF Write
    <3>3. entry \in Record /\ Restamp(r, entry)
      BY <2>1, EntryRestamps
    <3> HIDE DEF entry
    <3>4. Replay(wal') = Upsert(Replay(wal), entry)
      BY <2>0, <3>2, <3>3, ReplayAppend
    <3>5. Restamped(memtable, Replay(wal))
      BY <2>0, <3>1
    <3> QED BY <3>2, <3>3, <3>4, <3>5, UpsertRestamped
  <2>2. ASSUME NEW c \in Clients, NEW k \in Keys, Set(c, k) \/ Delete(c, k)
        PROVE  Restamped(memtable', Replay(wal'))
    BY <2>1, <2>2, NewRecordType DEF Set, Delete
  <2>3. ASSUME NEW c \in Clients, NEW r \in ForeignRecords, RepairSet(c, r)
        PROVE  Restamped(memtable', Replay(wal'))
    <3>1. r \in Record /\ r.timestamp \in Nat /\ r.timestamp <= r.timestamp
      BY ConstantsAssumption DEF Record
    <3> QED BY <2>1, <2>3, <3>1 DEF RepairSet
  <2>4. ASSUME NEW c \in Clients, FlushClear(c)
        PROVE  Restamped(memtable', Replay(wal'))
    BY <2>4, ReplayEmpty, RestampedSelf DEF FlushClear
  <2>5. ASSUME NEW tear \in BOOLEAN, CrashRestart(tear)
        PROVE  Restamped(memtable', Replay(wal'))
    <3>1. memtable' = Replay(wal) /\ wal' = wal
      BY <2>5 DEF CrashRestart
    <3> QED BY <2>0, <3>1, ReplayType, RestampedSelf
  <2>6. ASSUME UNCHANGED <<wal, torn, memtable>>
        PROVE  Restamped(memtable', Replay(wal'))
    BY <2>0, <2>6
  <2>7. ASSUME NEW c \in Clients,
               FlushCommand(c) \/ FlushWrite(c) \/ FlushPublish(c) \/ FlushFail(c)
        PROVE  Restamped(memtable', Replay(wal'))
    BY <2>6, <2>7 DEF FlushCommand, FlushWrite, FlushPublish, FlushFail
  <2>8. ASSUME NEW t \in Compactors, CompactStep(t)
        PROVE  Restamped(memtable', Replay(wal'))
    BY <2>6, <2>8 DEF CompactStep, TakeLevel, Merge, MergeFail, CompactManifest,
                      CompactPublish, CompactRemove, CompactDelete
  <2>9. CASE UNCHANGED vars
    BY <2>6, <2>9 DEF vars
  <2> QED
    BY <2>2, <2>3, <2>4, <2>5, <2>7, <2>8, <2>9 DEF Next, ClientStep, FlushStep
<1>3. Spec => []TypeInv
  BY InitType, StepType, PTL DEF Spec
<1> QED BY <1>1, <1>2, <1>3, PTL DEF Spec

----------------------------------------------------------------------------
(* Durability of the live SSTables.                                          *)
(*                                                                           *)
(* RegisteredTablesAreDurable is not inductive: a compaction deletes its     *)
(* input files whoever reads them.  It holds because a sequence number, once *)
(* taken, is used for one table only (FreshInv, KnownInv), because a table   *)
(* is on disk and listed before it is live (UnpublishedInv), and because     *)
(* inputs are out of the registry before their files go (RetiredInv).        *)

\* A table under way: taken a number, and not in the registry yet.
Writing(c) == flush[c].pc \in {"write", "written"}
Merging(t) == job[t].pc \in {"manifest", "publish"}

\* No table, live or merging, has a sequence number that is still to be taken.
KnownInv ==
    /\ \A s \in DOMAIN registry : s <= seq
    /\ \A t \in Compactors : \A s \in job[t].inputs : s <= seq

\* Number s is taken, and no table that is read or merged has it.
Fresh(s) ==
    /\ s <= seq
    /\ s \notin DOMAIN registry
    /\ \A t \in Compactors : s \notin job[t].inputs

\* Tables under way have fresh numbers, each its own.
FreshInv ==
    /\ \A c \in Clients : Writing(c) => Fresh(flush[c].seq)
    /\ \A t \in Compactors : Merging(t) => Fresh(job[t].out)
    /\ \A c, d \in Clients : Writing(c) /\ Writing(d) /\ flush[c].seq = flush[d].seq => c = d
    /\ \A t, u \in Compactors : Merging(t) /\ Merging(u) /\ job[t].out = job[u].out => t = u
    /\ \A c \in Clients, t \in Compactors : Writing(c) /\ Merging(t) => flush[c].seq # job[t].out

\* What is about to be published has its file and its place in the MANIFEST.
UnpublishedInv ==
    /\ \A c \in Clients : flush[c].pc = "written" => flush[c].seq \in DOMAIN files
    /\ \A t \in Compactors : Merging(t) => job[t].out \in DOMAIN files
    /\ \A t \in Compactors :
          job[t].pc = "publish" =>
          job[t].out \in DOMAIN manifest /\ manifest[job[t].out] = job[t].level + 1

\* A thread that deletes its inputs has taken them out of the registry.
RetiredInv ==
    \A t \in Compactors :
        job[t].pc = "delete" => \A s \in job[t].inputs : s \notin DOMAIN registry

\* The inductive invariant.
IInv ==
    /\ TypeInv
    /\ KnownInv /\ FreshInv /\ UnpublishedInv /\ RetiredInv
    /\ RegisteredTablesAreDurable

\* The parts of IInv that an action may disturb, all but the types.
TableInv ==
    KnownInv /\ FreshInv /\ UnpublishedInv /\ RetiredInv /\ RegisteredTablesAreDurable

\* What the lemmas below need of the types.
LEMMA InvTypes ==
  ASSUME TypeInv
  PROVE  /\ seq \in Nat /\ DOMAIN registry \subseteq Nat
         /\ DOMAIN flush = Clients /\ DOMAIN job = Compactors
         /\ flush \in [Clients -> FlushState] /\ job \in [Compactors -> JobState]
         /\ \A c \in Clients : flush[c].seq \in Nat
         /\ \A t \in Compactors : job[t].out \in Nat /\ job[t].inputs \subseteq Nat
  BY DEF TypeInv, TypeOK, FlushState, JobState

\* Nothing but flushes ends or goes on.
LEMMA FlushEnds ==
  ASSUME IInv, UNCHANGED <<files, manifest, registry, job, seq>>,
         \A c \in Clients : Writing(c)' => flush'[c] = flush[c]
  PROVE  TableInv'
<1> USE DEF IInv
<1>1. KnownInv'
  BY DEF KnownInv
<1>2. FreshInv'
  BY DEF FreshInv, Fresh, Writing, Merging
<1>3. UnpublishedInv'
  BY DEF UnpublishedInv, Writing, Merging
<1>4. RetiredInv'
  BY DEF RetiredInv
<1>5. RegisteredTablesAreDurable'
  BY DEF RegisteredTablesAreDurable
<1> QED BY <1>1, <1>2, <1>3, <1>4, <1>5 DEF TableInv

\* A flush begins with a sequence number that no table has.
LEMMA FlushBegins ==
  ASSUME IInv, NEW c \in Clients, NEW mem, BeginFlush(c, mem),
         UNCHANGED <<files, manifest, registry, job>>
  PROVE  TableInv'
<1>0. KnownInv /\ FreshInv /\ UnpublishedInv /\ RetiredInv /\ RegisteredTablesAreDurable
  BY DEF IInv
<1>1. /\ seq \in Nat /\ seq' = seq + 1
      /\ \A s \in DOMAIN registry : s \in Nat /\ s <= seq
      /\ \A t \in Compactors : \A s \in job[t].inputs : s \in Nat /\ s <= seq
      /\ \A t \in Compactors : job[t].out \in Nat
      /\ \A d \in Clients : flush[d].seq \in Nat
  BY <1>0, InvTypes DEF BeginFlush, KnownInv, IInv
<1>2. /\ \A d \in Clients : d # c => flush'[d] = flush[d]
      /\ \/ flush'[c] = flush[c]
         \/ flush'[c].seq = seq + 1 /\ flush'[c].pc = "write"
  BY InvTypes DEF BeginFlush, IInv
<1>3. KnownInv'
  BY <1>1 DEF KnownInv
<1>4. /\ \A d \in Clients : Writing(d) => Fresh(flush[d].seq)
      /\ \A t \in Compactors : Merging(t) => Fresh(job[t].out)
  BY <1>0 DEF FreshInv
<1>5. \A d \in Clients : Writing(d)' => \/ Writing(d) /\ flush'[d] = flush[d]
                                        \/ d = c /\ flush'[d].seq = seq + 1
  BY <1>2 DEF Writing
<1>6. FreshInv'
  <2>1. ASSUME NEW d \in Clients, Writing(d)' PROVE Fresh(flush[d].seq)'
    BY <1>1, <1>4, <1>5, <2>1 DEF Fresh
  <2>2. ASSUME NEW t \in Compactors, Merging(t)' PROVE Fresh(job[t].out)'
    BY <1>1, <1>4, <2>2 DEF Fresh, Merging
  <2>3. ASSUME NEW d \in Clients, NEW e \in Clients, Writing(d)', Writing(e)',
               flush'[d].seq = flush'[e].seq
        PROVE  d = e
    BY <1>0, <1>1, <1>4, <1>5, <2>3 DEF Fresh, FreshInv
  <2>4. ASSUME NEW d \in Clients, NEW t \in Compactors, Writing(d)', Merging(t)'
        PROVE  flush'[d].seq # job'[t].out
    BY <1>0, <1>1, <1>4, <1>5, <2>4 DEF Fresh, FreshInv, Merging
  <2>5. ASSUME NEW t \in Compactors, NEW u \in Compactors, Merging(t)', Merging(u)',
               job'[t].out = job'[u].out
        PROVE  t = u
    BY <1>0, <2>5 DEF FreshInv, Merging
  <2> QED BY <2>1, <2>2, <2>3, <2>4, <2>5 DEF FreshInv
<1>7. UnpublishedInv'
  BY <1>0, <1>2 DEF UnpublishedInv, Merging
<1>8. RetiredInv'
  BY <1>0 DEF RetiredInv
<1>9. RegisteredTablesAreDurable'
  BY <1>0 DEF RegisteredTablesAreDurable
<1> QED BY <1>3, <1>6, <1>7, <1>8, <1>9 DEF TableInv

\* The file of a flush is written under a number no live table has.
LEMMA FlushWriteKeeps ==
  ASSUME IInv, NEW c \in Clients, FlushWrite(c)
  PROVE  TableInv'
<1>0. KnownInv /\ FreshInv /\ UnpublishedInv /\ RetiredInv /\ RegisteredTablesAreDurable
  BY DEF IInv
<1> USE DEF disk, memory, budget, history
<1>1. /\ UNCHANGED <<manifest, registry, job, seq>>
      /\ DOMAIN files' = DOMAIN files \cup {flush[c].seq}
      /\ Writing(c) /\ flush'[c].seq = flush[c].seq
      /\ \A d \in Clients : d # c => flush'[d] = flush[d]
  <2>1. UNCHANGED <<manifest, registry, job, seq>>
    BY DEF FlushWrite
  <2>2. DOMAIN files' = DOMAIN files \cup {flush[c].seq}
    <3>1. files' = With(files, flush[c].seq, flush[c].recs)
      BY DEF FlushWrite
    <3> QED BY <3>1 DEF With
  <2>3. /\ Writing(c) /\ flush'[c].seq = flush[c].seq
        /\ \A d \in Clients : d # c => flush'[d] = flush[d]
    BY InvTypes DEF IInv, FlushWrite, Writing, FlushState
  <2> QED BY <2>1, <2>2, <2>3
<1>2. \A d \in Clients : Writing(d)' => Writing(d) /\ flush'[d].seq = flush[d].seq
  BY <1>1 DEF Writing
<1>3. KnownInv' /\ RetiredInv'
  BY <1>0, <1>1 DEF KnownInv, RetiredInv
<1>4. FreshInv'
  <2>1. \A t \in Compactors : Merging(t)' <=> Merging(t)
    BY <1>1 DEF Merging
  <2> QED BY <1>0, <1>1, <1>2, <2>1 DEF FreshInv, Fresh
<1>5. UnpublishedInv'
  BY <1>0, <1>1 DEF UnpublishedInv, Merging
<1>6. RegisteredTablesAreDurable'
  BY <1>0, <1>1 DEF RegisteredTablesAreDurable
<1> QED BY <1>3, <1>4, <1>5, <1>6 DEF TableInv

\* The flushed table is on disk and in the MANIFEST when it becomes live.
LEMMA FlushPublishKeeps ==
  ASSUME IInv, NEW c \in Clients, FlushPublish(c)
  PROVE  TableInv'
<1> DEFINE new == flush[c].seq
<1>0. KnownInv /\ FreshInv /\ UnpublishedInv /\ RetiredInv /\ RegisteredTablesAreDurable
  BY DEF IInv
<1> USE DEF disk, memory, budget, history
<1>1. /\ UNCHANGED <<files, job, seq>>
      /\ DOMAIN manifest' = DOMAIN manifest \cup {new} /\ manifest'[new] = 0
      /\ \A s \in DOMAIN manifest : s # new => manifest'[s] = manifest[s]
      /\ DOMAIN registry' = DOMAIN registry \cup {new} /\ registry'[new] = 0
      /\ \A s \in DOMAIN registry : s # new => registry'[s] = registry[s]
      /\ flush[c].pc = "written" /\ flush'[c].pc = "publish"
      /\ \A d \in Clients : d # c => flush'[d] = flush[d]
  <2>1. UNCHANGED <<files, job, seq>>
    BY DEF FlushPublish
  <2>2. manifest' = With(manifest, new, 0) /\ registry' = With(registry, new, 0)
    BY DEF FlushPublish
  <2>3. /\ flush[c].pc = "written" /\ flush'[c].pc = "publish"
        /\ \A d \in Clients : d # c => flush'[d] = flush[d]
    BY InvTypes DEF IInv, FlushPublish, FlushState
  <2>4. /\ DOMAIN manifest' = DOMAIN manifest \cup {new} /\ manifest'[new] = 0
        /\ \A s \in DOMAIN manifest : s # new => manifest'[s] = manifest[s]
    BY <2>2 DEF With
  <2>5. /\ DOMAIN registry' = DOMAIN registry \cup {new} /\ registry'[new] = 0
        /\ \A s \in DOMAIN registry : s # new => registry'[s] = registry[s]
    BY <2>2 DEF With
  <2> QED BY <2>1, <2>3, <2>4, <2>5
<1>2. \A d \in Clients : Writing(d)' => d # c /\ Writing(d) /\ flush'[d] = flush[d]
  BY <1>1 DEF Writing
<1>3. \A t \in Compactors : Merging(t)' <=> Merging(t)
  BY <1>1 DEF Merging
<1>4. Writing(c) /\ Fresh(new)
  BY <1>0, <1>1 DEF FreshInv, Writing
<1>5. KnownInv'
  BY <1>0, <1>1, <1>4 DEF KnownInv, Fresh
<1>6. FreshInv'
  <2>1. \A d \in Clients : Writing(d)' => flush[d].seq # new
    BY <1>0, <1>2, <1>4 DEF FreshInv
  <2>2. \A t \in Compactors : Merging(t) => job[t].out # new
    BY <1>0, <1>4 DEF FreshInv
  <2> QED BY <1>0, <1>1, <1>2, <1>3, <2>1, <2>2 DEF FreshInv, Fresh
<1>7. UnpublishedInv'
  <2>1. \A t \in Compactors : Merging(t) => job[t].out # new
    BY <1>0, <1>4 DEF FreshInv
  <2> QED BY <1>0, <1>1, <1>3, <2>1 DEF UnpublishedInv, Merging
<1>8. RetiredInv'
  BY <1>0, <1>1, <1>4 DEF RetiredInv, Fresh
<1>9. RegisteredTablesAreDurable'
  BY <1>0, <1>1 DEF RegisteredTablesAreDurable, UnpublishedInv
<1> QED BY <1>5, <1>6, <1>7, <1>8, <1>9 DEF TableInv

\* A compaction takes live tables as its inputs.
LEMMA TakeLevelKeeps ==
  ASSUME IInv, NEW t \in Compactors, TakeLevel(t)
  PROVE  TableInv'
<1>0. KnownInv /\ FreshInv /\ UnpublishedInv /\ RetiredInv /\ RegisteredTablesAreDurable
  BY DEF IInv
<1> USE DEF disk, memory, budget, history
<1>1. /\ UNCHANGED <<files, manifest, registry, seq, flush>>
      /\ job[t].pc = "scan" /\ job'[t].pc \in {"merge", "scan"}
      /\ job'[t].inputs \subseteq DOMAIN registry
      /\ \A u \in Compactors : u # t => job'[u] = job[u]
  BY InvTypes DEF IInv, TakeLevel, Tables, NextLevel, NoJob, JobState
<1>2. \A u \in Compactors : Merging(u)' => u # t /\ Merging(u) /\ job'[u] = job[u]
  BY <1>1 DEF Merging
<1>3. KnownInv'
  BY <1>0, <1>1 DEF KnownInv
<1>4. \A s : Fresh(s) => Fresh(s)'
  BY <1>1 DEF Fresh
<1>5. FreshInv'
  <2>1. \A d \in Clients : Writing(d)' <=> Writing(d)
    BY <1>1 DEF Writing
  <2>2. \A d \in Clients : Writing(d)' => Fresh(flush[d].seq)'
    BY <1>0, <1>1, <1>4, <2>1 DEF FreshInv
  <2>3. \A u \in Compactors : Merging(u)' => Fresh(job[u].out)'
    BY <1>0, <1>1, <1>2, <1>4 DEF FreshInv, Fresh
  <2> QED BY <1>0, <1>1, <1>2, <2>1, <2>2, <2>3 DEF FreshInv
<1>6. UnpublishedInv'
  BY <1>0, <1>1, <1>2 DEF UnpublishedInv, Merging
<1>7. RetiredInv'
  BY <1>0, <1>1 DEF RetiredInv
<1>8. RegisteredTablesAreDurable'
  BY <1>0, <1>1 DEF RegisteredTablesAreDurable
<1> QED BY <1>3, <1>5, <1>6, <1>7, <1>8 DEF TableInv

\* A merge takes a sequence number that no table has and writes its file.
LEMMA MergeKeeps ==
  ASSUME IInv, NEW t \in Compactors, Merge(t)
  PROVE  TableInv'
<1>0. KnownInv /\ FreshInv /\ UnpublishedInv /\ RetiredInv /\ RegisteredTablesAreDurable
  BY DEF IInv
<1> USE DEF disk, memory, budget, history
<1>1. /\ seq \in Nat
      /\ \A s \in DOMAIN registry : s \in Nat /\ s <= seq
      /\ \A u \in Compactors : \A s \in job[u].inputs : s \in Nat /\ s <= seq
      /\ \A u \in Compactors : job[u].out \in Nat
      /\ \A d \in Clients : flush[d].seq \in Nat
  BY <1>0, InvTypes DEF KnownInv, IInv
<1>2. /\ UNCHANGED <<manifest, registry, flush>> /\ seq' = seq + 1
      /\ job[t].pc = "merge" /\ job'[t].inputs = job[t].inputs
      /\ \A u \in Compactors : u # t => job'[u] = job[u]
      /\ \/ files' = files /\ job'[t].pc = "remove"
         \/ /\ DOMAIN files' = DOMAIN files \cup {seq + 1}
            /\ job'[t].pc = "manifest" /\ job'[t].out = seq + 1
  <2>1. UNCHANGED <<manifest, registry, flush>> /\ seq' = seq + 1
    BY DEF Merge
  <2>2. job[t].pc = "merge" /\ job \in [Compactors -> JobState] /\ job[t] \in JobState
    BY InvTypes DEF IInv, Merge
  <2>3. \/ files' = files /\ job' = [job EXCEPT ![t].pc = "remove"]
        \/ /\ DOMAIN files' = DOMAIN files \cup {seq + 1}
           /\ job' = [job EXCEPT ![t].pc = "manifest", ![t].out = seq + 1]
    BY DEF Merge, With
  <2>4. CASE files' = files /\ job' = [job EXCEPT ![t].pc = "remove"]
    BY <2>1, <2>2, <2>4 DEF JobState
  <2>5. CASE /\ DOMAIN files' = DOMAIN files \cup {seq + 1}
             /\ job' = [job EXCEPT ![t].pc = "manifest", ![t].out = seq + 1]
    BY <2>1, <2>2, <2>5 DEF JobState
  <2> QED BY <2>3, <2>4, <2>5
<1>3. KnownInv'
  BY <1>1, <1>2 DEF KnownInv
<1>4. /\ \A d \in Clients : Writing(d) => Fresh(flush[d].seq)
      /\ \A u \in Compactors : Merging(u) => Fresh(job[u].out)
  BY <1>0 DEF FreshInv
<1>5. \A u \in Compactors : Merging(u)' => \/ u # t /\ Merging(u) /\ job'[u] = job[u]
                                           \/ u = t /\ job'[u].out = seq + 1
  BY <1>2 DEF Merging
<1>6. FreshInv'
  <2>1. ASSUME NEW d \in Clients, Writing(d)' PROVE Fresh(flush[d].seq)'
    BY <1>1, <1>2, <1>4, <2>1 DEF Fresh, Writing
  <2>2. ASSUME NEW u \in Compactors, Merging(u)' PROVE Fresh(job[u].out)'
    <3>1. CASE u = t
      BY <1>1, <1>2, <1>5, <2>2, <3>1 DEF Fresh
    <3>2. CASE u # t
      BY <1>1, <1>2, <1>4, <1>5, <2>2, <3>2 DEF Fresh
    <3> QED BY <3>1, <3>2
  <2>3. ASSUME NEW d \in Clients, NEW e \in Clients, Writing(d)', Writing(e)',
               flush'[d].seq = flush'[e].seq
        PROVE  d = e
    BY <1>0, <1>2, <2>3 DEF FreshInv, Writing
  <2>4. ASSUME NEW d \in Clients, NEW u \in Compactors, Writing(d)', Merging(u)'
        PROVE  flush'[d].seq # job'[u].out
    <3>1. Writing(d) /\ flush'[d] = flush[d] /\ flush[d].seq <= seq
      BY <1>2, <1>4, <2>4 DEF Writing, Fresh
    <3> QED BY <1>0, <1>1, <1>5, <2>4, <3>1 DEF FreshInv
  <2>5. ASSUME NEW u \in Compactors, NEW v \in Compactors, Merging(u)', Merging(v)',
               job'[u].out = job'[v].out
        PROVE  u = v
    <3>1. \A w \in Compactors : Merging(w) => job[w].out <= seq
      BY <1>4 DEF Fresh
    <3> QED BY <1>0, <1>1, <1>5, <2>5, <3>1 DEF FreshInv
  <2> QED BY <2>1, <2>2, <2>3, <2>4, <2>5 DEF FreshInv
<1>7. UnpublishedInv'
  BY <1>0, <1>2 DEF UnpublishedInv, Merging
<1>8. RetiredInv'
  BY <1>0, <1>2 DEF RetiredInv
<1>9. RegisteredTablesAreDurable'
  <2> SUFFICES ASSUME NEW s \in DOMAIN registry'
               PROVE  /\ s \in DOMAIN files'
                      /\ \/ s \in DOMAIN manifest' /\ manifest'[s] = registry'[s]
                         \/ \E u \in Compactors :
                               job'[u].pc \in {"publish", "remove"} /\ s \in job'[u].inputs
    BY DEF RegisteredTablesAreDurable
  <2>1. /\ s \in DOMAIN files
        /\ \/ s \in DOMAIN manifest /\ manifest[s] = registry[s]
           \/ \E u \in Compactors :
                 job[u].pc \in {"publish", "remove"} /\ s \in job[u].inputs
    BY <1>0, <1>2 DEF RegisteredTablesAreDurable
  <2> QED BY <1>2, <2>1
<1> QED BY <1>3, <1>6, <1>7, <1>8, <1>9 DEF TableInv

\* A merge that fails leaves at most a number unused.
LEMMA MergeFailKeeps ==
  ASSUME IInv, NEW t \in Compactors, MergeFail(t)
  PROVE  TableInv'
<1>0. KnownInv /\ FreshInv /\ UnpublishedInv /\ RetiredInv /\ RegisteredTablesAreDurable
  BY DEF IInv
<1> USE DEF disk, memory, budget, history
<1>1. /\ seq \in Nat
      /\ \A s \in DOMAIN registry : s \in Nat /\ s <= seq
      /\ \A u \in Compactors : \A s \in job[u].inputs : s \in Nat /\ s <= seq
      /\ \A u \in Compactors : job[u].out \in Nat
      /\ \A d \in Clients : flush[d].seq \in Nat
  BY <1>0, InvTypes DEF KnownInv, IInv
<1>2. /\ UNCHANGED <<files, manifest, registry, flush>> /\ seq' \in {seq, seq + 1}
      /\ job[t].pc = "merge" /\ job'[t].pc = "scan" /\ job'[t].inputs = {}
      /\ \A u \in Compactors : u # t => job'[u] = job[u]
  BY InvTypes DEF IInv, MergeFail, NoJob
<1>3. \A u \in Compactors : Merging(u)' => u # t /\ Merging(u) /\ job'[u] = job[u]
  BY <1>2 DEF Merging
<1>4. KnownInv'
  BY <1>1, <1>2 DEF KnownInv
<1>5. \A s \in Nat : Fresh(s) => Fresh(s)'
  BY <1>1, <1>2 DEF Fresh
<1>6. FreshInv'
  <2>1. \A d \in Clients : Writing(d)' <=> Writing(d)
    BY <1>2 DEF Writing
  <2>2. \A d \in Clients : Writing(d)' => Fresh(flush[d].seq)'
    BY <1>0, <1>1, <1>2, <1>5, <2>1 DEF FreshInv
  <2>3. \A u \in Compactors : Merging(u)' => Fresh(job[u].out)'
    BY <1>0, <1>1, <1>2, <1>3, <1>5 DEF FreshInv, Fresh
  <2> QED BY <1>0, <1>2, <1>3, <2>1, <2>2, <2>3 DEF FreshInv
<1>7. UnpublishedInv'
  BY <1>0, <1>2, <1>3 DEF UnpublishedInv, Merging
<1>8. RetiredInv'
  BY <1>0, <1>2 DEF RetiredInv
<1>9. RegisteredTablesAreDurable'
  BY <1>0, <1>2 DEF RegisteredTablesAreDurable
<1> QED BY <1>4, <1>6, <1>7, <1>8, <1>9 DEF TableInv

\* The MANIFEST loses the inputs, which from here on are excused, and gains
\* the output, whose number no live table and no other output has.
LEMMA CompactManifestKeeps ==
  ASSUME IInv, NEW t \in Compactors, CompactManifest(t)
  PROVE  TableInv'
<1> DEFINE new == job[t].out
<1>0. KnownInv /\ FreshInv /\ UnpublishedInv /\ RetiredInv /\ RegisteredTablesAreDurable
  BY DEF IInv
<1> USE DEF disk, memory, budget, history
<1>1. /\ UNCHANGED <<files, registry, seq, flush>>
      /\ job[t].pc = "manifest" /\ job'[t].pc = "publish"
      /\ job'[t].inputs = job[t].inputs /\ job'[t].out = new /\ job'[t].level = job[t].level
      /\ \A u \in Compactors : u # t => job'[u] = job[u]
  BY InvTypes DEF IInv, CompactManifest, JobState
<1>2. /\ \A s \in DOMAIN manifest : s # new /\ s \notin job[t].inputs =>
            s \in DOMAIN manifest' /\ manifest'[s] = manifest[s]
      /\ new \notin job[t].inputs =>
            new \in DOMAIN manifest' /\ manifest'[new] = job[t].level + 1
  <2>1. manifest' = Without(With(manifest, new, job[t].level + 1), job[t].inputs)
    BY DEF CompactManifest
  <2> QED BY <2>1 DEF With, Without
<1>3. Merging(t) /\ Fresh(new)
  BY <1>0, <1>1 DEF FreshInv, Merging
<1>4. \A u \in Compactors : Merging(u)' <=> Merging(u)
  BY <1>1 DEF Merging
<1>5. \A u \in Compactors : job'[u].inputs = job[u].inputs /\ job'[u].out = job[u].out
  BY <1>1
<1>6. KnownInv' /\ RetiredInv'
  BY <1>0, <1>1, <1>5 DEF KnownInv, RetiredInv
<1>7. FreshInv'
  <2>1. \A d \in Clients : Writing(d)' <=> Writing(d)
    BY <1>1 DEF Writing
  <2>2. \A s : Fresh(s)' <=> Fresh(s)
    BY <1>1, <1>5 DEF Fresh
  <2>3. \A d \in Clients : Writing(d)' => Fresh(flush[d].seq)'
    BY <1>0, <1>1, <2>1, <2>2 DEF FreshInv
  <2>4. \A u \in Compactors : Merging(u)' => Fresh(job[u].out)'
    BY <1>0, <1>1, <1>4, <1>5 DEF FreshInv, Fresh
  <2> QED BY <1>0, <1>1, <1>4, <1>5, <2>1, <2>3, <2>4 DEF FreshInv
<1>8. UnpublishedInv'
  <2>1. ASSUME NEW u \in Compactors, job'[u].pc = "publish"
        PROVE  job'[u].out \in DOMAIN manifest' /\ manifest'[job'[u].out] = job'[u].level + 1
    <3>1. CASE u = t
      BY <1>1, <1>2, <1>3, <3>1 DEF Fresh
    <3>2. CASE u # t
      <4>1. job'[u] = job[u] /\ Merging(u)
        BY <1>1, <2>1, <3>2 DEF Merging
      <4>2. job[u].out # new /\ job[u].out \notin job[t].inputs
        BY <1>0, <1>3, <3>2, <4>1 DEF FreshInv, Fresh
      <4> QED BY <1>0, <1>2, <2>1, <4>1, <4>2 DEF UnpublishedInv
    <3> QED BY <3>1, <3>2
  <2>2. \A u \in Compactors : Merging(u)' => job'[u].out \in DOMAIN files'
    BY <1>0, <1>1, <1>4, <1>5 DEF UnpublishedInv
  <2>3. \A d \in Clients : flush'[d].pc = "written" => flush'[d].seq \in DOMAIN files'
    BY <1>0, <1>1 DEF UnpublishedInv
  <2> QED BY <2>1, <2>2, <2>3 DEF UnpublishedInv
<1>9. RegisteredTablesAreDurable'
  <2> SUFFICES ASSUME NEW s \in DOMAIN registry'
               PROVE  /\ s \in DOMAIN files'
                      /\ \/ s \in DOMAIN manifest' /\ manifest'[s] = registry'[s]
                         \/ \E u \in Compactors :
                               job'[u].pc \in {"publish", "remove"} /\ s \in job'[u].inputs
    BY DEF RegisteredTablesAreDurable
  <2>1. /\ s \in DOMAIN files /\ s # new
        /\ \/ s \in DOMAIN manifest /\ manifest[s] = registry[s]
           \/ \E u \in Compactors :
                 job[u].pc \in {"publish", "remove"} /\ s \in job[u].inputs
    BY <1>0, <1>1, <1>3 DEF RegisteredTablesAreDurable, Fresh
  <2>2. CASE s \in job[t].inputs
    BY <1>1, <2>1, <2>2
  <2>3. CASE s \notin job[t].inputs
    BY <1>1, <1>2, <2>1, <2>3
  <2> QED BY <2>2, <2>3
<1> QED BY <1>6, <1>7, <1>8, <1>9 DEF TableInv

\* The output is on disk and listed when it becomes live.
LEMMA CompactPublishKeeps ==
  ASSUME IInv, NEW t \in Compactors, CompactPublish(t)
  PROVE  TableInv'
<1> DEFINE new == job[t].out
<1>0. KnownInv /\ FreshInv /\ UnpublishedInv /\ RetiredInv /\ RegisteredTablesAreDurable
  BY DEF IInv
<1> USE DEF disk, memory, budget, history
<1>1. /\ UNCHANGED <<files, manifest, seq, flush>>
      /\ job[t].pc = "publish" /\ job'[t].pc = "remove"
      /\ job'[t].inputs = job[t].inputs
      /\ \A u \in Compactors : u # t => job'[u] = job[u]
  BY InvTypes DEF IInv, CompactPublish, JobState
<1>2. /\ DOMAIN registry' = DOMAIN registry \cup {new} /\ registry'[new] = job[t].level + 1
      /\ \A s \in DOMAIN registry : s # new => registry'[s] = registry[s]
  <2>1. registry' = With(registry, new, job[t].level + 1)
    BY DEF CompactPublish
  <2> QED BY <2>1 DEF With
<1>3. Merging(t) /\ Fresh(new)
  BY <1>0, <1>1 DEF FreshInv, Merging
<1>4. \A u \in Compactors : Merging(u)' => u # t /\ Merging(u) /\ job'[u] = job[u]
  BY <1>1 DEF Merging
<1>5. \A u \in Compactors : job'[u].inputs = job[u].inputs
  BY <1>1
<1>6. KnownInv'
  BY <1>0, <1>1, <1>2, <1>3, <1>5 DEF KnownInv, Fresh
<1>7. \A s : Fresh(s) /\ s # new => Fresh(s)'
  BY <1>1, <1>2, <1>5 DEF Fresh
<1>8. FreshInv'
  <2>1. \A d \in Clients : (Writing(d)' <=> Writing(d)) /\ (Writing(d) => flush[d].seq # new)
    BY <1>0, <1>1, <1>3 DEF Writing, FreshInv
  <2>2. \A u \in Compactors : Merging(u) /\ u # t => job[u].out # new
    BY <1>0, <1>3 DEF FreshInv
  <2>3. \A d \in Clients : Writing(d)' => Fresh(flush[d].seq)'
    BY <1>0, <1>1, <1>7, <2>1 DEF FreshInv
  <2>4. \A u \in Compactors : Merging(u)' => Fresh(job[u].out)'
    BY <1>0, <1>1, <1>2, <1>4, <1>5, <2>2 DEF FreshInv, Fresh
  <2> QED BY <1>0, <1>1, <1>4, <2>1, <2>3, <2>4 DEF FreshInv
<1>9. UnpublishedInv'
  BY <1>0, <1>1, <1>4 DEF UnpublishedInv, Merging
<1>10. RetiredInv'
  BY <1>0, <1>1, <1>2, <1>3, <1>5 DEF RetiredInv, Fresh
<1>11. RegisteredTablesAreDurable'
  <2> SUFFICES ASSUME NEW s \in DOMAIN registry'
               PROVE  /\ s \in DOMAIN files'
                      /\ \/ s \in DOMAIN manifest' /\ manifest'[s] = registry'[s]
                         \/ \E u \in Compactors :
                               job'[u].pc \in {"publish", "remove"} /\ s \in job'[u].inputs
    BY DEF RegisteredTablesAreDurable
  <2>1. CASE s = new
    BY <1>0, <1>1, <1>2, <1>3, <2>1 DEF UnpublishedInv
  <2>2. CASE s # new
    <3>1. /\ s \in DOMAIN files /\ registry'[s] = registry[s]
          /\ \/ s \in DOMAIN manifest /\ manifest[s] = registry[s]
             \/ \E u \in Compactors :
                   job[u].pc \in {"publish", "remove"} /\ s \in job[u].inputs
      BY <1>0, <1>2, <2>2 DEF RegisteredTablesAreDurable
    <3> QED BY <1>1, <3>1
  <2> QED BY <2>1, <2>2
<1> QED BY <1>6, <1>8, <1>9, <1>10, <1>11 DEF TableInv

\* The inputs leave the registry with the thread that excused them.
LEMMA CompactRemoveKeeps ==
  ASSUME IInv, NEW t \in Compactors, CompactRemove(t)
  PROVE  TableInv'
<1>0. KnownInv /\ FreshInv /\ UnpublishedInv /\ RetiredInv /\ RegisteredTablesAreDurable
  BY DEF IInv
<1> USE DEF disk, memory, budget, history
<1>1. /\ UNCHANGED <<files, manifest, seq, flush>>
      /\ job[t].pc = "remove" /\ job'[t].pc = "delete"
      /\ job'[t].inputs = job[t].inputs
      /\ \A u \in Compactors : u # t => job'[u] = job[u]
  BY InvTypes DEF IInv, CompactRemove, JobState
<1>2. /\ DOMAIN registry' = DOMAIN registry \ job[t].inputs
      /\ \A s \in DOMAIN registry' : registry'[s] = registry[s]
  BY DEF CompactRemove, Without
<1>3. \A u \in Compactors : Merging(u)' => u # t /\ Merging(u) /\ job'[u] = job[u]
  BY <1>1 DEF Merging
<1>4. \A u \in Compactors : job'[u].inputs = job[u].inputs
  BY <1>1
<1>5. KnownInv' /\ RetiredInv'
  BY <1>0, <1>1, <1>2, <1>4 DEF KnownInv, RetiredInv
<1>6. FreshInv'
  <2>1. \A s : Fresh(s) => Fresh(s)'
    BY <1>1, <1>2, <1>4 DEF Fresh
  <2>2. \A d \in Clients : Writing(d)' <=> Writing(d)
    BY <1>1 DEF Writing
  <2>3. \A d \in Clients : Writing(d)' => Fresh(flush[d].seq)'
    BY <1>0, <1>1, <2>1, <2>2 DEF FreshInv
  <2>4. \A u \in Compactors : Merging(u)' => Fresh(job[u].out)'
    BY <1>0, <1>1, <1>2, <1>3, <1>4 DEF FreshInv, Fresh
  <2> QED BY <1>0, <1>1, <1>3, <2>2, <2>3, <2>4 DEF FreshInv
<1>7. UnpublishedInv'
  BY <1>0, <1>1, <1>3 DEF UnpublishedInv, Merging
<1>8. RegisteredTablesAreDurable'
  BY <1>0, <1>1, <1>2 DEF RegisteredTablesAreDurable
<1> QED BY <1>5, <1>6, <1>7, <1>8 DEF TableInv

\* Only files that are live nowhere, and no unpublished file, are deleted.
LEMMA CompactDeleteKeeps ==
  ASSUME IInv, NEW t \in Compactors, CompactDelete(t)
  PROVE  TableInv'
<1>0. KnownInv /\ FreshInv /\ UnpublishedInv /\ RetiredInv /\ RegisteredTablesAreDurable
  BY DEF IInv
<1> USE DEF disk, memory, budget, history
<1>1. /\ UNCHANGED <<manifest, registry, seq, flush>>
      /\ DOMAIN files' = DOMAIN files \ job[t].inputs
      /\ job[t].pc = "delete" /\ job'[t].pc = "scan" /\ job'[t].inputs = {}
      /\ \A u \in Compactors : u # t => job'[u] = job[u]
  <2>1. DOMAIN files' = DOMAIN files \ job[t].inputs
    BY DEF CompactDelete, Without
  <2> QED BY <2>1, InvTypes DEF IInv, CompactDelete, NextLevel, NoJob
<1>2. \A u \in Compactors : Merging(u)' => u # t /\ Merging(u) /\ job'[u] = job[u]
  BY <1>1 DEF Merging
<1>3. KnownInv' /\ RetiredInv'
  BY <1>0, <1>1 DEF KnownInv, RetiredInv
<1>4. FreshInv'
  <2>1. \A s : Fresh(s) => Fresh(s)'
    BY <1>1 DEF Fresh
  <2>2. \A d \in Clients : Writing(d)' <=> Writing(d)
    BY <1>1 DEF Writing
  <2>3. \A d \in Clients : Writing(d)' => Fresh(flush[d].seq)'
    BY <1>0, <1>1, <2>1, <2>2 DEF FreshInv
  <2>4. \A u \in Compactors : Merging(u)' => Fresh(job[u].out)'
    BY <1>0, <1>1, <1>2 DEF FreshInv, Fresh
  <2> QED BY <1>0, <1>1, <1>2, <2>2, <2>3, <2>4 DEF FreshInv
<1>5. UnpublishedInv'
  <2>1. \A d \in Clients : Writing(d) => flush[d].seq \notin job[t].inputs
    BY <1>0 DEF FreshInv, Fresh
  <2>2. \A u \in Compactors : Merging(u) => job[u].out \notin job[t].inputs
    BY <1>0 DEF FreshInv, Fresh
  <2> QED BY <1>0, <1>1, <1>2, <2>1, <2>2 DEF UnpublishedInv, Writing, Merging
<1>6. RegisteredTablesAreDurable'
  BY <1>0, <1>1 DEF RegisteredTablesAreDurable, RetiredInv
<1> QED BY <1>3, <1>4, <1>5, <1>6 DEF TableInv

\* A restart registers what is listed and on disk, and nothing is unpublished.
LEMMA CrashRestartKeeps ==
  ASSUME TypeInv, NEW tear \in BOOLEAN, CrashRestart(tear)
  PROVE  TableInv'
<1>1. /\ UNCHANGED <<files, manifest>>
      /\ registry' = [s \in Loadable |-> manifest[s]]
      /\ \A s \in DOMAIN registry' : s <= seq'
      /\ \A c \in Clients : flush'[c].pc = "idle"
      /\ \A t \in Compactors : job'[t].pc = "scan" /\ job'[t].inputs = {}
  BY DEF CrashRestart, NoFlush, NoJob
<1>2. KnownInv' /\ RetiredInv'
  BY <1>1 DEF KnownInv, RetiredInv
<1>3. FreshInv'
  BY <1>1 DEF FreshInv, Writing, Merging
<1>4. UnpublishedInv'
  BY <1>1 DEF UnpublishedInv, Merging
<1>5. RegisteredTablesAreDurable'
  BY <1>1 DEF RegisteredTablesAreDurable, Loadable
<1> QED BY <1>2, <1>3, <1>4, <1>5 DEF TableInv

\* A node starts without tables.
LEMMA InitTables == Init => TableInv
<1> SUFFICES ASSUME Init PROVE TableInv
  OBVIOUS
<1>1. DOMAIN registry = {}
  BY DEF Init
<1>2. \A c \in Clients : flush[c].pc = "idle"
  BY DEF Init, NoFlush
<1>3. \A t \in Compactors : job[t].pc = "scan" /\ job[t].inputs = {}
  BY DEF Init, NoJob
<1> QED BY <1>1, <1>2, <1>3 DEF TableInv, KnownInv, FreshInv, UnpublishedInv, RetiredInv,
                               RegisteredTablesAreDurable, Writing, Merging

\* Every step keeps the tables in order.
LEMMA StepTables == IInv /\ [Next]_vars => TableInv'
<1> SUFFICES ASSUME IInv, [Next]_vars PROVE TableInv'
  OBVIOUS
<1> USE DEF disk, memory, budget, history
<1>1. ASSUME NEW c \in Clients, NEW r, NEW ts, Write(c, r, ts)
      PROVE  TableInv'
  <2>1. CASE BeginFlush(c, Upsert(memtable, r))
    BY <1>1, <2>1, FlushBegins DEF Write
  <2>2. CASE UNCHANGED <<seq, flush>>
    BY <1>1, <2>2, FlushEnds DEF Write
  <2> QED BY <1>1, <2>1, <2>2 DEF Write
<1>2. ASSUME NEW c \in Clients, ClientStep(c)
      PROVE  TableInv'
  <2>1. CASE FlushCommand(c)
    BY <2>1, FlushBegins DEF FlushCommand
  <2> QED BY <1>1, <1>2, <2>1 DEF ClientStep, Set, Delete, RepairSet
<1>3. ASSUME NEW c \in Clients, FlushClear(c) \/ FlushFail(c)
      PROVE  TableInv'
  <2>1. /\ UNCHANGED <<files, manifest, registry, job, seq>>
        /\ flush' = [flush EXCEPT ![c] = NoFlush]
    BY <1>3 DEF FlushClear, FlushFail
  <2>2. \A d \in Clients : Writing(d)' => flush'[d] = flush[d]
    BY <2>1, InvTypes DEF IInv, Writing, NoFlush
  <2> QED BY <2>1, <2>2, FlushEnds
<1>4. ASSUME NEW c \in Clients, FlushStep(c)
      PROVE  TableInv'
  BY <1>3, <1>4, FlushWriteKeeps, FlushPublishKeeps DEF FlushStep
<1>5. ASSUME NEW t \in Compactors, CompactStep(t)
      PROVE  TableInv'
  BY <1>5, TakeLevelKeeps, MergeKeeps, MergeFailKeeps, CompactManifestKeeps,
     CompactPublishKeeps, CompactRemoveKeeps, CompactDeleteKeeps DEF CompactStep
<1>6. ASSUME NEW tear \in BOOLEAN, CrashRestart(tear)
      PROVE  TableInv'
  BY <1>6, CrashRestartKeeps DEF IInv
<1>7. CASE UNCHANGED vars
  BY <1>7, FlushEnds DEF vars
<1> QED BY <1>2, <1>3, <1>4, <1>5, <1>6, <1>7 DEF Next

\* The invariant holds in every state.
LEMMA Invariance == Spec => []IInv
<1>1. Init => IInv
  BY InitType, InitTables DEF IInv, TableInv
<1>2. IInv /\ [Next]_vars => IInv'
  BY StepType, StepTables DEF IInv, TableInv
<1> QED BY <1>1, <1>2, PTL DEF Spec

\* Whatever flushes and compactions overlap, fail or are cut short by a crash,
\* the file of every live SSTable exists, and the MANIFEST lists it unless a
\* compaction that has merged it is about to take it out of the registry.
THEOREM LiveTablesAreDurable == Spec => []RegisteredTablesAreDurable
<1>1. IInv => RegisteredTablesAreDurable
  BY DEF IInv
<1> QED BY <1>1, Invariance, PTL

\* No two tables that are being written, and no table being written and a live
\* or merging one, ever share a sequence number, which is to say a file.
THEOREM SequenceNumbersStayFresh == Spec => []SequenceNumbersAreFresh
<1>1. IInv => SequenceNumbersAreFresh
  BY DEF IInv, FreshInv, Fresh, Writing, Merging, SequenceNumbersAreFresh
<1> QED BY <1>1, Invariance, PTL

=============================================================================
