---------------------- MODULE StorageEngineReadsProofs ----------------------
(***************************************************************************)
(* Theorems about what StorageEngine's keys read, for every number of      *)
(* handlers, keys, writes, failures and crashes.                           *)
(***************************************************************************)
EXTENDS StorageEngineRefinement, StorageEngineProofs, WellFoundedInduction

----------------------------------------------------------------------------
(* Lemmas about the operators *)

\* Of finitely many tables one has the highest sequence number; here, of any
\* numbers with a common bound.
LEMMA HighestOf ==
  ASSUME NEW n \in Nat, NEW S, S \subseteq Nat, S # {}, \A s \in S : s <= n
  PROVE  \E s \in S : \A x \in S : x <= s
<1> DEFINE R == {p \in Nat \X Nat : p[1] < p[2]}
           gaps == {g \in Nat : \E s \in S : g = n - s}
<1>1. gaps \subseteq Nat /\ gaps # {}
  <2>1. PICK s \in S : TRUE
    OBVIOUS
  <2>2. n - s \in Nat /\ n - s \in gaps
    BY <2>1
  <2> QED BY <2>2
<1>2. IsWellFoundedOn(R, Nat)
  BY NatLessThanWellFounded DEF OpToRel
<1>3. PICK g \in gaps : \A h \in gaps : <<h, g>> \notin R
  <2> HIDE DEF R, gaps
  <2> QED BY <1>1, <1>2, WFMin
<1>4. PICK s \in S : g = n - s
  BY <1>3
<1>5. ASSUME NEW x \in S PROVE x <= s
  <2>1. x \in Nat /\ s \in Nat /\ x <= n /\ s <= n /\ n - x \in Nat /\ n - s \in Nat
    BY <1>5
  <2>2. n - x \in gaps
    BY <2>1, <1>5
  <2>3. <<n - x, n - s>> \notin R
    BY <1>3, <1>4, <2>2
  <2>4. n - x < n - s => <<n - x, n - s>> \in R
    BY <2>1
  <2> QED BY <2>1, <2>3, <2>4
<1> QED BY <1>5

\* ReadFrom over the tables of fs: a read of a MemTable mem and of the tables
\* ts of fs, so that reads of two states can be compared.
ReadIn(fs, mem, ts, k) ==
    LET holders == {s \in ts : Lookup(fs[s], k) # {}}
        newest == {s \in holders : \A x \in holders : x <= s}
    IN IF Lookup(mem, k) # {}
       THEN Lookup(mem, k)
       ELSE UNION {Lookup(fs[s], k) : s \in newest}

\* What is read, and what would be after a restart, as reads of the same form.
LEMMA VisibleIsReadIn ==
  ASSUME NEW k
  PROVE  /\ Visible(k) = ReadIn(files, memtable, DOMAIN registry, k)
         /\ Recoverable(k) = ReadIn(files, Replay(wal), Loadable, k)
  BY DEF Visible, Recoverable, ReadFrom, ReadIn

\* A table that holds the key hides the MemTable's silence, and older tables.
LEMMA ReadNewest ==
  ASSUME NEW fs, NEW mem, NEW ts, NEW k, ts \subseteq Nat, Lookup(mem, k) = {},
         NEW s \in ts, Lookup(fs[s], k) # {},
         \A x \in ts : Lookup(fs[x], k) # {} => x <= s
  PROVE  ReadIn(fs, mem, ts, k) = Lookup(fs[s], k)
<1> DEFINE holders == {x \in ts : Lookup(fs[x], k) # {}}
           newest == {x \in holders : \A y \in holders : y <= x}
<1>1. s \in newest
  OBVIOUS
<1>2. ASSUME NEW x \in newest PROVE x = s
  BY <1>1
<1>3. newest = {s}
  BY <1>1, <1>2
<1>4. ReadIn(fs, mem, ts, k) = UNION {Lookup(fs[x], k) : x \in newest}
  BY DEF ReadIn
<1> HIDE DEF newest
<1> QED BY <1>3, <1>4

\* What is read is in the MemTable, else in the newest table that has the key,
\* else nothing.
LEMMA ReadCases ==
  ASSUME NEW fs, NEW mem, NEW ts, NEW k, NEW n \in Nat, ts \subseteq Nat,
         \A s \in ts : s <= n
  PROVE  \/ Lookup(mem, k) # {} /\ ReadIn(fs, mem, ts, k) = Lookup(mem, k)
         \/ /\ Lookup(mem, k) = {}
            /\ \A s \in ts : Lookup(fs[s], k) = {}
            /\ ReadIn(fs, mem, ts, k) = {}
         \/ /\ Lookup(mem, k) = {}
            /\ \E s \in ts :
                  /\ Lookup(fs[s], k) # {}
                  /\ \A x \in ts : Lookup(fs[x], k) # {} => x <= s
                  /\ ReadIn(fs, mem, ts, k) = Lookup(fs[s], k)
<1> DEFINE holders == {x \in ts : Lookup(fs[x], k) # {}}
<1>1. CASE Lookup(mem, k) # {}
  BY <1>1 DEF ReadIn
<1>2. CASE Lookup(mem, k) = {} /\ holders = {}
  BY <1>2 DEF ReadIn
<1>3. CASE Lookup(mem, k) = {} /\ holders # {}
  <2>1. PICK s \in holders : \A x \in holders : x <= s
    <3>1. holders \subseteq Nat /\ \A x \in holders : x <= n
      OBVIOUS
    <3> HIDE DEF holders
    <3> QED BY <1>3, <3>1, HighestOf
  <2>2. ReadIn(fs, mem, ts, k) = Lookup(fs[s], k)
    BY <1>3, <2>1, ReadNewest
  <2> QED BY <1>3, <2>1, <2>2
<1> QED BY <1>1, <1>2, <1>3

\* A read sees of a MemTable and of tables what they hold of the key.
LEMMA ReadSame ==
  ASSUME NEW fs, NEW gs, NEW mem, NEW mem2, NEW ts, NEW k,
         Lookup(mem, k) = Lookup(mem2, k),
         \A s \in ts : Lookup(fs[s], k) = Lookup(gs[s], k)
  PROVE  ReadIn(fs, mem, ts, k) = ReadIn(gs, mem2, ts, k)
<1>1. {s \in ts : Lookup(fs[s], k) # {}} = {s \in ts : Lookup(gs[s], k) # {}}
  OBVIOUS
<1>2. \A S \in SUBSET ts :
         UNION {Lookup(fs[s], k) : s \in S} = UNION {Lookup(gs[s], k) : s \in S}
  OBVIOUS
<1> QED BY <1>1, <1>2 DEF ReadIn

\* Applying a record changes what its own key holds and no other.
LEMMA UpsertLookup ==
  ASSUME NEW table, NEW r, NEW k
  PROVE  Lookup(Upsert(table, r), k) = IF k = r.key THEN {r} ELSE Lookup(table, k)
  BY DEF Lookup, Upsert

\* Nothing is found in an empty set of records.
LEMMA LookupNone == \A k : Lookup({}, k) = {}
  BY DEF Lookup

\* No records have no content, and only they.
LEMMA ContentsNone == ASSUME NEW rs PROVE (Contents(rs) = {}) <=> (rs = {})
  BY DEF Contents

\* A part of the records has a part of the contents.
LEMMA ContentsPart ==
  ASSUME NEW rs, NEW qs, rs \subseteq qs
  PROVE  Contents(rs) \subseteq Contents(qs)
  BY DEF Contents

\* What agrees with at most one record agrees with it fully, or is nothing.
LEMMA ContentsWhole ==
  ASSUME NEW rs, NEW qs, Contents(rs) \subseteq Contents(qs), rs # {},
         \A x, y \in qs : x = y
  PROVE  Contents(rs) = Contents(qs)
  BY DEF Contents

\* A read of a MemTable of the same content finds the same content.
LEMMA ReadAlike ==
  ASSUME NEW fs, NEW gs, NEW mem, NEW mem2, NEW ts, NEW k,
         Contents(Lookup(mem, k)) = Contents(Lookup(mem2, k)),
         \A s \in ts : Lookup(fs[s], k) = Lookup(gs[s], k)
  PROVE  Contents(ReadIn(fs, mem, ts, k)) = Contents(ReadIn(gs, mem2, ts, k))
<1>1. Lookup(mem, k) = {} <=> Lookup(mem2, k) = {}
  BY ContentsNone
<1>2. CASE Lookup(mem, k) # {}
  BY <1>1, <1>2 DEF ReadIn
<1>3. CASE Lookup(mem, k) = {}
  <2>1. Lookup(mem, k) = Lookup(mem2, k)
    BY <1>1, <1>3
  <2>2. ReadIn(fs, mem, ts, k) = ReadIn(gs, mem2, ts, k)
    BY <2>1, ReadSame
  <2> QED BY <2>2
<1> QED BY <1>2, <1>3

----------------------------------------------------------------------------
(* The window of a flush.  For a key outside every window, the MemTable has  *)
(* nothing but the last record written, a replay of the log agrees with it   *)
(* but for the time, even behind a torn entry, and the records a flush in flight has taken     *)
(* still include what the MemTable has.  It is the reason why clearing the   *)
(* MemTable after a flush loses only writes that atRisk names: a key leaves  *)
(* atRisk only by a write that no flush overlaps.                            *)

\* Handler c is inside flush().
Flushing(c) == flush[c].pc # "idle"

\* At most one record is the last one written at a key, and it is the key's.
LatestInv == \A k \in Keys : \A x, y \in latest[k] : x = y /\ x \in Record /\ x.key = k

\* The MemTable has nothing else of the key.
MemoryInv ==
    \A k \in Keys \ atRisk : Contents(Lookup(memtable, k)) \subseteq Contents(latest[k])

\* A replay of the log would give the same.
LogInv ==
    \A k \in Keys \ atRisk : Contents(Lookup(Replay(wal), k)) = Contents(Lookup(memtable, k))

\* A flush in flight has taken what the MemTable has, and nothing older.
FlushInv ==
    \A c \in Clients : Flushing(c) => \A k \in Keys \ atRisk :
        /\ Lookup(memtable, k) \subseteq Lookup(flush[c].recs, k)
        /\ Contents(Lookup(flush[c].recs, k)) \subseteq Contents(latest[k])

\* A file, once written, is the flush's until it is published.
WrittenInv ==
    \A c \in Clients : flush[c].pc = "written" =>
        flush[c].seq \in DOMAIN files /\ files[flush[c].seq] = flush[c].recs

\* The invariant of the windows.
WindowInv == LatestInv /\ MemoryInv /\ LogInv /\ FlushInv /\ WrittenInv

\* What a write leaves in memory and in the log, for a key that is not at risk
\* afterwards: its own key by a write no window swallows, or another.
LEMMA WriteKey ==
  ASSUME TypeInv, NEW c \in Clients, NEW r \in Record, NEW ts \in Nat, Write(c, r, ts),
         NEW k \in Keys, k \notin atRisk'
  PROVE  \/ /\ k = r.key /\ latest'[k] = {r} /\ Lookup(memtable', k) = {r}
            /\ Contents(Lookup(Replay(wal'), k)) = Contents({r})
            /\ \A d \in Clients : ~Flushing(d)
         \/ /\ k # r.key /\ k \notin atRisk /\ latest'[k] = latest[k]
            /\ Lookup(memtable', k) = Lookup(memtable, k)
            /\ Lookup(Replay(wal'), k) = Lookup(Replay(wal), k)
<1> DEFINE entry == [r EXCEPT !.timestamp = ts]
<1>1. /\ wal \in Seq(Record) /\ r.key \in Keys /\ latest \in [Keys -> SUBSET Record]
      /\ entry \in Record /\ Content(entry) = Content(r) /\ entry.key = r.key
  BY DEF TypeInv, TypeOK, Record, Content
<1>2. /\ memtable' = Upsert(memtable, r)
      /\ latest' = [latest EXCEPT ![r.key] = {r}]
      /\ wal' = IF torn THEN wal ELSE Append(wal, entry)
      /\ atRisk' = IF FlushInFlight \/ torn THEN atRisk \cup {r.key} ELSE atRisk \ {r.key}
  BY DEF Write
<1> HIDE DEF entry
<1>3. CASE k = r.key
  <2>1. ~FlushInFlight /\ ~torn
    BY <1>2, <1>3
  <2>2. Replay(wal') = Upsert(Replay(wal), entry)
    BY <1>1, <1>2, <2>1, ReplayAppend
  <2>3. Lookup(memtable', k) = {r} /\ Lookup(Replay(wal'), k) = {entry}
    BY <1>1, <1>2, <1>3, <2>2, UpsertLookup
  <2>4. Contents({entry}) = Contents({r})
    BY <1>1 DEF Contents
  <2> QED BY <1>1, <1>2, <1>3, <2>1, <2>3, <2>4 DEF FlushInFlight, Flushing
<1>4. CASE k # r.key
  <2>1. Lookup(memtable', k) = Lookup(memtable, k)
    BY <1>2, <1>4, UpsertLookup
  <2>2. Lookup(Replay(wal'), k) = Lookup(Replay(wal), k)
    <3>1. CASE torn
      BY <1>2, <3>1
    <3>2. CASE ~torn
      <4>1. Replay(wal') = Upsert(Replay(wal), entry)
        BY <1>1, <1>2, <3>2, ReplayAppend
      <4> QED BY <1>1, <1>4, <4>1, UpsertLookup
    <3> QED BY <3>1, <3>2
  <2>3. k \notin atRisk /\ latest'[k] = latest[k]
    BY <1>1, <1>2, <1>4
  <2> QED BY <1>4, <2>1, <2>2, <2>3
<1> QED BY <1>3, <1>4

\* The records that writes are given are records, and their stamps numbers.
LEMMA WriteRecords ==
  ASSUME TypeInv, NEW c \in Clients
  PROVE  /\ \A k \in Keys : Set(c, k) => \E r \in Record, ts \in Nat : Write(c, r, ts)
         /\ \A k \in Keys : Delete(c, k) => \E r \in Record, ts \in Nat : Write(c, r, ts)
         /\ \A r \in ForeignRecords :
               RepairSet(c, r) => \E q \in Record, ts \in Nat : Write(c, q, ts)
<1>1. \A r \in ForeignRecords : r \in Record /\ r.timestamp \in Nat
  BY ConstantsAssumption DEF Record
<1> QED BY <1>1, NewRecordType DEF Set, Delete, RepairSet

\* The steps that neither write nor empty the MemTable.
QuietStep ==
    \/ \E c \in Clients : FlushCommand(c) \/ FlushWrite(c) \/ FlushPublish(c) \/ FlushFail(c)
    \/ \E t \in Compactors : CompactStep(t)
    \/ UNCHANGED vars

\* Such a step leaves what writes, clears and crashes change.
LEMMA QuietFrame ==
  QuietStep => UNCHANGED <<wal, torn, memtable, latest, atRisk, crashes, nextVersion>>
<1> USE DEF disk, memory, budget, history
<1>1. ASSUME NEW c \in Clients,
             FlushCommand(c) \/ FlushWrite(c) \/ FlushPublish(c) \/ FlushFail(c)
      PROVE  UNCHANGED <<wal, torn, memtable, latest, atRisk, crashes, nextVersion>>
  BY <1>1 DEF FlushCommand, FlushWrite, FlushPublish, FlushFail
<1>2. ASSUME NEW t \in Compactors, CompactStep(t)
      PROVE  UNCHANGED <<wal, torn, memtable, latest, atRisk, crashes, nextVersion>>
  BY <1>2 DEF CompactStep, TakeLevel, Merge, MergeFail, CompactManifest, CompactPublish,
              CompactRemove, CompactDelete
<1>3. CASE UNCHANGED vars
  BY <1>3 DEF vars
<1> QED BY <1>1, <1>2, <1>3 DEF QuietStep

\* Every step is quiet, a write, the clearing after a flush, or a restart.
LEMMA StepKinds ==
  ASSUME TypeInv, [Next]_vars
  PROVE  \/ QuietStep
         \/ \E c \in Clients, r \in Record, ts \in Nat : Write(c, r, ts)
         \/ \E c \in Clients : FlushClear(c)
         \/ \E tear \in BOOLEAN : CrashRestart(tear)
  BY WriteRecords DEF Next, ClientStep, FlushStep, QuietStep

\* What any step leaves in memory and in the log for a key outside the windows.
LEMMA StepKey ==
  ASSUME TypeInv, [Next]_vars, NEW k \in Keys, k \notin atRisk'
  PROVE  \/ \E r \in Record :
               /\ k = r.key /\ latest'[k] = {r} /\ Lookup(memtable', k) = {r}
               /\ Contents(Lookup(Replay(wal'), k)) = Contents({r})
               /\ \A d \in Clients : ~Flushing(d)
         \/ /\ k \notin atRisk /\ latest'[k] = latest[k]
            /\ \/ /\ Lookup(memtable', k) = Lookup(memtable, k)
                  /\ Lookup(Replay(wal'), k) = Lookup(Replay(wal), k)
               \/ Lookup(memtable', k) = {} /\ Lookup(Replay(wal'), k) = {}
               \/ /\ memtable' = Replay(wal) /\ wal' = wal
                  /\ \A d \in Clients : ~Flushing(d)'
<1> USE DEF disk, memory, budget, history
<1>1. CASE QuietStep
  BY <1>1, QuietFrame
<1>2. ASSUME NEW c \in Clients, NEW r \in Record, NEW ts \in Nat, Write(c, r, ts)
      PROVE  \/ /\ k = r.key /\ latest'[k] = {r} /\ Lookup(memtable', k) = {r}
                /\ Contents(Lookup(Replay(wal'), k)) = Contents({r})
                /\ \A d \in Clients : ~Flushing(d)
             \/ /\ k \notin atRisk /\ latest'[k] = latest[k]
                /\ Lookup(memtable', k) = Lookup(memtable, k)
                /\ Lookup(Replay(wal'), k) = Lookup(Replay(wal), k)
  BY <1>2, WriteKey
<1>3. ASSUME NEW c \in Clients, FlushClear(c)
      PROVE  /\ k \notin atRisk /\ latest'[k] = latest[k]
             /\ Lookup(memtable', k) = {} /\ Lookup(Replay(wal'), k) = {}
  BY <1>3, ReplayEmpty, LookupNone DEF FlushClear
<1>4. ASSUME NEW tear \in BOOLEAN, CrashRestart(tear)
      PROVE  /\ k \notin atRisk /\ latest'[k] = latest[k]
             /\ memtable' = Replay(wal) /\ wal' = wal
             /\ \A d \in Clients : ~Flushing(d)'
  BY <1>4 DEF CrashRestart, Flushing, NoFlush
<1> QED BY <1>1, <1>2, <1>3, <1>4, StepKinds

\* A flush that is in flight after a step was so before, with the same records,
\* or began in it, with the records the MemTable now has.
LEMMA StepFlush ==
  ASSUME TypeInv, [Next]_vars, NEW d \in Clients, Flushing(d)'
  PROVE  \/ /\ Flushing(d)
            /\ flush'[d].seq = flush[d].seq /\ flush'[d].recs = flush[d].recs
         \/ /\ ~Flushing(d) /\ flush'[d].pc = "write" /\ flush'[d].seq = seq + 1
            /\ flush'[d].recs = memtable' /\ registry' = registry /\ files' = files
            /\ manifest' = manifest
<1> USE DEF disk, memory, budget, history, Flushing
<1>0. flush \in [Clients -> FlushState]
  BY InvTypes
<1>1. ASSUME NEW c \in Clients, NEW mem, BeginFlush(c, mem), flush[c].pc = "idle"
      PROVE  \/ flush'[d] = flush[d]
             \/ /\ flush[d].pc = "idle" /\ flush'[d].pc = "write"
                /\ flush'[d].seq = seq + 1 /\ flush'[d].recs = mem
  BY <1>0, <1>1 DEF BeginFlush, FlushState
<1>2. ASSUME NEW c \in Clients, NEW r \in Record, NEW ts \in Nat, Write(c, r, ts)
      PROVE  \/ flush'[d] = flush[d]
             \/ /\ flush[d].pc = "idle" /\ flush'[d].pc = "write"
                /\ flush'[d].seq = seq + 1 /\ flush'[d].recs = memtable'
                /\ UNCHANGED <<registry, files, manifest>>
  BY <1>1, <1>2 DEF Write, Ready
<1>3. ASSUME NEW c \in Clients, FlushCommand(c)
      PROVE  \/ flush'[d] = flush[d]
             \/ /\ flush[d].pc = "idle" /\ flush'[d].pc = "write"
                /\ flush'[d].seq = seq + 1 /\ flush'[d].recs = memtable'
                /\ UNCHANGED <<registry, files, manifest>>
  BY <1>1, <1>3 DEF FlushCommand, Ready
<1>4. ASSUME NEW c \in Clients,
             FlushWrite(c) \/ FlushPublish(c) \/ FlushClear(c) \/ FlushFail(c)
      PROVE  \/ flush'[d].pc = "idle"
             \/ /\ flush[d].pc # "idle"
                /\ flush'[d].seq = flush[d].seq /\ flush'[d].recs = flush[d].recs
  <2>1. CASE FlushWrite(c) \/ FlushPublish(c)
    BY <1>0, <2>1 DEF FlushWrite, FlushPublish, FlushState
  <2>2. CASE FlushClear(c) \/ FlushFail(c)
    BY <1>0, <2>2 DEF FlushClear, FlushFail, FlushState, NoFlush
  <2> QED BY <1>4, <2>1, <2>2
<1>5. ASSUME NEW t \in Compactors, CompactStep(t) PROVE flush' = flush
  BY <1>5 DEF CompactStep, TakeLevel, Merge, MergeFail, CompactManifest, CompactPublish,
              CompactRemove, CompactDelete
<1>6. ASSUME NEW tear \in BOOLEAN, CrashRestart(tear) PROVE flush'[d].pc = "idle"
  BY <1>6 DEF CrashRestart, NoFlush
<1>7. CASE UNCHANGED vars
  BY <1>7 DEF vars
<1> QED BY <1>2, <1>3, <1>4, <1>5, <1>6, <1>7, StepKinds DEF QuietStep

\* The file of a table that is being written, live or merging changes in no
\* step, for numbers are fresh; it goes only if the table is retired.
LEMMA StepFiles ==
  ASSUME IInv, [Next]_vars, NEW s \in DOMAIN files,
         \A d \in Clients : flush[d].pc = "write" => flush[d].seq # s,
         s <= seq
  PROVE  \/ s \in DOMAIN files' /\ files'[s] = files[s]
         \/ \E t \in Compactors : job[t].pc = "delete" /\ s \in job[t].inputs
<1> USE DEF disk, memory, budget, history
<1>0. TypeInv /\ seq \in Nat /\ s \in Nat
  BY InvTypes DEF IInv, TypeInv, TypeOK
<1>1. ASSUME NEW c \in Clients, FlushWrite(c)
      PROVE  s \in DOMAIN files' /\ files'[s] = files[s]
  <2>1. files' = With(files, flush[c].seq, flush[c].recs) /\ flush[c].seq # s
    BY <1>1 DEF FlushWrite
  <2> QED BY <2>1 DEF With
<1>2. ASSUME NEW t \in Compactors, Merge(t)
      PROVE  s \in DOMAIN files' /\ files'[s] = files[s]
  <2>1. files' = files \/ files' = With(files, seq + 1, Merged(files, job[t].inputs))
    BY <1>2 DEF Merge
  <2>2. s # seq + 1
    BY <1>0
  <2> QED BY <2>1, <2>2 DEF With
<1>3. ASSUME NEW t \in Compactors, CompactDelete(t)
      PROVE  \/ s \in DOMAIN files' /\ files'[s] = files[s]
             \/ job[t].pc = "delete" /\ s \in job[t].inputs
  BY <1>3 DEF CompactDelete, Without
<1>4. ASSUME files' = files PROVE s \in DOMAIN files' /\ files'[s] = files[s]
  BY <1>4
<1>5. ASSUME NEW t \in Compactors, CompactStep(t)
      PROVE  \/ s \in DOMAIN files' /\ files'[s] = files[s]
             \/ \E u \in Compactors : job[u].pc = "delete" /\ s \in job[u].inputs
  BY <1>2, <1>3, <1>4, <1>5 DEF CompactStep, TakeLevel, MergeFail, CompactManifest,
     CompactPublish, CompactRemove
<1>6. CASE UNCHANGED vars
  BY <1>4, <1>6 DEF vars
<1> QED BY <1>0, <1>1, <1>4, <1>5, <1>6, StepKinds
        DEF QuietStep, Write, FlushCommand, FlushPublish, FlushFail, FlushClear, CrashRestart

\* A step leaves the registered tables and the tables being merged as they are.
LEMMA LiveFiles ==
  ASSUME IInv, [Next]_vars
  PROVE  /\ \A s \in DOMAIN registry : s \in DOMAIN files' /\ files'[s] = files[s]
         /\ \A t \in Compactors : Merging(t) => files'[job[t].out] = files[job[t].out]
<1>1. ASSUME NEW s \in DOMAIN registry
      PROVE  s \in DOMAIN files' /\ files'[s] = files[s]
  <2>1. s \in DOMAIN files /\ s <= seq
    BY DEF IInv, KnownInv, RegisteredTablesAreDurable
  <2>2. \A d \in Clients : flush[d].pc = "write" => flush[d].seq # s
    BY DEF IInv, FreshInv, Fresh, Writing
  <2>3. \A t \in Compactors : ~(job[t].pc = "delete" /\ s \in job[t].inputs)
    BY DEF IInv, RetiredInv
  <2> QED BY <2>1, <2>2, <2>3, StepFiles
<1>2. ASSUME NEW t \in Compactors, Merging(t)
      PROVE  files'[job[t].out] = files[job[t].out]
  <2> DEFINE s == job[t].out
  <2>1. s \in DOMAIN files /\ s <= seq /\ \A u \in Compactors : s \notin job[u].inputs
    BY <1>2 DEF IInv, UnpublishedInv, FreshInv, Fresh
  <2>2. \A d \in Clients : flush[d].pc = "write" => flush[d].seq # s
    BY <1>2 DEF IInv, FreshInv, Writing
  <2> QED BY <2>1, <2>2, StepFiles
<1> QED BY <1>1, <1>2

\* No window swallows a write unnoticed.
LEMMA StepWindow == IInv /\ WindowInv /\ [Next]_vars => WindowInv'
<1> SUFFICES ASSUME IInv, WindowInv, [Next]_vars PROVE WindowInv'
  OBVIOUS
<1> USE DEF WindowInv
<1>0. TypeInv
  BY DEF IInv
<1>1. LatestInv'
  <2>1. CASE \E c \in Clients, r \in Record, ts \in Nat : Write(c, r, ts)
    BY <1>0, <2>1 DEF Write, LatestInv, TypeInv, TypeOK
  <2>2. CASE latest' = latest
    BY <2>2 DEF LatestInv
  <2>3. QuietStep \/ (\E c \in Clients : FlushClear(c))
        \/ (\E tear \in BOOLEAN : CrashRestart(tear)) => latest' = latest
    BY QuietFrame DEF FlushClear, CrashRestart, history
  <2> QED BY <1>0, <2>1, <2>2, <2>3, StepKinds
<1>2. MemoryInv' /\ LogInv'
  <2> SUFFICES ASSUME NEW k \in Keys, k \notin atRisk'
               PROVE  /\ Contents(Lookup(memtable', k)) \subseteq Contents(latest'[k])
                      /\ Contents(Lookup(Replay(wal'), k)) = Contents(Lookup(memtable', k))
    BY DEF MemoryInv, LogInv
  <2>1. Contents({}) = {}
    BY ContentsNone
  <2> QED BY <1>0, <2>1, StepKey DEF MemoryInv, LogInv
<1>3. FlushInv'
  <2> SUFFICES ASSUME NEW d \in Clients, Flushing(d)', NEW k \in Keys, k \notin atRisk'
               PROVE  /\ Lookup(memtable', k) \subseteq Lookup(flush'[d].recs, k)
                      /\ Contents(Lookup(flush'[d].recs, k)) \subseteq Contents(latest'[k])
    BY DEF FlushInv
  <2>1. CASE flush'[d].recs = memtable'
    BY <1>2, <2>1 DEF MemoryInv
  <2>2. CASE Flushing(d) /\ flush'[d].recs = flush[d].recs
    <3>1. /\ Lookup(memtable, k) \subseteq Lookup(flush[d].recs, k) \/ k \in atRisk
          /\ Contents(Lookup(flush[d].recs, k)) \subseteq Contents(latest[k]) \/ k \in atRisk
      BY <2>2 DEF FlushInv
    <3>2. /\ k \notin atRisk /\ latest'[k] = latest[k]
          /\ Lookup(memtable', k) = Lookup(memtable, k) \/ Lookup(memtable', k) = {}
      BY <1>0, <2>2, StepKey
    <3> QED BY <2>2, <3>1, <3>2
  <2> QED BY <1>0, <2>1, <2>2, StepFlush
<1>4. WrittenInv'
  <2> SUFFICES ASSUME NEW d \in Clients, flush'[d].pc = "written"
               PROVE  /\ flush'[d].seq \in DOMAIN files'
                      /\ files'[flush'[d].seq] = flush'[d].recs
    BY DEF WrittenInv
  <2>1. CASE FlushWrite(d)
    <3>1. files' = With(files, flush[d].seq, flush[d].recs) /\ flush \in [Clients -> FlushState]
      BY <1>0, <2>1, InvTypes DEF FlushWrite
    <3>2. flush'[d].seq = flush[d].seq /\ flush'[d].recs = flush[d].recs
      BY <2>1, <3>1 DEF FlushWrite, FlushState
    <3> QED BY <3>1, <3>2 DEF With
  <2>2. CASE /\ flush[d].pc = "written"
             /\ flush'[d].seq = flush[d].seq /\ flush'[d].recs = flush[d].recs
    <3>1. flush[d].seq \in DOMAIN files /\ files[flush[d].seq] = flush[d].recs
      BY <2>2 DEF WrittenInv
    <3>2. /\ Writing(d) /\ Fresh(flush[d].seq)
          /\ \A e \in Clients : flush[e].pc = "write" => flush[e].seq # flush[d].seq
      BY <2>2 DEF IInv, FreshInv, Writing
    <3> QED BY <2>2, <3>1, <3>2, StepFiles DEF Fresh
  <2>3. \/ FlushWrite(d)
        \/ /\ flush[d].pc = "written"
           /\ flush'[d].seq = flush[d].seq /\ flush'[d].recs = flush[d].recs
    <3>0. flush \in [Clients -> FlushState] /\ Flushing(d)'
      BY <1>0, InvTypes DEF Flushing
    <3>1. ASSUME NEW c \in Clients,
                 FlushWrite(c) \/ FlushPublish(c) \/ FlushClear(c) \/ FlushFail(c)
          PROVE  FlushWrite(d) \/ flush[d].pc = "written"
      <4>1. \/ c = d /\ FlushWrite(c)
            \/ c = d /\ flush'[c].pc \in {"publish", "idle"}
            \/ c # d /\ flush'[d] = flush[d]
        BY <3>0, <3>1 DEF FlushWrite, FlushPublish, FlushClear, FlushFail, FlushState, NoFlush
      <4> QED BY <4>1
    <3>2. ASSUME flush' = flush PROVE flush[d].pc = "written"
      BY <3>2
    <3>3. ASSUME NEW t \in Compactors, CompactStep(t) PROVE flush' = flush
      BY <3>3 DEF CompactStep, TakeLevel, Merge, MergeFail, CompactManifest, CompactPublish,
                  CompactRemove, CompactDelete
    <3>4. ASSUME NEW c \in Clients, NEW mem, BeginFlush(c, mem)
          PROVE  flush[d].pc = "written"
      BY <3>0, <3>4 DEF BeginFlush, FlushState
    <3>5. ASSUME NEW tear \in BOOLEAN, CrashRestart(tear) PROVE FALSE
      BY <3>5 DEF CrashRestart, NoFlush
    <3>6. FlushWrite(d) \/ flush[d].pc = "written"
      BY <1>0, <3>1, <3>2, <3>3, <3>4, <3>5, StepKinds
         DEF QuietStep, Write, FlushCommand, vars
    <3> QED BY <1>0, <3>0, <3>6, StepFlush
  <2> QED BY <2>1, <2>2, <2>3
<1> QED BY <1>1, <1>2, <1>3, <1>4

\* The invariant of the windows holds of an empty directory.
LEMMA InitWindow == Init => WindowInv
<1> SUFFICES ASSUME Init PROVE WindowInv
  OBVIOUS
<1>1. memtable = {} /\ Replay(wal) = {} /\ \A k \in Keys : latest[k] = {}
  BY ReplayEmpty DEF Init
<1>2. \A c \in Clients : flush[c].pc = "idle"
  BY DEF Init, NoFlush
<1>3. Contents({}) = {}
  BY ContentsNone
<1> QED BY <1>1, <1>2, <1>3, LookupNone
        DEF WindowInv, LatestInv, MemoryInv, LogInv, FlushInv, WrittenInv, Flushing

\* It holds forever.
LEMMA WindowInvariance == Spec => []WindowInv
  BY InitWindow, StepWindow, Invariance, PTL DEF Spec

----------------------------------------------------------------------------
(* A node up to its first compaction.  A key outside the windows reads the   *)
(* last record written at it.  Clearing the MemTable keeps the read because  *)
(* the table just published, and any newer one, has the same record or none  *)
(* (NewerInv); publishing keeps it because the flush has nothing else.       *)
(* Spec lets a behaviour stop, so []Resting is about every behaviour up to   *)
(* the step that takes a level to compact.                                   *)

\* No compaction is under way.
Resting == \A t \in Compactors : job[t].pc = "scan"

\* A thread that looks at a level and finds too little there changes nothing.
LEMMA RestingStep ==
  ASSUME Resting, NEW t \in Compactors, CompactStep(t)
  PROVE  UNCHANGED <<files, registry, manifest>>
<1>1. TakeLevel(t)
  BY DEF Resting, CompactStep, Merge, MergeFail, CompactManifest, CompactPublish,
         CompactRemove, CompactDelete
<1> QED BY <1>1 DEF TakeLevel, disk, memory

\* The registry and the manifest list the same tables.
ListedInv ==
    DOMAIN manifest = DOMAIN registry /\ DOMAIN registry \subseteq DOMAIN files

\* A flush that has published has its table in the registry.
PublishedInv ==
    \A c \in Clients : flush[c].pc = "publish" =>
        flush[c].seq \in DOMAIN registry /\ files[flush[c].seq] = flush[c].recs

\* Tables numbered from a flush's on have its keys' last records or none.
NewerInv ==
    \A c \in Clients : Flushing(c) => \A k \in Keys \ atRisk, s \in DOMAIN registry :
        s >= flush[c].seq => Contents(Lookup(files[s], k)) \subseteq Contents(latest[k])

\* A key outside the windows reads the last record written at it.
ReadsLast == \A k \in Keys \ atRisk : Contents(Visible(k)) = Contents(latest[k])

\* The invariant of a node before its first compaction.
PlainInv == ListedInv /\ PublishedInv /\ NewerInv /\ ReadsLast

\* While no compaction is under way no live table goes or changes, only publishing a
\* flush brings one, and a restart finds them all.
LEMMA PlainTables ==
  ASSUME Resting, IInv, ListedInv, [Next]_vars
  PROVE  /\ \A s \in DOMAIN registry : s \in DOMAIN files' /\ files'[s] = files[s]
         /\ \/ DOMAIN registry' = DOMAIN registry /\ DOMAIN manifest' = DOMAIN manifest
            \/ \E c \in Clients :
                  /\ FlushPublish(c)
                  /\ DOMAIN registry' = DOMAIN registry \cup {flush[c].seq}
                  /\ DOMAIN manifest' = DOMAIN manifest \cup {flush[c].seq}
<1> USE DEF disk, memory, budget, history
<1>0. TypeInv
  BY DEF IInv
<1>2. ASSUME NEW c \in Clients, FlushPublish(c)
      PROVE  /\ DOMAIN registry' = DOMAIN registry \cup {flush[c].seq}
             /\ DOMAIN manifest' = DOMAIN manifest \cup {flush[c].seq}
  BY <1>2 DEF FlushPublish, With
<1>3. ASSUME NEW tear \in BOOLEAN, CrashRestart(tear)
      PROVE  DOMAIN registry' = DOMAIN registry /\ DOMAIN manifest' = DOMAIN manifest
  BY <1>3 DEF CrashRestart, Loadable, ListedInv
<1>4. ASSUME UNCHANGED vars
      PROVE  DOMAIN registry' = DOMAIN registry /\ DOMAIN manifest' = DOMAIN manifest
  BY <1>4 DEF vars
<1>5. \/ DOMAIN registry' = DOMAIN registry /\ DOMAIN manifest' = DOMAIN manifest
      \/ \E c \in Clients : FlushPublish(c)
  <2>1. ASSUME NEW c \in Clients, NEW r \in Record, NEW ts \in Nat, Write(c, r, ts)
        PROVE  UNCHANGED <<registry, manifest>>
    BY <2>1 DEF Write
  <2>2. ASSUME NEW c \in Clients,
               FlushCommand(c) \/ FlushWrite(c) \/ FlushFail(c) \/ FlushClear(c)
        PROVE  UNCHANGED <<registry, manifest>>
    BY <2>2 DEF FlushCommand, FlushWrite, FlushFail, FlushClear
  <2> HIDE DEF disk, memory, budget, history
  <2> QED BY <1>0, <1>3, <1>4, <2>1, <2>2, RestingStep, StepKinds DEF QuietStep
<1>6. ASSUME NEW c \in Clients, FlushPublish(c)
      PROVE  \E d \in Clients :
                /\ FlushPublish(d)
                /\ DOMAIN registry' = DOMAIN registry \cup {flush[d].seq}
                /\ DOMAIN manifest' = DOMAIN manifest \cup {flush[d].seq}
  <2>1. /\ DOMAIN registry' = DOMAIN registry \cup {flush[c].seq}
        /\ DOMAIN manifest' = DOMAIN manifest \cup {flush[c].seq}
    BY <1>2, <1>6
  <2> HIDE DEF disk, memory, budget, history
  <2> QED BY <1>6, <2>1
<1>7. \A s \in DOMAIN registry : s \in DOMAIN files' /\ files'[s] = files[s]
  BY LiveFiles
<1>8. CASE \E c \in Clients : FlushPublish(c)
  <2>1. PICK c \in Clients : FlushPublish(c)
    BY <1>8
  <2> HIDE DEF disk, memory, budget, history
  <2> QED BY <1>6, <1>7, <2>1
<1> HIDE DEF disk, memory, budget, history
<1> QED BY <1>5, <1>7, <1>8

\* The published table is on disk with the records the flush has taken.
LEMMA PublishedRecords ==
  ASSUME IInv, WindowInv, NEW c \in Clients, FlushPublish(c)
  PROVE  /\ flush[c].pc = "written" /\ flush[c].seq \in DOMAIN files
         /\ files[flush[c].seq] = flush[c].recs /\ files' = files
         /\ flush[c].seq \notin DOMAIN registry /\ flush[c].seq <= seq
  BY DEF FlushPublish, WindowInv, WrittenInv, IInv, FreshInv, Fresh, Writing

\* The registry and the manifest keep listing the same tables.
LEMMA StepListed ==
  ASSUME Resting, IInv, WindowInv, ListedInv, [Next]_vars
  PROVE  ListedInv'
  BY PlainTables, PublishedRecords DEF ListedInv

\* A flush is at its publishing because it has just published or was there.
LEMMA StepPublishing ==
  ASSUME TypeInv, [Next]_vars, NEW d \in Clients, flush'[d].pc = "publish"
  PROVE  FlushPublish(d) \/ flush'[d] = flush[d]
<1> USE DEF disk, memory, budget, history
<1>0. flush \in [Clients -> FlushState]
  BY InvTypes
<1>1. ASSUME NEW c \in Clients,
             FlushWrite(c) \/ FlushPublish(c) \/ FlushClear(c) \/ FlushFail(c)
      PROVE  FlushPublish(d) \/ flush'[d] = flush[d]
  BY <1>0, <1>1 DEF FlushWrite, FlushPublish, FlushClear, FlushFail, FlushState, NoFlush
<1>2. ASSUME NEW c \in Clients, NEW mem, BeginFlush(c, mem)
      PROVE  flush'[d] = flush[d]
  BY <1>0, <1>2 DEF BeginFlush, FlushState
<1>3. ASSUME NEW tear \in BOOLEAN, CrashRestart(tear) PROVE FALSE
  BY <1>3 DEF CrashRestart, NoFlush
<1>4. ASSUME NEW t \in Compactors, CompactStep(t) PROVE flush' = flush
  BY <1>4 DEF CompactStep, TakeLevel, Merge, MergeFail, CompactManifest, CompactPublish,
              CompactRemove, CompactDelete
<1> QED BY <1>1, <1>2, <1>3, <1>4, StepKinds DEF QuietStep, Write, FlushCommand, vars

\* A published flush stays in the registry until it clears the MemTable.
LEMMA StepPublished ==
  ASSUME Resting, IInv, WindowInv, ListedInv, PublishedInv, [Next]_vars
  PROVE  PublishedInv'
<1> SUFFICES ASSUME NEW d \in Clients, flush'[d].pc = "publish"
             PROVE  /\ flush'[d].seq \in DOMAIN registry'
                    /\ files'[flush'[d].seq] = flush'[d].recs
  BY DEF PublishedInv
<1>0. TypeInv /\ flush \in [Clients -> FlushState]
  BY InvTypes DEF IInv
<1>1. CASE FlushPublish(d)
  <2>1. flush'[d].seq = flush[d].seq /\ flush'[d].recs = flush[d].recs
    BY <1>0, <1>1 DEF FlushPublish, FlushState
  <2>2. flush[d].seq \in DOMAIN registry'
    BY <1>1 DEF FlushPublish, With
  <2> QED BY <1>1, <2>1, <2>2, PublishedRecords
<1>2. CASE flush'[d] = flush[d]
  <2>1. flush[d].seq \in DOMAIN registry /\ files[flush[d].seq] = flush[d].recs
    BY <1>2 DEF PublishedInv
  <2> QED BY <1>2, <2>1, PlainTables
<1> QED BY <1>0, <1>1, <1>2, StepPublishing

\* No table newer than a flush holds an older record of a key.
LEMMA StepNewer ==
  ASSUME Resting, IInv, WindowInv, ListedInv, NewerInv, [Next]_vars
  PROVE  NewerInv'
<1> SUFFICES ASSUME NEW d \in Clients, Flushing(d)', NEW k \in Keys, k \notin atRisk',
                    NEW s \in DOMAIN registry', s >= flush'[d].seq
             PROVE  Contents(Lookup(files'[s], k)) \subseteq Contents(latest'[k])
  BY DEF NewerInv
<1>0. TypeInv /\ seq \in Nat /\ DOMAIN registry \subseteq Nat
      /\ \A x \in DOMAIN registry : x <= seq
  BY InvTypes DEF IInv, KnownInv
<1>1. CASE ~Flushing(d)
  <2>1. flush'[d].seq = seq + 1 /\ registry' = registry
    BY <1>0, <1>1, StepFlush
  <2>2. s \in Nat /\ s <= seq
    BY <1>0, <2>1
  <2> QED BY <1>0, <2>1, <2>2
<1>2. CASE Flushing(d)
  <2>1. k \notin atRisk /\ latest'[k] = latest[k] /\ flush'[d].seq = flush[d].seq
    BY <1>0, <1>2, StepKey, StepFlush
  <2>2. CASE s \in DOMAIN registry
    BY <1>2, <2>1, <2>2, PlainTables DEF NewerInv
  <2>3. CASE s \notin DOMAIN registry
    <3>1. PICK c \in Clients : FlushPublish(c) /\ s = flush[c].seq
      BY <2>3, PlainTables
    <3>2. files'[s] = flush[c].recs /\ Flushing(c)
      BY <3>1, PublishedRecords DEF Flushing
    <3> QED BY <2>1, <3>2 DEF WindowInv, FlushInv
  <2> QED BY <2>2, <2>3
<1> QED BY <1>1, <1>2

\* Every step reads the last record of a key, or takes the key into a window.
LEMMA StepReads ==
  ASSUME Resting, IInv, WindowInv, PlainInv, [Next]_vars
  PROVE  ReadsLast'
<1> SUFFICES ASSUME NEW k \in Keys, k \notin atRisk'
             PROVE  Contents(ReadIn(files', memtable', DOMAIN registry', k))
                       = Contents(latest'[k])
  BY VisibleIsReadIn DEF ReadsLast, Visible, ReadFrom, ReadIn
<1> DEFINE before == ReadIn(files, memtable, DOMAIN registry, k)
           after == ReadIn(files', memtable', DOMAIN registry', k)
<1>0. /\ TypeInv /\ seq \in Nat /\ DOMAIN registry \subseteq Nat
      /\ \A s \in DOMAIN registry : s <= seq
      /\ ListedInv /\ PublishedInv /\ NewerInv /\ ReadsLast
  BY InvTypes DEF IInv, KnownInv, PlainInv
<1>1. \A s \in DOMAIN registry : files'[s] = files[s]
  BY <1>0, PlainTables
<1>2. k \notin atRisk => Contents(before) = Contents(latest[k])
  BY <1>0, VisibleIsReadIn DEF ReadsLast
<1>3. ASSUME DOMAIN registry' = DOMAIN registry, k \notin atRisk, latest'[k] = latest[k],
             Contents(Lookup(memtable', k)) = Contents(Lookup(memtable, k))
      PROVE  Contents(after) = Contents(latest'[k])
  <2>1. \A s \in DOMAIN registry : Lookup(files'[s], k) = Lookup(files[s], k)
    BY <1>1
  <2>2. Contents(ReadIn(files', memtable', DOMAIN registry, k)) = Contents(before)
    BY <1>3, <2>1, ReadAlike
  <2> QED BY <1>2, <1>3, <2>2
<1>4. ASSUME NEW c \in Clients, FlushPublish(c)
      PROVE  Contents(after) = Contents(latest'[k])
  <2> DEFINE new == flush[c].seq
  <2>1. /\ UNCHANGED <<memtable, latest, atRisk>> /\ files' = files
        /\ DOMAIN registry' = DOMAIN registry \cup {new} /\ new \in Nat /\ new <= seq
        /\ new \notin DOMAIN registry /\ files[new] = flush[c].recs /\ Flushing(c)
    <3>1. /\ files' = files /\ new \notin DOMAIN registry /\ new <= seq
          /\ files[new] = flush[c].recs /\ Flushing(c) /\ new \in Nat
      BY <1>0, <1>4, PublishedRecords, InvTypes DEF Flushing
    <3>2. UNCHANGED <<memtable, latest, atRisk>>
      BY <1>4, QuietFrame DEF QuietStep
    <3>3. DOMAIN registry' = DOMAIN registry \cup {new}
      BY <1>4 DEF FlushPublish, With
    <3> QED BY <3>1, <3>2, <3>3
  <2>2. Contents(Lookup(files[new], k)) \subseteq Contents(latest[k])
    BY <2>1 DEF WindowInv, FlushInv
  <2>3. /\ DOMAIN registry' \subseteq Nat /\ \A s \in DOMAIN registry' : s <= seq
        /\ after = ReadIn(files, memtable, DOMAIN registry', k)
    BY <1>0, <2>1
  <2>4. CASE Lookup(memtable, k) # {}
    BY <1>2, <2>1, <2>4 DEF ReadIn
  <2>5. CASE Lookup(memtable, k) = {}
    <3>1. CASE \A s \in DOMAIN registry' : Lookup(files[s], k) = {}
      <4>1. after = {} /\ before = {}
        BY <1>0, <2>1, <2>3, <2>5, <3>1, ReadCases
      <4> QED BY <1>2, <2>1, <4>1
    <3>2. CASE ~\A s \in DOMAIN registry' : Lookup(files[s], k) = {}
      <4>1. PICK s \in DOMAIN registry' :
                  /\ Lookup(files[s], k) # {} /\ after = Lookup(files[s], k)
                  /\ \A x \in DOMAIN registry' : Lookup(files[x], k) # {} => x <= s
        <5> HIDE DEF after
        <5> QED BY <1>0, <2>3, <2>5, <3>2, ReadCases
      <4>2. CASE s = new
        <5>1. \A x, y \in latest[k] : x = y
          BY DEF WindowInv, LatestInv
        <5>2. Contents(after) \subseteq Contents(latest[k]) /\ after # {}
          BY <2>1, <2>2, <4>1, <4>2
        <5>3. Contents(after) = Contents(latest[k])
          BY <5>1, <5>2, ContentsWhole
        <5> QED BY <2>1, <5>3
      <4>3. CASE s # new
        <5>1. s \in DOMAIN registry
          BY <2>1, <4>3
        <5>2. \A x \in DOMAIN registry : Lookup(files[x], k) # {} => x <= s
          BY <2>1, <4>1
        <5>3. before = Lookup(files[s], k)
          <6> HIDE DEF after
          <6>1. DOMAIN registry \subseteq Nat /\ Lookup(files[s], k) # {}
            BY <1>0, <4>1
          <6> QED BY ONLY <2>5, <5>1, <5>2, <6>1, ReadNewest
        <5> QED BY <1>2, <2>1, <4>1, <5>3
      <4> QED BY <4>2, <4>3
    <3> QED BY <3>1, <3>2
  <2> QED BY <2>4, <2>5
<1>5. ASSUME NEW c \in Clients, FlushClear(c)
      PROVE  Contents(after) = Contents(latest'[k])
  <2>1. /\ UNCHANGED <<files, registry, latest, atRisk>> /\ Lookup(memtable', k) = {}
        /\ flush[c].pc = "publish" /\ Flushing(c)
    BY <1>5, LookupNone DEF FlushClear, history, Flushing
  <2>2. CASE Lookup(memtable, k) = {}
    BY <1>3, <2>1, <2>2
  <2>3. CASE Lookup(memtable, k) # {}
    <3> DEFINE own == flush[c].seq
    <3>1. /\ own \in DOMAIN registry /\ own \in Nat /\ Lookup(files[own], k) # {}
      BY <1>0, <2>1, <2>3, InvTypes DEF PublishedInv, WindowInv, FlushInv
    <3>2. PICK s \in DOMAIN registry :
                /\ Lookup(files[s], k) # {} /\ after = Lookup(files[s], k)
                /\ \A x \in DOMAIN registry : Lookup(files[x], k) # {} => x <= s
      <4>1. after = ReadIn(files, memtable', DOMAIN registry, k)
        BY <2>1
      <4> HIDE DEF after
      <4> QED BY <1>0, <2>1, <3>1, <4>1, ReadCases
    <3>3. s >= own /\ s \in Nat
      BY <1>0, <3>1, <3>2
    <3>4. Contents(Lookup(files[s], k)) \subseteq Contents(latest[k])
      BY <1>0, <2>1, <3>3 DEF NewerInv
    <3>5. \A x, y \in latest[k] : x = y
      BY DEF WindowInv, LatestInv
    <3> QED BY <2>1, <3>2, <3>4, <3>5, ContentsWhole
  <2> QED BY <2>2, <2>3
<1>6. ASSUME NEW c \in Clients, NEW r \in Record, NEW ts \in Nat, Write(c, r, ts)
      PROVE  Contents(after) = Contents(latest'[k])
  <2>1. registry' = registry
    BY <1>6 DEF Write
  <2>2. CASE Lookup(memtable', k) = latest'[k] /\ latest'[k] # {}
    BY <2>2 DEF ReadIn
  <2>3. CASE /\ k \notin atRisk /\ latest'[k] = latest[k]
             /\ Contents(Lookup(memtable', k)) = Contents(Lookup(memtable, k))
    BY <1>3, <2>1, <2>3
  <2> QED BY <1>0, <1>6, <2>2, <2>3, WriteKey
<1>7. ASSUME NEW tear \in BOOLEAN, CrashRestart(tear)
      PROVE  Contents(after) = Contents(latest'[k])
  <2>1. UNCHANGED <<latest, atRisk>> /\ memtable' = Replay(wal)
    BY <1>7 DEF CrashRestart, history
  <2>2. Contents(Lookup(memtable', k)) = Contents(Lookup(memtable, k))
    BY <2>1 DEF WindowInv, LogInv
  <2>3. DOMAIN registry' = DOMAIN registry
    BY <1>0, <1>7 DEF CrashRestart, Loadable, ListedInv
  <2> QED BY <1>3, <2>1, <2>2, <2>3
<1>8. CASE QuietStep /\ DOMAIN registry' = DOMAIN registry
  BY <1>3, <1>8, QuietFrame
<1>9. QuietStep => DOMAIN registry' = DOMAIN registry \/ \E c \in Clients : FlushPublish(c)
  BY <1>0, PlainTables
<1> QED BY <1>0, <1>4, <1>5, <1>6, <1>7, <1>8, <1>9, StepKinds

\* All four hold for as long as no compaction begins.
LEMMA PlainInvariance == Spec /\ []Resting => []PlainInv
<1>1. Init => PlainInv
  <2> SUFFICES ASSUME Init PROVE PlainInv
    OBVIOUS
  <2>1. /\ DOMAIN registry = {} /\ DOMAIN manifest = {} /\ memtable = {}
        /\ \A k \in Keys : latest[k] = {}
        /\ \A c \in Clients : flush[c].pc = "idle"
    BY DEF Init, NoFlush
  <2>2. \A k \in Keys : Visible(k) = {}
    <3>1. DOMAIN registry \subseteq Nat /\ \A s \in DOMAIN registry : s <= 0
      BY <2>1
    <3>2. ASSUME NEW k \in Keys PROVE ReadIn(files, memtable, DOMAIN registry, k) = {}
      BY <2>1, <3>1, LookupNone, ReadCases
    <3> QED BY <3>2, VisibleIsReadIn
  <2> QED BY <2>1, <2>2 DEF PlainInv, ListedInv, PublishedInv, NewerInv, ReadsLast, Flushing
<1>2. Resting /\ IInv /\ WindowInv /\ PlainInv /\ [Next]_vars => PlainInv'
  BY StepListed, StepPublished, StepNewer, StepReads DEF PlainInv
<1> QED BY <1>1, <1>2, Invariance, WindowInvariance, PTL DEF Spec

\* What two tables hold of a key differs in timestamps if the tables do.
LEMMA LookupRestamped ==
  ASSUME NEW rs, NEW qs, Restamped(rs, qs), NEW k
  PROVE  Restamped(Lookup(rs, k), Lookup(qs, k))
<1>1. \A x, y : Restamp(x, y) => x.key = y.key
  BY RestampKey DEF Restamp
<1> QED BY <1>1 DEF Restamped, Lookup

\* A read of the replayed MemTable finds what a read of the lost one found,
\* under the same timestamp or a later one.
LEMMA ReadRestamped ==
  ASSUME NEW fs, NEW mem, NEW mem2, NEW ts, NEW k, Restamped(mem, mem2),
         \A s \in ts : fs[s] \subseteq Record
  PROVE  Restamped(ReadIn(fs, mem, ts, k), ReadIn(fs, mem2, ts, k))
<1>1. Restamped(Lookup(mem, k), Lookup(mem2, k))
  BY LookupRestamped
<1>2. Lookup(mem, k) = {} <=> Lookup(mem2, k) = {}
  BY <1>1 DEF Restamped
<1>3. CASE Lookup(mem, k) # {}
  BY <1>1, <1>2, <1>3 DEF ReadIn
<1>4. CASE Lookup(mem, k) = {}
  <2>1. ReadIn(fs, mem, ts, k) = ReadIn(fs, mem2, ts, k)
    BY <1>2, <1>4, ReadSame
  <2>2. ReadIn(fs, mem, ts, k) \subseteq Record
    BY <1>4 DEF ReadIn, Lookup
  <2> QED BY <2>1, <2>2, RestampedSelf
<1> QED BY <1>3, <1>4

\* Until a compaction begins, a crash at any moment, followed by open(),
\* changes no value, version or tombstone that a key reads and sets no
\* timestamp back, unless the log's tail is torn.
THEOREM RestartKeepsReads == Spec /\ []Resting => []RestartChangesNoRead
<1>1. IInv /\ ListedInv /\ MemtableIsWalReplay => RestartChangesNoRead
  <2> SUFFICES ASSUME IInv, ListedInv, MemtableIsWalReplay, ~torn, NEW k \in Keys
               PROVE  Restamped(Visible(k), Recoverable(k))
    BY DEF RestartChangesNoRead
  <2>1. Restamped(memtable, Replay(wal)) /\ Loadable = DOMAIN registry
    BY DEF MemtableIsWalReplay, ListedInv, Loadable
  <2>2. \A s \in DOMAIN registry : files[s] \subseteq Record
    BY DEF IInv, TypeInv, TypeOK, ListedInv
  <2>3. /\ Visible(k) = ReadIn(files, memtable, DOMAIN registry, k)
        /\ Recoverable(k) = ReadIn(files, Replay(wal), DOMAIN registry, k)
    BY <2>1, VisibleIsReadIn
  <2> QED BY <2>1, <2>2, <2>3, ReadRestamped
<1>2. PlainInv => ListedInv
  BY DEF PlainInv
<1>3. Spec /\ []Resting => []PlainInv
  BY PlainInvariance
<1> QED BY <1>1, <1>2, <1>3, Invariance, LogRebuildsMemtable, PTL

\* Until a compaction begins, a key whose last write was a set reads the value
\* and version of that set, unless it is at risk: overlapping and failing
\* flushes, other nodes' records, torn tails and restarts included.  The time
\* it reads may be the log's, once the node has restarted.
THEOREM ReadsAreNewest == Spec /\ []Resting => []GetReturnsNewest
<1>1. PlainInv => GetReturnsNewest
  BY DEF PlainInv, ReadsLast, GetReturnsNewest
<1>2. Spec /\ []Resting => []PlainInv
  BY PlainInvariance
<1> QED BY <1>1, <1>2, PTL

----------------------------------------------------------------------------
(* The refinement of KVStore.  A write is a Put; every other step keeps what *)
(* keys read that are not at risk, so it is a FallBack of those that are,    *)
(* which may be none.  FallBack chooses among values, so the records that    *)
(* can be read must carry one.                                               *)

\* A record carries a value, or is a tombstone; so does every record of rs.
Valued(r) == ~r.tombstone => r.value \in Values
AllValued(rs) == \A r \in rs : Valued(r)

\* So do all records of the log, the MemTable, the flushes and the files.
ValueInv ==
    /\ \A i \in DOMAIN wal : Valued(wal[i])
    /\ AllValued(memtable)
    /\ \A s \in DOMAIN files : AllValued(files[s])
    /\ \A c \in Clients : Flushing(c) => AllValued(flush[c].recs)

\* A write carries a value, or is a delete.
LEMMA WriteValue ==
  ASSUME TypeInv, NEW c \in Clients
  PROVE  /\ \A k \in Keys : Set(c, k) \/ Delete(c, k) =>
               \E r \in Record, ts \in Nat : Valued(r) /\ Write(c, r, ts)
         /\ \A r \in ForeignRecords : RepairSet(c, r) =>
               \E q \in Record, ts \in Nat : Valued(q) /\ Write(c, q, ts)
<1>1. clock \in Nat /\ MaxWrites \in Nat
  BY ConstantsAssumption DEF TypeInv, TypeOK
<1>2. ASSUME NEW k \in Keys, Set(c, k)
      PROVE  Valued(NewRecord(k, clock + 1, FALSE))
  <2>1. clock < MaxWrites
    BY <1>2 DEF Set, Write
  <2>2. clock + 1 \in 1..MaxWrites
    BY <1>1, <2>1
  <2> QED BY <2>2, ValuesAssumption DEF NewRecord, Valued
<1>3. ASSUME NEW k \in Keys PROVE Valued(NewRecord(k, 0, TRUE))
  BY DEF NewRecord, Valued
<1>4. ASSUME NEW r \in ForeignRecords PROVE r \in Record /\ r.timestamp \in Nat /\ Valued(r)
  BY ConstantsAssumption, ValuesAssumption DEF Record, Valued, Live
<1> QED BY <1>2, <1>3, <1>4, NewRecordType DEF Set, Delete, RepairSet

\* A step is quiet, writes a record with a value, clears the MemTable or crashes.
LEMMA ValueKinds ==
  ASSUME TypeInv, [Next]_vars
  PROVE  \/ QuietStep
         \/ \E c \in Clients, r \in Record, ts \in Nat : Valued(r) /\ Write(c, r, ts)
         \/ \E c \in Clients : FlushClear(c)
         \/ \E tear \in BOOLEAN : CrashRestart(tear)
  BY WriteValue DEF Next, ClientStep, FlushStep, QuietStep

\* Every record anywhere keeps a value, or is a tombstone.
LEMMA StepValue ==
  ASSUME Resting, IInv, ValueInv, [Next]_vars
  PROVE  ValueInv'
<1> USE DEF disk, memory, budget, history
<1>0. TypeInv /\ wal \in Seq(Record) /\ flush \in [Clients -> FlushState]
  BY InvTypes DEF IInv, TypeInv, TypeOK
<1>1. /\ \A j \in DOMAIN wal' : Valued(wal'[j])
      /\ AllValued(memtable')
  <2>1. CASE QuietStep
    BY <2>1, QuietFrame DEF ValueInv
  <2>2. ASSUME NEW c \in Clients, NEW r \in Record, NEW ts \in Nat, Valued(r),
               Write(c, r, ts)
        PROVE  /\ \A j \in DOMAIN wal' : Valued(wal'[j])
               /\ AllValued(memtable')
    <3> DEFINE e == [r EXCEPT !.timestamp = ts]
    <3>0. e \in Record /\ Valued(e)
      BY <2>2 DEF Record, Valued
    <3>1. memtable' = Upsert(memtable, r) /\ wal' = IF torn THEN wal ELSE Append(wal, e)
      BY <2>2 DEF Write
    <3> HIDE DEF e
    <3>2. \A j \in DOMAIN wal' : Valued(wal'[j])
      <4>1. /\ DOMAIN wal = 1..Len(wal) /\ Len(wal) \in Nat
            /\ DOMAIN Append(wal, e) = 1..(Len(wal) + 1) /\ Append(wal, e)[Len(wal) + 1] = e
            /\ \A j \in 1..Len(wal) : Append(wal, e)[j] = wal[j]
        BY <1>0, <3>0, LenProperties, AppendProperties
      <4> QED BY <3>0, <3>1, <4>1 DEF ValueInv
    <3> QED BY <2>2, <3>1, <3>2 DEF ValueInv, AllValued, Upsert
  <2>3. ASSUME NEW c \in Clients, FlushClear(c)
        PROVE  /\ \A j \in DOMAIN wal' : Valued(wal'[j])
               /\ AllValued(memtable')
    BY <2>3 DEF FlushClear, AllValued
  <2>4. ASSUME NEW tear \in BOOLEAN, CrashRestart(tear)
        PROVE  /\ \A j \in DOMAIN wal' : Valued(wal'[j])
               /\ AllValued(memtable')
    BY <2>4 DEF CrashRestart, ValueInv, AllValued, Replay
  <2> QED BY <1>0, <2>1, <2>2, <2>3, <2>4, ValueKinds
<1>2. \A s \in DOMAIN files' : AllValued(files'[s])
  <2>1. ASSUME NEW c \in Clients, FlushWrite(c)
        PROVE  \A s \in DOMAIN files' : AllValued(files'[s])
    <3>1. /\ files' = With(files, flush[c].seq, flush[c].recs) /\ Flushing(c)
      BY <2>1 DEF FlushWrite, Flushing
    <3> QED BY <3>1 DEF ValueInv, With
  <2>2. CASE files' = files
    BY <2>2 DEF ValueInv
  <2>3. CASE UNCHANGED vars
    BY <2>2, <2>3 DEF vars
  <2>4. ASSUME NEW c \in Clients, NEW r \in Record, NEW ts \in Nat, Write(c, r, ts) PROVE files' = files
    BY <2>4 DEF Write
  <2>5. ASSUME NEW c \in Clients,
               FlushCommand(c) \/ FlushPublish(c) \/ FlushFail(c) \/ FlushClear(c)
        PROVE  files' = files
    BY <2>5 DEF FlushCommand, FlushPublish, FlushFail, FlushClear
  <2>6. ASSUME NEW tear \in BOOLEAN, CrashRestart(tear) PROVE files' = files
    BY <2>6 DEF CrashRestart
  <2> HIDE DEF disk, memory, budget, history
  <2> QED BY <1>0, <2>1, <2>2, <2>3, <2>4, <2>5, <2>6, RestingStep, StepKinds DEF QuietStep
<1>3. \A c \in Clients : Flushing(c)' => AllValued(flush'[c].recs)
  BY <1>0, <1>1, StepFlush DEF ValueInv
<1> QED BY <1>1, <1>2, <1>3 DEF ValueInv, AllValued

\* What is read comes from the MemTable or a table, and what a key answers is a
\* value, or that it is not found.
LEMMA ReadValued ==
  ASSUME NEW fs, NEW mem, NEW ts, NEW k, AllValued(mem), \A s \in ts : AllValued(fs[s])
  PROVE  AllValued(ReadIn(fs, mem, ts, k))
<1>1. \A r \in ReadIn(fs, mem, ts, k) : r \in mem \/ \E s \in ts : r \in fs[s]
  BY DEF ReadIn, Lookup
<1> QED BY <1>1 DEF AllValued

\* What records with values name is a value or the mark of absence.
LEMMA NamedType ==
  ASSUME NEW rs, AllValued(rs)
  PROVE  Named(rs) \in Values \cup {Absent}
<1>1. CASE Live(rs) = {}
  BY <1>1 DEF Named
<1>2. CASE Live(rs) # {}
  <2>1. (CHOOSE r \in Live(rs) : TRUE) \in Live(rs)
    BY <1>2
  <2>2. \A r \in Live(rs) : r.value \in Values
    BY DEF Live, AllValued, Valued
  <2> QED BY <1>2, <2>1, <2>2 DEF Named
<1> QED BY <1>1, <1>2

\* Records of the same content as one record, or none, name what it names.
LEMMA NamedSame ==
  ASSUME NEW rs, NEW qs, Contents(rs) = Contents(qs), \A x, y \in qs : x = y
  PROVE  Named(rs) = Named(qs)
<1>1. ASSUME NEW x \in rs PROVE \E y \in qs : Content(y) = Content(x)
  BY DEF Contents
<1>2. ASSUME NEW y \in qs PROVE \E x \in rs : Content(y) = Content(x)
  BY DEF Contents
<1>3. \A x, y : Content(y) = Content(x) => y.value = x.value /\ y.tombstone = x.tombstone
  BY RestampKey
<1>4. Live(rs) = {} <=> Live(qs) = {}
  BY <1>1, <1>2, <1>3 DEF Live
<1>5. CASE Live(qs) = {}
  BY <1>4, <1>5 DEF Named
<1>6. CASE Live(qs) # {}
  <2>1. PICK q \in Live(qs) : \A y \in Live(qs) : y = q
    BY <1>6 DEF Live
  <2>2. \A x \in Live(rs) : x.value = q.value
    <3> SUFFICES ASSUME NEW x \in Live(rs) PROVE x.value = q.value
      OBVIOUS
    <3>1. PICK y \in qs : Content(y) = Content(x)
      BY <1>1 DEF Live
    <3>2. y.value = x.value /\ y.tombstone = x.tombstone
      BY <1>3, <3>1
    <3>3. y = q
      BY <2>1, <3>2 DEF Live
    <3> QED BY <3>2, <3>3
  <2>3. (CHOOSE x \in Live(rs) : TRUE) \in Live(rs)
    BY <1>4, <1>6
  <2>4. (CHOOSE y \in Live(qs) : TRUE) = q
    BY <2>1
  <2> QED BY <1>4, <1>6, <2>2, <2>3, <2>4 DEF Named
<1> QED BY <1>5, <1>6

\* A write is a Put of its key's new value: it changes what no other key
\* reads, be that at risk or not.
LEMMA WriteIsPut ==
  ASSUME IInv, ListedInv, [Next]_vars,
         NEW c \in Clients, NEW r \in Record, NEW ts \in Nat, Valued(r),
         Write(c, r, ts)
  PROVE  KV!Next
<1> DEFINE v == Named({r})
           risky == FlushInFlight \/ torn
<1>0. TypeInv /\ r.key \in Keys /\ latest \in [Keys -> SUBSET Record]
  BY DEF IInv, TypeInv, TypeOK, Record
<1>1. v \in Values \cup {Absent}
  <2>1. AllValued({r})
    BY DEF AllValued
  <2> QED BY <2>1, NamedType
<1>2. \A k \in Keys : Answer(k)' = IF k = r.key THEN v ELSE Answer(k)
  <2> SUFFICES ASSUME NEW k \in Keys
               PROVE  Answer(k)' = IF k = r.key THEN v ELSE Answer(k)
    OBVIOUS
  <2>1. /\ Lookup(memtable', k) = IF k = r.key THEN {r} ELSE Lookup(memtable, k)
        /\ registry' = registry /\ \A s \in DOMAIN registry : files'[s] = files[s]
    BY UpsertLookup DEF Write
  <2>2. Visible(k)' = ReadIn(files', memtable', DOMAIN registry', k)
    BY VisibleIsReadIn DEF Visible, ReadFrom, ReadIn
  <2>3. CASE k = r.key
    BY <2>1, <2>2, <2>3 DEF ReadIn, Answer
  <2>4. CASE k # r.key
    <3>1. \A s \in DOMAIN registry : Lookup(files[s], k) = Lookup(files'[s], k)
      BY <2>1
    <3>2. ReadIn(files, memtable, DOMAIN registry, k)
             = ReadIn(files', memtable', DOMAIN registry, k)
      BY <2>1, <2>4, <3>1, ReadSame
    <3>3. Visible(k)' = Visible(k)
      BY <2>1, <2>2, <3>2, VisibleIsReadIn
    <3> QED BY <2>4, <3>3 DEF Answer
  <2> QED BY <2>3, <2>4
<1>3. /\ latest' = [latest EXCEPT ![r.key] = {r}]
      /\ atRisk' = IF risky THEN atRisk \cup {r.key} ELSE atRisk \ {r.key}
  BY DEF Write
<1>4. \A k \in Keys : Named(latest'[k]) = IF k = r.key THEN v ELSE Named(latest[k])
  BY <1>0, <1>3
<1>5. KV!Put(r.key, v, risky)
  <2> HIDE DEF v, risky
  <2>1. [k \in Keys |-> Answer(k)]' = [[k \in Keys |-> Answer(k)] EXCEPT ![r.key] = v]
    BY <1>2
  <2>2. [k \in Keys |-> Named(latest[k])]'
           = [[k \in Keys |-> Named(latest[k])] EXCEPT ![r.key] = v]
    <3>1. [k \in Keys |-> Named(latest[k])]' = [k \in Keys |-> Named(latest'[k])]
      BY DEF Named, Live
    <3>2. [k \in Keys |-> Named(latest'[k])]
             = [[k \in Keys |-> Named(latest[k])] EXCEPT ![r.key] = v]
      BY <1>4
    <3> QED BY <3>1, <3>2
  <2> QED BY <1>3, <2>1, <2>2 DEF KV!Put
<1>6. risky \in BOOLEAN
  BY DEF FlushInFlight, risky
<1> HIDE DEF v, risky
<1> QED BY <1>0, <1>1, <1>5, <1>6 DEF KV!Next

\* Any other step keeps what was written and what keys outside the windows
\* read.
LEMMA OtherIsFallBack ==
  ASSUME Resting, IInv, WindowInv, PlainInv, ValueInv, [Next]_vars,
         UNCHANGED <<latest, atRisk>>
  PROVE  KV!FallBack
<1>1. ListedInv' /\ ValueInv' /\ ReadsLast /\ ReadsLast'
  BY StepListed, StepValue, StepReads DEF PlainInv
<1>2. ASSUME NEW k \in Keys PROVE Answer(k)' \in Values \cup {Absent}
  <2>1. AllValued(memtable') /\ \A s \in DOMAIN registry' : AllValued(files'[s])
    BY <1>1 DEF ListedInv, ValueInv, AllValued
  <2>2. Visible(k)' = ReadIn(files', memtable', DOMAIN registry', k)
    BY DEF Visible, ReadFrom, ReadIn
  <2>3. Answer(k)' = Named(ReadIn(files', memtable', DOMAIN registry', k))
    BY <2>2 DEF Answer, Named, Live
  <2> QED BY <2>1, <2>3, ReadValued, NamedType
<1>3. \A k \in Keys \ atRisk : Answer(k)' = Answer(k)
  <2> SUFFICES ASSUME NEW k \in Keys \ atRisk PROVE Answer(k)' = Answer(k)
    OBVIOUS
  <2>1. /\ Contents(Visible(k)) = Contents(latest[k])
        /\ Contents(ReadIn(files', memtable', DOMAIN registry', k)) = Contents(latest[k])
    BY <1>1, VisibleIsReadIn DEF ReadsLast, Visible, ReadFrom, ReadIn, Contents
  <2>2. \A x, y \in latest[k] : x = y
    BY DEF WindowInv, LatestInv
  <2>3. /\ Named(Visible(k)) = Named(latest[k])
        /\ Named(ReadIn(files', memtable', DOMAIN registry', k)) = Named(latest[k])
    BY <2>1, <2>2, NamedSame
  <2>4. Answer(k)' = Named(ReadIn(files', memtable', DOMAIN registry', k))
    BY DEF Answer, Named, Live, Visible, ReadFrom, ReadIn
  <2> QED BY <2>3, <2>4 DEF Answer
<1>4. [k \in Keys |-> Answer(k)]' \in [Keys -> Values \cup {Absent}]
  BY <1>2
<1>5. \A k \in Keys \ atRisk : [x \in Keys |-> Answer(x)]'[k] = [x \in Keys |-> Answer(x)][k]
  BY <1>3
<1>6. UNCHANGED <<[k \in Keys |-> Named(latest[k])], atRisk>>
  OBVIOUS
<1> QED BY <1>4, <1>5, <1>6 DEF KV!FallBack

\* Until a compaction begins, a node is a dictionary: a write takes effect at once,
\* and no flush, however it overlaps or fails, and no restart changes what a
\* key reads that is not at risk.
THEOREM EngineIsDictionary == Spec /\ []Resting => ImplementsKVStore
<1>1. Init => KV!Init
  <2> SUFFICES ASSUME Init PROVE KV!Init
    OBVIOUS
  <2>1. atRisk = {} /\ memtable = {} /\ DOMAIN registry = {} /\ \A k \in Keys : latest[k] = {}
    BY DEF Init
  <2>2. ASSUME NEW k \in Keys PROVE Answer(k) = Absent /\ Named(latest[k]) = Absent
    <3>1. DOMAIN registry \subseteq Nat /\ \A s \in DOMAIN registry : s <= 0
      BY <2>1
    <3>2. Visible(k) = {}
      BY <2>1, <3>1, LookupNone, ReadCases, VisibleIsReadIn
    <3>3. Named({}) = Absent
      BY DEF Named, Live
    <3> QED BY <2>1, <3>2, <3>3 DEF Answer
  <2> QED BY <2>1, <2>2 DEF KV!Init
<1>2. Init => ValueInv
  <2> SUFFICES ASSUME Init PROVE ValueInv
    OBVIOUS
  <2>1. DOMAIN wal = {} /\ memtable = {} /\ DOMAIN files = {}
    BY DEF Init
  <2>2. \A c \in Clients : flush[c].pc = "idle"
    BY DEF Init, NoFlush
  <2> QED BY <2>1, <2>2 DEF ValueInv, AllValued, Flushing
<1>3. Resting /\ IInv /\ ValueInv /\ [Next]_vars => ValueInv'
  BY StepValue
<1>4. Resting /\ IInv /\ WindowInv /\ PlainInv /\ ValueInv /\ [Next]_vars
         => [KV!Next]_<<[k \in Keys |-> Answer(k)], [k \in Keys |-> Named(latest[k])], atRisk>>
  <2> SUFFICES ASSUME Resting, IInv, WindowInv, PlainInv, ValueInv, [Next]_vars
               PROVE  KV!Next
    OBVIOUS
  <2>1. ASSUME NEW c \in Clients, NEW r \in Record, NEW ts \in Nat, Valued(r),
               Write(c, r, ts)
        PROVE  KV!Next
    BY <2>1, WriteIsPut DEF PlainInv
  <2>2. QuietStep \/ (\E c \in Clients : FlushClear(c))
        \/ (\E tear \in BOOLEAN : CrashRestart(tear)) => UNCHANGED <<latest, atRisk>>
    BY QuietFrame DEF FlushClear, CrashRestart, history
  <2>3. CASE UNCHANGED <<latest, atRisk>>
    BY <2>3, OtherIsFallBack DEF KV!Next
  <2> QED BY <2>1, <2>2, <2>3, ValueKinds DEF IInv
<1>5. Spec /\ []Resting => []PlainInv
  BY PlainInvariance
<1> QED
  BY <1>1, <1>2, <1>3, <1>4, <1>5, Invariance, WindowInvariance, PTL
     DEF Spec, ImplementsKVStore, KV!Spec

----------------------------------------------------------------------------
(* A node that compacts, up to its first restart, and is handed no records   *)
(* of other nodes.  Compactions may publish an older table over a newer one, *)
(* so a key may read an older value; but it reads some value if its last     *)
(* write was a set.  The record r of that set has the highest version of its *)
(* key, so every merge that reads it writes it, and it is never gone from    *)
(* all live tables: the inputs of a merge go after its output is live, one   *)
(* level below, which no other thread that is about to remove the same       *)
(* inputs can have among its own.  And tombstones of the key are in tables   *)
(* with numbers below every table that has r: a merge's output has none, and *)
(* a flush that could bring one has taken r with it.                         *)

\* x, met in a table, is the last record written at its key or an older one.
InOrder(x) ==
    /\ x \in Record /\ x.version < nextVersion
    /\ \A y \in latest[x.key] : x = y \/ x.version < y.version

\* No record met anywhere is newer than the last one written at its key.
VersionInv ==
    /\ \A x \in memtable : InOrder(x)
    /\ \A c \in Clients : Flushing(c) => \A x \in flush[c].recs : InOrder(x)
    /\ \A s \in DOMAIN files : \A x \in files[s] : InOrder(x)

\* The tables that a compaction merges are still at the level it compacts.
LevelInv ==
    \A t \in Compactors, s \in DOMAIN registry :
        s \in job[t].inputs => registry[s] = job[t].level

\* The output of a merge has no tombstones.
PureInv == \A t \in Compactors : Merging(t) => \A x \in files[job[t].out] : ~x.tombstone

\* A live table has r.
Held(r) == \E s \in DOMAIN registry : r \in files[s]

\* What a compaction of a table that has r has made of r.
Passed(t, r) ==
    /\ Merging(t) => r \in files[job[t].out]
    /\ job[t].pc = "remove" =>
          \E s \in DOMAIN registry : r \in files[s] /\ registry[s] > job[t].level

\* The number of table s is below that of every table with r, live or to come.
Below(s, r) ==
    /\ \A x \in DOMAIN registry : r \in files[x] => s < x
    /\ \A c \in Clients : Flushing(c) /\ r \in flush[c].recs => s < flush[c].seq
    /\ \A t \in Compactors : Merging(t) /\ r \in files[job[t].out] => s < job[t].out

\* Table s has a tombstone of k.
Buried(s, k) == \E x \in files[s] : x.key = k /\ x.tombstone

\* A read reaches r, and every thread that is about to take it away has put it
\* where a read reaches it.
Kept(r) ==
    /\ r \in memtable \/ Held(r)
    /\ \A c \in Clients : flush[c].pc = "publish" /\ r \in flush[c].recs => Held(r)
    /\ \A t \in Compactors, s \in DOMAIN registry :
          s \in job[t].inputs /\ r \in files[s] => Passed(t, r)
    /\ \A s \in DOMAIN registry : Buried(s, r.key) => Below(s, r)

\* The last record of every key is kept, unless it is a tombstone.
KeptInv == \A k \in Keys \ atRisk : \A r \in latest[k] : ~r.tombstone => Kept(r)

\* The invariant of a node before its first restart.
LiveInv == crashes = 0 => VersionInv /\ LevelInv /\ PureInv /\ KeptInv

\* The steps of a node that has not crashed and is handed no other's records.
LEMMA FirstRunKinds ==
  ASSUME ForeignRecords = {}, TypeInv, [Next]_vars, crashes' = 0
  PROVE  /\ crashes = 0
         /\ \A tear \in BOOLEAN : ~CrashRestart(tear)
         /\ \/ QuietStep
            \/ \E c \in Clients, r \in Record, ts \in Nat :
                  /\ Write(c, r, ts)
                  /\ r.version = nextVersion /\ nextVersion' = nextVersion + 1
            \/ \E c \in Clients : FlushClear(c) /\ nextVersion' = nextVersion
<1> USE DEF disk, memory, budget, history
<1>0. crashes \in Nat
  BY DEF TypeInv, TypeOK
<1>1. \A tear \in BOOLEAN : ~CrashRestart(tear)
  BY <1>0 DEF CrashRestart
<1>2. ASSUME NEW c \in Clients, NEW k \in Keys, Set(c, k) \/ Delete(c, k)
      PROVE  /\ crashes' = crashes
             /\ \E r \in Record, ts \in Nat :
                   /\ Write(c, r, ts)
                   /\ r.version = nextVersion /\ nextVersion' = nextVersion + 1
  <2>1. /\ NewRecord(k, clock + 1, FALSE).version = nextVersion
        /\ NewRecord(k, 0, TRUE).version = nextVersion
    BY DEF NewRecord
  <2> QED BY <1>2, <2>1, NewRecordType DEF Set, Delete, Write
<1>3. ASSUME NEW c \in Clients, FlushClear(c)
      PROVE  nextVersion' = nextVersion /\ crashes' = crashes
  BY <1>3 DEF FlushClear
<1>4. QuietStep => crashes' = crashes
  BY QuietFrame
<1>5. \/ QuietStep \/ \E c \in Clients : FlushClear(c)
      \/ \E c \in Clients, k \in Keys : Set(c, k) \/ Delete(c, k)
  BY <1>1 DEF Next, ClientStep, FlushStep, QuietStep
<1> HIDE DEF disk, memory, budget, history
<1> QED BY <1>1, <1>2, <1>3, <1>4, <1>5

\* What a step other than a restart makes of a compaction.
LEMMA StepJob ==
  ASSUME TypeInv, [Next]_vars, \A tear \in BOOLEAN : ~CrashRestart(tear),
         NEW t \in Compactors
  PROVE  \/ job'[t] = job[t]
         \/ /\ job'[t].pc \in {"scan", "merge"}
            /\ \/ job'[t].inputs = {}
               \/ job'[t].inputs = Tables(job'[t].level) /\ registry' = registry
         \/ /\ job'[t].inputs = job[t].inputs /\ job'[t].level = job[t].level
            /\ \/ Merge(t) /\ job[t].pc = "merge"
               \/ CompactManifest(t) /\ Merging(t) /\ job'[t].pc = "publish"
                  /\ job'[t].out = job[t].out
               \/ CompactPublish(t) /\ Merging(t) /\ job'[t].pc = "remove"
               \/ CompactRemove(t) /\ job[t].pc = "remove" /\ job'[t].pc = "delete"
<1> USE DEF disk, memory, budget, history
<1>0. job \in [Compactors -> JobState] /\ DOMAIN job = Compactors
  BY InvTypes
<1>1. CASE TakeLevel(t)
  <2>1. \/ job'[t] = [job[t] EXCEPT !.pc = "merge", !.inputs = Tables(job[t].level)]
        \/ job'[t] = NextLevel(t)
    BY <1>0, <1>1 DEF TakeLevel
  <2> QED BY <1>0, <1>1, <2>1 DEF TakeLevel, NextLevel, NoJob, JobState
<1>2. CASE MergeFail(t) \/ CompactDelete(t)
  BY <1>0, <1>2 DEF MergeFail, CompactDelete, NextLevel, NoJob
<1>3. CASE Merge(t)
  <2>1. \/ job'[t] = [job[t] EXCEPT !.pc = "remove"]
        \/ job'[t] = [job[t] EXCEPT !.pc = "manifest", !.out = seq + 1]
    BY <1>0, <1>3 DEF Merge
  <2> QED BY <1>0, <1>3, <2>1 DEF Merge, JobState
<1>4. CASE CompactManifest(t) \/ CompactPublish(t) \/ CompactRemove(t)
  BY <1>0, <1>4 DEF CompactManifest, CompactPublish, CompactRemove, JobState, Merging
<1>5. ASSUME NEW u \in Compactors, CompactStep(u), u # t PROVE job'[t] = job[t]
  BY <1>0, <1>5 DEF CompactStep, TakeLevel, Merge, MergeFail, CompactManifest,
                    CompactPublish, CompactRemove, CompactDelete
<1>6. ASSUME NEW c \in Clients, NEW r \in Record, NEW ts \in Nat, Write(c, r, ts) PROVE job' = job
  BY <1>6 DEF Write
<1>7. ASSUME NEW c \in Clients, \/ FlushCommand(c) \/ FlushWrite(c) \/ FlushPublish(c)
                                \/ FlushFail(c) \/ FlushClear(c)
      PROVE  job' = job
  BY <1>7 DEF FlushCommand, FlushWrite, FlushPublish, FlushFail, FlushClear
<1>8. CASE UNCHANGED vars
  BY <1>8 DEF vars
<1>9. CASE CompactStep(t)
  BY <1>1, <1>2, <1>3, <1>4, <1>9 DEF CompactStep
<1> HIDE DEF disk, memory, budget, history
<1> QED BY <1>5, <1>6, <1>7, <1>8, <1>9, StepKinds DEF QuietStep

\* What a step other than a restart makes of the registry.
LEMMA StepRegistry ==
  ASSUME TypeInv, [Next]_vars, \A tear \in BOOLEAN : ~CrashRestart(tear)
  PROVE  \/ registry' = registry
         \/ \E c \in Clients : FlushPublish(c)
         \/ \E t \in Compactors : CompactPublish(t) \/ CompactRemove(t)
<1> USE DEF disk, memory, budget, history
<1>1. ASSUME NEW c \in Clients, NEW r \in Record, NEW ts \in Nat, Write(c, r, ts) PROVE registry' = registry
  BY <1>1 DEF Write
<1>2. ASSUME NEW c \in Clients,
             FlushCommand(c) \/ FlushWrite(c) \/ FlushFail(c) \/ FlushClear(c)
      PROVE  registry' = registry
  BY <1>2 DEF FlushCommand, FlushWrite, FlushFail, FlushClear
<1>3. ASSUME NEW t \in Compactors, CompactStep(t)
      PROVE  registry' = registry \/ CompactPublish(t) \/ CompactRemove(t)
  BY <1>3 DEF CompactStep, TakeLevel, Merge, MergeFail, CompactManifest, CompactDelete
<1>4. UNCHANGED vars => registry' = registry
  BY DEF vars
<1> HIDE DEF disk, memory, budget, history
<1> QED BY <1>1, <1>2, <1>3, <1>4, StepKinds DEF QuietStep

\* A merge yields live records of its inputs,
LEMMA MergedFrom ==
  ASSUME NEW fs, NEW ss, NEW x \in Merged(fs, ss)
  PROVE  ~x.tombstone /\ \E s \in ss : x \in fs[s]
  BY DEF Merged, Live, Winners, Entries

\* and a live record that no other of its key equals in version is among them.
LEMMA HighestWins ==
  ASSUME NEW fs, NEW ss, NEW n \in Nat, ss \subseteq Nat, \A s \in ss : s <= n,
         NEW r \in Record, ~r.tombstone, \E s \in ss : r \in fs[s],
         \A s \in ss : \A x \in fs[s] :
            x \in Record /\ (x.key = r.key => x = r \/ x.version < r.version)
  PROVE  r \in Merged(fs, ss)
<1> DEFINE with == {s \in ss : r \in fs[s]}
<1>1. PICK top \in with : \A s \in with : s <= top
  <2>1. with \subseteq Nat /\ with # {} /\ \A s \in with : s <= n
    OBVIOUS
  <2> HIDE DEF with
  <2> QED BY <2>1, HighestOf
<1> DEFINE e == [rec |-> r, seq |-> top]
<1>2. e \in Entries(fs, ss)
  <2>1. e \in {[rec |-> x, seq |-> top] : x \in fs[top]} /\ top \in ss
    BY <1>1
  <2> QED BY <2>1 DEF Entries
<1>3. ASSUME NEW d \in Entries(fs, ss), d.rec.key = e.rec.key
      PROVE  d = e \/ Beats(e, d)
  <2>0. PICK s \in ss : \E x \in fs[s] : d = [rec |-> x, seq |-> s]
    BY DEF Entries
  <2>1. PICK x \in fs[s] : d = [rec |-> x, seq |-> s]
    BY <2>0
  <2>2. x \in Record /\ x.key = r.key /\ s \in Nat /\ top \in Nat
    BY <1>3, <2>1
  <2>3. CASE x = r
    <3>1. s <= top
      BY <1>1, <2>1, <2>3
    <3>2. CASE s = top
      BY <2>1, <2>3, <3>2
    <3>3. CASE s # top
      <4>1. top > s
        BY <2>2, <3>1, <3>3
      <4> QED BY <2>1, <2>3, <4>1 DEF Beats
    <3> QED BY <3>2, <3>3
  <2>4. CASE x # r
    <3>1. r.version > x.version
      <4>1. x.version < r.version /\ x.version \in Nat /\ r.version \in Nat
        BY <2>1, <2>2, <2>4 DEF Record
      <4> QED BY <4>1
    <3> QED BY <2>1, <3>1 DEF Beats
  <2> QED BY <2>3, <2>4
<1>4. e \in Winners(Entries(fs, ss))
  BY <1>2, <1>3 DEF Winners
<1> QED BY <1>4 DEF Merged, Live

\* A record in order stays so: what is written next has a higher version.
LEMMA InOrderStays ==
  ASSUME ForeignRecords = {}, TypeInv, [Next]_vars, crashes' = 0, NEW x, InOrder(x)
  PROVE  InOrder(x)'
<1>0. /\ nextVersion \in Nat /\ latest \in [Keys -> SUBSET Record]
      /\ x \in Record /\ x.version \in Nat /\ x.key \in Keys
  BY DEF TypeInv, TypeOK, InOrder, Record
<1>1. ASSUME UNCHANGED <<nextVersion, latest>> PROVE InOrder(x)'
  BY <1>1 DEF InOrder
<1>2. ASSUME NEW c \in Clients, NEW r \in Record, NEW ts \in Nat, Write(c, r, ts),
             r.version = nextVersion, nextVersion' = nextVersion + 1
      PROVE  InOrder(x)'
  <2>1. latest' = [latest EXCEPT ![r.key] = {r}]
    BY <1>2 DEF Write
  <2>2. x.version < nextVersion'
    BY <1>0, <1>2 DEF InOrder
  <2>3. ASSUME NEW y \in latest'[x.key] PROVE x = y \/ x.version < y.version
    <3>1. CASE x.key = r.key
      BY <1>0, <1>2, <2>1, <2>3, <3>1 DEF InOrder
    <3>2. CASE x.key # r.key
      BY <1>0, <2>1, <2>3, <3>2 DEF InOrder
    <3> QED BY <3>1, <3>2
  <2> QED BY <1>0, <2>2, <2>3 DEF InOrder
<1>3. ASSUME NEW c \in Clients, FlushClear(c) PROVE latest' = latest
  BY <1>3 DEF FlushClear, history
<1>4. QuietStep => UNCHANGED <<nextVersion, latest>>
  BY QuietFrame
<1> QED BY <1>1, <1>2, <1>3, <1>4, FirstRunKinds

\* The records of every file stay in the order of their versions.
LEMMA StepVersion ==
  ASSUME ForeignRecords = {}, IInv, VersionInv, [Next]_vars, crashes' = 0
  PROVE  VersionInv'
<1> USE DEF disk, memory, budget, history
<1>0. /\ TypeInv /\ latest \in [Keys -> SUBSET Record] /\ nextVersion \in Nat
  BY DEF IInv, TypeInv, TypeOK
<1>1. \A x : InOrder(x) => InOrder(x)'
  BY <1>0, InOrderStays
<1>2. ASSUME NEW x \in memtable' PROVE InOrder(x)'
  <2>1. CASE x \in memtable
    BY <1>1, <2>1 DEF VersionInv
  <2>2. ASSUME NEW c \in Clients, NEW r \in Record, NEW ts \in Nat, Write(c, r, ts),
               r.version = nextVersion, nextVersion' = nextVersion + 1
        PROVE  x \in memtable \/ InOrder(x)'
    <3>1. x \in memtable \/ x = r
      BY <2>2 DEF Write, Upsert
    <3>2. latest'[r.key] = {r}
      BY <1>0, <2>2 DEF Write, Record
    <3>3. InOrder(r)'
      BY <1>0, <2>2, <3>2 DEF InOrder
    <3> QED BY <3>1, <3>3
  <2>3. ASSUME NEW c \in Clients, FlushClear(c) PROVE FALSE
    BY <2>3 DEF FlushClear
  <2>4. QuietStep => memtable' = memtable
    BY QuietFrame
  <2> HIDE DEF disk, memory, budget, history
  <2> QED BY <1>0, <2>1, <2>2, <2>3, <2>4, FirstRunKinds
<1>3. ASSUME NEW d \in Clients, Flushing(d)', NEW x \in flush'[d].recs PROVE InOrder(x)'
  BY <1>0, <1>1, <1>2, <1>3, StepFlush DEF VersionInv
<1>4. ASSUME NEW s \in DOMAIN files', NEW x \in files'[s] PROVE InOrder(x)'
  <2>1. ASSUME NEW c \in Clients, FlushWrite(c) PROVE InOrder(x)
    <3>1. files' = With(files, flush[c].seq, flush[c].recs) /\ Flushing(c)
      BY <2>1 DEF FlushWrite, Flushing
    <3> QED BY <1>4, <3>1 DEF VersionInv, With
  <2>2. ASSUME NEW t \in Compactors, Merge(t) PROVE InOrder(x)
    <3>1. /\ job[t].inputs \subseteq DOMAIN files
          /\ files' = files \/ files' = With(files, seq + 1, Merged(files, job[t].inputs))
      BY <2>2 DEF Merge
    <3>2. \A y \in Merged(files, job[t].inputs) : InOrder(y)
      BY <3>1, MergedFrom DEF VersionInv
    <3> QED BY <1>4, <3>1, <3>2 DEF VersionInv, With
  <2>3. ASSUME NEW t \in Compactors, CompactDelete(t) PROVE InOrder(x)
    <3>1. files' = Without(files, job[t].inputs)
      BY <2>3 DEF CompactDelete
    <3> QED BY <1>4, <3>1 DEF VersionInv, Without
  <2>4. ASSUME files' = files PROVE InOrder(x)
    BY <1>4, <2>4 DEF VersionInv
  <2>5. ASSUME NEW t \in Compactors, CompactStep(t) PROVE InOrder(x)
    BY <2>2, <2>3, <2>4, <2>5 DEF CompactStep, TakeLevel, MergeFail, CompactManifest,
       CompactPublish, CompactRemove
  <2>6. ASSUME NEW c \in Clients, NEW r \in Record, NEW ts \in Nat, Write(c, r, ts) PROVE files' = files
    BY <2>6 DEF Write
  <2>7. ASSUME NEW c \in Clients,
               FlushCommand(c) \/ FlushPublish(c) \/ FlushFail(c) \/ FlushClear(c)
        PROVE  files' = files
    BY <2>7 DEF FlushCommand, FlushPublish, FlushFail, FlushClear
  <2>8. UNCHANGED vars => files' = files
    BY DEF vars
  <2>9. InOrder(x)
    <3> HIDE DEF disk, memory, budget, history
    <3> QED BY <1>0, <2>1, <2>4, <2>5, <2>6, <2>7, <2>8, FirstRunKinds DEF QuietStep
  <2> QED BY <1>1, <2>9
<1> QED BY <1>2, <1>3, <1>4 DEF VersionInv

\* What comes into the registry is a table that no compaction is merging, and
\* what stays keeps its level.
LEMMA RegistryKeeps ==
  ASSUME IInv, [Next]_vars, \A tear \in BOOLEAN : ~CrashRestart(tear),
         NEW s \in DOMAIN registry'
  PROVE  \/ s \in DOMAIN registry /\ registry'[s] = registry[s]
         \/ /\ s \notin DOMAIN registry /\ \A t \in Compactors : s \notin job[t].inputs
            /\ \/ \E c \in Clients : FlushPublish(c) /\ s = flush[c].seq
               \/ \E t \in Compactors : CompactPublish(t) /\ s = job[t].out
<1>1. ASSUME NEW c \in Clients, FlushPublish(c), s \notin DOMAIN registry
      PROVE  s = flush[c].seq /\ \A t \in Compactors : s \notin job[t].inputs
  BY <1>1 DEF FlushPublish, With, IInv, FreshInv, Fresh, Writing
<1>2. ASSUME NEW t \in Compactors, CompactPublish(t), s \notin DOMAIN registry
      PROVE  s = job[t].out /\ \A u \in Compactors : s \notin job[u].inputs
  BY <1>2 DEF CompactPublish, With, IInv, FreshInv, Fresh, Merging
<1>3. ASSUME NEW c \in Clients, FlushPublish(c), s \in DOMAIN registry
      PROVE  registry'[s] = registry[s]
  BY <1>3 DEF FlushPublish, With, IInv, FreshInv, Fresh, Writing
<1>4. ASSUME NEW t \in Compactors, CompactPublish(t), s \in DOMAIN registry
      PROVE  registry'[s] = registry[s]
  BY <1>4 DEF CompactPublish, With, IInv, FreshInv, Fresh, Merging
<1>5. ASSUME NEW t \in Compactors, CompactRemove(t)
      PROVE  s \in DOMAIN registry /\ registry'[s] = registry[s]
  BY <1>5 DEF CompactRemove, Without
<1> QED BY <1>1, <1>2, <1>3, <1>4, <1>5, StepRegistry DEF IInv

\* The levels of the registry are numbers before and after a step.
LEMMA LevelTypes ==
  ASSUME TypeInv, [Next]_vars
  PROVE  /\ \A s \in DOMAIN registry : registry[s] \in Nat
         /\ \A s \in DOMAIN registry' : registry'[s] \in Nat
<1>1. TypeInv'
  BY StepType
<1>2. \A s \in DOMAIN registry : registry[s] \in Levels
  BY DEF TypeInv, TypeOK
<1>3. \A s \in DOMAIN registry' : registry'[s] \in Levels
  BY <1>1 DEF TypeInv, TypeOK
<1> QED BY <1>2, <1>3 DEF Levels

\* A merge writes what Merged says, or nothing if that is empty.
LEMMA MergeEffect ==
  ASSUME TypeInv, NEW t \in Compactors, Merge(t)
  PROVE  /\ job[t].inputs \subseteq DOMAIN files /\ job'[t].pc \in {"manifest", "remove"}
         /\ job'[t].pc = "remove" => Merged(files, job[t].inputs) = {}
         /\ job'[t].pc = "manifest" =>
               job'[t].out = seq + 1 /\ files'[seq + 1] = Merged(files, job[t].inputs)
<1>0. job \in [Compactors -> JobState] /\ job[t].inputs \subseteq DOMAIN files
  BY InvTypes DEF Merge
<1>1. CASE Merged(files, job[t].inputs) = {}
  BY <1>0, <1>1 DEF Merge, JobState
<1>2. CASE Merged(files, job[t].inputs) # {}
  <2>1. /\ job' = [job EXCEPT ![t].pc = "manifest", ![t].out = seq + 1]
        /\ files' = With(files, seq + 1, Merged(files, job[t].inputs))
    BY <1>2 DEF Merge
  <2>2. files'[seq + 1] = Merged(files, job[t].inputs)
    BY <2>1 DEF With
  <2> QED BY <1>0, <2>1, <2>2 DEF JobState
<1> QED BY <1>1, <1>2

\* The tables a compaction has taken stay at the level it took them from.
LEMMA StepLevel ==
  ASSUME IInv, LevelInv, [Next]_vars, \A tear \in BOOLEAN : ~CrashRestart(tear)
  PROVE  LevelInv'
<1> SUFFICES ASSUME NEW t \in Compactors, NEW s \in DOMAIN registry', s \in job'[t].inputs
             PROVE  registry'[s] = job'[t].level
  BY DEF LevelInv
<1>1. CASE job'[t].inputs = job[t].inputs /\ job'[t].level = job[t].level
  BY <1>1, RegistryKeeps DEF LevelInv
<1>2. CASE job'[t].inputs = Tables(job'[t].level) /\ registry' = registry
  BY <1>2 DEF Tables
<1> QED BY <1>1, <1>2, StepJob DEF IInv

\* The output of a merge never holds a tombstone.
LEMMA StepPure ==
  ASSUME IInv, PureInv, [Next]_vars, \A tear \in BOOLEAN : ~CrashRestart(tear)
  PROVE  PureInv'
<1> SUFFICES ASSUME NEW t \in Compactors, Merging(t)', NEW x \in files'[job'[t].out]
             PROVE  ~x.tombstone
  BY DEF PureInv
<1>1. CASE Merging(t) /\ job'[t].out = job[t].out
  BY <1>1, LiveFiles DEF PureInv
<1>2. CASE Merge(t)
  BY <1>2, MergeEffect, MergedFrom DEF IInv, Merging
<1>3. Merge(t) \/ (Merging(t) /\ job'[t].out = job[t].out)
  BY StepJob DEF IInv, Merging
<1> QED BY <1>1, <1>2, <1>3

\* The record of a set whose key no window has swallowed stays kept, whatever
\* flushes and compactions do.
LEMMA KeptStays ==
  ASSUME IInv, WindowInv, VersionInv, LevelInv, PureInv, [Next]_vars,
         \A tear \in BOOLEAN : ~CrashRestart(tear),
         NEW r \in Record, ~r.tombstone, Kept(r),
         r.key \notin atRisk, latest[r.key] = {r},
         r \in memtable => r \in memtable' \/ \E c \in Clients : FlushClear(c)
  PROVE  Kept(r)'
<1>0. /\ TypeInv /\ r.key \in Keys /\ seq \in Nat /\ DOMAIN registry \subseteq Nat
      /\ \A s \in DOMAIN registry : s <= seq /\ files'[s] = files[s]
      /\ \A t \in Compactors : job[t].inputs \subseteq Nat /\ \A s \in job[t].inputs : s <= seq
  BY InvTypes, LiveFiles DEF IInv, KnownInv, Record
\* The inputs that have r go when its output, one level below, is live.
<1>1. ASSUME NEW s \in DOMAIN registry, r \in files[s]
      PROVE  \E x \in DOMAIN registry' : r \in files'[x] /\ registry'[x] >= registry[s]
  <2>1. CASE s \in DOMAIN registry'
    <3>1. registry'[s] = registry[s] /\ registry[s] \in Levels
      BY <1>0, <2>1, RegistryKeeps DEF TypeInv, TypeOK
    <3> QED BY <1>0, <1>1, <2>1, <3>1 DEF Levels
  <2>2. CASE s \notin DOMAIN registry'
    <3>1. PICK t \in Compactors : CompactRemove(t) /\ s \in job[t].inputs
      <4>1. ASSUME NEW c \in Clients, FlushPublish(c) PROVE s \in DOMAIN registry'
        BY <4>1 DEF FlushPublish, With
      <4>2. ASSUME NEW t \in Compactors, CompactPublish(t) PROVE s \in DOMAIN registry'
        BY <4>2 DEF CompactPublish, With
      <4>3. ASSUME NEW t \in Compactors, CompactRemove(t), s \notin job[t].inputs
            PROVE  s \in DOMAIN registry'
        BY <4>3 DEF CompactRemove, Without
      <4> QED BY <1>0, <2>2, <4>1, <4>2, <4>3, StepRegistry
    <3>2. PICK x \in DOMAIN registry : r \in files[x] /\ registry[x] > job[t].level
      BY <1>1, <3>1 DEF Kept, Passed, CompactRemove
    <3>3. /\ registry[s] = job[t].level /\ registry[s] \in Nat /\ registry[x] \in Nat
          /\ x \notin job[t].inputs
      BY <1>0, <3>1, <3>2 DEF LevelInv, TypeInv, TypeOK, Levels
    <3>4. x \in DOMAIN registry' /\ registry'[x] = registry[x]
      BY <3>1, <3>2, <3>3 DEF CompactRemove, Without
    <3> QED BY <1>0, <3>2, <3>3, <3>4
  <2> QED BY <2>1, <2>2
<1>2. Held(r) => Held(r)'
  BY <1>1 DEF Held
<1>3. r \in memtable' \/ Held(r)'
  <2>1. ASSUME NEW c \in Clients, FlushClear(c), r \in memtable PROVE Held(r)
    <3>1. flush[c].pc = "publish" /\ Flushing(c)
      BY <2>1 DEF FlushClear, Flushing
    <3>2. r \in flush[c].recs
      BY <1>0, <2>1, <3>1 DEF WindowInv, FlushInv, Lookup
    <3> QED BY <2>1, <3>1, <3>2 DEF Kept
  <2> QED BY <1>2, <2>1 DEF Kept
\* A table that comes into the registry with r is the flush's or the merge's.
<1>4. ASSUME NEW c \in Clients, FlushPublish(c)
      PROVE  flush[c].seq \in DOMAIN registry' /\ files'[flush[c].seq] = flush[c].recs
             /\ Flushing(c)
  BY <1>4, PublishedRecords DEF FlushPublish, With, Flushing
<1>5. ASSUME NEW t \in Compactors, CompactPublish(t)
      PROVE  /\ job[t].out \in DOMAIN registry' /\ registry'[job[t].out] = job[t].level + 1
             /\ files'[job[t].out] = files[job[t].out] /\ Merging(t)
  BY <1>5, LiveFiles DEF CompactPublish, With, Merging
<1>6. ASSUME NEW c \in Clients, flush'[c].pc = "publish", r \in flush'[c].recs
      PROVE  Held(r)'
  <2>1. CASE FlushPublish(c)
    <3>1. flush'[c].recs = flush[c].recs
      BY <1>0, <2>1, InvTypes DEF FlushPublish, FlushState
    <3> QED BY <1>4, <1>6, <2>1, <3>1 DEF Held
  <2>2. CASE flush[c].pc = "publish" /\ flush'[c].recs = flush[c].recs
    BY <1>2, <1>6, <2>2 DEF Kept
  <2> QED BY <1>0, <1>6, <2>1, <2>2, StepPublishing
<1>7. ASSUME NEW t \in Compactors, NEW s \in DOMAIN registry', s \in job'[t].inputs,
             r \in files'[s], job'[t].pc \in {"manifest", "publish", "remove"}
      PROVE  Passed(t, r)'
  <2>1. s \in job[t].inputs /\ s \in DOMAIN registry /\ r \in files[s]
    <3>1. job'[t].inputs = job[t].inputs
      BY <1>0, <1>7, StepJob
    <3> QED BY <1>0, <1>7, <3>1, RegistryKeeps
  <2>2. Passed(t, r)
    BY <2>1 DEF Kept
  <2>3. CASE Merging(t) /\ job'[t].out = job[t].out /\ job'[t].pc # "remove"
    BY <2>2, <2>3, LiveFiles DEF Passed, Merging
  <2>4. CASE job'[t] = job[t] /\ job[t].pc = "remove"
    <3>1. PICK x \in DOMAIN registry : r \in files[x] /\ registry[x] > job[t].level
      BY <2>2, <2>4 DEF Passed
    <3>2. PICK y \in DOMAIN registry' : r \in files'[y] /\ registry'[y] >= registry[x]
      BY <1>1, <3>1
    <3>3. registry'[y] > job'[t].level
      <4>1. registry[x] \in Nat /\ registry'[y] \in Nat
        BY <1>0, LevelTypes
      <4>2. job[t].level \in Nat
        BY <1>0, InvTypes DEF JobState
      <4> QED BY <2>4, <3>1, <3>2, <4>1, <4>2
    <3> QED BY <2>4, <3>2, <3>3 DEF Passed, Merging
  <2>5. CASE Merge(t)
    <3>1. r \in Merged(files, job[t].inputs)
      <4>1. \A x \in job[t].inputs : \A y \in files[x] :
               y \in Record /\ (y.key = r.key => y = r \/ y.version < r.version)
        BY <1>0, <2>5, MergeEffect DEF VersionInv, InOrder
      <4> QED BY <1>0, <2>1, <4>1, HighestWins
    <3> QED BY <1>0, <1>7, <2>5, <3>1, MergeEffect DEF Passed, Merging
  <2>6. CASE CompactPublish(t) /\ Merging(t) /\ job'[t].pc = "remove"
             /\ job'[t].level = job[t].level
    <3>1. job[t].level \in Nat
      BY <1>0, InvTypes DEF JobState
    <3> QED BY <1>5, <2>2, <2>6, <3>1 DEF Passed, Merging
  <2> QED BY <1>0, <1>7, <2>3, <2>4, <2>5, <2>6, StepJob DEF Merging
<1>8. ASSUME NEW s \in DOMAIN registry', Buried(s, r.key)'
      PROVE  Below(s, r)'
  <2>1. s \in DOMAIN registry /\ Buried(s, r.key)
    <3>1. ASSUME NEW c \in Clients, FlushPublish(c), s = flush[c].seq PROVE FALSE
      <4>1. PICK x \in flush[c].recs : x.key = r.key /\ x.tombstone
        BY <1>4, <1>8, <3>1 DEF Buried
      <4>2. Contents(Lookup(flush[c].recs, r.key)) \subseteq Contents(latest[r.key])
        BY <1>0, <1>4, <3>1 DEF WindowInv, FlushInv
      <4>3. x \in Lookup(flush[c].recs, r.key)
        BY <4>1 DEF Lookup
      <4>4. Content(x) = Content(r)
        BY <4>2, <4>3 DEF Contents
      <4> QED BY <4>1, <4>4, RestampKey
    <3>2. ASSUME NEW t \in Compactors, CompactPublish(t), s = job[t].out PROVE FALSE
      BY <1>5, <1>8, <3>2 DEF Buried, PureInv
    <3>3. s \in DOMAIN registry
      BY <3>1, <3>2, RegistryKeeps
    <3> QED BY <1>0, <1>8, <3>3 DEF Buried
  <2>2. Below(s, r) /\ s \in Nat /\ s < seq + 1
    BY <1>0, <2>1 DEF Kept
  <2>3. ASSUME NEW x \in DOMAIN registry', r \in files'[x] PROVE s < x
    <3>1. CASE x \in DOMAIN registry
      BY <1>0, <2>2, <2>3, <3>1 DEF Below
    <3>2. ASSUME NEW c \in Clients, FlushPublish(c), x = flush[c].seq PROVE s < x
      BY <1>4, <2>2, <2>3, <3>2 DEF Below
    <3>3. ASSUME NEW t \in Compactors, CompactPublish(t), x = job[t].out PROVE s < x
      BY <1>5, <2>2, <2>3, <3>3 DEF Below
    <3> QED BY <3>1, <3>2, <3>3, RegistryKeeps
  <2>4. ASSUME NEW c \in Clients, Flushing(c)', r \in flush'[c].recs PROVE s < flush'[c].seq
    BY <1>0, <2>2, <2>4, StepFlush DEF Below
  <2>5. ASSUME NEW t \in Compactors, Merging(t)', r \in files'[job'[t].out]
        PROVE  s < job'[t].out
    <3>1. CASE Merging(t) /\ job'[t].out = job[t].out
      BY <2>2, <2>5, <3>1, LiveFiles DEF Below
    <3>2. CASE Merge(t)
      BY <1>0, <2>2, <2>5, <3>2, MergeEffect DEF Merging
    <3>3. Merge(t) \/ (Merging(t) /\ job'[t].out = job[t].out)
      BY <1>0, <2>5, StepJob DEF Merging
    <3> QED BY <3>1, <3>2, <3>3
  <2> QED BY <2>3, <2>4, <2>5 DEF Below
<1>9. \A t \in Compactors : job'[t].pc \notin {"manifest", "publish", "remove"} => Passed(t, r)'
  BY DEF Passed, Merging
<1> QED BY <1>3, <1>6, <1>7, <1>8, <1>9 DEF Kept

\* A set that no window swallows is kept from the start.
LEMMA FreshKept ==
  ASSUME IInv, VersionInv, NEW c \in Clients, NEW r \in Record, NEW ts \in Nat, Write(c, r, ts),
         r.version = nextVersion, \A d \in Clients : ~Flushing(d)
  PROVE  Kept(r)'
<1>0. TypeInv /\ seq \in Nat /\ nextVersion \in Nat
  BY InvTypes DEF IInv, TypeInv, TypeOK
<1>1. /\ UNCHANGED <<files, registry, job>> /\ r \in memtable'
      /\ \A d \in Clients :
            flush'[d].pc # "idle" => flush'[d].pc = "write" /\ flush'[d].seq = seq + 1
  <2>1. \A d \in Clients :
           flush'[d] = flush[d] \/ (flush'[d].pc = "write" /\ flush'[d].seq = seq + 1)
    BY <1>0, InvTypes DEF Write, BeginFlush, FlushState
  <2> QED BY <2>1 DEF Write, Upsert, Flushing
<1>2. \A s \in DOMAIN files : r \notin files[s]
  BY <1>0 DEF VersionInv, InOrder
<1>3. \A s \in DOMAIN registry : s \in DOMAIN files /\ s < seq + 1
  <2>1. \A s \in DOMAIN registry : s \in DOMAIN files /\ s \in Nat /\ s <= seq
    BY <1>0, InvTypes DEF IInv, RegisteredTablesAreDurable, KnownInv
  <2> QED BY <1>0, <2>1
<1>4. \A t \in Compactors : Merging(t) => job[t].out \in DOMAIN files
  BY DEF IInv, UnpublishedInv
<1>5. \A s \in DOMAIN registry' : Below(s, r)'
  BY <1>1, <1>2, <1>3, <1>4 DEF Below, Flushing, Merging
<1> QED BY <1>1, <1>2, <1>3, <1>5 DEF Kept

\* Every step keeps the last record of a key where a read can reach it.
LEMMA StepKept ==
  ASSUME ForeignRecords = {}, IInv, WindowInv, VersionInv, LevelInv, PureInv, KeptInv,
         [Next]_vars, crashes' = 0
  PROVE  KeptInv'
<1> SUFFICES ASSUME NEW k \in Keys, k \notin atRisk', NEW r \in latest'[k], ~r.tombstone
             PROVE  Kept(r)'
  BY DEF KeptInv
<1>0. TypeInv /\ \A tear \in BOOLEAN : ~CrashRestart(tear)
  BY FirstRunKinds DEF IInv
<1>1. ASSUME k \notin atRisk, latest'[k] = latest[k],
             Lookup(memtable', k) = Lookup(memtable, k) \/ \E c \in Clients : FlushClear(c)
      PROVE  Kept(r)'
  <2>1. r \in Record /\ r.key = k /\ latest[k] = {r}
    BY <1>1 DEF WindowInv, LatestInv
  <2>2. r \in memtable => r \in memtable' \/ \E c \in Clients : FlushClear(c)
    BY <1>1, <2>1 DEF Lookup
  <2>3. Kept(r)
    BY <1>1 DEF KeptInv
  <2> QED BY <1>0, <1>1, <2>1, <2>2, <2>3, KeptStays
<1>2. CASE QuietStep
  BY <1>1, <1>2, QuietFrame
<1>3. ASSUME NEW c \in Clients, FlushClear(c) PROVE Kept(r)'
  BY <1>1, <1>3 DEF FlushClear, history
<1>4. ASSUME NEW c \in Clients, NEW w \in Record, NEW ts \in Nat, Write(c, w, ts),
             w.version = nextVersion
      PROVE  Kept(r)'
  <2>1. CASE latest'[k] = {w} /\ \A d \in Clients : ~Flushing(d)
    <3>1. r = w
      BY <2>1
    <3> QED BY <1>4, <2>1, <3>1, FreshKept
  <2>2. CASE /\ k \notin atRisk /\ latest'[k] = latest[k]
             /\ Lookup(memtable', k) = Lookup(memtable, k)
    BY <1>1, <2>2
  <2> QED BY <1>0, <1>4, <2>1, <2>2, WriteKey
<1> QED BY <1>0, <1>2, <1>3, <1>4, FirstRunKinds

\* A key whose record is kept reads some value: the MemTable has nothing else
\* of it, and the newest table that has the key is not below r's.
LEMMA KeptIsRead ==
  ASSUME IInv, WindowInv, NEW k \in Keys \ atRisk, NEW r \in latest[k], ~r.tombstone, Kept(r)
  PROVE  Live(Visible(k)) # {}
<1>0. /\ r.key = k /\ \A x \in latest[k] : x = r
      /\ seq \in Nat /\ DOMAIN registry \subseteq Nat /\ \A s \in DOMAIN registry : s <= seq
  BY InvTypes DEF IInv, KnownInv, WindowInv, LatestInv
<1>1. CASE Lookup(memtable, k) # {}
  <2>1. Visible(k) = Lookup(memtable, k)
    BY <1>1, VisibleIsReadIn DEF ReadIn
  <2>2. PICK x \in Lookup(memtable, k) : TRUE
    BY <1>1
  <2>3. Content(x) = Content(r)
    BY <1>0, <2>2 DEF WindowInv, MemoryInv, Contents
  <2>4. ~x.tombstone
    BY <2>3, RestampKey
  <2> QED BY <2>1, <2>2, <2>4 DEF Live
<1>2. CASE Lookup(memtable, k) = {}
  <2>1. PICK own \in DOMAIN registry : r \in files[own]
    BY <1>0, <1>2 DEF Kept, Held, Lookup
  <2>2. r \in Lookup(files[own], k)
    BY <1>0, <2>1 DEF Lookup
  <2>3. PICK s \in DOMAIN registry :
              /\ Lookup(files[s], k) # {} /\ Visible(k) = Lookup(files[s], k)
              /\ \A x \in DOMAIN registry : Lookup(files[x], k) # {} => x <= s
    <3>1. Visible(k) = ReadIn(files, memtable, DOMAIN registry, k)
      BY VisibleIsReadIn
    <3> DEFINE found == ReadIn(files, memtable, DOMAIN registry, k)
    <3> HIDE DEF found
    <3>2. \E s \in DOMAIN registry :
             /\ Lookup(files[s], k) # {}
             /\ \A x \in DOMAIN registry : Lookup(files[x], k) # {} => x <= s
             /\ found = Lookup(files[s], k)
      <4>1. \/ Lookup(memtable, k) # {} /\ found = Lookup(memtable, k)
            \/ /\ Lookup(memtable, k) = {}
               /\ \A s \in DOMAIN registry : Lookup(files[s], k) = {}
               /\ found = {}
            \/ /\ Lookup(memtable, k) = {}
               /\ \E s \in DOMAIN registry :
                     /\ Lookup(files[s], k) # {}
                     /\ \A x \in DOMAIN registry : Lookup(files[x], k) # {} => x <= s
                     /\ found = Lookup(files[s], k)
        BY ONLY <1>0, ReadCases DEF found
      <4> QED BY <1>2, <2>2, <4>1
    <3> QED BY <3>1, <3>2 DEF found
  <2>4. own <= s /\ own \in Nat /\ s \in Nat
    BY <1>0, <2>2, <2>3
  <2>5. ~Buried(s, k)
    BY <1>0, <2>1, <2>3, <2>4 DEF Kept, Below
  <2> QED BY <2>3, <2>5 DEF Buried, Live, Lookup
<1> QED BY <1>1, <1>2

\* Until its first restart a node that is handed no records of other nodes
\* reads a value for every key whose last write was a set outside the windows,
\* however flushes and compactions overlap, fail and overtake one another.
THEOREM LiveStaysVisible ==
  ASSUME ForeignRecords = {} PROVE Spec => []LiveNeverVanishes
<1>1. Init => LiveInv
  <2> SUFFICES ASSUME Init PROVE LiveInv
    OBVIOUS
  <2>1. /\ memtable = {} /\ DOMAIN files = {} /\ DOMAIN registry = {}
        /\ \A k \in Keys : latest[k] = {}
        /\ \A c \in Clients : flush[c].pc = "idle"
        /\ \A t \in Compactors : job[t].pc = "scan"
    BY DEF Init, NoFlush, NoJob
  <2> QED BY <2>1 DEF LiveInv, VersionInv, LevelInv, PureInv, KeptInv, Flushing, Merging
<1>2. IInv /\ WindowInv /\ LiveInv /\ [Next]_vars => LiveInv'
  <2> SUFFICES ASSUME IInv, WindowInv, LiveInv, [Next]_vars, crashes' = 0
               PROVE  VersionInv' /\ LevelInv' /\ PureInv' /\ KeptInv'
    BY DEF LiveInv
  <2>1. /\ VersionInv /\ LevelInv /\ PureInv /\ KeptInv
        /\ \A tear \in BOOLEAN : ~CrashRestart(tear)
    BY FirstRunKinds DEF IInv, LiveInv
  <2> QED BY <2>1, StepVersion, StepLevel, StepPure, StepKept
<1>3. IInv /\ WindowInv /\ LiveInv => LiveNeverVanishes
  BY KeptIsRead DEF LiveInv, KeptInv, LiveNeverVanishes, Live
<1> QED BY <1>1, <1>2, <1>3, Invariance, WindowInvariance, PTL DEF Spec

=============================================================================
