---------------------------- MODULE StorageEngine ----------------------------
(***************************************************************************)
(* One node's storage engine (storage/engine.py with wal.py, memtable.py,  *)
(* version.py, manifest.py and compaction.py): write-ahead log, MemTable,  *)
(* SSTable files, MANIFEST and the in-memory registry of live SSTables.    *)
(*                                                                         *)
(* The server runs its handlers on one asyncio event loop, so a handler is *)
(* atomic up to its next await.  In the write path the one await that      *)
(* leaves the loop is the SSTable write of a flush (asyncio.to_thread).    *)
(* Compaction runs wholly in a thread, beside the loop: each of its calls  *)
(* on shared state is a step of its own.                                   *)
(***************************************************************************)
EXTENDS Records, FiniteSets

CONSTANTS
    Clients,        \* request handlers that may be in progress together
    Compactors,     \* compaction threads: the periodic loop and COMPACT commands
    Background,     \* the one of them, if any, that is the periodic loop
    L0Trigger,      \* l0_compaction_trigger
    MemLimit,       \* memtable_size_bytes, counted in records
    ForeignRecords, \* records of other nodes that repair_set may be handed
    TornTails,      \* whether a crash may tear the last log entry
    MaxWrites,      \* bound: writes over the whole behaviour
    MaxSequence,    \* bound: sequence number up to which FLUSH and COMPACT are accepted
    MaxFailures,    \* bound: flushes that fail
    MaxCrashes      \* bound: crashes

ASSUME ConstantsAssumption ==
    /\ L0Trigger \in Nat \ {0} /\ MemLimit \in Nat \ {0}
    /\ ForeignRecords \subseteq Record
    /\ TornTails \in BOOLEAN
    /\ MaxWrites \in Nat /\ MaxSequence \in Nat
    /\ MaxFailures \in Nat /\ MaxCrashes \in Nat

VARIABLES
    wal,          \* the entries of wal.log that a replay reaches, in order
    torn,         \* a torn entry sits at the end of wal, before later appends
    files,        \* sequence number -> table of the sst_*.dat files on disk
    manifest,     \* sequence number -> level, as listed in MANIFEST.json
    memtable,     \* StorageEngine._memtable
    registry,     \* sequence number -> level of the live SSTables
    seq,          \* SSTableRegistry._seq
    nextVersion,  \* VersionManager._next
    flushing,     \* StorageEngine._flushing
    flush,        \* the flush that each client's handler is in
    job,          \* the compaction that each thread is in
    clock,        \* writes so far: each reads time.time() twice
    failures, crashes,  \* how often each has happened
    latest,       \* the last record applied at each key (none or one)
    atRisk        \* keys whose last write fell into a flush or behind a torn tail

disk == <<wal, torn, files, manifest>>
memory == <<memtable, registry, seq, nextVersion, flushing>>
budget == <<failures, crashes>>
history == <<latest, atRisk>>
vars == <<disk, memory, flush, job, clock, budget, history>>

Levels == 0..3

\* A flush from its await to its end, and a compaction call by call.
FlushState ==
    [pc: {"idle", "write", "written", "publish"}, seq: Nat, recs: SUBSET Record]
JobState ==
    [pc: {"scan", "merge", "manifest", "publish", "remove", "delete"},
     level: 0..2, inputs: SUBSET Nat, out: Nat]

NoFlush == [pc |-> "idle", seq |-> 0, recs |-> {}]
NoJob == [pc |-> "scan", level |-> 0, inputs |-> {}, out |-> 0]

TypeOK ==
    /\ wal \in Seq(Record)
    /\ torn \in BOOLEAN
    /\ DOMAIN files \subseteq Nat /\ \A s \in DOMAIN files : files[s] \subseteq Record
    /\ DOMAIN manifest \subseteq Nat /\ \A s \in DOMAIN manifest : manifest[s] \in Levels
    /\ memtable \subseteq Record
    /\ DOMAIN registry \subseteq Nat /\ \A s \in DOMAIN registry : registry[s] \in Levels
    /\ seq \in Nat /\ nextVersion \in Nat /\ flushing \in BOOLEAN
    /\ flush \in [Clients -> FlushState]
    /\ job \in [Compactors -> JobState]
    /\ clock \in Nat /\ failures \in Nat /\ crashes \in Nat
    /\ latest \in [Keys -> SUBSET Record]
    /\ atRisk \subseteq Keys

Init ==
    /\ wal = <<>> /\ torn = FALSE
    /\ files = <<>> /\ manifest = <<>> /\ registry = <<>>
    /\ memtable = {} /\ seq = 0 /\ nextVersion = 1 /\ flushing = FALSE
    /\ flush = [c \in Clients |-> NoFlush]
    /\ job = [t \in Compactors |-> NoJob]
    /\ clock = 0 /\ failures = 0 /\ crashes = 0
    /\ latest = [k \in Keys |-> {}] /\ atRisk = {}

----------------------------------------------------------------------------
(* Tables of sequence numbers *)

With(f, s, v) == [x \in DOMAIN f \cup {s} |-> IF x = s THEN v ELSE f[x]]
Without(f, S) == [x \in DOMAIN f \ S |-> f[x]]

----------------------------------------------------------------------------
(* Each definition named Faulty... is the definition after it with a mistake  *)
(* that a change of the code could bring in.  None is part of the             *)
(* specification: they show that the properties can tell.                     *)

\* load_from_manifest takes an entry's word for it that the file exists.
FaultyLoadable == DOMAIN manifest

\* The SSTables that open() registers: listed files that can be loaded.
Loadable == DOMAIN manifest \cap DOMAIN files

----------------------------------------------------------------------------
(* Reads *)

\* The tables sorted the wrong way round.
FaultyReadFrom(mem, tables, k) ==
    LET holders == {s \in tables : Lookup(files[s], k) # {}}
        oldest == {s \in holders : \A x \in holders : s <= x}
    IN IF Lookup(mem, k) # {}
       THEN Lookup(mem, k)
       ELSE UNION {Lookup(files[s], k) : s \in oldest}

\* What get_record returns from a MemTable and a set of SSTables: the
\* MemTable's record, else the one in the table of highest sequence number.
ReadFrom(mem, tables, k) ==
    LET holders == {s \in tables : Lookup(files[s], k) # {}}
        newest == {s \in holders : \A x \in holders : x <= s}
    IN IF Lookup(mem, k) # {}
       THEN Lookup(mem, k)
       ELSE UNION {Lookup(files[s], k) : s \in newest}

Visible(k) == ReadFrom(memtable, DOMAIN registry, k)

\* What the same read would return after a crash and a restart.
Recoverable(k) == ReadFrom(Replay(wal), Loadable, k)

----------------------------------------------------------------------------
(* The write path: set, delete and repair_set of StorageEngine *)

Full(mem) == Cardinality(mem) >= MemLimit

\* Publishing and clearing run on the loop without an await between them.
LoopBusy == \E c \in Clients : flush[c].pc = "publish"
FlushInFlight == \E c \in Clients : flush[c].pc # "idle"

Ready(c) == flush[c].pc = "idle" /\ ~LoopBusy

\* The sequence number read, but not taken.
FaultyBeginFlush(c, mem) ==
    /\ UNCHANGED seq
    /\ IF mem = {}
       THEN /\ flushing' = FALSE
            /\ UNCHANGED flush
       ELSE /\ flushing' = TRUE
            /\ flush' = [flush EXCEPT ![c] = [pc |-> "write", seq |-> seq + 1, recs |-> mem]]

\* _flush_memtable up to its await: take a sequence number and the records.
BeginFlush(c, mem) ==
    /\ seq' = seq + 1
    /\ IF mem = {}
       THEN /\ flushing' = FALSE
            /\ UNCHANGED flush
       ELSE /\ flushing' = TRUE
            /\ flush' = [flush EXCEPT ![c] = [pc |-> "write", seq |-> seq + 1, recs |-> mem]]

\* Log the record under the timestamp ts, apply it, and flush if the MemTable
\* is full and no flush is running.
Write(c, r, ts) ==
    /\ Ready(c)
    /\ clock < MaxWrites
    /\ clock' = clock + 1
    /\ wal' = IF torn THEN wal ELSE Append(wal, [r EXCEPT !.timestamp = ts])
    /\ memtable' = Upsert(memtable, r)
    /\ IF Full(Upsert(memtable, r)) /\ ~flushing
       THEN BeginFlush(c, Upsert(memtable, r))
       ELSE UNCHANGED <<seq, flushing, flush>>
    /\ latest' = [latest EXCEPT ![r.key] = {r}]
    /\ atRisk' = IF FlushInFlight \/ torn THEN atRisk \cup {r.key} ELSE atRisk \ {r.key}
    /\ UNCHANGED <<torn, files, manifest, registry, job, budget>>

\* _create_record reads the time for the record, and WriteAheadLog.append reads
\* it again for the entry, which is what a replay restores.
RecordTime == 2 * clock + 1
EntryTime == 2 * clock + 2

NewRecord(k, val, deleted) ==
    [key |-> k, value |-> val, version |-> nextVersion, timestamp |-> RecordTime,
     tombstone |-> deleted]

\* Every set brings a value of its own; a tombstone's is empty.
Set(c, k) ==
    /\ Write(c, NewRecord(k, clock + 1, FALSE), EntryTime)
    /\ nextVersion' = nextVersion + 1

Delete(c, k) ==
    /\ Write(c, NewRecord(k, 0, TRUE), EntryTime)
    /\ nextVersion' = nextVersion + 1

\* repair_set keeps the version and the timestamp it is given, in the log too,
\* and observes neither.
RepairSet(c, r) ==
    /\ Write(c, r, r.timestamp)
    /\ UNCHANGED nextVersion

----------------------------------------------------------------------------
(* Flush *)

\* FLUSH, snapshot_create and close flush without looking at _flushing.
FlushCommand(c) ==
    /\ Ready(c)
    /\ seq < MaxSequence
    /\ BeginFlush(c, memtable)
    /\ UNCHANGED <<disk, memtable, registry, nextVersion, job, clock, budget, history>>

\* SSTableWriter.write, in its thread: the rename makes the file appear.
FlushWrite(c) ==
    /\ flush[c].pc = "write"
    /\ files' = With(files, flush[c].seq, flush[c].recs)
    /\ flush' = [flush EXCEPT ![c].pc = "written"]
    /\ UNCHANGED <<wal, torn, manifest, memory, job, clock, budget, history>>

\* The MANIFEST forgotten.
FaultyFlushPublish(c) ==
    /\ flush[c].pc = "written"
    /\ ~LoopBusy
    /\ registry' = With(registry, flush[c].seq, 0)
    /\ flush' = [flush EXCEPT ![c].pc = "publish"]
    /\ UNCHANGED <<disk, memtable, seq, nextVersion, flushing>>
    /\ UNCHANGED <<job, clock, budget, history>>

\* Back on the loop: list the file in the MANIFEST and register the SSTable.
FlushPublish(c) ==
    /\ flush[c].pc = "written"
    /\ ~LoopBusy
    /\ manifest' = With(manifest, flush[c].seq, 0)
    /\ registry' = With(registry, flush[c].seq, 0)
    /\ flush' = [flush EXCEPT ![c].pc = "publish"]
    /\ UNCHANGED <<wal, torn, files, memtable, seq, nextVersion, flushing>>
    /\ UNCHANGED <<job, clock, budget, history>>

\* The log not truncated.
FaultyFlushClear(c) ==
    /\ flush[c].pc = "publish"
    /\ memtable' = {}
    /\ flushing' = FALSE
    /\ flush' = [flush EXCEPT ![c] = NoFlush]
    /\ UNCHANGED <<disk, registry, seq, nextVersion, job, clock, budget, history>>

\* Then clear the MemTable and truncate the log; the handler answers.
FlushClear(c) ==
    /\ flush[c].pc = "publish"
    /\ memtable' = {}
    /\ wal' = <<>> /\ torn' = FALSE
    /\ flushing' = FALSE
    /\ flush' = [flush EXCEPT ![c] = NoFlush]
    /\ UNCHANGED <<files, manifest, registry, seq, nextVersion>>
    /\ UNCHANGED <<job, clock, budget, history>>

\* No finally: the guard stays set.
FaultyFlushFail(c) ==
    /\ flush[c].pc \in {"write", "written"}
    /\ ~LoopBusy
    /\ failures < MaxFailures
    /\ failures' = failures + 1
    /\ flush' = [flush EXCEPT ![c] = NoFlush]
    /\ UNCHANGED <<disk, memory, job, clock, crashes, history>>

\* The write raises, or the handler is cancelled; a written file stays behind.
FlushFail(c) ==
    /\ flush[c].pc \in {"write", "written"}
    /\ ~LoopBusy
    /\ failures < MaxFailures
    /\ failures' = failures + 1
    /\ flushing' = FALSE
    /\ flush' = [flush EXCEPT ![c] = NoFlush]
    /\ UNCHANGED <<disk, memtable, registry, seq, nextVersion, job, clock, crashes, history>>

----------------------------------------------------------------------------
(* Compaction: CompactionEngine._run_if_needed, and the COMPACT command *)

Tables(level) == {s \in DOMAIN registry : registry[s] = level}

\* COMPACT goes one level too far.
FaultyLastLevel(t) == IF t = Background THEN 1 ELSE 3

\* The periodic loop looks at levels 0 and 1 and COMPACT at 0, 1 and 2.
LastLevel(t) == IF t = Background THEN 1 ELSE 2

\* More than the trigger, instead of at least.
FaultyThreshold(t, level) ==
    IF t # Background THEN 1 ELSE IF level = 0 THEN L0Trigger + 1 ELSE 2 * L0Trigger

\* How many tables a level must hold for the thread to compact it.
Threshold(t, level) ==
    IF t # Background THEN 1 ELSE IF level = 0 THEN L0Trigger ELSE 2 * L0Trigger

NextLevel(t) ==
    IF job[t].level = LastLevel(t)
    THEN NoJob
    ELSE [NoJob EXCEPT !.level = job[t].level + 1]

\* get_level: the tables to merge are those the level holds now.  Between two
\* runs a thread is about to look at level 0, when its timer or a client says.
TakeLevel(t) ==
    /\ job[t].pc = "scan"
    /\ t # Background /\ job[t].level = 0 => seq < MaxSequence
    /\ LET inputs == Tables(job[t].level)
       IN job' = [job EXCEPT ![t] =
                     IF Cardinality(inputs) >= Threshold(t, job[t].level)
                     THEN [job[t] EXCEPT !.pc = "merge", !.inputs = inputs]
                     ELSE NextLevel(t)]
    /\ UNCHANGED <<disk, memory, flush, clock, budget, history>>

\* next_sequence and the write of the merged file; out = 0 if it would be empty.
Merge(t) ==
    /\ job[t].pc = "merge"
    /\ job[t].inputs \subseteq DOMAIN files
    /\ seq' = seq + 1
    /\ LET merged == Merged(files, job[t].inputs)
       IN IF merged = {}
          THEN /\ job' = [job EXCEPT ![t].pc = "remove"]
               /\ UNCHANGED files
          ELSE /\ job' = [job EXCEPT ![t].pc = "manifest", ![t].out = seq + 1]
               /\ files' = With(files, seq + 1, merged)
    /\ UNCHANGED <<wal, torn, manifest, memtable, registry, nextVersion, flushing>>
    /\ UNCHANGED <<flush, clock, budget, history>>

\* An input is gone, deleted by another compaction: the exception ends the
\* run, before or after the sequence number was taken.
MergeFail(t) ==
    /\ job[t].pc = "merge"
    /\ ~(job[t].inputs \subseteq DOMAIN files)
    /\ seq' \in {seq, seq + 1}
    /\ job' = [job EXCEPT ![t] = NoJob]
    /\ UNCHANGED <<disk, memtable, registry, nextVersion, flushing>>
    /\ UNCHANGED <<flush, clock, budget, history>>

\* Only a compaction with an output changes the MANIFEST.
CompactManifest(t) ==
    /\ job[t].pc = "manifest"
    /\ manifest' = Without(With(manifest, job[t].out, job[t].level + 1), job[t].inputs)
    /\ job' = [job EXCEPT ![t].pc = "publish"]
    /\ UNCHANGED <<wal, torn, files, memory, flush, clock, budget, history>>

CompactPublish(t) ==
    /\ job[t].pc = "publish"
    /\ registry' = With(registry, job[t].out, job[t].level + 1)
    /\ job' = [job EXCEPT ![t].pc = "remove"]
    /\ UNCHANGED <<disk, memtable, seq, nextVersion, flushing>>
    /\ UNCHANGED <<flush, clock, budget, history>>

\* The level is emptied, with the tables it gained during the merge.
FaultyCompactRemove(t) ==
    /\ job[t].pc = "remove"
    /\ registry' = Without(registry, Tables(job[t].level))
    /\ job' = [job EXCEPT ![t].pc = "delete"]
    /\ UNCHANGED <<disk, memtable, seq, nextVersion, flushing>>
    /\ UNCHANGED <<flush, clock, budget, history>>

\* The loop of registry.remove; a table another thread removed is skipped.
CompactRemove(t) ==
    /\ job[t].pc = "remove"
    /\ registry' = Without(registry, job[t].inputs)
    /\ job' = [job EXCEPT ![t].pc = "delete"]
    /\ UNCHANGED <<disk, memtable, seq, nextVersion, flushing>>
    /\ UNCHANGED <<flush, clock, budget, history>>

CompactDelete(t) ==
    /\ job[t].pc = "delete"
    /\ files' = Without(files, job[t].inputs)
    /\ job' = [job EXCEPT ![t] = NextLevel(t)]
    /\ UNCHANGED <<wal, torn, manifest, memory, flush, clock, budget, history>>

----------------------------------------------------------------------------
(* Crash and restart *)

\* A kill at any moment and the open() of the next start: the registry holds
\* the listed files that exist, its counter restarts from the highest of
\* them, and versions restart from those the replayed log holds.  With tear,
\* the kill cuts the log entry that a handler is appending.
CrashRestart(tear) ==
    /\ crashes < MaxCrashes
    /\ crashes' = crashes + 1
    /\ tear => TornTails /\ ~LoopBusy /\ clock < MaxWrites
    /\ torn' = (torn \/ tear)
    /\ registry' = [s \in Loadable |-> manifest[s]]
    /\ \E m \in {0} \cup DOMAIN registry' :
          /\ \A s \in DOMAIN registry' : s <= m
          /\ seq' = m
    /\ memtable' = Replay(wal)
    /\ \E v \in {0} \cup {wal[i].version : i \in DOMAIN wal} :
          /\ \A i \in DOMAIN wal : wal[i].version <= v
          /\ nextVersion' = v + 1
    /\ flushing' = FALSE
    /\ flush' = [c \in Clients |-> NoFlush]
    /\ job' = [t \in Compactors |-> NoJob]
    /\ UNCHANGED <<wal, files, manifest, clock, failures, history>>

----------------------------------------------------------------------------

ClientStep(c) ==
    \/ \E k \in Keys : Set(c, k) \/ Delete(c, k)
    \/ \E r \in ForeignRecords : RepairSet(c, r)
    \/ FlushCommand(c)

FlushStep(c) == FlushWrite(c) \/ FlushPublish(c) \/ FlushClear(c)

CompactStep(t) ==
    \/ TakeLevel(t) \/ Merge(t) \/ MergeFail(t)
    \/ CompactManifest(t) \/ CompactPublish(t) \/ CompactRemove(t) \/ CompactDelete(t)

Next ==
    \/ \E c \in Clients : ClientStep(c) \/ FlushStep(c) \/ FlushFail(c)
    \/ \E t \in Compactors : CompactStep(t)
    \/ \E tear \in BOOLEAN : CrashRestart(tear)

Spec == Init /\ [][Next]_vars

----------------------------------------------------------------------------
(* Safety *)

\* The MemTable is what a replay of the log would rebuild, at every moment,
\* so long as no torn entry hides the end of the log: no path through writes,
\* overlapping or failing flushes and restarts lets the two drift apart.  Only
\* timestamps differ, and the replayed one is never the earlier: wal.py:77 reads
\* the time again, and a replay brings that reading back (record.py:166).
MemtableIsWalReplay == torn \/ Restamped(memtable, Replay(wal))

\* Every live SSTable can be read and survives a restart: its file exists, and
\* the MANIFEST lists it at its level unless a compaction that merged it has
\* already replaced its entry.  (order of manifest, registry and delete_file
\* calls in _flush_memtable and _compact_level)
RegisteredTablesAreDurable ==
    \A s \in DOMAIN registry :
        /\ s \in DOMAIN files
        /\ \/ s \in DOMAIN manifest /\ manifest[s] = registry[s]
           \/ \E t \in Compactors :
                 job[t].pc \in {"publish", "remove"} /\ s \in job[t].inputs

\* On a node that does not compact, a crash at any moment of any write or
\* flush, followed by open(), changes no value, version or tombstone that a key
\* reads, and sets no timestamp back, unless the log's tail is torn.
\* (order of MANIFEST save, registration, clear and truncate in
\* _flush_memtable; with compaction it fails, see README)
RestartChangesNoRead ==
    torn \/ \A k \in Keys : Restamped(Visible(k), Recoverable(k))

\* Before the first restart, a key whose last write was a set reads some value:
\* flushes and compactions, however they overlap, may serve an older value but
\* never lose the key or turn it into a deleted one.
LiveNeverVanishes ==
    \A k \in Keys \ atRisk :
        crashes = 0 /\ Live(latest[k]) # {} => Live(Visible(k)) # {}

\* A table that is being written has its sequence number to itself: no other
\* unpublished table and no live or merging one has it, whatever flushes and
\* compactions overlap and whatever counter the last restart left.
SequenceNumbersAreFresh ==
    LET flushes == {c \in Clients : flush[c].pc \in {"write", "written"}}
        merges == {t \in Compactors : job[t].pc \in {"manifest", "publish"}}
        Fresh(s) == /\ s <= seq /\ s \notin DOMAIN registry
                    /\ \A t \in Compactors : s \notin job[t].inputs
    IN /\ \A c \in flushes : Fresh(flush[c].seq)
       /\ \A t \in merges : Fresh(job[t].out)
       /\ \A c, d \in flushes : flush[c].seq = flush[d].seq => c = d
       /\ \A t, u \in merges : job[t].out = job[u].out => t = u
       /\ \A c \in flushes, t \in merges : flush[c].seq # job[t].out

----------------------------------------------------------------------------
(* Liveness.  The loop and the threads run on; clients, failures and crashes *)
(* are owed to nobody.                                                       *)

FairSpec ==
    /\ Spec
    /\ \A c \in Clients : WF_vars(FlushStep(c))
    /\ \A t \in Compactors : WF_vars(CompactStep(t))

\* The guard against concurrent flushes is never left set: whatever becomes of
\* a flush, later full MemTables can be flushed again.
FlushGuardIsReleased == flushing ~> ~flushing

\* The periodic loop brings level 0 back below its trigger.
LevelZeroIsCompacted ==
    Cardinality(Tables(0)) >= L0Trigger ~> Cardinality(Tables(0)) < L0Trigger

----------------------------------------------------------------------------
(* What the documentation says of the engine, and the runs refute *)

\* "No acknowledged write is lost." (docs/design_decisions.md): when every
\* handler has answered, a key reads the last record written at it.
NoAcknowledgedWriteIsLost ==
    FlushInFlight \/ \A k \in Keys : Contents(Visible(k)) = Contents(latest[k])

\* "Return the newest Record for a key." (get_record): a key outside every
\* window whose last write was a set reads the value and version of that set.
GetReturnsNewest ==
    \A k \in Keys \ atRisk :
        Live(latest[k]) # {} => Contents(Visible(k)) = Contents(latest[k])

\* Tombstones are kept "so older SSTables don't ghost-resurrect deleted keys"
\* (compaction.py): a merge that drops the tombstone of a key leaves no older
\* table behind that still holds a value for the key.
NoGhostResurrection ==
    [][\A t \in Compactors :
          job[t].pc = "merge" /\ job'[t].pc \in {"manifest", "remove"} =>
          \A e \in Winners(Entries(files, job[t].inputs)) :
              e.rec.tombstone =>
              \A s \in DOMAIN registry \ job[t].inputs :
                  s < e.seq => Live(Lookup(files[s], e.rec.key)) = {}]_vars

\* "The storage engine always keeps the record with the highest sequence number
\* during reads and compaction." (docs/design_decisions.md): of the tables that
\* a compaction merges, its output has each key as the newest of them has it.
MergeKeepsHighestSequence ==
    [][\A t \in Compactors, k \in Keys :
          job[t].pc = "merge" /\ job'[t].pc = "manifest"
          => Contents(Lookup(files'[job'[t].out], k))
                = Contents(Live(ReadFrom({}, job[t].inputs, k)))]_vars

=============================================================================
