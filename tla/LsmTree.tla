------------------------------ MODULE LsmTree ------------------------------
(***************************************************************************)
(* LSMTreeEngine (storage/include/lsm_tree_engine.h) built with a          *)
(* write-ahead log and a manifest: the memtable, the immutable memtables,  *)
(* the SSTables with their Bloom filters and block indexes, flush,         *)
(* compaction, the background worker, and recovery after a crash.          *)
(*                                                                         *)
(* m_mtx is held exclusively by every call that changes the tree.  Such a  *)
(* call is broken into the steps between which the process can die: todo   *)
(* is the list of steps the holder of the lock still has to do, and the    *)
(* lock is free when todo is empty.  A Put writes a new number, so a value *)
(* says which write it is from.  No call in the repository catches what    *)
(* the engine throws: an I/O error ends the process as a crash does.       *)
(***************************************************************************)
EXTENDS Integers, Sequences, FiniteSets, FiniteSetsExt, SequencesExt

CONSTANTS
    Key,                \* the keys, ordered as numbers
    Hash,               \* the Bloom bits of each key
    FlushThreshold,     \* m_memTableFlushThreshold
    BlockEntryCount,    \* kBlockEntryCount
    Reader,             \* the threads that call Get
    None, Tombstone, Torn,
    MaxWrites,          \* bound on Put and Delete calls
    MaxCalls,           \* bound on the calls other than Get, Put and Delete
    MaxRestarts         \* bound on crashes and clean ends of the process

ASSUME LsmAssumption ==
    /\ Key \subseteq Nat /\ \A k \in Key : Hash[k] # {}
    /\ FlushThreshold \in Nat \ {0} /\ BlockEntryCount \in Nat \ {0}
    /\ MaxWrites \in Nat /\ MaxCalls \in Nat /\ MaxRestarts \in Nat

VARIABLES
    mem, imm, sst, nextSeq, async,    \* the tables in memory (imm, sst: oldest first)
    todo, table, old, replayed,       \* the exclusive call in progress: its remaining steps,
                                      \* what it writes, the content a Restore replaces, the
                                      \* number of log records the constructor has read
    worker, pending, stop,            \* the background worker
    wal, torn, manifest, files,       \* the disk; torn: the log ends inside a record
    up,                               \* "open", "down", or "broken": the constructor threw
    answer, snapshot,                 \* what Get has returned, what Snapshot has returned
    writes, calls, restarts            \* counters for the bounds

memory == <<mem, imm, sst, nextSeq, async>>
call == <<todo, table, old, replayed>>
thread == <<worker, pending, stop>>
disk == <<wal, torn, manifest, files>>
client == <<answer, snapshot>>
count == <<writes, calls, restarts>>
vars == <<memory, call, thread, disk, up, client, count>>

-----------------------------------------------------------------------------
(* Tables of entries: functions from keys to a value or a tombstone.       *)

Empty == [k \in {} |-> None]
With(entries, k, v) == [x \in DOMAIN entries \cup {k} |-> IF x = k THEN v ELSE entries[x]]
On(entries, keys) == [k \in keys \cap DOMAIN entries |-> entries[k]]

\* The entries of several tables, listed oldest first: the newest one of a key counts.
Newest(tables) ==
    [k \in UNION {DOMAIN tables[i] : i \in DOMAIN tables} |->
        tables[Max({i \in DOMAIN tables : k \in DOMAIN tables[i]})][k]]
Live(entries) == On(entries, {k \in DOMAIN entries : entries[k] # Tombstone})

\* What a log says the engine contains.
Logged(log) ==
    LET last == {i \in DOMAIN log : /\ log[i].value # Tombstone
                                    /\ \A j \in i + 1 .. Len(log) : log[j].key # log[i].key}
    IN  [k \in {log[i].key : i \in last} |-> log[CHOOSE i \in last : log[i].key = k].value]

\* The keys of a table in ascending order.
SortedKeys(entries) ==
    CHOOSE keys \in [1 .. Cardinality(DOMAIN entries) -> DOMAIN entries] :
        \A i, j \in DOMAIN keys : i < j => keys[i] < keys[j]

\* std::hash decides which bits a key sets; Hash stands for it.
BloomBits(keys) == UNION {Hash[k] : k \in keys}
BloomMayContain(t, k) == t.bloom # {} /\ Hash[k] \subseteq t.bloom

\* Blocks of BlockEntryCount neighbouring keys; the last one may be shorter.
Blocks(keys) ==
    [b \in 1 .. (Len(keys) + BlockEntryCount - 1) \div BlockEntryCount |->
        SubSeq(keys, (b - 1) * BlockEntryCount + 1, Min({b * BlockEntryCount, Len(keys)}))]
RebuildSSTableMetadata(seq, entries) ==
    LET keys == SortedKeys(entries) IN
    [seq |-> seq, entries |-> entries, bloom |-> BloomBits(DOMAIN entries),
     minKey |-> IF keys = <<>> THEN None ELSE keys[1],
     maxKey |-> IF keys = <<>> THEN None ELSE Last(keys),
     blocks |-> Blocks(keys)]

MayContain(t, k) ==
    t.entries # Empty /\ k >= t.minKey /\ k <= t.maxKey /\ BloomMayContain(t, k)

\* Only the first block whose range covers the key is looked into.
FindInIndexedBlock(t, k) ==
    LET covering == {b \in DOMAIN t.blocks : t.blocks[b][1] <= k /\ k <= Last(t.blocks[b])}
    IN  covering # {} /\ k \in Range(t.blocks[Min(covering)])

\* The entry a Get of k finds, None when it finds none.
FindEntryLocked(k) ==
    LET inImm == {i \in DOMAIN imm : k \in DOMAIN imm[i]}
        inSst == {i \in DOMAIN sst : MayContain(sst[i], k) /\ FindInIndexedBlock(sst[i], k)}
    IN  IF k \in DOMAIN mem THEN mem[k]
        ELSE IF inImm # {} THEN imm[Max(inImm)][k]
        ELSE IF inSst # {} THEN sst[Max(inSst)].entries[k]
        ELSE None

SSTableEntries == [i \in DOMAIN sst |-> sst[i].entries]
ExportVisibleDataLocked == Live(Newest(SSTableEntries \o imm \o <<mem>>))

RangeScan(startKey, endKey) ==
    On(ExportVisibleDataLocked, {k \in Key : startKey <= k /\ k <= endKey})
Size == Cardinality(DOMAIN ExportVisibleDataLocked)

\* A snapshot is a count and that many pairs of strings, in key order.
EncodeSnapshot(content) ==
    LET keys == SortedKeys(content)
    IN  <<Len(keys)>> \o [i \in 1 .. 2 * Len(keys) |->
            IF i % 2 = 1 THEN keys[(i + 1) \div 2] ELSE content[keys[i \div 2]]]
\* Restore reads the empty string as the empty tree.
DecodeSnapshot(s) ==
    IF s = <<>> THEN Empty
    ELSE [k \in {s[2 * i] : i \in 1 .. s[1]} |->
            s[2 * Max({i \in 1 .. s[1] : s[2 * i] = k}) + 1]]
-----------------------------------------------------------------------------
(* The lock, and the calls that take it.  A reader with an answer still    *)
(* has the shared lock.                                                    *)

Locked == todo # <<>>
Constructing == Locked /\ Last(todo) = "replay"
Idle == up = "open" /\ ~Locked /\ \A r \in Reader : answer[r] = None
Step(s) == up = "open" /\ Locked /\ Head(todo) = s

Init ==
    /\ mem = Empty /\ imm = <<>> /\ sst = <<>> /\ nextSeq = 0 /\ async = FALSE
    /\ todo = <<>> /\ table = None /\ old = None /\ replayed = 0
    /\ worker = "none" /\ pending = FALSE /\ stop = FALSE
    /\ wal = <<>> /\ torn = FALSE /\ manifest = None /\ files = Empty
    /\ up = "open"
    /\ answer = [r \in Reader |-> None] /\ snapshot = <<>>
    /\ writes = 0 /\ calls = 0 /\ restarts = 0

Get(r, k) ==
    /\ up = "open" /\ ~Locked /\ answer[r] = None
    /\ LET entry == FindEntryLocked(k)
       IN  answer' = [answer EXCEPT ![r] = IF entry = Tombstone THEN None ELSE entry]
    /\ UNCHANGED <<memory, call, thread, disk, up, snapshot, count>>

GetReturns(r) ==
    /\ up = "open" /\ answer[r] # None
    /\ answer' = [answer EXCEPT ![r] = None]
    /\ UNCHANGED <<memory, call, thread, disk, up, snapshot, count>>

\* The record the call in progress is about.
Record(k, v) == [key |-> k, value |-> v]

Put(k) ==
    /\ Idle /\ writes < MaxWrites
    /\ writes' = writes + 1
    /\ table' = Record(k, writes + 1)
    /\ todo' = <<"append">>
    /\ UNCHANGED <<memory, old, replayed, thread, disk, up, client, calls, restarts>>

Delete(k) ==
    /\ Idle /\ writes < MaxWrites
    /\ writes' = writes + 1
    /\ table' = Record(k, Tombstone)
    /\ todo' = <<"append">>
    /\ UNCHANGED <<memory, old, replayed, thread, disk, up, client, calls, restarts>>

Snapshot ==
    /\ Idle /\ calls < MaxCalls
    /\ calls' = calls + 1
    /\ snapshot' = EncodeSnapshot(ExportVisibleDataLocked)
    /\ UNCHANGED <<memory, call, thread, disk, up, answer, writes, restarts>>

Restore ==
    /\ Idle /\ calls < MaxCalls
    /\ calls' = calls + 1
    /\ old' = Logged(wal)
    /\ table' = DecodeSnapshot(snapshot)
    /\ todo' = <<"removeFiles", "install", "rewriteWAL", "publishNone", "writeManifest",
                 "flushIfNeeded">>
    /\ UNCHANGED <<memory, replayed, thread, disk, up, client, writes, restarts>>

Flush ==
    /\ Idle /\ calls < MaxCalls
    /\ calls' = calls + 1
    /\ todo' = <<"flush">>
    /\ UNCHANGED <<memory, table, old, replayed, thread, disk, up, client, writes, restarts>>

Compact ==
    /\ Idle /\ calls < MaxCalls
    /\ calls' = calls + 1
    /\ todo' = <<"compact">>
    /\ UNCHANGED <<memory, table, old, replayed, thread, disk, up, client, writes, restarts>>

EnableAsyncFlush(enabled) ==
    /\ Idle /\ calls < MaxCalls
    /\ calls' = calls + 1
    /\ async' = enabled
    /\ UNCHANGED <<mem, imm, sst, nextSeq, call, thread, disk, up, client, writes, restarts>>
-----------------------------------------------------------------------------
(* The steps of a call.  What a step does to the memory is seen by nobody  *)
(* while the lock is held, so it is part of the disk operation next to it. *)

Continue(steps) == todo' = steps /\ table' = IF steps = <<>> THEN None ELSE table
Done == Continue(Tail(todo))

\* An empty memtable is not rotated.
Rotated(m) == IF m = Empty THEN imm ELSE Append(imm, m)

\* With m as the memtable; the asynchronous flush only rotates it and notifies the worker.
FlushMemTableIfNeededLocked(m, rest) ==
    LET needed == Cardinality(DOMAIN m) >= FlushThreshold IN
    /\ Continue((IF needed /\ ~async THEN <<"flush">> ELSE <<>>) \o rest)
    /\ mem' = IF needed /\ async THEN Empty ELSE m
    /\ imm' = IF needed /\ async THEN Rotated(m) ELSE imm
    /\ pending' = (pending \/ (needed /\ async))

\* The rest of Put and Delete: log first, then the memtable.
AppendWALLocked ==
    /\ Step("append")
    /\ wal' = Append(wal, table)
    /\ FlushMemTableIfNeededLocked(With(mem, table.key, table.value), <<>>)
    /\ UNCHANGED <<sst, nextSeq, async, old, replayed, worker, stop, torn, manifest, files,
                   up, client, count>>

FlushIfNeeded ==
    /\ Step("flushIfNeeded")
    /\ FlushMemTableIfNeededLocked(mem, Tail(todo))
    /\ UNCHANGED <<sst, nextSeq, async, old, replayed, worker, stop, disk, up, client, count>>

NewTable(entries) ==
    /\ nextSeq' = nextSeq + 1
    /\ table' = RebuildSSTableMetadata(nextSeq + 1, entries)

FlushSteps ==
    <<"createSSTable", "writeSSTable", "publishFlushed", "writeManifest", "flush">>

\* Variant for mutation: the newest immutable memtable is flushed first.
FlushNewestFirst ==
    /\ Step("flush")
    /\ mem' = Empty
    /\ IF Rotated(mem) = <<>> THEN Done /\ UNCHANGED <<imm, nextSeq>>
       ELSE /\ imm' = Front(Rotated(mem))
            /\ NewTable(Last(Rotated(mem)))
            /\ todo' = FlushSteps \o Tail(todo)
    /\ UNCHANGED <<sst, async, old, replayed, thread, disk, up, client, count>>

\* FlushMemTableLocked: rotate, then one table for each immutable memtable, the
\* oldest first: a newer one left in memory stays in front of the tables.
FlushImmutableMemTablesLocked ==
    /\ Step("flush")
    /\ mem' = Empty
    /\ IF Rotated(mem) = <<>> THEN Done /\ UNCHANGED <<imm, nextSeq>>
       ELSE /\ imm' = Tail(Rotated(mem))
            /\ NewTable(Head(Rotated(mem)))
            /\ todo' = FlushSteps \o Tail(todo)
    /\ UNCHANGED <<sst, async, old, replayed, thread, disk, up, client, count>>

CompactedEntries == Live(Newest(SSTableEntries))

\* Variant for mutation: the old tables are removed before the merged one is stored.
CompactRemovesFirst ==
    /\ Step("compact")
    /\ IF Len(sst) <= 1 THEN Done /\ UNCHANGED nextSeq
       ELSE /\ NewTable(CompactedEntries)
            /\ todo' = <<"removeFiles", "createSSTable", "writeSSTable", "publishCompacted",
                         "writeManifest">> \o Tail(todo)
    /\ UNCHANGED <<mem, imm, sst, async, old, replayed, thread, disk, up, client, count>>

\* Compaction merges every table, so it can drop the tombstones.
CompactSSTablesLocked ==
    /\ Step("compact")
    /\ IF Len(sst) <= 1 THEN Done /\ UNCHANGED nextSeq
       ELSE IF CompactedEntries = Empty
       THEN /\ Continue(<<"removeFiles", "publishNone", "writeManifest">> \o Tail(todo))
            /\ UNCHANGED nextSeq
       ELSE /\ NewTable(CompactedEntries)
            /\ todo' = <<"createSSTable", "writeSSTable", "removeFiles", "publishCompacted",
                         "writeManifest">> \o Tail(todo)
    /\ UNCHANGED <<mem, imm, sst, async, old, replayed, thread, disk, up, client, count>>

\* PersistSSTableLocked: the file is created empty, then written and flushed.
PersistSSTableLocked ==
    /\ \/ Step("createSSTable") /\ files' = With(files, table.seq, Torn)
       \/ Step("writeSSTable") /\ files' = With(files, table.seq, table.entries)
    /\ Done
    /\ UNCHANGED <<memory, old, replayed, thread, wal, torn, manifest, up, client, count>>

\* One std::remove at a time, in the order of the tables.
DeleteSSTableFilesLocked ==
    /\ Step("removeFiles")
    /\ LET left == {i \in DOMAIN sst : sst[i].seq \in DOMAIN files}
       IN  IF left = {} THEN Done /\ UNCHANGED files
           ELSE /\ files' = On(files, DOMAIN files \ {sst[Min(left)].seq})
                /\ UNCHANGED <<todo, table>>
    /\ UNCHANGED <<memory, old, replayed, thread, wal, torn, manifest, up, client, count>>

\* The list of tables changes, and RewriteManifestLocked truncates the file.
PublishTables ==
    /\ \/ Step("publishFlushed") /\ sst' = Append(sst, table)
       \/ Step("publishCompacted") /\ sst' = <<table>>
       \/ Step("publishNone") /\ sst' = <<>>
    /\ manifest' = Torn
    /\ Done
    /\ UNCHANGED <<mem, imm, nextSeq, async, old, replayed, thread, wal, torn, files,
                   up, client, count>>

\* The rest of RewriteManifestLocked.
WriteManifest ==
    /\ Step("writeManifest") /\ Done
    /\ manifest' = [next |-> nextSeq, tables |-> [i \in DOMAIN sst |-> sst[i].seq]]
    /\ UNCHANGED <<memory, old, replayed, thread, wal, torn, files, up, client, count>>

\* Restore has read the whole snapshot before it takes the lock.  It installs the
\* content, and RewriteWALLocked truncates the log.
InstallRestored ==
    /\ Step("install") /\ Done
    /\ mem' = table /\ imm' = <<>> /\ sst' = <<>> /\ wal' = <<>>
    /\ UNCHANGED <<nextSeq, async, old, replayed, thread, torn, manifest, files, up, client, count>>

\* The rest of RewriteWALLocked: one record for each key of the visible data, in key order.
RewriteWALLocked ==
    /\ Step("rewriteWAL")
    /\ LET content == ExportVisibleDataLocked
           keys == SortedKeys(content)
       IN  IF Len(wal) < Len(keys)
           THEN /\ wal' = Append(wal, Record(keys[Len(wal) + 1], content[keys[Len(wal) + 1]]))
                /\ UNCHANGED <<todo, table, old>>
           ELSE Done /\ old' = None /\ UNCHANGED wal
    /\ UNCHANGED <<memory, replayed, thread, torn, manifest, files, up, client, count>>
-----------------------------------------------------------------------------
(* The background worker: "waiting" on its condition variable, in a        *)
(* "round" when it wants or has the lock, in the "last" round after a stop *)
(* request, and "ended" when it can be joined.                             *)

StartBackgroundWorker ==
    /\ up = "open" /\ ~Constructing
    /\ worker = "none" /\ calls < MaxCalls
    /\ calls' = calls + 1
    /\ worker' = "waiting" /\ stop' = FALSE
    /\ UNCHANGED <<memory, call, pending, disk, up, client, writes, restarts>>

\* wait_for ends at a notification and at its timeout as well.
WorkerWakes ==
    /\ up = "open" /\ worker = "waiting"
    /\ worker' = IF stop THEN "last" ELSE "round"
    /\ pending' = IF stop THEN pending ELSE FALSE
    /\ UNCHANGED <<memory, call, stop, disk, up, client, count>>

\* Variant for mutation: a round of the worker only compacts.
WorkerOnlyCompacts ==
    /\ Idle /\ worker \in {"round", "last"}
    /\ todo' = <<"compact", "endOfRound">>
    /\ UNCHANGED <<memory, table, old, replayed, thread, disk, up, client, count>>
WorkerLocks ==
    /\ Idle /\ worker \in {"round", "last"}
    /\ todo' = <<"flush", "compact", "endOfRound">>
    /\ UNCHANGED <<memory, table, old, replayed, thread, disk, up, client, count>>

\* Variant for mutation: the worker goes back to waiting after its last round.
WorkerNeverEnds ==
    /\ Step("endOfRound") /\ Done
    /\ worker' = "waiting"
    /\ UNCHANGED <<memory, old, replayed, pending, stop, disk, up, client, count>>
WorkerUnlocks ==
    /\ Step("endOfRound") /\ Done
    /\ worker' = IF worker = "round" THEN "waiting" ELSE "ended"
    /\ UNCHANGED <<memory, old, replayed, pending, stop, disk, up, client, count>>

StopBackgroundWorker ==
    /\ up = "open" /\ worker \notin {"none", "ended"} /\ ~stop
    /\ stop' = TRUE
    /\ UNCHANGED <<memory, call, worker, pending, disk, up, client, count>>

\* The thread's last round is over: join returns, the worker can be started again.
JoinWorker ==
    /\ up = "open" /\ worker = "ended"
    /\ worker' = "none"
    /\ UNCHANGED <<memory, call, pending, stop, disk, up, client, count>>
-----------------------------------------------------------------------------
(* The end of the process and recovery.                                    *)

Lost ==
    /\ up' = "down"
    /\ mem' = Empty /\ imm' = <<>> /\ sst' = <<>> /\ nextSeq' = 0 /\ async' = FALSE
    /\ todo' = <<>> /\ table' = None /\ old' = None /\ replayed' = 0
    /\ worker' = "none" /\ pending' = FALSE /\ stop' = FALSE
    /\ answer' = [r \in Reader |-> None]

\* The destructor, after it has stopped the worker.
Close ==
    /\ Idle /\ worker = "none" /\ restarts < MaxRestarts
    /\ restarts' = restarts + 1
    /\ Lost
    /\ UNCHANGED <<disk, snapshot, writes, calls>>

\* The process dies.  A record that was being written to the log may be cut.
Crash ==
    /\ up = "open" /\ restarts < MaxRestarts
    /\ restarts' = restarts + 1
    /\ Lost
    /\ torn' \in (IF Step("append") \/ (Step("rewriteWAL") /\ Len(wal) < Cardinality(DOMAIN table))
                  THEN BOOLEAN ELSE {torn})
    /\ UNCHANGED <<wal, manifest, files, snapshot, writes, calls>>

LoadSSTable(seq) == RebuildSSTableMetadata(seq, files[seq])

\* LoadSSTable and RecoverFromManifestLocked throw when a file is missing or cut.
Readable ==
    \/ manifest = None
    \/ /\ manifest # Torn
       /\ \A i \in DOMAIN manifest.tables :
              manifest.tables[i] \in DOMAIN files /\ files[manifest.tables[i]] # Torn

\* The constructor: RecoverFromManifestLocked, then RecoverFromWALLocked.
RecoverFromManifestLocked ==
    /\ up = "down"
    /\ IF Readable
       THEN /\ up' = "open" /\ todo' = <<"replay">>
            /\ nextSeq' = IF manifest = None THEN 0 ELSE manifest.next
            /\ sst' = IF manifest = None THEN <<>>
                      ELSE [i \in DOMAIN manifest.tables |-> LoadSSTable(manifest.tables[i])]
       ELSE up' = "broken" /\ UNCHANGED <<todo, nextSeq, sst>>
    /\ UNCHANGED <<mem, imm, async, table, old, replayed, thread, disk, client, count>>

\* Variant for mutation: replay forgets to apply deletions.
RecoverSkipsDeletes ==
    /\ Step("replay")
    /\ IF replayed < Len(wal)
       THEN /\ replayed' = replayed + 1
            /\ LET record == wal[replayed + 1]
               IN  FlushMemTableIfNeededLocked(
                       IF record.value = Tombstone THEN mem
                       ELSE With(mem, record.key, record.value), todo)
            /\ UNCHANGED up
       ELSE /\ up' = IF torn THEN "broken" ELSE up
            /\ replayed' = 0
            /\ Done /\ UNCHANGED <<mem, imm, pending>>
    /\ UNCHANGED <<sst, nextSeq, async, old, worker, stop, disk, client, count>>

\* The whole log is read again, whatever the tables already hold.
RecoverFromWALLocked ==
    /\ Step("replay")
    /\ IF replayed < Len(wal)
       THEN /\ replayed' = replayed + 1
            /\ LET record == wal[replayed + 1]
               IN  FlushMemTableIfNeededLocked(With(mem, record.key, record.value), todo)
            /\ UNCHANGED up
       ELSE /\ up' = IF torn THEN "broken" ELSE up
            /\ replayed' = 0
            /\ Done /\ UNCHANGED <<mem, imm, pending>>
    /\ UNCHANGED <<sst, nextSeq, async, old, worker, stop, disk, client, count>>
-----------------------------------------------------------------------------
CallStep ==
    \/ AppendWALLocked \/ FlushIfNeeded \/ FlushImmutableMemTablesLocked
    \/ CompactSSTablesLocked \/ PersistSSTableLocked \/ DeleteSSTableFilesLocked
    \/ PublishTables \/ WriteManifest \/ InstallRestored \/ RewriteWALLocked
    \/ WorkerUnlocks \/ RecoverFromWALLocked

BackgroundWorkerLoop == WorkerWakes \/ WorkerLocks

Next ==
    \/ \E r \in Reader : GetReturns(r) \/ \E k \in Key : Get(r, k)
    \/ \E k \in Key : Put(k) \/ Delete(k)
    \/ Snapshot \/ Restore \/ Flush \/ Compact
    \/ \E enabled \in BOOLEAN : EnableAsyncFlush(enabled)
    \/ StartBackgroundWorker \/ StopBackgroundWorker \/ JoinWorker
    \/ CallStep \/ BackgroundWorkerLoop
    \/ Close \/ Crash \/ RecoverFromManifestLocked

\* A thread that holds the lock goes on, the worker's wait ends at the latest
\* at its timeout, and the lock, free again and again, is not kept from the worker forever.
Fairness ==
    WF_vars(CallStep) /\ WF_vars(WorkerWakes) /\ SF_vars(WorkerLocks) /\ WF_vars(JoinWorker)
    /\ \A r \in Reader : WF_vars(GetReturns(r))

Spec == Init /\ [][Next]_vars /\ Fairness
-----------------------------------------------------------------------------
(* Properties.                                                             *)

Value == 1 .. MaxWrites

\* Whenever the lock is free, the three ways to read (FindEntryLocked through Bloom
\* filters and block indexes, RangeScan, Size) agree with the log, whatever has been
\* rotated, flushed, compacted, restored and recovered before.
ReadsMatchLog ==
    Idle =>
        LET content == Logged(wal) IN
        /\ \A k \in Key : IF k \in DOMAIN content THEN FindEntryLocked(k) = content[k]
                           ELSE FindEntryLocked(k) \in {None, Tombstone}
        /\ \A lo, hi \in Key : RangeScan(lo, hi) = On(content, lo .. hi)
        /\ Size = Cardinality(DOMAIN content)

\* Outside two windows a crash leaves a manifest and tables that the constructor can load:
\* while the manifest is truncated and rewritten, and from the removal of the old table
\* files (by compaction or Restore) to the manifest that no longer names them.  (A log
\* record that the crash cuts makes the constructor throw all the same: torn.)
CrashSafe ==
    (up = "open" /\ (Locked => Head(todo) \in
        {"append", "flushIfNeeded", "flush", "createSSTable", "writeSSTable", "compact",
         "replay", "endOfRound"}))
    => Readable

\* The engine implements the map that kv_engine.h promises, across crashes: a Get
\* returns the value of the last logged write, Restore brings back what Snapshot saw, and
\* only an interrupted Restore loses data.
Engine == INSTANCE KVEngine WITH
    db <- IF old # None THEN old ELSE Logged(wal),
    restoring <- IF old # None THEN table ELSE None,
    snapshot <- DecodeSnapshot(snapshot), alive <- TRUE
ImplementsKVEngine == Engine!Spec

\* An immutable memtable is written to a table in the end when the worker runs.
FlushedInBackground == (imm # <<>> /\ worker \in {"waiting", "round", "last"}) ~> (imm = <<>> \/ up # "open")

\* StopBackgroundWorker returns: the worker makes its last round and is joined.
StopEnds == stop ~> (worker = "none")
=============================================================================
