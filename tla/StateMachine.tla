---------------------------- MODULE StateMachine ----------------------------
(***************************************************************************)
(* The state machine of one KV server and what it stands on: the cached    *)
(* skip-list engine (CachedKVEngine, LRUCache, SkipListEngine), the        *)
(* expiry times of keys, and the Persister with its two files, across      *)
(* crashes and restarts.                                                   *)
(*                                                                         *)
(* m_stateMtx is held exclusively while an entry of the log is executed    *)
(* and a snapshot is made or installed; such a call reads the clock once,  *)
(* so it is one action.  Reads of the ReadIndex path share the lock and    *)
(* interleave between the calls they make.  A log entry is executed once   *)
(* the persister has it: which entries are committed is Raft's business.   *)
(* A value is the sequence of the numbers of the writes it is made of.     *)
(***************************************************************************)
EXTENDS Integers, Sequences, FiniteSets, FiniteSetsExt, SequencesExt, SkipList, Persister

CONSTANTS
    Key,                \* the keys, ordered as numbers
    Reader,             \* the threads that serve reads
    CacheCapacity,      \* LRU_CACHE_CAPACITY
    SnapshotLength,     \* the log length above which a snapshot is made
    Expiry,             \* the expiry times that writes of each key carry; 0: none
    Earlier,            \* the keys 1 .. Earlier were written before, and are in a snapshot
    MaxOps,             \* bound on log entries after that
    MaxReads,           \* bound on reads
    MaxTime,            \* bound on the clock
    MaxRestarts         \* bound on crashes

ASSUME StateMachineAssumption ==
    /\ Key \subseteq Nat /\ Expiry \in [Key -> SUBSET Nat]
    /\ CacheCapacity \in Nat /\ SnapshotLength \in Nat
    /\ Earlier \in Nat /\ 1 .. Earlier \subseteq Key
    /\ Nil \notin Seq(Nat)     \* not finding a value differs from finding one
    /\ MaxOps \in Nat /\ MaxReads \in Nat /\ MaxTime \in Nat /\ MaxRestarts \in Nat

VARIABLES
    list, cache,                    \* the skip list; the LRU items, most recent first
    expire, lastRequest, now,       \* m_expireMap, m_lastRequestId, the clock
    reader,                         \* the reads in progress
    log, base, applied, checking,   \* the entries above index base, the last one executed,
                                    \* and whether its snapshot check is still to come
    up,                             \* "up", "down", or "broken": a file could not be parsed
    history, damaged,               \* every entry ever logged; a crash hit a save
    started, reads, restarts        \* counters: entries logged, reads ended, crashes

engine == <<list, cache>>
ttl == <<expire, lastRequest>>
raft == <<log, base, applied, checking, history, started>>
vars == <<engine, ttl, now, reader, reads, raft, disk, up, damaged, restarts>>

-----------------------------------------------------------------------------
(* LRUCache: a sequence of items, the most recently used one first.        *)

CachedKeys(items) == {items[i].key : i \in DOMAIN items}
\* m_index: where the item of a key is.
CacheIndex(items, k) == CHOOSE i \in DOMAIN items : items[i].key = k
CachedValue(items, k) == items[CacheIndex(items, k)].value
CacheDelete(items, k) ==
    IF k \in CachedKeys(items) THEN RemoveAt(items, CacheIndex(items, k)) ELSE items

\* A hit moves the item to the front.
CacheTouch(items, k) ==
    <<[key |-> k, value |-> CachedValue(items, k)]>> \o CacheDelete(items, k)
CacheHit(items, k) == CacheCapacity > 0 /\ k \in CachedKeys(items)

\* Variant for mutation: an item that is there already keeps its old value.
CachePutKeepsOld(items, k, v) ==
    IF CacheCapacity = 0 THEN items
    ELSE LET put == IF k \in CachedKeys(items) THEN CacheTouch(items, k)
                    ELSE <<[key |-> k, value |-> v]>> \o items
         IN  SubSeq(put, 1, Min({Len(put), CacheCapacity}))
\* The least recently used item goes when there are too many.
CachePut(items, k, v) ==
    IF CacheCapacity = 0 THEN items
    ELSE LET put == <<[key |-> k, value |-> v]>> \o CacheDelete(items, k)
         IN  SubSeq(put, 1, Min({Len(put), CacheCapacity}))
-----------------------------------------------------------------------------
(* CachedKVEngine on SkipListEngine: the base first, then the cache.       *)

EnginePut(k, v, level) ==
    /\ list' = insert_set_element(list, k, v, level)
    /\ cache' = CachePut(cache, k, v)

EngineDelete(k) ==
    /\ list' = delete_element_locked(list, k)
    /\ cache' = CacheDelete(cache, k)

EngineRestore(dump, levels) ==
    /\ list' = load_file(dump, levels)
    /\ cache' = <<>>

\* What a Get made under the exclusive lock finds, and what it does to the cache.
EngineGetValue(k) == IF CacheHit(cache, k) THEN CachedValue(cache, k) ELSE search_element(list, k)
CacheAfterGet(k) ==
    IF CacheHit(cache, k) THEN CacheTouch(cache, k)
    ELSE IF HasKey(list, k) THEN CachePut(cache, k, list.value[k]) ELSE cache

\* The content of the engine.
Content == list.value
Without(f, k) == [x \in DOMAIN f \ {k} |-> f[x]]
WithKey(f, k, v) == [x \in DOMAIN f \cup {k} |-> IF x = k THEN v ELSE f[x]]
-----------------------------------------------------------------------------
(* KvServer: executing entries.                                            *)

isKeyExpired(k) == k \in DOMAIN expire /\ now > expire[k]
setKeyExpire(map, k, expireAt) == IF expireAt > 0 THEN WithKey(map, k, expireAt) ELSE Without(map, k)

\* Variant for mutation: a writer does not wait for the reads in progress.
AlwaysUnlocked == TRUE
\* A read is inside its critical section unless it is idle.
Unlocked == \A r \in Reader : reader[r].pc = "idle"

LastIndex == base + Len(log)
EntryAt(i) == log[i - base]

\* The next entry in the log is executed.
Executes(operation) ==
    /\ up = "up" /\ Unlocked /\ saving = <<>> /\ ~checking
    /\ applied < LastIndex /\ EntryAt(applied + 1).operation = operation
    /\ applied' = applied + 1 /\ checking' = TRUE
    /\ UNCHANGED <<now, reader, reads, log, base, history, started, disk, up, damaged, restarts>>

ExecutePutOpOnKVDB ==
    /\ Executes("Put")
    /\ LET op == EntryAt(applied + 1) IN
       /\ \E level \in Levels : EnginePut(op.key, <<op.id>>, level)
       /\ expire' = setKeyExpire(expire, op.key, op.expireAt) /\ lastRequest' = op.id

\* Variant for mutation: an expired key is not deleted before it is appended to.
AppendToExpired(k) == EngineGetValue(k)
\* The value an Append adds to: that of an expired key has been deleted.
OldValue(k) == IF isKeyExpired(k) THEN Nil ELSE EngineGetValue(k)

\* The Put that follows puts the key in front of the cache whatever the Get did.
ExecuteAppendOpOnKVDB ==
    /\ Executes("Append")
    /\ LET op == EntryAt(applied + 1)
           old == OldValue(op.key)
           value == (IF old = Nil THEN <<>> ELSE old) \o <<op.id>>
       IN  /\ \E level \in Levels : EnginePut(op.key, value, level)
           /\ expire' = setKeyExpire(expire, op.key, op.expireAt) /\ lastRequest' = op.id

\* The thread that executes the log leaves a Get to the thread that waits for it.
PassesGet == Executes("Get") /\ UNCHANGED <<engine, ttl>>

\* That thread executes the Get later, each thread of a repeated Get once more; it deletes
\* the key when it has expired.
ExecuteGetOpOnKVDB(k) ==
    /\ up = "up" /\ Unlocked
    /\ \E i \in 1 .. applied : /\ history[i].operation = "Get" /\ history[i].key = k
                              /\ lastRequest' = history[i].id
    /\ IF isKeyExpired(k)
       THEN EngineDelete(k) /\ expire' = Without(expire, k)
       ELSE cache' = CacheAfterGet(k) /\ UNCHANGED <<list, expire>>
    /\ UNCHANGED <<now, reader, reads, raft, disk, up, damaged, restarts>>
-----------------------------------------------------------------------------
(* ExecuteReadOnlyGetOpOnKVDB: a read shares the lock with other reads.    *)

ReadStep(r, pc) == up = "up" /\ reader[r].pc = pc
Read(r, pc, value) == reader' = [reader EXCEPT ![r].pc = pc, ![r].value = value]

\* It takes the lock and looks at the clock: an expired key is filtered, not deleted.
ReadBegins(r, k) ==
    /\ ReadStep(r, "idle") /\ reads < MaxReads
    /\ reader' = [reader EXCEPT ![r] =
            [pc |-> IF isKeyExpired(k) THEN "return" ELSE "cache", key |-> k, value |-> None]]
    /\ UNCHANGED <<engine, ttl, now, reads, raft, disk, up, damaged, restarts>>

ReadsCache(r) ==
    /\ ReadStep(r, "cache")
    /\ LET k == reader[r].key IN
       IF CacheHit(cache, k)
       THEN /\ cache' = CacheTouch(cache, k)
            /\ Read(r, "return", CachedValue(cache, k))
       ELSE UNCHANGED cache /\ Read(r, "base", None)
    /\ UNCHANGED <<list, ttl, now, reads, raft, disk, up, damaged, restarts>>

ReadsBase(r) ==
    /\ ReadStep(r, "base")
    /\ LET found == search_element(list, reader[r].key)
       IN  IF found = Nil THEN Read(r, "return", None) ELSE Read(r, "fill", found)
    /\ UNCHANGED <<engine, ttl, now, reads, raft, disk, up, damaged, restarts>>

FillsCache(r) ==
    /\ ReadStep(r, "fill")
    /\ cache' = CachePut(cache, reader[r].key, reader[r].value)
    /\ Read(r, "return", reader[r].value)
    /\ UNCHANGED <<list, ttl, now, reads, raft, disk, up, damaged, restarts>>

ReadReturns(r) ==
    /\ ReadStep(r, "return")
    /\ reads' = reads + 1
    /\ reader' = [reader EXCEPT ![r] = [pc |-> "idle", key |-> None, value |-> None]]
    /\ UNCHANGED <<engine, ttl, now, raft, disk, up, damaged, restarts>>
-----------------------------------------------------------------------------
(* The log, snapshots, and the end of the process.                         *)

Operations == {"Put", "Append", "Get"}

\* Raft appends an entry and persists its state.
Start(operation, k, expireAt) ==
    /\ up = "up" /\ saving = <<>> /\ started < Earlier + MaxOps
    /\ started' = started + 1
    /\ operation = "Get" => expireAt = 0
    /\ LET op == [operation |-> operation, key |-> k, expireAt |-> expireAt, id |-> started + 1]
       IN  /\ log' = Append(log, op)
           /\ history' = Append(history, op)
           /\ SaveRaftState([base |-> base, log |-> Append(log, op)])
    /\ UNCHANGED <<engine, ttl, now, reader, reads, base, applied, checking,
                   raftStateSize, raftFile, snapFile, up, damaged, restarts>>

\* getSnapshotData: the engine's dump, the last requests and the expiry times.
\* (The index is Raft's; it is kept here to say which snapshot this is.)
SnapshotData ==
    [index |-> applied, dump |-> dump_file(list), lastRequest |-> lastRequest, expire |-> expire]

\* Variant for mutation: the cut leaves out one entry too many.
LogAboveTooShort == SubSeq(log, applied - base + 2, Len(log))
\* The entries after the snapshot.
LogAbove == SubSeq(log, applied - base + 1, Len(log))

\* After every entry: a snapshot when the state saved last is too long, and Raft drops
\* the prefix and saves both.
IfNeedToSendSnapShotCommand ==
    /\ up = "up" /\ checking /\ saving = <<>>
    /\ checking' = FALSE
    /\ IF raftStateSize > SnapshotLength
       THEN /\ Unlocked
            /\ base' = applied /\ log' = LogAbove
            /\ Save([base |-> applied, log |-> LogAbove], SnapshotData)
       ELSE UNCHANGED <<base, log, saving>>
    /\ UNCHANGED <<engine, ttl, now, reader, reads, applied, history, started,
                   raftStateSize, raftFile, snapFile, up, damaged, restarts>>

Saves ==
    /\ up = "up" /\ PersisterStep
    /\ UNCHANGED <<engine, ttl, now, reader, reads, raft, up, damaged, restarts>>

\* Time passes.  That the system clock is set back is not modelled.
Tick ==
    /\ up = "up" /\ now < MaxTime
    /\ now' = now + 1
    /\ UNCHANGED <<engine, ttl, reader, reads, raft, disk, up, damaged, restarts>>

NoKeys == [k \in {} |-> None]
IdleReaders == [r \in Reader |-> [pc |-> "idle", key |-> None, value |-> None]]

Crash ==
    /\ up = "up" /\ restarts < MaxRestarts
    /\ restarts' = restarts + 1
    /\ up' = "down"
    /\ PersisterCrash
    /\ damaged' = (damaged \/ SaveWindow)
    /\ history' = IF saving # <<>> /\ ~SaveWindow /\ Last(saving).step = "flushRaftState"
                  THEN Front(history) ELSE history
    /\ list' = EmptyList /\ cache' = <<>> /\ expire' = NoKeys /\ lastRequest' = 0
    /\ reader' = IdleReaders /\ reads' = 0
    /\ log' = <<>> /\ base' = 0 /\ applied' = 0 /\ checking' = FALSE
    /\ UNCHANGED <<now, started>>

\* parseFromString; an empty snapshot is not installed.
ReadSnapShotToInstall ==
    IF snapFile = None THEN UNCHANGED <<engine, ttl>>
    ELSE /\ \E levels \in [1 .. Len(snapFile.dump.keys) -> Levels] :
               EngineRestore(snapFile.dump, levels)
         /\ expire' = snapFile.expire /\ lastRequest' = snapFile.lastRequest

\* The constructor of KvServer: Raft reads its state (nothing from an empty file), then
\* the snapshot is installed.  A file that cannot be parsed ends the process.
Restart ==
    /\ up = "down"
    /\ IF raftFile = Torn \/ snapFile = Torn
       THEN up' = "broken" /\ UNCHANGED <<engine, ttl, log, base, applied, disk>>
       ELSE /\ up' = "up"
            /\ PersisterOpens
            /\ log' = IF raftFile = None THEN <<>> ELSE raftFile.log
            /\ base' = IF raftFile = None THEN 0 ELSE raftFile.base
            /\ applied' = base'
            /\ ReadSnapShotToInstall
    /\ UNCHANGED <<now, reader, reads, checking, history, started, damaged, restarts>>

\* The files are those of a server that has executed one Put of each earlier key, made a
\* snapshot and stopped; the server starts from them.
EarlierPut(k) == [operation |-> "Put", key |-> k, expireAt |-> 0, id |-> k]
Init ==
    /\ list = EmptyList /\ cache = <<>> /\ expire = NoKeys /\ lastRequest = 0 /\ now = 1
    /\ reader = IdleReaders /\ reads = 0
    /\ log = <<>> /\ base = 0 /\ applied = 0 /\ checking = FALSE
    /\ history = [k \in 1 .. Earlier |-> EarlierPut(k)] /\ started = Earlier
    /\ saving = <<>> /\ raftStateSize = 0
    /\ raftFile = [base |-> Earlier, log |-> <<>>]
    /\ snapFile = [index |-> Earlier, lastRequest |-> Earlier, expire |-> NoKeys,
                   dump |-> [keys |-> [k \in 1 .. Earlier |-> k],
                             values |-> [k \in 1 .. Earlier |-> <<k>>]]]
    /\ up = "down" /\ damaged = FALSE /\ restarts = 0

Next ==
    \/ \E operation \in Operations, k \in Key : \E expireAt \in Expiry[k] \cup {0} :
          Start(operation, k, expireAt)
    \/ ExecutePutOpOnKVDB \/ ExecuteAppendOpOnKVDB \/ PassesGet
    \/ \E k \in Key : ExecuteGetOpOnKVDB(k)
    \/ IfNeedToSendSnapShotCommand \/ Saves
    \/ \E r \in Reader : \/ \E k \in Key : ReadBegins(r, k)
                         \/ ReadsCache(r) \/ ReadsBase(r) \/ FillsCache(r) \/ ReadReturns(r)
    \/ Tick \/ Crash \/ Restart

Spec == Init /\ [][Next]_vars
-----------------------------------------------------------------------------
(* Properties.                                                             *)

Value == Seq(1 .. Earlier + MaxOps)

\* Whatever levels the coin flips give, and after any inserts, deletes and reloads, the
\* skip list is sorted on every level and keeps its level and count right.
SkipListSound == Sound(list)

\* The cache holds nothing that differs from the engine below it, no key twice and no
\* more than its capacity, although reads fill it in several steps.
CacheCoherent ==
    /\ Len(cache) <= CacheCapacity /\ Cardinality(CachedKeys(cache)) = Len(cache)
    /\ \A i \in DOMAIN cache :
          cache[i].key \in DOMAIN Content /\ cache[i].value = Content[cache[i].key]

\* What a read of the key would show.
Visible(k) == up = "up" /\ k \in DOMAIN Content /\ ~isKeyExpired(k)

\* A key that had expired (or was not there) comes back with the new write alone: no part
\* of an expired value is seen again.
ExpiredStaysGone ==
    [][\A k \in Key : (up = "up" /\ ~Visible(k) /\ Visible(k)') => Len(Content'[k]) = 1]_vars

\* The entries of the history that make up the value of a key: its writes since the last Put.
Written(k) ==
    {i \in 1 .. applied :
        /\ history[i].key = k /\ history[i].operation # "Get"
        /\ \A j \in i + 1 .. applied : history[j].key = k => history[j].operation # "Put"}

\* The log and the history agree on every entry above the cut, so none that was persisted
\* is lost.
LogRecovered == log = SubSeq(history, base + 1, Len(history))

\* Every key that never expires has the value that the executed entries give it: each of
\* its writes once, in the order of the log.
ContentRecovered ==
    \A k \in Key : (\A i \in DOMAIN history : history[i].key = k => history[i].expireAt = 0) =>
        /\ k \in DOMAIN Content <=> Written(k) # {}
        /\ k \in DOMAIN Content =>
              /\ Range(Content[k]) = {history[i].id : i \in Written(k)}
              /\ \A i, j \in DOMAIN Content[k] : i < j => Content[k][i] < Content[k][j]

\* Unless a crash hits a save, no persisted entry is lost, and a server that restarts from
\* its snapshot and its log has, for every key without expiry, the value that the executed
\* entries give it.
RecoversState == (up = "up" /\ ~damaged) => LogRecovered /\ ContentRecovered

\* Persister.cpp, Save: the snapshot on disk and the cut of the log on disk belong
\* together, and m_raftStateSize is the size of what is there.
SnapshotMatchesCut ==
    (up = "up" /\ ~damaged /\ saving = <<>>) =>
        /\ raftStateSize = StateSize(raftFile)
        /\ base = IF snapFile = None THEN 0 ELSE snapFile.index
        /\ raftFile # None => raftFile.base = base /\ raftFile.log = log

\* Seen from the readers, the cached engine is the map that kv_engine.h promises: a read
\* returns the value the engine has at one moment of the call.
Engine == INSTANCE KVEngine WITH
    db <- Content, snapshot <- NoKeys, restoring <- None, alive <- up = "up",
    answer <- [r \in Reader |-> reader[r].value]
ImplementsKVEngine == Engine!Spec
=============================================================================
