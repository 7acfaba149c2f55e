# A TLA+ model of KV-Raft-Storage

KV-Raft-Storage is a replicated key-value store: a cluster of servers, each a
Raft node with a key-value state machine on top, reached by a client library
over a hand-written RPC framework. This directory holds TLA+ specifications
translated from its C++ source, TLC configurations that check them on small
instances, and TLAPS proofs of the theorems that hold for every instance.
`PROJECT.json` lists the runs, the source lines behind every definition, the
hazards, the findings and the theorems.

## 1. The system

| Component | State it keeps | Operations | Talks to |
|---|---|---|---|
| Raft node (`raftCore/raft.cpp`) | status, term, vote, log, snapshot boundary, commit and apply positions, per-peer indexes, counters of the election and of each heartbeat round | election timer, heartbeat timer, apply timer, `RequestVote`, `AppendEntries1`, `InstallSnapshot`, the threads that wait for their replies, `Start`, `Snapshot`, `ReadIndex`, `WaitForApplied`, `init` | peers by RPC, the KV server through `applyChan`, the Persister |
| Persister (`raftCore/Persister.cpp`) | the raft-state file and the snapshot file | `Save`, `SaveRaftState`, `ReadRaftState`, `ReadSnapshot` | called by the Raft node under its mutex and by the KV server at start |
| KV server (`raftCore/kvServer.cpp`) | engine, last request number per client, expiry times, wait channels by log index | `Get`, `PutAppend`, apply loop, snapshot creation and installation | Raft node, engine, Clerk |
| Clerk (`raftClerk/clerk.cpp`) | client id, request number, last known leader | `Get`, `Put`, `Append` and their TTL variants, retried on the next server until one answers | KV servers by RPC |
| LSM tree engine (`storage/include/lsm_tree_engine.h`) | memtable, immutable tables, SSTables, WAL and manifest files | `Get`, `Put`, `Delete`, `Snapshot`, `Restore`, `Flush`, `Compact`, background worker, recovery | called by the KV server |
| Cached engine (`storage/include/cached_kv_engine.h`) | an LRU cache in front of an engine | the engine's operations | any engine |
| Skip list engine (`storage/include/skiplist_engine.h`) | an ordered map in memory | the engine's operations | called by the KV server; the default build's engine |
| RPC layer (`rpc/`) | a connection and a mutex per peer; the provider's service table | `CallMethod`, `OnMessage` | Raft node, KV server, Clerk |
| Queues and thread pool (`common/include`) | bounded and unbounded queues | push, pop, timed pop, submit, shutdown | everyone |
| Fiber runtime (`fiber/`) | scheduler queue, epoll contexts, timers | schedule, run, idle, tickle, add and cancel events and timers | runs the Raft node's tickers |
| Metrics, configuration, generated code | counters, constants | | |

What is hard about it:

- **Interleaving.** Handlers of one node are serialised by `m_mtx`, but the code
  releases the mutex around every RPC and in front of every detached thread.
  What a thread read before the RPC (term, arguments, round counter) is used
  after it, against a state that has moved on.
- **Ordering and loss.** Replies are processed in any order; a call may fail
  before or after the other side has handled it. Several heartbeat rounds to one
  peer, a snapshot thread and ReadIndex heartbeats may all be under way.
- **Crashes.** A node comes back from its raft-state file. Some handlers persist
  on every path, one path (a newer term in an AppendEntries reply) does not.
- **Boundaries.** Log index and vector position differ by the snapshot
  boundary, and a dozen `myAssert`s that call `exit()` guard the translation.
- **Timeouts.** ReadIndex, the wait for a committed operation, the receive
  timeout of a channel, the timers of blocked fibers and the client's retries
  race late answers.
- **Files.** The Persister truncates before it writes; the LSM engine keeps
  tables, a manifest and a log that are changed one after the other.

What makes each component correct: Raft must elect one leader per term, never
lose what a crash must not lose, keep entries identified by index and term, and
move commit and apply positions only forward and only behind a majority; the KV
server must execute an operation once, in log order, and answer reads with what
has been acknowledged; the engines must behave as a map, across crashes where
they have files; the runtime must run what it was given.

## 2. Modules

| Module | Content |
|---|---|
| `Raft.tla` | the node: state, one action per handler, types, safety and action properties |
| `MCRaft.tla` | for TLC: symmetry, the view, and an initial state after a first election |
| `RaftProofs.tla` | proofs about `Raft`: the type invariant, the log and disk invariants, votes and elections |
| `ReplicationProofs.tla` | proofs about `Raft`: what a step does to positions, logs, peers' indexes and entries; what a majority of successes, and of confirmations, means |
| `KvServer.tla`, `MCKvServer.tla` | KV servers and Clerks over a Raft layer that keeps its promises |
| `KvProofs.tla` | proofs about `KvServer`: acknowledged writes, replicas, snapshots and reads |
| `KVEngine.tla` | abstract: what a storage engine promises (`kv_engine.h`), crashes included |
| `LsmTree.tla`, `MCLsmTree.tla` | the LSM tree engine on its files; implements `KVEngine` |
| `LsmProofs.tla` | proofs about `LsmTree`: what a crash leaves on disk, what a read finds, and the refinement of `KVEngine` |
| `SkipList.tla` | the skip list as operators on nodes and their forward pointers |
| `SkipListProofs.tla` | lemmas about the operators of `SkipList`: the shape every operation keeps, and what a search finds |
| `Persister.tla` | the two files of a server and the steps of a save |
| `StateMachine.tla`, `MCStateMachine.tla` | one server's state machine: skip list, cache, expiry times and files composed; implements `KVEngine` |
| `StateMachineProofs.tla` | proofs about `StateMachine`: what a server persists and recovers, its engine and cache, the refinement of `KVEngine` |
| `Wire.tla` | the messages and their encoding (the generated protobuf code) |
| `Rpc.tla`, `MCRpc.tla` | channels, connections, provider and thread pool |
| `RpcProofs.tla` | proofs about `Wire` and `Rpc`: the codec, executions and answers |
| `FiberRuntime.tla`, `MCFiber.tla` | scheduler, event contexts, timers and hooked system calls |
| `FiberProofs.tla` | proofs about `FiberRuntime`: who wakes a fiber, and when the thread exits |

The layers are checked apart from each other: `Raft` takes a save and a call as
given, `KvServer` takes Raft's promises as given, `StateMachine` and `Persister`
show what a save and a restart do, `Rpc` what a call does.

### `Raft.tla` and the code

*State.* Each member variable of the class `Raft` is a function over `Server`
(`status` for `m_status`, `snapIndex` for `m_lastSnapshotIncludeIndex`, and so
on). `votedNum` and `appendNums` are the counters the code shares between the
threads of one election and of one heartbeat round; a round's index in
`appendNums` is its identity. `disk` is the content of the raft-state file.
`rpcs` is the set of calls and threads in progress: requests not handled yet,
replies whose calling thread has not run yet (they carry the arguments, as the
thread does), and snapshot threads that have not got the mutex.
`ballots`, `voters`, `won`, `applied`, `restarts`, `reads` and `rounds` are
history: properties and bounds read them, the code's control flow never does.

*Steps.* A handler runs under `m_mtx` from its first to its last statement and
is one action, `persist()` included. Where the code gives the mutex up, one
action ends: `sendRequestVote`, `sendAppendEntries` and `leaderSendSnapShot` are
the second halves, after the RPC. The paths of a handler (its early returns) are
disjuncts with names of their own: `AppendEntries1` is `AppendEntriesStale`,
`AppendEntriesMismatch` or `AppendEntriesMatch`.

*Timers* may fire at any moment, so `doElection`, `doHeartBeat` and
`applierTicker` are guarded by the code's conditions only.

*RPC.* A call is never repeated by the framework, may be reordered with any
other, and may be lost: an element of `rpcs` that is never taken any further.
`MprpcChannel` serialises the calls of one channel, but threads reach its mutex
in any order, so no order between calls follows from it. When the caller
crashes, its requests may still arrive; `waiting` turns FALSE and the reply is
dropped.

*Assertions.* `myAssert` calls `exit()`. The assertions that the model does not
rule out are guards of the action they stand in (`nextIndex` in `doHeartBeat`
and `ReadIndexBeat`, `status # Leader` in `VoteReplyWins`), and the exit that
the code would take is an instance of `Restart`.

*What is abstracted.* Commands are model values. A snapshot's content is its
last index and term. `Persister::Save` is atomic. Delays have no length.

### `KvServer.tla` and the code

*Composition.* The module puts the servers of `kvServer.cpp` and the Clerks of
`clerk.cpp` on a Raft layer reduced to its promises, so that what it shows is
about the layers above Raft and not about the findings of `Raft.tla`: there is
one agreed `log`; a node gives an index to one call of `Start` only (in this code
a node's log never gets shorter, so `getNewCommandIndex` never repeats); the
index a successful ReadIndex returns covers everything committed. Which of the
accepted entries an index gets is open until `Commit`, so a call may wait for an
index that another leader fills.

*State.* `machine` is the engine's content together with `m_lastRequestId`; the
content of a key is the sequence of requests that wrote it. `applyChan` is the
queue together with the messages `applierTicker` still holds, which is why a
detached `pushMsgToKvServer` may insert its snapshot anywhere. `calls` are the
server threads of RPCs, with the wait channel's content in `got`: an index is
given once, so a channel has one listener. `clerk` is the Clerk's state with the
operation it is executing. `position`, `replay`, `acked`, `answers` and `floor`
are history: the log index whose state a server has reached, the states of an
ideal machine in which every write counts where it occurs first, the writes
answered OK, and for every read the index it had to cover and the index it was
served from.

*Steps.* A thread's steps are those the mutexes separate: `Start`, `Listen` (the
wait channel is created after `Start` has returned, so a notification can be
missed), then `Popped` or `TimedOut`. The apply loop executes, compacts and
notifies in one step: in between, other threads could only do what they can do
right before or right after it. `TimedOut` may happen at any time, and so may
the Clerk's `Retry`; the thread left behind runs on and still changes the server.
`Restart` drops the server's threads and queue and starts from the snapshot
file.

*What is abstracted.* Operations carry no TTL and the engine is a map (both are
in `StateMachine.tla`), the size test of `IfNeedToSendSnapShotCommand` is a free
choice, and leadership is a free choice in `Start` and `NotLeader`.

### `KVEngine.tla`, `LsmTree.tla` and the code

`KVEngine` is a map with reads that take effect at one moment, a Snapshot, a
Restore that replaces the whole map, and the two ways an engine can meet the end
of its process: one with files loses nothing, unless a Restore is cut short, and
one in memory starts empty and is loaded by its owner.

`LsmTree` keeps the class's members (`mem`, `imm`, `sst`, `nextSeq`, `async`) and
the files (`wal`, `manifest`, `files`). `m_mtx` is exclusive for every call that
changes the tree, so at most one is in progress: `todo` lists its remaining
steps, one for each file operation and for each part between two of them, and a
`Crash` may fall between any two. A file being written is `Torn`; `torn` says
that the log ends in a cut record. `up = "broken"` is a constructor that threw.
Reads go the way of the code: memtable, immutable tables, then tables newest
first through key range, Bloom filter and block index. The refinement maps the
content of the engine to what the log holds (`Logged(wal)`), for the log is
written first and never cut, and to the content before the call during a
Restore.

### `StateMachine.tla`, `SkipList.tla`, `Persister.tla` and the code

Entries are executed under the exclusive `m_stateMtx`, each in one action, on the
skip list and the LRU cache; the level a new node gets is a free choice. Reads of
the ReadIndex path hold the lock shared: look-up, read of the base and fill of
the cache are steps of their own and interleave with those of other readers.
The thread that executes the log passes over a Get; the thread of the call runs it
later, a repeated Get more than once (`ExecuteGetOpOnKVDB`), and deletes the key
when it has expired. `Tick` moves the clock, which decides about expiry, forward
(`getCurrentTimeMs` reads the system clock, which somebody may set back; that is
not modelled). `Start` appends an entry and
saves; after each entry executed the server may make a snapshot, cut the log and
save both. A save is the list of file operations of `Persister.cpp`; `damaged`
records that a crash fell between a truncation and the write that follows it,
which loses the file (the code has no copy). What Raft does with other servers
is not here: entries are executed in the order they are logged.
`Init` is the disk of a server that ran before, with `Earlier` keys in its
snapshot.

### `Wire.tla`, `Rpc.tla` and the code

A message is a record, its bytes a sequence of half-fields, so that a cut at a
field boundary (which parses) differs from a cut inside a field (which does
not). Fields with default values are not written, as in the generated code.
A send that fails may have handed over any beginning of the bytes, and a read of
the provider or of the channel may get any beginning of what is under way
(`Beginnings`); `MaxCuts` bounds how often one ends before the bytes do. A
`recv` gets at most what fits in its buffer besides (`FirstPiece`).
`Decoded` is the parsing of `OnMessage` with what it does not check: the result of
`ReadString` for the header is ignored (`rpcprovider.cpp:154`), so a read that ends
right behind the method name parses as a header with `args_size` 0, the length
check of the arguments holds, and the handler runs with default arguments; what is
left over of the request comes with the next read and, since it does not begin with
the length of a header, is thrown away.
`RequestType` and `ResponseType` name the message type of each method; the
messages of a run are assumed to have them (`RpcAssumption`), as the generated
stubs require.
A connection holds the bytes of both directions. Every method of both services
can be called; the value `Long` stands for one that does not fit the buffer of
one read. The number a request carries (`id`) and whether its header was whole
(`whole`) are history. The handlers are abstract: some answer out of `Reply`. Requests of `raftRpc` are executed by the
IO thread, those of `kvServerRpc` by the pool.

### `FiberRuntime.tla` and the code

The steps are those of `Scheduler::run` and `IOManager::idle` on the scheduler
thread (take a task, find the queue empty, count as idle, check `stopping`, wait,
wake), those of a running fiber between two yields, and those of the main thread:
`scheduler()` decides under the mutex whether to tickle and tickles later. How
long a timer takes is open. The environment makes descriptors ready.

## 3. Runs

The runs switch the deadlock check off: the bounds stop every behaviour.

### Raft

The runs instantiate `MCRaft` with `SYMMETRY Symmetry` (servers are only ever
compared for equality) and `VIEW LiveView`.

`LiveView` leaves inert replies out of the state: replies whose handler can only
return, now and in every later state (an old term, a refusal that carries
nothing, a ReadIndex call that is over). Taking or keeping such a reply changes
nothing that a property or a guard reads.

`ElectedSpec` starts after an undisputed first election: every server has voted
for one candidate in term 1, the votes have been counted, and the leader has
accepted `Backlog` commands (0 in the passing runs). That state is
reachable from `Init`; the runs that use it spend their states on what comes
after. `Spec` starts from empty servers.

| Run | Instance | Checks |
|---|---|---|
| `election` | `Spec`, 5 servers, 2 elections, 2 crashes | `ElectionSafety`, `VoteOnce`, `LeaderOnce` |
| `replication` | 3 servers, 2 terms, 3 log entries, 1 heartbeat round, 1 ReadIndex call | `TypeOK`, `EntryIdentity`, `LeadershipConfirmed`, `LeaderAppendOnly` |
| `replication5` | 5 servers, 1 command, 2 concurrent rounds | `CommitQuorum` |
| `snapshot` | 3 servers, 2 terms, 2 rounds, 1 crash, snapshots up to index 2 | `LogContiguous`, `IndexOrder`, `PeerIndexes`, `DiskCurrent`, `ProgressMonotone` |
| `loses_commit` | 3 servers, 3 terms, 2 rounds, a leader that starts with 2 commands | `LeaderCompleteness` fails |

*The bounds* (`MaxTerm`, `MaxElections`, `MaxLog`, `MaxRounds`, `MaxRestarts`,
`MaxSnapIndex`, `MaxReads`) appear only as guards of the action they bound. They
are chosen so that the interesting case happens: two candidates of one term and
a voter that crashes between them need three servers, two elections and a crash;
late votes beyond a majority that could count again need five servers; a success
added to a wrong round needs two rounds in flight and a commit that a majority
does not hold, which with three servers cannot be told apart, hence five;
conflicting entries need two terms, and a kept tail a third.
Every action and every disjunct of `Next` fires in some passing run.

### KV servers and Clerks

The runs instantiate `MCKvServer` with `VIEW LiveView`, which leaves out the
threads of writes that have called `Start` and that no Clerk is waiting for:
they touch nothing but themselves. There is no symmetry: the Clerk walks round
the servers, and the clerks have different parts (`Reader`, `Writer`).

| Run | Instance | Checks |
|---|---|---|
| `kv_state` | a clerk that appends and a clerk that reads, ReadIndex off, 3 calls, log of 3, snapshots, 1 crash | `AppliesLog`, `SnapshotsMatchLog`, `ReadsFresh` |
| `kv_answers` | 1 clerk, `Put` and `Get`, ReadIndex on, 2 requests in 3 calls, log of 2, snapshots, 1 installation | `TypeOK`, `AckedCommitted` |
| `kv_duplicate` | 1 clerk, `Append` and `Get`, ReadIndex off, 2 requests in 4 calls | `AppliesLog` fails |

Two servers are enough for a deposed and a present leader, a lagging and a
current replica, a source and a target of a snapshot. Two requests and three
calls allow a request to follow a retried one, so that one request is in the log
twice with another in between, and a read to follow an acknowledged write. The
passing runs keep apart what section 4 combines: `AppliesLog` and
`SnapshotsMatchLog` hold as long as a clerk that writes does not also read
through the log, and no snapshot is installed over a running server;
`ReadsFresh` as long as reads go through the log. `kv_answers` has all of that at
once, and `AckedCommitted` holds all the same. A Get that is executed late and
sets a request number back (`kvServer.cpp:107`) is out of reach of `kv_state`, whose
clerks either read or write; `kv_duplicate` is the run that shows it.

### Engines, state machine, RPC and fibers

| Run | Instance | Checks |
|---|---|---|
| `lsm` | 2 keys that share a Bloom bit, memtables of 2 entries, blocks of 1, 3 writes, 2 other calls, 1 reader, 1 crash or close | `ReadsMatchLog`, `CrashSafe`, `ImplementsKVEngine`, `FlushedInBackground`, `StopEnds` |
| `state_machine` | 2 keys in an earlier snapshot, one with expiry times, 2 log entries, cache of 1, list levels 0 to 2, 2 readers, 1 crash | `SkipListSound`, `CacheCoherent`, `RecoversState`, `SnapshotMatchesCut`, `ExpiredStaysGone`, `ImplementsKVEngine` |
| `rpc` | 2 threads on 1 channel, 2 calls of `AppendEntries`, `RequestVote` or `Get`, 2 pool workers, 1 cut, 1 server crash | `TypeOK`, `ExecutesAsSent`, `OwnReply`, `CallsReturn`, `TasksRun` |
| `fiber` | 2 fibers, 1 descriptor, 3 system calls | `TypeOK`, `OneWaker`, `TimeoutsAreOwn`, `ExitsWhenDone`, `FibersResume`, `StopEnds` |

Three writes over two keys give an overwrite or a deletion on each side of a
flush, and with a threshold of two an immutable memtable beside a newer one; two
more calls allow a Snapshot and its Restore, or the worker's start and stop. A
cache of one with two keys evicts on every change of key, and two readers fill it
in either order. Two calls on one connection are what a late or misread answer
needs; one cut at any place is what a request with a part of its header, or with a
part of its arguments, needs. The three methods are one with a nested and one with
a flat message for the IO thread and one, with a long answer, for the pool; that
the messages of all five are read as they were written is an assumption that TLC
evaluates (`MCRoundTrip`) and a theorem (section 5). Three system calls allow a timeout to be set, a wait, and a close or a
second wait that the first one's timer could hit.

`ReadsMatchLog` compares three independent ways to read with the log;
`CrashSafe` names the two windows in which a crash leaves a directory that cannot
be loaded (the manifest is truncated before it is written; compaction and Restore
remove tables that the manifest on disk still names) and shows that there is no
other. A log record that is cut makes the constructor throw as well; such a
crash ends in `up = "broken"`. `RecoversState` is about keys whose writes carry no
expiry: with one, replay decides by the clock of the replay. `ExecutesAsSent` says
that a handler runs with the arguments its caller passed, or with the defaults when
its header had lost what follows the method name, and not twice. `OwnReply` excepts
connections on which a `recv` got only a part of a reply, because that is longer
than the 4096 bytes of `recv_buf` or has not all arrived: what is left of it is
taken for the answer to the next call.

### Fairness and mutants

*Fairness.* The runs of `Raft`, `KvServer` and `StateMachine` check safety and
assume none. The others assume of the threads no more than that the system
schedules them:

- `LsmTree`: a call that holds the lock, and a reader, goes on (weak); the
  worker's `wait_for` has a timeout (weak); the worker gets the lock, which is
  free again and again, in the end (strong: the C++ mutex promises no order, but
  callers come one at a time and leave it free in between).
- `Rpc`: a caller goes on, and gets the channel's mutex in the end (strong, for
  the same reason); `recv` ends because the channel sets `SO_RCVTIMEO`; workers and
  `notify_one` go on (weak). Of the network and the server process nothing is
  assumed: requests and answers may never arrive.
- `FiberRuntime`: the scheduler thread runs and `epoll_wait` returns after
  `MAX_TIMEOUT` at the latest (weak), the main thread's tickle is not put off
  forever, and time passes. That data arrives is not assumed.

*Mutants.* For every property `PROJECT.json` names a definition and a plausible
slip in it (the vote left out of the raft-state file, the counter not reset, an
off-by-one at the snapshot boundary, one counter for all rounds, ...) under
which TLC finds the property violated.

## 4. Findings

Two statements of the repository about the program are refuted by runs:

1. **A committed entry can be lost** (`loses_commit`, `raft.cpp:93`). The
   interview guide says wrong entries are cut off; the code overwrites them in
   place and keeps what follows. In the run a follower whose log had entries of
   term 1 takes the committed entry of term 2 at an index in front of its last
   one, and its log ends in the stale entry of term 1 (terms 2, 2, 1). `UpToDate`
   compares last terms, so this voter finds a candidate that lacks the committed
   entry up to date and grants its vote. The winner has no stale tail; a kept tail
   is always of an older term than the entries written in front of it.
2. **A late Get reopens a request number** (`kv_duplicate`, `kvServer.cpp:107`).
   The thread of an abandoned Get sets `m_lastRequestId` back, and a retried
   Append that is in the log twice is executed twice.

Further deviations are behaviours of the modules, and limit what the properties
can say:

- `raft.cpp:1199`: a new leader answers ReadIndex with a commit index it has not
  brought up to date; the read can miss acknowledged writes.
- `raft.cpp:111`: an empty heartbeat of ReadIndex lets a follower commit up to the
  end of its own log, which the request does not vouch for, so two state machines
  can get different entries for one index.
- `raft.cpp:379` and `1310`: `m_lastApplied` counts entries handed over, not
  executed, so a read that waits for it can still be too early.
- `raft.cpp:481`: an installed snapshot reaches the KV server by a detached thread
  after `m_lastApplied` has moved; entries behind it may be executed first, on
  the old state, and the snapshot then replaces a newer state.
- `Persister.cpp:40`, `lsm_tree_engine.h:408` and `523`: the crash windows of
  section 3.
- `mprpcchannel.cpp:112`: the reply of which one `recv` gets only a part.
- `rpcprovider.cpp:154`: the header that is cut behind the method name (section 2).
  The answer goes to the real caller: a `PutAppend` without operation, key and
  client, say, is logged by the leader, executed as nothing, and answered OK.
- `kvServer.cpp:483`: expiry is decided by the clock of the executing server.

One deviation is outside the modules: `ioctl` with `FIONBIO` hands its argument to
the kernel (`hook.cpp:445-453`) without setting `O_NONBLOCK` again as `fcntl` does
for `F_SETFL` (`hook.cpp:374-379`). After `FIONBIO` 0 a read without data blocks the
scheduler thread and every fiber with it. `FiberRuntime` has `fcntl` and no `ioctl`;
`FibersResume` is about programs that do not make that call.

## 5. Proofs

A theorem holds for every value of the constants that meets the named
assumptions of its module: every finite set of servers, clients, threads, fibers
and keys, and all values of the bounds. Some theorems have a further hypothesis,
which is spelled out below. All are theorems of `Spec`, so the state after a first
election with which some runs begin is covered as well.

### Raft node

`RaftProofs.tla` proves `Spec => []NodeInv` by induction, where

    NodeInv == TypeOK /\ LogContiguous /\ IndexOrder /\ DiskCurrent /\ RpcBounds

None of the conjuncts is inductive alone. A crash restores the log and the
positions from the disk, so `LogContiguous` and `IndexOrder` need `DiskCurrent`;
the merge of `AppendEntries1` keeps a log contiguous only if the entries of the
request are, and an acknowledged index stays inside the leader's log only if the
request took it from there, so both need `RpcBounds`, which says so of every
call in progress. Frame lemmas (`QuietStep`, `GrowingStep`, `CutLog`,
`AppendToLog`) cover the steps that leave logs alone, grow them or cut them, and
there is one lemma per handler. From `NodeInv`: `TypeCorrect`,
`CrashLosesNothing` (`DiskCurrent`), `LogsContiguous`, `PositionsOrdered`
(`IndexOrder`).

The same module proves `Spec => [](NodeInv /\ VoteInv)`. `VoteInv` says that
a ballot is on the disk of its voter or of an older term than the disk's
(`BallotsOnDisk`), that every granted reply and every counted voter stands for a
ballot (`GrantsRecorded`, `VotersVoted`), that `votedNum` agrees with the set of
voters counted (`VotesCounted`), that the calls of an election are to others and
one per peer (`CallsOfElections`, `CallsToOthers`, `CallsOnce`), and that every
winner had a majority of ballots (`WinnersElected`). It gives `OneVotePerTerm`
(`VoteOnce`), `OneLeaderPerTerm` (`ElectionSafety`, because two majorities
intersect) and `NeverLeaderTwice` (`LeaderOnce`, because the votes left after a
majority are fewer than a majority).

`ReplicationProofs.tla` begins with lemmas that sort the steps by what they touch
(`LogSteps`, `CallSteps`, `StepsKeepLogs`), so that each later invariant looks at
the few steps that matter to it. It proves

- `PositionsMoveForward` (`ProgressMonotone`) and `LeadersOnlyAppend`
  (`LeaderAppendOnly`), the action properties, from `NodeInv`. Only the merge of
  `AppendEntries1` changes an entry in its place, and whoever merges is a follower
  afterwards;
- `PeersInsideLog` (`PeerIndexes`) from `PeerInv`: index 0 has term 0 everywhere
  (`ZeroTerms`), so no refusal proposes index 0 (`RefusalsPositive`), and a
  snapshot on its way ends inside its sender's log (`SnapshotsInside`);
- `EntriesIdentified` (`EntryIdentity`) from `EntryInv`: every entry in sight is of
  a term that somebody won (`EntriesWon`), a leader has won its term
  (`LeadersWon`), and the entries of its term end inside its log
  (`OwnTermIndexes`), so that the entry it makes next is new. It rests on
  `ElectionSafety`.

Its second half proves what the two majorities mean that a leader counts.

- `CommitsAreHeld` (`CommitQuorum`) from `QuorumInv`. The no-op of a new leader is
  the first entry of its term; from there on its log, and what it sends, are the
  entries of its term and of no other (`FirstOfTerm`). A peer that accepts a call
  holds such an entry at the index the call acknowledges and has saved the term;
  neither is undone, since only a call of the same term could replace the entry,
  and it carries one of the same term (`Confirmed`, `ConfirmedStep`). For every
  round there is a set of peers that its counter has counted, all of them have
  confirmed one index, and no call of theirs is outstanding (`Tallied`). The code
  commits when the counter plus the reply and the leader itself make a majority.
  `FirstOfTerm` is why the code's comparison of terms suffices although the code
  keeps tails of older terms in its logs (finding 1).
- `ReadIndexConfirmed` (`LeadershipConfirmed`) from `ReadingInv`: a later term won
  before the call has a majority of ballots, whose servers refuse the call's
  heartbeats, and the call counts every other peer once.

### KV server and Clerk

`KvProofs.tla` proves `Spec => []KvInv`, which gives `KvTypes` (`TypeOK`) and
`AcknowledgedWritesCommitted` (`AckedCommitted`) without further hypothesis: OK is
answered because the request was delivered or because the duplicate table covers
its number, and a table covers a Clerk's current write only once that is in the
log (`Tables`); a Clerk moves on only when its last request was answered, so
older writes are in the log already (`Settled`).

Three more theorems assume

    Separate == Reader \cap Writer = {} /\ MaxInstalls = 0

that is, no Clerk both reads and writes and no snapshot is installed over a running
server. Both parts are needed: finding 2 and `raft.cpp:481` (section 4) are the
counterexamples without them. Under it `ReplicasApplyLog` (`AppliesLog`) and
`SnapshotsApplyLog` (`SnapshotsMatchLog`) follow from `ReplayInv`, which compares
every server and snapshot with the ideal machine at the same position up to what
reads leave in the duplicate table (`Alike`), and says that the channel holds the
entries in between (`Channel`). `ReadsThroughLogFresh` (`ReadsFresh`) assumes
`~EnableReadIndex` besides (`raft.cpp:1199` and `379` are the counterexamples), and
adds `FreshInv`: a table marks a Clerk's current read only in a state that covers
what the read has to cover.

### Storage

`LsmProofs.tla` proves three theorems about the LSM tree.

- `CrashLeavesReadable` (`CrashSafe`). `CrashSafe` says nothing of the steps inside
  the two windows; `LsmInv` does, for every list of remaining steps (`Stage`): before
  the window the manifest names the tables in memory and their files are whole, the
  file being written has a number no named table has, and the manifest that ends the
  window is written when every table of the new list is stored.
- `ReadsFollowLog` (`ReadsMatchLog`), from `ReadInv`, which says for every list of
  remaining steps what the tables hold. A list of tables says of a key what the
  newest one that has it says (`Found`), a log what its last record about the key says
  (`LastWrite`); the tables in memory, with the one on its way to a file counted
  between stored and immutable ones, agree with the log as far as it has been
  replayed, and have no key that is nowhere in it (`Agreed`). Rotation, flush and
  publication keep what the list says (`Shows`); compaction drops tombstones, which a
  read cannot tell from nothing as long as every table is merged. A recovery starts
  with tables that are newer than the records it replays, so that for a while they
  say more; that no file the manifest names has a key the log has not (`Named`) makes
  this end well, and is why Restore may not clear the log before it has removed the
  files (`Restoring`). Between the lemmas about lists and the theorem are those about
  the three ways to read: a Bloom filter built from all keys of a table lets each of
  them through, and the first block whose range covers a key is the one that has it.
- `LsmRefinement` (`ImplementsKVEngine`): every step is a step of the map
  `Logged(wal)` or leaves it alone. A log with one more record is the map after a
  write or a deletion (`LoggedNext`), what Snapshot returns decodes to the map
  (`Decoded`), and a copy of a restored table that is cut short by a crash is a part
  of it, a complete one all of it (`CopiedLogged`).

The hypotheses are about marks, which the code keeps apart by their types: those of a
torn or missing file are not the content of one (`MarksApart`), those of a missing
value and of a deletion are not values (`ValuesApart`), and the one for no Restore in
progress is not the content of a table (`NoneApart`). Of the constants it is assumed
that keys are numbers and that every key sets a bit of the Bloom filter, as
`AddBloomKey` does.

`SkipListProofs.tla` is about the operators of `SkipList`, for any number of keys
and levels. The invariant of a list is `Shaped`: on every level, the pointer of a
node is the least greater node of that level (`IsNext`), every node is on the
levels up to its own height, and the level in use is the highest one that has a
node. From it the walk of the code has a closed form: `Update` finds on every level
the last node before the key (`UpdateIsLast`). So `search_element` finds what is
there (`SearchFinds`), insertion and deletion keep the shape and change the map at
one key (`InsertShaped`, `DeleteShaped`, `SetShaped`), a dump has every key once
and in order (`DumpHolds`), loading a dump with any levels gives the map it was
made of (`LoadShaped`), and a list in shape is `Sound` (`ShapedIsSound`). The
recursive functions of `SkipList` (the walk along a level, the descent, the keys of
a level, the loading of a dump) are dealt with one by one: a function given
explicitly solves the equation, and a least or a greatest counterexample shows
that no other does.

`StateMachineProofs.tla` proves three invariants, one on top of the other.

- `PersistInv` says what the two files hold at every step of `Save` and
  `SaveRaftState` and after a crash. It gives `SnapshotsMatchCuts`
  (`SnapshotMatchesCut`).
- `EngineInv` holds whether or not a crash has damaged the files: the list is
  `Shaped`; the cache has no key twice, stays within its capacity and agrees with
  the list; a reader about to fill the cache holds the value that the list has (it
  keeps the shared lock, so no write can come in between); everything in the files
  or on its way there is well formed, a snapshot being the dump of some map. It
  gives `SkipListAlwaysSound` (`SkipListSound`), `CacheAlwaysCoherent`
  (`CacheCoherent`), the action property `ExpiredNeverSeenAgain`
  (`ExpiredStaysGone`) and `EngineRefinement` (`ImplementsKVEngine`): every step of
  the state machine is a step of `KVEngine` on the list's content or leaves it
  alone, and the moment of a Get is its hit in the cache or its search in the list.
- `ContentInv` compares with the history: unless a save was damaged, the engine of a
  running server has what the executed entries give to every key without expiry
  (`Matches`), and so has every snapshot, on disk or in a pending step of a save,
  for the entries up to its own index. A restart loads such a snapshot, and a crash
  that takes back an unsaved entry takes back one above it. It gives
  `StateRecovered` (`RecoversState`).

`FilesApart` is the same kind of hypothesis as `MarksApart`; `SnapshotsMatchCuts` and
`StateRecovered` need it, the theorems from `EngineInv` do not. The assumptions on the
constants are that keys are numbers, that the header of the skip list and a null
pointer are not, and that a null pointer is not a value.

### Fibers

`FiberProofs.tla` proves `FiberTypes` (`TypeOK`, with the count of pending events),
`EveryFiberOneWaker` (`OneWaker`), `NoStaleTimeout` (`TimeoutsAreOwn`) and
`ExitsOnlyWhenDone` (`ExitsWhenDone`) from `FiberInv`: of queue, timers and event
contexts exactly one refers to a fiber that has yielded, a queued timeout callback
comes before the resumption of its fiber, every reference agrees with the fiber's
call, and an idle thread finds only functions in its queue.

### RPC

`RpcProofs.tla` begins with the codec: for any message of its type, however long
its repeated fields, a parser reads what the serializer wrote (`RequestCodec`,
`ResponseCodec`, over one lemma per message). A field is found because exactly
one place carries its number, so each lemma goes through the fields in the
order they are written. From there, `DecodedExactly`: what `OnMessage` makes of any
beginning of the bytes of a request, whatever comes behind, is that request, nothing
if a part that it checks is missing, or the call with the default arguments if the
bytes end between the method name and the size of the arguments.

The theorems `TypeCorrect` (`TypeOK`), `RunsOnceAsSent` (`ExecutesAsSent`) and
`RepliesAreOwn` (`OwnReply`) follow from `RpcInv`:

- where a length prefix lies among the bytes, its whole call follows, or, if the
  client has gone, as much of it as was handed over (`RequestsWhole`). `OnMessage`
  relies on it: it takes whatever is at hand for the beginning of a request;
- a call is in one place at most, among the bytes, in the queue, with a worker, or
  executed, and in none before it is sent (`OnePlace`, `Unsent`). This is why
  nothing runs twice although `CallMethod` may connect again;
- on a connection that carried no split reply, only the call that holds the
  channel is on its way, and what arrives is the whole answer to it (`InStep`); it
  needs the mutex of the channel (`OneHolder`), the closing of the descriptor
  after every failure (`FdsOpen`) and that tasks keep their call
  (`TasksIssued`, `CallsIssued`). A call that returned without failure has its own
  answer (`Answered`);
- two counts for the types: a channel opens as many connections as calls have
  ended, plus the one it has (`ConnectsSeldom`), and the pool was notified for
  calls that have left the bytes (`NoticesOfTasks`).

`split` stays a hypothesis of `OwnReply`, as in the code: a reply of which one `recv`
gets a part leaves the rest for the next call (section 4).

### Left to TLC

- *Liveness*: `FlushedInBackground`, `StopEnds` of both modules, `CallsReturn`,
  `TasksRun`, `FibersResume`. Fairness and ENABLED are out of the prover's reach.
- `LeaderCompleteness` and `AppliesLog` without `Separate` are violated (section 4).

## 6. Plan

Raft's liveness is left: an accepted command is eventually applied under fairness of
timers and delivery. It needs a bound on rounds that does not itself stop the
behaviour.

## 7. Not modelled

- Metrics, the configuration file and the parsing of addresses, start-up order of
  the processes of a cluster (the RPC server answers before `m_raftNode->init`).
- Bytes below the level of fields: a piece of a message, such as what is left over
  of a request that was cut, that happens to read as a valid header of another one.
- `SIGPIPE`: `mprpcchannel.cpp:89` sends without `MSG_NOSIGNAL`, so a send to a
  closed peer may end the calling process where the model returns an error.
  (A server process ignores the signal because muduo's event loop does; the
  process of a Clerk does not.)
- The accessors, arenas, merging, reflection and descriptors of the generated
  code.
- The destructor of `ThreadPool` (its owner lives as long as the process), and
  `LockQueue` apart from its use in `KvServer.tla`.
- In the fiber runtime: several scheduler threads and the caller's thread as a
  scheduler, recurring timers, `refresh`, `reset` and `delEvent`, which the servers
  do not use; a descriptor number that is given out again after a close; the
  context switch itself.
- `activeExpireCycle` and `metricsDumpLoop`, which only read and print.
- `ioctl` (section 4), and the failure of `epoll_ctl` in `addEvent`
  (`iomanager.cpp:97-100`), which the hooked call returns as an error.
- The system clock set back (section 2).
- Liveness of replication (section 6).

Some actions are coarser than the code where no property can tell:

- `ReadIndexBeat` drops the heartbeats that are not sent when the call returns; the
  threads of `raft.cpp:1214-1247` still send them, which the model takes for lost.
- `doHeartBeat` is not taken when one `nextIndex` is out of range, while
  `raft.cpp:262-313` sends to the peers before that one and then exits. `PeerIndexes`
  shows that no `nextIndex` is too small.
- `GetCommandFromRaft` and `TimedOut` of `KvServer` join critical sections
  (`kvServer.cpp:223-249`, `190-199`). A Get of another thread between the execution
  of an entry and its snapshot could leave its request number in that snapshot; under
  `Separate` such a number is never one that a write looks up.
- `KvServer.InstallSnapshot` installs what its source has at that moment, not an
  older snapshot that was under way.
- In `StateMachine` a Get may be run at any time after it was logged, a restart in
  between included.
- The example and test programs.
