------------------------------ MODULE KvServer ------------------------------
(***************************************************************************)
(* The key-value servers of src/raftCore/kvServer.cpp and the Clerks of    *)
(* src/raftClerk/clerk.cpp, over a Raft layer that keeps its promises: one *)
(* agreed log, indexes that a node gives out only once, and a ReadIndex    *)
(* that covers what has been committed.  (Raft.tla models that layer       *)
(* itself.)                                                                *)
(*                                                                         *)
(* An RPC is a record of `calls': the server thread that runs Get or       *)
(* PutAppend.  The Clerk may give it up at any moment (a lost connection,  *)
(* RPC_CLIENT_TIMEOUT_MS) and go on to the next server; the thread runs on *)
(* and its answer goes nowhere.                                            *)
(*                                                                         *)
(* The thread's steps are those that the mutexes separate: Start, the      *)
(* creation of the wait channel, and the end of the wait.  Operations      *)
(* carry no TTL.                                                           *)
(***************************************************************************)
EXTENDS Integers, FiniteSets, Sequences

CONSTANTS
    N,                  \* number of servers
    Client,             \* the clerks, m_clientId
    Reader, Writer,     \* the clerks that read, and those that write
    Key,
    Kinds,              \* the operations the clerks use
    EnableReadIndex,    \* ENABLE_READ_INDEX
    EnableSnapshots,    \* m_maxRaftState is not -1
    MaxRequests,        \* bound: requests of one clerk
    MaxCalls,           \* bound: RPCs of all clerks, retries included
    MaxLog,             \* bound: committed entries
    MaxNoops,           \* bound: no-ops of new leaders among them
    MaxRestarts,        \* bound: crashes
    MaxInstalls         \* bound: snapshots installed by Raft

ASSUME SizesAreNat ==
    /\ N \in Nat \ {0}      /\ MaxRequests \in Nat /\ MaxCalls \in Nat
    /\ MaxLog \in Nat       /\ MaxNoops \in Nat    /\ MaxRestarts \in Nat
    /\ MaxInstalls \in Nat
ASSUME FlagsAreBoolean == EnableReadIndex \in BOOLEAN /\ EnableSnapshots \in BOOLEAN
ASSUME KnownKinds == Kinds \subseteq {"Put", "Append", "Get"}
ASSUME KnownClerks == Reader \subseteq Client /\ Writer \subseteq Client

Server == 0 .. N - 1

VARIABLES
    log,            \* the committed entries, by index
    proposed,       \* entries some leader has accepted, still undecided
    given,          \* the last index each node's Start has given out
    lastApplied,    \* m_lastApplied of each Raft node
    snapshot,       \* the Persister's snapshot file and its index
    incoming,       \* threads running pushMsgToKvServer
    applyChan,      \* applyChan, and behind it what applierTicker will push
    machine,        \* m_engine and m_lastRequestId
    lastSnapshot,   \* m_lastSnapShotRaftLogIndex
    calls,          \* the RPCs' server threads
    clerk           \* m_requestId, m_recentLeaderId and the call in progress

(***************************************************************************)
(* History variables.                                                      *)
(***************************************************************************)
VARIABLES
    position,   \* the log index whose state each server has reached
    replay,     \* the states of an ideal state machine fed with the log
    acked,      \* writes answered OK, in the order of their first commit
    answers,    \* reads answered: the index required and the index served
    issued, restarts, installs

raftVars   == <<log, proposed, given, lastApplied, snapshot, incoming>>
serverVars == <<applyChan, machine, lastSnapshot, position>>
clientVars == <<calls, clerk, acked, answers, issued>>
vars == <<raftVars, serverVars, clientVars, replay, restarts, installs>>

-----------------------------------------------------------------------------
(***************************************************************************)
(* The state machine.                                                      *)
(***************************************************************************)
Noop == [kind |-> "Noop"]

\* A machine state: the engine's content and the last request of each client,
\* 0 when m_lastRequestId has none.  A value is the sequence of the requests
\* that wrote it.
Fresh == [db |-> [k \in Key |-> <<>>], last |-> [c \in Client |-> 0]]

ExecutePut(m, op) ==
    [db |-> [m.db EXCEPT ![op.key] = <<[client |-> op.client, request |-> op.request]>>],
     last |-> [m.last EXCEPT ![op.client] = op.request]]

ExecuteAppend(m, op) ==
    [db |-> [m.db EXCEPT ![op.key] = Append(@, [client |-> op.client, request |-> op.request])],
     last |-> [m.last EXCEPT ![op.client] = op.request]]

\* ExecuteGetOpOnKVDB: the read itself changes nothing, its request number does.
ExecuteGet(m, op) == [m EXCEPT !.last[op.client] = op.request]

DuplicateStrict(m, op) == op.request < m.last[op.client]    \* mutant: < for <=

\* mutant: a client that the table does not know counts as served
DuplicateUnknown(m, op) == m.last[op.client] = 0 \/ op.request <= m.last[op.client]

\* ifRequestDuplicate
Duplicate(m, op) == op.request <= m.last[op.client]

\* The part of GetCommandFromRaft that executes.
Execute(m, op) ==
    CASE op.kind = "Put" /\ ~Duplicate(m, op)    -> ExecutePut(m, op)
      [] op.kind = "Append" /\ ~Duplicate(m, op) -> ExecuteAppend(m, op)
      [] OTHER -> m

-----------------------------------------------------------------------------
NoCall == 0

Init ==
    /\ log = <<>>
    /\ proposed = {}
    /\ given = [i \in Server |-> 0]
    /\ lastApplied = [i \in Server |-> 0]
    /\ snapshot = [i \in Server |-> [index |-> 0, state |-> Fresh]]
    /\ incoming = [i \in Server |-> {}]
    /\ applyChan = [i \in Server |-> <<>>]
    /\ machine = [i \in Server |-> Fresh]
    /\ lastSnapshot = [i \in Server |-> 0]
    /\ calls = {}
    /\ clerk = [c \in Client |-> [request |-> 0, recent |-> 0, server |-> 0,
                                  call |-> NoCall, op |-> Noop, floor |-> 0]]
    /\ position = [i \in Server |-> 0]
    /\ replay = <<Fresh>>
    /\ acked = {}
    /\ answers = {}
    /\ issued = 0 /\ restarts = 0 /\ installs = 0

-----------------------------------------------------------------------------
(***************************************************************************)
(* The Clerk.                                                              *)
(***************************************************************************)
NewCall(op, server) ==
    [id |-> issued + 1, op |-> op, server |-> server, phase |-> "sent", index |-> 0,
     got |-> <<>>]

\* The first index at which an acknowledged write was committed, the greatest
\* over all of them: what a read that begins now has to cover.
AckedIndex ==
    LET first(op) == CHOOSE k \in DOMAIN log : log[k] = op /\ \A l \in 1 .. k - 1 : log[l] # op
        indexes == {0} \cup {first(op) : op \in acked \cap {log[k] : k \in DOMAIN log}}
    IN  CHOOSE k \in indexes : \A l \in indexes : l <= k

\* Get, Put and Append up to the first RPC.
Request(c, kind, key) ==
    LET op == [kind |-> kind, key |-> key, client |-> c, request |-> clerk[c].request + 1]
    IN  /\ c \in IF kind = "Get" THEN Reader ELSE Writer
        /\ clerk[c].call = NoCall
        /\ clerk[c].request < MaxRequests /\ issued < MaxCalls
        /\ issued' = issued + 1
        /\ calls' = calls \cup {NewCall(op, clerk[c].recent)}
        /\ clerk' = [clerk EXCEPT ![c] =
             [request |-> op.request, recent |-> @.recent, server |-> @.recent,
              call |-> issued', op |-> op, floor |-> AckedIndex]]
        /\ UNCHANGED <<raftVars, serverVars, acked, answers, replay, restarts, installs>>

NextServerUnwrapped(server) == server + 1   \* mutant of NextServer
NextServer(server) == (server + 1) % N

\* The RPC has failed, or answered ErrWrongLeader: the same request goes to the
\* next server.
Retry(c) ==
    LET server == NextServer(clerk[c].server)
    IN  /\ clerk[c].call # NoCall
        /\ issued < MaxCalls
        /\ issued' = issued + 1
        /\ calls' = calls \cup {NewCall(clerk[c].op, server)}
        /\ clerk' = [clerk EXCEPT ![c].server = server, ![c].call = issued']
        /\ UNCHANGED <<raftVars, serverVars, acked, answers, replay, restarts, installs>>

\* ErrNoKey answers a read of an absent key, and does not change m_recentLeaderId.
Missing(call) ==
    call.op.kind = "Get" /\ machine[call.server].db[call.op.key] = <<>>

\* The thread answers, and the Clerk returns if it is still waiting for it.
Answer(call) ==
    LET c == call.op.client
        heard == clerk[c].call = call.id
    IN  /\ calls' = calls \ {call}
        /\ clerk' = IF heard
                    THEN [clerk EXCEPT ![c].call = NoCall,
                            ![c].recent = IF Missing(call) THEN @ ELSE call.server]
                    ELSE clerk
        /\ acked' = IF heard /\ call.op.kind # "Get" THEN acked \cup {call.op} ELSE acked
        /\ answers' = IF heard /\ call.op.kind = "Get"
                      THEN answers \cup {[op |-> call.op, floor |-> clerk[c].floor,
                                          served |-> position[call.server]]}
                      ELSE answers
        /\ UNCHANGED issued

\* ErrWrongLeader: the Clerk's next step is Retry.
Refuse(call) ==
    /\ calls' = calls \ {call}
    /\ UNCHANGED <<clerk, acked, answers, issued>>

-----------------------------------------------------------------------------
(***************************************************************************)
(* The RPC handlers, Get and PutAppend.                                    *)
(***************************************************************************)
\* Start on a node that is leader, or believes it is: the entry gets an index
\* the node has not given to another call.  A Get comes here when ReadIndex is
\* off or has failed, or when WaitForApplied has timed out.
Start(call) ==
    /\ call.phase \in {"sent", "reading"}
    /\ \E index \in (lastApplied[call.server] + 1 .. Len(log) + 1) \cup {given[call.server] + 1} :
          /\ index > given[call.server] /\ index > lastApplied[call.server]
          /\ index <= MaxLog
          /\ given' = [given EXCEPT ![call.server] = index]
          /\ proposed' = IF index > Len(log)
                         THEN proposed \cup {[index |-> index, op |-> call.op]}
                         ELSE proposed
          /\ calls' = (calls \ {call}) \cup
               {[call EXCEPT !.phase = "started", !.index = index]}
    /\ UNCHANGED <<log, lastApplied, snapshot, incoming, serverVars, clerk, acked, answers,
                   issued, replay, restarts, installs>>

\* Start on a node that is not.
NotLeader(call) ==
    /\ call.phase \in {"sent", "reading"}
    /\ Refuse(call)
    /\ UNCHANGED <<raftVars, serverVars, replay, restarts, installs>>

\* The wait channel is created, after Start has returned.
Listen(call) ==
    /\ call.phase = "started"
    /\ calls' = (calls \ {call}) \cup {[call EXCEPT !.phase = "waiting"]}
    /\ UNCHANGED <<raftVars, serverVars, clerk, acked, answers, issued, replay, restarts,
                   installs>>

AnyOperation(op, popped) == TRUE    \* mutant of SameRequest: not compared

SameRequest(op, popped) ==
    popped.kind # "Noop" /\ popped.client = op.client /\ popped.request = op.request

\* A read executed by the RPC thread, m_lastRequestId included.
ServeGet(call) ==
    /\ machine' = IF call.op.kind = "Get"
                  THEN [machine EXCEPT ![call.server] = ExecuteGet(@, call.op)]
                  ELSE machine
    /\ UNCHANGED <<applyChan, lastSnapshot, position>>

\* timeOutPop succeeds.
Popped(call) ==
    /\ call.phase = "waiting" /\ call.got # <<>>
    /\ \/ SameRequest(call.op, Head(call.got)) /\ Answer(call) /\ ServeGet(call)
       \/ ~SameRequest(call.op, Head(call.got)) /\ Refuse(call) /\ UNCHANGED serverVars
    /\ UNCHANGED <<raftVars, replay, restarts, installs>>

\* timeOutPop fails: the request may have been executed all the same.  A Get
\* is answered only if GetState still says leader, a write in any case.
TimedOut(call) ==
    /\ call.phase = "waiting"
    /\ \/ Duplicate(machine[call.server], call.op) /\ Answer(call) /\ ServeGet(call)
       \/ /\ ~Duplicate(machine[call.server], call.op) \/ call.op.kind = "Get"
          /\ Refuse(call) /\ UNCHANGED serverVars
    /\ UNCHANGED <<raftVars, replay, restarts, installs>>

\* ReadIndex succeeds: the commit index when it was called.
ReadIndex(call) ==
    /\ EnableReadIndex
    /\ call.op.kind = "Get" /\ call.phase = "sent"
    /\ calls' = (calls \ {call}) \cup
         {[call EXCEPT !.phase = "reading", !.index = Len(log)]}
    /\ UNCHANGED <<raftVars, serverVars, clerk, acked, answers, issued, replay, restarts,
                   installs>>

\* WaitForApplied succeeds and ExecuteReadOnlyGetOpOnKVDB answers.
ReadOnlyGet(call) ==
    /\ call.phase = "reading"
    /\ lastApplied[call.server] >= call.index
    /\ Answer(call)
    /\ UNCHANGED <<raftVars, serverVars, replay, restarts, installs>>

-----------------------------------------------------------------------------
(***************************************************************************)
(* The Raft layer.                                                         *)
(***************************************************************************)
\* The ideal machine, for the properties: a write counts where it occurs first.
Replayed(m, op) ==
    LET first == op \notin {log[k] : k \in DOMAIN log}
    IN  CASE op.kind = "Put" /\ first    -> ExecutePut(m, op)
          [] op.kind = "Append" /\ first -> ExecuteAppend(m, op)
          [] OTHER -> m

\* The next index is decided: an entry some leader has accepted there, or a
\* new leader's no-op.
Commit(op) ==
    /\ Len(log) < MaxLog
    /\ \/ op = Noop /\ Cardinality({k \in DOMAIN log : log[k] = Noop}) < MaxNoops
       \/ [index |-> Len(log) + 1, op |-> op] \in proposed
    /\ log' = Append(log, op)
    /\ proposed' = {p \in proposed : p.index > Len(log')}
    /\ replay' = Append(replay, Replayed(replay[Len(replay)], op))
    /\ UNCHANGED <<given, lastApplied, snapshot, incoming, serverVars, clientVars,
                   restarts, installs>>

\* getApplyLogs: lastApplied moves first, the entry follows through applyChan.
applierTicker(i) ==
    /\ lastApplied[i] < Len(log)
    /\ lastApplied' = [lastApplied EXCEPT ![i] = @ + 1]
    /\ applyChan' = [applyChan EXCEPT ![i] =
         Append(@, [type |-> "command", index |-> lastApplied'[i], op |-> log[lastApplied'[i]]])]
    /\ UNCHANGED <<log, proposed, given, snapshot, incoming, machine, lastSnapshot, position,
                   clientVars, replay, restarts, installs>>

\* InstallSnapshot with the snapshot of another server: newer than the local
\* one, though not necessarily newer than what has been applied.
InstallSnapshot(i, from) ==
    /\ installs < MaxInstalls
    /\ snapshot[from].index > snapshot[i].index
    /\ installs' = installs + 1
    /\ snapshot' = [snapshot EXCEPT ![i] = snapshot[from]]
    /\ lastApplied' = [lastApplied EXCEPT ![i] =
         IF @ < snapshot[from].index THEN snapshot[from].index ELSE @]
    /\ incoming' = [incoming EXCEPT ![i] = @ \cup {snapshot[from]}]
    /\ UNCHANGED <<log, proposed, given, serverVars, clientVars, replay, restarts>>

\* The detached thread pushes: anywhere between the messages that applierTicker
\* has pushed and those it holds.
pushMsgToKvServer(i) ==
    /\ \E s \in incoming[i] : \E k \in 0 .. Len(applyChan[i]) :
          /\ incoming' = [incoming EXCEPT ![i] = @ \ {s}]
          /\ applyChan' = [applyChan EXCEPT ![i] =
               SubSeq(@, 1, k) \o <<[type |-> "snapshot", index |-> s.index, state |-> s.state]>>
                 \o SubSeq(@, k + 1, Len(@))]
    /\ UNCHANGED <<log, proposed, given, lastApplied, snapshot, machine, lastSnapshot, position,
                   clientVars, replay, restarts, installs>>

-----------------------------------------------------------------------------
(***************************************************************************)
(* The apply loop, ReadRaftApplyCommandLoop.                               *)
(***************************************************************************)
MakeSnapShotEarly(i) == machine[i]  \* mutant of MakeSnapShot: before the execution

\* MakeSnapShot, called after the command has been executed.
MakeSnapShot(i) == machine'[i]

\* IfNeedToSendSnapShotCommand: the size of the raft state decides, and Raft's
\* Snapshot ignores an index its own snapshot covers.
MaySnapshot(i, index) ==
    \/ UNCHANGED snapshot
    \/ /\ EnableSnapshots
       /\ index > snapshot[i].index
       /\ snapshot' = [snapshot EXCEPT ![i] = [index |-> index, state |-> MakeSnapShot(i)]]

\* SendMessageToWaitChan
Notified(i, index, op) ==
    LET listening == {call \in calls : call.server = i /\ call.phase = "waiting"
                                         /\ call.index = index}
    IN  (calls \ listening) \cup {[call EXCEPT !.got = Append(@, op)] : call \in listening}

\* GetCommandFromRaft
GetCommandFromRaft(i, message) ==
    /\ message.type = "command"
    /\ \/ /\ message.index <= lastSnapshot[i]
          /\ UNCHANGED <<machine, position, snapshot, calls>>
       \/ /\ message.index > lastSnapshot[i]
          /\ machine' = [machine EXCEPT ![i] = Execute(@, message.op)]
          /\ position' = [position EXCEPT ![i] = message.index]
          /\ MaySnapshot(i, message.index)
          /\ calls' = Notified(i, message.index, message.op)
    /\ UNCHANGED lastSnapshot

\* GetSnapShotFromRaft; CondInstallSnapshot always agrees.
GetSnapShotFromRaft(i, message) ==
    /\ message.type = "snapshot"
    /\ machine' = [machine EXCEPT ![i] = message.state]
    /\ lastSnapshot' = [lastSnapshot EXCEPT ![i] = message.index]
    /\ position' = [position EXCEPT ![i] = message.index]
    /\ UNCHANGED <<snapshot, calls>>

ReadRaftApplyCommandLoop(i) ==
    /\ applyChan[i] # <<>>
    /\ applyChan' = [applyChan EXCEPT ![i] = Tail(@)]
    /\ \/ GetCommandFromRaft(i, Head(applyChan[i]))
       \/ GetSnapShotFromRaft(i, Head(applyChan[i]))
    /\ UNCHANGED <<log, proposed, given, lastApplied, incoming, clerk, acked, answers, issued,
                   replay, restarts, installs>>

-----------------------------------------------------------------------------
\* The process dies and the constructor runs again: Raft starts from the
\* snapshot index, the state machine from the snapshot file.
Restart(i) ==
    /\ restarts < MaxRestarts
    /\ restarts' = restarts + 1
    /\ lastApplied' = [lastApplied EXCEPT ![i] = snapshot[i].index]
    /\ incoming' = [incoming EXCEPT ![i] = {}]
    /\ applyChan' = [applyChan EXCEPT ![i] = <<>>]
    /\ machine' = [machine EXCEPT ![i] = snapshot[i].state]
    /\ lastSnapshot' = [lastSnapshot EXCEPT ![i] = 0]
    /\ position' = [position EXCEPT ![i] = snapshot[i].index]
    /\ calls' = {call \in calls : call.server # i}
    /\ UNCHANGED <<log, proposed, given, snapshot, clerk, acked, answers, issued, replay, installs>>

Next ==
    \/ \E c \in Client :
          \/ \E kind \in Kinds, key \in Key : Request(c, kind, key)
          \/ Retry(c)
    \/ \E call \in calls :
          \/ Start(call)
          \/ NotLeader(call)
          \/ Listen(call)
          \/ Popped(call)
          \/ TimedOut(call)
          \/ ReadIndex(call)
          \/ ReadOnlyGet(call)
    \/ \E op \in {p.op : p \in proposed} \cup {Noop} : Commit(op)
    \/ \E i \in Server :
          \/ applierTicker(i)
          \/ \E from \in Server : InstallSnapshot(i, from)
          \/ pushMsgToKvServer(i)
          \/ ReadRaftApplyCommandLoop(i)
          \/ Restart(i)

Spec == Init /\ [][Next]_vars

-----------------------------------------------------------------------------
(***************************************************************************)
(* Types.                                                                  *)
(***************************************************************************)
Operation == [kind : Kinds, key : Key, client : Client, request : Nat]
Entry     == Operation \cup {Noop}
State     == [db : [Key -> Seq([client : Client, request : Nat])], last : [Client -> Nat]]
Message   == [type : {"command"}, index : Nat, op : Entry]
               \cup [type : {"snapshot"}, index : Nat, state : State]
Call      == [id : Nat, op : Operation, server : Server,
              phase : {"sent", "reading", "started", "waiting"}, index : Nat, got : Seq(Entry)]
SnapshotFile == [index : Nat, state : State]

\* Type correctness of servers, clerks and the Raft layer between them.
TypeOK ==
    /\ log \in Seq(Entry)
    /\ proposed \subseteq [index : Nat, op : Operation]
    /\ given \in [Server -> Nat]
    /\ lastApplied \in [Server -> Nat]
    /\ snapshot \in [Server -> SnapshotFile]
    /\ incoming \in [Server -> SUBSET SnapshotFile]
    /\ applyChan \in [Server -> Seq(Message)]
    /\ machine \in [Server -> State]
    /\ lastSnapshot \in [Server -> Nat]
    /\ calls \subseteq Call
    /\ clerk \in [Client -> [request : Nat, recent : Server, server : Server, call : Nat,
                             op : Entry, floor : Nat]]
    /\ position \in [Server -> Nat]
    /\ replay \in Seq(State)
    /\ acked \subseteq Operation
    /\ answers \subseteq [op : Operation, floor : Nat, served : Nat]
    /\ issued \in Nat /\ restarts \in Nat /\ installs \in Nat

-----------------------------------------------------------------------------
(***************************************************************************)
(* Safety.                                                                 *)
(***************************************************************************)
\* An acknowledged write is in the log: OK is answered after the wait channel
\* delivered the very request, or when the duplicate table covers it, and
\* neither a stale leader's index, a retry nor a late thread can fake that.
AckedCommitted == acked \subseteq {log[k] : k \in DOMAIN log}

\* A server's content is what the log up to its position gives when every
\* request counts once, where it occurs first, although retries put requests
\* into the log several times and a crash falls back on the last snapshot.
AppliesLog == \A i \in Server : machine[i].db = replay[position[i] + 1].db

\* The snapshot a crash would fall back on is the state at the snapshot's index,
\* neither ahead of it nor behind, and so is its duplicate table.  (A Get marks
\* the table of the server that serves it, so the log says nothing of readers.)
SnapshotsMatchLog ==
    \A i \in Server :
        LET file == snapshot[i]
        IN  /\ file.index <= Len(log)
            /\ file.state.db = replay[file.index + 1].db
            /\ \A c \in Client \ Reader :
                   file.state.last[c] = replay[file.index + 1].last[c]

\* A read covers every write acknowledged before it began.
ReadsFresh == \A a \in answers : a.floor <= a.served
============================================================================
