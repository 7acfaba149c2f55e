--------------------------------- MODULE Rpc --------------------------------
(***************************************************************************)
(* Remote calls: MprpcChannel on the calling side, RpcProvider with its    *)
(* thread pool on the serving side, and the TCP connections between them.  *)
(*                                                                         *)
(* The threads of a process that call the same server share a channel,     *)
(* hence a connection; the mutex of the channel is held for a whole call.  *)
(* TCP keeps bytes in order, but a read may get any beginning of what was  *)
(* sent.  The server process may crash and start again.                    *)
(***************************************************************************)
EXTENDS Integers, Sequences, FiniteSets, SequencesExt, Wire

CONSTANTS
    Caller,             \* the calling threads
    Channel,            \* the MprpcChannels to the server
    Worker,             \* the threads of m_businessThreadPool
    Request, Reply,     \* for each method, the arguments and the answers of a run
    None,               \* no connection, no task
    MaxCalls,           \* bound on calls
    MaxCuts,            \* bound on sends and reads that end before the bytes do
    MaxCrashes          \* bound on crashes of the server

VARIABLES
    call,               \* the call each thread makes: its progress, result and number
    m_clientFd,         \* the connection of each channel, or None
    opened,             \* how many connections each channel has opened
    conn,               \* the connections: who has them open, the bytes under way
    m_tasks, notices,   \* the queue of the pool; enqueue calls about to notify
    worker,             \* each worker: awake, asleep, or running a task
    alive, crashes,     \* the server process
    cuts,               \* counter for the bound
    issued, ran         \* history: the calls made; the executions of each

server == <<m_tasks, notices, worker, alive, crashes>>
vars == <<call, m_clientFd, opened, conn, server, cuts, issued, ran>>

Conn == Channel \X (0 .. MaxCalls)
Id == 1 .. MaxCalls

-----------------------------------------------------------------------------
(* The services: CallMethod and the prototypes of the generated classes.   *)

RaftMethods == {"AppendEntries", "InstallSnapshot", "RequestVote"}
KvMethods == {"PutAppend", "Get"}

\* NotifyService: the services a server offers, with their methods.
m_serviceMap == [raftRpc |-> RaftMethods, kvServerRpc |-> KvMethods]
ServiceOf(method) == CHOOSE s \in DOMAIN m_serviceMap : method \in m_serviceMap[s]

\* The request and the response prototype of each method.
RequestType ==
    [AppendEntries |-> AppendEntriesArgs, InstallSnapshot |-> InstallSnapshotRequest,
     RequestVote |-> RequestVoteArgs, PutAppend |-> PutAppendArgs, Get |-> GetArgs]
ResponseType ==
    [AppendEntries |-> AppendEntriesReply, InstallSnapshot |-> InstallSnapshotResponse,
     RequestVote |-> RequestVoteReply, PutAppend |-> PutAppendReply, Get |-> GetReply]

ASSUME RpcAssumption ==
    /\ MaxCalls \in Nat /\ MaxCuts \in Nat /\ MaxCrashes \in Nat
    /\ None \notin Channel \X (0 .. MaxCalls)
    /\ \A m \in RaftMethods \cup KvMethods :
          /\ Request[m] \subseteq RequestType[m]
          /\ Reply[m] \subseteq ResponseType[m]

SerializeRaftRequest(method, m) ==
    CASE method = "AppendEntries"   -> SerializeAppendEntriesArgs(m)
      [] method = "InstallSnapshot" -> SerializeInstallSnapshotRequest(m)
      [] method = "RequestVote"     -> SerializeRequestVoteArgs(m)
ParseRaftRequest(method, b) ==
    CASE method = "AppendEntries"   -> ParseAppendEntriesArgs(b)
      [] method = "InstallSnapshot" -> ParseInstallSnapshotRequest(b)
      [] method = "RequestVote"     -> ParseRequestVoteArgs(b)
SerializeRaftResponse(method, m) ==
    CASE method = "AppendEntries"   -> SerializeAppendEntriesReply(m)
      [] method = "InstallSnapshot" -> SerializeInstallSnapshotResponse(m)
      [] method = "RequestVote"     -> SerializeRequestVoteReply(m)
ParseRaftResponse(method, b) ==
    CASE method = "AppendEntries"   -> ParseAppendEntriesReply(b)
      [] method = "InstallSnapshot" -> ParseInstallSnapshotResponse(b)
      [] method = "RequestVote"     -> ParseRequestVoteReply(b)

SerializeRequest(method, m) ==
    IF method \in RaftMethods THEN SerializeRaftRequest(method, m)
    ELSE IF method = "Get" THEN SerializeGetArgs(m) ELSE SerializePutAppendArgs(m)
ParseRequest(method, b) ==
    IF method \in RaftMethods THEN ParseRaftRequest(method, b)
    ELSE IF method = "Get" THEN ParseGetArgs(b) ELSE ParsePutAppendArgs(b)
SerializeResponse(method, m) ==
    IF method \in RaftMethods THEN SerializeRaftResponse(method, m)
    ELSE IF method = "Get" THEN SerializeGetReply(m) ELSE SerializePutAppendReply(m)
ParseResponse(method, b) ==
    IF method \in RaftMethods THEN ParseRaftResponse(method, b)
    ELSE IF method = "Get" THEN ParseGetReply(b) ELSE ParsePutAppendReply(b)

-----------------------------------------------------------------------------
(* Bytes under way.                                                        *)

\* What a send or a read may take of the bytes there: all of them, or any beginning.
Beginnings(bytes) == {SubSeq(bytes, 1, n) : n \in 0 .. Len(bytes)}
Takes(piece, bytes) ==
    /\ piece # bytes => cuts < MaxCuts
    /\ cuts' = IF piece = bytes THEN cuts ELSE cuts + 1

\* What fits in recv_buf: everything, or up to the middle of the first value that is too long.
FirstPiece(bytes) ==
    LET long == {i \in DOMAIN bytes : bytes[i].long /\ bytes[i].half = 1}
    IN  IF long = {} THEN bytes ELSE SubSeq(bytes, 1, CHOOSE i \in long : \A j \in long : i <= j)

\* WriteVarint32: the length of the header.  The number of the call is history.
Prefix(size, id) ==
    [tag |-> <<0, "prefix">>, half |-> 0, val |-> size, long |-> FALSE, id |-> id]

\* The header and the arguments of each request, as bytes.
Serialized ==
    [m \in RaftMethods \cup KvMethods |-> [args \in Request[m] |->
        LET args_str == SerializeRequest(m, args)
        IN  [header |-> SerializeRpcHeader([service_name |-> ServiceOf(m), method_name |-> m,
                                            args_size |-> Len(args_str)]),
             args_str |-> args_str]]]

\* The bytes of a request: header length, header, arguments.
SendBuffer(method, args, id) ==
    LET request == Serialized[method][args]
    IN  <<Prefix(Len(request.header), id)>> \o request.header \o request.args_str

-----------------------------------------------------------------------------
(* MprpcChannel: a call of a stub.                                         *)

Idle == [pc |-> "returned", ch |-> None, method |-> None, args |-> None, id |-> 0,
         failed |-> FALSE, response |-> None, fd |-> None]

\* The thread holds m_clientFd_mutex of its channel.
Holds(c) == call[c].pc \in {"locked", "sent"}

Fd(c) == m_clientFd[call[c].ch]

\* raftRpcUtil, raftServerRpcUtil: a fresh MprpcController, then the stub.
Calls(c) ==
    /\ call[c].pc = "returned" /\ Len(issued) < MaxCalls
    /\ \E ch \in Channel, method \in RaftMethods \cup KvMethods : \E args \in Request[method] :
          /\ call' = [call EXCEPT ![c] = [Idle EXCEPT !.pc = "called", !.ch = ch, !.method = method,
                                                      !.args = args, !.id = Len(issued) + 1]]
          /\ issued' = Append(issued, [method |-> method, args |-> args])
    /\ UNCHANGED <<m_clientFd, opened, conn, server, cuts, ran>>

Locks(c) ==
    /\ call[c].pc = "called"
    /\ \A d \in Caller : Holds(d) => call[d].ch # call[c].ch
    /\ call' = [call EXCEPT ![c].pc = "locked"]
    /\ UNCHANGED <<m_clientFd, opened, conn, server, cuts, issued, ran>>

\* controller->SetFailed, and the call returns.
SetFailed(c) == call' = [call EXCEPT ![c].pc = "returned", ![c].failed = TRUE, ![c].fd = Fd(c)]

\* newConnect: the server accepts, or it is down and the connect fails.
newConnect(ch) ==
    LET new == <<ch, opened[ch]>>
    IN  /\ alive
        /\ opened' = [opened EXCEPT ![ch] = @ + 1]
        /\ m_clientFd' = [m_clientFd EXCEPT ![ch] = new]
        /\ conn' = [conn EXCEPT ![new].client = TRUE, ![new].server = TRUE]

Connects(c) ==
    /\ call[c].pc = "locked" /\ Fd(c) = None
    /\ \/ newConnect(call[c].ch) /\ UNCHANGED call
       \/ SetFailed(c) /\ UNCHANGED <<m_clientFd, opened, conn>>
    /\ UNCHANGED <<server, cuts, issued, ran>>

\* Variant for mutation: the descriptor is forgotten and stays open.
LeakFd(c) ==
    /\ m_clientFd' = [m_clientFd EXCEPT ![call[c].ch] = None]
    /\ UNCHANGED conn

\* close(m_clientFd); the bytes that were sent still reach the server.
CloseFd(c) ==
    /\ m_clientFd' = [m_clientFd EXCEPT ![call[c].ch] = None]
    /\ conn' = [conn EXCEPT ![Fd(c)].client = FALSE, ![Fd(c)].down = <<>>]

\* The send loop: all bytes are handed over, or an error or SO_SNDTIMEO cuts it short.  A
\* connection whose other end is gone may still take them.
Sends(c) ==
    LET bytes == SendBuffer(call[c].method, call[c].args, call[c].id)
        Hands(piece) == conn[Fd(c)].up \o IF conn[Fd(c)].server THEN piece ELSE <<>>
    IN  /\ call[c].pc = "locked" /\ Fd(c) # None
        /\ \/ /\ call' = [call EXCEPT ![c].pc = "sent"]
              /\ conn' = [conn EXCEPT ![Fd(c)].up = Hands(bytes)]
              /\ UNCHANGED <<m_clientFd, cuts>>
           \/ /\ SetFailed(c)
              /\ m_clientFd' = [m_clientFd EXCEPT ![call[c].ch] = None]
              /\ \E piece \in Beginnings(bytes) \ {bytes} :
                    /\ Takes(piece, bytes)
                    /\ conn' = [conn EXCEPT ![Fd(c)].client = FALSE, ![Fd(c)].down = <<>>,
                                            ![Fd(c)].up = Hands(piece)]
        /\ UNCHANGED <<opened, server, issued, ran>>

\* One recv, and what it got is parsed as the response.  A parse error leaves the
\* connection open, and so does a response of which only a part was read (split).
Receives(c) ==
    /\ call[c].pc = "sent"
    /\ \E got \in Beginnings(FirstPiece(conn[Fd(c)].down)) \ {<<>>} :
          /\ Takes(got, FirstPiece(conn[Fd(c)].down))
          /\ conn' = [conn EXCEPT ![Fd(c)].down = SubSeq(@, Len(got) + 1, Len(@)),
                                  ![Fd(c)].split = @ \/ got # conn[Fd(c)].down]
          /\ IF Parses(got)
             THEN call' = [call EXCEPT ![c].pc = "returned", ![c].fd = Fd(c),
                                       ![c].response = ParseResponse(call[c].method, got)]
             ELSE SetFailed(c)
    /\ UNCHANGED <<m_clientFd, opened, server, issued, ran>>

\* Variant for mutation: no SO_RCVTIMEO.
RecvNeverTimesOut(c) == conn[Fd(c)].down = <<>> /\ ~conn[Fd(c)].server

\* The receive timeout passes before any byte has come.
RecvTimeout(c) == conn[Fd(c)].down = <<>>

\* Variant for mutation: the connection is kept after a timeout.
ReceiveFailsKeepsFd(c) ==
    /\ call[c].pc = "sent" /\ RecvTimeout(c)
    /\ SetFailed(c)
    /\ UNCHANGED <<m_clientFd, conn, opened, server, cuts, issued, ran>>

\* The receive timeout, or the server is gone: the connection is closed.
ReceiveFails(c) ==
    /\ call[c].pc = "sent" /\ RecvTimeout(c)
    /\ CloseFd(c) /\ SetFailed(c)
    /\ UNCHANGED <<opened, server, cuts, issued, ran>>

-----------------------------------------------------------------------------
(* RpcProvider and ThreadPool.                                             *)

\* SendRpcResponse: the serialized answer goes out if the connection is still there.
SendRpcResponse(k, method, reply) ==
    LET response_str == SerializeResponse(method, reply)
    IN  [conn EXCEPT ![k].down = IF conn[k].client THEN @ \o response_str ELSE @]

\* service->CallMethod: the handler runs with the arguments and gives some answer.
Execution(msg, reply) ==
    [ran EXCEPT ![msg.id] = Append(@, [args |-> msg.args, whole |-> msg.whole, reply |-> reply])]

\* Variant for mutation: enqueue notifies nobody.
enqueueSilently(task) == m_tasks' = Append(m_tasks, task) /\ UNCHANGED notices

\* enqueue: the task is queued, then one worker is notified.
enqueue(task) == m_tasks' = Append(m_tasks, task) /\ notices' = notices + 1

\* Variant for mutation: that arguments are missing goes unnoticed too.
read_args_ignored(bytes, last) == TRUE

\* read_args_success: there are as many bytes as the header promised.
read_args_success(bytes, last) == last <= Len(bytes)

\* What OnMessage makes of the bytes it took: the call they hold, or None when what is there
\* of the header or the arguments does not parse, names nothing that is offered, or promises
\* more arguments than there are.  That the header is cut short is not noticed: the fields
\* that are missing have their defaults.  What follows the first request is not looked at.
\* The number of the call, and whether its header was whole, are history.
Decoded(bytes) ==
    IF Head(bytes).half # 0 THEN None
    ELSE LET header_str == SubSeq(bytes, 2, Min({1 + Head(bytes).val, Len(bytes)}))
             header == ParseRpcHeader(header_str)
             last == 1 + Len(header_str) + header.args_size
             args_str == SubSeq(bytes, 2 + Len(header_str), Min({last, Len(bytes)}))
         IN  IF /\ Parses(header_str)
                /\ read_args_success(bytes, last)
                /\ header.service_name \in DOMAIN m_serviceMap
                /\ header.method_name \in m_serviceMap[header.service_name]
                /\ Parses(args_str)
             THEN [method |-> header.method_name, args |-> ParseRequest(header.method_name, args_str),
                   id |-> Head(bytes).id, whole |-> Len(header_str) = Head(bytes).val]
             ELSE None

\* An IO thread takes what has arrived on a connection.  A call of raftRpc is executed at
\* once, one of kvServerRpc is left to the pool.
OnMessage(k) ==
    /\ alive /\ conn[k].server /\ conn[k].up # <<>>
    /\ \E bytes \in Beginnings(conn[k].up) \ {<<>>} :
          LET rest == SubSeq(conn[k].up, Len(bytes) + 1, Len(conn[k].up))
              msg == Decoded(bytes)
          IN  /\ Takes(bytes, conn[k].up)
              /\ \/ /\ msg = None
                    /\ conn' = [conn EXCEPT ![k].up = rest]
                    /\ UNCHANGED <<ran, m_tasks, notices>>
                 \/ /\ msg # None /\ msg.method \in RaftMethods
                    /\ \E reply \in Reply[msg.method] :
                          /\ ran' = Execution(msg, reply)
                          /\ conn' = [SendRpcResponse(k, msg.method, reply) EXCEPT ![k].up = rest]
                    /\ UNCHANGED <<m_tasks, notices>>
                 \/ /\ msg # None /\ msg.method \in KvMethods
                    /\ enqueue([conn |-> k, method |-> msg.method, args |-> msg.args, id |-> msg.id,
                                whole |-> msg.whole])
                    /\ conn' = [conn EXCEPT ![k].up = rest]
                    /\ UNCHANGED ran
    /\ UNCHANGED <<call, m_clientFd, opened, worker, alive, crashes, issued>>

\* OnConnection: the client has closed, and nothing is left to read.
OnConnection(k) ==
    /\ alive /\ conn[k].server /\ ~conn[k].client /\ conn[k].up = <<>>
    /\ conn' = [conn EXCEPT ![k].server = FALSE]
    /\ UNCHANGED <<call, m_clientFd, opened, server, cuts, issued, ran>>

Awake == [pc |-> "awake", task |-> None]
Asleep == [pc |-> "asleep", task |-> None]
Running(task) == [pc |-> "running", task |-> task]

\* notify_one, after the lock on the queue was released.
Notifies ==
    /\ notices > 0 /\ notices' = notices - 1
    /\ \/ \E w \in Worker : worker[w] = Asleep /\ worker' = [worker EXCEPT ![w] = Awake]
       \/ (\A w \in Worker : worker[w] # Asleep) /\ UNCHANGED worker
    /\ UNCHANGED <<call, m_clientFd, opened, conn, m_tasks, alive, crashes, cuts, issued, ran>>

\* A worker holds the lock on the queue: it takes the oldest task, or waits.
WorkerTakes(w) ==
    /\ alive /\ worker[w] = Awake
    /\ IF m_tasks = <<>>
       THEN worker' = [worker EXCEPT ![w] = Asleep] /\ UNCHANGED m_tasks
       ELSE worker' = [worker EXCEPT ![w] = Running(Head(m_tasks))] /\ m_tasks' = Tail(m_tasks)
    /\ UNCHANGED <<call, m_clientFd, opened, conn, notices, alive, crashes, cuts, issued, ran>>

\* The task: the handler and the answer, out of the lock.
WorkerRuns(w) ==
    /\ worker[w].pc = "running"
    /\ LET task == worker[w].task
       IN  \E reply \in Reply[task.method] :
              /\ ran' = Execution(task, reply)
              /\ conn' = SendRpcResponse(task.conn, task.method, reply)
    /\ worker' = [worker EXCEPT ![w] = Awake]
    /\ UNCHANGED <<call, m_clientFd, opened, m_tasks, notices, alive, crashes, cuts, issued>>

\* The server process ends: its connections are closed, its pool is gone.
Crash ==
    /\ alive /\ crashes < MaxCrashes
    /\ alive' = FALSE /\ crashes' = crashes + 1
    /\ conn' = [k \in Conn |-> [conn[k] EXCEPT !.server = FALSE, !.up = <<>>]]
    /\ m_tasks' = <<>> /\ notices' = 0 /\ worker' = [w \in Worker |-> Awake]
    /\ UNCHANGED <<call, m_clientFd, opened, cuts, issued, ran>>

\* Run: the provider listens again.
Run ==
    /\ ~alive /\ alive' = TRUE
    /\ UNCHANGED <<call, m_clientFd, opened, conn, m_tasks, notices, worker, crashes, cuts, issued, ran>>

-----------------------------------------------------------------------------
Closed == [client |-> FALSE, server |-> FALSE, up |-> <<>>, down |-> <<>>, split |-> FALSE]

\* The constructor of a channel with connectNow has connected, or all its tries failed;
\* the other channels connect with their first call.
Init ==
    /\ call = [c \in Caller |-> Idle]
    /\ \E now \in SUBSET Channel :
          /\ m_clientFd = [ch \in Channel |-> IF ch \in now THEN <<ch, 0>> ELSE None]
          /\ opened = [ch \in Channel |-> IF ch \in now THEN 1 ELSE 0]
          /\ conn = [k \in Conn |-> IF k[1] \in now /\ k[2] = 0
                                    THEN [Closed EXCEPT !.client = TRUE, !.server = TRUE] ELSE Closed]
    /\ m_tasks = <<>> /\ notices = 0 /\ worker = [w \in Worker |-> Asleep]
    /\ alive = TRUE /\ crashes = 0 /\ cuts = 0
    /\ issued = <<>> /\ ran = [id \in Id |-> <<>>]

CallerStep(c) == Locks(c) \/ Connects(c) \/ Sends(c) \/ Receives(c) \/ ReceiveFails(c)
WorkerStep(w) == WorkerTakes(w) \/ WorkerRuns(w)

Next ==
    \/ \E c \in Caller : Calls(c) \/ CallerStep(c)
    \/ \E k \in Conn : OnMessage(k) \/ OnConnection(k)
    \/ Notifies
    \/ \E w \in Worker : WorkerStep(w)
    \/ Crash \/ Run

\* The threads run, a mutex that is free again and again is got, the socket timeouts end
\* every recv, and the handlers end: they wait for consensus with a timeout of their own.
\* Nothing is assumed of the network, nor of the server process.
Fairness ==
    /\ \A c \in Caller : SF_vars(Locks(c)) /\ WF_vars(CallerStep(c))
    /\ WF_vars(Notifies)
    /\ \A w \in Worker : WF_vars(WorkerStep(w))

Spec == Init /\ [][Next]_vars /\ Fairness

-----------------------------------------------------------------------------
(* Properties.                                                             *)

\* The arguments that the missing bytes of a request stand for.
Defaults(method) == ParseRequest(method, <<>>)
Task == UNION {[conn : Conn, method : {m}, args : Request[m] \cup {Defaults(m)}, id : Id,
                whole : BOOLEAN] : m \in KvMethods}

\* The variables have their types.
TypeOK ==
    /\ \A c \in Caller : /\ call[c].pc \in {"called", "locked", "sent", "returned"}
                         /\ call[c].id \in 0 .. Len(issued)
                         /\ call[c].pc = "sent" => Fd(c) # None
    /\ \A ch \in Channel : /\ opened[ch] \in 0 .. MaxCalls + 1
                           /\ m_clientFd[ch] \in {None} \cup {<<ch, n>> : n \in 0 .. opened[ch] - 1}
    /\ \A k \in Conn : conn[k].client => m_clientFd[k[1]] = k
    /\ \A i \in DOMAIN m_tasks : m_tasks[i] \in Task
    /\ notices \in 0 .. MaxCalls /\ alive \in BOOLEAN

\* A handler runs at most once for each call, and with the arguments that its caller passed,
\* wherever the bytes of the request were cut - except that after a read which ends right
\* behind the method name it runs with the defaults (OnMessage).
ExecutesAsSent ==
    \A id \in Id :
        /\ Len(ran[id]) <= 1
        /\ \A i \in DOMAIN ran[id] :
               ran[id][i].args = IF ran[id][i].whole THEN issued[id].args ELSE Defaults(issued[id].method)

\* A call that succeeds was executed, and returns the answer to this very call, never one
\* that came late or that another call on the connection was waiting for - unless a recv
\* on the connection has got only a part of a reply (CallMethod).
OwnReply ==
    \A c \in Caller : (call[c].pc = "returned" /\ call[c].id # 0 /\ ~call[c].failed /\ ~conn[call[c].fd].split)
        => /\ ran[call[c].id] # <<>>
           /\ call[c].response = ran[call[c].id][1].reply

\* CallMethod returns, whatever becomes of the request, the answer and the server: the
\* calls that wait for the channel and for the server all end.
CallsReturn ==
    (\E c \in Caller : call[c].pc # "returned") ~> (\A c \in Caller : call[c].pc = "returned")

\* The pool has work: a task is queued or runs.
Busy == m_tasks # <<>> \/ \E w \in Worker : worker[w].pc = "running"

\* ThreadPool: no task is left in the queue while the workers sleep; the pool runs them
\* all (or dies with its server).
TasksRun == Busy ~> ~Busy
=============================================================================
