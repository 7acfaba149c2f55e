------------------------------ MODULE KvProofs ------------------------------
(***************************************************************************)
(* The KV server and its Clerks: every write that a Clerk was told has     *)
(* been executed is in the log; and further down, what replicas, snapshots *)
(* and reads have to do with the log.                                      *)
(*                                                                         *)
(* OK is answered for two reasons: the wait channel has delivered the      *)
(* request, or the duplicate table covers its number.  A table knows no    *)
(* request that its Clerk has not made, and covers the Clerk's current     *)
(* write only once that is in the log (Tables); a Clerk goes on to the     *)
(* next request only when the last one was answered, so an older write is  *)
(* in the log already (Settled), and number and client name one operation  *)
(* (OfClerk), whatever retries and late threads are about.                 *)
(***************************************************************************)
EXTENDS KvServer, SequenceTheorems, FiniteSetTheorems, WellFoundedInduction, TLAPS

IsWrite(op) == op.kind \in {"Put", "Append"}

InLog(op) == \E k \in 1 .. Len(log) : log[k] = op

\* An operation that its Clerk has made: the current one, or an earlier one.
OfClerk(op) ==
    /\ op.request >= 1 /\ op.request <= clerk[op.client].request
    /\ op.request = clerk[op.client].request => op = clerk[op.client].op

\* The Clerk has gone on from a write only when it was in the log.
Settled(op) == IsWrite(op) /\ op.request < clerk[op.client].request => InLog(op)

Clerks ==
    \A c \in Client :
        /\ clerk[c].call <= issued
        /\ clerk[c].request = 0 => clerk[c].op = Noop /\ clerk[c].call = NoCall
        /\ clerk[c].request > 0 => /\ clerk[c].op \in Operation /\ clerk[c].op.client = c
                                   /\ clerk[c].op.request = clerk[c].request
        /\ clerk[c].call = NoCall /\ IsWrite(clerk[c].op) => clerk[c].op \in acked

Calls ==
    \A call \in calls :
        /\ OfClerk(call.op) /\ Settled(call.op)
        /\ call.id >= 1 /\ call.id <= issued
        /\ clerk[call.op.client].call = call.id => call.op = clerk[call.op.client].op
        /\ call.phase = "reading" => call.op.kind = "Get"
        /\ \A k \in 1 .. Len(call.got) : InLog(call.got[k])

Accepted ==
    /\ \A p \in proposed : OfClerk(p.op)
    /\ \A k \in 1 .. Len(log) : log[k] = Noop \/ OfClerk(log[k])

\* A duplicate table: no number that the Clerk has not reached, and the
\* current one only when it stands for a read or for a write in the log.
Table(m) ==
    \A c \in Client :
        /\ m.last[c] <= clerk[c].request
        /\ m.last[c] = clerk[c].request /\ IsWrite(clerk[c].op) => InLog(clerk[c].op)

Tables ==
    \A i \in Server :
        /\ Table(machine[i]) /\ Table(snapshot[i].state)
        /\ \A s \in incoming[i] : Table(s.state)
        /\ \A k \in 1 .. Len(applyChan[i]) :
              /\ applyChan[i][k].type = "command" => InLog(applyChan[i][k].op)
              /\ applyChan[i][k].type = "snapshot" => Table(applyChan[i][k].state)

KvInv == TypeOK /\ Clerks /\ Calls /\ Accepted /\ Tables /\ AckedCommitted /\ replay # <<>>

-----------------------------------------------------------------------------
(***************************************************************************)
(* Types.                                                                  *)
(***************************************************************************)
\* A set of naturals has a least element, and a greatest if it is bounded.
LEMMA LeastElement ==
    ASSUME NEW S \in SUBSET Nat, S # {}
    PROVE  \E k \in S : \A l \in S : k <= l
  <1> DEFINE R == OpToRel(<, Nat)
  <1>1. IsWellFoundedOn(R, Nat)
    BY NatLessThanWellFounded, Zenon
  <1>2. \A x, y \in Nat : x < y => <<x, y>> \in R
    BY DEF OpToRel
  <1> HIDE DEF R
  <1>3. PICK k \in S : \A l \in S : ~ (<<l, k>> \in R)
    BY <1>1, WFMin
  <1>4. \A l \in S : ~ (l < k)
    BY <1>2, <1>3
  <1> QED
    BY <1>4

\* A bounded set of naturals has a greatest element.
LEMMA GreatestElement ==
    ASSUME NEW S \in SUBSET Nat, S # {}, NEW n \in Nat, \A k \in S : k <= n
    PROVE  \E k \in S : \A l \in S : l <= k
  <1> DEFINE B == {m \in Nat : \A k \in S : k <= m}
  <1>1. n \in B
    OBVIOUS
  <1>2. PICK m \in B : \A l \in B : m <= l
    BY <1>1, LeastElement
  <1>3. m \in S
    <2> SUFFICES ASSUME m \notin S PROVE FALSE
      OBVIOUS
    <2>1. \A k \in S : k < m
      BY <1>2
    <2>2. m - 1 \in Nat /\ \A k \in S : k <= m - 1
      <3>1. PICK k \in S : TRUE
        OBVIOUS
      <3>2. k \in Nat /\ m \in Nat /\ k < m
        BY <1>2, <2>1, <3>1
      <3> QED
        BY <2>1, <3>2
    <2>3. m - 1 \in B
      BY <2>2
    <2> QED
      BY <1>2, <2>2, <2>3
  <1> QED
    BY <1>2, <1>3

\* The floor of a read is an index.
LEMMA AckedIndexType ==
    ASSUME TypeOK
    PROVE  AckedIndex \in Nat /\ AckedIndex <= Len(log)
  <1> DEFINE first(op) == CHOOSE k \in DOMAIN log : log[k] = op /\ \A l \in 1 .. k - 1 : log[l] # op
             indexes == {0} \cup {first(op) : op \in acked \cap {log[k] : k \in DOMAIN log}}
  <1>1. log \in Seq(Entry)
    BY DEF TypeOK
  <1>2. DOMAIN log = 1 .. Len(log) /\ Len(log) \in Nat
    BY <1>1, LenProperties
  <1>3. ASSUME NEW op \in {log[k] : k \in DOMAIN log}
        PROVE  first(op) \in 1 .. Len(log)
    <2> DEFINE S == {k \in 1 .. Len(log) : log[k] = op}
    <2>1. S \in SUBSET Nat /\ S # {}
      BY <1>2
    <2>2. PICK k \in S : \A l \in S : k <= l
      BY <2>1, LeastElement
    <2>3. \A l \in 1 .. k - 1 : log[l] # op
      BY <1>2, <2>1, <2>2
    <2>4. k \in DOMAIN log /\ log[k] = op
      BY <1>2, <2>2
    <2> QED
      BY <1>2, <2>3, <2>4
  <1>4. indexes \in SUBSET Nat /\ 0 \in indexes /\ \A k \in indexes : k <= Len(log)
    <2> HIDE DEF first
    <2> QED
      BY <1>2, <1>3
  <1> HIDE DEF indexes
  <1>5. \E k \in indexes : \A l \in indexes : l <= k
    BY <1>2, <1>4, GreatestElement
  <1>6. (CHOOSE k \in indexes : \A l \in indexes : l <= k) \in indexes
    BY <1>5
  <1>7. AckedIndex = CHOOSE k \in indexes : \A l \in indexes : l <= k
    BY DEF AckedIndex, indexes
  <1> QED
    BY <1>4, <1>6, <1>7

\* What the state machine does to a state.
LEMMA MachineTypes ==
    /\ Fresh \in State
    /\ \A m \in State, op \in Operation :
          /\ ExecutePut(m, op) \in State /\ ExecuteAppend(m, op) \in State
          /\ ExecuteGet(m, op) \in State
    /\ \A m \in State, op \in Entry : Execute(m, op) \in State /\ Replayed(m, op) \in State
  <1> DEFINE Write == [client : Client, request : Nat]
  <1>1. Fresh \in State
    <2>1. <<>> \in Seq(Write)
      OBVIOUS
    <2> QED
      BY <2>1 DEF Fresh, State
  <1>2. ASSUME NEW m \in State, NEW op \in Operation
        PROVE  /\ ExecutePut(m, op) \in State /\ ExecuteAppend(m, op) \in State
               /\ ExecuteGet(m, op) \in State
    <2>1. op.key \in Key /\ op.client \in Client /\ op.request \in Nat
      BY DEF Operation
    <2>2. /\ m.db \in [Key -> Seq(Write)] /\ m.last \in [Client -> Nat]
          /\ m = [db |-> m.db, last |-> m.last]
      BY DEF State
    <2>3. [client |-> op.client, request |-> op.request] \in Write
      BY <2>1
    <2>4. [m.last EXCEPT ![op.client] = op.request] \in [Client -> Nat]
      BY <2>1, <2>2
    <2>5. <<[client |-> op.client, request |-> op.request]>> \in Seq(Write)
      BY <2>3
    <2>6. Append(m.db[op.key], [client |-> op.client, request |-> op.request]) \in Seq(Write)
      <3>1. m.db[op.key] \in Seq(Write)
        BY <2>1, <2>2
      <3> QED
        BY <2>3, <3>1, AppendProperties
    <2> HIDE DEF Write
    <2>7. ExecutePut(m, op) \in State
      BY <2>1, <2>2, <2>4, <2>5 DEF ExecutePut, State, Write
    <2>8. ExecuteAppend(m, op) \in State
      BY <2>1, <2>2, <2>4, <2>6 DEF ExecuteAppend, State, Write
    <2>9. ExecuteGet(m, op) \in State
      BY <2>1, <2>2, <2>4 DEF ExecuteGet, State, Write
    <2> QED
      BY <2>7, <2>8, <2>9
  <1>3. ASSUME NEW m \in State, NEW op \in Entry
        PROVE  Execute(m, op) \in State /\ Replayed(m, op) \in State
    <2>1. op \in Operation \/ (op = Noop /\ op.kind = "Noop")
      BY DEF Entry, Noop
    <2>2. \/ Execute(m, op) = m
          \/ op.kind \in {"Put", "Append"} /\ Execute(m, op) \in {ExecutePut(m, op), ExecuteAppend(m, op)}
      BY DEF Execute
    <2>3. \/ Replayed(m, op) = m
          \/ op.kind \in {"Put", "Append"} /\ Replayed(m, op) \in {ExecutePut(m, op), ExecuteAppend(m, op)}
      BY DEF Replayed
    <2> QED
      BY <1>2, <2>1, <2>2, <2>3
  <1> QED
    BY <1>1, <1>2, <1>3

\* The initial state is well typed.
LEMMA InitTypes == Init => TypeOK
  <1> SUFFICES ASSUME Init PROVE TypeOK
    OBVIOUS
  <1>1. 0 \in Server
    BY SizesAreNat DEF Server
  <1>2. Fresh \in State
    BY MachineTypes
  <1>3. Noop \in Entry
    BY DEF Entry
  <1>4. /\ log \in Seq(Entry) /\ replay \in Seq(State)
        /\ applyChan \in [Server -> Seq(Message)]
    BY <1>2 DEF Init
  <1>5. snapshot \in [Server -> SnapshotFile] /\ machine \in [Server -> State]
        /\ incoming \in [Server -> SUBSET SnapshotFile]
    BY <1>2 DEF Init, SnapshotFile
  <1>6. clerk \in [Client -> [request : Nat, recent : Server, server : Server, call : Nat,
                              op : Entry, floor : Nat]]
    BY <1>1, <1>3 DEF Init, NoCall
  <1> QED
    BY <1>4, <1>5, <1>6 DEF Init, TypeOK

\* The threads that handle a request change only where they are.
LEMMA CallTypes ==
    ASSUME NEW call \in Call
    PROVE  /\ call.id \in Nat /\ call.op \in Operation /\ call.server \in Server
           /\ call.index \in Nat /\ call.got \in Seq(Entry)
           /\ call.phase \in {"sent", "reading", "started", "waiting"}
           /\ \A phase \in {"sent", "reading", "started", "waiting"}, index \in Nat :
                 [call EXCEPT !.phase = phase, !.index = index] \in Call
           /\ [call EXCEPT !.phase = "waiting"] \in Call
           /\ \A op \in Entry : [call EXCEPT !.got = Append(@, op)] \in Call
  <1>1. /\ call.id \in Nat /\ call.op \in Operation /\ call.server \in Server
        /\ call.index \in Nat /\ call.got \in Seq(Entry)
        /\ call.phase \in {"sent", "reading", "started", "waiting"}
    BY DEF Call
  <1>2. \A phase \in {"sent", "reading", "started", "waiting"}, index \in Nat :
                 [call EXCEPT !.phase = phase, !.index = index] \in Call
    BY DEF Call
  <1>3. [call EXCEPT !.phase = "waiting"] \in Call
    BY DEF Call
  <1>4. ASSUME NEW op \in Entry
        PROVE  [call EXCEPT !.got = Append(@, op)] \in Call
    <2>1. Append(call.got, op) \in Seq(Entry)
      BY <1>1, AppendProperties
    <2> QED
      BY <2>1 DEF Call
  <1> QED
    BY <1>1, <1>2, <1>3, <1>4

ClerkState == [request : Nat, recent : Server, server : Server, call : Nat, op : Entry, floor : Nat]

\* The Clerk begins a request or repeats it.
LEMMA ClerkTypes ==
    ASSUME TypeOK, NEW c \in Client,
           \/ \E kind \in Kinds, key \in Key : Request(c, kind, key)
           \/ Retry(c) /\ clerk[c].op \in Operation
    PROVE  TypeOK'
  <1>0. /\ clerk \in [Client -> ClerkState] /\ calls \subseteq Call /\ issued \in Nat
    BY DEF TypeOK, ClerkState
  <1>1. /\ clerk[c].request \in Nat /\ clerk[c].recent \in Server /\ clerk[c].server \in Server
        /\ clerk[c].call \in Nat /\ clerk[c].op \in Entry /\ clerk[c].floor \in Nat
        /\ clerk[c] \in ClerkState
    BY <1>0 DEF ClerkState
  <1>2. \A op \in Operation, server \in Server : NewCall(op, server) \in Call
    BY <1>0 DEF NewCall, Call
  <1>3. ASSUME NEW kind \in Kinds, NEW key \in Key, Request(c, kind, key)
        PROVE  TypeOK'
    <2> DEFINE op == [kind |-> kind, key |-> key, client |-> c, request |-> clerk[c].request + 1]
    <2>1. op \in Operation /\ op.request \in Nat
      BY <1>1 DEF Operation
    <2>2. /\ issued' = issued + 1 /\ calls' = calls \cup {NewCall(op, clerk[c].recent)}
          /\ clerk' = [clerk EXCEPT ![c] =
               [request |-> op.request, recent |-> clerk[c].recent, server |-> clerk[c].recent,
                call |-> issued', op |-> op, floor |-> AckedIndex]]
          /\ UNCHANGED <<raftVars, serverVars, acked, answers, replay, restarts, installs>>
      BY <1>3 DEF Request
    <2> HIDE DEF op
    <2>3. AckedIndex \in Nat
      BY AckedIndexType
    <2>4. op \in Entry
      BY <2>1 DEF Entry
    <2>5. [request |-> op.request, recent |-> clerk[c].recent, server |-> clerk[c].recent,
           call |-> issued', op |-> op, floor |-> AckedIndex] \in ClerkState
      BY <1>0, <1>1, <2>1, <2>2, <2>3, <2>4 DEF ClerkState
    <2>6. clerk' \in [Client -> ClerkState]
      BY <1>0, <2>2, <2>5
    <2>7. calls' \subseteq Call /\ issued' \in Nat
      BY <1>0, <1>1, <1>2, <2>1, <2>2
    <2> QED
      BY <2>2, <2>6, <2>7 DEF TypeOK, ClerkState, raftVars, serverVars
  <1>4. ASSUME Retry(c), clerk[c].op \in Operation
        PROVE  TypeOK'
    <2> DEFINE server == NextServer(clerk[c].server)
    <2>1. server \in Server
      BY <1>1, SizesAreNat DEF NextServer, Server
    <2>2. /\ issued' = issued + 1 /\ calls' = calls \cup {NewCall(clerk[c].op, server)}
          /\ clerk' = [clerk EXCEPT ![c].server = server, ![c].call = issued']
          /\ UNCHANGED <<raftVars, serverVars, acked, answers, replay, restarts, installs>>
      BY <1>4 DEF Retry
    <2> HIDE DEF server
    <2>3. issued' \in Nat /\ calls' \subseteq Call
      BY <1>0, <1>2, <1>4, <2>1, <2>2
    <2>4. clerk' \in [Client -> ClerkState]
      BY <1>0, <2>1, <2>2, <2>3 DEF ClerkState
    <2> QED
      BY <2>2, <2>3, <2>4 DEF TypeOK, ClerkState, raftVars, serverVars
  <1> QED
    BY <1>3, <1>4

\* A thread answers, or says that it is not the leader.
LEMMA AnswerTypes ==
    ASSUME TypeOK, NEW call \in calls, Answer(call) \/ Refuse(call)
    PROVE  /\ calls' \subseteq Call /\ clerk' \in [Client -> ClerkState]
           /\ acked' \subseteq Operation
           /\ answers' \subseteq [op : Operation, floor : Nat, served : Nat]
           /\ issued' \in Nat
  <1>0. /\ clerk \in [Client -> ClerkState] /\ calls \subseteq Call /\ issued \in Nat
        /\ acked \subseteq Operation /\ position \in [Server -> Nat]
        /\ answers \subseteq [op : Operation, floor : Nat, served : Nat]
    BY DEF TypeOK, ClerkState
  <1>1. call.op \in Operation /\ call.server \in Server
    BY <1>0, CallTypes
  <1>2. call.op.client \in Client
    BY <1>1 DEF Operation
  <1>3. CASE Refuse(call)
    BY <1>0, <1>3 DEF Refuse
  <1>4. CASE Answer(call)
    <2> DEFINE c == call.op.client
    <2>1. clerk[c] \in ClerkState /\ clerk[c].floor \in Nat
      BY <1>0, <1>2 DEF ClerkState
    <2>2. calls' \subseteq Call /\ issued' \in Nat
      BY <1>0, <1>4 DEF Answer
    <2>3. acked' \subseteq Operation
      BY <1>0, <1>1, <1>4 DEF Answer
    <2>4. answers' \subseteq [op : Operation, floor : Nat, served : Nat]
      <3>1. [op |-> call.op, floor |-> clerk[c].floor, served |-> position[call.server]]
              \in [op : Operation, floor : Nat, served : Nat]
        BY <1>0, <1>1, <2>1
      <3>2. \/ answers' = answers
            \/ answers' = answers \cup {[op |-> call.op, floor |-> clerk[c].floor,
                                         served |-> position[call.server]]}
        BY <1>4 DEF Answer
      <3> QED
        BY <1>0, <3>1, <3>2
    <2>5. clerk' \in [Client -> ClerkState]
      <3>1. \/ clerk' = clerk
            \/ clerk' = [clerk EXCEPT ![c].call = NoCall, ![c].recent = call.server]
            \/ clerk' = [clerk EXCEPT ![c].call = NoCall, ![c].recent = clerk[c].recent]
        <4>1. CASE clerk[c].call = call.id
          BY <1>4, <4>1 DEF Answer
        <4>2. CASE clerk[c].call # call.id
          BY <1>4, <4>2 DEF Answer
        <4> QED
          BY <4>1, <4>2
      <3>2. clerk[c].recent \in Server /\ NoCall \in Nat
        BY <2>1 DEF ClerkState, NoCall
      <3> HIDE DEF c
      <3>3. c \in Client
        BY <1>2 DEF c
      <3> QED
        BY <1>0, <1>1, <2>1, <3>1, <3>2, <3>3 DEF ClerkState
    <2> QED
      BY <2>2, <2>3, <2>4, <2>5
  <1> QED
    BY <1>3, <1>4

\* The RPC handlers keep the types.
LEMMA HandlerTypes ==
    ASSUME TypeOK, NEW call \in calls,
           \/ Start(call) \/ NotLeader(call) \/ Listen(call) \/ Popped(call) \/ TimedOut(call)
           \/ ReadIndex(call) \/ ReadOnlyGet(call)
    PROVE  TypeOK'
  <1>0. /\ calls \subseteq Call /\ given \in [Server -> Nat] /\ machine \in [Server -> State]
        /\ lastApplied \in [Server -> Nat] /\ log \in Seq(Entry)
        /\ proposed \subseteq [index : Nat, op : Operation]
    BY DEF TypeOK
  <1>1. /\ call \in Call /\ call.op \in Operation /\ call.server \in Server
    BY <1>0, CallTypes
  <1>2. Len(log) \in Nat
    BY <1>0, LenProperties
  <1>3. CASE Start(call)
    <2>1. PICK index \in (lastApplied[call.server] + 1 .. Len(log) + 1) \cup {given[call.server] + 1} :
            /\ given' = [given EXCEPT ![call.server] = index]
            /\ proposed' = IF index > Len(log)
                           THEN proposed \cup {[index |-> index, op |-> call.op]}
                           ELSE proposed
            /\ calls' = (calls \ {call}) \cup
                 {[call EXCEPT !.phase = "started", !.index = index]}
      BY <1>3 DEF Start
    <2>2. index \in Nat
      BY <1>0, <1>1, <1>2
    <2>3. given' \in [Server -> Nat]
      BY <1>0, <2>1, <2>2
    <2>4. proposed' \subseteq [index : Nat, op : Operation]
      BY <1>0, <1>1, <2>1, <2>2
    <2>5. calls' \subseteq Call
      BY <1>0, <1>1, <2>1, <2>2, CallTypes
    <2> QED
      BY <1>3, <2>3, <2>4, <2>5 DEF TypeOK, Start, serverVars
  <1>4. CASE NotLeader(call)
    BY <1>4, AnswerTypes DEF TypeOK, ClerkState, NotLeader, raftVars, serverVars
  <1>5. CASE Listen(call)
    <2>1. calls' \subseteq Call
      BY <1>0, <1>1, <1>5, CallTypes DEF Listen
    <2> QED
      BY <1>5, <2>1 DEF TypeOK, Listen, raftVars, serverVars
  <1>6. CASE ReadIndex(call)
    <2>1. calls' \subseteq Call
      BY <1>0, <1>1, <1>2, <1>6, CallTypes DEF ReadIndex
    <2> QED
      BY <1>6, <2>1 DEF TypeOK, ReadIndex, raftVars, serverVars
  <1>7. CASE ReadOnlyGet(call)
    BY <1>7, AnswerTypes DEF TypeOK, ClerkState, ReadOnlyGet, raftVars, serverVars
  <1>8. CASE Popped(call) \/ TimedOut(call)
    <2>1. /\ Answer(call) \/ Refuse(call)
          /\ ServeGet(call) \/ UNCHANGED serverVars
          /\ UNCHANGED <<raftVars, replay, restarts, installs>>
      BY <1>8 DEF Popped, TimedOut
    <2>2. machine' \in [Server -> State]
      <3>1. ExecuteGet(machine[call.server], call.op) \in State
        BY <1>0, <1>1, MachineTypes
      <3> QED
        BY <1>0, <2>1, <3>1 DEF ServeGet, serverVars
    <2>3. UNCHANGED <<applyChan, lastSnapshot, position>>
      BY <2>1 DEF ServeGet, serverVars
    <2> QED
      BY <2>1, <2>2, <2>3, AnswerTypes DEF TypeOK, ClerkState, raftVars
  <1> QED
    BY <1>3, <1>4, <1>5, <1>6, <1>7, <1>8

\* The Raft layer and a restart keep the types.
LEMMA RaftTypes ==
    ASSUME TypeOK, replay # <<>>,
           \/ \E op \in {p.op : p \in proposed} \cup {Noop} : Commit(op)
           \/ \E i \in Server :
                 \/ applierTicker(i) \/ \E from \in Server : InstallSnapshot(i, from)
                 \/ pushMsgToKvServer(i) \/ Restart(i)
    PROVE  TypeOK'
  <1>0. /\ calls \subseteq Call /\ lastApplied \in [Server -> Nat] /\ log \in Seq(Entry)
        /\ proposed \subseteq [index : Nat, op : Operation] /\ replay \in Seq(State)
        /\ snapshot \in [Server -> SnapshotFile] /\ incoming \in [Server -> SUBSET SnapshotFile]
        /\ applyChan \in [Server -> Seq(Message)] /\ machine \in [Server -> State]
        /\ lastSnapshot \in [Server -> Nat] /\ position \in [Server -> Nat]
        /\ restarts \in Nat /\ installs \in Nat
    BY DEF TypeOK
  <1>1. ASSUME NEW op \in {p.op : p \in proposed} \cup {Noop}, Commit(op)
        PROVE  TypeOK'
    <2>1. op \in Entry
      BY <1>0 DEF Entry
    <2>2. /\ log' = Append(log, op) /\ proposed' \subseteq proposed
          /\ replay' = Append(replay, Replayed(replay[Len(replay)], op))
      BY <1>1 DEF Commit
    <2>3. log' \in Seq(Entry)
      BY <1>0, <2>1, <2>2, AppendProperties
    <2>4. Len(replay) \in 1 .. Len(replay) /\ replay[Len(replay)] \in State
      <3>1. Len(replay) \in Nat /\ Len(replay) # 0
        BY <1>0, LenProperties, EmptySeq
      <3>2. Len(replay) \in 1 .. Len(replay)
        BY <3>1
      <3> QED
        BY <1>0, <3>2, ElementOfSeq
    <2>5. replay' \in Seq(State)
      BY <1>0, <2>1, <2>2, <2>4, MachineTypes, AppendProperties
    <2> QED
      BY <1>0, <1>1, <2>2, <2>3, <2>5 DEF TypeOK, Commit, serverVars, clientVars
  <1>2. ASSUME NEW i \in Server, applierTicker(i)
        PROVE  TypeOK'
    <2>1. Len(log) \in Nat /\ lastApplied[i] + 1 \in 1 .. Len(log)
      <3>1. Len(log) \in Nat
        BY <1>0, LenProperties
      <3> QED
        BY <1>0, <1>2, <3>1 DEF applierTicker
    <2>2. log[lastApplied[i] + 1] \in Entry
      BY <1>0, <2>1, ElementOfSeq
    <2>3. lastApplied' = [lastApplied EXCEPT ![i] = lastApplied[i] + 1]
      BY <1>2 DEF applierTicker
    <2>4. lastApplied' \in [Server -> Nat] /\ lastApplied'[i] = lastApplied[i] + 1
      BY <1>0, <2>3
    <2> DEFINE message == [type |-> "command", index |-> lastApplied'[i], op |-> log[lastApplied'[i]]]
    <2>5. message \in Message
      BY <2>2, <2>4 DEF Message
    <2>6. applyChan' = [applyChan EXCEPT ![i] = Append(applyChan[i], message)]
      BY <1>2 DEF applierTicker
    <2> HIDE DEF message
    <2>7. Append(applyChan[i], message) \in Seq(Message)
      BY <1>0, <2>5, AppendProperties
    <2>8. applyChan' \in [Server -> Seq(Message)]
      BY <1>0, <2>6, <2>7
    <2> QED
      BY <1>2, <2>4, <2>8 DEF TypeOK, applierTicker, clientVars
  <1>3. ASSUME NEW i \in Server, NEW from \in Server, InstallSnapshot(i, from)
        PROVE  TypeOK'
    <2>1. snapshot[from] \in SnapshotFile /\ snapshot[from].index \in Nat
      BY <1>0 DEF SnapshotFile
    <2>2. snapshot' \in [Server -> SnapshotFile]
      BY <1>0, <1>3, <2>1 DEF InstallSnapshot
    <2>3. lastApplied' \in [Server -> Nat]
      BY <1>0, <1>3, <2>1 DEF InstallSnapshot
    <2>4. incoming' \in [Server -> SUBSET SnapshotFile]
      BY <1>0, <1>3, <2>1 DEF InstallSnapshot
    <2>5. installs' \in Nat
      BY <1>0, <1>3 DEF InstallSnapshot
    <2> QED
      BY <1>3, <2>2, <2>3, <2>4, <2>5 DEF TypeOK, InstallSnapshot, serverVars, clientVars
  <1>4. ASSUME NEW i \in Server, pushMsgToKvServer(i)
        PROVE  TypeOK'
    <2>1. PICK s \in incoming[i], k \in 0 .. Len(applyChan[i]) :
            /\ incoming' = [incoming EXCEPT ![i] = @ \ {s}]
            /\ applyChan' = [applyChan EXCEPT ![i] =
               SubSeq(@, 1, k) \o <<[type |-> "snapshot", index |-> s.index, state |-> s.state]>>
                 \o SubSeq(@, k + 1, Len(@))]
      BY <1>4 DEF pushMsgToKvServer
    <2> DEFINE ch == applyChan[i]
               message == [type |-> "snapshot", index |-> s.index, state |-> s.state]
               new == SubSeq(ch, 1, k) \o <<message>> \o SubSeq(ch, k + 1, Len(ch))
    <2>2. s \in SnapshotFile
      BY <1>0
    <2>3. message \in Message
      BY <2>2 DEF SnapshotFile, Message
    <2>4. ch \in Seq(Message) /\ Len(ch) \in Nat /\ k \in Nat /\ k <= Len(ch)
      <3>1. ch \in Seq(Message)
        BY <1>0
      <3>2. Len(ch) \in Nat
        BY <3>1, LenProperties
      <3> QED
        BY <3>1, <3>2
    <2> HIDE DEF ch, message
    <2>5. SubSeq(ch, 1, k) \in Seq(Message)
      BY <2>4
    <2>6. SubSeq(ch, k + 1, Len(ch)) \in Seq(Message)
      BY <2>4
    <2>7. new \in Seq(Message)
      <3>1. <<message>> \in Seq(Message)
        BY <2>3
      <3> QED
        BY <2>5, <2>6, <3>1, ConcatProperties
    <2> HIDE DEF new
    <2>8. applyChan' = [applyChan EXCEPT ![i] = new]
      BY <2>1 DEF new, ch, message
    <2>9. applyChan' \in [Server -> Seq(Message)]
      BY <1>0, <2>7, <2>8
    <2>10. incoming' \in [Server -> SUBSET SnapshotFile]
      BY <1>0, <2>1
    <2> QED
      BY <1>4, <2>9, <2>10 DEF TypeOK, pushMsgToKvServer, clientVars
  <1>5. ASSUME NEW i \in Server, Restart(i)
        PROVE  TypeOK'
    <2>1. snapshot[i].index \in Nat /\ snapshot[i].state \in State
      BY <1>0 DEF SnapshotFile
    <2>2. lastApplied' \in [Server -> Nat] /\ lastSnapshot' \in [Server -> Nat]
          /\ position' \in [Server -> Nat]
      BY <1>0, <1>5, <2>1 DEF Restart
    <2>3. machine' \in [Server -> State]
      BY <1>0, <1>5, <2>1 DEF Restart
    <2>4. incoming' \in [Server -> SUBSET SnapshotFile]
      BY <1>0, <1>5 DEF Restart
    <2>5. applyChan' \in [Server -> Seq(Message)]
      <3>1. <<>> \in Seq(Message)
        OBVIOUS
      <3> QED
        BY <1>0, <1>5, <3>1 DEF Restart
    <2>6. calls' \subseteq Call /\ restarts' \in Nat
      BY <1>0, <1>5 DEF Restart
    <2> QED
      BY <1>5, <2>2, <2>3, <2>4, <2>5, <2>6 DEF TypeOK, Restart
  <1> QED
    BY <1>1, <1>2, <1>3, <1>4, <1>5

\* What the apply loop takes from its channel.
LEMMA HeadMessage ==
    ASSUME TypeOK, NEW i \in Server, applyChan[i] # <<>>
    PROVE  /\ Head(applyChan[i]) = applyChan[i][1] /\ Head(applyChan[i]) \in Message
           /\ Tail(applyChan[i]) \in Seq(Message)
           /\ 1 \in 1 .. Len(applyChan[i])
           /\ \A k \in 1 .. Len(Tail(applyChan[i])) :
                 k + 1 \in 1 .. Len(applyChan[i]) /\ Tail(applyChan[i])[k] = applyChan[i][k + 1]
  <1> DEFINE ch == applyChan[i]
  <1>1. ch \in Seq(Message) /\ ch # <<>>
    BY DEF TypeOK
  <1> HIDE DEF ch
  <1>2. Len(ch) \in Nat /\ Len(ch) # 0
    BY <1>1, LenProperties, EmptySeq
  <1>3. 1 \in 1 .. Len(ch)
    BY <1>2
  <1>4. Head(ch) = ch[1] /\ Head(ch) \in Message /\ Tail(ch) \in Seq(Message)
    BY <1>1, <1>3, ElementOfSeq
  <1>5. \A k \in 1 .. Len(Tail(ch)) : k + 1 \in 1 .. Len(ch) /\ Tail(ch)[k] = ch[k + 1]
    BY <1>1, <1>2, HeadTailProperties
  <1> QED
    BY <1>3, <1>4, <1>5 DEF ch

\* The apply loop keeps the types.
LEMMA ApplyTypes ==
    ASSUME TypeOK, NEW i \in Server, ReadRaftApplyCommandLoop(i)
    PROVE  TypeOK'
  <1>0. /\ calls \subseteq Call /\ snapshot \in [Server -> SnapshotFile]
        /\ applyChan \in [Server -> Seq(Message)] /\ machine \in [Server -> State]
        /\ lastSnapshot \in [Server -> Nat] /\ position \in [Server -> Nat]
    BY DEF TypeOK
  <1> DEFINE message == Head(applyChan[i])
  <1>1. applyChan[i] # <<>> /\ applyChan' = [applyChan EXCEPT ![i] = Tail(applyChan[i])]
    BY DEF ReadRaftApplyCommandLoop
  <1>2. message \in Message /\ Tail(applyChan[i]) \in Seq(Message)
    BY <1>1, HeadMessage
  <1>3. applyChan' \in [Server -> Seq(Message)]
    BY <1>0, <1>1, <1>2
  <1>4. GetCommandFromRaft(i, message) \/ GetSnapShotFromRaft(i, message)
    BY DEF ReadRaftApplyCommandLoop
  <1> HIDE DEF message
  <1>5. message.index \in Nat
    BY <1>2 DEF Message
  <1>6. /\ message.type = "command" => message.op \in Entry
        /\ message.type = "snapshot" => message.state \in State
    BY <1>2 DEF Message
  <1>7. /\ machine' \in [Server -> State] /\ position' \in [Server -> Nat]
        /\ snapshot' \in [Server -> SnapshotFile] /\ calls' \subseteq Call
        /\ lastSnapshot' \in [Server -> Nat]
    <2>1. CASE GetSnapShotFromRaft(i, message)
      BY <1>0, <1>5, <1>6, <2>1 DEF GetSnapShotFromRaft
    <2>2. CASE GetCommandFromRaft(i, message) /\ message.index <= lastSnapshot[i]
      <3>1. UNCHANGED <<machine, position, snapshot, calls, lastSnapshot>>
        BY <1>0, <1>5, <2>2 DEF GetCommandFromRaft
      <3> QED
        BY <1>0, <3>1
    <2>3. CASE GetCommandFromRaft(i, message) /\ message.index > lastSnapshot[i]
      <3>1. /\ machine' = [machine EXCEPT ![i] = Execute(machine[i], message.op)]
            /\ position' = [position EXCEPT ![i] = message.index]
            /\ MaySnapshot(i, message.index)
            /\ calls' = Notified(i, message.index, message.op)
            /\ lastSnapshot' = lastSnapshot /\ message.type = "command"
        BY <1>0, <1>5, <2>3 DEF GetCommandFromRaft
      <3>2. message.op \in Entry
        BY <1>6, <3>1
      <3>3. machine' \in [Server -> State]
        BY <1>0, <3>1, <3>2, MachineTypes
      <3>4. [index |-> message.index, state |-> machine'[i]] \in SnapshotFile
        BY <1>5, <3>3 DEF SnapshotFile
      <3>5. snapshot' \in [Server -> SnapshotFile]
        BY <1>0, <3>1, <3>4 DEF MaySnapshot, MakeSnapShot
      <3>6. calls' \subseteq Call
        <4>1. \A c \in calls : [c EXCEPT !.got = Append(@, message.op)] \in Call
          BY <1>0, <3>2, CallTypes
        <4> QED
          BY <1>0, <3>1, <4>1 DEF Notified
      <3> QED
        BY <1>0, <1>5, <3>1, <3>3, <3>5, <3>6
    <2> QED
      BY <1>0, <1>4, <1>5, <2>1, <2>2, <2>3
  <1> QED
    BY <1>3, <1>7 DEF TypeOK, ReadRaftApplyCommandLoop

-----------------------------------------------------------------------------
(***************************************************************************)
(* What is known of an operation or of a table outlives every step: the    *)
(* log only grows, and a Clerk goes on only from a request that is         *)
(* settled.  The operators below say of the next state what InLog,         *)
(* OfClerk, Settled and Table say of this one.                             *)
(***************************************************************************)
NewLog(op) == \E k \in 1 .. Len(log') : log'[k] = op

NewOf(op) ==
    /\ op.request >= 1 /\ op.request <= clerk'[op.client].request
    /\ op.request = clerk'[op.client].request => op = clerk'[op.client].op

NewSettled(op) == IsWrite(op) /\ op.request < clerk'[op.client].request => NewLog(op)

NewTable(m) ==
    \A c \in Client :
        /\ m.last[c] <= clerk'[c].request
        /\ m.last[c] = clerk'[c].request /\ IsWrite(clerk'[c].op) => NewLog(clerk'[c].op)

Kept ==
    /\ \A op : InLog(op) => NewLog(op)
    /\ \A op \in Operation : OfClerk(op) => NewOf(op)
    /\ \A op \in Operation : OfClerk(op) /\ Settled(op) => NewSettled(op)
    /\ \A m \in State : Table(m) => NewTable(m)

SameClerks ==
    \A c \in Client : clerk'[c].request = clerk[c].request /\ clerk'[c].op = clerk[c].op

\* The log grows at its end.
LEMMA LogKept ==
    ASSUME TypeOK, log' = log \/ \E op : log' = Append(log, op), NEW op, InLog(op)
    PROVE  NewLog(op)
  <1>1. log \in Seq(Entry) /\ Len(log) \in Nat
    BY LenProperties DEF TypeOK
  <1>2. CASE log' = log
    BY <1>2 DEF InLog, NewLog
  <1>3. ASSUME NEW x, log' = Append(log, x) PROVE NewLog(op)
    <2> DEFINE S == Entry \cup {x}
    <2>1. log \in Seq(S) /\ x \in S
      BY <1>1
    <2> HIDE DEF S
    <2>2. Len(log') = Len(log) + 1 /\ \A k \in 1 .. Len(log) : log'[k] = log[k]
      BY <1>3, <2>1, AppendProperties
    <2>3. PICK k \in 1 .. Len(log) : log[k] = op
      BY DEF InLog
    <2>4. k \in 1 .. Len(log') /\ log'[k] = op
      BY <1>1, <2>2, <2>3
    <2> QED
      BY <2>4 DEF NewLog
  <1> QED
    BY <1>2, <1>3

\* Every step but a new request.
LEMMA OtherKept ==
    ASSUME TypeOK, SameClerks, log' = log \/ \E op : log' = Append(log, op)
    PROVE  Kept
  <1>1. \A op : InLog(op) => NewLog(op)
    BY LogKept
  <1>2. \A op \in Operation : op.client \in Client
    BY DEF Operation
  <1>3. \A op \in Operation : OfClerk(op) => NewOf(op)
    BY <1>2 DEF OfClerk, NewOf, SameClerks
  <1>4. \A op \in Operation : Settled(op) => NewSettled(op)
    BY <1>1, <1>2 DEF Settled, NewSettled, SameClerks
  <1>5. \A m \in State : Table(m) => NewTable(m)
    BY <1>1 DEF Table, NewTable, SameClerks
  <1> QED
    BY <1>1, <1>3, <1>4, <1>5 DEF Kept

\* AckedCommitted in the terms of this module.
LEMMA AckedInLog ==
    ASSUME TypeOK
    PROVE  /\ AckedCommitted <=> \A op \in acked : InLog(op)
           /\ DOMAIN log = 1 .. Len(log)
  <1>1. DOMAIN log = 1 .. Len(log)
    BY LenProperties DEF TypeOK
  <1> QED
    BY <1>1 DEF AckedCommitted, InLog

\* A new request: the Clerk has heard of its last one.
LEMMA RequestKept ==
    ASSUME KvInv, NEW c \in Client, NEW kind \in Kinds, NEW key \in Key, Request(c, kind, key)
    PROVE  Kept
  <1>0. /\ TypeOK /\ Clerks /\ AckedCommitted
    BY DEF KvInv
  <1>1. clerk \in [Client -> ClerkState]
    BY <1>0 DEF TypeOK, ClerkState
  <1>2. \A d \in Client : clerk[d].request \in Nat
    BY <1>1 DEF ClerkState
  <1>3. /\ log' = log /\ clerk'[c].request = clerk[c].request + 1
        /\ \A d \in Client : d # c => clerk'[d] = clerk[d]
        /\ clerk[c].call = NoCall
    BY <1>1 DEF Request, raftVars
  <1>4. IsWrite(clerk[c].op) => InLog(clerk[c].op)
    BY <1>0, <1>3, AckedInLog DEF Clerks
  <1>5. \A op : InLog(op) => NewLog(op)
    BY <1>3 DEF InLog, NewLog
  <1>6. ASSUME NEW op \in Operation, OfClerk(op)
        PROVE  NewOf(op) /\ (Settled(op) => NewSettled(op))
    <2>1. op.client \in Client /\ op.request \in Nat
      BY DEF Operation
    <2>2. CASE op.client # c
      BY <1>3, <1>5, <1>6, <2>1, <2>2 DEF OfClerk, NewOf, Settled, NewSettled
    <2>3. CASE op.client = c
      <3>1. op.request <= clerk[c].request /\ op.request >= 1
            /\ (op.request = clerk[c].request => op = clerk[c].op)
        BY <1>6, <2>3 DEF OfClerk
      <3>2. op.request < clerk'[c].request
        BY <1>2, <1>3, <2>1, <3>1
      <3>3. NewOf(op)
        BY <1>2, <1>3, <2>1, <2>3, <3>1, <3>2 DEF NewOf
      <3>4. ASSUME Settled(op), IsWrite(op) PROVE NewLog(op)
        <4>1. CASE op.request = clerk[c].request
          BY <1>4, <1>5, <3>1, <3>4, <4>1
        <4>2. CASE op.request < clerk[c].request
          BY <1>5, <2>3, <3>4, <4>2 DEF Settled
        <4> QED
          BY <1>2, <2>1, <3>1, <4>1, <4>2
      <3> QED
        BY <3>3, <3>4 DEF NewSettled
    <2> QED
      BY <2>2, <2>3
  <1>7. ASSUME NEW m \in State, Table(m)
        PROVE  NewTable(m)
    <2>1. \A d \in Client : m.last[d] \in Nat
      BY DEF State
    <2>2. m.last[c] < clerk'[c].request
      BY <1>2, <1>3, <1>7, <2>1 DEF Table
    <2>3. \A d \in Client : d # c => /\ m.last[d] <= clerk'[d].request
                                     /\ m.last[d] = clerk'[d].request /\ IsWrite(clerk'[d].op)
                                          => NewLog(clerk'[d].op)
      BY <1>3, <1>5, <1>7 DEF Table
    <2>4. m.last[c] <= clerk'[c].request /\ m.last[c] # clerk'[c].request
      BY <1>2, <1>3, <2>1, <2>2
    <2> QED
      BY <2>3, <2>4 DEF NewTable
  <1> QED
    BY <1>5, <1>6, <1>7 DEF Kept

\* A read that is served marks the table with the number of a read.
LEMMA TableGet ==
    ASSUME NEW m \in State, NEW op \in Operation, TypeOK, OfClerk(op), op.kind = "Get", Table(m)
    PROVE  Table(ExecuteGet(m, op))
  <1>1. op.client \in Client /\ op.request \in Nat /\ m.last \in [Client -> Nat]
    BY DEF Operation, State
  <1> DEFINE n == ExecuteGet(m, op)
  <1>2. n.last = [m.last EXCEPT ![op.client] = op.request]
    BY DEF ExecuteGet, State
  <1> HIDE DEF n
  <1>3. \A c \in Client : c # op.client => n.last[c] = m.last[c]
    BY <1>1, <1>2
  <1>4. n.last[op.client] = op.request
    BY <1>1, <1>2
  <1>5. n.last[op.client] <= clerk[op.client].request
        /\ (n.last[op.client] = clerk[op.client].request => ~ IsWrite(clerk[op.client].op))
    BY <1>4 DEF OfClerk, IsWrite
  <1> QED
    BY <1>3, <1>5 DEF Table, n

\* A command that is executed marks it with the number of a logged operation.
LEMMA TableExecute ==
    ASSUME NEW m \in State, NEW op \in Entry, TypeOK, Accepted, InLog(op), Table(m)
    PROVE  Table(Execute(m, op))
  <1> DEFINE n == Execute(m, op)
  <1>1. CASE n = m
    BY <1>1
  <1>2. CASE n # m
    <2>1. IsWrite(op) /\ n \in {ExecutePut(m, op), ExecuteAppend(m, op)}
      BY <1>2 DEF Execute, IsWrite
    <2>2. op \in Operation /\ op # Noop
      BY <2>1 DEF Entry, Noop, IsWrite
    <2>3. OfClerk(op)
      BY <2>2 DEF Accepted, InLog
    <2>4. op.client \in Client /\ op.request \in Nat /\ m.last \in [Client -> Nat]
      BY <2>2 DEF Operation, State
    <2>5. n.last = [m.last EXCEPT ![op.client] = op.request]
      BY <2>1 DEF ExecutePut, ExecuteAppend
    <2> HIDE DEF n
    <2>6. \A c \in Client : c # op.client => n.last[c] = m.last[c]
      BY <2>4, <2>5
    <2>7. n.last[op.client] = op.request
      BY <2>4, <2>5
    <2>8. n.last[op.client] <= clerk[op.client].request
          /\ (n.last[op.client] = clerk[op.client].request => InLog(clerk[op.client].op))
      BY <2>3, <2>7 DEF OfClerk
    <2> QED
      BY <2>6, <2>8 DEF Table, n
  <1> QED
    BY <1>1, <1>2

\* Accepted entries, tables and acknowledged writes after a step that leaves
\* log and channels alone.
LEMMA AcceptedNext ==
    ASSUME TypeOK, Accepted, Kept, log' = log,
           \A p \in proposed' : p \in proposed \/ NewOf(p.op)
    PROVE  Accepted'
  <1>1. \A p \in proposed : p.op \in Operation
    BY DEF TypeOK
  <1>2. \A p \in proposed' : NewOf(p.op)
    BY <1>1 DEF Accepted, Kept
  <1>3. \A k \in 1 .. Len(log) : log[k] \in Operation \/ log[k] = Noop
    BY ElementOfSeq DEF TypeOK, Entry
  <1>4. \A k \in 1 .. Len(log') : log'[k] = Noop \/ NewOf(log'[k])
    BY <1>3 DEF Accepted, Kept
  <1> QED
    BY <1>2, <1>4 DEF Accepted, OfClerk, NewOf

\* Tables follows when every server keeps its duplicate table or has a sound new one.
LEMMA TablesNext ==
    ASSUME TypeOK, Tables, Kept, UNCHANGED <<applyChan, snapshot, incoming>>,
           \A i \in Server : machine'[i] = machine[i] \/ NewTable(machine'[i])
    PROVE  Tables'
  <1>0. /\ machine \in [Server -> State] /\ snapshot \in [Server -> SnapshotFile]
        /\ incoming \in [Server -> SUBSET SnapshotFile] /\ applyChan \in [Server -> Seq(Message)]
    BY DEF TypeOK
  <1>1. \A i \in Server : NewTable(machine'[i])
    BY <1>0 DEF Tables, Kept
  <1>2. \A i \in Server : NewTable(snapshot'[i].state)
    BY <1>0 DEF Tables, Kept, SnapshotFile
  <1>3. \A i \in Server : \A s \in incoming'[i] : NewTable(s.state)
    BY <1>0 DEF Tables, Kept, SnapshotFile
  <1>4. ASSUME NEW i \in Server, NEW k \in 1 .. Len(applyChan[i])
        PROVE  /\ applyChan[i][k].type = "command" => NewLog(applyChan[i][k].op)
               /\ applyChan[i][k].type = "snapshot" => NewTable(applyChan[i][k].state)
    <2>1. applyChan[i][k] \in Message
      BY <1>0, ElementOfSeq
    <2>2. applyChan[i][k].type = "snapshot" => applyChan[i][k].state \in State
      BY <2>1 DEF Message
    <2> QED
      BY <2>2 DEF Tables, Kept
  <1> QED
    BY <1>1, <1>2, <1>3, <1>4 DEF Tables, Table, NewTable, InLog, NewLog

\* AckedCommitted follows when every newly acknowledged write is in the log.
LEMMA AckedNext ==
    ASSUME TypeOK, TypeOK', AckedCommitted, Kept, \A op \in acked' : op \in acked \/ InLog(op)
    PROVE  AckedCommitted'
  <1>1. \A op \in acked' : NewLog(op)
    BY AckedInLog DEF Kept
  <1>2. log' \in Seq(Entry)
    BY DEF TypeOK
  <1>3. DOMAIN log' = 1 .. Len(log')
    BY <1>2, LenProperties
  <1> QED
    BY <1>1, <1>3 DEF AckedCommitted, NewLog

-----------------------------------------------------------------------------
(***************************************************************************)
(* The threads.                                                            *)
(***************************************************************************)
NewGood(call) ==
    /\ NewOf(call.op) /\ NewSettled(call.op)
    /\ call.id >= 1 /\ call.id <= issued'
    /\ clerk'[call.op.client].call = call.id => call.op = clerk'[call.op.client].op
    /\ call.phase = "reading" => call.op.kind = "Get"
    /\ \A k \in 1 .. Len(call.got) : NewLog(call.got[k])

\* A Clerk waits for the call it has waited for, for none, or for a new one.
ClerkMoves ==
    /\ issued' \in Nat /\ issued <= issued'
    /\ \A c \in Client :
          \/ clerk'[c].call = clerk[c].call /\ clerk'[c].op = clerk[c].op
          \/ clerk'[c].call = NoCall
          \/ clerk'[c].call > issued

\* What Calls says of a call stays true while the Clerks only move forward.
LEMMA GoodKept ==
    ASSUME TypeOK, TypeOK', Calls, Kept, ClerkMoves, NEW call \in calls
    PROVE  NewGood(call)
  <1>1. call \in Call /\ issued \in Nat
    BY DEF TypeOK
  <1>2. call.id \in Nat /\ call.op \in Operation
    BY <1>1 DEF Call
  <1>3. call.op.client \in Client
    BY <1>2 DEF Operation
  <1>4. /\ OfClerk(call.op) /\ Settled(call.op)
        /\ call.id >= 1 /\ call.id <= issued
        /\ clerk[call.op.client].call = call.id => call.op = clerk[call.op.client].op
        /\ call.phase = "reading" => call.op.kind = "Get"
        /\ \A k \in 1 .. Len(call.got) : InLog(call.got[k])
    BY DEF Calls
  <1>5. NewOf(call.op) /\ NewSettled(call.op) /\ \A k \in 1 .. Len(call.got) : NewLog(call.got[k])
    BY <1>2, <1>4 DEF Kept
  <1>6. call.id >= 1 /\ call.id <= issued'
    BY <1>1, <1>2, <1>4 DEF ClerkMoves
  <1>7. ASSUME clerk'[call.op.client].call = call.id
        PROVE  call.op = clerk'[call.op.client].op
    <2>1. clerk'[call.op.client].call # NoCall /\ ~ (clerk'[call.op.client].call > issued)
      BY <1>1, <1>2, <1>4, <1>7 DEF NoCall
    <2> QED
      BY <1>3, <1>4, <1>7, <2>1 DEF ClerkMoves
  <1> QED
    BY <1>4, <1>5, <1>6, <1>7 DEF NewGood

\* Calls, stated for the next state.
LEMMA CallsNext ==
    ASSUME \A call \in calls' : NewGood(call)
    PROVE  Calls'
  BY DEF Calls, NewGood, OfClerk, NewOf, Settled, NewSettled, InLog, NewLog

-----------------------------------------------------------------------------
(***************************************************************************)
(* The steps.                                                              *)
(***************************************************************************)
\* A Clerk begins a request.
LEMMA RequestStep ==
    ASSUME KvInv, NEW c \in Client, NEW kind \in Kinds, NEW key \in Key, Request(c, kind, key)
    PROVE  KvInv'
  <1> DEFINE op == [kind |-> kind, key |-> key, client |-> c, request |-> clerk[c].request + 1]
             call == NewCall(op, clerk[c].recent)
  <1>0. TypeOK /\ Clerks /\ Calls /\ Accepted /\ Tables /\ AckedCommitted /\ replay # <<>>
    BY DEF KvInv
  <1>1. TypeOK'
    BY <1>0, ClerkTypes
  <1>2. Kept
    BY RequestKept
  <1>3. clerk \in [Client -> ClerkState] /\ issued \in Nat
    BY <1>0 DEF TypeOK, ClerkState
  <1>4. clerk[c].request \in Nat /\ \A d \in Client : clerk[d].call \in Nat
    BY <1>3 DEF ClerkState
  <1>5. /\ issued' = issued + 1 /\ calls' = calls \cup {call}
        /\ clerk' = [clerk EXCEPT ![c] =
             [request |-> op.request, recent |-> clerk[c].recent, server |-> clerk[c].recent,
              call |-> issued', op |-> op, floor |-> AckedIndex]]
        /\ UNCHANGED <<raftVars, serverVars, acked, replay>>
    BY DEF Request
  <1>6. /\ clerk'[c].call = issued + 1 /\ clerk'[c].op = op /\ clerk'[c].request = op.request
        /\ \A d \in Client : d # c => clerk'[d] = clerk[d]
    BY <1>3, <1>5
  <1>7. /\ op \in Operation /\ op.client = c /\ op.request = clerk[c].request + 1
        /\ op.request \in Nat /\ op.request >= 1
    BY <1>4 DEF Operation
  <1>8. call.op = op /\ call.id = issued + 1 /\ call.phase = "sent" /\ call.got = <<>>
    BY DEF NewCall
  <1> HIDE DEF op, call
  <1>9. ClerkMoves
    BY <1>3, <1>5, <1>6 DEF ClerkMoves
  <1>10. NewGood(call)
    <2>1. NewOf(op)
      BY <1>6, <1>7 DEF NewOf
    <2>2. NewSettled(op)
      BY <1>6, <1>7 DEF NewSettled
    <2>3. Len(call.got) = 0
      BY <1>8
    <2> QED
      BY <1>3, <1>5, <1>6, <1>7, <1>8, <2>1, <2>2, <2>3 DEF NewGood
  <1>11. Calls'
    BY <1>0, <1>1, <1>2, <1>5, <1>9, <1>10, GoodKept, CallsNext
  <1>12. Clerks'
    <2>1. /\ clerk'[c].call <= issued' /\ clerk'[c].request > 0
          /\ clerk'[c].op \in Operation /\ clerk'[c].op.client = c
          /\ clerk'[c].op.request = clerk'[c].request /\ clerk'[c].call # NoCall
      BY <1>3, <1>4, <1>5, <1>6, <1>7 DEF NoCall
    <2>2. \A d \in Client : d # c =>
            /\ clerk'[d].call <= issued'
            /\ clerk'[d].request = 0 => clerk'[d].op = Noop /\ clerk'[d].call = NoCall
            /\ clerk'[d].request > 0 => /\ clerk'[d].op \in Operation /\ clerk'[d].op.client = d
                                        /\ clerk'[d].op.request = clerk'[d].request
            /\ clerk'[d].call = NoCall /\ IsWrite(clerk'[d].op) => clerk'[d].op \in acked'
      BY <1>0, <1>3, <1>4, <1>5, <1>6 DEF Clerks
    <2>3. clerk'[c].request # 0
      BY <1>6, <1>7
    <2> QED
      BY <2>1, <2>2, <2>3 DEF Clerks, IsWrite
  <1>13. Accepted'
    BY <1>0, <1>2, <1>5, AcceptedNext DEF raftVars
  <1>14. Tables'
    BY <1>0, <1>2, <1>5, TablesNext DEF raftVars, serverVars
  <1>15. AckedCommitted'
    BY <1>0, <1>1, <1>2, <1>5, AckedNext
  <1> QED
    BY <1>0, <1>1, <1>5, <1>11, <1>12, <1>13, <1>14, <1>15 DEF KvInv

\* It repeats one.
LEMMA RetryStep ==
    ASSUME KvInv, NEW c \in Client, Retry(c)
    PROVE  KvInv'
  <1> DEFINE op == clerk[c].op
             server == NextServer(clerk[c].server)
             call == NewCall(op, server)
  <1>0. TypeOK /\ Clerks /\ Calls /\ Accepted /\ Tables /\ AckedCommitted /\ replay # <<>>
    BY DEF KvInv
  <1>3. clerk \in [Client -> ClerkState] /\ issued \in Nat
    BY <1>0 DEF TypeOK, ClerkState
  <1>4. clerk[c].request \in Nat /\ \A d \in Client : clerk[d].call \in Nat
    BY <1>3 DEF ClerkState
  <1>5. /\ issued' = issued + 1 /\ calls' = calls \cup {call}
        /\ clerk' = [clerk EXCEPT ![c].server = server, ![c].call = issued']
        /\ clerk[c].call # NoCall
        /\ UNCHANGED <<raftVars, serverVars, acked, replay>>
    BY DEF Retry
  <1>6. /\ op \in Operation /\ op.client = c /\ op.request = clerk[c].request
        /\ op.request \in Nat /\ op.request >= 1
    BY <1>0, <1>4, <1>5 DEF Clerks
  <1>7. /\ clerk'[c].call = issued + 1 /\ clerk'[c].op = op /\ clerk'[c].request = clerk[c].request
        /\ \A d \in Client : d # c => clerk'[d] = clerk[d]
    BY <1>3, <1>5 DEF ClerkState
  <1>8. call.op = op /\ call.id = issued + 1 /\ call.phase = "sent" /\ call.got = <<>>
    BY DEF NewCall
  <1>1. TypeOK'
    BY <1>0, <1>6, ClerkTypes
  <1>2. Kept
    <2>1. SameClerks
      BY <1>7 DEF SameClerks
    <2> QED
      BY <1>0, <1>5, <2>1, OtherKept DEF raftVars
  <1>9. ClerkMoves
    BY <1>3, <1>5, <1>7 DEF ClerkMoves
  <1> HIDE DEF op, server, call
  <1>10. NewGood(call)
    <2>1. NewOf(op)
      BY <1>6, <1>7 DEF NewOf
    <2>2. NewSettled(op)
      BY <1>6, <1>7 DEF NewSettled
    <2>3. Len(call.got) = 0
      BY <1>8
    <2> QED
      BY <1>3, <1>5, <1>6, <1>7, <1>8, <2>1, <2>2, <2>3 DEF NewGood
  <1>11. Calls'
    BY <1>0, <1>1, <1>2, <1>5, <1>9, <1>10, GoodKept, CallsNext
  <1>12. Clerks'
    <2>1. /\ clerk'[c].call <= issued' /\ clerk'[c].request > 0 /\ clerk'[c].request # 0
          /\ clerk'[c].op \in Operation /\ clerk'[c].op.client = c
          /\ clerk'[c].op.request = clerk'[c].request /\ clerk'[c].call # NoCall
      BY <1>3, <1>4, <1>5, <1>6, <1>7 DEF NoCall
    <2>2. \A d \in Client : d # c =>
            /\ clerk'[d].call <= issued'
            /\ clerk'[d].request = 0 => clerk'[d].op = Noop /\ clerk'[d].call = NoCall
            /\ clerk'[d].request > 0 => /\ clerk'[d].op \in Operation /\ clerk'[d].op.client = d
                                        /\ clerk'[d].op.request = clerk'[d].request
            /\ clerk'[d].call = NoCall /\ IsWrite(clerk'[d].op) => clerk'[d].op \in acked'
      BY <1>0, <1>3, <1>4, <1>5, <1>7 DEF Clerks
    <2> QED
      BY <2>1, <2>2 DEF Clerks, IsWrite
  <1>13. Accepted'
    BY <1>0, <1>2, <1>5, AcceptedNext DEF raftVars
  <1>14. Tables'
    BY <1>0, <1>2, <1>5, TablesNext DEF raftVars, serverVars
  <1>15. AckedCommitted'
    BY <1>0, <1>1, <1>2, <1>5, AckedNext
  <1> QED
    BY <1>0, <1>1, <1>5, <1>11, <1>12, <1>13, <1>14, <1>15 DEF KvInv

\* What an answer or a refusal does to the Clerks, given that a write that is
\* answered is in the log.
LEMMA ReplyStep ==
    ASSUME KvInv, TypeOK', NEW call \in calls, UNCHANGED <<raftVars, replay>>,
           \/ Refuse(call)
           \/ Answer(call) /\ (call.op.kind = "Get" \/ InLog(call.op))
    PROVE  Kept /\ Clerks' /\ Calls' /\ Accepted' /\ AckedCommitted'
  <1> DEFINE c == call.op.client
  <1>0. TypeOK /\ Clerks /\ Calls /\ Accepted /\ AckedCommitted
    BY DEF KvInv
  <1>1. clerk \in [Client -> ClerkState] /\ issued \in Nat /\ calls \subseteq Call
    BY <1>0 DEF TypeOK, ClerkState
  <1>2. call.op \in Operation /\ call.id \in Nat
    BY <1>1, CallTypes
  <1>3. c \in Client
    BY <1>2 DEF Operation
  <1>4. /\ clerk[c].call = call.id => call.op = clerk[c].op
        /\ call.id >= 1
    BY <1>0 DEF Calls
  <1>5. /\ calls' \subseteq calls /\ issued' = issued
    BY DEF Answer, Refuse
  <1>6. \/ clerk' = clerk /\ acked' = acked
        \/ /\ clerk[c].call = call.id
           /\ \E r : clerk' = [clerk EXCEPT ![c].call = NoCall, ![c].recent = r]
           /\ \/ call.op.kind # "Get" /\ InLog(call.op) /\ acked' = acked \cup {call.op}
              \/ call.op.kind = "Get" /\ acked' = acked
    <2>1. CASE Refuse(call)
      BY <2>1 DEF Refuse
    <2>2. CASE /\ Answer(call) /\ (call.op.kind = "Get" \/ InLog(call.op))
               /\ clerk[c].call # call.id
      BY <2>2 DEF Answer
    <2>3. CASE /\ Answer(call) /\ (call.op.kind = "Get" \/ InLog(call.op))
               /\ clerk[c].call = call.id
      <3>1. clerk' = [clerk EXCEPT ![c].call = NoCall,
                            ![c].recent = IF Missing(call) THEN @ ELSE call.server]
        BY <2>3 DEF Answer
      <3>2. \E r : clerk' = [clerk EXCEPT ![c].call = NoCall, ![c].recent = r]
        BY <3>1
      <3>3. CASE call.op.kind = "Get"
        BY <2>3, <3>2, <3>3 DEF Answer
      <3>4. CASE call.op.kind # "Get"
        <4>1. InLog(call.op)
          BY <2>3, <3>4
        <4> QED
          BY <2>3, <3>2, <3>4, <4>1 DEF Answer
      <3> QED
        BY <3>3, <3>4
    <2> QED
      BY <2>1, <2>2, <2>3
  <1> HIDE DEF c
  <1>7. /\ \A d \in Client : clerk'[d].request = clerk[d].request /\ clerk'[d].op = clerk[d].op
        /\ \A d \in Client : d # c => clerk'[d].call = clerk[d].call
        /\ clerk'[c].call \in {clerk[c].call, NoCall}
    BY <1>1, <1>3, <1>6 DEF ClerkState
  <1>8. Kept
    BY <1>0, <1>7, OtherKept DEF SameClerks, raftVars
  <1>9. ClerkMoves
    BY <1>1, <1>5, <1>7 DEF ClerkMoves
  <1>10. Calls'
    BY <1>0, <1>5, <1>8, <1>9, GoodKept, CallsNext
  <1>11. Accepted'
    BY <1>0, <1>8, AcceptedNext DEF raftVars
  <1>12. AckedCommitted'
    <2>1. \A op \in acked' : op \in acked \/ InLog(op)
      BY <1>6
    <2> QED
      BY <1>0, <1>8, <2>1, AckedNext
  <1>13. Clerks'
    <2>1. acked \subseteq acked'
      BY <1>6
    <2>2. \A d \in Client :
            /\ clerk'[d].request = 0 => clerk'[d].op = Noop /\ clerk'[d].call = NoCall
            /\ clerk'[d].request > 0 => /\ clerk'[d].op \in Operation /\ clerk'[d].op.client = d
                                        /\ clerk'[d].op.request = clerk'[d].request
      BY <1>0, <1>7 DEF Clerks
    <2>3. \A d \in Client : clerk'[d].call <= issued'
      <3>1. \A d \in Client : clerk[d].call <= issued
        BY <1>0 DEF Clerks
      <3>2. NoCall <= issued
        BY <1>1 DEF NoCall
      <3> QED
        BY <1>5, <1>7, <3>1, <3>2
    <2>4. ASSUME NEW d \in Client, clerk'[d].call = NoCall, IsWrite(clerk'[d].op)
          PROVE  clerk'[d].op \in acked'
      <3>1. CASE clerk[d].call = NoCall
        BY <1>0, <1>7, <2>1, <2>4, <3>1 DEF Clerks
      <3>2. CASE clerk[d].call # NoCall
        <4>1. d = c /\ clerk' # clerk
          BY <1>7, <2>4, <3>2
        <4>2. clerk[c].call = call.id /\ clerk'[c].op = call.op
          BY <1>3, <1>4, <1>6, <1>7, <4>1
        <4>3. call.op.kind # "Get"
          BY <2>4, <4>1, <4>2 DEF IsWrite
        <4> QED
          BY <1>6, <4>1, <4>2, <4>3
      <3> QED
        BY <3>1, <3>2
    <2> QED
      BY <2>2, <2>3, <2>4 DEF Clerks
  <1> QED
    BY <1>8, <1>10, <1>11, <1>12, <1>13

\* The request that the wait channel delivered: the same number of the same
\* client is the same operation, or one that was settled long ago.
LEMMA PoppedInLog ==
    ASSUME KvInv, NEW call \in calls, call.got # <<>>, SameRequest(call.op, Head(call.got))
    PROVE  call.op.kind = "Get" \/ InLog(call.op)
  <1> DEFINE popped == Head(call.got)
  <1>0. TypeOK /\ Calls /\ Accepted
    BY DEF KvInv
  <1>1. call \in Call
    BY <1>0 DEF TypeOK
  <1>2. call.op \in Operation /\ call.got \in Seq(Entry)
    BY <1>1, CallTypes
  <1>3. 1 \in 1 .. Len(call.got)
    <2>1. Len(call.got) \in Nat /\ Len(call.got) # 0
      BY <1>2, LenProperties, EmptySeq
    <2> QED
      BY <2>1
  <1>4. popped = call.got[1] /\ popped \in Entry
    BY <1>2, <1>3, ElementOfSeq
  <1>5. popped.kind # "Noop" /\ popped.client = call.op.client /\ popped.request = call.op.request
    BY DEF SameRequest
  <1>6. InLog(popped)
    BY <1>0, <1>3, <1>4 DEF Calls
  <1> HIDE DEF popped
  <1>7. OfClerk(popped)
    BY <1>0, <1>5, <1>6 DEF Accepted, InLog, Noop
  <1>8. OfClerk(call.op) /\ Settled(call.op)
    BY <1>0 DEF Calls
  <1>9. call.op.kind = "Get" \/ IsWrite(call.op)
    BY <1>2, KnownKinds DEF Operation, IsWrite
  <1>10. call.op.client \in Client /\ call.op.request \in Nat
    BY <1>2 DEF Operation
  <1>11. clerk[call.op.client].request \in Nat
    BY <1>0, <1>10 DEF TypeOK
  <1>12. CASE call.op.request = clerk[call.op.client].request
    BY <1>5, <1>6, <1>7, <1>8, <1>12 DEF OfClerk
  <1>13. CASE call.op.request < clerk[call.op.client].request
    BY <1>8, <1>9, <1>13 DEF Settled
  <1> QED
    BY <1>8, <1>10, <1>11, <1>12, <1>13 DEF OfClerk

\* The request that the duplicate table covers.
LEMMA DuplicateInLog ==
    ASSUME KvInv, NEW call \in calls, Duplicate(machine[call.server], call.op)
    PROVE  call.op.kind = "Get" \/ InLog(call.op)
  <1> DEFINE m == machine[call.server]
             c == call.op.client
  <1>0. TypeOK /\ Calls /\ Tables
    BY DEF KvInv
  <1>1. call \in Call
    BY <1>0 DEF TypeOK
  <1>2. call.op \in Operation /\ call.server \in Server
    BY <1>1, CallTypes
  <1>3. c \in Client /\ call.op.request \in Nat
    BY <1>2 DEF Operation
  <1>4. m \in State /\ clerk[c].request \in Nat
    BY <1>0, <1>2, <1>3 DEF TypeOK
  <1>5. m.last[c] \in Nat
    BY <1>3, <1>4 DEF State
  <1>6. call.op.request <= m.last[c]
    BY DEF Duplicate
  <1>7. Table(m)
    BY <1>0, <1>2 DEF Tables
  <1>8. OfClerk(call.op) /\ Settled(call.op)
    BY <1>0 DEF Calls
  <1>9. call.op.kind = "Get" \/ IsWrite(call.op)
    BY <1>2, KnownKinds DEF Operation, IsWrite
  <1> HIDE DEF m
  <1>10. m.last[c] <= clerk[c].request
    BY <1>3, <1>7 DEF Table
  <1>11. CASE call.op.request = clerk[c].request
    <2>1. m.last[c] = clerk[c].request /\ call.op = clerk[c].op
      BY <1>3, <1>4, <1>5, <1>6, <1>8, <1>10, <1>11 DEF OfClerk
    <2> QED
      BY <1>3, <1>7, <1>9, <2>1 DEF Table
  <1>12. CASE call.op.request < clerk[c].request
    BY <1>8, <1>9, <1>12 DEF Settled
  <1> QED
    BY <1>3, <1>4, <1>5, <1>6, <1>10, <1>11, <1>12

\* The threads of the RPC handlers.
LEMMA HandlerStep ==
    ASSUME KvInv, NEW call \in calls,
           \/ Start(call) \/ NotLeader(call) \/ Listen(call) \/ Popped(call) \/ TimedOut(call)
           \/ ReadIndex(call) \/ ReadOnlyGet(call)
    PROVE  KvInv'
  <1>0. TypeOK /\ Clerks /\ Calls /\ Accepted /\ Tables /\ AckedCommitted /\ replay # <<>>
    BY DEF KvInv
  <1>1. TypeOK'
    BY <1>0, HandlerTypes
  <1>2. call \in Call /\ calls \subseteq Call /\ issued \in Nat /\ machine \in [Server -> State]
    BY <1>0 DEF TypeOK
  <1>3. call.op \in Operation /\ call.server \in Server
    BY <1>2, CallTypes
  <1>4. OfClerk(call.op) /\ (call.phase = "reading" => call.op.kind = "Get")
    BY <1>0 DEF Calls
  <1>5. ASSUME UNCHANGED <<log, snapshot, incoming, applyChan, machine, clerk, acked, issued, replay>>,
               \A p \in proposed' : p \in proposed \/ p.op = call.op,
               NEW new, calls' = (calls \ {call}) \cup {new},
               new.op = call.op, new.id = call.id, new.got = call.got,
               new.phase = "reading" => call.op.kind = "Get"
        PROVE  KvInv'
    <2>1. Kept
      BY <1>0, <1>5, OtherKept DEF SameClerks
    <2>2. ClerkMoves
      BY <1>2, <1>5 DEF ClerkMoves
    <2>3. \A d \in calls : NewGood(d)
      BY <1>0, <1>1, <2>1, <2>2, GoodKept
    <2>4. NewGood(new)
      BY <1>5, <2>3 DEF NewGood
    <2>5. Calls'
      BY <1>5, <2>3, <2>4, CallsNext
    <2>6. NewOf(call.op)
      BY <1>3, <1>4, <2>1 DEF Kept
    <2>7. Accepted'
      BY <1>0, <1>5, <2>1, <2>6, AcceptedNext
    <2>8. Tables'
      BY <1>0, <1>5, <2>1, TablesNext
    <2>9. AckedCommitted'
      BY <1>0, <1>1, <1>5, <2>1, AckedNext
    <2>10. Clerks'
      BY <1>0, <1>5 DEF Clerks
    <2> QED
      BY <1>0, <1>1, <1>5, <2>5, <2>7, <2>8, <2>9, <2>10 DEF KvInv
  <1>6. CASE Start(call)
    <2>1. PICK index \in (lastApplied[call.server] + 1 .. Len(log) + 1) \cup {given[call.server] + 1} :
            /\ proposed' = IF index > Len(log)
                           THEN proposed \cup {[index |-> index, op |-> call.op]}
                           ELSE proposed
            /\ calls' = (calls \ {call}) \cup
                 {[call EXCEPT !.phase = "started", !.index = index]}
      BY <1>6 DEF Start
    <2> DEFINE new == [call EXCEPT !.phase = "started", !.index = index]
    <2>2. new.op = call.op /\ new.id = call.id /\ new.got = call.got /\ new.phase = "started"
      BY <1>2 DEF Call
    <2>3. \A p \in proposed' : p \in proposed \/ p.op = call.op
      BY <2>1
    <2>4. calls' = (calls \ {call}) \cup {new}
      BY <2>1
    <2>5. UNCHANGED <<log, snapshot, incoming, applyChan, machine, clerk, acked, issued, replay>>
      BY <1>6 DEF Start, serverVars
    <2> HIDE DEF new
    <2> QED
      BY <1>5, <2>2, <2>3, <2>4, <2>5
  <1>7. CASE Listen(call)
    <2> DEFINE new == [call EXCEPT !.phase = "waiting"]
    <2>1. new.op = call.op /\ new.id = call.id /\ new.got = call.got /\ new.phase = "waiting"
      BY <1>2 DEF Call
    <2>2. /\ calls' = (calls \ {call}) \cup {new} /\ proposed' = proposed
          /\ UNCHANGED <<log, snapshot, incoming, applyChan, machine, clerk, acked, issued, replay>>
      BY <1>7 DEF Listen, raftVars, serverVars
    <2> HIDE DEF new
    <2> QED
      BY <1>5, <2>1, <2>2
  <1>8. CASE ReadIndex(call)
    <2> DEFINE new == [call EXCEPT !.phase = "reading", !.index = Len(log)]
    <2>1. new.op = call.op /\ new.id = call.id /\ new.got = call.got
      BY <1>2 DEF Call
    <2>2. /\ calls' = (calls \ {call}) \cup {new} /\ proposed' = proposed
          /\ UNCHANGED <<log, snapshot, incoming, applyChan, machine, clerk, acked, issued, replay>>
          /\ call.op.kind = "Get"
      BY <1>8 DEF ReadIndex, raftVars, serverVars
    <2> HIDE DEF new
    <2> QED
      BY <1>5, <2>1, <2>2
  <1>9. ASSUME \/ Refuse(call) /\ UNCHANGED serverVars
               \/ /\ Answer(call) /\ (call.op.kind = "Get" \/ InLog(call.op))
                  /\ ServeGet(call) \/ UNCHANGED serverVars,
               UNCHANGED <<raftVars, replay>>
        PROVE  KvInv'
    <2>1. Kept /\ Clerks' /\ Calls' /\ Accepted' /\ AckedCommitted'
      BY <1>1, <1>9, ReplyStep
    <2>2. UNCHANGED <<applyChan, snapshot, incoming>>
      BY <1>9 DEF ServeGet, serverVars, raftVars
    <2>3. \A i \in Server : machine'[i] = machine[i] \/ NewTable(machine'[i])
      <3>1. CASE machine' = machine
        BY <3>1
      <3>2. CASE machine' # machine
        <4>1. ServeGet(call)
          BY <1>9, <3>2 DEF serverVars
        <4>2. /\ call.op.kind = "Get"
              /\ machine' = [machine EXCEPT ![call.server] = ExecuteGet(machine[call.server], call.op)]
          BY <3>2, <4>1 DEF ServeGet
        <4> DEFINE m == ExecuteGet(machine[call.server], call.op)
        <4>3. m \in State
          BY <1>2, <1>3, MachineTypes
        <4>4. machine[call.server] \in State /\ Table(machine[call.server])
          BY <1>0, <1>2, <1>3 DEF Tables
        <4>5. Table(m)
          BY <1>0, <1>3, <1>4, <4>2, <4>4, TableGet
        <4>6. machine' = [machine EXCEPT ![call.server] = m]
          BY <4>2
        <4> HIDE DEF m
        <4>7. NewTable(m)
          BY <2>1, <4>3, <4>5 DEF Kept
        <4> QED
          BY <1>2, <1>3, <4>6, <4>7
      <3> QED
        BY <3>1, <3>2
    <2>4. Tables'
      BY <1>0, <2>1, <2>2, <2>3, TablesNext
    <2> QED
      BY <1>0, <1>1, <1>9, <2>1, <2>4 DEF KvInv
  <1>10. CASE NotLeader(call)
    BY <1>9, <1>10 DEF NotLeader
  <1>11. CASE ReadOnlyGet(call)
    BY <1>4, <1>9, <1>11 DEF ReadOnlyGet
  <1>12. CASE Popped(call)
    <2>1. UNCHANGED <<raftVars, replay>> /\ call.got # <<>>
      BY <1>12 DEF Popped
    <2>2. CASE SameRequest(call.op, Head(call.got)) /\ Answer(call) /\ ServeGet(call)
      BY <1>9, <2>1, <2>2, PoppedInLog
    <2>3. CASE Refuse(call) /\ UNCHANGED serverVars
      BY <1>9, <2>1, <2>3
    <2> QED
      BY <1>12, <2>2, <2>3 DEF Popped
  <1>13. CASE TimedOut(call)
    <2>1. UNCHANGED <<raftVars, replay>>
      BY <1>13 DEF TimedOut
    <2>2. CASE Duplicate(machine[call.server], call.op) /\ Answer(call) /\ ServeGet(call)
      BY <1>9, <2>1, <2>2, DuplicateInLog
    <2>3. CASE Refuse(call) /\ UNCHANGED serverVars
      BY <1>9, <2>1, <2>3
    <2> QED
      BY <1>13, <2>2, <2>3 DEF TimedOut
  <1> QED
    BY <1>6, <1>7, <1>8, <1>10, <1>11, <1>12, <1>13

\* A step in which no Clerk takes part.
LEMMA ServerStep ==
    ASSUME KvInv, TypeOK', UNCHANGED <<clerk, acked, issued>>,
           log' = log \/ \E op : log' = Append(log, op)
    PROVE  Kept /\ Clerks' /\ AckedCommitted' /\ \A call \in calls : NewGood(call)
  <1>0. TypeOK /\ Clerks /\ Calls /\ AckedCommitted
    BY DEF KvInv
  <1>1. Kept
    BY <1>0, OtherKept DEF SameClerks
  <1>2. ClerkMoves
    BY <1>0 DEF ClerkMoves, TypeOK
  <1>3. \A call \in calls : NewGood(call)
    BY <1>0, <1>1, <1>2, GoodKept
  <1>4. Clerks'
    BY <1>0 DEF Clerks
  <1>5. AckedCommitted'
    BY <1>0, <1>1, AckedNext
  <1> QED
    BY <1>1, <1>3, <1>4, <1>5

\* The tables and channels after such a step, where it has changed them.
LEMMA TablesMoved ==
    ASSUME TypeOK, Tables, Kept,
           \A i \in Server : machine'[i] = machine[i] \/ NewTable(machine'[i]),
           \A i \in Server : snapshot'[i] = snapshot[i] \/ NewTable(snapshot'[i].state),
           \A i \in Server : \A s \in incoming'[i] : s \in incoming[i] \/ NewTable(s.state),
           \A i \in Server : \A k \in 1 .. Len(applyChan'[i]) :
              \/ \E l \in 1 .. Len(applyChan[i]) : applyChan'[i][k] = applyChan[i][l]
              \/ /\ applyChan'[i][k].type = "command" => NewLog(applyChan'[i][k].op)
                 /\ applyChan'[i][k].type = "snapshot" => NewTable(applyChan'[i][k].state)
    PROVE  Tables'
  <1>0. /\ machine \in [Server -> State] /\ snapshot \in [Server -> SnapshotFile]
        /\ incoming \in [Server -> SUBSET SnapshotFile] /\ applyChan \in [Server -> Seq(Message)]
    BY DEF TypeOK
  <1>1. \A i \in Server : NewTable(machine'[i])
    BY <1>0 DEF Tables, Kept
  <1>2. \A i \in Server : NewTable(snapshot'[i].state)
    BY <1>0 DEF Tables, Kept, SnapshotFile
  <1>3. \A i \in Server : \A s \in incoming'[i] : NewTable(s.state)
    BY <1>0 DEF Tables, Kept, SnapshotFile
  <1>4. ASSUME NEW i \in Server, NEW l \in 1 .. Len(applyChan[i])
        PROVE  /\ applyChan[i][l].type = "command" => NewLog(applyChan[i][l].op)
               /\ applyChan[i][l].type = "snapshot" => NewTable(applyChan[i][l].state)
    <2>1. applyChan[i][l] \in Message
      BY <1>0, ElementOfSeq
    <2>2. applyChan[i][l].type = "snapshot" => applyChan[i][l].state \in State
      BY <2>1 DEF Message
    <2> QED
      BY <2>2 DEF Tables, Kept
  <1>5. \A i \in Server : \A k \in 1 .. Len(applyChan'[i]) :
              /\ applyChan'[i][k].type = "command" => NewLog(applyChan'[i][k].op)
              /\ applyChan'[i][k].type = "snapshot" => NewTable(applyChan'[i][k].state)
    BY <1>4
  <1> QED
    BY <1>1, <1>2, <1>3, <1>5 DEF Tables, Table, NewTable, InLog, NewLog

\* The next index is decided.
LEMMA CommitStep ==
    ASSUME KvInv, NEW op \in {p.op : p \in proposed} \cup {Noop}, Commit(op)
    PROVE  KvInv'
  <1>0. TypeOK /\ Clerks /\ Calls /\ Accepted /\ Tables /\ AckedCommitted /\ replay # <<>>
    BY DEF KvInv
  <1>1. TypeOK'
    BY <1>0, RaftTypes
  <1>2. /\ log' = Append(log, op) /\ proposed' \subseteq proposed
        /\ UNCHANGED <<snapshot, incoming, serverVars, clientVars>>
        /\ \E s : replay' = Append(replay, s)
    BY DEF Commit
  <1>3. Kept /\ Clerks' /\ AckedCommitted' /\ \A call \in calls : NewGood(call)
    BY <1>0, <1>1, <1>2, ServerStep DEF clientVars
  <1>4. Calls'
    BY <1>2, <1>3, CallsNext DEF clientVars
  <1>5. Tables'
    BY <1>0, <1>2, <1>3, TablesNext DEF serverVars
  <1>6. log \in Seq(Entry) /\ Len(log) \in Nat /\ op \in Entry /\ \A p \in proposed : p.op \in Operation
    BY <1>0, LenProperties DEF TypeOK, Entry
  <1>7. Accepted'
    <2>1. \A p \in proposed' : NewOf(p.op)
      BY <1>0, <1>2, <1>3, <1>6 DEF Accepted, Kept
    <2>2. \A k \in 1 .. Len(log) : log[k] = Noop \/ NewOf(log[k])
      <3>1. \A k \in 1 .. Len(log) : log[k] \in Operation \/ log[k] = Noop
        BY <1>6, ElementOfSeq DEF Entry
      <3> QED
        BY <1>0, <1>3, <3>1 DEF Accepted, Kept
    <2>3. op = Noop \/ NewOf(op)
      BY <1>0, <1>3, <1>6 DEF Accepted, Kept
    <2>4. /\ Len(log') = Len(log) + 1 /\ log'[Len(log) + 1] = op
          /\ \A k \in 1 .. Len(log) : log'[k] = log[k]
      BY <1>2, <1>6, AppendProperties
    <2>5. \A k \in 1 .. Len(log') : log'[k] = Noop \/ NewOf(log'[k])
      <3> TAKE k \in 1 .. Len(log')
      <3>1. k \in 1 .. Len(log) \/ k = Len(log) + 1
        BY <1>6, <2>4
      <3> QED
        BY <2>2, <2>3, <2>4, <3>1
    <2> QED
      BY <2>1, <2>5 DEF Accepted, OfClerk, NewOf
  <1>8. replay' # <<>>
    <2>1. replay \in Seq(State) /\ replay' \in Seq(State)
      BY <1>0, <1>1 DEF TypeOK
    <2>2. PICK s : replay' = Append(replay, s)
      BY <1>2
    <2>3. Len(replay') = Len(replay) + 1 /\ Len(replay) \in Nat
      BY <2>1, <2>2
    <2> QED
      BY <2>3
  <1> QED
    BY <1>1, <1>3, <1>4, <1>5, <1>7, <1>8 DEF KvInv

\* Entries and snapshots on their way to the state machine.
LEMMA DeliveryStep ==
    ASSUME KvInv, NEW i \in Server,
           applierTicker(i) \/ (\E from \in Server : InstallSnapshot(i, from)) \/ pushMsgToKvServer(i)
    PROVE  KvInv'
  <1>0. TypeOK /\ Clerks /\ Calls /\ Accepted /\ Tables /\ AckedCommitted /\ replay # <<>>
    BY DEF KvInv
  <1>1. TypeOK'
    BY <1>0, RaftTypes
  <1>2. UNCHANGED <<log, proposed, calls, clerk, acked, issued, replay, machine>>
    BY DEF applierTicker, InstallSnapshot, pushMsgToKvServer, clientVars, serverVars
  <1>3. Kept /\ Clerks' /\ AckedCommitted' /\ \A call \in calls : NewGood(call)
    BY <1>0, <1>1, <1>2, ServerStep
  <1>4. Calls' /\ Accepted'
    BY <1>0, <1>2, <1>3, CallsNext, AcceptedNext
  <1>t. /\ applyChan \in [Server -> Seq(Message)] /\ incoming \in [Server -> SUBSET SnapshotFile]
        /\ snapshot \in [Server -> SnapshotFile] /\ applyChan' \in [Server -> Seq(Message)]
        /\ log \in Seq(Entry) /\ lastApplied \in [Server -> Nat]
    BY <1>0, <1>1 DEF TypeOK
  <1> DEFINE ch == applyChan[i]
  <1>c. ch \in Seq(Message) /\ Len(ch) \in Nat
    BY <1>t, LenProperties
  <1>5. CASE applierTicker(i)
    <2> DEFINE message == [type |-> "command", index |-> lastApplied'[i], op |-> log[lastApplied'[i]]]
    <2>1. /\ applyChan' = [applyChan EXCEPT ![i] = Append(ch, message)]
          /\ UNCHANGED <<snapshot, incoming>>
          /\ lastApplied[i] < Len(log) /\ lastApplied' = [lastApplied EXCEPT ![i] = lastApplied[i] + 1]
      BY <1>5 DEF applierTicker
    <2>2. lastApplied'[i] \in 1 .. Len(log)
      <3>1. Len(log) \in Nat /\ lastApplied[i] \in Nat
        BY <1>t, LenProperties
      <3>2. lastApplied'[i] = lastApplied[i] + 1
        BY <1>t, <2>1
      <3> QED
        BY <2>1, <3>1, <3>2
    <2>3. message.type = "command" /\ NewLog(message.op)
      BY <1>2, <2>2 DEF NewLog
    <2> HIDE DEF message, ch
    <2>4. /\ applyChan'[i] = Append(ch, message)
          /\ \A j \in Server : j # i => applyChan'[j] = applyChan[j]
      BY <1>t, <2>1
    <2>5. \A k \in 1 .. Len(applyChan'[i]) :
             (k \in 1 .. Len(ch) /\ applyChan'[i][k] = ch[k]) \/ applyChan'[i][k] = message
      <3>1. Append(ch, message) \in Seq(Message)
        BY <1>t, <2>4
      <3>2. /\ Len(Append(ch, message)) = Len(ch) + 1
            /\ Append(ch, message)[Len(ch) + 1] = message
            /\ \A k \in 1 .. Len(ch) : Append(ch, message)[k] = ch[k]
        BY <1>c
      <3> QED
        BY <1>c, <2>4, <3>2
    <2>6. ASSUME NEW j \in Server, NEW k \in 1 .. Len(applyChan'[j])
          PROVE  \/ \E l \in 1 .. Len(applyChan[j]) : applyChan'[j][k] = applyChan[j][l]
                 \/ /\ applyChan'[j][k].type = "command" => NewLog(applyChan'[j][k].op)
                    /\ applyChan'[j][k].type = "snapshot" => NewTable(applyChan'[j][k].state)
      <3>1. CASE j # i
        BY <2>4, <2>6, <3>1
      <3>2. CASE j = i
        BY <2>3, <2>5, <2>6, <3>2 DEF ch
      <3> QED
        BY <3>1, <3>2
    <2>7. Tables'
      BY <1>0, <1>2, <1>3, <2>1, <2>6, TablesMoved
    <2> QED
      BY <1>0, <1>1, <1>2, <1>3, <1>4, <2>7 DEF KvInv
  <1>6. ASSUME NEW from \in Server, InstallSnapshot(i, from) PROVE KvInv'
    <2>1. /\ snapshot' = [snapshot EXCEPT ![i] = snapshot[from]]
          /\ incoming' = [incoming EXCEPT ![i] = incoming[i] \cup {snapshot[from]}]
          /\ UNCHANGED applyChan
      BY <1>6 DEF InstallSnapshot, serverVars
    <2>2. NewTable(snapshot[from].state)
      BY <1>0, <1>3, <1>t DEF Tables, Kept, SnapshotFile
    <2>3. \A j \in Server : snapshot'[j] = snapshot[j] \/ NewTable(snapshot'[j].state)
      BY <1>t, <2>1, <2>2
    <2>4. \A j \in Server : \A s \in incoming'[j] : s \in incoming[j] \/ NewTable(s.state)
      BY <1>t, <2>1, <2>2
    <2>5. Tables'
      BY <1>0, <1>2, <1>3, <2>1, <2>3, <2>4, TablesMoved
    <2> QED
      BY <1>0, <1>1, <1>2, <1>3, <1>4, <2>5 DEF KvInv
  <1>7. CASE pushMsgToKvServer(i)
    <2>1. PICK s \in incoming[i], n \in 0 .. Len(applyChan[i]) :
            /\ incoming' = [incoming EXCEPT ![i] = @ \ {s}]
            /\ applyChan' = [applyChan EXCEPT ![i] =
               SubSeq(@, 1, n) \o <<[type |-> "snapshot", index |-> s.index, state |-> s.state]>>
                 \o SubSeq(@, n + 1, Len(@))]
      BY <1>7 DEF pushMsgToKvServer
    <2> DEFINE message == [type |-> "snapshot", index |-> s.index, state |-> s.state]
               new == SubSeq(ch, 1, n) \o <<message>> \o SubSeq(ch, n + 1, Len(ch))
    <2>2. s \in SnapshotFile
      BY <1>t
    <2>3. NewTable(s.state)
      BY <1>0, <1>3, <2>2 DEF Tables, Kept, SnapshotFile
    <2>4. message.type = "snapshot" /\ message.state = s.state
      OBVIOUS
    <2>5. applyChan'[i] = new /\ \A j \in Server : j # i => applyChan'[j] = applyChan[j]
      BY <1>t, <2>1
    <2>n. n \in Nat /\ n <= Len(ch)
      BY <1>c
    <2> HIDE DEF message, ch
    <2>6. ASSUME NEW k \in 1 .. Len(new)
          PROVE  new[k] = message \/ \E l \in 1 .. Len(ch) : new[k] = ch[l]
      <3> DEFINE a == SubSeq(ch, 1, n)
                 b == SubSeq(ch, n + 1, Len(ch))
      <3>1. /\ a \in Seq(Message) /\ Len(a) = n /\ \A m \in 1 .. n : a[m] = ch[m]
        BY <1>c, <2>n
      <3>2. /\ b \in Seq(Message) /\ Len(b) = Len(ch) - n
            /\ \A m \in 1 .. Len(ch) - n : b[m] = ch[n + m]
        BY <1>c, <2>n
      <3> DEFINE S == Message \cup {message}
      <3>3. a \in Seq(S) /\ b \in Seq(S) /\ <<message>> \in Seq(S)
        BY <3>1, <3>2
      <3>4. new = (a \o <<message>>) \o b
        OBVIOUS
      <3> HIDE DEF a, b, new, S
      <3> DEFINE d == a \o <<message>>
      <3>5. /\ d \in Seq(S) /\ Len(d) = n + 1 /\ \A m \in 1 .. n : d[m] = a[m]
            /\ d[n + 1] = message
        BY <2>n, <3>1, <3>3
      <3>d. new = d \o b
        BY <3>4
      <3> HIDE DEF d
      <3>6. Len(b) \in Nat /\ Len(new) = n + 1 + Len(b)
        <4>1. Len(new) = Len(d) + Len(b)
          BY <3>3, <3>5, <3>d, ConcatProperties
        <4> QED
          BY <2>n, <3>3, <3>5, <4>1, LenProperties
      <3>7. CASE k <= n
        <4>1. new[k] = d[k] /\ d[k] = a[k] /\ a[k] = ch[k] /\ k \in 1 .. Len(ch)
          BY <1>c, <2>n, <3>1, <3>3, <3>d, <3>5, <3>6, <3>7, ConcatProperties
        <4> QED
          BY <4>1
      <3>8. CASE k = n + 1
        <4>1. new[k] = d[n + 1]
          BY <1>c, <2>n, <3>3, <3>d, <3>5, <3>6, <3>8, ConcatProperties
        <4> QED
          BY <3>5, <4>1
      <3>9. CASE k > n + 1
        <4>1. k - (n + 1) \in 1 .. Len(b) /\ k - 1 \in 1 .. Len(ch)
          BY <1>c, <2>6, <2>n, <3>2, <3>6, <3>9
        <4>2. new[k] = b[k - (n + 1)]
          BY <1>c, <2>n, <3>3, <3>d, <3>5, <3>6, <3>9, <4>1, ConcatProperties
        <4>3. b[k - (n + 1)] = ch[n + (k - (n + 1))]
          BY <3>2, <4>1
        <4>4. n + (k - (n + 1)) = k - 1
          BY <2>n, <3>6
        <4> QED
          BY <4>1, <4>2, <4>3, <4>4
      <3> QED
        BY <2>n, <3>6, <3>7, <3>8, <3>9
    <2> HIDE DEF new
    <2>7. ASSUME NEW j \in Server, NEW k \in 1 .. Len(applyChan'[j])
          PROVE  \/ \E l \in 1 .. Len(applyChan[j]) : applyChan'[j][k] = applyChan[j][l]
                 \/ /\ applyChan'[j][k].type = "command" => NewLog(applyChan'[j][k].op)
                    /\ applyChan'[j][k].type = "snapshot" => NewTable(applyChan'[j][k].state)
      <3>1. CASE j # i
        BY <2>5, <2>7, <3>1
      <3>2. CASE j = i
        <4>1. k \in 1 .. Len(new) /\ applyChan'[j][k] = new[k]
          BY <2>5, <2>7, <3>2
        <4>2. CASE new[k] = message
          <5>1. applyChan'[j][k].type = "snapshot" /\ applyChan'[j][k].state = s.state
            BY <2>4, <4>1, <4>2
          <5> QED
            BY <2>3, <5>1
        <4>3. CASE \E l \in 1 .. Len(ch) : new[k] = ch[l]
          BY <3>2, <4>1, <4>3 DEF ch
        <4> QED
          BY <2>6, <4>1, <4>2, <4>3
      <3> QED
        BY <3>1, <3>2
    <2>8. /\ UNCHANGED snapshot /\ \A j \in Server : incoming'[j] \subseteq incoming[j]
      BY <1>7, <1>t, <2>1 DEF pushMsgToKvServer
    <2>9. Tables'
      BY <1>0, <1>2, <1>3, <2>7, <2>8, TablesMoved
    <2> QED
      BY <1>0, <1>1, <1>2, <1>3, <1>4, <2>9 DEF KvInv
  <1> QED
    BY <1>5, <1>6, <1>7

\* The apply loop.
LEMMA ApplyStep ==
    ASSUME KvInv, NEW i \in Server, ReadRaftApplyCommandLoop(i)
    PROVE  KvInv'
  <1>0. TypeOK /\ Clerks /\ Calls /\ Accepted /\ Tables /\ AckedCommitted /\ replay # <<>>
    BY DEF KvInv
  <1>1. TypeOK'
    BY <1>0, ApplyTypes
  <1>2. UNCHANGED <<log, proposed, incoming, clerk, acked, issued, replay>>
    BY DEF ReadRaftApplyCommandLoop
  <1>3. Kept /\ Clerks' /\ AckedCommitted' /\ \A call \in calls : NewGood(call)
    BY <1>0, <1>1, <1>2, ServerStep
  <1>4. Accepted'
    BY <1>0, <1>2, <1>3, AcceptedNext
  <1>t. /\ applyChan \in [Server -> Seq(Message)] /\ machine \in [Server -> State]
        /\ snapshot \in [Server -> SnapshotFile] /\ calls \subseteq Call
        /\ lastSnapshot \in [Server -> Nat]
    BY <1>0 DEF TypeOK
  <1> DEFINE message == Head(applyChan[i])
  <1>5. applyChan[i] # <<>> /\ applyChan' = [applyChan EXCEPT ![i] = Tail(applyChan[i])]
    BY DEF ReadRaftApplyCommandLoop
  <1>6. /\ message = applyChan[i][1] /\ message \in Message /\ 1 \in 1 .. Len(applyChan[i])
        /\ \A k \in 1 .. Len(Tail(applyChan[i])) :
              k + 1 \in 1 .. Len(applyChan[i]) /\ Tail(applyChan[i])[k] = applyChan[i][k + 1]
    BY <1>0, <1>5, HeadMessage
  <1>7. /\ message.type = "command" => message.op \in Entry /\ InLog(message.op)
        /\ message.type = "snapshot" => message.state \in State /\ Table(message.state)
    <2>1. /\ message.type = "command" => message.op \in Entry
          /\ message.type = "snapshot" => message.state \in State
      BY <1>6 DEF Message
    <2> QED
      BY <1>0, <1>6, <2>1 DEF Tables
  <1>8. \A j \in Server : \A k \in 1 .. Len(applyChan'[j]) :
           \E l \in 1 .. Len(applyChan[j]) : applyChan'[j][k] = applyChan[j][l]
    <2> TAKE j \in Server
    <2>1. CASE j # i
      <3>1. applyChan'[j] = applyChan[j]
        BY <1>t, <1>5, <2>1
      <3> QED
        BY <3>1
    <2>2. CASE j = i
      <3>1. applyChan'[j] = Tail(applyChan[i])
        BY <1>t, <1>5, <2>2
      <3> QED
        BY <1>6, <2>2, <3>1
    <2> QED
      BY <2>1, <2>2
  <1>9. GetCommandFromRaft(i, message) \/ GetSnapShotFromRaft(i, message)
    BY DEF ReadRaftApplyCommandLoop
  <1>10. message.index \in Nat
    BY <1>6 DEF Message
  <1> HIDE DEF message
  <1>11. /\ \A j \in Server : machine'[j] = machine[j] \/ NewTable(machine'[j])
         /\ \A j \in Server : snapshot'[j] = snapshot[j] \/ NewTable(snapshot'[j].state)
         /\ \A call \in calls' : NewGood(call)
    <2>1. CASE GetSnapShotFromRaft(i, message)
      <3>1. /\ machine' = [machine EXCEPT ![i] = message.state] /\ UNCHANGED <<snapshot, calls>>
            /\ message.type = "snapshot"
        BY <2>1 DEF GetSnapShotFromRaft
      <3>2. NewTable(message.state)
        BY <1>3, <1>7, <3>1 DEF Kept
      <3> QED
        BY <1>3, <1>t, <3>1, <3>2
    <2>2. CASE GetCommandFromRaft(i, message) /\ message.index <= lastSnapshot[i]
      <3>1. UNCHANGED <<machine, snapshot, calls>>
        BY <1>t, <1>10, <2>2 DEF GetCommandFromRaft
      <3> QED
        BY <1>3, <3>1
    <2>3. CASE GetCommandFromRaft(i, message) /\ message.index > lastSnapshot[i]
      <3> DEFINE m == Execute(machine[i], message.op)
      <3>1. /\ machine' = [machine EXCEPT ![i] = m]
            /\ MaySnapshot(i, message.index)
            /\ calls' = Notified(i, message.index, message.op)
            /\ message.type = "command"
        BY <1>t, <1>10, <2>3 DEF GetCommandFromRaft
      <3>2. message.op \in Entry /\ InLog(message.op)
        BY <1>7, <3>1
      <3>3. machine[i] \in State /\ Table(machine[i])
        BY <1>0, <1>t DEF Tables
      <3>4. m \in State /\ Table(m)
        BY <1>0, <3>2, <3>3, MachineTypes, TableExecute
      <3> HIDE DEF m
      <3>5. NewTable(m) /\ NewLog(message.op)
        BY <1>3, <3>2, <3>4 DEF Kept
      <3>6. machine'[i] = m /\ \A j \in Server : machine'[j] = machine[j] \/ NewTable(machine'[j])
        BY <1>t, <3>1, <3>5
      <3>7. \A j \in Server : snapshot'[j] = snapshot[j] \/ NewTable(snapshot'[j].state)
        <4>1. \/ snapshot' = snapshot
              \/ snapshot' = [snapshot EXCEPT ![i] = [index |-> message.index, state |-> m]]
          BY <3>1, <3>6 DEF MaySnapshot, MakeSnapShot
        <4> QED
          BY <1>t, <3>5, <4>1
      <3>8. ASSUME NEW call \in calls
            PROVE  NewGood([call EXCEPT !.got = Append(@, message.op)])
        <4> DEFINE new == [call EXCEPT !.got = Append(@, message.op)]
        <4>1. call \in Call /\ call.got \in Seq(Entry)
          BY <1>t, CallTypes
        <4>2. /\ new.op = call.op /\ new.id = call.id /\ new.phase = call.phase
              /\ new.got = Append(call.got, message.op)
          BY <4>1 DEF Call
        <4> HIDE DEF new
        <4>3. NewGood(call)
          BY <1>3
        <4>4. \A k \in 1 .. Len(new.got) : NewLog(new.got[k])
          <5>1. /\ Len(new.got) = Len(call.got) + 1 /\ new.got[Len(call.got) + 1] = message.op
                /\ \A k \in 1 .. Len(call.got) : new.got[k] = call.got[k]
                /\ Len(call.got) \in Nat
            BY <3>2, <4>1, <4>2, AppendProperties, LenProperties
          <5> TAKE k \in 1 .. Len(new.got)
          <5>2. k \in 1 .. Len(call.got) \/ k = Len(call.got) + 1
            BY <5>1
          <5> QED
            BY <3>5, <4>3, <5>1, <5>2 DEF NewGood
        <4>5. NewGood(new)
          BY <4>2, <4>3, <4>4 DEF NewGood
        <4> QED
          BY <4>5 DEF new
      <3>9. \A call \in calls' : NewGood(call)
        BY <1>3, <3>1, <3>8 DEF Notified
      <3> QED
        BY <3>6, <3>7, <3>9
    <2> QED
      BY <1>t, <1>9, <1>10, <2>1, <2>2, <2>3
  <1>12. Tables'
    BY <1>0, <1>2, <1>3, <1>8, <1>11, TablesMoved
  <1>13. Calls'
    BY <1>11, CallsNext
  <1> QED
    BY <1>0, <1>1, <1>2, <1>3, <1>4, <1>12, <1>13 DEF KvInv

\* A crash: what the threads knew is gone, what the snapshot knows is true.
LEMMA RestartStep ==
    ASSUME KvInv, NEW i \in Server, Restart(i)
    PROVE  KvInv'
  <1>0. TypeOK /\ Clerks /\ Calls /\ Accepted /\ Tables /\ AckedCommitted /\ replay # <<>>
    BY DEF KvInv
  <1>1. TypeOK'
    BY <1>0, RaftTypes
  <1>2. /\ UNCHANGED <<log, proposed, snapshot, clerk, acked, issued, replay>>
        /\ calls' \subseteq calls
        /\ machine' = [machine EXCEPT ![i] = snapshot[i].state]
        /\ incoming' = [incoming EXCEPT ![i] = {}] /\ applyChan' = [applyChan EXCEPT ![i] = <<>>]
    BY DEF Restart
  <1>3. Kept /\ Clerks' /\ AckedCommitted' /\ \A call \in calls : NewGood(call)
    BY <1>0, <1>1, <1>2, ServerStep
  <1>4. Accepted' /\ Calls'
    BY <1>0, <1>2, <1>3, AcceptedNext, CallsNext
  <1>t. /\ applyChan \in [Server -> Seq(Message)] /\ machine \in [Server -> State]
        /\ snapshot \in [Server -> SnapshotFile] /\ incoming \in [Server -> SUBSET SnapshotFile]
    BY <1>0 DEF TypeOK
  <1>5. NewTable(snapshot[i].state)
    BY <1>0, <1>3, <1>t DEF Tables, Kept, SnapshotFile
  <1>6. \A j \in Server : machine'[j] = machine[j] \/ NewTable(machine'[j])
    BY <1>t, <1>2, <1>5
  <1>7. \A j \in Server : incoming'[j] \subseteq incoming[j]
    BY <1>t, <1>2
  <1>8. \A j \in Server : \A k \in 1 .. Len(applyChan'[j]) :
           \E l \in 1 .. Len(applyChan[j]) : applyChan'[j][k] = applyChan[j][l]
    <2> TAKE j \in Server
    <2>1. applyChan'[j] = applyChan[j] \/ applyChan'[j] = <<>>
      BY <1>t, <1>2
    <2> QED
      BY <2>1
  <1>9. Tables'
    BY <1>0, <1>2, <1>3, <1>6, <1>7, <1>8, TablesMoved
  <1> QED
    BY <1>0, <1>1, <1>2, <1>3, <1>4, <1>9 DEF KvInv

\* In the beginning nobody has asked for anything.
LEMMA InitKv == Init => KvInv
  <1> SUFFICES ASSUME Init PROVE KvInv
    OBVIOUS
  <1>1. TypeOK
    BY InitTypes
  <1>2. Len(log) = 0
    BY DEF Init
  <1>3. Clerks
    BY DEF Init, Clerks, NoCall, Noop, IsWrite
  <1>4. Calls /\ AckedCommitted
    BY DEF Init, Calls, AckedCommitted
  <1>5. Accepted
    BY <1>2 DEF Init, Accepted
  <1>6. \A c \in Client : clerk[c].request = 0 /\ ~ IsWrite(clerk[c].op)
    BY DEF Init, Noop, IsWrite
  <1>7. Table(Fresh)
    BY <1>6 DEF Table, Fresh
  <1>8. Tables
    BY <1>7 DEF Init, Tables
  <1>9. replay # <<>>
    BY DEF Init
  <1> QED
    BY <1>1, <1>3, <1>4, <1>5, <1>8, <1>9 DEF KvInv

\* KvInv is inductive: whatever the Clerks, the servers' threads and the Raft
\* layer do, retries, late answers, crashes and installed snapshots included.
THEOREM KvInvariant == Spec => []KvInv
  <1>1. Init => KvInv
    BY InitKv
  <1>2. KvInv /\ [Next]_vars => KvInv'
    <2> SUFFICES ASSUME KvInv, [Next]_vars PROVE KvInv'
      OBVIOUS
    <2>1. CASE UNCHANGED vars
      <3>0. /\ TypeOK /\ Clerks /\ Calls /\ Accepted /\ Tables /\ AckedCommitted /\ replay # <<>>
            /\ UNCHANGED <<log, proposed, incoming, snapshot, applyChan, machine, calls, clerk,
                           acked, issued, replay>>
        BY <2>1 DEF KvInv, vars, raftVars, serverVars, clientVars
      <3>1. TypeOK'
        BY <2>1, <3>0 DEF vars, raftVars, serverVars, clientVars, TypeOK
      <3>2. Kept /\ Clerks' /\ AckedCommitted' /\ \A call \in calls : NewGood(call)
        BY <3>0, <3>1, ServerStep
      <3>3. Calls' /\ Accepted' /\ Tables'
        BY <3>0, <3>2, CallsNext, AcceptedNext, TablesNext
      <3> QED
        BY <3>0, <3>1, <3>2, <3>3 DEF KvInv
    <2>2. CASE Next
      <3>1. ASSUME NEW c \in Client, NEW kind \in Kinds, NEW key \in Key, Request(c, kind, key)
            PROVE  KvInv'
        BY <3>1, RequestStep
      <3>2. ASSUME NEW c \in Client, Retry(c) PROVE KvInv'
        BY <3>2, RetryStep
      <3>3. ASSUME NEW call \in calls,
                   \/ Start(call) \/ NotLeader(call) \/ Listen(call) \/ Popped(call)
                   \/ TimedOut(call) \/ ReadIndex(call) \/ ReadOnlyGet(call)
            PROVE  KvInv'
        BY <3>3, HandlerStep
      <3>4. ASSUME NEW op \in {p.op : p \in proposed} \cup {Noop}, Commit(op) PROVE KvInv'
        BY <3>4, CommitStep
      <3>5. ASSUME NEW i \in Server,
                   \/ applierTicker(i)
                   \/ \E from \in Server : InstallSnapshot(i, from)
                   \/ pushMsgToKvServer(i)
            PROVE  KvInv'
        BY <3>5, DeliveryStep
      <3>6. ASSUME NEW i \in Server, ReadRaftApplyCommandLoop(i) PROVE KvInv'
        BY <3>6, ApplyStep
      <3>7. ASSUME NEW i \in Server, Restart(i) PROVE KvInv'
        BY <3>7, RestartStep
      <3> QED
        BY <2>2, <3>1, <3>2, <3>3, <3>4, <3>5, <3>6, <3>7 DEF Next
    <2> QED
      BY <2>1, <2>2
  <1> QED
    BY <1>1, <1>2, PTL DEF Spec

\* Type correctness of the KV servers, the Clerks and the Raft layer between
\* them.  (It needs Clerks: a retry repeats a request that was made.)
THEOREM KvTypes == Spec => []TypeOK
  <1>1. KvInv => TypeOK
    BY DEF KvInv
  <1> QED
    BY <1>1, KvInvariant, PTL

\* A write that PutAppend answered OK is in the agreed log, for every number of
\* servers and Clerks and any schedule of retries, timeouts and restarts.
THEOREM AcknowledgedWritesCommitted == Spec => []AckedCommitted
  <1>1. KvInv => AckedCommitted
    BY DEF KvInv
  <1> QED
    BY <1>1, KvInvariant, PTL
-----------------------------------------------------------------------------
(***************************************************************************)
(* Replicas, snapshots and reads.                                          *)
(*                                                                         *)
(* Replicas and snapshots agree with the log as long as no Clerk both      *)
(* reads and writes and no snapshot is installed over a running server.    *)
(* Without the first, an abandoned Get reopens a request number (the run   *)
(* kv_duplicate); without the second, an installed snapshot may overtake   *)
(* or undo entries (raft.cpp:481).  A read misses no write acknowledged    *)
(* before it began if, besides, it goes through the log: the commit index  *)
(* that ReadIndex takes may be behind an earlier leader's (raft.cpp:1199), *)
(* and lastApplied moves before the entries are executed (raft.cpp:379).   *)
(***************************************************************************)
Separate == Reader \cap Writer = {} /\ MaxInstalls = 0

Role(op) == op.kind = "Get" <=> op.client \in Reader

Roles ==
    /\ \A call \in calls : Role(call.op)
    /\ \A c \in Client : clerk[c].request > 0 => Role(clerk[c].op)
    /\ \A p \in proposed : Role(p.op) /\ Settled(p.op)
    /\ \A k \in 1 .. Len(log) : log[k] = Noop \/ Role(log[k])

\* The ideal machine is one that executes as the servers do: for it, a request
\* is a duplicate exactly when it is in the log already.
Top == replay[Len(replay)]

Ideal ==
    /\ Len(replay) = Len(log) + 1
    /\ \A k \in 1 .. Len(log) : replay[k + 1] = Execute(replay[k], log[k])
    /\ Table(Top)
    /\ \A k \in 1 .. Len(log) : IsWrite(log[k]) => log[k].request <= Top.last[log[k].client]

\* States that differ only in what reads leave in the duplicate table.
Alike(m, n) == m.db = n.db /\ \A c \in Client \ Reader : m.last[c] = n.last[c]

\* The entries between what a server has executed and what its Raft node has
\* handed over are in its channel, in order.
Channel(i) ==
    /\ position[i] <= lastApplied[i] /\ lastApplied[i] <= Len(log)
    /\ Len(applyChan[i]) = lastApplied[i] - position[i]
    /\ \A k \in 1 .. Len(applyChan[i]) :
          applyChan[i][k] = [type |-> "command", index |-> position[i] + k,
                             op |-> log[position[i] + k]]

Replica(i) ==
    /\ incoming[i] = {} /\ lastSnapshot[i] = 0
    /\ Alike(machine[i], replay[position[i] + 1])
    /\ snapshot[i].index <= Len(log)
    /\ Alike(snapshot[i].state, replay[snapshot[i].index + 1])

ReplayInv == Roles /\ Ideal /\ \A i \in Server : Channel(i) /\ Replica(i)

-----------------------------------------------------------------------------
\* A table in which a Clerk's current read is marked stands for a state that
\* covers what the read has to cover.
Covers(m, index) ==
    \A c \in Client :
        clerk[c].op.kind = "Get" /\ m.last[c] = clerk[c].request => clerk[c].floor <= index

Floors ==
    \A c \in Client :
        /\ clerk[c].floor <= Len(log)
        /\ \A k \in 1 .. Len(log) :
              clerk[c].op.kind = "Get" /\ log[k] = clerk[c].op => clerk[c].floor <= k

\* The wait channel holds the entry of the index the thread waits for.
Delivered ==
    \A call \in calls :
        /\ call.phase # "reading"
        /\ call.got # <<>> => /\ call.phase = "waiting"
                              /\ call.index >= 1 /\ call.index <= position[call.server]
                              /\ \A k \in 1 .. Len(call.got) : call.got[k] = log[call.index]

Covered ==
    \A i \in Server :
        /\ Covers(machine[i], position[i])
        /\ Covers(snapshot[i].state, snapshot[i].index)

FreshInv == Floors /\ Delivered /\ Covered /\ ReadsFresh

-----------------------------------------------------------------------------
(***************************************************************************)
(* The state machine.                                                      *)
(***************************************************************************)
\* Executing a command keeps states alike: a write is a duplicate in both or
\* in neither, for writers' numbers are the same.
LEMMA AlikeExecute ==
    ASSUME NEW m \in State, NEW n \in State, NEW op \in Entry, op = Noop \/ Role(op), Alike(m, n)
    PROVE  Alike(Execute(m, op), Execute(n, op))
  <1>1. CASE ~ IsWrite(op)
    <2>1. Execute(m, op) = m /\ Execute(n, op) = n
      BY <1>1 DEF Execute, IsWrite
    <2> QED
      BY <2>1
  <1>2. CASE IsWrite(op)
    <2>1. op \in Operation /\ op # Noop
      BY <1>2 DEF Entry, Noop, IsWrite
    <2>2. op.client \in Client \ Reader
      BY <1>2, <2>1 DEF Role, Operation, IsWrite
    <2>3. Duplicate(m, op) <=> Duplicate(n, op)
      BY <2>2 DEF Alike, Duplicate
    <2>4. CASE Duplicate(m, op)
      <3>1. Execute(m, op) = m /\ Execute(n, op) = n
        BY <2>3, <2>4 DEF Execute
      <3> QED
        BY <3>1
    <2>5. CASE ~ Duplicate(m, op)
      <3>1. m.last \in [Client -> Nat] /\ n.last \in [Client -> Nat] /\ m.db = n.db
        BY DEF State, Alike
      <3>2. /\ ExecutePut(m, op).db = ExecutePut(n, op).db
            /\ ExecuteAppend(m, op).db = ExecuteAppend(n, op).db
        BY <3>1 DEF ExecutePut, ExecuteAppend
      <3>3. \A c \in Client \ Reader :
               /\ ExecutePut(m, op).last[c] = ExecutePut(n, op).last[c]
               /\ ExecuteAppend(m, op).last[c] = ExecuteAppend(n, op).last[c]
        BY <2>2, <3>1 DEF ExecutePut, ExecuteAppend, Alike
      <3>4. CASE op.kind = "Put"
        <4>1. Execute(m, op) = ExecutePut(m, op) /\ Execute(n, op) = ExecutePut(n, op)
          BY <2>3, <2>5, <3>4 DEF Execute
        <4> QED
          BY <3>2, <3>3, <4>1 DEF Alike
      <3>5. CASE op.kind = "Append"
        <4>1. Execute(m, op) = ExecuteAppend(m, op) /\ Execute(n, op) = ExecuteAppend(n, op)
          BY <2>3, <2>5, <3>5 DEF Execute
        <4> QED
          BY <3>2, <3>3, <4>1 DEF Alike
      <3> QED
        BY <1>2, <3>4, <3>5 DEF IsWrite
    <2> QED
      BY <2>4, <2>5
  <1> QED
    BY <1>1, <1>2

\* Serving a read leaves a state alike.
LEMMA AlikeGet ==
    ASSUME NEW m \in State, NEW n \in State, NEW op \in Operation, op.client \in Reader, Alike(m, n)
    PROVE  Alike(ExecuteGet(m, op), n)
  <1>1. op.client \in Client /\ m.last \in [Client -> Nat]
    BY DEF Operation, State
  <1>2. ExecuteGet(m, op).db = m.db /\ ExecuteGet(m, op).last = [m.last EXCEPT ![op.client] = op.request]
    BY DEF ExecuteGet, State
  <1> QED
    BY <1>1, <1>2 DEF Alike

-----------------------------------------------------------------------------
(***************************************************************************)
(* What every step leaves standing.                                        *)
(***************************************************************************)
\* A Clerk that hears an answer keeps its request.
LEMMA AnswerSame ==
    ASSUME TypeOK, NEW call \in calls, Answer(call) \/ Refuse(call)
    PROVE  /\ SameClerks /\ calls' \subseteq calls
           /\ \A c \in Client : clerk'[c].floor = clerk[c].floor
  <1>1. clerk \in [Client -> ClerkState]
    BY DEF TypeOK, ClerkState
  <1>2. \/ clerk' = clerk
        \/ \E r : clerk' = [clerk EXCEPT ![call.op.client].call = NoCall, ![call.op.client].recent = r]
    <2>1. CASE Refuse(call) \/ clerk[call.op.client].call # call.id
      BY <2>1 DEF Answer, Refuse
    <2>2. CASE Answer(call) /\ clerk[call.op.client].call = call.id
      <3>1. clerk' = [clerk EXCEPT ![call.op.client].call = NoCall,
                            ![call.op.client].recent = IF Missing(call) THEN @ ELSE call.server]
        BY <2>2 DEF Answer
      <3> QED
        BY <3>1
    <2> QED
      BY <2>1, <2>2
  <1>3. call.op.client \in Client
    BY DEF TypeOK, Call, Operation
  <1>4. \A c \in Client : /\ clerk'[c].request = clerk[c].request /\ clerk'[c].op = clerk[c].op
                          /\ clerk'[c].floor = clerk[c].floor
    <2> DEFINE d == call.op.client
    <2>1. d \in Client
      BY <1>3
    <2>2. \/ clerk' = clerk \/ \E r : clerk' = [clerk EXCEPT ![d].call = NoCall, ![d].recent = r]
      BY <1>2
    <2> HIDE DEF d
    <2> QED
      BY <1>1, <2>1, <2>2 DEF ClerkState
  <1> QED
    BY <1>4 DEF Answer, Refuse, SameClerks

Handler(call) ==
    \/ Start(call) \/ NotLeader(call) \/ Listen(call) \/ Popped(call) \/ TimedOut(call)
    \/ ReadIndex(call) \/ ReadOnlyGet(call)

\* The threads change what they may.
LEMMA HandlerFrame ==
    ASSUME TypeOK, NEW call \in calls, Handler(call)
    PROVE  /\ SameClerks /\ \A c \in Client : clerk'[c].floor = clerk[c].floor
           /\ UNCHANGED <<log, replay, lastApplied, snapshot, incoming, applyChan, lastSnapshot,
                          position>>
           /\ machine' = machine \/ (ServeGet(call) /\ machine' # machine)
           /\ \A d \in calls' : \E e \in calls : d.op = e.op
           /\ \A p \in proposed' : p \in proposed \/ p.op = call.op
  <1>0. calls \subseteq Call
    BY DEF TypeOK
  <1>1. CASE Start(call)
    <2>1. PICK index \in (lastApplied[call.server] + 1 .. Len(log) + 1) \cup {given[call.server] + 1} :
            /\ proposed' = IF index > Len(log)
                           THEN proposed \cup {[index |-> index, op |-> call.op]}
                           ELSE proposed
            /\ calls' = (calls \ {call}) \cup
                 {[call EXCEPT !.phase = "started", !.index = index]}
      BY <1>1 DEF Start
    <2>2. [call EXCEPT !.phase = "started", !.index = index].op = call.op
      BY <1>0 DEF Call
    <2>3. \A d \in calls' : \E e \in calls : d.op = e.op
      BY <2>1, <2>2
    <2>4. \A p \in proposed' : p \in proposed \/ p.op = call.op
      BY <2>1
    <2> QED
      BY <1>1, <2>3, <2>4 DEF Start, SameClerks, serverVars
  <1>2. CASE Listen(call)
    <2>1. [call EXCEPT !.phase = "waiting"].op = call.op
      BY <1>0 DEF Call
    <2> QED
      BY <1>2, <2>1 DEF Listen, SameClerks, raftVars, serverVars
  <1>3. CASE ReadIndex(call)
    <2>1. [call EXCEPT !.phase = "reading", !.index = Len(log)].op = call.op
      BY <1>0 DEF Call
    <2> QED
      BY <1>3, <2>1 DEF ReadIndex, SameClerks, raftVars, serverVars
  <1>4. CASE NotLeader(call) \/ ReadOnlyGet(call)
    BY <1>4, AnswerSame DEF NotLeader, ReadOnlyGet, raftVars, serverVars
  <1>5. CASE Popped(call) \/ TimedOut(call)
    <2>1. /\ Answer(call) \/ Refuse(call)
          /\ ServeGet(call) \/ UNCHANGED serverVars
          /\ UNCHANGED <<raftVars, replay>>
      BY <1>5 DEF Popped, TimedOut
    <2> QED
      BY <2>1, AnswerSame DEF ServeGet, raftVars, serverVars
  <1> QED
    BY <1>1, <1>2, <1>3, <1>4, <1>5 DEF Handler

\* The steps of the Clerks.
LEMMA ClerkFrame ==
    ASSUME KvInv, NEW c \in Client,
           (\E kind \in Kinds, key \in Key : Request(c, kind, key)) \/ Retry(c)
    PROVE  /\ Kept
           /\ UNCHANGED <<log, proposed, replay, lastApplied, snapshot, incoming, applyChan,
                          lastSnapshot, position, machine, answers>>
           /\ \A d \in calls' : d \in calls \/ (d.op = clerk'[c].op /\ d.got = <<>> /\ d.phase = "sent")
           /\ \A d \in Client : d # c => clerk'[d] = clerk[d]
           /\ \/ clerk'[c].op = clerk[c].op /\ clerk'[c].request = clerk[c].request
                 /\ clerk'[c].floor = clerk[c].floor /\ clerk[c].request > 0
              \/ /\ clerk'[c].request = clerk[c].request + 1
                 /\ clerk'[c].floor = AckedIndex
                 /\ clerk'[c].op.client = c
                 /\ clerk'[c].op.request = clerk'[c].request
                 /\ clerk'[c].op.kind = "Get" => c \in Reader
                 /\ clerk'[c].op.kind # "Get" => c \in Writer
  <1>0. TypeOK /\ Clerks
    BY DEF KvInv
  <1>1. clerk \in [Client -> ClerkState]
    BY <1>0 DEF TypeOK, ClerkState
  <1>2. ASSUME NEW kind \in Kinds, NEW key \in Key, Request(c, kind, key)
        PROVE  /\ Kept
               /\ UNCHANGED <<log, proposed, replay, lastApplied, snapshot, incoming, applyChan,
                              lastSnapshot, position, machine, answers>>
               /\ \A d \in calls' : d \in calls \/ (d.op = clerk'[c].op /\ d.got = <<>> /\ d.phase = "sent")
               /\ \A d \in Client : d # c => clerk'[d] = clerk[d]
               /\ clerk'[c].request = clerk[c].request + 1
               /\ clerk'[c].floor = AckedIndex
               /\ clerk'[c].op.client = c
               /\ clerk'[c].op.request = clerk'[c].request
               /\ clerk'[c].op.kind = "Get" => c \in Reader
               /\ clerk'[c].op.kind # "Get" => c \in Writer
    <2> DEFINE op == [kind |-> kind, key |-> key, client |-> c, request |-> clerk[c].request + 1]
    <2>1. /\ issued' = issued + 1 /\ calls' = calls \cup {NewCall(op, clerk[c].recent)}
          /\ clerk' = [clerk EXCEPT ![c] =
               [request |-> op.request, recent |-> clerk[c].recent, server |-> clerk[c].recent,
                call |-> issued', op |-> op, floor |-> AckedIndex]]
          /\ c \in IF kind = "Get" THEN Reader ELSE Writer
          /\ UNCHANGED <<raftVars, serverVars, replay, answers>>
      BY <1>2 DEF Request
    <2>2. op.client = c /\ op.kind = kind /\ op.request = clerk[c].request + 1
      OBVIOUS
    <2>3. /\ NewCall(op, clerk[c].recent).op = op /\ NewCall(op, clerk[c].recent).got = <<>>
          /\ NewCall(op, clerk[c].recent).phase = "sent"
      BY DEF NewCall
    <2> HIDE DEF op
    <2>4. /\ clerk'[c].request = op.request /\ clerk'[c].op = op /\ clerk'[c].floor = AckedIndex
          /\ \A d \in Client : d # c => clerk'[d] = clerk[d]
      BY <1>1, <2>1
    <2>5. Kept
      BY <1>2, RequestKept
    <2>6. \A d \in calls' : d \in calls \/ (d.op = clerk'[c].op /\ d.got = <<>> /\ d.phase = "sent")
      BY <2>1, <2>3, <2>4
    <2>7. UNCHANGED <<log, proposed, replay, lastApplied, snapshot, incoming, applyChan,
                              lastSnapshot, position, machine, answers>>
      BY <2>1 DEF raftVars, serverVars
    <2> QED
      BY <2>1, <2>2, <2>4, <2>5, <2>6, <2>7
  <1>3. ASSUME Retry(c)
        PROVE  /\ Kept
               /\ UNCHANGED <<log, proposed, replay, lastApplied, snapshot, incoming, applyChan,
                              lastSnapshot, position, machine, answers>>
               /\ \A d \in calls' : d \in calls \/ (d.op = clerk'[c].op /\ d.got = <<>> /\ d.phase = "sent")
               /\ \A d \in Client : d # c => clerk'[d] = clerk[d]
               /\ clerk'[c].op = clerk[c].op /\ clerk'[c].request = clerk[c].request
               /\ clerk'[c].floor = clerk[c].floor /\ clerk[c].request > 0
    <2> DEFINE server == NextServer(clerk[c].server)
               call == NewCall(clerk[c].op, server)
    <2>1. /\ calls' = calls \cup {call} /\ clerk[c].call # NoCall
          /\ clerk' = [clerk EXCEPT ![c].server = server, ![c].call = issued']
          /\ UNCHANGED <<raftVars, serverVars, replay, answers>>
      BY <1>3 DEF Retry
    <2>2. call.op = clerk[c].op /\ call.got = <<>> /\ call.phase = "sent"
      BY DEF NewCall
    <2> HIDE DEF server, call
    <2>3. /\ clerk'[c].op = clerk[c].op /\ clerk'[c].request = clerk[c].request
          /\ clerk'[c].floor = clerk[c].floor
          /\ \A d \in Client : d # c => clerk'[d] = clerk[d]
      BY <1>1, <2>1 DEF ClerkState
    <2>4. clerk[c].request > 0
      <3>1. clerk[c].request \in Nat
        BY <1>1 DEF ClerkState
      <3>2. clerk[c].request # 0
        BY <1>0, <2>1 DEF Clerks
      <3> QED
        BY <3>1, <3>2
    <2>5. Kept
      <3>1. SameClerks
        BY <2>3 DEF SameClerks
      <3>2. log' = log
        BY <2>1 DEF raftVars
      <3> QED
        BY <1>0, <3>1, <3>2, OtherKept
    <2>6. UNCHANGED <<log, proposed, replay, lastApplied, snapshot, incoming, applyChan,
                              lastSnapshot, position, machine, answers>>
      BY <2>1 DEF raftVars, serverVars
    <2>7. \A d \in calls' : d \in calls \/ (d.op = clerk'[c].op /\ d.got = <<>> /\ d.phase = "sent")
      BY <2>1, <2>2, <2>3
    <2> QED
      BY <2>3, <2>4, <2>5, <2>6, <2>7
  <1> QED
    BY <1>2, <1>3

-----------------------------------------------------------------------------
(***************************************************************************)
(* Replicas and the log.                                                   *)
(***************************************************************************)
\* The ideal machine's states are states.
LEMMA ReplayStates ==
    ASSUME TypeOK, replay # <<>>
    PROVE  /\ \A k \in 1 .. Len(replay) : replay[k] \in State
           /\ Top \in State /\ Len(replay) \in Nat /\ Len(replay) >= 1 /\ Len(log) \in Nat
           /\ \A k \in 1 .. Len(log) : log[k] \in Entry
  <1>1. replay \in Seq(State) /\ log \in Seq(Entry)
    BY DEF TypeOK
  <1>2. Len(replay) \in Nat /\ Len(replay) # 0 /\ Len(log) \in Nat
    BY <1>1, LenProperties, EmptySeq
  <1>3. \A k \in 1 .. Len(replay) : replay[k] \in State
    BY <1>1, ElementOfSeq
  <1>4. \A k \in 1 .. Len(log) : log[k] \in Entry
    BY <1>1, ElementOfSeq
  <1>5. Len(replay) \in 1 .. Len(replay) /\ Len(replay) >= 1
    BY <1>2
  <1> QED
    BY <1>2, <1>3, <1>4, <1>5 DEF Top

\* The entries that are accepted, proposed or logged after a step.
LEMMA SettledKept ==
    ASSUME KvInv, Roles, Kept, NEW p \in proposed
    PROVE  Role(p.op) /\ NewSettled(p.op)
  <1>1. p.op \in Operation
    BY DEF KvInv, TypeOK
  <1>2. OfClerk(p.op) /\ Settled(p.op) /\ Role(p.op)
    BY DEF KvInv, Accepted, Roles
  <1> QED
    BY <1>1, <1>2 DEF Kept

\* A step that leaves log, channels and snapshots alone.
LEMMA QuietReplay ==
    ASSUME KvInv, ReplayInv, Kept, Roles',
           UNCHANGED <<log, replay, lastApplied, snapshot, incoming, applyChan, lastSnapshot,
                       position>>,
           \A i \in Server : Alike(machine'[i], replay[position[i] + 1])
    PROVE  ReplayInv'
  <1>0. TypeOK /\ replay # <<>> /\ Ideal
    BY DEF KvInv, ReplayInv
  <1>1. Top \in State
    BY <1>0, ReplayStates
  <1>2. NewTable(Top)
    BY <1>0, <1>1 DEF Ideal, Kept
  <1>3. Ideal'
    <2>1. Top' = Top
      BY DEF Top
    <2>2. Table(Top)'
      BY <1>2, <2>1 DEF NewTable, NewLog, Table, InLog, Top
    <2> QED
      BY <1>0, <2>1, <2>2 DEF Ideal
  <1>4. ASSUME NEW i \in Server PROVE Channel(i)' /\ Replica(i)'
    <2>1. Channel(i) /\ Replica(i)
      BY DEF ReplayInv
    <2> QED
      BY <2>1 DEF Channel, Replica
  <1> QED
    BY <1>3, <1>4 DEF ReplayInv

\* The Clerks' steps.
LEMMA ClerkReplay ==
    ASSUME Separate, KvInv, ReplayInv, NEW c \in Client,
           (\E kind \in Kinds, key \in Key : Request(c, kind, key)) \/ Retry(c)
    PROVE  ReplayInv'
  <1>0. TypeOK /\ Roles /\ Clerks
    BY DEF KvInv, ReplayInv
  <1>1. /\ Kept
        /\ UNCHANGED <<log, proposed, replay, lastApplied, snapshot, incoming, applyChan,
                       lastSnapshot, position, machine, answers>>
        /\ \A d \in calls' : d \in calls \/ (d.op = clerk'[c].op /\ d.got = <<>> /\ d.phase = "sent")
        /\ \A d \in Client : d # c => clerk'[d] = clerk[d]
        /\ \/ clerk'[c].op = clerk[c].op /\ clerk'[c].request = clerk[c].request
              /\ clerk'[c].floor = clerk[c].floor /\ clerk[c].request > 0
           \/ /\ clerk'[c].request = clerk[c].request + 1
              /\ clerk'[c].floor = AckedIndex
              /\ clerk'[c].op.client = c
              /\ clerk'[c].op.request = clerk'[c].request
              /\ clerk'[c].op.kind = "Get" => c \in Reader
              /\ clerk'[c].op.kind # "Get" => c \in Writer
    BY ClerkFrame
  <1>2. Role(clerk'[c].op)
    <2>1. CASE clerk'[c].op = clerk[c].op /\ clerk[c].request > 0
      BY <1>0, <2>1 DEF Roles
    <2>2. CASE /\ clerk'[c].op.client = c
               /\ clerk'[c].op.kind = "Get" => c \in Reader
               /\ clerk'[c].op.kind # "Get" => c \in Writer
      BY <2>2 DEF Role, Separate
    <2> QED
      BY <1>1, <2>1, <2>2
  <1>3. Roles'
    <2>1. \A call \in calls' : Role(call.op)
      BY <1>0, <1>1, <1>2 DEF Roles
    <2>2. \A d \in Client : clerk'[d].request > 0 => Role(clerk'[d].op)
      BY <1>0, <1>1, <1>2 DEF Roles
    <2>3. \A p \in proposed' : Role(p.op) /\ NewSettled(p.op)
      BY <1>0, <1>1, SettledKept
    <2>4. \A k \in 1 .. Len(log') : log'[k] = Noop \/ Role(log'[k])
      BY <1>0, <1>1 DEF Roles
    <2> QED
      BY <2>1, <2>2, <2>3, <2>4 DEF Roles, Role, NewSettled, Settled, NewLog, InLog
  <1>4. \A i \in Server : Alike(machine'[i], replay[position[i] + 1])
    BY <1>1 DEF ReplayInv, Replica
  <1> QED
    BY <1>1, <1>3, <1>4, QuietReplay

\* The threads' steps: a thread that serves a read marks a reader's number.
LEMMA HandlerReplay ==
    ASSUME KvInv, ReplayInv, NEW call \in calls, Handler(call)
    PROVE  ReplayInv'
  <1>0. TypeOK /\ Roles /\ Calls /\ replay # <<>> /\ Ideal
    BY DEF KvInv, ReplayInv
  <1>1. /\ SameClerks
        /\ UNCHANGED <<log, replay, lastApplied, snapshot, incoming, applyChan, lastSnapshot,
                       position>>
        /\ machine' = machine \/ (ServeGet(call) /\ machine' # machine)
        /\ \A d \in calls' : \E e \in calls : d.op = e.op
        /\ \A p \in proposed' : p \in proposed \/ p.op = call.op
    BY <1>0, HandlerFrame
  <1>2. Kept
    BY <1>0, <1>1, OtherKept
  <1>3. call.op \in Operation /\ call.server \in Server /\ machine \in [Server -> State]
    BY <1>0, CallTypes DEF TypeOK
  <1>4. Role(call.op) /\ NewSettled(call.op)
    BY <1>0, <1>2, <1>3 DEF Roles, Kept, Calls
  <1>5. Roles'
    <2>1. \A d \in calls' : Role(d.op)
      BY <1>0, <1>1 DEF Roles
    <2>2. \A d \in Client : clerk'[d].request > 0 => Role(clerk'[d].op)
      BY <1>0, <1>1 DEF Roles, SameClerks
    <2>3. \A p \in proposed' : Role(p.op) /\ NewSettled(p.op)
      BY <1>0, <1>1, <1>2, <1>4, SettledKept
    <2>4. \A k \in 1 .. Len(log') : log'[k] = Noop \/ Role(log'[k])
      BY <1>0, <1>1 DEF Roles
    <2> QED
      BY <2>1, <2>2, <2>3, <2>4 DEF Roles, Role, NewSettled, Settled, NewLog, InLog
  <1>6. ASSUME NEW i \in Server
        PROVE  Alike(machine'[i], replay[position[i] + 1])
    <2>1. Alike(machine[i], replay[position[i] + 1])
      BY DEF ReplayInv, Replica
    <2>2. CASE machine'[i] = machine[i]
      BY <2>1, <2>2
    <2>3. CASE machine'[i] # machine[i]
      <3>1. ServeGet(call)
        BY <1>1, <2>3
      <3>2. call.op.kind = "Get" /\ call.server = i
            /\ machine'[i] = ExecuteGet(machine[i], call.op)
        BY <1>3, <2>3, <3>1 DEF ServeGet
      <3>3. replay[position[i] + 1] \in State
        <4>1. position[i] \in Nat /\ lastApplied[i] \in Nat
          BY <1>0 DEF TypeOK
        <4>2. position[i] <= Len(log) /\ Len(replay) = Len(log) + 1
          BY <1>0, <4>1, ReplayStates DEF ReplayInv, Channel, Ideal
        <4>3. position[i] + 1 \in 1 .. Len(replay)
          BY <1>0, <4>1, <4>2, ReplayStates
        <4> QED
          BY <1>0, <4>3, ReplayStates
      <3>4. call.op.client \in Reader
        BY <1>4, <3>2 DEF Role
      <3> QED
        BY <1>3, <2>1, <3>2, <3>3, <3>4, AlikeGet
    <2> QED
      BY <2>2, <2>3
  <1> QED
    BY <1>1, <1>2, <1>5, <1>6, QuietReplay

\* For the ideal machine a request is a duplicate when it is in the log.
LEMMA IdealDuplicate ==
    ASSUME KvInv, ReplayInv, NEW p \in proposed, IsWrite(p.op)
    PROVE  InLog(p.op) <=> Duplicate(Top, p.op)
  <1> DEFINE op == p.op
             c == p.op.client
  <1>0. TypeOK /\ Accepted /\ replay # <<>> /\ Ideal /\ Roles
    BY DEF KvInv, ReplayInv
  <1>1. op \in Operation
    BY <1>0 DEF TypeOK
  <1>2. c \in Client /\ op.request \in Nat
    BY <1>1 DEF Operation
  <1>3. OfClerk(op) /\ Settled(op) /\ Table(Top)
    BY <1>0 DEF Accepted, Roles, Ideal
  <1>4. Top.last[c] \in Nat /\ clerk[c].request \in Nat
    <2>1. Top \in State
      BY <1>0, ReplayStates
    <2> QED
      BY <1>0, <1>2, <2>1 DEF State, TypeOK
  <1>5. ASSUME InLog(op) PROVE Duplicate(Top, op)
    BY <1>0, <1>5 DEF Ideal, InLog, Duplicate
  <1>6. ASSUME Duplicate(Top, op) PROVE InLog(op)
    <2>1. op.request <= Top.last[c] /\ Top.last[c] <= clerk[c].request
      BY <1>2, <1>3, <1>6 DEF Duplicate, Table
    <2>2. CASE op.request = clerk[c].request
      <3>1. Top.last[c] = clerk[c].request /\ op = clerk[c].op
        BY <1>2, <1>3, <1>4, <2>1, <2>2 DEF OfClerk
      <3> QED
        BY <1>2, <1>3, <3>1 DEF Table
    <2>3. CASE op.request < clerk[c].request
      BY <1>3, <2>3 DEF Settled
    <2> QED
      BY <1>2, <1>4, <2>1, <2>2, <2>3
  <1> QED
    BY <1>5, <1>6

\* So it executes as the servers do.
LEMMA IdealExecutes ==
    ASSUME KvInv, ReplayInv, NEW op \in {p.op : p \in proposed} \cup {Noop}
    PROVE  Replayed(Top, op) = Execute(Top, op)
  <1>0. TypeOK
    BY DEF KvInv
  <1>1. CASE ~ IsWrite(op)
    BY <1>1 DEF Replayed, Execute, IsWrite
  <1>2. CASE IsWrite(op)
    <2>1. PICK p \in proposed : op = p.op
      BY <1>2 DEF IsWrite, Noop
    <2>2. InLog(op) <=> Duplicate(Top, op)
      BY <1>2, <2>1, IdealDuplicate
    <2>3. InLog(op) <=> op \in {log[k] : k \in DOMAIN log}
      BY <1>0, AckedInLog DEF InLog
    <2>4. CASE InLog(op)
      BY <2>2, <2>3, <2>4 DEF Replayed, Execute
    <2>5. CASE ~ InLog(op) /\ op.kind = "Put"
      BY <2>2, <2>3, <2>5 DEF Replayed, Execute
    <2>6. CASE ~ InLog(op) /\ op.kind = "Append"
      BY <2>2, <2>3, <2>6 DEF Replayed, Execute
    <2> QED
      BY <1>2, <2>4, <2>5, <2>6 DEF IsWrite
  <1> QED
    BY <1>1, <1>2

\* The numbers in its table only grow.
LEMMA ExecuteGrows ==
    ASSUME NEW m \in State, NEW op \in Entry
    PROVE  /\ \A c \in Client : m.last[c] <= Execute(m, op).last[c]
           /\ IsWrite(op) => op.request <= Execute(m, op).last[op.client]
           /\ \/ Execute(m, op) = m
              \/ /\ op \in Operation /\ IsWrite(op)
                 /\ \A c \in Client : Execute(m, op).last[c] =
                       IF c = op.client THEN op.request ELSE m.last[c]
  <1>1. m.last \in [Client -> Nat]
    BY DEF State
  <1>2. \/ Execute(m, op) = m /\ (IsWrite(op) => Duplicate(m, op))
        \/ /\ IsWrite(op) /\ ~ Duplicate(m, op)
           /\ Execute(m, op) \in {ExecutePut(m, op), ExecuteAppend(m, op)}
    BY DEF Execute, IsWrite
  <1>3. CASE Execute(m, op) = m /\ (IsWrite(op) => Duplicate(m, op))
    BY <1>1, <1>3 DEF Duplicate
  <1>4. CASE /\ IsWrite(op) /\ ~ Duplicate(m, op)
             /\ Execute(m, op) \in {ExecutePut(m, op), ExecuteAppend(m, op)}
    <2>1. op \in Operation
      BY <1>4 DEF Entry, Noop, IsWrite
    <2>2. op.client \in Client /\ op.request \in Nat
      BY <2>1 DEF Operation
    <2> DEFINE n == Execute(m, op)
    <2>3. n.last = [m.last EXCEPT ![op.client] = op.request]
      BY <1>4 DEF ExecutePut, ExecuteAppend
    <2> HIDE DEF n
    <2>4. \A c \in Client : n.last[c] = IF c = op.client THEN op.request ELSE m.last[c]
      BY <1>1, <2>2, <2>3
    <2>5. m.last[op.client] < op.request
      BY <1>1, <1>4, <2>2 DEF Duplicate
    <2>6. \A c \in Client : m.last[c] <= n.last[c]
      BY <1>1, <2>2, <2>4, <2>5
    <2>7. op.request <= n.last[op.client]
      BY <2>2, <2>4
    <2> QED
      BY <1>4, <2>1, <2>4, <2>6, <2>7 DEF n
  <1> QED
    BY <1>2, <1>3, <1>4

\* The next index is decided.
LEMMA CommitReplay ==
    ASSUME KvInv, ReplayInv, NEW op \in {p.op : p \in proposed} \cup {Noop}, Commit(op)
    PROVE  ReplayInv'
  <1>0. TypeOK /\ Accepted /\ replay # <<>> /\ Ideal /\ Roles
    BY DEF KvInv, ReplayInv
  <1> DEFINE t == Execute(Top, op)
             n == Len(log)
  <1>1. /\ \A k \in 1 .. Len(replay) : replay[k] \in State
        /\ Top \in State /\ n \in Nat /\ \A k \in 1 .. Len(log) : log[k] \in Entry
        /\ Len(replay) = n + 1
    BY <1>0, ReplayStates DEF Ideal
  <1>2. /\ log' = Append(log, op) /\ proposed' \subseteq proposed
        /\ replay' = Append(replay, Replayed(replay[Len(replay)], op))
        /\ UNCHANGED <<lastApplied, snapshot, incoming, serverVars, clientVars>>
    BY DEF Commit
  <1>3. replay' = Append(replay, t)
    BY <1>2, IdealExecutes DEF Top
  <1>4. Kept
    <2>1. SameClerks
      BY <1>2 DEF SameClerks, clientVars
    <2> QED
      BY <1>0, <1>2, <2>1, OtherKept
  <1>5. op \in Entry /\ (op = Noop \/ (Role(op) /\ NewOf(op) /\ op \in Operation))
    <2>1. CASE op = Noop
      BY <2>1 DEF Entry
    <2>2. CASE op # Noop
      <3>1. PICK p \in proposed : op = p.op
        BY <2>2
      <3>2. p.op \in Operation
        BY <1>0 DEF TypeOK
      <3>3. NewOf(p.op) /\ Role(p.op)
        BY <1>0, <1>4, <3>2 DEF Accepted, Kept, Roles
      <3> QED
        BY <3>1, <3>2, <3>3 DEF Entry
    <2> QED
      BY <2>1, <2>2
  <1>6. t \in State
    BY <1>1, <1>5, MachineTypes
  <1> HIDE DEF t
  <1>7. /\ Len(log') = n + 1 /\ log'[n + 1] = op /\ \A k \in 1 .. n : log'[k] = log[k]
    <2>1. log \in Seq(Entry)
      BY <1>0 DEF TypeOK
    <2> QED
      BY <1>2, <1>5, <2>1, AppendProperties
  <1>8. /\ Len(replay') = n + 2 /\ replay'[n + 2] = t /\ \A k \in 1 .. n + 1 : replay'[k] = replay[k]
    <2>1. replay \in Seq(State)
      BY <1>0 DEF TypeOK
    <2>2. /\ Len(replay') = Len(replay) + 1 /\ replay'[Len(replay) + 1] = t
          /\ \A k \in 1 .. Len(replay) : replay'[k] = replay[k]
      BY <1>3, <1>6, <2>1, AppendProperties
    <2> QED
      BY <1>1, <2>2
  <1> HIDE DEF n
  <1>9. Top' = t
    BY <1>8 DEF Top
  <1>10. Top = replay[n + 1]
    BY <1>1 DEF Top
  <1>11. Roles'
    <2>1. \A d \in calls' : Role(d.op)
      BY <1>0, <1>2 DEF Roles, clientVars
    <2>2. \A d \in Client : clerk'[d].request > 0 => Role(clerk'[d].op)
      BY <1>0, <1>2 DEF Roles, clientVars
    <2>3. \A p \in proposed' : Role(p.op) /\ NewSettled(p.op)
      BY <1>0, <1>2, <1>4, SettledKept
    <2>4. \A k \in 1 .. Len(log') : log'[k] = Noop \/ Role(log'[k])
      <3> TAKE k \in 1 .. Len(log')
      <3>1. k \in 1 .. n \/ k = n + 1
        BY <1>1, <1>7
      <3> QED
        BY <1>0, <1>5, <1>7, <3>1 DEF Roles, n
    <2> QED
      BY <2>1, <2>2, <2>3, <2>4 DEF Roles, Role, NewSettled, Settled, NewLog, InLog
  <1>12. NewTable(t)
    <2>1. NewTable(Top)
      BY <1>0, <1>1, <1>4 DEF Ideal, Kept
    <2>2. CASE t = Top
      BY <2>1, <2>2
    <2>3. CASE t # Top
      <3>1. /\ op \in Operation /\ op # Noop
            /\ \A c \in Client : t.last[c] = IF c = op.client THEN op.request ELSE Top.last[c]
        BY <1>1, <1>5, <2>3, ExecuteGrows DEF t, Noop, IsWrite
      <3>2. NewOf(op) /\ NewLog(op)
        <4>1. n + 1 \in 1 .. Len(log')
          BY <1>1, <1>7
        <4> QED
          BY <1>5, <1>7, <3>1, <4>1 DEF NewLog
      <3>3. op.client \in Client
        BY <3>1 DEF Operation
      <3>4. /\ t.last[op.client] <= clerk'[op.client].request
            /\ t.last[op.client] = clerk'[op.client].request => NewLog(clerk'[op.client].op)
        BY <3>1, <3>2, <3>3 DEF NewOf
      <3>5. \A c \in Client : c # op.client => t.last[c] = Top.last[c]
        BY <3>1
      <3> QED
        BY <2>1, <3>4, <3>5 DEF NewTable
    <2> QED
      BY <2>2, <2>3
  <1>13. \A k \in 1 .. Len(log') : IsWrite(log'[k]) => log'[k].request <= t.last[log'[k].client]
    <2> SUFFICES ASSUME NEW k \in 1 .. Len(log'), IsWrite(log'[k])
                 PROVE  log'[k].request <= t.last[log'[k].client]
      OBVIOUS
    <2>1. k \in 1 .. n \/ k = n + 1
      BY <1>1, <1>7
    <2>2. CASE k = n + 1
      BY <1>1, <1>5, <1>7, <2>2, ExecuteGrows DEF t
    <2>3. CASE k \in 1 .. n
      <3>1. log'[k] = log[k] /\ log[k] \in Entry /\ IsWrite(log[k])
        BY <1>1, <1>7, <2>3 DEF n
      <3>2. log[k] \in Operation
        BY <3>1 DEF Entry, Noop, IsWrite
      <3>3. log[k].client \in Client /\ log[k].request \in Nat
        BY <3>2 DEF Operation
      <3>4. log[k].request <= Top.last[log[k].client]
        BY <1>0, <2>3, <3>1 DEF Ideal, n
      <3>5. Top.last[log[k].client] <= t.last[log[k].client]
        BY <1>1, <1>5, <3>3, ExecuteGrows DEF t
      <3>6. Top.last[log[k].client] \in Nat /\ t.last[log[k].client] \in Nat
        BY <1>1, <1>6, <3>3 DEF State
      <3> QED
        BY <3>1, <3>3, <3>4, <3>5, <3>6
    <2> QED
      BY <2>1, <2>2, <2>3
  <1>14. \A k \in 1 .. Len(log') : replay'[k + 1] = Execute(replay'[k], log'[k])
    <2> TAKE k \in 1 .. Len(log')
    <2>1. k \in 1 .. n \/ k = n + 1
      BY <1>1, <1>7
    <2>2. CASE k = n + 1
      <3>1. replay'[k + 1] = t /\ replay'[k] = Top /\ log'[k] = op
        BY <1>1, <1>7, <1>8, <1>10, <2>2
      <3> QED
        BY <3>1 DEF t
    <2>3. CASE k \in 1 .. n
      <3>1. replay'[k + 1] = replay[k + 1] /\ replay'[k] = replay[k] /\ log'[k] = log[k]
        BY <1>1, <1>7, <1>8, <2>3
      <3>2. replay[k + 1] = Execute(replay[k], log[k])
        BY <1>0, <2>3 DEF Ideal, n
      <3> QED
        BY <3>1, <3>2
    <2> QED
      BY <2>1, <2>2, <2>3
  <1>15. Ideal'
    <2>1. Table(Top)'
      BY <1>9, <1>12 DEF NewTable, NewLog, Table, InLog
    <2>2. Len(replay') = Len(log') + 1
      BY <1>1, <1>7, <1>8
    <2>3. \A k \in 1 .. Len(log') : IsWrite(log'[k]) => log'[k].request <= Top'.last[log'[k].client]
      BY <1>9, <1>13
    <2> QED
      BY <1>14, <2>1, <2>2, <2>3 DEF Ideal, IsWrite
  <1>16. ASSUME NEW i \in Server PROVE Channel(i)' /\ Replica(i)'
    <2>1. /\ position'[i] = position[i] /\ lastApplied'[i] = lastApplied[i]
          /\ applyChan'[i] = applyChan[i] /\ incoming'[i] = incoming[i]
          /\ machine'[i] = machine[i] /\ snapshot'[i] = snapshot[i]
          /\ lastSnapshot'[i] = lastSnapshot[i]
      BY <1>2 DEF serverVars
    <2>2. /\ position[i] \in Nat /\ lastApplied[i] \in Nat /\ snapshot[i].index \in Nat
          /\ applyChan[i] \in Seq(Message)
      BY <1>0 DEF TypeOK, SnapshotFile
    <2>3. Channel(i) /\ Replica(i)
      BY DEF ReplayInv
    <2>4. /\ position[i] <= lastApplied[i] /\ lastApplied[i] <= n
          /\ Len(applyChan[i]) = lastApplied[i] - position[i]
          /\ snapshot[i].index <= n
      BY <2>3 DEF Channel, Replica, n
    <2>5. \A k \in 1 .. Len(applyChan[i]) : log'[position[i] + k] = log[position[i] + k]
      <3> TAKE k \in 1 .. Len(applyChan[i])
      <3>1. position[i] + k \in 1 .. n
        BY <1>1, <2>2, <2>4
      <3> QED
        BY <1>7, <3>1
    <2>6. Channel(i)'
      <3>1. lastApplied'[i] <= Len(log')
        BY <1>1, <1>7, <2>1, <2>2, <2>4
      <3>2. \A k \in 1 .. Len(applyChan'[i]) :
              applyChan'[i][k] = [type |-> "command", index |-> position'[i] + k,
                                  op |-> log'[position'[i] + k]]
        BY <2>1, <2>3, <2>5 DEF Channel
      <3> QED
        BY <2>1, <2>4, <3>1, <3>2 DEF Channel
    <2>7. /\ replay'[position[i] + 1] = replay[position[i] + 1]
          /\ replay'[snapshot[i].index + 1] = replay[snapshot[i].index + 1]
          /\ snapshot[i].index <= Len(log')
      <3>1. /\ position[i] + 1 \in 1 .. n + 1 /\ snapshot[i].index + 1 \in 1 .. n + 1
            /\ snapshot[i].index <= Len(log')
        BY <1>1, <1>7, <2>2, <2>4, SMTT(30)
      <3> QED
        BY <1>8, <3>1
    <2>8. Replica(i)'
      BY <2>1, <2>3, <2>7 DEF Replica
    <2> QED
      BY <2>6, <2>8
  <1> QED
    BY <1>11, <1>15, <1>16 DEF ReplayInv

\* A server's step: nothing is proposed or logged.
LEMMA ServerReplay ==
    ASSUME KvInv, ReplayInv, UNCHANGED <<log, replay, proposed, clerk>>,
           \A d \in calls' : \E e \in calls : d.op = e.op,
           NEW i \in Server, Channel(i)', Replica(i)',
           \A j \in Server : j # i =>
              /\ position'[j] = position[j] /\ lastApplied'[j] = lastApplied[j]
              /\ applyChan'[j] = applyChan[j] /\ incoming'[j] = incoming[j]
              /\ machine'[j] = machine[j] /\ snapshot'[j] = snapshot[j]
              /\ lastSnapshot'[j] = lastSnapshot[j]
    PROVE  ReplayInv'
  <1>0. Roles /\ Ideal
    BY DEF ReplayInv
  <1>1. Roles'
    BY <1>0 DEF Roles, Role, Settled, InLog, IsWrite
  <1>2. Ideal'
    BY <1>0 DEF Ideal, Top, Table, InLog, IsWrite
  <1>3. ASSUME NEW j \in Server, j # i PROVE Channel(j)' /\ Replica(j)'
    <2>1. Channel(j) /\ Replica(j)
      BY DEF ReplayInv
    <2> QED
      BY <1>3, <2>1 DEF Channel, Replica
  <1> QED
    BY <1>1, <1>2, <1>3 DEF ReplayInv

\* An entry enters the channel behind the others.
LEMMA TickerReplay ==
    ASSUME KvInv, ReplayInv, NEW i \in Server, applierTicker(i)
    PROVE  ReplayInv'
  <1>0. TypeOK
    BY DEF KvInv
  <1>t. /\ applyChan \in [Server -> Seq(Message)] /\ lastApplied \in [Server -> Nat]
        /\ position \in [Server -> Nat] /\ log \in Seq(Entry) /\ Len(log) \in Nat
    BY <1>0, LenProperties DEF TypeOK
  <1> DEFINE ch == applyChan[i]
             message == [type |-> "command", index |-> lastApplied'[i], op |-> log[lastApplied'[i]]]
  <1>1. /\ lastApplied[i] < Len(log)
        /\ lastApplied' = [lastApplied EXCEPT ![i] = lastApplied[i] + 1]
        /\ applyChan' = [applyChan EXCEPT ![i] = Append(ch, message)]
        /\ UNCHANGED <<log, proposed, snapshot, incoming, machine, lastSnapshot, position, calls,
                       clerk, replay>>
    BY DEF applierTicker, clientVars
  <1>2. Channel(i) /\ Replica(i)
    BY DEF ReplayInv
  <1>3. /\ position[i] <= lastApplied[i] /\ lastApplied[i] <= Len(log)
        /\ Len(ch) = lastApplied[i] - position[i]
        /\ \A k \in 1 .. Len(ch) : ch[k] = [type |-> "command", index |-> position[i] + k,
                                            op |-> log[position[i] + k]]
    BY <1>2 DEF Channel
  <1>4. ch \in Seq(Message) /\ Len(ch) \in Nat
    BY <1>t, LenProperties
  <1>5. lastApplied'[i] = lastApplied[i] + 1
    BY <1>t, <1>1
  <1>6. message = [type |-> "command", index |-> position[i] + (Len(ch) + 1),
                   op |-> log[position[i] + (Len(ch) + 1)]]
    <2>1. lastApplied[i] + 1 = position[i] + (Len(ch) + 1)
      BY <1>t, <1>3, <1>4
    <2> QED
      BY <1>5, <2>1
  <1> HIDE DEF message, ch
  <1>7. /\ Len(Append(ch, message)) = Len(ch) + 1
        /\ Append(ch, message)[Len(ch) + 1] = message
        /\ \A k \in 1 .. Len(ch) : Append(ch, message)[k] = ch[k]
    BY <1>4
  <1>8. applyChan'[i] = Append(ch, message)
    BY <1>t, <1>1
  <1>9. Channel(i)'
    <2>1. position'[i] <= lastApplied'[i] /\ lastApplied'[i] <= Len(log')
      BY <1>t, <1>1, <1>3, <1>5
    <2>2. Len(applyChan'[i]) = lastApplied'[i] - position'[i]
      BY <1>t, <1>1, <1>3, <1>4, <1>5, <1>7, <1>8
    <2>3. \A k \in 1 .. Len(applyChan'[i]) :
             applyChan'[i][k] = [type |-> "command", index |-> position'[i] + k,
                                 op |-> log'[position'[i] + k]]
      <3> TAKE k \in 1 .. Len(applyChan'[i])
      <3>1. k \in 1 .. Len(ch) \/ k = Len(ch) + 1
        BY <1>4, <1>7, <1>8
      <3>2. CASE k \in 1 .. Len(ch)
        BY <1>1, <1>3, <1>7, <1>8, <3>2
      <3>3. CASE k = Len(ch) + 1
        BY <1>1, <1>6, <1>7, <1>8, <3>3
      <3> QED
        BY <3>1, <3>2, <3>3
    <2> QED
      BY <2>1, <2>2, <2>3 DEF Channel
  <1>10. Replica(i)'
    BY <1>1, <1>2 DEF Replica
  <1>11. \A j \in Server : j # i => /\ lastApplied'[j] = lastApplied[j]
                                   /\ applyChan'[j] = applyChan[j]
    BY <1>t, <1>1
  <1> QED
    BY <1>1, <1>9, <1>10, <1>11, ServerReplay

\* A crash takes the server back to its snapshot.
LEMMA RestartReplay ==
    ASSUME KvInv, ReplayInv, NEW i \in Server, Restart(i)
    PROVE  ReplayInv'
  <1>0. TypeOK
    BY DEF KvInv
  <1>t. /\ applyChan \in [Server -> Seq(Message)] /\ lastApplied \in [Server -> Nat]
        /\ position \in [Server -> Nat] /\ snapshot \in [Server -> SnapshotFile]
        /\ incoming \in [Server -> SUBSET SnapshotFile] /\ machine \in [Server -> State]
        /\ lastSnapshot \in [Server -> Nat]
    BY <1>0 DEF TypeOK
  <1>1. /\ lastApplied' = [lastApplied EXCEPT ![i] = snapshot[i].index]
        /\ incoming' = [incoming EXCEPT ![i] = {}] /\ applyChan' = [applyChan EXCEPT ![i] = <<>>]
        /\ machine' = [machine EXCEPT ![i] = snapshot[i].state]
        /\ lastSnapshot' = [lastSnapshot EXCEPT ![i] = 0]
        /\ position' = [position EXCEPT ![i] = snapshot[i].index]
        /\ calls' \subseteq calls /\ UNCHANGED <<log, proposed, snapshot, clerk, replay>>
    BY DEF Restart
  <1>2. Replica(i)
    BY DEF ReplayInv
  <1>3. /\ lastApplied'[i] = snapshot[i].index /\ incoming'[i] = {} /\ applyChan'[i] = <<>>
        /\ machine'[i] = snapshot[i].state /\ lastSnapshot'[i] = 0 /\ position'[i] = snapshot[i].index
    BY <1>t, <1>1
  <1>4. snapshot[i].index \in Nat
    BY <1>t DEF SnapshotFile
  <1>5. Replica(i)'
    BY <1>1, <1>2, <1>3 DEF Replica
  <1>6. Channel(i)'
    <2>1. Len(applyChan'[i]) = 0
      BY <1>3
    <2>2. snapshot[i].index <= Len(log)
      BY <1>2 DEF Replica
    <2> QED
      BY <1>1, <1>3, <1>4, <2>1, <2>2 DEF Channel
  <1>7. \A j \in Server : j # i =>
              /\ position'[j] = position[j] /\ lastApplied'[j] = lastApplied[j]
              /\ applyChan'[j] = applyChan[j] /\ incoming'[j] = incoming[j]
              /\ machine'[j] = machine[j] /\ lastSnapshot'[j] = lastSnapshot[j]
    BY <1>t, <1>1
  <1> QED
    BY <1>1, <1>5, <1>6, <1>7, ServerReplay

\* What the apply loop does when its channel holds the next entry.
LEMMA ApplyFrame ==
    ASSUME KvInv, ReplayInv, NEW i \in Server, ReadRaftApplyCommandLoop(i)
    PROVE  LET op == log[position[i] + 1]
           IN  /\ position[i] + 1 \in 1 .. Len(log)
               /\ machine' = [machine EXCEPT ![i] = Execute(machine[i], op)]
               /\ position' = [position EXCEPT ![i] = position[i] + 1]
               /\ \/ snapshot' = snapshot
                  \/ snapshot' = [snapshot EXCEPT ![i] =
                                    [index |-> position[i] + 1, state |-> machine'[i]]]
               /\ calls' = Notified(i, position[i] + 1, op)
               /\ applyChan' = [applyChan EXCEPT ![i] = Tail(applyChan[i])]
               /\ applyChan[i] # <<>>
               /\ UNCHANGED <<log, replay, proposed, clerk, lastApplied, incoming, lastSnapshot,
                              answers>>
  <1>0. TypeOK
    BY DEF KvInv
  <1> DEFINE op == log[position[i] + 1]
             message == Head(applyChan[i])
  <1>t. /\ applyChan \in [Server -> Seq(Message)] /\ lastApplied \in [Server -> Nat]
        /\ position \in [Server -> Nat] /\ Len(log) \in Nat
    BY <1>0, LenProperties DEF TypeOK
  <1>1. /\ applyChan[i] # <<>> /\ applyChan' = [applyChan EXCEPT ![i] = Tail(applyChan[i])]
        /\ GetCommandFromRaft(i, message) \/ GetSnapShotFromRaft(i, message)
        /\ UNCHANGED <<log, replay, proposed, clerk, lastApplied, incoming, answers>>
    BY DEF ReadRaftApplyCommandLoop
  <1>2. Channel(i) /\ Replica(i)
    BY DEF ReplayInv
  <1>3. message = applyChan[i][1] /\ 1 \in 1 .. Len(applyChan[i])
    BY <1>0, <1>1, HeadMessage
  <1>4. message = [type |-> "command", index |-> position[i] + 1, op |-> op]
    BY <1>2, <1>3 DEF Channel
  <1>5. position[i] + 1 \in 1 .. Len(log)
    <2>1. /\ Len(applyChan[i]) = lastApplied[i] - position[i] /\ lastApplied[i] <= Len(log)
          /\ Len(applyChan[i]) \in Nat
      BY <1>2, <1>t, LenProperties DEF Channel
    <2> QED
      BY <1>t, <1>3, <2>1
  <1> HIDE DEF op, message
  <1>6. message.type = "command" /\ message.index = position[i] + 1 /\ message.op = op
    BY <1>4
  <1>7. GetCommandFromRaft(i, message)
    BY <1>1, <1>6 DEF GetSnapShotFromRaft
  <1>8. ~ (message.index <= lastSnapshot[i])
    <2>1. lastSnapshot[i] = 0
      BY <1>2 DEF Replica
    <2> QED
      BY <1>t, <1>6, <2>1
  <1>9. /\ machine' = [machine EXCEPT ![i] = Execute(machine[i], op)]
        /\ position' = [position EXCEPT ![i] = position[i] + 1]
        /\ MaySnapshot(i, position[i] + 1)
        /\ calls' = Notified(i, position[i] + 1, op)
        /\ lastSnapshot' = lastSnapshot
    BY <1>6, <1>7, <1>8 DEF GetCommandFromRaft
  <1>10. \/ snapshot' = snapshot
         \/ snapshot' = [snapshot EXCEPT ![i] = [index |-> position[i] + 1, state |-> machine'[i]]]
    BY <1>9 DEF MaySnapshot, MakeSnapShot
  <1> QED
    BY <1>1, <1>5, <1>9, <1>10 DEF op

\* The next entry is executed, and may end up in a snapshot.
LEMMA ApplyReplay ==
    ASSUME KvInv, ReplayInv, NEW i \in Server, ReadRaftApplyCommandLoop(i)
    PROVE  ReplayInv'
  <1> DEFINE op == log[position[i] + 1]
             p == position[i] + 1
  <1>0. TypeOK /\ replay # <<>> /\ Ideal /\ Roles
    BY DEF KvInv, ReplayInv
  <1>t. /\ applyChan \in [Server -> Seq(Message)] /\ lastApplied \in [Server -> Nat]
        /\ position \in [Server -> Nat] /\ snapshot \in [Server -> SnapshotFile]
        /\ machine \in [Server -> State] /\ calls \subseteq Call
    BY <1>0 DEF TypeOK
  <1>1. /\ p \in 1 .. Len(log)
        /\ machine' = [machine EXCEPT ![i] = Execute(machine[i], op)]
        /\ position' = [position EXCEPT ![i] = p]
        /\ \/ snapshot' = snapshot
           \/ snapshot' = [snapshot EXCEPT ![i] = [index |-> p, state |-> machine'[i]]]
        /\ calls' = Notified(i, p, op)
        /\ applyChan' = [applyChan EXCEPT ![i] = Tail(applyChan[i])]
        /\ applyChan[i] # <<>>
        /\ UNCHANGED <<log, replay, proposed, clerk, lastApplied, incoming, lastSnapshot>>
    BY ApplyFrame
  <1>2. Channel(i) /\ Replica(i)
    BY DEF ReplayInv
  <1>3. /\ Len(log) \in Nat /\ op \in Entry /\ Len(replay) = Len(log) + 1
        /\ (op = Noop \/ Role(op))
        /\ replay[p] \in State /\ replay[p + 1] = Execute(replay[p], op)
    <2>1. Len(log) \in Nat /\ Len(replay) = Len(log) + 1 /\ op \in Entry
      BY <1>0, <1>1, ReplayStates DEF Ideal
    <2>2. p \in 1 .. Len(replay)
      BY <1>1, <2>1
    <2> QED
      BY <1>0, <1>1, <2>1, <2>2, ReplayStates DEF Ideal, Roles
  <1>4. Alike(Execute(machine[i], op), replay[p + 1])
    BY <1>2, <1>3, <1>t, AlikeExecute DEF Replica
  <1> HIDE DEF op, p
  <1>5. /\ machine'[i] = Execute(machine[i], op) /\ position'[i] = p
        /\ applyChan'[i] = Tail(applyChan[i])
        /\ \A j \in Server : j # i => /\ machine'[j] = machine[j] /\ position'[j] = position[j]
                                      /\ applyChan'[j] = applyChan[j] /\ snapshot'[j] = snapshot[j]
    BY <1>1, <1>t
  <1>6. /\ snapshot'[i].index <= Len(log) /\ Alike(snapshot'[i].state, replay[snapshot'[i].index + 1])
    <2>1. CASE snapshot' = snapshot
      BY <1>2, <2>1 DEF Replica
    <2>2. CASE snapshot' = [snapshot EXCEPT ![i] = [index |-> p, state |-> machine'[i]]]
      <3>1. snapshot'[i].index = p /\ snapshot'[i].state = machine'[i]
        BY <1>t, <2>2
      <3> QED
        BY <1>1, <1>3, <1>4, <1>5, <3>1
    <2> QED
      BY <1>1, <2>1, <2>2
  <1>7. Replica(i)'
    BY <1>1, <1>2, <1>4, <1>5, <1>6 DEF Replica
  <1>8. Channel(i)'
    <2>1. /\ \A k \in 1 .. Len(Tail(applyChan[i])) :
                k + 1 \in 1 .. Len(applyChan[i]) /\ Tail(applyChan[i])[k] = applyChan[i][k + 1]
      BY <1>0, <1>1, HeadMessage
    <2>2. /\ Len(applyChan[i]) \in Nat /\ Len(Tail(applyChan[i])) = Len(applyChan[i]) - 1
      BY <1>t, <1>1, LenProperties, HeadTailProperties
    <2>3. /\ position[i] <= lastApplied[i] /\ lastApplied[i] <= Len(log)
          /\ Len(applyChan[i]) = lastApplied[i] - position[i]
          /\ \A k \in 1 .. Len(applyChan[i]) :
                applyChan[i][k] = [type |-> "command", index |-> position[i] + k,
                                   op |-> log[position[i] + k]]
      BY <1>2 DEF Channel
    <2>4. position[i] \in Nat /\ lastApplied[i] \in Nat /\ p = position[i] + 1
      BY <1>t DEF p
    <2>5. 1 <= Len(applyChan[i])
      BY <1>0, <1>1, <2>2, HeadMessage
    <2>6. p <= lastApplied[i] /\ Len(Tail(applyChan[i])) = lastApplied[i] - p
      BY <2>2, <2>3, <2>4, <2>5
    <2>7. \A k \in 1 .. Len(Tail(applyChan[i])) :
             Tail(applyChan[i])[k] = [type |-> "command", index |-> p + k, op |-> log[p + k]]
      <3> TAKE k \in 1 .. Len(Tail(applyChan[i]))
      <3>1. position[i] + (k + 1) = p + k
        BY <2>2, <2>4
      <3>2. applyChan[i][k + 1] = [type |-> "command", index |-> position[i] + (k + 1),
                                   op |-> log[position[i] + (k + 1)]]
        BY <2>1, <2>3
      <3> QED
        BY <2>1, <3>1, <3>2
    <2> QED
      BY <1>1, <1>5, <2>3, <2>6, <2>7, ZenonT(40) DEF Channel
  <1>9. \A d \in calls' : \E e \in calls : d.op = e.op
    <2>1. \A e \in calls : [e EXCEPT !.got = Append(@, op)].op = e.op
      BY <1>t DEF Call
    <2> QED
      BY <1>1, <2>1, ZenonT(40) DEF Notified
  <1> QED
    BY <1>1, <1>5, <1>7, <1>8, <1>9, ServerReplay

\* The empty servers agree with the empty log.
LEMMA InitReplay == Init => ReplayInv
  <1> SUFFICES ASSUME Init PROVE ReplayInv
    OBVIOUS
  <1>1. Len(log) = 0 /\ Len(replay) = 1 /\ replay[1] = Fresh
    BY DEF Init
  <1>2. Roles
    BY <1>1 DEF Init, Roles
  <1>3. Ideal
    <2>1. Top = Fresh
      BY <1>1 DEF Top
    <2>2. \A c \in Client : clerk[c].request = 0 /\ ~ IsWrite(clerk[c].op)
      BY DEF Init, Noop, IsWrite
    <2>3. Table(Top)
      BY <2>1, <2>2 DEF Table, Fresh
    <2> QED
      BY <1>1, <2>3 DEF Ideal
  <1>4. ASSUME NEW i \in Server PROVE Channel(i) /\ Replica(i)
    <2>1. /\ position[i] = 0 /\ lastApplied[i] = 0 /\ applyChan[i] = <<>> /\ incoming[i] = {}
          /\ lastSnapshot[i] = 0 /\ machine[i] = Fresh
          /\ snapshot[i] = [index |-> 0, state |-> Fresh]
      BY DEF Init
    <2>2. Len(applyChan[i]) = 0
      BY <2>1
    <2>3. Channel(i)
      BY <1>1, <2>1, <2>2 DEF Channel
    <2>4. Replica(i)
      BY <1>1, <2>1 DEF Replica, Alike
    <2> QED
      BY <2>3, <2>4
  <1> QED
    BY <1>2, <1>3, <1>4 DEF ReplayInv

\* ReplayInv is inductive together with KvInv.
LEMMA ReplayStep ==
    ASSUME Separate, KvInv, ReplayInv, [Next]_vars
    PROVE  ReplayInv'
  <1>0. TypeOK
    BY DEF KvInv
  <1>1. CASE UNCHANGED vars
    <2>1. UNCHANGED <<log, replay, proposed, clerk, calls, position, lastApplied, applyChan,
                      incoming, machine, snapshot, lastSnapshot>>
      BY <1>1 DEF vars, raftVars, serverVars, clientVars
    <2>2. 0 \in Server
      BY SizesAreNat DEF Server
    <2>3. Channel(0) /\ Replica(0)
      BY <2>2 DEF ReplayInv
    <2>4. Channel(0)' /\ Replica(0)'
      BY <2>1, <2>3 DEF Channel, Replica
    <2> QED
      BY <2>1, <2>2, <2>4, ServerReplay
  <1>2. ASSUME NEW c \in Client,
               (\E kind \in Kinds, key \in Key : Request(c, kind, key)) \/ Retry(c)
        PROVE  ReplayInv'
    BY <1>2, ClerkReplay
  <1>3. ASSUME NEW call \in calls, Handler(call) PROVE ReplayInv'
    BY <1>3, HandlerReplay
  <1>4. ASSUME NEW op \in {p.op : p \in proposed} \cup {Noop}, Commit(op) PROVE ReplayInv'
    BY <1>4, CommitReplay
  <1>5. ASSUME NEW i \in Server, applierTicker(i) PROVE ReplayInv'
    BY <1>5, TickerReplay
  <1>6. ASSUME NEW i \in Server, NEW from \in Server, InstallSnapshot(i, from) PROVE ReplayInv'
    <2>1. installs \in Nat /\ installs < 0
      BY <1>0, <1>6 DEF TypeOK, InstallSnapshot, Separate
    <2> QED
      BY <2>1
  <1>7. ASSUME NEW i \in Server, pushMsgToKvServer(i) PROVE ReplayInv'
    <2>1. incoming[i] # {}
      BY <1>7 DEF pushMsgToKvServer
    <2>2. incoming[i] = {}
      BY DEF ReplayInv, Replica
    <2> QED
      BY <2>1, <2>2
  <1>8. ASSUME NEW i \in Server, ReadRaftApplyCommandLoop(i) PROVE ReplayInv'
    BY <1>8, ApplyReplay
  <1>9. ASSUME NEW i \in Server, Restart(i) PROVE ReplayInv'
    BY <1>9, RestartReplay
  <1> QED
    BY <1>1, <1>2, <1>3, <1>4, <1>5, <1>6, <1>7, <1>8, <1>9 DEF Next, Handler

\* ReplayInv holds throughout.
THEOREM ReplayInvariant ==
    ASSUME Separate
    PROVE  Spec => [](KvInv /\ ReplayInv)
  <1>1. Init => KvInv /\ ReplayInv
    BY InitKv, InitReplay
  <1>2. KvInv /\ ReplayInv /\ [Next]_vars => ReplayInv'
    BY ReplayStep
  <1> QED
    BY <1>1, <1>2, KvInvariant, PTL DEF Spec

\* Every server's content is what the log up to its position gives when each
\* request counts once, where it occurs first.
THEOREM ReplicasApplyLog ==
    ASSUME Separate
    PROVE  Spec => []AppliesLog
  <1>1. KvInv /\ ReplayInv => AppliesLog
    BY DEF ReplayInv, Replica, Alike, AppliesLog
  <1> QED
    BY <1>1, ReplayInvariant, PTL

\* The snapshot file is the state at its index, duplicate table included.
THEOREM SnapshotsApplyLog ==
    ASSUME Separate
    PROVE  Spec => []SnapshotsMatchLog
  <1>1. KvInv /\ ReplayInv => SnapshotsMatchLog
    BY DEF ReplayInv, Replica, Alike, SnapshotsMatchLog
  <1> QED
    BY <1>1, ReplayInvariant, PTL

-----------------------------------------------------------------------------
(***************************************************************************)
(* Reads through the log.                                                  *)
(***************************************************************************)
NewCovers(m, index) ==
    \A c \in Client :
        clerk'[c].op.kind = "Get" /\ m.last[c] = clerk'[c].request => clerk'[c].floor <= index

SameFloors == SameClerks /\ \A c \in Client : clerk'[c].floor = clerk[c].floor

\* An answered read that its Clerk is still making covers the read's floor:
\* its entry came to the wait channel after everything before it.
LEMMA PoppedCovers ==
    ASSUME KvInv, ReplayInv, FreshInv, NEW call \in calls, call.op.kind = "Get",
           call.got # <<>>, SameRequest(call.op, Head(call.got)),
           call.op.request = clerk[call.op.client].request
    PROVE  clerk[call.op.client].floor <= position[call.server]
  <1> DEFINE popped == Head(call.got)
             c == call.op.client
  <1>0. TypeOK /\ Calls /\ Accepted /\ Delivered /\ Floors
    BY DEF KvInv, FreshInv
  <1>1. call \in Call
    BY <1>0 DEF TypeOK
  <1>2. call.op \in Operation /\ call.got \in Seq(Entry) /\ call.server \in Server /\ call.index \in Nat
    BY <1>1, CallTypes
  <1>3. c \in Client
    BY <1>2 DEF Operation
  <1>4. 1 \in 1 .. Len(call.got)
    <2>1. Len(call.got) \in Nat /\ Len(call.got) # 0
      BY <1>2, LenProperties, EmptySeq
    <2> QED
      BY <2>1
  <1>5. popped = call.got[1]
    BY <1>2, <1>4
  <1>6. popped = log[call.index] /\ call.index >= 1 /\ call.index <= position[call.server]
    BY <1>0, <1>4, <1>5 DEF Delivered
  <1>7. Len(log) \in Nat /\ position[call.server] \in Nat /\ lastApplied[call.server] \in Nat
    BY <1>0, <1>2, LenProperties DEF TypeOK
  <1>8. call.index \in 1 .. Len(log)
    <2>1. position[call.server] <= lastApplied[call.server] /\ lastApplied[call.server] <= Len(log)
      BY <1>2 DEF ReplayInv, Channel
    <2> QED
      BY <1>2, <1>6, <1>7, <2>1
  <1>9. popped.kind # "Noop" /\ popped.client = c /\ popped.request = call.op.request
    BY DEF SameRequest
  <1> HIDE DEF popped
  <1>10. OfClerk(popped)
    BY <1>0, <1>6, <1>8, <1>9 DEF Accepted, Noop
  <1>11. popped = clerk[c].op
    BY <1>9, <1>10 DEF OfClerk
  <1>12. call.op = clerk[c].op
    <2>1. OfClerk(call.op)
      BY <1>0 DEF Calls
    <2> QED
      BY <2>1 DEF OfClerk
  <1>13. clerk[c].floor <= call.index
    BY <1>0, <1>3, <1>6, <1>8, <1>11, <1>12 DEF Floors
  <1>14. clerk[c].floor \in Nat
    BY <1>0, <1>3 DEF TypeOK
  <1> QED
    BY <1>2, <1>6, <1>7, <1>13, <1>14

\* The same for a read that the duplicate table covers.
LEMMA DuplicateCovers ==
    ASSUME KvInv, FreshInv, NEW call \in calls, call.op.kind = "Get",
           Duplicate(machine[call.server], call.op),
           call.op.request = clerk[call.op.client].request
    PROVE  clerk[call.op.client].floor <= position[call.server]
  <1> DEFINE m == machine[call.server]
             c == call.op.client
  <1>0. TypeOK /\ Calls /\ Tables /\ Covered
    BY DEF KvInv, FreshInv
  <1>1. call \in Call
    BY <1>0 DEF TypeOK
  <1>2. call.op \in Operation /\ call.server \in Server
    BY <1>1, CallTypes
  <1>3. c \in Client /\ call.op.request \in Nat
    BY <1>2 DEF Operation
  <1>4. m \in State /\ clerk[c].request \in Nat
    BY <1>0, <1>2, <1>3 DEF TypeOK
  <1>5. m.last[c] \in Nat
    BY <1>3, <1>4 DEF State
  <1>6. call.op.request <= m.last[c] /\ m.last[c] <= clerk[c].request
    BY <1>0, <1>2, <1>3 DEF Duplicate, Tables, Table
  <1>7. m.last[c] = clerk[c].request
    BY <1>3, <1>4, <1>5, <1>6
  <1>8. call.op = clerk[c].op
    BY <1>0 DEF Calls, OfClerk
  <1> QED
    BY <1>0, <1>2, <1>3, <1>7, <1>8 DEF Covered, Covers

\* The Clerks' steps.
LEMMA ClerkFresh ==
    ASSUME KvInv, FreshInv, NEW c \in Client,
           (\E kind \in Kinds, key \in Key : Request(c, kind, key)) \/ Retry(c)
    PROVE  FreshInv'
  <1>0. TypeOK /\ Accepted /\ Tables /\ Floors /\ Delivered /\ Covered /\ ReadsFresh
    BY DEF KvInv, FreshInv
  <1>t. /\ clerk \in [Client -> ClerkState] /\ machine \in [Server -> State]
        /\ snapshot \in [Server -> SnapshotFile] /\ Len(log) \in Nat
    BY <1>0, LenProperties DEF TypeOK, ClerkState
  <1>1. /\ UNCHANGED <<log, proposed, replay, lastApplied, snapshot, incoming, applyChan,
                       lastSnapshot, position, machine, answers>>
        /\ \A d \in calls' : d \in calls \/ (d.op = clerk'[c].op /\ d.got = <<>> /\ d.phase = "sent")
        /\ \A d \in Client : d # c => clerk'[d] = clerk[d]
        /\ \/ clerk'[c].op = clerk[c].op /\ clerk'[c].request = clerk[c].request
              /\ clerk'[c].floor = clerk[c].floor /\ clerk[c].request > 0
           \/ /\ clerk'[c].request = clerk[c].request + 1
              /\ clerk'[c].floor = AckedIndex
              /\ clerk'[c].op.client = c
              /\ clerk'[c].op.request = clerk'[c].request
    BY ClerkFrame
  <1>2. clerk[c].request \in Nat
    BY <1>t DEF ClerkState
  <1>3. Floors'
    <2>1. /\ clerk'[c].floor <= Len(log)
          /\ \A k \in 1 .. Len(log) :
                clerk'[c].op.kind = "Get" /\ log[k] = clerk'[c].op => clerk'[c].floor <= k
      <3>1. CASE clerk'[c].op = clerk[c].op /\ clerk'[c].floor = clerk[c].floor
        BY <1>0, <3>1 DEF Floors
      <3>2. CASE /\ clerk'[c].request = clerk[c].request + 1 /\ clerk'[c].floor = AckedIndex
                 /\ clerk'[c].op.client = c /\ clerk'[c].op.request = clerk'[c].request
        <4>1. clerk'[c].floor <= Len(log)
          BY <1>0, <3>2, AckedIndexType
        <4>2. ASSUME NEW k \in 1 .. Len(log), clerk'[c].op.kind = "Get", log[k] = clerk'[c].op
              PROVE  FALSE
          <5>1. OfClerk(log[k])
            BY <1>0, <4>2 DEF Accepted, Noop
          <5>2. log[k].request <= clerk[c].request
            BY <3>2, <4>2, <5>1 DEF OfClerk
          <5> QED
            BY <1>2, <3>2, <4>2, <5>2
        <4> QED
          BY <4>1, <4>2
      <3> QED
        BY <1>1, <3>1, <3>2
    <2>2. \A d \in Client : d # c =>
            /\ clerk'[d].floor <= Len(log)
            /\ \A k \in 1 .. Len(log) :
                  clerk'[d].op.kind = "Get" /\ log[k] = clerk'[d].op => clerk'[d].floor <= k
      BY <1>0, <1>1 DEF Floors
    <2> QED
      BY <1>1, <2>1, <2>2 DEF Floors
  <1>4. Delivered'
    BY <1>0, <1>1 DEF Delivered
  <1>5. ASSUME NEW m \in State, NEW index, Table(m), Covers(m, index) PROVE NewCovers(m, index)
    <2>1. \A d \in Client : d # c =>
             (clerk'[d].op.kind = "Get" /\ m.last[d] = clerk'[d].request => clerk'[d].floor <= index)
      BY <1>1, <1>5 DEF Covers
    <2>2. clerk'[c].op.kind = "Get" /\ m.last[c] = clerk'[c].request => clerk'[c].floor <= index
      <3>1. CASE clerk'[c].op = clerk[c].op /\ clerk'[c].request = clerk[c].request
                 /\ clerk'[c].floor = clerk[c].floor
        BY <1>5, <3>1 DEF Covers
      <3>2. CASE clerk'[c].request = clerk[c].request + 1
        <4>1. m.last[c] \in Nat /\ m.last[c] <= clerk[c].request
          BY <1>5 DEF Table, State
        <4> QED
          BY <1>2, <3>2, <4>1
      <3> QED
        BY <1>1, <3>1, <3>2
    <2> QED
      BY <2>1, <2>2 DEF NewCovers
  <1>6. \A i \in Server : NewCovers(machine[i], position[i])
    BY <1>0, <1>5, <1>t DEF Tables, Covered
  <1>7. \A i \in Server : NewCovers(snapshot[i].state, snapshot[i].index)
    BY <1>0, <1>5, <1>t DEF Tables, Covered, SnapshotFile
  <1>8. Covered'
    BY <1>1, <1>6, <1>7 DEF Covered, Covers, NewCovers
  <1>9. ReadsFresh'
    BY <1>0, <1>1 DEF ReadsFresh
  <1> QED
    BY <1>3, <1>4, <1>8, <1>9 DEF FreshInv

\* Floors and tables under steps that leave the Clerks' requests alone.
LEMMA FloorsKept ==
    ASSUME SameFloors
    PROVE  /\ Floors /\ log' = log => Floors'
           /\ \A m, index : Covers(m, index) => NewCovers(m, index)
  <1>1. Floors /\ log' = log => Floors'
    BY DEF Floors, SameFloors, SameClerks
  <1>2. \A m, index : Covers(m, index) => NewCovers(m, index)
    BY DEF Covers, NewCovers, SameFloors, SameClerks
  <1> QED
    BY <1>1, <1>2

\* A thread that leaves, or goes on with what it has.
LEMMA DeliveredKept ==
    ASSUME TypeOK, Delivered, NEW call \in calls, UNCHANGED <<log, position>>,
           \/ calls' \subseteq calls
           \/ \E new \in Call : /\ calls' = (calls \ {call}) \cup {new}
                                /\ new.got = call.got /\ new.phase # "reading"
                                /\ call.phase # "waiting"
    PROVE  Delivered'
  <1>1. CASE calls' \subseteq calls
    BY <1>1 DEF Delivered
  <1>2. ASSUME NEW new \in Call, calls' = (calls \ {call}) \cup {new},
               new.got = call.got, new.phase # "reading", call.phase # "waiting"
        PROVE  Delivered'
    <2>1. call.got = <<>>
      BY <1>2 DEF Delivered
    <2> QED
      BY <1>2, <2>1 DEF Delivered
  <1> QED
    BY <1>1, <1>2

\* The threads' steps.
LEMMA HandlerFresh ==
    ASSUME ~ EnableReadIndex, KvInv, ReplayInv, FreshInv, NEW call \in calls, Handler(call)
    PROVE  FreshInv'
  <1>0. TypeOK /\ Clerks /\ Calls /\ Floors /\ Delivered /\ Covered /\ ReadsFresh
    BY DEF KvInv, FreshInv
  <1>1. /\ SameFloors
        /\ UNCHANGED <<log, snapshot, position>>
        /\ machine' = machine \/ (ServeGet(call) /\ machine' # machine)
    BY <1>0, HandlerFrame DEF SameFloors
  <1>t. /\ call \in Call /\ call.op \in Operation /\ call.server \in Server
        /\ machine \in [Server -> State] /\ position \in [Server -> Nat]
    BY <1>0, CallTypes DEF TypeOK
  <1>c. /\ call.op.client \in Client /\ call.op.request \in Nat
        /\ OfClerk(call.op)
    BY <1>0, <1>t DEF Operation, Calls
  <1>2. Floors'
    BY <1>0, <1>1, FloorsKept
  <1>3. Delivered'
    <2>1. call.phase # "reading"
      BY <1>0 DEF Delivered
    <2>2. CASE Start(call)
      <3>1. PICK index \in (lastApplied[call.server] + 1 .. Len(log) + 1) \cup {given[call.server] + 1} :
                calls' = (calls \ {call}) \cup {[call EXCEPT !.phase = "started", !.index = index]}
        BY <2>2 DEF Start
      <3>2. index \in Nat
        <4>1. Len(log) \in Nat /\ lastApplied[call.server] \in Nat /\ given[call.server] \in Nat
          BY <1>0, <1>t, LenProperties DEF TypeOK
        <4> QED
          BY <4>1
      <3> DEFINE new == [call EXCEPT !.phase = "started", !.index = index]
      <3>3. new \in Call
        BY <1>t, <3>2, CallTypes
      <3>4. new.got = call.got /\ new.phase = "started"
        BY <1>t DEF Call
      <3>5. call.phase # "waiting"
        BY <2>2 DEF Start
      <3> HIDE DEF new
      <3>6. calls' = (calls \ {call}) \cup {new}
        BY <3>1 DEF new
      <3> QED
        BY <1>0, <1>1, <3>3, <3>4, <3>5, <3>6, DeliveredKept
    <2>3. CASE Listen(call)
      <3> DEFINE new == [call EXCEPT !.phase = "waiting"]
      <3>1. new \in Call /\ calls' = (calls \ {call}) \cup {new}
        BY <1>t, <2>3, CallTypes DEF Listen
      <3>2. new.got = call.got /\ new.phase = "waiting"
        BY <1>t DEF Call
      <3>3. call.phase # "waiting"
        BY <2>3 DEF Listen
      <3> HIDE DEF new
      <3> QED
        BY <1>0, <1>1, <3>1, <3>2, <3>3, DeliveredKept
    <2>4. CASE NotLeader(call) \/ Popped(call) \/ TimedOut(call) \/ ReadOnlyGet(call)
      <3>1. Answer(call) \/ Refuse(call)
        BY <2>4 DEF NotLeader, Popped, TimedOut, ReadOnlyGet
      <3>2. calls' \subseteq calls
        BY <1>0, <3>1, AnswerSame
      <3> QED
        BY <1>0, <1>1, <3>2, DeliveredKept
    <2>5. CASE ReadIndex(call)
      BY <2>5 DEF ReadIndex
    <2> QED
      BY <2>2, <2>3, <2>4, <2>5 DEF Handler
  <1>4. ASSUME ServeGet(call) \/ Answer(call), call.op.kind = "Get",
               machine' # machine \/ answers' # answers,
               call.op.request = clerk[call.op.client].request
        PROVE  clerk[call.op.client].floor <= position[call.server]
    <2>1. CASE Popped(call) /\ SameRequest(call.op, Head(call.got))
      BY <1>4, <2>1, PoppedCovers DEF Popped
    <2>2. CASE TimedOut(call) /\ Duplicate(machine[call.server], call.op)
      BY <1>4, <2>2, DuplicateCovers
    <2>3. CASE ReadOnlyGet(call)
      BY <1>0, <2>3 DEF ReadOnlyGet, Delivered
    <2>4. CASE UNCHANGED <<machine, answers>>
      BY <1>4, <2>4
    <2> QED
      BY <2>1, <2>2, <2>3, <2>4 DEF Handler, Start, NotLeader, Listen, Popped, TimedOut, ReadIndex,
         Refuse, serverVars
  <1>5. Covered'
    <2>1. \A i \in Server : NewCovers(snapshot'[i].state, snapshot'[i].index)
      BY <1>0, <1>1, FloorsKept DEF Covered
    <2>2. ASSUME NEW i \in Server PROVE NewCovers(machine'[i], position'[i])
      <3>1. NewCovers(machine[i], position[i]) /\ Covers(machine[i], position[i])
        BY <1>0, <1>1, FloorsKept DEF Covered
      <3>2. CASE machine'[i] = machine[i]
        BY <1>1, <3>1, <3>2
      <3>3. CASE machine'[i] # machine[i]
        <4>1. ServeGet(call) /\ machine' # machine
          BY <1>1, <3>3
        <4>2. /\ call.op.kind = "Get" /\ call.server = i
              /\ machine'[i] = ExecuteGet(machine[i], call.op)
          BY <1>t, <3>3, <4>1 DEF ServeGet
        <4> DEFINE c == call.op.client
                   n == ExecuteGet(machine[i], call.op)
        <4>3. machine[i].last \in [Client -> Nat] /\ n.last = [machine[i].last EXCEPT ![c] = call.op.request]
          BY <1>t DEF ExecuteGet, State
        <4>4. n.last[c] = call.op.request /\ \A d \in Client : d # c => n.last[d] = machine[i].last[d]
          BY <1>c, <4>3
        <4>5. call.op.request = clerk[c].request => clerk[c].floor <= position[i]
          BY <1>4, <4>1, <4>2
        <4> HIDE DEF n, c
        <4>6. Covers(n, position[i])
          BY <3>1, <4>4, <4>5 DEF Covers
        <4>7. NewCovers(n, position[i])
          BY <1>1, <4>6, FloorsKept
        <4> QED
          BY <1>1, <4>2, <4>7 DEF n
      <3> QED
        BY <3>2, <3>3
    <2> QED
      BY <2>1, <2>2 DEF Covered, Covers, NewCovers
  <1>6. ReadsFresh'
    <2>1. CASE answers' = answers
      BY <1>0, <2>1 DEF ReadsFresh
    <2>2. CASE answers' # answers
      <3> DEFINE c == call.op.client
      <3>1. Answer(call)
        BY <2>2 DEF Handler, Start, NotLeader, Listen, Popped, TimedOut, ReadIndex, ReadOnlyGet,
           Refuse
      <3>2. /\ clerk[c].call = call.id /\ call.op.kind = "Get"
            /\ answers' = answers \cup {[op |-> call.op, floor |-> clerk[c].floor,
                                         served |-> position[call.server]]}
        <4>1. CASE clerk[c].call = call.id /\ call.op.kind = "Get"
          BY <3>1, <4>1 DEF Answer
        <4>2. CASE ~ (clerk[c].call = call.id /\ call.op.kind = "Get")
          BY <2>2, <3>1, <4>2 DEF Answer
        <4> QED
          BY <4>1, <4>2
      <3>3. call.op = clerk[c].op
        BY <1>0, <3>2 DEF Calls
      <3>4. call.op.request = clerk[c].request
        <4>1. clerk[c].request # 0
          BY <1>0, <1>c, <3>2, <3>3 DEF Clerks, Noop
        <4>2. clerk[c].request \in Nat
          BY <1>0, <1>c DEF TypeOK
        <4> QED
          BY <1>0, <1>c, <3>3, <4>1, <4>2 DEF Clerks
      <3>5. clerk[c].floor <= position[call.server]
        BY <1>4, <2>2, <3>1, <3>2, <3>4
      <3> QED
        BY <1>0, <3>2, <3>5 DEF ReadsFresh
    <2> QED
      BY <2>1, <2>2
  <1> QED
    BY <1>2, <1>3, <1>5, <1>6 DEF FreshInv

\* A new entry comes behind every floor.
LEMMA CommitFresh ==
    ASSUME KvInv, ReplayInv, FreshInv, NEW op \in {p.op : p \in proposed} \cup {Noop}, Commit(op)
    PROVE  FreshInv'
  <1>0. TypeOK /\ Floors /\ Delivered /\ Covered /\ ReadsFresh
    BY DEF KvInv, FreshInv
  <1>1. /\ log' = Append(log, op)
        /\ UNCHANGED <<snapshot, machine, position, calls, clerk, answers>>
    BY DEF Commit, serverVars, clientVars
  <1>t. /\ log \in Seq(Entry) /\ Len(log) \in Nat /\ op \in Entry
        /\ position \in [Server -> Nat] /\ lastApplied \in [Server -> Nat] /\ calls \subseteq Call
        /\ \A c \in Client : clerk[c].floor \in Nat
    BY <1>0, LenProperties DEF TypeOK, Entry
  <1>2. Len(log') = Len(log) + 1 /\ \A k \in 1 .. Len(log) : log'[k] = log[k]
    BY <1>1, <1>t, AppendProperties
  <1>3. Floors'
    <2>1. ASSUME NEW c \in Client, NEW k \in 1 .. Len(log'), clerk[c].op.kind = "Get",
                 log'[k] = clerk[c].op
          PROVE  clerk[c].floor <= k
      <3>1. clerk[c].floor <= Len(log)
        BY <1>0 DEF Floors
      <3>2. CASE k \in 1 .. Len(log)
        BY <1>0, <1>2, <2>1, <3>2 DEF Floors
      <3>3. CASE k = Len(log) + 1
        BY <1>t, <3>1, <3>3
      <3> QED
        BY <1>t, <1>2, <3>2, <3>3
    <2>2. \A c \in Client : clerk[c].floor <= Len(log')
      BY <1>0, <1>t, <1>2 DEF Floors
    <2> QED
      BY <1>1, <2>1, <2>2 DEF Floors
  <1>4. Delivered'
    <2>1. ASSUME NEW call \in calls, call.got # <<>> PROVE log'[call.index] = log[call.index]
      <3>1. call.server \in Server /\ call.index \in Nat
        BY <1>t, CallTypes
      <3>2. call.index >= 1 /\ call.index <= position[call.server]
        BY <1>0, <2>1 DEF Delivered
      <3>3. position[call.server] <= lastApplied[call.server] /\ lastApplied[call.server] <= Len(log)
        BY <3>1 DEF ReplayInv, Channel
      <3>4. call.index \in 1 .. Len(log)
        BY <1>t, <3>1, <3>2, <3>3
      <3> QED
        BY <1>2, <3>4
    <2> QED
      BY <1>0, <1>1, <2>1 DEF Delivered
  <1>5. Covered' /\ ReadsFresh'
    BY <1>0, <1>1 DEF Covered, Covers, ReadsFresh
  <1> QED
    BY <1>3, <1>4, <1>5 DEF FreshInv

\* A crash takes the server's threads with it, and the snapshot covers what
\* its table has marked.
LEMMA RestartFresh ==
    ASSUME KvInv, FreshInv, NEW i \in Server, Restart(i)
    PROVE  FreshInv'
  <1>0. TypeOK /\ Floors /\ Delivered /\ Covered /\ ReadsFresh
    BY DEF KvInv, FreshInv
  <1>t. /\ position \in [Server -> Nat] /\ machine \in [Server -> State]
        /\ calls \subseteq Call
    BY <1>0 DEF TypeOK
  <1>1. /\ machine' = [machine EXCEPT ![i] = snapshot[i].state]
        /\ position' = [position EXCEPT ![i] = snapshot[i].index]
        /\ calls' = {call \in calls : call.server # i}
        /\ UNCHANGED <<log, snapshot, clerk, answers>>
    BY DEF Restart
  <1>2. /\ machine'[i] = snapshot[i].state /\ position'[i] = snapshot[i].index
        /\ \A j \in Server : j # i => machine'[j] = machine[j] /\ position'[j] = position[j]
    BY <1>t, <1>1
  <1>3. Floors' /\ ReadsFresh'
    BY <1>0, <1>1 DEF Floors, ReadsFresh
  <1>4. Delivered'
    <2>1. \A call \in calls' : call \in calls /\ position'[call.server] = position[call.server]
      BY <1>t, <1>1, <1>2, CallTypes
    <2> QED
      BY <1>0, <1>1, <2>1 DEF Delivered
  <1>5. Covered'
    <2>1. \A j \in Server : NewCovers(machine'[j], position'[j])
      BY <1>0, <1>1, <1>2 DEF Covered, Covers, NewCovers
    <2>2. \A j \in Server : NewCovers(snapshot'[j].state, snapshot'[j].index)
      BY <1>0, <1>1 DEF Covered, Covers, NewCovers
    <2> QED
      BY <2>1, <2>2 DEF Covered, Covers, NewCovers
  <1> QED
    BY <1>3, <1>4, <1>5 DEF FreshInv

\* The next entry is executed, and delivered to the thread that waits for it.
LEMMA ApplyFresh ==
    ASSUME KvInv, ReplayInv, FreshInv, NEW i \in Server, ReadRaftApplyCommandLoop(i)
    PROVE  FreshInv'
  <1> DEFINE op == log[position[i] + 1]
             p == position[i] + 1
             m == Execute(machine[i], op)
  <1>0. /\ TypeOK /\ Accepted /\ replay # <<>> /\ Floors /\ Delivered /\ Covered /\ ReadsFresh
    BY DEF KvInv, FreshInv
  <1>t. /\ position \in [Server -> Nat] /\ machine \in [Server -> State] /\ calls \subseteq Call
        /\ snapshot \in [Server -> SnapshotFile] /\ \A c \in Client : clerk[c].floor \in Nat
    BY <1>0 DEF TypeOK
  <1>1. /\ p \in 1 .. Len(log)
        /\ machine' = [machine EXCEPT ![i] = m]
        /\ position' = [position EXCEPT ![i] = p]
        /\ \/ snapshot' = snapshot
           \/ snapshot' = [snapshot EXCEPT ![i] = [index |-> p, state |-> machine'[i]]]
        /\ calls' = Notified(i, p, op)
        /\ UNCHANGED <<log, clerk, answers>>
    BY ApplyFrame
  <1>2. /\ machine'[i] = m /\ position'[i] = p
        /\ \A j \in Server : j # i => machine'[j] = machine[j] /\ position'[j] = position[j]
    BY <1>t, <1>1
  <1>3. op \in Entry /\ p = position[i] + 1 /\ p \in Nat /\ position[i] \in Nat
    BY <1>0, <1>1, <1>t, ReplayStates
  <1>4. Floors' /\ ReadsFresh'
    BY <1>0, <1>1 DEF Floors, ReadsFresh
  <1>5. Covers(m, p)
    <2>1. Covers(machine[i], position[i])
      BY <1>0 DEF Covered
    <2>2. Covers(machine[i], p)
      BY <1>3, <1>t, <2>1 DEF Covers
    <2>3. CASE m = machine[i]
      BY <2>2, <2>3
    <2>4. CASE m # machine[i]
      <3>1. /\ op \in Operation /\ IsWrite(op)
            /\ \A c \in Client : m.last[c] = IF c = op.client THEN op.request ELSE machine[i].last[c]
        BY <1>3, <1>t, <2>4, ExecuteGrows
      <3>2. OfClerk(op)
        BY <1>0, <1>1, <3>1 DEF Accepted, Noop, IsWrite
      <3>3. op.client \in Client
        BY <3>1 DEF Operation
      <3> HIDE DEF m, op, p
      <3>4. m.last[op.client] = clerk[op.client].request => clerk[op.client].op.kind # "Get"
        BY <3>1, <3>2, <3>3 DEF OfClerk, IsWrite
      <3>5. \A c \in Client : c # op.client => m.last[c] = machine[i].last[c]
        BY <3>1
      <3> QED
        BY <2>2, <3>4, <3>5 DEF Covers
    <2> QED
      BY <2>3, <2>4
  <1> HIDE DEF m
  <1>6. Covered'
    <2>1. \A j \in Server : Covers(machine'[j], position'[j])
      BY <1>0, <1>2, <1>5 DEF Covered
    <2>2. \A j \in Server : Covers(snapshot'[j].state, snapshot'[j].index)
      <3>1. CASE snapshot' = snapshot
        BY <1>0, <3>1 DEF Covered
      <3>2. CASE snapshot' = [snapshot EXCEPT ![i] = [index |-> p, state |-> machine'[i]]]
        <4>1. /\ snapshot'[i].index = p /\ snapshot'[i].state = m
              /\ \A j \in Server : j # i => snapshot'[j] = snapshot[j]
          BY <1>t, <1>2, <3>2
        <4> QED
          BY <1>0, <1>5, <4>1 DEF Covered
      <3> QED
        BY <1>1, <3>1, <3>2
    <2> QED
      BY <1>1, <2>1, <2>2 DEF Covered, Covers
  <1>7. Delivered'
    <2> SUFFICES ASSUME NEW call \in calls'
                 PROVE  /\ call.phase # "reading"
                        /\ call.got # <<>> =>
                             /\ call.phase = "waiting"
                             /\ call.index >= 1 /\ call.index <= position'[call.server]
                             /\ \A k \in 1 .. Len(call.got) : call.got[k] = log'[call.index]
      BY DEF Delivered
    <2>1. CASE call \in calls
      <3>1. call.server \in Server /\ call.index \in Nat
        BY <1>t, <2>1, CallTypes
      <3>2. position[call.server] <= position'[call.server]
        BY <1>2, <1>3, <1>t, <3>1
      <3>3. position'[call.server] \in Nat /\ position[call.server] \in Nat
        BY <1>2, <1>3, <1>t, <3>1
      <3> QED
        BY <1>0, <1>1, <2>1, <3>1, <3>2, <3>3 DEF Delivered
    <2>2. ASSUME NEW e \in calls, e.server = i, e.phase = "waiting", e.index = p,
                 call = [e EXCEPT !.got = Append(@, op)]
          PROVE  /\ call.phase = "waiting"
                 /\ call.index >= 1 /\ call.index <= position'[call.server]
                 /\ \A k \in 1 .. Len(call.got) : call.got[k] = log'[call.index]
      <3>1. e \in Call /\ e.got \in Seq(Entry)
        BY <1>t, CallTypes
      <3>2. call.phase = "waiting" /\ call.index = p /\ call.server = i /\ call.got = Append(e.got, op)
        BY <2>2, <3>1 DEF Call
      <3>3. /\ Len(call.got) = Len(e.got) + 1 /\ call.got[Len(e.got) + 1] = op
            /\ \A k \in 1 .. Len(e.got) : call.got[k] = e.got[k]
            /\ Len(e.got) \in Nat
        BY <1>3, <3>1, <3>2, AppendProperties, LenProperties
      <3>4. \A k \in 1 .. Len(e.got) : e.got[k] = op
        <4> TAKE k \in 1 .. Len(e.got)
        <4>1. e.got # <<>>
          BY <3>3
        <4> QED
          BY <1>0, <2>2, <4>1 DEF Delivered
      <3>5. \A k \in 1 .. Len(call.got) : call.got[k] = op
        <4> TAKE k \in 1 .. Len(call.got)
        <4>1. k \in 1 .. Len(e.got) \/ k = Len(e.got) + 1
          BY <3>3
        <4> QED
          BY <3>3, <3>4, <4>1
      <3>6. call.index >= 1 /\ call.index <= position'[call.server]
        BY <1>1, <1>2, <1>3, <3>2
      <3> QED
        BY <1>1, <3>2, <3>5, <3>6
    <2>3. \/ call \in calls
          \/ \E e \in calls : /\ e.server = i /\ e.phase = "waiting" /\ e.index = p
                              /\ call = [e EXCEPT !.got = Append(@, op)]
      BY <1>1 DEF Notified
    <2> QED
      BY <2>1, <2>2, <2>3
  <1> QED
    BY <1>4, <1>6, <1>7 DEF FreshInv

\* Every step keeps what is known of reads through the log.
LEMMA FreshStep ==
    ASSUME Separate, ~ EnableReadIndex, KvInv, ReplayInv, FreshInv, [Next]_vars
    PROVE  FreshInv'
  <1>0. TypeOK
    BY DEF KvInv
  <1>1. ASSUME UNCHANGED <<log, machine, snapshot, position, calls, clerk, answers>>
        PROVE  FreshInv'
    BY <1>1 DEF FreshInv, Floors, Delivered, Covered, Covers, ReadsFresh
  <1>2. CASE UNCHANGED vars
    BY <1>1, <1>2 DEF vars, raftVars, serverVars, clientVars
  <1>3. ASSUME NEW c \in Client,
               (\E kind \in Kinds, key \in Key : Request(c, kind, key)) \/ Retry(c)
        PROVE  FreshInv'
    BY <1>3, ClerkFresh
  <1>4. ASSUME NEW call \in calls, Handler(call) PROVE FreshInv'
    BY <1>4, HandlerFresh
  <1>5. ASSUME NEW op \in {p.op : p \in proposed} \cup {Noop}, Commit(op) PROVE FreshInv'
    BY <1>5, CommitFresh
  <1>6. ASSUME NEW i \in Server, applierTicker(i) PROVE FreshInv'
    BY <1>1, <1>6 DEF applierTicker, clientVars
  <1>7. ASSUME NEW i \in Server, NEW from \in Server, InstallSnapshot(i, from) PROVE FreshInv'
    <2>1. installs \in Nat /\ installs < 0
      BY <1>0, <1>7 DEF TypeOK, InstallSnapshot, Separate
    <2> QED
      BY <2>1
  <1>8. ASSUME NEW i \in Server, pushMsgToKvServer(i) PROVE FreshInv'
    BY <1>1, <1>8 DEF pushMsgToKvServer, clientVars
  <1>9. ASSUME NEW i \in Server, ReadRaftApplyCommandLoop(i) PROVE FreshInv'
    BY <1>9, ApplyFresh
  <1>10. ASSUME NEW i \in Server, Restart(i) PROVE FreshInv'
    BY <1>10, RestartFresh
  <1> QED
    BY <1>2, <1>3, <1>4, <1>5, <1>6, <1>7, <1>8, <1>9, <1>10 DEF Next, Handler

\* Nobody has asked to read anything yet.
LEMMA InitFresh == Init => FreshInv
  <1> SUFFICES ASSUME Init PROVE FreshInv
    OBVIOUS
  <1>1. Len(log) = 0 /\ \A c \in Client : clerk[c].floor = 0 /\ clerk[c].op.kind # "Get"
    BY DEF Init, Noop
  <1>2. Floors /\ Covered
    BY <1>1 DEF Floors, Covered, Covers
  <1>3. Delivered /\ ReadsFresh
    BY DEF Init, Delivered, ReadsFresh
  <1> QED
    BY <1>2, <1>3 DEF FreshInv

\* A read that goes through the log (ENABLE_READ_INDEX off) is served from a
\* state that has every write acknowledged before the read began, whether the
\* wait channel or the duplicate table answered it and whatever crashed.
THEOREM ReadsThroughLogFresh ==
    ASSUME Separate, ~ EnableReadIndex
    PROVE  Spec => []ReadsFresh
  <1>1. Init => FreshInv
    BY InitFresh
  <1>2. KvInv /\ ReplayInv /\ FreshInv /\ [Next]_vars => FreshInv'
    BY FreshStep
  <1>3. FreshInv => ReadsFresh
    BY DEF FreshInv
  <1>4. Spec => [](KvInv /\ ReplayInv)
    BY ReplayInvariant
  <1> QED
    BY <1>1, <1>2, <1>3, <1>4, PTL DEF Spec
============================================================================
