-------------------------------- MODULE Raft --------------------------------
(***************************************************************************)
(* The consensus node of src/raftCore/raft.cpp: elections, replication by  *)
(* heartbeat rounds, log compaction and snapshot transfer, ReadIndex, and  *)
(* recovery from the Persister's raft-state file.                          *)
(*                                                                         *)
(* Every handler of the class Raft runs under m_mtx, so each one is a      *)
(* single step here; the places where the code releases the mutex (around  *)
(* an RPC, before a detached thread takes it) are the places where one     *)
(* action ends and another begins.                                         *)
(*                                                                         *)
(* The RPC layer gives no order between calls, never repeats a call, and   *)
(* may fail at any point.  `rpcs' is the set of calls in progress: a       *)
(* request not yet handled, or a reply the calling thread has not          *)
(* processed.  A call that fails is one that is never taken any further.   *)
(* `waiting' becomes FALSE when the calling process dies: the request may  *)
(* still arrive, its reply goes nowhere.                                   *)
(*                                                                         *)
(* A failing myAssert calls exit(); the actions are guarded by the         *)
(* assertions that can fail, and the exit is an instance of Restart.       *)
(***************************************************************************)
EXTENDS Integers, FiniteSets, Sequences

CONSTANTS
    Server,         \* the peers, m_peers
    Nil,            \* m_votedFor = -1
    Command,        \* operations handed to Start by the KV server
    Noop,           \* the operation of appendNoopEntryLocked
    MaxTerm,        \* bound: terms above it are never started
    MaxElections,   \* bound: elections started in a behaviour
    MaxLog,         \* bound: no leader appends beyond this index
    MaxRounds,      \* bound: heartbeat rounds in a behaviour
    MaxRestarts,    \* bound: crashes in a behaviour
    MaxSnapIndex,   \* bound: the KV server snapshots no later index
    MaxReads        \* bound: ReadIndex calls in a behaviour

Follower  == "Follower"
Candidate == "Candidate"
Leader    == "Leader"

ASSUME ServerFinite == IsFiniteSet(Server) /\ Server # {}
ASSUME NilNotServer == Nil \notin Server
ASSUME BoundsAreNat ==
    /\ MaxTerm \in Nat      /\ MaxElections \in Nat /\ MaxLog \in Nat
    /\ MaxRounds \in Nat    /\ MaxRestarts \in Nat
    /\ MaxSnapIndex \in Nat /\ MaxReads \in Nat

VARIABLES
    status, currentTerm, votedFor,      \* m_status, m_currentTerm, m_votedFor
    logs, snapIndex, snapTerm,          \* m_logs, m_lastSnapshotIncludeIndex/Term
    commitIndex, lastApplied,           \* m_commitIndex, m_lastApplied
    nextIndex, matchIndex,              \* m_nextIndex, m_matchIndex
    votedNum,                           \* *votedNum of the election in progress
    appendNums,                         \* *appendNums of each round of this term
    read,                               \* the ReadIndex call of each server
    disk,                               \* the Persister's raft-state file
    rpcs                                \* RPCs and sender threads in progress

(***************************************************************************)
(* History variables: read by the properties (and the bounds), never by    *)
(* the code's control flow.                                                *)
(***************************************************************************)
VARIABLES
    ballots,    \* every vote granted: [voter, term, candidate]
    voters,     \* the servers counted in votedNum's election
    won,        \* every election won: [term, leader]
    applied,    \* every log entry handed to a state machine, and in which term
    restarts,   \* number of crashes so far
    reads,      \* number of ReadIndex calls so far
    rounds      \* number of heartbeat rounds so far

serverVars == <<status, currentTerm, votedFor>>
logVars    == <<logs, snapIndex, snapTerm>>
applyVars  == <<commitIndex, lastApplied>>
leaderVars == <<nextIndex, matchIndex, appendNums, rounds>>
voteVars   == <<votedNum, ballots, voters, won>>
readVars   == <<read, reads>>
vars == <<serverVars, logVars, applyVars, leaderVars, voteVars, readVars,
          disk, rpcs, applied, restarts>>

-----------------------------------------------------------------------------
(***************************************************************************)
(* The log.                                                                *)
(***************************************************************************)
Maximum(a, b) == IF a > b THEN a ELSE b
Minimum(a, b) == IF a < b THEN a ELSE b

Quorum == (Cardinality(Server) \div 2) + 1

\* getLastLogIndex / getLastLogTerm: the last entry's, or the snapshot's when
\* the log is empty.
LastLogIndex(i) ==
    IF logs[i] = <<>> THEN snapIndex[i] ELSE logs[i][Len(logs[i])].index
LastLogTerm(i) ==
    IF logs[i] = <<>> THEN snapTerm[i] ELSE logs[i][Len(logs[i])].term

\* getSlicesIndexFromLogIndex, for sequences that start at 1.
Slice(i, index) == index - snapIndex[i]

\* getLogTermFromLogIndex
LogTerm(i, index) ==
    IF index = snapIndex[i] THEN snapTerm[i] ELSE logs[i][Slice(i, index)].term

UpToDate(i, index, term) ==
    \/ term > LastLogTerm(i)
    \/ term = LastLogTerm(i) /\ index >= LastLogIndex(i)

\* matchLog
MatchLog(i, index, term) == LogTerm(i, index) = term

NewEntryAtLast(i, command) ==       \* mutant of NewEntry: the + 1 forgotten
    [term |-> currentTerm[i], index |-> LastLogIndex(i), command |-> command]

NewEntry(i, command) ==
    [term |-> currentTerm[i], index |-> LastLogIndex(i) + 1, command |-> command]

\* The entries loop of AppendEntries1: an entry past the end is appended, an
\* entry whose term differs replaces the local one in its place, and whatever
\* follows the last entry received stays.
MergeEntries(log, from, entries) ==
    [k \in 1 .. Maximum(Len(log), from + Len(entries)) |->
        IF k > from /\ k <= from + Len(entries)
           /\ (k > Len(log) \/ log[k].term # entries[k - from].term)
        THEN entries[k - from]
        ELSE log[k]]

\* The index a follower proposes when prevLog conflicts: the first one of the
\* run of the conflicting term, or prevLogIndex when that run reaches the
\* snapshot.
ConflictIndex(i, prev) ==
    LET run   == {k \in snapIndex[i] .. prev :
                     \A l \in k .. prev : LogTerm(i, l) = LogTerm(i, prev)}
        first == CHOOSE k \in run : \A l \in run : k <= l
    IN  IF first = snapIndex[i] THEN prev ELSE first

DropPrefixShort(i, index) ==        \* mutant of DropPrefix: off by one
    SubSeq(logs[i], Maximum(Slice(i, index), 1), Len(logs[i]))

\* What is left of a log once everything up to index is in a snapshot.
DropPrefix(i, index) == SubSeq(logs[i], Slice(i, index) + 1, Len(logs[i]))

PersistNoVote(i) ==                 \* mutant of PersistData: the vote left out
    [term |-> currentTerm[i], votedFor |-> Nil, log |-> logs[i],
     snapIndex |-> snapIndex[i], snapTerm |-> snapTerm[i]]

PersistNoLog(i) ==                  \* mutant of PersistData: the log left out
    [term |-> currentTerm[i], votedFor |-> votedFor[i], log |-> <<>>,
     snapIndex |-> snapIndex[i], snapTerm |-> snapTerm[i]]

\* persistData
PersistData(i) ==
    [term |-> currentTerm[i], votedFor |-> votedFor[i], log |-> logs[i],
     snapIndex |-> snapIndex[i], snapTerm |-> snapTerm[i]]

\* persist() and Persister::Save as the handlers call them, after their last
\* assignment: the state being saved is the one the step produces.
Persist(i) == disk' = [disk EXCEPT ![i] = PersistData(i)']

-----------------------------------------------------------------------------
(***************************************************************************)
(* RPC records.  A reply carries the arguments of its call, as the calling *)
(* thread does.                                                            *)
(***************************************************************************)
VoteRequest(i, j) ==
    [kind |-> "RequestVote", from |-> i, to |-> j, waiting |-> TRUE,
     term |-> currentTerm[i], lastIndex |-> LastLogIndex(i), lastTerm |-> LastLogTerm(i)]

\* getPrevLogInfo and the construction of AppendEntriesArgs; `round' names the
\* counter the reply will be added to.
AppendRequest(i, j, kind, entries, round) ==
    [kind |-> kind, from |-> i, to |-> j, waiting |-> TRUE, term |-> currentTerm[i],
     prevIndex |-> nextIndex[i][j] - 1, prevTerm |-> LogTerm(i, nextIndex[i][j] - 1),
     entries |-> entries, leaderCommit |-> commitIndex[i], round |-> round]

\* A thread running leaderSendSnapShot that has not yet taken the mutex.
SnapshotThread(i, j, round) ==
    [kind |-> "SnapshotThread", from |-> i, to |-> j, spawned |-> currentTerm[i],
     round |-> round]

Reply(request, reply) ==
    rpcs' = (rpcs \ {request}) \cup (IF request.waiting THEN {reply} ELSE {})

Consume(rpc) == rpcs' = rpcs \ {rpc}

-----------------------------------------------------------------------------
NoRead == [phase |-> "idle", id |-> 0, term |-> 0, index |-> 0, confirms |-> 0,
           unsent |-> {}, elected |-> {}]

\* An empty raft-state file: init keeps the values it has just assigned.
EmptyDisk == [term |-> 0, votedFor |-> Nil, log |-> <<>>, snapIndex |-> 0, snapTerm |-> 0]

Init ==
    /\ status = [i \in Server |-> Follower]
    /\ currentTerm = [i \in Server |-> 0]
    /\ votedFor = [i \in Server |-> Nil]
    /\ logs = [i \in Server |-> <<>>]
    /\ snapIndex = [i \in Server |-> 0]
    /\ snapTerm = [i \in Server |-> 0]
    /\ commitIndex = [i \in Server |-> 0]
    /\ lastApplied = [i \in Server |-> 0]
    /\ nextIndex = [i \in Server |-> [j \in Server |-> 0]]
    /\ matchIndex = [i \in Server |-> [j \in Server |-> 0]]
    /\ votedNum = [i \in Server |-> 0]
    /\ appendNums = [i \in Server |-> <<>>]
    /\ read = [i \in Server |-> NoRead]
    /\ disk = [i \in Server |-> EmptyDisk]
    /\ rpcs = {}
    /\ ballots = {}
    /\ voters = [i \in Server |-> {}]
    /\ won = {}
    /\ applied = {}
    /\ restarts = 0
    /\ reads = 0
    /\ rounds = 0

-----------------------------------------------------------------------------
(***************************************************************************)
(* Elections.                                                              *)
(***************************************************************************)
StepDownZero(i, term) ==            \* mutant of StepDown: the vote reset to 0
    /\ status' = [status EXCEPT ![i] = Follower]
    /\ currentTerm' = [currentTerm EXCEPT ![i] = term]
    /\ votedFor' = [votedFor EXCEPT ![i] = 0]

\* "Three changes" of the code: status, term and vote.
StepDown(i, term) ==
    /\ status' = [status EXCEPT ![i] = Follower]
    /\ currentTerm' = [currentTerm EXCEPT ![i] = term]
    /\ votedFor' = [votedFor EXCEPT ![i] = Nil]

\* electionTimeOutTicker fires and doElection finds the server is no leader.
doElection(i) ==
    /\ status[i] # Leader
    /\ currentTerm[i] < MaxTerm
    /\ Cardinality({b \in ballots : b.voter = b.candidate}) < MaxElections
    /\ status' = [status EXCEPT ![i] = Candidate]
    /\ currentTerm' = [currentTerm EXCEPT ![i] = @ + 1]
    /\ votedFor' = [votedFor EXCEPT ![i] = i]
    /\ votedNum' = [votedNum EXCEPT ![i] = 1]
    /\ voters' = [voters EXCEPT ![i] = {i}]
    /\ ballots' = ballots \cup {[voter |-> i, term |-> currentTerm'[i], candidate |-> i]}
    /\ rpcs' = rpcs \cup
         {[VoteRequest(i, j) EXCEPT !.term = currentTerm'[i]] : j \in Server \ {i}}
    /\ UNCHANGED <<logVars, applyVars, leaderVars, won, readVars, applied, restarts>>
    /\ Persist(i)

\* The RequestVote handler.
RequestVote(r) ==
    LET j     == r.to
        newer == r.term > currentTerm[j]
        term  == Maximum(r.term, currentTerm[j])
        vote  == IF newer THEN Nil ELSE votedFor[j]
        grant == /\ r.term >= currentTerm[j]
                 /\ UpToDate(j, r.lastIndex, r.lastTerm)
                 /\ vote \in {Nil, r.from}
    IN  /\ r.kind = "RequestVote"
        /\ status' = [status EXCEPT ![j] = IF newer THEN Follower ELSE @]
        /\ currentTerm' = [currentTerm EXCEPT ![j] = term]
        /\ votedFor' = [votedFor EXCEPT ![j] = IF grant THEN r.from ELSE vote]
        /\ ballots' = IF grant
                      THEN ballots \cup {[voter |-> j, term |-> term, candidate |-> r.from]}
                      ELSE ballots
        /\ Reply(r, [kind |-> "VoteReply", args |-> r, term |-> term, granted |-> grant])
        /\ UNCHANGED <<logVars, applyVars, leaderVars, votedNum, voters, won, readVars,
                       applied, restarts>>
        /\ Persist(j)

VotesKept(n) == n + 1               \* mutant of VotesAfter: no reset

\* *votedNum after one more vote: it restarts from 0 once the election is won.
VotesAfter(n) == IF n + 1 >= Quorum THEN 0 ELSE n + 1

\* sendRequestVote, after the RPC: a higher term in the reply.
VoteReplyNewer(r) ==
    LET i == r.args.from
    IN  /\ r.term > currentTerm[i]
        /\ StepDown(i, r.term)
        /\ UNCHANGED <<logVars, applyVars, leaderVars, voteVars, readVars, applied, restarts>>
        /\ Persist(i)

\* A reply of an older term, or a refusal.
VoteReplyIgnored(r) ==
    LET i == r.args.from
    IN  /\ r.term < currentTerm[i] \/ (r.term = currentTerm[i] /\ ~r.granted)
        /\ UNCHANGED <<serverVars, logVars, applyVars, leaderVars, voteVars, readVars,
                       disk, applied, restarts>>

\* The vote counts.
CountVote(r) ==
    LET i == r.args.from
    IN  /\ r.term = currentTerm[i] /\ r.granted
        /\ votedNum' = [votedNum EXCEPT ![i] = VotesAfter(@)]
        /\ voters' = [voters EXCEPT ![i] = @ \cup {r.args.to}]

VoteReplyCounted(r) ==
    LET i == r.args.from
    IN  /\ CountVote(r)
        /\ votedNum[i] + 1 < Quorum
        /\ UNCHANGED <<serverVars, logVars, applyVars, leaderVars, ballots, won, readVars,
                       disk, applied, restarts>>

\* It is the vote that wins: no check that the server is still a candidate,
\* only the assertion that it is not leader already.  The heartbeat that
\* announces the leader runs in a thread of its own (doHeartBeat).
VoteReplyWins(r) ==
    LET i == r.args.from
    IN  /\ CountVote(r)
        /\ votedNum[i] + 1 >= Quorum
        /\ status[i] # Leader
        /\ LastLogIndex(i) < MaxLog
        /\ status' = [status EXCEPT ![i] = Leader]
        /\ nextIndex' = [nextIndex EXCEPT ![i] = [j \in Server |-> LastLogIndex(i) + 1]]
        /\ matchIndex' = [matchIndex EXCEPT ![i] = [j \in Server |-> 0]]
        /\ appendNums' = [appendNums EXCEPT ![i] = <<>>]
        /\ logs' = [logs EXCEPT ![i] = Append(@, NewEntry(i, Noop))]
        /\ won' = won \cup {[term |-> currentTerm[i], leader |-> i]}
        /\ UNCHANGED <<currentTerm, votedFor, snapIndex, snapTerm, applyVars, rounds, ballots,
                       readVars, applied, restarts>>
        /\ Persist(i)

sendRequestVote(r) ==
    /\ r.kind = "VoteReply"
    /\ Consume(r)
    /\ \/ VoteReplyNewer(r)
       \/ VoteReplyIgnored(r)
       \/ VoteReplyCounted(r)
       \/ VoteReplyWins(r)

-----------------------------------------------------------------------------
(***************************************************************************)
(* Replication.                                                            *)
(***************************************************************************)
\* Start: the KV server proposes a command.
Start(i, command) ==
    /\ status[i] = Leader
    /\ LastLogIndex(i) < MaxLog
    /\ logs' = [logs EXCEPT ![i] = Append(@, NewEntry(i, command))]
    /\ UNCHANGED <<serverVars, snapIndex, snapTerm, applyVars, leaderVars, voteVars,
                   readVars, rpcs, applied, restarts>>
    /\ Persist(i)

\* doHeartBeat: every peer gets the log from nextIndex to its end, or, when
\* that starts inside the snapshot, a thread that sends the snapshot.
HeartBeatTo(i, j, round) ==
    IF nextIndex[i][j] <= snapIndex[i]
    THEN SnapshotThread(i, j, round)
    ELSE AppendRequest(i, j, "AppendEntries",
                       DropPrefix(i, nextIndex[i][j] - 1), round)

doHeartBeat(i) ==
    /\ status[i] = Leader
    /\ rounds < MaxRounds
    /\ rounds' = rounds + 1
    /\ \A j \in Server \ {i} : nextIndex[i][j] >= 1 /\ nextIndex[i][j] <= LastLogIndex(i) + 1
    /\ appendNums' = [appendNums EXCEPT ![i] = Append(@, 1)]
    /\ rpcs' = rpcs \cup {HeartBeatTo(i, j, Len(appendNums'[i])) : j \in Server \ {i}}
    /\ UNCHANGED <<serverVars, logVars, applyVars, nextIndex, matchIndex, voteVars,
                   readVars, disk, applied, restarts>>

\* The reply types of AppendEntries: `update' is updatenextindex, -100 when the
\* sender's term is old.
AppendReply(r, term, success, update) ==
    [kind |-> IF r.kind = "ReadBeat" THEN "ReadReply" ELSE "AppendReply",
     args |-> r, term |-> term, success |-> success, update |-> update]

\* AppendEntries1 refuses a leader of an older term; nothing is persisted.
AppendEntriesStale(r) ==
    LET j == r.to
    IN  /\ r.term < currentTerm[j]
        /\ Reply(r, AppendReply(r, currentTerm[j], FALSE, -100))
        /\ UNCHANGED <<serverVars, logVars, applyVars, leaderVars, voteVars, readVars,
                       disk, applied, restarts>>

FollowSenderSilent(r) ==            \* mutant of FollowSender: the status kept
    LET j == r.to
    IN  /\ r.term >= currentTerm[j]
        /\ UNCHANGED status
        /\ currentTerm' = [currentTerm EXCEPT ![j] = r.term]
        /\ votedFor' = [votedFor EXCEPT ![j] = IF r.term > currentTerm[j] THEN Nil ELSE @]

\* The part common to every request of the current or a newer term.
FollowSender(r) ==
    LET j == r.to
    IN  /\ r.term >= currentTerm[j]
        /\ status' = [status EXCEPT ![j] = Follower]
        /\ currentTerm' = [currentTerm EXCEPT ![j] = r.term]
        /\ votedFor' = [votedFor EXCEPT ![j] = IF r.term > currentTerm[j] THEN Nil ELSE @]

\* prevLog is past the log, inside the snapshot, or conflicts.
AppendEntriesMismatch(r) ==
    LET j == r.to
        refuse(update) ==
            /\ FollowSender(r)
            /\ Reply(r, AppendReply(r, r.term, FALSE, update))
            /\ UNCHANGED <<logVars, applyVars, leaderVars, voteVars, readVars,
                           applied, restarts>>
            /\ Persist(j)
    IN  \/ /\ r.prevIndex > LastLogIndex(j)
           /\ refuse(LastLogIndex(j) + 1)
        \/ /\ r.prevIndex < snapIndex[j]
           /\ refuse(snapIndex[j] + 1)
        \/ /\ r.prevIndex \in snapIndex[j] .. LastLogIndex(j)
           /\ ~MatchLog(j, r.prevIndex, r.prevTerm)
           /\ refuse(ConflictIndex(j, r.prevIndex))

CopyCommit(i, leaderCommit, last) ==    \* mutant of FollowCommit: never compared
    Minimum(leaderCommit, last)

\* prevLog matches: the entries are merged and the commit index follows the
\* leader's as far as the local log reaches.
FollowCommit(i, leaderCommit, last) ==
    IF leaderCommit > commitIndex[i] THEN Minimum(leaderCommit, last) ELSE commitIndex[i]

AppendEntriesMatch(r) ==
    LET j == r.to
    IN  /\ r.prevIndex \in snapIndex[j] .. LastLogIndex(j)
        /\ MatchLog(j, r.prevIndex, r.prevTerm)
        /\ FollowSender(r)
        /\ logs' = [logs EXCEPT ![j] = MergeEntries(@, Slice(j, r.prevIndex), r.entries)]
        /\ UNCHANGED <<snapIndex, snapTerm>>
        /\ commitIndex' = [commitIndex EXCEPT
             ![j] = FollowCommit(j, r.leaderCommit, LastLogIndex(j)')]
        /\ Reply(r, AppendReply(r, r.term, TRUE, 0))
        /\ UNCHANGED <<lastApplied, leaderVars, voteVars, readVars, applied, restarts>>
        /\ Persist(j)

AppendEntries1(r) ==
    /\ r.kind \in {"AppendEntries", "ReadBeat"}
    /\ \/ AppendEntriesStale(r)
       \/ AppendEntriesMismatch(r)
       \/ AppendEntriesMatch(r)

\* sendAppendEntries, after the RPC.  A higher term in the reply: the new term
\* is not persisted.
AppendReplyNewer(r) ==
    LET i == r.args.from
    IN  /\ r.term > currentTerm[i]
        /\ StepDown(i, r.term)
        /\ UNCHANGED <<logVars, applyVars, leaderVars, voteVars, readVars, disk,
                       applied, restarts>>

\* Stale, no longer leader, or refused because of an old term.
AppendReplyIgnored(r) ==
    LET i == r.args.from
    IN  /\ \/ r.term < currentTerm[i]
           \/ r.term = currentTerm[i] /\ status[i] # Leader
           \/ r.term = currentTerm[i] /\ ~r.success /\ r.update = -100
        /\ UNCHANGED <<serverVars, logVars, applyVars, leaderVars, voteVars, readVars,
                       disk, applied, restarts>>

AppendReplyConflict(r) ==
    LET i == r.args.from
    IN  /\ r.term = currentTerm[i] /\ status[i] = Leader
        /\ ~r.success /\ r.update # -100
        /\ nextIndex' = [nextIndex EXCEPT ![i][r.args.to] = r.update]
        /\ UNCHANGED <<serverVars, logVars, applyVars, matchIndex, appendNums, rounds, voteVars,
                       readVars, disk, applied, restarts>>

FirstRound(args) == 1               \* mutant of RoundOf: one counter for all rounds
AckedNext(args) ==                  \* mutant of Acked: nextIndex for matchIndex
    args.prevIndex + Len(args.entries) + 1

\* The counter a success is added to: each round of heartbeats has its own.
RoundOf(args) == args.round

\* The last index a success acknowledges.
Acked(args) == args.prevIndex + Len(args.entries)

\* *appendNums after one more success: it restarts from 0 at the majority.
RoundAfter(n) == IF n + 1 >= Quorum THEN 0 ELSE n + 1

\* A success.  The reply that completes a round's majority commits the round,
\* provided the request ended in an entry of the current term.
AppendReplySuccess(r) ==
    LET i     == r.args.from
        j     == r.args.to
        n     == Len(r.args.entries)
        last  == Acked(r.args)
        match == Maximum(matchIndex[i][j], last)
        count == appendNums[i][RoundOf(r.args)]
        commits == /\ count + 1 >= Quorum
                   /\ n > 0
                   /\ r.args.entries[n].term = currentTerm[i]
    IN  /\ r.term = currentTerm[i] /\ status[i] = Leader
        /\ r.success
        /\ matchIndex' = [matchIndex EXCEPT ![i][j] = match]
        /\ nextIndex' = [nextIndex EXCEPT ![i][j] = match + 1]
        /\ appendNums' = [appendNums EXCEPT ![i][RoundOf(r.args)] = RoundAfter(@)]
        /\ commitIndex' = [commitIndex EXCEPT ![i] = IF commits THEN Maximum(@, last) ELSE @]
        /\ UNCHANGED <<serverVars, logVars, lastApplied, rounds, voteVars, readVars, disk,
                       applied, restarts>>

sendAppendEntries(r) ==
    /\ r.kind = "AppendReply"
    /\ Consume(r)
    /\ \/ AppendReplyNewer(r)
       \/ AppendReplyIgnored(r)
       \/ AppendReplyConflict(r)
       \/ AppendReplySuccess(r)

\* applierTicker: getApplyLogs moves lastApplied up to commitIndex and the
\* entries go to the KV server.
applierTicker(i) ==
    /\ lastApplied[i] < commitIndex[i]
    /\ lastApplied' = [lastApplied EXCEPT ![i] = commitIndex[i]]
    /\ applied' = applied \cup
         {[entry |-> logs[i][Slice(i, k)], at |-> currentTerm[i]] :
            k \in lastApplied[i] + 1 .. commitIndex[i]}
    /\ UNCHANGED <<serverVars, logVars, commitIndex, leaderVars, voteVars, readVars,
                   disk, rpcs, restarts>>

-----------------------------------------------------------------------------
(***************************************************************************)
(* Snapshots.                                                              *)
(***************************************************************************)
\* Snapshot: the KV server has applied the log up to index and hands over its
\* serialized state; the log keeps what follows.
Snapshot(i, index) ==
    /\ index <= MaxSnapIndex
    /\ index <= lastApplied[i]
    /\ snapIndex[i] < index /\ index <= commitIndex[i]
    /\ snapIndex' = [snapIndex EXCEPT ![i] = index]
    /\ snapTerm' = [snapTerm EXCEPT ![i] = LogTerm(i, index)]
    /\ logs' = [logs EXCEPT ![i] = DropPrefix(i, index)]
    /\ UNCHANGED <<serverVars, applyVars, leaderVars, voteVars, readVars, rpcs,
                   applied, restarts>>
    /\ Persist(i)

\* leaderSendSnapShot up to the RPC: the arguments are what the state holds when
\* the thread gets the mutex, whether or not the server still leads.
leaderSendSnapShot(t) ==
    LET i == t.from
    IN  /\ t.kind = "SnapshotThread"
        /\ rpcs' = (rpcs \ {t}) \cup
             {[kind |-> "InstallSnapshot", from |-> i, to |-> t.to, waiting |-> TRUE,
               term |-> currentTerm[i], index |-> snapIndex[i], lastTerm |-> snapTerm[i],
               spawned |-> t.spawned, round |-> t.round]}
        /\ UNCHANGED <<serverVars, logVars, applyVars, leaderVars, voteVars, readVars,
                       disk, applied, restarts>>

SnapshotReply(r, term) == [kind |-> "SnapshotReply", args |-> r, term |-> term]

\* The InstallSnapshot handler: refused, already covered, or installed.
InstallStale(r) ==
    LET j == r.to
    IN  /\ r.term < currentTerm[j]
        /\ Reply(r, SnapshotReply(r, currentTerm[j]))
        /\ UNCHANGED <<serverVars, logVars, applyVars, leaderVars, voteVars, readVars,
                       disk, applied, restarts>>

\* The term is persisted only if it is new, and the reply's term stays unset.
InstallOutdated(r) ==
    LET j == r.to
    IN  /\ FollowSender(r)
        /\ r.index <= snapIndex[j]
        /\ Reply(r, SnapshotReply(r, 0))
        /\ UNCHANGED <<logVars, applyVars, leaderVars, voteVars, readVars, applied, restarts>>
        /\ IF r.term > currentTerm[j] THEN Persist(j) ELSE UNCHANGED disk

LeftBehind(current, index) == current   \* mutant of Raised

\* Commit and apply positions inside a snapshot move up to its end.
Raised(current, index) == Maximum(current, index)

InstallNew(r) ==
    LET j == r.to
    IN  /\ FollowSender(r)
        /\ r.index > snapIndex[j]
        /\ logs' = [logs EXCEPT ![j] =
             IF LastLogIndex(j) > r.index THEN DropPrefix(j, r.index) ELSE <<>>]
        /\ snapIndex' = [snapIndex EXCEPT ![j] = r.index]
        /\ snapTerm' = [snapTerm EXCEPT ![j] = r.lastTerm]
        /\ commitIndex' = [commitIndex EXCEPT ![j] = Raised(@, r.index)]
        /\ lastApplied' = [lastApplied EXCEPT ![j] = Raised(@, r.index)]
        /\ Reply(r, SnapshotReply(r, r.term))
        /\ UNCHANGED <<leaderVars, voteVars, readVars, applied, restarts>>
        /\ Persist(j)

InstallSnapshot(r) ==
    /\ r.kind = "InstallSnapshot"
    /\ \/ InstallStale(r)
       \/ InstallOutdated(r)
       \/ InstallNew(r)

\* leaderSendSnapShot after the RPC.
SnapshotReplyNewer(r) ==
    LET i == r.args.from
    IN  /\ status[i] = Leader /\ currentTerm[i] = r.args.term
        /\ r.term > currentTerm[i]
        /\ StepDown(i, r.term)
        /\ UNCHANGED <<logVars, applyVars, leaderVars, voteVars, readVars, applied, restarts>>
        /\ Persist(i)

SnapshotReplyIgnored(r) ==
    LET i == r.args.from
    IN  /\ status[i] # Leader \/ currentTerm[i] # r.args.term
        /\ UNCHANGED <<serverVars, logVars, applyVars, leaderVars, voteVars, readVars,
                       disk, applied, restarts>>

SnapshotReplyInstalled(r) ==
    LET i == r.args.from
        j == r.args.to
    IN  /\ status[i] = Leader /\ currentTerm[i] = r.args.term
        /\ r.term <= currentTerm[i]
        /\ matchIndex' = [matchIndex EXCEPT ![i][j] = r.args.index]
        /\ nextIndex' = [nextIndex EXCEPT ![i][j] = r.args.index + 1]
        /\ UNCHANGED <<serverVars, logVars, applyVars, appendNums, rounds, voteVars, readVars,
                       disk, applied, restarts>>

leaderSendSnapShotReply(r) ==
    /\ r.kind = "SnapshotReply"
    /\ Consume(r)
    /\ \/ SnapshotReplyNewer(r)
       \/ SnapshotReplyIgnored(r)
       \/ SnapshotReplyInstalled(r)

-----------------------------------------------------------------------------
(***************************************************************************)
(* ReadIndex.  The call ends in success, or in failure: all its RPCs have  *)
(* finished, or CONSENSUS_TIMEOUT has passed, which may happen at any time.*)
(* `elected' records, for the properties, which terms had been won when    *)
(* the call began.                                                         *)
(***************************************************************************)
ReadIndex(i) ==
    /\ status[i] = Leader
    /\ read[i].phase = "idle"
    /\ reads < MaxReads
    /\ reads' = reads + 1
    /\ read' = [read EXCEPT ![i] =
         [phase |-> "confirm", id |-> reads', term |-> currentTerm[i],
          index |-> commitIndex[i], confirms |-> 1, unsent |-> Server \ {i},
          elected |-> {w.term : w \in won}]]
    /\ UNCHANGED <<serverVars, logVars, applyVars, leaderVars, voteVars, disk, rpcs,
                   applied, restarts>>

\* The thread for peer j gets the mutex: an empty AppendEntries, unless the
\* server no longer leads the saved term or j needs a snapshot.
ReadIndexBeat(i, j) ==
    /\ read[i].phase = "confirm" /\ j \in read[i].unsent
    /\ read' = [read EXCEPT ![i].unsent = @ \ {j}]
    /\ \/ /\ currentTerm[i] # read[i].term \/ status[i] # Leader
             \/ nextIndex[i][j] <= snapIndex[i]
          /\ UNCHANGED rpcs
       \/ /\ currentTerm[i] = read[i].term /\ status[i] = Leader
          /\ nextIndex[i][j] > snapIndex[i]
          /\ nextIndex[i][j] <= LastLogIndex(i) + 1
          /\ rpcs' = rpcs \cup {AppendRequest(i, j, "ReadBeat", <<>>, read[i].id)}
    /\ UNCHANGED <<serverVars, logVars, applyVars, leaderVars, voteVars, reads, disk,
                   applied, restarts>>

AnyReply(r) == TRUE                 \* mutant of Confirms: refusals count
Confirms(r) == r.success

\* The thread counts a success, whatever the terms; a call that has returned
\* no longer looks at its counter.
ReadIndexConfirm(r) ==
    LET i == r.args.from
    IN  /\ r.kind = "ReadReply"
        /\ Consume(r)
        /\ read' = [read EXCEPT ![i].confirms =
             IF read[i].id = r.args.round /\ Confirms(r) THEN @ + 1 ELSE @]
        /\ UNCHANGED <<serverVars, logVars, applyVars, leaderVars, voteVars, reads, disk,
                       applied, restarts>>

\* ReadIndex returns; after a success the caller goes on to WaitForApplied.
ReadIndexReturn(i) ==
    /\ read[i].phase = "confirm"
    /\ \/ /\ read[i].confirms >= Quorum
          /\ currentTerm[i] = read[i].term /\ status[i] = Leader
          /\ read' = [read EXCEPT ![i].phase = "wait"]
       \/ read' = [read EXCEPT ![i] = NoRead]
    /\ UNCHANGED <<serverVars, logVars, applyVars, leaderVars, voteVars, reads, disk, rpcs,
                   applied, restarts>>

\* WaitForApplied returns: lastApplied has reached the index, or it timed out.
WaitForApplied(i) ==
    /\ read[i].phase = "wait"
    /\ read' = [read EXCEPT ![i] = NoRead]
    /\ UNCHANGED <<serverVars, logVars, applyVars, leaderVars, voteVars, reads, disk, rpcs,
                   applied, restarts>>

-----------------------------------------------------------------------------
(***************************************************************************)
(* The process dies and comes back: init reads the raft-state file, and    *)
(* every thread of the old process is gone.                                *)
(***************************************************************************)
AbandonRpcs(i) ==
    {r \in rpcs : "args" \notin DOMAIN r /\ r.from # i}
      \cup {r \in rpcs : "args" \in DOMAIN r /\ r.args.from # i}
      \cup {[r EXCEPT !.waiting = FALSE] :
              r \in {q \in rpcs : "waiting" \in DOMAIN q /\ q.from = i}}

Restart(i) ==
    /\ restarts < MaxRestarts
    /\ restarts' = restarts + 1
    /\ status' = [status EXCEPT ![i] = Follower]
    /\ currentTerm' = [currentTerm EXCEPT ![i] = disk[i].term]
    /\ votedFor' = [votedFor EXCEPT ![i] = disk[i].votedFor]
    /\ logs' = [logs EXCEPT ![i] = disk[i].log]
    /\ snapIndex' = [snapIndex EXCEPT ![i] = disk[i].snapIndex]
    /\ snapTerm' = [snapTerm EXCEPT ![i] = disk[i].snapTerm]
    /\ commitIndex' = [commitIndex EXCEPT ![i] = 0]
    /\ lastApplied' = [lastApplied EXCEPT ![i] = disk[i].snapIndex]
    /\ nextIndex' = [nextIndex EXCEPT ![i] = [j \in Server |-> 0]]
    /\ matchIndex' = [matchIndex EXCEPT ![i] = [j \in Server |-> 0]]
    /\ votedNum' = [votedNum EXCEPT ![i] = 0]
    /\ voters' = [voters EXCEPT ![i] = {}]
    /\ appendNums' = [appendNums EXCEPT ![i] = <<>>]
    /\ read' = [read EXCEPT ![i] = NoRead]
    /\ rpcs' = AbandonRpcs(i)
    /\ UNCHANGED <<disk, ballots, won, applied, reads, rounds>>

Next ==
    \/ \E i \in Server :
          \/ doElection(i)
          \/ doHeartBeat(i)
          \/ applierTicker(i)
          \/ Restart(i)
          \/ ReadIndex(i)
          \/ ReadIndexReturn(i)
          \/ WaitForApplied(i)
          \/ \E command \in Command : Start(i, command)
          \/ \E index \in 1 .. MaxSnapIndex : Snapshot(i, index)
          \/ \E j \in Server : ReadIndexBeat(i, j)
    \/ \E r \in rpcs :
          \/ RequestVote(r)
          \/ sendRequestVote(r)
          \/ AppendEntries1(r)
          \/ sendAppendEntries(r)
          \/ leaderSendSnapShot(r)
          \/ InstallSnapshot(r)
          \/ leaderSendSnapShotReply(r)
          \/ ReadIndexConfirm(r)

Spec == Init /\ [][Next]_vars

-----------------------------------------------------------------------------
(***************************************************************************)
(* Types.                                                                  *)
(***************************************************************************)
Entry == [term : Nat, index : Nat, command : Command \cup {Noop}]

VoteRequests == [kind : {"RequestVote"}, from : Server, to : Server, waiting : BOOLEAN,
                 term : Nat, lastIndex : Nat, lastTerm : Nat]
AppendRequests == [kind : {"AppendEntries", "ReadBeat"}, from : Server, to : Server,
                   waiting : BOOLEAN, term : Nat, prevIndex : Nat, prevTerm : Nat,
                   entries : Seq(Entry), leaderCommit : Nat, round : Nat]
SnapshotThreads == [kind : {"SnapshotThread"}, from : Server, to : Server,
                    spawned : Nat, round : Nat]
SnapshotRequests == [kind : {"InstallSnapshot"}, from : Server, to : Server,
                     waiting : BOOLEAN, term : Nat, index : Nat, lastTerm : Nat,
                     spawned : Nat, round : Nat]
VoteReplies == [kind : {"VoteReply"}, args : VoteRequests, term : Nat, granted : BOOLEAN]
AppendReplies == [kind : {"AppendReply", "ReadReply"}, args : AppendRequests, term : Nat,
                  success : BOOLEAN, update : Int]
SnapshotReplies == [kind : {"SnapshotReply"}, args : SnapshotRequests, term : Nat]

Rpc == VoteRequests \cup AppendRequests \cup SnapshotThreads \cup SnapshotRequests
         \cup VoteReplies \cup AppendReplies \cup SnapshotReplies

DiskState == [term : Nat, votedFor : Server \cup {Nil}, log : Seq(Entry),
              snapIndex : Nat, snapTerm : Nat]
ReadState == [phase : {"idle", "confirm", "wait"}, id : Nat, term : Nat, index : Nat,
              confirms : Nat, unsent : SUBSET Server, elected : SUBSET Nat]

\* Type correctness of the node's fields, its raft-state file and the RPCs.
TypeOK ==
    /\ status \in [Server -> {Follower, Candidate, Leader}]
    /\ currentTerm \in [Server -> Nat]
    /\ votedFor \in [Server -> Server \cup {Nil}]
    /\ logs \in [Server -> Seq(Entry)]
    /\ snapIndex \in [Server -> Nat]
    /\ snapTerm \in [Server -> Nat]
    /\ commitIndex \in [Server -> Nat]
    /\ lastApplied \in [Server -> Nat]
    /\ nextIndex \in [Server -> [Server -> Int]]
    /\ matchIndex \in [Server -> [Server -> Nat]]
    /\ votedNum \in [Server -> Nat]
    /\ appendNums \in [Server -> Seq(Nat)]
    /\ read \in [Server -> ReadState]
    /\ disk \in [Server -> DiskState]
    /\ rpcs \subseteq Rpc
    /\ ballots \subseteq [voter : Server, term : Nat, candidate : Server]
    /\ voters \in [Server -> SUBSET Server]
    /\ won \subseteq [term : Nat, leader : Server]
    /\ applied \subseteq [entry : Entry, at : Nat]
    /\ restarts \in Nat
    /\ reads \in Nat
    /\ rounds \in Nat

-----------------------------------------------------------------------------
(***************************************************************************)
(* Safety.                                                                 *)
(***************************************************************************)
\* No term is ever won by two servers, although a server that restarts counts
\* on its raft-state file alone to remember its vote, and sendRequestVote
\* makes a server leader without checking that it is still a candidate.
ElectionSafety ==
    \A w1, w2 \in won : w1.term = w2.term => w1 = w2

\* A server grants at most one vote per term, across crashes: RequestVote
\* persists the vote before the reply leaves, and a term that was only
\* learned from an AppendEntries reply, which is not persisted, carries none.
VoteOnce ==
    \A b1, b2 \in ballots :
        b1.voter = b2.voter /\ b1.term = b2.term => b1 = b2

\* The assertion of sendRequestVote ("leader twice in one term") never fails:
\* the votes that arrive after the majority cannot add up to another one.
LeaderOnce ==
    \A r \in rpcs :
        LET i == r.args.from
        IN  r.kind = "VoteReply" /\ r.granted /\ r.term = currentTerm[i]
              /\ [term |-> currentTerm[i], leader |-> i] \in won
            => votedNum[i] + 1 < Quorum

\* What a crash would lose: the log and the snapshot boundary are on disk as
\* they are in memory, and a term that is not carries no vote and no office.
DiskCurrent ==
    \A i \in Server :
        /\ disk[i].log = logs[i]
        /\ disk[i].snapIndex = snapIndex[i] /\ disk[i].snapTerm = snapTerm[i]
        /\ \/ disk[i].term = currentTerm[i] /\ disk[i].votedFor = votedFor[i]
           \/ /\ disk[i].term < currentTerm[i]
              /\ votedFor[i] = Nil /\ status[i] = Follower

\* The index fields of a log count up from the snapshot without a gap, so that
\* getSlicesIndexFromLogIndex finds the entry it is asked for (the assertions
\* of getApplyLogs, getSlicesIndexFromLogIndex and Snapshot).
LogContiguous ==
    \A i \in Server : \A k \in 1 .. Len(logs[i]) : logs[i][k].index = snapIndex[i] + k

\* snapshot <= lastApplied, and neither commitIndex nor lastApplied runs past
\* the log (the assertions of getApplyLogs, AppendEntries1, sendAppendEntries).
IndexOrder ==
    \A i \in Server :
        /\ snapIndex[i] <= lastApplied[i]
        /\ commitIndex[i] <= LastLogIndex(i)
        /\ lastApplied[i] <= LastLogIndex(i)

\* What a leader believes of its peers: nextIndex is positive (the assertion of
\* doHeartBeat) and matchIndex stays inside its own log (sendAppendEntries).
PeerIndexes ==
    \A i, j \in Server : status[i] = Leader =>
        /\ nextIndex[i][j] >= 1
        /\ matchIndex[i][j] <= LastLogIndex(i)

\* Every entry in sight: in a log, on a disk, in a request.
EntriesInSight ==
    (UNION {{logs[i][k] : k \in DOMAIN logs[i]} : i \in Server})
      \cup (UNION {{r.entries[k] : k \in DOMAIN r.entries} :
                     r \in {q \in rpcs : q.kind = "AppendEntries"}})
      \cup {a.entry : a \in applied}

\* Index and term name one command, so the assertion of AppendEntries1 ("same
\* log index and term, but command differs") never fails.
EntryIdentity ==
    \A e1, e2 \in EntriesInSight :
        e1.index = e2.index /\ e1.term = e2.term => e1 = e2

\* A successful ReadIndex was called while no later term had been won: the
\* majority that answered its heartbeats was still in the caller's term.
LeadershipConfirmed ==
    \A i \in Server : read[i].phase = "wait" => \A t \in read[i].elected : t <= read[i].term

-----------------------------------------------------------------------------
(***************************************************************************)
(* What a step may never do.                                               *)
(***************************************************************************)
\* A leader never removes or replaces an entry of its own log, except for the
\* prefix a snapshot covers.
LeaderAppendOnly ==
    [][\A i \in Server : status[i] = Leader /\ status'[i] = Leader =>
          \A k \in 1 .. Len(logs[i]) :
             snapIndex[i] + k > snapIndex'[i] =>
                logs'[i][snapIndex[i] + k - snapIndex'[i]] = logs[i][k]]_vars

\* Server j holds the entry of the given term at index, or a snapshot past it.
Holds(j, index, term) ==
    \/ index <= snapIndex[j]
    \/ index <= LastLogIndex(j) /\ LogTerm(j, index) = term

\* When a leader moves its commit index, a majority holds the entry committed,
\* those servers aside that have gone on to a later term: a round counts
\* every peer once, and no success of another round.
CommitQuorum ==
    [][\A i \in Server :
          status[i] = Leader /\ status'[i] = Leader /\ commitIndex'[i] > commitIndex[i] =>
             Cardinality({j \in Server : \/ currentTerm[j] > currentTerm[i]
                                         \/ Holds(j, commitIndex'[i], currentTerm[i])})
               >= Quorum]_vars

\* Commit and apply positions only move back when the process restarts, and
\* the snapshot boundary never does.
ProgressMonotone ==
    [][\A i \in Server :
          /\ snapIndex'[i] >= snapIndex[i]
          /\ restarts' = restarts => /\ commitIndex'[i] >= commitIndex[i]
                                     /\ lastApplied'[i] >= lastApplied[i]]_vars

-----------------------------------------------------------------------------
(***************************************************************************)
(* What the repository's documents and comments say of the node, and the   *)
(* code does not do.                                                       *)
(***************************************************************************)
\* An elected leader has every entry that was applied in an earlier term.
LeaderCompleteness ==
    \A i \in Server : status[i] = Leader =>
        \A a \in applied :
            a.at < currentTerm[i] => Holds(i, a.entry.index, a.entry.term)
============================================================================
