------------------------- MODULE ReplicationProofs -------------------------
(***************************************************************************)
(* What happens to the logs: the positions in them only move forward, a    *)
(* leader only appends, what it believes of its peers stays inside its own *)
(* log, and an index and a term name one command.  On this rests what the  *)
(* two majorities mean that a leader counts, in the second half.           *)
(***************************************************************************)
EXTENDS RaftProofs

\* Nobody becomes leader, and no leader changes its term.
LeadersStay ==
    \A i \in Server : status'[i] = Leader =>
        status[i] = Leader /\ currentTerm'[i] = currentTerm[i]

-----------------------------------------------------------------------------
(***************************************************************************)
(* The steps that move a log, a position in it, or a leader.               *)
(***************************************************************************)
LEMMA StepDownLeaders ==
    ASSUME TypeOK, NEW i \in Server, NEW term, StepDown(i, term)
    PROVE  LeadersStay
  BY DEF StepDown, LeadersStay, TypeOK, Follower, Leader

\* A server that follows the sender of a call makes nobody a leader.
LEMMA FollowSenderLeaders ==
    ASSUME TypeOK, NEW r, r.to \in Server, FollowSender(r)
    PROVE  LeadersStay /\ status'[r.to] = Follower
  BY DEF FollowSender, LeadersStay, TypeOK, Follower, Leader

\* The steps of one server that touch no log and make no leader.
LEMMA QuietServerSteps ==
    ASSUME TypeOK, NEW i \in Server,
           \/ doElection(i) \/ doHeartBeat(i)
           \/ ReadIndex(i) \/ ReadIndexReturn(i) \/ WaitForApplied(i)
           \/ \E j \in Server : ReadIndexBeat(i, j)
    PROVE  UNCHANGED <<logVars, applyVars, applied, won, restarts>> /\ LeadersStay
  <1>1. CASE doElection(i)
    BY <1>1 DEF doElection, LeadersStay, TypeOK, Candidate, Leader
  <1>2. CASE doHeartBeat(i)
    BY <1>2 DEF doHeartBeat, LeadersStay, serverVars, voteVars
  <1>3. CASE ReadIndex(i)
    BY <1>3 DEF ReadIndex, LeadersStay, serverVars, voteVars
  <1>4. CASE ReadIndexReturn(i)
    BY <1>4 DEF ReadIndexReturn, LeadersStay, serverVars, voteVars
  <1>5. CASE WaitForApplied(i)
    BY <1>5 DEF WaitForApplied, LeadersStay, serverVars, voteVars
  <1>6. CASE \E j \in Server : ReadIndexBeat(i, j)
    BY <1>6 DEF ReadIndexBeat, LeadersStay, serverVars, voteVars
  <1> QED
    BY <1>1, <1>2, <1>3, <1>4, <1>5, <1>6

\* The calls that touch no log and make no leader.
LEMMA QuietCalls ==
    ASSUME TypeOK, NEW r \in rpcs,
           \/ RequestVote(r)
           \/ sendRequestVote(r) /\ ~VoteReplyWins(r)
           \/ AppendEntries1(r) /\ ~AppendEntriesMatch(r)
           \/ sendAppendEntries(r) /\ ~AppendReplySuccess(r)
           \/ leaderSendSnapShot(r)
           \/ InstallSnapshot(r) /\ ~InstallNew(r)
           \/ leaderSendSnapShotReply(r)
           \/ ReadIndexConfirm(r)
    PROVE  UNCHANGED <<logVars, applyVars, applied, won, restarts>> /\ LeadersStay
  <1>1. CASE RequestVote(r)
    <2>1. r.to \in Server /\ r.term \in Nat
      BY <1>1, RpcKinds DEF RequestVote, VoteRequests
    <2>2. /\ UNCHANGED <<logVars, applyVars, applied, won, restarts>>
          /\ status' = [status EXCEPT
               ![r.to] = IF r.term > currentTerm[r.to] THEN Follower ELSE @]
          /\ currentTerm' = [currentTerm EXCEPT ![r.to] = Maximum(r.term, currentTerm[r.to])]
      BY <1>1 DEF RequestVote, voteVars
    <2>3. ASSUME NEW i \in Server, status'[i] = Leader
          PROVE  status[i] = Leader /\ currentTerm'[i] = currentTerm[i]
      <3>1. CASE i = r.to
        <4>1. ~(r.term > currentTerm[i]) /\ status[i] = Leader
          BY <2>1, <2>2, <2>3, <3>1 DEF TypeOK, Follower, Leader
        <4> QED
          BY <2>1, <2>2, <3>1, <4>1 DEF TypeOK, Maximum
      <3>2. CASE i # r.to
        BY <2>1, <2>2, <2>3, <3>2 DEF TypeOK
      <3> QED
        BY <3>1, <3>2
    <2> QED
      BY <2>2, <2>3 DEF LeadersStay
  <1>2. CASE sendRequestVote(r) /\ ~VoteReplyWins(r)
    <2>1. r.args.from \in Server
      BY <1>2, RpcKinds DEF sendRequestVote, VoteReplies, VoteRequests
    <2>2. CASE VoteReplyNewer(r)
      BY <2>1, <2>2, StepDownLeaders DEF VoteReplyNewer, voteVars
    <2>3. CASE VoteReplyIgnored(r) \/ VoteReplyCounted(r)
      BY <2>3 DEF VoteReplyIgnored, VoteReplyCounted, LeadersStay, serverVars, voteVars
    <2> QED
      BY <1>2, <2>2, <2>3 DEF sendRequestVote
  <1>3. CASE AppendEntries1(r) /\ ~AppendEntriesMatch(r)
    <2>1. r.to \in Server
      BY <1>3, RpcKinds DEF AppendEntries1, AppendRequests
    <2>2. CASE AppendEntriesStale(r)
      BY <2>2 DEF AppendEntriesStale, LeadersStay, serverVars, voteVars
    <2>3. CASE AppendEntriesMismatch(r)
      <3>1. UNCHANGED <<logVars, applyVars, applied, won, restarts>> /\ FollowSender(r)
        BY <2>3 DEF AppendEntriesMismatch, voteVars
      <3> QED
        BY <2>1, <3>1, FollowSenderLeaders
    <2> QED
      BY <1>3, <2>2, <2>3 DEF AppendEntries1
  <1>4. CASE sendAppendEntries(r) /\ ~AppendReplySuccess(r)
    <2>1. r.args.from \in Server
      BY <1>4, RpcKinds DEF sendAppendEntries, AppendReplies, AppendRequests
    <2>2. CASE AppendReplyNewer(r)
      BY <2>1, <2>2, StepDownLeaders DEF AppendReplyNewer, voteVars
    <2>3. CASE AppendReplyIgnored(r) \/ AppendReplyConflict(r)
      BY <2>3 DEF AppendReplyIgnored, AppendReplyConflict, LeadersStay, serverVars, voteVars
    <2> QED
      BY <1>4, <2>2, <2>3 DEF sendAppendEntries
  <1>5. CASE leaderSendSnapShot(r)
    BY <1>5 DEF leaderSendSnapShot, LeadersStay, serverVars, voteVars
  <1>6. CASE InstallSnapshot(r) /\ ~InstallNew(r)
    <2>1. r.to \in Server
      BY <1>6, RpcKinds DEF InstallSnapshot, SnapshotRequests
    <2>2. CASE InstallStale(r)
      BY <2>2 DEF InstallStale, LeadersStay, serverVars, voteVars
    <2>3. CASE InstallOutdated(r)
      <3>1. UNCHANGED <<logVars, applyVars, applied, won, restarts>> /\ FollowSender(r)
        BY <2>3 DEF InstallOutdated, voteVars
      <3> QED
        BY <2>1, <3>1, FollowSenderLeaders
    <2> QED
      BY <1>6, <2>2, <2>3 DEF InstallSnapshot
  <1>7. CASE leaderSendSnapShotReply(r)
    <2>1. r.args.from \in Server
      BY <1>7, RpcKinds DEF leaderSendSnapShotReply, SnapshotReplies, SnapshotRequests
    <2>2. CASE SnapshotReplyNewer(r)
      BY <2>1, <2>2, StepDownLeaders DEF SnapshotReplyNewer, voteVars
    <2>3. CASE SnapshotReplyIgnored(r) \/ SnapshotReplyInstalled(r)
      BY <2>3 DEF SnapshotReplyIgnored, SnapshotReplyInstalled, LeadersStay, serverVars, voteVars
    <2> QED
      BY <1>7, <2>2, <2>3 DEF leaderSendSnapShotReply
  <1>8. CASE ReadIndexConfirm(r)
    BY <1>8 DEF ReadIndexConfirm, LeadersStay, serverVars, voteVars
  <1> QED
    BY <1>1, <1>2, <1>3, <1>4, <1>5, <1>6, <1>7, <1>8

\* Every step is one of these.
LEMMA LogSteps ==
    ASSUME TypeOK, [Next]_vars
    PROVE  \/ UNCHANGED <<logVars, applyVars, applied, won, restarts>> /\ LeadersStay
           \/ \E i \in Server :
                 \/ \E command \in Command : Start(i, command)
                 \/ \E index \in 1 .. MaxSnapIndex : Snapshot(i, index)
                 \/ applierTicker(i)
                 \/ Restart(i)
           \/ \E r \in rpcs :
                 \/ sendRequestVote(r) /\ VoteReplyWins(r)
                 \/ AppendEntries1(r) /\ AppendEntriesMatch(r)
                 \/ sendAppendEntries(r) /\ AppendReplySuccess(r)
                 \/ InstallSnapshot(r) /\ InstallNew(r)
  <1>1. CASE UNCHANGED vars
    BY <1>1 DEF vars, LeadersStay, serverVars, voteVars
  <1>2. CASE Next
    <2>1. CASE \E i \in Server :
                  \/ doElection(i) \/ doHeartBeat(i)
                  \/ ReadIndex(i) \/ ReadIndexReturn(i) \/ WaitForApplied(i)
                  \/ \E j \in Server : ReadIndexBeat(i, j)
      BY <2>1, QuietServerSteps
    <2>2. CASE \E r \in rpcs :
                  \/ RequestVote(r)
                  \/ sendRequestVote(r) /\ ~VoteReplyWins(r)
                  \/ AppendEntries1(r) /\ ~AppendEntriesMatch(r)
                  \/ sendAppendEntries(r) /\ ~AppendReplySuccess(r)
                  \/ leaderSendSnapShot(r)
                  \/ InstallSnapshot(r) /\ ~InstallNew(r)
                  \/ leaderSendSnapShotReply(r)
                  \/ ReadIndexConfirm(r)
      BY <2>2, QuietCalls
    <2> QED
      BY <1>2, <2>1, <2>2 DEF Next
  <1> QED
    BY <1>1, <1>2

\* Merging never shortens a log.
LEMMA MergedIsLonger ==
    ASSUME NodeInv, NodeInv', NEW r \in rpcs, AppendEntriesMatch(r), r.to \in Server,
           r.prevIndex \in Nat, r.entries \in Seq(Entry)
    PROVE  /\ LastLogIndex(r.to)' >= LastLogIndex(r.to)
           /\ LastLogIndex(r.to)' >= r.prevIndex + Len(r.entries)
           /\ \A i \in Server \ {r.to} : logs'[i] = logs[i]
           /\ logs'[r.to] = MergeEntries(logs[r.to], Slice(r.to, r.prevIndex), r.entries)
           /\ Slice(r.to, r.prevIndex) \in Nat /\ Slice(r.to, r.prevIndex) <= Len(logs[r.to])
           /\ r.prevIndex = snapIndex[r.to] + Slice(r.to, r.prevIndex)
  <1> DEFINE j == r.to
             from == Slice(j, r.prevIndex)
  <1>0. TypeOK /\ LogContiguous /\ TypeOK' /\ LogContiguous'
    BY DEF NodeInv
  <1>1. /\ r.prevIndex \in snapIndex[j] .. LastLogIndex(j) /\ UNCHANGED snapIndex
        /\ logs' = [logs EXCEPT ![j] = MergeEntries(@, from, r.entries)]
    BY DEF AppendEntriesMatch
  <1>2. /\ LastLogIndex(j) = snapIndex[j] + Len(logs[j]) /\ snapIndex[j] \in Nat
        /\ Len(logs[j]) \in Nat /\ logs[j] \in Seq(Entry) /\ Len(r.entries) \in Nat
        /\ LastLogIndex(j)' = snapIndex'[j] + Len(logs'[j])
    BY <1>0, LastIndexIsLength, LastIndexIsLengthNext, LastOfSeq
  <1>3. from \in Nat /\ from <= Len(logs[j]) /\ r.prevIndex = snapIndex[j] + from
    BY <1>1, <1>2 DEF Slice
  <1>7. logs \in [Server -> Seq(Entry)]
    BY <1>0 DEF TypeOK
  <1>4. logs'[j] = MergeEntries(logs[j], from, r.entries)
        /\ \A i \in Server \ {j} : logs'[i] = logs[i]
    BY <1>1, <1>7
  <1> HIDE DEF j, from
  <1>5. Len(logs'[j]) = Maximum(Len(logs[j]), from + Len(r.entries))
    <2> DEFINE old == logs[j]  es == r.entries
    <2>1. old \in Seq(Entry) /\ es \in Seq(Entry) /\ from \in Nat /\ from <= Len(old)
      BY <1>2, <1>3
    <2> HIDE DEF old, es
    <2>2. Len(MergeEntries(old, from, es)) = Maximum(Len(old), from + Len(es))
      BY <2>1, MergeType
    <2> QED
      BY <1>4, <2>2 DEF old, es
  <1>6. LastLogIndex(j)' >= LastLogIndex(j) /\ LastLogIndex(j)' >= r.prevIndex + Len(r.entries)
    BY <1>1, <1>2, <1>3, <1>5 DEF Maximum
  <1> QED
    BY <1>3, <1>4, <1>6 DEF j, from

-----------------------------------------------------------------------------
(***************************************************************************)
(* Positions.                                                              *)
(***************************************************************************)
\* What one step does to the positions of a server.
Forward(i) ==
    /\ snapIndex'[i] >= snapIndex[i]
    /\ restarts' = restarts => /\ commitIndex'[i] >= commitIndex[i]
                               /\ lastApplied'[i] >= lastApplied[i]

\* No step but a restart moves a position back.
LEMMA StepsForward ==
    ASSUME NodeInv, NodeInv', [Next]_vars
    PROVE  \A i \in Server : Forward(i)
  <1>0. /\ TypeOK /\ LogContiguous /\ IndexOrder /\ DiskCurrent
        /\ TypeOK' /\ LogContiguous'
    BY DEF NodeInv
  <1>1. \A i \in Server : /\ snapIndex[i] \in Nat /\ snapIndex'[i] \in Nat
                          /\ commitIndex[i] \in Nat /\ commitIndex'[i] \in Nat
                          /\ lastApplied[i] \in Nat /\ lastApplied'[i] \in Nat
                          /\ restarts \in Nat
    BY <1>0 DEF TypeOK
  <1>11. snapIndex \in [Server -> Nat] /\ commitIndex \in [Server -> Nat]
         /\ lastApplied \in [Server -> Nat]
    BY <1>0 DEF TypeOK
  <1>2. CASE UNCHANGED <<logVars, applyVars, applied, won, restarts>>
    BY <1>1, <1>2 DEF Forward, logVars, applyVars
  <1>3. ASSUME NEW i \in Server, NEW command \in Command, Start(i, command)
        PROVE  \A j \in Server : Forward(j)
    BY <1>1, <1>3 DEF Start, Forward, applyVars
  <1>4. ASSUME NEW i \in Server, NEW index \in 1 .. MaxSnapIndex, Snapshot(i, index)
        PROVE  \A j \in Server : Forward(j)
    <2>1. /\ snapIndex[i] < index /\ snapIndex' = [snapIndex EXCEPT ![i] = index]
          /\ UNCHANGED <<commitIndex, lastApplied>>
      BY <1>4 DEF Snapshot, applyVars
    <2> QED
      BY <1>1, <1>11, <2>1 DEF Forward
  <1>5. ASSUME NEW i \in Server, applierTicker(i)
        PROVE  \A j \in Server : Forward(j)
    <2>1. /\ lastApplied[i] < commitIndex[i]
          /\ lastApplied' = [lastApplied EXCEPT ![i] = commitIndex[i]]
          /\ UNCHANGED <<commitIndex, snapIndex>>
      BY <1>5 DEF applierTicker, logVars
    <2> QED
      BY <1>1, <1>11, <2>1 DEF Forward
  <1>6. ASSUME NEW i \in Server, Restart(i)
        PROVE  \A j \in Server : Forward(j)
    <2>1. /\ restarts' = restarts + 1
          /\ snapIndex' = [snapIndex EXCEPT ![i] = disk[i].snapIndex]
          /\ disk[i].snapIndex = snapIndex[i]
      BY <1>0, <1>6 DEF Restart, DiskCurrent
    <2> QED
      BY <1>1, <1>11, <2>1 DEF Forward
  <1>7. ASSUME NEW r \in rpcs, sendRequestVote(r), VoteReplyWins(r)
        PROVE  \A j \in Server : Forward(j)
    BY <1>1, <1>7 DEF VoteReplyWins, Forward, applyVars
  <1>8. ASSUME NEW r \in rpcs, AppendEntries1(r), AppendEntriesMatch(r)
        PROVE  \A j \in Server : Forward(j)
    <2> DEFINE j == r.to
               last == LastLogIndex(j)'
    <2>1. j \in Server /\ r.leaderCommit \in Nat /\ r.prevIndex \in Nat /\ r.entries \in Seq(Entry)
      BY <1>0, <1>8, RpcKinds DEF AppendEntries1, AppendRequests
    <2>2. /\ commitIndex' = [commitIndex EXCEPT ![j] = FollowCommit(j, r.leaderCommit, last)]
          /\ UNCHANGED <<snapIndex, lastApplied>>
      BY <1>8 DEF AppendEntriesMatch
    <2>3. last >= LastLogIndex(j)
      BY <1>8, <2>1, MergedIsLonger
    <2>4. commitIndex[j] <= LastLogIndex(j) /\ LastLogIndex(j) \in Nat /\ last \in Nat
      BY <1>0, <2>1, LastIndexIsLength, LastIndexIsLengthNext DEF IndexOrder
    <2> HIDE DEF j, last
    <2>5. commitIndex'[j] >= commitIndex[j]
      <3>1. commitIndex'[j] = FollowCommit(j, r.leaderCommit, last)
        BY <1>11, <2>1, <2>2
      <3> QED
        BY <1>1, <2>1, <2>3, <2>4, <3>1 DEF FollowCommit, Minimum
    <2> QED
      BY <1>1, <1>11, <2>1, <2>2, <2>5 DEF Forward
  <1>9. ASSUME NEW r \in rpcs, sendAppendEntries(r), AppendReplySuccess(r)
        PROVE  \A j \in Server : Forward(j)
    <2> DEFINE i == r.args.from
    <2>1. i \in Server /\ r.args \in AppendRequests
      BY <1>0, <1>9, RpcKinds DEF sendAppendEntries, AppendReplies, AppendRequests
    <2>2. Acked(r.args) \in Nat
      BY <2>1, LastOfSeq DEF AppendRequests, Acked
    <2>3. /\ UNCHANGED <<snapIndex, lastApplied>>
          /\ \/ commitIndex' = [commitIndex EXCEPT ![i] = Maximum(commitIndex[i], Acked(r.args))]
             \/ commitIndex' = [commitIndex EXCEPT ![i] = commitIndex[i]]
      BY <1>9 DEF AppendReplySuccess, logVars
    <2> HIDE DEF i
    <2>4. commitIndex'[i] >= commitIndex[i]
          /\ \A j \in Server \ {i} : commitIndex'[j] = commitIndex[j]
      BY <1>1, <1>11, <2>1, <2>2, <2>3 DEF Maximum
    <2> QED
      BY <1>1, <2>1, <2>3, <2>4 DEF Forward
  <1>10. ASSUME NEW r \in rpcs, InstallSnapshot(r), InstallNew(r)
        PROVE  \A j \in Server : Forward(j)
    <2> DEFINE j == r.to
    <2>1. j \in Server /\ r.index \in Nat
      BY <1>0, <1>10, RpcKinds DEF InstallSnapshot, SnapshotRequests
    <2>2. /\ r.index > snapIndex[j]
          /\ snapIndex' = [snapIndex EXCEPT ![j] = r.index]
          /\ commitIndex' = [commitIndex EXCEPT ![j] = Raised(@, r.index)]
          /\ lastApplied' = [lastApplied EXCEPT ![j] = Raised(@, r.index)]
      BY <1>10 DEF InstallNew
    <2> HIDE DEF j
    <2> QED
      BY <1>1, <1>11, <2>1, <2>2 DEF Forward, Raised, Maximum
  <1> QED
    BY <1>0, <1>2, <1>3, <1>4, <1>5, <1>6, <1>7, <1>8, <1>9, <1>10, LogSteps

\* Commit and apply positions move back in a restart only, and the snapshot
\* boundary never: neither a late AppendEntries, nor a late InstallSnapshot,
\* nor a commit that overtakes another one takes back what was applied.
THEOREM PositionsMoveForward == Spec => ProgressMonotone
  <1>1. NodeInv /\ NodeInv' /\ [Next]_vars =>
          [\A i \in Server :
             /\ snapIndex'[i] >= snapIndex[i]
             /\ restarts' = restarts => /\ commitIndex'[i] >= commitIndex[i]
                                        /\ lastApplied'[i] >= lastApplied[i]]_vars
    BY StepsForward DEF Forward
  <1> QED
    BY <1>1, NodeInvariant, PTL DEF Spec, ProgressMonotone

-----------------------------------------------------------------------------
(***************************************************************************)
(* Leaders append.                                                         *)
(***************************************************************************)
\* The entries of a log that a step neither drops into a snapshot nor changes.
Kept(i) ==
    \A k \in 1 .. Len(logs[i]) :
        snapIndex[i] + k > snapIndex'[i] =>
            logs'[i][snapIndex[i] + k - snapIndex'[i]] = logs[i][k]

\* A log that does not change keeps its entries.
LEMMA SameLogKept ==
    ASSUME TypeOK, NEW i \in Server, logs'[i] = logs[i], snapIndex'[i] = snapIndex[i]
    PROVE  Kept(i)
  <1>1. snapIndex[i] \in Nat
    BY DEF TypeOK
  <1>2. \A k \in 1 .. Len(logs[i]) : snapIndex[i] + k - snapIndex'[i] = k
    BY <1>1
  <1> QED
    BY <1>2 DEF Kept

\* An entry made by Start or an election has the type of an entry.
LEMMA NewEntryType ==
    ASSUME TypeOK, LogContiguous, NEW i \in Server, NEW command \in Command \cup {Noop}
    PROVE  NewEntry(i, command) \in Entry
  <1>1. currentTerm[i] \in Nat /\ LastLogIndex(i) + 1 \in Nat
    <2>1. LastLogIndex(i) \in Nat
      BY LastIndexIsLength
    <2> QED
      BY <2>1 DEF TypeOK
  <1> QED
    BY <1>1 DEF NewEntry, Entry

\* Appending an entry keeps the others.
LEMMA AppendKept ==
    ASSUME TypeOK, NEW i \in Server, NEW e \in Entry, UNCHANGED snapIndex,
           logs' = [logs EXCEPT ![i] = Append(@, e)]
    PROVE  /\ \A j \in Server : Kept(j)
           /\ logs'[i] = Append(logs[i], e)
           /\ Len(logs'[i]) = Len(logs[i]) + 1 /\ logs'[i][Len(logs[i]) + 1] = e
           /\ \A k \in 1 .. Len(logs[i]) : logs'[i][k] = logs[i][k]
  <1>1. logs \in [Server -> Seq(Entry)] /\ snapIndex[i] \in Nat
    BY DEF TypeOK
  <1>2. logs[i] \in Seq(Entry)
    BY <1>1
  <1>3. /\ Len(Append(logs[i], e)) = Len(logs[i]) + 1
        /\ Append(logs[i], e)[Len(logs[i]) + 1] = e
        /\ \A k \in 1 .. Len(logs[i]) : Append(logs[i], e)[k] = logs[i][k]
    BY <1>2, AppendProperties
  <1>4. logs'[i] = Append(logs[i], e) /\ \A j \in Server \ {i} : logs'[j] = logs[j]
    BY <1>1
  <1>5. \A k \in 1 .. Len(logs[i]) : snapIndex[i] + k - snapIndex'[i] = k
    BY <1>1
  <1>6. Kept(i)
    BY <1>3, <1>4, <1>5 DEF Kept
  <1> QED
    BY <1>3, <1>4, <1>6, SameLogKept

\* Cutting a log up to an index keeps the entries behind it.
LEMMA CutKept ==
    ASSUME TypeOK, LogContiguous, NEW i \in Server, NEW index \in Nat,
           index >= snapIndex[i], snapIndex'[i] = index,
           \/ index <= LastLogIndex(i) /\ logs'[i] = DropPrefix(i, index)
           \/ index >= LastLogIndex(i)
    PROVE  Kept(i)
  <1>1. /\ LastLogIndex(i) = snapIndex[i] + Len(logs[i])
        /\ Len(logs[i]) \in Nat /\ snapIndex[i] \in Nat
    BY LastIndexIsLength
  <1>2. CASE index >= LastLogIndex(i)
    BY <1>1, <1>2 DEF Kept
  <1>3. CASE index <= LastLogIndex(i) /\ logs'[i] = DropPrefix(i, index)
    <2>1. \A m \in 1 .. LastLogIndex(i) - index :
             DropPrefix(i, index)[m] = logs[i][index - snapIndex[i] + m]
      BY <1>3, DropPrefixProperties
    <2>2. ASSUME NEW k \in 1 .. Len(logs[i]), snapIndex[i] + k > index
          PROVE  logs'[i][snapIndex[i] + k - index] = logs[i][k]
      <3> DEFINE m == snapIndex[i] + k - index
      <3>1. m \in 1 .. LastLogIndex(i) - index /\ index - snapIndex[i] + m = k
        BY <1>1, <2>2
      <3>2. DropPrefix(i, index)[m] = logs[i][index - snapIndex[i] + m]
        BY <2>1, <3>1
      <3>3. logs'[i][m] = DropPrefix(i, index)[m]
        BY <1>3
      <3> QED
        BY <3>1, <3>2, <3>3
    <2>3. \A k \in 1 .. Len(logs[i]) : snapIndex[i] + k > snapIndex'[i] =>
             logs'[i][snapIndex[i] + k - snapIndex'[i]] = logs[i][k]
      BY <2>2
    <2> QED
      BY <2>3 DEF Kept
  <1> QED
    BY <1>2, <1>3

\* Only the merge of AppendEntries1 changes an entry in its place.
LEMMA StepsKeepLogs ==
    ASSUME NodeInv, NodeInv', [Next]_vars, NEW i \in Server
    PROVE  \/ Kept(i)
           \/ \E r \in rpcs : AppendEntries1(r) /\ AppendEntriesMatch(r) /\ r.to = i
  <1>0. TypeOK /\ LogContiguous /\ IndexOrder /\ DiskCurrent
    BY DEF NodeInv
  <1>00. logs \in [Server -> Seq(Entry)] /\ snapIndex \in [Server -> Nat]
    BY <1>0 DEF TypeOK
  <1>1. CASE UNCHANGED <<logVars, applyVars, applied, won, restarts>>
    BY <1>0, <1>1, SameLogKept DEF logVars
  <1>2. ASSUME NEW j \in Server, NEW command \in Command, Start(j, command)
        PROVE  Kept(i)
    <2>1. NewEntry(j, command) \in Entry
      BY <1>0, NewEntryType
    <2> QED
      BY <1>0, <1>2, <2>1, AppendKept DEF Start
  <1>3. ASSUME NEW j \in Server, NEW index \in 1 .. MaxSnapIndex, Snapshot(j, index)
        PROVE  Kept(i)
    <2>1. /\ snapIndex[j] < index /\ index <= lastApplied[j]
          /\ snapIndex' = [snapIndex EXCEPT ![j] = index]
          /\ logs' = [logs EXCEPT ![j] = DropPrefix(j, index)]
      BY <1>3 DEF Snapshot
    <2>2. CASE i # j
      BY <1>0, <1>00, <2>1, <2>2, SameLogKept
    <2>3. CASE i = j
      <3>1. logs'[i] = DropPrefix(i, index) /\ snapIndex'[i] = index
        BY <1>00, <2>1, <2>3
      <3>2. lastApplied[i] \in Nat /\ lastApplied[i] <= LastLogIndex(i) /\ LastLogIndex(i) \in Nat
            /\ snapIndex[i] \in Nat /\ index \in Nat
        <4>1. lastApplied[i] \in Nat
          BY <1>0 DEF TypeOK
        <4>2. lastApplied[i] <= LastLogIndex(i)
          BY <1>0 DEF IndexOrder
        <4> QED
          BY <1>0, <4>1, <4>2, LastIndexIsLength, BoundsAreNat
      <3>3. index >= snapIndex[i] /\ index <= LastLogIndex(i)
        BY <2>1, <2>3, <3>2
      <3> QED
        BY <1>0, <3>1, <3>2, <3>3, CutKept
    <2> QED
      BY <2>2, <2>3
  <1>4. ASSUME NEW j \in Server, applierTicker(j)
        PROVE  Kept(i)
    BY <1>0, <1>4, SameLogKept DEF applierTicker, logVars
  <1>5. ASSUME NEW j \in Server, Restart(j)
        PROVE  Kept(i)
    <2>1. /\ logs' = [logs EXCEPT ![j] = disk[j].log]
          /\ snapIndex' = [snapIndex EXCEPT ![j] = disk[j].snapIndex]
          /\ disk[j].log = logs[j] /\ disk[j].snapIndex = snapIndex[j]
      BY <1>0, <1>5 DEF Restart, DiskCurrent
    <2>2. logs'[i] = logs[i] /\ snapIndex'[i] = snapIndex[i]
      BY <1>00, <2>1
    <2> QED
      BY <1>0, <2>2, SameLogKept
  <1>6. ASSUME NEW r \in rpcs, sendRequestVote(r), VoteReplyWins(r)
        PROVE  Kept(i)
    <2>1. /\ UNCHANGED snapIndex
          /\ logs' = [logs EXCEPT ![r.args.from] = Append(@, NewEntry(r.args.from, Noop))]
      BY <1>6 DEF VoteReplyWins
    <2>2. r.args.from \in Server
      BY <1>0, <1>6, RpcKinds DEF sendRequestVote, VoteReplies, VoteRequests
    <2>3. NewEntry(r.args.from, Noop) \in Entry
      BY <1>0, <2>2, NewEntryType
    <2> QED
      BY <1>0, <2>1, <2>2, <2>3, AppendKept
  <1>7. ASSUME NEW r \in rpcs, AppendEntries1(r), AppendEntriesMatch(r), r.to # i
        PROVE  Kept(i)
    <2>1. /\ UNCHANGED snapIndex
          /\ logs' = [logs EXCEPT ![r.to] =
                        MergeEntries(@, Slice(r.to, r.prevIndex), r.entries)]
      BY <1>7 DEF AppendEntriesMatch
    <2> QED
      BY <1>0, <1>00, <1>7, <2>1, SameLogKept
  <1>8. ASSUME NEW r \in rpcs, sendAppendEntries(r), AppendReplySuccess(r)
        PROVE  Kept(i)
    BY <1>0, <1>8, SameLogKept DEF AppendReplySuccess, logVars
  <1>9. ASSUME NEW r \in rpcs, InstallSnapshot(r), InstallNew(r)
        PROVE  Kept(i)
    <2>1. /\ logs' = [logs EXCEPT ![r.to] =
               IF LastLogIndex(r.to) > r.index THEN DropPrefix(r.to, r.index) ELSE <<>>]
          /\ snapIndex' = [snapIndex EXCEPT ![r.to] = r.index] /\ r.index > snapIndex[r.to]
      BY <1>9 DEF InstallNew
    <2>2. r.to \in Server /\ r.index \in Nat
      BY <1>0, <1>9, RpcKinds DEF InstallSnapshot, SnapshotRequests
    <2>3. CASE i # r.to
      BY <1>0, <1>00, <2>1, <2>3, SameLogKept
    <2>4. CASE i = r.to
      <3>1. /\ snapIndex'[i] = r.index /\ r.index >= snapIndex[i]
            /\ LastLogIndex(i) > r.index => logs'[i] = DropPrefix(i, r.index)
            /\ LastLogIndex(i) \in Nat
        BY <1>0, <1>00, <2>1, <2>2, <2>4, LastIndexIsLength
      <3> QED
        BY <1>0, <2>2, <3>1, CutKept
    <2> QED
      BY <2>3, <2>4
  <1> QED
    BY <1>0, <1>1, <1>2, <1>3, <1>4, <1>5, <1>6, <1>7, <1>8, <1>9, LogSteps

\* A step that leaves a server leader leaves it its entries: a server that merges
\* the entries of a call is a follower afterwards.
LEMMA StepsKeepLeaderLogs ==
    ASSUME NodeInv, NodeInv', [Next]_vars, NEW i \in Server, status'[i] = Leader
    PROVE  Kept(i)
  <1> SUFFICES ASSUME NEW r \in rpcs, AppendEntries1(r), AppendEntriesMatch(r), r.to = i
               PROVE  FALSE
    BY StepsKeepLogs
  <1>1. TypeOK /\ FollowSender(r)
    BY DEF NodeInv, AppendEntriesMatch
  <1>2. status'[i] = Follower
    BY <1>1, FollowSenderLeaders
  <1> QED
    BY <1>2 DEF Follower, Leader

\* A leader's own log is append-only apart from compaction: the handlers that
\* overwrite in place or cut a log (AppendEntries1, InstallSnapshot) step down
\* first, whatever the term of the call.
THEOREM LeadersOnlyAppend == Spec => LeaderAppendOnly
  <1>1. NodeInv /\ NodeInv' /\ [Next]_vars =>
          [\A i \in Server : status[i] = Leader /\ status'[i] = Leader =>
              \A k \in 1 .. Len(logs[i]) :
                 snapIndex[i] + k > snapIndex'[i] =>
                    logs'[i][snapIndex[i] + k - snapIndex'[i]] = logs[i][k]]_vars
    BY StepsKeepLeaderLogs DEF Kept
  <1> QED
    BY <1>1, NodeInvariant, PTL DEF Spec, LeaderAppendOnly

-----------------------------------------------------------------------------
(***************************************************************************)
(* The calls a step adds.                                                  *)
(***************************************************************************)
\* A call that doHeartBeat or ReadIndex builds from the log of a leader.
FromLeader(a) ==
    LET i == a.from
        j == a.to
    IN  /\ a \in AppendRequests
        /\ status[i] = Leader /\ a.term = currentTerm[i] /\ a.waiting
        /\ a.prevIndex = nextIndex[i][j] - 1
        /\ a.prevIndex >= snapIndex[i] /\ a.prevIndex <= LastLogIndex(i)
        /\ a.prevTerm = LogTerm(i, a.prevIndex)
        /\ \/ /\ a.kind = "AppendEntries" /\ a.entries = DropPrefix(i, a.prevIndex)
              /\ doHeartBeat(i) /\ i # j /\ a.round = Len(appendNums'[i])
           \/ /\ a.kind = "ReadBeat" /\ a.entries = <<>>
              /\ ReadIndexBeat(i, j) /\ a.round = read[i].id /\ read[i].term = currentTerm[i]
              /\ rpcs' = rpcs \cup {a}

\* A reply of AppendEntries1.
Answers(r) ==
    LET a == r.args
        j == r.args.to
    IN  /\ r \in AppendReplies /\ a \in rpcs /\ a \in AppendRequests /\ a.waiting
        /\ r.kind = IF a.kind = "ReadBeat" THEN "ReadReply" ELSE "AppendReply"
        /\ Reply(a, r)
        /\ \/ /\ r.success /\ AppendEntriesMatch(a)
              /\ r.term = a.term /\ r.update = 0
           \/ /\ ~r.success /\ AppendEntriesStale(a)
              /\ r.term = currentTerm[j] /\ r.update = -100
           \/ /\ ~r.success /\ AppendEntriesMismatch(a) /\ r.term = a.term
              /\ \/ r.update = LastLogIndex(j) + 1
                 \/ r.update = snapIndex[j] + 1
                 \/ /\ a.prevIndex \in snapIndex[j] .. LastLogIndex(j)
                    /\ ~MatchLog(j, a.prevIndex, a.prevTerm)
                    /\ r.update = ConflictIndex(j, a.prevIndex)

NewCall(r) ==
    \/ r \in VoteRequests \/ r \in VoteReplies \/ r \in SnapshotThreads
    \/ FromLeader(r)
    \/ Answers(r)
    \/ r \in SnapshotRequests /\ r.index = snapIndex[r.from] /\ UNCHANGED logVars
    \/ r \in SnapshotReplies /\ r.args \in rpcs
    \/ \E q \in rpcs : /\ "waiting" \in DOMAIN q /\ r = [q EXCEPT !.waiting = FALSE]
                       /\ Restart(q.from)

\* doHeartBeat and ReadIndex send the log from nextIndex on.
LEMMA HeartBeatCalls ==
    ASSUME NodeInv, NEW i \in Server, doHeartBeat(i), NEW r \in rpcs', r \notin rpcs
    PROVE  NewCall(r)
  <1>0. TypeOK /\ LogContiguous /\ IndexOrder
    BY DEF NodeInv
  <1>1. /\ status[i] = Leader
        /\ \A j \in Server \ {i} : nextIndex[i][j] >= 1 /\ nextIndex[i][j] <= LastLogIndex(i) + 1
        /\ rpcs' = rpcs \cup {HeartBeatTo(i, j, Len(appendNums'[i])) : j \in Server \ {i}}
        /\ appendNums' = [appendNums EXCEPT ![i] = Append(@, 1)]
    BY DEF doHeartBeat
  <1>2. Len(appendNums'[i]) \in Nat
    <2>1. appendNums[i] \in Seq(Nat) /\ appendNums \in [Server -> Seq(Nat)]
      BY <1>0 DEF TypeOK
    <2>2. Append(appendNums[i], 1) \in Seq(Nat)
      BY <2>1, AppendProperties
    <2> QED
      BY <1>1, <2>1, <2>2, LenProperties
  <1> DEFINE round == Len(appendNums'[i])
  <1>3. PICK j \in Server \ {i} : r = HeartBeatTo(i, j, round)
    BY <1>1
  <1>4. \/ r \in SnapshotThreads
        \/ r \in AppendRequests
    BY <1>0, <1>1, <1>2, <1>3, HeartBeatRecord
  <1>5. CASE r \in AppendRequests
    <2> DEFINE prev == nextIndex[i][j] - 1
               es == DropPrefix(i, prev)
    <2>1. ~(nextIndex[i][j] <= snapIndex[i])
          /\ r = AppendRequest(i, j, "AppendEntries", es, round)
      <3>1. nextIndex[i][j] <= snapIndex[i] => r \in SnapshotThreads
        BY <1>0, <1>2, <1>3 DEF HeartBeatTo, SnapshotThread, SnapshotThreads, TypeOK
      <3>2. r \notin SnapshotThreads
        BY <1>5 DEF SnapshotThreads, AppendRequests
      <3> QED
        BY <1>3, <3>1, <3>2 DEF HeartBeatTo
    <2>2. nextIndex[i][j] \in Int /\ snapIndex[i] \in Nat /\ LastLogIndex(i) \in Nat
      <3>1. nextIndex[i][j] \in Int
        BY <1>0 DEF TypeOK
      <3> QED
        BY <1>0, <3>1, LastIndexIsLength
    <2>3. prev >= snapIndex[i] /\ prev <= LastLogIndex(i)
      BY <1>1, <2>1, <2>2
    <2> HIDE DEF es, round
    <2>4. /\ r.from = i /\ r.to = j /\ r.term = currentTerm[i] /\ r.prevIndex = prev /\ r.waiting
          /\ r.prevTerm = LogTerm(i, prev) /\ r.entries = es /\ r.kind = "AppendEntries"
          /\ r.round = round
      BY <2>1 DEF AppendRequest
    <2> HIDE DEF prev
    <2>5. FromLeader(r)
      BY <1>1, <1>3, <1>5, <2>3, <2>4 DEF FromLeader, es, prev, round
    <2> QED
      BY <2>5 DEF NewCall
  <1> QED
    BY <1>4, <1>5 DEF NewCall

\* The calls that a heartbeat of ReadIndex adds.
LEMMA ReadBeatCalls ==
    ASSUME NodeInv, NodeInv', NEW i \in Server, NEW j \in Server, ReadIndexBeat(i, j),
           NEW r \in rpcs', r \notin rpcs
    PROVE  NewCall(r)
  <1>0. TypeOK /\ LogContiguous /\ TypeOK'
    BY DEF NodeInv
  <1> DEFINE a == AppendRequest(i, j, "ReadBeat", <<>>, read[i].id)
  <1>1. /\ rpcs' = rpcs \cup {a} /\ currentTerm[i] = read[i].term /\ status[i] = Leader
        /\ nextIndex[i][j] > snapIndex[i] /\ nextIndex[i][j] <= LastLogIndex(i) + 1
    BY DEF ReadIndexBeat
  <1>2. r = a
    BY <1>1
  <1>3. nextIndex[i][j] \in Int /\ snapIndex[i] \in Nat /\ LastLogIndex(i) \in Nat
    <2>1. nextIndex[i][j] \in Int
      BY <1>0 DEF TypeOK
    <2> QED
      BY <1>0, <2>1, LastIndexIsLength
  <1> DEFINE prev == nextIndex[i][j] - 1
  <1>4. prev >= snapIndex[i] /\ prev <= LastLogIndex(i)
    BY <1>1, <1>3
  <1>5. /\ a.from = i /\ a.to = j /\ a.term = currentTerm[i] /\ a.prevIndex = prev /\ a.waiting
        /\ a.prevTerm = LogTerm(i, prev) /\ a.entries = <<>> /\ a.kind = "ReadBeat"
        /\ a.round = read[i].id
    BY DEF AppendRequest
  <1>6. r \in AppendRequests
    <2>1. r \in rpcs' /\ r.kind = "ReadBeat"
      BY <1>2, <1>5
    <2>2. r \in Rpc
      BY <1>0 DEF TypeOK
    <2> QED
      BY <2>1, <2>2 DEF Rpc, VoteRequests, AppendRequests, SnapshotThreads, SnapshotRequests,
                VoteReplies, AppendReplies, SnapshotReplies
  <1> HIDE DEF a, prev
  <1>7. FromLeader(r)
    BY <1>1, <1>2, <1>4, <1>5, <1>6 DEF FromLeader, prev
  <1> QED
    BY <1>7 DEF NewCall

\* The reply of AppendEntries1, for each path of the handler.
LEMMA AppendEntriesCalls ==
    ASSUME NodeInv, NEW a \in rpcs, AppendEntries1(a), NEW r \in rpcs', r \notin rpcs
    PROVE  NewCall(r)
  <1>0. TypeOK /\ LogContiguous
    BY DEF NodeInv
  <1>1. a \in AppendRequests
    BY <1>0, RpcKinds DEF AppendEntries1
  <1>2. a.to \in Server /\ a.term \in Nat /\ a.prevIndex \in Nat /\ currentTerm[a.to] \in Nat
        /\ snapIndex[a.to] \in Nat
    BY <1>0, <1>1 DEF AppendRequests, TypeOK
  <1>20. LastLogIndex(a.to) \in Nat
    BY <1>0, <1>2, LastIndexIsLength
  <1>3. \A q : Reply(a, q) => r = q /\ a.waiting
    BY DEF Reply
  <1>4. CASE AppendEntriesStale(a)
    <2>1. Reply(a, AppendReply(a, currentTerm[a.to], FALSE, -100))
      BY <1>4 DEF AppendEntriesStale
    <2>2. r = AppendReply(a, currentTerm[a.to], FALSE, -100) /\ a.waiting
      BY <1>3, <2>1
    <2>3. r \in AppendReplies
      BY <1>1, <1>2, <2>2 DEF AppendReply, AppendReplies
    <2>4. r.args = a /\ r.success = FALSE /\ r.term = currentTerm[a.to] /\ r.update = -100
      BY <2>2 DEF AppendReply
    <2>40. r.kind = IF a.kind = "ReadBeat" THEN "ReadReply" ELSE "AppendReply"
      BY <2>2 DEF AppendReply
    <2>5. Reply(a, r)
      BY <2>1, <2>2
    <2>6. Answers(r)
      BY <1>1, <1>4, <2>2, <2>3, <2>4, <2>40, <2>5 DEF Answers
    <2> QED
      BY <2>6 DEF NewCall
  <1>5. ASSUME NEW update \in Int, AppendEntriesMismatch(a),
               Reply(a, AppendReply(a, a.term, FALSE, update)),
               \/ update = LastLogIndex(a.to) + 1
               \/ update = snapIndex[a.to] + 1
               \/ /\ a.prevIndex \in snapIndex[a.to] .. LastLogIndex(a.to)
                  /\ ~MatchLog(a.to, a.prevIndex, a.prevTerm)
                  /\ update = ConflictIndex(a.to, a.prevIndex)
        PROVE  NewCall(r)
    <2>2. r = AppendReply(a, a.term, FALSE, update) /\ a.waiting
      BY <1>3, <1>5
    <2>3. r \in AppendReplies
      BY <1>1, <1>2, <2>2 DEF AppendReply, AppendReplies
    <2>4. r.args = a /\ r.success = FALSE /\ r.term = a.term /\ r.update = update
      BY <2>2 DEF AppendReply
    <2>40. r.kind = IF a.kind = "ReadBeat" THEN "ReadReply" ELSE "AppendReply"
      BY <2>2 DEF AppendReply
    <2>5. Reply(a, r)
      BY <1>5, <2>2
    <2>6. Answers(r)
      BY <1>1, <1>5, <2>2, <2>3, <2>4, <2>40, <2>5 DEF Answers
    <2> QED
      BY <2>6 DEF NewCall
  <1>6. CASE AppendEntriesMismatch(a)
    <2>1. CASE Reply(a, AppendReply(a, a.term, FALSE, LastLogIndex(a.to) + 1))
      <3> DEFINE u == LastLogIndex(a.to) + 1
      <3>2. u \in Int /\ u = LastLogIndex(a.to) + 1
        BY <1>20, <2>1
      <3>3. Reply(a, AppendReply(a, a.term, FALSE, u))
        BY <2>1
      <3> HIDE DEF u
      <3> QED
        BY <1>5, <1>6, <3>2, <3>3
    <2>2. CASE Reply(a, AppendReply(a, a.term, FALSE, snapIndex[a.to] + 1))
      <3> DEFINE u == snapIndex[a.to] + 1
      <3>2. u \in Int /\ u = snapIndex[a.to] + 1
        BY <1>2, <2>2
      <3>3. Reply(a, AppendReply(a, a.term, FALSE, u))
        BY <2>2
      <3> HIDE DEF u
      <3> QED
        BY <1>5, <1>6, <3>2, <3>3
    <2>3. CASE /\ a.prevIndex \in snapIndex[a.to] .. LastLogIndex(a.to)
               /\ ~MatchLog(a.to, a.prevIndex, a.prevTerm)
               /\ Reply(a, AppendReply(a, a.term, FALSE, ConflictIndex(a.to, a.prevIndex)))
      <3>1. ConflictIndex(a.to, a.prevIndex) \in Nat
        BY <1>0, <1>2, <1>20, <2>3, ConflictIndexType
      <3> DEFINE u == ConflictIndex(a.to, a.prevIndex)
      <3>2. u \in Int /\ u = ConflictIndex(a.to, a.prevIndex)
        BY <2>3, <3>1
      <3>3. Reply(a, AppendReply(a, a.term, FALSE, u))
        BY <2>3
      <3> HIDE DEF u
      <3> QED
        BY <1>5, <1>6, <2>3, <3>2, <3>3
    <2> QED
      BY <1>6, <2>1, <2>2, <2>3 DEF AppendEntriesMismatch
  <1>7. CASE AppendEntriesMatch(a)
    <2>1. Reply(a, AppendReply(a, a.term, TRUE, 0))
      BY <1>7 DEF AppendEntriesMatch
    <2>2. r = AppendReply(a, a.term, TRUE, 0) /\ a.waiting
      BY <1>3, <2>1
    <2>3. r \in AppendReplies
      BY <1>1, <1>2, <2>2 DEF AppendReply, AppendReplies
    <2>4. r.args = a /\ r.success = TRUE /\ r.term = a.term /\ r.update = 0
      BY <2>2 DEF AppendReply
    <2>40. r.kind = IF a.kind = "ReadBeat" THEN "ReadReply" ELSE "AppendReply"
      BY <2>2 DEF AppendReply
    <2>5. Reply(a, r)
      BY <2>1, <2>2
    <2>6. Answers(r)
      BY <1>1, <1>7, <2>2, <2>3, <2>4, <2>40, <2>5 DEF Answers
    <2> QED
      BY <2>6 DEF NewCall
  <1> QED
    BY <1>4, <1>6, <1>7 DEF AppendEntries1

\* A restart creates no calls; it only stops waiting for some.
LEMMA RestartCalls ==
    ASSUME TypeOK, NEW i \in Server, Restart(i), NEW r \in rpcs', r \notin rpcs
    PROVE  NewCall(r)
  <1>1. r \in {[q EXCEPT !.waiting = FALSE] :
                  q \in {p \in rpcs : "waiting" \in DOMAIN p /\ p.from = i}}
    BY DEF Restart, AbandonRpcs
  <1>2. PICK q \in rpcs : /\ "waiting" \in DOMAIN q /\ q.from = i
                          /\ r = [q EXCEPT !.waiting = FALSE]
    BY <1>1
  <1> QED
    BY <1>2 DEF NewCall

\* Whatever call a step adds is one of these.
LEMMA CallSteps ==
    ASSUME NodeInv, NodeInv', [Next]_vars, NEW r \in rpcs', r \notin rpcs
    PROVE  NewCall(r)
  <1>0. TypeOK /\ TypeOK'
    BY DEF NodeInv
  <1>1. \A q, p : Reply(q, p) => r = p
    BY DEF Reply
  <1>2. \A q : ~Consume(q)
    BY DEF Consume
  <1>3. ~UNCHANGED rpcs
    OBVIOUS
  <1>4. ASSUME NEW i \in Server,
               \/ doElection(i) \/ doHeartBeat(i) \/ applierTicker(i) \/ Restart(i)
               \/ ReadIndex(i) \/ ReadIndexReturn(i) \/ WaitForApplied(i)
               \/ \E command \in Command : Start(i, command)
               \/ \E index \in 1 .. MaxSnapIndex : Snapshot(i, index)
               \/ \E j \in Server : ReadIndexBeat(i, j)
        PROVE  NewCall(r)
    <2>1. CASE doElection(i)
      <3>1. PICK j \in Server : r = [VoteRequest(i, j) EXCEPT !.term = currentTerm'[i]]
        BY <2>1 DEF doElection
      <3>2. r.kind = "RequestVote" /\ r \in Rpc
        BY <1>0, <3>1 DEF VoteRequest, TypeOK
      <3>3. r \in VoteRequests
        BY <3>2 DEF Rpc, VoteRequests, AppendRequests, SnapshotThreads, SnapshotRequests,
                    VoteReplies, AppendReplies, SnapshotReplies
      <3> QED
        BY <3>3 DEF NewCall
    <2>2. CASE \/ applierTicker(i) \/ ReadIndex(i) \/ ReadIndexReturn(i) \/ WaitForApplied(i)
               \/ \E command \in Command : Start(i, command)
               \/ \E index \in 1 .. MaxSnapIndex : Snapshot(i, index)
      BY <1>3, <2>2 DEF applierTicker, ReadIndex, ReadIndexReturn, WaitForApplied, Start, Snapshot
    <2> QED
      BY <1>0, <1>4, <2>1, <2>2, HeartBeatCalls, RestartCalls, ReadBeatCalls
  <1>5. ASSUME NEW q \in rpcs,
               \/ RequestVote(q) \/ sendRequestVote(q) \/ AppendEntries1(q)
               \/ sendAppendEntries(q) \/ leaderSendSnapShot(q) \/ InstallSnapshot(q)
               \/ leaderSendSnapShotReply(q) \/ ReadIndexConfirm(q)
        PROVE  NewCall(r)
    <2>1. CASE sendRequestVote(q) \/ sendAppendEntries(q) \/ leaderSendSnapShotReply(q)
               \/ ReadIndexConfirm(q)
      BY <1>2, <2>1 DEF sendRequestVote, sendAppendEntries, leaderSendSnapShotReply,
                        ReadIndexConfirm
    <2>2. CASE RequestVote(q)
      <3>1. r.kind = "VoteReply"
        BY <1>1, <2>2 DEF RequestVote
      <3>2. r \in Rpc
        BY <1>0 DEF TypeOK
      <3>3. r \in VoteReplies
        BY <3>1, <3>2 DEF Rpc, VoteRequests, AppendRequests, SnapshotThreads, SnapshotRequests,
                    VoteReplies, AppendReplies, SnapshotReplies
      <3> QED
        BY <3>3 DEF NewCall
    <2>3. CASE leaderSendSnapShot(q)
      <3>1. /\ r.kind = "InstallSnapshot" /\ r.index = snapIndex[r.from] /\ UNCHANGED logVars
        BY <2>3 DEF leaderSendSnapShot
      <3>2. r \in Rpc
        BY <1>0 DEF TypeOK
      <3>3. r \in SnapshotRequests
        BY <3>1, <3>2 DEF Rpc, VoteRequests, AppendRequests, SnapshotThreads, SnapshotRequests,
                    VoteReplies, AppendReplies, SnapshotReplies
      <3> QED
        BY <3>1, <3>3 DEF NewCall
    <2>4. CASE InstallSnapshot(q)
      <3>1. \E term : r = SnapshotReply(q, term)
        BY <1>1, <2>4 DEF InstallSnapshot, InstallStale, InstallOutdated, InstallNew
      <3>2. r.kind = "SnapshotReply" /\ r.args = q
        BY <3>1 DEF SnapshotReply
      <3>3. r \in Rpc
        BY <1>0 DEF TypeOK
      <3>4. r \in SnapshotReplies
        BY <3>2, <3>3 DEF Rpc, VoteRequests, AppendRequests, SnapshotThreads, SnapshotRequests,
                    VoteReplies, AppendReplies, SnapshotReplies
      <3> QED
        BY <3>2, <3>4 DEF NewCall
    <2> QED
      BY <1>5, <2>1, <2>2, <2>3, <2>4, AppendEntriesCalls
  <1>6. ~UNCHANGED vars
    BY <1>3 DEF vars
  <1> QED
    BY <1>4, <1>5, <1>6 DEF Next

-----------------------------------------------------------------------------
\* No step shortens a log.
LEMMA LogsGrow ==
    ASSUME NodeInv, NodeInv', [Next]_vars, NEW i \in Server
    PROVE  /\ LastLogIndex(i)' >= LastLogIndex(i)
           /\ LastLogIndex(i)' \in Nat /\ LastLogIndex(i) \in Nat
  <1>0. /\ TypeOK /\ LogContiguous /\ IndexOrder /\ DiskCurrent
        /\ TypeOK' /\ LogContiguous'
    BY DEF NodeInv
  <1>00. logs \in [Server -> Seq(Entry)] /\ snapIndex \in [Server -> Nat]
    BY <1>0 DEF TypeOK
  <1>01. /\ LastLogIndex(i) = snapIndex[i] + Len(logs[i]) /\ LastLogIndex(i) \in Nat
         /\ LastLogIndex(i)' = snapIndex'[i] + Len(logs'[i]) /\ LastLogIndex(i)' \in Nat
         /\ snapIndex[i] \in Nat /\ Len(logs[i]) \in Nat
    BY <1>0, LastIndexIsLength, LastIndexIsLengthNext
  <1>02. logs'[i] = logs[i] /\ snapIndex'[i] = snapIndex[i]
           => LastLogIndex(i)' >= LastLogIndex(i)
    BY <1>01
  <1>1. CASE UNCHANGED <<logVars, applyVars, applied, won, restarts>>
    BY <1>1, <1>01, <1>02 DEF logVars
  <1>2. ASSUME NEW j \in Server, NEW e \in Entry, UNCHANGED snapIndex,
               logs' = [logs EXCEPT ![j] = Append(@, e)]
        PROVE  LastLogIndex(i)' >= LastLogIndex(i)
    <2>1. CASE i # j
      BY <1>00, <1>02, <1>2, <2>1
    <2>2. CASE i = j
      BY <1>0, <1>01, <1>2, <2>2, AppendKept
    <2> QED
      BY <2>1, <2>2
  <1>3. ASSUME NEW j \in Server, NEW command \in Command, Start(j, command)
        PROVE  LastLogIndex(i)' >= LastLogIndex(i)
    <2>1. NewEntry(j, command) \in Entry /\ UNCHANGED snapIndex
          /\ logs' = [logs EXCEPT ![j] = Append(@, NewEntry(j, command))]
      BY <1>0, <1>3, NewEntryType DEF Start
    <2> QED
      BY <1>2, <2>1
  <1>4. ASSUME NEW j \in Server, NEW index \in 1 .. MaxSnapIndex, Snapshot(j, index)
        PROVE  LastLogIndex(i)' >= LastLogIndex(i)
    <2>1. /\ snapIndex[j] < index /\ index <= lastApplied[j]
          /\ snapIndex' = [snapIndex EXCEPT ![j] = index]
          /\ logs' = [logs EXCEPT ![j] = DropPrefix(j, index)]
      BY <1>4 DEF Snapshot
    <2>2. CASE i # j
      BY <1>00, <1>02, <2>1, <2>2
    <2>3. CASE i = j
      <3>1. logs'[i] = DropPrefix(i, index) /\ snapIndex'[i] = index
        BY <1>00, <2>1, <2>3
      <3>2. lastApplied[i] \in Nat /\ index \in Int
        BY <1>0, BoundsAreNat DEF TypeOK
      <3>3. lastApplied[i] <= LastLogIndex(i)
        BY <1>0 DEF IndexOrder
      <3>4. index >= snapIndex[i] /\ index <= LastLogIndex(i)
        BY <1>01, <2>1, <2>3, <3>2, <3>3
      <3>5. Len(DropPrefix(i, index)) = LastLogIndex(i) - index
        BY <1>0, <3>2, <3>4, DropPrefixProperties
      <3> QED
        BY <1>01, <3>1, <3>2, <3>5
    <2> QED
      BY <2>2, <2>3
  <1>5. ASSUME NEW j \in Server, applierTicker(j)
        PROVE  LastLogIndex(i)' >= LastLogIndex(i)
    BY <1>02, <1>5 DEF applierTicker, logVars
  <1>6. ASSUME NEW j \in Server, Restart(j)
        PROVE  LastLogIndex(i)' >= LastLogIndex(i)
    <2>1. /\ logs' = [logs EXCEPT ![j] = disk[j].log] /\ disk[j].log = logs[j]
          /\ snapIndex' = [snapIndex EXCEPT ![j] = disk[j].snapIndex]
          /\ disk[j].snapIndex = snapIndex[j]
      BY <1>0, <1>6 DEF Restart, DiskCurrent
    <2> QED
      BY <1>00, <1>02, <2>1
  <1>7. ASSUME NEW r \in rpcs, sendRequestVote(r), VoteReplyWins(r)
        PROVE  LastLogIndex(i)' >= LastLogIndex(i)
    <2>1. r.args.from \in Server
      BY <1>0, <1>7, RpcKinds DEF sendRequestVote, VoteReplies, VoteRequests
    <2>2. NewEntry(r.args.from, Noop) \in Entry /\ UNCHANGED snapIndex
          /\ logs' = [logs EXCEPT ![r.args.from] = Append(@, NewEntry(r.args.from, Noop))]
      BY <1>0, <1>7, <2>1, NewEntryType DEF VoteReplyWins
    <2> QED
      BY <1>2, <2>1, <2>2
  <1>8. ASSUME NEW r \in rpcs, AppendEntries1(r), AppendEntriesMatch(r)
        PROVE  LastLogIndex(i)' >= LastLogIndex(i)
    <2>1. r.to \in Server /\ r.prevIndex \in Nat /\ r.entries \in Seq(Entry)
      BY <1>0, <1>8, RpcKinds DEF AppendEntries1, AppendRequests
    <2>2. /\ LastLogIndex(r.to)' >= LastLogIndex(r.to)
          /\ \A j \in Server \ {r.to} : logs'[j] = logs[j]
      BY <1>8, <2>1, MergedIsLonger
    <2>3. UNCHANGED snapIndex
      BY <1>8 DEF AppendEntriesMatch
    <2> QED
      BY <1>02, <2>2, <2>3
  <1>9. ASSUME NEW r \in rpcs, sendAppendEntries(r), AppendReplySuccess(r)
        PROVE  LastLogIndex(i)' >= LastLogIndex(i)
    BY <1>02, <1>9 DEF AppendReplySuccess, logVars
  <1>10. ASSUME NEW r \in rpcs, InstallSnapshot(r), InstallNew(r)
        PROVE  LastLogIndex(i)' >= LastLogIndex(i)
    <2> DEFINE j == r.to
    <2>1. j \in Server /\ r.index \in Nat
      BY <1>0, <1>10, RpcKinds DEF InstallSnapshot, SnapshotRequests
    <2>2. /\ r.index > snapIndex[j]
          /\ logs' = [logs EXCEPT ![j] =
               IF LastLogIndex(j) > r.index THEN DropPrefix(j, r.index) ELSE <<>>]
          /\ snapIndex' = [snapIndex EXCEPT ![j] = r.index]
      BY <1>10 DEF InstallNew
    <2> HIDE DEF j
    <2>3. CASE i # j
      BY <1>00, <1>02, <2>2, <2>3
    <2>4. CASE i = j /\ LastLogIndex(j) > r.index
      <3>1. logs'[i] = DropPrefix(i, r.index) /\ snapIndex'[i] = r.index
        BY <1>00, <2>2, <2>4
      <3>2. Len(DropPrefix(i, r.index)) = LastLogIndex(i) - r.index
        <4>1. r.index \in Int /\ r.index >= snapIndex[i] /\ r.index <= LastLogIndex(i)
          BY <1>01, <2>1, <2>2, <2>4
        <4> QED
          BY <1>0, <4>1, DropPrefixProperties
      <3> QED
        BY <1>01, <2>1, <3>1, <3>2
    <2>5. CASE i = j /\ ~(LastLogIndex(j) > r.index)
      <3>1. logs'[i] = <<>> /\ snapIndex'[i] = r.index
        BY <1>00, <2>2, <2>5
      <3> QED
        BY <1>01, <2>1, <2>5, <3>1
    <2> QED
      BY <2>3, <2>4, <2>5
  <1> QED
    BY <1>0, <1>01, <1>1, <1>3, <1>4, <1>5, <1>6, <1>7, <1>8, <1>9, <1>10, LogSteps

-----------------------------------------------------------------------------
(***************************************************************************)
(* What a leader believes of its peers.                                    *)
(*                                                                         *)
(* nextIndex comes from a refusal, so refusals must propose an index that  *)
(* exists; the one that could fail to is the conflict at the very start of *)
(* the log, and it needs prevLogTerm and the snapshot's term to agree at   *)
(* index 0.  matchIndex comes from a success or from a snapshot that was   *)
(* sent, and both were taken from the leader's own log.                    *)
(***************************************************************************)
\* A refusal proposes a first index, or says that the sender's term is old.
RefusalsPositive ==
    \A r \in rpcs : r \in AppendReplies /\ ~r.success => r.update = -100 \/ r.update >= 1

\* Index 0 has term 0, in every server and in every call.
ZeroTerms ==
    /\ \A i \in Server : snapIndex[i] = 0 => snapTerm[i] = 0
    /\ \A r \in rpcs : r \in AppendRequests /\ r.prevIndex = 0 => r.prevTerm = 0

\* A snapshot on its way ends inside the log of its sender.
SnapshotsInside ==
    \A r \in rpcs : /\ r \in SnapshotRequests => r.index <= LastLogIndex(r.from)
                    /\ r \in SnapshotReplies => r.args.index <= LastLogIndex(r.args.from)

PeerInv == RefusalsPositive /\ ZeroTerms /\ SnapshotsInside /\ PeerIndexes

\* A call whose sender has died is the same call.
LEMMA AbandonedCall ==
    ASSUME NEW q \in Rpc, "waiting" \in DOMAIN q, NEW r, r = [q EXCEPT !.waiting = FALSE]
    PROVE  /\ \/ q \in VoteRequests /\ r \in VoteRequests
              \/ q \in AppendRequests /\ r \in AppendRequests
              \/ q \in SnapshotRequests /\ r \in SnapshotRequests
           /\ q \in AppendRequests => /\ r.from = q.from /\ r.prevIndex = q.prevIndex
                                      /\ r.prevTerm = q.prevTerm /\ r.entries = q.entries
                                      /\ r.kind = q.kind /\ r.term = q.term /\ r.to = q.to
                                      /\ r.round = q.round /\ r.waiting = FALSE
           /\ q \in SnapshotRequests => r.from = q.from /\ r.index = q.index
  <1>1. q \in VoteRequests \/ q \in AppendRequests \/ q \in SnapshotRequests
    <2>1. q \notin SnapshotThreads
      BY DEF SnapshotThreads
    <2>2. q \notin VoteReplies
      BY DEF VoteReplies
    <2>3. q \notin AppendReplies
      BY DEF AppendReplies
    <2>4. q \notin SnapshotReplies
      BY DEF SnapshotReplies
    <2> QED
      BY <2>1, <2>2, <2>3, <2>4 DEF Rpc
  <1>2. CASE q \in VoteRequests
    <2>1. q \notin AppendRequests /\ q \notin SnapshotRequests
      BY <1>2 DEF VoteRequests, AppendRequests, SnapshotRequests
    <2>2. r \in VoteRequests
      BY <1>2 DEF VoteRequests
    <2> QED
      BY <1>2, <2>1, <2>2
  <1>3. CASE q \in AppendRequests
    <2>1. q \notin SnapshotRequests
      BY <1>3 DEF AppendRequests, SnapshotRequests
    <2>2. r \in AppendRequests /\ r.from = q.from /\ r.prevIndex = q.prevIndex
          /\ r.prevTerm = q.prevTerm /\ r.entries = q.entries
          /\ r.kind = q.kind /\ r.term = q.term /\ r.to = q.to
          /\ r.round = q.round /\ r.waiting = FALSE
      BY <1>3 DEF AppendRequests
    <2> QED
      BY <1>3, <2>1, <2>2
  <1>4. CASE q \in SnapshotRequests
    <2>1. q \notin AppendRequests
      BY <1>4 DEF AppendRequests, SnapshotRequests
    <2>2. r \in SnapshotRequests /\ r.from = q.from /\ r.index = q.index
      BY <1>4 DEF SnapshotRequests
    <2> QED
      BY <1>4, <2>1, <2>2
  <1> QED
    BY <1>1, <1>2, <1>3, <1>4

\* The types of RPC records exclude each other.
LEMMA RpcTypesDisjoint ==
    ASSUME NEW r
    PROVE  /\ r \in VoteRequests => r \notin AppendRequests \cup AppendReplies
                                               \cup SnapshotRequests \cup SnapshotReplies
           /\ r \in VoteReplies => r \notin AppendRequests \cup AppendReplies
                                               \cup SnapshotRequests \cup SnapshotReplies
           /\ r \in SnapshotThreads => r \notin AppendRequests \cup AppendReplies
                                               \cup SnapshotRequests \cup SnapshotReplies
           /\ r \in AppendRequests => r \notin AppendReplies
                                               \cup SnapshotRequests \cup SnapshotReplies
           /\ r \in AppendReplies => r \notin SnapshotRequests \cup SnapshotReplies
           /\ r \in SnapshotRequests => r \notin SnapshotReplies
  BY DEF VoteRequests, VoteReplies, SnapshotThreads, AppendRequests, AppendReplies,
         SnapshotRequests, SnapshotReplies

\* NewCall, for each type of record.
LEMMA NewCallOfType ==
    ASSUME TypeOK, NEW r, NewCall(r)
    PROVE  /\ r \in AppendRequests =>
                \/ FromLeader(r)
                \/ \E q \in rpcs : /\ q \in AppendRequests /\ Restart(q.from)
                                   /\ "waiting" \in DOMAIN q /\ r = [q EXCEPT !.waiting = FALSE]
           /\ r \in AppendReplies => Answers(r)
           /\ r \in SnapshotRequests =>
                \/ r.index = snapIndex[r.from] /\ UNCHANGED logVars
                \/ \E q \in rpcs : /\ q \in SnapshotRequests
                                   /\ "waiting" \in DOMAIN q /\ r = [q EXCEPT !.waiting = FALSE]
           /\ r \in SnapshotReplies => r.args \in rpcs
  <1>1. rpcs \subseteq Rpc
    BY DEF TypeOK
  <1>2. FromLeader(r) => r \in AppendRequests
    BY DEF FromLeader
  <1>3. Answers(r) => r \in AppendReplies
    BY DEF Answers
  <1>4. ASSUME NEW q \in rpcs, "waiting" \in DOMAIN q, r = [q EXCEPT !.waiting = FALSE]
        PROVE  \/ q \in VoteRequests /\ r \in VoteRequests
               \/ q \in AppendRequests /\ r \in AppendRequests
               \/ q \in SnapshotRequests /\ r \in SnapshotRequests
    BY <1>1, <1>4, AbandonedCall
  <1> QED
    BY <1>2, <1>3, <1>4, RpcTypesDisjoint DEF NewCall

\* A conflict is proposed at an index that exists: at index 0 there is none.
LEMMA ConflictIndexPositive ==
    ASSUME TypeOK, ZeroTerms, NEW i \in Server, NEW prev \in Nat, prev >= snapIndex[i],
           NEW term \in Nat, prev = 0 => term = 0, ~MatchLog(i, prev, term)
    PROVE  ConflictIndex(i, prev) >= 1
  <1> DEFINE run == {k \in snapIndex[i] .. prev :
                        \A l \in k .. prev : LogTerm(i, l) = LogTerm(i, prev)}
             first == CHOOSE k \in run : \A l \in run : k <= l
  <1>1. snapIndex[i] \in Nat
    BY DEF TypeOK
  <1>2. prev # 0
    <2>1. prev = 0 => snapIndex[i] = 0 /\ snapTerm[i] = 0
      BY <1>1 DEF ZeroTerms
    <2> QED
      BY <2>1 DEF MatchLog, LogTerm
  <1>3. run \in SUBSET Nat
    BY <1>1
  <1>4. prev \in run
    <2>1. prev \in snapIndex[i] .. prev
      BY <1>1
    <2>2. \A l \in prev .. prev : l = prev
      OBVIOUS
    <2> QED
      BY <2>1, <2>2
  <1>5. \A k \in run : k >= snapIndex[i]
    BY <1>1
  <1>6. ConflictIndex(i, prev) = IF first = snapIndex[i] THEN prev ELSE first
    BY DEF ConflictIndex
  <1> HIDE DEF run
  <1>7. first \in run
    BY <1>3, <1>4, LeastNat
  <1> HIDE DEF first
  <1> QED
    BY <1>1, <1>2, <1>3, <1>5, <1>6, <1>7

\* A refusal asks for an index of at least 1.
LEMMA RefusalsStep ==
    ASSUME NodeInv, NodeInv', RefusalsPositive, ZeroTerms, [Next]_vars
    PROVE  RefusalsPositive'
  <1>0. TypeOK /\ LogContiguous
    BY DEF NodeInv
  <1> SUFFICES ASSUME NEW r \in rpcs', r \in AppendReplies, ~r.success
               PROVE  r.update = -100 \/ r.update >= 1
    BY DEF RefusalsPositive
  <1>1. CASE r \in rpcs
    BY <1>1 DEF RefusalsPositive
  <1>2. CASE r \notin rpcs
    <2> DEFINE a == r.args
               j == a.to
    <2>1. Answers(r)
      BY <1>0, <1>2, CallSteps, NewCallOfType
    <2>2. a \in rpcs /\ a \in AppendRequests
      BY <2>1 DEF Answers
    <2>3. j \in Server /\ a.prevIndex \in Nat /\ a.prevTerm \in Nat
          /\ (a.prevIndex = 0 => a.prevTerm = 0)
      BY <2>2 DEF AppendRequests, ZeroTerms
    <2>4. LastLogIndex(j) \in Nat /\ snapIndex[j] \in Nat
      BY <1>0, <2>3, LastIndexIsLength
    <2>5. \/ r.update = -100 \/ r.update = LastLogIndex(j) + 1 \/ r.update = snapIndex[j] + 1
          \/ /\ a.prevIndex \in snapIndex[j] .. LastLogIndex(j)
             /\ ~MatchLog(j, a.prevIndex, a.prevTerm)
             /\ r.update = ConflictIndex(j, a.prevIndex)
      BY <2>1 DEF Answers
    <2> HIDE DEF a, j
    <2>6. CASE /\ a.prevIndex \in snapIndex[j] .. LastLogIndex(j)
               /\ ~MatchLog(j, a.prevIndex, a.prevTerm)
               /\ r.update = ConflictIndex(j, a.prevIndex)
      <3>1. a.prevIndex >= snapIndex[j]
        BY <2>3, <2>4, <2>6
      <3>2. ConflictIndex(j, a.prevIndex) >= 1
        BY <1>0, <2>3, <2>6, <3>1, ConflictIndexPositive
      <3> QED
        BY <2>6, <3>2
    <2> QED
      BY <2>4, <2>5, <2>6
  <1> QED
    BY <1>1, <1>2

\* The term of the snapshot at index 0.
LEMMA ZeroSnapshotStep ==
    ASSUME NodeInv, NodeInv', ZeroTerms, [Next]_vars, NEW i \in Server, snapIndex'[i] = 0
    PROVE  snapTerm'[i] = 0
  <1>0. TypeOK /\ DiskCurrent
    BY DEF NodeInv
  <1>1. snapIndex \in [Server -> Nat] /\ snapTerm \in [Server -> Nat] /\ snapIndex[i] \in Nat
    BY <1>0 DEF TypeOK
  <1>2. snapIndex[i] = 0 => snapTerm[i] = 0
    BY DEF ZeroTerms
  <1>3. CASE snapIndex'[i] = snapIndex[i] /\ snapTerm'[i] = snapTerm[i]
    BY <1>2, <1>3
  <1>4. ASSUME NEW j \in Server, NEW index \in 1 .. MaxSnapIndex, Snapshot(j, index)
        PROVE  snapIndex'[i] = snapIndex[i] /\ snapTerm'[i] = snapTerm[i]
    <2>1. snapIndex' = [snapIndex EXCEPT ![j] = index] /\ index # 0
          /\ snapTerm' = [snapTerm EXCEPT ![j] = LogTerm(j, index)]
      BY <1>4, BoundsAreNat DEF Snapshot
    <2> QED
      BY <1>1, <2>1
  <1>5. ASSUME NEW j \in Server, Restart(j)
        PROVE  snapIndex'[i] = snapIndex[i] /\ snapTerm'[i] = snapTerm[i]
    <2>1. /\ snapTerm' = [snapTerm EXCEPT ![j] = disk[j].snapTerm]
          /\ disk[j].snapTerm = snapTerm[j]
          /\ snapIndex' = [snapIndex EXCEPT ![j] = disk[j].snapIndex]
          /\ disk[j].snapIndex = snapIndex[j]
      BY <1>0, <1>5 DEF Restart, DiskCurrent
    <2> QED
      BY <1>1, <2>1
  <1>6. ASSUME NEW r \in rpcs, InstallSnapshot(r), InstallNew(r)
        PROVE  snapIndex'[i] = snapIndex[i] /\ snapTerm'[i] = snapTerm[i]
    <2>1. r.to \in Server /\ r.index \in Nat
      BY <1>0, <1>6, RpcKinds DEF InstallSnapshot, SnapshotRequests
    <2>2. /\ r.index > snapIndex[r.to]
          /\ snapIndex' = [snapIndex EXCEPT ![r.to] = r.index]
          /\ snapTerm' = [snapTerm EXCEPT ![r.to] = r.lastTerm]
      BY <1>6 DEF InstallNew
    <2> QED
      BY <1>1, <2>1, <2>2
  <1>7. ASSUME \/ UNCHANGED <<logVars, applyVars, applied, won, restarts>>
               \/ \E j \in Server : \/ \E command \in Command : Start(j, command)
                                    \/ applierTicker(j)
               \/ \E r \in rpcs : VoteReplyWins(r) \/ AppendEntriesMatch(r) \/ AppendReplySuccess(r)
        PROVE  snapIndex'[i] = snapIndex[i] /\ snapTerm'[i] = snapTerm[i]
    BY <1>7 DEF logVars, Start, applierTicker, VoteReplyWins, AppendEntriesMatch, AppendReplySuccess
  <1> QED
    BY <1>0, <1>3, <1>4, <1>5, <1>6, <1>7, LogSteps

\* Index 0 keeps term 0.
LEMMA ZeroTermsStep ==
    ASSUME NodeInv, NodeInv', ZeroTerms, [Next]_vars
    PROVE  ZeroTerms'
  <1>0. TypeOK
    BY DEF NodeInv
  <1>1. ASSUME NEW r \in rpcs', r \in AppendRequests, r.prevIndex = 0
        PROVE  r.prevTerm = 0
    <2>1. CASE r \in rpcs
      BY <1>1, <2>1 DEF ZeroTerms
    <2>2. CASE r \notin rpcs
      <3>1. CASE FromLeader(r)
        <4>1. r.from \in Server /\ snapIndex[r.from] \in Nat
          BY <1>0, <1>1 DEF AppendRequests, TypeOK
        <4>2. r.prevIndex >= snapIndex[r.from] /\ r.prevTerm = LogTerm(r.from, r.prevIndex)
          BY <3>1 DEF FromLeader
        <4>3. snapIndex[r.from] = 0 /\ snapTerm[r.from] = 0
          BY <1>1, <4>1, <4>2 DEF ZeroTerms
        <4> QED
          BY <1>1, <4>2, <4>3 DEF LogTerm
      <3>2. ASSUME NEW q \in rpcs, q \in AppendRequests, "waiting" \in DOMAIN q,
                   r = [q EXCEPT !.waiting = FALSE]
            PROVE  r.prevTerm = 0
        <4>1. q \in Rpc
          BY <1>0 DEF TypeOK
        <4>2. r.prevIndex = q.prevIndex /\ r.prevTerm = q.prevTerm
          BY <3>2, <4>1, AbandonedCall
        <4> QED
          BY <1>1, <3>2, <4>2 DEF ZeroTerms
      <3> QED
        BY <1>0, <1>1, <2>2, <3>1, <3>2, CallSteps, NewCallOfType
    <2> QED
      BY <2>1, <2>2
  <1> QED
    BY <1>1, ZeroSnapshotStep DEF ZeroTerms

\* A snapshot on its way stays inside the log of its sender, compaction and crashes included.
LEMMA SnapshotsInsideStep ==
    ASSUME NodeInv, NodeInv', SnapshotsInside, [Next]_vars
    PROVE  SnapshotsInside'
  <1>0. TypeOK /\ LogContiguous /\ TypeOK'
    BY DEF NodeInv
  <1>1. ASSUME NEW r \in rpcs', r \in SnapshotRequests
        PROVE  r.index <= LastLogIndex(r.from)'
    <2>1. r.from \in Server /\ r.index \in Nat
      BY <1>1 DEF SnapshotRequests
    <2>2. LastLogIndex(r.from)' >= LastLogIndex(r.from)
          /\ LastLogIndex(r.from)' \in Nat /\ LastLogIndex(r.from) \in Nat
      BY <2>1, LogsGrow
    <2>3. r.index <= LastLogIndex(r.from)
      <3>1. CASE r \in rpcs
        BY <1>1, <3>1 DEF SnapshotsInside
      <3>2. CASE r.index = snapIndex[r.from]
        BY <1>0, <2>1, <3>2, LastIndexIsLength
      <3>3. ASSUME NEW q \in rpcs, q \in SnapshotRequests, "waiting" \in DOMAIN q,
                   r = [q EXCEPT !.waiting = FALSE]
            PROVE  r.index <= LastLogIndex(r.from)
        <4>1. q \in Rpc
          BY <1>0 DEF TypeOK
        <4>2. r.index = q.index /\ r.from = q.from
          BY <3>3, <4>1, AbandonedCall
        <4> QED
          BY <3>3, <4>2 DEF SnapshotsInside
      <3> QED
        BY <1>0, <1>1, <3>1, <3>2, <3>3, CallSteps, NewCallOfType
    <2> QED
      BY <2>1, <2>2, <2>3
  <1>2. ASSUME NEW r \in rpcs', r \in SnapshotReplies
        PROVE  r.args.index <= LastLogIndex(r.args.from)'
    <2>1. r.args \in SnapshotRequests /\ r.args.from \in Server /\ r.args.index \in Nat
      BY <1>2 DEF SnapshotReplies, SnapshotRequests
    <2>2. LastLogIndex(r.args.from)' >= LastLogIndex(r.args.from)
          /\ LastLogIndex(r.args.from)' \in Nat /\ LastLogIndex(r.args.from) \in Nat
      BY <2>1, LogsGrow
    <2>3. r.args.index <= LastLogIndex(r.args.from)
      <3>1. r \in rpcs \/ r.args \in rpcs
        BY <1>0, <1>2, CallSteps, NewCallOfType
      <3> QED
        BY <1>2, <2>1, <3>1 DEF SnapshotsInside
    <2> QED
      BY <2>1, <2>2, <2>3
  <1>3. \A r \in rpcs' : /\ r \in SnapshotRequests => r.index <= LastLogIndex(r.from)'
                         /\ r \in SnapshotReplies => r.args.index <= LastLogIndex(r.args.from)'
    BY <1>1, <1>2
  <1> QED
    BY <1>3 DEF SnapshotsInside

\* The steps in which a leader changes what it believes of a peer, or begins.
LEMMA PeerSteps ==
    ASSUME TypeOK, [Next]_vars
    PROVE  \/ UNCHANGED <<nextIndex, matchIndex>> /\ LeadersStay
           \/ \E i \in Server : Restart(i)
           \/ \E r \in rpcs :
                 \/ sendRequestVote(r) /\ VoteReplyWins(r)
                 \/ sendAppendEntries(r) /\ (AppendReplyConflict(r) \/ AppendReplySuccess(r))
                 \/ leaderSendSnapShotReply(r) /\ SnapshotReplyInstalled(r)
  <1>1. CASE UNCHANGED vars
    BY <1>1 DEF vars, leaderVars, LeadersStay, serverVars
  <1>2. ASSUME NEW i \in Server,
               \/ doElection(i) \/ doHeartBeat(i)
               \/ ReadIndex(i) \/ ReadIndexReturn(i) \/ WaitForApplied(i)
               \/ \E j \in Server : ReadIndexBeat(i, j)
        PROVE  UNCHANGED <<nextIndex, matchIndex>> /\ LeadersStay
    <2>1. UNCHANGED <<nextIndex, matchIndex>>
      BY <1>2 DEF doElection, doHeartBeat, ReadIndex, ReadIndexReturn, WaitForApplied,
                  ReadIndexBeat, leaderVars
    <2> QED
      BY <1>2, <2>1, QuietServerSteps
  <1>3. ASSUME NEW i \in Server,
               \/ applierTicker(i)
               \/ \E command \in Command : Start(i, command)
               \/ \E index \in 1 .. MaxSnapIndex : Snapshot(i, index)
        PROVE  UNCHANGED <<nextIndex, matchIndex>> /\ LeadersStay
    BY <1>3 DEF applierTicker, Start, Snapshot, leaderVars, LeadersStay, serverVars
  <1>4. ASSUME NEW r \in rpcs,
               \/ RequestVote(r)
               \/ sendRequestVote(r) /\ ~VoteReplyWins(r)
               \/ AppendEntries1(r) /\ ~AppendEntriesMatch(r)
               \/ sendAppendEntries(r) /\ ~AppendReplySuccess(r) /\ ~AppendReplyConflict(r)
               \/ leaderSendSnapShot(r)
               \/ InstallSnapshot(r) /\ ~InstallNew(r)
               \/ leaderSendSnapShotReply(r) /\ ~SnapshotReplyInstalled(r)
               \/ ReadIndexConfirm(r)
        PROVE  UNCHANGED <<nextIndex, matchIndex>> /\ LeadersStay
    <2>1. UNCHANGED leaderVars
      BY <1>4 DEF RequestVote, sendRequestVote, VoteReplyNewer, VoteReplyIgnored, VoteReplyCounted,
                  AppendEntries1, AppendEntriesStale, AppendEntriesMismatch,
                  sendAppendEntries, AppendReplyNewer, AppendReplyIgnored,
                  leaderSendSnapShot, InstallSnapshot, InstallStale, InstallOutdated,
                  leaderSendSnapShotReply, SnapshotReplyNewer, SnapshotReplyIgnored,
                  ReadIndexConfirm
    <2> QED
      BY <1>4, <2>1, QuietCalls DEF leaderVars
  <1>5. ASSUME NEW r \in rpcs,
               \/ AppendEntries1(r) /\ AppendEntriesMatch(r)
               \/ InstallSnapshot(r) /\ InstallNew(r)
        PROVE  UNCHANGED <<nextIndex, matchIndex>> /\ LeadersStay
    <2>1. r.to \in Server
      BY <1>5, RpcKinds DEF AppendEntries1, InstallSnapshot, AppendRequests, SnapshotRequests
    <2>2. UNCHANGED leaderVars /\ FollowSender(r)
      BY <1>5 DEF AppendEntriesMatch, InstallNew
    <2> QED
      BY <2>1, <2>2, FollowSenderLeaders DEF leaderVars
  <1> QED
    BY <1>1, <1>2, <1>3, <1>4, <1>5 DEF Next

\* The steps that move nextIndex and matchIndex keep them inside the leader's log.
LEMMA PeerIndexesStep ==
    ASSUME NodeInv, NodeInv', PeerInv, [Next]_vars
    PROVE  PeerIndexes'
  <1>0. TypeOK /\ LogContiguous /\ RpcBounds
    BY DEF NodeInv
  <1>1. PeerIndexes /\ RefusalsPositive /\ SnapshotsInside
    BY DEF PeerInv
  <1>2. /\ nextIndex \in [Server -> [Server -> Int]] /\ matchIndex \in [Server -> [Server -> Nat]]
        /\ status \in [Server -> {Follower, Candidate, Leader}]
    BY <1>0 DEF TypeOK
  <1>3. \A i \in Server : /\ LastLogIndex(i)' >= LastLogIndex(i)
                          /\ LastLogIndex(i)' \in Nat /\ LastLogIndex(i) \in Nat
    BY LogsGrow
  <1> DEFINE Good(i, j) == nextIndex'[i][j] >= 1 /\ matchIndex'[i][j] <= LastLogIndex(i)'
  <1>4. ASSUME NEW i \in Server, NEW j \in Server, status[i] = Leader,
               nextIndex'[i][j] = nextIndex[i][j], matchIndex'[i][j] = matchIndex[i][j]
        PROVE  Good(i, j)
    <2>1. nextIndex[i][j] >= 1 /\ matchIndex[i][j] <= LastLogIndex(i) /\ matchIndex[i][j] \in Nat
      BY <1>1, <1>2, <1>4 DEF PeerIndexes
    <2> QED
      BY <1>3, <1>4, <2>1
  <1> SUFFICES ASSUME NEW i \in Server, NEW j \in Server, status'[i] = Leader
               PROVE  Good(i, j)
    BY DEF PeerIndexes
  <1> HIDE DEF Good
  <1>5. CASE UNCHANGED <<nextIndex, matchIndex>> /\ LeadersStay
    BY <1>4, <1>5 DEF LeadersStay
  <1>6. ASSUME NEW k \in Server, Restart(k)
        PROVE  Good(i, j)
    <2>1. /\ status' = [status EXCEPT ![k] = Follower]
          /\ nextIndex' = [nextIndex EXCEPT ![k] = [l \in Server |-> 0]]
          /\ matchIndex' = [matchIndex EXCEPT ![k] = [l \in Server |-> 0]]
      BY <1>6 DEF Restart
    <2>2. i # k /\ status[i] = Leader
      BY <1>2, <2>1 DEF Follower, Leader
    <2> QED
      BY <1>2, <1>4, <2>1, <2>2
  <1>7. ASSUME NEW r \in rpcs, sendRequestVote(r), VoteReplyWins(r)
        PROVE  Good(i, j)
    <2> DEFINE k == r.args.from
    <2>1. k \in Server
      BY <1>0, <1>7, RpcKinds DEF sendRequestVote, VoteReplies, VoteRequests
    <2>2. /\ status' = [status EXCEPT ![k] = Leader]
          /\ nextIndex' = [nextIndex EXCEPT ![k] = [l \in Server |-> LastLogIndex(k) + 1]]
          /\ matchIndex' = [matchIndex EXCEPT ![k] = [l \in Server |-> 0]]
      BY <1>7 DEF VoteReplyWins
    <2> HIDE DEF k
    <2>3. CASE i # k
      BY <1>2, <1>4, <2>2, <2>3
    <2>4. CASE i = k
      <3>1. nextIndex'[i][j] = LastLogIndex(i) + 1 /\ matchIndex'[i][j] = 0
        BY <1>2, <2>2, <2>4
      <3> QED
        BY <1>3, <3>1 DEF Good
    <2> QED
      BY <2>3, <2>4
  <1>8. ASSUME NEW r \in rpcs, sendAppendEntries(r), AppendReplyConflict(r)
        PROVE  Good(i, j)
    <2> DEFINE k == r.args.from
               l == r.args.to
    <2>1. k \in Server /\ l \in Server /\ r \in AppendReplies /\ r.update \in Int
      BY <1>0, <1>8, RpcKinds DEF sendAppendEntries, AppendReplies, AppendRequests
    <2>2. /\ ~r.success /\ r.update # -100 /\ status[k] = Leader /\ UNCHANGED <<status, matchIndex>>
          /\ nextIndex' = [nextIndex EXCEPT ![k][l] = r.update]
      BY <1>8 DEF AppendReplyConflict, serverVars
    <2>3. r.update >= 1
      BY <1>1, <2>1, <2>2 DEF RefusalsPositive
    <2> HIDE DEF k, l
    <2>4. CASE i # k \/ j # l
      BY <1>2, <1>4, <2>1, <2>2, <2>4
    <2>5. CASE i = k /\ j = l
      <3>1. nextIndex'[i][j] = r.update /\ matchIndex'[i][j] = matchIndex[i][j]
        BY <1>2, <2>1, <2>2, <2>5
      <3>2. matchIndex[i][j] <= LastLogIndex(i) /\ matchIndex[i][j] \in Nat
        BY <1>1, <1>2, <2>2, <2>5 DEF PeerIndexes
      <3> QED
        BY <1>3, <2>3, <3>1, <3>2 DEF Good
    <2> QED
      BY <2>4, <2>5
  <1>9. ASSUME NEW r \in rpcs, sendAppendEntries(r), AppendReplySuccess(r)
        PROVE  Good(i, j)
    <2> DEFINE k == r.args.from
               l == r.args.to
               last == Acked(r.args)
               match == Maximum(matchIndex[k][l], last)
    <2>1. k \in Server /\ l \in Server /\ r \in AppendReplies /\ r.args \in AppendRequests
      BY <1>0, <1>9, RpcKinds DEF sendAppendEntries, AppendReplies, AppendRequests
    <2>2. /\ status[k] = Leader /\ UNCHANGED status
          /\ nextIndex' = [nextIndex EXCEPT ![k][l] = match + 1]
          /\ matchIndex' = [matchIndex EXCEPT ![k][l] = match]
      BY <1>9 DEF AppendReplySuccess, serverVars
    <2>3. last \in Nat /\ last <= LastLogIndex(k)
      <3>1. AppendWellFormed(r.args)
        BY <1>0, <2>1 DEF RpcBounds
      <3> QED
        BY <2>1, <3>1, LastOfSeq DEF AppendWellFormed, AppendRequests, Acked
    <2> HIDE DEF k, l, last
    <2>4. matchIndex[k][l] \in Nat /\ matchIndex[k][l] <= LastLogIndex(k)
      BY <1>1, <1>2, <2>1, <2>2 DEF PeerIndexes
    <2>5. match \in Nat /\ match <= LastLogIndex(k)
      BY <2>3, <2>4 DEF Maximum
    <2> HIDE DEF match
    <2>6. CASE i # k \/ j # l
      BY <1>2, <1>4, <2>1, <2>2, <2>6
    <2>7. CASE i = k /\ j = l
      <3>1. nextIndex'[i][j] = match + 1 /\ matchIndex'[i][j] = match
        BY <1>2, <2>1, <2>2, <2>7
      <3> QED
        BY <1>3, <2>5, <2>7, <3>1 DEF Good
    <2> QED
      BY <2>6, <2>7
  <1>10. ASSUME NEW r \in rpcs, leaderSendSnapShotReply(r), SnapshotReplyInstalled(r)
        PROVE  Good(i, j)
    <2> DEFINE k == r.args.from
               l == r.args.to
    <2>1. k \in Server /\ l \in Server /\ r \in SnapshotReplies /\ r.args.index \in Nat
      BY <1>0, <1>10, RpcKinds DEF leaderSendSnapShotReply, SnapshotReplies, SnapshotRequests
    <2>2. /\ status[k] = Leader /\ UNCHANGED status
          /\ nextIndex' = [nextIndex EXCEPT ![k][l] = r.args.index + 1]
          /\ matchIndex' = [matchIndex EXCEPT ![k][l] = r.args.index]
      BY <1>10 DEF SnapshotReplyInstalled, serverVars
    <2>3. r.args.index <= LastLogIndex(k)
      BY <1>1, <2>1 DEF SnapshotsInside
    <2> HIDE DEF k, l
    <2>4. CASE i # k \/ j # l
      BY <1>2, <1>4, <2>1, <2>2, <2>4
    <2>5. CASE i = k /\ j = l
      <3>1. nextIndex'[i][j] = r.args.index + 1 /\ matchIndex'[i][j] = r.args.index
        BY <1>2, <2>1, <2>2, <2>5
      <3> QED
        BY <1>3, <2>1, <2>3, <2>5, <3>1 DEF Good
    <2> QED
      BY <2>4, <2>5
  <1> QED
    BY <1>0, <1>5, <1>6, <1>7, <1>8, <1>9, <1>10, PeerSteps

\* The invariant holds in every reachable state.
THEOREM PeerInvariant == Spec => [](NodeInv /\ PeerInv)
  <1>1. Init => PeerInv
    BY DEF Init, PeerInv, RefusalsPositive, ZeroTerms, SnapshotsInside, PeerIndexes, Follower, Leader
  <1>2. NodeInv /\ PeerInv /\ [Next]_vars => (NodeInv /\ PeerInv)'
    <2> SUFFICES ASSUME NodeInv, PeerInv, [Next]_vars PROVE (NodeInv /\ PeerInv)'
      OBVIOUS
    <2>1. NodeInv'
      BY NextInv
    <2>2. RefusalsPositive /\ ZeroTerms /\ SnapshotsInside
      BY DEF PeerInv
    <2>3. RefusalsPositive' /\ ZeroTerms' /\ SnapshotsInside' /\ PeerIndexes'
      BY <2>1, <2>2, RefusalsStep, ZeroTermsStep, SnapshotsInsideStep, PeerIndexesStep
    <2> QED
      BY <2>1, <2>3 DEF PeerInv
  <1> QED
    BY <1>1, <1>2, InitInv, PTL DEF Spec

\* The assertion of doHeartBeat (nextIndex at least 1) and the one of
\* sendAppendEntries on matchIndex never fail, whatever order refusals,
\* successes and snapshot replies of one term arrive in.
THEOREM PeersInsideLog == Spec => []PeerIndexes
  <1>1. PeerInv => PeerIndexes
    BY DEF PeerInv
  <1> QED
    BY <1>1, PeerInvariant, PTL

-----------------------------------------------------------------------------
(***************************************************************************)
(* An index and a term name one command.                                   *)
(*                                                                         *)
(* An entry is made by the leader of its term only, at the end of its log; *)
(* a term has one leader (RaftProofs), a leader's log never shrinks,       *)
(* and no server leads a term twice.  So an entry of the leader's term     *)
(* anywhere in sight has an index the leader has already used.             *)
(***************************************************************************)
\* The entries a server holds, a call carries or a state machine was given.
InSight(e) ==
    \/ \E i \in Server : \E k \in 1 .. Len(logs[i]) : e = logs[i][k]
    \/ \E r \in rpcs : r \in AppendRequests /\ \E k \in 1 .. Len(r.entries) : e = r.entries[k]
    \/ \E a \in applied : e = a.entry

LeadersWon ==
    \A i \in Server : status[i] = Leader => [term |-> currentTerm[i], leader |-> i] \in won

EntriesWon == \A e \in Entry : InSight(e) => \E w \in won : w.term = e.term

OwnTermIndexes ==
    \A i \in Server : status[i] = Leader =>
        \A e \in Entry : InSight(e) /\ e.term = currentTerm[i] => e.index <= LastLogIndex(i)

OneCommand ==
    \A e1, e2 \in Entry :
        InSight(e1) /\ InSight(e2) /\ e1.index = e2.index /\ e1.term = e2.term => e1 = e2

EntryInv == LeadersWon /\ EntriesWon /\ OwnTermIndexes /\ OneCommand

\* An entry made by the step.
Created(e) ==
    \/ \E i \in Server : \E command \in Command : Start(i, command) /\ e = NewEntry(i, command)
    \/ \E r \in rpcs : /\ sendRequestVote(r) /\ VoteReplyWins(r)
                       /\ e = NewEntry(r.args.from, Noop)

\* An entry of a log is in sight.
LEMMA InLog ==
    ASSUME NEW i \in Server, NEW k \in 1 .. Len(logs[i])
    PROVE  InSight(logs[i][k])
  BY DEF InSight

\* What is left of a log after a cut was in it.
LEMMA DroppedInSight ==
    ASSUME TypeOK, LogContiguous, NEW i \in Server, NEW index \in Int,
           index >= snapIndex[i], index <= LastLogIndex(i),
           NEW k \in 1 .. Len(DropPrefix(i, index))
    PROVE  InSight(DropPrefix(i, index)[k])
  <1>1. /\ Len(DropPrefix(i, index)) = LastLogIndex(i) - index
        /\ \A m \in 1 .. LastLogIndex(i) - index :
              DropPrefix(i, index)[m] = logs[i][index - snapIndex[i] + m]
    BY DropPrefixProperties
  <1>2. /\ LastLogIndex(i) = snapIndex[i] + Len(logs[i]) /\ snapIndex[i] \in Nat
        /\ Len(logs[i]) \in Nat
    BY LastIndexIsLength
  <1>3. k \in 1 .. LastLogIndex(i) - index /\ index - snapIndex[i] + k \in 1 .. Len(logs[i])
    BY <1>1, <1>2
  <1> QED
    BY <1>1, <1>3, InLog

\* An entry of a merged log was in the log or in the call.
LEMMA MergedInSight ==
    ASSUME NEW log \in Seq(Entry), NEW es \in Seq(Entry), NEW from \in Nat, from <= Len(log),
           NEW k \in 1 .. Len(MergeEntries(log, from, es))
    PROVE  \/ k \in 1 .. Len(log) /\ MergeEntries(log, from, es)[k] = log[k]
           \/ /\ k - from \in 1 .. Len(es)
              /\ MergeEntries(log, from, es)[k] = es[k - from]
  <1>1. Len(MergeEntries(log, from, es)) = Maximum(Len(log), from + Len(es))
        /\ Len(log) \in Nat /\ Len(es) \in Nat
    BY MergeType, LastOfSeq
  <1>2. k \in 1 .. Maximum(Len(log), from + Len(es))
    BY <1>1
  <1>3. MergeEntries(log, from, es)[k] =
          IF k > from /\ k <= from + Len(es) /\ (k > Len(log) \/ log[k].term # es[k - from].term)
          THEN es[k - from] ELSE log[k]
    BY <1>2 DEF MergeEntries
  <1>4. CASE k > from /\ k <= from + Len(es)
    BY <1>1, <1>2, <1>3, <1>4
  <1>5. CASE ~(k > from /\ k <= from + Len(es))
    <2>1. k <= Len(log)
      BY <1>1, <1>2, <1>5 DEF Maximum
    <2> QED
      BY <1>1, <1>2, <1>3, <1>5, <2>1
  <1> QED
    BY <1>4, <1>5

\* An entry in a log after a step was in sight before it, or is new.
LEMMA LogEntriesStep ==
    ASSUME NodeInv, NodeInv', [Next]_vars, NEW i \in Server, NEW k \in 1 .. Len(logs'[i])
    PROVE  InSight(logs'[i][k]) \/ Created(logs'[i][k])
  <1>0. TypeOK /\ LogContiguous /\ IndexOrder /\ DiskCurrent
    BY DEF NodeInv
  <1>1. logs \in [Server -> Seq(Entry)] /\ snapIndex \in [Server -> Nat]
        /\ logs[i] \in Seq(Entry) /\ snapIndex[i] \in Nat
    BY <1>0 DEF TypeOK
  <1>2. logs'[i] = logs[i] => InSight(logs'[i][k])
    BY InLog
  <1>3. ASSUME NEW j \in Server, NEW e \in Entry, UNCHANGED snapIndex,
               logs' = [logs EXCEPT ![j] = Append(@, e)], ~InSight(logs'[i][k])
        PROVE  logs'[i][k] = e
    <2>1. i = j
      BY <1>1, <1>2, <1>3
    <2>2. /\ Len(logs'[i]) = Len(logs[i]) + 1 /\ logs'[i][Len(logs[i]) + 1] = e
          /\ \A m \in 1 .. Len(logs[i]) : logs'[i][m] = logs[i][m]
      BY <1>0, <1>3, <2>1, AppendKept
    <2>3. Len(logs[i]) \in Nat
      BY <1>1, LastOfSeq
    <2>4. k \notin 1 .. Len(logs[i])
      BY <1>3, <2>2, InLog
    <2> QED
      BY <2>2, <2>3, <2>4
  <1>4. ASSUME NEW j \in Server, NEW command \in Command, Start(j, command)
        PROVE  InSight(logs'[i][k]) \/ Created(logs'[i][k])
    <2>1. NewEntry(j, command) \in Entry
      BY <1>0, NewEntryType
    <2>2. UNCHANGED snapIndex /\ logs' = [logs EXCEPT ![j] = Append(@, NewEntry(j, command))]
      BY <1>4 DEF Start
    <2>3. InSight(logs'[i][k]) \/ logs'[i][k] = NewEntry(j, command)
      BY <1>3, <2>1, <2>2
    <2> QED
      BY <1>4, <2>3 DEF Created
  <1>5. ASSUME NEW r \in rpcs, sendRequestVote(r), VoteReplyWins(r)
        PROVE  InSight(logs'[i][k]) \/ Created(logs'[i][k])
    <2>0. r.args.from \in Server
      BY <1>0, <1>5, RpcKinds DEF sendRequestVote, VoteReplies, VoteRequests
    <2>1. NewEntry(r.args.from, Noop) \in Entry
      BY <1>0, <2>0, NewEntryType
    <2>2. /\ UNCHANGED snapIndex
          /\ logs' = [logs EXCEPT ![r.args.from] = Append(@, NewEntry(r.args.from, Noop))]
      BY <1>5 DEF VoteReplyWins
    <2>3. InSight(logs'[i][k]) \/ logs'[i][k] = NewEntry(r.args.from, Noop)
      BY <1>3, <2>0, <2>1, <2>2
    <2> QED
      BY <1>5, <2>3 DEF Created
  <1>6. ASSUME NEW index \in Int, index >= snapIndex[i], index <= LastLogIndex(i),
               logs'[i] = DropPrefix(i, index)
        PROVE  InSight(logs'[i][k])
    BY <1>0, <1>6, DroppedInSight
  <1>7. ASSUME NEW j \in Server, NEW index \in 1 .. MaxSnapIndex, Snapshot(j, index)
        PROVE  InSight(logs'[i][k])
    <2>1. /\ snapIndex[j] < index /\ index <= lastApplied[j]
          /\ logs' = [logs EXCEPT ![j] = DropPrefix(j, index)]
      BY <1>7 DEF Snapshot
    <2>2. CASE i = j
      <3>1. lastApplied[i] \in Nat /\ index \in Int
        BY <1>0, BoundsAreNat DEF TypeOK
      <3>2. lastApplied[i] <= LastLogIndex(i)
        BY <1>0 DEF IndexOrder
      <3>3. LastLogIndex(i) \in Nat
        BY <1>0, LastIndexIsLength
      <3>4. index >= snapIndex[i] /\ index <= LastLogIndex(i)
        BY <1>1, <2>1, <2>2, <3>1, <3>2, <3>3
      <3> QED
        BY <1>1, <1>6, <2>1, <2>2, <3>1, <3>4
    <2> QED
      BY <1>1, <1>2, <2>1, <2>2
  <1>8. ASSUME NEW j \in Server, Restart(j)
        PROVE  InSight(logs'[i][k])
    <2>1. logs' = [logs EXCEPT ![j] = disk[j].log] /\ disk[j].log = logs[j]
      BY <1>0, <1>8 DEF Restart, DiskCurrent
    <2> QED
      BY <1>1, <1>2, <2>1
  <1>9. ASSUME NEW r \in rpcs, AppendEntries1(r), AppendEntriesMatch(r)
        PROVE  InSight(logs'[i][k])
    <2>1. r \in AppendRequests /\ r.to \in Server /\ r.prevIndex \in Nat /\ r.entries \in Seq(Entry)
      BY <1>0, <1>9, RpcKinds DEF AppendEntries1, AppendRequests
    <2> DEFINE from == Slice(r.to, r.prevIndex)
               old == logs[i]
               es == r.entries
    <2>2. /\ \A j \in Server \ {r.to} : logs'[j] = logs[j]
          /\ logs'[r.to] = MergeEntries(logs[r.to], from, es)
          /\ from \in Nat /\ from <= Len(logs[r.to])
      BY <1>9, <2>1, MergedIsLonger
    <2>3. CASE i = r.to
      <3>1. /\ old \in Seq(Entry) /\ es \in Seq(Entry) /\ from \in Nat /\ from <= Len(old)
            /\ k \in 1 .. Len(MergeEntries(old, from, es))
            /\ logs'[i][k] = MergeEntries(old, from, es)[k]
        BY <1>1, <2>1, <2>2, <2>3
      <3> HIDE DEF from, old, es
      <3>2. \/ k \in 1 .. Len(old) /\ logs'[i][k] = old[k]
            \/ k - from \in 1 .. Len(es) /\ logs'[i][k] = es[k - from]
        BY <3>1, MergedInSight
      <3> QED
        BY <2>1, <3>2 DEF InSight, old, es
    <2> QED
      BY <1>2, <2>2, <2>3
  <1>10. ASSUME NEW r \in rpcs, InstallSnapshot(r), InstallNew(r)
        PROVE  InSight(logs'[i][k])
    <2>1. r.to \in Server /\ r.index \in Nat
      BY <1>0, <1>10, RpcKinds DEF InstallSnapshot, SnapshotRequests
    <2>2. /\ r.index > snapIndex[r.to]
          /\ logs' = [logs EXCEPT ![r.to] =
               IF LastLogIndex(r.to) > r.index THEN DropPrefix(r.to, r.index) ELSE <<>>]
      BY <1>10 DEF InstallNew
    <2>3. CASE i = r.to /\ LastLogIndex(i) > r.index
      <3>1. LastLogIndex(i) \in Nat
        BY <1>0, LastIndexIsLength
      <3>2. logs'[i] = DropPrefix(i, r.index)
        BY <1>1, <2>2, <2>3
      <3> QED
        BY <1>1, <1>6, <2>1, <2>2, <2>3, <3>1, <3>2
    <2>4. CASE i = r.to /\ ~(LastLogIndex(i) > r.index)
      <3>1. logs'[i] = <<>>
        BY <1>1, <2>2, <2>4
      <3> QED
        BY <3>1
    <2> QED
      BY <1>1, <1>2, <2>2, <2>3, <2>4
  <1>11. ASSUME \/ UNCHANGED <<logVars, applyVars, applied, won, restarts>>
                \/ \E j \in Server : applierTicker(j)
                \/ \E r \in rpcs : AppendReplySuccess(r)
         PROVE  InSight(logs'[i][k])
    BY <1>2, <1>11 DEF logVars, applierTicker, AppendReplySuccess
  <1> QED
    BY <1>0, <1>4, <1>5, <1>7, <1>8, <1>9, <1>10, <1>11, LogSteps

\* The same for what a call carries, and for what is applied.
LEMMA CallEntriesStep ==
    ASSUME NodeInv, NodeInv', [Next]_vars, NEW r \in rpcs', r \in AppendRequests,
           NEW k \in 1 .. Len(r.entries)
    PROVE  InSight(r.entries[k])
  <1>0. TypeOK /\ LogContiguous
    BY DEF NodeInv
  <1>1. CASE r \in rpcs
    BY <1>1 DEF InSight
  <1>2. CASE FromLeader(r)
    <2>1. r.from \in Server /\ r.prevIndex \in Int
      BY DEF AppendRequests
    <2>2. r.prevIndex >= snapIndex[r.from] /\ r.prevIndex <= LastLogIndex(r.from)
          /\ (r.entries = DropPrefix(r.from, r.prevIndex) \/ r.entries = <<>>)
      BY <1>2 DEF FromLeader
    <2>3. r.entries # <<>>
      OBVIOUS
    <2> QED
      BY <1>0, <2>1, <2>2, <2>3, DroppedInSight
  <1>3. ASSUME NEW q \in rpcs, q \in AppendRequests, "waiting" \in DOMAIN q,
               r = [q EXCEPT !.waiting = FALSE]
        PROVE  InSight(r.entries[k])
    <2>1. q \in Rpc
      BY <1>0 DEF TypeOK
    <2>2. r.entries = q.entries
      BY <1>3, <2>1, AbandonedCall
    <2> QED
      BY <1>3, <2>2 DEF InSight
  <1> QED
    BY <1>0, <1>1, <1>2, <1>3, CallSteps, NewCallOfType

\* What is applied was in sight before.
LEMMA AppliedEntriesStep ==
    ASSUME NodeInv, NodeInv', [Next]_vars, NEW a \in applied'
    PROVE  InSight(a.entry)
  <1>0. TypeOK /\ LogContiguous /\ IndexOrder
    BY DEF NodeInv
  <1>1. CASE a \in applied
    BY <1>1 DEF InSight
  <1>2. ASSUME NEW i \in Server, applierTicker(i), a \notin applied
        PROVE  InSight(a.entry)
    <2>1. PICK k \in lastApplied[i] + 1 .. commitIndex[i] :
             a = [entry |-> logs[i][Slice(i, k)], at |-> currentTerm[i]]
      BY <1>2 DEF applierTicker
    <2>2. lastApplied[i] \in Nat /\ commitIndex[i] \in Nat
      BY <1>0 DEF TypeOK
    <2>3. snapIndex[i] <= lastApplied[i] /\ commitIndex[i] <= LastLogIndex(i)
      BY <1>0 DEF IndexOrder
    <2>4. LastLogIndex(i) = snapIndex[i] + Len(logs[i]) /\ snapIndex[i] \in Nat
          /\ Len(logs[i]) \in Nat
      BY <1>0, LastIndexIsLength
    <2>5. Slice(i, k) \in 1 .. Len(logs[i])
      BY <2>2, <2>3, <2>4 DEF Slice
    <2> QED
      BY <2>1, <2>5, InLog
  <1>3. UNCHANGED applied \/ \E i \in Server : applierTicker(i)
    <2>1. \A i \in Server :
             /\ \A command \in Command : Start(i, command) => UNCHANGED applied
             /\ \A index \in 1 .. MaxSnapIndex : Snapshot(i, index) => UNCHANGED applied
             /\ Restart(i) => UNCHANGED applied
      BY DEF Start, Snapshot, Restart
    <2>2. \A r \in rpcs : /\ VoteReplyWins(r) => UNCHANGED applied
                          /\ AppendEntriesMatch(r) => UNCHANGED applied
                          /\ AppendReplySuccess(r) => UNCHANGED applied
                          /\ InstallNew(r) => UNCHANGED applied
      BY DEF VoteReplyWins, AppendEntriesMatch, AppendReplySuccess, InstallNew
    <2> QED
      BY <1>0, <2>1, <2>2, LogSteps
  <1> QED
    BY <1>1, <1>2, <1>3

\* Nothing comes in sight that was not, except what the step makes.
LEMMA SightStep ==
    ASSUME NodeInv, NodeInv', [Next]_vars, NEW e, InSight(e)'
    PROVE  InSight(e) \/ Created(e)
  <1>1. \/ \E i \in Server : \E k \in 1 .. Len(logs'[i]) : e = logs'[i][k]
        \/ \E r \in rpcs' : r \in AppendRequests /\ \E k \in 1 .. Len(r.entries) : e = r.entries[k]
        \/ \E a \in applied' : e = a.entry
    BY DEF InSight
  <1> QED
    BY <1>1, LogEntriesStep, CallEntriesStep, AppliedEntriesStep

\* Nobody wins a term in a step that is not the last vote of an election.
LEMMA LeaderSteps ==
    ASSUME NodeInv, [Next]_vars
    PROVE  \/ LeadersStay /\ won' = won
           \/ \E r \in rpcs : sendRequestVote(r) /\ VoteReplyWins(r)
  <1>0. TypeOK
    BY DEF NodeInv
  <1>1. CASE UNCHANGED <<logVars, applyVars, applied, won, restarts>> /\ LeadersStay
    BY <1>1
  <1>2. ASSUME NEW i \in Server,
               \/ \E command \in Command : Start(i, command)
               \/ \E index \in 1 .. MaxSnapIndex : Snapshot(i, index)
               \/ applierTicker(i)
        PROVE  LeadersStay /\ won' = won
    BY <1>2 DEF Start, Snapshot, applierTicker, LeadersStay, serverVars, voteVars
  <1>3. ASSUME NEW i \in Server, Restart(i)
        PROVE  LeadersStay /\ won' = won
    <2>1. /\ status' = [status EXCEPT ![i] = Follower]
          /\ currentTerm' = [currentTerm EXCEPT ![i] = disk[i].term] /\ won' = won
      BY <1>3 DEF Restart
    <2> QED
      BY <1>0, <2>1 DEF LeadersStay, TypeOK, Follower, Leader
  <1>4. ASSUME NEW r \in rpcs,
               \/ AppendEntries1(r) /\ AppendEntriesMatch(r)
               \/ InstallSnapshot(r) /\ InstallNew(r)
        PROVE  LeadersStay /\ won' = won
    <2>1. r.to \in Server
      BY <1>0, <1>4, RpcKinds DEF AppendEntries1, InstallSnapshot, AppendRequests, SnapshotRequests
    <2>2. won' = won /\ FollowSender(r)
      BY <1>4 DEF AppendEntriesMatch, InstallNew, voteVars
    <2> QED
      BY <1>0, <2>1, <2>2, FollowSenderLeaders
  <1>5. ASSUME NEW r \in rpcs, sendAppendEntries(r), AppendReplySuccess(r)
        PROVE  LeadersStay /\ won' = won
    BY <1>5 DEF AppendReplySuccess, LeadersStay, serverVars, voteVars
  <1> QED
    BY <1>0, <1>1, <1>2, <1>3, <1>4, <1>5, LogSteps

\* Server i appends e and no log changes otherwise.
Appends(i, e) ==
    /\ i \in Server /\ e \in Entry /\ UNCHANGED snapIndex
    /\ logs' = [logs EXCEPT ![i] = Append(@, e)]
    /\ e.term = currentTerm[i] /\ e.index = LastLogIndex(i) + 1
    /\ UNCHANGED currentTerm

\* The term and index of a new entry.
LEMMA NewEntryFields ==
    ASSUME NEW i, NEW command
    PROVE  /\ NewEntry(i, command).term = currentTerm[i]
           /\ NewEntry(i, command).index = LastLogIndex(i) + 1
  BY DEF NewEntry

\* An entry out of nothing is appended by a leader or by the winner of an election.
LEMMA CreatedAppends ==
    ASSUME NodeInv, NEW e, Created(e)
    PROVE  \/ \E i \in Server : Appends(i, e) /\ status[i] = Leader
           \/ \E r \in rpcs : /\ sendRequestVote(r) /\ VoteReplyWins(r)
                              /\ Appends(r.args.from, e)
  <1>0. TypeOK /\ LogContiguous
    BY DEF NodeInv
  <1>1. ASSUME NEW i \in Server, NEW command \in Command, Start(i, command),
               e = NewEntry(i, command)
        PROVE  Appends(i, e) /\ status[i] = Leader
    <2>1. e \in Entry
      BY <1>0, <1>1, NewEntryType
    <2>2. /\ status[i] = Leader /\ UNCHANGED <<snapIndex, currentTerm>>
          /\ logs' = [logs EXCEPT ![i] = Append(@, e)]
      BY <1>1 DEF Start, serverVars
    <2> QED
      BY <1>1, <2>1, <2>2, NewEntryFields DEF Appends
  <1>2. ASSUME NEW r \in rpcs, sendRequestVote(r), VoteReplyWins(r),
               e = NewEntry(r.args.from, Noop)
        PROVE  Appends(r.args.from, e)
    <2>0. r.args.from \in Server
      BY <1>0, <1>2, RpcKinds DEF sendRequestVote, VoteReplies, VoteRequests
    <2>1. e \in Entry
      BY <1>0, <1>2, <2>0, NewEntryType
    <2>2. /\ UNCHANGED <<snapIndex, currentTerm>>
          /\ logs' = [logs EXCEPT ![r.args.from] = Append(@, e)]
      BY <1>2 DEF VoteReplyWins
    <2> QED
      BY <1>2, <2>0, <2>1, <2>2, NewEntryFields DEF Appends
  <1> QED
    BY <1>1, <1>2 DEF Created

\* A step appends one entry at most.
LEMMA AppendsOnce ==
    ASSUME TypeOK, NEW i1, NEW e1, NEW i2, NEW e2, Appends(i1, e1), Appends(i2, e2)
    PROVE  i1 = i2 /\ e1 = e2
  <1>1. i1 \in Server /\ i2 \in Server /\ e1 \in Entry /\ e2 \in Entry
    BY DEF Appends
  <1>2. /\ Len(logs'[i1]) = Len(logs[i1]) + 1 /\ logs'[i1][Len(logs[i1]) + 1] = e1
    BY <1>1, AppendKept DEF Appends
  <1>3. /\ Len(logs'[i2]) = Len(logs[i2]) + 1 /\ logs'[i2][Len(logs[i2]) + 1] = e2
    BY <1>1, AppendKept DEF Appends
  <1>4. logs \in [Server -> Seq(Entry)]
    BY DEF TypeOK
  <1>5. Len(logs[i1]) \in Nat
    BY <1>1, <1>4, LastOfSeq
  <1>6. i1 # i2 => logs'[i1] = logs[i1]
    BY <1>1, <1>4 DEF Appends
  <1>7. i1 = i2
    BY <1>2, <1>5, <1>6
  <1> QED
    BY <1>2, <1>3, <1>7

\* An appended entry becomes the last one of its log.
LEMMA AppendsLast ==
    ASSUME NodeInv, NodeInv', NEW i, NEW e, Appends(i, e)
    PROVE  LastLogIndex(i)' = e.index /\ e.index = LastLogIndex(i) + 1
  <1>0. TypeOK /\ LogContiguous /\ TypeOK' /\ LogContiguous'
    BY DEF NodeInv
  <1>1. i \in Server /\ e \in Entry /\ e.index = LastLogIndex(i) + 1 /\ snapIndex' = snapIndex
    BY DEF Appends
  <1>2. Len(logs'[i]) = Len(logs[i]) + 1
    BY <1>0, <1>1, AppendKept DEF Appends
  <1>3. /\ LastLogIndex(i) = snapIndex[i] + Len(logs[i])
        /\ LastLogIndex(i)' = snapIndex'[i] + Len(logs'[i])
        /\ snapIndex[i] \in Nat /\ Len(logs[i]) \in Nat
    BY <1>0, <1>1, LastIndexIsLength, LastIndexIsLengthNext
  <1> QED
    BY <1>1, <1>2, <1>3

\* One winner per term, after the step as well.
LEMMA OneWinnerNext == NodeInv' /\ VoteInv' => ElectionSafety'
  <1>1. NodeInv /\ VoteInv => ElectionSafety
    BY OneWinner DEF NodeInv, VoteInv
  <1> QED
    BY <1>1, PTL

\* A term that is won now was not won before, and nothing was made in it.
LEMMA FreshTerm ==
    ASSUME NodeInv, NodeInv', VoteInv, VoteInv', EntriesWon, NEW r \in rpcs, sendRequestVote(r),
           VoteReplyWins(r)
    PROVE  /\ r.args.from \in Server
           /\ \A w \in won : w.term # currentTerm[r.args.from]
           /\ \A e \in Entry : InSight(e) => e.term # currentTerm[r.args.from]
  <1> DEFINE i == r.args.from
             new == [term |-> currentTerm[i], leader |-> i]
  <1>0. TypeOK
    BY DEF NodeInv
  <1>1. r.kind = "VoteReply" /\ i \in Server
    BY <1>0, RpcKinds DEF sendRequestVote, VoteReplies, VoteRequests
  <1>2. /\ r.term = currentTerm[i] /\ r.granted /\ votedNum[i] + 1 >= Quorum
        /\ won' = won \cup {new}
    BY DEF VoteReplyWins, CountVote
  <1>3. LeaderOnce
    BY NoSecondMajority
  <1>4. votedNum[i] \in Nat /\ Quorum \in Int
    <2>1. votedNum[i] \in Nat
      BY <1>0, <1>1 DEF TypeOK
    <2>2. Cardinality(Server) \in Nat
      BY FS_CardinalityType, ServerFinite
    <2> QED
      BY <2>1, <2>2 DEF Quorum
  <1>5. new \notin won
    BY <1>1, <1>2, <1>3, <1>4 DEF LeaderOnce
  <1>6. ASSUME NEW w \in won, w.term = currentTerm[i]
        PROVE  FALSE
    <2>1. ElectionSafety'
      BY OneWinnerNext
    <2>2. w \in won' /\ new \in won' /\ w.term = new.term
      BY <1>2, <1>6
    <2>3. w = new
      BY <2>1, <2>2 DEF ElectionSafety
    <2> QED
      BY <1>5, <2>3
  <1> QED
    BY <1>1, <1>6 DEF EntriesWon

\* The steps in which nobody wins: a new entry is a leader's next one.
LEMMA EntryInvPlain ==
    ASSUME NodeInv, NodeInv', VoteInv, EntryInv, [Next]_vars, LeadersStay, won' = won
    PROVE  EntryInv'
  <1>0. TypeOK /\ TypeOK'
    BY DEF NodeInv
  <1>1. LeadersWon /\ EntriesWon /\ OwnTermIndexes /\ OneCommand
    BY DEF EntryInv
  <1>2. ElectionSafety
    BY OneWinner DEF NodeInv, VoteInv
  <1>3. ASSUME NEW e, InSight(e)', ~InSight(e)
        PROVE  \E i \in Server : Appends(i, e) /\ status[i] = Leader
    <2>1. Created(e)
      BY <1>3, SightStep
    <2>2. ASSUME NEW r \in rpcs, VoteReplyWins(r), sendRequestVote(r) PROVE FALSE
      <3>1. r.args.from \in Server
        BY <1>0, <2>2, RpcKinds DEF sendRequestVote, VoteReplies, VoteRequests
      <3>2. status[r.args.from] # Leader /\ status'[r.args.from] = Leader
        BY <1>0, <2>2, <3>1 DEF VoteReplyWins, TypeOK
      <3> QED
        BY <3>1, <3>2 DEF LeadersStay
    <2> QED
      BY <2>1, <2>2, CreatedAppends
  <1>4. LeadersWon'
    BY <1>1 DEF LeadersWon, LeadersStay
  <1>5. EntriesWon'
    <2> SUFFICES ASSUME NEW e \in Entry, InSight(e)' PROVE \E w \in won : w.term = e.term
      BY DEF EntriesWon
    <2>1. CASE InSight(e)
      BY <1>1, <2>1 DEF EntriesWon
    <2>2. CASE ~InSight(e)
      <3>1. PICK i \in Server : Appends(i, e) /\ status[i] = Leader
        BY <1>3, <2>2
      <3>2. [term |-> currentTerm[i], leader |-> i] \in won /\ e.term = currentTerm[i]
        BY <1>1, <3>1 DEF LeadersWon, Appends
      <3> QED
        BY <3>2
    <2> QED
      BY <2>1, <2>2
  <1>6. OwnTermIndexes'
    <2> SUFFICES ASSUME NEW i \in Server, status'[i] = Leader,
                        NEW e \in Entry, InSight(e)', e.term = currentTerm'[i]
                 PROVE  e.index <= LastLogIndex(i)'
      BY DEF OwnTermIndexes
    <2>1. status[i] = Leader /\ e.term = currentTerm[i]
      BY DEF LeadersStay
    <2>2. /\ LastLogIndex(i)' >= LastLogIndex(i)
          /\ LastLogIndex(i)' \in Nat /\ LastLogIndex(i) \in Nat /\ e.index \in Nat
      BY LogsGrow DEF Entry
    <2>3. CASE InSight(e)
      <3>1. e.index <= LastLogIndex(i)
        BY <1>1, <2>1, <2>3 DEF OwnTermIndexes
      <3> QED
        BY <2>2, <3>1
    <2>4. CASE ~InSight(e)
      <3>1. PICK j \in Server : Appends(j, e) /\ status[j] = Leader
        BY <1>3, <2>4
      <3>2. e.term = currentTerm[j]
        BY <3>1 DEF Appends
      <3>3. /\ [term |-> currentTerm[i], leader |-> i] \in won
            /\ [term |-> currentTerm[j], leader |-> j] \in won
        BY <1>1, <2>1, <3>1 DEF LeadersWon
      <3>4. i = j
        BY <1>2, <2>1, <3>2, <3>3 DEF ElectionSafety
      <3> QED
        BY <2>2, <3>1, <3>4, AppendsLast
    <2> QED
      BY <2>3, <2>4
  <1>7. OneCommand'
    <2>1. ASSUME NEW e1 \in Entry, NEW e2 \in Entry, InSight(e1)', ~InSight(e1), InSight(e2),
                 e1.index = e2.index, e1.term = e2.term
          PROVE  FALSE
      <3>1. PICK i \in Server : Appends(i, e1) /\ status[i] = Leader
        BY <1>3, <2>1
      <3>2. e1.term = currentTerm[i] /\ e1.index = LastLogIndex(i) + 1
        BY <3>1 DEF Appends
      <3>3. e2.index <= LastLogIndex(i)
        BY <1>1, <2>1, <3>1, <3>2 DEF OwnTermIndexes
      <3>4. LastLogIndex(i) \in Nat
        BY LogsGrow
      <3> QED
        BY <2>1, <3>2, <3>3, <3>4
    <2>2. ASSUME NEW e1, NEW e2, InSight(e1)', ~InSight(e1), InSight(e2)', ~InSight(e2)
          PROVE  e1 = e2
      BY <1>0, <1>3, <2>2, AppendsOnce
    <2>3. ASSUME NEW e1 \in Entry, NEW e2 \in Entry, InSight(e1)', InSight(e2)',
                 e1.index = e2.index, e1.term = e2.term
          PROVE  e1 = e2
      <3>1. CASE InSight(e1) /\ InSight(e2)
        BY <1>1, <2>3, <3>1 DEF OneCommand
      <3>2. CASE ~InSight(e1) /\ InSight(e2)
        BY <2>1, <2>3, <3>2
      <3>3. CASE InSight(e1) /\ ~InSight(e2)
        BY <2>1, <2>3, <3>3
      <3>4. CASE ~InSight(e1) /\ ~InSight(e2)
        BY <2>2, <2>3, <3>4
      <3> QED
        BY <3>1, <3>2, <3>3, <3>4
    <2> QED
      BY <2>3 DEF OneCommand
  <1> QED
    BY <1>4, <1>5, <1>6, <1>7 DEF EntryInv

\* The step that wins a term: its no-op is the first entry of that term.
LEMMA EntryInvWins ==
    ASSUME NodeInv, NodeInv', VoteInv, VoteInv', EntryInv, [Next]_vars,
           NEW r \in rpcs, sendRequestVote(r), VoteReplyWins(r)
    PROVE  EntryInv'
  <1> DEFINE i == r.args.from
             new == [term |-> currentTerm[i], leader |-> i]
             e0 == NewEntry(i, Noop)
  <1>0. TypeOK /\ LogContiguous
    BY DEF NodeInv
  <1>1. LeadersWon /\ EntriesWon /\ OwnTermIndexes /\ OneCommand
    BY DEF EntryInv
  <1>2. /\ i \in Server
        /\ \A w \in won : w.term # currentTerm[i]
        /\ \A e \in Entry : InSight(e) => e.term # currentTerm[i]
    BY <1>1, FreshTerm
  <1>3. /\ status' = [status EXCEPT ![i] = Leader] /\ currentTerm' = currentTerm
        /\ won' = won \cup {new} /\ UNCHANGED snapIndex
        /\ logs' = [logs EXCEPT ![i] = Append(@, e0)]
    BY DEF VoteReplyWins
  <1>4. status \in [Server -> {Follower, Candidate, Leader}]
    BY <1>0 DEF TypeOK
  <1>5. Appends(i, e0)
    <2>1. e0 \in Entry
      BY <1>0, <1>2, NewEntryType
    <2> QED
      BY <1>2, <1>3, <2>1, NewEntryFields DEF Appends
  <1>6. e0.term = currentTerm[i] /\ LastLogIndex(i)' = e0.index
    BY <1>5, AppendsLast DEF Appends
  <1> HIDE DEF i, e0
  <1>7. ASSUME NEW e, InSight(e)', ~InSight(e)
        PROVE  e = e0
    <2>1. \E j : Appends(j, e)
      BY <1>7, SightStep, CreatedAppends
    <2> QED
      BY <1>0, <1>5, <2>1, AppendsOnce
  <1>8. ASSUME NEW j \in Server, j # i, status'[j] = Leader
        PROVE  /\ status[j] = Leader /\ currentTerm[j] # currentTerm[i]
               /\ [term |-> currentTerm[j], leader |-> j] \in won
    <2>1. status[j] = Leader
      BY <1>2, <1>3, <1>4, <1>8
    <2>2. [term |-> currentTerm[j], leader |-> j] \in won
      BY <1>1, <2>1 DEF LeadersWon
    <2> QED
      BY <1>2, <2>1, <2>2
  <1>9. LeadersWon'
    <2> SUFFICES ASSUME NEW j \in Server, status'[j] = Leader
                 PROVE  [term |-> currentTerm'[j], leader |-> j] \in won'
      BY DEF LeadersWon
    <2> QED
      BY <1>3, <1>8
  <1>10. EntriesWon'
    <2> SUFFICES ASSUME NEW e \in Entry, InSight(e)' PROVE \E w \in won' : w.term = e.term
      BY DEF EntriesWon
    <2>1. CASE InSight(e)
      BY <1>1, <1>3, <2>1 DEF EntriesWon
    <2>2. CASE ~InSight(e)
      <3>1. new \in won' /\ new.term = e.term
        BY <1>3, <1>6, <1>7, <2>2
      <3> QED
        BY <3>1
    <2> QED
      BY <2>1, <2>2
  <1>11. OwnTermIndexes'
    <2> SUFFICES ASSUME NEW j \in Server, status'[j] = Leader,
                        NEW e \in Entry, InSight(e)', e.term = currentTerm'[j]
                 PROVE  e.index <= LastLogIndex(j)'
      BY DEF OwnTermIndexes
    <2>1. /\ LastLogIndex(j)' >= LastLogIndex(j)
          /\ LastLogIndex(j)' \in Nat /\ LastLogIndex(j) \in Nat /\ e.index \in Nat
      BY LogsGrow DEF Entry
    <2>2. CASE InSight(e)
      <3>1. j # i
        BY <1>2, <1>3, <2>2
      <3>2. e.index <= LastLogIndex(j)
        BY <1>1, <1>3, <1>8, <2>2, <3>1 DEF OwnTermIndexes
      <3> QED
        BY <2>1, <3>2
    <2>3. CASE ~InSight(e)
      <3>1. e = e0
        BY <1>7, <2>3
      <3>2. j = i
        BY <1>3, <1>6, <1>8, <3>1
      <3> QED
        BY <1>6, <2>1, <3>1, <3>2
    <2> QED
      BY <2>2, <2>3
  <1>12. OneCommand'
    <2> SUFFICES ASSUME NEW e1 \in Entry, NEW e2 \in Entry, InSight(e1)', InSight(e2)',
                        e1.index = e2.index, e1.term = e2.term
                 PROVE  e1 = e2
      BY DEF OneCommand
    <2>1. CASE InSight(e1) /\ InSight(e2)
      BY <1>1, <2>1 DEF OneCommand
    <2>2. CASE ~InSight(e1) /\ InSight(e2)
      BY <1>2, <1>6, <1>7, <2>2
    <2>3. CASE InSight(e1) /\ ~InSight(e2)
      BY <1>2, <1>6, <1>7, <2>3
    <2>4. CASE ~InSight(e1) /\ ~InSight(e2)
      BY <1>7, <2>4
    <2> QED
      BY <2>1, <2>2, <2>3, <2>4
  <1> QED
    BY <1>9, <1>10, <1>11, <1>12 DEF EntryInv

\* The invariant holds in every reachable state.
THEOREM EntryInvariant == Spec => [](NodeInv /\ VoteInv /\ EntryInv)
  <1>1. Init => EntryInv
    <2> SUFFICES ASSUME Init PROVE EntryInv
      OBVIOUS
    <2>1. /\ rpcs = {} /\ applied = {}
          /\ \A i \in Server : logs[i] = <<>> /\ status[i] = Follower
      BY DEF Init
    <2>2. \A e : ~InSight(e)
      BY <2>1 DEF InSight
    <2> QED
      BY <2>1, <2>2 DEF EntryInv, LeadersWon, EntriesWon, OwnTermIndexes, OneCommand,
                        Follower, Leader
  <1>2. NodeInv /\ VoteInv /\ EntryInv /\ [Next]_vars => (NodeInv /\ VoteInv /\ EntryInv)'
    <2> SUFFICES ASSUME NodeInv, VoteInv, EntryInv, [Next]_vars
                 PROVE  NodeInv' /\ VoteInv' /\ EntryInv'
      OBVIOUS
    <2>1. NodeInv' /\ VoteInv'
      BY NextInv, NextVotes
    <2> QED
      BY <2>1, LeaderSteps, EntryInvPlain, EntryInvWins
  <1> QED
    BY <1>1, <1>2, InitInv, InitVotes, PTL DEF Spec

\* The two ways to say which entries are in sight.
LEMMA SightOfEntries ==
    ASSUME TypeOK, NEW e \in EntriesInSight
    PROVE  e \in Entry /\ InSight(e)
  <1>1. \/ \E i \in Server : \E k \in DOMAIN logs[i] : e = logs[i][k]
        \/ \E r \in rpcs : r.kind = "AppendEntries" /\ \E k \in DOMAIN r.entries : e = r.entries[k]
        \/ \E a \in applied : e = a.entry
    <2>1. CASE e \in UNION {{logs[i][k] : k \in DOMAIN logs[i]} : i \in Server}
      <3>1. PICK i \in Server : e \in {logs[i][k] : k \in DOMAIN logs[i]}
        BY <2>1
      <3> QED
        BY <3>1
    <2>2. CASE e \in UNION {{r.entries[k] : k \in DOMAIN r.entries} :
                               r \in {q \in rpcs : q.kind = "AppendEntries"}}
      <3>1. PICK r \in {q \in rpcs : q.kind = "AppendEntries"} :
               e \in {r.entries[k] : k \in DOMAIN r.entries}
        BY <2>2
      <3> QED
        BY <3>1
    <2>3. CASE e \in {a.entry : a \in applied}
      BY <2>3
    <2> QED
      BY <2>1, <2>2, <2>3 DEF EntriesInSight
  <1>2. ASSUME NEW s \in Seq(Entry), NEW k \in DOMAIN s
        PROVE  k \in 1 .. Len(s) /\ s[k] \in Entry
    <2>1. s \in Seq(Entry) /\ k \in DOMAIN s
      BY <1>2
    <2>2. k \in 1 .. Len(s)
      BY <2>1
    <2> QED
      BY <2>1, <2>2
  <1>3. CASE \E i \in Server : \E k \in DOMAIN logs[i] : e = logs[i][k]
    <2>1. PICK i \in Server : \E k \in DOMAIN logs[i] : e = logs[i][k]
      BY <1>3
    <2>2. logs[i] \in Seq(Entry)
      BY DEF TypeOK
    <2> QED
      BY <1>2, <2>1, <2>2 DEF InSight
  <1>4. ASSUME NEW r \in rpcs, r.kind = "AppendEntries", NEW k \in DOMAIN r.entries,
               e = r.entries[k]
        PROVE  e \in Entry /\ InSight(e)
    <2>1. r \in AppendRequests
      BY <1>4, RpcKinds
    <2>2. r.entries \in Seq(Entry)
      BY <2>1 DEF AppendRequests
    <2> QED
      BY <1>2, <1>4, <2>1, <2>2 DEF InSight
  <1>5. ASSUME NEW a \in applied, e = a.entry
        PROVE  e \in Entry /\ InSight(e)
    <2>1. a \in [entry : Entry, at : Nat]
      BY DEF TypeOK
    <2> QED
      BY <1>5, <2>1 DEF InSight
  <1> QED
    BY <1>1, <1>3, <1>4, <1>5

\* Index and term determine the command, in logs, on the wire and in what was
\* applied: the assertion of AppendEntries1 ("same log index and term, but
\* command differs") never fails, with any number of servers, crashes and
\* in-place overwrites.
THEOREM EntriesIdentified == Spec => []EntryIdentity
  <1>1. NodeInv /\ EntryInv => EntryIdentity
    <2> SUFFICES ASSUME NodeInv, EntryInv, NEW e1 \in EntriesInSight, NEW e2 \in EntriesInSight,
                        e1.index = e2.index, e1.term = e2.term
                 PROVE  e1 = e2
      BY DEF EntryIdentity
    <2>1. TypeOK /\ OneCommand
      BY DEF NodeInv, EntryInv
    <2>2. e1 \in Entry /\ InSight(e1) /\ e2 \in Entry /\ InSight(e2)
      BY <2>1, SightOfEntries
    <2> QED
      BY <2>1, <2>2 DEF OneCommand
  <1> QED
    BY <1>1, EntryInvariant, PTL
-----------------------------------------------------------------------------
(***************************************************************************)
(* What the two majorities a leader counts mean.                           *)
(*                                                                         *)
(* A commit (CommitQuorum).  The no-op with which a leader begins is the   *)
(* first entry of its term, and nobody else makes entries of the term, so  *)
(* from that index on its log is the entries of its term, and so is what   *)
(* it sends.  A peer that accepts a heartbeat therefore holds an entry of  *)
(* the term at the index the heartbeat acknowledges, has saved the term,   *)
(* and keeps both: only a call of the same term could replace the entry,   *)
(* and it carries one of the same term.  All heartbeats of a round         *)
(* acknowledge one index and go to different peers; C is the set of peers  *)
(* the round's counter has counted, and the counter is at most |C| + 1.    *)
(*                                                                         *)
(* A ReadIndex (LeadershipConfirmed).  When the call begins, a term t      *)
(* later than the caller's that has been won has the ballots of a majority *)
(* Q.  A server of Q never goes back before t, so it refuses every         *)
(* heartbeat of the call: the confirmations come from a set C outside Q.   *)
(* The call counts every peer once (BeatsOnce), so a majority of           *)
(* confirmations would be a majority C disjoint from the majority Q.       *)
(***************************************************************************)

\* The AppendEntries calls in progress, in either direction, and the arguments
\* a call carries.
Appending == {r \in rpcs : r \in AppendRequests \cup AppendReplies}
Args(r)   == IF r \in AppendReplies THEN r.args ELSE r

\* A call was made by the winner of its term.
CallsWon == \A r \in Appending : [term |-> Args(r).term, leader |-> Args(r).from] \in won

\* A success speaks of the term of its call.
SuccessTerms == \A r \in rpcs : r \in AppendReplies /\ r.success => r.term = r.args.term

\* A leader made the entries from `first' on, and no other server made one of
\* its term: so in its log, and in what it sends, the indexes from `first' on
\* are the entries of its term.
OwnLog(i, first) ==
    /\ \A k \in 1 .. Len(logs[i]) :
          logs[i][k].index >= first <=> logs[i][k].term = currentTerm[i]
    /\ snapIndex[i] >= first => snapTerm[i] = currentTerm[i]

OwnCall(a, first, term) ==
    /\ \A k \in 1 .. Len(a.entries) : a.entries[k].index >= first <=> a.entries[k].term = term
    /\ a.prevIndex >= first => a.prevTerm = term

FirstOfTerm(i, first) ==
    /\ first \in 1 .. LastLogIndex(i)
    /\ OwnLog(i, first)
    /\ \A e \in Entry : InSight(e) /\ e.term = currentTerm[i] => e.index >= first
    /\ \A r \in Appending :
          Args(r).term = currentTerm[i] => OwnCall(Args(r), first, currentTerm[i])

\* Server j holds the entry of a term, and cannot forget that it was in the
\* term, or it is past the term for good.
Confirmed(j, index, term) ==
    \/ disk[j].term > term
    \/ disk[j].term = term /\ Holds(j, index, term)

\* The heartbeats of a leader's term whose thread still waits, and those of a round.
TermCalls(i) ==
    {r \in Appending :
        /\ \/ r \in AppendRequests /\ r.kind = "AppendEntries" /\ r.waiting
           \/ r \in AppendReplies /\ r.kind = "AppendReply"
        /\ Args(r).from = i /\ Args(r).term = currentTerm[i]}

RoundCalls(i, round) == {r \in TermCalls(i) : Args(r).round = round}

\* All calls of a round acknowledge one index; servers C have been counted, and
\* whoever has been counted, or has answered with a success, has confirmed.
Tallied(i, round, first, index, C) ==
    /\ index <= LastLogIndex(i)
    /\ i \notin C
    /\ appendNums[i][round] <= Cardinality(C) + 1
    /\ index >= first => \A j \in C : Confirmed(j, index, currentTerm[i])
    /\ \A r \in RoundCalls(i, round) :
          /\ Acked(Args(r)) = index
          /\ Args(r).to \notin C \cup {i}
          /\ r \in AppendReplies /\ r.success /\ index >= first
               => Confirmed(Args(r).to, index, currentTerm[i])

RoundSound(i, round, first) ==
    /\ \A r1, r2 \in RoundCalls(i, round) : Args(r1).to = Args(r2).to => r1 = r2
    /\ \E index \in Nat, C \in SUBSET Server : Tallied(i, round, first, index, C)

RoundsKnown(i) == \A r \in TermCalls(i) : Args(r).round \in 1 .. Len(appendNums[i])

Leads(i) ==
    \E first \in Nat :
        /\ FirstOfTerm(i, first)
        /\ \A round \in 1 .. Len(appendNums[i]) : RoundSound(i, round, first)

QuorumInv ==
    /\ CallsWon /\ SuccessTerms
    /\ \A i \in Server : status[i] = Leader => RoundsKnown(i) /\ Leads(i)

-----------------------------------------------------------------------------
(***************************************************************************)
(* The calls.                                                              *)
(***************************************************************************)
\* The arguments of a call are an AppendEntries request, in a call and in a reply.
LEMMA ArgsType ==
    ASSUME TypeOK, NEW r \in Appending
    PROVE  /\ Args(r) \in AppendRequests
           /\ r \in AppendRequests => Args(r) = r
           /\ r \in AppendReplies => Args(r) = r.args
           /\ \/ r \in AppendRequests /\ r \notin AppendReplies
              \/ r \in AppendReplies /\ r \notin AppendRequests
  <1>1. r \in AppendRequests => r \notin AppendReplies
    BY RpcTypesDisjoint
  <1>2. r \in AppendReplies => r.args \in AppendRequests
    BY DEF AppendReplies
  <1> QED
    BY <1>1, <1>2 DEF Appending, Args

\* Two calls that differ in nothing but whether their sender still waits.
SameArgs(a, b) ==
    /\ a.from = b.from /\ a.to = b.to /\ a.term = b.term /\ a.round = b.round
    /\ a.prevIndex = b.prevIndex /\ a.prevTerm = b.prevTerm /\ a.entries = b.entries

\* What a call carries after a step it carried before, or a leader made it.
LEMMA NewAppending ==
    ASSUME NodeInv, NodeInv', [Next]_vars, NEW r \in Appending'
    PROVE  \/ FromLeader(Args(r)) /\ r = Args(r)
           \/ \E q \in Appending : SameArgs(Args(r), Args(q))
  <1>0. TypeOK /\ TypeOK'
    BY DEF NodeInv
  <1>1. r \in rpcs' /\ r \in AppendRequests \cup AppendReplies
    BY DEF Appending
  <1>2. CASE r \in rpcs
    BY <1>1, <1>2 DEF Appending, SameArgs
  <1>3. CASE r \notin rpcs
    <2>1. NewCall(r)
      BY <1>1, <1>3, CallSteps
    <2>2. CASE r \in AppendRequests
      <3>1. Args(r) = r
        BY <2>2, RpcTypesDisjoint DEF Args
      <3>2. CASE FromLeader(r)
        BY <3>1, <3>2
      <3>3. ASSUME NEW q \in rpcs, q \in AppendRequests, "waiting" \in DOMAIN q,
                   r = [q EXCEPT !.waiting = FALSE]
            PROVE  \E p \in Appending : SameArgs(Args(r), Args(p))
        <4>1. q \in Rpc
          BY <1>0 DEF TypeOK
        <4>2. SameArgs(r, q)
          BY <3>3, <4>1, AbandonedCall DEF SameArgs
        <4>3. q \in Appending /\ Args(q) = q
          BY <3>3, RpcTypesDisjoint DEF Appending, Args
        <4> QED
          BY <3>1, <4>2, <4>3
      <3> QED
        BY <1>0, <2>1, <2>2, <3>2, <3>3, NewCallOfType
    <2>3. CASE r \in AppendReplies
      <3>1. Answers(r)
        BY <1>0, <2>1, <2>3, NewCallOfType
      <3>2. r.args \in rpcs /\ r.args \in AppendRequests
        BY <3>1 DEF Answers
      <3>3. r.args \in Appending /\ Args(r.args) = r.args /\ Args(r) = r.args
        BY <2>3, <3>2, RpcTypesDisjoint DEF Appending, Args
      <3> QED
        BY <3>3 DEF SameArgs
    <2> QED
      BY <1>1, <2>2, <2>3
  <1> QED
    BY <1>2, <1>3

\* won never shrinks.
LEMMA WonGrows ==
    ASSUME NodeInv, [Next]_vars
    PROVE  won \subseteq won'
  <1>1. \A r \in rpcs : VoteReplyWins(r) => won \subseteq won'
    BY DEF VoteReplyWins
  <1> QED
    BY <1>1, LeaderSteps

LEMMA CallsWonStep ==
    ASSUME NodeInv, NodeInv', EntryInv, CallsWon, [Next]_vars
    PROVE  CallsWon'
  <1> SUFFICES ASSUME NEW r \in Appending'
               PROVE  [term |-> Args(r).term, leader |-> Args(r).from] \in won
    BY WonGrows DEF CallsWon, Args
  <1>1. CASE FromLeader(Args(r))
    <2>1. /\ Args(r) \in AppendRequests
          /\ status[Args(r).from] = Leader /\ Args(r).term = currentTerm[Args(r).from]
      BY <1>1 DEF FromLeader
    <2>2. Args(r).from \in Server
      BY <2>1 DEF AppendRequests
    <2> QED
      BY <2>1, <2>2 DEF EntryInv, LeadersWon
  <1>2. CASE \E q \in Appending : SameArgs(Args(r), Args(q))
    BY <1>2 DEF CallsWon, SameArgs
  <1> QED
    BY <1>1, <1>2, NewAppending

LEMMA SuccessTermsStep ==
    ASSUME NodeInv, NodeInv', SuccessTerms, [Next]_vars
    PROVE  SuccessTerms'
  <1>0. TypeOK
    BY DEF NodeInv
  <1> SUFFICES ASSUME NEW r \in rpcs', r \in AppendReplies, r.success
               PROVE  r.term = r.args.term
    BY DEF SuccessTerms
  <1>1. CASE r \in rpcs
    BY <1>1 DEF SuccessTerms
  <1>2. CASE r \notin rpcs
    <2>1. Answers(r)
      BY <1>0, <1>2, CallSteps, NewCallOfType
    <2> QED
      BY <2>1 DEF Answers
  <1> QED
    BY <1>1, <1>2

-----------------------------------------------------------------------------
(***************************************************************************)
(* What a leader's log and calls hold.                                     *)
(***************************************************************************)
\* From `first' on, a leader's log has the leader's term.
LEMMA OwnTerms ==
    ASSUME NodeInv, NEW i \in Server, NEW first \in Nat, OwnLog(i, first), NEW index \in Nat,
           index >= first, index >= snapIndex[i], index <= LastLogIndex(i)
    PROVE  LogTerm(i, index) = currentTerm[i]
  <1>0. TypeOK /\ LogContiguous
    BY DEF NodeInv
  <1>1. /\ LastLogIndex(i) = snapIndex[i] + Len(logs[i])
        /\ Len(logs[i]) \in Nat /\ snapIndex[i] \in Nat
    BY <1>0, LastIndexIsLength
  <1>2. CASE index = snapIndex[i]
    BY <1>2 DEF LogTerm, OwnLog
  <1>3. CASE index # snapIndex[i]
    <2>1. Slice(i, index) \in 1 .. Len(logs[i]) /\ snapIndex[i] + Slice(i, index) = index
      BY <1>1, <1>3 DEF Slice
    <2>2. logs[i][Slice(i, index)].index = index
      BY <1>0, <2>1 DEF LogContiguous
    <2> QED
      BY <1>3, <2>1, <2>2 DEF LogTerm, OwnLog
  <1> QED
    BY <1>2, <1>3

\* A leader appends, or moves its snapshot boundary, or leaves its log alone.
LEMMA LeaderLogStep ==
    ASSUME NodeInv, NodeInv', [Next]_vars, NEW i \in Server,
           status[i] = Leader, status'[i] = Leader
    PROVE  \/ logs'[i] = logs[i] /\ snapIndex'[i] = snapIndex[i] /\ snapTerm'[i] = snapTerm[i]
           \/ \E e : Appends(i, e) /\ snapTerm' = snapTerm
           \/ \E index \in 1 .. MaxSnapIndex : Snapshot(i, index)
  <1> DEFINE Same == /\ logs'[i] = logs[i] /\ snapIndex'[i] = snapIndex[i]
                     /\ snapTerm'[i] = snapTerm[i]
  <1>0. TypeOK /\ LogContiguous
    BY DEF NodeInv
  <1>00. /\ logs \in [Server -> Seq(Entry)] /\ snapIndex \in [Server -> Nat]
         /\ snapTerm \in [Server -> Nat] /\ status \in [Server -> {Follower, Candidate, Leader}]
    BY <1>0 DEF TypeOK
  <1>1. CASE UNCHANGED <<logVars, applyVars, applied, won, restarts>>
    BY <1>1 DEF logVars
  <1>2. ASSUME NEW j \in Server, NEW command \in Command, Start(j, command)
        PROVE  Same \/ \E e : Appends(i, e) /\ snapTerm' = snapTerm
    <2>1. /\ logs' = [logs EXCEPT ![j] = Append(@, NewEntry(j, command))]
          /\ UNCHANGED <<snapIndex, snapTerm, currentTerm>>
      BY <1>2 DEF Start, serverVars
    <2>2. CASE i # j
      BY <1>00, <2>1, <2>2
    <2>3. CASE i = j
      <3>1. NewEntry(i, command) \in Entry
        BY <1>0, NewEntryType
      <3>2. Appends(i, NewEntry(i, command))
        BY <2>1, <2>3, <3>1, NewEntryFields DEF Appends
      <3> QED
        BY <2>1, <3>2
    <2> QED
      BY <2>2, <2>3
  <1>3. ASSUME NEW j \in Server, NEW index \in 1 .. MaxSnapIndex, Snapshot(j, index), i # j
        PROVE  Same
    BY <1>00, <1>3 DEF Snapshot
  <1>4. ASSUME NEW j \in Server, applierTicker(j)
        PROVE  Same
    BY <1>4 DEF applierTicker, logVars
  <1>5. ASSUME NEW j \in Server, Restart(j)
        PROVE  Same
    <2>1. /\ status' = [status EXCEPT ![j] = Follower]
          /\ logs' = [logs EXCEPT ![j] = disk[j].log]
          /\ snapIndex' = [snapIndex EXCEPT ![j] = disk[j].snapIndex]
          /\ snapTerm' = [snapTerm EXCEPT ![j] = disk[j].snapTerm]
      BY <1>5 DEF Restart
    <2>2. i # j
      BY <1>00, <2>1 DEF Follower, Leader
    <2> QED
      BY <1>00, <2>1, <2>2
  <1>6. ASSUME NEW r \in rpcs, sendRequestVote(r), VoteReplyWins(r)
        PROVE  Same
    <2>1. /\ status[r.args.from] # Leader /\ UNCHANGED <<snapIndex, snapTerm>>
          /\ logs' = [logs EXCEPT ![r.args.from] = Append(@, NewEntry(r.args.from, Noop))]
      BY <1>6 DEF VoteReplyWins
    <2> QED
      BY <1>00, <2>1
  <1>7. ASSUME NEW r \in rpcs,
               \/ AppendEntries1(r) /\ AppendEntriesMatch(r)
               \/ InstallSnapshot(r) /\ InstallNew(r)
        PROVE  Same
    <2>1. r.to \in Server
      BY <1>0, <1>7, RpcKinds DEF AppendEntries1, InstallSnapshot, AppendRequests, SnapshotRequests
    <2>2. FollowSender(r)
      BY <1>7 DEF AppendEntriesMatch, InstallNew
    <2>3. i # r.to
      BY <1>0, <2>1, <2>2, FollowSenderLeaders DEF Follower, Leader
    <2>4. CASE AppendEntriesMatch(r)
      BY <1>00, <2>3, <2>4 DEF AppendEntriesMatch
    <2>5. CASE InstallNew(r)
      BY <1>00, <2>3, <2>5 DEF InstallNew
    <2> QED
      BY <1>7, <2>4, <2>5
  <1>8. ASSUME NEW r \in rpcs, sendAppendEntries(r), AppendReplySuccess(r)
        PROVE  Same
    BY <1>8 DEF AppendReplySuccess, logVars
  <1> QED
    BY <1>0, <1>1, <1>2, <1>3, <1>4, <1>5, <1>6, <1>7, <1>8, LogSteps

\* What a leader's log holds of its term, it goes on to hold.
LEMMA OwnLogStep ==
    ASSUME NodeInv, NodeInv', [Next]_vars, NEW i \in Server, NEW first \in Nat,
           status[i] = Leader, status'[i] = Leader, currentTerm'[i] = currentTerm[i],
           OwnLog(i, first), first \in 1 .. LastLogIndex(i)
    PROVE  OwnLog(i, first)'
  <1>0. TypeOK /\ LogContiguous /\ IndexOrder
    BY DEF NodeInv
  <1>1. /\ LastLogIndex(i) = snapIndex[i] + Len(logs[i]) /\ LastLogIndex(i) \in Nat
        /\ Len(logs[i]) \in Nat /\ snapIndex[i] \in Nat /\ logs[i] \in Seq(Entry)
    BY <1>0, LastIndexIsLength
  <1>2. CASE logs'[i] = logs[i] /\ snapIndex'[i] = snapIndex[i] /\ snapTerm'[i] = snapTerm[i]
    BY <1>2 DEF OwnLog
  <1>3. ASSUME NEW e, Appends(i, e), snapTerm' = snapTerm
        PROVE  OwnLog(i, first)'
    <2>1. /\ Len(logs'[i]) = Len(logs[i]) + 1 /\ logs'[i][Len(logs[i]) + 1] = e
          /\ \A k \in 1 .. Len(logs[i]) : logs'[i][k] = logs[i][k]
          /\ e.term = currentTerm[i] /\ e.index = LastLogIndex(i) + 1 /\ snapIndex' = snapIndex
      BY <1>0, <1>3, AppendKept DEF Appends
    <2>2. ASSUME NEW k \in 1 .. Len(logs'[i])
          PROVE  logs'[i][k].index >= first <=> logs'[i][k].term = currentTerm[i]
      <3>1. CASE k \in 1 .. Len(logs[i])
        BY <2>1, <3>1 DEF OwnLog
      <3>2. CASE k = Len(logs[i]) + 1
        BY <1>1, <2>1, <3>2
      <3> QED
        BY <1>1, <2>1, <3>1, <3>2
    <2> QED
      BY <1>3, <2>1, <2>2 DEF OwnLog
  <1>4. ASSUME NEW index \in 1 .. MaxSnapIndex, Snapshot(i, index)
        PROVE  OwnLog(i, first)'
    <2>1. /\ snapIndex[i] < index /\ index <= commitIndex[i]
          /\ snapIndex'[i] = index /\ snapTerm'[i] = LogTerm(i, index)
          /\ logs'[i] = DropPrefix(i, index)
      BY <1>0, <1>4 DEF Snapshot, TypeOK
    <2>2. index \in Nat /\ index >= snapIndex[i] /\ index <= LastLogIndex(i)
      <3>1. commitIndex[i] <= LastLogIndex(i) /\ commitIndex[i] \in Nat
        BY <1>0 DEF IndexOrder, TypeOK
      <3> QED
        BY <1>1, <2>1, <3>1, BoundsAreNat
    <2>3. index >= first => snapTerm'[i] = currentTerm[i]
      BY <2>1, <2>2, OwnTerms
    <2>4. /\ Len(DropPrefix(i, index)) = LastLogIndex(i) - index
          /\ \A m \in 1 .. LastLogIndex(i) - index :
                DropPrefix(i, index)[m] = logs[i][index - snapIndex[i] + m]
      BY <1>0, <2>2, DropPrefixProperties
    <2>5. ASSUME NEW k \in 1 .. Len(logs'[i])
          PROVE  logs'[i][k].index >= first <=> logs'[i][k].term = currentTerm[i]
      <3>1. k \in 1 .. LastLogIndex(i) - index /\ index - snapIndex[i] + k \in 1 .. Len(logs[i])
        BY <1>1, <2>1, <2>2, <2>4, <2>5
      <3>2. logs'[i][k] = logs[i][index - snapIndex[i] + k]
        BY <2>1, <2>4, <3>1
      <3> QED
        BY <3>1, <3>2 DEF OwnLog
    <2> QED
      BY <2>1, <2>3, <2>5 DEF OwnLog
  <1> QED
    BY <1>2, <1>3, <1>4, LeaderLogStep

\* What a leader sends is what its log holds.
LEMMA OwnCallSent ==
    ASSUME NodeInv, NEW a, FromLeader(a), NEW first \in Nat, OwnLog(a.from, first)
    PROVE  OwnCall(a, first, currentTerm[a.from])
  <1> DEFINE i == a.from
  <1>0. TypeOK /\ LogContiguous
    BY DEF NodeInv
  <1>1. /\ i \in Server /\ a.prevIndex \in Nat
        /\ a.prevIndex >= snapIndex[i] /\ a.prevIndex <= LastLogIndex(i)
        /\ a.prevTerm = LogTerm(i, a.prevIndex)
        /\ a.entries = DropPrefix(i, a.prevIndex) \/ a.entries = <<>>
    BY DEF FromLeader, AppendRequests
  <1>2. /\ LastLogIndex(i) = snapIndex[i] + Len(logs[i])
        /\ Len(logs[i]) \in Nat /\ snapIndex[i] \in Nat
    BY <1>0, <1>1, LastIndexIsLength
  <1>3. a.prevIndex >= first => a.prevTerm = currentTerm[i]
    BY <1>1, OwnTerms
  <1>4. ASSUME NEW k \in 1 .. Len(a.entries)
        PROVE  a.entries[k].index >= first <=> a.entries[k].term = currentTerm[i]
    <2>1. CASE a.entries = <<>>
      BY <1>4, <2>1
    <2>2. CASE a.entries = DropPrefix(i, a.prevIndex)
      <3>1. /\ Len(DropPrefix(i, a.prevIndex)) = LastLogIndex(i) - a.prevIndex
            /\ \A m \in 1 .. LastLogIndex(i) - a.prevIndex :
                  DropPrefix(i, a.prevIndex)[m] = logs[i][a.prevIndex - snapIndex[i] + m]
        BY <1>0, <1>1, DropPrefixProperties
      <3>2. /\ k \in 1 .. LastLogIndex(i) - a.prevIndex
            /\ a.prevIndex - snapIndex[i] + k \in 1 .. Len(logs[i])
        BY <1>1, <1>2, <1>4, <2>2, <3>1
      <3>3. a.entries[k] = logs[i][a.prevIndex - snapIndex[i] + k]
        BY <2>2, <3>1, <3>2
      <3> QED
        BY <3>2, <3>3 DEF OwnLog
    <2> QED
      BY <1>1, <2>1, <2>2
  <1> QED
    BY <1>3, <1>4 DEF OwnCall

\* Only the leader of a term makes entries of it.
LEMMA OwnMaker ==
    ASSUME NodeInv, NodeInv', VoteInv, VoteInv', EntryInv, [Next]_vars,
           NEW i \in Server, status[i] = Leader,
           NEW e \in Entry, InSight(e)', ~InSight(e), e.term = currentTerm[i]
    PROVE  e.index > LastLogIndex(i)
  <1>0. TypeOK /\ LogContiguous /\ LeadersWon /\ EntriesWon /\ ElectionSafety
    BY OneWinner DEF NodeInv, VoteInv, EntryInv
  <1>1. [term |-> currentTerm[i], leader |-> i] \in won
    BY <1>0 DEF LeadersWon
  <1>2. Created(e)
    BY SightStep
  <1>3. ASSUME NEW r \in rpcs, sendRequestVote(r), VoteReplyWins(r), Appends(r.args.from, e)
        PROVE  FALSE
    <2>1. \A w \in won : w.term # currentTerm[r.args.from]
      BY <1>0, <1>3, FreshTerm
    <2>2. e.term = currentTerm[r.args.from]
      BY <1>3 DEF Appends
    <2> QED
      BY <1>1, <2>1, <2>2
  <1>4. PICK j \in Server : Appends(j, e) /\ status[j] = Leader
    BY <1>2, <1>3, CreatedAppends
  <1>5. e.term = currentTerm[j] /\ e.index = LastLogIndex(j) + 1
    BY <1>4 DEF Appends
  <1>6. [term |-> currentTerm[j], leader |-> j] \in won
    BY <1>0, <1>4 DEF LeadersWon
  <1>7. i = j
    BY <1>0, <1>1, <1>5, <1>6 DEF ElectionSafety
  <1>8. LastLogIndex(i) \in Nat
    BY <1>0, LastIndexIsLength
  <1> QED
    BY <1>5, <1>7, <1>8

\* A leader keeps its first entry, and its term's entries come after it.
LEMMA FirstOfTermStep ==
    ASSUME NodeInv, NodeInv', VoteInv, VoteInv', EntryInv, [Next]_vars,
           NEW i \in Server, NEW first \in Nat, FirstOfTerm(i, first),
           status[i] = Leader, status'[i] = Leader, currentTerm'[i] = currentTerm[i]
    PROVE  FirstOfTerm(i, first)'
  <1>0. TypeOK /\ TypeOK' /\ LeadersWon /\ ElectionSafety
    BY OneWinner DEF NodeInv, VoteInv, EntryInv
  <1>1. first \in 1 .. LastLogIndex(i) /\ OwnLog(i, first)
    BY DEF FirstOfTerm
  <1>2. first \in 1 .. LastLogIndex(i)'
    <2>1. LastLogIndex(i)' >= LastLogIndex(i) /\ LastLogIndex(i)' \in Nat /\ LastLogIndex(i) \in Nat
      BY LogsGrow
    <2> QED
      BY <1>1, <2>1
  <1>3. OwnLog(i, first)'
    BY <1>1, OwnLogStep
  <1>4. ASSUME NEW e \in Entry, InSight(e)', e.term = currentTerm'[i]
        PROVE  e.index >= first
    <2>1. CASE InSight(e)
      BY <1>4, <2>1 DEF FirstOfTerm
    <2>2. CASE ~InSight(e)
      <3>1. e.index > LastLogIndex(i)
        BY <1>4, <2>2, OwnMaker
      <3>2. LastLogIndex(i) \in Nat /\ e.index \in Nat
        BY LogsGrow DEF Entry
      <3> QED
        BY <1>1, <3>1, <3>2
    <2> QED
      BY <2>1, <2>2
  <1>5. ASSUME NEW r \in Appending', Args(r).term = currentTerm'[i]
        PROVE  OwnCall(Args(r), first, currentTerm'[i])
    <2> DEFINE a == Args(r)
    <2>1. CASE FromLeader(a)
      <3>1. a.from \in Server /\ status[a.from] = Leader /\ a.term = currentTerm[a.from]
        BY <2>1 DEF FromLeader, AppendRequests
      <3>2. a.from = i
        <4>1. /\ [term |-> currentTerm[a.from], leader |-> a.from] \in won
              /\ [term |-> currentTerm[i], leader |-> i] \in won
          BY <1>0, <3>1 DEF LeadersWon
        <4> QED
          BY <1>0, <1>5, <3>1, <4>1 DEF ElectionSafety
      <3> HIDE DEF a
      <3>3. OwnCall(a, first, currentTerm[a.from])
        BY <1>1, <2>1, <3>2, OwnCallSent
      <3> QED
        BY <3>2, <3>3 DEF a
    <2>2. CASE \E q \in Appending : SameArgs(a, Args(q))
      <3>1. PICK q \in Appending : SameArgs(a, Args(q))
        BY <2>2
      <3>2. OwnCall(Args(q), first, currentTerm[i])
        BY <1>5, <3>1 DEF SameArgs, FirstOfTerm
      <3> QED
        BY <3>1, <3>2 DEF SameArgs, OwnCall
    <2> QED
      BY <2>1, <2>2, NewAppending
  <1>6. \A r \in Appending' : Args(r)' = Args(r)
    BY DEF Args
  <1> QED
    BY <1>2, <1>3, <1>4, <1>5, <1>6 DEF FirstOfTerm

\* The winner's no-op is the first entry of its term.
LEMMA FirstOfTermWon ==
    ASSUME NodeInv, NodeInv', VoteInv, VoteInv', EntryInv, CallsWon, [Next]_vars,
           NEW r \in rpcs, sendRequestVote(r), VoteReplyWins(r)
    PROVE  /\ r.args.from \in Server
           /\ \E first \in Nat : FirstOfTerm(r.args.from, first)'
  <1> DEFINE i == r.args.from
             e0 == NewEntry(i, Noop)
  <1>0. TypeOK /\ LogContiguous /\ EntriesWon
    BY DEF NodeInv, EntryInv
  <1>1. /\ i \in Server
        /\ \A w \in won : w.term # currentTerm[i]
        /\ \A e \in Entry : InSight(e) => e.term # currentTerm[i]
    BY <1>0, FreshTerm
  <1>2. /\ currentTerm' = currentTerm /\ UNCHANGED <<snapIndex, snapTerm>>
        /\ logs' = [logs EXCEPT ![i] = Append(@, e0)] /\ rpcs' = rpcs \ {r}
    BY DEF VoteReplyWins, sendRequestVote, Consume
  <1>3. /\ LastLogIndex(i) = snapIndex[i] + Len(logs[i]) /\ LastLogIndex(i) \in Nat
        /\ Len(logs[i]) \in Nat /\ snapIndex[i] \in Nat /\ logs[i] \in Seq(Entry)
    BY <1>0, <1>1, LastIndexIsLength
  <1>12. PICK first \in Nat : first = LastLogIndex(i) + 1
    BY <1>3
  <1>4. Appends(i, e0)
    <2>1. e0 \in Entry
      BY <1>0, <1>1, NewEntryType
    <2> QED
      BY <1>1, <1>2, <2>1, NewEntryFields DEF Appends
  <1>5. /\ e0.term = currentTerm[i] /\ LastLogIndex(i)' = first /\ e0.index = first
        /\ e0 \in Entry
    BY <1>4, <1>12, AppendsLast DEF Appends
  <1>01. \A e \in Entry : InSight(e) => e.term # currentTerm[i]
    BY <1>1
  <1> HIDE DEF i, e0
  <1>6. /\ Len(logs'[i]) = Len(logs[i]) + 1 /\ logs'[i][Len(logs[i]) + 1] = e0
        /\ \A k \in 1 .. Len(logs[i]) : logs'[i][k] = logs[i][k]
    BY <1>0, <1>1, <1>2, <1>5, AppendKept
  <1>7. first \in 1 .. LastLogIndex(i)'
    BY <1>3, <1>5, <1>12
  <1>8. OwnLog(i, first)'
    <2>1. ASSUME NEW k \in 1 .. Len(logs'[i])
          PROVE  logs'[i][k].index >= first <=> logs'[i][k].term = currentTerm[i]
      <3>1. CASE k \in 1 .. Len(logs[i])
        <4>1. logs[i][k].index = snapIndex[i] + k
          BY <1>0, <1>1, <3>1 DEF LogContiguous
        <4>2. InSight(logs[i][k]) /\ logs[i][k] \in Entry
          BY <1>1, <1>3, <3>1, InLog, EntryAt
        <4>3. logs[i][k].term # currentTerm[i]
          BY <1>01, <4>2
        <4>4. ~(logs[i][k].index >= first)
          BY <1>3, <1>12, <3>1, <4>1
        <4> QED
          BY <1>6, <3>1, <4>3, <4>4
      <3>2. CASE k = Len(logs[i]) + 1
        BY <1>3, <1>5, <1>6, <3>2
      <3> QED
        BY <1>3, <1>6, <3>1, <3>2
    <2>2. ~(snapIndex[i] >= first)
      BY <1>3, <1>12
    <2> QED
      BY <1>2, <2>1, <2>2 DEF OwnLog
  <1>9. ASSUME NEW e \in Entry, InSight(e)', e.term = currentTerm[i]
        PROVE  e.index >= first
    <2>1. Created(e)
      BY <1>1, <1>9, SightStep
    <2>2. \E j : Appends(j, e)
      BY <2>1, CreatedAppends
    <2>3. e = e0
      BY <1>0, <1>4, <2>2, AppendsOnce
    <2> QED
      BY <1>3, <1>5, <2>3
  <1>10. ASSUME NEW q \in Appending', Args(q).term = currentTerm[i]
         PROVE  FALSE
    <2>1. q \in Appending
      BY <1>2 DEF Appending
    <2>2. [term |-> Args(q).term, leader |-> Args(q).from] \in won
      BY <2>1 DEF CallsWon
    <2> QED
      BY <1>1, <1>10, <2>2
  <1>11. \A q \in Appending' : Args(q)' = Args(q)
    BY DEF Args
  <1>13. FirstOfTerm(i, first)'
    BY <1>2, <1>7, <1>8, <1>9, <1>10, <1>11 DEF FirstOfTerm
  <1> QED
    BY <1>1, <1>13 DEF i

-----------------------------------------------------------------------------
(***************************************************************************)
(* What has been confirmed stays confirmed.                                *)
(***************************************************************************)
\* A save never stores an older term than the one in memory.
LEMMA DiskSteps ==
    ASSUME TypeOK, [Next]_vars
    PROVE  \/ disk' = disk
           \/ \E i \in Server : Persist(i) /\ currentTerm'[i] >= currentTerm[i]
  <1>0. currentTerm \in [Server -> Nat]
    BY DEF TypeOK
  <1>1. CASE UNCHANGED vars
    BY <1>1 DEF vars
  <1>2. ASSUME NEW i \in Server,
               \/ doHeartBeat(i) \/ applierTicker(i) \/ Restart(i)
               \/ ReadIndex(i) \/ ReadIndexReturn(i) \/ WaitForApplied(i)
               \/ \E j \in Server : ReadIndexBeat(i, j)
        PROVE  disk' = disk
    BY <1>2 DEF doHeartBeat, applierTicker, Restart, ReadIndex, ReadIndexReturn, WaitForApplied,
                ReadIndexBeat
  <1>3. ASSUME NEW i \in Server,
               \/ doElection(i)
               \/ \E command \in Command : Start(i, command)
               \/ \E index \in 1 .. MaxSnapIndex : Snapshot(i, index)
        PROVE  Persist(i) /\ currentTerm'[i] >= currentTerm[i]
    <2>1. Persist(i)
      BY <1>3 DEF doElection, Start, Snapshot
    <2>2. currentTerm' = currentTerm \/ currentTerm' = [currentTerm EXCEPT ![i] = @ + 1]
      BY <1>3 DEF doElection, Start, Snapshot, serverVars
    <2> QED
      BY <1>0, <2>1, <2>2
  <1>4. ASSUME NEW r \in rpcs, RequestVote(r)
        PROVE  \E i \in Server : Persist(i) /\ currentTerm'[i] >= currentTerm[i]
    <2>1. r.to \in Server /\ r.term \in Nat
      BY <1>4, RpcKinds DEF RequestVote, VoteRequests
    <2>2. /\ Persist(r.to)
          /\ currentTerm' = [currentTerm EXCEPT ![r.to] = Maximum(r.term, currentTerm[r.to])]
      BY <1>4 DEF RequestVote
    <2> QED
      BY <1>0, <2>1, <2>2 DEF Maximum
  <1>5. ASSUME NEW r \in rpcs, sendRequestVote(r)
        PROVE  \/ disk' = disk
               \/ \E i \in Server : Persist(i) /\ currentTerm'[i] >= currentTerm[i]
    <2>1. r.args.from \in Server /\ r.term \in Nat
      BY <1>5, RpcKinds DEF sendRequestVote, VoteReplies, VoteRequests
    <2>2. CASE VoteReplyNewer(r)
      BY <1>0, <2>1, <2>2 DEF VoteReplyNewer, StepDown
    <2>3. CASE VoteReplyIgnored(r) \/ VoteReplyCounted(r)
      BY <2>3 DEF VoteReplyIgnored, VoteReplyCounted
    <2>4. CASE VoteReplyWins(r)
      BY <1>0, <2>1, <2>4 DEF VoteReplyWins
    <2> QED
      BY <1>5, <2>2, <2>3, <2>4 DEF sendRequestVote
  <1>6. ASSUME NEW r \in rpcs, r.to \in Server, r.term \in Nat, FollowSender(r),
               Persist(r.to) \/ disk' = disk
        PROVE  \/ disk' = disk
               \/ \E i \in Server : Persist(i) /\ currentTerm'[i] >= currentTerm[i]
    BY <1>0, <1>6 DEF FollowSender
  <1>7. ASSUME NEW r \in rpcs, AppendEntries1(r)
        PROVE  \/ disk' = disk
               \/ \E i \in Server : Persist(i) /\ currentTerm'[i] >= currentTerm[i]
    <2>1. r.to \in Server /\ r.term \in Nat
      BY <1>7, RpcKinds DEF AppendEntries1, AppendRequests
    <2>2. \/ disk' = disk
          \/ FollowSender(r) /\ Persist(r.to)
      BY <1>7 DEF AppendEntries1, AppendEntriesStale, AppendEntriesMismatch, AppendEntriesMatch
    <2> QED
      BY <1>6, <2>1, <2>2
  <1>8. ASSUME NEW r \in rpcs, InstallSnapshot(r)
        PROVE  \/ disk' = disk
               \/ \E i \in Server : Persist(i) /\ currentTerm'[i] >= currentTerm[i]
    <2>1. r.to \in Server /\ r.term \in Nat
      BY <1>8, RpcKinds DEF InstallSnapshot, SnapshotRequests
    <2>2. \/ disk' = disk
          \/ FollowSender(r) /\ Persist(r.to)
      BY <1>8 DEF InstallSnapshot, InstallStale, InstallOutdated, InstallNew
    <2> QED
      BY <1>6, <2>1, <2>2
  <1>9. ASSUME NEW r \in rpcs, leaderSendSnapShotReply(r)
        PROVE  \/ disk' = disk
               \/ \E i \in Server : Persist(i) /\ currentTerm'[i] >= currentTerm[i]
    <2>1. r.args.from \in Server /\ r.term \in Nat
      BY <1>9, RpcKinds DEF leaderSendSnapShotReply, SnapshotReplies, SnapshotRequests
    <2>2. CASE SnapshotReplyNewer(r)
      BY <1>0, <2>1, <2>2 DEF SnapshotReplyNewer, StepDown
    <2> QED
      BY <1>9, <2>2 DEF leaderSendSnapShotReply, SnapshotReplyIgnored, SnapshotReplyInstalled
  <1>10. ASSUME NEW r \in rpcs,
                sendAppendEntries(r) \/ leaderSendSnapShot(r) \/ ReadIndexConfirm(r)
         PROVE  disk' = disk
    BY <1>10 DEF sendAppendEntries, AppendReplyNewer, AppendReplyIgnored, AppendReplyConflict,
                 AppendReplySuccess, leaderSendSnapShot, ReadIndexConfirm
  <1> QED
    BY <1>1, <1>2, <1>3, <1>4, <1>5, <1>7, <1>8, <1>9, <1>10 DEF Next

\* The term on a disk never goes back.
LEMMA DiskTermsGrow ==
    ASSUME NodeInv, NodeInv', [Next]_vars, NEW j \in Server
    PROVE  disk'[j].term >= disk[j].term /\ disk'[j].term \in Nat /\ disk[j].term \in Nat
  <1>0. TypeOK /\ TypeOK' /\ DiskCurrent
    BY DEF NodeInv
  <1>1. disk[j].term \in Nat /\ disk'[j].term \in Nat
    BY <1>0 DEF TypeOK, DiskState
  <1>2. ASSUME NEW i \in Server, Persist(i), currentTerm'[i] >= currentTerm[i]
        PROVE  disk'[j].term >= disk[j].term
    <2>1. disk \in [Server -> DiskState] /\ currentTerm[i] \in Nat /\ currentTerm'[i] \in Nat
      BY <1>0 DEF TypeOK
    <2>2. CASE i = j
      <3>1. disk'[i].term = currentTerm'[i]
        BY <1>2, <2>1 DEF Persist, PersistData
      <3>2. disk[i].term <= currentTerm[i]
        BY <1>0, <1>1, <2>1, <2>2 DEF DiskCurrent
      <3> QED
        BY <1>1, <1>2, <2>1, <2>2, <3>1, <3>2
    <2>3. CASE i # j
      BY <1>1, <1>2, <2>1, <2>3 DEF Persist
    <2> QED
      BY <2>2, <2>3
  <1> QED
    BY <1>0, <1>1, <1>2, DiskSteps

\* A server that keeps its entries holds what it held.
LEMMA HoldsKept ==
    ASSUME NodeInv, NodeInv', NEW j \in Server, Kept(j), snapIndex'[j] >= snapIndex[j],
           LastLogIndex(j)' >= LastLogIndex(j),
           NEW index \in Nat, NEW term \in Nat, Holds(j, index, term)
    PROVE  Holds(j, index, term)'
  <1>0. TypeOK /\ LogContiguous /\ TypeOK' /\ LogContiguous'
    BY DEF NodeInv
  <1>1. /\ LastLogIndex(j) = snapIndex[j] + Len(logs[j]) /\ Len(logs[j]) \in Nat
        /\ LastLogIndex(j)' = snapIndex'[j] + Len(logs'[j]) /\ Len(logs'[j]) \in Nat
        /\ snapIndex[j] \in Nat /\ snapIndex'[j] \in Nat
    BY <1>0, LastIndexIsLength, LastIndexIsLengthNext
  <1>2. CASE index <= snapIndex'[j]
    BY <1>2 DEF Holds
  <1>3. CASE index > snapIndex'[j]
    <2>1. index > snapIndex[j] /\ index # snapIndex'[j] /\ index # snapIndex[j]
      BY <1>1, <1>3
    <2>2. index <= LastLogIndex(j) /\ LogTerm(j, index) = term
      BY <1>1, <2>1 DEF Holds
    <2>3. PICK k \in 1 .. Len(logs[j]) : snapIndex[j] + k = index /\ k = index - snapIndex[j]
      <3>1. index - snapIndex[j] \in 1 .. Len(logs[j])
        BY <1>1, <2>1, <2>2
      <3> QED
        BY <1>1, <3>1
    <2>4. logs'[j][index - snapIndex'[j]] = logs[j][k]
      <3>1. snapIndex[j] + k > snapIndex'[j]
        BY <1>3, <2>3
      <3>2. logs'[j][snapIndex[j] + k - snapIndex'[j]] = logs[j][k]
        BY <3>1 DEF Kept
      <3>3. snapIndex[j] + k - snapIndex'[j] = index - snapIndex'[j]
        BY <1>1, <2>3
      <3> QED
        BY <3>2, <3>3
    <2>5. logs[j][k].term = term
      BY <2>1, <2>2, <2>3 DEF LogTerm, Slice
    <2>6. LogTerm(j, index)' = logs'[j][index - snapIndex'[j]].term
      BY <2>1 DEF LogTerm, Slice
    <2>7. index <= LastLogIndex(j)'
      BY <1>1, <2>2
    <2> QED
      BY <2>4, <2>5, <2>6, <2>7 DEF Holds
  <1> QED
    BY <1>1, <1>2, <1>3

\* A merge leaves an entry of the sender's term where one was: what it puts in
\* its place has the index, so the term.
LEMMA HoldsMerged ==
    ASSUME NodeInv, NodeInv', NEW r \in rpcs, AppendEntries1(r), AppendEntriesMatch(r),
           NEW first \in Nat, OwnCall(r, first, r.term),
           NEW index \in Nat, index >= first, Holds(r.to, index, r.term)
    PROVE  Holds(r.to, index, r.term)'
  <1> DEFINE j == r.to
             from == Slice(j, r.prevIndex)
  <1>0. TypeOK /\ LogContiguous /\ RpcBounds
    BY DEF NodeInv
  <1>1. r \in AppendRequests
    BY <1>0, RpcKinds DEF AppendEntries1
  <1>2. j \in Server /\ r.prevIndex \in Nat /\ r.entries \in Seq(Entry)
    BY <1>1 DEF AppendRequests
  <1>3. /\ LastLogIndex(j)' >= LastLogIndex(j)
        /\ logs'[j] = MergeEntries(logs[j], from, r.entries)
        /\ from \in Nat /\ from <= Len(logs[j]) /\ r.prevIndex = snapIndex[j] + from
    BY <1>2, MergedIsLonger
  <1>4. snapIndex' = snapIndex
    BY DEF AppendEntriesMatch
  <1>5. /\ LastLogIndex(j) = snapIndex[j] + Len(logs[j]) /\ snapIndex[j] \in Nat
        /\ Len(logs[j]) \in Nat /\ logs[j] \in Seq(Entry) /\ Len(r.entries) \in Nat
    BY <1>0, <1>2, LastIndexIsLength, LastOfSeq
  <1>6. LastLogIndex(j)' \in Nat
    BY <1>2, LastIndexIsLengthNext DEF NodeInv
  <1> HIDE DEF from
  <1>7. CASE index <= snapIndex[j]
    BY <1>4, <1>7 DEF Holds
  <1>8. CASE ~(index <= snapIndex[j])
    <2> DEFINE k == index - snapIndex[j]
    <2>1. index <= LastLogIndex(j) /\ LogTerm(j, index) = r.term /\ index # snapIndex[j]
      BY <1>5, <1>8 DEF Holds
    <2>2. k \in 1 .. Len(logs[j]) /\ k \in 1 .. Maximum(Len(logs[j]), from + Len(r.entries))
      <3>1. k \in 1 .. Len(logs[j])
        BY <1>5, <1>8, <2>1
      <3> HIDE DEF k
      <3> QED
        BY <1>3, <1>5, <3>1 DEF Maximum
    <2>3. logs[j][k].term = r.term
      BY <2>1 DEF LogTerm, Slice
    <2>4. \/ logs'[j][k] = logs[j][k]
          \/ k > from /\ k <= from + Len(r.entries) /\ logs'[j][k] = r.entries[k - from]
      <3> HIDE DEF k
      <3> QED
        BY <1>3, <2>2 DEF MergeEntries
    <2>5. logs'[j][k].term = r.term
      <3>1. CASE k > from /\ k <= from + Len(r.entries) /\ logs'[j][k] = r.entries[k - from]
        <4>1. k - from \in 1 .. Len(r.entries) /\ r.prevIndex + (k - from) = index
          <5>1. k \in Int /\ k + snapIndex[j] = index
            BY <1>5
          <5> HIDE DEF k
          <5> QED
            BY <1>3, <1>5, <2>2, <3>1, <5>1
        <4>2. r.entries[k - from].index = r.prevIndex + (k - from)
          <5>1. AppendWellFormed(r)
            BY <1>0, <1>1 DEF RpcBounds
          <5> QED
            BY <4>1, <5>1 DEF AppendWellFormed
        <4> QED
          BY <3>1, <4>1, <4>2 DEF OwnCall
      <3> QED
        BY <2>3, <2>4, <3>1
    <2>6. LogTerm(j, index)' = r.term
      BY <1>4, <2>1, <2>5 DEF LogTerm, Slice
    <2>7. index <= LastLogIndex(j)'
      BY <1>3, <1>5, <1>6, <2>1
    <2> QED
      BY <2>6, <2>7 DEF Holds
  <1> QED
    BY <1>7, <1>8

\* A merge saves the term of the call.
LEMMA MatchDisk ==
    ASSUME TypeOK, NEW r \in rpcs, AppendEntries1(r), AppendEntriesMatch(r)
    PROVE  /\ r \in AppendRequests /\ r.to \in Server /\ r.term \in Nat
           /\ currentTerm'[r.to] = r.term /\ disk'[r.to].term = r.term
  <1>1. r \in AppendRequests
    BY RpcKinds DEF AppendEntries1
  <1>2. r.to \in Server /\ r.term \in Nat
    BY <1>1 DEF AppendRequests
  <1>3. FollowSender(r) /\ Persist(r.to)
    BY DEF AppendEntriesMatch
  <1>4. currentTerm'[r.to] = r.term
    BY <1>2, <1>3 DEF FollowSender, TypeOK
  <1>5. disk'[r.to].term = currentTerm'[r.to]
    BY <1>2, <1>3 DEF Persist, PersistData, TypeOK
  <1> QED
    BY <1>1, <1>2, <1>4, <1>5

\* A server that accepts a call of the term confirms what it acknowledges.
LEMMA AnswerConfirms ==
    ASSUME NodeInv, NodeInv', NEW r \in rpcs, AppendEntries1(r), AppendEntriesMatch(r),
           NEW first \in Nat, OwnCall(r, first, r.term), Acked(r) >= first
    PROVE  Confirmed(r.to, Acked(r), r.term)'
  <1> DEFINE j == r.to
             n == Len(r.entries)
  <1>0. TypeOK /\ LogContiguous /\ RpcBounds
    BY DEF NodeInv
  <1>1. /\ r \in AppendRequests /\ j \in Server /\ r.term \in Nat
        /\ disk'[j].term = r.term
    BY <1>0, MatchDisk
  <1>2. r.prevIndex \in Nat /\ r.entries \in Seq(Entry)
    BY <1>1 DEF AppendRequests
  <1>3. n \in Nat /\ Acked(r) = r.prevIndex + n /\ Acked(r) \in Nat
    BY <1>2, LastOfSeq DEF Acked
  <1> SUFFICES Holds(j, Acked(r), r.term)'
    BY <1>1 DEF Confirmed, Acked
  <1>4. CASE n = 0
    <2>1. Acked(r) = r.prevIndex
      BY <1>2, <1>3, <1>4
    <2>2. /\ r.prevIndex \in snapIndex[j] .. LastLogIndex(j)
          /\ LogTerm(j, r.prevIndex) = r.prevTerm
      BY DEF AppendEntriesMatch, MatchLog
    <2>3. r.prevTerm = r.term
      BY <2>1 DEF OwnCall
    <2>4. Holds(j, Acked(r), r.term)
      BY <1>0, <1>1, <1>2, <2>1, <2>2, <2>3, LastIndexIsLength DEF Holds
    <2> QED
      BY <1>3, <2>4, HoldsMerged DEF Acked
  <1>5. CASE n # 0
    <2>1. PICK from \in Nat :
             /\ from = Slice(j, r.prevIndex) /\ from <= Len(logs[j])
             /\ r.prevIndex = snapIndex[j] + from
             /\ logs'[j] = MergeEntries(logs[j], from, r.entries)
             /\ LastLogIndex(j)' >= r.prevIndex + n
      BY <1>1, <1>2, MergedIsLonger
    <2>2. /\ snapIndex[j] \in Nat /\ Len(logs[j]) \in Nat /\ snapIndex' = snapIndex
      BY <1>0, <1>1, LastIndexIsLength DEF AppendEntriesMatch
    <2>3. r.entries[n].index = r.prevIndex + n
      <3>1. AppendWellFormed(r)
        BY <1>0, <1>1 DEF RpcBounds
      <3>2. n \in 1 .. n
        BY <1>3, <1>5
      <3> QED
        BY <3>1, <3>2 DEF AppendWellFormed
    <2>4. r.entries[n].term = r.term
      BY <1>3, <1>5, <2>3 DEF OwnCall
    <2> DEFINE k == from + n
    <2>5. /\ k \in 1 .. Maximum(Len(logs[j]), from + n) /\ k \in Nat /\ k > from
          /\ k - from = n /\ snapIndex[j] + k = Acked(r)
      BY <1>2, <1>3, <1>5, <2>1, <2>2, SMTT(30) DEF Maximum
    <2>6. logs'[j][k].term = r.entries[n].term
      <3>1. k <= from + Len(r.entries)
        BY <1>3, <2>1
      <3> HIDE DEF k
      <3>2. logs'[j][k] =
               IF k > from /\ k <= from + Len(r.entries)
                  /\ (k > Len(logs[j]) \/ logs[j][k].term # r.entries[k - from].term)
               THEN r.entries[k - from] ELSE logs[j][k]
        BY <2>1, <2>5 DEF MergeEntries
      <3> QED
        BY <2>2, <2>5, <3>1, <3>2
    <2>7. Acked(r) # snapIndex[j] /\ Acked(r) - snapIndex[j] = k
      BY <2>1, <2>2, <2>5
    <2>8. LogTerm(j, Acked(r))' = r.term
      BY <2>2, <2>4, <2>6, <2>7 DEF LogTerm, Slice, Acked
    <2> QED
      BY <1>3, <2>1, <2>8 DEF Holds, Acked
  <1> QED
    BY <1>4, <1>5

\* What a server has confirmed stays so, whatever calls of the term reach it.
LEMMA ConfirmedStep ==
    ASSUME NodeInv, NodeInv', [Next]_vars, NEW j \in Server,
           NEW first \in Nat, NEW index \in Nat, NEW term \in Nat,
           index >= first, Confirmed(j, index, term),
           \A r \in Appending : Args(r).term = term => OwnCall(Args(r), first, term)
    PROVE  Confirmed(j, index, term)'
  <1>0. TypeOK
    BY DEF NodeInv
  <1>1. disk'[j].term >= disk[j].term /\ disk'[j].term \in Nat /\ disk[j].term \in Nat
    BY DiskTermsGrow
  <1>2. CASE disk'[j].term > term
    BY <1>2 DEF Confirmed
  <1>3. CASE ~(disk'[j].term > term)
    <2>1. disk[j].term = term /\ disk'[j].term = term /\ Holds(j, index, term)
      BY <1>1, <1>3 DEF Confirmed
    <2>2. CASE Kept(j)
      <3>1. snapIndex'[j] >= snapIndex[j] /\ LastLogIndex(j)' >= LastLogIndex(j)
        BY StepsForward, LogsGrow DEF Forward
      <3>2. Holds(j, index, term)'
        BY <2>1, <2>2, <3>1, HoldsKept
      <3> QED
        BY <2>1, <3>2 DEF Confirmed
    <2>3. ASSUME NEW r \in rpcs, AppendEntries1(r), AppendEntriesMatch(r), r.to = j
          PROVE  Confirmed(j, index, term)'
      <3>1. r \in AppendRequests /\ r.term = term
        BY <1>0, <2>1, <2>3, MatchDisk
      <3>2. r \in Appending /\ Args(r) = r
        BY <2>3, <3>1, RpcTypesDisjoint DEF Appending, Args
      <3>3. OwnCall(r, first, term)
        BY <3>1, <3>2
      <3>4. Holds(j, index, term)'
        BY <2>1, <2>3, <3>1, <3>3, HoldsMerged
      <3> QED
        BY <2>1, <3>4 DEF Confirmed
    <2> QED
      BY <2>2, <2>3, StepsKeepLogs
  <1> QED
    BY <1>2, <1>3

-----------------------------------------------------------------------------
(***************************************************************************)
(* The rounds of a leader.                                                 *)
(***************************************************************************)
\* The steps that move a counter of successes.
LEMMA RoundSteps ==
    ASSUME [Next]_vars
    PROVE  \/ appendNums' = appendNums
           \/ \E i \in Server : doHeartBeat(i) \/ Restart(i)
           \/ \E r \in rpcs : \/ sendRequestVote(r) /\ VoteReplyWins(r)
                              \/ sendAppendEntries(r) /\ AppendReplySuccess(r)
  <1>1. CASE UNCHANGED vars
    BY <1>1 DEF vars, leaderVars
  <1>2. ASSUME NEW i \in Server,
               \/ doElection(i) \/ applierTicker(i)
               \/ ReadIndex(i) \/ ReadIndexReturn(i) \/ WaitForApplied(i)
               \/ \E command \in Command : Start(i, command)
               \/ \E index \in 1 .. MaxSnapIndex : Snapshot(i, index)
               \/ \E j \in Server : ReadIndexBeat(i, j)
        PROVE  appendNums' = appendNums
    BY <1>2 DEF doElection, applierTicker, ReadIndex, ReadIndexReturn, WaitForApplied, Start,
                Snapshot, ReadIndexBeat, leaderVars
  <1>3. ASSUME NEW r \in rpcs, RequestVote(r) \/ leaderSendSnapShot(r) \/ ReadIndexConfirm(r)
        PROVE  appendNums' = appendNums
    BY <1>3 DEF RequestVote, leaderSendSnapShot, ReadIndexConfirm, leaderVars
  <1>4. ASSUME NEW r \in rpcs, sendRequestVote(r), ~VoteReplyWins(r)
        PROVE  appendNums' = appendNums
    BY <1>4 DEF sendRequestVote, VoteReplyNewer, VoteReplyIgnored, VoteReplyCounted, leaderVars
  <1>5. ASSUME NEW r \in rpcs, AppendEntries1(r)
        PROVE  appendNums' = appendNums
    BY <1>5 DEF AppendEntries1, AppendEntriesStale, AppendEntriesMismatch, AppendEntriesMatch,
                leaderVars
  <1>6. ASSUME NEW r \in rpcs, sendAppendEntries(r), ~AppendReplySuccess(r)
        PROVE  appendNums' = appendNums
    BY <1>6 DEF sendAppendEntries, AppendReplyNewer, AppendReplyIgnored, AppendReplyConflict,
                leaderVars
  <1>7. ASSUME NEW r \in rpcs, InstallSnapshot(r)
        PROVE  appendNums' = appendNums
    BY <1>7 DEF InstallSnapshot, InstallStale, InstallOutdated, InstallNew, leaderVars
  <1>8. ASSUME NEW r \in rpcs, leaderSendSnapShotReply(r)
        PROVE  appendNums' = appendNums
    BY <1>8 DEF leaderSendSnapShotReply, SnapshotReplyNewer, SnapshotReplyIgnored,
                SnapshotReplyInstalled, leaderVars
  <1> QED
    BY <1>1, <1>2, <1>3, <1>4, <1>5, <1>6, <1>7, <1>8 DEF Next

\* A heartbeat of a term, after a step in that term, is an old one, one just
\* sent, or the answer to an old one.
LEMMA TermCallSteps ==
    ASSUME NodeInv, NodeInv', [Next]_vars, NEW i \in Server,
           currentTerm'[i] = currentTerm[i], NEW r \in TermCalls(i)'
    PROVE  \/ r \in TermCalls(i)
           \/ r \notin rpcs /\ FromLeader(r) /\ doHeartBeat(i) /\ Args(r) = r /\ r.from = i
                /\ r \in AppendRequests /\ r.kind = "AppendEntries"
           \/ r \notin rpcs /\ Answers(r) /\ r.args \in TermCalls(i) /\ Args(r) = r.args
                /\ Args(r.args) = r.args
  <1>0. TypeOK
    BY DEF NodeInv
  <1>1. /\ r \in rpcs' /\ r \in AppendRequests \cup AppendReplies
        /\ \/ r \in AppendRequests /\ r.kind = "AppendEntries" /\ r.waiting
           \/ r \in AppendReplies /\ r.kind = "AppendReply"
        /\ Args(r).from = i /\ Args(r).term = currentTerm[i]
    BY DEF TermCalls, Appending, Args
  <1>2. CASE r \in rpcs
    BY <1>1, <1>2 DEF TermCalls, Appending
  <1>3. CASE r \notin rpcs
    <2>1. NewCall(r)
      BY <1>1, <1>3, CallSteps
    <2>2. CASE r \in AppendRequests
      <3>1. Args(r) = r /\ r.kind = "AppendEntries" /\ r.waiting
        BY <1>1, <2>2, RpcTypesDisjoint DEF Args
      <3>2. ASSUME NEW q \in rpcs, q \in AppendRequests, "waiting" \in DOMAIN q,
                   r = [q EXCEPT !.waiting = FALSE]
            PROVE  FALSE
        <4>1. r.waiting = FALSE
          BY <1>0, <3>2, AbandonedCall DEF TypeOK
        <4> QED
          BY <3>1, <4>1
      <3>3. FromLeader(r)
        BY <1>0, <2>1, <2>2, <3>2, NewCallOfType
      <3>4. doHeartBeat(i)
        BY <1>1, <3>1, <3>3 DEF FromLeader
      <3> QED
        BY <1>1, <1>3, <2>2, <3>1, <3>3, <3>4
    <2>3. CASE r \in AppendReplies
      <3>1. Answers(r)
        BY <1>0, <2>1, <2>3, NewCallOfType
      <3>2. /\ r.args \in rpcs /\ r.args \in AppendRequests /\ r.args.waiting
            /\ r.kind = IF r.args.kind = "ReadBeat" THEN "ReadReply" ELSE "AppendReply"
        BY <3>1 DEF Answers
      <3>3. r.kind = "AppendReply"
        BY <1>1, <2>3, RpcTypesDisjoint
      <3>4. r.args.kind = "AppendEntries"
        BY <3>2, <3>3 DEF AppendRequests
      <3>5. Args(r) = r.args /\ Args(r.args) = r.args
        BY <2>3, <3>2, RpcTypesDisjoint DEF Args
      <3>6. r.args \in TermCalls(i)
        BY <1>1, <3>2, <3>4, <3>5 DEF TermCalls, Appending
      <3> QED
        BY <1>3, <3>1, <3>5, <3>6
    <2> QED
      BY <1>1, <2>2, <2>3
  <1> QED
    BY <1>2, <1>3

\* A round whose counter a step leaves alone, and to which it adds answers only.
LEMMA RoundKept ==
    ASSUME NodeInv, NodeInv', [Next]_vars, NEW i \in Server, NEW first \in Nat, NEW round,
           FirstOfTerm(i, first), currentTerm'[i] = currentTerm[i],
           RoundSound(i, round, first), appendNums'[i][round] = appendNums[i][round],
           \A r \in RoundCalls(i, round)' :
              \/ r \in RoundCalls(i, round)
              \/ /\ r \notin rpcs /\ Answers(r) /\ r.args \in RoundCalls(i, round)
                 /\ Args(r) = r.args /\ Args(r.args) = r.args
    PROVE  RoundSound(i, round, first)'
  <1> DEFINE term == currentTerm[i]
             Old(r) == IF r \in rpcs THEN r ELSE r.args
  <1>0. TypeOK /\ term \in Nat
    BY DEF NodeInv, TypeOK
  <1>1. \A r \in RoundCalls(i, round) : r \in rpcs
    BY DEF RoundCalls, TermCalls, Appending
  <1>2. \A r \in RoundCalls(i, round)' : /\ Old(r) \in RoundCalls(i, round)
                                         /\ Args(Old(r)) = Args(r)
    BY <1>1
  <1>3. ASSUME NEW r1 \in RoundCalls(i, round)', NEW r2 \in RoundCalls(i, round)',
               Args(r1).to = Args(r2).to
        PROVE  r1 = r2
    <2>1. Old(r1) = Old(r2)
      BY <1>2, <1>3 DEF RoundSound
    <2>2. r1 \in rpcs' /\ r2 \in rpcs'
      BY DEF RoundCalls, TermCalls, Appending
    <2>3. ASSUME NEW r, r \notin rpcs, Answers(r)
          PROVE  rpcs' = (rpcs \ {r.args}) \cup {r}
      BY <2>3 DEF Answers, Reply
    <2>4. CASE r1 \notin rpcs
      BY <1>1, <2>1, <2>2, <2>3, <2>4
    <2>5. CASE r2 \notin rpcs
      BY <1>1, <2>1, <2>2, <2>3, <2>5
    <2>6. CASE r1 \in rpcs /\ r2 \in rpcs
      BY <2>1, <2>6
    <2> QED
      BY <2>4, <2>5, <2>6
  <1>4. PICK index \in Nat, C \in SUBSET Server : Tallied(i, round, first, index, C)
    BY DEF RoundSound
  <1>5. \A r \in Appending : Args(r).term = term => OwnCall(Args(r), first, term)
    BY DEF FirstOfTerm
  <1>6. ASSUME NEW j \in Server, index >= first, Confirmed(j, index, term)
        PROVE  Confirmed(j, index, term)'
    <2> HIDE DEF term
    <2>1. PICK t \in Nat : t = term
      BY <1>0
    <2>2. Confirmed(j, index, t)'
      BY <1>5, <1>6, <2>1, ConfirmedStep
    <2>3. t = currentTerm'[i]
      BY <2>1 DEF term
    <2> QED
      BY <2>2, <2>3 DEF Confirmed, Holds, term
  <1>7. ASSUME NEW r \in RoundCalls(i, round)', r \in AppendReplies, r.success, index >= first
        PROVE  Confirmed(Args(r).to, index, term)'
    <2>1. CASE r \in RoundCalls(i, round)
      <3>1. Args(r).to \in Server
        BY <1>0, <2>1, ArgsType DEF RoundCalls, TermCalls, AppendRequests
      <3>2. Confirmed(Args(r).to, index, term)
        BY <1>4, <1>7, <2>1 DEF Tallied
      <3> QED
        BY <1>6, <1>7, <3>1, <3>2
    <2>2. CASE r \notin RoundCalls(i, round)
      <3>1. /\ Answers(r) /\ r.args \in RoundCalls(i, round)
            /\ Args(r) = r.args /\ Args(r.args) = r.args
        BY <2>2
      <3>2. /\ r.args \in rpcs /\ r.args \in AppendRequests /\ AppendEntriesMatch(r.args)
        BY <1>7, <3>1 DEF Answers
      <3>3. AppendEntries1(r.args)
        BY <3>2 DEF AppendEntries1, AppendRequests
      <3>4. r.args.term = currentTerm[i] /\ Acked(r.args) = index /\ r.args \in Appending
        BY <1>4, <3>1 DEF RoundCalls, TermCalls, Tallied
      <3>5. OwnCall(r.args, first, r.args.term)
        BY <1>5, <3>1, <3>4
      <3>6. Confirmed(r.args.to, Acked(r.args), r.args.term)'
        BY <1>7, <3>2, <3>3, <3>4, <3>5, AnswerConfirms
      <3> QED
        BY <3>1, <3>4, <3>6 DEF Confirmed, Holds, Acked
    <2> QED
      BY <2>1, <2>2
  <1>8. ASSUME NEW r \in RoundCalls(i, round)'
        PROVE  Acked(Args(r)) = index /\ Args(r).to \notin C \cup {i}
    BY <1>2, <1>4 DEF Tallied
  <1>9. index <= LastLogIndex(i)'
    <2>1. LastLogIndex(i)' >= LastLogIndex(i) /\ LastLogIndex(i)' \in Nat /\ LastLogIndex(i) \in Nat
      BY LogsGrow
    <2> QED
      BY <1>4, <2>1 DEF Tallied
  <1>10. index >= first => \A j \in C : Confirmed(j, index, term)'
    BY <1>4, <1>6 DEF Tallied
  <1>11. i \notin C /\ appendNums'[i][round] <= Cardinality(C) + 1
    BY <1>4 DEF Tallied
  <1>12. Tallied(i, round, first, index, C)'
    <2>1. \A r \in RoundCalls(i, round)' : Args(r)' = Args(r) /\ Acked(Args(r))' = Acked(Args(r))
      BY DEF Args, Acked
    <2> QED
      BY <1>7, <1>8, <1>9, <1>10, <1>11, <2>1 DEF Tallied
  <1>13. \A r1, r2 \in RoundCalls(i, round)' : Args(r1)'.to = Args(r2)'.to => r1 = r2
    BY <1>3 DEF Args
  <1> QED
    BY <1>12, <1>13 DEF RoundSound

\* A new round: one call to each peer, all of them up to the end of the log.
LEMMA RoundBegun ==
    ASSUME NodeInv, NodeInv', [Next]_vars, NEW i \in Server, NEW first \in Nat,
           RoundsKnown(i), doHeartBeat(i), NEW round \in Nat, round = Len(appendNums[i]) + 1
    PROVE  /\ RoundSound(i, round, first)'
           /\ Len(appendNums'[i]) = round
           /\ \A k \in 1 .. Len(appendNums[i]) : appendNums'[i][k] = appendNums[i][k]
  <1>0. TypeOK /\ LogContiguous
    BY DEF NodeInv
  <1>1. /\ currentTerm' = currentTerm /\ logs' = logs /\ snapIndex' = snapIndex
        /\ appendNums' = [appendNums EXCEPT ![i] = Append(@, 1)]
        /\ rpcs' = rpcs \cup {HeartBeatTo(i, j, Len(appendNums'[i])) : j \in Server \ {i}}
    BY DEF doHeartBeat, serverVars, logVars
  <1>2. appendNums[i] \in Seq(Nat) /\ appendNums'[i] = Append(appendNums[i], 1)
    BY <1>0, <1>1 DEF TypeOK
  <1>3. /\ Len(appendNums'[i]) = round /\ appendNums'[i][round] = 1
        /\ \A k \in 1 .. Len(appendNums[i]) : appendNums'[i][k] = appendNums[i][k]
    BY <1>2
  <1>4. PICK index \in Nat : index = LastLogIndex(i)
    BY LogsGrow
  <1>5. LastLogIndex(i)' = index
    BY <1>1, <1>4 DEF LastLogIndex
  <1>6. ASSUME NEW r \in RoundCalls(i, round)'
        PROVE  /\ r \notin rpcs /\ FromLeader(r) /\ Args(r) = r /\ r.from = i
               /\ r \in AppendRequests /\ r.kind = "AppendEntries"
    <2>1. r \in TermCalls(i)' /\ Args(r).round = round
      BY DEF RoundCalls, Args
    <2>2. ASSUME NEW q \in TermCalls(i)
          PROVE  Args(q).round # round
      <3>1. Args(q).round \in 1 .. Len(appendNums[i])
        BY DEF RoundsKnown
      <3> QED
        BY <1>2, <3>1
    <2>3. r \notin TermCalls(i)
      BY <2>1, <2>2
    <2>4. ASSUME Args(r) = r.args, Args(r.args) = r.args, r.args \in TermCalls(i)
          PROVE  FALSE
      BY <2>1, <2>2, <2>4
    <2> QED
      BY <1>1, <2>1, <2>3, <2>4, TermCallSteps
  <1>7. ASSUME NEW r \in RoundCalls(i, round)'
        PROVE  \E j \in Server \ {i} : r = HeartBeatTo(i, j, round) /\ r.to = j
    <2>1. r \in rpcs' /\ r \notin rpcs /\ r.kind = "AppendEntries"
      BY <1>6 DEF RoundCalls, TermCalls, Appending
    <2>2. PICK j \in Server \ {i} : r = HeartBeatTo(i, j, round)
      BY <1>1, <1>3, <2>1
    <2>3. r.to = j
      BY <2>2 DEF HeartBeatTo, SnapshotThread, AppendRequest
    <2> QED
      BY <2>2, <2>3
  <1>8. ASSUME NEW r \in RoundCalls(i, round)'
        PROVE  Acked(Args(r)) = index /\ Args(r).to # i /\ r \notin AppendReplies
    <2>1. /\ Args(r) = r /\ r \in AppendRequests /\ r.kind = "AppendEntries"
          /\ FromLeader(r) /\ r.from = i
      BY <1>6
    <2>2. /\ r.prevIndex \in Nat
          /\ r.prevIndex >= snapIndex[i] /\ r.prevIndex <= LastLogIndex(i)
          /\ r.entries = DropPrefix(i, r.prevIndex)
      BY <2>1 DEF FromLeader, AppendRequests
    <2>3. Len(r.entries) = LastLogIndex(i) - r.prevIndex
      BY <1>0, <2>2, DropPrefixProperties
    <2>4. Acked(r) = index
      BY <1>4, <2>2, <2>3 DEF Acked
    <2> QED
      BY <1>7, <2>1, <2>4, RpcTypesDisjoint
  <1>9. \A r1, r2 \in RoundCalls(i, round)' : Args(r1)'.to = Args(r2)'.to => r1 = r2
    <2>1. \A r \in RoundCalls(i, round)' : Args(r)' = r
      BY <1>6 DEF Args
    <2> QED
      BY <1>7, <2>1
  <1>10. Tallied(i, round, first, index, {})'
    <2>1. appendNums'[i][round] <= Cardinality({}) + 1
      BY <1>3, FS_EmptySet
    <2>2. \A r \in RoundCalls(i, round)' : Args(r)' = Args(r) /\ Acked(Args(r))' = Acked(Args(r))
      BY DEF Args, Acked
    <2>3. \A r \in RoundCalls(i, round)' :
             Acked(Args(r))' = index /\ Args(r)'.to # i /\ r \notin AppendReplies
      BY <1>8, <2>2
    <2> QED
      BY <1>4, <1>5, <2>1, <2>3 DEF Tallied
  <1> QED
    BY <1>3, <1>9, <1>10 DEF RoundSound

\* A success counts its server in the round of its call.
LEMMA RoundCounted ==
    ASSUME NodeInv, NodeInv', [Next]_vars, SuccessTerms, NEW r \in rpcs, NEW first \in Nat,
           sendAppendEntries(r), AppendReplySuccess(r),
           RoundsKnown(r.args.from), FirstOfTerm(r.args.from, first),
           RoundSound(r.args.from, r.args.round, first)
    PROVE  RoundSound(r.args.from, r.args.round, first)'
  <1> DEFINE i == r.args.from
             round == r.args.round
             term == currentTerm[i]
  <1>0. TypeOK
    BY DEF NodeInv
  <1>1. /\ r \in AppendReplies /\ r.args \in AppendRequests /\ r.kind = "AppendReply"
        /\ i \in Server /\ r.args.to \in Server /\ round \in Nat
    BY <1>0, RpcKinds DEF sendAppendEntries, AppendReplies, AppendRequests
  <1>2. /\ r.term = term /\ r.success /\ currentTerm' = currentTerm
        /\ appendNums' = [appendNums EXCEPT ![i][round] = RoundAfter(@)]
        /\ rpcs' = rpcs \ {r}
    BY DEF AppendReplySuccess, RoundOf, sendAppendEntries, Consume, serverVars
  <1>3. r \in Appending /\ Args(r) = r.args
    BY <1>1 DEF Appending, Args
  <1>4. r \in TermCalls(i) /\ r \in RoundCalls(i, round)
    <2>1. r.args.term = term
      BY <1>1, <1>2 DEF SuccessTerms
    <2> QED
      BY <1>1, <1>3, <2>1 DEF TermCalls, RoundCalls
  <1>5. round \in 1 .. Len(appendNums[i])
    BY <1>3, <1>4 DEF RoundsKnown
  <1>6. /\ appendNums[i] \in Seq(Nat) /\ appendNums[i][round] \in Nat
        /\ appendNums'[i][round] = RoundAfter(appendNums[i][round])
    <2>1. appendNums[i] \in Seq(Nat) /\ DOMAIN appendNums[i] = 1 .. Len(appendNums[i])
      BY <1>0, <1>1 DEF TypeOK
    <2>2. appendNums[i][round] \in Nat
      BY <1>5, <2>1, ElementOfSeq
    <2>3. appendNums'[i] = [appendNums[i] EXCEPT ![round] = RoundAfter(@)]
      BY <1>0, <1>1, <1>2 DEF TypeOK
    <2> QED
      BY <1>5, <2>1, <2>2, <2>3
  <1>7. PICK index \in Nat, C \in SUBSET Server : Tallied(i, round, first, index, C)
    BY DEF RoundSound
  <1>8. PICK D \in SUBSET Server : D = C \cup {r.args.to}
    BY <1>1
  <1>9. r.args.to \notin C /\ r.args.to # i /\ i \notin D
    BY <1>3, <1>4, <1>7, <1>8 DEF Tallied
  <1>10. Cardinality(D) = Cardinality(C) + 1 /\ Cardinality(C) \in Nat
    <2>1. IsFiniteSet(C)
      BY ServerFinite, FS_Subset
    <2> QED
      BY <1>8, <1>9, <2>1, FS_AddElement, FS_CardinalityType
  <1>11. appendNums'[i][round] <= Cardinality(D) + 1
    <2>1. PICK n \in Nat : n = appendNums[i][round] /\ appendNums'[i][round] = RoundAfter(n)
      BY <1>6
    <2>2. n <= Cardinality(C) + 1
      BY <1>7, <2>1 DEF Tallied
    <2>3. RoundAfter(n) <= n + 1
      BY DEF RoundAfter
    <2>4. RoundAfter(n) \in Nat
      BY DEF RoundAfter
    <2> QED
      BY <1>10, <2>1, <2>2, <2>3, <2>4
  <1>12. ASSUME NEW j \in Server, index >= first, Confirmed(j, index, term)
         PROVE  Confirmed(j, index, currentTerm[i])'
    <2>1. PICK t \in Nat : t = currentTerm[i]
      BY <1>0, <1>1 DEF TypeOK
    <2>2. \A q \in Appending : Args(q).term = t => OwnCall(Args(q), first, t)
      BY <2>1 DEF FirstOfTerm
    <2>3. Confirmed(j, index, t)'
      BY <1>12, <2>1, <2>2, ConfirmedStep
    <2> QED
      BY <1>2, <2>1, <2>3 DEF Confirmed, Holds
  <1>13. index >= first => \A j \in D : Confirmed(j, index, currentTerm[i])'
    <2>1. index >= first => Confirmed(r.args.to, index, term)
      BY <1>1, <1>2, <1>3, <1>4, <1>7 DEF Tallied
    <2>2. index >= first => \A j \in C : Confirmed(j, index, term)
      BY <1>7 DEF Tallied
    <2> QED
      BY <1>8, <1>12, <2>1, <2>2
  <1>14. ASSUME NEW q \in RoundCalls(i, round)'
         PROVE  q \in RoundCalls(i, round) /\ q # r /\ Args(q)' = Args(q)
    BY <1>2 DEF RoundCalls, TermCalls, Appending, Args
  <1>15. ASSUME NEW q \in RoundCalls(i, round)'
         PROVE  /\ Acked(Args(q)) = index /\ Args(q).to \notin D \cup {i}
                /\ q \in AppendReplies /\ q.success /\ index >= first
                      => Confirmed(Args(q).to, index, currentTerm[i])'
    <2>1. q \in RoundCalls(i, round) /\ q # r
      BY <1>14
    <2>2. Args(q).to # r.args.to
      BY <1>3, <1>4, <2>1 DEF RoundSound
    <2>3. Args(q).to \in Server
      BY <1>0, <2>1, ArgsType DEF RoundCalls, TermCalls, AppendRequests
    <2> QED
      BY <1>7, <1>8, <1>12, <2>1, <2>2, <2>3 DEF Tallied
  <1>16. index <= LastLogIndex(i)'
    <2>1. LastLogIndex(i)' >= LastLogIndex(i) /\ LastLogIndex(i)' \in Nat /\ LastLogIndex(i) \in Nat
      BY <1>1, LogsGrow
    <2> QED
      BY <1>7, <2>1 DEF Tallied
  <1>17. Tallied(i, round, first, index, D)'
    <2>1. \A q \in RoundCalls(i, round)' : Acked(Args(q))' = Acked(Args(q))
      BY DEF Args, Acked
    <2> QED
      BY <1>9, <1>11, <1>13, <1>14, <1>15, <1>16, <2>1 DEF Tallied
  <1>18. \A r1, r2 \in RoundCalls(i, round)' : Args(r1)'.to = Args(r2)'.to => r1 = r2
    BY <1>14 DEF RoundSound
  <1> QED
    BY <1>17, <1>18 DEF RoundSound

\* What a leader knows of its rounds it goes on to know in its term.
LEMMA LeadsStep ==
    ASSUME NodeInv, NodeInv', VoteInv, VoteInv', EntryInv, SuccessTerms, [Next]_vars,
           NEW i \in Server, status[i] = Leader, status'[i] = Leader,
           currentTerm'[i] = currentTerm[i], RoundsKnown(i), Leads(i)
    PROVE  RoundsKnown(i)' /\ Leads(i)'
  <1>0. TypeOK
    BY DEF NodeInv
  <1>00. appendNums[i] \in Seq(Nat) /\ Len(appendNums[i]) \in Nat
    BY <1>0 DEF TypeOK
  <1>1. PICK first \in Nat :
           /\ FirstOfTerm(i, first)
           /\ \A round \in 1 .. Len(appendNums[i]) : RoundSound(i, round, first)
    BY DEF Leads
  <1>2. FirstOfTerm(i, first)'
    BY <1>1, FirstOfTermStep
  <1>3. CASE doHeartBeat(i)
    <2>1. PICK last \in Nat : last = Len(appendNums[i]) + 1
      BY <1>00
    <2>2. /\ RoundSound(i, last, first)' /\ Len(appendNums'[i]) = last
          /\ \A k \in 1 .. Len(appendNums[i]) : appendNums'[i][k] = appendNums[i][k]
      BY <1>3, <2>1, RoundBegun
    <2>3. ASSUME NEW r \in TermCalls(i)'
          PROVE  \/ r \in TermCalls(i)
                 \/ Args(r).round = last
                 \/ /\ r \notin rpcs /\ Answers(r) /\ r.args \in TermCalls(i)
                    /\ Args(r) = r.args /\ Args(r.args) = r.args
      <3>1. FromLeader(r) /\ r.from = i /\ r.kind = "AppendEntries" => r.round = last
        BY <2>2 DEF FromLeader
      <3> QED
        BY <3>1, TermCallSteps
    <2>4. RoundsKnown(i)'
      <3>1. ASSUME NEW r \in TermCalls(i)'
            PROVE  Args(r).round \in 1 .. last
        BY <1>00, <2>1, <2>3 DEF RoundsKnown
      <3> QED
        BY <2>2, <3>1 DEF RoundsKnown, Args
    <2>5. ASSUME NEW round \in 1 .. Len(appendNums'[i])
          PROVE  RoundSound(i, round, first)'
      <3>1. CASE round = last
        BY <2>2, <3>1
      <3>2. CASE round # last
        <4>1. round \in 1 .. Len(appendNums[i])
          BY <1>00, <2>1, <2>2, <3>2
        <4>2. \A r \in RoundCalls(i, round)' :
                 \/ r \in RoundCalls(i, round)
                 \/ /\ r \notin rpcs /\ Answers(r) /\ r.args \in RoundCalls(i, round)
                    /\ Args(r) = r.args /\ Args(r.args) = r.args
          BY <2>3, <3>2 DEF RoundCalls, Args
        <4> QED
          BY <1>1, <2>2, <4>1, <4>2, RoundKept
      <3> QED
        BY <3>1, <3>2
    <2> QED
      BY <1>2, <2>4, <2>5 DEF Leads
  <1>4. CASE ~doHeartBeat(i)
    <2>1. ASSUME NEW r \in TermCalls(i)'
          PROVE  \/ r \in TermCalls(i)
                 \/ /\ r \notin rpcs /\ Answers(r) /\ r.args \in TermCalls(i)
                    /\ Args(r) = r.args /\ Args(r.args) = r.args
      BY <1>4, TermCallSteps
    <2>2. \A round :
            \A r \in RoundCalls(i, round)' :
                 \/ r \in RoundCalls(i, round)
                 \/ /\ r \notin rpcs /\ Answers(r) /\ r.args \in RoundCalls(i, round)
                    /\ Args(r) = r.args /\ Args(r.args) = r.args
      BY <2>1 DEF RoundCalls, Args
    <2>3. CASE appendNums'[i] = appendNums[i]
      <3>1. \A round \in 1 .. Len(appendNums[i]) : RoundSound(i, round, first)'
        BY <1>1, <2>2, <2>3, RoundKept
      <3>2. RoundsKnown(i)'
        <4>1. \A r \in TermCalls(i)' : Args(r).round \in 1 .. Len(appendNums[i])
          BY <2>1 DEF RoundsKnown
        <4> QED
          BY <2>3, <4>1 DEF RoundsKnown, Args
      <3> QED
        BY <1>2, <2>3, <3>1, <3>2 DEF Leads
    <2>4. ASSUME NEW r \in rpcs, sendAppendEntries(r), AppendReplySuccess(r), r.args.from = i
          PROVE  RoundsKnown(i)' /\ Leads(i)'
      <3> DEFINE counted == r.args.round
      <3>1. appendNums' = [appendNums EXCEPT ![i][counted] = RoundAfter(@)]
        BY <2>4 DEF AppendReplySuccess, RoundOf
      <3>2. appendNums'[i] = [appendNums[i] EXCEPT ![counted] = RoundAfter(@)]
        BY <1>0, <3>1 DEF TypeOK
      <3>3. /\ Len(appendNums'[i]) = Len(appendNums[i])
            /\ \A k \in 1 .. Len(appendNums[i]) :
                  k # counted => appendNums'[i][k] = appendNums[i][k]
        BY <1>00, <3>2
      <3>4. RoundsKnown(i)'
        <4>1. \A q \in TermCalls(i)' : Args(q).round \in 1 .. Len(appendNums[i])
          BY <2>1 DEF RoundsKnown
        <4> QED
          BY <3>3, <4>1 DEF RoundsKnown, Args
      <3>5. ASSUME NEW round \in 1 .. Len(appendNums[i])
            PROVE  RoundSound(i, round, first)'
        <4>1. CASE round = counted
          BY <1>1, <2>4, <4>1, RoundCounted
        <4>2. CASE round # counted
          BY <1>1, <2>2, <3>3, <4>2, RoundKept
        <4> QED
          BY <4>1, <4>2
      <3> QED
        BY <1>2, <3>3, <3>4, <3>5 DEF Leads
    <2>5. \/ appendNums'[i] = appendNums[i]
          \/ \E r \in rpcs : sendAppendEntries(r) /\ AppendReplySuccess(r) /\ r.args.from = i
      <3>1. ASSUME NEW j \in Server, doHeartBeat(j)
            PROVE  appendNums'[i] = appendNums[i]
        BY <1>0, <1>4, <3>1 DEF doHeartBeat, TypeOK
      <3>2. ASSUME NEW j \in Server, Restart(j)
            PROVE  appendNums'[i] = appendNums[i]
        <4>1. status' = [status EXCEPT ![j] = Follower]
              /\ appendNums' = [appendNums EXCEPT ![j] = <<>>]
          BY <3>2 DEF Restart
        <4> QED
          BY <1>0, <4>1 DEF TypeOK, Follower, Leader
      <3>3. ASSUME NEW r \in rpcs, sendRequestVote(r), VoteReplyWins(r)
            PROVE  appendNums'[i] = appendNums[i]
        BY <1>0, <3>3 DEF VoteReplyWins, TypeOK
      <3>4. ASSUME NEW r \in rpcs, sendAppendEntries(r), AppendReplySuccess(r), r.args.from # i
            PROVE  appendNums'[i] = appendNums[i]
        BY <1>0, <3>4 DEF AppendReplySuccess, TypeOK
      <3> QED
        BY <3>1, <3>2, <3>3, <3>4, RoundSteps
    <2> QED
      BY <2>3, <2>4, <2>5
  <1> QED
    BY <1>3, <1>4

\* The winner of an election has no rounds yet, and no calls of its term.
LEMMA LeadsWon ==
    ASSUME NodeInv, NodeInv', VoteInv, VoteInv', EntryInv, CallsWon, [Next]_vars,
           NEW r \in rpcs, sendRequestVote(r), VoteReplyWins(r)
    PROVE  /\ RoundsKnown(r.args.from)' /\ Leads(r.args.from)'
           /\ status[r.args.from] # Leader
           /\ \A i \in Server \ {r.args.from} : status'[i] = status[i]
           /\ currentTerm' = currentTerm
  <1> DEFINE i == r.args.from
  <1>0. TypeOK /\ EntriesWon
    BY DEF NodeInv, EntryInv
  <1>1. PICK first \in Nat : FirstOfTerm(i, first)'
    BY FirstOfTermWon
  <1>2. i \in Server /\ \A w \in won : w.term # currentTerm[i]
    BY <1>0, FreshTerm
  <1>3. /\ appendNums' = [appendNums EXCEPT ![i] = <<>>] /\ currentTerm' = currentTerm
        /\ rpcs' = rpcs \ {r} /\ status' = [status EXCEPT ![i] = Leader] /\ status[i] # Leader
    BY DEF VoteReplyWins, sendRequestVote, Consume
  <1>4. appendNums'[i] = <<>> /\ \A j \in Server \ {i} : status'[j] = status[j]
    BY <1>0, <1>2, <1>3 DEF TypeOK
  <1>5. ASSUME NEW q \in TermCalls(i)'
        PROVE  FALSE
    <2>1. q \in Appending /\ Args(q).term = currentTerm[i]
      BY <1>3 DEF TermCalls, Appending, Args
    <2>2. [term |-> Args(q).term, leader |-> Args(q).from] \in won
      BY <2>1 DEF CallsWon
    <2> QED
      BY <1>2, <2>1, <2>2
  <1>6. Leads(i)'
    <2>1. 1 .. Len(appendNums'[i]) = {}
      BY <1>4
    <2> QED
      BY <1>1, <2>1 DEF Leads
  <1>7. RoundsKnown(i)'
    BY <1>5 DEF RoundsKnown
  <1> QED
    BY <1>3, <1>4, <1>6, <1>7

LEMMA QuorumStep ==
    ASSUME NodeInv, NodeInv', VoteInv, VoteInv', EntryInv, QuorumInv, [Next]_vars
    PROVE  QuorumInv'
  <1>0. TypeOK
    BY DEF NodeInv
  <1>1. CallsWon' /\ SuccessTerms'
    BY CallsWonStep, SuccessTermsStep DEF QuorumInv
  <1>2. ASSUME NEW i \in Server, status'[i] = Leader,
               status[i] = Leader, currentTerm'[i] = currentTerm[i]
        PROVE  RoundsKnown(i)' /\ Leads(i)'
    BY <1>2, LeadsStep DEF QuorumInv
  <1>3. CASE LeadersStay
    BY <1>1, <1>2, <1>3 DEF QuorumInv, LeadersStay
  <1>4. ASSUME NEW r \in rpcs, sendRequestVote(r), VoteReplyWins(r)
        PROVE  QuorumInv'
    <2>1. /\ RoundsKnown(r.args.from)' /\ Leads(r.args.from)'
          /\ \A i \in Server \ {r.args.from} : status'[i] = status[i]
          /\ currentTerm' = currentTerm
      BY <1>4, LeadsWon DEF QuorumInv
    <2>2. ASSUME NEW i \in Server, status'[i] = Leader
          PROVE  RoundsKnown(i)' /\ Leads(i)'
      <3>1. CASE i = r.args.from
        BY <2>1, <3>1
      <3>2. CASE i # r.args.from
        BY <1>2, <2>1, <2>2, <3>2
      <3> QED
        BY <3>1, <3>2
    <2> QED
      BY <1>1, <2>2 DEF QuorumInv
  <1> QED
    BY <1>3, <1>4, LeaderSteps

THEOREM QuorumInvariant == Spec => [](NodeInv /\ VoteInv /\ EntryInv /\ QuorumInv)
  <1>1. Init => QuorumInv
    BY DEF Init, QuorumInv, CallsWon, SuccessTerms, Appending, Follower, Leader
  <1>2. NodeInv /\ NodeInv' /\ VoteInv /\ VoteInv' /\ EntryInv /\ QuorumInv /\ [Next]_vars
          => QuorumInv'
    BY QuorumStep
  <1> QED
    BY <1>1, <1>2, EntryInvariant, PTL DEF Spec

-----------------------------------------------------------------------------
(***************************************************************************)
(* The commit.                                                             *)
(***************************************************************************)
\* The only step in which a leader's commit index moves is the success that
\* completes a round, and it moves to what the round acknowledges.
LEMMA CommitSteps ==
    ASSUME NodeInv, [Next]_vars, NEW i \in Server, status[i] = Leader, status'[i] = Leader,
           commitIndex'[i] > commitIndex[i]
    PROVE  \E r \in rpcs :
              /\ sendAppendEntries(r) /\ AppendReplySuccess(r) /\ r.args.from = i
              /\ commitIndex'[i] = Acked(r.args)
              /\ appendNums[i][r.args.round] + 1 >= Quorum
              /\ Len(r.args.entries) > 0
              /\ r.args.entries[Len(r.args.entries)].term = currentTerm[i]
  <1>0. TypeOK
    BY DEF NodeInv
  <1>00. commitIndex \in [Server -> Nat] /\ status \in [Server -> {Follower, Candidate, Leader}]
    BY <1>0 DEF TypeOK
  <1>1. commitIndex'[i] # commitIndex[i]
    BY <1>00
  <1>2. CASE UNCHANGED <<logVars, applyVars, applied, won, restarts>>
    BY <1>1, <1>2 DEF applyVars
  <1>3. ASSUME NEW j \in Server,
               \/ \E command \in Command : Start(j, command)
               \/ \E index \in 1 .. MaxSnapIndex : Snapshot(j, index)
               \/ applierTicker(j)
        PROVE  FALSE
    BY <1>1, <1>3 DEF Start, Snapshot, applierTicker, applyVars
  <1>4. ASSUME NEW j \in Server, Restart(j)
        PROVE  FALSE
    <2>1. /\ status' = [status EXCEPT ![j] = Follower]
          /\ commitIndex' = [commitIndex EXCEPT ![j] = 0]
      BY <1>4 DEF Restart
    <2> QED
      BY <1>00, <1>1, <2>1 DEF Follower, Leader
  <1>5. ASSUME NEW r \in rpcs, sendRequestVote(r), VoteReplyWins(r)
        PROVE  FALSE
    BY <1>1, <1>5 DEF VoteReplyWins, applyVars
  <1>6. ASSUME NEW r \in rpcs,
               \/ AppendEntries1(r) /\ AppendEntriesMatch(r)
               \/ InstallSnapshot(r) /\ InstallNew(r)
        PROVE  FALSE
    <2>1. r.to \in Server
      BY <1>0, <1>6, RpcKinds DEF AppendEntries1, InstallSnapshot, AppendRequests, SnapshotRequests
    <2>2. FollowSender(r)
      BY <1>6 DEF AppendEntriesMatch, InstallNew
    <2>3. i # r.to
      BY <1>0, <2>1, <2>2, FollowSenderLeaders DEF Follower, Leader
    <2> QED
      BY <1>00, <1>1, <1>6, <2>3 DEF AppendEntriesMatch, InstallNew
  <1>7. ASSUME NEW r \in rpcs, sendAppendEntries(r), AppendReplySuccess(r)
        PROVE  /\ r.args.from = i /\ commitIndex'[i] = Acked(r.args)
               /\ appendNums[i][r.args.round] + 1 >= Quorum
               /\ Len(r.args.entries) > 0
               /\ r.args.entries[Len(r.args.entries)].term = currentTerm[i]
    <2> DEFINE n == Len(r.args.entries)
               commits == /\ appendNums[r.args.from][r.args.round] + 1 >= Quorum
                          /\ n > 0
                          /\ r.args.entries[n].term = currentTerm[r.args.from]
    <2>1. commitIndex' = [commitIndex EXCEPT ![r.args.from] =
                             IF commits THEN Maximum(@, Acked(r.args)) ELSE @]
      BY <1>7 DEF AppendReplySuccess, RoundOf
    <2>2. r.args.from = i /\ commits
      <3> HIDE DEF commits
      <3> QED
        BY <1>00, <1>1, <2>1
    <2>3. commitIndex'[i] = Maximum(commitIndex[i], Acked(r.args))
      BY <1>00, <2>1, <2>2
    <2>4. commitIndex'[i] = Acked(r.args)
      BY <1>1, <2>3 DEF Maximum
    <2> QED
      BY <2>2, <2>4
  <1> QED
    BY <1>0, <1>2, <1>3, <1>4, <1>5, <1>6, <1>7, LogSteps

\* The servers counted in the round, the one that answers last and the leader
\* itself hold the entry, or have left the term.
LEMMA CommitHeld ==
    ASSUME NodeInv, EntryInv, QuorumInv, NEW i \in Server, status[i] = Leader,
           NEW r \in rpcs, sendAppendEntries(r), AppendReplySuccess(r), r.args.from = i,
           appendNums[i][r.args.round] + 1 >= Quorum, Len(r.args.entries) > 0,
           r.args.entries[Len(r.args.entries)].term = currentTerm[i]
    PROVE  Cardinality({j \in Server : \/ currentTerm[j] > currentTerm[i]
                                       \/ Holds(j, Acked(r.args), currentTerm[i])}) >= Quorum
  <1> DEFINE round == r.args.round
             n     == Len(r.args.entries)
             S     == {j \in Server : \/ currentTerm[j] > currentTerm[i]
                                      \/ Holds(j, Acked(r.args), currentTerm[i])}
  <1>0. TypeOK /\ LogContiguous /\ DiskCurrent /\ RpcBounds
    BY DEF NodeInv
  <1>1. /\ r \in AppendReplies /\ r.args \in AppendRequests /\ r.kind = "AppendReply"
        /\ r.args.to \in Server /\ r.args.prevIndex \in Nat /\ r.args.entries \in Seq(Entry)
    BY <1>0, RpcKinds DEF sendAppendEntries, AppendReplies, AppendRequests
  <1>2. r \in Appending /\ Args(r) = r.args
    BY <1>1 DEF Appending, Args
  <1>3. r.success /\ r.args.term = currentTerm[i]
    BY <1>1 DEF AppendReplySuccess, QuorumInv, SuccessTerms
  <1>4. r \in RoundCalls(i, round)
    BY <1>1, <1>2, <1>3 DEF TermCalls, RoundCalls
  <1>5. round \in 1 .. Len(appendNums[i])
    BY <1>2, <1>4 DEF QuorumInv, RoundsKnown, RoundCalls
  <1>6. PICK first \in Nat : FirstOfTerm(i, first) /\ RoundSound(i, round, first)
    BY <1>5 DEF QuorumInv, Leads
  <1>7. PICK index \in Nat, C \in SUBSET Server : Tallied(i, round, first, index, C)
    BY <1>6 DEF RoundSound
  <1>8. Acked(r.args) = index
    BY <1>2, <1>4, <1>7 DEF Tallied
  <1>9. index >= first
    <2>1. n \in Nat /\ n \in 1 .. n
      BY <1>1, LastOfSeq
    <2>2. r.args.entries[n].index = r.args.prevIndex + n
      BY <1>0, <1>1, <2>1 DEF RpcBounds, AppendWellFormed
    <2>3. OwnCall(r.args, first, currentTerm[i])
      BY <1>2, <1>3, <1>6 DEF FirstOfTerm
    <2>4. Acked(r.args) = r.args.prevIndex + n
      BY DEF Acked
    <2> HIDE DEF n
    <2>5. n \in 1 .. Len(r.args.entries)
      BY <2>1 DEF n
    <2>6. r.args.entries[n].index >= first
      <3>1. r.args.entries[n].term = currentTerm[i]
        BY DEF n
      <3> QED
        BY <2>3, <2>5, <3>1 DEF OwnCall
    <2> QED
      BY <1>8, <2>2, <2>4, <2>6
  <1>10. ASSUME NEW j \in Server, Confirmed(j, index, currentTerm[i])
         PROVE  j \in S
    <2>1. /\ currentTerm[j] \in Nat /\ currentTerm[i] \in Nat /\ disk[j].term \in Nat
          /\ disk[j].term <= currentTerm[j]
      <3>1. /\ currentTerm[j] \in Nat /\ currentTerm[i] \in Nat /\ disk[j].term \in Nat
        BY <1>0 DEF TypeOK, DiskState
      <3>2. disk[j].term = currentTerm[j] \/ disk[j].term < currentTerm[j]
        BY <1>0 DEF DiskCurrent
      <3> QED
        BY <3>1, <3>2
    <2> QED
      BY <1>8, <1>10, <2>1 DEF Confirmed
  <1>11. i \in S
    <2>1. index <= LastLogIndex(i) /\ snapIndex[i] \in Nat
      BY <1>0, <1>7 DEF Tallied, TypeOK
    <2>2. CASE index <= snapIndex[i]
      BY <1>8, <2>2 DEF Holds
    <2>3. CASE ~(index <= snapIndex[i])
      <3>1. OwnLog(i, first)
        BY <1>6 DEF FirstOfTerm
      <3>2. LogTerm(i, index) = currentTerm[i]
        BY <1>9, <2>1, <2>3, <3>1, OwnTerms
      <3> QED
        BY <1>8, <2>1, <3>2 DEF Holds
    <2> QED
      BY <2>2, <2>3
  <1>12. C \subseteq S
    BY <1>7, <1>9, <1>10 DEF Tallied
  <1>13. r.args.to \in S /\ r.args.to \notin C \cup {i} /\ i \notin C
    BY <1>1, <1>2, <1>3, <1>4, <1>7, <1>9, <1>10 DEF Tallied
  <1> HIDE DEF S
  <1>14. IsFiniteSet(C) /\ IsFiniteSet(S)
    BY ServerFinite, FS_Subset DEF S
  <1> DEFINE D == (C \cup {r.args.to}) \cup {i}
  <1>15. Cardinality(D) = Cardinality(C) + 2 /\ Cardinality(C) \in Nat
    <2>1. /\ IsFiniteSet(C \cup {r.args.to})
          /\ Cardinality(C \cup {r.args.to}) = Cardinality(C) + 1
      BY <1>13, <1>14, FS_AddElement
    <2>2. Cardinality(D) = Cardinality(C \cup {r.args.to}) + 1
      BY <1>13, <2>1, FS_AddElement
    <2> QED
      BY <1>14, <2>1, <2>2, FS_CardinalityType
  <1>16. Cardinality(D) <= Cardinality(S) /\ Cardinality(S) \in Nat
    <2>1. D \subseteq S
      BY <1>11, <1>12, <1>13
    <2> HIDE DEF D
    <2> QED
      BY <1>14, <2>1, FS_Subset, FS_CardinalityType
  <1> HIDE DEF D
  <1>17. Cardinality(C) + 2 >= Quorum
    <2>1. appendNums[i][round] <= Cardinality(C) + 1
      BY <1>7 DEF Tallied
    <2>2. appendNums[i][round] \in Nat
      <3>1. appendNums[i] \in Seq(Nat)
        BY <1>0 DEF TypeOK
      <3> QED
        BY <1>5, <3>1, ElementOfSeq
    <2>3. Quorum \in Nat
      BY ServerFinite, FS_CardinalityType DEF Quorum
    <2> QED
      BY <1>15, <2>1, <2>2, <2>3
  <1>18. Quorum \in Nat
    BY ServerFinite, FS_CardinalityType DEF Quorum
  <1>19. Cardinality(S) >= Quorum
    BY <1>15, <1>16, <1>17, <1>18
  <1> QED
    BY <1>19 DEF S

\* A leader moves its commit index to an entry only when a majority of the
\* servers hold it, those aside that have left the term for a later one: the
\* counter of a round counts no peer twice and no success of another round or
\* term, and a server that has once accepted an entry of the term keeps it,
\* through later calls, snapshots and crashes.
THEOREM CommitsAreHeld == Spec => CommitQuorum
  <1>1. NodeInv /\ EntryInv /\ QuorumInv /\ [Next]_vars =>
          [\A i \in Server :
             status[i] = Leader /\ status'[i] = Leader /\ commitIndex'[i] > commitIndex[i] =>
                Cardinality({j \in Server : \/ currentTerm[j] > currentTerm[i]
                                            \/ Holds(j, commitIndex'[i], currentTerm[i])})
                  >= Quorum]_vars
    <2> SUFFICES ASSUME NodeInv, EntryInv, QuorumInv, [Next]_vars, NEW i \in Server,
                        status[i] = Leader, status'[i] = Leader,
                        commitIndex'[i] > commitIndex[i]
                 PROVE  Cardinality({j \in Server :
                           \/ currentTerm[j] > currentTerm[i]
                           \/ Holds(j, commitIndex'[i], currentTerm[i])}) >= Quorum
      OBVIOUS
    <2>1. PICK r \in rpcs :
              /\ sendAppendEntries(r) /\ AppendReplySuccess(r) /\ r.args.from = i
              /\ commitIndex'[i] = Acked(r.args)
              /\ appendNums[i][r.args.round] + 1 >= Quorum
              /\ Len(r.args.entries) > 0
              /\ r.args.entries[Len(r.args.entries)].term = currentTerm[i]
      BY CommitSteps
    <2> QED
      BY <2>1, CommitHeld
  <1> QED
    BY <1>1, QuorumInvariant, PTL DEF Spec, CommitQuorum

-----------------------------------------------------------------------------
(***************************************************************************)
(* ReadIndex.                                                              *)
(***************************************************************************)
\* A heartbeat of the ReadIndex call `id' of server i, or its reply, that the
\* call's threads still wait for.
BeatOf(r, i, id) ==
    \/ r.kind = "ReadBeat" /\ r.from = i /\ r.waiting /\ r.round = id
    \/ r.kind = "ReadReply" /\ r.args.from = i /\ r.args.round = id

Beats(i) == {r \in rpcs : BeatOf(r, i, read[i].id)}

\* The server a heartbeat was sent to.
Peer(r) == IF r.kind = "ReadBeat" THEN r.to ELSE r.args.to

\* Servers Q voted in term t, servers C are the ones the call has counted:
\* no server of Q has confirmed, or will.
Refuses(i, t, Q, C) ==
    /\ Cardinality(Q) >= Quorum
    /\ \A j \in Q : \E b \in ballots : b.voter = j /\ b.term = t
    /\ \A r \in Beats(i) : r.kind = "ReadReply" /\ r.success => Peer(r) \notin Q
    /\ C \cap Q = {} /\ C \cap read[i].unsent = {}
    /\ \A r \in Beats(i) : Peer(r) \notin C
    /\ read[i].confirms <= Cardinality(C)

\* The calls are numbered, and no heartbeat carries a number not yet given.
BeatIds ==
    /\ \A i \in Server : /\ read[i].id <= reads
                         /\ read[i].phase = "idle" <=> read[i].id = 0
    /\ \A r \in rpcs : /\ r.kind = "ReadBeat" => r.round \in 1 .. reads
                       /\ r.kind = "ReadReply" => r.args.round \in 1 .. reads

\* One heartbeat per peer and call, in the term of the call.
BeatsOnce(i) ==
    /\ \A r \in Beats(i) : /\ Peer(r) \notin read[i].unsent
                           /\ r.kind = "ReadBeat" => r.term = read[i].term
    /\ \A r1, r2 \in Beats(i) : Peer(r1) = Peer(r2) => r1 = r2

\* A later term won before the call began outvotes it.
Outvoted(i) ==
    \A t \in read[i].elected : t > read[i].term =>
        \E Q \in SUBSET Server, C \in SUBSET Server : Refuses(i, t, Q, C)

Confirming(i) == read[i].phase = "confirm" => BeatsOnce(i) /\ Outvoted(i)

ReadingInv == BeatIds /\ (\A i \in Server : Confirming(i)) /\ LeadershipConfirmed

-----------------------------------------------------------------------------
(***************************************************************************)
(* What a step does to the ReadIndex calls.                                *)
(***************************************************************************)
\* Ballots are never withdrawn, and the state of a ReadIndex call changes only
\* in its own steps, in a confirmation, and with the process.
LEMMA ReadSteps ==
    ASSUME TypeOK, [Next]_vars
    PROVE  /\ ballots \subseteq ballots'
           /\ \/ UNCHANGED readVars
              \/ \E k \in Server :
                    \/ ReadIndex(k) \/ ReadIndexReturn(k) \/ WaitForApplied(k) \/ Restart(k)
                    \/ \E j \in Server : ReadIndexBeat(k, j)
              \/ \E r \in rpcs : ReadIndexConfirm(r)
  <1>1. CASE UNCHANGED vars
    BY <1>1 DEF vars, voteVars, readVars
  <1>2. ASSUME NEW i \in Server,
               \/ doElection(i) \/ doHeartBeat(i) \/ applierTicker(i)
               \/ \E command \in Command : Start(i, command)
               \/ \E index \in 1 .. MaxSnapIndex : Snapshot(i, index)
        PROVE  ballots \subseteq ballots' /\ UNCHANGED readVars
    BY <1>2 DEF doElection, doHeartBeat, applierTicker, Start, Snapshot, voteVars, readVars
  <1>3. ASSUME NEW i \in Server,
               \/ ReadIndex(i) \/ ReadIndexReturn(i) \/ WaitForApplied(i) \/ Restart(i)
               \/ \E j \in Server : ReadIndexBeat(i, j)
        PROVE  ballots \subseteq ballots'
    BY <1>3 DEF ReadIndex, ReadIndexReturn, WaitForApplied, Restart, ReadIndexBeat, voteVars
  <1>4. ASSUME NEW r \in rpcs, RequestVote(r) \/ sendRequestVote(r)
        PROVE  ballots \subseteq ballots' /\ UNCHANGED readVars
    BY <1>4 DEF RequestVote, sendRequestVote, VoteReplyNewer, VoteReplyIgnored,
                VoteReplyCounted, VoteReplyWins, voteVars, readVars
  <1>5. ASSUME NEW r \in rpcs, AppendEntries1(r) \/ sendAppendEntries(r)
        PROVE  ballots \subseteq ballots' /\ UNCHANGED readVars
    BY <1>5 DEF AppendEntries1, AppendEntriesStale, AppendEntriesMismatch, AppendEntriesMatch,
                sendAppendEntries, AppendReplyNewer, AppendReplyIgnored, AppendReplyConflict,
                AppendReplySuccess, voteVars, readVars
  <1>6. ASSUME NEW r \in rpcs,
               leaderSendSnapShot(r) \/ InstallSnapshot(r) \/ leaderSendSnapShotReply(r)
        PROVE  ballots \subseteq ballots' /\ UNCHANGED readVars
    BY <1>6 DEF leaderSendSnapShot, InstallSnapshot, InstallStale, InstallOutdated, InstallNew,
                leaderSendSnapShotReply, SnapshotReplyNewer, SnapshotReplyIgnored,
                SnapshotReplyInstalled, voteVars, readVars
  <1>7. ASSUME NEW r \in rpcs, ReadIndexConfirm(r)
        PROVE  ballots \subseteq ballots'
    BY <1>7 DEF ReadIndexConfirm, voteVars
  <1> QED
    BY <1>1, <1>2, <1>3, <1>4, <1>5, <1>6, <1>7 DEF Next

\* A heartbeat that a call waits for appears when ReadIndexBeat sends it, and
\* turns into a reply when AppendEntries1 answers it; a success means the peer
\* was not in a later term.
Sent(r, i) ==
    /\ r.kind = "ReadBeat" /\ r.to \in Server /\ ReadIndexBeat(i, r.to)
    /\ r.term = read[i].term /\ rpcs' = rpcs \cup {r}

Answered(r, i, id) ==
    /\ r.kind = "ReadReply" /\ r.args \in rpcs /\ r.args.kind = "ReadBeat"
    /\ BeatOf(r.args, i, id) /\ rpcs' = (rpcs \ {r.args}) \cup {r}
    /\ UNCHANGED <<readVars, ballots>>
    /\ r.args.to \in Server /\ r.args.term \in Nat
    /\ r.success => r.args.term >= currentTerm[r.args.to]

\* A heartbeat of a ReadIndex call, or its reply, is new only because it was just sent or
\* just answered.
LEMMA NewBeats ==
    ASSUME NodeInv, NodeInv', [Next]_vars, NEW r \in rpcs', r \notin rpcs,
           NEW i \in Server, NEW id, BeatOf(r, i, id)
    PROVE  \/ Sent(r, i) /\ id = read[i].id
           \/ Answered(r, i, id)
  <1>0. TypeOK /\ TypeOK'
    BY DEF NodeInv
  <1>1. NewCall(r)
    BY CallSteps
  <1>2. CASE r.kind = "ReadBeat"
    <2>1. r \in AppendRequests
      <3>1. r \in Rpc
        BY <1>0 DEF TypeOK
      <3> QED
        BY <1>2, <3>1 DEF Rpc, VoteRequests, VoteReplies, SnapshotThreads, AppendRequests,
                          AppendReplies, SnapshotRequests, SnapshotReplies
    <2>2. r.from = i /\ r.waiting /\ r.round = id
      BY <1>2 DEF BeatOf
    <2>3. FromLeader(r)
      <3>1. ASSUME NEW q \in rpcs, q \in AppendRequests, "waiting" \in DOMAIN q,
                   r = [q EXCEPT !.waiting = FALSE]
            PROVE  FALSE
        <4>1. q \in Rpc
          BY <1>0 DEF TypeOK
        <4>2. r.waiting = FALSE
          BY <3>1, <4>1, AbandonedCall
        <4> QED
          BY <2>2, <4>2
      <3> QED
        BY <1>0, <1>1, <2>1, <3>1, NewCallOfType
    <2>4. /\ ReadIndexBeat(i, r.to) /\ r.round = read[i].id /\ r.term = currentTerm[i]
          /\ read[i].term = currentTerm[i] /\ rpcs' = rpcs \cup {r}
      BY <1>2, <2>2, <2>3 DEF FromLeader
    <2>5. r.to \in Server
      BY <2>1 DEF AppendRequests
    <2> QED
      BY <1>2, <2>2, <2>4, <2>5 DEF Sent
  <1>3. CASE r.kind = "ReadReply"
    <2>1. r \in AppendReplies
      <3>1. r \in Rpc
        BY <1>0 DEF TypeOK
      <3> QED
        BY <1>3, <3>1 DEF Rpc, VoteRequests, VoteReplies, SnapshotThreads, AppendRequests,
                          AppendReplies, SnapshotRequests, SnapshotReplies
    <2>2. Answers(r)
      BY <1>0, <1>1, <2>1, NewCallOfType
    <2>3. r.args.from = i /\ r.args.round = id
      BY <1>3 DEF BeatOf
    <2> DEFINE a == r.args
    <2>4. /\ a \in rpcs /\ a \in AppendRequests /\ a.waiting /\ Reply(a, r)
          /\ a.kind = "ReadBeat"
      BY <1>3, <2>2 DEF Answers
    <2>5. rpcs' = (rpcs \ {a}) \cup {r}
      BY <2>4 DEF Reply
    <2>6. a.to \in Server /\ a.term \in Nat
      BY <2>4 DEF AppendRequests
    <2>7. \/ r.success /\ AppendEntriesMatch(a)
          \/ ~r.success /\ AppendEntriesStale(a)
          \/ ~r.success /\ AppendEntriesMismatch(a)
      BY <2>2 DEF Answers
    <2>8. UNCHANGED <<readVars, ballots>>
      BY <2>7 DEF AppendEntriesMatch, AppendEntriesStale, AppendEntriesMismatch, voteVars
    <2>9. r.success => a.term >= currentTerm[a.to]
      BY <2>7 DEF AppendEntriesMatch, FollowSender
    <2>10. BeatOf(a, i, id)
      BY <2>3, <2>4 DEF BeatOf
    <2> QED
      BY <1>3, <2>4, <2>5, <2>6, <2>8, <2>9, <2>10 DEF Answered
  <1> QED
    BY <1>2, <1>3 DEF BeatOf

\* The fields of a ReadIndex call, before and after a step.
LEMMA ReadTypes ==
    ASSUME TypeOK, NEW i \in Server
    PROVE  /\ read[i] \in ReadState /\ read[i].id \in Nat /\ read[i].term \in Nat
           /\ read[i].confirms \in Nat /\ read[i].unsent \in SUBSET Server
           /\ read[i].elected \in SUBSET Nat /\ reads \in Nat
           /\ read[i].phase \in {"idle", "confirm", "wait"}
  <1>1. read[i] \in ReadState /\ reads \in Nat
    BY DEF TypeOK
  <1> QED
    BY <1>1 DEF ReadState

\* What a step does to one call.
Moves(i) ==
    \/ read'[i] = read[i]
    \/ ReadIndex(i)
    \/ read[i].phase = "confirm" /\ read'[i] = [read[i] EXCEPT !.phase = "wait"]
         /\ ReadIndexReturn(i) /\ read[i].confirms >= Quorum
    \/ read'[i] = NoRead
    \/ \E j \in read[i].unsent : ReadIndexBeat(i, j)
                                   /\ read'[i] = [read[i] EXCEPT !.unsent = @ \ {j}]
    \/ \E r \in Beats(i) : /\ ReadIndexConfirm(r) /\ r.kind = "ReadReply" /\ r.success
                           /\ read'[i] = [read[i] EXCEPT !.confirms = @ + 1]

\* A ReadIndex call changes in its own steps only, and only ReadIndex issues a number.
LEMMA ReadMoves ==
    ASSUME NodeInv, [Next]_vars, NEW i \in Server
    PROVE  Moves(i) /\ (reads' = reads \/ \E k \in Server : ReadIndex(k))
  <1>0. TypeOK
    BY DEF NodeInv
  <1>1. read \in [Server -> ReadState]
    BY <1>0 DEF TypeOK
  <1>2. CASE UNCHANGED readVars
    BY <1>2 DEF readVars, Moves
  <1>3. ASSUME NEW k \in Server, ReadIndex(k)
        PROVE  Moves(i)
    BY <1>1, <1>3 DEF ReadIndex, Moves
  <1>4. ASSUME NEW k \in Server, ReadIndexReturn(k)
        PROVE  Moves(i) /\ reads' = reads
    <2>1. reads' = reads
      BY <1>4 DEF ReadIndexReturn
    <2>2. CASE k # i
      BY <1>1, <1>4, <2>2 DEF ReadIndexReturn, Moves
    <2>3. CASE k = i
      <3>1. \/ /\ read[i].confirms >= Quorum /\ read' = [read EXCEPT ![i].phase = "wait"]
               /\ read[i].phase = "confirm"
            \/ read' = [read EXCEPT ![i] = NoRead]
        BY <1>4, <2>3 DEF ReadIndexReturn
      <3> QED
        BY <1>1, <1>4, <2>1, <2>3, <3>1 DEF Moves
    <2> QED
      BY <2>1, <2>2, <2>3
  <1>5. ASSUME NEW k \in Server, WaitForApplied(k) \/ Restart(k)
        PROVE  Moves(i) /\ reads' = reads
    BY <1>1, <1>5 DEF WaitForApplied, Restart, Moves
  <1>6. ASSUME NEW k \in Server, NEW j \in Server, ReadIndexBeat(k, j)
        PROVE  Moves(i) /\ reads' = reads
    <2>1. j \in read[k].unsent /\ read' = [read EXCEPT ![k].unsent = @ \ {j}] /\ reads' = reads
      BY <1>6 DEF ReadIndexBeat
    <2> QED
      BY <1>1, <1>6, <2>1 DEF Moves
  <1>7. ASSUME NEW r \in rpcs, ReadIndexConfirm(r)
        PROVE  Moves(i) /\ reads' = reads
    <2> DEFINE k == r.args.from
    <2>1. /\ r.kind = "ReadReply" /\ reads' = reads
          /\ read' = [read EXCEPT ![k].confirms =
                IF read[k].id = r.args.round /\ Confirms(r) THEN @ + 1 ELSE @]
      BY <1>7 DEF ReadIndexConfirm
    <2>2. k \in Server
      <3>1. r \in AppendReplies
        BY <1>0, <2>1, RpcKinds
      <3> QED
        BY <3>1 DEF AppendReplies, AppendRequests
    <2>3. CASE k = i /\ read[k].id = r.args.round /\ r.success
      <3>1. r \in Beats(i)
        BY <2>1, <2>3 DEF Beats, BeatOf
      <3>2. read'[i] = [read[i] EXCEPT !.confirms = @ + 1]
        BY <1>1, <2>1, <2>3 DEF Confirms
      <3> QED
        BY <1>7, <2>1, <2>3, <3>1, <3>2 DEF Moves
    <2>4. CASE ~(k = i /\ read[k].id = r.args.round /\ r.success)
      <3>1. read'[i] = read[i]
        <4>1. read[i] = [read[i] EXCEPT !.confirms = read[i].confirms]
          <5>1. read[i] \in ReadState
            BY <1>1
          <5> QED
            BY <5>1 DEF ReadState
        <4>2. CASE k # i
          BY <1>1, <2>1, <4>2
        <4>3. CASE k = i
          BY <1>1, <2>1, <2>4, <4>1, <4>3 DEF Confirms
        <4> QED
          BY <4>2, <4>3
      <3> QED
        BY <2>1, <3>1 DEF Moves
    <2> QED
      BY <2>3, <2>4
  <1> QED
    BY <1>0, <1>2, <1>3, <1>4, <1>5, <1>6, <1>7, ReadSteps DEF readVars

\* Numbers of calls are given once and never ahead of the counter.
LEMMA BeatIdsStep ==
    ASSUME NodeInv, NodeInv', BeatIds, [Next]_vars
    PROVE  BeatIds' /\ reads' \in Nat /\ reads' >= reads
  <1>0. TypeOK /\ TypeOK'
    BY DEF NodeInv
  <1>1. reads \in Nat /\ reads' \in Nat /\ read \in [Server -> ReadState]
        /\ rpcs \subseteq Rpc /\ rpcs' \subseteq Rpc
    BY <1>0 DEF TypeOK
  <1>2. reads' >= reads
    <2>1. \A k \in Server : ReadIndex(k) => reads' = reads + 1
      BY DEF ReadIndex
    <2> QED
      BY <1>1, <2>1, ServerFinite, ReadMoves
  <1>3. ASSUME NEW i \in Server
        PROVE  read'[i].id <= reads' /\ (read'[i].phase = "idle" <=> read'[i].id = 0)
    <2>1. read[i] \in ReadState /\ read[i].id \in Nat /\ read[i].phase \in {"idle", "confirm", "wait"}
      BY <1>0, ReadTypes
    <2>2. read[i].id <= reads /\ (read[i].phase = "idle" <=> read[i].id = 0)
      BY DEF BeatIds
    <2>3. CASE ReadIndex(i)
      <3>1. reads' = reads + 1 /\ read'[i].id = reads' /\ read'[i].phase = "confirm"
        BY <1>1, <2>3 DEF ReadIndex
      <3> QED
        BY <1>1, <3>1
    <2>4. CASE read'[i] = NoRead
      BY <1>1, <2>4 DEF NoRead
    <2>5. CASE /\ read'[i].id = read[i].id
               /\ (read'[i].phase = "idle") <=> (read[i].phase = "idle")
      BY <1>1, <1>2, <2>1, <2>2, <2>5
    <2>6. CASE read[i].phase = "confirm" /\ read'[i] = [read[i] EXCEPT !.phase = "wait"]
      <3>1. read'[i].id = read[i].id /\ read'[i].phase = "wait"
        BY <2>1, <2>6 DEF ReadState
      <3> QED
        BY <2>5, <2>6, <3>1
    <2>7. ASSUME NEW j, read'[i] = [read[i] EXCEPT !.unsent = @ \ {j}]
          PROVE  read'[i].id = read[i].id /\ read'[i].phase = read[i].phase
      BY <2>1, <2>7 DEF ReadState
    <2>8. ASSUME read'[i] = [read[i] EXCEPT !.confirms = @ + 1]
          PROVE  read'[i].id = read[i].id /\ read'[i].phase = read[i].phase
      BY <2>1, <2>8 DEF ReadState
    <2>9. Moves(i)
      BY ReadMoves
    <2> QED
      BY <2>3, <2>4, <2>5, <2>6, <2>7, <2>8, <2>9 DEF Moves
  <1>4. ASSUME NEW r \in rpcs'
        PROVE  /\ r.kind = "ReadBeat" => r.round \in 1 .. reads'
               /\ r.kind = "ReadReply" => r.args.round \in 1 .. reads'
    <2>1. \A n : n \in 1 .. reads => n \in 1 .. reads'
      BY <1>1, <1>2
    <2>2. CASE r \in rpcs
      BY <2>1, <2>2 DEF BeatIds
    <2>3. CASE r \notin rpcs /\ r.kind = "ReadBeat"
      <3>1. NewCall(r)
        BY <2>3, CallSteps
      <3>2. r \in AppendRequests
        BY <1>1, <2>3 DEF Rpc, VoteRequests, VoteReplies, SnapshotThreads, AppendRequests,
                          AppendReplies, SnapshotRequests, SnapshotReplies
      <3>3. CASE FromLeader(r)
        <4>1. r.from \in Server /\ r.round = read[r.from].id /\ ReadIndexBeat(r.from, r.to)
          BY <2>3, <3>2, <3>3 DEF FromLeader, AppendRequests
        <4>2. read[r.from].phase = "confirm"
          BY <4>1 DEF ReadIndexBeat
        <4>3. read[r.from].id <= reads /\ read[r.from].id # 0
          BY <4>1, <4>2 DEF BeatIds
        <4>4. read[r.from].id \in Nat
          BY <1>0, <4>1, ReadTypes
        <4>5. r.round \in 1 .. reads
          BY <1>1, <4>1, <4>3, <4>4
        <4> QED
          BY <2>1, <2>3, <4>5
      <3>4. ASSUME NEW q \in rpcs, q \in AppendRequests, "waiting" \in DOMAIN q,
                   r = [q EXCEPT !.waiting = FALSE]
            PROVE  r.round \in 1 .. reads
        <4>1. r.kind = q.kind /\ r.round = q.round
          BY <1>1, <3>4, AbandonedCall
        <4> QED
          BY <2>3, <4>1 DEF BeatIds
      <3> QED
        BY <1>0, <2>1, <2>3, <3>1, <3>2, <3>3, <3>4, NewCallOfType
    <2>4. CASE r \notin rpcs /\ r.kind = "ReadReply"
      <3>1. NewCall(r)
        BY <2>4, CallSteps
      <3>2. r \in AppendReplies
        BY <1>1, <2>4 DEF Rpc, VoteRequests, VoteReplies, SnapshotThreads, AppendRequests,
                          AppendReplies, SnapshotRequests, SnapshotReplies
      <3>3. Answers(r)
        BY <1>0, <3>1, <3>2, NewCallOfType
      <3>4. r.args \in rpcs /\ r.args.kind = "ReadBeat"
        BY <2>4, <3>3 DEF Answers
      <3> QED
        BY <2>1, <2>4, <3>4 DEF BeatIds
    <2> QED
      BY <2>2, <2>3, <2>4
  <1> QED
    BY <1>1, <1>2, <1>3, <1>4 DEF BeatIds

\* A call whose counter does not move, and for which no heartbeat is added.
LEMMA ConfirmingFrame ==
    ASSUME NEW i \in Server, Confirming(i), ballots \subseteq ballots', Beats(i)' \subseteq Beats(i),
           read'[i].phase = "confirm" =>
              /\ read[i].phase = "confirm" /\ read'[i].term = read[i].term
              /\ read'[i].elected = read[i].elected /\ read'[i].confirms = read[i].confirms
              /\ read'[i].unsent \subseteq read[i].unsent
    PROVE  Confirming(i)'
  <1> SUFFICES ASSUME read'[i].phase = "confirm" PROVE BeatsOnce(i)' /\ Outvoted(i)'
    BY DEF Confirming
  <1>1. BeatsOnce(i) /\ Outvoted(i)
    BY DEF Confirming
  <1>2. BeatsOnce(i)'
    BY <1>1 DEF BeatsOnce, Peer
  <1>3. ASSUME NEW t \in read[i].elected, NEW Q \in SUBSET Server, NEW C \in SUBSET Server,
               Refuses(i, t, Q, C)
        PROVE  Refuses(i, t, Q, C)'
    BY <1>3 DEF Refuses, Peer
  <1> QED
    BY <1>1, <1>2, <1>3 DEF Outvoted

\* AppendEntries1 answers one of the call's heartbeats: a server that voted in
\* a later term refuses it.
LEMMA ConfirmingAnswer ==
    ASSUME NodeInv, VoteInv, NEW i \in Server, Confirming(i), NEW r \in rpcs',
           Answered(r, i, read[i].id)
    PROVE  Confirming(i)'
  <1>0. TypeOK /\ DiskCurrent /\ BallotsOnDisk
    BY DEF NodeInv, VoteInv
  <1> DEFINE a == r.args
  <1>1. /\ r.kind = "ReadReply" /\ a \in rpcs /\ a.kind = "ReadBeat"
        /\ BeatOf(a, i, read[i].id) /\ rpcs' = (rpcs \ {a}) \cup {r}
        /\ read' = read /\ ballots' = ballots /\ a.to \in Server /\ a.term \in Nat
        /\ r.success => a.term >= currentTerm[a.to]
    BY DEF Answered, readVars
  <1>2. a \in Beats(i) /\ Peer(a) = a.to /\ Peer(r) = a.to
    BY <1>1 DEF Beats, Peer
  <1>3. \A q \in Beats(i)' : q = r \/ (q \in Beats(i) /\ q # a)
    BY <1>1 DEF Beats
  <1> SUFFICES ASSUME read[i].phase = "confirm" PROVE BeatsOnce(i)' /\ Outvoted(i)'
    BY <1>1 DEF Confirming
  <1>4. BeatsOnce(i) /\ Outvoted(i)
    BY DEF Confirming
  <1>5. BeatsOnce(i)'
    <2>1. ASSUME NEW q \in Beats(i)'
          PROVE  /\ Peer(q) \notin read[i].unsent
                 /\ q.kind = "ReadBeat" => q.term = read[i].term
      <3>1. CASE q = r
        BY <1>1, <1>2, <1>4, <3>1 DEF BeatsOnce
      <3> QED
        BY <1>3, <1>4, <2>1, <3>1 DEF BeatsOnce
    <2>2. ASSUME NEW q1 \in Beats(i)', NEW q2 \in Beats(i)', Peer(q1) = Peer(q2)
          PROVE  q1 = q2
      <3>1. \A q \in Beats(i) : Peer(q) = a.to => q = a
        BY <1>2, <1>4 DEF BeatsOnce
      <3> QED
        BY <1>2, <1>3, <1>4, <2>2, <3>1 DEF BeatsOnce
    <2> QED
      BY <1>1, <2>1, <2>2 DEF BeatsOnce, Peer
  <1>6. ASSUME NEW t \in read[i].elected, t > read[i].term,
               NEW Q \in SUBSET Server, NEW C \in SUBSET Server, Refuses(i, t, Q, C)
        PROVE  Refuses(i, t, Q, C)'
    <2>1. r.success => a.to \notin Q
      <3> SUFFICES ASSUME r.success, a.to \in Q PROVE FALSE
        OBVIOUS
      <3>1. PICK b \in ballots : b.voter = a.to /\ b.term = t
        BY <1>6 DEF Refuses
      <3>2. b.term <= currentTerm[a.to] /\ b.term \in Nat
        BY <1>0, <3>1, BallotsInMemory
      <3>3. a.term = read[i].term
        BY <1>1, <1>2, <1>4 DEF BeatsOnce
      <3>4. currentTerm[a.to] \in Nat /\ read[i].term \in Nat
        <4>1. currentTerm[a.to] \in Nat
          BY <1>0, <1>1 DEF TypeOK
        <4> QED
          BY <1>0, <4>1, ReadTypes
      <3> QED
        BY <1>1, <1>6, <3>1, <3>2, <3>3, <3>4
    <2>2. ASSUME NEW q \in Beats(i)'
          PROVE  /\ q.kind = "ReadReply" /\ q.success => Peer(q) \notin Q
                 /\ Peer(q) \notin C
      <3>1. CASE q = r
        BY <1>2, <1>6, <2>1, <3>1 DEF Refuses
      <3>2. CASE q \in Beats(i)
        BY <1>6, <3>2 DEF Refuses
      <3> QED
        BY <1>3, <2>2, <3>1, <3>2
    <2> QED
      BY <1>1, <1>6, <2>2 DEF Refuses, Peer
  <1> QED
    BY <1>1, <1>4, <1>5, <1>6 DEF Outvoted

\* ReadIndexBeat sends one of the call's heartbeats.
LEMMA ConfirmingSent ==
    ASSUME NodeInv, NEW i \in Server, Confirming(i), NEW r \in rpcs', Sent(r, i)
    PROVE  Confirming(i)'
  <1>0. TypeOK /\ read \in [Server -> ReadState]
    BY DEF NodeInv, TypeOK
  <1>1. /\ r.kind = "ReadBeat" /\ r.to \in read[i].unsent /\ r.term = read[i].term
        /\ rpcs' = rpcs \cup {r} /\ read' = [read EXCEPT ![i].unsent = @ \ {r.to}]
        /\ ballots' = ballots /\ read[i].phase = "confirm"
    BY DEF Sent, ReadIndexBeat, voteVars
  <1>2. /\ read'[i].unsent = read[i].unsent \ {r.to} /\ read'[i].phase = read[i].phase
        /\ read'[i].term = read[i].term /\ read'[i].id = read[i].id
        /\ read'[i].elected = read[i].elected /\ read'[i].confirms = read[i].confirms
    <2>1. read[i] \in ReadState
      BY <1>0
    <2> QED
      BY <1>0, <1>1, <2>1 DEF ReadState
  <1>3. \A q \in Beats(i)' : q = r \/ q \in Beats(i)
    BY <1>1, <1>2 DEF Beats
  <1>4. BeatsOnce(i) /\ Outvoted(i)
    BY <1>1 DEF Confirming
  <1>5. Peer(r) = r.to
    BY <1>1 DEF Peer
  <1>6. BeatsOnce(i)'
    <2>1. ASSUME NEW q \in Beats(i)'
          PROVE  /\ Peer(q) \notin read[i].unsent \ {r.to}
                 /\ q.kind = "ReadBeat" => q.term = read[i].term
      <3>1. CASE q = r
        BY <1>1, <1>5, <3>1
      <3> QED
        BY <1>3, <1>4, <2>1, <3>1 DEF BeatsOnce
    <2>2. ASSUME NEW q1 \in Beats(i)', NEW q2 \in Beats(i)', Peer(q1) = Peer(q2)
          PROVE  q1 = q2
      <3>1. \A q \in Beats(i) : Peer(q) # r.to
        BY <1>1, <1>4 DEF BeatsOnce
      <3> QED
        BY <1>3, <1>4, <1>5, <2>2, <3>1 DEF BeatsOnce
    <2> QED
      BY <1>2, <2>1, <2>2 DEF BeatsOnce, Peer
  <1>7. ASSUME NEW t \in read[i].elected,
               NEW Q \in SUBSET Server, NEW C \in SUBSET Server, Refuses(i, t, Q, C)
        PROVE  Refuses(i, t, Q, C)'
    <2>1. ASSUME NEW q \in Beats(i)'
          PROVE  /\ q.kind = "ReadReply" /\ q.success => Peer(q) \notin Q
                 /\ Peer(q) \notin C
      <3>1. CASE q = r
        BY <1>1, <1>5, <1>7, <3>1 DEF Refuses
      <3>2. CASE q \in Beats(i)
        BY <1>7, <3>2 DEF Refuses
      <3> QED
        BY <1>3, <2>1, <3>1, <3>2
    <2> QED
      BY <1>1, <1>2, <1>7, <2>1 DEF Refuses, Peer
  <1> QED
    BY <1>2, <1>4, <1>6, <1>7 DEF Outvoted, Confirming

\* The call counts a success: its peer is outside Q, and was not counted yet.
LEMMA ConfirmingCount ==
    ASSUME NodeInv, NEW i \in Server, Confirming(i), NEW r \in Beats(i), ReadIndexConfirm(r),
           r.kind = "ReadReply", r.success, read'[i] = [read[i] EXCEPT !.confirms = @ + 1]
    PROVE  Confirming(i)'
  <1>0. TypeOK /\ read \in [Server -> ReadState]
    BY DEF NodeInv, TypeOK
  <1>1. rpcs' = rpcs \ {r} /\ ballots' = ballots
    BY DEF ReadIndexConfirm, Consume, voteVars
  <1>2. /\ read'[i].unsent = read[i].unsent /\ read'[i].phase = read[i].phase
        /\ read'[i].term = read[i].term /\ read'[i].id = read[i].id
        /\ read'[i].elected = read[i].elected /\ read'[i].confirms = read[i].confirms + 1
    <2>1. read[i] \in ReadState
      BY <1>0
    <2> QED
      BY <2>1 DEF ReadState
  <1>3. \A q \in Beats(i)' : q \in Beats(i) /\ q # r
    BY <1>1, <1>2 DEF Beats
  <1> SUFFICES ASSUME read[i].phase = "confirm" PROVE BeatsOnce(i)' /\ Outvoted(i)'
    BY <1>2 DEF Confirming
  <1>4. BeatsOnce(i) /\ Outvoted(i)
    BY DEF Confirming
  <1>5. BeatsOnce(i)'
    BY <1>2, <1>3, <1>4 DEF BeatsOnce, Peer
  <1>6. ASSUME NEW t \in read[i].elected,
               NEW Q \in SUBSET Server, NEW C \in SUBSET Server, Refuses(i, t, Q, C)
        PROVE  Refuses(i, t, Q, C \cup {Peer(r)})'
    <2>1. Peer(r) \notin C /\ Peer(r) \notin Q /\ Peer(r) \notin read[i].unsent
      BY <1>4, <1>6 DEF Refuses, BeatsOnce
    <2>2. IsFiniteSet(C) /\ Cardinality(C) \in Nat
      BY ServerFinite, FS_Subset, FS_CardinalityType
    <2>3. Cardinality(C \cup {Peer(r)}) = Cardinality(C) + 1
      BY <2>1, <2>2, FS_AddElement
    <2>4. read[i].confirms + 1 <= Cardinality(C \cup {Peer(r)})
      <3>1. read[i].confirms \in Nat
        BY <1>0, ReadTypes
      <3>2. read[i].confirms <= Cardinality(C)
        BY <1>6 DEF Refuses
      <3> QED
        BY <2>2, <2>3, <3>1, <3>2
    <2>5. \A q \in Beats(i)' : Peer(q) \notin C \cup {Peer(r)}
      BY <1>3, <1>4, <1>6 DEF Refuses, BeatsOnce
    <2>6. /\ (C \cup {Peer(r)}) \cap Q = {}
          /\ (C \cup {Peer(r)}) \cap read[i].unsent = {}
      BY <1>6, <2>1 DEF Refuses
    <2> DEFINE D == C \cup {Peer(r)}
    <2> HIDE DEF D
    <2>7. Refuses(i, t, Q, D)'
      <3>1. /\ \A q \in Beats(i)' : Peer(q) \notin D
            /\ D \cap Q = {} /\ D \cap read[i].unsent = {} /\ read[i].confirms + 1 <= Cardinality(D)
        BY <2>4, <2>5, <2>6 DEF D
      <3> QED
        BY <1>1, <1>2, <1>3, <1>6, <3>1 DEF Refuses, Peer
    <2> QED
      BY <2>7 DEF D, Peer
  <1>7. Peer(r) \in Server
    <2>1. r \in AppendReplies
      BY <1>0, RpcKinds DEF Beats
    <2> QED
      BY <2>1 DEF Peer, AppendReplies, AppendRequests
  <1>8. ASSUME NEW t \in read[i].elected, t > read[i].term
        PROVE  \E Q \in SUBSET Server, C \in SUBSET Server : Refuses(i, t, Q, C)'
    <2>1. PICK Q \in SUBSET Server, C \in SUBSET Server : Refuses(i, t, Q, C)
      BY <1>4, <1>8 DEF Outvoted
    <2> DEFINE D == C \cup {Peer(r)}
    <2>2. D \in SUBSET Server
      BY <1>7
    <2>3. Refuses(i, t, Q, D)'
      BY <1>6, <1>8, <2>1
    <2> HIDE DEF D
    <2> QED
      BY <2>2, <2>3
  <1> QED
    BY <1>2, <1>5, <1>8 DEF Outvoted

\* The call begins: whoever has won a later term has a majority of ballots, and
\* the caller, which is in an earlier one, is not among the voters.
LEMMA ConfirmingBegin ==
    ASSUME NodeInv, VoteInv, BeatIds, NEW i \in Server, ReadIndex(i)
    PROVE  Confirming(i)'
  <1>0. TypeOK /\ DiskCurrent /\ BallotsOnDisk /\ WinnersElected
    BY DEF NodeInv, VoteInv
  <1>1. /\ read \in [Server -> ReadState] /\ reads \in Nat
        /\ currentTerm[i] \in Nat /\ won \subseteq [term : Nat, leader : Server]
    BY <1>0 DEF TypeOK
  <1>2. /\ rpcs' = rpcs /\ reads' = reads + 1 /\ ballots' = ballots
        /\ read'[i].id = reads + 1 /\ read'[i].term = currentTerm[i]
        /\ read'[i].confirms = 1 /\ read'[i].unsent = Server \ {i}
        /\ read'[i].elected = {w.term : w \in won}
    BY <1>1 DEF ReadIndex, voteVars
  <1>3. Beats(i)' = {}
    <2>1. \A n \in 1 .. reads : n # reads + 1
      BY <1>1
    <2>2. \A r \in rpcs : ~BeatOf(r, i, reads + 1)
      BY <2>1 DEF BeatIds, BeatOf
    <2> QED
      BY <1>2, <2>2 DEF Beats
  <1>4. BeatsOnce(i)'
    BY <1>3 DEF BeatsOnce
  <1>5. ASSUME NEW w \in won, w.term > currentTerm[i]
        PROVE  \E Q \in SUBSET Server, C \in SUBSET Server : Refuses(i, w.term, Q, C)'
    <2>1. PICK Q \in SUBSET Server :
            Cardinality(Q) >= Quorum /\ \A j \in Q : Ballot(j, w.term, w.leader) \in ballots
      BY <1>0 DEF WinnersElected
    <2>2. \A j \in Q : \E b \in ballots : b.voter = j /\ b.term = w.term
      BY <2>1 DEF Ballot
    <2>3. i \notin Q
      <3> SUFFICES ASSUME i \in Q PROVE FALSE
        OBVIOUS
      <3>1. PICK b \in ballots : b.voter = i /\ b.term = w.term
        BY <2>2
      <3>2. b.term <= currentTerm[i] /\ b.term \in Nat
        BY <1>0, <3>1, BallotsInMemory
      <3> QED
        BY <1>1, <1>5, <3>1, <3>2
    <2> DEFINE C == {i}
    <2>4. C \in SUBSET Server /\ Cardinality(C) = 1 /\ C \cap Q = {} /\ C \cap (Server \ {i}) = {}
      BY <2>3, FS_Singleton
    <2> HIDE DEF C
    <2>5. Refuses(i, w.term, Q, C)'
      BY <1>2, <1>3, <2>1, <2>2, <2>4 DEF Refuses
    <2> QED
      BY <2>4, <2>5
  <1>6. Outvoted(i)'
    <2> SUFFICES ASSUME NEW t \in read'[i].elected, t > read'[i].term
                 PROVE  \E Q \in SUBSET Server, C \in SUBSET Server : Refuses(i, t, Q, C)'
      BY DEF Outvoted
    <2>1. PICK w \in won : t = w.term
      BY <1>2
    <2> QED
      BY <1>2, <1>5, <2>1
  <1> QED
    BY <1>4, <1>6 DEF Confirming

\* A call that collects confirmations stays outvoted by the terms won before it began.
LEMMA ConfirmingStep ==
    ASSUME NodeInv, NodeInv', VoteInv, BeatIds, [Next]_vars, NEW i \in Server, Confirming(i)
    PROVE  Confirming(i)'
  <1>0. TypeOK /\ TypeOK'
    BY DEF NodeInv
  <1>1. ballots \subseteq ballots' /\ Moves(i)
    BY <1>0, ReadSteps, ReadMoves
  <1>2. CASE ReadIndex(i)
    BY <1>2, ConfirmingBegin
  <1>3. CASE read'[i] = NoRead
    BY <1>3 DEF NoRead, Confirming
  <1>4. CASE read'[i].id = read[i].id
    <2>1. CASE \E r \in Beats(i)' : r \notin rpcs
      <3>1. PICK r \in Beats(i)' : r \notin rpcs
        BY <2>1
      <3>2. r \in rpcs' /\ BeatOf(r, i, read[i].id)
        BY <1>4, <3>1 DEF Beats
      <3>3. Sent(r, i) \/ Answered(r, i, read[i].id)
        <4> DEFINE id == read[i].id
        <4>1. BeatOf(r, i, id)
          BY <3>2
        <4> HIDE DEF id
        <4>2. Sent(r, i) \/ Answered(r, i, id)
          BY <3>1, <3>2, <4>1, NewBeats
        <4> QED
          BY <4>2 DEF id
      <3> QED
        BY <3>2, <3>3, ConfirmingSent, ConfirmingAnswer
    <2>2. CASE \A r \in Beats(i)' : r \in rpcs
      <3>1. Beats(i)' \subseteq Beats(i)
        BY <1>4, <2>2 DEF Beats
      <3>2. read[i] \in ReadState
        BY <1>0 DEF TypeOK
      <3>3. CASE read'[i] = read[i]
        BY <1>1, <3>1, <3>3, ConfirmingFrame
      <3>4. CASE read'[i] = [read[i] EXCEPT !.phase = "wait"]
        <4>1. read'[i].phase = "wait"
          BY <3>2, <3>4 DEF ReadState
        <4> QED
          BY <4>1 DEF Confirming
      <3>5. ASSUME NEW j, read'[i] = [read[i] EXCEPT !.unsent = @ \ {j}]
            PROVE  Confirming(i)'
        <4>1. /\ read'[i].phase = read[i].phase /\ read'[i].term = read[i].term
              /\ read'[i].elected = read[i].elected /\ read'[i].confirms = read[i].confirms
              /\ read'[i].unsent \subseteq read[i].unsent
          BY <3>2, <3>5 DEF ReadState
        <4> QED
          BY <1>1, <3>1, <4>1, ConfirmingFrame
      <3> QED
        BY <1>1, <1>2, <1>3, <3>3, <3>4, <3>5, ConfirmingCount DEF Moves
    <2> QED
      BY <2>1, <2>2
  <1>5. read'[i].id = read[i].id \/ ReadIndex(i) \/ read'[i] = NoRead
    <2>1. read[i] \in ReadState
      BY <1>0 DEF TypeOK
    <2>2. /\ [read[i] EXCEPT !.phase = "wait"].id = read[i].id
          /\ [read[i] EXCEPT !.confirms = @ + 1].id = read[i].id
          /\ \A j : [read[i] EXCEPT !.unsent = @ \ {j}].id = read[i].id
      BY <2>1 DEF ReadState
    <2> QED
      BY <1>1, <2>2 DEF Moves
  <1> QED
    BY <1>2, <1>3, <1>4, <1>5

\* A majority of confirmations would be disjoint from the majority that voted.
LEMMA ReturnConfirmed ==
    ASSUME NodeInv, NEW i \in Server, read[i].phase = "confirm", Outvoted(i),
           read[i].confirms >= Quorum, NEW t \in read[i].elected
    PROVE  t <= read[i].term
  <1>0. TypeOK
    BY DEF NodeInv
  <1>1. t \in Nat /\ read[i].term \in Nat /\ read[i].confirms \in Nat
    BY <1>0, ReadTypes
  <1> SUFFICES ASSUME t > read[i].term PROVE FALSE
    BY <1>1
  <1>2. PICK Q \in SUBSET Server, C \in SUBSET Server : Refuses(i, t, Q, C)
    BY DEF Outvoted
  <1>3. /\ Cardinality(Server) \in Nat
        /\ IsFiniteSet(Q) /\ Cardinality(Q) \in Nat
        /\ IsFiniteSet(C) /\ Cardinality(C) \in Nat
    BY ServerFinite, FS_Subset, FS_CardinalityType
  <1>4. Cardinality(Q) >= Quorum /\ read[i].confirms <= Cardinality(C) /\ C \cap Q = {}
    BY <1>2 DEF Refuses
  <1>5. Cardinality(C) + Cardinality(Q) > Cardinality(Server)
    BY <1>1, <1>3, <1>4 DEF Quorum
  <1> QED
    BY <1>3, <1>4, <1>5, ServerFinite, FS_MajoritiesIntersect

\* A call succeeds with a majority of confirmations, which an outvoted call never has.
LEMMA LeadershipStep ==
    ASSUME NodeInv, ReadingInv, [Next]_vars
    PROVE  LeadershipConfirmed'
  <1>0. TypeOK
    BY DEF NodeInv
  <1> SUFFICES ASSUME NEW i \in Server, read'[i].phase = "wait", NEW t \in read'[i].elected
               PROVE  t <= read'[i].term
    BY DEF LeadershipConfirmed
  <1>1. Moves(i) /\ read \in [Server -> ReadState] /\ read[i] \in ReadState
    BY <1>0, ReadMoves DEF TypeOK
  <1>2. ASSUME read[i].phase = "wait", read'[i].elected = read[i].elected,
               read'[i].term = read[i].term
        PROVE  t <= read'[i].term
    BY <1>2 DEF ReadingInv, LeadershipConfirmed
  <1>3. CASE read'[i] = read[i]
    BY <1>2, <1>3
  <1>4. CASE ReadIndex(i)
    BY <1>1, <1>4 DEF ReadIndex
  <1>5. CASE read[i].phase = "confirm" /\ read'[i] = [read[i] EXCEPT !.phase = "wait"]
             /\ read[i].confirms >= Quorum
    <2>1. read'[i].elected = read[i].elected /\ read'[i].term = read[i].term
      BY <1>1, <1>5 DEF ReadState
    <2>2. Outvoted(i)
      BY <1>5 DEF ReadingInv, Confirming
    <2> QED
      BY <1>5, <2>1, <2>2, ReturnConfirmed
  <1>6. CASE read'[i] = NoRead
    BY <1>6 DEF NoRead
  <1>7. ASSUME NEW j, read'[i] = [read[i] EXCEPT !.unsent = @ \ {j}]
        PROVE  t <= read'[i].term
    <2>1. /\ read'[i].elected = read[i].elected /\ read'[i].term = read[i].term
          /\ read'[i].phase = read[i].phase
      BY <1>1, <1>7 DEF ReadState
    <2> QED
      BY <1>2, <2>1
  <1>8. ASSUME read'[i] = [read[i] EXCEPT !.confirms = @ + 1]
        PROVE  t <= read'[i].term
    <2>1. /\ read'[i].elected = read[i].elected /\ read'[i].term = read[i].term
          /\ read'[i].phase = read[i].phase
      BY <1>1, <1>8 DEF ReadState
    <2> QED
      BY <1>2, <2>1
  <1> QED
    BY <1>1, <1>3, <1>4, <1>5, <1>6, <1>7, <1>8 DEF Moves

\* The invariant holds in every reachable state.
THEOREM ReadInvariant == Spec => [](NodeInv /\ VoteInv /\ ReadingInv)
  <1>1. Init => ReadingInv
    <2> SUFFICES ASSUME Init PROVE ReadingInv
      OBVIOUS
    <2>1. rpcs = {} /\ reads = 0 /\ \A i \in Server : read[i] = NoRead
      BY DEF Init
    <2>2. \A i \in Server : read[i].phase = "idle" /\ read[i].id = 0
      BY <2>1 DEF NoRead
    <2> QED
      BY <2>1, <2>2 DEF ReadingInv, BeatIds, Confirming, LeadershipConfirmed
  <1>2. NodeInv /\ VoteInv /\ ReadingInv /\ [Next]_vars => (NodeInv /\ VoteInv /\ ReadingInv)'
    <2> SUFFICES ASSUME NodeInv, VoteInv, ReadingInv, [Next]_vars
                 PROVE  NodeInv' /\ VoteInv' /\ ReadingInv'
      OBVIOUS
    <2>1. NodeInv' /\ VoteInv'
      BY NextInv, NextVotes
    <2>2. BeatIds' /\ \A i \in Server : Confirming(i)'
      BY <2>1, BeatIdsStep, ConfirmingStep DEF ReadingInv
    <2>3. LeadershipConfirmed'
      BY LeadershipStep
    <2> QED
      BY <2>1, <2>2, <2>3 DEF ReadingInv
  <1> QED
    BY <1>1, <1>2, InitInv, InitVotes, PTL DEF Spec

\* When ReadIndex succeeds, no later term had been won when it was called, for
\* any number of servers, any loss and reordering of heartbeats and replies,
\* and any number of crashes: the count of confirmations alone, whatever terms
\* the replies carry, is enough.
THEOREM ReadIndexConfirmed == Spec => []LeadershipConfirmed
  <1>1. ReadingInv => LeadershipConfirmed
    BY DEF ReadingInv
  <1> QED
    BY <1>1, ReadInvariant, PTL
============================================================================
