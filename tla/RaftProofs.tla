----------------------------- MODULE RaftProofs -----------------------------
(***************************************************************************)
(* Proofs about Raft, for any finite set of servers and any bounds: types, *)
(* the shape of a log and the order of the positions in it, what is on     *)
(* disk, then votes and elections.                                         *)
(***************************************************************************)
EXTENDS Raft, SequenceTheorems, FiniteSetTheorems, WellFoundedInduction, TLAPS

\* The arguments of an AppendEntries call list consecutive entries that end
\* inside the caller's log.
AppendWellFormed(a) ==
    /\ \A k \in 1 .. Len(a.entries) : a.entries[k].index = a.prevIndex + k
    /\ a.prevIndex + Len(a.entries) <= LastLogIndex(a.from)

\* What the handlers rely on in the calls they receive.
RpcBounds ==
    \A r \in rpcs :
        /\ r \in AppendRequests => AppendWellFormed(r)
        /\ r \in AppendReplies => AppendWellFormed(r.args)

NodeInv == TypeOK /\ LogContiguous /\ IndexOrder /\ DiskCurrent /\ RpcBounds

-----------------------------------------------------------------------------
\* A set of naturals has a least element.
LEMMA LeastNat ==
    ASSUME NEW S \in SUBSET Nat, S # {}
    PROVE  \E k \in S : \A l \in S : k <= l
  <1> DEFINE R == OpToRel(<, Nat)
  <1>1. IsWellFoundedOn(R, Nat)
    BY NatLessThanWellFounded, Zenon
  <1>2. \A x, y \in Nat : x < y => <<x, y>> \in R
    BY DEF OpToRel
  <1> HIDE DEF R
  <1>3. PICK k \in S : \A l \in S : ~ (<<l, k>> \in R)
    BY <1>1, WFMin
  <1>4. \A l \in S : ~ (l < k)
    BY <1>2, <1>3
  <1> QED
    BY <1>4

\* Elements of logs.
LEMMA EntryAt ==
    ASSUME NEW s \in Seq(Entry), NEW k \in 1 .. Len(s)
    PROVE  s[k] \in Entry /\ s[k].term \in Nat /\ s[k].index \in Nat
  <1>1. s[k] \in Entry
    BY ElementOfSeq
  <1> QED
    BY <1>1 DEF Entry

LEMMA LastOfSeq ==
    ASSUME NEW s \in Seq(Entry)
    PROVE  /\ Len(s) \in Nat
           /\ s = <<>> <=> Len(s) = 0
           /\ s # <<>> => Len(s) \in 1 .. Len(s)
  BY LenProperties, EmptySeq

\* The last index is the snapshot's plus the number of entries.
LEMMA LastIndexIsLength ==
    ASSUME TypeOK, LogContiguous, NEW i \in Server
    PROVE  /\ LastLogIndex(i) = snapIndex[i] + Len(logs[i])
           /\ LastLogIndex(i) \in Nat /\ snapIndex[i] \in Nat
           /\ Len(logs[i]) \in Nat /\ logs[i] \in Seq(Entry)
  <1>1. logs[i] \in Seq(Entry) /\ snapIndex[i] \in Nat
    BY DEF TypeOK
  <1> QED
    BY <1>1, LastOfSeq DEF LogContiguous, LastLogIndex

LEMMA LastIndexIsLengthNext ==
    ASSUME TypeOK', LogContiguous', NEW i \in Server
    PROVE  /\ LastLogIndex(i)' = snapIndex'[i] + Len(logs'[i])
           /\ LastLogIndex(i)' \in Nat /\ snapIndex'[i] \in Nat
           /\ Len(logs'[i]) \in Nat /\ logs'[i] \in Seq(Entry)
  <1>1. logs'[i] \in Seq(Entry) /\ snapIndex'[i] \in Nat
    BY DEF TypeOK
  <1> QED
    BY <1>1, LastOfSeq DEF LogContiguous, LastLogIndex

LEMMA LastTermType ==
    ASSUME TypeOK, NEW i \in Server
    PROVE  LastLogTerm(i) \in Nat
  <1>1. logs[i] \in Seq(Entry) /\ snapTerm[i] \in Nat
    BY DEF TypeOK
  <1> QED
    BY <1>1, LastOfSeq, EntryAt DEF LastLogTerm

LEMMA LogTermType ==
    ASSUME TypeOK, LogContiguous, NEW i \in Server, NEW k \in Int,
           k >= snapIndex[i], k <= LastLogIndex(i)
    PROVE  LogTerm(i, k) \in Nat
  <1>1. snapTerm[i] \in Nat
    BY DEF TypeOK
  <1>2. k # snapIndex[i] => Slice(i, k) \in 1 .. Len(logs[i])
    BY LastIndexIsLength DEF Slice
  <1> QED
    BY <1>1, <1>2, LastIndexIsLength, EntryAt DEF LogTerm

\* A merged log is a log.
LEMMA MergeType ==
    ASSUME NEW log \in Seq(Entry), NEW es \in Seq(Entry), NEW from \in Nat,
           from <= Len(log)
    PROVE  /\ MergeEntries(log, from, es) \in Seq(Entry)
           /\ Len(MergeEntries(log, from, es)) = Maximum(Len(log), from + Len(es))
  BY DEF MergeEntries, Maximum

LEMMA DropPrefixProperties ==
    ASSUME TypeOK, LogContiguous, NEW i \in Server, NEW k \in Int,
           k >= snapIndex[i], k <= LastLogIndex(i)
    PROVE  /\ DropPrefix(i, k) \in Seq(Entry)
           /\ Len(DropPrefix(i, k)) = LastLogIndex(i) - k
           /\ \A m \in 1 .. LastLogIndex(i) - k :
                 DropPrefix(i, k)[m] = logs[i][k - snapIndex[i] + m]
  <1> DEFINE s == logs[i]
             m == k - snapIndex[i] + 1
  <1>1. s \in Seq(Entry) /\ m \in Int /\ 1 <= m /\ m <= Len(s) + 1 /\ Len(s) \in Nat
        /\ LastLogIndex(i) - k = Len(s) - m + 1
    BY LastIndexIsLength
  <1>0. snapIndex[i] \in Nat
    BY DEF TypeOK
  <1>3. DropPrefix(i, k) = SubSeq(s, m, Len(s))
    BY DEF DropPrefix, Slice
  <1>4. \A q \in Int : k - snapIndex[i] + q = m + q - 1
    BY <1>0
  <1> HIDE DEF s, m
  <1>5. \A q \in m .. Len(s) : s[q] \in Entry
    BY <1>1, EntryAt
  <1>2. /\ SubSeq(s, m, Len(s)) \in Seq(Entry)
        /\ Len(SubSeq(s, m, Len(s))) = IF m <= Len(s) THEN Len(s) - m + 1 ELSE 0
        /\ \A q \in 1 .. Len(s) - m + 1 : SubSeq(s, m, Len(s))[q] = s[m + q - 1]
    BY <1>1, <1>5, SubSeqProperties
  <1>6. Len(SubSeq(s, m, Len(s))) = LastLogIndex(i) - k
    BY <1>1, <1>2
  <1>7. ASSUME NEW q \in 1 .. LastLogIndex(i) - k
        PROVE  SubSeq(s, m, Len(s))[q] = s[k - snapIndex[i] + q]
    <2>1. q \in Int /\ q \in 1 .. Len(s) - m + 1
      BY <1>1
    <2>2. k - snapIndex[i] + q = m + q - 1
      BY <1>4, <2>1
    <2>3. SubSeq(s, m, Len(s))[q] = s[m + q - 1]
      BY <1>2, <2>1
    <2> QED
      BY <2>2, <2>3
  <1> QED
    BY <1>2, <1>3, <1>6, <1>7 DEF s

-----------------------------------------------------------------------------
\* The kind of an RPC record is its type.
LEMMA RpcKinds ==
    ASSUME TypeOK, NEW r \in rpcs
    PROVE  /\ r.kind = "RequestVote" => r \in VoteRequests
           /\ r.kind \in {"AppendEntries", "ReadBeat"} => r \in AppendRequests
           /\ r.kind = "SnapshotThread" => r \in SnapshotThreads
           /\ r.kind = "InstallSnapshot" => r \in SnapshotRequests
           /\ r.kind = "VoteReply" => r \in VoteReplies
           /\ r.kind \in {"AppendReply", "ReadReply"} => r \in AppendReplies
           /\ r.kind = "SnapshotReply" => r \in SnapshotReplies
  <1>1. r \in Rpc
    BY DEF TypeOK
  <1> QED
    BY <1>1 DEF Rpc, VoteRequests, AppendRequests, SnapshotThreads, SnapshotRequests,
                VoteReplies, AppendReplies, SnapshotReplies

\* The fields of the server that persistData saves have their types.
NodeTypes ==
    /\ status \in [Server -> {Follower, Candidate, Leader}]
    /\ currentTerm \in [Server -> Nat]
    /\ votedFor \in [Server -> Server \cup {Nil}]
    /\ logs \in [Server -> Seq(Entry)]
    /\ snapIndex \in [Server -> Nat]
    /\ snapTerm \in [Server -> Nat]

\* persist() leaves the disk as the step leaves the server.
LEMMA PersistStep ==
    ASSUME TypeOK, DiskCurrent, NodeTypes', NEW i \in Server, Persist(i),
           \A j \in Server \ {i} :
              /\ status'[j] = status[j] /\ currentTerm'[j] = currentTerm[j]
              /\ votedFor'[j] = votedFor[j] /\ logs'[j] = logs[j]
              /\ snapIndex'[j] = snapIndex[j] /\ snapTerm'[j] = snapTerm[j]
    PROVE  disk' \in [Server -> DiskState] /\ DiskCurrent'
  <1>1. disk \in [Server -> DiskState]
    BY DEF TypeOK
  <1>2. disk' = [disk EXCEPT ![i] =
           [term |-> currentTerm'[i], votedFor |-> votedFor'[i], log |-> logs'[i],
            snapIndex |-> snapIndex'[i], snapTerm |-> snapTerm'[i]]]
    BY DEF Persist, PersistData
  <1>3. disk' \in [Server -> DiskState]
    BY <1>1, <1>2 DEF NodeTypes, DiskState
  <1>4. \A j \in Server \ {i} : disk'[j] = disk[j]
    BY <1>1, <1>2
  <1>5. /\ disk'[i].term = currentTerm'[i] /\ disk'[i].votedFor = votedFor'[i]
        /\ disk'[i].log = logs'[i]
        /\ disk'[i].snapIndex = snapIndex'[i] /\ disk'[i].snapTerm = snapTerm'[i]
    BY <1>1, <1>2
  <1> QED
    BY <1>3, <1>4, <1>5 DEF DiskCurrent

\* A step that touches neither a server nor its disk.
LEMMA DiskFrame ==
    ASSUME DiskCurrent, UNCHANGED <<serverVars, logVars, disk>>
    PROVE  DiskCurrent'
  BY DEF DiskCurrent, serverVars, logVars

\* A step that leaves the logs and the positions in them alone.
LEMMA LogFrame ==
    ASSUME LogContiguous, IndexOrder, UNCHANGED <<logs, snapIndex, commitIndex, lastApplied>>
    PROVE  LogContiguous' /\ IndexOrder' /\ \A i \in Server : LastLogIndex(i)' = LastLogIndex(i)
  BY DEF LogContiguous, IndexOrder, LastLogIndex

\* Calls in progress stay well-formed while logs do not shrink.
LEMMA StillWellFormed ==
    ASSUME TypeOK, LogContiguous, TypeOK', LogContiguous',
           \A i \in Server : LastLogIndex(i)' >= LastLogIndex(i),
           NEW a \in AppendRequests, AppendWellFormed(a)
    PROVE  AppendWellFormed(a)'
  <1> SUFFICES a.prevIndex + Len(a.entries) <= LastLogIndex(a.from)'
    BY DEF AppendWellFormed
  <1>1. a.from \in Server /\ a.prevIndex \in Nat /\ a.entries \in Seq(Entry)
    BY DEF AppendRequests
  <1>2. Len(a.entries) \in Nat
    BY <1>1, LastOfSeq
  <1>3. LastLogIndex(a.from) \in Nat
    BY <1>1, LastIndexIsLength
  <1>4. LastLogIndex(a.from)' \in Nat
    BY <1>1, LastIndexIsLengthNext
  <1> QED
    BY <1>1, <1>2, <1>3, <1>4 DEF AppendWellFormed

LEMMA RpcFrame ==
    ASSUME TypeOK, LogContiguous, TypeOK', LogContiguous', RpcBounds,
           \A i \in Server : LastLogIndex(i)' >= LastLogIndex(i),
           \A r \in rpcs' : \/ r \in rpcs
                            \/ /\ r \in AppendRequests => AppendWellFormed(r)'
                               /\ r \in AppendReplies => AppendWellFormed(r.args)'
    PROVE  RpcBounds'
  <1>1. \A a \in AppendRequests : AppendWellFormed(a) => AppendWellFormed(a)'
    BY StillWellFormed
  <1>2. \A r \in AppendReplies : r.args \in AppendRequests
    BY DEF AppendReplies
  <1> QED
    BY <1>1, <1>2 DEF RpcBounds

\* A record that is no AppendEntries call, in either direction.
Plain(r) == r \notin AppendRequests /\ r \notin AppendReplies

LEMMA PlainRecords ==
    ASSUME NEW r, r \in VoteRequests \/ r \in VoteReplies \/ r \in SnapshotThreads
                  \/ r \in SnapshotRequests \/ r \in SnapshotReplies
    PROVE  Plain(r)
  BY DEF Plain, VoteRequests, VoteReplies, SnapshotThreads, SnapshotRequests, SnapshotReplies,
         AppendRequests, AppendReplies

\* What remains to be shown of a step that leaves logs and positions alone.
LEMMA QuietStep ==
    ASSUME NodeInv, UNCHANGED <<logs, snapIndex, commitIndex, lastApplied>>, TypeOK', DiskCurrent',
           \A r \in rpcs' : \/ r \in rpcs
                            \/ Plain(r)
                            \/ r \in AppendRequests /\ AppendWellFormed(r)
                            \/ r \in AppendReplies /\ AppendWellFormed(r.args)
    PROVE  NodeInv'
  <1>0. TypeOK /\ LogContiguous /\ IndexOrder /\ DiskCurrent /\ RpcBounds
    BY DEF NodeInv
  <1>1. LogContiguous' /\ IndexOrder' /\ \A i \in Server : LastLogIndex(i)' = LastLogIndex(i)
    BY <1>0, LogFrame
  <1>2. \A i \in Server : LastLogIndex(i)' >= LastLogIndex(i)
    BY <1>0, <1>1, LastIndexIsLength
  <1>3. \A a \in AppendRequests : AppendWellFormed(a) => AppendWellFormed(a)'
    BY <1>1 DEF AppendWellFormed, AppendRequests
  <1>4. \A r \in AppendRequests : r \notin AppendReplies
    BY DEF AppendRequests, AppendReplies
  <1>5. \A r \in AppendReplies : r.args \in AppendRequests
    BY DEF AppendReplies
  <1>6. RpcBounds'
    BY <1>0, <1>1, <1>2, <1>3, <1>4, <1>5, RpcFrame DEF Plain
  <1> QED
    BY <1>1, <1>6 DEF NodeInv

\* What remains to be shown of a step in which no log gets shorter.
LEMMA GrowingStep ==
    ASSUME NodeInv, TypeOK', LogContiguous', IndexOrder', DiskCurrent',
           \A i \in Server : LastLogIndex(i)' >= LastLogIndex(i),
           \A r \in rpcs' : \/ r \in rpcs
                            \/ Plain(r)
                            \/ r \in AppendReplies /\ r.args \in rpcs
    PROVE  NodeInv'
  <1>0. TypeOK /\ LogContiguous /\ RpcBounds
    BY DEF NodeInv
  <1>1. \A r \in AppendReplies : r.args \in AppendRequests /\ r \notin AppendRequests
    BY DEF AppendRequests, AppendReplies
  <1>2. \A a \in AppendRequests : a \in rpcs => AppendWellFormed(a)
    BY <1>0 DEF RpcBounds
  <1>3. \A a \in AppendRequests : AppendWellFormed(a) => AppendWellFormed(a)'
    BY <1>0, StillWellFormed
  <1>4. \A r \in rpcs' : \/ r \in rpcs
                          \/ /\ r \in AppendRequests => AppendWellFormed(r)'
                             /\ r \in AppendReplies => AppendWellFormed(r.args)'
    BY <1>1, <1>2, <1>3 DEF Plain
  <1>5. RpcBounds'
    BY <1>0, <1>4, RpcFrame
  <1> QED
    BY <1>5 DEF NodeInv

-----------------------------------------------------------------------------
(***************************************************************************)
(* One lemma per action.                                                   *)
(***************************************************************************)
LEMMA doElectionInv ==
    ASSUME NodeInv, NEW i \in Server, doElection(i)
    PROVE  NodeInv'
  <1>0. TypeOK /\ LogContiguous /\ IndexOrder /\ DiskCurrent /\ RpcBounds
    BY DEF NodeInv
  <1>2. NodeTypes'
    BY <1>0, SMTT(30) DEF doElection, logVars, NodeTypes, TypeOK
  <1>3. disk' \in [Server -> DiskState] /\ DiskCurrent'
    BY <1>0, <1>2, PersistStep DEF doElection, logVars, TypeOK
  <1>4. \A j \in Server : [VoteRequest(i, j) EXCEPT !.term = currentTerm'[i]] \in VoteRequests
    BY <1>0, <1>2, LastIndexIsLength, LastTermType DEF VoteRequest, VoteRequests, NodeTypes
  <1>5. TypeOK'
    <2>1. rpcs' \subseteq Rpc
      BY <1>0, <1>4 DEF doElection, TypeOK, Rpc
    <2>2. ballots' \subseteq [voter : Server, term : Nat, candidate : Server]
      BY <1>0, <1>2, SMTT(30) DEF doElection, TypeOK, NodeTypes
    <2>3. votedNum' \in [Server -> Nat] /\ voters' \in [Server -> SUBSET Server]
      BY <1>0 DEF doElection, TypeOK
    <2>4. /\ UNCHANGED <<applyVars, leaderVars, readVars>>
          /\ UNCHANGED <<won, applied, restarts>>
      BY DEF doElection
    <2> QED
      BY <1>0, <1>2, <1>3, <2>1, <2>2, <2>3, <2>4
         DEF TypeOK, NodeTypes, applyVars, leaderVars, readVars
  <1>6. \A r \in rpcs' : r \in rpcs \/ Plain(r)
    BY <1>4, PlainRecords DEF doElection
  <1> QED
    BY <1>3, <1>5, <1>6, QuietStep DEF doElection, logVars, applyVars

\* The reply of a handler replaces the request.
LEMMA ReplyType ==
    ASSUME TypeOK, NEW request, NEW reply \in Rpc, Reply(request, reply)
    PROVE  rpcs' \subseteq Rpc /\ \A r \in rpcs' : r \in rpcs \/ r = reply
  BY DEF Reply, TypeOK

LEMMA RequestVoteInv ==
    ASSUME NodeInv, NEW r \in rpcs, RequestVote(r)
    PROVE  NodeInv'
  <1> DEFINE j == r.to
             newer == r.term > currentTerm[j]
             term == Maximum(r.term, currentTerm[j])
             vote == IF newer THEN Nil ELSE votedFor[j]
             grant == /\ r.term >= currentTerm[j]
                      /\ UpToDate(j, r.lastIndex, r.lastTerm)
                      /\ vote \in {Nil, r.from}
             reply == [kind |-> "VoteReply", args |-> r, term |-> term, granted |-> grant]
  <1>0. TypeOK /\ DiskCurrent
    BY DEF NodeInv
  <1>1. r \in VoteRequests
    BY <1>0, RpcKinds DEF RequestVote
  <1>2. j \in Server /\ r.from \in Server /\ r.term \in Nat /\ r.waiting \in BOOLEAN
    BY <1>1 DEF VoteRequests
  <1>3. term \in Nat /\ vote \in Server \cup {Nil} /\ grant \in BOOLEAN
    BY <1>0, <1>2 DEF TypeOK, Maximum
  <1>4. /\ status' = [status EXCEPT ![j] = IF newer THEN Follower ELSE @]
        /\ currentTerm' = [currentTerm EXCEPT ![j] = term]
        /\ votedFor' = [votedFor EXCEPT ![j] = IF grant THEN r.from ELSE vote]
        /\ ballots' = IF grant
                      THEN ballots \cup {[voter |-> j, term |-> term, candidate |-> r.from]}
                      ELSE ballots
        /\ Reply(r, reply)
        /\ UNCHANGED <<logVars, applyVars, leaderVars, votedNum, voters, won, readVars,
                       applied, restarts>>
        /\ Persist(j)
    BY DEF RequestVote
  <1>5. reply \in VoteReplies
    BY <1>1, <1>3 DEF VoteReplies
  <1> HIDE DEF j, newer, term, vote, grant, reply
  <1>6. NodeTypes'
    BY <1>0, <1>2, <1>3, <1>4 DEF NodeTypes, TypeOK, logVars
  <1>7. disk' \in [Server -> DiskState] /\ DiskCurrent'
    BY <1>0, <1>2, <1>4, <1>6, PersistStep DEF logVars, TypeOK
  <1>8. rpcs' \subseteq Rpc /\ \A q \in rpcs' : q \in rpcs \/ Plain(q)
    BY <1>0, <1>4, <1>5, ReplyType, PlainRecords DEF Rpc
  <1>9. ballots' \subseteq [voter : Server, term : Nat, candidate : Server]
    <2>1. [voter |-> j, term |-> term, candidate |-> r.from]
            \in [voter : Server, term : Nat, candidate : Server]
      BY <1>2, <1>3
    <2>2. ballots' \subseteq ballots \cup {[voter |-> j, term |-> term, candidate |-> r.from]}
      BY <1>4
    <2> QED
      BY <1>0, <2>1, <2>2 DEF TypeOK
  <1>10. TypeOK'
    BY <1>0, <1>4, <1>6, <1>7, <1>8, <1>9
       DEF TypeOK, NodeTypes, applyVars, leaderVars, readVars
  <1> QED
    BY <1>4, <1>7, <1>8, <1>10, QuietStep DEF logVars, applyVars

\* The replies of RequestVote that change no log.
LEMMA VoteReplyInv ==
    ASSUME NodeInv, NEW r \in rpcs, r.kind = "VoteReply", Consume(r),
           VoteReplyNewer(r) \/ VoteReplyIgnored(r) \/ VoteReplyCounted(r)
    PROVE  NodeInv'
  <1> DEFINE i == r.args.from
  <1>0. TypeOK /\ DiskCurrent
    BY DEF NodeInv
  <1>1. i \in Server /\ r.args.to \in Server /\ r.term \in Nat
    BY <1>0, RpcKinds DEF VoteReplies, VoteRequests
  <1>2. rpcs' \subseteq Rpc /\ \A q \in rpcs' : q \in rpcs
    BY <1>0 DEF Consume, TypeOK
  <1> HIDE DEF i
  <1>3. CASE VoteReplyNewer(r)
    <2>1. /\ StepDown(i, r.term) /\ Persist(i)
          /\ UNCHANGED <<logVars, applyVars, leaderVars, voteVars, readVars, applied, restarts>>
      BY <1>3 DEF VoteReplyNewer, i
    <2>2. NodeTypes'
      BY <1>0, <1>1, <2>1 DEF StepDown, NodeTypes, TypeOK, logVars
    <2>3. disk' \in [Server -> DiskState] /\ DiskCurrent'
      BY <1>0, <1>1, <2>1, <2>2, PersistStep DEF StepDown, logVars, TypeOK
    <2>4. TypeOK'
      BY <1>0, <1>2, <2>1, <2>2, <2>3
         DEF TypeOK, NodeTypes, applyVars, leaderVars, voteVars, readVars
    <2> QED
      BY <1>2, <2>1, <2>3, <2>4, QuietStep DEF logVars, applyVars
  <1>4. CASE VoteReplyIgnored(r)
    <2>1. UNCHANGED <<serverVars, logVars, applyVars, leaderVars, voteVars, readVars,
                      disk, applied, restarts>>
      BY <1>4 DEF VoteReplyIgnored
    <2>2. TypeOK'
      BY <1>0, <1>2, <2>1
         DEF TypeOK, serverVars, logVars, applyVars, leaderVars, voteVars, readVars
    <2> QED
      BY <1>0, <1>2, <2>1, <2>2, QuietStep, DiskFrame DEF logVars, applyVars
  <1>5. CASE VoteReplyCounted(r)
    <2>1. /\ UNCHANGED <<serverVars, logVars, applyVars, leaderVars, ballots, won, readVars,
                         disk, applied, restarts>>
          /\ votedNum' = [votedNum EXCEPT ![i] = VotesAfter(@)]
          /\ voters' = [voters EXCEPT ![i] = @ \cup {r.args.to}]
      BY <1>5 DEF VoteReplyCounted, CountVote, i
    <2>2. Quorum \in Int
      BY FS_CardinalityType, ServerFinite DEF Quorum
    <2>3. VotesAfter(votedNum[i]) \in Nat
      BY <1>0, <1>1, <2>2 DEF TypeOK, VotesAfter
    <2>4. votedNum' \in [Server -> Nat]
      BY <1>0, <2>1, <2>3 DEF TypeOK
    <2>5. voters' \in [Server -> SUBSET Server]
      BY <1>0, <1>1, <2>1 DEF TypeOK
    <2>6. TypeOK'
      BY <1>0, <1>2, <2>1, <2>4, <2>5
         DEF TypeOK, serverVars, logVars, applyVars, leaderVars, readVars
    <2> QED
      BY <1>0, <1>2, <2>1, <2>6, QuietStep, DiskFrame DEF logVars, applyVars
  <1> QED
    BY <1>3, <1>4, <1>5

\* Appending an entry to the log of one server.
LEMMA AppendToLog ==
    ASSUME NodeInv, NEW i \in Server, NEW command \in Command \cup {Noop},
           logs' = [logs EXCEPT ![i] = Append(@, NewEntry(i, command))],
           UNCHANGED <<snapIndex, commitIndex, lastApplied>>
    PROVE  /\ logs' \in [Server -> Seq(Entry)]
           /\ LogContiguous' /\ IndexOrder'
           /\ \A j \in Server : LastLogIndex(j)' >= LastLogIndex(j)
           /\ \A j \in Server \ {i} : logs'[j] = logs[j]
  <1>0. TypeOK /\ LogContiguous /\ IndexOrder
    BY DEF NodeInv
  <1>1. /\ LastLogIndex(i) = snapIndex[i] + Len(logs[i])
        /\ snapIndex[i] \in Nat /\ Len(logs[i]) \in Nat /\ logs[i] \in Seq(Entry)
    BY <1>0, LastIndexIsLength
  <1>2. NewEntry(i, command) \in Entry /\ NewEntry(i, command).index = snapIndex[i] + Len(logs[i]) + 1
    BY <1>0, <1>1 DEF NewEntry, Entry, TypeOK
  <1> DEFINE e == NewEntry(i, command)
             log == Append(logs[i], e)
  <1> HIDE DEF e
  <1>3. /\ log \in Seq(Entry) /\ Len(log) = Len(logs[i]) + 1
        /\ \A k \in 1 .. Len(logs[i]) : log[k] = logs[i][k]
        /\ log[Len(logs[i]) + 1] = e
    BY <1>1, <1>2, AppendProperties DEF e
  <1>4. logs' = [logs EXCEPT ![i] = log]
    BY DEF e
  <1> HIDE DEF log
  <1>5. logs' \in [Server -> Seq(Entry)] /\ logs'[i] = log
        /\ \A j \in Server \ {i} : logs'[j] = logs[j]
    BY <1>0, <1>3, <1>4 DEF TypeOK
  <1>6. \A k \in 1 .. Len(log) : log[k].index = snapIndex[i] + k
    <2>1. e.index = snapIndex[i] + Len(logs[i]) + 1
      BY <1>2 DEF e
    <2>2. \A k \in 1 .. Len(logs[i]) : log[k].index = snapIndex[i] + k
      BY <1>0, <1>3 DEF LogContiguous
    <2>3. log[Len(logs[i]) + 1].index = snapIndex[i] + (Len(logs[i]) + 1)
      BY <1>1, <1>3, <2>1
    <2>4. \A k \in 1 .. Len(log) : k \in 1 .. Len(logs[i]) \/ k = Len(logs[i]) + 1
      BY <1>1, <1>3
    <2> QED
      BY <2>2, <2>3, <2>4
  <1>7. LogContiguous'
    BY <1>0, <1>5, <1>6 DEF LogContiguous
  <1>8. log # <<>> /\ log[Len(log)].index = LastLogIndex(i) + 1
    <2>1. Len(log) \in 1 .. Len(log) /\ Len(log) # 0
      BY <1>1, <1>3
    <2>2. log[Len(log)].index = snapIndex[i] + Len(log)
      BY <1>6, <2>1
    <2>3. snapIndex[i] + Len(log) = LastLogIndex(i) + 1
      BY <1>1, <1>3
    <2> QED
      BY <1>3, <2>1, <2>2, <2>3, LastOfSeq
  <1>9. /\ LastLogIndex(i)' = LastLogIndex(i) + 1
        /\ \A j \in Server \ {i} : LastLogIndex(j)' = LastLogIndex(j)
    BY <1>5, <1>8 DEF LastLogIndex
  <1>10. \A j \in Server : LastLogIndex(j) \in Nat /\ LastLogIndex(j)' \in Nat
                           /\ LastLogIndex(j)' >= LastLogIndex(j)
    BY <1>0, <1>9, LastIndexIsLength
  <1>11. \A j \in Server : snapIndex[j] \in Nat /\ commitIndex[j] \in Nat /\ lastApplied[j] \in Nat
    BY <1>0 DEF TypeOK
  <1>12. IndexOrder'
    BY <1>0, <1>10, <1>11 DEF IndexOrder
  <1> QED
    BY <1>5, <1>7, <1>10, <1>12

LEMMA StartInv ==
    ASSUME NodeInv, NEW i \in Server, NEW command \in Command, Start(i, command)
    PROVE  NodeInv'
  <1>0. TypeOK /\ DiskCurrent
    BY DEF NodeInv
  <1>1. /\ logs' = [logs EXCEPT ![i] = Append(@, NewEntry(i, command))]
        /\ UNCHANGED <<serverVars, snapIndex, snapTerm, applyVars, leaderVars, voteVars,
                       readVars, rpcs, applied, restarts>>
        /\ Persist(i)
    BY DEF Start
  <1>2. /\ logs' \in [Server -> Seq(Entry)]
        /\ LogContiguous' /\ IndexOrder'
        /\ \A j \in Server : LastLogIndex(j)' >= LastLogIndex(j)
        /\ \A j \in Server \ {i} : logs'[j] = logs[j]
    BY <1>1, AppendToLog DEF applyVars
  <1>3. NodeTypes'
    BY <1>0, <1>1, <1>2 DEF NodeTypes, TypeOK, serverVars
  <1>4. disk' \in [Server -> DiskState] /\ DiskCurrent'
    BY <1>0, <1>1, <1>2, <1>3, PersistStep DEF serverVars
  <1>5. TypeOK'
    BY <1>0, <1>1, <1>3, <1>4 DEF TypeOK, NodeTypes, applyVars, leaderVars, voteVars, readVars
  <1> QED
    BY <1>1, <1>2, <1>4, <1>5, GrowingStep

LEMMA VoteReplyWinsInv ==
    ASSUME NodeInv, NEW r \in rpcs, r.kind = "VoteReply", Consume(r), VoteReplyWins(r)
    PROVE  NodeInv'
  <1> DEFINE i == r.args.from
  <1>0. TypeOK /\ LogContiguous /\ DiskCurrent
    BY DEF NodeInv
  <1>1. i \in Server /\ r.args.to \in Server
    BY <1>0, RpcKinds DEF VoteReplies, VoteRequests
  <1>2. rpcs' \subseteq Rpc /\ \A q \in rpcs' : q \in rpcs
    BY <1>0 DEF Consume, TypeOK
  <1>3. /\ status' = [status EXCEPT ![i] = Leader]
        /\ votedNum' = [votedNum EXCEPT ![i] = VotesAfter(@)]
        /\ voters' = [voters EXCEPT ![i] = @ \cup {r.args.to}]
        /\ nextIndex' = [nextIndex EXCEPT ![i] = [j \in Server |-> LastLogIndex(i) + 1]]
        /\ matchIndex' = [matchIndex EXCEPT ![i] = [j \in Server |-> 0]]
        /\ appendNums' = [appendNums EXCEPT ![i] = <<>>]
        /\ logs' = [logs EXCEPT ![i] = Append(@, NewEntry(i, Noop))]
        /\ won' = won \cup {[term |-> currentTerm[i], leader |-> i]}
        /\ UNCHANGED <<currentTerm, votedFor, snapIndex, snapTerm, applyVars, rounds, ballots,
                       readVars, applied, restarts>>
        /\ Persist(i)
    BY DEF VoteReplyWins, CountVote
  <1> HIDE DEF i
  <1>4. /\ logs' \in [Server -> Seq(Entry)]
        /\ LogContiguous' /\ IndexOrder'
        /\ \A j \in Server : LastLogIndex(j)' >= LastLogIndex(j)
        /\ \A j \in Server \ {i} : logs'[j] = logs[j]
    BY <1>1, <1>3, AppendToLog DEF applyVars
  <1>5. NodeTypes'
    BY <1>0, <1>1, <1>3, <1>4 DEF NodeTypes, TypeOK
  <1>6. disk' \in [Server -> DiskState] /\ DiskCurrent'
    <2>1. \A j \in Server \ {i} : status'[j] = status[j]
      BY <1>0, <1>1, <1>3 DEF TypeOK
    <2> QED
      BY <1>0, <1>1, <1>3, <1>4, <1>5, <2>1, PersistStep
  <1>7. TypeOK'
    <2>1. VotesAfter(votedNum[i]) \in Nat
      <3>1. Quorum \in Int
        BY FS_CardinalityType, ServerFinite DEF Quorum
      <3> QED
        BY <1>0, <1>1, <3>1 DEF TypeOK, VotesAfter
    <2>2. votedNum' \in [Server -> Nat]
      BY <1>0, <1>3, <2>1 DEF TypeOK
    <2>3. voters' \in [Server -> SUBSET Server]
      BY <1>0, <1>1, <1>3 DEF TypeOK
    <2>4. nextIndex' \in [Server -> [Server -> Int]]
      <3>1. [j \in Server |-> LastLogIndex(i) + 1] \in [Server -> Int]
        BY <1>0, <1>1, LastIndexIsLength
      <3> QED
        BY <1>0, <1>3, <3>1 DEF TypeOK
    <2>5. matchIndex' \in [Server -> [Server -> Nat]]
      <3>1. [j \in Server |-> 0] \in [Server -> Nat]
        OBVIOUS
      <3> QED
        BY <1>0, <1>3, <3>1 DEF TypeOK
    <2>6. appendNums' \in [Server -> Seq(Nat)]
      <3>1. <<>> \in Seq(Nat)
        OBVIOUS
      <3> QED
        BY <1>0, <1>3, <3>1 DEF TypeOK
    <2>7. won' \subseteq [term : Nat, leader : Server]
      <3>1. [term |-> currentTerm[i], leader |-> i] \in [term : Nat, leader : Server]
        BY <1>0, <1>1 DEF TypeOK
      <3> QED
        BY <1>0, <1>3, <3>1 DEF TypeOK
    <2> QED
      BY <1>0, <1>2, <1>3, <1>5, <1>6, <2>2, <2>3, <2>4, <2>5, <2>6, <2>7
         DEF TypeOK, NodeTypes, applyVars, readVars
  <1> QED
    BY <1>2, <1>4, <1>6, <1>7, GrowingStep

\* What a heartbeat round sends.
LEMMA HeartBeatRecord ==
    ASSUME TypeOK, LogContiguous, IndexOrder, NEW i \in Server, NEW j \in Server,
           nextIndex[i][j] >= 1, nextIndex[i][j] <= LastLogIndex(i) + 1,
           NEW round \in Nat
    PROVE  \/ HeartBeatTo(i, j, round) \in SnapshotThreads
           \/ /\ HeartBeatTo(i, j, round) \in AppendRequests
              /\ AppendWellFormed(HeartBeatTo(i, j, round))
  <1>1. nextIndex[i][j] \in Int /\ currentTerm[i] \in Nat /\ commitIndex[i] \in Nat
    BY DEF TypeOK
  <1>2. CASE nextIndex[i][j] <= snapIndex[i]
    BY <1>1, <1>2 DEF HeartBeatTo, SnapshotThread, SnapshotThreads
  <1>3. CASE ~(nextIndex[i][j] <= snapIndex[i])
    <2> DEFINE prev == nextIndex[i][j] - 1
               es == DropPrefix(i, prev)
               a == AppendRequest(i, j, "AppendEntries", es, round)
    <2>1. prev \in Nat /\ prev >= snapIndex[i] /\ prev <= LastLogIndex(i)
          /\ LastLogIndex(i) \in Nat /\ snapIndex[i] \in Nat
      BY <1>1, <1>3, LastIndexIsLength
    <2>2. /\ es \in Seq(Entry) /\ Len(es) = LastLogIndex(i) - prev
          /\ \A m \in 1 .. LastLogIndex(i) - prev : es[m] = logs[i][prev - snapIndex[i] + m]
      BY <2>1, DropPrefixProperties, SMTT(30)
    <2>3. LogTerm(i, prev) \in Nat
      BY <2>1, LogTermType
    <2>4. HeartBeatTo(i, j, round) = a
      BY <1>3 DEF HeartBeatTo
    <2>5. a \in AppendRequests /\ a.prevIndex = prev /\ a.entries = es /\ a.from = i
      <3> HIDE DEF es
      <3> QED
        BY <1>1, <2>1, <2>2, <2>3 DEF AppendRequest, AppendRequests
    <2> HIDE DEF prev, es, a
    <2>6. ASSUME NEW k \in 1 .. Len(es)
          PROVE  es[k].index = prev + k
      <3>1. k \in 1 .. LastLogIndex(i) - prev
        BY <2>2
      <3>2. es[k] = logs[i][prev - snapIndex[i] + k]
        BY <2>2, <3>1
      <3>3. prev - snapIndex[i] + k \in 1 .. Len(logs[i])
        BY <2>1, <3>1, LastIndexIsLength, SMTT(30)
      <3>4. logs[i][prev - snapIndex[i] + k].index = snapIndex[i] + (prev - snapIndex[i] + k)
        BY <3>3 DEF LogContiguous
      <3> QED
        BY <2>1, <3>2, <3>4
    <2>7. prev + Len(es) <= LastLogIndex(i)
      BY <2>1, <2>2
    <2>8. AppendWellFormed(a)
      BY <2>5, <2>6, <2>7 DEF AppendWellFormed
    <2> QED
      BY <2>4, <2>5, <2>8
  <1> QED
    BY <1>2, <1>3

LEMMA doHeartBeatInv ==
    ASSUME NodeInv, NEW i \in Server, doHeartBeat(i)
    PROVE  NodeInv'
  <1>0. TypeOK /\ LogContiguous /\ IndexOrder /\ DiskCurrent
    BY DEF NodeInv
  <1>1. /\ rounds' = rounds + 1
        /\ \A j \in Server \ {i} : nextIndex[i][j] >= 1 /\ nextIndex[i][j] <= LastLogIndex(i) + 1
        /\ appendNums' = [appendNums EXCEPT ![i] = Append(@, 1)]
        /\ rpcs' = rpcs \cup {HeartBeatTo(i, j, Len(appendNums'[i])) : j \in Server \ {i}}
        /\ UNCHANGED <<serverVars, logVars, applyVars, nextIndex, matchIndex, voteVars,
                       readVars, disk, applied, restarts>>
    BY DEF doHeartBeat
  <1>2. appendNums' \in [Server -> Seq(Nat)] /\ Len(appendNums'[i]) \in Nat
    <2>1. appendNums[i] \in Seq(Nat)
      BY <1>0 DEF TypeOK
    <2>2. Append(appendNums[i], 1) \in Seq(Nat)
      BY <2>1, AppendProperties
    <2>3. appendNums' \in [Server -> Seq(Nat)] /\ appendNums'[i] \in Seq(Nat)
      BY <1>0, <1>1, <2>2 DEF TypeOK
    <2> QED
      BY <2>3, LenProperties
  <1> DEFINE round == Len(appendNums'[i])
  <1>3. \A j \in Server \ {i} : \/ HeartBeatTo(i, j, round) \in SnapshotThreads
                                \/ /\ HeartBeatTo(i, j, round) \in AppendRequests
                                   /\ AppendWellFormed(HeartBeatTo(i, j, round))
    BY <1>0, <1>1, <1>2, HeartBeatRecord
  <1> HIDE DEF round
  <1>4. \A r \in rpcs' : \/ r \in rpcs
                         \/ r \in SnapshotThreads
                         \/ r \in AppendRequests /\ AppendWellFormed(r)
    BY <1>1, <1>3 DEF round
  <1>5. rpcs' \subseteq Rpc
    BY <1>0, <1>4 DEF Rpc, TypeOK
  <1>6. rounds' \in Nat
    BY <1>0, <1>1 DEF TypeOK
  <1>7. TypeOK'
    BY <1>0, <1>1, <1>2, <1>5, <1>6
       DEF TypeOK, serverVars, logVars, applyVars, voteVars, readVars
  <1>8. \A r \in rpcs' : \/ r \in rpcs \/ Plain(r)
                         \/ r \in AppendRequests /\ AppendWellFormed(r)
    BY <1>4, PlainRecords
  <1>9. DiskCurrent'
    BY <1>0, <1>1, DiskFrame
  <1> QED
    BY <1>1, <1>7, <1>8, <1>9, QuietStep DEF logVars, applyVars

-----------------------------------------------------------------------------
\* The replies of AppendEntries1.
LEMMA AppendReplyRecord ==
    ASSUME NEW r \in AppendRequests, NEW term \in Nat, NEW success \in BOOLEAN, NEW update \in Int
    PROVE  AppendReply(r, term, success, update) \in AppendReplies
           /\ AppendReply(r, term, success, update).args = r
  BY DEF AppendReply, AppendReplies

\* The conflict index is an index.
LEMMA ConflictIndexType ==
    ASSUME TypeOK, NEW i \in Server, NEW prev \in Nat, prev >= snapIndex[i]
    PROVE  ConflictIndex(i, prev) \in Nat
  <1> DEFINE run == {k \in snapIndex[i] .. prev :
                        \A l \in k .. prev : LogTerm(i, l) = LogTerm(i, prev)}
             first == CHOOSE k \in run : \A l \in run : k <= l
  <1>1. snapIndex[i] \in Nat
    BY DEF TypeOK
  <1>2. run \in SUBSET Nat
    BY <1>1
  <1>3. prev \in run
    <2>1. prev \in snapIndex[i] .. prev
      BY <1>1
    <2>2. \A l \in prev .. prev : l = prev
      OBVIOUS
    <2> QED
      BY <2>1, <2>2
  <1>4. ConflictIndex(i, prev) = IF first = snapIndex[i] THEN prev ELSE first
    BY DEF ConflictIndex
  <1> HIDE DEF run
  <1>5. first \in run
    BY <1>2, <1>3, LeastNat
  <1> HIDE DEF first
  <1> QED
    BY <1>2, <1>4, <1>5

\* A request of the current or a newer term leaves the server in that term.
LEMMA FollowSenderTypes ==
    ASSUME TypeOK, NEW r, r.to \in Server, r.term \in Nat, FollowSender(r)
    PROVE  /\ status' \in [Server -> {Follower, Candidate, Leader}]
           /\ currentTerm' \in [Server -> Nat]
           /\ votedFor' \in [Server -> Server \cup {Nil}]
           /\ \A j \in Server \ {r.to} : /\ status'[j] = status[j]
                                         /\ currentTerm'[j] = currentTerm[j]
                                         /\ votedFor'[j] = votedFor[j]
  BY DEF FollowSender, TypeOK

LEMMA AppendEntriesStaleInv ==
    ASSUME NodeInv, NEW r \in rpcs, r \in AppendRequests, AppendEntriesStale(r)
    PROVE  NodeInv'
  <1>0. TypeOK /\ DiskCurrent /\ RpcBounds
    BY DEF NodeInv
  <1> DEFINE reply == AppendReply(r, currentTerm[r.to], FALSE, -100)
  <1>1. r.to \in Server /\ currentTerm[r.to] \in Nat
    BY <1>0 DEF TypeOK, AppendRequests
  <1>2. reply \in AppendReplies /\ reply.args = r
    <2>1. -100 \in Int /\ FALSE \in BOOLEAN
      OBVIOUS
    <2> QED
      BY <1>1, <2>1, AppendReplyRecord, Zenon
  <1>3. /\ Reply(r, reply)
        /\ UNCHANGED <<serverVars, logVars, applyVars, leaderVars, voteVars, readVars,
                       disk, applied, restarts>>
    BY DEF AppendEntriesStale
  <1> HIDE DEF reply
  <1>4. rpcs' \subseteq Rpc /\ \A q \in rpcs' : q \in rpcs \/ q = reply
    BY <1>0, <1>2, <1>3, ReplyType DEF Rpc
  <1>5. TypeOK'
    BY <1>0, <1>3, <1>4
       DEF TypeOK, serverVars, logVars, applyVars, leaderVars, voteVars, readVars
  <1>6. AppendWellFormed(r)
    BY <1>0 DEF RpcBounds
  <1>7. DiskCurrent'
    BY <1>0, <1>3, DiskFrame
  <1> QED
    BY <1>2, <1>3, <1>4, <1>5, <1>6, <1>7, QuietStep DEF logVars, applyVars

\* Every refusal of AppendEntries1 in the current term.
LEMMA RefusalInv ==
    ASSUME NodeInv, NEW r \in rpcs, r \in AppendRequests, NEW update \in Int,
           FollowSender(r), Reply(r, AppendReply(r, r.term, FALSE, update)), Persist(r.to),
           UNCHANGED <<logVars, applyVars, leaderVars, voteVars, readVars, applied, restarts>>
    PROVE  NodeInv'
  <1>0. TypeOK /\ DiskCurrent /\ RpcBounds
    BY DEF NodeInv
  <1> DEFINE reply == AppendReply(r, r.term, FALSE, update)
  <1>1. r.to \in Server /\ r.term \in Nat
    BY DEF AppendRequests
  <1>2. reply \in AppendReplies /\ reply.args = r
    BY <1>1, AppendReplyRecord
  <1> HIDE DEF reply
  <1>3. rpcs' \subseteq Rpc /\ \A q \in rpcs' : q \in rpcs \/ q = reply
    BY <1>0, <1>2, ReplyType DEF Rpc, reply
  <1>4. /\ status' \in [Server -> {Follower, Candidate, Leader}]
        /\ currentTerm' \in [Server -> Nat]
        /\ votedFor' \in [Server -> Server \cup {Nil}]
        /\ \A j \in Server \ {r.to} : /\ status'[j] = status[j]
                                      /\ currentTerm'[j] = currentTerm[j]
                                      /\ votedFor'[j] = votedFor[j]
    BY <1>0, <1>1, FollowSenderTypes
  <1>5. NodeTypes'
    BY <1>0, <1>4 DEF NodeTypes, TypeOK, logVars
  <1>6. disk' \in [Server -> DiskState] /\ DiskCurrent'
    BY <1>0, <1>1, <1>4, <1>5, PersistStep DEF logVars
  <1>7. TypeOK'
    BY <1>0, <1>3, <1>5, <1>6
       DEF TypeOK, NodeTypes, applyVars, leaderVars, voteVars, readVars
  <1>8. AppendWellFormed(r)
    BY <1>0 DEF RpcBounds
  <1> QED
    BY <1>2, <1>3, <1>6, <1>7, <1>8, QuietStep DEF logVars, applyVars

LEMMA AppendEntriesMismatchInv ==
    ASSUME NodeInv, NEW r \in rpcs, r \in AppendRequests, AppendEntriesMismatch(r)
    PROVE  NodeInv'
  <1>0. TypeOK /\ LogContiguous
    BY DEF NodeInv
  <1>1. r.to \in Server /\ r.prevIndex \in Nat
    BY DEF AppendRequests
  <1>2. LastLogIndex(r.to) + 1 \in Int /\ snapIndex[r.to] + 1 \in Int
        /\ snapIndex[r.to] \in Nat /\ LastLogIndex(r.to) \in Nat
    BY <1>0, <1>1, LastIndexIsLength
  <1>3. r.prevIndex \in snapIndex[r.to] .. LastLogIndex(r.to)
          => ConflictIndex(r.to, r.prevIndex) \in Int
    BY <1>0, <1>1, <1>2, ConflictIndexType
  <1>4. PICK update \in Int :
          /\ FollowSender(r)
          /\ Reply(r, AppendReply(r, r.term, FALSE, update))
          /\ UNCHANGED <<logVars, applyVars, leaderVars, voteVars, readVars, applied, restarts>>
          /\ Persist(r.to)
    BY <1>2, <1>3 DEF AppendEntriesMismatch
  <1> QED
    BY <1>4, RefusalInv

\* Where the entries of a merged log come from.
LEMMA MergedIndexes ==
    ASSUME NEW log \in Seq(Entry), NEW es \in Seq(Entry), NEW from \in Nat, from <= Len(log),
           NEW snap \in Nat,
           \A k \in 1 .. Len(log) : log[k].index = snap + k,
           \A k \in 1 .. Len(es) : es[k].index = snap + from + k
    PROVE  \A k \in 1 .. Len(MergeEntries(log, from, es)) :
              MergeEntries(log, from, es)[k].index = snap + k
  <1> DEFINE merged == MergeEntries(log, from, es)
  <1>0. Len(log) \in Nat /\ Len(es) \in Nat
    BY LastOfSeq
  <1>1. Len(merged) = Maximum(Len(log), from + Len(es))
    BY MergeType
  <1> SUFFICES ASSUME NEW k \in 1 .. Len(merged)
               PROVE  merged[k].index = snap + k
    OBVIOUS
  <1>2. k \in 1 .. Maximum(Len(log), from + Len(es)) /\ k \in Nat
    BY <1>0, <1>1 DEF Maximum
  <1>3. merged[k] = IF k > from /\ k <= from + Len(es)
                       /\ (k > Len(log) \/ log[k].term # es[k - from].term)
                    THEN es[k - from] ELSE log[k]
    BY <1>2 DEF MergeEntries
  <1> HIDE DEF merged
  <1>4. CASE merged[k] = es[k - from] /\ k > from /\ k <= from + Len(es)
    <2>1. k - from \in 1 .. Len(es)
      BY <1>0, <1>2, <1>4
    <2>2. es[k - from].index = snap + from + (k - from)
      BY <2>1
    <2>3. snap + from + (k - from) = snap + k
      BY <1>2
    <2> QED
      BY <1>4, <2>2, <2>3
  <1>5. CASE merged[k] = log[k] /\ k <= Len(log)
    BY <1>0, <1>2, <1>5
  <1> QED
    BY <1>0, <1>2, <1>3, <1>4, <1>5 DEF Maximum

LEMMA AppendEntriesMatchInv ==
    ASSUME NodeInv, NEW r \in rpcs, r \in AppendRequests, AppendEntriesMatch(r)
    PROVE  NodeInv'
  <1> DEFINE j == r.to
             from == Slice(j, r.prevIndex)
             log == MergeEntries(logs[j], from, r.entries)
             last == LastLogIndex(j)'
             commit == FollowCommit(j, r.leaderCommit, last)
             reply == AppendReply(r, r.term, TRUE, 0)
  <1>0. TypeOK /\ LogContiguous /\ IndexOrder /\ DiskCurrent /\ RpcBounds
    BY DEF NodeInv
  <1>1. j \in Server /\ r.term \in Nat /\ r.prevIndex \in Nat /\ r.entries \in Seq(Entry)
        /\ r.leaderCommit \in Nat
    BY DEF AppendRequests
  <1>2. /\ r.prevIndex \in snapIndex[j] .. LastLogIndex(j)
        /\ FollowSender(r)
        /\ logs' = [logs EXCEPT ![j] = log]
        /\ commitIndex' = [commitIndex EXCEPT ![j] = commit]
        /\ Reply(r, reply)
        /\ UNCHANGED <<snapIndex, snapTerm>>
        /\ UNCHANGED <<lastApplied, leaderVars, voteVars, readVars, applied, restarts>>
        /\ Persist(j)
    BY DEF AppendEntriesMatch
  <1>3. reply \in AppendReplies /\ reply.args = r
    <2>1. 0 \in Int /\ TRUE \in BOOLEAN
      OBVIOUS
    <2> QED
      BY <1>1, <2>1, AppendReplyRecord, Zenon
  <1>4. /\ LastLogIndex(j) = snapIndex[j] + Len(logs[j])
        /\ snapIndex[j] \in Nat /\ Len(logs[j]) \in Nat /\ logs[j] \in Seq(Entry)
        /\ Len(r.entries) \in Nat
    BY <1>0, <1>1, LastIndexIsLength, LastOfSeq
  <1>5. from \in Nat /\ from <= Len(logs[j]) /\ snapIndex[j] + from = r.prevIndex
    BY <1>1, <1>2, <1>4 DEF Slice
  <1> HIDE DEF j, from, reply
  <1>6. log \in Seq(Entry) /\ Len(log) = Maximum(Len(logs[j]), from + Len(r.entries))
    BY <1>1, <1>4, <1>5, MergeType
  <1>7. \A k \in 1 .. Len(log) : log[k].index = snapIndex[j] + k
    <2>1. \A k \in 1 .. Len(r.entries) : r.entries[k].index = snapIndex[j] + from + k
      BY <1>0, <1>5 DEF RpcBounds, AppendWellFormed
    <2>2. \A k \in 1 .. Len(logs[j]) : logs[j][k].index = snapIndex[j] + k
      BY <1>0, <1>1 DEF LogContiguous, j
    <2> DEFINE old == logs[j]  new == r.entries  snap == snapIndex[j]
    <2>3. /\ old \in Seq(Entry) /\ new \in Seq(Entry) /\ from \in Nat /\ from <= Len(old)
          /\ snap \in Nat
          /\ \A k \in 1 .. Len(old) : old[k].index = snap + k
          /\ \A k \in 1 .. Len(new) : new[k].index = snap + from + k
      BY <1>1, <1>4, <1>5, <2>1, <2>2
    <2> HIDE DEF old, new, snap
    <2>4. \A k \in 1 .. Len(MergeEntries(old, from, new)) :
             MergeEntries(old, from, new)[k].index = snap + k
      BY <2>3, MergedIndexes
    <2> QED
      BY <2>4 DEF old, new, snap
  <1> HIDE DEF log
  <1>8. logs' \in [Server -> Seq(Entry)] /\ logs'[j] = log
        /\ \A i \in Server \ {j} : logs'[i] = logs[i]
    BY <1>0, <1>1, <1>2, <1>6 DEF TypeOK
  <1>9. LogContiguous'
    BY <1>0, <1>2, <1>7, <1>8 DEF LogContiguous
  <1>10. /\ status' \in [Server -> {Follower, Candidate, Leader}]
         /\ currentTerm' \in [Server -> Nat]
         /\ votedFor' \in [Server -> Server \cup {Nil}]
         /\ \A i \in Server \ {j} : /\ status'[i] = status[i]
                                    /\ currentTerm'[i] = currentTerm[i]
                                    /\ votedFor'[i] = votedFor[i]
    BY <1>0, <1>1, <1>2, FollowSenderTypes DEF j
  <1>11. NodeTypes'
    BY <1>0, <1>2, <1>8, <1>10 DEF NodeTypes, TypeOK
  <1>12. last \in Nat /\ last >= LastLogIndex(j)
         /\ \A i \in Server \ {j} : LastLogIndex(i)' = LastLogIndex(i)
    <2>1. Len(log) \in Nat /\ Len(log) >= Len(logs[j])
      BY <1>4, <1>5, <1>6 DEF Maximum
    <2>2. last = snapIndex[j] + Len(log)
      <3>1. CASE log = <<>>
        <4>1. Len(log) = 0
          BY <1>6, <3>1, LastOfSeq
        <4> QED
          BY <1>2, <1>4, <1>8, <3>1, <4>1 DEF LastLogIndex
      <3>2. CASE log # <<>>
        <4>1. Len(log) \in 1 .. Len(log)
          BY <1>6, <3>2, LastOfSeq
        <4>2. log[Len(log)].index = snapIndex[j] + Len(log)
          BY <1>7, <4>1
        <4> QED
          BY <1>8, <3>2, <4>2 DEF LastLogIndex
      <3> QED
        BY <3>1, <3>2
    <2>3. \A i \in Server \ {j} : LastLogIndex(i)' = LastLogIndex(i)
      BY <1>2, <1>8 DEF LastLogIndex
    <2> QED
      BY <1>4, <2>1, <2>2, <2>3
  <1> HIDE DEF last
  <1>13. commit \in Nat /\ commit <= last
    <2>1. commitIndex[j] \in Nat /\ commitIndex[j] <= LastLogIndex(j)
      BY <1>0, <1>1 DEF TypeOK, IndexOrder, j
    <2> QED
      BY <1>1, <1>4, <1>12, <2>1 DEF FollowCommit, Minimum
  <1> HIDE DEF commit
  <1>14. commitIndex' \in [Server -> Nat] /\ commitIndex'[j] = commit
         /\ \A i \in Server \ {j} : commitIndex'[i] = commitIndex[i]
    BY <1>0, <1>1, <1>2, <1>13 DEF TypeOK
  <1>15. \A i \in Server : LastLogIndex(i)' >= LastLogIndex(i)
    BY <1>0, <1>12, LastIndexIsLength DEF last
  <1>16. IndexOrder'
    <2> SUFFICES ASSUME NEW i \in Server
                 PROVE  /\ snapIndex'[i] <= lastApplied'[i]
                        /\ commitIndex'[i] <= LastLogIndex(i)'
                        /\ lastApplied'[i] <= LastLogIndex(i)'
      BY DEF IndexOrder
    <2>1. /\ snapIndex[i] <= lastApplied[i]
          /\ commitIndex[i] <= LastLogIndex(i) /\ lastApplied[i] <= LastLogIndex(i)
          /\ lastApplied[i] \in Nat /\ LastLogIndex(i) \in Nat
      BY <1>0, LastIndexIsLength DEF IndexOrder, TypeOK
    <2>2. CASE i = j
      BY <1>2, <1>12, <1>13, <1>14, <2>1, <2>2 DEF last
    <2>3. CASE i # j
      BY <1>2, <1>12, <1>14, <2>1, <2>3
    <2> QED
      BY <2>2, <2>3
  <1>17. disk' \in [Server -> DiskState] /\ DiskCurrent'
    BY <1>0, <1>1, <1>2, <1>8, <1>10, <1>11, PersistStep
  <1>18. rpcs' \subseteq Rpc /\ \A q \in rpcs' : q \in rpcs \/ q = reply
    BY <1>0, <1>2, <1>3, ReplyType DEF Rpc
  <1>19. TypeOK'
    BY <1>0, <1>2, <1>11, <1>14, <1>17, <1>18
       DEF TypeOK, NodeTypes, leaderVars, voteVars, readVars
  <1> QED
    BY <1>3, <1>9, <1>15, <1>16, <1>17, <1>18, <1>19, GrowingStep

\* The replies of AppendEntries that change no log position.
LEMMA AppendReplyQuietInv ==
    ASSUME NodeInv, NEW r \in rpcs, r.kind = "AppendReply", Consume(r),
           AppendReplyNewer(r) \/ AppendReplyIgnored(r) \/ AppendReplyConflict(r)
    PROVE  NodeInv'
  <1> DEFINE i == r.args.from
             j == r.args.to
  <1>0. TypeOK /\ DiskCurrent
    BY DEF NodeInv
  <1>1. i \in Server /\ j \in Server /\ r.term \in Nat /\ r.update \in Int
    BY <1>0, RpcKinds DEF AppendReplies, AppendRequests
  <1>2. rpcs' \subseteq Rpc /\ \A q \in rpcs' : q \in rpcs
    BY <1>0 DEF Consume, TypeOK
  <1> HIDE DEF i, j
  <1>3. CASE AppendReplyNewer(r)
    <2>1. /\ StepDown(i, r.term) /\ r.term > currentTerm[i]
          /\ UNCHANGED <<logVars, applyVars, leaderVars, voteVars, readVars, disk,
                         applied, restarts>>
      BY <1>3 DEF AppendReplyNewer, i
    <2>2. TypeOK'
      BY <1>0, <1>1, <1>2, <2>1
         DEF TypeOK, StepDown, logVars, applyVars, leaderVars, voteVars, readVars
    <2>3. /\ status'[i] = Follower /\ currentTerm'[i] = r.term /\ votedFor'[i] = Nil
          /\ \A k \in Server \ {i} : /\ status'[k] = status[k]
                                     /\ currentTerm'[k] = currentTerm[k]
                                     /\ votedFor'[k] = votedFor[k]
      BY <1>0, <1>1, <2>1 DEF TypeOK, StepDown
    <2>4. disk[i].term \in Nat /\ currentTerm[i] \in Nat /\ disk[i].term <= currentTerm[i]
      <3>1. disk[i] \in DiskState /\ currentTerm[i] \in Nat
        BY <1>0, <1>1 DEF TypeOK
      <3>2. disk[i].term \in Nat
        BY <3>1 DEF DiskState
      <3>3. disk[i].term = currentTerm[i] \/ disk[i].term < currentTerm[i]
        BY <1>0, <1>1 DEF DiskCurrent
      <3> QED
        BY <3>1, <3>2, <3>3
    <2>5. disk'[i].term < currentTerm'[i]
      BY <1>1, <2>1, <2>3, <2>4
    <2>6. DiskCurrent'
      BY <1>0, <2>1, <2>3, <2>5 DEF DiskCurrent, logVars
    <2> QED
      BY <1>2, <2>1, <2>2, <2>6, QuietStep DEF logVars, applyVars
  <1>4. CASE AppendReplyIgnored(r)
    <2>1. UNCHANGED <<serverVars, logVars, applyVars, leaderVars, voteVars, readVars,
                      disk, applied, restarts>>
      BY <1>4 DEF AppendReplyIgnored
    <2>2. TypeOK'
      BY <1>0, <1>2, <2>1
         DEF TypeOK, serverVars, logVars, applyVars, leaderVars, voteVars, readVars
    <2> QED
      BY <1>0, <1>2, <2>1, <2>2, QuietStep, DiskFrame DEF logVars, applyVars
  <1>5. CASE AppendReplyConflict(r)
    <2>1. /\ nextIndex' = [nextIndex EXCEPT ![i][j] = r.update]
          /\ UNCHANGED <<serverVars, logVars, applyVars, matchIndex, appendNums, rounds, voteVars,
                         readVars, disk, applied, restarts>>
      BY <1>5 DEF AppendReplyConflict, i, j
    <2>2. nextIndex' \in [Server -> [Server -> Int]]
      BY <1>0, <1>1, <2>1 DEF TypeOK
    <2>3. TypeOK'
      BY <1>0, <1>2, <2>1, <2>2
         DEF TypeOK, serverVars, logVars, applyVars, voteVars, readVars
    <2> QED
      BY <1>0, <1>2, <2>1, <2>3, QuietStep, DiskFrame DEF logVars, applyVars
  <1> QED
    BY <1>3, <1>4, <1>5

\* Counting a success in its round keeps the counters numbers.
LEMMA RoundCounters ==
    ASSUME NEW s \in Seq(Nat), NEW k
    PROVE  [s EXCEPT ![k] = RoundAfter(@)] \in Seq(Nat)
  <1>1. CASE k \in 1 .. Len(s)
    <2>1. s[k] \in Nat
      BY <1>1, ElementOfSeq
    <2>2. Quorum \in Int
      BY FS_CardinalityType, ServerFinite DEF Quorum
    <2>3. RoundAfter(s[k]) \in Nat
      BY <2>1, <2>2 DEF RoundAfter
    <2>4. [s EXCEPT ![k] = RoundAfter(s[k])] \in Seq(Nat)
      BY <1>1, <2>3, ExceptSeq
    <2> QED
      BY <2>4
  <1>2. CASE k \notin 1 .. Len(s)
    <2>1. DOMAIN s = 1 .. Len(s)
      BY LenProperties
    <2>2. [s EXCEPT ![k] = RoundAfter(@)] = s
      BY <1>2, <2>1
    <2> QED
      BY <2>2
  <1> QED
    BY <1>1, <1>2

LEMMA AppendReplySuccessInv ==
    ASSUME NodeInv, NEW r \in rpcs, r.kind = "AppendReply", Consume(r), AppendReplySuccess(r)
    PROVE  NodeInv'
  <1> DEFINE i == r.args.from
             j == r.args.to
             last == Acked(r.args)
             match == Maximum(matchIndex[i][j], last)
             round == RoundOf(r.args)
  <1>0. TypeOK /\ LogContiguous /\ IndexOrder /\ DiskCurrent /\ RpcBounds
    BY DEF NodeInv
  <1>1. r \in AppendReplies /\ r.args \in AppendRequests
    BY <1>0, RpcKinds DEF AppendReplies
  <1>2. i \in Server /\ j \in Server /\ r.args.prevIndex \in Nat /\ r.args.entries \in Seq(Entry)
    BY <1>1 DEF AppendRequests
  <1>3. Len(r.args.entries) \in Nat
    BY <1>2, LastOfSeq
  <1>4. last \in Nat /\ last <= LastLogIndex(i)
    BY <1>0, <1>1, <1>2, <1>3 DEF RpcBounds, AppendWellFormed, Acked
  <1>5. PICK commits \in BOOLEAN :
          /\ matchIndex' = [matchIndex EXCEPT ![i][j] = match]
          /\ nextIndex' = [nextIndex EXCEPT ![i][j] = match + 1]
          /\ appendNums' = [appendNums EXCEPT ![i][round] = RoundAfter(@)]
          /\ commitIndex' = [commitIndex EXCEPT ![i] = IF commits THEN Maximum(@, last) ELSE @]
          /\ UNCHANGED <<serverVars, logVars, lastApplied, rounds, voteVars, readVars, disk,
                         applied, restarts>>
    <2> DEFINE c == /\ appendNums[i][round] + 1 >= Quorum
                    /\ Len(r.args.entries) > 0
                    /\ r.args.entries[Len(r.args.entries)].term = currentTerm[i]
    <2> WITNESS c \in BOOLEAN
    <2> QED
      BY DEF AppendReplySuccess
  <1>6. rpcs' \subseteq Rpc /\ \A q \in rpcs' : q \in rpcs
    BY <1>0 DEF Consume, TypeOK
  <1> HIDE DEF i, j, last, round
  <1>7. match \in Nat
    BY <1>0, <1>2, <1>4 DEF TypeOK, Maximum
  <1> HIDE DEF match
  <1>8. matchIndex' \in [Server -> [Server -> Nat]]
    BY <1>0, <1>2, <1>5, <1>7 DEF TypeOK
  <1>9. nextIndex' \in [Server -> [Server -> Int]]
    <2>1. match + 1 \in Int /\ nextIndex \in [Server -> [Server -> Int]]
      BY <1>0, <1>7 DEF TypeOK
    <2>2. nextIndex' = [nextIndex EXCEPT ![i][j] = match + 1]
      BY <1>5
    <2> QED
      BY <1>2, <2>1, <2>2
  <1>10. appendNums' \in [Server -> Seq(Nat)]
    <2>1. appendNums[i] \in Seq(Nat)
      BY <1>0, <1>2 DEF TypeOK
    <2>2. [appendNums[i] EXCEPT ![round] = RoundAfter(@)] \in Seq(Nat)
      BY <2>1, RoundCounters
    <2>3. appendNums' = [appendNums EXCEPT ![i] = [appendNums[i] EXCEPT ![round] = RoundAfter(@)]]
      BY <1>5
    <2> QED
      BY <1>0, <2>2, <2>3 DEF TypeOK
  <1>11. /\ commitIndex' \in [Server -> Nat]
         /\ \A k \in Server \ {i} : commitIndex'[k] = commitIndex[k]
         /\ commitIndex'[i] = commitIndex[i] \/ commitIndex'[i] <= LastLogIndex(i)
    <2>1. commitIndex[i] \in Nat /\ commitIndex[i] <= LastLogIndex(i) /\ LastLogIndex(i) \in Nat
      BY <1>0, <1>2, LastIndexIsLength DEF TypeOK, IndexOrder
    <2>2. Maximum(commitIndex[i], last) \in Nat /\ Maximum(commitIndex[i], last) <= LastLogIndex(i)
      BY <1>4, <2>1 DEF Maximum
    <2> QED
      BY <1>0, <1>2, <1>5, <2>1, <2>2 DEF TypeOK
  <1>12. TypeOK'
    BY <1>0, <1>5, <1>6, <1>8, <1>9, <1>10, <1>11
       DEF TypeOK, serverVars, logVars, voteVars, readVars
  <1>13. DiskCurrent'
    BY <1>0, <1>5, DiskFrame
  <1>14. /\ LogContiguous'
         /\ \A k \in Server : LastLogIndex(k)' = LastLogIndex(k) /\ LastLogIndex(k) \in Nat
    BY <1>0, <1>5, LastIndexIsLength DEF LogContiguous, LastLogIndex, logVars
  <1>15. IndexOrder'
    <2>1. \A k \in Server : commitIndex'[k] <= LastLogIndex(k)
      BY <1>0, <1>11 DEF IndexOrder
    <2> QED
      BY <1>0, <1>5, <1>14, <2>1 DEF IndexOrder, logVars
  <1>16. \A k \in Server : LastLogIndex(k)' >= LastLogIndex(k)
    BY <1>14
  <1> QED
    BY <1>6, <1>12, <1>13, <1>14, <1>15, <1>16, GrowingStep

LEMMA applierTickerInv ==
    ASSUME NodeInv, NEW i \in Server, applierTicker(i)
    PROVE  NodeInv'
  <1>0. TypeOK /\ LogContiguous /\ IndexOrder /\ DiskCurrent
    BY DEF NodeInv
  <1>1. /\ lastApplied[i] < commitIndex[i]
        /\ lastApplied' = [lastApplied EXCEPT ![i] = commitIndex[i]]
        /\ applied' = applied \cup
             {[entry |-> logs[i][Slice(i, k)], at |-> currentTerm[i]] :
                k \in lastApplied[i] + 1 .. commitIndex[i]}
        /\ UNCHANGED <<serverVars, logVars, commitIndex, leaderVars, voteVars, readVars,
                       disk, rpcs, restarts>>
    BY DEF applierTicker
  <1>2. /\ snapIndex[i] \in Nat /\ lastApplied[i] \in Nat /\ commitIndex[i] \in Nat
        /\ currentTerm[i] \in Nat
        /\ snapIndex[i] <= lastApplied[i] /\ commitIndex[i] <= LastLogIndex(i)
        /\ LastLogIndex(i) = snapIndex[i] + Len(logs[i]) /\ Len(logs[i]) \in Nat
        /\ logs[i] \in Seq(Entry)
    BY <1>0, LastIndexIsLength DEF TypeOK, IndexOrder
  <1>3. \A k \in lastApplied[i] + 1 .. commitIndex[i] : logs[i][Slice(i, k)] \in Entry
    <2> TAKE k \in lastApplied[i] + 1 .. commitIndex[i]
    <2>1. Slice(i, k) \in 1 .. Len(logs[i])
      BY <1>2 DEF Slice
    <2> QED
      BY <1>2, <2>1, EntryAt
  <1>4. applied' \subseteq [entry : Entry, at : Nat]
    BY <1>0, <1>1, <1>2, <1>3 DEF TypeOK
  <1>5. lastApplied' \in [Server -> Nat]
    BY <1>0, <1>1, <1>2 DEF TypeOK
  <1>6. TypeOK'
    BY <1>0, <1>1, <1>4, <1>5 DEF TypeOK, serverVars, logVars, leaderVars, voteVars, readVars
  <1>7. DiskCurrent'
    BY <1>0, <1>1, DiskFrame
  <1>8. /\ LogContiguous'
        /\ \A k \in Server : LastLogIndex(k)' = LastLogIndex(k) /\ LastLogIndex(k) \in Nat
    BY <1>0, <1>1, LastIndexIsLength DEF LogContiguous, LastLogIndex, logVars
  <1>9. \A k \in Server \ {i} : lastApplied'[k] = lastApplied[k]
    BY <1>0, <1>1 DEF TypeOK
  <1>10. lastApplied'[i] = commitIndex[i]
    BY <1>0, <1>1 DEF TypeOK
  <1>11. IndexOrder'
    <2>1. snapIndex[i] <= commitIndex[i]
      BY <1>1, <1>2
    <2> QED
      BY <1>0, <1>1, <1>8, <1>9, <1>10, <2>1 DEF IndexOrder, logVars
  <1>12. \A k \in Server : LastLogIndex(k)' >= LastLogIndex(k)
    BY <1>8
  <1> QED
    BY <1>1, <1>6, <1>7, <1>8, <1>11, <1>12, GrowingStep

-----------------------------------------------------------------------------
\* A log that starts again after index k ends where it ended, or at k when it
\* did not reach that far.
LEMMA CutLog ==
    ASSUME TypeOK, LogContiguous, NEW i \in Server, NEW k \in Nat, k >= snapIndex[i],
           NEW log \in Seq(Entry),
           \/ k <= LastLogIndex(i) /\ log = DropPrefix(i, k)
           \/ k >= LastLogIndex(i) /\ log = <<>>,
           logs' = [logs EXCEPT ![i] = log],
           snapIndex' = [snapIndex EXCEPT ![i] = k]
    PROVE  /\ logs' \in [Server -> Seq(Entry)] /\ snapIndex' \in [Server -> Nat]
           /\ LogContiguous'
           /\ LastLogIndex(i)' = Maximum(LastLogIndex(i), k)
           /\ \A j \in Server \ {i} : /\ logs'[j] = logs[j] /\ snapIndex'[j] = snapIndex[j]
                                      /\ LastLogIndex(j)' = LastLogIndex(j)
  <1>1. /\ LastLogIndex(i) = snapIndex[i] + Len(logs[i]) /\ LastLogIndex(i) \in Nat
        /\ snapIndex[i] \in Nat /\ Len(logs[i]) \in Nat /\ logs[i] \in Seq(Entry)
    BY LastIndexIsLength
  <1>2. Len(log) \in Nat /\ k + Len(log) = Maximum(LastLogIndex(i), k)
        /\ \A m \in 1 .. Len(log) : log[m].index = k + m
    <2>1. CASE k <= LastLogIndex(i) /\ log = DropPrefix(i, k)
      <3>1. /\ Len(log) = LastLogIndex(i) - k
            /\ \A m \in 1 .. LastLogIndex(i) - k : log[m] = logs[i][k - snapIndex[i] + m]
        BY <2>1, DropPrefixProperties
      <3>2. ASSUME NEW m \in 1 .. Len(log)
            PROVE  log[m].index = k + m
        <4>1. k - snapIndex[i] + m \in 1 .. Len(logs[i]) /\ m \in 1 .. LastLogIndex(i) - k
          BY <1>1, <2>1, <3>1
        <4>2. logs[i][k - snapIndex[i] + m].index = snapIndex[i] + (k - snapIndex[i] + m)
          BY <4>1 DEF LogContiguous
        <4> QED
          BY <1>1, <3>1, <4>1, <4>2, SMTT(30)
      <3>3. Len(log) \in Nat /\ k + Len(log) = Maximum(LastLogIndex(i), k)
        BY <1>1, <2>1, <3>1 DEF Maximum
      <3> QED
        BY <3>2, <3>3
    <2>2. CASE k >= LastLogIndex(i) /\ log = <<>>
      <3>1. Len(log) = 0
        BY <2>2, LastOfSeq
      <3> QED
        BY <1>1, <2>2, <3>1 DEF Maximum
    <2> QED
      BY <2>1, <2>2
  <1>3. /\ logs' \in [Server -> Seq(Entry)] /\ snapIndex' \in [Server -> Nat]
        /\ logs'[i] = log /\ snapIndex'[i] = k
        /\ \A j \in Server \ {i} : logs'[j] = logs[j] /\ snapIndex'[j] = snapIndex[j]
    BY DEF TypeOK
  <1>4. LogContiguous'
    BY <1>2, <1>3 DEF LogContiguous
  <1>5. LastLogIndex(i)' = k + Len(log)
    <2>1. CASE log = <<>>
      <3>1. Len(log) = 0
        BY <2>1, LastOfSeq
      <3> QED
        BY <1>3, <2>1, <3>1 DEF LastLogIndex
    <2>2. CASE log # <<>>
      <3>1. Len(log) \in 1 .. Len(log)
        BY <2>2, LastOfSeq
      <3>2. log[Len(log)].index = k + Len(log)
        BY <1>2, <3>1
      <3> QED
        BY <1>3, <2>2, <3>2 DEF LastLogIndex
    <2> QED
      BY <2>1, <2>2
  <1>6. \A j \in Server \ {i} : LastLogIndex(j)' = LastLogIndex(j)
    BY <1>3 DEF LastLogIndex
  <1> QED
    BY <1>2, <1>3, <1>4, <1>5, <1>6

LEMMA SnapshotInv ==
    ASSUME NodeInv, NEW i \in Server, NEW index \in Nat, Snapshot(i, index)
    PROVE  NodeInv'
  <1>0. TypeOK /\ LogContiguous /\ IndexOrder /\ DiskCurrent
    BY DEF NodeInv
  <1>1. /\ index <= lastApplied[i] /\ snapIndex[i] < index /\ index <= commitIndex[i]
        /\ snapIndex' = [snapIndex EXCEPT ![i] = index]
        /\ snapTerm' = [snapTerm EXCEPT ![i] = LogTerm(i, index)]
        /\ logs' = [logs EXCEPT ![i] = DropPrefix(i, index)]
        /\ UNCHANGED <<serverVars, applyVars, leaderVars, voteVars, readVars, rpcs,
                       applied, restarts>>
        /\ Persist(i)
    BY DEF Snapshot
  <1>2. /\ lastApplied[i] <= LastLogIndex(i) /\ lastApplied[i] \in Nat
        /\ LastLogIndex(i) \in Nat /\ snapIndex[i] \in Nat
    BY <1>0, LastIndexIsLength DEF IndexOrder, TypeOK
  <1>3. index <= LastLogIndex(i) /\ index >= snapIndex[i]
    BY <1>1, <1>2
  <1>4. DropPrefix(i, index) \in Seq(Entry) /\ LogTerm(i, index) \in Nat
    BY <1>0, <1>3, DropPrefixProperties, LogTermType
  <1>5. /\ logs' \in [Server -> Seq(Entry)] /\ snapIndex' \in [Server -> Nat]
        /\ LogContiguous'
        /\ LastLogIndex(i)' = Maximum(LastLogIndex(i), index)
        /\ \A j \in Server \ {i} : /\ logs'[j] = logs[j] /\ snapIndex'[j] = snapIndex[j]
                                   /\ LastLogIndex(j)' = LastLogIndex(j)
    <2> DEFINE log == DropPrefix(i, index)
    <2>1. log \in Seq(Entry) /\ logs' = [logs EXCEPT ![i] = log] /\ log = DropPrefix(i, index)
      BY <1>1, <1>4
    <2> HIDE DEF log
    <2> QED
      BY <1>0, <1>1, <1>3, <2>1, CutLog
  <1>6. \A j \in Server : LastLogIndex(j)' = LastLogIndex(j)
    BY <1>2, <1>3, <1>5 DEF Maximum
  <1>7. snapTerm' \in [Server -> Nat] /\ \A j \in Server \ {i} : snapTerm'[j] = snapTerm[j]
    BY <1>0, <1>1, <1>4 DEF TypeOK
  <1>8. NodeTypes'
    BY <1>0, <1>1, <1>5, <1>7 DEF NodeTypes, TypeOK, serverVars
  <1>9. disk' \in [Server -> DiskState] /\ DiskCurrent'
    BY <1>0, <1>1, <1>5, <1>7, <1>8, PersistStep DEF serverVars
  <1>10. TypeOK'
    BY <1>0, <1>1, <1>8, <1>9 DEF TypeOK, NodeTypes, applyVars, leaderVars, voteVars, readVars
  <1>11. IndexOrder'
    <2>1. snapIndex'[i] = index
      BY <1>0, <1>1 DEF TypeOK
    <2> QED
      BY <1>0, <1>1, <1>5, <1>6, <2>1 DEF IndexOrder, applyVars
  <1>12. \A j \in Server : LastLogIndex(j)' >= LastLogIndex(j)
    BY <1>0, <1>6, LastIndexIsLength
  <1> QED
    BY <1>1, <1>5, <1>9, <1>10, <1>11, <1>12, GrowingStep

LEMMA leaderSendSnapShotInv ==
    ASSUME NodeInv, NEW t \in rpcs, leaderSendSnapShot(t)
    PROVE  NodeInv'
  <1> DEFINE i == t.from
             call == [kind |-> "InstallSnapshot", from |-> i, to |-> t.to, waiting |-> TRUE,
                      term |-> currentTerm[i], index |-> snapIndex[i], lastTerm |-> snapTerm[i],
                      spawned |-> t.spawned, round |-> t.round]
  <1>0. TypeOK /\ DiskCurrent
    BY DEF NodeInv
  <1>1. t \in SnapshotThreads
    BY <1>0, RpcKinds DEF leaderSendSnapShot
  <1>2. i \in Server /\ t.to \in Server /\ t.spawned \in Nat /\ t.round \in Nat
    BY <1>1 DEF SnapshotThreads
  <1>3. currentTerm[i] \in Nat /\ snapIndex[i] \in Nat /\ snapTerm[i] \in Nat
    BY <1>0, <1>2 DEF TypeOK
  <1>4. call \in SnapshotRequests
    BY <1>2, <1>3 DEF SnapshotRequests
  <1>5. /\ rpcs' = (rpcs \ {t}) \cup {call}
        /\ UNCHANGED <<serverVars, logVars, applyVars, leaderVars, voteVars, readVars,
                       disk, applied, restarts>>
    BY DEF leaderSendSnapShot
  <1> HIDE DEF call
  <1>6. rpcs' \subseteq Rpc /\ \A q \in rpcs' : q \in rpcs \/ Plain(q)
    BY <1>0, <1>4, <1>5, PlainRecords DEF Rpc, TypeOK
  <1>7. TypeOK'
    BY <1>0, <1>5, <1>6
       DEF TypeOK, serverVars, logVars, applyVars, leaderVars, voteVars, readVars
  <1> QED
    BY <1>0, <1>5, <1>6, <1>7, QuietStep, DiskFrame DEF logVars, applyVars

\* The cases of InstallSnapshot that install nothing.
LEMMA InstallQuietInv ==
    ASSUME NodeInv, NEW r \in rpcs, r.kind = "InstallSnapshot", InstallStale(r) \/ InstallOutdated(r)
    PROVE  NodeInv'
  <1> DEFINE j == r.to
  <1>0. TypeOK /\ DiskCurrent
    BY DEF NodeInv
  <1>1. r \in SnapshotRequests
    BY <1>0, RpcKinds
  <1>2. j \in Server /\ r.term \in Nat /\ currentTerm[j] \in Nat
    BY <1>0, <1>1 DEF SnapshotRequests, TypeOK
  <1>3. \A term \in Nat : SnapshotReply(r, term) \in SnapshotReplies
    BY <1>1 DEF SnapshotReply, SnapshotReplies
  <1>4. ASSUME NEW term \in Nat, Reply(r, SnapshotReply(r, term))
        PROVE  rpcs' \subseteq Rpc /\ \A q \in rpcs' : q \in rpcs \/ Plain(q)
    BY <1>0, <1>3, <1>4, ReplyType, PlainRecords DEF Rpc
  <1>5. CASE InstallStale(r)
    <2>1. /\ Reply(r, SnapshotReply(r, currentTerm[j]))
          /\ UNCHANGED <<serverVars, logVars, applyVars, leaderVars, voteVars, readVars,
                         disk, applied, restarts>>
      BY <1>5 DEF InstallStale
    <2>2. rpcs' \subseteq Rpc /\ \A q \in rpcs' : q \in rpcs \/ Plain(q)
      BY <1>2, <1>4, <2>1
    <2>3. TypeOK'
      BY <1>0, <2>1, <2>2
         DEF TypeOK, serverVars, logVars, applyVars, leaderVars, voteVars, readVars
    <2> QED
      BY <1>0, <2>1, <2>2, <2>3, QuietStep, DiskFrame DEF logVars, applyVars
  <1>6. CASE InstallOutdated(r)
    <2>1. /\ FollowSender(r)
          /\ Reply(r, SnapshotReply(r, 0))
          /\ UNCHANGED <<logVars, applyVars, leaderVars, voteVars, readVars, applied, restarts>>
          /\ IF r.term > currentTerm[j] THEN Persist(j) ELSE UNCHANGED disk
      BY <1>6 DEF InstallOutdated
    <2>2. rpcs' \subseteq Rpc /\ \A q \in rpcs' : q \in rpcs \/ Plain(q)
      BY <1>4, <2>1
    <2>3. /\ status' \in [Server -> {Follower, Candidate, Leader}]
          /\ currentTerm' \in [Server -> Nat]
          /\ votedFor' \in [Server -> Server \cup {Nil}]
          /\ \A k \in Server \ {j} : /\ status'[k] = status[k]
                                     /\ currentTerm'[k] = currentTerm[k]
                                     /\ votedFor'[k] = votedFor[k]
      BY <1>0, <1>2, <2>1, FollowSenderTypes
    <2>4. NodeTypes'
      BY <1>0, <2>1, <2>3 DEF NodeTypes, TypeOK, logVars
    <2>5. disk' \in [Server -> DiskState] /\ DiskCurrent'
      <3>1. CASE r.term > currentTerm[j]
        BY <1>0, <1>2, <2>1, <2>3, <2>4, <3>1, PersistStep DEF logVars
      <3>2. CASE ~(r.term > currentTerm[j])
        <4>1. r.term = currentTerm[j] /\ UNCHANGED disk
          BY <1>2, <2>1, <3>2 DEF FollowSender
        <4>2. currentTerm'[j] = currentTerm[j] /\ votedFor'[j] = votedFor[j]
              /\ status'[j] = Follower
          BY <1>0, <1>2, <2>1, <3>2, <4>1 DEF FollowSender, TypeOK
        <4> QED
          BY <1>0, <2>1, <2>3, <4>1, <4>2, ZenonT(40) DEF DiskCurrent, logVars, TypeOK
      <3> QED
        BY <3>1, <3>2
    <2>6. TypeOK'
      BY <1>0, <2>1, <2>2, <2>4, <2>5
         DEF TypeOK, NodeTypes, applyVars, leaderVars, voteVars, readVars
    <2> QED
      BY <2>1, <2>2, <2>5, <2>6, QuietStep DEF logVars, applyVars
  <1> QED
    BY <1>5, <1>6

LEMMA InstallNewInv ==
    ASSUME NodeInv, NEW r \in rpcs, r.kind = "InstallSnapshot", InstallNew(r)
    PROVE  NodeInv'
  <1> DEFINE j == r.to
             log == IF LastLogIndex(j) > r.index THEN DropPrefix(j, r.index) ELSE <<>>
             reply == SnapshotReply(r, r.term)
  <1>0. TypeOK /\ LogContiguous /\ IndexOrder /\ DiskCurrent
    BY DEF NodeInv
  <1>1. r \in SnapshotRequests
    BY <1>0, RpcKinds
  <1>2. j \in Server /\ r.term \in Nat /\ r.index \in Nat /\ r.lastTerm \in Nat
    BY <1>1 DEF SnapshotRequests
  <1>3. reply \in SnapshotReplies
    BY <1>1, <1>2 DEF SnapshotReply, SnapshotReplies
  <1>4. /\ FollowSender(r)
        /\ r.index > snapIndex[j]
        /\ logs' = [logs EXCEPT ![j] = log]
        /\ snapIndex' = [snapIndex EXCEPT ![j] = r.index]
        /\ snapTerm' = [snapTerm EXCEPT ![j] = r.lastTerm]
        /\ commitIndex' = [commitIndex EXCEPT ![j] = Raised(@, r.index)]
        /\ lastApplied' = [lastApplied EXCEPT ![j] = Raised(@, r.index)]
        /\ Reply(r, reply)
        /\ UNCHANGED <<leaderVars, voteVars, readVars, applied, restarts>>
        /\ Persist(j)
    BY DEF InstallNew
  <1> HIDE DEF j, reply
  <1>5. /\ LastLogIndex(j) \in Nat /\ snapIndex[j] \in Nat
        /\ commitIndex[j] \in Nat /\ commitIndex[j] <= LastLogIndex(j)
        /\ lastApplied[j] \in Nat /\ lastApplied[j] <= LastLogIndex(j)
    BY <1>0, <1>2, LastIndexIsLength DEF TypeOK, IndexOrder
  <1>6. r.index >= snapIndex[j]
    BY <1>2, <1>4, <1>5
  <1>7. log \in Seq(Entry)
        /\ \/ r.index <= LastLogIndex(j) /\ log = DropPrefix(j, r.index)
           \/ r.index >= LastLogIndex(j) /\ log = <<>>
    <2>1. CASE LastLogIndex(j) > r.index
      <3>1. r.index <= LastLogIndex(j)
        BY <1>2, <1>5, <2>1
      <3>2. DropPrefix(j, r.index) \in Seq(Entry)
        BY <1>0, <1>2, <1>6, <3>1, DropPrefixProperties
      <3> QED
        BY <2>1, <3>1, <3>2
    <2>2. CASE ~(LastLogIndex(j) > r.index)
      BY <1>2, <1>5, <2>2
    <2> QED
      BY <2>1, <2>2
  <1> HIDE DEF log
  <1>8. /\ logs' \in [Server -> Seq(Entry)] /\ snapIndex' \in [Server -> Nat]
        /\ LogContiguous'
        /\ LastLogIndex(j)' = Maximum(LastLogIndex(j), r.index)
        /\ \A i \in Server \ {j} : /\ logs'[i] = logs[i] /\ snapIndex'[i] = snapIndex[i]
                                   /\ LastLogIndex(i)' = LastLogIndex(i)
    BY <1>0, <1>2, <1>4, <1>6, <1>7, CutLog
  <1>9. /\ status' \in [Server -> {Follower, Candidate, Leader}]
        /\ currentTerm' \in [Server -> Nat]
        /\ votedFor' \in [Server -> Server \cup {Nil}]
        /\ \A i \in Server \ {j} : /\ status'[i] = status[i]
                                   /\ currentTerm'[i] = currentTerm[i]
                                   /\ votedFor'[i] = votedFor[i]
    BY <1>0, <1>2, <1>4, FollowSenderTypes DEF j
  <1>10. snapTerm' \in [Server -> Nat] /\ \A i \in Server \ {j} : snapTerm'[i] = snapTerm[i]
    BY <1>0, <1>2, <1>4 DEF TypeOK
  <1>11. NodeTypes'
    BY <1>8, <1>9, <1>10 DEF NodeTypes
  <1>12. disk' \in [Server -> DiskState] /\ DiskCurrent'
    BY <1>0, <1>2, <1>4, <1>8, <1>9, <1>10, <1>11, PersistStep
  <1>13. /\ commitIndex' \in [Server -> Nat] /\ lastApplied' \in [Server -> Nat]
         /\ commitIndex'[j] = Maximum(commitIndex[j], r.index)
         /\ lastApplied'[j] = Maximum(lastApplied[j], r.index)
         /\ \A i \in Server \ {j} : commitIndex'[i] = commitIndex[i]
                                    /\ lastApplied'[i] = lastApplied[i]
    <2>1. Maximum(commitIndex[j], r.index) \in Nat /\ Maximum(lastApplied[j], r.index) \in Nat
      BY <1>2, <1>5 DEF Maximum
    <2> QED
      BY <1>0, <1>2, <1>4, <2>1 DEF TypeOK, Raised
  <1>14. rpcs' \subseteq Rpc /\ \A q \in rpcs' : q \in rpcs \/ Plain(q)
    BY <1>0, <1>3, <1>4, ReplyType, PlainRecords DEF Rpc
  <1>15. TypeOK'
    BY <1>0, <1>4, <1>11, <1>12, <1>13, <1>14
       DEF TypeOK, NodeTypes, leaderVars, voteVars, readVars
  <1>16. IndexOrder'
    <2> SUFFICES ASSUME NEW i \in Server
                 PROVE  /\ snapIndex'[i] <= lastApplied'[i]
                        /\ commitIndex'[i] <= LastLogIndex(i)'
                        /\ lastApplied'[i] <= LastLogIndex(i)'
      BY DEF IndexOrder
    <2>1. CASE i = j
      <3>1. snapIndex'[j] = r.index
        BY <1>0, <1>2, <1>4 DEF TypeOK
      <3>2. /\ r.index <= Maximum(lastApplied[j], r.index)
            /\ Maximum(commitIndex[j], r.index) <= Maximum(LastLogIndex(j), r.index)
            /\ Maximum(lastApplied[j], r.index) <= Maximum(LastLogIndex(j), r.index)
        BY <1>2, <1>5 DEF Maximum
      <3> QED
        BY <1>8, <1>13, <2>1, <3>1, <3>2
    <2>2. CASE i # j
      BY <1>0, <1>8, <1>13, <2>2 DEF IndexOrder
    <2> QED
      BY <2>1, <2>2
  <1>17. \A i \in Server : LastLogIndex(i)' >= LastLogIndex(i)
    <2>1. LastLogIndex(j)' >= LastLogIndex(j)
      BY <1>2, <1>5, <1>8 DEF Maximum
    <2>2. \A i \in Server : LastLogIndex(i) \in Nat
      BY <1>0, LastIndexIsLength
    <2> QED
      BY <1>8, <2>1, <2>2
  <1> QED
    BY <1>8, <1>12, <1>14, <1>15, <1>16, <1>17, GrowingStep

LEMMA SnapshotReplyInv ==
    ASSUME NodeInv, NEW r \in rpcs, leaderSendSnapShotReply(r)
    PROVE  NodeInv'
  <1> DEFINE i == r.args.from
             j == r.args.to
  <1>0. TypeOK /\ DiskCurrent
    BY DEF NodeInv
  <1>1. r \in SnapshotReplies /\ Consume(r)
    BY <1>0, RpcKinds DEF leaderSendSnapShotReply
  <1>2. i \in Server /\ j \in Server /\ r.term \in Nat /\ r.args.index \in Nat
    BY <1>1 DEF SnapshotReplies, SnapshotRequests
  <1>3. rpcs' \subseteq Rpc /\ \A q \in rpcs' : q \in rpcs
    BY <1>0, <1>1 DEF Consume, TypeOK
  <1> HIDE DEF i, j
  <1>4. CASE SnapshotReplyNewer(r)
    <2>1. /\ StepDown(i, r.term) /\ Persist(i)
          /\ UNCHANGED <<logVars, applyVars, leaderVars, voteVars, readVars, applied, restarts>>
      BY <1>4 DEF SnapshotReplyNewer, i
    <2>2. NodeTypes'
      BY <1>0, <1>2, <2>1 DEF StepDown, NodeTypes, TypeOK, logVars
    <2>3. disk' \in [Server -> DiskState] /\ DiskCurrent'
      BY <1>0, <1>2, <2>1, <2>2, PersistStep DEF StepDown, logVars, TypeOK
    <2>4. TypeOK'
      BY <1>0, <1>3, <2>1, <2>2, <2>3
         DEF TypeOK, NodeTypes, applyVars, leaderVars, voteVars, readVars
    <2> QED
      BY <1>3, <2>1, <2>3, <2>4, QuietStep DEF logVars, applyVars
  <1>5. CASE SnapshotReplyIgnored(r)
    <2>1. UNCHANGED <<serverVars, logVars, applyVars, leaderVars, voteVars, readVars,
                      disk, applied, restarts>>
      BY <1>5 DEF SnapshotReplyIgnored
    <2>2. TypeOK'
      BY <1>0, <1>3, <2>1
         DEF TypeOK, serverVars, logVars, applyVars, leaderVars, voteVars, readVars
    <2> QED
      BY <1>0, <1>3, <2>1, <2>2, QuietStep, DiskFrame DEF logVars, applyVars
  <1>6. CASE SnapshotReplyInstalled(r)
    <2>1. /\ matchIndex' = [matchIndex EXCEPT ![i][j] = r.args.index]
          /\ nextIndex' = [nextIndex EXCEPT ![i][j] = r.args.index + 1]
          /\ UNCHANGED <<serverVars, logVars, applyVars, appendNums, rounds, voteVars, readVars,
                         disk, applied, restarts>>
      BY <1>6 DEF SnapshotReplyInstalled, i, j
    <2>2. matchIndex' \in [Server -> [Server -> Nat]]
      BY <1>0, <1>2, <2>1 DEF TypeOK
    <2>3. nextIndex' \in [Server -> [Server -> Int]]
      <3>1. r.args.index + 1 \in Int
        BY <1>2
      <3>2. nextIndex \in [Server -> [Server -> Int]]
        BY <1>0 DEF TypeOK
      <3>3. nextIndex' = [nextIndex EXCEPT ![i][j] = r.args.index + 1]
        BY <2>1
      <3> DEFINE next == r.args.index + 1
      <3> HIDE DEF next
      <3> QED
        BY <1>2, <3>1, <3>2, <3>3 DEF next
    <2>4. TypeOK'
      BY <1>0, <1>3, <2>1, <2>2, <2>3
         DEF TypeOK, serverVars, logVars, applyVars, voteVars, readVars
    <2> QED
      BY <1>0, <1>3, <2>1, <2>4, QuietStep, DiskFrame DEF logVars, applyVars
  <1> QED
    BY <1>4, <1>5, <1>6 DEF leaderSendSnapShotReply

-----------------------------------------------------------------------------
\* The steps of ReadIndex that change nothing but the call's own record.
LEMMA ReadInv ==
    ASSUME NodeInv, NEW i \in Server, read' \in [Server -> ReadState], reads' \in Nat,
           \/ UNCHANGED rpcs
           \/ \E q \in rpcs : Consume(q),
           UNCHANGED <<serverVars, logVars, applyVars, leaderVars, voteVars, disk,
                       applied, restarts>>
    PROVE  NodeInv'
  <1>0. TypeOK /\ DiskCurrent
    BY DEF NodeInv
  <1>1. rpcs' \subseteq Rpc /\ \A q \in rpcs' : q \in rpcs
    BY <1>0 DEF Consume, TypeOK
  <1>2. TypeOK'
    BY <1>0, <1>1 DEF TypeOK, serverVars, logVars, applyVars, leaderVars, voteVars
  <1> QED
    BY <1>0, <1>1, <1>2, QuietStep, DiskFrame DEF logVars, applyVars

LEMMA ReadIndexInv ==
    ASSUME NodeInv, NEW i \in Server,
           ReadIndex(i) \/ ReadIndexReturn(i) \/ WaitForApplied(i)
    PROVE  NodeInv'
  <1>0. TypeOK
    BY DEF NodeInv
  <1>1. NoRead \in ReadState
    BY DEF NoRead, ReadState
  <1>2. read \in [Server -> ReadState] /\ read[i] \in ReadState /\ reads \in Nat
    BY <1>0 DEF TypeOK
  <1>3. CASE ReadIndex(i)
    <2> DEFINE call == [phase |-> "confirm", id |-> reads', term |-> currentTerm[i],
                        index |-> commitIndex[i], confirms |-> 1, unsent |-> Server \ {i},
                        elected |-> {w.term : w \in won}]
    <2>1. /\ reads' = reads + 1 /\ read' = [read EXCEPT ![i] = call]
          /\ UNCHANGED <<serverVars, logVars, applyVars, leaderVars, voteVars, disk, rpcs,
                         applied, restarts>>
      BY <1>3 DEF ReadIndex
    <2>2. {w.term : w \in won} \subseteq Nat
      <3>1. won \subseteq [term : Nat, leader : Server]
        BY <1>0 DEF TypeOK
      <3>2. \A w \in won : w.term \in Nat
        BY <3>1
      <3> QED
        BY <3>2
    <2>3. currentTerm[i] \in Nat /\ commitIndex[i] \in Nat /\ reads' \in Nat
      BY <1>0, <1>2, <2>1 DEF TypeOK
    <2>4. call \in ReadState
      BY <2>2, <2>3 DEF ReadState
    <2> HIDE DEF call
    <2> QED
      BY <1>2, <2>1, <2>3, <2>4, ReadInv
  <1>4. CASE ReadIndexReturn(i)
    <2>1. /\ \/ read' = [read EXCEPT ![i].phase = "wait"]
             \/ read' = [read EXCEPT ![i] = NoRead]
          /\ UNCHANGED <<serverVars, logVars, applyVars, leaderVars, voteVars, reads, disk, rpcs,
                         applied, restarts>>
      BY <1>4 DEF ReadIndexReturn
    <2>2. [read[i] EXCEPT !.phase = "wait"] \in ReadState
      BY <1>2 DEF ReadState
    <2>3. read' \in [Server -> ReadState]
      BY <1>1, <1>2, <2>1, <2>2
    <2> QED
      BY <1>2, <2>1, <2>3, ReadInv
  <1>5. CASE WaitForApplied(i)
    <2>1. /\ read' = [read EXCEPT ![i] = NoRead]
          /\ UNCHANGED <<serverVars, logVars, applyVars, leaderVars, voteVars, reads, disk, rpcs,
                         applied, restarts>>
      BY <1>5 DEF WaitForApplied
    <2>2. read' \in [Server -> ReadState]
      BY <1>1, <1>2, <2>1
    <2> QED
      BY <1>2, <2>1, <2>2, ReadInv
  <1> QED
    BY <1>3, <1>4, <1>5

LEMMA ReadIndexConfirmInv ==
    ASSUME NodeInv, NEW r \in rpcs, ReadIndexConfirm(r)
    PROVE  NodeInv'
  <1> DEFINE i == r.args.from
             n == IF read[i].id = r.args.round /\ Confirms(r) THEN read[i].confirms + 1
                  ELSE read[i].confirms
  <1>0. TypeOK
    BY DEF NodeInv
  <1>1. i \in Server
    BY <1>0, RpcKinds DEF ReadIndexConfirm, AppendReplies, AppendRequests
  <1>2. read \in [Server -> ReadState] /\ read[i] \in ReadState /\ reads \in Nat
    BY <1>0, <1>1 DEF TypeOK
  <1>3. n \in Nat
    BY <1>2 DEF ReadState
  <1>4. /\ Consume(r) /\ read' = [read EXCEPT ![i].confirms = n]
        /\ UNCHANGED <<serverVars, logVars, applyVars, leaderVars, voteVars, reads, disk,
                       applied, restarts>>
    BY DEF ReadIndexConfirm
  <1> HIDE DEF i, n
  <1>5. [read[i] EXCEPT !.confirms = n] \in ReadState
    BY <1>2, <1>3 DEF ReadState
  <1>6. read' \in [Server -> ReadState]
    BY <1>1, <1>2, <1>4, <1>5
  <1> QED
    BY <1>1, <1>2, <1>4, <1>6, ReadInv

LEMMA ReadIndexBeatInv ==
    ASSUME NodeInv, NEW i \in Server, NEW j \in Server, ReadIndexBeat(i, j)
    PROVE  NodeInv'
  <1> DEFINE a == AppendRequest(i, j, "ReadBeat", <<>>, read[i].id)
  <1>0. TypeOK /\ LogContiguous /\ DiskCurrent
    BY DEF NodeInv
  <1>1. /\ read' = [read EXCEPT ![i].unsent = @ \ {j}]
        /\ \/ UNCHANGED rpcs
           \/ /\ nextIndex[i][j] > snapIndex[i] /\ nextIndex[i][j] <= LastLogIndex(i) + 1
              /\ rpcs' = rpcs \cup {a}
        /\ UNCHANGED <<serverVars, logVars, applyVars, leaderVars, voteVars, reads, disk,
                       applied, restarts>>
    BY DEF ReadIndexBeat
  <1>2. read \in [Server -> ReadState] /\ read[i] \in ReadState /\ reads \in Nat
    BY <1>0 DEF TypeOK
  <1>3. [read[i] EXCEPT !.unsent = @ \ {j}] \in ReadState /\ read[i].id \in Nat
    BY <1>2 DEF ReadState
  <1>4. read' \in [Server -> ReadState]
    BY <1>1, <1>2, <1>3
  <1>5. CASE UNCHANGED rpcs
    BY <1>1, <1>2, <1>4, <1>5, ReadInv
  <1>6. CASE /\ nextIndex[i][j] > snapIndex[i] /\ nextIndex[i][j] <= LastLogIndex(i) + 1
             /\ rpcs' = rpcs \cup {a}
    <2> DEFINE prev == nextIndex[i][j] - 1
    <2>1. nextIndex[i][j] \in Int /\ currentTerm[i] \in Nat /\ commitIndex[i] \in Nat
          /\ LastLogIndex(i) \in Nat /\ snapIndex[i] \in Nat
      <3>1. LastLogIndex(i) \in Nat /\ snapIndex[i] \in Nat
        BY <1>0, LastIndexIsLength
      <3>2. nextIndex[i][j] \in Int /\ currentTerm[i] \in Nat /\ commitIndex[i] \in Nat
        BY <1>0 DEF TypeOK
      <3> QED
        BY <3>1, <3>2
    <2>2. prev \in Nat /\ prev >= snapIndex[i] /\ prev <= LastLogIndex(i)
      BY <1>6, <2>1
    <2>3. LogTerm(i, prev) \in Nat
      BY <1>0, <2>2, LogTermType
    <2>4. a \in AppendRequests /\ a.prevIndex = prev /\ a.entries = <<>> /\ a.from = i
      <3>1. <<>> \in Seq(Entry)
        OBVIOUS
      <3>2. a = [kind |-> "ReadBeat", from |-> i, to |-> j, waiting |-> TRUE,
                 term |-> currentTerm[i], prevIndex |-> prev, prevTerm |-> LogTerm(i, prev),
                 entries |-> <<>>, leaderCommit |-> commitIndex[i], round |-> read[i].id]
        BY DEF AppendRequest
      <3>3. a \in AppendRequests
        <4> HIDE DEF a, prev
        <4> QED
          BY <1>3, <2>1, <2>2, <2>3, <3>1, <3>2 DEF AppendRequests
      <3> QED
        BY <3>2, <3>3
    <2> HIDE DEF a, prev
    <2>5. AppendWellFormed(a)
      <3>1. Len(<<>>) = 0 /\ \A k \in 1 .. 0 : FALSE
        OBVIOUS
      <3> QED
        BY <2>1, <2>2, <2>4, <3>1 DEF AppendWellFormed
    <2>6. rpcs' \subseteq Rpc
      BY <1>0, <1>6, <2>4 DEF TypeOK, Rpc
    <2>7. TypeOK'
      BY <1>0, <1>1, <1>4, <2>6
         DEF TypeOK, serverVars, logVars, applyVars, leaderVars, voteVars
    <2>8. DiskCurrent'
      BY <1>0, <1>1, DiskFrame
    <2> QED
      BY <1>1, <1>6, <2>4, <2>5, <2>7, <2>8, QuietStep DEF logVars, applyVars
  <1> QED
    BY <1>1, <1>5, <1>6

-----------------------------------------------------------------------------
\* The requests of a process that died are still requests.
LEMMA Abandoned ==
    ASSUME NEW r \in Rpc, "waiting" \in DOMAIN r
    PROVE  LET q == [r EXCEPT !.waiting = FALSE]
           IN  \/ q \in VoteRequests \/ q \in SnapshotRequests
               \/ /\ r \in AppendRequests /\ q \in AppendRequests
                  /\ q.from = r.from /\ q.prevIndex = r.prevIndex /\ q.entries = r.entries
  <1>1. r \in VoteRequests \/ r \in AppendRequests \/ r \in SnapshotRequests
    <2>1. r \notin SnapshotThreads
      BY DEF SnapshotThreads
    <2>2. r \notin VoteReplies
      BY DEF VoteReplies
    <2>3. r \notin AppendReplies
      BY DEF AppendReplies
    <2>4. r \notin SnapshotReplies
      BY DEF SnapshotReplies
    <2> QED
      BY <2>1, <2>2, <2>3, <2>4 DEF Rpc
  <1>2. CASE r \in VoteRequests
    BY <1>2 DEF VoteRequests
  <1>3. CASE r \in SnapshotRequests
    BY <1>3 DEF SnapshotRequests
  <1>4. CASE r \in AppendRequests
    BY <1>4 DEF AppendRequests
  <1> QED
    BY <1>1, <1>2, <1>3, <1>4

LEMMA RestartInv ==
    ASSUME NodeInv, NEW i \in Server, Restart(i)
    PROVE  NodeInv'
  <1>0. TypeOK /\ LogContiguous /\ IndexOrder /\ DiskCurrent /\ RpcBounds
    BY DEF NodeInv
  <1>1. disk \in [Server -> DiskState] /\ disk[i] \in DiskState
    BY <1>0 DEF TypeOK
  <1>2. /\ disk[i].term \in Nat /\ disk[i].votedFor \in Server \cup {Nil}
        /\ disk[i].log = logs[i] /\ disk[i].snapIndex = snapIndex[i]
        /\ disk[i].snapTerm = snapTerm[i]
    BY <1>0, <1>1 DEF DiskState, DiskCurrent
  <1>3. /\ restarts' = restarts + 1
        /\ status' = [status EXCEPT ![i] = Follower]
        /\ currentTerm' = [currentTerm EXCEPT ![i] = disk[i].term]
        /\ votedFor' = [votedFor EXCEPT ![i] = disk[i].votedFor]
        /\ logs' = [logs EXCEPT ![i] = disk[i].log]
        /\ snapIndex' = [snapIndex EXCEPT ![i] = disk[i].snapIndex]
        /\ snapTerm' = [snapTerm EXCEPT ![i] = disk[i].snapTerm]
        /\ commitIndex' = [commitIndex EXCEPT ![i] = 0]
        /\ lastApplied' = [lastApplied EXCEPT ![i] = disk[i].snapIndex]
        /\ nextIndex' = [nextIndex EXCEPT ![i] = [j \in Server |-> 0]]
        /\ matchIndex' = [matchIndex EXCEPT ![i] = [j \in Server |-> 0]]
        /\ votedNum' = [votedNum EXCEPT ![i] = 0]
        /\ voters' = [voters EXCEPT ![i] = {}]
        /\ appendNums' = [appendNums EXCEPT ![i] = <<>>]
        /\ read' = [read EXCEPT ![i] = NoRead]
        /\ rpcs' = AbandonRpcs(i)
        /\ UNCHANGED <<disk, ballots, won, applied, reads, rounds>>
    BY DEF Restart
  <1>4. logs' = logs /\ snapIndex' = snapIndex /\ snapTerm' = snapTerm
    BY <1>0, <1>2, <1>3 DEF TypeOK
  <1>5. NodeTypes'
    BY <1>0, <1>2, <1>3, <1>4 DEF NodeTypes, TypeOK
  <1>6. DiskCurrent'
    BY <1>0, <1>2, <1>3, <1>4 DEF DiskCurrent, TypeOK
  <1>7. /\ nextIndex' \in [Server -> [Server -> Int]]
        /\ matchIndex' \in [Server -> [Server -> Nat]]
    <2>1. [j \in Server |-> 0] \in [Server -> Int] /\ [j \in Server |-> 0] \in [Server -> Nat]
      OBVIOUS
    <2> QED
      BY <1>0, <1>3, <2>1 DEF TypeOK
  <1>8. appendNums' \in [Server -> Seq(Nat)]
    <2>1. <<>> \in Seq(Nat)
      OBVIOUS
    <2> QED
      BY <1>0, <1>3, <2>1 DEF TypeOK
  <1>9. read' \in [Server -> ReadState]
    <2>1. NoRead \in ReadState
      BY DEF NoRead, ReadState
    <2> QED
      BY <1>0, <1>3, <2>1 DEF TypeOK
  <1>10. /\ commitIndex' \in [Server -> Nat] /\ lastApplied' \in [Server -> Nat]
         /\ votedNum' \in [Server -> Nat]
    <2>1. disk[i].snapIndex \in Nat
      BY <1>1 DEF DiskState
    <2> QED
      BY <1>0, <1>3, <2>1 DEF TypeOK
  <1>11. voters' \in [Server -> SUBSET Server] /\ restarts' \in Nat
    BY <1>0, <1>3 DEF TypeOK
  <1>12. \A q \in rpcs' : \/ q \in rpcs
                          \/ q \in VoteRequests \/ q \in SnapshotRequests
                          \/ q \in AppendRequests /\ AppendWellFormed(q)
    <2> SUFFICES ASSUME NEW r \in rpcs, "waiting" \in DOMAIN r
                 PROVE  LET q == [r EXCEPT !.waiting = FALSE]
                        IN  \/ q \in VoteRequests \/ q \in SnapshotRequests
                            \/ q \in AppendRequests /\ AppendWellFormed(q)
      BY <1>3 DEF AbandonRpcs
    <2>1. r \in Rpc
      BY <1>0 DEF TypeOK
    <2> DEFINE q == [r EXCEPT !.waiting = FALSE]
    <2>2. \/ q \in VoteRequests \/ q \in SnapshotRequests
          \/ /\ r \in AppendRequests /\ q \in AppendRequests
             /\ q.from = r.from /\ q.prevIndex = r.prevIndex /\ q.entries = r.entries
      BY <2>1, Abandoned
    <2>3. r \in AppendRequests => AppendWellFormed(r)
      BY <1>0 DEF RpcBounds
    <2> HIDE DEF q
    <2>4. \/ q \in VoteRequests \/ q \in SnapshotRequests
          \/ q \in AppendRequests /\ AppendWellFormed(q)
      BY <2>2, <2>3 DEF AppendWellFormed
    <2> QED
      BY <2>4 DEF q
  <1>13. rpcs' \subseteq Rpc
    BY <1>0, <1>12 DEF TypeOK, Rpc
  <1>14. TypeOK'
    BY <1>0, <1>1, <1>3, <1>5, <1>7, <1>8, <1>9, <1>10, <1>11, <1>13 DEF TypeOK, NodeTypes
  <1>15. LogContiguous' /\ \A j \in Server : LastLogIndex(j)' = LastLogIndex(j)
                                             /\ LastLogIndex(j) \in Nat
    BY <1>0, <1>4, LastIndexIsLength DEF LogContiguous, LastLogIndex
  <1>16. IndexOrder'
    <2> SUFFICES ASSUME NEW j \in Server
                 PROVE  /\ snapIndex'[j] <= lastApplied'[j]
                        /\ commitIndex'[j] <= LastLogIndex(j)'
                        /\ lastApplied'[j] <= LastLogIndex(j)'
      BY DEF IndexOrder
    <2>1. /\ snapIndex[j] <= lastApplied[j] /\ commitIndex[j] <= LastLogIndex(j)
          /\ lastApplied[j] <= LastLogIndex(j)
          /\ snapIndex[j] \in Nat /\ lastApplied[j] \in Nat
      BY <1>0 DEF IndexOrder, TypeOK
    <2>2. CASE j = i
      <3>1. commitIndex'[i] = 0 /\ lastApplied'[i] = snapIndex[i]
        BY <1>0, <1>2, <1>3 DEF TypeOK
      <3> QED
        BY <1>4, <1>15, <2>1, <2>2, <3>1
    <2>3. CASE j # i
      <3>1. commitIndex'[j] = commitIndex[j] /\ lastApplied'[j] = lastApplied[j]
        BY <1>0, <1>3, <2>3 DEF TypeOK
      <3> QED
        BY <1>4, <1>15, <2>1, <3>1
    <2> QED
      BY <2>2, <2>3
  <1>17. \A a \in AppendRequests : AppendWellFormed(a) => AppendWellFormed(a)'
    BY <1>15 DEF AppendWellFormed, AppendRequests
  <1>18. RpcBounds'
    <2>1. \A q \in rpcs' : \/ q \in rpcs
                           \/ /\ q \in AppendRequests => AppendWellFormed(q)'
                              /\ q \in AppendReplies => AppendWellFormed(q.args)'
      <3>1. \A q \in AppendRequests : q \notin AppendReplies
        BY DEF AppendRequests, AppendReplies
      <3> QED
        BY <1>12, <1>17, <3>1, PlainRecords DEF Plain
    <2>2. \A j \in Server : LastLogIndex(j)' >= LastLogIndex(j)
      BY <1>15
    <2> QED
      BY <1>0, <1>14, <1>15, <2>1, <2>2, RpcFrame
  <1> QED
    BY <1>6, <1>14, <1>15, <1>16, <1>18 DEF NodeInv

-----------------------------------------------------------------------------
LEMMA InitInv == Init => NodeInv
  <1> SUFFICES ASSUME Init PROVE NodeInv
    OBVIOUS
  <1>1. <<>> \in Seq(Entry) /\ <<>> \in Seq(Nat) /\ Len(<<>>) = 0
    OBVIOUS
  <1>2. NoRead \in ReadState
    BY DEF NoRead, ReadState
  <1>3. EmptyDisk \in DiskState
    BY <1>1 DEF EmptyDisk, DiskState
  <1>4. TypeOK
    <2>1. /\ nextIndex \in [Server -> [Server -> Int]]
          /\ matchIndex \in [Server -> [Server -> Nat]]
      BY DEF Init
    <2>2. disk \in [Server -> DiskState] /\ read \in [Server -> ReadState]
      BY <1>2, <1>3 DEF Init
    <2>3. logs \in [Server -> Seq(Entry)] /\ appendNums \in [Server -> Seq(Nat)]
      BY <1>1 DEF Init
    <2> QED
      BY <2>1, <2>2, <2>3 DEF Init, TypeOK
  <1>5. LogContiguous /\ RpcBounds
    BY <1>1 DEF Init, LogContiguous, RpcBounds
  <1>6. IndexOrder
    BY DEF Init, IndexOrder, LastLogIndex
  <1>7. DiskCurrent
    BY DEF Init, DiskCurrent, EmptyDisk
  <1> QED
    BY <1>4, <1>5, <1>6, <1>7 DEF NodeInv

LEMMA StutterInv ==
    ASSUME NodeInv, UNCHANGED vars
    PROVE  NodeInv'
  <1>0. TypeOK /\ DiskCurrent
    BY DEF NodeInv
  <1>1. UNCHANGED <<serverVars, logVars, applyVars, leaderVars, voteVars, readVars, disk,
                    rpcs, applied, restarts>>
    BY DEF vars
  <1>2. TypeOK'
    BY <1>0, <1>1
       DEF TypeOK, serverVars, logVars, applyVars, leaderVars, voteVars, readVars
  <1> QED
    BY <1>0, <1>1, <1>2, QuietStep, DiskFrame DEF logVars, applyVars

\* Every step preserves the invariant.
LEMMA NextInv ==
    ASSUME NodeInv, [Next]_vars
    PROVE  NodeInv'
  <1>0. TypeOK
    BY DEF NodeInv
  <1>1. CASE \E i \in Server :
               \/ doElection(i) \/ doHeartBeat(i) \/ applierTicker(i) \/ Restart(i)
               \/ ReadIndex(i) \/ ReadIndexReturn(i) \/ WaitForApplied(i)
               \/ \E command \in Command : Start(i, command)
               \/ \E index \in 1 .. MaxSnapIndex : Snapshot(i, index)
               \/ \E j \in Server : ReadIndexBeat(i, j)
    <2>1. PICK i \in Server :
               \/ doElection(i) \/ doHeartBeat(i) \/ applierTicker(i) \/ Restart(i)
               \/ ReadIndex(i) \/ ReadIndexReturn(i) \/ WaitForApplied(i)
               \/ \E command \in Command : Start(i, command)
               \/ \E index \in 1 .. MaxSnapIndex : Snapshot(i, index)
               \/ \E j \in Server : ReadIndexBeat(i, j)
      BY <1>1
    <2>2. \A index \in 1 .. MaxSnapIndex : index \in Nat
      BY BoundsAreNat
    <2> QED
      BY <2>1, <2>2, doElectionInv, doHeartBeatInv, applierTickerInv, RestartInv, ReadIndexInv,
         StartInv, SnapshotInv, ReadIndexBeatInv
  <1>2. CASE \E r \in rpcs :
               \/ RequestVote(r) \/ sendRequestVote(r) \/ AppendEntries1(r)
               \/ sendAppendEntries(r) \/ leaderSendSnapShot(r) \/ InstallSnapshot(r)
               \/ leaderSendSnapShotReply(r) \/ ReadIndexConfirm(r)
    <2>1. PICK r \in rpcs :
               \/ RequestVote(r) \/ sendRequestVote(r) \/ AppendEntries1(r)
               \/ sendAppendEntries(r) \/ leaderSendSnapShot(r) \/ InstallSnapshot(r)
               \/ leaderSendSnapShotReply(r) \/ ReadIndexConfirm(r)
      BY <1>2
    <2>2. sendRequestVote(r) => NodeInv'
      BY VoteReplyInv, VoteReplyWinsInv DEF sendRequestVote
    <2>3. AppendEntries1(r) => NodeInv'
      <3>1. AppendEntries1(r) => r \in AppendRequests
        BY <1>0, RpcKinds DEF AppendEntries1
      <3> QED
        BY <3>1, AppendEntriesStaleInv, AppendEntriesMismatchInv, AppendEntriesMatchInv
           DEF AppendEntries1
    <2>4. sendAppendEntries(r) => NodeInv'
      BY AppendReplyQuietInv, AppendReplySuccessInv DEF sendAppendEntries
    <2>5. InstallSnapshot(r) => NodeInv'
      BY InstallQuietInv, InstallNewInv DEF InstallSnapshot
    <2> QED
      BY <2>1, <2>2, <2>3, <2>4, <2>5, RequestVoteInv, leaderSendSnapShotInv, SnapshotReplyInv,
         ReadIndexConfirmInv
  <1>3. CASE UNCHANGED vars
    BY <1>3, StutterInv
  <1> QED
    BY <1>1, <1>2, <1>3 DEF Next

\* The invariant holds in every reachable state.
THEOREM NodeInvariant == Spec => []NodeInv
  BY InitInv, NextInv, PTL DEF Spec

\* Every field of the node, its raft-state file and the calls in progress keep
\* their types, whatever the number of servers and the bounds.
THEOREM TypeCorrect == Spec => []TypeOK
  <1>1. NodeInv => TypeOK
    BY DEF NodeInv
  <1> QED
    BY <1>1, NodeInvariant, PTL

\* A crash at any moment loses no log entry, no snapshot boundary and no vote:
\* every handler has called persist by the time it releases the mutex, and the
\* one that does not (a newer term in an AppendEntries reply) holds no vote.
THEOREM CrashLosesNothing == Spec => []DiskCurrent
  <1>1. NodeInv => DiskCurrent
    BY DEF NodeInv
  <1> QED
    BY <1>1, NodeInvariant, PTL

\* getSlicesIndexFromLogIndex finds the entry it is asked for after any
\* sequence of appends, in-place overwrites, compactions and installations.
THEOREM LogsContiguous == Spec => []LogContiguous
  <1>1. NodeInv => LogContiguous
    BY DEF NodeInv
  <1> QED
    BY <1>1, NodeInvariant, PTL

\* The assertions on commitIndex, lastApplied and the snapshot boundary in
\* getApplyLogs, AppendEntries1 and sendAppendEntries never fail.
THEOREM PositionsOrdered == Spec => []IndexOrder
  <1>1. NodeInv => IndexOrder
    BY DEF NodeInv
  <1> QED
    BY <1>1, NodeInvariant, PTL

-----------------------------------------------------------------------------
(***************************************************************************)
(* At most one leader per term, and the assertion of sendRequestVote.      *)
(*                                                                         *)
(* The argument: a vote is on the voter's disk before the reply leaves     *)
(* (BallotsOnDisk), so no voter votes twice in a term, not even across a   *)
(* crash; every vote counted was given in the term of the election that    *)
(* counts it (GrantsRecorded, VotersVoted), by a voter not counted before  *)
(* (CallsOfElections, CallsOnce), so a winner has a majority of ballots    *)
(* (WinnersElected), and two majorities share a voter.                     *)
(***************************************************************************)

Ballot(j, term, i) == [voter |-> j, term |-> term, candidate |-> i]

\* The arguments of a RequestVote call, in either direction.
Call(r) == IF r.kind = "RequestVote" THEN r ELSE r.args

\* The RequestVote calls whose reply a living thread waits for.
Pending == {r \in rpcs : r.kind = "VoteReply" \/ (r.kind = "RequestVote" /\ r.waiting)}

SameCall(r1, r2) ==
    /\ Call(r1).from = Call(r2).from /\ Call(r1).to = Call(r2).to
    /\ Call(r1).term = Call(r2).term

\* A vote granted is the vote on the voter's disk, or one of an earlier term.
BallotsOnDisk ==
    \A b \in ballots :
        /\ b.term <= disk[b.voter].term
        /\ b.term = disk[b.voter].term => disk[b.voter].votedFor = b.candidate

\* A granting reply speaks of the term it was asked for, and of a real vote.
GrantsRecorded ==
    \A r \in rpcs : r.kind = "VoteReply" /\ r.granted =>
        /\ r.term = r.args.term
        /\ Ballot(r.args.to, r.term, r.args.from) \in ballots

\* The servers counted for a candidate have voted for it in its term.
VotersVoted ==
    \A i \in Server : votedFor[i] = i =>
        \A j \in voters[i] : Ballot(j, currentTerm[i], i) \in ballots

\* *votedNum counts no vote that was not given, and restarts from the majority.
VotesCounted ==
    \A i \in Server :
        /\ votedNum[i] <= Cardinality(voters[i])
        /\ /\ votedFor[i] = i /\ i \in voters[i]
           /\ [term |-> currentTerm[i], leader |-> i] \in won
           => votedNum[i] + Quorum <= Cardinality(voters[i])

\* The calls of an election: its candidate voted for itself, and has counted
\* nobody whose answer is still to come.
CallsOfElections ==
    \A r \in Pending :
        /\ Ballot(Call(r).from, Call(r).term, Call(r).from) \in ballots
        /\ Call(r).term = currentTerm[Call(r).from] =>
              Call(r).from \in voters[Call(r).from] /\ Call(r).to \notin voters[Call(r).from]

\* One call per peer and election.
CallsOnce == \A r1, r2 \in Pending : SameCall(r1, r2) => r1 = r2

CallsToOthers == \A r \in rpcs : r.kind = "RequestVote" => r.from # r.to

\* Whoever won a term has the votes of a majority, its own included.
WinnersElected ==
    \A w \in won :
        /\ Ballot(w.leader, w.term, w.leader) \in ballots
        /\ \E Q \in SUBSET Server :
              /\ Cardinality(Q) >= Quorum
              /\ \A j \in Q : Ballot(j, w.term, w.leader) \in ballots

VoteInv == /\ BallotsOnDisk /\ VoteOnce /\ GrantsRecorded /\ VotersVoted /\ VotesCounted
           /\ CallsOfElections /\ CallsOnce /\ CallsToOthers /\ WinnersElected

-----------------------------------------------------------------------------
\* No ballot is of a later term than its voter's, and the one of the current
\* term is the vote the server remembers.
LEMMA BallotsInMemory ==
    ASSUME TypeOK, DiskCurrent, BallotsOnDisk, NEW b \in ballots
    PROVE  /\ b.voter \in Server /\ b.term \in Nat /\ b.candidate \in Server
           /\ b.term <= currentTerm[b.voter]
           /\ b.term = currentTerm[b.voter] => votedFor[b.voter] = b.candidate
  <1>1. b.voter \in Server /\ b.term \in Nat /\ b.candidate \in Server
    <2>1. ballots \subseteq [voter : Server, term : Nat, candidate : Server]
      BY DEF TypeOK
    <2> QED
      BY <2>1
  <1>2. currentTerm[b.voter] \in Nat /\ disk[b.voter] \in DiskState
    BY <1>1 DEF TypeOK
  <1>3. disk[b.voter].term \in Nat
    BY <1>2 DEF DiskState
  <1>4. \/ disk[b.voter].term = currentTerm[b.voter] /\ disk[b.voter].votedFor = votedFor[b.voter]
        \/ disk[b.voter].term < currentTerm[b.voter]
    BY <1>1 DEF DiskCurrent
  <1> QED
    BY <1>1, <1>2, <1>3, <1>4 DEF BallotsOnDisk

\* A call in progress is a request of a type.
LEMMA PendingType ==
    ASSUME TypeOK, NEW r \in Pending
    PROVE  /\ r \in rpcs
           /\ Call(r) \in VoteRequests
           /\ Call(r).from \in Server /\ Call(r).to \in Server /\ Call(r).term \in Nat
  <1>1. r \in rpcs /\ (r.kind = "VoteReply" \/ r.kind = "RequestVote")
    BY DEF Pending
  <1>2. r.kind = "RequestVote" => r \in VoteRequests
    BY <1>1, RpcKinds
  <1>3. r.kind = "VoteReply" => r \in VoteReplies
    BY <1>1, RpcKinds
  <1>4. Call(r) \in VoteRequests
    BY <1>1, <1>2, <1>3 DEF Call, VoteReplies
  <1> QED
    BY <1>1, <1>4 DEF VoteRequests

\* A step in which nobody votes, counts or wins, and in which a server that
\* moves to a later term forgets its vote.
LEMMA TermStep ==
    ASSUME NodeInv, NodeInv', VoteInv, UNCHANGED voteVars,
           \A r \in rpcs' : r \in rpcs \/ r.kind \notin {"RequestVote", "VoteReply"},
           \A i \in Server :
              /\ \/ currentTerm'[i] = currentTerm[i] /\ votedFor'[i] = votedFor[i]
                 \/ currentTerm'[i] > currentTerm[i] /\ votedFor'[i] = Nil
              /\ \/ disk'[i] = disk[i]
                 \/ disk'[i].term = currentTerm'[i] /\ disk'[i].votedFor = votedFor'[i]
    PROVE  VoteInv'
  <1>0. TypeOK /\ DiskCurrent /\ TypeOK'
    BY DEF NodeInv
  <1>1. votedNum' = votedNum /\ ballots' = ballots /\ voters' = voters /\ won' = won
    BY DEF voteVars
  <1>2. /\ BallotsOnDisk /\ VoteOnce /\ GrantsRecorded /\ VotersVoted /\ VotesCounted
        /\ CallsOfElections /\ CallsOnce /\ CallsToOthers /\ WinnersElected
    BY DEF VoteInv
  <1>3. Pending' \subseteq Pending
    BY DEF Pending
  <1>4. \A i \in Server : currentTerm[i] \in Nat /\ currentTerm'[i] \in Nat
    BY <1>0 DEF TypeOK
  <1>5. BallotsOnDisk'
    <2> SUFFICES ASSUME NEW b \in ballots
                 PROVE  /\ b.term <= disk'[b.voter].term
                        /\ b.term = disk'[b.voter].term => disk'[b.voter].votedFor = b.candidate
      BY <1>1 DEF BallotsOnDisk
    <2>1. /\ b.voter \in Server /\ b.term \in Nat
          /\ b.term <= currentTerm[b.voter]
          /\ b.term = currentTerm[b.voter] => votedFor[b.voter] = b.candidate
      BY <1>0, <1>2, BallotsInMemory
    <2>2. CASE disk'[b.voter] = disk[b.voter]
      BY <1>2, <2>2 DEF BallotsOnDisk
    <2>3. CASE disk'[b.voter].term = currentTerm'[b.voter]
               /\ disk'[b.voter].votedFor = votedFor'[b.voter]
      BY <1>4, <2>1, <2>3
    <2> QED
      BY <2>1, <2>2, <2>3
  <1>6. VoteOnce' /\ WinnersElected'
    BY <1>1, <1>2 DEF VoteOnce, WinnersElected
  <1>7. GrantsRecorded' /\ CallsToOthers'
    BY <1>1, <1>2 DEF GrantsRecorded, CallsToOthers
  <1>8. \A i \in Server : votedFor'[i] = i => currentTerm'[i] = currentTerm[i] /\ votedFor[i] = i
    BY NilNotServer
  <1>9. VotersVoted'
    BY <1>1, <1>2, <1>8 DEF VotersVoted
  <1>10. VotesCounted'
    BY <1>1, <1>2, <1>8 DEF VotesCounted
  <1>11. CallsOfElections'
    <2> SUFFICES ASSUME NEW r \in Pending
                 PROVE  /\ Ballot(Call(r).from, Call(r).term, Call(r).from) \in ballots
                        /\ Call(r).term = currentTerm'[Call(r).from] =>
                              /\ Call(r).from \in voters[Call(r).from]
                              /\ Call(r).to \notin voters[Call(r).from]
      BY <1>1, <1>3 DEF CallsOfElections
    <2> DEFINE i == Call(r).from
               b == Ballot(i, Call(r).term, i)
    <2>1. i \in Server /\ Call(r).term \in Nat
      BY <1>0, PendingType
    <2>2. b \in ballots /\ b.voter = i /\ b.term = Call(r).term
      BY <1>2 DEF CallsOfElections, Ballot
    <2>3. Call(r).term <= currentTerm[i]
      BY <1>0, <1>2, <2>2, BallotsInMemory
    <2>4. Call(r).term = currentTerm'[i] => Call(r).term = currentTerm[i]
      BY <1>4, <2>1, <2>3
    <2> QED
      BY <1>2, <2>2, <2>4 DEF CallsOfElections
  <1>12. CallsOnce'
    BY <1>2, <1>3 DEF CallsOnce, SameCall
  <1> QED
    BY <1>5, <1>6, <1>7, <1>9, <1>10, <1>11, <1>12 DEF VoteInv

-----------------------------------------------------------------------------
LEMMA doElectionVotes ==
    ASSUME NodeInv, NodeInv', VoteInv, NEW i \in Server, doElection(i)
    PROVE  VoteInv'
  <1> DEFINE t == currentTerm[i] + 1
             call(j) == [VoteRequest(i, j) EXCEPT !.term = currentTerm'[i]]
             new == Ballot(i, t, i)
  <1>0. TypeOK /\ DiskCurrent /\ TypeOK' /\ DiskCurrent'
    BY DEF NodeInv
  <1>1. /\ BallotsOnDisk /\ VoteOnce /\ GrantsRecorded /\ VotersVoted /\ VotesCounted
        /\ CallsOfElections /\ CallsOnce /\ CallsToOthers /\ WinnersElected
    BY DEF VoteInv
  <1>2. /\ currentTerm[i] \in Nat /\ t \in Nat
        /\ currentTerm' = [currentTerm EXCEPT ![i] = t]
        /\ votedFor' = [votedFor EXCEPT ![i] = i]
        /\ votedNum' = [votedNum EXCEPT ![i] = 1]
        /\ voters' = [voters EXCEPT ![i] = {i}]
        /\ rpcs' = rpcs \cup {call(j) : j \in Server \ {i}}
        /\ won' = won
        /\ Persist(i)
    BY <1>0 DEF doElection, TypeOK
  <1>3. currentTerm'[i] = t /\ votedFor'[i] = i /\ votedNum'[i] = 1 /\ voters'[i] = {i}
    BY <1>0, <1>2 DEF TypeOK
  <1>4. \A j \in Server \ {i} : /\ currentTerm'[j] = currentTerm[j] /\ votedFor'[j] = votedFor[j]
                                /\ votedNum'[j] = votedNum[j] /\ voters'[j] = voters[j]
    BY <1>0, <1>2 DEF TypeOK
  <1>5. ballots' = ballots \cup {new} /\ new.voter = i /\ new.term = t /\ new.candidate = i
    BY <1>3 DEF doElection, Ballot
  <1>6. /\ disk'[i].term = t /\ disk'[i].votedFor = i
        /\ \A j \in Server \ {i} : disk'[j] = disk[j]
    BY <1>0, <1>2, <1>3 DEF Persist, PersistData, TypeOK
  <1> HIDE DEF new
  <1>7. \A j \in Server \ {i} : /\ call(j).kind = "RequestVote" /\ call(j).from = i
                                /\ call(j).to = j /\ call(j).term = t
    BY <1>3 DEF VoteRequest
  <1> HIDE DEF call, t
  <1>8. \A b \in ballots : b.voter = i => b.term < t
    <2> SUFFICES ASSUME NEW b \in ballots, b.voter = i PROVE b.term < t
      OBVIOUS
    <2>1. b.term \in Nat /\ b.term <= currentTerm[i]
      BY <1>0, <1>1, BallotsInMemory
    <2> QED
      BY <1>2, <2>1 DEF t
  <1>9. BallotsOnDisk'
    <2> SUFFICES ASSUME NEW b \in ballots'
                 PROVE  /\ b.term <= disk'[b.voter].term
                        /\ b.term = disk'[b.voter].term => disk'[b.voter].votedFor = b.candidate
      BY DEF BallotsOnDisk
    <2>1. CASE b = new
      BY <1>2, <1>5, <1>6, <2>1
    <2>2. CASE b \in ballots
      <3>1. b.voter \in Server /\ b.term \in Nat
        BY <1>0, <1>1, <2>2, BallotsInMemory
      <3>2. CASE b.voter = i
        BY <1>2, <1>6, <1>8, <2>2, <3>1, <3>2
      <3>3. CASE b.voter # i
        BY <1>1, <1>6, <2>2, <3>1, <3>3 DEF BallotsOnDisk
      <3> QED
        BY <3>2, <3>3
    <2> QED
      BY <1>5, <2>1, <2>2
  <1>10. VoteOnce'
    <2>1. \A b \in ballots : b.voter = i => b.term # t
      <3> TAKE b \in ballots
      <3>1. b.term \in Nat
        BY <1>0, <1>1, BallotsInMemory
      <3> QED
        BY <1>2, <1>8, <3>1
    <2> QED
      BY <1>1, <1>5, <2>1 DEF VoteOnce
  <1>11. \A r \in rpcs' : r \in rpcs \/ (r.kind = "RequestVote" /\ r.from = i /\ r.to # i
                                         /\ r.to \in Server /\ r.term = t /\ r = call(r.to))
    BY <1>2, <1>7
  <1>12. GrantsRecorded' /\ CallsToOthers'
    BY <1>1, <1>5, <1>11 DEF GrantsRecorded, CallsToOthers
  <1>13. VotersVoted'
    <2> SUFFICES ASSUME NEW j \in Server, votedFor'[j] = j, NEW k \in voters'[j]
                 PROVE  Ballot(k, currentTerm'[j], j) \in ballots'
      BY DEF VotersVoted
    <2>1. CASE j = i
      BY <1>3, <1>5, <2>1 DEF new
    <2>2. CASE j # i
      BY <1>1, <1>4, <1>5, <2>2 DEF VotersVoted
    <2> QED
      BY <2>1, <2>2
  <1>14. \A w \in won : w.leader = i => w.term # t
    <2> SUFFICES ASSUME NEW w \in won, w.leader = i PROVE w.term # t
      OBVIOUS
    <2>1. Ballot(i, w.term, i) \in ballots /\ Ballot(i, w.term, i).voter = i
          /\ Ballot(i, w.term, i).term = w.term
      BY <1>1 DEF WinnersElected, Ballot
    <2>2. w.term < t /\ w.term \in Nat
      BY <1>0, <1>1, <1>8, <2>1, BallotsInMemory
    <2> QED
      BY <1>2, <2>2
  <1>15. VotesCounted'
    <2> SUFFICES ASSUME NEW j \in Server
                 PROVE  /\ votedNum'[j] <= Cardinality(voters'[j])
                        /\ /\ votedFor'[j] = j /\ j \in voters'[j]
                           /\ [term |-> currentTerm'[j], leader |-> j] \in won
                           => votedNum'[j] + Quorum <= Cardinality(voters'[j])
      BY <1>2 DEF VotesCounted
    <2>1. CASE j = i
      <3>1. Cardinality({i}) = 1
        BY FS_Singleton
      <3>2. [term |-> t, leader |-> i] \notin won
        BY <1>14
      <3> QED
        BY <1>3, <2>1, <3>1, <3>2
    <2>2. CASE j # i
      BY <1>1, <1>4, <2>2 DEF VotesCounted
    <2> QED
      BY <2>1, <2>2
  <1>16. \A r \in Pending' : r \in Pending \/ (r.kind = "RequestVote" /\ r.from = i /\ r.to # i
                                               /\ r.to \in Server /\ r.term = t /\ r = call(r.to))
    BY <1>11 DEF Pending
  <1>17. \A r \in Pending : Call(r).from = i => Call(r).term < t
    <2> SUFFICES ASSUME NEW r \in Pending, Call(r).from = i PROVE Call(r).term < t
      OBVIOUS
    <2>1. Ballot(i, Call(r).term, i) \in ballots /\ Ballot(i, Call(r).term, i).voter = i
          /\ Ballot(i, Call(r).term, i).term = Call(r).term
      BY <1>1 DEF CallsOfElections, Ballot
    <2> QED
      BY <1>8, <2>1
  <1>18. \A r \in Pending : Call(r).from = i => Call(r).term # t
    <2> TAKE r \in Pending
    <2>1. Call(r).term \in Nat
      BY <1>0, PendingType
    <2> QED
      BY <1>2, <1>17, <2>1
  <1>19. CallsOfElections'
    <2> SUFFICES ASSUME NEW r \in Pending'
                 PROVE  /\ Ballot(Call(r).from, Call(r).term, Call(r).from) \in ballots'
                        /\ Call(r).term = currentTerm'[Call(r).from] =>
                              /\ Call(r).from \in voters'[Call(r).from]
                              /\ Call(r).to \notin voters'[Call(r).from]
      BY DEF CallsOfElections
    <2>1. CASE r \in Pending
      <3>1. Call(r).from \in Server
        BY <1>0, <2>1, PendingType
      <3>2. CASE Call(r).from = i
        BY <1>1, <1>3, <1>5, <1>18, <2>1, <3>2 DEF CallsOfElections
      <3>3. CASE Call(r).from # i
        BY <1>1, <1>4, <1>5, <2>1, <3>1, <3>3 DEF CallsOfElections
      <3> QED
        BY <3>2, <3>3
    <2>2. CASE r.kind = "RequestVote" /\ r.from = i /\ r.to # i /\ r.to \in Server /\ r.term = t
      BY <1>3, <1>5, <2>2 DEF Call, new
    <2> QED
      BY <1>16, <2>1, <2>2
  <1>20. CallsOnce'
    <2> SUFFICES ASSUME NEW r1 \in Pending', NEW r2 \in Pending', SameCall(r1, r2)
                 PROVE  r1 = r2
      BY DEF CallsOnce, SameCall
    <2> DEFINE fresh(r) == r.kind = "RequestVote" /\ r.from = i /\ r.to # i
                           /\ r.to \in Server /\ r.term = t /\ r = call(r.to)
    <2>1. CASE r1 \in Pending /\ r2 \in Pending
      BY <1>1, <2>1 DEF CallsOnce
    <2>2. CASE fresh(r1) /\ fresh(r2)
      BY <2>2 DEF SameCall, Call
    <2>3. ~(r1 \in Pending /\ fresh(r2)) /\ ~(fresh(r1) /\ r2 \in Pending)
      BY <1>18 DEF SameCall, Call
    <2> QED
      BY <1>16, <2>1, <2>2, <2>3
  <1>21. WinnersElected'
    BY <1>1, <1>2, <1>5 DEF WinnersElected
  <1> QED
    BY <1>9, <1>10, <1>12, <1>13, <1>15, <1>19, <1>20, <1>21 DEF VoteInv

LEMMA RequestVoteVotes ==
    ASSUME NodeInv, NodeInv', VoteInv, NEW r \in rpcs, RequestVote(r)
    PROVE  VoteInv'
  <1> DEFINE j == r.to
             newer == r.term > currentTerm[j]
             t == Maximum(r.term, currentTerm[j])
             vote == IF newer THEN Nil ELSE votedFor[j]
             grant == /\ r.term >= currentTerm[j]
                      /\ UpToDate(j, r.lastIndex, r.lastTerm)
                      /\ vote \in {Nil, r.from}
             reply == [kind |-> "VoteReply", args |-> r, term |-> t, granted |-> grant]
             new == Ballot(j, t, r.from)
  <1>0. TypeOK /\ DiskCurrent /\ TypeOK' /\ DiskCurrent'
    BY DEF NodeInv
  <1>1. /\ BallotsOnDisk /\ VoteOnce /\ GrantsRecorded /\ VotersVoted /\ VotesCounted
        /\ CallsOfElections /\ CallsOnce /\ CallsToOthers /\ WinnersElected
    BY DEF VoteInv
  <1>2. r \in VoteRequests /\ r.kind = "RequestVote"
    BY <1>0, RpcKinds DEF RequestVote
  <1>3. j \in Server /\ r.from \in Server /\ r.term \in Nat /\ r.from # j
        /\ currentTerm[j] \in Nat
    BY <1>0, <1>1, <1>2 DEF VoteRequests, CallsToOthers, TypeOK
  <1>4. /\ currentTerm' = [currentTerm EXCEPT ![j] = t]
        /\ votedFor' = [votedFor EXCEPT ![j] = IF grant THEN r.from ELSE vote]
        /\ ballots' = IF grant THEN ballots \cup {new} ELSE ballots
        /\ rpcs' = (rpcs \ {r}) \cup (IF r.waiting THEN {reply} ELSE {})
        /\ votedNum' = votedNum /\ voters' = voters /\ won' = won
        /\ Persist(j)
    BY DEF RequestVote, Reply, Ballot
  <1>5. /\ reply.kind = "VoteReply" /\ reply.args = r /\ reply.term = t
        /\ reply.granted <=> grant
    OBVIOUS
  <1>6. new.voter = j /\ new.term = t /\ new.candidate = r.from
    BY DEF Ballot
  <1>7. t \in Nat /\ t >= currentTerm[j] /\ t >= r.term
        /\ (grant => t = r.term) /\ (t = currentTerm[j] => ~newer) /\ (newer => vote = Nil)
        /\ (~newer => vote = votedFor[j] /\ t = currentTerm[j])
    BY <1>3 DEF Maximum
  <1>8. grant => vote = Nil \/ vote = r.from
    OBVIOUS
  <1> HIDE DEF j, newer, t, vote, grant, reply, new
  <1>9. /\ currentTerm'[j] = t /\ votedFor'[j] = (IF grant THEN r.from ELSE vote)
        /\ \A i \in Server \ {j} : currentTerm'[i] = currentTerm[i] /\ votedFor'[i] = votedFor[i]
    BY <1>0, <1>3, <1>4 DEF TypeOK
  <1>10. /\ disk'[j].term = t /\ disk'[j].votedFor = votedFor'[j]
         /\ \A i \in Server \ {j} : disk'[i] = disk[i]
    BY <1>0, <1>3, <1>4, <1>9 DEF Persist, PersistData, TypeOK
  <1>11. \A b \in ballots' : b \in ballots \/ (grant /\ b = new)
    BY <1>4
  <1>12. \A b \in ballots : b \in ballots'
    BY <1>4
  <1>13. ASSUME NEW b \in ballots, b.voter = j
         PROVE  /\ b.term <= t /\ b.term \in Nat
                /\ b.term = t => /\ votedFor'[j] = b.candidate
                                 /\ grant => b.candidate = r.from
    <2>1. /\ b.term \in Nat /\ b.term <= currentTerm[j] /\ b.candidate \in Server
          /\ b.term = currentTerm[j] => votedFor[j] = b.candidate
      BY <1>0, <1>1, <1>13, BallotsInMemory
    <2>2. b.term <= t
      BY <1>3, <1>7, <2>1
    <2>3. ASSUME b.term = t
          PROVE  votedFor'[j] = b.candidate /\ (grant => b.candidate = r.from)
      <3>1. t = currentTerm[j]
        BY <1>3, <1>7, <2>1, <2>3
      <3>2. vote = votedFor[j] /\ votedFor[j] = b.candidate /\ b.candidate # Nil
        BY <1>7, <2>1, <2>3, <3>1, NilNotServer
      <3>3. grant => r.from = b.candidate
        BY <1>8, <3>2
      <3> QED
        BY <1>9, <3>2, <3>3
    <2> QED
      BY <2>1, <2>2, <2>3
  <1>14. BallotsOnDisk'
    <2> SUFFICES ASSUME NEW b \in ballots'
                 PROVE  /\ b.term <= disk'[b.voter].term
                        /\ b.term = disk'[b.voter].term => disk'[b.voter].votedFor = b.candidate
      BY DEF BallotsOnDisk
    <2>1. CASE grant /\ b = new
      BY <1>6, <1>7, <1>9, <1>10, <2>1
    <2>2. CASE b \in ballots
      <3>1. b.voter \in Server
        BY <1>0, <1>1, <2>2, BallotsInMemory
      <3>2. CASE b.voter = j
        BY <1>10, <1>13, <2>2, <3>2
      <3>3. CASE b.voter # j
        BY <1>1, <1>10, <2>2, <3>1, <3>3 DEF BallotsOnDisk
      <3> QED
        BY <3>2, <3>3
    <2> QED
      BY <1>11, <2>1, <2>2
  <1>15. VoteOnce'
    <2>1. ASSUME NEW b \in ballots, b.voter = j, b.term = t, grant
          PROVE  b = new
      <3>1. b.candidate = r.from
        BY <1>13, <2>1
      <3>2. b = Ballot(b.voter, b.term, b.candidate)
        BY <1>0 DEF TypeOK, Ballot
      <3> QED
        BY <2>1, <3>1, <3>2 DEF new
    <2> QED
      BY <1>1, <1>6, <1>11, <2>1 DEF VoteOnce
  <1>16. \A q \in rpcs' : q \in rpcs \ {r} \/ (q = reply /\ r.waiting)
    BY <1>4
  <1>17. GrantsRecorded'
    <2> SUFFICES ASSUME NEW q \in rpcs', q.kind = "VoteReply", q.granted
                 PROVE  /\ q.term = q.args.term
                        /\ Ballot(q.args.to, q.term, q.args.from) \in ballots'
      BY DEF GrantsRecorded
    <2>1. CASE q \in rpcs
      BY <1>1, <1>12, <2>1 DEF GrantsRecorded
    <2>2. CASE q = reply
      BY <1>4, <1>5, <1>7, <2>2 DEF new, j
    <2> QED
      BY <1>16, <2>1, <2>2
  <1>18. \A i \in Server : votedFor'[i] = i => currentTerm'[i] = currentTerm[i] /\ votedFor[i] = i
    <2> SUFFICES ASSUME votedFor'[j] = j PROVE currentTerm'[j] = currentTerm[j] /\ votedFor[j] = j
      BY <1>9
    <2>1. ~grant /\ vote = j
      BY <1>3, <1>9
    <2>2. ~newer
      BY <1>3, <1>7, <2>1, NilNotServer
    <2> QED
      BY <1>7, <1>9, <2>1, <2>2
  <1>19. VotersVoted'
    BY <1>1, <1>4, <1>12, <1>18 DEF VotersVoted
  <1>20. VotesCounted'
    <2> SUFFICES ASSUME NEW i \in Server
                 PROVE  /\ votedNum[i] <= Cardinality(voters[i])
                        /\ /\ votedFor'[i] = i /\ i \in voters[i]
                           /\ [term |-> currentTerm'[i], leader |-> i] \in won
                           => votedNum[i] + Quorum <= Cardinality(voters[i])
      BY <1>4 DEF VotesCounted
    <2> QED
      BY <1>1, <1>18 DEF VotesCounted
  <1>21. \A q \in Pending' : q \in Pending \ {r} \/ (q = reply /\ r \in Pending)
    BY <1>2, <1>16 DEF Pending
  <1>22. Call(reply) = r /\ Call(r) = r
    BY <1>2, <1>5 DEF Call
  <1>23. \A i \in Server : currentTerm[i] \in Nat /\ currentTerm'[i] >= currentTerm[i]
    <2> TAKE i \in Server
    <2>1. currentTerm[i] \in Nat
      BY <1>0 DEF TypeOK
    <2>2. CASE i = j
      BY <1>7, <1>9, <2>1, <2>2
    <2>3. CASE i # j
      BY <1>9, <2>1, <2>3
    <2> QED
      BY <2>1, <2>2, <2>3
  <1>24. CallsOfElections'
    <2>1. ASSUME NEW q \in Pending
          PROVE  /\ Ballot(Call(q).from, Call(q).term, Call(q).from) \in ballots'
                 /\ Call(q).term = currentTerm'[Call(q).from] =>
                       /\ Call(q).from \in voters'[Call(q).from]
                       /\ Call(q).to \notin voters'[Call(q).from]
      <3> DEFINE i == Call(q).from
                 b == Ballot(i, Call(q).term, i)
      <3>1. i \in Server /\ Call(q).term \in Nat /\ currentTerm'[i] \in Nat
        BY <1>0, PendingType DEF TypeOK
      <3>2. b \in ballots /\ b.voter = i /\ b.term = Call(q).term
        BY <1>1 DEF CallsOfElections, Ballot
      <3>3. Call(q).term <= currentTerm[i]
        BY <1>0, <1>1, <3>2, BallotsInMemory
      <3>4. Call(q).term = currentTerm'[i] => Call(q).term = currentTerm[i]
        BY <1>23, <3>1, <3>3
      <3> QED
        BY <1>1, <1>4, <1>12, <3>2, <3>4 DEF CallsOfElections
    <2> QED
      BY <1>21, <1>22, <2>1 DEF CallsOfElections
  <1>25. CallsOnce'
    <2> SUFFICES ASSUME NEW r1 \in Pending', NEW r2 \in Pending', SameCall(r1, r2)
                 PROVE  r1 = r2
      BY DEF CallsOnce, SameCall
    <2>1. \A q \in Pending \ {r} : r \in Pending => ~SameCall(r, q) /\ ~SameCall(q, r)
      BY <1>1 DEF CallsOnce
    <2>2. \A q : (SameCall(reply, q) <=> SameCall(r, q)) /\ (SameCall(q, reply) <=> SameCall(q, r))
      BY <1>22 DEF SameCall
    <2> QED
      BY <1>1, <1>21, <2>1, <2>2 DEF CallsOnce
  <1>26. CallsToOthers'
    BY <1>1, <1>5, <1>16 DEF CallsToOthers
  <1>27. WinnersElected'
    BY <1>1, <1>4, <1>12 DEF WinnersElected
  <1> QED
    BY <1>14, <1>15, <1>17, <1>19, <1>20, <1>24, <1>25, <1>26, <1>27 DEF VoteInv

\* A vote is counted, whether or not it wins.
LEMMA CountVotes ==
    ASSUME NodeInv, NodeInv', VoteInv, NEW r \in rpcs, r.kind = "VoteReply", Consume(r),
           CountVote(r), UNCHANGED <<currentTerm, votedFor, ballots>>,
           \/ disk' = disk
           \/ Persist(r.args.from),
           \/ /\ votedNum[r.args.from] + 1 < Quorum
              /\ won' = won
           \/ /\ votedNum[r.args.from] + 1 >= Quorum
              /\ won' = won \cup {[term |-> currentTerm[r.args.from], leader |-> r.args.from]}
    PROVE  VoteInv'
  <1> DEFINE i == r.args.from
             to == r.args.to
             n == votedNum[i]
             t == currentTerm[i]
  <1>0. TypeOK /\ DiskCurrent /\ TypeOK' /\ DiskCurrent'
    BY DEF NodeInv
  <1>1. /\ BallotsOnDisk /\ VoteOnce /\ GrantsRecorded /\ VotersVoted /\ VotesCounted
        /\ CallsOfElections /\ CallsOnce /\ CallsToOthers /\ WinnersElected
    BY DEF VoteInv
  <1>2. i \in Server /\ to \in Server /\ n \in Nat /\ t \in Nat /\ voters[i] \in SUBSET Server
    BY <1>0, RpcKinds DEF VoteReplies, VoteRequests, TypeOK
  <1>3. /\ r.term = t /\ r.granted
        /\ votedNum' = [votedNum EXCEPT ![i] = VotesAfter(n)]
        /\ voters' = [voters EXCEPT ![i] = voters[i] \cup {to}]
        /\ rpcs' = rpcs \ {r}
    BY DEF CountVote, Consume
  <1>4. r \in Pending /\ Call(r) = r.args
    BY DEF Pending, Call
  <1>5. r.args.term = t /\ Ballot(to, t, i) \in ballots
    BY <1>1, <1>3 DEF GrantsRecorded
  <1>6. Ballot(i, t, i) \in ballots /\ i \in voters[i] /\ to \notin voters[i]
    BY <1>1, <1>4, <1>5 DEF CallsOfElections
  <1>7. votedFor[i] = i
    <2>1. Ballot(i, t, i).voter = i /\ Ballot(i, t, i).term = t /\ Ballot(i, t, i).candidate = i
      BY DEF Ballot
    <2> QED
      BY <1>0, <1>1, <1>6, <2>1, BallotsInMemory
  <1>8. /\ \/ n + 1 < Quorum /\ won' = won
           \/ n + 1 >= Quorum /\ won' = won \cup {[term |-> t, leader |-> i]}
        /\ disk' = disk \/ Persist(i)
    OBVIOUS
  <1> HIDE DEF i, to, n, t
  <1>9. IsFiniteSet(voters[i]) /\ Cardinality(voters[i]) \in Nat /\ Quorum \in Int
    BY <1>2, ServerFinite, FS_Subset, FS_CardinalityType DEF Quorum
  <1>10. Cardinality(voters[i] \cup {to}) = Cardinality(voters[i]) + 1
    BY <1>6, <1>9, FS_AddElement
  <1>11. /\ votedNum'[i] = VotesAfter(n) /\ voters'[i] = voters[i] \cup {to}
         /\ \A k \in Server \ {i} : votedNum'[k] = votedNum[k] /\ voters'[k] = voters[k]
    BY <1>0, <1>2, <1>3 DEF TypeOK
  <1>12. \A k \in Server : currentTerm'[k] = currentTerm[k] /\ votedFor'[k] = votedFor[k]
    OBVIOUS
  <1>13. BallotsOnDisk'
    <2> SUFFICES ASSUME NEW b \in ballots
                 PROVE  /\ b.term <= disk'[b.voter].term
                        /\ b.term = disk'[b.voter].term => disk'[b.voter].votedFor = b.candidate
      BY DEF BallotsOnDisk
    <2>1. CASE disk' = disk
      BY <1>1, <2>1 DEF BallotsOnDisk
    <2>2. CASE Persist(i)
      <3>1. /\ disk'[i].term = currentTerm[i] /\ disk'[i].votedFor = votedFor[i]
            /\ \A k \in Server \ {i} : disk'[k] = disk[k]
        BY <1>0, <1>2, <2>2 DEF Persist, PersistData, TypeOK
      <3>2. /\ b.voter \in Server /\ b.term <= currentTerm[b.voter]
            /\ b.term = currentTerm[b.voter] => votedFor[b.voter] = b.candidate
        BY <1>0, <1>1, BallotsInMemory
      <3> QED
        BY <1>1, <3>1, <3>2 DEF BallotsOnDisk
    <2> QED
      BY <1>8, <2>1, <2>2
  <1>14. VoteOnce' /\ GrantsRecorded' /\ CallsToOthers'
    BY <1>1, <1>3 DEF VoteOnce, GrantsRecorded, CallsToOthers
  <1>15. \A k \in voters'[i] : Ballot(k, t, i) \in ballots
    BY <1>1, <1>2, <1>5, <1>7, <1>11 DEF VotersVoted, t
  <1>16. VotersVoted'
    BY <1>1, <1>11, <1>12, <1>15 DEF VotersVoted, t
  <1>17. n <= Cardinality(voters[i])
         /\ ([term |-> t, leader |-> i] \in won => n + Quorum <= Cardinality(voters[i]))
    BY <1>1, <1>2, <1>6, <1>7 DEF VotesCounted, n, t
  <1>18. VotesCounted'
    <2> SUFFICES ASSUME NEW k \in Server
                 PROVE  /\ votedNum'[k] <= Cardinality(voters'[k])
                        /\ /\ votedFor[k] = k /\ k \in voters'[k]
                           /\ [term |-> currentTerm[k], leader |-> k] \in won'
                           => votedNum'[k] + Quorum <= Cardinality(voters'[k])
      BY DEF VotesCounted
    <2>1. CASE k # i
      <3>1. [term |-> currentTerm[k], leader |-> k] \in won'
              => [term |-> currentTerm[k], leader |-> k] \in won
        BY <1>8, <2>1
      <3> QED
        BY <1>1, <1>11, <2>1, <3>1 DEF VotesCounted
    <2>2. CASE k = i
      <3>1. CASE n + 1 < Quorum /\ won' = won
        <4>1. votedNum'[i] = n + 1
          BY <1>2, <1>9, <1>11, <3>1 DEF VotesAfter
        <4>2. PICK c \in Nat : c = Cardinality(voters[i])
          BY <1>9
        <4>3. Cardinality(voters'[i]) = c + 1
          BY <1>10, <1>11, <4>2
        <4>4. /\ n + 1 <= c + 1
              /\ [term |-> t, leader |-> i] \in won' => (n + 1) + Quorum <= c + 1
          <5>1. n <= c /\ ([term |-> t, leader |-> i] \in won => n + Quorum <= c)
            BY <1>17, <4>2
          <5>2. n + Quorum <= c => (n + 1) + Quorum <= c + 1
            BY <1>2, <1>9
          <5> QED
            BY <1>2, <3>1, <5>1, <5>2
        <4> QED
          BY <2>2, <4>1, <4>3, <4>4 DEF t
      <3>2. CASE n + 1 >= Quorum
        <4>1. votedNum'[i] = 0
          BY <1>11, <3>2 DEF VotesAfter
        <4>2. /\ 0 <= Cardinality(voters[i]) + 1
              /\ 0 + Quorum <= Cardinality(voters[i]) + 1
          BY <1>2, <1>9, <1>17, <3>2
        <4> QED
          BY <1>10, <1>11, <2>2, <4>1, <4>2
      <3> QED
        BY <1>8, <3>1, <3>2
    <2> QED
      BY <2>1, <2>2
  <1>19. \A q \in Pending' : q \in Pending /\ q # r
    BY <1>3 DEF Pending
  <1>20. CallsOfElections'
    <2> SUFFICES ASSUME NEW q \in Pending, q # r
                 PROVE  /\ Ballot(Call(q).from, Call(q).term, Call(q).from) \in ballots
                        /\ Call(q).term = currentTerm[Call(q).from] =>
                              /\ Call(q).from \in voters'[Call(q).from]
                              /\ Call(q).to \notin voters'[Call(q).from]
      BY <1>12, <1>19 DEF CallsOfElections
    <2>1. Call(q).from \in Server
      BY <1>0, PendingType
    <2>2. CASE Call(q).from # i
      BY <1>1, <1>11, <2>1, <2>2 DEF CallsOfElections
    <2>3. CASE Call(q).from = i
      <3>1. Call(q).term = t => Call(q).to # to
        BY <1>1, <1>4, <1>5, <2>3 DEF CallsOnce, SameCall, i, to
      <3> QED
        BY <1>1, <1>11, <2>3, <3>1 DEF CallsOfElections, t
    <2> QED
      BY <2>2, <2>3
  <1>21. CallsOnce'
    BY <1>1, <1>19 DEF CallsOnce, SameCall
  <1>22. WinnersElected'
    <2>1. CASE won' = won
      BY <1>1, <2>1 DEF WinnersElected
    <2>2. CASE n + 1 >= Quorum /\ won' = won \cup {[term |-> t, leader |-> i]}
      <3> DEFINE w == [term |-> t, leader |-> i]
                 Q == voters'[i]
      <3>1. Q \in SUBSET Server /\ Cardinality(Q) >= Quorum
        BY <1>2, <1>9, <1>10, <1>11, <1>17, <2>2
      <3>2. \A k \in Q : Ballot(k, w.term, w.leader) \in ballots
        BY <1>15
      <3>3. Ballot(w.leader, w.term, w.leader) \in ballots
        BY <1>6
      <3> HIDE DEF w, Q
      <3>4. \A x \in won' : x \in won \/ x = w
        BY <2>2 DEF w
      <3> QED
        BY <1>1, <3>1, <3>2, <3>3, <3>4 DEF WinnersElected
    <2> QED
      BY <1>8, <2>1, <2>2
  <1> QED
    BY <1>13, <1>14, <1>16, <1>18, <1>20, <1>21, <1>22 DEF VoteInv

LEMMA RestartVotes ==
    ASSUME NodeInv, NodeInv', VoteInv, NEW i \in Server, Restart(i)
    PROVE  VoteInv'
  <1>0. TypeOK /\ DiskCurrent
    BY DEF NodeInv
  <1>1. /\ BallotsOnDisk /\ VoteOnce /\ GrantsRecorded /\ VotersVoted /\ VotesCounted
        /\ CallsOfElections /\ CallsOnce /\ CallsToOthers /\ WinnersElected
    BY DEF VoteInv
  <1>2. /\ currentTerm' = [currentTerm EXCEPT ![i] = disk[i].term]
        /\ votedFor' = [votedFor EXCEPT ![i] = disk[i].votedFor]
        /\ votedNum' = [votedNum EXCEPT ![i] = 0]
        /\ voters' = [voters EXCEPT ![i] = {}]
        /\ rpcs' = AbandonRpcs(i)
        /\ disk' = disk /\ ballots' = ballots /\ won' = won
    BY DEF Restart
  <1>3. /\ votedNum'[i] = 0 /\ voters'[i] = {}
        /\ \A j \in Server \ {i} : /\ currentTerm'[j] = currentTerm[j] /\ votedFor'[j] = votedFor[j]
                                   /\ votedNum'[j] = votedNum[j] /\ voters'[j] = voters[j]
    BY <1>0, <1>2 DEF TypeOK
  <1>4. \A q \in rpcs : "waiting" \in DOMAIN q =>
           LET p == [q EXCEPT !.waiting = FALSE]
           IN  /\ p.kind = q.kind /\ p.waiting = FALSE /\ p.kind # "VoteReply"
               /\ p.kind = "RequestVote" => p.from = q.from /\ p.to = q.to
    <2> SUFFICES ASSUME NEW q \in rpcs, "waiting" \in DOMAIN q
                 PROVE  LET p == [q EXCEPT !.waiting = FALSE]
                        IN  /\ p.kind = q.kind /\ p.waiting = FALSE /\ p.kind # "VoteReply"
                            /\ p.kind = "RequestVote" => p.from = q.from /\ p.to = q.to
      OBVIOUS
    <2>1. q \in VoteRequests \/ q \in AppendRequests \/ q \in SnapshotRequests
      <3>1. q \in Rpc
        BY <1>0 DEF TypeOK
      <3>2. q \notin SnapshotThreads /\ q \notin VoteReplies
        BY DEF SnapshotThreads, VoteReplies
      <3>3. q \notin AppendReplies /\ q \notin SnapshotReplies
        BY DEF AppendReplies, SnapshotReplies
      <3> QED
        BY <3>1, <3>2, <3>3 DEF Rpc
    <2>2. CASE q \in VoteRequests
      BY <2>2 DEF VoteRequests
    <2>3. CASE q \in AppendRequests
      BY <2>3 DEF AppendRequests
    <2>4. CASE q \in SnapshotRequests
      BY <2>4 DEF SnapshotRequests
    <2> QED
      BY <2>1, <2>2, <2>3, <2>4
  <1>5. \A p \in rpcs' :
           \/ p \in rpcs /\ "args" \notin DOMAIN p /\ p.from # i
           \/ p \in rpcs /\ "args" \in DOMAIN p /\ p.args.from # i
           \/ \E q \in rpcs : "waiting" \in DOMAIN q /\ p = [q EXCEPT !.waiting = FALSE]
    BY <1>2 DEF AbandonRpcs
  <1>6. \A p \in rpcs' : p.kind = "VoteReply" => p \in rpcs
    BY <1>4, <1>5
  <1>7. \A p \in rpcs' : p.kind = "RequestVote" =>
           \E q \in rpcs : q.kind = "RequestVote" /\ p.from = q.from /\ p.to = q.to
    <2> SUFFICES ASSUME NEW p \in rpcs', p.kind = "RequestVote", p \notin rpcs
                 PROVE  \E q \in rpcs : q.kind = "RequestVote" /\ p.from = q.from /\ p.to = q.to
      OBVIOUS
    <2>1. PICK q \in rpcs : "waiting" \in DOMAIN q /\ p = [q EXCEPT !.waiting = FALSE]
      BY <1>5
    <2>2. q.kind = "RequestVote" /\ p.from = q.from /\ p.to = q.to
      BY <1>4, <2>1
    <2> QED
      BY <2>2
  <1>8. \A p \in Pending' : p \in Pending /\ Call(p).from # i
    <2> SUFFICES ASSUME NEW p \in Pending' PROVE p \in Pending /\ Call(p).from # i
      OBVIOUS
    <2>1. p \in rpcs' /\ (p.kind = "VoteReply" \/ (p.kind = "RequestVote" /\ p.waiting))
      BY DEF Pending
    <2>2. p \in rpcs /\ ( \/ "args" \notin DOMAIN p /\ p.from # i
                          \/ "args" \in DOMAIN p /\ p.args.from # i )
      BY <1>4, <1>5, <2>1
    <2>3. CASE p.kind = "RequestVote"
      <3>1. "args" \notin DOMAIN p
        BY <1>0, <2>2, <2>3, RpcKinds DEF VoteRequests
      <3> QED
        BY <2>1, <2>2, <2>3, <3>1 DEF Pending, Call
    <2>4. CASE p.kind = "VoteReply"
      <3>1. "args" \in DOMAIN p
        BY <1>0, <2>2, <2>4, RpcKinds DEF VoteReplies
      <3> QED
        BY <2>1, <2>2, <2>4, <3>1 DEF Pending, Call
    <2> QED
      BY <2>1, <2>3, <2>4
  <1>9. BallotsOnDisk' /\ VoteOnce' /\ WinnersElected'
    BY <1>1, <1>2 DEF BallotsOnDisk, VoteOnce, WinnersElected
  <1>10. GrantsRecorded' /\ CallsToOthers'
    BY <1>1, <1>2, <1>6, <1>7 DEF GrantsRecorded, CallsToOthers
  <1>11. VotersVoted'
    BY <1>1, <1>2, <1>3 DEF VotersVoted
  <1>12. VotesCounted'
    <2>1. Cardinality({}) = 0
      BY FS_EmptySet
    <2> SUFFICES ASSUME NEW j \in Server
                 PROVE  /\ votedNum'[j] <= Cardinality(voters'[j])
                        /\ /\ votedFor'[j] = j /\ j \in voters'[j]
                           /\ [term |-> currentTerm'[j], leader |-> j] \in won
                           => votedNum'[j] + Quorum <= Cardinality(voters'[j])
      BY <1>2 DEF VotesCounted
    <2>2. CASE j = i
      BY <1>3, <2>1, <2>2
    <2>3. CASE j # i
      BY <1>1, <1>3, <2>3 DEF VotesCounted
    <2> QED
      BY <2>2, <2>3
  <1>13. CallsOfElections'
    <2> SUFFICES ASSUME NEW p \in Pending, Call(p).from # i
                 PROVE  /\ Ballot(Call(p).from, Call(p).term, Call(p).from) \in ballots
                        /\ Call(p).term = currentTerm'[Call(p).from] =>
                              /\ Call(p).from \in voters'[Call(p).from]
                              /\ Call(p).to \notin voters'[Call(p).from]
      BY <1>2, <1>8 DEF CallsOfElections
    <2>1. Call(p).from \in Server \ {i}
      BY <1>0, PendingType
    <2> QED
      BY <1>1, <1>3, <2>1 DEF CallsOfElections
  <1>14. CallsOnce'
    BY <1>1, <1>8 DEF CallsOnce, SameCall
  <1> QED
    BY <1>9, <1>10, <1>11, <1>12, <1>13, <1>14 DEF VoteInv

-----------------------------------------------------------------------------
(***************************************************************************)
(* The other steps: nobody votes.                                          *)
(***************************************************************************)
\* No call of an election appears.
NoNewVoteCalls == \A r \in rpcs' : r \in rpcs \/ r.kind \notin {"RequestVote", "VoteReply"}

\* persist() writes the term and the vote of the server.
LEMMA PersistedVote ==
    ASSUME TypeOK, NEW i \in Server, Persist(i)
    PROVE  \A j \in Server : \/ disk'[j] = disk[j]
                             \/ /\ disk'[j].term = currentTerm'[j]
                                /\ disk'[j].votedFor = votedFor'[j]
  BY DEF Persist, PersistData, TypeOK

\* Terms and votes untouched.
LEMMA SameTermVotes ==
    ASSUME NodeInv, NodeInv', VoteInv, UNCHANGED <<serverVars, voteVars>>, NoNewVoteCalls,
           disk' = disk \/ \E i \in Server : Persist(i)
    PROVE  VoteInv'
  <1>1. TypeOK
    BY DEF NodeInv
  <1>2. \A j \in Server : \/ disk'[j] = disk[j]
                          \/ disk'[j].term = currentTerm'[j] /\ disk'[j].votedFor = votedFor'[j]
    BY <1>1, PersistedVote
  <1> QED
    BY <1>2, TermStep DEF serverVars, NoNewVoteCalls

\* A server learns of a later term from a reply.
LEMMA StepDownVotes ==
    ASSUME NodeInv, NodeInv', VoteInv, NEW i \in Server, NEW term \in Nat,
           term > currentTerm[i], StepDown(i, term), UNCHANGED voteVars, NoNewVoteCalls,
           disk' = disk \/ Persist(i)
    PROVE  VoteInv'
  <1>1. TypeOK
    BY DEF NodeInv
  <1>2. \A j \in Server : \/ disk'[j] = disk[j]
                          \/ disk'[j].term = currentTerm'[j] /\ disk'[j].votedFor = votedFor'[j]
    BY <1>1, PersistedVote
  <1>3. \A j \in Server : \/ currentTerm'[j] = currentTerm[j] /\ votedFor'[j] = votedFor[j]
                          \/ currentTerm'[j] > currentTerm[j] /\ votedFor'[j] = Nil
    BY <1>1 DEF StepDown, TypeOK
  <1> QED
    BY <1>2, <1>3, TermStep DEF NoNewVoteCalls

\* A server hears from a leader.
LEMMA FollowSenderVotes ==
    ASSUME NodeInv, NodeInv', VoteInv, NEW r, r.to \in Server, r.term \in Nat, FollowSender(r),
           UNCHANGED voteVars, NoNewVoteCalls,
           disk' = disk \/ Persist(r.to)
    PROVE  VoteInv'
  <1>1. TypeOK
    BY DEF NodeInv
  <1>2. \A j \in Server : \/ disk'[j] = disk[j]
                          \/ disk'[j].term = currentTerm'[j] /\ disk'[j].votedFor = votedFor'[j]
    BY <1>1, PersistedVote
  <1>3. \A j \in Server : \/ currentTerm'[j] = currentTerm[j] /\ votedFor'[j] = votedFor[j]
                          \/ currentTerm'[j] > currentTerm[j] /\ votedFor'[j] = Nil
    <2> TAKE j \in Server
    <2>1. CASE j = r.to
      <3>1. currentTerm[j] \in Nat
        BY <1>1 DEF TypeOK
      <3>2. /\ currentTerm'[j] = r.term /\ r.term >= currentTerm[j]
            /\ votedFor'[j] = IF r.term > currentTerm[j] THEN Nil ELSE votedFor[j]
        BY <1>1, <2>1 DEF FollowSender, TypeOK
      <3> QED
        BY <3>1, <3>2
    <2>2. CASE j # r.to
      BY <1>1, <2>2 DEF FollowSender, TypeOK
    <2> QED
      BY <2>1, <2>2
  <1> QED
    BY <1>2, <1>3, TermStep DEF NoNewVoteCalls

-----------------------------------------------------------------------------
\* The replies and requests of replication and snapshots are no calls of an
\* election.
LEMMA ReplyNoVotes ==
    ASSUME NEW r, NEW reply, Reply(r, reply), reply.kind \notin {"RequestVote", "VoteReply"}
    PROVE  NoNewVoteCalls
  BY DEF Reply, NoNewVoteCalls

LEMMA ConsumeNoVotes ==
    ASSUME NEW r, Consume(r)
    PROVE  NoNewVoteCalls
  BY DEF Consume, NoNewVoteCalls

LEMMA ServerStepVotes ==
    ASSUME NodeInv, NodeInv', VoteInv, NEW i \in Server,
           \/ doHeartBeat(i) \/ applierTicker(i)
           \/ ReadIndex(i) \/ ReadIndexReturn(i) \/ WaitForApplied(i)
           \/ \E command \in Command : Start(i, command)
           \/ \E index \in 1 .. MaxSnapIndex : Snapshot(i, index)
           \/ \E j \in Server : ReadIndexBeat(i, j)
    PROVE  VoteInv'
  <1>1. UNCHANGED <<serverVars, voteVars>>
    BY DEF doHeartBeat, applierTicker, ReadIndex, ReadIndexReturn, WaitForApplied, Start,
           Snapshot, ReadIndexBeat
  <1>2. disk' = disk \/ Persist(i)
    BY DEF doHeartBeat, applierTicker, ReadIndex, ReadIndexReturn, WaitForApplied, Start,
           Snapshot, ReadIndexBeat
  <1>3. NoNewVoteCalls
    <2>1. CASE doHeartBeat(i)
      <3>1. \A j \in Server : HeartBeatTo(i, j, Len(appendNums'[i])).kind
                                 \in {"SnapshotThread", "AppendEntries"}
        BY DEF HeartBeatTo, SnapshotThread, AppendRequest
      <3> QED
        BY <2>1, <3>1 DEF doHeartBeat, NoNewVoteCalls
    <2>2. CASE \E j \in Server : ReadIndexBeat(i, j)
      <3>1. PICK j \in Server : ReadIndexBeat(i, j)
        BY <2>2
      <3>2. AppendRequest(i, j, "ReadBeat", <<>>, read[i].id).kind = "ReadBeat"
        BY DEF AppendRequest
      <3> QED
        BY <3>1, <3>2 DEF ReadIndexBeat, NoNewVoteCalls
    <2>3. CASE rpcs' = rpcs
      BY <2>3 DEF NoNewVoteCalls
    <2> QED
      BY <2>1, <2>2, <2>3
         DEF applierTicker, ReadIndex, ReadIndexReturn, WaitForApplied, Start, Snapshot
  <1> QED
    BY <1>1, <1>2, <1>3, SameTermVotes

LEMMA sendRequestVoteVotes ==
    ASSUME NodeInv, NodeInv', VoteInv, NEW r \in rpcs, sendRequestVote(r)
    PROVE  VoteInv'
  <1>0. TypeOK
    BY DEF NodeInv
  <1>1. r \in VoteReplies /\ Consume(r) /\ r.kind = "VoteReply"
    BY <1>0, RpcKinds DEF sendRequestVote
  <1>2. r.args.from \in Server /\ r.term \in Nat
    BY <1>1 DEF VoteReplies, VoteRequests
  <1>3. NoNewVoteCalls
    BY <1>1, ConsumeNoVotes
  <1>4. CASE VoteReplyNewer(r)
    BY <1>2, <1>3, <1>4, StepDownVotes DEF VoteReplyNewer
  <1>5. CASE VoteReplyIgnored(r)
    BY <1>3, <1>5, SameTermVotes DEF VoteReplyIgnored
  <1>6. CASE VoteReplyCounted(r)
    BY <1>1, <1>6, CountVotes DEF VoteReplyCounted, serverVars
  <1>7. CASE VoteReplyWins(r)
    BY <1>1, <1>7, CountVotes DEF VoteReplyWins
  <1> QED
    BY <1>4, <1>5, <1>6, <1>7 DEF sendRequestVote

LEMMA AppendEntriesVotes ==
    ASSUME NodeInv, NodeInv', VoteInv, NEW r \in rpcs, AppendEntries1(r)
    PROVE  VoteInv'
  <1>0. TypeOK
    BY DEF NodeInv
  <1>1. r.to \in Server /\ r.term \in Nat
    BY <1>0, RpcKinds DEF AppendEntries1, AppendRequests
  <1>2. \A term, success, update :
           AppendReply(r, term, success, update).kind \notin {"RequestVote", "VoteReply"}
    BY DEF AppendReply
  <1>3. CASE AppendEntriesStale(r)
    <2>1. NoNewVoteCalls
      BY <1>2, <1>3, ReplyNoVotes DEF AppendEntriesStale
    <2> QED
      BY <1>3, <2>1, SameTermVotes DEF AppendEntriesStale
  <1>4. CASE AppendEntriesMismatch(r)
    <2>1. /\ FollowSender(r) /\ UNCHANGED voteVars /\ Persist(r.to)
          /\ \E update : Reply(r, AppendReply(r, r.term, FALSE, update))
      BY <1>4 DEF AppendEntriesMismatch
    <2>2. NoNewVoteCalls
      BY <1>2, <2>1, ReplyNoVotes
    <2> QED
      BY <1>1, <2>1, <2>2, FollowSenderVotes
  <1>5. CASE AppendEntriesMatch(r)
    <2>1. NoNewVoteCalls
      BY <1>2, <1>5, ReplyNoVotes DEF AppendEntriesMatch
    <2> QED
      BY <1>1, <1>5, <2>1, FollowSenderVotes DEF AppendEntriesMatch
  <1> QED
    BY <1>3, <1>4, <1>5 DEF AppendEntries1

LEMMA sendAppendEntriesVotes ==
    ASSUME NodeInv, NodeInv', VoteInv, NEW r \in rpcs, sendAppendEntries(r)
    PROVE  VoteInv'
  <1>0. TypeOK
    BY DEF NodeInv
  <1>1. r \in AppendReplies
    BY <1>0, RpcKinds DEF sendAppendEntries
  <1>2. r.args.from \in Server /\ r.term \in Nat
    BY <1>1 DEF AppendReplies, AppendRequests
  <1>3. NoNewVoteCalls
    BY ConsumeNoVotes DEF sendAppendEntries
  <1>4. CASE AppendReplyNewer(r)
    BY <1>2, <1>3, <1>4, StepDownVotes DEF AppendReplyNewer
  <1>5. CASE AppendReplyIgnored(r) \/ AppendReplyConflict(r) \/ AppendReplySuccess(r)
    <2>1. UNCHANGED <<serverVars, voteVars>> /\ disk' = disk
      BY <1>5 DEF AppendReplyIgnored, AppendReplyConflict, AppendReplySuccess
    <2> QED
      BY <1>3, <2>1, SameTermVotes
  <1> QED
    BY <1>4, <1>5 DEF sendAppendEntries

LEMMA SnapshotVotes ==
    ASSUME NodeInv, NodeInv', VoteInv, NEW r \in rpcs,
           leaderSendSnapShot(r) \/ InstallSnapshot(r) \/ leaderSendSnapShotReply(r)
    PROVE  VoteInv'
  <1>0. TypeOK
    BY DEF NodeInv
  <1>1. CASE leaderSendSnapShot(r)
    <2>1. UNCHANGED <<serverVars, voteVars>> /\ disk' = disk
      BY <1>1 DEF leaderSendSnapShot
    <2>2. NoNewVoteCalls
      BY <1>1 DEF leaderSendSnapShot, NoNewVoteCalls
    <2> QED
      BY <2>1, <2>2, SameTermVotes
  <1>2. CASE InstallSnapshot(r)
    <2>1. r.to \in Server /\ r.term \in Nat
      BY <1>0, <1>2, RpcKinds DEF InstallSnapshot, SnapshotRequests
    <2>2. \A term : SnapshotReply(r, term).kind \notin {"RequestVote", "VoteReply"}
      BY DEF SnapshotReply
    <2>3. CASE InstallStale(r)
      <3>1. NoNewVoteCalls
        BY <2>2, <2>3, ReplyNoVotes DEF InstallStale
      <3> QED
        BY <2>3, <3>1, SameTermVotes DEF InstallStale
    <2>4. CASE InstallOutdated(r)
      <3>1. NoNewVoteCalls
        BY <2>2, <2>4, ReplyNoVotes DEF InstallOutdated
      <3> QED
        BY <2>1, <2>4, <3>1, FollowSenderVotes DEF InstallOutdated
    <2>5. CASE InstallNew(r)
      <3>1. NoNewVoteCalls
        BY <2>2, <2>5, ReplyNoVotes DEF InstallNew
      <3> QED
        BY <2>1, <2>5, <3>1, FollowSenderVotes DEF InstallNew
    <2> QED
      BY <1>2, <2>3, <2>4, <2>5 DEF InstallSnapshot
  <1>3. CASE leaderSendSnapShotReply(r)
    <2>1. r \in SnapshotReplies
      BY <1>0, <1>3, RpcKinds DEF leaderSendSnapShotReply
    <2>2. r.args.from \in Server /\ r.term \in Nat
      BY <2>1 DEF SnapshotReplies, SnapshotRequests
    <2>3. NoNewVoteCalls
      BY <1>3, ConsumeNoVotes DEF leaderSendSnapShotReply
    <2>4. CASE SnapshotReplyNewer(r)
      BY <2>2, <2>3, <2>4, StepDownVotes DEF SnapshotReplyNewer
    <2>5. CASE SnapshotReplyIgnored(r) \/ SnapshotReplyInstalled(r)
      <3>1. UNCHANGED <<serverVars, voteVars>> /\ disk' = disk
        BY <2>5 DEF SnapshotReplyIgnored, SnapshotReplyInstalled
      <3> QED
        BY <2>3, <3>1, SameTermVotes
    <2> QED
      BY <1>3, <2>4, <2>5 DEF leaderSendSnapShotReply
  <1> QED
    BY <1>1, <1>2, <1>3

LEMMA ReadIndexConfirmVotes ==
    ASSUME NodeInv, NodeInv', VoteInv, NEW r \in rpcs, ReadIndexConfirm(r)
    PROVE  VoteInv'
  <1>1. UNCHANGED <<serverVars, voteVars>> /\ disk' = disk
    BY DEF ReadIndexConfirm
  <1>2. NoNewVoteCalls
    BY ConsumeNoVotes DEF ReadIndexConfirm
  <1> QED
    BY <1>1, <1>2, SameTermVotes

-----------------------------------------------------------------------------
(***************************************************************************)
(* The invariant, and what it gives.                                       *)
(***************************************************************************)
LEMMA InitVotes == Init => VoteInv
  <1> SUFFICES ASSUME Init PROVE VoteInv
    OBVIOUS
  <1>1. /\ rpcs = {} /\ ballots = {} /\ won = {}
        /\ \A i \in Server : voters[i] = {} /\ votedNum[i] = 0 /\ votedFor[i] = Nil
    BY DEF Init
  <1>2. Cardinality({}) = 0
    BY FS_EmptySet
  <1>3. Pending = {}
    BY <1>1 DEF Pending
  <1> QED
    BY <1>1, <1>2, <1>3, NilNotServer
       DEF VoteInv, BallotsOnDisk, VoteOnce, GrantsRecorded, VotersVoted, VotesCounted,
           CallsOfElections, CallsOnce, CallsToOthers, WinnersElected

LEMMA NextVotes ==
    ASSUME NodeInv, NodeInv', VoteInv, [Next]_vars
    PROVE  VoteInv'
  <1>1. CASE \E i \in Server :
               \/ doElection(i) \/ doHeartBeat(i) \/ applierTicker(i) \/ Restart(i)
               \/ ReadIndex(i) \/ ReadIndexReturn(i) \/ WaitForApplied(i)
               \/ \E command \in Command : Start(i, command)
               \/ \E index \in 1 .. MaxSnapIndex : Snapshot(i, index)
               \/ \E j \in Server : ReadIndexBeat(i, j)
    BY <1>1, doElectionVotes, RestartVotes, ServerStepVotes
  <1>2. CASE \E r \in rpcs :
               \/ RequestVote(r) \/ sendRequestVote(r) \/ AppendEntries1(r)
               \/ sendAppendEntries(r) \/ leaderSendSnapShot(r) \/ InstallSnapshot(r)
               \/ leaderSendSnapShotReply(r) \/ ReadIndexConfirm(r)
    BY <1>2, RequestVoteVotes, sendRequestVoteVotes, AppendEntriesVotes, sendAppendEntriesVotes,
       SnapshotVotes, ReadIndexConfirmVotes
  <1>3. CASE UNCHANGED vars
    <2>1. UNCHANGED <<serverVars, voteVars, disk, rpcs>>
      BY <1>3 DEF vars
    <2>2. NoNewVoteCalls
      BY <2>1 DEF NoNewVoteCalls
    <2> QED
      BY <2>1, <2>2, SameTermVotes
  <1> QED
    BY <1>1, <1>2, <1>3 DEF Next

\* The votes given, the votes counted and the elections won always agree.
THEOREM VoteInvariant == Spec => [](NodeInv /\ VoteInv)
  <1>1. NodeInv /\ VoteInv /\ [Next]_vars => (NodeInv /\ VoteInv)'
    BY NextInv, NextVotes
  <1>2. Init => NodeInv /\ VoteInv
    BY InitInv, InitVotes
  <1> QED
    BY <1>1, <1>2, PTL DEF Spec

\* A server votes at most once per term, however often it crashes: RequestVote
\* and doElection write the vote to the raft-state file in the step that gives it.
THEOREM OneVotePerTerm == Spec => []VoteOnce
  <1>1. VoteInv => VoteOnce
    BY DEF VoteInv
  <1> QED
    BY <1>1, VoteInvariant, PTL

\* Two majorities share a server, and that server voted once: sendRequestVote
\* never makes two servers leader in one term.
LEMMA OneWinner ==
    ASSUME TypeOK, VoteOnce, WinnersElected
    PROVE  ElectionSafety
  <1> SUFFICES ASSUME NEW w1 \in won, NEW w2 \in won, w1.term = w2.term PROVE w1 = w2
    BY DEF ElectionSafety
  <1>1. w1 \in [term : Nat, leader : Server] /\ w2 \in [term : Nat, leader : Server]
    BY DEF TypeOK
  <1>2. PICK Q1 \in SUBSET Server :
          Cardinality(Q1) >= Quorum /\ \A j \in Q1 : Ballot(j, w1.term, w1.leader) \in ballots
    BY DEF WinnersElected
  <1>3. PICK Q2 \in SUBSET Server :
          Cardinality(Q2) >= Quorum /\ \A j \in Q2 : Ballot(j, w2.term, w2.leader) \in ballots
    BY DEF WinnersElected
  <1>4. Q1 \cap Q2 # {}
    <2>1. Cardinality(Server) \in Nat
      BY ServerFinite, FS_CardinalityType
    <2>2. /\ IsFiniteSet(Q1) /\ Cardinality(Q1) \in Nat
          /\ IsFiniteSet(Q2) /\ Cardinality(Q2) \in Nat
      BY ServerFinite, FS_Subset, FS_CardinalityType
    <2>3. Cardinality(Q1) + Cardinality(Q2) > Cardinality(Server)
      BY <1>2, <1>3, <2>1, <2>2 DEF Quorum
    <2> QED
      BY <2>3, ServerFinite, FS_MajoritiesIntersect
  <1>5. PICK j \in Q1 \cap Q2 : TRUE
    BY <1>4
  <1>6. Ballot(j, w1.term, w1.leader) = Ballot(j, w2.term, w2.leader)
    <2>1. /\ Ballot(j, w1.term, w1.leader).voter = Ballot(j, w2.term, w2.leader).voter
          /\ Ballot(j, w1.term, w1.leader).term = Ballot(j, w2.term, w2.leader).term
      BY DEF Ballot
    <2> QED
      BY <1>2, <1>3, <1>5, <2>1 DEF VoteOnce
  <1>7. w1.leader = w2.leader
    BY <1>6 DEF Ballot
  <1> QED
    BY <1>1, <1>7

\* At most one server ever wins a given term, for any number of servers, any
\* loss and reordering of calls and any number of crashes.
THEOREM OneLeaderPerTerm == Spec => []ElectionSafety
  <1>1. NodeInv /\ VoteInv => ElectionSafety
    BY OneWinner DEF NodeInv, VoteInv
  <1> QED
    BY <1>1, VoteInvariant, PTL

\* The votes still to come cannot make a second majority.
LEMMA NoSecondMajority ==
    ASSUME NodeInv, VoteInv
    PROVE  LeaderOnce
  <1>0. TypeOK /\ DiskCurrent
    BY DEF NodeInv
  <1>1. /\ BallotsOnDisk /\ GrantsRecorded /\ VotesCounted /\ CallsOfElections
    BY DEF VoteInv
  <1> SUFFICES ASSUME NEW r \in rpcs, r.kind = "VoteReply", r.granted,
                      r.term = currentTerm[r.args.from],
                      [term |-> currentTerm[r.args.from], leader |-> r.args.from] \in won
               PROVE  votedNum[r.args.from] + 1 < Quorum
    BY DEF LeaderOnce
  <1> DEFINE i == r.args.from
             to == r.args.to
  <1>2. r \in Pending /\ Call(r) = r.args
    BY DEF Pending, Call
  <1>3. i \in Server /\ to \in Server /\ r.args.term = currentTerm[i]
    BY <1>0, <1>1, <1>2, PendingType DEF GrantsRecorded
  <1>4. Ballot(i, currentTerm[i], i) \in ballots /\ i \in voters[i] /\ to \notin voters[i]
    BY <1>1, <1>2, <1>3 DEF CallsOfElections
  <1>5. votedFor[i] = i
    <2>1. /\ Ballot(i, currentTerm[i], i).voter = i
          /\ Ballot(i, currentTerm[i], i).term = currentTerm[i]
          /\ Ballot(i, currentTerm[i], i).candidate = i
      BY DEF Ballot
    <2> QED
      BY <1>0, <1>1, <1>4, <2>1, BallotsInMemory
  <1>6. votedNum[i] + Quorum <= Cardinality(voters[i])
    BY <1>1, <1>3, <1>4, <1>5 DEF VotesCounted
  <1>7. /\ IsFiniteSet(voters[i]) /\ Cardinality(voters[i]) \in Nat
        /\ Cardinality(voters[i]) + 1 <= Cardinality(Server)
    <2>1. voters[i] \in SUBSET Server
      BY <1>0, <1>3 DEF TypeOK
    <2>2. IsFiniteSet(voters[i]) /\ Cardinality(voters[i]) \in Nat
      BY <2>1, ServerFinite, FS_Subset, FS_CardinalityType
    <2>3. Cardinality(voters[i] \cup {to}) = Cardinality(voters[i]) + 1
      BY <1>4, <2>2, FS_AddElement
    <2>4. Cardinality(voters[i] \cup {to}) <= Cardinality(Server)
      BY <1>3, <2>1, ServerFinite, FS_Subset
    <2> QED
      BY <2>2, <2>3, <2>4
  <1>8. votedNum[i] \in Nat /\ Cardinality(Server) \in Nat
    BY <1>0, <1>3, ServerFinite, FS_CardinalityType DEF TypeOK
  <1> QED
    BY <1>6, <1>7, <1>8 DEF Quorum

\* The assertion of sendRequestVote never fails: once a server has won a term,
\* the counter restarted from 0 cannot reach the majority with the votes left.
THEOREM NeverLeaderTwice == Spec => []LeaderOnce
  <1>1. NodeInv /\ VoteInv => LeaderOnce
    BY NoSecondMajority
  <1> QED
    BY <1>1, VoteInvariant, PTL
=============================================================================
