------------------------------- MODULE MCRaft -------------------------------
EXTENDS Raft, TLC

CONSTANT Backlog    \* commands the first leader has accepted and not yet sent

Symmetry == Permutations(Server)

\* Replies whose calling thread will only return: the ignored cases of the
\* reply handlers, none of which can become another case later.
Inert(r) ==
    \/ r.kind = "VoteReply" /\ r.term <= currentTerm[r.args.from]
         /\ (r.granted => r.term < currentTerm[r.args.from])
    \/ r.kind = "AppendReply"
         /\ \/ r.term < currentTerm[r.args.from]
            \/ r.term = currentTerm[r.args.from] /\ status[r.args.from] # Leader
            \/ r.term = currentTerm[r.args.from] /\ r.update = -100
    \/ r.kind = "SnapshotReply" /\ (status[r.args.from] # Leader \/ currentTerm[r.args.from] # r.args.term)
    \/ r.kind = "ReadReply" /\ (~r.success \/ read[r.args.from].phase # "confirm"
                                \/ read[r.args.from].id # r.args.round)

\* States that differ only in inert replies are explored once.
LiveView == <<serverVars, logVars, applyVars, leaderVars, voteVars, readVars,
          disk, {r \in rpcs : ~Inert(r)}, applied, restarts>>

-----------------------------------------------------------------------------
\* The state after an undisputed first election: every server has voted for l
\* in term 1, l has counted every vote and accepted Backlog commands.
Elected(l) ==
    LET command(k) == IF k = 1 THEN Noop ELSE CHOOSE c \in Command : TRUE
        log(i) == IF i = l
                  THEN [k \in 1 .. Backlog + 1 |->
                          [term |-> 1, index |-> k, command |-> command(k)]]
                  ELSE <<>>
    IN  /\ status = [i \in Server |-> IF i = l THEN Leader ELSE Follower]
        /\ currentTerm = [i \in Server |-> 1]
        /\ votedFor = [i \in Server |-> l]
        /\ logs = [i \in Server |-> log(i)]
        /\ nextIndex = [i \in Server |-> [j \in Server |-> IF i = l THEN 1 ELSE 0]]
        /\ votedNum = [i \in Server |-> IF i = l THEN Cardinality(Server) - Quorum ELSE 0]
        /\ disk = [i \in Server |-> [EmptyDisk EXCEPT !.term = 1, !.votedFor = l,
                                                      !.log = log(i)]]
        /\ ballots = [voter : Server, term : {1}, candidate : {l}]
        /\ voters = [i \in Server |-> IF i = l THEN Server ELSE {}]
        /\ won = {[term |-> 1, leader |-> l]}
        /\ snapIndex = [i \in Server |-> 0]
        /\ snapTerm = [i \in Server |-> 0]
        /\ commitIndex = [i \in Server |-> 0]
        /\ lastApplied = [i \in Server |-> 0]
        /\ matchIndex = [i \in Server |-> [j \in Server |-> 0]]
        /\ appendNums = [i \in Server |-> <<>>]
        /\ read = [i \in Server |-> NoRead]
        /\ rpcs = {}
        /\ applied = {}
        /\ restarts = 0 /\ reads = 0 /\ rounds = 0

ElectedSpec == (\E l \in Server : Elected(l)) /\ [][Next]_vars
============================================================================
