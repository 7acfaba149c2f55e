-------------------------------- MODULE MCRpc -------------------------------
(* Rpc for TLC: for each method, arguments and answers that tell the       *)
(* fields apart, leave some of them at their defaults, and are long.       *)
EXTENDS Rpc, TLC

MCEntry(command, index) == [command |-> command, logterm |-> 1, logindex |-> index]

MCArgs ==
    [AppendEntries |->
        {[term |-> 2, leaderid |-> 0, prevlogindex |-> 0, prevlogterm |-> 0, leadercommit |-> 0,
          entries |-> <<MCEntry("a", 1)>>]},
     InstallSnapshot |->
        {[leaderid |-> 1, term |-> 2, lastsnapshotincludeindex |-> 3,
          lastsnapshotincludeterm |-> 1, data |-> Long]},
     RequestVote |->
        {[term |-> 2, candidateid |-> 1, lastlogindex |-> 0, lastlogterm |-> 0]},
     PutAppend |->
        {[key |-> "k", value |-> "v", op |-> "Put", clientid |-> "c", requestid |-> 1, ttlms |-> 5]},
     Get |->
        {[key |-> "k", clientid |-> "c", requestid |-> 2]}]

MCAnswers ==
    [AppendEntries |->
        {[term |-> 2, success |-> TRUE, updatenextindex |-> 3, appstate |-> 1]},
     InstallSnapshot |-> {[term |-> 2]},
     RequestVote |->
        {[term |-> 2, votegranted |-> FALSE, votestate |-> 1]},
     PutAppend |-> {[err |-> "OK"]},
     Get |-> {[err |-> "OK", value |-> Long]}]

\* What a message parses to is what was serialized, for the methods that are not called too.
ASSUME MCRoundTrip ==
    \A m \in RaftMethods \cup KvMethods :
        /\ \A args \in MCArgs[m] : ParseRequest(m, SerializeRequest(m, args)) = args
        /\ \A reply \in MCAnswers[m] : ParseResponse(m, SerializeResponse(m, reply)) = reply

\* The methods that are called: two that an IO thread runs, and one for the pool.
MCCalled == {"AppendEntries", "RequestVote", "Get"}
MCRequest == [m \in DOMAIN MCArgs |-> IF m \in MCCalled THEN MCArgs[m] ELSE {}]
MCReply == [m \in DOMAIN MCAnswers |-> IF m \in MCCalled THEN MCAnswers[m] ELSE {}]
=============================================================================
