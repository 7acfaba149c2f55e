----------------------------- MODULE MCKvServer -----------------------------
EXTENDS KvServer

\* The threads of a write that have called Start and whose clerk has gone on:
\* they only wait and answer nobody.
Idle(call) ==
    /\ call.op.kind # "Get" /\ call.phase \in {"started", "waiting"}
    /\ clerk[call.op.client].call # call.id

\* States that differ only in such threads are explored once.
LiveView == <<raftVars, serverVars, {call \in calls : ~Idle(call)}, clerk, acked, answers,
              issued, replay, restarts, installs>>
============================================================================
