----------------------------- MODULE Persister ------------------------------
(***************************************************************************)
(* The Persister (raftCore/Persister.cpp): a file with Raft's state and a  *)
(* file with the snapshot.  Every save truncates the files before it       *)
(* writes them; saving lists the steps the call in progress still has to   *)
(* do.  A file is None when it is empty and Torn when a crash has cut it.  *)
(***************************************************************************)
EXTENDS Integers, Sequences

CONSTANTS None, Torn

VARIABLES
    saving,             \* the steps left of Save or SaveRaftState
    raftStateSize,      \* m_raftStateSize
    raftFile, snapFile  \* the two files

disk == <<saving, raftStateSize, raftFile, snapFile>>

\* The length of a state, counted in log entries and the fields in front of them.
StateSize(state) == IF state = None THEN 0 ELSE 1 + Len(state.log)

\* Variant for mutation: the snapshot is left out.
SaveOnlyState(state, snapshot) ==
    saving' = <<[step |-> "clearRaftState"], [step |-> "flushRaftState", data |-> state]>>
\* clearRaftStateAndSnapshot, then both streams are flushed.
Save(state, snapshot) ==
    saving' = <<[step |-> "clearRaftState"], [step |-> "clearSnapshot"],
                [step |-> "flushRaftState", data |-> state],
                [step |-> "flushSnapshot", data |-> snapshot]>>

SaveRaftState(state) ==
    saving' = <<[step |-> "clearRaftState"], [step |-> "flushRaftState", data |-> state]>>

SaveStep(s) ==
    /\ saving # <<>> /\ Head(saving).step = s
    /\ saving' = Tail(saving)

clearRaftState ==
    /\ SaveStep("clearRaftState")
    /\ raftFile' = None /\ raftStateSize' = 0
    /\ UNCHANGED snapFile

clearSnapshot ==
    /\ SaveStep("clearSnapshot")
    /\ snapFile' = None
    /\ UNCHANGED <<raftFile, raftStateSize>>

\* m_raftStateSize is set when both flushes are done; nobody reads it before.
FlushRaftState ==
    /\ SaveStep("flushRaftState")
    /\ raftFile' = Head(saving).data
    /\ raftStateSize' = StateSize(Head(saving).data)
    /\ UNCHANGED snapFile

FlushSnapshot ==
    /\ SaveStep("flushSnapshot")
    /\ snapFile' = Head(saving).data
    /\ UNCHANGED <<raftFile, raftStateSize>>

PersisterStep == clearRaftState \/ clearSnapshot \/ FlushRaftState \/ FlushSnapshot

\* The process dies: a file that was being flushed may have been cut.
PersisterCrash ==
    /\ saving' = <<>> /\ raftStateSize' = 0
    /\ raftFile' \in {raftFile} \cup
           (IF saving # <<>> /\ Head(saving).step = "flushRaftState" THEN {Torn} ELSE {})
    /\ snapFile' \in {snapFile} \cup
           (IF saving # <<>> /\ Head(saving).step = "flushSnapshot" THEN {Torn} ELSE {})

\* A crash now would lose what was saved before: a file is truncated and not rewritten.
SaveWindow == saving # <<>> /\ Head(saving).step # "clearRaftState"

\* The constructor opens the files without truncating them.
PersisterOpens ==
    /\ raftStateSize' = StateSize(raftFile)
    /\ UNCHANGED <<saving, raftFile, snapFile>>
=============================================================================
