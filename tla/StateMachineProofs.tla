------------------------- MODULE StateMachineProofs -------------------------
(***************************************************************************)
(* What a server persists is enough to start from, and what runs on it is  *)
(* the map that its log describes.                                         *)
(*                                                                         *)
(* PersistInv is about the files.  SnapshotMatchesCut speaks of the        *)
(* moments when no save is in progress, which is not enough to survive the *)
(* next crash: the invariant says what the files hold at every step of     *)
(* Save and SaveRaftState (Clean to FlushesSnapshot) and after a crash     *)
(* (AtRest).                                                               *)
(*                                                                         *)
(* EngineInv is about the engine, damaged files or not: the skip list is   *)
(* in shape (SkipListProofs), the cache agrees with it, a reader about to  *)
(* fill the cache holds what the list has, and every snapshot is the dump  *)
(* of a map.  From it come the expired keys and the promise of KVEngine.   *)
(*                                                                         *)
(* ContentInv joins the two: the engine agrees with the history up to the  *)
(* entry executed last, and every snapshot with the history up to its own  *)
(* index.                                                                  *)
(***************************************************************************)
EXTENDS StateMachine, SkipListProofs

Entry == [operation : Operations, key : Key, expireAt : Nat, id : Nat]

\* The value of an empty or a torn file is neither a Raft state nor a snapshot.
FilesApart ==
    \A mark \in {None, Torn} :
        /\ \A b, l : mark # [base |-> b, log |-> l]
        /\ \A i, d, n, e : mark # [index |-> i, dump |-> d, lastRequest |-> n, expire |-> e]

\* l holds the entries of h above index b.
Above(l, h, b) ==
    /\ l \in Seq(Entry) /\ b \in Nat /\ Len(h) = b + Len(l)
    /\ \A i \in 1 .. Len(l) : l[i] = h[b + i]

\* s is a snapshot of index b.
SnapshotOf(s, b) ==
    \E d, n, e : s = [index |-> b, dump |-> d, lastRequest |-> n, expire |-> e]

\* The two files continue each other and hold what h is the history of.
AtRest(h) ==
    \E b, l : /\ raftFile = [base |-> b, log |-> l] /\ Above(l, h, b)
              /\ SnapshotOf(snapFile, b)

State == [base |-> base, log |-> log]
Clears(file) == [step |-> file]
Flushes(file, d) == [step |-> file, data |-> d]

\* The stages of a save: nothing to do, SaveRaftState, Save.
Clean ==
    /\ saving = <<>>
    /\ raftFile = State /\ SnapshotOf(snapFile, base) /\ raftStateSize = StateSize(raftFile)
AppendPending ==
    /\ saving = <<Clears("clearRaftState"), Flushes("flushRaftState", State)>>
    /\ Len(history) > 0 /\ AtRest(Front(history)) /\ SnapshotOf(snapFile, base)
AppendFlushes ==
    saving = <<Flushes("flushRaftState", State)>> /\ SnapshotOf(snapFile, base)
CutPending ==
    /\ \E s : SnapshotOf(s, base) /\
              saving = <<Clears("clearRaftState"), Clears("clearSnapshot"),
                         Flushes("flushRaftState", State), Flushes("flushSnapshot", s)>>
    /\ AtRest(history)
ClearsSnapshot ==
    \E s : SnapshotOf(s, base) /\
           saving = <<Clears("clearSnapshot"), Flushes("flushRaftState", State),
                      Flushes("flushSnapshot", s)>>
FlushesState ==
    \E s : SnapshotOf(s, base) /\
           saving = <<Flushes("flushRaftState", State), Flushes("flushSnapshot", s)>>
FlushesSnapshot ==
    /\ \E s : SnapshotOf(s, base) /\ saving = <<Flushes("flushSnapshot", s)>>
    /\ raftFile = State /\ raftStateSize = StateSize(raftFile)

Stage == \/ Clean \/ AppendPending \/ AppendFlushes
         \/ CutPending \/ ClearsSnapshot \/ FlushesState \/ FlushesSnapshot

Running == Above(log, history, base) /\ applied \in base .. Len(history) /\ Stage

PersistInv ==
    /\ history \in Seq(Entry) /\ started \in Nat
    /\ ~damaged => \/ up = "up" /\ Running
                   \/ up = "down" /\ saving = <<>> /\ AtRest(history)
-----------------------------------------------------------------------------
(***************************************************************************)
(* Logs and histories.                                                     *)
(***************************************************************************)

\* Appending one entry to log and history keeps the log the end of the history.
LEMMA AboveAppend ==
    ASSUME NEW h \in Seq(Entry), NEW l, NEW b, Above(l, h, b), NEW op \in Entry
    PROVE  Above(Append(l, op), Append(h, op), b)
<1>1. l \in Seq(Entry) /\ b \in Nat /\ Len(l) \in Nat /\ Len(h) = b + Len(l)
    BY LenProperties DEF Above
<1>2. /\ Append(l, op) \in Seq(Entry) /\ Len(Append(l, op)) = Len(l) + 1
      /\ Append(l, op)[Len(l) + 1] = op
      /\ \A i \in 1 .. Len(l) : Append(l, op)[i] = l[i]
    BY <1>1, AppendProperties
<1>3. /\ Len(Append(h, op)) = Len(h) + 1
      /\ Append(h, op)[Len(h) + 1] = op
      /\ \A i \in 1 .. Len(h) : Append(h, op)[i] = h[i]
    BY AppendProperties
<1>4. ASSUME NEW i \in 1 .. Len(l) + 1 PROVE Append(l, op)[i] = Append(h, op)[b + i]
    <2>1. CASE i = Len(l) + 1  BY <2>1, <1>1, <1>2, <1>3
    <2>2. CASE i \in 1 .. Len(l)
        <3>1. b + i \in 1 .. Len(h)  BY <2>2, <1>1
        <3> QED  BY <2>2, <3>1, <1>2, <1>3 DEF Above
    <2> QED  BY <2>1, <2>2, <1>1
<1> QED  BY <1>1, <1>2, <1>3, <1>4 DEF Above

\* Dropping the entry just appended gives the history back.
LEMMA FrontOfAppend ==
    ASSUME NEW h \in Seq(Entry), NEW op \in Entry
    PROVE  /\ Append(h, op) \in Seq(Entry) /\ Len(Append(h, op)) > 0
           /\ Front(Append(h, op)) = h
<1>1. /\ Append(h, op) \in Seq(Entry) /\ Len(Append(h, op)) = Len(h) + 1 /\ Len(h) \in Nat
      /\ \A i \in 1 .. Len(h) : Append(h, op)[i] = h[i]
    BY AppendProperties, LenProperties
<1>2. Front(Append(h, op)) = SubSeq(Append(h, op), 1, Len(h))
    BY <1>1 DEF Front
<1>3. SubSeq(Append(h, op), 1, Len(h)) = [i \in 1 .. Len(h) |-> h[i]]
    BY <1>1
<1>4. h = [i \in 1 .. Len(h) |-> h[i]]
    BY LenProperties
<1> QED  BY <1>1, <1>2, <1>3, <1>4

\* Dropping the last entry leaves a history.
LEMMA FrontIsHistory ==
    ASSUME NEW h \in Seq(Entry), Len(h) > 0
    PROVE  Front(h) \in Seq(Entry)
<1>1. Len(h) \in Nat /\ Len(h) - 1 \in Nat /\ \A i \in 1 .. Len(h) : h[i] \in Entry
    BY LenProperties, ElementOfSeq
<1>2. Front(h) = [i \in 1 .. Len(h) - 1 |-> h[i]]
    BY <1>1 DEF Front
<1>3. [i \in 1 .. Len(h) - 1 |-> h[i]] \in [1 .. Len(h) - 1 -> Entry]
    BY <1>1
<1> QED  BY <1>1, <1>2, <1>3

\* The cut at index a.
LEMMA AboveCut ==
    ASSUME NEW h \in Seq(Entry), NEW l, NEW b, Above(l, h, b), NEW a \in b .. Len(h)
    PROVE  Above(SubSeq(l, a - b + 1, Len(l)), h, a)
<1> DEFINE n == Len(l) - (a - b)
           s == SubSeq(l, a - b + 1, Len(l))
<1>1. /\ l \in Seq(Entry) /\ b \in Nat /\ Len(l) \in Nat /\ Len(h) = b + Len(l)
      /\ \A i \in 1 .. Len(l) : l[i] = h[b + i]
      /\ \A i \in 1 .. Len(l) : l[i] \in Entry
    BY LenProperties, ElementOfSeq DEF Above
<1>2. n \in Nat /\ a \in Nat /\ Len(h) = a + n
    BY <1>1
<1>3. s = [i \in 1 .. n |-> l[(a - b) + i]]
    BY <1>1
<1>4. \A i \in 1 .. n : (a - b) + i \in 1 .. Len(l) /\ b + ((a - b) + i) = a + i
    BY <1>1
<1>5. s \in [1 .. n -> Entry]
    BY <1>1, <1>3, <1>4
<1> HIDE DEF s
<1>6. s \in Seq(Entry) /\ Len(s) = n
    BY <1>2, <1>5
<1>7. \A i \in 1 .. n : s[i] = h[a + i]
    BY <1>1, <1>3, <1>4
<1> HIDE DEF n, s
<1> QED  BY <1>2, <1>6, <1>7 DEF Above, s

\* The log above a snapshot is the history from the snapshot's index on.
LEMMA AboveIsSubSeq ==
    ASSUME NEW h \in Seq(Entry), NEW l, NEW b, Above(l, h, b)
    PROVE  l = SubSeq(h, b + 1, Len(h))
<1>1. /\ l \in Seq(Entry) /\ b \in Nat /\ Len(l) \in Nat /\ Len(h) = b + Len(l)
      /\ \A i \in 1 .. Len(l) : l[i] = h[b + i]
    BY LenProperties DEF Above
<1>2. l = [i \in 1 .. Len(l) |-> l[i]]
    BY <1>1, LenProperties
<1>3. SubSeq(h, b + 1, Len(h)) = [i \in 1 .. Len(l) |-> h[b + i]]
    BY <1>1
<1> QED  BY <1>1, <1>2, <1>3
-----------------------------------------------------------------------------
(***************************************************************************)
(* The steps of the server.                                                *)
(***************************************************************************)

\* The files of the server that ran before continue each other.
LEMMA PersistInit == Init => PersistInv
<1> SUFFICES ASSUME Init PROVE PersistInv
    OBVIOUS
<1>1. Earlier \in Nat /\ 1 .. Earlier \subseteq Key
    BY StateMachineAssumption
<1>2. \A k \in 1 .. Earlier : EarlierPut(k) \in Entry
    BY <1>1 DEF EarlierPut, Entry, Operations
<1>3. history = [k \in 1 .. Earlier |-> EarlierPut(k)] /\ started = Earlier
    BY DEF Init
<1>4. history \in Seq(Entry) /\ Len(history) = Earlier
    BY <1>1, <1>2, <1>3
<1>5. Above(<<>>, history, Earlier)
    BY <1>1, <1>4 DEF Above
<1>6. AtRest(history)
    BY <1>5 DEF Init, AtRest, SnapshotOf
<1> QED  BY <1>1, <1>3, <1>4, <1>6 DEF Init, PersistInv

\* Between two saves the files are those of the log.
LEMMA NothingSaved ==
    ASSUME PersistInv, ~damaged, up = "up", saving = <<>>
    PROVE  Clean /\ Above(log, history, base) /\ applied \in base .. Len(history)
BY DEF PersistInv, Running, Stage, AppendPending, AppendFlushes, CutPending, ClearsSnapshot,
       FlushesState, FlushesSnapshot

\* A clean server is at rest.
LEMMA CleanAtRest ==
    ASSUME Clean, Above(log, history, base)
    PROVE  AtRest(history)
BY DEF Clean, AtRest, State

\* Reads, the clock and the check of the snapshot's length touch nothing of this.
LEMMA PersistKept ==
    ASSUME PersistInv, UNCHANGED <<disk, log, base, applied, history, started, up, damaged>>
    PROVE  PersistInv'
BY DEF PersistInv, Running, Stage, Clean, AppendPending, AppendFlushes, CutPending, ClearsSnapshot,
       FlushesState, FlushesSnapshot, State, AtRest, disk

\* Executing an entry leaves files, log and history alone.
LEMMA ExecutesStep ==
    ASSUME PersistInv, NEW operation, Executes(operation)
    PROVE  PersistInv'
<1>1. /\ up = "up" /\ saving = <<>> /\ applied < LastIndex /\ applied' = applied + 1
      /\ UNCHANGED <<log, base, history, started, disk, up, damaged>>
    BY DEF Executes
<1>2. CASE damaged
    BY <1>1, <1>2 DEF PersistInv
<1>3. CASE ~damaged
    <2>1. Clean /\ Above(log, history, base) /\ applied \in base .. Len(history)
        BY <1>1, <1>3, NothingSaved
    <2>2. Len(history) = LastIndex /\ base \in Nat /\ Len(history) \in Nat
        BY <2>1, LenProperties DEF Above, LastIndex
    <2>3. applied' \in base' .. Len(history')
        BY <1>1, <2>1, <2>2
    <2>4. Clean' /\ Above(log, history, base)'
        BY <1>1, <2>1 DEF Clean, State, disk
    <2> QED  BY <1>1, <2>3, <2>4 DEF PersistInv, Running, Stage
<1> QED  BY <1>2, <1>3

\* Start appends the entry to log and history and begins SaveRaftState.
LEMMA StartStep ==
    ASSUME PersistInv, NEW operation \in Operations, NEW k \in Key, NEW expireAt \in Expiry[k] \cup {0},
           Start(operation, k, expireAt)
    PROVE  PersistInv'
<1> DEFINE op == [operation |-> operation, key |-> k, expireAt |-> expireAt, id |-> started + 1]
<1>1. /\ up = "up" /\ saving = <<>> /\ started' = started + 1
      /\ log' = Append(log, op) /\ history' = Append(history, op)
      /\ saving' = <<Clears("clearRaftState"),
                     Flushes("flushRaftState", [base |-> base, log |-> Append(log, op)])>>
      /\ UNCHANGED <<base, applied, raftStateSize, raftFile, snapFile, up, damaged>>
    BY DEF Start, SaveRaftState, Clears, Flushes
<1>2. expireAt \in Nat
    BY StateMachineAssumption
<1>3. history \in Seq(Entry) /\ started \in Nat
    BY DEF PersistInv
<1>4. op \in Entry
    BY <1>2, <1>3 DEF Entry
<1> HIDE DEF op
<1>5. /\ history' \in Seq(Entry) /\ started' \in Nat
      /\ Len(history') > 0 /\ Front(history') = history
    BY <1>1, <1>3, <1>4, FrontOfAppend
<1>6. CASE damaged
    BY <1>1, <1>5, <1>6 DEF PersistInv
<1>7. CASE ~damaged
    <2>1. Clean /\ Above(log, history, base) /\ applied \in base .. Len(history)
        BY <1>1, <1>7, NothingSaved
    <2>2. Above(log', history', base')
        BY <1>1, <1>3, <1>4, <2>1, AboveAppend
    <2>3. applied' \in base' .. Len(history')
        <3>1. Len(history') = Len(history) + 1 /\ Len(history) \in Nat /\ base \in Nat
            BY <1>1, <1>3, <1>4, <2>1, AppendProperties, LenProperties DEF Above
        <3> QED  BY <1>1, <2>1, <3>1
    <2>4. AtRest(history)
        BY <2>1, CleanAtRest
    <2>5. AtRest(Front(history))'
        BY <1>1, <1>5, <2>4 DEF AtRest
    <2>6. AppendPending'
        BY <1>1, <1>5, <2>1, <2>5 DEF AppendPending, State, Clean
    <2> QED  BY <1>1, <1>5, <2>2, <2>3, <2>6 DEF PersistInv, Running, Stage
<1> QED  BY <1>6, <1>7

\* IfNeedToSendSnapShotCommand cuts the log at the snapshot's index and begins Save.
LEMMA SnapshotStep ==
    ASSUME PersistInv, IfNeedToSendSnapShotCommand
    PROVE  PersistInv'
<1>1. /\ up = "up" /\ saving = <<>>
      /\ UNCHANGED <<applied, history, started, raftStateSize, raftFile, snapFile, up, damaged>>
    BY DEF IfNeedToSendSnapShotCommand
<1>2. CASE UNCHANGED <<base, log, saving>>
    BY <1>1, <1>2, PersistKept DEF disk
<1>3. CASE /\ base' = applied /\ log' = LogAbove
           /\ Save([base |-> applied, log |-> LogAbove], SnapshotData)
    <2>1. CASE damaged
        BY <1>1, <2>1 DEF PersistInv
    <2>2. CASE ~damaged
        <3>1. Clean /\ Above(log, history, base) /\ applied \in base .. Len(history)
            BY <1>1, <2>2, NothingSaved
        <3>2. history \in Seq(Entry)  BY DEF PersistInv
        <3>3. Above(LogAbove, history, applied)
            BY <3>1, <3>2, AboveCut DEF LogAbove
        <3>4. applied \in applied .. Len(history)
            BY <3>1, <3>2, LenProperties DEF Above
        <3>5. SnapshotOf(SnapshotData, applied)
            BY DEF SnapshotOf, SnapshotData
        <3>6. AtRest(history)'
            <4>1. AtRest(history)  BY <3>1, CleanAtRest
            <4> QED  BY <1>1, <4>1 DEF AtRest
        <3>7. saving' = <<Clears("clearRaftState"), Clears("clearSnapshot"),
                          Flushes("flushRaftState", State'), Flushes("flushSnapshot", SnapshotData)>>
            BY <1>3 DEF Save, State, Clears, Flushes
        <3>8. CutPending'
            BY <1>3, <3>5, <3>6, <3>7 DEF CutPending
        <3> QED  BY <1>1, <1>3, <3>2, <3>3, <3>4, <3>8 DEF PersistInv, Running, Stage
    <2> QED  BY <2>1, <2>2
<1> QED  BY <1>2, <1>3 DEF IfNeedToSendSnapShotCommand

\* Each step of a save leads to the next stage.
LEMMA SavesStep ==
    ASSUME PersistInv, Saves
    PROVE  PersistInv'
<1>1. /\ up = "up" /\ UNCHANGED <<log, base, applied, history, started, up, damaged>>
      /\ saving # <<>> /\ saving' = Tail(saving)
      /\ PersisterStep
    BY DEF Saves, raft, PersisterStep, clearRaftState, clearSnapshot, FlushRaftState, FlushSnapshot,
           SaveStep
<1>2. CASE damaged
    BY <1>1, <1>2 DEF PersistInv
<1>3. CASE ~damaged
    <2>1. /\ history \in Seq(Entry) /\ started \in Nat /\ Above(log, history, base)
          /\ applied \in base .. Len(history) /\ Stage
        BY <1>1, <1>3 DEF PersistInv, Running
    <2>2. Stage'
        <3>1. State' = State  BY <1>1 DEF State
        <3>2. ASSUME AppendPending PROVE AppendFlushes'
            <4>1. /\ Head(saving) = Clears("clearRaftState")
                  /\ Tail(saving) = <<Flushes("flushRaftState", State)>>
                BY <3>2 DEF AppendPending
            <4>2. snapFile' = snapFile
                BY <1>1, <4>1 DEF PersisterStep, clearRaftState, clearSnapshot, FlushRaftState,
                                  FlushSnapshot, SaveStep, Clears
            <4> QED  BY <1>1, <3>1, <3>2, <4>1, <4>2 DEF AppendPending, AppendFlushes
        <3>3. ASSUME AppendFlushes PROVE Clean'
            <4>1. Head(saving) = Flushes("flushRaftState", State) /\ Tail(saving) = <<>>
                BY <3>3 DEF AppendFlushes
            <4>2. /\ snapFile' = snapFile /\ raftFile' = State /\ raftStateSize' = StateSize(State)
                BY <1>1, <4>1 DEF PersisterStep, clearRaftState, clearSnapshot, FlushRaftState,
                                  FlushSnapshot, SaveStep, Flushes
            <4> QED  BY <1>1, <3>1, <3>3, <4>1, <4>2 DEF AppendFlushes, Clean, StateSize
        <3>4. ASSUME CutPending PROVE ClearsSnapshot'
            <4>1. PICK s : /\ SnapshotOf(s, base)
                           /\ saving = <<Clears("clearRaftState"), Clears("clearSnapshot"),
                                  Flushes("flushRaftState", State), Flushes("flushSnapshot", s)>>
                BY <3>4 DEF CutPending
            <4>2. Tail(saving) = <<Clears("clearSnapshot"), Flushes("flushRaftState", State),
                                   Flushes("flushSnapshot", s)>>
                BY <4>1
            <4> QED  BY <1>1, <3>1, <4>1, <4>2 DEF ClearsSnapshot
        <3>5. ASSUME ClearsSnapshot PROVE FlushesState'
            <4>1. PICK s : /\ SnapshotOf(s, base)
                           /\ saving = <<Clears("clearSnapshot"), Flushes("flushRaftState", State),
                                         Flushes("flushSnapshot", s)>>
                BY <3>5 DEF ClearsSnapshot
            <4>2. Tail(saving) = <<Flushes("flushRaftState", State), Flushes("flushSnapshot", s)>>
                BY <4>1
            <4> QED  BY <1>1, <3>1, <4>1, <4>2 DEF FlushesState
        <3>6. ASSUME FlushesState PROVE FlushesSnapshot'
            <4>1. PICK s : /\ SnapshotOf(s, base)
                           /\ saving = <<Flushes("flushRaftState", State), Flushes("flushSnapshot", s)>>
                BY <3>6 DEF FlushesState
            <4>2. /\ Tail(saving) = <<Flushes("flushSnapshot", s)>>
                  /\ Head(saving) = Flushes("flushRaftState", State)
                BY <4>1
            <4>3. raftFile' = State /\ raftStateSize' = StateSize(State)
                BY <1>1, <4>2 DEF PersisterStep, clearRaftState, clearSnapshot, FlushRaftState,
                                  FlushSnapshot, SaveStep, Flushes
            <4> QED  BY <1>1, <3>1, <4>1, <4>2, <4>3 DEF FlushesSnapshot, StateSize
        <3>7. ASSUME FlushesSnapshot PROVE Clean'
            <4>1. PICK s : SnapshotOf(s, base) /\ saving = <<Flushes("flushSnapshot", s)>>
                BY <3>7 DEF FlushesSnapshot
            <4>2. Tail(saving) = <<>> /\ Head(saving) = Flushes("flushSnapshot", s)
                BY <4>1
            <4>3. snapFile' = s /\ raftFile' = raftFile /\ raftStateSize' = raftStateSize
                BY <1>1, <4>2 DEF PersisterStep, clearRaftState, clearSnapshot, FlushRaftState,
                                  FlushSnapshot, SaveStep, Flushes
            <4> QED  BY <1>1, <3>1, <3>7, <4>1, <4>2, <4>3 DEF FlushesSnapshot, Clean, StateSize
        <3> QED  BY <1>1, <2>1, <3>2, <3>3, <3>4, <3>5, <3>6, <3>7 DEF Stage, Clean
    <2> QED  BY <1>1, <2>1, <2>2 DEF PersistInv, Running
<1> QED  BY <1>2, <1>3

\* A crash outside the window of a save leaves what was saved before.
LEMMA CrashStep ==
    ASSUME PersistInv, Crash
    PROVE  PersistInv'
<1>1. /\ up = "up" /\ up' = "down" /\ started' = started /\ PersisterCrash
      /\ damaged' = (damaged \/ SaveWindow)
      /\ history' = IF saving # <<>> /\ ~SaveWindow /\ Last(saving).step = "flushRaftState"
                    THEN Front(history) ELSE history
    BY DEF Crash
<1>2. history \in Seq(Entry) /\ started \in Nat
    BY DEF PersistInv
<1>3. CASE damaged
    <2>1. CASE Len(history) > 0
        BY <1>1, <1>2, <1>3, <2>1, FrontIsHistory DEF PersistInv
    <2>2. CASE ~(Len(history) > 0)
        <3>1. Len(history) = 0  BY <1>2, <2>2, LenProperties
        <3>2. Front(history) = <<>>
            BY <1>2, <3>1 DEF Front
        <3>3. <<>> \in Seq(Entry)
            BY EmptySeq
        <3>4. history' \in Seq(Entry)
            BY <1>1, <1>2, <3>2, <3>3
        <3>5. damaged' /\ started' \in Nat
            BY <1>1, <1>2, <1>3
        <3> QED  BY <3>4, <3>5 DEF PersistInv
    <2> QED  BY <2>1, <2>2
<1>4. CASE ~damaged /\ saving = <<>>
    <2>1. Clean /\ Above(log, history, base)
        BY <1>1, <1>4, NothingSaved
    <2>2. AtRest(history)
        BY <2>1, CleanAtRest
    <2>3. UNCHANGED <<raftFile, snapFile, history>> /\ saving' = <<>>
        BY <1>1, <1>4 DEF PersisterCrash
    <2>4. AtRest(history)'
        BY <2>2, <2>3 DEF AtRest
    <2> QED  BY <1>1, <1>2, <2>3, <2>4 DEF PersistInv
<1>5. CASE ~damaged /\ saving # <<>> /\ SaveWindow
    <2>1. damaged' /\ history' = history  BY <1>1, <1>5
    <2> QED  BY <1>1, <1>2, <2>1 DEF PersistInv
<1>6. CASE ~damaged /\ saving # <<>> /\ ~SaveWindow
    <2>1. Running /\ Head(saving).step = "clearRaftState"
        BY <1>1, <1>6 DEF PersistInv, SaveWindow
    <2>2. saving' = <<>> /\ UNCHANGED <<raftFile, snapFile>>
        BY <1>1, <2>1 DEF PersisterCrash
    <2>3. AppendPending \/ CutPending
        BY <1>6, <2>1 DEF Running, Stage, Clean, AppendFlushes, ClearsSnapshot, FlushesState,
                          FlushesSnapshot, Clears, Flushes
    <2>4. CASE AppendPending
        <3>1. Last(saving) = Flushes("flushRaftState", State)
            BY <2>4 DEF AppendPending, Last
        <3>2. history' = Front(history)
            BY <1>1, <1>6, <3>1 DEF Flushes
        <3>3. AtRest(history)' /\ history' \in Seq(Entry)
            BY <1>2, <2>2, <2>4, <3>2, FrontIsHistory DEF AppendPending, AtRest
        <3> QED  BY <1>1, <1>2, <2>2, <3>3 DEF PersistInv
    <2>5. CASE CutPending
        <3>1. Last(saving).step = "flushSnapshot"
            BY <2>5 DEF CutPending, Last, Flushes
        <3>2. history' = history
            BY <1>1, <3>1
        <3>3. AtRest(history)'
            BY <2>2, <2>5, <3>2 DEF CutPending, AtRest
        <3> QED  BY <1>1, <1>2, <2>2, <3>2, <3>3 DEF PersistInv
    <2> QED  BY <2>3, <2>4, <2>5
<1> QED  BY <1>3, <1>4, <1>5, <1>6

\* A server that starts from undamaged files continues where they end.
LEMMA RestartStep ==
    ASSUME FilesApart, PersistInv, Restart
    PROVE  PersistInv'
<1>1. up = "down" /\ UNCHANGED <<history, started, damaged>>
    BY DEF Restart
<1>2. CASE damaged
    BY <1>1, <1>2 DEF PersistInv
<1>3. CASE ~damaged
    <2>1. /\ history \in Seq(Entry) /\ started \in Nat /\ saving = <<>> /\ AtRest(history)
        BY <1>1, <1>3 DEF PersistInv
    <2>2. PICK b, l : /\ raftFile = [base |-> b, log |-> l] /\ Above(l, history, b)
                      /\ SnapshotOf(snapFile, b)
        BY <2>1 DEF AtRest
    <2>3. raftFile \notin {None, Torn} /\ snapFile \notin {None, Torn}
        BY <2>2 DEF FilesApart, SnapshotOf
    <2>4. /\ up' = "up" /\ raftStateSize' = StateSize(raftFile)
          /\ UNCHANGED <<saving, raftFile, snapFile>>
          /\ log' = raftFile.log /\ base' = raftFile.base /\ applied' = base'
        BY <2>3 DEF Restart, PersisterOpens
    <2>5. log' = l /\ base' = b /\ applied' = b /\ State' = raftFile
        BY <2>2, <2>4 DEF State
    <2>6. Clean'
        BY <2>1, <2>2, <2>4, <2>5 DEF Clean, StateSize, SnapshotOf
    <2>7. Above(log, history, base)' /\ b \in b .. Len(history)
        BY <1>1, <2>1, <2>2, <2>5, LenProperties DEF Above
    <2> QED  BY <1>1, <2>1, <2>4, <2>5, <2>6, <2>7 DEF PersistInv, Running, Stage
<1> QED  BY <1>2, <1>3

\* Every step keeps the invariant.
LEMMA PersistNext == FilesApart /\ PersistInv /\ [Next]_vars => PersistInv'
<1> SUFFICES ASSUME FilesApart, PersistInv, [Next]_vars PROVE PersistInv'
    OBVIOUS
<1>1. CASE UNCHANGED vars
    BY <1>1, PersistKept DEF vars, raft
<1>2. ASSUME NEW operation \in Operations, NEW k \in Key, NEW expireAt \in Expiry[k] \cup {0},
             Start(operation, k, expireAt)
      PROVE  PersistInv'
    BY <1>2, StartStep
<1>3. CASE ExecutePutOpOnKVDB
    BY <1>3, ExecutesStep DEF ExecutePutOpOnKVDB
<1>4. CASE ExecuteAppendOpOnKVDB
    BY <1>4, ExecutesStep DEF ExecuteAppendOpOnKVDB
<1>5. CASE PassesGet
    BY <1>5, ExecutesStep DEF PassesGet
<1>5a. ASSUME NEW k \in Key, ExecuteGetOpOnKVDB(k) PROVE PersistInv'
    BY <1>5a, PersistKept DEF ExecuteGetOpOnKVDB, raft
<1>6. CASE IfNeedToSendSnapShotCommand
    BY <1>6, SnapshotStep
<1>7. CASE Saves
    BY <1>7, SavesStep
<1>8. ASSUME NEW r \in Reader, \/ \E k \in Key : ReadBegins(r, k)
                               \/ ReadsCache(r) \/ ReadsBase(r) \/ FillsCache(r) \/ ReadReturns(r)
      PROVE  PersistInv'
    BY <1>8, PersistKept DEF ReadBegins, ReadsCache, ReadsBase, FillsCache, ReadReturns, raft
<1>9. CASE Tick
    BY <1>9, PersistKept DEF Tick, raft
<1>10. CASE Crash
    BY <1>10, CrashStep
<1>11. CASE Restart
    BY <1>11, RestartStep
<1> QED  BY <1>1, <1>2, <1>3, <1>4, <1>5, <1>5a, <1>6, <1>7, <1>8, <1>9, <1>10, <1>11 DEF Next

\* What the files hold at every stage of Persister's Save and SaveRaftState.
THEOREM PersistInvariant ==
    ASSUME FilesApart
    PROVE  Spec => []PersistInv
<1>1. Init => PersistInv  BY PersistInit
<1>2. PersistInv /\ [Next]_vars => PersistInv'  BY PersistNext
<1> QED  BY <1>1, <1>2, PTL DEF Spec

\* Between two saves the snapshot file and the cut of the log belong together, and
\* m_raftStateSize is the size of what Persister::Save wrote.
THEOREM SnapshotsMatchCuts ==
    ASSUME FilesApart
    PROVE  Spec => []SnapshotMatchesCut
<1>1. Spec => []PersistInv  BY PersistInvariant
<1>2. PersistInv => SnapshotMatchesCut
    <2> SUFFICES ASSUME PersistInv, up = "up", ~damaged, saving = <<>>
                 PROVE  /\ raftStateSize = StateSize(raftFile)
                        /\ base = IF snapFile = None THEN 0 ELSE snapFile.index
                        /\ raftFile # None => raftFile.base = base /\ raftFile.log = log
        BY DEF SnapshotMatchesCut
    <2>1. Clean  BY NothingSaved
    <2>2. snapFile # None /\ snapFile.index = base
        BY <2>1 DEF Clean, SnapshotOf, FilesApart
    <2> QED  BY <2>1, <2>2 DEF Clean, State
<1> QED  BY <1>1, <1>2, PTL
-----------------------------------------------------------------------------
(***************************************************************************)
(* The cache.                                                              *)
(***************************************************************************)

Item == [key : Key, value : Value]

\* A list of items, no two of one key.
IsCache(items) ==
    /\ items \in Seq(Item)
    /\ \A i, j \in 1 .. Len(items) : items[i].key = items[j].key => i = j

\* Every item is what content has.
Coherent(items, content) ==
    \A i \in 1 .. Len(items) :
        items[i].key \in DOMAIN content /\ items[i].value = content[items[i].key]

\* LRUCache::Delete takes out the item of the key and no other.
LEMMA CacheDeletes ==
    ASSUME NEW items, IsCache(items), NEW k, NEW d, d = CacheDelete(items, k)
    PROVE  /\ IsCache(d) /\ Len(d) <= Len(items)
           /\ k \in CachedKeys(items) => Len(d) = Len(items) - 1
           /\ \A i \in 1 .. Len(d) : d[i].key # k /\ \E j \in 1 .. Len(items) : items[j] = d[i]
<1>1. /\ items \in Seq(Item) /\ Len(items) \in Nat /\ DOMAIN items = 1 .. Len(items)
      /\ \A i \in 1 .. Len(items) : items[i] \in Item
    BY LenProperties, ElementOfSeq DEF IsCache
<1>2. CASE k \notin CachedKeys(items)
    <2>1. d = items  BY <1>2 DEF CacheDelete
    <2>2. \A i \in 1 .. Len(items) : items[i].key # k
        BY <1>1, <1>2 DEF CachedKeys
    <2>3. Len(d) <= Len(items)
        BY <1>1, <2>1
    <2> QED  BY <1>2, <2>1, <2>2, <2>3
<1>3. CASE k \in CachedKeys(items)
    <2> DEFINE p == CacheIndex(items, k)
               n == Len(items)
               a == SubSeq(items, 1, p - 1)
               b == SubSeq(items, p + 1, n)
    <2>1. p \in 1 .. n /\ items[p].key = k
        <3>1. \E i \in DOMAIN items : items[i].key = k
            BY <1>3 DEF CachedKeys
        <3>2. p \in DOMAIN items /\ items[p].key = k
            BY <3>1 DEF CacheIndex
        <3> QED  BY <1>1, <3>2
    <2>2. d = a \o b
        BY <1>3 DEF CacheDelete, RemoveAt
    <2> HIDE DEF p
    <2>3. p \in Nat /\ p - 1 \in Int /\ p + 1 \in Int /\ n \in Int
        BY <1>1, <2>1
    <2>4. /\ a \in Seq(Item) /\ Len(a) = p - 1
          /\ \A i \in 1 .. p - 1 : a[i] = items[i]
        <3>1. \A i \in 1 .. p - 1 : items[i] \in Item
            BY <1>1, <2>1
        <3> QED  BY <2>1, <2>3, <3>1, SubSeqProperties
    <2>5. /\ b \in Seq(Item) /\ Len(b) = n - p
          /\ \A i \in 1 .. n - p : b[i] = items[p + i]
        <3>1. \A i \in p + 1 .. n : items[i] \in Item
            BY <1>1, <2>1
        <3>2. /\ b \in Seq(Item) /\ Len(b) = IF p + 1 <= n THEN n - (p + 1) + 1 ELSE 0
              /\ \A i \in 1 .. n - (p + 1) + 1 : b[i] = items[(p + 1) + i - 1]
            BY <2>3, <3>1, SubSeqProperties
        <3>3. n - (p + 1) + 1 = n - p /\ \A i \in Int : (p + 1) + i - 1 = p + i
            BY <2>3
        <3>4. Len(b) = n - p
            BY <2>1, <2>3, <3>2
        <3>5. ASSUME NEW i \in 1 .. n - p PROVE b[i] = items[p + i]
            <4>1. i \in 1 .. n - (p + 1) + 1 /\ i \in Int
                BY <3>3
            <4> QED  BY <3>2, <3>3, <4>1
        <3> QED  BY <3>2, <3>4, <3>5
    <2> HIDE DEF a, b
    <2>6. /\ d \in Seq(Item) /\ Len(d) = n - 1
          /\ \A i \in 1 .. n - 1 : d[i] = IF i <= p - 1 THEN a[i] ELSE b[i - (p - 1)]
        <3>1. (p - 1) + (n - p) = n - 1  BY <2>3
        <3> QED  BY <2>2, <2>4, <2>5, <3>1, ConcatProperties
    <2> DEFINE at(i) == IF i <= p - 1 THEN i ELSE i + 1
    <2>7. ASSUME NEW i \in 1 .. n - 1
          PROVE  at(i) \in 1 .. n /\ at(i) # p /\ d[i] = items[at(i)]
        <3>1. at(i) \in 1 .. n /\ at(i) # p
            BY <1>1, <2>1
        <3>2. CASE i <= p - 1
            <4>1. i \in 1 .. p - 1  BY <2>3, <3>2
            <4> QED  BY <2>4, <2>6, <3>1, <3>2, <4>1
        <3>3. CASE ~(i <= p - 1)
            <4>1. i - (p - 1) \in 1 .. n - p /\ p + (i - (p - 1)) = i + 1
                BY <2>3, <3>3
            <4> QED  BY <2>5, <2>6, <3>1, <3>3, <4>1
        <3> QED  BY <3>2, <3>3
    <2>8. \A i, j \in 1 .. n - 1 : at(i) = at(j) => i = j
        BY <2>3
    <2> HIDE DEF at
    <2>9. \A i, j \in 1 .. n - 1 : d[i].key = d[j].key => i = j
        BY <2>7, <2>8 DEF IsCache
    <2>10. \A i \in 1 .. n - 1 : d[i].key # k
        BY <2>1, <2>7 DEF IsCache
    <2> QED  BY <1>1, <2>6, <2>7, <2>9, <2>10 DEF IsCache
<1> QED  BY <1>2, <1>3

\* An item in front of the items of the other keys.
LEMMA CachePushes ==
    ASSUME NEW items, IsCache(items), NEW item \in Item,
           \A i \in 1 .. Len(items) : items[i].key # item.key
    PROVE  LET d == <<item>> \o items
           IN  /\ IsCache(d) /\ Len(d) = Len(items) + 1
               /\ \A i \in 1 .. Len(d) : d[i] = item \/ \E j \in 1 .. Len(items) : items[j] = d[i]
<1> DEFINE d == <<item>> \o items
<1>1. items \in Seq(Item) /\ Len(items) \in Nat
    BY LenProperties DEF IsCache
<1>2. <<item>> \in Seq(Item) /\ Len(<<item>>) = 1 /\ <<item>>[1] = item
    OBVIOUS
<1>3. /\ d \in Seq(Item) /\ Len(d) = 1 + Len(items)
      /\ \A i \in 1 .. Len(d) : d[i] = IF i <= 1 THEN item ELSE items[i - 1]
    BY <1>1, <1>2, ConcatProperties
<1> HIDE DEF d
<1>4. \A i \in 1 .. Len(d) : \/ i = 1 /\ d[i] = item
                             \/ i # 1 /\ i - 1 \in 1 .. Len(items) /\ d[i] = items[i - 1]
    BY <1>1, <1>3
<1>5. ASSUME NEW i \in 1 .. Len(d), NEW j \in 1 .. Len(d), d[i].key = d[j].key PROVE i = j
    <2>1. CASE i = 1 \/ j = 1
        BY <1>4, <1>5, <2>1
    <2>2. CASE i # 1 /\ j # 1
        <3>1. i - 1 = j - 1  BY <1>4, <1>5, <2>2 DEF IsCache
        <3> QED  BY <3>1
    <2> QED  BY <2>1, <2>2
<1>6. \A i \in 1 .. Len(d) : d[i] = item \/ \E j \in 1 .. Len(items) : items[j] = d[i]
    BY <1>4
<1> QED  BY <1>1, <1>3, <1>5, <1>6 DEF IsCache, d

\* LRUCache::Get moves the item to the front.
LEMMA CacheTouches ==
    ASSUME NEW items, IsCache(items), NEW k \in Key, k \in CachedKeys(items),
           NEW content, Coherent(items, content)
    PROVE  /\ IsCache(CacheTouch(items, k)) /\ Len(CacheTouch(items, k)) = Len(items)
           /\ Coherent(CacheTouch(items, k), content)
           /\ k \in DOMAIN content /\ CachedValue(items, k) = content[k] /\ CachedValue(items, k) \in Value
<1> DEFINE d == CacheDelete(items, k)
           item == [key |-> k, value |-> CachedValue(items, k)]
           r == CacheTouch(items, k)
<1>1. /\ items \in Seq(Item) /\ Len(items) \in Nat /\ DOMAIN items = 1 .. Len(items)
      /\ \A i \in 1 .. Len(items) : items[i] \in Item
    BY LenProperties, ElementOfSeq DEF IsCache
<1>2. PICK p \in 1 .. Len(items) : items[p].key = k /\ CachedValue(items, k) = items[p].value
    <2>1. \E i \in DOMAIN items : items[i].key = k
        BY DEF CachedKeys
    <2>2. CacheIndex(items, k) \in DOMAIN items /\ items[CacheIndex(items, k)].key = k
        BY <2>1 DEF CacheIndex
    <2> QED  BY <1>1, <2>2 DEF CachedValue
<1>3. /\ k \in DOMAIN content /\ CachedValue(items, k) = content[k] /\ CachedValue(items, k) \in Value
    BY <1>1, <1>2 DEF Coherent, Item
<1>4. item \in Item /\ item.key = k
    BY <1>3 DEF Item
<1>5. /\ IsCache(d) /\ Len(d) = Len(items) - 1
      /\ \A i \in 1 .. Len(d) : d[i].key # k /\ \E j \in 1 .. Len(items) : items[j] = d[i]
    BY CacheDeletes
<1>6. r = <<item>> \o d
    BY DEF CacheTouch
<1> HIDE DEF d, item, r
<1>7. /\ IsCache(r) /\ Len(r) = Len(d) + 1
      /\ \A i \in 1 .. Len(r) : r[i] = item \/ \E j \in 1 .. Len(d) : d[j] = r[i]
    <2>1. \A i \in 1 .. Len(d) : d[i].key # item.key
        BY <1>4, <1>5
    <2>2. IsCache(d) /\ item \in Item
        BY <1>4, <1>5
    <2> QED  BY <1>6, <2>1, <2>2, CachePushes
<1>8. Coherent(r, content)
    <2> SUFFICES ASSUME NEW i \in 1 .. Len(r)
                 PROVE  r[i].key \in DOMAIN content /\ r[i].value = content[r[i].key]
        BY DEF Coherent
    <2>1. r[i] = item \/ \E j \in 1 .. Len(items) : items[j] = r[i]
        BY <1>5, <1>7
    <2> QED  BY <1>3, <2>1 DEF Coherent, item
<1> QED  BY <1>1, <1>3, <1>5, <1>7, <1>8 DEF r

\* LRUCache::Put: the new value is in front, the least recently used item goes.
LEMMA CachePuts ==
    ASSUME CacheCapacity \in Nat, NEW items, IsCache(items), Len(items) <= CacheCapacity,
           NEW k \in Key, NEW v \in Value, NEW c, Coherent(items, c),
           NEW content, k \in DOMAIN content, content[k] = v,
           \A x \in DOMAIN c \ {k} : x \in DOMAIN content /\ content[x] = c[x]
    PROVE  /\ IsCache(CachePut(items, k, v)) /\ Len(CachePut(items, k, v)) <= CacheCapacity
           /\ Coherent(CachePut(items, k, v), content)
<1> DEFINE d == CacheDelete(items, k)
           item == [key |-> k, value |-> v]
           put == <<item>> \o d
           n == Min({Len(put), CacheCapacity})
           r == CachePut(items, k, v)
<1>1. items \in Seq(Item) /\ Len(items) \in Nat
    BY LenProperties DEF IsCache
<1>2. CASE CacheCapacity = 0
    <2>1. r = items
        BY <1>2 DEF CachePut
    <2>2. Len(items) = 0
        BY <1>1, <1>2
    <2>3. Coherent(items, content)
        BY <2>2 DEF Coherent
    <2> QED  BY <2>1, <2>3
<1>3. CASE CacheCapacity # 0
    <2>1. r = SubSeq(put, 1, n)
        BY <1>3 DEF CachePut
    <2>2. /\ IsCache(d) /\ Len(d) <= Len(items)
          /\ \A i \in 1 .. Len(d) : d[i].key # k /\ \E j \in 1 .. Len(items) : items[j] = d[i]
        BY CacheDeletes
    <2>3. item \in Item /\ item.key = k
        BY DEF Item
    <2> HIDE DEF d, item, r
    <2>4. /\ IsCache(put) /\ Len(put) = Len(d) + 1
          /\ \A i \in 1 .. Len(put) : put[i] = item \/ \E j \in 1 .. Len(d) : d[j] = put[i]
        <3>1. \A i \in 1 .. Len(d) : d[i].key # item.key
            BY <2>2, <2>3
        <3>2. IsCache(d) /\ item \in Item
            BY <2>2, <2>3
        <3> QED  BY <3>1, <3>2, CachePushes DEF put
    <2> HIDE DEF put
    <2>5. /\ put \in Seq(Item) /\ Len(put) \in Nat /\ \A i \in 1 .. Len(put) : put[i] \in Item
        BY <2>4, LenProperties, ElementOfSeq DEF IsCache
    <2>6. n \in Nat /\ n <= Len(put) /\ n <= CacheCapacity
        <3> DEFINE S == {Len(put), CacheCapacity}
        <3>1. S \in SUBSET Nat /\ S # {}
            BY <2>5
        <3> HIDE DEF S
        <3>2. PICK m \in S : \A x \in S : m <= x
            BY <3>1, LeastElement
        <3>3. Min(S) \in S /\ \A x \in S : Min(S) <= x
            BY <3>2 DEF Min
        <3> QED  BY <3>1, <3>3 DEF S
    <2> HIDE DEF n
    <2>7. /\ r \in Seq(Item) /\ Len(r) = n /\ \A i \in 1 .. n : i \in 1 .. Len(put) /\ r[i] = put[i]
        <3>1. \A i \in 1 .. n : i \in 1 .. Len(put) /\ put[i] \in Item
            BY <2>5, <2>6
        <3>2. /\ r \in Seq(Item) /\ Len(r) = IF 1 <= n THEN n - 1 + 1 ELSE 0
              /\ \A i \in 1 .. n - 1 + 1 : r[i] = put[1 + i - 1]
            BY <2>1, <2>6, <3>1, SubSeqProperties
        <3>3. n - 1 + 1 = n /\ \A i \in Int : 1 + i - 1 = i
            BY <2>6
        <3>4. Len(r) = n
            BY <2>6, <3>2
        <3> QED  BY <3>1, <3>2, <3>3, <3>4
    <2>8. IsCache(r)
        BY <2>4, <2>7 DEF IsCache
    <2>9. Coherent(r, content)
        <3> SUFFICES ASSUME NEW i \in 1 .. Len(r)
                     PROVE  r[i].key \in DOMAIN content /\ r[i].value = content[r[i].key]
            BY DEF Coherent
        <3>1. r[i] = item \/ \E j \in 1 .. Len(items) : items[j] = r[i] /\ items[j].key # k
            <4>1. i \in 1 .. Len(put) /\ r[i] = put[i]
                BY <2>7
            <4>2. r[i] = item \/ \E m \in 1 .. Len(d) : d[m] = r[i]
                BY <2>4, <4>1
            <4> QED  BY <2>2, <4>2
        <3>2. CASE r[i] = item
            BY <3>2 DEF item
        <3>3. CASE \E j \in 1 .. Len(items) : items[j] = r[i] /\ items[j].key # k
            <4>1. r[i].key \in DOMAIN c \ {k} /\ r[i].value = c[r[i].key]
                BY <3>3 DEF Coherent
            <4> QED  BY <4>1
        <3> QED  BY <3>1, <3>2, <3>3
    <2> QED  BY <2>6, <2>7, <2>8, <2>9 DEF r
<1> QED  BY <1>2, <1>3

-----------------------------------------------------------------------------
(***************************************************************************)
(* The engine and the files, whether or not a crash has hit a save.  What  *)
(* is in a file or on its way to one is well formed, and a snapshot is the *)
(* dump of some map; the skip list is in shape, the cache coherent, and a  *)
(* reader about to fill the cache holds the value that the engine has:     *)
(* without that, FillsCache could put back a value that is gone.           *)
(***************************************************************************)

Op == [operation : Operations, key : Key, expireAt : Nat, id : 1 .. Earlier + MaxOps]

IsContent(map) == DOMAIN map \subseteq Key /\ \A k \in DOMAIN map : map[k] \in Value
IsExpiry(e) == \A k \in DOMAIN e : e[k] \in Nat

IsState(s) == \E b, l : s = [base |-> b, log |-> l] /\ b \in Nat /\ l \in Seq(Op)
IsSnapshot(s) ==
    \E b, d, n, e, map : /\ s = [index |-> b, dump |-> d, lastRequest |-> n, expire |-> e]
                         /\ IsDump(d, map) /\ IsContent(map) /\ IsExpiry(e)

\* A step of a save writes a state or a snapshot.
IsStep(step) ==
    /\ step.step = "flushRaftState" => IsState(step.data)
    /\ step.step = "flushSnapshot" => IsSnapshot(step.data)

LogTyped ==
    /\ log \in Seq(Op) /\ base \in Nat /\ applied \in base .. base + Len(log)
    /\ started \in Nat /\ now \in Nat

FilesTyped ==
    /\ raftFile \in {None, Torn} \/ IsState(raftFile)
    /\ snapFile \in {None, Torn} \/ IsSnapshot(snapFile)
    /\ \E S : saving \in Seq(S) /\ \A step \in S : IsStep(step)

EngineTyped == Shaped(list) /\ IsContent(Content) /\ IsExpiry(expire)

CacheInv == IsCache(cache) /\ Len(cache) <= CacheCapacity /\ Coherent(cache, Content)

Reading == [pc : {"idle", "cache", "base", "fill", "return"}, key : Key \cup {None},
            value : Value \cup {None}]

ReadersInv ==
    /\ reader \in [Reader -> Reading]
    /\ \A r \in Reader :
          /\ reader[r].pc \in {"idle", "cache", "base"} => reader[r].value = None
          /\ reader[r].pc # "idle" => up = "up" /\ reader[r].key \in Key
          /\ reader[r].pc = "fill" => /\ reader[r].key \in DOMAIN Content
                                      /\ reader[r].value = Content[reader[r].key]

EngineInv == LogTyped /\ FilesTyped /\ EngineTyped /\ CacheInv /\ ReadersInv

\* A value is not nullptr.
LEMMA ValueFound == \A v \in Value : v # Nil
<1>1. 1 .. Earlier + MaxOps \subseteq Nat
    BY StateMachineAssumption
<1> SUFFICES ASSUME NEW v \in Value PROVE v # Nil
    OBVIOUS
<1>2. v \in Seq(Nat)
    BY <1>1, SeqMonotonic DEF Value
<1> QED  BY <1>2, StateMachineAssumption

\* An empty engine.
LEMMA EmptyEngine ==
    ASSUME list' = EmptyList, cache' = <<>>, expire' = NoKeys
    PROVE  EngineTyped' /\ CacheInv' /\ Content' = NoKeys /\ DOMAIN Content' = {}
<1>1. Shaped(list') /\ Content' = [n \in {} |-> Nil] /\ DOMAIN Content' = {}
    BY EmptyShaped, SkipListAssumption DEF Content
<1>2. [n \in {} |-> Nil] = NoKeys
    BY DEF NoKeys
<1>3. IsContent(Content') /\ IsExpiry(expire')
    BY <1>1 DEF IsContent, IsExpiry, NoKeys
<1>4. cache' \in Seq(Item) /\ Len(cache') = 0
    BY EmptySeq
<1>5. CacheInv'
    BY <1>4, StateMachineAssumption DEF CacheInv, IsCache, Coherent
<1> QED  BY <1>1, <1>2, <1>3, <1>5 DEF EngineTyped, Content

\* What the engine's Get returns.
LEMMA GetFinds ==
    ASSUME EngineTyped, CacheInv, NEW k \in Key
    PROVE  /\ EngineGetValue(k) = IF k \in DOMAIN Content THEN Content[k] ELSE Nil
           /\ k \in DOMAIN Content => Content[k] \in Value /\ Content[k] # Nil
<1>1. k \in Nat
    BY StateMachineAssumption
<1>2. search_element(list, k) = IF k \in DOMAIN Content THEN Content[k] ELSE Nil
    BY <1>1, SkipListAssumption, SearchFinds DEF EngineTyped, Content
<1>3. k \in DOMAIN Content => Content[k] \in Value /\ Content[k] # Nil
    BY ValueFound DEF EngineTyped, IsContent
<1>4. ASSUME CacheHit(cache, k) PROVE k \in DOMAIN Content /\ CachedValue(cache, k) = Content[k]
    BY <1>4, CacheTouches DEF CacheHit, CacheInv
<1> QED  BY <1>2, <1>3, <1>4 DEF EngineGetValue

\* A Put adds the key to the engine and leaves the cache coherent with it.
LEMMA EnginePuts ==
    ASSUME EngineTyped, CacheInv, NEW k \in Key, NEW v \in Value, NEW level \in Levels,
           EnginePut(k, v, level)
    PROVE  /\ Shaped(list') /\ Content' = WithKey(Content, k, v) /\ IsContent(Content')
           /\ CacheInv'
<1>1. k \in Nat
    BY StateMachineAssumption
<1>2. list' = insert_set_element(list, k, v, level) /\ cache' = CachePut(cache, k, v)
    BY DEF EnginePut
<1>3. Shaped(list') /\ list'.value = MapWith(list.value, k, v)
    BY <1>1, <1>2, SkipListAssumption, SetShaped DEF EngineTyped
<1>4. Content' = WithKey(Content, k, v)
    BY <1>3 DEF Content, WithKey, MapWith
<1>5. /\ DOMAIN Content' = DOMAIN Content \cup {k} /\ Content'[k] = v
      /\ \A x \in DOMAIN Content \ {k} : x \in DOMAIN Content' /\ Content'[x] = Content[x]
    BY <1>4 DEF WithKey
<1>6. IsContent(Content')
    BY <1>5 DEF EngineTyped, IsContent
<1> DEFINE c == Content'
<1>7. /\ IsCache(CachePut(cache, k, v)) /\ Len(CachePut(cache, k, v)) <= CacheCapacity
      /\ Coherent(CachePut(cache, k, v), c)
    <2>1. k \in DOMAIN c
        BY <1>5
    <2>2. c[k] = v /\ \A x \in DOMAIN Content \ {k} : x \in DOMAIN c /\ c[x] = Content[x]
        BY <1>5
    <2> HIDE DEF c
    <2> QED  BY <2>1, <2>2, CachePuts, StateMachineAssumption DEF CacheInv
<1> QED  BY <1>2, <1>3, <1>4, <1>6, <1>7 DEF CacheInv

\* A Delete takes the key out of the engine and out of the cache.
LEMMA EngineDeletes ==
    ASSUME EngineTyped, CacheInv, NEW k \in Key, EngineDelete(k)
    PROVE  /\ Shaped(list') /\ Content' = Without(Content, k) /\ IsContent(Content')
           /\ CacheInv'
<1>1. k \in Nat
    BY StateMachineAssumption
<1>2. list' = delete_element_locked(list, k) /\ cache' = CacheDelete(cache, k)
    BY DEF EngineDelete
<1>3. Shaped(list') /\ list'.value = MapWithout(list.value, k)
    BY <1>1, <1>2, SkipListAssumption, DeleteShaped DEF EngineTyped
<1>4. Content' = Without(Content, k)
    BY <1>3 DEF Content, Without, MapWithout
<1>5. /\ DOMAIN Content' = DOMAIN Content \ {k}
      /\ \A x \in DOMAIN Content \ {k} : Content'[x] = Content[x]
    BY <1>4 DEF Without
<1>6. IsContent(Content')
    BY <1>5 DEF EngineTyped, IsContent
<1>7. /\ IsCache(cache') /\ Len(cache') <= Len(cache)
      /\ \A i \in 1 .. Len(cache') : /\ cache'[i].key # k
                                     /\ \E j \in 1 .. Len(cache) : cache[j] = cache'[i]
    BY <1>2, CacheDeletes DEF CacheInv
<1>8. Len(cache') <= CacheCapacity
    <2>1. Len(cache') \in Nat /\ Len(cache) \in Nat /\ Len(cache) <= CacheCapacity
        BY <1>7, LenProperties DEF CacheInv, IsCache
    <2> QED  BY <1>7, <2>1, StateMachineAssumption
<1>9. Coherent(cache', Content')
    BY <1>5, <1>7 DEF CacheInv, Coherent
<1> QED  BY <1>3, <1>4, <1>6, <1>7, <1>8, <1>9 DEF CacheInv

\* A Get leaves the cache coherent.
LEMMA EngineGets ==
    ASSUME EngineTyped, CacheInv, NEW k \in Key, cache' = CacheAfterGet(k), list' = list
    PROVE  CacheInv'
<1>1. Content' = Content
    BY DEF Content
<1>2. CASE CacheHit(cache, k)
    BY <1>1, <1>2, CacheTouches DEF CacheAfterGet, CacheHit, CacheInv
<1>3. CASE ~CacheHit(cache, k) /\ HasKey(list, k)
    <2>1. k \in DOMAIN Content
        <3>1. k \in Nat  BY StateMachineAssumption
        <3> QED  BY <1>3, <3>1, HasKeyIff, SkipListAssumption DEF EngineTyped, Content
    <2>2. Content[k] \in Value
        BY <2>1, GetFinds
    <2>3. cache' = CachePut(cache, k, Content[k])
        BY <1>3 DEF CacheAfterGet, Content
    <2> QED  BY <1>1, <2>1, <2>2, <2>3, CachePuts, StateMachineAssumption DEF CacheInv
<1>4. CASE ~CacheHit(cache, k) /\ ~HasKey(list, k)
    BY <1>1, <1>4 DEF CacheAfterGet, CacheInv
<1> QED  BY <1>2, <1>3, <1>4

\* The snapshot of the server that ran before is the dump of the map of its Puts.
FirstContent == [k \in 1 .. Earlier |-> <<k>>]
LEMMA FirstSnapshot ==
    ASSUME Init
    PROVE  /\ snapFile.index = Earlier /\ snapFile.expire = NoKeys
           /\ IsDump(snapFile.dump, FirstContent) /\ IsContent(FirstContent)
           /\ IsSnapshot(snapFile)
<1>1. Earlier \in Nat /\ 1 .. Earlier \subseteq Key /\ MaxOps \in Nat
    BY StateMachineAssumption
<1> DEFINE keys == [k \in 1 .. Earlier |-> k]
           values == [k \in 1 .. Earlier |-> <<k>>]
           d == [keys |-> keys, values |-> values]
<1>2. /\ snapFile = [index |-> Earlier, lastRequest |-> Earlier, expire |-> NoKeys, dump |-> d]
    BY DEF Init
<1>3. keys \in Seq(Nat) /\ Len(keys) = Earlier /\ \A i \in 1 .. Earlier : keys[i] = i
    BY <1>1
<1>4. InOrder(keys, 1 .. Earlier)
    <2> HIDE DEF keys
    <2> QED  BY <1>3 DEF InOrder
<1>5. /\ DOMAIN FirstContent = 1 .. Earlier /\ IsFiniteSet(1 .. Earlier)
      /\ FirstContent = [k \in DOMAIN FirstContent |-> FirstContent[k]]
      /\ \A i \in 1 .. Earlier : values[i] = FirstContent[i]
    BY <1>1, FS_Interval DEF FirstContent
<1>6. IsDump(d, FirstContent)
    <2> HIDE DEF keys, values
    <2>1. d.keys = keys /\ d.values = values
        OBVIOUS
    <2> QED  BY <1>3, <1>4, <1>5, <2>1 DEF IsDump
<1>7. IsContent(FirstContent)
    <2>1. \A k \in 1 .. Earlier : FirstContent[k] \in Value
        <3> TAKE k \in 1 .. Earlier
        <3>1. k \in 1 .. Earlier + MaxOps  BY <1>1
        <3> QED  BY <3>1 DEF FirstContent, Value
    <2> QED  BY <1>1, <1>5, <2>1 DEF IsContent
<1>8. IsExpiry(NoKeys)
    BY DEF IsExpiry, NoKeys
<1> HIDE DEF d
<1>9. snapFile.index = Earlier /\ snapFile.expire = NoKeys /\ snapFile.dump = d
    BY <1>2
<1>10. IsSnapshot(snapFile)
    BY <1>2, <1>6, <1>7, <1>8 DEF IsSnapshot
<1> QED  BY <1>6, <1>7, <1>9, <1>10

LEMMA EngineInit == Init => EngineInv
<1> SUFFICES ASSUME Init PROVE EngineInv
    OBVIOUS
<1>1. Earlier \in Nat /\ CacheCapacity \in Nat
    BY StateMachineAssumption
<1>2. <<>> \in Seq(Op) /\ Len(<<>>) = 0 /\ <<>> \in Seq(Item) /\ <<>> \in Seq({})
    BY EmptySeq
<1>3. LogTyped
    BY <1>1, <1>2 DEF Init, LogTyped
<1>4. IsState(raftFile)
    BY <1>1, <1>2 DEF Init, IsState
<1>5. FilesTyped
    <2>1. saving \in Seq({}) /\ \A step \in {} : IsStep(step)
        BY <1>2 DEF Init
    <2> QED  BY <1>4, <2>1, FirstSnapshot DEF FilesTyped
<1>6. EngineTyped /\ CacheInv
    <2>1. list = EmptyList /\ cache = <<>> /\ expire = NoKeys
        BY DEF Init
    <2>2. Shaped(list) /\ DOMAIN Content = {}
        BY <2>1, EmptyShaped, SkipListAssumption DEF Content
    <2>3. IsContent(Content) /\ IsExpiry(expire)
        BY <2>1, <2>2 DEF IsContent, IsExpiry, NoKeys
    <2>4. CacheInv
        BY <1>1, <1>2, <2>1 DEF CacheInv, IsCache, Coherent
    <2> QED  BY <2>2, <2>3, <2>4 DEF EngineTyped
<1>7. ReadersInv
    <2>1. reader = [r \in Reader |-> [pc |-> "idle", key |-> None, value |-> None]]
        BY DEF Init, IdleReaders
    <2> QED  BY <2>1 DEF ReadersInv, Reading
<1> QED  BY <1>3, <1>5, <1>6, <1>7 DEF EngineInv

\* The clock, the check of the snapshot's length and the like.
LEMMA EngineKept ==
    ASSUME EngineInv, UNCHANGED <<engine, expire, reader, log, base, applied, started, disk, up>>,
           now' \in Nat
    PROVE  EngineInv'
<1>1. LogTyped' /\ FilesTyped'
    BY DEF EngineInv, LogTyped, FilesTyped, disk
<1>2. Content' = Content
    BY DEF Content, engine
<1>3. EngineTyped' /\ CacheInv'
    BY <1>2 DEF EngineInv, EngineTyped, CacheInv, engine
<1>4. ReadersInv'
    BY <1>2 DEF EngineInv, ReadersInv
<1> QED  BY <1>1, <1>3, <1>4 DEF EngineInv

\* The entry that is executed, and what is left alone.
LEMMA EntryExecuted ==
    ASSUME EngineInv, NEW operation, Executes(operation)
    PROVE  /\ EntryAt(applied + 1) \in Op /\ EntryAt(applied + 1) = log[applied + 1 - base]
           /\ applied + 1 - base \in 1 .. Len(log)
           /\ LogTyped' /\ FilesTyped' /\ ReadersInv'
           /\ \A r \in Reader : reader[r].pc = "idle"
<1>1. /\ up = "up" /\ Unlocked /\ applied < LastIndex /\ applied' = applied + 1
      /\ UNCHANGED <<now, reader, log, base, started, disk, up>>
    BY DEF Executes
<1>2. log \in Seq(Op) /\ Len(log) \in Nat /\ base \in Nat /\ applied \in base .. base + Len(log)
    BY LenProperties DEF EngineInv, LogTyped
<1>3. applied + 1 - base \in 1 .. Len(log) /\ applied + 1 \in base .. base + Len(log)
    BY <1>1, <1>2 DEF LastIndex
<1>4. EntryAt(applied + 1) \in Op /\ EntryAt(applied + 1) = log[applied + 1 - base]
    BY <1>2, <1>3, ElementOfSeq DEF EntryAt
<1>5. LogTyped' /\ FilesTyped'
    BY <1>1, <1>3 DEF EngineInv, LogTyped, FilesTyped, disk
<1>6. \A r \in Reader : reader[r].pc = "idle"
    BY <1>1 DEF Unlocked
<1>7. ReadersInv'
    BY <1>1, <1>6 DEF EngineInv, ReadersInv
<1> QED  BY <1>3, <1>4, <1>5, <1>6, <1>7

\* What setKeyExpire and the deletion of an expired key leave of the expiry times.
LEMMA ExpirySet ==
    ASSUME IsExpiry(expire), NEW k, NEW e \in Nat
    PROVE  IsExpiry(setKeyExpire(expire, k, e)) /\ IsExpiry(Without(expire, k))
BY DEF IsExpiry, setKeyExpire, WithKey, Without

LEMMA PutKeepsEngine ==
    ASSUME EngineInv, ExecutePutOpOnKVDB
    PROVE  /\ EngineInv'
           /\ \E op \in Op : /\ op = EntryAt(applied + 1) /\ op.operation = "Put"
                             /\ Content' = WithKey(Content, op.key, <<op.id>>)
                             /\ expire' = setKeyExpire(expire, op.key, op.expireAt)
<1> DEFINE op == EntryAt(applied + 1)
<1>1. Executes("Put") /\ expire' = setKeyExpire(expire, op.key, op.expireAt)
    BY DEF ExecutePutOpOnKVDB
<1>2. PICK level \in Levels : EnginePut(op.key, <<op.id>>, level)
    BY DEF ExecutePutOpOnKVDB
<1>3. op \in Op /\ LogTyped' /\ FilesTyped' /\ ReadersInv'
    BY <1>1, EntryExecuted
<1>4. op.operation = "Put"
    BY <1>1 DEF Executes
<1> HIDE DEF op
<1>5. op.key \in Key /\ <<op.id>> \in Value /\ op.expireAt \in Nat
    BY <1>3 DEF Op, Value
<1>6. EngineTyped /\ CacheInv
    BY DEF EngineInv
<1>7. /\ Shaped(list') /\ Content' = WithKey(Content, op.key, <<op.id>>) /\ IsContent(Content')
      /\ CacheInv'
    BY <1>2, <1>5, <1>6, EnginePuts
<1>8. IsExpiry(expire')
    BY <1>1, <1>5, <1>6, ExpirySet DEF EngineTyped
<1>9. EngineInv'
    BY <1>3, <1>7, <1>8 DEF EngineInv, EngineTyped
<1> QED  BY <1>1, <1>3, <1>4, <1>7, <1>9 DEF op

\* The value that an Append adds to.
Old(k) == IF ~isKeyExpired(k) /\ k \in DOMAIN Content THEN Content[k] ELSE <<>>

LEMMA AppendKeepsEngine ==
    ASSUME EngineInv, ExecuteAppendOpOnKVDB
    PROVE  /\ EngineInv'
           /\ \E op \in Op : /\ op = EntryAt(applied + 1) /\ op.operation = "Append"
                             /\ Content' = WithKey(Content, op.key, Old(op.key) \o <<op.id>>)
                             /\ expire' = setKeyExpire(expire, op.key, op.expireAt)
                             /\ Old(op.key) \in Value
<1> DEFINE op == EntryAt(applied + 1)
           old == OldValue(op.key)
           value == (IF old = Nil THEN <<>> ELSE old) \o <<op.id>>
<1>1. Executes("Append") /\ expire' = setKeyExpire(expire, op.key, op.expireAt)
    BY DEF ExecuteAppendOpOnKVDB
<1>2. PICK level \in Levels : EnginePut(op.key, value, level)
    BY DEF ExecuteAppendOpOnKVDB
<1>3. op \in Op /\ LogTyped' /\ FilesTyped' /\ ReadersInv'
    BY <1>1, EntryExecuted
<1>4. op.operation = "Append"
    BY <1>1 DEF Executes
<1> HIDE DEF op
<1>5. op.key \in Key /\ op.id \in 1 .. Earlier + MaxOps /\ op.expireAt \in Nat
    BY <1>3 DEF Op
<1>6. EngineTyped /\ CacheInv
    BY DEF EngineInv
<1>7. (IF old = Nil THEN <<>> ELSE old) = Old(op.key) /\ Old(op.key) \in Value
    <2>1. /\ EngineGetValue(op.key) = IF op.key \in DOMAIN Content THEN Content[op.key] ELSE Nil
          /\ op.key \in DOMAIN Content => Content[op.key] \in Value /\ Content[op.key] # Nil
        BY <1>5, <1>6, GetFinds
    <2>2. <<>> \in Value
        BY EmptySeq DEF Value
    <2> QED  BY <2>1, <2>2 DEF Old, OldValue
<1>8. value = Old(op.key) \o <<op.id>>
    BY <1>7
<1> HIDE DEF old, value
<1>9. value \in Value
    BY <1>5, <1>7, <1>8, ConcatProperties DEF Value
<1>10. /\ Shaped(list') /\ Content' = WithKey(Content, op.key, value) /\ IsContent(Content')
       /\ CacheInv'
    BY <1>2, <1>5, <1>6, <1>9, EnginePuts
<1>11. IsExpiry(expire')
    BY <1>1, <1>5, <1>6, ExpirySet DEF EngineTyped
<1>12. EngineInv'
    BY <1>3, <1>10, <1>11 DEF EngineInv, EngineTyped
<1> QED  BY <1>1, <1>3, <1>4, <1>7, <1>8, <1>10, <1>12 DEF op

\* A Get that the log thread passes over.
LEMMA PassesGetKeepsEngine ==
    ASSUME EngineInv, PassesGet
    PROVE  EngineInv' /\ Content' = Content /\ expire' = expire
           /\ EntryAt(applied + 1).operation = "Get"
<1>1. Executes("Get") /\ UNCHANGED <<list, cache, expire>>
    BY DEF PassesGet, engine, ttl
<1>2. LogTyped' /\ FilesTyped' /\ ReadersInv'
    BY <1>1, EntryExecuted
<1>3. Content' = Content
    BY <1>1 DEF Content
<1>4. EngineTyped' /\ CacheInv'
    BY <1>1, <1>3 DEF EngineInv, EngineTyped, CacheInv
<1> QED  BY <1>1, <1>2, <1>3, <1>4 DEF EngineInv, Executes

\* A Get deletes the key when it has expired, and changes no content otherwise.
LEMMA GetKeepsEngine ==
    ASSUME EngineInv, NEW k \in Key, ExecuteGetOpOnKVDB(k)
    PROVE  /\ EngineInv'
           /\ IF isKeyExpired(k)
              THEN Content' = Without(Content, k) /\ expire' = Without(expire, k)
              ELSE Content' = Content /\ expire' = expire
<1>1. /\ Unlocked /\ UNCHANGED <<now, reader, log, base, applied, started, disk, up>>
      /\ IF isKeyExpired(k)
         THEN EngineDelete(k) /\ expire' = Without(expire, k)
         ELSE cache' = CacheAfterGet(k) /\ UNCHANGED <<list, expire>>
    BY DEF ExecuteGetOpOnKVDB, raft
<1>2. LogTyped' /\ FilesTyped'
    BY <1>1 DEF EngineInv, LogTyped, FilesTyped, disk
<1>3. ReadersInv'
    BY <1>1 DEF EngineInv, ReadersInv, Unlocked
<1>4. EngineTyped /\ CacheInv
    BY DEF EngineInv
<1>5. CASE isKeyExpired(k)
    <2>1. Shaped(list') /\ Content' = Without(Content, k) /\ IsContent(Content') /\ CacheInv'
        BY <1>1, <1>4, <1>5, EngineDeletes
    <2>2. IsExpiry(expire') /\ expire' = Without(expire, k)
        BY <1>1, <1>4, <1>5, ExpirySet DEF EngineTyped
    <2>3. EngineInv'
        BY <1>2, <1>3, <2>1, <2>2 DEF EngineInv, EngineTyped
    <2> QED  BY <1>5, <2>1, <2>2, <2>3
<1>6. CASE ~isKeyExpired(k)
    <2>1. cache' = CacheAfterGet(k) /\ list' = list /\ expire' = expire
        BY <1>1, <1>6
    <2>2. CacheInv'
        BY <1>4, <2>1, EngineGets
    <2>3. Content' = Content
        BY <2>1 DEF Content
    <2>4. EngineInv'
        BY <1>2, <1>3, <1>4, <2>1, <2>2, <2>3 DEF EngineInv, EngineTyped
    <2> QED  BY <1>6, <2>1, <2>3, <2>4
<1> QED  BY <1>5, <1>6

\* The steps of a new save.
LEMMA SaveBegins ==
    ASSUME NEW s, IsState(s)
    PROVE  /\ SaveRaftState(s) => \E S : saving' \in Seq(S) /\ \A step \in S : IsStep(step)
           /\ \A snapshot : IsSnapshot(snapshot) /\ Save(s, snapshot) =>
                 \E S : saving' \in Seq(S) /\ \A step \in S : IsStep(step)
<1>1. /\ IsStep([step |-> "clearRaftState"]) /\ IsStep([step |-> "clearSnapshot"])
      /\ IsStep([step |-> "flushRaftState", data |-> s])
    BY DEF IsStep
<1>2. ASSUME SaveRaftState(s)
      PROVE  \E S : saving' \in Seq(S) /\ \A step \in S : IsStep(step)
    <2> DEFINE S == {[step |-> "clearRaftState"], [step |-> "flushRaftState", data |-> s]}
    <2>1. saving' \in Seq(S)
        BY <1>2 DEF SaveRaftState
    <2>2. \A step \in S : IsStep(step)
        BY <1>1
    <2> QED  BY <2>1, <2>2
<1>3. ASSUME NEW snapshot, IsSnapshot(snapshot), Save(s, snapshot)
      PROVE  \E S : saving' \in Seq(S) /\ \A step \in S : IsStep(step)
    <2> DEFINE S == {[step |-> "clearRaftState"], [step |-> "clearSnapshot"],
                     [step |-> "flushRaftState", data |-> s],
                     [step |-> "flushSnapshot", data |-> snapshot]}
    <2>1. saving' \in Seq(S)
        BY <1>3 DEF Save
    <2>2. IsStep([step |-> "flushSnapshot", data |-> snapshot])
        BY <1>3 DEF IsStep
    <2>3. \A step \in S : IsStep(step)
        BY <1>1, <2>2
    <2> QED  BY <2>1, <2>3
<1> QED  BY <1>2, <1>3

LEMMA StartKeepsEngine ==
    ASSUME EngineInv, NEW operation \in Operations, NEW k \in Key,
           NEW expireAt \in Expiry[k] \cup {0}, Start(operation, k, expireAt)
    PROVE  EngineInv'
<1> DEFINE op == [operation |-> operation, key |-> k, expireAt |-> expireAt, id |-> started + 1]
<1>1. /\ started < Earlier + MaxOps /\ started' = started + 1 /\ log' = Append(log, op)
      /\ SaveRaftState([base |-> base, log |-> Append(log, op)])
      /\ UNCHANGED <<engine, expire, now, reader, base, applied, raftFile, snapFile, up>>
    BY DEF Start, ttl
<1>2. /\ log \in Seq(Op) /\ Len(log) \in Nat /\ base \in Nat /\ applied \in base .. base + Len(log)
      /\ started \in Nat /\ now \in Nat
    BY LenProperties DEF EngineInv, LogTyped
<1>3. op \in Op
    <2>1. expireAt \in Nat  BY StateMachineAssumption
    <2>2. started + 1 \in 1 .. Earlier + MaxOps  BY <1>1, <1>2, StateMachineAssumption
    <2> QED  BY <2>1, <2>2 DEF Op
<1> HIDE DEF op
<1>4. Append(log, op) \in Seq(Op) /\ Len(Append(log, op)) = Len(log) + 1
    BY <1>2, <1>3, AppendProperties
<1>5. LogTyped'
    BY <1>1, <1>2, <1>4 DEF LogTyped
<1>6. IsState([base |-> base, log |-> Append(log, op)])
    BY <1>2, <1>4 DEF IsState
<1>7. FilesTyped'
    <2>1. \E S : saving' \in Seq(S) /\ \A step \in S : IsStep(step)
        BY <1>1, <1>6, SaveBegins
    <2> QED  BY <1>1, <2>1 DEF EngineInv, FilesTyped
<1>8. Content' = Content
    BY <1>1 DEF Content, engine
<1>9. EngineTyped' /\ CacheInv' /\ ReadersInv'
    BY <1>1, <1>8 DEF EngineInv, EngineTyped, CacheInv, ReadersInv, engine
<1> QED  BY <1>5, <1>7, <1>9 DEF EngineInv

\* The dump of the list in a new snapshot.
LEMMA SnapshotDumps ==
    ASSUME EngineTyped
    PROVE  IsDump(SnapshotData.dump, Content) /\ IsSnapshot(SnapshotData)
<1>1. IsDump(dump_file(list), Content)
    BY DumpHolds, SkipListAssumption DEF EngineTyped, Content
<1>2. SnapshotData.dump = dump_file(list)
    BY DEF SnapshotData
<1> QED  BY <1>1, <1>2 DEF SnapshotData, IsSnapshot, EngineTyped

LEMMA SnapshotKeepsEngine ==
    ASSUME EngineInv, IfNeedToSendSnapShotCommand
    PROVE  EngineInv'
<1>1. UNCHANGED <<engine, expire, now, reader, applied, started, raftStateSize, raftFile, snapFile, up>>
    BY DEF IfNeedToSendSnapShotCommand, ttl
<1>2. CASE UNCHANGED <<base, log, saving>>
    <2>1. now' \in Nat  BY <1>1 DEF EngineInv, LogTyped
    <2> QED  BY <1>1, <1>2, <2>1, EngineKept DEF disk
<1>3. CASE /\ base' = applied /\ log' = LogAbove
           /\ Save([base |-> applied, log |-> LogAbove], SnapshotData)
    <2>1. /\ log \in Seq(Op) /\ Len(log) \in Nat /\ base \in Nat /\ applied \in base .. base + Len(log)
          /\ applied \in Nat /\ \A i \in 1 .. Len(log) : log[i] \in Op
        BY LenProperties, ElementOfSeq DEF EngineInv, LogTyped
    <2>2. LogAbove \in Seq(Op) /\ Len(LogAbove) \in Nat
        <3>1. \A i \in applied - base + 1 .. Len(log) : log[i] \in Op
            BY <2>1
        <3>2. LogAbove \in Seq(Op)
            BY <2>1, <3>1, SubSeqProperties DEF LogAbove
        <3> QED  BY <3>2, LenProperties
    <2>3. LogTyped'
        <3>1. applied \in applied .. applied + Len(LogAbove)
            BY <2>1, <2>2
        <3> QED  BY <1>1, <1>3, <2>1, <2>2, <3>1 DEF EngineInv, LogTyped
    <2>4. IsState([base |-> applied, log |-> LogAbove])
        BY <2>1, <2>2 DEF IsState
    <2>5. IsSnapshot(SnapshotData)
        BY SnapshotDumps DEF EngineInv
    <2>6. FilesTyped'
        <3>1. \E S : saving' \in Seq(S) /\ \A step \in S : IsStep(step)
            BY <1>3, <2>4, <2>5, SaveBegins
        <3> QED  BY <1>1, <3>1 DEF EngineInv, FilesTyped
    <2>7. Content' = Content
        BY <1>1 DEF Content, engine
    <2>8. EngineTyped' /\ CacheInv' /\ ReadersInv'
        BY <1>1, <2>7 DEF EngineInv, EngineTyped, CacheInv, ReadersInv, engine
    <2> QED  BY <2>3, <2>6, <2>8 DEF EngineInv
<1> QED  BY <1>2, <1>3 DEF IfNeedToSendSnapShotCommand

LEMMA SavesKeepEngine ==
    ASSUME EngineInv, Saves
    PROVE  EngineInv'
<1>1. /\ UNCHANGED <<engine, expire, now, reader, log, base, applied, started, up>>
      /\ PersisterStep
    BY DEF Saves, ttl, raft
<1>2. saving # <<>> /\ saving' = Tail(saving)
    BY <1>1 DEF PersisterStep, clearRaftState, clearSnapshot, FlushRaftState, FlushSnapshot, SaveStep
<1>3. PICK S : saving \in Seq(S) /\ \A step \in S : IsStep(step)
    BY DEF EngineInv, FilesTyped
<1>4. Head(saving) \in S /\ saving' \in Seq(S)
    BY <1>2, <1>3, HeadTailProperties
<1>5. raftFile' = raftFile \/ raftFile' = None \/ IsState(raftFile')
    BY <1>1, <1>3, <1>4 DEF PersisterStep, clearRaftState, clearSnapshot, FlushRaftState,
                            FlushSnapshot, SaveStep, IsStep
<1>6. snapFile' = snapFile \/ snapFile' = None \/ IsSnapshot(snapFile')
    BY <1>1, <1>3, <1>4 DEF PersisterStep, clearRaftState, clearSnapshot, FlushRaftState,
                            FlushSnapshot, SaveStep, IsStep
<1>7. FilesTyped'
    BY <1>3, <1>4, <1>5, <1>6 DEF EngineInv, FilesTyped
<1>8. Content' = Content
    BY <1>1 DEF Content, engine
<1>9. LogTyped' /\ EngineTyped' /\ CacheInv' /\ ReadersInv'
    BY <1>1, <1>8 DEF EngineInv, LogTyped, EngineTyped, CacheInv, ReadersInv, engine
<1> QED  BY <1>7, <1>9 DEF EngineInv

\* What one reader does concerns no other reader, and changes at most the cache.
LEMMA ReadKeepsEngine ==
    ASSUME EngineInv, NEW r \in Reader, NEW rd \in Reading,
           reader' = [reader EXCEPT ![r] = rd],
           rd.pc \in {"idle", "cache", "base"} => rd.value = None,
           rd.pc # "idle" => up = "up" /\ rd.key \in Key,
           rd.pc = "fill" => rd.key \in DOMAIN Content /\ rd.value = Content[rd.key],
           UNCHANGED <<list, expire, now, log, base, applied, started, disk, up>>, CacheInv'
    PROVE  EngineInv'
<1>1. LogTyped' /\ FilesTyped'
    BY DEF EngineInv, LogTyped, FilesTyped, disk
<1>2. Content' = Content
    BY DEF Content
<1>3. EngineTyped'
    BY <1>2 DEF EngineInv, EngineTyped
<1>4. reader' \in [Reader -> Reading] /\ reader'[r] = rd /\ \A q \in Reader \ {r} : reader'[q] = reader[q]
    BY DEF EngineInv, ReadersInv
<1>5. ReadersInv'
    BY <1>2, <1>4 DEF EngineInv, ReadersInv
<1> QED  BY <1>1, <1>3, <1>5 DEF EngineInv

LEMMA ReadsKeepEngine ==
    ASSUME EngineInv, NEW r \in Reader,
           \/ \E k \in Key : ReadBegins(r, k)
           \/ ReadsCache(r) \/ ReadsBase(r) \/ FillsCache(r) \/ ReadReturns(r)
    PROVE  EngineInv'
<1>1. /\ reader \in [Reader -> Reading] /\ EngineTyped /\ CacheInv
      /\ reader[r].pc \in {"idle", "cache", "base"} => reader[r].value = None
      /\ reader[r].pc # "idle" => up = "up" /\ reader[r].key \in Key
      /\ reader[r].pc = "fill" => /\ reader[r].key \in DOMAIN Content
                                  /\ reader[r].value = Content[reader[r].key]
    BY DEF EngineInv, ReadersInv
<1>2. reader[r] \in Reading
    BY <1>1
<1>3. ASSUME NEW pc \in {"cache", "base", "fill", "return"}, NEW v \in Value \cup {None}, Read(r, pc, v),
             reader[r].pc # "idle"
      PROVE  /\ [pc |-> pc, key |-> reader[r].key, value |-> v] \in Reading
             /\ reader' = [reader EXCEPT ![r] = [pc |-> pc, key |-> reader[r].key, value |-> v]]
    <2>1. /\ reader[r].key \in Key
          /\ reader[r] = [pc |-> reader[r].pc, key |-> reader[r].key, value |-> reader[r].value]
        BY <1>1, <1>2, <1>3 DEF Reading
    <2>2. [pc |-> pc, key |-> reader[r].key, value |-> v] \in Reading
        BY <2>1 DEF Reading
    <2>3. reader' = [reader EXCEPT ![r] = [reader[r] EXCEPT !.pc = pc, !.value = v]]
        BY <1>1, <1>3 DEF Read
    <2>4. [reader[r] EXCEPT !.pc = pc, !.value = v] = [pc |-> pc, key |-> reader[r].key, value |-> v]
        <3>1. PICK a, k, w : reader[r] = [pc |-> a, key |-> k, value |-> w]
            BY <2>1
        <3>2. [reader[r] EXCEPT !.pc = pc] = [pc |-> pc, key |-> k, value |-> w]
            BY <3>1
        <3>3. [[pc |-> pc, key |-> k, value |-> w] EXCEPT !.value = v] = [pc |-> pc, key |-> k, value |-> v]
            OBVIOUS
        <3>4. reader[r].key = k
            BY <3>1
        <3> QED  BY <3>2, <3>3, <3>4
    <2> QED  BY <2>2, <2>3, <2>4
<1>4. ASSUME NEW k \in Key, ReadBegins(r, k) PROVE EngineInv'
    <2> DEFINE rd == [pc |-> IF isKeyExpired(k) THEN "return" ELSE "cache", key |-> k, value |-> None]
    <2>1. /\ rd \in Reading /\ rd.value = None /\ rd.key \in Key /\ rd.pc # "fill" /\ up = "up"
          /\ reader' = [reader EXCEPT ![r] = rd]
        BY <1>4 DEF ReadBegins, ReadStep, Reading
    <2>2. UNCHANGED <<list, cache, expire, now, log, base, applied, started, disk, up>>
        BY <1>4 DEF ReadBegins, engine, ttl, raft
    <2>3. CacheInv'
        BY <1>1, <2>2 DEF CacheInv, Content
    <2> HIDE DEF rd
    <2> QED  BY <2>1, <2>2, <2>3, ReadKeepsEngine
<1>5. ASSUME ReadsCache(r) PROVE EngineInv'
    <2> DEFINE k == reader[r].key
    <2>1. /\ reader[r].pc = "cache" /\ k \in Key /\ up = "up"
          /\ UNCHANGED <<list, expire, now, log, base, applied, started, disk, up>>
        BY <1>1, <1>5 DEF ReadsCache, ReadStep, ttl, raft
    <2>2. CASE CacheHit(cache, k)
        <3>1. cache' = CacheTouch(cache, k) /\ Read(r, "return", CachedValue(cache, k))
            BY <1>5, <2>2 DEF ReadsCache
        <3>2. CachedValue(cache, k) \in Value /\ IsCache(cache') /\ Len(cache') = Len(cache)
              /\ Coherent(cache', Content)
            BY <1>1, <2>1, <2>2, <3>1, CacheTouches DEF CacheHit, CacheInv
        <3>3. CacheInv'
            BY <1>1, <2>1, <3>2 DEF CacheInv, Content
        <3> DEFINE rd == [pc |-> "return", key |-> k, value |-> CachedValue(cache, k)]
        <3>4. rd \in Reading /\ reader' = [reader EXCEPT ![r] = rd]
            BY <1>3, <2>1, <3>1, <3>2
        <3>5. rd.pc = "return" /\ rd.key \in Key
            BY <2>1
        <3> HIDE DEF rd
        <3> QED  BY <2>1, <3>3, <3>4, <3>5, ReadKeepsEngine
    <2>3. CASE ~CacheHit(cache, k)
        <3>1. cache' = cache /\ Read(r, "base", None)
            BY <1>5, <2>3 DEF ReadsCache
        <3>2. CacheInv'
            BY <1>1, <2>1, <3>1 DEF CacheInv, Content
        <3> DEFINE rd == [pc |-> "base", key |-> k, value |-> None]
        <3>3. rd \in Reading /\ reader' = [reader EXCEPT ![r] = rd]
            BY <1>3, <2>1, <3>1
        <3>4. rd.pc = "base" /\ rd.value = None /\ rd.key \in Key
            BY <2>1
        <3> HIDE DEF rd
        <3> QED  BY <2>1, <3>2, <3>3, <3>4, ReadKeepsEngine
    <2> QED  BY <2>2, <2>3
<1>6. ASSUME ReadsBase(r) PROVE EngineInv'
    <2> DEFINE k == reader[r].key
               found == search_element(list, k)
    <2>1. /\ reader[r].pc = "base" /\ k \in Key /\ up = "up"
          /\ UNCHANGED <<list, cache, expire, now, log, base, applied, started, disk, up>>
        BY <1>1, <1>6 DEF ReadsBase, ReadStep, engine, ttl, raft
    <2>2. CacheInv'
        BY <1>1, <2>1 DEF CacheInv, Content
    <2>3. /\ found = IF k \in DOMAIN Content THEN Content[k] ELSE Nil
          /\ k \in DOMAIN Content => Content[k] \in Value /\ Content[k] # Nil
        <3>1. k \in Nat  BY <2>1, StateMachineAssumption
        <3> QED  BY <1>1, <2>1, <3>1, SearchFinds, SkipListAssumption, GetFinds DEF EngineTyped, Content
    <2>4. CASE found = Nil
        <3>1. Read(r, "return", None)
            BY <1>6, <2>4 DEF ReadsBase
        <3> DEFINE rd == [pc |-> "return", key |-> k, value |-> None]
        <3>2. rd \in Reading /\ reader' = [reader EXCEPT ![r] = rd]
            BY <1>3, <2>1, <3>1
        <3>3. rd.pc = "return" /\ rd.key \in Key
            BY <2>1
        <3> HIDE DEF rd
        <3> QED  BY <2>1, <2>2, <3>2, <3>3, ReadKeepsEngine
    <2>5. CASE found # Nil
        <3>1. Read(r, "fill", found) /\ k \in DOMAIN Content /\ found = Content[k] /\ found \in Value
            BY <1>6, <2>3, <2>5 DEF ReadsBase
        <3> DEFINE rd == [pc |-> "fill", key |-> k, value |-> found]
        <3> HIDE DEF found
        <3>2. rd \in Reading /\ reader' = [reader EXCEPT ![r] = rd]
            BY <1>3, <2>1, <3>1
        <3>3. /\ rd.pc = "fill" /\ rd.key \in Key /\ rd.key \in DOMAIN Content
              /\ rd.value = Content[rd.key]
            BY <2>1, <3>1
        <3> HIDE DEF rd
        <3> QED  BY <2>1, <2>2, <3>2, <3>3, ReadKeepsEngine
    <2> QED  BY <2>4, <2>5
<1>7. ASSUME FillsCache(r) PROVE EngineInv'
    <2> DEFINE k == reader[r].key
               v == reader[r].value
    <2>1. /\ reader[r].pc = "fill" /\ k \in Key /\ up = "up" /\ k \in DOMAIN Content /\ v = Content[k]
          /\ cache' = CachePut(cache, k, v) /\ Read(r, "return", v)
          /\ UNCHANGED <<list, expire, now, log, base, applied, started, disk, up>>
        BY <1>1, <1>7 DEF FillsCache, ReadStep, ttl, raft
    <2>2. v \in Value
        BY <1>1, <2>1 DEF EngineTyped, IsContent
    <2>3. Content' = Content
        BY <2>1 DEF Content
    <2> DEFINE rd == [pc |-> "return", key |-> k, value |-> v]
    <2>4. rd \in Reading /\ reader' = [reader EXCEPT ![r] = rd]
        BY <1>3, <2>1, <2>2
    <2>5. rd.pc = "return" /\ rd.key \in Key
        BY <2>1
    <2> HIDE DEF rd, k, v
    <2>6. CacheInv'
        BY <1>1, <2>1, <2>2, <2>3, CachePuts, StateMachineAssumption DEF CacheInv
    <2> QED  BY <2>1, <2>4, <2>5, <2>6, ReadKeepsEngine
<1>8. ASSUME ReadReturns(r) PROVE EngineInv'
    <2> DEFINE rd == [pc |-> "idle", key |-> None, value |-> None]
    <2>1. rd \in Reading /\ rd.pc = "idle" /\ rd.value = None /\ reader' = [reader EXCEPT ![r] = rd]
        BY <1>8 DEF ReadReturns, Reading
    <2>2. UNCHANGED <<list, cache, expire, now, log, base, applied, started, disk, up>>
        BY <1>8 DEF ReadReturns, engine, ttl, raft
    <2>3. CacheInv'
        BY <1>1, <2>2 DEF CacheInv, Content
    <2> HIDE DEF rd
    <2> QED  BY <2>1, <2>2, <2>3, ReadKeepsEngine
<1> QED  BY <1>4, <1>5, <1>6, <1>7, <1>8

\* A crash leaves an empty engine, and in the files what was there or a torn file.
LEMMA CrashKeepsEngine ==
    ASSUME EngineInv, Crash
    PROVE  EngineInv'
<1>1. /\ list' = EmptyList /\ cache' = <<>> /\ expire' = NoKeys /\ reader' = IdleReaders
      /\ log' = <<>> /\ base' = 0 /\ applied' = 0 /\ UNCHANGED <<now, started>>
      /\ PersisterCrash
    BY DEF Crash
<1>2. LogTyped'
    <2>1. <<>> \in Seq(Op) /\ Len(<<>>) = 0
        BY EmptySeq
    <2> QED  BY <1>1, <2>1 DEF EngineInv, LogTyped
<1>3. FilesTyped'
    <2>1. raftFile' \in {raftFile, Torn} /\ snapFile' \in {snapFile, Torn} /\ saving' = <<>>
        BY <1>1 DEF PersisterCrash
    <2>2. saving' \in Seq({}) /\ \A step \in {} : IsStep(step)
        BY <2>1, EmptySeq
    <2> QED  BY <2>1, <2>2 DEF EngineInv, FilesTyped
<1>4. EngineTyped' /\ CacheInv'
    BY <1>1, EmptyEngine
<1>5. ReadersInv'
    <2>1. \A r \in Reader : reader'[r] = [pc |-> "idle", key |-> None, value |-> None]
        BY <1>1 DEF IdleReaders
    <2>2. reader' \in [Reader -> Reading]
        BY <1>1 DEF IdleReaders, Reading
    <2> QED  BY <2>1, <2>2 DEF ReadersInv
<1> QED  BY <1>2, <1>3, <1>4, <1>5 DEF EngineInv

\* The server loads its snapshot: the engine has the map that was dumped.
LEMMA RestartKeepsEngine ==
    ASSUME EngineInv, Restart
    PROVE  /\ EngineInv'
           /\ up' = "up" => /\ raftFile \notin {None, Torn} => base' = raftFile.base
                            /\ snapFile \notin {None, Torn} =>
                                  /\ IsDump(snapFile.dump, Content') /\ IsContent(Content')
                                  /\ expire' = snapFile.expire
<1>1. up = "down" /\ UNCHANGED <<now, reader, started>> /\ now \in Nat /\ started \in Nat
    BY DEF Restart, EngineInv, LogTyped
<1>2. /\ reader' \in [Reader -> Reading]
      /\ \A r \in Reader : reader'[r].pc = "idle" /\ reader'[r].value = None
    BY <1>1 DEF EngineInv, ReadersInv
<1>3. ReadersInv'
    BY <1>2 DEF ReadersInv
<1>4. CASE raftFile = Torn \/ snapFile = Torn
    <2>1. up' = "broken" /\ UNCHANGED <<engine, ttl, log, base, applied, disk>>
        BY <1>4 DEF Restart
    <2>2. LogTyped' /\ FilesTyped'
        BY <1>1, <2>1 DEF EngineInv, LogTyped, FilesTyped, disk
    <2>3. Content' = Content
        BY <2>1 DEF Content, engine
    <2>4. EngineTyped' /\ CacheInv'
        BY <2>1, <2>3 DEF EngineInv, EngineTyped, CacheInv, engine, ttl
    <2> QED  BY <1>3, <2>1, <2>2, <2>4 DEF EngineInv
<1>5. CASE ~(raftFile = Torn \/ snapFile = Torn)
    <2>1. /\ UNCHANGED <<saving, raftFile, snapFile>>
          /\ log' = IF raftFile = None THEN <<>> ELSE raftFile.log
          /\ base' = IF raftFile = None THEN 0 ELSE raftFile.base
          /\ applied' = base' /\ ReadSnapShotToInstall
        BY <1>5 DEF Restart, PersisterOpens
    <2>2. FilesTyped'
        BY <2>1 DEF EngineInv, FilesTyped
    <2>3. log' \in Seq(Op) /\ base' \in Nat
        <3>1. CASE raftFile = None
            BY <2>1, <3>1, EmptySeq
        <3>2. CASE raftFile # None
            BY <1>5, <2>1, <3>2 DEF EngineInv, FilesTyped, IsState
        <3> QED  BY <3>1, <3>2
    <2>4. LogTyped'
        <3>1. Len(log') \in Nat  BY <2>3, LenProperties
        <3>2. applied' \in base' .. base' + Len(log')  BY <2>1, <2>3, <3>1
        <3> QED  BY <1>1, <2>3, <3>2 DEF LogTyped
    <2>5. CASE snapFile = None
        <3>1. UNCHANGED <<engine, ttl>>
            BY <2>1, <2>5 DEF ReadSnapShotToInstall
        <3>2. Content' = Content
            BY <3>1 DEF Content, engine
        <3>3. EngineTyped' /\ CacheInv'
            BY <3>1, <3>2 DEF EngineInv, EngineTyped, CacheInv, engine, ttl
        <3> QED  BY <1>3, <2>1, <2>2, <2>4, <2>5, <3>3 DEF EngineInv
    <2>6. CASE snapFile # None
        <3>1. IsSnapshot(snapFile)
            BY <1>5, <2>6 DEF EngineInv, FilesTyped
        <3>2. PICK b, d, n, e, map :
                 /\ snapFile = [index |-> b, dump |-> d, lastRequest |-> n, expire |-> e]
                 /\ IsDump(d, map) /\ IsContent(map) /\ IsExpiry(e)
            BY <3>1 DEF IsSnapshot
        <3>3. snapFile.dump = d /\ snapFile.expire = e
            BY <3>2
        <3>4. PICK levels \in [1 .. Len(d.keys) -> Levels] :
                 list' = load_file(d, levels) /\ cache' = <<>>
            BY <2>1, <2>6, <3>3 DEF ReadSnapShotToInstall, EngineRestore
        <3>5. expire' = e
            BY <2>1, <2>6, <3>3 DEF ReadSnapShotToInstall
        <3>6. Shaped(list') /\ Content' = map
            BY <3>2, <3>4, LoadShaped, SkipListAssumption DEF Content
        <3>7. EngineTyped'
            BY <3>2, <3>5, <3>6 DEF EngineTyped
        <3>8. CacheInv'
            BY <3>4, EmptySeq, StateMachineAssumption DEF CacheInv, IsCache, Coherent
        <3> QED  BY <1>3, <1>5, <2>1, <2>2, <2>4, <2>6, <3>2, <3>3, <3>5, <3>6, <3>7, <3>8 DEF EngineInv
    <2> QED  BY <2>5, <2>6
<1> QED  BY <1>4, <1>5

\* Every step keeps the invariant.
LEMMA EngineNext == EngineInv /\ [Next]_vars => EngineInv'
<1> SUFFICES ASSUME EngineInv, [Next]_vars PROVE EngineInv'
    OBVIOUS
<1>1. now \in Nat
    BY DEF EngineInv, LogTyped
<1>2. CASE UNCHANGED vars
    BY <1>1, <1>2, EngineKept DEF vars, raft, ttl
<1>3. ASSUME NEW operation \in Operations, NEW k \in Key, NEW expireAt \in Expiry[k] \cup {0},
             Start(operation, k, expireAt)
      PROVE  EngineInv'
    BY <1>3, StartKeepsEngine
<1>4. CASE ExecutePutOpOnKVDB
    BY <1>4, PutKeepsEngine
<1>5. CASE ExecuteAppendOpOnKVDB
    BY <1>5, AppendKeepsEngine
<1>6. CASE PassesGet
    BY <1>6, PassesGetKeepsEngine
<1>6a. ASSUME NEW k \in Key, ExecuteGetOpOnKVDB(k) PROVE EngineInv'
    BY <1>6a, GetKeepsEngine
<1>7. CASE IfNeedToSendSnapShotCommand
    BY <1>7, SnapshotKeepsEngine
<1>8. CASE Saves
    BY <1>8, SavesKeepEngine
<1>9. ASSUME NEW r \in Reader, \/ \E k \in Key : ReadBegins(r, k)
                               \/ ReadsCache(r) \/ ReadsBase(r) \/ FillsCache(r) \/ ReadReturns(r)
      PROVE  EngineInv'
    BY <1>9, ReadsKeepEngine
<1>10. CASE Tick
    BY <1>1, <1>10, EngineKept DEF Tick, raft, ttl
<1>11. CASE Crash
    BY <1>11, CrashKeepsEngine
<1>12. CASE Restart
    BY <1>12, RestartKeepsEngine
<1> QED  BY <1>2, <1>3, <1>4, <1>5, <1>6, <1>6a, <1>7, <1>8, <1>9, <1>10, <1>11, <1>12 DEF Next

\* The cached engine through any calls, reads that interleave, crashes and restarts.
THEOREM EngineInvariant == Spec => []EngineInv
<1>1. Init => EngineInv  BY EngineInit
<1>2. EngineInv /\ [Next]_vars => EngineInv'  BY EngineNext
<1> QED  BY <1>1, <1>2, PTL DEF Spec

\* skipList.h: after any inserts, deletes and reloads, and whatever levels the coin flips
\* give, the list is sorted on every level, and its level and its count are those of its nodes.
THEOREM SkipListAlwaysSound == Spec => []SkipListSound
<1>1. Spec => []EngineInv  BY EngineInvariant
<1>2. EngineInv => SkipListSound
    BY ShapedIsSound, SkipListAssumption DEF EngineInv, EngineTyped, SkipListSound
<1> QED  BY <1>1, <1>2, PTL

\* CachedKVEngine: the cache holds nothing that differs from the engine below it, no key
\* twice and no more than its capacity, although a read fills it after it has let go of the
\* engine's lock.
THEOREM CacheAlwaysCoherent == Spec => []CacheCoherent
<1>1. Spec => []EngineInv  BY EngineInvariant
<1>2. EngineInv => CacheCoherent
    <2> SUFFICES ASSUME EngineInv PROVE CacheCoherent
        OBVIOUS
    <2> DEFINE n == Len(cache)
               key(i) == cache[i].key
    <2>1. /\ n \in Nat /\ DOMAIN cache = 1 .. n /\ n <= CacheCapacity
          /\ \A i, j \in 1 .. n : cache[i].key = cache[j].key => i = j
          /\ \A i \in 1 .. n : cache[i].key \in DOMAIN Content /\ cache[i].value = Content[cache[i].key]
        BY LenProperties DEF EngineInv, CacheInv, IsCache, Coherent
    <2>2. Cardinality(CachedKeys(cache)) = n
        <3> DEFINE f == [i \in 1 .. n |-> cache[i].key]
        <3>1. f \in Bijection(1 .. n, CachedKeys(cache))
            <4>1. CachedKeys(cache) = {cache[i].key : i \in 1 .. n}
                BY <2>1 DEF CachedKeys
            <4> HIDE DEF n
            <4> QED  BY <2>1, <4>1 DEF Bijection, Injection, Surjection, IsInjective
        <3>2. ExistsBijection(1 .. n, CachedKeys(cache))
            BY <3>1 DEF ExistsBijection
        <3> HIDE DEF n
        <3> QED  BY <2>1, <3>2, FS_CountingElements
    <2> QED  BY <2>1, <2>2 DEF CacheCoherent
<1> QED  BY <1>1, <1>2, PTL
-----------------------------------------------------------------------------
(***************************************************************************)
(* Expired keys, and the promise of kv_engine.h.                           *)
(***************************************************************************)

\* What was not visible and has not been written stays invisible.
LEMMA NotVisibleKept ==
    ASSUME NEW k \in Key, up = "up", Visible(k)', IsExpiry(expire), now \in Nat, now' \in Nat, now <= now',
           k \in DOMAIN Content' => k \in DOMAIN Content,
           k \in DOMAIN expire => k \in DOMAIN expire' /\ expire'[k] = expire[k]
    PROVE  Visible(k)
<1>1. k \in DOMAIN Content /\ ~isKeyExpired(k)'
    BY DEF Visible
<1>2. ASSUME isKeyExpired(k) PROVE FALSE
    <2>1. k \in DOMAIN expire /\ now > expire[k] /\ expire[k] \in Nat
        BY <1>2 DEF isKeyExpired, IsExpiry
    <2>2. k \in DOMAIN expire' /\ now' > expire'[k]
        BY <2>1
    <2> QED  BY <1>1, <2>2 DEF isKeyExpired
<1> QED  BY <1>1, <1>2 DEF Visible

\* ExecuteAppendOpOnKVDB deletes an expired key before it appends to it: of an expired value
\* nothing is seen again, whatever reads, snapshots, crashes and restarts come between.
THEOREM ExpiredNeverSeenAgain == Spec => ExpiredStaysGone
<1>1. Spec => []EngineInv  BY EngineInvariant
<1>2. ASSUME EngineInv, [Next]_vars, NEW k \in Key, up = "up", ~Visible(k), Visible(k)'
      PROVE  Len(Content'[k]) = 1
    <2>1. IsExpiry(expire) /\ now \in Nat
        BY <1>2 DEF EngineInv, EngineTyped, LogTyped
    <2>2. ASSUME UNCHANGED <<Content, expire>>, now' \in Nat, now <= now' PROVE FALSE
        BY <1>2, <2>1, <2>2, NotVisibleKept
    <2>3. ASSUME UNCHANGED <<list, expire, now>> PROVE FALSE
        <3>1. Content' = Content  BY <2>3 DEF Content
        <3> QED  BY <2>1, <2>2, <2>3, <3>1
    <2>4. CASE UNCHANGED vars
        BY <2>3, <2>4 DEF vars, engine, ttl
    <2>5. ASSUME NEW operation \in Operations, NEW x \in Key, NEW expireAt \in Expiry[x] \cup {0},
                 Start(operation, x, expireAt)
          PROVE  FALSE
        BY <2>3, <2>5 DEF Start, engine, ttl
    <2>6. CASE ExecutePutOpOnKVDB
        <3>1. now' = now
            BY <2>6 DEF ExecutePutOpOnKVDB, Executes
        <3>2. PICK op \in Op : /\ Content' = WithKey(Content, op.key, <<op.id>>)
                               /\ expire' = setKeyExpire(expire, op.key, op.expireAt)
            BY <1>2, <2>6, PutKeepsEngine
        <3>3. CASE k = op.key
            BY <3>2, <3>3 DEF WithKey
        <3>4. CASE k # op.key
            <4>1. /\ k \in DOMAIN Content' => k \in DOMAIN Content
                  /\ k \in DOMAIN expire => k \in DOMAIN expire' /\ expire'[k] = expire[k]
                BY <3>2, <3>4 DEF WithKey, Without, setKeyExpire
            <4> QED  BY <1>2, <2>1, <3>1, <4>1, NotVisibleKept
        <3> QED  BY <3>3, <3>4
    <2>7. CASE ExecuteAppendOpOnKVDB
        <3>1. now' = now
            BY <2>7 DEF ExecuteAppendOpOnKVDB, Executes
        <3>2. PICK op \in Op : /\ Content' = WithKey(Content, op.key, Old(op.key) \o <<op.id>>)
                               /\ expire' = setKeyExpire(expire, op.key, op.expireAt)
            BY <1>2, <2>7, AppendKeepsEngine
        <3>3. CASE k = op.key
            <4>1. Old(k) = <<>>
                BY <1>2 DEF Visible, Old
            <4>2. Content'[k] = <<>> \o <<op.id>>
                BY <3>2, <3>3, <4>1 DEF WithKey
            <4> QED  BY <4>2
        <3>4. CASE k # op.key
            <4>1. /\ k \in DOMAIN Content' => k \in DOMAIN Content
                  /\ k \in DOMAIN expire => k \in DOMAIN expire' /\ expire'[k] = expire[k]
                BY <3>2, <3>4 DEF WithKey, Without, setKeyExpire
            <4> QED  BY <1>2, <2>1, <3>1, <4>1, NotVisibleKept
        <3> QED  BY <3>3, <3>4
    <2>8. CASE PassesGet
        BY <2>3, <2>8 DEF PassesGet, Executes, engine, ttl
    <2>8a. ASSUME NEW x \in Key, ExecuteGetOpOnKVDB(x) PROVE Len(Content'[k]) = 1
        <3>1. now' = now
            BY <2>8a DEF ExecuteGetOpOnKVDB
        <3>2. IF isKeyExpired(x)
              THEN Content' = Without(Content, x) /\ expire' = Without(expire, x)
              ELSE Content' = Content /\ expire' = expire
            BY <1>2, <2>8a, GetKeepsEngine
        <3>3. CASE isKeyExpired(x) /\ k = x
            <4>1. k \notin DOMAIN Content'
                BY <3>2, <3>3 DEF Without
            <4> QED  BY <1>2, <4>1 DEF Visible
        <3>4. CASE ~isKeyExpired(x) \/ k # x
            <4>1. /\ k \in DOMAIN Content' => k \in DOMAIN Content
                  /\ k \in DOMAIN expire => k \in DOMAIN expire' /\ expire'[k] = expire[k]
                BY <3>2, <3>4 DEF Without
            <4> QED  BY <1>2, <2>1, <3>1, <4>1, NotVisibleKept
        <3> QED  BY <3>3, <3>4
    <2>9. CASE IfNeedToSendSnapShotCommand
        BY <2>3, <2>9 DEF IfNeedToSendSnapShotCommand, engine, ttl
    <2>10. CASE Saves
        BY <2>3, <2>10 DEF Saves, engine, ttl
    <2>11. ASSUME NEW r \in Reader, \/ \E x \in Key : ReadBegins(r, x)
                                    \/ ReadsCache(r) \/ ReadsBase(r) \/ FillsCache(r) \/ ReadReturns(r)
           PROVE  FALSE
        BY <2>3, <2>11 DEF ReadBegins, ReadsCache, ReadsBase, FillsCache, ReadReturns, engine, ttl
    <2>12. CASE Tick
        <3>1. now' = now + 1 /\ list' = list /\ expire' = expire
            BY <2>12 DEF Tick, engine, ttl
        <3>2. Content' = Content  BY <3>1 DEF Content
        <3> QED  BY <2>1, <2>2, <3>1, <3>2
    <2>13. CASE Crash
        BY <1>2, <2>13 DEF Crash, Visible
    <2>14. CASE Restart
        BY <1>2, <2>14 DEF Restart
    <2> QED  BY <1>2, <2>4, <2>5, <2>6, <2>7, <2>8, <2>8a, <2>9, <2>10, <2>11, <2>12, <2>13, <2>14 DEF Next
<1>3. EngineInv /\ [Next]_vars =>
        [\A k \in Key : (up = "up" /\ ~Visible(k) /\ Visible(k)') => Len(Content'[k]) = 1]_vars
    BY <1>2
<1> QED  BY <1>1, <1>3, PTL DEF Spec, ExpiredStaysGone

\* What the reads in progress will return.
Answer == [r \in Reader |-> reader[r].value]

\* The content of a list as a map.
LEMMA ContentIsMap ==
    ASSUME NEW l, Shaped(l), IsContent(l.value)
    PROVE  l.value \in [DOMAIN l.value -> Value] /\ Engine!IsContent(l.value)
<1>1. l.value = [k \in DOMAIN l.value |-> l.value[k]]
    BY DEF Shaped
<1>2. DOMAIN l.value \subseteq Key /\ \A k \in DOMAIN l.value : l.value[k] \in Value
    BY DEF IsContent
<1>3. l.value \in [DOMAIN l.value -> Value]
    BY <1>1, <1>2
<1> QED  BY <1>2, <1>3 DEF Engine!IsContent

\* A step of the interface that leaves the map, the answers and the process alone.
LEMMA Stutters ==
    ASSUME UNCHANGED <<Content, Answer, up>>
    PROVE  UNCHANGED Engine!vars
BY DEF Engine!vars, Answer

\* Of the calls that a read makes, the one that finds the value in the cache and the one
\* that looks it up in the list are the moments of which it returns the value.
LEMMA ReadsRefine ==
    ASSUME EngineInv, NEW r \in Reader,
           \/ \E k \in Key : ReadBegins(r, k)
           \/ ReadsCache(r) \/ ReadsBase(r) \/ FillsCache(r) \/ ReadReturns(r)
    PROVE  [Engine!Next]_(Engine!vars)
<1>1. /\ reader \in [Reader -> Reading] /\ EngineTyped /\ CacheInv
      /\ reader[r].pc \in {"idle", "cache", "base"} => reader[r].value = None
      /\ reader[r].pc # "idle" => up = "up" /\ reader[r].key \in Key
      /\ reader[r].pc = "fill" => /\ reader[r].key \in DOMAIN Content
                                  /\ reader[r].value = Content[reader[r].key]
    BY DEF EngineInv, ReadersInv
<1>2. up' = up /\ Content' = Content
    BY DEF ReadBegins, ReadsCache, ReadsBase, FillsCache, ReadReturns, engine, Content
<1>3. ASSUME NEW rd, reader' = [reader EXCEPT ![r] = rd]
      PROVE  Answer' = [Answer EXCEPT ![r] = rd.value]
    BY <1>1, <1>3 DEF Answer
<1>4. ASSUME NEW pc, NEW v, Read(r, pc, v)
      PROVE  Answer' = [Answer EXCEPT ![r] = v]
    <2> DEFINE rd == [reader[r] EXCEPT !.pc = pc, !.value = v]
    <2>1. reader' = [reader EXCEPT ![r] = rd]
        BY <1>1, <1>4 DEF Read
    <2>2. PICK a, k, w : reader[r] = [pc |-> a, key |-> k, value |-> w]
        BY <1>1 DEF Reading
    <2>3. rd.value = v
        BY <2>2
    <2> HIDE DEF rd
    <2> QED  BY <2>1, <2>3, <1>3
<1>5. Answer[r] = reader[r].value /\ Answer = [Answer EXCEPT ![r] = reader[r].value]
    BY DEF Answer
<1>6. ASSUME Answer' = [Answer EXCEPT ![r] = reader[r].value]
      PROVE  UNCHANGED Engine!vars
    <2>1. Answer' = Answer  BY <1>5, <1>6
    <2> QED  BY <1>2, <2>1, Stutters
<1>7. ASSUME NEW k \in Key, up = "up",
             Answer' = [Answer EXCEPT ![r] = IF k \in DOMAIN Content THEN Content[k] ELSE None]
      PROVE  Engine!Next
    <2>1. Engine!Get(r, k)
        BY <1>2, <1>7 DEF Engine!Get, Engine!Usable, Answer
    <2> QED  BY <2>1 DEF Engine!Next
<1>8. ASSUME NEW k \in Key, ReadBegins(r, k) PROVE UNCHANGED Engine!vars
    <2> DEFINE rd == [pc |-> IF isKeyExpired(k) THEN "return" ELSE "cache", key |-> k, value |-> None]
    <2>1. rd.value = reader[r].value /\ reader' = [reader EXCEPT ![r] = rd]
        BY <1>1, <1>8 DEF ReadBegins, ReadStep
    <2> HIDE DEF rd
    <2>2. Answer' = [Answer EXCEPT ![r] = reader[r].value]
        BY <2>1, <1>3
    <2> QED  BY <2>2, <1>6
<1>9. ASSUME ReadsCache(r) PROVE [Engine!Next]_(Engine!vars)
    <2> DEFINE k == reader[r].key
    <2>1. reader[r].pc = "cache" /\ k \in Key /\ up = "up" /\ reader[r].value = None
        BY <1>1, <1>9 DEF ReadsCache, ReadStep
    <2>2. CASE CacheHit(cache, k)
        <3>1. Read(r, "return", CachedValue(cache, k))
            BY <1>9, <2>2 DEF ReadsCache
        <3>2. k \in DOMAIN Content /\ CachedValue(cache, k) = Content[k]
            BY <1>1, <2>1, <2>2, CacheTouches DEF CacheHit, CacheInv
        <3>3. Answer' = [Answer EXCEPT ![r] = IF k \in DOMAIN Content THEN Content[k] ELSE None]
            BY <1>4, <3>1, <3>2
        <3> QED  BY <1>7, <2>1, <3>3
    <2>3. CASE ~CacheHit(cache, k)
        <3>1. Read(r, "base", reader[r].value)
            BY <1>9, <2>1, <2>3 DEF ReadsCache
        <3> QED  BY <1>4, <1>6, <3>1
    <2> QED  BY <2>2, <2>3
<1>10. ASSUME ReadsBase(r) PROVE [Engine!Next]_(Engine!vars)
    <2> DEFINE k == reader[r].key
               found == search_element(list, k)
    <2>1. reader[r].pc = "base" /\ k \in Key /\ up = "up"
        BY <1>1, <1>10 DEF ReadsBase, ReadStep
    <2>2. /\ found = IF k \in DOMAIN Content THEN Content[k] ELSE Nil
          /\ k \in DOMAIN Content => Content[k] # Nil
        <3>1. k \in Nat  BY <2>1, StateMachineAssumption
        <3> QED  BY <1>1, <2>1, <3>1, SearchFinds, SkipListAssumption, GetFinds DEF EngineTyped, Content
    <2>3. \E pc : Read(r, pc, IF k \in DOMAIN Content THEN Content[k] ELSE None)
        BY <1>10, <2>2 DEF ReadsBase
    <2>4. Answer' = [Answer EXCEPT ![r] = IF k \in DOMAIN Content THEN Content[k] ELSE None]
        BY <1>4, <2>3
    <2> QED  BY <1>7, <2>1, <2>4
<1>11. ASSUME FillsCache(r) PROVE UNCHANGED Engine!vars
    <2>1. Read(r, "return", reader[r].value)
        BY <1>11 DEF FillsCache
    <2> QED  BY <1>4, <1>6, <2>1
<1>12. ASSUME ReadReturns(r) PROVE Engine!Next
    <2> DEFINE rd == [pc |-> "idle", key |-> None, value |-> None]
    <2>1. reader' = [reader EXCEPT ![r] = rd] /\ rd.value = None
        BY <1>12 DEF ReadReturns
    <2> HIDE DEF rd
    <2>2. Answer' = [Answer EXCEPT ![r] = None]
        BY <2>1, <1>3
    <2>3. Answer' = [q \in Reader |-> IF q \in {r} THEN None ELSE Answer[q]]
        BY <2>2 DEF Answer
    <2>4. Engine!Forget({r})
        BY <1>2, <2>3 DEF Engine!Forget, Answer
    <2>5. {r} \in SUBSET Reader
        OBVIOUS
    <2> QED  BY <2>4, <2>5 DEF Engine!Next
<1> QED  BY <1>8, <1>9, <1>10, <1>11, <1>12

LEMMA RefinementInit == Init => Engine!Init
<1> SUFFICES ASSUME Init PROVE Engine!Init
    OBVIOUS
<1>1. list = EmptyList /\ reader = IdleReaders /\ up = "down"
    BY DEF Init
<1>2. Content = [n \in {} |-> Nil]
    BY <1>1, EmptyShaped, SkipListAssumption DEF Content
<1>3. Content = [k \in {} |-> None] /\ Content = NoKeys
    BY <1>2 DEF NoKeys
<1>4. \A r \in Reader : reader[r].value = None
    BY <1>1 DEF IdleReaders
<1> QED  BY <1>3, <1>4 DEF Engine!Init

LEMMA RefinementStep == EngineInv /\ EngineInv' /\ [Next]_vars => [Engine!Next]_(Engine!vars)
<1> SUFFICES ASSUME EngineInv, EngineInv', [Next]_vars PROVE [Engine!Next]_(Engine!vars)
    OBVIOUS
<1>1. ASSUME UNCHANGED <<list, reader, up>> PROVE UNCHANGED Engine!vars
    <2>1. Content' = Content /\ Answer' = Answer /\ up' = up
        BY <1>1 DEF Content, Answer
    <2> QED  BY <2>1, Stutters
<1>2. CASE UNCHANGED vars
    BY <1>1, <1>2 DEF vars, engine
<1>3. ASSUME NEW operation \in Operations, NEW k \in Key, NEW expireAt \in Expiry[k] \cup {0},
             Start(operation, k, expireAt)
      PROVE  UNCHANGED Engine!vars
    BY <1>1, <1>3 DEF Start, engine
<1>4. Content' \in [DOMAIN Content' -> Value] /\ Engine!IsContent(Content')
    <2>1. Shaped(list') /\ IsContent(list'.value)
        BY DEF EngineInv, EngineTyped, Content
    <2> QED  BY <2>1, ContentIsMap DEF Content
<1>5. ASSUME NEW k \in Key, NEW v, Content' = WithKey(Content, k, v),
             UNCHANGED <<reader, up>>, up = "up"
      PROVE  Engine!Next
    <2>1. /\ DOMAIN Content' = DOMAIN Content \cup {k}
          /\ \A x \in DOMAIN Content \ {k} : Content'[x] = Content[x]
        BY <1>5 DEF WithKey
    <2>2. Content' \in [DOMAIN Content \cup {k} -> Value]
        BY <1>4, <2>1
    <2>3. Engine!Put(k)
        BY <1>5, <2>1, <2>2 DEF Engine!Put, Engine!Usable
    <2> QED  BY <2>3 DEF Engine!Next
<1>6. CASE ExecutePutOpOnKVDB
    <2>1. UNCHANGED <<reader, up>> /\ up = "up"
        BY <1>6 DEF ExecutePutOpOnKVDB, Executes
    <2>2. PICK op \in Op : Content' = WithKey(Content, op.key, <<op.id>>)
        BY <1>6, PutKeepsEngine
    <2>3. op.key \in Key  BY DEF Op
    <2> QED  BY <1>5, <2>1, <2>2, <2>3
<1>7. CASE ExecuteAppendOpOnKVDB
    <2>1. UNCHANGED <<reader, up>> /\ up = "up"
        BY <1>7 DEF ExecuteAppendOpOnKVDB, Executes
    <2>2. PICK op \in Op : Content' = WithKey(Content, op.key, Old(op.key) \o <<op.id>>)
        BY <1>7, AppendKeepsEngine
    <2>3. op.key \in Key  BY DEF Op
    <2> QED  BY <1>5, <2>1, <2>2, <2>3
<1>8. CASE PassesGet
    BY <1>1, <1>8 DEF PassesGet, Executes, engine
<1>8a. ASSUME NEW k \in Key, ExecuteGetOpOnKVDB(k) PROVE [Engine!Next]_(Engine!vars)
    <2>1. UNCHANGED <<reader, up>> /\ up = "up"
        BY <1>8a DEF ExecuteGetOpOnKVDB
    <2>2. IF isKeyExpired(k) THEN Content' = Without(Content, k) ELSE Content' = Content
        BY <1>8a, GetKeepsEngine
    <2>3. CASE isKeyExpired(k)
        <3>1. Content' = Engine!On(Content, DOMAIN Content \ {k})
            <4>1. (DOMAIN Content \ {k}) \cap DOMAIN Content = DOMAIN Content \ {k}
                OBVIOUS
            <4> QED  BY <2>2, <2>3, <4>1 DEF Without, Engine!On
        <3>2. Engine!Delete(k)
            BY <2>1, <3>1 DEF Engine!Delete, Engine!Usable
        <3> QED  BY <3>2 DEF Engine!Next
    <2>4. CASE ~isKeyExpired(k)
        <3>1. Content' = Content /\ Answer' = Answer
            BY <2>1, <2>2, <2>4 DEF Answer
        <3> QED  BY <2>1, <3>1, Stutters
    <2> QED  BY <2>3, <2>4
<1>9. CASE IfNeedToSendSnapShotCommand
    BY <1>1, <1>9 DEF IfNeedToSendSnapShotCommand, engine
<1>10. CASE Saves
    BY <1>1, <1>10 DEF Saves, engine
<1>11. ASSUME NEW r \in Reader, \/ \E k \in Key : ReadBegins(r, k)
                                \/ ReadsCache(r) \/ ReadsBase(r) \/ FillsCache(r) \/ ReadReturns(r)
       PROVE  [Engine!Next]_(Engine!vars)
    BY <1>11, ReadsRefine
<1>12. CASE Tick
    BY <1>1, <1>12 DEF Tick, engine
<1>13. CASE Crash
    <2>1. /\ up = "up" /\ up' = "down" /\ list' = EmptyList /\ cache' = <<>> /\ expire' = NoKeys
          /\ reader' = IdleReaders
        BY <1>13 DEF Crash
    <2>2. Content' = [k \in {} |-> None]
        BY <2>1, EmptyEngine DEF NoKeys
    <2>3. [r \in Reader |-> reader[r].value]' = [r \in Reader |-> None]
        BY <2>1 DEF IdleReaders
    <2>4. Engine!Vanishes
        BY <2>1, <2>2, <2>3 DEF Engine!Vanishes
    <2> QED  BY <2>4 DEF Engine!Next
<1>14. CASE Restart
    <2>1. up = "down" /\ reader' = reader
        BY <1>14 DEF Restart
    <2>2. CASE up' = "up"
        <3>1. Engine!Loads
            BY <1>4, <2>1, <2>2 DEF Engine!Loads
        <3> QED  BY <3>1 DEF Engine!Next
    <2>3. CASE up' # "up"
        <3>1. list' = list /\ up' = "broken"
            BY <1>14, <2>3 DEF Restart, engine
        <3>2. (up = "up") = FALSE /\ (up' = "up") = FALSE
            BY <2>1, <3>1
        <3>3. Content' = Content /\ Answer' = Answer
            BY <2>1, <3>1 DEF Content, Answer
        <3> QED  BY <3>2, <3>3 DEF Engine!vars, Answer
    <2> QED  BY <2>2, <2>3
<1> QED  BY <1>2, <1>3, <1>6, <1>7, <1>8, <1>8a, <1>9, <1>10, <1>11, <1>12, <1>13, <1>14 DEF Next

\* To its callers the cached engine on the skip list is the map of kv_engine.h: a read returns
\* the value that the map has at one moment of the call, although it takes the cache's lock and
\* the list's lock one after the other and fills the cache afterwards.
THEOREM EngineRefinement == Spec => ImplementsKVEngine
<1>1. Init => Engine!Init  BY RefinementInit
<1>2. EngineInv /\ EngineInv' /\ [Next]_vars => [Engine!Next]_(Engine!vars)  BY RefinementStep
<1>3. Spec => []EngineInv  BY EngineInvariant
<1> QED  BY <1>1, <1>2, <1>3, PTL DEF Spec, ImplementsKVEngine, Engine!Spec
-----------------------------------------------------------------------------
(***************************************************************************)
(* What the executed entries give.  The engine of an undamaged server      *)
(* matches the history up to the entry executed last, and every snapshot   *)
(* that is in the file or on its way there matches the history up to its   *)
(* own index: that is what a restart loads.                                *)
(***************************************************************************)

\* The writes among the first b entries of h that make up the value of k.
WrittenAt(h, b, k) ==
    {i \in 1 .. b : /\ h[i].key = k /\ h[i].operation # "Get"
                    /\ \A j \in i + 1 .. b : h[j].key = k => h[j].operation # "Put"}

\* v consists of the writes of W, each once and in the order of h.
Spells(v, h, W) ==
    /\ Range(v) = {h[i].id : i \in W}
    /\ \A i, j \in DOMAIN v : i < j => v[i] < v[j]

\* The content c and the expiry times e are what the first b entries of h give to the keys
\* that none of them makes expire.
Matches(c, e, h, b) ==
    \A k \in Key : (\A i \in 1 .. b : h[i].key = k => h[i].expireAt = 0) =>
        /\ k \notin DOMAIN e
        /\ k \in DOMAIN c <=> WrittenAt(h, b, k) # {}
        /\ k \in DOMAIN c => Spells(c[k], h, WrittenAt(h, b, k))

SnapshotMatches(s, h) ==
    /\ s.index \in 0 .. Len(h)
    /\ \A map : IsDump(s.dump, map) => Matches(map, s.expire, h, s.index)

\* The numbers of the entries ascend.
Ascending(h, n) ==
    \A i \in 1 .. Len(h) : h[i].id <= n /\ \A j \in 1 .. Len(h) : i < j => h[i].id < h[j].id

ContentInv ==
    /\ Ascending(history, started)
    /\ ~damaged =>
          /\ up = "up" => Matches(Content, expire, history, applied)
          /\ snapFile \notin {None, Torn} => SnapshotMatches(snapFile, history)
          /\ \A i \in 1 .. Len(saving) :
                saving[i].step = "flushSnapshot" => SnapshotMatches(saving[i].data, history)

\* A dump is the dump of one map.
LEMMA DumpOfOne ==
    ASSUME NEW d, NEW m1, NEW m2, IsDump(d, m1), IsDump(d, m2)
    PROVE  m1 = m2
<1>1. /\ {d.keys[i] : i \in 1 .. Len(d.keys)} = DOMAIN m1
      /\ {d.keys[i] : i \in 1 .. Len(d.keys)} = DOMAIN m2
    BY DEF IsDump, InOrder
<1>2. \A i \in 1 .. Len(d.keys) : m1[d.keys[i]] = m2[d.keys[i]]
    BY DEF IsDump
<1>3. \A k \in DOMAIN m1 : m1[k] = m2[k]
    BY <1>1, <1>2
<1>4. m1 = [k \in DOMAIN m1 |-> m1[k]] /\ m2 = [k \in DOMAIN m1 |-> m2[k]]
    BY <1>1 DEF IsDump
<1> QED  BY <1>3, <1>4

\* Only the entries up to the index count.
LEMMA MatchesOfPrefix ==
    ASSUME NEW b \in Nat, NEW h, NEW g, \A i \in 1 .. b : h[i] = g[i],
           NEW c, NEW e, Matches(c, e, h, b)
    PROVE  Matches(c, e, g, b)
<1>1. ASSUME NEW k PROVE WrittenAt(h, b, k) = WrittenAt(g, b, k)
    <2>1. ASSUME NEW i \in 1 .. b, NEW j \in i + 1 .. b PROVE h[j] = g[j]
        <3>1. j \in 1 .. b  BY <2>1
        <3> QED  BY <3>1
    <2> QED  BY <2>1 DEF WrittenAt
<1>2. ASSUME NEW k, NEW v, Spells(v, h, WrittenAt(h, b, k))
      PROVE  Spells(v, g, WrittenAt(g, b, k))
    <2>1. {h[i].id : i \in WrittenAt(h, b, k)} = {g[i].id : i \in WrittenAt(h, b, k)}
        BY DEF WrittenAt
    <2> QED  BY <1>1, <1>2, <2>1 DEF Spells
<1>3. ASSUME NEW k \in Key, \A i \in 1 .. b : g[i].key = k => g[i].expireAt = 0
      PROVE  /\ k \notin DOMAIN e
             /\ k \in DOMAIN c <=> WrittenAt(g, b, k) # {}
             /\ k \in DOMAIN c => Spells(c[k], g, WrittenAt(g, b, k))
    <2>1. \A i \in 1 .. b : h[i].key = k => h[i].expireAt = 0
        BY <1>3
    <2>2. /\ k \notin DOMAIN e
          /\ k \in DOMAIN c <=> WrittenAt(h, b, k) # {}
          /\ k \in DOMAIN c => Spells(c[k], h, WrittenAt(h, b, k))
        BY <2>1 DEF Matches
    <2> QED  BY <1>1, <1>2, <2>2
<1> QED  BY <1>3 DEF Matches

LEMMA SnapshotMatchesPrefix ==
    ASSUME NEW s, NEW h, NEW g, SnapshotMatches(s, h), Len(g) \in Nat, s.index <= Len(g), Len(h) \in Nat,
           \A i \in 1 .. Len(h) : i <= Len(g) => h[i] = g[i]
    PROVE  SnapshotMatches(s, g)
<1>1. s.index \in Nat /\ s.index <= Len(h) /\ s.index \in 0 .. Len(g)
    BY DEF SnapshotMatches
<1>2. \A i \in 1 .. s.index : h[i] = g[i]
    BY <1>1
<1>3. ASSUME NEW map, IsDump(s.dump, map) PROVE Matches(map, s.expire, g, s.index)
    BY <1>1, <1>2, <1>3, MatchesOfPrefix DEF SnapshotMatches
<1> QED  BY <1>1, <1>3 DEF SnapshotMatches

\* The writes of a key after one more entry.
LEMMA WrittenNext ==
    ASSUME NEW h, NEW b \in Nat, NEW k
    PROVE  /\ h[b + 1].key # k \/ h[b + 1].operation = "Get" =>
                  WrittenAt(h, b + 1, k) = WrittenAt(h, b, k)
           /\ h[b + 1].key = k /\ h[b + 1].operation = "Put" =>
                  WrittenAt(h, b + 1, k) = {b + 1}
           /\ h[b + 1].key = k /\ h[b + 1].operation \notin {"Put", "Get"} =>
                  WrittenAt(h, b + 1, k) = WrittenAt(h, b, k) \cup {b + 1}
<1> DEFINE op == h[b + 1]
           W == WrittenAt(h, b + 1, k)
<1>1. b + 1 \in W <=> op.key = k /\ op.operation # "Get"
    <2>1. b + 1 \in 1 .. b + 1 /\ \A j : j \notin b + 1 + 1 .. b + 1
        OBVIOUS
    <2> QED  BY <2>1 DEF WrittenAt
<1>2. ASSUME NEW i \in 1 .. b
      PROVE  i \in W <=> i \in WrittenAt(h, b, k) /\ (op.key = k => op.operation # "Put")
    <2>1. i \in 1 .. b + 1 /\ i + 1 .. b + 1 = (i + 1 .. b) \cup {b + 1}
        OBVIOUS
    <2> QED  BY <2>1 DEF WrittenAt
<1>3. W \subseteq (1 .. b) \cup {b + 1} /\ WrittenAt(h, b, k) \subseteq 1 .. b /\ b + 1 \notin 1 .. b
    BY DEF WrittenAt
<1> HIDE DEF W, op
<1>4. CASE op.key # k \/ op.operation = "Get"
    <2>1. W = WrittenAt(h, b, k)
        BY <1>1, <1>2, <1>3, <1>4
    <2> QED  BY <1>4, <2>1 DEF W, op
<1>5. CASE op.key = k /\ op.operation = "Put"
    <2>1. W = {b + 1}
        BY <1>1, <1>2, <1>3, <1>5
    <2> QED  BY <1>5, <2>1 DEF W, op
<1>6. CASE op.key = k /\ op.operation \notin {"Put", "Get"}
    <2>1. W = WrittenAt(h, b, k) \cup {b + 1}
        BY <1>1, <1>2, <1>3, <1>6
    <2> QED  BY <1>6, <2>1 DEF W, op
<1> QED  BY <1>4, <1>5, <1>6

\* One more write at the end of a value.
LEMMA SpellsNext ==
    ASSUME NEW h \in Seq(Entry), NEW b \in Nat, b + 1 <= Len(h), NEW n, Ascending(h, n),
           NEW W, W \subseteq 1 .. b, NEW v \in Value, Spells(v, h, W)
    PROVE  Spells(v \o <<h[b + 1].id>>, h, W \cup {b + 1})
<1> DEFINE id == h[b + 1].id
           w == v \o <<id>>
<1>1. Len(h) \in Nat /\ h[b + 1] \in Entry /\ id \in Nat
    <2>1. Len(h) \in Nat /\ b + 1 \in 1 .. Len(h)  BY LenProperties
    <2>2. h[b + 1] \in Entry  BY <2>1, ElementOfSeq
    <2> QED  BY <2>1, <2>2 DEF Entry
<1>2. /\ v \in Seq(Nat) /\ Len(v) \in Nat /\ DOMAIN v = 1 .. Len(v)
      /\ \A i \in 1 .. Len(v) : v[i] \in Nat
    <2>1. 1 .. Earlier + MaxOps \subseteq Nat  BY StateMachineAssumption
    <2>2. v \in Seq(Nat)  BY <2>1, SeqMonotonic DEF Value
    <2> QED  BY <2>2, LenProperties, ElementOfSeq
<1> HIDE DEF id
<1>3. /\ Len(w) = Len(v) + 1 /\ DOMAIN w = 1 .. Len(v) + 1 /\ w[Len(v) + 1] = id
      /\ \A i \in 1 .. Len(v) : w[i] = v[i]
    <2>1. <<id>> \in Seq(Nat) /\ Len(<<id>>) = 1 /\ <<id>>[1] = id
        BY <1>1
    <2>2. /\ w \in Seq(Nat) /\ Len(w) = Len(v) + 1
          /\ \A i \in 1 .. Len(w) : w[i] = IF i <= Len(v) THEN v[i] ELSE <<id>>[i - Len(v)]
        BY <1>2, <2>1, ConcatProperties
    <2> HIDE DEF w
    <2>3. DOMAIN w = 1 .. Len(v) + 1
        BY <2>2, LenProperties
    <2>4. Len(v) + 1 \in 1 .. Len(w) /\ ~(Len(v) + 1 <= Len(v)) /\ Len(v) + 1 - Len(v) = 1
        BY <1>2, <2>2
    <2>5. w[Len(v) + 1] = <<id>>[1]
        BY <2>2, <2>4
    <2>6. \A i \in 1 .. Len(v) : i \in 1 .. Len(w) /\ i <= Len(v)
        BY <1>2, <2>2
    <2> QED  BY <2>1, <2>2, <2>3, <2>5, <2>6
<1>4. Range(w) = Range(v) \cup {id}
    <2> HIDE DEF w
    <2>1. DOMAIN w = (1 .. Len(v)) \cup {Len(v) + 1}
        BY <1>2, <1>3
    <2>2. Range(w) = {w[i] : i \in 1 .. Len(v)} \cup {w[Len(v) + 1]}
        BY <2>1 DEF Range
    <2>3. Range(v) = {w[i] : i \in 1 .. Len(v)}
        BY <1>2, <1>3 DEF Range
    <2> QED  BY <1>3, <2>2, <2>3
<1>5. {h[i].id : i \in W \cup {b + 1}} = {h[i].id : i \in W} \cup {id}
    BY DEF id
<1>6. \A i \in 1 .. Len(v) : v[i] < id
    <2> TAKE i \in 1 .. Len(v)
    <2>1. v[i] \in Range(v)
        BY <1>2 DEF Range
    <2>2. PICK j \in W : v[i] = h[j].id
        BY <2>1 DEF Spells
    <2>3. j \in 1 .. Len(h) /\ b + 1 \in 1 .. Len(h) /\ j < b + 1
        BY <1>1
    <2> QED  BY <2>2, <2>3 DEF Ascending, id
<1>7. \A i, j \in DOMAIN w : i < j => w[i] < w[j]
    <2> HIDE DEF w
    <2> SUFFICES ASSUME NEW i \in 1 .. Len(v) + 1, NEW j \in 1 .. Len(v) + 1, i < j
                 PROVE  w[i] < w[j]
        BY <1>3
    <2>1. i \in 1 .. Len(v) /\ w[i] = v[i]
        BY <1>2, <1>3
    <2>2. CASE j = Len(v) + 1
        BY <1>3, <1>6, <2>1, <2>2
    <2>3. CASE j \in 1 .. Len(v)
        BY <1>2, <1>3, <2>1, <2>3 DEF Spells
    <2> QED  BY <1>2, <2>2, <2>3
<1> HIDE DEF w
<1>8. Spells(w, h, W \cup {b + 1})
    BY <1>4, <1>5, <1>7 DEF Spells
<1> QED  BY <1>8 DEF w, id

\* What executing entry b + 1 does to contents and expiry times, as the lemmas on the
\* three operations have it.
Effect(op, c, e, c1, e1) ==
    \/ /\ op.operation = "Put"
       /\ c1 = WithKey(c, op.key, <<op.id>>) /\ e1 = setKeyExpire(e, op.key, op.expireAt)
    \/ /\ op.operation = "Append"
       /\ \E old \in Value :
             /\ c1 = WithKey(c, op.key, old \o <<op.id>>)
             /\ op.key \notin DOMAIN e => old = IF op.key \in DOMAIN c THEN c[op.key] ELSE <<>>
       /\ e1 = setKeyExpire(e, op.key, op.expireAt)
    \/ /\ op.operation = "Get"
       /\ \/ c1 = c /\ e1 = e
          \/ op.key \in DOMAIN e /\ c1 = Without(c, op.key) /\ e1 = Without(e, op.key)

LEMMA MatchesNext ==
    ASSUME NEW h \in Seq(Entry), NEW b \in Nat, b + 1 <= Len(h), NEW n, Ascending(h, n),
           NEW c, NEW e, NEW c1, NEW e1, Matches(c, e, h, b), Effect(h[b + 1], c, e, c1, e1)
    PROVE  Matches(c1, e1, h, b + 1)
<1> DEFINE op == h[b + 1]
<1>1. SUFFICES ASSUME NEW k \in Key, \A i \in 1 .. b + 1 : h[i].key = k => h[i].expireAt = 0
               PROVE  /\ k \notin DOMAIN e1
                      /\ k \in DOMAIN c1 <=> WrittenAt(h, b + 1, k) # {}
                      /\ k \in DOMAIN c1 => Spells(c1[k], h, WrittenAt(h, b + 1, k))
    BY DEF Matches
<1> DEFINE W == WrittenAt(h, b, k)
           W1 == WrittenAt(h, b + 1, k)
<1>2. /\ k \notin DOMAIN e
      /\ k \in DOMAIN c <=> W # {}
      /\ k \in DOMAIN c => Spells(c[k], h, W)
    <2>1. \A i \in 1 .. b : i \in 1 .. b + 1  OBVIOUS
    <2>2. \A i \in 1 .. b : h[i].key = k => h[i].expireAt = 0  BY <1>1, <2>1
    <2> QED  BY <2>2 DEF Matches
<1>3. /\ op.key # k \/ op.operation = "Get" => W1 = W
      /\ op.key = k /\ op.operation = "Put" => W1 = {b + 1}
      /\ op.key = k /\ op.operation \notin {"Put", "Get"} => W1 = W \cup {b + 1}
    BY WrittenNext
<1>4. op.key = k => op.expireAt = 0
    BY <1>1
<1>5. Effect(op, c, e, c1, e1)
    OBVIOUS
<1>6. W \subseteq 1 .. b
    BY DEF WrittenAt
<1> HIDE DEF op, W, W1
<1>7. CASE op.key # k
    <2>1. k \notin DOMAIN e1
        BY <1>2, <1>5, <1>7 DEF Effect, setKeyExpire, WithKey, Without
    <2>2. k \in DOMAIN c1 <=> k \in DOMAIN c
        BY <1>5, <1>7 DEF Effect, WithKey, Without
    <2>3. k \in DOMAIN c1 => c1[k] = c[k]
        BY <1>5, <1>7 DEF Effect, WithKey, Without
    <2>4. W1 = W
        BY <1>3, <1>7
    <2> QED  BY <1>2, <2>1, <2>2, <2>3, <2>4 DEF W1
<1>8. CASE op.key = k /\ op.operation = "Put"
    <2>1. c1 = WithKey(c, k, <<op.id>>) /\ e1 = Without(e, k) /\ W1 = {b + 1}
        BY <1>3, <1>4, <1>5, <1>8 DEF Effect, setKeyExpire
    <2>2. k \notin DOMAIN e1 /\ k \in DOMAIN c1 /\ c1[k] = <<op.id>>
        BY <2>1 DEF Without, WithKey
    <2>3. Spells(<<op.id>>, h, {b + 1})
        BY DEF Spells, Range, op
    <2> QED  BY <2>1, <2>2, <2>3 DEF W1
<1>9. CASE op.key = k /\ op.operation = "Append"
    <2>1. PICK old \in Value : /\ c1 = WithKey(c, k, old \o <<op.id>>) /\ e1 = Without(e, k)
                               /\ old = IF k \in DOMAIN c THEN c[k] ELSE <<>>
        BY <1>2, <1>4, <1>5, <1>9 DEF Effect, setKeyExpire
    <2>2. k \notin DOMAIN e1 /\ k \in DOMAIN c1 /\ c1[k] = old \o <<op.id>>
        BY <2>1 DEF Without, WithKey
    <2>3. W1 = W \cup {b + 1}
        BY <1>3, <1>9
    <2>4. Spells(old, h, W)
        <3>1. CASE k \in DOMAIN c
            BY <1>2, <2>1, <3>1
        <3>2. CASE k \notin DOMAIN c
            <4>1. old = <<>> /\ W = {}
                BY <1>2, <2>1, <3>2
            <4> QED  BY <4>1 DEF Spells, Range
        <3> QED  BY <3>1, <3>2
    <2>5. Spells(old \o <<op.id>>, h, W \cup {b + 1})
        BY <1>6, <2>4, SpellsNext DEF op
    <2> QED  BY <2>2, <2>3, <2>5 DEF W1
<1>10. CASE op.key = k /\ op.operation = "Get"
    <2>1. c1 = c /\ e1 = e /\ W1 = W
        BY <1>2, <1>3, <1>5, <1>10 DEF Effect
    <2> QED  BY <1>2, <2>1 DEF W1
<1>11. op.operation \in {"Put", "Append", "Get"}
    BY <1>5 DEF Effect
<1> QED  BY <1>7, <1>8, <1>9, <1>10, <1>11 DEF W1

LEMMA ContentInit == Init => ContentInv
<1> SUFFICES ASSUME Init PROVE ContentInv
    OBVIOUS
<1>1. /\ Earlier \in Nat /\ history = [k \in 1 .. Earlier |-> EarlierPut(k)] /\ started = Earlier
      /\ up = "down" /\ saving = <<>>
    BY StateMachineAssumption DEF Init
<1>2. Len(history) = Earlier /\ \A i \in 1 .. Earlier : /\ history[i].id = i /\ history[i].key = i
                                                       /\ history[i].operation = "Put"
    BY <1>1 DEF EarlierPut
<1>3. Ascending(history, started)
    BY <1>1, <1>2 DEF Ascending
<1>4. Matches(FirstContent, NoKeys, history, Earlier)
    <2> SUFFICES ASSUME NEW k \in Key
                 PROVE  /\ k \notin DOMAIN NoKeys
                        /\ k \in DOMAIN FirstContent <=> WrittenAt(history, Earlier, k) # {}
                        /\ k \in DOMAIN FirstContent =>
                              Spells(FirstContent[k], history, WrittenAt(history, Earlier, k))
        BY DEF Matches
    <2>1. k \notin DOMAIN NoKeys
        BY DEF NoKeys
    <2>2. WrittenAt(history, Earlier, k) = {i \in 1 .. Earlier : i = k}
        <3>1. ASSUME NEW i \in 1 .. Earlier
              PROVE  i \in WrittenAt(history, Earlier, k) <=> i = k
            <4>1. \A j \in i + 1 .. Earlier : j \in 1 .. Earlier /\ j # i
                BY <1>1
            <4> QED  BY <1>2, <4>1 DEF WrittenAt
        <3> QED  BY <3>1 DEF WrittenAt
    <2>3. DOMAIN FirstContent = 1 .. Earlier /\ (k \in 1 .. Earlier => FirstContent[k] = <<k>>)
        BY DEF FirstContent
    <2>4. ASSUME k \in 1 .. Earlier PROVE Spells(<<k>>, history, {k})
        <3>1. history[k].id = k  BY <1>2, <2>4
        <3>2. Range(<<k>>) = {k} /\ DOMAIN <<k>> = {1}  BY DEF Range
        <3> QED  BY <3>1, <3>2 DEF Spells
    <2>5. CASE k \in 1 .. Earlier
        <3>1. WrittenAt(history, Earlier, k) = {k}  BY <2>2, <2>5
        <3> QED  BY <2>1, <2>3, <2>4, <2>5, <3>1
    <2>6. CASE k \notin 1 .. Earlier
        <3>1. WrittenAt(history, Earlier, k) = {}  BY <2>2, <2>6
        <3> QED  BY <2>1, <2>3, <2>6, <3>1
    <2> QED  BY <2>5, <2>6
<1>5. SnapshotMatches(snapFile, history)
    <2>1. /\ snapFile.index = Earlier /\ snapFile.expire = NoKeys
          /\ IsDump(snapFile.dump, FirstContent)
        BY FirstSnapshot
    <2>2. \A map : IsDump(snapFile.dump, map) => map = FirstContent
        BY <2>1, DumpOfOne
    <2>3. Earlier \in 0 .. Len(history)
        BY <1>1, <1>2
    <2> QED  BY <1>4, <2>1, <2>2, <2>3 DEF SnapshotMatches
<1>6. Len(saving) = 0
    BY <1>1
<1> QED  BY <1>1, <1>3, <1>5, <1>6 DEF ContentInv

\* An entry is executed.
LEMMA EntryMatches ==
    ASSUME PersistInv, ContentInv, NEW operation, Executes(operation),
           Effect(EntryAt(applied + 1), Content, expire, Content', expire')
    PROVE  ContentInv'
<1>1. /\ up = "up" /\ saving = <<>> /\ applied < LastIndex /\ applied' = applied + 1
      /\ UNCHANGED <<history, started, saving, snapFile, up, damaged>>
    BY DEF Executes, disk
<1>2. Ascending(history, started)'
    BY <1>1 DEF ContentInv, Ascending
<1>3. CASE damaged
    BY <1>1, <1>2, <1>3 DEF ContentInv
<1>4. CASE ~damaged
    <2>1. /\ Above(log, history, base) /\ applied \in base .. Len(history)
          /\ history \in Seq(Entry)
        BY <1>1, <1>4, NothingSaved DEF PersistInv
    <2>2. /\ base \in Nat /\ Len(log) \in Nat /\ Len(history) = base + Len(log)
          /\ \A i \in 1 .. Len(log) : log[i] = history[base + i]
        BY <2>1, LenProperties DEF Above
    <2>3. applied \in Nat /\ applied + 1 <= Len(history) /\ applied + 1 - base \in 1 .. Len(log)
        BY <1>1, <2>1, <2>2 DEF LastIndex
    <2>4. EntryAt(applied + 1) = history[applied + 1]
        <3>1. base + (applied + 1 - base) = applied + 1  BY <2>2, <2>3
        <3> QED  BY <2>2, <2>3, <3>1 DEF EntryAt
    <2>5. Matches(Content, expire, history, applied)
        BY <1>1, <1>4 DEF ContentInv
    <2>6. Matches(Content', expire', history, applied + 1)
        <3>1. Ascending(history, started)
            BY DEF ContentInv
        <3>2. Effect(history[applied + 1], Content, expire, Content', expire')
            BY <2>4
        <3> QED  BY <2>1, <2>3, <2>5, <3>1, <3>2, MatchesNext
    <2>7. Matches(Content, expire, history, applied)'
        BY <1>1, <2>6
    <2>8. /\ snapFile \notin {None, Torn} => SnapshotMatches(snapFile, history)
          /\ \A i \in 1 .. Len(saving) :
                saving[i].step = "flushSnapshot" => SnapshotMatches(saving[i].data, history)
        BY <1>4 DEF ContentInv
    <2> QED  BY <1>1, <1>2, <2>7, <2>8 DEF ContentInv
<1> QED  BY <1>3, <1>4

\* Steps that leave history and engine alone, and whose saves write no new snapshot.
LEMMA ContentKept ==
    ASSUME ContentInv, UNCHANGED <<list, expire, applied, history, started, snapFile, up, damaged>>,
           \A i \in 1 .. Len(saving') :
              saving'[i].step = "flushSnapshot" => \E j \in 1 .. Len(saving) : saving'[i] = saving[j]
    PROVE  ContentInv'
<1>1. Content' = Content
    BY DEF Content
<1>2. Ascending(history, started)'
    BY DEF ContentInv
<1>3. ASSUME ~damaged'
      PROVE  /\ up' = "up" => Matches(Content, expire, history, applied)'
             /\ snapFile' \notin {None, Torn} => SnapshotMatches(snapFile, history)'
             /\ \A i \in 1 .. Len(saving') :
                   saving'[i].step = "flushSnapshot" => SnapshotMatches(saving'[i].data, history')
    BY <1>1, <1>3 DEF ContentInv
<1> QED  BY <1>2, <1>3 DEF ContentInv

\* A new entry comes after all others, and changes nothing of what was executed.
LEMMA StartMatches ==
    ASSUME PersistInv, EngineInv, ContentInv, NEW operation \in Operations, NEW k \in Key,
           NEW expireAt \in Expiry[k] \cup {0}, Start(operation, k, expireAt)
    PROVE  ContentInv'
<1> DEFINE op == [operation |-> operation, key |-> k, expireAt |-> expireAt, id |-> started + 1]
<1>1. /\ up = "up" /\ saving = <<>> /\ started' = started + 1 /\ history' = Append(history, op)
      /\ saving' = <<[step |-> "clearRaftState"],
                     [step |-> "flushRaftState", data |-> [base |-> base, log |-> Append(log, op)]]>>
      /\ UNCHANGED <<list, expire, applied, snapFile, up, damaged>>
    BY DEF Start, SaveRaftState, engine, ttl
<1>2. op.id = started + 1 /\ op \in Entry /\ started \in Nat
    <2>1. expireAt \in Nat /\ started \in Nat  BY StateMachineAssumption DEF PersistInv
    <2> QED  BY <2>1 DEF Entry
<1> HIDE DEF op
<1>3. /\ history \in Seq(Entry) /\ Len(history) \in Nat /\ Len(history') = Len(history) + 1
      /\ \A i \in 1 .. Len(history) : history'[i] = history[i]
      /\ history'[Len(history) + 1] = op
      /\ \A i \in 1 .. Len(history) : history[i].id \in Nat
    <2>1. history \in Seq(Entry)  BY DEF PersistInv
    <2>2. \A i \in 1 .. Len(history) : history[i] \in Entry  BY <2>1, ElementOfSeq
    <2> QED  BY <1>1, <1>2, <2>1, <2>2, AppendProperties, LenProperties DEF Entry
<1>4. Ascending(history, started)'
    <2> SUFFICES ASSUME NEW i \in 1 .. Len(history) + 1
                 PROVE  /\ history'[i].id <= started + 1
                        /\ \A j \in 1 .. Len(history) + 1 : i < j => history'[i].id < history'[j].id
        BY <1>1, <1>3 DEF Ascending
    <2>1. CASE i = Len(history) + 1
        BY <1>2, <1>3, <2>1
    <2>2. CASE i \in 1 .. Len(history)
        <3>1. history'[i].id = history[i].id /\ history[i].id \in Nat /\ history[i].id <= started
            BY <1>3, <2>2 DEF ContentInv, Ascending
        <3>2. ASSUME NEW j \in 1 .. Len(history) + 1, i < j PROVE history'[i].id < history'[j].id
            <4>1. CASE j \in 1 .. Len(history)
                BY <1>3, <2>2, <3>2, <4>1 DEF ContentInv, Ascending
            <4>2. CASE j = Len(history) + 1
                BY <1>2, <1>3, <3>1, <4>2
            <4> QED  BY <1>3, <4>1, <4>2
        <3> QED  BY <1>2, <3>1, <3>2
    <2> QED  BY <1>3, <2>1, <2>2
<1>5. CASE damaged
    BY <1>1, <1>4, <1>5 DEF ContentInv
<1>6. CASE ~damaged
    <2>1. applied \in Nat /\ applied <= Len(history)
        <3>1. Above(log, history, base) /\ applied \in base .. Len(history)
            BY <1>1, <1>6 DEF PersistInv, Running
        <3> QED  BY <1>3, <3>1 DEF Above
    <2>2. Matches(Content, expire, history', applied)
        <3>1. Matches(Content, expire, history, applied)
            BY <1>1, <1>6 DEF ContentInv
        <3>2. \A i \in 1 .. applied : history[i] = history'[i]
            BY <1>3, <2>1
        <3> QED  BY <2>1, <3>1, <3>2, MatchesOfPrefix
    <2>3. Matches(Content, expire, history, applied)'
        <3>1. Content' = Content  BY <1>1 DEF Content
        <3> QED  BY <1>1, <2>2, <3>1
    <2>4. ASSUME snapFile' \notin {None, Torn} PROVE SnapshotMatches(snapFile', history')
        <3>1. SnapshotMatches(snapFile, history)
            BY <1>1, <1>6, <2>4 DEF ContentInv
        <3>2. snapFile.index \in 0 .. Len(history)
            BY <3>1 DEF SnapshotMatches
        <3>3. Len(history') \in Nat /\ snapFile.index <= Len(history')
            BY <1>3, <3>2
        <3>4. \A i \in 1 .. Len(history) : i <= Len(history') => history[i] = history'[i]
            BY <1>3
        <3> QED  BY <1>1, <1>3, <3>1, <3>3, <3>4, SnapshotMatchesPrefix
    <2>5. \A i \in 1 .. Len(saving') : saving'[i].step # "flushSnapshot"
        BY <1>1
    <2> QED  BY <1>1, <1>4, <2>3, <2>4, <2>5 DEF ContentInv
<1> QED  BY <1>5, <1>6

\* The snapshot that is made holds what the engine has.
LEMMA SnapshotMatchesHistory ==
    ASSUME PersistInv, EngineInv, ContentInv, IfNeedToSendSnapShotCommand
    PROVE  ContentInv'
<1>1. /\ up = "up" /\ saving = <<>>
      /\ UNCHANGED <<list, expire, applied, history, started, snapFile, up, damaged>>
    BY DEF IfNeedToSendSnapShotCommand, engine, ttl
<1>2. CASE saving' = saving
    BY <1>1, <1>2, ContentKept
<1>3. CASE Save([base |-> applied, log |-> LogAbove], SnapshotData)
    <2>1. saving' = <<[step |-> "clearRaftState"], [step |-> "clearSnapshot"],
                      [step |-> "flushRaftState", data |-> [base |-> applied, log |-> LogAbove]],
                      [step |-> "flushSnapshot", data |-> SnapshotData]>>
        BY <1>3 DEF Save
    <2>2. Len(saving') = 4 /\ \A i \in 1 .. 4 :
              saving'[i].step = "flushSnapshot" => saving'[i].data = SnapshotData
        BY <2>1
    <2>3. ASSUME ~damaged PROVE SnapshotMatches(SnapshotData, history)
        <3>1. Matches(Content, expire, history, applied)
            BY <1>1, <2>3 DEF ContentInv
        <3>2. applied \in 0 .. Len(history)
            <4>1. applied \in base .. Len(history) /\ base \in Nat
                BY <1>1, <2>3 DEF PersistInv, Running, Above
            <4>2. Len(history) \in Nat
                BY LenProperties DEF PersistInv
            <4> QED  BY <4>1, <4>2
        <3>3. IsDump(SnapshotData.dump, Content)
            BY SnapshotDumps DEF EngineInv
        <3>4. \A map : IsDump(SnapshotData.dump, map) => map = Content
            BY <3>3, DumpOfOne
        <3>5. SnapshotData.index = applied /\ SnapshotData.expire = expire
            BY DEF SnapshotData
        <3> QED  BY <3>1, <3>2, <3>4, <3>5 DEF SnapshotMatches
    <2>4. Content' = Content
        BY <1>1 DEF Content
    <2> QED  BY <1>1, <2>2, <2>3, <2>4 DEF ContentInv
<1> QED  BY <1>2, <1>3 DEF IfNeedToSendSnapShotCommand

\* What is flushed to the snapshot file was a step of the save.
LEMMA SavesMatch ==
    ASSUME EngineInv, ContentInv, Saves
    PROVE  ContentInv'
<1>1. /\ UNCHANGED <<list, expire, applied, history, started, up, damaged>>
      /\ PersisterStep
    BY DEF Saves, engine, ttl, raft
<1>2. saving # <<>> /\ saving' = Tail(saving)
    BY <1>1 DEF PersisterStep, clearRaftState, clearSnapshot, FlushRaftState, FlushSnapshot, SaveStep
<1>3. PICK S : saving \in Seq(S)
    BY DEF EngineInv, FilesTyped
<1>4. /\ Len(saving) \in Nat \ {0} /\ Head(saving) = saving[1] /\ Len(saving') = Len(saving) - 1
      /\ \A i \in 1 .. Len(saving') : saving'[i] = saving[i + 1]
    BY <1>2, <1>3, HeadTailProperties, EmptySeq, LenProperties
<1>5. \A i \in 1 .. Len(saving') : \E j \in 1 .. Len(saving) : saving'[i] = saving[j]
    <2> TAKE i \in 1 .. Len(saving')
    <2>1. i + 1 \in 1 .. Len(saving)  BY <1>4
    <2> QED  BY <1>4, <2>1
<1>6. CASE snapFile' = snapFile
    BY <1>1, <1>5, <1>6, ContentKept
<1>7. CASE snapFile' # snapFile
    <2>1. \/ snapFile' = None
          \/ Head(saving).step = "flushSnapshot" /\ snapFile' = Head(saving).data
        BY <1>1, <1>7 DEF PersisterStep, clearRaftState, clearSnapshot, FlushRaftState, FlushSnapshot,
                          SaveStep
    <2>2. ASSUME ~damaged, snapFile' \notin {None, Torn} PROVE SnapshotMatches(snapFile', history)
        <3>1. 1 \in 1 .. Len(saving)  BY <1>4
        <3> QED  BY <1>4, <2>1, <2>2, <3>1 DEF ContentInv
    <2>3. Content' = Content
        BY <1>1 DEF Content
    <2> QED  BY <1>1, <1>5, <2>2, <2>3 DEF ContentInv
<1> QED  BY <1>6, <1>7

\* Outside the window of a save the snapshot file stays what it was; an entry that the crash
\* takes back is above the snapshot.
LEMMA CrashMatches ==
    ASSUME PersistInv, PersistInv', ContentInv, Crash
    PROVE  ContentInv'
<1>1. /\ up' = "down" /\ saving' = <<>> /\ started' = started /\ PersisterCrash
      /\ damaged' = (damaged \/ SaveWindow) /\ history' \in {history, Front(history)}
    BY DEF Crash, PersisterCrash
<1>2. history \in Seq(Entry) /\ history' \in Seq(Entry) /\ Len(history) \in Nat /\ Len(history') \in Nat
    BY LenProperties DEF PersistInv
<1>3. /\ Len(history') <= Len(history)
      /\ \A i \in 1 .. Len(history') : i \in 1 .. Len(history) /\ history'[i] = history[i]
    <2>1. CASE history' = history
        BY <1>2, <2>1
    <2>2. CASE history' = Front(history) /\ Len(history) > 0
        <3>1. history' = [i \in 1 .. Len(history) - 1 |-> history[i]]
            BY <1>2, <2>2 DEF Front
        <3>2. Len(history') = Len(history) - 1
            BY <1>2, <2>2, <3>1
        <3>3. \A i \in 1 .. Len(history) - 1 : i \in 1 .. Len(history) /\ history'[i] = history[i]
            BY <1>2, <3>1
        <3>4. Len(history) - 1 <= Len(history)
            BY <1>2
        <3> QED  BY <3>2, <3>3, <3>4
    <2>3. CASE history' = Front(history) /\ Len(history) = 0
        <3>1. Len(history') = 0
            BY <1>2, <2>3 DEF Front
        <3> QED  BY <1>2, <2>3, <3>1
    <2> QED  BY <1>1, <1>2, <2>1, <2>2, <2>3
<1>4. Ascending(history, started)'
    BY <1>1, <1>3 DEF ContentInv, Ascending
<1>5. ASSUME ~damaged', snapFile' \notin {None, Torn} PROVE SnapshotMatches(snapFile', history')
    <2>1. ~damaged /\ ~SaveWindow
        BY <1>1, <1>5
    <2>2. snapFile' = snapFile
        BY <1>1, <2>1 DEF PersisterCrash, SaveWindow
    <2>3. SnapshotMatches(snapFile, history)
        BY <1>5, <2>1, <2>2 DEF ContentInv
    <2>4. AtRest(history)'
        BY <1>1, <1>5 DEF PersistInv
    <2>5. PICK b, l : Above(l, history', b) /\ SnapshotOf(snapFile', b)
        BY <2>4 DEF AtRest
    <2>6. snapFile.index = b /\ b <= Len(history')
        <3>1. snapFile'.index = b  BY <2>5 DEF SnapshotOf
        <3>2. b \in Nat /\ l \in Seq(Entry) /\ Len(history') = b + Len(l)
            BY <2>5 DEF Above
        <3>3. Len(l) \in Nat
            BY <3>2, LenProperties
        <3> QED  BY <2>2, <3>1, <3>2, <3>3
    <2>7. \A i \in 1 .. Len(history) : i <= Len(history') => history[i] = history'[i]
        BY <1>2, <1>3
    <2> QED  BY <1>2, <2>2, <2>3, <2>6, <2>7, SnapshotMatchesPrefix
<1>6. Len(saving') = 0
    BY <1>1
<1> QED  BY <1>1, <1>4, <1>5, <1>6 DEF ContentInv

\* The server comes back with the map of its snapshot, which matches the history up to the
\* index at which its log continues.
LEMMA RestartMatches ==
    ASSUME PersistInv, EngineInv, ContentInv, Restart, FilesApart
    PROVE  ContentInv'
<1>1. up = "down" /\ UNCHANGED <<history, started, damaged>>
    BY DEF Restart
<1>2. Ascending(history, started)'
    BY <1>1 DEF ContentInv
<1>3. CASE damaged
    BY <1>1, <1>2, <1>3 DEF ContentInv
<1>4. CASE ~damaged
    <2>1. history \in Seq(Entry) /\ saving = <<>> /\ AtRest(history)
        BY <1>1, <1>4 DEF PersistInv
    <2>2. PICK b, l : /\ raftFile = [base |-> b, log |-> l] /\ SnapshotOf(snapFile, b)
        BY <2>1 DEF AtRest
    <2>3. /\ raftFile \notin {None, Torn} /\ snapFile \notin {None, Torn}
          /\ raftFile.base = b /\ snapFile.index = b
        BY <2>2 DEF FilesApart, SnapshotOf
    <2>4. /\ up' = "up" /\ UNCHANGED <<saving, snapFile>> /\ applied' = base' /\ base' = raftFile.base
        BY <2>3 DEF Restart, PersisterOpens
    <2>5. IsDump(snapFile.dump, Content') /\ expire' = snapFile.expire
        BY <2>3, <2>4, RestartKeepsEngine
    <2>6. SnapshotMatches(snapFile, history)
        BY <1>4, <2>3 DEF ContentInv
    <2> DEFINE c == Content'
    <2>7. Matches(c, snapFile.expire, history, snapFile.index)
        <3>1. IsDump(snapFile.dump, c)  BY <2>5
        <3> HIDE DEF c
        <3> QED  BY <2>6, <3>1 DEF SnapshotMatches
    <2>8. Matches(Content, expire, history, applied)'
        BY <1>1, <2>3, <2>4, <2>5, <2>7
    <2>9. Len(saving') = 0
        BY <2>1, <2>4
    <2> QED  BY <1>1, <1>2, <2>4, <2>6, <2>8, <2>9 DEF ContentInv
<1> QED  BY <1>3, <1>4

\* A Get deletes only a key that has an expiry time.
LEMMA GetMatches ==
    ASSUME EngineInv, ContentInv, NEW k \in Key, ExecuteGetOpOnKVDB(k)
    PROVE  ContentInv'
<1>1. UNCHANGED <<applied, history, started, saving, snapFile, up, damaged>>
    BY DEF ExecuteGetOpOnKVDB, raft, disk
<1>2. \/ Content' = Content /\ expire' = expire
      \/ k \in DOMAIN expire /\ Content' = Without(Content, k) /\ expire' = Without(expire, k)
    BY GetKeepsEngine DEF isKeyExpired
<1>3. ASSUME Matches(Content, expire, history, applied)
      PROVE  Matches(Content', expire', history, applied)
    <2> SUFFICES ASSUME NEW x \in Key, \A i \in 1 .. applied : history[i].key = x => history[i].expireAt = 0
                 PROVE  /\ x \notin DOMAIN expire'
                        /\ x \in DOMAIN Content' <=> WrittenAt(history, applied, x) # {}
                        /\ x \in DOMAIN Content' =>
                              Spells(Content'[x], history, WrittenAt(history, applied, x))
        BY DEF Matches
    <2>1. /\ x \notin DOMAIN expire
          /\ x \in DOMAIN Content <=> WrittenAt(history, applied, x) # {}
          /\ x \in DOMAIN Content => Spells(Content[x], history, WrittenAt(history, applied, x))
        BY <1>3 DEF Matches
    <2>2. /\ x \in DOMAIN Content' <=> x \in DOMAIN Content
          /\ x \in DOMAIN Content => Content'[x] = Content[x]
          /\ x \notin DOMAIN expire'
        BY <1>2, <2>1 DEF Without
    <2> QED  BY <2>1, <2>2
<1> QED  BY <1>1, <1>3 DEF ContentInv

\* Every step keeps the invariant.
LEMMA ContentNext ==
    ASSUME FilesApart, PersistInv, PersistInv', EngineInv, ContentInv, [Next]_vars
    PROVE  ContentInv'
<1>1. ASSUME UNCHANGED <<list, expire, applied, history, started, saving, snapFile, up, damaged>>
      PROVE  ContentInv'
    BY <1>1, ContentKept
<1>2. CASE UNCHANGED vars
    BY <1>1, <1>2 DEF vars, engine, ttl, raft, disk
<1>3. ASSUME NEW operation \in Operations, NEW k \in Key, NEW expireAt \in Expiry[k] \cup {0},
             Start(operation, k, expireAt)
      PROVE  ContentInv'
    BY <1>3, StartMatches
<1>4. CASE ExecutePutOpOnKVDB
    <2>1. Executes("Put")
        BY <1>4 DEF ExecutePutOpOnKVDB
    <2>2. Effect(EntryAt(applied + 1), Content, expire, Content', expire')
        BY <1>4, PutKeepsEngine DEF Effect
    <2> QED  BY <2>1, <2>2, EntryMatches
<1>5. CASE ExecuteAppendOpOnKVDB
    <2>1. Executes("Append")
        BY <1>5 DEF ExecuteAppendOpOnKVDB
    <2>2. PICK op \in Op : /\ op = EntryAt(applied + 1) /\ op.operation = "Append"
                           /\ Content' = WithKey(Content, op.key, Old(op.key) \o <<op.id>>)
                           /\ expire' = setKeyExpire(expire, op.key, op.expireAt)
                           /\ Old(op.key) \in Value
        BY <1>5, AppendKeepsEngine
    <2>3. op.key \notin DOMAIN expire =>
              Old(op.key) = IF op.key \in DOMAIN Content THEN Content[op.key] ELSE <<>>
        BY DEF Old, isKeyExpired
    <2>4. Effect(op, Content, expire, Content', expire')
        BY <2>2, <2>3 DEF Effect
    <2> QED  BY <2>1, <2>2, <2>4, EntryMatches
<1>6. CASE PassesGet
    <2>1. Executes("Get")
        BY <1>6 DEF PassesGet
    <2>2. Effect(EntryAt(applied + 1), Content, expire, Content', expire')
        BY <1>6, PassesGetKeepsEngine DEF Effect
    <2> QED  BY <2>1, <2>2, EntryMatches
<1>6a. ASSUME NEW k \in Key, ExecuteGetOpOnKVDB(k) PROVE ContentInv'
    BY <1>6a, GetMatches
<1>7. CASE IfNeedToSendSnapShotCommand
    BY <1>7, SnapshotMatchesHistory
<1>8. CASE Saves
    BY <1>8, SavesMatch
<1>9. ASSUME NEW r \in Reader, \/ \E k \in Key : ReadBegins(r, k)
                               \/ ReadsCache(r) \/ ReadsBase(r) \/ FillsCache(r) \/ ReadReturns(r)
      PROVE  ContentInv'
    BY <1>1, <1>9 DEF ReadBegins, ReadsCache, ReadsBase, FillsCache, ReadReturns, engine, ttl, raft, disk
<1>10. CASE Tick
    BY <1>1, <1>10 DEF Tick, engine, ttl, raft, disk
<1>11. CASE Crash
    BY <1>11, CrashMatches
<1>12. CASE Restart
    BY <1>12, RestartMatches
<1> QED  BY <1>2, <1>3, <1>4, <1>5, <1>6, <1>6a, <1>7, <1>8, <1>9, <1>10, <1>11, <1>12 DEF Next

\* The engine and every snapshot agree with the history.
THEOREM ContentInvariant ==
    ASSUME FilesApart
    PROVE  Spec => [](PersistInv /\ EngineInv /\ ContentInv)
<1> DEFINE Inv == PersistInv /\ EngineInv /\ ContentInv
<1>1. Init => Inv
    BY PersistInit, EngineInit, ContentInit
<1>2. Inv /\ [Next]_vars => Inv'
    <2> SUFFICES ASSUME Inv, [Next]_vars PROVE Inv'
        OBVIOUS
    <2>1. PersistInv'  BY PersistNext
    <2>2. EngineInv'  BY EngineNext
    <2>3. ContentInv'  BY <2>1, ContentNext
    <2> QED  BY <2>1, <2>2, <2>3
<1> QED  BY <1>1, <1>2, PTL DEF Spec

\* Unless a crash hits the window in which Persister::Save has truncated its files, a server
\* that starts again from its snapshot and its log has lost no persisted entry, and has for
\* every key without expiry the value that the executed entries give it: each of its writes
\* since the last Put, once and in the order of the log.
THEOREM StateRecovered ==
    ASSUME FilesApart
    PROVE  Spec => []RecoversState
<1>1. Spec => [](PersistInv /\ EngineInv /\ ContentInv)  BY ContentInvariant
<1>2. PersistInv /\ EngineInv /\ ContentInv => RecoversState
    <2> SUFFICES ASSUME PersistInv, ContentInv, up = "up", ~damaged
                 PROVE  LogRecovered /\ ContentRecovered
        BY DEF RecoversState
    <2>1. LogRecovered
        BY AboveIsSubSeq DEF PersistInv, Running, LogRecovered
    <2>2. history \in Seq(Entry) /\ Len(history) \in Nat /\ DOMAIN history = 1 .. Len(history)
        BY LenProperties DEF PersistInv
    <2>3. applied \in Nat /\ applied <= Len(history)
        BY <2>2 DEF PersistInv, Running, Above
    <2>4. Matches(Content, expire, history, applied)
        BY DEF ContentInv
    <2>5. \A k : Written(k) = WrittenAt(history, applied, k)
        BY DEF Written, WrittenAt
    <2>6. ASSUME NEW k \in Key, \A i \in DOMAIN history : history[i].key = k => history[i].expireAt = 0
          PROVE  /\ k \in DOMAIN Content <=> Written(k) # {}
                 /\ k \in DOMAIN Content =>
                       /\ Range(Content[k]) = {history[i].id : i \in Written(k)}
                       /\ \A i, j \in DOMAIN Content[k] : i < j => Content[k][i] < Content[k][j]
        <3>1. \A i \in 1 .. applied : i \in DOMAIN history
            BY <2>2, <2>3
        <3>2. \A i \in 1 .. applied : history[i].key = k => history[i].expireAt = 0
            BY <2>6, <3>1
        <3>3. /\ k \in DOMAIN Content <=> WrittenAt(history, applied, k) # {}
              /\ k \in DOMAIN Content => Spells(Content[k], history, WrittenAt(history, applied, k))
            BY <2>4, <3>2 DEF Matches
        <3> QED  BY <2>5, <3>3 DEF Spells
    <2> QED  BY <2>1, <2>6 DEF ContentRecovered
<1> QED  BY <1>1, <1>2, PTL
=============================================================================
