------------------------------ MODULE LsmProofs -----------------------------
(***************************************************************************)
(* What is proved of the LSM engine, for any keys, threshold and number of *)
(* calls, crashes and recoveries: a crash outside its two windows leaves a *)
(* manifest and tables that the constructor can load; whenever the lock is *)
(* free the reads say what the log says; and the engine implements the map *)
(* of kv_engine.h.                                                         *)
(*                                                                         *)
(* CrashSafe says nothing of the steps inside the windows, so it is not    *)
(* inductive.  LsmInv says for every list of remaining steps what the      *)
(* files hold (Stage): before the window the manifest names the tables     *)
(* in memory and their files are whole (Steady); a table being written has *)
(* a number that no named table has (Fresh), so writing it spoils nothing; *)
(* and the manifest that ends the window is written when every table of    *)
(* the new list is stored.  After a crash it is the next number in the     *)
(* manifest that keeps a new table from an old one's file (ManifestSound). *)
(*                                                                         *)
(* ReadsMatchLog says nothing while the lock is held.  ReadInv says for    *)
(* every list of remaining steps that the tables, the one between memory   *)
(* and disk included, agree with the log as far as it has been replayed    *)
(* (Agreed).  A recovery begins with tables that may be newer than the     *)
(* records it replays, so the tables may say more than those records, but  *)
(* no key that is nowhere in the log (Named).                              *)
(***************************************************************************)
EXTENDS LsmTree, SequenceTheorems, FiniteSetTheorems, WellFoundedInduction, TLAPS

\* The content of a table is a function.
IsTable(f) == f = [k \in DOMAIN f |-> f[k]]

\* The value of a torn file is not the content of a table, and neither it nor that of a
\* missing manifest is the content of a manifest.
MarksApart ==
    /\ ~IsTable(Torn)
    /\ \A n, s : [next |-> n, tables |-> s] \notin {None, Torn}

Stored(t) == t.seq \in DOMAIN files /\ files[t.seq] # Torn
AllStored == \A i \in DOMAIN sst : Stored(sst[i])

\* The manifest names the tables in memory.
Current ==
    \/ manifest = None /\ sst = <<>>
    \/ \E n : manifest = [next |-> n, tables |-> [i \in DOMAIN sst |-> sst[i].seq]]
Steady == Current /\ AllStored

\* The table being written is newer than every table in memory.
Fresh ==
    /\ table.seq = nextSeq /\ IsTable(table.entries)
    /\ \A i \in DOMAIN sst : sst[i].seq < table.seq

\* Steps that need nothing of the disk but what holds between two calls.
Calm == {"append", "flushIfNeeded", "flush", "compact", "replay", "endOfRound"}

Steps == Calm \cup {"createSSTable", "writeSSTable", "removeFiles", "publishFlushed",
                    "publishCompacted", "publishNone", "writeManifest", "install", "rewriteWAL"}

\* The remaining steps are those of s, then calm ones.
Path(s) ==
    /\ Len(todo) >= Len(s)
    /\ \A i \in 1 .. Len(s) : todo[i] = s[i]
    /\ \A i \in Len(s) + 1 .. Len(todo) : todo[i] \in Calm

\* The ways to go on once a table is written: a flush adds it, a compaction puts it in the
\* place of all others.
Adds == <<"publishFlushed", "writeManifest">>
Replaces == <<"publishCompacted", "writeManifest">>
Merges == <<"removeFiles", "publishCompacted", "writeManifest">>

Writing ==
    /\ \/ Path(<<"createSSTable", "writeSSTable", "publishFlushed", "writeManifest">>)
       \/ Path(<<"writeSSTable", "publishFlushed", "writeManifest">>)
       \/ Path(<<"createSSTable", "writeSSTable", "removeFiles", "publishCompacted", "writeManifest">>)
       \/ Path(<<"writeSSTable", "removeFiles", "publishCompacted", "writeManifest">>)
    /\ Steady /\ Fresh
Adding == Path(Adds) /\ AllStored /\ Fresh /\ Stored(table)
Merging == (Path(Merges) \/ Path(Replaces)) /\ Fresh /\ Stored(table)

\* A compaction that leaves nothing, and Restore.
Clearing ==
    \/ Path(<<"removeFiles", "publishNone", "writeManifest">>)
    \/ /\ IsTable(table)
       /\ \/ Path(<<"removeFiles", "install", "rewriteWAL", "publishNone", "writeManifest">>)
          \/ Path(<<"install", "rewriteWAL", "publishNone", "writeManifest">>)
    \/ Path(<<"rewriteWAL", "publishNone", "writeManifest">>)
    \/ Path(<<"publishNone", "writeManifest">>)

Naming == Path(<<"writeManifest">>) /\ AllStored

Stage == (Path(<<>>) /\ Steady) \/ Writing \/ Adding \/ Merging \/ Clearing \/ Naming

\* No table that the manifest names has a number above the next one.
ManifestSound ==
    \/ manifest \in {None, Torn}
    \/ \E n \in Nat, s \in Seq(Nat) :
          /\ manifest = [next |-> n, tables |-> s]
          /\ \A i \in 1 .. Len(s) : s[i] <= n

\* The tables in memory.
ImmTables == \E S : imm \in Seq(S) /\ \A m \in S : IsTable(m)
SstTables == \E S : sst \in Seq(S) /\ \A t \in S : t.seq \in Nat /\ t.seq <= nextSeq

LsmInv ==
    /\ todo \in Seq(Steps) /\ nextSeq \in Nat
    /\ IsTable(mem) /\ ImmTables /\ SstTables
    /\ ManifestSound
    /\ up = "open" => Stage
-----------------------------------------------------------------------------
(***************************************************************************)
(* Lists of steps, and the files of tables.                                *)
(***************************************************************************)

\* One step of a list of steps is done.
LEMMA PathTail ==
    ASSUME todo \in Seq(Steps), NEW s \in Seq(Steps), s # <<>>, Path(s), todo' = Tail(todo)
    PROVE  todo' \in Seq(Steps) /\ Path(Tail(s))'
<1>1. Len(todo) \in Nat /\ Len(s) \in Nat \ {0} /\ Len(todo) >= Len(s)
    BY DEF Path
<1>2. /\ todo' \in Seq(Steps) /\ Len(todo') = Len(todo) - 1
      /\ \A i \in 1 .. Len(todo) - 1 : todo'[i] = todo[i + 1]
    BY <1>1
<1>3. /\ Len(Tail(s)) = Len(s) - 1
      /\ \A i \in 1 .. Len(s) - 1 : Tail(s)[i] = s[i + 1]
    BY <1>1
<1>4. \A i \in 1 .. Len(s) - 1 : todo'[i] = Tail(s)[i]
    BY <1>1, <1>2, <1>3 DEF Path
<1>5. \A i \in Len(s) .. Len(todo) - 1 : todo'[i] \in Calm
    BY <1>1, <1>2 DEF Path
<1> QED  BY <1>1, <1>2, <1>3, <1>4, <1>5 DEF Path

\* Steps are put in front of calm ones.
LEMMA PathConcat ==
    ASSUME NEW r \in Seq(Steps), \A i \in 1 .. Len(r) : r[i] \in Calm,
           NEW s \in Seq(Steps), todo' = s \o r
    PROVE  todo' \in Seq(Steps) /\ Path(s)'
<1>1. Len(s) \in Nat /\ Len(r) \in Nat
    OBVIOUS
<1>2. /\ todo' \in Seq(Steps) /\ Len(todo') = Len(s) + Len(r)
      /\ \A i \in 1 .. Len(s) : todo'[i] = s[i]
      /\ \A i \in Len(s) + 1 .. Len(s) + Len(r) : todo'[i] = r[i - Len(s)]
    BY <1>1
<1>3. \A i \in Len(s) + 1 .. Len(todo') : todo'[i] \in Calm
    BY <1>1, <1>2
<1> QED  BY <1>1, <1>2, <1>3 DEF Path

\* A list of one calm step.
LEMMA OneCalm ==
    ASSUME NEW c \in Calm
    PROVE  <<c>> \in Seq(Steps) /\ \A i \in 1 .. Len(<<c>>) : <<c>>[i] \in Calm
<1>1. c \in Steps
    BY DEF Steps
<1>2. <<c>> \in Seq(Steps) /\ Len(<<c>>) = 1 /\ <<c>>[1] = c
    BY <1>1
<1> QED  BY <1>2

\* What is left of a list that is calm at its head.
LEMMA CalmTail ==
    ASSUME todo \in Seq(Steps), todo # <<>>, Path(<<>>)
    PROVE  Tail(todo) \in Seq(Steps) /\ \A i \in 1 .. Len(Tail(todo)) : Tail(todo)[i] \in Calm
<1>1. Len(todo) \in Nat \ {0}
    OBVIOUS
<1>2. Len(Tail(todo)) = Len(todo) - 1 /\ \A i \in 1 .. Len(todo) - 1 : Tail(todo)[i] = todo[i + 1]
    BY <1>1
<1>3. \A i \in 1 .. Len(todo) : todo[i] \in Calm
    BY DEF Path
<1> QED  BY <1>1, <1>2, <1>3

\* A calm step is at the head of a calm list only, when the list is that of a stage.
LEMMA CalmHead ==
    ASSUME todo \in Seq(Steps), Stage, todo = <<>> \/ Head(todo) \in Calm
    PROVE  Path(<<>>) /\ Steady
<1>1. ASSUME NEW s, Len(s) \in Nat \ {0}, Path(s), s[1] \notin Calm PROVE FALSE
    <2>1. Len(todo) >= 1 /\ todo[1] = s[1]
        BY <1>1 DEF Path
    <2>2. todo # <<>> /\ Head(todo) = todo[1]
        BY <2>1
    <2> QED  BY <1>1, <2>1, <2>2
<1>2. ~Writing
    BY <1>1 DEF Writing, Calm
<1>3. ~Adding /\ ~Merging
    BY <1>1 DEF Adding, Merging, Adds, Merges, Replaces, Calm
<1>4. ~Clearing /\ ~Naming
    BY <1>1 DEF Clearing, Naming, Calm
<1> QED  BY <1>2, <1>3, <1>4 DEF Stage

\* Nothing that a stage speaks of changes.
LEMMA StageKept ==
    ASSUME Stage, UNCHANGED <<todo, table, sst, nextSeq, manifest, files>>
    PROVE  Stage'
BY DEF Stage, Writing, Adding, Merging, Clearing, Naming, Path, Steady, Current, AllStored,
       Stored, Fresh, Adds, Merges, Replaces
-----------------------------------------------------------------------------
(***************************************************************************)
(* The steps that leave the files alone.                                   *)
(***************************************************************************)
\* A table with one more entry, and an empty one, are tables.
LEMMA TableForms ==
    /\ IsTable(Empty)
    /\ \A f, k, v : IsTable(With(f, k, v))
    /\ \A f, K : IsTable(On(f, K))
    /\ \A s : IsTable(DecodeSnapshot(s))
<1>1. \A S : \A e : IsTable([x \in S |-> e[x]])
    BY DEF IsTable
<1>2. IsTable(Empty)
    BY DEF IsTable, Empty
<1>3. ASSUME NEW f, NEW k, NEW v PROVE IsTable(With(f, k, v))
    BY DEF IsTable, With
<1>4. ASSUME NEW f, NEW K PROVE IsTable(On(f, K))
    BY DEF IsTable, On
<1>5. ASSUME NEW s PROVE IsTable(DecodeSnapshot(s))
    <2>1. CASE s = <<>>  BY <1>2, <2>1 DEF DecodeSnapshot
    <2>2. CASE s # <<>>
        BY <2>2 DEF IsTable, DecodeSnapshot
    <2> QED  BY <2>1, <2>2
<1> QED  BY <1>2, <1>3, <1>4, <1>5

\* No file, no manifest, no call.
LEMMA LsmInit == Init => LsmInv
<1> SUFFICES ASSUME Init PROVE LsmInv
    OBVIOUS
<1>1. todo = <<>> /\ nextSeq = 0 /\ mem = Empty /\ imm = <<>> /\ sst = <<>> /\ manifest = None
    BY DEF Init
<1>2. todo \in Seq(Steps) /\ Path(<<>>)
    BY <1>1 DEF Path
<1>3. ImmTables /\ SstTables
    <2>1. imm \in Seq({}) /\ sst \in Seq({})
        BY <1>1
    <2> QED  BY <2>1 DEF ImmTables, SstTables
<1>4. Steady
    BY <1>1 DEF Steady, Current, AllStored
<1> QED  BY <1>1, <1>2, <1>3, <1>4, TableForms DEF LsmInv, ManifestSound, Stage

\* Calls that only read, and the worker's own state.
LEMMA SameState ==
    ASSUME LsmInv, UNCHANGED <<todo, table, sst, nextSeq, manifest, files, mem, imm>>,
           up' = up \/ up' # "open"
    PROVE  LsmInv'
<1>1. up' = "open" => Stage'
    BY StageKept DEF LsmInv
<1>2. ImmTables' /\ SstTables' /\ ManifestSound'
    BY DEF LsmInv, ImmTables, SstTables, ManifestSound
<1> QED  BY <1>1, <1>2 DEF LsmInv

\* The lists of steps change, and are calm before and after; the memtables may change too.
LEMMA CalmStep ==
    ASSUME LsmInv, todo = <<>> \/ Head(todo) \in Calm, up = "open",
           todo' \in Seq(Steps), Path(<<>>)', IsTable(mem'), ImmTables',
           UNCHANGED <<sst, nextSeq, manifest, files>>
    PROVE  LsmInv'
<1>1. Steady
    BY CalmHead DEF LsmInv
<1>2. Steady'
    BY <1>1 DEF Steady, Current, AllStored, Stored
<1>3. SstTables' /\ ManifestSound'
    BY DEF LsmInv, SstTables, ManifestSound
<1> QED  BY <1>2, <1>3 DEF LsmInv, Stage

\* Put, Delete, Flush, Compact and a round of the worker begin.
LEMMA BeginsStep ==
    ASSUME LsmInv, Idle, NEW s \in Seq(Steps), \A i \in 1 .. Len(s) : s[i] \in Calm,
           todo' = s, UNCHANGED <<memory, sst, nextSeq, manifest, files>>
    PROVE  LsmInv'
<1>1. todo = <<>> /\ up = "open"
    BY DEF Idle, Locked
<1>2. todo' \in Seq(Steps) /\ Path(<<>>)'
    BY DEF Path
<1>3. IsTable(mem') /\ ImmTables'
    BY DEF LsmInv, memory, ImmTables
<1> QED  BY <1>1, <1>2, <1>3, CalmStep

\* Restore has a whole table to install.
LEMMA RestoreStep ==
    ASSUME LsmInv, Restore
    PROVE  LsmInv'
<1>1. /\ todo' = <<"removeFiles", "install", "rewriteWAL", "publishNone", "writeManifest">>
                    \o <<"flushIfNeeded">>
      /\ table' = DecodeSnapshot(snapshot)
      /\ UNCHANGED <<memory, manifest, files, up>>
    BY DEF Restore, disk
<1> DEFINE s == <<"removeFiles", "install", "rewriteWAL", "publishNone", "writeManifest">>
<1>2. /\ <<"flushIfNeeded">> \in Seq(Steps)
      /\ \A i \in 1 .. Len(<<"flushIfNeeded">>) : <<"flushIfNeeded">>[i] \in Calm
    BY OneCalm DEF Calm
<1>6. s \in Seq(Steps)
    BY DEF Steps
<1>3. /\ todo' \in Seq(Steps)
      /\ Path(s)'
    BY <1>1, <1>2, <1>6, PathConcat
<1>4. IsTable(table')
    BY <1>1, TableForms
<1>5. Stage'
    BY <1>3, <1>4 DEF Stage, Clearing
<1>7. IsTable(mem') /\ ImmTables' /\ SstTables' /\ ManifestSound'
    BY <1>1 DEF LsmInv, memory, ImmTables, SstTables, ManifestSound
<1> QED  BY <1>1, <1>3, <1>5, <1>7 DEF LsmInv, memory

\* Rotation keeps the memtables tables.
LEMMA RotatedTables ==
    ASSUME ImmTables, NEW m, IsTable(m)
    PROVE  \E S : Rotated(m) \in Seq(S) /\ \A x \in S : IsTable(x)
<1>1. PICK S : imm \in Seq(S) /\ \A x \in S : IsTable(x)
    BY DEF ImmTables
<1>2. imm \in Seq(S \cup {m})
    BY <1>1
<1>3. Append(imm, m) \in Seq(S \cup {m})
    BY <1>2
<1>4. \A x \in S \cup {m} : IsTable(x)
    BY <1>1
<1>5. Rotated(m) \in Seq(S \cup {m})
    BY <1>2, <1>3 DEF Rotated
<1> QED  BY <1>4, <1>5

\* FlushMemTableIfNeededLocked adds at most a flush in front of calm steps.
LEMMA FlushNeeded ==
    ASSUME LsmInv, NEW m, IsTable(m), NEW r \in Seq(Steps), \A i \in 1 .. Len(r) : r[i] \in Calm,
           FlushMemTableIfNeededLocked(m, r)
    PROVE  todo' \in Seq(Steps) /\ Path(<<>>)' /\ IsTable(mem') /\ ImmTables'
<1>1. /\ todo' = <<"flush">> \o r \/ todo' = <<>> \o r
      /\ mem' = Empty \/ mem' = m
      /\ imm' = Rotated(m) \/ imm' = imm
    BY DEF FlushMemTableIfNeededLocked, Continue
<1>2. todo' \in Seq(Steps) /\ Path(<<>>)'
    <2>1. CASE todo' = <<"flush">> \o r
        <3>1. <<"flush">> \in Seq(Steps) /\ \A i \in 1 .. Len(<<"flush">>) : <<"flush">>[i] \in Calm
            BY OneCalm DEF Calm
        <3>2. Len(<<"flush">>) = 1 /\ <<"flush">>[1] = "flush"
            OBVIOUS
        <3>3. todo' \in Seq(Steps) /\ Path(<<"flush">>)'
            BY <2>1, <3>1, PathConcat
        <3>4. \A i \in 1 .. Len(todo') : todo'[i] \in Calm
            BY <3>2, <3>3 DEF Path, Calm
        <3> QED  BY <3>3, <3>4 DEF Path
    <2>2. CASE todo' = <<>> \o r
        <3>1. <<>> \in Seq(Steps)
            OBVIOUS
        <3> QED  BY <2>2, <3>1, PathConcat
    <2> QED  BY <1>1, <2>1, <2>2
<1>3. IsTable(mem')
    BY <1>1, TableForms
<1>4. ImmTables'
    BY <1>1, RotatedTables DEF LsmInv, ImmTables
<1> QED  BY <1>2, <1>3, <1>4

\* The rest of Put, Delete and Restore; a record of the log is replayed.
LEMMA MemtableStep ==
    ASSUME LsmInv, AppendWALLocked \/ FlushIfNeeded \/ RecoverFromWALLocked
    PROVE  LsmInv'
<1>1. todo # <<>> /\ Head(todo) \in Calm /\ up = "open"
    BY DEF AppendWALLocked, FlushIfNeeded, RecoverFromWALLocked, Step, Locked, Calm
<1>2. todo \in Seq(Steps) /\ Path(<<>>) /\ Steady
    BY <1>1, CalmHead DEF LsmInv
<1>3. /\ Tail(todo) \in Seq(Steps) /\ \A i \in 1 .. Len(Tail(todo)) : Tail(todo)[i] \in Calm
      /\ \A i \in 1 .. Len(todo) : todo[i] \in Calm
    BY <1>1, <1>2, CalmTail DEF Path
<1>4. /\ IsTable(mem) /\ \A k, v : IsTable(With(mem, k, v))
      /\ <<>> \in Seq(Steps) /\ \A i \in 1 .. Len(<<>>) : <<>>[i] \in Calm
    BY TableForms DEF LsmInv
<1>5. UNCHANGED <<sst, nextSeq, manifest, files>>
    BY DEF AppendWALLocked, FlushIfNeeded, RecoverFromWALLocked, disk
<1>6. ASSUME NEW m, IsTable(m), NEW r \in Seq(Steps), \A i \in 1 .. Len(r) : r[i] \in Calm,
             FlushMemTableIfNeededLocked(m, r)
      PROVE  LsmInv'
    BY <1>1, <1>5, <1>6, FlushNeeded, CalmStep
<1>7. CASE AppendWALLocked
    BY <1>4, <1>6, <1>7 DEF AppendWALLocked
<1>8. CASE FlushIfNeeded
    BY <1>3, <1>4, <1>6, <1>8 DEF FlushIfNeeded
<1>9. CASE RecoverFromWALLocked
    <2>1. CASE replayed < Len(wal)
        BY <1>2, <1>3, <1>4, <1>6, <1>9, <2>1 DEF RecoverFromWALLocked
    <2>2. CASE ~(replayed < Len(wal))
        <3>1. todo' = <<>> \o Tail(todo) /\ UNCHANGED <<mem, imm>>
            BY <1>2, <1>3, <1>9, <2>2 DEF RecoverFromWALLocked, Done, Continue
        <3>2. todo' \in Seq(Steps) /\ Path(<<>>)'
            BY <1>3, <1>4, <3>1, PathConcat
        <3>3. IsTable(mem') /\ ImmTables'
            BY <3>1 DEF LsmInv, ImmTables
        <3> QED  BY <1>1, <1>5, <3>2, <3>3, CalmStep
    <2> QED  BY <2>1, <2>2
<1> QED  BY <1>7, <1>8, <1>9

\* The worker gives the lock back.
LEMMA UnlocksStep ==
    ASSUME LsmInv, WorkerUnlocks
    PROVE  LsmInv'
<1>1. /\ todo # <<>> /\ Head(todo) \in Calm /\ up = "open" /\ todo' = Tail(todo)
      /\ UNCHANGED <<memory, manifest, files>>
    BY DEF WorkerUnlocks, Step, Locked, Calm, Done, Continue, disk
<1>2. Path(<<>>)
    BY <1>1, CalmHead DEF LsmInv
<1>3. Tail(todo) \in Seq(Steps) /\ \A i \in 1 .. Len(Tail(todo)) : Tail(todo)[i] \in Calm
    BY <1>1, <1>2, CalmTail DEF LsmInv
<1>4. todo' \in Seq(Steps) /\ Path(<<>>)'
    BY <1>1, <1>3 DEF Path
<1>5. IsTable(mem') /\ ImmTables'
    BY <1>1 DEF LsmInv, memory, ImmTables
<1> QED  BY <1>1, <1>4, <1>5, CalmStep DEF memory
-----------------------------------------------------------------------------
(***************************************************************************)
(* Flush and compaction.                                                   *)
(***************************************************************************)
\* The tables in memory stay below a next number that grows.
LEMMA NextGrows ==
    ASSUME LsmInv, nextSeq' \in Nat, nextSeq' >= nextSeq, sst' = sst
    PROVE  SstTables'
<1>1. PICK S : sst \in Seq(S) /\ \A t \in S : t.seq \in Nat /\ t.seq <= nextSeq
    BY DEF LsmInv, SstTables
<1>2. \A t \in S : t.seq <= nextSeq'
    BY <1>1 DEF LsmInv
<1> QED  BY <1>1, <1>2 DEF SstTables

\* A new table gets a number above those in memory.
LEMMA NewIsFresh ==
    ASSUME LsmInv, NEW entries, IsTable(entries), NewTable(entries), sst' = sst
    PROVE  nextSeq' \in Nat /\ nextSeq' >= nextSeq /\ Fresh'
<1>1. nextSeq' = nextSeq + 1 /\ nextSeq \in Nat
    BY DEF NewTable, LsmInv
<1>2. table'.seq = nextSeq' /\ table'.entries = entries
    BY <1>1 DEF NewTable, RebuildSSTableMetadata
<1>3. PICK S : sst \in Seq(S) /\ \A t \in S : t.seq \in Nat /\ t.seq <= nextSeq
    BY DEF LsmInv, SstTables
<1>4. \A i \in DOMAIN sst : sst[i] \in S
    BY <1>3
<1>5. \A i \in DOMAIN sst' : sst'[i].seq < table'.seq
    BY <1>1, <1>2, <1>3, <1>4
<1> QED  BY <1>1, <1>2, <1>5 DEF Fresh

\* Writing begins: the files are as before.
LEMMA WritingBegins ==
    ASSUME LsmInv, Steady, Fresh', nextSeq' \in Nat, nextSeq' >= nextSeq,
           UNCHANGED <<sst, manifest, files>>, IsTable(mem'), ImmTables',
           todo' \in Seq(Steps),
           \/ Path(<<"createSSTable", "writeSSTable", "publishFlushed", "writeManifest">>)'
           \/ Path(<<"createSSTable", "writeSSTable", "removeFiles", "publishCompacted",
                     "writeManifest">>)'
    PROVE  LsmInv'
<1>1. Steady'
    BY DEF Steady, Current, AllStored, Stored
<1>2. Writing'
    BY <1>1 DEF Writing
<1>3. ManifestSound'
    BY DEF LsmInv, ManifestSound
<1> QED  BY <1>2, <1>3, NextGrows DEF LsmInv, Stage

\* FlushImmutableMemTablesLocked: the oldest memtable is to be written, or none is left.
LEMMA FlushStep ==
    ASSUME LsmInv, FlushImmutableMemTablesLocked
    PROVE  LsmInv'
<1>1. /\ todo # <<>> /\ Head(todo) \in Calm /\ up = "open" /\ mem' = Empty
      /\ UNCHANGED <<sst, manifest, files, up>>
    BY DEF FlushImmutableMemTablesLocked, Step, Locked, Calm, disk
<1>2. Path(<<>>) /\ Steady
    BY <1>1, CalmHead DEF LsmInv
<1>3. Tail(todo) \in Seq(Steps) /\ \A i \in 1 .. Len(Tail(todo)) : Tail(todo)[i] \in Calm
    BY <1>1, <1>2, CalmTail DEF LsmInv
<1>4. IsTable(mem')
    BY <1>1, TableForms
<1>5. CASE Rotated(mem) = <<>>
    <2>1. todo' = Tail(todo) /\ UNCHANGED <<imm, nextSeq>>
        BY <1>5 DEF FlushImmutableMemTablesLocked, Done, Continue
    <2>2. todo' \in Seq(Steps) /\ Path(<<>>)' /\ ImmTables'
        BY <1>3, <2>1 DEF LsmInv, ImmTables, Path
    <2> QED  BY <1>1, <1>4, <2>1, <2>2, CalmStep
<1>6. CASE Rotated(mem) # <<>>
    <2>1. /\ imm' = Tail(Rotated(mem)) /\ NewTable(Head(Rotated(mem)))
          /\ todo' = FlushSteps \o Tail(todo)
        BY <1>6 DEF FlushImmutableMemTablesLocked
    <2>2. PICK S : Rotated(mem) \in Seq(S) /\ \A x \in S : IsTable(x)
        BY RotatedTables DEF LsmInv
    <2>3. Head(Rotated(mem)) \in S /\ Tail(Rotated(mem)) \in Seq(S)
        BY <1>6, <2>2
    <2>4. IsTable(Head(Rotated(mem))) /\ ImmTables'
        BY <2>1, <2>2, <2>3 DEF ImmTables
    <2>5. nextSeq' \in Nat /\ nextSeq' >= nextSeq /\ Fresh'
        BY <1>1, <2>1, <2>4, NewIsFresh
    <2>6. /\ todo' \in Seq(Steps)
          /\ Path(<<"createSSTable", "writeSSTable", "publishFlushed", "writeManifest">>)'
        <3> DEFINE s == <<"createSSTable", "writeSSTable", "publishFlushed", "writeManifest">>
        <3>1. s \in Seq(Steps) /\ <<"flush">> \in Seq(Steps) /\ "flush" \in Calm
            BY DEF Steps, Calm
        <3>2. FlushSteps \o Tail(todo) = s \o (<<"flush">> \o Tail(todo))
            BY <1>3, <3>1 DEF FlushSteps
        <3>3. /\ <<"flush">> \o Tail(todo) \in Seq(Steps)
              /\ \A i \in 1 .. Len(<<"flush">> \o Tail(todo)) : (<<"flush">> \o Tail(todo))[i] \in Calm
            BY <1>3, <3>1
        <3> QED  BY <2>1, <3>1, <3>2, <3>3, PathConcat
    <2> QED  BY <1>1, <1>2, <1>4, <2>4, <2>5, <2>6, WritingBegins
<1> QED  BY <1>5, <1>6

\* CompactSSTablesLocked: nothing to merge, nothing left, or a merged table to be written.
LEMMA CompactStep ==
    ASSUME LsmInv, CompactSSTablesLocked
    PROVE  LsmInv'
<1>1. /\ todo # <<>> /\ Head(todo) \in Calm /\ up = "open"
      /\ UNCHANGED <<mem, imm, sst, manifest, files, up>>
    BY DEF CompactSSTablesLocked, Step, Locked, Calm, disk
<1>2. Path(<<>>) /\ Steady
    BY <1>1, CalmHead DEF LsmInv
<1>3. Tail(todo) \in Seq(Steps) /\ \A i \in 1 .. Len(Tail(todo)) : Tail(todo)[i] \in Calm
    BY <1>1, <1>2, CalmTail DEF LsmInv
<1>4. IsTable(mem') /\ ImmTables' /\ ManifestSound'
    BY <1>1 DEF LsmInv, ImmTables, ManifestSound
<1>5. CASE Len(sst) <= 1
    <2>1. todo' = Tail(todo) /\ UNCHANGED nextSeq
        BY <1>5 DEF CompactSSTablesLocked, Done, Continue
    <2>2. todo' \in Seq(Steps) /\ Path(<<>>)'
        BY <1>3, <2>1 DEF Path
    <2> QED  BY <1>1, <1>4, <2>1, <2>2, CalmStep
<1>6. CASE ~(Len(sst) <= 1) /\ CompactedEntries = Empty
    <2> DEFINE s == <<"removeFiles", "publishNone", "writeManifest">>
    <2>1. todo' = s \o Tail(todo) /\ UNCHANGED nextSeq
        BY <1>6 DEF CompactSSTablesLocked, Continue
    <2>2. s \in Seq(Steps)
        BY DEF Steps
    <2>3. todo' \in Seq(Steps) /\ Path(s)'
        BY <1>3, <2>1, <2>2, PathConcat
    <2>4. Stage'
        BY <2>3 DEF Stage, Clearing
    <2>5. SstTables' /\ nextSeq' \in Nat
        BY <1>1, <2>1, NextGrows DEF LsmInv
    <2> QED  BY <1>4, <2>3, <2>4, <2>5 DEF LsmInv
<1>7. CASE ~(Len(sst) <= 1) /\ CompactedEntries # Empty
    <2> DEFINE s == <<"createSSTable", "writeSSTable", "removeFiles", "publishCompacted",
                      "writeManifest">>
    <2>1. NewTable(CompactedEntries) /\ todo' = s \o Tail(todo)
        BY <1>7 DEF CompactSSTablesLocked
    <2>2. IsTable(CompactedEntries)
        BY TableForms DEF CompactedEntries, Live
    <2>3. nextSeq' \in Nat /\ nextSeq' >= nextSeq /\ Fresh'
        BY <1>1, <2>1, <2>2, NewIsFresh
    <2>4. s \in Seq(Steps)
        BY DEF Steps
    <2>5. todo' \in Seq(Steps) /\ Path(s)'
        BY <1>3, <2>1, <2>4, PathConcat
    <2> QED  BY <1>1, <1>2, <1>4, <2>3, <2>5, WritingBegins
<1> QED  BY <1>5, <1>6, <1>7
-----------------------------------------------------------------------------
(***************************************************************************)
(* The steps on the files.                                                 *)
(***************************************************************************)
\* The stage that a step on the files belongs to.
LEMMA StageOfHead ==
    ASSUME todo \in Seq(Steps), Stage, todo # <<>>
    PROVE  /\ Head(todo) = "createSSTable" =>
                /\ Steady /\ Fresh
                /\ \/ Path(<<"createSSTable", "writeSSTable", "publishFlushed", "writeManifest">>)
                   \/ Path(<<"createSSTable", "writeSSTable", "removeFiles", "publishCompacted",
                             "writeManifest">>)
           /\ Head(todo) = "writeSSTable" =>
                /\ Steady /\ Fresh
                /\ \/ Path(<<"writeSSTable", "publishFlushed", "writeManifest">>)
                   \/ Path(<<"writeSSTable", "removeFiles", "publishCompacted", "writeManifest">>)
           /\ Head(todo) = "publishFlushed" => Adding
           /\ Head(todo) = "removeFiles" =>
                \/ Path(Merges) /\ Fresh /\ Stored(table)
                \/ Path(<<"removeFiles", "publishNone", "writeManifest">>)
                \/ /\ IsTable(table)
                   /\ Path(<<"removeFiles", "install", "rewriteWAL", "publishNone", "writeManifest">>)
           /\ Head(todo) = "publishCompacted" => Path(Replaces) /\ Fresh /\ Stored(table)
           /\ Head(todo) = "install" =>
                IsTable(table) /\ Path(<<"install", "rewriteWAL", "publishNone", "writeManifest">>)
           /\ Head(todo) = "rewriteWAL" => Path(<<"rewriteWAL", "publishNone", "writeManifest">>)
           /\ Head(todo) = "publishNone" => Path(<<"publishNone", "writeManifest">>)
           /\ Head(todo) = "writeManifest" => Naming
<1>1. ASSUME NEW s, Len(s) \in Nat \ {0}, Path(s) PROVE Head(todo) = s[1]
    BY <1>1 DEF Path
<1>2. Path(<<>>) => Head(todo) \in Calm
    BY DEF Path
<1>3. CASE Path(<<>>)
    BY <1>2, <1>3 DEF Calm
<1>4. CASE Writing
    <2>1. CASE Path(<<"createSSTable", "writeSSTable", "publishFlushed", "writeManifest">>)
        <3>1. Head(todo) = "createSSTable"  BY <1>1, <2>1
        <3> QED  BY <1>4, <2>1, <3>1 DEF Writing
    <2>2. CASE Path(<<"createSSTable", "writeSSTable", "removeFiles", "publishCompacted",
                      "writeManifest">>)
        <3> DEFINE b == <<"createSSTable", "writeSSTable", "removeFiles", "publishCompacted",
                          "writeManifest">>
        <3>1. Len(b) = 5 /\ b[1] = "createSSTable" /\ Path(b)
            BY <2>2
        <3> HIDE DEF b
        <3>2. Head(todo) = "createSSTable"  BY <1>1, <3>1
        <3> QED  BY <1>4, <2>2, <3>2 DEF Writing
    <2>3. CASE Path(<<"writeSSTable", "publishFlushed", "writeManifest">>)
        <3>1. Head(todo) = "writeSSTable"  BY <1>1, <2>3
        <3> QED  BY <1>4, <2>3, <3>1 DEF Writing
    <2>4. CASE Path(<<"writeSSTable", "removeFiles", "publishCompacted", "writeManifest">>)
        <3>1. Head(todo) = "writeSSTable"  BY <1>1, <2>4
        <3> QED  BY <1>4, <2>4, <3>1 DEF Writing
    <2> QED  BY <1>4, <2>1, <2>2, <2>3, <2>4 DEF Writing
<1>5. CASE Adding
    <2>1. Head(todo) = "publishFlushed"  BY <1>1, <1>5 DEF Adding, Adds
    <2> QED  BY <1>5, <2>1
<1>6. CASE Merging
    <2>1. CASE Path(Merges)
        <3>1. Head(todo) = "removeFiles"  BY <1>1, <2>1 DEF Merges
        <3> QED  BY <1>6, <2>1, <3>1 DEF Merging
    <2>2. CASE Path(Replaces)
        <3>1. Head(todo) = "publishCompacted"  BY <1>1, <2>2 DEF Replaces
        <3> QED  BY <1>6, <2>2, <3>1 DEF Merging
    <2> QED  BY <1>6, <2>1, <2>2 DEF Merging
<1>7. CASE Clearing
    <2>1. CASE Path(<<"removeFiles", "publishNone", "writeManifest">>)
        <3>1. Head(todo) = "removeFiles"  BY <1>1, <2>1
        <3> QED  BY <2>1, <3>1
    <2>2. CASE IsTable(table)
               /\ Path(<<"removeFiles", "install", "rewriteWAL", "publishNone", "writeManifest">>)
        <3>1. Head(todo) = "removeFiles"  BY <1>1, <2>2, SMTT(30)
        <3> QED  BY <2>2, <3>1
    <2>3. CASE IsTable(table) /\ Path(<<"install", "rewriteWAL", "publishNone", "writeManifest">>)
        <3>1. Head(todo) = "install"  BY <1>1, <2>3
        <3> QED  BY <2>3, <3>1
    <2>4. CASE Path(<<"rewriteWAL", "publishNone", "writeManifest">>)
        <3>1. Head(todo) = "rewriteWAL"  BY <1>1, <2>4
        <3> QED  BY <2>4, <3>1
    <2>5. CASE Path(<<"publishNone", "writeManifest">>)
        <3>1. Head(todo) = "publishNone"  BY <1>1, <2>5
        <3> QED  BY <2>5, <3>1
    <2> QED  BY <1>7, <2>1, <2>2, <2>3, <2>4, <2>5 DEF Clearing
<1>8. CASE Naming
    <2>1. Head(todo) = "writeManifest"  BY <1>1, <1>8, SMTT(30) DEF Naming
    <2> QED  BY <1>8, <2>1
<1> QED  BY <1>3, <1>4, <1>5, <1>6, <1>7, <1>8 DEF Stage

\* A step of a call is done, and it is not the last one.
LEMMA DoneNotLast ==
    ASSUME todo \in Seq(Steps), NEW s \in Seq(Steps), Len(s) >= 2, Path(s), Done
    PROVE  todo' \in Seq(Steps) /\ Path(Tail(s))' /\ table' = table
<1>1. todo' = Tail(todo) /\ (Tail(todo) # <<>> => table' = table)
    BY DEF Done, Continue
<1>2. s # <<>> /\ Len(todo) >= 2
    BY DEF Path
<1>3. Tail(todo) # <<>>
    <2>1. Tail(todo) \in Seq(Steps) /\ Len(Tail(todo)) = Len(todo) - 1 /\ Len(todo) \in Nat
        BY <1>2
    <2>2. Len(Tail(todo)) # 0
        BY <1>2, <2>1
    <2> QED  BY <2>1, <2>2, EmptySeq
<1>4. todo' \in Seq(Steps) /\ Path(Tail(s))'
    BY <1>1, <1>2, PathTail
<1>5. table' = table
    BY <1>1, <1>3
<1> QED  BY <1>4, <1>5

\* Another file than those of the tables in memory is written.
LEMMA OtherFile ==
    ASSUME LsmInv, Steady, Fresh, NEW c, files' = With(files, table.seq, c),
           UNCHANGED <<sst, manifest, nextSeq, table>>
    PROVE  Steady' /\ Fresh' /\ (c # Torn => Stored(table)')
<1>1. DOMAIN files' = DOMAIN files \cup {table.seq}
      /\ \A q \in DOMAIN files' : files'[q] = IF q = table.seq THEN c ELSE files[q]
    BY DEF With
<1>2. \A i \in DOMAIN sst : sst[i].seq # table.seq
    <2>1. PICK S : sst \in Seq(S) /\ \A t \in S : t.seq \in Nat /\ t.seq <= nextSeq
        BY DEF LsmInv, SstTables
    <2>2. \A i \in DOMAIN sst : sst[i] \in S
        BY <2>1
    <2> QED  BY <2>1, <2>2 DEF LsmInv, Fresh
<1>3. AllStored'
    BY <1>1, <1>2 DEF Steady, AllStored, Stored
<1> QED  BY <1>1, <1>3 DEF Steady, Current, Fresh, Stored

\* PersistSSTableLocked: the new file is created, then written.
LEMMA PersistStep ==
    ASSUME MarksApart, LsmInv, PersistSSTableLocked
    PROVE  LsmInv'
<1>1. /\ todo \in Seq(Steps) /\ todo # <<>> /\ up = "open" /\ Stage /\ Done
      /\ UNCHANGED <<memory, manifest, up>>
    BY DEF PersistSSTableLocked, Step, Locked, LsmInv
<1>2. /\ IsTable(mem') /\ ImmTables' /\ ManifestSound'
      /\ UNCHANGED <<sst, nextSeq>> /\ nextSeq \in Nat
    BY <1>1 DEF LsmInv, memory, ImmTables, ManifestSound
<1>3. SstTables'
    BY <1>2, NextGrows
<1>4. ASSUME todo' \in Seq(Steps), Stage' PROVE LsmInv'
    BY <1>1, <1>2, <1>3, <1>4 DEF LsmInv
<1>5. CASE Head(todo) = "createSSTable" /\ files' = With(files, table.seq, Torn)
    <2> DEFINE a == <<"createSSTable", "writeSSTable", "publishFlushed", "writeManifest">>
               b == <<"createSSTable", "writeSSTable", "removeFiles", "publishCompacted",
                      "writeManifest">>
    <2>1. Steady /\ Fresh /\ (Path(a) \/ Path(b))
        BY <1>1, <1>5, StageOfHead
    <2>2. /\ a \in Seq(Steps) /\ Len(a) >= 2
          /\ Tail(a) = <<"writeSSTable", "publishFlushed", "writeManifest">>
          /\ b \in Seq(Steps) /\ Len(b) >= 2
          /\ Tail(b) = <<"writeSSTable", "removeFiles", "publishCompacted", "writeManifest">>
        BY DEF Steps
    <2> HIDE DEF a, b
    <2>3. todo' \in Seq(Steps) /\ table' = table /\ (Path(Tail(a))' \/ Path(Tail(b))')
        BY <1>1, <2>1, <2>2, DoneNotLast
    <2>4. Steady' /\ Fresh'
        BY <1>2, <1>1, <1>5, <2>1, <2>3, OtherFile
    <2> QED  BY <1>4, <2>2, <2>3, <2>4 DEF Stage, Writing
<1>6. CASE Head(todo) = "writeSSTable" /\ files' = With(files, table.seq, table.entries)
    <2> DEFINE a == <<"writeSSTable", "publishFlushed", "writeManifest">>
               b == <<"writeSSTable", "removeFiles", "publishCompacted", "writeManifest">>
    <2>1. Steady /\ Fresh /\ (Path(a) \/ Path(b))
        BY <1>1, <1>6, StageOfHead
    <2>2. /\ a \in Seq(Steps) /\ Len(a) >= 2 /\ Tail(a) = Adds
          /\ b \in Seq(Steps) /\ Len(b) >= 2 /\ Tail(b) = Merges
        BY DEF Steps, Adds, Merges
    <2> HIDE DEF a, b
    <2>3. todo' \in Seq(Steps) /\ table' = table /\ (Path(Tail(a))' \/ Path(Tail(b))')
        BY <1>1, <2>1, <2>2, DoneNotLast
    <2>4. table.entries # Torn
        BY <2>1 DEF Fresh, MarksApart
    <2>5. Steady' /\ Fresh' /\ Stored(table)'
        BY <1>1, <1>2, <1>6, <2>1, <2>3, <2>4, OtherFile
    <2> QED  BY <1>4, <2>2, <2>3, <2>5 DEF Stage, Adding, Merging, Steady
<1> QED  BY <1>5, <1>6 DEF PersistSSTableLocked, Step

\* A set of numbers that is not empty has a smallest one: the intervals below its members
\* are finite sets, which strict inclusion orders well.
LEMMA LeastOf ==
    ASSUME NEW S \in SUBSET Nat, S # {}
    PROVE  \E x \in S : \A y \in S : x <= y
<1>1. PICK z \in S : TRUE
    OBVIOUS
<1> DEFINE low == {x \in S : x <= z}
           below == {1 .. x : x \in low}
<1>2. IsFiniteSet(1 .. z)
    BY FS_Interval
<1>3. IsWellFoundedOn(StrictSubsetOrdering(1 .. z), FiniteSubsetsOf(1 .. z))
    BY FS_StrictSubsetOrderingWellFounded
<1>4. below \subseteq FiniteSubsetsOf(1 .. z) /\ below # {}
    BY <1>1, <1>2, FS_Subset DEF FiniteSubsetsOf
<1> HIDE DEF below
<1>5. PICK s \in below : \A t \in below : ~ (<<t, s>> \in StrictSubsetOrdering(1 .. z))
    BY <1>3, <1>4, WFMin
<1>6. PICK x \in low : s = 1 .. x
    BY <1>5 DEF below
<1>7. ASSUME NEW y \in low PROVE x <= y
    <2>1. 1 .. y \in below
        BY DEF below
    <2>2. x \in Nat /\ y \in Nat /\ x <= z /\ y <= z /\ z \in Nat
        OBVIOUS
    <2>3. 1 .. y \in SUBSET (1 .. z) /\ 1 .. x \in SUBSET (1 .. z)
        BY <2>2
    <2>4. <<1 .. y, 1 .. x>> \notin StrictSubsetOrdering(1 .. z)
        BY <1>5, <1>6, <2>1
    <2>5. ~ (1 .. y \subseteq 1 .. x /\ 1 .. y # 1 .. x)
        BY <2>3, <2>4 DEF StrictSubsetOrdering
    <2>6. y < x => (x \in 1 .. x /\ x \notin 1 .. y /\ 1 .. y \subseteq 1 .. x)
        BY <2>2
    <2>7. ~ (y < x)
        BY <2>5, <2>6
    <2> QED  BY <2>2, <2>7
<1> QED  BY <1>1, <1>6, <1>7

\* The numbers of the tables in memory.
LEMMA SstNumbers ==
    ASSUME LsmInv
    PROVE  \A i \in DOMAIN sst : sst[i].seq \in Nat /\ sst[i].seq <= nextSeq
<1>1. PICK S : sst \in Seq(S) /\ \A t \in S : t.seq \in Nat /\ t.seq <= nextSeq
    BY DEF LsmInv, SstTables
<1>2. \A i \in DOMAIN sst : sst[i] \in S
    BY <1>1
<1> QED  BY <1>1, <1>2

\* What the memory holds is as before, and the stage is known.
LEMMA StageStep ==
    ASSUME LsmInv, todo' \in Seq(Steps), Stage',
           UNCHANGED <<mem, imm, sst, nextSeq, manifest>>
    PROVE  LsmInv'
<1>1. IsTable(mem') /\ ImmTables' /\ ManifestSound' /\ SstTables'
    BY DEF LsmInv, ImmTables, ManifestSound, SstTables
<1> QED  BY <1>1 DEF LsmInv

\* DeleteSSTableFilesLocked: the removed files are those of tables in memory, never that of
\* the merged one.
LEMMA RemoveStep ==
    ASSUME LsmInv, DeleteSSTableFilesLocked
    PROVE  LsmInv'
<1> DEFINE a == <<"removeFiles", "publishNone", "writeManifest">>
           b == <<"removeFiles", "install", "rewriteWAL", "publishNone", "writeManifest">>
           left == {i \in DOMAIN sst : sst[i].seq \in DOMAIN files}
<1>1. /\ todo \in Seq(Steps) /\ todo # <<>> /\ Head(todo) = "removeFiles" /\ up = "open" /\ Stage
      /\ UNCHANGED <<mem, imm, sst, nextSeq, manifest, up>>
    BY DEF DeleteSSTableFilesLocked, Step, Locked, LsmInv, memory
<1>2. \/ Path(Merges) /\ Fresh /\ Stored(table)
      \/ Path(a)
      \/ IsTable(table) /\ Path(b)
    BY <1>1, StageOfHead
<1>3. /\ Merges \in Seq(Steps) /\ Len(Merges) >= 2 /\ Tail(Merges) = Replaces
      /\ a \in Seq(Steps) /\ Len(a) >= 2 /\ Tail(a) = <<"publishNone", "writeManifest">>
      /\ b \in Seq(Steps) /\ Len(b) >= 2
      /\ Tail(b) = <<"install", "rewriteWAL", "publishNone", "writeManifest">>
    BY DEF Steps, Merges, Replaces
<1>4. CASE left = {}
    <2>1. Done /\ UNCHANGED files
        BY <1>4 DEF DeleteSSTableFilesLocked
    <2>2. CASE Path(Merges) /\ Fresh /\ Stored(table)
        <3>1. todo' \in Seq(Steps) /\ Path(Replaces)' /\ table' = table
            BY <1>1, <1>3, <2>1, <2>2, DoneNotLast
        <3>2. Merging'
            BY <1>1, <2>1, <2>2, <3>1 DEF Merging, Fresh, Stored
        <3> QED  BY <1>1, <3>1, <3>2, StageStep DEF Stage
    <2>3. CASE Path(a)
        <3> HIDE DEF a
        <3>1. todo' \in Seq(Steps) /\ Path(Tail(a))'
            BY <1>1, <1>3, <2>1, <2>3, DoneNotLast
        <3>2. Clearing'
            BY <1>3, <3>1 DEF Clearing
        <3> QED  BY <1>1, <3>1, <3>2, StageStep DEF Stage
    <2>4. CASE IsTable(table) /\ Path(b)
        <3> HIDE DEF b
        <3>1. todo' \in Seq(Steps) /\ Path(Tail(b))' /\ table' = table
            BY <1>1, <1>3, <2>1, <2>4, DoneNotLast
        <3>2. Clearing'
            BY <1>3, <2>4, <3>1 DEF Clearing
        <3> QED  BY <1>1, <3>1, <3>2, StageStep DEF Stage
    <2> QED  BY <1>2, <2>2, <2>3, <2>4
<1>5. CASE left # {}
    <2>1. files' = On(files, DOMAIN files \ {sst[Min(left)].seq}) /\ UNCHANGED <<todo, table>>
        BY <1>5 DEF DeleteSSTableFilesLocked
    <2>2. todo' \in Seq(Steps) /\ \A s : Path(s) => Path(s)'
        BY <1>1, <2>1 DEF Path
    <2>3. CASE Path(Merges) /\ Fresh /\ Stored(table)
        <3>1. Min(left) \in left
            <4>1. PICK S : sst \in Seq(S) BY DEF LsmInv, SstTables
            <4>2. DOMAIN sst = 1 .. Len(sst) /\ Len(sst) \in Nat BY <4>1
            <4>3. left \subseteq Int /\ left # {} /\ \A i \in left : i >= 1
                BY <1>5, <4>2
            <4> HIDE DEF left
            <4>4. \E x \in left : \A y \in left : x <= y
                BY <4>3, LeastOf
            <4> QED  BY <4>4 DEF Min
        <3>2. sst[Min(left)].seq # table.seq
            BY <2>3, <3>1, SstNumbers DEF Fresh
        <3>3. Stored(table)'
            BY <2>1, <2>3, <3>2 DEF Stored, On
        <3>4. Merging'
            BY <1>1, <2>1, <2>2, <2>3, <3>3 DEF Merging, Fresh
        <3> QED  BY <1>1, <2>2, <3>4, StageStep DEF Stage
    <2>4. CASE Path(a)
        <3>1. Clearing'
            BY <2>2, <2>4 DEF Clearing
        <3> QED  BY <1>1, <2>2, <3>1, StageStep DEF Stage
    <2>5. CASE IsTable(table) /\ Path(b)
        <3>1. Clearing'
            BY <2>1, <2>2, <2>5 DEF Clearing
        <3> QED  BY <1>1, <2>2, <3>1, StageStep DEF Stage
    <2> QED  BY <1>2, <2>3, <2>4, <2>5
<1> QED  BY <1>4, <1>5

\* PublishTables: every table of the new list is stored, and the manifest is to be written.
LEMMA PublishStep ==
    ASSUME LsmInv, PublishTables
    PROVE  LsmInv'
<1> DEFINE c == <<"publishNone", "writeManifest">>
           w == <<"writeManifest">>
<1>1. /\ todo \in Seq(Steps) /\ todo # <<>> /\ up = "open" /\ Stage /\ nextSeq \in Nat
      /\ Done /\ manifest' = Torn
      /\ UNCHANGED <<mem, imm, nextSeq, files, up>>
    BY DEF PublishTables, Step, Locked, LsmInv
<1>2. /\ Adds \in Seq(Steps) /\ Len(Adds) >= 2 /\ Tail(Adds) = w
      /\ Replaces \in Seq(Steps) /\ Len(Replaces) >= 2 /\ Tail(Replaces) = w
      /\ c \in Seq(Steps) /\ Len(c) >= 2 /\ Tail(c) = w
    BY DEF Steps, Adds, Replaces
<1> HIDE DEF c, w
<1>3. ASSUME NEW s \in {Adds, Replaces, c}, Path(s), AllStored', SstTables'
      PROVE  LsmInv'
    <2>1. todo' \in Seq(Steps) /\ Path(w)'
        BY <1>1, <1>2, <1>3, DoneNotLast
    <2>2. Naming'
        BY <1>3, <2>1 DEF Naming, w
    <2>3. IsTable(mem') /\ ImmTables' /\ ManifestSound'
        BY <1>1 DEF LsmInv, ImmTables, ManifestSound
    <2> QED  BY <1>1, <1>3, <2>1, <2>2, <2>3 DEF LsmInv, Stage
<1>4. CASE Head(todo) = "publishFlushed" /\ sst' = Append(sst, table)
    <2>1. Path(Adds) /\ AllStored /\ Fresh /\ Stored(table)
        BY <1>1, <1>4, StageOfHead DEF Adding
    <2>2. PICK S : sst \in Seq(S) /\ \A t \in S : t.seq \in Nat /\ t.seq <= nextSeq
        BY DEF LsmInv, SstTables
    <2>3. sst \in Seq(S \cup {table}) /\ sst' \in Seq(S \cup {table})
        BY <1>4, <2>2
    <2>4. table.seq \in Nat /\ table.seq <= nextSeq
        BY <1>1, <2>1 DEF Fresh
    <2>5. SstTables'
        BY <1>1, <2>2, <2>3, <2>4 DEF SstTables
    <2>6. \A i \in DOMAIN sst' : sst'[i] = table \/ (i \in DOMAIN sst /\ sst'[i] = sst[i])
        <3>1. /\ DOMAIN sst = 1 .. Len(sst) /\ DOMAIN sst' = 1 .. Len(sst) + 1 /\ Len(sst) \in Nat
              /\ \A i \in 1 .. Len(sst) : sst'[i] = sst[i]
              /\ sst'[Len(sst) + 1] = table
            BY <1>4, <2>3
        <3> QED  BY <3>1
    <2>7. AllStored'
        BY <1>1, <2>1, <2>6 DEF AllStored, Stored
    <2> QED  BY <1>3, <2>1, <2>5, <2>7
<1>5. CASE Head(todo) = "publishCompacted" /\ sst' = <<table>>
    <2>1. Path(Replaces) /\ Fresh /\ Stored(table)
        BY <1>1, <1>5, StageOfHead
    <2>2. sst' \in Seq({table}) /\ \A i \in DOMAIN sst' : sst'[i] = table
        BY <1>5
    <2>3. table.seq \in Nat /\ table.seq <= nextSeq
        BY <1>1, <2>1 DEF Fresh
    <2>4. SstTables'
        BY <1>1, <2>2, <2>3 DEF SstTables
    <2>5. AllStored'
        BY <1>1, <2>1, <2>2 DEF AllStored, Stored
    <2> QED  BY <1>3, <2>1, <2>4, <2>5
<1>6. CASE Head(todo) = "publishNone" /\ sst' = <<>>
    <2>1. Path(c)
        BY <1>1, <1>6, StageOfHead DEF c
    <2>2. sst' \in Seq({}) /\ DOMAIN sst' = {}
        BY <1>6
    <2>3. SstTables' /\ AllStored'
        BY <2>2 DEF SstTables, AllStored
    <2> QED  BY <1>3, <2>1, <2>3
<1> QED  BY <1>4, <1>5, <1>6 DEF PublishTables, Step

\* WriteManifest ends the window.
LEMMA ManifestStep ==
    ASSUME LsmInv, WriteManifest
    PROVE  LsmInv'
<1> DEFINE w == <<"writeManifest">>
           s == [i \in DOMAIN sst |-> sst[i].seq]
<1>1. /\ todo \in Seq(Steps) /\ todo # <<>> /\ Head(todo) = "writeManifest" /\ up = "open" /\ Stage
      /\ nextSeq \in Nat /\ todo' = Tail(todo)
      /\ manifest' = [next |-> nextSeq, tables |-> s]
      /\ UNCHANGED <<mem, imm, sst, nextSeq, files, up>>
    BY DEF WriteManifest, Step, Locked, LsmInv, Done, Continue, memory
<1>2. Path(w) /\ AllStored
    BY <1>1, StageOfHead DEF Naming
<1>3. w \in Seq(Steps) /\ w # <<>> /\ Tail(w) = <<>>
    BY DEF Steps
<1> HIDE DEF w
<1>4. todo' \in Seq(Steps) /\ Path(<<>>)'
    BY <1>1, <1>2, <1>3, PathTail
<1>5. Current' /\ AllStored'
    BY <1>1, <1>2 DEF Current, AllStored, Stored
<1>6. Stage'
    BY <1>4, <1>5 DEF Stage, Steady
<1>7. \A i \in DOMAIN sst : sst[i].seq \in Nat /\ sst[i].seq <= nextSeq
    BY SstNumbers
<1>8. DOMAIN sst = 1 .. Len(sst) /\ Len(sst) \in Nat
    BY DEF LsmInv, SstTables
<1>9. s \in Seq(Nat) /\ \A i \in 1 .. Len(s) : s[i] <= nextSeq
    BY <1>7, <1>8
<1>10. ManifestSound'
    BY <1>1, <1>9 DEF ManifestSound
<1>11. IsTable(mem') /\ ImmTables' /\ SstTables'
    BY <1>1 DEF LsmInv, ImmTables, SstTables
<1> QED  BY <1>1, <1>4, <1>6, <1>10, <1>11 DEF LsmInv

\* InstallRestored and RewriteWALLocked, inside the window of a Restore.
LEMMA InstallStep ==
    ASSUME LsmInv, InstallRestored \/ RewriteWALLocked
    PROVE  LsmInv'
<1> DEFINE a == <<"install", "rewriteWAL", "publishNone", "writeManifest">>
           b == <<"rewriteWAL", "publishNone", "writeManifest">>
           c == <<"publishNone", "writeManifest">>
<1>1. /\ todo \in Seq(Steps) /\ todo # <<>> /\ up = "open" /\ Stage
      /\ UNCHANGED <<nextSeq, manifest, files, up>>
    BY DEF InstallRestored, RewriteWALLocked, Step, Locked, LsmInv, memory
<1>2. /\ a \in Seq(Steps) /\ Len(a) >= 2 /\ Tail(a) = b
      /\ b \in Seq(Steps) /\ Len(b) >= 2 /\ Tail(b) = c
    BY DEF Steps
<1>3. CASE InstallRestored
    <2>1. /\ Head(todo) = "install" /\ Done
          /\ mem' = table /\ imm' = <<>> /\ sst' = <<>>
        BY <1>3 DEF InstallRestored, Step
    <2>2. IsTable(table) /\ Path(a)
        BY <1>1, <2>1, StageOfHead
    <2>3. todo' \in Seq(Steps) /\ Path(b)'
        <3> HIDE DEF a, b
        <3> QED  BY <1>1, <1>2, <2>1, <2>2, DoneNotLast
    <2>4. Stage'
        BY <2>3 DEF Stage, Clearing
    <2>5. imm' \in Seq({}) /\ sst' \in Seq({})
        BY <2>1
    <2>6. ImmTables' /\ SstTables' /\ ManifestSound'
        BY <1>1, <2>5 DEF LsmInv, ImmTables, SstTables, ManifestSound
    <2> QED  BY <1>1, <2>1, <2>2, <2>3, <2>4, <2>6 DEF LsmInv
<1>4. CASE RewriteWALLocked
    <2>1. Head(todo) = "rewriteWAL" /\ UNCHANGED <<mem, imm, sst>>
        BY <1>4 DEF RewriteWALLocked, Step, memory
    <2>2. Path(b)
        BY <1>1, <2>1, StageOfHead
    <2>3. Done \/ UNCHANGED <<todo, table>>
        BY <1>4 DEF RewriteWALLocked
    <2>4. CASE Done
        <3>1. todo' \in Seq(Steps) /\ Path(c)'
            <4> HIDE DEF b, c
            <4> QED  BY <1>1, <1>2, <2>2, <2>4, DoneNotLast
        <3>2. Stage'
            BY <3>1 DEF Stage, Clearing
        <3> QED  BY <1>1, <2>1, <3>1, <3>2, StageStep
    <2>5. CASE UNCHANGED <<todo, table>>
        BY <1>1, <2>1, <2>5, SameState
    <2> QED  BY <2>3, <2>4, <2>5
<1> QED  BY <1>3, <1>4
-----------------------------------------------------------------------------
(***************************************************************************)
(* The end of the process, recovery, and the theorems.                     *)
(***************************************************************************)
\* The process ends: the disk is as it is.
LEMMA LostStep ==
    ASSUME LsmInv, Lost, UNCHANGED manifest
    PROVE  LsmInv'
<1>1. up' = "down" /\ todo' = <<>> /\ nextSeq' = 0 /\ mem' = Empty /\ imm' = <<>> /\ sst' = <<>>
    BY DEF Lost
<1>2. imm' \in Seq({}) /\ sst' \in Seq({}) /\ todo' \in Seq(Steps)
    BY <1>1
<1>3. ImmTables' /\ SstTables' /\ ManifestSound'
    BY <1>2 DEF LsmInv, ImmTables, SstTables, ManifestSound
<1> QED  BY <1>1, <1>2, <1>3, TableForms DEF LsmInv

\* RecoverFromManifestLocked loads what the manifest names, or the constructor throws.
LEMMA RecoverStep ==
    ASSUME LsmInv, RecoverFromManifestLocked
    PROVE  LsmInv'
<1>1. UNCHANGED <<mem, imm, table, manifest, files>>
    BY DEF RecoverFromManifestLocked, disk
<1>2. CASE ~Readable
    BY <1>1, <1>2, SameState DEF RecoverFromManifestLocked
<1>3. CASE Readable
    <2>1. /\ up' = "open" /\ todo' = <<"replay">>
          /\ nextSeq' = IF manifest = None THEN 0 ELSE manifest.next
          /\ sst' = IF manifest = None THEN <<>>
                    ELSE [i \in DOMAIN manifest.tables |-> LoadSSTable(manifest.tables[i])]
        BY <1>3 DEF RecoverFromManifestLocked
    <2>2. todo' \in Seq(Steps) /\ Path(<<>>)'
        <3>1. <<"replay">> \in Seq(Steps) /\ \A i \in 1 .. Len(<<"replay">>) : <<"replay">>[i] \in Calm
            BY OneCalm DEF Calm
        <3> QED  BY <2>1, <3>1 DEF Path
    <2>3. IsTable(mem') /\ ImmTables' /\ ManifestSound'
        BY <1>1 DEF LsmInv, ImmTables, ManifestSound
    <2>4. CASE manifest = None
        <3>1. nextSeq' \in Nat /\ sst' = <<>> /\ sst' \in Seq({}) /\ manifest' = None
            BY <1>1, <2>1, <2>4
        <3>2. SstTables'
            BY <3>1 DEF SstTables
        <3>3. Steady'
            BY <3>1 DEF Steady, Current, AllStored
        <3> QED  BY <2>2, <2>3, <3>1, <3>2, <3>3 DEF LsmInv, Stage
    <2>5. CASE manifest # None
        <3>1. PICK n \in Nat, s \in Seq(Nat) :
                  /\ manifest = [next |-> n, tables |-> s]
                  /\ \A i \in 1 .. Len(s) : s[i] <= n
            BY <1>3, <2>5 DEF LsmInv, ManifestSound, Readable
        <3>2. nextSeq' = n /\ sst' = [i \in DOMAIN s |-> LoadSSTable(s[i])]
            BY <2>1, <2>5, <3>1
        <3>3. \A q : LoadSSTable(q).seq = q
            BY DEF LoadSSTable, RebuildSSTableMetadata
        <3>4. DOMAIN sst' = DOMAIN s /\ \A i \in DOMAIN s : sst'[i].seq = s[i]
            BY <3>2, <3>3
        <3> DEFINE S == {LoadSSTable(s[i]) : i \in DOMAIN s}
        <3>5. DOMAIN s = 1 .. Len(s) /\ Len(s) \in Nat /\ \A i \in DOMAIN s : s[i] \in Nat /\ s[i] <= n
            BY <3>1
        <3>6. sst' \in Seq(S)
            BY <3>2, <3>5
        <3>7. SstTables'
            <4>1. \A t \in S : t.seq \in Nat /\ t.seq <= nextSeq'
                BY <3>2, <3>3, <3>5
            <4> HIDE DEF S
            <4> QED  BY <3>6, <4>1 DEF SstTables
        <3>8. manifest' = [next |-> n, tables |-> [i \in DOMAIN sst' |-> sst'[i].seq]]
            BY <1>1, <3>1, <3>4, <3>5
        <3>9. \A i \in DOMAIN s : s[i] \in DOMAIN files /\ files[s[i]] # Torn
            BY <1>3, <2>5, <3>1 DEF Readable
        <3>10. Steady'
            BY <1>1, <3>4, <3>8, <3>9 DEF Steady, Current, AllStored, Stored
        <3> QED  BY <2>2, <2>3, <3>2, <3>7, <3>10 DEF LsmInv, Stage
    <2> QED  BY <2>4, <2>5
<1> QED  BY <1>2, <1>3

\* Every step of the engine keeps the stage.
LEMMA LsmNext ==
    ASSUME MarksApart, LsmInv, [Next]_vars
    PROVE  LsmInv'
<1>1. CASE UNCHANGED vars
    BY <1>1, SameState DEF vars, memory, call, disk
<1>2. CASE \E r \in Reader : GetReturns(r) \/ \E k \in Key : Get(r, k)
    BY <1>2, SameState DEF GetReturns, Get, memory, call, disk
<1>3. ASSUME NEW c \in Calm, Idle, todo' = <<c>>, UNCHANGED <<memory, disk>>
      PROVE  LsmInv'
    <2>1. <<c>> \in Seq(Steps) /\ \A i \in 1 .. Len(<<c>>) : <<c>>[i] \in Calm
        BY OneCalm
    <2> QED  BY <1>3, <2>1, BeginsStep DEF memory, disk
<1>4. CASE \E k \in Key : Put(k) \/ Delete(k)
    BY <1>3, <1>4 DEF Put, Delete, Calm
<1>5. CASE Flush
    BY <1>3, <1>5 DEF Flush, Calm
<1>6. CASE Compact
    BY <1>3, <1>6 DEF Compact, Calm
<1>7. CASE Snapshot \/ \E enabled \in BOOLEAN : EnableAsyncFlush(enabled)
    BY <1>7, SameState DEF Snapshot, EnableAsyncFlush, memory, call, disk
<1>8. CASE StartBackgroundWorker \/ StopBackgroundWorker \/ JoinWorker \/ WorkerWakes
    BY <1>8, SameState DEF StartBackgroundWorker, StopBackgroundWorker, JoinWorker, WorkerWakes,
                           memory, call, disk
<1>9. CASE WorkerLocks
    <2> DEFINE s == <<"flush", "compact", "endOfRound">>
    <2>1. s \in Seq(Steps) /\ \A i \in 1 .. Len(s) : s[i] \in Calm
        BY DEF Steps, Calm
    <2>2. Idle /\ todo' = s /\ UNCHANGED <<memory, sst, nextSeq, manifest, files>>
        BY <1>9 DEF WorkerLocks, memory, disk
    <2> QED  BY <2>1, <2>2, BeginsStep
<1>10. CASE CallStep
    BY <1>10, MemtableStep, FlushStep, CompactStep, PersistStep, RemoveStep, PublishStep,
       ManifestStep, InstallStep, UnlocksStep DEF CallStep
<1>11. CASE Close \/ Crash
    BY <1>11, LostStep DEF Close, Crash, disk
<1> QED  BY <1>1, <1>2, <1>4, <1>5, <1>6, <1>7, <1>8, <1>9, <1>10, <1>11, RestoreStep, RecoverStep
            DEF Next, BackgroundWorkerLoop

\* The stage of the call in progress, the manifest and the tables stored agree, through any
\* number of flushes, compactions, restores, crashes and recoveries.
THEOREM StagesHold ==
    ASSUME MarksApart
    PROVE  Spec => []LsmInv
<1>1. Init => LsmInv
    BY LsmInit
<1>2. LsmInv /\ [Next]_vars => LsmInv'
    BY LsmNext
<1> QED  BY <1>1, <1>2, PTL DEF Spec

\* What the constructor reads after a crash is there (RecoverFromManifestLocked does not
\* throw), except in the two windows CrashSafe leaves out.
THEOREM CrashLeavesReadable ==
    ASSUME MarksApart
    PROVE  Spec => []CrashSafe
<1>1. LsmInv => CrashSafe
    <2> SUFFICES ASSUME LsmInv, up = "open",
                        Locked => Head(todo) \in
                            {"append", "flushIfNeeded", "flush", "createSSTable", "writeSSTable",
                             "compact", "replay", "endOfRound"}
                 PROVE  Readable
        BY DEF CrashSafe
    <2>1. todo \in Seq(Steps) /\ Stage
        BY DEF LsmInv
    <2>2. \/ todo = <<>> \/ Head(todo) \in Calm
          \/ todo # <<>> /\ Head(todo) \in {"createSSTable", "writeSSTable"}
        BY DEF Locked, Calm
    <2>3. Steady
        BY <2>1, <2>2, CalmHead, StageOfHead
    <2>4. CASE manifest = None
        BY <2>4 DEF Readable
    <2>5. CASE \E n : manifest = [next |-> n, tables |-> [i \in DOMAIN sst |-> sst[i].seq]]
        <3>1. manifest # Torn /\ manifest.tables = [i \in DOMAIN sst |-> sst[i].seq]
            BY <2>5 DEF MarksApart
        <3>2. \A i \in DOMAIN sst : sst[i].seq \in DOMAIN files /\ files[sst[i].seq] # Torn
            BY <2>3 DEF Steady, AllStored, Stored
        <3> QED  BY <3>1, <3>2 DEF Readable
    <2> QED  BY <2>3, <2>4, <2>5 DEF Steady, Current
<1> QED  BY <1>1, StagesHold, PTL
-----------------------------------------------------------------------------
(***************************************************************************)
(* Reading: what lists of tables and prefixes of the log say of a key.     *)
(***************************************************************************)
\* v is the newest entry of k in the tables, listed oldest first.
Found(tables, k, v) ==
    \E i \in DOMAIN tables :
        /\ k \in DOMAIN tables[i] /\ tables[i][k] = v
        /\ \A j \in DOMAIN tables : j > i => k \notin DOMAIN tables[j]
Absent(tables, k) == \A i \in DOMAIN tables : k \notin DOMAIN tables[i]

\* Of the first n records of a log one is about k, and the last one about k has the value v.
Written(log, n, k) == \E i \in 1 .. n : log[i].key = k
LastWrite(log, n, k, v) ==
    \E i \in 1 .. n :
        /\ log[i].key = k /\ log[i].value = v
        /\ \A j \in i + 1 .. n : log[j].key # k

\* The tables have no key that the log does not have, and of the keys in its first n
\* records they have what the last one says.
Agree(tables, log, n) ==
    \A k :
        /\ ~Absent(tables, k) => Written(log, Len(log), k)
        /\ Written(log, n, k) =>
               \A v : v # Tombstone => (Found(tables, k, v) <=> LastWrite(log, n, k, v))

\* Some tables show what others show.
Shows(a, b) ==
    \A k :
        /\ Absent(a, k) => Absent(b, k)
        /\ \A v : v # Tombstone => (Found(a, k, v) <=> Found(b, k, v))

\* A sequence of the numbers of S in ascending order.
Ascending(s, S) ==
    /\ s \in [1 .. Cardinality(S) -> S]
    /\ \A i, j \in 1 .. Cardinality(S) : i < j => s[i] < s[j]

\* Every finite set of numbers has one: its least number, then the others.
LEMMA AscendingExists ==
    ASSUME NEW S \in SUBSET Nat, IsFiniteSet(S)
    PROVE  \E s : Ascending(s, S)
<1> DEFINE Bad == {c \in Nat : \E F \in SUBSET Nat :
                      IsFiniteSet(F) /\ Cardinality(F) = c /\ ~\E s : Ascending(s, F)}
<1>1. SUFFICES ASSUME Bad # {} PROVE FALSE
    BY FS_CardinalityType
<1>2. PICK c \in Bad : \A d \in Bad : c <= d
    BY <1>1, LeastOf
<1>3. PICK F \in SUBSET Nat : IsFiniteSet(F) /\ Cardinality(F) = c /\ ~\E s : Ascending(s, F)
    BY <1>2
<1>4. F # {}
    <2>1. Ascending(<<>>, {})
        <3>1. Cardinality({}) = 0 /\ 1 .. 0 = {}
            BY FS_EmptySet
        <3>2. <<>> \in [{} -> {}]
            OBVIOUS
        <3> QED  BY <3>1, <3>2 DEF Ascending
    <2> QED  BY <1>3, <2>1
<1>5. PICK x \in F : \A m \in F : x <= m
    BY <1>4, LeastOf
<1> DEFINE T == F \ {x}
<1>6. IsFiniteSet(T) /\ Cardinality(T) = c - 1 /\ c \in Nat /\ c - 1 \in Nat
    <2>1. IsFiniteSet(T) /\ Cardinality(T) = c - 1 /\ c \in Nat
        BY <1>2, <1>3, <1>5, FS_RemoveElement
    <2>2. Cardinality(T) \in Nat
        BY <2>1, FS_CardinalityType
    <2> QED  BY <2>1, <2>2
<1>7. PICK t : Ascending(t, T)
    <2>1. c - 1 \notin Bad
        BY <1>2, <1>6
    <2> QED  BY <1>6, <2>1
<1>8. x \in Nat /\ \A m \in T : m \in Nat /\ x < m
    BY <1>3, <1>5
<1>9. /\ \A i \in 1 .. c - 1 : t[i] \in T
      /\ \A i, j \in 1 .. c - 1 : i < j => t[i] < t[j]
    BY <1>6, <1>7 DEF Ascending
<1> DEFINE s == [i \in 1 .. c |-> IF i = 1 THEN x ELSE t[i - 1]]
<1>10. s \in [1 .. c -> F]
    <2>1. ASSUME NEW i \in 1 .. c, i # 1 PROVE t[i - 1] \in F
        <3>1. i - 1 \in 1 .. c - 1
            BY <1>6, <2>1
        <3> QED  BY <1>9, <3>1
    <2> QED  BY <1>5, <2>1
<1>11. ASSUME NEW i \in 1 .. c, NEW j \in 1 .. c, i < j PROVE s[i] < s[j]
    <2>1. j # 1 /\ j - 1 \in 1 .. c - 1 /\ s[j] = t[j - 1] /\ t[j - 1] \in T
        BY <1>6, <1>9, <1>11
    <2>2. CASE i = 1
        BY <1>8, <2>1, <2>2
    <2>3. CASE i # 1
        <3>1. i - 1 \in 1 .. c - 1 /\ s[i] = t[i - 1] /\ i - 1 < j - 1
            BY <1>6, <1>11, <2>3
        <3> QED  BY <1>9, <2>1, <3>1
    <2> QED  BY <2>2, <2>3
<1>12. Ascending(s, F)
    <2> HIDE DEF s
    <2> QED  BY <1>3, <1>10, <1>11 DEF Ascending
<1> QED  BY <1>3, <1>12

\* SortedKeys lists every key of a table once, in ascending order.
LEMMA KeysSorted ==
    ASSUME NEW f, DOMAIN f \subseteq Nat, IsFiniteSet(DOMAIN f)
    PROVE  /\ SortedKeys(f) \in Seq(DOMAIN f)
           /\ Len(SortedKeys(f)) = Cardinality(DOMAIN f)
           /\ \A i, j \in 1 .. Len(SortedKeys(f)) : i < j => SortedKeys(f)[i] < SortedKeys(f)[j]
           /\ \A k \in DOMAIN f : \E i \in 1 .. Len(SortedKeys(f)) : SortedKeys(f)[i] = k
<1> DEFINE D == DOMAIN f
           n == Cardinality(D)
           s == SortedKeys(f)
<1>1. n \in Nat
    BY FS_CardinalityType
<1>2. \E t \in [1 .. n -> D] : \A i, j \in DOMAIN t : i < j => t[i] < t[j]
    <2>1. PICK t : Ascending(t, D)
        BY AscendingExists
    <2>2. t \in [1 .. n -> D] /\ DOMAIN t = 1 .. n
        BY <2>1 DEF Ascending
    <2> QED  BY <2>1, <2>2 DEF Ascending
<1>3. s \in [1 .. n -> D] /\ \A i, j \in DOMAIN s : i < j => s[i] < s[j]
    BY <1>2 DEF SortedKeys
<1> HIDE DEF s
<1>4. DOMAIN s = 1 .. n /\ s \in Seq(D) /\ Len(s) = n
    BY <1>1, <1>3
<1>5. s \in Injection(1 .. n, D)
    <2>1. ASSUME NEW i \in 1 .. n, NEW j \in 1 .. n, s[i] = s[j] PROVE i = j
        <3>1. s[i] \in Nat /\ s[j] \in Nat
            BY <1>3
        <3>2. ~(i < j) /\ ~(j < i)
            BY <1>3, <1>4, <2>1, <3>1
        <3> QED  BY <3>2
    <2> QED  BY <1>3, <1>4, <2>1 DEF Injection, IsInjective
<1>6. s \in Surjection(1 .. n, D)
    <2>1. Cardinality(1 .. n) = n
        BY <1>1, FS_Interval
    <2>2. IsFiniteSet(D) /\ Cardinality(1 .. n) = Cardinality(D)
        BY <2>1
    <2> HIDE DEF n, D
    <2> QED  BY <1>5, <2>2, FS_Injection
<1>7. \A k \in D : \E i \in 1 .. n : s[i] = k
    BY <1>6 DEF Surjection
<1> QED  BY <1>3, <1>4, <1>7 DEF s

\* The largest and the smallest number of a set.
LEMMA MaxIs ==
    ASSUME NEW S \in SUBSET Nat, NEW x \in S, \A y \in S : y <= x
    PROVE  Max(S) = x
<1>1. x \in S /\ \A y \in S : x >= y
    OBVIOUS
<1>2. \A z \in S : (\A y \in S : z >= y) => z = x
    OBVIOUS
<1> DEFINE m == CHOOSE z \in S : \A y \in S : z >= y
<1>3. m \in S /\ \A y \in S : m >= y
    BY <1>1
<1>4. m = x
    <2> HIDE DEF m
    <2> QED  BY <1>2, <1>3
<1> QED  BY <1>4 DEF Max

\* Min, of a set whose least element is known.
LEMMA MinIs ==
    ASSUME NEW S \in SUBSET Nat, NEW x \in S, \A y \in S : x <= y
    PROVE  Min(S) = x
<1>1. x \in S /\ \A y \in S : x <= y
    OBVIOUS
<1>2. \A z \in S : (\A y \in S : z <= y) => z = x
    OBVIOUS
<1> DEFINE m == CHOOSE z \in S : \A y \in S : z <= y
<1>3. m \in S /\ \A y \in S : m <= y
    BY <1>1
<1>4. m = x
    <2> HIDE DEF m
    <2> QED  BY <1>2, <1>3
<1> QED  BY <1>4 DEF Min

\* The last of the places of a list at which something holds.
LEMMA GreatestIndex ==
    ASSUME NEW n \in Nat, NEW S \in SUBSET (1 .. n), S # {}
    PROVE  Max(S) \in S /\ \A i \in S : i <= Max(S)
<1> DEFINE T == {n - i : i \in S}
<1>1. T \in SUBSET Nat /\ T # {}
    <2>1. \A i \in S : i \in Nat /\ n - i \in Nat
        OBVIOUS
    <2> QED  BY <2>1
<1>2. PICK x \in T : \A y \in T : x <= y
    <2> HIDE DEF T
    <2> QED  BY <1>1, LeastOf
<1>3. PICK i \in S : x = n - i
    BY <1>2
<1>4. \A j \in S : j <= i
    <2> TAKE j \in S
    <2>1. n - j \in T
        OBVIOUS
    <2>2. n - i <= n - j
        BY <1>2, <1>3, <2>1
    <2> QED  BY <2>2
<1>5. S \in SUBSET Nat /\ i \in S
    BY <1>3
<1>6. Max(S) = i
    BY <1>4, <1>5, MaxIs
<1> QED  BY <1>4, <1>5, <1>6
-----------------------------------------------------------------------------
(***************************************************************************)
(* The newest entry of a key, and the last record about it.                *)
(***************************************************************************)
\* A key has one newest entry, unless it is in no table.
LEMMA FoundOnce ==
    ASSUME NEW S, NEW t \in Seq(S), NEW k
    PROVE  /\ \A v, w : Found(t, k, v) /\ Found(t, k, w) => v = w
           /\ \A v : Found(t, k, v) => ~Absent(t, k)
           /\ ~Absent(t, k) => Found(t, k, t[Max({i \in DOMAIN t : k \in DOMAIN t[i]})][k])
<1>1. DOMAIN t = 1 .. Len(t) /\ Len(t) \in Nat
    OBVIOUS
<1>2. ASSUME NEW v, NEW w, Found(t, k, v), Found(t, k, w) PROVE v = w
    <2>1. PICK i \in 1 .. Len(t) : /\ k \in DOMAIN t[i] /\ t[i][k] = v
                                   /\ \A j \in 1 .. Len(t) : j > i => k \notin DOMAIN t[j]
        BY <1>1, <1>2 DEF Found
    <2>2. PICK j \in 1 .. Len(t) : /\ k \in DOMAIN t[j] /\ t[j][k] = w
                                   /\ \A x \in 1 .. Len(t) : x > j => k \notin DOMAIN t[x]
        BY <1>1, <1>2 DEF Found
    <2>3. ~(j > i) /\ ~(i > j)
        BY <2>1, <2>2
    <2>4. i = j
        BY <1>1, <2>3
    <2> QED  BY <2>1, <2>2, <2>4
<1>3. \A v : Found(t, k, v) => ~Absent(t, k)
    BY DEF Found, Absent
<1>4. ASSUME ~Absent(t, k)
      PROVE  Found(t, k, t[Max({i \in DOMAIN t : k \in DOMAIN t[i]})][k])
    <2> DEFINE I == {i \in DOMAIN t : k \in DOMAIN t[i]}
    <2>1. I \in SUBSET (1 .. Len(t)) /\ I # {}
        BY <1>1, <1>4 DEF Absent
    <2> HIDE DEF I
    <2>2. Max(I) \in I /\ \A i \in I : i <= Max(I)
        BY <1>1, <2>1, GreatestIndex
    <2>3. \A j \in DOMAIN t : j > Max(I) => k \notin DOMAIN t[j]
        <3> SUFFICES ASSUME NEW j \in DOMAIN t, j > Max(I), k \in DOMAIN t[j] PROVE FALSE
            OBVIOUS
        <3>1. j \in I
            BY DEF I
        <3>2. j <= Max(I) /\ j \in Nat /\ Max(I) \in Nat
            BY <1>1, <2>1, <2>2, <3>1
        <3> QED  BY <3>2
    <2>4. Max(I) \in DOMAIN t /\ k \in DOMAIN t[Max(I)]
        BY <2>2 DEF I
    <2> QED  BY <2>3, <2>4 DEF Found, I
<1> QED  BY <1>2, <1>3, <1>4

\* The newest entry of two lists of tables is that of the newer list, if there is one.
LEMMA FoundInBoth ==
    ASSUME NEW S, NEW a \in Seq(S), NEW b \in Seq(S), NEW k
    PROVE  /\ Absent(a \o b, k) <=> Absent(a, k) /\ Absent(b, k)
           /\ \A v : Found(a \o b, k, v) <=> (Found(b, k, v) \/ (Found(a, k, v) /\ Absent(b, k)))
<1> DEFINE c == a \o b
           m == Len(a)
           n == Len(b)
<1>1. /\ m \in Nat /\ n \in Nat /\ DOMAIN a = 1 .. m /\ DOMAIN b = 1 .. n
      /\ DOMAIN c = 1 .. m + n
      /\ \A i \in 1 .. m : i \in 1 .. m + n /\ c[i] = a[i]
      /\ \A i \in 1 .. n : m + i \in 1 .. m + n /\ c[m + i] = b[i]
      /\ \A i \in 1 .. m + n : i \in 1 .. m \/ (i - m \in 1 .. n /\ c[i] = b[i - m])
    <2>1. c \in Seq(S) /\ Len(c) = m + n /\ \A i \in 1 .. m + n : c[i] = IF i <= m THEN a[i] ELSE b[i - m]
        BY ConcatProperties
    <2>2. m \in Nat /\ n \in Nat /\ DOMAIN a = 1 .. m /\ DOMAIN b = 1 .. n
        OBVIOUS
    <2>3. DOMAIN c = 1 .. m + n
        BY <2>1
    <2> HIDE DEF c, m, n
    <2>4. \A i \in 1 .. m : i \in 1 .. m + n /\ c[i] = a[i]
        BY <2>1, <2>2
    <2>5. \A i \in 1 .. n : m + i \in 1 .. m + n /\ c[m + i] = b[i]
        <3> TAKE i \in 1 .. n
        <3>1. m + i \in 1 .. m + n /\ ~(m + i <= m) /\ (m + i) - m = i
            BY <2>2
        <3> QED  BY <2>1, <3>1
    <2>6. \A i \in 1 .. m + n : i \in 1 .. m \/ (i - m \in 1 .. n /\ c[i] = b[i - m])
        BY <2>1, <2>2
    <2> QED  BY <2>2, <2>3, <2>4, <2>5, <2>6
<1> HIDE DEF c, m, n
<1>2. Absent(c, k) <=> Absent(a, k) /\ Absent(b, k)
    <2>1. ASSUME Absent(c, k) PROVE Absent(a, k) /\ Absent(b, k)
        BY <1>1, <2>1 DEF Absent
    <2>2. ASSUME Absent(a, k), Absent(b, k) PROVE Absent(c, k)
        BY <1>1, <2>2 DEF Absent
    <2> QED  BY <2>1, <2>2
<1>3. ASSUME NEW v, Found(b, k, v) PROVE Found(c, k, v)
    <2>1. PICK i \in 1 .. n : /\ k \in DOMAIN b[i] /\ b[i][k] = v
                              /\ \A j \in 1 .. n : j > i => k \notin DOMAIN b[j]
        BY <1>1, <1>3 DEF Found
    <2>2. \A j \in 1 .. m + n : j > m + i => k \notin DOMAIN c[j]
        <3> TAKE j \in 1 .. m + n
        <3>1. SUFFICES ASSUME j > m + i PROVE k \notin DOMAIN c[j]
            OBVIOUS
        <3>2. j \notin 1 .. m /\ j - m > i
            BY <1>1, <3>1
        <3> QED  BY <1>1, <2>1, <3>2
    <2>3. m + i \in DOMAIN c /\ c[m + i] = b[i]
        BY <1>1
    <2> QED  BY <1>1, <2>1, <2>2, <2>3 DEF Found
<1>4. ASSUME NEW v, Found(a, k, v), Absent(b, k) PROVE Found(c, k, v)
    <2>1. PICK i \in 1 .. m : /\ k \in DOMAIN a[i] /\ a[i][k] = v
                              /\ \A j \in 1 .. m : j > i => k \notin DOMAIN a[j]
        BY <1>1, <1>4 DEF Found
    <2>2. \A j \in 1 .. m + n : j > i => k \notin DOMAIN c[j]
        BY <1>1, <1>4, <2>1 DEF Absent
    <2>3. i \in DOMAIN c /\ c[i] = a[i]
        BY <1>1
    <2> QED  BY <1>1, <2>1, <2>2, <2>3 DEF Found
<1>5. ASSUME NEW v, Found(c, k, v) PROVE Found(b, k, v) \/ (Found(a, k, v) /\ Absent(b, k))
    <2>1. PICK i \in 1 .. m + n : /\ k \in DOMAIN c[i] /\ c[i][k] = v
                                  /\ \A j \in 1 .. m + n : j > i => k \notin DOMAIN c[j]
        BY <1>1, <1>5 DEF Found
    <2>2. CASE i \in 1 .. m
        <3>1. \A j \in 1 .. m : j > i => k \notin DOMAIN a[j]
            BY <1>1, <2>1
        <3>2. Absent(b, k)
            <4> SUFFICES ASSUME NEW j \in 1 .. n PROVE k \notin DOMAIN b[j]
                BY <1>1 DEF Absent
            <4>1. m + j \in 1 .. m + n /\ m + j > i /\ c[m + j] = b[j]
                BY <1>1, <2>2
            <4> QED  BY <2>1, <4>1
        <3>3. c[i] = a[i]
            BY <1>1, <2>2
        <3> QED  BY <1>1, <2>1, <2>2, <3>1, <3>2, <3>3 DEF Found
    <2>3. CASE i \notin 1 .. m
        <3>1. i - m \in 1 .. n /\ c[i] = b[i - m]
            BY <1>1, <2>3
        <3>2. \A j \in 1 .. n : j > i - m => k \notin DOMAIN b[j]
            <4> TAKE j \in 1 .. n
            <4>1. SUFFICES ASSUME j > i - m PROVE k \notin DOMAIN b[j]
                OBVIOUS
            <4>2. m + j \in 1 .. m + n /\ m + j > i /\ c[m + j] = b[j]
                BY <1>1, <4>1
            <4> QED  BY <2>1, <4>2
        <3> QED  BY <1>1, <2>1, <3>1, <3>2 DEF Found
    <2> QED  BY <2>2, <2>3
<1> QED  BY <1>2, <1>3, <1>4, <1>5 DEF c

\* One table, and none.
LEMMA FoundInOne ==
    ASSUME NEW f, NEW k
    PROVE  /\ Absent(<<f>>, k) <=> k \notin DOMAIN f
           /\ \A v : Found(<<f>>, k, v) <=> (k \in DOMAIN f /\ f[k] = v)
           /\ Absent(<<>>, k)
           /\ \A v : ~Found(<<>>, k, v)
<1>1. DOMAIN <<f>> = {1} /\ <<f>>[1] = f /\ DOMAIN <<>> = {}
    OBVIOUS
<1> QED  BY <1>1 DEF Absent, Found

\* A key that a log has a record about has a last one.
LEMMA LastWriteOnce ==
    ASSUME NEW log, NEW n \in Nat, NEW k
    PROVE  /\ \A v, w : LastWrite(log, n, k, v) /\ LastWrite(log, n, k, w) => v = w
           /\ Written(log, n, k) => \E v : LastWrite(log, n, k, v)
           /\ \A v : LastWrite(log, n, k, v) => Written(log, n, k)
<1>1. ASSUME NEW v, NEW w, LastWrite(log, n, k, v), LastWrite(log, n, k, w) PROVE v = w
    <2>1. PICK i \in 1 .. n : /\ log[i].key = k /\ log[i].value = v
                              /\ \A j \in i + 1 .. n : log[j].key # k
        BY <1>1 DEF LastWrite
    <2>2. PICK j \in 1 .. n : /\ log[j].key = k /\ log[j].value = w
                              /\ \A x \in j + 1 .. n : log[x].key # k
        BY <1>1 DEF LastWrite
    <2>3. ~(j > i) /\ ~(i > j)
        BY <2>1, <2>2
    <2>4. i = j
        BY <2>3
    <2> QED  BY <2>1, <2>2, <2>4
<1>2. ASSUME Written(log, n, k) PROVE \E v : LastWrite(log, n, k, v)
    <2> DEFINE I == {i \in 1 .. n : log[i].key = k}
    <2>1. I \in SUBSET (1 .. n) /\ I # {}
        BY <1>2 DEF Written
    <2> HIDE DEF I
    <2>2. Max(I) \in I /\ \A i \in I : i <= Max(I)
        BY <2>1, GreatestIndex
    <2>3. Max(I) \in 1 .. n /\ log[Max(I)].key = k
        BY <2>2 DEF I
    <2>4. \A j \in Max(I) + 1 .. n : log[j].key # k
        <3> SUFFICES ASSUME NEW j \in Max(I) + 1 .. n, log[j].key = k PROVE FALSE
            OBVIOUS
        <3>1. j \in I
            BY <2>3 DEF I
        <3>2. j <= Max(I)
            BY <2>2, <3>1
        <3> QED  BY <2>3, <3>2
    <2> QED  BY <2>3, <2>4 DEF LastWrite
<1>3. \A v : LastWrite(log, n, k, v) => Written(log, n, k)
    BY DEF LastWrite, Written
<1> QED  BY <1>1, <1>2, <1>3

\* One record more.
LEMMA LastWriteNext ==
    ASSUME NEW log, NEW n \in Nat, NEW k
    PROVE  /\ Written(log, n + 1, k) <=> (log[n + 1].key = k \/ Written(log, n, k))
           /\ log[n + 1].key = k =>
                  \A v : LastWrite(log, n + 1, k, v) <=> log[n + 1].value = v
           /\ log[n + 1].key # k =>
                  \A v : LastWrite(log, n + 1, k, v) <=> LastWrite(log, n, k, v)
<1>1. \A i : i \in 1 .. n + 1 <=> (i \in 1 .. n \/ i = n + 1)
    OBVIOUS
<1>2. Written(log, n + 1, k) <=> (log[n + 1].key = k \/ Written(log, n, k))
    BY <1>1 DEF Written
<1>3. ASSUME NEW v, log[n + 1].key = k
      PROVE  LastWrite(log, n + 1, k, v) <=> log[n + 1].value = v
    <2>1. ASSUME LastWrite(log, n + 1, k, v) PROVE log[n + 1].value = v
        <3>1. PICK i \in 1 .. n + 1 : /\ log[i].key = k /\ log[i].value = v
                                      /\ \A j \in i + 1 .. n + 1 : log[j].key # k
            BY <2>1 DEF LastWrite
        <3>2. n + 1 \notin i + 1 .. n + 1
            BY <1>3, <3>1
        <3>3. i = n + 1
            BY <3>2
        <3> QED  BY <3>1, <3>3
    <2>2. ASSUME log[n + 1].value = v PROVE LastWrite(log, n + 1, k, v)
        <3>1. n + 1 \in 1 .. n + 1 /\ \A j \in (n + 1) + 1 .. n + 1 : log[j].key # k
            OBVIOUS
        <3> QED  BY <1>3, <2>2, <3>1 DEF LastWrite
    <2> QED  BY <2>1, <2>2
<1>4. ASSUME NEW v, log[n + 1].key # k
      PROVE  LastWrite(log, n + 1, k, v) <=> LastWrite(log, n, k, v)
    <2>1. ASSUME LastWrite(log, n + 1, k, v) PROVE LastWrite(log, n, k, v)
        <3>1. PICK i \in 1 .. n + 1 : /\ log[i].key = k /\ log[i].value = v
                                      /\ \A j \in i + 1 .. n + 1 : log[j].key # k
            BY <2>1 DEF LastWrite
        <3>2. i \in 1 .. n /\ \A j \in i + 1 .. n : log[j].key # k
            BY <1>1, <1>4, <3>1
        <3> QED  BY <3>1, <3>2 DEF LastWrite
    <2>2. ASSUME LastWrite(log, n, k, v) PROVE LastWrite(log, n + 1, k, v)
        <3>1. PICK i \in 1 .. n : /\ log[i].key = k /\ log[i].value = v
                                  /\ \A j \in i + 1 .. n : log[j].key # k
            BY <2>2 DEF LastWrite
        <3>2. i \in 1 .. n + 1 /\ \A j \in i + 1 .. n + 1 : log[j].key # k
            BY <1>4, <3>1
        <3> QED  BY <3>1, <3>2 DEF LastWrite
    <2> QED  BY <2>1, <2>2
<1> QED  BY <1>2, <1>3, <1>4

\* Records at the end change nothing of what comes before them.
LEMMA LastWriteKept ==
    ASSUME NEW log, NEW longer, NEW n \in Nat, \A i \in 1 .. n : longer[i] = log[i], NEW k
    PROVE  /\ Written(longer, n, k) <=> Written(log, n, k)
           /\ \A v : LastWrite(longer, n, k, v) <=> LastWrite(log, n, k, v)
<1>1. \A i \in 1 .. n : \A j \in i + 1 .. n : j \in 1 .. n
    OBVIOUS
<1> QED  BY <1>1 DEF Written, LastWrite

\* What tables that show the same agree with.
LEMMA AgreeKept ==
    ASSUME NEW a, NEW b, NEW log, NEW n, Agree(a, log, n), Shows(a, b)
    PROVE  Agree(b, log, n)
BY DEF Agree, Shows

\* Showing the same is reflexive and transitive.
LEMMA ShowsAll ==
    /\ \A a : Shows(a, a)
    /\ \A a, b, c : Shows(a, b) /\ Shows(b, c) => Shows(a, c)
BY DEF Shows

\* What is newer covers what shows the same.
LEMMA ShowsUnder ==
    ASSUME NEW S, NEW a \in Seq(S), NEW b \in Seq(S), NEW c \in Seq(S), Shows(a, b)
    PROVE  Shows(a \o c, b \o c)
<1>1. \A k : Absent(a \o c, k) => Absent(b \o c, k)
    BY FoundInBoth DEF Shows
<1>2. \A k, v : v # Tombstone => (Found(a \o c, k, v) <=> Found(b \o c, k, v))
    BY FoundInBoth DEF Shows
<1> QED  BY <1>1, <1>2 DEF Shows

\* A record is put into the memtable, and it is the next one of the log.
LEMMA AgreeWrite ==
    ASSUME NEW S, NEW t \in Seq(S), NEW m \in S, NEW log, NEW longer, NEW n \in Nat,
           Agree(t \o <<m>>, log, n),
           Len(log) \in Nat, Len(longer) \in Nat, n <= Len(log), Len(log) <= Len(longer),
           n + 1 <= Len(longer), \A i \in 1 .. Len(log) : longer[i] = log[i],
           NEW k, NEW v, longer[n + 1].key = k, longer[n + 1].value = v,
           With(m, k, v) \in S
    PROVE  Agree(t \o <<With(m, k, v)>>, longer, n + 1)
<1> DEFINE w == With(m, k, v)
<1>1. /\ DOMAIN w = DOMAIN m \cup {k} /\ w[k] = v
      /\ \A x \in DOMAIN m : x # k => w[x] = m[x]
    BY DEF With
<1>2. <<m>> \in Seq(S) /\ <<w>> \in Seq(S)
    OBVIOUS
<1> HIDE DEF w
<1>3. ASSUME NEW x PROVE ~Absent(t \o <<w>>, x) => x = k \/ ~Absent(t \o <<m>>, x)
    BY <1>1, <1>2, FoundInBoth, FoundInOne
<1>4. ASSUME NEW x, Written(log, Len(log), x) PROVE Written(longer, Len(longer), x)
    BY <1>4 DEF Written
<1>5. Written(longer, Len(longer), k)
    <2>1. n + 1 \in 1 .. Len(longer)
        OBVIOUS
    <2> QED  BY <2>1 DEF Written
<1>6. \A x : ~Absent(t \o <<w>>, x) => Written(longer, Len(longer), x)
    BY <1>3, <1>4, <1>5 DEF Agree
<1>7. \A i \in 1 .. n : longer[i] = log[i]
    OBVIOUS
<1>8. ASSUME NEW x, x # k, Written(longer, n + 1, x), NEW u, u # Tombstone
      PROVE  Found(t \o <<w>>, x, u) <=> LastWrite(longer, n + 1, x, u)
    <2>1. /\ Written(longer, n + 1, x) <=> Written(longer, n, x)
          /\ LastWrite(longer, n + 1, x, u) <=> LastWrite(longer, n, x, u)
        BY <1>8, LastWriteNext
    <2>2. /\ Written(longer, n, x) <=> Written(log, n, x)
          /\ LastWrite(longer, n, x, u) <=> LastWrite(log, n, x, u)
        BY <1>7, LastWriteKept
    <2>3. Found(t \o <<m>>, x, u) <=> LastWrite(log, n, x, u)
        BY <1>8, <2>1, <2>2 DEF Agree
    <2>4. /\ Found(<<w>>, x, u) <=> Found(<<m>>, x, u)
          /\ Absent(<<w>>, x) <=> Absent(<<m>>, x)
        BY <1>1, <1>8, FoundInOne
    <2>5. /\ Found(t \o <<w>>, x, u) <=> (Found(<<w>>, x, u) \/ (Found(t, x, u) /\ Absent(<<w>>, x)))
          /\ Found(t \o <<m>>, x, u) <=> (Found(<<m>>, x, u) \/ (Found(t, x, u) /\ Absent(<<m>>, x)))
        BY <1>2, FoundInBoth
    <2> QED  BY <2>1, <2>2, <2>3, <2>4, <2>5
<1>9. ASSUME NEW u PROVE Found(t \o <<w>>, k, u) <=> LastWrite(longer, n + 1, k, u)
    <2>1. LastWrite(longer, n + 1, k, u) <=> u = v
        <3>1. \A x : longer[n + 1].key = x => (LastWrite(longer, n + 1, x, u) <=> longer[n + 1].value = u)
            BY LastWriteNext
        <3> QED  BY <3>1
    <2>2. (Found(<<w>>, k, u) <=> u = v) /\ ~Absent(<<w>>, k)
        BY <1>1, FoundInOne
    <2>3. Found(t \o <<w>>, k, u) <=> (Found(<<w>>, k, u) \/ (Found(t, k, u) /\ Absent(<<w>>, k)))
        <3>1. \A x : Found(t \o <<w>>, x, u)
                       <=> (Found(<<w>>, x, u) \/ (Found(t, x, u) /\ Absent(<<w>>, x)))
            BY <1>2, FoundInBoth
        <3> QED  BY <3>1
    <2> QED  BY <2>1, <2>2, <2>3
<1> QED  BY <1>6, <1>8, <1>9 DEF Agree, w

\* What a log says.
LEMMA LoggedIs ==
    ASSUME NEW S, NEW log \in Seq(S)
    PROVE  /\ IsTable(Logged(log))
           /\ \A k : k \in DOMAIN Logged(log) <=>
                         \E v : v # Tombstone /\ LastWrite(log, Len(log), k, v)
           /\ \A k, v : k \in DOMAIN Logged(log) /\ LastWrite(log, Len(log), k, v)
                         => Logged(log)[k] = v
<1> DEFINE n == Len(log)
           last == {i \in DOMAIN log : /\ log[i].value # Tombstone
                                       /\ \A j \in i + 1 .. Len(log) : log[j].key # log[i].key}
           f == [k \in {log[i].key : i \in last} |-> log[CHOOSE i \in last : log[i].key = k].value]
<1>1. Logged(log) = f
    BY DEF Logged
<1>2. DOMAIN log = 1 .. n /\ n \in Nat
    OBVIOUS
<1>3. IsTable(f) /\ DOMAIN f = {log[i].key : i \in last}
    BY DEF IsTable
<1>4. \A k : \A i \in last : log[i].key = k => log[i].value # Tombstone /\ LastWrite(log, n, k, log[i].value)
    BY <1>2 DEF LastWrite
<1>5. ASSUME NEW k, NEW v, v # Tombstone, LastWrite(log, n, k, v) PROVE k \in DOMAIN f
    <2>1. PICK i \in 1 .. n : /\ log[i].key = k /\ log[i].value = v
                              /\ \A j \in i + 1 .. n : log[j].key # k
        BY <1>5 DEF LastWrite
    <2>2. i \in last
        BY <1>2, <1>5, <2>1
    <2> QED  BY <1>3, <2>1, <2>2
<1>6. ASSUME NEW k \in DOMAIN f
      PROVE  f[k] # Tombstone /\ LastWrite(log, n, k, f[k])
    <2> DEFINE i == CHOOSE i \in last : log[i].key = k
    <2>1. f[k] = log[i].value
        BY <1>3
    <2>2. \E j \in last : log[j].key = k
        BY <1>3
    <2>3. i \in last /\ log[i].key = k
        BY <2>2
    <2> HIDE DEF i, f, last
    <2> QED  BY <1>4, <2>1, <2>3
<1> HIDE DEF f, last
<1>7. \A k, v : k \in DOMAIN f /\ LastWrite(log, n, k, v) => f[k] = v
    BY <1>2, <1>6, LastWriteOnce
<1>8. \A k : k \in DOMAIN f => \E v : v # Tombstone /\ LastWrite(log, n, k, v)
    BY <1>6
<1> QED  BY <1>1, <1>3, <1>5, <1>7, <1>8

\* What tables show.
LEMMA LiveIs ==
    ASSUME NEW S, NEW t \in Seq(S)
    PROVE  /\ IsTable(Live(Newest(t)))
           /\ \A k : k \in DOMAIN Live(Newest(t)) <=> \E v : v # Tombstone /\ Found(t, k, v)
           /\ \A k, v : k \in DOMAIN Live(Newest(t)) /\ Found(t, k, v) => Live(Newest(t))[k] = v
<1> DEFINE f == Newest(t)
<1>1. /\ DOMAIN f = UNION {DOMAIN t[i] : i \in DOMAIN t}
      /\ \A k \in DOMAIN f : f[k] = t[Max({i \in DOMAIN t : k \in DOMAIN t[i]})][k]
    BY DEF Newest
<1>2. \A k : k \in DOMAIN f <=> ~Absent(t, k)
    BY <1>1 DEF Absent
<1>3. ASSUME NEW k \in DOMAIN f PROVE Found(t, k, f[k])
    <2>1. Found(t, k, t[Max({i \in DOMAIN t : k \in DOMAIN t[i]})][k])
        BY <1>2, FoundOnce
    <2> QED  BY <1>1, <2>1
<1>4. \A k : k \in DOMAIN Live(f) <=> k \in DOMAIN f /\ f[k] # Tombstone
    BY DEF Live, On
<1>5. \A k \in DOMAIN Live(f) : Live(f)[k] = f[k]
    BY DEF Live, On
<1>6. IsTable(Live(f))
    BY TableForms DEF Live
<1> HIDE DEF f
<1>7. \A k, v : Found(t, k, v) => k \in DOMAIN f /\ f[k] = v
    BY <1>2, <1>3, FoundOnce
<1>8. \A k : k \in DOMAIN Live(f) <=> \E v : v # Tombstone /\ Found(t, k, v)
    BY <1>3, <1>4, <1>7
<1>9. \A k, v : k \in DOMAIN Live(f) /\ Found(t, k, v) => Live(f)[k] = v
    BY <1>5, <1>7
<1> QED  BY <1>6, <1>8, <1>9 DEF f

\* Tables that agree with the whole log show what it says.
LEMMA AgreeShows ==
    ASSUME NEW S, NEW t \in Seq(S), NEW R, NEW log \in Seq(R), Agree(t, log, Len(log))
    PROVE  Live(Newest(t)) = Logged(log)
<1> DEFINE a == Live(Newest(t))
           b == Logged(log)
           n == Len(log)
<1>1. /\ IsTable(a)
      /\ \A k : k \in DOMAIN a <=> \E v : v # Tombstone /\ Found(t, k, v)
      /\ \A k, v : k \in DOMAIN a /\ Found(t, k, v) => a[k] = v
    BY LiveIs
<1>2. /\ IsTable(b) /\ n \in Nat
      /\ \A k : k \in DOMAIN b <=> \E v : v # Tombstone /\ LastWrite(log, n, k, v)
      /\ \A k, v : k \in DOMAIN b /\ LastWrite(log, n, k, v) => b[k] = v
    BY LoggedIs
<1> HIDE DEF a, b
<1>3. ASSUME NEW k, NEW v, v # Tombstone PROVE Found(t, k, v) <=> LastWrite(log, n, k, v)
    <2>1. CASE Written(log, n, k)
        BY <1>3, <2>1 DEF Agree
    <2>2. CASE ~Written(log, n, k)
        <3>1. ~LastWrite(log, n, k, v)
            BY <1>2, <2>2, LastWriteOnce
        <3>2. Absent(t, k)
            BY <2>2 DEF Agree
        <3> QED  BY <3>1, <3>2, FoundOnce
    <2> QED  BY <2>1, <2>2
<1>4. DOMAIN a = DOMAIN b
    BY <1>1, <1>2, <1>3
<1>5. ASSUME NEW k \in DOMAIN a PROVE a[k] = b[k]
    <2>1. PICK v : v # Tombstone /\ Found(t, k, v)
        BY <1>1
    <2> QED  BY <1>1, <1>2, <1>3, <1>4, <2>1
<1>6. a = b
    BY <1>1, <1>2, <1>4, <1>5 DEF IsTable
<1> QED  BY <1>6 DEF a, b
-----------------------------------------------------------------------------
(***************************************************************************)
(* The Bloom filter and the blocks of a table let every key through.       *)
(***************************************************************************)
\* Products and quotients.
LEMMA Quotient ==
    ASSUME NEW d \in Nat \ {0}, NEW n \in Nat
    PROVE  n \div d \in Nat /\ (n \div d) * d <= n /\ n < (n \div d) * d + d
OBVIOUS

\* A product grows with its factor.
LEMMA ProductGrows ==
    ASSUME NEW d \in Nat, NEW a \in Nat, NEW b \in Nat, a <= b
    PROVE  a * d \in Nat /\ a * d <= b * d
OBVIOUS

\* Where block b of n keys begins and ends.
First(b) == (b - 1) * BlockEntryCount + 1
End(b, n) == IF b * BlockEntryCount <= n THEN b * BlockEntryCount ELSE n

\* Every key is in a block, and a block ends before the next one begins.
LEMMA BlockBounds ==
    ASSUME NEW n \in Nat
    PROVE  LET D == 1 .. (n + BlockEntryCount - 1) \div BlockEntryCount
           IN  /\ \A b \in D : First(b) \in Nat /\ End(b, n) \in Nat /\ 1 <= First(b)
                               /\ First(b) <= End(b, n) /\ End(b, n) <= n
                               /\ Min({b * BlockEntryCount, n}) = End(b, n)
               /\ \A b, c \in D : b < c => End(b, n) < First(c)
               /\ \A p \in 1 .. n : \E b \in D : First(b) <= p /\ p <= End(b, n)
<1> DEFINE B == BlockEntryCount
           q == (n + B - 1) \div B
<1>1. B \in Nat \ {0} /\ n + B - 1 \in Nat
    BY LsmAssumption
<1>2. q \in Nat /\ q * B <= n + B - 1 /\ n + B - 1 < q * B + B
    <2> HIDE DEF B
    <2> QED  BY <1>1, Quotient
<1> HIDE DEF q
<1>3. ASSUME NEW b \in 1 .. q
      PROVE  First(b) \in Nat /\ End(b, n) \in Nat /\ 1 <= First(b)
             /\ First(b) <= End(b, n) /\ End(b, n) <= n
             /\ Min({b * B, n}) = End(b, n)
    <2>1. b * B \in Nat /\ b * B <= q * B
        BY <1>1, <1>2, ProductGrows
    <2>2. (b - 1) * B = b * B - B /\ (b - 1) * B \in Nat
        <3>1. (b - 1) * B = b * B - B
            BY <1>1, <1>2
        <3>2. b - 1 \in Nat
            BY <1>2
        <3>3. (b - 1) * B \in Nat
            <4> DEFINE a == b - 1
            <4>1. a \in Nat  BY <3>2
            <4> HIDE DEF a
            <4>2. a * B \in Nat  BY <1>1, <4>1, ProductGrows
            <4> QED  BY <4>2 DEF a
        <3> QED  BY <3>1, <3>3
    <2> DEFINE e == b * B
    <2>3. e \in Nat /\ First(b) = e - B + 1 /\ First(b) \in Nat /\ 1 <= First(b) /\ e - B <= n - 1
          /\ End(b, n) = IF e <= n THEN e ELSE n
        BY <1>1, <1>2, <2>1, <2>2 DEF First, End
    <2> HIDE DEF e
    <2>4. End(b, n) \in Nat /\ First(b) <= End(b, n) /\ End(b, n) <= n
        BY <1>1, <2>3
    <2>5. Min({e, n}) = End(b, n)
        <3>1. {e, n} \in SUBSET Nat /\ End(b, n) \in {e, n} /\ \A y \in {e, n} : End(b, n) <= y
            BY <2>3
        <3> QED  BY <3>1, MinIs
    <2> QED  BY <2>3, <2>4, <2>5 DEF e
<1>4. ASSUME NEW b \in 1 .. q, NEW c \in 1 .. q, b < c PROVE End(b, n) < First(c)
    <2> DEFINE a == c - 1
    <2>1. b \in Nat /\ a \in Nat /\ b <= a
        BY <1>2, <1>4
    <2> HIDE DEF a
    <2>2. b * B \in Nat /\ b * B <= a * B /\ a * B \in Nat
        BY <1>1, <2>1, ProductGrows
    <2>3. End(b, n) <= b * B
        BY <2>2 DEF End
    <2>4. First(c) = a * B + 1
        BY DEF First, a
    <2>5. End(b, n) \in Nat
        BY <1>3
    <2> QED  BY <2>2, <2>3, <2>4, <2>5
<1>5. ASSUME NEW p \in 1 .. n PROVE \E b \in 1 .. q : First(b) <= p /\ p <= End(b, n)
    <2> DEFINE a == (p - 1) \div B
               b == a + 1
    <2>1. p - 1 \in Nat /\ p \in Nat
        OBVIOUS
    <2>2. a \in Nat /\ a * B <= p - 1 /\ p - 1 < a * B + B
        <3> HIDE DEF B
        <3> QED  BY <1>1, <2>1, Quotient
    <2> HIDE DEF a
    <2>3. b * B = a * B + B
        BY <1>1, <2>2
    <2>4. a * B \in Nat
        BY <1>1, <2>2, ProductGrows
    <2>5. a < q
        <3> SUFFICES ASSUME q <= a PROVE FALSE
            BY <1>2, <2>2
        <3>1. q * B <= a * B /\ q * B \in Nat
            BY <1>1, <1>2, <2>2, ProductGrows
        <3> DEFINE x == q * B
                   y == a * B
        <3>2. x \in Nat /\ y \in Nat /\ x <= y /\ y <= p - 1 /\ n + B - 1 < x + B
            BY <1>2, <2>2, <2>4, <3>1
        <3> HIDE DEF x, y
        <3> QED  BY <1>1, <3>2
    <2>6. b \in 1 .. q /\ First(b) = a * B + 1
        BY <1>2, <2>2, <2>5 DEF First
    <2>7. p <= b * B
        <3> DEFINE y == a * B
        <3>1. y \in Nat /\ b * B = y + B /\ p - 1 < y + B
            BY <2>2, <2>3, <2>4
        <3> HIDE DEF y, b
        <3> QED  BY <1>1, <3>1
    <2>8. First(b) <= p
        <3> DEFINE y == a * B
        <3>1. y \in Nat /\ First(b) = y + 1 /\ y <= p - 1
            BY <2>2, <2>4, <2>6
        <3> HIDE DEF y, b
        <3> QED  BY <3>1
    <2>9. p <= End(b, n)
        BY <2>7 DEF End
    <2> QED  BY <2>6, <2>8, <2>9
<1> QED  BY <1>3, <1>4, <1>5 DEF q
\* A block: its keys, the first and the last of them.
LEMMA BlockIs ==
    ASSUME NEW keys \in Seq(Nat), NEW b \in DOMAIN Blocks(keys)
    PROVE  /\ First(b) \in 1 .. Len(keys) /\ End(b, Len(keys)) \in 1 .. Len(keys)
           /\ Blocks(keys)[b][1] = keys[First(b)]
           /\ Last(Blocks(keys)[b]) = keys[End(b, Len(keys))]
           /\ \A x : x \in Range(Blocks(keys)[b]) <=>
                         \E p \in First(b) .. End(b, Len(keys)) : keys[p] = x
<1> DEFINE n == Len(keys)
           f == First(b)
           e == End(b, n)
           s == SubSeq(keys, f, e)
<1>1. n \in Nat /\ \A i \in 1 .. n : keys[i] \in Nat
    OBVIOUS
<1>2. b \in 1 .. (n + BlockEntryCount - 1) \div BlockEntryCount
    BY DEF Blocks
<1>3. /\ f \in Nat /\ e \in Nat /\ 1 <= f /\ f <= e /\ e <= n
      /\ Min({b * BlockEntryCount, n}) = e
    BY <1>1, <1>2, BlockBounds
<1>4. Blocks(keys)[b] = s
    BY <1>2, <1>3 DEF Blocks, First
<1>5. \A i \in f .. e : keys[i] \in Nat
    BY <1>1, <1>3
<1> HIDE DEF f, e
<1>6. s \in Seq(Nat) /\ Len(s) = e - f + 1 /\ \A i \in 1 .. e - f + 1 : s[i] = keys[f + i - 1]
    BY <1>3, <1>5, SubSeqProperties
<1> HIDE DEF s
<1>7. s[1] = keys[f] /\ s[Len(s)] = keys[e]
    <2>1. 1 \in 1 .. e - f + 1 /\ e - f + 1 \in 1 .. e - f + 1 /\ f + 1 - 1 = f
          /\ f + (e - f + 1) - 1 = e
        BY <1>3
    <2> QED  BY <1>6, <2>1
<1>8. DOMAIN s = 1 .. e - f + 1
    BY <1>6
<1>9. ASSUME NEW x PROVE x \in Range(s) <=> \E p \in f .. e : keys[p] = x
    <2>1. ASSUME x \in Range(s) PROVE \E p \in f .. e : keys[p] = x
        <3>1. PICK i \in 1 .. e - f + 1 : s[i] = x
            BY <1>8, <2>1 DEF Range
        <3>2. f + i - 1 \in f .. e
            BY <1>3
        <3> QED  BY <1>6, <3>1, <3>2
    <2>2. ASSUME NEW p \in f .. e, keys[p] = x PROVE x \in Range(s)
        <3>1. p - f + 1 \in 1 .. e - f + 1 /\ f + (p - f + 1) - 1 = p
            BY <1>3
        <3> QED  BY <1>6, <1>8, <2>2, <3>1 DEF Range
    <2> QED  BY <2>1, <2>2
<1>10. f \in 1 .. n /\ e \in 1 .. n
    BY <1>1, <1>3
<1> QED  BY <1>4, <1>7, <1>9, <1>10 DEF f, e, Last

\* The three filters of a table let through exactly its keys.
LEMMA TableLookup ==
    ASSUME NEW q, NEW f, DOMAIN f \subseteq Key, IsFiniteSet(DOMAIN f), NEW x \in Key
    PROVE  x \in DOMAIN f <=> /\ MayContain(RebuildSSTableMetadata(q, f), x)
                              /\ FindInIndexedBlock(RebuildSSTableMetadata(q, f), x)
<1> DEFINE keys == SortedKeys(f)
           n == Len(keys)
           t == RebuildSSTableMetadata(q, f)
           covering == {b \in DOMAIN Blocks(keys) :
                            Blocks(keys)[b][1] <= x /\ x <= Last(Blocks(keys)[b])}
<1>1. Key \subseteq Nat /\ \A k \in Key : Hash[k] # {}
    BY LsmAssumption
<1>2. /\ keys \in Seq(DOMAIN f) /\ n = Cardinality(DOMAIN f)
      /\ \A i, j \in 1 .. n : i < j => keys[i] < keys[j]
      /\ \A k \in DOMAIN f : \E i \in 1 .. n : keys[i] = k
    BY <1>1, KeysSorted
<1>3. keys \in Seq(Nat) /\ n \in Nat /\ \A i \in 1 .. n : keys[i] \in DOMAIN f /\ keys[i] \in Nat
    <2>1. keys \in Seq(Nat)
        BY <1>1, <1>2, SeqMonotonic
    <2>2. n \in Nat /\ \A i \in 1 .. n : keys[i] \in DOMAIN f
        BY <1>2
    <2> QED  BY <1>1, <2>1, <2>2
<1>4. /\ t.entries = f /\ t.bloom = BloomBits(DOMAIN f) /\ t.blocks = Blocks(keys)
      /\ keys # <<>> => t.minKey = keys[1] /\ t.maxKey = Last(keys)
    BY DEF RebuildSSTableMetadata
<1>5. FindInIndexedBlock(t, x) <=> covering # {} /\ x \in Range(Blocks(keys)[Min(covering)])
    BY <1>4 DEF FindInIndexedBlock
<1> HIDE DEF keys, t, covering
<1>6. ASSUME MayContain(t, x), FindInIndexedBlock(t, x) PROVE x \in DOMAIN f
    <2>1. covering # {} /\ covering \in SUBSET Nat
        <3>1. DOMAIN Blocks(keys) \subseteq Nat
            BY <1>3, LsmAssumption DEF Blocks
        <3> QED  BY <1>5, <1>6, <3>1 DEF covering
    <2>2. PICK b \in covering : \A c \in covering : b <= c
        BY <2>1, LeastOf
    <2>3. Min(covering) = b /\ b \in DOMAIN Blocks(keys)
        BY <2>1, <2>2, MinIs DEF covering
    <2>4. x \in Range(Blocks(keys)[b])
        BY <1>5, <1>6, <2>3
    <2>5. PICK p \in First(b) .. End(b, n) : keys[p] = x
        BY <1>3, <2>3, <2>4, BlockIs
    <2>6. First(b) \in 1 .. n /\ End(b, n) \in 1 .. n
        BY <1>3, <2>3, BlockIs
    <2>7. p \in 1 .. n
        BY <1>3, <2>6
    <2> QED  BY <1>3, <2>5, <2>7
<1>7. ASSUME x \in DOMAIN f PROVE MayContain(t, x) /\ FindInIndexedBlock(t, x)
    <2>1. PICK p \in 1 .. n : keys[p] = x
        BY <1>2, <1>7
    <2>2. keys # <<>> /\ 1 \in 1 .. n /\ n \in 1 .. n /\ keys[1] <= x /\ x <= keys[n]
        <3>1. 1 \in 1 .. n /\ n \in 1 .. n
            BY <1>3
        <3>2. p = 1 \/ keys[1] < x
            BY <1>2, <2>1, <3>1
        <3>3. p = n \/ x < keys[n]
            BY <1>2, <2>1, <3>1
        <3>4. keys # <<>>
            BY <1>3, <3>1, EmptySeq
        <3>5. keys[1] \in Nat /\ keys[n] \in Nat /\ x \in Nat
            BY <1>1, <1>3, <3>1
        <3> QED  BY <2>1, <3>1, <3>2, <3>3, <3>4, <3>5
    <2>3. Hash[x] \subseteq t.bloom /\ t.bloom # {}
        BY <1>1, <1>4, <1>7 DEF BloomBits
    <2>4. t.entries # Empty
        BY <1>4, <1>7 DEF Empty
    <2>5. keys[1] \in Nat /\ keys[n] \in Nat /\ x \in Nat
        BY <1>1, <1>3, <2>2
    <2>6. MayContain(t, x)
        BY <1>4, <2>2, <2>3, <2>4, <2>5 DEF MayContain, BloomMayContain, Last
    <2>7. PICK b \in DOMAIN Blocks(keys) : First(b) <= p /\ p <= End(b, n)
        BY <1>3, BlockBounds DEF Blocks
    <2>8. DOMAIN Blocks(keys) = 1 .. (n + BlockEntryCount - 1) \div BlockEntryCount
        BY DEF Blocks
    <2>9. DOMAIN Blocks(keys) \subseteq Nat
        BY <2>8
    <2>10. ASSUME NEW c \in DOMAIN Blocks(keys), NEW d \in DOMAIN Blocks(keys), c < d
           PROVE  keys[End(c, n)] < keys[First(d)]
        <3>1. End(c, n) < First(d)
            BY <1>3, <2>8, <2>10, BlockBounds
        <3>2. End(c, n) \in 1 .. n /\ First(d) \in 1 .. n
            BY <1>3, BlockIs
        <3> QED  BY <1>2, <3>1, <3>2
    <2>11. \A c \in DOMAIN Blocks(keys) :
               c \in covering <=> keys[First(c)] <= x /\ x <= keys[End(c, n)]
        BY <1>3, BlockIs DEF covering
    <2>12. /\ First(b) \in 1 .. n /\ End(b, n) \in 1 .. n
           /\ keys[First(b)] \in Nat /\ keys[End(b, n)] \in Nat
        BY <1>3, BlockIs
    <2>13. b \in covering
        <3>1. First(b) = p \/ keys[First(b)] < x
            BY <1>2, <2>1, <2>7, <2>12
        <3>2. p = End(b, n) \/ x < keys[End(b, n)]
            BY <1>2, <2>1, <2>7, <2>12
        <3>3. keys[First(b)] <= x /\ x <= keys[End(b, n)]
            BY <2>1, <2>5, <2>12, <3>1, <3>2
        <3> QED  BY <2>11, <3>3
    <2>14. ASSUME NEW c \in covering PROVE b <= c
        <3>1. c \in DOMAIN Blocks(keys) /\ b \in Nat /\ c \in Nat
            BY <2>9 DEF covering
        <3>2. ~(c < b)
            <4> SUFFICES ASSUME c < b PROVE FALSE
                OBVIOUS
            <4>1. keys[End(c, n)] < keys[First(b)]
                BY <2>10, <3>1
            <4>2. x <= keys[End(c, n)] /\ keys[First(b)] <= x
                BY <2>11, <2>13, <3>1
            <4>3. End(c, n) \in 1 .. n
                BY <1>3, <3>1, BlockIs
            <4>4. keys[End(c, n)] \in Nat
                BY <1>3, <4>3
            <4> QED  BY <2>5, <2>12, <4>1, <4>2, <4>4
        <3> QED  BY <3>1, <3>2
    <2>15. covering \in SUBSET Nat
        BY <2>9 DEF covering
    <2>16. Min(covering) = b
        BY <2>13, <2>14, <2>15, MinIs
    <2>17. p \in First(b) .. End(b, n)
        BY <2>7, <2>12
    <2>18. x \in Range(Blocks(keys)[b])
        BY <1>3, <2>1, <2>17, BlockIs
    <2> QED  BY <1>5, <2>6, <2>13, <2>16, <2>18
<1> QED  BY <1>6, <1>7 DEF t
-----------------------------------------------------------------------------
(***************************************************************************)
(* What the engine holds, and the ways to read it.                         *)
(***************************************************************************)
\* The tables of entries, those without tombstones, and the SSTables.
FiniteKeys == {S \in SUBSET Key : IsFiniteSet(S)}
Entry == Value \cup {Tombstone}
Content == UNION {[S -> Entry] : S \in FiniteKeys}
LiveContent == UNION {[S -> Value] : S \in FiniteKeys}
SSTable == {RebuildSSTableMetadata(n, f) : n \in Nat, f \in Content}
LogRecord == [key : Key, value : Entry]

\* The values that mark something else are not values.
ValuesApart == None \notin Nat /\ Tombstone \notin Nat

\* Contents are tables with finitely many keys and with entries, live ones with values.
LEMMA ContentIs ==
    /\ \A f : f \in Content <=> /\ IsTable(f) /\ DOMAIN f \subseteq Key /\ IsFiniteSet(DOMAIN f)
                                /\ \A k \in DOMAIN f : f[k] \in Entry
    /\ \A f : f \in LiveContent <=> /\ IsTable(f) /\ DOMAIN f \subseteq Key /\ IsFiniteSet(DOMAIN f)
                                    /\ \A k \in DOMAIN f : f[k] \in Value
<1>1. ASSUME NEW f, NEW V
      PROVE  f \in UNION {[S -> V] : S \in FiniteKeys} <=>
                 /\ IsTable(f) /\ DOMAIN f \subseteq Key /\ IsFiniteSet(DOMAIN f)
                 /\ \A k \in DOMAIN f : f[k] \in V
    <2>1. ASSUME f \in UNION {[S -> V] : S \in FiniteKeys}
          PROVE  /\ IsTable(f) /\ DOMAIN f \subseteq Key /\ IsFiniteSet(DOMAIN f)
                 /\ \A k \in DOMAIN f : f[k] \in V
        <3>1. PICK S \in FiniteKeys : f \in [S -> V]
            BY <2>1
        <3> QED  BY <3>1 DEF FiniteKeys, IsTable
    <2>2. ASSUME IsTable(f), DOMAIN f \subseteq Key, IsFiniteSet(DOMAIN f),
                 \A k \in DOMAIN f : f[k] \in V
          PROVE  f \in UNION {[S -> V] : S \in FiniteKeys}
        <3>1. DOMAIN f \in FiniteKeys
            BY <2>2 DEF FiniteKeys
        <3>2. f \in [DOMAIN f -> V]
            BY <2>2 DEF IsTable
        <3> QED  BY <3>1, <3>2
    <2> QED  BY <2>1, <2>2
<1> QED  BY <1>1 DEF Content, LiveContent

\* An SSTable has content and lets its keys through.
LEMMA SSTableIs ==
    ASSUME NEW t \in SSTable
    PROVE  /\ t.seq \in Nat /\ t.entries \in Content /\ t = RebuildSSTableMetadata(t.seq, t.entries)
           /\ \A x \in Key : x \in DOMAIN t.entries <=> MayContain(t, x) /\ FindInIndexedBlock(t, x)
<1>1. PICK n \in Nat, f \in Content : t = RebuildSSTableMetadata(n, f)
    BY DEF SSTable
<1>2. t.seq = n /\ t.entries = f
    BY <1>1 DEF RebuildSSTableMetadata
<1>3. DOMAIN f \subseteq Key /\ IsFiniteSet(DOMAIN f)
    BY ContentIs
<1> QED  BY <1>1, <1>2, <1>3, TableLookup

\* What the memory holds is of the right kind.
Holdings ==
    /\ mem \in Content /\ imm \in Seq(Content) /\ sst \in Seq(SSTable)

\* The contents of the stored tables, in the order of the tables.
LEMMA EntriesTyped ==
    ASSUME sst \in Seq(SSTable)
    PROVE  /\ SSTableEntries \in Seq(Content) /\ Len(SSTableEntries) = Len(sst)
           /\ DOMAIN SSTableEntries = DOMAIN sst
           /\ \A i \in DOMAIN sst : SSTableEntries[i] = sst[i].entries
<1>1. Len(sst) \in Nat /\ DOMAIN sst = 1 .. Len(sst) /\ \A i \in 1 .. Len(sst) : sst[i].entries \in Content
    BY SSTableIs
<1> QED  BY <1>1 DEF SSTableEntries

\* FindEntryLocked finds the newest entry.
LEMMA FindsNewest ==
    ASSUME Holdings, NEW x \in Key
    PROVE  /\ ~Absent(SSTableEntries \o imm \o <<mem>>, x)
                  => Found(SSTableEntries \o imm \o <<mem>>, x, FindEntryLocked(x))
           /\ Absent(SSTableEntries \o imm \o <<mem>>, x) => FindEntryLocked(x) = None
<1> DEFINE inImm == {i \in DOMAIN imm : x \in DOMAIN imm[i]}
           inSst == {i \in DOMAIN sst : MayContain(sst[i], x) /\ FindInIndexedBlock(sst[i], x)}
           e == SSTableEntries
<1>1. e \in Seq(Content) /\ imm \in Seq(Content) /\ <<mem>> \in Seq(Content)
      /\ e \o imm \in Seq(Content)
    BY EntriesTyped DEF Holdings
<1>2. inSst = {i \in DOMAIN e : x \in DOMAIN e[i]}
    <2>1. \A i \in DOMAIN sst : sst[i] \in SSTable
        BY DEF Holdings
    <2> QED  BY <2>1, EntriesTyped, SSTableIs DEF Holdings
<1>3. inImm = {} <=> Absent(imm, x)
    BY DEF Absent
<1>4. inSst = {} <=> Absent(e, x)
    BY <1>2 DEF Absent
<1>5. FindEntryLocked(x) =
          IF x \in DOMAIN mem THEN mem[x]
          ELSE IF inImm # {} THEN imm[Max(inImm)][x]
          ELSE IF inSst # {} THEN sst[Max(inSst)].entries[x]
          ELSE None
    BY DEF FindEntryLocked
<1>6. inImm # {} => Found(imm, x, imm[Max(inImm)][x])
    BY <1>1, <1>3, FoundOnce
<1>7. inSst # {} => Found(e, x, sst[Max(inSst)].entries[x])
    <2> SUFFICES ASSUME inSst # {} PROVE Found(e, x, sst[Max(inSst)].entries[x])
        OBVIOUS
    <2>1. Found(e, x, e[Max(inSst)][x])
        BY <1>1, <1>2, <1>4, FoundOnce
    <2>2. Len(sst) \in Nat /\ inSst \in SUBSET (1 .. Len(sst))
        BY DEF Holdings
    <2>3. Max(inSst) \in inSst
        <3> HIDE DEF inSst
        <3> QED  BY <2>2, GreatestIndex
    <2>4. e[Max(inSst)] = sst[Max(inSst)].entries
        BY <2>3, EntriesTyped DEF Holdings
    <2> QED  BY <2>1, <2>4
<1> HIDE DEF inImm, inSst, e
<1>8. /\ \A k : Absent(e \o imm \o <<mem>>, k) <=> Absent(e, k) /\ Absent(imm, k) /\ Absent(<<mem>>, k)
      /\ \A k, v : Found(e \o imm \o <<mem>>, k, v) <=>
             \/ Found(<<mem>>, k, v)
             \/ Absent(<<mem>>, k) /\ Found(imm, k, v)
             \/ Absent(<<mem>>, k) /\ Absent(imm, k) /\ Found(e, k, v)
    <2>1. ASSUME NEW k
          PROVE  /\ Absent((e \o imm) \o <<mem>>, k) <=> Absent(e \o imm, k) /\ Absent(<<mem>>, k)
                 /\ \A v : Found((e \o imm) \o <<mem>>, k, v)
                             <=> (Found(<<mem>>, k, v) \/ (Found(e \o imm, k, v) /\ Absent(<<mem>>, k)))
        BY <1>1, FoundInBoth
    <2>2. ASSUME NEW k
          PROVE  /\ Absent(e \o imm, k) <=> Absent(e, k) /\ Absent(imm, k)
                 /\ \A v : Found(e \o imm, k, v) <=> (Found(imm, k, v) \/ (Found(e, k, v) /\ Absent(imm, k)))
        BY <1>1, FoundInBoth
    <2> QED  BY <2>1, <2>2
<1>9. /\ Absent(<<mem>>, x) <=> x \notin DOMAIN mem
      /\ \A v : Found(<<mem>>, x, v) <=> (x \in DOMAIN mem /\ mem[x] = v)
    BY FoundInOne
<1>10. CASE x \in DOMAIN mem
    BY <1>5, <1>8, <1>9, <1>10 DEF e
<1>11. CASE x \notin DOMAIN mem /\ inImm # {}
    <2>1. ~Absent(imm, x) /\ Found(imm, x, FindEntryLocked(x))
        BY <1>3, <1>5, <1>6, <1>11
    <2> QED  BY <1>8, <1>9, <1>11, <2>1 DEF e
<1>12. CASE x \notin DOMAIN mem /\ inImm = {} /\ inSst # {}
    <2>1. Absent(imm, x) /\ ~Absent(e, x) /\ Found(e, x, FindEntryLocked(x))
        BY <1>3, <1>4, <1>5, <1>7, <1>12
    <2> QED  BY <1>8, <1>9, <1>12, <2>1 DEF e
<1>13. CASE x \notin DOMAIN mem /\ inImm = {} /\ inSst = {}
    <2>1. Absent(imm, x) /\ Absent(e, x) /\ FindEntryLocked(x) = None
        BY <1>3, <1>4, <1>5, <1>13
    <2> QED  BY <1>8, <1>9, <1>13, <2>1 DEF e
<1> QED  BY <1>10, <1>11, <1>12, <1>13

\* Reading tables that agree with the log.
LEMMA ReadsAgree ==
    ASSUME Holdings, wal \in Seq(LogRecord),
           Agree(SSTableEntries \o imm \o <<mem>>, wal, Len(wal))
    PROVE  /\ \A k \in Key : /\ k \in DOMAIN Logged(wal) => FindEntryLocked(k) = Logged(wal)[k]
                             /\ k \notin DOMAIN Logged(wal) => FindEntryLocked(k) \in {None, Tombstone}
           /\ ExportVisibleDataLocked = Logged(wal)
<1> DEFINE t == SSTableEntries \o imm \o <<mem>>
<1>1. t \in Seq(Content)
    BY EntriesTyped DEF Holdings
<1>2. Live(Newest(t)) = Logged(wal)
    BY <1>1, AgreeShows
<1>3. /\ \A k : k \in DOMAIN Logged(wal) <=> \E v : v # Tombstone /\ Found(t, k, v)
      /\ \A k, v : k \in DOMAIN Logged(wal) /\ Found(t, k, v) => Logged(wal)[k] = v
    BY <1>1, <1>2, LiveIs
<1>4. ASSUME NEW k \in Key PROVE /\ ~Absent(t, k) => Found(t, k, FindEntryLocked(k))
                                 /\ Absent(t, k) => FindEntryLocked(k) = None
    BY FindsNewest
<1>5. ExportVisibleDataLocked = Logged(wal)
    BY <1>2 DEF ExportVisibleDataLocked
<1> HIDE DEF t
<1>6. ASSUME NEW k \in Key, k \in DOMAIN Logged(wal) PROVE FindEntryLocked(k) = Logged(wal)[k]
    <2>1. ~Absent(t, k)
        BY <1>1, <1>3, <1>6, FoundOnce
    <2> QED  BY <1>3, <1>4, <1>6, <2>1
<1>7. ASSUME NEW k \in Key, k \notin DOMAIN Logged(wal) PROVE FindEntryLocked(k) \in {None, Tombstone}
    <2>1. CASE Absent(t, k)
        BY <1>4, <2>1
    <2>2. CASE ~Absent(t, k)
        BY <1>3, <1>4, <1>7, <2>2
    <2> QED  BY <2>1, <2>2
<1> QED  BY <1>5, <1>6, <1>7

\* ReadsMatchLog follows.
LEMMA ReadsThenMatch ==
    ASSUME Holdings, wal \in Seq(LogRecord),
           Agree(SSTableEntries \o imm \o <<mem>>, wal, Len(wal))
    PROVE  ReadsMatchLog
<1> DEFINE c == Logged(wal)
<1>1. /\ \A k \in Key : /\ k \in DOMAIN c => FindEntryLocked(k) = c[k]
                        /\ k \notin DOMAIN c => FindEntryLocked(k) \in {None, Tombstone}
      /\ ExportVisibleDataLocked = c
    BY ReadsAgree
<1>2. DOMAIN c \subseteq Key
    <2>1. \A i \in 1 .. Len(wal) : wal[i].key \in Key
        <3>1. \A i \in 1 .. Len(wal) : wal[i] \in LogRecord
            OBVIOUS
        <3> QED  BY <3>1 DEF LogRecord
    <2>2. \A k, v : LastWrite(wal, Len(wal), k, v) => k \in Key
        BY <2>1 DEF LastWrite
    <2> QED  BY <2>2, LoggedIs
<1> HIDE DEF c
<1>3. ASSUME NEW lo \in Key, NEW hi \in Key PROVE RangeScan(lo, hi) = On(c, lo .. hi)
    <2>1. {k \in Key : lo <= k /\ k <= hi} \cap DOMAIN c = (lo .. hi) \cap DOMAIN c
        <3>1. Key \subseteq Nat
            BY LsmAssumption
        <3> QED  BY <1>2, <3>1
    <2> DEFINE K == {k \in Key : lo <= k /\ k <= hi}
               L == lo .. hi
    <2>2. RangeScan(lo, hi) = On(c, K)
        BY <1>1 DEF RangeScan
    <2>3. K \cap DOMAIN c = L \cap DOMAIN c
        BY <2>1
    <2> HIDE DEF K, L
    <2>4. On(c, K) = On(c, L)
        BY <2>3 DEF On
    <2> QED  BY <2>2, <2>4 DEF L
<1>4. Size = Cardinality(DOMAIN c)
    BY <1>1 DEF Size
<1>5. \A k \in Key : IF k \in DOMAIN c THEN FindEntryLocked(k) = c[k]
                     ELSE FindEntryLocked(k) \in {None, Tombstone}
    BY <1>1
<1> QED  BY <1>3, <1>4, <1>5 DEF ReadsMatchLog, c
-----------------------------------------------------------------------------
(***************************************************************************)
(* Lists of steps.                                                         *)
(***************************************************************************)
\* A step is in a list.
Has(steps, x) == \E i \in DOMAIN steps : steps[i] = x

\* Left is that of the list less its head, and that of the two parts of a list.
LEMMA HasTail ==
    ASSUME NEW S, NEW q \in Seq(S), q # <<>>, NEW x
    PROVE  Has(q, x) <=> (Head(q) = x \/ Has(Tail(q), x))
<1>1. Len(q) \in Nat \ {0} /\ DOMAIN q = 1 .. Len(q) /\ Head(q) = q[1]
    OBVIOUS
<1>2. DOMAIN Tail(q) = 1 .. Len(q) - 1 /\ \A i \in 1 .. Len(q) - 1 : Tail(q)[i] = q[i + 1]
    <2>1. Tail(q) \in Seq(S) /\ Len(Tail(q)) = Len(q) - 1
        BY <1>1
    <2> QED  BY <1>1, <2>1, HeadTailProperties
<1>3. ASSUME Has(q, x) PROVE Head(q) = x \/ Has(Tail(q), x)
    <2>1. PICK i \in 1 .. Len(q) : q[i] = x
        BY <1>1, <1>3 DEF Has
    <2>2. CASE i = 1
        BY <1>1, <2>1, <2>2
    <2>3. CASE i # 1
        <3>1. i - 1 \in 1 .. Len(q) - 1 /\ Tail(q)[i - 1] = x
            BY <1>1, <1>2, <2>1, <2>3
        <3> QED  BY <1>2, <3>1 DEF Has
    <2> QED  BY <2>2, <2>3
<1>4. ASSUME Has(Tail(q), x) PROVE Has(q, x)
    <2>1. PICK i \in 1 .. Len(q) - 1 : q[i + 1] = x
        BY <1>2, <1>4 DEF Has
    <2>2. i + 1 \in 1 .. Len(q)
        BY <1>1
    <2> QED  BY <1>1, <2>1, <2>2 DEF Has
<1>5. Head(q) = x => Has(q, x)
    BY <1>1 DEF Has
<1> QED  BY <1>3, <1>4, <1>5

\* A concatenation has what either part has.
LEMMA HasBoth ==
    ASSUME NEW S, NEW a \in Seq(S), NEW b \in Seq(S), NEW x
    PROVE  Has(a \o b, x) <=> (Has(a, x) \/ Has(b, x))
<1> DEFINE m == Len(a)
           n == Len(b)
           c == a \o b
<1>1. /\ m \in Nat /\ n \in Nat /\ DOMAIN a = 1 .. m /\ DOMAIN b = 1 .. n /\ DOMAIN c = 1 .. m + n
      /\ \A i \in 1 .. m + n : c[i] = IF i <= m THEN a[i] ELSE b[i - m]
    <2>1. c \in Seq(S) /\ Len(c) = m + n /\ \A i \in 1 .. m + n : c[i] = IF i <= m THEN a[i] ELSE b[i - m]
        BY ConcatProperties
    <2> QED  BY <2>1
<1> HIDE DEF m, n, c
<1>2. ASSUME NEW i \in 1 .. m + n, c[i] = x PROVE Has(a, x) \/ Has(b, x)
    <2>1. CASE i <= m
        BY <1>1, <1>2, <2>1 DEF Has
    <2>2. CASE ~(i <= m)
        <3>1. i - m \in 1 .. n /\ b[i - m] = x
            BY <1>1, <1>2, <2>2
        <3> QED  BY <1>1, <3>1 DEF Has
    <2> QED  BY <2>1, <2>2
<1>3. ASSUME NEW i \in 1 .. m, a[i] = x PROVE Has(c, x)
    <2>1. i \in 1 .. m + n /\ c[i] = x
        BY <1>1, <1>3
    <2> QED  BY <1>1, <2>1 DEF Has
<1>4. ASSUME NEW i \in 1 .. n, b[i] = x PROVE Has(c, x)
    <2>1. m + i \in 1 .. m + n /\ ~(m + i <= m) /\ (m + i) - m = i
        BY <1>1
    <2>2. c[m + i] = x
        BY <1>1, <1>4, <2>1
    <2> QED  BY <1>1, <2>1, <2>2 DEF Has
<1>5. Has(c, x) => Has(a, x) \/ Has(b, x)
    BY <1>1, <1>2 DEF Has
<1>6. Has(a, x) => Has(c, x)
    BY <1>1, <1>3 DEF Has
<1>7. Has(b, x) => Has(c, x)
    BY <1>1, <1>4 DEF Has
<1> QED  BY <1>5, <1>6, <1>7 DEF c

\* What the steps of a stage that touch the disk are.
LEMMA HasOnPath ==
    ASSUME todo \in Seq(Steps), NEW s \in Seq(Steps), Path(s), NEW x, x \notin Calm
    PROVE  /\ Has(todo, x) <=> Has(s, x)
           /\ s # <<>> => (Has(Tail(todo), x) <=> Has(Tail(s), x))
<1>1. /\ Len(todo) \in Nat /\ Len(s) \in Nat /\ DOMAIN todo = 1 .. Len(todo) /\ DOMAIN s = 1 .. Len(s)
      /\ Len(todo) >= Len(s)
    BY DEF Path
<1>2. Has(todo, x) <=> Has(s, x)
    <2>1. ASSUME NEW i \in 1 .. Len(todo), todo[i] = x PROVE Has(s, x)
        <3>1. i \in 1 .. Len(s)
            BY <1>1, <2>1 DEF Path
        <3> QED  BY <1>1, <2>1, <3>1 DEF Path, Has
    <2>2. ASSUME NEW i \in 1 .. Len(s), s[i] = x PROVE Has(todo, x)
        <3>1. i \in 1 .. Len(todo)
            BY <1>1
        <3> QED  BY <1>1, <2>2, <3>1 DEF Path, Has
    <2> QED  BY <1>1, <2>1, <2>2 DEF Has
<1>3. ASSUME s # <<>> PROVE Has(Tail(todo), x) <=> Has(Tail(s), x)
    <2>1. Len(s) >= 1 /\ Len(todo) >= 1
        BY <1>1, <1>3
    <2>2. /\ DOMAIN Tail(todo) = 1 .. Len(todo) - 1
          /\ \A i \in 1 .. Len(todo) - 1 : Tail(todo)[i] = todo[i + 1]
        <3>1. todo # <<>>
            BY <2>1
        <3> QED  BY <3>1, HeadTailProperties
    <2>3. /\ DOMAIN Tail(s) = 1 .. Len(s) - 1
          /\ \A i \in 1 .. Len(s) - 1 : Tail(s)[i] = s[i + 1]
        BY <1>3, HeadTailProperties
    <2>4. ASSUME NEW i \in 1 .. Len(todo) - 1, Tail(todo)[i] = x PROVE Has(Tail(s), x)
        <3>1. todo[i + 1] = x /\ i + 1 \in 1 .. Len(todo)
            BY <1>1, <2>2, <2>4
        <3>2. i + 1 \in 1 .. Len(s)
            BY <1>1, <3>1 DEF Path
        <3>3. i \in 1 .. Len(s) - 1 /\ s[i + 1] = x
            BY <1>1, <3>1, <3>2 DEF Path
        <3> QED  BY <2>3, <3>3 DEF Has
    <2>5. ASSUME NEW i \in 1 .. Len(s) - 1, Tail(s)[i] = x PROVE Has(Tail(todo), x)
        <3>1. s[i + 1] = x /\ i + 1 \in 1 .. Len(s)
            BY <1>1, <2>3, <2>5
        <3>2. todo[i + 1] = x /\ i \in 1 .. Len(todo) - 1
            BY <1>1, <3>1 DEF Path
        <3> QED  BY <2>2, <3>2 DEF Has
    <2> QED  BY <2>2, <2>3, <2>4, <2>5 DEF Has
<1> QED  BY <1>2, <1>3

\* A Put's only step is to append, and the constructor's last one is to replay.
WellListed(q) ==
    /\ Has(q, "append") => Len(q) = 1
    /\ \A i \in DOMAIN q : q[i] = "replay" => i = Len(q)

\* The rest of such a list is one too, and an append or a replay leaves nothing.
LEMMA WellListedTail ==
    ASSUME NEW q \in Seq(Steps), q # <<>>, WellListed(q)
    PROVE  /\ WellListed(Tail(q)) /\ ~Has(Tail(q), "append")
           /\ Head(q) \in {"append", "replay"} => Tail(q) = <<>> /\ q = <<Head(q)>>
<1>1. Len(q) \in Nat \ {0} /\ DOMAIN q = 1 .. Len(q) /\ Head(q) = q[1]
    OBVIOUS
<1>2. /\ Tail(q) \in Seq(Steps) /\ Len(Tail(q)) = Len(q) - 1 /\ DOMAIN Tail(q) = 1 .. Len(q) - 1
      /\ \A i \in 1 .. Len(q) - 1 : Tail(q)[i] = q[i + 1]
    <2>1. Tail(q) \in Seq(Steps) /\ Len(Tail(q)) = Len(q) - 1
        BY <1>1
    <2> QED  BY <1>1, <2>1, HeadTailProperties
<1>3. ~Has(Tail(q), "append")
    <2> SUFFICES ASSUME NEW i \in 1 .. Len(q) - 1, Tail(q)[i] = "append" PROVE FALSE
        BY <1>2 DEF Has
    <2>1. i + 1 \in DOMAIN q /\ q[i + 1] = "append"
        BY <1>1, <1>2
    <2>2. Len(q) = 1
        BY <2>1 DEF Has, WellListed
    <2> QED  BY <2>2
<1>4. ASSUME NEW i \in DOMAIN Tail(q), Tail(q)[i] = "replay" PROVE i = Len(Tail(q))
    <2>1. i + 1 \in DOMAIN q /\ q[i + 1] = "replay"
        BY <1>1, <1>2, <1>4
    <2>2. i + 1 = Len(q)
        BY <2>1 DEF WellListed
    <2> QED  BY <1>1, <1>2, <2>2
<1>5. ASSUME Head(q) \in {"append", "replay"} PROVE Tail(q) = <<>> /\ q = <<Head(q)>>
    <2>1. Len(q) = 1
        BY <1>1, <1>5 DEF WellListed, Has
    <2> QED  BY <1>1, <1>2, <2>1
<1> QED  BY <1>3, <1>4, <1>5 DEF WellListed

\* Steps that are neither are put in front of a list without a Put's.
LEMMA WellListedBoth ==
    ASSUME NEW s \in Seq(Steps), NEW r \in Seq(Steps), WellListed(r), ~Has(r, "append"),
           ~Has(s, "append"), ~Has(s, "replay")
    PROVE  WellListed(s \o r) /\ ~Has(s \o r, "append")
<1> DEFINE m == Len(s)
           n == Len(r)
           c == s \o r
<1>1. /\ m \in Nat /\ n \in Nat /\ DOMAIN s = 1 .. m /\ DOMAIN r = 1 .. n
      /\ DOMAIN c = 1 .. m + n /\ Len(c) = m + n
      /\ \A i \in 1 .. m + n : c[i] = IF i <= m THEN s[i] ELSE r[i - m]
    <2>1. c \in Seq(Steps) /\ Len(c) = m + n /\ \A i \in 1 .. m + n : c[i] = IF i <= m THEN s[i] ELSE r[i - m]
        BY ConcatProperties
    <2> QED  BY <2>1
<1>2. ~Has(c, "append")
    BY HasBoth
<1> HIDE DEF m, n, c
<1>3. ASSUME NEW i \in DOMAIN c, c[i] = "replay" PROVE i = Len(c)
    <2>1. ~(i <= m)
        <3> SUFFICES ASSUME i <= m PROVE FALSE
            OBVIOUS
        <3>1. i \in DOMAIN s /\ s[i] = "replay"
            BY <1>1, <1>3
        <3> QED  BY <3>1 DEF Has
    <2>2. i - m \in DOMAIN r /\ r[i - m] = "replay"
        BY <1>1, <1>3, <2>1
    <2>3. i - m = n
        BY <2>2 DEF WellListed, n
    <2> QED  BY <1>1, <1>3, <2>3
<1> QED  BY <1>2, <1>3 DEF WellListed, c
-----------------------------------------------------------------------------
(***************************************************************************)
(* Rotation, compaction, and the log that Restore writes.                  *)
(***************************************************************************)
\* Tables that stay tables of entries.
LEMMA ContentKept ==
    /\ Empty \in Content /\ LiveContent \subseteq Content
    /\ \A f \in Content, k \in Key, v \in Entry : With(f, k, v) \in Content
<1>1. DOMAIN Empty = {} /\ IsTable(Empty)
    BY TableForms DEF Empty
<1>2. Empty \in Content
    BY <1>1, ContentIs, FS_EmptySet
<1>3. LiveContent \subseteq Content
    BY ContentIs DEF Entry
<1>4. ASSUME NEW f \in Content, NEW k \in Key, NEW v \in Entry PROVE With(f, k, v) \in Content
    <2>1. DOMAIN f \subseteq Key /\ IsFiniteSet(DOMAIN f) /\ \A x \in DOMAIN f : f[x] \in Entry
        BY ContentIs
    <2>2. /\ DOMAIN With(f, k, v) = DOMAIN f \cup {k}
          /\ \A x \in DOMAIN f \cup {k} : With(f, k, v)[x] = IF x = k THEN v ELSE f[x]
        BY DEF With
    <2>3. IsFiniteSet(DOMAIN f \cup {k})
        BY <2>1, FS_AddElement
    <2>4. IsTable(With(f, k, v))
        BY TableForms
    <2>5. \A x \in DOMAIN With(f, k, v) : With(f, k, v)[x] \in Entry
        BY <2>1, <2>2
    <2> QED  BY <2>1, <2>2, <2>3, <2>4, <2>5, ContentIs
<1> QED  BY <1>2, <1>3, <1>4

\* What tables show is a table without tombstones.
LEMMA LiveTyped ==
    ASSUME NEW t \in Seq(Content)
    PROVE  Live(Newest(t)) \in LiveContent
<1> DEFINE f == Live(Newest(t))
           n == Len(t)
           D == {DOMAIN t[i] : i \in 1 .. n}
<1>1. /\ IsTable(f)
      /\ \A k : k \in DOMAIN f <=> \E v : v # Tombstone /\ Found(t, k, v)
      /\ \A k, v : k \in DOMAIN f /\ Found(t, k, v) => f[k] = v
    BY LiveIs
<1> HIDE DEF f
<1>2. n \in Nat /\ DOMAIN t = 1 .. n /\ \A i \in 1 .. n : t[i] \in Content
    OBVIOUS
<1>3. \A k, v : Found(t, k, v) => k \in Key /\ v \in Entry
    BY <1>2, ContentIs DEF Found
<1>4. \A k \in DOMAIN f : k \in Key /\ f[k] \in Value
    BY <1>1, <1>3 DEF Entry
<1>5. IsFiniteSet(UNION D)
    <2>1. IsFiniteSet(D)
        <3> DEFINE g == [i \in 1 .. n |-> DOMAIN t[i]]
        <3>1. g \in Surjection(1 .. n, D)
            BY DEF Surjection
        <3>2. IsFiniteSet(1 .. n)
            BY <1>2, FS_Interval
        <3> HIDE DEF g, D, n
        <3> QED  BY <3>1, <3>2, FS_Surjection
    <2>2. \A S \in D : IsFiniteSet(S)
        BY <1>2, ContentIs
    <2> HIDE DEF D
    <2> QED  BY <2>1, <2>2, FS_UNION
<1>6. DOMAIN f \subseteq UNION D
    BY <1>1, <1>2 DEF Found
<1>7. IsFiniteSet(DOMAIN f)
    BY <1>5, <1>6, FS_Subset
<1> QED  BY <1>1, <1>4, <1>7, ContentIs DEF f

\* The merged table shows what the tables did; when nothing is left, no table does.
LEMMA MergedShows ==
    ASSUME NEW t \in Seq(Content)
    PROVE  /\ Shows(t, <<Live(Newest(t))>>)
           /\ Live(Newest(t)) = Empty => Shows(t, <<>>)
<1> DEFINE f == Live(Newest(t))
<1>1. /\ \A k : k \in DOMAIN f <=> \E v : v # Tombstone /\ Found(t, k, v)
      /\ \A k, v : k \in DOMAIN f /\ Found(t, k, v) => f[k] = v
    BY LiveIs
<1> HIDE DEF f
<1>2. ASSUME NEW k, Absent(t, k) PROVE k \notin DOMAIN f
    BY <1>1, <1>2, FoundOnce
<1>3. ASSUME NEW k, NEW v, v # Tombstone PROVE Found(t, k, v) <=> k \in DOMAIN f /\ f[k] = v
    BY <1>1, <1>3
<1>4. Shows(t, <<f>>)
    BY <1>2, <1>3, FoundInOne DEF Shows
<1>5. ASSUME f = Empty PROVE Shows(t, <<>>)
    <2>1. DOMAIN f = {}
        BY <1>5 DEF Empty
    <2> QED  BY <1>3, <2>1, FoundInOne DEF Shows
<1> QED  BY <1>4, <1>5 DEF f

\* The memtable m behind the immutable ones, and after a rotation.
LEMMA RotatedShows ==
    ASSUME imm \in Seq(Content), NEW e \in Seq(Content), NEW m \in Content
    PROVE  /\ Rotated(m) \in Seq(Content)
           /\ Shows(e \o imm \o <<m>>, e \o Rotated(m) \o <<Empty>>)
<1>1. /\ <<m>> \in Seq(Content) /\ <<Empty>> \in Seq(Content) /\ e \o imm \in Seq(Content)
      /\ DOMAIN Empty = {}
    BY ContentKept DEF Empty
<1>2. CASE m = Empty
    <2>1. Rotated(m) = imm
        BY <1>2 DEF Rotated
    <2> QED  BY <1>2, <2>1, ShowsAll
<1>3. CASE m # Empty
    <2>1. Rotated(m) = imm \o <<m>> /\ Rotated(m) \in Seq(Content)
        BY <1>3, <1>1, AppendIsConcat DEF Rotated
    <2>2. e \o Rotated(m) = e \o imm \o <<m>>
        BY <1>1, <2>1, ConcatAssociative
    <2> DEFINE c == e \o imm \o <<m>>
    <2>3. c \in Seq(Content)
        BY <1>1
    <2> HIDE DEF c
    <2>4. ASSUME NEW k PROVE /\ Absent(c, k) => Absent(c \o <<Empty>>, k)
                             /\ \A v : Found(c, k, v) <=> Found(c \o <<Empty>>, k, v)
        <3>1. Absent(<<Empty>>, k) /\ \A v : ~Found(<<Empty>>, k, v)
            BY <1>1, FoundInOne
        <3>2. /\ Absent(c \o <<Empty>>, k) <=> Absent(c, k) /\ Absent(<<Empty>>, k)
              /\ \A v : Found(c \o <<Empty>>, k, v)
                          <=> (Found(<<Empty>>, k, v) \/ (Found(c, k, v) /\ Absent(<<Empty>>, k)))
            BY <1>1, <2>3, FoundInBoth
        <3> QED  BY <3>1, <3>2
    <2>5. Shows(c, c \o <<Empty>>)
        BY <2>4 DEF Shows
    <2> QED  BY <2>1, <2>2, <2>5 DEF c
<1> QED  BY <1>2, <1>3

\* A flush takes the oldest memtable away from the others.
LEMMA HeadTail ==
    ASSUME NEW S, NEW s \in Seq(S), s # <<>>
    PROVE  <<Head(s)>> \o Tail(s) = s
<1>1. Head(s) \in S /\ Tail(s) \in Seq(S) /\ Len(Tail(s)) = Len(s) - 1
      /\ (\A i \in 1 .. Len(Tail(s)) : Tail(s)[i] = s[i + 1]) /\ Len(s) \in Nat \ {0}
      /\ Head(s) = s[1]
    BY HeadTailProperties
<1> DEFINE t == <<Head(s)>> \o Tail(s)
<1>2. <<Head(s)>> \in Seq(S) /\ Len(<<Head(s)>>) = 1 /\ <<Head(s)>>[1] = Head(s)
    BY <1>1
<1>3. t \in Seq(S) /\ Len(t) = Len(s)
      /\ \A i \in 1 .. Len(s) : t[i] = IF i <= 1 THEN <<Head(s)>>[i] ELSE Tail(s)[i - 1]
    BY <1>1, <1>2, ConcatProperties
<1> HIDE DEF t
<1>4. ASSUME NEW i \in 1 .. Len(s) PROVE t[i] = s[i]
    <2>1. CASE i = 1
        BY <1>1, <1>2, <1>3, <2>1
    <2>2. CASE i # 1
        <3>1. i - 1 \in 1 .. Len(Tail(s)) /\ (i - 1) + 1 = i /\ ~(i <= 1)
            BY <1>1, <2>2
        <3> QED  BY <1>1, <1>3, <3>1
    <2> QED  BY <2>1, <2>2
<1>5. t = s
    BY <1>3, <1>4, SeqEqual
<1> QED  BY <1>5 DEF t

\* The log after a Restore: one record for each key of the restored table, in key order.
Copied(f, log) ==
    /\ Len(log) <= Len(SortedKeys(f))
    /\ \A i \in 1 .. Len(log) : log[i] = Record(SortedKeys(f)[i], f[SortedKeys(f)[i]])

\* Such a log says of every key it names what the table says, and a complete one names all.
LEMMA CopiedSays ==
    ASSUME NEW f \in LiveContent, NEW log \in Seq(LogRecord), Copied(f, log)
    PROVE  /\ \A k, v : LastWrite(log, Len(log), k, v) => k \in DOMAIN f /\ f[k] = v
           /\ \A k : Written(log, Len(log), k) => k \in DOMAIN f /\ LastWrite(log, Len(log), k, f[k])
           /\ Len(log) = Len(SortedKeys(f)) => \A k \in DOMAIN f : Written(log, Len(log), k)
<1> DEFINE s == SortedKeys(f)
           n == Len(log)
<1>1. DOMAIN f \subseteq Nat /\ IsFiniteSet(DOMAIN f)
    BY ContentIs, LsmAssumption
<1>2. /\ s \in Seq(DOMAIN f) /\ \A k \in DOMAIN f : \E i \in 1 .. Len(s) : s[i] = k
    BY <1>1, KeysSorted
<1>3. Len(s) \in Nat /\ n \in Nat /\ n <= Len(s) /\ \A i \in 1 .. Len(s) : s[i] \in DOMAIN f
    BY <1>2 DEF Copied
<1>4. ASSUME NEW i \in 1 .. n
      PROVE  log[i].key = s[i] /\ log[i].value = f[s[i]] /\ s[i] \in DOMAIN f
    <2>1. log[i] = Record(s[i], f[s[i]])
        BY DEF Copied
    <2>2. i \in 1 .. Len(s)
        BY <1>3
    <2> QED  BY <1>3, <2>1, <2>2 DEF Record
<1> HIDE DEF s, n
<1>5. \A k, v : LastWrite(log, n, k, v) => k \in DOMAIN f /\ f[k] = v
    BY <1>4 DEF LastWrite
<1>6. ASSUME NEW k, Written(log, n, k) PROVE k \in DOMAIN f /\ LastWrite(log, n, k, f[k])
    <2>1. PICK v : LastWrite(log, n, k, v)
        BY <1>3, <1>6, LastWriteOnce
    <2> QED  BY <1>5, <2>1
<1>7. ASSUME n = Len(s), NEW k \in DOMAIN f PROVE Written(log, n, k)
    BY <1>2, <1>4, <1>7 DEF Written
<1> QED  BY <1>5, <1>6, <1>7 DEF s, n

\* The restored table agrees with the whole log.
LEMMA CopiedAgrees ==
    ASSUME NEW f \in LiveContent, NEW log \in Seq(LogRecord), Copied(f, log),
           Len(log) = Len(SortedKeys(f))
    PROVE  Agree(<<f>>, log, Len(log))
<1>1. ASSUME NEW k, ~Absent(<<f>>, k) PROVE Written(log, Len(log), k)
    <2>1. k \in DOMAIN f
        BY <1>1, FoundInOne
    <2> QED  BY <2>1, CopiedSays
<1>2. ASSUME NEW k, Written(log, Len(log), k), NEW v
      PROVE  Found(<<f>>, k, v) <=> LastWrite(log, Len(log), k, v)
    <2>1. k \in DOMAIN f /\ LastWrite(log, Len(log), k, f[k])
        BY <1>2, CopiedSays
    <2>2. LastWrite(log, Len(log), k, v) => f[k] = v
        BY CopiedSays
    <2>3. Found(<<f>>, k, v) <=> f[k] = v
        BY <2>1, FoundInOne
    <2> QED  BY <2>1, <2>2, <2>3
<1> QED  BY <1>1, <1>2 DEF Agree

\* One more record.
LEMMA CopiedNext ==
    ASSUME NEW f \in LiveContent, NEW log \in Seq(LogRecord), Copied(f, log),
           Len(log) < Len(SortedKeys(f)), NEW r,
           r = Record(SortedKeys(f)[Len(log) + 1], f[SortedKeys(f)[Len(log) + 1]])
    PROVE  Append(log, r) \in Seq(LogRecord) /\ Copied(f, Append(log, r))
<1> DEFINE s == SortedKeys(f)
           n == Len(log)
<1>1. DOMAIN f \subseteq Nat /\ IsFiniteSet(DOMAIN f) /\ DOMAIN f \subseteq Key
      /\ \A k \in DOMAIN f : f[k] \in Value
    BY ContentIs, LsmAssumption
<1>2. s \in Seq(DOMAIN f)
    BY <1>1, KeysSorted
<1>3. n \in Nat /\ n + 1 \in 1 .. Len(s) /\ s[n + 1] \in DOMAIN f
    BY <1>2
<1>4. r \in LogRecord
    BY <1>1, <1>3 DEF Record, LogRecord, Entry
<1>5. /\ Append(log, r) \in Seq(LogRecord) /\ Len(Append(log, r)) = n + 1
      /\ \A i \in 1 .. n : Append(log, r)[i] = log[i]
      /\ Append(log, r)[n + 1] = r
    BY <1>4, AppendProperties
<1> HIDE DEF s, n
<1>6. ASSUME NEW i \in 1 .. n + 1 PROVE Append(log, r)[i] = Record(s[i], f[s[i]])
    <2>1. CASE i = n + 1
        BY <1>5, <2>1 DEF s, n
    <2>2. CASE i # n + 1
        <3>1. i \in 1 .. n
            BY <1>3, <2>2
        <3> QED  BY <1>5, <3>1 DEF Copied, s, n
    <2> QED  BY <2>1, <2>2
<1> QED  BY <1>3, <1>5, <1>6 DEF Copied, s

\* A single table without tombstones shows itself.
LEMMA LiveAlone ==
    ASSUME ValuesApart, NEW f \in LiveContent
    PROVE  Live(Newest(<<>> \o <<>> \o <<f>>)) = f
<1>1. f \in Content /\ IsTable(f) /\ \A k \in DOMAIN f : f[k] \in Value
    BY ContentIs, ContentKept
<1>2. <<f>> \in Seq(Content) /\ <<>> \in Seq(Content) /\ <<>> \o <<>> \o <<f>> = <<f>>
    BY <1>1
<1> DEFINE g == Live(Newest(<<f>>))
<1>3. /\ IsTable(g)
      /\ \A k : k \in DOMAIN g <=> \E v : v # Tombstone /\ Found(<<f>>, k, v)
      /\ \A k, v : k \in DOMAIN g /\ Found(<<f>>, k, v) => g[k] = v
    BY <1>2, LiveIs
<1> HIDE DEF g
<1>4. \A k, v : Found(<<f>>, k, v) <=> k \in DOMAIN f /\ f[k] = v
    BY FoundInOne
<1>5. g = f
    <2>1. \A k \in DOMAIN f : f[k] # Tombstone
        BY <1>1, LsmAssumption DEF ValuesApart, Value
    <2>2. DOMAIN g = DOMAIN f /\ \A k \in DOMAIN f : g[k] = f[k]
        BY <1>3, <1>4, <2>1
    <2> QED  BY <1>1, <1>3, <2>2 DEF IsTable
<1> QED  BY <1>2, <1>5 DEF g
-----------------------------------------------------------------------------
(***************************************************************************)
(* The invariant of the reads: what the tables in memory, the log and the  *)
(* files hold for every list of remaining steps.                           *)
(***************************************************************************)
\* A step is still to be done.
Left(x) == Has(todo, x)

\* A table taken out of the memory by a flush counts as the newest of the stored ones until
\* it is published.
Pending == IF Left("publishFlushed") THEN <<table.entries>> ELSE <<>>
Tables == SSTableEntries \o Pending \o imm \o <<mem>>

\* The records of the log that the tables in memory reflect.
Reach == IF Left("replay") THEN replayed ELSE Len(wal)

Typed ==
    /\ Holdings /\ wal \in Seq(LogRecord)
    /\ \A q \in DOMAIN files : files[q] = Torn \/ files[q] \in Content
    /\ DecodeSnapshot(snapshot) \in LiveContent
    /\ replayed \in Nat /\ replayed <= Len(wal)

\* A file that the manifest names holds nothing that is not in the log.
Named ==
    manifest \notin {None, Torn} =>
        \A i \in DOMAIN manifest.tables :
            (manifest.tables[i] \in DOMAIN files /\ files[manifest.tables[i]] # Torn) =>
                \A k \in DOMAIN files[manifest.tables[i]] : Written(wal, Len(wal), k)

Listed ==
    /\ WellListed(todo)
    /\ Left("append") => table \in LogRecord
    /\ Left("replay") => ~Left("rewriteWAL")
    /\ ~Left("replay") => replayed = 0

\* What the call in progress is to store.
Tabled ==
    /\ Left("publishFlushed") \/ Left("publishCompacted") => table \in SSTable
    /\ Left("publishCompacted") => table.entries = CompactedEntries
    /\ Left("publishNone") => Left("install") \/ CompactedEntries = Empty

\* Before the installation of a Restore the tables say what the log says, and the manifest
\* names nothing that is left when the log is cleared; after it the log grows into a copy.
Restoring ==
    /\ ~Left("rewriteWAL") => old = None /\ ~Left("install")
    /\ Left("rewriteWAL") => old \in LiveContent /\ table \in LiveContent
    /\ Left("install") => old = Logged(wal) /\ Current
    /\ Left("install") /\ ~Left("removeFiles") =>
           \A i \in DOMAIN sst : sst[i].seq \notin DOMAIN files
    /\ Left("rewriteWAL") /\ ~Left("install") =>
           sst = <<>> /\ imm = <<>> /\ mem = table /\ Copied(table, wal)

\* The files hold the tables.
Filed ==
    /\ \A i \in DOMAIN sst : Stored(sst[i]) => files[sst[i].seq] = sst[i].entries
    /\ (Left("publishFlushed") \/ Left("publishCompacted")) /\ ~Left("writeSSTable") =>
           (Stored(table) => files[table.seq] = table.entries)

Agreed == Left("install") \/ ~Left("rewriteWAL") => Agree(Tables, wal, Reach)

ReadInv ==
    /\ Typed /\ Named
    /\ up = "open" => Listed /\ Tabled /\ Restoring /\ Filed /\ Agreed
    /\ up # "open" => todo = <<>> /\ old = None
    /\ up = "down" => mem = Empty /\ imm = <<>> /\ replayed = 0

\* The steps of short lists.
LEMMA HasListed ==
    /\ \A x : ~Has(<<>>, x)
    /\ \A a, x : Has(<<a>>, x) <=> x = a
    /\ \A a, b, x : Has(<<a, b>>, x) <=> x \in {a, b}
    /\ \A a, b, c, x : Has(<<a, b, c>>, x) <=> x \in {a, b, c}
    /\ \A a, b, c, d, x : Has(<<a, b, c, d>>, x) <=> x \in {a, b, c, d}
    /\ \A a, b, c, d, e, x : Has(<<a, b, c, d, e>>, x) <=> x \in {a, b, c, d, e}
<1>1. \A x : ~Has(<<>>, x)
    BY DEF Has
<1>2. \A a, x : Has(<<a>>, x) <=> x = a
    BY DEF Has
<1>3. ASSUME NEW a, NEW b, NEW x PROVE Has(<<a, b>>, x) <=> x \in {a, b}
    <2>1. DOMAIN <<a, b>> = {1, 2} /\ <<a, b>>[1] = a /\ <<a, b>>[2] = b
        OBVIOUS
    <2> QED  BY <2>1 DEF Has
<1>4. ASSUME NEW a, NEW b, NEW c, NEW x PROVE Has(<<a, b, c>>, x) <=> x \in {a, b, c}
    <2> DEFINE q == <<a, b, c>>
    <2>1. DOMAIN q = {1, 2, 3} /\ q[1] = a /\ q[2] = b /\ q[3] = c
        OBVIOUS
    <2> HIDE DEF q
    <2>2. Has(q, x) <=> x \in {a, b, c}
        BY <2>1 DEF Has
    <2> QED  BY <2>2 DEF q
<1>5. ASSUME NEW a, NEW b, NEW c, NEW d, NEW x PROVE Has(<<a, b, c, d>>, x) <=> x \in {a, b, c, d}
    <2> DEFINE q == <<a, b, c, d>>
    <2>1. DOMAIN q = {1, 2, 3, 4} /\ q[1] = a /\ q[2] = b /\ q[3] = c /\ q[4] = d
        OBVIOUS
    <2> HIDE DEF q
    <2>2. Has(q, x) <=> x \in {a, b, c, d}
        BY <2>1 DEF Has
    <2> QED  BY <2>2 DEF q
<1>6. ASSUME NEW a, NEW b, NEW c, NEW d, NEW e, NEW x
      PROVE  Has(<<a, b, c, d, e>>, x) <=> x \in {a, b, c, d, e}
    <2> DEFINE q == <<a, b, c, d, e>>
    <2>1. DOMAIN q = {1, 2, 3, 4, 5} /\ q[1] = a /\ q[2] = b /\ q[3] = c /\ q[4] = d /\ q[5] = e
        OBVIOUS
    <2> HIDE DEF q
    <2>2. Has(q, x) <=> x \in {a, b, c, d, e}
        BY <2>1 DEF Has
    <2> QED  BY <2>2 DEF q
<1> QED  BY <1>1, <1>2, <1>3, <1>4, <1>5, <1>6

\* What is in the memory, as a list of contents.
LEMMA TablesTyped ==
    ASSUME Typed, Left("publishFlushed") => table \in SSTable
    PROVE  /\ SSTableEntries \in Seq(Content) /\ Pending \in Seq(Content)
           /\ imm \in Seq(Content) /\ mem \in Content
           /\ SSTableEntries \o Pending \in Seq(Content)
           /\ SSTableEntries \o Pending \o imm \in Seq(Content)
           /\ Tables \in Seq(Content)
<1>1. SSTableEntries \in Seq(Content) /\ imm \in Seq(Content) /\ mem \in Content
    BY EntriesTyped DEF Typed, Holdings
<1>2. Pending \in Seq(Content)
    <2>1. CASE Left("publishFlushed")
        <3>1. table.entries \in Content
            BY <2>1, SSTableIs
        <3> QED  BY <2>1, <3>1 DEF Pending
    <2>2. CASE ~Left("publishFlushed")
        BY <2>2 DEF Pending
    <2> QED  BY <2>1, <2>2
<1>3. <<mem>> \in Seq(Content)
    BY <1>1
<1> QED  BY <1>1, <1>2, <1>3 DEF Tables

\* Nothing but calm steps is left.
LEMMA CalmLeft ==
    ASSUME todo \in Seq(Steps), Path(<<>>)
    PROVE  /\ \A x : x \notin Calm => ~Left(x)
           /\ Pending = <<>> /\ Tables = SSTableEntries \o <<>> \o imm \o <<mem>>
<1>1. ASSUME NEW x, x \notin Calm PROVE ~Left(x)
    BY <1>1 DEF Left, Has, Path
<1>2. ~Left("publishFlushed")
    BY <1>1 DEF Calm
<1> QED  BY <1>1, <1>2 DEF Pending, Tables

\* Nothing of the invariant changes.
LEMMA SameRead ==
    ASSUME ReadInv, UNCHANGED <<mem, imm, sst, todo, table, old, replayed, wal, manifest, files,
                                snapshot, up>>
    PROVE  ReadInv'
<1>1. Typed' /\ Named'
    BY DEF ReadInv, Typed, Holdings, Named
<1>2. up = "open" => Listed' /\ Tabled' /\ Filed'
    BY DEF ReadInv, Listed, Tabled, Filed, Left, Stored, CompactedEntries, SSTableEntries
<1>3. up = "open" => Restoring' /\ Agreed'
    BY DEF ReadInv, Restoring, Agreed, Left, Current, Tables, Pending, Reach, SSTableEntries
<1> QED  BY <1>1, <1>2, <1>3 DEF ReadInv

\* A calm step, or a call that begins with one.
LEMMA CalmRead ==
    ASSUME LsmInv, ReadInv, up = "open", todo = <<>> \/ Head(todo) \in Calm,
           todo' \in Seq(Steps), Path(<<>>)', UNCHANGED <<sst, old, files, manifest, snapshot, up>>,
           Typed', Named', Listed', Agree(Tables, wal, Reach)'
    PROVE  ReadInv'
<1>1. Path(<<>>) /\ todo \in Seq(Steps)
    BY CalmHead DEF LsmInv
<1>2. \A x : x \notin Calm => ~Left(x)
    BY <1>1, CalmLeft
<1>3. \A x : x \notin Calm => ~Left(x)'
    BY DEF Left, Has, Path
<1>4. ~Left("publishFlushed")' /\ ~Left("publishCompacted")' /\ ~Left("publishNone")'
      /\ ~Left("rewriteWAL")' /\ ~Left("install")'
    BY <1>3 DEF Calm
<1>5. ~Left("rewriteWAL")
    BY <1>2 DEF Calm
<1>6. Tabled' /\ Restoring' /\ Agreed'
    BY <1>4, <1>5 DEF Tabled, Restoring, Agreed, ReadInv
<1>7. Filed'
    BY <1>4 DEF ReadInv, Filed, Stored
<1> QED  BY <1>6, <1>7 DEF ReadInv
-----------------------------------------------------------------------------
(***************************************************************************)
(* The calm steps.                                                         *)
(***************************************************************************)
\* The first tables agree with the first log.
LEMMA ReadInit == Init => ReadInv
<1> SUFFICES ASSUME Init PROVE ReadInv
    OBVIOUS
<1>1. /\ mem = Empty /\ imm = <<>> /\ sst = <<>> /\ todo = <<>> /\ old = None /\ replayed = 0
      /\ wal = <<>> /\ manifest = None /\ files = Empty /\ up = "open" /\ snapshot = <<>>
    BY DEF Init
<1>2. DOMAIN files = {} /\ DOMAIN sst = {} /\ Len(wal) = 0
    BY <1>1 DEF Empty
<1>3. \A x : ~Left(x)
    BY <1>1, HasListed DEF Left
<1>4. Empty \in LiveContent
    <2>1. IsTable(Empty) /\ DOMAIN Empty = {} /\ IsFiniteSet({})
        BY TableForms, FS_EmptySet DEF Empty
    <2> QED  BY <2>1, ContentIs
<1>5. Typed
    BY <1>1, <1>2, <1>4, ContentKept DEF Typed, Holdings, DecodeSnapshot
<1>6. Named
    BY <1>1 DEF Named
<1>7. WellListed(todo)
    BY <1>1, <1>3 DEF WellListed, Left
<1>8. Listed /\ Tabled /\ Restoring /\ Filed
    BY <1>1, <1>2, <1>3, <1>7 DEF Listed, Tabled, Restoring, Filed
<1>9. Agree(Tables, wal, Reach)
    <2>1. SSTableEntries = <<>> /\ Pending = <<>>
        BY <1>1, <1>2, <1>3 DEF SSTableEntries, Pending
    <2>2. Tables = <<Empty>>
        BY <1>1, <2>1 DEF Tables
    <2>3. \A k : Absent(<<Empty>>, k)
        BY FoundInOne DEF Empty
    <2>4. Reach = 0
        BY <1>1, <1>2, <1>3 DEF Reach
    <2>5. \A k : ~Written(wal, 0, k)
        BY DEF Written
    <2> QED  BY <2>2, <2>3, <2>4, <2>5 DEF Agree
<1> QED  BY <1>1, <1>5, <1>6, <1>8, <1>9 DEF ReadInv, Agreed

\* What the tables say when the lock is free or the next step is a calm one.
LEMMA CalmAgrees ==
    ASSUME LsmInv, ReadInv, up = "open", todo = <<>> \/ Head(todo) \in Calm
    PROVE  /\ Path(<<>>) /\ todo \in Seq(Steps) /\ \A x : x \notin Calm => ~Left(x)
           /\ SSTableEntries \in Seq(Content) /\ imm \in Seq(Content) /\ mem \in Content
           /\ Agree(SSTableEntries \o imm \o <<mem>>, wal, Reach)
<1>1. Path(<<>>) /\ todo \in Seq(Steps)
    BY CalmHead DEF LsmInv
<1>2. (\A x : x \notin Calm => ~Left(x)) /\ Tables = SSTableEntries \o <<>> \o imm \o <<mem>>
    BY <1>1, CalmLeft
<1>3. ~Left("rewriteWAL") /\ ~Left("publishFlushed")
    BY <1>2 DEF Calm
<1>4. SSTableEntries \in Seq(Content) /\ imm \in Seq(Content) /\ mem \in Content
    BY <1>3, TablesTyped DEF ReadInv
<1>5. SSTableEntries \o <<>> = SSTableEntries
    BY <1>4
<1>6. Agree(Tables, wal, Reach)
    BY <1>3 DEF ReadInv, Agreed
<1> QED  BY <1>1, <1>2, <1>4, <1>5, <1>6

\* The same, put together after a calm step.
LEMMA CalmThen ==
    ASSUME LsmInv, ReadInv, up = "open", todo = <<>> \/ Head(todo) \in Calm,
           todo' \in Seq(Steps), Path(<<>>)', UNCHANGED <<sst, old, files, manifest, snapshot, up>>,
           mem' \in Content, imm' \in Seq(Content), wal' \in Seq(LogRecord),
           \A k : Written(wal, Len(wal), k) => Written(wal', Len(wal'), k),
           replayed' \in Nat, replayed' <= Len(wal'), Listed',
           NEW n, n = Reach', Agree(SSTableEntries \o imm' \o <<mem'>>, wal', n)
    PROVE  ReadInv'
<1>1. SSTableEntries \in Seq(Content)
    BY CalmAgrees
<1>2. ~Left("publishFlushed")'
    BY DEF Left, Has, Path, Calm
<1>3. Pending' = <<>> /\ SSTableEntries' = SSTableEntries
    BY <1>2 DEF Pending, SSTableEntries
<1>4. SSTableEntries \o <<>> = SSTableEntries
    BY <1>1
<1>5. Agree(Tables, wal, Reach)'
    BY <1>3, <1>4 DEF Tables
<1>6. Typed'
    BY DEF ReadInv, Typed, Holdings
<1>7. Named'
    BY DEF ReadInv, Named
<1> QED  BY <1>5, <1>6, <1>7, CalmRead

\* A call or a round of the worker begins.
LEMMA BeginsRead ==
    ASSUME LsmInv, ReadInv, Idle, NEW s \in Seq(Steps), \A i \in 1 .. Len(s) : s[i] \in Calm,
           WellListed(s), ~Has(s, "replay"), Has(s, "append") => table' \in LogRecord,
           todo' = s, UNCHANGED <<memory, old, replayed, disk, up, snapshot>>
    PROVE  ReadInv'
<1>1. todo = <<>> /\ up = "open"
    BY DEF Idle, Locked
<1>2. ~Left("replay") /\ replayed = 0
    BY <1>1, HasListed DEF Left, ReadInv, Listed
<1>3. Reach = Len(wal) /\ Reach' = Len(wal)
    BY <1>2 DEF Reach, Left, disk
<1>4. Listed'
    BY <1>2 DEF Listed, Left
<1>5. todo' \in Seq(Steps) /\ Path(<<>>)'
    BY DEF Path
<1>6. /\ UNCHANGED <<mem, imm, sst, wal, files, manifest>>
      /\ wal \in Seq(LogRecord) /\ replayed \in Nat /\ replayed <= Len(wal)
    BY DEF memory, disk, ReadInv, Typed
<1>7. /\ imm \in Seq(Content) /\ mem \in Content
      /\ Agree(SSTableEntries \o imm \o <<mem>>, wal, Len(wal))
    BY <1>1, <1>3, CalmAgrees
<1> QED  BY <1>1, <1>3, <1>4, <1>5, <1>6, <1>7, CalmThen

\* FlushMemTableIfNeededLocked shows what the memtable shows.
LEMMA NeededRead ==
    ASSUME imm \in Seq(Content), NEW m \in Content, NEW e \in Seq(Content),
           NEW r \in Seq(Steps), WellListed(r), ~Has(r, "append"),
           FlushMemTableIfNeededLocked(m, r)
    PROVE  /\ mem' \in Content /\ imm' \in Seq(Content)
           /\ Shows(e \o imm \o <<m>>, e \o imm' \o <<mem'>>)
           /\ WellListed(todo') /\ ~Left("append")' /\ (Left("replay")' <=> Has(r, "replay"))
<1>1. /\ todo' = <<"flush">> \o r \/ todo' = <<>> \o r
      /\ (mem' = Empty /\ imm' = Rotated(m)) \/ (mem' = m /\ imm' = imm)
    BY DEF FlushMemTableIfNeededLocked, Continue
<1>2. mem' \in Content /\ imm' \in Seq(Content) /\ Shows(e \o imm \o <<m>>, e \o imm' \o <<mem'>>)
    <2>1. CASE mem' = Empty /\ imm' = Rotated(m)
        BY <2>1, RotatedShows, ContentKept
    <2>2. CASE mem' = m /\ imm' = imm
        BY <2>2, ShowsAll
    <2> QED  BY <1>1, <2>1, <2>2
<1>3. CASE todo' = <<"flush">> \o r
    <2>1. <<"flush">> \in Seq(Steps)
        BY DEF Steps, Calm
    <2>2. ~Has(<<"flush">>, "append") /\ ~Has(<<"flush">>, "replay")
        BY HasListed
    <2>3. WellListed(todo') /\ ~Has(todo', "append")
        BY <1>3, <2>1, <2>2, WellListedBoth
    <2>4. Has(todo', "replay") <=> Has(r, "replay")
        BY <1>3, <2>1, <2>2, HasBoth
    <2> QED  BY <1>2, <2>3, <2>4 DEF Left
<1>4. CASE todo' = <<>> \o r
    <2>1. todo' = r
        BY <1>4
    <2> QED  BY <1>2, <2>1 DEF Left
<1> QED  BY <1>1, <1>3, <1>4

\* AppendWALLocked and RecoverFromWALLocked apply the next record.
LEMMA NextRecord ==
    ASSUME LsmInv, ReadInv, up = "open", todo # <<>>, Head(todo) \in Calm,
           NEW r \in Seq(Steps), WellListed(r), ~Has(r, "append"), NEW n \in Nat, Reach = n,
           NEW longer \in Seq(LogRecord), Len(wal) <= Len(longer), n + 1 <= Len(longer), n <= Len(wal),
           \A i \in 1 .. Len(wal) : longer[i] = wal[i], wal' = longer,
           NEW record, record = longer[n + 1],
           FlushMemTableIfNeededLocked(With(mem, record.key, record.value), r),
           todo' \in Seq(Steps), Path(<<>>)', UNCHANGED <<sst, old, files, manifest, snapshot, up>>,
           Has(r, "replay") => replayed' = n + 1,
           ~Has(r, "replay") => replayed' = 0 /\ Len(longer) = n + 1
    PROVE  ReadInv'
<1> DEFINE m == With(mem, record.key, record.value)
           e == SSTableEntries
<1>1. /\ e \in Seq(Content) /\ imm \in Seq(Content) /\ mem \in Content
      /\ Agree(e \o imm \o <<mem>>, wal, n)
    BY CalmAgrees
<1>2. wal \in Seq(LogRecord) /\ Len(wal) \in Nat /\ Len(longer) \in Nat
    BY DEF ReadInv, Typed
<1>3. record \in LogRecord
    BY <1>2
<1>4. record.key \in Key /\ record.value \in Entry
    BY <1>3 DEF LogRecord
<1>5. m \in Content
    BY <1>1, <1>4, ContentKept
<1>6. e \o imm \in Seq(Content)
    BY <1>1
<1> HIDE DEF e
<1>7. Agree((e \o imm) \o <<m>>, longer, n + 1)
    BY <1>1, <1>2, <1>5, <1>6, AgreeWrite
<1> HIDE DEF m
<1>8. /\ mem' \in Content /\ imm' \in Seq(Content)
      /\ Shows(e \o imm \o <<m>>, e \o imm' \o <<mem'>>)
      /\ WellListed(todo') /\ ~Left("append")' /\ (Left("replay")' <=> Has(r, "replay"))
    BY <1>1, <1>5, NeededRead DEF m
<1>9. Agree(e \o imm' \o <<mem'>>, longer, n + 1)
    BY <1>7, <1>8, AgreeKept
<1>10. Reach' = n + 1
    BY <1>8 DEF Reach
<1>11. ~Left("rewriteWAL")'
    BY DEF Left, Has, Path, Calm
<1>12. Listed'
    BY <1>8, <1>11 DEF Listed
<1>13. ASSUME NEW k, Written(wal, Len(wal), k) PROVE Written(longer, Len(longer), k)
    BY <1>2, <1>13 DEF Written
<1>14. replayed' \in Nat /\ replayed' <= Len(longer)
    BY <1>2
<1> QED  BY <1>8, <1>9, <1>10, <1>12, <1>13, <1>14, CalmThen DEF e
\* AppendWALLocked: log first, then the memtable.
LEMMA AppendRead ==
    ASSUME LsmInv, ReadInv, AppendWALLocked
    PROVE  ReadInv'
<1>1. /\ todo # <<>> /\ Head(todo) = "append" /\ up = "open" /\ wal' = Append(wal, table)
      /\ FlushMemTableIfNeededLocked(With(mem, table.key, table.value), <<>>)
      /\ UNCHANGED <<sst, old, replayed, files, manifest, snapshot, up>>
    BY DEF AppendWALLocked, Step, Locked, client
<1>2. todo \in Seq(Steps) /\ Left("append") /\ WellListed(todo)
    <2>1. todo \in Seq(Steps)
        BY DEF LsmInv
    <2> QED  BY <1>1, <2>1, HasTail DEF Left, ReadInv, Listed
<1>3. table \in LogRecord
    BY <1>1, <1>2 DEF ReadInv, Listed
<1>4. ~Left("replay") /\ replayed = 0
    <2>1. todo = <<"append">>
        BY <1>1, <1>2, WellListedTail
    <2>2. ~Left("replay")
        BY <2>1, HasListed DEF Left
    <2> QED  BY <1>1, <2>2 DEF ReadInv, Listed
<1>5. wal \in Seq(LogRecord)
    BY DEF ReadInv, Typed
<1>6. /\ Append(wal, table) \in Seq(LogRecord) /\ Len(Append(wal, table)) = Len(wal) + 1
      /\ \A i \in 1 .. Len(wal) : Append(wal, table)[i] = wal[i]
      /\ Append(wal, table)[Len(wal) + 1] = table /\ Len(wal) \in Nat
    BY <1>3, <1>5, AppendProperties
<1>7. <<>> \in Seq(Steps) /\ \A i \in 1 .. Len(<<>>) : <<>>[i] \in Calm
    OBVIOUS
<1>8. WellListed(<<>>) /\ ~Has(<<>>, "append") /\ ~Has(<<>>, "replay")
    BY HasListed DEF WellListed
<1>9. todo' \in Seq(Steps) /\ Path(<<>>)'
    <2>1. IsTable(With(mem, table.key, table.value))
        BY TableForms
    <2> QED  BY <1>1, <1>7, <2>1, FlushNeeded
<1>10. Reach = Len(wal)
    BY <1>4 DEF Reach
<1>11. /\ Len(wal) <= Len(Append(wal, table)) /\ Len(wal) + 1 <= Len(Append(wal, table))
       /\ Len(wal) <= Len(wal) /\ table = Append(wal, table)[Len(wal) + 1]
    BY <1>6
<1>12. replayed' = 0 /\ Head(todo) \in Calm
    BY <1>1, <1>4 DEF Calm
<1> QED  BY <1>1, <1>6, <1>7, <1>8, <1>9, <1>10, <1>11, <1>12, NextRecord

\* A calm step that is done with and has shown nothing new.
LEMMA CalmDone ==
    ASSUME LsmInv, ReadInv, up = "open", todo # <<>>, Head(todo) \in Calm \ {"replay"},
           todo' = Tail(todo),
           UNCHANGED <<mem, imm, sst, wal, old, replayed, files, manifest, snapshot, up>>
    PROVE  ReadInv'
<1>1. /\ Path(<<>>) /\ todo \in Seq(Steps) /\ imm \in Seq(Content) /\ mem \in Content
      /\ Agree(SSTableEntries \o imm \o <<mem>>, wal, Reach)
    BY CalmAgrees
<1>2. todo' \in Seq(Steps) /\ \A i \in 1 .. Len(Tail(todo)) : Tail(todo)[i] \in Calm
    BY <1>1, CalmTail
<1>3. Path(<<>>)'
    BY <1>2 DEF Path
<1>4. WellListed(todo') /\ ~Left("append")' /\ (Left("replay")' <=> Left("replay"))
    <2>1. WellListed(todo)
        BY DEF ReadInv, Listed
    <2>2. WellListed(Tail(todo)) /\ ~Has(Tail(todo), "append")
        BY <1>1, <2>1, WellListedTail
    <2>3. Has(todo, "replay") <=> Has(Tail(todo), "replay")
        BY <1>1, HasTail
    <2> QED  BY <2>2, <2>3 DEF Left
<1>5. Reach' = Reach
    BY <1>4 DEF Reach
<1>6. ~Left("rewriteWAL")'
    BY <1>3 DEF Left, Has, Path, Calm
<1>7. Listed'
    BY <1>4, <1>6 DEF Listed, ReadInv
<1>8. wal \in Seq(LogRecord) /\ replayed \in Nat /\ replayed <= Len(wal)
    BY DEF ReadInv, Typed
<1> QED  BY <1>1, <1>2, <1>3, <1>5, <1>7, <1>8, CalmThen

\* The worker's round is over.
LEMMA UnlocksRead ==
    ASSUME LsmInv, ReadInv, WorkerUnlocks
    PROVE  ReadInv'
<1>1. /\ todo # <<>> /\ Head(todo) = "endOfRound" /\ up = "open" /\ todo' = Tail(todo)
      /\ UNCHANGED <<mem, imm, sst, wal, old, replayed, files, manifest, snapshot, up>>
    BY DEF WorkerUnlocks, Step, Locked, Done, Continue, memory, disk, client
<1>2. Head(todo) \in Calm \ {"replay"}
    BY <1>1 DEF Calm
<1> QED  BY <1>1, <1>2, CalmDone

\* FlushIfNeeded: the last step of a Restore.
LEMMA FlushIfNeededRead ==
    ASSUME LsmInv, ReadInv, FlushIfNeeded
    PROVE  ReadInv'
<1>1. /\ todo # <<>> /\ Head(todo) = "flushIfNeeded" /\ Head(todo) \in Calm /\ up = "open"
      /\ FlushMemTableIfNeededLocked(mem, Tail(todo))
      /\ UNCHANGED <<sst, wal, old, replayed, files, manifest, snapshot, up>>
    BY DEF FlushIfNeeded, Step, Locked, disk, client, Calm
<1>2. /\ Path(<<>>) /\ todo \in Seq(Steps)
      /\ SSTableEntries \in Seq(Content) /\ imm \in Seq(Content) /\ mem \in Content
      /\ Agree(SSTableEntries \o imm \o <<mem>>, wal, Reach)
    BY <1>1, CalmAgrees
<1>3. Tail(todo) \in Seq(Steps) /\ \A i \in 1 .. Len(Tail(todo)) : Tail(todo)[i] \in Calm
    BY <1>1, <1>2, CalmTail
<1>4. todo' \in Seq(Steps) /\ Path(<<>>)'
    BY <1>1, <1>3, FlushNeeded DEF LsmInv
<1>5. WellListed(Tail(todo)) /\ ~Has(Tail(todo), "append") /\ (Left("replay") <=> Has(Tail(todo), "replay"))
    <2>1. WellListed(todo)
        BY <1>1 DEF ReadInv, Listed
    <2>2. Has(todo, "replay") <=> Has(Tail(todo), "replay")
        BY <1>1, <1>2, HasTail
    <2> QED  BY <1>1, <1>2, <2>1, <2>2, WellListedTail DEF Left
<1> DEFINE e == SSTableEntries
<1> HIDE DEF e
<1>6. /\ mem' \in Content /\ imm' \in Seq(Content)
      /\ Shows(e \o imm \o <<mem>>, e \o imm' \o <<mem'>>)
      /\ WellListed(todo') /\ ~Left("append")' /\ (Left("replay")' <=> Has(Tail(todo), "replay"))
    BY <1>1, <1>2, <1>3, <1>5, NeededRead DEF e
<1>7. Agree(e \o imm' \o <<mem'>>, wal, Reach)
    BY <1>2, <1>6, AgreeKept DEF e
<1>8. Reach' = Reach
    BY <1>1, <1>5, <1>6 DEF Reach
<1>9. ~Left("rewriteWAL")'
    BY <1>4 DEF Left, Has, Path, Calm
<1>10. Listed'
    BY <1>1, <1>5, <1>6, <1>9 DEF Listed, ReadInv
<1>11. wal \in Seq(LogRecord) /\ replayed \in Nat /\ replayed <= Len(wal)
    BY DEF ReadInv, Typed
<1> QED  BY <1>1, <1>4, <1>6, <1>7, <1>8, <1>10, <1>11, CalmThen DEF e

\* RecoverFromWALLocked reads the next record, or is done.
LEMMA ReplayRead ==
    ASSUME LsmInv, ReadInv, RecoverFromWALLocked
    PROVE  ReadInv'
<1>1. /\ todo # <<>> /\ Head(todo) = "replay" /\ up = "open" /\ Head(todo) \in Calm
      /\ UNCHANGED <<sst, wal, old, files, manifest, snapshot>>
    BY DEF RecoverFromWALLocked, Step, Locked, disk, client, Calm
<1>2. /\ Path(<<>>) /\ todo \in Seq(Steps) /\ \A x : x \notin Calm => ~Left(x)
      /\ SSTableEntries \in Seq(Content) /\ imm \in Seq(Content) /\ mem \in Content
      /\ Agree(SSTableEntries \o imm \o <<mem>>, wal, Reach)
    BY <1>1, CalmAgrees
<1>3. todo = <<"replay">> /\ Tail(todo) = <<>> /\ WellListed(todo)
    BY <1>1, <1>2, WellListedTail DEF ReadInv, Listed
<1>4. Left("replay") /\ ~Left("append") /\ Has(todo, "replay") /\ ~Has(todo, "append")
    BY <1>3, HasListed DEF Left
<1>5. wal \in Seq(LogRecord) /\ Len(wal) \in Nat /\ replayed \in Nat /\ replayed <= Len(wal)
    BY DEF ReadInv, Typed
<1>6. Reach = replayed
    BY <1>4 DEF Reach
<1>7. CASE replayed < Len(wal)
    <2>1. /\ replayed' = replayed + 1 /\ up' = up
          /\ FlushMemTableIfNeededLocked(With(mem, wal[replayed + 1].key, wal[replayed + 1].value), todo)
        BY <1>7 DEF RecoverFromWALLocked
    <2>2. \A i \in 1 .. Len(todo) : todo[i] \in Calm
        BY <1>2 DEF Path
    <2>3. todo' \in Seq(Steps) /\ Path(<<>>)'
        <3>1. IsTable(With(mem, wal[replayed + 1].key, wal[replayed + 1].value))
            BY TableForms
        <3> QED  BY <1>2, <2>1, <2>2, <3>1, FlushNeeded
    <2>4. replayed + 1 <= Len(wal) /\ Len(wal) <= Len(wal) /\ \A i \in 1 .. Len(wal) : wal[i] = wal[i]
        BY <1>5, <1>7
    <2> QED  BY <1>1, <1>2, <1>3, <1>4, <1>5, <1>6, <2>1, <2>3, <2>4, NextRecord
<1>8. CASE ~(replayed < Len(wal))
    <2>1. /\ todo' = <<>> /\ replayed' = 0 /\ (up' = "broken" \/ up' = up)
          /\ UNCHANGED <<mem, imm>>
        BY <1>3, <1>8 DEF RecoverFromWALLocked, Done, Continue
    <2>2. Reach = Len(wal)
        BY <1>5, <1>6, <1>8
    <2>3. \A x : ~Left(x)'
        BY <2>1, HasListed DEF Left
    <2>4. Reach' = Len(wal) /\ Listed' /\ todo' \in Seq(Steps) /\ Path(<<>>)'
        <3>1. WellListed(todo')
            BY <2>1, <2>3 DEF WellListed, Left
        <3> QED  BY <1>1, <2>1, <2>3, <3>1 DEF Reach, Listed, Path
    <2>5. CASE up' = up
        BY <1>1, <1>2, <1>5, <2>1, <2>2, <2>4, <2>5, CalmThen
    <2>6. CASE up' = "broken"
        <3>1. old = None
            BY <1>1, <1>2 DEF ReadInv, Restoring, Calm
        <3>2. Typed' /\ Named'
            BY <1>1, <1>5, <2>1 DEF ReadInv, Typed, Holdings, Named
        <3> QED  BY <1>1, <2>1, <2>6, <3>1, <3>2 DEF ReadInv
    <2> QED  BY <2>1, <2>5, <2>6
<1> QED  BY <1>7, <1>8
\* The tail of a list whose head is calm adds nothing to what is left but a replay.
LEMMA RestOf ==
    ASSUME LsmInv, ReadInv, up = "open", todo # <<>>, Head(todo) \in Calm \ {"replay"}
    PROVE  /\ Tail(todo) \in Seq(Steps) /\ WellListed(Tail(todo)) /\ ~Has(Tail(todo), "append")
           /\ Has(Tail(todo), "replay") <=> Left("replay")
           /\ \A x : x \notin Calm => ~Has(Tail(todo), x)
<1>1. Path(<<>>) /\ todo \in Seq(Steps)
    BY CalmAgrees
<1>2. Tail(todo) \in Seq(Steps) /\ \A i \in 1 .. Len(Tail(todo)) : Tail(todo)[i] \in Calm
    BY <1>1, CalmTail
<1>3. WellListed(todo)
    BY DEF ReadInv, Listed
<1>4. WellListed(Tail(todo)) /\ ~Has(Tail(todo), "append")
    BY <1>1, <1>3, WellListedTail
<1>5. Has(todo, "replay") <=> Has(Tail(todo), "replay")
    BY <1>1, HasTail
<1>6. \A x : x \notin Calm => ~Has(Tail(todo), x)
    BY <1>2 DEF Has
<1> QED  BY <1>2, <1>4, <1>5, <1>6 DEF Left

\* A new table is made of a content.
LEMMA NewTyped ==
    ASSUME LsmInv, NEW f \in Content, NewTable(f)
    PROVE  table' \in SSTable /\ table'.entries = f
<1>1. nextSeq + 1 \in Nat /\ table' = RebuildSSTableMetadata(nextSeq + 1, f)
    BY DEF NewTable, LsmInv
<1>2. table' \in SSTable
    BY <1>1 DEF SSTable
<1>3. RebuildSSTableMetadata(nextSeq + 1, f).entries = f
    BY DEF RebuildSSTableMetadata
<1> QED  BY <1>1, <1>2, <1>3

\* FlushImmutableMemTablesLocked: the oldest memtable is the table to publish.
LEMMA FlushRead ==
    ASSUME LsmInv, ReadInv, FlushImmutableMemTablesLocked
    PROVE  ReadInv'
<1>1. /\ todo # <<>> /\ Head(todo) \in Calm \ {"replay"} /\ up = "open" /\ mem' = Empty
      /\ UNCHANGED <<sst, wal, old, replayed, files, manifest, snapshot, up>>
    BY DEF FlushImmutableMemTablesLocked, Step, Locked, Calm, disk, client
<1>2. /\ todo \in Seq(Steps) /\ \A x : x \notin Calm => ~Left(x)
      /\ SSTableEntries \in Seq(Content) /\ imm \in Seq(Content) /\ mem \in Content
      /\ Agree(SSTableEntries \o imm \o <<mem>>, wal, Reach)
    BY <1>1, CalmAgrees
<1>3. CASE Rotated(mem) = <<>>
    <2>1. todo' = Tail(todo) /\ imm' = imm
        BY <1>3 DEF FlushImmutableMemTablesLocked, Done, Continue
    <2>2. mem = Empty
        <3>1. Len(Append(imm, mem)) = Len(imm) + 1 /\ Len(imm) \in Nat
            BY <1>2, AppendProperties
        <3>2. Append(imm, mem) # <<>>
            BY <3>1, EmptySeq
        <3> QED  BY <1>3, <3>2 DEF Rotated
    <2> QED  BY <1>1, <2>1, <2>2, CalmDone
<1>4. CASE Rotated(mem) # <<>>
    <2> DEFINE r == Tail(todo)
               e == SSTableEntries
               h == Head(Rotated(mem))
    <2>1. /\ imm' = Tail(Rotated(mem)) /\ NewTable(h)
          /\ todo' = FlushSteps \o r
        BY <1>4 DEF FlushImmutableMemTablesLocked
    <2>2. /\ Rotated(mem) \in Seq(Content)
          /\ Shows(e \o imm \o <<mem>>, e \o Rotated(mem) \o <<Empty>>)
        BY <1>2, RotatedShows
    <2>3. h \in Content /\ Tail(Rotated(mem)) \in Seq(Content) /\ <<h>> \o Tail(Rotated(mem)) = Rotated(mem)
        BY <1>4, <2>2, HeadTail
    <2>4. table' \in SSTable /\ table'.entries = h
        BY <2>1, <2>3, NewTyped
    <2>5. /\ r \in Seq(Steps) /\ WellListed(r) /\ ~Has(r, "append")
          /\ Has(r, "replay") <=> Left("replay")
          /\ \A x : x \notin Calm => ~Has(r, x)
        BY <1>1, RestOf
    <2>6. /\ FlushSteps \in Seq(Steps)
          /\ \A x : Has(FlushSteps, x) <=> x \in {"createSSTable", "writeSSTable", "publishFlushed",
                                                 "writeManifest", "flush"}
        BY HasListed DEF FlushSteps, Steps, Calm
    <2> HIDE DEF r, e, h
    <2>7. \A x : Left(x)' <=> (Has(FlushSteps, x) \/ Has(r, x))
        BY <2>1, <2>5, <2>6, HasBoth DEF Left
    <2>8. WellListed(todo') /\ ~Left("append")'
        BY <2>1, <2>5, <2>6, WellListedBoth DEF Left
    <2>9. /\ Left("publishFlushed")' /\ Left("writeSSTable")' /\ ~Left("publishCompacted")'
          /\ ~Left("publishNone")' /\ ~Left("rewriteWAL")' /\ ~Left("install")'
          /\ (Left("replay")' <=> Left("replay"))
        BY <2>5, <2>6, <2>7 DEF Calm
    <2>10. Reach' = Reach
        BY <1>1, <2>9 DEF Reach
    <2>11. Agree(Tables, wal, Reach)'
        <3>1. SSTableEntries' = e /\ Pending' = <<h>>
            BY <1>1, <2>4, <2>9 DEF SSTableEntries, Pending, e
        <3>2. Tables' = e \o <<h>> \o Tail(Rotated(mem)) \o <<Empty>>
            BY <1>1, <2>1, <3>1 DEF Tables
        <3>3. e \in Seq(Content) /\ <<h>> \in Seq(Content)
            BY <1>2, <2>3 DEF e
        <3>4. e \o <<h>> \o Tail(Rotated(mem)) = e \o (<<h>> \o Tail(Rotated(mem)))
            BY <2>3, <3>3, ConcatAssociative
        <3>5. Tables' = e \o Rotated(mem) \o <<Empty>>
            BY <2>3, <3>2, <3>4
        <3>6. Agree(e \o imm \o <<mem>>, wal, Reach)
            BY <1>2 DEF e
        <3>7. Agree(e \o Rotated(mem) \o <<Empty>>, wal, Reach)
            BY <2>2, <3>6, AgreeKept
        <3> QED  BY <1>1, <2>10, <3>5, <3>7
    <2>12. ~Left("rewriteWAL")
        BY <1>2 DEF Calm
    <2>13. Typed' /\ Named'
        BY <1>1, <2>1, <2>3, ContentKept DEF ReadInv, Typed, Holdings, Named
    <2>14. Listed' /\ Tabled' /\ Restoring' /\ Filed' /\ Agreed'
        BY <1>1, <2>4, <2>8, <2>9, <2>11, <2>12
        DEF ReadInv, Listed, Tabled, Restoring, Filed, Agreed, Stored
    <2> QED  BY <1>1, <2>13, <2>14 DEF ReadInv
<1> QED  BY <1>3, <1>4

\* CompactSSTablesLocked: what the merged table is to hold.
LEMMA CompactRead ==
    ASSUME LsmInv, ReadInv, CompactSSTablesLocked
    PROVE  ReadInv'
<1>1. /\ todo # <<>> /\ Head(todo) \in Calm \ {"replay"} /\ up = "open"
      /\ UNCHANGED <<mem, imm, sst, wal, old, replayed, files, manifest, snapshot, up>>
    BY DEF CompactSSTablesLocked, Step, Locked, Calm, disk, client
<1>2. CASE Len(sst) <= 1
    <2>1. todo' = Tail(todo)
        BY <1>2 DEF CompactSSTablesLocked, Done, Continue
    <2> QED  BY <1>1, <2>1, CalmDone
<1>3. CASE ~(Len(sst) <= 1)
    <2> DEFINE r == Tail(todo)
               n == <<"removeFiles", "publishNone", "writeManifest">>
               c == <<"createSSTable", "writeSSTable", "removeFiles", "publishCompacted",
                      "writeManifest">>
    <2>1. \/ CompactedEntries = Empty /\ todo' = n \o r
          \/ NewTable(CompactedEntries) /\ todo' = c \o r
        BY <1>3 DEF CompactSSTablesLocked, Continue
    <2>2. /\ todo \in Seq(Steps) /\ (\A x : x \notin Calm => ~Left(x))
          /\ SSTableEntries \in Seq(Content) /\ imm \in Seq(Content) /\ mem \in Content
          /\ Agree(SSTableEntries \o imm \o <<mem>>, wal, Reach)
        BY <1>1, CalmAgrees
    <2>3. CompactedEntries \in Content
        BY <2>2, LiveTyped, ContentKept DEF CompactedEntries
    <2>4. /\ r \in Seq(Steps) /\ WellListed(r) /\ ~Has(r, "append")
          /\ Has(r, "replay") <=> Left("replay")
          /\ \A x : x \notin Calm => ~Has(r, x)
        BY <1>1, RestOf
    <2>5. /\ n \in Seq(Steps) /\ c \in Seq(Steps)
          /\ \A x : Has(n, x) <=> x \in {"removeFiles", "publishNone", "writeManifest"}
          /\ \A x : Has(c, x) <=> x \in {"createSSTable", "writeSSTable", "removeFiles",
                                        "publishCompacted", "writeManifest"}
        BY HasListed DEF Steps
    <2> HIDE DEF r, n, c
    <2>6. ASSUME NEW s \in {n, c}, todo' = s \o r
          PROVE  /\ WellListed(todo') /\ ~Left("append")'
                 /\ \A x : Left(x)' <=> (Has(s, x) \/ Has(r, x))
        <3>1. s \in Seq(Steps) /\ ~Has(s, "append") /\ ~Has(s, "replay")
            BY <2>5
        <3> QED  BY <2>4, <2>6, <3>1, HasBoth, WellListedBoth DEF Left
    <2>7. /\ WellListed(todo') /\ ~Left("append")'
          /\ ~Left("publishFlushed")' /\ ~Left("rewriteWAL")' /\ ~Left("install")'
          /\ (Left("replay")' <=> Left("replay"))
          /\ (Left("publishNone")' => CompactedEntries = Empty)
          /\ (Left("publishCompacted")' => NewTable(CompactedEntries) /\ Left("writeSSTable")')
        <3>1. CASE CompactedEntries = Empty /\ todo' = n \o r
            <4>1. /\ WellListed(todo') /\ ~Left("append")'
                  /\ \A x : Left(x)' <=> (Has(n, x) \/ Has(r, x))
                BY <2>6, <3>1
            <4>2. \A x : x \notin Calm => (Left(x)' <=> Has(n, x))
                BY <2>4, <4>1
            <4>3. Left("replay")' <=> Left("replay")
                BY <2>4, <2>5, <4>1
            <4>4. ~Left("publishFlushed")' /\ ~Left("rewriteWAL")' /\ ~Left("install")'
                  /\ ~Left("publishCompacted")'
                BY <2>5, <4>2 DEF Calm
            <4> QED  BY <3>1, <4>1, <4>3, <4>4
        <3>2. CASE NewTable(CompactedEntries) /\ todo' = c \o r
            <4>1. /\ WellListed(todo') /\ ~Left("append")'
                  /\ \A x : Left(x)' <=> (Has(c, x) \/ Has(r, x))
                BY <2>6, <3>2
            <4>2. \A x : x \notin Calm => (Left(x)' <=> Has(c, x))
                BY <2>4, <4>1
            <4>3. Left("replay")' <=> Left("replay")
                BY <2>4, <2>5, <4>1
            <4> QED  BY <2>5, <3>2, <4>1, <4>2, <4>3 DEF Calm
        <3> QED  BY <2>1, <3>1, <3>2
    <2>8. CompactedEntries' = CompactedEntries /\ SSTableEntries' = SSTableEntries
        BY <1>1 DEF CompactedEntries, SSTableEntries
    <2>9. Tabled'
        BY <2>3, <2>7, <2>8, NewTyped DEF Tabled
    <2>10. Agree(Tables, wal, Reach)'
        <3>1. Reach' = Reach /\ Pending' = <<>>
            BY <1>1, <2>7 DEF Reach, Pending
        <3>2. SSTableEntries \o <<>> = SSTableEntries
            BY <2>2
        <3> QED  BY <1>1, <2>2, <2>8, <3>1, <3>2 DEF Tables
    <2>11. ~Left("rewriteWAL")
        BY <2>2 DEF Calm
    <2>12. Typed' /\ Named'
        BY <1>1 DEF ReadInv, Typed, Holdings, Named
    <2>13. Listed' /\ Restoring' /\ Filed' /\ Agreed'
        BY <1>1, <2>7, <2>10, <2>11
        DEF ReadInv, Listed, Restoring, Filed, Agreed, Stored
    <2> QED  BY <1>1, <2>9, <2>12, <2>13 DEF ReadInv
<1> QED  BY <1>2, <1>3
-----------------------------------------------------------------------------
(***************************************************************************)
(* The steps on the files.                                                 *)
(***************************************************************************)
\* A step on the files is done.
LEMMA DoneLeft ==
    ASSUME LsmInv, ReadInv, up = "open", todo # <<>>,
           NEW s \in Seq(Steps), s # <<>>, s[1] \notin Calm, Path(s), Done
    PROVE  /\ \A x : x \notin Calm => (Left(x) <=> Has(s, x)) /\ (Left(x)' <=> Has(Tail(s), x))
           /\ \A x : Left(x)' => Left(x)
           /\ Left("replay")' <=> Left("replay")
           /\ Left("rewriteWAL") => ~Left("replay") /\ replayed = 0
           /\ replayed' = replayed => Listed'
<1>1. todo \in Seq(Steps) /\ todo' = Tail(todo) /\ WellListed(todo) /\ Listed
    BY DEF LsmInv, ReadInv, Listed, Done, Continue
<1>2. \A x : Left(x) <=> (Head(todo) = x \/ Left(x)')
    BY <1>1, HasTail DEF Left
<1>3. Head(todo) = s[1]
    BY <1>1 DEF Path
<1>4. WellListed(todo') /\ ~Left("append")'
    BY <1>1, WellListedTail DEF Left
<1>5. Left("replay")' <=> Left("replay")
    BY <1>2, <1>3 DEF Calm
<1>6. \A x : x \notin Calm => (Left(x) <=> Has(s, x)) /\ (Left(x)' <=> Has(Tail(s), x))
    BY <1>1, HasOnPath DEF Left
<1>7. Left("rewriteWAL") => ~Left("replay") /\ replayed = 0
    BY <1>1 DEF Listed
<1>8. replayed' = replayed => Listed'
    BY <1>1, <1>2, <1>4, <1>5 DEF Listed
<1> QED  BY <1>2, <1>5, <1>6, <1>7, <1>8

\* The keys of every table are in the log, and so are those of the table to publish.
LEMMA KeysWritten ==
    ASSUME ReadInv, up = "open", ~Left("rewriteWAL")
    PROVE  /\ \A i \in DOMAIN sst : \A k \in DOMAIN sst[i].entries : Written(wal, Len(wal), k)
           /\ Left("publishFlushed") \/ Left("publishCompacted") =>
                  \A k \in DOMAIN table.entries : Written(wal, Len(wal), k)
<1> DEFINE e == SSTableEntries
<1>1. /\ e \in Seq(Content) /\ Pending \in Seq(Content) /\ imm \in Seq(Content)
      /\ e \o Pending \in Seq(Content) /\ e \o Pending \o imm \in Seq(Content)
      /\ <<mem>> \in Seq(Content)
    BY TablesTyped DEF ReadInv, Tabled
<1>2. DOMAIN e = DOMAIN sst /\ \A i \in DOMAIN sst : e[i] = sst[i].entries
    BY EntriesTyped DEF ReadInv, Typed, Holdings
<1> HIDE DEF e
<1>3. ASSUME NEW k, ~Absent(e, k) \/ ~Absent(Pending, k) PROVE Written(wal, Len(wal), k)
    <2>1. ~Absent(e \o Pending, k)
        BY <1>1, <1>3, FoundInBoth
    <2>2. ~Absent((e \o Pending) \o imm, k)
        BY <1>1, <2>1, FoundInBoth
    <2>3. ~Absent(((e \o Pending) \o imm) \o <<mem>>, k)
        BY <1>1, <2>2, FoundInBoth
    <2>4. ~Absent(Tables, k)
        BY <2>3 DEF Tables, e
    <2> QED  BY <2>4 DEF ReadInv, Agreed, Agree
<1>4. ASSUME NEW i \in DOMAIN sst, NEW k \in DOMAIN sst[i].entries PROVE Written(wal, Len(wal), k)
    <2>1. ~Absent(e, k)
        BY <1>2, <1>4 DEF Absent
    <2> QED  BY <1>3, <2>1
<1>5. ASSUME Left("publishFlushed"), NEW k \in DOMAIN table.entries PROVE Written(wal, Len(wal), k)
    <2>1. ~Absent(Pending, k)
        BY <1>5, FoundInOne DEF Pending
    <2> QED  BY <1>3, <2>1
<1>6. ASSUME Left("publishCompacted"), NEW k \in DOMAIN table.entries PROVE Written(wal, Len(wal), k)
    <2>1. k \in DOMAIN Live(Newest(e))
        BY <1>6 DEF ReadInv, Tabled, CompactedEntries, e
    <2>2. \E v : Found(e, k, v)
        BY <1>1, <2>1, LiveIs
    <2>3. ~Absent(e, k)
        BY <1>1, <2>2, FoundOnce
    <2> QED  BY <1>3, <2>3
<1> QED  BY <1>4, <1>5, <1>6

\* Restore begins.
LEMMA RestoreRead ==
    ASSUME LsmInv, ReadInv, Restore
    PROVE  ReadInv'
<1> DEFINE s == <<"removeFiles", "install", "rewriteWAL", "publishNone", "writeManifest">>
           f == <<"flushIfNeeded">>
<1>1. /\ up = "open" /\ todo = <<>> /\ todo' = s \o f
      /\ table' = DecodeSnapshot(snapshot) /\ old' = Logged(wal)
      /\ UNCHANGED <<mem, imm, sst, wal, replayed, files, manifest, snapshot, up>>
    BY DEF Restore, Idle, Locked, memory, disk, client
<1>14. Path(<<>>) /\ Steady
    BY <1>1, CalmHead DEF LsmInv
<1>2. /\ todo \in Seq(Steps) /\ (\A x : x \notin Calm => ~Left(x))
      /\ SSTableEntries \in Seq(Content) /\ imm \in Seq(Content) /\ mem \in Content
      /\ Agree(SSTableEntries \o imm \o <<mem>>, wal, Reach)
    BY <1>1, CalmAgrees
<1>3. /\ s \in Seq(Steps) /\ f \in Seq(Steps)
      /\ \A x : Has(s, x) <=> x \in {"removeFiles", "install", "rewriteWAL", "publishNone",
                                    "writeManifest"}
      /\ \A x : Has(f, x) <=> x = "flushIfNeeded"
    BY HasListed DEF Steps, Calm
<1> HIDE DEF s, f
<1>4. WellListed(f)
    <2>1. ~Has(f, "append") /\ ~Has(f, "replay")
        BY <1>3
    <2> QED  BY <2>1 DEF WellListed, Has
<1>5. WellListed(todo')
    <2>1. ~Has(f, "append") /\ ~Has(s, "append") /\ ~Has(s, "replay")
        BY <1>3
    <2> QED  BY <1>1, <1>3, <1>4, <2>1, WellListedBoth
<1>6. \A x : Left(x)' <=> (Has(s, x) \/ Has(f, x))
    BY <1>1, <1>3, HasBoth DEF Left
<1>7. /\ Left("removeFiles")' /\ Left("install")' /\ Left("rewriteWAL")' /\ Left("publishNone")'
      /\ ~Left("publishFlushed")' /\ ~Left("publishCompacted")'
      /\ ~Left("replay")' /\ ~Left("append")'
    BY <1>3, <1>6
<1>8. ~Left("replay") /\ replayed = 0
    BY <1>1, HasListed DEF Left, ReadInv, Listed
<1>9. Listed' /\ Tabled'
    BY <1>1, <1>5, <1>7, <1>8 DEF Listed, Tabled
<1>10. Logged(wal) \in LiveContent
    <2>1. Agree(SSTableEntries \o imm \o <<mem>>, wal, Len(wal))
        BY <1>2, <1>8 DEF Reach
    <2>2. SSTableEntries \o imm \o <<mem>> \in Seq(Content) /\ wal \in Seq(LogRecord)
        BY <1>2 DEF ReadInv, Typed
    <2>3. Live(Newest(SSTableEntries \o imm \o <<mem>>)) = Logged(wal)
        BY <2>1, <2>2, AgreeShows
    <2> QED  BY <2>2, <2>3, LiveTyped
<1>11. Restoring'
    <2>1. table' \in LiveContent
        BY <1>1 DEF ReadInv, Typed
    <2>2. Current'
        BY <1>1, <1>14 DEF Steady, Current
    <2> QED  BY <1>1, <1>7, <1>10, <2>1, <2>2 DEF Restoring
<1>12. Filed'
    BY <1>1, <1>7 DEF ReadInv, Filed, Stored
<1>13. Agreed'
    <2>1. Pending' = <<>> /\ SSTableEntries' = SSTableEntries /\ Reach' = Reach
        BY <1>1, <1>7, <1>8 DEF Pending, SSTableEntries, Reach
    <2>2. SSTableEntries \o <<>> = SSTableEntries
        BY <1>2
    <2>3. Agree(Tables, wal, Reach)'
        BY <1>1, <1>2, <2>1, <2>2 DEF Tables
    <2> QED  BY <2>3 DEF Agreed
<1>15. Typed' /\ Named'
    BY <1>1 DEF ReadInv, Typed, Holdings, Named
<1> QED  BY <1>1, <1>9, <1>11, <1>12, <1>13, <1>15 DEF ReadInv
\* A step on the files leaves the tables in memory, the log and the rest of the call alone.
LEMMA FilesRead ==
    ASSUME ReadInv, up = "open", table' = table,
           UNCHANGED <<mem, imm, sst, wal, old, replayed, snapshot, up>>,
           Listed', Named', Filed', Left("replay")' <=> Left("replay"),
           \A x \in {"publishFlushed", "publishCompacted", "publishNone", "install", "rewriteWAL"} :
               Left(x)' <=> Left(x),
           \A q \in DOMAIN files' : files'[q] = Torn \/ files'[q] \in Content,
           Left("install") => /\ manifest' = manifest
                              /\ ~Left("removeFiles")' =>
                                     \A i \in DOMAIN sst : sst[i].seq \notin DOMAIN files'
    PROVE  ReadInv'
<1>1. /\ Left("publishFlushed")' <=> Left("publishFlushed")
      /\ Left("publishCompacted")' <=> Left("publishCompacted")
      /\ Left("publishNone")' <=> Left("publishNone")
      /\ Left("install")' <=> Left("install")
      /\ Left("rewriteWAL")' <=> Left("rewriteWAL")
    OBVIOUS
<1>2. SSTableEntries' = SSTableEntries /\ CompactedEntries' = CompactedEntries
    BY DEF SSTableEntries, CompactedEntries
<1>3. Pending' = Pending /\ Reach' = Reach
    BY <1>1 DEF Pending, Reach
<1>4. Tabled' /\ Agreed'
    BY <1>1, <1>2, <1>3 DEF ReadInv, Tabled, Agreed, Tables
<1>5. Typed'
    BY DEF ReadInv, Typed, Holdings
<1>6. Restoring'
    BY <1>1 DEF ReadInv, Restoring, Current
<1> QED  BY <1>4, <1>5, <1>6 DEF ReadInv

\* What is left of a call, but for the steps on the files themselves.
Marks == {"publishFlushed", "publishCompacted", "publishNone", "install", "rewriteWAL"}

\* A step on the files of a table leaves these steps, and the table they are about.
LEMMA MarksKept ==
    ASSUME LsmInv, ReadInv, up = "open", todo # <<>>, NEW s \in Seq(Steps), Len(s) >= 2, Path(s),
           s[1] \in {"createSSTable", "writeSSTable", "removeFiles"}, Done, replayed' = replayed
    PROVE  /\ table' = table /\ Listed' /\ (Left("replay")' <=> Left("replay"))
           /\ \A x \in Marks : Left(x)' <=> Left(x)
           /\ \A x : x \notin Calm => (Left(x) <=> Has(s, x)) /\ (Left(x)' <=> Has(Tail(s), x))
<1>1. s # <<>> /\ s[1] \notin Calm /\ todo \in Seq(Steps)
    BY DEF Calm, LsmInv
<1>2. /\ Left("replay")' <=> Left("replay")
      /\ \A x : x \notin Calm => (Left(x) <=> Has(s, x)) /\ (Left(x)' <=> Has(Tail(s), x))
      /\ Listed'
    BY <1>1, DoneLeft
<1>3. table' = table
    BY <1>1, DoneNotLast
<1>4. Head(todo) = s[1] /\ todo' = Tail(todo)
    BY <1>1 DEF Path, Done, Continue
<1>5. \A x \in Marks : Left(x)' <=> Left(x)
    <2>1. \A x : Left(x) <=> (Head(todo) = x \/ Left(x)')
        BY <1>1, <1>4, HasTail DEF Left
    <2> QED  BY <1>4, <2>1 DEF Marks
<1> QED  BY <1>2, <1>3, <1>5

\* PersistSSTableLocked: the file of the table to publish is created, then it holds the table.
LEMMA PersistRead ==
    ASSUME LsmInv, ReadInv, PersistSSTableLocked
    PROVE  ReadInv'
<1> DEFINE a == <<"createSSTable", "writeSSTable", "publishFlushed", "writeManifest">>
           b == <<"createSSTable", "writeSSTable", "removeFiles", "publishCompacted",
                  "writeManifest">>
           c == <<"writeSSTable", "publishFlushed", "writeManifest">>
           d == <<"writeSSTable", "removeFiles", "publishCompacted", "writeManifest">>
<1>1. /\ todo \in Seq(Steps) /\ todo # <<>> /\ up = "open" /\ Stage /\ Done
      /\ UNCHANGED <<mem, imm, sst, wal, old, replayed, manifest, snapshot, up>>
    BY DEF PersistSSTableLocked, Step, Locked, LsmInv, memory, client
<1>2. /\ a \in Seq(Steps) /\ Len(a) >= 2 /\ a[1] = "createSSTable" /\ Tail(a) = c
      /\ b \in Seq(Steps) /\ Len(b) >= 2 /\ b[1] = "createSSTable" /\ Tail(b) = d
      /\ c \in Seq(Steps) /\ Len(c) >= 2 /\ c[1] = "writeSSTable"
      /\ d \in Seq(Steps) /\ Len(d) >= 2 /\ d[1] = "writeSSTable"
    BY DEF Steps
<1>3. \A s \in {a, b, c, d} : /\ Has(s, "publishFlushed") \/ Has(s, "publishCompacted")
                             /\ ~Has(s, "install") /\ ~Has(s, "rewriteWAL")
    BY HasListed
<1>4. Has(c, "writeSSTable") /\ Has(d, "writeSSTable")
    BY HasListed
<1> HIDE DEF a, b, c, d
<1>5. ASSUME NEW s \in {a, b, c, d}, Path(s), Steady, Fresh, NEW v, files' = With(files, table.seq, v),
             v = table.entries \/ (v = Torn /\ Has(Tail(s), "writeSSTable"))
      PROVE  ReadInv'
    <2>1. s \in Seq(Steps) /\ Len(s) >= 2 /\ s[1] \in {"createSSTable", "writeSSTable"}
        BY <1>2
    <2>2. /\ table' = table /\ Listed' /\ (Left("replay")' <=> Left("replay"))
          /\ \A x \in Marks : Left(x)' <=> Left(x)
          /\ \A x : x \notin Calm => (Left(x) <=> Has(s, x)) /\ (Left(x)' <=> Has(Tail(s), x))
        BY <1>1, <1>5, <2>1, MarksKept
    <2>3. /\ Left("publishFlushed") \/ Left("publishCompacted")
          /\ ~Left("install") /\ ~Left("rewriteWAL")
        BY <1>3, <1>5, <2>2 DEF Calm
    <2>4. v = table.entries \/ (v = Torn /\ Left("writeSSTable")')
        BY <1>5, <2>2 DEF Calm
    <2>5. /\ DOMAIN files' = DOMAIN files \cup {table.seq}
          /\ \A q \in DOMAIN files' : files'[q] = IF q = table.seq THEN v ELSE files[q]
        BY <1>5 DEF With
    <2>6. table.entries \in Content
        BY <1>1, <2>3, SSTableIs DEF ReadInv, Tabled
    <2>7. \A q \in DOMAIN files' : files'[q] = Torn \/ files'[q] \in Content
        BY <2>4, <2>5, <2>6 DEF ReadInv, Typed
    <2>8. \A k \in DOMAIN table.entries : Written(wal, Len(wal), k)
        BY <1>1, <2>3, KeysWritten
    <2>9. Named'
        <3> SUFFICES ASSUME manifest \notin {None, Torn}, NEW i \in DOMAIN manifest.tables,
                            manifest.tables[i] \in DOMAIN files', files'[manifest.tables[i]] # Torn,
                            NEW k \in DOMAIN files'[manifest.tables[i]]
                     PROVE  Written(wal, Len(wal), k)
            BY <1>1 DEF Named
        <3>1. CASE manifest.tables[i] = table.seq
            BY <2>4, <2>5, <2>8, <3>1
        <3>2. CASE manifest.tables[i] # table.seq
            <4>1. manifest.tables[i] \in DOMAIN files /\ files'[manifest.tables[i]] = files[manifest.tables[i]]
                BY <2>5, <3>2
            <4> QED  BY <4>1 DEF ReadInv, Named
        <3> QED  BY <3>1, <3>2
    <2>10. \A i \in DOMAIN sst : sst[i].seq # table.seq
        BY <1>5, SstNumbers DEF Fresh
    <2>11. Filed'
        <3>1. ASSUME NEW i \in DOMAIN sst, Stored(sst[i])' PROVE files'[sst[i].seq] = sst[i].entries
            <4>1. sst[i].seq \in DOMAIN files /\ files'[sst[i].seq] = files[sst[i].seq]
                BY <1>1, <2>5, <2>10, <3>1 DEF Stored
            <4>2. Stored(sst[i])
                BY <1>1, <3>1, <4>1 DEF Stored
            <4> QED  BY <1>1, <4>1, <4>2 DEF ReadInv, Filed
        <3>2. ~Left("writeSSTable")' => files'[table'.seq] = table'.entries
            BY <2>2, <2>4, <2>5
        <3> QED  BY <1>1, <3>1, <3>2 DEF Filed
    <2> QED  BY <1>1, <2>2, <2>3, <2>7, <2>9, <2>11, FilesRead DEF Marks
<1>6. CASE Head(todo) = "createSSTable" /\ files' = With(files, table.seq, Torn)
    <2>1. Steady /\ Fresh /\ (Path(a) \/ Path(b))
        BY <1>1, <1>6, StageOfHead DEF a, b
    <2> QED  BY <1>2, <1>4, <1>5, <1>6, <2>1
<1>7. CASE Head(todo) = "writeSSTable" /\ files' = With(files, table.seq, table.entries)
    <2>1. Steady /\ Fresh /\ (Path(c) \/ Path(d))
        BY <1>1, <1>7, StageOfHead DEF c, d
    <2> QED  BY <1>5, <1>7, <2>1
<1> QED  BY <1>6, <1>7 DEF PersistSSTableLocked, Step

\* DeleteSSTableFilesLocked: one file less, or every table of the memory has lost its file.
LEMMA RemoveRead ==
    ASSUME LsmInv, ReadInv, DeleteSSTableFilesLocked
    PROVE  ReadInv'
<1> DEFINE left == {i \in DOMAIN sst : sst[i].seq \in DOMAIN files}
<1>1. /\ todo \in Seq(Steps) /\ todo # <<>> /\ up = "open" /\ Stage /\ Head(todo) = "removeFiles"
      /\ UNCHANGED <<mem, imm, sst, wal, old, replayed, manifest, snapshot, up>>
    BY DEF DeleteSSTableFilesLocked, Step, Locked, LsmInv, memory, client
<1>2. /\ DOMAIN files' \subseteq DOMAIN files
      /\ \A q \in DOMAIN files' : files'[q] = files[q]
      /\ \/ left = {} /\ Done /\ files' = files
         \/ UNCHANGED <<todo, table>>
    BY DEF DeleteSSTableFilesLocked, On
<1>3. \A q \in DOMAIN files' : files'[q] = Torn \/ files'[q] \in Content
    BY <1>2 DEF ReadInv, Typed
<1>4. Named'
    BY <1>1, <1>2 DEF ReadInv, Named
<1>5. \A t : Stored(t)' => Stored(t) /\ files'[t.seq] = files[t.seq]
    BY <1>2 DEF Stored
<1>6. CASE UNCHANGED <<todo, table>>
    <2>1. (\A x : Left(x)' <=> Left(x)) /\ Left("removeFiles")'
        BY <1>1, <1>6, HasTail DEF Left
    <2>2. Listed'
        BY <1>1, <1>6 DEF ReadInv, Listed, Left
    <2>3. Filed'
        BY <1>1, <1>5, <1>6, <2>1 DEF ReadInv, Filed
    <2> QED  BY <1>1, <1>3, <1>4, <1>6, <2>1, <2>2, <2>3, FilesRead
<1>7. CASE left = {} /\ Done /\ files' = files
    <2> DEFINE n == <<"removeFiles", "publishNone", "writeManifest">>
               b == <<"removeFiles", "install", "rewriteWAL", "publishNone", "writeManifest">>
    <2>1. \E s \in {Merges, n, b} : Path(s)
        BY <1>1, StageOfHead
    <2>2. /\ n \in Seq(Steps) /\ Len(n) >= 2 /\ n[1] = "removeFiles"
          /\ b \in Seq(Steps) /\ Len(b) >= 2 /\ b[1] = "removeFiles"
          /\ Merges \in Seq(Steps) /\ Len(Merges) >= 2 /\ Merges[1] = "removeFiles"
        BY DEF Steps, Merges
    <2>3. \A s \in {Merges, n, b} : ~Has(s, "writeSSTable")
        BY HasListed DEF Merges
    <2> HIDE DEF n, b
    <2>4. PICK s \in {Merges, n, b} : Path(s)
        BY <2>1
    <2>5. s \in Seq(Steps) /\ Len(s) >= 2 /\ s[1] \in {"removeFiles"}
        BY <2>2
    <2>6. /\ table' = table /\ Listed' /\ (Left("replay")' <=> Left("replay"))
          /\ \A x \in Marks : Left(x)' <=> Left(x)
          /\ \A x : x \notin Calm => (Left(x) <=> Has(s, x)) /\ (Left(x)' <=> Has(Tail(s), x))
        BY <1>1, <1>7, <2>4, <2>5, MarksKept
    <2>7. ~Left("writeSSTable")
        BY <2>3, <2>4, <2>6 DEF Calm
    <2>8. Filed'
        BY <1>1, <1>5, <2>6, <2>7 DEF ReadInv, Filed, Marks
    <2>9. \A i \in DOMAIN sst : sst[i].seq \notin DOMAIN files'
        BY <1>7
    <2> QED  BY <1>1, <1>3, <1>4, <2>6, <2>8, <2>9, FilesRead DEF Marks
<1> QED  BY <1>2, <1>6, <1>7
\* No tables, no content.
LEMMA NoneLeft == Live(Newest(<<>>)) = Empty
<1>1. <<>> \in Seq(Content)
    OBVIOUS
<1>2. /\ IsTable(Live(Newest(<<>>)))
      /\ \A k : k \in DOMAIN Live(Newest(<<>>)) <=> \E v : v # Tombstone /\ Found(<<>>, k, v)
    BY <1>1, LiveIs
<1>3. DOMAIN Live(Newest(<<>>)) = {}
    BY <1>2, FoundInOne
<1> QED  BY <1>2, <1>3 DEF IsTable, Empty

\* PublishTables: the tables of the memory show what they showed with the table to publish.
LEMMA PublishRead ==
    ASSUME LsmInv, ReadInv, PublishTables
    PROVE  ReadInv'
<1> DEFINE n == <<"publishNone", "writeManifest">>
           e == SSTableEntries
<1>1. /\ todo \in Seq(Steps) /\ todo # <<>> /\ up = "open" /\ Stage /\ Done /\ manifest' = Torn
      /\ UNCHANGED <<mem, imm, wal, old, replayed, files, snapshot, up>>
    BY DEF PublishTables, Step, Locked, LsmInv, client
<1>2. /\ Adds \in Seq(Steps) /\ Adds # <<>> /\ Adds[1] \notin Calm
      /\ Replaces \in Seq(Steps) /\ Replaces # <<>> /\ Replaces[1] \notin Calm
      /\ n \in Seq(Steps) /\ n # <<>> /\ n[1] \notin Calm
    BY DEF Steps, Adds, Replaces, Calm
<1>3. \A s \in {Adds, Replaces, n} :
          \A x : Has(Tail(s), x) <=> x = "writeManifest"
    <2>1. Tail(Adds) = <<"writeManifest">> /\ Tail(Replaces) = <<"writeManifest">>
          /\ Tail(n) = <<"writeManifest">>
        BY DEF Adds, Replaces
    <2>2. \A x : Has(<<"writeManifest">>, x) <=> x = "writeManifest"
        BY HasListed
    <2> HIDE DEF n
    <2> QED  BY <2>1, <2>2
<1>4. /\ \A x : Has(Adds, x) <=> x \in {"publishFlushed", "writeManifest"}
      /\ \A x : Has(Replaces, x) <=> x \in {"publishCompacted", "writeManifest"}
      /\ \A x : Has(n, x) <=> x \in {"publishNone", "writeManifest"}
    BY HasListed DEF Adds, Replaces
<1> HIDE DEF n
<1>5. /\ e \in Seq(Content) /\ imm \in Seq(Content) /\ mem \in Content /\ <<mem>> \in Seq(Content)
      /\ sst \in Seq(SSTable) /\ DOMAIN e = DOMAIN sst /\ Len(e) = Len(sst)
      /\ \A i \in DOMAIN sst : e[i] = sst[i].entries
    BY <1>1, EntriesTyped DEF ReadInv, Typed, Holdings
<1>6. ASSUME NEW s \in {Adds, Replaces, n}, Path(s), sst' \in Seq(SSTable),
             \A i \in DOMAIN sst' : Stored(sst'[i]) => files[sst'[i].seq] = sst'[i].entries,
             NEW d \in Seq(Content), d = SSTableEntries',
             Shows(e \o Pending \o imm \o <<mem>>, d \o imm \o <<mem>>)
      PROVE  ReadInv'
    <2>1. s \in Seq(Steps) /\ s # <<>> /\ s[1] \notin Calm
        BY <1>2
    <2>2. /\ \A x : x \notin Calm => (Left(x) <=> Has(s, x)) /\ (Left(x)' <=> Has(Tail(s), x))
          /\ (Left("replay")' <=> Left("replay")) /\ Listed'
        BY <1>1, <1>6, <2>1, DoneLeft
    <2>3. /\ ~Left("publishFlushed")' /\ ~Left("publishCompacted")' /\ ~Left("publishNone")'
          /\ ~Left("install")' /\ ~Left("rewriteWAL")'
        BY <1>3, <2>2 DEF Calm
    <2>4. ~Left("install") /\ ~Left("rewriteWAL")
        BY <1>4, <2>2 DEF Calm
    <2>5. Tabled' /\ Restoring'
        BY <1>1, <2>3, <2>4 DEF ReadInv, Tabled, Restoring
    <2>6. Filed'
        BY <1>1, <1>6, <2>3 DEF Filed, Stored
    <2>7. Agreed'
        <3>1. Agree(Tables, wal, Reach)
            BY <1>1, <2>4 DEF ReadInv, Agreed
        <3>2. Agree(d \o imm \o <<mem>>, wal, Reach)
            BY <1>6, <3>1, AgreeKept DEF Tables
        <3>3. Pending' = <<>> /\ Reach' = Reach
            BY <1>1, <2>2, <2>3 DEF Pending, Reach
        <3>4. d \o <<>> = d
            OBVIOUS
        <3>5. Tables' = d \o imm \o <<mem>>
            BY <1>1, <1>6, <3>3, <3>4 DEF Tables
        <3> QED  BY <1>1, <3>2, <3>3, <3>5 DEF Agreed
    <2>8. Typed' /\ Named'
        BY <1>1, <1>6 DEF ReadInv, Typed, Holdings, Named
    <2> QED  BY <1>1, <2>2, <2>5, <2>6, <2>7, <2>8 DEF ReadInv
<1>7. CASE Head(todo) = "publishFlushed" /\ sst' = Append(sst, table)
    <2>1. Path(Adds)
        BY <1>1, <1>7, StageOfHead DEF Adding
    <2>2. Left("publishFlushed") /\ ~Left("writeSSTable")
        BY <1>1, <1>2, <1>4, <2>1, HasOnPath DEF Calm, Left
    <2>3. table \in SSTable /\ table.entries \in Content
        BY <1>1, <2>2, SSTableIs DEF ReadInv, Tabled
    <2>4. /\ sst' \in Seq(SSTable) /\ Len(sst') = Len(sst) + 1 /\ Len(sst) \in Nat
          /\ (\A i \in 1 .. Len(sst) : sst'[i] = sst[i]) /\ sst'[Len(sst) + 1] = table
        BY <1>5, <1>7, <2>3, AppendProperties
    <2>5. \A i \in DOMAIN sst' : Stored(sst'[i]) => files[sst'[i].seq] = sst'[i].entries
        <3>1. Stored(table) => files[table.seq] = table.entries
            BY <1>1, <2>2 DEF ReadInv, Filed
        <3>2. \A i \in 1 .. Len(sst) : Stored(sst[i]) => files[sst[i].seq] = sst[i].entries
            BY <1>1, <1>5 DEF ReadInv, Filed
        <3>3. DOMAIN sst' = 1 .. Len(sst) + 1
            BY <2>4
        <3>4. \A i \in DOMAIN sst' : i \in 1 .. Len(sst) \/ i = Len(sst) + 1
            BY <2>4, <3>3
        <3> QED  BY <2>4, <3>1, <3>2, <3>4
    <2> DEFINE d == e \o <<table.entries>>
    <2>6. /\ d \in Seq(Content) /\ Len(d) = Len(sst) + 1
          /\ \A i \in 1 .. Len(sst) + 1 : d[i] = sst'[i].entries
        <3>1. <<table.entries>> \in Seq(Content) /\ Len(<<table.entries>>) = 1
              /\ <<table.entries>>[1] = table.entries
            BY <2>3
        <3>2. /\ d \in Seq(Content) /\ Len(d) = Len(sst) + 1
              /\ \A i \in 1 .. Len(d) : d[i] = IF i <= Len(e) THEN e[i] ELSE <<table.entries>>[i - Len(e)]
            BY <1>5, <3>1, ConcatProperties
        <3>3. ASSUME NEW i \in 1 .. Len(sst) + 1 PROVE d[i] = sst'[i].entries
            <4>1. CASE i = Len(sst) + 1
                <5>1. ~(i <= Len(e)) /\ i - Len(e) = 1 /\ i \in 1 .. Len(d)
                    BY <1>5, <2>4, <3>2, <4>1
                <5> QED  BY <2>4, <3>1, <3>2, <4>1, <5>1
            <4>2. CASE i # Len(sst) + 1
                <5>1. i <= Len(e) /\ i \in 1 .. Len(sst) /\ i \in 1 .. Len(d) /\ i \in DOMAIN sst
                    BY <1>5, <2>4, <3>2, <4>2
                <5> QED  BY <1>5, <2>4, <3>2, <5>1
            <4> QED  BY <4>1, <4>2
        <3> QED  BY <3>2, <3>3
    <2>7. d = SSTableEntries'
        <3>1. DOMAIN sst' = 1 .. Len(sst) + 1
            BY <2>4
        <3>2. SSTableEntries' = [i \in 1 .. Len(sst) + 1 |-> sst'[i].entries]
            BY <3>1 DEF SSTableEntries
        <3>3. d = [i \in 1 .. Len(sst) + 1 |-> d[i]]
            BY <2>6
        <3> HIDE DEF d
        <3> QED  BY <2>6, <3>2, <3>3
    <2>8. Pending = <<table.entries>>
        BY <2>2 DEF Pending
    <2>9. Shows(e \o Pending \o imm \o <<mem>>, d \o imm \o <<mem>>)
        BY <2>8, ShowsAll
    <2> HIDE DEF d
    <2> QED  BY <1>6, <2>1, <2>4, <2>5, <2>6, <2>7, <2>9
<1>8. ASSUME ~Left("publishFlushed"), NEW d \in Seq(Content), Shows(e, d)
      PROVE  Shows(e \o Pending \o imm \o <<mem>>, d \o imm \o <<mem>>)
    <2>1. Pending = <<>> /\ e \o <<>> = e
        BY <1>5, <1>8 DEF Pending
    <2> HIDE DEF e
    <2>2. Shows(e \o imm, d \o imm) /\ e \o imm \in Seq(Content) /\ d \o imm \in Seq(Content)
        BY <1>5, <1>8, ShowsUnder
    <2>3. Shows((e \o imm) \o <<mem>>, (d \o imm) \o <<mem>>)
        BY <1>5, <2>2, ShowsUnder
    <2> QED  BY <2>1, <2>3
<1>9. CASE Head(todo) = "publishCompacted" /\ sst' = <<table>>
    <2>1. Path(Replaces)
        BY <1>1, <1>9, StageOfHead
    <2>2. Left("publishCompacted") /\ ~Left("writeSSTable") /\ ~Left("publishFlushed")
        BY <1>1, <1>2, <1>4, <2>1, HasOnPath DEF Calm, Left
    <2>3. table \in SSTable /\ table.entries \in Content /\ table.entries = Live(Newest(e))
        BY <1>1, <2>2, SSTableIs DEF ReadInv, Tabled, CompactedEntries
    <2>4. sst' \in Seq(SSTable) /\ DOMAIN sst' = 1 .. 1 /\ \A i \in DOMAIN sst' : sst'[i] = table
        BY <1>9, <2>3
    <2>5. \A i \in DOMAIN sst' : Stored(sst'[i]) => files[sst'[i].seq] = sst'[i].entries
        <3>1. Stored(table) => files[table.seq] = table.entries
            BY <1>1, <2>2 DEF ReadInv, Filed
        <3> QED  BY <2>4, <3>1
    <2>6. <<table.entries>> \in Seq(Content) /\ <<table.entries>> = SSTableEntries'
        BY <1>9, <2>3 DEF SSTableEntries
    <2>7. Shows(e, <<table.entries>>)
        BY <1>5, <2>3, MergedShows
    <2> HIDE DEF e
    <2> QED  BY <1>6, <1>8, <2>1, <2>2, <2>4, <2>5, <2>6, <2>7
<1>10. CASE Head(todo) = "publishNone" /\ sst' = <<>>
    <2>1. Path(n)
        BY <1>1, <1>10, StageOfHead DEF n
    <2>2. Left("publishNone") /\ ~Left("install") /\ ~Left("publishFlushed")
        BY <1>1, <1>2, <1>4, <2>1, HasOnPath DEF Calm, Left
    <2>3. Live(Newest(e)) = Empty
        BY <1>1, <2>2 DEF ReadInv, Tabled, CompactedEntries
    <2>4. sst' \in Seq(SSTable) /\ DOMAIN sst' = {}
        BY <1>10
    <2>5. <<>> \in Seq(Content) /\ <<>> = SSTableEntries'
        BY <1>10, <2>4 DEF SSTableEntries
    <2>6. Shows(e, <<>>)
        BY <1>5, <2>3, MergedShows
    <2> HIDE DEF e
    <2> QED  BY <1>6, <1>8, <2>1, <2>2, <2>4, <2>5, <2>6
<1> QED  BY <1>7, <1>9, <1>10 DEF PublishTables, Step

\* WriteManifest: the tables it names hold nothing that is not in the log.
LEMMA ManifestRead ==
    ASSUME LsmInv, ReadInv, WriteManifest
    PROVE  ReadInv'
<1> DEFINE w == <<"writeManifest">>
<1>1. /\ todo \in Seq(Steps) /\ todo # <<>> /\ Head(todo) = "writeManifest" /\ up = "open" /\ Stage
      /\ Done /\ manifest' = [next |-> nextSeq, tables |-> [i \in DOMAIN sst |-> sst[i].seq]]
      /\ UNCHANGED <<mem, imm, sst, wal, old, replayed, files, snapshot, up>>
    BY DEF WriteManifest, Step, Locked, LsmInv, memory, client
<1>2. Path(w)
    BY <1>1, StageOfHead DEF Naming
<1>3. w \in Seq(Steps) /\ w # <<>> /\ w[1] \notin Calm /\ Tail(w) = <<>>
    BY DEF Steps, Calm
<1>4. (\A x : Has(w, x) <=> x = "writeManifest") /\ \A x : ~Has(<<>>, x)
    BY HasListed
<1> HIDE DEF w
<1>5. /\ \A x : x \notin Calm => (Left(x) <=> Has(w, x)) /\ (Left(x)' <=> Has(Tail(w), x))
      /\ (Left("replay")' <=> Left("replay")) /\ Listed'
    BY <1>1, <1>2, <1>3, DoneLeft
<1>6. /\ ~Left("publishFlushed")' /\ ~Left("publishCompacted")' /\ ~Left("publishNone")'
      /\ ~Left("install")' /\ ~Left("rewriteWAL")'
      /\ ~Left("publishFlushed") /\ ~Left("install") /\ ~Left("rewriteWAL")
    BY <1>3, <1>4, <1>5 DEF Calm
<1>7. \A i \in DOMAIN sst : \A k \in DOMAIN sst[i].entries : Written(wal, Len(wal), k)
    BY <1>1, <1>6, KeysWritten
<1>8. manifest'.tables = [i \in DOMAIN sst |-> sst[i].seq]
    BY <1>1
<1>9. Named'
    BY <1>1, <1>7, <1>8 DEF ReadInv, Filed, Stored, Named
<1>10. Typed' /\ Tabled' /\ Restoring' /\ Filed'
    BY <1>1, <1>6 DEF ReadInv, Typed, Holdings, Tabled, Restoring, Filed, Stored
<1>11. Agreed'
    <2>1. Pending' = Pending /\ SSTableEntries' = SSTableEntries /\ Reach' = Reach
        BY <1>1, <1>5, <1>6 DEF Pending, SSTableEntries, Reach
    <2> QED  BY <1>1, <1>6, <2>1 DEF ReadInv, Agreed, Tables
<1> QED  BY <1>1, <1>5, <1>9, <1>10, <1>11 DEF ReadInv
\* InstallRestored: the log is cleared, and begins to grow into a copy of the restored table.
LEMMA InstallRead ==
    ASSUME LsmInv, ReadInv, InstallRestored
    PROVE  ReadInv'
<1> DEFINE a == <<"install", "rewriteWAL", "publishNone", "writeManifest">>
           b == <<"rewriteWAL", "publishNone", "writeManifest">>
<1>1. /\ todo \in Seq(Steps) /\ todo # <<>> /\ Head(todo) = "install" /\ up = "open" /\ Stage
      /\ Done /\ mem' = table /\ imm' = <<>> /\ sst' = <<>> /\ wal' = <<>>
      /\ UNCHANGED <<old, replayed, manifest, files, snapshot, up>>
    BY DEF InstallRestored, Step, Locked, LsmInv, client
<1>2. Path(a)
    BY <1>1, StageOfHead
<1>3. a \in Seq(Steps) /\ a # <<>> /\ a[1] \notin Calm /\ Tail(a) = b /\ Len(a) >= 2
    BY DEF Steps, Calm
<1>4. /\ \A x : Has(a, x) <=> x \in {"install", "rewriteWAL", "publishNone", "writeManifest"}
      /\ \A x : Has(b, x) <=> x \in {"rewriteWAL", "publishNone", "writeManifest"}
    BY HasListed
<1> HIDE DEF a, b
<1>5. /\ \A x : x \notin Calm => (Left(x) <=> Has(a, x)) /\ (Left(x)' <=> Has(b, x))
      /\ (Left("replay")' <=> Left("replay")) /\ Listed'
      /\ Left("rewriteWAL") => ~Left("replay") /\ replayed = 0
    BY <1>1, <1>2, <1>3, DoneLeft
<1>6. table' = table
    BY <1>1, <1>2, <1>3, DoneNotLast
<1>7. /\ Left("install") /\ ~Left("removeFiles") /\ Left("rewriteWAL") /\ replayed = 0
      /\ ~Left("publishFlushed")' /\ ~Left("publishCompacted")' /\ ~Left("install")'
      /\ Left("rewriteWAL")'
    BY <1>4, <1>5 DEF Calm
<1>8. old \in LiveContent /\ table \in LiveContent /\ table \in Content
    BY <1>1, <1>7, ContentKept DEF ReadInv, Restoring
<1>9. Typed'
    BY <1>1, <1>7, <1>8 DEF ReadInv, Typed, Holdings
<1>10. Named'
    <2> SUFFICES ASSUME manifest \notin {None, Torn}, NEW i \in DOMAIN manifest.tables,
                        manifest.tables[i] \in DOMAIN files
                 PROVE  FALSE
        BY <1>1 DEF Named
    <2>1. Current /\ \A j \in DOMAIN sst : sst[j].seq \notin DOMAIN files
        BY <1>1, <1>7 DEF ReadInv, Restoring
    <2>2. PICK n : manifest = [next |-> n, tables |-> [j \in DOMAIN sst |-> sst[j].seq]]
        BY <2>1 DEF Current
    <2>3. manifest.tables = [j \in DOMAIN sst |-> sst[j].seq]
        BY <2>2
    <2> QED  BY <2>1, <2>3
<1>11. CompactedEntries' = Empty
    <2>1. SSTableEntries' = <<>>
        BY <1>1 DEF SSTableEntries
    <2> QED  BY <2>1, NoneLeft DEF CompactedEntries
<1>12. Copied(table, <<>>)
    <2>1. Len(SortedKeys(table)) \in Nat
        BY <1>8, ContentIs, KeysSorted, LsmAssumption
    <2> QED  BY <2>1 DEF Copied
<1>13. Restoring'
    BY <1>1, <1>6, <1>7, <1>8, <1>12 DEF Restoring
<1>14. Tabled' /\ Filed' /\ Agreed'
    BY <1>1, <1>7, <1>11 DEF Tabled, Filed, Agreed
<1> QED  BY <1>1, <1>5, <1>9, <1>10, <1>13, <1>14 DEF ReadInv

\* RewriteWALLocked: one more record, or the copy is complete.
LEMMA RewriteRead ==
    ASSUME ValuesApart, LsmInv, ReadInv, RewriteWALLocked
    PROVE  ReadInv'
<1> DEFINE b == <<"rewriteWAL", "publishNone", "writeManifest">>
           c == <<"publishNone", "writeManifest">>
<1>1. /\ todo \in Seq(Steps) /\ todo # <<>> /\ Head(todo) = "rewriteWAL" /\ up = "open" /\ Stage
      /\ UNCHANGED <<mem, imm, sst, replayed, manifest, files, snapshot, up>>
    BY DEF RewriteWALLocked, Step, Locked, LsmInv, memory, client
<1>2. Path(b)
    BY <1>1, StageOfHead
<1>3. b \in Seq(Steps) /\ b # <<>> /\ b[1] \notin Calm /\ Tail(b) = c /\ Len(b) >= 2
    BY DEF Steps, Calm
<1>4. /\ \A x : Has(b, x) <=> x \in {"rewriteWAL", "publishNone", "writeManifest"}
      /\ \A x : Has(c, x) <=> x \in {"publishNone", "writeManifest"}
    BY HasListed
<1> HIDE DEF b, c
<1>5. \A x : x \notin Calm => (Left(x) <=> Has(b, x))
    BY <1>1, <1>2, <1>3, HasOnPath DEF Left
<1>6. Left("rewriteWAL") /\ ~Left("install") /\ ~Left("publishFlushed") /\ ~Left("publishCompacted")
      /\ Left("publishNone")
    BY <1>4, <1>5 DEF Calm
<1>7. /\ old \in LiveContent /\ table \in LiveContent
      /\ sst = <<>> /\ imm = <<>> /\ mem = table /\ Copied(table, wal)
      /\ ~Left("replay") /\ CompactedEntries = Empty /\ wal \in Seq(LogRecord) /\ Len(wal) \in Nat
    BY <1>1, <1>6 DEF ReadInv, Listed, Tabled, Restoring, Typed
<1>8. SSTableEntries = <<>> /\ SSTableEntries' = <<>> /\ CompactedEntries' = CompactedEntries
    BY <1>1, <1>7 DEF SSTableEntries, CompactedEntries
<1>9. ExportVisibleDataLocked = table
    BY <1>7, <1>8, LiveAlone DEF ExportVisibleDataLocked
<1>10. Len(SortedKeys(table)) \in Nat
    BY <1>7, ContentIs, KeysSorted, LsmAssumption
<1>11. CASE Len(wal) < Len(SortedKeys(table))
    <2> DEFINE q == SortedKeys(table)
               r == Record(q[Len(wal) + 1], table[q[Len(wal) + 1]])
    <2>1. wal' = Append(wal, r) /\ UNCHANGED <<todo, table, old>>
        BY <1>9, <1>11 DEF RewriteWALLocked
    <2> HIDE DEF q
    <2>2. r = Record(SortedKeys(table)[Len(wal) + 1], table[SortedKeys(table)[Len(wal) + 1]])
        BY DEF q
    <2> HIDE DEF r
    <2>3. wal' \in Seq(LogRecord) /\ Copied(table, wal')
        BY <1>7, <1>11, <2>1, <2>2, CopiedNext
    <2>4. Len(wal') = Len(wal) + 1 /\ \A i \in 1 .. Len(wal) : wal'[i] = wal[i]
        BY <1>7, <2>1
    <2>5. ASSUME NEW k, Written(wal, Len(wal), k) PROVE Written(wal', Len(wal'), k)
        BY <1>7, <2>4, <2>5 DEF Written
    <2>6. Named'
        BY <1>1, <2>5 DEF ReadInv, Named
    <2>7. Typed'
        BY <1>1, <1>7, <2>3, <2>4 DEF ReadInv, Typed, Holdings
    <2>8. \A x : Left(x)' <=> Left(x)
        BY <2>1 DEF Left
    <2>9. Listed'
        BY <1>1, <2>1, <2>8 DEF ReadInv, Listed
    <2>10. Restoring'
        BY <1>1, <1>6, <1>7, <2>1, <2>3, <2>8 DEF Restoring
    <2>11. Tabled' /\ Filed' /\ Agreed'
        BY <1>1, <1>6, <1>7, <1>8, <2>8 DEF Tabled, Filed, Agreed
    <2> QED  BY <1>1, <2>6, <2>7, <2>9, <2>10, <2>11 DEF ReadInv
<1>12. CASE ~(Len(wal) < Len(SortedKeys(table)))
    <2>1. Done /\ old' = None /\ wal' = wal
        BY <1>9, <1>12 DEF RewriteWALLocked
    <2>2. /\ \A x : x \notin Calm => (Left(x)' <=> Has(c, x))
          /\ (Left("replay")' <=> Left("replay")) /\ Listed'
        BY <1>1, <1>2, <1>3, <2>1, DoneLeft
    <2>3. /\ ~Left("publishFlushed")' /\ ~Left("publishCompacted")' /\ ~Left("install")'
          /\ ~Left("rewriteWAL")'
        BY <1>4, <2>2 DEF Calm
    <2>4. Typed' /\ Named'
        BY <1>1, <2>1 DEF ReadInv, Typed, Holdings, Named
    <2>5. Tabled' /\ Restoring' /\ Filed'
        BY <1>1, <1>7, <1>8, <2>1, <2>3 DEF Tabled, Restoring, Filed
    <2>6. Agreed'
        <3>1. Len(wal) = Len(SortedKeys(table))
            BY <1>7, <1>10, <1>12 DEF Copied
        <3>2. Agree(<<table>>, wal, Len(wal))
            BY <1>7, <3>1, CopiedAgrees
        <3>3. Tables' = <<>> \o <<>> \o <<>> \o <<table>> /\ Reach' = Len(wal)
            BY <1>1, <1>7, <1>8, <2>1, <2>2, <2>3 DEF Tables, Pending, Reach
        <3>4. <<>> \o <<>> \o <<>> \o <<table>> = <<table>>
            OBVIOUS
        <3> QED  BY <2>1, <3>2, <3>3, <3>4 DEF Agreed
    <2> QED  BY <1>1, <2>2, <2>4, <2>5, <2>6 DEF ReadInv
<1> QED  BY <1>11, <1>12
-----------------------------------------------------------------------------
(***************************************************************************)
(* The end of the process, recovery, and the theorem about reading.        *)
(***************************************************************************)
LEMMA LostRead ==
    ASSUME ReadInv, Lost, UNCHANGED <<wal, manifest, files, snapshot>>
    PROVE  ReadInv'
<1>1. /\ up' = "down" /\ todo' = <<>> /\ old' = None /\ replayed' = 0
      /\ mem' = Empty /\ imm' = <<>> /\ sst' = <<>>
    BY DEF Lost
<1>2. Typed' /\ Named'
    BY <1>1, ContentKept DEF ReadInv, Typed, Holdings, Named
<1> QED  BY <1>1, <1>2 DEF ReadInv

\* RecoverFromManifestLocked: nothing of the log is read again yet, and the tables that are
\* loaded hold nothing that is not in it.
LEMMA RecoverRead ==
    ASSUME LsmInv, ReadInv, RecoverFromManifestLocked
    PROVE  ReadInv'
<1>1. /\ up = "down" /\ todo = <<>> /\ old = None /\ mem = Empty /\ imm = <<>> /\ replayed = 0
      /\ UNCHANGED <<mem, imm, table, old, replayed, wal, manifest, files, snapshot>>
    BY DEF RecoverFromManifestLocked, ReadInv, disk, client
<1>2. Typed /\ Named /\ Named'
    BY <1>1 DEF ReadInv, Named
<1>3. CASE ~Readable
    <2>1. up' = "broken" /\ UNCHANGED <<todo, sst>>
        BY <1>3 DEF RecoverFromManifestLocked
    <2>2. Typed'
        BY <1>1, <1>2, <2>1 DEF Typed, Holdings
    <2> QED  BY <1>1, <1>2, <2>1, <2>2 DEF ReadInv
<1>4. CASE Readable
    <2>1. /\ up' = "open" /\ todo' = <<"replay">>
          /\ sst' = IF manifest = None THEN <<>>
                    ELSE [i \in DOMAIN manifest.tables |-> LoadSSTable(manifest.tables[i])]
        BY <1>4 DEF RecoverFromManifestLocked
    <2>2. /\ sst' \in Seq(SSTable)
          /\ \A i \in DOMAIN sst' : /\ files[sst'[i].seq] = sst'[i].entries
                                    /\ \A k \in DOMAIN sst'[i].entries : Written(wal, Len(wal), k)
        <3>1. CASE manifest = None
            BY <2>1, <3>1
        <3>2. CASE manifest # None
            <4>1. PICK n \in Nat, s \in Seq(Nat) : manifest = [next |-> n, tables |-> s]
                BY <1>4, <3>2 DEF LsmInv, ManifestSound, Readable
            <4>2. manifest.tables = s
                BY <4>1
            <4>3. sst' = [i \in DOMAIN s |-> LoadSSTable(s[i])]
                BY <2>1, <3>2, <4>2
            <4>4. /\ manifest # Torn
                  /\ \A i \in DOMAIN s : s[i] \in DOMAIN files /\ files[s[i]] # Torn
                BY <1>4, <3>2, <4>2 DEF Readable
            <4>5. \A i \in DOMAIN s : s[i] \in Nat /\ files[s[i]] \in Content
                BY <1>2, <4>1, <4>4 DEF Typed
            <4>6. \A i \in DOMAIN s : LoadSSTable(s[i]) \in SSTable
                BY <4>5 DEF LoadSSTable, SSTable
            <4>7. DOMAIN s = 1 .. Len(s) /\ Len(s) \in Nat
                BY <4>1
            <4>8. sst' \in Seq(SSTable)
                BY <4>3, <4>6, <4>7
            <4>9. \A q : LoadSSTable(q).seq = q /\ LoadSSTable(q).entries = files[q]
                BY DEF LoadSSTable, RebuildSSTableMetadata
            <4>10. \A i \in DOMAIN s : \A k \in DOMAIN files[s[i]] : Written(wal, Len(wal), k)
                BY <1>2, <3>2, <4>2, <4>4 DEF Named
            <4> QED  BY <4>3, <4>8, <4>9, <4>10
        <3> QED  BY <3>1, <3>2
    <2>3. Typed'
        BY <1>1, <1>2, <2>2 DEF Typed, Holdings
    <2>4. \A x : Left(x)' <=> x = "replay"
        BY <2>1, HasListed DEF Left
    <2>5. WellListed(todo')
        BY <2>1, <2>4 DEF WellListed, Left
    <2>6. Listed' /\ Tabled' /\ Restoring' /\ Filed'
        BY <1>1, <2>2, <2>4, <2>5 DEF Listed, Tabled, Restoring, Filed
    <2>7. Agree(Tables, wal, Reach)'
        <3> DEFINE e == [i \in DOMAIN sst' |-> sst'[i].entries]
        <3>1. SSTableEntries' = e /\ Pending' = <<>> /\ Reach' = 0
            BY <1>1, <2>4 DEF SSTableEntries, Pending, Reach
        <3>2. e \in Seq(Content)
            <4>1. \A i \in DOMAIN sst' : sst'[i].entries \in Content
                BY <2>2, SSTableIs
            <4>2. DOMAIN sst' = 1 .. Len(sst') /\ Len(sst') \in Nat
                BY <2>2
            <4> QED  BY <4>1, <4>2
        <3>3. e \o <<>> = e
            BY <3>2
        <3>4. ASSUME NEW k, ~Absent(e, k) PROVE Written(wal, Len(wal), k)
            BY <2>2, <3>4 DEF Absent
        <3> HIDE DEF e
        <3>5. Tables' = e \o <<Empty>>
            BY <1>1, <3>1, <3>3 DEF Tables
        <3>6. <<Empty>> \in Seq(Content)
            BY ContentKept
        <3>7. ASSUME NEW k, ~Absent(e \o <<Empty>>, k) PROVE Written(wal, Len(wal), k)
            <4>1. Absent(<<Empty>>, k)
                BY FoundInOne DEF Empty
            <4>2. ~Absent(e, k)
                BY <3>2, <3>6, <3>7, <4>1, FoundInBoth
            <4> QED  BY <3>4, <4>2
        <3>8. \A k : ~Written(wal, 0, k)
            BY DEF Written
        <3>9. Agree(e \o <<Empty>>, wal, 0)
            BY <3>7, <3>8 DEF Agree
        <3> QED  BY <1>1, <3>1, <3>5, <3>9
    <2>8. Agreed'
        BY <2>7 DEF Agreed
    <2> QED  BY <1>2, <2>1, <2>3, <2>6, <2>8 DEF ReadInv
<1> QED  BY <1>3, <1>4
\* Restore brings back what was saved: the snapshot has a pair for each key.
LEMMA Decoded ==
    ASSUME NEW f \in LiveContent
    PROVE  DecodeSnapshot(EncodeSnapshot(f)) = f
<1> DEFINE q == SortedKeys(f)
           n == Len(q)
           p == [i \in 1 .. 2 * n |-> IF i % 2 = 1 THEN q[(i + 1) \div 2] ELSE f[q[i \div 2]]]
           s == <<n>> \o p
<1>1. /\ IsTable(f) /\ DOMAIN f \subseteq Nat /\ IsFiniteSet(DOMAIN f)
    BY ContentIs, LsmAssumption
<1>2. /\ q \in Seq(DOMAIN f) /\ n \in Nat
      /\ \A i, j \in 1 .. n : i < j => q[i] < q[j]
      /\ \A k \in DOMAIN f : \E i \in 1 .. n : q[i] = k
    BY <1>1, KeysSorted
<1>3. EncodeSnapshot(f) = s
    BY DEF EncodeSnapshot
<1> HIDE DEF q
<1>4. ASSUME NEW i \in 1 .. n PROVE q[i] \in DOMAIN f /\ q[i] \in Nat
    <2>1. q[i] \in DOMAIN f
        BY <1>2
    <2> QED  BY <1>1, <2>1
<1> HIDE DEF n
<1>5. ASSUME NEW i \in 1 .. n PROVE p[2 * i - 1] = q[i] /\ p[2 * i] = f[q[i]]
    <2>1. /\ 2 * i - 1 \in 1 .. 2 * n /\ 2 * i \in 1 .. 2 * n /\ (2 * i - 1) % 2 = 1 /\ (2 * i) % 2 = 0
          /\ ((2 * i - 1) + 1) \div 2 = i /\ (2 * i) \div 2 = i
        BY <1>2
    <2>2. p[2 * i - 1] = q[((2 * i - 1) + 1) \div 2]
        BY <2>1
    <2>3. p[2 * i] = f[q[(2 * i) \div 2]]
        BY <2>1
    <2> QED  BY <2>1, <2>2, <2>3
<1> DEFINE A == {p[i] : i \in 1 .. 2 * n} \cup {n}
<1>6. <<n>> \in Seq(A) /\ Len(<<n>>) = 1 /\ <<n>>[1] = n
    OBVIOUS
<1>7. p \in Seq(A) /\ Len(p) = 2 * n
    <2>1. 2 * n \in Nat /\ DOMAIN p = 1 .. 2 * n
        BY <1>2
    <2>2. \A i \in 1 .. 2 * n : p[i] \in A
        OBVIOUS
    <2>3. p = [i \in 1 .. 2 * n |-> p[i]]
        OBVIOUS
    <2> HIDE DEF p, A
    <2>4. p \in [1 .. 2 * n -> A]
        BY <2>2, <2>3
    <2>5. p \in Seq(A)
        BY <2>1, <2>4
    <2> QED  BY <2>1, <2>5
<1> HIDE DEF p, A
<1>8. /\ Len(s) = 1 + 2 * n
      /\ \A i \in 1 .. Len(s) : s[i] = IF i <= 1 THEN <<n>>[i] ELSE p[i - 1]
    BY <1>6, <1>7, ConcatProperties
<1> HIDE DEF s
<1>9. s[1] = n /\ s # <<>>
    <2>1. 1 \in 1 .. Len(s) /\ Len(s) # 0
        BY <1>2, <1>8
    <2> QED  BY <1>6, <1>8, <2>1, EmptySeq
<1>10. ASSUME NEW i \in 1 .. n PROVE s[2 * i] = q[i] /\ s[2 * i + 1] = f[q[i]]
    <2>1. /\ 2 * i \in 1 .. Len(s) /\ 2 * i + 1 \in 1 .. Len(s) /\ ~(2 * i <= 1) /\ ~(2 * i + 1 <= 1)
          /\ (2 * i + 1) - 1 = 2 * i
        BY <1>2, <1>8
    <2> QED  BY <1>5, <1>8, <2>1
<1> DEFINE K == {s[2 * i] : i \in 1 .. s[1]}
           at(k) == {i \in 1 .. s[1] : s[2 * i] = k}
<1>11. DecodeSnapshot(s) = [k \in K |-> s[2 * Max(at(k)) + 1]]
    BY <1>9 DEF DecodeSnapshot
<1>12. ASSUME NEW i \in 1 .. n PROVE Max(at(q[i])) = i
    <2>1. at(q[i]) = {i}
        <3>1. i \in at(q[i])
            BY <1>9, <1>10
        <3>2. ASSUME NEW j \in at(q[i]) PROVE j = i
            <4>1. j \in 1 .. n /\ q[j] = q[i]
                BY <1>9, <1>10, <3>2
            <4>2. i < j \/ j < i \/ i = j
                BY <1>2, <4>1
            <4> QED  BY <1>2, <1>4, <4>1, <4>2
        <3> QED  BY <3>1, <3>2
    <2>2. {i} \in SUBSET Nat /\ i \in {i} /\ \A y \in {i} : y <= i
        BY <1>2
    <2> QED  BY <2>1, <2>2, MaxIs
<1>13. K = DOMAIN f
    <2>1. ASSUME NEW i \in 1 .. s[1] PROVE s[2 * i] \in DOMAIN f
        BY <1>4, <1>9, <1>10, <2>1
    <2>2. ASSUME NEW k \in DOMAIN f PROVE k \in K
        <3>1. PICK i \in 1 .. n : q[i] = k
            BY <1>2
        <3>2. i \in 1 .. s[1] /\ s[2 * i] = k
            BY <1>9, <1>10, <3>1
        <3> QED  BY <3>2
    <2> QED  BY <2>1, <2>2
<1>14. ASSUME NEW k \in DOMAIN f PROVE s[2 * Max(at(k)) + 1] = f[k]
    <2>1. PICK i \in 1 .. n : q[i] = k
        BY <1>2
    <2> HIDE DEF at
    <2> QED  BY <1>10, <1>12, <2>1
<1>15. [k \in K |-> s[2 * Max(at(k)) + 1]] = [k \in DOMAIN f |-> f[k]]
    <2> HIDE DEF at, K
    <2> QED  BY <1>13, <1>14
<1> QED  BY <1>1, <1>3, <1>11, <1>15 DEF IsTable

\* Snapshot saves what the log says.
LEMMA SnapshotRead ==
    ASSUME LsmInv, ReadInv, Snapshot
    PROVE  ReadInv' /\ DecodeSnapshot(snapshot') = Logged(wal)
<1>1. /\ up = "open" /\ todo = <<>> /\ snapshot' = EncodeSnapshot(ExportVisibleDataLocked)
      /\ UNCHANGED <<mem, imm, sst, todo, table, old, replayed, wal, manifest, files, up>>
    BY DEF Snapshot, Idle, Locked, memory, call, disk
<1>2. /\ SSTableEntries \in Seq(Content) /\ imm \in Seq(Content) /\ mem \in Content
      /\ Agree(SSTableEntries \o imm \o <<mem>>, wal, Reach)
    BY <1>1, CalmAgrees
<1>3. Reach = Len(wal)
    BY <1>1, HasListed DEF Reach, Left
<1>4. ExportVisibleDataLocked = Logged(wal)
    BY <1>1, <1>2, <1>3, ReadsAgree DEF ReadInv, Typed
<1>5. SSTableEntries \o imm \o <<mem>> \in Seq(Content)
    BY <1>2
<1>6. ExportVisibleDataLocked \in LiveContent
    BY <1>5, LiveTyped DEF ExportVisibleDataLocked
<1>7. DecodeSnapshot(snapshot') = ExportVisibleDataLocked
    BY <1>1, <1>6, Decoded
<1>8. Typed' /\ Named'
    BY <1>1, <1>6, <1>7 DEF ReadInv, Typed, Holdings, Named
<1>9. Listed' /\ Tabled' /\ Filed'
    BY <1>1 DEF ReadInv, Listed, Tabled, Filed, Left, Stored, CompactedEntries, SSTableEntries
<1>10. Restoring' /\ Agreed'
    BY <1>1 DEF ReadInv, Restoring, Agreed, Left, Current, Tables, Pending, Reach, SSTableEntries
<1> QED  BY <1>1, <1>4, <1>7, <1>8, <1>9, <1>10 DEF ReadInv

\* The writes are counted.
Counted == writes \in Nat

\* Every step counts them on.
LEMMA WritesCounted == Counted /\ [Next]_vars => Counted'
<1> SUFFICES ASSUME Counted, [Next]_vars PROVE Counted'
    OBVIOUS
<1>1. writes' = writes \/ writes' = writes + 1
    BY DEF vars, count, Next, GetReturns, Get, Put, Delete, Snapshot, Restore, Flush, Compact,
           EnableAsyncFlush, StartBackgroundWorker, StopBackgroundWorker, JoinWorker, CallStep,
           AppendWALLocked, FlushIfNeeded, FlushImmutableMemTablesLocked, CompactSSTablesLocked,
           PersistSSTableLocked, DeleteSSTableFilesLocked, PublishTables, WriteManifest,
           InstallRestored, RewriteWALLocked, WorkerUnlocks, RecoverFromWALLocked,
           BackgroundWorkerLoop, WorkerWakes, WorkerLocks, Close, Crash, RecoverFromManifestLocked
<1> QED  BY <1>1 DEF Counted

\* Every step of the engine keeps the tables, the files and the log in agreement.
LEMMA ReadNext ==
    ASSUME ValuesApart, LsmInv, ReadInv, Counted, [Next]_vars
    PROVE  ReadInv'
<1>1. CASE UNCHANGED vars
    BY <1>1, SameRead DEF vars, memory, call, disk, client
<1>2. CASE \E r \in Reader : GetReturns(r) \/ \E k \in Key : Get(r, k)
    BY <1>2, SameRead DEF GetReturns, Get, memory, call, disk
<1>3. ASSUME NEW c \in Calm \ {"replay"}, Idle, todo' = <<c>>,
             c = "append" => table' \in LogRecord,
             UNCHANGED <<memory, old, replayed, disk, up, snapshot>>
      PROVE  ReadInv'
    <2>1. <<c>> \in Seq(Steps) /\ \A i \in 1 .. Len(<<c>>) : <<c>>[i] \in Calm
        BY OneCalm
    <2>2. \A x : Has(<<c>>, x) <=> x = c
        BY HasListed
    <2>3. WellListed(<<c>>)
        BY DEF WellListed
    <2> QED  BY <1>3, <2>1, <2>2, <2>3, BeginsRead
<1>4. CASE \E k \in Key : Put(k) \/ Delete(k)
    <2>1. PICK k \in Key : Put(k) \/ Delete(k)
        BY <1>4
    <2>2. /\ Idle /\ todo' = <<"append">> /\ "append" \in Calm \ {"replay"}
          /\ UNCHANGED <<memory, old, replayed, disk, up, snapshot>>
        BY <2>1 DEF Put, Delete, Calm, client
    <2>3. table' \in LogRecord
        <3>1. writes + 1 \in Value /\ (table' = Record(k, writes + 1) \/ table' = Record(k, Tombstone))
            BY <2>1, LsmAssumption DEF Put, Delete, Value, Counted
        <3> QED  BY <3>1 DEF LogRecord, Entry, Record
    <2> QED  BY <1>3, <2>2, <2>3
<1>5. CASE Flush
    BY <1>3, <1>5 DEF Flush, Calm, client
<1>6. CASE Compact
    BY <1>3, <1>6 DEF Compact, Calm, client
<1>7. CASE \E enabled \in BOOLEAN : EnableAsyncFlush(enabled)
    BY <1>7, SameRead DEF EnableAsyncFlush, memory, call, disk, client
<1>8. CASE StartBackgroundWorker \/ StopBackgroundWorker \/ JoinWorker \/ WorkerWakes
    BY <1>8, SameRead DEF StartBackgroundWorker, StopBackgroundWorker, JoinWorker, WorkerWakes,
                          memory, call, disk, client
<1>9. CASE WorkerLocks
    <2> DEFINE s == <<"flush", "compact", "endOfRound">>
    <2>1. s \in Seq(Steps) /\ \A i \in 1 .. Len(s) : s[i] \in Calm
        BY DEF Steps, Calm
    <2>2. Idle /\ todo' = s /\ UNCHANGED <<memory, old, replayed, disk, up, snapshot>>
        BY <1>9 DEF WorkerLocks, memory, disk, client
    <2>3. ~Has(s, "replay") /\ ~Has(s, "append")
        BY HasListed
    <2>4. WellListed(s)
        BY <2>3 DEF WellListed, Has
    <2> HIDE DEF s
    <2> QED  BY <2>1, <2>2, <2>3, <2>4, BeginsRead
<1>10. CASE CallStep
    BY <1>10, AppendRead, FlushIfNeededRead, FlushRead, CompactRead, PersistRead, RemoveRead,
       PublishRead, ManifestRead, InstallRead, RewriteRead, UnlocksRead, ReplayRead DEF CallStep
<1>11. CASE Close \/ Crash
    BY <1>11, LostRead DEF Close, Crash, disk
<1> QED  BY <1>1, <1>2, <1>4, <1>5, <1>6, <1>7, <1>8, <1>9, <1>10, <1>11, RestoreRead, RecoverRead,
            SnapshotRead DEF Next, BackgroundWorkerLoop

\* Whenever the lock is free, Get (through memtables, Bloom filters and block indexes), RangeScan
\* and Size say what the log says, whatever was flushed, compacted, restored and recovered.
THEOREM ReadsFollowLog ==
    ASSUME MarksApart, ValuesApart
    PROVE  Spec => []ReadsMatchLog
<1>1. Init => ReadInv /\ Counted
    BY ReadInit DEF Init, Counted
<1>2. LsmInv /\ ReadInv /\ Counted /\ [Next]_vars => ReadInv' /\ Counted'
    BY ReadNext, WritesCounted
<1>3. LsmInv /\ ReadInv => ReadsMatchLog
    <2> SUFFICES ASSUME LsmInv, ReadInv, Idle PROVE ReadsMatchLog
        BY DEF ReadsMatchLog
    <2>1. up = "open" /\ todo = <<>>
        BY DEF Idle, Locked
    <2>2. Agree(SSTableEntries \o imm \o <<mem>>, wal, Reach)
        BY <2>1, CalmAgrees
    <2>3. Reach = Len(wal)
        BY <2>1, HasListed DEF Reach, Left
    <2> QED  BY <2>2, <2>3, ReadsThenMatch DEF ReadInv, Typed
<1>4. Spec => []LsmInv
    BY StagesHold
<1> QED  BY <1>1, <1>2, <1>3, <1>4, PTL DEF Spec
-----------------------------------------------------------------------------
(***************************************************************************)
(* The engine implements the map of kv_engine.h.  The map is what the log  *)
(* says; from the beginning of a Restore to the end of its copy into the   *)
(* log it is still the replaced content.                                   *)
(***************************************************************************)
\* What a log says has values.
LEMMA LoggedTyped ==
    ASSUME NEW log \in Seq(LogRecord)
    PROVE  Logged(log) \in [DOMAIN Logged(log) -> Value]
<1>1. /\ IsTable(Logged(log))
      /\ \A k : k \in DOMAIN Logged(log) <=> \E v : v # Tombstone /\ LastWrite(log, Len(log), k, v)
      /\ \A k, v : k \in DOMAIN Logged(log) /\ LastWrite(log, Len(log), k, v) => Logged(log)[k] = v
    BY LoggedIs
<1>2. ASSUME NEW k \in DOMAIN Logged(log) PROVE Logged(log)[k] \in Value
    <2>1. PICK v : v # Tombstone /\ LastWrite(log, Len(log), k, v)
        BY <1>1
    <2>2. PICK i \in 1 .. Len(log) : log[i].value = v
        BY <2>1 DEF LastWrite
    <2>3. log[i] \in LogRecord
        OBVIOUS
    <2>4. v \in Entry
        BY <2>2, <2>3 DEF LogRecord
    <2> QED  BY <1>1, <2>1, <2>4 DEF Entry
<1> QED  BY <1>1, <1>2 DEF IsTable

\* A record more in the log is a write or a deletion in the map.
LEMMA LoggedNext ==
    ASSUME NEW log \in Seq(LogRecord), NEW r \in LogRecord
    PROVE  /\ r.value # Tombstone => Logged(Append(log, r)) = With(Logged(log), r.key, r.value)
           /\ r.value = Tombstone =>
                  Logged(Append(log, r)) = On(Logged(log), DOMAIN Logged(log) \ {r.key})
<1> DEFINE n == Len(log)
           log2 == Append(log, r)
           a == Logged(log)
           b == Logged(log2)
<1>1. /\ log2 \in Seq(LogRecord) /\ Len(log2) = n + 1 /\ n \in Nat
      /\ (\A i \in 1 .. n : log2[i] = log[i]) /\ log2[n + 1] = r
    BY AppendProperties
<1>2. /\ IsTable(a)
      /\ \A k : k \in DOMAIN a <=> \E v : v # Tombstone /\ LastWrite(log, n, k, v)
      /\ \A k, v : k \in DOMAIN a /\ LastWrite(log, n, k, v) => a[k] = v
    BY LoggedIs
<1> HIDE DEF a, log2
<1>3. /\ IsTable(b)
      /\ \A k : k \in DOMAIN b <=> \E v : v # Tombstone /\ LastWrite(log2, n + 1, k, v)
      /\ \A k, v : k \in DOMAIN b /\ LastWrite(log2, n + 1, k, v) => b[k] = v
    BY <1>1, LoggedIs
<1> HIDE DEF b, n
<1>4. \A v : LastWrite(log2, n + 1, r.key, v) <=> r.value = v
    BY <1>1, LastWriteNext
<1>5. ASSUME NEW k, k # r.key, NEW v
      PROVE  LastWrite(log2, n + 1, k, v) <=> LastWrite(log, n, k, v)
    <2>1. LastWrite(log2, n + 1, k, v) <=> LastWrite(log2, n, k, v)
        BY <1>1, <1>5, LastWriteNext
    <2>2. LastWrite(log2, n, k, v) <=> LastWrite(log, n, k, v)
        BY <1>1, LastWriteKept
    <2> QED  BY <2>1, <2>2
<1>6. \A k : k # r.key => (k \in DOMAIN b <=> k \in DOMAIN a)
    BY <1>2, <1>3, <1>5
<1>7. ASSUME NEW k, k # r.key, k \in DOMAIN a PROVE b[k] = a[k]
    <2>1. PICK v : v # Tombstone /\ LastWrite(log, n, k, v)
        BY <1>2, <1>7
    <2> QED  BY <1>2, <1>3, <1>5, <1>6, <1>7, <2>1
<1>8. r.key \in DOMAIN b <=> r.value # Tombstone
    BY <1>3, <1>4
<1>9. r.value # Tombstone => b[r.key] = r.value
    BY <1>3, <1>4, <1>8
<1>10. CASE r.value # Tombstone
    <2>1. DOMAIN b = DOMAIN a \cup {r.key}
        BY <1>6, <1>8, <1>10
    <2>2. \A k \in DOMAIN b : b[k] = IF k = r.key THEN r.value ELSE a[k]
        BY <1>7, <1>9, <1>10, <2>1
    <2>3. b = With(a, r.key, r.value)
        BY <1>3, <2>1, <2>2 DEF With, IsTable
    <2> QED  BY <1>10, <2>3 DEF a, b, log2
<1>11. CASE r.value = Tombstone
    <2>1. DOMAIN b = (DOMAIN a \ {r.key}) \cap DOMAIN a
        BY <1>6, <1>8, <1>11
    <2>2. \A k \in DOMAIN b : b[k] = a[k]
        BY <1>7, <2>1
    <2>3. b = On(a, DOMAIN a \ {r.key})
        BY <1>3, <2>1, <2>2 DEF On, IsTable
    <2> QED  BY <1>11, <2>3 DEF a, b, log2
<1> QED  BY <1>10, <1>11

\* A copy that is cut short says a part of the table, a complete one says the table.
LEMMA CopiedLogged ==
    ASSUME NEW f \in LiveContent, NEW log \in Seq(LogRecord), Copied(f, log)
    PROVE  /\ DOMAIN Logged(log) \subseteq DOMAIN f /\ Logged(log) = On(f, DOMAIN Logged(log))
           /\ ValuesApart /\ Len(log) = Len(SortedKeys(f)) => Logged(log) = f
<1> DEFINE g == Logged(log)
<1>1. /\ IsTable(g)
      /\ \A k : k \in DOMAIN g <=> \E v : v # Tombstone /\ LastWrite(log, Len(log), k, v)
      /\ \A k, v : k \in DOMAIN g /\ LastWrite(log, Len(log), k, v) => g[k] = v
    BY LoggedIs
<1>2. \A k, v : LastWrite(log, Len(log), k, v) => k \in DOMAIN f /\ f[k] = v
    BY CopiedSays
<1> HIDE DEF g
<1>3. \A k \in DOMAIN g : k \in DOMAIN f /\ g[k] = f[k]
    BY <1>1, <1>2
<1>4. g = On(f, DOMAIN g)
    <2>1. DOMAIN g \cap DOMAIN f = DOMAIN g
        BY <1>3
    <2>2. On(f, DOMAIN g) = [k \in DOMAIN g |-> f[k]]
        BY <2>1 DEF On
    <2> QED  BY <1>1, <1>3, <2>2 DEF IsTable
<1>5. ASSUME ValuesApart, Len(log) = Len(SortedKeys(f)) PROVE g = f
    <2>1. IsTable(f) /\ \A k \in DOMAIN f : f[k] \in Value
        BY ContentIs
    <2>2. \A k \in DOMAIN f : f[k] # Tombstone
        BY <1>5, <2>1 DEF ValuesApart, Value
    <2>3. ASSUME NEW k \in DOMAIN f PROVE LastWrite(log, Len(log), k, f[k])
        <3>1. Written(log, Len(log), k)
            BY <1>5, CopiedSays
        <3> QED  BY <3>1, CopiedSays
    <2>4. DOMAIN f = DOMAIN g
        BY <1>1, <1>3, <2>2, <2>3
    <2> QED  BY <1>1, <1>3, <2>1, <2>4 DEF IsTable
<1> QED  BY <1>3, <1>4, <1>5 DEF g

\* What the readers have is an answer for each of them.
Answers == answer = [r \in Reader |-> answer[r]]

\* Every step leaves one for each of them.
LEMMA AnswersKept == Answers /\ [Next]_vars => Answers'
<1> SUFFICES ASSUME Answers, [Next]_vars PROVE Answers'
    OBVIOUS
<1>1. \/ answer' = answer
      \/ \E r, v : answer' = [answer EXCEPT ![r] = v]
      \/ answer' = [r \in Reader |-> None]
    BY DEF vars, client, Next, GetReturns, Get, Put, Delete, Snapshot, Restore, Flush, Compact,
           EnableAsyncFlush, StartBackgroundWorker, StopBackgroundWorker, JoinWorker, CallStep,
           AppendWALLocked, FlushIfNeeded, FlushImmutableMemTablesLocked, CompactSSTablesLocked,
           PersistSSTableLocked, DeleteSSTableFilesLocked, PublishTables, WriteManifest,
           InstallRestored, RewriteWALLocked, WorkerUnlocks, RecoverFromWALLocked, Lost,
           BackgroundWorkerLoop, WorkerWakes, WorkerLocks, Close, Crash, RecoverFromManifestLocked
<1>2. DOMAIN answer = Reader
    BY DEF Answers
<1>3. CASE answer' = answer
    BY <1>3 DEF Answers
<1>4. CASE \E r, v : answer' = [answer EXCEPT ![r] = v]
    BY <1>2, <1>4 DEF Answers
<1>5. CASE answer' = [r \in Reader |-> None]
    BY <1>5 DEF Answers
<1> QED  BY <1>1, <1>3, <1>4, <1>5
\* The mark of a missing value is not the content of a table.
NoneApart == ~IsTable(None)

\* While a Restore replaces the content, and only then, the map is not what the log says.
LEMMA OldIs ==
    ASSUME NoneApart, ReadInv
    PROVE  /\ old # None <=> up = "open" /\ Left("rewriteWAL")
           /\ old # None => old \in LiveContent /\ table \in LiveContent /\ table # None
           /\ todo = <<>> => old = None
<1>1. up = "open" /\ Left("rewriteWAL") => old \in LiveContent /\ table \in LiveContent
    BY DEF ReadInv, Restoring
<1>2. None \notin LiveContent
    BY ContentIs DEF NoneApart
<1>3. ~(up = "open" /\ Left("rewriteWAL")) => old = None
    BY DEF ReadInv, Restoring
<1>4. todo = <<>> => ~Left("rewriteWAL")
    BY HasListed DEF Left
<1> QED  BY <1>1, <1>2, <1>3, <1>4

\* A step that the map does not see.
LEMMA EngineStutters ==
    ASSUME UNCHANGED <<old, wal, snapshot, answer>>, old = None \/ table' = table
    PROVE  UNCHANGED Engine!vars
BY DEF Engine!vars

\* A step of a call keeps the table as long as it is needed.
LEMMA CallStutters ==
    ASSUME ReadInv', up' = "open", UNCHANGED <<old, wal, snapshot, answer>>,
           table' = table \/ Done
    PROVE  UNCHANGED Engine!vars
<1>1. CASE table' = table
    BY <1>1, EngineStutters
<1>2. CASE Done
    <2>1. todo' # <<>> => table' = table
        BY <1>2 DEF Done, Continue
    <2>2. old' # None => Left("rewriteWAL")'
        BY DEF ReadInv, Restoring
    <2>3. todo' = <<>> => ~Left("rewriteWAL")'
        BY HasListed DEF Left
    <2> QED  BY <2>1, <2>2, <2>3, EngineStutters
<1> QED  BY <1>1, <1>2

\* Put and Delete change the map when their record is in the log.
LEMMA AppendRefines ==
    ASSUME NoneApart, ValuesApart, LsmInv, ReadInv, ReadInv', AppendWALLocked
    PROVE  Engine!Next
<1>1. /\ todo # <<>> /\ Head(todo) = "append" /\ up = "open" /\ wal' = Append(wal, table)
      /\ UNCHANGED <<old, snapshot, answer>>
    BY DEF AppendWALLocked, Step, Locked, client
<1>2. todo \in Seq(Steps) /\ Left("append")
    BY <1>1, HasTail DEF Left, LsmInv
<1>3. table \in LogRecord /\ wal \in Seq(LogRecord)
    BY <1>1, <1>2 DEF ReadInv, Listed, Typed
<1>4. ~Left("rewriteWAL")
    <2>1. Head(todo) \in Calm
        BY <1>1 DEF Calm
    <2>2. \A x : x \notin Calm => ~Left(x)
        BY <1>1, <2>1, CalmAgrees
    <2> QED  BY <2>2 DEF Calm
<1>5. old = None
    BY <1>4, OldIs
<1> DEFINE a == Logged(wal)
           b == Logged(wal')
<1>6. /\ table.value # Tombstone => b = With(a, table.key, table.value)
      /\ table.value = Tombstone => b = On(a, DOMAIN a \ {table.key})
    BY <1>1, <1>3, LoggedNext
<1>7. b \in [DOMAIN b -> Value]
    BY <1>1, LoggedTyped DEF ReadInv, Typed
<1>8. table.key \in Key
    BY <1>3 DEF LogRecord
<1> HIDE DEF a, b
<1>9. CASE table.value # Tombstone
    <2>1. DOMAIN b = DOMAIN a \cup {table.key} /\ \A x \in DOMAIN a \ {table.key} : b[x] = a[x]
        BY <1>6, <1>9 DEF With
    <2>2. b \in [DOMAIN a \cup {table.key} -> Value]
        BY <1>7, <2>1
    <2>3. Engine!Put(table.key)
        BY <1>1, <1>5, <2>1, <2>2 DEF Engine!Put, Engine!Usable, a, b
    <2> QED  BY <1>8, <2>3 DEF Engine!Next
<1>10. CASE table.value = Tombstone
    <2>1. b = Engine!On(a, DOMAIN a \ {table.key})
        BY <1>6, <1>10 DEF On, Engine!On
    <2>2. Engine!Delete(table.key)
        BY <1>1, <1>5, <2>1 DEF Engine!Delete, Engine!Usable, a, b
    <2> QED  BY <1>8, <2>2 DEF Engine!Next
<1> QED  BY <1>9, <1>10

\* Restore ends when its copy in the log is complete.
LEMMA RewriteRefines ==
    ASSUME NoneApart, ValuesApart, LsmInv, ReadInv, RewriteWALLocked
    PROVE  [Engine!Next]_(Engine!vars)
<1> DEFINE b == <<"rewriteWAL", "publishNone", "writeManifest">>
<1>1. /\ todo \in Seq(Steps) /\ todo # <<>> /\ Head(todo) = "rewriteWAL" /\ up = "open" /\ Stage
      /\ UNCHANGED <<mem, imm, sst, up, snapshot, answer>>
    BY DEF RewriteWALLocked, Step, Locked, LsmInv, memory, client
<1>2. Path(b)
    BY <1>1, StageOfHead
<1>3. b \in Seq(Steps) /\ \A x : Has(b, x) <=> x \in {"rewriteWAL", "publishNone", "writeManifest"}
    BY HasListed DEF Steps
<1> HIDE DEF b
<1>4. \A x : x \notin Calm => (Left(x) <=> Has(b, x))
    BY <1>1, <1>2, <1>3, HasOnPath DEF Left
<1>5. Left("rewriteWAL") /\ ~Left("install")
    BY <1>3, <1>4 DEF Calm
<1>6. /\ old # None /\ table # None /\ table \in LiveContent
      /\ sst = <<>> /\ imm = <<>> /\ mem = table /\ Copied(table, wal)
      /\ wal \in Seq(LogRecord) /\ Len(wal) \in Nat
    BY <1>1, <1>5, OldIs DEF ReadInv, Restoring, Typed
<1>7. SSTableEntries = <<>>
    BY <1>6 DEF SSTableEntries
<1>8. ExportVisibleDataLocked = table
    BY <1>6, <1>7, LiveAlone DEF ExportVisibleDataLocked
<1>9. CASE Len(wal) < Len(SortedKeys(table))
    <2>1. UNCHANGED <<table, old>>
        BY <1>8, <1>9 DEF RewriteWALLocked
    <2> QED  BY <1>1, <1>6, <2>1 DEF Engine!vars
<1>10. CASE ~(Len(wal) < Len(SortedKeys(table)))
    <2>1. old' = None /\ wal' = wal
        BY <1>8, <1>10 DEF RewriteWALLocked
    <2>2. Len(SortedKeys(table)) \in Nat
        BY <1>6, ContentIs, KeysSorted, LsmAssumption
    <2>3. Len(wal) = Len(SortedKeys(table))
        BY <1>6, <1>10, <2>2 DEF Copied
    <2>4. Logged(wal) = table
        BY <1>6, <2>3, CopiedLogged
    <2>5. Engine!EndRestore
        BY <1>1, <1>6, <2>1, <2>4 DEF Engine!EndRestore
    <2> QED  BY <2>5 DEF Engine!Next
<1> QED  BY <1>9, <1>10

\* A crash leaves the map alone, or what an interrupted Restore leaves of it.
LEMMA LostRefines ==
    ASSUME NoneApart, ReadInv, Lost, UNCHANGED <<wal, snapshot>>
    PROVE  Engine!Next
<1>1. old' = None /\ answer' = [r \in Reader |-> None]
    BY DEF Lost
<1>2. CASE old = None
    <2>1. Engine!Forget(Reader)
        BY <1>1, <1>2 DEF Engine!Forget
    <2> QED  BY <2>1 DEF Engine!Next
<1>3. CASE old # None
    <2>1. /\ up = "open" /\ Left("rewriteWAL") /\ table # None /\ table \in LiveContent
          /\ wal \in Seq(LogRecord)
        BY <1>3, OldIs DEF ReadInv, Typed
    <2>2. Logged(wal) = old
          \/ \E keys \in SUBSET DOMAIN table : Logged(wal) = Engine!On(table, keys)
        <3>1. CASE Left("install")
            BY <2>1, <3>1 DEF ReadInv, Restoring
        <3>2. CASE ~Left("install")
            <4>1. Copied(table, wal)
                BY <2>1, <3>2 DEF ReadInv, Restoring
            <4>2. /\ DOMAIN Logged(wal) \subseteq DOMAIN table
                  /\ Logged(wal) = On(table, DOMAIN Logged(wal))
                BY <2>1, <4>1, CopiedLogged
            <4>3. Logged(wal) = Engine!On(table, DOMAIN Logged(wal))
                BY <4>2 DEF On, Engine!On
            <4> QED  BY <4>2, <4>3
        <3> QED  BY <3>1, <3>2
    <2>3. Engine!InterruptRestore
        BY <1>1, <1>3, <2>1, <2>2 DEF Engine!InterruptRestore
    <2> QED  BY <2>3 DEF Engine!Next
<1> QED  BY <1>2, <1>3

\* A Get takes its value from the map.
LEMMA GetRefines ==
    ASSUME NoneApart, ValuesApart, LsmInv, ReadInv, NEW r \in Reader, NEW k \in Key, Get(r, k)
    PROVE  Engine!Next
<1>1. /\ up = "open" /\ todo = <<>> /\ UNCHANGED <<old, table, wal, snapshot>>
      /\ answer' = [answer EXCEPT ![r] = IF FindEntryLocked(k) = Tombstone THEN None
                                         ELSE FindEntryLocked(k)]
    BY DEF Get, Locked, call, disk
<1>2. old = None
    BY <1>1, OldIs
<1>3. Agree(SSTableEntries \o imm \o <<mem>>, wal, Reach)
    BY <1>1, CalmAgrees
<1>4. Reach = Len(wal)
    BY <1>1, HasListed DEF Reach, Left
<1>5. /\ k \in DOMAIN Logged(wal) => FindEntryLocked(k) = Logged(wal)[k]
      /\ k \notin DOMAIN Logged(wal) => FindEntryLocked(k) \in {None, Tombstone}
    <2>1. \A x \in Key : /\ x \in DOMAIN Logged(wal) => FindEntryLocked(x) = Logged(wal)[x]
                         /\ x \notin DOMAIN Logged(wal) => FindEntryLocked(x) \in {None, Tombstone}
        BY <1>3, <1>4, ReadsAgree DEF ReadInv, Typed
    <2> QED  BY <2>1
<1>6. k \in DOMAIN Logged(wal) => Logged(wal)[k] # Tombstone
    <2>1. Logged(wal) \in [DOMAIN Logged(wal) -> Value]
        BY LoggedTyped DEF ReadInv, Typed
    <2> QED  BY <2>1 DEF ValuesApart, Value
<1>7. (IF FindEntryLocked(k) = Tombstone THEN None ELSE FindEntryLocked(k))
      = IF k \in DOMAIN Logged(wal) THEN Logged(wal)[k] ELSE None
    BY <1>5, <1>6
<1>8. Engine!Get(r, k)
    BY <1>1, <1>2, <1>7 DEF Engine!Get, Engine!Usable
<1> QED  BY <1>8 DEF Engine!Next
\* With nothing left to do, or a calm step next, no Restore is in progress.
LEMMA CalmStutters ==
    ASSUME NoneApart, LsmInv, ReadInv, up = "open", todo = <<>> \/ Head(todo) \in Calm,
           UNCHANGED <<old, wal, snapshot, answer>>
    PROVE  UNCHANGED Engine!vars
<1>1. \A x : x \notin Calm => ~Left(x)
    BY CalmAgrees
<1>2. ~Left("rewriteWAL")
    BY <1>1 DEF Calm
<1>3. old = None
    BY <1>2, OldIs
<1> QED  BY <1>3, EngineStutters

\* Restore reads the content of the last Snapshot.
LEMMA BeginRefines ==
    ASSUME NoneApart, ReadInv, Restore
    PROVE  Engine!Next
<1>1. /\ todo = <<>> /\ old' = Logged(wal) /\ table' = DecodeSnapshot(snapshot)
      /\ UNCHANGED <<wal, snapshot, answer>>
    BY DEF Restore, Idle, Locked, disk, client
<1>2. old = None
    BY <1>1, OldIs
<1>3. IsTable(Logged(wal))
    BY LoggedIs DEF ReadInv, Typed
<1>4. old' # None
    BY <1>1, <1>3 DEF NoneApart
<1>5. Engine!BeginRestore
    BY <1>1, <1>2, <1>4 DEF Engine!BeginRestore, Engine!Usable
<1> QED  BY <1>5 DEF Engine!Next

\* Snapshot saves the map.
LEMMA SnapshotRefines ==
    ASSUME NoneApart, LsmInv, ReadInv, Snapshot
    PROVE  Engine!Next
<1>1. todo = <<>> /\ UNCHANGED <<old, table, wal, answer>>
    BY DEF Snapshot, Idle, Locked, call, disk
<1>2. old = None
    BY <1>1, OldIs
<1>3. DecodeSnapshot(snapshot') = Logged(wal)
    BY SnapshotRead
<1>4. Engine!Snapshot
    BY <1>1, <1>2, <1>3 DEF Engine!Snapshot, Engine!Usable
<1> QED  BY <1>4 DEF Engine!Next

\* The log is cleared only when the replaced content is kept aside.
LEMMA InstallStutters ==
    ASSUME NoneApart, LsmInv, ReadInv, ReadInv', InstallRestored
    PROVE  UNCHANGED Engine!vars
<1>1. /\ up = "open" /\ up' = up /\ todo # <<>> /\ Head(todo) = "install"
      /\ Done /\ UNCHANGED <<old, snapshot, answer>>
    BY DEF InstallRestored, Step, Locked, client
<1>2. old' # None => Left("rewriteWAL")'
    BY <1>1 DEF ReadInv, Restoring
<1>3. todo' = <<>> => ~Left("rewriteWAL")'
    BY HasListed DEF Left
<1>4. Left("install")
    BY <1>1, HasTail DEF Left, LsmInv
<1>5. old # None
    BY <1>1, <1>4, OldIs DEF ReadInv, Restoring
<1>6. todo' # <<>> => table' = table
    BY <1>1 DEF Done, Continue
<1> QED  BY <1>1, <1>2, <1>3, <1>5, <1>6 DEF Engine!vars

\* A Get that has returned has no answer left.
LEMMA ReturnRefines ==
    ASSUME Answers, NEW r \in Reader, GetReturns(r)
    PROVE  Engine!Next
<1>1. answer' = [answer EXCEPT ![r] = None] /\ UNCHANGED <<old, table, wal, snapshot>>
    BY DEF GetReturns, call, disk
<1>2. answer' = [x \in Reader |-> IF x \in {r} THEN None ELSE answer[x]]
    BY <1>1 DEF Answers
<1>3. Engine!Forget({r})
    BY <1>1, <1>2 DEF Engine!Forget
<1> QED  BY <1>3 DEF Engine!Next

\* The empty log and the empty snapshot have no content.
LEMMA RefinementInit == Init => Engine!Init
<1> SUFFICES ASSUME Init PROVE Engine!Init
    OBVIOUS
<1>1. old = None /\ wal = <<>> /\ snapshot = <<>> /\ answer = [r \in Reader |-> None]
    BY DEF Init
<1>2. DecodeSnapshot(snapshot) = [k \in {} |-> None]
    BY <1>1 DEF DecodeSnapshot, Empty
<1>3. Logged(wal) = [k \in {} |-> None]
    <2>1. wal \in Seq(Key) /\ Len(wal) = 0
        BY <1>1
    <2>2. /\ IsTable(Logged(wal))
          /\ \A k : k \in DOMAIN Logged(wal)
                        <=> \E v : v # Tombstone /\ LastWrite(wal, Len(wal), k, v)
        BY <2>1, LoggedIs
    <2>3. \A k, v : ~LastWrite(wal, 0, k, v)
        BY DEF LastWrite
    <2>4. DOMAIN Logged(wal) = {}
        BY <2>1, <2>2, <2>3
    <2> QED  BY <2>2, <2>4 DEF IsTable
<1> QED  BY <1>1, <1>2, <1>3 DEF Engine!Init

\* Every step of the engine is a step of the map or leaves it alone.
LEMMA RefinementStep ==
    ASSUME NoneApart, ValuesApart, LsmInv, ReadInv, ReadInv', Answers, [Next]_vars
    PROVE  [Engine!Next]_(Engine!vars)
<1>1. CASE UNCHANGED vars
    BY <1>1, EngineStutters DEF vars, call, disk, client
<1>2. CASE \E r \in Reader : GetReturns(r) \/ \E k \in Key : Get(r, k)
    BY <1>2, ReturnRefines, GetRefines
<1>3. CASE (\E k \in Key : Put(k) \/ Delete(k)) \/ Flush \/ Compact \/ WorkerLocks
    <2>1. up = "open" /\ todo = <<>> /\ UNCHANGED <<old, wal, snapshot, answer>>
        BY <1>3 DEF Put, Delete, Flush, Compact, WorkerLocks, Idle, Locked, disk, client
    <2> QED  BY <2>1, CalmStutters
<1>4. CASE Snapshot \/ Restore
    BY <1>4, SnapshotRefines, BeginRefines
<1>5. CASE \/ \E enabled \in BOOLEAN : EnableAsyncFlush(enabled)
           \/ StartBackgroundWorker \/ StopBackgroundWorker \/ JoinWorker \/ WorkerWakes
    <2>1. UNCHANGED <<old, table, wal, snapshot, answer>>
        BY <1>5 DEF EnableAsyncFlush, StartBackgroundWorker, StopBackgroundWorker, JoinWorker,
                    WorkerWakes, call, disk, client
    <2> QED  BY <2>1, EngineStutters
<1>6. CASE AppendWALLocked \/ RewriteWALLocked
    BY <1>6, AppendRefines, RewriteRefines
<1>7. CASE \/ FlushIfNeeded \/ FlushImmutableMemTablesLocked \/ CompactSSTablesLocked
           \/ WorkerUnlocks \/ RecoverFromWALLocked
    <2>1. /\ up = "open" /\ todo # <<>>
          /\ Head(todo) \in {"flushIfNeeded", "flush", "compact", "endOfRound", "replay"}
          /\ UNCHANGED <<old, wal, snapshot, answer>>
        BY <1>7 DEF FlushIfNeeded, FlushImmutableMemTablesLocked, CompactSSTablesLocked,
                    WorkerUnlocks, RecoverFromWALLocked, Step, Locked, disk, client
    <2>2. Head(todo) \in Calm
        BY <2>1 DEF Calm
    <2> QED  BY <2>1, <2>2, CalmStutters
<1>8. CASE PersistSSTableLocked \/ DeleteSSTableFilesLocked \/ PublishTables \/ WriteManifest
    <2>1. /\ up' = "open" /\ UNCHANGED <<old, wal, snapshot, answer>>
          /\ table' = table \/ Done
        BY <1>8 DEF PersistSSTableLocked, DeleteSSTableFilesLocked, PublishTables, WriteManifest,
                    Step, client
    <2> QED  BY <2>1, CallStutters
<1>9. CASE InstallRestored
    BY <1>9, InstallStutters
<1>10. CASE Close \/ Crash
    BY <1>10, LostRefines DEF Close, Crash, disk
<1>11. CASE RecoverFromManifestLocked
    <2>1. up = "down" /\ UNCHANGED <<old, table, wal, snapshot, answer>>
        BY <1>11 DEF RecoverFromManifestLocked, disk, client
    <2> QED  BY <2>1, EngineStutters
<1> QED
    BY <1>1, <1>2, <1>3, <1>4, <1>5, <1>6, <1>7, <1>8, <1>9, <1>10, <1>11
       DEF Next, CallStep, BackgroundWorkerLoop

\* The engine implements the map that kv_engine.h promises: a Get returns the value of the last
\* logged write, Restore brings back what Snapshot saw, and a crash loses nothing except when it
\* interrupts a Restore, which leaves the old content or a part of the new one.
THEOREM LsmRefinement ==
    ASSUME MarksApart, ValuesApart, NoneApart
    PROVE  Spec => ImplementsKVEngine
<1>1. Init => ReadInv /\ Counted /\ Answers
    BY ReadInit DEF Init, Counted, Answers
<1>2. LsmInv /\ (ReadInv /\ Counted /\ Answers) /\ [Next]_vars => (ReadInv /\ Counted /\ Answers)'
    BY ReadNext, WritesCounted, AnswersKept
<1>3. Spec => []LsmInv
    BY StagesHold
<1>4. Spec => [](ReadInv /\ Counted /\ Answers)
    BY <1>1, <1>2, <1>3, PTL DEF Spec
<1>5. LsmInv /\ ReadInv /\ ReadInv' /\ Answers /\ [Next]_vars => [Engine!Next]_(Engine!vars)
    BY RefinementStep
<1> QED  BY <1>3, <1>4, <1>5, RefinementInit, PTL DEF Spec, ImplementsKVEngine, Engine!Spec
=============================================================================
