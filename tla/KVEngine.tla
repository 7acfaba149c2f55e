------------------------------ MODULE KVEngine ------------------------------
(***************************************************************************)
(* What a storage engine promises (the interface of kv_engine.h): a map    *)
(* from keys to values.  A read gives the value the map has at one moment  *)
(* of the call, and Restore replaces the whole map by the one that the     *)
(* last Snapshot was taken of.  An engine that lives on disk loses nothing *)
(* by a crash, except when it interrupts a Restore: the engine then comes  *)
(* back with the old map or with a part of the new one.  An engine in      *)
(* memory goes down with its process and comes back with what its owner    *)
(* loads.                                                                  *)
(***************************************************************************)
EXTENDS Integers, FiniteSets

CONSTANTS Key, Value, Reader, None

VARIABLES
    db,         \* the content: a function from the present keys to values
    answer,     \* what each reader's Get returns, None for false
    snapshot,   \* the content of the last Snapshot
    restoring,  \* the content a Restore in progress is about to install
    alive       \* the process of an engine in memory is up

vars == <<db, answer, snapshot, restoring, alive>>

IsContent(map) == DOMAIN map \subseteq Key /\ map \in [DOMAIN map -> Value]

\* The entries of map for the keys in keys.
On(map, keys) == [k \in keys \cap DOMAIN map |-> map[k]]

Init ==
    /\ db = [k \in {} |-> None]
    /\ answer = [r \in Reader |-> None]
    /\ snapshot = db /\ restoring = None
    /\ alive \in BOOLEAN

Usable == alive /\ restoring = None

\* Some value is written to k.
Put(k) ==
    /\ Usable
    /\ db' \in [DOMAIN db \cup {k} -> Value]
    /\ \A x \in DOMAIN db \ {k} : db'[x] = db[x]
    /\ UNCHANGED <<answer, snapshot, restoring, alive>>

Delete(k) ==
    /\ Usable
    /\ db' = On(db, DOMAIN db \ {k})
    /\ UNCHANGED <<answer, snapshot, restoring, alive>>

Get(r, k) ==
    /\ Usable
    /\ answer' = [answer EXCEPT ![r] = IF k \in DOMAIN db THEN db[k] ELSE None]
    /\ UNCHANGED <<db, snapshot, restoring, alive>>

Snapshot ==
    /\ Usable
    /\ snapshot' = db
    /\ UNCHANGED <<db, answer, restoring, alive>>

BeginRestore ==
    /\ Usable
    /\ restoring' = snapshot
    /\ UNCHANGED <<db, answer, snapshot, alive>>

EndRestore ==
    /\ restoring # None
    /\ db' = restoring
    /\ restoring' = None
    /\ UNCHANGED <<answer, snapshot, alive>>

\* The process dies in the middle of Restore.
InterruptRestore ==
    /\ restoring # None
    /\ \/ UNCHANGED db
       \/ \E keys \in SUBSET DOMAIN restoring : db' = On(restoring, keys)
    /\ restoring' = None
    /\ answer' = [r \in Reader |-> None]
    /\ UNCHANGED <<snapshot, alive>>

\* Readers go on with their answers; one whose process dies gets none.
Forget(readers) ==
    /\ answer' = [r \in Reader |-> IF r \in readers THEN None ELSE answer[r]]
    /\ UNCHANGED <<db, snapshot, restoring, alive>>

\* An engine in memory is gone with its process, and is loaded when that starts again.
Vanishes ==
    /\ alive /\ alive' = FALSE
    /\ db' = [k \in {} |-> None]
    /\ answer' = [r \in Reader |-> None]
    /\ UNCHANGED <<snapshot, restoring>>

Loads ==
    /\ ~alive /\ alive' = TRUE
    /\ IsContent(db')
    /\ UNCHANGED <<answer, snapshot, restoring>>

Next ==
    \/ \E k \in Key : Put(k) \/ Delete(k)
    \/ \E r \in Reader, k \in Key : Get(r, k)
    \/ Snapshot \/ BeginRestore \/ EndRestore \/ InterruptRestore
    \/ \E readers \in SUBSET Reader : Forget(readers)
    \/ Vanishes \/ Loads

Spec == Init /\ [][Next]_vars
=============================================================================
