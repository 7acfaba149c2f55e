------------------------------ MODULE SkipList ------------------------------
(***************************************************************************)
(* The skip list of skipList/include/skipList.h as operators.  A list is a *)
(* record of the nodes' forward pointers and values, the level in use and  *)
(* the element count; a node is named by its key.  Every operation holds   *)
(* the list's _mtx from beginning to end, so each one is one step.         *)
(***************************************************************************)
EXTENDS Integers, Sequences, FiniteSets, FiniteSetsExt, SequencesExt

CONSTANTS
    Header, Nil,        \* _header and nullptr
    MaxLevel            \* _max_level

\* Keys are numbers, and neither the header nor a null pointer is one.
ASSUME SkipListAssumption ==
    /\ MaxLevel \in Nat \ {0}
    /\ Header \notin Nat /\ Nil \notin Nat /\ Header # Nil

\* A list without elements; the constructor makes it.
EmptyList ==
    [forward |-> [n \in {Header} |-> [i \in 0 .. MaxLevel |-> Nil]],
     value |-> [n \in {} |-> Nil], level |-> 0, count |-> 0]

\* get_random_level: coin flips from 1 up, cut at _max_level.
Levels == 1 .. MaxLevel

\* The nodes that are on level i, the header included.
NodesAt(list, i) == {n \in DOMAIN list.forward : i \in DOMAIN list.forward[n]}

\* Where the walk along level i ends: before a key that is not smaller, or at the end.
Walk(list, key, i) ==
    LET walk[n \in NodesAt(list, i)] ==
            LET next == list.forward[n][i]
            IN  IF next # Nil /\ next < key THEN walk[next] ELSE n
    IN  walk

\* update[i]: the last node of level i whose key is smaller than key, found by going
\* down from the highest level in use.
Update(list, key) ==
    LET update[i \in 0 .. list.level] ==
            Walk(list, key, i)[IF i = list.level THEN Header ELSE update[i + 1]]
    IN  update

Find(list, key) == list.forward[Update(list, key)[0]][0]
HasKey(list, key) == Find(list, key) # Nil /\ Find(list, key) = key

search_element(list, key) == IF HasKey(list, key) THEN list.value[key] ELSE Nil

\* Nothing happens when the key is there already.
insert_element_locked(list, key, value, randomLevel) ==
    LET found == Update(list, key)
        update(i) == IF i <= list.level THEN found[i] ELSE Header
        node == [i \in 0 .. randomLevel |-> list.forward[update(i)][i]]
    IN  IF HasKey(list, key) THEN list
        ELSE [forward |-> [n \in DOMAIN list.forward \cup {key} |->
                IF n = key THEN node
                ELSE [i \in DOMAIN list.forward[n] |->
                        IF i <= randomLevel /\ update(i) = n THEN key ELSE list.forward[n][i]]],
              value |-> [n \in DOMAIN list.value \cup {key} |->
                            IF n = key THEN value ELSE list.value[n]],
              level |-> Max({list.level, randomLevel}),
              count |-> list.count + 1]

\* Variant for mutation: the level is left as it was when the top node goes away.
KeepsLevel(list, forward) == list.level
\* The level shrinks to the highest one that still has a node.
ShrunkLevel(list, forward) ==
    Max({0} \cup {i \in 0 .. list.level : forward[Header][i] # Nil})

\* Unlinks the node on the levels it is on, from the bottom up.
delete_element_locked(list, key) ==
    LET update == Update(list, key)
        kept == DOMAIN list.forward \ {key}
        linked(n, i) == i <= list.level /\ update[i] = n /\ list.forward[n][i] = key
        forward == [n \in kept |-> [i \in DOMAIN list.forward[n] |->
                       IF linked(n, i) THEN list.forward[key][i] ELSE list.forward[n][i]]]
    IN  IF ~HasKey(list, key) THEN list
        ELSE [forward |-> forward,
              value |-> [n \in DOMAIN list.value \ {key} |-> list.value[n]],
              level |-> ShrunkLevel(list, forward),
              count |-> list.count - 1]

insert_set_element(list, key, value, randomLevel) ==
    insert_element_locked(delete_element_locked(list, key), key, value, randomLevel)

\* The keys of one level, in the order of its pointers.
LevelKeys(list, i) ==
    LET from[n \in NodesAt(list, i) \cup {Nil}] ==
            IF n = Nil THEN <<>>
            ELSE (IF n = Header THEN <<>> ELSE <<n>>) \o from[list.forward[n][i]]
    IN  from[Header]

\* SkipListDump: the keys and the values of the bottom level.
dump_file(list) ==
    LET keys == LevelKeys(list, 0)
    IN  [keys |-> keys, values |-> [i \in DOMAIN keys |-> list.value[keys[i]]]]

\* The list is emptied and the pairs are inserted one by one; levels are the coin flips.
load_file(dump, levels) ==
    LET loaded[n \in 0 .. Len(dump.keys)] ==
            IF n = 0 THEN EmptyList
            ELSE insert_element_locked(loaded[n - 1], dump.keys[n], dump.values[n], levels[n])
    IN  loaded[Len(dump.keys)]

size(list) == list.count

\* Every level is a sorted part of the level below, the bottom level holds every
\* element, and the level and the count are those of the nodes.
Sound(list) ==
    /\ \A i \in 0 .. list.level :
          LET keys == LevelKeys(list, i) IN
          /\ \A j \in 1 .. Len(keys) - 1 : keys[j] < keys[j + 1]
          /\ Range(keys) = {k \in DOMAIN list.value : i \in DOMAIN list.forward[k]}
    /\ Range(LevelKeys(list, 0)) = DOMAIN list.value
    /\ \A i \in list.level + 1 .. MaxLevel : list.forward[Header][i] = Nil
    /\ list.level > 0 => list.forward[Header][list.level] # Nil
    /\ size(list) = Cardinality(DOMAIN list.value)
=============================================================================
