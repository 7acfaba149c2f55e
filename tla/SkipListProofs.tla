--------------------------- MODULE SkipListProofs ---------------------------
(***************************************************************************)
(* The skip list of skipList.h is a sorted map: an insert, a delete and a  *)
(* load change its content as their names say, whatever levels the coin    *)
(* flips give, and leave every level sorted.                               *)
(*                                                                         *)
(* Shaped says of the forward pointers that each one leads to the next     *)
(* node of its level.  The walks of Update then end at the nodes whose     *)
(* pointers have to change, and these changes give pointers of that kind   *)
(* again.  The operators with a recursive function (Walk, Update,          *)
(* LevelKeys, load_file) get a lemma that a function with the defining     *)
(* equation exists; what it returns follows by looking at the last node,   *)
(* or the first level, for which it would be wrong.                        *)
(***************************************************************************)
EXTENDS SkipList, SequenceTheorems, FiniteSetTheorems, WellFoundedInduction, TLAPS

\* The keys of level i.
At(l, i) == {k \in DOMAIN l.value : i \in DOMAIN l.forward[k]}

\* The header comes before every key.
Before(n, m) == n = Header \/ n < m

\* x is what the pointer of node n leads to on a level with the keys S.
IsNext(S, n, x) ==
    \/ x = Nil /\ \A m \in S : ~Before(n, m)
    \/ x \in S /\ Before(n, x) /\ \A m \in S : Before(n, m) => x <= m

\* p is the last node before key on a level with the keys S.
IsLast(S, key, p) ==
    \/ p = Header /\ \A m \in S : ~(m < key)
    \/ p \in S /\ p < key /\ \A m \in S : m < key => m <= p

Shaped(l) ==
    /\ l.value = [k \in DOMAIN l.value |-> l.value[k]]
    /\ DOMAIN l.value \subseteq Nat /\ IsFiniteSet(DOMAIN l.value)
    /\ DOMAIN l.forward = DOMAIN l.value \cup {Header}
    /\ l.level \in 0 .. MaxLevel
    /\ DOMAIN l.forward[Header] = 0 .. MaxLevel
    /\ \A k \in DOMAIN l.value : \E h \in 0 .. l.level : DOMAIN l.forward[k] = 0 .. h
    /\ l.level > 0 => At(l, l.level) # {}
    /\ \A i \in 0 .. MaxLevel : \A n \in NodesAt(l, i) : IsNext(At(l, i), n, l.forward[n][i])
    /\ l.count = Cardinality(DOMAIN l.value)

-----------------------------------------------------------------------------
(* Sets of naturals.                                                       *)

\* A nonempty set of naturals has a least element.
LEMMA LeastElement ==
    ASSUME NEW S \in SUBSET Nat, S # {}
    PROVE  \E k \in S : \A l \in S : k <= l
  <1> DEFINE R == OpToRel(<, Nat)
  <1>1. IsWellFoundedOn(R, Nat)
    BY NatLessThanWellFounded, Zenon
  <1>2. \A x, y \in Nat : x < y => <<x, y>> \in R
    BY DEF OpToRel
  <1> HIDE DEF R
  <1>3. PICK k \in S : \A l \in S : ~ (<<l, k>> \in R)
    BY <1>1, WFMin
  <1>4. \A l \in S : ~ (l < k)
    BY <1>2, <1>3
  <1> QED
    BY <1>4

\* A nonempty set of naturals with a bound has a greatest element.
LEMMA GreatestElement ==
    ASSUME NEW S \in SUBSET Nat, S # {}, NEW b \in Nat, \A m \in S : m <= b
    PROVE  \E k \in S : \A l \in S : l <= k
  <1> DEFINE T == {n \in Nat : b - n \in S}
  <1>1. \A m \in S : b - m \in T
    <2> TAKE m \in S
    <2>1. m \in Nat /\ b - m \in Nat /\ b - (b - m) = m
      OBVIOUS
    <2> QED
      BY <2>1
  <1>2. T # {} /\ T \in SUBSET Nat
    BY <1>1
  <1> HIDE DEF T
  <1>3. PICK t \in T : \A u \in T : t <= u
    BY <1>2, LeastElement
  <1>4. b - t \in S /\ t \in Nat
    BY <1>2, <1>3 DEF T
  <1>5. ASSUME NEW m \in S PROVE m <= b - t
    <2>1. t <= b - m /\ m \in Nat
      BY <1>1, <1>3
    <2> QED
      BY <2>1, <1>4
  <1> QED
    BY <1>4, <1>5

\* A finite set of naturals has a bound.
LEMMA FiniteHasBound ==
    ASSUME NEW S \in SUBSET Nat, IsFiniteSet(S)
    PROVE  \E b \in Nat : \A m \in S : m <= b
  <1> DEFINE Bounded(F) == \E b \in Nat : \A m \in F : m <= b
             Bad == {c \in Nat : \E F \in SUBSET Nat : IsFiniteSet(F) /\ Cardinality(F) = c /\ ~Bounded(F)}
  <1>1. SUFFICES Bad = {}
    BY FS_CardinalityType
  <1>2. SUFFICES ASSUME Bad # {} PROVE FALSE
    OBVIOUS
  <1>3. PICK c \in Bad : \A d \in Bad : c <= d
    BY <1>2, LeastElement
  <1>4. PICK F \in SUBSET Nat : IsFiniteSet(F) /\ Cardinality(F) = c /\ ~Bounded(F)
    BY <1>3
  <1>5. PICK x \in F : TRUE
    <2>1. CASE F = {}
      <3>1. \A m \in F : m <= 0
        BY <2>1
      <3> QED
        BY <3>1, <1>4
    <2> QED
      BY <2>1
  <1>6. IsFiniteSet(F \ {x}) /\ Cardinality(F \ {x}) = c - 1 /\ c \in Nat
    BY <1>3, <1>4, <1>5, FS_RemoveElement
  <1>7. c - 1 \in Nat
    BY <1>6, FS_CardinalityType
  <1>8. Bounded(F \ {x})
    <2>1. c - 1 \notin Bad
      BY <1>3, <1>6, <1>7
    <2> QED
      BY <1>6, <1>7, <2>1
  <1>9. PICK b \in Nat : \A m \in F \ {x} : m <= b
    BY <1>8
  <1>10. CASE b <= x
    <2>1. x \in Nat /\ \A m \in F : m <= x
      BY <1>4, <1>5, <1>9, <1>10
    <2> QED
      BY <2>1, <1>4
  <1>11. CASE x <= b
    <2>1. \A m \in F : m <= b
      BY <1>4, <1>5, <1>9, <1>11
    <2> QED
      BY <2>1, <1>4
  <1> QED
    BY <1>4, <1>5, <1>10, <1>11

\* The last node before a key, and the next node after a node, exist and are unique.
LEMMA LastExists ==
    ASSUME SkipListAssumption, NEW S \in SUBSET Nat, NEW key \in Nat
    PROVE  \E p : IsLast(S, key, p) /\ \A q : IsLast(S, key, q) => q = p
  <1> DEFINE T == {m \in S : m < key}
  <1>1. CASE T = {}
    <2>1. IsLast(S, key, Header)
      BY <1>1 DEF IsLast
    <2>2. \A q : IsLast(S, key, q) => q = Header
      BY <1>1 DEF IsLast
    <2> QED
      BY <2>1, <2>2
  <1>2. CASE T # {}
    <2>1. PICK p \in T : \A m \in T : m <= p
      <3>1. T \in SUBSET Nat
        OBVIOUS
      <3>2. ASSUME NEW m \in T PROVE m <= key
        <4>1. m \in Nat /\ m < key
          OBVIOUS
        <4> QED
          BY <4>1
      <3> HIDE DEF T
      <3> QED
        BY <3>1, <3>2, <1>2, GreatestElement
    <2>2. IsLast(S, key, p)
      BY <2>1 DEF IsLast
    <2>3. \A q : IsLast(S, key, q) => q = p
      <3> TAKE q
      <3>1. SUFFICES ASSUME IsLast(S, key, q) PROVE q = p
        OBVIOUS
      <3>2. q \in S /\ q < key /\ p <= q
        BY <2>1, <3>1 DEF IsLast
      <3>3. q <= p /\ q \in Nat /\ p \in Nat
        BY <2>1, <3>2
      <3> QED
        BY <3>2, <3>3
    <2> QED
      BY <2>2, <2>3
  <1> QED
    BY <1>1, <1>2

LEMMA NextExists ==
    ASSUME SkipListAssumption, NEW S \in SUBSET Nat, NEW n \in Nat \cup {Header}
    PROVE  \E x : IsNext(S, n, x) /\ \A y : IsNext(S, n, y) => y = x
  <1> DEFINE T == {m \in S : Before(n, m)}
  <1>1. CASE T = {}
    <2>1. IsNext(S, n, Nil)
      BY <1>1 DEF IsNext
    <2>2. \A y : IsNext(S, n, y) => y = Nil
      BY <1>1 DEF IsNext
    <2> QED
      BY <2>1, <2>2
  <1>2. CASE T # {}
    <2>1. PICK x \in T : \A m \in T : x <= m
      <3>1. T \in SUBSET Nat
        OBVIOUS
      <3> HIDE DEF T
      <3> QED
        BY <3>1, <1>2, LeastElement
    <2>2. IsNext(S, n, x)
      BY <2>1 DEF IsNext
    <2>3. \A y : IsNext(S, n, y) => y = x
      <3> TAKE y
      <3>1. SUFFICES ASSUME IsNext(S, n, y) PROVE y = x
        OBVIOUS
      <3>2. y \in S /\ Before(n, y) /\ y <= x
        BY <2>1, <3>1 DEF IsNext
      <3>3. x <= y /\ y \in Nat /\ x \in Nat
        BY <2>1, <3>2
      <3> QED
        BY <3>2, <3>3
    <2> QED
      BY <2>2, <2>3
  <1> QED
    BY <1>1, <1>2

-----------------------------------------------------------------------------
(* Walking along the levels.                                               *)

\* What a list's levels are.
LEMMA LevelFacts ==
    ASSUME SkipListAssumption, NEW l, Shaped(l), NEW i \in 0 .. MaxLevel
    PROVE  /\ At(l, i) \in SUBSET Nat
           /\ NodesAt(l, i) = At(l, i) \cup {Header}
           /\ At(l, 0) = DOMAIN l.value
           /\ l.level \in Nat
           /\ l.level < i => At(l, i) = {}
           /\ \A j \in 0 .. i : At(l, i) \subseteq At(l, j)
  <1>1. MaxLevel \in Nat /\ Header \notin Nat
    BY DEF SkipListAssumption
  <1>2. /\ DOMAIN l.value \subseteq Nat /\ DOMAIN l.forward = DOMAIN l.value \cup {Header}
        /\ l.level \in 0 .. MaxLevel /\ DOMAIN l.forward[Header] = 0 .. MaxLevel
        /\ \A k \in DOMAIN l.value : \E h \in 0 .. l.level : DOMAIN l.forward[k] = 0 .. h
    BY DEF Shaped
  <1>3. At(l, i) \in SUBSET Nat
    BY <1>2 DEF At
  <1>4. NodesAt(l, i) = At(l, i) \cup {Header}
    BY <1>1, <1>2 DEF At, NodesAt
  <1>5. At(l, 0) = DOMAIN l.value
    BY <1>2 DEF At
  <1>6. l.level \in Nat
    BY <1>1, <1>2
  <1>7. l.level < i => At(l, i) = {}
    <2> SUFFICES ASSUME l.level < i, NEW k \in At(l, i) PROVE FALSE
      OBVIOUS
    <2>1. PICK h \in 0 .. l.level : DOMAIN l.forward[k] = 0 .. h
      BY <1>2 DEF At
    <2>2. i \in 0 .. h
      BY <2>1 DEF At
    <2> QED
      BY <2>1, <2>2, <1>6
  <1>8. ASSUME NEW j \in 0 .. i, NEW k \in At(l, i) PROVE k \in At(l, j)
    <2>1. k \in DOMAIN l.value /\ i \in DOMAIN l.forward[k]
      BY DEF At
    <2>2. PICK h \in 0 .. l.level : DOMAIN l.forward[k] = 0 .. h
      BY <1>2, <2>1
    <2>3. j \in 0 .. h
      BY <2>1, <2>2, <1>6
    <2> QED
      BY <2>1, <2>2, <2>3 DEF At
  <1> QED
    BY <1>3, <1>4, <1>5, <1>6, <1>7, <1>8

\* A walk obeys its defining equation.
LEMMA WalkDef ==
    ASSUME SkipListAssumption, NEW l, Shaped(l), NEW i \in 0 .. MaxLevel, NEW key \in Nat
    PROVE  Walk(l, key, i) = [n \in NodesAt(l, i) |->
                LET next == l.forward[n][i]
                IN  IF next # Nil /\ next < key THEN Walk(l, key, i)[next] ELSE n]
  <1> DEFINE S == At(l, i)
             Solves(w) == w = [n \in NodesAt(l, i) |->
                IF l.forward[n][i] # Nil /\ l.forward[n][i] < key THEN w[l.forward[n][i]] ELSE n]
             last == CHOOSE p : IsLast(S, key, p)
             f == [n \in NodesAt(l, i) |-> IF n = Header \/ n < key THEN last ELSE n]
  <1>1. /\ S \in SUBSET Nat /\ NodesAt(l, i) = S \cup {Header} /\ Header \notin Nat /\ Nil \notin Nat
        /\ Header # Nil /\ \A n \in NodesAt(l, i) : IsNext(S, n, l.forward[n][i])
    BY LevelFacts DEF Shaped, SkipListAssumption
  <1>2. IsLast(S, key, last) /\ \A q : IsLast(S, key, q) => q = last
    BY <1>1, LastExists
  <1> HIDE DEF S, last
  <1>3. ASSUME NEW n \in NodesAt(l, i)
        PROVE  f[n] = IF l.forward[n][i] # Nil /\ l.forward[n][i] < key THEN f[l.forward[n][i]] ELSE n
    <2> DEFINE x == l.forward[n][i]
    <2>1. IsNext(S, n, x)
      BY <1>1
    <2> HIDE DEF x
    <2>2. CASE x # Nil /\ x < key
      <3>1. x \in S /\ Before(n, x) /\ x \in Nat /\ x \in NodesAt(l, i)
        BY <1>1, <2>1, <2>2 DEF IsNext
      <3>2. f[x] = last
        BY <3>1, <2>2
      <3>3. n = Header \/ n < key
        <4>1. CASE n = Header  BY <4>1
        <4>2. CASE n # Header
          <5>1. n \in Nat /\ n < x
            BY <1>1, <3>1, <4>2 DEF Before
          <5> QED  BY <5>1, <2>2, <3>1
        <4> QED  BY <4>1, <4>2
      <3>4. f[n] = last
        BY <3>3
      <3> QED
        BY <3>2, <3>4, <2>2 DEF x
    <2>3. CASE ~(x # Nil /\ x < key) /\ (n = Header \/ n < key)
      <3>1. \A m \in S : m < key => ~Before(n, m)
        <4> TAKE m \in S
        <4> SUFFICES ASSUME m < key, Before(n, m) PROVE FALSE
          OBVIOUS
        <4>1. x \in S /\ x <= m
          BY <2>1 DEF IsNext
        <4>2. x \in Nat /\ m \in Nat /\ x # Nil
          BY <4>1, <1>1
        <4> QED
          BY <4>1, <4>2, <2>3
      <3>2. CASE n = Header
        <4>1. IsLast(S, key, n)
          BY <3>1, <3>2 DEF IsLast, Before
        <4> QED
          BY <4>1, <1>2, <2>3 DEF x
      <3>3. CASE n # Header
        <4>1. n \in S /\ n < key /\ n \in Nat
          BY <1>1, <2>3, <3>3
        <4>2. \A m \in S : m < key => m <= n
          <5> TAKE m \in S
          <5>1. m \in Nat
            BY <1>1
          <5> QED
            BY <5>1, <4>1, <3>1 DEF Before
        <4>3. IsLast(S, key, n)
          BY <4>1, <4>2 DEF IsLast
        <4> QED
          BY <4>3, <1>2, <2>3 DEF x
      <3> QED
        BY <3>2, <3>3
    <2>4. CASE ~(x # Nil /\ x < key) /\ ~(n = Header \/ n < key)
      BY <2>4 DEF x
    <2> QED
      BY <2>2, <2>3, <2>4
  <1>4. Solves(f)
    BY <1>3
  <1>5. Solves(CHOOSE w : Solves(w))
    <2> HIDE DEF Solves, f
    <2> QED
      BY <1>4
  <1>6. Walk(l, key, i) = CHOOSE w : Solves(w)
    BY DEF Walk
  <1> QED
    BY <1>5, <1>6

\* A walk that starts before the key ends at the last node before the key.
LEMMA WalkEnds ==
    ASSUME SkipListAssumption, NEW l, Shaped(l), NEW i \in 0 .. MaxLevel, NEW key \in Nat,
           NEW n \in NodesAt(l, i), n = Header \/ n < key
    PROVE  IsLast(At(l, i), key, Walk(l, key, i)[n])
  <1> DEFINE S == At(l, i)
             w == Walk(l, key, i)
             next(m) == l.forward[m][i]
  <1>1. /\ S \in SUBSET Nat /\ NodesAt(l, i) = S \cup {Header} /\ Header \notin Nat /\ Nil \notin Nat
        /\ Header # Nil /\ \A m \in NodesAt(l, i) : IsNext(S, m, next(m))
    BY LevelFacts DEF Shaped, SkipListAssumption
  <1>2. w = [m \in NodesAt(l, i) |-> IF next(m) # Nil /\ next(m) < key THEN w[next(m)] ELSE m]
    BY WalkDef
  <1>3. \A m \in NodesAt(l, i) : w[m] = IF next(m) # Nil /\ next(m) < key THEN w[next(m)] ELSE m
    <2> HIDE DEF w, next
    <2> QED
      BY <1>2
  <1> HIDE DEF S, w, next
  <1>4. ASSUME NEW m \in NodesAt(l, i), m = Header \/ m < key, ~(next(m) # Nil /\ next(m) < key)
        PROVE  IsLast(S, key, w[m])
    <2>1. w[m] = m /\ IsNext(S, m, next(m))
      BY <1>1, <1>3, <1>4
    <2>2. \A k \in S : k < key => ~Before(m, k)
      <3> TAKE k \in S
      <3> SUFFICES ASSUME k < key, Before(m, k) PROVE FALSE
        OBVIOUS
      <3>1. next(m) \in S /\ next(m) <= k
        BY <2>1 DEF IsNext
      <3>2. next(m) \in Nat /\ k \in Nat /\ next(m) # Nil
        BY <3>1, <1>1
      <3> QED
        BY <3>1, <3>2, <1>4
    <2>3. CASE m = Header
      BY <2>1, <2>2, <2>3 DEF IsLast, Before
    <2>4. CASE m # Header
      <3>1. m \in S /\ m < key /\ m \in Nat
        BY <1>1, <1>4, <2>4
      <3>2. \A k \in S : k < key => k <= m
        <4> TAKE k \in S
        <4>1. k \in Nat
          BY <1>1
        <4> QED
          BY <4>1, <3>1, <2>2 DEF Before
      <3> QED
        BY <2>1, <3>1, <3>2 DEF IsLast
    <2> QED
      BY <2>3, <2>4
  <1>5. \A m \in S : m < key => IsLast(S, key, w[m])
    <2> DEFINE Bad == {m \in S : m < key /\ ~IsLast(S, key, w[m])}
    <2> SUFFICES ASSUME Bad # {} PROVE FALSE
      OBVIOUS
    <2>1. Bad \in SUBSET Nat
      BY <1>1
    <2>2. ASSUME NEW m \in Bad PROVE m <= key
      <3>1. m \in Nat /\ m < key
        BY <2>1
      <3> QED
        BY <3>1
    <2>3. PICK g \in Bad : \A m \in Bad : m <= g
      <3> HIDE DEF Bad
      <3> QED
        BY <2>1, <2>2, GreatestElement
    <2>4. g \in S /\ g \in Nat /\ g < key /\ ~IsLast(S, key, w[g]) /\ g \in NodesAt(l, i) /\ g # Header
      BY <1>1, <2>3
    <2>5. next(g) # Nil /\ next(g) < key
      BY <1>4, <2>4
    <2>6. IsNext(S, g, next(g)) /\ w[g] = w[next(g)]
      BY <1>1, <1>3, <2>4, <2>5
    <2>7. next(g) \in S /\ g < next(g) /\ next(g) \in Nat
      BY <1>1, <2>4, <2>5, <2>6 DEF IsNext, Before
    <2>8. next(g) \in Bad
      BY <2>4, <2>5, <2>6, <2>7
    <2> QED
      BY <2>3, <2>4, <2>7, <2>8
  <1>6. CASE n # Header
    <2>1. n \in S /\ n < key
      BY <1>1, <1>6
    <2> QED
      BY <2>1, <1>5 DEF S, w
  <1>7. CASE n = Header
    <2>1. CASE next(n) # Nil /\ next(n) < key
      <3>1. IsNext(S, n, next(n)) /\ w[n] = w[next(n)]
        BY <1>1, <1>3, <2>1
      <3>2. next(n) \in S
        BY <2>1, <3>1 DEF IsNext
      <3> QED
        BY <2>1, <3>1, <3>2, <1>5 DEF S, w
    <2>2. CASE ~(next(n) # Nil /\ next(n) < key)
      BY <2>2, <1>4, <1>7 DEF S, w
    <2> QED
      BY <2>1, <2>2
  <1> QED
    BY <1>6, <1>7

\* The last node of a level before a key is a node of the level below, before the key.
LEMMA LastIsBelow ==
    ASSUME SkipListAssumption, NEW l, Shaped(l), NEW key \in Nat,
           NEW i \in 0 .. MaxLevel, NEW j \in 0 .. i, NEW p, IsLast(At(l, i), key, p)
    PROVE  p \in NodesAt(l, j) /\ (p = Header \/ p < key)
  <1>1. j \in 0 .. MaxLevel
    BY DEF SkipListAssumption
  <1>2. NodesAt(l, j) = At(l, j) \cup {Header} /\ At(l, i) \subseteq At(l, j)
    BY <1>1, LevelFacts
  <1> QED
    BY <1>2 DEF IsLast

\* update[i] is the last node of level i before the key.
LEMMA UpdateIsLast ==
    ASSUME SkipListAssumption, NEW l, Shaped(l), NEW key \in Nat, NEW i \in 0 .. l.level
    PROVE  IsLast(At(l, i), key, Update(l, key)[i])
  <1> DEFINE last(j) == CHOOSE p : IsLast(At(l, j), key, p)
             u == Update(l, key)
             from(w, j) == IF j = l.level THEN Header ELSE w[j + 1]
             Solves(w) == w = [j \in 0 .. l.level |-> Walk(l, key, j)[from(w, j)]]
             f == [j \in 0 .. l.level |-> last(j)]
  <1>1. l.level \in Nat /\ \A j \in 0 .. l.level : j \in 0 .. MaxLevel /\ j \in Nat
    <2>1. l.level \in 0 .. MaxLevel /\ MaxLevel \in Nat
      BY DEF Shaped, SkipListAssumption
    <2> QED
      BY <2>1
  <1>2. ASSUME NEW j \in 0 .. l.level PROVE IsLast(At(l, j), key, last(j)) /\ \A q : IsLast(At(l, j), key, q) => q = last(j)
    <2>1. At(l, j) \in SUBSET Nat
      BY <1>1, LevelFacts
    <2> QED
      BY <2>1, LastExists
  <1> HIDE DEF last
  <1>3. ASSUME NEW w, NEW j \in 0 .. l.level, j # l.level => IsLast(At(l, j + 1), key, w[j + 1])
        PROVE  IsLast(At(l, j), key, Walk(l, key, j)[from(w, j)])
    <2>1. j \in 0 .. MaxLevel
      BY <1>1
    <2>2. from(w, j) \in NodesAt(l, j) /\ (from(w, j) = Header \/ from(w, j) < key)
      <3>1. CASE j = l.level
        <4>1. Header \in NodesAt(l, j)
          BY <2>1, LevelFacts
        <4> QED
          BY <4>1, <3>1
      <3>2. CASE j # l.level
        <4>1. j + 1 \in 0 .. l.level /\ j \in 0 .. j + 1
          BY <1>1, <3>2
        <4>2. j + 1 \in 0 .. MaxLevel
          BY <1>1, <4>1
        <4>3. w[j + 1] \in NodesAt(l, j) /\ (w[j + 1] = Header \/ w[j + 1] < key)
          BY <1>3, <3>2, <4>1, <4>2, LastIsBelow
        <4> QED
          BY <3>2, <4>3
      <3> QED
        BY <3>1, <3>2
    <2> HIDE DEF from
    <2> QED
      BY <2>1, <2>2, WalkEnds
  <1>4. Solves(f)
    <2> SUFFICES ASSUME NEW j \in 0 .. l.level PROVE f[j] = Walk(l, key, j)[from(f, j)]
      OBVIOUS
    <2>1. j # l.level => IsLast(At(l, j + 1), key, f[j + 1])
      <3> SUFFICES ASSUME j # l.level PROVE IsLast(At(l, j + 1), key, f[j + 1])
        OBVIOUS
      <3>1. j + 1 \in 0 .. l.level
        BY <1>1
      <3> QED
        BY <3>1, <1>2
    <2> HIDE DEF f, from
    <2>2. IsLast(At(l, j), key, Walk(l, key, j)[from(f, j)])
      BY <2>1, <1>3
    <2> QED
      BY <2>2, <1>2 DEF f
  <1>5. Solves(CHOOSE w : Solves(w))
    <2> HIDE DEF Solves, f
    <2> QED
      BY <1>4
  <1>6. u = CHOOSE w : Solves(w)
    BY DEF Update
  <1>7. \A j \in 0 .. l.level : u[j] = Walk(l, key, j)[from(u, j)]
    <2>1. Solves(u)
      BY <1>5, <1>6
    <2> HIDE DEF u, from
    <2> QED
      BY <2>1
  <1> HIDE DEF u
  <1> DEFINE Bad == {j \in 0 .. l.level : ~IsLast(At(l, j), key, u[j])}
  <1>8. SUFFICES ASSUME Bad # {} PROVE FALSE
    BY DEF u
  <1>9. PICK g \in Bad : \A j \in Bad : j <= g
    <2>1. Bad \in SUBSET Nat
      BY <1>1
    <2>2. ASSUME NEW j \in Bad PROVE j <= l.level
      BY <1>1
    <2> HIDE DEF Bad
    <2> QED
      BY <1>1, <1>8, <2>1, <2>2, GreatestElement
  <1>10. g \in 0 .. l.level /\ ~IsLast(At(l, g), key, u[g])
    BY <1>9
  <1>11. g # l.level => IsLast(At(l, g + 1), key, u[g + 1])
    <2> SUFFICES ASSUME g # l.level PROVE IsLast(At(l, g + 1), key, u[g + 1])
      OBVIOUS
    <2>1. g + 1 \in 0 .. l.level /\ ~(g + 1 <= g)
      BY <1>1, <1>10
    <2>2. g + 1 \notin Bad
      BY <1>9, <2>1
    <2> QED
      BY <2>1, <2>2
  <1>12. u[g] = Walk(l, key, g)[from(u, g)]
    BY <1>7, <1>10
  <1> QED
    BY <1>3, <1>10, <1>11, <1>12

\* A key is found exactly when it is there.
LEMMA HasKeyIff ==
    ASSUME SkipListAssumption, NEW l, Shaped(l), NEW key \in Nat
    PROVE  HasKey(l, key) <=> key \in DOMAIN l.value
  <1> DEFINE S == At(l, 0)
             p == Update(l, key)[0]
             x == l.forward[p][0]
  <1>1. l.level \in Nat /\ 0 \in 0 .. MaxLevel /\ 0 \in 0 .. l.level /\ 0 \in 0 .. 0
    BY DEF Shaped, SkipListAssumption
  <1>2. S = DOMAIN l.value /\ S \in SUBSET Nat /\ Nil \notin Nat /\ Header \notin Nat
    BY <1>1, LevelFacts DEF SkipListAssumption
  <1>3. IsLast(S, key, p)
    BY <1>1, UpdateIsLast
  <1>4. p \in NodesAt(l, 0)
    BY <1>1, <1>3, LastIsBelow
  <1>5. IsNext(S, p, x)
    BY <1>1, <1>4 DEF Shaped
  <1>6. HasKey(l, key) <=> x # Nil /\ x = key
    BY DEF HasKey, Find
  <1> HIDE DEF S, p, x
  <1>7. ASSUME key \in S PROVE x = key
    <2>1. Before(p, key)
      BY <1>3 DEF IsLast, Before
    <2>2. x \in S /\ Before(p, x) /\ x <= key
      BY <1>5, <1>7, <2>1 DEF IsNext
    <2>3. ~(x < key)
      <3> SUFFICES ASSUME x < key PROVE FALSE
        OBVIOUS
      <3>1. p \in S /\ x <= p
        BY <1>3, <2>2 DEF IsLast
      <3>2. p < x /\ p \in Nat /\ x \in Nat
        BY <1>2, <2>2, <3>1 DEF Before
      <3> QED
        BY <3>1, <3>2
    <2> QED
      BY <1>2, <2>2, <2>3
  <1>8. ASSUME x # Nil, x = key PROVE key \in S
    BY <1>5, <1>8 DEF IsNext
  <1> QED
    BY <1>2, <1>6, <1>7, <1>8

-----------------------------------------------------------------------------
(* What the operations make of the list.                                   *)

MapWithout(f, k) == [x \in DOMAIN f \ {k} |-> f[x]]
MapWith(f, k, v) == [x \in DOMAIN f \cup {k} |-> IF x = k THEN v ELSE f[x]]

\* The greatest element of a set of levels.
LEMMA MaxOfLevels ==
    ASSUME NEW S \in SUBSET Nat, S # {}, NEW b \in Nat, \A m \in S : m <= b
    PROVE  Max(S) \in S /\ \A m \in S : m <= Max(S)
  <1>1. PICK g \in S : \A m \in S : m <= g
    BY GreatestElement
  <1>2. \A m \in S : g >= m
    BY <1>1
  <1>3. Max(S) \in S /\ \A m \in S : Max(S) >= m
    BY <1>2 DEF Max
  <1>4. ASSUME NEW m \in S PROVE m <= Max(S)
    <2>1. m \in Nat /\ Max(S) \in Nat /\ Max(S) >= m
      BY <1>3
    <2> QED
      BY <2>1
  <1> QED
    BY <1>3, <1>4

\* Unlinking a key: its predecessor takes over its pointer, every other pointer stays.
LEMMA UnlinkNext ==
    ASSUME SkipListAssumption, NEW S \in SUBSET Nat, NEW key \in Nat, NEW n \in S \cup {Header}, n # key,
           NEW y, IsNext(S, n, y), NEW x, key \in S => IsNext(S, key, x), NEW p, IsLast(S, key, p)
    PROVE  IsNext(S \ {key}, n, IF p = n /\ y = key THEN x ELSE y)
  <1>1. Nil \notin Nat /\ Header \notin Nat /\ Header # Nil
    BY DEF SkipListAssumption
  <1>2. CASE p = n /\ y = key
    <2>1. key \in S /\ IsNext(S, key, x) /\ Before(n, key)
      BY <1>1, <1>2 DEF IsNext
    <2>2. ASSUME NEW m \in S \ {key}, Before(n, m) PROVE Before(key, m)
      <3>1. key <= m /\ m \in Nat
        BY <1>2, <2>2 DEF IsNext
      <3> QED
        BY <3>1 DEF Before
    <2>3. ASSUME NEW m \in S, Before(key, m) PROVE Before(n, m)
      <3>1. m \in Nat /\ key < m
        BY <1>1, <2>3 DEF Before
      <3>2. n = Header \/ (n \in Nat /\ n < key)
        BY <2>1 DEF Before
      <3> QED
        BY <3>1, <3>2 DEF Before
    <2>4. CASE x = Nil
      <3>1. \A m \in S \ {key} : ~Before(n, m)
        BY <1>1, <2>1, <2>2, <2>4 DEF IsNext
      <3> QED
        BY <1>2, <2>4, <3>1 DEF IsNext
    <2>5. CASE x # Nil
      <3>1. x \in S /\ Before(key, x) /\ \A m \in S : Before(key, m) => x <= m
        BY <2>1, <2>5 DEF IsNext
      <3>2. x # key
        BY <1>1, <3>1 DEF Before
      <3>3. Before(n, x)
        BY <2>3, <3>1
      <3> QED
        BY <1>2, <2>2, <3>1, <3>2, <3>3 DEF IsNext
    <2> QED
      BY <2>4, <2>5
  <1>3. CASE ~(p = n /\ y = key)
    <2>1. y # key
      <3> SUFFICES ASSUME y = key PROVE p = n
        BY <1>3
      <3>1. key \in S /\ Before(n, key) /\ \A m \in S : Before(n, m) => key <= m
        BY <1>1, <1>3 DEF IsNext
      <3>2. \A m \in S : m < key => ~Before(n, m)
        <4> TAKE m \in S
        <4>1. m \in Nat
          OBVIOUS
        <4> QED
          BY <4>1, <3>1
      <3>3. CASE p = Header
        <4>1. CASE n = Header  BY <3>3, <4>1
        <4>2. CASE n # Header
          <5>1. n \in S /\ n < key
            BY <3>1, <4>2 DEF Before
          <5> QED
            BY <5>1, <3>3, <1>1 DEF IsLast
        <4> QED  BY <4>1, <4>2
      <3>4. CASE p # Header
        <4>1. p \in S /\ p < key /\ \A m \in S : m < key => m <= p
          BY <3>4 DEF IsLast
        <4>2. ~Before(n, p)
          BY <4>1, <3>2
        <4>3. n \in S /\ n < key
          BY <4>2, <3>1 DEF Before
        <4>4. n <= p /\ ~(n < p) /\ n \in Nat /\ p \in Nat
          BY <4>1, <4>2, <4>3 DEF Before
        <4> QED
          BY <4>4
      <3> QED
        BY <3>3, <3>4
    <2> QED
      BY <1>3, <2>1 DEF IsNext
  <1> QED
    BY <1>2, <1>3

\* delete_element takes the key out and leaves the list in shape.
LEMMA DeleteShaped ==
    ASSUME SkipListAssumption, NEW l, Shaped(l), NEW key \in Nat
    PROVE  /\ Shaped(delete_element_locked(l, key))
           /\ delete_element_locked(l, key).value = MapWithout(l.value, key)
  <1>1. CASE key \notin DOMAIN l.value
    <2>1. delete_element_locked(l, key) = l
      BY <1>1, HasKeyIff DEF delete_element_locked
    <2>2. DOMAIN l.value \ {key} = DOMAIN l.value
      BY <1>1
    <2>3. MapWithout(l.value, key) = l.value
      BY <2>2 DEF MapWithout, Shaped
    <2> QED
      BY <2>1, <2>3
  <1>2. CASE key \in DOMAIN l.value
    <2> DEFINE update == Update(l, key)
               linked(n, i) == i <= l.level /\ update[i] = n /\ l.forward[n][i] = key
               forward == [n \in DOMAIN l.forward \ {key} |-> [i \in DOMAIN l.forward[n] |->
                             IF linked(n, i) THEN l.forward[key][i] ELSE l.forward[n][i]]]
               value == [n \in DOMAIN l.value \ {key} |-> l.value[n]]
               d == delete_element_locked(l, key)
               level == ShrunkLevel(l, forward)
    <2>1. d = [forward |-> forward, value |-> value, level |-> level, count |-> l.count - 1]
      BY <1>2, HasKeyIff DEF delete_element_locked
    <2>2. /\ MaxLevel \in Nat /\ Header \notin Nat /\ Nil \notin Nat /\ Header # Nil
          /\ DOMAIN l.value \subseteq Nat /\ IsFiniteSet(DOMAIN l.value)
          /\ DOMAIN l.forward = DOMAIN l.value \cup {Header}
          /\ l.level \in 0 .. MaxLevel /\ DOMAIN l.forward[Header] = 0 .. MaxLevel
          /\ \A k \in DOMAIN l.value : \E h \in 0 .. l.level : DOMAIN l.forward[k] = 0 .. h
      BY DEF Shaped, SkipListAssumption
    <2>3. /\ d.forward = forward /\ d.value = value /\ d.level = level /\ d.count = l.count - 1
          /\ DOMAIN value = DOMAIN l.value \ {key} /\ DOMAIN forward = DOMAIN value \cup {Header}
      BY <2>1, <2>2
    <2>4. \A n \in DOMAIN forward : DOMAIN forward[n] = DOMAIN l.forward[n]
      OBVIOUS
    <2>5. \A n \in DOMAIN forward : \A i \in DOMAIN l.forward[n] :
            forward[n][i] = IF linked(n, i) THEN l.forward[key][i] ELSE l.forward[n][i]
      OBVIOUS
    <2> HIDE DEF forward, d, update
    <2>6. \A i \in 0 .. MaxLevel : At(d, i) = At(l, i) \ {key} /\ NodesAt(d, i) = At(d, i) \cup {Header}
      <3> TAKE i \in 0 .. MaxLevel
      <3>1. At(d, i) = At(l, i) \ {key}
        BY <2>3, <2>4 DEF At
      <3>2. NodesAt(d, i) = At(d, i) \cup {Header}
        <4>1. Header \in DOMAIN forward /\ DOMAIN forward[Header] = 0 .. MaxLevel
          BY <2>2, <2>3, <2>4
        <4> QED
          BY <2>3, <4>1 DEF At, NodesAt
      <3> QED
        BY <3>1, <3>2
    <2>7. ASSUME NEW i \in 0 .. MaxLevel, NEW n \in NodesAt(d, i) PROVE IsNext(At(d, i), n, forward[n][i])
      <3>1. /\ At(l, i) \in SUBSET Nat /\ NodesAt(l, i) = At(l, i) \cup {Header}
            /\ l.level \in Nat /\ (l.level < i => At(l, i) = {})
        BY LevelFacts
      <3>2. n \in At(l, i) \cup {Header} /\ n # key /\ n \in DOMAIN forward /\ i \in DOMAIN l.forward[n]
        BY <2>2, <2>3, <2>4, <2>6, <2>7 DEF NodesAt
      <3>3. IsNext(At(l, i), n, l.forward[n][i])
        BY <3>1, <3>2 DEF Shaped
      <3>4. key \in At(l, i) => IsNext(At(l, i), key, l.forward[key][i])
        BY <3>1 DEF Shaped
      <3>5. forward[n][i] = IF linked(n, i) THEN l.forward[key][i] ELSE l.forward[n][i]
        BY <2>5, <3>2
      <3>6. CASE i <= l.level
        <4>1. IsLast(At(l, i), key, update[i])
          <5>1. i \in 0 .. l.level
            BY <3>1, <3>6
          <5> QED
            BY <5>1, UpdateIsLast DEF update
        <4>2. IsNext(At(l, i) \ {key}, n,
                IF update[i] = n /\ l.forward[n][i] = key THEN l.forward[key][i] ELSE l.forward[n][i])
          BY <3>1, <3>2, <3>3, <3>4, <4>1, UnlinkNext
        <4> QED
          BY <2>6, <3>5, <3>6, <4>2
      <3>7. CASE ~(i <= l.level)
        <4>1. At(l, i) = {} /\ At(d, i) = {}
          BY <2>6, <3>1, <3>7
        <4> QED
          BY <2>6, <3>3, <3>5, <3>7, <4>1 DEF IsNext
      <3> QED
        BY <3>6, <3>7
    <2>8. DOMAIN value \subseteq Nat /\ IsFiniteSet(DOMAIN value) /\ d.count = Cardinality(DOMAIN value)
      BY <1>2, <2>2, <2>3, FS_RemoveElement DEF Shaped
    <2>9. DOMAIN d.forward[Header] = 0 .. MaxLevel
      BY <2>2, <2>3, <2>4
    <2> DEFINE inUse == {0} \cup {i \in 0 .. l.level : forward[Header][i] # Nil}
    <2>10. level = Max(inUse)
      BY DEF ShrunkLevel
    <2>11. level \in inUse /\ \A i \in inUse : i <= level
      <3>1. inUse \in SUBSET Nat /\ inUse # {} /\ l.level \in Nat
        BY <2>2
      <3>2. ASSUME NEW i \in inUse PROVE i <= l.level
        BY <2>2
      <3> HIDE DEF inUse, level
      <3> QED
        BY <2>10, <3>1, <3>2, MaxOfLevels
    <2> HIDE DEF level, value
    <2>12. level \in 0 .. l.level /\ level \in 0 .. MaxLevel
      BY <2>2, <2>11
    <2>13. \A i \in 0 .. l.level : At(d, i) # {} => i <= level
      <3> TAKE i \in 0 .. l.level
      <3> SUFFICES ASSUME At(d, i) # {} PROVE i <= level
        OBVIOUS
      <3>1. i \in 0 .. MaxLevel
        BY <2>2
      <3>2. IsNext(At(d, i), Header, forward[Header][i])
        BY <2>6, <2>7, <3>1
      <3>3. forward[Header][i] # Nil
        <4>1. At(d, i) \in SUBSET Nat
          BY <2>6, <3>1, LevelFacts
        <4> QED
          BY <3>2, <4>1, <2>2 DEF IsNext, Before
      <3> QED
        BY <2>11, <3>3
    <2>14. level > 0 => At(d, level) # {}
      <3> SUFFICES ASSUME level > 0 PROVE At(d, level) # {}
        OBVIOUS
      <3>1. forward[Header][level] # Nil
        BY <2>11, <2>12
      <3>2. IsNext(At(d, level), Header, forward[Header][level])
        BY <2>6, <2>7, <2>12
      <3> QED
        BY <3>1, <3>2 DEF IsNext
    <2>15. ASSUME NEW k \in DOMAIN value PROVE \E h \in 0 .. level : DOMAIN d.forward[k] = 0 .. h
      <3>1. k \in DOMAIN l.value /\ k \in DOMAIN forward
        BY <2>3
      <3>2. PICK h \in 0 .. l.level : DOMAIN l.forward[k] = 0 .. h
        BY <2>2, <3>1
      <3>3. DOMAIN d.forward[k] = 0 .. h
        BY <2>3, <2>4, <3>1, <3>2
      <3>4. k \in At(d, h)
        BY <2>3, <3>2, <3>3 DEF At
      <3>5. h <= level
        BY <2>13, <3>4
      <3>6. h \in 0 .. level
        BY <2>12, <3>5
      <3> QED
        BY <3>3, <3>6
    <2>16. value = [k \in DOMAIN value |-> value[k]]
      BY DEF value
    <2>17. Shaped(d)
      BY <2>3, <2>7, <2>8, <2>9, <2>12, <2>14, <2>15, <2>16 DEF Shaped
    <2> QED
      BY <2>3, <2>17 DEF d, value, MapWithout
  <1> QED
    BY <1>1, <1>2

\* Linking a key: its predecessor points to it, and it takes over its predecessor's pointer.
LEMMA LinkNext ==
    ASSUME SkipListAssumption, NEW S \in SUBSET Nat, NEW key \in Nat, key \notin S,
           NEW p, IsLast(S, key, p), NEW z, IsNext(S, p, z)
    PROVE  /\ IsNext(S \cup {key}, key, z)
           /\ \A n \in S \cup {Header} : \A y :
                IsNext(S, n, y) => IsNext(S \cup {key}, n, IF n = p THEN key ELSE y)
  <1>1. Nil \notin Nat /\ Header \notin Nat /\ Header # Nil
    BY DEF SkipListAssumption
  <1>2. ASSUME NEW m \in S PROVE Before(p, m) <=> key < m
    <2>1. m \in Nat /\ m # key
      OBVIOUS
    <2>2. ASSUME key < m PROVE Before(p, m)
      <3>1. CASE p = Header  BY <3>1 DEF Before
      <3>2. CASE p # Header
        <4>1. p \in S /\ p < key
          BY <3>2 DEF IsLast
        <4> QED  BY <4>1, <2>1, <2>2 DEF Before
      <3> QED  BY <3>1, <3>2
    <2>3. ASSUME Before(p, m) PROVE key < m
      <3> SUFFICES ASSUME m < key PROVE FALSE
        BY <2>1
      <3>1. p # Header
        BY <1>1 DEF IsLast
      <3>2. p \in S /\ m <= p
        BY <3>1 DEF IsLast
      <3>3. p < m
        BY <2>3, <3>1 DEF Before
      <3> QED
        BY <2>1, <3>2, <3>3
    <2> QED
      BY <2>2, <2>3
  <1>3. IsNext(S \cup {key}, key, z)
    <2>1. \A m \in S \cup {key} : Before(key, m) => m \in S /\ Before(p, m)
      BY <1>1, <1>2 DEF Before
    <2>2. z \in S /\ Before(p, z) => Before(key, z)
      BY <1>2 DEF Before
    <2> QED
      BY <2>1, <2>2 DEF IsNext
  <1>4. ASSUME NEW n \in S \cup {Header}, NEW y, IsNext(S, n, y)
        PROVE  IsNext(S \cup {key}, n, IF n = p THEN key ELSE y)
    <2>1. CASE n = p
      <3>1. Before(n, key)
        BY <2>1 DEF IsLast, Before
      <3>2. \A m \in S : Before(n, m) => key <= m
        <4> TAKE m \in S
        <4>1. m \in Nat
          OBVIOUS
        <4> QED
          BY <4>1, <1>2, <2>1
      <3>3. \A m \in S \cup {key} : Before(n, m) => key <= m
        BY <3>2
      <3> QED
        BY <2>1, <3>1, <3>3 DEF IsNext
    <2>2. CASE n # p
      <3>1. Before(n, key) => y # Nil /\ y <= key
        <4> SUFFICES ASSUME Before(n, key) PROVE y # Nil /\ y <= key
          OBVIOUS
        <4>1. p \in S /\ p < key /\ Before(n, p)
          <5>1. CASE n = Header
            <6>1. p # Header  BY <2>2, <5>1
            <6> QED  BY <5>1, <6>1 DEF IsLast, Before
          <5>2. CASE n # Header
            <6>1. n \in S /\ n < key
              BY <5>2 DEF Before
            <6>2. p \in S /\ p < key /\ n <= p
              BY <6>1, <1>1 DEF IsLast
            <6>3. n < p
              BY <6>1, <6>2, <2>2
            <6> QED  BY <6>2, <6>3 DEF Before
          <5> QED  BY <5>1, <5>2
        <4>2. y \in S /\ y <= p
          BY <1>4, <4>1 DEF IsNext
        <4>3. y \in Nat /\ p \in Nat
          BY <4>1, <4>2
        <4> QED
          BY <1>1, <4>1, <4>2, <4>3
      <3> QED
        BY <1>4, <2>2, <3>1 DEF IsNext
    <2> QED
      BY <2>1, <2>2
  <1> QED
    BY <1>3, <1>4

\* insert_element adds a key that is not there and leaves the list in shape.
LEMMA InsertShaped ==
    ASSUME SkipListAssumption, NEW l, Shaped(l), NEW key \in Nat, key \notin DOMAIN l.value,
           NEW v, NEW randomLevel \in Levels
    PROVE  /\ Shaped(insert_element_locked(l, key, v, randomLevel))
           /\ insert_element_locked(l, key, v, randomLevel).value = MapWith(l.value, key, v)
  <1> DEFINE found == Update(l, key)
             update(i) == IF i <= l.level THEN found[i] ELSE Header
             node == [i \in 0 .. randomLevel |-> l.forward[update(i)][i]]
             forward == [n \in DOMAIN l.forward \cup {key} |->
                            IF n = key THEN node
                            ELSE [i \in DOMAIN l.forward[n] |->
                                    IF i <= randomLevel /\ update(i) = n THEN key ELSE l.forward[n][i]]]
             value == [n \in DOMAIN l.value \cup {key} |-> IF n = key THEN v ELSE l.value[n]]
             d == insert_element_locked(l, key, v, randomLevel)
             level == Max({l.level, randomLevel})
  <1>1. d = [forward |-> forward, value |-> value, level |-> level, count |-> l.count + 1]
    BY HasKeyIff DEF insert_element_locked
  <1>2. /\ MaxLevel \in Nat /\ Header \notin Nat /\ Nil \notin Nat /\ Header # Nil
        /\ DOMAIN l.value \subseteq Nat /\ IsFiniteSet(DOMAIN l.value)
        /\ DOMAIN l.forward = DOMAIN l.value \cup {Header}
        /\ l.level \in 0 .. MaxLevel /\ DOMAIN l.forward[Header] = 0 .. MaxLevel
        /\ randomLevel \in 1 .. MaxLevel
        /\ \A k \in DOMAIN l.value : \E h \in 0 .. l.level : DOMAIN l.forward[k] = 0 .. h
    BY DEF Shaped, SkipListAssumption, Levels
  <1>3. /\ d.forward = forward /\ d.value = value /\ d.level = level /\ d.count = l.count + 1
        /\ DOMAIN value = DOMAIN l.value \cup {key} /\ DOMAIN forward = DOMAIN value \cup {Header}
    BY <1>1, <1>2
  <1>4. /\ key # Header /\ forward[key] = node /\ DOMAIN node = 0 .. randomLevel
        /\ \A n \in DOMAIN l.forward : n # key /\ DOMAIN forward[n] = DOMAIN l.forward[n]
    BY <1>2
  <1>5. \A n \in DOMAIN l.forward : \A i \in DOMAIN l.forward[n] :
            forward[n][i] = IF i <= randomLevel /\ update(i) = n THEN key ELSE l.forward[n][i]
    BY <1>4
  <1>6. \A i \in 0 .. randomLevel : forward[key][i] = l.forward[update(i)][i]
    BY <1>4
  <1> HIDE DEF forward, node, d, found
  <1>7. ASSUME NEW i \in 0 .. MaxLevel
        PROVE  /\ At(d, i) = IF i <= randomLevel THEN At(l, i) \cup {key} ELSE At(l, i)
               /\ NodesAt(d, i) = At(d, i) \cup {Header}
    <2>1. At(d, i) = IF i <= randomLevel THEN At(l, i) \cup {key} ELSE At(l, i)
      <3>1. i \in DOMAIN forward[key] <=> i <= randomLevel
        BY <1>2, <1>4
      <3> QED
        BY <1>2, <1>3, <1>4, <3>1 DEF At
    <2>2. NodesAt(d, i) = At(d, i) \cup {Header}
      <3>1. Header \in DOMAIN forward /\ DOMAIN forward[Header] = 0 .. MaxLevel
        BY <1>2, <1>3, <1>4
      <3> QED
        BY <1>3, <3>1 DEF At, NodesAt
    <2> QED
      BY <2>1, <2>2
  <1>8. ASSUME NEW i \in 0 .. MaxLevel, NEW n \in NodesAt(d, i) PROVE IsNext(At(d, i), n, forward[n][i])
    <2>1. /\ At(l, i) \in SUBSET Nat /\ NodesAt(l, i) = At(l, i) \cup {Header}
          /\ l.level \in Nat /\ (l.level < i => At(l, i) = {}) /\ key \notin At(l, i)
      BY LevelFacts DEF At
    <2>2. ASSUME NEW m \in NodesAt(l, i) PROVE IsNext(At(l, i), m, l.forward[m][i])
      BY <2>2 DEF Shaped
    <2>3. IsLast(At(l, i), key, update(i))
      <3>1. CASE i <= l.level
        <4>1. i \in 0 .. l.level
          BY <2>1, <3>1
        <4>2. IsLast(At(l, i), key, found[i])
          BY <4>1, UpdateIsLast DEF found
        <4> QED
          BY <4>2, <3>1
      <3>2. CASE ~(i <= l.level)
        <4>1. At(l, i) = {}
          BY <2>1, <3>2
        <4> QED
          BY <4>1, <3>2 DEF IsLast
      <3> QED
        BY <3>1, <3>2
    <2>4. update(i) \in NodesAt(l, i)
      BY <2>1, <2>3 DEF IsLast
    <2> HIDE DEF update
    <2>5. CASE i <= randomLevel
      <3> DEFINE z == l.forward[update(i)][i]
      <3>1. IsNext(At(l, i), update(i), z)
        BY <2>2, <2>4
      <3> HIDE DEF z
      <3>2. /\ IsNext(At(l, i) \cup {key}, key, z)
            /\ \A m \in At(l, i) \cup {Header} : \A y :
                 IsNext(At(l, i), m, y) => IsNext(At(l, i) \cup {key}, m, IF m = update(i) THEN key ELSE y)
        BY <2>1, <2>3, <3>1, LinkNext
      <3>3. At(d, i) = At(l, i) \cup {key}
        BY <1>7, <2>5
      <3>4. CASE n = key
        <4>1. i \in 0 .. randomLevel
          BY <1>2, <2>5
        <4>2. forward[n][i] = z
          BY <1>6, <3>4, <4>1 DEF z
        <4> QED
          BY <3>2, <3>3, <3>4, <4>2
      <3>5. CASE n # key
        <4>1. n \in At(l, i) \cup {Header} /\ n \in NodesAt(l, i)
          BY <1>7, <2>1, <3>3, <3>5
        <4>2. n \in DOMAIN l.forward /\ i \in DOMAIN l.forward[n]
          BY <4>1 DEF NodesAt
        <4>3. forward[n][i] = IF n = update(i) THEN key ELSE l.forward[n][i]
          BY <1>5, <2>5, <4>2
        <4>4. IsNext(At(l, i), n, l.forward[n][i])
          BY <2>2, <4>1
        <4> QED
          BY <3>2, <3>3, <4>1, <4>3, <4>4
      <3> QED
        BY <3>4, <3>5
    <2>6. CASE ~(i <= randomLevel)
      <3>1. At(d, i) = At(l, i) /\ n \in NodesAt(l, i)
        BY <1>7, <2>1, <2>6
      <3>2. n \in DOMAIN l.forward /\ i \in DOMAIN l.forward[n]
        BY <3>1 DEF NodesAt
      <3>3. forward[n][i] = l.forward[n][i]
        BY <1>5, <2>6, <3>2
      <3> QED
        BY <2>2, <3>1, <3>3
    <2> QED
      BY <2>5, <2>6
  <1>9. DOMAIN value \subseteq Nat /\ IsFiniteSet(DOMAIN value) /\ d.count = Cardinality(DOMAIN value)
    BY <1>2, <1>3, FS_AddElement DEF Shaped
  <1>10. DOMAIN d.forward[Header] = 0 .. MaxLevel
    BY <1>2, <1>3, <1>4
  <1>11. level \in {l.level, randomLevel} /\ l.level <= level /\ randomLevel <= level
    <2> DEFINE S == {l.level, randomLevel}
    <2>1. S \in SUBSET Nat /\ S # {} /\ \A m \in S : m <= MaxLevel
      BY <1>2
    <2> HIDE DEF S
    <2>2. Max(S) \in S /\ \A m \in S : m <= Max(S)
      BY <1>2, <2>1, MaxOfLevels
    <2> QED
      BY <2>2 DEF S
  <1> HIDE DEF level, value
  <1>12. level \in 0 .. MaxLevel /\ level \in Nat
    BY <1>2, <1>11
  <1>13. At(d, level) # {}
    <2>1. CASE level <= randomLevel
      BY <1>7, <1>12, <2>1
    <2>2. CASE ~(level <= randomLevel)
      <3>1. level = l.level /\ l.level > 0
        BY <1>2, <1>11, <2>2
      <3>2. At(l, level) # {}
        BY <3>1 DEF Shaped
      <3> QED
        BY <1>7, <1>12, <2>2, <3>2
    <2> QED
      BY <2>1, <2>2
  <1>14. ASSUME NEW k \in DOMAIN value PROVE \E h \in 0 .. level : DOMAIN d.forward[k] = 0 .. h
    <2>1. CASE k = key
      <3>1. randomLevel \in 0 .. level
        BY <1>2, <1>11, <1>12
      <3> QED
        BY <1>3, <1>4, <2>1, <3>1
    <2>2. CASE k # key
      <3>1. k \in DOMAIN l.value /\ k \in DOMAIN l.forward
        BY <1>2, <1>3, <2>2
      <3>2. PICK h \in 0 .. l.level : DOMAIN l.forward[k] = 0 .. h
        BY <1>2, <3>1
      <3>3. h \in 0 .. level
        BY <1>2, <1>11, <1>12
      <3> QED
        BY <1>3, <1>4, <3>1, <3>2, <3>3
    <2> QED
      BY <2>1, <2>2
  <1>15. value = [k \in DOMAIN value |-> value[k]]
    BY DEF value
  <1>16. Shaped(d)
    BY <1>3, <1>8, <1>9, <1>10, <1>12, <1>13, <1>14, <1>15 DEF Shaped
  <1> QED
    BY <1>3, <1>16 DEF d, value, MapWith

\* insert_set_element is an insert after a delete.
LEMMA SetShaped ==
    ASSUME SkipListAssumption, NEW l, Shaped(l), NEW key \in Nat, NEW v, NEW randomLevel \in Levels
    PROVE  /\ Shaped(insert_set_element(l, key, v, randomLevel))
           /\ insert_set_element(l, key, v, randomLevel).value = MapWith(l.value, key, v)
  <1> DEFINE d == delete_element_locked(l, key)
  <1>1. Shaped(d) /\ d.value = MapWithout(l.value, key)
    BY DeleteShaped
  <1>2. DOMAIN d.value = DOMAIN l.value \ {key}
    BY <1>1 DEF MapWithout
  <1>3. insert_set_element(l, key, v, randomLevel) = insert_element_locked(d, key, v, randomLevel)
    BY DEF insert_set_element
  <1> HIDE DEF d
  <1>4. /\ Shaped(insert_element_locked(d, key, v, randomLevel))
        /\ insert_element_locked(d, key, v, randomLevel).value = MapWith(d.value, key, v)
    BY <1>1, <1>2, InsertShaped
  <1>5. MapWith(d.value, key, v) = MapWith(l.value, key, v)
    BY <1>1 DEF MapWith, MapWithout
  <1> QED
    BY <1>3, <1>4, <1>5

\* search_element returns the value of a key that is there.
LEMMA SearchFinds ==
    ASSUME SkipListAssumption, NEW l, Shaped(l), NEW key \in Nat
    PROVE  search_element(l, key) = IF key \in DOMAIN l.value THEN l.value[key] ELSE Nil
  BY HasKeyIff DEF search_element

-----------------------------------------------------------------------------
(* Sorted sequences.                                                       *)

\* s holds the numbers of S in ascending order.
InOrder(s, S) ==
    /\ s \in Seq(Nat) /\ {s[i] : i \in 1 .. Len(s)} = S
    /\ \A i, j \in 1 .. Len(s) : i < j => s[i] < s[j]

\* A smaller number in front.
LEMMA PrependSorted ==
    ASSUME NEW t, NEW T, InOrder(t, T), NEW n \in Nat, \A m \in T : n < m
    PROVE  InOrder(<<n>> \o t, {n} \cup T)
  <1> DEFINE s == <<n>> \o t
  <1>1. t \in Seq(Nat) /\ Len(t) \in Nat /\ \A i \in 1 .. Len(t) : t[i] \in T /\ t[i] \in Nat
    BY LenProperties, ElementOfSeq DEF InOrder
  <1>2. <<n>> \in Seq(Nat) /\ Len(<<n>>) = 1 /\ <<n>>[1] = n
    OBVIOUS
  <1>3. /\ s \in Seq(Nat) /\ Len(s) = 1 + Len(t)
        /\ \A i \in 1 .. Len(s) : s[i] = IF i <= 1 THEN n ELSE t[i - 1]
    BY <1>1, <1>2, ConcatProperties
  <1> HIDE DEF s
  <1>4. s[1] = n /\ \A i \in 1 .. Len(t) : i + 1 \in 1 .. Len(s) /\ s[i + 1] = t[i]
    BY <1>1, <1>3
  <1>5. \A i \in 1 .. Len(s) : i = 1 \/ (i - 1 \in 1 .. Len(t) /\ s[i] = t[i - 1])
    BY <1>1, <1>3
  <1>6. {s[i] : i \in 1 .. Len(s)} = {n} \cup T
    <2>1. ASSUME NEW i \in 1 .. Len(s) PROVE s[i] \in {n} \cup T
      BY <1>1, <1>4, <1>5
    <2>2. ASSUME NEW m \in {n} \cup T PROVE \E i \in 1 .. Len(s) : s[i] = m
      <3>1. CASE m = n
        <4>1. 1 \in 1 .. Len(s)
          BY <1>1, <1>3
        <4> QED
          BY <3>1, <4>1, <1>4
      <3>2. CASE m # n
        <4>1. PICK i \in 1 .. Len(t) : t[i] = m
          BY <2>2, <3>2 DEF InOrder
        <4> QED
          BY <4>1, <1>4
      <3> QED
        BY <3>1, <3>2
    <2> QED
      BY <2>1, <2>2
  <1>7. ASSUME NEW i \in 1 .. Len(s), NEW j \in 1 .. Len(s), i < j PROVE s[i] < s[j]
    <2>1. j - 1 \in 1 .. Len(t) /\ s[j] = t[j - 1]
      BY <1>5, <1>7
    <2>2. CASE i = 1
      BY <1>1, <1>4, <2>1, <2>2
    <2>3. CASE i # 1
      <3>1. i - 1 \in 1 .. Len(t) /\ s[i] = t[i - 1] /\ i - 1 < j - 1
        BY <1>5, <1>7, <2>3
      <3> QED
        BY <2>1, <3>1 DEF InOrder
    <2> QED
      BY <2>2, <2>3
  <1> QED
    BY <1>3, <1>6, <1>7 DEF InOrder, s

\* Every finite set of naturals can be sorted.
LEMMA SortedExists ==
    ASSUME NEW S \in SUBSET Nat, IsFiniteSet(S)
    PROVE  \E s : InOrder(s, S)
  <1> DEFINE Bad == {c \in Nat : \E F \in SUBSET Nat : IsFiniteSet(F) /\ Cardinality(F) = c
                                                       /\ ~\E s : InOrder(s, F)}
  <1>1. SUFFICES ASSUME Bad # {} PROVE FALSE
    BY FS_CardinalityType
  <1>2. PICK c \in Bad : \A d \in Bad : c <= d
    BY <1>1, LeastElement
  <1>3. PICK F \in SUBSET Nat : IsFiniteSet(F) /\ Cardinality(F) = c /\ ~\E s : InOrder(s, F)
    BY <1>2
  <1>4. F # {}
    <2>1. InOrder(<<>>, {})
      <3>1. <<>> \in Seq(Nat) /\ Len(<<>>) = 0
        BY EmptySeq
      <3> QED
        BY <3>1 DEF InOrder
    <2> QED
      BY <1>3, <2>1
  <1>5. PICK x \in F : \A m \in F : x <= m
    BY <1>4, LeastElement
  <1> DEFINE T == F \ {x}
  <1>6. IsFiniteSet(T) /\ Cardinality(T) = c - 1 /\ c \in Nat
    BY <1>2, <1>3, <1>5, FS_RemoveElement
  <1>7. c - 1 \in Nat
    BY <1>6, FS_CardinalityType
  <1>8. \E s : InOrder(s, T)
    <2>1. c - 1 \notin Bad
      BY <1>2, <1>6, <1>7
    <2> QED
      BY <1>6, <1>7, <2>1
  <1>9. PICK s : InOrder(s, T)
    BY <1>8
  <1>10. x \in Nat /\ \A m \in T : x < m
    <2>1. x \in Nat /\ \A m \in T : m \in Nat /\ x <= m /\ x # m
      BY <1>3, <1>5
    <2> QED
      BY <2>1
  <1>11. {x} \cup T = F
    BY <1>5
  <1> HIDE DEF T
  <1>12. InOrder(<<x>> \o s, F)
    BY <1>9, <1>10, <1>11, PrependSorted
  <1> QED
    BY <1>3, <1>12

\* Of two sorted sequences of a set, one entry cannot be before the other's first difference.
LEMMA SortedPrefix ==
    ASSUME NEW S, NEW s, NEW t, InOrder(s, S), InOrder(t, S), NEW i \in 1 .. Len(s)
    PROVE  i <= Len(t) /\ s[i] = t[i]
  <1>1. /\ s \in Seq(Nat) /\ t \in Seq(Nat) /\ Len(s) \in Nat /\ Len(t) \in Nat
        /\ \A j \in 1 .. Len(s) : s[j] \in Nat /\ s[j] \in S
        /\ \A j \in 1 .. Len(t) : t[j] \in Nat /\ t[j] \in S
    BY LenProperties, ElementOfSeq DEF InOrder
  <1>2. /\ \A x \in S : \E j \in 1 .. Len(s) : s[j] = x
        /\ \A x \in S : \E j \in 1 .. Len(t) : t[j] = x
        /\ \A j, k \in 1 .. Len(s) : j < k => s[j] < s[k]
        /\ \A j, k \in 1 .. Len(t) : j < k => t[j] < t[k]
    BY DEF InOrder
  <1> DEFINE Same(j) == j <= Len(t) /\ s[j] = t[j]
             Bad == {j \in 1 .. Len(s) : ~Same(j)}
  <1>3. SUFFICES ASSUME Bad # {} PROVE FALSE
    OBVIOUS
  <1>4. Bad \in SUBSET Nat
    BY <1>1
  <1>5. PICK j \in Bad : \A k \in Bad : j <= k
    <2> HIDE DEF Bad
    <2> QED
      BY <1>3, <1>4, LeastElement
  <1>6. j \in 1 .. Len(s) /\ j \in Nat /\ ~Same(j)
    BY <1>4, <1>5
  <1>7. \A k \in 1 .. j - 1 : k \in 1 .. Len(s) /\ k \in 1 .. Len(t) /\ s[k] = t[k]
    <2> TAKE k \in 1 .. j - 1
    <2>1. k \in 1 .. Len(s) /\ ~(j <= k)
      BY <1>1, <1>6
    <2>2. k \notin Bad
      BY <1>5, <2>1
    <2> QED
      BY <1>1, <2>1, <2>2
  <1>8. PICK p \in 1 .. Len(t) : t[p] = s[j]
    BY <1>1, <1>2, <1>6
  <1>9. ~(p < j)
    <2> SUFFICES ASSUME p < j PROVE FALSE
      OBVIOUS
    <2>1. p \in 1 .. j - 1
      BY <1>1, <1>6
    <2>2. s[p] = s[j] /\ s[p] < s[j] /\ s[j] \in Nat
      BY <1>1, <1>2, <1>6, <1>7, <1>8, <2>1
    <2> QED
      BY <2>2
  <1>10. p # j
    BY <1>1, <1>6, <1>8
  <1>11. j < p /\ j \in 1 .. Len(t)
    BY <1>1, <1>6, <1>9, <1>10
  <1>12. t[j] < s[j]
    BY <1>2, <1>8, <1>11
  <1>13. PICK q \in 1 .. Len(s) : s[q] = t[j]
    BY <1>1, <1>2, <1>11
  <1>14. CASE q < j
    <2>1. q \in 1 .. j - 1
      BY <1>1, <1>6, <1>14
    <2>2. t[q] = t[j] /\ t[q] < t[j] /\ t[j] \in Nat
      BY <1>1, <1>2, <1>7, <1>11, <1>13, <1>14, <2>1
    <2> QED
      BY <2>2
  <1>15. CASE q = j
    BY <1>1, <1>6, <1>12, <1>13, <1>15
  <1>16. CASE j < q
    <2>1. s[j] < s[q] /\ s[j] \in Nat /\ s[q] \in Nat
      BY <1>1, <1>2, <1>6, <1>16
    <2> QED
      BY <2>1, <1>12, <1>13
  <1> QED
    BY <1>1, <1>6, <1>14, <1>15, <1>16

LEMMA SortedUnique ==
    ASSUME NEW S, NEW s, NEW t, InOrder(s, S), InOrder(t, S)
    PROVE  s = t
  <1>1. s \in Seq(Nat) /\ t \in Seq(Nat) /\ Len(s) \in Nat /\ Len(t) \in Nat
    BY LenProperties DEF InOrder
  <1>2. \A i \in 1 .. Len(s) : i <= Len(t) /\ s[i] = t[i]
    BY SortedPrefix
  <1>3. \A i \in 1 .. Len(t) : i <= Len(s)
    BY SortedPrefix
  <1>4. Len(s) <= Len(t)
    <2>1. CASE Len(s) = 0  BY <1>1, <2>1
    <2>2. CASE Len(s) # 0
      <3>1. Len(s) \in 1 .. Len(s)  BY <1>1, <2>2
      <3> QED  BY <3>1, <1>2
    <2> QED  BY <2>1, <2>2
  <1>5. Len(t) <= Len(s)
    <2>1. CASE Len(t) = 0  BY <1>1, <2>1
    <2>2. CASE Len(t) # 0
      <3>1. Len(t) \in 1 .. Len(t)  BY <1>1, <2>2
      <3> QED  BY <3>1, <1>3
    <2> QED  BY <2>1, <2>2
  <1>6. Len(s) = Len(t)
    BY <1>1, <1>4, <1>5
  <1> QED
    BY <1>1, <1>2, <1>6, SeqEqual

-----------------------------------------------------------------------------
(* What the levels hold, and what a snapshot of them gives back.           *)

\* The keys of the level that the walk from node n on still has to list.
From(l, i, n) ==
    IF n = Nil THEN {} ELSE {m \in At(l, i) : n = Header \/ n <= m}

\* A node lists itself, and then what the node after it lists.
LEMMA FromNext ==
    ASSUME SkipListAssumption, NEW l, Shaped(l), NEW i \in 0 .. MaxLevel, NEW n \in NodesAt(l, i)
    PROVE  /\ l.forward[n][i] \in At(l, i) \cup {Nil} /\ n # Nil
           /\ n = Header => From(l, i, n) = From(l, i, l.forward[n][i])
           /\ n # Header => /\ n \in Nat /\ n \in At(l, i)
                            /\ From(l, i, n) = {n} \cup From(l, i, l.forward[n][i])
                            /\ \A m \in From(l, i, l.forward[n][i]) : n < m
                            /\ l.forward[n][i] # Nil => n < l.forward[n][i]
  <1> DEFINE S == At(l, i)
             x == l.forward[n][i]
  <1>1. /\ S \in SUBSET Nat /\ NodesAt(l, i) = S \cup {Header} /\ Header \notin Nat /\ Nil \notin Nat
        /\ Header # Nil /\ IsNext(S, n, x)
    BY LevelFacts DEF Shaped, SkipListAssumption
  <1> HIDE DEF S, x
  <1>2. x \in S \cup {Nil} /\ n # Nil /\ x # Header
    BY <1>1 DEF IsNext
  <1>3. CASE n = Header
    <2>1. From(l, i, n) = S
      BY <1>1, <1>3 DEF From, S
    <2>2. From(l, i, x) = S
      <3>1. CASE x = Nil
        <4>1. S = {}
          BY <1>1, <1>3, <3>1 DEF IsNext, Before
        <4> QED
          BY <3>1, <4>1 DEF From
      <3>2. CASE x # Nil
        <4>1. \A m \in S : x <= m
          BY <1>1, <1>3, <3>2 DEF IsNext, Before
        <4> QED
          BY <3>2, <4>1 DEF From, S
      <3> QED
        BY <3>1, <3>2
    <2> QED
      BY <1>2, <1>3, <2>1, <2>2 DEF S, x
  <1>4. CASE n # Header
    <2>1. n \in S /\ n \in Nat /\ n # Nil
      BY <1>1, <1>4
    <2>2. From(l, i, n) = {m \in S : n <= m}
      BY <1>4, <2>1 DEF From, S
    <2>3. CASE x = Nil
      <3>1. \A m \in S : ~(n < m)
        BY <1>1, <2>3 DEF IsNext, Before
      <3>2. From(l, i, x) = {}
        BY <2>3 DEF From
      <3>3. \A m \in S : n <= m <=> m = n
        <4> TAKE m \in S
        <4>1. m \in Nat  BY <1>1
        <4> QED  BY <4>1, <2>1, <3>1
      <3>4. From(l, i, n) = {n}
        BY <2>1, <2>2, <3>3
      <3> QED
        BY <1>2, <1>4, <2>1, <2>3, <3>2, <3>4 DEF S, x
    <2>4. CASE x # Nil
      <3>1. x \in S /\ n < x /\ x \in Nat /\ \A m \in S : n < m => x <= m
        BY <1>1, <1>4, <2>4 DEF IsNext, Before
      <3>2. From(l, i, x) = {m \in S : x <= m}
        BY <1>2, <2>4 DEF From, S
      <3>3. \A m \in S : n <= m <=> m = n \/ x <= m
        <4> TAKE m \in S
        <4>1. m \in Nat  BY <1>1
        <4> QED  BY <4>1, <2>1, <3>1
      <3>4. From(l, i, n) = {n} \cup From(l, i, x)
        BY <2>1, <2>2, <3>2, <3>3
      <3>5. \A m \in From(l, i, x) : n < m
        <4> TAKE m \in From(l, i, x)
        <4>1. m \in Nat /\ x <= m  BY <1>1, <3>2
        <4> QED  BY <4>1, <2>1, <3>1
      <3> QED
        BY <1>2, <1>4, <2>1, <3>1, <3>4, <3>5 DEF S, x
    <2> QED
      BY <2>3, <2>4
  <1> QED
    BY <1>3, <1>4

\* Following the pointers of a level lists its keys in order.
LEMMA LevelKeysInOrder ==
    ASSUME SkipListAssumption, NEW l, Shaped(l), NEW i \in 0 .. MaxLevel
    PROVE  InOrder(LevelKeys(l, i), At(l, i))
  <1> DEFINE S == At(l, i)
             D == NodesAt(l, i) \cup {Nil}
             next(n) == l.forward[n][i]
             Step(g, n) == IF n = Nil THEN <<>> ELSE (IF n = Header THEN <<>> ELSE <<n>>) \o g[next(n)]
             Solves(g) == g = [n \in D |-> Step(g, n)]
             sorted(n) == CHOOSE s : InOrder(s, From(l, i, n))
             f == [n \in D |-> sorted(n)]
             g == CHOOSE h : Solves(h)
  <1>1. /\ S \in SUBSET Nat /\ IsFiniteSet(S) /\ D = S \cup {Header, Nil}
        /\ Header \notin Nat /\ Nil \notin Nat /\ Header # Nil
    <2>1. S \in SUBSET Nat /\ D = S \cup {Header, Nil}
      BY LevelFacts
    <2>2. S \in SUBSET DOMAIN l.value /\ IsFiniteSet(DOMAIN l.value)
      BY DEF Shaped, At
    <2> QED
      BY <2>1, <2>2, FS_Subset DEF SkipListAssumption
  <1>2. ASSUME NEW n \in D PROVE InOrder(sorted(n), From(l, i, n))
    <2>1. From(l, i, n) \in SUBSET S
      BY DEF From
    <2>2. From(l, i, n) \in SUBSET Nat /\ IsFiniteSet(From(l, i, n))
      BY <1>1, <2>1, FS_Subset
    <2> QED
      BY <2>2, SortedExists
  <1>3. ASSUME NEW h, NEW n \in D, n # Nil => InOrder(h[next(n)], From(l, i, next(n)))
        PROVE  InOrder(Step(h, n), From(l, i, n))
    <2>1. CASE n = Nil
      <3>1. InOrder(<<>>, {})
        <4>1. <<>> \in Seq(Nat) /\ Len(<<>>) = 0
          BY EmptySeq
        <4> QED
          BY <4>1 DEF InOrder
      <3> QED
        BY <2>1, <3>1 DEF From
    <2>2. CASE n = Header
      <3>1. n \in NodesAt(l, i) /\ n # Nil
        BY <1>1, <2>2
      <3>2. From(l, i, n) = From(l, i, next(n))
        BY <2>2, <3>1, FromNext
      <3>3. InOrder(h[next(n)], From(l, i, next(n)))
        BY <1>3, <3>1
      <3>4. <<>> \o h[next(n)] = h[next(n)]
        BY <3>3, ConcatEmptySeq DEF InOrder
      <3> QED
        BY <2>2, <3>1, <3>2, <3>3, <3>4
    <2>3. CASE n # Nil /\ n # Header
      <3>1. n \in NodesAt(l, i)
        BY <2>3
      <3>2. /\ n \in Nat /\ From(l, i, n) = {n} \cup From(l, i, next(n))
            /\ \A m \in From(l, i, next(n)) : n < m
        BY <2>3, <3>1, FromNext
      <3>3. InOrder(h[next(n)], From(l, i, next(n)))
        BY <1>3, <2>3
      <3> HIDE DEF next
      <3>4. InOrder(<<n>> \o h[next(n)], From(l, i, n))
        BY <3>2, <3>3, PrependSorted
      <3> QED
        BY <2>3, <3>4
    <2> QED
      BY <2>1, <2>2, <2>3
  <1>4. \A n \in D : n # Nil => next(n) \in D
    <2> TAKE n \in D
    <2> SUFFICES ASSUME n # Nil PROVE next(n) \in D
      OBVIOUS
    <2>1. n \in NodesAt(l, i)
      OBVIOUS
    <2>2. next(n) \in S \cup {Nil}
      BY <2>1, FromNext
    <2> QED
      BY <2>2, <1>1
  <1> HIDE DEF S, D, next, sorted
  <1>5. Solves(f)
    <2> SUFFICES ASSUME NEW n \in D PROVE f[n] = Step(f, n)
      OBVIOUS
    <2>1. n # Nil => InOrder(f[next(n)], From(l, i, next(n)))
      BY <1>2, <1>4
    <2> HIDE DEF f, Step
    <2>2. InOrder(Step(f, n), From(l, i, n))
      BY <1>3, <2>1
    <2>3. InOrder(f[n], From(l, i, n))
      BY <1>2 DEF f
    <2> QED
      BY <2>2, <2>3, SortedUnique
  <1>6. Solves(g)
    <2> HIDE DEF Solves, f
    <2> QED
      BY <1>5
  <1>7. \A n \in D : g[n] = Step(g, n)
    <2> HIDE DEF g, Step
    <2> QED
      BY <1>6
  <1>8. LevelKeys(l, i) = g[Header]
    BY DEF LevelKeys, D, next
  <1> HIDE DEF g, Solves, f
  <1>9. ASSUME NEW n \in D, n # Nil => InOrder(g[next(n)], From(l, i, next(n)))
        PROVE  InOrder(g[n], From(l, i, n))
    <2> HIDE DEF Step
    <2> QED
      BY <1>3, <1>7, <1>9
  <1>10. InOrder(g[Nil], From(l, i, Nil))
    BY <1>1, <1>9
  <1>11. \A n \in S : InOrder(g[n], From(l, i, n))
    <2> DEFINE Bad == {n \in S : ~InOrder(g[n], From(l, i, n))}
    <2> SUFFICES ASSUME Bad # {} PROVE FALSE
      OBVIOUS
    <2>1. Bad \in SUBSET Nat
      BY <1>1
    <2>2. PICK b \in Nat : \A m \in Bad : m <= b
      BY <1>1, FiniteHasBound
    <2>3. PICK n \in Bad : \A m \in Bad : m <= n
      <3> HIDE DEF Bad
      <3> QED
        BY <2>1, <2>2, GreatestElement
    <2>4. n \in S /\ n \in D /\ n # Nil /\ n # Header /\ n \in NodesAt(l, i) /\ n \in Nat
      BY <1>1, <2>3 DEF D
    <2>5. next(n) \in S \cup {Nil} /\ (next(n) # Nil => n < next(n))
      BY <2>4, FromNext DEF S, next
    <2>6. InOrder(g[next(n)], From(l, i, next(n)))
      <3>1. CASE next(n) = Nil
        BY <3>1, <1>10
      <3>2. CASE next(n) # Nil
        <4>1. next(n) \in S /\ n < next(n)
          BY <2>5, <3>2
        <4>2. next(n) \in Nat
          BY <1>1, <4>1
        <4>3. next(n) \notin Bad
          <5>1. ~(next(n) <= n)
            BY <2>4, <4>1, <4>2
          <5> QED
            BY <2>3, <5>1
        <4> QED
          BY <4>1, <4>3
      <3> QED
        BY <3>1, <3>2
    <2> QED
      BY <1>9, <2>3, <2>4, <2>6
  <1>12. Header \in D /\ Header \in NodesAt(l, i) /\ Header # Nil
    BY <1>1, LevelFacts DEF D
  <1>13. next(Header) \in S \cup {Nil}
    BY <1>12, FromNext DEF S, next
  <1>14. InOrder(g[Header], From(l, i, Header))
    BY <1>9, <1>10, <1>11, <1>12, <1>13
  <1>15. From(l, i, Header) = S
    BY <1>12 DEF From, S
  <1> QED
    BY <1>8, <1>14, <1>15 DEF S

\* A list in shape is what SkipListSound asks for.
LEMMA ShapedIsSound ==
    ASSUME SkipListAssumption, NEW l, Shaped(l)
    PROVE  Sound(l)
  <1>1. /\ MaxLevel \in Nat /\ l.level \in 0 .. MaxLevel /\ Header \notin Nat /\ Header # Nil
        /\ Nil \notin Nat /\ 0 \in 0 .. MaxLevel
    BY DEF Shaped, SkipListAssumption
  <1>2. ASSUME NEW i \in 0 .. MaxLevel
        PROVE  /\ \A j \in 1 .. Len(LevelKeys(l, i)) - 1 : LevelKeys(l, i)[j] < LevelKeys(l, i)[j + 1]
               /\ Range(LevelKeys(l, i)) = At(l, i)
    <2> DEFINE keys == LevelKeys(l, i)
    <2>1. InOrder(keys, At(l, i))
      BY LevelKeysInOrder
    <2> HIDE DEF keys
    <2>2. keys \in Seq(Nat) /\ Len(keys) \in Nat
      BY <2>1, LenProperties DEF InOrder
    <2>3. \A j \in 1 .. Len(keys) - 1 : keys[j] < keys[j + 1]
      <3> TAKE j \in 1 .. Len(keys) - 1
      <3>1. j \in 1 .. Len(keys) /\ j + 1 \in 1 .. Len(keys) /\ j < j + 1
        BY <2>2
      <3> QED
        BY <2>1, <3>1 DEF InOrder
    <2>4. Range(keys) = At(l, i)
      BY <2>1, <2>2, RangeEquality DEF InOrder
    <2> QED
      BY <2>3, <2>4 DEF keys
  <1>3. \A i \in 0 .. l.level : i \in 0 .. MaxLevel
    BY <1>1
  <1>4. Range(LevelKeys(l, 0)) = DOMAIN l.value
    BY <1>1, <1>2, LevelFacts
  <1>5. ASSUME NEW i \in 0 .. MaxLevel
        PROVE  /\ Header \in NodesAt(l, i) /\ (l.level < i => At(l, i) = {})
               /\ IsNext(At(l, i), Header, l.forward[Header][i]) /\ At(l, i) \in SUBSET Nat
    <2>1. /\ Header \in NodesAt(l, i) /\ (l.level < i => At(l, i) = {}) /\ At(l, i) \in SUBSET Nat
      BY LevelFacts
    <2>2. IsNext(At(l, i), Header, l.forward[Header][i])
      BY <2>1 DEF Shaped
    <2> QED
      BY <2>1, <2>2
  <1>6. \A i \in l.level + 1 .. MaxLevel : l.forward[Header][i] = Nil
    <2> TAKE i \in l.level + 1 .. MaxLevel
    <2>1. i \in 0 .. MaxLevel /\ l.level < i
      BY <1>1
    <2> QED
      BY <1>5, <2>1 DEF IsNext
  <1>7. l.level > 0 => l.forward[Header][l.level] # Nil
    <2>1. l.level > 0 => At(l, l.level) # {}
      BY DEF Shaped
    <2> QED
      BY <1>1, <1>5, <2>1 DEF IsNext, Before
  <1>8. size(l) = Cardinality(DOMAIN l.value)
    BY DEF size, Shaped
  <1> QED
    BY <1>2, <1>3, <1>4, <1>6, <1>7, <1>8 DEF Sound, At

\* The list the constructor makes.
LEMMA EmptyShaped ==
    ASSUME SkipListAssumption
    PROVE  Shaped(EmptyList) /\ EmptyList.value = [n \in {} |-> Nil] /\ DOMAIN EmptyList.value = {}
  <1> DEFINE l == EmptyList
  <1>1. /\ l.value = [n \in {} |-> Nil] /\ DOMAIN l.value = {} /\ l.level = 0 /\ l.count = 0
        /\ DOMAIN l.forward = {Header} /\ DOMAIN l.forward[Header] = 0 .. MaxLevel
        /\ \A i \in 0 .. MaxLevel : l.forward[Header][i] = Nil
    BY DEF EmptyList
  <1>2. MaxLevel \in Nat /\ 0 \in 0 .. MaxLevel
    BY DEF SkipListAssumption
  <1> HIDE DEF l
  <1>3. \A i \in 0 .. MaxLevel : At(l, i) = {} /\ NodesAt(l, i) = {Header}
    BY <1>1 DEF At, NodesAt
  <1>4. \A i \in 0 .. MaxLevel : \A n \in NodesAt(l, i) : IsNext(At(l, i), n, l.forward[n][i])
    BY <1>1, <1>3 DEF IsNext
  <1>5. Shaped(l)
    BY <1>1, <1>2, <1>4, FS_EmptySet DEF Shaped
  <1> QED
    BY <1>1, <1>5 DEF l

\* d is a dump of a list with the content map.
IsDump(d, map) ==
    /\ DOMAIN map \subseteq Nat /\ IsFiniteSet(DOMAIN map) /\ map = [k \in DOMAIN map |-> map[k]]
    /\ InOrder(d.keys, DOMAIN map)
    /\ \A i \in 1 .. Len(d.keys) : d.values[i] = map[d.keys[i]]

\* dump_file writes the whole content, in order.
LEMMA DumpHolds ==
    ASSUME SkipListAssumption, NEW l, Shaped(l)
    PROVE  IsDump(dump_file(l), l.value)
  <1> DEFINE keys == LevelKeys(l, 0)
             d == dump_file(l)
  <1>1. 0 \in 0 .. MaxLevel
    BY DEF SkipListAssumption
  <1>2. InOrder(keys, DOMAIN l.value)
    BY <1>1, LevelKeysInOrder, LevelFacts
  <1>3. DOMAIN keys = 1 .. Len(keys)
    BY <1>2, LenProperties DEF InOrder
  <1>4. d.keys = keys /\ \A i \in DOMAIN keys : d.values[i] = l.value[keys[i]]
    BY DEF dump_file
  <1> HIDE DEF d, keys
  <1> QED
    BY <1>2, <1>3, <1>4 DEF IsDump, Shaped, d

\* load_file inserts the pairs of the dump one after the other: the lists it goes through.
LEMMA LoadDef ==
    ASSUME NEW dump, NEW levels, Len(dump.keys) \in Nat
    PROVE  \E f : /\ \A n \in 0 .. Len(dump.keys) :
                        f[n] = IF n = 0 THEN EmptyList
                               ELSE insert_element_locked(f[n - 1], dump.keys[n], dump.values[n], levels[n])
                  /\ load_file(dump, levels) = f[Len(dump.keys)]
  <1> DEFINE Step(f, n) == IF n = 0 THEN EmptyList
                           ELSE insert_element_locked(f[n - 1], dump.keys[n], dump.values[n], levels[n])
             Solves(f, c) == f = [n \in 0 .. c |-> Step(f, n)]
             Bad == {c \in Nat : ~\E f : Solves(f, c)}
             N == Len(dump.keys)
             g == CHOOSE f : Solves(f, N)
  <1>1. Bad = {}
    <2> SUFFICES ASSUME Bad # {} PROVE FALSE
      OBVIOUS
    <2>1. PICK c \in Bad : \A d \in Bad : c <= d
      <3>1. Bad \in SUBSET Nat
        OBVIOUS
      <3> HIDE DEF Bad
      <3> QED
        BY <3>1, LeastElement
    <2>2. c \in Nat /\ ~\E f : Solves(f, c)
      BY <2>1
    <2>3. CASE c = 0
      <3> DEFINE f == [n \in 0 .. 0 |-> EmptyList]
      <3>1. \A n \in 0 .. 0 : Step(f, n) = EmptyList
        OBVIOUS
      <3>2. Solves(f, 0)
        <4> HIDE DEF Step
        <4> QED
          BY <3>1
      <3> QED
        BY <2>2, <2>3, <3>2
    <2>4. CASE c # 0
      <3>1. c - 1 \in Nat /\ ~(c <= c - 1)
        BY <2>2, <2>4
      <3>2. c - 1 \notin Bad
        BY <2>1, <3>1
      <3>3. PICK f : Solves(f, c - 1)
        BY <3>1, <3>2
      <3> DEFINE h == [n \in 0 .. c |-> IF n = c THEN Step(f, n) ELSE f[n]]
      <3>4. ASSUME NEW n \in 0 .. c PROVE Step(h, n) = Step(f, n) /\ h[n] = Step(f, n)
        <4>1. n # 0 => n - 1 \in 0 .. c /\ n - 1 # c
          BY <2>2
        <4>2. Step(h, n) = Step(f, n)
          BY <4>1
        <4>3. n # c => f[n] = Step(f, n)
          <5> SUFFICES ASSUME n # c PROVE f[n] = Step(f, n)
            OBVIOUS
          <5>1. n \in 0 .. c - 1
            BY <2>2
          <5> HIDE DEF Step
          <5> QED
            BY <3>3, <5>1
        <4> HIDE DEF Step
        <4> QED
          BY <4>2, <4>3
      <3>5. Solves(h, c)
        <4> HIDE DEF Step
        <4>1. h = [n \in 0 .. c |-> Step(f, n)]
          BY <3>4
        <4>2. [n \in 0 .. c |-> Step(f, n)] = [n \in 0 .. c |-> Step(h, n)]
          BY <3>4
        <4> QED
          BY <4>1, <4>2
      <3> QED
        BY <2>2, <3>5
    <2> QED
      BY <2>3, <2>4
  <1>2. \E f : Solves(f, N)
    BY <1>1
  <1>3. Solves(g, N)
    <2> HIDE DEF Solves
    <2> QED
      BY <1>2
  <1>4. load_file(dump, levels) = g[N]
    BY DEF load_file
  <1>5. \A n \in 0 .. N : g[n] = Step(g, n)
    <2> HIDE DEF g, Step
    <2> QED
      BY <1>3
  <1> HIDE DEF g
  <1> QED
    BY <1>4, <1>5

\* Loading a dump gives a list with the dumped content.
LEMMA LoadShaped ==
    ASSUME SkipListAssumption, NEW d, NEW map, IsDump(d, map),
           NEW levels \in [1 .. Len(d.keys) -> Levels]
    PROVE  Shaped(load_file(d, levels)) /\ load_file(d, levels).value = map
  <1> DEFINE keys == d.keys
             N == Len(keys)
             Before1(n) == {keys[i] : i \in 1 .. n}
  <1>1. /\ keys \in Seq(Nat) /\ N \in Nat /\ {keys[i] : i \in 1 .. N} = DOMAIN map
        /\ \A i \in 1 .. N : keys[i] \in Nat /\ d.values[i] = map[keys[i]]
        /\ \A i, j \in 1 .. N : i < j => keys[i] < keys[j]
        /\ map = [k \in DOMAIN map |-> map[k]]
    BY LenProperties, ElementOfSeq DEF IsDump, InOrder
  <1>2. PICK f : /\ \A n \in 0 .. N :
                        f[n] = IF n = 0 THEN EmptyList
                               ELSE insert_element_locked(f[n - 1], keys[n], d.values[n], levels[n])
                 /\ load_file(d, levels) = f[N]
    BY <1>1, LoadDef
  <1> DEFINE Good(n) == Shaped(f[n]) /\ f[n].value = [k \in Before1(n) |-> map[k]]
             Bad == {n \in 0 .. N : ~Good(n)}
  <1> HIDE DEF keys, N
  <1>3. SUFFICES Bad = {}
    <2>1. N \in 0 .. N
      BY <1>1
    <2>2. Good(N)
      BY <1>3, <2>1
    <2>3. Before1(N) = DOMAIN map
      BY <1>1
    <2> QED
      BY <1>1, <1>2, <2>2, <2>3
  <1>4. SUFFICES ASSUME Bad # {} PROVE FALSE
    OBVIOUS
  <1>5. PICK n \in Bad : \A m \in Bad : n <= m
    <2>1. Bad \in SUBSET Nat
      BY <1>1
    <2> HIDE DEF Bad
    <2> QED
      BY <1>4, <2>1, LeastElement
  <1>6. n \in 0 .. N /\ n \in Nat /\ ~Good(n)
    BY <1>1, <1>5
  <1>7. n # 0
    <2> SUFFICES ASSUME n = 0 PROVE Good(n)
      BY <1>6
    <2>1. f[n] = EmptyList
      BY <1>2, <1>6
    <2>2. Before1(n) = {}
      OBVIOUS
    <2>3. [k \in Before1(n) |-> map[k]] = [k \in {} |-> Nil]
      BY <2>2
    <2> QED
      BY <2>1, <2>3, EmptyShaped
  <1>8. n \in 1 .. N /\ n - 1 \in 0 .. N /\ ~(n <= n - 1)
    BY <1>1, <1>6, <1>7
  <1>9. Good(n - 1)
    <2>1. n - 1 \notin Bad
      BY <1>5, <1>8
    <2> QED
      BY <1>8, <2>1
  <1>10. f[n] = insert_element_locked(f[n - 1], keys[n], d.values[n], levels[n])
    BY <1>2, <1>6, <1>7
  <1>11. keys[n] \in Nat /\ levels[n] \in Levels /\ d.values[n] = map[keys[n]]
    BY <1>1, <1>8 DEF N, keys
  <1>12. DOMAIN f[n - 1].value = Before1(n - 1)
    BY <1>9
  <1>13. keys[n] \notin Before1(n - 1)
    <2> SUFFICES ASSUME NEW i \in 1 .. n - 1, keys[i] = keys[n] PROVE FALSE
      OBVIOUS
    <2>1. i \in 1 .. N /\ i < n
      BY <1>1, <1>6, <1>8
    <2>2. keys[i] < keys[n] /\ keys[i] \in Nat /\ keys[n] \in Nat
      BY <1>1, <1>8, <2>1
    <2> QED
      BY <2>2
  <1>14. /\ Shaped(f[n]) /\ f[n].value = MapWith(f[n - 1].value, keys[n], d.values[n])
    <2> HIDE DEF Before1
    <2> QED
      BY <1>9, <1>10, <1>11, <1>12, <1>13, InsertShaped
  <1>15. Before1(n) = Before1(n - 1) \cup {keys[n]}
    <2>1. \A i \in 1 .. n : i = n \/ i \in 1 .. n - 1
      BY <1>6
    <2>2. n \in 1 .. n /\ \A i \in 1 .. n - 1 : i \in 1 .. n
      BY <1>6, <1>8
    <2> QED
      BY <2>1, <2>2
  <1>16. f[n].value = [k \in Before1(n) |-> map[k]]
    <2> HIDE DEF Before1
    <2>1. f[n].value = [k \in Before1(n - 1) \cup {keys[n]} |->
                            IF k = keys[n] THEN map[k] ELSE f[n - 1].value[k]]
      BY <1>11, <1>12, <1>14 DEF MapWith
    <2>2. \A k \in Before1(n - 1) : f[n - 1].value[k] = map[k]
      BY <1>9
    <2> QED
      BY <1>15, <2>1, <2>2
  <1> QED
    BY <1>6, <1>14, <1>16
=============================================================================
