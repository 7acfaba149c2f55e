----------------------------- MODULE RpcProofs ------------------------------
(***************************************************************************)
(* Proofs about Rpc, for any callers, channels, workers, messages and      *)
(* bounds: TypeOK, ExecutesAsSent, OwnReply.                               *)
(*                                                                         *)
(* The first part is the codec: a message of its type is read as it was    *)
(* written, and OnMessage makes of the bytes of a request that request,    *)
(* nothing, or - cut behind the method name - the call with the default    *)
(* arguments.  The invariant then follows each call: it is in one place    *)
(* at most (among the bytes, queued, with a worker, executed), and on a    *)
(* connection that its client has open nothing is on its way but the call  *)
(* that holds the channel, or its answer.  It is shown for each action in  *)
(* four groups: descriptors and connections, bytes and tasks, places,      *)
(* answers.                                                                *)
(***************************************************************************)
EXTENDS Rpc, SequenceTheorems, FiniteSetTheorems, WellFoundedInduction, TLAPS

-----------------------------------------------------------------------------
(* The codec: what a message parser reads from what its serializer wrote.  *)

IsSeq(s) == s \in Seq(Range(s))

\* No field of this number is in the bytes.
Lacks(s, number) == \A i \in DOMAIN s : s[i].tag[1] # number

\* The bytes belong to fields: none is a length prefix.
Framed(s) == \A i \in DOMAIN s : s[i].half \in {1, 2}

\* The bytes hold a value for a field exactly once, or not at all if it is the default.
HoldsValue(b, number, kind, v) ==
    IF v = Default(kind) THEN Places(b, number, kind) = {}
    ELSE \E p \in DOMAIN b : Places(b, number, kind) = {p} /\ b[p].val = v

\* A sequence is one of its own elements.
LEMMA SeqIsSeq ==
    ASSUME NEW S, NEW s \in Seq(S)
    PROVE  IsSeq(s)
BY SeqOfRange DEF IsSeq

\* Its length and its domain.
LEMMA SeqShape ==
    ASSUME NEW s, IsSeq(s)
    PROVE  Len(s) \in Nat /\ DOMAIN s = 1 .. Len(s)
BY LenProperties DEF IsSeq

\* Two sequences are the same if their lengths and their elements are.
LEMMA SeqExtensional ==
    ASSUME NEW s, NEW t, IsSeq(s), IsSeq(t), Len(s) = Len(t), \A i \in 1 .. Len(s) : s[i] = t[i]
    PROVE  s = t
<1> DEFINE S == Range(s) \cup Range(t)
<1>1. s \in Seq(S) /\ t \in Seq(S)
    BY SeqMonotonic DEF IsSeq
<1> QED
    BY <1>1, SeqEqual

\* The elements of a concatenation, and where each part of it lies.
LEMMA Joined ==
    ASSUME NEW s, NEW t, IsSeq(s), IsSeq(t)
    PROVE  /\ IsSeq(s \o t)
           /\ Len(s) \in Nat /\ Len(t) \in Nat
           /\ DOMAIN s = 1 .. Len(s) /\ DOMAIN t = 1 .. Len(t)
           /\ Len(s \o t) = Len(s) + Len(t) /\ DOMAIN (s \o t) = 1 .. Len(s) + Len(t)
           /\ \A i \in 1 .. Len(s) : (s \o t)[i] = s[i]
           /\ \A i \in 1 .. Len(t) : (s \o t)[Len(s) + i] = t[i]
           /\ \A i \in 1 .. Len(s) + Len(t) : i \in 1 .. Len(s) \/ i - Len(s) \in 1 .. Len(t)
<1> DEFINE S == Range(s) \cup Range(t)
<1>1. s \in Seq(S) /\ t \in Seq(S)
    BY SeqMonotonic DEF IsSeq
<1>2. IsSeq(s \o t)
    BY <1>1, ConcatProperties, SeqIsSeq
<1>3. /\ Len(s) \in Nat /\ Len(t) \in Nat
      /\ DOMAIN s = 1 .. Len(s) /\ DOMAIN t = 1 .. Len(t)
    BY SeqShape
<1>4. /\ Len(s \o t) = Len(s) + Len(t)
      /\ \A i \in 1 .. Len(s) + Len(t) : (s \o t)[i] = IF i <= Len(s) THEN s[i] ELSE t[i - Len(s)]
    BY <1>1, ConcatProperties
<1>5. DOMAIN (s \o t) = 1 .. Len(s) + Len(t)
    BY <1>2, <1>4, SeqShape
<1> HIDE DEF S
<1> QED
    BY <1>2, <1>3, <1>4, <1>5

Scalar == {"bytes", "int", "bool"}

\* What the generated serializers write for a field: nothing for a default, else its
\* value once (WriteTag, Write).
LEMMA WrittenField ==
    ASSUME NEW n \in Nat, NEW kind \in Scalar, NEW v
    PROVE  LET w == WriteField(n, kind, v)
           IN  /\ IsSeq(w) /\ Framed(w)
               /\ \A m \in Nat : m # n => Lacks(w, m)
               /\ HoldsValue(w, n, kind, v)
               /\ \A i \in DOMAIN w : w[i].long => kind = "bytes" /\ v = Long
<1> DEFINE w == WriteField(n, kind, v)
           at(h) == Half(n, kind, h, v, kind = "bytes" /\ v = Long)
           S == {at(h) : h \in 1 .. 2}
<1>1. CASE v = Default(kind)
    <2>1. w = <<>>
        BY <1>1 DEF WriteField
    <2> QED
        <3>1. DOMAIN w = {} /\ w \in Seq({})
            BY <2>1
        <3>2. IsSeq(w)
            BY <3>1, SeqIsSeq
        <3> HIDE DEF w
        <3>3. Framed(w) /\ (\A m \in Nat : Lacks(w, m)) /\ HoldsValue(w, n, kind, v)
            BY <3>1, <1>1 DEF Framed, Lacks, HoldsValue, Places
        <3> QED
            BY <3>1, <3>2, <3>3 DEF w
<1>2. CASE v # Default(kind)
    <2>1. w = [h \in 1 .. 2 |-> at(h)]
        BY <1>2 DEF WriteField
    <2>2. w \in [1 .. 2 -> S]
        BY <2>1
    <2>3. w \in Seq(S)
        BY <2>2, SeqDef
    <2>4. IsSeq(w)
        BY <2>3, SeqIsSeq
    <2>5. DOMAIN w = {1, 2} /\ w[1] = at(1) /\ w[2] = at(2)
        BY <2>1
    <2>6. /\ at(1).half = 1 /\ at(2).half = 2
          /\ \A h \in {1, 2} : /\ at(h).tag = <<n, WireType(kind)>> /\ at(h).tag[1] = n
                               /\ at(h).val = v /\ at(h).long = (kind = "bytes" /\ v = Long)
        BY DEF Half
    <2> HIDE DEF w, at
    <2>7. Framed(w)
        BY <2>5, <2>6 DEF Framed
    <2>8. \A m \in Nat : m # n => Lacks(w, m)
        BY <2>5, <2>6 DEF Lacks
    <2>9. Places(w, n, kind) = {2}
        BY <2>5, <2>6 DEF Places
    <2>10. HoldsValue(w, n, kind, v)
        BY <2>9, <2>5, <2>6, <1>2 DEF HoldsValue
    <2> QED
        BY <2>4, <2>5, <2>6, <2>7, <2>8, <2>10 DEF w
<1> QED
    BY <1>1, <1>2

\* A field that neither part has is not in the whole.
LEMMA LacksJoined ==
    ASSUME NEW s, NEW t, IsSeq(s), IsSeq(t), NEW n, Lacks(s, n), Lacks(t, n)
    PROVE  Lacks(s \o t, n)
<1> SUFFICES ASSUME NEW i \in DOMAIN (s \o t)
             PROVE  (s \o t)[i].tag[1] # n
    BY DEF Lacks
<1>1. i \in 1 .. Len(s) \/ (i - Len(s) \in 1 .. Len(t) /\ i = Len(s) + (i - Len(s)))
    BY Joined
<1>2. CASE i \in 1 .. Len(s)
    BY <1>2, Joined DEF Lacks
<1>3. CASE i - Len(s) \in 1 .. Len(t) /\ i = Len(s) + (i - Len(s))
    BY <1>3, Joined DEF Lacks
<1> QED
    BY <1>1, <1>2, <1>3

\* Nor is there a length prefix in the whole if none is in the parts.
LEMMA FramedJoined ==
    ASSUME NEW s, NEW t, IsSeq(s), IsSeq(t), Framed(s), Framed(t)
    PROVE  Framed(s \o t)
<1> SUFFICES ASSUME NEW i \in DOMAIN (s \o t)
             PROVE  (s \o t)[i].half \in {1, 2}
    BY DEF Framed
<1>1. i \in 1 .. Len(s) \/ (i - Len(s) \in 1 .. Len(t) /\ i = Len(s) + (i - Len(s)))
    BY Joined
<1>2. CASE i \in 1 .. Len(s)
    BY <1>2, Joined DEF Framed
<1>3. CASE i - Len(s) \in 1 .. Len(t) /\ i = Len(s) + (i - Len(s))
    BY <1>3, Joined DEF Framed
<1> QED
    BY <1>1, <1>2, <1>3

\* Fields of other numbers after it leave the places of a field where they are.
LEMMA PlacesBefore ==
    ASSUME NEW s, NEW t, IsSeq(s), IsSeq(t), NEW n, NEW kind, Lacks(t, n)
    PROVE  Places(s \o t, n, kind) = Places(s, n, kind)
<1>1. ASSUME NEW i \in Places(s \o t, n, kind)
      PROVE  i \in Places(s, n, kind)
    <2>1. /\ i \in 1 .. Len(s) \/ (i - Len(s) \in 1 .. Len(t) /\ i = Len(s) + (i - Len(s)))
          /\ (s \o t)[i].half = 2 /\ (s \o t)[i].tag = <<n, WireType(kind)>>
        BY Joined DEF Places
    <2>2. CASE i \in 1 .. Len(s)
        BY <2>1, <2>2, Joined DEF Places
    <2>3. CASE i - Len(s) \in 1 .. Len(t) /\ i = Len(s) + (i - Len(s))
        <3>1. t[i - Len(s)].tag[1] = n
            BY <2>1, <2>3, Joined
        <3> QED
            BY <3>1, <2>3, Joined DEF Lacks
    <2> QED
        BY <2>1, <2>2, <2>3
<1>2. ASSUME NEW i \in Places(s, n, kind)
      PROVE  i \in Places(s \o t, n, kind)
    BY Joined DEF Places
<1> QED
    BY <1>1, <1>2

\* Fields of other numbers before it move them.
LEMMA PlacesAfter ==
    ASSUME NEW s, NEW t, IsSeq(s), IsSeq(t), NEW n, NEW kind, Lacks(s, n)
    PROVE  Places(s \o t, n, kind) = {Len(s) + i : i \in Places(t, n, kind)}
<1>1. ASSUME NEW i \in Places(s \o t, n, kind)
      PROVE  i \in {Len(s) + j : j \in Places(t, n, kind)}
    <2>1. /\ i \in 1 .. Len(s) \/ (i - Len(s) \in 1 .. Len(t) /\ i = Len(s) + (i - Len(s)))
          /\ (s \o t)[i].half = 2 /\ (s \o t)[i].tag = <<n, WireType(kind)>>
        BY Joined DEF Places
    <2>2. CASE i \in 1 .. Len(s)
        <3>1. s[i].tag[1] = n
            BY <2>1, <2>2, Joined
        <3> QED
            BY <3>1, <2>2, Joined DEF Lacks
    <2>3. CASE i - Len(s) \in 1 .. Len(t) /\ i = Len(s) + (i - Len(s))
        <3>1. (s \o t)[i] = t[i - Len(s)]
            BY <2>3, Joined
        <3>2. i - Len(s) \in Places(t, n, kind)
            BY <3>1, <2>1, <2>3, Joined DEF Places
        <3> QED
            BY <3>2, <2>3
    <2> QED
        BY <2>1, <2>2, <2>3
<1>2. ASSUME NEW j \in Places(t, n, kind)
      PROVE  Len(s) + j \in Places(s \o t, n, kind)
    <2>1. j \in 1 .. Len(t) /\ (s \o t)[Len(s) + j] = t[j] /\ Len(s) + j \in DOMAIN (s \o t)
        BY Joined DEF Places
    <2> QED
        BY <2>1 DEF Places
<1> QED
    BY <1>1, <1>2

\* A field stays readable when bytes without its number follow,
LEMMA HoldsBefore ==
    ASSUME NEW s, NEW t, IsSeq(s), IsSeq(t), NEW n, NEW kind, NEW v,
           Lacks(t, n), HoldsValue(s, n, kind, v)
    PROVE  HoldsValue(s \o t, n, kind, v)
<1>1. Places(s \o t, n, kind) = Places(s, n, kind)
    BY PlacesBefore
<1>2. \A p \in DOMAIN s : p \in DOMAIN (s \o t) /\ (s \o t)[p] = s[p]
    BY Joined
<1> QED
    BY <1>1, <1>2 DEF HoldsValue

\* or come before.
LEMMA HoldsAfter ==
    ASSUME NEW s, NEW t, IsSeq(s), IsSeq(t), NEW n, NEW kind, NEW v,
           Lacks(s, n), HoldsValue(t, n, kind, v)
    PROVE  HoldsValue(s \o t, n, kind, v)
<1>1. Places(s \o t, n, kind) = {Len(s) + i : i \in Places(t, n, kind)}
    BY PlacesAfter
<1>2. \A p \in DOMAIN t : Len(s) + p \in DOMAIN (s \o t) /\ (s \o t)[Len(s) + p] = t[p]
    BY Joined
<1> QED
    BY <1>1, <1>2 DEF HoldsValue

\* A parser reads the value that the bytes hold (_InternalParse).
LEMMA ReadsValue ==
    ASSUME NEW b, IsSeq(b), NEW n, NEW kind, NEW v, HoldsValue(b, n, kind, v)
    PROVE  ReadField(b, n, kind) = v
<1> DEFINE at == Places(b, n, kind)
<1>1. CASE v = Default(kind)
    <2>1. at = {} /\ Cardinality(at) = 0
        BY <1>1, FS_EmptySet DEF HoldsValue
    <2>2. ValuesOf(b, n, kind) = <<>>
        BY <2>1 DEF ValuesOf
    <2> QED
        BY <2>2, <1>1 DEF ReadField
<1>2. CASE v # Default(kind)
    <2>1. PICK p \in DOMAIN b : at = {p} /\ b[p].val = v
        BY <1>2 DEF HoldsValue
    <2>2. Cardinality(at) = 1
        BY <2>1, FS_Singleton
    <2> DEFINE nth(k) == CHOOSE i \in at : Cardinality({j \in at : j <= i}) = k
    <2>3. ValuesOf(b, n, kind) = [k \in 1 .. 1 |-> b[nth(k)].val]
        BY <2>2 DEF ValuesOf
    <2>4. p \in Nat
        BY SeqShape
    <2>5. {j \in at : j <= p} = {p}
        BY <2>1, <2>4
    <2>6. Cardinality({j \in at : j <= p}) = 1
        BY <2>5, FS_Singleton
    <2>7. nth(1) = p
        BY <2>1, <2>6
    <2> DEFINE q == ValuesOf(b, n, kind)
    <2> HIDE DEF nth
    <2>8. q \in [1 .. 1 -> {v}]
        <3>1. \A k \in 1 .. 1 : b[nth(k)].val = v
            BY <2>1, <2>7
        <3> QED
            BY <2>3, <3>1
    <2>9. q \in Seq({v})
        BY <2>8, SeqDef
    <2>10. Len(q) = 1 /\ q[1] = v /\ q # <<>>
        BY <2>8, <2>9
    <2> HIDE DEF q
    <2> QED
        BY <2>10 DEF ReadField, Last, q
<1> QED
    BY <1>1, <1>2

-----------------------------------------------------------------------------
(* A repeated field: every element has its place, in the order written.    *)

Evens(base, m) == {base + 2 * k : k \in 1 .. m}

HoldsValues(b, number, encoded) ==
    \E base \in Nat : /\ Places(b, number, "repeated") = Evens(base, Len(encoded))
                      /\ \A k \in 1 .. Len(encoded) : b[base + 2 * k].val = encoded[k]

\* The even offsets of a repeated field are as many as its elements.
LEMMA EvensCounted ==
    ASSUME NEW base \in Nat, NEW m \in Nat
    PROVE  Cardinality(Evens(base, m)) = m
<1> DEFINE f == [k \in 1 .. m |-> base + 2 * k]
<1>1. f \in Bijection(1 .. m, Evens(base, m))
    <2>1. f \in [1 .. m -> Evens(base, m)]
        BY DEF Evens
    <2>2. \A i, j \in 1 .. m : f[i] = f[j] => i = j
        OBVIOUS
    <2>3. \A e \in Evens(base, m) : \E k \in 1 .. m : f[k] = e
        BY DEF Evens
    <2> QED
        BY <2>1, <2>2, <2>3 DEF Bijection, Injection, Surjection, IsInjective
<1> QED
    BY <1>1, FS_CountingElements DEF ExistsBijection

\* A parser reads the values of a repeated field, in their order.
LEMMA ReadsValues ==
    ASSUME NEW b, NEW n, NEW T, NEW encoded \in Seq(T), HoldsValues(b, n, encoded)
    PROVE  ValuesOf(b, n, "repeated") = encoded
<1> DEFINE L == Len(encoded)
           at == Places(b, n, "repeated")
           nth(k) == CHOOSE i \in at : Cardinality({j \in at : j <= i}) = k
<1>0. L \in Nat
    BY LenProperties
<1>1. PICK base \in Nat : /\ at = Evens(base, L)
                          /\ \A k \in 1 .. L : b[base + 2 * k].val = encoded[k]
    BY DEF HoldsValues
<1>2. Cardinality(at) = L
    BY <1>0, <1>1, EvensCounted
<1>3. ASSUME NEW k \in 1 .. L
      PROVE  nth(k) = base + 2 * k
    <2>1. ASSUME NEW m \in 1 .. L
          PROVE  Cardinality({j \in at : j <= base + 2 * m}) = m
        <3> HIDE DEF at, L
        <3>1. m \in Nat /\ L \in Nat
            BY <1>0
        <3>2. \A j \in at : j <= base + 2 * m => j \in Evens(base, m)
            BY <3>1, <1>1 DEF Evens
        <3>3. \A j \in Evens(base, m) : j \in at /\ j <= base + 2 * m
            BY <3>1, <1>1 DEF Evens
        <3>4. {j \in at : j <= base + 2 * m} = Evens(base, m)
            BY <3>2, <3>3
        <3> QED
            BY <3>1, <3>4, EvensCounted
    <2>2. base + 2 * k \in at
        BY <1>1 DEF Evens
    <2>3. ASSUME NEW i \in at, Cardinality({j \in at : j <= i}) = k
          PROVE  i = base + 2 * k
        <3>1. PICK m \in 1 .. L : i = base + 2 * m
            BY <1>1 DEF Evens
        <3> QED
            BY <3>1, <2>1, <2>3
    <2> HIDE DEF at, L
    <2>4. k \in 1 .. L /\ L \in Nat
        BY <1>0
    <2>5. Cardinality({j \in at : j <= base + 2 * k}) = k
        BY <2>1, <2>4
    <2> QED
        BY <2>2, <2>3, <2>5
<1>4. ValuesOf(b, n, "repeated") = [k \in 1 .. Cardinality(at) |-> b[nth(k)].val]
    BY DEF ValuesOf
<1> HIDE DEF nth, at
<1>5. \A k \in 1 .. L : b[nth(k)].val = encoded[k]
    BY <1>1, <1>3
<1>6. encoded = [k \in 1 .. L |-> encoded[k]]
    BY LenProperties
<1> HIDE DEF L
<1> QED
    BY <1>2, <1>4, <1>5, <1>6

\* A repeated field stays readable when bytes without its number follow,
LEMMA ValuesBefore ==
    ASSUME NEW s, NEW t, IsSeq(s), IsSeq(t), NEW n, NEW T, NEW encoded \in Seq(T),
           Lacks(t, n), HoldsValues(s, n, encoded)
    PROVE  HoldsValues(s \o t, n, encoded)
<1>1. Places(s \o t, n, "repeated") = Places(s, n, "repeated")
    BY PlacesBefore
<1>2. PICK base \in Nat : /\ Places(s, n, "repeated") = Evens(base, Len(encoded))
                          /\ \A k \in 1 .. Len(encoded) : s[base + 2 * k].val = encoded[k]
    BY DEF HoldsValues
<1>3. ASSUME NEW k \in 1 .. Len(encoded)
      PROVE  (s \o t)[base + 2 * k] = s[base + 2 * k]
    <2>1. base + 2 * k \in DOMAIN s
        BY <1>2 DEF Evens, Places
    <2> QED
        BY <2>1, Joined
<1> QED
    BY <1>1, <1>2, <1>3 DEF HoldsValues

\* or come before.
LEMMA ValuesAfter ==
    ASSUME NEW s, NEW t, IsSeq(s), IsSeq(t), NEW n, NEW T, NEW encoded \in Seq(T),
           Lacks(s, n), HoldsValues(t, n, encoded)
    PROVE  HoldsValues(s \o t, n, encoded)
<1>1. Places(s \o t, n, "repeated") = {Len(s) + i : i \in Places(t, n, "repeated")}
    BY PlacesAfter
<1>2. PICK base \in Nat : /\ Places(t, n, "repeated") = Evens(base, Len(encoded))
                          /\ \A k \in 1 .. Len(encoded) : t[base + 2 * k].val = encoded[k]
    BY DEF HoldsValues
<1>3. Len(s) \in Nat /\ Len(encoded) \in Nat
    BY SeqShape, LenProperties
<1>4. {Len(s) + i : i \in Evens(base, Len(encoded))} = Evens(Len(s) + base, Len(encoded))
    <2>1. \A k \in 1 .. Len(encoded) : Len(s) + (base + 2 * k) = (Len(s) + base) + 2 * k
        BY <1>3
    <2> QED
        BY <2>1 DEF Evens
<1>5. ASSUME NEW k \in 1 .. Len(encoded)
      PROVE  (s \o t)[(Len(s) + base) + 2 * k] = t[base + 2 * k]
    <2>1. base + 2 * k \in DOMAIN t
        BY <1>2 DEF Evens, Places
    <2>2. (s \o t)[Len(s) + (base + 2 * k)] = t[base + 2 * k]
        BY <2>1, Joined
    <2>3. Len(s) + (base + 2 * k) = (Len(s) + base) + 2 * k
        BY <1>3
    <2> QED
        BY <2>2, <2>3
<1>6. Len(s) + base \in Nat
    BY <1>3
<1> QED
    BY <1>1, <1>2, <1>4, <1>5, <1>6 DEF HoldsValues

\* What the serializers write for a repeated field: each element once, in order.
LEMMA WrittenRepeated ==
    ASSUME NEW n \in Nat, NEW T, NEW encoded \in Seq(T)
    PROVE  LET w == WriteRepeated(n, encoded)
           IN  /\ IsSeq(w) /\ Framed(w)
               /\ \A m \in Nat : m # n => Lacks(w, m)
               /\ HoldsValues(w, n, encoded)
<1> DEFINE w == WriteRepeated(n, encoded)
           L == Len(encoded)
           long(i) == \E j \in DOMAIN encoded[(i + 1) \div 2] : encoded[(i + 1) \div 2][j].long
           at(i) == Half(n, "repeated", 2 - (i % 2), encoded[(i + 1) \div 2], long(i))
<1>0. L \in Nat
    BY LenProperties
<1>1. w = [i \in 1 .. 2 * L |-> at(i)]
    BY DEF WriteRepeated
<1> HIDE DEF long
<1>2. ASSUME NEW i \in 1 .. 2 * L
      PROVE  /\ at(i).half = 2 - (i % 2) /\ at(i).tag = <<n, "length">> /\ at(i).tag[1] = n
             /\ at(i).val = encoded[(i + 1) \div 2]
    BY DEF Half, WireType
<1> HIDE DEF at, w
<1>3. IsSeq(w) /\ DOMAIN w = 1 .. 2 * L
    <2> DEFINE S == {at(i) : i \in 1 .. 2 * L}
    <2>1. w \in [1 .. 2 * L -> S]
        BY <1>1
    <2>2. 2 * L \in Nat
        BY <1>0
    <2> HIDE DEF S
    <2>3. w \in Seq(S)
        BY <2>1, <2>2, SeqDef
    <2> QED
        BY <2>1, <2>3, SeqIsSeq
<1>4. \A i \in 1 .. 2 * L : w[i] = at(i)
    BY <1>1
<1>5. \A i \in 1 .. 2 * L : i % 2 \in {0, 1} /\ (i % 2 = 0 <=> \E k \in 1 .. L : i = 2 * k)
    BY <1>0
<1>6. Framed(w)
    <2>1. \A i \in 1 .. 2 * L : w[i].half = 2 - (i % 2)
        BY <1>2, <1>4
    <2> QED
        BY <2>1, <1>3, <1>5 DEF Framed
<1>7. \A m \in Nat : m # n => Lacks(w, m)
    BY <1>2, <1>3, <1>4 DEF Lacks
<1>8. Places(w, n, "repeated") = Evens(0, L)
    <2> HIDE DEF L
    <2>1. \A i \in 1 .. 2 * L : /\ w[i].half = 2 <=> i % 2 = 0
                                /\ w[i].tag = <<n, WireType("repeated")>>
        BY <1>2, <1>4, <1>5 DEF WireType
    <2>2. Places(w, n, "repeated") = {i \in 1 .. 2 * L : i % 2 = 0}
        BY <1>3, <2>1 DEF Places
    <2>3. {i \in 1 .. 2 * L : i % 2 = 0} = Evens(0, L)
        BY <1>0, <1>5 DEF Evens
    <2> QED
        BY <2>2, <2>3
<1>9. \A k \in 1 .. L : w[0 + 2 * k].val = encoded[k]
    <2>1. \A k \in 1 .. L : 0 + 2 * k \in 1 .. 2 * L /\ (0 + 2 * k + 1) \div 2 = k
        BY <1>0
    <2> QED
        BY <2>1, <1>2, <1>4
<1>10. HoldsValues(w, n, encoded)
    BY <1>8, <1>9 DEF HoldsValues
<1> QED
    BY <1>3, <1>6, <1>7, <1>10 DEF w

-----------------------------------------------------------------------------
(* Messages: a parser gets back every field that the serializer wrote.     *)

\* The bytes of fields whose numbers go up to n.
Built(s, n) == IsSeq(s) /\ Framed(s) /\ \A m \in Nat : m > n => Lacks(s, m)

\* What the bytes s hold, the bytes t hold too.
HoldsMore(s, t, n) ==
    \A m \in 1 .. n : /\ \A kind, v : HoldsValue(s, m, kind, v) => HoldsValue(t, m, kind, v)
                      /\ \A T : \A encoded \in Seq(T) :
                            HoldsValues(s, m, encoded) => HoldsValues(t, m, encoded)

\* A message built up field by field: its first field;
LEMMA FirstField ==
    ASSUME NEW kind \in Scalar, NEW v
    PROVE  /\ Built(WriteField(1, kind, v), 1)
           /\ HoldsValue(WriteField(1, kind, v), 1, kind, v)
BY WrittenField DEF Built

\* then any part with a field number of its own;
LEMMA NextPart ==
    ASSUME NEW s, NEW n \in Nat, NEW t, NEW j \in Nat, j < n, Built(s, j),
           IsSeq(t), Framed(t), \A m \in Nat : m # n => Lacks(t, m)
    PROVE  Built(s \o t, n) /\ HoldsMore(s, s \o t, j)
<1>1. IsSeq(s) /\ Framed(s) /\ \A m \in Nat : m > n => Lacks(s, m)
    BY DEF Built
<1>2. Built(s \o t, n)
    BY <1>1, Joined, FramedJoined, LacksJoined DEF Built
<1>3. \A m \in 1 .. j : m \in Nat /\ m # n
    OBVIOUS
<1>4. HoldsMore(s, s \o t, j)
    BY <1>1, <1>3, HoldsBefore, ValuesBefore DEF HoldsMore
<1> QED
    BY <1>2, <1>4

\* a further field;
LEMMA NextField ==
    ASSUME NEW s, NEW n \in Nat, NEW kind \in Scalar, NEW v, NEW j \in Nat, j < n, Built(s, j)
    PROVE  LET t == s \o WriteField(n, kind, v)
           IN  Built(t, n) /\ HoldsMore(s, t, j) /\ HoldsValue(t, n, kind, v)
<1> DEFINE w == WriteField(n, kind, v)
<1>1. IsSeq(w) /\ Framed(w) /\ (\A m \in Nat : m # n => Lacks(w, m)) /\ HoldsValue(w, n, kind, v)
    BY WrittenField
<1> HIDE DEF w
<1>2. Built(s \o w, n) /\ HoldsMore(s, s \o w, j)
    BY <1>1, NextPart
<1>3. IsSeq(s) /\ Lacks(s, n)
    BY DEF Built
<1>4. HoldsValue(s \o w, n, kind, v)
    BY <1>1, <1>3, HoldsAfter
<1> QED
    BY <1>2, <1>4 DEF w

\* a further repeated field.
LEMMA NextRepeated ==
    ASSUME NEW s, NEW n \in Nat, NEW T, NEW encoded \in Seq(T), NEW j \in Nat, j < n, Built(s, j)
    PROVE  LET t == s \o WriteRepeated(n, encoded)
           IN  Built(t, n) /\ HoldsMore(s, t, j) /\ HoldsValues(t, n, encoded)
<1> DEFINE w == WriteRepeated(n, encoded)
<1>1. IsSeq(w) /\ Framed(w) /\ (\A m \in Nat : m # n => Lacks(w, m)) /\ HoldsValues(w, n, encoded)
    BY WrittenRepeated
<1> HIDE DEF w
<1>2. Built(s \o w, n) /\ HoldsMore(s, s \o w, j)
    BY <1>1, NextPart
<1>3. IsSeq(s) /\ Lacks(s, n)
    BY DEF Built
<1>4. HoldsValues(s \o w, n, encoded)
    BY <1>1, <1>3, ValuesAfter
<1> QED
    BY <1>2, <1>4 DEF w

\* The bytes of a message, and nothing but fields in them.
IsMessage(b) == IsSeq(b) /\ Framed(b)

\* A log entry is read as it was written (LogEntry).
LEMMA LogEntryCodec ==
    ASSUME NEW m \in LogEntry
    PROVE  IsMessage(SerializeLogEntry(m)) /\ ParseLogEntry(SerializeLogEntry(m)) = m
<1> DEFINE s1 == WriteField(1, "bytes", m.command)
           s2 == s1 \o WriteField(2, "int", m.logterm)
           s3 == s2 \o WriteField(3, "int", m.logindex)
<1>1. Built(s1, 1) /\ HoldsValue(s1, 1, "bytes", m.command)
    BY FirstField DEF Scalar
<1> HIDE DEF s1
<1>2. Built(s2, 2) /\ HoldsMore(s1, s2, 1) /\ HoldsValue(s2, 2, "int", m.logterm)
    BY <1>1, NextField DEF Scalar
<1> HIDE DEF s2
<1>3. Built(s3, 3) /\ HoldsMore(s2, s3, 2) /\ HoldsValue(s3, 3, "int", m.logindex)
    BY <1>2, NextField DEF Scalar
<1>4. SerializeLogEntry(m) = s3
    BY DEF SerializeLogEntry, s1, s2
<1> HIDE DEF s3
<1>5. HoldsValue(s3, 1, "bytes", m.command) /\ HoldsValue(s3, 2, "int", m.logterm)
    BY <1>1, <1>2, <1>3 DEF HoldsMore
<1>6. IsSeq(s3) /\ Framed(s3)
    BY <1>3 DEF Built
<1>7. /\ ReadField(s3, 1, "bytes") = m.command /\ ReadField(s3, 2, "int") = m.logterm
      /\ ReadField(s3, 3, "int") = m.logindex
    BY <1>3, <1>5, <1>6, ReadsValue
<1>8. ParseLogEntry(s3) = m
    BY <1>7 DEF ParseLogEntry, LogEntry
<1> QED
    BY <1>4, <1>6, <1>8 DEF IsMessage

\* RequestVoteArgs is read as it was written.
LEMMA RequestVoteArgsCodec ==
    ASSUME NEW m \in RequestVoteArgs
    PROVE  IsMessage(SerializeRequestVoteArgs(m)) /\ ParseRequestVoteArgs(SerializeRequestVoteArgs(m)) = m
<1> DEFINE s1 == WriteField(1, "int", m.term)
           s2 == s1 \o WriteField(2, "int", m.candidateid)
           s3 == s2 \o WriteField(3, "int", m.lastlogindex)
           s4 == s3 \o WriteField(4, "int", m.lastlogterm)
<1>1. Built(s1, 1) /\ HoldsValue(s1, 1, "int", m.term)
    BY FirstField DEF Scalar
<1> HIDE DEF s1
<1>2. /\ Built(s2, 2) /\ HoldsMore(s1, s2, 1)
      /\ HoldsValue(s2, 2, "int", m.candidateid)
    BY <1>1, NextField DEF Scalar
<1> HIDE DEF s2
<1>3. /\ Built(s3, 3) /\ HoldsMore(s2, s3, 2)
      /\ HoldsValue(s3, 3, "int", m.lastlogindex)
    BY <1>2, NextField DEF Scalar
<1> HIDE DEF s3
<1>4. /\ Built(s4, 4) /\ HoldsMore(s3, s4, 3)
      /\ HoldsValue(s4, 4, "int", m.lastlogterm)
    BY <1>3, NextField DEF Scalar
<1>5. SerializeRequestVoteArgs(m) = s4
    BY DEF SerializeRequestVoteArgs, s1, s2, s3
<1> HIDE DEF s4
<1>6. HoldsValue(s4, 1, "int", m.term)
    BY <1>1, <1>2, <1>3, <1>4 DEF HoldsMore
<1>7. HoldsValue(s4, 2, "int", m.candidateid)
    BY <1>2, <1>3, <1>4 DEF HoldsMore
<1>8. HoldsValue(s4, 3, "int", m.lastlogindex)
    BY <1>3, <1>4 DEF HoldsMore
<1>9. IsSeq(s4) /\ Framed(s4)
    BY <1>4 DEF Built
<1>10. /\ ReadField(s4, 1, "int") = m.term
       /\ ReadField(s4, 2, "int") = m.candidateid
       /\ ReadField(s4, 3, "int") = m.lastlogindex
       /\ ReadField(s4, 4, "int") = m.lastlogterm
    BY <1>5, <1>4, <1>6, <1>7, <1>8, <1>9, ReadsValue
<1>11. ParseRequestVoteArgs(s4) = m
    BY <1>10 DEF ParseRequestVoteArgs, RequestVoteArgs
<1> QED
    BY <1>5, <1>9, <1>11 DEF IsMessage

\* RequestVoteReply is read as it was written.
LEMMA RequestVoteReplyCodec ==
    ASSUME NEW m \in RequestVoteReply
    PROVE  IsMessage(SerializeRequestVoteReply(m)) /\ ParseRequestVoteReply(SerializeRequestVoteReply(m)) = m
<1> DEFINE s1 == WriteField(1, "int", m.term)
           s2 == s1 \o WriteField(2, "bool", m.votegranted)
           s3 == s2 \o WriteField(3, "int", m.votestate)
<1>1. Built(s1, 1) /\ HoldsValue(s1, 1, "int", m.term)
    BY FirstField DEF Scalar
<1> HIDE DEF s1
<1>2. /\ Built(s2, 2) /\ HoldsMore(s1, s2, 1)
      /\ HoldsValue(s2, 2, "bool", m.votegranted)
    BY <1>1, NextField DEF Scalar
<1> HIDE DEF s2
<1>3. /\ Built(s3, 3) /\ HoldsMore(s2, s3, 2)
      /\ HoldsValue(s3, 3, "int", m.votestate)
    BY <1>2, NextField DEF Scalar
<1>4. SerializeRequestVoteReply(m) = s3
    BY DEF SerializeRequestVoteReply, s1, s2
<1> HIDE DEF s3
<1>5. HoldsValue(s3, 1, "int", m.term)
    BY <1>1, <1>2, <1>3 DEF HoldsMore
<1>6. HoldsValue(s3, 2, "bool", m.votegranted)
    BY <1>2, <1>3 DEF HoldsMore
<1>7. IsSeq(s3) /\ Framed(s3)
    BY <1>3 DEF Built
<1>8. /\ ReadField(s3, 1, "int") = m.term
      /\ ReadField(s3, 2, "bool") = m.votegranted
      /\ ReadField(s3, 3, "int") = m.votestate
    BY <1>4, <1>3, <1>5, <1>6, <1>7, ReadsValue
<1>9. ParseRequestVoteReply(s3) = m
    BY <1>8 DEF ParseRequestVoteReply, RequestVoteReply
<1> QED
    BY <1>4, <1>7, <1>9 DEF IsMessage

\* AppendEntriesArgs is read as it was written, its entries included.
LEMMA AppendEntriesArgsCodec ==
    ASSUME NEW m \in AppendEntriesArgs
    PROVE  IsMessage(SerializeAppendEntriesArgs(m)) /\ ParseAppendEntriesArgs(SerializeAppendEntriesArgs(m)) = m
<1> DEFINE encoded == [i \in DOMAIN m.entries |-> SerializeLogEntry(m.entries[i])]
           s1 == WriteField(1, "int", m.term)
           s2 == s1 \o WriteField(2, "int", m.leaderid)
           s3 == s2 \o WriteField(3, "int", m.prevlogindex)
           s4 == s3 \o WriteField(4, "int", m.prevlogterm)
           s5 == s4 \o WriteRepeated(5, encoded)
           s6 == s5 \o WriteField(6, "int", m.leadercommit)
<1>0. /\ encoded \in Seq(Range(encoded)) /\ DOMAIN encoded = DOMAIN m.entries
      /\ \A i \in DOMAIN encoded : ParseLogEntry(encoded[i]) = m.entries[i]
    <2>1. m.entries \in Seq(LogEntry)
        BY DEF AppendEntriesArgs
    <2>2. \A i \in DOMAIN m.entries : m.entries[i] \in LogEntry
        BY <2>1, LenProperties
    <2>3. /\ DOMAIN m.entries = 1 .. Len(m.entries) /\ Len(m.entries) \in Nat
          /\ encoded \in [1 .. Len(m.entries) -> Range(encoded)]
        BY <2>1, LenProperties DEF Range
    <2>4. encoded \in Seq(Range(encoded))
        BY <2>3, SeqDef
    <2> QED
        BY <2>2, <2>4, LogEntryCodec
<1> HIDE DEF encoded
<1>1. Built(s1, 1) /\ HoldsValue(s1, 1, "int", m.term)
    BY FirstField DEF Scalar
<1> HIDE DEF s1
<1>2. /\ Built(s2, 2) /\ HoldsMore(s1, s2, 1)
      /\ HoldsValue(s2, 2, "int", m.leaderid)
    BY <1>1, NextField DEF Scalar
<1> HIDE DEF s2
<1>3. /\ Built(s3, 3) /\ HoldsMore(s2, s3, 2)
      /\ HoldsValue(s3, 3, "int", m.prevlogindex)
    BY <1>2, NextField DEF Scalar
<1> HIDE DEF s3
<1>4. /\ Built(s4, 4) /\ HoldsMore(s3, s4, 3)
      /\ HoldsValue(s4, 4, "int", m.prevlogterm)
    BY <1>3, NextField DEF Scalar
<1> HIDE DEF s4
<1>5. /\ Built(s5, 5) /\ HoldsMore(s4, s5, 4)
      /\ HoldsValues(s5, 5, encoded)
    BY <1>0, <1>4, NextRepeated DEF Scalar
<1> HIDE DEF s5
<1>6. /\ Built(s6, 6) /\ HoldsMore(s5, s6, 5)
      /\ HoldsValue(s6, 6, "int", m.leadercommit)
    BY <1>5, NextField DEF Scalar
<1>7. SerializeAppendEntriesArgs(m) = s6
    BY DEF SerializeAppendEntriesArgs, s1, s2, s3, s4, s5, encoded
<1> HIDE DEF s6
<1>8. HoldsValue(s6, 1, "int", m.term)
    BY <1>1, <1>2, <1>3, <1>4, <1>5, <1>6 DEF HoldsMore
<1>9. HoldsValue(s6, 2, "int", m.leaderid)
    BY <1>2, <1>3, <1>4, <1>5, <1>6 DEF HoldsMore
<1>10. HoldsValue(s6, 3, "int", m.prevlogindex)
    BY <1>3, <1>4, <1>5, <1>6 DEF HoldsMore
<1>11. HoldsValue(s6, 4, "int", m.prevlogterm)
    BY <1>4, <1>5, <1>6 DEF HoldsMore
<1>12. HoldsValues(s6, 5, encoded)
    BY <1>0, <1>5, <1>6 DEF HoldsMore
<1>13. IsSeq(s6) /\ Framed(s6)
    BY <1>6 DEF Built
<1>14. /\ ReadField(s6, 1, "int") = m.term
       /\ ReadField(s6, 2, "int") = m.leaderid
       /\ ReadField(s6, 3, "int") = m.prevlogindex
       /\ ReadField(s6, 4, "int") = m.prevlogterm
       /\ ValuesOf(s6, 5, "repeated") = encoded
       /\ ReadField(s6, 6, "int") = m.leadercommit
    BY <1>0, <1>7, <1>6, <1>8, <1>9, <1>10, <1>11, <1>12, <1>13, ReadsValue, ReadsValues
<1>15. [i \in DOMAIN encoded |-> ParseLogEntry(encoded[i])] = m.entries
    <2>1. m.entries \in [DOMAIN m.entries -> LogEntry]
        BY LenProperties DEF AppendEntriesArgs
    <2> QED
        BY <1>0, <2>1
<1>16. ParseAppendEntriesArgs(s6) = m
    BY <1>14, <1>15 DEF ParseAppendEntriesArgs, AppendEntriesArgs
<1> QED
    BY <1>7, <1>13, <1>16 DEF IsMessage

\* AppendEntriesReply is read as it was written.
LEMMA AppendEntriesReplyCodec ==
    ASSUME NEW m \in AppendEntriesReply
    PROVE  IsMessage(SerializeAppendEntriesReply(m)) /\ ParseAppendEntriesReply(SerializeAppendEntriesReply(m)) = m
<1> DEFINE s1 == WriteField(1, "int", m.term)
           s2 == s1 \o WriteField(2, "bool", m.success)
           s3 == s2 \o WriteField(3, "int", m.updatenextindex)
           s4 == s3 \o WriteField(4, "int", m.appstate)
<1>1. Built(s1, 1) /\ HoldsValue(s1, 1, "int", m.term)
    BY FirstField DEF Scalar
<1> HIDE DEF s1
<1>2. /\ Built(s2, 2) /\ HoldsMore(s1, s2, 1)
      /\ HoldsValue(s2, 2, "bool", m.success)
    BY <1>1, NextField DEF Scalar
<1> HIDE DEF s2
<1>3. /\ Built(s3, 3) /\ HoldsMore(s2, s3, 2)
      /\ HoldsValue(s3, 3, "int", m.updatenextindex)
    BY <1>2, NextField DEF Scalar
<1> HIDE DEF s3
<1>4. /\ Built(s4, 4) /\ HoldsMore(s3, s4, 3)
      /\ HoldsValue(s4, 4, "int", m.appstate)
    BY <1>3, NextField DEF Scalar
<1>5. SerializeAppendEntriesReply(m) = s4
    BY DEF SerializeAppendEntriesReply, s1, s2, s3
<1> HIDE DEF s4
<1>6. HoldsValue(s4, 1, "int", m.term)
    BY <1>1, <1>2, <1>3, <1>4 DEF HoldsMore
<1>7. HoldsValue(s4, 2, "bool", m.success)
    BY <1>2, <1>3, <1>4 DEF HoldsMore
<1>8. HoldsValue(s4, 3, "int", m.updatenextindex)
    BY <1>3, <1>4 DEF HoldsMore
<1>9. IsSeq(s4) /\ Framed(s4)
    BY <1>4 DEF Built
<1>10. /\ ReadField(s4, 1, "int") = m.term
       /\ ReadField(s4, 2, "bool") = m.success
       /\ ReadField(s4, 3, "int") = m.updatenextindex
       /\ ReadField(s4, 4, "int") = m.appstate
    BY <1>5, <1>4, <1>6, <1>7, <1>8, <1>9, ReadsValue
<1>11. ParseAppendEntriesReply(s4) = m
    BY <1>10 DEF ParseAppendEntriesReply, AppendEntriesReply
<1> QED
    BY <1>5, <1>9, <1>11 DEF IsMessage

\* InstallSnapshotRequest is read as it was written.
LEMMA InstallSnapshotRequestCodec ==
    ASSUME NEW m \in InstallSnapshotRequest
    PROVE  IsMessage(SerializeInstallSnapshotRequest(m)) /\ ParseInstallSnapshotRequest(SerializeInstallSnapshotRequest(m)) = m
<1> DEFINE s1 == WriteField(1, "int", m.leaderid)
           s2 == s1 \o WriteField(2, "int", m.term)
           s3 == s2 \o WriteField(3, "int", m.lastsnapshotincludeindex)
           s4 == s3 \o WriteField(4, "int", m.lastsnapshotincludeterm)
           s5 == s4 \o WriteField(5, "bytes", m.data)
<1>1. Built(s1, 1) /\ HoldsValue(s1, 1, "int", m.leaderid)
    BY FirstField DEF Scalar
<1> HIDE DEF s1
<1>2. /\ Built(s2, 2) /\ HoldsMore(s1, s2, 1)
      /\ HoldsValue(s2, 2, "int", m.term)
    BY <1>1, NextField DEF Scalar
<1> HIDE DEF s2
<1>3. /\ Built(s3, 3) /\ HoldsMore(s2, s3, 2)
      /\ HoldsValue(s3, 3, "int", m.lastsnapshotincludeindex)
    BY <1>2, NextField DEF Scalar
<1> HIDE DEF s3
<1>4. /\ Built(s4, 4) /\ HoldsMore(s3, s4, 3)
      /\ HoldsValue(s4, 4, "int", m.lastsnapshotincludeterm)
    BY <1>3, NextField DEF Scalar
<1> HIDE DEF s4
<1>5. /\ Built(s5, 5) /\ HoldsMore(s4, s5, 4)
      /\ HoldsValue(s5, 5, "bytes", m.data)
    BY <1>4, NextField DEF Scalar
<1>6. SerializeInstallSnapshotRequest(m) = s5
    BY DEF SerializeInstallSnapshotRequest, s1, s2, s3, s4
<1> HIDE DEF s5
<1>7. HoldsValue(s5, 1, "int", m.leaderid)
    BY <1>1, <1>2, <1>3, <1>4, <1>5 DEF HoldsMore
<1>8. HoldsValue(s5, 2, "int", m.term)
    BY <1>2, <1>3, <1>4, <1>5 DEF HoldsMore
<1>9. HoldsValue(s5, 3, "int", m.lastsnapshotincludeindex)
    BY <1>3, <1>4, <1>5 DEF HoldsMore
<1>10. HoldsValue(s5, 4, "int", m.lastsnapshotincludeterm)
    BY <1>4, <1>5 DEF HoldsMore
<1>11. IsSeq(s5) /\ Framed(s5)
    BY <1>5 DEF Built
<1>12. /\ ReadField(s5, 1, "int") = m.leaderid
       /\ ReadField(s5, 2, "int") = m.term
       /\ ReadField(s5, 3, "int") = m.lastsnapshotincludeindex
       /\ ReadField(s5, 4, "int") = m.lastsnapshotincludeterm
       /\ ReadField(s5, 5, "bytes") = m.data
    BY <1>6, <1>5, <1>7, <1>8, <1>9, <1>10, <1>11, ReadsValue
<1>13. ParseInstallSnapshotRequest(s5) = m
    BY <1>12 DEF ParseInstallSnapshotRequest, InstallSnapshotRequest
<1> QED
    BY <1>6, <1>11, <1>13 DEF IsMessage

\* InstallSnapshotResponse is read as it was written.
LEMMA InstallSnapshotResponseCodec ==
    ASSUME NEW m \in InstallSnapshotResponse
    PROVE  IsMessage(SerializeInstallSnapshotResponse(m)) /\ ParseInstallSnapshotResponse(SerializeInstallSnapshotResponse(m)) = m
<1> DEFINE s1 == WriteField(1, "int", m.term)
<1>1. Built(s1, 1) /\ HoldsValue(s1, 1, "int", m.term)
    BY FirstField DEF Scalar
<1>2. SerializeInstallSnapshotResponse(m) = s1
    BY DEF SerializeInstallSnapshotResponse
<1> HIDE DEF s1
<1>3. IsSeq(s1) /\ Framed(s1)
    BY <1>1 DEF Built
<1>4. /\ ReadField(s1, 1, "int") = m.term
    BY <1>2, <1>1, <1>3, ReadsValue
<1>5. ParseInstallSnapshotResponse(s1) = m
    BY <1>4 DEF ParseInstallSnapshotResponse, InstallSnapshotResponse
<1> QED
    BY <1>2, <1>3, <1>5 DEF IsMessage

\* GetArgs is read as it was written.
LEMMA GetArgsCodec ==
    ASSUME NEW m \in GetArgs
    PROVE  IsMessage(SerializeGetArgs(m)) /\ ParseGetArgs(SerializeGetArgs(m)) = m
<1> DEFINE s1 == WriteField(1, "bytes", m.key)
           s2 == s1 \o WriteField(2, "bytes", m.clientid)
           s3 == s2 \o WriteField(3, "int", m.requestid)
<1>1. Built(s1, 1) /\ HoldsValue(s1, 1, "bytes", m.key)
    BY FirstField DEF Scalar
<1> HIDE DEF s1
<1>2. /\ Built(s2, 2) /\ HoldsMore(s1, s2, 1)
      /\ HoldsValue(s2, 2, "bytes", m.clientid)
    BY <1>1, NextField DEF Scalar
<1> HIDE DEF s2
<1>3. /\ Built(s3, 3) /\ HoldsMore(s2, s3, 2)
      /\ HoldsValue(s3, 3, "int", m.requestid)
    BY <1>2, NextField DEF Scalar
<1>4. SerializeGetArgs(m) = s3
    BY DEF SerializeGetArgs, s1, s2
<1> HIDE DEF s3
<1>5. HoldsValue(s3, 1, "bytes", m.key)
    BY <1>1, <1>2, <1>3 DEF HoldsMore
<1>6. HoldsValue(s3, 2, "bytes", m.clientid)
    BY <1>2, <1>3 DEF HoldsMore
<1>7. IsSeq(s3) /\ Framed(s3)
    BY <1>3 DEF Built
<1>8. /\ ReadField(s3, 1, "bytes") = m.key
      /\ ReadField(s3, 2, "bytes") = m.clientid
      /\ ReadField(s3, 3, "int") = m.requestid
    BY <1>4, <1>3, <1>5, <1>6, <1>7, ReadsValue
<1>9. ParseGetArgs(s3) = m
    BY <1>8 DEF ParseGetArgs, GetArgs
<1> QED
    BY <1>4, <1>7, <1>9 DEF IsMessage

\* GetReply is read as it was written.
LEMMA GetReplyCodec ==
    ASSUME NEW m \in GetReply
    PROVE  IsMessage(SerializeGetReply(m)) /\ ParseGetReply(SerializeGetReply(m)) = m
<1> DEFINE s1 == WriteField(1, "bytes", m.err)
           s2 == s1 \o WriteField(2, "bytes", m.value)
<1>1. Built(s1, 1) /\ HoldsValue(s1, 1, "bytes", m.err)
    BY FirstField DEF Scalar
<1> HIDE DEF s1
<1>2. /\ Built(s2, 2) /\ HoldsMore(s1, s2, 1)
      /\ HoldsValue(s2, 2, "bytes", m.value)
    BY <1>1, NextField DEF Scalar
<1>3. SerializeGetReply(m) = s2
    BY DEF SerializeGetReply, s1
<1> HIDE DEF s2
<1>4. HoldsValue(s2, 1, "bytes", m.err)
    BY <1>1, <1>2 DEF HoldsMore
<1>5. IsSeq(s2) /\ Framed(s2)
    BY <1>2 DEF Built
<1>6. /\ ReadField(s2, 1, "bytes") = m.err
      /\ ReadField(s2, 2, "bytes") = m.value
    BY <1>3, <1>2, <1>4, <1>5, ReadsValue
<1>7. ParseGetReply(s2) = m
    BY <1>6 DEF ParseGetReply, GetReply
<1> QED
    BY <1>3, <1>5, <1>7 DEF IsMessage

\* PutAppendArgs is read as it was written.
LEMMA PutAppendArgsCodec ==
    ASSUME NEW m \in PutAppendArgs
    PROVE  IsMessage(SerializePutAppendArgs(m)) /\ ParsePutAppendArgs(SerializePutAppendArgs(m)) = m
<1> DEFINE s1 == WriteField(1, "bytes", m.key)
           s2 == s1 \o WriteField(2, "bytes", m.value)
           s3 == s2 \o WriteField(3, "bytes", m.op)
           s4 == s3 \o WriteField(4, "bytes", m.clientid)
           s5 == s4 \o WriteField(5, "int", m.requestid)
           s6 == s5 \o WriteField(6, "int", m.ttlms)
<1>1. Built(s1, 1) /\ HoldsValue(s1, 1, "bytes", m.key)
    BY FirstField DEF Scalar
<1> HIDE DEF s1
<1>2. /\ Built(s2, 2) /\ HoldsMore(s1, s2, 1)
      /\ HoldsValue(s2, 2, "bytes", m.value)
    BY <1>1, NextField DEF Scalar
<1> HIDE DEF s2
<1>3. /\ Built(s3, 3) /\ HoldsMore(s2, s3, 2)
      /\ HoldsValue(s3, 3, "bytes", m.op)
    BY <1>2, NextField DEF Scalar
<1> HIDE DEF s3
<1>4. /\ Built(s4, 4) /\ HoldsMore(s3, s4, 3)
      /\ HoldsValue(s4, 4, "bytes", m.clientid)
    BY <1>3, NextField DEF Scalar
<1> HIDE DEF s4
<1>5. /\ Built(s5, 5) /\ HoldsMore(s4, s5, 4)
      /\ HoldsValue(s5, 5, "int", m.requestid)
    BY <1>4, NextField DEF Scalar
<1> HIDE DEF s5
<1>6. /\ Built(s6, 6) /\ HoldsMore(s5, s6, 5)
      /\ HoldsValue(s6, 6, "int", m.ttlms)
    BY <1>5, NextField DEF Scalar
<1>7. SerializePutAppendArgs(m) = s6
    BY DEF SerializePutAppendArgs, s1, s2, s3, s4, s5
<1> HIDE DEF s6
<1>8. HoldsValue(s6, 1, "bytes", m.key)
    BY <1>1, <1>2, <1>3, <1>4, <1>5, <1>6 DEF HoldsMore
<1>9. HoldsValue(s6, 2, "bytes", m.value)
    BY <1>2, <1>3, <1>4, <1>5, <1>6 DEF HoldsMore
<1>10. HoldsValue(s6, 3, "bytes", m.op)
    BY <1>3, <1>4, <1>5, <1>6 DEF HoldsMore
<1>11. HoldsValue(s6, 4, "bytes", m.clientid)
    BY <1>4, <1>5, <1>6 DEF HoldsMore
<1>12. HoldsValue(s6, 5, "int", m.requestid)
    BY <1>5, <1>6 DEF HoldsMore
<1>13. IsSeq(s6) /\ Framed(s6)
    BY <1>6 DEF Built
<1>14. /\ ReadField(s6, 1, "bytes") = m.key
       /\ ReadField(s6, 2, "bytes") = m.value
       /\ ReadField(s6, 3, "bytes") = m.op
       /\ ReadField(s6, 4, "bytes") = m.clientid
       /\ ReadField(s6, 5, "int") = m.requestid
       /\ ReadField(s6, 6, "int") = m.ttlms
    BY <1>7, <1>6, <1>8, <1>9, <1>10, <1>11, <1>12, <1>13, ReadsValue
<1>15. ParsePutAppendArgs(s6) = m
    BY <1>14 DEF ParsePutAppendArgs, PutAppendArgs
<1> QED
    BY <1>7, <1>13, <1>15 DEF IsMessage

\* PutAppendReply is read as it was written.
LEMMA PutAppendReplyCodec ==
    ASSUME NEW m \in PutAppendReply
    PROVE  IsMessage(SerializePutAppendReply(m)) /\ ParsePutAppendReply(SerializePutAppendReply(m)) = m
<1> DEFINE s1 == WriteField(1, "bytes", m.err)
<1>1. Built(s1, 1) /\ HoldsValue(s1, 1, "bytes", m.err)
    BY FirstField DEF Scalar
<1>2. SerializePutAppendReply(m) = s1
    BY DEF SerializePutAppendReply
<1> HIDE DEF s1
<1>3. IsSeq(s1) /\ Framed(s1)
    BY <1>1 DEF Built
<1>4. /\ ReadField(s1, 1, "bytes") = m.err
    BY <1>2, <1>1, <1>3, ReadsValue
<1>5. ParsePutAppendReply(s1) = m
    BY <1>4 DEF ParsePutAppendReply, PutAppendReply
<1> QED
    BY <1>2, <1>3, <1>5 DEF IsMessage

\* RpcHeader is read as it was written.
LEMMA RpcHeaderCodec ==
    ASSUME NEW m,
           m = [service_name |-> m.service_name, method_name |-> m.method_name,
                args_size |-> m.args_size]
    PROVE  IsMessage(SerializeRpcHeader(m)) /\ ParseRpcHeader(SerializeRpcHeader(m)) = m
<1> DEFINE s1 == WriteField(1, "bytes", m.service_name)
           s2 == s1 \o WriteField(2, "bytes", m.method_name)
           s3 == s2 \o WriteField(3, "int", m.args_size)
<1>1. Built(s1, 1) /\ HoldsValue(s1, 1, "bytes", m.service_name)
    BY FirstField DEF Scalar
<1> HIDE DEF s1
<1>2. /\ Built(s2, 2) /\ HoldsMore(s1, s2, 1)
      /\ HoldsValue(s2, 2, "bytes", m.method_name)
    BY <1>1, NextField DEF Scalar
<1> HIDE DEF s2
<1>3. /\ Built(s3, 3) /\ HoldsMore(s2, s3, 2)
      /\ HoldsValue(s3, 3, "int", m.args_size)
    BY <1>2, NextField DEF Scalar
<1>4. SerializeRpcHeader(m) = s3
    BY DEF SerializeRpcHeader, s1, s2
<1> HIDE DEF s3
<1>5. HoldsValue(s3, 1, "bytes", m.service_name)
    BY <1>1, <1>2, <1>3 DEF HoldsMore
<1>6. HoldsValue(s3, 2, "bytes", m.method_name)
    BY <1>2, <1>3 DEF HoldsMore
<1>7. IsSeq(s3) /\ Framed(s3)
    BY <1>3 DEF Built
<1>8. /\ ReadField(s3, 1, "bytes") = m.service_name
      /\ ReadField(s3, 2, "bytes") = m.method_name
      /\ ReadField(s3, 3, "int") = m.args_size
    BY <1>4, <1>3, <1>5, <1>6, <1>7, ReadsValue
<1>9. ParseRpcHeader(s3) = m
    BY <1>8 DEF ParseRpcHeader
<1> QED
    BY <1>4, <1>7, <1>9 DEF IsMessage

-----------------------------------------------------------------------------
(* The methods, and the bytes of a call.                                   *)

Methods == RaftMethods \cup KvMethods

\* The server parses the arguments that the caller passed.
THEOREM RequestCodec ==
    ASSUME NEW method \in Methods, NEW args \in Request[method]
    PROVE  /\ IsMessage(SerializeRequest(method, args))
           /\ ParseRequest(method, SerializeRequest(method, args)) = args
<1>1. args \in RequestType[method]
    BY RpcAssumption DEF Methods
<1>2. CASE method = "AppendEntries"
    <2>1. args \in AppendEntriesArgs
        BY <1>1, <1>2 DEF RequestType
    <2> QED
        BY <1>2, <2>1, AppendEntriesArgsCodec
        DEF SerializeRequest, ParseRequest, SerializeRaftRequest, ParseRaftRequest, RaftMethods
<1>3. CASE method = "InstallSnapshot"
    <2>1. args \in InstallSnapshotRequest
        BY <1>1, <1>3 DEF RequestType
    <2> QED
        BY <1>3, <2>1, InstallSnapshotRequestCodec
        DEF SerializeRequest, ParseRequest, SerializeRaftRequest, ParseRaftRequest, RaftMethods
<1>4. CASE method = "RequestVote"
    <2>1. args \in RequestVoteArgs
        BY <1>1, <1>4 DEF RequestType
    <2> QED
        BY <1>4, <2>1, RequestVoteArgsCodec
        DEF SerializeRequest, ParseRequest, SerializeRaftRequest, ParseRaftRequest, RaftMethods
<1>5. CASE method = "PutAppend"
    <2>1. args \in PutAppendArgs
        BY <1>1, <1>5 DEF RequestType
    <2> QED
        BY <1>5, <2>1, PutAppendArgsCodec DEF SerializeRequest, ParseRequest, RaftMethods
<1>6. CASE method = "Get"
    <2>1. args \in GetArgs
        BY <1>1, <1>6 DEF RequestType
    <2> QED
        BY <1>6, <2>1, GetArgsCodec DEF SerializeRequest, ParseRequest, RaftMethods
<1> QED
    BY <1>2, <1>3, <1>4, <1>5, <1>6 DEF Methods, RaftMethods, KvMethods

\* The caller parses the answer that the handler gave.
THEOREM ResponseCodec ==
    ASSUME NEW method \in Methods, NEW reply \in Reply[method]
    PROVE  /\ IsMessage(SerializeResponse(method, reply))
           /\ ParseResponse(method, SerializeResponse(method, reply)) = reply
<1>1. reply \in ResponseType[method]
    BY RpcAssumption DEF Methods
<1>2. CASE method = "AppendEntries"
    <2>1. reply \in AppendEntriesReply
        BY <1>1, <1>2 DEF ResponseType
    <2> QED
        BY <1>2, <2>1, AppendEntriesReplyCodec
        DEF SerializeResponse, ParseResponse, SerializeRaftResponse, ParseRaftResponse, RaftMethods
<1>3. CASE method = "InstallSnapshot"
    <2>1. reply \in InstallSnapshotResponse
        BY <1>1, <1>3 DEF ResponseType
    <2> QED
        BY <1>3, <2>1, InstallSnapshotResponseCodec
        DEF SerializeResponse, ParseResponse, SerializeRaftResponse, ParseRaftResponse, RaftMethods
<1>4. CASE method = "RequestVote"
    <2>1. reply \in RequestVoteReply
        BY <1>1, <1>4 DEF ResponseType
    <2> QED
        BY <1>4, <2>1, RequestVoteReplyCodec
        DEF SerializeResponse, ParseResponse, SerializeRaftResponse, ParseRaftResponse, RaftMethods
<1>5. CASE method = "PutAppend"
    <2>1. reply \in PutAppendReply
        BY <1>1, <1>5 DEF ResponseType
    <2> QED
        BY <1>5, <2>1, PutAppendReplyCodec DEF SerializeResponse, ParseResponse, RaftMethods
<1>6. CASE method = "Get"
    <2>1. reply \in GetReply
        BY <1>1, <1>6 DEF ResponseType
    <2> QED
        BY <1>6, <2>1, GetReplyCodec DEF SerializeResponse, ParseResponse, RaftMethods
<1> QED
    BY <1>2, <1>3, <1>4, <1>5, <1>6 DEF Methods, RaftMethods, KvMethods

\* The service of each method is one that is offered (NotifyService).
LEMMA Services ==
    ASSUME NEW method \in Methods
    PROVE  /\ ServiceOf(method) \in DOMAIN m_serviceMap
           /\ method \in m_serviceMap[ServiceOf(method)]
           /\ method # Long /\ ServiceOf(method) # Long
<1>1. DOMAIN m_serviceMap = {"raftRpc", "kvServerRpc"}
    BY DEF m_serviceMap
<1>2. \E s \in DOMAIN m_serviceMap : method \in m_serviceMap[s]
    BY DEF m_serviceMap, Methods
<1>3. /\ ServiceOf(method) \in DOMAIN m_serviceMap
      /\ method \in m_serviceMap[ServiceOf(method)]
    BY <1>2 DEF ServiceOf
<1>4. ServiceOf(method) = "raftRpc" \/ ServiceOf(method) = "kvServerRpc"
    BY <1>1, <1>3
<1> QED
    BY <1>3, <1>4 DEF Methods, RaftMethods, KvMethods, Long

Header(method, args) ==
    [service_name |-> ServiceOf(method), method_name |-> method,
     args_size |-> Len(SerializeRequest(method, args))]

HeaderBytes(method, args) == SerializeRpcHeader(Header(method, args))

\* The lengths of the header and of the arguments in the bytes of a call.
HeaderLen(method, args) == Len(HeaderBytes(method, args))
ArgsLen(method, args) == Len(SerializeRequest(method, args))

\* OnMessage reads the header that CallMethod wrote.
LEMMA HeaderCodec ==
    ASSUME NEW method \in Methods, NEW args \in Request[method]
    PROVE  /\ IsMessage(HeaderBytes(method, args))
           /\ ParseRpcHeader(HeaderBytes(method, args)) = Header(method, args)
<1>1. Header(method, args) = [service_name |-> Header(method, args).service_name,
                              method_name |-> Header(method, args).method_name,
                              args_size |-> Header(method, args).args_size]
    BY DEF Header
<1> QED
    BY <1>1, RpcHeaderCodec DEF HeaderBytes

\* A field is two halves, or nothing.
LEMMA FieldLength ==
    ASSUME NEW n, NEW kind, NEW v
    PROVE  /\ v = Default(kind) => Len(WriteField(n, kind, v)) = 0
           /\ v # Default(kind) => Len(WriteField(n, kind, v)) = 2
<1>1. CASE v = Default(kind)
    BY <1>1 DEF WriteField
<1>2. CASE v # Default(kind)
    <2> DEFINE at(h) == Half(n, kind, h, v, kind = "bytes" /\ v = Long)
    <2>1. WriteField(n, kind, v) = [h \in 1 .. 2 |-> at(h)]
        BY <1>2 DEF WriteField
    <2> HIDE DEF at
    <2> QED
        BY <2>1, <1>2
<1> QED
    BY <1>1, <1>2

\* The name that a header without the field has.
NoName == ""

\* A header and its fields.
HeaderOf(service, method, size) ==
    SerializeRpcHeader([service_name |-> service, method_name |-> method, args_size |-> size])
ServiceField(service) == WriteField(1, "bytes", service)
MethodField(method) == WriteField(2, "bytes", method)
SizeField(size) == WriteField(3, "int", size)

\* The lengths of the fields.
LEMMA HeaderLengths ==
    ASSUME NEW service, NEW method, NEW size
    PROVE  /\ IsSeq(ServiceField(service)) /\ IsSeq(MethodField(method)) /\ IsSeq(SizeField(size))
           /\ service # NoName => Len(ServiceField(service)) = 2
           /\ method # NoName => Len(MethodField(method)) = 2
           /\ size # 0 => Len(SizeField(size)) = 2
           /\ Len(ServiceField(NoName)) = 0 /\ Len(MethodField(NoName)) = 0 /\ Len(SizeField(0)) = 0
<1>1. Default("bytes") = NoName /\ Default("int") = 0
    BY Zenon DEF Default, NoName
<1>2. IsSeq(ServiceField(service)) /\ IsSeq(MethodField(method)) /\ IsSeq(SizeField(size))
    BY WrittenField DEF Scalar, ServiceField, MethodField, SizeField
<1>3. service # NoName => Len(ServiceField(service)) = 2
    BY <1>1, FieldLength, Zenon DEF ServiceField
<1>4. method # NoName => Len(MethodField(method)) = 2
    BY <1>1, FieldLength, Zenon DEF MethodField
<1>5. size # 0 => Len(SizeField(size)) = 2
    BY <1>1, FieldLength, Zenon DEF SizeField
<1>6. Len(ServiceField(NoName)) = 0 /\ Len(MethodField(NoName)) = 0 /\ Len(SizeField(0)) = 0
    BY <1>1, FieldLength, Zenon DEF ServiceField, MethodField, SizeField
<1> QED
    BY <1>2, <1>3, <1>4, <1>5, <1>6

\* A header is its three fields, one behind the other.
LEMMA HeaderFields ==
    ASSUME NEW service, NEW method, NEW size
    PROVE  /\ IsSeq(HeaderOf(service, method, size))
           /\ Len(HeaderOf(service, method, size))
                 = Len(ServiceField(service)) + Len(MethodField(method)) + Len(SizeField(size))
           /\ \A i \in 1 .. Len(ServiceField(service)) :
                 HeaderOf(service, method, size)[i] = ServiceField(service)[i]
           /\ \A i \in 1 .. Len(MethodField(method)) :
                 HeaderOf(service, method, size)[Len(ServiceField(service)) + i] = MethodField(method)[i]
<1>1. PICK w1, w2, w3 : w1 = ServiceField(service) /\ w2 = MethodField(method) /\ w3 = SizeField(size)
    OBVIOUS
<1>2. IsSeq(w1) /\ IsSeq(w2) /\ IsSeq(w3)
    BY <1>1, HeaderLengths
<1>3. Len(w1) \in Nat /\ Len(w2) \in Nat /\ Len(w3) \in Nat
    BY <1>2, SeqShape
<1>4. HeaderOf(service, method, size) = (w1 \o w2) \o w3
    BY <1>1 DEF HeaderOf, SerializeRpcHeader, ServiceField, MethodField, SizeField
<1>5. PICK q, b : q = w1 \o w2 /\ b = HeaderOf(service, method, size)
    OBVIOUS
<1>6. /\ IsSeq(q) /\ Len(q) = Len(w1) + Len(w2)
      /\ \A i \in 1 .. Len(w1) : q[i] = w1[i]
      /\ \A i \in 1 .. Len(w2) : q[Len(w1) + i] = w2[i]
    BY <1>2, <1>5, Joined
<1>7. b = q \o w3
    BY <1>4, <1>5
<1>8. IsSeq(b) /\ Len(b) = Len(q) + Len(w3) /\ \A i \in 1 .. Len(q) : b[i] = q[i]
    <2>1. /\ IsSeq(q \o w3) /\ Len(q \o w3) = Len(q) + Len(w3)
          /\ \A i \in 1 .. Len(q) : (q \o w3)[i] = q[i]
        BY <1>2, <1>6, Joined
    <2> QED
        BY <1>7, <2>1, Zenon
<1>9. Len(b) = Len(w1) + Len(w2) + Len(w3)
    BY <1>3, <1>6, <1>8
<1>10. \A i \in 1 .. Len(w1) : b[i] = w1[i]
    <2>1. \A i \in 1 .. Len(w1) : i \in 1 .. Len(q)
        BY <1>3, <1>6
    <2> QED
        BY <1>6, <1>8, <2>1
<1>11. \A i \in 1 .. Len(w2) : b[Len(w1) + i] = w2[i]
    <2>1. \A i \in 1 .. Len(w2) : Len(w1) + i \in 1 .. Len(q)
        BY <1>3, <1>6
    <2> QED
        BY <1>6, <1>8, <2>1
<1> QED
    BY <1>1, <1>5, <1>8, <1>9, <1>10, <1>11

\* A header is read as it was written.
LEMMA HeaderRead ==
    ASSUME NEW service, NEW method, NEW size
    PROVE  ParseRpcHeader(HeaderOf(service, method, size))
               = [service_name |-> service, method_name |-> method, args_size |-> size]
<1>1. PICK m : m = [service_name |-> service, method_name |-> method, args_size |-> size]
    OBVIOUS
<1>2. m = [service_name |-> m.service_name, method_name |-> m.method_name, args_size |-> m.args_size]
    BY <1>1
<1>3. ParseRpcHeader(SerializeRpcHeader(m)) = m
    BY <1>2, RpcHeaderCodec
<1> QED
    BY <1>1, <1>3 DEF HeaderOf

\* A part of a header that parses ends between two fields: it is a header with fewer fields.
LEMMA PartOfHeader ==
    ASSUME NEW service, NEW method, service # NoName, method # NoName, NEW size,
           NEW b, b = HeaderOf(service, method, size),
           NEW p, IsSeq(p), Parses(p), Len(p) < Len(b), \A i \in 1 .. Len(p) : p[i] = b[i]
    PROVE  p \in {HeaderOf(NoName, NoName, 0), HeaderOf(service, NoName, 0), HeaderOf(service, method, 0)}
<1>1. PICK w1, w2 : w1 = ServiceField(service) /\ w2 = MethodField(method)
    OBVIOUS
<1>2. /\ Len(w1) = 2 /\ Len(w2) = 2 /\ Len(SizeField(size)) \in {0, 2}
      /\ Len(ServiceField(NoName)) = 0 /\ Len(MethodField(NoName)) = 0 /\ Len(SizeField(0)) = 0
    BY <1>1, HeaderLengths
<1>3. /\ Len(b) \in {4, 6}
      /\ \A i \in 1 .. 2 : b[i] = w1[i]
      /\ \A i \in 1 .. 2 : b[2 + i] = w2[i]
    <2>1. PICK w3 : w3 = SizeField(size)
        OBVIOUS
    <2>2. /\ Len(b) = Len(w1) + Len(w2) + Len(w3)
          /\ \A i \in 1 .. Len(w1) : b[i] = w1[i]
          /\ \A i \in 1 .. Len(w2) : b[Len(w1) + i] = w2[i]
        <3>1. Len(b) = Len(w1) + Len(w2) + Len(w3)
            BY <1>1, <2>1, HeaderFields
        <3>2. \A i \in 1 .. Len(w1) : b[i] = w1[i]
            BY <1>1, HeaderFields
        <3>3. \A i \in 1 .. Len(w2) : b[Len(w1) + i] = w2[i]
            BY <1>1, HeaderFields
        <3> QED
            BY <3>1, <3>2, <3>3
    <2>3. Len(w1) = 2 /\ Len(w2) = 2 /\ Len(w3) \in {0, 2}
        BY <1>2, <2>1
    <2>4. Len(b) \in {4, 6}
        <3>1. CASE Len(w3) = 0
            <4>1. Len(b) = 4
                BY <2>2, <2>3, <3>1
            <4> QED
                BY <4>1
        <3>2. CASE Len(w3) = 2
            <4>1. Len(b) = 6
                BY <2>2, <2>3, <3>2
            <4> QED
                BY <4>1
        <3> QED
            BY <2>3, <3>1, <3>2
    <2> QED
        BY <2>2, <2>3, <2>4
<1>4. PICK l \in Nat : l = Len(p)
    BY SeqShape
<1>5. Len(p) \in {0, 2, 4}
    <2>1. l % 2 = 0
        BY <1>4 DEF Parses
    <2>2. l < 6
        <3>1. CASE Len(b) = 4
            BY <1>4, <3>1
        <3>2. CASE Len(b) = 6
            BY <1>4, <3>2
        <3> QED
            BY <1>3, <3>1, <3>2
    <2>3. l \in {0, 1, 2, 3, 4, 5}
        BY <2>2
    <2>4. 1 % 2 = 1 /\ 3 % 2 = 1 /\ 5 % 2 = 1
        OBVIOUS
    <2>5. l # 1 /\ l # 3 /\ l # 5
        BY <2>1, <2>4
    <2> QED
        BY <1>4, <2>3, <2>5
<1>6. CASE Len(p) = 0
    <2>1. PICK c, e1, e2 : c = HeaderOf(NoName, NoName, 0) /\ e1 = ServiceField(NoName) /\ e2 = MethodField(NoName)
        OBVIOUS
    <2>2. IsSeq(c) /\ Len(c) = Len(e1) + Len(e2) + Len(SizeField(0))
        BY <2>1, HeaderFields
    <2>3. Len(c) = 0
        BY <1>2, <2>1, <2>2
    <2>4. p = c
        BY <1>6, <2>2, <2>3, SeqExtensional
    <2> QED
        BY <2>1, <2>4
<1>7. CASE Len(p) = 2
    <2>1. PICK c, e2 : c = HeaderOf(service, NoName, 0) /\ e2 = MethodField(NoName)
        OBVIOUS
    <2>2. /\ IsSeq(c) /\ Len(c) = Len(w1) + Len(e2) + Len(SizeField(0))
          /\ \A i \in 1 .. Len(w1) : c[i] = w1[i]
        BY <1>1, <2>1, HeaderFields
    <2>3. Len(c) = 2 /\ \A i \in 1 .. 2 : c[i] = w1[i]
        <3>1. PICK e3 : e3 = SizeField(0)
            OBVIOUS
        <3>2. Len(w1) = 2 /\ Len(e2) = 0 /\ Len(e3) = 0 /\ Len(c) = Len(w1) + Len(e2) + Len(e3)
            BY <1>2, <2>1, <2>2, <3>1
        <3>3. Len(c) = 2
            BY <3>2
        <3> QED
            BY <2>2, <3>2, <3>3
    <2>4. \A i \in 1 .. 2 : p[i] = c[i]
        BY <1>3, <1>7, <2>3
    <2>5. p = c
        BY <1>7, <2>2, <2>3, <2>4, SeqExtensional
    <2> QED
        BY <2>1, <2>5
<1>8. CASE Len(p) = 4
    <2>1. PICK c : c = HeaderOf(service, method, 0)
        OBVIOUS
    <2>2. /\ IsSeq(c) /\ Len(c) = Len(w1) + Len(w2) + Len(SizeField(0))
          /\ \A i \in 1 .. Len(w1) : c[i] = w1[i]
          /\ \A i \in 1 .. Len(w2) : c[Len(w1) + i] = w2[i]
        BY <1>1, <2>1, HeaderFields
    <2>6. Len(c) = 4
        <3>1. PICK e3 : e3 = SizeField(0)
            OBVIOUS
        <3>2. Len(w1) = 2 /\ Len(w2) = 2 /\ Len(e3) = 0 /\ Len(c) = Len(w1) + Len(w2) + Len(e3)
            BY <1>2, <2>2, <3>1
        <3> QED
            BY <3>2
    <2>3. Len(c) = 4 /\ (\A i \in 1 .. 2 : c[i] = w1[i]) /\ (\A i \in 1 .. 2 : c[2 + i] = w2[i])
        BY <1>2, <2>2, <2>6
    <2>4. \A i \in 1 .. 4 : p[i] = c[i]
        <3>1. p[1] = c[1] /\ p[2] = c[2]
            BY <1>3, <1>8, <2>3
        <3>2. p[2 + 1] = c[2 + 1] /\ p[2 + 2] = c[2 + 2]
            BY <1>3, <1>8, <2>3
        <3> QED
            BY <3>1, <3>2
    <2>5. p = c
        BY <1>8, <2>2, <2>3, <2>4, SeqExtensional
    <2> QED
        BY <2>1, <2>5
<1> QED
    BY <1>5, <1>6, <1>7, <1>8

\* Nothing has no name.
LEMMA NamesNothing ==
    /\ NoName \notin Methods /\ NoName \notin DOMAIN m_serviceMap
    /\ \A v \in DOMAIN m_serviceMap : NoName \notin m_serviceMap[v]
<1>1. /\ NoName # "AppendEntries" /\ NoName # "InstallSnapshot" /\ NoName # "RequestVote"
      /\ NoName # "PutAppend" /\ NoName # "Get" /\ NoName # "raftRpc" /\ NoName # "kvServerRpc"
    BY Zenon DEF NoName
<1>2. NoName \notin RaftMethods /\ NoName \notin KvMethods
    BY <1>1 DEF RaftMethods, KvMethods
<1> QED
    BY <1>1, <1>2 DEF Methods, m_serviceMap

\* So it names no method, or lacks nothing but the length of the arguments.
LEMMA HeaderBegins ==
    ASSUME NEW method \in Methods, NEW args \in Request[method],
           NEW p, IsSeq(p), Parses(p), Len(p) < HeaderLen(method, args),
           \A i \in 1 .. Len(p) : p[i] = HeaderBytes(method, args)[i]
    PROVE  \/ ParseRpcHeader(p).method_name = NoName
           \/ ParseRpcHeader(p) = [service_name |-> ServiceOf(method), method_name |-> method,
                                    args_size |-> 0]
<1>1. PICK service, b : service = ServiceOf(method) /\ b = HeaderBytes(method, args)
    OBVIOUS
<1>2. service # NoName /\ method # NoName
    <2>1. service \in DOMAIN m_serviceMap
        BY <1>1, Services
    <2> QED
        BY <2>1, NamesNothing
<1>3. b = HeaderOf(service, method, ArgsLen(method, args))
    BY <1>1 DEF HeaderBytes, Header, ArgsLen, HeaderOf
<1>4. Len(p) < Len(b) /\ \A i \in 1 .. Len(p) : p[i] = b[i]
    BY <1>1 DEF HeaderLen
<1>5. p \in {HeaderOf(NoName, NoName, 0), HeaderOf(service, NoName, 0), HeaderOf(service, method, 0)}
    BY <1>2, <1>3, <1>4, PartOfHeader
<1>6. CASE p = HeaderOf(service, method, 0)
    BY <1>1, <1>6, HeaderRead
<1>7. CASE p = HeaderOf(NoName, NoName, 0)
    <2>1. ParseRpcHeader(p) = [service_name |-> NoName, method_name |-> NoName, args_size |-> 0]
        BY <1>7, HeaderRead
    <2> QED
        BY <2>1
<1>8. CASE p = HeaderOf(service, NoName, 0)
    <2>1. ParseRpcHeader(p) = [service_name |-> service, method_name |-> NoName, args_size |-> 0]
        BY <1>8, HeaderRead
    <2> QED
        BY <2>1
<1> QED
    BY <1>5, <1>6, <1>7, <1>8

\* The bytes of a request: the prefix, the header, the arguments.
LEMMA BufferShape ==
    ASSUME NEW method \in Methods, NEW args \in Request[method], NEW id,
           NEW b, b = SendBuffer(method, args, id),
           NEW h, h = HeaderLen(method, args), NEW n, n = ArgsLen(method, args)
    PROVE  /\ IsSeq(b) /\ h \in Nat /\ n \in Nat /\ Len(b) = 1 + h + n
           /\ DOMAIN b = 1 .. 1 + h + n
           /\ b[1] = Prefix(h, id)
           /\ \A j \in 2 .. Len(b) : b[j].half \in {1, 2}
           /\ \A j \in 1 .. h : b[1 + j] = HeaderBytes(method, args)[j]
           /\ \A j \in 1 .. n : b[1 + h + j] = SerializeRequest(method, args)[j]
<1> DEFINE p == <<Prefix(h, id)>>
           s == HeaderBytes(method, args)
           a == SerializeRequest(method, args)
           q == p \o s
<1>2. b = q \o a
    <2>1. Serialized[method][args] = [header |-> s, args_str |-> a]
        BY DEF Serialized, Methods, Header, HeaderBytes
    <2> QED
        BY <2>1 DEF SendBuffer, HeaderLen
<1>3. IsSeq(s) /\ Framed(s) /\ h = Len(s)
    BY HeaderCodec DEF IsMessage, HeaderLen
<1>4. IsSeq(a) /\ Framed(a) /\ n = Len(a)
    BY RequestCodec DEF IsMessage, ArgsLen
<1>5. IsSeq(p) /\ Len(p) = 1 /\ p[1] = Prefix(h, id)
    <2>1. p \in Seq({Prefix(h, id)})
        OBVIOUS
    <2> QED
        BY <2>1, SeqIsSeq
<1> HIDE DEF s, a, p
<1>7. /\ IsSeq(q) /\ h \in Nat /\ Len(q) = 1 + h /\ DOMAIN s = 1 .. h
      /\ q[1] = Prefix(h, id) /\ \A j \in 1 .. h : q[1 + j] = s[j]
    <2>1. Len(s) \in Nat /\ DOMAIN s = 1 .. Len(s)
        BY <1>3, SeqShape
    <2>2. IsSeq(q) /\ Len(q) = Len(p) + Len(s)
        BY <1>3, <1>5, Joined
    <2>3. \A j \in 1 .. Len(p) : q[j] = p[j]
        BY <1>3, <1>5, Joined
    <2>4. \A j \in 1 .. Len(s) : q[Len(p) + j] = s[j]
        <3>1. IsSeq(p) /\ IsSeq(s)
            BY <1>3, <1>5
        <3> QED
            BY <3>1, Joined
    <2> HIDE DEF q
    <2> QED
        BY <1>3, <1>5, <2>1, <2>2, <2>3, <2>4
<1> HIDE DEF q
<1>8. /\ IsSeq(b) /\ n \in Nat /\ Len(b) = 1 + h + n /\ DOMAIN b = 1 .. 1 + h + n
      /\ \A j \in 1 .. 1 + h : b[j] = q[j]
      /\ \A j \in 1 .. n : b[1 + h + j] = a[j]
      /\ DOMAIN a = 1 .. n
    <2>1. Len(a) \in Nat /\ DOMAIN a = 1 .. Len(a)
        BY <1>4, SeqShape
    <2>2. IsSeq(q \o a) /\ Len(q \o a) = Len(q) + Len(a)
        BY <1>4, <1>7, Joined
    <2>3. \A j \in 1 .. Len(q) : (q \o a)[j] = q[j]
        BY <1>4, <1>7, Joined
    <2>4. \A j \in 1 .. Len(a) : (q \o a)[Len(q) + j] = a[j]
        BY <1>4, <1>7, Joined
    <2>5. IsSeq(b) /\ Len(b) = 1 + h + n /\ n \in Nat
        BY <1>2, <1>4, <1>7, <2>1, <2>2
    <2>6. DOMAIN b = 1 .. 1 + h + n
        BY <2>5, SeqShape
    <2>7. \A j \in 1 .. 1 + h : b[j] = q[j]
        BY <1>2, <1>7, <2>3
    <2>8. \A j \in 1 .. n : b[1 + h + j] = a[j]
        <3>1. \A j \in 1 .. n : (q \o a)[1 + h + j] = a[j]
            BY <1>4, <1>7, <2>4
        <3> QED
            BY <1>2, <3>1
    <2>9. DOMAIN a = 1 .. n
        BY <1>4, <2>1
    <2> QED
        BY <2>5, <2>6, <2>7, <2>8, <2>9
<1>9. b[1] = Prefix(h, id) /\ \A j \in 1 .. h : b[1 + j] = s[j]
    <2>1. 1 \in 1 .. 1 + h /\ \A j \in 1 .. h : 1 + j \in 1 .. 1 + h
        BY <1>7
    <2>2. b[1] = q[1] /\ \A j \in 1 .. h : b[1 + j] = q[1 + j]
        BY <2>1, <1>8
    <2> QED
        BY <2>2, <1>7
<1>10. ASSUME NEW j \in 2 .. 1 + h + n
       PROVE  b[j].half \in {1, 2}
    <2>1. \/ j - 1 \in 1 .. h /\ j = 1 + (j - 1)
          \/ j - 1 - h \in 1 .. n /\ j = 1 + h + (j - 1 - h)
        <3>1. h \in Nat /\ n \in Nat
            BY <1>7, <1>8
        <3> QED
            BY <3>1
    <2>2. CASE j - 1 \in 1 .. h /\ j = 1 + (j - 1)
        <3>1. PICK i \in 1 .. h : j = 1 + i
            BY <2>2
        <3>2. s[i].half \in {1, 2}
            BY <1>3, <1>7 DEF Framed
        <3>3. b[1 + i] = s[i]
            BY <1>9
        <3> QED
            BY <3>1, <3>2, <3>3
    <2>3. CASE j - 1 - h \in 1 .. n /\ j = 1 + h + (j - 1 - h)
        <3>1. PICK i \in 1 .. n : j = 1 + h + i
            BY <2>3
        <3>2. a[i].half \in {1, 2}
            BY <1>4, <1>8 DEF Framed
        <3>3. b[1 + h + i] = a[i]
            BY <1>8
        <3> QED
            BY <3>1, <3>2, <3>3
    <2> QED
        BY <2>1, <2>2, <2>3
<1> QED
    BY <1>7, <1>8, <1>9, <1>10 DEF s, a

\* The smaller of two naturals.
LEMMA MinOf ==
    ASSUME NEW x \in Nat, NEW y \in Nat, x <= y
    PROVE  Min({x, y}) = x /\ Min({y, x}) = x
<1>1. {y, x} = {x, y}
    OBVIOUS
<1>2. \E e \in {x, y} : \A f \in {x, y} : e <= f
    OBVIOUS
<1>3. Min({x, y}) \in {x, y} /\ \A f \in {x, y} : Min({x, y}) <= f
    BY <1>2 DEF Min
<1> QED
    BY <1>1, <1>3

\* What OnMessage decodes from a beginning of the bytes of a call, whatever follows: that
\* call, or nothing, or - cut behind the method name - the call with the default arguments.
LEMMA DecodedExactly ==
    ASSUME NEW method \in Methods, NEW args \in Request[method], NEW id,
           NEW b, b = SendBuffer(method, args, id),
           NEW bytes, IsSeq(bytes), Len(bytes) >= 1,
           \A j \in 1 .. Len(b) : j <= Len(bytes) => bytes[j] = b[j]
    PROVE  \/ Decoded(bytes) = None
           \/ Decoded(bytes) = [method |-> method, args |-> args, id |-> id, whole |-> TRUE]
           \/ Decoded(bytes) = [method |-> method, args |-> Defaults(method), id |-> id, whole |-> FALSE]
<1> DEFINE h == HeaderLen(method, args)
           n == ArgsLen(method, args)
           s == HeaderBytes(method, args)
           a == SerializeRequest(method, args)
           part(m, k) == SubSeq(bytes, m, k)
<1>1. /\ IsSeq(b) /\ h \in Nat /\ n \in Nat /\ Len(b) = 1 + h + n
      /\ b[1] = Prefix(h, id)
      /\ \A j \in 1 .. h : b[1 + j] = s[j]
      /\ \A j \in 1 .. n : b[1 + h + j] = a[j]
    BY BufferShape
<1>2. Len(bytes) \in Nat /\ DOMAIN bytes = 1 .. Len(bytes)
    BY SeqShape
<1>3. Head(bytes).half = 0 /\ Head(bytes).val = h /\ Head(bytes).id = id
    <2> HIDE DEF h, n
    <2>1. bytes[1] = b[1]
        BY <1>1, <1>2 DEF h
    <2> QED
        BY <2>1, <1>1 DEF Prefix
<1>4. /\ Header(method, args).args_size = n /\ Header(method, args).method_name = method
    BY DEF Header, ArgsLen
<1>5. IsSeq(s) /\ Len(s) = h /\ ParseRpcHeader(s) = Header(method, args)
    BY HeaderCodec DEF IsMessage, HeaderLen
<1>6. IsSeq(a) /\ Len(a) = n /\ ParseRequest(method, a) = args
    BY RequestCodec DEF IsMessage, ArgsLen
<1> HIDE DEF h, n, s, a
<1>7. \A j \in 1 .. Len(bytes) : bytes[j] \in Range(bytes)
    BY <1>2 DEF Range
<1>8. CASE Len(bytes) < 1 + h
    <2> DEFINE p == part(2, Len(bytes))
    <2>1. /\ IsSeq(p) /\ Len(p) = Len(bytes) - 1 /\ Len(p) \in Nat /\ Len(p) < h
          /\ \A i \in 1 .. Len(p) : p[i] = s[i]
        <3>1. /\ p \in Seq(Range(bytes)) /\ Len(p) = Len(bytes) - 1
              /\ \A i \in 1 .. Len(bytes) - 1 : p[i] = bytes[2 + i - 1]
            BY <1>2, <1>7, SubSeqProperties
        <3>2. \A i \in 1 .. Len(bytes) - 1 :
                  2 + i - 1 = 1 + i /\ i \in 1 .. h /\ 1 + i \in 1 .. Len(b) /\ 1 + i <= Len(bytes)
            BY <1>1, <1>2, <1>8
        <3>3. \A i \in 1 .. Len(bytes) - 1 : bytes[2 + i - 1] = s[i]
            BY <1>1, <3>2
        <3> HIDE DEF p
        <3>4. IsSeq(p) /\ Len(p) = Len(bytes) - 1
            BY <3>1, SeqIsSeq
        <3>5. Len(p) \in Nat /\ Len(p) < h
            BY <1>1, <1>2, <1>8, <3>4
        <3>6. \A i \in 1 .. Len(p) : p[i] = s[i]
            BY <3>1, <3>3, <3>4
        <3> QED
            BY <3>4, <3>5, <3>6
    <2>2. Min({1 + h, Len(bytes)}) = Len(bytes)
        <3>1. 1 + h \in Nat /\ Len(bytes) <= 1 + h
            BY <1>1, <1>2, <1>8
        <3> QED
            BY <1>2, <3>1, MinOf
    <2>3. SubSeq(bytes, 2, Min({1 + Head(bytes).val, Len(bytes)})) = p
        BY <1>3, <2>2
    <2> HIDE DEF p
    <2>4. CASE ~Parses(p)
        BY <1>3, <2>3, <2>4 DEF Decoded
    <2>5. CASE Parses(p)
        <3>1. \/ ParseRpcHeader(p).method_name = NoName
              \/ ParseRpcHeader(p) = [service_name |-> ServiceOf(method), method_name |-> method,
                                       args_size |-> 0]
            BY <2>1, <2>5, HeaderBegins DEF h, s
        <3>2. CASE ParseRpcHeader(p).method_name = NoName
            BY <1>3, <2>3, <3>2, NamesNothing DEF Decoded
        <3>3. CASE ParseRpcHeader(p) = [service_name |-> ServiceOf(method), method_name |-> method,
                                        args_size |-> 0]
            <4>1. 1 + Len(p) + 0 = Len(bytes) /\ 2 + Len(p) = Len(bytes) + 1
                BY <1>2, <2>1
            <4>2. Min({Len(bytes), Len(bytes)}) = Len(bytes)
                BY <1>2, MinOf
            <4>3. SubSeq(bytes, Len(bytes) + 1, Len(bytes)) = <<>>
                BY <1>2, SubSeqProperties DEF IsSeq
            <4>4. Len(p) # Head(bytes).val
                BY <1>1, <1>3, <2>1
            <4>5. PICK header : header = ParseRpcHeader(p)
                OBVIOUS
            <4>6. header.args_size = 0 /\ header.method_name = method
                BY <3>3, <4>5
            <4>7. 1 + Len(p) + header.args_size = Len(bytes)
                BY <4>1, <4>6
            <4>8. SubSeq(bytes, 2 + Len(p), Min({1 + Len(p) + header.args_size, Len(bytes)})) = <<>>
                BY <4>1, <4>2, <4>3, <4>7
            <4>9. Decoded(bytes) \in {None, [method |-> method, args |-> ParseRequest(method, <<>>),
                                            id |-> Head(bytes).id, whole |-> Len(p) = Head(bytes).val]}
                BY <1>3, <2>3, <4>5, <4>6, <4>8 DEF Decoded
            <4> QED
                BY <1>3, <4>4, <4>9 DEF Defaults
        <3> QED
            BY <3>1, <3>2, <3>3
    <2> QED
        BY <2>4, <2>5
<1>9. CASE Len(bytes) >= 1 + h
    <2>1. part(2, 1 + h) = s
        <3>1. \A i \in 1 .. h : bytes[2 + i - 1] = s[i]
            <4>1. \A i \in 1 .. h : 2 + i - 1 = 1 + i /\ 1 + i \in 1 .. Len(b) /\ 1 + i <= Len(bytes)
                BY <1>1, <1>2, <1>9
            <4> QED
                BY <4>1, <1>1
        <3>2. \A j \in 2 .. 1 + h : bytes[j] \in Range(bytes)
            BY <1>1, <1>2, <1>7, <1>9
        <3>3. /\ part(2, 1 + h) \in Seq(Range(bytes)) /\ Len(part(2, 1 + h)) = h
              /\ \A i \in 1 .. h : part(2, 1 + h)[i] = bytes[2 + i - 1]
            BY <3>2, <1>1, SubSeqProperties
        <3> HIDE DEF part
        <3>4. \A i \in 1 .. h : part(2, 1 + h)[i] = s[i]
            BY <3>1, <3>3
        <3> QED
            BY <1>5, <3>3, <3>4, SeqIsSeq, SeqExtensional
    <2>2. Min({1 + h, Len(bytes)}) = 1 + h
        BY <1>1, <1>2, <1>9, MinOf
    <2>3. SubSeq(bytes, 2, Min({1 + Head(bytes).val, Len(bytes)})) = s
        BY <1>3, <2>1, <2>2
    <2>4. CASE Len(bytes) < 1 + h + n
        <3>1. ~(1 + Len(s) + ParseRpcHeader(s).args_size <= Len(bytes))
            BY <1>1, <1>2, <1>4, <1>5, <2>4
        <3> QED
            BY <1>3, <2>3, <3>1 DEF Decoded, read_args_success
    <2>5. CASE Len(bytes) >= 1 + h + n
        <3>1. part(2 + h, 1 + h + n) = a
            <4>1. \A i \in 1 .. n : bytes[(2 + h) + i - 1] = a[i]
                <5>1. \A i \in 1 .. n : /\ (2 + h) + i - 1 = 1 + h + i /\ 1 + h + i \in 1 .. Len(b)
                                        /\ 1 + h + i <= Len(bytes)
                    BY <1>1, <1>2, <2>5
                <5> QED
                    BY <5>1, <1>1
            <4>2. \A j \in 2 + h .. 1 + h + n : bytes[j] \in Range(bytes)
                BY <1>1, <1>2, <1>7, <2>5
            <4>3. /\ part(2 + h, 1 + h + n) \in Seq(Range(bytes)) /\ Len(part(2 + h, 1 + h + n)) = n
                  /\ \A i \in 1 .. n : part(2 + h, 1 + h + n)[i] = bytes[(2 + h) + i - 1]
                BY <4>2, <1>1, SubSeqProperties
            <4> HIDE DEF part
            <4>4. \A i \in 1 .. n : part(2 + h, 1 + h + n)[i] = a[i]
                BY <4>1, <4>3
            <4> QED
                BY <1>6, <4>3, <4>4, SeqIsSeq, SeqExtensional
        <3>2. Min({1 + h + n, Len(bytes)}) = 1 + h + n
            BY <1>1, <1>2, <2>5, MinOf
        <3>3. PICK header : header = ParseRpcHeader(s)
            OBVIOUS
        <3>4. header.args_size = n /\ header.method_name = method
            BY <1>4, <1>5, <3>3
        <3>5. 1 + Len(s) + header.args_size = 1 + h + n /\ 2 + Len(s) = 2 + h
            BY <1>1, <1>5, <3>4
        <3>6. SubSeq(bytes, 2 + Len(s), Min({1 + Len(s) + header.args_size, Len(bytes)})) = a
            BY <3>1, <3>2, <3>5
        <3>7. Decoded(bytes) \in {None, [method |-> method, args |-> ParseRequest(method, a),
                                        id |-> Head(bytes).id, whole |-> Len(s) = Head(bytes).val]}
            BY <1>3, <2>3, <3>3, <3>4, <3>6 DEF Decoded
        <3> QED
            BY <1>3, <1>5, <1>6, <3>7
    <2> QED
        BY <1>1, <1>2, <2>4, <2>5
<1> QED
    BY <1>1, <1>2, <1>8, <1>9

-----------------------------------------------------------------------------
(* The state: calls, connections and the way of a call through them.       *)

\* The halves that travel, and the answers a client can make of them.
RequestRanges(m) == {Range(SendBuffer(m, args, id)) : args \in Request[m], id \in Id}
ResponseRanges(m) == {Range(SerializeResponse(m, reply)) : reply \in Reply[m]}
Octet == (UNION {UNION RequestRanges(m) : m \in Methods})
         \cup (UNION {UNION ResponseRanges(m) : m \in Methods})
Response == {None} \cup UNION {{ParseResponse(m, b) : b \in Seq(Octet)} : m \in Methods}

CallType ==
    [pc : {"called", "locked", "sent", "returned"}, ch : Channel \cup {None},
     method : Methods \cup {None}, args : (UNION {Request[m] : m \in Methods}) \cup {None},
     id : 0 .. MaxCalls, failed : BOOLEAN, response : Response, fd : Conn \cup {None}]
ConnType ==
    [client : BOOLEAN, server : BOOLEAN, up : Seq(Octet), down : Seq(Octet), split : BOOLEAN]
Issue == UNION {[method : {m}, args : Request[m]] : m \in Methods}
Ran == UNION {[args : Request[m] \cup {Defaults(m)}, whole : BOOLEAN, reply : Reply[m]] : m \in Methods}
WorkerType == {Awake, Asleep} \cup {Running(task) : task \in Task}

Typed ==
    /\ call \in [Caller -> CallType]
    /\ m_clientFd \in [Channel -> Conn \cup {None}]
    /\ opened \in [Channel -> Nat]
    /\ conn \in [Conn -> ConnType]
    /\ m_tasks \in Seq(Task) /\ notices \in Nat /\ worker \in [Worker -> WorkerType]
    /\ alive \in BOOLEAN
    /\ issued \in Seq(Issue) /\ Len(issued) <= MaxCalls
    /\ ran \in [Id -> Seq(Ran)]

\* The call of each thread is one of those issued, and no other thread's.
CallsIssued ==
    /\ \A c \in Caller :
          /\ call[c].id \in 0 .. Len(issued)
          /\ call[c].pc # "returned" => call[c].id # 0 /\ call[c].ch \in Channel
          /\ call[c].id # 0 => /\ call[c].method = issued[call[c].id].method
                               /\ call[c].args = issued[call[c].id].args
    /\ \A c, d \in Caller : call[c].id = call[d].id /\ call[c].id # 0 => c = d

\* m_clientFd_mutex.
OneHolder ==
    \A c, d \in Caller : Holds(c) /\ Holds(d) /\ call[c].ch = call[d].ch => c = d

\* The connection of a channel is the one its client has open; it is one it has opened,
\* and the others are untouched.
FdsOpen ==
    /\ \A ch \in Channel : m_clientFd[ch] # None =>
          m_clientFd[ch][1] = ch /\ m_clientFd[ch][2] < opened[ch] /\ conn[m_clientFd[ch]].client
    /\ \A k \in Conn : conn[k].client => m_clientFd[k[1]] = k
    /\ \A k \in Conn : k[2] >= opened[k[1]] => conn[k] = Closed
    /\ \A c \in Caller : call[c].pc = "sent" => Fd(c) # None

\* A channel opens a connection again only for a later call than the one that closed it.
Open == {call[c].id : c \in {d \in Caller : call[d].pc # "returned"}}
Ended == (1 .. Len(issued)) \ Open
ConnectsSeldom ==
    \A ch \in Channel :
        opened[ch] <= Cardinality(Ended) + (IF m_clientFd[ch] # None THEN 1 ELSE 0)

\* The bytes of a call.
Buffer(id) == SendBuffer(issued[id].method, issued[id].args, id)

\* Where a length prefix arrives, the bytes of its call follow, all of them unless the
\* client has gone.
WholeAt(up, client, i, id) ==
    /\ id \in 1 .. Len(issued)
    /\ client => i + Len(Buffer(id)) - 1 <= Len(up)
    /\ \A j \in 1 .. Len(Buffer(id)) : i + j - 1 <= Len(up) => up[i + j - 1] = Buffer(id)[j]
Whole(up, client) == \A i \in DOMAIN up : up[i].half = 0 => WholeAt(up, client, i, up[i].id)
RequestsWhole == \A k \in Conn : Whole(conn[k].up, conn[k].client)

\* The arguments that a handler gets for a call, its header whole or not.
ArgsTaken(id, whole) == IF whole THEN issued[id].args ELSE Defaults(issued[id].method)

\* The tasks of the pool, queued or running.
RunningTasks == {worker[w].task : w \in {v \in Worker : worker[v].pc = "running"}}
TaskIssued(task) ==
    /\ task.id \in 1 .. Len(issued) /\ task.conn[2] < opened[task.conn[1]]
    /\ task.method = issued[task.id].method /\ task.args = ArgsTaken(task.id, task.whole)
TasksIssued ==
    /\ \A i \in DOMAIN m_tasks : TaskIssued(m_tasks[i])
    /\ \A task \in RunningTasks : TaskIssued(task)
    /\ \A id \in Id : \A i \in DOMAIN ran[id] :
          /\ id <= Len(issued)
          /\ ran[id][i].args = ArgsTaken(id, ran[id][i].whole)
          /\ ran[id][i].reply \in Reply[issued[id].method]

\* Where a call is on its way: its prefix among the bytes, its task, its execution.
PrefixesOf(k, id) == {i \in DOMAIN conn[k].up : conn[k].up[i].half = 0 /\ conn[k].up[i].id = id}
InBytes(id) == {x \in Conn \X Nat : x[2] \in PrefixesOf(x[1], id)}
InQueue(id) == {i \in DOMAIN m_tasks : m_tasks[i].id = id}
InWorker(id) == {w \in Worker : worker[w].pc = "running" /\ worker[w].task.id = id}
InRan(id) == DOMAIN ran[id]
Tags(bytes, queue, workers, runs) ==
    ({"bytes"} \X bytes) \cup ({"queue"} \X queue) \cup ({"worker"} \X workers) \cup ({"ran"} \X runs)
Trace(id) == Tags(InBytes(id), InQueue(id), InWorker(id), InRan(id))

\* A call is in one place at most, and nowhere before it is sent.
Single(S) == \A x, y \in S : x = y
OnePlace == \A id \in Id : Single(Trace(id))
Unsent == \A c \in Caller : call[c].pc \in {"called", "locked"} => Trace(call[c].id) = {}

\* enqueue has notified for calls that left the bytes.
Left == {id \in Id : \E x \in Trace(id) : x[1] # "bytes"}
NoticesOfTasks == notices <= Cardinality(Left)

\* What is still to come on a connection.
OnConn(k) ==
    {id \in Id : \/ PrefixesOf(k, id) # {}
                 \/ \E i \in InQueue(id) : m_tasks[i].conn = k
                 \/ \E w \in InWorker(id) : worker[w].task.conn = k}
Waits(c, k) == call[c].pc = "sent" /\ Fd(c) = k
Answer(id) == SerializeResponse(issued[id].method, ran[id][1].reply)

\* On a connection where no reply was split, only the call that holds the channel is on
\* its way, and what arrives is the whole answer to it.
InStepOn(k) ==
    conn[k].client /\ ~conn[k].split =>
        /\ \A id \in OnConn(k) : \E c \in Caller : Waits(c, k) /\ call[c].id = id
        /\ conn[k].down # <<>> =>
              \E c \in Caller : /\ Waits(c, k) /\ ran[call[c].id] # <<>>
                                /\ conn[k].down = Answer(call[c].id)
InStep == \A k \in Conn : InStepOn(k)

\* A call that succeeded has its answer.
Answered ==
    \A c \in Caller : call[c].pc = "returned" /\ call[c].id # 0 /\ ~call[c].failed =>
        /\ call[c].fd \in Conn
        /\ ~conn[call[c].fd].split => /\ ran[call[c].id] # <<>>
                                      /\ call[c].response = ran[call[c].id][1].reply

RpcInv ==
    /\ Typed /\ CallsIssued /\ OneHolder /\ FdsOpen /\ ConnectsSeldom /\ RequestsWhole
    /\ TasksIssued /\ OnePlace /\ Unsent /\ NoticesOfTasks /\ InStep /\ Answered

-----------------------------------------------------------------------------
(* Pieces: what a send or a read takes of the bytes there.                 *)

\* A nonempty set of naturals has a least element.
LEMMA LeastElement ==
    ASSUME NEW S \in SUBSET Nat, S # {}
    PROVE  \E k \in S : \A l \in S : k <= l
  <1> DEFINE R == OpToRel(<, Nat)
  <1>1. IsWellFoundedOn(R, Nat)
    BY NatLessThanWellFounded, Zenon
  <1>2. \A x, y \in Nat : x < y => <<x, y>> \in R
    BY DEF OpToRel
  <1> HIDE DEF R
  <1>3. PICK k \in S : \A l \in S : ~ (<<l, k>> \in R)
    BY <1>1, WFMin
  <1>4. \A l \in S : ~ (l < k)
    BY <1>2, <1>3
  <1> QED
    BY <1>4

\* A beginning of a sequence has its elements, and its length tells it.
LEMMA BeginningOf ==
    ASSUME NEW S, NEW s \in Seq(S), NEW f \in Beginnings(s)
    PROVE  /\ f \in Seq(S) /\ Len(f) \in 0 .. Len(s)
           /\ \A i \in 1 .. Len(f) : f[i] = s[i]
           /\ f = SubSeq(s, 1, Len(f)) /\ (Len(f) = Len(s) => f = s)
           /\ f # <<>> => Len(f) > 0
<1>1. PICK n \in 0 .. Len(s) : f = SubSeq(s, 1, n)
    BY DEF Beginnings
<1>2. Len(s) \in Nat /\ \A i \in 1 .. Len(s) : s[i] \in S
    BY LenProperties
<1>3. n \in Nat /\ n <= Len(s)
    BY <1>2
<1>4. \A i \in 1 .. n : s[i] \in S
    BY <1>2, <1>3
<1>5. /\ SubSeq(s, 1, n) \in Seq(S)
      /\ Len(SubSeq(s, 1, n)) = IF 1 <= n THEN n - 1 + 1 ELSE 0
      /\ \A i \in 1 .. n - 1 + 1 : SubSeq(s, 1, n)[i] = s[1 + i - 1]
    BY <1>3, <1>4, SubSeqProperties
<1>6. f \in Seq(S) /\ Len(f) = n
    BY <1>1, <1>3, <1>5
<1>7. \A i \in 1 .. n : f[i] = s[i]
    <2>1. \A i \in 1 .. n : i \in 1 .. n - 1 + 1 /\ 1 + i - 1 = i
        BY <1>3
    <2> QED
        BY <1>1, <1>5, <2>1
<1>8. n = Len(s) => f = s
    BY <1>6, <1>7, SeqEqual
<1>9. f # <<>> => n > 0
    BY <1>3, <1>6, EmptySeq
<1> QED
    BY <1>1, <1>2, <1>3, <1>6, <1>7, <1>8, <1>9

\* A sequence is a beginning of itself, and so is nothing.
LEMMA WholeAndNone ==
    ASSUME NEW S, NEW s \in Seq(S)
    PROVE  s \in Beginnings(s) /\ <<>> \in Beginnings(s)
<1>1. Len(s) \in Nat /\ \A i \in 1 .. Len(s) : s[i] \in S
    BY LenProperties
<1>2. SubSeq(s, 1, Len(s)) \in Beginnings(s) /\ SubSeq(s, 1, 0) \in Beginnings(s)
    BY <1>1 DEF Beginnings
<1>3. Len(SubSeq(s, 1, Len(s))) = Len(s) /\ Len(SubSeq(s, 1, 0)) = 0
    BY <1>1, SubSeqProperties
<1>4. SubSeq(s, 1, Len(s)) = s
    BY <1>2, <1>3, BeginningOf
<1>5. SubSeq(s, 1, 0) = <<>>
    BY <1>2, <1>3, BeginningOf, EmptySeq
<1> QED
    BY <1>2, <1>4, <1>5

\* What one recv may take is a beginning of what is there.
LEMMA FirstPieceOf ==
    ASSUME NEW S, NEW s \in Seq(S)
    PROVE  FirstPiece(s) \in Beginnings(s)
<1> DEFINE long == {i \in DOMAIN s : s[i].long /\ s[i].half = 1}
           c == CHOOSE i \in long : \A j \in long : i <= j
<1>1. Len(s) \in Nat /\ DOMAIN s = 1 .. Len(s)
    BY LenProperties
<1>2. CASE long = {}
    BY <1>2, WholeAndNone DEF FirstPiece
<1>3. CASE long # {}
    <2>1. long \in SUBSET Nat
        BY <1>1
    <2>2. \E i \in long : \A j \in long : i <= j
        BY <1>3, <2>1, LeastElement
    <2>3. c \in long
        BY <2>2
    <2>4. FirstPiece(s) = SubSeq(s, 1, c)
        BY <1>3 DEF FirstPiece
    <2>5. c \in 0 .. Len(s)
        BY <1>1, <2>3
    <2> HIDE DEF c
    <2> QED
        BY <2>4, <2>5 DEF Beginnings
<1> QED
    BY <1>2, <1>3

\* A beginning of a beginning is one.
LEMMA BeginningsNest ==
    ASSUME NEW S, NEW s \in Seq(S), NEW f \in Beginnings(s), NEW g \in Beginnings(f)
    PROVE  g \in Beginnings(s)
<1>1. /\ f \in Seq(S) /\ Len(f) \in 0 .. Len(s)
      /\ \A i \in 1 .. Len(f) : f[i] = s[i]
    BY BeginningOf
<1>2. /\ g \in Seq(S) /\ Len(g) \in 0 .. Len(f)
      /\ \A i \in 1 .. Len(g) : g[i] = f[i]
    BY <1>1, BeginningOf
<1>3. Len(s) \in Nat /\ Len(f) \in Nat
    BY <1>1, LenProperties
<1>4. Len(g) \in 0 .. Len(s) /\ \A i \in 1 .. Len(g) : g[i] = s[i]
    BY <1>1, <1>2, <1>3
<1> DEFINE t == SubSeq(s, 1, Len(g))
<1>5. t \in Beginnings(s)
    BY <1>4 DEF Beginnings
<1>6. /\ t \in Seq(S) /\ \A i \in 1 .. Len(t) : t[i] = s[i]
    BY <1>5, BeginningOf
<1>7. Len(t) = Len(g)
    <2>1. \A i \in 1 .. Len(g) : s[i] \in S
        BY <1>3, <1>4, LenProperties
    <2> QED
        BY <1>3, <1>4, <2>1, SubSeqProperties
<1> HIDE DEF t
<1>8. g = t
    BY <1>2, <1>4, <1>6, <1>7, SeqEqual
<1> QED
    BY <1>5, <1>8

\* What is left when the first n halves have been taken.
LEMMA RestOf ==
    ASSUME NEW S, NEW s \in Seq(S), NEW n \in 0 .. Len(s), NEW r, r = SubSeq(s, n + 1, Len(s))
    PROVE  /\ r \in Seq(S) /\ Len(r) = Len(s) - n
           /\ \A i \in 1 .. Len(r) : n + i \in 1 .. Len(s) /\ r[i] = s[n + i]
<1>1. Len(s) \in Nat /\ \A i \in 1 .. Len(s) : s[i] \in S
    BY LenProperties
<1>2. /\ SubSeq(s, n + 1, Len(s)) \in Seq(S)
      /\ Len(SubSeq(s, n + 1, Len(s))) = IF n + 1 <= Len(s) THEN Len(s) - (n + 1) + 1 ELSE 0
      /\ \A i \in 1 .. Len(s) - (n + 1) + 1 : SubSeq(s, n + 1, Len(s))[i] = s[(n + 1) + i - 1]
    BY <1>1, SubSeqProperties
<1>3. Len(r) = Len(s) - n
    BY <1>1, <1>2
<1>4. \A i \in 1 .. Len(r) : n + i \in 1 .. Len(s) /\ r[i] = s[n + i]
    <2>1. \A i \in 1 .. Len(r) : /\ i \in 1 .. Len(s) - (n + 1) + 1 /\ (n + 1) + i - 1 = n + i
                                 /\ n + i \in 1 .. Len(s)
        BY <1>1, <1>3
    <2> QED
        BY <1>2, <2>1
<1> QED
    BY <1>2, <1>3, <1>4

-----------------------------------------------------------------------------
(* Types, and what each action does to the variables it changes.           *)

\* The bytes of a request are octets,
LEMMA BufferOctets ==
    ASSUME NEW method \in Methods, NEW args \in Request[method], NEW id \in Id
    PROVE  SendBuffer(method, args, id) \in Seq(Octet)
<1> DEFINE b == SendBuffer(method, args, id)
<1>1. b \in Seq(Range(b))
    BY BufferShape DEF IsSeq
<1>2. Range(b) \subseteq Octet
    <2>1. Range(b) \in RequestRanges(method)
        BY DEF RequestRanges
    <2>2. Range(b) \subseteq UNION RequestRanges(method)
        BY <2>1
    <2> QED
        BY <2>2 DEF Octet
<1> QED
    BY <1>1, <1>2, SeqMonotonic

\* and so are those of an answer.
LEMMA AnswerOctets ==
    ASSUME NEW method \in Methods, NEW reply \in Reply[method]
    PROVE  SerializeResponse(method, reply) \in Seq(Octet)
<1> DEFINE b == SerializeResponse(method, reply)
<1>1. b \in Seq(Range(b))
    BY ResponseCodec DEF IsMessage, IsSeq
<1>2. Range(b) \subseteq Octet
    <2>1. Range(b) \in ResponseRanges(method)
        BY DEF ResponseRanges
    <2>2. Range(b) \subseteq UNION ResponseRanges(method)
        BY <2>1
    <2> QED
        BY <2>2 DEF Octet
<1> QED
    BY <1>1, <1>2, SeqMonotonic

\* The thread c goes on with its call, the other threads do nothing.
MovesTo(c, pc) ==
    /\ call'[c].pc = pc
    /\ call'[c].id = call[c].id /\ call'[c].ch = call[c].ch
    /\ call'[c].method = call[c].method /\ call'[c].args = call[c].args
    /\ \A d \in Caller \ {c} : call'[d] = call[d]

Fails(c) == MovesTo(c, "returned") /\ call'[c].failed /\ call'[c].fd = Fd(c)

\* Only the connection k changes, and the end of the server there and its split flag do not.
ClientEnd(k) ==
    /\ \A l \in Conn \ {k} : conn'[l] = conn[l]
    /\ conn'[k].server = conn[k].server /\ conn'[k].split = conn[k].split

\* Only the connection k changes: both ends and what the client sent stay.
ClientReads(k) ==
    /\ \A l \in Conn \ {k} : conn'[l] = conn[l]
    /\ conn'[k].client = conn[k].client /\ conn'[k].server = conn[k].server
    /\ conn'[k].up = conn[k].up

ConnKept == UNCHANGED <<m_clientFd, opened, conn>>
ServerKept == UNCHANGED <<m_tasks, notices, worker, alive>>
HistoryKept == UNCHANGED <<issued, ran>>

\* A new call has the next number.
LEMMA CallsEffect ==
    ASSUME Typed, NEW c \in Caller, Calls(c)
    PROVE  /\ Typed'
           /\ ConnKept /\ ServerKept /\ ran' = ran
           /\ call[c].pc = "returned" /\ Len(issued) < MaxCalls
           /\ \A d \in Caller \ {c} : call'[d] = call[d]
           /\ call'[c].pc = "called" /\ call'[c].id = Len(issued) + 1 /\ call'[c].ch \in Channel
           /\ \E x \in Issue : /\ issued' = Append(issued, x)
                               /\ call'[c].method = x.method /\ call'[c].args = x.args
<1>1. /\ call[c].pc = "returned" /\ Len(issued) < MaxCalls
      /\ ConnKept /\ ServerKept /\ ran' = ran
    BY DEF Calls, ConnKept, ServerKept, server
<1>2. PICK ch \in Channel, method \in Methods : \E args \in Request[method] :
          /\ call' = [call EXCEPT ![c] = [Idle EXCEPT !.pc = "called", !.ch = ch, !.method = method,
                                                      !.args = args, !.id = Len(issued) + 1]]
          /\ issued' = Append(issued, [method |-> method, args |-> args])
    BY DEF Calls, Methods
<1>3. PICK args \in Request[method] :
          /\ call' = [call EXCEPT ![c] = [Idle EXCEPT !.pc = "called", !.ch = ch, !.method = method,
                                                      !.args = args, !.id = Len(issued) + 1]]
          /\ issued' = Append(issued, [method |-> method, args |-> args])
    BY <1>2
<1> DEFINE x == [method |-> method, args |-> args]
           r == [Idle EXCEPT !.pc = "called", !.ch = ch, !.method = method,
                             !.args = args, !.id = Len(issued) + 1]
<1>4. Len(issued) \in Nat /\ MaxCalls \in Nat
    BY RpcAssumption, LenProperties DEF Typed
<1>5. x \in Issue
    BY DEF Issue
<1>6. r = [pc |-> "called", ch |-> ch, method |-> method, args |-> args, id |-> Len(issued) + 1,
           failed |-> FALSE, response |-> None, fd |-> None]
    <2>1. /\ r.pc = "called" /\ r.ch = ch /\ r.method = method /\ r.args = args
          /\ r.id = Len(issued) + 1 /\ r.failed = FALSE /\ r.response = None /\ r.fd = None
        BY DEF Idle
    <2>2. r = [f \in DOMAIN Idle |-> r[f]]
        BY DEF Idle
    <2>3. DOMAIN Idle = {"pc", "ch", "method", "args", "id", "failed", "response", "fd"}
        BY DEF Idle
    <2> HIDE DEF r
    <2> QED
        BY <2>1, <2>2, <2>3
<1>7. r \in CallType
    <2>1. Len(issued) + 1 \in 0 .. MaxCalls
        BY <1>1, <1>4
    <2>2. None \in Response
        BY DEF Response
    <2>3. args \in UNION {Request[m] : m \in Methods}
        OBVIOUS
    <2> QED
        BY <1>6, <2>1, <2>2, <2>3 DEF CallType
<1> HIDE DEF r, x
<1>8. call' \in [Caller -> CallType]
    BY <1>3, <1>7 DEF Typed, r
<1>9. call'[c] = r /\ \A d \in Caller \ {c} : call'[d] = call[d]
    BY <1>3 DEF Typed, r
<1>10. issued' = Append(issued, x) /\ issued' \in Seq(Issue) /\ Len(issued') <= MaxCalls
    BY <1>1, <1>3, <1>4, <1>5, AppendProperties DEF Typed, x
<1>11. Typed'
    BY <1>1, <1>8, <1>10 DEF Typed, ConnKept, ServerKept
<1> QED
    BY <1>1, <1>5, <1>6, <1>9, <1>10, <1>11 DEF x

\* The thread has the channel.
LEMMA LocksEffect ==
    ASSUME Typed, NEW c \in Caller, Locks(c)
    PROVE  /\ Typed'
           /\ ConnKept /\ ServerKept /\ HistoryKept
           /\ MovesTo(c, "locked") /\ call[c].pc = "called"
           /\ \A d \in Caller : Holds(d) => call[d].ch # call[c].ch
<1>1. /\ call[c].pc = "called" /\ ConnKept /\ ServerKept /\ HistoryKept
      /\ \A d \in Caller : Holds(d) => call[d].ch # call[c].ch
      /\ call' = [call EXCEPT ![c].pc = "locked"]
    BY DEF Locks, ConnKept, ServerKept, HistoryKept, server
<1>2. call \in [Caller -> CallType]
    BY DEF Typed
<1>3. call' \in [Caller -> CallType] /\ MovesTo(c, "locked")
    BY <1>1, <1>2 DEF MovesTo, CallType
<1> QED
    BY <1>1, <1>3 DEF Typed, ConnKept, ServerKept, HistoryKept

\* SetFailed ends the call.
LEMMA FailsEffect ==
    ASSUME call \in [Caller -> CallType], NEW c \in Caller, SetFailed(c), Fd(c) \in Conn \cup {None}
    PROVE  call' \in [Caller -> CallType] /\ Fails(c)
<1> DEFINE k == Fd(c)
<1>1. call' = [call EXCEPT ![c].pc = "returned", ![c].failed = TRUE, ![c].fd = k]
    BY DEF SetFailed
<1> HIDE DEF k
<1>2. call' \in [Caller -> CallType] /\ call'[c].failed /\ call'[c].fd = k
    <2>1. PICK new : new = [call[c] EXCEPT !.pc = "returned", !.failed = TRUE, !.fd = k]
        OBVIOUS
    <2>2. call[c] \in CallType /\ k \in Conn \cup {None}
        BY DEF k
    <2>3. new \in CallType /\ new.failed /\ new.fd = k
        BY <2>1, <2>2 DEF CallType
    <2>4. call' = [call EXCEPT ![c] = new]
        BY <1>1, <2>1
    <2> QED
        BY <2>3, <2>4
<1>3. MovesTo(c, "returned")
    BY <1>1 DEF MovesTo, CallType
<1> QED
    BY <1>2, <1>3 DEF Fails, k

\* A call that was issued, and its bytes.
LEMMA IssuedCall ==
    ASSUME Typed, NEW id \in 1 .. Len(issued)
    PROVE  /\ id \in Id /\ issued[id].method \in Methods
           /\ issued[id].args \in Request[issued[id].method]
           /\ Buffer(id) \in Seq(Octet)
<1>1. issued[id] \in Issue /\ Len(issued) \in Nat /\ Len(issued) <= MaxCalls
    BY ElementOfSeq, LenProperties DEF Typed
<1>2. issued[id].method \in Methods /\ issued[id].args \in Request[issued[id].method]
    BY <1>1 DEF Issue
<1>3. id \in Id
    BY <1>1, RpcAssumption DEF Id
<1> QED
    BY <1>2, <1>3, BufferOctets DEF Buffer

\* A call that has not returned was issued, on a channel.
LEMMA OpenFd ==
    ASSUME Typed, CallsIssued, NEW c \in Caller, call[c].pc # "returned"
    PROVE  /\ call[c].id \in 1 .. Len(issued) /\ call[c].ch \in Channel
           /\ Fd(c) \in Conn \cup {None}
           /\ call[c].method = issued[call[c].id].method /\ call[c].args = issued[call[c].id].args
<1>1. Len(issued) \in Nat
    BY LenProperties DEF Typed
<1>2. call[c].id \in 0 .. Len(issued) /\ call[c].id # 0 /\ call[c].ch \in Channel
    BY DEF CallsIssued
<1>3. Fd(c) \in Conn \cup {None}
    BY <1>2 DEF Typed, Fd
<1> QED
    BY <1>1, <1>2, <1>3 DEF CallsIssued

\* newConnect changes the next connection of the channel and no other.
LEMMA ConnectsEffect ==
    ASSUME Typed, CallsIssued, NEW c \in Caller, Connects(c),
           opened[call[c].ch] <= MaxCalls
    PROVE  /\ Typed'
           /\ ServerKept /\ HistoryKept
           /\ call[c].pc = "locked" /\ Fd(c) = None
           /\ \/ /\ UNCHANGED call
                 /\ LET ch == call[c].ch
                        new == <<ch, opened[ch]>>
                    IN  /\ new \in Conn
                        /\ opened'[ch] = opened[ch] + 1 /\ m_clientFd'[ch] = new
                        /\ conn'[new].client /\ conn'[new].server
                        /\ conn'[new].up = conn[new].up /\ conn'[new].down = conn[new].down
                        /\ conn'[new].split = conn[new].split
                        /\ \A l \in Conn \ {new} : conn'[l] = conn[l]
                        /\ \A h \in Channel \ {ch} : opened'[h] = opened[h] /\ m_clientFd'[h] = m_clientFd[h]
              \/ Fails(c) /\ ConnKept
<1> DEFINE ch == call[c].ch
           new == <<ch, opened[ch]>>
<1>1. call[c].pc = "locked" /\ Fd(c) = None /\ ServerKept /\ HistoryKept
    BY DEF Connects, ServerKept, HistoryKept, server
<1>2. ch \in Channel /\ Fd(c) \in Conn \cup {None}
    BY <1>1, OpenFd
<1>3. CASE SetFailed(c) /\ UNCHANGED <<m_clientFd, opened, conn>>
    <2>1. call' \in [Caller -> CallType] /\ Fails(c)
        BY <1>2, <1>3, FailsEffect DEF Typed
    <2>2. Typed'
        BY <1>1, <1>3, <2>1 DEF Typed, ServerKept, HistoryKept
    <2> QED
        BY <1>1, <1>3, <2>1, <2>2 DEF ConnKept
<1>4. CASE newConnect(ch) /\ UNCHANGED call
    <2>1. opened[ch] \in Nat /\ MaxCalls \in Nat
        BY <1>2, RpcAssumption DEF Typed
    <2>2. new \in Conn
        BY <1>2, <2>1 DEF Conn
    <2>3. /\ opened' = [opened EXCEPT ![ch] = @ + 1]
          /\ m_clientFd' = [m_clientFd EXCEPT ![ch] = new]
          /\ conn' = [conn EXCEPT ![new].client = TRUE, ![new].server = TRUE]
        BY <1>4 DEF newConnect
    <2> HIDE DEF new, ch
    <2>4. /\ opened' \in [Channel -> Nat] /\ opened'[ch] = opened[ch] + 1
          /\ \A h \in Channel \ {ch} : opened'[h] = opened[h]
        BY <1>2, <2>1, <2>3 DEF Typed
    <2>5. /\ m_clientFd' \in [Channel -> Conn \cup {None}] /\ m_clientFd'[ch] = new
          /\ \A h \in Channel \ {ch} : m_clientFd'[h] = m_clientFd[h]
        BY <1>2, <2>2, <2>3 DEF Typed
    <2>6. /\ conn' \in [Conn -> ConnType] /\ conn'[new].client /\ conn'[new].server
          /\ conn'[new].up = conn[new].up /\ conn'[new].down = conn[new].down
          /\ conn'[new].split = conn[new].split
          /\ \A l \in Conn \ {new} : conn'[l] = conn[l]
        BY <2>2, <2>3 DEF Typed, ConnType
    <2>7. Typed'
        BY <1>1, <1>4, <2>4, <2>5, <2>6 DEF Typed, ServerKept, HistoryKept
    <2> QED
        BY <1>1, <1>4, <2>2, <2>4, <2>5, <2>6, <2>7 DEF ch, new
<1> QED
    BY <1>3, <1>4 DEF Connects

\* The descriptor of the channel is closed: m_clientFd forgets it, and so does the connection.
Closes(c) ==
    /\ m_clientFd'[call[c].ch] = None
    /\ \A h \in Channel \ {call[c].ch} : m_clientFd'[h] = m_clientFd[h]
    /\ ~conn'[Fd(c)].client /\ conn'[Fd(c)].down = <<>>

\* The send loop hands over all the bytes, some of them or none.
LEMMA SendsEffect ==
    ASSUME Typed, CallsIssued, NEW c \in Caller, Sends(c)
    PROVE  /\ Typed'
           /\ opened' = opened /\ ServerKept /\ HistoryKept
           /\ call[c].pc = "locked" /\ Fd(c) \in Conn /\ ClientEnd(Fd(c))
           /\ LET b == Buffer(call[c].id)
                  k == Fd(c)
              IN  \E part \in Beginnings(b) :
                     /\ conn'[k].up = conn[k].up \o part
                     /\ \/ /\ MovesTo(c, "sent") /\ m_clientFd' = m_clientFd
                           /\ part \in {<<>>, b}
                           /\ conn'[k].client = conn[k].client /\ conn'[k].down = conn[k].down
                        \/ Fails(c) /\ Closes(c)
<1> DEFINE b == Buffer(call[c].id)
           k == Fd(c)
           sent(p) == IF conn[k].server THEN p ELSE <<>>
<1>1. /\ call[c].pc = "locked" /\ k # None
      /\ opened' = opened /\ ServerKept /\ HistoryKept
    BY DEF Sends, ServerKept, HistoryKept, server
<1>2. /\ call[c].id \in 1 .. Len(issued) /\ call[c].ch \in Channel /\ k \in Conn
      /\ SendBuffer(call[c].method, call[c].args, call[c].id) = b
    BY <1>1, OpenFd DEF Buffer
<1>3. /\ b \in Seq(Octet) /\ <<>> \in Seq(Octet)
      /\ b \in Beginnings(b) /\ <<>> \in Beginnings(b)
    BY <1>2, IssuedCall, WholeAndNone
<1>4. conn \in [Conn -> ConnType] /\ conn[k] \in ConnType /\ conn[k].up \in Seq(Octet)
    BY <1>2 DEF Typed, ConnType
<1>5. CASE /\ conn' = [conn EXCEPT ![k].up = conn[k].up \o sent(b)]
           /\ call' = [call EXCEPT ![c].pc = "sent"]
           /\ UNCHANGED m_clientFd
    <2> DEFINE part == sent(b)
    <2>1. part \in Seq(Octet) /\ part \in {<<>>, b} /\ part \in Beginnings(b)
        BY <1>3
    <2>2. conn[k].up \o part \in Seq(Octet)
        BY <1>4, <2>1, ConcatProperties
    <2> HIDE DEF part, k
    <2>3. conn' = [conn EXCEPT ![k].up = conn[k].up \o part]
        BY <1>5 DEF part, k
    <2>4. /\ conn' \in [Conn -> ConnType] /\ ClientEnd(k)
          /\ conn'[k].up = conn[k].up \o part
          /\ conn'[k].client = conn[k].client /\ conn'[k].down = conn[k].down
        BY <1>2, <1>4, <2>2, <2>3 DEF ConnType, ClientEnd
    <2>5. call' \in [Caller -> CallType] /\ MovesTo(c, "sent")
        <3>1. call \in [Caller -> CallType]
            BY DEF Typed
        <3>2. call' = [call EXCEPT ![c].pc = "sent"]
            BY <1>5
        <3>3. call' \in [Caller -> CallType]
            BY <3>1, <3>2 DEF CallType
        <3>4. MovesTo(c, "sent")
            BY <3>1, <3>2 DEF CallType, MovesTo
        <3> QED
            BY <3>3, <3>4
    <2>6. Typed'
        BY <1>1, <1>5, <2>4, <2>5 DEF Typed, ServerKept, HistoryKept
    <2> QED
        BY <1>1, <1>2, <1>5, <2>1, <2>4, <2>5, <2>6 DEF k
<1>6. ASSUME /\ m_clientFd' = [m_clientFd EXCEPT ![call[c].ch] = None]
             /\ SetFailed(c),
             NEW piece \in Beginnings(b),
             conn' = [conn EXCEPT ![k].client = FALSE, ![k].down = <<>>,
                                  ![k].up = conn[k].up \o sent(piece)]
      PROVE  /\ Typed' /\ ClientEnd(k) /\ Fails(c) /\ Closes(c)
             /\ \E part \in Beginnings(b) : conn'[k].up = conn[k].up \o part
    <2> DEFINE part == sent(piece)
    <2>1. part \in Seq(Octet) /\ part \in Beginnings(b)
        <3>1. piece \in Seq(Octet)
            BY <1>3, BeginningOf
        <3> QED
            BY <1>3, <3>1
    <2>2. conn[k].up \o part \in Seq(Octet)
        BY <1>4, <2>1, ConcatProperties
    <2> HIDE DEF part
    <2>3. conn' = [conn EXCEPT ![k] = [conn[k] EXCEPT !.client = FALSE, !.down = <<>>,
                                                      !.up = conn[k].up \o part]]
        BY <1>2, <1>4, <1>6 DEF part
    <2>4. call' \in [Caller -> CallType] /\ Fails(c)
        BY <1>2, <1>6, FailsEffect DEF Typed
    <2>5. /\ m_clientFd' \in [Channel -> Conn \cup {None}] /\ m_clientFd'[call[c].ch] = None
          /\ \A h \in Channel \ {call[c].ch} : m_clientFd'[h] = m_clientFd[h]
        BY <1>2, <1>6 DEF Typed
    <2> HIDE DEF k
    <2>6. /\ conn' \in [Conn -> ConnType] /\ ClientEnd(k)
          /\ conn'[k].up = conn[k].up \o part
          /\ ~conn'[k].client /\ conn'[k].down = <<>>
        BY <1>2, <1>3, <1>4, <2>2, <2>3 DEF ConnType, ClientEnd
    <2>7. Typed'
        BY <1>1, <2>4, <2>5, <2>6 DEF Typed, ServerKept, HistoryKept
    <2>8. Closes(c)
        BY <2>5, <2>6 DEF Closes, k
    <2> QED
        BY <2>1, <2>4, <2>6, <2>7, <2>8
<1>7. \/ /\ conn' = [conn EXCEPT ![k].up = conn[k].up \o sent(b)]
         /\ call' = [call EXCEPT ![c].pc = "sent"]
         /\ UNCHANGED m_clientFd
      \/ /\ m_clientFd' = [m_clientFd EXCEPT ![call[c].ch] = None]
         /\ SetFailed(c)
         /\ \E piece \in Beginnings(b) :
               conn' = [conn EXCEPT ![k].client = FALSE, ![k].down = <<>>,
                                    ![k].up = conn[k].up \o sent(piece)]
    BY <1>2 DEF Sends
<1>8. CASE /\ m_clientFd' = [m_clientFd EXCEPT ![call[c].ch] = None]
           /\ SetFailed(c)
           /\ \E piece \in Beginnings(b) :
                 conn' = [conn EXCEPT ![k].client = FALSE, ![k].down = <<>>,
                                      ![k].up = conn[k].up \o sent(piece)]
    <2> HIDE DEF b, k, sent
    <2>1. /\ Typed' /\ ClientEnd(k) /\ Fails(c) /\ Closes(c)
          /\ \E part \in Beginnings(b) : conn'[k].up = conn[k].up \o part
        BY <1>6, <1>8
    <2> QED
        BY <1>1, <1>2, <2>1 DEF b, k
<1> QED
    BY <1>5, <1>7, <1>8

\* recv takes bytes of the answer, and the call returns.
LEMMA ReceivesEffect ==
    ASSUME Typed, CallsIssued, FdsOpen, NEW c \in Caller, Receives(c)
    PROVE  /\ Typed'
           /\ UNCHANGED <<m_clientFd, opened>> /\ ServerKept /\ HistoryKept
           /\ call[c].pc = "sent" /\ Fd(c) \in Conn /\ ClientReads(Fd(c))
           /\ LET k == Fd(c)
              IN  /\ conn[k].down # <<>>
                  /\ MovesTo(c, "returned") /\ call'[c].fd = k
                  /\ \E got \in Beginnings(conn[k].down) :
                        /\ got = conn[k].down => conn'[k].down = <<>>
                        /\ conn'[k].split = (conn[k].split \/ got # conn[k].down)
                        /\ call'[c].failed \/ call'[c].response = ParseResponse(call[c].method, got)
<1> DEFINE k == Fd(c)
           down == conn[k].down
<1>1. /\ call[c].pc = "sent"
      /\ UNCHANGED <<m_clientFd, opened>> /\ ServerKept /\ HistoryKept
    BY DEF Receives, ServerKept, HistoryKept, server
<1>2. k \in Conn /\ call[c].id \in 1 .. Len(issued) /\ call[c].method = issued[call[c].id].method
    BY <1>1, OpenFd DEF FdsOpen
<1>3. conn \in [Conn -> ConnType] /\ conn[k] \in ConnType /\ down \in Seq(Octet)
    BY <1>2 DEF Typed, ConnType
<1>4. PICK got \in Beginnings(FirstPiece(down)) \ {<<>>} :
          /\ conn' = [conn EXCEPT ![k].down = SubSeq(@, Len(got) + 1, Len(@)),
                                  ![k].split = @ \/ got # down]
          /\ \/ call' = [call EXCEPT ![c].pc = "returned", ![c].fd = k,
                                     ![c].response = ParseResponse(call[c].method, got)]
             \/ SetFailed(c)
    BY DEF Receives
<1> DEFINE rest == SubSeq(down, Len(got) + 1, Len(down))
           split == (conn[k].split \/ got # down)
<1>5. /\ got \in Seq(Octet) /\ Len(got) \in 0 .. Len(down) /\ got \in Beginnings(down)
      /\ down # <<>>
    <2> HIDE DEF down
    <2>1. got \in Beginnings(down)
        BY <1>3, FirstPieceOf, BeginningsNest
    <2>2. got \in Seq(Octet) /\ Len(got) \in 0 .. Len(down) /\ Len(got) > 0
        BY <1>3, <2>1, BeginningOf
    <2> QED
        BY <2>1, <2>2, EmptySeq
<1>6. rest \in Seq(Octet) /\ (got = down => rest = <<>>)
    <2> HIDE DEF down
    <2>1. rest \in Seq(Octet) /\ Len(rest) = Len(down) - Len(got)
        BY <1>3, <1>5, RestOf
    <2>2. Len(down) \in Nat
        BY <1>3, LenProperties
    <2> HIDE DEF rest
    <2>3. got = down => Len(rest) = 0
        BY <2>1, <2>2
    <2> QED
        BY <2>1, <2>3, EmptySeq
<1> HIDE DEF k
<1>7. conn' = [conn EXCEPT ![k] = [conn[k] EXCEPT !.down = rest, !.split = split]]
    BY <1>4, <1>2, <1>3
<1> HIDE DEF rest, split
<1>8. split \in BOOLEAN
    BY <1>3 DEF split, ConnType
<1>9. /\ conn' \in [Conn -> ConnType] /\ ClientReads(k)
      /\ conn'[k].down = rest /\ conn'[k].split = split
    BY <1>2, <1>3, <1>6, <1>7, <1>8 DEF ConnType, ClientReads
<1>10. CASE call' = [call EXCEPT ![c].pc = "returned", ![c].fd = k,
                                ![c].response = ParseResponse(call[c].method, got)]
    <2> DEFINE r == ParseResponse(call[c].method, got)
    <2>1. r \in Response
        <3>1. call[c].method \in Methods
            BY <1>2, IssuedCall
        <3>2. r \in {ParseResponse(call[c].method, x) : x \in Seq(Octet)}
            BY <1>5
        <3> QED
            BY <3>1, <3>2 DEF Response
    <2> HIDE DEF r
    <2> DEFINE e1 == [call[c] EXCEPT !.pc = "returned"]
               e2 == [e1 EXCEPT !.fd = k]
               e3 == [e2 EXCEPT !.response = r]
    <2>2. call' = [call EXCEPT ![c] = e3]
        BY <1>10 DEF r, Typed
    <2>3. call \in [Caller -> CallType] /\ call[c] \in CallType
        BY DEF Typed
    <2>4. /\ e1 \in CallType /\ e1.pc = "returned" /\ e1.id = call[c].id /\ e1.ch = call[c].ch
           /\ e1.method = call[c].method /\ e1.args = call[c].args
        BY <2>3 DEF CallType
    <2> HIDE DEF e1
    <2>5. /\ e2 \in CallType /\ e2.pc = "returned" /\ e2.id = call[c].id /\ e2.ch = call[c].ch
           /\ e2.method = call[c].method /\ e2.args = call[c].args /\ e2.fd = k
        BY <1>2, <2>4 DEF CallType, k
    <2> HIDE DEF e2
    <2>6. /\ e3 \in CallType /\ e3.pc = "returned" /\ e3.id = call[c].id /\ e3.ch = call[c].ch
           /\ e3.method = call[c].method /\ e3.args = call[c].args /\ e3.fd = k /\ e3.response = r
        BY <2>1, <2>5 DEF CallType
    <2> HIDE DEF e3
    <2>7. /\ call' \in [Caller -> CallType] /\ MovesTo(c, "returned") /\ call'[c].fd = k
          /\ call'[c].response = r
        BY <2>2, <2>3, <2>6 DEF MovesTo
    <2>8. Typed'
        BY <1>1, <1>9, <2>7 DEF Typed, ServerKept, HistoryKept
    <2> QED
        BY <1>1, <1>2, <1>5, <1>6, <1>9, <2>7, <2>8 DEF k, r, split
<1>11. CASE SetFailed(c)
    <2>1. call' \in [Caller -> CallType] /\ Fails(c)
        BY <1>2, <1>11, FailsEffect DEF Typed, k
    <2>2. Typed'
        BY <1>1, <1>9, <2>1 DEF Typed, ServerKept, HistoryKept
    <2> QED
        BY <1>1, <1>2, <1>5, <1>6, <1>9, <2>1, <2>2 DEF Fails, k, split
<1> QED
    BY <1>4, <1>10, <1>11 DEF k

\* The call fails and its connection is closed.
LEMMA ReceiveFailsEffect ==
    ASSUME Typed, CallsIssued, FdsOpen, NEW c \in Caller, ReceiveFails(c)
    PROVE  /\ Typed'
           /\ opened' = opened /\ ServerKept /\ HistoryKept
           /\ call[c].pc = "sent" /\ Fd(c) \in Conn /\ ClientEnd(Fd(c))
           /\ Fails(c) /\ Closes(c) /\ conn'[Fd(c)].up = conn[Fd(c)].up
<1> DEFINE k == Fd(c)
<1>1. /\ call[c].pc = "sent" /\ opened' = opened /\ ServerKept /\ HistoryKept
      /\ m_clientFd' = [m_clientFd EXCEPT ![call[c].ch] = None]
      /\ conn' = [conn EXCEPT ![k].client = FALSE, ![k].down = <<>>]
      /\ SetFailed(c)
    BY DEF ReceiveFails, CloseFd, ServerKept, HistoryKept, server
<1>2. k \in Conn /\ call[c].ch \in Channel
    BY <1>1, OpenFd DEF FdsOpen
<1>3. call' \in [Caller -> CallType] /\ Fails(c)
    BY <1>1, <1>2, FailsEffect DEF Typed
<1>4. /\ m_clientFd' \in [Channel -> Conn \cup {None}] /\ m_clientFd'[call[c].ch] = None
      /\ \A h \in Channel \ {call[c].ch} : m_clientFd'[h] = m_clientFd[h]
    BY <1>1, <1>2 DEF Typed
<1>5. conn \in [Conn -> ConnType] /\ <<>> \in Seq(Octet)
    BY DEF Typed
<1> HIDE DEF k
<1>6. /\ conn' \in [Conn -> ConnType] /\ ClientEnd(k)
      /\ ~conn'[k].client /\ conn'[k].down = <<>> /\ conn'[k].up = conn[k].up
    BY <1>1, <1>2, <1>5 DEF ConnType, ClientEnd
<1>7. Typed'
    BY <1>1, <1>3, <1>4, <1>6 DEF Typed, ServerKept, HistoryKept
<1> QED
    BY <1>1, <1>2, <1>3, <1>4, <1>6, <1>7 DEF Closes, k

\* The client's end of every connection stays as it is, and no bytes come to the server.
ClientKept == UNCHANGED <<call, m_clientFd, opened, issued>>

\* The call id, answered with reply on the connection k (SendRpcResponse), with up left there.
Answers(k, id, reply, up) ==
    LET response == SerializeResponse(issued[id].method, reply)
    IN  /\ conn'[k].client = conn[k].client /\ conn'[k].server = conn[k].server
        /\ conn'[k].up = up
        /\ conn'[k].down = IF conn[k].client THEN conn[k].down \o response ELSE conn[k].down
        /\ conn'[k].split = conn[k].split
        /\ \A l \in Conn \ {k} : conn'[l] = conn[l]
        /\ \E whole \in BOOLEAN :
              ran'[id] = Append(ran[id], [args |-> ArgsTaken(id, whole), whole |-> whole, reply |-> reply])
        /\ \A j \in Id \ {id} : ran'[j] = ran[j]

\* SendRpcResponse and Execution, in terms of the call that is answered.
LEMMA AnswersEffect ==
    ASSUME Typed, NEW k \in Conn, NEW id \in 1 .. Len(issued), NEW reply \in Reply[issued[id].method],
           NEW up \in Seq(Octet), NEW msg, NEW whole \in BOOLEAN,
           msg.id = id, msg.args = ArgsTaken(id, whole), msg.whole = whole, ran' = Execution(msg, reply),
           \/ conn' = [SendRpcResponse(k, issued[id].method, reply) EXCEPT ![k].up = up]
           \/ conn' = SendRpcResponse(k, issued[id].method, reply) /\ up = conn[k].up
    PROVE  /\ conn' \in [Conn -> ConnType] /\ ran' \in [Id -> Seq(Ran)]
           /\ Answers(k, id, reply, up)
<1> DEFINE m == issued[id].method
           response == SerializeResponse(m, reply)
           down == IF conn[k].client THEN conn[k].down \o response ELSE conn[k].down
           args == ArgsTaken(id, whole)
<1>1. id \in Id /\ m \in Methods /\ args \in Request[m] \cup {Defaults(m)}
    BY IssuedCall DEF ArgsTaken
<1>2. response \in Seq(Octet)
    BY <1>1, AnswerOctets
<1>3. conn \in [Conn -> ConnType] /\ conn[k] \in ConnType /\ conn[k].down \in Seq(Octet)
    BY DEF Typed, ConnType
<1>4. down \in Seq(Octet)
    BY <1>2, <1>3, ConcatProperties
<1>5. \/ conn' = [[conn EXCEPT ![k].down = down] EXCEPT ![k].up = up]
      \/ conn' = [conn EXCEPT ![k].down = down] /\ up = conn[k].up
    BY <1>3 DEF SendRpcResponse
<1> DEFINE x == [args |-> args, whole |-> whole, reply |-> reply]
<1>6. x \in Ran
    <2>1. x \in [args : Request[m] \cup {Defaults(m)}, whole : BOOLEAN, reply : Reply[m]]
        BY <1>1
    <2> QED
        BY <1>1, <2>1 DEF Ran
<1>7. ran' = [ran EXCEPT ![id] = Append(@, x)]
    BY DEF Execution
<1> HIDE DEF x
<1>8. /\ ran' \in [Id -> Seq(Ran)] /\ ran'[id] = Append(ran[id], x)
      /\ \A j \in Id \ {id} : ran'[j] = ran[j]
    <2>1. ran \in [Id -> Seq(Ran)] /\ Append(ran[id], x) \in Seq(Ran)
        BY <1>1, <1>6, AppendProperties DEF Typed
    <2> QED
        BY <1>1, <1>7, <2>1
<1> HIDE DEF down
<1> DEFINE e1 == [conn[k] EXCEPT !.down = down]
           e2 == [e1 EXCEPT !.up = up]
<1>9. /\ e1 \in ConnType /\ e1.client = conn[k].client /\ e1.server = conn[k].server
      /\ e1.down = down /\ e1.up = conn[k].up /\ e1.split = conn[k].split
    BY <1>3, <1>4 DEF ConnType
<1>10. \/ conn' = [conn EXCEPT ![k] = e2]
       \/ conn' = [conn EXCEPT ![k] = e1] /\ up = conn[k].up
    BY <1>3, <1>5
<1> HIDE DEF e1
<1>11. /\ e2 \in ConnType /\ e2.client = conn[k].client /\ e2.server = conn[k].server
       /\ e2.down = down /\ e2.split = conn[k].split /\ e2.up = up
    BY <1>9 DEF ConnType
<1> HIDE DEF e2
<1>12. /\ conn' \in [Conn -> ConnType]
       /\ conn'[k] = e2 \/ (conn'[k] = e1 /\ up = conn[k].up)
       /\ \A l \in Conn \ {k} : conn'[l] = conn[l]
    BY <1>3, <1>9, <1>10, <1>11
<1>13. /\ conn'[k].client = conn[k].client /\ conn'[k].server = conn[k].server
       /\ conn'[k].up = up /\ conn'[k].down = down /\ conn'[k].split = conn[k].split
    BY <1>9, <1>11, <1>12
<1> HIDE DEF response
<1>14. conn'[k].down = IF conn[k].client THEN conn[k].down \o response ELSE conn[k].down
    BY <1>13 DEF down
<1>15. ran'[id] = Append(ran[id], [args |-> ArgsTaken(id, whole), whole |-> whole, reply |-> reply])
    BY <1>8 DEF x
<1> QED
    BY <1>8, <1>12, <1>13, <1>14, <1>15 DEF Answers, response

\* The bytes of a call that was issued.
LEMMA CallBytes ==
    ASSUME Typed, NEW id \in 1 .. Len(issued)
    PROVE  /\ IsSeq(Buffer(id)) /\ Len(Buffer(id)) \in Nat /\ 1 <= Len(Buffer(id))
           /\ DOMAIN Buffer(id) = 1 .. Len(Buffer(id))
           /\ Buffer(id)[1].half = 0 /\ Buffer(id)[1].id = id
           /\ \A j \in 2 .. Len(Buffer(id)) : Buffer(id)[j].half \in {1, 2}
<1>1. issued[id].method \in Methods /\ issued[id].args \in Request[issued[id].method]
    BY IssuedCall
<1>2. PICK method \in Methods, args \in Request[issued[id].method] :
         method = issued[id].method /\ args = issued[id].args
    BY <1>1
<1>3. PICK b, h : b = SendBuffer(method, args, id) /\ h = HeaderLen(method, args)
    OBVIOUS
<1>4. PICK n : n = ArgsLen(method, args)
    OBVIOUS
<1>5. /\ IsSeq(b) /\ h \in Nat /\ n \in Nat /\ Len(b) = 1 + h + n
      /\ DOMAIN b = 1 .. 1 + h + n
      /\ b[1] = Prefix(h, id)
      /\ \A j \in 2 .. Len(b) : b[j].half \in {1, 2}
    <2>1. args \in Request[method]
        BY <1>2
    <2> QED
        BY <1>3, <1>4, <2>1, BufferShape, SMTT(30)
<1>6. Len(b) \in Nat /\ 1 <= Len(b) /\ DOMAIN b = 1 .. Len(b)
    BY <1>5
<1>7. b[1].half = 0 /\ b[1].id = id
    BY <1>5 DEF Prefix
<1>8. Buffer(id) = b
    BY <1>2, <1>3 DEF Buffer
<1> QED
    BY <1>5, <1>6, <1>7, <1>8

\* The message of a call, as OnMessage decodes it.
Message(id, whole) ==
    [method |-> issued[id].method, args |-> ArgsTaken(id, whole), id |-> id, whole |-> whole]

\* OnMessage makes of bytes that begin with a call this very call, the call with the
\* default arguments, or nothing.
LEMMA CallDecoded ==
    ASSUME Typed, NEW id \in 1 .. Len(issued),
           NEW bytes, IsSeq(bytes), Len(bytes) >= 1,
           \A j \in 1 .. Len(Buffer(id)) : j <= Len(bytes) => bytes[j] = Buffer(id)[j]
    PROVE  Decoded(bytes) = None \/ \E whole \in BOOLEAN : Decoded(bytes) = Message(id, whole)
<1>1. issued[id].method \in Methods /\ issued[id].args \in Request[issued[id].method]
    BY IssuedCall
<1>2. PICK b : b = SendBuffer(issued[id].method, issued[id].args, id)
    OBVIOUS
<1>3. b = Buffer(id)
    BY <1>2 DEF Buffer
<1>4. \A j \in 1 .. Len(b) : j <= Len(bytes) => bytes[j] = b[j]
    BY <1>3
<1>5. \/ Decoded(bytes) = None
      \/ Decoded(bytes) = [method |-> issued[id].method, args |-> issued[id].args, id |-> id,
                           whole |-> TRUE]
      \/ Decoded(bytes) = [method |-> issued[id].method, args |-> Defaults(issued[id].method),
                           id |-> id, whole |-> FALSE]
    BY <1>1, <1>2, <1>4, DecodedExactly
<1> QED
    BY <1>5 DEF Message, ArgsTaken

\* The message that a read holds is a call that was issued, at the front of the bytes.
LEMMA MessageIssued ==
    ASSUME Typed, RequestsWhole, NEW k \in Conn,
           NEW bytes \in Beginnings(conn[k].up) \ {<<>>}, Decoded(bytes) # None,
           NEW id, id = conn[k].up[1].id
    PROVE  /\ conn[k].up[1].half = 0 /\ id \in 1 .. Len(issued)
           /\ \E whole \in BOOLEAN : Decoded(bytes) = Message(id, whole)
<1> DEFINE up == conn[k].up
           b == Buffer(id)
<1>1. up \in Seq(Octet) /\ Len(up) \in Nat /\ DOMAIN up = 1 .. Len(up)
    <2>1. up \in Seq(Octet)
        BY DEF Typed, ConnType
    <2> QED
        BY <2>1, LenProperties
<1>2. /\ IsSeq(bytes) /\ Len(bytes) \in 1 .. Len(up) /\ bytes \in Seq(Octet)
      /\ \A i \in 1 .. Len(bytes) : bytes[i] = up[i]
    <2> HIDE DEF up
    <2>1. /\ bytes \in Seq(Octet) /\ Len(bytes) \in 0 .. Len(up) /\ Len(bytes) > 0
          /\ \A i \in 1 .. Len(bytes) : bytes[i] = up[i]
        BY <1>1, BeginningOf DEF up
    <2> QED
        BY <1>1, <2>1, SeqIsSeq
<1>3. up[1].half = 0
    <2> HIDE DEF up
    <2>1. Head(bytes) = up[1]
        BY <1>1, <1>2
    <2> QED
        BY <2>1 DEF Decoded
<1>4. /\ id \in 1 .. Len(issued)
      /\ \A j \in 1 .. Len(b) : 1 + j - 1 <= Len(up) => up[1 + j - 1] = b[j]
    <2>1. 1 \in DOMAIN up
        BY <1>1, <1>2
    <2> QED
        BY <2>1, <1>3 DEF RequestsWhole, Whole, WholeAt
<1>5. Len(b) \in Nat
    BY <1>4, CallBytes
<1> HIDE DEF up, b
<1>6. \A j \in 1 .. Len(b) : j <= Len(up) => up[j] = b[j]
    <2>1. \A j \in 1 .. Len(b) : 1 + j - 1 = j
        BY <1>5
    <2> QED
        BY <1>4, <2>1
<1>7. \A j \in 1 .. Len(b) : j <= Len(bytes) => bytes[j] = b[j]
    <2> SUFFICES ASSUME NEW j \in 1 .. Len(b), j <= Len(bytes)
                 PROVE  bytes[j] = b[j]
        OBVIOUS
    <2>1. j \in 1 .. Len(bytes) /\ j <= Len(up)
        BY <1>1, <1>2, <1>5
    <2> QED
        BY <1>2, <1>6, <2>1
<1>8. Len(bytes) >= 1
    BY <1>1, <1>2
<1>9. \E whole \in BOOLEAN : Decoded(bytes) = Message(id, whole)
    BY <1>2, <1>4, <1>7, <1>8, CallDecoded DEF b
<1> QED
    BY <1>3, <1>4, <1>9 DEF up

\* The bytes that are left on the connection k.
Keeps(k, up) ==
    /\ conn'[k].client = conn[k].client /\ conn'[k].server = conn[k].server
    /\ conn'[k].down = conn[k].down /\ conn'[k].split = conn[k].split
    /\ conn'[k].up = up
    /\ \A l \in Conn \ {k} : conn'[l] = conn[l]

\* Bytes are taken from the front of a connection.
LEMMA TakesEffect ==
    ASSUME conn \in [Conn -> ConnType], NEW k \in Conn, NEW up \in Seq(Octet),
           conn' = [conn EXCEPT ![k].up = up]
    PROVE  conn' \in [Conn -> ConnType] /\ Keeps(k, up)
<1>1. conn[k] \in ConnType
    OBVIOUS
<1> DEFINE e == [conn[k] EXCEPT !.up = up]
<1>2. /\ e \in ConnType /\ e.client = conn[k].client /\ e.server = conn[k].server
      /\ e.down = conn[k].down /\ e.split = conn[k].split /\ e.up = up
    BY <1>1 DEF ConnType
<1>3. conn' = [conn EXCEPT ![k] = e]
    OBVIOUS
<1> HIDE DEF e
<1> QED
    BY <1>2, <1>3 DEF Keeps

TaskOf(k, id, whole) ==
    [conn |-> k, method |-> issued[id].method, args |-> ArgsTaken(id, whole), id |-> id, whole |-> whole]

\* A read executes the call in front, queues it, or drops it.
LEMMA OnMessageEffect ==
    ASSUME Typed, RequestsWhole, NEW k \in Conn, OnMessage(k)
    PROVE  /\ Typed'
           /\ ClientKept /\ UNCHANGED <<worker, alive>>
           /\ conn[k].up # <<>>
           /\ \E n \in 1 .. Len(conn[k].up) :
                LET rest == SubSeq(conn[k].up, n + 1, Len(conn[k].up))
                    id == conn[k].up[1].id
                IN  \/ /\ Keeps(k, rest) /\ UNCHANGED <<ran, m_tasks, notices>>
                    \/ /\ conn[k].up[1].half = 0 /\ id \in 1 .. Len(issued)
                       /\ UNCHANGED <<m_tasks, notices>>
                       /\ \E reply \in Reply[issued[id].method] : Answers(k, id, reply, rest)
                    \/ /\ conn[k].up[1].half = 0 /\ id \in 1 .. Len(issued)
                       /\ issued[id].method \in KvMethods
                       /\ \E whole \in BOOLEAN : m_tasks' = Append(m_tasks, TaskOf(k, id, whole))
                       /\ notices' = notices + 1
                       /\ Keeps(k, rest) /\ UNCHANGED ran
<1> DEFINE up == conn[k].up
           id == up[1].id
           rest(n) == SubSeq(up, n + 1, Len(up))
<1>1. ClientKept /\ UNCHANGED <<worker, alive>> /\ up # <<>>
    BY DEF OnMessage, ClientKept
<1>2. PICK bytes \in Beginnings(up) \ {<<>>} :
          LET taken == [conn EXCEPT ![k].up = rest(Len(bytes))]
              msg == Decoded(bytes)
          IN  \/ /\ msg = None
                 /\ conn' = taken /\ UNCHANGED <<ran, m_tasks, notices>>
              \/ /\ msg # None /\ msg.method \in RaftMethods
                 /\ \E reply \in Reply[msg.method] :
                       /\ ran' = Execution(msg, reply)
                       /\ conn' = [SendRpcResponse(k, msg.method, reply) EXCEPT ![k].up = rest(Len(bytes))]
                 /\ UNCHANGED <<m_tasks, notices>>
              \/ /\ msg # None /\ msg.method \in KvMethods
                 /\ enqueue([conn |-> k, method |-> msg.method, args |-> msg.args, id |-> msg.id,
                             whole |-> msg.whole])
                 /\ conn' = taken /\ UNCHANGED ran
    BY DEF OnMessage
<1>3. up \in Seq(Octet) /\ conn \in [Conn -> ConnType]
    BY DEF Typed, ConnType
<1> DEFINE n == Len(bytes)
<1>4. n \in 1 .. Len(up) /\ rest(n) \in Seq(Octet)
    <2> HIDE DEF up
    <2>1. Len(up) \in Nat
        BY <1>3, LenProperties
    <2>2. n \in 0 .. Len(up) /\ n > 0
        BY <1>3, BeginningOf
    <2> HIDE DEF n
    <2> QED
        BY <2>1, <2>2, <1>3, RestOf
<1>5. Decoded(bytes) # None =>
        /\ up[1].half = 0 /\ id \in 1 .. Len(issued)
        /\ \E whole \in BOOLEAN : Decoded(bytes) = Message(id, whole)
    BY MessageIssued
<1> HIDE DEF up, n, rest
<1>6. CASE /\ conn' = [conn EXCEPT ![k].up = rest(n)] /\ UNCHANGED <<ran, m_tasks, notices>>
    <2>1. conn' \in [Conn -> ConnType] /\ Keeps(k, rest(n))
        BY <1>3, <1>4, <1>6, TakesEffect
    <2>2. Typed'
        BY <1>1, <1>6, <2>1 DEF Typed, ClientKept
    <2> QED
        BY <1>1, <1>4, <1>6, <2>1, <2>2 DEF up, rest
<1>7. CASE /\ Decoded(bytes) # None
           /\ \E reply \in Reply[Decoded(bytes).method] :
                 /\ ran' = Execution(Decoded(bytes), reply)
                 /\ conn' = [SendRpcResponse(k, Decoded(bytes).method, reply) EXCEPT ![k].up = rest(n)]
           /\ UNCHANGED <<m_tasks, notices>>
    <2>1. PICK whole \in BOOLEAN : Decoded(bytes) = Message(id, whole)
        BY <1>5, <1>7
    <2>2. PICK reply \in Reply[issued[id].method] :
                 /\ ran' = Execution(Message(id, whole), reply)
                 /\ conn' = [SendRpcResponse(k, issued[id].method, reply) EXCEPT ![k].up = rest(n)]
        BY <2>1, <1>7 DEF Message
    <2>3. /\ Message(id, whole).id = id /\ Message(id, whole).args = ArgsTaken(id, whole)
          /\ Message(id, whole).whole = whole
        BY DEF Message
    <2>4. /\ conn' \in [Conn -> ConnType] /\ ran' \in [Id -> Seq(Ran)]
          /\ Answers(k, id, reply, rest(n))
        BY <1>4, <1>5, <1>7, <2>2, <2>3, AnswersEffect
    <2>5. Typed'
        BY <1>1, <1>7, <2>4 DEF Typed, ClientKept
    <2> QED
        BY <1>1, <1>4, <1>5, <1>7, <2>4, <2>5 DEF up, rest
<1>8. CASE /\ Decoded(bytes) # None /\ Decoded(bytes).method \in KvMethods
           /\ enqueue([conn |-> k, method |-> Decoded(bytes).method, args |-> Decoded(bytes).args,
                       id |-> Decoded(bytes).id, whole |-> Decoded(bytes).whole])
           /\ conn' = [conn EXCEPT ![k].up = rest(n)] /\ UNCHANGED ran
    <2>0. PICK whole \in BOOLEAN : Decoded(bytes) = Message(id, whole)
        BY <1>5, <1>8
    <2>1. conn' \in [Conn -> ConnType] /\ Keeps(k, rest(n))
        BY <1>3, <1>4, <1>8, TakesEffect
    <2>2. /\ issued[id].method \in KvMethods
          /\ m_tasks' = Append(m_tasks, TaskOf(k, id, whole)) /\ notices' = notices + 1
        BY <2>0, <1>8 DEF enqueue, TaskOf, Message
    <2>3. TaskOf(k, id, whole) \in Task
        BY <1>5, <1>8, <2>2, IssuedCall DEF TaskOf, Task, ArgsTaken
    <2>4. m_tasks' \in Seq(Task) /\ notices' \in Nat
        BY <2>2, <2>3, AppendProperties DEF Typed
    <2>5. Typed'
        BY <1>1, <1>8, <2>1, <2>4 DEF Typed, ClientKept
    <2> QED
        BY <1>1, <1>4, <1>5, <1>8, <2>1, <2>2, <2>5 DEF up, rest
<1> QED
    BY <1>2, <1>6, <1>7, <1>8 DEF n

\* The server closes its end.
LEMMA OnConnectionEffect ==
    ASSUME Typed, NEW k \in Conn, OnConnection(k)
    PROVE  /\ Typed'
           /\ ClientKept /\ ServerKept /\ HistoryKept
           /\ ~conn[k].client /\ conn[k].up = <<>>
           /\ conn'[k].client = conn[k].client /\ conn'[k].up = conn[k].up
           /\ conn'[k].down = conn[k].down /\ conn'[k].split = conn[k].split
           /\ \A l \in Conn \ {k} : conn'[l] = conn[l]
<1>1. /\ ~conn[k].client /\ conn[k].up = <<>> /\ ClientKept /\ ServerKept /\ HistoryKept
      /\ conn' = [conn EXCEPT ![k].server = FALSE]
    BY DEF OnConnection, ClientKept, ServerKept, HistoryKept, server
<1>2. conn \in [Conn -> ConnType]
    BY DEF Typed
<1>3. /\ conn' \in [Conn -> ConnType]
      /\ conn'[k].client = conn[k].client /\ conn'[k].up = conn[k].up
      /\ conn'[k].down = conn[k].down /\ conn'[k].split = conn[k].split
      /\ \A l \in Conn \ {k} : conn'[l] = conn[l]
    BY <1>1, <1>2 DEF ConnType
<1> QED
    BY <1>1, <1>3 DEF Typed, ClientKept, ServerKept, HistoryKept

\* At most a sleeping worker is woken.
LEMMA NotifiesEffect ==
    ASSUME Typed, Notifies
    PROVE  /\ Typed'
           /\ ClientKept /\ conn' = conn /\ m_tasks' = m_tasks /\ ran' = ran
           /\ notices' \in Nat /\ notices' <= notices
           /\ \A w \in Worker : worker'[w].pc = "running" \/ worker[w].pc = "running"
                                => worker'[w] = worker[w]
<1>1. /\ notices > 0 /\ notices' = notices - 1
      /\ ClientKept /\ UNCHANGED <<conn, m_tasks, alive, ran>>
    BY DEF Notifies, ClientKept
<1>2. notices \in Nat /\ worker \in [Worker -> WorkerType]
    BY DEF Typed
<1>3. notices' \in Nat /\ notices' <= notices
    BY <1>1, <1>2
<1>4. /\ worker' \in [Worker -> WorkerType]
      /\ \A w \in Worker : worker'[w].pc = "running" \/ worker[w].pc = "running"
                           => worker'[w] = worker[w]
    <2>1. CASE UNCHANGED worker
        BY <1>2, <2>1
    <2>2. CASE \E w \in Worker : worker[w] = Asleep /\ worker' = [worker EXCEPT ![w] = Awake]
        <3>1. PICK w \in Worker : worker[w] = Asleep /\ worker' = [worker EXCEPT ![w] = Awake]
            BY <2>2
        <3>2. Asleep.pc # "running" /\ Awake.pc # "running" /\ Awake \in WorkerType
            BY DEF Asleep, Awake, WorkerType
        <3>3. worker'[w] = Awake /\ \A v \in Worker \ {w} : worker'[v] = worker[v]
            BY <1>2, <3>1
        <3> QED
            BY <1>2, <3>1, <3>2, <3>3
    <2> QED
        BY <2>1, <2>2 DEF Notifies
<1> QED
    BY <1>1, <1>3, <1>4 DEF Typed, ClientKept

\* The oldest task goes to the worker, or the worker sleeps.
LEMMA WorkerTakesEffect ==
    ASSUME Typed, NEW w \in Worker, WorkerTakes(w)
    PROVE  /\ Typed'
           /\ ClientKept /\ UNCHANGED <<conn, notices, ran>>
           /\ worker[w].pc # "running"
           /\ \A v \in Worker \ {w} : worker'[v] = worker[v]
           /\ \/ worker'[w].pc # "running" /\ m_tasks' = m_tasks
              \/ /\ m_tasks # <<>> /\ worker'[w].pc = "running"
                 /\ worker'[w].task = m_tasks[1] /\ m_tasks' = Tail(m_tasks)
<1>1. /\ worker[w] = Awake /\ ClientKept /\ UNCHANGED <<conn, notices, alive, ran>>
      /\ \/ m_tasks = <<>> /\ worker' = [worker EXCEPT ![w] = Asleep] /\ UNCHANGED m_tasks
         \/ /\ m_tasks # <<>> /\ worker' = [worker EXCEPT ![w] = Running(Head(m_tasks))]
            /\ m_tasks' = Tail(m_tasks)
    BY DEF WorkerTakes, ClientKept
<1>2. worker \in [Worker -> WorkerType] /\ m_tasks \in Seq(Task)
    BY DEF Typed
<1>3. worker[w].pc # "running"
    BY <1>1 DEF Awake
<1>4. CASE m_tasks = <<>> /\ worker' = [worker EXCEPT ![w] = Asleep] /\ UNCHANGED m_tasks
    <2>1. Asleep.pc # "running" /\ Asleep \in WorkerType
        BY DEF Asleep, WorkerType
    <2>2. /\ worker' \in [Worker -> WorkerType] /\ worker'[w] = Asleep
          /\ \A v \in Worker \ {w} : worker'[v] = worker[v]
        BY <1>2, <1>4, <2>1
    <2> QED
        BY <1>1, <1>3, <1>4, <2>1, <2>2 DEF Typed, ClientKept
<1>5. CASE /\ m_tasks # <<>> /\ worker' = [worker EXCEPT ![w] = Running(Head(m_tasks))]
           /\ m_tasks' = Tail(m_tasks)
    <2>1. Head(m_tasks) \in Task /\ Head(m_tasks) = m_tasks[1] /\ Tail(m_tasks) \in Seq(Task)
        BY <1>2, <1>5, HeadTailProperties
    <2>2. /\ Running(m_tasks[1]).pc = "running" /\ Running(m_tasks[1]).task = m_tasks[1]
          /\ Running(m_tasks[1]) \in WorkerType
        BY <2>1 DEF Running, WorkerType
    <2>3. /\ worker' \in [Worker -> WorkerType] /\ worker'[w] = Running(m_tasks[1])
          /\ \A v \in Worker \ {w} : worker'[v] = worker[v]
        BY <1>2, <1>5, <2>1, <2>2
    <2> QED
        BY <1>1, <1>3, <1>5, <2>1, <2>2, <2>3 DEF Typed, ClientKept
<1> QED
    BY <1>1, <1>4, <1>5

\* What a worker runs is a task.
LEMMA RunningTask ==
    ASSUME Typed, NEW w \in Worker, worker[w].pc = "running"
    PROVE  worker[w].task \in Task
<1>1. worker[w] \in WorkerType
    BY DEF Typed
<1>2. worker[w] # Awake /\ worker[w] # Asleep
    BY DEF Awake, Asleep
<1>3. PICK task \in Task : worker[w] = Running(task)
    BY <1>1, <1>2 DEF WorkerType
<1> QED
    BY <1>3 DEF Running

\* The worker answers the call of its task.
LEMMA WorkerRunsEffect ==
    ASSUME Typed, TasksIssued, NEW w \in Worker, WorkerRuns(w)
    PROVE  LET task == worker[w].task
           IN  /\ Typed'
               /\ ClientKept /\ UNCHANGED <<m_tasks, notices, alive>>
               /\ worker[w].pc = "running" /\ task \in Task /\ task.id \in 1 .. Len(issued)
               /\ worker'[w].pc # "running"
               /\ \A v \in Worker \ {w} : worker'[v] = worker[v]
               /\ \E reply \in Reply[issued[task.id].method] :
                     Answers(task.conn, task.id, reply, conn[task.conn].up)
<1> DEFINE task == worker[w].task
           k == task.conn
<1>1. /\ worker[w].pc = "running" /\ ClientKept /\ UNCHANGED <<m_tasks, notices, alive>>
      /\ worker' = [worker EXCEPT ![w] = Awake]
    BY DEF WorkerRuns, ClientKept
<1>2. PICK reply \in Reply[task.method] :
          /\ ran' = Execution(task, reply)
          /\ conn' = SendRpcResponse(task.conn, task.method, reply)
    BY DEF WorkerRuns
<1>3. task \in Task /\ TaskIssued(task)
    BY <1>1, RunningTask DEF TasksIssued, RunningTasks
<1>4. task.id \in 1 .. Len(issued) /\ task.method = issued[task.id].method
      /\ task.args = ArgsTaken(task.id, task.whole) /\ task.whole \in BOOLEAN /\ k \in Conn
    BY <1>3 DEF TaskIssued, Task
<1>5. conn \in [Conn -> ConnType] /\ conn[k] \in ConnType /\ conn[k].up \in Seq(Octet)
    BY <1>4 DEF Typed, ConnType
<1>6. conn' = SendRpcResponse(k, issued[task.id].method, reply)
    BY <1>2, <1>4
<1>7. /\ conn' \in [Conn -> ConnType] /\ ran' \in [Id -> Seq(Ran)]
      /\ Answers(k, task.id, reply, conn[k].up)
    BY <1>2, <1>4, <1>5, <1>6, AnswersEffect
<1>8. /\ worker' \in [Worker -> WorkerType] /\ worker'[w].pc # "running"
      /\ \A v \in Worker \ {w} : worker'[v] = worker[v]
    BY <1>1 DEF Typed, Awake, WorkerType
<1>9. Typed'
    BY <1>1, <1>7, <1>8 DEF Typed, ClientKept
<1> QED
    BY <1>1, <1>2, <1>3, <1>4, <1>7, <1>8, <1>9

\* A crash empties the queue, the workers and the bytes on their way to the server.
LEMMA CrashEffect ==
    ASSUME Typed, Crash
    PROVE  /\ Typed'
           /\ ClientKept /\ ran' = ran /\ m_tasks' = <<>> /\ notices' = 0
           /\ \A w \in Worker : worker'[w].pc # "running"
           /\ \A k \in Conn :
                 /\ conn'[k].client = conn[k].client /\ conn'[k].up = <<>> /\ ~conn'[k].server
                 /\ conn'[k].down = conn[k].down /\ conn'[k].split = conn[k].split
<1>1. /\ ClientKept /\ ran' = ran /\ m_tasks' = <<>> /\ notices' = 0 /\ alive' = FALSE
      /\ worker' = [w \in Worker |-> Awake]
      /\ conn' = [k \in Conn |-> [conn[k] EXCEPT !.server = FALSE, !.up = <<>>]]
    BY DEF Crash, ClientKept
<1>2. conn \in [Conn -> ConnType] /\ <<>> \in Seq(Octet) /\ <<>> \in Seq(Task)
    BY DEF Typed
<1>3. ASSUME NEW k \in Conn
      PROVE  /\ conn'[k] \in ConnType
             /\ conn'[k].client = conn[k].client /\ conn'[k].up = <<>> /\ ~conn'[k].server
             /\ conn'[k].down = conn[k].down /\ conn'[k].split = conn[k].split
    BY <1>1, <1>2 DEF ConnType
<1>4. conn' \in [Conn -> ConnType]
    BY <1>1, <1>3
<1>5. worker' \in [Worker -> WorkerType] /\ \A w \in Worker : worker'[w].pc # "running"
    BY <1>1 DEF WorkerType, Awake
<1> QED
    BY <1>1, <1>2, <1>3, <1>4, <1>5 DEF Typed, ClientKept

\* A start changes only whether the server is up.
LEMMA RunEffect ==
    ASSUME Typed, Run
    PROVE  Typed' /\ ClientKept /\ UNCHANGED <<conn, m_tasks, notices, worker, ran>>
BY DEF Run, Typed, ClientKept

-----------------------------------------------------------------------------
(* The threads of the clients and their connections.                       *)

\* A step of c within its call: it keeps the channel, or had it to itself when it got it.
LEMMA MoveKeepsCalls ==
    ASSUME CallsIssued, OneHolder, NEW c \in Caller, NEW pc, MovesTo(c, pc), issued' = issued,
           pc = "returned" \/ call[c].pc # "returned",
           \/ pc = "returned" \/ Holds(c)
           \/ \A d \in Caller : Holds(d) => call[d].ch # call[c].ch
    PROVE  CallsIssued' /\ OneHolder'
<1>1. \A d \in Caller : /\ call'[d].id = call[d].id /\ call'[d].ch = call[d].ch
                        /\ call'[d].method = call[d].method /\ call'[d].args = call[d].args
                        /\ call'[d].pc # "returned" /\ d # c => call[d].pc # "returned"
                        /\ d # c => Holds(d)' = Holds(d)
    BY DEF MovesTo, Holds
<1>2. call'[c].pc # "returned" => call[c].pc # "returned"
    BY DEF MovesTo
<1>3. CallsIssued'
    BY <1>1, <1>2 DEF CallsIssued
<1>4. OneHolder'
    <2>1. CASE pc = "returned"
        <3>1. ~Holds(c)'
            BY <2>1 DEF MovesTo, Holds
        <3> QED
            BY <1>1, <3>1 DEF OneHolder
    <2>2. CASE Holds(c)
        <3>1. \A d \in Caller : Holds(d)' => Holds(d)
            BY <1>1, <2>2
        <3> QED
            BY <1>1, <3>1 DEF OneHolder
    <2>3. CASE \A d \in Caller : Holds(d) => call[d].ch # call[c].ch
        BY <1>1, <2>3 DEF OneHolder
    <2> QED
        BY <2>1, <2>2, <2>3
<1> QED
    BY <1>3, <1>4

\* A new call has a number no other has.
LEMMA CallsKeepsCalls ==
    ASSUME Typed, CallsIssued, OneHolder, NEW c \in Caller, Calls(c)
    PROVE  CallsIssued' /\ OneHolder'
<1>1. PICK x \in Issue : /\ issued' = Append(issued, x)
                         /\ call'[c].method = x.method /\ call'[c].args = x.args
    BY CallsEffect
<1>2. /\ call[c].pc = "returned"
      /\ \A d \in Caller \ {c} : call'[d] = call[d]
      /\ call'[c].pc = "called" /\ call'[c].id = Len(issued) + 1 /\ call'[c].ch \in Channel
    BY CallsEffect
<1>3. /\ Len(issued) \in Nat /\ Len(issued') = Len(issued) + 1
      /\ issued'[Len(issued) + 1] = x /\ \A i \in 1 .. Len(issued) : issued'[i] = issued[i]
    BY <1>1, AppendProperties, LenProperties DEF Typed
<1> DEFINE n == Len(issued)
<1> HIDE DEF n
<1>4. \A d \in Caller : call[d].id \in 0 .. n
    BY DEF CallsIssued, n
<1>5. ASSUME NEW d \in Caller
      PROVE  /\ call'[d].id \in 0 .. Len(issued')
             /\ call'[d].pc # "returned" => call'[d].id # 0 /\ call'[d].ch \in Channel
             /\ call'[d].id # 0 => /\ call'[d].method = issued'[call'[d].id].method
                                   /\ call'[d].args = issued'[call'[d].id].args
    <2>1. CASE d = c
        BY <2>1, <1>1, <1>2, <1>3
    <2>2. CASE d # c
        <3>1. call'[d] = call[d]
            BY <1>2, <2>2
        <3>2. call[d].id # 0 => call[d].id \in 1 .. n
            BY <1>3, <1>4 DEF n
        <3>3. call[d].id \in 0 .. Len(issued')
            BY <1>3, <1>4 DEF n
        <3> QED
            BY <3>1, <3>2, <3>3, <1>3 DEF CallsIssued, n
    <2> QED
        BY <2>1, <2>2
<1>6. \A d, e \in Caller : call'[d].id = call'[e].id /\ call'[d].id # 0 => d = e
    <2>1. \A d \in Caller : d # c => call'[d].id # call'[c].id
        BY <1>2, <1>3, <1>4 DEF n
    <2> QED
        BY <2>1, <1>2 DEF CallsIssued
<1>7. OneHolder'
    <2>1. ~Holds(c)' /\ \A d \in Caller \ {c} : call'[d] = call[d]
        BY <1>2 DEF Holds
    <2> QED
        BY <2>1 DEF OneHolder, Holds
<1> QED
    BY <1>5, <1>6, <1>7 DEF CallsIssued

\* A set of numbers up to a bound has no more elements than the bound.
LEMMA CountedUpTo ==
    ASSUME NEW n \in Nat, NEW S, S \subseteq 1 .. n
    PROVE  /\ IsFiniteSet(S) /\ Cardinality(S) \in Nat /\ Cardinality(S) <= n
           /\ Cardinality(S) = n => S = 1 .. n
<1>1. IsFiniteSet(1 .. n) /\ Cardinality(1 .. n) = n
    <2>1. 1 \in Int /\ n \in Int
        OBVIOUS
    <2>2. /\ IsFiniteSet(1 .. n)
          /\ Cardinality(1 .. n) = IF 1 > n THEN 0 ELSE n - 1 + 1
        BY <2>1, FS_Interval, Zenon
    <2> QED
        BY <2>2
<1>2. /\ IsFiniteSet(S) /\ Cardinality(S) <= n
      /\ Cardinality(S) = n => S = 1 .. n
    BY <1>1, FS_Subset
<1> QED
    BY <1>2, FS_CardinalityType

\* The calls that ended are at most MaxCalls.
LEMMA EndedFinite ==
    ASSUME Typed
    PROVE  /\ IsFiniteSet(Ended) /\ Cardinality(Ended) \in Nat /\ Cardinality(Ended) <= MaxCalls
           /\ \A id \in 1 .. Len(issued) : id \notin Ended => Cardinality(Ended) < MaxCalls
<1>1. Len(issued) \in Nat /\ MaxCalls \in Nat /\ Len(issued) <= MaxCalls
    BY RpcAssumption, LenProperties DEF Typed
<1>2. Ended \subseteq 1 .. Len(issued)
    BY DEF Ended
<1>3. /\ IsFiniteSet(Ended) /\ Cardinality(Ended) \in Nat /\ Cardinality(Ended) <= Len(issued)
      /\ Cardinality(Ended) = Len(issued) => Ended = 1 .. Len(issued)
    BY <1>1, <1>2, CountedUpTo
<1>4. ASSUME NEW id \in 1 .. Len(issued), id \notin Ended
      PROVE  Cardinality(Ended) < MaxCalls
    <2>1. Cardinality(Ended) # Len(issued)
        BY <1>3, <1>4
    <2> QED
        BY <1>1, <1>3, <2>1
<1> QED
    BY <1>1, <1>3, <1>4

\* A call that goes on is not counted; one that returns is counted from then on.
LEMMA EndedSteps ==
    ASSUME Typed, CallsIssued, NEW c \in Caller, call[c].pc # "returned", NEW pc, MovesTo(c, pc),
           issued' = issued
    PROVE  /\ call[c].id \in 1 .. Len(issued) /\ call[c].id \notin Ended
           /\ Ended' = IF pc = "returned" THEN Ended \cup {call[c].id} ELSE Ended
<1>1. call[c].id \in 1 .. Len(issued)
    BY OpenFd
<1>2. call[c].id \in Open
    BY DEF Open
<1>3. \A d \in Caller : /\ call'[d].id = call[d].id
                        /\ d # c => call'[d].pc = call[d].pc
                        /\ d # c => call[d].id # call[c].id
    BY <1>1 DEF MovesTo, CallsIssued
<1>4. call'[c].pc = pc
    BY DEF MovesTo
<1>5. CASE pc # "returned"
    <2>1. Open' = Open
        BY <1>3, <1>4, <1>5 DEF Open
    <2> QED
        BY <1>1, <1>2, <1>5, <2>1 DEF Ended
<1>6. CASE pc = "returned"
    <2>1. Open' = Open \ {call[c].id}
        BY <1>3, <1>4, <1>6 DEF Open
    <2> QED
        BY <1>1, <1>2, <1>6, <2>1 DEF Ended
<1> QED
    BY <1>5, <1>6

\* A new call ends none.
LEMMA EndedAtCalls ==
    ASSUME Typed, CallsIssued, NEW c \in Caller, Calls(c)
    PROVE  Ended' = Ended
<1>1. /\ call[c].pc = "returned" /\ call'[c].pc = "called" /\ call'[c].id = Len(issued) + 1
      /\ \A d \in Caller \ {c} : call'[d] = call[d]
    BY CallsEffect
<1>2. Len(issued) \in Nat /\ Len(issued') = Len(issued) + 1
    BY CallsEffect, AppendProperties, LenProperties DEF Typed
<1>3. Open' = Open \cup {Len(issued) + 1}
    BY <1>1 DEF Open
<1>4. 1 .. Len(issued') = (1 .. Len(issued)) \cup {Len(issued) + 1}
    BY <1>2
<1> QED
    BY <1>2, <1>3, <1>4 DEF Ended

\* A connection belongs to a channel and has a number.
LEMMA ConnParts ==
    ASSUME NEW k \in Conn
    PROVE  k[1] \in Channel /\ k[2] \in Nat /\ k # None
<1>1. MaxCalls \in Nat
    BY RpcAssumption
<1> QED
    BY <1>1, RpcAssumption DEF Conn

\* No descriptor changes, and the connections that nobody opened stay as they are.
LEMMA FdsKept ==
    ASSUME FdsOpen, UNCHANGED <<m_clientFd, opened>>,
           \A k \in Conn : conn'[k].client = conn[k].client,
           \A k \in Conn : k[2] >= opened[k[1]] => conn'[k] = conn[k],
           m_clientFd \in [Channel -> Conn \cup {None}],
           \A c \in Caller : call'[c].pc = "sent" =>
              call'[c].ch = call[c].ch /\ (call[c].pc = "sent" \/ Fd(c) # None)
    PROVE  FdsOpen'
<1>1. \A ch \in Channel : m_clientFd[ch] # None => m_clientFd[ch] \in Conn
    OBVIOUS
<1>2. \A ch \in Channel : m_clientFd'[ch] # None =>
          m_clientFd'[ch][1] = ch /\ m_clientFd'[ch][2] < opened'[ch] /\ conn'[m_clientFd'[ch]].client
    BY <1>1 DEF FdsOpen
<1>3. \A k \in Conn : conn'[k].client => m_clientFd'[k[1]] = k
    BY DEF FdsOpen
<1>4. \A k \in Conn : k[2] >= opened'[k[1]] => conn'[k] = Closed
    BY DEF FdsOpen
<1>5. \A c \in Caller : call'[c].pc = "sent" => Fd(c)' # None
    BY DEF FdsOpen, Fd
<1> QED
    BY <1>2, <1>3, <1>4, <1>5 DEF FdsOpen

\* The descriptor that a channel keeps.
LEMMA FdOf ==
    ASSUME Typed, CallsIssued, FdsOpen, NEW c \in Caller, call[c].pc # "returned", Fd(c) \in Conn
    PROVE  /\ Fd(c)[1] = call[c].ch /\ Fd(c)[2] < opened[Fd(c)[1]] /\ conn[Fd(c)].client
           /\ m_clientFd[call[c].ch] = Fd(c) /\ Fd(c) # None /\ call[c].ch \in Channel
<1>1. call[c].ch \in Channel /\ Fd(c) # None
    BY OpenFd, ConnParts
<1> QED
    BY <1>1 DEF FdsOpen, Fd

\* CloseFd: the channel has no descriptor, its connection no client.
LEMMA FdsClosed ==
    ASSUME Typed, CallsIssued, OneHolder, FdsOpen, NEW c \in Caller, Holds(c), Fd(c) \in Conn,
           Closes(c), Fails(c), opened' = opened, ClientEnd(Fd(c))
    PROVE  FdsOpen'
<1> DEFINE k == Fd(c)
           ch == call[c].ch
<1>1. /\ k[1] = ch /\ k[2] < opened[k[1]] /\ conn[k].client /\ m_clientFd[ch] = k
      /\ ch \in Channel /\ k # None
    BY FdOf DEF Holds
<1>2. /\ m_clientFd'[ch] = None /\ ~conn'[k].client
      /\ \A h \in Channel \ {ch} : m_clientFd'[h] = m_clientFd[h]
      /\ \A l \in Conn \ {k} : conn'[l] = conn[l]
    BY DEF Closes, ClientEnd
<1>3. \A d \in Caller : call'[d].pc = "sent" => /\ call[d].pc = "sent" /\ call'[d].ch = call[d].ch
                                                /\ call[d].ch # ch
    BY DEF Fails, MovesTo, OneHolder, Holds
<1>4. \A d \in Caller : call'[d].pc = "sent" => Fd(d)' # None
    <2>1. \A d \in Caller : call[d].pc = "sent" => call[d].ch \in Channel
        BY DEF CallsIssued
    <2> QED
        BY <1>2, <1>3, <2>1 DEF FdsOpen, Fd
<1>5. \A h \in Channel : m_clientFd[h] # None => m_clientFd[h] \in Conn
    BY DEF Typed
<1> HIDE DEF k, ch
<1>6. \A h \in Channel : m_clientFd'[h] # None =>
          m_clientFd'[h][1] = h /\ m_clientFd'[h][2] < opened'[h] /\ conn'[m_clientFd'[h]].client
    <2> SUFFICES ASSUME NEW h \in Channel, m_clientFd'[h] # None
                 PROVE  m_clientFd'[h][1] = h /\ m_clientFd'[h][2] < opened'[h]
                        /\ conn'[m_clientFd'[h]].client
        OBVIOUS
    <2>1. h # ch /\ m_clientFd'[h] = m_clientFd[h] /\ m_clientFd[h] \in Conn
        BY <1>2, <1>5
    <2>2. m_clientFd[h][1] = h /\ m_clientFd[h][2] < opened[h] /\ conn[m_clientFd[h]].client
        BY <2>1, <1>5 DEF FdsOpen
    <2>3. m_clientFd[h] # k
        BY <1>1, <2>1, <2>2
    <2> QED
        BY <1>2, <2>1, <2>2, <2>3
<1>7. \A l \in Conn : conn'[l].client => m_clientFd'[l[1]] = l
    <2> SUFFICES ASSUME NEW l \in Conn, conn'[l].client
                 PROVE  m_clientFd'[l[1]] = l
        OBVIOUS
    <2>1. l # k /\ m_clientFd[l[1]] = l /\ l[1] \in Channel
        BY <1>2, ConnParts DEF FdsOpen
    <2>2. l[1] # ch
        BY <1>1, <2>1
    <2> QED
        BY <1>2, <2>1, <2>2
<1>8. \A l \in Conn : l[2] >= opened'[l[1]] => conn'[l] = Closed
    <2> SUFFICES ASSUME NEW l \in Conn, l[2] >= opened[l[1]]
                 PROVE  conn'[l] = Closed
        OBVIOUS
    <2>1. l[2] \in Nat /\ opened[l[1]] \in Nat
        BY ConnParts DEF Typed
    <2>2. l # k
        BY <1>1, <2>1
    <2> QED
        BY <1>2, <2>2 DEF FdsOpen
<1> QED
    BY <1>4, <1>6, <1>7, <1>8 DEF FdsOpen

\* newConnect: the new connection is the one of the channel.
LEMMA FdsConnected ==
    ASSUME Typed, CallsIssued, FdsOpen, NEW c \in Caller, call[c].pc = "locked", Fd(c) = None,
           call' = call, NEW ch, ch = call[c].ch, NEW new, new = <<ch, opened[ch]>>, new \in Conn,
           opened'[ch] = opened[ch] + 1, m_clientFd'[ch] = new, conn'[new].client,
           \A l \in Conn \ {new} : conn'[l] = conn[l],
           \A h \in Channel \ {ch} : opened'[h] = opened[h] /\ m_clientFd'[h] = m_clientFd[h]
    PROVE  FdsOpen'
<1>1. ch \in Channel /\ m_clientFd[ch] = None /\ new[1] = ch /\ new[2] = opened[ch] /\ opened[ch] \in Nat
    BY OpenFd DEF Fd, Typed
<1>2. \A h \in Channel : m_clientFd[h] # None => m_clientFd[h] \in Conn
    BY DEF Typed
<1>3. \A h \in Channel : m_clientFd'[h] # None =>
          m_clientFd'[h][1] = h /\ m_clientFd'[h][2] < opened'[h] /\ conn'[m_clientFd'[h]].client
    <2> SUFFICES ASSUME NEW h \in Channel, h # ch, m_clientFd'[h] # None
                 PROVE  m_clientFd'[h][1] = h /\ m_clientFd'[h][2] < opened'[h]
                        /\ conn'[m_clientFd'[h]].client
        <3>1. new[2] < opened'[ch]
            BY <1>1
        <3> QED
            BY <1>1, <3>1
    <2>1. m_clientFd'[h] = m_clientFd[h] /\ opened'[h] = opened[h] /\ m_clientFd[h] \in Conn
        BY <1>2
    <2>2. m_clientFd[h][1] = h /\ m_clientFd[h][2] < opened[h] /\ conn[m_clientFd[h]].client
        BY <2>1 DEF FdsOpen
    <2> QED
        BY <1>1, <2>1, <2>2
<1>4. \A l \in Conn : conn'[l].client => m_clientFd'[l[1]] = l
    <2> SUFFICES ASSUME NEW l \in Conn \ {new}, conn'[l].client
                 PROVE  m_clientFd'[l[1]] = l
        BY <1>1
    <2>1. m_clientFd[l[1]] = l /\ l[1] \in Channel /\ l # None
        BY ConnParts DEF FdsOpen
    <2> QED
        BY <1>1, <2>1
<1>5. \A l \in Conn : l[2] >= opened'[l[1]] => conn'[l] = Closed
    <2> SUFFICES ASSUME NEW l \in Conn, l[2] >= opened'[l[1]]
                 PROVE  conn'[l] = Closed
        OBVIOUS
    <2>1. l[1] \in Channel /\ l[2] \in Nat /\ opened[l[1]] \in Nat
        BY ConnParts DEF Typed
    <2>2. l # new /\ l[2] >= opened[l[1]]
        BY <1>1, <2>1
    <2> QED
        BY <2>2 DEF FdsOpen
<1>6. \A d \in Caller : call'[d].pc = "sent" => Fd(d)' # None
    <2> SUFFICES ASSUME NEW d \in Caller, call[d].pc = "sent"
                 PROVE  m_clientFd'[call[d].ch] # None
        BY DEF Fd
    <2>1. m_clientFd[call[d].ch] # None /\ call[d].ch \in Channel
        BY DEF FdsOpen, Fd, CallsIssued
    <2> QED
        BY <1>1, <2>1
<1> QED
    BY <1>3, <1>4, <1>5, <1>6 DEF FdsOpen

\* Where no descriptor changes, a call that returns can only help.
LEMMA SeldomKept ==
    ASSUME Typed, ConnectsSeldom, Typed', UNCHANGED <<m_clientFd, opened>>, Ended \subseteq Ended'
    PROVE  ConnectsSeldom'
<1>1. /\ IsFiniteSet(Ended') /\ Cardinality(Ended') \in Nat
      /\ Cardinality(Ended) \in Nat
    <2>1. Len(issued') \in Nat /\ Ended' \subseteq 1 .. Len(issued')
        BY LenProperties DEF Typed, Ended
    <2> QED
        BY <2>1, CountedUpTo, EndedFinite
<1>2. Cardinality(Ended) <= Cardinality(Ended')
    BY <1>1, FS_Subset
<1> HIDE DEF Ended
<1>3. ASSUME NEW ch \in Channel
      PROVE  opened'[ch] <= Cardinality(Ended') + (IF m_clientFd'[ch] # None THEN 1 ELSE 0)
    <2>1. /\ opened[ch] <= Cardinality(Ended) + (IF m_clientFd[ch] # None THEN 1 ELSE 0)
          /\ opened[ch] \in Nat
        BY DEF ConnectsSeldom, Typed
    <2> QED
        BY <1>1, <1>2, <2>1
<1> QED
    BY <1>3 DEF ConnectsSeldom

\* The call that closes a connection ends, and so makes room for the next.
LEMMA SeldomClosed ==
    ASSUME Typed, CallsIssued, FdsOpen, ConnectsSeldom, NEW c \in Caller, Holds(c), Fd(c) \in Conn,
           Closes(c), Fails(c), UNCHANGED <<opened, issued>>
    PROVE  ConnectsSeldom'
<1> DEFINE ch == call[c].ch
<1>1. /\ call[c].id \notin Ended /\ Ended' = Ended \cup {call[c].id}
    BY EndedSteps DEF Holds, Fails
<1>2. IsFiniteSet(Ended) /\ Cardinality(Ended) \in Nat
    BY EndedFinite
<1>3. Cardinality(Ended') = Cardinality(Ended) + 1
    BY <1>1, <1>2, FS_AddElement
<1>4. /\ m_clientFd'[ch] = None /\ \A h \in Channel \ {ch} : m_clientFd'[h] = m_clientFd[h]
    BY DEF Closes
<1>5. ch \in Channel /\ m_clientFd[ch] # None
    BY FdOf, ConnParts DEF Holds
<1> HIDE DEF ch, Ended
<1>6. ASSUME NEW h \in Channel
      PROVE  opened'[h] <= Cardinality(Ended') + (IF m_clientFd'[h] # None THEN 1 ELSE 0)
    <2>1. /\ opened[h] <= Cardinality(Ended) + (IF m_clientFd[h] # None THEN 1 ELSE 0)
          /\ opened[h] \in Nat
        BY DEF ConnectsSeldom, Typed
    <2>2. h = ch => m_clientFd'[h] = None /\ m_clientFd[h] # None
        BY <1>4, <1>5
    <2>3. h # ch => m_clientFd'[h] = m_clientFd[h]
        BY <1>4
    <2> QED
        BY <1>2, <1>3, <2>1, <2>2, <2>3
<1> QED
    BY <1>6 DEF ConnectsSeldom

\* What a channel has opened when it needs a connection.
LEMMA RoomToConnect ==
    ASSUME Typed, CallsIssued, ConnectsSeldom, NEW c \in Caller, call[c].pc = "locked", Fd(c) = None
    PROVE  opened[call[c].ch] \in Nat /\ opened[call[c].ch] <= MaxCalls
           /\ opened[call[c].ch] <= Cardinality(Ended)
<1>1. call[c].id \in 1 .. Len(issued) /\ call[c].ch \in Channel
    BY OpenFd
<1>2. Cardinality(Ended) \in Nat /\ Cardinality(Ended) <= MaxCalls /\ MaxCalls \in Nat
    BY EndedFinite, RpcAssumption
<1>3. opened[call[c].ch] <= Cardinality(Ended) + 0 /\ opened[call[c].ch] \in Nat
    BY <1>1 DEF ConnectsSeldom, Fd, Typed
<1> QED
    BY <1>2, <1>3

\* Connecting keeps calls, holders and descriptors in order;
LEMMA ConnectsKeepsFds ==
    ASSUME Typed, CallsIssued, OneHolder, FdsOpen, ConnectsSeldom, NEW c \in Caller, Connects(c)
    PROVE  CallsIssued' /\ OneHolder' /\ FdsOpen' /\ ConnectsSeldom'
<1>1. call[c].pc = "locked" /\ Fd(c) = None
    BY DEF Connects
<1>2. opened[call[c].ch] \in Nat /\ opened[call[c].ch] <= MaxCalls
      /\ opened[call[c].ch] <= Cardinality(Ended)
    BY <1>1, RoomToConnect
<1>3. Typed' /\ issued' = issued
    BY <1>2, ConnectsEffect DEF HistoryKept
<1>4. CASE Fails(c) /\ ConnKept
    <2>1. UNCHANGED <<m_clientFd, opened, conn>> /\ MovesTo(c, "returned")
        BY <1>4 DEF ConnKept, Fails
    <2>2. CallsIssued' /\ OneHolder'
        BY <1>1, <1>3, <2>1, MoveKeepsCalls
    <2>3. FdsOpen'
        BY <2>1, FdsKept DEF MovesTo, Typed
    <2>4. Ended \subseteq Ended'
        BY <1>1, <1>3, <2>1, EndedSteps
    <2> QED
        BY <1>3, <2>1, <2>2, <2>3, <2>4, SeldomKept
<1>5. CASE ~(Fails(c) /\ ConnKept)
    <2> DEFINE ch == call[c].ch
               new == <<ch, opened[ch]>>
    <2>1. /\ call' = call /\ new \in Conn
          /\ opened'[ch] = opened[ch] + 1 /\ m_clientFd'[ch] = new /\ conn'[new].client
          /\ \A l \in Conn \ {new} : conn'[l] = conn[l]
          /\ \A h \in Channel \ {ch} : opened'[h] = opened[h] /\ m_clientFd'[h] = m_clientFd[h]
        BY <1>2, <1>5, ConnectsEffect
    <2>2. FdsOpen'
        BY <1>1, <2>1, FdsConnected
    <2>3. CallsIssued' /\ OneHolder'
        BY <1>3, <2>1 DEF CallsIssued, OneHolder, Holds
    <2>4. Ended' = Ended
        BY <1>3, <2>1 DEF Ended, Open
    <2>5. Cardinality(Ended) \in Nat /\ new # None
        BY <2>1, EndedFinite, ConnParts
    <2> HIDE DEF ch, new, Ended
    <2>6. ASSUME NEW h \in Channel
          PROVE  opened'[h] <= Cardinality(Ended') + (IF m_clientFd'[h] # None THEN 1 ELSE 0)
        <3>1. CASE h = ch
            BY <3>1, <1>2, <2>1, <2>4, <2>5 DEF ch
        <3>2. CASE h # ch
            BY <3>2, <2>1, <2>4 DEF ConnectsSeldom
        <3> QED
            BY <3>1, <3>2
    <2> QED
        BY <2>2, <2>3, <2>6 DEF ConnectsSeldom
<1> QED
    BY <1>4, <1>5

\* sending does,
LEMMA SendsKeepsFds ==
    ASSUME Typed, CallsIssued, OneHolder, FdsOpen, ConnectsSeldom, NEW c \in Caller, Sends(c)
    PROVE  CallsIssued' /\ OneHolder' /\ FdsOpen' /\ ConnectsSeldom'
<1> DEFINE k == Fd(c)
<1>1. /\ Typed' /\ opened' = opened /\ issued' = issued
      /\ call[c].pc = "locked" /\ k \in Conn /\ ClientEnd(k)
    BY SendsEffect DEF HistoryKept
<1>2. /\ k[2] < opened[k[1]] /\ Holds(c) /\ k # None
    BY <1>1, FdOf DEF Holds
<1>3. CASE /\ MovesTo(c, "sent") /\ m_clientFd' = m_clientFd
           /\ conn'[k].client = conn[k].client
    <2>1. CallsIssued' /\ OneHolder'
        BY <1>1, <1>2, <1>3, MoveKeepsCalls
    <2>2. \A l \in Conn : conn'[l].client = conn[l].client
        BY <1>1, <1>3 DEF ClientEnd
    <2>3. \A l \in Conn : l[2] \in Nat /\ opened[l[1]] \in Nat
        BY ConnParts DEF Typed
    <2>4. \A l \in Conn : l[2] >= opened[l[1]] => conn'[l] = conn[l]
        BY <1>1, <1>2, <2>3 DEF ClientEnd
    <2>5. FdsOpen'
        BY <1>1, <1>2, <1>3, <2>2, <2>4, FdsKept DEF MovesTo, Typed
    <2>6. Ended' = Ended
        BY <1>1, <1>3, EndedSteps
    <2> QED
        BY <1>1, <1>3, <2>1, <2>5, <2>6, SeldomKept
<1>4. CASE Fails(c) /\ Closes(c)
    <2>1. CallsIssued' /\ OneHolder'
        BY <1>1, <1>2, <1>4, MoveKeepsCalls DEF Fails
    <2> QED
        BY <1>1, <1>2, <1>4, <2>1, FdsClosed, SeldomClosed
<1> QED
    BY <1>3, <1>4, SendsEffect

\* receiving,
LEMMA ReceivesKeepsFds ==
    ASSUME Typed, CallsIssued, OneHolder, FdsOpen, ConnectsSeldom, NEW c \in Caller, Receives(c)
    PROVE  CallsIssued' /\ OneHolder' /\ FdsOpen' /\ ConnectsSeldom'
<1> DEFINE k == Fd(c)
<1>1. /\ Typed' /\ UNCHANGED <<m_clientFd, opened>> /\ issued' = issued
      /\ call[c].pc = "sent" /\ k \in Conn /\ ClientReads(k)
      /\ conn'[k].client = conn[k].client /\ MovesTo(c, "returned")
    BY ReceivesEffect DEF HistoryKept, ClientReads
<1>2. /\ k[2] < opened[k[1]] /\ k # None
    BY <1>1, FdOf
<1>3. CallsIssued' /\ OneHolder'
    BY <1>1, MoveKeepsCalls
<1>4. \A l \in Conn : conn'[l].client = conn[l].client
    BY <1>1 DEF ClientReads
<1>5. \A l \in Conn : l[2] \in Nat /\ opened[l[1]] \in Nat
    BY ConnParts DEF Typed
<1>6. \A l \in Conn : l[2] >= opened[l[1]] => conn'[l] = conn[l]
    BY <1>1, <1>2, <1>5 DEF ClientReads
<1>7. FdsOpen'
    BY <1>1, <1>2, <1>4, <1>6, FdsKept DEF MovesTo, Typed
<1>8. Ended \subseteq Ended'
    BY <1>1, EndedSteps
<1> QED
    BY <1>1, <1>3, <1>7, <1>8, SeldomKept

\* failing to receive,
LEMMA ReceiveFailsKeepsFds ==
    ASSUME Typed, CallsIssued, OneHolder, FdsOpen, ConnectsSeldom, NEW c \in Caller, ReceiveFails(c)
    PROVE  CallsIssued' /\ OneHolder' /\ FdsOpen' /\ ConnectsSeldom'
<1>1. /\ opened' = opened /\ issued' = issued
      /\ Holds(c) /\ Fd(c) \in Conn /\ ClientEnd(Fd(c)) /\ Fails(c) /\ Closes(c)
    BY ReceiveFailsEffect DEF HistoryKept, Holds
<1>2. CallsIssued' /\ OneHolder'
    BY <1>1, MoveKeepsCalls DEF Fails
<1> QED
    BY <1>1, <1>2, FdsClosed, SeldomClosed

\* locking the channel,
LEMMA LocksKeepsFds ==
    ASSUME Typed, CallsIssued, OneHolder, FdsOpen, ConnectsSeldom, NEW c \in Caller, Locks(c)
    PROVE  CallsIssued' /\ OneHolder' /\ FdsOpen' /\ ConnectsSeldom'
<1>1. /\ Typed' /\ UNCHANGED <<m_clientFd, opened, conn>> /\ issued' = issued
      /\ call[c].pc = "called" /\ MovesTo(c, "locked")
      /\ \A d \in Caller : Holds(d) => call[d].ch # call[c].ch
    BY LocksEffect DEF HistoryKept, ConnKept
<1>2. CallsIssued' /\ OneHolder'
    BY <1>1, MoveKeepsCalls
<1>3. FdsOpen'
    BY <1>1, FdsKept DEF MovesTo, Typed
<1>4. Ended' = Ended
    BY <1>1, EndedSteps
<1> QED
    BY <1>1, <1>2, <1>3, <1>4, SeldomKept

\* and calling.
LEMMA CallsKeepsFds ==
    ASSUME Typed, CallsIssued, OneHolder, FdsOpen, ConnectsSeldom, NEW c \in Caller, Calls(c)
    PROVE  CallsIssued' /\ OneHolder' /\ FdsOpen' /\ ConnectsSeldom'
<1>1. /\ Typed' /\ UNCHANGED <<m_clientFd, opened, conn>>
      /\ call'[c].pc = "called" /\ \A d \in Caller \ {c} : call'[d] = call[d]
    BY CallsEffect DEF ConnKept
<1>2. FdsOpen'
    BY <1>1, FdsKept DEF Typed
<1> QED
    BY <1>1, <1>2, CallsKeepsCalls, EndedAtCalls, SeldomKept

\* The server changes only connections that were opened, and never the client's end.
LEMMA ServerKeepsFds ==
    ASSUME CallsIssued, OneHolder, FdsOpen, ConnectsSeldom, Typed, ClientKept,
           \A k \in Conn : conn'[k].client = conn[k].client,
           \A k \in Conn : k[2] >= opened[k[1]] => conn'[k] = conn[k]
    PROVE  CallsIssued' /\ OneHolder' /\ FdsOpen' /\ ConnectsSeldom'
<1>1. CallsIssued' /\ OneHolder' /\ ConnectsSeldom'
    BY DEF ClientKept, CallsIssued, OneHolder, Holds, ConnectsSeldom, Ended, Open
<1>2. FdsOpen'
    BY FdsKept DEF ClientKept, Typed
<1> QED
    BY <1>1, <1>2

-----------------------------------------------------------------------------
(* The bytes of the requests.                                              *)

\* No bytes are whole,
LEMMA WholeEmpty ==
    ASSUME NEW client
    PROVE  Whole(<<>>, client)
BY DEF Whole

\* and bytes stay so when the client goes.
LEMMA WholeClosed ==
    ASSUME NEW up, NEW client, NEW still, still => client, Whole(up, client)
    PROVE  Whole(up, still)
BY DEF Whole, WholeAt

\* The server takes bytes from the front.
LEMMA WholeSuffix ==
    ASSUME Typed, NEW up \in Seq(Octet), NEW client, Whole(up, client), NEW n \in 0 .. Len(up),
           NEW rest, rest = SubSeq(up, n + 1, Len(up))
    PROVE  Whole(rest, client)
<1>1. /\ rest \in Seq(Octet) /\ Len(rest) = Len(up) - n
      /\ \A i \in 1 .. Len(rest) : n + i \in 1 .. Len(up) /\ rest[i] = up[n + i]
    BY RestOf
<1>2. Len(up) \in Nat /\ Len(rest) \in Nat /\ DOMAIN up = 1 .. Len(up) /\ DOMAIN rest = 1 .. Len(rest)
    BY <1>1, LenProperties
<1> SUFFICES ASSUME NEW i \in DOMAIN rest, rest[i].half = 0, NEW id, id = rest[i].id
             PROVE  WholeAt(rest, client, i, id)
    BY DEF Whole
<1>3. n + i \in 1 .. Len(up) /\ rest[i] = up[n + i] /\ i \in 1 .. Len(rest)
    BY <1>1, <1>2
<1>4. /\ id \in 1 .. Len(issued)
      /\ client => (n + i) + Len(Buffer(id)) - 1 <= Len(up)
      /\ \A j \in 1 .. Len(Buffer(id)) : (n + i) + j - 1 <= Len(up)
                                         => up[(n + i) + j - 1] = Buffer(id)[j]
    <2>1. WholeAt(up, client, n + i, id)
        BY <1>2, <1>3 DEF Whole
    <2> QED
        BY <2>1 DEF WholeAt
<1>5. Len(Buffer(id)) \in Nat
    BY <1>4, CallBytes
<1>6. client => i + Len(Buffer(id)) - 1 <= Len(rest)
    <2>1. PICK b, u, r : b = Len(Buffer(id)) /\ u = Len(up) /\ r = Len(rest)
        OBVIOUS
    <2>2. b \in Nat /\ u \in Nat /\ r = u - n /\ i \in Nat /\ n \in Nat
        <3>1. Len(rest) = Len(up) - n
            BY <1>1
        <3>2. i \in 1 .. Len(rest) /\ Len(rest) \in Nat /\ Len(up) \in Nat
            BY <1>2
        <3>3. i \in Nat /\ n \in Nat
            BY <3>2
        <3> QED
            BY <1>5, <2>1, <3>1, <3>2, <3>3
    <2>3. (n + i) + b - 1 <= u => i + b - 1 <= r
        BY <2>2
    <2> QED
        BY <1>4, <2>1, <2>3
<1>7. ASSUME NEW j \in 1 .. Len(Buffer(id)), i + j - 1 <= Len(rest)
      PROVE  rest[i + j - 1] = Buffer(id)[j]
    <2>1. j \in Nat /\ j >= 1 /\ i \in Nat /\ i >= 1 /\ n \in Nat
          /\ Len(rest) = Len(up) - n /\ Len(up) \in Nat /\ Len(rest) \in Nat
        BY <1>1, <1>2, <1>3, <1>5
    <2>2. i + j - 1 \in 1 .. Len(rest)
        BY <1>7, <2>1
    <2>3. (n + i) + j - 1 <= Len(up) /\ (n + i) + j - 1 = n + (i + j - 1)
        BY <1>7, <2>1
    <2> QED
        BY <1>1, <1>4, <2>2, <2>3
<1> QED
    BY <1>4, <1>6, <1>7 DEF WholeAt

\* What a client sends is a beginning of the bytes of its call.
LEMMA PartOfCall ==
    ASSUME Typed, NEW id \in 1 .. Len(issued), NEW part \in Beginnings(Buffer(id))
    PROVE  /\ part \in Seq(Octet) /\ Len(part) \in Nat
           /\ \A j \in 1 .. Len(part) : /\ j \in 1 .. Len(Buffer(id)) /\ part[j] = Buffer(id)[j]
                                        /\ part[j].half = 0 => j = 1 /\ part[j].id = id
<1> DEFINE b == Buffer(id)
<1>1. /\ Len(b) \in Nat /\ b[1].half = 0 /\ b[1].id = id
      /\ \A j \in 2 .. Len(b) : b[j].half \in {1, 2}
    BY CallBytes
<1>2. b \in Seq(Octet)
    BY IssuedCall
<1> HIDE DEF b
<1>3. /\ part \in Seq(Octet) /\ Len(part) \in Nat /\ Len(part) <= Len(b)
      /\ \A j \in 1 .. Len(part) : part[j] = b[j]
    <2>1. part \in Beginnings(b)
        BY DEF b
    <2>2. part \in Seq(Octet) /\ Len(part) \in 0 .. Len(b) /\ \A j \in 1 .. Len(part) : part[j] = b[j]
        BY <1>2, <2>1, BeginningOf
    <2> QED
        BY <1>1, <2>2
<1>4. \A j \in 1 .. Len(part) : j \in 1 .. Len(b)
    BY <1>1, <1>3
<1>5. ASSUME NEW j \in 1 .. Len(part), part[j].half = 0
      PROVE  j = 1 /\ part[j].id = id
    <2>1. j \in 1 .. Len(b) /\ b[j].half = 0
        BY <1>3, <1>4, <1>5
    <2>2. j = 1
        BY <1>1, <2>1
    <2> QED
        BY <1>1, <1>3, <1>5, <2>2
<1> QED
    BY <1>3, <1>4, <1>5 DEF b

\* A client appends the bytes of its call, or closes after a part of them.
LEMMA WholeJoined ==
    ASSUME Typed, NEW up \in Seq(Octet), Whole(up, TRUE), NEW id \in 1 .. Len(issued),
           NEW part \in Beginnings(Buffer(id)),
           NEW client, client => part \in {<<>>, Buffer(id)}
    PROVE  Whole(up \o part, client)
<1> DEFINE b == Buffer(id)
           all == up \o part
<1>1. Len(b) \in Nat
    BY CallBytes
<1>2. client /\ part # <<>> => Len(part) = Len(b)
    OBVIOUS
<1>3. /\ part \in Seq(Octet) /\ Len(part) \in Nat
      /\ \A j \in 1 .. Len(part) : /\ j \in 1 .. Len(b) /\ part[j] = b[j]
                                   /\ part[j].half = 0 => j = 1 /\ part[j].id = id
    BY PartOfCall
<1> HIDE DEF b
<1>4. /\ all \in Seq(Octet) /\ Len(all) = Len(up) + Len(part) /\ DOMAIN all = 1 .. Len(all)
      /\ Len(up) \in Nat /\ DOMAIN up = 1 .. Len(up)
      /\ \A i \in 1 .. Len(all) : all[i] = IF i <= Len(up) THEN up[i] ELSE part[i - Len(up)]
    BY <1>3, ConcatProperties, LenProperties
<1> HIDE DEF all
<1> SUFFICES ASSUME NEW i \in DOMAIN all, all[i].half = 0, NEW x, x = all[i].id
             PROVE  WholeAt(all, client, i, x)
    BY DEF Whole, all
<1>5. CASE i <= Len(up)
    <2>1. i \in 1 .. Len(up) /\ all[i] = up[i]
        BY <1>4, <1>5
    <2>2. /\ x \in 1 .. Len(issued)
          /\ i + Len(Buffer(x)) - 1 <= Len(up)
          /\ \A j \in 1 .. Len(Buffer(x)) : i + j - 1 <= Len(up) => up[i + j - 1] = Buffer(x)[j]
        BY <1>4, <2>1 DEF Whole, WholeAt
    <2>3. Len(Buffer(x)) \in Nat
        BY <2>2, CallBytes
    <2>4. i + Len(Buffer(x)) - 1 <= Len(all)
        BY <1>3, <1>4, <2>1, <2>2, <2>3
    <2>5. ASSUME NEW j \in 1 .. Len(Buffer(x))
          PROVE  all[i + j - 1] = Buffer(x)[j]
        <3>1. /\ Len(all) = Len(up) + Len(part) /\ Len(part) \in Nat /\ Len(up) \in Nat
              /\ j \in Nat /\ 1 <= j /\ j <= Len(Buffer(x)) /\ i \in Nat /\ 1 <= i
              /\ i + Len(Buffer(x)) - 1 <= Len(up)
            BY <1>3, <1>4, <2>1, <2>2, <2>3
        <3>2. i + j - 1 \in 1 .. Len(all) /\ i + j - 1 <= Len(up)
            BY <2>3, <3>1
        <3> QED
            BY <1>4, <2>2, <3>2
    <2> QED
        BY <2>2, <2>4, <2>5 DEF WholeAt
<1>6. CASE i > Len(up)
    <2>1. /\ i - Len(up) \in 1 .. Len(part) /\ all[i] = part[i - Len(up)]
        BY <1>3, <1>4, <1>6
    <2>2. i - Len(up) = 1 /\ part[i - Len(up)].id = id
        BY <1>3, <2>1
    <2>3. i = Len(up) + 1
        BY <1>4, <2>2
    <2>4. x = id /\ i = Len(up) + 1 /\ part # <<>>
        <3>1. 1 \in 1 .. Len(part)
            BY <2>1, <2>2
        <3>2. Len(part) # 0
            BY <1>3, <3>1
        <3> QED
            BY <2>1, <2>2, <2>3, <3>2
    <2>5. client => i + Len(Buffer(x)) - 1 <= Len(all)
        BY <1>1, <1>2, <1>3, <1>4, <2>4 DEF b
    <2>6. ASSUME NEW j \in 1 .. Len(Buffer(x)), i + j - 1 <= Len(all)
          PROVE  all[i + j - 1] = Buffer(x)[j]
        <3>1. /\ i + j - 1 \in 1 .. Len(all) /\ ~(i + j - 1 <= Len(up))
              /\ (i + j - 1) - Len(up) = j /\ j \in 1 .. Len(part)
            <4>1. /\ j \in Nat /\ 1 <= j /\ Len(up) \in Nat /\ Len(part) \in Nat
                  /\ Len(all) = Len(up) + Len(part) /\ i = Len(up) + 1 /\ i + j - 1 <= Len(all)
                BY <1>1, <1>3, <1>4, <2>4, <2>6 DEF b
            <4> QED
                BY <4>1
        <3>2. all[i + j - 1] = part[j]
            BY <1>4, <3>1
        <3> QED
            BY <1>3, <2>4, <3>1, <3>2 DEF b
    <2> QED
        BY <2>4, <2>5, <2>6 DEF WholeAt
<1> QED
    BY <1>4, <1>5, <1>6

\* The calls that were issued stay.
IssuedStay ==
    /\ Len(issued') \in Nat /\ Len(issued) \in Nat /\ Len(issued) <= Len(issued')
    /\ \A id \in 1 .. Len(issued) : id \in 1 .. Len(issued') /\ issued'[id] = issued[id]

\* Calls stay as they were issued,
LEMMA IssuedKept ==
    ASSUME Typed, issued' = issued
    PROVE  IssuedStay
BY LenProperties DEF Typed, IssuedStay

\* also when one more is.
LEMMA IssuedMore ==
    ASSUME Typed, NEW c \in Caller, Calls(c)
    PROVE  IssuedStay
<1>1. PICK x \in Issue : issued' = Append(issued, x)
    BY CallsEffect
<1>2. /\ Len(issued) \in Nat /\ Len(issued') = Len(issued) + 1
      /\ \A i \in 1 .. Len(issued) : issued'[i] = issued[i]
    BY <1>1, AppendProperties, LenProperties DEF Typed
<1> QED
    BY <1>2 DEF IssuedStay

\* So the bytes of a connection stay whole,
LEMMA WholeNext ==
    ASSUME IssuedStay, NEW k \in Conn, NEW up, NEW client,
           up = conn'[k].up, client = conn'[k].client, Whole(up, client)
    PROVE  Whole(conn[k].up, conn[k].client)'
<1>1. \A i \in DOMAIN up : up[i].half = 0 => WholeAt(up, client, i, up[i].id)
    BY DEF Whole
<1> SUFFICES ASSUME NEW i \in DOMAIN conn'[k].up, conn'[k].up[i].half = 0
             PROVE  WholeAt(conn[k].up, conn[k].client, i, conn[k].up[i].id)'
    BY DEF Whole
<1>2. WholeAt(up, client, i, up[i].id)
    BY <1>1
<1> QED
    BY <1>2 DEF WholeAt, IssuedStay, Buffer

\* and those of all connections.
LEMMA RequestsNext ==
    ASSUME IssuedStay, \A k \in Conn : Whole(conn'[k].up, conn'[k].client)
    PROVE  RequestsWhole'
<1> SUFFICES ASSUME NEW k \in Conn
             PROVE  Whole(conn[k].up, conn[k].client)'
    BY DEF RequestsWhole
<1>1. PICK up : up = conn'[k].up
    OBVIOUS
<1>2. PICK client : client = conn'[k].client
    OBVIOUS
<1>3. Whole(up, client)
    BY <1>1, <1>2
<1> QED
    BY <1>1, <1>2, <1>3, WholeNext

\* No bytes are added anywhere, and no client opens a connection with bytes.
LEMMA RequestsKept ==
    ASSUME Typed, RequestsWhole, IssuedStay,
           \A k \in Conn : \/ conn'[k].up = <<>>
                           \/ conn'[k].up = conn[k].up /\ (conn'[k].client => conn[k].client)
    PROVE  RequestsWhole'
<1> SUFFICES ASSUME NEW k \in Conn
             PROVE  Whole(conn'[k].up, conn'[k].client)
    BY RequestsNext
<1>1. CASE conn'[k].up = <<>>
    BY <1>1, WholeEmpty
<1>2. CASE conn'[k].up = conn[k].up /\ (conn'[k].client => conn[k].client)
    <2>1. Whole(conn[k].up, conn[k].client)
        BY DEF RequestsWhole
    <2> QED
        BY <1>2, <2>1, WholeClosed
<1> QED
    BY <1>1, <1>2

\* A request follows whole requests.
LEMMA SendsKeepsRequests ==
    ASSUME Typed, CallsIssued, FdsOpen, RequestsWhole, NEW c \in Caller, Sends(c)
    PROVE  RequestsWhole'
<1> DEFINE k == Fd(c)
           id == call[c].id
           b == Buffer(id)
<1>1. /\ issued' = issued /\ call[c].pc = "locked" /\ k \in Conn /\ ClientEnd(k)
    BY SendsEffect DEF HistoryKept
<1>2. PICK part \in Beginnings(b) :
         /\ conn'[k].up = conn[k].up \o part
         /\ conn'[k].client => part \in {<<>>, b}
    BY SendsEffect DEF Closes
<1>3. conn[k].client /\ id \in 1 .. Len(issued)
    BY <1>1, FdOf, OpenFd
<1>4. conn[k].up \in Seq(Octet) /\ Whole(conn[k].up, TRUE)
    BY <1>1, <1>3, WholeClosed DEF Typed, ConnType, RequestsWhole
<1>5. PICK client : client = conn'[k].client
    OBVIOUS
<1>6. Whole(conn[k].up \o part, client)
    BY <1>2, <1>3, <1>4, <1>5, WholeJoined
<1>7. \A l \in Conn : Whole(conn'[l].up, conn'[l].client)
    BY <1>1, <1>2, <1>5, <1>6 DEF ClientEnd, RequestsWhole
<1> QED
    BY <1>1, <1>7, IssuedKept, RequestsNext

\* The server takes bytes from the front.
LEMMA OnMessageKeepsRequests ==
    ASSUME Typed, RequestsWhole, NEW k \in Conn, OnMessage(k)
    PROVE  RequestsWhole'
<1>1. issued' = issued
    BY OnMessageEffect DEF ClientKept
<1>2. PICK n \in 1 .. Len(conn[k].up) :
          /\ conn'[k].up = SubSeq(conn[k].up, n + 1, Len(conn[k].up))
          /\ conn'[k].client = conn[k].client /\ \A l \in Conn \ {k} : conn'[l] = conn[l]
    BY OnMessageEffect DEF Keeps, Answers
<1>3. conn[k].up \in Seq(Octet) /\ Whole(conn[k].up, conn[k].client)
    BY DEF Typed, ConnType, RequestsWhole
<1>4. n \in 0 .. Len(conn[k].up)
    OBVIOUS
<1>5. PICK client : client = conn[k].client
    OBVIOUS
<1>6. PICK rest : rest = SubSeq(conn[k].up, n + 1, Len(conn[k].up))
    OBVIOUS
<1>7. Whole(rest, client)
    BY <1>3, <1>4, <1>5, <1>6, WholeSuffix
<1>8. \A l \in Conn : Whole(conn'[l].up, conn'[l].client)
    BY <1>2, <1>5, <1>6, <1>7 DEF RequestsWhole
<1> QED
    BY <1>1, <1>8, IssuedKept, RequestsNext

-----------------------------------------------------------------------------
(* Tasks and executions belong to calls that were issued.                  *)

\* A task of a call stays one.
LEMMA TaskStays ==
    ASSUME IssuedStay, \A ch \in Channel : opened'[ch] >= opened[ch], Typed, Typed',
           NEW task \in Task, TaskIssued(task)
    PROVE  TaskIssued(task)'
<1>1. task.conn[1] \in Channel /\ task.conn[2] \in Nat
    BY ConnParts DEF Task
<1>2. opened[task.conn[1]] \in Nat /\ opened'[task.conn[1]] \in Nat
    BY <1>1 DEF Typed
<1> QED
    BY <1>1, <1>2 DEF TaskIssued, IssuedStay, ArgsTaken

\* The queue and the workers lose tasks, or take over one from the other.
LEMMA TasksNext ==
    ASSUME Typed, Typed', IssuedStay, TasksIssued, \A ch \in Channel : opened'[ch] >= opened[ch],
           \A i \in DOMAIN m_tasks' : \E j \in DOMAIN m_tasks : m_tasks'[i] = m_tasks[j],
           \A w \in Worker : worker'[w].pc = "running" =>
              \/ worker[w].pc = "running" /\ worker'[w].task = worker[w].task
              \/ \E j \in DOMAIN m_tasks : worker'[w].task = m_tasks[j],
           ran' = ran
    PROVE  TasksIssued'
<1>1. \A i \in DOMAIN m_tasks : m_tasks[i] \in Task /\ TaskIssued(m_tasks[i])
    BY ElementOfSeq, LenProperties DEF Typed, TasksIssued
<1>2. \A w \in Worker : worker[w].pc = "running" => worker[w].task \in Task /\ TaskIssued(worker[w].task)
    BY RunningTask DEF TasksIssued, RunningTasks
<1>3. ASSUME NEW i \in DOMAIN m_tasks'
      PROVE  TaskIssued(m_tasks[i])'
    <2>1. PICK task \in Task : task = m_tasks'[i] /\ TaskIssued(task)
        BY <1>1
    <2>2. TaskIssued(task)'
        BY <2>1, TaskStays
    <2> QED
        BY <2>1, <2>2 DEF TaskIssued
<1>4. ASSUME NEW w \in Worker, worker'[w].pc = "running"
      PROVE  TaskIssued(worker[w].task)'
    <2>1. PICK task \in Task : task = worker'[w].task /\ TaskIssued(task)
        BY <1>1, <1>2, <1>4
    <2>2. TaskIssued(task)'
        BY <2>1, TaskStays
    <2> QED
        BY <2>1, <2>2 DEF TaskIssued
<1>5. \A task \in RunningTasks' : TaskIssued(task)'
    <2> SUFFICES ASSUME NEW task \in RunningTasks'
                 PROVE  TaskIssued(task)'
        OBVIOUS
    <2>1. PICK w \in Worker : worker'[w].pc = "running" /\ task = worker'[w].task
        BY DEF RunningTasks
    <2>2. TaskIssued(worker[w].task)'
        BY <1>4, <2>1
    <2> QED
        BY <2>1, <2>2 DEF TaskIssued
<1>6. ASSUME NEW id \in Id, NEW i \in DOMAIN ran'[id]
      PROVE  /\ id <= Len(issued')
             /\ ran'[id][i].args = ArgsTaken(id, ran[id][i].whole)'
             /\ ran'[id][i].reply \in Reply[issued'[id].method]
    <2>1. /\ id <= Len(issued)
          /\ ran[id][i].args = ArgsTaken(id, ran[id][i].whole)
          /\ ran[id][i].reply \in Reply[issued[id].method]
        BY <1>6 DEF TasksIssued
    <2>2. id \in 1 .. Len(issued)
        BY <2>1 DEF Id, IssuedStay
    <2> QED
        BY <2>1, <2>2 DEF IssuedStay, Id, ArgsTaken
<1> QED
    BY <1>3, <1>5, <1>6 DEF TasksIssued

\* Bytes that arrive come over a connection that was opened.
LEMMA BytesOpened ==
    ASSUME Typed, FdsOpen, NEW k \in Conn, conn[k].up # <<>> \/ conn[k].server
    PROVE  k[2] < opened[k[1]]
<1>1. conn[k] # Closed
    BY DEF Closed
<1>2. k[2] \in Nat /\ opened[k[1]] \in Nat
    BY ConnParts DEF Typed
<1> QED
    BY <1>1, <1>2 DEF FdsOpen

\* A queue without its head.
LEMMA QueueTailed ==
    ASSUME NEW S, NEW s \in Seq(S), s # <<>>
    PROVE  /\ Len(Tail(s)) = Len(s) - 1 /\ Len(s) \in Nat /\ Len(s) >= 1 /\ s[1] \in S
           /\ DOMAIN s = 1 .. Len(s) /\ DOMAIN Tail(s) = 1 .. Len(Tail(s))
           /\ \A i \in DOMAIN Tail(s) : i + 1 \in DOMAIN s /\ Tail(s)[i] = s[i + 1]
<1>1. /\ Tail(s) \in Seq(S) /\ Len(Tail(s)) = Len(s) - 1 /\ Len(s) \in Nat
      /\ \A i \in 1 .. Len(s) - 1 : Tail(s)[i] = s[i + 1]
    BY HeadTailProperties, LenProperties
<1>2. Len(s) # 0 /\ DOMAIN s = 1 .. Len(s) /\ DOMAIN Tail(s) = 1 .. Len(Tail(s))
    BY <1>1, LenProperties, EmptySeq
<1>3. s[1] \in S
    BY <1>1, <1>2, ElementOfSeq
<1>4. \A i \in DOMAIN Tail(s) : i + 1 \in DOMAIN s /\ i \in 1 .. Len(s) - 1
    BY <1>1, <1>2
<1> QED
    BY <1>1, <1>2, <1>3, <1>4

\* The execution is of the call and with its arguments.
LEMMA AnswersKeepsTasks ==
    ASSUME Typed, Typed', IssuedStay, TasksIssued, UNCHANGED <<m_tasks, opened, issued>>,
           \A w \in Worker : worker'[w].pc = "running" =>
              worker[w].pc = "running" /\ worker'[w].task = worker[w].task,
           NEW k \in Conn, NEW id \in 1 .. Len(issued), NEW reply \in Reply[issued[id].method], NEW up,
           Answers(k, id, reply, up)
    PROVE  TasksIssued'
<1>1. \A i \in DOMAIN m_tasks : TaskIssued(m_tasks[i])'
    BY DEF TasksIssued, TaskIssued, ArgsTaken
<1>2. \A task \in RunningTasks' : TaskIssued(task)'
    <2>1. RunningTasks' \subseteq RunningTasks
        BY DEF RunningTasks
    <2> QED
        BY <2>1 DEF TasksIssued, TaskIssued, ArgsTaken
<1>3. ASSUME NEW j \in Id, NEW i \in DOMAIN ran'[j]
      PROVE  /\ j <= Len(issued)
             /\ ran'[j][i].args = ArgsTaken(j, ran'[j][i].whole)
             /\ ran'[j][i].reply \in Reply[issued[j].method]
    <2>1. CASE j # id
        <3>1. ran'[j] = ran[j]
            BY <2>1 DEF Answers
        <3> QED
            BY <1>3, <3>1 DEF TasksIssued
    <2>2. CASE j = id
        <3>0. PICK whole \in BOOLEAN :
                 ran'[id] = Append(ran[id], [args |-> ArgsTaken(id, whole), whole |-> whole, reply |-> reply])
            BY DEF Answers
        <3> DEFINE x == [args |-> ArgsTaken(id, whole), whole |-> whole, reply |-> reply]
        <3>1. ran'[id] = Append(ran[id], x) /\ ran[id] \in Seq(Ran)
            BY <2>2, <3>0 DEF Typed
        <3>2. /\ Len(ran[id]) \in Nat /\ DOMAIN ran[id] = 1 .. Len(ran[id])
              /\ DOMAIN ran'[id] = 1 .. Len(ran[id]) + 1
              /\ ran'[id][Len(ran[id]) + 1] = x
              /\ \A m \in 1 .. Len(ran[id]) : ran'[id][m] = ran[id][m]
            BY <3>1, AppendProperties, LenProperties
        <3>3. i \in 1 .. Len(ran[id]) \/ i = Len(ran[id]) + 1
            BY <1>3, <2>2, <3>2
        <3>4. x.args = ArgsTaken(id, x.whole) /\ x.reply = reply
            OBVIOUS
        <3>5. j <= Len(issued)
            BY <2>2 DEF IssuedStay
        <3> HIDE DEF x
        <3>6. CASE i = Len(ran[id]) + 1
            BY <2>2, <3>2, <3>4, <3>5, <3>6
        <3>7. CASE i \in 1 .. Len(ran[id])
            BY <2>2, <3>2, <3>5, <3>7 DEF TasksIssued
        <3> QED
            BY <3>3, <3>6, <3>7
    <2> QED
        BY <2>1, <2>2
<1> QED
    BY <1>1, <1>2, <1>3 DEF TasksIssued, ArgsTaken

\* The task that OnMessage queues is of the call whose bytes it took.
LEMMA OnMessageKeepsTasks ==
    ASSUME Typed, FdsOpen, RequestsWhole, TasksIssued, NEW k \in Conn, OnMessage(k)
    PROVE  TasksIssued'
<1> DEFINE id == conn[k].up[1].id
<1>1. Typed' /\ UNCHANGED <<opened, issued, worker>> /\ conn[k].up # <<>> /\ IssuedStay
    BY OnMessageEffect, IssuedKept DEF ClientKept
<1>2. CASE UNCHANGED <<ran, m_tasks>>
    BY <1>1, <1>2 DEF TasksIssued, TaskIssued, RunningTasks, ArgsTaken
<1>3. CASE /\ UNCHANGED m_tasks /\ id \in 1 .. Len(issued)
           /\ \E n \in 1 .. Len(conn[k].up) : \E reply \in Reply[issued[id].method] :
                Answers(k, id, reply, SubSeq(conn[k].up, n + 1, Len(conn[k].up)))
    BY <1>1, <1>3, AnswersKeepsTasks
<1>4. CASE /\ id \in 1 .. Len(issued) /\ issued[id].method \in KvMethods
           /\ (\E whole \in BOOLEAN : m_tasks' = Append(m_tasks, TaskOf(k, id, whole))) /\ UNCHANGED ran
    <2>1. /\ k[2] < opened[k[1]]
        BY <1>1, BytesOpened
    <2>0. PICK whole \in BOOLEAN : m_tasks' = Append(m_tasks, TaskOf(k, id, whole))
        BY <1>4
    <2>2. PICK task : task = TaskOf(k, id, whole)
        OBVIOUS
    <2>3. /\ m_tasks \in Seq(Task) /\ task \in Task
          /\ task.conn = k /\ task.id = id /\ task.whole = whole
          /\ task.method = issued[id].method /\ task.args = ArgsTaken(id, whole)
        <3>1. PICK m, args : m = issued[id].method /\ args = ArgsTaken(id, whole)
            OBVIOUS
        <3>2. id \in Id /\ m \in KvMethods /\ args \in Request[m] \cup {Defaults(m)}
            BY <1>4, <3>1, IssuedCall DEF ArgsTaken
        <3>3. task = [conn |-> k, method |-> m, args |-> args, id |-> id, whole |-> whole]
            BY <2>2, <3>1 DEF TaskOf
        <3>4. task \in Task
            BY <3>2, <3>3 DEF Task
        <3>5. m_tasks \in Seq(Task)
            BY DEF Typed
        <3> QED
            BY <3>1, <3>3, <3>4, <3>5
    <2>4. /\ Len(m_tasks) \in Nat /\ DOMAIN m_tasks = 1 .. Len(m_tasks)
          /\ DOMAIN m_tasks' = 1 .. Len(m_tasks) + 1
          /\ m_tasks'[Len(m_tasks) + 1] = task
          /\ \A i \in 1 .. Len(m_tasks) : m_tasks'[i] = m_tasks[i]
        BY <2>0, <2>2, <2>3, AppendProperties, LenProperties
    <2>5. ASSUME NEW i \in DOMAIN m_tasks'
          PROVE  TaskIssued(m_tasks[i])'
        <3>1. i \in 1 .. Len(m_tasks) \/ i = Len(m_tasks) + 1
            BY <2>4
        <3>2. CASE i \in 1 .. Len(m_tasks)
            BY <1>1, <2>4, <3>2 DEF TasksIssued, TaskIssued, ArgsTaken
        <3>3. CASE i = Len(m_tasks) + 1
            <4>1. TaskIssued(task)
                BY <1>4, <2>1, <2>3 DEF TaskIssued
            <4> QED
                BY <1>1, <2>4, <3>3, <4>1 DEF TaskIssued, ArgsTaken
        <3> QED
            BY <3>1, <3>2, <3>3
    <2>6. \A run \in RunningTasks' : TaskIssued(run)'
        BY <1>1 DEF TasksIssued, TaskIssued, RunningTasks, ArgsTaken
    <2> QED
        BY <1>1, <1>4, <2>5, <2>6 DEF TasksIssued, ArgsTaken
<1> QED
    BY <1>2, <1>3, <1>4, OnMessageEffect

\* The task goes from the queue to the worker.
LEMMA WorkerTakesKeepsTasks ==
    ASSUME Typed, TasksIssued, NEW w \in Worker, WorkerTakes(w)
    PROVE  TasksIssued'
<1>1. /\ Typed' /\ UNCHANGED <<opened, issued, ran>> /\ IssuedStay
      /\ \A v \in Worker \ {w} : worker'[v] = worker[v]
      /\ \/ worker'[w].pc # "running" /\ m_tasks' = m_tasks
         \/ /\ m_tasks # <<>> /\ worker'[w].pc = "running"
            /\ worker'[w].task = m_tasks[1] /\ m_tasks' = Tail(m_tasks)
    BY WorkerTakesEffect, IssuedKept DEF ClientKept
<1>2. \A ch \in Channel : opened'[ch] >= opened[ch]
    BY <1>1 DEF Typed
<1>3. m_tasks \in Seq(Task)
    BY DEF Typed
<1>4. CASE worker'[w].pc # "running" /\ m_tasks' = m_tasks
    BY <1>1, <1>2, <1>4, TasksNext
<1>5. CASE /\ m_tasks # <<>> /\ worker'[w].pc = "running"
           /\ worker'[w].task = m_tasks[1] /\ m_tasks' = Tail(m_tasks)
    <2>1. 1 \in DOMAIN m_tasks /\ \A i \in DOMAIN m_tasks' : i + 1 \in DOMAIN m_tasks
                                                          /\ m_tasks'[i] = m_tasks[i + 1]
        BY <1>3, <1>5, QueueTailed
    <2> QED
        BY <1>1, <1>2, <1>5, <2>1, TasksNext
<1> QED
    BY <1>1, <1>4, <1>5

\* The worker runs the task it took.
LEMMA WorkerRunsKeepsTasks ==
    ASSUME Typed, TasksIssued, NEW w \in Worker, WorkerRuns(w)
    PROVE  TasksIssued'
<1> DEFINE task == worker[w].task
<1>1. /\ Typed' /\ UNCHANGED <<m_tasks, opened, issued>> /\ IssuedStay
      /\ task \in Task /\ task.id \in 1 .. Len(issued)
      /\ worker'[w].pc # "running" /\ \A v \in Worker \ {w} : worker'[v] = worker[v]
      /\ \E reply \in Reply[issued[task.id].method] :
            Answers(task.conn, task.id, reply, conn[task.conn].up)
    BY WorkerRunsEffect, IssuedKept DEF ClientKept
<1>2. task.conn \in Conn
    BY <1>1 DEF Task
<1> QED
    BY <1>1, <1>2, AnswersKeepsTasks

-----------------------------------------------------------------------------
(* The way of a call: from the bytes to the queue, a worker, its execution. *)

Alone(bytes, queue, workers, runs) ==
    /\ Single(bytes) /\ Single(queue) /\ Single(workers) /\ Single(runs)
    /\ bytes # {} => queue = {} /\ workers = {} /\ runs = {}
    /\ queue # {} => workers = {} /\ runs = {}
    /\ workers # {} => runs = {}

\* A union of tagged sets has one element if one of the sets has, and the others none.
LEMMA Tagged ==
    ASSUME NEW bytes, NEW queue, NEW workers, NEW runs,
           NEW T, T = Tags(bytes, queue, workers, runs)
    PROVE  /\ Single(T) <=> Alone(bytes, queue, workers, runs)
           /\ T = {} <=> bytes = {} /\ queue = {} /\ workers = {} /\ runs = {}
           /\ (\E x \in T : x[1] # "bytes") <=> queue # {} \/ workers # {} \/ runs # {}
<1>1. \A x : x \in T <=> \/ \E y \in bytes : x = <<"bytes", y>>
                         \/ \E y \in queue : x = <<"queue", y>>
                         \/ \E y \in workers : x = <<"worker", y>>
                         \/ \E y \in runs : x = <<"ran", y>>
    BY DEF Tags
<1>2. T = {} <=> bytes = {} /\ queue = {} /\ workers = {} /\ runs = {}
    BY <1>1
<1>3. (\E x \in T : x[1] # "bytes") <=> queue # {} \/ workers # {} \/ runs # {}
    <2>1. ASSUME NEW x \in T, x[1] # "bytes"
          PROVE  queue # {} \/ workers # {} \/ runs # {}
        BY <1>1, <2>1
    <2>2. /\ \A y \in queue : <<"queue", y>> \in T /\ <<"queue", y>>[1] # "bytes"
          /\ \A y \in workers : <<"worker", y>> \in T /\ <<"worker", y>>[1] # "bytes"
          /\ \A y \in runs : <<"ran", y>> \in T /\ <<"ran", y>>[1] # "bytes"
        BY <1>1
    <2> QED
        BY <2>1, <2>2, Zenon
<1>4. ASSUME Single(T)
      PROVE  Alone(bytes, queue, workers, runs)
    <2>1. \A x, y \in T : x[1] = y[1] /\ x[2] = y[2]
        BY <1>4 DEF Single
    <2>2. /\ \A y \in bytes : <<"bytes", y>> \in T
          /\ \A y \in queue : <<"queue", y>> \in T
          /\ \A y \in workers : <<"worker", y>> \in T
          /\ \A y \in runs : <<"ran", y>> \in T
        BY <1>1
    <2>3. Single(bytes) /\ Single(queue) /\ Single(workers) /\ Single(runs)
        <3>1. \A y, z \in bytes : <<"bytes", y>>[2] = <<"bytes", z>>[2]
            BY <2>1, <2>2, Zenon
        <3>2. \A y, z \in queue : <<"queue", y>>[2] = <<"queue", z>>[2]
            BY <2>1, <2>2, Zenon
        <3>3. \A y, z \in workers : <<"worker", y>>[2] = <<"worker", z>>[2]
            BY <2>1, <2>2, Zenon
        <3>4. \A y, z \in runs : <<"ran", y>>[2] = <<"ran", z>>[2]
            BY <2>1, <2>2, Zenon
        <3> QED
            BY <3>1, <3>2, <3>3, <3>4 DEF Single
    <2>4. /\ \A y \in bytes : \A z : z \notin queue /\ z \notin workers /\ z \notin runs
          /\ \A y \in queue : \A z : z \notin workers /\ z \notin runs
          /\ \A y \in workers : \A z : z \notin runs
        BY <2>1, <2>2
    <2> QED
        BY <2>3, <2>4 DEF Alone
<1>5. ASSUME Alone(bytes, queue, workers, runs)
      PROVE  Single(T)
    BY <1>1, <1>5 DEF Alone, Single
<1> QED
    BY <1>2, <1>3, <1>4, <1>5

\* In the next state the set has at most as many elements, of none and one.
Fewer(new, old) == (Single(old) => Single(new)) /\ (old = {} => new = {})

TraceFewer(id) ==
    /\ Fewer(InBytes(id)', InBytes(id)) /\ Fewer(InQueue(id)', InQueue(id))
    /\ Fewer(InWorker(id)', InWorker(id)) /\ Fewer(InRan(id)', InRan(id))

\* What a trace says of the places of its call, in this state
LEMMA TraceNow ==
    ASSUME NEW id
    PROVE  /\ Single(Trace(id)) <=> Alone(InBytes(id), InQueue(id), InWorker(id), InRan(id))
           /\ Trace(id) = {} <=> InBytes(id) = {} /\ InQueue(id) = {} /\ InWorker(id) = {} /\ InRan(id) = {}
           /\ (\E x \in Trace(id) : x[1] # "bytes")
              <=> InQueue(id) # {} \/ InWorker(id) # {} \/ InRan(id) # {}
<1>1. PICK bytes, queue, workers, runs, T :
         /\ bytes = InBytes(id) /\ queue = InQueue(id) /\ workers = InWorker(id) /\ runs = InRan(id)
         /\ T = Trace(id)
    OBVIOUS
<1>2. T = Tags(bytes, queue, workers, runs)
    BY <1>1 DEF Trace
<1>3. /\ Single(T) <=> Alone(bytes, queue, workers, runs)
      /\ T = {} <=> bytes = {} /\ queue = {} /\ workers = {} /\ runs = {}
      /\ (\E x \in T : x[1] # "bytes") <=> queue # {} \/ workers # {} \/ runs # {}
    BY <1>2, Tagged
<1> QED
    BY <1>1, <1>3

\* and in the next.
LEMMA TraceThen ==
    ASSUME NEW id
    PROVE  /\ Single(Trace(id)') <=> Alone(InBytes(id)', InQueue(id)', InWorker(id)', InRan(id)')
           /\ Trace(id)' = {} <=> InBytes(id)' = {} /\ InQueue(id)' = {} /\ InWorker(id)' = {}
                                  /\ InRan(id)' = {}
           /\ (\E x \in Trace(id)' : x[1] # "bytes")
              <=> InQueue(id)' # {} \/ InWorker(id)' # {} \/ InRan(id)' # {}
<1>1. PICK bytes, queue, workers, runs, T :
         /\ bytes = InBytes(id)' /\ queue = InQueue(id)' /\ workers = InWorker(id)' /\ runs = InRan(id)'
         /\ T = Trace(id)'
    OBVIOUS
<1>2. T = Tags(bytes, queue, workers, runs)
    BY <1>1 DEF Trace
<1>3. /\ Single(T) <=> Alone(bytes, queue, workers, runs)
      /\ T = {} <=> bytes = {} /\ queue = {} /\ workers = {} /\ runs = {}
      /\ (\E x \in T : x[1] # "bytes") <=> queue # {} \/ workers # {} \/ runs # {}
    BY <1>2, Tagged
<1> QED
    BY <1>1, <1>3

\* Where no place gains, the trace does not.
LEMMA TraceShrinks ==
    ASSUME NEW id, TraceFewer(id)
    PROVE  /\ Single(Trace(id)) => Single(Trace(id)')
           /\ Trace(id) = {} => Trace(id)' = {}
<1>1. PICK b, q, w, r, b2, q2, w2, r2 :
         /\ b = InBytes(id) /\ q = InQueue(id) /\ w = InWorker(id) /\ r = InRan(id)
         /\ b2 = InBytes(id)' /\ q2 = InQueue(id)' /\ w2 = InWorker(id)' /\ r2 = InRan(id)'
    OBVIOUS
<1>2. Fewer(b2, b) /\ Fewer(q2, q) /\ Fewer(w2, w) /\ Fewer(r2, r)
    BY <1>1 DEF TraceFewer
<1>3. Alone(b, q, w, r) => Alone(b2, q2, w2, r2)
    BY <1>2 DEF Alone, Fewer
<1>4. b = {} /\ q = {} /\ w = {} /\ r = {} => b2 = {} /\ q2 = {} /\ w2 = {} /\ r2 = {}
    BY <1>2 DEF Fewer
<1> QED
    BY <1>1, <1>3, <1>4, TraceNow, TraceThen

\* Every call stays where it is, or goes; the call id may have gone on.
LEMMA PlacesNext ==
    ASSUME OnePlace, Unsent, NEW id,
           \A j \in Id \ {id} : TraceFewer(j), id \in Id => Single(Trace(id)'),
           \A c \in Caller : call'[c].pc \in {"called", "locked"} =>
              call'[c].id \in Id /\ call'[c].id # id /\ Trace(call'[c].id) = {}
    PROVE  OnePlace' /\ Unsent'
<1>1. \A j \in Id : Single(Trace(j)')
    BY TraceShrinks DEF OnePlace
<1>2. OnePlace'
    BY <1>1 DEF OnePlace, Single
<1>3. ASSUME NEW c \in Caller, call'[c].pc \in {"called", "locked"}
      PROVE  Trace(call[c].id)' = {}
    <2>1. PICK j : j = call'[c].id
        OBVIOUS
    <2>2. Trace(j)' = {}
        BY <1>3, <2>1, TraceShrinks
    <2> QED
        BY <2>1, <2>2 DEF Trace, InBytes, InQueue, InWorker, InRan, PrefixesOf
<1> QED
    BY <1>2, <1>3 DEF Unsent

\* Nothing moves.
TraceSame(id) ==
    /\ InBytes(id)' = InBytes(id) /\ InQueue(id)' = InQueue(id)
    /\ InWorker(id)' = InWorker(id) /\ InRan(id)' = InRan(id)

\* Nothing moved: nothing gained.
LEMMA SameIsFewer ==
    ASSUME NEW id, TraceSame(id)
    PROVE  TraceFewer(id)
BY DEF TraceSame, TraceFewer, Fewer

\* A step that leaves bytes, tasks and executions leaves every trace.
LEMMA TraceKept ==
    ASSUME \A k \in Conn : conn'[k].up = conn[k].up, UNCHANGED <<m_tasks, ran>>,
           \A w \in Worker : worker'[w].pc = "running" \/ worker[w].pc = "running"
                             => worker'[w] = worker[w],
           NEW id
    PROVE  TraceSame(id)
<1>1. InBytes(id)' = InBytes(id)
    BY DEF InBytes, PrefixesOf
<1>2. InQueue(id)' = InQueue(id) /\ InRan(id)' = InRan(id)
    BY DEF InQueue, InRan
<1>3. InWorker(id)' = InWorker(id)
    BY DEF InWorker
<1> QED
    BY <1>1, <1>2, <1>3 DEF TraceSame

\* A call that was nowhere was not sent.
LEMMA FreshNowhere ==
    ASSUME Typed, RequestsWhole, TasksIssued, NEW id \in Id, id > Len(issued)
    PROVE  Trace(id) = {}
<1>1. id \in Nat /\ Len(issued) \in Nat
    BY LenProperties DEF Id, Typed
<1>2. InBytes(id) = {}
    <2> SUFFICES ASSUME NEW k \in Conn, NEW i \in PrefixesOf(k, id)
                 PROVE  FALSE
        BY DEF InBytes
    <2>1. id \in 1 .. Len(issued)
        BY DEF PrefixesOf, RequestsWhole, Whole, WholeAt
    <2> QED
        BY <1>1, <2>1
<1>3. InQueue(id) = {}
    BY <1>1 DEF InQueue, TasksIssued, TaskIssued
<1>4. InWorker(id) = {}
    BY <1>1 DEF InWorker, TasksIssued, TaskIssued, RunningTasks
<1>5. InRan(id) = {}
    BY <1>1 DEF InRan, TasksIssued
<1> QED
    BY <1>2, <1>3, <1>4, <1>5, TraceNow

\* Left, spelled out.
LEMMA LeftNow ==
    ASSUME NEW id \in Id
    PROVE  id \in Left <=> InQueue(id) # {} \/ InWorker(id) # {} \/ InRan(id) # {}
BY TraceNow DEF Left

\* The calls that left the bytes, in the next state.
LEMMA LeftThen ==
    ASSUME NEW id \in Id
    PROVE  id \in Left' <=> InQueue(id)' # {} \/ InWorker(id)' # {} \/ InRan(id)' # {}
<1>1. Left' = {j \in Id : \E x \in Trace(j)' : x[1] # "bytes"}
    BY DEF Left
<1> QED
    BY <1>1, TraceThen

\* They are finitely many.
LEMMA LeftFinite ==
    ASSUME NEW S, S \subseteq Id
    PROVE  IsFiniteSet(S) /\ Cardinality(S) \in Nat /\ Cardinality(S) <= MaxCalls
BY RpcAssumption, CountedUpTo DEF Id

\* A notification more needs a call more that left the bytes.
LEMMA NoticesNext ==
    ASSUME Typed, Typed', NoticesOfTasks, Left \subseteq Left',
           \/ notices' <= notices
           \/ notices' = notices + 1 /\ \E id \in Left' : id \notin Left
    PROVE  NoticesOfTasks'
<1>1. Left \subseteq Id /\ Left' \subseteq Id
    BY DEF Left
<1>2. /\ IsFiniteSet(Left) /\ Cardinality(Left) \in Nat
      /\ IsFiniteSet(Left') /\ Cardinality(Left') \in Nat
    BY <1>1, LeftFinite
<1>3. Cardinality(Left) <= Cardinality(Left')
    BY <1>2, FS_Subset
<1>4. notices \in Nat /\ notices' \in Nat /\ notices <= Cardinality(Left)
    BY DEF Typed, NoticesOfTasks
<1> HIDE DEF Left
<1>5. CASE notices' <= notices
    <2>1. notices' <= Cardinality(Left')
        BY <1>2, <1>3, <1>4, <1>5
    <2> QED
        BY <2>1 DEF NoticesOfTasks
<1>6. CASE notices' = notices + 1 /\ \E id \in Left' : id \notin Left
    <2>1. Left # Left'
        BY <1>6
    <2>2. Cardinality(Left) # Cardinality(Left')
        BY <1>2, <2>1, FS_Subset
    <2>3. notices' <= Cardinality(Left')
        BY <1>2, <1>3, <1>4, <1>6, <2>2
    <2> QED
        BY <2>3 DEF NoticesOfTasks
<1> QED
    BY <1>5, <1>6

Followed == OnePlace /\ Unsent /\ NoticesOfTasks

\* A step that moves nothing, and starts at most a call that is nowhere.
LEMMA FollowedKept ==
    ASSUME Typed, Typed', Followed, \A k \in Conn : conn'[k].up = conn[k].up,
           UNCHANGED <<m_tasks, ran>>, notices' <= notices,
           \A w \in Worker : worker'[w].pc = "running" \/ worker[w].pc = "running"
                             => worker'[w] = worker[w],
           \A c \in Caller : call'[c].pc \in {"called", "locked"} =>
              call'[c].id \in Id /\ Trace(call'[c].id) = {}
    PROVE  Followed'
<1>1. \A id : TraceSame(id)
    BY TraceKept
<1>2. \A id : TraceFewer(id)
    BY <1>1, SameIsFewer
<1>3. 0 \notin Id
    BY DEF Id
<1>4. OnePlace' /\ Unsent'
    BY <1>2, <1>3, PlacesNext DEF Followed
<1>5. Left \subseteq Left'
    <2> SUFFICES ASSUME NEW id \in Left
                 PROVE  id \in Left'
        OBVIOUS
    <2>1. id \in Id
        BY DEF Left
    <2> QED
        BY <1>1, <2>1, LeftNow, LeftThen DEF TraceSame
<1> QED
    BY <1>4, <1>5, NoticesNext DEF Followed

\* The prefix of the call that is sent is the only one that may come to the bytes.
LEMMA SendsBytes ==
    ASSUME Typed, CallsIssued, NEW c \in Caller, Sends(c), NEW k, k = Fd(c), NEW id, id = call[c].id
    PROVE  \E n : \A j : \A l \in Conn :
              /\ l # k \/ j # id => PrefixesOf(l, j)' = PrefixesOf(l, j)
              /\ PrefixesOf(l, j)' \subseteq PrefixesOf(l, j) \cup {n}
<1>1. k \in Conn /\ ClientEnd(k) /\ call[c].pc = "locked" /\ id \in 1 .. Len(issued) /\ id \in Id
    BY SendsEffect, OpenFd, IssuedCall
<1>2. PICK part \in Beginnings(Buffer(id)) : conn'[k].up = conn[k].up \o part
    BY SendsEffect
<1>3. /\ part \in Seq(Octet) /\ Len(part) \in Nat
      /\ \A j \in 1 .. Len(part) : part[j].half = 0 => j = 1 /\ part[j].id = id
    BY <1>1, PartOfCall
<1>4. PICK up \in Seq(Octet) : up = conn[k].up
    BY <1>1 DEF Typed, ConnType
<1>5. PICK all : all = conn'[k].up
    OBVIOUS
<1>6. /\ DOMAIN all = 1 .. Len(up) + Len(part) /\ DOMAIN up = 1 .. Len(up) /\ Len(up) \in Nat
      /\ \A i \in DOMAIN all : all[i] = IF i <= Len(up) THEN up[i] ELSE part[i - Len(up)]
    BY <1>2, <1>3, <1>4, <1>5, ConcatProperties, LenProperties
<1>7. ASSUME NEW i \in DOMAIN all, all[i].half = 0, i \notin DOMAIN up
      PROVE  i = Len(up) + 1 /\ all[i].id = id
    <2>1. i \in Nat /\ ~(i <= Len(up)) /\ i - Len(up) \in 1 .. Len(part)
        BY <1>3, <1>6, <1>7
    <2>2. i - Len(up) = 1 /\ part[i - Len(up)].id = id
        BY <1>3, <1>6, <1>7, <2>1
    <2> QED
        BY <1>6, <2>1, <2>2
<1>8. \A i \in DOMAIN up : i \in DOMAIN all /\ all[i] = up[i]
    BY <1>3, <1>6
<1>9. ASSUME NEW j, NEW l \in Conn
      PROVE  /\ l # k \/ j # id => PrefixesOf(l, j)' = PrefixesOf(l, j)
             /\ PrefixesOf(l, j)' \subseteq PrefixesOf(l, j) \cup {Len(up) + 1}
    <2>1. CASE l # k
        BY <1>1, <2>1 DEF PrefixesOf, ClientEnd
    <2>2. CASE l = k
        <3>1. PrefixesOf(l, j) = {i \in DOMAIN up : up[i].half = 0 /\ up[i].id = j}
            BY <1>4, <2>2 DEF PrefixesOf
        <3>2. PrefixesOf(l, j)' = {i \in DOMAIN all : all[i].half = 0 /\ all[i].id = j}
            BY <1>5, <2>2 DEF PrefixesOf
        <3> QED
            BY <1>7, <1>8, <2>2, <3>1, <3>2
    <2> QED
        BY <2>1, <2>2
<1> QED
    BY <1>9

\* The thread that sends puts its call, which was nowhere, into the bytes.
LEMMA SendsFollowed ==
    ASSUME Typed, CallsIssued, Followed, NEW c \in Caller, Sends(c)
    PROVE  Followed'
<1>0. PICK k, id : k = Fd(c) /\ id = call[c].id
    OBVIOUS
<1>1. /\ Typed' /\ call[c].pc = "locked" /\ k \in Conn /\ ClientEnd(k)
      /\ UNCHANGED <<m_tasks, ran, notices, worker>> /\ id \in 1 .. Len(issued) /\ id \in Id
    BY <1>0, SendsEffect, OpenFd, IssuedCall DEF ServerKept, HistoryKept
<1>2. \A j : InQueue(j)' = InQueue(j) /\ InWorker(j)' = InWorker(j) /\ InRan(j)' = InRan(j)
    BY <1>1 DEF InQueue, InWorker, InRan
<1>3. PICK n : \A j : \A l \in Conn :
                  /\ l # k \/ j # id => PrefixesOf(l, j)' = PrefixesOf(l, j)
                  /\ PrefixesOf(l, j)' \subseteq PrefixesOf(l, j) \cup {n}
    BY <1>0, SendsBytes
<1>11. ASSUME NEW j, j # id
       PROVE  TraceFewer(j)
    <2>1. InBytes(j)' = InBytes(j)
        BY <1>3, <1>11 DEF InBytes
    <2> QED
        BY <1>2, <2>1, SameIsFewer DEF TraceSame
<1>12. Trace(id) = {}
    BY <1>0, <1>1 DEF Followed, Unsent
<1>13. /\ InBytes(id) = {} /\ InQueue(id)' = {} /\ InWorker(id)' = {} /\ InRan(id)' = {}
    BY <1>2, <1>12, TraceNow
<1>14. InBytes(id)' \subseteq {<<k, n>>}
    <2> SUFFICES ASSUME NEW x \in InBytes(id)'
                 PROVE  x = <<k, n>>
        OBVIOUS
    <2>1. x \in Conn \X Nat /\ x[2] \in PrefixesOf(x[1], id)'
        BY DEF InBytes
    <2>2. x[1] \in Conn /\ x[2] \in Nat /\ x = <<x[1], x[2]>>
        BY <2>1
    <2>3. x[2] \notin PrefixesOf(x[1], id)
        BY <1>13, <2>1 DEF InBytes
    <2>4. /\ x[1] # k \/ id # id => PrefixesOf(x[1], id)' = PrefixesOf(x[1], id)
          /\ PrefixesOf(x[1], id)' \subseteq PrefixesOf(x[1], id) \cup {n}
        BY <1>3, <2>2
    <2>5. x[1] = k /\ x[2] = n
        BY <2>1, <2>3, <2>4
    <2> QED
        BY <2>2, <2>5
<1>15. Single(Trace(id)')
    <2>1. Single(InBytes(id)')
        BY <1>14 DEF Single
    <2>2. Alone(InBytes(id)', InQueue(id)', InWorker(id)', InRan(id)')
        BY <1>13, <2>1 DEF Alone, Single
    <2> QED
        BY <2>2, TraceThen
<1>16. ASSUME NEW d \in Caller, call'[d].pc \in {"called", "locked"}
       PROVE  call'[d].id \in Id /\ call'[d].id # id /\ Trace(call'[d].id) = {}
    <2>1. d # c /\ call'[d] = call[d]
        BY <1>16, SendsEffect DEF MovesTo, Fails
    <2>2. call[d].id \in 1 .. Len(issued) /\ call[d].id # id
        BY <1>0, <1>1, <1>16, <2>1, OpenFd DEF CallsIssued
    <2> QED
        BY <1>16, <2>1, <2>2, IssuedCall DEF Followed, Unsent
<1>17. OnePlace' /\ Unsent'
    BY <1>11, <1>15, <1>16, PlacesNext DEF Followed
<1>18. Left \subseteq Left'
    <2> SUFFICES ASSUME NEW j \in Left
                 PROVE  j \in Left'
        OBVIOUS
    <2>1. j \in Id
        BY DEF Left
    <2> QED
        BY <1>2, <2>1, LeftNow, LeftThen
<1>19. notices' <= notices
    BY <1>1 DEF Typed
<1> QED
    BY <1>1, <1>17, <1>18, <1>19, NoticesNext DEF Followed

\* The server takes n halves from the front of a connection: no call comes to the bytes,
\* and the call whose prefix was in front is out of them.
LEMMA BytesTaken ==
    ASSUME Typed, NEW k \in Conn, NEW n \in 1 .. Len(conn[k].up),
           conn'[k].up = SubSeq(conn[k].up, n + 1, Len(conn[k].up)),
           \A l \in Conn \ {k} : conn'[l] = conn[l]
    PROVE  /\ \A id : Fewer(InBytes(id)', InBytes(id))
           /\ \A id : \A l \in Conn : PrefixesOf(l, id) = {} => PrefixesOf(l, id)' = {}
           /\ \A id : 1 \in PrefixesOf(k, id) =>
                 /\ <<k, 1>> \in InBytes(id)
                 /\ Single(InBytes(id)) => InBytes(id)' = {}
<1>1. PICK up \in Seq(Octet) : up = conn[k].up
    BY DEF Typed, ConnType
<1>2. PICK rest : rest = SubSeq(up, n + 1, Len(up))
    OBVIOUS
<1>3. rest = conn'[k].up /\ n \in 0 .. Len(up) /\ n \in Nat /\ n > 0
    BY <1>1, <1>2
<1>4. /\ rest \in Seq(Octet) /\ Len(rest) = Len(up) - n /\ Len(up) \in Nat /\ Len(rest) \in Nat
      /\ DOMAIN rest = 1 .. Len(rest) /\ DOMAIN up = 1 .. Len(up)
      /\ \A i \in 1 .. Len(rest) : n + i \in 1 .. Len(up) /\ rest[i] = up[n + i]
    BY <1>1, <1>2, <1>3, RestOf, LenProperties
<1>5. ASSUME NEW id, NEW l \in Conn, NEW i \in PrefixesOf(l, id)'
      PROVE  /\ l # k => i \in PrefixesOf(l, id)
             /\ l = k => i \in Nat /\ n + i \in PrefixesOf(l, id) /\ n + i # 1
    <2>1. CASE l # k
        BY <1>5, <2>1 DEF PrefixesOf
    <2>2. CASE l = k
        <3>1. i \in DOMAIN rest /\ rest[i].half = 0 /\ rest[i].id = id
            BY <1>3, <1>5, <2>2 DEF PrefixesOf
        <3>2. n + i \in DOMAIN up /\ up[n + i] = rest[i]
            BY <1>4, <3>1
        <3>3. n + i \in PrefixesOf(l, id)
            BY <1>1, <2>2, <3>1, <3>2 DEF PrefixesOf
        <3>4. n + i # 1 /\ i \in Nat
            <4>1. i \in 1 .. Len(rest)
                BY <1>4, <3>1
            <4> QED
                BY <1>3, <4>1
        <3> QED
            BY <2>2, <3>3, <3>4
    <2> QED
        BY <2>1, <2>2
<1>6. \A id : \A l \in Conn : PrefixesOf(l, id) = {} => PrefixesOf(l, id)' = {}
    BY <1>5
<1> DEFINE old(x) == IF x[1] = k THEN <<k, n + x[2]>> ELSE x
<1>7. ASSUME NEW id, NEW x \in InBytes(id)'
      PROVE  old(x) \in InBytes(id) /\ old(x) # <<k, 1>> /\ x \in Conn \X Nat
    <2>1. x \in Conn \X Nat /\ x[1] \in Conn /\ x[2] \in PrefixesOf(x[1], id)'
        BY <1>7 DEF InBytes
    <2>2. CASE x[1] = k
        <3>1. n + x[2] \in PrefixesOf(k, id) /\ n + x[2] # 1 /\ n + x[2] \in Nat
            BY <1>3, <1>5, <2>1, <2>2
        <3> QED
            BY <2>1, <2>2, <3>1 DEF InBytes
    <2>3. CASE x[1] # k
        <3>1. x[2] \in PrefixesOf(x[1], id)
            BY <1>5, <2>1, <2>3
        <3> QED
            BY <2>1, <2>3, <3>1 DEF InBytes
    <2> QED
        BY <2>2, <2>3
<1>8. ASSUME NEW x \in Conn \X Nat, NEW y \in Conn \X Nat, old(x) = old(y)
      PROVE  x = y
    <2>1. /\ x[1] \in Conn /\ x[2] \in Nat /\ x = <<x[1], x[2]>>
          /\ y[1] \in Conn /\ y[2] \in Nat /\ y = <<y[1], y[2]>>
        OBVIOUS
    <2>2. x[1] = y[1]
        BY <1>8, <2>1
    <2>3. x[2] = y[2]
        BY <1>3, <1>8, <2>1, <2>2
    <2> QED
        BY <2>1, <2>2, <2>3
<1> HIDE DEF old
<1>9. \A id : Fewer(InBytes(id)', InBytes(id))
    <2> SUFFICES ASSUME NEW id
                 PROVE  Fewer(InBytes(id)', InBytes(id))
        OBVIOUS
    <2>1. Single(InBytes(id)) => Single(InBytes(id)')
        BY <1>7, <1>8 DEF Single
    <2>2. InBytes(id) = {} => InBytes(id)' = {}
        BY <1>7
    <2> QED
        BY <2>1, <2>2 DEF Fewer
<1>10. ASSUME NEW id, 1 \in PrefixesOf(k, id)
       PROVE  /\ <<k, 1>> \in InBytes(id)
              /\ Single(InBytes(id)) => InBytes(id)' = {}
    <2>1. <<k, 1>> \in InBytes(id)
        BY <1>10 DEF InBytes
    <2>2. ASSUME Single(InBytes(id)), NEW x \in InBytes(id)'
          PROVE  FALSE
        BY <1>7, <2>1, <2>2 DEF Single
    <2> QED
        BY <2>1, <2>2
<1> QED
    BY <1>6, <1>9, <1>10

\* The server moves one call on.
LEMMA FollowedMoved ==
    ASSUME Typed, Typed', CallsIssued, Followed, call' = call, NEW id \in Id, Trace(id) # {},
           \A j \in Id \ {id} : TraceFewer(j),
           Alone(InBytes(id)', InQueue(id)', InWorker(id)', InRan(id)'), Left \subseteq Left',
           \/ notices' <= notices
           \/ notices' = notices + 1 /\ \E j \in Left' : j \notin Left
    PROVE  Followed'
<1>1. Single(Trace(id)')
    BY TraceThen
<1>2. ASSUME NEW c \in Caller, call'[c].pc \in {"called", "locked"}
      PROVE  call'[c].id \in Id /\ call'[c].id # id /\ Trace(call'[c].id) = {}
    <2>1. Trace(call[c].id) = {} /\ call[c].pc # "returned"
        BY <1>2 DEF Followed, Unsent
    <2>2. call[c].id \in Id
        BY <2>1, OpenFd, IssuedCall
    <2> QED
        BY <2>1, <2>2
<1>3. OnePlace' /\ Unsent'
    BY <1>1, <1>2, PlacesNext DEF Followed
<1> QED
    BY <1>3, NoticesNext DEF Followed

\* The place of a call is the only one.
LEMMA PlaceNow ==
    ASSUME Followed, NEW id \in Id
    PROVE  Alone(InBytes(id), InQueue(id), InWorker(id), InRan(id))
BY TraceNow DEF Followed, OnePlace

\* A call that is somewhere has a trace.
LEMMA NowhereBut ==
    ASSUME NEW id
    PROVE  /\ InBytes(id) # {} \/ InQueue(id) # {} \/ InWorker(id) # {} => Trace(id) # {}
BY TraceNow

\* A call that is executed for the first time.
LEMMA FirstRun ==
    ASSUME Typed, NEW id \in Id, InRan(id) = {}, NEW x, ran'[id] = Append(ran[id], x)
    PROVE  ran[id] = <<>> /\ InRan(id)' = {1} /\ ran'[id] # <<>> /\ ran'[id][1] = x
<1>1. ran[id] \in Seq(Ran) /\ DOMAIN ran[id] = {}
    BY DEF Typed, InRan
<1>2. Len(ran[id]) \in Nat /\ DOMAIN ran[id] = 1 .. Len(ran[id])
    BY <1>1, LenProperties
<1>3. Len(ran[id]) = 0
    BY <1>1, <1>2
<1>4. ran[id] = <<>>
    BY <1>1, <1>3, EmptySeq
<1>5. ran'[id] = <<x>>
    BY <1>4
<1> QED
    BY <1>4, <1>5 DEF InRan

\* An answer executes its call and no other.
LEMMA AnswersRuns ==
    ASSUME NEW k \in Conn, NEW id \in Id, NEW reply, NEW up, Answers(k, id, reply, up)
    PROVE  /\ \E x : ran'[id] = Append(ran[id], x) /\ x.reply = reply
           /\ \A j \in Id \ {id} : InRan(j)' = InRan(j)
<1>1. PICK whole \in BOOLEAN :
         ran'[id] = Append(ran[id], [args |-> ArgsTaken(id, whole), whole |-> whole, reply |-> reply])
    BY DEF Answers
<1>2. PICK x : x = [args |-> ArgsTaken(id, whole), whole |-> whole, reply |-> reply]
    OBVIOUS
<1>3. ran'[id] = Append(ran[id], x) /\ x.reply = reply
    BY <1>1, <1>2
<1>4. \A j \in Id \ {id} : InRan(j)' = InRan(j)
    BY DEF Answers, InRan
<1> QED
    BY <1>3, <1>4

\* The call in front goes from the bytes to the queue or to its execution, or is lost.
LEMMA OnMessageFollowed ==
    ASSUME Typed, CallsIssued, RequestsWhole, Followed, NEW k \in Conn, OnMessage(k)
    PROVE  Followed'
<1>1. /\ Typed' /\ call' = call /\ worker' = worker /\ conn[k].up # <<>>
    BY OnMessageEffect DEF ClientKept
<1>2. PICK id : id = conn[k].up[1].id
    OBVIOUS
<1>3. PICK n \in 1 .. Len(conn[k].up) :
         LET rest == SubSeq(conn[k].up, n + 1, Len(conn[k].up))
         IN  \/ /\ Keeps(k, rest) /\ UNCHANGED <<ran, m_tasks, notices>>
             \/ /\ conn[k].up[1].half = 0 /\ id \in 1 .. Len(issued)
                /\ UNCHANGED <<m_tasks, notices>>
                /\ \E reply \in Reply[issued[id].method] : Answers(k, id, reply, rest)
             \/ /\ conn[k].up[1].half = 0 /\ id \in 1 .. Len(issued)
                /\ \E whole \in BOOLEAN : m_tasks' = Append(m_tasks, TaskOf(k, id, whole))
                /\ notices' = notices + 1
                /\ Keeps(k, rest) /\ UNCHANGED ran
    BY <1>2, OnMessageEffect
<1>4. /\ conn'[k].up = SubSeq(conn[k].up, n + 1, Len(conn[k].up))
      /\ \A l \in Conn \ {k} : conn'[l] = conn[l]
    BY <1>3 DEF Keeps, Answers
<1>5. /\ \A j : Fewer(InBytes(j)', InBytes(j))
      /\ \A j : 1 \in PrefixesOf(k, j) =>
            /\ <<k, 1>> \in InBytes(j)
            /\ Single(InBytes(j)) => InBytes(j)' = {}
    BY <1>4, BytesTaken
<1>6. \A j : InWorker(j)' = InWorker(j)
    BY <1>1 DEF InWorker
<1>7. CASE UNCHANGED <<ran, m_tasks, notices>>
    <2>1. \A j : InQueue(j)' = InQueue(j) /\ InRan(j)' = InRan(j)
        BY <1>7 DEF InQueue, InRan
    <2>2. \A j : TraceFewer(j)
        BY <1>5, <1>6, <2>1 DEF TraceFewer, Fewer
    <2>3. \A c \in Caller : call'[c].pc \in {"called", "locked"} =>
             call'[c].id \in Id /\ call'[c].id # 0 /\ Trace(call'[c].id) = {}
        <3> SUFFICES ASSUME NEW c \in Caller, call[c].pc \in {"called", "locked"}
                     PROVE  call[c].id \in Id /\ call[c].id # 0 /\ Trace(call[c].id) = {}
            BY <1>1
        <3>1. call[c].id \in 1 .. Len(issued)
            BY OpenFd
        <3>2. call[c].id \in Id /\ call[c].id # 0
            BY <3>1, IssuedCall
        <3>3. Trace(call[c].id) = {}
            BY DEF Followed, Unsent
        <3> QED
            BY <3>2, <3>3
    <2>4. 0 \notin Id
        BY DEF Id
    <2>5. OnePlace' /\ Unsent'
        BY <2>2, <2>3, <2>4, PlacesNext DEF Followed
    <2>6. Left \subseteq Left'
        <3> SUFFICES ASSUME NEW j \in Left
                     PROVE  j \in Left'
            OBVIOUS
        <3>1. j \in Id
            BY DEF Left
        <3> QED
            BY <1>6, <2>1, <3>1, LeftNow, LeftThen
    <2>7. notices' <= notices
        BY <1>7 DEF Typed
    <2> QED
        BY <1>1, <2>5, <2>6, <2>7, NoticesNext DEF Followed
<1>8. CASE conn[k].up[1].half = 0 /\ id \in 1 .. Len(issued)
    <2>1. 1 \in PrefixesOf(k, id) /\ id \in Id
        <3>1. 1 \in DOMAIN conn[k].up
            <4>1. conn[k].up \in Seq(Octet)
                BY DEF Typed, ConnType
            <4> QED
                BY <1>1, <4>1, EmptySeq, LenProperties
        <3> QED
            BY <1>2, <1>8, <3>1, IssuedCall DEF PrefixesOf
    <2>2. Alone(InBytes(id), InQueue(id), InWorker(id), InRan(id))
        BY <2>1, PlaceNow
    <2>3. /\ InBytes(id) # {} /\ InBytes(id)' = {} /\ InQueue(id) = {} /\ InWorker(id) = {}
          /\ InRan(id) = {} /\ InWorker(id)' = {}
        BY <1>5, <1>6, <2>1, <2>2 DEF Alone
    <2>4. Trace(id) # {} /\ id \notin Left
        BY <2>1, <2>3, TraceNow, LeftNow
    <2>5. CASE /\ UNCHANGED <<m_tasks, notices>>
               /\ \E reply \in Reply[issued[id].method] :
                     Answers(k, id, reply, SubSeq(conn[k].up, n + 1, Len(conn[k].up)))
        <3>1. \A j : InQueue(j)' = InQueue(j)
            BY <2>5 DEF InQueue
        <3>2. InRan(id)' = {1} /\ \A j \in Id \ {id} : InRan(j)' = InRan(j)
            <4>1. PICK reply \in Reply[issued[id].method] :
                     Answers(k, id, reply, SubSeq(conn[k].up, n + 1, Len(conn[k].up)))
                BY <2>5
            <4>2. PICK up : Answers(k, id, reply, up)
                BY <4>1
            <4>3. /\ \E x : ran'[id] = Append(ran[id], x) /\ x.reply = reply
                  /\ \A j \in Id \ {id} : InRan(j)' = InRan(j)
                BY <2>1, <4>2, AnswersRuns, Zenon
            <4>4. PICK x : ran'[id] = Append(ran[id], x)
                BY <4>3
            <4> QED
                BY <2>1, <2>3, <4>3, <4>4, FirstRun
        <3>3. \A j \in Id \ {id} : TraceFewer(j)
            BY <1>5, <1>6, <3>1, <3>2 DEF TraceFewer, Fewer
        <3>4. Alone(InBytes(id)', InQueue(id)', InWorker(id)', InRan(id)')
            BY <2>3, <3>1, <3>2 DEF Alone, Single
        <3>5. Left \subseteq Left'
            <4> SUFFICES ASSUME NEW j \in Left
                         PROVE  j \in Left'
                OBVIOUS
            <4>1. j \in Id /\ j # id
                BY <2>4 DEF Left
            <4> QED
                BY <1>6, <3>1, <3>2, <4>1, LeftNow, LeftThen
        <3>6. notices' <= notices
            BY <2>5 DEF Typed
        <3> QED
            BY <1>1, <2>1, <2>4, <3>3, <3>4, <3>5, <3>6, FollowedMoved
    <2>6. CASE /\ \E whole \in BOOLEAN : m_tasks' = Append(m_tasks, TaskOf(k, id, whole))
               /\ notices' = notices + 1 /\ UNCHANGED ran
        <3>0. PICK whole \in BOOLEAN : m_tasks' = Append(m_tasks, TaskOf(k, id, whole))
            BY <2>6
        <3>1. PICK task : task = TaskOf(k, id, whole)
            OBVIOUS
        <3>2. m_tasks \in Seq(Task) /\ m_tasks' \in Seq(Task) /\ m_tasks' = Append(m_tasks, task)
              /\ task.id = id
            BY <1>1, <3>0, <3>1 DEF Typed, TaskOf
        <3>3. /\ DOMAIN m_tasks = 1 .. Len(m_tasks) /\ Len(m_tasks) \in Nat
              /\ DOMAIN m_tasks' = 1 .. Len(m_tasks) + 1
              /\ m_tasks'[Len(m_tasks) + 1] = task
              /\ \A i \in 1 .. Len(m_tasks) : m_tasks'[i] = m_tasks[i]
            <4>1. m_tasks' = m_tasks \o <<task>>
                BY <3>2
            <4>2. /\ Len(m_tasks') = Len(m_tasks) + 1 /\ Len(m_tasks) \in Nat
                  /\ DOMAIN m_tasks = 1 .. Len(m_tasks) /\ DOMAIN m_tasks' = 1 .. Len(m_tasks')
                BY <3>2, LenProperties
            <4> QED
                BY <3>2, <4>1, <4>2
        <3>4. \A j : InQueue(j)' = IF j = id THEN InQueue(j) \cup {Len(m_tasks) + 1} ELSE InQueue(j)
            BY <3>2, <3>3 DEF InQueue
        <3>5. \A j : InRan(j)' = InRan(j)
            BY <2>6 DEF InRan
        <3>6. \A j \in Id \ {id} : TraceFewer(j)
            BY <1>5, <1>6, <3>4, <3>5 DEF TraceFewer, Fewer
        <3>7. InQueue(id)' = {Len(m_tasks) + 1} /\ InRan(id)' = {}
            BY <2>3, <3>4, <3>5
        <3>8. Alone(InBytes(id)', InQueue(id)', InWorker(id)', InRan(id)')
            BY <2>3, <3>7 DEF Alone, Single
        <3>9. Left \subseteq Left'
            <4> SUFFICES ASSUME NEW j \in Left
                         PROVE  j \in Left'
                OBVIOUS
            <4>1. j \in Id /\ j # id
                BY <2>4 DEF Left
            <4> QED
                BY <1>6, <3>4, <3>5, <4>1, LeftNow, LeftThen
        <3>10. id \in Left'
            BY <2>1, <3>7, LeftThen
        <3> QED
            BY <1>1, <2>1, <2>4, <2>6, <3>6, <3>8, <3>9, <3>10, FollowedMoved
    <2>7. \/ UNCHANGED <<ran, m_tasks, notices>>
          \/ /\ UNCHANGED <<m_tasks, notices>>
             /\ \E reply \in Reply[issued[id].method] :
                   Answers(k, id, reply, SubSeq(conn[k].up, n + 1, Len(conn[k].up)))
          \/ /\ \E whole \in BOOLEAN : m_tasks' = Append(m_tasks, TaskOf(k, id, whole))
             /\ notices' = notices + 1 /\ UNCHANGED ran
        BY <1>3
    <2> QED
        BY <1>7, <2>5, <2>6, <2>7
<1> QED
    BY <1>3, <1>7, <1>8

\* A call goes from the queue to a worker.
LEMMA WorkerTakesFollowed ==
    ASSUME Typed, CallsIssued, TasksIssued, Followed, NEW w \in Worker, WorkerTakes(w)
    PROVE  Followed'
<1>1. /\ Typed' /\ call' = call /\ issued' = issued /\ UNCHANGED <<conn, notices, ran>>
      /\ worker[w].pc # "running"
      /\ \A v \in Worker \ {w} : worker'[v] = worker[v]
      /\ \/ worker'[w].pc # "running" /\ m_tasks' = m_tasks
         \/ /\ m_tasks # <<>> /\ worker'[w].pc = "running"
            /\ worker'[w].task = m_tasks[1] /\ m_tasks' = Tail(m_tasks)
    BY WorkerTakesEffect DEF ClientKept
<1>2. notices' <= notices
    BY <1>1 DEF Typed
<1>3. CASE worker'[w].pc # "running" /\ m_tasks' = m_tasks
    <2>1. \A v \in Worker : worker'[v].pc = "running" \/ worker[v].pc = "running"
                            => worker'[v] = worker[v]
        BY <1>1, <1>3
    <2>2. \A c \in Caller : call'[c].pc \in {"called", "locked"} =>
              call'[c].id \in Id /\ Trace(call'[c].id) = {}
        <3> SUFFICES ASSUME NEW c \in Caller, call[c].pc \in {"called", "locked"}
                     PROVE  call[c].id \in Id /\ Trace(call[c].id) = {}
            BY <1>1
        <3>1. call[c].id \in 1 .. Len(issued)
            BY OpenFd
        <3> QED
            BY <3>1, IssuedCall DEF Followed, Unsent
    <2> QED
        BY <1>1, <1>2, <1>3, <2>1, <2>2, FollowedKept
<1>4. CASE /\ m_tasks # <<>> /\ worker'[w].pc = "running"
           /\ worker'[w].task = m_tasks[1] /\ m_tasks' = Tail(m_tasks)
    <2>1. PICK tasks \in Seq(Task) : tasks = m_tasks
        BY DEF Typed
    <2>2. PICK id : id = tasks[1].id
        OBVIOUS
    <2>3. /\ 1 \in DOMAIN tasks /\ DOMAIN tasks = 1 .. Len(tasks) /\ Len(tasks) \in Nat
          /\ DOMAIN Tail(tasks) = 1 .. Len(tasks) - 1
          /\ \A i \in DOMAIN Tail(tasks) : i + 1 \in DOMAIN tasks /\ Tail(tasks)[i] = tasks[i + 1]
        BY <1>4, <2>1, QueueTailed
    <2>4. id \in Id
        <3>1. tasks[1] \in Task
            BY <2>3, ElementOfSeq
        <3> QED
            BY <2>2, <3>1 DEF Task
    <2>5. \A j : InQueue(j) = {i \in DOMAIN tasks : tasks[i].id = j}
                 /\ InQueue(j)' = {i \in DOMAIN Tail(tasks) : Tail(tasks)[i].id = j}
        BY <1>4, <2>1 DEF InQueue
    <2>6. \A j : \A i \in InQueue(j)' : i \in Nat /\ i # 0 /\ i + 1 \in InQueue(j)
        BY <2>3, <2>5
    <2>7. \A j : Fewer(InQueue(j)', InQueue(j))
        <3> SUFFICES ASSUME NEW j
                     PROVE  Fewer(InQueue(j)', InQueue(j))
            OBVIOUS
        <3>1. ASSUME Single(InQueue(j)), NEW x \in InQueue(j)', NEW y \in InQueue(j)'
              PROVE  x = y
            <4>1. x \in Nat /\ y \in Nat /\ x + 1 = y + 1
                BY <2>6, <3>1 DEF Single
            <4> QED
                BY <4>1
        <3>2. InQueue(j) = {} => InQueue(j)' = {}
            BY <2>6
        <3> QED
            BY <3>1, <3>2 DEF Fewer, Single
    <2>8. /\ \A j : InBytes(j)' = InBytes(j) /\ InRan(j)' = InRan(j)
          /\ \A j : InWorker(j)' = IF j = id THEN InWorker(j) \cup {w} ELSE InWorker(j)
        <3>1. \A j : InBytes(j)' = InBytes(j) /\ InRan(j)' = InRan(j)
            BY <1>1 DEF InBytes, PrefixesOf, InRan
        <3>2. \A j : InWorker(j)' = IF j = id THEN InWorker(j) \cup {w} ELSE InWorker(j)
            BY <1>1, <1>4, <2>1, <2>2 DEF InWorker
        <3> QED
            BY <3>1, <3>2
    <2>9. Alone(InBytes(id), InQueue(id), InWorker(id), InRan(id))
        BY <2>4, PlaceNow
    <2>10. 1 \in InQueue(id)
        BY <2>2, <2>3, <2>5
    <2>11. /\ InBytes(id)' = {} /\ InRan(id)' = {} /\ InWorker(id)' = {w}
           /\ InQueue(id)' = {}
        <3>1. InBytes(id)' = {} /\ InRan(id)' = {} /\ InWorker(id)' = {w}
            BY <2>8, <2>9, <2>10 DEF Alone
        <3>2. \A i \in InQueue(id)' : i \in Nat /\ i # 0 /\ i + 1 = 1
            BY <2>6, <2>9, <2>10 DEF Alone, Single
        <3>3. InQueue(id)' = {}
            <4>1. \A i \in InQueue(id)' : FALSE
                BY <3>2
            <4> QED
                BY <4>1
        <3> QED
            BY <3>1, <3>3
    <2>12. Trace(id) # {}
        BY <2>10, NowhereBut
    <2>13. \A j \in Id \ {id} : TraceFewer(j)
        BY <2>7, <2>8 DEF TraceFewer, Fewer
    <2>14. Alone(InBytes(id)', InQueue(id)', InWorker(id)', InRan(id)')
        BY <2>11 DEF Alone, Single
    <2>15. Left \subseteq Left'
        <3> SUFFICES ASSUME NEW j \in Left
                     PROVE  j \in Left'
            OBVIOUS
        <3>1. j \in Id
            BY DEF Left
        <3>2. CASE j = id
            BY <2>11, <3>1, <3>2, LeftThen
        <3>3. CASE j # id
            <4>1. InQueue(j) # {} => InQueue(j)' # {}
                <5> SUFFICES ASSUME NEW i \in InQueue(j)
                             PROVE  InQueue(j)' # {}
                    OBVIOUS
                <5>1. i \in DOMAIN tasks /\ tasks[i].id = j
                    BY <2>5
                <5>2. i # 1
                    BY <2>2, <3>3, <5>1
                <5>3. i - 1 \in DOMAIN Tail(tasks) /\ (i - 1) + 1 = i
                    BY <2>3, <5>1, <5>2
                <5>4. i - 1 \in InQueue(j)'
                    BY <2>3, <2>5, <5>1, <5>3
                <5> QED
                    BY <5>4
            <4> QED
                BY <2>8, <3>1, <3>3, <4>1, LeftNow, LeftThen
        <3> QED
            BY <3>2, <3>3
    <2> QED
        BY <1>1, <1>2, <2>4, <2>12, <2>13, <2>14, <2>15, FollowedMoved
<1> QED
    BY <1>1, <1>3, <1>4

\* A call goes from a worker to its execution.
LEMMA WorkerRunsFollowed ==
    ASSUME Typed, CallsIssued, TasksIssued, Followed, NEW w \in Worker, WorkerRuns(w)
    PROVE  Followed'
<1>1. PICK task \in Task : task = worker[w].task
    BY WorkerRunsEffect
<1>2. PICK id : id = task.id
    OBVIOUS
<1>3. /\ Typed' /\ call' = call /\ UNCHANGED <<m_tasks, notices>>
      /\ worker[w].pc = "running" /\ id \in 1 .. Len(issued) /\ id \in Id /\ worker'[w].pc # "running"
      /\ \A v \in Worker \ {w} : worker'[v] = worker[v]
    BY <1>1, <1>2, WorkerRunsEffect, IssuedCall DEF ClientKept
<1>4. PICK reply \in Reply[issued[id].method] :
         Answers(task.conn, id, reply, conn[task.conn].up)
    BY <1>1, <1>2, WorkerRunsEffect
<1>6. task.conn \in Conn
    BY DEF Task
<1>5. PICK x : ran'[id] = Append(ran[id], x)
    <2>1. \E x : ran'[id] = Append(ran[id], x) /\ x.reply = reply
        BY <1>3, <1>4, <1>6, AnswersRuns, Zenon
    <2> QED
        BY <2>1
<1>7. \A l \in Conn : conn'[l].up = conn[l].up
    BY <1>4, <1>6 DEF Answers
<1>8. \A j : InBytes(j)' = InBytes(j) /\ InQueue(j)' = InQueue(j)
    BY <1>3, <1>7 DEF InBytes, PrefixesOf, InQueue
<1>9. \A j : InWorker(j)' = InWorker(j) \ {w}
    BY <1>3 DEF InWorker
<1>10. w \in InWorker(id) /\ \A j : j # id => w \notin InWorker(j)
    BY <1>1, <1>2, <1>3 DEF InWorker
<1>11. Alone(InBytes(id), InQueue(id), InWorker(id), InRan(id))
    BY <1>3, PlaceNow
<1>12. /\ InBytes(id)' = {} /\ InQueue(id)' = {} /\ InWorker(id)' = {} /\ InRan(id) = {}
    BY <1>8, <1>9, <1>10, <1>11 DEF Alone, Single
<1>13. ran'[id] = Append(ran[id], x) /\ \A j \in Id \ {id} : InRan(j)' = InRan(j)
    BY <1>3, <1>4, <1>5, <1>6, AnswersRuns
<1>14. InRan(id)' = {1}
    BY <1>3, <1>12, <1>13, FirstRun
<1>15. \A j \in Id \ {id} : TraceFewer(j) /\ InWorker(j)' = InWorker(j)
    BY <1>8, <1>9, <1>10, <1>13 DEF TraceFewer, Fewer
<1>16. Alone(InBytes(id)', InQueue(id)', InWorker(id)', InRan(id)')
    BY <1>12, <1>14 DEF Alone, Single
<1>17. Trace(id) # {}
    BY <1>10, NowhereBut
<1>18. Left \subseteq Left'
    <2> SUFFICES ASSUME NEW j \in Left
                 PROVE  j \in Left'
        OBVIOUS
    <2>1. j \in Id
        BY DEF Left
    <2>2. CASE j = id
        BY <1>14, <2>1, <2>2, LeftThen
    <2>3. CASE j # id
        BY <1>8, <1>13, <1>15, <2>1, <2>3, LeftNow, LeftThen
    <2> QED
        BY <2>2, <2>3
<1>19. notices' <= notices
    BY <1>3 DEF Typed
<1> QED
    BY <1>3, <1>16, <1>15, <1>17, <1>18, <1>19, FollowedMoved

\* A crash loses calls, and forgets the notifications.
LEMMA CrashFollowed ==
    ASSUME Typed, CallsIssued, Followed, Crash
    PROVE  Followed'
<1>1. /\ Typed' /\ call' = call /\ ran' = ran /\ m_tasks' = <<>> /\ notices' = 0
      /\ \A w \in Worker : worker'[w].pc # "running"
      /\ \A k \in Conn : conn'[k].up = <<>>
    BY CrashEffect DEF ClientKept
<1>2. \A j : /\ InBytes(j)' = {} /\ InQueue(j)' = {} /\ InWorker(j)' = {} /\ InRan(j)' = InRan(j)
    BY <1>1 DEF InBytes, PrefixesOf, InQueue, InWorker, InRan
<1>3. \A j : TraceFewer(j)
    BY <1>2 DEF TraceFewer, Fewer, Single
<1>4. ASSUME NEW c \in Caller, call'[c].pc \in {"called", "locked"}
      PROVE  call'[c].id \in Id /\ call'[c].id # 0 /\ Trace(call'[c].id) = {}
    <2>1. call[c].id \in 1 .. Len(issued)
        BY <1>1, <1>4, OpenFd
    <2>2. call[c].id \in Id
        BY <2>1, IssuedCall
    <2> QED
        BY <1>1, <1>4, <2>2 DEF Followed, Unsent, Id
<1>5. 0 \notin Id
    BY DEF Id
<1>6. OnePlace' /\ Unsent'
    BY <1>3, <1>4, <1>5, PlacesNext DEF Followed
<1>7. NoticesOfTasks'
    <2>1. Left' \subseteq Id
        BY DEF Left
    <2>2. Cardinality(Left') \in Nat
        BY <2>1, LeftFinite
    <2> QED
        BY <1>1, <2>2 DEF NoticesOfTasks
<1> QED
    BY <1>6, <1>7 DEF Followed

-----------------------------------------------------------------------------
(* Answers meet the calls that wait for them.                              *)

Matched == InStep /\ Answered

\* The first execution of a call stays.
RanStay == \A id \in Id : ran[id] # <<>> => ran'[id] # <<>> /\ ran'[id][1] = ran[id][1]

\* An answer is added behind those there.
LEMMA RanStays ==
    ASSUME Typed, NEW k \in Conn, NEW id \in Id, NEW reply, NEW up, Answers(k, id, reply, up)
    PROVE  RanStay
<1> SUFFICES ASSUME NEW j \in Id, ran[j] # <<>>
             PROVE  ran'[j] # <<>> /\ ran'[j][1] = ran[j][1]
    BY DEF RanStay
<1>1. CASE j # id
    BY <1>1 DEF Answers
<1>2. CASE j = id
    <2>1. PICK x : ran'[j] = Append(ran[j], x)
        BY <1>2 DEF Answers
    <2>2. PICK s \in Seq(Ran) : s = ran[j]
        BY DEF Typed
    <2>3. Append(s, x) \in Seq(Ran \cup {x}) /\ s \in Seq(Ran \cup {x})
        BY SeqMonotonic, AppendProperties
    <2>4. Len(s) \in Nat /\ Len(s) # 0
        BY <2>2, LenProperties, EmptySeq
    <2>5. 1 \in 1 .. Len(s) /\ Len(Append(s, x)) = Len(s) + 1
        BY <2>3, <2>4, AppendProperties
    <2>6. Append(s, x)[1] = s[1] /\ Append(s, x) # <<>>
        BY <2>3, <2>4, <2>5, AppendProperties, EmptySeq
    <2> QED
        BY <2>1, <2>2, <2>6
<1> QED
    BY <1>1, <1>2

\* The thread that holds the channel of a connection is the one that waits there.
LEMMA HolderWaits ==
    ASSUME Typed, CallsIssued, OneHolder, FdsOpen, NEW c \in Caller, Holds(c), Fd(c) \in Conn,
           NEW d \in Caller, Waits(d, Fd(c))
    PROVE  d = c
<1>1. Fd(c)[1] = call[c].ch
    BY FdOf DEF Holds
<1>2. Fd(d) = Fd(c) /\ Holds(d) /\ call[d].pc = "sent"
    BY DEF Waits, Holds
<1>3. Fd(d)[1] = call[d].ch
    BY <1>2, FdOf
<1> QED
    BY <1>1, <1>2, <1>3 DEF OneHolder

\* A connection on which nothing starts, and nothing is answered.
LEMMA InStepKept ==
    ASSUME Typed, CallsIssued, IssuedStay, RanStay, NEW k \in Conn, InStepOn(k),
           conn'[k].client => conn[k].client, ~conn'[k].split => ~conn[k].split,
           conn'[k].down = conn[k].down, OnConn(k)' \subseteq OnConn(k),
           \A c \in Caller : Waits(c, k) => Waits(c, k)' /\ call'[c].id = call[c].id
    PROVE  InStepOn(k)'
<1> SUFFICES ASSUME conn'[k].client, ~conn'[k].split
             PROVE  /\ \A id \in OnConn(k)' : \E c \in Caller : Waits(c, k)' /\ call'[c].id = id
                    /\ conn'[k].down # <<>> =>
                          \E c \in Caller : /\ Waits(c, k)' /\ ran'[call'[c].id] # <<>>
                                            /\ conn'[k].down = Answer(call[c].id)'
    BY DEF InStepOn
<1>1. /\ \A id \in OnConn(k) : \E c \in Caller : Waits(c, k) /\ call[c].id = id
      /\ conn[k].down # <<>> =>
            \E c \in Caller : /\ Waits(c, k) /\ ran[call[c].id] # <<>>
                              /\ conn[k].down = Answer(call[c].id)
    BY DEF InStepOn
<1>2. \A id \in OnConn(k)' : \E c \in Caller : Waits(c, k)' /\ call'[c].id = id
    BY <1>1
<1>3. ASSUME NEW c \in Caller, Waits(c, k), ran[call[c].id] # <<>>
      PROVE  /\ Waits(c, k)' /\ ran'[call'[c].id] # <<>>
             /\ Answer(call[c].id)' = Answer(call[c].id)
    <2>1. call[c].id \in 1 .. Len(issued)
        BY <1>3, OpenFd DEF Waits
    <2>2. call[c].id \in Id /\ call'[c].id = call[c].id /\ Waits(c, k)'
        BY <1>3, <2>1, IssuedCall
    <2>3. issued'[call[c].id] = issued[call[c].id]
        BY <2>1 DEF IssuedStay
    <2>4. ran'[call[c].id] # <<>> /\ ran'[call[c].id][1] = ran[call[c].id][1]
        BY <1>3, <2>2 DEF RanStay
    <2> QED
        BY <2>2, <2>3, <2>4 DEF Answer
<1>4. ASSUME conn'[k].down # <<>>
      PROVE  \E c \in Caller : /\ Waits(c, k)' /\ ran'[call'[c].id] # <<>>
                               /\ conn'[k].down = Answer(call[c].id)'
    BY <1>1, <1>3, <1>4
<1> QED
    BY <1>2, <1>4

\* A step in which no call succeeds.
LEMMA AnsweredKept ==
    ASSUME Typed, CallsIssued, Answered, RanStay,
           \A k \in Conn : ~conn'[k].split => ~conn[k].split,
           \A c \in Caller : \/ call'[c] = call[c]
                             \/ call'[c].pc # "returned"
                             \/ call'[c].failed
    PROVE  Answered'
<1> SUFFICES ASSUME NEW c \in Caller, call'[c].pc = "returned", call'[c].id # 0, ~call'[c].failed
             PROVE  /\ call'[c].fd \in Conn
                    /\ ~conn'[call'[c].fd].split =>
                          /\ ran'[call'[c].id] # <<>>
                          /\ call'[c].response = ran'[call'[c].id][1].reply
    BY DEF Answered
<1>1. call'[c] = call[c]
    OBVIOUS
<1>2. /\ call[c].fd \in Conn
      /\ ~conn[call[c].fd].split => /\ ran[call[c].id] # <<>>
                                    /\ call[c].response = ran[call[c].id][1].reply
    BY <1>1 DEF Answered
<1>3. call[c].id \in Id
    <2>1. call[c].id \in 0 .. Len(issued) /\ Len(issued) \in Nat
        BY LenProperties DEF CallsIssued, Typed
    <2>2. call[c].id \in 1 .. Len(issued)
        BY <1>1, <2>1
    <2> QED
        BY <2>2, IssuedCall
<1> QED
    BY <1>1, <1>2, <1>3 DEF RanStay

\* No bytes and no tasks come to a connection.
LEMMA OnConnKept ==
    ASSUME NEW k \in Conn, conn'[k].up = conn[k].up, UNCHANGED m_tasks,
           \A w \in Worker : worker'[w].pc = "running" =>
              worker[w].pc = "running" /\ worker'[w].task = worker[w].task
    PROVE  OnConn(k)' \subseteq OnConn(k)
<1>1. \A id : PrefixesOf(k, id)' = PrefixesOf(k, id)
    BY DEF PrefixesOf
<1>2. \A id : InQueue(id)' = InQueue(id) /\ InWorker(id)' \subseteq InWorker(id)
    BY DEF InQueue, InWorker
<1>3. \A id : \A w \in InWorker(id)' : worker'[w].task = worker[w].task
    BY DEF InWorker
<1> QED
    BY <1>1, <1>2, <1>3 DEF OnConn

\* A step in which nothing starts, no answer moves, and no call succeeds.
LEMMA MatchedKept ==
    ASSUME Typed, CallsIssued, Matched, IssuedStay, RanStay,
           \A k \in Conn : /\ conn'[k].client => conn[k].client
                           /\ conn'[k].split = conn[k].split /\ conn'[k].down = conn[k].down
                           /\ OnConn(k)' \subseteq OnConn(k),
           \A c \in Caller : \A k \in Conn : Waits(c, k) => Waits(c, k)' /\ call'[c].id = call[c].id,
           \A c \in Caller : call'[c] = call[c] \/ call'[c].pc # "returned" \/ call'[c].failed
    PROVE  Matched'
<1>1. Answered'
    BY AnsweredKept DEF Matched
<1>2. ASSUME NEW k \in Conn
      PROVE  InStepOn(k)'
    BY InStepKept DEF Matched, InStep
<1> QED
    BY <1>1, <1>2 DEF Matched, InStep

\* Nothing is executed.
LEMMA RunsKept ==
    ASSUME ran' = ran
    PROVE  RanStay
BY DEF RanStay

\* A thread that calls waits for nothing yet,
LEMMA CallsMatched ==
    ASSUME Typed, CallsIssued, Matched, NEW c \in Caller, Calls(c)
    PROVE  Matched'
<1>1. /\ ConnKept /\ ServerKept /\ ran' = ran /\ call[c].pc = "returned" /\ call'[c].pc = "called"
      /\ \A d \in Caller \ {c} : call'[d] = call[d]
    BY CallsEffect
<1>2. IssuedStay /\ RanStay
    BY <1>1, IssuedMore, RunsKept
<1>3. \A k \in Conn : OnConn(k)' \subseteq OnConn(k)
    BY <1>1, OnConnKept DEF ConnKept, ServerKept
<1>4. \A d \in Caller : \A k \in Conn : Waits(d, k) => Waits(d, k)' /\ call'[d].id = call[d].id
    BY <1>1 DEF Waits, Fd, ConnKept
<1> QED
    BY <1>1, <1>2, <1>3, <1>4, MatchedKept DEF ConnKept

\* nor one that has just locked.
LEMMA LocksMatched ==
    ASSUME Typed, CallsIssued, Matched, NEW c \in Caller, Locks(c)
    PROVE  Matched'
<1>1. /\ ConnKept /\ ServerKept /\ HistoryKept /\ call[c].pc = "called" /\ MovesTo(c, "locked")
    BY LocksEffect
<1>2. IssuedStay /\ RanStay
    BY <1>1, IssuedKept, RunsKept DEF HistoryKept
<1>3. \A k \in Conn : OnConn(k)' \subseteq OnConn(k)
    BY <1>1, OnConnKept DEF ConnKept, ServerKept
<1>4. \A d \in Caller : \A k \in Conn : Waits(d, k) => Waits(d, k)' /\ call'[d].id = call[d].id
    BY <1>1 DEF Waits, Fd, ConnKept, MovesTo
<1> QED
    BY <1>1, <1>2, <1>3, <1>4, MatchedKept DEF ConnKept, MovesTo

\* The server's steps that answer nothing.
LEMMA ServerMatched ==
    ASSUME Typed, CallsIssued, Matched, ClientKept, ran' = ran,
           \A k \in Conn : /\ conn'[k].client = conn[k].client
                           /\ conn'[k].split = conn[k].split /\ conn'[k].down = conn[k].down
                           /\ OnConn(k)' \subseteq OnConn(k)
    PROVE  Matched'
<1>1. IssuedStay /\ RanStay
    BY IssuedKept, RunsKept DEF ClientKept
<1>2. \A d \in Caller : \A k \in Conn : Waits(d, k) => Waits(d, k)' /\ call'[d].id = call[d].id
    BY DEF Waits, Fd, ClientKept
<1> QED
    BY <1>1, <1>2, MatchedKept DEF ClientKept

\* The end of the server on a closed connection answers nothing,
LEMMA OnConnectionMatched ==
    ASSUME Typed, CallsIssued, Matched, NEW k \in Conn, OnConnection(k)
    PROVE  Matched'
<1>1. /\ ClientKept /\ ServerKept /\ ran' = ran
      /\ \A l \in Conn : /\ conn'[l].client = conn[l].client /\ conn'[l].up = conn[l].up
                         /\ conn'[l].split = conn[l].split /\ conn'[l].down = conn[l].down
    BY OnConnectionEffect DEF HistoryKept
<1>2. \A l \in Conn : OnConn(l)' \subseteq OnConn(l)
    BY <1>1, OnConnKept DEF ServerKept
<1> QED
    BY <1>1, <1>2, ServerMatched

\* nor does a notification,
LEMMA NotifiesMatched ==
    ASSUME Typed, CallsIssued, Matched, Notifies
    PROVE  Matched'
<1>1. /\ ClientKept /\ conn' = conn /\ m_tasks' = m_tasks /\ ran' = ran
      /\ \A w \in Worker : worker'[w].pc = "running" => worker'[w] = worker[w]
    BY NotifiesEffect
<1>2. \A l \in Conn : OnConn(l)' \subseteq OnConn(l)
    BY <1>1, OnConnKept
<1> QED
    BY <1>1, <1>2, ServerMatched

\* nor a start,
LEMMA RunMatched ==
    ASSUME Typed, CallsIssued, Matched, Run
    PROVE  Matched'
<1>1. ClientKept /\ UNCHANGED <<conn, m_tasks, worker, ran>>
    BY RunEffect
<1>2. \A l \in Conn : OnConn(l)' \subseteq OnConn(l)
    BY <1>1, OnConnKept
<1> QED
    BY <1>1, <1>2, ServerMatched

\* nor a crash.
LEMMA CrashMatched ==
    ASSUME Typed, CallsIssued, Matched, Crash
    PROVE  Matched'
<1>1. /\ ClientKept /\ ran' = ran /\ m_tasks' = <<>>
      /\ \A w \in Worker : worker'[w].pc # "running"
      /\ \A k \in Conn :
            /\ conn'[k].client = conn[k].client /\ conn'[k].up = <<>>
            /\ conn'[k].down = conn[k].down /\ conn'[k].split = conn[k].split
    BY CrashEffect
<1>2. \A k \in Conn : OnConn(k)' = {}
    BY <1>1 DEF OnConn, PrefixesOf, InQueue, InWorker
<1> QED
    BY <1>1, <1>2, ServerMatched

\* Nothing is on its way on a connection that was never opened.
LEMMA UnopenedQuiet ==
    ASSUME Typed, FdsOpen, TasksIssued, NEW k \in Conn, k[2] >= opened[k[1]]
    PROVE  OnConn(k) = {} /\ conn[k].down = <<>>
<1>1. conn[k] = Closed
    BY DEF FdsOpen
<1>2. conn[k].up = <<>> /\ conn[k].down = <<>>
    BY <1>1 DEF Closed
<1>3. k[2] \in Nat /\ opened[k[1]] \in Nat
    BY ConnParts DEF Typed
<1>4. \A task : TaskIssued(task) => task.conn # k
    BY <1>3 DEF TaskIssued
<1>5. \A id : PrefixesOf(k, id) = {}
    BY <1>2 DEF PrefixesOf
<1>6. \A id : \A i \in InQueue(id) : m_tasks[i].conn # k
    BY <1>4 DEF InQueue, TasksIssued
<1>7. \A id : \A w \in InWorker(id) : worker[w].task.conn # k
    BY <1>4 DEF InWorker, TasksIssued, RunningTasks
<1> QED
    BY <1>2, <1>5, <1>6, <1>7 DEF OnConn

\* A new connection has nothing on its way.
LEMMA ConnectsMatched ==
    ASSUME Typed, CallsIssued, FdsOpen, ConnectsSeldom, TasksIssued, Matched, NEW c \in Caller, Connects(c)
    PROVE  Matched'
<1>0. call[c].pc = "locked" /\ Fd(c) = None
    BY DEF Connects
<1>1. ServerKept /\ HistoryKept /\ opened[call[c].ch] <= MaxCalls
    BY <1>0, RoomToConnect, ConnectsEffect
<1>2. IssuedStay /\ RanStay
    BY <1>1, IssuedKept, RunsKept DEF HistoryKept
<1>3. CASE Fails(c) /\ ConnKept
    <2>1. \A k \in Conn : OnConn(k)' \subseteq OnConn(k)
        BY <1>1, <1>3, OnConnKept DEF ConnKept, ServerKept
    <2>2. \A d \in Caller : \A k \in Conn : Waits(d, k) => Waits(d, k)' /\ call'[d].id = call[d].id
        BY <1>0, <1>3 DEF Waits, Fd, ConnKept, Fails, MovesTo
    <2> QED
        BY <1>2, <1>3, <2>1, <2>2, MatchedKept DEF ConnKept, Fails, MovesTo
<1>4. CASE UNCHANGED call /\ ~(Fails(c) /\ ConnKept)
    <2>1. PICK ch, new : ch = call[c].ch /\ new = <<ch, opened[ch]>>
        OBVIOUS
    <2>2. /\ new \in Conn
          /\ conn'[new].up = conn[new].up /\ conn'[new].down = conn[new].down
          /\ conn'[new].split = conn[new].split
          /\ \A l \in Conn \ {new} : conn'[l] = conn[l]
          /\ \A h \in Channel \ {ch} : m_clientFd'[h] = m_clientFd[h]
        BY <1>1, <1>4, <2>1, ConnectsEffect
    <2>3. \A l \in Conn : OnConn(l)' \subseteq OnConn(l)
        BY <1>1, <2>2, OnConnKept DEF ServerKept
    <2>4. new[2] >= opened[new[1]]
        <3>1. ch \in Channel /\ opened[ch] \in Nat /\ new[1] = ch /\ new[2] = opened[ch]
            BY <1>0, <2>1, OpenFd DEF Typed
        <3> QED
            BY <3>1
    <2>5. OnConn(new) = {} /\ conn[new].down = <<>>
        BY <2>2, <2>4, UnopenedQuiet
    <2>6. InStepOn(new)'
        BY <2>2, <2>3, <2>5 DEF InStepOn
    <2>7. \A d \in Caller : \A k \in Conn : Waits(d, k) => Waits(d, k)' /\ call'[d].id = call[d].id
        <3> SUFFICES ASSUME NEW d \in Caller, NEW k \in Conn, Waits(d, k)
                     PROVE  Waits(d, k)'
            BY <1>4
        <3>1. k # None
            BY ConnParts
        <3>2. call[d].pc = "sent" /\ Fd(d) = k /\ call[d].ch \in Channel
            BY OpenFd DEF Waits
        <3>3. call[d].ch # ch
            BY <1>0, <2>1, <3>1, <3>2 DEF Fd
        <3> QED
            BY <1>4, <2>2, <3>2, <3>3 DEF Waits, Fd
    <2>8. ASSUME NEW l \in Conn, l # new
          PROVE  InStepOn(l)'
        <3>1. conn'[l] = conn[l] /\ InStepOn(l)
            BY <2>2, <2>8 DEF Matched, InStep
        <3> QED
            BY <1>2, <2>3, <2>7, <3>1, InStepKept
    <2>9. \A k \in Conn : conn'[k].split = conn[k].split
        BY <2>2
    <2>10. Answered'
        BY <1>2, <1>4, <2>9, AnsweredKept DEF Matched
    <2> QED
        BY <2>6, <2>8, <2>10 DEF Matched, InStep
<1> QED
    BY <1>1, <1>3, <1>4, ConnectsEffect

\* The other connections, in a step of the thread that holds the channel of k.
LEMMA OthersInStep ==
    ASSUME Typed, CallsIssued, FdsOpen, OneHolder, InStep, NEW c \in Caller, Holds(c), NEW k \in Conn, k = Fd(c),
           NEW pc, MovesTo(c, pc), ServerKept, HistoryKept,
           \A h \in Channel \ {call[c].ch} : m_clientFd'[h] = m_clientFd[h],
           \A l \in Conn \ {k} : conn'[l] = conn[l],
           InStepOn(k)'
    PROVE  InStep'
<1>1. IssuedStay /\ RanStay
    BY IssuedKept, RunsKept DEF HistoryKept
<1> SUFFICES ASSUME NEW l \in Conn, l # k
             PROVE  InStepOn(l)'
    BY DEF InStep
<1>2. conn'[l] = conn[l] /\ InStepOn(l)
    BY DEF InStep
<1>3. OnConn(l)' \subseteq OnConn(l)
    BY <1>2, OnConnKept DEF ServerKept
<1>4. ASSUME NEW d \in Caller, Waits(d, l)
      PROVE  Waits(d, l)' /\ call'[d].id = call[d].id
    <2>1. d # c
        BY <1>4 DEF Waits
    <2>2. call[d].ch # call[c].ch
        BY <1>4, <2>1 DEF OneHolder, Holds, Waits
    <2>3. call[d].ch \in Channel /\ call'[d] = call[d]
        BY <1>4, <2>1, OpenFd DEF Waits, MovesTo
    <2> QED
        BY <1>4, <2>2, <2>3 DEF Waits, Fd
<1> QED
    BY <1>1, <1>2, <1>3, <1>4, InStepKept

\* A call that gives up closes its connection, so that a late answer finds no reader.
LEMMA ReceiveFailsMatched ==
    ASSUME Typed, CallsIssued, FdsOpen, OneHolder, Matched, NEW c \in Caller, ReceiveFails(c)
    PROVE  Matched'
<1>1. PICK k : k = Fd(c)
    OBVIOUS
<1>2. /\ ServerKept /\ HistoryKept /\ Holds(c) /\ k \in Conn /\ ClientEnd(k)
      /\ Fails(c) /\ Closes(c) /\ MovesTo(c, "returned")
    BY <1>1, ReceiveFailsEffect DEF Holds, Fails
<1>3. InStepOn(k)'
    BY <1>1, <1>2 DEF InStepOn, Closes
<1>4. InStep'
    BY <1>1, <1>2, <1>3, OthersInStep DEF Closes, ClientEnd, Matched
<1>5. \A l \in Conn : conn'[l].split = conn[l].split
    BY <1>2 DEF ClientEnd
<1>6. \A d \in Caller : call'[d] = call[d] \/ call'[d].pc # "returned" \/ call'[d].failed
    BY <1>2 DEF Fails, MovesTo
<1>7. Answered'
    BY <1>2, <1>5, <1>6, AnsweredKept, IssuedKept, RunsKept DEF Matched, HistoryKept
<1> QED
    BY <1>4, <1>7 DEF Matched

\* The thread that sends was the only one to use the connection, and waits for its own
\* call.
LEMMA SendsMatched ==
    ASSUME Typed, CallsIssued, FdsOpen, OneHolder, Matched, NEW c \in Caller, Sends(c)
    PROVE  Matched'
<1>1. PICK k, id : k = Fd(c) /\ id = call[c].id
    OBVIOUS
<1>2. /\ ServerKept /\ HistoryKept /\ call[c].pc = "locked" /\ Holds(c) /\ k \in Conn /\ ClientEnd(k)
    BY <1>1, SendsEffect DEF Holds
<1>3. \/ /\ MovesTo(c, "sent") /\ m_clientFd' = m_clientFd
         /\ conn'[k].client = conn[k].client /\ conn'[k].down = conn[k].down
      \/ Fails(c) /\ Closes(c)
    BY <1>1, SendsEffect
<1>4. InStepOn(k)'
    <2>1. CASE Fails(c) /\ Closes(c)
        BY <1>1, <2>1 DEF InStepOn, Closes
    <2>2. CASE /\ MovesTo(c, "sent") /\ m_clientFd' = m_clientFd
               /\ conn'[k].client = conn[k].client /\ conn'[k].down = conn[k].down
        <3> SUFFICES ASSUME conn'[k].client, ~conn'[k].split
                     PROVE  /\ \A j \in OnConn(k)' : \E d \in Caller : Waits(d, k)' /\ call'[d].id = j
                            /\ conn'[k].down = <<>>
            BY DEF InStepOn
        <3>1. conn[k].client /\ ~conn[k].split /\ InStepOn(k)
            BY <1>2, <2>2 DEF Matched, InStep, ClientEnd
        <3>2. \A d \in Caller : ~Waits(d, k)
            <4> SUFFICES ASSUME NEW d \in Caller, Waits(d, k)
                         PROVE  FALSE
                OBVIOUS
            <4>1. d = c
                BY <1>1, <1>2, HolderWaits
            <4> QED
                BY <1>2, <4>1 DEF Waits
        <3>3. OnConn(k) = {} /\ conn[k].down = <<>>
            BY <3>1, <3>2 DEF InStepOn
        <3>4. PICK n : \A j : \A l \in Conn :
                          l # k \/ j # id => PrefixesOf(l, j)' = PrefixesOf(l, j)
            BY <1>1, SendsBytes
        <3>5. \A j : InQueue(j)' = InQueue(j) /\ InWorker(j)' = InWorker(j)
            BY <1>2 DEF InQueue, InWorker, ServerKept
        <3>6. ASSUME NEW j \in Id, j # id
              PROVE  j \notin OnConn(k)'
            <4>1. PrefixesOf(k, j)' = PrefixesOf(k, j) /\ j \notin OnConn(k)
                BY <1>2, <3>3, <3>4, <3>6
            <4> QED
                BY <1>2, <3>5, <4>1 DEF OnConn, ServerKept
        <3>7. OnConn(k)' \subseteq {id}
            BY <3>6 DEF OnConn
        <3>8. Waits(c, k)' /\ call'[c].id = id
            BY <1>1, <2>2 DEF Waits, Fd, MovesTo
        <3> QED
            BY <2>2, <3>3, <3>7, <3>8
    <2> QED
        BY <1>3, <2>1, <2>2
<1>5. PICK pc : MovesTo(c, pc) /\ (pc # "returned" \/ call'[c].failed)
    BY <1>3 DEF Fails
<1>6. /\ \A h \in Channel \ {call[c].ch} : m_clientFd'[h] = m_clientFd[h]
      /\ \A l \in Conn \ {k} : conn'[l] = conn[l]
    BY <1>2, <1>3 DEF Closes, ClientEnd
<1>7. InStep'
    BY <1>1, <1>2, <1>4, <1>5, <1>6, OthersInStep DEF Matched
<1>8. \A l \in Conn : conn'[l].split = conn[l].split
    BY <1>2 DEF ClientEnd
<1>9. \A d \in Caller : call'[d] = call[d] \/ call'[d].pc # "returned" \/ call'[d].failed
    BY <1>5 DEF MovesTo
<1>10. Answered'
    BY <1>2, <1>8, <1>9, AnsweredKept, IssuedKept, RunsKept DEF Matched, HistoryKept
<1> QED
    BY <1>7, <1>10 DEF Matched

\* A call that was executed is nowhere on its way.
LEMMA RanIsGone ==
    ASSUME Typed, Followed, NEW id \in Id, ran[id] # <<>>, NEW k \in Conn
    PROVE  id \notin OnConn(k)
<1>1. Alone(InBytes(id), InQueue(id), InWorker(id), InRan(id))
    BY PlaceNow
<1>2. InRan(id) # {}
    <2>1. PICK s \in Seq(Ran) : s = ran[id]
        BY DEF Typed
    <2>2. Len(s) \in Nat /\ Len(s) # 0 /\ DOMAIN s = 1 .. Len(s)
        BY <2>1, LenProperties, EmptySeq
    <2>3. 1 \in DOMAIN s
        BY <2>2
    <2> QED
        BY <2>1, <2>3 DEF InRan
<1>3. InBytes(id) = {} /\ InQueue(id) = {} /\ InWorker(id) = {}
    BY <1>1, <1>2 DEF Alone
<1>4. PrefixesOf(k, id) = {}
    <2> SUFFICES ASSUME NEW i \in PrefixesOf(k, id)
                 PROVE  FALSE
        OBVIOUS
    <2>1. PICK up \in Seq(Octet) : up = conn[k].up
        BY DEF Typed, ConnType
    <2>2. DOMAIN up = 1 .. Len(up) /\ i \in DOMAIN up
        BY <2>1, LenProperties DEF PrefixesOf
    <2>3. Len(up) \in Nat /\ i \in 1 .. Len(up)
        BY <2>1, <2>2, LenProperties
    <2>4. i \in Nat
        BY <2>3
    <2>5. PICK x : x = <<k, i>>
        OBVIOUS
    <2>6. x \in Conn \X Nat /\ x[1] = k /\ x[2] = i
        BY <2>4, <2>5
    <2>7. x \in InBytes(id)
        BY <2>6 DEF InBytes
    <2> QED
        BY <1>3, <2>7
<1> QED
    BY <1>3, <1>4 DEF OnConn

\* What a call receives is the whole answer to it.
LEMMA ReceivesMatched ==
    ASSUME Typed, CallsIssued, FdsOpen, OneHolder, TasksIssued, Followed, Matched,
           NEW c \in Caller, Receives(c)
    PROVE  Matched'
<1>1. PICK k, id : k = Fd(c) /\ id = call[c].id
    OBVIOUS
<1>2. /\ ServerKept /\ HistoryKept /\ call[c].pc = "sent" /\ Holds(c) /\ k \in Conn /\ ClientReads(k)
      /\ m_clientFd' = m_clientFd /\ id \in 1 .. Len(issued) /\ id \in Id
      /\ call[c].method = issued[id].method
    BY <1>1, ReceivesEffect, OpenFd, IssuedCall DEF Holds
<1>3. /\ conn[k].down # <<>> /\ conn'[k].client = conn[k].client /\ conn'[k].up = conn[k].up
      /\ MovesTo(c, "returned") /\ call'[c].fd = k
    BY <1>1, <1>2, ReceivesEffect DEF ClientReads
<1>10. PICK got \in Beginnings(conn[k].down) :
          /\ got = conn[k].down => conn'[k].down = <<>>
          /\ conn'[k].split = (conn[k].split \/ got # conn[k].down)
          /\ call'[c].failed \/ call'[c].response = ParseResponse(call[c].method, got)
    BY <1>1, ReceivesEffect
<1>4. ASSUME conn[k].client, ~conn[k].split
      PROVE  ran[id] # <<>> /\ conn[k].down = Answer(id) /\ OnConn(k) = {}
    <2>1. InStepOn(k)
        BY <1>2 DEF Matched, InStep
    <2>2. \A d \in Caller : Waits(d, k) => d = c
        BY <1>1, <1>2, HolderWaits
    <2>3. ran[id] # <<>> /\ conn[k].down = Answer(id)
        BY <1>1, <1>3, <1>4, <2>1, <2>2 DEF InStepOn
    <2>4. OnConn(k) \subseteq {id}
        BY <1>1, <1>4, <2>1, <2>2 DEF InStepOn
    <2>5. id \notin OnConn(k)
        BY <1>2, <2>3, RanIsGone
    <2> QED
        BY <2>3, <2>4, <2>5
<1>5. InStepOn(k)'
    <2>1. OnConn(k)' \subseteq OnConn(k)
        BY <1>2, <1>3, OnConnKept DEF ServerKept
    <2> QED
        BY <1>3, <1>4, <1>10, <2>1 DEF InStepOn
<1>6. /\ \A h \in Channel \ {call[c].ch} : m_clientFd'[h] = m_clientFd[h]
      /\ \A l \in Conn \ {k} : conn'[l] = conn[l]
    BY <1>2 DEF ClientReads
<1>7. InStep'
    BY <1>1, <1>2, <1>3, <1>5, <1>6, OthersInStep DEF Matched
<1>8. ASSUME ~call'[c].failed, ~conn'[k].split
      PROVE  ran[id] # <<>> /\ call'[c].response = ran[id][1].reply
    <2>1. conn[k].client /\ ~conn[k].split
        BY <1>1, <1>2, <1>8, <1>10, FdOf
    <2>2. /\ ran[id] # <<>>
          /\ call'[c].response = ParseResponse(issued[id].method, Answer(id))
        BY <1>2, <1>4, <1>8, <1>10, <2>1
    <2>3. ran[id][1].reply \in Reply[issued[id].method]
        <3>1. PICK s \in Seq(Ran) : s = ran[id]
            BY <1>2 DEF Typed
        <3>2. Len(s) \in Nat /\ Len(s) # 0 /\ DOMAIN s = 1 .. Len(s)
            BY <2>2, <3>1, LenProperties, EmptySeq
        <3>3. 1 \in DOMAIN ran[id]
            BY <3>1, <3>2
        <3> QED
            BY <1>2, <3>3 DEF TasksIssued
    <2>4. issued[id].method \in Methods
        BY <1>2, IssuedCall
    <2> QED
        BY <2>2, <2>3, <2>4, ResponseCodec DEF Answer
<1>9. Answered'
    <2> SUFFICES ASSUME NEW d \in Caller, call'[d].pc = "returned", call'[d].id # 0, ~call'[d].failed
                 PROVE  /\ call'[d].fd \in Conn
                        /\ ~conn'[call'[d].fd].split =>
                              /\ ran'[call'[d].id] # <<>>
                              /\ call'[d].response = ran'[call'[d].id][1].reply
        BY DEF Answered
    <2>1. CASE d = c
        BY <1>1, <1>2, <1>3, <1>8, <2>1 DEF MovesTo, HistoryKept
    <2>2. CASE d # c
        <3>1. /\ call'[d] = call[d] /\ ran' = ran
              /\ \A l \in Conn : conn[l].split => conn'[l].split
            BY <1>2, <1>3, <1>6, <1>10, <2>2 DEF MovesTo, HistoryKept
        <3> QED
            BY <3>1 DEF Matched, Answered
    <2> QED
        BY <2>1, <2>2
<1> QED
    BY <1>7, <1>9 DEF Matched

\* The server answers a call that was on its way on the connection.
LEMMA AnswersMatched ==
    ASSUME Typed, CallsIssued, OneHolder, FdsOpen, Followed, Matched, ClientKept,
           NEW k \in Conn, NEW id \in 1 .. Len(issued), NEW reply \in Reply[issued[id].method], NEW up,
           Answers(k, id, reply, up), id \in OnConn(k), \A l \in Conn : OnConn(l)' \subseteq OnConn(l)
    PROVE  Matched'
<1>1. id \in Id /\ issued[id].method \in Methods /\ IssuedStay
    BY IssuedCall, IssuedKept DEF ClientKept
<1>2. RanStay
    BY <1>1, RanStays
<1>3. \A d \in Caller : \A l \in Conn : Waits(d, l) => Waits(d, l)' /\ call'[d].id = call[d].id
    BY DEF Waits, Fd, ClientKept
<1>4. PICK response : response = SerializeResponse(issued[id].method, reply)
    OBVIOUS
<1>5. /\ conn'[k].client = conn[k].client
      /\ conn'[k].down = IF conn[k].client THEN conn[k].down \o response ELSE conn[k].down
      /\ conn'[k].split = conn[k].split
      /\ \A l \in Conn \ {k} : conn'[l] = conn[l]
    BY <1>4 DEF Answers
<1>6. response \in Seq(Octet)
    BY <1>1, <1>4, AnswerOctets
<1>7. ran[id] = <<>> /\ InRan(id) = {}
    <2>1. ran[id] = <<>>
        BY <1>1, RanIsGone
    <2> QED
        BY <2>1 DEF InRan
<1>8. ran'[id] # <<>> /\ ran'[id][1].reply = reply
    <2>1. PICK x : ran'[id] = Append(ran[id], x) /\ x.reply = reply
        BY <1>1, AnswersRuns
    <2>2. ran'[id] # <<>> /\ ran'[id][1] = x
        BY <1>1, <1>7, <2>1, FirstRun
    <2> QED
        BY <2>1, <2>2
<1>9. Answer(id)' = response
    BY <1>1, <1>4, <1>8 DEF Answer, ClientKept
<1>10. InStepOn(k)'
    <2> SUFFICES ASSUME conn'[k].client, ~conn'[k].split
                 PROVE  /\ \A j \in OnConn(k)' : \E d \in Caller : Waits(d, k)' /\ call'[d].id = j
                        /\ \E d \in Caller : /\ Waits(d, k)' /\ ran'[call'[d].id] # <<>>
                                             /\ conn'[k].down = Answer(call[d].id)'
        BY DEF InStepOn
    <2>1. conn[k].client /\ ~conn[k].split /\ InStepOn(k)
        BY <1>5 DEF Matched, InStep
    <2>2. PICK c \in Caller : Waits(c, k) /\ call[c].id = id
        BY <2>1 DEF InStepOn
    <2>3. \A d \in Caller : Waits(d, k) => d = c
        <3>1. Holds(c) /\ Fd(c) = k
            BY <2>2 DEF Waits, Holds
        <3> QED
            BY <3>1, HolderWaits
    <2>4. conn[k].down = <<>>
        BY <1>7, <2>1, <2>2, <2>3 DEF InStepOn
    <2>5. conn'[k].down = response
        BY <1>5, <1>6, <2>1, <2>4, ConcatEmptySeq
    <2>6. \A j \in OnConn(k)' : \E d \in Caller : Waits(d, k)' /\ call'[d].id = j
        BY <1>3, <2>1 DEF InStepOn
    <2>7. Waits(c, k)' /\ call'[c].id = id
        BY <1>3, <2>2
    <2>8. Answer(call[c].id)' = response
        BY <1>9, <2>7 DEF Answer
    <2> QED
        BY <1>8, <2>1, <2>5, <2>6, <2>7, <2>8
<1>11. ASSUME NEW l \in Conn, l # k
       PROVE  InStepOn(l)'
    <2>1. conn'[l] = conn[l] /\ InStepOn(l)
        BY <1>5, <1>11 DEF Matched, InStep
    <2> QED
        BY <1>1, <1>2, <1>3, <2>1, InStepKept
<1>12. \A l \in Conn : ~conn'[l].split => ~conn[l].split
    BY <1>5
<1>13. Answered'
    BY <1>2, <1>12, AnsweredKept DEF Matched, ClientKept
<1> QED
    BY <1>10, <1>11, <1>13 DEF Matched, InStep

\* The worker answers a call that is waited for, if its connection is still open.
LEMMA WorkerRunsMatched ==
    ASSUME Typed, CallsIssued, OneHolder, FdsOpen, TasksIssued, Followed, Matched,
           NEW w \in Worker, WorkerRuns(w)
    PROVE  Matched'
<1>1. PICK task \in Task : task = worker[w].task
    BY WorkerRunsEffect
<1>2. PICK k \in Conn, id \in Id : k = task.conn /\ id = task.id
    BY DEF Task
<1>3. /\ ClientKept /\ m_tasks' = m_tasks /\ worker[w].pc = "running" /\ worker'[w].pc # "running"
      /\ \A v \in Worker \ {w} : worker'[v] = worker[v]
      /\ id \in 1 .. Len(issued)
    BY <1>1, <1>2, WorkerRunsEffect
<1>4. PICK up : up = conn[k].up
    OBVIOUS
<1>5. PICK reply \in Reply[issued[id].method] : Answers(k, id, reply, up)
    BY <1>1, <1>2, <1>4, WorkerRunsEffect
<1>6. id \in OnConn(k)
    <2>1. id \in Id /\ w \in InWorker(id)
        BY <1>1, <1>2, <1>3, IssuedCall DEF InWorker
    <2> QED
        BY <1>1, <1>2, <2>1 DEF OnConn
<1>7. \A l \in Conn : conn'[l].up = conn[l].up
    BY <1>4, <1>5 DEF Answers
<1>8. \A l \in Conn : OnConn(l)' \subseteq OnConn(l)
    BY <1>3, <1>7, OnConnKept
<1> QED
    BY <1>3, <1>5, <1>6, <1>8, AnswersMatched

\* Taking a task answers nothing.
LEMMA WorkerTakesMatched ==
    ASSUME Typed, CallsIssued, Matched, NEW w \in Worker, WorkerTakes(w)
    PROVE  Matched'
<1>1. /\ ClientKept /\ UNCHANGED <<conn, ran>> /\ worker[w].pc # "running"
      /\ \A v \in Worker \ {w} : worker'[v] = worker[v]
      /\ \/ worker'[w].pc # "running" /\ m_tasks' = m_tasks
         \/ /\ m_tasks # <<>> /\ worker'[w].pc = "running"
            /\ worker'[w].task = m_tasks[1] /\ m_tasks' = Tail(m_tasks)
    BY WorkerTakesEffect
<1>2. ASSUME NEW l \in Conn
      PROVE  OnConn(l)' \subseteq OnConn(l)
    <2>1. CASE worker'[w].pc # "running" /\ m_tasks' = m_tasks
        BY <1>1, <2>1, OnConnKept
    <2>2. CASE /\ m_tasks # <<>> /\ worker'[w].pc = "running"
               /\ worker'[w].task = m_tasks[1] /\ m_tasks' = Tail(m_tasks)
        <3>1. /\ DOMAIN m_tasks = 1 .. Len(m_tasks) /\ Len(m_tasks) \in Nat /\ Len(m_tasks) >= 1
              /\ DOMAIN m_tasks' = 1 .. Len(m_tasks) - 1
              /\ \A i \in DOMAIN m_tasks' : i + 1 \in DOMAIN m_tasks /\ m_tasks'[i] = m_tasks[i + 1]
            BY <2>2, QueueTailed DEF Typed
        <3>2. ASSUME NEW j \in OnConn(l)'
              PROVE  j \in OnConn(l)
            <4>1. j \in Id
                BY DEF OnConn
            <4>2. CASE PrefixesOf(l, j)' # {}
                BY <1>1, <4>1, <4>2 DEF OnConn, PrefixesOf
            <4>3. CASE \E i \in InQueue(j)' : m_tasks'[i].conn = l
                <5>1. PICK i \in DOMAIN m_tasks' : m_tasks'[i].id = j /\ m_tasks'[i].conn = l
                    BY <4>3 DEF InQueue
                <5>2. i + 1 \in InQueue(j) /\ m_tasks[i + 1].conn = l
                    BY <3>1, <5>1 DEF InQueue
                <5> QED
                    BY <4>1, <5>2 DEF OnConn
            <4>4. CASE \E v \in InWorker(j)' : worker'[v].task.conn = l
                <5>1. PICK v \in Worker : /\ worker'[v].pc = "running" /\ worker'[v].task.id = j
                                          /\ worker'[v].task.conn = l
                    BY <4>4 DEF InWorker
                <5>2. CASE v = w
                    <6>1. 1 \in InQueue(j) /\ m_tasks[1].conn = l
                        BY <2>2, <3>1, <5>1, <5>2 DEF InQueue
                    <6> QED
                        BY <4>1, <6>1 DEF OnConn
                <5>3. CASE v # w
                    <6>1. v \in InWorker(j) /\ worker[v].task.conn = l
                        BY <1>1, <5>1, <5>3 DEF InWorker
                    <6> QED
                        BY <4>1, <6>1 DEF OnConn
                <5> QED
                    BY <5>2, <5>3
            <4> QED
                BY <4>2, <4>3, <4>4 DEF OnConn
        <3> QED
            BY <3>2
    <2> QED
        BY <1>1, <2>1, <2>2
<1> QED
    BY <1>1, <1>2, ServerMatched

\* An IO thread answers the call in front, or leaves it to the pool.
LEMMA OnMessageMatched ==
    ASSUME Typed, CallsIssued, OneHolder, FdsOpen, RequestsWhole, Followed, Matched,
           NEW k \in Conn, OnMessage(k)
    PROVE  Matched'
<1>1. ClientKept /\ worker' = worker /\ conn[k].up # <<>>
    BY OnMessageEffect
<1>2. PICK id : id = conn[k].up[1].id
    OBVIOUS
<1>3. PICK n, rest :
         /\ n \in 1 .. Len(conn[k].up) /\ rest = SubSeq(conn[k].up, n + 1, Len(conn[k].up))
         /\ \/ /\ Keeps(k, rest) /\ UNCHANGED <<ran, m_tasks, notices>>
            \/ /\ conn[k].up[1].half = 0 /\ id \in 1 .. Len(issued)
               /\ UNCHANGED <<m_tasks, notices>>
               /\ \E reply \in Reply[issued[id].method] : Answers(k, id, reply, rest)
            \/ /\ conn[k].up[1].half = 0 /\ id \in 1 .. Len(issued)
               /\ \E whole \in BOOLEAN : m_tasks' = Append(m_tasks, TaskOf(k, id, whole))
               /\ notices' = notices + 1 /\ Keeps(k, rest) /\ UNCHANGED ran
    BY <1>2, OnMessageEffect
<1>4. /\ n \in 1 .. Len(conn[k].up) /\ conn'[k].up = SubSeq(conn[k].up, n + 1, Len(conn[k].up))
      /\ \A l \in Conn \ {k} : conn'[l] = conn[l]
    BY <1>3 DEF Keeps, Answers
<1>5. \A j : \A l \in Conn : PrefixesOf(l, j)' # {} => PrefixesOf(l, j) # {}
    BY <1>4, BytesTaken
<1>6. \A j : InWorker(j)' = InWorker(j)
    BY <1>1 DEF InWorker
<1>7. ASSUME conn[k].up[1].half = 0, id \in 1 .. Len(issued)
      PROVE  id \in OnConn(k)
    <2>1. PICK up \in Seq(Octet) : up = conn[k].up
        BY DEF Typed, ConnType
    <2>2. Len(up) \in Nat /\ Len(up) # 0 /\ DOMAIN up = 1 .. Len(up)
        BY <1>1, <2>1, LenProperties, EmptySeq
    <2>3. 1 \in DOMAIN up
        BY <2>2
    <2>4. 1 \in PrefixesOf(k, id)
        BY <1>2, <1>7, <2>1, <2>3 DEF PrefixesOf
    <2>5. id \in Id
        BY <1>7, IssuedCall
    <2> QED
        BY <2>4, <2>5 DEF OnConn
<1>8. ASSUME m_tasks' = m_tasks, NEW l \in Conn
      PROVE  OnConn(l)' \subseteq OnConn(l)
    <2>1. \A j : InQueue(j)' = InQueue(j)
        BY <1>8 DEF InQueue
    <2> QED
        BY <1>1, <1>5, <1>6, <1>8, <2>1 DEF OnConn
<1>9. CASE Keeps(k, rest) /\ UNCHANGED <<ran, m_tasks, notices>>
    <2>1. \A l \in Conn : /\ conn'[l].client = conn[l].client
                          /\ conn'[l].split = conn[l].split /\ conn'[l].down = conn[l].down
        BY <1>9 DEF Keeps
    <2> QED
        BY <1>1, <1>8, <1>9, <2>1, ServerMatched
<1>10. CASE /\ conn[k].up[1].half = 0 /\ id \in 1 .. Len(issued)
            /\ UNCHANGED <<m_tasks, notices>>
            /\ \E reply \in Reply[issued[id].method] : Answers(k, id, reply, rest)
    BY <1>1, <1>7, <1>8, <1>10, AnswersMatched
<1>11. CASE /\ conn[k].up[1].half = 0 /\ id \in 1 .. Len(issued)
            /\ \E whole \in BOOLEAN : m_tasks' = Append(m_tasks, TaskOf(k, id, whole))
            /\ Keeps(k, rest) /\ UNCHANGED ran
    <2>1. \A l \in Conn : /\ conn'[l].client = conn[l].client
                          /\ conn'[l].split = conn[l].split /\ conn'[l].down = conn[l].down
        BY <1>11 DEF Keeps
    <2>0. PICK whole \in BOOLEAN : m_tasks' = Append(m_tasks, TaskOf(k, id, whole))
        BY <1>11
    <2>2. PICK task : task = TaskOf(k, id, whole)
        OBVIOUS
    <2>3. task.conn = k /\ task.id = id
        BY <2>2 DEF TaskOf
    <2>4. \A i \in DOMAIN m_tasks' : \/ m_tasks'[i] = task
                                     \/ i \in DOMAIN m_tasks /\ m_tasks'[i] = m_tasks[i]
        <3>1. PICK s \in Seq(Task) : s = m_tasks
            BY DEF Typed
        <3>2. \A i \in DOMAIN Append(s, task) : \/ Append(s, task)[i] = task
                                                \/ i \in DOMAIN s /\ Append(s, task)[i] = s[i]
            OBVIOUS
        <3> QED
            BY <2>0, <2>2, <3>1, <3>2
    <2>5. ASSUME NEW l \in Conn, NEW j \in OnConn(l)'
          PROVE  j \in OnConn(l)
        <3>1. j \in Id
            BY DEF OnConn
        <3>2. CASE PrefixesOf(l, j)' # {}
            BY <1>5, <3>1, <3>2 DEF OnConn
        <3>3. CASE \E i \in InQueue(j)' : m_tasks'[i].conn = l
            <4>1. PICK i \in DOMAIN m_tasks' : m_tasks'[i].id = j /\ m_tasks'[i].conn = l
                BY <3>3 DEF InQueue
            <4>2. CASE m_tasks'[i] = task
                BY <1>7, <1>11, <2>3, <4>1, <4>2
            <4>3. CASE i \in DOMAIN m_tasks /\ m_tasks'[i] = m_tasks[i]
                BY <3>1, <4>1, <4>3 DEF OnConn, InQueue
            <4> QED
                BY <2>4, <4>1, <4>2, <4>3
        <3>4. CASE \E w \in InWorker(j)' : worker'[w].task.conn = l
            BY <1>1, <1>6, <3>1, <3>4 DEF OnConn
        <3> QED
            BY <3>2, <3>3, <3>4 DEF OnConn
    <2>6. \A l \in Conn : OnConn(l)' \subseteq OnConn(l)
        BY <2>5
    <2> QED
        BY <1>1, <1>11, <2>1, <2>6, ServerMatched
<1> QED
    BY <1>3, <1>9, <1>10, <1>11

-----------------------------------------------------------------------------
(* The invariant.                                                          *)

\* Before the first call.
LEMMA InitRpc ==
    ASSUME Init
    PROVE  RpcInv
<1>1. /\ call = [c \in Caller |-> Idle]
      /\ m_tasks = <<>> /\ notices = 0 /\ worker = [w \in Worker |-> Asleep] /\ alive = TRUE
      /\ issued = <<>> /\ ran = [id \in Id |-> <<>>]
    BY DEF Init
<1>2. PICK now \in SUBSET Channel :
         /\ m_clientFd = [ch \in Channel |-> IF ch \in now THEN <<ch, 0>> ELSE None]
         /\ opened = [ch \in Channel |-> IF ch \in now THEN 1 ELSE 0]
         /\ conn = [k \in Conn |-> IF k[1] \in now /\ k[2] = 0
                                   THEN [Closed EXCEPT !.client = TRUE, !.server = TRUE] ELSE Closed]
    BY DEF Init
<1>3. \A k \in Conn : /\ conn[k] \in ConnType /\ conn[k].up = <<>> /\ conn[k].down = <<>>
                      /\ conn[k].client <=> k[1] \in now /\ k[2] = 0
                      /\ ~(k[1] \in now /\ k[2] = 0) => conn[k] = Closed
    <2>1. PICK fresh : fresh = [Closed EXCEPT !.client = TRUE, !.server = TRUE]
        OBVIOUS
    <2>2. <<>> \in Seq(Octet)
        OBVIOUS
    <2>3. fresh \in ConnType /\ fresh.up = <<>> /\ fresh.down = <<>> /\ fresh.client
        BY <2>1, <2>2 DEF Closed, ConnType
    <2>4. Closed \in ConnType /\ Closed.up = <<>> /\ Closed.down = <<>> /\ ~Closed.client
        BY <2>2 DEF Closed, ConnType
    <2>5. \A k \in Conn : conn[k] = IF k[1] \in now /\ k[2] = 0 THEN fresh ELSE Closed
        BY <1>2, <2>1
    <2> QED
        BY <2>3, <2>4, <2>5
<1>4. \A ch \in Channel : /\ <<ch, 0>> \in Conn /\ <<ch, 0>> # None
                          /\ ch \in now => m_clientFd[ch] = <<ch, 0>> /\ opened[ch] = 1
                          /\ ch \notin now => m_clientFd[ch] = None /\ opened[ch] = 0
    BY <1>2, RpcAssumption DEF Conn
<1>5. \A k \in Conn : k[1] \in Channel /\ k[2] \in Nat /\ k = <<k[1], k[2]>>
    BY RpcAssumption DEF Conn
<1>6. Idle \in CallType /\ Idle.pc = "returned" /\ Idle.id = 0
    <2>1. MaxCalls \in Nat
        BY RpcAssumption
    <2>2. None \in Response
        BY DEF Response
    <2> QED
        BY <2>1, <2>2 DEF Idle, CallType
<1>7. Typed
    <2>1. call \in [Caller -> CallType]
        BY <1>1, <1>6
    <2>2. m_clientFd \in [Channel -> Conn \cup {None}] /\ opened \in [Channel -> Nat]
        BY <1>2, <1>4
    <2>3. conn \in [Conn -> ConnType]
        BY <1>2, <1>3
    <2>4. /\ m_tasks \in Seq(Task) /\ notices \in Nat /\ worker \in [Worker -> WorkerType] /\ alive \in BOOLEAN
          /\ ran \in [Id -> Seq(Ran)]
        BY <1>1 DEF WorkerType
    <2>5. issued \in Seq(Issue) /\ Len(issued) <= MaxCalls
        BY <1>1, RpcAssumption
    <2> QED
        BY <2>1, <2>2, <2>3, <2>4, <2>5 DEF Typed
<1>8. \A c \in Caller : call[c].pc = "returned" /\ call[c].id = 0
    BY <1>1, <1>6
<1>9. CallsIssued /\ OneHolder /\ Unsent /\ Answered
    <2>1. 0 \in 0 .. Len(issued)
        BY <1>1
    <2> QED
        BY <1>8, <2>1 DEF CallsIssued, OneHolder, Holds, Unsent, Answered
<1>10. FdsOpen
    <2>1. ASSUME NEW ch \in Channel, m_clientFd[ch] # None
          PROVE  m_clientFd[ch][1] = ch /\ m_clientFd[ch][2] < opened[ch] /\ conn[m_clientFd[ch]].client
        <3>1. ch \in now
            BY <1>4, <2>1
        <3>2. PICK k \in Conn : k = <<ch, 0>>
            BY <1>4
        <3>3. k[1] = ch /\ k[2] = 0
            BY <3>2
        <3>4. m_clientFd[ch] = k /\ opened[ch] = 1
            BY <1>4, <3>1, <3>2
        <3>5. conn[k].client
            BY <1>3, <3>1, <3>3
        <3> QED
            BY <3>3, <3>4, <3>5
    <2>2. \A k \in Conn : conn[k].client => m_clientFd[k[1]] = k
        BY <1>3, <1>4, <1>5
    <2>3. ASSUME NEW k \in Conn, k[2] >= opened[k[1]]
          PROVE  conn[k] = Closed
        <3>1. k[1] \in now => opened[k[1]] = 1
            BY <1>4, <1>5
        <3>2. ~(k[1] \in now /\ k[2] = 0)
            BY <2>3, <3>1
        <3> QED
            BY <1>3, <3>2
    <2> QED
        BY <1>8, <2>1, <2>2, <2>3 DEF FdsOpen
<1>11. ConnectsSeldom
    <2>1. Ended = {}
        BY <1>1 DEF Ended
    <2>2. Cardinality(Ended) = 0
        BY <2>1, FS_EmptySet
    <2>3. ASSUME NEW ch \in Channel
          PROVE  opened[ch] <= 0 + (IF m_clientFd[ch] # None THEN 1 ELSE 0)
        <3>1. CASE ch \in now
            <4>1. opened[ch] = 1 /\ m_clientFd[ch] # None
                BY <1>4, <3>1
            <4> QED
                BY <4>1
        <3>2. CASE ch \notin now
            <4>1. opened[ch] = 0 /\ m_clientFd[ch] = None
                BY <1>4, <3>2
            <4> QED
                BY <4>1
        <3> QED
            BY <3>1, <3>2
    <2> QED
        BY <2>2, <2>3 DEF ConnectsSeldom
<1>12. RequestsWhole
    BY <1>3, WholeEmpty DEF RequestsWhole
<1>13. \A w \in Worker : worker[w].pc # "running"
    BY <1>1 DEF Asleep
<1>14. TasksIssued
    BY <1>1, <1>13 DEF TasksIssued, RunningTasks
<1>15. \A id : \A k \in Conn : PrefixesOf(k, id) = {}
    BY <1>3 DEF PrefixesOf
<1>16. ASSUME NEW id \in Id
       PROVE  Trace(id) = {} /\ InQueue(id) = {} /\ InWorker(id) = {}
    <2>1. InBytes(id) = {}
        BY <1>15 DEF InBytes
    <2>2. InQueue(id) = {} /\ InWorker(id) = {} /\ InRan(id) = {}
        BY <1>1, <1>13, <1>16 DEF InQueue, InWorker, InRan
    <2> QED
        BY <2>1, <2>2, TraceNow
<1>17. OnePlace
    BY <1>16 DEF OnePlace, Single
<1>18. NoticesOfTasks
    <2>1. Left = {}
        BY <1>16 DEF Left
    <2>2. Cardinality(Left) = 0
        BY <2>1, FS_EmptySet
    <2> QED
        BY <1>1, <2>2 DEF NoticesOfTasks
<1>19. InStep
    <2>1. \A k \in Conn : OnConn(k) = {}
        BY <1>15, <1>16 DEF OnConn
    <2> QED
        BY <1>3, <2>1 DEF InStep, InStepOn
<1> QED
    BY <1>7, <1>9, <1>10, <1>11, <1>12, <1>14, <1>17, <1>18, <1>19 DEF RpcInv

\* The parts that a step of a caller leaves to the server.
LEMMA CallerKeeps ==
    ASSUME RpcInv, Typed', IssuedStay, ServerKept, ran' = ran,
           \A ch \in Channel : opened'[ch] >= opened[ch],
           CallsIssued' /\ OneHolder' /\ FdsOpen' /\ ConnectsSeldom', RequestsWhole', Followed', Matched'
    PROVE  RpcInv'
<1>1. TasksIssued'
    BY TasksNext DEF RpcInv, ServerKept
<1> QED
    BY <1>1 DEF RpcInv, Followed, Matched

\* A call that is not yet sent is nowhere.
LEMMA StillUnsent ==
    ASSUME Typed, CallsIssued, Unsent, NEW c \in Caller, call[c].pc \in {"called", "locked"}
    PROVE  call[c].id \in Id /\ Trace(call[c].id) = {}
<1>1. call[c].id \in 1 .. Len(issued)
    BY OpenFd
<1> QED
    BY <1>1, IssuedCall DEF Unsent

\* A step of a caller that moves no bytes.
LEMMA CallerFollowed ==
    ASSUME Typed, Typed', Followed, ServerKept, ran' = ran,
           \A k \in Conn : conn'[k].up = conn[k].up,
           \A c \in Caller : call'[c].pc \in {"called", "locked"} =>
              call'[c].id \in Id /\ Trace(call'[c].id) = {}
    PROVE  Followed'
<1>1. notices' = notices /\ notices \in Nat
    BY DEF ServerKept, Typed
<1>2. UNCHANGED <<m_tasks, ran>> /\ notices' <= notices
    BY <1>1 DEF ServerKept
<1>3. \A w \in Worker : worker'[w].pc = "running" \/ worker[w].pc = "running"
                         => worker'[w] = worker[w]
    BY DEF ServerKept
<1> QED
    BY <1>2, <1>3, FollowedKept

\* Each action of a caller keeps the invariant: a call,
LEMMA CallsRpc ==
    ASSUME RpcInv, NEW c \in Caller, Calls(c)
    PROVE  RpcInv'
<1>0. /\ Typed /\ CallsIssued /\ OneHolder /\ FdsOpen /\ ConnectsSeldom /\ RequestsWhole
      /\ TasksIssued /\ Unsent /\ Followed /\ Matched
    BY DEF RpcInv, Followed, Matched
<1>1. /\ Typed' /\ ConnKept /\ ServerKept /\ ran' = ran /\ IssuedStay
      /\ Len(issued) < MaxCalls /\ call'[c].id = Len(issued) + 1
      /\ \A d \in Caller \ {c} : call'[d] = call[d]
    BY <1>0, CallsEffect, IssuedMore
<1>2. \A ch \in Channel : opened'[ch] >= opened[ch]
    BY <1>0, <1>1 DEF ConnKept, Typed
<1>3. RequestsWhole'
    BY <1>0, <1>1, RequestsKept DEF ConnKept
<1>4. call'[c].id \in Id /\ call'[c].id > Len(issued)
    <2>1. Len(issued) \in Nat /\ MaxCalls \in Nat
        BY <1>0, RpcAssumption, LenProperties DEF Typed
    <2> QED
        BY <1>1, <2>1 DEF Id
<1>5. Trace(call'[c].id) = {}
    <2>1. PICK id : id = call'[c].id
        OBVIOUS
    <2>2. Trace(id) = {}
        BY <1>0, <1>4, <2>1, FreshNowhere
    <2> QED
        BY <2>1, <2>2
<1>6. ASSUME NEW d \in Caller, call'[d].pc \in {"called", "locked"}
      PROVE  call'[d].id \in Id /\ Trace(call'[d].id) = {}
    <2>1. CASE d = c
        BY <1>4, <1>5, <2>1
    <2>2. CASE d # c
        BY <1>0, <1>1, <1>6, <2>2, StillUnsent
    <2> QED
        BY <2>1, <2>2
<1>7. Followed'
    BY <1>0, <1>1, <1>6, CallerFollowed DEF ConnKept
<1> QED
    BY <1>0, <1>1, <1>2, <1>3, <1>7, CallsKeepsFds, CallsMatched, CallerKeeps

\* the lock of the channel,
LEMMA LocksRpc ==
    ASSUME RpcInv, NEW c \in Caller, Locks(c)
    PROVE  RpcInv'
<1>0. /\ Typed /\ CallsIssued /\ OneHolder /\ FdsOpen /\ ConnectsSeldom /\ RequestsWhole
      /\ Unsent /\ Followed /\ Matched
    BY DEF RpcInv, Followed, Matched
<1>1. /\ Typed' /\ ConnKept /\ ServerKept /\ ran' = ran /\ IssuedStay
      /\ MovesTo(c, "locked") /\ call[c].pc = "called"
    BY <1>0, LocksEffect, IssuedKept DEF HistoryKept
<1>2. \A ch \in Channel : opened'[ch] >= opened[ch]
    BY <1>0, <1>1 DEF ConnKept, Typed
<1>3. RequestsWhole'
    BY <1>0, <1>1, RequestsKept DEF ConnKept
<1>4. ASSUME NEW d \in Caller, call'[d].pc \in {"called", "locked"}
      PROVE  call'[d].id \in Id /\ Trace(call'[d].id) = {}
    <2>1. call[d].pc \in {"called", "locked"} /\ call'[d].id = call[d].id
        BY <1>1, <1>4 DEF MovesTo
    <2> QED
        BY <1>0, <2>1, StillUnsent
<1>5. Followed'
    BY <1>0, <1>1, <1>4, CallerFollowed DEF ConnKept
<1> QED
    BY <1>0, <1>1, <1>2, <1>3, <1>5, LocksKeepsFds, LocksMatched, CallerKeeps

\* the connect,
LEMMA ConnectsRpc ==
    ASSUME RpcInv, NEW c \in Caller, Connects(c)
    PROVE  RpcInv'
<1>0. /\ Typed /\ CallsIssued /\ OneHolder /\ FdsOpen /\ ConnectsSeldom /\ RequestsWhole
      /\ TasksIssued /\ Unsent /\ Followed /\ Matched
    BY DEF RpcInv, Followed, Matched
<1>1. opened[call[c].ch] <= MaxCalls
    BY <1>0, RoomToConnect DEF Connects
<1>2. /\ Typed' /\ ServerKept /\ HistoryKept /\ call[c].pc = "locked"
      /\ \A d \in Caller : call'[d].pc # "returned" => call'[d] = call[d]
    BY <1>0, <1>1, ConnectsEffect DEF Fails, MovesTo
<1>3. ASSUME Fails(c) /\ ConnKept
      PROVE  /\ \A k \in Conn : conn'[k].up = conn[k].up
             /\ \A ch \in Channel : opened'[ch] >= opened[ch]
             /\ RequestsWhole'
    <2>1. \A k \in Conn : conn'[k] = conn[k]
        BY <1>3 DEF ConnKept
    <2>2. \A ch \in Channel : opened'[ch] >= opened[ch]
        BY <1>0, <1>3 DEF ConnKept, Typed
    <2>3. RequestsWhole'
        <3>1. IssuedStay
            BY <1>0, <1>2, IssuedKept DEF HistoryKept
        <3>2. \A k \in Conn : conn'[k].up = conn[k].up /\ (conn'[k].client => conn[k].client)
            BY <2>1
        <3> QED
            BY <1>0, <3>1, <3>2, RequestsKept
    <2> QED
        BY <2>1, <2>2, <2>3
<1>4. /\ \A k \in Conn : conn'[k].up = conn[k].up
      /\ \A ch \in Channel : opened'[ch] >= opened[ch]
      /\ RequestsWhole'
    <2>1. CASE ~(Fails(c) /\ ConnKept)
        <3>1. PICK ch, new : ch = call[c].ch /\ new = <<ch, opened[ch]>>
            OBVIOUS
        <3>2. /\ new \in Conn /\ opened'[ch] = opened[ch] + 1 /\ conn'[new].up = conn[new].up
              /\ \A l \in Conn \ {new} : conn'[l] = conn[l]
              /\ \A h \in Channel \ {ch} : opened'[h] = opened[h]
            BY <1>0, <1>1, <2>1, <3>1, ConnectsEffect
        <3>3. ch \in Channel /\ opened \in [Channel -> Nat]
            BY <1>0, <1>2, <3>1, OpenFd DEF Typed
        <3>4. ASSUME NEW h \in Channel
              PROVE  opened'[h] >= opened[h]
            <4>1. opened[h] \in Nat /\ opened[ch] \in Nat
                BY <3>3
            <4> QED
                BY <3>2, <4>1
        <3>5. conn[new].up = <<>>
            <4>1. new[2] >= opened[new[1]]
                <5>1. new[1] = ch /\ new[2] = opened[ch] /\ opened[ch] \in Nat
                    BY <3>1, <3>3
                <5> QED
                    BY <5>1
            <4>2. conn[new] = Closed
                BY <1>0, <3>2, <4>1 DEF FdsOpen
            <4> QED
                BY <4>2 DEF Closed
        <3>6. RequestsWhole'
            <4>1. IssuedStay
                BY <1>0, <1>2, IssuedKept DEF HistoryKept
            <4>2. \A k \in Conn : \/ conn'[k].up = <<>>
                                  \/ conn'[k].up = conn[k].up /\ (conn'[k].client => conn[k].client)
                BY <3>2, <3>5
            <4> QED
                BY <1>0, <4>1, <4>2, RequestsKept
        <3> QED
            BY <3>2, <3>4, <3>6
    <2> QED
        BY <1>3, <2>1
<1>5. ASSUME NEW d \in Caller, call'[d].pc \in {"called", "locked"}
      PROVE  call'[d].id \in Id /\ Trace(call'[d].id) = {}
    BY <1>0, <1>2, <1>5, StillUnsent
<1>6. Followed'
    BY <1>0, <1>2, <1>4, <1>5, CallerFollowed DEF HistoryKept
<1>7. IssuedStay /\ ran' = ran
    BY <1>0, <1>2, IssuedKept DEF HistoryKept
<1> QED
    BY <1>0, <1>2, <1>4, <1>6, <1>7, ConnectsKeepsFds, ConnectsMatched, CallerKeeps

\* the send loop,
LEMMA SendsRpc ==
    ASSUME RpcInv, NEW c \in Caller, Sends(c)
    PROVE  RpcInv'
<1>0. /\ Typed /\ CallsIssued /\ OneHolder /\ FdsOpen /\ ConnectsSeldom /\ RequestsWhole
      /\ Followed /\ Matched
    BY DEF RpcInv, Followed, Matched
<1>1. Typed' /\ opened' = opened /\ ServerKept /\ HistoryKept
    BY <1>0, SendsEffect
<1>2. IssuedStay /\ ran' = ran
    BY <1>0, <1>1, IssuedKept DEF HistoryKept
<1>3. \A ch \in Channel : opened'[ch] >= opened[ch]
    BY <1>0, <1>1 DEF Typed
<1> QED
    BY <1>0, <1>1, <1>2, <1>3, SendsKeepsFds, SendsKeepsRequests, SendsFollowed, SendsMatched, CallerKeeps

\* the recv that gets bytes,
LEMMA ReceivesRpc ==
    ASSUME RpcInv, NEW c \in Caller, Receives(c)
    PROVE  RpcInv'
<1>0. /\ Typed /\ CallsIssued /\ OneHolder /\ FdsOpen /\ ConnectsSeldom /\ RequestsWhole
      /\ TasksIssued /\ Unsent /\ Followed /\ Matched
    BY DEF RpcInv, Followed, Matched
<1>1. /\ Typed' /\ opened' = opened /\ ServerKept /\ HistoryKept
      /\ MovesTo(c, "returned")
      /\ \A k \in Conn : conn'[k].up = conn[k].up /\ conn'[k].client = conn[k].client
    BY <1>0, ReceivesEffect DEF ClientReads
<1>2. IssuedStay /\ ran' = ran
    BY <1>0, <1>1, IssuedKept DEF HistoryKept
<1>3. \A ch \in Channel : opened'[ch] >= opened[ch]
    BY <1>0, <1>1 DEF Typed
<1>4. RequestsWhole'
    BY <1>0, <1>1, <1>2, RequestsKept
<1>5. ASSUME NEW d \in Caller, call'[d].pc \in {"called", "locked"}
      PROVE  call'[d].id \in Id /\ Trace(call'[d].id) = {}
    <2>1. d # c /\ call'[d] = call[d]
        BY <1>1, <1>5 DEF MovesTo
    <2> QED
        BY <1>0, <1>5, <2>1, StillUnsent
<1>6. Followed'
    BY <1>0, <1>1, <1>2, <1>5, CallerFollowed
<1> QED
    BY <1>0, <1>1, <1>2, <1>3, <1>4, <1>6, ReceivesKeepsFds, ReceivesMatched, CallerKeeps

\* and the recv that fails.
LEMMA ReceiveFailsRpc ==
    ASSUME RpcInv, NEW c \in Caller, ReceiveFails(c)
    PROVE  RpcInv'
<1>0. /\ Typed /\ CallsIssued /\ OneHolder /\ FdsOpen /\ ConnectsSeldom /\ RequestsWhole
      /\ Unsent /\ Followed /\ Matched
    BY DEF RpcInv, Followed, Matched
<1>1. /\ Typed' /\ opened' = opened /\ ServerKept /\ HistoryKept
      /\ MovesTo(c, "returned")
      /\ \A k \in Conn : conn'[k].up = conn[k].up /\ (conn'[k].client => conn[k].client)
    BY <1>0, ReceiveFailsEffect DEF ClientEnd, Closes, Fails
<1>2. IssuedStay /\ ran' = ran
    BY <1>0, <1>1, IssuedKept DEF HistoryKept
<1>3. \A ch \in Channel : opened'[ch] >= opened[ch]
    BY <1>0, <1>1 DEF Typed
<1>4. RequestsWhole'
    BY <1>0, <1>1, <1>2, RequestsKept
<1>5. ASSUME NEW d \in Caller, call'[d].pc \in {"called", "locked"}
      PROVE  call'[d].id \in Id /\ Trace(call'[d].id) = {}
    <2>1. d # c /\ call'[d] = call[d]
        BY <1>1, <1>5 DEF MovesTo
    <2> QED
        BY <1>0, <1>5, <2>1, StillUnsent
<1>6. Followed'
    BY <1>0, <1>1, <1>2, <1>5, CallerFollowed
<1> QED
    BY <1>0, <1>1, <1>2, <1>3, <1>4, <1>6, ReceiveFailsKeepsFds, ReceiveFailsMatched, CallerKeeps

\* The parts that the server leaves to its clients.
LEMMA ServerKeeps ==
    ASSUME RpcInv, Typed', ClientKept, \A k \in Conn : conn'[k].client = conn[k].client,
           \A k \in Conn : k[2] >= opened[k[1]] => conn'[k] = conn[k],
           RequestsWhole', TasksIssued', Followed', Matched'
    PROVE  RpcInv'
<1>1. CallsIssued' /\ OneHolder' /\ FdsOpen' /\ ConnectsSeldom'
    BY ServerKeepsFds DEF RpcInv
<1> QED
    BY <1>1 DEF RpcInv, Followed, Matched

\* Tasks and executions in a step that starts none.
LEMMA TasksKept ==
    ASSUME RpcInv, Typed', ClientKept, ran' = ran, m_tasks' = m_tasks \/ m_tasks' = <<>>,
           \A w \in Worker : worker'[w].pc = "running" =>
              worker[w].pc = "running" /\ worker'[w].task = worker[w].task
    PROVE  TasksIssued'
<1>1. Typed /\ TasksIssued /\ IssuedStay
    BY IssuedKept DEF RpcInv, ClientKept
<1>2. \A ch \in Channel : opened'[ch] >= opened[ch]
    BY <1>1 DEF ClientKept, Typed
<1>3. \A i \in DOMAIN m_tasks' : \E j \in DOMAIN m_tasks : m_tasks'[i] = m_tasks[j]
    OBVIOUS
<1> QED
    BY <1>1, <1>2, <1>3, TasksNext

\* A step of the server leaves the calls that are not yet sent nowhere.
LEMMA UnsentStays ==
    ASSUME RpcInv, ClientKept
    PROVE  \A c \in Caller : call'[c].pc \in {"called", "locked"} =>
              call'[c].id \in Id /\ Trace(call'[c].id) = {}
BY StillUnsent DEF RpcInv, ClientKept

\* Each action of the server keeps the invariant: a read,
LEMMA OnMessageRpc ==
    ASSUME RpcInv, NEW k \in Conn, OnMessage(k)
    PROVE  RpcInv'
<1>0. /\ Typed /\ CallsIssued /\ OneHolder /\ FdsOpen /\ RequestsWhole
      /\ TasksIssued /\ Followed /\ Matched
    BY DEF RpcInv, Followed, Matched
<1>1. /\ Typed' /\ ClientKept /\ conn[k].up # <<>>
      /\ \A l \in Conn : conn'[l].client = conn[l].client /\ (l # k => conn'[l] = conn[l])
    BY <1>0, OnMessageEffect DEF Keeps, Answers
<1>2. k[2] < opened[k[1]] /\ k[2] \in Nat /\ opened[k[1]] \in Nat
    BY <1>0, <1>1, BytesOpened, ConnParts DEF Typed
<1>3. \A l \in Conn : l[2] >= opened[l[1]] => conn'[l] = conn[l]
    <2>1. ~(k[2] >= opened[k[1]])
        BY <1>2
    <2> QED
        BY <1>1, <2>1
<1> QED
    BY <1>0, <1>1, <1>3, OnMessageKeepsRequests, OnMessageKeepsTasks, OnMessageFollowed,
       OnMessageMatched, ServerKeeps

\* the end of a connection,
LEMMA OnConnectionRpc ==
    ASSUME RpcInv, NEW k \in Conn, OnConnection(k)
    PROVE  RpcInv'
<1>0. /\ Typed /\ CallsIssued /\ FdsOpen /\ RequestsWhole /\ Followed /\ Matched
    BY DEF RpcInv, Followed, Matched
<1>1. /\ Typed' /\ ClientKept /\ ServerKept /\ HistoryKept
      /\ \A l \in Conn : /\ conn'[l].client = conn[l].client /\ conn'[l].up = conn[l].up
                         /\ l # k => conn'[l] = conn[l]
    BY <1>0, OnConnectionEffect
<1>2. k[2] < opened[k[1]] /\ k[2] \in Nat /\ opened[k[1]] \in Nat
    BY <1>0, BytesOpened, ConnParts DEF OnConnection, Typed
<1>3. \A l \in Conn : l[2] >= opened[l[1]] => conn'[l] = conn[l]
    <2>1. ~(k[2] >= opened[k[1]])
        BY <1>2
    <2> QED
        BY <1>1, <2>1
<1>4. IssuedStay /\ ran' = ran
    BY <1>0, <1>1, IssuedKept DEF HistoryKept
<1>5. RequestsWhole'
    BY <1>0, <1>1, <1>4, RequestsKept
<1>6. TasksIssued'
    BY <1>1, <1>4, TasksKept DEF ServerKept
<1>7. Followed'
    BY <1>0, <1>1, <1>4, UnsentStays, CallerFollowed
<1> QED
    BY <1>0, <1>1, <1>3, <1>5, <1>6, <1>7, OnConnectionMatched, ServerKeeps

\* a notification,
LEMMA NotifiesRpc ==
    ASSUME RpcInv, Notifies
    PROVE  RpcInv'
<1>0. /\ Typed /\ CallsIssued /\ RequestsWhole /\ Followed /\ Matched
    BY DEF RpcInv, Followed, Matched
<1>1. /\ Typed' /\ ClientKept /\ conn' = conn /\ m_tasks' = m_tasks /\ ran' = ran /\ notices' <= notices
      /\ \A w \in Worker : worker'[w].pc = "running" \/ worker[w].pc = "running"
                           => worker'[w] = worker[w]
    BY <1>0, NotifiesEffect
<1>2. RequestsWhole'
    BY <1>0, <1>1, IssuedKept, RequestsKept DEF ClientKept
<1>3. TasksIssued'
    BY <1>1, TasksKept
<1>4. Followed'
    BY <1>0, <1>1, UnsentStays, FollowedKept
<1> QED
    BY <1>0, <1>1, <1>2, <1>3, <1>4, NotifiesMatched, ServerKeeps

\* a worker that takes a task,
LEMMA WorkerTakesRpc ==
    ASSUME RpcInv, NEW w \in Worker, WorkerTakes(w)
    PROVE  RpcInv'
<1>0. /\ Typed /\ CallsIssued /\ RequestsWhole /\ TasksIssued /\ Followed /\ Matched
    BY DEF RpcInv, Followed, Matched
<1>1. Typed' /\ ClientKept /\ conn' = conn
    BY <1>0, WorkerTakesEffect
<1>2. RequestsWhole'
    BY <1>0, <1>1, IssuedKept, RequestsKept DEF ClientKept
<1> QED
    BY <1>0, <1>1, <1>2, WorkerTakesKeepsTasks, WorkerTakesFollowed, WorkerTakesMatched, ServerKeeps

\* one that runs it,
LEMMA WorkerRunsRpc ==
    ASSUME RpcInv, NEW w \in Worker, WorkerRuns(w)
    PROVE  RpcInv'
<1>0. /\ Typed /\ CallsIssued /\ OneHolder /\ FdsOpen /\ RequestsWhole /\ TasksIssued
      /\ Followed /\ Matched
    BY DEF RpcInv, Followed, Matched
<1>1. PICK k \in Conn : k = worker[w].task.conn
    BY <1>0, WorkerRunsEffect DEF Task
<1>2. /\ Typed' /\ ClientKept /\ worker[w].pc = "running"
      /\ \A l \in Conn : /\ conn'[l].client = conn[l].client /\ conn'[l].up = conn[l].up
                         /\ l # k => conn'[l] = conn[l]
    BY <1>0, <1>1, WorkerRunsEffect DEF Answers
<1>3. k[2] < opened[k[1]] /\ k[2] \in Nat /\ opened[k[1]] \in Nat
    <2>1. TaskIssued(worker[w].task)
        BY <1>0, <1>2 DEF TasksIssued, RunningTasks
    <2> QED
        BY <1>0, <1>1, <2>1, ConnParts DEF TaskIssued, Typed
<1>4. \A l \in Conn : l[2] >= opened[l[1]] => conn'[l] = conn[l]
    <2>1. ~(k[2] >= opened[k[1]])
        BY <1>3
    <2> QED
        BY <1>2, <2>1
<1>5. RequestsWhole'
    BY <1>0, <1>2, IssuedKept, RequestsKept DEF ClientKept
<1> QED
    BY <1>0, <1>2, <1>4, <1>5, WorkerRunsKeepsTasks, WorkerRunsFollowed, WorkerRunsMatched, ServerKeeps

\* a crash,
LEMMA CrashRpc ==
    ASSUME RpcInv, Crash
    PROVE  RpcInv'
<1>0. /\ Typed /\ CallsIssued /\ FdsOpen /\ RequestsWhole /\ Followed /\ Matched
    BY DEF RpcInv, Followed, Matched
<1>1. /\ Typed' /\ ClientKept /\ ran' = ran /\ m_tasks' = <<>>
      /\ \A w \in Worker : worker'[w].pc # "running"
      /\ \A k \in Conn : conn'[k].client = conn[k].client /\ conn'[k].up = <<>>
    BY <1>0, CrashEffect
<1>2. ASSUME NEW k \in Conn, k[2] >= opened[k[1]]
      PROVE  conn'[k] = conn[k]
    <2>1. conn[k] = Closed
        BY <1>0, <1>2 DEF FdsOpen
    <2>2. conn'[k] = [conn[k] EXCEPT !.server = FALSE, !.up = <<>>]
        BY DEF Crash
    <2>3. /\ Closed = [f \in DOMAIN Closed |-> Closed[f]]
          /\ Closed["server"] = FALSE /\ Closed["up"] = <<>>
        BY DEF Closed
    <2>4. PICK r : r = Closed
        OBVIOUS
    <2>5. [r EXCEPT !.server = FALSE, !.up = <<>>] = [f \in DOMAIN r |-> r[f]]
        BY <2>3, <2>4
    <2> QED
        BY <2>1, <2>2, <2>3, <2>4, <2>5
<1>3. RequestsWhole'
    BY <1>0, <1>1, IssuedKept, RequestsKept DEF ClientKept
<1>4. TasksIssued'
    BY <1>1, TasksKept
<1> QED
    BY <1>0, <1>1, <1>2, <1>3, <1>4, CrashFollowed, CrashMatched, ServerKeeps

\* and a start.
LEMMA RunRpc ==
    ASSUME RpcInv, Run
    PROVE  RpcInv'
<1>0. /\ Typed /\ CallsIssued /\ RequestsWhole /\ Followed /\ Matched
    BY DEF RpcInv, Followed, Matched
<1>1. Typed' /\ ClientKept /\ UNCHANGED <<conn, m_tasks, notices, worker, ran>>
    BY <1>0, RunEffect
<1>2. RequestsWhole'
    BY <1>0, <1>1, IssuedKept, RequestsKept DEF ClientKept
<1>3. TasksIssued'
    BY <1>1, TasksKept
<1>4. notices' <= notices
    BY <1>0, <1>1 DEF Typed
<1>5. Followed'
    BY <1>0, <1>1, <1>4, UnsentStays, FollowedKept
<1> QED
    BY <1>0, <1>1, <1>2, <1>3, <1>5, RunMatched, ServerKeeps

\* A stuttering step keeps the invariant.
LEMMA UnchangedRpc ==
    ASSUME RpcInv, UNCHANGED vars
    PROVE  RpcInv'
<1>0. /\ Typed /\ CallsIssued /\ RequestsWhole /\ Followed /\ Matched
    BY DEF RpcInv, Followed, Matched
<1>1. ClientKept /\ UNCHANGED <<conn, m_tasks, notices, worker, alive, ran>>
    BY DEF vars, server, ClientKept
<1>2. Typed'
    BY <1>0, <1>1 DEF Typed, ClientKept
<1>3. RequestsWhole'
    BY <1>0, <1>1, IssuedKept, RequestsKept DEF ClientKept
<1>4. TasksIssued'
    BY <1>1, <1>2, TasksKept
<1>5. notices' <= notices
    BY <1>0, <1>1 DEF Typed
<1>6. Followed'
    BY <1>0, <1>1, <1>2, <1>5, UnsentStays, FollowedKept
<1>7. \A k \in Conn : OnConn(k)' \subseteq OnConn(k)
    BY <1>1, OnConnKept
<1>8. Matched'
    BY <1>0, <1>1, <1>7, ServerMatched
<1> QED
    BY <1>1, <1>2, <1>3, <1>4, <1>6, <1>8, ServerKeeps

\* Every step keeps what is known of the calls on their way: where each is, that its bytes
\* are whole where the server reads, and that what a caller reads is the answer to its own
\* call.
THEOREM RpcInvariant == Spec => []RpcInv
<1>1. ASSUME RpcInv, [Next]_vars
      PROVE  RpcInv'
    <2>1. ASSUME NEW c \in Caller, Calls(c) \/ CallerStep(c)
          PROVE  RpcInv'
        BY <1>1, <2>1, CallsRpc, LocksRpc, ConnectsRpc, SendsRpc, ReceivesRpc, ReceiveFailsRpc
           DEF CallerStep
    <2>2. ASSUME NEW k \in Conn, OnMessage(k) \/ OnConnection(k)
          PROVE  RpcInv'
        BY <1>1, <2>2, OnMessageRpc, OnConnectionRpc
    <2>3. CASE Notifies
        BY <1>1, <2>3, NotifiesRpc
    <2>4. ASSUME NEW w \in Worker, WorkerStep(w)
          PROVE  RpcInv'
        BY <1>1, <2>4, WorkerTakesRpc, WorkerRunsRpc DEF WorkerStep
    <2>5. CASE Crash
        BY <1>1, <2>5, CrashRpc
    <2>6. CASE Run
        BY <1>1, <2>6, RunRpc
    <2>7. CASE UNCHANGED vars
        BY <1>1, <2>7, UnchangedRpc
    <2> QED
        BY <1>1, <2>1, <2>2, <2>3, <2>4, <2>5, <2>6, <2>7 DEF Next
<1> QED
    BY <1>1, InitRpc, PTL DEF Spec

\* The variables have their types: every connection that a client has open is the one its
\* channel keeps, a channel opens at most one connection more than there are calls, and
\* the notifications still to come are no more than the calls.
THEOREM TypeCorrect == Spec => []TypeOK
<1>1. ASSUME RpcInv
      PROVE  TypeOK
    <2>0. Typed /\ CallsIssued /\ FdsOpen /\ ConnectsSeldom /\ NoticesOfTasks
        BY <1>1 DEF RpcInv
    <2>1. ASSUME NEW c \in Caller
          PROVE  /\ call[c].pc \in {"called", "locked", "sent", "returned"}
                 /\ call[c].id \in 0 .. Len(issued)
                 /\ call[c].pc = "sent" => Fd(c) # None
        <3>1. call[c] \in CallType
            BY <2>0 DEF Typed
        <3>2. call[c].pc \in {"called", "locked", "sent", "returned"}
            BY <3>1 DEF CallType
        <3> QED
            BY <2>0, <3>2 DEF CallsIssued, FdsOpen
    <2>2. ASSUME NEW ch \in Channel
          PROVE  /\ opened[ch] \in 0 .. MaxCalls + 1
                 /\ m_clientFd[ch] \in {None} \cup {<<ch, n>> : n \in 0 .. opened[ch] - 1}
        <3>1. /\ MaxCalls \in Nat /\ Cardinality(Ended) \in Nat /\ Cardinality(Ended) <= MaxCalls
              /\ opened[ch] \in Nat
            BY <2>0, EndedFinite, RpcAssumption DEF Typed
        <3>2. opened[ch] <= Cardinality(Ended) + 1
            <4>1. opened[ch] <= Cardinality(Ended) + (IF m_clientFd[ch] # None THEN 1 ELSE 0)
                BY <2>0 DEF ConnectsSeldom
            <4> QED
                BY <3>1, <4>1
        <3>3. opened[ch] \in 0 .. MaxCalls + 1
            BY <3>1, <3>2
        <3>4. ASSUME m_clientFd[ch] # None
              PROVE  m_clientFd[ch] \in {<<ch, n>> : n \in 0 .. opened[ch] - 1}
            <4>1. PICK k \in Conn : k = m_clientFd[ch]
                BY <2>0, <3>4 DEF Typed
            <4>2. k[1] = ch /\ k[2] < opened[ch]
                BY <2>0, <3>4, <4>1 DEF FdsOpen
            <4>3. k[2] \in Nat /\ k = <<k[1], k[2]>>
                BY ConnParts DEF Conn
            <4>4. k[2] \in 0 .. opened[ch] - 1
                BY <3>1, <4>2, <4>3
            <4> QED
                BY <4>1, <4>2, <4>3, <4>4
        <3> QED
            BY <3>3, <3>4
    <2>3. \A k \in Conn : conn[k].client => m_clientFd[k[1]] = k
        BY <2>0 DEF FdsOpen
    <2>4. \A i \in DOMAIN m_tasks : m_tasks[i] \in Task
        BY <2>0, ElementOfSeq, LenProperties DEF Typed
    <2>5. notices \in 0 .. MaxCalls /\ alive \in BOOLEAN
        <3>1. MaxCalls \in Nat /\ Left \subseteq 1 .. MaxCalls
            BY RpcAssumption DEF Left, Id
        <3>2. Cardinality(Left) \in Nat /\ Cardinality(Left) <= MaxCalls
            BY <3>1, CountedUpTo
        <3>3. notices \in Nat /\ notices <= Cardinality(Left) /\ alive \in BOOLEAN
            BY <2>0 DEF NoticesOfTasks, Typed
        <3> QED
            BY <3>1, <3>2, <3>3
    <2> QED
        BY <2>1, <2>2, <2>3, <2>4, <2>5 DEF TypeOK
<1> QED
    BY <1>1, RpcInvariant, PTL

\* A handler runs at most once for each call, and with the arguments of that call or - after
\* a read that ends behind the method name - with the defaults, wherever its bytes were cut
\* and whatever was lost with a connection or a crash of the server (RpcProvider::OnMessage).
THEOREM RunsOnceAsSent == Spec => []ExecutesAsSent
<1>1. ASSUME RpcInv
      PROVE  ExecutesAsSent
    <2> SUFFICES ASSUME NEW id \in Id
                 PROVE  /\ Len(ran[id]) <= 1
                        /\ \A i \in DOMAIN ran[id] : ran[id][i].args = ArgsTaken(id, ran[id][i].whole)
        BY DEF ExecutesAsSent, ArgsTaken
    <2>1. Typed /\ TasksIssued /\ Followed
        BY <1>1 DEF RpcInv, Followed
    <2>2. Alone(InBytes(id), InQueue(id), InWorker(id), InRan(id))
        BY <2>1, PlaceNow
    <2>3. \A i, j \in DOMAIN ran[id] : i = j
        BY <2>2 DEF Alone, Single, InRan
    <2>4. PICK s \in Seq(Ran) : s = ran[id]
        BY <2>1 DEF Typed
    <2>5. Len(s) \in Nat /\ DOMAIN s = 1 .. Len(s)
        BY LenProperties
    <2>6. Len(s) <= 1
        <3> SUFFICES ASSUME Len(s) > 1
                     PROVE  FALSE
            BY <2>5
        <3>1. 1 \in DOMAIN s /\ 2 \in DOMAIN s
            BY <2>5
        <3> QED
            BY <2>3, <2>4, <3>1
    <2> QED
        BY <2>1, <2>4, <2>6 DEF TasksIssued
<1> QED
    BY <1>1, RpcInvariant, PTL

\* A call that succeeds was executed, and its response is the answer to this very call,
\* unless a recv on its connection got only a part of a reply (MprpcChannel::CallMethod).
THEOREM RepliesAreOwn == Spec => []OwnReply
<1>1. ASSUME RpcInv
      PROVE  OwnReply
    BY <1>1 DEF RpcInv, Answered, OwnReply
<1> QED
    BY <1>1, RpcInvariant, PTL
=============================================================================
