---------------------------- MODULE FiberProofs -----------------------------
(***************************************************************************)
(* The fiber runtime resumes every fiber that has yielded exactly once,    *)
(* runs timeout callbacks only for calls that still wait, and its thread   *)
(* exits only when all is done.                                            *)
(*                                                                         *)
(* The invariants that FiberRuntime states are not inductive.  What they   *)
(* need is how the references to a fiber relate: of the queue, the timers  *)
(* and the event contexts exactly one refers to a fiber that has yielded,  *)
(* and no fiber twice (Once); a queued timeout callback comes before the   *)
(* resumption of its fiber (InOrder), which is what keeps it from running  *)
(* after the call is over; every reference agrees with the state of the    *)
(* fiber and with its call (TasksOwn, TimersOwn, EventsOwn); and while the *)
(* thread is idle only functions are queued (OnlyStarts).                  *)
(***************************************************************************)
EXTENDS FiberRuntime, SequenceTheorems, FiniteSetTheorems, TLAPS

\* The queue q holds something that resumes fiber f; a timeout callback of f.
Resumes(q, f) == \E i \in DOMAIN q : q[i].kind # "timeout" /\ q[i].f = f
Expires(q, f) == \E i \in DOMAIN q : q[i].kind = "timeout" /\ q[i].f = f

\* A timer of ts ends the sleep of f; the timed call of f.  A context of es has f waiting.
Sleeping(ts, f) == \E t \in ts : t.item.kind = "wake" /\ t.item.f = f
Timing(ts, f) == \E t \in ts : t.item.kind = "timeout" /\ t.item.f = f
Waiting(es, f) == \E e \in es : e.f = f

\* No fiber is queued twice, and none has two timeout callbacks queued.
Distinct(q) ==
    \A i, j \in DOMAIN q :
        q[i].f = q[j].f /\ (q[i].kind = "timeout" <=> q[j].kind = "timeout") => i = j

\* A timeout callback comes before the resumption of its fiber.
InOrder(q) ==
    \A i, j \in DOMAIN q :
        q[i].f = q[j].f /\ q[i].kind = "timeout" /\ q[j].kind # "timeout" => i < j

Yielded(fb, f) == fb[f].state \in {"scheduled", "READY"}

\* A fiber that has yielded has one reference, another fiber has none.
Apart(q, ts, es, f) ==
    /\ ~(Resumes(q, f) /\ Sleeping(ts, f))
    /\ ~(Resumes(q, f) /\ Waiting(es, f))
    /\ ~(Sleeping(ts, f) /\ Waiting(es, f))
    /\ ~(Expires(q, f) /\ Timing(ts, f))
Referred(fb, q, ts, es, f) ==
    Resumes(q, f) \/ Sleeping(ts, f) \/ Waiting(es, f) <=> Yielded(fb, f)
OneTimer(ts) == \A t, u \in ts : t.item.f = u.item.f => t = u
OneEvent(es) == \A d, e \in es : d.f = e.f => d = e
Once(fb, q, ts, es) ==
    /\ Distinct(q) /\ InOrder(q) /\ OneTimer(ts) /\ OneEvent(es)
    /\ \A f \in Fiber : Apart(q, ts, es, f) /\ Referred(fb, q, ts, es, f)

\* A timeout callback, queued or in a timer, belongs to the call its fiber is in.
Belongs(fb, m) ==
    /\ fb[m.f].call # None /\ ~fb[m.f].call.cancelled
    /\ m = TimeoutItem(m.f, fb[m.f].call)
TaskOwn(fb, m) ==
    /\ m.kind = "start" => fb[m.f].state = "scheduled"
    /\ m.kind = "fiber" => fb[m.f].state = "READY"
    /\ m.kind = "wake" => fb[m.f].state = "READY" /\ fb[m.f].call = None
    /\ m.kind = "timeout" => fb[m.f].state = "READY" /\ Belongs(fb, m)
TimerOwn(fb, m) ==
    /\ m.kind \in {"wake", "timeout"}
    /\ m.kind = "wake" => /\ m = Item("wake", m.f)
                          /\ fb[m.f].state = "READY" /\ fb[m.f].call = None
    /\ m.kind = "timeout" => Belongs(fb, m)
EventOwn(fb, e) ==
    /\ fb[e.f].state = "READY" /\ fb[e.f].call # None
    /\ fb[e.f].call.fd = e.fd /\ fb[e.f].call.ev = e.ev
TasksOwn(fb, q) == \A i \in DOMAIN q : TaskOwn(fb, q[i])
TimersOwn(fb, ts) == \A t \in ts : TimerOwn(fb, t.item)
EventsOwn(fb, es) == \A e \in es : EventOwn(fb, e)

\* A fiber in a call has yielded in it or runs again, and no two wait for one event; the
\* fiber that runs is the current one.
CallsOwn(fb, c) ==
    /\ \A f \in Fiber : /\ fb[f].call # None => fb[f].state \in {"READY", "RUNNING"}
                        /\ fb[f].state = "RUNNING" <=> c = f
    /\ \A f, g \in Fiber :
          /\ fb[f].call # None /\ fb[g].call # None
          /\ fb[f].call.fd = fb[g].call.fd /\ fb[f].call.ev = fb[g].call.ev
          => f = g

\* The thread goes idle with an empty queue: what is queued since then are functions.
OnlyStarts(lp, q) ==
    lp \in {"empty", "idle", "wait"} => \A i \in DOMAIN q : q[i].kind = "start"

\* Once the idle fiber has ended nothing is left, and nothing comes.
Finished ==
    /\ loop = "exited" => idleTerm
    /\ idleTerm => /\ isStopped_ /\ loop \in {"take", "exited"}
                   /\ tasks_ = <<>> /\ timers_ = {} /\ events = {}

\* The fibers with their references, and the types of both.
Fibers == [Fiber -> [state : State, call : Call \cup {None}]]
Typed(fb, q, ts, es) ==
    /\ fb \in Fibers /\ q \in Seq(Task)
    /\ ts \subseteq [item : Task, due : BOOLEAN] /\ IsFiniteSet(ts)
    /\ es \subseteq [fd : Fd, ev : Event, f : Fiber] /\ IsFiniteSet(es)
Owned(fb, q, ts, es, c) ==
    TasksOwn(fb, q) /\ TimersOwn(fb, ts) /\ EventsOwn(fb, es) /\ CallsOwn(fb, c)
Sound(fb, q, ts, es, c) ==
    Typed(fb, q, ts, es) /\ Once(fb, q, ts, es) /\ Owned(fb, q, ts, es, c)

LoopTyped ==
    /\ loop \in {"take", "fiber", "empty", "idle", "wait", "exited"} /\ cur \in Fiber \cup {None}
    /\ loop = "fiber" <=> cur # None
    /\ idleThreadCnt_ = IF loop \in {"idle", "wait"} THEN 1 ELSE 0
DescriptorsTyped ==
    /\ fdctx \in [Fd -> [open : BOOLEAN, nonblock : BOOLEAN, timeouts : SUBSET Event]]
    /\ ready \subseteq Fd \X Event /\ ops \in 0 .. MaxOps
Counted == pendingEventCnt_ = Cardinality(events)

FiberInv ==
    /\ LoopTyped /\ DescriptorsTyped /\ Counted
    /\ Sound(fiber, tasks_, timers_, events, cur)
    /\ OnlyStarts(loop, tasks_) /\ Finished /\ ~panic
-----------------------------------------------------------------------------
(***************************************************************************)
(* Queues.                                                                 *)
(***************************************************************************)

\* What a concatenation holds.
LEMMA ConcatElements ==
    ASSUME NEW S, NEW q \in Seq(S), NEW r \in Seq(S)
    PROVE  /\ q \o r \in Seq(S)
           /\ \A i \in DOMAIN q : i \in DOMAIN (q \o r) /\ (q \o r)[i] = q[i]
           /\ \A i \in DOMAIN r : Len(q) + i \in DOMAIN (q \o r) /\ (q \o r)[Len(q) + i] = r[i]
           /\ \A i \in DOMAIN (q \o r) :
                 \/ i \in DOMAIN q /\ (q \o r)[i] = q[i]
                 \/ i - Len(q) \in DOMAIN r /\ (q \o r)[i] = r[i - Len(q)] /\ i > Len(q)
<1>1. /\ q \o r \in Seq(S) /\ Len(q \o r) = Len(q) + Len(r)
      /\ \A i \in 1 .. Len(q) + Len(r) :
            (q \o r)[i] = IF i <= Len(q) THEN q[i] ELSE r[i - Len(q)]
    BY ConcatProperties
<1>2. /\ Len(q) \in Nat /\ Len(r) \in Nat /\ DOMAIN q = 1 .. Len(q) /\ DOMAIN r = 1 .. Len(r)
      /\ DOMAIN (q \o r) = 1 .. Len(q) + Len(r)
    BY <1>1, LenProperties
<1>3. ASSUME NEW i \in DOMAIN q
      PROVE  i \in DOMAIN (q \o r) /\ (q \o r)[i] = q[i]
    BY <1>1, <1>2
<1>4. ASSUME NEW i \in DOMAIN r
      PROVE  Len(q) + i \in DOMAIN (q \o r) /\ (q \o r)[Len(q) + i] = r[i]
    BY <1>1, <1>2
<1>5. ASSUME NEW i \in DOMAIN (q \o r)
      PROVE  \/ i \in DOMAIN q /\ (q \o r)[i] = q[i]
             \/ i - Len(q) \in DOMAIN r /\ (q \o r)[i] = r[i - Len(q)] /\ i > Len(q)
    BY <1>1, <1>2
<1> QED  BY <1>1, <1>3, <1>4, <1>5

\* A concatenation refers to the fibers its two parts refer to.
LEMMA ConcatRefers ==
    ASSUME NEW q \in Seq(Task), NEW r \in Seq(Task), NEW f
    PROVE  /\ Resumes(q \o r, f) <=> Resumes(q, f) \/ Resumes(r, f)
           /\ Expires(q \o r, f) <=> Expires(q, f) \/ Expires(r, f)
<1> DEFINE s == q \o r
<1>1. /\ \A i \in DOMAIN q : i \in DOMAIN s /\ s[i] = q[i]
      /\ \A i \in DOMAIN r : Len(q) + i \in DOMAIN s /\ s[Len(q) + i] = r[i]
      /\ \A i \in DOMAIN s : \/ i \in DOMAIN q /\ s[i] = q[i]
                             \/ i - Len(q) \in DOMAIN r /\ s[i] = r[i - Len(q)]
    BY ConcatElements
<1> HIDE DEF s
<1>2. /\ Resumes(s, f) <=> Resumes(q, f) \/ Resumes(r, f)
      /\ Expires(s, f) <=> Expires(q, f) \/ Expires(r, f)
    BY <1>1 DEF Resumes, Expires
<1> QED  BY <1>2 DEF s

\* Two queues that share no fiber hold every fiber once when joined.
LEMMA ConcatDistinct ==
    ASSUME NEW q \in Seq(Task), NEW r \in Seq(Task), Distinct(q), Distinct(r),
           \A f : ~(Resumes(q, f) /\ Resumes(r, f)),
           \A f : ~(Expires(q, f) /\ Expires(r, f))
    PROVE  Distinct(q \o r)
<1> DEFINE s == q \o r
           both(a, b) == a.f = b.f /\ (a.kind = "timeout" <=> b.kind = "timeout")
<1>1. \A i \in DOMAIN s : \/ i \in DOMAIN q /\ s[i] = q[i]
                          \/ i - Len(q) \in DOMAIN r /\ s[i] = r[i - Len(q)] /\ i > Len(q)
    BY ConcatElements
<1>2. Len(q) \in Nat /\ DOMAIN s \subseteq Nat
    <2>1. s \in Seq(Task)  BY ConcatElements
    <2> QED  BY <2>1, LenProperties
<1> HIDE DEF s
<1>3. SUFFICES ASSUME NEW i \in DOMAIN s, NEW j \in DOMAIN s, both(s[i], s[j])
               PROVE  i = j
    BY DEF Distinct, s
<1>4. ASSUME NEW k \in DOMAIN q, NEW l \in DOMAIN r PROVE ~both(q[k], r[l]) /\ ~both(r[l], q[k])
    BY DEF Resumes, Expires
<1>5. CASE i \in DOMAIN q /\ s[i] = q[i] /\ j \in DOMAIN q /\ s[j] = q[j]
    BY <1>3, <1>5 DEF Distinct
<1>6. CASE /\ i - Len(q) \in DOMAIN r /\ s[i] = r[i - Len(q)]
           /\ j - Len(q) \in DOMAIN r /\ s[j] = r[j - Len(q)]
    <2>1. i - Len(q) = j - Len(q)  BY <1>3, <1>6 DEF Distinct
    <2> QED  BY <2>1, <1>2
<1> QED  BY <1>1, <1>3, <1>4, <1>5, <1>6

\* Joined queues stay in order unless the second has the timeout callback of a fiber
\* that the first resumes.
LEMMA ConcatInOrder ==
    ASSUME NEW q \in Seq(Task), NEW r \in Seq(Task), InOrder(q), InOrder(r),
           \A f : ~(Resumes(q, f) /\ Expires(r, f))
    PROVE  InOrder(q \o r)
<1> DEFINE s == q \o r
           pair(a, b) == a.f = b.f /\ a.kind = "timeout" /\ b.kind # "timeout"
<1>1. \A i \in DOMAIN s : \/ i \in DOMAIN q /\ s[i] = q[i]
                          \/ i - Len(q) \in DOMAIN r /\ s[i] = r[i - Len(q)] /\ i > Len(q)
    BY ConcatElements
<1>2. Len(q) \in Nat /\ DOMAIN s \subseteq Nat /\ DOMAIN q = 1 .. Len(q)
    <2>1. s \in Seq(Task)  BY ConcatElements
    <2> QED  BY <2>1, LenProperties
<1> HIDE DEF s
<1>3. SUFFICES ASSUME NEW i \in DOMAIN s, NEW j \in DOMAIN s, pair(s[i], s[j])
               PROVE  i < j
    BY DEF InOrder, s
<1>5. CASE i \in DOMAIN q /\ s[i] = q[i] /\ j \in DOMAIN q /\ s[j] = q[j]
    BY <1>3, <1>5 DEF InOrder
<1>6. CASE /\ i - Len(q) \in DOMAIN r /\ s[i] = r[i - Len(q)]
           /\ j - Len(q) \in DOMAIN r /\ s[j] = r[j - Len(q)]
    <2>1. i - Len(q) < j - Len(q)  BY <1>3, <1>6 DEF InOrder
    <2> QED  BY <2>1, <1>2
<1>7. CASE i \in DOMAIN q /\ j > Len(q)
    BY <1>2, <1>7
<1>8. CASE i - Len(q) \in DOMAIN r /\ s[i] = r[i - Len(q)] /\ j \in DOMAIN q /\ s[j] = q[j]
    <2>1. Expires(r, s[i].f) /\ Resumes(q, s[j].f)
        BY <1>3, <1>8 DEF Expires, Resumes
    <2> QED  BY <2>1, <1>3
<1> QED  BY <1>1, <1>5, <1>6, <1>7, <1>8

\* What is behind the first task.
LEMMA TailQueue ==
    ASSUME NEW q \in Seq(Task), q # <<>>
    PROVE  /\ Tail(q) \in Seq(Task) /\ Head(q) \in Task
           /\ \E i \in DOMAIN q : Head(q) = q[i]
           /\ \A i \in DOMAIN Tail(q) : \E j \in DOMAIN q : Tail(q)[i] = q[j]
           /\ \A f : Resumes(q, f) <=> \/ Resumes(Tail(q), f)
                                       \/ Head(q).kind # "timeout" /\ Head(q).f = f
           /\ \A f : Expires(q, f) <=> \/ Expires(Tail(q), f)
                                       \/ Head(q).kind = "timeout" /\ Head(q).f = f
           /\ Distinct(q) => /\ Distinct(Tail(q))
                             /\ Head(q).kind # "timeout" => ~Resumes(Tail(q), Head(q).f)
                             /\ Head(q).kind = "timeout" => ~Expires(Tail(q), Head(q).f)
           /\ InOrder(q) => /\ InOrder(Tail(q))
                            /\ Head(q).kind # "timeout" => ~Expires(Tail(q), Head(q).f)
<1> DEFINE t == Tail(q)
           h == Head(q)
<1>1. /\ t \in Seq(Task) /\ Len(q) \in Nat \ {0} /\ DOMAIN q = 1 .. Len(q)
      /\ Len(t) = Len(q) - 1 /\ DOMAIN t = 1 .. Len(q) - 1
      /\ \A i \in 1 .. Len(q) - 1 : t[i] = q[i + 1]
      /\ h = q[1] /\ h \in Task
    <2>1. t \in Seq(Task) /\ Len(t) = Len(q) - 1  BY HeadTailProperties
    <2>2. Len(q) \in Nat \ {0} /\ DOMAIN q = 1 .. Len(q)  BY EmptySeq, LenProperties
    <2>3. DOMAIN t = 1 .. Len(q) - 1  BY <2>1, LenProperties
    <2>4. \A i \in 1 .. Len(q) - 1 : t[i] = q[i + 1]  BY <2>1, <2>2
    <2>5. h = q[1]  OBVIOUS
    <2> QED  BY <2>1, <2>2, <2>3, <2>4, <2>5, ElementOfSeq
<1> HIDE DEF t, h
<1>2. \A i \in DOMAIN t : i + 1 \in DOMAIN q /\ t[i] = q[i + 1] /\ i \in Nat
    BY <1>1
<1>3. \A i \in DOMAIN q : i = 1 \/ (i - 1 \in DOMAIN t /\ q[i] = t[i - 1])
    BY <1>1
<1>4. 1 \in DOMAIN q  BY <1>1
<1>5. \A f : Resumes(q, f) <=> Resumes(t, f) \/ (h.kind # "timeout" /\ h.f = f)
    BY <1>1, <1>2, <1>3, <1>4 DEF Resumes
<1>6. \A f : Expires(q, f) <=> Expires(t, f) \/ (h.kind = "timeout" /\ h.f = f)
    BY <1>1, <1>2, <1>3, <1>4 DEF Expires
<1>7. ASSUME Distinct(q)
      PROVE  /\ Distinct(t)
             /\ h.kind # "timeout" => ~Resumes(t, h.f)
             /\ h.kind = "timeout" => ~Expires(t, h.f)
    <2>1. ASSUME NEW i \in DOMAIN t, NEW j \in DOMAIN t,
                 t[i].f = t[j].f, t[i].kind = "timeout" <=> t[j].kind = "timeout"
          PROVE  i = j
        <3>1. i + 1 = j + 1  BY <1>2, <1>7, <2>1 DEF Distinct
        <3> QED  BY <3>1, <1>2
    <2>2. ASSUME NEW i \in DOMAIN t, t[i].f = h.f, h.kind = "timeout" <=> t[i].kind = "timeout"
          PROVE  FALSE
        <3>1. i + 1 = 1  BY <1>1, <1>2, <1>4, <1>7, <2>2 DEF Distinct
        <3> QED  BY <3>1, <1>1
    <2> QED  BY <2>1, <2>2 DEF Distinct, Resumes, Expires
<1>8. ASSUME InOrder(q)
      PROVE  /\ InOrder(t)
             /\ h.kind # "timeout" => ~Expires(t, h.f)
    <2>1. ASSUME NEW i \in DOMAIN t, NEW j \in DOMAIN t,
                 t[i].f = t[j].f, t[i].kind = "timeout", t[j].kind # "timeout"
          PROVE  i < j
        <3>1. i + 1 < j + 1  BY <1>2, <1>8, <2>1 DEF InOrder
        <3> QED  BY <3>1, <1>2
    <2>2. ASSUME NEW i \in DOMAIN t, t[i].f = h.f, h.kind # "timeout", t[i].kind = "timeout"
          PROVE  FALSE
        <3>1. i + 1 < 1  BY <1>1, <1>2, <1>4, <1>8, <2>2 DEF InOrder
        <3> QED  BY <3>1, <1>1
    <2> QED  BY <2>1, <2>2 DEF InOrder, Expires
<1>9. /\ \E i \in DOMAIN q : h = q[i]
      /\ \A i \in DOMAIN t : \E j \in DOMAIN q : t[i] = q[j]
    BY <1>1, <1>2, <1>4
<1> QED  BY <1>1, <1>5, <1>6, <1>7, <1>8, <1>9 DEF t, h

\* A queue of one task.
LEMMA SingleQueue ==
    ASSUME NEW m \in Task
    PROVE  /\ <<m>> \in Seq(Task) /\ Distinct(<<m>>) /\ InOrder(<<m>>)
           /\ \A i \in DOMAIN <<m>> : <<m>>[i] = m
           /\ \A f : Resumes(<<m>>, f) <=> m.kind # "timeout" /\ m.f = f
           /\ \A f : Expires(<<m>>, f) <=> m.kind = "timeout" /\ m.f = f
<1>1. <<m>> \in Seq(Task) /\ DOMAIN <<m>> = {1} /\ <<m>>[1] = m  OBVIOUS
<1> QED  BY <1>1 DEF Distinct, InOrder, Resumes, Expires

\* An empty queue.
LEMMA EmptyQueue ==
    /\ << >> \in Seq(Task) /\ Distinct(<< >>) /\ InOrder(<< >>)
    /\ \A f : ~Resumes(<< >>, f) /\ ~Expires(<< >>, f)
BY DEF Distinct, InOrder, Resumes, Expires

\* A sequence of a finite set's elements holds each of them once.
LEMMA SequenceOfSet ==
    ASSUME NEW S, IsFiniteSet(S), NEW s, s = SetToSeq(S) \/ s \in SetToSeqs(S)
    PROVE  /\ s \in Seq(S)
           /\ \A i, j \in DOMAIN s : s[i] = s[j] => i = j
           /\ \A x \in S : \E i \in DOMAIN s : s[i] = x
<1> DEFINE n == Cardinality(S)
<1>1. n \in Nat /\ ExistsBijection(1 .. n, S)
    BY FS_CardinalityType
<1>2. \E g \in [1 .. n -> S] : IsInjective(g)
    BY <1>1 DEF ExistsBijection, Bijection, Injection, IsInjective
<1>3. s \in [1 .. n -> S] /\ \A i, j \in 1 .. n : s[i] = s[j] => i = j
    <2>1. CASE s = SetToSeq(S)
        <3>1. s \in [1 .. n -> S] /\ IsInjective(s)  BY <2>1, <1>2 DEF SetToSeq
        <3> QED  BY <3>1 DEF IsInjective
    <2>2. CASE s \in SetToSeqs(S)
        BY <2>2 DEF SetToSeqs
    <2> QED  BY <2>1, <2>2
<1>4. s \in Injection(1 .. n, S)
    BY <1>3 DEF Injection, IsInjective
<1>5. IsFiniteSet(1 .. n) /\ Cardinality(1 .. n) = n
    BY <1>1, FS_Interval
<1>6. s \in Surjection(1 .. n, S)
    BY <1>4, <1>5, FS_Injection
<1>7. \A x \in S : \E i \in 1 .. n : s[i] = x
    BY <1>6 DEF Surjection
<1>8. s \in Seq(S)  BY <1>1, <1>3
<1> QED  BY <1>3, <1>7, <1>8

\* The tasks that resume the fibers of some event contexts.
LEMMA ResumptionsQueue ==
    ASSUME NEW S, S \subseteq [fd : Fd, ev : Event, f : Fiber], IsFiniteSet(S), OneEvent(S),
           NEW s, s = SetToSeq(S) \/ s \in SetToSeqs(S)
    PROVE  /\ Resumptions(s) \in Seq(Task)
           /\ Distinct(Resumptions(s)) /\ InOrder(Resumptions(s))
           /\ \A i \in DOMAIN Resumptions(s) : \E e \in S : Resumptions(s)[i] = Item("fiber", e.f)
           /\ \A f : Resumes(Resumptions(s), f) <=> Waiting(S, f)
           /\ \A f : ~Expires(Resumptions(s), f)
<1> DEFINE r == Resumptions(s)
<1>1. /\ s \in Seq(S)
      /\ \A i, j \in DOMAIN s : s[i] = s[j] => i = j
      /\ \A x \in S : \E i \in DOMAIN s : s[i] = x
    BY SequenceOfSet
<1>2. /\ Len(s) \in Nat /\ DOMAIN s = 1 .. Len(s)
      /\ \A i \in DOMAIN s : s[i] \in S /\ s[i].f \in Fiber
    <2>1. Len(s) \in Nat /\ DOMAIN s = 1 .. Len(s)  BY <1>1, LenProperties
    <2>2. \A i \in DOMAIN s : s[i] \in S  BY <1>1, <2>1, ElementOfSeq
    <2> QED  BY <2>1, <2>2
<1>3. /\ DOMAIN r = DOMAIN s
      /\ \A i \in DOMAIN s : /\ r[i] = Item("fiber", s[i].f) /\ r[i] \in Task
                             /\ r[i].f = s[i].f /\ r[i].kind = "fiber"
    BY <1>2, FiberAssumption DEF Resumptions, Item, Task
<1>4. r \in Seq(Task)
    <2>1. r \in [1 .. Len(s) -> Task]  BY <1>2, <1>3 DEF Resumptions
    <2> QED  BY <2>1, <1>2
<1> HIDE DEF r
<1>5. Distinct(r)
    <2>1. SUFFICES ASSUME NEW i \in DOMAIN s, NEW j \in DOMAIN s, s[i].f = s[j].f
                   PROVE  i = j
        BY <1>3 DEF Distinct
    <2> QED  BY <1>1, <1>2, <2>1 DEF OneEvent
<1>6. InOrder(r) /\ \A f : ~Expires(r, f)
    BY <1>3 DEF InOrder, Expires
<1>7. \A f : Resumes(r, f) <=> Waiting(S, f)
    BY <1>1, <1>2, <1>3 DEF Resumes, Waiting
<1>8. \A i \in DOMAIN r : \E e \in S : r[i] = Item("fiber", e.f)
    BY <1>2, <1>3
<1> QED  BY <1>4, <1>5, <1>6, <1>7, <1>8 DEF r

\* The callbacks of some timers.
LEMMA CallbacksQueue ==
    ASSUME NEW D, D \subseteq [item : Task, due : BOOLEAN], IsFiniteSet(D), OneTimer(D),
           NEW s \in SetToSeqs({t.item : t \in D})
    PROVE  /\ s \in Seq(Task) /\ Distinct(s)
           /\ \A i, j \in DOMAIN s : s[i].f = s[j].f => i = j
           /\ \A i \in DOMAIN s : \E t \in D : s[i] = t.item
           /\ \A t \in D : \E i \in DOMAIN s : s[i] = t.item
<1> DEFINE S == {t.item : t \in D}
<1>1. IsFiniteSet(S)
    <2> DEFINE g == [t \in D |-> t.item]
    <2>1. g \in Surjection(D, S)  BY DEF Surjection
    <2> QED  BY <2>1, FS_Surjection
<1>2. /\ s \in Seq(S)
      /\ \A i, j \in DOMAIN s : s[i] = s[j] => i = j
      /\ \A x \in S : \E i \in DOMAIN s : s[i] = x
    BY <1>1, SequenceOfSet
<1>3. \A x \in S : x \in Task /\ \E t \in D : x = t.item
    OBVIOUS
<1>4. \A i \in DOMAIN s : s[i] \in S
    BY <1>2, LenProperties, ElementOfSeq
<1>5. s \in Seq(Task)
    <2>1. Len(s) \in Nat /\ s \in [1 .. Len(s) -> S]  BY <1>2, LenProperties
    <2>2. s \in [1 .. Len(s) -> Task]  BY <1>3, <2>1
    <2> QED  BY <2>1, <2>2
<1>6. \A i, j \in DOMAIN s : s[i].f = s[j].f => i = j
    BY <1>2, <1>3, <1>4 DEF OneTimer
<1>7. Distinct(s)  BY <1>6 DEF Distinct
<1> QED  BY <1>2, <1>3, <1>4, <1>5, <1>6, <1>7
-----------------------------------------------------------------------------
(***************************************************************************)
(* What happens to a fiber and its references.                             *)
(***************************************************************************)

\* What has no reference: a fiber that runs, has not been scheduled, or has ended.
LEMMA Unreferred ==
    ASSUME NEW fb, NEW q, NEW ts, NEW es, NEW c, Sound(fb, q, ts, es, c),
           NEW f \in Fiber, fb[f].state \notin {"scheduled", "READY"}
    PROVE  /\ ~Resumes(q, f) /\ ~Expires(q, f) /\ ~Sleeping(ts, f) /\ ~Waiting(es, f)
           /\ fb[f].call = None => \A t \in ts : t.item.f # f
<1>1. ~Resumes(q, f) /\ ~Sleeping(ts, f) /\ ~Waiting(es, f)
    BY DEF Sound, Once, Referred, Yielded
<1>2. ~Expires(q, f)
    BY DEF Sound, Owned, TasksOwn, TaskOwn, Expires
<1>3. ASSUME fb[f].call = None, NEW t \in ts, t.item.f = f
      PROVE  FALSE
    BY <1>3, <1>1 DEF Sound, Owned, TimersOwn, TimerOwn, Belongs, Sleeping
<1> QED  BY <1>1, <1>2, <1>3

\* References to other fibers do not see a change of f.
LEMMA OthersOwn ==
    ASSUME NEW fb, NEW gb, NEW f, \A g \in Fiber : g # f => gb[g] = fb[g],
           NEW m, m.f \in Fiber, m.f # f
    PROVE  /\ TaskOwn(fb, m) <=> TaskOwn(gb, m)
           /\ TimerOwn(fb, m) <=> TimerOwn(gb, m)
           /\ EventOwn(fb, m) <=> EventOwn(gb, m)
<1>1. fb[m.f] = gb[m.f]  OBVIOUS
<1> QED  BY <1>1 DEF TaskOwn, TimerOwn, EventOwn, Belongs

\* The fibers of event contexts are scheduled.
LEMMA Triggers ==
    ASSUME NEW fb, NEW q, NEW ts, NEW es, NEW c, Sound(fb, q, ts, es, c),
           NEW W, W \subseteq es, NEW s, s = SetToSeq(W) \/ s \in SetToSeqs(W)
    PROVE  Sound(fb, q \o Resumptions(s), ts, es \ W, c)
<1> DEFINE r == Resumptions(s)
<1>1. /\ fb \in Fibers /\ q \in Seq(Task) /\ ts \subseteq [item : Task, due : BOOLEAN]
      /\ IsFiniteSet(ts) /\ es \subseteq [fd : Fd, ev : Event, f : Fiber] /\ IsFiniteSet(es)
    BY DEF Sound, Typed
<1>2. IsFiniteSet(W) /\ IsFiniteSet(es \ W)
    BY <1>1, FS_Subset
<1>3. OneEvent(W) /\ OneEvent(es) /\ OneEvent(es \ W)
    BY DEF Sound, Once, OneEvent
<1>4. /\ r \in Seq(Task) /\ Distinct(r) /\ InOrder(r)
      /\ \A i \in DOMAIN r : \E e \in W : r[i] = Item("fiber", e.f)
      /\ \A f : Resumes(r, f) <=> Waiting(W, f)
      /\ \A f : ~Expires(r, f)
    BY <1>1, <1>2, <1>3, ResumptionsQueue
<1> HIDE DEF r
<1>5. \A f \in Fiber : Waiting(es, f) <=> Waiting(es \ W, f) \/ Waiting(W, f)
    BY DEF Waiting
<1>6. \A f \in Fiber : ~(Waiting(es \ W, f) /\ Waiting(W, f))
    BY <1>3 DEF Waiting, OneEvent
<1>7. \A f : Waiting(W, f) => f \in Fiber /\ Waiting(es, f)
    BY <1>1 DEF Waiting
<1>8. Distinct(q) /\ InOrder(q) /\ \A f \in Fiber : Apart(q, ts, es, f) /\ Referred(fb, q, ts, es, f)
    BY DEF Sound, Once
<1>9. /\ \A f : ~(Resumes(q, f) /\ Resumes(r, f))
      /\ \A f : ~(Expires(q, f) /\ Expires(r, f))
      /\ \A f : ~(Resumes(q, f) /\ Expires(r, f))
    BY <1>4, <1>7, <1>8 DEF Apart
<1>10. Distinct(q \o r) /\ InOrder(q \o r)
    BY <1>1, <1>4, <1>8, <1>9, ConcatDistinct, ConcatInOrder
<1>11. \A f : /\ Resumes(q \o r, f) <=> Resumes(q, f) \/ Resumes(r, f)
              /\ Expires(q \o r, f) <=> Expires(q, f) \/ Expires(r, f)
    BY <1>1, <1>4, ConcatRefers
<1>12. \A f \in Fiber : Apart(q \o r, ts, es \ W, f) /\ Referred(fb, q \o r, ts, es \ W, f)
    BY <1>4, <1>5, <1>6, <1>8, <1>11 DEF Apart, Referred
<1>13. Once(fb, q \o r, ts, es \ W)
    BY <1>3, <1>10, <1>12 DEF Sound, Once
<1>14. TasksOwn(fb, q \o r)
    <2>1. ASSUME NEW i \in DOMAIN r PROVE TaskOwn(fb, r[i])
        <3>1. PICK e \in W : r[i] = Item("fiber", e.f)  BY <1>4
        <3>2. EventOwn(fb, e)  BY DEF Sound, Owned, EventsOwn
        <3> QED  BY <3>1, <3>2 DEF EventOwn, TaskOwn, Item
    <2>2. \A i \in DOMAIN q : TaskOwn(fb, q[i])
        BY DEF Sound, Owned, TasksOwn
    <2>3. \A i \in DOMAIN (q \o r) : \/ i \in DOMAIN q /\ (q \o r)[i] = q[i]
                                     \/ i - Len(q) \in DOMAIN r /\ (q \o r)[i] = r[i - Len(q)]
        BY <1>1, <1>4, ConcatElements
    <2> QED  BY <2>1, <2>2, <2>3 DEF TasksOwn
<1>15. Typed(fb, q \o r, ts, es \ W)
    BY <1>1, <1>2, <1>4, ConcatElements DEF Typed
<1>16. Owned(fb, q \o r, ts, es \ W, c)
    BY <1>14 DEF Sound, Owned, EventsOwn
<1> QED  BY <1>13, <1>15, <1>16 DEF Sound, r

\* The callbacks of timers are scheduled behind functions that have not started.
LEMMA Fires ==
    ASSUME NEW fb, NEW q, NEW ts, NEW es, NEW c, Sound(fb, q, ts, es, c), c \notin Fiber,
           \A i \in DOMAIN q : q[i].kind = "start",
           NEW D, D \subseteq ts, NEW s \in SetToSeqs({t.item : t \in D})
    PROVE  Sound(fb, q \o s, ts \ D, es, c)
<1>1. /\ fb \in Fibers /\ q \in Seq(Task) /\ ts \subseteq [item : Task, due : BOOLEAN]
      /\ IsFiniteSet(ts) /\ es \subseteq [fd : Fd, ev : Event, f : Fiber] /\ IsFiniteSet(es)
    BY DEF Sound, Typed
<1>2. IsFiniteSet(D) /\ IsFiniteSet(ts \ D)
    BY <1>1, FS_Subset
<1>3. OneTimer(D) /\ OneTimer(ts) /\ OneTimer(ts \ D)
    BY DEF Sound, Once, OneTimer
<1>4. /\ s \in Seq(Task) /\ Distinct(s)
      /\ \A i, j \in DOMAIN s : s[i].f = s[j].f => i = j
      /\ \A i \in DOMAIN s : \E t \in D : s[i] = t.item
      /\ \A t \in D : \E i \in DOMAIN s : s[i] = t.item
    BY <1>1, <1>2, <1>3, CallbacksQueue
<1>5. InOrder(s)
    BY <1>4 DEF InOrder
<1>6. \A t \in ts : /\ t.item.f \in Fiber /\ TimerOwn(fb, t.item)
                    /\ t.item.kind \in {"wake", "timeout"}
    BY <1>1 DEF Sound, Owned, TimersOwn, TimerOwn, Task
<1>7. \A f : /\ Resumes(s, f) <=> Sleeping(D, f)
             /\ Expires(s, f) <=> Timing(D, f)
    BY <1>4, <1>6 DEF Resumes, Expires, Sleeping, Timing
<1>8. \A f : /\ Sleeping(ts, f) <=> Sleeping(D, f) \/ Sleeping(ts \ D, f)
             /\ Timing(ts, f) <=> Timing(D, f) \/ Timing(ts \ D, f)
             /\ ~(Sleeping(D, f) /\ Sleeping(ts \ D, f))
             /\ ~(Timing(D, f) /\ Timing(ts \ D, f))
    BY <1>3 DEF Sleeping, Timing, OneTimer
<1>9. \A f : (Sleeping(ts, f) \/ Timing(ts, f)) => f \in Fiber /\ fb[f].state = "READY"
    <2>1. ASSUME NEW t \in ts PROVE fb[t.item.f].state = "READY"
        <3>1. CASE t.item.kind = "wake"  BY <3>1, <1>6 DEF TimerOwn
        <3>2. CASE t.item.kind = "timeout"
            <4>1. fb[t.item.f].call # None  BY <3>2, <1>6 DEF TimerOwn, Belongs
            <4> QED  BY <4>1, <1>6 DEF Sound, Owned, CallsOwn
        <3> QED  BY <3>1, <3>2, <1>6
    <2> QED  BY <2>1, <1>6 DEF Sleeping, Timing
<1>10. \A i \in DOMAIN q : TaskOwn(fb, q[i])
    BY DEF Sound, Owned, TasksOwn
<1>11. \A f : ~Expires(q, f) /\ (Resumes(q, f) => fb[f].state = "scheduled")
    BY <1>10 DEF Expires, Resumes, TaskOwn
<1>12. Distinct(q) /\ InOrder(q) /\ \A f \in Fiber : Apart(q, ts, es, f) /\ Referred(fb, q, ts, es, f)
    BY DEF Sound, Once
<1>13. /\ \A f : ~(Resumes(q, f) /\ Resumes(s, f))
       /\ \A f : ~(Expires(q, f) /\ Expires(s, f))
       /\ \A f : ~(Resumes(q, f) /\ Expires(s, f))
    BY <1>7, <1>8, <1>9, <1>11
<1>14. Distinct(q \o s) /\ InOrder(q \o s)
    BY <1>1, <1>4, <1>5, <1>12, <1>13, ConcatDistinct, ConcatInOrder
<1>15. \A f : /\ Resumes(q \o s, f) <=> Resumes(q, f) \/ Resumes(s, f)
              /\ Expires(q \o s, f) <=> Expires(q, f) \/ Expires(s, f)
    BY <1>1, <1>4, ConcatRefers
<1>16. \A f \in Fiber : Apart(q \o s, ts \ D, es, f) /\ Referred(fb, q \o s, ts \ D, es, f)
    BY <1>7, <1>8, <1>11, <1>12, <1>15 DEF Apart, Referred
<1>17. Once(fb, q \o s, ts \ D, es)
    BY <1>3, <1>14, <1>16 DEF Sound, Once
<1>18. TasksOwn(fb, q \o s)
    <2>1. ASSUME NEW i \in DOMAIN s PROVE TaskOwn(fb, s[i])
        <3>1. PICK t \in D : s[i] = t.item  BY <1>4
        <3>2. TimerOwn(fb, s[i]) /\ fb[s[i].f].state = "READY"
            BY <3>1, <1>6, <1>9 DEF Sleeping, Timing
        <3> QED  BY <3>2 DEF TimerOwn, TaskOwn
    <2>3. \A i \in DOMAIN (q \o s) : \/ i \in DOMAIN q /\ (q \o s)[i] = q[i]
                                     \/ i - Len(q) \in DOMAIN s /\ (q \o s)[i] = s[i - Len(q)]
        BY <1>1, <1>4, ConcatElements
    <2> QED  BY <2>1, <1>10, <2>3 DEF TasksOwn
<1>19. Typed(fb, q \o s, ts \ D, es)
    BY <1>1, <1>2, <1>4, ConcatElements DEF Typed
<1>20. Owned(fb, q \o s, ts \ D, es, c)
    BY <1>18 DEF Sound, Owned, TimersOwn
<1> QED  BY <1>17, <1>19, <1>20 DEF Sound

\* The fiber whose sleep is over is scheduled in place of the callback.
LEMMA SleepEnds ==
    ASSUME NEW fb, NEW q, NEW ts, NEW es, NEW c, Sound(fb, q, ts, es, c),
           q # <<>>, Head(q).kind = "wake"
    PROVE  Sound(fb, Append(Tail(q), Item("fiber", Head(q).f)), ts, es, c)
<1> DEFINE t == Tail(q)
           f0 == Head(q).f
           m == Item("fiber", f0)
           r == <<m>>
<1>1. q \in Seq(Task) /\ Distinct(q) /\ InOrder(q)
    BY DEF Sound, Typed, Once
<1>2. /\ t \in Seq(Task) /\ Head(q) \in Task
      /\ \E i \in DOMAIN q : Head(q) = q[i]
      /\ \A i \in DOMAIN t : \E j \in DOMAIN q : t[i] = q[j]
      /\ \A f : Resumes(q, f) <=> Resumes(t, f) \/ f0 = f
      /\ \A f : Expires(q, f) <=> Expires(t, f)
      /\ Distinct(t) /\ InOrder(t) /\ ~Resumes(t, f0)
    BY <1>1, TailQueue
<1>3. m \in Task /\ m.kind = "fiber" /\ m.f = f0
    BY <1>2, FiberAssumption DEF Item, Task
<1>4. TaskOwn(fb, m)
    <2>1. TaskOwn(fb, Head(q))  BY <1>2 DEF Sound, Owned, TasksOwn
    <2> QED  BY <2>1, <1>3 DEF TaskOwn
<1> HIDE DEF t, m, f0
<1>5. /\ r \in Seq(Task) /\ Distinct(r) /\ InOrder(r) /\ \A i \in DOMAIN r : r[i] = m
      /\ \A f : Resumes(r, f) <=> f0 = f
      /\ \A f : ~Expires(r, f)
    BY <1>3, SingleQueue
<1> HIDE DEF r
<1>6. Distinct(t \o r) /\ InOrder(t \o r) /\ t \o r \in Seq(Task)
    BY <1>2, <1>5, ConcatDistinct, ConcatInOrder, ConcatElements
<1>7. \A f : /\ Resumes(t \o r, f) <=> Resumes(q, f)
             /\ Expires(t \o r, f) <=> Expires(q, f)
    BY <1>2, <1>5, ConcatRefers
<1>8. Once(fb, t \o r, ts, es)
    BY <1>6, <1>7 DEF Sound, Once, Apart, Referred
<1>9. TasksOwn(fb, t \o r)
    <2>1. \A i \in DOMAIN t : TaskOwn(fb, t[i])
        BY <1>2 DEF Sound, Owned, TasksOwn
    <2>2. \A i \in DOMAIN r : TaskOwn(fb, r[i])
        BY <1>4, <1>5
    <2>3. \A i \in DOMAIN (t \o r) : \/ i \in DOMAIN t /\ (t \o r)[i] = t[i]
                                     \/ i - Len(t) \in DOMAIN r /\ (t \o r)[i] = r[i - Len(t)]
        BY <1>2, <1>5, ConcatElements
    <2> QED  BY <2>1, <2>2, <2>3 DEF TasksOwn
<1>10. Sound(fb, t \o r, ts, es, c)
    BY <1>6, <1>8, <1>9 DEF Sound, Typed, Owned
<1> QED  BY <1>2, <1>3, <1>10, AppendIsConcat DEF t, r, m, f0

\* Every task of a queue is one, of some fiber.
LEMMA TaskOfQueue ==
    ASSUME NEW q \in Seq(Task), NEW i \in DOMAIN q
    PROVE  q[i] \in Task /\ q[i].f \in Fiber
<1>1. q[i] \in Task  BY LenProperties, ElementOfSeq
<1> QED  BY <1>1 DEF Task

\* The first task is taken off the queue, and only its own fiber changes.
LEMMA TakenOff ==
    ASSUME NEW fb, NEW q, NEW ts, NEW es, NEW c, Sound(fb, q, ts, es, c), q # <<>>
    PROVE  /\ Tail(q) \in Seq(Task) /\ Head(q) \in Task /\ Head(q).f \in Fiber
           /\ TaskOwn(fb, Head(q)) /\ TasksOwn(fb, Tail(q))
           /\ Distinct(Tail(q)) /\ InOrder(Tail(q))
           /\ \A f : Resumes(q, f) <=> \/ Resumes(Tail(q), f)
                                       \/ Head(q).kind # "timeout" /\ Head(q).f = f
           /\ \A f : Expires(q, f) <=> \/ Expires(Tail(q), f)
                                       \/ Head(q).kind = "timeout" /\ Head(q).f = f
           /\ Head(q).kind # "timeout" => ~Resumes(Tail(q), Head(q).f)
           /\ ~Expires(Tail(q), Head(q).f)
<1>1. q \in Seq(Task) /\ Distinct(q) /\ InOrder(q)
    BY DEF Sound, Typed, Once
<1>2. \A i \in DOMAIN q : TaskOwn(fb, q[i])
    BY DEF Sound, Owned, TasksOwn
<1>3. TaskOwn(fb, Head(q)) /\ TasksOwn(fb, Tail(q))
    BY <1>1, <1>2, TailQueue DEF TasksOwn
<1>4. Head(q).f \in Fiber
    BY <1>1, TailQueue DEF Task
<1> QED  BY <1>1, <1>3, <1>4, TailQueue

\* The callback of a timed call is taken, and the call is cancelled.
LEMMA CallExpires ==
    ASSUME NEW fb, NEW q, NEW ts, NEW es, NEW c, Sound(fb, q, ts, es, c),
           q # <<>>, Head(q).kind = "timeout"
    PROVE  /\ Belongs(fb, Head(q))
           /\ Sound([fb EXCEPT ![Head(q).f].call.cancelled = TRUE], Tail(q), ts, es, c)
<1> DEFINE t == Tail(q)
           f0 == Head(q).f
           gb == [fb EXCEPT ![f0].call.cancelled = TRUE]
<1>1. /\ t \in Seq(Task) /\ f0 \in Fiber
      /\ TaskOwn(fb, Head(q)) /\ TasksOwn(fb, t) /\ Distinct(t) /\ InOrder(t)
      /\ \A f : Resumes(q, f) <=> Resumes(t, f)
      /\ \A f : Expires(q, f) <=> Expires(t, f) \/ f0 = f
      /\ ~Expires(t, f0)
    BY TakenOff
<1>2. Belongs(fb, Head(q)) /\ fb[f0].state = "READY" /\ fb[f0].call # None
    BY <1>1 DEF TaskOwn, Belongs
<1>3. /\ fb \in Fibers /\ ts \subseteq [item : Task, due : BOOLEAN]
      /\ IsFiniteSet(ts) /\ es \subseteq [fd : Fd, ev : Event, f : Fiber] /\ IsFiniteSet(es)
    BY DEF Sound, Typed
<1>4. fb[f0].call \in Call
    BY <1>1, <1>2, <1>3 DEF Fibers
<1>5. /\ gb \in Fibers
      /\ \A g \in Fiber : /\ g # f0 => gb[g] = fb[g]
                          /\ gb[g].state = fb[g].state
                          /\ gb[g].call = None <=> fb[g].call = None
                          /\ gb[g].call # None =>
                                gb[g].call.fd = fb[g].call.fd /\ gb[g].call.ev = fb[g].call.ev
    <2>1. fb[f0] \in [state : State, call : Call \cup {None}]
        BY <1>1, <1>3 DEF Fibers
    <2> DEFINE k == [fb[f0].call EXCEPT !.cancelled = TRUE]
    <2>2. k \in Call /\ k.fd = fb[f0].call.fd /\ k.ev = fb[f0].call.ev
        BY <1>4 DEF Call
    <2>3. gb = [fb EXCEPT ![f0] = [fb[f0] EXCEPT !.call = k]]
        OBVIOUS
    <2> HIDE DEF k, gb
    <2>4. /\ [fb[f0] EXCEPT !.call = k] \in [state : State, call : Call \cup {None}]
          /\ [fb[f0] EXCEPT !.call = k].state = fb[f0].state
          /\ [fb[f0] EXCEPT !.call = k].call = k
        BY <2>1, <2>2
    <2>5. gb \in Fibers /\ gb[f0] = [fb[f0] EXCEPT !.call = k] /\ \A g \in Fiber : g # f0 => gb[g] = fb[g]
        BY <1>1, <1>3, <2>3, <2>4 DEF Fibers
    <2>6. k # None  BY <2>2, FiberAssumption
    <2> QED  BY <1>2, <2>2, <2>4, <2>5, <2>6
<1> HIDE DEF gb, t, f0
<1>50. \A g \in Fiber : g # f0 => gb[g] = fb[g]  BY <1>5
<1>6. \A f \in Fiber : Apart(q, ts, es, f) /\ Referred(fb, q, ts, es, f)
    BY DEF Sound, Once
<1>7. \A f \in Fiber : Apart(t, ts, es, f) /\ Referred(gb, t, ts, es, f)
    BY <1>1, <1>5, <1>6 DEF Apart, Referred, Yielded
<1>8. Once(gb, t, ts, es)
    BY <1>1, <1>7 DEF Sound, Once
<1>9. TasksOwn(gb, t)
    <2>1. SUFFICES ASSUME NEW i \in DOMAIN t PROVE TaskOwn(gb, t[i])
        BY DEF TasksOwn
    <2>2. TaskOwn(fb, t[i]) /\ t[i].f \in Fiber
        BY <1>1, TaskOfQueue DEF TasksOwn
    <2>3. CASE t[i].f # f0  BY <2>2, <2>3, <1>50, OthersOwn
    <2>4. CASE t[i].f = f0
        <3>1. t[i].kind # "timeout"  BY <1>1, <2>4 DEF Expires
        <3> QED  BY <3>1, <2>2, <1>5 DEF TaskOwn
    <2> QED  BY <2>3, <2>4
<1>10. TimersOwn(gb, ts)
    <2>1. SUFFICES ASSUME NEW u \in ts PROVE TimerOwn(gb, u.item)
        BY DEF TimersOwn
    <2>2. TimerOwn(fb, u.item) /\ u.item.f \in Fiber
        BY <1>3 DEF Sound, Owned, TimersOwn, Task
    <2>3. CASE u.item.f # f0  BY <2>2, <2>3, <1>50, OthersOwn
    <2>4. CASE u.item.f = f0
        <3>1. ~Timing(ts, f0)  BY <1>1, <1>6 DEF Apart
        <3>2. u.item.kind = "wake"  BY <3>1, <2>2, <2>4 DEF Timing, TimerOwn
        <3> QED  BY <3>2, <2>2, <2>4, <1>2 DEF TimerOwn
    <2> QED  BY <2>3, <2>4
<1>11. EventsOwn(gb, es)
    BY <1>3, <1>5 DEF Sound, Owned, EventsOwn, EventOwn
<1>12. CallsOwn(gb, c)
    BY <1>5 DEF Sound, Owned, CallsOwn
<1>13. Sound(gb, t, ts, es, c)
    BY <1>1, <1>3, <1>5, <1>8, <1>9, <1>10, <1>11, <1>12 DEF Sound, Typed, Owned
<1> QED  BY <1>2, <1>13 DEF gb, t, f0

\* The fiber of the first task runs.
LEMMA FiberRuns ==
    ASSUME NEW fb, NEW q, NEW ts, NEW es, NEW c, Sound(fb, q, ts, es, c), c \notin Fiber,
           q # <<>>, Head(q).kind \in {"start", "fiber"}
    PROVE  /\ Head(q).kind = "fiber" => fb[Head(q).f].state = "READY"
           /\ Sound([fb EXCEPT ![Head(q).f].state = "RUNNING"], Tail(q), ts, es, Head(q).f)
<1> DEFINE t == Tail(q)
           f0 == Head(q).f
           gb == [fb EXCEPT ![f0].state = "RUNNING"]
<1>1. /\ t \in Seq(Task) /\ f0 \in Fiber
      /\ TaskOwn(fb, Head(q)) /\ TasksOwn(fb, t) /\ Distinct(t) /\ InOrder(t)
      /\ \A f : Resumes(q, f) <=> Resumes(t, f) \/ f0 = f
      /\ \A f : Expires(q, f) <=> Expires(t, f)
      /\ ~Resumes(t, f0) /\ ~Expires(t, f0)
    BY TakenOff
<1>2. /\ Head(q).kind = "fiber" => fb[f0].state = "READY"
      /\ fb[f0].state \in {"scheduled", "READY"}
    BY <1>1 DEF TaskOwn
<1>3. /\ fb \in Fibers /\ ts \subseteq [item : Task, due : BOOLEAN]
      /\ IsFiniteSet(ts) /\ es \subseteq [fd : Fd, ev : Event, f : Fiber] /\ IsFiniteSet(es)
    BY DEF Sound, Typed
<1>5. /\ gb \in Fibers
      /\ \A g \in Fiber : /\ g # f0 => gb[g] = fb[g]
                          /\ gb[g].call = fb[g].call
      /\ gb[f0].state = "RUNNING"
    BY <1>1, <1>3 DEF Fibers, State
<1> HIDE DEF gb, t, f0
<1>50. \A g \in Fiber : g # f0 => gb[g] = fb[g]  BY <1>5
<1>6. \A f \in Fiber : Apart(q, ts, es, f) /\ Referred(fb, q, ts, es, f)
    BY DEF Sound, Once
<1>7. \A f \in Fiber : Apart(t, ts, es, f) /\ Referred(gb, t, ts, es, f)
    BY <1>1, <1>5, <1>6 DEF Apart, Referred, Yielded
<1>8. Once(gb, t, ts, es)
    BY <1>1, <1>7 DEF Sound, Once
<1>9. TasksOwn(gb, t)
    <2>1. SUFFICES ASSUME NEW i \in DOMAIN t PROVE TaskOwn(gb, t[i])
        BY DEF TasksOwn
    <2>2. TaskOwn(fb, t[i]) /\ t[i].f \in Fiber
        BY <1>1, TaskOfQueue DEF TasksOwn
    <2>3. t[i].f # f0  BY <1>1 DEF Resumes, Expires
    <2> QED  BY <2>2, <2>3, <1>50, OthersOwn
<1>10. TimersOwn(gb, ts)
    <2>1. SUFFICES ASSUME NEW u \in ts PROVE TimerOwn(gb, u.item)
        BY DEF TimersOwn
    <2>2. TimerOwn(fb, u.item) /\ u.item.f \in Fiber
        BY <1>3 DEF Sound, Owned, TimersOwn, Task
    <2>3. CASE u.item.f # f0  BY <2>2, <2>3, <1>50, OthersOwn
    <2>4. CASE u.item.f = f0
        <3>1. ~Sleeping(ts, f0)  BY <1>1, <1>6 DEF Apart
        <3>2. u.item.kind = "timeout"  BY <3>1, <2>2, <2>4 DEF Sleeping, TimerOwn
        <3> QED  BY <3>2, <2>2, <2>4, <1>1, <1>5 DEF TimerOwn, Belongs
    <2> QED  BY <2>3, <2>4
<1>11. EventsOwn(gb, es)
    <2>1. \A e \in es : e.f # f0 /\ e.f \in Fiber
        BY <1>1, <1>3, <1>6 DEF Apart, Waiting
    <2> QED  BY <1>5, <2>1 DEF Sound, Owned, EventsOwn, EventOwn
<1>12. CallsOwn(gb, f0)
    BY <1>1, <1>5 DEF Sound, Owned, CallsOwn
<1>13. Sound(gb, t, ts, es, f0)
    BY <1>1, <1>3, <1>5, <1>8, <1>9, <1>10, <1>11, <1>12 DEF Sound, Typed, Owned
<1> QED  BY <1>2, <1>13 DEF gb, t, f0

\* What the prover needs to know of a running fiber f whose record becomes x: its
\* references are all there is to look at.
LEMMA RunningChanges ==
    ASSUME NEW fb, NEW q, NEW ts, NEW es, NEW c, Sound(fb, q, ts, es, c),
           NEW f \in Fiber, fb[f].state = "RUNNING",
           NEW gb, \A g \in Fiber : g # f => gb[g] = fb[g]
    PROVE  /\ TasksOwn(gb, q) /\ EventsOwn(gb, es)
           /\ \A t \in ts : t.item.f # f => TimerOwn(gb, t.item)
           /\ c = f
<1>1. /\ fb \in Fibers /\ q \in Seq(Task) /\ ts \subseteq [item : Task, due : BOOLEAN]
      /\ es \subseteq [fd : Fd, ev : Event, f : Fiber]
    BY DEF Sound, Typed
<1>3. ~Resumes(q, f) /\ ~Expires(q, f) /\ ~Waiting(es, f)
    BY Unreferred
<1>4. TasksOwn(gb, q)
    <2>1. SUFFICES ASSUME NEW i \in DOMAIN q PROVE TaskOwn(gb, q[i])
        BY DEF TasksOwn
    <2>2. TaskOwn(fb, q[i]) /\ q[i].f \in Fiber
        BY <1>1, TaskOfQueue DEF Sound, Owned, TasksOwn
    <2>3. q[i].f # f  BY <1>3 DEF Resumes, Expires
    <2> QED  BY <2>2, <2>3, OthersOwn
<1>5. EventsOwn(gb, es)
    <2>1. SUFFICES ASSUME NEW e \in es PROVE EventOwn(gb, e)
        BY DEF EventsOwn
    <2>2. EventOwn(fb, e) /\ e.f \in Fiber
        BY <1>1 DEF Sound, Owned, EventsOwn
    <2>3. e.f # f  BY <1>3 DEF Waiting
    <2> QED  BY <2>2, <2>3, OthersOwn
<1>6. ASSUME NEW t \in ts, t.item.f # f PROVE TimerOwn(gb, t.item)
    <2>2. TimerOwn(fb, t.item) /\ t.item.f \in Fiber
        BY <1>1 DEF Sound, Owned, TimersOwn, Task
    <2> QED  BY <2>2, <1>6, OthersOwn
<1>7. c = f  BY DEF Sound, Owned, CallsOwn
<1> QED  BY <1>4, <1>5, <1>6, <1>7

\* The running fiber goes to sleep.
LEMMA FiberSleeps ==
    ASSUME NEW fb, NEW q, NEW ts, NEW es, NEW c, Sound(fb, q, ts, es, c),
           NEW f \in Fiber, fb[f].state = "RUNNING", fb[f].call = None
    PROVE  Sound([fb EXCEPT ![f] = [state |-> "READY", call |-> None]], q,
                 ts \cup {Timer(Item("wake", f))}, es, None)
<1> DEFINE x == [state |-> "READY", call |-> None]
           gb == [fb EXCEPT ![f] = x]
           m == Item("wake", f)
           u == Timer(m)
           us == ts \cup {u}
<1>1. /\ ts \subseteq [item : Task, due : BOOLEAN] /\ IsFiniteSet(ts)
      /\ Typed(fb, q, ts, es)
    BY DEF Sound, Typed
<1>2. x \in [state : State, call : Call \cup {None}] /\ x.state = "READY" /\ x.call = None
    BY DEF State
<1> HIDE DEF x
<1>3. gb \in Fibers /\ gb[f] = x /\ \A g \in Fiber : g # f => gb[g] = fb[g]
    BY <1>1, <1>2 DEF Fibers, Typed
<1> HIDE DEF gb
<1>30. \A g \in Fiber : g # f => gb[g] = fb[g]
    BY <1>3
<1>31. /\ TasksOwn(gb, q) /\ EventsOwn(gb, es)
       /\ \A t \in ts : t.item.f # f => TimerOwn(gb, t.item)
       /\ c = f
    BY <1>30, RunningChanges
<1>4. /\ ~Resumes(q, f) /\ ~Expires(q, f) /\ ~Sleeping(ts, f) /\ ~Waiting(es, f)
      /\ \A t \in ts : t.item.f # f
    BY Unreferred
<1>5. m \in Task /\ m.kind = "wake" /\ m.f = f /\ m = Item("wake", m.f)
    BY FiberAssumption DEF Item, Task
<1> HIDE DEF m
<1>6. u \in [item : Task, due : BOOLEAN] /\ u.item = m
    BY <1>5 DEF Timer
<1> HIDE DEF u
<1>7. us \subseteq [item : Task, due : BOOLEAN] /\ IsFiniteSet(us)
    BY <1>1, <1>6, FS_AddElement
<1>8. OneTimer(us)
    BY <1>4, <1>5, <1>6 DEF Sound, Once, OneTimer
<1>9. \A g : /\ Sleeping(us, g) <=> Sleeping(ts, g) \/ g = f
             /\ Timing(us, g) <=> Timing(ts, g)
    BY <1>5, <1>6 DEF Sleeping, Timing
<1>10. \A g \in Fiber : Apart(q, ts, es, g) /\ Referred(fb, q, ts, es, g)
    BY DEF Sound, Once
<1> HIDE DEF us
<1>11. \A g \in Fiber : Apart(q, us, es, g) /\ Referred(gb, q, us, es, g)
    BY <1>2, <1>3, <1>4, <1>9, <1>10 DEF Apart, Referred, Yielded
<1>12. Once(gb, q, us, es)
    BY <1>8, <1>11 DEF Sound, Once
<1>13. TimersOwn(gb, us)
    <2>1. TimerOwn(gb, m)  BY <1>2, <1>3, <1>5 DEF TimerOwn
    <2> QED  BY <2>1, <1>31, <1>4, <1>6 DEF TimersOwn, us
<1>14. CallsOwn(gb, None)
    <2>1. None \notin Fiber  BY FiberAssumption
    <2> QED  BY <2>1, <1>2, <1>3, <1>31 DEF Sound, Owned, CallsOwn
<1> QED  BY <1>1, <1>3, <1>31, <1>7, <1>12, <1>13, <1>14 DEF Sound, Typed, Owned, gb, us, u, m, x

\* Without its timer, the running fiber has no reference at all.
LEMMA TimerCancelled ==
    ASSUME NEW fb, NEW q, NEW ts, NEW es, NEW c, Sound(fb, q, ts, es, c),
           NEW f \in Fiber, fb[f].state = "RUNNING"
    PROVE  LET us == {t \in ts : t.item # TimeoutItem(f, fb[f].call)}
           IN  /\ Sound(fb, q, us, es, c)
               /\ \A t \in us : t.item.f # f
<1> DEFINE us == {t \in ts : t.item # TimeoutItem(f, fb[f].call)}
<1>1. us \subseteq ts /\ IsFiniteSet(us)
    BY FS_Subset DEF Sound, Typed
<1>2. ~Sleeping(ts, f)
    BY Unreferred
<1>3. ASSUME NEW t \in ts, t.item.f = f PROVE t \notin us
    <2>1. TimerOwn(fb, t.item)  BY DEF Sound, Owned, TimersOwn
    <2>2. t.item.kind = "timeout"  BY <1>2, <1>3, <2>1 DEF Sleeping, TimerOwn
    <2> QED  BY <1>3, <2>1, <2>2 DEF TimerOwn, Belongs
<1>4. \A t \in ts : t.item.f # f => t \in us
    BY DEF TimeoutItem
<1> HIDE DEF us
<1>5. \A g : /\ Sleeping(us, g) <=> Sleeping(ts, g)
             /\ Timing(us, g) <=> Timing(ts, g) /\ g # f
    BY <1>1, <1>2, <1>3, <1>4 DEF Sleeping, Timing
<1>6. \A g \in Fiber : Apart(q, us, es, g) /\ Referred(fb, q, us, es, g)
    BY <1>5 DEF Sound, Once, Apart, Referred
<1>7. Once(fb, q, us, es)
    BY <1>1, <1>6 DEF Sound, Once, OneTimer
<1>8. Sound(fb, q, us, es, c)
    BY <1>1, <1>7 DEF Sound, Typed, Owned, TimersOwn
<1> QED  BY <1>1, <1>3, <1>8 DEF us

\* The running fiber, which has no timer, waits in call k.
LEMMA FiberBlocks ==
    ASSUME NEW fb, NEW q, NEW ts, NEW es, NEW c, Sound(fb, q, ts, es, c),
           NEW f \in Fiber, fb[f].state = "RUNNING", \A t \in ts : t.item.f # f,
           NEW k \in Call, ~k.cancelled,
           \A g \in Fiber : g # f /\ fb[g].call # None =>
                               ~(fb[g].call.fd = k.fd /\ fb[g].call.ev = k.ev)
    PROVE  /\ ~ \E e \in es : e.fd = k.fd /\ e.ev = k.ev
           /\ Sound([fb EXCEPT ![f] = [state |-> "READY", call |-> k]], q,
                    ts \cup (IF k.timed THEN {Timer(TimeoutItem(f, k))} ELSE {}),
                    es \cup {[fd |-> k.fd, ev |-> k.ev, f |-> f]}, None)
<1> DEFINE x == [state |-> "READY", call |-> k]
           gb == [fb EXCEPT ![f] = x]
           m == TimeoutItem(f, k)
           u == Timer(m)
           us == ts \cup (IF k.timed THEN {u} ELSE {})
           e0 == [fd |-> k.fd, ev |-> k.ev, f |-> f]
           ds == es \cup {e0}
<1>1. /\ ts \subseteq [item : Task, due : BOOLEAN] /\ IsFiniteSet(ts)
      /\ es \subseteq [fd : Fd, ev : Event, f : Fiber] /\ IsFiniteSet(es)
      /\ fb \in Fibers /\ q \in Seq(Task)
    BY DEF Sound, Typed
<1>2. /\ x \in [state : State, call : Call \cup {None}] /\ x.state = "READY" /\ x.call = k
      /\ k # None /\ k.id \in 1 .. MaxOps /\ k.fd \in Fd /\ k.ev \in Event
    BY FiberAssumption DEF State, Call
<1> HIDE DEF x
<1>3. gb \in Fibers /\ gb[f] = x /\ \A g \in Fiber : g # f => gb[g] = fb[g]
    BY <1>1, <1>2 DEF Fibers
<1> HIDE DEF gb
<1>30. \A g \in Fiber : g # f => gb[g] = fb[g]
    BY <1>3
<1>31. /\ TasksOwn(gb, q) /\ EventsOwn(gb, es)
       /\ \A t \in ts : t.item.f # f => TimerOwn(gb, t.item)
       /\ c = f
    BY <1>30, RunningChanges
<1>4. ~Resumes(q, f) /\ ~Expires(q, f) /\ ~Sleeping(ts, f) /\ ~Waiting(es, f)
    BY Unreferred
<1>5. m \in Task /\ m.kind = "timeout" /\ m.f = f
    BY <1>2, FiberAssumption DEF TimeoutItem, Task
<1>50. m = TimeoutItem(m.f, k)
    BY <1>5
<1> HIDE DEF m
<1>6. u \in [item : Task, due : BOOLEAN] /\ u.item = m
    BY <1>5 DEF Timer
<1> HIDE DEF u
<1>7. us \subseteq [item : Task, due : BOOLEAN] /\ IsFiniteSet(us)
    <2>1. us \subseteq [item : Task, due : BOOLEAN] /\ (us = ts \/ us = ts \cup {u})
        BY <1>1, <1>6
    <2>2. IsFiniteSet(ts \cup {u})
        BY <1>1, FS_AddElement
    <2> QED  BY <2>1, <2>2, <1>1
<1>8. \A t \in us : t \in ts \/ (t = u /\ k.timed)
    OBVIOUS
<1>9. OneTimer(us)
    BY <1>5, <1>6, <1>8 DEF Sound, Once, OneTimer
<1>10. \A t \in ts : t \in us  OBVIOUS
<1> HIDE DEF us
<1>11. \A g : /\ Sleeping(us, g) <=> Sleeping(ts, g)
              /\ Timing(us, g) => Timing(ts, g) \/ g = f
    BY <1>5, <1>6, <1>8, <1>10 DEF Sleeping, Timing
<1>12. e0 \in [fd : Fd, ev : Event, f : Fiber] /\ e0.f = f /\ e0.fd = k.fd /\ e0.ev = k.ev
    BY <1>2
<1> HIDE DEF e0
<1>13. ds \subseteq [fd : Fd, ev : Event, f : Fiber] /\ IsFiniteSet(ds)
    BY <1>1, <1>12, FS_AddElement
<1>14. OneEvent(ds) /\ \A g : Waiting(ds, g) <=> Waiting(es, g) \/ g = f
    BY <1>4, <1>12 DEF Sound, Once, OneEvent, Waiting
<1>15. \A e \in ds : e \in es \/ e = e0
    OBVIOUS
<1> HIDE DEF ds
<1>16. \A g \in Fiber : Apart(q, ts, es, g) /\ Referred(fb, q, ts, es, g)
    BY DEF Sound, Once
<1>17. \A g \in Fiber : Apart(q, us, ds, g)
    BY <1>4, <1>11, <1>14, <1>16 DEF Apart
<1>18. \A g \in Fiber : Referred(gb, q, us, ds, g)
    BY <1>2, <1>3, <1>11, <1>14, <1>16 DEF Referred, Yielded
<1>19. Once(gb, q, us, ds)
    BY <1>9, <1>14, <1>17, <1>18 DEF Sound, Once
<1>20. TimersOwn(gb, us)
    <2>1. k.timed => TimerOwn(gb, m)
        BY <1>2, <1>3, <1>5, <1>50 DEF TimerOwn, Belongs
    <2> QED  BY <2>1, <1>31, <1>6, <1>8 DEF TimersOwn
<1>21. EventsOwn(gb, ds)
    <2>1. EventOwn(gb, e0)
        BY <1>2, <1>3, <1>12 DEF EventOwn
    <2> QED  BY <2>1, <1>15, <1>31 DEF EventsOwn
<1>22. CallsOwn(gb, None)
    <2>1. \A g \in Fiber : /\ gb[g].call # None => gb[g].state \in {"READY", "RUNNING"}
                           /\ gb[g].state # "RUNNING"
        BY <1>2, <1>3, <1>31 DEF Sound, Owned, CallsOwn
    <2>2. ASSUME NEW g \in Fiber, NEW h \in Fiber, gb[g].call # None, gb[h].call # None,
                 gb[g].call.fd = gb[h].call.fd, gb[g].call.ev = gb[h].call.ev
          PROVE  g = h
        BY <1>2, <1>3, <2>2 DEF Sound, Owned, CallsOwn
    <2>3. None \notin Fiber  BY FiberAssumption
    <2> QED  BY <2>1, <2>2, <2>3 DEF CallsOwn
<1>23. Sound(gb, q, us, ds, None)
    BY <1>1, <1>3, <1>31, <1>7, <1>13, <1>19, <1>20, <1>21, <1>22 DEF Sound, Typed, Owned
<1>24. ASSUME NEW e \in es, e.fd = k.fd, e.ev = k.ev PROVE FALSE
    <2>1. EventOwn(fb, e) /\ e.f \in Fiber /\ e.f # f
        BY <1>1, <1>4 DEF Sound, Owned, EventsOwn, Waiting
    <2> QED  BY <2>1, <1>24 DEF EventOwn
<1> QED  BY <1>23, <1>24 DEF gb, us, u, m, x, e0, ds

\* The running fiber, which has no timer, returns from its call or ends.
LEMMA FiberReturns ==
    ASSUME NEW fb, NEW q, NEW ts, NEW es, NEW c, Sound(fb, q, ts, es, c),
           NEW f \in Fiber, fb[f].state = "RUNNING", \A t \in ts : t.item.f # f,
           NEW st \in {"RUNNING", "TERM"}
    PROVE  Sound([fb EXCEPT ![f] = [state |-> st, call |-> None]], q, ts, es,
                 IF st = "RUNNING" THEN f ELSE None)
<1> DEFINE x == [state |-> st, call |-> None]
           gb == [fb EXCEPT ![f] = x]
           d == IF st = "RUNNING" THEN f ELSE None
<1>1. Typed(fb, q, ts, es) /\ fb \in Fibers
    BY DEF Sound, Typed
<1>2. x \in [state : State, call : Call \cup {None}] /\ x.state = st /\ x.call = None
    BY DEF State
<1> HIDE DEF x
<1>3. gb \in Fibers /\ gb[f] = x /\ \A g \in Fiber : g # f => gb[g] = fb[g]
    BY <1>1, <1>2 DEF Fibers
<1> HIDE DEF gb
<1>30. \A g \in Fiber : g # f => gb[g] = fb[g]
    BY <1>3
<1>31. /\ TasksOwn(gb, q) /\ EventsOwn(gb, es)
       /\ \A t \in ts : t.item.f # f => TimerOwn(gb, t.item)
       /\ c = f
    BY <1>30, RunningChanges
<1>4. TimersOwn(gb, ts)
    BY <1>31 DEF TimersOwn
<1>5. \A g \in Fiber : Yielded(gb, g) <=> Yielded(fb, g)
    BY <1>2, <1>3 DEF Yielded
<1>6. Once(gb, q, ts, es)
    BY <1>5 DEF Sound, Once, Referred
<1>7. CallsOwn(gb, d)
    <2>1. None \notin Fiber  BY FiberAssumption
    <2>2. \A g \in Fiber : /\ gb[g].call # None => gb[g].state \in {"READY", "RUNNING"}
                           /\ gb[g].state = "RUNNING" <=> d = g
        BY <2>1, <1>2, <1>3, <1>31 DEF Sound, Owned, CallsOwn
    <2>3. \A g \in Fiber : gb[g].call # None => gb[g] = fb[g]
        BY <1>2, <1>3
    <2> HIDE DEF d
    <2> QED  BY <2>2, <2>3 DEF Sound, Owned, CallsOwn
<1> QED  BY <1>1, <1>3, <1>31, <1>4, <1>6, <1>7 DEF Sound, Typed, Owned, gb, x

\* A function that has not been scheduled is queued.
LEMMA FiberScheduled ==
    ASSUME NEW fb, NEW q, NEW ts, NEW es, NEW c, Sound(fb, q, ts, es, c),
           NEW f \in Fiber, fb[f].state = "none"
    PROVE  Sound([fb EXCEPT ![f].state = "scheduled"], Append(q, Item("start", f)), ts, es, c)
<1> DEFINE gb == [fb EXCEPT ![f].state = "scheduled"]
           m == Item("start", f)
           r == <<m>>
<1>1. /\ Typed(fb, q, ts, es) /\ fb \in Fibers /\ q \in Seq(Task)
      /\ ts \subseteq [item : Task, due : BOOLEAN]
      /\ es \subseteq [fd : Fd, ev : Event, f : Fiber]
    BY DEF Sound, Typed
<1>2. fb[f].call = None
    BY DEF Sound, Owned, CallsOwn
<1>3. gb \in Fibers /\ gb[f].state = "scheduled" /\ gb[f].call = None
    BY <1>1, <1>2 DEF Fibers, State
<1>30. \A g \in Fiber : g # f => gb[g] = fb[g]
    BY <1>1 DEF Fibers
<1> HIDE DEF gb
<1>4. /\ ~Resumes(q, f) /\ ~Expires(q, f) /\ ~Sleeping(ts, f) /\ ~Waiting(es, f)
      /\ \A t \in ts : t.item.f # f
    BY <1>2, Unreferred
<1>5. m \in Task /\ m.kind = "start" /\ m.f = f
    BY FiberAssumption DEF Item, Task
<1> HIDE DEF m
<1>6. /\ r \in Seq(Task) /\ Distinct(r) /\ InOrder(r) /\ \A i \in DOMAIN r : r[i] = m
      /\ \A g : Resumes(r, g) <=> f = g
      /\ \A g : ~Expires(r, g)
    BY <1>5, SingleQueue
<1> HIDE DEF r
<1>7. Distinct(q) /\ InOrder(q)
    BY DEF Sound, Once
<1>8. Distinct(q \o r) /\ InOrder(q \o r) /\ q \o r \in Seq(Task)
    BY <1>1, <1>4, <1>6, <1>7, ConcatDistinct, ConcatInOrder, ConcatElements
<1>9. \A g : /\ Resumes(q \o r, g) <=> Resumes(q, g) \/ f = g
             /\ Expires(q \o r, g) <=> Expires(q, g)
    BY <1>1, <1>6, ConcatRefers
<1>10. \A g \in Fiber : Apart(q, ts, es, g) /\ Referred(fb, q, ts, es, g)
    BY DEF Sound, Once
<1>11. \A g \in Fiber : Apart(q \o r, ts, es, g)
    BY <1>4, <1>9, <1>10 DEF Apart
<1>12. \A g \in Fiber : Referred(gb, q \o r, ts, es, g)
    BY <1>3, <1>30, <1>9, <1>10 DEF Referred, Yielded
<1>13. Once(gb, q \o r, ts, es)
    BY <1>8, <1>11, <1>12 DEF Sound, Once
<1>14. TasksOwn(gb, q \o r)
    <2>1. ASSUME NEW i \in DOMAIN q PROVE TaskOwn(gb, q[i])
        <3>1. TaskOwn(fb, q[i]) /\ q[i].f \in Fiber
            BY <1>1, TaskOfQueue DEF Sound, Owned, TasksOwn
        <3>2. q[i].f # f  BY <1>4 DEF Resumes, Expires
        <3> QED  BY <3>1, <3>2, <1>30, OthersOwn
    <2>2. \A i \in DOMAIN r : TaskOwn(gb, r[i])
        BY <1>3, <1>5, <1>6 DEF TaskOwn
    <2>3. \A i \in DOMAIN (q \o r) : \/ i \in DOMAIN q /\ (q \o r)[i] = q[i]
                                     \/ i - Len(q) \in DOMAIN r /\ (q \o r)[i] = r[i - Len(q)]
        BY <1>1, <1>6, ConcatElements
    <2> QED  BY <2>1, <2>2, <2>3 DEF TasksOwn
<1>15. TimersOwn(gb, ts)
    <2>1. SUFFICES ASSUME NEW t \in ts PROVE TimerOwn(gb, t.item)
        BY DEF TimersOwn
    <2>2. TimerOwn(fb, t.item) /\ t.item.f \in Fiber /\ t.item.f # f
        BY <1>1, <1>4 DEF Sound, Owned, TimersOwn, Task
    <2> QED  BY <2>2, <1>30, OthersOwn
<1>16. EventsOwn(gb, es)
    <2>1. SUFFICES ASSUME NEW e \in es PROVE EventOwn(gb, e)
        BY DEF EventsOwn
    <2>2. EventOwn(fb, e) /\ e.f \in Fiber /\ e.f # f
        BY <1>1, <1>4 DEF Sound, Owned, EventsOwn, Waiting
    <2> QED  BY <2>2, <1>30, OthersOwn
<1>17. CallsOwn(gb, c)
    <2>1. \A g \in Fiber : gb[g].call # None => gb[g] = fb[g]
        BY <1>3, <1>30
    <2>2. \A g \in Fiber : gb[g].state = "RUNNING" <=> fb[g].state = "RUNNING"
        BY <1>3, <1>30
    <2> QED  BY <2>1, <2>2 DEF Sound, Owned, CallsOwn
<1>18. Sound(gb, q \o r, ts, es, c)
    BY <1>1, <1>3, <1>8, <1>13, <1>14, <1>15, <1>16, <1>17 DEF Sound, Typed, Owned
<1> QED  BY <1>1, <1>5, <1>18, AppendIsConcat DEF gb, r, m

\* A timer is due.
LEMMA TimerDue ==
    ASSUME NEW fb, NEW q, NEW ts, NEW es, NEW c, Sound(fb, q, ts, es, c),
           NEW t \in ts
    PROVE  Sound(fb, q, (ts \ {t}) \cup {[t EXCEPT !.due = TRUE]}, es, c)
<1> DEFINE u == [t EXCEPT !.due = TRUE]
           us == (ts \ {t}) \cup {u}
<1>1. ts \subseteq [item : Task, due : BOOLEAN] /\ IsFiniteSet(ts)
    BY DEF Sound, Typed
<1>2. u \in [item : Task, due : BOOLEAN] /\ u.item = t.item
    BY <1>1
<1> HIDE DEF u
<1>3. us \subseteq [item : Task, due : BOOLEAN] /\ IsFiniteSet(us)
    BY <1>1, <1>2, FS_AddElement, FS_RemoveElement
<1>4. \A v \in us : \E w \in ts : v.item = w.item /\ (v = w \/ (w = t /\ v = u)) /\ (w = t => v = u)
    BY <1>2
<1>5. \A w \in ts : \E v \in us : v.item = w.item
    BY <1>2
<1> HIDE DEF us
<1>6. OneTimer(us)
    BY <1>4 DEF Sound, Once, OneTimer
<1>7. \A f : /\ Sleeping(us, f) <=> Sleeping(ts, f)
             /\ Timing(us, f) <=> Timing(ts, f)
    BY <1>4, <1>5 DEF Sleeping, Timing
<1>8. Once(fb, q, us, es)
    BY <1>6, <1>7 DEF Sound, Once, Apart, Referred
<1>9. TimersOwn(fb, us)
    BY <1>4 DEF Sound, Owned, TimersOwn
<1> QED  BY <1>3, <1>8, <1>9 DEF Sound, Typed, Owned, us, u
-----------------------------------------------------------------------------
(***************************************************************************)
(* The steps of the runtime.                                               *)
(***************************************************************************)

\* At first nothing is queued, set or registered.
LEMMA FiberInit == Init => FiberInv
<1> SUFFICES ASSUME Init PROVE FiberInv
    OBVIOUS
<1> USE DEF Init
<1>1. LoopTyped /\ Finished /\ ~panic /\ OnlyStarts(loop, tasks_)
    BY DEF LoopTyped, Finished, OnlyStarts
<1>2. DescriptorsTyped
    <2>1. ops \in 0 .. MaxOps /\ ready \subseteq Fd \X Event
        BY FiberAssumption
    <2>2. fdctx \in [Fd -> [open : BOOLEAN, nonblock : BOOLEAN, timeouts : SUBSET Event]]
        <3>1. \A ts \in {{}, Event} :
                 FdCtx(ts) \in [open : BOOLEAN, nonblock : BOOLEAN, timeouts : SUBSET Event]
            BY DEF FdCtx
        <3> QED  BY <3>1
    <2> QED  BY <2>1, <2>2 DEF DescriptorsTyped
<1>3. Counted
    BY FS_EmptySet DEF Counted
<1>4. Typed(fiber, tasks_, timers_, events)
    <2>1. fiber \in Fibers  BY DEF Fibers, State
    <2> QED  BY <2>1, FS_EmptySet, EmptyQueue DEF Typed
<1>5. Once(fiber, tasks_, timers_, events)
    <2>1. \A f \in Fiber : /\ ~Resumes(tasks_, f) /\ ~Expires(tasks_, f)
                           /\ ~Sleeping(timers_, f) /\ ~Waiting(events, f) /\ ~Yielded(fiber, f)
        BY EmptyQueue DEF Sleeping, Waiting, Yielded
    <2> QED  BY <2>1, EmptyQueue DEF Once, Apart, Referred, OneTimer, OneEvent
<1>6. Owned(fiber, tasks_, timers_, events, cur)
    BY FiberAssumption DEF Owned, TasksOwn, TimersOwn, EventsOwn, CallsOwn
<1> QED  BY <1>1, <1>2, <1>3, <1>4, <1>5, <1>6 DEF FiberInv, Sound

\* The invariant holds the type invariant of the module.
LEMMA FiberInvTypes == FiberInv => TypeOK
BY DEF FiberInv, TypeOK, LoopTyped, DescriptorsTyped, Counted, Sound, Typed, Fibers

\* Some contexts are triggered, and the counter follows.
LEMMA TriggerCounts ==
    ASSUME Counted, IsFiniteSet(events), NEW W, W \subseteq events, triggerEvent(W)
    PROVE  Counted'
<1>1. Cardinality(events \ W) = Cardinality(events) - Cardinality(events \cap W)
    BY FS_Difference
<1>2. events \cap W = W  OBVIOUS
<1> QED  BY <1>1, <1>2 DEF Counted, triggerEvent

\* A context is registered that was not there.
LEMMA AddCounts ==
    ASSUME Counted, IsFiniteSet(events), NEW f, NEW c, addEvent(f, c),
           ~ \E e \in events : e.fd = c.fd /\ e.ev = c.ev
    PROVE  Counted'
<1>1. [fd |-> c.fd, ev |-> c.ev, f |-> f] \notin events
    OBVIOUS
<1>2. Cardinality(events \cup {[fd |-> c.fd, ev |-> c.ev, f |-> f]}) = Cardinality(events) + 1
    BY <1>1, FS_AddElement
<1> QED  BY <1>2 DEF Counted, addEvent

\* Scheduler::scheduler() by the main thread queues one function.
LEMMA SchedulesStep ==
    ASSUME FiberInv, NEW f \in Fiber, Schedules(f)
    PROVE  FiberInv'
<1>1. Sound(fiber', tasks_', timers_', events', cur')
    BY FiberScheduled DEF FiberInv, Schedules, io, thread
<1>2. /\ LoopTyped' /\ DescriptorsTyped' /\ Counted' /\ ~panic'
    BY DEF FiberInv, Schedules, io, thread, LoopTyped, DescriptorsTyped, Counted
<1>3. OnlyStarts(loop', tasks_')
    <2>1. tasks_ \in Seq(Task)  BY DEF FiberInv, Sound, Typed
    <2>2. tasks_' = Append(tasks_, Item("start", f)) /\ loop' = loop
        BY DEF Schedules, thread
    <2>3. \A i \in DOMAIN tasks_' : \/ i \in DOMAIN tasks_ /\ tasks_'[i] = tasks_[i]
                                    \/ tasks_'[i] = Item("start", f)
        BY <2>1, <2>2, AppendProperties
    <2>4. Item("start", f).kind = "start"  BY DEF Item
    <2> QED  BY <2>2, <2>3, <2>4 DEF FiberInv, OnlyStarts
<1>4. Finished'
    BY DEF FiberInv, Schedules, io, thread, Finished
<1> QED  BY <1>1, <1>2, <1>3, <1>4 DEF FiberInv

\* The steps that touch neither a fiber nor a reference to one.
LEMMA OtherSteps ==
    ASSUME FiberInv,
           \/ MainTickles \/ stop \/ FindsNone \/ GoesIdle \/ IdleChecks
           \/ \E fd \in Fd, ev \in Event : Arrives(fd, ev)
           \/ \E f \in Fiber, fd \in Fd, ev \in Event : setsockopt(f, fd, ev)
           \/ \E f \in Fiber, fd \in Fd, nonblock \in BOOLEAN : fcntl(f, fd, nonblock)
    PROVE  FiberInv'
<1>1. UNCHANGED <<fiber, tasks_, timers_, events, pendingEventCnt_, cur, panic>>
    BY DEF MainTickles, stop, FindsNone, GoesIdle, IdleChecks, Arrives, setsockopt, fcntl,
           io, thread
<1>2. Sound(fiber, tasks_, timers_, events, cur)' /\ Counted' /\ ~panic'
    BY <1>1 DEF FiberInv, Counted
<1>3. LoopTyped' /\ OnlyStarts(loop', tasks_')
    <2>1. CASE UNCHANGED thread
        BY <2>1, <1>1 DEF FiberInv, LoopTyped, thread, OnlyStarts
    <2>2. CASE FindsNone
        BY <2>2 DEF FiberInv, LoopTyped, FindsNone, OnlyStarts
    <2>3. CASE GoesIdle
        BY <2>3 DEF FiberInv, LoopTyped, GoesIdle, OnlyStarts
    <2>4. CASE IdleChecks
        BY <2>4 DEF FiberInv, LoopTyped, IdleChecks, OnlyStarts
    <2> QED  BY <2>1, <2>2, <2>3, <2>4 DEF MainTickles, stop, Arrives, setsockopt, fcntl, thread
<1>4. DescriptorsTyped'
    <2>1. CASE UNCHANGED <<fdctx, ready, ops>>
        BY <2>1 DEF FiberInv, DescriptorsTyped
    <2>2. ASSUME NEW fd \in Fd, NEW ev \in Event, Arrives(fd, ev) PROVE DescriptorsTyped'
        BY <2>2 DEF FiberInv, DescriptorsTyped, Arrives
    <2>3. ASSUME NEW f \in Fiber, NEW fd \in Fd, NEW ev \in Event, setsockopt(f, fd, ev)
          PROVE  DescriptorsTyped'
        BY <2>3, FiberAssumption DEF FiberInv, DescriptorsTyped, setsockopt, Op
    <2>4. ASSUME NEW f \in Fiber, NEW fd \in Fd, NEW nonblock \in BOOLEAN, fcntl(f, fd, nonblock)
          PROVE  DescriptorsTyped'
        BY <2>4, FiberAssumption DEF FiberInv, DescriptorsTyped, fcntl, Op
    <2> QED  BY <2>1, <2>2, <2>3, <2>4 DEF MainTickles, stop, FindsNone, GoesIdle, IdleChecks, io
<1>5. Finished'
    <2>1. CASE UNCHANGED <<loop, idleTerm>>
        BY <2>1, <1>1 DEF FiberInv, Finished, MainTickles, stop, FindsNone, GoesIdle, IdleChecks,
                          Arrives, setsockopt, fcntl
    <2>2. CASE FindsNone
        BY <2>2, <1>1 DEF FiberInv, Finished, FindsNone
    <2>3. CASE GoesIdle
        BY <2>3, <1>1 DEF FiberInv, Finished, GoesIdle
    <2>4. CASE IdleChecks
        <3>1. stopping => events = {}
            <4>1. IsFiniteSet(events)  BY DEF FiberInv, Sound, Typed
            <4> QED  BY <4>1, FS_EmptySet DEF stopping, FiberInv, Counted
        <3> QED  BY <2>4, <3>1, <1>1 DEF FiberInv, Finished, IdleChecks, stopping
    <2> QED  BY <2>1, <2>2, <2>3, <2>4 DEF MainTickles, stop, Arrives, setsockopt, fcntl, thread
<1> QED  BY <1>2, <1>3, <1>4, <1>5 DEF FiberInv

\* A timeout callback that is taken always belongs to the current call of its fiber.
LEMMA TakesStep ==
    ASSUME FiberInv, Takes
    PROVE  FiberInv'
<1> DEFINE task == Head(tasks_)
<1>1. /\ Sound(fiber, tasks_, timers_, events, cur) /\ tasks_ # <<>> /\ loop = "take"
      /\ timers_' = timers_ /\ cur \notin Fiber /\ cur = None
    BY FiberAssumption DEF FiberInv, LoopTyped, Takes
<1>2. /\ task.f \in Fiber /\ UNCHANGED <<idleThreadCnt_, idleTerm, isStopped_, fdctx, ready, ops>>
    BY <1>1, TakenOff DEF Takes
<1>3. DescriptorsTyped'
    BY <1>2 DEF FiberInv, DescriptorsTyped
<1>4. Finished' /\ OnlyStarts(loop', tasks_')
    <2>1. ~idleTerm  BY <1>1 DEF FiberInv, Finished
    <2>2. loop' \in {"take", "fiber"}  BY <1>1 DEF Takes
    <2> QED  BY <2>1, <2>2, <1>2 DEF Finished, OnlyStarts
<1>5. CASE /\ task.kind = "wake" /\ tasks_' = Append(Tail(tasks_), Item("fiber", task.f))
           /\ UNCHANGED <<fiber, events, pendingEventCnt_, loop, cur, panic>>
    <2>1. Sound(fiber, tasks_, timers_, events, cur)'
        BY <1>1, <1>5, SleepEnds
    <2>2. LoopTyped' /\ Counted' /\ ~panic'
        BY <1>2, <1>5 DEF FiberInv, LoopTyped, Counted
    <2> QED  BY <2>1, <2>2, <1>3, <1>4 DEF FiberInv
<1>6. CASE /\ task.kind = "timeout" /\ OnTimer(task) /\ UNCHANGED <<loop, cur, panic>>
    <2> DEFINE gb == [fiber EXCEPT ![task.f].call.cancelled = TRUE]
               W == {e \in events : e.fd = task.fd /\ e.ev = task.ev}
               s == SetToSeq(W)
    <2>1. Belongs(fiber, task) /\ Sound(gb, Tail(tasks_), timers_, events, cur)
        BY <1>1, <1>6, CallExpires
    <2>2. Current(task)
        BY <2>1 DEF Belongs, Current, TimeoutItem
    <2>3. /\ fiber' = gb /\ triggerEvent(W)
          /\ tasks_' = Tail(tasks_) \o Resumptions(s)
        BY <2>2, <1>6 DEF OnTimer, cancelEvent
    <2> HIDE DEF gb
    <2>4. Sound(gb, Tail(tasks_) \o Resumptions(s), timers_, events \ W, cur)
        BY <2>1, Triggers
    <2>5. Sound(fiber, tasks_, timers_, events, cur)'
        BY <2>3, <2>4, <1>1, <1>6 DEF triggerEvent
    <2>6. LoopTyped' /\ ~panic'
        BY <1>2, <1>6 DEF FiberInv, LoopTyped
    <2>7. Counted'
        BY <2>3, TriggerCounts DEF FiberInv, Sound, Typed
    <2> QED  BY <2>5, <2>6, <2>7, <1>3, <1>4 DEF FiberInv
<1>7. CASE /\ task.kind \in {"start", "fiber"}
           /\ panic' = (panic \/ (task.kind = "fiber" /\ fiber[task.f].state # "READY"))
           /\ fiber' = [fiber EXCEPT ![task.f].state = "RUNNING"]
           /\ tasks_' = Tail(tasks_)
           /\ loop' = "fiber" /\ cur' = task.f
           /\ UNCHANGED <<events, pendingEventCnt_>>
    <2>1. /\ task.kind = "fiber" => fiber[task.f].state = "READY"
          /\ Sound([fiber EXCEPT ![task.f].state = "RUNNING"], Tail(tasks_), timers_, events, task.f)
        BY <1>1, <1>7, FiberRuns
    <2>2. Sound(fiber, tasks_, timers_, events, cur)'
        BY <2>1, <1>1, <1>7
    <2>3. LoopTyped'
        BY <1>1, <1>2, <1>7, FiberAssumption DEF FiberInv, LoopTyped
    <2>4. Counted'
        BY <1>7 DEF FiberInv, Counted
    <2>5. ~panic'
        BY <2>1, <1>7 DEF FiberInv
    <2> QED  BY <2>2, <2>3, <2>4, <2>5, <1>3, <1>4 DEF FiberInv
<1> QED  BY <1>5, <1>6, <1>7 DEF Takes

\* epoll_wait returns: due timers and triggered events move into the queue, timers first.
LEMMA WakesStep ==
    ASSUME FiberInv, Wakes
    PROVE  FiberInv'
<1> DEFINE due == listExpiredCb
           hits == {e \in events : <<e.fd, e.ev>> \in ready}
<1>1. PICK cbs \in SetToSeqs({t.item : t \in due}), waits \in SetToSeqs(hits) :
          tasks_' = tasks_ \o cbs \o Resumptions(waits)
    BY DEF Wakes
<1>2. /\ loop = "wait" /\ timers_' = timers_ \ due /\ triggerEvent(hits)
      /\ loop' = "take" /\ idleThreadCnt_' = 0
      /\ UNCHANGED <<fiber, cur, idleTerm, isStopped_, fdctx, ready, panic, ops>>
    BY DEF Wakes
<1>3. /\ Sound(fiber, tasks_, timers_, events, cur) /\ cur \notin Fiber
      /\ \A i \in DOMAIN tasks_ : tasks_[i].kind = "start"
    BY <1>2, FiberAssumption DEF FiberInv, LoopTyped, OnlyStarts
<1>4. due \subseteq timers_ /\ hits \subseteq events
    BY DEF listExpiredCb
<1> HIDE DEF due, hits
<1>5. Sound(fiber, tasks_ \o cbs, timers_ \ due, events, cur)
    BY <1>3, <1>4, Fires
<1>6. Sound(fiber, (tasks_ \o cbs) \o Resumptions(waits), timers_ \ due, events \ hits, cur)
    BY <1>4, <1>5, Triggers
<1>7. Sound(fiber, tasks_, timers_, events, cur)'
    BY <1>1, <1>2, <1>6 DEF triggerEvent
<1>8. LoopTyped' /\ DescriptorsTyped' /\ ~panic' /\ OnlyStarts(loop', tasks_')
    BY <1>2 DEF FiberInv, LoopTyped, DescriptorsTyped, OnlyStarts
<1>9. Counted'
    BY <1>2, <1>4, TriggerCounts DEF FiberInv, Sound, Typed
<1>10. Finished'
    BY <1>2 DEF FiberInv, Finished
<1> QED  BY <1>7, <1>8, <1>9, <1>10 DEF FiberInv

\* A timer that becomes due changes no reference.
LEMMA TimePassesStep ==
    ASSUME FiberInv, TimePasses
    PROVE  FiberInv'
<1>1. PICK t \in timers_ :
          /\ timers_' = (timers_ \ {t}) \cup {[t EXCEPT !.due = TRUE]}
          /\ UNCHANGED <<fiber, tasks_, thread, isStopped_, events, pendingEventCnt_, fdctx, ready,
                         panic, ops>>
    BY DEF TimePasses
<1>2. Sound(fiber, tasks_, timers_, events, cur)'
    BY <1>1, TimerDue DEF FiberInv, thread
<1>3. LoopTyped' /\ DescriptorsTyped' /\ Counted' /\ ~panic' /\ OnlyStarts(loop', tasks_')
    BY <1>1 DEF FiberInv, LoopTyped, DescriptorsTyped, Counted, OnlyStarts, thread
<1>4. Finished'
    BY <1>1 DEF FiberInv, Finished, thread
<1> QED  BY <1>2, <1>3, <1>4 DEF FiberInv

\* The fiber that is running: nothing has stopped, and without a call it has no timer.
LEMMA RunningFiber ==
    ASSUME FiberInv, NEW f \in Fiber, loop = "fiber", cur = f
    PROVE  /\ Sound(fiber, tasks_, timers_, events, cur) /\ fiber[f].state = "RUNNING"
           /\ fiber \in Fibers /\ ~idleTerm /\ loop # "exited"
           /\ fiber[f].call = None => \A t \in timers_ : t.item.f # f
<1>1. Sound(fiber, tasks_, timers_, events, cur) /\ fiber[f].state = "RUNNING"
    BY DEF FiberInv, Sound, Owned, CallsOwn
<1>2. fiber[f].call = None => \A t \in timers_ : t.item.f # f
    BY <1>1, Unreferred
<1> QED  BY <1>1, <1>2 DEF FiberInv, Finished, Sound, Typed

\* usleep leaves the fiber with a timer as its only reference.
LEMMA SleepsStep ==
    ASSUME FiberInv, NEW f \in Fiber, Sleeps(f)
    PROVE  FiberInv'
<1>1. loop = "fiber" /\ cur = f /\ fiber[f].call = None /\ ops < MaxOps /\ ops' = ops + 1
    BY DEF Sleeps, Op, Runs
<1>2. /\ Sound(fiber, tasks_, timers_, events, cur) /\ fiber[f].state = "RUNNING" /\ ~idleTerm
    BY <1>1, RunningFiber
<1>3. Sound([fiber EXCEPT ![f] = [state |-> "READY", call |-> None]], tasks_,
            timers_ \cup {Timer(Item("wake", f))}, events, None)
    BY <1>1, <1>2, FiberSleeps
<1>4. Sound(fiber, tasks_, timers_, events, cur)'
    BY <1>3 DEF Sleeps, Yield
<1>5. LoopTyped' /\ OnlyStarts(loop', tasks_') /\ Finished' /\ Counted' /\ ~panic'
    BY <1>1, <1>2 DEF FiberInv, LoopTyped, OnlyStarts, Finished, Counted, Sleeps, Yield
<1>6. DescriptorsTyped'
    BY <1>1, FiberAssumption DEF FiberInv, DescriptorsTyped, Sleeps
<1> QED  BY <1>4, <1>5, <1>6 DEF FiberInv

\* The running fiber, rid of its timers, returns from its call.
LEMMA ReturnsStep ==
    ASSUME FiberInv, NEW f \in Fiber, loop = "fiber", cur = f,
           NEW ts, Sound(fiber, tasks_, ts, events, cur), \A t \in ts : t.item.f # f,
           NEW used, Returns(f, ts, used),
           UNCHANGED <<tasks_, idleThreadCnt_, idleTerm, isStopped_, fdctx>>,
           ops' \in 0 .. MaxOps
    PROVE  FiberInv'
<1>1. fiber[f].state = "RUNNING" /\ fiber \in Fibers /\ ~idleTerm
    BY RunningFiber
<1>2. Sound([fiber EXCEPT ![f] = [state |-> "RUNNING", call |-> None]], tasks_, ts, events, f)
    BY <1>1, FiberReturns
<1>3. fiber' = [fiber EXCEPT ![f] = [state |-> "RUNNING", call |-> None]]
    <2>1. [fiber[f] EXCEPT !.call = None] = [state |-> "RUNNING", call |-> None]
        BY <1>1 DEF Fibers
    <2>2. fiber' = [fiber EXCEPT ![f] = [fiber[f] EXCEPT !.call = None]]
        BY DEF Returns
    <2> QED  BY <2>1, <2>2
<1>4. Sound(fiber, tasks_, timers_, events, cur)'
    BY <1>2, <1>3 DEF Returns
<1>5. LoopTyped' /\ OnlyStarts(loop', tasks_') /\ Finished' /\ Counted' /\ ~panic'
    BY <1>1 DEF FiberInv, LoopTyped, OnlyStarts, Finished, Counted, Returns
<1>6. DescriptorsTyped'
    BY DEF FiberInv, DescriptorsTyped, Returns
<1> QED  BY <1>4, <1>5, <1>6 DEF FiberInv

\* The running fiber, rid of its timers, tries the system call of k.
LEMMA TriesStep ==
    ASSUME FiberInv, NEW f \in Fiber, loop = "fiber", cur = f,
           NEW ts, Sound(fiber, tasks_, ts, events, cur), \A t \in ts : t.item.f # f,
           NEW k \in Call, ~k.cancelled,
           \A g \in Fiber : g # f /\ fiber[g].call # None =>
                               ~(fiber[g].call.fd = k.fd /\ fiber[g].call.ev = k.ev),
           Tries(f, k, ts),
           UNCHANGED <<tasks_, idleThreadCnt_, idleTerm, isStopped_, fdctx>>,
           ops' \in 0 .. MaxOps
    PROVE  FiberInv'
<1>1. fiber[f].state = "RUNNING" /\ fiber \in Fibers /\ ~idleTerm
    BY RunningFiber
<1>2. ASSUME NEW used, Returns(f, ts, used) PROVE FiberInv'
    BY <1>2, ReturnsStep
<1>3. CASE Blocks(f, k, ts)
    <2>1. /\ ~ \E e \in events : e.fd = k.fd /\ e.ev = k.ev
          /\ Sound([fiber EXCEPT ![f] = [state |-> "READY", call |-> k]], tasks_,
                   ts \cup (IF k.timed THEN {Timer(TimeoutItem(f, k))} ELSE {}),
                   events \cup {[fd |-> k.fd, ev |-> k.ev, f |-> f]}, None)
        BY <1>1, FiberBlocks
    <2>2. Sound(fiber, tasks_, timers_, events, cur)'
        BY <2>1, <1>3 DEF Blocks, addEvent, Yield
    <2>3. Counted'
        <3>1. IsFiniteSet(events) /\ addEvent(f, k)  BY <1>3 DEF Blocks, Sound, Typed
        <3> QED  BY <2>1, <3>1, AddCounts DEF FiberInv
    <2>4. ~panic'
        BY <2>1, <1>3 DEF FiberInv, Blocks, addEvent
    <2>5. LoopTyped' /\ OnlyStarts(loop', tasks_') /\ Finished'
        BY <1>1, <1>3 DEF FiberInv, LoopTyped, OnlyStarts, Finished, Blocks, Yield
    <2>6. DescriptorsTyped'
        BY <1>3 DEF FiberInv, DescriptorsTyped, Blocks
    <2> QED  BY <2>2, <2>3, <2>4, <2>5, <2>6 DEF FiberInv
<1> QED  BY <1>2, <1>3 DEF Tries

\* A hooked call that would block leaves the fiber with an event, and its timed call with a
\* timer.
LEMMA EntersStep ==
    ASSUME FiberInv, NEW f \in Fiber, NEW fd \in Fd, NEW ev \in Event, NEW kind \in {"io", "connect"},
           Enters(f, fd, ev, kind)
    PROVE  FiberInv'
<1> DEFINE k == [id |-> ops + 1, kind |-> kind, fd |-> fd, ev |-> ev, cancelled |-> FALSE,
                 timed |-> kind = "connect" \/ hasTimeout(fd, ev)]
<1>1. loop = "fiber" /\ cur = f /\ fiber[f].call = None /\ ops < MaxOps /\ ops' = ops + 1
    BY DEF Enters, Op, Runs
<1>2. /\ Sound(fiber, tasks_, timers_, events, cur) /\ \A t \in timers_ : t.item.f # f
    BY <1>1, RunningFiber
<1>3. ops' \in 0 .. MaxOps /\ ops + 1 \in 1 .. MaxOps
    BY <1>1, FiberAssumption DEF FiberInv, DescriptorsTyped
<1>4. /\ k \in Call /\ ~k.cancelled /\ k.fd = fd /\ k.ev = ev
    BY <1>3 DEF Call
<1>5. /\ UNCHANGED <<tasks_, idleThreadCnt_, idleTerm, isStopped_, fdctx>>
      /\ \/ Returns(f, timers_, {<<fd, ev>>})
         \/ Tries(f, k, timers_)
      /\ \A g \in Fiber : fiber[g].call # None => ~(fiber[g].call.fd = fd /\ fiber[g].call.ev = ev)
    BY DEF Enters
<1> HIDE DEF k
<1>6. CASE Returns(f, timers_, {<<fd, ev>>})
    BY <1>1, <1>2, <1>3, <1>5, <1>6, ReturnsStep
<1>7. CASE Tries(f, k, timers_)
    BY <1>1, <1>2, <1>3, <1>4, <1>5, <1>7, TriesStep
<1> QED  BY <1>5, <1>6, <1>7

\* A resumed call cancels its timer and tries again, waits again, or returns.
LEMMA ContinuesStep ==
    ASSUME FiberInv, NEW f \in Fiber, Continues(f)
    PROVE  FiberInv'
<1> DEFINE k == fiber[f].call
           ts == Cancelled(f, k)
<1>1. /\ loop = "fiber" /\ cur = f /\ k # None
      /\ UNCHANGED <<tasks_, idleThreadCnt_, idleTerm, isStopped_, fdctx, ops>>
      /\ \/ Returns(f, ts, {})
         \/ ~k.cancelled /\ Tries(f, k, ts)
    BY DEF Continues
<1>2. /\ Sound(fiber, tasks_, timers_, events, cur) /\ fiber[f].state = "RUNNING"
      /\ fiber \in Fibers
    BY <1>1, RunningFiber
<1>3. Sound(fiber, tasks_, ts, events, cur) /\ \A t \in ts : t.item.f # f
    BY <1>2, TimerCancelled DEF Cancelled
<1>4. ops' \in 0 .. MaxOps
    BY <1>1 DEF FiberInv, DescriptorsTyped
<1>5. k \in Call
    BY <1>1, <1>2 DEF Fibers
<1>6. \A g \in Fiber : g # f /\ fiber[g].call # None =>
                          ~(fiber[g].call.fd = k.fd /\ fiber[g].call.ev = k.ev)
    BY <1>1, <1>2 DEF Sound, Owned, CallsOwn
<1> HIDE DEF k, ts
<1>7. CASE Returns(f, ts, {})
    BY <1>1, <1>3, <1>4, <1>7, ReturnsStep
<1>8. CASE ~k.cancelled /\ Tries(f, k, ts)
    BY <1>1, <1>3, <1>4, <1>5, <1>6, <1>8, TriesStep
<1> QED  BY <1>1, <1>7, <1>8

\* close() triggers the events of the descriptor: each waiting fiber moves from its event
\* into the queue.
LEMMA ClosesStep ==
    ASSUME FiberInv, NEW f \in Fiber, NEW fd \in Fd, closes(f, fd)
    PROVE  FiberInv'
<1> DEFINE W == cancelAll(fd)
           s == SetToSeq(W)
<1>1. loop = "fiber" /\ cur = f /\ ops < MaxOps /\ ops' = ops + 1
    BY DEF closes, Op, Runs
<1>2. /\ Sound(fiber, tasks_, timers_, events, cur) /\ ~idleTerm
    BY <1>1, RunningFiber
<1>3. W \subseteq events
    BY DEF cancelAll
<1>4. /\ triggerEvent(W) /\ tasks_' = tasks_ \o Resumptions(s)
      /\ fdctx' = [fdctx EXCEPT ![fd].open = FALSE]
      /\ ready' = {r \in ready : r[1] # fd}
      /\ UNCHANGED <<fiber, thread, isStopped_, timers_, panic>>
    BY DEF closes
<1> HIDE DEF W
<1>5. Sound(fiber, tasks_ \o Resumptions(s), timers_, events \ W, cur)
    BY <1>2, <1>3, Triggers
<1>6. Sound(fiber, tasks_, timers_, events, cur)'
    BY <1>4, <1>5 DEF triggerEvent, thread
<1>7. Counted'
    BY <1>3, <1>4, TriggerCounts DEF FiberInv, Sound, Typed
<1>8. LoopTyped' /\ OnlyStarts(loop', tasks_') /\ Finished' /\ ~panic'
    BY <1>1, <1>2, <1>4 DEF FiberInv, LoopTyped, OnlyStarts, Finished, thread
<1>9. DescriptorsTyped'
    <2>1. fdctx' \in [Fd -> [open : BOOLEAN, nonblock : BOOLEAN, timeouts : SUBSET Event]]
        BY <1>4 DEF FiberInv, DescriptorsTyped
    <2>2. ready' \subseteq Fd \X Event
        BY <1>4 DEF FiberInv, DescriptorsTyped
    <2>3. ops' \in 0 .. MaxOps
        BY <1>1, FiberAssumption DEF FiberInv, DescriptorsTyped
    <2> QED  BY <2>1, <2>2, <2>3 DEF DescriptorsTyped
<1> QED  BY <1>6, <1>7, <1>8, <1>9 DEF FiberInv

\* A fiber that returns has no reference left.
LEMMA EndsStep ==
    ASSUME FiberInv, NEW f \in Fiber, Ends(f)
    PROVE  FiberInv'
<1>1. loop = "fiber" /\ cur = f /\ fiber[f].call = None
    BY DEF Ends, Runs
<1>2. /\ Sound(fiber, tasks_, timers_, events, cur) /\ fiber[f].state = "RUNNING"
      /\ fiber \in Fibers /\ ~idleTerm /\ \A t \in timers_ : t.item.f # f
    BY <1>1, RunningFiber
<1>3. Sound([fiber EXCEPT ![f] = [state |-> "TERM", call |-> None]], tasks_, timers_, events, None)
    <2>1. "TERM" \in {"RUNNING", "TERM"} /\ "TERM" # "RUNNING"
        OBVIOUS
    <2>2. Sound([fiber EXCEPT ![f] = [state |-> "TERM", call |-> None]], tasks_, timers_, events,
                IF "TERM" = "RUNNING" THEN f ELSE None)
        BY <1>2, <2>1, FiberReturns
    <2> QED  BY <2>1, <2>2
<1>4. fiber' = [fiber EXCEPT ![f] = [state |-> "TERM", call |-> None]]
    <2>1. [fiber[f] EXCEPT !.state = "TERM"] = [state |-> "TERM", call |-> None]
        BY <1>1, <1>2 DEF Fibers
    <2>2. fiber' = [fiber EXCEPT ![f] = [fiber[f] EXCEPT !.state = "TERM"]]
        BY DEF Ends
    <2> QED  BY <2>1, <2>2
<1>5. Sound(fiber, tasks_, timers_, events, cur)'
    BY <1>3, <1>4 DEF Ends, io
<1>6. /\ LoopTyped' /\ OnlyStarts(loop', tasks_') /\ Finished' /\ ~panic'
      /\ DescriptorsTyped' /\ Counted'
    BY <1>1, <1>2 DEF FiberInv, LoopTyped, OnlyStarts, Finished, DescriptorsTyped, Counted, Ends, io
<1> QED  BY <1>5, <1>6 DEF FiberInv

\* The steps of the running fiber.
LEMMA FiberStepKeeps ==
    ASSUME FiberInv, NEW f \in Fiber, FiberStep(f)
    PROVE  FiberInv'
<1>1. CASE Sleeps(f)  BY <1>1, SleepsStep
<1>2. CASE Continues(f)  BY <1>2, ContinuesStep
<1>3. CASE Ends(f)  BY <1>3, EndsStep
<1>4. ASSUME NEW fd \in Fd, NEW ev \in Event, do_io(f, fd, ev) PROVE FiberInv'
    BY <1>4, EntersStep DEF do_io
<1>5. ASSUME NEW fd \in Fd, connect_with_timeout(f, fd) PROVE FiberInv'
    BY <1>5, EntersStep DEF connect_with_timeout, Event
<1>6. ASSUME NEW fd \in Fd, closes(f, fd) PROVE FiberInv'
    BY <1>6, ClosesStep
<1>7. ASSUME NEW fd \in Fd, NEW ev \in Event, setsockopt(f, fd, ev) PROVE FiberInv'
    BY <1>7, OtherSteps
<1>8. ASSUME NEW fd \in Fd, NEW nonblock \in BOOLEAN, fcntl(f, fd, nonblock) PROVE FiberInv'
    BY <1>8, OtherSteps
<1> QED  BY <1>1, <1>2, <1>3, <1>4, <1>5, <1>6, <1>7, <1>8 DEF FiberStep

\* Every step of the runtime keeps the invariant.
LEMMA FiberNext == FiberInv /\ [Next]_vars => FiberInv'
<1> SUFFICES ASSUME FiberInv, [Next]_vars PROVE FiberInv'
    OBVIOUS
<1>1. CASE UNCHANGED vars
    BY <1>1 DEF FiberInv, vars, thread, io, LoopTyped, DescriptorsTyped, Counted, Finished
<1>2. ASSUME NEW f \in Fiber, Schedules(f) PROVE FiberInv'
    BY <1>2, SchedulesStep
<1>3. CASE MainTickles \/ stop  BY <1>3, OtherSteps
<1>4. CASE Takes  BY <1>4, TakesStep
<1>5. CASE FindsNone \/ GoesIdle \/ IdleChecks  BY <1>5, OtherSteps
<1>6. CASE Wakes  BY <1>6, WakesStep
<1>7. ASSUME NEW f \in Fiber, FiberStep(f) PROVE FiberInv'
    BY <1>7, FiberStepKeeps
<1>8. ASSUME NEW fd \in Fd, NEW ev \in Event, Arrives(fd, ev) PROVE FiberInv'
    BY <1>8, OtherSteps
<1>9. CASE TimePasses  BY <1>9, TimePassesStep
<1> QED  BY <1>1, <1>2, <1>3, <1>4, <1>5, <1>6, <1>7, <1>8, <1>9 DEF Next, ThreadStep, RunStep

\* The invariant holds in every state the runtime reaches (Init and Next of scheduler.cpp,
\* iomanager.cpp, timer.cpp and hook.cpp).
THEOREM FiberInvariant == Spec => []FiberInv
<1>1. Init => FiberInv  BY FiberInit
<1>2. FiberInv /\ [Next]_vars => FiberInv'  BY FiberNext
<1> QED  BY <1>1, <1>2, PTL DEF Spec

\* The variables keep their types, and IOManager's pendingEventCount is the number of
\* registered events: addEvent, triggerEvent and cancelAll never let it drift.
THEOREM FiberTypes == Spec => []TypeOK
<1>1. Spec => []FiberInv  BY FiberInvariant
<1>2. FiberInv => TypeOK  BY FiberInvTypes
<1> QED  BY <1>1, <1>2, PTL

\* At most one element, and whether there is one.
LEMMA AtMostOne ==
    ASSUME NEW S, \A x, y \in S : x = y
    PROVE  Cardinality(S) = IF S = {} THEN 0 ELSE 1
<1>1. CASE S = {}  BY <1>1, FS_EmptySet
<1>2. ASSUME NEW x \in S PROVE Cardinality(S) = 1
    <2>1. S = {x}  BY <1>2
    <2> QED  BY <2>1, FS_Singleton
<1> QED  BY <1>1, <1>2

\* Counted over queue, timers and events, a fiber that has yielded has one waker and another
\* fiber none.
LEMMA OneReference ==
    ASSUME Sound(fiber, tasks_, timers_, events, cur), NEW f \in Fiber
    PROVE  Wakers(f) = IF Yielded(fiber, f) THEN 1 ELSE 0
<1> DEFINE A == {i \in DOMAIN tasks_ : tasks_[i].f = f /\ tasks_[i].kind # "timeout"}
           B == {t \in timers_ : t.item = Item("wake", f)}
           C == {e \in events : e.f = f}
<1>1. /\ Distinct(tasks_) /\ OneTimer(timers_) /\ OneEvent(events)
      /\ Apart(tasks_, timers_, events, f) /\ Referred(fiber, tasks_, timers_, events, f)
    BY DEF Sound, Once
<1>2. (\A x, y \in A : x = y) /\ (A # {} <=> Resumes(tasks_, f))
    BY <1>1 DEF Distinct, Resumes
<1>3. (\A x, y \in B : x = y) /\ (B # {} <=> Sleeping(timers_, f))
    <2>1. \A t \in timers_ : t.item = Item("wake", f) <=> t.item.kind = "wake" /\ t.item.f = f
        BY DEF Sound, Owned, TimersOwn, TimerOwn, Item
    <2> QED  BY <2>1, <1>1 DEF OneTimer, Sleeping
<1>4. (\A x, y \in C : x = y) /\ (C # {} <=> Waiting(events, f))
    BY <1>1 DEF OneEvent, Waiting
<1> HIDE DEF A, B, C
<1>5. /\ Cardinality(A) = IF A = {} THEN 0 ELSE 1
      /\ Cardinality(B) = IF B = {} THEN 0 ELSE 1
      /\ Cardinality(C) = IF C = {} THEN 0 ELSE 1
    BY <1>2, <1>3, <1>4, AtMostOne
<1>6. Wakers(f) = Cardinality(A) + Cardinality(B) + Cardinality(C)
    BY DEF Wakers, A, B, C
<1>7. /\ ~(A # {} /\ B # {}) /\ ~(A # {} /\ C # {}) /\ ~(B # {} /\ C # {})
      /\ A # {} \/ B # {} \/ C # {} <=> Yielded(fiber, f)
    BY <1>1, <1>2, <1>3, <1>4 DEF Apart, Referred
<1> QED  BY <1>5, <1>6, <1>7

\* A fiber that has yielded is referred to exactly once by the scheduler's queue, a timer or
\* an event context, in any order of events, timeouts, closes and tickles, and no CondPanic
\* of the runtime fails.
THEOREM EveryFiberOneWaker == Spec => []OneWaker
<1>1. Spec => []FiberInv  BY FiberInvariant
<1>2. FiberInv => OneWaker
    BY OneReference DEF FiberInv, OneWaker, Yielded
<1> QED  BY <1>1, <1>2, PTL

\* A timeout callback of hook.cpp, set or queued, belongs to the call its fiber still waits
\* in: none outlives its call.
THEOREM NoStaleTimeout == Spec => []TimeoutsAreOwn
<1>1. Spec => []FiberInv  BY FiberInvariant
<1>2. FiberInv => TimeoutsAreOwn
    <2> SUFFICES ASSUME FiberInv, NEW item \in Items \cup {t.item : t \in timers_},
                        item.kind = "timeout"
                 PROVE  Current(item)
        BY DEF TimeoutsAreOwn
    <2>1. Belongs(fiber, item)
        BY DEF FiberInv, Sound, Owned, TasksOwn, TaskOwn, TimersOwn, TimerOwn, Items
    <2> QED  BY <2>1 DEF Belongs, Current, TimeoutItem
<1> QED  BY <1>1, <1>2, PTL

\* The scheduler thread exits (Scheduler::run returns) only when no task, timer, event or
\* started fiber is left.
THEOREM ExitsOnlyWhenDone == Spec => []ExitsWhenDone
<1>1. Spec => []FiberInv  BY FiberInvariant
<1>2. FiberInv => ExitsWhenDone
    <2> SUFFICES ASSUME FiberInv, loop = "exited" PROVE ExitsWhenDone
        BY DEF ExitsWhenDone
    <2>1. tasks_ = <<>> /\ timers_ = {} /\ events = {} /\ cur = None
        BY DEF FiberInv, Finished, LoopTyped
    <2>2. ASSUME NEW f \in Fiber PROVE fiber[f].state \in {"none", "TERM"}
        <3>1. ~Yielded(fiber, f)
            BY <2>1, EmptyQueue DEF FiberInv, Sound, Once, Referred, Sleeping, Waiting
        <3>2. fiber[f].state # "RUNNING"
            BY <2>1, FiberAssumption DEF FiberInv, Sound, Owned, CallsOwn
        <3>3. fiber[f].state \in State
            BY DEF FiberInv, Sound, Typed, Fibers
        <3> QED  BY <3>1, <3>2, <3>3 DEF Yielded, State
    <2> QED  BY <2>1, <2>2 DEF ExitsWhenDone
<1> QED  BY <1>1, <1>2, PTL
=============================================================================
