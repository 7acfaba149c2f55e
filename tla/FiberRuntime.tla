---------------------------- MODULE FiberRuntime ----------------------------
(***************************************************************************)
(* The fiber runtime: Scheduler, IOManager, TimerManager, Fiber and the    *)
(* hooked system calls, with the one scheduler thread that a Raft node     *)
(* gives it (FIBER_THREAD_NUM = 1, the caller's thread not used), a main   *)
(* thread that schedules functions and finally stops the runtime, and the  *)
(* outside world: data arrives on sockets, and time passes.                *)
(*                                                                         *)
(* A fiber is scheduled as a function; once it waits it is referred to by  *)
(* a timer, an event context or a task.  How long a timer takes is left    *)
(* open: any timer may be the next one due.  Two fibers do not wait for    *)
(* the same event of a descriptor, and a descriptor that was closed is not *)
(* opened again.                                                           *)
(***************************************************************************)
EXTENDS Integers, Sequences, FiniteSets, SequencesExt

CONSTANTS
    Fiber,          \* the functions that the main thread schedules
    Fd,             \* the descriptors
    None,           \* no fiber, no call
    MaxOps          \* bound on the system calls of all fibers

Event == {"READ", "WRITE"}

\* A hooked call that has not returned.
Call == [id : 1 .. MaxOps, kind : {"io", "connect"}, fd : Fd, ev : Event,
         cancelled : BOOLEAN, timed : BOOLEAN]

ASSUME FiberAssumption == MaxOps \in Nat /\ None \notin Fiber \cup Call

VARIABLES
    fiber,              \* each fiber: its state_ and the call it is in
    tasks_,             \* the queue of the scheduler
    loop, cur,          \* where the scheduler thread is, and the fiber it runs
    idleThreadCnt_,     \* 1 while the thread is in the idle fiber
    idleTerm,           \* the idle fiber has ended
    isStopped_, main,   \* stop was called; a tickle of the main thread still to come
    timers_,            \* the timers: what each will schedule, and whether it is due
    events,             \* the event contexts: who waits for what
    pendingEventCnt_,   \* their number
    pipe,               \* there are bytes in the tickle pipe
    fdctx, ready,       \* the FdCtx of each descriptor; the events that would not block
    panic,              \* a CondPanic has failed
    ops                 \* counter: system calls made

thread == <<loop, cur, idleThreadCnt_, idleTerm>>
io == <<timers_, events, pendingEventCnt_, fdctx, ready>>
vars == <<fiber, tasks_, thread, isStopped_, main, io, pipe, panic, ops>>

\* A task or a timer: "start" a function, resume a "fiber" (or schedule it, "wake", when a
\* sleep is over), or run the "timeout" callback of a call.
Item(kind, f) == [kind |-> kind, f |-> f, call |-> 0, fd |-> None, ev |-> None]
TimeoutItem(f, c) == [kind |-> "timeout", f |-> f, call |-> c.id, fd |-> c.fd, ev |-> c.ev]

-----------------------------------------------------------------------------
(* Scheduler::scheduler and IOManager::tickle.                             *)

\* A byte for the pipe, only when the thread is idle.
Tickled == pipe \/ idleThreadCnt_ > 0

\* The main thread schedules a function under the mutex; whether it tickles was decided
\* there (the queue was empty), the tickle comes after the unlock.
Schedules(f) ==
    /\ main = "ready" /\ ~isStopped_ /\ fiber[f].state = "none"
    /\ fiber' = [fiber EXCEPT ![f].state = "scheduled"]
    /\ tasks_' = Append(tasks_, Item("start", f))
    /\ main' = IF tasks_ = <<>> THEN "tickles" ELSE "ready"
    /\ UNCHANGED <<thread, isStopped_, io, pipe, panic, ops>>

MainTickles ==
    /\ main = "tickles" /\ main' = "ready"
    /\ pipe' = Tickled
    /\ UNCHANGED <<fiber, tasks_, thread, isStopped_, io, panic, ops>>

\* stop: the flag, a tickle, then the join.
stop ==
    /\ main = "ready" /\ ~isStopped_
    /\ isStopped_' = TRUE /\ main' = "tickles"
    /\ UNCHANGED <<fiber, tasks_, thread, io, pipe, panic, ops>>

-----------------------------------------------------------------------------
(* IOManager: events.  triggerEvent schedules the fibers that wait; on the *)
(* scheduler thread a tickle matters only in the idle fiber.               *)

Resumptions(waits) == [i \in DOMAIN waits |-> Item("fiber", waits[i].f)]

\* Variant for mutation: the event stays registered.
triggerKeepsEvent(waits) ==
    /\ events' = events
    /\ pendingEventCnt_' = pendingEventCnt_ - Cardinality(waits)

\* Variant for mutation: the counter is not taken down.
triggerUncounted(waits) == events' = events \ waits /\ UNCHANGED pendingEventCnt_

\* triggerEvent and --pendingEventCnt_, for the events that are triggered.
triggerEvent(waits) ==
    /\ events' = events \ waits
    /\ pendingEventCnt_' = pendingEventCnt_ - Cardinality(waits)

\* Variant for mutation: the fiber of the timed call is scheduled in any case.
cancelAlwaysWakes(fd, ev) ==
    /\ triggerEvent({e \in events : e.fd = fd /\ e.ev = ev})
    /\ tasks_' = Tail(tasks_) \o <<Item("fiber", Head(tasks_).f)>>

\* cancelEvent: the fiber that waits for the event is scheduled; nothing if there is none.
cancelEvent(fd, ev) ==
    LET waits == {e \in events : e.fd = fd /\ e.ev = ev}
    IN  triggerEvent(waits) /\ tasks_' = Tail(tasks_) \o Resumptions(SetToSeq(waits))

\* addEvent, and the fiber yields.
addEvent(f, c) ==
    /\ panic' = (panic \/ \E e \in events : e.fd = c.fd /\ e.ev = c.ev)
    /\ events' = events \cup {[fd |-> c.fd, ev |-> c.ev, f |-> f]}
    /\ pendingEventCnt_' = pendingEventCnt_ + 1

-----------------------------------------------------------------------------
(* Scheduler::run.                                                         *)

\* The callback of a condition timer: without effect if the call is over (the weak
\* pointer to its timer_info) or cancelled already.
Current(task) == LET c == fiber[task.f].call IN c # None /\ c.id = task.call /\ ~c.cancelled

OnTimer(task) ==
    IF Current(task)
    THEN /\ fiber' = [fiber EXCEPT ![task.f].call.cancelled = TRUE]
         /\ cancelEvent(task.fd, task.ev)
    ELSE /\ tasks_' = Tail(tasks_)
         /\ UNCHANGED <<fiber, events, pendingEventCnt_>>

\* The thread takes the first task.  Timer callbacks run to their end in a fiber of their
\* own; Fiber::resume continues the others.
Takes ==
    LET task == Head(tasks_)
    IN  /\ loop = "take" /\ tasks_ # <<>>
        /\ \/ /\ task.kind = "wake"
              /\ tasks_' = Append(Tail(tasks_), Item("fiber", task.f))
              /\ UNCHANGED <<fiber, events, pendingEventCnt_, loop, cur, panic>>
           \/ /\ task.kind = "timeout" /\ OnTimer(task)
              /\ UNCHANGED <<loop, cur, panic>>
           \/ /\ task.kind \in {"start", "fiber"}
              /\ panic' = (panic \/ (task.kind = "fiber" /\ fiber[task.f].state # "READY"))
              /\ fiber' = [fiber EXCEPT ![task.f].state = "RUNNING"]
              /\ tasks_' = Tail(tasks_)
              /\ loop' = "fiber" /\ cur' = task.f
              /\ UNCHANGED <<events, pendingEventCnt_>>
        /\ UNCHANGED <<idleThreadCnt_, idleTerm, isStopped_, main, timers_, fdctx, ready, pipe, ops>>

\* The queue was empty when the thread looked.
FindsNone ==
    /\ loop = "take" /\ tasks_ = <<>>
    /\ loop' = IF idleTerm THEN "exited" ELSE "empty"
    /\ UNCHANGED <<fiber, tasks_, cur, idleThreadCnt_, idleTerm, isStopped_, main, io, pipe, panic, ops>>

\* ++idleThreadCnt_; only now a tickle writes to the pipe.
GoesIdle ==
    /\ loop = "empty" /\ loop' = "idle" /\ idleThreadCnt_' = 1
    /\ UNCHANGED <<fiber, tasks_, cur, idleTerm, isStopped_, main, io, pipe, panic, ops>>

\* Variant for mutation: sleeping fibers do not keep the thread.
stoppingIgnoresTimers == pendingEventCnt_ = 0 /\ isStopped_ /\ tasks_ = <<>>

\* stopping: no timer, no event, no task, and stop was called.
stopping == timers_ = {} /\ pendingEventCnt_ = 0 /\ isStopped_ /\ tasks_ = <<>>

\* The idle fiber ends, or waits in epoll_wait.
IdleChecks ==
    /\ loop = "idle"
    /\ IF stopping THEN loop' = "take" /\ idleTerm' = TRUE /\ idleThreadCnt_' = 0
                   ELSE loop' = "wait" /\ UNCHANGED <<idleTerm, idleThreadCnt_>>
    /\ UNCHANGED <<fiber, tasks_, cur, isStopped_, main, io, pipe, panic, ops>>

\* Variant for mutation: epoll_wait without MAX_TIMEOUT.
WaitsForSomething ==
    pipe \/ (\E t \in timers_ : t.due) \/ (\E e \in events : <<e.fd, e.ev>> \in ready)

\* epoll_wait returns for the pipe, an event, a timer, and after MAX_TIMEOUT anyway.
epoll_wait_returns == TRUE

\* The timers that are due.
listExpiredCb == {t \in timers_ : t.due}

\* What follows epoll_wait: the callbacks of the timers that are due are scheduled, the
\* pipe is drained, the fibers whose events are there are scheduled.  A tickle by these
\* calls of scheduler may come after the pipe was drained.
Wakes ==
    LET due == listExpiredCb
        hits == {e \in events : <<e.fd, e.ev>> \in ready}
    IN  /\ loop = "wait" /\ epoll_wait_returns
        /\ timers_' = timers_ \ due
        /\ triggerEvent(hits)
        /\ \E cbs \in SetToSeqs({t.item : t \in due}), waits \in SetToSeqs(hits) :
              tasks_' = tasks_ \o cbs \o Resumptions(waits)
        /\ pipe' \in {FALSE, tasks_ = <<>> /\ (due # {} \/ hits # {})}
        /\ loop' = "take" /\ idleThreadCnt_' = 0
        /\ UNCHANGED <<fiber, cur, idleTerm, isStopped_, main, fdctx, ready, panic, ops>>

-----------------------------------------------------------------------------
(* The running fiber: hooked system calls.                                 *)

\* The fiber f runs, and is not in the middle of a call.
Runs(f) == loop = "fiber" /\ cur = f /\ fiber[f].call = None
Op(f) == Runs(f) /\ ops < MaxOps /\ ops' = ops + 1

\* Fiber::yield.
Yield(f, c) ==
    /\ fiber' = [fiber EXCEPT ![f] = [state |-> "READY", call |-> c]]
    /\ loop' = "take" /\ cur' = None

Timer(item) == [item |-> item, due |-> FALSE]

\* FdMgr get: the descriptor has a context that is not closed; getTimeout: the calls of a
\* direction have a timeout.
isOpen(fd) == fdctx[fd].open
hasTimeout(fd, ev) == ev \in fdctx[fd].timeouts

\* sleep, usleep, nanosleep: a timer that schedules the fiber.
Sleeps(f) ==
    /\ Op(f)
    /\ timers_' = timers_ \cup {Timer(Item("wake", f))}
    /\ Yield(f, None)
    /\ UNCHANGED <<tasks_, idleThreadCnt_, idleTerm, isStopped_, main, events, pendingEventCnt_,
                   fdctx, ready, pipe, panic>>

\* The call would block: a condition timer if there is a timeout, the event, yield.
Blocks(f, c, timers) ==
    /\ timers_' = timers \cup (IF c.timed THEN {Timer(TimeoutItem(f, c))} ELSE {})
    /\ addEvent(f, c)
    /\ Yield(f, c)
    /\ UNCHANGED ready

\* The call returns, and has used up the events given.
Returns(f, timers, used) ==
    /\ fiber' = [fiber EXCEPT ![f].call = None]
    /\ timers_' = timers /\ ready' = ready \ used
    /\ UNCHANGED <<loop, cur, events, pendingEventCnt_, panic>>

\* From the label retry on: the system call fails, has what it wants, or would block.
Tries(f, c, timers) ==
    LET wanted == <<c.fd, c.ev>>
    IN  \/ (~isOpen(c.fd) \/ wanted \in ready) /\ Returns(f, timers, IF isOpen(c.fd) THEN {wanted} ELSE {})
        \/ isOpen(c.fd) /\ wanted \notin ready /\ Blocks(f, c, timers)

\* do_io: read, recv, write, send and the like, on a socket that the user has not made
\* non-blocking; connect_with_timeout waits in the same way, always with a timeout.
Enters(f, fd, ev, kind) ==
    /\ Op(f) /\ isOpen(fd)
    /\ ~ \E g \in Fiber : fiber[g].call # None /\ fiber[g].call.fd = fd /\ fiber[g].call.ev = ev
    /\ LET c == [id |-> ops + 1, kind |-> kind, fd |-> fd, ev |-> ev, cancelled |-> FALSE,
                 timed |-> kind = "connect" \/ hasTimeout(fd, ev)]
       IN  IF fdctx[fd].nonblock THEN Returns(f, timers_, {<<fd, ev>>}) ELSE Tries(f, c, timers_)
    /\ UNCHANGED <<tasks_, idleThreadCnt_, idleTerm, isStopped_, main, fdctx, pipe>>

do_io(f, fd, ev) == Enters(f, fd, ev, "io")
connect_with_timeout(f, fd) == Enters(f, fd, "WRITE", "connect")

\* Variant for mutation: the timer is not cancelled.
KeepsTimer(f, c) == timers_

\* Timer::cancel: nothing happens if the timer is out already.
Cancelled(f, c) == {t \in timers_ : t.item # TimeoutItem(f, c)}

\* The fiber goes on after its yield and cancels the timer.  The call ends (with ETIMEDOUT
\* if it was cancelled, and connect anyway), or do_io tries again.
Continues(f) ==
    LET c == fiber[f].call
    IN  /\ loop = "fiber" /\ cur = f /\ c # None
        /\ \/ (c.cancelled \/ c.kind = "connect") /\ Returns(f, Cancelled(f, c), {})
           \/ ~c.cancelled /\ c.kind = "io" /\ Tries(f, c, Cancelled(f, c))
        /\ UNCHANGED <<tasks_, idleThreadCnt_, idleTerm, isStopped_, main, fdctx, pipe, ops>>

\* cancelAll: every fiber that waits for the descriptor.
cancelAll(fd) == {e \in events : e.fd = fd}

\* close: cancelAll, FdMgr del.
closes(f, fd) ==
    /\ Op(f) /\ isOpen(fd)
    /\ triggerEvent(cancelAll(fd))
    /\ tasks_' = tasks_ \o Resumptions(SetToSeq(cancelAll(fd)))
    /\ fdctx' = [fdctx EXCEPT ![fd].open = FALSE]
    /\ ready' = {r \in ready : r[1] # fd}
    /\ UNCHANGED <<fiber, thread, isStopped_, main, timers_, pipe, panic>>

\* setsockopt with SO_RCVTIMEO or SO_SNDTIMEO.
setsockopt(f, fd, ev) ==
    /\ Op(f) /\ isOpen(fd) /\ ~hasTimeout(fd, ev)
    /\ fdctx' = [fdctx EXCEPT ![fd].timeouts = @ \cup {ev}]
    /\ UNCHANGED <<fiber, tasks_, thread, isStopped_, main, timers_, events, pendingEventCnt_, ready,
                   pipe, panic>>

\* fcntl with F_SETFL: only userNonblock changes, the system's O_NONBLOCK is set again.
\* (ioctl with FIONBIO does not set it again, and is not modelled.)
fcntl(f, fd, nonblock) ==
    /\ Op(f) /\ isOpen(fd) /\ fdctx[fd].nonblock # nonblock
    /\ fdctx' = [fdctx EXCEPT ![fd].nonblock = nonblock]
    /\ UNCHANGED <<fiber, tasks_, thread, isStopped_, main, timers_, events, pendingEventCnt_, ready,
                   pipe, panic>>

\* MainFunc: the function of the fiber returns.
Ends(f) ==
    /\ Runs(f)
    /\ fiber' = [fiber EXCEPT ![f].state = "TERM"]
    /\ loop' = "take" /\ cur' = None
    /\ UNCHANGED <<tasks_, idleThreadCnt_, idleTerm, isStopped_, main, io, pipe, panic, ops>>

-----------------------------------------------------------------------------
(* The world outside.                                                      *)

Arrives(fd, ev) ==
    /\ isOpen(fd) /\ <<fd, ev>> \notin ready
    /\ ready' = ready \cup {<<fd, ev>>}
    /\ UNCHANGED <<fiber, tasks_, thread, isStopped_, main, timers_, events, pendingEventCnt_, fdctx,
                   pipe, panic, ops>>

\* A timer is due.
TimePasses ==
    \E t \in timers_ :
        /\ ~t.due
        /\ timers_' = (timers_ \ {t}) \cup {[t EXCEPT !.due = TRUE]}
        /\ UNCHANGED <<fiber, tasks_, thread, isStopped_, main, events, pendingEventCnt_, fdctx, ready,
                       pipe, panic, ops>>

-----------------------------------------------------------------------------
\* The context of a socket, with the timeouts that were set when it was made.
FdCtx(timeouts) == [open |-> TRUE, nonblock |-> FALSE, timeouts |-> timeouts]

Init ==
    /\ fiber = [f \in Fiber |-> [state |-> "none", call |-> None]]
    /\ tasks_ = <<>> /\ loop = "take" /\ cur = None /\ idleThreadCnt_ = 0 /\ idleTerm = FALSE
    /\ isStopped_ = FALSE /\ main = "ready"
    /\ timers_ = {} /\ events = {} /\ pendingEventCnt_ = 0 /\ pipe = FALSE
    /\ fdctx \in [Fd -> {FdCtx({}), FdCtx(Event)}]
    /\ ready = {} /\ panic = FALSE
    /\ ops = 0

RunStep == Takes \/ FindsNone \/ GoesIdle \/ IdleChecks \/ Wakes
FiberStep(f) ==
    \/ Sleeps(f) \/ Continues(f) \/ Ends(f)
    \/ \E fd \in Fd, ev \in Event : do_io(f, fd, ev) \/ setsockopt(f, fd, ev)
    \/ \E fd \in Fd : connect_with_timeout(f, fd) \/ closes(f, fd)
    \/ \E fd \in Fd, nonblock \in BOOLEAN : fcntl(f, fd, nonblock)
ThreadStep == RunStep \/ \E f \in Fiber : FiberStep(f)

Next ==
    \/ \E f \in Fiber : Schedules(f)
    \/ MainTickles \/ stop
    \/ ThreadStep
    \/ \E fd \in Fd, ev \in Event : Arrives(fd, ev)
    \/ TimePasses

\* The threads run, epoll_wait returns after MAX_TIMEOUT at the latest, and time passes.
\* That data arrives is not assumed.
Fairness == WF_vars(ThreadStep) /\ WF_vars(MainTickles) /\ WF_vars(TimePasses)

Spec == Init /\ [][Next]_vars /\ Fairness

-----------------------------------------------------------------------------
(* Properties.                                                             *)

Items == {tasks_[i] : i \in DOMAIN tasks_}

State == {"none", "scheduled", "READY", "RUNNING", "TERM"}
Task == [kind : {"start", "fiber", "wake", "timeout"}, f : Fiber, call : 0 .. MaxOps,
         fd : Fd \cup {None}, ev : Event \cup {None}]

\* The variables have their types, and the event counter counts the events.
TypeOK ==
    /\ fiber \in [Fiber -> [state : State, call : Call \cup {None}]]
    /\ tasks_ \in Seq(Task) /\ timers_ \subseteq [item : Task, due : BOOLEAN]
    /\ fdctx \in [Fd -> [open : BOOLEAN, nonblock : BOOLEAN, timeouts : SUBSET Event]]
    /\ ready \subseteq Fd \X Event /\ ops \in 0 .. MaxOps
    /\ loop \in {"take", "fiber", "empty", "idle", "wait", "exited"} /\ cur \in Fiber \cup {None}
    /\ (loop = "fiber") = (cur # None)
    /\ events \subseteq [fd : Fd, ev : Event, f : Fiber]
    /\ pendingEventCnt_ = Cardinality(events)
    /\ idleThreadCnt_ = IF loop \in {"idle", "wait"} THEN 1 ELSE 0

\* How often the fiber is referred to by something that will resume it.
Wakers(f) ==
    Cardinality({i \in DOMAIN tasks_ : tasks_[i].f = f /\ tasks_[i].kind # "timeout"})
        + Cardinality({t \in timers_ : t.item = Item("wake", f)})
        + Cardinality({e \in events : e.f = f})

\* A fiber that has yielded is referred to exactly once - by the queue, a timer or an event
\* context: it is neither lost (its destructor would panic) nor resumed twice, whatever
\* the order of events, timeouts and closes.  So no CondPanic fires: a fiber that is
\* resumed is READY, and no event is registered twice.
OneWaker ==
    /\ \A f \in Fiber : Wakers(f) = IF fiber[f].state \in {"scheduled", "READY"} THEN 1 ELSE 0
    /\ ~panic

\* Every timer of a timed call, and every callback of one that is queued, belongs to a call
\* that still waits: none is left behind to cancel a later wait for the same event, or to
\* keep the runtime from stopping until it is due.
TimeoutsAreOwn ==
    \A item \in Items \cup {t.item : t \in timers_} : item.kind = "timeout" => Current(item)

\* The thread exits only when every fiber has ended and nothing is left to do.
ExitsWhenDone ==
    loop = "exited" => /\ tasks_ = <<>> /\ timers_ = {} /\ events = {}
                       /\ \A f \in Fiber : fiber[f].state \in {"none", "TERM"}

\* The fiber waits for data alone, without a timeout.
Untimed(f) == fiber[f].call # None /\ ~fiber[f].call.timed

\* A fiber that is scheduled or that sleeps runs again, although a tickle may find the
\* thread between its look at the queue and epoll_wait; so does one that waits with a
\* timeout.
FibersResume ==
    \A f \in Fiber : (fiber[f].state \in {"scheduled", "READY"} /\ ~Untimed(f))
                        ~> fiber[f].state \in {"RUNNING", "TERM"}

\* stop: the thread exits, unless a fiber waits for data without a timeout.
StopEnds == isStopped_ ~> (loop = "exited" \/ \E f \in Fiber : Untimed(f))
=============================================================================
