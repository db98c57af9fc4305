----------------------------- MODULE IoService -----------------------------
(***************************************************************************)
(* The io_service that runs all of rpclib's handlers: task_io_service, its *)
(* posix_event and the strands of strand_service, from the asio under      *)
(* dependencies/.  Workers are threads in run(); handlers are posted from  *)
(* anywhere, to the queue or to a strand, or are the completions of        *)
(* asynchronous operations, wrapped in a strand or not.  Of the reactor    *)
(* only its blocking, its interruption and its results are modelled.       *)
(*                                                                         *)
(* A step is a critical section of mutex_, of the mutex of a strand, or    *)
(* what a thread does between two of them.  Client, Server and AsyncWriter *)
(* rely on what is shown here: the handlers of a strand run one at a time  *)
(* and in order, and every posted handler runs.                            *)
(***************************************************************************)
EXTENDS Naturals, Sequences, FiniteSets

CONSTANTS
  Worker,        \* threads that call run()
  Strand,        \* the strand implementations
  NoStrand,      \* for handlers outside the strands
  MaxHandlers    \* bound: handlers posted and operations started

ASSUME NoStrandAssumption == NoStrand \notin Strand
ASSUME MaxHandlersAssumption == MaxHandlers \in Nat \ {0}

VARIABLES
  opQueue,          \* op_queue_
  privateQueue,     \* private_op_queue of each worker
  event,            \* wakeup_event_ is signalled
  signals,          \* pthread_cond_signal() calls that are due
  taskInterrupted,  \* task_interrupted_
  interrupt,        \* epoll_reactor::interrupt() took place, epoll_wait not yet returned
  stopped,          \* stopped_
  work,             \* outstanding_work_
  worker,           \* where each worker is, and the operation it runs
  pendingIo,        \* asynchronous operations outstanding
  locked, waiting, ready,  \* the members of each strand
  acquired,         \* handlers that locked their strand and have still to schedule it
  handlers,         \* handlers made so far
  order,            \* history: the handlers of each strand as they were posted
  begun,            \* history: the handlers each strand has called
  ended             \* history: the handlers that have returned

queueVars == <<opQueue, event, signals, taskInterrupted, interrupt, stopped>>
strandVars == <<locked, waiting, ready, order>>
vars == <<queueVars, privateQueue, work, worker, pendingIo, strandVars, acquired, handlers,
          begun, ended>>

Handler == 1..MaxHandlers

\* What op_queue_ holds: the mark of the reactor task, scheduled strands, and
\* handlers, with the strand they are wrapped in.
Op == [op : {"task", "strand", "handler"}, h : 0..MaxHandlers, s : Strand \cup {NoStrand}]
Task == [op |-> "task", h |-> 0, s |-> NoStrand]
Scheduled(s) == [op |-> "strand", h |-> 0, s |-> s]
Completion(h, s) == [op |-> "handler", h |-> h, s |-> s]

\* A worker enters run(), waits for mutex_, holds it, sleeps on the condition, was
\* woken, is in the reactor, has left it, runs an operation, calls a handler, is behind
\* a dispatched handler, cleans up, calls stop(), or has returned from run().
Pc == {"start", "run", "locked", "wait", "woken", "block", "poll", "polled", "op",
       "inline", "call", "exit", "cleanup", "stop", "out"}

TypeOK ==
  /\ opQueue \in Seq(Op)
  /\ privateQueue \in [Worker -> Seq(Op)]
  /\ event \in BOOLEAN /\ taskInterrupted \in BOOLEAN /\ interrupt \in BOOLEAN
  /\ stopped \in BOOLEAN
  /\ signals \in Nat /\ work \in Nat
  /\ worker \in [Worker -> [pc : Pc, op : Op, h : 0..MaxHandlers]]
  /\ pendingIo \subseteq Op
  /\ locked \in [Strand -> BOOLEAN]
  /\ waiting \in [Strand -> Seq(Handler)]
  /\ ready \in [Strand -> Seq(Handler)]
  /\ acquired \subseteq Handler \X Strand
  /\ handlers \in 0..MaxHandlers
  /\ order \in [Strand -> Seq(Handler)]
  /\ begun \in [Strand -> Seq(Handler)]
  /\ ended \subseteq Handler

\* The workers enter run() with one asynchronous operation outstanding, the
\* accept of a server or the connect of a client.
Init ==
  /\ opQueue = <<Task>>
  /\ privateQueue = [w \in Worker |-> <<>>]
  /\ event = FALSE /\ taskInterrupted = TRUE /\ interrupt = FALSE
  /\ stopped = FALSE
  /\ signals = 0 /\ work = 1
  /\ worker = [w \in Worker |-> [pc |-> "start", op |-> Task, h |-> 0]]
  /\ pendingIo = {Completion(1, NoStrand)}
  /\ locked = [s \in Strand |-> FALSE]
  /\ waiting = [s \in Strand |-> <<>>]
  /\ ready = [s \in Strand |-> <<>>]
  /\ acquired = {}
  /\ handlers = 1
  /\ order = [s \in Strand |-> <<>>]
  /\ begun = [s \in Strand |-> <<>>]
  /\ ended = {}
-----------------------------------------------------------------------------
(* mutex_ and wakeup_event_.                                               *)

\* Nobody else holds mutex_.
CanLock(w) == \A v \in Worker \ {w} : worker[v].pc # "locked"
Unlocked == \A v \in Worker : worker[v].pc # "locked"

Goto(w, pc) == worker' = [worker EXCEPT ![w].pc = pc]

\* state_ > 1: threads in wait(), also those that were woken and wait for mutex_.
HaveWaiters == \E v \in Worker : worker[v].pc \in {"wait", "woken"}

\* Mutant of unlock_and_signal_one(): the only waiter is not counted.
signal_if_many ==
  /\ event' = TRUE
  /\ signals' = IF Cardinality({v \in Worker : worker[v].pc \in {"wait", "woken"}}) > 1
                THEN signals + 1 ELSE signals

\* posix_event::unlock_and_signal_one()
unlock_and_signal_one ==
  /\ event' = TRUE
  /\ signals' = IF HaveWaiters THEN signals + 1 ELSE signals

\* Mutant of wake_one_thread_and_unlock(): the reactor is left alone.
wake_one_no_interrupt == unlock_and_signal_one /\ UNCHANGED <<taskInterrupted, interrupt>>

\* task_io_service::wake_one_thread_and_unlock(): a sleeping thread, else the
\* thread in the reactor.
wake_one_thread_and_unlock ==
  /\ unlock_and_signal_one
  /\ IF ~HaveWaiters /\ ~taskInterrupted
     THEN taskInterrupted' = TRUE /\ interrupt' = TRUE
     ELSE UNCHANGED <<taskInterrupted, interrupt>>

\* post_immediate_completion() of an operation that is not a continuation.
post_immediate_completion(o) ==
  /\ Unlocked
  /\ work' = work + 1
  /\ opQueue' = Append(opQueue, o)
  /\ wake_one_thread_and_unlock
  /\ UNCHANGED stopped

\* pthread_cond_signal(), after mutex_ was released, wakes one sleeping thread.
CondSignal ==
  /\ signals > 0
  /\ signals' = signals - 1
  /\ \/ \E v \in Worker : worker[v].pc = "wait" /\ Goto(v, "woken")
     \/ (\A v \in Worker : worker[v].pc # "wait") /\ UNCHANGED worker
  /\ UNCHANGED <<opQueue, event, taskInterrupted, interrupt, stopped, privateQueue, work,
                 pendingIo, strandVars, acquired, handlers, begun, ended>>

SpuriousWakeup(w) ==
  /\ worker[w].pc = "wait"
  /\ Goto(w, "woken")
  /\ UNCHANGED <<queueVars, privateQueue, work, pendingIo, strandVars, acquired, handlers,
                 begun, ended>>

\* The loop of posix_event::wait(), with mutex_ again.
Wake(w) ==
  /\ worker[w].pc = "woken" /\ CanLock(w)
  /\ Goto(w, IF event THEN "locked" ELSE "wait")
  /\ UNCHANGED <<queueVars, privateQueue, work, pendingIo, strandVars, acquired, handlers,
                 begun, ended>>

\* Mutant of stop_all_threads(): the thread in the reactor is left there.
stop_no_interrupt ==
  /\ Unlocked
  /\ stopped' = TRUE
  /\ event' = TRUE
  /\ UNCHANGED <<taskInterrupted, interrupt>>

\* stop_all_threads()
stop_all_threads ==
  /\ Unlocked
  /\ stopped' = TRUE
  /\ event' = TRUE
  /\ taskInterrupted' = TRUE
  /\ interrupt' = (interrupt \/ ~taskInterrupted)
Broadcast(f) == [v \in Worker |-> IF f[v].pc = "wait" THEN [f[v] EXCEPT !.pc = "woken"]
                                                      ELSE f[v]]
-----------------------------------------------------------------------------
(* do_run_one(): one turn of its loop.                                     *)

AtLoop(w) == worker[w].pc \in {"run", "locked"} /\ CanLock(w)

loopUnchanged == <<privateQueue, work, pendingIo, strandVars, acquired, handlers, begun, ended>>

\* run() does nothing but stop() when there is no work.
EnterRun(w) ==
  /\ worker[w].pc = "start"
  /\ Goto(w, IF work = 0 THEN "stop" ELSE "run")
  /\ UNCHANGED <<queueVars, loopUnchanged>>

LeaveRun(w) ==
  /\ AtLoop(w) /\ stopped
  /\ Goto(w, "out")
  /\ UNCHANGED <<queueVars, loopUnchanged>>

\* The reactor's turn; it blocks only if nothing else is queued.
RunTask(w) ==
  LET more == Tail(opQueue) # <<>>
  IN  /\ AtLoop(w) /\ ~stopped
      /\ opQueue # <<>> /\ Head(opQueue) = Task
      /\ opQueue' = Tail(opQueue)
      /\ taskInterrupted' = more
      /\ IF more THEN unlock_and_signal_one ELSE UNCHANGED <<event, signals>>
      /\ Goto(w, IF more THEN "poll" ELSE "block")
      /\ UNCHANGED <<interrupt, stopped, loopUnchanged>>

\* An operation; another thread is woken for those behind it.
TakeOp(w) ==
  /\ AtLoop(w) /\ ~stopped
  /\ opQueue # <<>> /\ Head(opQueue) # Task
  /\ opQueue' = Tail(opQueue)
  /\ worker' = [worker EXCEPT ![w] = [pc |-> "op", op |-> Head(opQueue), h |-> 0]]
  /\ IF opQueue' # <<>> THEN wake_one_thread_and_unlock
                        ELSE UNCHANGED <<event, signals, taskInterrupted, interrupt>>
  /\ UNCHANGED <<stopped, loopUnchanged>>

\* Nothing to do: wakeup_event_ is cleared and the thread sleeps.
Sleep(w) ==
  /\ AtLoop(w) /\ ~stopped
  /\ opQueue = <<>>
  /\ event' = FALSE
  /\ Goto(w, "wait")
  /\ UNCHANGED <<opQueue, signals, taskInterrupted, interrupt, stopped, loopUnchanged>>

\* epoll_wait() returns, with operations that are complete.
Orders(S) == {q \in [1..Cardinality(S) -> S] : \A i, j \in DOMAIN q : i # j => q[i] # q[j]}
EpollReturns(w) ==
  /\ worker[w].pc \in {"block", "poll"}
  /\ \E S \in SUBSET pendingIo :
       /\ worker[w].pc = "poll" \/ interrupt \/ S # {}
       /\ pendingIo' = pendingIo \ S
       /\ \E q \in Orders(S) : privateQueue' = [privateQueue EXCEPT ![w] = q]
  /\ interrupt' = FALSE
  /\ Goto(w, "polled")
  /\ UNCHANGED <<opQueue, event, signals, taskInterrupted, stopped, work, strandVars,
                 acquired, handlers, begun, ended>>

\* task_cleanup; mutex_ stays locked for the next turn.
TaskCleanup(w) ==
  /\ worker[w].pc = "polled" /\ CanLock(w)
  /\ opQueue' = (opQueue \o privateQueue[w]) \o <<Task>>
  /\ privateQueue' = [privateQueue EXCEPT ![w] = <<>>]
  /\ taskInterrupted' = TRUE
  /\ Goto(w, "locked")
  /\ UNCHANGED <<event, signals, interrupt, stopped, work, pendingIo, strandVars, acquired,
                 handlers, begun, ended>>

\* Mutant of work_cleanup: the continuations are not counted.
work_cleanup_uncounted(w) ==
  /\ worker[w].pc = "cleanup" /\ CanLock(w)
  /\ work' = work - 1
  /\ opQueue' = opQueue \o privateQueue[w]
  /\ privateQueue' = [privateQueue EXCEPT ![w] = <<>>]
  /\ Goto(w, IF work = 1 THEN "stop" ELSE "run")
  /\ UNCHANGED <<event, signals, taskInterrupted, interrupt, stopped, pendingIo, strandVars,
                 acquired, handlers, begun, ended>>

\* work_cleanup.  A strand that goes on was put into the private queue.
WorkCleanup(w) ==
  /\ worker[w].pc = "cleanup"
  /\ IF privateQueue[w] = <<>>
     THEN /\ work' = work - 1
          /\ Goto(w, IF work = 1 THEN "stop" ELSE "run")
          /\ UNCHANGED <<opQueue, privateQueue>>
     ELSE /\ CanLock(w)
          /\ work' = work + Len(privateQueue[w]) - 1
          /\ opQueue' = opQueue \o privateQueue[w]
          /\ privateQueue' = [privateQueue EXCEPT ![w] = <<>>]
          /\ Goto(w, "locked")
  /\ UNCHANGED <<event, signals, taskInterrupted, interrupt, stopped, pendingIo, strandVars,
                 acquired, handlers, begun, ended>>

\* There was no work left: stop(), then the loop finds stopped_.
WorkFinished(w) ==
  /\ worker[w].pc = "stop"
  /\ stop_all_threads
  /\ worker' = Broadcast([worker EXCEPT ![w].pc = "run"])
  /\ UNCHANGED <<opQueue, signals, loopUnchanged>>
-----------------------------------------------------------------------------
(* Operations: plain handlers, strands, and handlers wrapped in a strand.  *)

opUnchanged == <<queueVars, privateQueue, work, pendingIo, acquired, handlers>>

\* A handler outside the strands is called.
CallPlain(w) ==
  LET o == worker[w].op
  IN  /\ worker[w].pc = "op"
      /\ o.op = "handler" /\ o.s = NoStrand
      /\ worker' = [worker EXCEPT ![w] = [@ EXCEPT !.pc = "call", !.h = o.h]]
      /\ UNCHANGED <<opUnchanged, strandVars, begun, ended>>

\* strand_service::do_dispatch() for the handler of an operation: it waits for
\* the strand, or takes it and is called at once.
do_dispatch(w) ==
  LET o == worker[w].op
  IN  /\ worker[w].pc = "op"
      /\ o.op = "handler" /\ o.s # NoStrand
      /\ order' = [order EXCEPT ![o.s] = Append(@, o.h)]
      /\ IF locked[o.s]
         THEN /\ waiting' = [waiting EXCEPT ![o.s] = Append(@, o.h)]
              /\ Goto(w, "cleanup")
              /\ UNCHANGED locked
         ELSE /\ locked' = [locked EXCEPT ![o.s] = TRUE]
              /\ Goto(w, "inline")
              /\ UNCHANGED waiting
      /\ UNCHANGED <<opUnchanged, ready, begun, ended>>

CallInline(w) ==
  LET o == worker[w].op
  IN  /\ worker[w].pc = "inline"
      /\ begun' = [begun EXCEPT ![o.s] = Append(@, o.h)]
      /\ worker' = [worker EXCEPT ![w] = [@ EXCEPT !.pc = "call", !.h = o.h]]
      /\ UNCHANGED <<opUnchanged, strandVars, ended>>

\* do_complete() of a strand calls the handlers of ready_queue_ ...
CallReady(w) ==
  LET s == worker[w].op.s
  IN  /\ worker[w].pc = "op" /\ worker[w].op.op = "strand"
      /\ ready[s] # <<>>
      /\ ready' = [ready EXCEPT ![s] = Tail(@)]
      /\ begun' = [begun EXCEPT ![s] = Append(@, Head(ready[s]))]
      /\ worker' = [worker EXCEPT ![w] = [@ EXCEPT !.pc = "call", !.h = Head(ready[s])]]
      /\ UNCHANGED <<opUnchanged, locked, waiting, order, ended>>

\* A handler returns.
HandlerReturns(w) ==
  /\ worker[w].pc = "call"
  /\ ended' = ended \cup {worker[w].h}
  /\ Goto(w, CASE worker[w].op.op = "strand" -> "op"
               [] worker[w].op.op = "handler" /\ worker[w].op.s # NoStrand -> "exit"
               [] OTHER -> "cleanup")
  /\ UNCHANGED <<opUnchanged, strandVars, begun>>

\* Mutant of the exits: locked_ is cleared although handlers are waiting.
release_strand_early(s) ==
  /\ ready' = [ready EXCEPT ![s] = @ \o waiting[s]]
  /\ waiting' = [waiting EXCEPT ![s] = <<>>]
  /\ locked' = [locked EXCEPT ![s] = FALSE]
  /\ UNCHANGED order

\* Both exits hand the waiting handlers over and keep the strand if there are any.
release_strand(s) ==
  /\ ready' = [ready EXCEPT ![s] = @ \o waiting[s]]
  /\ waiting' = [waiting EXCEPT ![s] = <<>>]
  /\ locked' = [locked EXCEPT ![s] = ready'[s] # <<>>]
  /\ UNCHANGED order

\* ... until there is none: on_do_complete_exit schedules the strand again, as
\* a continuation of this thread.
StrandExit(w) ==
  LET s == worker[w].op.s
  IN  /\ worker[w].pc = "op" /\ worker[w].op.op = "strand"
      /\ ready[s] = <<>>
      /\ release_strand(s)
      /\ privateQueue' = IF ready'[s] = <<>> THEN privateQueue
                         ELSE [privateQueue EXCEPT ![w] = Append(@, Scheduled(s))]
      /\ Goto(w, "cleanup")
      /\ UNCHANGED <<queueVars, work, pendingIo, acquired, handlers, begun, ended>>

\* on_dispatch_exit schedules it through the queue.  The two critical sections are
\* one step: in between the strand is locked and only this thread uses ready_queue_.
DispatchExit(w) ==
  LET s == worker[w].op.s
  IN  /\ worker[w].pc = "exit"
      /\ release_strand(s)
      /\ IF ready'[s] = <<>> THEN UNCHANGED <<queueVars, work>>
                             ELSE post_immediate_completion(Scheduled(s))
      /\ Goto(w, "cleanup")
      /\ UNCHANGED <<privateQueue, pendingIo, acquired, handlers, begun, ended>>
-----------------------------------------------------------------------------
(* What users and handlers do.                                             *)

NewHandler == handlers < MaxHandlers /\ handlers' = handlers + 1

\* io_service::post(), and an operation that completes as it is started without
\* being a continuation: its handler, wrapped in strand s or not, is queued at once.
Post(s) ==
  /\ NewHandler
  /\ post_immediate_completion(Completion(handlers', s))
  /\ UNCHANGED <<privateQueue, worker, pendingIo, strandVars, acquired, begun, ended>>

\* Mutant of StartIo: without work_started().
start_io_uncounted(s) ==
  /\ NewHandler
  /\ pendingIo' = pendingIo \cup {Completion(handlers', s)}
  /\ UNCHANGED <<queueVars, privateQueue, work, worker, strandVars, acquired, begun, ended>>

\* An asynchronous operation is started, its handler wrapped in strand s or not.
StartIo(s) ==
  /\ NewHandler
  /\ work' = work + 1
  /\ pendingIo' = pendingIo \cup {Completion(handlers', s)}
  /\ UNCHANGED <<queueVars, privateQueue, worker, strandVars, acquired, begun, ended>>

\* An operation that a handler starts and that completes at once as its
\* continuation, the next piece of a composed write, goes to the private queue.
Continue(w, s) ==
  /\ worker[w].pc = "call"
  /\ NewHandler
  /\ privateQueue' = [privateQueue EXCEPT ![w] = Append(@, Completion(handlers', s))]
  /\ UNCHANGED <<queueVars, work, worker, pendingIo, strandVars, acquired, begun, ended>>

\* Mutant of StrandPost: a handler goes to ready_queue_ although the strand is
\* locked.
strand_post_ready(s) ==
  /\ NewHandler
  /\ order' = [order EXCEPT ![s] = Append(@, handlers')]
  /\ locked' = [locked EXCEPT ![s] = TRUE]
  /\ IF locked[s]
     THEN ready' = [ready EXCEPT ![s] = Append(@, handlers')] /\ UNCHANGED acquired
     ELSE acquired' = acquired \cup {<<handlers', s>>} /\ UNCHANGED ready
  /\ UNCHANGED <<queueVars, privateQueue, work, worker, pendingIo, waiting, begun, ended>>

\* strand_service::do_post(): under the mutex of the strand ...
StrandPost(s) ==
  /\ NewHandler
  /\ order' = [order EXCEPT ![s] = Append(@, handlers')]
  /\ IF locked[s]
     THEN /\ waiting' = [waiting EXCEPT ![s] = Append(@, handlers')]
          /\ UNCHANGED <<locked, acquired>>
     ELSE /\ locked' = [locked EXCEPT ![s] = TRUE]
          /\ acquired' = acquired \cup {<<handlers', s>>}
          /\ UNCHANGED waiting
  /\ UNCHANGED <<queueVars, privateQueue, work, worker, pendingIo, ready, begun, ended>>

\* ... and after it, by the thread that locked the strand.
ScheduleStrand(h, s) ==
  /\ <<h, s>> \in acquired
  /\ acquired' = acquired \ {<<h, s>>}
  /\ ready' = [ready EXCEPT ![s] = Append(@, h)]
  /\ post_immediate_completion(Scheduled(s))
  /\ UNCHANGED <<privateQueue, worker, pendingIo, locked, waiting, order, handlers, begun,
                 ended>>

\* io_service::stop()
Stop ==
  /\ ~stopped
  /\ stop_all_threads
  /\ worker' = Broadcast(worker)
  /\ UNCHANGED <<opQueue, signals, loopUnchanged>>
-----------------------------------------------------------------------------
WorkerStep(w) ==
  \/ EnterRun(w)
  \/ Wake(w)
  \/ LeaveRun(w)
  \/ RunTask(w)
  \/ TakeOp(w)
  \/ Sleep(w)
  \/ TaskCleanup(w)
  \/ WorkCleanup(w)
  \/ WorkFinished(w)
  \/ CallPlain(w)
  \/ do_dispatch(w)
  \/ CallInline(w)
  \/ CallReady(w)
  \/ HandlerReturns(w)
  \/ StrandExit(w)
  \/ DispatchExit(w)

Next ==
  \/ \E w \in Worker : WorkerStep(w) \/ EpollReturns(w) \/ SpuriousWakeup(w)
  \/ CondSignal
  \/ \E s \in Strand \cup {NoStrand} :
       Post(s) \/ StartIo(s) \/ \E w \in Worker : Continue(w, s)
  \/ \E s \in Strand : StrandPost(s)
  \/ \E h \in Handler, s \in Strand : ScheduleStrand(h, s)
  \/ Stop

Spec == Init /\ [][Next]_vars

\* Threads go on, handlers return, and a reactor that was interrupted or does
\* not block returns.  Nothing makes an operation complete.
Fairness ==
  /\ \A w \in Worker : /\ WF_vars(WorkerStep(w))
                       /\ WF_vars((worker[w].pc = "poll" \/ interrupt) /\ EpollReturns(w))
  /\ WF_vars(CondSignal)
  /\ WF_vars(\E h \in Handler, s \in Strand : ScheduleStrand(h, s))

FairSpec == Spec /\ Fairness
-----------------------------------------------------------------------------
(* Properties.                                                             *)

\* The strand a worker holds: it runs the strand or a handler dispatched in it.
InStrand(w, s) ==
  \/ worker[w].pc \in {"op", "call"} /\ worker[w].op = Scheduled(s)
  \/ worker[w].pc \in {"inline", "call", "exit"} /\ worker[w].op.op = "handler"
     /\ worker[w].op.s = s

\* Where strand s is scheduled, or about to be, or running.
Scheduling(s) ==
  {<<"acquired", h>> : h \in {g \in Handler : <<g, s>> \in acquired}}
  \cup {<<"queue", i>> : i \in {j \in DOMAIN opQueue : opQueue[j] = Scheduled(s)}}
  \cup (UNION {{<<v, i>> : i \in {j \in DOMAIN privateQueue[v] :
                                    privateQueue[v][j] = Scheduled(s)}} : v \in Worker})
  \cup {<<"worker", v>> : v \in {u \in Worker : InStrand(u, s)}}

\* locked_ means that the strand is in one place, whichever of post(), dispatch()
\* and the two exits put it there: its handlers never run at the same time; it is a
\* node of the lists it is queued in, and would corrupt them if it were scheduled a
\* second time; and one that is nowhere would never run its handlers.
ScheduledOnce ==
  \A s \in Strand : Cardinality(Scheduling(s)) = IF locked[s] THEN 1 ELSE 0

\* The handlers of a strand are called in the order they were posted or
\* dispatched to it, each once: a strand is a FifoStream.
Fifo(s) == INSTANCE FifoStream WITH Item <- Handler, accepted <- order[s], received <- begun[s]
StrandFifo ==
  /\ \A s \in Strand : Fifo(s)!Init
  /\ [][\A s \in Strand : Fifo(s)!Next \/ UNCHANGED Fifo(s)!vars]_<<order, begun>>

\* A worker that sleeps and nothing is about to wake.
Asleep(w) ==
  \/ worker[w].pc = "wait"
  \/ worker[w].pc = "woken" /\ ~event
  \/ worker[w].pc = "block" /\ ~interrupt

\* A worker that comes to the queue, with nothing left to do before.
Coming(w) ==
  \/ worker[w].pc \in {"run", "locked", "poll", "polled"}
  \/ worker[w].pc = "woken" /\ event
  \/ worker[w].pc = "block" /\ interrupt

\* No wakeup is lost: while an operation is queued and a worker sleeps, some
\* worker is on its way to it or is being woken, so that a handler never waits
\* for the long run of another one while there is a thread for it.
NoLostWakeup ==
  (opQueue # <<>> /\ ~stopped /\ \E w \in Worker : Asleep(w)) =>
    \/ \E w \in Worker : Coming(w)
    \/ event /\ signals > 0 /\ \E w \in Worker : worker[w].pc = "wait"

\* outstanding_work_ counts what is queued, running or pending, no more and no
\* less: run() neither returns early nor keeps the threads of a client or a
\* server that has nothing left.
Running == {w \in Worker : worker[w].pc \in {"op", "inline", "call", "exit", "cleanup"}}
Queued == {i \in DOMAIN opQueue : opQueue[i] # Task}
Found == UNION {{<<v, i>> : i \in DOMAIN privateQueue[v]} :
                 v \in {w \in Worker : worker[w].pc = "polled"}}
WorkExact ==
  work = Cardinality(Running) + Cardinality(Queued) + Cardinality(pendingIo)
         + Cardinality(Found)

\* Every handler that is posted, or whose operation has completed, runs.
HandlersRun ==
  \A h \in Handler :
    (h <= handlers /\ \A p \in pendingIo : p.h # h) ~> (h \in ended \/ stopped)

\* After stop() all threads leave run().
StopEnds == stopped ~> \A w \in Worker : worker[w].pc = "out"
=============================================================================
