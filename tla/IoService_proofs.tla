-------------------------- MODULE IoService_proofs --------------------------
(***************************************************************************)
(* Proofs about IoService, for any set of workers and of strands and any   *)
(* number of handlers.                                                     *)
(***************************************************************************)
EXTENDS IoService, FiniteSetTheorems, SequenceTheorems, TLAPS

-----------------------------------------------------------------------------
(* The inductive invariant.                                                *)

\* The operations that are work: scheduled strands and handlers.
Jobs ==
  {o \in Op : \/ o.op = "strand" /\ o.h = 0 /\ o.s \in Strand
              \/ o.op = "handler" /\ o.h \in Handler}

\* The workers in the reactor, and those that have an operation.
InReactor == {"block", "poll", "polled"}
Busy == {"op", "inline", "call", "exit", "cleanup"}

\* What the program counter of a worker says of its operation and its private queue.
WorkerOK(r, q) ==
  /\ r.pc \in Busy => r.op \in Jobs
  /\ r.pc \in {"inline", "exit"} => r.op.op = "handler" /\ r.op.s \in Strand
  /\ r.pc = "call" => r.h \in Handler
  /\ r.pc \notin Busy \cup {"polled"} => q = <<>>

\* Where operations of each kind can be.
JobInv ==
  /\ opQueue \in Seq(Jobs \cup {Task})
  /\ privateQueue \in [Worker -> Seq(Jobs)]
  /\ pendingIo \subseteq {o \in Jobs : o.op = "handler" /\ o.h <= handlers}
  /\ IsFiniteSet(pendingIo)
  /\ \A w \in Worker : WorkerOK(worker[w], privateQueue[w])

\* Operation o is in queue q, and is there once at most.
In(q, o) == \E i \in DOMAIN q : q[i] = o
AtMostOnce(q, o) == \A i, j \in DOMAIN q : q[i] = o /\ q[j] = o => i = j

\* The reactor's mark is in the queue, or its thread has it, and only one thread has.
\* A thread that blocks in the reactor is not interrupted only if the next wakeup will.
ReactorInv ==
  /\ AtMostOnce(opQueue, Task)
  /\ \A w \in Worker : worker[w].pc \in InReactor => ~In(opQueue, Task)
  /\ \A v, w \in Worker : worker[v].pc \in InReactor /\ worker[w].pc \in InReactor => v = w
  /\ \A w \in Worker : worker[w].pc = "block" /\ taskInterrupted => interrupt

\* Coming, of the record of a worker.
Arriving(r) ==
  \/ r.pc \in {"run", "locked", "poll", "polled"}
  \/ r.pc = "woken" /\ event
  \/ r.pc = "block" /\ interrupt

\* NoLostWakeup, which needs ReactorInv.
WakeInv ==
  (opQueue # <<>> /\ ~stopped /\ \E w \in Worker : Asleep(w)) =>
    \/ \E w \in Worker : Arriving(worker[w])
    \/ event /\ signals > 0 /\ \E w \in Worker : worker[w].pc = "wait"

\* The places of a strand, one by one.
Acquired(acq, s) == \E h \in Handler : <<h, s>> \in acq
AcquiredOnce(acq, s) == \A g, h \in Handler : <<g, s>> \in acq /\ <<h, s>> \in acq => g = h
InPrivate(pq, s) == \E v \in Worker : In(pq[v], Scheduled(s))
PrivateOnce(pq, s) ==
  /\ \A v \in Worker : AtMostOnce(pq[v], Scheduled(s))
  /\ \A u, v \in Worker : In(pq[u], Scheduled(s)) /\ In(pq[v], Scheduled(s)) => u = v
Holds(r, s) ==
  \/ r.pc \in {"op", "call"} /\ r.op = Scheduled(s)
  \/ r.pc \in {"inline", "call", "exit"} /\ r.op.op = "handler" /\ r.op.s = s
Held(wk, s) == \E v \in Worker : Holds(wk[v], s)
HeldOnce(wk, s) == \A u, v \in Worker : Holds(wk[u], s) /\ Holds(wk[v], s) => u = v

\* A strand is in one of them when it is locked, in none when it is not, and never in two.
OnePlace(acq, q, pq, wk, lk, s) ==
  /\ AcquiredOnce(acq, s)
  /\ AtMostOnce(q, Scheduled(s))
  /\ PrivateOnce(pq, s)
  /\ HeldOnce(wk, s)
  /\ ~(Acquired(acq, s) /\ In(q, Scheduled(s)))
  /\ ~(Acquired(acq, s) /\ InPrivate(pq, s))
  /\ ~(Acquired(acq, s) /\ Held(wk, s))
  /\ ~(In(q, Scheduled(s)) /\ InPrivate(pq, s))
  /\ ~(In(q, Scheduled(s)) /\ Held(wk, s))
  /\ ~(InPrivate(pq, s) /\ Held(wk, s))
  /\ lk <=> Acquired(acq, s) \/ In(q, Scheduled(s)) \/ InPrivate(pq, s) \/ Held(wk, s)
PlaceInv == \A s \in Strand : OnePlace(acquired, opQueue, privateQueue, worker, locked[s], s)

\* What was posted to a strand is what it has called, what it is to call next, and
\* what waits for it.  Next is ready_queue_, or the one handler that took the strand.
Parts(b, n, z) == (b \o n) \o z
Taking(r, s) == r.pc = "inline" /\ r.op.s = s
OrderOK(lk, acq, wk, rd, wt, od, bg, s) ==
  /\ ~lk => rd = <<>> /\ wt = <<>>
  /\ \A h \in Handler : <<h, s>> \in acq => rd = <<>> /\ od = Parts(bg, <<h>>, wt)
  /\ \A w \in Worker : Taking(wk[w], s) => rd = <<>> /\ od = Parts(bg, <<wk[w].op.h>>, wt)
  /\ ~Acquired(acq, s) /\ (\A w \in Worker : ~Taking(wk[w], s)) => od = Parts(bg, rd, wt)
OrderInv ==
  \A s \in Strand :
    OrderOK(locked[s], acquired, worker, ready[s], waiting[s], order[s], begun[s], s)

\* What WorkExact counts.
WorkInv ==
  /\ IsFiniteSet(Running) /\ IsFiniteSet(Found)
  /\ WorkExact

\* The types of the variables other than the queues and the count of work.
WorkerRec == [pc : Pc, op : Op, h : 0..MaxHandlers]
QueueTypes ==
  /\ event \in BOOLEAN /\ taskInterrupted \in BOOLEAN /\ interrupt \in BOOLEAN
  /\ stopped \in BOOLEAN /\ signals \in Nat
WorkerTypes == worker \in [Worker -> WorkerRec]
StrandTypes ==
  /\ locked \in [Strand -> BOOLEAN]
  /\ waiting \in [Strand -> Seq(Handler)]
  /\ ready \in [Strand -> Seq(Handler)]
  /\ order \in [Strand -> Seq(Handler)]
  /\ begun \in [Strand -> Seq(Handler)]
HandlerTypes ==
  /\ acquired \subseteq Handler \X Strand
  /\ handlers \in 0..MaxHandlers
  /\ ended \subseteq Handler
Types == QueueTypes /\ WorkerTypes /\ StrandTypes /\ HandlerTypes

IoInv ==
  Types /\ JobInv /\ ReactorInv /\ WakeInv /\ PlaceInv /\ OrderInv /\ work \in Nat /\ WorkInv
-----------------------------------------------------------------------------
(* Operations and workers.                                                 *)

\* The three kinds of operations are apart.
LEMMA OpKinds ==
  /\ Task \in Op /\ Task \notin Jobs /\ Jobs \subseteq Op
  /\ \A s \in Strand : Scheduled(s) \in Jobs /\ Scheduled(s) # Task
  /\ \A h \in Handler, s \in Strand \cup {NoStrand} :
       /\ Completion(h, s) \in Jobs /\ Completion(h, s) # Task
       /\ Completion(h, s).op = "handler" /\ Completion(h, s).h = h /\ Completion(h, s).s = s
       /\ \A t \in Strand : Completion(h, s) # Scheduled(t)
BY NoStrandAssumption, MaxHandlersAssumption DEF Op, Jobs, Task, Scheduled, Completion, Handler

\* The fields of a job.
LEMMA JobFields ==
  ASSUME NEW o \in Jobs
  PROVE  /\ o # Task
         /\ o.h \in 0..MaxHandlers
         /\ o.op = "strand" \/ o.op = "handler"
         /\ o.op = "strand" => o.s \in Strand /\ o = Scheduled(o.s)
         /\ o.op = "handler" => o.h \in Handler /\ (o.s \in Strand \/ o.s = NoStrand)
         /\ \A s \in Strand : o = Scheduled(s) <=> o.op = "strand" /\ o.s = s
BY NoStrandAssumption, MaxHandlersAssumption DEF Op, Jobs, Task, Scheduled, Handler

\* A worker's record.
LEMMA WorkerFields ==
  ASSUME NEW r \in WorkerRec
  PROVE  r.pc \in Pc /\ r.op \in Op /\ r.h \in 0..MaxHandlers
BY DEF WorkerRec

LEMMA WorkerPc ==
  ASSUME NEW r \in WorkerRec, NEW pc \in Pc
  PROVE  /\ [r EXCEPT !.pc = pc] \in WorkerRec
         /\ [r EXCEPT !.pc = pc].pc = pc
         /\ [r EXCEPT !.pc = pc].op = r.op /\ [r EXCEPT !.pc = pc].h = r.h
BY DEF WorkerRec

LEMMA WorkerH ==
  ASSUME NEW r \in WorkerRec, NEW h \in 0..MaxHandlers
  PROVE  /\ [r EXCEPT !.h = h] \in WorkerRec
         /\ [r EXCEPT !.h = h].pc = r.pc /\ [r EXCEPT !.h = h].op = r.op
         /\ [r EXCEPT !.h = h].h = h
BY DEF WorkerRec

\* A step that changes the record of worker w only, to one with this pc, op and h.
Becomes(w, pc, o, h) ==
  /\ WorkerTypes'
  /\ worker'[w].pc = pc /\ worker'[w].op = o /\ worker'[w].h = h
  /\ \A v \in Worker \ {w} : worker'[v] = worker[v]

LEMMA GotoBecomes ==
  ASSUME WorkerTypes, NEW w \in Worker, NEW pc \in Pc, Goto(w, pc)
  PROVE  Becomes(w, pc, worker[w].op, worker[w].h)
<1> DEFINE r == [worker[w] EXCEPT !.pc = pc]
<1>1. worker[w] \in WorkerRec
  BY DEF WorkerTypes
<1>2. r \in WorkerRec /\ r.pc = pc /\ r.op = worker[w].op /\ r.h = worker[w].h
  BY <1>1, WorkerPc
<1>3. worker' = [worker EXCEPT ![w] = r]
  BY DEF Goto
<1> HIDE DEF r
<1> QED
  BY <1>2, <1>3 DEF WorkerTypes, Becomes

LEMMA CallBecomes ==
  ASSUME WorkerTypes, NEW w \in Worker, NEW h \in 0..MaxHandlers,
         worker' = [worker EXCEPT ![w] = [@ EXCEPT !.pc = "call", !.h = h]]
  PROVE  Becomes(w, "call", worker[w].op, h)
<1> DEFINE c == [worker[w] EXCEPT !.pc = "call"]
<1> DEFINE r == [c EXCEPT !.h = h]
<1>1. worker[w] \in WorkerRec /\ "call" \in Pc
  BY DEF WorkerTypes, Pc
<1>2. c \in WorkerRec /\ c.pc = "call" /\ c.op = worker[w].op
  BY <1>1, WorkerPc
<1>3. worker' = [worker EXCEPT ![w] = r]
  OBVIOUS
<1> HIDE DEF c
<1>4. r \in WorkerRec /\ r.pc = "call" /\ r.op = worker[w].op /\ r.h = h
  BY <1>2, WorkerH
<1> HIDE DEF r
<1> QED
  BY <1>3, <1>4 DEF WorkerTypes, Becomes

LEMMA TakeBecomes ==
  ASSUME WorkerTypes, NEW w \in Worker, NEW o \in Op,
         worker' = [worker EXCEPT ![w] = [pc |-> "op", op |-> o, h |-> 0]]
  PROVE  Becomes(w, "op", o, 0)
<1> DEFINE r == [pc |-> "op", op |-> o, h |-> 0]
<1>2. r \in WorkerRec /\ r.pc = "op" /\ r.op = o /\ r.h = 0
  BY MaxHandlersAssumption DEF WorkerRec, Pc
<1>3. worker' = [worker EXCEPT ![w] = r]
  OBVIOUS
<1> HIDE DEF r
<1> QED
  BY <1>2, <1>3 DEF WorkerTypes, Becomes

\* stop() wakes the sleeping workers and leaves the others alone.
LEMMA BroadcastEffect ==
  ASSUME NEW f \in [Worker -> WorkerRec]
  PROVE  /\ Broadcast(f) \in [Worker -> WorkerRec]
         /\ \A v \in Worker :
              /\ Broadcast(f)[v].op = f[v].op /\ Broadcast(f)[v].h = f[v].h
              /\ f[v].pc # "wait" => Broadcast(f)[v] = f[v]
              /\ f[v].pc = "wait" => Broadcast(f)[v].pc = "woken"
<1>1. ASSUME NEW v \in Worker
      PROVE  /\ [f[v] EXCEPT !.pc = "woken"] \in WorkerRec
             /\ [f[v] EXCEPT !.pc = "woken"].pc = "woken"
             /\ [f[v] EXCEPT !.pc = "woken"].op = f[v].op
             /\ [f[v] EXCEPT !.pc = "woken"].h = f[v].h
  <2>1. f[v] \in WorkerRec /\ "woken" \in Pc
    BY DEF Pc
  <2> QED
    BY <2>1, WorkerPc
<1>2. ASSUME NEW v \in Worker
      PROVE  /\ f[v].pc # "wait" => Broadcast(f)[v] = f[v]
             /\ f[v].pc = "wait" => Broadcast(f)[v] = [f[v] EXCEPT !.pc = "woken"]
  BY DEF Broadcast
<1>3. \A v \in Worker :
        /\ Broadcast(f)[v] \in WorkerRec
        /\ Broadcast(f)[v].op = f[v].op /\ Broadcast(f)[v].h = f[v].h
        /\ f[v].pc # "wait" => Broadcast(f)[v] = f[v]
        /\ f[v].pc = "wait" => Broadcast(f)[v].pc = "woken"
  <2>1. TAKE v \in Worker
  <2>2. CASE f[v].pc = "wait"
    BY <2>2, <1>1, <1>2
  <2>3. CASE f[v].pc # "wait"
    BY <2>3, <1>2
  <2> QED
    BY <2>2, <2>3
<1>4. Broadcast(f) = [v \in Worker |-> Broadcast(f)[v]]
  BY DEF Broadcast
<1>5. Broadcast(f) \in [Worker -> WorkerRec]
  BY <1>3, <1>4
<1> QED
  BY <1>3, <1>5
-----------------------------------------------------------------------------
(* Types, and what the queues hold.                                        *)

LEMMA InitTypes == Init => Types /\ JobInv
<1> SUFFICES ASSUME Init PROVE Types /\ JobInv
  OBVIOUS
<1>1. QueueTypes
  BY DEF Init, QueueTypes
<1>2. [pc |-> "start", op |-> Task, h |-> 0] \in WorkerRec
  BY OpKinds, MaxHandlersAssumption DEF WorkerRec, Pc
<1>3. WorkerTypes
  BY <1>2 DEF Init, WorkerTypes
<1>4. StrandTypes
  BY DEF Init, StrandTypes
<1>5. HandlerTypes
  BY MaxHandlersAssumption DEF Init, HandlerTypes
<1>6. opQueue \in Seq(Jobs \cup {Task}) /\ privateQueue \in [Worker -> Seq(Jobs)]
  BY DEF Init
<1>7. 1 \in Handler
  BY MaxHandlersAssumption DEF Handler
<1>8. pendingIo \subseteq {o \in Jobs : o.op = "handler" /\ o.h <= handlers}
  BY <1>7, OpKinds DEF Init
<1>9. \A w \in Worker : WorkerOK(worker[w], privateQueue[w])
  BY DEF Init, WorkerOK, Busy
<1>10. IsFiniteSet(pendingIo)
  BY FS_Singleton DEF Init
<1> QED
  BY <1>1, <1>3, <1>4, <1>5, <1>6, <1>8, <1>9, <1>10 DEF Types, JobInv

\* The other workers keep their operations and their queues.
LEMMA WorkersKept ==
  ASSUME JobInv, NEW w \in Worker, NEW pc, NEW o, NEW h, Becomes(w, pc, o, h),
         \A v \in Worker \ {w} : privateQueue'[v] = privateQueue[v],
         WorkerOK(worker'[w], privateQueue'[w])
  PROVE  \A v \in Worker : WorkerOK(worker'[v], privateQueue'[v])
<1> TAKE v \in Worker
<1>1. CASE v = w
  BY <1>1
<1>2. CASE v # w
  <2>1. worker'[v] = worker[v] /\ privateQueue'[v] = privateQueue[v]
    BY <1>2 DEF Becomes
  <2> QED
    BY <2>1 DEF JobInv
<1> QED
  BY <1>1, <1>2

\* A worker without an operation moves on.
LEMMA MoveTypes ==
  ASSUME Types, JobInv, NEW w \in Worker, NEW pc \in Pc, Goto(w, pc),
         worker[w].pc \notin Busy \cup {"polled"}, pc \notin Busy,
         UNCHANGED loopUnchanged, QueueTypes', opQueue' \in Seq(Jobs \cup {Task})
  PROVE  Types' /\ JobInv'
<1>1. Becomes(w, pc, worker[w].op, worker[w].h)
  BY GotoBecomes DEF Types
<1>2. UNCHANGED <<privateQueue, pendingIo, locked, waiting, ready, order, acquired, handlers,
                  begun, ended>>
  BY DEF loopUnchanged, strandVars
<1>3. Types'
  BY <1>1, <1>2 DEF Types, StrandTypes, HandlerTypes, Becomes
<1>4. WorkerOK(worker'[w], privateQueue'[w])
  <2>1. worker'[w].pc = pc
    BY <1>1 DEF Becomes
  <2>2. privateQueue'[w] = <<>>
    BY <1>2 DEF JobInv, WorkerOK
  <2> QED
    BY <2>1, <2>2 DEF WorkerOK, Busy
<1>5. \A v \in Worker : WorkerOK(worker'[v], privateQueue'[v])
  BY <1>1, <1>2, <1>4, WorkersKept
<1> QED
  BY <1>2, <1>3, <1>5 DEF JobInv

\* The critical sections that signal keep the types of the event.
LEMMA SignalTypes ==
  ASSUME QueueTypes, unlock_and_signal_one
  PROVE  event' \in BOOLEAN /\ signals' \in Nat
BY DEF QueueTypes, unlock_and_signal_one

LEMMA WakeTypes ==
  ASSUME QueueTypes, wake_one_thread_and_unlock
  PROVE  /\ event' = TRUE /\ signals' \in Nat
         /\ taskInterrupted' \in BOOLEAN /\ interrupt' \in BOOLEAN
<1>1. event' = TRUE /\ signals' \in Nat
  BY DEF QueueTypes, wake_one_thread_and_unlock, unlock_and_signal_one
<1>2. CASE ~HaveWaiters /\ ~taskInterrupted
  BY <1>1, <1>2 DEF wake_one_thread_and_unlock
<1>3. CASE ~(~HaveWaiters /\ ~taskInterrupted)
  BY <1>1, <1>3 DEF QueueTypes, wake_one_thread_and_unlock
<1> QED
  BY <1>2, <1>3

LEMMA PostTypes ==
  ASSUME QueueTypes, opQueue \in Seq(Jobs \cup {Task}), NEW o \in Jobs,
         post_immediate_completion(o)
  PROVE  QueueTypes' /\ opQueue' \in Seq(Jobs \cup {Task})
<1>1. wake_one_thread_and_unlock /\ opQueue' = Append(opQueue, o) /\ stopped' = stopped
  BY DEF post_immediate_completion
<1>2. opQueue' \in Seq(Jobs \cup {Task})
  BY <1>1
<1> QED
  BY <1>1, <1>2, WakeTypes DEF QueueTypes

\* A worker goes on with its operation.
LEMMA GoOnTypes ==
  ASSUME Types, JobInv, NEW w \in Worker, NEW pc \in Busy, NEW h,
         Becomes(w, pc, worker[w].op, h), worker[w].pc \in Busy,
         pc \in {"inline", "exit"} =>
           worker[w].op.op = "handler" /\ worker[w].op.s \in Strand,
         pc = "call" => h \in Handler,
         QueueTypes', StrandTypes', HandlerTypes',
         opQueue' \in Seq(Jobs \cup {Task}),
         privateQueue' \in [Worker -> Seq(Jobs)],
         \A v \in Worker \ {w} : privateQueue'[v] = privateQueue[v],
         pendingIo' = pendingIo, handlers' = handlers
  PROVE  Types' /\ JobInv'
<1>1. Types'
  BY DEF Types, Becomes
<1>2. worker'[w].pc = pc /\ worker'[w].op = worker[w].op /\ worker'[w].h = h
  BY DEF Becomes
<1>3. worker[w].op \in Jobs
  BY DEF JobInv, WorkerOK
<1>4. WorkerOK(worker'[w], privateQueue'[w])
  BY <1>2, <1>3 DEF WorkerOK, Busy
<1>5. \A v \in Worker : WorkerOK(worker'[v], privateQueue'[v])
  BY <1>4, WorkersKept
<1> QED
  BY <1>1, <1>5 DEF JobInv

\* One lemma for each action that changes more than the place of a worker.
LEMMA RunTaskTypes ==
  ASSUME Types, JobInv, NEW w \in Worker, RunTask(w)
  PROVE  Types' /\ JobInv'
<1>1. opQueue' \in Seq(Jobs \cup {Task})
  BY DEF RunTask, JobInv
<1>2. \E pc \in {"poll", "block"} : Goto(w, pc)
  BY Zenon DEF RunTask
<1>3. PICK pc \in {"poll", "block"} : Goto(w, pc)
  BY <1>2
<1>4. QueueTypes'
  <2>1. CASE Tail(opQueue) # <<>>
    BY <2>1, SignalTypes DEF RunTask, Types, QueueTypes
  <2>2. CASE Tail(opQueue) = <<>>
    BY <2>2 DEF RunTask, Types, QueueTypes
  <2> QED
    BY <2>1, <2>2
<1>5. worker[w].pc \notin Busy \cup {"polled"} /\ UNCHANGED loopUnchanged
  BY DEF RunTask, AtLoop, Busy
<1>6. pc \in Pc /\ pc \notin Busy
  BY DEF Pc, Busy
<1> QED
  BY <1>1, <1>3, <1>4, <1>5, <1>6, MoveTypes

LEMMA TakeOpTypes ==
  ASSUME Types, JobInv, NEW w \in Worker, TakeOp(w)
  PROVE  Types' /\ JobInv'
<1>1. opQueue' \in Seq(Jobs \cup {Task}) /\ Head(opQueue) \in Jobs
  BY DEF TakeOp, JobInv
<1>2. Becomes(w, "op", Head(opQueue), 0)
  BY <1>1, OpKinds, TakeBecomes DEF TakeOp, Types
<1>3. UNCHANGED <<privateQueue, pendingIo, locked, waiting, ready, order, acquired, handlers,
                  begun, ended, stopped>>
  BY DEF TakeOp, loopUnchanged, strandVars
<1>4. QueueTypes'
  <2>1. CASE opQueue' # <<>>
    BY <2>1, <1>3, WakeTypes DEF TakeOp, Types, QueueTypes
  <2>2. CASE opQueue' = <<>>
    BY <2>2, <1>3 DEF TakeOp, Types, QueueTypes
  <2> QED
    BY <2>1, <2>2
<1>5. Types'
  BY <1>2, <1>3, <1>4 DEF Types, StrandTypes, HandlerTypes, Becomes
<1>6. WorkerOK(worker'[w], privateQueue'[w])
  BY <1>1, <1>2, <1>3 DEF Becomes, WorkerOK, Busy
<1>7. \A v \in Worker : WorkerOK(worker'[v], privateQueue'[v])
  BY <1>2, <1>3, <1>6, WorkersKept
<1> QED
  BY <1>1, <1>3, <1>5, <1>7 DEF JobInv

LEMMA EpollReturnsTypes ==
  ASSUME Types, JobInv, NEW w \in Worker, EpollReturns(w)
  PROVE  Types' /\ JobInv'
<1>0. PICK S \in SUBSET pendingIo :
        /\ pendingIo' = pendingIo \ S
        /\ \E q \in Orders(S) : privateQueue' = [privateQueue EXCEPT ![w] = q]
  BY DEF EpollReturns
<1>1. PICK q \in Orders(S) : privateQueue' = [privateQueue EXCEPT ![w] = q]
  BY <1>0
<1>10. IsFiniteSet(S) /\ IsFiniteSet(pendingIo')
  BY <1>0, FS_Subset DEF JobInv
<1>2. UNCHANGED <<opQueue, event, signals, taskInterrupted, stopped, locked, waiting, ready,
                  order, acquired, handlers, begun, ended>>
  BY DEF EpollReturns, strandVars
<1>3. Becomes(w, "polled", worker[w].op, worker[w].h)
  <2>1. "polled" \in Pc /\ Goto(w, "polled")
    BY DEF Pc, EpollReturns
  <2> QED
    BY <2>1, GotoBecomes DEF Types
<1>4. Types'
  BY <1>2, <1>3 DEF Types, QueueTypes, StrandTypes, HandlerTypes, Becomes, EpollReturns
<1>5. q \in Seq(Jobs)
  <2>1. PICK n : n = Cardinality(S)
    OBVIOUS
  <2>2. q \in [1..n -> S] /\ S \subseteq Jobs
    BY <2>1 DEF Orders, JobInv
  <2>3. n \in Nat
    BY <2>1, <1>10, FS_CardinalityType
  <2> QED
    BY <2>2, <2>3
<1>6. privateQueue' \in [Worker -> Seq(Jobs)]
  BY <1>1, <1>5 DEF JobInv
<1>7. WorkerOK(worker'[w], privateQueue'[w])
  BY <1>3 DEF Becomes, WorkerOK, Busy
<1>8. \A v \in Worker \ {w} : privateQueue'[v] = privateQueue[v]
  BY <1>1 DEF JobInv
<1>9. \A v \in Worker : WorkerOK(worker'[v], privateQueue'[v])
  BY <1>3, <1>7, <1>8, WorkersKept
<1> QED
  BY <1>0, <1>10, <1>2, <1>4, <1>6, <1>9 DEF JobInv

LEMMA TaskCleanupTypes ==
  ASSUME Types, JobInv, NEW w \in Worker, TaskCleanup(w)
  PROVE  Types' /\ JobInv'
<1>2. UNCHANGED <<event, signals, interrupt, stopped, pendingIo, locked, waiting, ready,
                  order, acquired, handlers, begun, ended>> /\ taskInterrupted' = TRUE
  BY DEF TaskCleanup, strandVars
<1>3. Becomes(w, "locked", worker[w].op, worker[w].h)
  <2>1. "locked" \in Pc /\ Goto(w, "locked")
    BY DEF Pc, TaskCleanup
  <2> QED
    BY <2>1, GotoBecomes DEF Types
<1>4. Types'
  BY <1>2, <1>3 DEF Types, QueueTypes, StrandTypes, HandlerTypes, Becomes
<1>5. opQueue' \in Seq(Jobs \cup {Task})
  <2>1. privateQueue[w] \in Seq(Jobs \cup {Task})
    BY DEF JobInv
  <2>2. opQueue \in Seq(Jobs \cup {Task}) /\ opQueue' = (opQueue \o privateQueue[w]) \o <<Task>>
    BY DEF JobInv, TaskCleanup
  <2> QED
    BY <2>1, <2>2
<1>6. privateQueue' \in [Worker -> Seq(Jobs)] /\ privateQueue'[w] = <<>>
      /\ \A v \in Worker \ {w} : privateQueue'[v] = privateQueue[v]
  BY DEF JobInv, TaskCleanup
<1>7. WorkerOK(worker'[w], privateQueue'[w])
  BY <1>3, <1>6 DEF Becomes, WorkerOK, Busy
<1>9. \A v \in Worker : WorkerOK(worker'[v], privateQueue'[v])
  BY <1>3, <1>6, <1>7, WorkersKept
<1> QED
  BY <1>2, <1>4, <1>5, <1>6, <1>9 DEF JobInv

LEMMA WorkCleanupTypes ==
  ASSUME Types, JobInv, NEW w \in Worker, WorkCleanup(w)
  PROVE  Types' /\ JobInv'
<1>2. UNCHANGED <<event, signals, taskInterrupted, interrupt, stopped, pendingIo, locked,
                  waiting, ready, order, acquired, handlers, begun, ended>>
  BY DEF WorkCleanup, strandVars
<1>3. PICK pc \in {"stop", "run", "locked"} : Goto(w, pc)
  BY Zenon DEF WorkCleanup
<1>4. Becomes(w, pc, worker[w].op, worker[w].h)
  <2>1. pc \in Pc
    BY DEF Pc
  <2> QED
    BY <1>3, <2>1, GotoBecomes DEF Types
<1>5. Types'
  BY <1>2, <1>4 DEF Types, QueueTypes, StrandTypes, HandlerTypes, Becomes
<1>6. /\ opQueue' \in Seq(Jobs \cup {Task})
      /\ privateQueue' \in [Worker -> Seq(Jobs)] /\ privateQueue'[w] = <<>>
      /\ \A v \in Worker \ {w} : privateQueue'[v] = privateQueue[v]
  <2>1. CASE privateQueue[w] = <<>>
    BY <2>1 DEF WorkCleanup, JobInv
  <2>2. CASE privateQueue[w] # <<>>
    <3>1. privateQueue[w] \in Seq(Jobs \cup {Task}) /\ opQueue \in Seq(Jobs \cup {Task})
      BY DEF JobInv
    <3>2. /\ opQueue' = opQueue \o privateQueue[w]
          /\ privateQueue' = [privateQueue EXCEPT ![w] = <<>>]
      BY <2>2 DEF WorkCleanup
    <3>3. opQueue' \in Seq(Jobs \cup {Task})
      BY <3>1, <3>2
    <3> QED
      BY <3>2, <3>3 DEF JobInv
  <2> QED
    BY <2>1, <2>2
<1>7. WorkerOK(worker'[w], privateQueue'[w])
  BY <1>4, <1>6 DEF Becomes, WorkerOK, Busy
<1>9. \A v \in Worker : WorkerOK(worker'[v], privateQueue'[v])
  BY <1>4, <1>6, <1>7, WorkersKept
<1> QED
  BY <1>2, <1>5, <1>6, <1>9 DEF JobInv

\* stop() wakes the sleeping workers.
LEMMA BroadcastTypes ==
  ASSUME Types, JobInv, NEW f \in [Worker -> WorkerRec], worker' = Broadcast(f),
         \A v \in Worker : WorkerOK(f[v], privateQueue[v]),
         stop_all_threads, UNCHANGED <<opQueue, signals, loopUnchanged>>
  PROVE  Types' /\ JobInv'
<1>1. worker' \in [Worker -> WorkerRec]
  BY BroadcastEffect
<1>2. UNCHANGED <<opQueue, signals, privateQueue, pendingIo, locked, waiting, ready, order,
                  acquired, handlers, begun, ended>>
  BY DEF loopUnchanged, strandVars
<1>3. Types'
  BY <1>1, <1>2 DEF Types, QueueTypes, WorkerTypes, StrandTypes, HandlerTypes, stop_all_threads
<1>4. ASSUME NEW v \in Worker
      PROVE  WorkerOK(worker'[v], privateQueue'[v])
  <2>1. CASE f[v].pc = "wait"
    <3>1. worker'[v].pc = "woken" /\ privateQueue'[v] = privateQueue[v]
      BY <2>1, <1>2, BroadcastEffect
    <3>2. privateQueue[v] = <<>>
      BY <2>1 DEF WorkerOK, Busy
    <3> QED
      BY <3>1, <3>2 DEF WorkerOK, Busy
  <2>2. CASE f[v].pc # "wait"
    <3>1. worker'[v] = f[v] /\ privateQueue'[v] = privateQueue[v]
      BY <2>2, <1>2, BroadcastEffect
    <3> QED
      BY <3>1
  <2> QED
    BY <2>1, <2>2
<1> QED
  BY <1>2, <1>3, <1>4 DEF JobInv

LEMMA WorkFinishedTypes ==
  ASSUME Types, JobInv, NEW w \in Worker, WorkFinished(w)
  PROVE  Types' /\ JobInv'
<1> DEFINE r == [worker[w] EXCEPT !.pc = "run"]
<1> DEFINE f == [worker EXCEPT ![w] = r]
<1>1. worker[w] \in WorkerRec /\ "run" \in Pc
  BY DEF Types, WorkerTypes, Pc
<1>2. r \in WorkerRec /\ r.pc = "run"
  BY <1>1, WorkerPc
<1>3. worker' = Broadcast(f)
  BY DEF WorkFinished
<1>4. worker[w].pc = "stop" /\ stop_all_threads /\ UNCHANGED <<opQueue, signals, loopUnchanged>>
  BY DEF WorkFinished
<1> HIDE DEF r
<1>5. f \in [Worker -> WorkerRec] /\ f[w] = r /\ \A v \in Worker \ {w} : f[v] = worker[v]
  BY <1>2 DEF Types, WorkerTypes
<1> HIDE DEF f
<1>6. \A v \in Worker : WorkerOK(f[v], privateQueue[v])
  <2>1. ASSUME NEW v \in Worker, v # w PROVE WorkerOK(f[v], privateQueue[v])
    BY <2>1, <1>5 DEF JobInv
  <2>2. privateQueue[w] = <<>>
    BY <1>4 DEF JobInv, WorkerOK, Busy
  <2>3. WorkerOK(f[w], privateQueue[w])
    BY <1>2, <1>5, <2>2 DEF WorkerOK, Busy
  <2> QED
    BY <2>1, <2>3
<1> QED
  BY <1>3, <1>4, <1>5, <1>6, BroadcastTypes

LEMMA StopTypes ==
  ASSUME Types, JobInv, Stop
  PROVE  Types' /\ JobInv'
<1>1. worker \in [Worker -> WorkerRec] /\ \A v \in Worker : WorkerOK(worker[v], privateQueue[v])
  BY DEF Types, WorkerTypes, JobInv
<1> QED
  BY <1>1, BroadcastTypes DEF Stop

\* The operation of a worker that is about to run it.
LEMMA OpOfWorker ==
  ASSUME Types, JobInv, NEW w \in Worker, worker[w].pc \in Busy
  PROVE  worker[w].op \in Jobs
BY DEF JobInv, WorkerOK

LEMMA CallPlainTypes ==
  ASSUME Types, JobInv, NEW w \in Worker, CallPlain(w)
  PROVE  Types' /\ JobInv'
<1>1. worker[w].pc \in Busy /\ "call" \in Busy /\ worker[w].op.op = "handler"
  BY DEF CallPlain, Busy
<1>2. worker[w].op.h \in Handler /\ worker[w].op.h \in 0..MaxHandlers
  BY <1>1, OpOfWorker, JobFields
<1>3. Becomes(w, "call", worker[w].op, worker[w].op.h)
  BY <1>2, CallBecomes DEF CallPlain, Types
<1>4. UNCHANGED <<opQueue, event, signals, taskInterrupted, interrupt, stopped, privateQueue,
                  pendingIo, acquired, handlers, locked, waiting, ready, order, begun, ended>>
  BY DEF CallPlain, opUnchanged, queueVars, strandVars
<1>5. QueueTypes' /\ StrandTypes' /\ HandlerTypes'
  BY <1>4 DEF Types, QueueTypes, StrandTypes, HandlerTypes
<1> QED
  BY <1>1, <1>2, <1>3, <1>4, <1>5, GoOnTypes DEF JobInv

LEMMA DispatchTypes ==
  ASSUME Types, JobInv, NEW w \in Worker, do_dispatch(w)
  PROVE  Types' /\ JobInv'
<1>1. worker[w].pc \in Busy /\ worker[w].op.op = "handler" /\ worker[w].op.s # NoStrand
  BY DEF do_dispatch, Busy
<1>2. worker[w].op.h \in Handler /\ worker[w].op.s \in Strand
  BY <1>1, OpOfWorker, JobFields
<1>3. PICK pc \in {"cleanup", "inline"} : Goto(w, pc)
  BY Zenon DEF do_dispatch
<1>4. pc \in Pc /\ pc \in Busy /\ pc # "call"
  BY DEF Pc, Busy
<1>5. Becomes(w, pc, worker[w].op, worker[w].h)
  BY <1>3, <1>4, GotoBecomes DEF Types
<1>6. UNCHANGED <<opQueue, event, signals, taskInterrupted, interrupt, stopped, privateQueue,
                  pendingIo, acquired, handlers, ready, begun, ended>>
  BY DEF do_dispatch, opUnchanged, queueVars
<1>7. StrandTypes'
  <2> DEFINE s == worker[w].op.s
  <2> DEFINE h == worker[w].op.h
  <2>1. order' = [order EXCEPT ![s] = Append(order[s], h)]
    BY DEF do_dispatch
  <2>2. \/ waiting' = [waiting EXCEPT ![s] = Append(waiting[s], h)] /\ locked' = locked
        \/ waiting' = waiting /\ locked' = [locked EXCEPT ![s] = TRUE]
    <3>1. CASE locked[s]
      BY <3>1 DEF do_dispatch
    <3>2. CASE ~locked[s]
      BY <3>2 DEF do_dispatch
    <3> QED
      BY <3>1, <3>2
  <2> HIDE DEF s, h
  <2>3. s \in Strand /\ h \in Handler
    BY <1>2 DEF s, h
  <2>4. order' \in [Strand -> Seq(Handler)]
    BY <2>1, <2>3 DEF Types, StrandTypes
  <2>5. waiting' \in [Strand -> Seq(Handler)]
    <3>1. CASE waiting' = waiting
      BY <3>1 DEF Types, StrandTypes
    <3>2. CASE waiting' = [waiting EXCEPT ![s] = Append(waiting[s], h)]
      BY <3>2, <2>3 DEF Types, StrandTypes
    <3> QED
      BY <3>1, <3>2, <2>2
  <2>6. locked' \in [Strand -> BOOLEAN]
    BY <2>2 DEF Types, StrandTypes
  <2> QED
    BY <2>4, <2>5, <2>6, <1>6 DEF Types, StrandTypes
<1>8. QueueTypes' /\ HandlerTypes'
  BY <1>6 DEF Types, QueueTypes, HandlerTypes
<1> QED
  BY <1>1, <1>2, <1>4, <1>5, <1>6, <1>7, <1>8, GoOnTypes DEF JobInv

LEMMA CallInlineTypes ==
  ASSUME Types, JobInv, NEW w \in Worker, CallInline(w)
  PROVE  Types' /\ JobInv'
<1>1. worker[w].pc \in Busy /\ "call" \in Busy /\ worker[w].pc = "inline"
  BY DEF CallInline, Busy
<1>2. worker[w].op.op = "handler" /\ worker[w].op.s \in Strand
  BY <1>1 DEF JobInv, WorkerOK
<1>3. worker[w].op.h \in Handler /\ worker[w].op.h \in 0..MaxHandlers
  BY <1>1, <1>2, OpOfWorker, JobFields
<1>4. Becomes(w, "call", worker[w].op, worker[w].op.h)
  BY <1>3, CallBecomes DEF CallInline, Types
<1>5. UNCHANGED <<opQueue, event, signals, taskInterrupted, interrupt, stopped, privateQueue,
                  pendingIo, acquired, handlers, locked, waiting, ready, order, ended>>
  BY DEF CallInline, opUnchanged, queueVars, strandVars
<1>6. StrandTypes'
  <2>1. PICK s \in Strand, h \in Handler : begun' = [begun EXCEPT ![s] = Append(begun[s], h)]
    BY <1>2, <1>3 DEF CallInline
  <2> QED
    BY <2>1, <1>5 DEF Types, StrandTypes
<1>7. QueueTypes' /\ HandlerTypes'
  BY <1>5 DEF Types, QueueTypes, HandlerTypes
<1> QED
  BY <1>1, <1>3, <1>4, <1>5, <1>6, <1>7, GoOnTypes DEF JobInv

LEMMA CallReadyTypes ==
  ASSUME Types, JobInv, NEW w \in Worker, CallReady(w)
  PROVE  Types' /\ JobInv'
<1>1. worker[w].pc \in Busy /\ "call" \in Busy /\ worker[w].op.op = "strand"
  BY DEF CallReady, Busy
<1>2. PICK s \in Strand : s = worker[w].op.s
  BY <1>1, OpOfWorker, JobFields
<1>3. ready[s] \in Seq(Handler) /\ ready[s] # <<>>
  BY <1>2 DEF CallReady, Types, StrandTypes
<1>4. PICK h \in Handler : h = Head(ready[s])
  BY <1>3
<1>5. /\ ready' = [ready EXCEPT ![s] = Tail(ready[s])]
      /\ begun' = [begun EXCEPT ![s] = Append(begun[s], h)]
      /\ worker' = [worker EXCEPT ![w] = [@ EXCEPT !.pc = "call", !.h = h]]
  BY <1>2, <1>4 DEF CallReady
<1>6. h \in 0..MaxHandlers
  BY MaxHandlersAssumption DEF Handler
<1>7. Becomes(w, "call", worker[w].op, h)
  BY <1>5, <1>6, CallBecomes DEF Types
<1>8. UNCHANGED <<opQueue, event, signals, taskInterrupted, interrupt, stopped, privateQueue,
                  pendingIo, acquired, handlers, locked, waiting, order, ended>>
  BY DEF CallReady, opUnchanged, queueVars
<1>9. StrandTypes'
  BY <1>3, <1>5, <1>8 DEF Types, StrandTypes
<1>10. QueueTypes' /\ HandlerTypes'
  BY <1>8 DEF Types, QueueTypes, HandlerTypes
<1> QED
  BY <1>1, <1>7, <1>8, <1>9, <1>10, GoOnTypes DEF JobInv

LEMMA HandlerReturnsTypes ==
  ASSUME Types, JobInv, NEW w \in Worker, HandlerReturns(w)
  PROVE  Types' /\ JobInv'
<1>1. worker[w].pc \in Busy /\ worker[w].pc = "call"
  BY DEF HandlerReturns, Busy
<1>2. worker[w].op \in Jobs /\ worker[w].h \in Handler
  BY <1>1 DEF JobInv, WorkerOK
<1>3. PICK pc \in {"op", "exit", "cleanup"} :
        /\ Goto(w, pc)
        /\ pc = "exit" => worker[w].op.op = "handler" /\ worker[w].op.s # NoStrand
  <2>1. CASE worker[w].op.op = "strand"
    BY <2>1 DEF HandlerReturns
  <2>2. CASE worker[w].op.op = "handler" /\ worker[w].op.s # NoStrand
    BY <2>2 DEF HandlerReturns
  <2>3. CASE ~(worker[w].op.op = "strand")
             /\ ~(worker[w].op.op = "handler" /\ worker[w].op.s # NoStrand)
    BY <2>3 DEF HandlerReturns
  <2> QED
    BY <2>1, <2>2, <2>3
<1>4. pc = "exit" => worker[w].op.op = "handler" /\ worker[w].op.s \in Strand
  BY <1>2, <1>3, JobFields
<1>5. pc \in Pc /\ pc \in Busy /\ pc # "call" /\ pc # "inline"
  BY DEF Pc, Busy
<1>6. Becomes(w, pc, worker[w].op, worker[w].h)
  BY <1>3, <1>5, GotoBecomes DEF Types
<1>7. UNCHANGED <<opQueue, event, signals, taskInterrupted, interrupt, stopped, privateQueue,
                  pendingIo, acquired, handlers, locked, waiting, ready, order, begun>>
  BY DEF HandlerReturns, opUnchanged, queueVars, strandVars
<1>8. HandlerTypes'
  BY <1>2, <1>7 DEF Types, HandlerTypes, HandlerReturns
<1>9. QueueTypes' /\ StrandTypes'
  BY <1>7 DEF Types, QueueTypes, StrandTypes
<1> QED
  BY <1>1, <1>4, <1>5, <1>6, <1>7, <1>8, <1>9, GoOnTypes DEF JobInv

\* What the exits do to a strand.
LEMMA ReleaseEffect ==
  ASSUME StrandTypes, NEW s \in Strand, release_strand(s)
  PROVE  /\ locked' \in [Strand -> BOOLEAN]
         /\ waiting' \in [Strand -> Seq(Handler)] /\ ready' \in [Strand -> Seq(Handler)]
         /\ ready'[s] = ready[s] \o waiting[s] /\ waiting'[s] = <<>>
         /\ locked'[s] = (ready'[s] # <<>>)
         /\ \A t \in Strand \ {s} :
              ready'[t] = ready[t] /\ waiting'[t] = waiting[t] /\ locked'[t] = locked[t]
         /\ order' = order
<1>1. ready[s] \o waiting[s] \in Seq(Handler)
  BY DEF StrandTypes
<1>2. /\ ready' = [ready EXCEPT ![s] = ready[s] \o waiting[s]]
      /\ waiting' = [waiting EXCEPT ![s] = <<>>]
      /\ locked' = [locked EXCEPT ![s] = (ready'[s] # <<>>)]
      /\ order' = order
  BY DEF release_strand
<1>3. PICK b \in BOOLEAN : b = (ready'[s] # <<>>)
  OBVIOUS
<1>4. locked' = [locked EXCEPT ![s] = b]
  BY <1>2, <1>3
<1>5. /\ ready'[s] = ready[s] \o waiting[s] /\ ready' \in [Strand -> Seq(Handler)]
      /\ \A t \in Strand \ {s} : ready'[t] = ready[t]
  BY <1>1, <1>2 DEF StrandTypes
<1>6. /\ waiting'[s] = <<>> /\ waiting' \in [Strand -> Seq(Handler)]
      /\ \A t \in Strand \ {s} : waiting'[t] = waiting[t]
  BY <1>2 DEF StrandTypes
<1>7. /\ locked'[s] = b /\ locked' \in [Strand -> BOOLEAN]
      /\ \A t \in Strand \ {s} : locked'[t] = locked[t]
  BY <1>4 DEF StrandTypes
<1> QED
  BY <1>2, <1>3, <1>5, <1>6, <1>7

LEMMA StrandExitTypes ==
  ASSUME Types, JobInv, NEW w \in Worker, StrandExit(w)
  PROVE  Types' /\ JobInv'
<1>1. worker[w].pc \in Busy /\ "cleanup" \in Busy /\ worker[w].op.op = "strand"
  BY DEF StrandExit, Busy
<1>2. PICK s \in Strand : s = worker[w].op.s
  BY <1>1, OpOfWorker, JobFields
<1>3. Becomes(w, "cleanup", worker[w].op, worker[w].h)
  <2>1. "cleanup" \in Pc /\ Goto(w, "cleanup")
    BY DEF Pc, StrandExit
  <2> QED
    BY <2>1, GotoBecomes DEF Types
<1>4. release_strand(s)
  BY <1>2 DEF StrandExit
<1>5. UNCHANGED <<opQueue, event, signals, taskInterrupted, interrupt, stopped,
                  pendingIo, acquired, handlers, begun, ended>>
  BY DEF StrandExit, queueVars
<1>6. StrandTypes'
  BY <1>4, <1>5, ReleaseEffect DEF Types, StrandTypes
<1>7. privateQueue' = privateQueue
      \/ privateQueue' = [privateQueue EXCEPT ![w] = Append(privateQueue[w], Scheduled(s))]
  BY <1>2 DEF StrandExit
<1>8. Scheduled(s) \in Jobs
  BY OpKinds
<1>9. /\ privateQueue' \in [Worker -> Seq(Jobs)]
      /\ \A v \in Worker \ {w} : privateQueue'[v] = privateQueue[v]
  <2>1. CASE privateQueue' = privateQueue
    BY <2>1 DEF JobInv
  <2>2. CASE privateQueue' = [privateQueue EXCEPT ![w] = Append(privateQueue[w], Scheduled(s))]
    BY <2>2, <1>8 DEF JobInv
  <2> QED
    BY <1>7, <2>1, <2>2
<1>10. QueueTypes' /\ HandlerTypes'
  BY <1>5 DEF Types, QueueTypes, HandlerTypes
<1> QED
  BY <1>1, <1>3, <1>5, <1>6, <1>9, <1>10, GoOnTypes DEF JobInv

LEMMA DispatchExitTypes ==
  ASSUME Types, JobInv, NEW w \in Worker, DispatchExit(w)
  PROVE  Types' /\ JobInv'
<1>1. worker[w].pc \in Busy /\ "cleanup" \in Busy /\ worker[w].pc = "exit"
  BY DEF DispatchExit, Busy
<1>2. PICK s \in Strand : s = worker[w].op.s
  BY <1>1 DEF JobInv, WorkerOK
<1>3. Becomes(w, "cleanup", worker[w].op, worker[w].h)
  <2>1. "cleanup" \in Pc /\ Goto(w, "cleanup")
    BY DEF Pc, DispatchExit
  <2> QED
    BY <2>1, GotoBecomes DEF Types
<1>4. release_strand(s)
  BY <1>2 DEF DispatchExit
<1>5. UNCHANGED <<privateQueue, pendingIo, acquired, handlers, begun, ended>>
  BY DEF DispatchExit
<1>6. StrandTypes'
  BY <1>4, <1>5, ReleaseEffect DEF Types, StrandTypes
<1>7. QueueTypes' /\ opQueue' \in Seq(Jobs \cup {Task})
  <2>1. CASE ready'[s] = <<>>
    BY <2>1, <1>2 DEF DispatchExit, queueVars, Types, QueueTypes, JobInv
  <2>2. CASE ready'[s] # <<>>
    <3>1. post_immediate_completion(Scheduled(s))
      BY <2>2, <1>2 DEF DispatchExit
    <3> QED
      BY <3>1, OpKinds, PostTypes DEF Types, JobInv
  <2> QED
    BY <2>1, <2>2
<1>10. HandlerTypes'
  BY <1>5 DEF Types, HandlerTypes
<1> QED
  BY <1>1, <1>3, <1>5, <1>6, <1>7, <1>10, GoOnTypes DEF JobInv

\* What users do: the workers stay where they are.
LEMMA UserTypes ==
  ASSUME Types, JobInv, worker' = worker, QueueTypes', StrandTypes', HandlerTypes',
         opQueue' \in Seq(Jobs \cup {Task}), handlers' \in Nat, handlers <= handlers',
         UNCHANGED <<privateQueue, pendingIo>>
  PROVE  Types' /\ JobInv'
<1>1. Types'
  BY DEF Types, WorkerTypes
<1>2. ASSUME NEW o \in pendingIo PROVE o \in Jobs /\ o.op = "handler" /\ o.h <= handlers'
  <2>1. o \in Jobs /\ o.op = "handler" /\ o.h <= handlers
    BY DEF JobInv
  <2>2. o.h \in Nat /\ handlers \in Nat
    BY <2>1, JobFields, MaxHandlersAssumption DEF Types, HandlerTypes
  <2> QED
    BY <2>1, <2>2
<1> QED
  BY <1>1, <1>2 DEF JobInv

LEMMA NewHandlerTypes ==
  ASSUME Types, NewHandler
  PROVE  /\ handlers' \in Handler /\ handlers' \in Nat /\ handlers' = handlers + 1
         /\ handlers \in Nat /\ handlers' \in 0..MaxHandlers
BY MaxHandlersAssumption DEF NewHandler, Handler, Types, HandlerTypes

LEMMA PostActionTypes ==
  ASSUME Types, JobInv, NEW s \in Strand \cup {NoStrand}, Post(s)
  PROVE  Types' /\ JobInv'
<1>1. NewHandler /\ post_immediate_completion(Completion(handlers', s))
      /\ UNCHANGED <<privateQueue, worker, pendingIo, locked, waiting, ready, order, acquired,
                     begun, ended>>
  BY DEF Post, strandVars
<1>2. Completion(handlers', s) \in Jobs
  BY <1>1, NewHandlerTypes, OpKinds
<1>3. QueueTypes' /\ opQueue' \in Seq(Jobs \cup {Task})
  BY <1>1, <1>2, PostTypes DEF Types, JobInv
<1>4. StrandTypes'
  BY <1>1 DEF Types, StrandTypes
<1>5. HandlerTypes'
  BY <1>1, NewHandlerTypes DEF Types, HandlerTypes
<1>6. handlers' \in Nat /\ handlers <= handlers'
  BY <1>1, NewHandlerTypes
<1> QED
  BY <1>1, <1>3, <1>4, <1>5, <1>6, UserTypes

LEMMA StartIoTypes ==
  ASSUME Types, JobInv, NEW s \in Strand \cup {NoStrand}, StartIo(s)
  PROVE  Types' /\ JobInv' /\ Completion(handlers', s) \notin pendingIo
<1>1. NewHandler /\ pendingIo' = pendingIo \cup {Completion(handlers', s)}
      /\ UNCHANGED <<opQueue, event, signals, taskInterrupted, interrupt, stopped, privateQueue,
                     worker, locked, waiting, ready, order, acquired, begun, ended>>
  BY DEF StartIo, strandVars, queueVars
<1>2. PICK o \in Jobs : o = Completion(handlers', s) /\ o.op = "handler" /\ o.h = handlers'
  BY <1>1, NewHandlerTypes, OpKinds
<1>3. Types'
  BY <1>1, NewHandlerTypes DEF Types, QueueTypes, WorkerTypes, StrandTypes, HandlerTypes
<1>4. ASSUME NEW p \in pendingIo
      PROVE  p \in Jobs /\ p.op = "handler" /\ p.h <= handlers' /\ p # o
  <2>1. p \in Jobs /\ p.op = "handler" /\ p.h <= handlers
    BY DEF JobInv
  <2>2. p.h \in Nat /\ handlers \in Nat /\ handlers' = handlers + 1
    BY <1>1, <2>1, JobFields, NewHandlerTypes, MaxHandlersAssumption
  <2> QED
    BY <1>2, <2>1, <2>2
<1>5. pendingIo' \subseteq {p \in Jobs : p.op = "handler" /\ p.h <= handlers'}
  BY <1>1, <1>2, <1>4, NewHandlerTypes
<1>6. IsFiniteSet(pendingIo')
  BY <1>1, FS_AddElement DEF JobInv
<1> QED
  BY <1>1, <1>2, <1>3, <1>4, <1>5, <1>6 DEF JobInv

LEMMA ContinueTypes ==
  ASSUME Types, JobInv, NEW w \in Worker, NEW s \in Strand \cup {NoStrand}, Continue(w, s)
  PROVE  Types' /\ JobInv'
<1>1. NewHandler /\ worker[w].pc = "call"
      /\ privateQueue' = [privateQueue EXCEPT ![w] = Append(privateQueue[w], Completion(handlers', s))]
      /\ UNCHANGED <<opQueue, event, signals, taskInterrupted, interrupt, stopped, pendingIo,
                     worker, locked, waiting, ready, order, acquired, begun, ended>>
  BY DEF Continue, strandVars, queueVars
<1>2. PICK o \in Jobs : o = Completion(handlers', s)
  BY <1>1, NewHandlerTypes, OpKinds
<1>3. Types'
  BY <1>1, NewHandlerTypes DEF Types, QueueTypes, WorkerTypes, StrandTypes, HandlerTypes
<1>4. /\ privateQueue' \in [Worker -> Seq(Jobs)]
      /\ \A v \in Worker \ {w} : privateQueue'[v] = privateQueue[v]
  BY <1>1, <1>2 DEF JobInv
<1>5. ASSUME NEW v \in Worker PROVE WorkerOK(worker'[v], privateQueue'[v])
  <2>1. WorkerOK(worker[v], privateQueue[v]) /\ worker'[v] = worker[v]
    BY <1>1 DEF JobInv
  <2>2. CASE v = w
    BY <2>1, <2>2, <1>1 DEF WorkerOK, Busy
  <2>3. CASE v # w
    BY <2>1, <2>3, <1>4
  <2> QED
    BY <2>2, <2>3
<1>6. ASSUME NEW p \in pendingIo PROVE p \in Jobs /\ p.op = "handler" /\ p.h <= handlers'
  <2>1. p \in Jobs /\ p.op = "handler" /\ p.h <= handlers
    BY DEF JobInv
  <2>2. p.h \in Nat /\ handlers \in Nat /\ handlers' = handlers + 1
    BY <1>1, <2>1, JobFields, NewHandlerTypes, MaxHandlersAssumption
  <2> QED
    BY <2>1, <2>2
<1> QED
  BY <1>1, <1>3, <1>4, <1>5, <1>6 DEF JobInv

LEMMA StrandPostTypes ==
  ASSUME Types, JobInv, NEW s \in Strand, StrandPost(s)
  PROVE  Types' /\ JobInv'
<1>1. NewHandler /\ order' = [order EXCEPT ![s] = Append(order[s], handlers')]
      /\ UNCHANGED <<opQueue, event, signals, taskInterrupted, interrupt, stopped, pendingIo,
                     privateQueue, worker, ready, begun, ended>>
  BY DEF StrandPost, queueVars
<1>2. PICK h \in Handler : h = handlers' /\ h \in Nat /\ handlers \in Nat /\ handlers <= h
                           /\ h \in 0..MaxHandlers
  BY <1>1, NewHandlerTypes
<1>3. order' \in [Strand -> Seq(Handler)]
  BY <1>1, <1>2 DEF Types, StrandTypes
<1>4. /\ waiting' \in [Strand -> Seq(Handler)] /\ locked' \in [Strand -> BOOLEAN]
      /\ acquired' \subseteq Handler \X Strand
  <2>1. CASE locked[s]
    <3>1. /\ waiting' = [waiting EXCEPT ![s] = Append(waiting[s], h)]
          /\ locked' = locked /\ acquired' = acquired
      BY <1>2, <2>1 DEF StrandPost
    <3> QED
      BY <3>1 DEF Types, StrandTypes, HandlerTypes
  <2>2. CASE ~locked[s]
    <3>1. /\ waiting' = waiting /\ locked' = [locked EXCEPT ![s] = TRUE]
          /\ acquired' = acquired \cup {<<h, s>>}
      BY <1>2, <2>2 DEF StrandPost
    <3> QED
      BY <3>1 DEF Types, StrandTypes, HandlerTypes
  <2> QED
    BY <2>1, <2>2
<1>5. StrandTypes' /\ HandlerTypes' /\ QueueTypes'
  BY <1>1, <1>2, <1>3, <1>4 DEF Types, StrandTypes, HandlerTypes, QueueTypes
<1>6. handlers' \in Nat /\ handlers <= handlers' /\ opQueue' \in Seq(Jobs \cup {Task})
  BY <1>1, <1>2 DEF JobInv
<1> QED
  BY <1>1, <1>5, <1>6, UserTypes

LEMMA ScheduleStrandTypes ==
  ASSUME Types, JobInv, NEW h \in Handler, NEW s \in Strand, ScheduleStrand(h, s)
  PROVE  Types' /\ JobInv'
<1>1. /\ acquired' = acquired \ {<<h, s>>}
      /\ ready' = [ready EXCEPT ![s] = Append(ready[s], h)]
      /\ post_immediate_completion(Scheduled(s))
      /\ UNCHANGED <<privateQueue, worker, pendingIo, locked, waiting, order, handlers, begun,
                     ended>>
  BY DEF ScheduleStrand
<1>2. QueueTypes' /\ opQueue' \in Seq(Jobs \cup {Task})
  BY <1>1, OpKinds, PostTypes DEF Types, JobInv
<1>3. StrandTypes'
  BY <1>1 DEF Types, StrandTypes
<1>4. HandlerTypes'
  BY <1>1 DEF Types, HandlerTypes
<1>5. handlers' \in Nat /\ handlers <= handlers'
  BY <1>1, MaxHandlersAssumption DEF Types, HandlerTypes
<1> QED
  BY <1>1, <1>2, <1>3, <1>4, <1>5, UserTypes

LEMMA CondSignalTypes ==
  ASSUME Types, JobInv, CondSignal
  PROVE  Types' /\ JobInv'
<1>1. UNCHANGED <<opQueue, event, taskInterrupted, interrupt, stopped, privateQueue, work,
                  pendingIo, locked, waiting, ready, order, acquired, handlers, begun, ended>>
      /\ signals > 0 /\ signals' = signals - 1
  BY DEF CondSignal, strandVars
<1>2. QueueTypes' /\ opQueue' \in Seq(Jobs \cup {Task}) /\ UNCHANGED loopUnchanged
  BY <1>1 DEF Types, QueueTypes, JobInv, loopUnchanged, strandVars
<1>3. ASSUME NEW v \in Worker, worker[v].pc = "wait", Goto(v, "woken") PROVE Types' /\ JobInv'
  <2>1. "woken" \in Pc /\ "woken" \notin Busy /\ worker[v].pc \notin Busy \cup {"polled"}
    BY <1>3 DEF Pc, Busy
  <2> QED
    BY <1>2, <1>3, <2>1, MoveTypes
<1>4. CASE worker' = worker
  <2>1. StrandTypes' /\ HandlerTypes' /\ handlers' \in Nat /\ handlers <= handlers'
    BY <1>1, MaxHandlersAssumption DEF Types, StrandTypes, HandlerTypes
  <2> QED
    BY <1>1, <1>2, <1>4, <2>1, UserTypes
<1> QED
  BY <1>3, <1>4 DEF CondSignal

LEMMA TypesNext ==
  ASSUME Types, JobInv, Next
  PROVE  Types' /\ JobInv'
<1>1. ASSUME NEW w \in Worker, EnterRun(w) PROVE Types' /\ JobInv'
  <2>1. PICK pc \in {"stop", "run"} : Goto(w, pc)
    BY <1>1, Zenon DEF EnterRun
  <2>2. pc \in Pc /\ pc \notin Busy /\ worker[w].pc \notin Busy \cup {"polled"}
    BY <1>1 DEF Pc, Busy, EnterRun
  <2>3. QueueTypes' /\ opQueue' \in Seq(Jobs \cup {Task}) /\ UNCHANGED loopUnchanged
    BY <1>1 DEF EnterRun, queueVars, Types, QueueTypes, JobInv
  <2> QED
    BY <2>1, <2>2, <2>3, MoveTypes
<1>2. ASSUME NEW w \in Worker, Wake(w) PROVE Types' /\ JobInv'
  <2>1. PICK pc \in {"locked", "wait"} : Goto(w, pc)
    BY <1>2, Zenon DEF Wake
  <2>2. pc \in Pc /\ pc \notin Busy /\ worker[w].pc \notin Busy \cup {"polled"}
    BY <1>2 DEF Pc, Busy, Wake
  <2>3. QueueTypes' /\ opQueue' \in Seq(Jobs \cup {Task}) /\ UNCHANGED loopUnchanged
    BY <1>2 DEF Wake, queueVars, Types, QueueTypes, JobInv, loopUnchanged
  <2> QED
    BY <2>1, <2>2, <2>3, MoveTypes
<1>3. ASSUME NEW w \in Worker, LeaveRun(w) PROVE Types' /\ JobInv'
  <2>1. "out" \in Pc /\ "out" \notin Busy /\ worker[w].pc \notin Busy \cup {"polled"}
    BY <1>3 DEF Pc, Busy, LeaveRun, AtLoop
  <2>2. QueueTypes' /\ opQueue' \in Seq(Jobs \cup {Task}) /\ UNCHANGED loopUnchanged
    BY <1>3 DEF LeaveRun, queueVars, Types, QueueTypes, JobInv
  <2>3. Goto(w, "out")
    BY <1>3 DEF LeaveRun
  <2> QED
    BY <2>1, <2>2, <2>3, MoveTypes
<1>4. ASSUME NEW w \in Worker, Sleep(w) PROVE Types' /\ JobInv'
  <2>1. "wait" \in Pc /\ "wait" \notin Busy /\ worker[w].pc \notin Busy \cup {"polled"}
    BY <1>4 DEF Pc, Busy, Sleep, AtLoop
  <2>2. QueueTypes' /\ opQueue' \in Seq(Jobs \cup {Task}) /\ UNCHANGED loopUnchanged
    BY <1>4 DEF Sleep, Types, QueueTypes, JobInv
  <2>3. Goto(w, "wait")
    BY <1>4 DEF Sleep
  <2> QED
    BY <2>1, <2>2, <2>3, MoveTypes
<1>5. ASSUME NEW w \in Worker, SpuriousWakeup(w) PROVE Types' /\ JobInv'
  <2>1. "woken" \in Pc /\ "woken" \notin Busy /\ worker[w].pc \notin Busy \cup {"polled"}
    BY <1>5 DEF Pc, Busy, SpuriousWakeup
  <2>2. QueueTypes' /\ opQueue' \in Seq(Jobs \cup {Task}) /\ UNCHANGED loopUnchanged
    BY <1>5 DEF SpuriousWakeup, queueVars, Types, QueueTypes, JobInv, loopUnchanged
  <2>3. Goto(w, "woken")
    BY <1>5 DEF SpuriousWakeup
  <2> QED
    BY <2>1, <2>2, <2>3, MoveTypes
<1>6. ASSUME NEW w \in Worker, WorkerStep(w) PROVE Types' /\ JobInv'
  BY <1>1, <1>2, <1>3, <1>4, <1>6, RunTaskTypes, TakeOpTypes, TaskCleanupTypes,
     WorkCleanupTypes, WorkFinishedTypes, CallPlainTypes, DispatchTypes, CallInlineTypes,
     CallReadyTypes, HandlerReturnsTypes, StrandExitTypes, DispatchExitTypes
     DEF WorkerStep
<1> QED
  BY <1>5, <1>6, EpollReturnsTypes, CondSignalTypes, PostActionTypes, StartIoTypes,
     ContinueTypes, StrandPostTypes, ScheduleStrandTypes, StopTypes
     DEF Next
-----------------------------------------------------------------------------
(* Queues: an operation that is in a queue once stays there once.          *)

LEMMA TailPlaces ==
  ASSUME NEW S, NEW q \in Seq(S), q # <<>>, NEW o
  PROVE  /\ AtMostOnce(q, o) => AtMostOnce(Tail(q), o)
         /\ In(Tail(q), o) => In(q, o)
         /\ Head(q) # o => (In(Tail(q), o) <=> In(q, o))
         /\ Head(q) = o => In(q, o)
         /\ Head(q) = o /\ AtMostOnce(q, o) => ~In(Tail(q), o)
<1>1. /\ DOMAIN q = 1..Len(q) /\ DOMAIN Tail(q) = 1..(Len(q) - 1) /\ Len(q) \in Nat \ {0}
      /\ \A i \in DOMAIN Tail(q) : Tail(q)[i] = q[i + 1] /\ i + 1 \in DOMAIN q
      /\ Head(q) = q[1]
      /\ \A i \in DOMAIN q : i # 1 => i - 1 \in DOMAIN Tail(q) /\ Tail(q)[i - 1] = q[i]
  OBVIOUS
<1>2. AtMostOnce(q, o) => AtMostOnce(Tail(q), o)
  BY <1>1 DEF AtMostOnce
<1>3. In(Tail(q), o) => In(q, o)
  BY <1>1 DEF In
<1>4. Head(q) # o /\ In(q, o) => In(Tail(q), o)
  BY <1>1 DEF In
<1>5. Head(q) = o => In(q, o)
  BY <1>1 DEF In
<1>6. Head(q) = o /\ AtMostOnce(q, o) => ~In(Tail(q), o)
  BY <1>1 DEF In, AtMostOnce
<1> QED
  BY <1>2, <1>3, <1>4, <1>5, <1>6

LEMMA AppendPlaces ==
  ASSUME NEW S, NEW q \in Seq(S), NEW p, NEW o
  PROVE  /\ p # o => (In(Append(q, p), o) <=> In(q, o))
         /\ p # o /\ AtMostOnce(q, o) => AtMostOnce(Append(q, p), o)
         /\ p = o => In(Append(q, p), o)
         /\ p = o /\ ~In(q, o) => AtMostOnce(Append(q, p), o)
<1>1. /\ DOMAIN q = 1..Len(q) /\ DOMAIN Append(q, p) = 1..(Len(q) + 1) /\ Len(q) \in Nat
      /\ \A i \in DOMAIN q : Append(q, p)[i] = q[i] /\ i \in DOMAIN Append(q, p)
      /\ Append(q, p)[Len(q) + 1] = p
      /\ \A i \in DOMAIN Append(q, p) : i \in DOMAIN q \/ i = Len(q) + 1
  OBVIOUS
<1>2. p # o => (In(Append(q, p), o) <=> In(q, o))
  BY <1>1 DEF In
<1>3. p # o /\ AtMostOnce(q, o) => AtMostOnce(Append(q, p), o)
  BY <1>1 DEF AtMostOnce
<1>4. p = o => In(Append(q, p), o)
  BY <1>1 DEF In
<1>5. p = o /\ ~In(q, o) => AtMostOnce(Append(q, p), o)
  BY <1>1 DEF In, AtMostOnce
<1> QED
  BY <1>2, <1>3, <1>4, <1>5

LEMMA ConcatPlaces ==
  ASSUME NEW S, NEW q \in Seq(S), NEW p \in Seq(S), NEW o
  PROVE  /\ In(q \o p, o) <=> In(q, o) \/ In(p, o)
         /\ AtMostOnce(q, o) /\ AtMostOnce(p, o) /\ ~(In(q, o) /\ In(p, o))
              => AtMostOnce(q \o p, o)
<1>1. /\ DOMAIN q = 1..Len(q) /\ DOMAIN p = 1..Len(p) /\ Len(q) \in Nat /\ Len(p) \in Nat
      /\ DOMAIN (q \o p) = 1..(Len(q) + Len(p))
      /\ \A i \in DOMAIN q : (q \o p)[i] = q[i] /\ i \in DOMAIN (q \o p)
      /\ \A i \in DOMAIN p : (q \o p)[Len(q) + i] = p[i] /\ Len(q) + i \in DOMAIN (q \o p)
      /\ \A i \in DOMAIN (q \o p) : i \in DOMAIN q
           \/ (i > Len(q) /\ i - Len(q) \in DOMAIN p /\ (q \o p)[i] = p[i - Len(q)])
  OBVIOUS
<1>2. In(q \o p, o) => In(q, o) \/ In(p, o)
  BY <1>1 DEF In
<1>3. In(q, o) => In(q \o p, o)
  BY <1>1 DEF In
<1>4. In(p, o) => In(q \o p, o)
  BY <1>1 DEF In
<1>5. ASSUME AtMostOnce(q, o), AtMostOnce(p, o), ~(In(q, o) /\ In(p, o))
      PROVE  AtMostOnce(q \o p, o)
  <2> SUFFICES ASSUME NEW i \in DOMAIN (q \o p), NEW j \in DOMAIN (q \o p),
                      (q \o p)[i] = o, (q \o p)[j] = o
               PROVE  i = j
    BY DEF AtMostOnce
  <2>1. CASE i \in DOMAIN q /\ j \in DOMAIN q
    BY <1>1, <1>5, <2>1 DEF AtMostOnce
  <2>2. CASE i \notin DOMAIN q /\ j \notin DOMAIN q
    BY <1>1, <1>5, <2>2 DEF AtMostOnce
  <2>3. CASE i \in DOMAIN q /\ j \notin DOMAIN q
    BY <1>1, <1>5, <2>3 DEF In
  <2>4. CASE i \notin DOMAIN q /\ j \in DOMAIN q
    BY <1>1, <1>5, <2>4 DEF In
  <2> QED
    BY <2>1, <2>2, <2>3, <2>4
<1> QED
  BY <1>2, <1>3, <1>4, <1>5

\* A queue of jobs does not hold the reactor's mark.
LEMMA NoTaskInJobs ==
  ASSUME NEW q \in Seq(Jobs)
  PROVE  ~In(q, Task) /\ AtMostOnce(q, Task)
BY OpKinds DEF In, AtMostOnce
-----------------------------------------------------------------------------
(* The reactor, and the wakeups.                                           *)

\* wake_one_thread_and_unlock(): if nobody sleeps on the condition the reactor is
\* interrupted, now or before.
LEMMA WakeEffect ==
  ASSUME QueueTypes, wake_one_thread_and_unlock
  PROVE  /\ event' = TRUE
         /\ HaveWaiters => signals' > 0
         /\ ~HaveWaiters /\ ~taskInterrupted => interrupt' = TRUE
         /\ taskInterrupted' = TRUE /\ interrupt' = FALSE
              => taskInterrupted = TRUE /\ interrupt = FALSE
         /\ interrupt = TRUE => interrupt' = TRUE
<1>1. event' = TRUE /\ (HaveWaiters => signals' > 0)
  BY DEF QueueTypes, wake_one_thread_and_unlock, unlock_and_signal_one
<1>2. CASE ~HaveWaiters /\ ~taskInterrupted
  BY <1>1, <1>2 DEF wake_one_thread_and_unlock
<1>3. CASE ~(~HaveWaiters /\ ~taskInterrupted)
  BY <1>1, <1>3 DEF QueueTypes, wake_one_thread_and_unlock
<1> QED
  BY <1>2, <1>3

\* Steps that do not go into the reactor or come out of it.
LEMMA ReactorKept ==
  ASSUME ReactorInv, QueueTypes, AtMostOnce(opQueue', Task), In(opQueue', Task) => In(opQueue, Task),
         \A v \in Worker : worker'[v].pc = worker[v].pc \/ worker'[v].pc \notin InReactor,
         QueueTypes',
         taskInterrupted' = TRUE /\ interrupt' = FALSE
           => taskInterrupted = TRUE /\ interrupt = FALSE
  PROVE  ReactorInv'
<1>1. \A w \in Worker : worker'[w].pc \in InReactor => ~In(opQueue', Task)
  BY DEF ReactorInv
<1>2. \A v, w \in Worker : worker'[v].pc \in InReactor /\ worker'[w].pc \in InReactor => v = w
  BY DEF ReactorInv
<1>3. ASSUME NEW w \in Worker, worker'[w].pc = "block", taskInterrupted' PROVE interrupt'
  <2>1. worker[w].pc = "block"
    BY <1>3 DEF InReactor
  <2>2. taskInterrupted => interrupt
    BY <2>1 DEF ReactorInv
  <2> QED
    BY <1>3, <2>2 DEF QueueTypes
<1> QED
  BY <1>1, <1>2, <1>3 DEF ReactorInv

\* A step of worker w that leads out of the reactor or passes it by.
LEMMA OutsideReactor ==
  ASSUME NEW w \in Worker, NEW pc, NEW o, NEW h, Becomes(w, pc, o, h), pc \notin InReactor
  PROVE  \A v \in Worker : worker'[v].pc = worker[v].pc \/ worker'[v].pc \notin InReactor
BY DEF Becomes

LEMMA RunTaskReactor ==
  ASSUME Types, JobInv, ReactorInv, NEW w \in Worker, RunTask(w)
  PROVE  ReactorInv'
<1>1. opQueue \in Seq(Jobs \cup {Task}) /\ opQueue # <<>> /\ Head(opQueue) = Task
      /\ opQueue' = Tail(opQueue) /\ interrupt' = interrupt
  BY DEF RunTask, JobInv
<1>2. In(opQueue, Task) /\ AtMostOnce(opQueue', Task) /\ ~In(opQueue', Task)
  BY <1>1, TailPlaces DEF ReactorInv
<1>3. \A v \in Worker : worker[v].pc \notin InReactor
  BY <1>2 DEF ReactorInv
<1>4. PICK pc \in {"poll", "block"} : Goto(w, pc) /\ (pc = "block" => taskInterrupted' = FALSE)
  <2>1. CASE Tail(opQueue) # <<>>
    BY <2>1 DEF RunTask
  <2>2. CASE Tail(opQueue) = <<>>
    BY <2>2 DEF RunTask
  <2> QED
    BY <2>1, <2>2
<1>5. pc \in Pc
  BY DEF Pc
<1>6. Becomes(w, pc, worker[w].op, worker[w].h)
  BY <1>4, <1>5, GotoBecomes DEF Types
<1>7. \A v \in Worker : worker'[v].pc \in InReactor => v = w
  BY <1>3, <1>6 DEF Becomes
<1>8. ASSUME NEW v \in Worker, worker'[v].pc = "block", taskInterrupted' PROVE FALSE
  <2>1. v = w
    BY <1>7, <1>8 DEF InReactor
  <2>2. pc = "block"
    BY <2>1, <1>6, <1>8 DEF Becomes
  <2> QED
    BY <2>2, <1>4, <1>8
<1> QED
  BY <1>2, <1>7, <1>8 DEF ReactorInv

LEMMA EpollReturnsReactor ==
  ASSUME Types, JobInv, ReactorInv, NEW w \in Worker, EpollReturns(w)
  PROVE  ReactorInv'
<1>1. worker[w].pc \in InReactor /\ opQueue' = opQueue /\ Goto(w, "polled") /\ "polled" \in Pc
  BY DEF EpollReturns, InReactor, Pc
<1>2. Becomes(w, "polled", worker[w].op, worker[w].h)
  BY <1>1, GotoBecomes DEF Types
<1>3. \A v \in Worker : worker'[v].pc \in InReactor => v = w
  BY <1>1, <1>2 DEF Becomes, ReactorInv
<1>4. ~In(opQueue', Task) /\ AtMostOnce(opQueue', Task)
  BY <1>1 DEF ReactorInv
<1>5. \A v \in Worker : worker'[v].pc # "block"
  BY <1>2, <1>3 DEF Becomes, InReactor
<1> QED
  BY <1>3, <1>4, <1>5 DEF ReactorInv

LEMMA TaskCleanupReactor ==
  ASSUME Types, JobInv, ReactorInv, NEW w \in Worker, TaskCleanup(w)
  PROVE  ReactorInv'
<1>1. worker[w].pc \in InReactor /\ Goto(w, "locked") /\ "locked" \in Pc
  BY DEF TaskCleanup, InReactor, Pc
<1>2. Becomes(w, "locked", worker[w].op, worker[w].h)
  BY <1>1, GotoBecomes DEF Types
<1>3. \A v \in Worker : worker'[v].pc \notin InReactor
  BY <1>1, <1>2 DEF Becomes, ReactorInv, InReactor
<1>4. PICK p \in Seq(Jobs) : p = privateQueue[w]
  BY DEF JobInv
<1>5. PICK q \in Seq(Jobs \cup {Task}) : q = opQueue \o p
  <2>1. opQueue \in Seq(Jobs \cup {Task}) /\ p \in Seq(Jobs \cup {Task})
    BY DEF JobInv
  <2>2. opQueue \o p \in Seq(Jobs \cup {Task})
    BY <2>1, ConcatProperties
  <2> QED
    BY <2>2
<1>6. ~In(q, Task)
  <2>1. ~In(opQueue, Task) /\ ~In(p, Task)
    BY <1>1, NoTaskInJobs DEF ReactorInv
  <2>2. opQueue \in Seq(Jobs \cup {Task}) /\ p \in Seq(Jobs \cup {Task})
    BY DEF JobInv
  <2> QED
    BY <1>5, <2>1, <2>2, ConcatPlaces
<1>7. opQueue' = Append(q, Task)
  BY <1>4, <1>5 DEF TaskCleanup
<1>8. AtMostOnce(opQueue', Task)
  BY <1>6, <1>7, AppendPlaces
<1> QED
  BY <1>3, <1>8 DEF ReactorInv, InReactor

\* After wake_one_thread_and_unlock() a worker is woken, is on its way, or is interrupted.
LEMMA WokenInv ==
  ASSUME Types, ReactorInv, wake_one_thread_and_unlock,
         \A v \in Worker : \/ worker'[v].pc = worker[v].pc
                           \/ /\ worker[v].pc \notin {"wait", "woken", "block"}
                              /\ worker'[v].pc \notin {"wait", "woken", "block"}
  PROVE  WakeInv'
<1> USE DEF Types
<1>1. CASE HaveWaiters
  <2>1. PICK v \in Worker : worker[v].pc \in {"wait", "woken"}
    BY <1>1 DEF HaveWaiters
  <2>2. worker'[v].pc \in {"wait", "woken"} /\ event' = TRUE /\ signals' > 0
    BY <1>1, <2>1, WakeEffect
  <2>3. (Arriving(worker[v]))' \/ (event' /\ signals' > 0 /\ worker'[v].pc = "wait")
    BY <2>2 DEF Arriving
  <2> QED
    BY <2>3 DEF WakeInv
<1>2. CASE ~HaveWaiters
  <2>1. ASSUME NEW v \in Worker, Asleep(v)' PROVE FALSE
    <3>1. worker'[v].pc \in {"wait", "woken", "block"} /\ event' = TRUE
      BY <2>1, WakeEffect DEF Asleep
    <3>2. worker[v].pc = worker'[v].pc /\ worker[v].pc \notin {"wait", "woken"}
      BY <1>2, <3>1 DEF HaveWaiters
    <3>3. worker[v].pc = "block" /\ ~interrupt'
      BY <2>1, <3>1, <3>2 DEF Asleep
    <3>4. CASE taskInterrupted
      <4>1. interrupt = TRUE
        BY <3>3, <3>4 DEF ReactorInv, QueueTypes
      <4> QED
        BY <4>1, <3>3, WakeEffect
    <3>5. CASE ~taskInterrupted
      BY <1>2, <3>3, <3>5, WakeEffect
    <3> QED
      BY <3>4, <3>5
  <2> QED
    BY <2>1 DEF WakeInv
<1> QED
  BY <1>1, <1>2

\* Steps of workers that neither sleep nor come to the queue.
LEMMA WakeKept ==
  ASSUME WakeInv, UNCHANGED <<event, signals, interrupt, stopped>>,
         opQueue' = opQueue,
         \A v \in Worker : \/ worker'[v].pc = worker[v].pc
                           \/ /\ worker[v].pc \in Busy \cup {"start", "stop", "out"}
                              /\ worker'[v].pc \notin {"wait", "woken", "block"}
  PROVE  WakeInv'
<1> SUFFICES ASSUME opQueue # <<>>, ~stopped, NEW w \in Worker, Asleep(w)'
             PROVE  \/ \E v \in Worker : (Arriving(worker[v]))'
                    \/ event' /\ signals' > 0 /\ \E v \in Worker : worker'[v].pc = "wait"
  BY DEF WakeInv
<1>1. worker'[w].pc = worker[w].pc
  BY DEF Asleep
<1>2. Asleep(w)
  BY <1>1 DEF Asleep
<1>3. CASE \E v \in Worker : Arriving(worker[v])
  <2>1. PICK v \in Worker : Arriving(worker[v])
    BY <1>3
  <2>2. worker[v].pc \notin Busy \cup {"start", "stop", "out"}
    BY <2>1 DEF Arriving, Busy
  <2>3. worker'[v].pc = worker[v].pc
    BY <2>2
  <2>4. (Arriving(worker[v]))'
    BY <2>1, <2>3 DEF Arriving
  <2> QED
    BY <2>4
<1>4. CASE event /\ signals > 0 /\ \E v \in Worker : worker[v].pc = "wait"
  <2>1. PICK v \in Worker : worker[v].pc = "wait"
    BY <1>4
  <2>2. worker'[v].pc = "wait"
    BY <2>1 DEF Busy
  <2> QED
    BY <1>4, <2>2
<1> QED
  BY <1>2, <1>3, <1>4 DEF WakeInv

\* Steps in posix_event::wait() while the event is not signalled.
LEMMA WaitKept ==
  ASSUME WakeInv, QueueTypes, event = FALSE, UNCHANGED <<opQueue, event, interrupt, stopped>>,
         \A v \in Worker : \/ worker'[v].pc = worker[v].pc
                           \/ /\ worker[v].pc \in {"wait", "woken"}
                              /\ worker'[v].pc \in {"wait", "woken"}
  PROVE  WakeInv'
<1> SUFFICES ASSUME opQueue # <<>>, ~stopped, NEW w \in Worker, Asleep(w)'
             PROVE  \E v \in Worker : (Arriving(worker[v]))'
  BY DEF WakeInv
<1>1. Asleep(w)
  BY DEF Asleep
<1>2. PICK v \in Worker : Arriving(worker[v])
  BY <1>1 DEF WakeInv
<1>3. worker[v].pc \notin {"wait", "woken"}
  BY <1>2 DEF Arriving
<1>4. worker'[v].pc = worker[v].pc
  BY <1>3
<1> QED
  BY <1>2, <1>4 DEF Arriving

\* Where an action of each worker leads, for all that follows.  Pairs of a place and the
\* one after it, for the actions that leave the queue, the event and the reactor alone.
LEMMA BusyStep ==
  ASSUME Types, JobInv, NEW w \in Worker,
         CallPlain(w) \/ do_dispatch(w) \/ CallInline(w) \/ CallReady(w) \/ HandlerReturns(w)
           \/ StrandExit(w)
  PROVE  /\ UNCHANGED queueVars /\ UNCHANGED <<work, pendingIo, acquired, handlers>>
         /\ worker[w].pc \in Busy
         /\ \E pc \in Busy, h \in 0..MaxHandlers : Becomes(w, pc, worker[w].op, h)
<1> USE DEF Types
<1>0. worker[w].h \in 0..MaxHandlers
  BY WorkerFields DEF WorkerTypes
<1>1. CASE CallPlain(w)
  <2>1. worker[w].pc \in Busy /\ "call" \in Busy /\ UNCHANGED queueVars
        /\ UNCHANGED <<work, pendingIo, acquired, handlers>>
    BY <1>1 DEF CallPlain, Busy, opUnchanged
  <2>2. worker[w].op.h \in 0..MaxHandlers
    BY <2>1, OpOfWorker, JobFields
  <2>3. Becomes(w, "call", worker[w].op, worker[w].op.h)
    BY <1>1, <2>2, CallBecomes DEF CallPlain
  <2> QED
    BY <2>1, <2>2, <2>3
<1>2. CASE do_dispatch(w)
  <2>1. worker[w].pc \in Busy /\ UNCHANGED queueVars
        /\ UNCHANGED <<work, pendingIo, acquired, handlers>>
    BY <1>2 DEF do_dispatch, Busy, opUnchanged
  <2>2. PICK pc \in {"cleanup", "inline"} : Goto(w, pc)
    BY <1>2, Zenon DEF do_dispatch
  <2>3. pc \in Pc /\ pc \in Busy
    BY DEF Pc, Busy
  <2>4. Becomes(w, pc, worker[w].op, worker[w].h)
    BY <2>2, <2>3, GotoBecomes
  <2> QED
    BY <1>0, <2>1, <2>3, <2>4
<1>3. CASE CallInline(w)
  <2>1. worker[w].pc \in Busy /\ "call" \in Busy /\ UNCHANGED queueVars
        /\ UNCHANGED <<work, pendingIo, acquired, handlers>>
    BY <1>3 DEF CallInline, Busy, opUnchanged
  <2>2. worker[w].op.h \in 0..MaxHandlers
    BY <2>1, OpOfWorker, JobFields
  <2>3. Becomes(w, "call", worker[w].op, worker[w].op.h)
    BY <1>3, <2>2, CallBecomes DEF CallInline
  <2> QED
    BY <2>1, <2>2, <2>3
<1>4. CASE CallReady(w)
  <2>1. worker[w].pc \in Busy /\ "call" \in Busy /\ worker[w].op.op = "strand"
        /\ UNCHANGED queueVars /\ UNCHANGED <<work, pendingIo, acquired, handlers>>
    BY <1>4 DEF CallReady, Busy, opUnchanged
  <2>2. PICK s \in Strand : s = worker[w].op.s
    BY <2>1, OpOfWorker, JobFields
  <2>3. ready[s] \in Seq(Handler) /\ ready[s] # <<>>
    BY <1>4, <2>2 DEF CallReady, StrandTypes
  <2>4. PICK h \in Handler : h = Head(ready[s])
    BY <2>3
  <2>5. h \in 0..MaxHandlers
    BY MaxHandlersAssumption DEF Handler
  <2>6. worker' = [worker EXCEPT ![w] = [@ EXCEPT !.pc = "call", !.h = h]]
    BY <1>4, <2>2, <2>4 DEF CallReady
  <2>7. Becomes(w, "call", worker[w].op, h)
    BY <2>5, <2>6, CallBecomes
  <2> QED
    BY <2>1, <2>5, <2>7
<1>5. CASE HandlerReturns(w)
  <2>1. worker[w].pc \in Busy /\ UNCHANGED queueVars
        /\ UNCHANGED <<work, pendingIo, acquired, handlers>>
    BY <1>5 DEF HandlerReturns, Busy, opUnchanged
  <2>2. PICK pc \in {"op", "exit", "cleanup"} : Goto(w, pc)
    <3>1. CASE worker[w].op.op = "strand"
      BY <1>5, <3>1 DEF HandlerReturns
    <3>2. CASE worker[w].op.op = "handler" /\ worker[w].op.s # NoStrand
      BY <1>5, <3>2 DEF HandlerReturns
    <3>3. CASE ~(worker[w].op.op = "strand")
               /\ ~(worker[w].op.op = "handler" /\ worker[w].op.s # NoStrand)
      BY <1>5, <3>3 DEF HandlerReturns
    <3> QED
      BY <3>1, <3>2, <3>3
  <2>3. pc \in Pc /\ pc \in Busy
    BY DEF Pc, Busy
  <2>4. Becomes(w, pc, worker[w].op, worker[w].h)
    BY <2>2, <2>3, GotoBecomes
  <2> QED
    BY <1>0, <2>1, <2>3, <2>4
<1>6. CASE StrandExit(w)
  <2>1. worker[w].pc \in Busy /\ "cleanup" \in Busy /\ "cleanup" \in Pc /\ Goto(w, "cleanup")
        /\ UNCHANGED queueVars /\ UNCHANGED <<work, pendingIo, acquired, handlers>>
    BY <1>6 DEF StrandExit, Busy, Pc
  <2>4. Becomes(w, "cleanup", worker[w].op, worker[w].h)
    BY <2>1, GotoBecomes
  <2> QED
    BY <1>0, <2>1, <2>4
<1> QED
  BY <1>1, <1>2, <1>3, <1>4, <1>5, <1>6

\* The reactor and the wakeups, action by action.
ReactorWake == ReactorInv /\ WakeInv

\* A step that leaves the queue and the event alone.
LEMMA QuietStep ==
  ASSUME Types, JobInv, ReactorWake, UNCHANGED queueVars,
         \A v \in Worker : \/ worker'[v].pc = worker[v].pc
                           \/ /\ worker[v].pc \in Busy \cup {"start", "stop", "out"}
                              /\ worker'[v].pc \notin {"wait", "woken"} \cup InReactor
  PROVE  ReactorWake'
<1>1. UNCHANGED <<opQueue, event, signals, taskInterrupted, interrupt, stopped>>
  BY DEF queueVars
<1>2. ReactorInv'
  <2>1. QueueTypes' /\ QueueTypes
    BY <1>1 DEF Types, QueueTypes
  <2>2. AtMostOnce(opQueue', Task) /\ (In(opQueue', Task) => In(opQueue, Task))
    BY <1>1 DEF ReactorWake, ReactorInv
  <2> QED
    BY <1>1, <2>1, <2>2, ReactorKept DEF ReactorWake
<1>3. WakeInv'
  BY <1>1, WakeKept DEF ReactorWake, InReactor
<1> QED
  BY <1>2, <1>3 DEF ReactorWake

\* A step of worker w that leaves the queue and the event alone.
LEMMA QuietWorker ==
  ASSUME Types, JobInv, ReactorWake, UNCHANGED queueVars, NEW w \in Worker, NEW pc, NEW o, NEW h,
         Becomes(w, pc, o, h), worker[w].pc \in Busy \cup {"start", "stop", "out"},
         pc \notin {"wait", "woken"} \cup InReactor
  PROVE  ReactorWake'
<1>1. \A v \in Worker : \/ worker'[v].pc = worker[v].pc
                        \/ /\ worker[v].pc \in Busy \cup {"start", "stop", "out"}
                           /\ worker'[v].pc \notin {"wait", "woken"} \cup InReactor
  BY DEF Becomes
<1> QED
  BY <1>1, QuietStep

\* A job is added to the queue and somebody is woken.
LEMMA PostStep ==
  ASSUME Types, JobInv, ReactorWake, Types', NEW o \in Jobs, post_immediate_completion(o),
         \A v \in Worker : \/ worker'[v].pc = worker[v].pc
                           \/ /\ worker[v].pc \notin {"wait", "woken"} \cup InReactor
                              /\ worker'[v].pc \notin {"wait", "woken"} \cup InReactor
  PROVE  ReactorWake'
<1>1. wake_one_thread_and_unlock /\ opQueue' = Append(opQueue, o) /\ o # Task
      /\ opQueue \in Seq(Jobs \cup {Task})
  BY JobFields DEF post_immediate_completion, JobInv
<1>2. AtMostOnce(opQueue', Task) /\ (In(opQueue', Task) => In(opQueue, Task))
  BY <1>1, AppendPlaces DEF ReactorWake, ReactorInv
<1>3. ReactorInv'
  BY <1>1, <1>2, ReactorKept, WakeEffect DEF ReactorWake, Types
<1>4. WakeInv'
  BY <1>1, WokenInv DEF ReactorWake, InReactor
<1> QED
  BY <1>3, <1>4 DEF ReactorWake

LEMMA ArrivesInv ==
  ASSUME NEW w \in Worker, worker'[w].pc \in {"run", "locked", "poll", "polled"}
                           \/ (worker'[w].pc = "woken" /\ event')
  PROVE  WakeInv'
<1>1. (Arriving(worker[w]))'
  BY DEF Arriving
<1> QED
  BY <1>1 DEF WakeInv

\* A step that leaves the queue alone, but not all of the event, outside the reactor.
LEMMA ReactorSame ==
  ASSUME Types, ReactorInv, UNCHANGED <<opQueue, taskInterrupted, interrupt>>, QueueTypes',
         \A v \in Worker : worker'[v].pc = worker[v].pc \/ worker'[v].pc \notin InReactor
  PROVE  ReactorInv'
<1>1. AtMostOnce(opQueue', Task) /\ (In(opQueue', Task) => In(opQueue, Task))
  BY DEF ReactorInv
<1> QED
  BY <1>1, ReactorKept DEF Types

LEMMA WakeStep ==
  ASSUME Types, JobInv, ReactorWake, Types', NEW w \in Worker, Wake(w)
  PROVE  ReactorWake'
<1>1. PICK pc \in {"locked", "wait"} : Goto(w, pc) /\ pc = IF event THEN "locked" ELSE "wait"
  BY Zenon DEF Wake
<1>2. pc \in Pc /\ pc \notin InReactor
  BY DEF Pc, InReactor
<1>3. Becomes(w, pc, worker[w].op, worker[w].h)
  BY <1>1, <1>2, GotoBecomes DEF Types
<1>4. UNCHANGED <<opQueue, event, signals, taskInterrupted, interrupt, stopped>>
      /\ worker[w].pc = "woken"
  BY DEF Wake, queueVars
<1>5. ReactorInv'
  BY <1>2, <1>3, <1>4, OutsideReactor, ReactorSame DEF Types, ReactorWake
<1>6. WakeInv'
  <2>1. CASE event
    BY <1>1, <1>3, <2>1, ArrivesInv DEF Becomes
  <2>2. CASE ~event
    <3>1. event = FALSE
      BY <2>2 DEF Types, QueueTypes
    <3>2. \A v \in Worker : \/ worker'[v].pc = worker[v].pc
                            \/ /\ worker[v].pc \in {"wait", "woken"}
                               /\ worker'[v].pc \in {"wait", "woken"}
      BY <1>1, <1>3, <1>4, <2>2 DEF Becomes
    <3> QED
      BY <1>4, <3>1, <3>2, WaitKept DEF Types, ReactorWake
  <2> QED
    BY <2>1, <2>2
<1> QED
  BY <1>5, <1>6 DEF ReactorWake

\* A sleeping worker wakes, by a signal or without one.
LEMMA WokenStep ==
  ASSUME Types, JobInv, ReactorWake, Types', NEW w \in Worker, worker[w].pc = "wait",
         Goto(w, "woken"), UNCHANGED <<opQueue, event, taskInterrupted, interrupt, stopped>>
  PROVE  ReactorWake'
<1>2. "woken" \in Pc /\ "woken" \notin InReactor
  BY DEF Pc, InReactor
<1>3. Becomes(w, "woken", worker[w].op, worker[w].h)
  BY <1>2, GotoBecomes DEF Types
<1>5. ReactorInv'
  BY <1>2, <1>3, OutsideReactor, ReactorSame DEF Types, ReactorWake
<1>6. WakeInv'
  <2>1. CASE event
    BY <1>3, <2>1, ArrivesInv DEF Becomes
  <2>2. CASE ~event
    <3>1. event = FALSE
      BY <2>2 DEF Types, QueueTypes
    <3>2. \A v \in Worker : \/ worker'[v].pc = worker[v].pc
                            \/ /\ worker[v].pc \in {"wait", "woken"}
                               /\ worker'[v].pc \in {"wait", "woken"}
      BY <1>3 DEF Becomes
    <3> QED
      BY <3>1, <3>2, WaitKept DEF Types, ReactorWake
  <2> QED
    BY <2>1, <2>2
<1> QED
  BY <1>5, <1>6 DEF ReactorWake

LEMMA CondSignalStep ==
  ASSUME Types, JobInv, ReactorWake, Types', CondSignal
  PROVE  ReactorWake'
<1>1. UNCHANGED <<opQueue, event, taskInterrupted, interrupt, stopped>>
  BY DEF CondSignal
<1>2. CASE \E v \in Worker : worker[v].pc = "wait" /\ Goto(v, "woken")
  BY <1>1, <1>2, WokenStep
<1>3. CASE (\A v \in Worker : worker[v].pc # "wait") /\ worker' = worker
  <2>1. ReactorInv'
    BY <1>1, <1>3, ReactorSame DEF Types, ReactorWake
  <2>2. WakeInv'
    BY <1>1, <1>3 DEF ReactorWake, WakeInv, Asleep, Arriving
  <2> QED
    BY <2>1, <2>2 DEF ReactorWake
<1> QED
  BY <1>2, <1>3 DEF CondSignal

LEMMA SleepStep ==
  ASSUME Types, JobInv, ReactorWake, Types', NEW w \in Worker, Sleep(w)
  PROVE  ReactorWake'
<1>1. UNCHANGED <<opQueue, taskInterrupted, interrupt>> /\ opQueue' = <<>> /\ Goto(w, "wait")
  BY DEF Sleep
<1>2. "wait" \in Pc /\ "wait" \notin InReactor
  BY DEF Pc, InReactor
<1>3. Becomes(w, "wait", worker[w].op, worker[w].h)
  BY <1>1, <1>2, GotoBecomes DEF Types
<1>4. ReactorInv'
  BY <1>1, <1>2, <1>3, OutsideReactor, ReactorSame DEF Types, ReactorWake
<1>5. WakeInv'
  BY <1>1 DEF WakeInv
<1> QED
  BY <1>4, <1>5 DEF ReactorWake

LEMMA LeaveRunStep ==
  ASSUME Types, JobInv, ReactorWake, Types', NEW w \in Worker, LeaveRun(w)
  PROVE  ReactorWake'
<1>1. UNCHANGED <<opQueue, taskInterrupted, interrupt>> /\ stopped' /\ Goto(w, "out")
  BY DEF LeaveRun, queueVars
<1>2. "out" \in Pc /\ "out" \notin InReactor
  BY DEF Pc, InReactor
<1>3. Becomes(w, "out", worker[w].op, worker[w].h)
  BY <1>1, <1>2, GotoBecomes DEF Types
<1>4. ReactorInv'
  BY <1>1, <1>2, <1>3, OutsideReactor, ReactorSame DEF Types, ReactorWake
<1>5. WakeInv'
  BY <1>1 DEF WakeInv
<1> QED
  BY <1>4, <1>5 DEF ReactorWake

LEMMA RunTaskStep ==
  ASSUME Types, JobInv, ReactorWake, Types', NEW w \in Worker, RunTask(w)
  PROVE  ReactorWake'
<1>1. WakeInv'
  <2>1. CASE Tail(opQueue) # <<>>
    <3>1. Goto(w, "poll") /\ "poll" \in Pc
      BY <2>1 DEF RunTask, Pc
    <3>2. worker'[w].pc = "poll"
      BY <3>1, GotoBecomes DEF Types, Becomes
    <3> QED
      BY <3>2, ArrivesInv
  <2>2. CASE Tail(opQueue) = <<>>
    BY <2>2 DEF RunTask, WakeInv
  <2> QED
    BY <2>1, <2>2
<1> QED
  BY <1>1, RunTaskReactor DEF ReactorWake

LEMMA TakeOpStep ==
  ASSUME Types, JobInv, ReactorWake, Types', NEW w \in Worker, TakeOp(w)
  PROVE  ReactorWake'
<1>1. opQueue \in Seq(Jobs \cup {Task}) /\ opQueue # <<>> /\ Head(opQueue) # Task
      /\ opQueue' = Tail(opQueue) /\ worker[w].pc \in {"run", "locked"}
  BY DEF TakeOp, JobInv, AtLoop
<1>2. Becomes(w, "op", Head(opQueue), 0) /\ "op" \notin InReactor
  <2>1. Head(opQueue) \in Op
    BY <1>1, OpKinds
  <2> QED
    BY <2>1, TakeBecomes DEF TakeOp, Types, InReactor
<1>3. AtMostOnce(opQueue', Task) /\ (In(opQueue', Task) => In(opQueue, Task))
  BY <1>1, TailPlaces DEF ReactorWake, ReactorInv
<1>4. taskInterrupted' = TRUE /\ interrupt' = FALSE => taskInterrupted = TRUE /\ interrupt = FALSE
  <2>1. CASE opQueue' = <<>>
    BY <2>1 DEF TakeOp
  <2>2. CASE opQueue' # <<>>
    BY <2>2, WakeEffect DEF TakeOp, Types
  <2> QED
    BY <2>1, <2>2
<1>5. ReactorInv'
  BY <1>2, <1>3, <1>4, OutsideReactor, ReactorKept DEF ReactorWake, Types
<1>6. WakeInv'
  <2>1. CASE opQueue' = <<>>
    BY <2>1 DEF WakeInv
  <2>2. CASE opQueue' # <<>>
    <3>1. wake_one_thread_and_unlock
      BY <2>2 DEF TakeOp
    <3>2. \A v \in Worker : \/ worker'[v].pc = worker[v].pc
                            \/ /\ worker[v].pc \notin {"wait", "woken", "block"}
                               /\ worker'[v].pc \notin {"wait", "woken", "block"}
      BY <1>1, <1>2 DEF Becomes
    <3> QED
      BY <3>1, <3>2, WokenInv DEF ReactorWake
  <2> QED
    BY <2>1, <2>2
<1> QED
  BY <1>5, <1>6 DEF ReactorWake

LEMMA EpollReturnsStep ==
  ASSUME Types, JobInv, ReactorWake, Types', NEW w \in Worker, EpollReturns(w)
  PROVE  ReactorWake'
<1>1. Goto(w, "polled") /\ "polled" \in Pc
  BY DEF EpollReturns, Pc
<1>2. worker'[w].pc = "polled"
  BY <1>1, GotoBecomes DEF Types, Becomes
<1> QED
  BY <1>2, ArrivesInv, EpollReturnsReactor DEF ReactorWake

LEMMA TaskCleanupStep ==
  ASSUME Types, JobInv, ReactorWake, Types', NEW w \in Worker, TaskCleanup(w)
  PROVE  ReactorWake'
<1>1. Goto(w, "locked") /\ "locked" \in Pc
  BY DEF TaskCleanup, Pc
<1>2. worker'[w].pc = "locked"
  BY <1>1, GotoBecomes DEF Types, Becomes
<1> QED
  BY <1>2, ArrivesInv, TaskCleanupReactor DEF ReactorWake

LEMMA WorkCleanupStep ==
  ASSUME Types, JobInv, ReactorWake, Types', NEW w \in Worker, WorkCleanup(w)
  PROVE  ReactorWake'
<1>1. UNCHANGED <<event, signals, taskInterrupted, interrupt, stopped>>
      /\ worker[w].pc = "cleanup"
  BY DEF WorkCleanup
<1>2. CASE privateQueue[w] = <<>>
  <2>1. PICK pc \in {"stop", "run"} : Goto(w, pc)
    BY <1>2, Zenon DEF WorkCleanup
  <2>2. pc \in Pc /\ pc \notin {"wait", "woken"} \cup InReactor /\ "cleanup" \in Busy
    BY DEF Pc, InReactor, Busy
  <2>3. Becomes(w, pc, worker[w].op, worker[w].h)
    BY <2>1, <2>2, GotoBecomes DEF Types
  <2>4. UNCHANGED queueVars
    BY <1>1, <1>2 DEF WorkCleanup, queueVars
  <2> QED
    BY <1>1, <2>2, <2>3, <2>4, QuietWorker
<1>3. CASE privateQueue[w] # <<>>
  <2>1. Goto(w, "locked") /\ "locked" \in Pc /\ "locked" \notin InReactor
        /\ opQueue' = opQueue \o privateQueue[w]
    BY <1>3 DEF WorkCleanup, Pc, InReactor
  <2>2. Becomes(w, "locked", worker[w].op, worker[w].h)
    BY <2>1, GotoBecomes DEF Types
  <2>3. PICK p \in Seq(Jobs) : p = privateQueue[w]
    BY DEF JobInv
  <2>4. ~In(p, Task) /\ AtMostOnce(p, Task)
    BY NoTaskInJobs
  <2>5. opQueue \in Seq(Jobs \cup {Task}) /\ p \in Seq(Jobs \cup {Task}) /\ opQueue' = opQueue \o p
    BY <2>1, <2>3 DEF JobInv
  <2>6. AtMostOnce(opQueue', Task) /\ (In(opQueue', Task) => In(opQueue, Task))
    BY <2>4, <2>5, ConcatPlaces DEF ReactorWake, ReactorInv
  <2>7. ReactorInv'
    BY <1>1, <2>1, <2>2, <2>6, OutsideReactor, ReactorKept DEF ReactorWake, Types
  <2>8. WakeInv'
    BY <2>2, ArrivesInv DEF Becomes
  <2> QED
    BY <2>7, <2>8 DEF ReactorWake
<1> QED
  BY <1>2, <1>3

\* stop() interrupts the reactor.
LEMMA StopThreadsStep ==
  ASSUME Types, ReactorWake, Types', stop_all_threads, opQueue' = opQueue,
         \A v \in Worker : worker'[v].pc = worker[v].pc \/ worker'[v].pc \notin InReactor
  PROVE  ReactorWake'
<1>1. stopped' = TRUE /\ taskInterrupted' = TRUE /\ interrupt' = (interrupt \/ ~taskInterrupted)
  BY DEF stop_all_threads
<1>2. taskInterrupted' = TRUE /\ interrupt' = FALSE => taskInterrupted = TRUE /\ interrupt = FALSE
  BY <1>1 DEF Types, QueueTypes
<1>3. AtMostOnce(opQueue', Task) /\ (In(opQueue', Task) => In(opQueue, Task))
  BY DEF ReactorWake, ReactorInv
<1>4. ReactorInv'
  BY <1>2, <1>3, ReactorKept DEF ReactorWake, Types
<1>5. WakeInv'
  BY <1>1 DEF WakeInv
<1> QED
  BY <1>4, <1>5 DEF ReactorWake

\* The places of the workers after stop().
LEMMA StopPlaces ==
  ASSUME Types, NEW w \in Worker,
         \/ Stop
         \/ worker[w].pc = "stop" /\ WorkFinished(w)
  PROVE  \A v \in Worker :
           \/ worker'[v] = worker[v]
           \/ worker[v].pc = "wait" /\ worker'[v].pc = "woken"
           \/ worker[v].pc = "stop" /\ worker'[v].pc = "run"
<1>1. CASE Stop
  <2>1. worker \in [Worker -> WorkerRec] /\ worker' = Broadcast(worker)
    BY <1>1 DEF Stop, Types, WorkerTypes
  <2> QED
    BY <2>1, BroadcastEffect
<1>2. CASE worker[w].pc = "stop" /\ WorkFinished(w)
  <2> DEFINE r == [worker[w] EXCEPT !.pc = "run"]
  <2> DEFINE f == [worker EXCEPT ![w] = r]
  <2>1. worker[w] \in WorkerRec /\ "run" \in Pc
    BY DEF Types, WorkerTypes, Pc
  <2>2. r \in WorkerRec /\ r.pc = "run"
    BY <2>1, WorkerPc
  <2>3. worker' = Broadcast(f)
    BY <1>2 DEF WorkFinished
  <2> HIDE DEF r
  <2>5. f \in [Worker -> WorkerRec] /\ f[w] = r /\ \A v \in Worker \ {w} : f[v] = worker[v]
    BY <2>2 DEF Types, WorkerTypes
  <2> HIDE DEF f
  <2>6. \A v \in Worker : (f[v].pc # "wait" => worker'[v] = f[v])
                          /\ (f[v].pc = "wait" => worker'[v].pc = "woken")
    BY <2>3, <2>5, BroadcastEffect
  <2> TAKE v \in Worker
  <2>7. CASE v = w
    BY <1>2, <2>2, <2>5, <2>6, <2>7
  <2>8. CASE v # w
    BY <2>5, <2>6, <2>8
  <2> QED
    BY <2>7, <2>8
<1> QED
  BY <1>1, <1>2

LEMMA ReactorWakeNext ==
  ASSUME Types, JobInv, ReactorWake, Next
  PROVE  ReactorWake'
<1>0. Types' /\ JobInv'
  BY TypesNext
<1>1. ASSUME NEW w \in Worker, EnterRun(w) PROVE ReactorWake'
  <2>1. PICK pc \in {"stop", "run"} : Goto(w, pc)
    BY <1>1, Zenon DEF EnterRun
  <2>2. pc \in Pc /\ pc \notin {"wait", "woken"} \cup InReactor
    BY DEF Pc, InReactor
  <2>3. Becomes(w, pc, worker[w].op, worker[w].h)
    BY <2>1, <2>2, GotoBecomes DEF Types
  <2>4. UNCHANGED queueVars /\ worker[w].pc = "start"
    BY <1>1 DEF EnterRun
  <2> QED
    BY <2>2, <2>3, <2>4, QuietWorker
<1>2. ASSUME NEW w \in Worker,
             CallPlain(w) \/ do_dispatch(w) \/ CallInline(w) \/ CallReady(w)
               \/ HandlerReturns(w) \/ StrandExit(w)
      PROVE  ReactorWake'
  <2>1. PICK pc \in Busy, h \in 0..MaxHandlers : Becomes(w, pc, worker[w].op, h)
    BY <1>2, BusyStep
  <2>2. UNCHANGED queueVars /\ worker[w].pc \in Busy
    BY <1>2, BusyStep
  <2>3. pc \notin {"wait", "woken"} \cup InReactor
    BY DEF Busy, InReactor
  <2> QED
    BY <2>1, <2>2, <2>3, QuietWorker
<1>3. ASSUME NEW w \in Worker, DispatchExit(w) PROVE ReactorWake'
  <2>1. worker[w].pc = "exit" /\ "exit" \in Busy /\ "cleanup" \in Pc /\ Goto(w, "cleanup")
        /\ "cleanup" \notin {"wait", "woken"} \cup InReactor
        /\ "exit" \notin {"wait", "woken"} \cup InReactor
    BY <1>3 DEF DispatchExit, Busy, Pc, InReactor
  <2>2. PICK s \in Strand : s = worker[w].op.s
    BY <2>1 DEF JobInv, WorkerOK
  <2>3. Becomes(w, "cleanup", worker[w].op, worker[w].h)
    BY <2>1, GotoBecomes DEF Types
  <2>4. CASE ready'[s] = <<>>
    <3>1. UNCHANGED queueVars
      BY <1>3, <2>2, <2>4 DEF DispatchExit
    <3> QED
      BY <2>1, <2>3, <3>1, QuietWorker
  <2>5. CASE ready'[s] # <<>>
    <3>1. post_immediate_completion(Scheduled(s)) /\ Scheduled(s) \in Jobs
      BY <1>3, <2>2, <2>5, OpKinds DEF DispatchExit
    <3>2. \A v \in Worker : \/ worker'[v].pc = worker[v].pc
                            \/ /\ worker[v].pc \notin {"wait", "woken"} \cup InReactor
                               /\ worker'[v].pc \notin {"wait", "woken"} \cup InReactor
      BY <2>1, <2>3 DEF Becomes
    <3> QED
      BY <1>0, <3>1, <3>2, PostStep
  <2> QED
    BY <2>4, <2>5
<1>4. ASSUME NEW w \in Worker, WorkFinished(w) PROVE ReactorWake'
  <2>1. stop_all_threads /\ opQueue' = opQueue /\ worker[w].pc = "stop"
    BY <1>4 DEF WorkFinished
  <2>2. \A v \in Worker : worker'[v].pc = worker[v].pc \/ worker'[v].pc \notin InReactor
    BY <1>4, <2>1, StopPlaces DEF InReactor
  <2> QED
    BY <1>0, <2>1, <2>2, StopThreadsStep
<1>5. ASSUME Stop PROVE ReactorWake'
  <2>1. stop_all_threads /\ opQueue' = opQueue
    BY <1>5 DEF Stop
  <2>2. \A v \in Worker : worker'[v].pc = worker[v].pc \/ worker'[v].pc \notin InReactor
    BY <1>5, StopPlaces DEF InReactor
  <2> QED
    BY <1>0, <2>1, <2>2, StopThreadsStep
<1>6. ASSUME NEW w \in Worker, SpuriousWakeup(w) PROVE ReactorWake'
  BY <1>0, <1>6, WokenStep DEF SpuriousWakeup, queueVars
<1>7. ASSUME NEW s \in Strand \cup {NoStrand}, Post(s) PROVE ReactorWake'
  <2>1. NewHandler /\ post_immediate_completion(Completion(handlers', s))
        /\ worker' = worker
    BY <1>7 DEF Post
  <2>2. Completion(handlers', s) \in Jobs
    BY <2>1, NewHandlerTypes, OpKinds
  <2> QED
    BY <1>0, <2>1, <2>2, PostStep
<1>8. ASSUME NEW h \in Handler, NEW s \in Strand, ScheduleStrand(h, s) PROVE ReactorWake'
  <2>1. post_immediate_completion(Scheduled(s)) /\ worker' = worker /\ Scheduled(s) \in Jobs
    BY <1>8, OpKinds DEF ScheduleStrand
  <2> QED
    BY <1>0, <2>1, PostStep
<1>9. ASSUME UNCHANGED <<queueVars, worker>> PROVE ReactorWake'
  BY <1>9, QuietStep
<1>10. ASSUME NEW s \in Strand \cup {NoStrand},
              StartIo(s) \/ \E w \in Worker : Continue(w, s)
       PROVE  UNCHANGED <<queueVars, worker>>
  BY <1>10 DEF StartIo, Continue
<1>11. ASSUME NEW s \in Strand, StrandPost(s) PROVE UNCHANGED <<queueVars, worker>>
  BY <1>11 DEF StrandPost
<1>12. ASSUME NEW w \in Worker, WorkerStep(w) PROVE ReactorWake'
  BY <1>0, <1>1, <1>2, <1>3, <1>4, <1>12, WakeStep, LeaveRunStep, RunTaskStep, TakeOpStep,
     SleepStep, TaskCleanupStep, WorkCleanupStep DEF WorkerStep
<1> QED
  BY <1>0, <1>5, <1>6, <1>7, <1>8, <1>9, <1>10, <1>11, <1>12, EpollReturnsStep, CondSignalStep
     DEF Next
-----------------------------------------------------------------------------
(* The count of work.                                                      *)

\* The number of jobs in a queue.
JobsIn(q) == {i \in DOMAIN q : q[i] # Task}

LEMMA JobsFinite ==
  ASSUME NEW S, NEW q \in Seq(S)
  PROVE  IsFiniteSet(JobsIn(q)) /\ Cardinality(JobsIn(q)) \in Nat
<1>1. IsFiniteSet(1..Len(q)) /\ JobsIn(q) \subseteq 1..Len(q)
  BY FS_Interval DEF JobsIn
<1>2. IsFiniteSet(JobsIn(q))
  BY <1>1, FS_Subset
<1> QED
  BY <1>2, FS_CardinalityType

LEMMA JobsAppend ==
  ASSUME NEW S, NEW q \in Seq(S), NEW o
  PROVE  Cardinality(JobsIn(Append(q, o))) =
           IF o = Task THEN Cardinality(JobsIn(q)) ELSE Cardinality(JobsIn(q)) + 1
<1>1. IsFiniteSet(JobsIn(q)) /\ Cardinality(JobsIn(q)) \in Nat
  BY JobsFinite
<1>2. /\ DOMAIN q = 1..Len(q) /\ DOMAIN Append(q, o) = 1..(Len(q) + 1) /\ Len(q) \in Nat
      /\ \A i \in DOMAIN q : Append(q, o)[i] = q[i]
      /\ Append(q, o)[Len(q) + 1] = o
  OBVIOUS
<1>3. CASE o = Task
  <2>1. JobsIn(Append(q, o)) = JobsIn(q)
    BY <1>2, <1>3 DEF JobsIn
  <2> QED
    BY <1>3, <2>1
<1>4. CASE o # Task
  <2>1. JobsIn(Append(q, o)) = JobsIn(q) \cup {Len(q) + 1} /\ Len(q) + 1 \notin JobsIn(q)
    BY <1>2, <1>4 DEF JobsIn
  <2>2. Cardinality(JobsIn(q) \cup {Len(q) + 1}) = Cardinality(JobsIn(q)) + 1
    BY <1>1, <2>1, FS_AddElement
  <2> QED
    BY <1>4, <2>1, <2>2
<1> QED
  BY <1>3, <1>4

LEMMA JobsTail ==
  ASSUME NEW S, NEW q \in Seq(S), q # <<>>
  PROVE  Cardinality(JobsIn(q)) =
           IF Head(q) = Task THEN Cardinality(JobsIn(Tail(q))) ELSE Cardinality(JobsIn(Tail(q))) + 1
<1> DEFINE T == JobsIn(Tail(q))
<1> DEFINE U == {i + 1 : i \in T}
<1>1. /\ DOMAIN q = 1..Len(q) /\ DOMAIN Tail(q) = 1..(Len(q) - 1) /\ Len(q) \in Nat \ {0}
      /\ \A i \in DOMAIN Tail(q) : Tail(q)[i] = q[i + 1] /\ i + 1 \in DOMAIN q
      /\ Head(q) = q[1]
      /\ \A i \in DOMAIN q : i # 1 => i - 1 \in DOMAIN Tail(q) /\ Tail(q)[i - 1] = q[i]
      /\ Tail(q) \in Seq(S)
  OBVIOUS
<1>2. IsFiniteSet(T) /\ Cardinality(T) \in Nat
  BY <1>1, JobsFinite
<1>3. IsFiniteSet(U) /\ Cardinality(U) = Cardinality(T)
  <2> DEFINE f == [i \in T |-> i + 1]
  <2>1. T \subseteq Nat
    BY <1>1 DEF JobsIn
  <2>2. f \in Bijection(T, U)
    BY <2>1 DEF Bijection, Injection, Surjection, IsInjective
  <2> QED
    BY <1>2, <2>2, FS_Bijection DEF ExistsBijection
<1>4. \A i : i \in U <=> i \in JobsIn(q) /\ i # 1
  <2>1. ASSUME NEW i \in U PROVE i \in JobsIn(q) /\ i # 1
    BY <1>1, <2>1 DEF JobsIn
  <2>2. ASSUME NEW i \in JobsIn(q), i # 1 PROVE i \in U
    <3>1. i - 1 \in T /\ (i - 1) + 1 = i
      BY <1>1, <2>2 DEF JobsIn
    <3> QED
      BY <3>1
  <2> QED
    BY <2>1, <2>2
<1>5. CASE Head(q) = Task
  <2>1. JobsIn(q) = U
    BY <1>1, <1>4, <1>5 DEF JobsIn
  <2> QED
    BY <1>3, <1>5, <2>1
<1>6. CASE Head(q) # Task
  <2>0. 1 \in JobsIn(q)
    BY <1>1, <1>6 DEF JobsIn
  <2>1. JobsIn(q) = U \cup {1} /\ 1 \notin U
    BY <1>4, <2>0
  <2>2. Cardinality(U \cup {1}) = Cardinality(U) + 1
    BY <1>3, <2>1, FS_AddElement
  <2> QED
    BY <1>3, <1>6, <2>1, <2>2
<1> QED
  BY <1>5, <1>6

LEMMA JobsConcat ==
  ASSUME NEW q \in Seq(Jobs \cup {Task}), NEW p \in Seq(Jobs)
  PROVE  Cardinality(JobsIn(q \o p)) = Cardinality(JobsIn(q)) + Len(p)
<1> DEFINE U == (Len(q) + 1)..(Len(q) + Len(p))
<1>1. /\ DOMAIN q = 1..Len(q) /\ DOMAIN p = 1..Len(p) /\ Len(q) \in Nat /\ Len(p) \in Nat
      /\ DOMAIN (q \o p) = 1..(Len(q) + Len(p))
      /\ \A i \in DOMAIN q : (q \o p)[i] = q[i]
      /\ \A i \in U : (q \o p)[i] = p[i - Len(q)] /\ i - Len(q) \in DOMAIN p
  OBVIOUS
<1>2. IsFiniteSet(JobsIn(q)) /\ Cardinality(JobsIn(q)) \in Nat
  BY JobsFinite
<1>3. IsFiniteSet(U) /\ Cardinality(U) = Len(p)
  <2>1. PICK a \in Int, b \in Int : a = Len(q) + 1 /\ b = Len(q) + Len(p)
    BY <1>1
  <2>2. IsFiniteSet(a..b) /\ Cardinality(a..b) = IF a > b THEN 0 ELSE b - a + 1
    BY FS_Interval
  <2> QED
    BY <1>1, <2>1, <2>2
<1>4. \A i \in U : (q \o p)[i] # Task
  BY <1>1, OpKinds
<1>5. JobsIn(q \o p) = JobsIn(q) \cup U /\ JobsIn(q) \cap U = {}
  BY <1>1, <1>4 DEF JobsIn
<1>6. Cardinality(JobsIn(q) \cup U) =
        Cardinality(JobsIn(q)) + Cardinality(U) - Cardinality(JobsIn(q) \cap U)
  BY <1>2, <1>3, FS_Union
<1>7. Cardinality(JobsIn(q) \cap U) = 0
  BY <1>5, FS_EmptySet
<1> QED
  BY <1>1, <1>2, <1>3, <1>5, <1>6, <1>7

\* What the workers in the reactor found.
FoundIn(pq, P) == UNION {{<<v, i>> : i \in DOMAIN pq[v]} : v \in P}
Polled(wk) == {w \in Worker : wk[w].pc = "polled"}

LEMMA FoundOne ==
  ASSUME NEW S, NEW pq, NEW w, pq[w] \in Seq(S)
  PROVE  IsFiniteSet(FoundIn(pq, {w})) /\ Cardinality(FoundIn(pq, {w})) = Len(pq[w])
<1> DEFINE n == Len(pq[w])
<1> DEFINE f == [i \in 1..n |-> <<w, i>>]
<1>1. n \in Nat /\ DOMAIN pq[w] = 1..n
  OBVIOUS
<1>2. f \in Bijection(1..n, FoundIn(pq, {w}))
  <2>1. \A x : x \in FoundIn(pq, {w}) <=> \E i \in 1..n : x = <<w, i>>
    BY <1>1 DEF FoundIn
  <2>2. f \in [1..n -> FoundIn(pq, {w})] /\ \A i \in 1..n : f[i] = <<w, i>>
    BY <2>1
  <2>3. \A x \in FoundIn(pq, {w}) : \E i \in 1..n : f[i] = x
    BY <2>1, <2>2
  <2>4. \A i, j \in 1..n : f[i] = f[j] => i = j
    BY <2>2
  <2> HIDE DEF f, n
  <2>5. DOMAIN f = 1..n
    BY <2>2
  <2> QED
    BY <2>2, <2>3, <2>4, <2>5 DEF Bijection, Injection, Surjection, IsInjective
<1>3. IsFiniteSet(1..n) /\ Cardinality(1..n) = n
  BY <1>1, FS_Interval
<1> QED
  BY <1>2, <1>3, FS_Bijection DEF ExistsBijection

LEMMA FoundNone ==
  ASSUME NEW pq
  PROVE  /\ FoundIn(pq, {}) = {}
         /\ IsFiniteSet(FoundIn(pq, {})) /\ Cardinality(FoundIn(pq, {})) = 0
BY FS_EmptySet DEF FoundIn

LEMMA FoundSame ==
  ASSUME \A v \in Worker : worker'[v].pc = "polled" <=> worker[v].pc = "polled",
         \A v \in Worker : worker[v].pc = "polled" => privateQueue'[v] = privateQueue[v]
  PROVE  Found' = Found
BY DEF Found

LEMMA RunningSame ==
  ASSUME \A v \in Worker : worker'[v].pc \in Busy <=> worker[v].pc \in Busy
  PROVE  Running' = Running
BY DEF Running, Busy

LEMMA FoundDef == Found = FoundIn(privateQueue, Polled(worker))
BY DEF Found, FoundIn, Polled

LEMMA FoundDefNext == Found' = FoundIn(privateQueue', Polled(worker'))
BY DEF Found, FoundIn, Polled

\* The terms of the count are numbers.
LEMMA WorkTerms ==
  ASSUME JobInv, WorkInv
  PROVE  /\ Cardinality(Running) \in Nat /\ Cardinality(Found) \in Nat
         /\ Cardinality(pendingIo) \in Nat /\ Cardinality(Queued) \in Nat
         /\ Queued = JobsIn(opQueue)
         /\ work = Cardinality(Running) + Cardinality(JobsIn(opQueue)) + Cardinality(pendingIo)
                   + Cardinality(Found)
<1>1. Queued = JobsIn(opQueue)
  BY DEF Queued, JobsIn
<1>2. Cardinality(JobsIn(opQueue)) \in Nat
  BY JobsFinite DEF JobInv
<1> QED
  BY <1>1, <1>2, FS_CardinalityType DEF JobInv, WorkInv, WorkExact

\* A step that adds a to the count and a to the queue.
LEMMA WorkStep ==
  ASSUME JobInv, WorkInv, NEW a \in Int, work' = work + a, Running' = Running, Found' = Found,
         pendingIo' = pendingIo,
         Cardinality(JobsIn(opQueue')) = Cardinality(JobsIn(opQueue)) + a
  PROVE  WorkInv'
<1>1. Queued' = JobsIn(opQueue') /\ Cardinality(JobsIn(opQueue)) \in Nat
  BY JobsFinite DEF Queued, JobsIn, JobInv
<1>2. work' = Cardinality(Running') + Cardinality(Queued') + Cardinality(pendingIo')
              + Cardinality(Found')
  BY <1>1, WorkTerms
<1> QED
  BY <1>2 DEF WorkInv, WorkExact

LEMMA EpollReturnsWork ==
  ASSUME Types, JobInv, ReactorInv, WorkInv, NEW w \in Worker, EpollReturns(w)
  PROVE  WorkInv'
<1>0. PICK S \in SUBSET pendingIo :
        /\ pendingIo' = pendingIo \ S
        /\ \E q \in Orders(S) : privateQueue' = [privateQueue EXCEPT ![w] = q]
  BY DEF EpollReturns
<1>1. PICK q \in Orders(S) : privateQueue' = [privateQueue EXCEPT ![w] = q]
  BY <1>0
<1>2. work' = work /\ opQueue' = opQueue /\ Goto(w, "polled") /\ "polled" \in Pc
      /\ worker[w].pc \in {"block", "poll"}
  BY DEF EpollReturns, Pc
<1>3. Becomes(w, "polled", worker[w].op, worker[w].h)
  BY <1>2, GotoBecomes DEF Types
<1>4. IsFiniteSet(pendingIo) /\ IsFiniteSet(S)
  BY FS_Subset DEF JobInv
<1>5. /\ Cardinality(pendingIo') = Cardinality(pendingIo) - Cardinality(pendingIo \cap S)
      /\ pendingIo \cap S = S /\ Cardinality(S) \in Nat
  BY <1>0, <1>4, FS_Difference, FS_CardinalityType
<1>6. privateQueue'[w] = q /\ q \in Seq(S) /\ Len(q) = Cardinality(S)
  <2>1. PICK n \in Nat : n = Cardinality(S)
    BY <1>5
  <2>2. q \in [1..n -> S]
    BY <2>1 DEF Orders
  <2>3. q \in Seq(S) /\ Len(q) = n
    BY <2>2
  <2> QED
    BY <1>1, <2>1, <2>3 DEF JobInv
<1>7. Polled(worker) = {} /\ Polled(worker') = {w}
  <2>1. \A v \in Worker : worker[v].pc \in InReactor => v = w
    BY <1>2 DEF ReactorInv, InReactor
  <2>2. \A v \in Worker : worker[v].pc # "polled"
    BY <1>2, <2>1 DEF InReactor
  <2> QED
    BY <1>3, <2>2 DEF Polled, Becomes
<1>8. IsFiniteSet(Found') /\ Cardinality(Found') = Cardinality(S) /\ Cardinality(Found) = 0
  <2>1. Found = FoundIn(privateQueue, {}) /\ Found' = FoundIn(privateQueue', {w})
    BY <1>7, FoundDef, FoundDefNext
  <2>2. Cardinality(FoundIn(privateQueue, {})) = 0
    BY FoundNone
  <2>3. privateQueue'[w] \in Seq(S)
    BY <1>6
  <2>4. IsFiniteSet(FoundIn(privateQueue', {w}))
        /\ Cardinality(FoundIn(privateQueue', {w})) = Len(privateQueue'[w])
    BY <2>3, FoundOne
  <2> QED
    BY <1>6, <2>1, <2>2, <2>4
<1>9. Running' = Running
  <2>1. \A v \in Worker : worker'[v].pc \in Busy <=> worker[v].pc \in Busy
    BY <1>2, <1>3 DEF Becomes, Busy
  <2> QED
    BY <2>1, RunningSame
<1>10. Queued' = Queued
  BY <1>2 DEF Queued
<1>11. Cardinality(pendingIo') = Cardinality(pendingIo) - Cardinality(S)
  BY <1>5
<1>12. work = Cardinality(Running) + Cardinality(Queued) + Cardinality(pendingIo) + 0
  BY <1>8 DEF WorkInv, WorkExact
<1>13. work' = Cardinality(Running') + Cardinality(Queued') + Cardinality(pendingIo')
               + Cardinality(Found')
  BY <1>2, <1>5, <1>8, <1>9, <1>10, <1>11, <1>12, WorkTerms
<1> QED
  BY <1>8, <1>9, <1>13 DEF WorkInv, WorkExact

LEMMA TaskCleanupWork ==
  ASSUME Types, JobInv, ReactorInv, WorkInv, NEW w \in Worker, TaskCleanup(w)
  PROVE  WorkInv'
<1>2. /\ work' = work /\ pendingIo' = pendingIo /\ Goto(w, "locked") /\ "locked" \in Pc
      /\ worker[w].pc = "polled" /\ opQueue' = (opQueue \o privateQueue[w]) \o <<Task>>
  BY DEF TaskCleanup, Pc
<1>3. Becomes(w, "locked", worker[w].op, worker[w].h)
  BY <1>2, GotoBecomes DEF Types
<1>4. PICK p \in Seq(Jobs) : p = privateQueue[w]
  BY DEF JobInv
<1>5. \A v \in Worker : worker[v].pc \in InReactor => v = w
  BY <1>2 DEF ReactorInv, InReactor
<1>6. Polled(worker) = {w} /\ Polled(worker') = {}
  BY <1>2, <1>3, <1>5 DEF Polled, Becomes, InReactor
<1>7. Cardinality(Found) = Len(p) /\ IsFiniteSet(Found') /\ Cardinality(Found') = 0
  BY <1>4, <1>6, FoundOne, FoundNone, FoundDef, FoundDefNext
<1>8. Running' = Running
  <2>1. \A v \in Worker : worker'[v].pc \in Busy <=> worker[v].pc \in Busy
    BY <1>2, <1>3 DEF Becomes, Busy
  <2> QED
    BY <2>1, RunningSame
<1>9. Cardinality(Queued') = Cardinality(Queued) + Len(p)
  <2>1. opQueue \in Seq(Jobs \cup {Task}) /\ p \in Seq(Jobs \cup {Task})
    BY DEF JobInv
  <2>2. PICK q \in Seq(Jobs \cup {Task}) : q = opQueue \o p
    BY <2>1, ConcatProperties
  <2>3. opQueue' = Append(q, Task)
    BY <1>2, <1>4, <2>2
  <2>4. Cardinality(JobsIn(opQueue')) = Cardinality(JobsIn(q))
    BY <2>3, JobsAppend
  <2>5. Cardinality(JobsIn(q)) = Cardinality(JobsIn(opQueue)) + Len(p)
    BY <2>1, <2>2, JobsConcat
  <2>6. Queued' = JobsIn(opQueue') /\ Queued = JobsIn(opQueue)
    BY DEF Queued, JobsIn
  <2> QED
    BY <2>4, <2>5, <2>6
<1>11. WorkExact'
  BY <1>2, <1>7, <1>8, <1>9, WorkTerms DEF WorkExact, WorkInv
<1> QED
  BY <1>7, <1>8, <1>11 DEF WorkInv

LEMMA TakeOpWork ==
  ASSUME Types, JobInv, WorkInv, NEW w \in Worker, TakeOp(w)
  PROVE  WorkInv'
<1>1. opQueue \in Seq(Jobs \cup {Task}) /\ opQueue # <<>> /\ Head(opQueue) # Task
      /\ opQueue' = Tail(opQueue) /\ worker[w].pc \in {"run", "locked"}
      /\ UNCHANGED <<work, pendingIo, privateQueue>>
  BY DEF TakeOp, JobInv, AtLoop, loopUnchanged
<1>2. Becomes(w, "op", Head(opQueue), 0)
  <2>1. Head(opQueue) \in Op
    BY <1>1, OpKinds
  <2> QED
    BY <2>1, TakeBecomes DEF TakeOp, Types
<1>3. Found' = Found
  BY <1>1, <1>2, FoundSame DEF Becomes
<1>4. Running' = Running \cup {w} /\ w \notin Running
  BY <1>1, <1>2 DEF Becomes, Running
<1>5. IsFiniteSet(Running') /\ Cardinality(Running') = Cardinality(Running) + 1
  BY <1>4, FS_AddElement DEF WorkInv
<1>6. Cardinality(JobsIn(opQueue)) = Cardinality(JobsIn(opQueue')) + 1
  BY <1>1, JobsTail
<1>7. Queued' = JobsIn(opQueue') /\ Cardinality(JobsIn(opQueue')) \in Nat
  <2>1. Tail(opQueue) \in Seq(Jobs \cup {Task})
    BY <1>1
  <2> QED
    BY <1>1, <2>1, JobsFinite DEF Queued, JobsIn
<1>8. work' = Cardinality(Running') + Cardinality(Queued') + Cardinality(pendingIo')
              + Cardinality(Found')
  BY <1>1, <1>3, <1>5, <1>6, <1>7, WorkTerms
<1> QED
  BY <1>3, <1>5, <1>8 DEF WorkInv, WorkExact

LEMMA WorkCleanupWork ==
  ASSUME Types, JobInv, WorkInv, work \in Nat, NEW w \in Worker, WorkCleanup(w)
  PROVE  WorkInv'
<1>1. worker[w].pc = "cleanup" /\ pendingIo' = pendingIo
  BY DEF WorkCleanup
<1>2. PICK pc \in {"stop", "run", "locked"} : Goto(w, pc)
  BY Zenon DEF WorkCleanup
<1>3. Becomes(w, pc, worker[w].op, worker[w].h)
  <2>1. pc \in Pc
    BY DEF Pc
  <2> QED
    BY <1>2, <2>1, GotoBecomes DEF Types
<1>4. Running' = Running \ {w} /\ w \in Running
  BY <1>1, <1>3 DEF Becomes, Running
<1>5. IsFiniteSet(Running') /\ Cardinality(Running') = Cardinality(Running) - 1
  BY <1>4, FS_RemoveElement DEF WorkInv
<1>6. \A v \in Worker \ {w} : privateQueue'[v] = privateQueue[v]
  BY DEF WorkCleanup, JobInv
<1>7. Found' = Found
  BY <1>1, <1>3, <1>6, FoundSame DEF Becomes
<1>8. PICK p \in Seq(Jobs) : p = privateQueue[w]
  BY DEF JobInv
<1>9. opQueue \in Seq(Jobs \cup {Task}) /\ Len(p) \in Nat
  BY DEF JobInv
<1>10. work' = work + Len(p) - 1
       /\ Cardinality(JobsIn(opQueue')) = Cardinality(JobsIn(opQueue)) + Len(p)
  <2>1. CASE p = <<>>
    <3>1. work' = work - 1 /\ opQueue' = opQueue /\ Len(p) = 0
      BY <1>8, <2>1 DEF WorkCleanup
    <3>2. Cardinality(JobsIn(opQueue)) \in Nat
      BY <1>9, JobsFinite
    <3> QED
      BY <3>1, <3>2
  <2>2. CASE p # <<>>
    <3>1. work' = work + Len(p) - 1 /\ opQueue' = opQueue \o p
      BY <1>8, <2>2 DEF WorkCleanup
    <3> QED
      BY <1>9, <3>1, JobsConcat
  <2> QED
    BY <2>1, <2>2
<1>11. Queued' = JobsIn(opQueue') /\ Queued = JobsIn(opQueue)
  BY DEF Queued, JobsIn
<1>12. work' = Cardinality(Running') + Cardinality(Queued') + Cardinality(pendingIo')
               + Cardinality(Found')
  BY <1>1, <1>5, <1>7, <1>9, <1>10, <1>11, WorkTerms
<1> QED
  BY <1>5, <1>7, <1>12 DEF WorkInv, WorkExact

LEMMA StartIoWork ==
  ASSUME Types, JobInv, WorkInv, NEW s \in Strand \cup {NoStrand}, StartIo(s)
  PROVE  WorkInv'
<1>1. work' = work + 1 /\ pendingIo' = pendingIo \cup {Completion(handlers', s)}
      /\ UNCHANGED <<opQueue, privateQueue, worker>>
  BY DEF StartIo, queueVars
<1>2. Completion(handlers', s) \notin pendingIo
  BY StartIoTypes
<1>3. Cardinality(pendingIo') = Cardinality(pendingIo) + 1
  BY <1>1, <1>2, FS_AddElement DEF JobInv
<1>4. Running' = Running /\ Found' = Found /\ Queued' = Queued
  BY <1>1 DEF Running, Found, Queued
<1>5. work' = Cardinality(Running') + Cardinality(Queued') + Cardinality(pendingIo')
              + Cardinality(Found')
  BY <1>1, <1>3, <1>4, WorkTerms
<1> QED
  BY <1>4, <1>5 DEF WorkInv, WorkExact

\* A step that leaves the queue and the count alone, in which no worker takes up or ends
\* an operation, or enters or leaves the reactor.
LEMMA WorkSame ==
  ASSUME JobInv, WorkInv, work \in Nat, UNCHANGED <<work, opQueue, pendingIo>>,
         \A v \in Worker : worker'[v].pc \in Busy <=> worker[v].pc \in Busy,
         \A v \in Worker : worker'[v].pc = "polled" <=> worker[v].pc = "polled",
         \A v \in Worker : worker[v].pc = "polled" => privateQueue'[v] = privateQueue[v]
  PROVE  WorkInv'
<1>1. Running' = Running /\ Found' = Found
  BY RunningSame, FoundSame
<1>2. Cardinality(JobsIn(opQueue)) \in Nat
  BY JobsFinite DEF JobInv
<1>3. work' = work + 0 /\ Cardinality(JobsIn(opQueue')) = Cardinality(JobsIn(opQueue)) + 0
  BY <1>2
<1> QED
  BY <1>1, <1>3, WorkStep

\* The same for a step of worker w, and its own queue may change.
LEMMA WorkSameWorker ==
  ASSUME JobInv, WorkInv, work \in Nat, UNCHANGED <<work, opQueue, pendingIo>>,
         NEW w \in Worker, NEW pc, NEW o, NEW h, Becomes(w, pc, o, h),
         pc \in Busy <=> worker[w].pc \in Busy, pc # "polled", worker[w].pc # "polled",
         \A v \in Worker \ {w} : privateQueue'[v] = privateQueue[v]
  PROVE  WorkInv'
<1>1. worker'[w].pc = pc /\ \A v \in Worker \ {w} : worker'[v] = worker[v]
  BY DEF Becomes
<1>2. \A v \in Worker : worker'[v].pc \in Busy <=> worker[v].pc \in Busy
  BY <1>1
<1>3. \A v \in Worker : worker'[v].pc = "polled" <=> worker[v].pc = "polled"
  BY <1>1
<1>4. \A v \in Worker : worker[v].pc = "polled" => privateQueue'[v] = privateQueue[v]
  BY <1>1
<1> QED
  BY <1>2, <1>3, <1>4, WorkSame

\* A job is added to the queue and counted.
LEMMA WorkPost ==
  ASSUME JobInv, WorkInv, NEW o \in Jobs, post_immediate_completion(o), pendingIo' = pendingIo,
         privateQueue' = privateQueue,
         \A v \in Worker : worker'[v].pc \in Busy <=> worker[v].pc \in Busy,
         \A v \in Worker : worker'[v].pc = "polled" <=> worker[v].pc = "polled"
  PROVE  WorkInv'
<1>1. Running' = Running /\ Found' = Found
  BY RunningSame, FoundSame
<1>2. opQueue \in Seq(Jobs \cup {Task}) /\ o # Task /\ opQueue' = Append(opQueue, o)
      /\ work' = work + 1
  BY JobFields DEF JobInv, post_immediate_completion
<1>3. Cardinality(JobsIn(opQueue')) = Cardinality(JobsIn(opQueue)) + 1
  BY <1>2, JobsAppend
<1> QED
  BY <1>1, <1>2, <1>3, WorkStep

LEMMA WorkNat == JobInv /\ WorkInv => work \in Nat
BY WorkTerms

LEMMA WorkNext ==
  ASSUME Types, JobInv, ReactorInv, WorkInv, work \in Nat, Next
  PROVE  WorkInv'
<1>1. ASSUME NEW w \in Worker, EnterRun(w) PROVE WorkInv'
  <2>1. PICK pc \in {"stop", "run"} : Goto(w, pc)
    BY <1>1, Zenon DEF EnterRun
  <2>2. pc \in Pc /\ pc \notin Busy /\ pc # "polled" /\ worker[w].pc \notin Busy \cup {"polled"}
    BY <1>1 DEF Pc, Busy, EnterRun
  <2>3. Becomes(w, pc, worker[w].op, worker[w].h)
    BY <2>1, <2>2, GotoBecomes DEF Types
  <2>4. UNCHANGED <<work, opQueue, pendingIo, privateQueue>>
    BY <1>1 DEF EnterRun, queueVars, loopUnchanged
  <2> QED
    BY <2>2, <2>3, <2>4, WorkSameWorker
<1>2. ASSUME NEW w \in Worker, Wake(w) PROVE WorkInv'
  <2>1. PICK pc \in {"locked", "wait"} : Goto(w, pc)
    BY <1>2, Zenon DEF Wake
  <2>2. pc \in Pc /\ pc \notin Busy /\ pc # "polled" /\ worker[w].pc \notin Busy \cup {"polled"}
    BY <1>2 DEF Pc, Busy, Wake
  <2>3. Becomes(w, pc, worker[w].op, worker[w].h)
    BY <2>1, <2>2, GotoBecomes DEF Types
  <2>4. UNCHANGED <<work, opQueue, pendingIo, privateQueue>>
    BY <1>2 DEF Wake, queueVars
  <2> QED
    BY <2>2, <2>3, <2>4, WorkSameWorker
<1>3. ASSUME NEW w \in Worker, LeaveRun(w) PROVE WorkInv'
  <2>1. Goto(w, "out") /\ UNCHANGED <<work, opQueue, pendingIo, privateQueue>>
    BY <1>3 DEF LeaveRun, queueVars, loopUnchanged
  <2>2. "out" \in Pc /\ "out" \notin Busy /\ worker[w].pc \notin Busy \cup {"polled"}
    BY <1>3 DEF Pc, Busy, LeaveRun, AtLoop
  <2>3. Becomes(w, "out", worker[w].op, worker[w].h)
    BY <2>1, <2>2, GotoBecomes DEF Types
  <2> QED
    BY <2>1, <2>2, <2>3, WorkSameWorker
<1>4. ASSUME NEW w \in Worker, Sleep(w) PROVE WorkInv'
  <2>1. Goto(w, "wait") /\ UNCHANGED <<work, opQueue, pendingIo, privateQueue>>
    BY <1>4 DEF Sleep, loopUnchanged
  <2>2. "wait" \in Pc /\ "wait" \notin Busy /\ worker[w].pc \notin Busy \cup {"polled"}
    BY <1>4 DEF Pc, Busy, Sleep, AtLoop
  <2>3. Becomes(w, "wait", worker[w].op, worker[w].h)
    BY <2>1, <2>2, GotoBecomes DEF Types
  <2> QED
    BY <2>1, <2>2, <2>3, WorkSameWorker
<1>5. ASSUME NEW w \in Worker, worker[w].pc = "wait", Goto(w, "woken"),
             UNCHANGED <<work, opQueue, pendingIo, privateQueue>>
      PROVE  WorkInv'
  <2>1. "woken" \in Pc /\ "woken" \notin Busy /\ worker[w].pc \notin Busy \cup {"polled"}
    BY <1>5 DEF Pc, Busy
  <2>2. Becomes(w, "woken", worker[w].op, worker[w].h)
    BY <1>5, <2>1, GotoBecomes DEF Types
  <2> QED
    BY <1>5, <2>1, <2>2, WorkSameWorker
<1>6. ASSUME NEW w \in Worker, SpuriousWakeup(w) PROVE WorkInv'
  BY <1>5, <1>6 DEF SpuriousWakeup, queueVars
<1>7. ASSUME UNCHANGED <<work, opQueue, pendingIo, worker>>,
             \A v \in Worker : worker[v].pc = "polled" => privateQueue'[v] = privateQueue[v]
      PROVE  WorkInv'
  BY <1>7, WorkSame
<1>8. ASSUME CondSignal PROVE WorkInv'
  BY <1>5, <1>7, <1>8 DEF CondSignal
<1>9. ASSUME NEW w \in Worker, RunTask(w) PROVE WorkInv'
  <2>1. opQueue \in Seq(Jobs \cup {Task}) /\ opQueue # <<>> /\ Head(opQueue) = Task
        /\ opQueue' = Tail(opQueue) /\ UNCHANGED <<work, pendingIo, privateQueue>>
    BY <1>9 DEF RunTask, JobInv, loopUnchanged
  <2>2. PICK pc \in {"poll", "block"} : Goto(w, pc)
    BY <1>9, Zenon DEF RunTask
  <2>3. pc \in Pc /\ pc \notin Busy /\ pc # "polled" /\ worker[w].pc \notin Busy \cup {"polled"}
    BY <1>9 DEF Pc, Busy, RunTask, AtLoop
  <2>4. Becomes(w, pc, worker[w].op, worker[w].h)
    BY <2>2, <2>3, GotoBecomes DEF Types
  <2>5. /\ \A v \in Worker : worker'[v].pc \in Busy <=> worker[v].pc \in Busy
        /\ \A v \in Worker : worker'[v].pc = "polled" <=> worker[v].pc = "polled"
    BY <2>3, <2>4 DEF Becomes
  <2>6. Running' = Running /\ Found' = Found
    BY <2>1, <2>5, RunningSame, FoundSame
  <2>7. Cardinality(JobsIn(opQueue)) = Cardinality(JobsIn(opQueue'))
        /\ Cardinality(JobsIn(opQueue)) \in Nat
    BY <2>1, JobsTail, JobsFinite
  <2>8. work' = work + 0 /\ Cardinality(JobsIn(opQueue')) = Cardinality(JobsIn(opQueue)) + 0
    BY <2>1, <2>7
  <2> QED
    BY <2>1, <2>6, <2>8, WorkStep
<1>10. ASSUME NEW w \in Worker,
              CallPlain(w) \/ do_dispatch(w) \/ CallInline(w) \/ CallReady(w)
                \/ HandlerReturns(w) \/ StrandExit(w)
       PROVE  WorkInv'
  <2>1. PICK pc \in Busy, h \in 0..MaxHandlers : Becomes(w, pc, worker[w].op, h)
    BY <1>10, BusyStep
  <2>2. UNCHANGED <<work, pendingIo, opQueue>> /\ worker[w].pc \in Busy
    BY <1>10, BusyStep DEF queueVars
  <2>3. \A v \in Worker \ {w} : privateQueue'[v] = privateQueue[v]
    <3>1. CASE StrandExit(w)
      <4>1. privateQueue' = privateQueue
            \/ privateQueue' = [privateQueue EXCEPT ![w] = Append(@, Scheduled(worker[w].op.s))]
        BY <3>1 DEF StrandExit
      <4> QED
        BY <4>1 DEF JobInv
    <3>2. CASE privateQueue' = privateQueue
      BY <3>2
    <3> QED
      BY <1>10, <3>1, <3>2
         DEF CallPlain, do_dispatch, CallInline, CallReady, HandlerReturns, opUnchanged
  <2>4. pc # "polled" /\ worker[w].pc # "polled"
    BY <2>2 DEF Busy
  <2> QED
    BY <2>1, <2>2, <2>3, <2>4, WorkSameWorker
<1>11. ASSUME NEW w \in Worker, DispatchExit(w) PROVE WorkInv'
  <2>1. worker[w].pc = "exit" /\ "exit" \in Busy /\ "cleanup" \in Busy /\ "cleanup" \in Pc
        /\ Goto(w, "cleanup") /\ UNCHANGED <<privateQueue, pendingIo>>
    BY <1>11 DEF DispatchExit, Busy, Pc
  <2>2. PICK s \in Strand : s = worker[w].op.s
    BY <2>1 DEF JobInv, WorkerOK
  <2>3. Becomes(w, "cleanup", worker[w].op, worker[w].h)
    BY <2>1, GotoBecomes DEF Types
  <2>4. CASE ready'[s] = <<>>
    <3>1. UNCHANGED <<opQueue, work>>
      BY <1>11, <2>2, <2>4 DEF DispatchExit, queueVars
    <3> QED
      BY <2>1, <2>3, <3>1, WorkSameWorker
  <2>5. CASE ready'[s] # <<>>
    <3>1. post_immediate_completion(Scheduled(s)) /\ Scheduled(s) \in Jobs
      BY <1>11, <2>2, <2>5, OpKinds DEF DispatchExit
    <3>2. /\ \A v \in Worker : worker'[v].pc \in Busy <=> worker[v].pc \in Busy
          /\ \A v \in Worker : worker'[v].pc = "polled" <=> worker[v].pc = "polled"
      BY <2>1, <2>3 DEF Becomes
    <3> QED
      BY <2>1, <3>1, <3>2, WorkPost
  <2> QED
    BY <2>4, <2>5
<1>12. ASSUME Stop \/ \E w \in Worker : WorkFinished(w) PROVE WorkInv'
  <2>1. UNCHANGED <<work, opQueue, pendingIo, privateQueue>>
    BY <1>12 DEF Stop, WorkFinished, loopUnchanged
  <2>2. \A v \in Worker :
           \/ worker'[v].pc = worker[v].pc
           \/ worker[v].pc = "wait" /\ worker'[v].pc = "woken"
           \/ worker[v].pc = "stop" /\ worker'[v].pc = "run"
    BY <1>12, StopPlaces DEF WorkFinished
  <2>3. /\ \A v \in Worker : worker'[v].pc \in Busy <=> worker[v].pc \in Busy
        /\ \A v \in Worker : worker'[v].pc = "polled" <=> worker[v].pc = "polled"
    BY <2>2 DEF Busy
  <2> QED
    BY <2>1, <2>3, WorkSame
<1>13. ASSUME NEW s \in Strand \cup {NoStrand}, Post(s) PROVE WorkInv'
  <2>1. NewHandler /\ post_immediate_completion(Completion(handlers', s))
        /\ UNCHANGED <<worker, pendingIo, privateQueue>>
    BY <1>13 DEF Post
  <2>2. Completion(handlers', s) \in Jobs
    BY <2>1, NewHandlerTypes, OpKinds
  <2> QED
    BY <2>1, <2>2, WorkPost
<1>14. ASSUME NEW h \in Handler, NEW s \in Strand, ScheduleStrand(h, s) PROVE WorkInv'
  <2>1. post_immediate_completion(Scheduled(s)) /\ Scheduled(s) \in Jobs
        /\ UNCHANGED <<worker, pendingIo, privateQueue>>
    BY <1>14, OpKinds DEF ScheduleStrand
  <2> QED
    BY <2>1, WorkPost
<1>15. ASSUME NEW s \in Strand \cup {NoStrand}, NEW w \in Worker, Continue(w, s) PROVE WorkInv'
  <2>1. UNCHANGED <<work, opQueue, pendingIo, worker>> /\ worker[w].pc = "call"
        /\ privateQueue' = [privateQueue EXCEPT ![w] = Append(@, Completion(handlers', s))]
    BY <1>15 DEF Continue, queueVars
  <2>2. \A v \in Worker : worker[v].pc = "polled" => privateQueue'[v] = privateQueue[v]
    BY <2>1 DEF JobInv
  <2> QED
    BY <1>7, <2>1, <2>2
<1>16. ASSUME NEW s \in Strand, StrandPost(s) PROVE WorkInv'
  BY <1>7, <1>16 DEF StrandPost, queueVars
<1>17. ASSUME NEW w \in Worker, WorkerStep(w) PROVE WorkInv'
  BY <1>1, <1>2, <1>3, <1>4, <1>9, <1>10, <1>11, <1>12, <1>17, TakeOpWork, TaskCleanupWork,
     WorkCleanupWork DEF WorkerStep
<1> QED
  BY <1>6, <1>8, <1>12, <1>13, <1>14, <1>15, <1>16, <1>17, EpollReturnsWork, StartIoWork DEF Next
-----------------------------------------------------------------------------
(* Where a strand is.                                                      *)

\* The workers that hold a strand are in the middle of an operation.
HoldPcs == {"op", "inline", "call", "exit"}

LEMMA HoldsPc ==
  ASSUME NEW r, NEW s, Holds(r, s)
  PROVE  r.pc \in HoldPcs
BY DEF Holds, HoldPcs

\* How the workers that hold a strand change.
LEMMA HeldSame ==
  ASSUME NEW s, \A v \in Worker : Holds(worker'[v], s) <=> Holds(worker[v], s)
  PROVE  /\ Held(worker', s) <=> Held(worker, s)
         /\ HeldOnce(worker, s) => HeldOnce(worker', s)
BY DEF Held, HeldOnce

LEMMA HeldTaken ==
  ASSUME NEW s, NEW w \in Worker, \A v \in Worker \ {w} : worker'[v] = worker[v],
         Holds(worker'[w], s), ~Held(worker, s)
  PROVE  Held(worker', s) /\ HeldOnce(worker', s)
BY DEF Held, HeldOnce

LEMMA HeldLeft ==
  ASSUME NEW s, NEW w \in Worker, \A v \in Worker \ {w} : worker'[v] = worker[v],
         Holds(worker[w], s), ~Holds(worker'[w], s), HeldOnce(worker, s)
  PROVE  Held(worker, s) /\ ~Held(worker', s) /\ HeldOnce(worker', s)
BY DEF Held, HeldOnce

\* How the private queues that hold a strand change.
LEMMA PrivateSame ==
  ASSUME NEW s,
         \A v \in Worker : /\ In(privateQueue'[v], Scheduled(s)) <=> In(privateQueue[v], Scheduled(s))
                           /\ AtMostOnce(privateQueue[v], Scheduled(s))
                                => AtMostOnce(privateQueue'[v], Scheduled(s))
  PROVE  /\ InPrivate(privateQueue', s) <=> InPrivate(privateQueue, s)
         /\ PrivateOnce(privateQueue, s) => PrivateOnce(privateQueue', s)
BY DEF InPrivate, PrivateOnce

LEMMA PrivatePut ==
  ASSUME NEW s, NEW w \in Worker, \A v \in Worker \ {w} : privateQueue'[v] = privateQueue[v],
         In(privateQueue'[w], Scheduled(s)), AtMostOnce(privateQueue'[w], Scheduled(s)),
         ~InPrivate(privateQueue, s), PrivateOnce(privateQueue, s)
  PROVE  InPrivate(privateQueue', s) /\ PrivateOnce(privateQueue', s)
BY DEF InPrivate, PrivateOnce

LEMMA PrivateTaken ==
  ASSUME NEW s, NEW w \in Worker, \A v \in Worker \ {w} : privateQueue'[v] = privateQueue[v],
         privateQueue'[w] = <<>>, PrivateOnce(privateQueue, s)
  PROVE  /\ In(privateQueue[w], Scheduled(s)) => InPrivate(privateQueue, s)
                                                 /\ ~InPrivate(privateQueue', s)
         /\ ~In(privateQueue[w], Scheduled(s)) =>
              (InPrivate(privateQueue', s) <=> InPrivate(privateQueue, s))
         /\ PrivateOnce(privateQueue', s)
<1>1. ~In(privateQueue'[w], Scheduled(s)) /\ AtMostOnce(privateQueue'[w], Scheduled(s))
  BY DEF In, AtMostOnce
<1> QED
  BY <1>1 DEF InPrivate, PrivateOnce

\* A step in which a strand stays where it is.
LEMMA PlaceKept ==
  ASSUME NEW s \in Strand, OnePlace(acquired, opQueue, privateQueue, worker, locked[s], s),
         AcquiredOnce(acquired', s), Acquired(acquired', s) <=> Acquired(acquired, s),
         AtMostOnce(opQueue', Scheduled(s)),
         In(opQueue', Scheduled(s)) <=> In(opQueue, Scheduled(s)),
         PrivateOnce(privateQueue', s), InPrivate(privateQueue', s) <=> InPrivate(privateQueue, s),
         HeldOnce(worker', s), Held(worker', s) <=> Held(worker, s),
         locked'[s] <=> locked[s]
  PROVE  OnePlace(acquired', opQueue', privateQueue', worker', locked'[s], s)
BY DEF OnePlace

\* The parts of OnePlace.
LEMMA PlaceParts ==
  ASSUME NEW s, OnePlace(acquired, opQueue, privateQueue, worker, locked[s], s)
  PROVE  /\ AcquiredOnce(acquired, s) /\ AtMostOnce(opQueue, Scheduled(s))
         /\ PrivateOnce(privateQueue, s) /\ HeldOnce(worker, s)
BY DEF OnePlace

\* Steps of the workers that leave the queues and the strands alone.
LEMMA PlaceWorkers ==
  ASSUME PlaceInv, UNCHANGED <<acquired, opQueue, privateQueue, locked>>,
         \A s \in Strand, v \in Worker : Holds(worker'[v], s) <=> Holds(worker[v], s)
  PROVE  PlaceInv'
<1> SUFFICES ASSUME NEW s \in Strand
             PROVE  OnePlace(acquired', opQueue', privateQueue', worker', locked'[s], s)
  BY DEF PlaceInv
<1>1. OnePlace(acquired, opQueue, privateQueue, worker, locked[s], s)
  BY DEF PlaceInv
<1>2. HeldOnce(worker', s) /\ (Held(worker', s) <=> Held(worker, s))
  BY <1>1, PlaceParts, HeldSame
<1> QED
  BY <1>1, <1>2, PlaceParts, PlaceKept

\* A worker that holds no strand moves to where it holds none.
LEMMA HoldsNothing ==
  ASSUME NEW w \in Worker, NEW pc, NEW o, NEW h, Becomes(w, pc, o, h),
         worker[w].pc \notin HoldPcs, pc \notin HoldPcs
  PROVE  \A s \in Strand, v \in Worker : Holds(worker'[v], s) <=> Holds(worker[v], s)
<1> TAKE s \in Strand, v \in Worker
<1>1. CASE v = w
  <2>1. worker'[v].pc \notin HoldPcs /\ worker[v].pc \notin HoldPcs
    BY <1>1 DEF Becomes
  <2> QED
    BY <2>1, HoldsPc
<1>2. CASE v # w
  BY <1>2 DEF Becomes
<1> QED
  BY <1>1, <1>2

\* The queue is extended with operations other than strands, or loses one at its head.
LEMMA PlaceQueue ==
  ASSUME PlaceInv, UNCHANGED <<acquired, privateQueue, locked>>,
         \A s \in Strand : /\ In(opQueue', Scheduled(s)) <=> In(opQueue, Scheduled(s))
                           /\ AtMostOnce(opQueue, Scheduled(s)) => AtMostOnce(opQueue', Scheduled(s)),
         \A s \in Strand, v \in Worker : Holds(worker'[v], s) <=> Holds(worker[v], s)
  PROVE  PlaceInv'
<1> SUFFICES ASSUME NEW s \in Strand
             PROVE  OnePlace(acquired', opQueue', privateQueue', worker', locked'[s], s)
  BY DEF PlaceInv
<1>1. OnePlace(acquired, opQueue, privateQueue, worker, locked[s], s)
  BY DEF PlaceInv
<1>2. HeldOnce(worker', s) /\ (Held(worker', s) <=> Held(worker, s))
  BY <1>1, PlaceParts, HeldSame
<1>3. AtMostOnce(opQueue', Scheduled(s)) /\ (In(opQueue', Scheduled(s)) <=> In(opQueue, Scheduled(s)))
  BY <1>1, PlaceParts
<1> QED
  BY <1>1, <1>2, <1>3, PlaceParts, PlaceKept

LEMMA RunTaskPlace ==
  ASSUME Types, JobInv, PlaceInv, NEW w \in Worker, RunTask(w)
  PROVE  PlaceInv'
<1>1. opQueue \in Seq(Jobs \cup {Task}) /\ opQueue # <<>> /\ Head(opQueue) = Task
      /\ opQueue' = Tail(opQueue) /\ UNCHANGED <<acquired, privateQueue, locked>>
  BY DEF RunTask, JobInv, loopUnchanged, strandVars
<1>2. PICK pc \in {"poll", "block"} : Goto(w, pc)
  BY Zenon DEF RunTask
<1>3. pc \in Pc /\ pc \notin HoldPcs /\ worker[w].pc \notin HoldPcs
  BY DEF Pc, HoldPcs, RunTask, AtLoop
<1>4. Becomes(w, pc, worker[w].op, worker[w].h)
  BY <1>2, <1>3, GotoBecomes DEF Types
<1>5. \A s \in Strand : /\ In(opQueue', Scheduled(s)) <=> In(opQueue, Scheduled(s))
                        /\ AtMostOnce(opQueue, Scheduled(s)) => AtMostOnce(opQueue', Scheduled(s))
  BY <1>1, OpKinds, TailPlaces
<1> QED
  BY <1>1, <1>3, <1>4, <1>5, HoldsNothing, PlaceQueue

LEMMA TakeOpPlace ==
  ASSUME Types, JobInv, PlaceInv, NEW w \in Worker, TakeOp(w)
  PROVE  PlaceInv'
<1>1. opQueue \in Seq(Jobs \cup {Task}) /\ opQueue # <<>> /\ Head(opQueue) # Task
      /\ opQueue' = Tail(opQueue) /\ worker[w].pc \in {"run", "locked"}
      /\ UNCHANGED <<acquired, privateQueue, locked>>
  BY DEF TakeOp, JobInv, AtLoop, loopUnchanged, strandVars
<1>2. PICK o \in Jobs : o = Head(opQueue)
  BY <1>1
<1>3. Becomes(w, "op", o, 0)
  BY <1>2, OpKinds, TakeBecomes DEF TakeOp, Types
<1> SUFFICES ASSUME NEW s \in Strand
             PROVE  OnePlace(acquired', opQueue', privateQueue', worker', locked'[s], s)
  BY DEF PlaceInv
<1>4. OnePlace(acquired, opQueue, privateQueue, worker, locked[s], s)
  BY DEF PlaceInv
<1>5. worker'[w].pc = "op" /\ worker'[w].op = o /\ \A v \in Worker \ {w} : worker'[v] = worker[v]
  BY <1>3 DEF Becomes
<1>6. ~Holds(worker[w], s)
  BY <1>1 DEF Holds
<1>7. Holds(worker'[w], s) <=> o = Scheduled(s)
  BY <1>5 DEF Holds
<1>8. CASE o = Scheduled(s)
  <2>1. In(opQueue, Scheduled(s)) /\ ~In(opQueue', Scheduled(s))
        /\ AtMostOnce(opQueue', Scheduled(s))
    BY <1>1, <1>2, <1>4, <1>8, TailPlaces, PlaceParts
  <2>2. ~Held(worker, s)
    BY <1>4, <2>1 DEF OnePlace
  <2>3. Held(worker', s) /\ HeldOnce(worker', s)
    BY <1>5, <1>7, <1>8, <2>2, HeldTaken
  <2> QED
    BY <1>1, <1>4, <2>1, <2>3 DEF OnePlace
<1>9. CASE o # Scheduled(s)
  <2>1. (In(opQueue', Scheduled(s)) <=> In(opQueue, Scheduled(s)))
        /\ AtMostOnce(opQueue', Scheduled(s))
    BY <1>1, <1>2, <1>4, <1>9, TailPlaces, PlaceParts
  <2>2. \A v \in Worker : Holds(worker'[v], s) <=> Holds(worker[v], s)
    BY <1>5, <1>6, <1>7, <1>9
  <2>3. HeldOnce(worker', s) /\ (Held(worker', s) <=> Held(worker, s))
    BY <1>4, <2>2, PlaceParts, HeldSame
  <2> QED
    BY <1>1, <1>4, <2>1, <2>3, PlaceParts, PlaceKept
<1> QED
  BY <1>8, <1>9

\* A private queue changes by operations that are not strands.
LEMMA PlacePrivate ==
  ASSUME PlaceInv, UNCHANGED <<acquired, opQueue, locked>>, NEW w \in Worker,
         \A v \in Worker \ {w} : privateQueue'[v] = privateQueue[v],
         \A s \in Strand :
           /\ In(privateQueue'[w], Scheduled(s)) <=> In(privateQueue[w], Scheduled(s))
           /\ AtMostOnce(privateQueue[w], Scheduled(s)) => AtMostOnce(privateQueue'[w], Scheduled(s)),
         \A s \in Strand, v \in Worker : Holds(worker'[v], s) <=> Holds(worker[v], s)
  PROVE  PlaceInv'
<1> SUFFICES ASSUME NEW s \in Strand
             PROVE  OnePlace(acquired', opQueue', privateQueue', worker', locked'[s], s)
  BY DEF PlaceInv
<1>1. OnePlace(acquired, opQueue, privateQueue, worker, locked[s], s)
  BY DEF PlaceInv
<1>2. HeldOnce(worker', s) /\ (Held(worker', s) <=> Held(worker, s))
  BY <1>1, PlaceParts, HeldSame
<1>3. \A v \in Worker :
        /\ In(privateQueue'[v], Scheduled(s)) <=> In(privateQueue[v], Scheduled(s))
        /\ AtMostOnce(privateQueue[v], Scheduled(s)) => AtMostOnce(privateQueue'[v], Scheduled(s))
  OBVIOUS
<1>4. PrivateOnce(privateQueue', s)
      /\ (InPrivate(privateQueue', s) <=> InPrivate(privateQueue, s))
  BY <1>1, <1>3, PlaceParts, PrivateSame
<1> QED
  BY <1>1, <1>2, <1>4, PlaceParts, PlaceKept

LEMMA EpollReturnsPlace ==
  ASSUME Types, JobInv, PlaceInv, NEW w \in Worker, EpollReturns(w)
  PROVE  PlaceInv'
<1>0. PICK S \in SUBSET pendingIo :
        \E q \in Orders(S) : privateQueue' = [privateQueue EXCEPT ![w] = q]
  BY DEF EpollReturns
<1>1. PICK q \in Orders(S) : privateQueue' = [privateQueue EXCEPT ![w] = q]
  BY <1>0
<1>2. Goto(w, "polled") /\ "polled" \in Pc /\ worker[w].pc \in {"block", "poll"}
      /\ "polled" \notin HoldPcs /\ worker[w].pc \notin HoldPcs
      /\ UNCHANGED <<acquired, opQueue, locked>>
  BY DEF EpollReturns, Pc, HoldPcs, strandVars
<1>3. Becomes(w, "polled", worker[w].op, worker[w].h)
  BY <1>2, GotoBecomes DEF Types
<1>4. privateQueue[w] = <<>>
  BY <1>2 DEF JobInv, WorkerOK, Busy
<1>5. privateQueue'[w] = q /\ \A v \in Worker \ {w} : privateQueue'[v] = privateQueue[v]
  BY <1>1 DEF JobInv
<1>6. ASSUME NEW s \in Strand
      PROVE  ~In(q, Scheduled(s)) /\ AtMostOnce(q, Scheduled(s))
  <2>1. ASSUME NEW i \in DOMAIN q PROVE q[i] # Scheduled(s)
    <3>1. q[i] \in pendingIo
      BY DEF Orders
    <3>2. q[i] \in Jobs /\ q[i].op = "handler"
      BY <3>1 DEF JobInv
    <3> QED
      BY <3>2, JobFields
  <2> QED
    BY <2>1 DEF In, AtMostOnce
<1>7. \A s \in Strand : ~In(privateQueue[w], Scheduled(s))
  BY <1>4 DEF In
<1>8. \A s \in Strand :
        /\ In(privateQueue'[w], Scheduled(s)) <=> In(privateQueue[w], Scheduled(s))
        /\ AtMostOnce(privateQueue[w], Scheduled(s)) => AtMostOnce(privateQueue'[w], Scheduled(s))
  BY <1>5, <1>6, <1>7
<1> QED
  BY <1>2, <1>3, <1>5, <1>8, HoldsNothing, PlacePrivate

LEMMA ContinuePlace ==
  ASSUME Types, JobInv, PlaceInv, NEW w \in Worker, NEW t \in Strand \cup {NoStrand}, Continue(w, t)
  PROVE  PlaceInv'
<1>1. NewHandler /\ UNCHANGED <<acquired, opQueue, locked, worker>>
      /\ privateQueue' = [privateQueue EXCEPT ![w] = Append(@, Completion(handlers', t))]
  BY DEF Continue, queueVars, strandVars
<1>2. PICK o : o = Completion(handlers', t)
  OBVIOUS
<1>3. \A s \in Strand : o # Scheduled(s)
  BY <1>1, <1>2, NewHandlerTypes, OpKinds
<1>4. privateQueue'[w] = Append(privateQueue[w], o) /\ privateQueue[w] \in Seq(Jobs)
      /\ \A v \in Worker \ {w} : privateQueue'[v] = privateQueue[v]
  BY <1>1, <1>2 DEF JobInv
<1>5. \A s \in Strand :
        /\ In(privateQueue'[w], Scheduled(s)) <=> In(privateQueue[w], Scheduled(s))
        /\ AtMostOnce(privateQueue[w], Scheduled(s)) => AtMostOnce(privateQueue'[w], Scheduled(s))
  BY <1>3, <1>4, AppendPlaces
<1> QED
  BY <1>1, <1>4, <1>5, PlacePrivate

\* A private queue is moved to the queue.
LEMMA PlaceMerge ==
  ASSUME JobInv, PlaceInv, UNCHANGED <<acquired, locked>>, NEW w \in Worker,
         NEW q \in Seq(Jobs \cup {Task}), q = opQueue \o privateQueue[w],
         opQueue' = q \/ opQueue' = Append(q, Task),
         privateQueue'[w] = <<>>, \A v \in Worker \ {w} : privateQueue'[v] = privateQueue[v],
         \A s \in Strand, v \in Worker : Holds(worker'[v], s) <=> Holds(worker[v], s)
  PROVE  PlaceInv'
<1> SUFFICES ASSUME NEW s \in Strand
             PROVE  OnePlace(acquired', opQueue', privateQueue', worker', locked'[s], s)
  BY DEF PlaceInv
<1>1. OnePlace(acquired, opQueue, privateQueue, worker, locked[s], s)
  BY DEF PlaceInv
<1>2. HeldOnce(worker', s) /\ (Held(worker', s) <=> Held(worker, s))
  BY <1>1, PlaceParts, HeldSame
<1>3. opQueue \in Seq(Jobs \cup {Task}) /\ privateQueue[w] \in Seq(Jobs \cup {Task})
  BY DEF JobInv
<1>4. /\ In(privateQueue[w], Scheduled(s)) => InPrivate(privateQueue, s)
                                              /\ ~InPrivate(privateQueue', s)
      /\ ~In(privateQueue[w], Scheduled(s)) =>
           (InPrivate(privateQueue', s) <=> InPrivate(privateQueue, s))
      /\ PrivateOnce(privateQueue', s)
  BY <1>1, PlaceParts, PrivateTaken
<1>5. /\ In(q, Scheduled(s)) <=> In(opQueue, Scheduled(s)) \/ In(privateQueue[w], Scheduled(s))
      /\ AtMostOnce(q, Scheduled(s))
  <2>1. AtMostOnce(privateQueue[w], Scheduled(s)) /\ AtMostOnce(opQueue, Scheduled(s))
    BY <1>1, PlaceParts DEF PrivateOnce
  <2>2. ~(In(opQueue, Scheduled(s)) /\ In(privateQueue[w], Scheduled(s)))
    BY <1>1, <1>4 DEF OnePlace
  <2> QED
    BY <1>3, <2>1, <2>2, ConcatPlaces
<1>6. /\ In(opQueue', Scheduled(s)) <=> In(q, Scheduled(s))
      /\ AtMostOnce(opQueue', Scheduled(s))
  <2>1. CASE opQueue' = q
    BY <1>5, <2>1
  <2>2. CASE opQueue' = Append(q, Task)
    <3>1. Task # Scheduled(s)
      BY OpKinds
    <3> QED
      BY <1>5, <2>2, <3>1, AppendPlaces
  <2> QED
    BY <2>1, <2>2
<1>7. CASE In(privateQueue[w], Scheduled(s))
  <2>1. InPrivate(privateQueue, s) /\ ~InPrivate(privateQueue', s) /\ In(opQueue', Scheduled(s))
    BY <1>4, <1>5, <1>6, <1>7
  <2> QED
    BY <1>1, <1>2, <1>4, <1>6, <2>1 DEF OnePlace
<1>8. CASE ~In(privateQueue[w], Scheduled(s))
  BY <1>1, <1>2, <1>4, <1>5, <1>6, <1>8, PlaceParts, PlaceKept
<1> QED
  BY <1>7, <1>8

LEMMA TaskCleanupPlace ==
  ASSUME Types, JobInv, PlaceInv, NEW w \in Worker, TaskCleanup(w)
  PROVE  PlaceInv'
<1>1. Goto(w, "locked") /\ "locked" \in Pc /\ "locked" \notin HoldPcs
      /\ worker[w].pc \notin HoldPcs /\ UNCHANGED <<acquired, locked>>
      /\ opQueue' = (opQueue \o privateQueue[w]) \o <<Task>>
  BY DEF TaskCleanup, Pc, HoldPcs, strandVars
<1>2. Becomes(w, "locked", worker[w].op, worker[w].h)
  BY <1>1, GotoBecomes DEF Types
<1>3. privateQueue'[w] = <<>> /\ \A v \in Worker \ {w} : privateQueue'[v] = privateQueue[v]
  BY DEF TaskCleanup, JobInv
<1>4. opQueue \in Seq(Jobs \cup {Task}) /\ privateQueue[w] \in Seq(Jobs \cup {Task})
  BY DEF JobInv
<1>5. PICK q \in Seq(Jobs \cup {Task}) : q = opQueue \o privateQueue[w]
  BY <1>4, ConcatProperties
<1>6. opQueue' = Append(q, Task)
  BY <1>1, <1>5
<1> QED
  BY <1>1, <1>2, <1>3, <1>5, <1>6, HoldsNothing, PlaceMerge

LEMMA WorkCleanupPlace ==
  ASSUME Types, JobInv, PlaceInv, NEW w \in Worker, WorkCleanup(w)
  PROVE  PlaceInv'
<1>1. PICK pc \in {"stop", "run", "locked"} : Goto(w, pc)
  BY Zenon DEF WorkCleanup
<1>2. pc \in Pc /\ pc \notin HoldPcs /\ worker[w].pc \notin HoldPcs /\ UNCHANGED <<acquired, locked>>
  BY DEF Pc, HoldPcs, WorkCleanup, strandVars
<1>3. Becomes(w, pc, worker[w].op, worker[w].h)
  BY <1>1, <1>2, GotoBecomes DEF Types
<1>4. \A s \in Strand, v \in Worker : Holds(worker'[v], s) <=> Holds(worker[v], s)
  BY <1>2, <1>3, HoldsNothing
<1>5. CASE privateQueue[w] = <<>>
  <2>1. UNCHANGED <<opQueue, privateQueue>>
    BY <1>5 DEF WorkCleanup
  <2> QED
    BY <1>2, <1>4, <2>1, PlaceWorkers
<1>6. CASE privateQueue[w] # <<>>
  <2>1. opQueue' = opQueue \o privateQueue[w] /\ privateQueue'[w] = <<>>
        /\ \A v \in Worker \ {w} : privateQueue'[v] = privateQueue[v]
    BY <1>6 DEF WorkCleanup, JobInv
  <2>2. opQueue \in Seq(Jobs \cup {Task}) /\ privateQueue[w] \in Seq(Jobs \cup {Task})
    BY DEF JobInv
  <2>3. PICK q \in Seq(Jobs \cup {Task}) : q = opQueue \o privateQueue[w]
    BY <2>2, ConcatProperties
  <2> QED
    BY <1>2, <1>4, <2>1, <2>3, PlaceMerge
<1> QED
  BY <1>5, <1>6

\* A worker goes on inside the strand of its operation, or outside all strands.
LEMMA GoesOn ==
  ASSUME PlaceInv, UNCHANGED <<acquired, opQueue, privateQueue, locked>>,
         NEW w \in Worker, NEW pc, NEW h, Becomes(w, pc, worker[w].op, h),
         \A s \in Strand : Holds(worker'[w], s) <=> Holds(worker[w], s)
  PROVE  PlaceInv'
<1>1. \A s \in Strand, v \in Worker : Holds(worker'[v], s) <=> Holds(worker[v], s)
  BY DEF Becomes
<1> QED
  BY <1>1, PlaceWorkers

LEMMA CallPlainPlace ==
  ASSUME Types, JobInv, PlaceInv, NEW w \in Worker, CallPlain(w)
  PROVE  PlaceInv'
<1>1. worker[w].pc = "op" /\ worker[w].pc \in Busy
      /\ worker[w].op.op = "handler" /\ worker[w].op.s = NoStrand
      /\ UNCHANGED <<acquired, opQueue, privateQueue, locked>>
  BY DEF CallPlain, opUnchanged, queueVars, strandVars, Busy
<1>2. worker[w].op \in Jobs /\ worker[w].op.h \in 0..MaxHandlers
  BY <1>1, OpOfWorker, JobFields
<1>3. Becomes(w, "call", worker[w].op, worker[w].op.h)
  BY <1>2, CallBecomes DEF CallPlain, Types
<1>4. \A s \in Strand : worker[w].op # Scheduled(s) /\ worker[w].op.s # s
  BY <1>1, <1>2, JobFields, NoStrandAssumption
<1>5. \A s \in Strand : Holds(worker'[w], s) <=> Holds(worker[w], s)
  BY <1>1, <1>3, <1>4 DEF Holds, Becomes
<1> QED
  BY <1>1, <1>3, <1>5, GoesOn

LEMMA CallInlinePlace ==
  ASSUME Types, JobInv, PlaceInv, NEW w \in Worker, CallInline(w)
  PROVE  PlaceInv'
<1>1. worker[w].pc = "inline" /\ worker[w].pc \in Busy
      /\ UNCHANGED <<acquired, opQueue, privateQueue, locked>>
  BY DEF CallInline, opUnchanged, queueVars, strandVars, Busy
<1>2. worker[w].op \in Jobs /\ worker[w].op.h \in 0..MaxHandlers /\ worker[w].op.op = "handler"
  BY <1>1, OpOfWorker, JobFields DEF JobInv, WorkerOK
<1>3. Becomes(w, "call", worker[w].op, worker[w].op.h)
  BY <1>2, CallBecomes DEF CallInline, Types
<1>4. \A s \in Strand : worker[w].op # Scheduled(s)
  BY <1>2, JobFields
<1>5. \A s \in Strand : Holds(worker'[w], s) <=> Holds(worker[w], s)
  BY <1>1, <1>3, <1>4 DEF Holds, Becomes
<1> QED
  BY <1>1, <1>3, <1>5, GoesOn

LEMMA CallReadyPlace ==
  ASSUME Types, JobInv, PlaceInv, NEW w \in Worker, CallReady(w)
  PROVE  PlaceInv'
<1>1. worker[w].pc = "op" /\ worker[w].pc \in Busy /\ worker[w].op.op = "strand"
      /\ UNCHANGED <<acquired, opQueue, privateQueue, locked>>
  BY DEF CallReady, opUnchanged, queueVars, Busy
<1>2. PICK pc \in Busy, h \in 0..MaxHandlers : Becomes(w, pc, worker[w].op, h)
  BY BusyStep
<1>3. worker'[w].pc = "call"
  <2> DEFINE g == Head(ready[worker[w].op.s])
  <2>1. worker' = [worker EXCEPT ![w] = [worker[w] EXCEPT !.pc = "call", !.h = g]]
    BY DEF CallReady
  <2>2. worker'[w] = [worker[w] EXCEPT !.pc = "call", !.h = g]
    BY <2>1 DEF Types, WorkerTypes
  <2>3. worker[w] \in WorkerRec
    BY DEF Types, WorkerTypes
  <2> HIDE DEF g
  <2> QED
    BY <2>2, <2>3 DEF WorkerRec
<1>5. \A s \in Strand : Holds(worker'[w], s) <=> Holds(worker[w], s)
  BY <1>1, <1>2, <1>3 DEF Holds, Becomes
<1> QED
  BY <1>1, <1>2, <1>5, GoesOn

LEMMA HandlerReturnsPlace ==
  ASSUME Types, JobInv, PlaceInv, NEW w \in Worker, HandlerReturns(w)
  PROVE  PlaceInv'
<1>1. worker[w].pc = "call" /\ worker[w].pc \in Busy
      /\ UNCHANGED <<acquired, opQueue, privateQueue, locked>>
  BY DEF HandlerReturns, opUnchanged, queueVars, strandVars, Busy
<1>2. worker[w].op \in Jobs
  BY <1>1, OpOfWorker
<1>3. CASE worker[w].op.op = "strand"
  <2>1. Goto(w, "op") /\ "op" \in Pc
    BY <1>3 DEF HandlerReturns, Pc
  <2>2. Becomes(w, "op", worker[w].op, worker[w].h)
    BY <2>1, GotoBecomes DEF Types
  <2>3. \A s \in Strand : Holds(worker'[w], s) <=> Holds(worker[w], s)
    BY <1>1, <1>3, <2>2 DEF Holds, Becomes
  <2> QED
    BY <1>1, <2>2, <2>3, GoesOn
<1>4. CASE worker[w].op.op = "handler" /\ worker[w].op.s # NoStrand
  <2>1. Goto(w, "exit") /\ "exit" \in Pc
    BY <1>4 DEF HandlerReturns, Pc
  <2>2. Becomes(w, "exit", worker[w].op, worker[w].h)
    BY <2>1, GotoBecomes DEF Types
  <2>3. \A s \in Strand : worker[w].op # Scheduled(s)
    BY <1>2, <1>4, JobFields
  <2>4. \A s \in Strand : Holds(worker'[w], s) <=> Holds(worker[w], s)
    BY <1>1, <1>4, <2>2, <2>3 DEF Holds, Becomes
  <2> QED
    BY <1>1, <2>2, <2>4, GoesOn
<1>5. CASE worker[w].op.op = "handler" /\ worker[w].op.s = NoStrand
  <2>1. Goto(w, "cleanup") /\ "cleanup" \in Pc
    BY <1>5 DEF HandlerReturns, Pc
  <2>2. Becomes(w, "cleanup", worker[w].op, worker[w].h)
    BY <2>1, GotoBecomes DEF Types
  <2>3. \A s \in Strand : worker[w].op # Scheduled(s) /\ worker[w].op.s # s
    BY <1>2, <1>5, JobFields, NoStrandAssumption
  <2>4. \A s \in Strand : Holds(worker'[w], s) <=> Holds(worker[w], s)
    BY <1>1, <1>5, <2>2, <2>3 DEF Holds, Becomes
  <2> QED
    BY <1>1, <2>2, <2>4, GoesOn
<1> QED
  BY <1>2, <1>3, <1>4, <1>5, JobFields

LEMMA DispatchPlace ==
  ASSUME Types, JobInv, PlaceInv, NEW w \in Worker, do_dispatch(w)
  PROVE  PlaceInv'
<1>1. worker[w].pc = "op" /\ worker[w].pc \in Busy
      /\ worker[w].op.op = "handler" /\ worker[w].op.s # NoStrand
      /\ UNCHANGED <<acquired, opQueue, privateQueue>>
  BY DEF do_dispatch, opUnchanged, queueVars, Busy
<1>2. worker[w].op \in Jobs
  BY <1>1, OpOfWorker
<1>3. PICK t \in Strand : t = worker[w].op.s
  BY <1>1, <1>2, JobFields
<1>4. \A s \in Strand : worker[w].op # Scheduled(s) /\ ~Holds(worker[w], s)
  BY <1>1, <1>2, JobFields DEF Holds
<1>5. CASE locked[t]
  <2>1. Goto(w, "cleanup") /\ "cleanup" \in Pc /\ locked' = locked
    BY <1>3, <1>5 DEF do_dispatch, Pc
  <2>2. Becomes(w, "cleanup", worker[w].op, worker[w].h)
    BY <2>1, GotoBecomes DEF Types
  <2>3. \A s \in Strand : Holds(worker'[w], s) <=> Holds(worker[w], s)
    BY <1>4, <2>2 DEF Holds, Becomes
  <2> QED
    BY <1>1, <2>1, <2>2, <2>3, GoesOn
<1>6. CASE ~locked[t]
  <2>1. Goto(w, "inline") /\ "inline" \in Pc /\ locked' = [locked EXCEPT ![t] = TRUE]
    BY <1>3, <1>6 DEF do_dispatch, Pc
  <2>2. Becomes(w, "inline", worker[w].op, worker[w].h)
    BY <2>1, GotoBecomes DEF Types
  <2>3. worker'[w].pc = "inline" /\ worker'[w].op = worker[w].op
        /\ \A v \in Worker \ {w} : worker'[v] = worker[v]
    BY <2>2 DEF Becomes
  <2>4. locked'[t] = TRUE /\ \A s \in Strand \ {t} : locked'[s] = locked[s]
    BY <2>1 DEF Types, StrandTypes
  <2> SUFFICES ASSUME NEW s \in Strand
               PROVE  OnePlace(acquired', opQueue', privateQueue', worker', locked'[s], s)
    BY DEF PlaceInv
  <2>5. OnePlace(acquired, opQueue, privateQueue, worker, locked[s], s)
    BY DEF PlaceInv
  <2>6. CASE s = t
    <3>1. /\ ~Acquired(acquired, s) /\ ~In(opQueue, Scheduled(s)) /\ ~InPrivate(privateQueue, s)
          /\ ~Held(worker, s)
      BY <1>6, <2>5, <2>6 DEF OnePlace
    <3>2. Holds(worker'[w], s)
      BY <1>1, <1>3, <2>3, <2>6 DEF Holds
    <3>3. Held(worker', s) /\ HeldOnce(worker', s)
      BY <2>3, <3>1, <3>2, HeldTaken
    <3> QED
      BY <1>1, <2>4, <2>5, <2>6, <3>1, <3>3 DEF OnePlace
  <2>7. CASE s # t
    <3>1. ~Holds(worker'[w], s)
      BY <1>3, <2>3, <2>7 DEF Holds
    <3>2. \A v \in Worker : Holds(worker'[v], s) <=> Holds(worker[v], s)
      BY <1>4, <2>3, <3>1
    <3>3. HeldOnce(worker', s) /\ (Held(worker', s) <=> Held(worker, s))
      BY <2>5, <3>2, PlaceParts, HeldSame
    <3> QED
      BY <1>1, <2>4, <2>5, <2>7, <3>3, PlaceParts, PlaceKept
  <2> QED
    BY <2>6, <2>7
<1> QED
  BY <1>5, <1>6

\* A worker leaves strand t, for which another place may be found.
LEMMA LeaveStrand ==
  ASSUME Types, PlaceInv, NEW w \in Worker, NEW t \in Strand, NEW h,
         Becomes(w, "cleanup", worker[w].op, h),
         worker[w].op.s = t, Holds(worker[w], t)
  PROVE  /\ Held(worker, t) /\ ~Held(worker', t) /\ HeldOnce(worker', t)
         /\ \A s \in Strand \ {t} : HeldOnce(worker', s) /\ (Held(worker', s) <=> Held(worker, s))
<1>1. worker'[w].pc = "cleanup" /\ \A v \in Worker \ {w} : worker'[v] = worker[v]
  BY DEF Becomes
<1>2. \A s \in Strand : ~Holds(worker'[w], s)
  BY <1>1 DEF Holds
<1>3. \A s \in Strand \ {t} : ~Holds(worker[w], s)
  <2> SUFFICES ASSUME NEW s \in Strand \ {t}, Holds(worker[w], s) PROVE FALSE
    OBVIOUS
  <2>1. worker[w].op = Scheduled(s) => worker[w].op.s = s
    BY DEF Scheduled
  <2> QED
    BY <2>1 DEF Holds
<1>4. \A s \in Strand : HeldOnce(worker, s)
  BY DEF PlaceInv, OnePlace
<1>5. Held(worker, t) /\ ~Held(worker', t) /\ HeldOnce(worker', t)
  BY <1>1, <1>2, <1>4, HeldLeft
<1>6. ASSUME NEW s \in Strand \ {t}
      PROVE  HeldOnce(worker', s) /\ (Held(worker', s) <=> Held(worker, s))
  <2>1. \A v \in Worker : Holds(worker'[v], s) <=> Holds(worker[v], s)
    BY <1>1, <1>2, <1>3
  <2> QED
    BY <1>4, <2>1, HeldSame
<1> QED
  BY <1>5, <1>6

LEMMA StrandExitPlace ==
  ASSUME Types, JobInv, PlaceInv, NEW w \in Worker, StrandExit(w)
  PROVE  PlaceInv'
<1>1. worker[w].pc = "op" /\ worker[w].pc \in Busy /\ worker[w].op.op = "strand"
      /\ UNCHANGED <<acquired, opQueue>> /\ Goto(w, "cleanup") /\ "cleanup" \in Pc
  BY DEF StrandExit, queueVars, Busy, Pc
<1>2. PICK t \in Strand : t = worker[w].op.s /\ worker[w].op = Scheduled(t)
  BY <1>1, OpOfWorker, JobFields
<1>3. Becomes(w, "cleanup", worker[w].op, worker[w].h) /\ Holds(worker[w], t)
  BY <1>1, <1>2, GotoBecomes DEF Types, Holds
<1>4. /\ Held(worker, t) /\ ~Held(worker', t) /\ HeldOnce(worker', t)
      /\ \A s \in Strand \ {t} : HeldOnce(worker', s) /\ (Held(worker', s) <=> Held(worker, s))
  <2>1. worker[w].op.s = t
    BY <1>2
  <2> QED
    BY <1>3, <2>1, LeaveStrand
<1>5. /\ locked'[t] = (ready'[t] # <<>>)
      /\ \A s \in Strand \ {t} : locked'[s] = locked[s]
  <2>1. release_strand(t)
    BY <1>2 DEF StrandExit
  <2> QED
    BY <2>1, ReleaseEffect DEF Types
<1>6. OnePlace(acquired, opQueue, privateQueue, worker, locked[t], t)
  BY DEF PlaceInv
<1>7. /\ ~Acquired(acquired, t) /\ ~In(opQueue, Scheduled(t)) /\ ~InPrivate(privateQueue, t)
  BY <1>4, <1>6 DEF OnePlace
<1>8. CASE ready'[t] = <<>>
  <2>1. privateQueue' = privateQueue
    BY <1>2, <1>8 DEF StrandExit
  <2>2. OnePlace(acquired', opQueue', privateQueue', worker', locked'[t], t)
    BY <1>1, <1>4, <1>5, <1>6, <1>7, <1>8, <2>1 DEF OnePlace
  <2>3. ASSUME NEW s \in Strand \ {t}
        PROVE  OnePlace(acquired', opQueue', privateQueue', worker', locked'[s], s)
    <3>1. OnePlace(acquired, opQueue, privateQueue, worker, locked[s], s)
      BY DEF PlaceInv
    <3> QED
      BY <1>1, <1>4, <1>5, <2>1, <3>1, PlaceParts, PlaceKept
  <2> QED
    BY <2>2, <2>3 DEF PlaceInv
<1>9. CASE ready'[t] # <<>>
  <2>1. privateQueue' = [privateQueue EXCEPT ![w] = Append(privateQueue[w], Scheduled(t))]
    BY <1>2, <1>9 DEF StrandExit
  <2>2. privateQueue'[w] = Append(privateQueue[w], Scheduled(t)) /\ privateQueue[w] \in Seq(Jobs)
        /\ \A v \in Worker \ {w} : privateQueue'[v] = privateQueue[v]
    BY <2>1 DEF JobInv
  <2>3. ~In(privateQueue[w], Scheduled(t))
    BY <1>7 DEF InPrivate
  <2>4. In(privateQueue'[w], Scheduled(t)) /\ AtMostOnce(privateQueue'[w], Scheduled(t))
    BY <2>2, <2>3, AppendPlaces
  <2>5. InPrivate(privateQueue', t) /\ PrivateOnce(privateQueue', t)
    BY <1>6, <1>7, <2>2, <2>4, PlaceParts, PrivatePut
  <2>6. OnePlace(acquired', opQueue', privateQueue', worker', locked'[t], t)
    BY <1>1, <1>4, <1>5, <1>6, <1>7, <1>9, <2>5 DEF OnePlace
  <2>7. ASSUME NEW s \in Strand \ {t}
        PROVE  OnePlace(acquired', opQueue', privateQueue', worker', locked'[s], s)
    <3>1. OnePlace(acquired, opQueue, privateQueue, worker, locked[s], s)
      BY DEF PlaceInv
    <3>2. Scheduled(s) # Scheduled(t)
      BY DEF Scheduled
    <3>3. ASSUME NEW v \in Worker
          PROVE  /\ In(privateQueue'[v], Scheduled(s)) <=> In(privateQueue[v], Scheduled(s))
                 /\ AtMostOnce(privateQueue[v], Scheduled(s))
                      => AtMostOnce(privateQueue'[v], Scheduled(s))
      <4>1. CASE v = w
        <5>1. /\ In(privateQueue'[w], Scheduled(s)) <=> In(privateQueue[w], Scheduled(s))
              /\ AtMostOnce(privateQueue[w], Scheduled(s))
                   => AtMostOnce(privateQueue'[w], Scheduled(s))
          BY <2>2, <3>2, AppendPlaces
        <5> QED
          BY <4>1, <5>1
      <4>2. CASE v # w
        BY <2>2, <4>2
      <4> QED
        BY <4>1, <4>2
    <3>4. PrivateOnce(privateQueue', s)
          /\ (InPrivate(privateQueue', s) <=> InPrivate(privateQueue, s))
      BY <3>1, <3>3, PlaceParts, PrivateSame
    <3> QED
      BY <1>1, <1>4, <1>5, <3>1, <3>4, PlaceParts, PlaceKept
  <2> QED
    BY <2>6, <2>7 DEF PlaceInv
<1> QED
  BY <1>8, <1>9

LEMMA DispatchExitPlace ==
  ASSUME Types, JobInv, PlaceInv, NEW w \in Worker, DispatchExit(w)
  PROVE  PlaceInv'
<1>1. worker[w].pc = "exit" /\ worker[w].pc \in Busy /\ UNCHANGED <<acquired, privateQueue>>
      /\ Goto(w, "cleanup") /\ "cleanup" \in Pc
  BY DEF DispatchExit, Busy, Pc
<1>2. PICK t \in Strand : t = worker[w].op.s /\ worker[w].op.op = "handler"
  BY <1>1 DEF JobInv, WorkerOK
<1>3. Becomes(w, "cleanup", worker[w].op, worker[w].h) /\ Holds(worker[w], t)
  BY <1>1, <1>2, GotoBecomes DEF Types, Holds
<1>4. /\ Held(worker, t) /\ ~Held(worker', t) /\ HeldOnce(worker', t)
      /\ \A s \in Strand \ {t} : HeldOnce(worker', s) /\ (Held(worker', s) <=> Held(worker, s))
  <2>1. worker[w].op.s = t
    BY <1>2
  <2> QED
    BY <1>3, <2>1, LeaveStrand
<1>5. /\ locked'[t] = (ready'[t] # <<>>)
      /\ \A s \in Strand \ {t} : locked'[s] = locked[s]
  BY <1>2, ReleaseEffect DEF DispatchExit, Types
<1>6. OnePlace(acquired, opQueue, privateQueue, worker, locked[t], t)
  BY DEF PlaceInv
<1>7. /\ ~Acquired(acquired, t) /\ ~In(opQueue, Scheduled(t)) /\ ~InPrivate(privateQueue, t)
  BY <1>4, <1>6 DEF OnePlace
<1>8. CASE ready'[t] = <<>>
  <2>1. opQueue' = opQueue
    BY <1>2, <1>8 DEF DispatchExit, queueVars
  <2>2. OnePlace(acquired', opQueue', privateQueue', worker', locked'[t], t)
    BY <1>1, <1>4, <1>5, <1>6, <1>7, <1>8, <2>1 DEF OnePlace
  <2>3. ASSUME NEW s \in Strand \ {t}
        PROVE  OnePlace(acquired', opQueue', privateQueue', worker', locked'[s], s)
    <3>1. OnePlace(acquired, opQueue, privateQueue, worker, locked[s], s)
      BY DEF PlaceInv
    <3> QED
      BY <1>1, <1>4, <1>5, <2>1, <3>1, PlaceParts, PlaceKept
  <2> QED
    BY <2>2, <2>3 DEF PlaceInv
<1>9. CASE ready'[t] # <<>>
  <2>1. opQueue' = Append(opQueue, Scheduled(t)) /\ opQueue \in Seq(Jobs \cup {Task})
    BY <1>2, <1>9 DEF DispatchExit, post_immediate_completion, JobInv
  <2>2. In(opQueue', Scheduled(t)) /\ AtMostOnce(opQueue', Scheduled(t))
    BY <1>7, <2>1, AppendPlaces
  <2>3. OnePlace(acquired', opQueue', privateQueue', worker', locked'[t], t)
    BY <1>1, <1>4, <1>5, <1>6, <1>7, <1>9, <2>2 DEF OnePlace
  <2>4. ASSUME NEW s \in Strand \ {t}
        PROVE  OnePlace(acquired', opQueue', privateQueue', worker', locked'[s], s)
    <3>1. OnePlace(acquired, opQueue, privateQueue, worker, locked[s], s)
      BY DEF PlaceInv
    <3>2. Scheduled(s) # Scheduled(t)
      BY DEF Scheduled
    <3>3. AtMostOnce(opQueue', Scheduled(s))
          /\ (In(opQueue', Scheduled(s)) <=> In(opQueue, Scheduled(s)))
      BY <2>1, <3>1, <3>2, PlaceParts, AppendPlaces
    <3> QED
      BY <1>1, <1>4, <1>5, <3>1, <3>3, PlaceParts, PlaceKept
  <2> QED
    BY <2>3, <2>4 DEF PlaceInv
<1> QED
  BY <1>8, <1>9

LEMMA StrandPostPlace ==
  ASSUME Types, JobInv, PlaceInv, NEW t \in Strand, StrandPost(t)
  PROVE  PlaceInv'
<1>1. UNCHANGED <<opQueue, privateQueue, worker>>
  BY DEF StrandPost, queueVars
<1>2. CASE locked[t]
  <2>1. UNCHANGED <<locked, acquired>>
    BY <1>2 DEF StrandPost
  <2> QED
    BY <1>1, <2>1 DEF PlaceInv
<1>3. CASE ~locked[t]
  <2>1. PICK h : h = handlers' /\ h \in Handler
    BY MaxHandlersAssumption DEF StrandPost, NewHandler, Types, HandlerTypes, Handler
  <2>2. acquired' = acquired \cup {<<h, t>>} /\ locked' = [locked EXCEPT ![t] = TRUE]
    BY <1>3, <2>1 DEF StrandPost
  <2>3. locked'[t] = TRUE /\ \A s \in Strand \ {t} : locked'[s] = locked[s]
    BY <2>2 DEF Types, StrandTypes
  <2>4. OnePlace(acquired, opQueue, privateQueue, worker, locked[t], t)
    BY DEF PlaceInv
  <2>5. /\ ~Acquired(acquired, t) /\ ~In(opQueue, Scheduled(t)) /\ ~InPrivate(privateQueue, t)
        /\ ~Held(worker, t)
    BY <1>3, <2>4 DEF OnePlace
  <2>6. Acquired(acquired', t) /\ AcquiredOnce(acquired', t)
    BY <2>1, <2>2, <2>5 DEF Acquired, AcquiredOnce
  <2>7. OnePlace(acquired', opQueue', privateQueue', worker', locked'[t], t)
    BY <1>1, <2>3, <2>4, <2>5, <2>6 DEF OnePlace
  <2>8. ASSUME NEW s \in Strand \ {t}
        PROVE  OnePlace(acquired', opQueue', privateQueue', worker', locked'[s], s)
    <3>1. OnePlace(acquired, opQueue, privateQueue, worker, locked[s], s)
      BY DEF PlaceInv
    <3>2. \A g \in Handler : <<g, s>> \in acquired' <=> <<g, s>> \in acquired
      BY <2>2
    <3>3. AcquiredOnce(acquired', s) /\ (Acquired(acquired', s) <=> Acquired(acquired, s))
      BY <3>1, <3>2, PlaceParts DEF Acquired, AcquiredOnce
    <3> QED
      BY <1>1, <2>3, <3>1, <3>3, PlaceParts, PlaceKept
  <2> QED
    BY <2>7, <2>8 DEF PlaceInv
<1> QED
  BY <1>2, <1>3

LEMMA ScheduleStrandPlace ==
  ASSUME Types, JobInv, PlaceInv, NEW h \in Handler, NEW t \in Strand, ScheduleStrand(h, t)
  PROVE  PlaceInv'
<1>1. /\ <<h, t>> \in acquired /\ acquired' = acquired \ {<<h, t>>}
      /\ UNCHANGED <<privateQueue, worker, locked>>
      /\ opQueue' = Append(opQueue, Scheduled(t)) /\ opQueue \in Seq(Jobs \cup {Task})
  BY DEF ScheduleStrand, post_immediate_completion, JobInv
<1>2. OnePlace(acquired, opQueue, privateQueue, worker, locked[t], t)
  BY DEF PlaceInv
<1>3. Acquired(acquired, t)
  BY <1>1 DEF Acquired
<1>4. ~In(opQueue, Scheduled(t)) /\ ~InPrivate(privateQueue, t) /\ ~Held(worker, t) /\ locked[t]
  BY <1>2, <1>3 DEF OnePlace
<1>5. ~Acquired(acquired', t) /\ AcquiredOnce(acquired', t)
  BY <1>1, <1>2, PlaceParts DEF Acquired, AcquiredOnce
<1>6. In(opQueue', Scheduled(t)) /\ AtMostOnce(opQueue', Scheduled(t))
  BY <1>1, <1>4, AppendPlaces
<1>7. OnePlace(acquired', opQueue', privateQueue', worker', locked'[t], t)
  BY <1>1, <1>2, <1>4, <1>5, <1>6 DEF OnePlace
<1>8. ASSUME NEW s \in Strand \ {t}
      PROVE  OnePlace(acquired', opQueue', privateQueue', worker', locked'[s], s)
  <2>1. OnePlace(acquired, opQueue, privateQueue, worker, locked[s], s)
    BY DEF PlaceInv
  <2>2. \A g \in Handler : <<g, s>> \in acquired' <=> <<g, s>> \in acquired
    BY <1>1
  <2>3. AcquiredOnce(acquired', s) /\ (Acquired(acquired', s) <=> Acquired(acquired, s))
    BY <2>1, <2>2, PlaceParts DEF Acquired, AcquiredOnce
  <2>4. Scheduled(s) # Scheduled(t)
    BY DEF Scheduled
  <2>5. AtMostOnce(opQueue', Scheduled(s))
        /\ (In(opQueue', Scheduled(s)) <=> In(opQueue, Scheduled(s)))
    BY <1>1, <2>1, <2>4, PlaceParts, AppendPlaces
  <2> QED
    BY <1>1, <2>1, <2>3, <2>5, PlaceParts, PlaceKept
<1> QED
  BY <1>7, <1>8 DEF PlaceInv

LEMMA PostPlace ==
  ASSUME Types, JobInv, PlaceInv, NEW t \in Strand \cup {NoStrand}, Post(t)
  PROVE  PlaceInv'
<1>1. PICK h \in Handler : h = handlers'
  BY MaxHandlersAssumption DEF Post, NewHandler, Types, HandlerTypes, Handler
<1>2. /\ opQueue' = Append(opQueue, Completion(h, t)) /\ opQueue \in Seq(Jobs \cup {Task})
      /\ UNCHANGED <<acquired, privateQueue, locked, worker>>
  BY <1>1 DEF Post, post_immediate_completion, JobInv, strandVars
<1>3. ASSUME NEW s \in Strand
      PROVE  /\ In(opQueue', Scheduled(s)) <=> In(opQueue, Scheduled(s))
             /\ AtMostOnce(opQueue, Scheduled(s)) => AtMostOnce(opQueue', Scheduled(s))
  <2>1. Completion(h, t) # Scheduled(s)
    BY OpKinds
  <2> QED
    BY <1>2, <2>1, AppendPlaces
<1>4. \A s \in Strand, v \in Worker : Holds(worker'[v], s) <=> Holds(worker[v], s)
  BY <1>2
<1> QED
  BY <1>2, <1>3, <1>4, PlaceQueue

\* Steps of a worker between the operations it runs.
LEMMA IdlePlace ==
  ASSUME Types, PlaceInv, NEW w \in Worker, NEW pc \in Pc, Goto(w, pc),
         worker[w].pc \notin HoldPcs, pc \notin HoldPcs,
         UNCHANGED <<acquired, opQueue, privateQueue, locked>>
  PROVE  PlaceInv'
<1>1. Becomes(w, pc, worker[w].op, worker[w].h)
  BY GotoBecomes DEF Types
<1>2. \A s \in Strand, v \in Worker : Holds(worker'[v], s) <=> Holds(worker[v], s)
  BY <1>1, HoldsNothing
<1> QED
  BY <1>2, PlaceWorkers

LEMMA StopPlace ==
  ASSUME Types, PlaceInv, UNCHANGED <<acquired, opQueue, privateQueue, locked>>,
         Stop \/ \E w \in Worker : worker[w].pc = "stop" /\ WorkFinished(w)
  PROVE  PlaceInv'
<1>1. ASSUME NEW s \in Strand, NEW v \in Worker
      PROVE  Holds(worker'[v], s) <=> Holds(worker[v], s)
  <2>1. \/ worker'[v] = worker[v]
        \/ worker[v].pc = "wait" /\ worker'[v].pc = "woken"
        \/ worker[v].pc = "stop" /\ worker'[v].pc = "run"
    BY StopPlaces
  <2>2. CASE worker'[v] = worker[v]
    BY <2>2
  <2>3. CASE worker[v].pc \in {"wait", "stop"} /\ worker'[v].pc \in {"woken", "run"}
    <3>1. worker[v].pc \notin HoldPcs /\ worker'[v].pc \notin HoldPcs
      BY <2>3 DEF HoldPcs
    <3> QED
      BY <3>1, HoldsPc
  <2> QED
    BY <2>1, <2>2, <2>3
<1> QED
  BY <1>1, PlaceWorkers

\* Every step keeps each strand in one place, or in none when it is not locked.
LEMMA PlaceNext ==
  ASSUME Types, JobInv, PlaceInv, Next
  PROVE  PlaceInv'
<1>1. ASSUME NEW w \in Worker, EnterRun(w) PROVE PlaceInv'
  <2>1. PICK pc \in {"stop", "run"} : Goto(w, pc)
    BY <1>1, Zenon DEF EnterRun
  <2>2. pc \in Pc /\ pc \notin HoldPcs /\ worker[w].pc \notin HoldPcs
        /\ UNCHANGED <<acquired, opQueue, privateQueue, locked>>
    BY <1>1 DEF Pc, HoldPcs, EnterRun, queueVars, loopUnchanged, strandVars
  <2> QED
    BY <2>1, <2>2, IdlePlace
<1>2. ASSUME NEW w \in Worker, Wake(w) PROVE PlaceInv'
  <2>1. PICK pc \in {"locked", "wait"} : Goto(w, pc)
    BY <1>2, Zenon DEF Wake
  <2>2. pc \in Pc /\ pc \notin HoldPcs /\ worker[w].pc \notin HoldPcs
        /\ UNCHANGED <<acquired, opQueue, privateQueue, locked>>
    BY <1>2 DEF Pc, HoldPcs, Wake, queueVars, strandVars
  <2> QED
    BY <2>1, <2>2, IdlePlace
<1>3. ASSUME NEW w \in Worker, LeaveRun(w) PROVE PlaceInv'
  <2>1. Goto(w, "out") /\ "out" \in Pc /\ "out" \notin HoldPcs /\ worker[w].pc \notin HoldPcs
        /\ UNCHANGED <<acquired, opQueue, privateQueue, locked>>
    BY <1>3 DEF Pc, HoldPcs, LeaveRun, AtLoop, queueVars, loopUnchanged, strandVars
  <2> QED
    BY <2>1, IdlePlace
<1>4. ASSUME NEW w \in Worker, Sleep(w) PROVE PlaceInv'
  <2>1. Goto(w, "wait") /\ "wait" \in Pc /\ "wait" \notin HoldPcs /\ worker[w].pc \notin HoldPcs
        /\ UNCHANGED <<acquired, opQueue, privateQueue, locked>>
    BY <1>4 DEF Pc, HoldPcs, Sleep, AtLoop, loopUnchanged, strandVars
  <2> QED
    BY <2>1, IdlePlace
<1>5. ASSUME NEW w \in Worker, SpuriousWakeup(w) PROVE PlaceInv'
  <2>1. Goto(w, "woken") /\ "woken" \in Pc /\ "woken" \notin HoldPcs /\ worker[w].pc \notin HoldPcs
        /\ UNCHANGED <<acquired, opQueue, privateQueue, locked>>
    BY <1>5 DEF Pc, HoldPcs, SpuriousWakeup, queueVars, strandVars
  <2> QED
    BY <2>1, IdlePlace
<1>6. ASSUME CondSignal PROVE PlaceInv'
  <2>1. UNCHANGED <<acquired, opQueue, privateQueue, locked>>
    BY <1>6 DEF CondSignal, strandVars
  <2>2. ASSUME NEW v \in Worker, worker[v].pc = "wait", Goto(v, "woken") PROVE PlaceInv'
    <3>1. "woken" \in Pc /\ "woken" \notin HoldPcs /\ worker[v].pc \notin HoldPcs
      BY <2>2 DEF Pc, HoldPcs
    <3> QED
      BY <2>1, <2>2, <3>1, IdlePlace
  <2>3. CASE worker' = worker
    BY <2>1, <2>3, PlaceWorkers
  <2> QED
    BY <1>6, <2>2, <2>3 DEF CondSignal
<1>7. ASSUME NEW w \in Worker, WorkFinished(w) PROVE PlaceInv'
  <2>1. worker[w].pc = "stop" /\ UNCHANGED <<acquired, opQueue, privateQueue, locked>>
    BY <1>7 DEF WorkFinished, loopUnchanged, strandVars
  <2> QED
    BY <1>7, <2>1, StopPlace
<1>8. ASSUME Stop PROVE PlaceInv'
  <2>1. UNCHANGED <<acquired, opQueue, privateQueue, locked>>
    BY <1>8 DEF Stop, loopUnchanged, strandVars
  <2> QED
    BY <1>8, <2>1, StopPlace
<1>9. ASSUME NEW s \in Strand \cup {NoStrand}, StartIo(s) PROVE PlaceInv'
  <2>1. UNCHANGED <<acquired, opQueue, privateQueue, locked, worker>>
    BY <1>9 DEF StartIo, queueVars, strandVars
  <2> QED
    BY <2>1, PlaceWorkers
<1>10. ASSUME NEW w \in Worker, WorkerStep(w) PROVE PlaceInv'
  BY <1>1, <1>2, <1>3, <1>4, <1>7, <1>10, RunTaskPlace, TakeOpPlace, TaskCleanupPlace,
     WorkCleanupPlace, CallPlainPlace, DispatchPlace, CallInlinePlace, CallReadyPlace,
     HandlerReturnsPlace, StrandExitPlace, DispatchExitPlace DEF WorkerStep
<1> QED
  BY <1>5, <1>6, <1>8, <1>9, <1>10, EpollReturnsPlace, PostPlace, ContinuePlace,
     StrandPostPlace, ScheduleStrandPlace DEF Next

\* ScheduledOnce from the places of a strand.
LEMMA InStrandHolds ==
  ASSUME NEW v \in Worker, NEW s \in Strand
  PROVE  InStrand(v, s) <=> Holds(worker[v], s)
BY DEF InStrand, Holds

LEMMA OnePlaceScheduled ==
  ASSUME Types, PlaceInv
  PROVE  ScheduledOnce
<1> SUFFICES ASSUME NEW s \in Strand
             PROVE  Cardinality(Scheduling(s)) = IF locked[s] THEN 1 ELSE 0
  BY DEF ScheduledOnce
<1> DEFINE A == {<<"acquired", h>> : h \in {g \in Handler : <<g, s>> \in acquired}}
<1> DEFINE Q == {<<"queue", i>> : i \in {j \in DOMAIN opQueue : opQueue[j] = Scheduled(s)}}
<1> DEFINE P == UNION {{<<v, i>> : i \in {j \in DOMAIN privateQueue[v] :
                                            privateQueue[v][j] = Scheduled(s)}} : v \in Worker}
<1> DEFINE W == {<<"worker", v>> : v \in {u \in Worker : InStrand(u, s)}}
<1>0. Scheduling(s) = A \cup Q \cup P \cup W
  BY DEF Scheduling
<1>1. OnePlace(acquired, opQueue, privateQueue, worker, locked[s], s)
  BY DEF PlaceInv
<1>2. /\ A # {} => Acquired(acquired, s)
      /\ Acquired(acquired, s) => \E h \in Handler : A = {<<"acquired", h>>}
  <2>1. A # {} => Acquired(acquired, s)
    BY DEF Acquired
  <2>2. ASSUME Acquired(acquired, s) PROVE \E h \in Handler : A = {<<"acquired", h>>}
    <3>1. PICK h \in Handler : <<h, s>> \in acquired
      BY <2>2 DEF Acquired
    <3>2. \A g \in Handler : <<g, s>> \in acquired => g = h
      BY <1>1, <3>1 DEF OnePlace, AcquiredOnce
    <3>3. {g \in Handler : <<g, s>> \in acquired} = {h}
      BY <3>1, <3>2
    <3>4. A = {<<"acquired", h>>}
      BY <3>3
    <3> QED
      BY <3>4
  <2> QED
    BY <2>1, <2>2
<1>3. /\ Q # {} => In(opQueue, Scheduled(s))
      /\ In(opQueue, Scheduled(s)) => \E i : Q = {<<"queue", i>>}
  <2>1. Q # {} => In(opQueue, Scheduled(s))
    BY DEF In
  <2>2. ASSUME In(opQueue, Scheduled(s)) PROVE \E i : Q = {<<"queue", i>>}
    <3>1. PICK i \in DOMAIN opQueue : opQueue[i] = Scheduled(s)
      BY <2>2 DEF In
    <3>2. \A j \in DOMAIN opQueue : opQueue[j] = Scheduled(s) => j = i
      BY <1>1, <3>1 DEF OnePlace, AtMostOnce
    <3>3. {j \in DOMAIN opQueue : opQueue[j] = Scheduled(s)} = {i}
      BY <3>1, <3>2
    <3>4. Q = {<<"queue", i>>}
      BY <3>3
    <3> QED
      BY <3>4
  <2> QED
    BY <2>1, <2>2
<1>4. /\ P # {} => InPrivate(privateQueue, s)
      /\ InPrivate(privateQueue, s) => \E v, i : P = {<<v, i>>}
  <2>0. \A x : x \in P <=> \E v \in Worker : \E j \in DOMAIN privateQueue[v] :
                              privateQueue[v][j] = Scheduled(s) /\ x = <<v, j>>
    OBVIOUS
  <2> HIDE DEF P
  <2>1. P # {} => InPrivate(privateQueue, s)
    BY <2>0 DEF In, InPrivate
  <2>2. ASSUME InPrivate(privateQueue, s) PROVE \E v, i : P = {<<v, i>>}
    <3>1. PICK v \in Worker : In(privateQueue[v], Scheduled(s))
      BY <2>2 DEF InPrivate
    <3>2. PICK i \in DOMAIN privateQueue[v] : privateQueue[v][i] = Scheduled(s)
      BY <3>1 DEF In
    <3>3. ASSUME NEW u \in Worker, NEW j \in DOMAIN privateQueue[u],
                 privateQueue[u][j] = Scheduled(s)
          PROVE  u = v /\ j = i
      <4>1. In(privateQueue[u], Scheduled(s))
        BY <3>3 DEF In
      <4>2. u = v
        BY <1>1, <3>1, <4>1 DEF OnePlace, PrivateOnce
      <4>3. AtMostOnce(privateQueue[v], Scheduled(s))
        BY <1>1 DEF OnePlace, PrivateOnce
      <4> QED
        BY <3>2, <3>3, <4>2, <4>3 DEF AtMostOnce
    <3>4. P = {<<v, i>>}
      BY <2>0, <3>2, <3>3
    <3> QED
      BY <3>4
  <2> QED
    BY <2>1, <2>2
<1>5. /\ W # {} => Held(worker, s)
      /\ Held(worker, s) => \E v \in Worker : W = {<<"worker", v>>}
  <2>1. W # {} => Held(worker, s)
    BY InStrandHolds DEF Held
  <2>2. ASSUME Held(worker, s) PROVE \E v \in Worker : W = {<<"worker", v>>}
    <3>1. PICK v \in Worker : Holds(worker[v], s)
      BY <2>2 DEF Held
    <3>2. \A u \in Worker : Holds(worker[u], s) => u = v
      BY <1>1, <3>1 DEF OnePlace, HeldOnce
    <3>3. {u \in Worker : InStrand(u, s)} = {v}
      BY <3>1, <3>2, InStrandHolds
    <3>4. W = {<<"worker", v>>}
      BY <3>3
    <3> QED
      BY <3>4
  <2> QED
    BY <2>1, <2>2
<1> HIDE DEF A, Q, P, W
<1>6. CASE locked[s]
  <2>1. \E x : Scheduling(s) = {x}
    <3>1. CASE Acquired(acquired, s)
      <4>1. Q = {} /\ P = {} /\ W = {} /\ \E x : A = {x}
        BY <1>1, <1>2, <1>3, <1>4, <1>5, <3>1 DEF OnePlace
      <4> QED
        BY <1>0, <4>1
    <3>2. CASE In(opQueue, Scheduled(s))
      <4>1. A = {} /\ P = {} /\ W = {} /\ \E x : Q = {x}
        BY <1>1, <1>2, <1>3, <1>4, <1>5, <3>2 DEF OnePlace
      <4> QED
        BY <1>0, <4>1
    <3>3. CASE InPrivate(privateQueue, s)
      <4>1. A = {} /\ Q = {} /\ W = {} /\ \E x : P = {x}
        BY <1>1, <1>2, <1>3, <1>4, <1>5, <3>3 DEF OnePlace
      <4> QED
        BY <1>0, <4>1
    <3>4. CASE Held(worker, s)
      <4>1. A = {} /\ Q = {} /\ P = {} /\ \E x : W = {x}
        BY <1>1, <1>2, <1>3, <1>4, <1>5, <3>4 DEF OnePlace
      <4> QED
        BY <1>0, <4>1
    <3> QED
      BY <1>1, <1>6, <3>1, <3>2, <3>3, <3>4 DEF OnePlace
  <2> QED
    BY <1>6, <2>1, FS_Singleton
<1>7. CASE ~locked[s]
  <2>1. Scheduling(s) = {}
    BY <1>0, <1>1, <1>2, <1>3, <1>4, <1>5, <1>7 DEF OnePlace
  <2> QED
    BY <1>7, <2>1, FS_EmptySet
<1> QED
  BY <1>6, <1>7

\* What happens to a sequence in three parts, of which the last grows, the second
\* hands an element to the first, or the last is added to the second.
LEMMA AppendIsConcatOne ==
  ASSUME NEW S, NEW q \in Seq(S), NEW h \in S
  PROVE  Append(q, h) = q \o <<h>> /\ <<h>> \in Seq(S)
OBVIOUS

LEMMA PartsGrow ==
  ASSUME NEW S, NEW b \in Seq(S), NEW n \in Seq(S), NEW z \in Seq(S), NEW h \in S
  PROVE  Append(Parts(b, n, z), h) = Parts(b, n, Append(z, h))
<1>1. b \o n \in Seq(S) /\ (b \o n) \o z \in Seq(S)
  BY ConcatProperties
<1>2. ((b \o n) \o z) \o <<h>> = (b \o n) \o (z \o <<h>>)
  BY <1>1, AppendIsConcatOne, ConcatAssociative
<1> QED
  BY <1>1, <1>2, AppendIsConcatOne DEF Parts

LEMMA PartsHandOn ==
  ASSUME NEW S, NEW b \in Seq(S), NEW n \in Seq(S), NEW z \in Seq(S), n # <<>>
  PROVE  /\ Parts(Append(b, Head(n)), Tail(n), z) = Parts(b, n, z)
         /\ Len(b) < Len(Parts(b, n, z))
         /\ Parts(b, n, z)[Len(b) + 1] = Head(n)
<1>1. PICK h \in S, t \in Seq(S) : h = Head(n) /\ t = Tail(n)
  BY HeadTailProperties
<1>2. n = <<h>> \o t /\ <<h>> \in Seq(S)
  BY <1>1
<1>3. Append(b, h) \o t = b \o n
  BY <1>2, AppendIsConcatOne, ConcatAssociative
<1>4. Len(n) \in Nat \ {0} /\ Len(b) \in Nat /\ Len(z) \in Nat /\ n[1] = h
  BY <1>1, LenProperties
<1>5. b \o n \in Seq(S) /\ Len(b \o n) = Len(b) + Len(n) /\ (b \o n)[Len(b) + 1] = h
  BY <1>4, ConcatProperties
<1>6. Len((b \o n) \o z) = Len(b) + Len(n) + Len(z) /\ ((b \o n) \o z)[Len(b) + 1] = h
  BY <1>4, <1>5, ConcatProperties
<1> QED
  BY <1>1, <1>3, <1>4, <1>6 DEF Parts

LEMMA PartsMerge ==
  ASSUME NEW S, NEW b \in Seq(S), NEW n \in Seq(S), NEW z \in Seq(S)
  PROVE  Parts(b, n, z) = Parts(b, n \o z, <<>>)
<1>1. n \o z \in Seq(S) /\ b \o (n \o z) \in Seq(S)
  BY ConcatProperties
<1> QED
  BY <1>1, ConcatAssociative, ConcatEmptySeq DEF Parts

LEMMA FirstPart ==
  ASSUME NEW S, NEW b \in Seq(S)
  PROVE  Parts(b, <<>>, <<>>) = b
BY ConcatEmptySeq DEF Parts

LEMMA PartsOne ==
  ASSUME NEW S, NEW b \in Seq(S), NEW h \in S
  PROVE  Parts(b, <<h>>, <<>>) = Append(b, h)
<1>1. Append(b, h) = b \o <<h>> /\ b \o <<h>> \in Seq(S)
  BY AppendIsConcatOne, ConcatProperties
<1> QED
  BY <1>1, ConcatEmptySeq DEF Parts

LEMMA PartsTaken ==
  ASSUME NEW S, NEW b \in Seq(S), NEW z \in Seq(S), NEW h \in S
  PROVE  /\ Parts(Append(b, h), <<>>, z) = Parts(b, <<h>>, z)
         /\ Len(b) < Len(Parts(b, <<h>>, z))
         /\ Parts(b, <<h>>, z)[Len(b) + 1] = h
<1>0. <<h>> \in Seq(S)
  OBVIOUS
<1>1. PICK n \in Seq(S) : n = <<h>>
  BY <1>0
<1>2. n # <<>> /\ Head(n) = h /\ Tail(n) = <<>>
  BY <1>1
<1>3. /\ Parts(Append(b, Head(n)), Tail(n), z) = Parts(b, n, z)
      /\ Len(b) < Len(Parts(b, n, z))
      /\ Parts(b, n, z)[Len(b) + 1] = Head(n)
  BY <1>2, PartsHandOn
<1> QED
  BY <1>1, <1>2, <1>3

Plus(q, h) == Append(q, h)
LEMMA PartsPlus ==
  ASSUME NEW b \in Seq(Handler), NEW n \in Seq(Handler), NEW z \in Seq(Handler), NEW h \in Handler
  PROVE  Plus(Parts(b, n, z), h) = Parts(b, n, Plus(z, h))
BY PartsGrow DEF Plus

LEMMA WaitingGrows ==
  ASSUME NEW b \in Seq(Handler), NEW n \in Seq(Handler), NEW z \in Seq(Handler),
         NEW h \in Handler, NEW od, NEW od1, NEW z1,
         od = Parts(b, n, z), od1 = Plus(od, h), z1 = Plus(z, h)
  PROVE  od1 = Parts(b, n, z1)
BY PartsPlus

-----------------------------------------------------------------------------
(* The order in which a strand calls its handlers.                         *)

\* What a step does to the two histories of a strand.
FifoStep(s) ==
  \/ order'[s] = order[s] /\ begun'[s] = begun[s]
  \/ \E h \in Handler : order'[s] = Append(order[s], h) /\ begun'[s] = begun[s]
  \/ /\ Len(begun[s]) < Len(order[s])
     /\ begun'[s] = Append(begun[s], order[s][Len(begun[s]) + 1])
     /\ order'[s] = order[s]
OrderStep(s) ==
  /\ OrderOK(locked'[s], acquired', worker', ready'[s], waiting'[s], order'[s], begun'[s], s)
  /\ FifoStep(s)

\* A strand the step does not touch.
LEMMA OrderKept ==
  ASSUME NEW s \in Strand,
         OrderOK(locked[s], acquired, worker, ready[s], waiting[s], order[s], begun[s], s),
         locked'[s] = locked[s], ready'[s] = ready[s], waiting'[s] = waiting[s],
         order'[s] = order[s], begun'[s] = begun[s],
         \A h \in Handler : <<h, s>> \in acquired' <=> <<h, s>> \in acquired,
         \A v \in Worker : \/ worker'[v] = worker[v]
                           \/ ~Taking(worker'[v], s) /\ ~Taking(worker[v], s)
  PROVE  OrderStep(s)
<1>1. Acquired(acquired', s) <=> Acquired(acquired, s)
  BY DEF Acquired
<1>2. \A v \in Worker : Taking(worker'[v], s) => worker'[v] = worker[v] /\ Taking(worker[v], s)
  OBVIOUS
<1>3. \A v \in Worker : Taking(worker[v], s) => Taking(worker'[v], s)
  OBVIOUS
<1>4. FifoStep(s)
  BY DEF FifoStep
<1> QED
  BY <1>1, <1>2, <1>3, <1>4 DEF OrderOK, OrderStep

\* Steps that leave the strands alone, and start or end no dispatch.
LEMMA OrderQuiet ==
  ASSUME OrderInv, UNCHANGED <<locked, waiting, ready, order, begun, acquired>>,
         \A v \in Worker : \/ worker'[v] = worker[v]
                           \/ worker'[v].pc # "inline" /\ worker[v].pc # "inline"
  PROVE  \A s \in Strand : OrderStep(s)
<1> TAKE s \in Strand
<1>1. OrderOK(locked[s], acquired, worker, ready[s], waiting[s], order[s], begun[s], s)
  BY DEF OrderInv
<1>2. \A v \in Worker : \/ worker'[v] = worker[v]
                        \/ ~Taking(worker'[v], s) /\ ~Taking(worker[v], s)
  BY DEF Taking
<1> QED
  BY <1>1, <1>2, OrderKept

LEMMA OrderQuietWorker ==
  ASSUME OrderInv, UNCHANGED <<locked, waiting, ready, order, begun, acquired>>,
         NEW w \in Worker, NEW pc, NEW o, NEW h, Becomes(w, pc, o, h),
         pc # "inline", worker[w].pc # "inline"
  PROVE  \A s \in Strand : OrderStep(s)
<1>1. \A v \in Worker : \/ worker'[v] = worker[v]
                        \/ worker'[v].pc # "inline" /\ worker[v].pc # "inline"
  BY DEF Becomes
<1> QED
  BY <1>1, OrderQuiet

\* A worker about to call the handler that took strand s holds it.
LEMMA TakingHolds ==
  ASSUME JobInv, NEW v \in Worker, NEW s \in Strand, Taking(worker[v], s)
  PROVE  Holds(worker[v], s) /\ worker[v].op.h \in Handler
<1>1. worker[v].pc = "inline" /\ worker[v].op.s = s /\ "inline" \in Busy
  BY DEF Taking, Busy
<1>2. worker[v].op.op = "handler" /\ worker[v].op \in Jobs
  BY <1>1 DEF JobInv, WorkerOK
<1> QED
  BY <1>1, <1>2, JobFields DEF Holds

\* A strand that is not locked has nothing to do.
LEMMA FreeStrand ==
  ASSUME Types, JobInv, PlaceInv, OrderInv, NEW s \in Strand, ~locked[s]
  PROVE  /\ ready[s] = <<>> /\ waiting[s] = <<>> /\ order[s] = begun[s]
         /\ ~Acquired(acquired, s) /\ \A v \in Worker : ~Taking(worker[v], s)
<1>1. ~Acquired(acquired, s) /\ ~Held(worker, s)
  BY DEF PlaceInv, OnePlace
<1>2. \A v \in Worker : ~Taking(worker[v], s)
  BY <1>1, TakingHolds DEF Held
<1>3. OrderOK(locked[s], acquired, worker, ready[s], waiting[s], order[s], begun[s], s)
  BY DEF OrderInv
<1>4. ready[s] = <<>> /\ waiting[s] = <<>> /\ order[s] = Parts(begun[s], ready[s], waiting[s])
  BY <1>1, <1>2, <1>3 DEF OrderOK
<1>5. begun[s] \in Seq(Handler)
  BY DEF Types, StrandTypes
<1> QED
  BY <1>1, <1>2, <1>4, <1>5, FirstPart

\* A strand that a worker holds, and did not take for a dispatch.
LEMMA BusyStrand ==
  ASSUME Types, JobInv, PlaceInv, OrderInv, NEW s \in Strand, NEW w \in Worker,
         Holds(worker[w], s), worker[w].pc # "inline"
  PROVE  /\ order[s] = Parts(begun[s], ready[s], waiting[s]) /\ locked[s]
         /\ ~Acquired(acquired, s) /\ \A v \in Worker : ~Taking(worker[v], s)
<1>1. ~Acquired(acquired, s) /\ locked[s] /\ HeldOnce(worker, s)
  BY DEF PlaceInv, OnePlace, Held
<1>2. ASSUME NEW v \in Worker, Taking(worker[v], s) PROVE FALSE
  <2>1. v = w
    BY <1>1, <1>2, TakingHolds DEF HeldOnce
  <2> QED
    BY <1>2, <2>1 DEF Taking
<1>3. OrderOK(locked[s], acquired, worker, ready[s], waiting[s], order[s], begun[s], s)
  BY DEF OrderInv
<1> QED
  BY <1>1, <1>2, <1>3 DEF OrderOK

\* A handler is posted to a strand that is locked.
LEMMA OrderWaits ==
  ASSUME Types, JobInv, OrderInv, NEW s \in Strand, NEW h \in Handler, locked[s],
         locked'[s] = locked[s], ready'[s] = ready[s], begun'[s] = begun[s],
         waiting'[s] = Append(waiting[s], h), order'[s] = Append(order[s], h),
         acquired' = acquired,
         \A v \in Worker : \/ worker'[v] = worker[v]
                           \/ ~Taking(worker'[v], s) /\ ~Taking(worker[v], s)
  PROVE  OrderStep(s)
<1>1. OrderOK(locked[s], acquired, worker, ready[s], waiting[s], order[s], begun[s], s)
  BY DEF OrderInv
<1>2. begun[s] \in Seq(Handler) /\ waiting[s] \in Seq(Handler) /\ ready[s] \in Seq(Handler)
      /\ order[s] \in Seq(Handler)
  BY DEF Types, StrandTypes
<1>3. ASSUME NEW n \in Seq(Handler), order[s] = Parts(begun[s], n, waiting[s])
      PROVE  order'[s] = Parts(begun'[s], n, waiting'[s])
  <2>1. order'[s] = Plus(order[s], h) /\ waiting'[s] = Plus(waiting[s], h)
    BY DEF Plus
  <2> QED
    BY <1>2, <1>3, <2>1, WaitingGrows
<1>4. ASSUME NEW g \in Handler, <<g, s>> \in acquired'
      PROVE  ready'[s] = <<>> /\ order'[s] = Parts(begun'[s], <<g>>, waiting'[s])
  <2>1. ready[s] = <<>> /\ order[s] = Parts(begun[s], <<g>>, waiting[s])
    BY <1>1, <1>4 DEF OrderOK
  <2>2. <<g>> \in Seq(Handler)
    OBVIOUS
  <2> QED
    BY <1>3, <2>1, <2>2
<1>5. ASSUME NEW v \in Worker, Taking(worker'[v], s)
      PROVE  ready'[s] = <<>> /\ order'[s] = Parts(begun'[s], <<worker'[v].op.h>>, waiting'[s])
  <2>1. worker'[v] = worker[v] /\ Taking(worker[v], s)
    BY <1>5
  <2>2. PICK g \in Handler : g = worker[v].op.h
    BY <2>1, TakingHolds
  <2>3. ready[s] = <<>> /\ order[s] = Parts(begun[s], <<g>>, waiting[s])
    BY <1>1, <2>1, <2>2 DEF OrderOK
  <2>4. <<g>> \in Seq(Handler)
    OBVIOUS
  <2> QED
    BY <1>3, <2>1, <2>2, <2>3, <2>4
<1>6. ASSUME ~Acquired(acquired', s), \A w \in Worker : ~Taking(worker'[w], s)
      PROVE  order'[s] = Parts(begun'[s], ready'[s], waiting'[s])
  <2>1. \A w \in Worker : ~Taking(worker[w], s)
    BY <1>6
  <2>2. order[s] = Parts(begun[s], ready[s], waiting[s])
    BY <1>1, <1>6, <2>1 DEF OrderOK
  <2> QED
    BY <1>2, <1>3, <2>2
<1>7. FifoStep(s)
  BY DEF FifoStep
<1> QED
  BY <1>4, <1>5, <1>6, <1>7 DEF OrderOK, OrderStep

LEMMA DispatchOrder ==
  ASSUME Types, JobInv, PlaceInv, OrderInv, NEW w \in Worker, do_dispatch(w)
  PROVE  \A s \in Strand : OrderStep(s)
<1>1. worker[w].pc = "op" /\ worker[w].pc \in Busy
      /\ worker[w].op.op = "handler" /\ worker[w].op.s # NoStrand
      /\ UNCHANGED <<acquired, ready, begun>>
  BY DEF do_dispatch, opUnchanged, Busy
<1>2. worker[w].op \in Jobs
  BY <1>1, OpOfWorker
<1>3. PICK t \in Strand, h \in Handler : t = worker[w].op.s /\ h = worker[w].op.h
  BY <1>1, <1>2, JobFields
<1>4. order' = [order EXCEPT ![t] = Append(order[t], h)]
  BY <1>3 DEF do_dispatch
<1>5. order'[t] = Append(order[t], h) /\ \A s \in Strand \ {t} : order'[s] = order[s]
  BY <1>4 DEF Types, StrandTypes
<1>6. \A s \in Strand : OrderOK(locked[s], acquired, worker, ready[s], waiting[s], order[s], begun[s], s)
  BY DEF OrderInv
<1>7. CASE locked[t]
  <2>1. Goto(w, "cleanup") /\ "cleanup" \in Pc /\ locked' = locked
        /\ waiting' = [waiting EXCEPT ![t] = Append(waiting[t], h)]
    BY <1>3, <1>7 DEF do_dispatch, Pc
  <2>2. waiting'[t] = Append(waiting[t], h) /\ \A s \in Strand \ {t} : waiting'[s] = waiting[s]
    BY <2>1 DEF Types, StrandTypes
  <2>3. Becomes(w, "cleanup", worker[w].op, worker[w].h)
    BY <2>1, GotoBecomes DEF Types
  <2>4. \A s \in Strand, v \in Worker : \/ worker'[v] = worker[v]
                                        \/ ~Taking(worker'[v], s) /\ ~Taking(worker[v], s)
    BY <1>1, <2>3 DEF Becomes, Taking
  <2>5. OrderStep(t)
    BY <1>1, <1>5, <1>7, <2>1, <2>2, <2>4, OrderWaits
  <2>6. \A s \in Strand \ {t} : OrderStep(s)
    BY <1>1, <1>5, <1>6, <2>1, <2>2, <2>4, OrderKept
  <2> QED
    BY <2>5, <2>6
<1>8. CASE ~locked[t]
  <2>1. Goto(w, "inline") /\ "inline" \in Pc /\ locked' = [locked EXCEPT ![t] = TRUE]
        /\ waiting' = waiting
    BY <1>3, <1>8 DEF do_dispatch, Pc
  <2>2. locked'[t] = TRUE /\ \A s \in Strand \ {t} : locked'[s] = locked[s]
    BY <2>1 DEF Types, StrandTypes
  <2>3. Becomes(w, "inline", worker[w].op, worker[w].h)
    BY <2>1, GotoBecomes DEF Types
  <2>4. worker'[w].op = worker[w].op /\ worker'[w].pc = "inline"
        /\ \A v \in Worker \ {w} : worker'[v] = worker[v]
    BY <2>3 DEF Becomes
  <2>5. /\ ready[t] = <<>> /\ waiting[t] = <<>> /\ order[t] = begun[t]
        /\ ~Acquired(acquired, t) /\ \A v \in Worker : ~Taking(worker[v], t)
    BY <1>8, FreeStrand
  <2>6. Taking(worker'[w], t) /\ \A v \in Worker : Taking(worker'[v], t) => v = w
    BY <1>3, <2>4, <2>5 DEF Taking
  <2>7. order'[t] = Parts(begun'[t], <<h>>, waiting'[t])
    <3>1. begun[t] \in Seq(Handler)
      BY DEF Types, StrandTypes
    <3>2. Parts(begun[t], <<h>>, <<>>) = Append(begun[t], h)
      BY <3>1, PartsOne
    <3> QED
      BY <1>1, <1>5, <2>1, <2>5, <3>2
  <2>8. FifoStep(t)
    BY <1>1, <1>5 DEF FifoStep
  <2>9. OrderStep(t)
    <3>1. ~Acquired(acquired', t) /\ ready'[t] = <<>>
      BY <1>1, <2>5
    <3>2. \A g \in Handler : <<g, t>> \notin acquired'
      BY <3>1 DEF Acquired
    <3>3. \A v \in Worker : Taking(worker'[v], t) => worker'[v].op.h = h
      BY <1>3, <2>4, <2>6
    <3> QED
      BY <2>2, <2>6, <2>7, <2>8, <3>1, <3>2, <3>3 DEF OrderOK, OrderStep
  <2>10. ASSUME NEW s \in Strand \ {t} PROVE OrderStep(s)
    <3>1. ~Taking(worker'[w], s) /\ ~Taking(worker[w], s)
      BY <1>1, <1>3, <2>4 DEF Taking
    <3>2. \A v \in Worker : \/ worker'[v] = worker[v]
                            \/ ~Taking(worker'[v], s) /\ ~Taking(worker[v], s)
      BY <2>4, <3>1
    <3> QED
      BY <1>1, <1>5, <1>6, <2>1, <2>2, <3>2, OrderKept
  <2> QED
    BY <2>9, <2>10
<1> QED
  BY <1>7, <1>8

LEMMA CallInlineOrder ==
  ASSUME Types, JobInv, PlaceInv, OrderInv, NEW w \in Worker, CallInline(w)
  PROVE  \A s \in Strand : OrderStep(s)
<1>1. worker[w].pc = "inline" /\ worker[w].pc \in Busy
      /\ UNCHANGED <<acquired, locked, waiting, ready, order>>
  BY DEF CallInline, opUnchanged, strandVars, Busy
<1>2. worker[w].op \in Jobs /\ worker[w].op.op = "handler" /\ worker[w].op.s \in Strand
  BY <1>1 DEF JobInv, WorkerOK
<1>3. PICK t \in Strand, h \in Handler : t = worker[w].op.s /\ h = worker[w].op.h
  BY <1>2, JobFields
<1>4. /\ begun' = [begun EXCEPT ![t] = Append(begun[t], h)]
      /\ worker' = [worker EXCEPT ![w] = [worker[w] EXCEPT !.pc = "call", !.h = worker[w].op.h]]
  BY <1>3 DEF CallInline
<1>5. begun'[t] = Append(begun[t], h) /\ \A s \in Strand \ {t} : begun'[s] = begun[s]
  BY <1>4 DEF Types, StrandTypes
<1>6. worker'[w].pc = "call" /\ \A v \in Worker \ {w} : worker'[v] = worker[v]
  BY <1>4 DEF Types, WorkerTypes, WorkerRec
<1>7. Taking(worker[w], t) /\ \A s \in Strand \ {t} : ~Taking(worker[w], s)
  BY <1>1, <1>3 DEF Taking
<1>8. \A s \in Strand : ~Taking(worker'[w], s)
  BY <1>6 DEF Taking
<1>9. \A s \in Strand : OrderOK(locked[s], acquired, worker, ready[s], waiting[s], order[s], begun[s], s)
  BY DEF OrderInv
<1>10. ready[t] = <<>> /\ order[t] = Parts(begun[t], <<h>>, waiting[t])
  BY <1>3, <1>7, <1>9 DEF OrderOK
<1>11. Holds(worker[w], t)
  BY <1>7, TakingHolds
<1>12. ~Acquired(acquired, t) /\ locked[t] /\ HeldOnce(worker, t)
  BY <1>11 DEF PlaceInv, OnePlace, Held
<1>13. \A v \in Worker : ~Taking(worker'[v], t)
  <2>1. \A v \in Worker \ {w} : ~Taking(worker[v], t)
    BY <1>11, <1>12, TakingHolds DEF HeldOnce
  <2> QED
    BY <1>6, <1>8, <2>1
<1>14. /\ Parts(Append(begun[t], h), <<>>, waiting[t]) = order[t]
       /\ Len(begun[t]) < Len(order[t]) /\ order[t][Len(begun[t]) + 1] = h
  <2>1. begun[t] \in Seq(Handler) /\ waiting[t] \in Seq(Handler)
    BY DEF Types, StrandTypes
  <2> QED
    BY <1>10, <2>1, PartsTaken
<1>15. OrderStep(t)
  <2>1. FifoStep(t)
    BY <1>1, <1>5, <1>14 DEF FifoStep
  <2>2. order'[t] = Parts(begun'[t], ready'[t], waiting'[t])
    BY <1>1, <1>5, <1>10, <1>14
  <2>3. \A g \in Handler : <<g, t>> \notin acquired'
    BY <1>1, <1>12 DEF Acquired
  <2> QED
    BY <1>1, <1>12, <1>13, <2>1, <2>2, <2>3 DEF OrderOK, OrderStep
<1>16. ASSUME NEW s \in Strand \ {t} PROVE OrderStep(s)
  <2>1. \A v \in Worker : \/ worker'[v] = worker[v]
                          \/ ~Taking(worker'[v], s) /\ ~Taking(worker[v], s)
    BY <1>6, <1>7, <1>8
  <2> QED
    BY <1>1, <1>5, <1>9, <2>1, OrderKept
<1> QED
  BY <1>15, <1>16

LEMMA CallReadyOrder ==
  ASSUME Types, JobInv, PlaceInv, OrderInv, NEW w \in Worker, CallReady(w)
  PROVE  \A s \in Strand : OrderStep(s)
<1>1. worker[w].pc = "op" /\ worker[w].pc \in Busy /\ worker[w].op.op = "strand"
      /\ UNCHANGED <<acquired, locked, waiting, order>>
  BY DEF CallReady, opUnchanged, Busy
<1>2. PICK t \in Strand : t = worker[w].op.s /\ worker[w].op = Scheduled(t)
  BY <1>1, OpOfWorker, JobFields
<1>3. /\ ready[t] # <<>> /\ ready' = [ready EXCEPT ![t] = Tail(ready[t])]
      /\ begun' = [begun EXCEPT ![t] = Append(begun[t], Head(ready[t]))]
  BY <1>2 DEF CallReady
<1>4. /\ ready'[t] = Tail(ready[t]) /\ begun'[t] = Append(begun[t], Head(ready[t]))
      /\ \A s \in Strand \ {t} : ready'[s] = ready[s] /\ begun'[s] = begun[s]
  BY <1>3 DEF Types, StrandTypes
<1>5. worker'[w].pc = "call" /\ \A v \in Worker \ {w} : worker'[v] = worker[v]
  <2>1. worker' = [worker EXCEPT ![w] = [worker[w] EXCEPT !.pc = "call", !.h = Head(ready[worker[w].op.s])]]
    BY DEF CallReady
  <2> QED
    BY <2>1 DEF Types, WorkerTypes, WorkerRec
<1>6. \A s \in Strand, v \in Worker : \/ worker'[v] = worker[v]
                                      \/ ~Taking(worker'[v], s) /\ ~Taking(worker[v], s)
  BY <1>1, <1>5 DEF Taking
<1>7. Holds(worker[w], t)
  BY <1>1, <1>2 DEF Holds
<1>8. /\ order[t] = Parts(begun[t], ready[t], waiting[t]) /\ locked[t]
      /\ ~Acquired(acquired, t) /\ \A v \in Worker : ~Taking(worker[v], t)
  BY <1>1, <1>7, BusyStrand
<1>9. /\ Parts(Append(begun[t], Head(ready[t])), Tail(ready[t]), waiting[t]) = order[t]
      /\ Len(begun[t]) < Len(order[t]) /\ order[t][Len(begun[t]) + 1] = Head(ready[t])
  <2>1. begun[t] \in Seq(Handler) /\ waiting[t] \in Seq(Handler) /\ ready[t] \in Seq(Handler)
    BY DEF Types, StrandTypes
  <2>2. PICK b \in Seq(Handler), n \in Seq(Handler), z \in Seq(Handler) :
          b = begun[t] /\ n = ready[t] /\ z = waiting[t]
    BY <2>1
  <2>3. n # <<>>
    BY <1>3, <2>2
  <2>4. /\ Parts(Append(b, Head(n)), Tail(n), z) = Parts(b, n, z)
        /\ Len(b) < Len(Parts(b, n, z)) /\ Parts(b, n, z)[Len(b) + 1] = Head(n)
    BY <2>3, PartsHandOn
  <2> QED
    BY <1>8, <2>2, <2>4
<1>10. OrderStep(t)
  <2>1. FifoStep(t)
    BY <1>1, <1>4, <1>9 DEF FifoStep
  <2>2. order'[t] = Parts(begun'[t], ready'[t], waiting'[t])
    BY <1>1, <1>4, <1>9
  <2>3. \A g \in Handler : <<g, t>> \notin acquired'
    BY <1>1, <1>8 DEF Acquired
  <2>4. \A v \in Worker : ~Taking(worker'[v], t)
    BY <1>6, <1>8
  <2> QED
    BY <1>1, <1>8, <2>1, <2>2, <2>3, <2>4 DEF OrderOK, OrderStep
<1>11. \A s \in Strand \ {t} : OrderStep(s)
  BY <1>1, <1>4, <1>6, OrderKept DEF OrderInv
<1> QED
  BY <1>10, <1>11

\* The strand is released, or keeps the handlers that waited.
LEMMA OrderReleased ==
  ASSUME Types, JobInv, PlaceInv, OrderInv, NEW w \in Worker, NEW t \in Strand,
         Holds(worker[w], t), worker[w].pc # "inline", worker'[w].pc # "inline",
         \A v \in Worker \ {w} : worker'[v] = worker[v],
         release_strand(t), UNCHANGED <<acquired, begun>>
  PROVE  \A s \in Strand : OrderStep(s)
<1>1. /\ ready'[t] = ready[t] \o waiting[t] /\ waiting'[t] = <<>>
      /\ locked'[t] = (ready'[t] # <<>>) /\ order' = order
      /\ \A s \in Strand \ {t} :
           ready'[s] = ready[s] /\ waiting'[s] = waiting[s] /\ locked'[s] = locked[s]
  BY ReleaseEffect DEF Types
<1>2. \A s \in Strand, v \in Worker : \/ worker'[v] = worker[v]
                                      \/ ~Taking(worker'[v], s) /\ ~Taking(worker[v], s)
  BY DEF Taking
<1>3. /\ order[t] = Parts(begun[t], ready[t], waiting[t])
      /\ ~Acquired(acquired, t) /\ \A v \in Worker : ~Taking(worker[v], t)
  BY BusyStrand
<1>4. Parts(begun[t], ready[t], waiting[t]) = Parts(begun[t], ready[t] \o waiting[t], <<>>)
  <2>1. begun[t] \in Seq(Handler) /\ waiting[t] \in Seq(Handler) /\ ready[t] \in Seq(Handler)
    BY DEF Types, StrandTypes
  <2> QED
    BY <2>1, PartsMerge
<1>5. OrderStep(t)
  <2>1. FifoStep(t)
    BY <1>1 DEF FifoStep
  <2>2. order'[t] = Parts(begun'[t], ready'[t], waiting'[t])
    BY <1>1, <1>3, <1>4
  <2>3. \A g \in Handler : <<g, t>> \notin acquired'
    BY <1>3 DEF Acquired
  <2>4. \A v \in Worker : ~Taking(worker'[v], t)
    BY <1>2, <1>3
  <2>5. ~locked'[t] => ready'[t] = <<>> /\ waiting'[t] = <<>>
    BY <1>1
  <2> QED
    BY <2>1, <2>2, <2>3, <2>4, <2>5 DEF OrderOK, OrderStep
<1>6. \A s \in Strand \ {t} : OrderStep(s)
  BY <1>1, <1>2, OrderKept DEF OrderInv
<1> QED
  BY <1>5, <1>6

LEMMA ExitOrder ==
  ASSUME Types, JobInv, PlaceInv, OrderInv, NEW w \in Worker, StrandExit(w) \/ DispatchExit(w)
  PROVE  \A s \in Strand : OrderStep(s)
<1>1. Goto(w, "cleanup") /\ "cleanup" \in Pc /\ UNCHANGED <<acquired, begun>>
      /\ worker[w].pc # "inline" /\ worker[w].pc \in Busy /\ release_strand(worker[w].op.s)
  BY DEF StrandExit, DispatchExit, Pc, Busy
<1>2. PICK t \in Strand : t = worker[w].op.s /\ Holds(worker[w], t)
  <2>1. CASE StrandExit(w)
    <3>1. worker[w].op.op = "strand" /\ worker[w].pc = "op"
      BY <2>1 DEF StrandExit
    <3>2. PICK t \in Strand : t = worker[w].op.s /\ worker[w].op = Scheduled(t)
      BY <1>1, <3>1, OpOfWorker, JobFields
    <3> QED
      BY <3>1, <3>2 DEF Holds
  <2>2. CASE DispatchExit(w)
    <3>1. worker[w].pc = "exit"
      BY <2>2 DEF DispatchExit
    <3>2. PICK t \in Strand : t = worker[w].op.s /\ worker[w].op.op = "handler"
      BY <3>1 DEF JobInv, WorkerOK
    <3> QED
      BY <3>1, <3>2 DEF Holds
  <2> QED
    BY <2>1, <2>2
<1>3. worker'[w].pc = "cleanup" /\ \A v \in Worker \ {w} : worker'[v] = worker[v]
  BY <1>1, GotoBecomes DEF Becomes, Types
<1> QED
  BY <1>1, <1>2, <1>3, OrderReleased

LEMMA StrandPostOrder ==
  ASSUME Types, JobInv, PlaceInv, OrderInv, NEW t \in Strand, StrandPost(t)
  PROVE  \A s \in Strand : OrderStep(s)
<1>1. PICK h \in Handler : h = handlers'
  BY MaxHandlersAssumption DEF StrandPost, NewHandler, Types, HandlerTypes, Handler
<1>2. order' = [order EXCEPT ![t] = Append(order[t], h)] /\ UNCHANGED <<worker, ready, begun>>
  BY <1>1 DEF StrandPost
<1>3. order'[t] = Append(order[t], h) /\ \A s \in Strand \ {t} : order'[s] = order[s]
  BY <1>2 DEF Types, StrandTypes
<1>4. CASE locked[t]
  <2>1. /\ UNCHANGED <<locked, acquired>> /\ waiting' = [waiting EXCEPT ![t] = Append(waiting[t], h)]
    BY <1>1, <1>4 DEF StrandPost
  <2>2. waiting'[t] = Append(waiting[t], h) /\ \A s \in Strand \ {t} : waiting'[s] = waiting[s]
    BY <2>1 DEF Types, StrandTypes
  <2>3. OrderStep(t)
    BY <1>2, <1>3, <1>4, <2>1, <2>2, OrderWaits
  <2>4. \A s \in Strand \ {t} : OrderStep(s)
    BY <1>2, <1>3, <2>1, <2>2, OrderKept DEF OrderInv
  <2> QED
    BY <2>3, <2>4
<1>5. CASE ~locked[t]
  <2>1. /\ acquired' = acquired \cup {<<h, t>>} /\ locked' = [locked EXCEPT ![t] = TRUE]
        /\ waiting' = waiting
    BY <1>1, <1>5 DEF StrandPost
  <2>2. locked'[t] = TRUE /\ \A s \in Strand \ {t} : locked'[s] = locked[s]
    BY <2>1 DEF Types, StrandTypes
  <2>3. /\ ready[t] = <<>> /\ waiting[t] = <<>> /\ order[t] = begun[t]
        /\ ~Acquired(acquired, t) /\ \A v \in Worker : ~Taking(worker[v], t)
    BY <1>5, FreeStrand
  <2>4. order'[t] = Parts(begun'[t], <<h>>, waiting'[t])
    <3>1. begun[t] \in Seq(Handler)
      BY DEF Types, StrandTypes
    <3>2. Parts(begun[t], <<h>>, <<>>) = Append(begun[t], h)
      BY <3>1, PartsOne
    <3> QED
      BY <1>2, <1>3, <2>1, <2>3, <3>2
  <2>5. OrderStep(t)
    <3>1. FifoStep(t)
      BY <1>2, <1>3 DEF FifoStep
    <3>2. Acquired(acquired', t) /\ \A g \in Handler : <<g, t>> \in acquired' => g = h
      BY <2>1, <2>3 DEF Acquired
    <3>3. \A v \in Worker : ~Taking(worker'[v], t)
      BY <1>2, <2>3
    <3> QED
      BY <1>2, <2>2, <2>3, <2>4, <3>1, <3>2, <3>3 DEF OrderOK, OrderStep
  <2>6. ASSUME NEW s \in Strand \ {t} PROVE OrderStep(s)
    <3>1. \A g \in Handler : <<g, s>> \in acquired' <=> <<g, s>> \in acquired
      BY <2>1
    <3> QED
      BY <1>2, <1>3, <2>1, <2>2, <3>1, OrderKept DEF OrderInv
  <2> QED
    BY <2>5, <2>6
<1> QED
  BY <1>4, <1>5

LEMMA ScheduleStrandOrder ==
  ASSUME Types, JobInv, PlaceInv, OrderInv, NEW h \in Handler, NEW t \in Strand,
         ScheduleStrand(h, t)
  PROVE  \A s \in Strand : OrderStep(s)
<1>1. /\ <<h, t>> \in acquired /\ acquired' = acquired \ {<<h, t>>}
      /\ UNCHANGED <<worker, locked, waiting, order, begun>>
      /\ ready' = [ready EXCEPT ![t] = Append(ready[t], h)]
  BY DEF ScheduleStrand
<1>2. ready'[t] = Append(ready[t], h) /\ \A s \in Strand \ {t} : ready'[s] = ready[s]
  BY <1>1 DEF Types, StrandTypes
<1>3. Acquired(acquired, t)
  BY <1>1 DEF Acquired
<1>4. ~Held(worker, t) /\ locked[t] /\ AcquiredOnce(acquired, t)
  BY <1>3 DEF PlaceInv, OnePlace
<1>5. \A v \in Worker : ~Taking(worker'[v], t)
  BY <1>1, <1>4, TakingHolds DEF Held
<1>6. \A g \in Handler : <<g, t>> \notin acquired'
  BY <1>1, <1>4 DEF AcquiredOnce
<1>7. ready[t] = <<>> /\ order[t] = Parts(begun[t], <<h>>, waiting[t])
  BY <1>1 DEF OrderInv, OrderOK
<1>8. ready'[t] = <<h>>
  BY <1>2, <1>7
<1>9. OrderStep(t)
  <2>1. FifoStep(t)
    BY <1>1 DEF FifoStep
  <2> QED
    BY <1>1, <1>4, <1>5, <1>6, <1>7, <1>8, <2>1 DEF OrderOK, OrderStep
<1>10. ASSUME NEW s \in Strand \ {t} PROVE OrderStep(s)
  <2>1. \A g \in Handler : <<g, s>> \in acquired' <=> <<g, s>> \in acquired
    BY <1>1
  <2> QED
    BY <1>1, <1>2, <2>1, OrderKept DEF OrderInv
<1> QED
  BY <1>9, <1>10

\* Every step is a step of each strand's history, and keeps the order.
LEMMA OrderNext ==
  ASSUME Types, JobInv, PlaceInv, OrderInv, Next
  PROVE  \A s \in Strand : OrderStep(s)
<1> DEFINE Kept == \A s \in Strand : OrderStep(s)
<1> USE DEF Types
<1>1. ASSUME NEW w \in Worker, EnterRun(w) PROVE Kept
  <2>1. PICK pc \in {"stop", "run"} : Goto(w, pc)
    BY <1>1, Zenon DEF EnterRun
  <2>2. pc \in Pc /\ pc # "inline" /\ worker[w].pc # "inline"
        /\ UNCHANGED <<locked, waiting, ready, order, begun, acquired>>
    BY <1>1 DEF Pc, EnterRun, loopUnchanged, strandVars
  <2> QED
    BY <2>1, <2>2, GotoBecomes, OrderQuietWorker
<1>2. ASSUME NEW w \in Worker, Wake(w) PROVE Kept
  <2>1. PICK pc \in {"locked", "wait"} : Goto(w, pc)
    BY <1>2, Zenon DEF Wake
  <2>2. pc \in Pc /\ pc # "inline" /\ worker[w].pc # "inline"
        /\ UNCHANGED <<locked, waiting, ready, order, begun, acquired>>
    BY <1>2 DEF Pc, Wake, strandVars
  <2> QED
    BY <2>1, <2>2, GotoBecomes, OrderQuietWorker
<1>3. ASSUME NEW w \in Worker, LeaveRun(w) PROVE Kept
  <2>1. Goto(w, "out") /\ "out" \in Pc /\ worker[w].pc # "inline"
        /\ UNCHANGED <<locked, waiting, ready, order, begun, acquired>>
    BY <1>3 DEF Pc, LeaveRun, AtLoop, loopUnchanged, strandVars
  <2> QED
    BY <2>1, GotoBecomes, OrderQuietWorker
<1>4. ASSUME NEW w \in Worker, RunTask(w) PROVE Kept
  <2>1. PICK pc \in {"poll", "block"} : Goto(w, pc)
    BY <1>4, Zenon DEF RunTask
  <2>2. pc \in Pc /\ pc # "inline" /\ worker[w].pc # "inline"
        /\ UNCHANGED <<locked, waiting, ready, order, begun, acquired>>
    BY <1>4 DEF Pc, RunTask, AtLoop, loopUnchanged, strandVars
  <2> QED
    BY <2>1, <2>2, GotoBecomes, OrderQuietWorker
<1>5. ASSUME NEW w \in Worker, TakeOp(w) PROVE Kept
  <2>1. worker' = [worker EXCEPT ![w] = [pc |-> "op", op |-> Head(opQueue), h |-> 0]]
        /\ worker[w].pc # "inline"
        /\ UNCHANGED <<locked, waiting, ready, order, begun, acquired>>
    BY <1>5 DEF TakeOp, AtLoop, loopUnchanged, strandVars
  <2>2. worker'[w].pc = "op" /\ \A v \in Worker \ {w} : worker'[v] = worker[v]
    BY <2>1 DEF WorkerTypes
  <2> QED
    BY <2>1, <2>2, OrderQuiet
<1>6. ASSUME NEW w \in Worker, Sleep(w) PROVE Kept
  <2>1. Goto(w, "wait") /\ "wait" \in Pc /\ worker[w].pc # "inline"
        /\ UNCHANGED <<locked, waiting, ready, order, begun, acquired>>
    BY <1>6 DEF Pc, Sleep, AtLoop, loopUnchanged, strandVars
  <2> QED
    BY <2>1, GotoBecomes, OrderQuietWorker
<1>7. ASSUME NEW w \in Worker, TaskCleanup(w) PROVE Kept
  <2>1. Goto(w, "locked") /\ "locked" \in Pc /\ worker[w].pc # "inline"
        /\ UNCHANGED <<locked, waiting, ready, order, begun, acquired>>
    BY <1>7 DEF Pc, TaskCleanup, strandVars
  <2> QED
    BY <2>1, GotoBecomes, OrderQuietWorker
<1>8. ASSUME NEW w \in Worker, WorkCleanup(w) PROVE Kept
  <2>1. PICK pc \in {"stop", "run", "locked"} : Goto(w, pc)
    BY <1>8, Zenon DEF WorkCleanup
  <2>2. pc \in Pc /\ pc # "inline" /\ worker[w].pc # "inline"
        /\ UNCHANGED <<locked, waiting, ready, order, begun, acquired>>
    BY <1>8 DEF Pc, WorkCleanup, strandVars
  <2> QED
    BY <2>1, <2>2, GotoBecomes, OrderQuietWorker
<1>9. ASSUME NEW w \in Worker, Stop \/ (worker[w].pc = "stop" /\ WorkFinished(w)) PROVE Kept
  <2>1. \A v \in Worker : \/ worker'[v] = worker[v]
                          \/ worker[v].pc = "wait" /\ worker'[v].pc = "woken"
                          \/ worker[v].pc = "stop" /\ worker'[v].pc = "run"
    BY <1>9, StopPlaces
  <2>2. \A v \in Worker : \/ worker'[v] = worker[v]
                          \/ worker'[v].pc # "inline" /\ worker[v].pc # "inline"
    BY <2>1
  <2>3. UNCHANGED <<locked, waiting, ready, order, begun, acquired>>
    BY <1>9 DEF Stop, WorkFinished, loopUnchanged, strandVars
  <2> QED
    BY <2>2, <2>3, OrderQuiet
<1>10. ASSUME NEW w \in Worker, CallPlain(w) \/ HandlerReturns(w) PROVE Kept
  <2>1. PICK pc \in Busy, h \in 0..MaxHandlers : Becomes(w, pc, worker[w].op, h)
    BY <1>10, BusyStep
  <2>2. worker[w].pc # "inline" /\ UNCHANGED <<locked, waiting, ready, order, begun, acquired>>
    BY <1>10 DEF CallPlain, HandlerReturns, opUnchanged, strandVars
  <2>3. worker'[w].pc # "inline" /\ \A v \in Worker \ {w} : worker'[v] = worker[v]
    <3>1. CASE CallPlain(w)
      <4>1. worker' = [worker EXCEPT ![w] = [worker[w] EXCEPT !.pc = "call", !.h = worker[w].op.h]]
        BY <3>1 DEF CallPlain
      <4> QED
        BY <4>1 DEF WorkerTypes, WorkerRec
    <3>2. CASE HandlerReturns(w)
      <4>1. PICK q \in {"op", "exit", "cleanup"} : Goto(w, q)
        BY <3>2, Zenon DEF HandlerReturns
      <4>2. q \in Pc /\ q # "inline"
        BY DEF Pc
      <4> QED
        BY <4>1, <4>2, GotoBecomes DEF Becomes
    <3> QED
      BY <1>10, <3>1, <3>2
  <2> QED
    BY <2>2, <2>3, OrderQuiet
<1>11. ASSUME NEW w \in Worker, EpollReturns(w) \/ SpuriousWakeup(w) PROVE Kept
  <2>1. PICK pc \in {"polled", "woken"} : Goto(w, pc)
    BY <1>11, Zenon DEF EpollReturns, SpuriousWakeup
  <2>2. pc \in Pc /\ pc # "inline" /\ worker[w].pc # "inline"
        /\ UNCHANGED <<locked, waiting, ready, order, begun, acquired>>
    BY <1>11 DEF Pc, EpollReturns, SpuriousWakeup, strandVars
  <2> QED
    BY <2>1, <2>2, GotoBecomes, OrderQuietWorker
<1>12. ASSUME CondSignal PROVE Kept
  <2>1. UNCHANGED <<locked, waiting, ready, order, begun, acquired>>
    BY <1>12 DEF CondSignal, strandVars
  <2>2. ASSUME NEW v \in Worker, worker[v].pc = "wait", Goto(v, "woken") PROVE Kept
    <3>1. "woken" \in Pc /\ worker[v].pc # "inline"
      BY <2>2 DEF Pc
    <3> QED
      BY <2>1, <2>2, <3>1, GotoBecomes, OrderQuietWorker
  <2>3. CASE worker' = worker
    BY <2>1, <2>3, OrderQuiet
  <2> QED
    BY <1>12, <2>2, <2>3 DEF CondSignal
<1>13. CASE \E s \in Strand \cup {NoStrand} :
              Post(s) \/ StartIo(s) \/ \E w \in Worker : Continue(w, s)
  <2>1. UNCHANGED <<locked, waiting, ready, order, begun, acquired>> /\ worker' = worker
    BY <1>13 DEF Post, StartIo, Continue, strandVars
  <2> QED
    BY <2>1, OrderQuiet
<1>14. ASSUME Stop PROVE Kept
  <2>1. CASE Worker = {}
    <3>1. UNCHANGED <<locked, waiting, ready, order, begun, acquired>>
      BY <1>14 DEF Stop, loopUnchanged, strandVars
    <3> QED
      BY <2>1, <3>1, OrderQuiet
  <2>2. CASE Worker # {}
    BY <1>9, <1>14, <2>2
  <2> QED
    BY <2>1, <2>2
<1>15. ASSUME NEW w \in Worker, WorkerStep(w) PROVE Kept
  <2>1. WorkFinished(w) => worker[w].pc = "stop"
    BY DEF WorkFinished
  <2> QED
    BY <1>1, <1>2, <1>3, <1>4, <1>5, <1>6, <1>7, <1>8, <1>9, <1>10, <1>15, <2>1,
       DispatchOrder, CallInlineOrder, CallReadyOrder, ExitOrder DEF WorkerStep
<1> QED
  BY <1>11, <1>12, <1>13, <1>14, <1>15, StrandPostOrder, ScheduleStrandOrder DEF Next

-----------------------------------------------------------------------------
(* The invariant holds and gives the properties.                           *)

LEMMA InitIoInv ==
  ASSUME Init
  PROVE  IoInv
<1>1. Types /\ JobInv
  BY InitTypes
<1>2. \A w \in Worker : worker[w].pc = "start" /\ privateQueue[w] = <<>>
  BY DEF Init
<1>3. opQueue = <<Task>> /\ DOMAIN opQueue = {1} /\ opQueue[1] = Task
  BY DEF Init
<1>4. ReactorInv
  BY <1>2, <1>3 DEF Init, ReactorInv, AtMostOnce, InReactor
<1>5. WakeInv
  BY <1>2 DEF WakeInv, Asleep
<1>6. PlaceInv
  <2> SUFFICES ASSUME NEW s \in Strand
               PROVE  OnePlace(acquired, opQueue, privateQueue, worker, locked[s], s)
    BY DEF PlaceInv
  <2>1. acquired = {} /\ locked[s] = FALSE
    BY DEF Init
  <2>2. ~Acquired(acquired, s) /\ AcquiredOnce(acquired, s)
    BY <2>1 DEF Acquired, AcquiredOnce
  <2>3. ~In(opQueue, Scheduled(s)) /\ AtMostOnce(opQueue, Scheduled(s))
    BY <1>3, OpKinds DEF In, AtMostOnce
  <2>4. ~InPrivate(privateQueue, s) /\ PrivateOnce(privateQueue, s)
    BY <1>2 DEF InPrivate, PrivateOnce, In, AtMostOnce
  <2>5. ~Held(worker, s) /\ HeldOnce(worker, s)
    BY <1>2 DEF Held, HeldOnce, Holds
  <2> QED
    BY <2>1, <2>2, <2>3, <2>4, <2>5 DEF OnePlace
<1>7. OrderInv
  <2> SUFFICES ASSUME NEW s \in Strand
               PROVE  OrderOK(locked[s], acquired, worker, ready[s], waiting[s], order[s], begun[s], s)
    BY DEF OrderInv
  <2>1. acquired = {} /\ ready[s] = <<>> /\ waiting[s] = <<>> /\ order[s] = <<>> /\ begun[s] = <<>>
    BY DEF Init
  <2>2. Parts(<<>>, <<>>, <<>>) = <<>>
    BY DEF Parts
  <2>3. \A w \in Worker : ~Taking(worker[w], s)
    BY <1>2 DEF Taking
  <2> QED
    BY <2>1, <2>2, <2>3 DEF OrderOK
<1>8. WorkInv /\ work \in Nat
  <2>1. Running = {} /\ Found = {} /\ Queued = {}
    BY <1>2, <1>3 DEF Running, Found, Queued
  <2>2. Cardinality(pendingIo) = 1 /\ work = 1
    BY FS_Singleton DEF Init
  <2>3. Cardinality({}) = 0 /\ IsFiniteSet({})
    BY FS_EmptySet
  <2> QED
    BY <2>1, <2>2, <2>3 DEF WorkInv, WorkExact
<1> QED
  BY <1>1, <1>4, <1>5, <1>6, <1>7, <1>8 DEF IoInv

LEMMA NextIoInv ==
  ASSUME IoInv, Next
  PROVE  IoInv' /\ \A s \in Strand : FifoStep(s)
<1>1. Types /\ JobInv /\ ReactorInv /\ WakeInv /\ PlaceInv /\ OrderInv /\ work \in Nat /\ WorkInv
  BY DEF IoInv
<1>2. Types' /\ JobInv'
  BY <1>1, TypesNext
<1>3. ReactorInv' /\ WakeInv'
  BY <1>1, ReactorWakeNext DEF ReactorWake
<1>4. PlaceInv'
  BY <1>1, PlaceNext
<1>5. \A s \in Strand : OrderStep(s)
  BY <1>1, OrderNext
<1>6. OrderInv' /\ \A s \in Strand : FifoStep(s)
  BY <1>5 DEF OrderInv, OrderStep
<1>7. WorkInv'
  BY <1>1, WorkNext
<1>8. (JobInv /\ WorkInv => work \in Nat)'
  BY WorkNat, PTL
<1> QED
  BY <1>2, <1>3, <1>4, <1>6, <1>7, <1>8 DEF IoInv

LEMMA StutterIoInv ==
  ASSUME IoInv, UNCHANGED vars
  PROVE  IoInv'
<1>1. /\ UNCHANGED <<opQueue, event, signals, taskInterrupted, interrupt, stopped, privateQueue>>
      /\ UNCHANGED <<work, worker, pendingIo, locked, waiting, ready, order, acquired>>
      /\ UNCHANGED <<handlers, begun, ended>>
  BY DEF vars, queueVars, strandVars
<1>2. Types' /\ JobInv'
  BY <1>1 DEF IoInv, Types, QueueTypes, WorkerTypes, StrandTypes, HandlerTypes, JobInv
<1>3. ReactorInv' /\ WakeInv'
  BY <1>1 DEF IoInv, ReactorInv, WakeInv, Asleep, Arriving
<1>4. PlaceInv' /\ OrderInv'
  BY <1>1 DEF IoInv, PlaceInv, OrderInv
<1>5. Running' = Running /\ Found' = Found /\ Queued' = Queued
  BY <1>1 DEF Running, Found, Queued
<1>6. WorkInv' /\ work' \in Nat
  BY <1>1, <1>5 DEF IoInv, WorkInv, WorkExact
<1> QED
  BY <1>2, <1>3, <1>4, <1>6 DEF IoInv

\* IoInv is an invariant of the io_service: where each operation may be, the reactor's
\* mark and its one thread, the wakeups, the one place of a strand, the order of
\* its handlers and the count of work.
THEOREM IoServiceInvariant == Spec => []IoInv
<1>1. Init => IoInv
  BY InitIoInv
<1>2. IoInv /\ [Next]_vars => IoInv'
  BY NextIoInv, StutterIoInv
<1> QED
  BY <1>1, <1>2, PTL DEF Spec

LEMMA IoInvTypes == IoInv => TypeOK
<1> SUFFICES ASSUME IoInv PROVE TypeOK
  OBVIOUS
<1>1. Types /\ JobInv /\ work \in Nat
  BY DEF IoInv
<1>2. Jobs \subseteq Op /\ Jobs \cup {Task} \subseteq Op
  BY OpKinds
<1>3. opQueue \in Seq(Op)
  BY <1>1, <1>2, SeqMonotonic DEF JobInv
<1>4. privateQueue \in [Worker -> Seq(Op)]
  <2>1. \A w \in Worker : privateQueue[w] \in Seq(Op)
    BY <1>1, <1>2, SeqMonotonic DEF JobInv
  <2> QED
    BY <1>1, <2>1 DEF JobInv
<1>5. pendingIo \subseteq Op
  BY <1>1, <1>2 DEF JobInv
<1> QED
  BY <1>1, <1>3, <1>4, <1>5 DEF TypeOK, Types, QueueTypes, WorkerTypes, WorkerRec, StrandTypes,
                                HandlerTypes

\* The queues hold operations, the workers are where their loop can be, and each
\* member of a strand is a queue of handlers, in every state task_io_service and
\* strand_service can reach.
THEOREM IoServiceTypes == Spec => []TypeOK
BY IoServiceInvariant, IoInvTypes, PTL

\* locked_ of a strand is true exactly when the strand is in one place, and it is
\* never in two, for any number of threads in run(), of strands and of handlers.
THEOREM StrandScheduledOnce == Spec => []ScheduledOnce
<1>1. IoInv => ScheduledOnce
  BY OnePlaceScheduled DEF IoInv
<1> QED
  BY <1>1, IoServiceInvariant, PTL

\* While an operation is queued and a thread sleeps, another is on its way to the
\* queue or is being woken: the wakeups of wake_one_thread_and_unlock() and of
\* unlock_and_signal_one() are enough.
THEOREM WakeupsKept == Spec => []NoLostWakeup
<1>1. IoInv => NoLostWakeup
  <2>1. \A w \in Worker : Arriving(worker[w]) => Coming(w)
    BY DEF Arriving, Coming
  <2> QED
    BY <2>1 DEF IoInv, WakeInv, NoLostWakeup
<1> QED
  BY <1>1, IoServiceInvariant, PTL

\* outstanding_work_ is the number of operations queued, running, found by the
\* reactor and pending, whichever thread counts them up and down.
THEOREM WorkCounted == Spec => []WorkExact
<1>1. IoInv => WorkExact
  BY DEF IoInv, WorkInv
<1> QED
  BY <1>1, IoServiceInvariant, PTL

\* A strand calls its handlers once each, in the order they were posted or
\* dispatched: the histories of every strand are those of a FifoStream.
THEOREM StrandOrder == Spec => StrandFifo
<1>1. Init => \A s \in Strand : Fifo(s)!Init
  <2> SUFFICES ASSUME Init, NEW s \in Strand PROVE Fifo(s)!Init
    OBVIOUS
  <2> QED
    BY DEF Init, Fifo!Init
<1>2. ASSUME IoInv, [Next]_vars
      PROVE  [\A s \in Strand : Fifo(s)!Next \/ UNCHANGED Fifo(s)!vars]_<<order, begun>>
  <2>1. CASE UNCHANGED vars
    BY <2>1 DEF vars, strandVars
  <2>2. CASE Next
    <3> SUFFICES ASSUME NEW s \in Strand PROVE Fifo(s)!Next \/ UNCHANGED Fifo(s)!vars
      OBVIOUS
    <3>1. FifoStep(s)
      BY <1>2, <2>2, NextIoInv
    <3> QED
      BY <3>1 DEF FifoStep, Fifo!Next, Fifo!Accept, Fifo!Deliver, Fifo!vars
  <2> QED
    BY <1>2, <2>1, <2>2
<1> QED
  BY <1>1, <1>2, IoServiceInvariant, PTL DEF Spec, StrandFifo
=============================================================================
