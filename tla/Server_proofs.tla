--------------------------- MODULE Server_proofs ---------------------------
(***************************************************************************)
(* Proofs about Server, for any number of sessions, workers, messages and  *)
(* calls of close_sessions().                                              *)
(***************************************************************************)
EXTENDS Server, SequenceTheorems, TLAPS

AcceptJobs == {j \in jobs : j.job \in {"accept", "aborted"}}

\* One async_accept is outstanding, or its completion waits, or its handler
\* runs: never two of them.
OneAccept ==
  /\ \A j, k \in AcceptJobs : j = k
  /\ AcceptJobs # {} => accepting = 0
  /\ \A w \in Worker : worker[w].job = "accept" =>
       /\ accepting = 0 /\ AcceptJobs = {}
       /\ \A v \in Worker : worker[v].job = "accept" => v = w

AcceptInv == TypeOK /\ OneAccept
-----------------------------------------------------------------------------
(* Facts about the records of the model.                                   *)

\* What a worker is in tells which fields its record has.
LEMMA ActivityFields ==
  ASSUME NEW a \in Activity
  PROVE  /\ a.job = "accept" => a.s \in Session
         /\ a.job = "read" => a.s \in Session /\ a.left \in Seq(Msg)
                              /\ a = [job |-> "read", s |-> a.s, left |-> a.left]
         /\ a.job = "handler" => a.s \in Session /\ a.m \in Msg
         /\ a.job = "post" => a.s \in Session /\ a.tasks \in Seq(Task)
                              /\ a = [job |-> "post", s |-> a.s, tasks |-> a.tasks]
         /\ a.job = "closing" => a.s \in Session /\ a.copy \in SUBSET Session
                              /\ a = [job |-> "closing", s |-> a.s, copy |-> a.copy]
BY DEF Activity

\* The records a worker may be given.
LEMMA ActivityIn ==
  /\ Idle \in Activity /\ [job |-> "off"] \in Activity
  /\ \A s \in Session, q \in Seq(Msg) : [job |-> "read", s |-> s, left |-> q] \in Activity
  /\ \A s \in Session, q \in Seq(Task) : [job |-> "post", s |-> s, tasks |-> q] \in Activity
  /\ \A s \in Session, c \in SUBSET Session :
       [job |-> "closing", s |-> s, copy |-> c] \in Activity
  /\ \A j \in Job : j.job \in {"accept", "handler"} => j \in Activity
<1>1. \A j \in Job : j.job \in {"accept", "handler"} => j \in Activity
  BY DEF Job, Activity
<1> QED
  BY <1>1 DEF Activity, Idle

\* A worker that changes to another record.
LEMMA WorkerMoves ==
  ASSUME worker \in [Worker -> Activity], NEW w \in Worker, NEW r \in Activity,
         r.job # "accept", worker' = [worker EXCEPT ![w] = r]
  PROVE  /\ worker' \in [Worker -> Activity] /\ worker'[w] = r
         /\ \A v \in Worker : v # w => worker'[v] = worker[v]
         /\ \A v \in Worker : worker'[v].job = "accept" => worker[v].job = "accept"
OBVIOUS

\* What a job is tells which fields its record has.
LEMMA JobFields ==
  ASSUME NEW j \in Job
  PROVE  /\ j.job \in {"accept", "handler"} => j.s \in Session
         /\ j.job = "aborted" => j = [job |-> "aborted"]
         /\ j.job = "read" => j.s \in Session /\ j.chunk \in Seq(Msg)
         /\ j.job = "handler" => j.m \in Msg
BY DEF Job

\* The jobs that are made.
LEMMA JobIn ==
  /\ [job |-> "aborted"] \in Job
  /\ \A s \in Session : [job |-> "accept", s |-> s] \in Job
  /\ \A s \in Session, m \in Msg : [job |-> "handler", s |-> s, m |-> m] \in Job
  /\ \A s \in Session, q \in Seq(Msg), e \in {"ok", "eof", "other"} :
       [job |-> "read", s |-> s, ec |-> e, chunk |-> q] \in Job
BY DEF Job

\* The tasks that are posted.
LEMMA TasksIn ==
  /\ CloseTasks \in Seq(Task)
  /\ \A w \in Worker, m \in Msg, b \in Behaviour :
       /\ HandlerTasks(w, m, b) \in Seq(Task)
       /\ \A i \in DOMAIN HandlerTasks(w, m, b) :
            HandlerTasks(w, m, b)[i].task # "close_session"
<1>1. CloseTasks \in Seq(Task)
  <2>1. [task |-> "close_socket"] \in Task /\ [task |-> "close_session"] \in Task
    BY DEF Task
  <2> QED
    BY <2>1 DEF CloseTasks
<1>2. ASSUME NEW w \in Worker, NEW m \in Msg, NEW b \in Behaviour
      PROVE  /\ HandlerTasks(w, m, b) \in Seq(Task)
             /\ \A i \in DOMAIN HandlerTasks(w, m, b) :
                  HandlerTasks(w, m, b)[i].task # "close_session"
  <2> DEFINE S == {t \in Task : t.task # "close_session"}
             t1 == [task |-> "write", m |-> m, special |-> b.reply = "special", owner |-> w]
             t2 == [task |-> "close", m |-> m]
             t3 == [task |-> "close_sessions"]
             q1 == IF b.reply \in {"plain", "special"} THEN <<t1>> ELSE <<>>
             q2 == IF b.exit THEN <<t2>> ELSE <<>>
             q3 == IF b.stop THEN <<t3>> ELSE <<>>
  <2>1. t1 \in Task /\ t2 \in Task /\ t3 \in Task
    BY DEF Task
  <2>2. t1 \in S /\ t2 \in S /\ t3 \in S
    BY <2>1
  <2>3. HandlerTasks(w, m, b) = q1 \o q2 \o q3
    BY DEF HandlerTasks
  <2> HIDE DEF S, t1, t2, t3
  <2>4. q1 \in Seq(S) /\ q2 \in Seq(S) /\ q3 \in Seq(S)
    BY <2>2
  <2> HIDE DEF q1, q2, q3
  <2>5. HandlerTasks(w, m, b) \in Seq(S)
    BY <2>3, <2>4
  <2>6. \A i \in DOMAIN HandlerTasks(w, m, b) : HandlerTasks(w, m, b)[i] \in S
    BY <2>5
  <2>7. S \subseteq Task /\ \A t \in S : t.task # "close_session"
    BY DEF S
  <2>8. Seq(S) \subseteq Seq(Task)
    BY <2>7
  <2> QED
    BY <2>5, <2>6, <2>7, <2>8
<1> QED
  BY <1>1, <1>2
-----------------------------------------------------------------------------
(* Types, and the one accept.                                              *)

\* Taking a job, or going on with it, in the acceptor.
LEMMA AcceptorTypes ==
  ASSUME AcceptInv, NEW w \in Worker,
         Accept(w) \/ AcceptThrows(w) \/ AcceptDone(w) \/ AcceptAborted(w)
  PROVE  AcceptInv'
<1> USE DEF localVars, sessionVars, clientVars, userVars, historyVars
<1>1. TypeOK /\ OneAccept
  BY DEF AcceptInv
<1>2. CASE Accept(w)
  <2>1. PICK j \in jobs : /\ j.job = "accept" /\ jobs' = jobs \ {j}
                          /\ worker' = [worker EXCEPT ![w] = j]
                          /\ reader' = [reader EXCEPT ![j.s] = "armed"]
    BY <1>2 DEF Accept
  <2>2. j \in Job /\ j \in Activity /\ worker \in [Worker -> Activity]
    BY <1>1, <2>1, ActivityIn DEF TypeOK
  <2>3. worker' \in [Worker -> Activity]
    BY <2>1, <2>2
  <2>4. reader' \in [Session -> {"none", "armed", "due"}]
    BY <1>1, <2>1 DEF TypeOK
  <2>5. \A k \in jobs' : k \in Job
    BY <1>1, <2>1 DEF TypeOK
  <2>6. TypeOK'
    BY <1>1, <1>2, <2>3, <2>4, <2>5 DEF TypeOK, Accept
  <2>7. OneAccept'
    <3>1. accepting = 0 /\ AcceptJobs' = {} /\ accepting' = accepting
      BY <1>1, <1>2, <2>1 DEF OneAccept, AcceptJobs, Accept
    <3>2. \A v \in Worker : worker[v].job # "accept"
      BY <1>1, <2>1 DEF OneAccept, AcceptJobs
    <3>3. \A v \in Worker : v # w => worker'[v] = worker[v]
      BY <2>1, <2>2
    <3> QED
      BY <3>1, <3>2, <3>3 DEF OneAccept
  <2> QED
    BY <2>6, <2>7 DEF AcceptInv
<1>3. CASE AcceptThrows(w)
  <2>1. TypeOK'
    <3>1. worker' \in [Worker -> Activity]
      BY <1>3, ActivityIn DEF AcceptThrows
    <3>2. strand' \in [Session -> Seq(Task)]
      <4>1. <<>> \in Seq(Task)
        OBVIOUS
      <4> QED
        BY <1>3, <4>1 DEF AcceptThrows
    <3>3. reader' \in [Session -> {"none", "armed", "due"}]
      BY <1>3 DEF AcceptThrows
    <3>4. UNCHANGED <<stopping, object, exit, socket, queue, client, inbox, msgs, closes, written,
                      replied, closer, stopAsked>>
      BY <1>3 DEF AcceptThrows
    <3>5. running' \in BOOLEAN
      BY <1>3 DEF AcceptThrows
    <3>6. accepting' \in 0..1
      BY <1>3 DEF AcceptThrows
    <3>7. sessions' \subseteq Session /\ copy' \subseteq Session /\ \A j \in jobs' : j \in Job
      BY <1>3 DEF AcceptThrows
    <3>8. faults' \subseteq {"session", "object", "terminate"}
      BY <1>1, <1>3 DEF TypeOK, AcceptThrows
    <3>9. sending' \in [Session -> BOOLEAN]
      BY <1>3 DEF AcceptThrows
    <3> QED
      BY <1>1, <3>1, <3>2, <3>3, <3>4, <3>5, <3>6, <3>7, <3>8, <3>9 DEF TypeOK
  <2>2. OneAccept'
    BY <1>3 DEF OneAccept, AcceptJobs, AcceptThrows
  <2> QED
    BY <2>1, <2>2 DEF AcceptInv
<1>4. CASE AcceptDone(w)
  <2>1. worker \in [Worker -> Activity] /\ worker[w].s \in Session
    BY <1>1, <1>4, ActivityFields DEF TypeOK, AcceptDone
  <2>2. accepting = 0 /\ AcceptJobs = {} /\ \A v \in Worker : v # w => worker[v].job # "accept"
    BY <1>1, <1>4 DEF OneAccept, AcceptDone
  <2>3. worker' \in [Worker -> Activity] /\ worker'[w] = Idle
        /\ \A v \in Worker : v # w => worker'[v] = worker[v]
    BY <1>4, <2>1, ActivityIn DEF AcceptDone, Finish
  <2>4. TypeOK'
    BY <1>1, <1>4, <2>1, <2>2, <2>3 DEF TypeOK, AcceptDone
  <2>5. OneAccept'
    <3>1. AcceptJobs' = {}
      BY <1>4, <2>2 DEF AcceptJobs, AcceptDone
    <3> QED
      BY <2>2, <2>3, <3>1 DEF OneAccept, Idle
  <2> QED
    BY <2>4, <2>5 DEF AcceptInv
<1>5. CASE AcceptAborted(w)
  <2>1. accepting = 0 /\ \A v \in Worker : worker[v].job # "accept"
    BY <1>1, <1>5 DEF OneAccept, AcceptJobs, AcceptAborted
  <2>2. AcceptJobs' = {}
    BY <1>1, <1>5 DEF OneAccept, AcceptJobs, AcceptAborted
  <2>3. TypeOK'
    BY <1>1, <1>5, <2>1 DEF TypeOK, AcceptAborted
  <2> QED
    BY <1>5, <2>1, <2>2, <2>3 DEF AcceptInv, OneAccept, AcceptAborted
<1> QED
  BY <1>2, <1>3, <1>4, <1>5

\* A handler that posts a task goes on with the others.
LEMMA PostsOn ==
  ASSUME worker \in [Worker -> Activity], NEW w \in Worker, HandlerPosts(w),
         worker[w].tasks # <<>>
  PROVE  /\ strand' = [strand EXCEPT ![worker[w].s] = Append(@, Head(worker[w].tasks))]
         /\ worker' = [worker EXCEPT ![w] = [job |-> "post", s |-> worker[w].s,
                                             tasks |-> Tail(worker[w].tasks)]]
<1> DEFINE s == worker[w].s
<1> DEFINE q == worker[w].tasks
<1>0. worker[w] \in Activity /\ worker[w].job = "post"
  BY DEF HandlerPosts
<1>1. worker[w] = [job |-> "post", s |-> s, tasks |-> q]
  BY <1>0, ActivityFields
<1>2. ASSUME NEW t, NEW u, NEW v
      PROVE  [[job |-> "post", s |-> t, tasks |-> u] EXCEPT !.tasks = v]
               = [job |-> "post", s |-> t, tasks |-> v]
  OBVIOUS
<1>3. worker' = [worker EXCEPT ![w] = [worker[w] EXCEPT !.tasks = Tail(worker[w].tasks)]]
  BY DEF HandlerPosts
<1>4. [worker[w] EXCEPT !.tasks = Tail(q)] = [job |-> "post", s |-> s, tasks |-> Tail(q)]
  BY <1>1, <1>2
<1>5. strand' = [strand EXCEPT ![worker[w].s] = Append(@, Head(worker[w].tasks))]
  BY DEF HandlerPosts
<1> QED
  BY <1>3, <1>4, <1>5

\* A step that leaves accepts alone.
LEMMA AcceptsKept ==
  ASSUME OneAccept, accepting' = accepting, AcceptJobs' = AcceptJobs,
         \A v \in Worker : worker'[v].job = "accept" => worker[v].job = "accept"
  PROVE  OneAccept'
BY DEF OneAccept

\* The read loop.
LEMMA ReaderTypes ==
  ASSUME AcceptInv, NEW w \in Worker,
         (\E s \in Session : Read(w, s)) \/ ReadLoop(w) \/ ReadEnd(w)
  PROVE  AcceptInv'
<1> USE DEF localVars, sessionVars, clientVars, userVars, historyVars
<1>1. TypeOK /\ OneAccept
  BY DEF AcceptInv
<1>2. worker \in [Worker -> Activity]
  BY <1>1 DEF TypeOK
<1>3. ASSUME NEW s \in Session, Read(w, s) PROVE AcceptInv'
  <2>1. PICK j \in jobs :
          /\ j.job = "read" /\ j.s = s /\ jobs' = jobs \ {j}
          /\ IF ~exit[s] /\ j.ec = "ok"
             THEN /\ worker' = [worker EXCEPT ![w] = [job |-> "read", s |-> s,
                                                      left |-> j.chunk]]
                  /\ UNCHANGED <<reader, exit, strand>>
             ELSE /\ reader' = [reader EXCEPT ![s] = "none"]
                  /\ IF ~exit[s] /\ j.ec = "eof" THEN close(s, strand[s])
                                                 ELSE UNCHANGED <<exit, strand>>
                  /\ UNCHANGED worker
    BY <1>3 DEF Read
  <2>2. j \in Job /\ j.chunk \in Seq(Msg)
    BY <1>1, <2>1, JobFields DEF TypeOK
  <2>3. worker' \in [Worker -> Activity]
        /\ \A v \in Worker : worker'[v].job = "accept" => worker[v].job = "accept"
    BY <1>2, <2>1, <2>2, ActivityIn
  <2>4. reader' \in [Session -> {"none", "armed", "due"}]
    BY <1>1, <2>1 DEF TypeOK
  <2>5. exit' \in [Session -> BOOLEAN] /\ strand' \in [Session -> Seq(Task)]
    <3>1. strand[s] \in Seq(Task) /\ strand[s] \o CloseTasks \in Seq(Task)
      BY <1>1, TasksIn DEF TypeOK
    <3>2. exit \in [Session -> BOOLEAN] /\ strand \in [Session -> Seq(Task)]
      BY <1>1 DEF TypeOK
    <3>3. \/ UNCHANGED <<exit, strand>>
          \/ /\ exit' = [exit EXCEPT ![s] = TRUE]
             /\ strand' = [strand EXCEPT ![s] = strand[s] \o CloseTasks]
      BY <2>1 DEF close
    <3> QED
      BY <3>1, <3>2, <3>3
  <2>6. AcceptJobs' = AcceptJobs
    BY <2>1 DEF AcceptJobs
  <2>7. TypeOK'
    BY <1>1, <1>3, <2>1, <2>3, <2>4, <2>5 DEF TypeOK, Read
  <2>8. OneAccept'
    BY <1>1, <1>3, <2>3, <2>6, AcceptsKept DEF Read
  <2> QED
    BY <2>7, <2>8 DEF AcceptInv
<1>4. CASE ReadLoop(w)
  <2> DEFINE a == worker[w]
             h == [job |-> "handler", s |-> a.s, m |-> Head(a.left)]
  <2>1. a.s \in Session /\ a.left \in Seq(Msg) /\ a.left # <<>>
        /\ a = [job |-> "read", s |-> a.s, left |-> a.left]
    BY <1>2, <1>4, ActivityFields DEF ReadLoop
  <2>2. Head(a.left) \in Msg /\ Tail(a.left) \in Seq(Msg)
    BY <2>1
  <2>3. h \in Job
    BY <2>1, <2>2, JobIn
  <2>4. worker' = [worker EXCEPT ![w] = [job |-> "read", s |-> a.s, left |-> Tail(a.left)]]
    <3>1. [a EXCEPT !.left = Tail(a.left)] = [job |-> "read", s |-> a.s, left |-> Tail(a.left)]
      BY <2>1
    <3>2. worker' = [worker EXCEPT ![w] = [a EXCEPT !.left = Tail(a.left)]]
      BY <1>2, <1>4 DEF ReadLoop
    <3> QED
      BY <3>1, <3>2
  <2>5. worker' \in [Worker -> Activity]
        /\ \A v \in Worker : worker'[v].job = "accept" => worker[v].job = "accept"
    BY <1>2, <2>1, <2>2, <2>4, ActivityIn
  <2>6. jobs' = jobs \cup {h}
    BY <1>4 DEF ReadLoop
  <2>7. AcceptJobs' = AcceptJobs
    BY <2>6 DEF AcceptJobs
  <2> HIDE DEF h, a
  <2>8. TypeOK'
    BY <1>1, <1>4, <2>3, <2>5, <2>6 DEF TypeOK, ReadLoop
  <2>9. OneAccept'
    BY <1>1, <1>4, <2>5, <2>7, AcceptsKept DEF ReadLoop
  <2> QED
    BY <2>8, <2>9 DEF AcceptInv
<1>5. CASE ReadEnd(w)
  <2>1. worker' \in [Worker -> Activity]
        /\ \A v \in Worker : worker'[v].job = "accept" => worker[v].job = "accept"
    BY <1>2, <1>5, ActivityIn DEF ReadEnd, Finish, Idle
  <2>2. reader' \in [Session -> {"none", "armed", "due"}]
    BY <1>1, <1>5 DEF TypeOK, ReadEnd
  <2>3. TypeOK'
    BY <1>1, <1>5, <2>1, <2>2 DEF TypeOK, ReadEnd
  <2>4. AcceptJobs' = AcceptJobs
    BY <1>5 DEF AcceptJobs, ReadEnd
  <2>5. OneAccept'
    BY <1>1, <1>5, <2>1, <2>4, AcceptsKept DEF ReadEnd
  <2> QED
    BY <2>3, <2>5 DEF AcceptInv
<1> QED
  BY <1>3, <1>4, <1>5

\* The posted handlers.
LEMMA HandlerTypes ==
  ASSUME AcceptInv, NEW w \in Worker,
         \/ \E m \in Msg : HandlerBegins(w, m)
         \/ \E b \in Behaviour : HandlerReturns(w, b)
         \/ HandlerPosts(w)
  PROVE  AcceptInv'
<1> USE DEF localVars, sessionVars, clientVars, userVars, historyVars
<1>1. TypeOK /\ OneAccept
  BY DEF AcceptInv
<1>2. worker \in [Worker -> Activity]
  BY <1>1 DEF TypeOK
<1>3. ASSUME NEW m \in Msg, HandlerBegins(w, m) PROVE AcceptInv'
  <2>1. PICK j \in jobs : j.job = "handler" /\ jobs' = jobs \ {j}
                          /\ worker' = [worker EXCEPT ![w] = j]
    BY <1>3 DEF HandlerBegins
  <2>2. j \in Activity
    BY <1>1, <2>1, ActivityIn DEF TypeOK
  <2>3. worker' \in [Worker -> Activity]
        /\ \A v \in Worker : worker'[v].job = "accept" => worker[v].job = "accept"
    BY <1>2, <2>1, <2>2
  <2>4. stopping' \in [Worker -> BOOLEAN]
    BY <1>1, <1>3 DEF TypeOK, HandlerBegins
  <2>5. AcceptJobs' = AcceptJobs
    BY <2>1 DEF AcceptJobs
  <2>6. TypeOK'
    BY <1>1, <1>3, <2>1, <2>3, <2>4 DEF TypeOK, HandlerBegins
  <2>7. OneAccept'
    BY <1>1, <1>3, <2>3, <2>5, AcceptsKept DEF HandlerBegins
  <2> QED
    BY <2>6, <2>7 DEF AcceptInv
<1>4. ASSUME NEW b \in Behaviour, HandlerReturns(w, b) PROVE AcceptInv'
  <2> DEFINE a == worker[w]
             tasks == IF b.reply = "disabled" THEN <<>> ELSE HandlerTasks(w, a.m, b)
  <2>1. a.s \in Session /\ a.m \in Msg
    BY <1>2, <1>4, ActivityFields DEF HandlerReturns
  <2>2. tasks \in Seq(Task)
    <3>1. HandlerTasks(w, a.m, b) \in Seq(Task)
      BY <2>1, TasksIn
    <3> QED
      BY <3>1
  <2>3. worker' = [worker EXCEPT ![w] = [job |-> "post", s |-> a.s, tasks |-> tasks]]
    BY <1>4 DEF HandlerReturns
  <2>4. worker' \in [Worker -> Activity]
        /\ \A v \in Worker : worker'[v].job = "accept" => worker[v].job = "accept"
    <3> HIDE DEF tasks
    <3> QED
      BY <1>2, <2>1, <2>2, <2>3, ActivityIn
  <2>5. stopping' \in [Worker -> BOOLEAN] /\ stopAsked' \in BOOLEAN
    BY <1>1, <1>4 DEF TypeOK, HandlerReturns, Behaviour
  <2>6. object' \in [Worker -> 0..MaxMsgs] /\ replied' \subseteq Msg
    <3>1. a.m \in 0..MaxMsgs
      BY <2>1, BoundsAssumption DEF Msg
    <3> QED
      BY <1>1, <1>4, <2>1, <3>1 DEF TypeOK, HandlerReturns
  <2>7. AcceptJobs' = AcceptJobs
    BY <1>4 DEF AcceptJobs, HandlerReturns
  <2>8. TypeOK'
    BY <1>1, <1>4, <2>4, <2>5, <2>6 DEF TypeOK, HandlerReturns
  <2>9. OneAccept'
    BY <1>1, <1>4, <2>4, <2>7, AcceptsKept DEF HandlerReturns
  <2> QED
    BY <2>8, <2>9 DEF AcceptInv
<1>5. CASE HandlerPosts(w)
  <2> DEFINE a == worker[w]
  <2>1. a.s \in Session /\ a.tasks \in Seq(Task)
        /\ a = [job |-> "post", s |-> a.s, tasks |-> a.tasks]
    BY <1>2, <1>5, ActivityFields DEF HandlerPosts
  <2>2. ASSUME a.tasks # <<>>
        PROVE  /\ strand' = [strand EXCEPT ![a.s] = Append(@, Head(a.tasks))]
               /\ worker' = [worker EXCEPT ![w] = [job |-> "post", s |-> a.s,
                                                   tasks |-> Tail(a.tasks)]]
    BY <1>2, <1>5, <2>2, PostsOn
  <2>3. ASSUME a.tasks = <<>>
        PROVE  worker' = [worker EXCEPT ![w] = Idle] /\ strand' = strand
    BY <1>5, <2>3 DEF HandlerPosts, Finish
  <2>4. strand \in [Session -> Seq(Task)]
    BY <1>1 DEF TypeOK
  <2>5. strand' \in [Session -> Seq(Task)] /\ worker' \in [Worker -> Activity]
        /\ \A v \in Worker : worker'[v].job = "accept" => worker[v].job = "accept"
    <3>1. CASE a.tasks # <<>>
      <4>1. /\ Append(strand[a.s], Head(a.tasks)) \in Seq(Task)
            /\ Tail(a.tasks) \in Seq(Task)
        BY <2>1, <2>4, <3>1
      <4>2. [job |-> "post", s |-> a.s, tasks |-> Tail(a.tasks)] \in Activity
        BY <2>1, <4>1, ActivityIn
      <4>3. strand' \in [Session -> Seq(Task)]
        BY <2>2, <2>4, <3>1, <4>1
      <4> QED
        BY <1>2, <2>2, <3>1, <4>2, <4>3, WorkerMoves
    <3>2. CASE a.tasks = <<>>
      BY <1>2, <2>3, <2>4, <3>2, ActivityIn DEF Idle
    <3> QED
      BY <3>1, <3>2
  <2>6. TypeOK'
    BY <1>1, <1>5, <2>5 DEF TypeOK, HandlerPosts
  <2>7. AcceptJobs' = AcceptJobs
    BY <1>5 DEF AcceptJobs, HandlerPosts
  <2>8. OneAccept'
    BY <1>1, <1>5, <2>5, <2>7, AcceptsKept DEF HandlerPosts
  <2> QED
    BY <2>6, <2>8 DEF AcceptInv
<1> QED
  BY <1>3, <1>4, <1>5

\* A queue without its first message.
LEMMA RestOfQueue ==
  ASSUME NEW q \in Seq(Msg)
  PROVE  SubSeq(q, 2, Len(q)) \in Seq(Msg)
<1>1. Len(q) \in Nat /\ \A i \in 1..Len(q) : q[i] \in Msg
  OBVIOUS
<1> QED
  BY <1>1, SubSeqProperties

\* The tasks of the write strand, and the closing of the copied sessions.
LEMMA TaskTypes ==
  ASSUME AcceptInv, NEW w \in Worker,
         (\E s \in Session : RunTask(w, s)) \/ CloseCopied(w) \/ CloseSessionsDone(w)
  PROVE  AcceptInv'
<1> USE DEF localVars, sessionVars, clientVars, userVars, historyVars
<1>1. TypeOK /\ OneAccept
  BY DEF AcceptInv
<1>2. /\ worker \in [Worker -> Activity] /\ strand \in [Session -> Seq(Task)]
      /\ exit \in [Session -> BOOLEAN] /\ sessions \subseteq Session
  BY <1>1 DEF TypeOK
<1>3. ASSUME NEW s \in Session, strand[s] # <<>> PROVE Tail(strand[s]) \in Seq(Task)
  BY <1>2, <1>3
<1>4. ASSUME NEW s \in Session, strand[s] # <<>> PROVE Head(strand[s]) \in Task
  BY <1>2, <1>4
<1>5. ASSUME NEW s \in Session, RunWrite(w, s) PROVE AcceptInv'
  <2>1. strand' \in [Session -> Seq(Task)]
    BY <1>2, <1>3, <1>5 DEF RunWrite, TaskReady, PopTask
  <2>2. Head(strand[s]).m \in Msg
    <3>1. Head(strand[s]) \in Task /\ Head(strand[s]).task = "write"
      BY <1>4, <1>5 DEF RunWrite, TaskReady
    <3> QED
      BY <3>1 DEF Task
  <2>3. written' \subseteq Msg /\ faults' \subseteq {"session", "object", "terminate"}
    BY <1>1, <1>5, <2>2 DEF RunWrite, TypeOK
  <2>4. queue' \in [Session -> Seq(Msg)] /\ sending' \in [Session -> BOOLEAN]
    <3>1. queue \in [Session -> Seq(Msg)] /\ sending \in [Session -> BOOLEAN]
      BY <1>1 DEF TypeOK
    <3>2. Append(queue[s], Head(strand[s]).m) \in Seq(Msg)
      BY <2>2, <3>1
    <3>3. /\ queue' = [queue EXCEPT ![s] = Append(queue[s], Head(strand[s]).m)]
          /\ \E x \in BOOLEAN : sending' = [sending EXCEPT ![s] = x]
      BY <1>2, <1>5, <3>1 DEF RunWrite
    <3> QED
      BY <3>1, <3>2, <3>3
  <2>5. TypeOK'
    BY <1>1, <1>5, <2>1, <2>3, <2>4 DEF TypeOK, RunWrite
  <2>6. OneAccept'
    BY <1>1, <1>5 DEF OneAccept, AcceptJobs, RunWrite
  <2> QED
    BY <2>5, <2>6 DEF AcceptInv
<1>6. ASSUME NEW s \in Session, RunExit(w, s) PROVE AcceptInv'
  <2>1. strand' \in [Session -> Seq(Task)] /\ exit' \in [Session -> BOOLEAN]
    <3>1. Tail(strand[s]) \in Seq(Task)
      BY <1>3, <1>6 DEF RunExit, TaskReady
    <3>2. Tail(strand[s]) \o CloseTasks \in Seq(Task)
      BY <3>1, TasksIn
    <3>3. \/ /\ exit' = [exit EXCEPT ![s] = TRUE]
             /\ strand' = [strand EXCEPT ![s] = Tail(strand[s]) \o CloseTasks]
          \/ exit' = exit /\ strand' = [strand EXCEPT ![s] = Tail(strand[s])]
      BY <1>2, <1>6 DEF RunExit, close, PopTask
    <3> QED
      BY <1>2, <3>1, <3>2, <3>3
  <2>2. closer' \in [Session -> 0..MaxMsgs] /\ faults' \subseteq {"session", "object", "terminate"}
    <3>1. Head(strand[s]) \in Task /\ Head(strand[s]).task = "close"
      BY <1>4, <1>6 DEF RunExit, TaskReady
    <3>2. Head(strand[s]).m \in Msg
      BY <3>1 DEF Task
    <3>3. Head(strand[s]).m \in 0..MaxMsgs
      BY <3>2, BoundsAssumption DEF Msg
    <3> QED
      BY <1>1, <1>6, <3>3 DEF RunExit, TypeOK
  <2>3. TypeOK'
    BY <1>1, <1>6, <2>1, <2>2 DEF TypeOK, RunExit
  <2>4. OneAccept'
    BY <1>1, <1>6 DEF OneAccept, AcceptJobs, RunExit
  <2> QED
    BY <2>3, <2>4 DEF AcceptInv
<1>7. ASSUME NEW s \in Session, RunCloseSessions(w, s) PROVE AcceptInv'
  <2>1. strand' \in [Session -> Seq(Task)]
    BY <1>2, <1>3, <1>7 DEF RunCloseSessions, TaskReady, PopTask
  <2>2. /\ worker' \in [Worker -> Activity]
        /\ \A v \in Worker : worker'[v].job = "accept" => worker[v].job = "accept"
    <3>1. [job |-> "closing", s |-> s, copy |-> sessions] \in Activity
      BY <1>2, ActivityIn
    <3> QED
      BY <1>2, <1>7, <3>1, WorkerMoves DEF RunCloseSessions
  <2>3. sessions' \subseteq Session /\ faults' \subseteq {"session", "object", "terminate"}
    BY <1>1, <1>7 DEF RunCloseSessions, TypeOK
  <2>4. TypeOK'
    BY <1>1, <1>7, <2>1, <2>2, <2>3 DEF TypeOK, RunCloseSessions
  <2>5. AcceptJobs' = AcceptJobs
    BY <1>7 DEF AcceptJobs, RunCloseSessions
  <2>6. OneAccept'
    BY <1>1, <1>7, <2>2, <2>5, AcceptsKept DEF RunCloseSessions
  <2> QED
    BY <2>4, <2>6 DEF AcceptInv
<1>8. ASSUME NEW s \in Session, RunCloseSocket(w, s) \/ RunCloseSession(w, s) PROVE AcceptInv'
  <2>1. strand' \in [Session -> Seq(Task)]
    BY <1>2, <1>3, <1>8 DEF RunCloseSocket, RunCloseSession, TaskReady, PopTask
  <2>2. socket' \in [Session -> {"open", "closed"}] /\ sessions' \subseteq Session
    BY <1>1, <1>8 DEF RunCloseSocket, RunCloseSession, TypeOK, close_session
  <2>3. TypeOK'
    BY <1>1, <1>8, <2>1, <2>2 DEF TypeOK, RunCloseSocket, RunCloseSession
  <2>4. OneAccept'
    BY <1>1, <1>8 DEF OneAccept, AcceptJobs, RunCloseSocket, RunCloseSession
  <2> QED
    BY <2>3, <2>4 DEF AcceptInv
<1>9. CASE CloseCopied(w)
  <2> DEFINE a == worker[w]
  <2>1. a.s \in Session /\ a.copy \in SUBSET Session
        /\ a = [job |-> "closing", s |-> a.s, copy |-> a.copy]
    BY <1>2, <1>9, ActivityFields DEF CloseCopied
  <2>2. PICK s \in a.copy : /\ exit' = [exit EXCEPT ![s] = TRUE]
                            /\ strand' = [strand EXCEPT ![s] = strand[s] \o CloseTasks]
                            /\ worker' = [worker EXCEPT ![w].copy = @ \ {s}]
    BY <1>9 DEF CloseCopied, close
  <2>3. worker' = [worker EXCEPT ![w] = [job |-> "closing", s |-> a.s, copy |-> a.copy \ {s}]]
    <3>1. [a EXCEPT !.copy = a.copy \ {s}] = [job |-> "closing", s |-> a.s, copy |-> a.copy \ {s}]
      BY <2>1
    <3>2. worker' = [worker EXCEPT ![w] = [a EXCEPT !.copy = a.copy \ {s}]]
      BY <1>2, <2>2
    <3> QED
      BY <3>1, <3>2
  <2>4. /\ worker' \in [Worker -> Activity]
        /\ \A v \in Worker : worker'[v].job = "accept" => worker[v].job = "accept"
    <3>1. [job |-> "closing", s |-> a.s, copy |-> a.copy \ {s}] \in Activity
      BY <2>1, ActivityIn
    <3> QED
      BY <1>2, <2>3, <3>1
  <2>5. strand[s] \o CloseTasks \in Seq(Task)
    BY <1>2, <2>1, TasksIn
  <2>6. strand' \in [Session -> Seq(Task)] /\ exit' \in [Session -> BOOLEAN]
    BY <1>2, <2>2, <2>5
  <2>7. TypeOK'
    BY <1>1, <1>9, <2>4, <2>6 DEF TypeOK, CloseCopied
  <2>8. AcceptJobs' = AcceptJobs
    BY <1>9 DEF AcceptJobs, CloseCopied
  <2>9. OneAccept'
    BY <1>1, <1>9, <2>4, <2>8, AcceptsKept DEF CloseCopied
  <2> QED
    BY <2>7, <2>9 DEF AcceptInv
<1>10. CASE CloseSessionsDone(w)
  <2> DEFINE cancel == stopping[w] /\ accepting > 0
  <2>1. /\ worker' \in [Worker -> Activity]
        /\ \A v \in Worker : worker'[v].job = "accept" => worker[v].job = "accept"
    BY <1>2, <1>10, ActivityIn DEF CloseSessionsDone, Finish, Idle
  <2>2. \A j \in jobs' : j \in Job
    BY <1>1, <1>10, JobIn DEF TypeOK, CloseSessionsDone
  <2>3. accepting' \in 0..1
    BY <1>1, <1>10 DEF TypeOK, CloseSessionsDone
  <2>4. TypeOK'
    BY <1>1, <1>10, <2>1, <2>2, <2>3 DEF TypeOK, CloseSessionsDone
  <2>5. CASE ~cancel
    <3>1. AcceptJobs' = AcceptJobs /\ accepting' = accepting
      BY <1>10, <2>5 DEF AcceptJobs, CloseSessionsDone
    <3> QED
      BY <1>1, <2>1, <2>4, <3>1, AcceptsKept DEF AcceptInv
  <2>6. CASE cancel
    <3>1. AcceptJobs = {} /\ \A v \in Worker : worker[v].job # "accept"
      BY <1>1, <2>6 DEF OneAccept, TypeOK
    <3>2. accepting' = 0 /\ AcceptJobs' = {[job |-> "aborted"]}
      BY <1>10, <2>6, <3>1 DEF AcceptJobs, CloseSessionsDone
    <3> QED
      BY <2>1, <2>4, <3>1, <3>2 DEF AcceptInv, OneAccept
  <2> QED
    BY <2>5, <2>6
<1>11. ASSUME NEW s \in Session, RunWriteHandler(w, s) PROVE AcceptInv'
  <2>1. strand' \in [Session -> Seq(Task)]
    BY <1>2, <1>3, <1>11 DEF RunWriteHandler, TaskReady, PopTask
  <2>2. queue \in [Session -> Seq(Msg)] /\ sending \in [Session -> BOOLEAN]
    BY <1>1 DEF TypeOK
  <2>3. SubSeq(queue[s], 2, Len(queue[s])) \in Seq(Msg)
    BY <2>2, RestOfQueue
  <2>4. /\ queue' = queue \/ queue' = [queue EXCEPT ![s] = SubSeq(queue[s], 2, Len(queue[s]))]
        /\ sending' = sending \/ \E x \in BOOLEAN : sending' = [sending EXCEPT ![s] = x]
    <3>1. (Len(queue[s]) > 1 /\ ~exit[s]) \in BOOLEAN
      OBVIOUS
    <3> QED
      BY <1>11, <2>2, <3>1 DEF RunWriteHandler
  <2>5. queue' \in [Session -> Seq(Msg)] /\ sending' \in [Session -> BOOLEAN]
    BY <2>2, <2>3, <2>4
  <2>6. TypeOK'
    BY <1>1, <1>11, <2>1, <2>5 DEF TypeOK, RunWriteHandler
  <2>7. OneAccept'
    BY <1>1, <1>11 DEF OneAccept, AcceptJobs, RunWriteHandler
  <2> QED
    BY <2>6, <2>7 DEF AcceptInv
<1> QED
  BY <1>5, <1>6, <1>7, <1>8, <1>9, <1>10, <1>11 DEF RunTask

\* A write completes.
LEMMA WriteTypes ==
  ASSUME AcceptInv, NEW s \in Session, NEW ok \in BOOLEAN, WriteCompletes(s, ok)
  PROVE  AcceptInv'
<1> USE DEF localVars, sessionVars, clientVars, userVars, historyVars
<1>1. TypeOK /\ OneAccept
  BY DEF AcceptInv
<1>2. strand \in [Session -> Seq(Task)] /\ sending \in [Session -> BOOLEAN]
  BY <1>1 DEF TypeOK
<1>3. [task |-> "write_handler", ok |-> ok] \in Task
  BY DEF Task
<1>4. Append(strand[s], [task |-> "write_handler", ok |-> ok]) \in Seq(Task)
  BY <1>2, <1>3
<1>5. strand' \in [Session -> Seq(Task)] /\ sending' \in [Session -> BOOLEAN]
  BY <1>2, <1>4 DEF WriteCompletes
<1>6. TypeOK'
  BY <1>1, <1>5 DEF TypeOK, WriteCompletes
<1>7. OneAccept'
  BY <1>1 DEF OneAccept, AcceptJobs, WriteCompletes
<1> QED
  BY <1>6, <1>7 DEF AcceptInv

\* The user's threads, the clients and the sockets.
LEMMA EnvironmentTypes ==
  ASSUME AcceptInv,
         \/ \E w \in Worker : async_run(w)
         \/ RunReturns \/ close_sessions \/ CloseNext \/ stop
         \/ \E s \in Session : Connect(s) \/ ClientSends(s) \/ ClientLeaves(s) \/ ReadCompletes(s)
  PROVE  AcceptInv'
<1> USE DEF localVars, sessionVars, clientVars, userVars, historyVars, envUnchanged
<1>1. TypeOK /\ OneAccept
  BY DEF AcceptInv
<1>2. /\ worker \in [Worker -> Activity] /\ strand \in [Session -> Seq(Task)]
      /\ inbox \in [Session -> Seq(Msg)]
  BY <1>1 DEF TypeOK
<1>3. ASSUME NEW w \in Worker, async_run(w) PROVE AcceptInv'
  <2>1. /\ worker' \in [Worker -> Activity]
        /\ \A v \in Worker : worker'[v].job = "accept" => worker[v].job = "accept"
    BY <1>2, <1>3, ActivityIn, WorkerMoves DEF async_run, Idle
  <2>2. TypeOK'
    BY <1>1, <1>3, <2>1 DEF TypeOK, async_run
  <2>3. AcceptJobs' = AcceptJobs
    BY <1>3 DEF AcceptJobs, async_run
  <2> QED
    BY <1>1, <1>3, <2>1, <2>2, <2>3, AcceptsKept DEF AcceptInv, async_run
<1>4. CASE RunReturns \/ close_sessions \/ stop
  <2>1. TypeOK'
    <3>1. closes' \in 0..MaxCloses
      BY <1>1, <1>4, BoundsAssumption DEF RunReturns, close_sessions, stop, TypeOK
    <3> QED
      BY <1>1, <1>4, <3>1 DEF TypeOK, RunReturns, close_sessions, stop
  <2>2. OneAccept'
    BY <1>1, <1>4 DEF OneAccept, AcceptJobs, RunReturns, close_sessions, stop
  <2> QED
    BY <2>1, <2>2 DEF AcceptInv
<1>5. CASE CloseNext
  <2>1. PICK s \in copy : /\ exit' = [exit EXCEPT ![s] = TRUE] /\ copy' = copy \ {s}
                          /\ strand' = [strand EXCEPT ![s] = strand[s] \o CloseTasks]
    BY <1>5 DEF CloseNext, close
  <2>2. strand[s] \o CloseTasks \in Seq(Task)
    BY <1>1, <1>2, <2>1, TasksIn DEF TypeOK
  <2>3. strand' \in [Session -> Seq(Task)]
    BY <1>2, <2>1, <2>2
  <2>4. exit' \in [Session -> BOOLEAN] /\ copy' \subseteq Session
    BY <1>1, <2>1 DEF TypeOK
  <2>5. TypeOK'
    BY <1>1, <1>5, <2>3, <2>4 DEF TypeOK, CloseNext
  <2> QED
    BY <1>1, <1>5, <2>5 DEF AcceptInv, OneAccept, AcceptJobs, CloseNext
<1>6. ASSUME NEW s \in Session, Connect(s) PROVE AcceptInv'
  <2>1. AcceptJobs = {} /\ (\A v \in Worker : worker[v].job # "accept") /\ accepting' = 0
    BY <1>1, <1>6 DEF OneAccept, Connect, TypeOK
  <2>2. AcceptJobs' = {[job |-> "accept", s |-> s]}
    BY <1>6, <2>1 DEF AcceptJobs, Connect
  <2>3. client' \in [Session -> {"none", "there", "eof", "other"}]
    BY <1>1, <1>6 DEF TypeOK, Connect
  <2>4. \A j \in jobs' : j \in Job
    BY <1>1, <1>6, JobIn DEF TypeOK, Connect
  <2>5. TypeOK'
    BY <1>1, <1>6, <2>1, <2>3, <2>4 DEF TypeOK, Connect
  <2> QED
    BY <1>6, <2>1, <2>2, <2>5 DEF AcceptInv, OneAccept, Connect
<1>7. ASSUME NEW s \in Session, ClientSends(s) \/ ClientLeaves(s) PROVE AcceptInv'
  <2>1. inbox' \in [Session -> Seq(Msg)] /\ msgs' \in 0..MaxMsgs
    <3>1. CASE ClientSends(s)
      <4>1. msgs + 1 \in Msg /\ msgs + 1 \in 0..MaxMsgs
        BY <1>1, <3>1, BoundsAssumption DEF TypeOK, Msg, ClientSends
      <4>2. Append(inbox[s], msgs + 1) \in Seq(Msg)
        BY <1>2, <4>1
      <4> QED
        BY <1>2, <3>1, <4>1, <4>2 DEF ClientSends
    <3>2. CASE ClientLeaves(s)
      BY <1>1, <3>2 DEF ClientLeaves, TypeOK
    <3> QED
      BY <1>7, <3>1, <3>2
  <2>2. client' \in [Session -> {"none", "there", "eof", "other"}]
    <3>1. CASE ClientSends(s)
      BY <1>1, <3>1 DEF TypeOK, ClientSends
    <3>2. CASE ClientLeaves(s)
      <4>1. PICK how \in {"eof", "other"} : client' = [client EXCEPT ![s] = how]
        BY <3>2, LossesAssumption DEF ClientLeaves
      <4> QED
        BY <1>1, <4>1 DEF TypeOK
    <3> QED
      BY <1>7, <3>1, <3>2
  <2>3. TypeOK'
    BY <1>1, <1>7, <2>1, <2>2 DEF TypeOK, ClientSends, ClientLeaves
  <2> QED
    BY <1>1, <1>7, <2>3 DEF AcceptInv, OneAccept, AcceptJobs, ClientSends, ClientLeaves
<1>8. ASSUME NEW s \in Session, ReadCompletes(s) PROVE AcceptInv'
  <2>1. PICK n \in 0..Len(inbox[s]), ec \in {"ok", "eof", "other"} :
          /\ jobs' = jobs \cup {[job |-> "read", s |-> s, ec |-> ec,
                                 chunk |-> SubSeq(inbox[s], 1, n)]}
          /\ inbox' = [inbox EXCEPT ![s] = SubSeq(@, n + 1, Len(@))]
    BY <1>8 DEF ReadCompletes
  <2> DEFINE q == inbox[s]
  <2>2. q \in Seq(Msg)
    BY <1>2
  <2>3. SubSeq(q, 1, n) \in Seq(Msg) /\ SubSeq(q, n + 1, Len(q)) \in Seq(Msg)
    <3> HIDE DEF q
    <3>1. n \in Nat /\ n <= Len(q) /\ Len(q) \in Nat
      BY <2>1, <2>2 DEF q
    <3>2. \A i \in 1..Len(q) : q[i] \in Msg
      BY <2>2
    <3> QED
      BY <2>2, <3>1, <3>2, SubSeqProperties
  <2>4. inbox' \in [Session -> Seq(Msg)]
    BY <1>2, <2>1, <2>3
  <2>5. \A j \in jobs' : j \in Job
    <3>1. [job |-> "read", s |-> s, ec |-> ec, chunk |-> SubSeq(inbox[s], 1, n)] \in Job
      BY <2>3, JobIn
    <3> QED
      BY <1>1, <2>1, <3>1 DEF TypeOK
  <2>6. reader' \in [Session -> {"none", "armed", "due"}]
    BY <1>1, <1>8 DEF TypeOK, ReadCompletes
  <2>7. TypeOK'
    BY <1>1, <1>8, <2>4, <2>5, <2>6 DEF TypeOK, ReadCompletes
  <2>8. AcceptJobs' = AcceptJobs
    BY <2>1 DEF AcceptJobs
  <2> QED
    BY <1>1, <1>8, <2>7, <2>8, AcceptsKept DEF AcceptInv, ReadCompletes
<1> QED
  BY <1>3, <1>4, <1>5, <1>6, <1>7, <1>8

\* Types hold, and one accept goes on, throughout.
LEMMA AcceptStep == AcceptInv /\ [Next]_vars => AcceptInv'
<1> SUFFICES ASSUME AcceptInv, [Next]_vars PROVE AcceptInv'
  OBVIOUS
<1>1. CASE UNCHANGED vars
  <2>1. UNCHANGED <<jobs, worker, accepting, sessions, reader, stopping, object, exit, socket,
                    strand, queue, sending, client, inbox, msgs, running, copy, closes, written, replied,
                    closer, stopAsked, faults>>
    BY <1>1 DEF vars, localVars, sessionVars, clientVars, userVars, historyVars
  <2> QED
    BY <2>1 DEF AcceptInv, TypeOK, OneAccept, AcceptJobs
<1>2. CASE Next
  BY <1>2, AcceptorTypes, ReaderTypes, HandlerTypes, TaskTypes, EnvironmentTypes, WriteTypes
     DEF Next, WorkerGoesOn
<1> QED
  BY <1>1, <1>2

\* It does in the initial state.
LEMMA AcceptInit == Init => AcceptInv
<1> SUFFICES ASSUME Init PROVE AcceptInv
  OBVIOUS
<1>1. worker \in [Worker -> Activity] /\ \A w \in Worker : worker[w].job # "accept"
  BY ActivityIn DEF Init
<1>2. <<>> \in Seq(Task) /\ <<>> \in Seq(Msg)
  OBVIOUS
<1>3. strand \in [Session -> Seq(Task)] /\ inbox \in [Session -> Seq(Msg)]
  BY <1>2 DEF Init
<1>4. /\ object \in [Worker -> 0..MaxMsgs] /\ closer \in [Session -> 0..MaxMsgs]
      /\ msgs \in 0..MaxMsgs /\ closes \in 0..MaxCloses /\ accepting \in 0..1
  BY BoundsAssumption DEF Init
<1>5. TypeOK
  BY <1>1, <1>3, <1>4 DEF Init, TypeOK
<1> QED
  BY <1>1, <1>5 DEF AcceptInv, OneAccept, AcceptJobs, Init

\* The members of the server and its sessions keep their types, and at most one
\* async_accept is outstanding, for any number of workers, sessions and messages.
THEOREM ServerTypes == Spec => []TypeOK
<1>1. AcceptInv => TypeOK
  BY DEF AcceptInv
<1> QED
  BY <1>1, AcceptInit, AcceptStep, PTL DEF Spec
-----------------------------------------------------------------------------
(* The read loop of a session is in one place.                             *)

\* The read of a session is an operation outstanding, a handler that waits or a
\* worker that runs it, one at a time, and begins when the session is accepted.
ReadOnce ==
  /\ \A j \in jobs : j.job = "read" => reader[j.s] = "due"
  /\ \A j, k \in jobs : j.job = "read" /\ k.job = "read" /\ j.s = k.s => j = k
  /\ \A w \in Worker : worker[w].job = "read" =>
       /\ reader[worker[w].s] = "due"
       /\ \A j \in jobs : j.job = "read" => j.s # worker[w].s
       /\ \A v \in Worker : worker[v].job = "read" /\ worker[v].s = worker[w].s => v = w
  /\ \A j \in jobs : j.job = "accept" => reader[j.s] = "none" /\ client[j.s] # "none"
  /\ \A s \in Session : client[s] = "none" => reader[s] = "none"

\* A step that leaves reads alone.
LEMMA ReadsKept ==
  ASSUME ReadOnce, UNCHANGED <<reader, client>>,
         \A j \in jobs' : j.job \in {"read", "accept"} => j \in jobs,
         \A v \in Worker : worker'[v].job = "read" =>
           worker[v].job = "read" /\ worker'[v].s = worker[v].s
  PROVE  ReadOnce'
BY DEF ReadOnce

\* The steps that change a read.
LEMMA ReadSteps ==
  ASSUME TypeOK, TypeOK', ReadOnce, NEW w \in Worker,
         Accept(w) \/ AcceptThrows(w) \/ ReadEnd(w) \/ (\E s \in Session : Read(w, s))
  PROVE  ReadOnce'
<1> USE DEF localVars, sessionVars, clientVars, userVars, historyVars
<1>1. /\ worker \in [Worker -> Activity] /\ \A j \in jobs : j \in Job
      /\ reader \in [Session -> {"none", "armed", "due"}]
  BY DEF TypeOK
<1>2. CASE Accept(w)
  <2>1. PICK j \in jobs : /\ j.job = "accept" /\ jobs' = jobs \ {j}
                          /\ worker' = [worker EXCEPT ![w] = j]
                          /\ reader' = [reader EXCEPT ![j.s] = "armed"]
                          /\ worker[w].job = "idle" /\ UNCHANGED client
    BY <1>2 DEF Accept, Free
  <2>2. j = [job |-> "accept", s |-> j.s] /\ j.s \in Session
    BY <1>1, <2>1 DEF Job
  <2>3. \A k \in jobs : k.job = "accept" /\ k.s = j.s => k = j
    BY <1>1, <2>2 DEF Job
  <2>4. /\ worker'[w].job # "read" /\ \A v \in Worker : v # w => worker'[v] = worker[v]
        /\ reader'[j.s] = "armed" /\ \A s \in Session : s # j.s => reader'[s] = reader[s]
    BY <1>1, <2>1, <2>2
  <2>5. reader[j.s] = "none" /\ client[j.s] # "none"
    BY <2>1 DEF ReadOnce
  <2>6. \A k \in jobs : k.job = "read" => k.s # j.s /\ k.s \in Session
    BY <1>1, <2>5, JobFields DEF ReadOnce
  <2>7. \A k \in jobs' : k.job = "accept" => k.s # j.s /\ k.s \in Session
    BY <1>1, <2>1, <2>3, JobFields
  <2>8. \A v \in Worker : worker[v].job = "read" => worker[v].s # j.s /\ worker[v].s \in Session
    BY <1>1, <2>5, ActivityFields DEF ReadOnce
  <2> QED
    BY <2>1, <2>4, <2>5, <2>6, <2>7, <2>8 DEF ReadOnce
<1>3. CASE AcceptThrows(w)
  <2>1. jobs' = {} /\ (\A v \in Worker : worker'[v].job = "off")
        /\ \A s \in Session : reader'[s] = "none"
    BY <1>3 DEF AcceptThrows
  <2> QED
    BY <2>1 DEF ReadOnce
<1>4. CASE ReadEnd(w)
  <2> DEFINE s == worker[w].s
  <2>1. /\ worker[w].job = "read" /\ jobs' = jobs /\ client' = client
        /\ worker' = [worker EXCEPT ![w] = Idle]
        /\ reader' = [reader EXCEPT ![s] = IF exit[s] THEN "none" ELSE "armed"]
    BY <1>4 DEF ReadEnd, Finish
  <2>2. s \in Session
    BY <1>1, <2>1, ActivityFields
  <2>3. /\ worker'[w].job = "idle" /\ \A v \in Worker : v # w => worker'[v] = worker[v]
        /\ \A r \in Session : r # s => reader'[r] = reader[r]
    BY <1>1, <2>1 DEF Idle
  <2>4. /\ reader[s] = "due" /\ client[s] # "none"
        /\ \A j \in jobs : j.job = "read" => j.s # s /\ j.s \in Session
    BY <1>1, <2>1, <2>2, JobFields DEF ReadOnce
  <2>5. \A j \in jobs : j.job = "accept" => j.s # s /\ j.s \in Session
    BY <1>1, <2>4, JobFields DEF ReadOnce
  <2>6. \A v \in Worker : v # w /\ worker[v].job = "read" =>
          worker[v].s # s /\ worker[v].s \in Session
    BY <1>1, <2>1, ActivityFields DEF ReadOnce
  <2> HIDE DEF s
  <2> QED
    BY <2>1, <2>3, <2>4, <2>5, <2>6 DEF ReadOnce
<1>5. ASSUME NEW s \in Session, Read(w, s) PROVE ReadOnce'
  <2>1. PICK j \in jobs :
          /\ j.job = "read" /\ j.s = s /\ jobs' = jobs \ {j}
          /\ \/ /\ worker' = [worker EXCEPT ![w] = [job |-> "read", s |-> s, left |-> j.chunk]]
                /\ UNCHANGED reader
             \/ /\ reader' = [reader EXCEPT ![s] = "none"]
                /\ UNCHANGED worker
    BY <1>5 DEF Read
  <2>2. worker[w].job = "idle" /\ client' = client
    BY <1>5 DEF Read, Free
  <2>3. /\ reader[s] = "due" /\ client[s] # "none"
        /\ \A k \in jobs' : k.job = "read" => k.s # s /\ k.s \in Session
    BY <1>1, <2>1, JobFields DEF ReadOnce
  <2>4. \A k \in jobs : k.job = "accept" => k.s # s /\ k.s \in Session
    BY <1>1, <2>3, JobFields DEF ReadOnce
  <2>5. \A v \in Worker : worker[v].job = "read" => worker[v].s # s /\ worker[v].s \in Session
    BY <1>1, <2>1, ActivityFields DEF ReadOnce
  <2>6. CASE reader' = [reader EXCEPT ![s] = "none"] /\ UNCHANGED worker
    <3>1. \A r \in Session : r # s => reader'[r] = reader[r]
      BY <1>1, <2>6
    <3> QED
      BY <2>1, <2>2, <2>3, <2>4, <2>5, <2>6, <3>1 DEF ReadOnce
  <2>7. CASE worker' = [worker EXCEPT ![w] = [job |-> "read", s |-> s, left |-> j.chunk]]
             /\ UNCHANGED reader
    <3>1. /\ worker'[w].job = "read" /\ worker'[w].s = s
          /\ \A v \in Worker : v # w => worker'[v] = worker[v]
      BY <1>1, <2>7
    <3> QED
      BY <2>1, <2>2, <2>3, <2>4, <2>5, <2>7, <3>1 DEF ReadOnce
  <2> QED
    BY <2>1, <2>6, <2>7
<1> QED
  BY <1>2, <1>3, <1>4, <1>5

\* ReadOnce holds throughout.
LEMMA ReadStep ==
  ASSUME TypeOK, TypeOK', ReadOnce, [Next]_vars
  PROVE  ReadOnce'
<1> USE DEF localVars, sessionVars, clientVars, userVars, historyVars, envUnchanged
<1>1. worker \in [Worker -> Activity] /\ \A j \in jobs : j \in Job
  BY DEF TypeOK
<1>2. ASSUME NEW w \in Worker, async_run(w) \/ AcceptDone(w) \/ HandlerPosts(w) \/ CloseCopied(w)
                               \/ CloseSessionsDone(w) \/ ReadLoop(w)
      PROVE  ReadOnce'
  <2>1. UNCHANGED <<reader, client>>
    BY <1>2 DEF async_run, AcceptDone, HandlerPosts, CloseCopied, CloseSessionsDone, ReadLoop
  <2>2. \A j \in jobs' : j.job \in {"read", "accept"} => j \in jobs
    BY <1>2 DEF async_run, AcceptDone, HandlerPosts, CloseCopied, CloseSessionsDone, ReadLoop
  <2>3. ASSUME NEW v \in Worker, worker'[v].job = "read"
        PROVE  worker[v].job = "read" /\ worker'[v].s = worker[v].s
    <3>1. CASE async_run(w) \/ AcceptDone(w) \/ CloseSessionsDone(w)
      BY <1>1, <2>3, <3>1 DEF async_run, AcceptDone, CloseSessionsDone, Finish, Idle
    <3>2. CASE CloseCopied(w)
      BY <1>1, <2>3, <3>2 DEF CloseCopied
    <3>3. CASE HandlerPosts(w)
      <4>1. CASE worker' = [worker EXCEPT ![w].tasks = Tail(@)]
        BY <1>1, <2>3, <3>3, <4>1 DEF HandlerPosts
      <4>2. CASE worker' = [worker EXCEPT ![w] = Idle]
        BY <1>1, <2>3, <3>3, <4>2 DEF HandlerPosts, Idle
      <4> QED
        BY <3>3, <4>1, <4>2 DEF HandlerPosts, Finish
    <3>4. CASE ReadLoop(w)
      BY <1>1, <2>3, <3>4 DEF ReadLoop
    <3> QED
      BY <1>2, <3>1, <3>2, <3>3, <3>4
  <2> QED
    BY <2>1, <2>2, <2>3, ReadsKept
<1>3. ASSUME NEW w \in Worker, NEW s \in Session, RunTask(w, s) PROVE ReadOnce'
  <2>1. UNCHANGED <<reader, client, jobs>>
    BY <1>3 DEF RunTask, RunWrite, RunWriteHandler, RunExit, RunCloseSessions, RunCloseSocket,
       RunCloseSession
  <2>2. ASSUME NEW v \in Worker, worker'[v].job = "read" PROVE worker'[v] = worker[v]
    BY <1>1, <1>3, <2>2 DEF RunTask, RunWrite, RunWriteHandler, RunExit, RunCloseSessions,
       RunCloseSocket, RunCloseSession
  <2> QED
    BY <2>1, <2>2, ReadsKept
<1>4. ASSUME NEW w \in Worker, NEW m \in Msg, HandlerBegins(w, m) PROVE ReadOnce'
  <2>1. UNCHANGED <<reader, client>> /\ \A j \in jobs' : j \in jobs
    BY <1>4 DEF HandlerBegins
  <2>2. ASSUME NEW v \in Worker, worker'[v].job = "read" PROVE worker'[v] = worker[v]
    BY <1>1, <1>4, <2>2 DEF HandlerBegins
  <2> QED
    BY <2>1, <2>2, ReadsKept
<1>5. ASSUME NEW w \in Worker, NEW b \in Behaviour, HandlerReturns(w, b) PROVE ReadOnce'
  <2>1. UNCHANGED <<reader, client, jobs>>
    BY <1>5 DEF HandlerReturns
  <2>2. ASSUME NEW v \in Worker, worker'[v].job = "read" PROVE worker'[v] = worker[v]
    BY <1>1, <1>5, <2>2 DEF HandlerReturns
  <2> QED
    BY <2>1, <2>2, ReadsKept
<1>6. ASSUME NEW w \in Worker, AcceptAborted(w) PROVE ReadOnce'
  BY <1>6, ReadsKept DEF AcceptAborted
<1>7. CASE RunReturns \/ close_sessions \/ CloseNext \/ stop
  BY <1>7, ReadsKept DEF RunReturns, close_sessions, CloseNext, stop
<1>8. ASSUME NEW s \in Session, Connect(s) PROVE ReadOnce'
  <2>1. /\ client[s] = "none" /\ client'[s] = "there" /\ UNCHANGED <<reader, worker>>
        /\ \A r \in Session : r # s => client'[r] = client[r]
        /\ jobs' = jobs \cup {[job |-> "accept", s |-> s]}
    BY <1>8 DEF Connect, TypeOK
  <2>2. \A j \in jobs : j.job = "accept" => j.s \in Session
    BY <1>1, JobFields
  <2> QED
    BY <2>1, <2>2 DEF ReadOnce
<1>9. ASSUME NEW s \in Session, ClientSends(s) PROVE ReadOnce'
  BY <1>9, ReadsKept DEF ClientSends
<1>10. ASSUME NEW s \in Session, ClientLeaves(s) PROVE ReadOnce'
  <2>1. /\ UNCHANGED <<reader, worker, jobs>>
        /\ \A r \in Session : client'[r] = "none" => client[r] = "none"
    BY <1>10, LossesAssumption DEF ClientLeaves, TypeOK
  <2>2. \A j \in jobs : j.job = "accept" => j.s \in Session
    BY <1>1, JobFields
  <2> QED
    BY <2>1, <2>2 DEF ReadOnce
<1>11. ASSUME NEW s \in Session, ReadCompletes(s) PROVE ReadOnce'
  <2>1. PICK j : j.job = "read" /\ j.s = s /\ jobs' = jobs \cup {j}
    BY <1>11 DEF ReadCompletes
  <2>2. /\ reader[s] = "armed" /\ reader'[s] = "due" /\ UNCHANGED <<worker, client>>
        /\ \A r \in Session : r # s => reader'[r] = reader[r]
    BY <1>11 DEF ReadCompletes, TypeOK
  <2>3. \A k \in jobs : k.job \in {"read", "accept"} => k.s # s /\ k.s \in Session
    BY <1>1, <2>2, JobFields DEF ReadOnce
  <2>4. \A v \in Worker : worker[v].job = "read" => worker[v].s # s /\ worker[v].s \in Session
    BY <1>1, <2>2, ActivityFields DEF ReadOnce
  <2>5. client[s] # "none"
    BY <2>2 DEF ReadOnce
  <2> QED
    BY <2>1, <2>2, <2>3, <2>4, <2>5 DEF ReadOnce
<1>12. CASE UNCHANGED vars
  BY <1>12, ReadsKept DEF vars
<1>13. ASSUME NEW s \in Session, NEW ok \in BOOLEAN, WriteCompletes(s, ok) PROVE ReadOnce'
  BY <1>13, ReadsKept DEF WriteCompletes
<1> QED
  BY <1>2, <1>3, <1>4, <1>5, <1>6, <1>7, <1>8, <1>9, <1>10, <1>11, <1>12, <1>13, ReadSteps
     DEF Next, WorkerGoesOn
-----------------------------------------------------------------------------
(* Sessions are taken out of sessions_ only when they are closed.          *)

\* close_session() waits only in strands of closed sessions, and no handler
\* posts it.
ErasedIsClosed ==
  /\ \A s \in Session : \A i \in DOMAIN strand[s] :
       strand[s][i].task = "close_session" => exit[s]
  /\ \A w \in Worker : worker[w].job = "post" =>
       \A i \in DOMAIN worker[w].tasks : worker[w].tasks[i].task # "close_session"

\* What is left of a sequence, or one element longer.
LEMMA RestOfTasks ==
  ASSUME NEW q \in Seq(Task), q # <<>>
  PROVE  \A i \in DOMAIN Tail(q) : \E k \in DOMAIN q : Tail(q)[i] = q[k]
<1> SUFFICES ASSUME NEW i \in DOMAIN Tail(q) PROVE i + 1 \in DOMAIN q /\ Tail(q)[i] = q[i + 1]
  OBVIOUS
<1> QED
  OBVIOUS

\* A task behind the others.
LEMMA MoreTasks ==
  ASSUME NEW q \in Seq(Task), NEW t
  PROVE  \A i \in DOMAIN Append(q, t) :
           Append(q, t)[i] = t \/ \E k \in DOMAIN q : Append(q, t)[i] = q[k]
<1> SUFFICES ASSUME NEW i \in DOMAIN Append(q, t)
             PROVE  Append(q, t)[i] = t \/ (i \in DOMAIN q /\ Append(q, t)[i] = q[i])
  OBVIOUS
<1> QED
  OBVIOUS

\* Steps of the strands that leave the workers' tasks alone.
LEMMA StrandKept ==
  ASSUME TypeOK, ErasedIsClosed,
         \A w \in Worker : worker'[w].job = "post" => worker'[w] = worker[w],
         \/ UNCHANGED <<strand, exit>>
         \/ \E s \in Session : exit' = exit /\ strand[s] # <<>> /\ PopTask(s)
         \/ \E s \in Session : \E q : close(s, q)
         \/ \A s \in Session : strand'[s] = <<>>
  PROVE  ErasedIsClosed'
<1>1. strand \in [Session -> Seq(Task)] /\ exit \in [Session -> BOOLEAN]
  BY DEF TypeOK
<1>2. \A w \in Worker : worker'[w].job = "post" =>
        \A i \in DOMAIN worker'[w].tasks : worker'[w].tasks[i].task # "close_session"
  BY DEF ErasedIsClosed
<1>3. CASE UNCHANGED <<strand, exit>>
  BY <1>2, <1>3 DEF ErasedIsClosed
<1>4. ASSUME NEW s \in Session, exit' = exit, strand[s] # <<>>, PopTask(s) PROVE ErasedIsClosed'
  <2>1. strand'[s] = Tail(strand[s]) /\ \A r \in Session : r # s => strand'[r] = strand[r]
    BY <1>1, <1>4 DEF PopTask
  <2>2. \A i \in DOMAIN strand'[s] : \E k \in DOMAIN strand[s] : strand'[s][i] = strand[s][k]
    BY <1>1, <1>4, <2>1, RestOfTasks
  <2>3. \A i \in DOMAIN strand'[s] : strand'[s][i].task = "close_session" => exit'[s]
    BY <1>4, <2>2 DEF ErasedIsClosed
  <2>4. ASSUME NEW x \in Session
        PROVE  \A i \in DOMAIN strand'[x] : strand'[x][i].task = "close_session" => exit'[x]
    BY <1>4, <2>1, <2>3 DEF ErasedIsClosed
  <2> QED
    BY <1>2, <2>4 DEF ErasedIsClosed
<1>5. ASSUME NEW s \in Session, NEW q, close(s, q) PROVE ErasedIsClosed'
  <2>1. exit'[s] = TRUE /\ \A r \in Session : r # s => strand'[r] = strand[r] /\ exit'[r] = exit[r]
    BY <1>1, <1>5 DEF close
  <2> QED
    BY <1>2, <2>1 DEF ErasedIsClosed
<1>6. CASE \A s \in Session : strand'[s] = <<>>
  BY <1>2, <1>6 DEF ErasedIsClosed
<1> QED
  BY <1>3, <1>4, <1>5, <1>6

\* ErasedIsClosed holds throughout.
LEMMA ErasedStep ==
  ASSUME TypeOK, ErasedIsClosed, [Next]_vars
  PROVE  ErasedIsClosed'
<1> USE DEF localVars, sessionVars, clientVars, userVars, historyVars, envUnchanged
<1>1. /\ worker \in [Worker -> Activity] /\ strand \in [Session -> Seq(Task)]
      /\ \A j \in jobs : j \in Job
  BY DEF TypeOK
<1>2. ASSUME NEW w \in Worker, async_run(w) \/ AcceptDone(w) \/ AcceptAborted(w) \/ ReadLoop(w)
                               \/ ReadEnd(w) \/ CloseSessionsDone(w)
      PROVE  ErasedIsClosed'
  <2>1. UNCHANGED <<strand, exit>>
    BY <1>2 DEF async_run, AcceptDone, AcceptAborted, ReadLoop, ReadEnd, CloseSessionsDone
  <2>2. ASSUME NEW v \in Worker, worker'[v].job = "post" PROVE worker'[v] = worker[v]
    <3>1. CASE UNCHANGED worker
      BY <3>1
    <3>2. CASE worker' = [worker EXCEPT ![w] = Idle]
      BY <1>1, <2>2, <3>2 DEF Idle
    <3>3. CASE ReadLoop(w)
      BY <1>1, <2>2, <3>3 DEF ReadLoop
    <3> QED
      BY <1>2, <3>1, <3>2, <3>3 DEF async_run, AcceptDone, AcceptAborted, ReadEnd,
         CloseSessionsDone, Finish
  <2> QED
    BY <2>1, <2>2, StrandKept
<1>3. ASSUME NEW w \in Worker, Accept(w) \/ AcceptThrows(w) PROVE ErasedIsClosed'
  <2>1. ASSUME NEW v \in Worker, worker'[v].job = "post" PROVE worker'[v] = worker[v]
    BY <1>1, <1>3, <2>1 DEF Accept, AcceptThrows
  <2>2. UNCHANGED <<strand, exit>> \/ \A s \in Session : strand'[s] = <<>>
    BY <1>3 DEF Accept, AcceptThrows
  <2> QED
    BY <2>1, <2>2, StrandKept
<1>4. ASSUME NEW w \in Worker, NEW s \in Session, Read(w, s) PROVE ErasedIsClosed'
  <2>1. ASSUME NEW v \in Worker, worker'[v].job = "post" PROVE worker'[v] = worker[v]
    BY <1>1, <1>4, <2>1 DEF Read
  <2>2. UNCHANGED <<strand, exit>> \/ \E q : close(s, q)
    BY <1>4, Zenon DEF Read
  <2> QED
    BY <2>1, <2>2, StrandKept
<1>5. ASSUME NEW w \in Worker, NEW m \in Msg, HandlerBegins(w, m) PROVE ErasedIsClosed'
  <2>1. ASSUME NEW v \in Worker, worker'[v].job = "post" PROVE worker'[v] = worker[v]
    BY <1>1, <1>5, <2>1 DEF HandlerBegins
  <2> QED
    BY <1>5, <2>1, StrandKept DEF HandlerBegins
<1>6. ASSUME NEW w \in Worker, NEW b \in Behaviour, HandlerReturns(w, b) PROVE ErasedIsClosed'
  <2> DEFINE a == worker[w]
             tasks == IF b.reply = "disabled" THEN <<>> ELSE HandlerTasks(w, a.m, b)
  <2>1. a.m \in Msg
    BY <1>1, <1>6, ActivityFields DEF HandlerReturns
  <2>2. \A i \in DOMAIN tasks : tasks[i].task # "close_session"
    BY <2>1, TasksIn
  <2>3. worker' = [worker EXCEPT ![w] = [job |-> "post", s |-> a.s, tasks |-> tasks]]
        /\ UNCHANGED <<strand, exit>>
    BY <1>6 DEF HandlerReturns
  <2> HIDE DEF tasks
  <2>4. worker'[w].tasks = tasks /\ \A v \in Worker : v # w => worker'[v] = worker[v]
    BY <1>1, <2>3
  <2> QED
    BY <2>2, <2>3, <2>4 DEF ErasedIsClosed
<1>7. ASSUME NEW w \in Worker, HandlerPosts(w) PROVE ErasedIsClosed'
  <2> DEFINE a == worker[w]
  <2>1. a.job = "post" /\ a.s \in Session /\ a.tasks \in Seq(Task) /\ exit' = exit
        /\ a = [job |-> "post", s |-> a.s, tasks |-> a.tasks]
    BY <1>1, <1>7, ActivityFields DEF HandlerPosts
  <2>2. CASE a.tasks # <<>>
    <3>1. strand' = [strand EXCEPT ![a.s] = Append(@, Head(a.tasks))]
      BY <1>1, <1>7, <2>2, PostsOn
    <3>2. worker' = [worker EXCEPT ![w] = [job |-> "post", s |-> a.s, tasks |-> Tail(a.tasks)]]
      BY <1>1, <1>7, <2>2, PostsOn
    <3>3. worker'[w].tasks = Tail(a.tasks) /\ \A v \in Worker : v # w => worker'[v] = worker[v]
      BY <1>1, <3>2
    <3>4. \A i \in DOMAIN Tail(a.tasks) : Tail(a.tasks)[i].task # "close_session"
      BY <2>1, <2>2, RestOfTasks DEF ErasedIsClosed
    <3>5. Head(a.tasks).task # "close_session"
      <4>1. 1 \in DOMAIN a.tasks /\ Head(a.tasks) = a.tasks[1]
        BY <2>1, <2>2
      <4> QED
        BY <2>1, <4>1 DEF ErasedIsClosed
    <3>6. /\ strand'[a.s] = Append(strand[a.s], Head(a.tasks))
          /\ \A r \in Session : r # a.s => strand'[r] = strand[r]
      BY <1>1, <2>1, <3>1
    <3>7. \A i \in DOMAIN strand'[a.s] :
            \/ strand'[a.s][i] = Head(a.tasks)
            \/ \E k \in DOMAIN strand[a.s] : strand'[a.s][i] = strand[a.s][k]
      BY <1>1, <2>1, <3>6, MoreTasks
    <3>8. \A i \in DOMAIN strand'[a.s] : strand'[a.s][i].task = "close_session" => exit'[a.s]
      BY <2>1, <3>5, <3>7 DEF ErasedIsClosed
    <3>9. ASSUME NEW x \in Session
          PROVE  \A i \in DOMAIN strand'[x] : strand'[x][i].task = "close_session" => exit'[x]
      BY <2>1, <3>6, <3>8 DEF ErasedIsClosed
    <3>10. ASSUME NEW v \in Worker, worker'[v].job = "post"
           PROVE  \A i \in DOMAIN worker'[v].tasks : worker'[v].tasks[i].task # "close_session"
      BY <3>3, <3>4, <3>10 DEF ErasedIsClosed
    <3> QED
      BY <3>9, <3>10 DEF ErasedIsClosed
  <2>3. CASE a.tasks = <<>>
    <3>1. worker' = [worker EXCEPT ![w] = Idle] /\ strand' = strand
      BY <1>7, <2>3 DEF HandlerPosts, Finish
    <3>2. ASSUME NEW v \in Worker, worker'[v].job = "post" PROVE worker'[v] = worker[v]
      BY <1>1, <3>1, <3>2 DEF Idle
    <3> QED
      BY <2>1, <3>1, <3>2, StrandKept
  <2> QED
    BY <2>2, <2>3
<1>8. ASSUME NEW w \in Worker, NEW s \in Session,
             \/ RunWrite(w, s) \/ RunWriteHandler(w, s) \/ RunCloseSessions(w, s)
             \/ RunCloseSocket(w, s) \/ RunCloseSession(w, s)
      PROVE  ErasedIsClosed'
  <2>1. ASSUME NEW v \in Worker, worker'[v].job = "post" PROVE worker'[v] = worker[v]
    BY <1>1, <1>8, <2>1 DEF RunWrite, RunWriteHandler, RunCloseSessions, RunCloseSocket,
       RunCloseSession
  <2>2. exit' = exit /\ strand[s] # <<>> /\ PopTask(s)
    BY <1>8 DEF RunWrite, RunWriteHandler, RunCloseSessions, RunCloseSocket, RunCloseSession,
       TaskReady
  <2> QED
    BY <2>1, <2>2, StrandKept
<1>9. ASSUME NEW w \in Worker, NEW s \in Session, RunExit(w, s) PROVE ErasedIsClosed'
  <2>1. \/ close(s, Tail(strand[s]))
        \/ exit' = exit /\ strand[s] # <<>> /\ PopTask(s)
    BY <1>9 DEF RunExit, TaskReady
  <2>2. UNCHANGED worker
    BY <1>9 DEF RunExit
  <2> QED
    BY <2>1, <2>2, StrandKept
<1>10. ASSUME NEW w \in Worker, CloseCopied(w) PROVE ErasedIsClosed'
  <2>1. ASSUME NEW v \in Worker, worker'[v].job = "post" PROVE worker'[v] = worker[v]
    BY <1>1, <1>10, <2>1 DEF CloseCopied
  <2>2. \E s \in Session : \E q : close(s, q)
    <3>1. worker[w].copy \in SUBSET Session
      BY <1>1, <1>10, ActivityFields DEF CloseCopied
    <3> QED
      BY <1>10, <3>1, Zenon DEF CloseCopied
  <2> QED
    BY <2>1, <2>2, StrandKept
<1>11. CASE CloseNext
  <2>1. copy \subseteq Session
    BY DEF TypeOK
  <2>2. \E s \in Session : \E q : close(s, q)
    BY <1>11, <2>1, Zenon DEF CloseNext
  <2> QED
    BY <1>11, <2>2, StrandKept DEF CloseNext
<1>12. CASE RunReturns \/ close_sessions \/ stop
  BY <1>12, StrandKept DEF RunReturns, close_sessions, stop
<1>13. ASSUME NEW s \in Session,
              Connect(s) \/ ClientSends(s) \/ ClientLeaves(s) \/ ReadCompletes(s)
       PROVE  ErasedIsClosed'
  BY <1>13, StrandKept DEF Connect, ClientSends, ClientLeaves, ReadCompletes
<1>14. CASE UNCHANGED vars
  BY <1>14, StrandKept DEF vars
<1>15. ASSUME NEW s \in Session, NEW ok \in BOOLEAN, WriteCompletes(s, ok) PROVE ErasedIsClosed'
  <2> DEFINE t == [task |-> "write_handler", ok |-> ok]
  <2>1. t.task # "close_session"
    OBVIOUS
  <2> HIDE DEF t
  <2>2. UNCHANGED <<worker, exit>> /\ strand' = [strand EXCEPT ![s] = Append(strand[s], t)]
    BY <1>1, <1>15 DEF WriteCompletes, t
  <2>3. strand'[s] = Append(strand[s], t) /\ \A r \in Session : r # s => strand'[r] = strand[r]
    BY <1>1, <2>2
  <2>4. \A i \in DOMAIN strand'[s] :
          strand'[s][i] = t \/ \E k \in DOMAIN strand[s] : strand'[s][i] = strand[s][k]
    BY <1>1, <2>3, MoreTasks
  <2>5. \A i \in DOMAIN strand'[s] : strand'[s][i].task = "close_session" => exit'[s]
    BY <2>1, <2>2, <2>4 DEF ErasedIsClosed
  <2>6. ASSUME NEW x \in Session
        PROVE  \A i \in DOMAIN strand'[x] : strand'[x][i].task = "close_session" => exit'[x]
    BY <2>2, <2>3, <2>5 DEF ErasedIsClosed
  <2> QED
    BY <2>2, <2>6 DEF ErasedIsClosed
<1> QED
  BY <1>2, <1>3, <1>4, <1>5, <1>6, <1>7, <1>8, <1>9, <1>10, <1>11, <1>12, <1>13, <1>14, <1>15
     DEF Next, WorkerGoesOn, RunTask
-----------------------------------------------------------------------------
(* OpenIsRegistered.                                                       *)

Registered(s) ==
  \/ s \in sessions \cup copy
  \/ \E w \in Worker : worker[w].job = "accept" /\ worker[w].s = s
  \/ \E w \in Worker : worker[w].job = "closing" /\ s \in worker[w].copy

\* A step that opens no session and takes none out.
LEMMA OpenKept ==
  ASSUME OpenIsRegistered,
         \A s \in Session : reader'[s] # "none" /\ ~exit'[s] =>
           reader[s] # "none" /\ ~exit[s] /\ (Registered(s) => Registered(s)')
  PROVE  OpenIsRegistered'
<1> SUFFICES ASSUME NEW s \in Session, reader'[s] # "none", ~exit'[s]
             PROVE  Registered(s)'
  BY DEF OpenIsRegistered, Registered
<1>1. Registered(s)
  BY DEF OpenIsRegistered, Registered
<1> QED
  BY <1>1

\* Who registers a session goes on to.
LEMMA RegisteredKept ==
  ASSUME NEW s, sessions \subseteq sessions', copy \subseteq copy',
         \A w \in Worker : worker[w].job \in {"accept", "closing"} => worker'[w] = worker[w]
  PROVE  Registered(s) => Registered(s)'
BY DEF Registered

\* OpenIsRegistered is preserved by the steps of the workers ...
LEMMA OpenWorkerStep ==
  ASSUME TypeOK, TypeOK', ReadOnce, ErasedIsClosed, OpenIsRegistered, NEW w \in Worker,
         \/ async_run(w) \/ Accept(w) \/ AcceptThrows(w) \/ AcceptAborted(w) \/ WorkerGoesOn(w)
         \/ \E s \in Session : Read(w, s) \/ RunTask(w, s)
         \/ \E m \in Msg : HandlerBegins(w, m)
  PROVE  OpenIsRegistered'
<1> USE DEF localVars, sessionVars, clientVars, userVars, historyVars
<1>1. /\ worker \in [Worker -> Activity] /\ strand \in [Session -> Seq(Task)]
      /\ exit \in [Session -> BOOLEAN]
      /\ reader \in [Session -> {"none", "armed", "due"}] /\ \A j \in jobs : j \in Job
  BY DEF TypeOK
<1>2. CASE async_run(w) \/ AcceptAborted(w)
  <2>1. \A v \in Worker : worker[v].job \in {"accept", "closing"} => worker'[v] = worker[v]
    BY <1>1, <1>2 DEF async_run, AcceptAborted
  <2>2. UNCHANGED <<reader, exit, sessions, copy>>
    BY <1>2 DEF async_run, AcceptAborted
  <2> QED
    BY <2>1, <2>2, OpenKept, RegisteredKept
<1>3. CASE Accept(w)
  <2>1. PICK j \in jobs : /\ j.job = "accept" /\ worker' = [worker EXCEPT ![w] = j]
                          /\ reader' = [reader EXCEPT ![j.s] = "armed"]
    BY <1>3 DEF Accept
  <2>2. worker[w].job = "idle" /\ UNCHANGED <<exit, sessions, copy>>
    BY <1>3 DEF Accept, Free
  <2>3. \A v \in Worker : worker[v].job \in {"accept", "closing"} => worker'[v] = worker[v]
    BY <1>1, <2>1, <2>2
  <2>4. worker'[w].job = "accept" /\ worker'[w].s = j.s
    BY <1>1, <2>1
  <2>5. \A s \in Session : s # j.s => reader'[s] = reader[s]
    BY <1>1, <2>1
  <2>6. ASSUME NEW s \in Session, reader'[s] # "none", ~exit'[s] PROVE Registered(s)'
    <3>1. CASE s = j.s
      BY <2>4, <3>1 DEF Registered
    <3>2. CASE s # j.s
      <4>1. Registered(s)
        BY <2>2, <2>5, <2>6, <3>2 DEF OpenIsRegistered, Registered
      <4> QED
        BY <2>2, <2>3, <4>1, RegisteredKept
    <3> QED
      BY <3>1, <3>2
  <2> QED
    BY <2>6 DEF OpenIsRegistered, Registered
<1>4. CASE AcceptThrows(w)
  BY <1>4 DEF AcceptThrows, OpenIsRegistered
<1>5. CASE AcceptDone(w)
  <2>1. /\ worker' = [worker EXCEPT ![w] = Idle] /\ sessions' = sessions \cup {worker[w].s}
        /\ UNCHANGED <<reader, exit, copy>>
    BY <1>5 DEF AcceptDone, Finish
  <2>2. \A v \in Worker : v # w => worker'[v] = worker[v]
    BY <1>1, <2>1
  <2>3. ASSUME NEW s \in Session, Registered(s) PROVE Registered(s)'
    BY <1>5, <2>1, <2>2, <2>3 DEF Registered, AcceptDone
  <2> QED
    BY <2>1, <2>3, OpenKept
<1>6. CASE ReadLoop(w) \/ (\E b \in Behaviour : HandlerReturns(w, b)) \/ HandlerPosts(w)
  <2>1. \A v \in Worker : worker[v].job \in {"accept", "closing"} => worker'[v] = worker[v]
    <3>1. worker[w].job \in {"read", "handler", "post"}
      BY <1>6 DEF ReadLoop, HandlerReturns, HandlerPosts
    <3>2. \A v \in Worker : v # w => worker'[v] = worker[v]
      BY <1>1, <1>6 DEF ReadLoop, HandlerReturns, HandlerPosts, Finish
    <3> QED
      BY <3>1, <3>2
  <2>2. UNCHANGED <<reader, exit, sessions, copy>>
    BY <1>6 DEF ReadLoop, HandlerReturns, HandlerPosts
  <2> QED
    BY <2>1, <2>2, OpenKept, RegisteredKept
<1>7. CASE ReadEnd(w)
  <2> DEFINE r == worker[w].s
  <2>1. /\ worker[w].job = "read" /\ worker' = [worker EXCEPT ![w] = Idle]
        /\ reader' = [reader EXCEPT ![r] = IF exit[r] THEN "none" ELSE "armed"]
        /\ UNCHANGED <<exit, sessions, copy>>
    BY <1>7 DEF ReadEnd, Finish
  <2>2. reader[r] = "due"
    BY <2>1 DEF ReadOnce
  <2>3. \A v \in Worker : worker[v].job \in {"accept", "closing"} => worker'[v] = worker[v]
    BY <1>1, <2>1
  <2>4. \A s \in Session : reader'[s] # "none" => reader[s] # "none"
    BY <1>1, <2>1, <2>2
  <2> QED
    BY <2>1, <2>3, <2>4, OpenKept, RegisteredKept
<1>8. ASSUME NEW r \in Session, Read(w, r) PROVE OpenIsRegistered'
  <2>1. /\ worker[w].job = "idle" /\ UNCHANGED <<sessions, copy>>
        /\ \A v \in Worker : v # w => worker'[v] = worker[v]
    BY <1>1, <1>8 DEF Read, Free
  <2>2. \A s \in Session : (reader'[s] # "none" => reader[s] # "none") /\ (exit[s] => exit'[s])
    BY <1>1, <1>8 DEF Read, close
  <2>3. \A v \in Worker : worker[v].job \in {"accept", "closing"} => worker'[v] = worker[v]
    BY <2>1
  <2> QED
    BY <2>1, <2>2, <2>3, OpenKept, RegisteredKept
<1>9. ASSUME NEW m \in Msg, HandlerBegins(w, m) PROVE OpenIsRegistered'
  <2>1. \A v \in Worker : worker[v].job \in {"accept", "closing"} => worker'[v] = worker[v]
    BY <1>1, <1>9 DEF HandlerBegins, Free
  <2> QED
    BY <1>9, <2>1, OpenKept, RegisteredKept DEF HandlerBegins
<1>10. ASSUME NEW r \in Session, RunWrite(w, r) \/ RunExit(w, r) \/ RunCloseSocket(w, r)
       PROVE  OpenIsRegistered'
  <2>1. UNCHANGED <<worker, reader, sessions, copy>>
    BY <1>10 DEF RunWrite, RunExit, RunCloseSocket
  <2>2. \A s \in Session : exit[s] => exit'[s]
    BY <1>1, <1>10 DEF RunWrite, RunExit, RunCloseSocket, close
  <2> QED
    BY <2>1, <2>2, OpenKept, RegisteredKept
<1>11. ASSUME NEW r \in Session, RunCloseSessions(w, r) PROVE OpenIsRegistered'
  <2>1. worker[w].job = "idle" /\ UNCHANGED <<reader, exit, copy>>
    BY <1>11 DEF RunCloseSessions, TaskReady, Free
  <2>2. CASE UNCHANGED <<worker, sessions>>
    BY <2>1, <2>2, OpenKept, RegisteredKept
  <2>3. CASE worker' = [worker EXCEPT ![w] = [job |-> "closing", s |-> r, copy |-> sessions]]
    <3>1. /\ worker'[w].job = "closing" /\ worker'[w].copy = sessions
          /\ \A v \in Worker : v # w => worker'[v] = worker[v]
      BY <1>1, <2>3
    <3>2. ASSUME NEW s \in Session, Registered(s) PROVE Registered(s)'
      BY <2>1, <3>1, <3>2 DEF Registered
    <3> QED
      BY <2>1, <3>2, OpenKept
  <2> QED
    BY <1>11, <2>2, <2>3 DEF RunCloseSessions
<1>12. ASSUME NEW r \in Session, RunCloseSession(w, r) PROVE OpenIsRegistered'
  <2>1. /\ strand[r] # <<>> /\ Head(strand[r]).task = "close_session"
        /\ sessions' = sessions \ {r} /\ UNCHANGED <<worker, reader, exit, copy>>
    BY <1>12 DEF RunCloseSession, TaskReady, close_session
  <2>2. 1 \in DOMAIN strand[r] /\ Head(strand[r]) = strand[r][1]
    BY <1>1, <2>1
  <2>3. exit[r]
    BY <2>1, <2>2 DEF ErasedIsClosed
  <2>4. ASSUME NEW s \in Session, s # r, Registered(s) PROVE Registered(s)'
    BY <2>1, <2>4 DEF Registered
  <2> QED
    BY <2>1, <2>3, <2>4, OpenKept
<1>13. CASE CloseCopied(w)
  <2>1. worker[w] = [job |-> "closing", s |-> worker[w].s, copy |-> worker[w].copy]
        /\ worker[w].copy \in SUBSET Session
    BY <1>1, <1>13, ActivityFields DEF CloseCopied
  <2>2. PICK r \in worker[w].copy :
          /\ exit' = [exit EXCEPT ![r] = TRUE] /\ worker' = [worker EXCEPT ![w].copy = @ \ {r}]
          /\ UNCHANGED <<reader, sessions, copy>>
    BY <1>13 DEF CloseCopied, close
  <2>3. /\ worker'[w].job = "closing" /\ worker'[w].copy = worker[w].copy \ {r}
        /\ \A v \in Worker : v # w => worker'[v] = worker[v]
    BY <1>1, <2>1, <2>2
  <2>4. exit'[r] /\ \A s \in Session : exit[s] => exit'[s]
    BY <1>1, <2>1, <2>2
  <2>5. ASSUME NEW s \in Session, s # r, Registered(s) PROVE Registered(s)'
    <3>1. worker[w].job = "closing"
      BY <1>13 DEF CloseCopied
    <3> QED
      BY <2>2, <2>3, <2>5, <3>1 DEF Registered
  <2> QED
    BY <2>2, <2>4, <2>5, OpenKept
<1>14. CASE CloseSessionsDone(w)
  <2>1. /\ worker[w].job = "closing" /\ worker[w].copy = {} /\ worker' = [worker EXCEPT ![w] = Idle]
        /\ UNCHANGED <<reader, exit, sessions, copy>>
    BY <1>14 DEF CloseSessionsDone, Finish
  <2>2. \A v \in Worker : v # w => worker'[v] = worker[v]
    BY <1>1, <2>1
  <2>3. ASSUME NEW s \in Session, Registered(s) PROVE Registered(s)'
    BY <2>1, <2>2, <2>3 DEF Registered
  <2> QED
    BY <2>1, <2>3, OpenKept
<1>15. ASSUME NEW r \in Session, RunWriteHandler(w, r) PROVE OpenIsRegistered'
  BY <1>15, OpenKept, RegisteredKept DEF RunWriteHandler
<1> QED
  BY <1>2, <1>3, <1>4, <1>5, <1>6, <1>7, <1>8, <1>9, <1>10, <1>11, <1>12, <1>13, <1>14, <1>15
     DEF WorkerGoesOn, RunTask

\* ... and by the others.
LEMMA OpenStep ==
  ASSUME TypeOK, TypeOK', ReadOnce, ErasedIsClosed, OpenIsRegistered, [Next]_vars
  PROVE  OpenIsRegistered'
<1> USE DEF localVars, sessionVars, clientVars, userVars, historyVars, envUnchanged
<1>1. exit \in [Session -> BOOLEAN] /\ reader \in [Session -> {"none", "armed", "due"}]
      /\ copy \subseteq Session
  BY DEF TypeOK
<1>2. CASE RunReturns \/ stop \/ UNCHANGED vars
  BY <1>2, OpenKept, RegisteredKept DEF RunReturns, stop, vars
<1>3. CASE close_sessions
  <2>1. copy' = sessions /\ copy = {} /\ UNCHANGED <<worker, reader, exit>>
    BY <1>3 DEF close_sessions
  <2>2. ASSUME NEW s \in Session, Registered(s) PROVE Registered(s)'
    BY <2>1, <2>2 DEF Registered
  <2> QED
    BY <2>1, <2>2, OpenKept
<1>4. CASE CloseNext
  <2>1. PICK r \in copy : exit' = [exit EXCEPT ![r] = TRUE] /\ copy' = copy \ {r}
    BY <1>4 DEF CloseNext, close
  <2>2. UNCHANGED <<worker, reader, sessions>>
    BY <1>4 DEF CloseNext
  <2>3. exit'[r] /\ \A s \in Session : exit[s] => exit'[s]
    BY <1>1, <2>1
  <2>4. ASSUME NEW s \in Session, s # r, Registered(s) PROVE Registered(s)'
    BY <2>1, <2>2, <2>4 DEF Registered
  <2> QED
    BY <2>2, <2>3, <2>4, OpenKept
<1>5. ASSUME NEW r \in Session, Connect(r) \/ ClientSends(r) \/ ClientLeaves(r)
      PROVE  OpenIsRegistered'
  BY <1>5, OpenKept, RegisteredKept DEF Connect, ClientSends, ClientLeaves
<1>6. ASSUME NEW r \in Session, ReadCompletes(r) PROVE OpenIsRegistered'
  <2>1. \A s \in Session : reader'[s] # "none" => reader[s] # "none"
    BY <1>1, <1>6 DEF ReadCompletes
  <2> QED
    BY <1>6, <2>1, OpenKept, RegisteredKept DEF ReadCompletes
<1>7. ASSUME NEW r \in Session, NEW ok \in BOOLEAN, WriteCompletes(r, ok) PROVE OpenIsRegistered'
  BY <1>7, OpenKept, RegisteredKept DEF WriteCompletes
<1> QED
  BY <1>2, <1>3, <1>4, <1>5, <1>6, <1>7, OpenWorkerStep DEF Next

\* The invariant of the theorems below: who is accepted, where its read loop is,
\* and that it is registered as long as it is open.
LEMMA OpenAlways == Spec => [](AcceptInv /\ ReadOnce /\ ErasedIsClosed /\ OpenIsRegistered)
<1> DEFINE Inv == AcceptInv /\ ReadOnce /\ ErasedIsClosed /\ OpenIsRegistered
<1>1. Init => Inv
  <2> SUFFICES ASSUME Init PROVE ReadOnce /\ ErasedIsClosed /\ OpenIsRegistered
    BY AcceptInit
  <2>1. /\ jobs = {} /\ (\A w \in Worker : worker[w].job = "off")
        /\ \A s \in Session : reader[s] = "none" /\ strand[s] = <<>>
    BY DEF Init
  <2> QED
    BY <2>1 DEF ReadOnce, ErasedIsClosed, OpenIsRegistered
<1>2. Inv /\ [Next]_vars => Inv'
  <2> SUFFICES ASSUME Inv, [Next]_vars PROVE Inv'
    OBVIOUS
  <2>1. AcceptInv'
    BY AcceptStep
  <2>2. TypeOK /\ TypeOK'
    BY <2>1 DEF AcceptInv
  <2> QED
    BY <2>1, <2>2, ReadStep, ErasedStep, OpenStep
<1> QED
  BY <1>1, <1>2, PTL DEF Spec

\* OpenIsRegistered, for any number of workers, sessions and messages: whatever
\* the workers are in the middle of, close_sessions() reaches every open session.
THEOREM OpenRegistered == Spec => []OpenIsRegistered
BY OpenAlways, PTL

\* A session's reads never overlap, for any number of workers: do_read() has an
\* operation outstanding, a completion that waits for a worker or a worker that
\* runs it, one of the three and once, so that the unpacker and the dispatch of a
\* session, which no lock guards, are only ever used by one worker.
THEOREM OneReadAtATime == Spec => []ReadOnce
BY OpenAlways, PTL
-----------------------------------------------------------------------------
(* The reply comes before the exit.                                        *)

\* Message m is in a sequence of messages.
In(q, m) == \E i \in DOMAIN q : q[i] = m
NoDup(q) == \A i, k \in DOMAIN q : q[i] = q[k] => i = k

\* A job, or what a worker is in, that will lead to the return of m's handler.
JobHas(j, m) == (j.job = "read" /\ In(j.chunk, m)) \/ (j.job = "handler" /\ j.m = m)
WorkerHas(a, m) == (a.job = "read" /\ In(a.left, m)) \/ (a.job = "handler" /\ a.m = m)

\* No sequence of messages repeats one.
Distinct ==
  /\ \A s \in Session : NoDup(inbox[s])
  /\ \A j \in jobs : j.job = "read" => NoDup(j.chunk)
  /\ \A w \in Worker : worker[w].job = "read" => NoDup(worker[w].left)

\* A message that was sent and not handled is in one place.
OnePlace ==
  \A m \in Msg :
    /\ \A s, t \in Session : In(inbox[s], m) /\ In(inbox[t], m) => s = t
    /\ \A j, k \in jobs : JobHas(j, m) /\ JobHas(k, m) => j = k
    /\ \A v, w \in Worker : WorkerHas(worker[v], m) /\ WorkerHas(worker[w], m) => v = w
    /\ \A s \in Session, j \in jobs : ~(In(inbox[s], m) /\ JobHas(j, m))
    /\ \A s \in Session, w \in Worker : ~(In(inbox[s], m) /\ WorkerHas(worker[w], m))
    /\ \A j \in jobs, w \in Worker : ~(JobHas(j, m) /\ WorkerHas(worker[w], m))

\* The handler of m has not returned: m is on its way to it.
Waiting(m) ==
  \/ \E s \in Session : In(inbox[s], m)
  \/ \E j \in jobs : JobHas(j, m)
  \/ \E w \in Worker : WorkerHas(worker[w], m)

\* What waits was sent.
WaitingSent == \A m \in Msg : Waiting(m) => m <= msgs

IsTask(t, kind, m) == t.task = kind /\ t.m = m

\* The handler of m left something: a reply, the task of an exit, a closed session.
Done(m) ==
  \/ m \in replied
  \/ \E s \in Session : closer[s] = m
  \/ \E s \in Session : \E i \in DOMAIN strand[s] : IsTask(strand[s][i], "close", m)
  \/ \E w \in Worker : /\ worker[w].job = "post"
                       /\ \E i \in DOMAIN worker[w].tasks : IsTask(worker[w].tasks[i], "close", m)

\* Before its handler returns a message leaves nothing.
DoneOnce == \A m \in Msg : Done(m) => ~Waiting(m) /\ m <= msgs

\* The reply to m is out, or is not to be waited for.
Settled(s, m) == m \notin replied \/ m \in written \/ exit[s]

\* The reply is ahead of the exit, in the strand or among the tasks still to be
\* posted to it.
ReplyAhead ==
  /\ \A s \in Session : \A i \in DOMAIN strand[s] :
       strand[s][i].task = "close" =>
         \/ Settled(s, strand[s][i].m)
         \/ \E k \in 1..(i-1) : IsTask(strand[s][k], "write", strand[s][i].m)
  /\ \A w \in Worker : worker[w].job = "post" =>
       \A i \in DOMAIN worker[w].tasks : worker[w].tasks[i].task = "close" =>
         LET m == worker[w].tasks[i].m
             s == worker[w].s
         IN  \/ Settled(s, m)
             \/ \E k \in DOMAIN strand[s] : IsTask(strand[s][k], "write", m)
             \/ \E k \in 1..(i-1) : IsTask(worker[w].tasks[k], "write", m)

ReplyInv == Distinct /\ OnePlace /\ WaitingSent /\ DoneOnce /\ ReplyAhead /\ ReplyBeforeExit

\* What is said of messages before their handlers return.
Places == Distinct /\ OnePlace /\ WaitingSent

\* What is left of a sequence without repetitions, and what was taken from it.
LEMMA RestOfMsgs ==
  ASSUME NEW q \in Seq(Msg), q # <<>>, NoDup(q)
  PROVE  /\ NoDup(Tail(q)) /\ Head(q) \in Msg /\ In(q, Head(q)) /\ ~In(Tail(q), Head(q))
         /\ \A m : In(Tail(q), m) => In(q, m)
<1>1. /\ Tail(q) \in Seq(Msg) /\ Len(Tail(q)) = Len(q) - 1 /\ Len(q) \in Nat /\ Len(q) >= 1
      /\ \A i \in 1..Len(Tail(q)) : Tail(q)[i] = q[i+1]
      /\ Head(q) = q[1] /\ Head(q) \in Msg
      /\ DOMAIN q = 1..Len(q) /\ DOMAIN Tail(q) = 1..Len(Tail(q))
  OBVIOUS
<1>2. \A i \in DOMAIN Tail(q) : i+1 \in DOMAIN q /\ i+1 # 1 /\ Tail(q)[i] = q[i+1]
  BY <1>1
<1>3. 1 \in DOMAIN q
  BY <1>1
<1>4. In(q, Head(q)) /\ ~In(Tail(q), Head(q)) /\ \A m : In(Tail(q), m) => In(q, m)
  BY <1>1, <1>2, <1>3 DEF In, NoDup
<1>5. ASSUME NEW i \in DOMAIN Tail(q), NEW k \in DOMAIN Tail(q), Tail(q)[i] = Tail(q)[k]
      PROVE  i = k
  <2>1. i+1 = k+1 /\ i \in Nat /\ k \in Nat
    BY <1>1, <1>2, <1>5 DEF NoDup
  <2> QED
    BY <2>1
<1> QED
  BY <1>1, <1>4, <1>5 DEF NoDup

\* How many messages a read leaves.
LEMMA RestLength ==
  ASSUME NEW S, NEW q \in Seq(S), NEW n \in Nat, n <= Len(q)
  PROVE  Len(SubSeq(q, n+1, Len(q))) = Len(q) - n
OBVIOUS

\* A sequence without repetitions cut in two.
LEMMA CutMsgs ==
  ASSUME NEW q \in Seq(Msg), NoDup(q), NEW n \in 0..Len(q)
  PROVE  /\ NoDup(SubSeq(q, 1, n)) /\ NoDup(SubSeq(q, n+1, Len(q)))
         /\ \A m : In(SubSeq(q, 1, n), m) => In(q, m)
         /\ \A m : In(SubSeq(q, n+1, Len(q)), m) => In(q, m)
         /\ \A m : ~(In(SubSeq(q, 1, n), m) /\ In(SubSeq(q, n+1, Len(q)), m))
<1> DEFINE a == SubSeq(q, 1, n)
           b == SubSeq(q, n+1, Len(q))
<1>1. /\ Len(q) \in Nat /\ n \in Nat /\ n <= Len(q) /\ DOMAIN q = 1..Len(q)
  OBVIOUS
<1>2. a \in Seq(Msg) /\ Len(a) = n /\ \A i \in 1..n : a[i] = q[i]
  BY <1>1
<1>3. b \in Seq(Msg) /\ Len(b) = Len(q) - n /\ \A i \in 1..(Len(q) - n) : b[i] = q[i+n]
  <2>1. \A i \in 1..Len(q) : q[i] \in Msg
    BY <1>1
  <2>2. b \in Seq(Msg)
    BY <1>1, <2>1, SubSeqProperties
  <2>3. Len(b) = Len(q) - n
    BY <1>1, RestLength
  <2>4. \A i \in 1..(Len(q) - n) : b[i] = q[i+n]
    BY <1>1
  <2> QED
    BY <2>2, <2>3, <2>4
<1>4. DOMAIN a = 1..n /\ DOMAIN b = 1..(Len(q) - n)
  BY <1>2, <1>3
<1> HIDE DEF a, b
<1>5. \A i \in DOMAIN a : i \in DOMAIN q /\ i \in Nat /\ i <= n /\ a[i] = q[i]
  BY <1>1, <1>2, <1>4
<1>6. \A i \in DOMAIN b : i \in Nat /\ i+n \in DOMAIN q /\ i+n > n /\ b[i] = q[i+n]
  BY <1>1, <1>3, <1>4
<1>7. NoDup(a)
  BY <1>5 DEF NoDup
<1>8. ASSUME NEW i \in DOMAIN b, NEW k \in DOMAIN b, b[i] = b[k] PROVE i = k
  <2>1. i+n = k+n
    BY <1>6, <1>8 DEF NoDup
  <2> QED
    BY <1>1, <1>6, <2>1
<1>9. ASSUME NEW i \in DOMAIN a, NEW k \in DOMAIN b PROVE a[i] # b[k]
  <2>1. i # k + n
    BY <1>1, <1>5, <1>6
  <2> QED
    BY <1>5, <1>6, <2>1 DEF NoDup
<1>10. (\A m : In(a, m) => In(q, m)) /\ (\A m : In(b, m) => In(q, m))
  BY <1>5, <1>6 DEF In
<1>11. \A m : ~(In(a, m) /\ In(b, m))
  BY <1>9 DEF In
<1> QED
  BY <1>7, <1>8, <1>10, <1>11 DEF NoDup, a, b

\* A message behind the others.
LEMMA MoreMsgs ==
  ASSUME NEW q \in Seq(Msg), NoDup(q), NEW x, ~In(q, x)
  PROVE  /\ NoDup(Append(q, x))
         /\ \A m : In(Append(q, x), m) => m = x \/ In(q, m)
<1> DEFINE a == Append(q, x)
<1>1. /\ DOMAIN q = 1..Len(q) /\ Len(q) \in Nat /\ DOMAIN a = 1..(Len(q)+1)
      /\ a[Len(q)+1] = x /\ \A i \in 1..Len(q) : a[i] = q[i]
  OBVIOUS
<1> HIDE DEF a
<1>2. \A i \in DOMAIN a : (i = Len(q)+1 /\ a[i] = x) \/ (i \in DOMAIN q /\ a[i] = q[i])
  BY <1>1
<1>3. NoDup(a)
  BY <1>2 DEF NoDup, In
<1>4. \A m : In(a, m) => m = x \/ In(q, m)
  BY <1>2 DEF In
<1> QED
  BY <1>3, <1>4 DEF a

\* Steps that move no message towards its handler.
LEMMA PlacesKept ==
  ASSUME Places, inbox' = inbox, msgs' = msgs,
         \A j \in jobs' : j.job \in {"read", "handler"} => j \in jobs,
         \A v \in Worker : worker'[v].job \in {"read", "handler"} => worker'[v] = worker[v]
  PROVE  Places' /\ \A m \in Msg : Waiting(m)' => Waiting(m)
<1>1. Distinct'
  BY DEF Places, Distinct
<1>2. ASSUME NEW m \in Msg
      PROVE  /\ \A j \in jobs' : JobHas(j, m) => j \in jobs
             /\ \A v \in Worker : WorkerHas(worker'[v], m) => WorkerHas(worker[v], m)
  BY DEF JobHas, WorkerHas
<1>3. OnePlace'
  BY <1>2 DEF Places, OnePlace
<1>4. \A m \in Msg : Waiting(m)' => Waiting(m)
  BY <1>2 DEF Waiting
<1> QED
  BY <1>1, <1>3, <1>4 DEF Places, WaitingSent

\* The client sends a message nobody has.
LEMMA SendPlaces ==
  ASSUME TypeOK, Places, NEW s \in Session, ClientSends(s)
  PROVE  Places' /\ \A m \in Msg : Waiting(m)' => Waiting(m) \/ m > msgs
<1> USE DEF localVars, sessionVars, clientVars, userVars, historyVars, envUnchanged
<1> DEFINE q == inbox[s]
           x == msgs + 1
<1>1. /\ inbox \in [Session -> Seq(Msg)] /\ q \in Seq(Msg) /\ msgs \in Nat /\ x \in Msg
      /\ Msg \subseteq Nat
  BY BoundsAssumption DEF TypeOK, ClientSends, Msg
<1>2. /\ inbox' = [inbox EXCEPT ![s] = Append(q, x)] /\ msgs' = x
      /\ UNCHANGED <<jobs, worker>>
  BY DEF ClientSends
<1>3. ~Waiting(x)
  BY <1>1 DEF Places, WaitingSent
<1>4. NoDup(q) /\ ~In(q, x)
  BY <1>3 DEF Places, Distinct, Waiting
<1>5. inbox'[s] = Append(q, x) /\ \A r \in Session : r # s => inbox'[r] = inbox[r]
  BY <1>1, <1>2
<1> HIDE DEF x
<1>6. NoDup(inbox'[s]) /\ \A m : In(inbox'[s], m) => m = x \/ In(inbox[s], m)
  BY <1>1, <1>4, <1>5, MoreMsgs
<1>7. \A r \in Session : \A m : In(inbox'[r], m) => (r = s /\ m = x) \/ In(inbox[r], m)
  BY <1>5, <1>6
<1>8. Distinct'
  BY <1>2, <1>5, <1>6 DEF Places, Distinct
<1>9. OnePlace'
  BY <1>2, <1>3, <1>7 DEF Places, OnePlace, Waiting
<1>10. \A m \in Msg : Waiting(m)' => Waiting(m) \/ m = x
  BY <1>2, <1>7 DEF Waiting
<1>11. x > msgs
  BY <1>1 DEF x
<1>12. WaitingSent'
  <2>1. ASSUME NEW m \in Msg, Waiting(m)' PROVE m <= msgs'
    <3>1. m \in Nat /\ x \in Nat /\ (m <= msgs \/ m = x)
      BY <1>1, <1>10, <2>1 DEF Places, WaitingSent
    <3> QED
      BY <1>1, <1>2, <1>11, <3>1
  <2> QED
    BY <2>1 DEF WaitingSent
<1> QED
  BY <1>8, <1>9, <1>10, <1>11, <1>12 DEF Places

\* A read takes messages out of the socket.
LEMMA ReadPlaces ==
  ASSUME TypeOK, Places, NEW s \in Session, ReadCompletes(s)
  PROVE  Places' /\ \A m \in Msg : Waiting(m)' => Waiting(m)
<1> USE DEF localVars, sessionVars, clientVars, userVars, historyVars, envUnchanged
<1> DEFINE q == inbox[s]
<1>1. inbox \in [Session -> Seq(Msg)] /\ q \in Seq(Msg)
  BY DEF TypeOK
<1>2. PICK n \in 0..Len(q), ec \in {"ok", "eof", "other"} :
        /\ jobs' = jobs \cup {[job |-> "read", s |-> s, ec |-> ec, chunk |-> SubSeq(q, 1, n)]}
        /\ inbox' = [inbox EXCEPT ![s] = SubSeq(q, n+1, Len(q))]
  BY DEF ReadCompletes
<1>3. UNCHANGED <<worker, msgs>>
  BY DEF ReadCompletes
<1> DEFINE a == SubSeq(q, 1, n)
           b == SubSeq(q, n+1, Len(q))
           k == [job |-> "read", s |-> s, ec |-> ec, chunk |-> a]
<1>4. NoDup(q)
  BY DEF Places, Distinct
<1>5. /\ NoDup(a) /\ NoDup(b) /\ (\A m : In(a, m) => In(q, m)) /\ (\A m : In(b, m) => In(q, m))
      /\ \A m : ~(In(a, m) /\ In(b, m))
  BY <1>1, <1>4, CutMsgs
<1> HIDE DEF a, b
<1>6. /\ k.job = "read" /\ k.chunk = a /\ jobs' = jobs \cup {k}
      /\ \A m : JobHas(k, m) <=> In(a, m)
  BY <1>2 DEF JobHas, a
<1>7. inbox'[s] = b /\ \A r \in Session : r # s => inbox'[r] = inbox[r]
  BY <1>1, <1>2 DEF b
<1> HIDE DEF k
<1>8. Distinct'
  BY <1>3, <1>5, <1>6, <1>7 DEF Places, Distinct
<1>9. /\ \A r \in Session : \A m : In(inbox'[r], m) =>
           In(inbox[r], m) /\ (r = s => ~JobHas(k, m))
      /\ \A m : JobHas(k, m) => In(inbox[s], m)
  BY <1>5, <1>6, <1>7
<1> HIDE DEF q
<1>10. OnePlace'
  BY <1>3, <1>6, <1>9 DEF Places, OnePlace
<1>11. \A m \in Msg : Waiting(m)' => Waiting(m)
  BY <1>3, <1>6, <1>9 DEF Waiting
<1> QED
  BY <1>3, <1>8, <1>10, <1>11 DEF Places, WaitingSent

\* A worker takes a job over.
LEMMA TakePlaces ==
  ASSUME Places, worker \in [Worker -> Activity], NEW w \in Worker, NEW j \in jobs,
         NEW r, jobs' = jobs \ {j}, worker' = [worker EXCEPT ![w] = r],
         UNCHANGED <<inbox, msgs>>,
         \A m : WorkerHas(r, m) => JobHas(j, m),
         r.job = "read" => NoDup(r.left)
  PROVE  Places' /\ \A m \in Msg : Waiting(m)' => Waiting(m)
<1>1. worker'[w] = r /\ \A v \in Worker : v # w => worker'[v] = worker[v]
  OBVIOUS
<1>2. Distinct'
  BY <1>1 DEF Places, Distinct
<1>3. \A v \in Worker : \A m : WorkerHas(worker'[v], m) =>
        (v # w /\ WorkerHas(worker[v], m)) \/ (v = w /\ JobHas(j, m))
  BY <1>1
<1>4. OnePlace'
  BY <1>3 DEF Places, OnePlace
<1>5. \A m \in Msg : Waiting(m)' => Waiting(m)
  BY <1>3 DEF Waiting
<1> QED
  BY <1>2, <1>4, <1>5 DEF Places, WaitingSent

\* The loop posts the handler of a message.
LEMMA LoopPlaces ==
  ASSUME TypeOK, Places, NEW w \in Worker, ReadLoop(w)
  PROVE  Places' /\ \A m \in Msg : Waiting(m)' => Waiting(m)
<1> USE DEF localVars, sessionVars, clientVars, userVars, historyVars
<1> DEFINE a == worker[w]
           q == a.left
           h == Head(q)
           k == [job |-> "handler", s |-> a.s, m |-> h]
           r == [job |-> "read", s |-> a.s, left |-> Tail(q)]
<1>1. worker \in [Worker -> Activity]
  BY DEF TypeOK
<1>2. q \in Seq(Msg) /\ q # <<>> /\ a.job = "read" /\ a = [job |-> "read", s |-> a.s, left |-> q]
  BY <1>1, ActivityFields DEF ReadLoop
<1>3. worker' = [worker EXCEPT ![w] = r]
  <2>1. [a EXCEPT !.left = Tail(q)] = r
    BY <1>2
  <2>2. worker' = [worker EXCEPT ![w] = [a EXCEPT !.left = Tail(a.left)]]
    BY <1>1 DEF ReadLoop
  <2> QED
    BY <2>1, <2>2
<1>4. jobs' = jobs \cup {k} /\ UNCHANGED <<inbox, msgs>>
  BY DEF ReadLoop
<1>5. worker'[w] = r /\ \A v \in Worker : v # w => worker'[v] = worker[v]
  BY <1>1, <1>3
<1>6. NoDup(q)
  BY <1>2 DEF Places, Distinct
<1>7. /\ NoDup(Tail(q)) /\ h \in Msg /\ In(q, h) /\ ~In(Tail(q), h)
      /\ \A m : In(Tail(q), m) => In(q, m)
  BY <1>2, <1>6, RestOfMsgs
<1>8. \A m : WorkerHas(a, m) <=> In(q, m)
  BY <1>2 DEF WorkerHas
<1>9. r.job = "read" /\ r.left = Tail(q) /\ \A m : WorkerHas(r, m) <=> In(Tail(q), m)
  BY DEF WorkerHas
<1>10. k.job = "handler" /\ \A m : JobHas(k, m) <=> m = h
  BY DEF JobHas
<1> HIDE DEF r, k, h, q
<1>11. Distinct'
  BY <1>4, <1>5, <1>7, <1>9, <1>10 DEF Places, Distinct
<1>12. /\ WorkerHas(a, h)
       /\ \A v \in Worker : \A m : WorkerHas(worker'[v], m) =>
            WorkerHas(worker[v], m) /\ (v = w => m # h)
  BY <1>5, <1>7, <1>8, <1>9
<1>13. OnePlace'
  BY <1>4, <1>10, <1>12 DEF Places, OnePlace
<1>14. \A m \in Msg : Waiting(m)' => Waiting(m)
  BY <1>4, <1>10, <1>12 DEF Waiting
<1> QED
  BY <1>4, <1>11, <1>13, <1>14 DEF Places, WaitingSent

\* Places is inductive, and what begins to wait was just sent.
LEMMA PlacesStep ==
  ASSUME TypeOK, Places, [Next]_vars
  PROVE  Places' /\ \A m \in Msg : Waiting(m)' => Waiting(m) \/ m > msgs
<1> USE DEF localVars, sessionVars, clientVars, userVars, historyVars, envUnchanged
<1> DEFINE Goal == Places' /\ \A m \in Msg : Waiting(m)' => Waiting(m)
           Quiet == /\ \A j \in jobs' : j.job \in {"read", "handler"} => j \in jobs
                    /\ \A v \in Worker : worker'[v].job \in {"read", "handler"} =>
                                           worker'[v] = worker[v]
<1>1. worker \in [Worker -> Activity] /\ \A j \in jobs : j \in Job
  BY DEF TypeOK
<1>2. ASSUME NEW w \in Worker,
             \/ async_run(w) \/ Accept(w) \/ AcceptThrows(w) \/ AcceptAborted(w) \/ AcceptDone(w)
             \/ ReadEnd(w) \/ (\E b \in Behaviour : HandlerReturns(w, b)) \/ HandlerPosts(w)
             \/ CloseCopied(w) \/ CloseSessionsDone(w) \/ (\E s \in Session : RunTask(w, s))
      PROVE  Goal
  <2>1. UNCHANGED <<inbox, msgs>>
    BY <1>2 DEF async_run, Accept, AcceptThrows, AcceptAborted, AcceptDone, ReadEnd,
       HandlerReturns, HandlerPosts, CloseCopied, CloseSessionsDone, RunTask, RunWrite,
       RunWriteHandler, RunExit, RunCloseSessions, RunCloseSocket, RunCloseSession
  <2>2. CASE async_run(w) \/ AcceptAborted(w) \/ AcceptDone(w) \/ ReadEnd(w)
             \/ CloseSessionsDone(w)
    <3>1. worker' = worker \/ worker' = [worker EXCEPT ![w] = Idle]
      BY <2>2 DEF async_run, AcceptAborted, AcceptDone, ReadEnd, CloseSessionsDone, Finish
    <3>2. \A v \in Worker : worker'[v].job \in {"read", "handler"} => worker'[v] = worker[v]
      BY <1>1, <3>1 DEF Idle
    <3>3. \A j \in jobs' : j.job \in {"read", "handler"} => j \in jobs
      BY <2>2 DEF async_run, AcceptAborted, AcceptDone, ReadEnd, CloseSessionsDone
    <3> QED
      BY <2>1, <3>2, <3>3, PlacesKept
  <2>3. CASE Accept(w) \/ AcceptThrows(w)
    <3>1. Quiet
      BY <1>1, <2>3 DEF Accept, AcceptThrows
    <3> QED
      BY <2>1, <3>1, PlacesKept
  <2>4. CASE CloseCopied(w)
    <3>1. Quiet
      BY <1>1, <2>4 DEF CloseCopied
    <3> QED
      BY <2>1, <3>1, PlacesKept
  <2>5. ASSUME NEW b \in Behaviour, HandlerReturns(w, b) PROVE Goal
    <3>1. Quiet
      BY <1>1, <2>5 DEF HandlerReturns
    <3> QED
      BY <2>1, <3>1, PlacesKept
  <2>6. CASE HandlerPosts(w)
    <3>1. \A v \in Worker : worker'[v].job \in {"read", "handler"} => worker'[v] = worker[v]
      <4>1. CASE worker[w].tasks # <<>>
        BY <1>1, <2>6, <4>1, PostsOn
      <4>2. CASE worker[w].tasks = <<>>
        BY <1>1, <2>6, <4>2 DEF HandlerPosts, Finish, Idle
      <4> QED
        BY <4>1, <4>2
    <3>2. jobs' = jobs
      BY <2>6 DEF HandlerPosts
    <3> QED
      BY <2>1, <3>1, <3>2, PlacesKept
  <2>7. ASSUME NEW s \in Session, RunTask(w, s) PROVE Goal
    <3>1. jobs' = jobs
      BY <2>7 DEF RunTask, RunWrite, RunWriteHandler, RunExit, RunCloseSessions, RunCloseSocket,
         RunCloseSession
    <3>2. \A v \in Worker : worker'[v].job \in {"read", "handler"} => worker'[v] = worker[v]
      BY <1>1, <2>7 DEF RunTask, RunWrite, RunWriteHandler, RunExit, RunCloseSessions,
         RunCloseSocket, RunCloseSession
    <3> QED
      BY <2>1, <3>1, <3>2, PlacesKept
  <2> QED
    BY <1>2, <2>2, <2>3, <2>4, <2>5, <2>6, <2>7
<1>3. ASSUME NEW w \in Worker, NEW s \in Session, Read(w, s) PROVE Goal
  <2>1. PICK j \in jobs :
          /\ j.job = "read" /\ jobs' = jobs \ {j}
          /\ \/ worker' = [worker EXCEPT ![w] = [job |-> "read", s |-> s, left |-> j.chunk]]
             \/ UNCHANGED worker
    BY <1>3, Zenon DEF Read
  <2>2. UNCHANGED <<inbox, msgs>>
    BY <1>3 DEF Read
  <2>3. CASE UNCHANGED worker
    BY <2>1, <2>2, <2>3, PlacesKept
  <2>4. CASE worker' = [worker EXCEPT ![w] = [job |-> "read", s |-> s, left |-> j.chunk]]
    <3> DEFINE r == [job |-> "read", s |-> s, left |-> j.chunk]
    <3>1. r.job = "read" /\ r.left = j.chunk
      OBVIOUS
    <3>2. worker' = [worker EXCEPT ![w] = r]
      BY <2>4
    <3> HIDE DEF r
    <3>3. NoDup(r.left)
      BY <2>1, <3>1 DEF Places, Distinct
    <3>4. \A m : WorkerHas(r, m) => JobHas(j, m)
      BY <2>1, <3>1 DEF WorkerHas, JobHas
    <3> QED
      BY <1>1, <2>1, <2>2, <3>2, <3>3, <3>4, TakePlaces
  <2> QED
    BY <2>1, <2>3, <2>4
<1>4. ASSUME NEW w \in Worker, NEW m \in Msg, HandlerBegins(w, m) PROVE Goal
  <2>1. PICK j \in jobs : j.job = "handler" /\ jobs' = jobs \ {j}
                          /\ worker' = [worker EXCEPT ![w] = j]
    BY <1>4 DEF HandlerBegins
  <2>2. UNCHANGED <<inbox, msgs>>
    BY <1>4 DEF HandlerBegins
  <2>3. \A x : WorkerHas(j, x) => JobHas(j, x)
    BY <2>1 DEF WorkerHas, JobHas
  <2> QED
    BY <1>1, <2>1, <2>2, <2>3, TakePlaces
<1>5. CASE RunReturns \/ close_sessions \/ CloseNext \/ stop \/ UNCHANGED vars
  BY <1>5, PlacesKept DEF RunReturns, close_sessions, CloseNext, stop, vars
<1>6. ASSUME NEW s \in Session, Connect(s) \/ ClientLeaves(s) PROVE Goal
  BY <1>6, PlacesKept DEF Connect, ClientLeaves
<1>7. ASSUME NEW s \in Session, NEW ok \in BOOLEAN, WriteCompletes(s, ok) PROVE Goal
  BY <1>7, PlacesKept DEF WriteCompletes
<1> QED
  BY <1>2, <1>3, <1>4, <1>5, <1>6, <1>7, SendPlaces, ReadPlaces, LoopPlaces
     DEF Next, WorkerGoesOn

\* The tasks p are the tasks q without the first d, with none of an exit added.
Shift(q, p, d) ==
  /\ \A i \in DOMAIN p : p[i].task = "close" => i+d \in DOMAIN q /\ p[i] = q[i+d]
  /\ \A k \in DOMAIN q : k > d => k-d \in DOMAIN p /\ p[k-d] = q[k]

\* The ways the strand changes, but for what handlers post.
LEMMA Shifts ==
  ASSUME NEW q \in Seq(Task)
  PROVE  /\ Shift(q, q, 0) /\ Shift(q, q \o CloseTasks, 0)
         /\ q # <<>> => Shift(q, Tail(q), 1) /\ Shift(q, Tail(q) \o CloseTasks, 1)
<1>1. DOMAIN q = 1..Len(q) /\ Len(q) \in Nat
  OBVIOUS
<1>2. Shift(q, q, 0)
  BY <1>1 DEF Shift
<1>3. ASSUME NEW r \in Seq(Task)
      PROVE  /\ \A i \in DOMAIN (r \o CloseTasks) : (r \o CloseTasks)[i].task = "close" =>
                  i \in DOMAIN r /\ (r \o CloseTasks)[i] = r[i]
             /\ \A k \in DOMAIN r : k \in DOMAIN (r \o CloseTasks) /\ (r \o CloseTasks)[k] = r[k]
  <2> DEFINE c == CloseTasks
             e == r \o c
  <2>1. /\ c \in Seq(Task) /\ Len(c) = 2 /\ \A i \in 1..2 : c[i].task # "close"
    BY TasksIn DEF CloseTasks
  <2> HIDE DEF c
  <2>2. /\ DOMAIN r = 1..Len(r) /\ Len(r) \in Nat /\ DOMAIN e = 1..(Len(r)+2)
        /\ \A i \in 1..Len(r) : e[i] = r[i]
        /\ \A i \in (Len(r)+1)..(Len(r)+2) : e[i] = c[i - Len(r)]
    <3>1. /\ e \in Seq(Task) /\ Len(e) = Len(r) + Len(c)
          /\ \A i \in 1..(Len(r) + Len(c)) :
               e[i] = IF i <= Len(r) THEN r[i] ELSE c[i - Len(r)]
      BY <2>1, ConcatProperties
    <3>2. DOMAIN r = 1..Len(r) /\ Len(r) \in Nat /\ DOMAIN e = 1..Len(e)
      BY <3>1
    <3> HIDE DEF e
    <3> QED
      BY <2>1, <3>1, <3>2
  <2>3. \A i \in (Len(r)+1)..(Len(r)+2) : e[i] = c[i - Len(r)] /\ i - Len(r) \in 1..2
    BY <2>2
  <2> HIDE DEF e
  <2>4. ASSUME NEW i \in DOMAIN e, e[i].task = "close" PROVE i \in DOMAIN r /\ e[i] = r[i]
    <3>1. i \in 1..Len(r) \/ i \in (Len(r)+1)..(Len(r)+2)
      BY <2>2
    <3>2. i \notin (Len(r)+1)..(Len(r)+2)
      BY <2>1, <2>3, <2>4
    <3> QED
      BY <2>2, <3>1, <3>2
  <2>5. \A k \in DOMAIN r : k \in DOMAIN e /\ e[k] = r[k]
    BY <2>2
  <2> QED
    BY <2>4, <2>5 DEF e, c
<1>4. Shift(q, q \o CloseTasks, 0)
  <2> DEFINE e == q \o CloseTasks
  <2>1. /\ \A i \in DOMAIN e : e[i].task = "close" => i \in DOMAIN q /\ e[i] = q[i]
        /\ \A k \in DOMAIN q : k \in DOMAIN e /\ e[k] = q[k]
    BY <1>3
  <2> HIDE DEF e
  <2>2. \A i \in DOMAIN q : i+0 = i /\ i-0 = i
    BY <1>1
  <2>3. ASSUME NEW i \in DOMAIN e, e[i].task = "close" PROVE i+0 \in DOMAIN q /\ e[i] = q[i+0]
    BY <2>1, <2>2, <2>3
  <2>4. Shift(q, e, 0)
    BY <2>1, <2>2, <2>3 DEF Shift
  <2> QED
    BY <2>4 DEF e
<1>5. CASE q = <<>>
  BY <1>2, <1>4, <1>5
<1>6. CASE q # <<>>
  <2> DEFINE t == Tail(q)
             e == t \o CloseTasks
  <2>1. /\ t \in Seq(Task) /\ Len(t) = Len(q) - 1 /\ DOMAIN t = 1..(Len(q) - 1)
        /\ \A i \in 1..(Len(q) - 1) : t[i] = q[i+1]
    BY <1>6
  <2>2. /\ \A i \in DOMAIN e : e[i].task = "close" => i \in DOMAIN t /\ e[i] = t[i]
        /\ \A k \in DOMAIN t : k \in DOMAIN e /\ e[k] = t[k]
    BY <1>3, <2>1
  <2> HIDE DEF t, e
  <2>3. /\ \A i \in DOMAIN t : i+1 \in DOMAIN q /\ t[i] = q[i+1]
        /\ \A k \in DOMAIN q : k > 1 => k-1 \in DOMAIN t /\ t[k-1] = q[k]
    BY <1>1, <2>1
  <2>4. Shift(q, t, 1)
    BY <2>3 DEF Shift
  <2>5. Shift(q, e, 1)
    BY <2>2, <2>3 DEF Shift
  <2> QED
    BY <1>2, <1>4, <2>4, <2>5 DEF t, e
<1> QED
  BY <1>5, <1>6

\* A task behind the others, which closes no session for a handler.
LEMMA ShiftMore ==
  ASSUME NEW q \in Seq(Task), NEW t, t.task # "close"
  PROVE  Shift(q, Append(q, t), 0)
<1> DEFINE e == Append(q, t)
<1>1. /\ DOMAIN q = 1..Len(q) /\ Len(q) \in Nat /\ DOMAIN e = 1..(Len(q)+1)
      /\ e[Len(q)+1] = t /\ \A i \in 1..Len(q) : e[i] = q[i]
  OBVIOUS
<1> HIDE DEF e
<1>2. ASSUME NEW i \in DOMAIN e, e[i].task = "close" PROVE i+0 \in DOMAIN q /\ e[i] = q[i+0]
  <2>1. i \in 1..Len(q)
    BY <1>1, <1>2
  <2> QED
    BY <1>1, <2>1
<1>3. ASSUME NEW k \in DOMAIN q PROVE k-0 \in DOMAIN e /\ e[k-0] = q[k]
  BY <1>1
<1>4. Shift(q, e, 0)
  BY <1>2, <1>3 DEF Shift
<1> QED
  BY <1>4 DEF e

\* Steps by which strands only move on: what runs first in one is not a reply that
\* is still waited for.
Moves ==
  \A s \in Session : \E d \in {0, 1} :
    /\ Shift(strand[s], strand'[s], d)
    /\ d = 1 => \A m : IsTask(strand[s][1], "write", m) => m \in written' \/ exit[s]

\* Such steps leave every exit behind its reply, and post no exit.
LEMMA MovesKeep ==
  ASSUME TypeOK, TypeOK', ReplyAhead, Moves, replied' = replied, written \subseteq written',
         \A s \in Session : exit[s] => exit'[s],
         \A v \in Worker : worker'[v].job = "post" => worker'[v] = worker[v]
  PROVE  /\ ReplyAhead'
         /\ \A m : \A s \in Session :
              (\E i \in DOMAIN strand'[s] : IsTask(strand'[s][i], "close", m)) =>
              (\E i \in DOMAIN strand[s] : IsTask(strand[s][i], "close", m))
<1>1. \A s \in Session : \A m : Settled(s, m) => Settled(s, m)'
  BY DEF Settled
<1>2. \A s \in Session : strand[s] \in Seq(Task) /\ strand'[s] \in Seq(Task)
  BY DEF TypeOK
<1>3. ASSUME NEW s \in Session, NEW m, NEW k \in DOMAIN strand[s],
             IsTask(strand[s][k], "write", m)
      PROVE  Settled(s, m)' \/ \E x \in DOMAIN strand'[s] :
               IsTask(strand'[s][x], "write", m) /\ x <= k
  <2>1. PICK d \in {0, 1} :
          /\ Shift(strand[s], strand'[s], d)
          /\ d = 1 => \A y : IsTask(strand[s][1], "write", y) => y \in written' \/ exit[s]
    BY DEF Moves
  <2>2. k \in Nat /\ k >= 1
    BY <1>2
  <2>3. CASE k > d
    <3>1. k-d \in DOMAIN strand'[s] /\ strand'[s][k-d] = strand[s][k]
      BY <2>1, <2>3 DEF Shift
    <3>2. k-d <= k
      BY <2>2
    <3> QED
      BY <1>3, <3>1, <3>2
  <2>4. CASE ~(k > d)
    <3>1. d = 1 /\ k = 1
      BY <2>2, <2>4
    <3> QED
      BY <1>3, <2>1, <3>1 DEF Settled
  <2> QED
    BY <2>3, <2>4
<1>4. ASSUME NEW s \in Session, NEW i \in DOMAIN strand'[s], strand'[s][i].task = "close",
             NEW m, m = strand'[s][i].m
      PROVE  /\ \E y \in DOMAIN strand[s] : strand[s][y] = strand'[s][i]
             /\ \/ Settled(s, m)'
                \/ \E x \in 1..(i-1) : IsTask(strand'[s][x], "write", m)
  <2>1. PICK d \in {0, 1} :
          /\ Shift(strand[s], strand'[s], d)
          /\ d = 1 => \A y : IsTask(strand[s][1], "write", y) => y \in written' \/ exit[s]
    BY DEF Moves
  <2>2. PICK y \in DOMAIN strand[s] : y = i+d /\ strand'[s][i] = strand[s][y]
    BY <1>4, <2>1 DEF Shift
  <2>3. y \in Nat /\ d \in Nat /\ i \in Nat
    BY <1>2
  <2>4. \/ Settled(s, m)
        \/ \E k \in 1..(y-1) : IsTask(strand[s][k], "write", m)
    <3>1. strand[s][y].task = "close" /\ strand[s][y].m = m
      BY <1>4, <2>2
    <3> QED
      BY <3>1 DEF ReplyAhead
  <2>5. ASSUME NEW k \in 1..(y-1), IsTask(strand[s][k], "write", m)
        PROVE  \/ Settled(s, m)'
               \/ \E x \in 1..(i-1) : IsTask(strand'[s][x], "write", m)
    <3>1. k \in Nat /\ k >= 1 /\ k < i+d /\ k \in DOMAIN strand[s]
      <4>1. DOMAIN strand[s] = 1..Len(strand[s]) /\ Len(strand[s]) \in Nat
        BY <1>2
      <4> QED
        BY <2>2, <2>3, <4>1
    <3>2. CASE k > d
      <4>1. strand'[s][k-d] = strand[s][k]
        BY <2>1, <3>1, <3>2 DEF Shift
      <4>2. k-d \in 1..(i-1)
        BY <2>3, <3>1, <3>2
      <4> QED
        BY <2>5, <4>1, <4>2
    <3>3. CASE ~(k > d)
      <4>1. d = 1 /\ k = 1
        BY <3>1, <3>3
      <4> QED
        BY <2>1, <2>5, <4>1 DEF Settled
    <3> QED
      BY <3>2, <3>3
  <2> QED
    BY <1>1, <2>2, <2>4, <2>5
<1>5. ASSUME NEW w \in Worker, worker'[w].job = "post", NEW i \in DOMAIN worker'[w].tasks,
             worker'[w].tasks[i].task = "close",
             NEW m, m = worker'[w].tasks[i].m, NEW s, s = worker'[w].s
      PROVE  \/ Settled(s, m)'
             \/ \E k \in DOMAIN strand'[s] : IsTask(strand'[s][k], "write", m)
             \/ \E k \in 1..(i-1) : IsTask(worker'[w].tasks[k], "write", m)
  <2>1. worker'[w] = worker[w] /\ worker[w].job = "post"
    BY <1>5
  <2>2. s \in Session
    BY <1>5, <2>1, ActivityFields DEF TypeOK
  <2>3. \/ Settled(s, m)
        \/ \E k \in DOMAIN strand[s] : IsTask(strand[s][k], "write", m)
        \/ \E k \in 1..(i-1) : IsTask(worker[w].tasks[k], "write", m)
    BY <1>5, <2>1 DEF ReplyAhead
  <2> QED
    BY <1>1, <1>3, <2>1, <2>2, <2>3
<1>6. ReplyAhead'
  BY <1>4, <1>5 DEF ReplyAhead, Settled
<1>7. ASSUME NEW m, NEW s \in Session, NEW i \in DOMAIN strand'[s],
             IsTask(strand'[s][i], "close", m)
      PROVE  \E y \in DOMAIN strand[s] : IsTask(strand[s][y], "close", m)
  BY <1>4, <1>7 DEF IsTask
<1> QED
  BY <1>6, <1>7

\* Steps after which every message that left something had done so before.
LEMMA DoneKept ==
  ASSUME DoneOnce, msgs \in Nat, msgs' \in Nat, msgs <= msgs', \A m \in Msg : m \in Nat,
         \A m \in Msg : Waiting(m)' => Waiting(m) \/ m > msgs,
         \A m \in Msg : Done(m)' => Done(m)
  PROVE  DoneOnce'
<1>1. ASSUME NEW m \in Msg, Done(m)' PROVE ~Waiting(m)' /\ m <= msgs'
  <2>1. ~Waiting(m) /\ m <= msgs /\ m \in Nat
    BY <1>1 DEF DoneOnce
  <2> QED
    BY <2>1
<1> QED
  BY <1>1 DEF DoneOnce

\* The messages that were sent are numbered, and none is taken back.
LEMMA MsgsGrow ==
  ASSUME TypeOK, TypeOK', [Next]_vars
  PROVE  msgs \in Nat /\ msgs' \in Nat /\ msgs <= msgs' /\ \A m \in Msg : m \in Nat
<1> USE DEF localVars, sessionVars, clientVars, userVars, historyVars, envUnchanged
<1>1. msgs \in Nat /\ msgs' \in Nat /\ \A m \in Msg : m \in Nat
  BY BoundsAssumption DEF TypeOK, Msg
<1>2. ASSUME NEW w \in Worker,
             async_run(w) \/ Accept(w) \/ AcceptThrows(w) \/ AcceptAborted(w) \/ WorkerGoesOn(w)
      PROVE  msgs' = msgs
  BY <1>2 DEF WorkerGoesOn, async_run, Accept, AcceptThrows, AcceptAborted, AcceptDone, ReadLoop,
     ReadEnd, HandlerReturns, HandlerPosts, CloseCopied, CloseSessionsDone
<1>3. ASSUME NEW w \in Worker, NEW s \in Session, Read(w, s) \/ RunTask(w, s)
      PROVE  msgs' = msgs
  BY <1>3 DEF Read, RunTask, RunWrite, RunWriteHandler, RunExit, RunCloseSessions,
     RunCloseSocket, RunCloseSession
<1>4. ASSUME NEW w \in Worker, NEW m \in Msg, HandlerBegins(w, m) PROVE msgs' = msgs
  BY <1>4 DEF HandlerBegins
<1>5. ASSUME NEW s \in Session, Connect(s) \/ ClientSends(s) \/ ClientLeaves(s) \/ ReadCompletes(s)
      PROVE  msgs' = msgs \/ msgs' = msgs + 1
  BY <1>5 DEF Connect, ClientSends, ClientLeaves, ReadCompletes
<1>6. msgs' = msgs \/ msgs' = msgs + 1
  <2>1. CASE UNCHANGED vars \/ RunReturns \/ close_sessions \/ CloseNext \/ stop
    BY <2>1 DEF vars, RunReturns, close_sessions, CloseNext, stop
  <2>2. ASSUME NEW s \in Session, NEW ok \in BOOLEAN, WriteCompletes(s, ok) PROVE msgs' = msgs
    BY <2>2 DEF WriteCompletes
  <2> QED
    BY <1>2, <1>3, <1>4, <1>5, <2>1, <2>2 DEF Next
<1> QED
  BY <1>1, <1>6

\* Steps of the workers, the users and the clients by which strands only move on,
\* and no session is closed by a handler.
LEMMA QuietReply ==
  ASSUME TypeOK, TypeOK', ReplyAhead, ReplyBeforeExit, Moves,
         UNCHANGED <<replied, closer>>, written \subseteq written',
         \A s \in Session : exit[s] => exit'[s],
         \A v \in Worker : worker'[v].job = "post" => worker'[v] = worker[v]
  PROVE  ReplyAhead' /\ ReplyBeforeExit' /\ \A m \in Msg : Done(m)' => Done(m)
<1>1. ReplyAhead'
  BY MovesKeep
<1>2. ReplyBeforeExit'
  BY DEF ReplyBeforeExit
<1>3. ASSUME NEW m \in Msg, Done(m)' PROVE Done(m)
  <2>1. \A s \in Session :
          (\E i \in DOMAIN strand'[s] : IsTask(strand'[s][i], "close", m)) =>
          (\E i \in DOMAIN strand[s] : IsTask(strand[s][i], "close", m))
    BY MovesKeep
  <2> QED
    BY <1>3, <2>1 DEF Done
<1> QED
  BY <1>1, <1>2, <1>3

\* How a strand moves on: it stays, loses its first task, or close() or the
\* completion of a write adds to it.
LEMMA MovesBy ==
  ASSUME TypeOK, NEW s \in Session,
         \/ UNCHANGED <<strand, exit>>
         \/ close(s, strand[s])
         \/ \E t : t.task # "close" /\ strand' = [strand EXCEPT ![s] = Append(strand[s], t)]
         \/ /\ strand[s] # <<>> /\ (PopTask(s) \/ close(s, Tail(strand[s])))
            /\ \A m : IsTask(Head(strand[s]), "write", m) => m \in written' \/ exit[s]
  PROVE  Moves
<1>1. strand \in [Session -> Seq(Task)] /\ strand[s] \in Seq(Task)
  BY DEF TypeOK
<1>2. \A r \in Session : Shift(strand[r], strand[r], 0)
  BY <1>1, Shifts
<1>3. CASE UNCHANGED <<strand, exit>>
  BY <1>2, <1>3 DEF Moves
<1> DEFINE q == strand[s]
<1>4. ASSUME NEW p, strand' = [strand EXCEPT ![s] = p], NEW d \in {0, 1}, Shift(q, p, d),
             d = 1 => \A m : IsTask(q[1], "write", m) => m \in written' \/ exit[s]
      PROVE  Moves
  <2>1. strand'[s] = p /\ \A r \in Session : r # s => strand'[r] = strand[r]
    BY <1>1, <1>4
  <2>2. ASSUME NEW r \in Session
        PROVE  \E e \in {0, 1} :
                 /\ Shift(strand[r], strand'[r], e)
                 /\ e = 1 => \A m : IsTask(strand[r][1], "write", m) => m \in written' \/ exit[r]
    <3>1. CASE r = s
      BY <1>4, <2>1, <3>1
    <3>2. CASE r # s
      BY <1>2, <2>1, <3>2
    <3> QED
      BY <3>1, <3>2
  <2> QED
    BY <2>2 DEF Moves
<1>5. CASE close(s, q)
  <2> DEFINE p == q \o CloseTasks
  <2>1. strand' = [strand EXCEPT ![s] = p] /\ Shift(q, p, 0)
    BY <1>1, <1>5, Shifts DEF close
  <2>2. PICK d \in {0, 1} : d = 0
    OBVIOUS
  <2>3. Shift(q, p, d) /\ d # 1
    BY <2>1, <2>2
  <2> HIDE DEF p, q
  <2> QED
    BY <1>4, <2>1, <2>3, Zenon
<1>6. CASE /\ q # <<>> /\ (PopTask(s) \/ close(s, Tail(q)))
           /\ \A m : IsTask(Head(q), "write", m) => m \in written' \/ exit[s]
  <2>1. Head(q) = q[1] /\ Shift(q, Tail(q), 1) /\ Shift(q, Tail(q) \o CloseTasks, 1)
    BY <1>1, <1>6, Shifts
  <2>2. \A m : IsTask(q[1], "write", m) => m \in written' \/ exit[s]
    BY <1>6, <2>1
  <2>3. \/ strand' = [strand EXCEPT ![s] = Tail(q)]
        \/ strand' = [strand EXCEPT ![s] = Tail(q) \o CloseTasks]
    BY <1>6 DEF PopTask, close
  <2> QED
    BY <1>4, <2>1, <2>2, <2>3
<1>7. ASSUME NEW t, t.task # "close", strand' = [strand EXCEPT ![s] = Append(q, t)] PROVE Moves
  <2> DEFINE p == Append(q, t)
  <2>1. strand' = [strand EXCEPT ![s] = p] /\ Shift(q, p, 0)
    BY <1>1, <1>7, ShiftMore
  <2>2. PICK d \in {0, 1} : d = 0
    OBVIOUS
  <2>3. Shift(q, p, d) /\ d # 1
    BY <2>1, <2>2
  <2> HIDE DEF p, q
  <2> QED
    BY <1>4, <2>1, <2>3, Zenon
<1> QED
  BY <1>3, <1>5, <1>6, <1>7

\* What is unchanged moves on.
LEMMA MovesNot ==
  ASSUME TypeOK, strand' = strand
  PROVE  Moves
<1>1. ASSUME NEW s \in Session PROVE Shift(strand[s], strand'[s], 0)
  BY Shifts DEF TypeOK
<1> QED
  BY <1>1 DEF Moves

\* The task that closes a session for a handler: the reply of the handler was
\* ahead of it, and so is written.
LEMMA ExitReply ==
  ASSUME TypeOK, TypeOK', ReplyAhead, ReplyBeforeExit, NEW w \in Worker, NEW s \in Session,
         RunExit(w, s)
  PROVE  ReplyAhead' /\ ReplyBeforeExit' /\ \A m \in Msg : Done(m)' => Done(m)
<1> USE DEF localVars, sessionVars, clientVars, userVars, historyVars
<1> DEFINE q == strand[s]
           x == Head(q).m
<1>1. /\ exit \in [Session -> BOOLEAN] /\ strand \in [Session -> Seq(Task)]
      /\ closer \in [Session -> 0..MaxMsgs]
  BY DEF TypeOK
<1>2. q \in Seq(Task) /\ q # <<>> /\ Head(q).task = "close"
  BY <1>1 DEF RunExit, TaskReady
<1>3. 1 \in DOMAIN q /\ q[1] = Head(q)
  BY <1>2
<1>4. UNCHANGED <<worker, replied, written>>
  BY DEF RunExit
<1>5. \/ /\ close(s, Tail(q))
         /\ closer' = closer \/ (~exit[s] /\ closer' = [closer EXCEPT ![s] = x])
      \/ PopTask(s) /\ UNCHANGED <<exit, closer>>
  BY DEF RunExit
<1>6. Moves
  <2>1. \A m : ~IsTask(Head(q), "write", m)
    BY <1>2 DEF IsTask
  <2>2. PopTask(s) \/ close(s, Tail(q))
    BY <1>5
  <2> QED
    BY <1>2, <2>1, <2>2, MovesBy
<1>7. \A r \in Session : exit[r] => exit'[r]
  BY <1>1, <1>5 DEF close
<1>8. CASE closer' = closer
  BY <1>4, <1>6, <1>7, <1>8, QuietReply
<1>9. CASE ~exit[s] /\ closer' = [closer EXCEPT ![s] = x]
  <2>1. closer'[s] = x /\ \A r \in Session : r # s => closer'[r] = closer[r]
    BY <1>1, <1>9
  <2>2. x \in replied => x \in written
    <3>1. \/ Settled(s, x)
          \/ \E k \in 1..(1-1) : IsTask(q[k], "write", x)
      BY <1>2, <1>3 DEF ReplyAhead
    <3> QED
      BY <1>9, <3>1 DEF Settled
  <2>3. ReplyBeforeExit'
    BY <1>4, <2>1, <2>2 DEF ReplyBeforeExit
  <2>4. /\ ReplyAhead'
        /\ \A m : \A r \in Session :
             (\E i \in DOMAIN strand'[r] : IsTask(strand'[r][i], "close", m)) =>
             (\E i \in DOMAIN strand[r] : IsTask(strand[r][i], "close", m))
    BY <1>4, <1>6, <1>7, MovesKeep
  <2>5. Done(x)
    BY <1>2, <1>3 DEF Done, IsTask
  <2>6. ASSUME NEW m \in Msg, Done(m)', m # x PROVE Done(m)
    BY <1>4, <2>1, <2>4, <2>6 DEF Done
  <2> QED
    BY <2>3, <2>4, <2>5, <2>6
<1> QED
  BY <1>5, <1>8, <1>9

\* The process terminates: no task is left.
LEMMA ThrowReply ==
  ASSUME TypeOK', ReplyBeforeExit, NEW w \in Worker, AcceptThrows(w)
  PROVE  ReplyAhead' /\ ReplyBeforeExit' /\ \A m \in Msg : Done(m)' => Done(m)
<1> USE DEF localVars, sessionVars, clientVars, userVars, historyVars
<1>1. /\ \A s \in Session : strand'[s] = <<>>
      /\ \A v \in Worker : worker'[v].job = "off"
      /\ UNCHANGED <<replied, written, closer>>
  BY DEF AcceptThrows
<1> QED
  BY <1>1 DEF ReplyAhead, ReplyBeforeExit, Done

\* The order in which a handler posts its tasks: an exit is that of its message,
\* with the reply ahead of it if there is one.
LEMMA TaskOrder ==
  ASSUME NEW w \in Worker, NEW m \in Msg, NEW b \in Behaviour,
         NEW i \in DOMAIN HandlerTasks(w, m, b), HandlerTasks(w, m, b)[i].task = "close"
  PROVE  /\ HandlerTasks(w, m, b)[i].m = m
         /\ b.reply \in {"plain", "special"} =>
              1 \in 1..(i-1) /\ IsTask(HandlerTasks(w, m, b)[1], "write", m)
<1> DEFINE S == {t \in Task : t.task = "close" => t.m = m}
           t1 == [task |-> "write", m |-> m, special |-> b.reply = "special", owner |-> w]
           t2 == [task |-> "close", m |-> m]
           t3 == [task |-> "close_sessions"]
           q1 == IF b.reply \in {"plain", "special"} THEN <<t1>> ELSE <<>>
           q2 == IF b.exit THEN <<t2>> ELSE <<>>
           q3 == IF b.stop THEN <<t3>> ELSE <<>>
           T == HandlerTasks(w, m, b)
<1>1. t1 \in Task /\ t2 \in Task /\ t3 \in Task
  BY DEF Task
<1>2. t1 \in S /\ t2 \in S /\ t3 \in S
  BY <1>1
<1>3. T = q1 \o q2 \o q3
  BY DEF HandlerTasks
<1>4. IsTask(t1, "write", m)
  BY DEF IsTask
<1>5. \A t \in S : t.task = "close" => t.m = m
  OBVIOUS
<1> HIDE DEF S, t1, t2, t3
<1>6. /\ q1 \in Seq(S) /\ q2 \in Seq(S) /\ q3 \in Seq(S)
      /\ b.reply \in {"plain", "special"} => q1 = <<t1>>
  BY <1>2
<1> HIDE DEF q1, q2, q3, T
<1>7. T \in Seq(S) /\ i \in DOMAIN T /\ T[i].task = "close"
  BY <1>3, <1>6 DEF T
<1>8. T[i] \in S /\ i \in Nat /\ i >= 1
  BY <1>7
<1>9. ASSUME b.reply \in {"plain", "special"} PROVE 1 \in 1..(i-1) /\ IsTask(T[1], "write", m)
  <2> DEFINE r == q1 \o q2
  <2>1. q1 \in Seq(S) /\ Len(q1) = 1 /\ q1[1] = t1
    BY <1>6, <1>9
  <2>2. r \in Seq(S) /\ Len(r) >= 1 /\ Len(r) \in Nat /\ r[1] = q1[1]
    <3>1. Len(q2) \in Nat /\ q2 \in Seq(S)
      BY <1>6
    <3>2. /\ r \in Seq(S) /\ Len(r) = Len(q1) + Len(q2)
          /\ \A k \in 1..(Len(q1) + Len(q2)) :
               r[k] = IF k <= Len(q1) THEN q1[k] ELSE q2[k - Len(q1)]
      BY <2>1, <3>1, ConcatProperties
    <3> HIDE DEF r
    <3>3. r[1] = q1[1]
      BY <2>1, <3>1, <3>2
    <3> QED
      BY <2>1, <3>1, <3>2, <3>3
  <2> HIDE DEF r
  <2>3. T = r \o q3
    BY <1>3 DEF r
  <2>4. T[1] = r[1]
    BY <1>6, <2>2, <2>3
  <2>5. T[1] = t1 /\ T[1].task # "close"
    BY <1>4, <2>1, <2>2, <2>4 DEF IsTask
  <2>6. i # 1
    BY <1>7, <2>5
  <2> QED
    BY <1>4, <1>8, <2>5, <2>6
<1> QED
  BY <1>5, <1>7, <1>8, <1>9 DEF T

\* A handler returns: its message was in no other place, so that nothing was left
\* for it, and its reply is ahead of its exit.
LEMMA ReturnReply ==
  ASSUME TypeOK, TypeOK', OnePlace, DoneOnce, ReplyAhead, ReplyBeforeExit,
         NEW w \in Worker, NEW b \in Behaviour, HandlerReturns(w, b),
         NEW x, x = worker[w].m
  PROVE  /\ ReplyAhead' /\ ReplyBeforeExit'
         /\ Waiting(x) /\ ~Waiting(x)' /\ x \in Msg
         /\ \A m \in Msg : Done(m)' => Done(m) \/ m = x
<1> USE DEF localVars, sessionVars, clientVars, userVars, historyVars
<1> DEFINE a == worker[w]
           tasks == IF b.reply = "disabled" THEN <<>> ELSE HandlerTasks(w, x, b)
           r == [job |-> "post", s |-> a.s, tasks |-> tasks]
<1>1. worker \in [Worker -> Activity]
  BY DEF TypeOK
<1>2. a.job = "handler" /\ a.s \in Session /\ x \in Msg
  BY <1>1, ActivityFields DEF HandlerReturns
<1>3. /\ worker' = [worker EXCEPT ![w] = r]
      /\ replied' = IF b.reply \in {"plain", "special"} THEN replied \cup {x} ELSE replied
      /\ UNCHANGED <<jobs, inbox, strand, exit, written, closer>>
  BY DEF HandlerReturns
<1>4. worker'[w] = r /\ \A v \in Worker : v # w => worker'[v] = worker[v]
  BY <1>1, <1>3
<1>5. r.job = "post" /\ r.s = a.s /\ r.tasks = tasks
  OBVIOUS
<1>6. WorkerHas(a, x)
  BY <1>2 DEF WorkerHas
<1>7. Waiting(x)
  BY <1>6 DEF Waiting
<1>8. ~Done(x)
  BY <1>2, <1>7 DEF DoneOnce
<1>9. \A i \in DOMAIN tasks : tasks[i].task = "close" =>
        /\ tasks[i].m = x
        /\ b.reply \in {"plain", "special"} =>
             1 \in 1..(i-1) /\ IsTask(tasks[1], "write", x)
  BY <1>2, TaskOrder
<1> HIDE DEF r, tasks
<1>10. ~Waiting(x)'
  <2>1. \A m : ~WorkerHas(r, m)
    BY <1>5 DEF WorkerHas
  <2>2. \A v \in Worker : ~WorkerHas(worker'[v], x)
    BY <1>2, <1>4, <1>6, <2>1 DEF OnePlace
  <2>3. \A s \in Session : ~In(inbox[s], x)
    BY <1>2, <1>6 DEF OnePlace
  <2>4. \A j \in jobs : ~JobHas(j, x)
    BY <1>2, <1>6 DEF OnePlace
  <2> QED
    BY <1>3, <2>2, <2>3, <2>4 DEF Waiting
<1>11. \A m : m # x => (m \in replied' <=> m \in replied)
  BY <1>3
<1>12. ASSUME NEW m \in Msg, Done(m)', m # x PROVE Done(m)
  <2>1. ~\E i \in DOMAIN tasks : IsTask(tasks[i], "close", m)
    BY <1>9, <1>12 DEF IsTask
  <2> QED
    BY <1>3, <1>4, <1>5, <1>11, <1>12, <2>1 DEF Done
<1>13. ReplyBeforeExit'
  <2>1. \A s \in Session : closer[s] # x
    BY <1>8 DEF Done
  <2> QED
    BY <1>3, <1>11, <2>1 DEF ReplyBeforeExit
<1>14. \A s : \A m : m # x /\ Settled(s, m) => Settled(s, m)'
  BY <1>3, <1>11 DEF Settled
<1>15. ASSUME NEW s \in Session, NEW i \in DOMAIN strand'[s], strand'[s][i].task = "close",
              NEW m, m = strand'[s][i].m
       PROVE  \/ Settled(s, m)'
              \/ \E k \in 1..(i-1) : IsTask(strand'[s][k], "write", m)
  <2>1. i \in DOMAIN strand[s] /\ strand[s][i].task = "close" /\ m = strand[s][i].m
    BY <1>3, <1>15
  <2>2. m # x
    BY <1>8, <2>1 DEF Done, IsTask
  <2>3. \/ Settled(s, m)
        \/ \E k \in 1..(i-1) : IsTask(strand[s][k], "write", m)
    BY <2>1 DEF ReplyAhead
  <2> QED
    BY <1>3, <1>14, <2>2, <2>3
<1>16. ASSUME NEW v \in Worker, worker'[v].job = "post", NEW i \in DOMAIN worker'[v].tasks,
              worker'[v].tasks[i].task = "close",
              NEW m, m = worker'[v].tasks[i].m, NEW s, s = worker'[v].s
       PROVE  \/ Settled(s, m)'
              \/ \E k \in DOMAIN strand'[s] : IsTask(strand'[s][k], "write", m)
              \/ \E k \in 1..(i-1) : IsTask(worker'[v].tasks[k], "write", m)
  <2>1. CASE v # w
    <3>1. worker'[v] = worker[v]
      BY <1>4, <2>1
    <3>2. m # x
      BY <1>8, <1>16, <3>1 DEF Done, IsTask
    <3>3. \/ Settled(s, m)
          \/ \E k \in DOMAIN strand[s] : IsTask(strand[s][k], "write", m)
          \/ \E k \in 1..(i-1) : IsTask(worker[v].tasks[k], "write", m)
      BY <1>16, <3>1 DEF ReplyAhead
    <3> QED
      BY <1>3, <1>14, <3>1, <3>2, <3>3
  <2>2. CASE v = w
    <3>1. worker'[v].tasks = tasks
      BY <1>4, <1>5, <2>2
    <3>2. i \in DOMAIN tasks /\ tasks[i].task = "close" /\ m = tasks[i].m
      BY <1>16, <3>1
    <3>3. m = x
      BY <1>9, <3>2
    <3>4. CASE b.reply \in {"plain", "special"}
      BY <1>9, <3>1, <3>2, <3>3, <3>4
    <3>5. CASE b.reply \notin {"plain", "special"}
      <4>1. m \notin replied'
        BY <1>3, <1>8, <3>3, <3>5 DEF Done
      <4> QED
        BY <4>1 DEF Settled
    <3> QED
      BY <3>4, <3>5
  <2> QED
    BY <2>1, <2>2
<1>17. ReplyAhead'
  BY <1>15, <1>16 DEF ReplyAhead, Settled
<1> QED
  BY <1>2, <1>7, <1>10, <1>12, <1>13, <1>17

\* A handler posts a task: whatever others posted in between, it comes behind what
\* the handler posted before.
LEMMA PostReply ==
  ASSUME TypeOK, TypeOK', ReplyAhead, ReplyBeforeExit, NEW w \in Worker, HandlerPosts(w),
         worker[w].tasks # <<>>
  PROVE  ReplyAhead' /\ ReplyBeforeExit' /\ \A m \in Msg : Done(m)' => Done(m)
<1> USE DEF localVars, sessionVars, clientVars, userVars, historyVars
<1> DEFINE a == worker[w]
           u == a.tasks
           t == a.s
           h == Head(u)
           r == [job |-> "post", s |-> t, tasks |-> Tail(u)]
           q == strand[t]
<1>1. worker \in [Worker -> Activity] /\ strand \in [Session -> Seq(Task)]
  BY DEF TypeOK
<1>2. a.job = "post" /\ t \in Session /\ u \in Seq(Task) /\ u # <<>>
  BY <1>1, ActivityFields DEF HandlerPosts
<1>3. UNCHANGED <<exit, replied, written, closer>>
  BY DEF HandlerPosts
<1>4. strand' = [strand EXCEPT ![t] = Append(q, h)] /\ worker' = [worker EXCEPT ![w] = r]
  BY <1>1, PostsOn
<1>5. /\ strand'[t] = Append(q, h) /\ \A s \in Session : s # t => strand'[s] = strand[s]
      /\ worker'[w] = r /\ \A v \in Worker : v # w => worker'[v] = worker[v]
  BY <1>1, <1>2, <1>4
<1>6. r.s = t /\ r.tasks = Tail(u)
  OBVIOUS
<1>7. /\ 1 \in DOMAIN u /\ h = u[1]
      /\ \A i \in DOMAIN Tail(u) : i \in Nat /\ i+1 \in DOMAIN u /\ Tail(u)[i] = u[i+1]
  BY <1>2
<1>8. q \in Seq(Task) /\ DOMAIN q = 1..Len(q) /\ Len(q) \in Nat
  BY <1>1, <1>2
<1>9. /\ DOMAIN strand'[t] = 1..(Len(q)+1) /\ strand'[t][Len(q)+1] = h
      /\ \A i \in 1..Len(q) : strand'[t][i] = q[i]
  <2>1. h \in Task
    BY <1>2
  <2> HIDE DEF h, q
  <2> QED
    BY <1>5, <1>8, <2>1
<1>10. /\ worker'[w].s = t /\ DOMAIN worker'[w].tasks = DOMAIN Tail(u)
       /\ \A i \in DOMAIN worker'[w].tasks :
            i \in Nat /\ i+1 \in DOMAIN u /\ worker'[w].tasks[i] = u[i+1]
  BY <1>5, <1>6, <1>7
<1>11. \A k \in 1..Len(u) : k > 1 => worker'[w].tasks[k-1] = u[k]
  <2>1. \A k \in 1..Len(u) : k > 1 => Tail(u)[k-1] = u[k]
    BY <1>2
  <2> QED
    BY <1>5, <1>6, <2>1
<1> HIDE DEF r, q, h, u, t
<1>12. \A s \in Session : \A m : Settled(s, m) => Settled(s, m)'
  BY <1>3 DEF Settled
<1>13. \A s \in Session : \A k \in DOMAIN strand[s] :
         k \in DOMAIN strand'[s] /\ strand'[s][k] = strand[s][k]
  <2>1. \A k \in DOMAIN q : k \in DOMAIN strand'[t] /\ strand'[t][k] = q[k]
    BY <1>8, <1>9
  <2> QED
    BY <1>5, <2>1 DEF q
<1>14. Len(q)+1 \in DOMAIN strand'[t]
  BY <1>8, <1>9
<1>15. ASSUME NEW i \in DOMAIN u, u[i].task = "close", NEW m, m = u[i].m
       PROVE  \/ Settled(t, m)
              \/ \E k \in DOMAIN q : IsTask(q[k], "write", m)
              \/ \E k \in 1..(i-1) : IsTask(u[k], "write", m)
  BY <1>2, <1>15 DEF ReplyAhead, q, t, u
<1>16. ASSUME NEW s \in Session, NEW i \in DOMAIN strand'[s], strand'[s][i].task = "close",
              NEW m, m = strand'[s][i].m
       PROVE  \/ Settled(s, m)'
              \/ \E k \in 1..(i-1) : IsTask(strand'[s][k], "write", m)
  <2>1. CASE i \in DOMAIN strand[s]
    <3>1. strand'[s][i] = strand[s][i]
      BY <1>13, <2>1
    <3>2. \/ Settled(s, m)
          \/ \E k \in 1..(i-1) : IsTask(strand[s][k], "write", m)
      BY <1>16, <2>1, <3>1 DEF ReplyAhead
    <3>3. \A k \in 1..(i-1) : k \in DOMAIN strand[s]
      <4>1. DOMAIN strand[s] = 1..Len(strand[s]) /\ Len(strand[s]) \in Nat
        BY <1>1
      <4> QED
        BY <2>1, <4>1
    <3>4. \A k \in 1..(i-1) : strand'[s][k] = strand[s][k]
      BY <1>13, <3>3
    <3> QED
      BY <1>12, <3>2, <3>4
  <2>2. CASE i \notin DOMAIN strand[s]
    <3>1. s = t
      BY <1>5, <1>16, <2>2
    <3>2. i \in 1..(Len(q)+1) /\ i \notin 1..Len(q)
      BY <1>8, <1>9, <1>16, <2>2, <3>1 DEF q
    <3>3. i = Len(q)+1
      BY <1>8, <3>2
    <3>4. u[1].task = "close" /\ m = u[1].m
      BY <1>7, <1>9, <1>16, <3>1, <3>3
    <3>5. \/ Settled(t, m)
          \/ \E k \in DOMAIN q : IsTask(q[k], "write", m)
          \/ \E k \in 1..(1-1) : IsTask(u[k], "write", m)
      BY <1>7, <1>15, <3>4
    <3>6. \A k \in DOMAIN q : k \in 1..(i-1) /\ strand'[t][k] = q[k]
      BY <1>8, <1>9, <3>3
    <3> QED
      BY <1>12, <1>16, <3>1, <3>5, <3>6
  <2> QED
    BY <2>1, <2>2
<1>17. ASSUME NEW v \in Worker, worker'[v].job = "post", NEW i \in DOMAIN worker'[v].tasks,
              worker'[v].tasks[i].task = "close",
              NEW m, m = worker'[v].tasks[i].m, NEW s, s = worker'[v].s
       PROVE  \/ Settled(s, m)'
              \/ \E k \in DOMAIN strand'[s] : IsTask(strand'[s][k], "write", m)
              \/ \E k \in 1..(i-1) : IsTask(worker'[v].tasks[k], "write", m)
  <2>1. CASE v # w
    <3>1. worker'[v] = worker[v]
      BY <1>5, <2>1
    <3>2. s \in Session
      BY <1>1, <1>17, <3>1, ActivityFields
    <3>3. \/ Settled(s, m)
          \/ \E k \in DOMAIN strand[s] : IsTask(strand[s][k], "write", m)
          \/ \E k \in 1..(i-1) : IsTask(worker[v].tasks[k], "write", m)
      BY <1>17, <3>1 DEF ReplyAhead
    <3> QED
      BY <1>12, <1>13, <3>1, <3>2, <3>3
  <2>2. CASE v = w
    <3>1. s = t /\ t \in Session
      BY <1>2, <1>10, <1>17, <2>2
    <3>2. PICK y \in DOMAIN u : y = i+1 /\ i \in Nat /\ worker'[w].tasks[i] = u[y]
      BY <1>10, <1>17, <2>2
    <3>3. u[y].task = "close" /\ m = u[y].m
      BY <1>17, <2>2, <3>2
    <3>4. \/ Settled(t, m)
          \/ \E k \in DOMAIN q : IsTask(q[k], "write", m)
          \/ \E k \in 1..(y-1) : IsTask(u[k], "write", m)
      BY <1>15, <3>3
    <3>5. ASSUME NEW k \in DOMAIN q, IsTask(q[k], "write", m)
          PROVE  \E x \in DOMAIN strand'[s] : IsTask(strand'[s][x], "write", m)
      <4>1. k \in DOMAIN strand'[t] /\ strand'[t][k] = q[k]
        BY <1>13, <3>1 DEF q
      <4> QED
        BY <3>1, <3>5, <4>1
    <3>6. ASSUME NEW k \in 1..(y-1), IsTask(u[k], "write", m)
          PROVE  \/ \E x \in DOMAIN strand'[s] : IsTask(strand'[s][x], "write", m)
                 \/ \E x \in 1..(i-1) : IsTask(worker'[w].tasks[x], "write", m)
      <4>1. CASE k = 1
        BY <1>7, <1>9, <1>14, <3>1, <3>6, <4>1
      <4>2. CASE k # 1
        <5>1. k \in Nat /\ k > 1 /\ k <= i
          BY <3>2, <4>2
        <5>2. k \in 1..Len(u)
          <6>1. DOMAIN u = 1..Len(u) /\ Len(u) \in Nat
            BY <1>2
          <6> QED
            BY <3>2, <6>1
        <5>3. k-1 \in 1..(i-1) /\ worker'[w].tasks[k-1] = u[k]
          BY <1>11, <3>2, <5>1, <5>2
        <5> QED
          BY <3>6, <5>3
      <4> QED
        BY <4>1, <4>2
    <3> QED
      BY <1>12, <2>2, <3>1, <3>4, <3>5, <3>6
  <2> QED
    BY <2>1, <2>2
<1>18. ReplyAhead'
  BY <1>16, <1>17 DEF ReplyAhead, Settled
<1>19. ASSUME NEW m \in Msg, Done(m)' PROVE Done(m)
  <2>1. \A i \in DOMAIN u : IsTask(u[i], "close", m) => Done(m)
    BY <1>2 DEF Done, u
  <2>2. ASSUME NEW s \in Session, NEW i \in DOMAIN strand'[s], IsTask(strand'[s][i], "close", m)
        PROVE  Done(m)
    <3>1. CASE s # t
      BY <1>5, <2>2, <3>1 DEF Done
    <3>2. CASE s = t
      <4>1. i \in 1..Len(q) \/ i = Len(q)+1
        BY <1>8, <1>9, <2>2, <3>2
      <4>2. CASE i \in 1..Len(q)
        <5>1. i \in DOMAIN strand[s] /\ IsTask(strand[s][i], "close", m)
          BY <1>8, <1>9, <2>2, <3>2, <4>2 DEF q
        <5> QED
          BY <5>1 DEF Done
      <4>3. CASE i = Len(q)+1
        BY <1>7, <1>9, <2>1, <2>2, <3>2, <4>3
      <4> QED
        BY <4>1, <4>2, <4>3
    <3> QED
      BY <3>1, <3>2
  <2>3. ASSUME NEW v \in Worker, worker'[v].job = "post", NEW i \in DOMAIN worker'[v].tasks,
               IsTask(worker'[v].tasks[i], "close", m)
        PROVE  Done(m)
    <3>1. CASE v # w
      BY <1>5, <2>3, <3>1 DEF Done
    <3>2. CASE v = w
      BY <1>10, <2>1, <2>3, <3>2
    <3> QED
      BY <3>1, <3>2
  <2>4. m \in replied \/ (\E s \in Session : closer[s] = m) => Done(m)
    BY DEF Done
  <2> QED
    BY <1>3, <1>19, <2>2, <2>3, <2>4 DEF Done
<1>20. ReplyBeforeExit'
  BY <1>3 DEF ReplyBeforeExit
<1> QED
  BY <1>18, <1>19, <1>20

\* What every other step does to strands, replies and sessions.
LEMMA OtherReply ==
  ASSUME TypeOK, TypeOK', ReplyAhead, ReplyBeforeExit,
         \/ UNCHANGED vars \/ RunReturns \/ close_sessions \/ CloseNext \/ stop
         \/ \E s \in Session : Connect(s) \/ ClientSends(s) \/ ClientLeaves(s) \/ ReadCompletes(s)
         \/ \E s \in Session : \E ok \in BOOLEAN : WriteCompletes(s, ok)
         \/ \E w \in Worker :
              \/ async_run(w) \/ Accept(w) \/ AcceptAborted(w) \/ AcceptDone(w)
              \/ ReadLoop(w) \/ ReadEnd(w) \/ CloseCopied(w) \/ CloseSessionsDone(w)
              \/ HandlerPosts(w) /\ worker[w].tasks = <<>>
              \/ \E m \in Msg : HandlerBegins(w, m)
              \/ \E s \in Session :
                   \/ Read(w, s) \/ RunWrite(w, s) \/ RunWriteHandler(w, s) \/ RunCloseSessions(w, s)
                   \/ RunCloseSocket(w, s) \/ RunCloseSession(w, s)
  PROVE  ReplyAhead' /\ ReplyBeforeExit' /\ \A m \in Msg : Done(m)' => Done(m)
<1> USE DEF localVars, sessionVars, clientVars, userVars, historyVars, envUnchanged
<1> DEFINE Goal == ReplyAhead' /\ ReplyBeforeExit' /\ \A m \in Msg : Done(m)' => Done(m)
           Posts == \A v \in Worker : worker'[v].job = "post" => worker'[v] = worker[v]
<1>1. /\ worker \in [Worker -> Activity] /\ strand \in [Session -> Seq(Task)]
      /\ exit \in [Session -> BOOLEAN] /\ copy \subseteq Session /\ \A j \in jobs : j \in Job
  BY DEF TypeOK
<1>2. ASSUME UNCHANGED <<strand, exit, replied, closer, written>>, Posts PROVE Goal
  BY <1>2, MovesNot, QuietReply
<1>3. ASSUME NEW s \in Session, close(s, strand[s]), UNCHANGED <<replied, closer, written>>, Posts
      PROVE  Goal
  <2>1. \A r \in Session : exit[r] => exit'[r]
    BY <1>1, <1>3 DEF close
  <2>2. Moves
    BY <1>3, MovesBy
  <2> QED
    BY <1>3, <2>1, <2>2, QuietReply
<1>4. CASE UNCHANGED vars \/ RunReturns \/ close_sessions \/ stop
  BY <1>2, <1>4 DEF vars, RunReturns, close_sessions, stop
<1>5. CASE CloseNext
  <2>1. PICK s \in copy : close(s, strand[s])
    BY <1>5, Zenon DEF CloseNext
  <2>2. s \in Session /\ UNCHANGED <<worker, replied, closer, written>>
    BY <1>1, <1>5, <2>1 DEF CloseNext
  <2> QED
    BY <1>3, <2>1, <2>2
<1>6. ASSUME NEW s \in Session,
             Connect(s) \/ ClientSends(s) \/ ClientLeaves(s) \/ ReadCompletes(s)
      PROVE  Goal
  BY <1>2, <1>6 DEF Connect, ClientSends, ClientLeaves, ReadCompletes
<1>7. ASSUME NEW w \in Worker,
             async_run(w) \/ AcceptAborted(w) \/ AcceptDone(w) \/ ReadEnd(w)
             \/ CloseSessionsDone(w) \/ (HandlerPosts(w) /\ worker[w].tasks = <<>>)
      PROVE  Goal
  <2>1. worker' = worker \/ worker' = [worker EXCEPT ![w] = Idle]
    BY <1>7 DEF async_run, AcceptAborted, AcceptDone, ReadEnd, CloseSessionsDone, HandlerPosts,
       Finish
  <2>2. Posts
    BY <1>1, <2>1 DEF Idle
  <2>3. UNCHANGED <<strand, exit, replied, closer, written>>
    BY <1>7 DEF async_run, AcceptAborted, AcceptDone, ReadEnd, CloseSessionsDone, HandlerPosts
  <2> QED
    BY <1>2, <2>2, <2>3
<1>8. ASSUME NEW w \in Worker, Accept(w) \/ ReadLoop(w) \/ (\E m \in Msg : HandlerBegins(w, m))
      PROVE  Goal
  <2>1. Posts
    <3>1. CASE Accept(w)
      BY <1>1, <3>1 DEF Accept
    <3>2. CASE ReadLoop(w)
      BY <1>1, <3>2 DEF ReadLoop
    <3>3. ASSUME NEW m \in Msg, HandlerBegins(w, m) PROVE Posts
      BY <1>1, <3>3 DEF HandlerBegins
    <3> QED
      BY <1>8, <3>1, <3>2, <3>3
  <2>2. UNCHANGED <<strand, exit, replied, closer, written>>
    BY <1>8 DEF Accept, ReadLoop, HandlerBegins
  <2> QED
    BY <1>2, <2>1, <2>2
<1>9. ASSUME NEW w \in Worker, CloseCopied(w) PROVE Goal
  <2>1. worker[w].copy \in SUBSET Session
    BY <1>1, <1>9, ActivityFields DEF CloseCopied
  <2>2. PICK s \in worker[w].copy : close(s, strand[s])
    BY <1>9, Zenon DEF CloseCopied
  <2>3. Posts
    BY <1>1, <1>9 DEF CloseCopied
  <2>4. s \in Session /\ UNCHANGED <<replied, closer, written>>
    BY <1>9, <2>1 DEF CloseCopied
  <2> QED
    BY <1>3, <2>2, <2>3, <2>4
<1>10. ASSUME NEW w \in Worker, NEW s \in Session, Read(w, s) PROVE Goal
  <2>1. Posts
    BY <1>1, <1>10 DEF Read
  <2>2. UNCHANGED <<strand, exit>> \/ close(s, strand[s])
    BY <1>10, Zenon DEF Read
  <2>3. UNCHANGED <<replied, closer, written>>
    BY <1>10 DEF Read
  <2> QED
    BY <1>2, <1>3, <2>1, <2>2, <2>3
<1>11. ASSUME NEW w \in Worker, NEW s \in Session,
              \/ RunWrite(w, s) \/ RunWriteHandler(w, s) \/ RunCloseSessions(w, s)
              \/ RunCloseSocket(w, s) \/ RunCloseSession(w, s)
       PROVE  Goal
  <2>1. Posts
    BY <1>1, <1>11 DEF RunWrite, RunWriteHandler, RunCloseSessions, RunCloseSocket,
       RunCloseSession
  <2>2. strand[s] # <<>> /\ PopTask(s) /\ UNCHANGED <<exit, replied, closer>>
    BY <1>11 DEF RunWrite, RunWriteHandler, RunCloseSessions, RunCloseSocket, RunCloseSession,
       TaskReady
  <2>3. ASSUME NEW m, IsTask(Head(strand[s]), "write", m) PROVE m \in written' \/ exit[s]
    <3>1. RunWrite(w, s) /\ m = Head(strand[s]).m
      BY <1>11, <2>3 DEF IsTask, RunWriteHandler, RunCloseSessions, RunCloseSocket,
         RunCloseSession, TaskReady
    <3> QED
      BY <3>1 DEF RunWrite
  <2>4. written \subseteq written'
    BY <1>11 DEF RunWrite, RunWriteHandler, RunCloseSessions, RunCloseSocket, RunCloseSession
  <2>5. Moves
    BY <2>2, <2>3, MovesBy
  <2> QED
    BY <2>1, <2>2, <2>4, <2>5, QuietReply
<1>12. ASSUME NEW s \in Session, NEW ok \in BOOLEAN, WriteCompletes(s, ok) PROVE Goal
  <2> DEFINE t == [task |-> "write_handler", ok |-> ok]
  <2>1. t.task # "close"
    OBVIOUS
  <2>2. strand' = [strand EXCEPT ![s] = Append(strand[s], t)]
    BY <1>1, <1>12 DEF WriteCompletes
  <2> HIDE DEF t
  <2>3. Moves
    BY <2>1, <2>2, MovesBy
  <2>4. UNCHANGED <<worker, exit, replied, closer, written>>
    BY <1>12 DEF WriteCompletes
  <2> QED
    BY <2>3, <2>4, QuietReply
<1> QED
  BY <1>4, <1>5, <1>6, <1>7, <1>8, <1>9, <1>10, <1>11, <1>12

\* The parts of the invariant are preserved together.
LEMMA ReplyStep ==
  ASSUME TypeOK, TypeOK', ReplyInv, [Next]_vars
  PROVE  ReplyInv'
<1>1. /\ Places /\ OnePlace /\ DoneOnce /\ ReplyAhead /\ ReplyBeforeExit
  BY DEF ReplyInv, Places
<1>2. Places' /\ \A m \in Msg : Waiting(m)' => Waiting(m) \/ m > msgs
  BY <1>1, PlacesStep
<1>3. msgs \in Nat /\ msgs' \in Nat /\ msgs <= msgs' /\ \A m \in Msg : m \in Nat
  BY MsgsGrow
<1> DEFINE Goal == ReplyAhead' /\ ReplyBeforeExit' /\ DoneOnce'
<1>4. ASSUME ReplyAhead', ReplyBeforeExit', \A m \in Msg : Done(m)' => Done(m) PROVE Goal
  BY <1>1, <1>2, <1>3, <1>4, DoneKept
<1>5. ASSUME NEW w \in Worker, NEW b \in Behaviour, HandlerReturns(w, b) PROVE Goal
  <2>1. PICK x : x = worker[w].m
    OBVIOUS
  <2>2. /\ ReplyAhead' /\ ReplyBeforeExit' /\ Waiting(x) /\ ~Waiting(x)' /\ x \in Msg
        /\ \A m \in Msg : Done(m)' => Done(m) \/ m = x
    BY <1>1, <1>5, <2>1, ReturnReply
  <2>3. x \in Nat /\ x <= msgs'
    <3>1. x <= msgs /\ x \in Nat
      BY <1>1, <1>3, <2>2 DEF Places, WaitingSent
    <3> QED
      BY <1>3, <3>1
  <2>4. ASSUME NEW m \in Msg, Done(m)' PROVE ~Waiting(m)' /\ m <= msgs'
    <3>1. CASE m = x
      BY <2>2, <2>3, <3>1
    <3>2. CASE m # x
      <4>1. ~Waiting(m) /\ m <= msgs /\ m \in Nat
        BY <1>1, <1>3, <2>2, <2>4, <3>2 DEF DoneOnce
      <4> QED
        BY <1>2, <1>3, <4>1
    <3> QED
      BY <3>1, <3>2
  <2> QED
    BY <2>2, <2>4 DEF DoneOnce
<1>6. ASSUME NEW w \in Worker, HandlerPosts(w), worker[w].tasks # <<>> PROVE Goal
  BY <1>1, <1>4, <1>6, PostReply
<1>7. ASSUME NEW w \in Worker, NEW s \in Session, RunExit(w, s) PROVE Goal
  BY <1>1, <1>4, <1>7, ExitReply
<1>8. ASSUME NEW w \in Worker, AcceptThrows(w) PROVE Goal
  BY <1>1, <1>4, <1>8, ThrowReply
<1>9. Goal
  <2> DEFINE Other ==
        \/ UNCHANGED vars \/ RunReturns \/ close_sessions \/ CloseNext \/ stop
        \/ \E s \in Session : Connect(s) \/ ClientSends(s) \/ ClientLeaves(s) \/ ReadCompletes(s)
        \/ \E s \in Session : \E ok \in BOOLEAN : WriteCompletes(s, ok)
        \/ \E w \in Worker :
             \/ async_run(w) \/ Accept(w) \/ AcceptAborted(w) \/ AcceptDone(w)
             \/ ReadLoop(w) \/ ReadEnd(w) \/ CloseCopied(w) \/ CloseSessionsDone(w)
             \/ HandlerPosts(w) /\ worker[w].tasks = <<>>
             \/ \E m \in Msg : HandlerBegins(w, m)
             \/ \E s \in Session :
                  \/ Read(w, s) \/ RunWrite(w, s) \/ RunWriteHandler(w, s) \/ RunCloseSessions(w, s)
                  \/ RunCloseSocket(w, s) \/ RunCloseSession(w, s)
  <2>1. Other => Goal
    BY <1>1, <1>4, OtherReply
  <2>2. \/ Other
        \/ \E w \in Worker :
             \/ \E b \in Behaviour : HandlerReturns(w, b)
             \/ HandlerPosts(w) /\ worker[w].tasks # <<>>
             \/ AcceptThrows(w)
             \/ \E s \in Session : RunExit(w, s)
    BY Zenon DEF Next, WorkerGoesOn, RunTask
  <2> QED
    BY <1>5, <1>6, <1>7, <1>8, <2>1, <2>2
<1> QED
  BY <1>2, <1>9 DEF ReplyInv, Places

\* The invariant of the theorems below: where every message is, and what its
\* handler left.
LEMMA ReplyAlways == Spec => [](AcceptInv /\ ReplyInv)
<1> DEFINE Inv == AcceptInv /\ ReplyInv
<1>1. Init => Inv
  <2> SUFFICES ASSUME Init PROVE ReplyInv
    BY AcceptInit
  <2>1. /\ jobs = {} /\ (\A w \in Worker : worker[w].job = "off") /\ replied = {}
        /\ \A s \in Session : strand[s] = <<>> /\ inbox[s] = <<>> /\ closer[s] = 0
    BY DEF Init
  <2>2. \A m \in Msg : ~Waiting(m)
    BY <2>1 DEF Waiting, In, WorkerHas
  <2>3. \A m \in Msg : ~Done(m)
    <3>1. \A m \in Msg : m # 0
      BY BoundsAssumption DEF Msg
    <3> QED
      BY <2>1, <3>1 DEF Done
  <2>4. Distinct /\ OnePlace
    BY <2>1 DEF Distinct, OnePlace, NoDup, In, WorkerHas
  <2> QED
    BY <2>1, <2>2, <2>3, <2>4 DEF ReplyInv, WaitingSent, DoneOnce, ReplyAhead, ReplyBeforeExit
<1>2. Inv /\ [Next]_vars => Inv'
  <2> SUFFICES ASSUME Inv, [Next]_vars PROVE Inv'
    OBVIOUS
  <2>1. AcceptInv'
    BY AcceptStep
  <2>2. TypeOK /\ TypeOK'
    BY <2>1 DEF AcceptInv
  <2> QED
    BY <2>1, <2>2, ReplyStep
<1> QED
  BY <1>1, <1>2, PTL DEF Spec

\* ReplyBeforeExit, for any number of workers, sessions and messages: whatever the
\* handlers of a session post in between, a session that a handler closes has taken
\* the reply of that handler before.
THEOREM ReplyFirst == Spec => []ReplyBeforeExit
<1>1. ReplyInv => ReplyBeforeExit
  BY DEF ReplyInv
<1> QED
  BY <1>1, ReplyAlways, PTL

\* A request is in one place, for any number of workers, sessions and messages:
\* between the socket and the return of its handler one queue or one worker has it,
\* whichever read carried it and whichever worker took the handler, and what a
\* handler left behind (a reply, the task of an exit, a closed session) belongs to a
\* request that nobody has any more.
THEOREM RequestInOnePlace == Spec => [](Distinct /\ OnePlace /\ DoneOnce)
<1>1. ReplyInv => Distinct /\ OnePlace /\ DoneOnce
  BY DEF ReplyInv
<1> QED
  BY <1>1, ReplyAlways, PTL

\* No step brings back a request that was sent and whose handler has returned, or
\* that was dropped with its session.
NeverAgain == [][\A m \in Msg : m <= msgs /\ ~Waiting(m) => ~Waiting(m)']_vars

\* Every request is handled at most once, for any number of workers, sessions and
\* messages, also the one whose handler leaves nothing behind: with OnePlace the
\* handler that has it is the only one, and no later read, close or post gives it
\* to another.
THEOREM HandledOnce == Spec => NeverAgain
<1>1. /\ AcceptInv /\ ReplyInv /\ (AcceptInv /\ ReplyInv)' /\ [Next]_vars
      => [\A m \in Msg : m <= msgs /\ ~Waiting(m) => ~Waiting(m)']_vars
  <2> SUFFICES ASSUME AcceptInv, ReplyInv, AcceptInv', [Next]_vars, NEW m \in Msg,
                      m <= msgs, ~Waiting(m), Waiting(m)'
               PROVE  FALSE
    OBVIOUS
  <2>1. m > msgs
    BY PlacesStep DEF AcceptInv, ReplyInv, Places
  <2>2. m \in Nat /\ msgs \in Nat
    BY MsgsGrow DEF AcceptInv
  <2> QED
    BY <2>1, <2>2
<1> QED
  BY <1>1, ReplyAlways, PTL DEF Spec, NeverAgain
=============================================================================
