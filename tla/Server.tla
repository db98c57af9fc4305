------------------------------- MODULE Server -------------------------------
(***************************************************************************)
(* rpc::server and its sessions (lib/rpc/server.cc and                     *)
(* lib/rpc/detail/server_session.cc): the accept handler, the read loop of *)
(* a session, the handlers it posts, and the tasks in the session's write  *)
(* strand, run by the workers of one io_service.                           *)
(*                                                                         *)
(* Any free worker may take any job that is ready: asio promises no order  *)
(* between jobs, except that the tasks of a strand run one at a time and   *)
(* in the order they were posted.  Of the session's async_writer there is  *)
(* the queue and whether a write is outstanding; AsyncWriter has the rest. *)
(* What a function does is a choice of Behaviour; Dispatcher has the       *)
(* details.  A session lives as long as something holds a shared_ptr to it.*)
(***************************************************************************)
EXTENDS Naturals, Sequences, FiniteSets

CONSTANTS
  Session,       \* the connections clients may make
  Worker,        \* the threads that run the io_service
  Replies,       \* the kinds of reply functions cause: a subset of ReplyKinds
  Losses,        \* how connections may end for a read: a subset of {"eof", "other"}
  MaxMsgs,       \* bound: messages clients send
  MaxCloses      \* bound: calls of server::close_sessions() by the user

\* A value returned; an object given to respond() or respond_error(); none
\* because the message is a notification; none because it was disabled.
ReplyKinds == {"plain", "special", "empty", "disabled"}

ASSUME RepliesAssumption == Replies \subseteq ReplyKinds
ASSUME LossesAssumption == Losses \subseteq {"eof", "other"}
ASSUME BoundsAssumption == MaxMsgs \in Nat /\ MaxCloses \in Nat

VARIABLES
  running,       \* io_ is not stopped
  jobs,          \* handlers that are ready to run, the strands apart
  worker,        \* what each worker is in the middle of
  stopping,      \* this_server().stopping_ of each worker
  object,        \* the message whose special object this_handler() holds
  accepting,     \* async_accept operations outstanding
  sessions,      \* sessions_
  exit,          \* exit_ of each session
  socket,        \* socket_ of each session
  reader,        \* the async_read_some of each session: "none", "armed", "due"
  strand,        \* tasks in each session's write_strand_
  queue,         \* write_queue_ of each session: the messages replied to
  sending,       \* an async_write of the session is outstanding
  client,        \* the peer of each session: "none", "there" or how it ended
  inbox,         \* messages sent by the client and not read
  copy,          \* sessions_copy of a user thread in close_sessions()
  written,       \* history: messages whose reply an open stream has taken
  replied,       \* history: messages for which a reply was posted
  closer,        \* history: the message whose handler closed the session, or 0
  stopAsked,     \* history: a stop() of a handler was posted
  faults,        \* history: uses of memory that was freed, and a termination
  msgs, closes   \* messages sent and close_sessions() calls, for the bounds

clientVars == <<client, inbox, msgs>>
userVars == <<running, copy, closes>>
localVars == <<stopping, object>>
historyVars == <<written, replied, closer, stopAsked, faults>>
sessionVars == <<exit, socket, strand, queue, sending>>
vars == <<jobs, worker, accepting, sessions, reader, localVars, sessionVars,
          clientVars, userVars, historyVars>>

Msg == 1..MaxMsgs
Behaviour == [reply : Replies, exit : BOOLEAN, stop : BOOLEAN]

Job == [job : {"accept"}, s : Session]
       \cup [job : {"aborted"}]
       \cup [job : {"read"}, s : Session, chunk : Seq(Msg), ec : {"ok", "eof", "other"}]
       \cup [job : {"handler"}, s : Session, m : Msg]
Task == [task : {"write"}, m : Msg, special : BOOLEAN, owner : Worker]
        \cup [task : {"write_handler"}, ok : BOOLEAN]
        \cup [task : {"close"}, m : Msg]
        \cup [task : {"close_sessions", "close_socket", "close_session"}]
Activity == [job : {"off", "idle"}]
            \cup [job : {"accept"}, s : Session]
            \cup [job : {"read"}, s : Session, left : Seq(Msg)]
            \cup [job : {"handler"}, s : Session, m : Msg]
            \cup [job : {"post"}, s : Session, tasks : Seq(Task)]
            \cup [job : {"closing"}, s : Session, copy : SUBSET Session]

\* The types; at most one async_accept is outstanding, since it fills socket_.
TypeOK ==
  /\ running \in BOOLEAN
  /\ \A j \in jobs : j \in Job
  /\ worker \in [Worker -> Activity]
  /\ stopping \in [Worker -> BOOLEAN]
  /\ object \in [Worker -> 0..MaxMsgs]
  /\ accepting \in 0..1
  /\ sessions \subseteq Session
  /\ exit \in [Session -> BOOLEAN]
  /\ socket \in [Session -> {"open", "closed"}]
  /\ reader \in [Session -> {"none", "armed", "due"}]
  /\ strand \in [Session -> Seq(Task)]
  /\ queue \in [Session -> Seq(Msg)]
  /\ sending \in [Session -> BOOLEAN]
  /\ client \in [Session -> {"none", "there", "eof", "other"}]
  /\ inbox \in [Session -> Seq(Msg)]
  /\ copy \subseteq Session
  /\ written \subseteq Msg
  /\ replied \subseteq Msg
  /\ closer \in [Session -> 0..MaxMsgs]
  /\ stopAsked \in BOOLEAN
  /\ faults \subseteq {"session", "object", "terminate"}
  /\ msgs \in 0..MaxMsgs
  /\ closes \in 0..MaxCloses

Idle == [job |-> "idle"]

\* The server is constructed and listens; nothing runs its io_service yet.
Init ==
  /\ running = TRUE
  /\ jobs = {}
  /\ worker = [w \in Worker |-> [job |-> "off"]]
  /\ stopping = [w \in Worker |-> FALSE]
  /\ object = [w \in Worker |-> 0]
  /\ accepting = 1
  /\ sessions = {}
  /\ exit = [s \in Session |-> FALSE]
  /\ socket = [s \in Session |-> "open"]
  /\ reader = [s \in Session |-> "none"]
  /\ strand = [s \in Session |-> <<>>]
  /\ queue = [s \in Session |-> <<>>]
  /\ sending = [s \in Session |-> FALSE]
  /\ client = [s \in Session |-> "none"]
  /\ inbox = [s \in Session |-> <<>>]
  /\ copy = {}
  /\ written = {}
  /\ replied = {}
  /\ closer = [s \in Session |-> 0]
  /\ stopAsked = FALSE
  /\ faults = {}
  /\ msgs = 0
  /\ closes = 0
-----------------------------------------------------------------------------
(* Jobs, strands and the lifetime of a session.                            *)

\* run(), or a thread that async_run() has created, enters io_.run().
async_run(w) ==
  /\ worker[w].job = "off"
  /\ worker' = [worker EXCEPT ![w] = Idle]
  /\ UNCHANGED <<jobs, accepting, sessions, reader, localVars, sessionVars, clientVars,
                 userVars, historyVars>>

\* io_.run() returns in every worker, and stops the io_service, once no operation
\* is outstanding and no handler is left.
RunReturns ==
  /\ running
  /\ \A w \in Worker : worker[w].job \in {"off", "idle"}
  /\ \E w \in Worker : worker[w].job = "idle"
  /\ accepting = 0 /\ jobs = {}
  /\ \A s \in Session : reader[s] = "none" /\ strand[s] = <<>> /\ ~sending[s]
  /\ running' = FALSE
  /\ UNCHANGED <<copy, closes, jobs, worker, accepting, sessions, reader, localVars,
                 sessionVars, clientVars, historyVars>>

\* Worker w can take a job.
Free(w) == running /\ worker[w].job = "idle"

Finish(w) == worker' = [worker EXCEPT ![w] = Idle]

\* server_session::close(): exit_ is set; the tasks posted close the socket and
\* call server::close_session().  Both hold the session.
CloseTasks == <<[task |-> "close_socket"], [task |-> "close_session"]>>
close(s, tasks) ==
  /\ exit' = [exit EXCEPT ![s] = TRUE]
  /\ strand' = [strand EXCEPT ![s] = tasks \o CloseTasks]

\* The tasks that capture self.
Holds(task) == task.task \in {"write", "write_handler", "close_socket", "close_session"}

\* Something holds a shared_ptr to session s: sessions_, a copy of it, the read
\* or the write outstanding, a handler that waits or runs, or a task.
Alive(s) ==
  \/ s \in sessions \cup copy
  \/ reader[s] # "none" \/ sending[s]
  \/ \E j \in jobs : j.job = "handler" /\ j.s = s
  \/ \E w \in Worker : \/ worker[w].job \in {"accept", "read", "handler", "post"}
                          /\ worker[w].s = s
                       \/ worker[w].job = "closing" /\ s \in worker[w].copy
  \/ \E i \in DOMAIN strand[s] : Holds(strand[s][i])
-----------------------------------------------------------------------------
(* The acceptor.                                                           *)

\* The accept handler makes a session and starts it ...
Accept(w) ==
  /\ Free(w)
  /\ \E j \in jobs :
       /\ j.job = "accept"
       /\ jobs' = jobs \ {j}
       /\ worker' = [worker EXCEPT ![w] = j]
       /\ reader' = [reader EXCEPT ![j.s] = "armed"]
  /\ UNCHANGED <<accepting, sessions, localVars, sessionVars, clientVars, userVars,
                 historyVars>>

\* ... or asks for the endpoint of a peer that has gone: remote_endpoint() throws,
\* no one catches it on the way out of io_.run(), and the process terminates.
AcceptThrows(w) ==
  /\ Free(w)
  /\ \E j \in jobs : j.job = "accept" /\ client[j.s] # "there"
  /\ running' = FALSE
  /\ faults' = faults \cup {"terminate"}
  /\ jobs' = {}
  /\ worker' = [v \in Worker |-> [job |-> "off"]]
  /\ accepting' = 0
  /\ sessions' = {} /\ copy' = {}
  /\ reader' = [s \in Session |-> "none"]
  /\ strand' = [s \in Session |-> <<>>]
  /\ sending' = [s \in Session |-> FALSE]
  /\ UNCHANGED <<localVars, exit, socket, queue, clientVars, closes, written, replied, closer,
                 stopAsked>>

\* Mutant of the end of the accept handler: start_accept() is called in the
\* branch of a success and again behind it.
accept_done_twice(w) ==
  /\ worker[w].job = "accept"
  /\ sessions' = sessions \cup {worker[w].s}
  /\ Finish(w)
  /\ accepting' = IF stopping[w] THEN accepting ELSE accepting + 2
  /\ UNCHANGED <<jobs, reader, localVars, sessionVars, clientVars, userVars, historyVars>>

\* Mutant of the end of the accept handler: the session is not kept.
accept_done_drop(w) ==
  /\ worker[w].job = "accept"
  /\ Finish(w)
  /\ accepting' = IF stopping[w] THEN accepting ELSE accepting + 1
  /\ UNCHANGED <<jobs, sessions, reader, localVars, sessionVars, clientVars, userVars,
                 historyVars>>

\* Once the session runs the handler puts it into sessions_ and accepts again,
\* unless the thread it runs on believes that the server stops.
AcceptDone(w) ==
  /\ worker[w].job = "accept"
  /\ sessions' = sessions \cup {worker[w].s}
  /\ Finish(w)
  /\ accepting' = IF stopping[w] THEN accepting ELSE accepting + 1
  /\ UNCHANGED <<jobs, reader, localVars, sessionVars, clientVars, userVars, historyVars>>

\* The accept handler after acceptor_.cancel().
AcceptAborted(w) ==
  /\ Free(w)
  /\ [job |-> "aborted"] \in jobs
  /\ jobs' = jobs \ {[job |-> "aborted"]}
  /\ accepting' = IF stopping[w] THEN accepting ELSE accepting + 1
  /\ UNCHANGED <<worker, sessions, reader, localVars, sessionVars, clientVars, userVars,
                 historyVars>>
-----------------------------------------------------------------------------
(* The read loop of a session.  One read is outstanding at a time.         *)

\* The read handler starts: nothing more for a closed session, the loop over
\* the messages, close() at the end of the connection, or only a log entry.
Read(w, s) ==
  /\ Free(w)
  /\ \E j \in jobs :
       /\ j.job = "read" /\ j.s = s
       /\ jobs' = jobs \ {j}
       /\ IF ~exit[s] /\ j.ec = "ok"
          THEN /\ worker' = [worker EXCEPT ![w] = [job |-> "read", s |-> s,
                                                   left |-> j.chunk]]
               /\ UNCHANGED <<reader, exit, strand>>
          ELSE /\ reader' = [reader EXCEPT ![s] = "none"]
               /\ IF ~exit[s] /\ j.ec = "eof" THEN close(s, strand[s])
                                              ELSE UNCHANGED <<exit, strand>>
               /\ UNCHANGED worker
  /\ UNCHANGED <<accepting, sessions, localVars, socket, queue, sending, clientVars,
                 userVars, historyVars>>

\* One message of the chunk: its handler is posted for any worker.
ReadLoop(w) ==
  LET a == worker[w]
  IN  /\ a.job = "read"
      /\ ~exit[a.s] /\ a.left # <<>>
      /\ jobs' = jobs \cup {[job |-> "handler", s |-> a.s, m |-> Head(a.left)]}
      /\ worker' = [worker EXCEPT ![w].left = Tail(@)]
      /\ UNCHANGED <<accepting, sessions, reader, localVars, sessionVars, clientVars,
                     userVars, historyVars>>

\* Mutant of the end of the loop: do_read() only runs for a closed session.
read_end_inverted(w) ==
  LET a == worker[w]
  IN  /\ a.job = "read"
      /\ exit[a.s] \/ a.left = <<>>
      /\ Finish(w)
      /\ reader' = [reader EXCEPT ![a.s] = IF exit[a.s] THEN "armed" ELSE "none"]
      /\ UNCHANGED <<jobs, accepting, sessions, localVars, sessionVars, clientVars,
                     userVars, historyVars>>

\* The loop ends, and do_read() runs again unless the session is closed.
ReadEnd(w) ==
  LET a == worker[w]
  IN  /\ a.job = "read"
      /\ exit[a.s] \/ a.left = <<>>
      /\ Finish(w)
      /\ reader' = [reader EXCEPT ![a.s] = IF exit[a.s] THEN "none" ELSE "armed"]
      /\ UNCHANGED <<jobs, accepting, sessions, localVars, sessionVars, clientVars,
                     userVars, historyVars>>
-----------------------------------------------------------------------------
(* The posted handler.                                                     *)

\* The thread-local objects are cleared (clear() leaves the memory of a special
\* object alone) and the function is called.
HandlerBegins(w, m) ==
  /\ Free(w)
  /\ \E j \in jobs :
       /\ j.job = "handler" /\ j.m = m
       /\ jobs' = jobs \ {j}
       /\ worker' = [worker EXCEPT ![w] = j]
  /\ stopping' = [stopping EXCEPT ![w] = FALSE]
  /\ UNCHANGED <<object, accepting, sessions, reader, sessionVars, clientVars, userVars,
                 historyVars>>

\* Mutant of HandlerTasks: close is not posted behind the reply.
handler_tasks_swapped(w, m, b) ==
  (IF b.exit THEN <<[task |-> "close", m |-> m]>> ELSE <<>>)
  \o (IF b.reply \in {"plain", "special"}
      THEN <<[task |-> "write", m |-> m, special |-> b.reply = "special", owner |-> w]>>
      ELSE <<>>)
  \o (IF b.stop THEN <<[task |-> "close_sessions"]>> ELSE <<>>)

\* What the handler of message m posts to the write strand.
HandlerTasks(w, m, b) ==
  (IF b.reply \in {"plain", "special"}
   THEN <<[task |-> "write", m |-> m, special |-> b.reply = "special", owner |-> w]>>
   ELSE <<>>)
  \o (IF b.exit THEN <<[task |-> "close", m |-> m]>> ELSE <<>>)
  \o (IF b.stop THEN <<[task |-> "close_sessions"]>> ELSE <<>>)

\* The function returns.  With the response disabled nothing is posted, not
\* even the exit or the stop the function asked for.
HandlerReturns(w, b) ==
  LET a == worker[w]
      tasks == IF b.reply = "disabled" THEN <<>> ELSE HandlerTasks(w, a.m, b)
  IN  /\ a.job = "handler"
      /\ worker' = [worker EXCEPT ![w] = [job |-> "post", s |-> a.s, tasks |-> tasks]]
      /\ stopping' = [stopping EXCEPT ![w] = b.stop]
      /\ object' = IF b.reply = "special" THEN [object EXCEPT ![w] = a.m] ELSE object
      /\ replied' = IF b.reply \in {"plain", "special"} THEN replied \cup {a.m} ELSE replied
      /\ stopAsked' = (stopAsked \/ (b.stop /\ b.reply # "disabled"))
      /\ UNCHANGED <<jobs, accepting, sessions, reader, sessionVars, clientVars, userVars,
                     written, closer, faults>>

\* write_strand().post() for each of them; the handler ends after the last.
HandlerPosts(w) ==
  LET a == worker[w]
  IN  /\ a.job = "post"
      /\ IF a.tasks # <<>>
         THEN /\ strand' = [strand EXCEPT ![a.s] = Append(@, Head(a.tasks))]
              /\ worker' = [worker EXCEPT ![w].tasks = Tail(@)]
         ELSE /\ Finish(w)
              /\ UNCHANGED strand
      /\ UNCHANGED <<jobs, accepting, sessions, reader, localVars, exit, socket, queue,
                     sending, clientVars, userVars, historyVars>>
-----------------------------------------------------------------------------
(* The tasks of the write strand.                                          *)

\* Worker w can run the first task of s, which is of the given kind: the strand
\* runs one task at a time.
TaskReady(w, s, kind) ==
  /\ Free(w)
  /\ strand[s] # <<>> /\ Head(strand[s]).task = kind
  /\ \A v \in Worker : worker[v].job = "closing" => worker[v].s # s

PopTask(s) == strand' = [strand EXCEPT ![s] = Tail(@)]

\* write(resp.get_data()): reads the objects of the response and puts the message
\* into the queue, behind the others of a chain of writes that goes on; otherwise
\* do_write() begins one, unless the session is closed.
RunWrite(w, s) ==
  LET t == Head(strand[s])
  IN  /\ TaskReady(w, s, "write")
      /\ faults' = IF t.special /\ object[t.owner] # t.m
                   THEN faults \cup {"object"} ELSE faults
      /\ written' = IF exit[s] THEN written ELSE written \cup {t.m}
      /\ queue' = [queue EXCEPT ![s] = Append(@, t.m)]
      /\ sending' = [sending EXCEPT ![s] = @ \/ (queue[s] = <<>> /\ ~exit[s])]
      /\ PopTask(s)
      /\ UNCHANGED <<jobs, worker, accepting, sessions, reader, localVars, exit, socket,
                     clientVars, userVars, replied, closer, stopAsked>>

\* The completion handler of a write takes its message off the queue and goes on
\* with the next one unless the session is closed.  An error is only logged.
RunWriteHandler(w, s) ==
  /\ TaskReady(w, s, "write_handler")
  /\ IF Head(strand[s]).ok
     THEN /\ queue' = [queue EXCEPT ![s] = SubSeq(@, 2, Len(@))]
          /\ sending' = [sending EXCEPT ![s] = Len(queue[s]) > 1 /\ ~exit[s]]
     ELSE UNCHANGED <<queue, sending>>
  /\ PopTask(s)
  /\ UNCHANGED <<jobs, worker, accepting, sessions, reader, localVars, exit, socket,
                 clientVars, userVars, historyVars>>

\* close() for post_exit(): the task does not hold the session.
RunExit(w, s) ==
  /\ TaskReady(w, s, "close")
  /\ IF Alive(s)
     THEN /\ close(s, Tail(strand[s]))
          /\ closer' = IF exit[s] THEN closer
                       ELSE [closer EXCEPT ![s] = Head(strand[s]).m]
          /\ UNCHANGED faults
     ELSE /\ faults' = faults \cup {"session"}
          /\ PopTask(s)
          /\ UNCHANGED <<exit, closer>>
  /\ UNCHANGED <<jobs, worker, accepting, sessions, reader, localVars, socket, queue,
                 sending, clientVars, userVars, written, replied, stopAsked>>

\* server::close_sessions() for this_server().stop(): sessions_ is moved to a
\* copy under the lock ...
RunCloseSessions(w, s) ==
  /\ TaskReady(w, s, "close_sessions")
  /\ PopTask(s)
  /\ IF Alive(s)
     THEN /\ worker' = [worker EXCEPT ![w] = [job |-> "closing", s |-> s,
                                              copy |-> sessions]]
          /\ sessions' = {}
          /\ UNCHANGED faults
     ELSE /\ faults' = faults \cup {"session"}
          /\ UNCHANGED <<worker, sessions>>
  /\ UNCHANGED <<jobs, accepting, reader, localVars, exit, socket, queue, sending,
                 clientVars, userVars, written, replied, closer, stopAsked>>

\* ... the sessions in it are closed ...
CloseCopied(w) ==
  /\ worker[w].job = "closing"
  /\ \E s \in worker[w].copy :
       /\ close(s, strand[s])
       /\ worker' = [worker EXCEPT ![w].copy = @ \ {s}]
  /\ UNCHANGED <<jobs, accepting, sessions, reader, localVars, socket, queue, sending,
                 clientVars, userVars, historyVars>>

\* ... and the acceptor is cancelled if the thread that runs this is the one
\* whose handler called stop().
CloseSessionsDone(w) ==
  LET cancel == stopping[w] /\ accepting > 0
  IN  /\ worker[w].job = "closing" /\ worker[w].copy = {}
      /\ Finish(w)
      /\ accepting' = IF cancel THEN 0 ELSE accepting
      /\ jobs' = IF cancel THEN jobs \cup {[job |-> "aborted"]} ELSE jobs
      /\ UNCHANGED <<sessions, reader, localVars, sessionVars, clientVars, userVars,
                     historyVars>>

\* Mutant of the closing of the socket: it is shut down for sending only, and
\* the read on it goes on waiting.
run_shutdown_send(w, s) ==
  /\ TaskReady(w, s, "close_socket")
  /\ PopTask(s)
  /\ UNCHANGED <<jobs, worker, accepting, sessions, reader, localVars, exit, socket, queue,
                 sending, clientVars, userVars, historyVars>>

\* The part of async_writer::close() that closes the socket.
RunCloseSocket(w, s) ==
  /\ TaskReady(w, s, "close_socket")
  /\ socket' = [socket EXCEPT ![s] = "closed"]
  /\ PopTask(s)
  /\ UNCHANGED <<jobs, worker, accepting, sessions, reader, localVars, exit, queue, sending,
                 clientVars, userVars, historyVars>>

\* Mutant of close_session(): the session is looked up and not erased.
close_session_find(s) == sessions

\* server::close_session(): sessions_ without the session.
close_session(s) == sessions \ {s}

RunCloseSession(w, s) ==
  /\ TaskReady(w, s, "close_session")
  /\ sessions' = close_session(s)
  /\ PopTask(s)
  /\ UNCHANGED <<jobs, worker, accepting, reader, localVars, exit, socket, queue, sending,
                 clientVars, userVars, historyVars>>
-----------------------------------------------------------------------------
(* The user's threads, which are not stopping.                             *)

\* server::close_sessions() from outside.
close_sessions ==
  /\ running
  /\ closes < MaxCloses /\ copy = {}
  /\ closes' = closes + 1
  /\ copy' = sessions
  /\ sessions' = {}
  /\ UNCHANGED <<running, jobs, worker, accepting, reader, localVars, sessionVars,
                 clientVars, historyVars>>

CloseNext ==
  /\ \E s \in copy : close(s, strand[s]) /\ copy' = copy \ {s}
  /\ UNCHANGED <<running, closes, jobs, worker, accepting, sessions, reader, localVars,
                 socket, queue, sending, clientVars, historyVars>>

\* server::stop(), and ~server(): io_.stop(), then the workers are joined when
\* the job they are in ends.
stop ==
  /\ running /\ copy = {}
  /\ running' = FALSE
  /\ UNCHANGED <<copy, closes, jobs, worker, accepting, sessions, reader, localVars,
                 sessionVars, clientVars, historyVars>>
-----------------------------------------------------------------------------
(* The clients and the sockets.                                            *)

envUnchanged == <<worker, sessions, localVars, sessionVars, userVars, historyVars>>

Connect(s) ==
  /\ running
  /\ client[s] = "none"
  /\ accepting > 0
  /\ client' = [client EXCEPT ![s] = "there"]
  /\ accepting' = accepting - 1
  /\ jobs' = jobs \cup {[job |-> "accept", s |-> s]}
  /\ UNCHANGED <<envUnchanged, reader, inbox, msgs>>

ClientSends(s) ==
  /\ client[s] = "there"
  /\ msgs < MaxMsgs
  /\ msgs' = msgs + 1
  /\ inbox' = [inbox EXCEPT ![s] = Append(@, msgs + 1)]
  /\ UNCHANGED <<envUnchanged, jobs, accepting, reader, client>>

ClientLeaves(s) ==
  /\ client[s] = "there"
  /\ \E how \in Losses : client' = [client EXCEPT ![s] = how]
  /\ UNCHANGED <<envUnchanged, jobs, accepting, reader, inbox, msgs>>

\* A read completes: with some of the messages or only a part of the next one, with
\* the end of the connection, or because the socket was closed under it
\* (operation_aborted).
ReadCompletes(s) ==
  /\ running
  /\ reader[s] = "armed"
  /\ reader' = [reader EXCEPT ![s] = "due"]
  /\ \E n \in 0..Len(inbox[s]), ec \in {"ok", "eof", "other"} :
       /\ \/ socket[s] = "open" /\ ec = "ok" /\ inbox[s] # <<>>
          \/ socket[s] = "open" /\ ec = client[s] /\ inbox[s] = <<>>
          \/ socket[s] = "closed" /\ ec = "other" /\ n = 0
       /\ jobs' = jobs \cup {[job |-> "read", s |-> s, ec |-> ec,
                              chunk |-> SubSeq(inbox[s], 1, n)]}
       /\ inbox' = [inbox EXCEPT ![s] = SubSeq(@, n + 1, Len(@))]
  /\ UNCHANGED <<envUnchanged, accepting, client, msgs>>

\* A write completes and its handler, which was wrapped, goes to the strand.  It
\* fails when the client has gone or the socket was closed under it; either may
\* come too late for it.
WriteCompletes(s, ok) ==
  /\ running
  /\ sending[s]
  /\ ok \/ client[s] # "there" \/ socket[s] = "closed"
  /\ sending' = [sending EXCEPT ![s] = FALSE]
  /\ strand' = [strand EXCEPT ![s] = Append(@, [task |-> "write_handler", ok |-> ok])]
  /\ UNCHANGED <<jobs, worker, accepting, sessions, reader, localVars, exit, socket, queue,
                 clientVars, userVars, historyVars>>
-----------------------------------------------------------------------------
\* A worker takes a job ...
RunTask(w, s) ==
  \/ RunWrite(w, s)
  \/ RunWriteHandler(w, s)
  \/ RunExit(w, s)
  \/ RunCloseSessions(w, s)
  \/ RunCloseSocket(w, s)
  \/ RunCloseSession(w, s)

\* ... or goes on with the one it is in.
WorkerGoesOn(w) ==
  \/ AcceptDone(w)
  \/ ReadLoop(w)
  \/ ReadEnd(w)
  \/ \E b \in Behaviour : HandlerReturns(w, b)
  \/ HandlerPosts(w)
  \/ CloseCopied(w)
  \/ CloseSessionsDone(w)

Next ==
  \/ \E w \in Worker :
       \/ async_run(w)
       \/ Accept(w)
       \/ AcceptThrows(w)
       \/ AcceptAborted(w)
       \/ WorkerGoesOn(w)
       \/ \E s \in Session : Read(w, s) \/ RunTask(w, s)
       \/ \E m \in Msg : HandlerBegins(w, m)
  \/ RunReturns
  \/ close_sessions
  \/ CloseNext
  \/ stop
  \/ \E s \in Session : \/ Connect(s)
                        \/ ClientSends(s)
                        \/ ClientLeaves(s)
                        \/ ReadCompletes(s)
                        \/ \E ok \in BOOLEAN : WriteCompletes(s, ok)

Spec == Init /\ [][Next]_vars

\* The step of ReadCompletes that brings no more than a part of a message.
ReadsPart(s) == socket[s] = "open" /\ inbox[s] # <<>> /\ inbox'[s] = inbox[s]

\* Workers go on with what they are in (functions return); the reactor reports
\* a read that can complete, and as messages are finite reads bring their ends; it
\* reports a write to a socket that is closed or has lost its client (a client that
\* stays need not take what is sent); and the queue of the io_service is served in
\* order, so that a job that is ready again and again is taken.
Fairness ==
  /\ \A w \in Worker : WF_vars(async_run(w)) /\ WF_vars(WorkerGoesOn(w))
  /\ WF_vars(RunReturns)
  /\ WF_vars(CloseNext)
  /\ SF_vars(\E w \in Worker : Accept(w))
  /\ SF_vars(\E w \in Worker : AcceptAborted(w))
  /\ \A m \in Msg : SF_vars(\E w \in Worker : HandlerBegins(w, m))
  /\ \A s \in Session : /\ SF_vars(ReadCompletes(s) /\ ~ReadsPart(s))
                        /\ WF_vars(\E ok \in BOOLEAN :
                             /\ client[s] # "there" \/ socket[s] = "closed"
                             /\ WriteCompletes(s, ok))
                        /\ SF_vars(\E w \in Worker : Read(w, s))
                        /\ SF_vars(\E w \in Worker : RunTask(w, s))

FairSpec == Spec /\ Fairness
-----------------------------------------------------------------------------
(* Properties.                                                             *)

\* The comment in do_read(): close() is posted "through the strand so this comes
\* after the previous write".  When the handler of a message closes its session,
\* the reply to that message was handed to the stream before, whatever the read loop,
\* the user and the other handlers of the session post in between.
ReplyBeforeExit ==
  \A s \in Session : closer[s] \in replied => closer[s] \in written

\* close_sessions() reaches every open session: one whose read loop goes on is
\* in sessions_, in a copy about to be closed, or about to be put there.
OpenIsRegistered ==
  \A s \in Session : reader[s] # "none" /\ ~exit[s] =>
    \/ s \in sessions \cup copy
    \/ \E w \in Worker : worker[w].job = "accept" /\ worker[w].s = s
    \/ \E w \in Worker : worker[w].job = "closing" /\ s \in worker[w].copy

\* The task posted for post_exit() or stop() finds its session alive, although
\* it holds no shared_ptr to it.
NoDanglingSession == "session" \notin faults

\* What a client has sent is read as long as its session is open, in however many parts
\* it comes and whatever the other workers are in: the read loop never stops early.
MessagesRead ==
  \A s \in Session :
    (inbox[s] # <<>> /\ reader[s] # "none") ~> (inbox[s] = <<>> \/ exit[s] \/ ~running)

\* CHANGELOG.md: "Fixed an issue where the server did not properly release closed
\* connections".  A session that is open when it is in sessions_ is destroyed after
\* its client has gone, whatever was read, handled, written or closed meanwhile.  One
\* closed by another worker before push_back() (server.cc:64) is put into sessions_
\* after its close_session() and stays there; the property is not about that one.
DisconnectedReleased ==
  \A s \in Session :
    (client[s] = "eof" /\ s \in sessions /\ ~exit[s]) ~> (~Alive(s) \/ ~running)

\* A closed session comes to rest, with other workers in its handlers and close() of
\* the user, of a handler and of the read loop in any order: its reads, its writes
\* and its tasks come to an end.
ClosedComesToRest ==
  \A s \in Session :
    exit[s] ~> (~running \/ [](reader[s] = "none" /\ ~sending[s] /\ strand[s] = <<>>))

\* include/rpc/this_server.h: stop() "gracefully stops the server": no accept
\* is outstanding or about to be started again.
Accepting ==
  \/ accepting > 0
  \/ \E j \in jobs : j.job \in {"accept", "aborted"}
  \/ \E w \in Worker : worker[w].job = "accept"
StopStops == stopAsked ~> (~Accepting \/ ~running)

\* include/rpc/this_handler.h: "If the same handler is executing concurrently in
\* a different thread, you can safely set different properties and everything
\* will just work": the object a handler set is intact when it is sent.
SpecialObjectIntact == "object" \notin faults
=============================================================================
