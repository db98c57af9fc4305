------------------------------- MODULE Client -------------------------------
(***************************************************************************)
(* rpc::client (lib/rpc/client.cc, include/rpc/client.h and client.inl).   *)
(* User threads make calls and send notifications; one io thread runs the  *)
(* connection handler, the handlers posted to strand_, the completions of  *)
(* the writer and the read loop, one handler at a time.  A response is     *)
(* matched with its call through ongoing_calls_, keyed by the message id.  *)
(*                                                                         *)
(* The write queue is AsyncWriter's; a request takes one segment.  Calls   *)
(* are numbered 1, 2, ... in the order get_next_call_idx() runs; the       *)
(* number of a call and its id differ once call_idx_ wraps.                *)
(***************************************************************************)
EXTENDS Integers, Sequences, FiniteSets

CONSTANTS
  Thread,        \* the user's threads
  NoMessage,     \* never written; the writer's Garbage
  Half,          \* call_idx_ (an int) goes from -Half to Half - 1
  FirstIdx,      \* call_idx_ when the modelled calls begin; those before are over
  Endpoints,     \* addresses the server's name resolves to
  MaxCalls,      \* bound: calls made
  MaxSends,      \* bound: notifications sent
  MaxSettings    \* bound: calls of set_timeout() and clear_timeout()

ASSUME ThreadAssumption == IsFiniteSet(Thread)
ASSUME HalfAssumption == Half \in Nat \ {0}
ASSUME FirstIdxAssumption == FirstIdx \in (-Half)..(Half - 1)
ASSUME EndpointsAssumption == Endpoints \in Nat \ {0}
ASSUME CountsAssumption == MaxCalls \in Nat /\ MaxSends \in Nat /\ MaxSettings \in Nat

VARIABLES
  alive,         \* FALSE once ~client() has returned
  state,         \* state_
  isConnected,   \* is_connected_
  connectionEc,  \* connection_ec_ holds an error
  timeout,       \* timeout_ holds a value
  callIdx,       \* call_idx_
  calls,         \* calls numbered so far
  thread,        \* what each user thread is doing
  future,        \* the future of each call, by number
  strand,        \* handlers waiting in strand_
  ongoingCalls,  \* ongoing_calls_
  collided,      \* history: insert() found the id of a call in use
  io,            \* io_.run() goes on, has returned, or threw: the process ends
  reading,       \* an async_read_some is outstanding
  pac,           \* responses in pac_ the read handler has still to go through
  writeQueue, inflight, tail, accepted,   \* writer_
  wire,          \* requests sent to the server
  link,          \* the TCP connection
  attempt,       \* the endpoint being tried
  answered,      \* calls the server has executed and answered
  responses,     \* responses on their way to the client
  sends, settings                         \* for the bounds

netVars == <<link, attempt, answered, responses>>
connVars == <<state, isConnected, connectionEc>>
writerVars == <<writeQueue, inflight, tail, accepted, wire>>
boundVars == <<sends, settings>>
vars == <<alive, connVars, timeout, callIdx, calls, thread, future, strand,
          ongoingCalls, collided, io, reading, pac, writerVars, netVars, boundVars>>
-----------------------------------------------------------------------------
(* Messages and ids.                                                       *)

IdCount == 2 * Half
Idx == (-Half)..(Half - 1)

\* Mutant of get_next_call_idx(): the counter is read and not incremented.
next_idx_stuck(i) == i

\* ++call_idx_, an atomic<int>.
get_next_call_idx(i) == IF i + 1 < Half THEN i + 1 ELSE -Half

\* The key of ongoing_calls_ (uint32_t) that an id (int) converts to.
Key(id) == id % IdCount

Calls == 1..MaxCalls
CallRequest == [kind : {"call"}, call : Calls, id : Idx]
Notification == [kind : {"notification"}, n : 1..MaxSends]
Message == CallRequest \cup Notification

\* A response: its id, whether it carries an error, and the call it answers.
Response == [id : 0..(IdCount - 1), error : BOOLEAN, answers : Calls]

Up == link = "up"
Ended == {"eof", "reset", "other"}      \* how a connection ends

Writer == INSTANCE AsyncWriter WITH
  Item <- Message, Garbage <- NoMessage, Segments <- 1, MaxPosts <- 0,
  MaxCloses <- 0, exit <- FALSE, socket <- "open", peerUp <- Up,
  strand <- <<>>, posts <- 0, closes <- 0
-----------------------------------------------------------------------------
Pending == [st |-> "pending", answers |-> 0]
AtRest == {"idle", "timeout", "system_error", "future_error"}
Pcs == AtRest \cup {"wait_conn", "cv_wait", "cv_wait_for", "woken", "index",
                    "post", "posted", "fut_wait", "fut_wait_for"}

\* What strand_ may hold: the two kinds of post(), and the erase of an entry.
Posted == [op : {"write"}, msg : Message] \cup [op : {"erase"}, key : 0..(IdCount - 1)]

\* The entries of ongoing_calls_: the call whose promise it is (0 for an entry
\* operator[] made up) and whether the promise was satisfied.
Entry == [call : 0..MaxCalls, satisfied : BOOLEAN]

TypeOK ==
  /\ alive \in BOOLEAN
  /\ state \in {"initial", "connected", "disconnected"}
  /\ isConnected \in BOOLEAN
  /\ connectionEc \in BOOLEAN
  /\ timeout \in BOOLEAN
  /\ callIdx \in Idx
  /\ calls \in 0..MaxCalls
  /\ thread \in [Thread -> [pc : Pcs, call : 0..MaxCalls, id : Idx, sync : BOOLEAN]]
  /\ future \in [Calls -> [st : {"none", "pending", "value", "error", "broken"},
                           answers : 0..MaxCalls]]
  /\ strand \in Seq(Posted)
  /\ DOMAIN ongoingCalls \subseteq 0..(IdCount - 1)
  /\ \A k \in DOMAIN ongoingCalls : ongoingCalls[k] \in Entry
  /\ collided \in BOOLEAN
  /\ io \in {"running", "returned", "threw"}
  /\ reading \in BOOLEAN
  /\ pac \in Seq(Response)
  /\ Writer!TypeOK
  /\ link \in {"connecting", "up", "refused"} \cup Ended
  /\ attempt \in 1..Endpoints
  /\ answered \subseteq Calls
  /\ responses \in Seq(Response)
  /\ sends \in 0..MaxSends
  /\ settings \in 0..MaxSettings

\* client::client(): the connection is being made, the io thread runs.
Init ==
  /\ alive = TRUE
  /\ state = "initial"
  /\ isConnected = FALSE
  /\ connectionEc = FALSE
  /\ timeout = FALSE
  /\ callIdx = FirstIdx
  /\ calls = 0
  /\ thread = [t \in Thread |-> [pc |-> "idle", call |-> 0, id |-> 0, sync |-> FALSE]]
  /\ future = [c \in Calls |-> [st |-> "none", answers |-> 0]]
  /\ strand = <<>>
  /\ ongoingCalls = <<>>
  /\ collided = FALSE
  /\ io = "running"
  /\ reading = FALSE
  /\ pac = <<>>
  /\ writeQueue = <<>>
  /\ inflight = <<>>
  /\ tail = <<>>
  /\ accepted = <<>>
  /\ wire = <<>>
  /\ link = "connecting"
  /\ attempt = 1
  /\ answered = {}
  /\ responses = <<>>
  /\ sends = 0
  /\ settings = 0
-----------------------------------------------------------------------------
(* User threads.                                                           *)

Goto(t, pc) == thread' = [thread EXCEPT ![t].pc = pc]
Rest(pc) == [pc |-> pc, call |-> 0, id |-> 0, sync |-> FALSE]
Leave(t, pc) == thread' = [thread EXCEPT ![t] = Rest(pc)]

\* Threads that have begun a call which has no number yet.
Beginning == {t \in Thread :
                thread[t].pc \in {"wait_conn", "cv_wait", "cv_wait_for", "woken", "index"}}

userUnchanged == <<alive, connVars, collided, io, reading, pac, ongoingCalls,
                   writerVars, netVars>>

\* call() and async_call() both begin with wait_conn().
StartCall(t, sync) ==
  /\ alive
  /\ thread[t].pc \in AtRest
  /\ calls + Cardinality(Beginning) < MaxCalls
  /\ thread' = [thread EXCEPT ![t] = [@ EXCEPT !.pc = "wait_conn", !.sync = sync]]
  /\ UNCHANGED <<userUnchanged, timeout, callIdx, calls, future, strand, boundVars>>

\* Mutant of wait_conn(): "while" became "if", a woken thread goes ahead.
wait_conn_if(t) ==
  /\ thread[t].pc \in {"wait_conn", "woken"}
  /\ Goto(t, CASE isConnected \/ thread[t].pc = "woken" -> "index"
               [] ~isConnected /\ thread[t].pc = "wait_conn" /\ connectionEc -> "system_error"
               [] OTHER -> IF timeout THEN "cv_wait_for" ELSE "cv_wait")
  /\ UNCHANGED <<userUnchanged, timeout, callIdx, calls, future, strand, boundVars>>

\* One turn of the loop in wait_conn(), under mut_connection_finished_.
wait_conn(t) ==
  /\ thread[t].pc \in {"wait_conn", "woken"}
  /\ Goto(t, CASE isConnected -> "index"
               [] ~isConnected /\ connectionEc -> "system_error"
               [] OTHER -> IF timeout THEN "cv_wait_for" ELSE "cv_wait")
  /\ UNCHANGED <<userUnchanged, timeout, callIdx, calls, future, strand, boundVars>>

\* A wait on conn_finished_ may end without a notification.
SpuriousWakeup(t) ==
  /\ thread[t].pc \in {"cv_wait", "cv_wait_for"}
  /\ Goto(t, IF thread[t].pc = "cv_wait" THEN "wait_conn" ELSE "woken")
  /\ UNCHANGED <<userUnchanged, timeout, callIdx, calls, future, strand, boundVars>>

\* wait_for() reports a timeout; it may do so although the thread was notified.
ConnectTimeout(t) ==
  /\ thread[t].pc \in {"cv_wait_for", "woken"}
  /\ Leave(t, "timeout")
  /\ UNCHANGED <<userUnchanged, timeout, callIdx, calls, future, strand, boundVars>>

\* async_call() takes an id and makes the promise and its future ...
TakeIndex(t) ==
  /\ thread[t].pc = "index"
  /\ calls' = calls + 1
  /\ callIdx' = get_next_call_idx(callIdx)
  /\ future' = [future EXCEPT ![calls + 1] = Pending]
  /\ thread' = [thread EXCEPT ![t] = [@ EXCEPT !.pc = "post", !.call = calls + 1,
                                                !.id = callIdx']]
  /\ UNCHANGED <<userUnchanged, timeout, strand, boundVars>>

\* ... and posts them; async_call() then returns the future.
PostCall(t) ==
  /\ thread[t].pc = "post"
  /\ strand' = Append(strand, [op |-> "write",
                               msg |-> [kind |-> "call", call |-> thread[t].call,
                                        id |-> thread[t].id]])
  /\ IF thread[t].sync THEN Goto(t, "posted") ELSE Leave(t, "idle")
  /\ UNCHANGED <<userUnchanged, timeout, callIdx, calls, future, boundVars>>

\* call() looks at the timeout and waits for the future.
WaitFuture(t) ==
  /\ thread[t].pc = "posted"
  /\ Goto(t, IF timeout THEN "fut_wait_for" ELSE "fut_wait")
  /\ UNCHANGED <<userUnchanged, timeout, callIdx, calls, future, strand, boundVars>>

\* The future is ready: get() returns its value or throws its error.
CallReturns(t) ==
  /\ thread[t].pc \in {"fut_wait", "fut_wait_for"}
  /\ future[thread[t].call].st # "pending"
  /\ Leave(t, "idle")
  /\ UNCHANGED <<userUnchanged, timeout, callIdx, calls, future, strand, boundVars>>

\* throw_timeout(); the call stays in ongoing_calls_.
CallTimeout(t) ==
  /\ thread[t].pc = "fut_wait_for"
  /\ Leave(t, "timeout")
  /\ UNCHANGED <<userUnchanged, timeout, callIdx, calls, future, strand, boundVars>>

\* send() does not wait for the connection.
Send(t) ==
  /\ alive
  /\ thread[t].pc \in AtRest
  /\ sends < MaxSends
  /\ sends' = sends + 1
  /\ strand' = Append(strand, [op |-> "write",
                               msg |-> [kind |-> "notification", n |-> sends + 1]])
  /\ UNCHANGED <<userUnchanged, timeout, callIdx, calls, thread, future, settings>>

SetTimeout(t, on) ==
  /\ alive
  /\ thread[t].pc \in AtRest
  /\ settings < MaxSettings
  /\ settings' = settings + 1
  /\ timeout' = on
  /\ UNCHANGED <<userUnchanged, callIdx, calls, thread, future, strand, sends>>

\* wait_all_responses(): every promise in ongoing_calls_ has already given out
\* its future, so that asking for it again throws; with no entry it returns.
wait_all_responses(t) ==
  /\ alive
  /\ thread[t].pc \in AtRest
  /\ Goto(t, IF \E k \in DOMAIN ongoingCalls : ongoingCalls[k].call # 0
             THEN "future_error" ELSE "idle")
  /\ UNCHANGED <<userUnchanged, timeout, callIdx, calls, future, strand, boundVars>>

\* ~client(): the io thread finishes the handler it is in; what was posted and
\* not run, and ongoing_calls_, are destroyed with their promises.
Destroy ==
  /\ alive
  /\ \A t \in Thread : thread[t].pc \in AtRest
  /\ pac = <<>>
  /\ alive' = FALSE
  /\ future' = [c \in Calls |->
                  IF future[c].st = "pending" THEN [future[c] EXCEPT !.st = "broken"]
                                              ELSE future[c]]
  /\ UNCHANGED <<connVars, timeout, callIdx, calls, thread, strand, ongoingCalls,
                 collided, io, reading, pac, writerVars, netVars, boundVars>>
-----------------------------------------------------------------------------
(* The io thread.                                                          *)

\* It can start another handler.
IoIdle == alive /\ io = "running" /\ pac = <<>>

\* What io_ counts as work: the connection attempt, posted handlers, writes, the
\* read.  Nothing else keeps run() from returning when a handler is over.
HasWork == state = "initial" \/ strand # <<>> \/ inflight # <<>> \/ reading \/ pac # <<>>
EndHandler == io' = IF HasWork' THEN "running" ELSE "returned"

ioUnchanged == <<alive, timeout, callIdx, calls, boundVars>>

\* conn_finished_.notify_all()
Woken == [t \in Thread |->
            [thread[t] EXCEPT !.pc = CASE @ = "cv_wait" -> "wait_conn"
                                       [] @ = "cv_wait_for" -> "woken"
                                       [] OTHER -> @]]

\* The handler of async_connect, success.
Connected ==
  /\ IoIdle
  /\ state = "initial" /\ link \in {"up"} \cup Ended
  /\ isConnected' = TRUE
  /\ state' = "connected"
  /\ thread' = Woken
  /\ reading' = TRUE
  /\ UNCHANGED <<ioUnchanged, connectionEc, future, strand, ongoingCalls, collided,
                 pac, writerVars, netVars>>
  /\ EndHandler

\* Mutant of the error branch: nobody is notified.
connect_error_silent ==
  /\ IoIdle
  /\ state = "initial" /\ link = "refused"
  /\ state' = "disconnected"
  /\ connectionEc' = TRUE
  /\ UNCHANGED <<ioUnchanged, isConnected, thread, future, strand, ongoingCalls,
                 collided, reading, pac, writerVars, netVars>>
  /\ EndHandler

\* The handler of async_connect, all endpoints failed.
ConnectError ==
  /\ IoIdle
  /\ state = "initial" /\ link = "refused"
  /\ state' = "disconnected"
  /\ connectionEc' = TRUE
  /\ thread' = Woken
  /\ UNCHANGED <<ioUnchanged, isConnected, future, strand, ongoingCalls, collided,
                 reading, pac, writerVars, netVars>>
  /\ EndHandler

\* ongoing_calls_.insert(): a key that is there keeps its entry, and the new
\* promise is destroyed.
Insert(m) ==
  LET k == Key(m.id)
  IN  IF k \in DOMAIN ongoingCalls
      THEN /\ future' = [future EXCEPT ![m.call].st = "broken"]
           /\ collided' = TRUE
           /\ UNCHANGED ongoingCalls
      ELSE /\ ongoingCalls' = [j \in DOMAIN ongoingCalls \cup {k} |->
                                 IF j = k THEN [call |-> m.call, satisfied |-> FALSE]
                                          ELSE ongoingCalls[j]]
           /\ UNCHANGED <<future, collided>>

\* A handler posted by post(): the call is registered, then written.
RunPost ==
  /\ IoIdle
  /\ strand # <<>> /\ Head(strand).op = "write"
  /\ strand' = Tail(strand)
  /\ LET m == Head(strand).msg
     IN  /\ IF m.kind = "call" THEN Insert(m)
            ELSE UNCHANGED <<future, ongoingCalls, collided>>
         /\ Writer!write(m)
  /\ UNCHANGED <<ioUnchanged, connVars, thread, reading, pac, attempt,
                 answered, responses, link>>
  /\ EndHandler

\* Mutant of RunErase: clear() instead of erase(id).
run_erase_all ==
  /\ IoIdle
  /\ strand # <<>> /\ Head(strand).op = "erase"
  /\ strand' = Tail(strand)
  /\ ongoingCalls' = <<>>
  /\ future' = [c \in Calls |->
                  IF \E k \in DOMAIN ongoingCalls :
                       ongoingCalls[k] = [call |-> c, satisfied |-> FALSE]
                  THEN [future[c] EXCEPT !.st = "broken"] ELSE future[c]]
  /\ UNCHANGED <<ioUnchanged, connVars, thread, collided, reading, pac, writerVars, netVars>>
  /\ EndHandler

\* The handler posted for a response: its call is forgotten.
RunErase ==
  /\ IoIdle
  /\ strand # <<>> /\ Head(strand).op = "erase"
  /\ strand' = Tail(strand)
  /\ LET k == Head(strand).key
     IN  /\ ongoingCalls' = [j \in DOMAIN ongoingCalls \ {k} |-> ongoingCalls[j]]
         /\ future' = IF /\ k \in DOMAIN ongoingCalls
                         /\ ~ongoingCalls[k].satisfied /\ ongoingCalls[k].call # 0
                      THEN [future EXCEPT ![ongoingCalls[k].call].st = "broken"]
                      ELSE future
  /\ UNCHANGED <<ioUnchanged, connVars, thread, collided, reading, pac, writerVars, netVars>>
  /\ EndHandler

\* The completion handler of a write.
RunWriteHandler ==
  /\ IoIdle
  /\ \E k \in DOMAIN inflight : Writer!write_handler(k)
  /\ UNCHANGED <<ioUnchanged, connVars, thread, future, strand, ongoingCalls, collided,
                 reading, pac, netVars>>
  /\ EndHandler

\* The read handler gets a chunk with one or more responses.
ReadChunk ==
  /\ IoIdle
  /\ reading
  /\ reading' = FALSE
  /\ \E n \in 1..Len(responses) :
       /\ pac' = SubSeq(responses, 1, n)
       /\ responses' = SubSeq(responses, n + 1, Len(responses))
  /\ UNCHANGED <<ioUnchanged, connVars, thread, future, strand, ongoingCalls, collided,
                 writerVars, link, attempt, answered>>
  /\ EndHandler

\* Mutant of the read handler: the entry is never erased.
dispatch_response_keep(r) ==
  LET c == ongoingCalls[r.id].call
  IN  /\ r.id \in DOMAIN ongoingCalls
      /\ ongoingCalls' = [ongoingCalls EXCEPT ![r.id].satisfied = TRUE]
      /\ future' = [future EXCEPT ![c] = [st |-> IF r.error THEN "error" ELSE "value",
                                          answers |-> r.answers]]
      /\ UNCHANGED strand

\* Satisfying a promise a second time throws out of the handler.
Throws(r) == r.id \in DOMAIN ongoingCalls /\ ongoingCalls[r.id].satisfied

\* Mutant of dispatch_response: the answer goes to the oldest call, as if the
\* server answered in order.
dispatch_in_order(r) ==
  LET k == CHOOSE j \in DOMAIN ongoingCalls :
             \A i \in DOMAIN ongoingCalls : ongoingCalls[j].call <= ongoingCalls[i].call
  IN  /\ r.id \in DOMAIN ongoingCalls
      /\ ongoingCalls' = [ongoingCalls EXCEPT ![k].satisfied = TRUE]
      /\ future' = [future EXCEPT ![ongoingCalls[k].call] =
                                    [st |-> "value", answers |-> r.answers]]
      /\ strand' = Append(strand, [op |-> "erase", key |-> k])

\* One response: operator[] finds the entry or makes one up; its promise is
\* satisfied; the erase is posted.
dispatch_response(r) ==
  LET known == r.id \in DOMAIN ongoingCalls
      entry == IF known THEN ongoingCalls[r.id] ELSE [call |-> 0, satisfied |-> FALSE]
  IN  /\ ongoingCalls' = [j \in DOMAIN ongoingCalls \cup {r.id} |->
                            IF j = r.id THEN [entry EXCEPT !.satisfied = TRUE]
                                        ELSE ongoingCalls[j]]
      /\ IF Throws(r)
         THEN UNCHANGED <<future, strand>>
         ELSE /\ future' = IF entry.call = 0 THEN future
                           ELSE [future EXCEPT ![entry.call] =
                                   [st |-> IF r.error THEN "error" ELSE "value",
                                    answers |-> r.answers]]
              /\ strand' = Append(strand, [op |-> "erase", key |-> r.id])

\* Mutant of the loop: do_read() is not called again.
dispatch_no_reread ==
  /\ alive /\ io = "running"
  /\ pac # <<>>
  /\ dispatch_response(Head(pac))
  /\ pac' = Tail(pac)
  /\ io' = IF Throws(Head(pac)) THEN "threw" ELSE "running"
  /\ UNCHANGED <<ioUnchanged, connVars, thread, reading, collided, writerVars, netVars>>

\* The loop of the read handler; after the last response, do_read() again.
DispatchResponse ==
  /\ alive /\ io = "running"
  /\ pac # <<>>
  /\ dispatch_response(Head(pac))
  /\ pac' = Tail(pac)
  /\ reading' = (pac' = <<>> /\ ~Throws(Head(pac)))
  /\ io' = IF Throws(Head(pac)) THEN "threw" ELSE "running"
  /\ UNCHANGED <<ioUnchanged, connVars, thread, collided, writerVars, netVars>>

\* The read handler gets an error: only eof and reset change the state.
ReadError ==
  /\ IoIdle
  /\ reading /\ responses = <<>> /\ link \in Ended
  /\ reading' = FALSE
  /\ state' = IF link \in {"eof", "reset"} THEN "disconnected" ELSE state
  /\ UNCHANGED <<ioUnchanged, isConnected, connectionEc, thread, future, strand,
                 ongoingCalls, collided, pac, writerVars, netVars>>
  /\ EndHandler
-----------------------------------------------------------------------------
(* The network and the server.                                             *)

envUnchanged == <<alive, connVars, timeout, callIdx, calls, thread, future, strand,
                  ongoingCalls, collided, io, reading, pac, boundVars>>

\* Closing the socket for the next attempt aborts the operations on it.
Aborted == [k \in DOMAIN inflight |->
              [inflight[k] EXCEPT !.ec = IF @ = "pending" THEN "error" ELSE @]]

\* Mutant of AttemptFails: the iterator goes one past the last address.
attempt_past_end ==
  /\ alive
  /\ link = "connecting" /\ attempt <= Endpoints
  /\ attempt' = attempt + 1
  /\ inflight' = Aborted
  /\ UNCHANGED <<envUnchanged, writeQueue, tail, accepted, wire, link, answered, responses>>

AttemptFails ==
  /\ alive
  /\ link = "connecting" /\ attempt < Endpoints
  /\ attempt' = attempt + 1
  /\ inflight' = Aborted
  /\ UNCHANGED <<envUnchanged, writeQueue, tail, accepted, wire, link, answered, responses>>

LastAttemptFails ==
  /\ alive
  /\ link = "connecting" /\ attempt = Endpoints
  /\ link' = "refused"
  /\ UNCHANGED <<envUnchanged, writerVars, attempt, answered, responses>>

TcpConnects ==
  /\ alive
  /\ link = "connecting"
  /\ link' = "up"
  /\ UNCHANGED <<envUnchanged, writerVars, attempt, answered, responses>>

\* The socket takes the request; an operation on a dead connection may fail.
WriteSome ==
  /\ alive /\ link \in {"up"} \cup Ended
  /\ \E k \in DOMAIN inflight : Writer!async_write_some(k)
  /\ UNCHANGED <<envUnchanged, netVars>>

WriteFails ==
  /\ alive /\ link \in {"refused"} \cup Ended
  /\ \E k \in DOMAIN inflight : Writer!abort_write(k)
  /\ UNCHANGED <<envUnchanged, netVars>>

\* The server answers a call it has read, in any order, at most once; an id it
\* cannot read as unsigned gets no answer.
ServerAnswers(m) ==
  /\ alive /\ Up
  /\ m.kind = "call" /\ m.id >= 0
  /\ m.call \notin answered
  /\ answered' = answered \cup {m.call}
  /\ \E e \in BOOLEAN :
       responses' = Append(responses, [id |-> Key(m.id), error |-> e, answers |-> m.call])
  /\ UNCHANGED <<envUnchanged, writerVars, link, attempt>>

\* The connection ends; what was sent last may not arrive.
ConnectionEnds ==
  /\ alive /\ Up
  /\ \E how \in Ended : link' = how
  /\ \E n \in 0..Len(responses) : responses' = SubSeq(responses, 1, n)
  /\ UNCHANGED <<envUnchanged, writerVars, attempt, answered>>
-----------------------------------------------------------------------------
UserStep(t) ==
  \/ wait_conn(t)
  \/ TakeIndex(t)
  \/ PostCall(t)
  \/ WaitFuture(t)
  \/ CallReturns(t)
  \/ ConnectTimeout(t)
  \/ CallTimeout(t)

IoStep ==
  \/ Connected
  \/ ConnectError
  \/ RunPost
  \/ RunErase
  \/ RunWriteHandler
  \/ ReadChunk
  \/ DispatchResponse
  \/ ReadError

NetStep ==
  \/ AttemptFails
  \/ LastAttemptFails
  \/ TcpConnects
  \/ WriteSome
  \/ WriteFails

Next ==
  \/ \E t \in Thread :
       \/ UserStep(t)
       \/ \E sync \in BOOLEAN : StartCall(t, sync)
       \/ SpuriousWakeup(t)
       \/ Send(t)
       \/ \E on \in BOOLEAN : SetTimeout(t, on)
       \/ wait_all_responses(t)
  \/ Destroy
  \/ IoStep
  \/ NetStep
  \/ \E i \in DOMAIN wire : ServerAnswers(wire[i])
  \/ ConnectionEnds

Spec == Init /\ [][Next]_vars

\* Threads that can move do, time passes, and the attempts to connect end.
\* Nothing makes the server answer or the connection last.
Fairness ==
  /\ \A t \in Thread : WF_vars(UserStep(t))
  /\ WF_vars(IoStep)
  /\ WF_vars(RunPost \/ RunErase)
  /\ WF_vars(Connected \/ ConnectError)
  /\ WF_vars(ReadChunk \/ DispatchResponse)
  /\ WF_vars(RunWriteHandler)
  /\ WF_vars(AttemptFails \/ LastAttemptFails \/ TcpConnects)
  /\ WF_vars(WriteSome \/ WriteFails)

FairSpec == Spec /\ Fairness
-----------------------------------------------------------------------------
(* Properties.                                                             *)

\* A future only ever holds the answer to its own call: ids taken by several
\* threads, responses in any order and erasures in between never cross over, also
\* when the ids start again, unless insert() meets an id in use.
ResponseMatchesCall ==
  ~collided => \A c \in Calls : future[c].st \in {"value", "error"} => future[c].answers = c

\* The io thread is there as long as it is needed: no handler throws (a promise
\* satisfied twice would), and run(), which nothing but pending operations keeps
\* going, does not return before the connection is over.
IoThreadServes ==
  ~collided => /\ io # "threw"
               /\ alive /\ link \in {"connecting", "up"} => io = "running"

\* insert() meets an id in use only when call_idx_ has gone through all its values.
IdsDiffer == collided => calls > IdCount

\* The holders of the promise of call c: the thread that made it, the posted
\* handler, and ongoing_calls_.
Holders(c) ==
  {<<"thread", t>> : t \in {u \in Thread : thread[u].pc = "post" /\ thread[u].call = c}}
  \cup {<<"strand", i>> : i \in {j \in DOMAIN strand :
          strand[j].op = "write" /\ strand[j].msg.kind = "call" /\ strand[j].msg.call = c}}
  \cup {<<"ongoing", k>> : k \in {j \in DOMAIN ongoingCalls :
          ongoingCalls[j].call = c /\ ~ongoingCalls[j].satisfied}}

\* While the client lives, no promise is destroyed before it is satisfied (by
\* an insert() that does nothing because the id is in use, or by the erasure of
\* another call), and a call that waits for its answer has its promise in exactly
\* one place: a caller is neither failed nor left waiting by the bookkeeping.
PromiseHeldOnce ==
  alive /\ ~collided => \A c \in Calls :
    /\ future[c].st # "broken"
    /\ Cardinality(Holders(c)) = IF future[c].st = "pending" THEN 1 ELSE 0

\* An answered call does not stay in ongoing_calls_: its erasure is posted.
AnsweredIsErased ==
  ~collided => \A k \in DOMAIN ongoingCalls : ongoingCalls[k].satisfied =>
    \E i \in DOMAIN strand : strand[i] = [op |-> "erase", key |-> k]

\* wait_conn() lets no call through before the connection is made, whoever
\* wakes up and why.
CallsNeedConnection == calls > 0 => isConnected

\* The client implements the abstract calls.
Status == [c \in Calls |->
  CASE future[c].st = "none" -> "new"
    [] future[c].st = "pending" /\ c \notin answered -> "issued"
    [] future[c].st = "pending" /\ c \in answered -> "executed"
    [] future[c].st \in {"value", "error"} /\ future[c].answers = c -> "answered"
    [] future[c].st = "broken" -> "failed"
    [] OTHER -> "misdelivered"]
Remote == INSTANCE RemoteCalls WITH Call <- Calls, status <- Status
RemoteSpec == Remote!Spec

\* A thread that waits for the connection goes on when the attempts are over:
\* both branches of the connection handler notify it.
WaitersWake ==
  \A t \in Thread : thread[t].pc \in {"cv_wait", "cv_wait_for"} ~>
                      (thread[t].pc = "index" \/ thread[t].pc \in AtRest)

\* A response that reaches the client makes its future ready: the read loop
\* goes through every response of a chunk and always reads again.
AnswersArrive ==
  \A c \in Calls :
    (\E i \in DOMAIN responses : responses[i].answers = c) ~>
    (future[c].st # "pending" \/ link \in Ended \/ ~alive \/ io = "threw")

\* No write ends with an error.
WritesSucceed == \A k \in DOMAIN inflight : inflight[k].ec # "error"

\* include/rpc/client.h, send(): "returns immediately (possibly before the
\* notification is written to the socket)".  Once the client is connected, a
\* notification is written, unless the connection, the client or the process
\* ends.  The condition: no write has failed.  One that waits for the connection
\* when an address is given up does fail; its handler (async_writer.h:67) neither
\* pops the queue nor goes on with it, and nothing is written to the next address.
SendsAreWritten ==
  []WritesSucceed =>
    \A n \in 1..MaxSends :
      (sends >= n /\ isConnected) ~>
      (\/ \E i \in DOMAIN wire : wire[i] = [kind |-> "notification", n |-> n]
       \/ ~Up \/ ~alive \/ io = "threw")
=============================================================================
