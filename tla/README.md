# rpclib in TLA+

TLA+ specifications of [rpclib](https://github.com/rpclib/rpclib), a msgpack-rpc
client and server library for C++, with TLC configurations that check them on
small instances and proofs that TLAPS checks for every instance. Paths are
relative to the root of the repository; `PROJECT.json` gives the source lines
of every definition.

## The system

| Part | State | Operations | Modelled in |
| --- | --- | --- | --- |
| `async_writer` (`include/rpc/detail/async_writer.h`) | `exit_`, `write_queue_`, `socket_`, the write in flight | `write`, `do_write` and its completion handler, `close` and the handler it posts | `AsyncWriter` |
| `client` (`lib/rpc/client.cc`, `include/rpc/client.inl`) | `call_idx_`, `ongoing_calls_`, `is_connected_`, `connection_ec_`, `state_`, `timeout_`, the unpacker | `call`, `async_call`, `send`, `wait_conn`, `set_timeout`, `clear_timeout`, `wait_all_responses`, destructor; connection and read handlers | `Client` |
| `dispatcher` (`lib/rpc/dispatcher.cc`, `include/rpc/dispatcher.inl`) | `funcs_` | `bind`, `unbind`, `dispatch` | `Dispatcher` |
| `response` (`lib/rpc/detail/response.cc`) | id, error, result, empty | constructors, `capture_error`, `capture_result`, `get_data` | `Dispatcher` |
| `this_handler`, `this_session`, `this_server` | thread-local flags and objects | `respond`, `respond_error`, `disable_response`, `clear`, `post_exit`, `stop`, `cancel_stop` | `Dispatcher` (one thread), `Server` (several) |
| `server_session` (`lib/rpc/detail/server_session.cc`) | the writer's state, the read operation | read loop, posted handlers, tasks of the write strand, `close` | `Server` |
| `server` (`lib/rpc/server.cc`) and `thread_group` | acceptor, `sessions_`, the workers | `run`, `async_run`, accept handler, `close_session`, `close_sessions`, `stop`, destructor | `Server` |
| msgpack's unpacker (`include/rpc/msgpack/v2/parse.hpp`, `v1/unpack.hpp`) and the two read loops around it | the buffer with its counter, `m_used`, `m_free`, `m_off`, the parser's state and stack, the zone of the message being parsed | `reserve_buffer`, `buffer_consumed`, `next`, `release_zone`; `do_read` | `Unpacker` |
| `io_service` and strands (`dependencies/include/asio/detail/impl/task_io_service.ipp`, `strand_service.ipp`) | `op_queue_`, `outstanding_work_`, `stopped_`, the wakeup event; `locked_` and both queues of a strand | `run`, `post`, `stop`; `post` and `dispatch` of a strand; completions of operations | `IoService` |

How they interact. A `server` accepts connections and makes a `server_session`
for each. A session reads messages and posts one handler per message to the
io_service, where any worker takes it; the handler calls the `dispatcher`, which
calls the bound function, which speaks to its surroundings through the
thread-local objects. The reply, the close of the session and the stop of the
server are posted to the session's write strand, and from there go to
`async_writer`. A `client` has one io thread; user threads take an id, post the
call to a strand, and wait for a future that the read handler completes through
`ongoing_calls_`. It writes through the same `async_writer`. Client and session
read through an unpacker, whose messages share its buffer with it. All handlers
run in an io_service.

What is hard: the handlers of one session run on several workers at a time;
state is read in one handler and used in a later one; the lifetime of a session
depends on which posted task happens to hold a `shared_ptr`; answers come in any
order, late or never, and ids wrap; a message arrives in any number of pieces, and its strings
outlive the read that brought them; writes may fail before the connection is made; everything
may be closed or destroyed at any moment. `PROJECT.json` lists these hazards at
their lines with the properties that watch them.

What makes each part correct:

* `async_writer`: one write in flight, of the front of the queue; the peer reads
  what was written, whole and in order; no buffer is stuck; `close` ends it.
* `client`: a future gets the answer to its own call; a promise is never lost or
  satisfied twice; no call before the connection; waiters wake.
* `dispatcher` and the thread-locals: a message gets the reply its own function
  asked for and nothing of another message.
* `server`, `server_session`: a reply goes before the close that follows it; open
  sessions are known to the server; what is sent is read; a session whose client
  left is released; a closed session comes to rest.
* unpacker: no read is larger than the room for it; no byte is lost, repeated or
  reordered however the buffer moves; the strings of a message in use stay what
  they were; the buffer is freed once, by its last owner, and does not grow
  with the stream.
* io_service: the handlers of a strand run one at a time and in order; every
  handler runs; no wakeup is lost; the count of work is exact, so that `run`
  returns neither early nor never; `stop` ends every worker.

## Modules

* `FifoStream`: the abstract stream. Buffers come out whole, in order, at most once.
* `AsyncWriter`: the writer. Its member functions are operators on
  `writeQueue`, `inflight` and `exit`; the component actions run them from the
  strand (`RunWrite`, `RunWriteHandler`, `RunClose`), or at once (`close`). A
  buffer takes `Segments` calls of the socket; the peer's unpacker (`Unpack`)
  turns mixed segments into `Garbage`. `StreamSpec` states that it implements
  `FifoStream` (`received <- wire`).
* `RemoteCalls`: the abstract calls. A call is issued, executed at most once, and
  then answered with its own answer, or it fails when its client goes.
* `Client`: the client. It uses `AsyncWriter`'s `write`, `write_handler`,
  `async_write_some` and `abort_write` through `INSTANCE`. Each user thread has a
  program counter that follows `call()` and `async_call()`; the io thread is one
  handler at a time (`IoIdle`), the read handler's loop one response at a time.
  A call has a number (its order) and an id (`call_idx_`, from `-Half` to `Half - 1`).
  `call_idx_` begins at `FirstIdx`, so that instances reach the wrap. `io`
  is running, has returned (nothing was pending) or was ended by an exception.
  `RemoteSpec` states that it implements `RemoteCalls`.
* `Dispatcher`: one worker thread and a sequence of messages. What a function
  does is a record of choices (`Behaviour`); `Handle` is the whole posted handler.
  `Documented` is the reply the documents promise, `Fate` and `Answer` the outcome
  as a function of one message; neither looks at the thread-local objects.
* `Server`: acceptor, sessions and workers. A worker is idle or in the middle of a
  handler; handlers are split where another worker, or the user's thread, can see
  or change what they use. Of the writer it has the queue and whether a write is
  outstanding. `Alive` says that someone holds a `shared_ptr` to a session: `sessions_`,
  a read, a write, a handler or a task;
  `faults` records uses of freed memory. What functions do is reduced to the kind
  of reply and the exit and stop they ask for, which `Dispatcher` justifies.
  Workers join one by one (`async_run`); `RunReturns` is the end of their `run()`;
  in `AcceptThrows` the exception of `remote_endpoint()` ends the process.
* `Unpacker`: one connection's unpacker. A byte is what the parser makes of it (a
  value, the head of an array, the start of a body or of a size), and a buffer
  holds positions of the stream, so that moving and sharing bytes is visible and
  their values are not. `Header` and `Trail` are the two kinds of turns of the
  parser's loop, with the stack of open arrays; `Reread` is the end of `do_read`'s
  loop, and `Read` a completed read of any length. The buffers' counters, the zones' finalizers and the
  messages still in use are explicit. `Release` is a handler or a result that
  ends. `Walk` and `MessageEnds` say of a whole stream where its messages end.
* `IoService`: `task_io_service` with its event and strands. A step is a critical
  section or what lies between two. The reactor blocks, is interrupted and
  returns completions; nothing else of it is there. It supports what the other
  modules take for granted: a strand runs its tasks one at a time and in order,
  and what is posted runs.
* `MC...`: the instances for TLC. `..._proofs`: the proofs.

Operators with lower-case names are the code's functions. Those marked `Mutant`
are altered versions of a definition, used to confirm that a property would
notice the bug; no specification uses them.

## Runs

Passing runs:

| Run | Shows |
| --- | --- |
| `writer` | `OneWriteChain` and the refinement `StreamSpec`; `AllWritten`: the chain never stops early; `CloseCompletes` |
| `client` | two threads, two addresses: `PromiseHeldOnce`, `IoThreadServes` (no handler throws, and `io_.run()` does not return before the connection is over), `AnsweredIsErased`, `CallsNeedConnection`, and the refinement `RemoteSpec` |
| `client_live` | ids that wrap while calls are open: `ResponseMatchesCall`, `IdsDiffer`; and `AnswersArrive`, `WaitersWake`, and, with two addresses, `SendsAreWritten` as long as no write fails |
| `dispatcher` | `OutcomeIsOwn` against the reference definitions `Fate` and `Answer`, `SuppressedNeverThrows`, `ExitOnlyWhenAsked` |
| `server` | two workers in one session, and `close_sessions()` beside them: `ReplyBeforeExit`, `OpenIsRegistered`, `MessagesRead`, `ClosedComesToRest`, and `DisconnectedReleased` for sessions that were open in `sessions_` |
| `unpacker` | streams cut at every byte: `ReadFits`, `UnparsedInOrder`, `ReferencesIntact`, `CountExact`, `MessagesWhole`, `BufferBounded` |
| `io_service` | two workers and a strand: `ScheduledOnce`, `NoLostWakeup`, `WorkExact`, `StrandFifo` (an action property against `FifoStream`), `HandlersRun`, `StopEnds` |

Each also checks the types (`TypeOK`), except `client_live`.

Runs that end in a counterexample: in each the code does something else than a
document or a comment of the repository says. `PROJECT.json` quotes the lines.

| Run | What the counterexample shows |
| --- | --- |
| `dispatcher_reply` | `respond()` and then an exception put an error and a result into one reply, where the documents say the result is nil (`ReplyAsDocumented`) |
| `dispatcher_notification` | `respond_error` in a notification dereferences null |
| `server_stop` | `stop` from a handler does not stop the acceptor if another worker runs the task |
| `server_object` | a special response is freed before it is sent |
| `server_lifetime` | a task for `post_exit` or `stop` runs on a destroyed session |

Observations made while modelling, which the actions have and no run is spent on.

Client:

* A notification sent while the first of several addresses is tried fails its
  write, the error path does not take it off the queue, and later writes wait for
  a chain that has ended: the queue is blocked for good (`async_writer.h:67`). `SendsAreWritten` has this
  as its condition: no write has failed. Without it TLC finds the blocked queue.
* Calls pending when the connection is lost wait until `~client()`, unless a
  timeout is set; there is no default one (`client.h:107`). Once nothing is
  pending `io_.run()` returns, and what is posted later is never sent.
* `wait_all_responses()` does not see a call the io thread has not registered yet,
  and throws for one it has. `~client()` drops what was posted (`client.h:43`).
* Ids repeat after 2^32 calls: `insert` does nothing while an old call has the
  id. `IdsDiffer` says what the ids do promise until then. The id is a signed
  `int` on the wire (`doc/pages/spec.md:22`), which the server's `call_t` does
  not convert once it is negative.

Server:

* With two workers, a session closed before it is put into `sessions_` is put
  there afterwards and never released (`server.cc:64`). `DisconnectedReleased` has
  this as its condition: the session is in `sessions_` and not closed when its
  client has gone.
* `remote_endpoint()` throws when the peer is gone already, and the exception
  leaves the accept handler and the thread (`server.cc:58`); so does a parse
  error in either read handler.
* A read error other than eof and reset is only logged: the session stays in
  `sessions_` (`server_session.cc:137`). `~server()` closes no session
  (`server.h:52`).
* The posted half of `close()` aborts a write that has begun, although
  `this_session.h` says ongoing writes complete.
* Moving a server leaves `parent_` of `impl` and of the sessions at the old object
  (`server.cc:135`), although `server.h:27` calls the class moveable.

Handlers: `respond(nil)` and `respond_error(nil)` cannot be told from no special object; `post_exit()`
has no effect when the response is disabled. `Answer` departs from `Documented` in
the first of these and in the case of `dispatcher_reply`, nowhere else.

### Bounds

Every bound is a constant with a name that starts with `Max`, or one of
`Segments`, `Endpoints`, `Half`, and the sizes and streams of `Unpacker`. They allow the cases that matter: three or four buffers in a queue
with a write in flight and two `close()` calls; two segments, so that messages
can be mixed; two calls of two threads with an erase of one pending when the
answer of the other comes, a late answer after a timeout, and one notification
that competes with the calls for the write queue; two endpoints, so that
an attempt fails and another succeeds. In `client_live` there are two ids (`Half = 1`), the
counter begins at -1 and there are three calls: it passes from negative to zero
and an id comes up again while calls are open. Both client runs have
two addresses. `client_live` has one user thread and no timeout, because three calls
are needed for the ids; threads, timeouts and late answers are in `client`. In
`Server`, two workers share one session: one is in the accept handler or the read loop
while the other handles the message, closes the session or runs its tasks; the
client leaves meanwhile (eof), and the user closes all sessions once. There is one
message, read in any number of parts,
as two with their writes make some twenty million states; for the invariants
the theorems cover any number of messages, and the run `server_object` has two. In `IoService` two workers compete for
the lock, the reactor and one strand with three handlers, which are posted,
dispatched or completions, from outside or from handlers. In `Unpacker` a counter
of one, an initial size of two and reads of four make every branch of
`expand_buffer` happen with streams of nested arrays, long and empty strings,
sized bodies and extensions, cut at every byte. One function name is
enough in `Dispatcher`, as names only meet in `funcs_`. The `client` run uses
symmetry in the threads: it checks invariants and a safety refinement whose
mapping does not mention threads. Deadlock is not checked: the programs may come
to rest (nothing more to do, client destroyed, server stopped).

### Fairness

* Handlers that are ready run, and threads that can move do (weak fairness): the
  io_service has a thread that runs it. User functions return.
* In `Server`, a job that is ready again and again is taken (strong fairness): the
  io_service serves its queue in order, and a worker is busy with other jobs only
  for a while. Reads may bring parts of a message any number of times, but not for
  ever (strong fairness): a message is finite.
* The socket makes progress and attempts to connect end, one way or the other. In
  `Server` a write need not complete while its client is there and the socket is
  open: a client may stop reading. Closing the socket or losing the client ends it.
* In `IoService`, workers go on, a reactor that was interrupted or asked not to
  block returns, and signals and schedulings that are due take place (weak
  fairness: mutex, condition variable and `epoll_wait` as the platform has them).
  Nothing makes an asynchronous operation complete.
* No fairness for clients, servers at the other end, user calls, `close`, `stop`
  or the loss of a connection.

In `Server` and `Client` ready handlers outside a strand run in any order: asio
promises an order only within a strand. `IoService` shows that order
(`StrandFifo`) and that every handler runs (`HandlersRun`) for asio itself.

## Proofs

`AsyncWriter_proofs` proves, for any set of buffers, any number of segments and
any number of posts and closes:

* `WriterInvariant`: `Spec => []WriterInv`;
* `TypeCorrect`, `SingleChain`, `IntactStream`: `TypeOK`, `OneWriteChain` and
  `StreamIntact`, which follow from it;
* `ImplementsStream`: `Spec => StreamSpec`.

The assumptions are the named ones of the module: at least one segment, bounds in
`Nat`, and `Garbage` is no buffer. `StreamIntact` is not inductive: it says nothing
of the buffers still to come. `WriterInv` adds that the queue is the end of what
was accepted (`QueueIsRest`, with one buffer both on the wire and in the queue
while its handler is due), that what the peer has of an incomplete message is the
sent part of the operation in flight (`TailIsSentPart`), and that an operation
succeeded exactly when all its segments are sent (`OperationResult`). There is a
lemma per handler (`WriteInv`, `WriteHandlerInv`, `TransferInv`, `AbortInv`) and
one for the steps that leave the writer alone (`IdleInv`); `StepInv` puts them
together. For the refinement, `write` is an `Accept`, the transfer of a last
segment is a `Deliver` of the next accepted buffer (`TransferStep`), and
everything else stutters.

`Unpacker_proofs` proves, for every set of streams and every size of the buffer:
`ReadsFit`, `NoByteLost`, `BufferStaysSmall`, `UnpackerTypes`, `CountsExact`,
`SharedStringsIntact`, `MessagesComeOutWhole`, `NoUseAfterFree` and `NoBufferLeaks`.
There are three invariants. `StreamInv` is about one buffer:
its used and free parts add up (`BufferShape`), the parser stands inside it
(`ParserShape`), and the bytes behind the parser are those of the stream that come
next. It is inductive because the three ways of `expand_buffer` (rewind, enlarge
in place, move to a new buffer) each keep the unparsed part. `OwnerInv` is about
who holds what: the counter of a buffer is the unpacker plus the zones with a
finalizer for it, a reference of a message lies in a buffer its own zone holds,
and a half-parsed message may also refer to the current buffer, but then
`referenced` is set. This last part is what makes replacing the buffer
(`expand_buffer` pushes the finalizer first) and rewinding it safe; without it
`ReferencesIntact` is not inductive. That shares are only passed on, from the
unpacker and the zone to messages, gives `NoUseAfterFree`: a freed buffer is never
counted or written again; when unpacker and messages are gone, every counter is
zero (`NoBufferLeaks`).

`FrameInv` is about the messages. `Walk` goes through a whole stream from value to
value, with the position and the number of values still open and neither stack nor
buffer; `MessageEnds` are the positions where none is open. `FrameInv` says that the
parser is at a place of that walk, or inside the value that begins there
(`InValue`); that the open elements of its stack add up to the values open at that
place (`Opens`); and that it has handed out the messages that end up to there
(`Taken`). A turn of the loop stays inside a value or goes to the next place
(`NextPlace`, `TakenNext`); `consume` leaves the sum alone, as it drops the finished
arrays only (`ConsumedOpens`). At the end of the loop the rest of the bytes is shorter than
what the parser waits for (`Exhausted`), so no end lies in it. The inductions over
streams and stacks are by the least counterexample in a set of numbers
(`SetInduction`).

The assumptions are that a buffer has room for its counter, that inputs are
sequences of bytes, and that the ends given with an input are the ones of the walk
(`EndsAssumption`), which TLC evaluates for the streams of the run.
`EveryStreamFramed` proves that every sequence of bytes has such ends: the
assumption leaves no stream out.

`Dispatcher_proofs` proves `DispatcherTypes`, `SuppressedHolds`, `ExitHolds` and
`OutcomesAreOwn` for every set of names and messages. With the types they are
inductive, because every handler clears the thread-local objects before it calls
the function: the proof of `OutcomesAreOwn` compares, case by case, the path through
`dispatch()` and the posted handler with `Fate` and `Answer`, both fields of the reply and
the way the handler ends. It needs no assumption on the objects.

`Client_proofs` proves, for any finite set of threads, any number of calls and
notifications, any range of ids and any first one: `ConnectedFirst` (no call has an id before
the connection was made), `ClientTypes`, `AnswersMatch`, `AnsweredErased`,
`IoServes`, `IdsAreOwn`, `PromisesHeld`, and the refinement `ClientImplements`.
`ConnectedInv` adds to the first that a thread behind `wait_conn()` found
`is_connected_` set, and no step resets it. The others rest on `ClientInv`. Its
core says where a promise is: with its thread, in the strand or in
`ongoing_calls_`, in one place only; that an answer on its way, or in the read
loop, belongs to a call whose entry is still open; and that an erase in the strand is of
an entry whose promise is satisfied. Hence `set_value()` throws for no answer,
`ongoing_calls_[id]` makes no new entry, and the entry an erase takes is no one else's. An `insert()` that does
nothing (`collided`) needs two open calls with one id, and `IdsAreOwn` shows that
this takes more calls than there are ids. The other properties are stated up to
such a collision, and `ClientImplements` assumes that the calls do not exceed the
ids (2^32 in the code).

`IoService_proofs` proves, for any sets of workers and strands and any number of
handlers: `IoServiceTypes`, `StrandScheduledOnce`, `WakeupsKept`, `WorkCounted` and
`StrandOrder`. The invariant `IoInv` has a part for each.

* `JobInv` and `ReactorInv`: what a worker has at each point of its loop; the mark of the
  reactor is in the queue once or one worker has it, and a worker that blocks
  there while `task_interrupted_` is set has been interrupted.
* `WakeInv` is `NoLostWakeup`, which is inductive with `ReactorInv`: who takes an
  operation and leaves others behind wakes someone, and who brings some comes
  back to the queue itself.
* `PlaceInv`: each of the four places of a strand holds it once at most, two never
  hold it together, and `locked_` is set when one does. Each action moves a strand from one place to
  another, takes a free one, or lets it go.
* `OrderInv`: what was posted to a strand is what it has called, then `ready_queue_`
  or the one handler that took the strand and is not in a queue yet, then
  `waiting_queue_` (`Parts`). A post makes the last part grow, a call hands the first element of
  the second part on, an exit adds the third part to the second.
* `WorkInv`: `WorkExact`, and that what it counts is finite. It needs that one worker
  only is in the reactor.

The assumptions are that there is room for the operation outstanding at the
start, and that `NoStrand` is no strand.

`Server_proofs` proves `ServerTypes`, `OpenRegistered`, `OneReadAtATime`,
`ReplyFirst` (`ReplyBeforeExit`), `RequestInOnePlace` and `HandledOnce` for any
number of workers, sessions, messages and calls of `close_sessions()`. The type of
`accepting` needs `OneAccept`: an accept is outstanding, or completed, or in its
handler, one of them only. `OpenIsRegistered` needs two facts: the read loop of a
session is in one place and does not begin before the session is accepted
(`ReadOnce`), and `close_session()` is only in strands of sessions that are closed
(`ErasedIsClosed`), so that taking a session out of `sessions_` never hides an open
one. `ReplyBeforeExit` rests on `ReplyInv`. A message that was sent and whose
handler has not returned is in one place: the socket, a read, the read loop or a
handler (`Distinct`, `OnePlace`); so its handler returns once, and before that
nothing is left for it (`DoneOnce`). And the task of an exit has the write of its
reply ahead of it, in the strand or among the tasks its handler still has to
post, unless that reply is written, there is none, or the session is closed
already (`ReplyAhead`). Two parts of these invariants are theorems of their own:
the reads of a session never overlap (`OneReadAtATime`), and a request is in one
place (`RequestInOnePlace`). As no step brings a request back once it has left that place
(`NeverAgain`), every request is handled at most once (`HandledOnce`), also the
one whose handler sends nothing.

Only model-checked: liveness, as fairness is out of the prover's reach. Every
invariant of a passing run is proved.

## Not modelled

* Encoding and conversion of values (msgpack's adaptors and packing) and the
  template code that unpacks arguments: stateless; their outcomes (arity, type and
  protocol errors) are inputs of `Dispatcher`. Bytes the parser rejects: its
  exceptions (`parse.hpp:318-321`, `600-603`), like those of the visitor's limits
  (`create_object_visitor.hpp:108-157`), leave the read handler as `AcceptThrows` does.
  Buffer sizes that overflow `size_t` (`parse.hpp:862-865`, `882-885`), which no
  allocation reaches, and exhausted memory.
* Moving a server; errors of `bind` and `listen`, which throw in the constructor.
* In asio: `poll`, `run_one`, `reset`, timers, the mapping of strands to a fixed set of
  implementations, and sockets beyond what they promise to the writer and the
  read loops. `EpollReturns` has the operations of the reactor complete, not
  `descriptor_state` and its count of work, which cancel out. The project's use of asio needs none of the first three.
* Data races on plain members (`timeout_`, `funcs_`, `ongoing_calls_` in
  `wait_all_responses`) beyond their effect at the level of whole operations.
* Logging, configuration, error classes, the rest of the vendored libraries
  (most of the repository's lines: asio's sockets and templates, msgpack's
  adaptors, fmt, optional, gtest and gmock), examples and tests.

## Plan

1. Done: `AsyncWriter`, `Client`, `Dispatcher`, `Server`, `Unpacker`, `IoService`, their
   runs, and the proofs above.
2. A composition of a client and a session over two streams: executed at most
   once, answered in the session that asked.
3. Moving a server: `parent_` of `impl` and of the sessions.
