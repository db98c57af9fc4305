---------------------------- MODULE AsyncWriter ----------------------------
(***************************************************************************)
(* rpc::detail::async_writer (include/rpc/detail/async_writer.h): the      *)
(* write queue under a server session and under a client.  A chain of      *)
(* async_write operations sends the buffers of write_queue_ one after the  *)
(* other; each operation refers to the front of the queue, which stays     *)
(* there until the operation's completion handler pops it.                 *)
(*                                                                         *)
(* A buffer needs Segments calls of async_write_some; the peer's unpacker  *)
(* puts the segments of the byte stream together again, so that segments   *)
(* of two buffers that were mixed on the wire make a message that nobody   *)
(* sent (Garbage).  All handlers of the writer run in write_strand_: one   *)
(* at a time, in the order they were posted.                               *)
(***************************************************************************)
EXTENDS Naturals, Sequences

CONSTANTS
  Item,          \* the buffers (msgpack::sbuffer) that may be written
  Garbage,       \* a message the peer reads and nobody wrote
  Segments,      \* async_write_some calls one buffer takes
  MaxPosts,      \* bound: writes posted to the strand
  MaxCloses      \* bound: calls of close()

ASSUME SegmentsAssumption == Segments \in Nat \ {0}
ASSUME BoundsAssumption == MaxPosts \in Nat /\ MaxCloses \in Nat
ASSUME GarbageAssumption == Garbage \notin Item

VARIABLES
  exit,          \* exit_
  writeQueue,    \* write_queue_
  inflight,      \* async_write operations whose handler has not run yet
  socket,        \* socket_: "open" or "closed"
  peerUp,        \* the connection itself: FALSE once the peer is gone
  tail,          \* segments sent of a message that is not complete yet
  wire,          \* messages in the byte stream to the peer, which reads a prefix
  accepted,      \* history: the arguments of write(), in order
  strand,        \* handlers waiting in write_strand_
  posts, closes  \* writes posted and close() calls so far, for the bounds

streamVars == <<tail, wire>>
vars == <<exit, writeQueue, inflight, socket, peerUp, tail, wire, accepted,
          strand, posts, closes>>

\* An async_write in progress: its buffer, the segments sent, and its result.
Operation == [item : Item, sent : 0..Segments, ec : {"pending", "ok", "error"}]

\* What may wait in write_strand_: a call of write(), the completion handler
\* of an async_write, and the part of close() that closes the socket.
Posted == [op : {"write"}, item : Item] \cup [op : {"written", "close_socket"}]

TypeOK ==
  /\ exit \in BOOLEAN
  /\ writeQueue \in Seq(Item)
  /\ inflight \in Seq(Operation)
  /\ socket \in {"open", "closed"}
  /\ peerUp \in BOOLEAN
  /\ tail \in Seq(Item)
  /\ wire \in Seq(Item \cup {Garbage})
  /\ accepted \in Seq(Item)
  /\ strand \in Seq(Posted)
  /\ posts \in 0..MaxPosts
  /\ closes \in 0..MaxCloses

Init ==
  /\ exit = FALSE
  /\ writeQueue = <<>>
  /\ inflight = <<>>
  /\ socket = "open"
  /\ peerUp = TRUE
  /\ tail = <<>>
  /\ wire = <<>>
  /\ accepted = <<>>
  /\ strand = <<>>
  /\ posts = 0
  /\ closes = 0
-----------------------------------------------------------------------------
(* The member functions.  They say nothing about the strand: the actions   *)
(* below, and the modules that use the writer, decide when they run.       *)

\* The operations in flight after do_write(): none is started once exit_ is
\* set; otherwise one for the front of the queue.
do_write(ops, queue) ==
  IF exit
  THEN ops
  ELSE Append(ops, [item |-> Head(queue), sent |-> 0, ec |-> "pending"])

\* write(): an operation is started unless a chain of them is already going.
write(i) ==
  /\ writeQueue' = Append(writeQueue, i)
  /\ inflight' = IF Len(writeQueue') > 1
                 THEN inflight
                 ELSE do_write(inflight, writeQueue')
  /\ accepted' = Append(accepted, i)
  /\ UNCHANGED streamVars

\* The operations of ops other than number k.
Without(ops, k) == SubSeq(ops, 1, k - 1) \o SubSeq(ops, k + 1, Len(ops))

\* Mutant of the completion handler: the next write starts, the buffer that was
\* sent is not popped.
write_handler_nopop(k) ==
  LET rest == Without(inflight, k)
  IN  /\ inflight[k].ec # "pending"
      /\ inflight' = IF inflight[k].ec = "ok" THEN do_write(rest, writeQueue)
                                             ELSE rest
      /\ UNCHANGED <<writeQueue, streamVars, accepted>>

\* Mutant of the completion handler: it starts the next write before it pops.
write_handler_swapped(k) ==
  LET rest == Without(inflight, k)
  IN  /\ inflight[k].ec # "pending"
      /\ IF inflight[k].ec = "ok"
         THEN /\ inflight' = IF writeQueue # <<>> /\ ~exit
                             THEN do_write(rest, writeQueue)
                             ELSE rest
              /\ writeQueue' = Tail(writeQueue)
         ELSE /\ inflight' = rest
              /\ UNCHANGED writeQueue
      /\ UNCHANGED <<streamVars, accepted>>

\* Mutant of the completion handler: the chain stops after one buffer.
write_handler_stops(k) ==
  /\ inflight[k].ec # "pending"
  /\ inflight' = Without(inflight, k)
  /\ writeQueue' = IF inflight[k].ec = "ok" THEN Tail(writeQueue) ELSE writeQueue
  /\ UNCHANGED <<streamVars, accepted>>

\* The completion handler of operation k.  After an error the buffer stays at
\* the front of the queue and the chain ends.
write_handler(k) ==
  LET rest == Without(inflight, k)
  IN  /\ inflight[k].ec # "pending"
      /\ IF inflight[k].ec = "ok"
         THEN /\ writeQueue' = Tail(writeQueue)
              /\ inflight' = IF writeQueue' # <<>> /\ ~exit
                             THEN do_write(rest, writeQueue')
                             ELSE rest
         ELSE /\ inflight' = rest
              /\ UNCHANGED writeQueue
      /\ UNCHANGED <<streamVars, accepted>>

\* Mutant of the posted part of close(): the peer is told (shutdown), but the
\* socket stays open and the operations on it keep waiting.
shutdown_only == UNCHANGED <<exit, writeQueue, inflight, socket, peerUp,
                             streamVars, accepted>>

\* The posted part of close(): shutdown (its error is only logged) and close.
close_socket ==
  /\ socket' = "closed"
  /\ UNCHANGED <<exit, writeQueue, inflight, peerUp, streamVars, accepted>>
-----------------------------------------------------------------------------
(* The socket and the peer (asio and TCP, as this code uses them).         *)

\* The message made of the segments segs of the byte stream.
Unpack(segs) ==
  IF \A j, k \in DOMAIN segs : segs[j] = segs[k] THEN segs[1] ELSE Garbage

\* Mutant of async_write: the last segment does not complete the operation.
async_write_some_late(k) ==
  /\ socket = "open"
  /\ inflight[k].ec = "pending"
  /\ inflight' = [inflight EXCEPT
       ![k] = [@ EXCEPT !.sent = @ + 1,
                        !.ec = IF inflight[k].sent = Segments THEN "ok" ELSE @]]
  /\ UNCHANGED <<writeQueue, streamVars, accepted>>

\* Operation k sends its next segment; the last one completes it.
async_write_some(k) ==
  LET segs == Append(tail, inflight[k].item)
      sent == inflight[k].sent + 1
  IN  /\ socket = "open"
      /\ inflight[k].ec = "pending"
      /\ inflight' = [inflight EXCEPT
           ![k] = [@ EXCEPT !.sent = sent,
                            !.ec = IF sent = Segments THEN "ok" ELSE "pending"]]
      /\ IF Len(segs) = Segments
         THEN wire' = Append(wire, Unpack(segs)) /\ tail' = <<>>
         ELSE tail' = segs /\ UNCHANGED wire
      /\ UNCHANGED <<writeQueue, accepted>>

\* Operation k fails: the socket was closed under it (operation_aborted) or
\* the peer is gone.
abort_write(k) ==
  /\ socket = "closed" \/ ~peerUp
  /\ inflight[k].ec = "pending"
  /\ inflight' = [inflight EXCEPT ![k].ec = "error"]
  /\ UNCHANGED <<writeQueue, streamVars, accepted>>
-----------------------------------------------------------------------------
(* The writer as a component: callers post writes and call close().        *)

Post(h) == strand' = Append(strand, h)
Dequeue(kind) ==
  /\ strand # <<>>
  /\ Head(strand).op = kind
  /\ strand' = Tail(strand)

\* A user posts a write to the strand (server_session::do_read does this with
\* every response).
PostWrite(i) ==
  /\ posts < MaxPosts
  /\ posts' = posts + 1
  /\ Post([op |-> "write", item |-> i])
  /\ UNCHANGED <<exit, writeQueue, inflight, socket, peerUp, streamVars,
                 accepted, closes>>

\* close(), from any thread: the flag is set at once, the socket is closed
\* through the strand.
close ==
  /\ closes < MaxCloses
  /\ closes' = closes + 1
  /\ exit' = TRUE
  /\ Post([op |-> "close_socket"])
  /\ UNCHANGED <<writeQueue, inflight, socket, peerUp, streamVars, accepted, posts>>

RunWrite ==
  /\ Dequeue("write")
  /\ write(Head(strand).item)
  /\ UNCHANGED <<exit, socket, peerUp, posts, closes>>

RunWriteHandler ==
  /\ Dequeue("written")
  /\ \E k \in DOMAIN inflight : write_handler(k)
  /\ UNCHANGED <<exit, socket, peerUp, posts, closes>>

RunClose ==
  /\ Dequeue("close_socket")
  /\ close_socket
  /\ UNCHANGED <<posts, closes>>

\* The socket makes progress; a finished operation's handler is dispatched
\* through the strand (write_strand_.wrap).
Transfer ==
  /\ \E k \in DOMAIN inflight : async_write_some(k)
  /\ IF \E k \in DOMAIN inflight : inflight'[k].ec # inflight[k].ec
     THEN Post([op |-> "written"])
     ELSE UNCHANGED strand
  /\ UNCHANGED <<exit, socket, peerUp, posts, closes>>

Abort ==
  /\ \E k \in DOMAIN inflight : abort_write(k)
  /\ Post([op |-> "written"])
  /\ UNCHANGED <<exit, socket, peerUp, posts, closes>>

PeerLost ==
  /\ peerUp
  /\ peerUp' = FALSE
  /\ UNCHANGED <<exit, writeQueue, inflight, socket, streamVars, accepted,
                 strand, posts, closes>>

Next ==
  \/ \E i \in Item : PostWrite(i)
  \/ close
  \/ RunWrite
  \/ RunWriteHandler
  \/ RunClose
  \/ Transfer
  \/ Abort
  \/ PeerLost

Spec == Init /\ [][Next]_vars

\* A worker of the io_service runs what the strand holds, and a peer that is
\* there reads what is sent to it.  Users need not post or close anything.
Fairness ==
  /\ WF_vars(RunWrite)
  /\ WF_vars(RunWriteHandler)
  /\ WF_vars(RunClose)
  /\ WF_vars(Transfer)
  /\ WF_vars(Abort)

FairSpec == Spec /\ Fairness
-----------------------------------------------------------------------------
(* Properties.                                                             *)

\* The comment in do_write(): "the data in item remains valid until the
\* handler is called since it will still be in the queue physically until
\* then".  At most one async_write is in flight, and its buffer is the front
\* of the queue, so that pop_front() frees that buffer and no other.
OneWriteChain ==
  inflight # <<>> =>
    /\ Len(inflight) = 1
    /\ writeQueue # <<>>
    /\ inflight[1].item = Head(writeQueue)

\* What the peer reads is what was written, in order, nothing mixed: write()
\* from several handlers and the completion handlers never corrupt the stream.
StreamIntact ==
  /\ Len(wire) <= Len(accepted)
  /\ \A n \in 1..Len(wire) : wire[n] = accepted[n]

\* The writer implements the stream its users count on.
Stream == INSTANCE FifoStream WITH received <- wire
StreamSpec == Stream!Spec

\* Every buffer given to write() reaches the peer, unless the writer is closed
\* or the peer is lost: the chain of do_write() never stops early.
AllWritten ==
  \A n \in 1..MaxPosts :
    Len(accepted) >= n ~> Len(wire) >= n \/ exit \/ ~peerUp

\* After close() the socket closes and no operation stays in flight (each one
\* holds a reference to the writer, so the session could not be released).
CloseCompletes == exit ~> [](socket = "closed" /\ inflight = <<>>)

-----------------------------------------------------------------------------
(* The inductive invariant behind the safety properties.                   *)

\* The operation in flight has sent its whole buffer; only its handler is due.
Done == inflight # <<>> /\ inflight[1].sent = Segments

\* An operation has succeeded exactly when all its segments are sent.
OperationResult ==
  \A k \in DOMAIN inflight : inflight[k].ec = "ok" <=> inflight[k].sent = Segments

\* write_queue_ is the end of what was given to write(): what is not on the
\* wire yet, and the buffer that is when its handler is still due.
QueueIsRest ==
  /\ Len(writeQueue) <= Len(accepted)
  /\ Len(wire) + Len(writeQueue) = Len(accepted) + (IF Done THEN 1 ELSE 0)
  /\ \A n \in 1..Len(writeQueue) :
       writeQueue[n] = accepted[(Len(accepted) - Len(writeQueue)) + n]

\* The incomplete message at the peer is the sent part of the operation in
\* flight; after a failed write it may remain, but then the queue is stuck.
TailIsSentPart ==
  IF inflight # <<>>
  THEN /\ Len(tail) = IF Done THEN 0 ELSE inflight[1].sent
       /\ \A j \in 1..Len(tail) : tail[j] = inflight[1].item
  ELSE writeQueue = <<>> => tail = <<>>

\* The state of the writer between any two steps: together these parts are
\* preserved by every handler, whatever runs in between.
WriterInv ==
  /\ TypeOK
  /\ OneWriteChain
  /\ OperationResult
  /\ QueueIsRest
  /\ TailIsSentPart
  /\ StreamIntact
=============================================================================
