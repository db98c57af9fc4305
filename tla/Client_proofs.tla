--------------------------- MODULE Client_proofs ---------------------------
(***************************************************************************)
(* Proofs about Client, for any number of threads, calls and addresses.    *)
(***************************************************************************)
EXTENDS Client, FiniteSetTheorems, SequenceTheorems, TLAPS

\* The states of the threads have a pc, and a thread that is past wait_conn()
\* found the connection made.  is_connected_ is never reset.
ConnectedInv ==
  /\ calls \in Nat
  /\ DOMAIN thread = Thread
  /\ \A t \in Thread : "pc" \in DOMAIN thread[t]
  /\ \A t \in Thread : thread[t].pc = "index" => isConnected
  /\ CallsNeedConnection

\* A step that moves at most thread t, and that not to the place behind wait_conn().
LEMMA ThreadMoves ==
  ASSUME ConnectedInv, NEW t \in Thread, UNCHANGED <<calls, isConnected>>,
         \/ UNCHANGED thread
         \/ \E pc : pc # "index" /\ (Goto(t, pc) \/ Leave(t, pc))
  PROVE  ConnectedInv'
<1>1. CASE UNCHANGED thread
  BY <1>1 DEF ConnectedInv, CallsNeedConnection
<1>2. ASSUME NEW pc, pc # "index", Goto(t, pc) \/ Leave(t, pc) PROVE ConnectedInv'
  <2>1. /\ DOMAIN thread' = Thread
        /\ "pc" \in DOMAIN thread'[t] /\ thread'[t].pc = pc
        /\ \A u \in Thread : u # t => thread'[u] = thread[u]
    BY <1>2 DEF ConnectedInv, Goto, Leave, Rest
  <2> QED
    BY <1>2, <2>1 DEF ConnectedInv, CallsNeedConnection
<1> QED
  BY <1>1, <1>2

\* wait_conn() itself.
LEMMA WaitConnMoves ==
  ASSUME ConnectedInv, NEW t \in Thread, wait_conn(t)
  PROVE  ConnectedInv'
<1>1. UNCHANGED <<calls, isConnected>>
  BY DEF wait_conn, userUnchanged, connVars
<1>2. CASE isConnected
  <2>1. Goto(t, "index")
    BY <1>2 DEF wait_conn
  <2>2. /\ DOMAIN thread' = Thread
        /\ "pc" \in DOMAIN thread'[t]
        /\ \A u \in Thread : u # t => thread'[u] = thread[u]
    BY <2>1 DEF ConnectedInv, Goto
  <2> QED
    BY <1>1, <1>2, <2>2 DEF ConnectedInv, CallsNeedConnection
<1>3. CASE ~isConnected
  <2>1. \E pc \in {"system_error", "cv_wait_for", "cv_wait"} : Goto(t, pc)
    BY <1>3, Zenon DEF wait_conn
  <2> QED
    BY <1>1, <2>1, ThreadMoves
<1> QED
  BY <1>2, <1>3

\* The other steps of a thread.
LEMMA ThreadStep ==
  ASSUME ConnectedInv, NEW t \in Thread,
         \/ UserStep(t) \/ SpuriousWakeup(t) \/ Send(t) \/ wait_all_responses(t)
         \/ \E sync \in BOOLEAN : StartCall(t, sync)
         \/ \E on \in BOOLEAN : SetTimeout(t, on)
  PROVE  ConnectedInv'
<1>1. CASE wait_conn(t)
  BY <1>1, WaitConnMoves
<1>2. CASE TakeIndex(t)
  <2>1. /\ thread[t].pc = "index" /\ calls' = calls + 1 /\ UNCHANGED isConnected
        /\ DOMAIN thread' = Thread
        /\ \A u \in Thread : "pc" \in DOMAIN thread'[u]
    BY <1>2 DEF ConnectedInv, TakeIndex, userUnchanged, connVars
  <2> QED
    BY <2>1 DEF ConnectedInv, CallsNeedConnection
<1>3. CASE PostCall(t) \/ WaitFuture(t) \/ CallReturns(t) \/ ConnectTimeout(t)
           \/ CallTimeout(t) \/ SpuriousWakeup(t) \/ Send(t) \/ wait_all_responses(t)
           \/ \E on \in BOOLEAN : SetTimeout(t, on)
  <2>1. UNCHANGED <<calls, isConnected>>
    BY <1>3 DEF PostCall, WaitFuture, CallReturns, ConnectTimeout, CallTimeout,
       SpuriousWakeup, Send, wait_all_responses, SetTimeout, userUnchanged, connVars
  <2>2. \/ UNCHANGED thread
        \/ \E pc \in {"posted", "idle", "fut_wait", "fut_wait_for", "timeout", "wait_conn",
                      "woken", "future_error"} : Goto(t, pc) \/ Leave(t, pc)
    BY <1>3, Zenon DEF PostCall, WaitFuture, CallReturns, ConnectTimeout, CallTimeout,
       SpuriousWakeup, Send, wait_all_responses, SetTimeout
  <2> QED
    BY <2>1, <2>2, ThreadMoves
<1>4. ASSUME NEW sync \in BOOLEAN, StartCall(t, sync) PROVE ConnectedInv'
  <2>1. /\ UNCHANGED <<calls, isConnected>> /\ DOMAIN thread' = Thread
        /\ thread' = [thread EXCEPT ![t] = [@ EXCEPT !.pc = "wait_conn", !.sync = sync]]
    BY <1>4 DEF ConnectedInv, StartCall, userUnchanged, connVars
  <2>2. /\ "pc" \in DOMAIN thread'[t] /\ thread'[t].pc = "wait_conn"
        /\ \A u \in Thread : u # t => thread'[u] = thread[u]
    BY <2>1 DEF ConnectedInv
  <2> QED
    BY <2>1, <2>2 DEF ConnectedInv, CallsNeedConnection
<1> QED
  BY <1>1, <1>2, <1>3, <1>4 DEF UserStep

\* The connection handler wakes threads; they look at is_connected_ again.
LEMMA IoMoves == ASSUME ConnectedInv, IoStep PROVE ConnectedInv'
<1>1. CASE Connected \/ ConnectError
  <2>1. thread' = Woken /\ calls' = calls /\ (isConnected => isConnected')
    BY <1>1 DEF Connected, ConnectError, ioUnchanged
  <2>2. DOMAIN thread' = Thread
    BY <2>1 DEF Woken
  <2>3. ASSUME NEW u \in Thread
        PROVE  "pc" \in DOMAIN thread'[u] /\ (thread'[u].pc = "index" => thread[u].pc = "index")
    BY <2>1 DEF Woken, ConnectedInv
  <2> QED
    BY <2>1, <2>2, <2>3 DEF ConnectedInv, CallsNeedConnection
<1>2. CASE RunPost \/ RunErase \/ RunWriteHandler \/ ReadChunk \/ DispatchResponse \/ ReadError
  <2>1. UNCHANGED <<calls, isConnected, thread>>
    BY <1>2 DEF RunPost, RunErase, RunWriteHandler, ReadChunk, DispatchResponse, ReadError,
       ioUnchanged, connVars
  <2> QED
    BY <2>1 DEF ConnectedInv, CallsNeedConnection
<1> QED
  BY <1>1, <1>2 DEF IoStep

\* CallsNeedConnection: no call has an id before the connection was made, whoever
\* wakes up and why, for any number of threads.
THEOREM ConnectedFirst == Spec => []CallsNeedConnection
<1>1. Init => ConnectedInv
  BY DEF Init, ConnectedInv, CallsNeedConnection
<1>2. ConnectedInv /\ [Next]_vars => ConnectedInv'
  <2> SUFFICES ASSUME ConnectedInv, [Next]_vars PROVE ConnectedInv'
    OBVIOUS
  <2>1. ASSUME UNCHANGED <<calls, isConnected, thread>> PROVE ConnectedInv'
    BY <2>1 DEF ConnectedInv, CallsNeedConnection
  <2>2. CASE Destroy
    BY <2>1, <2>2 DEF Destroy, connVars
  <2>3. CASE NetStep \/ ConnectionEnds \/ \E i \in DOMAIN wire : ServerAnswers(wire[i])
    BY <2>1, <2>3 DEF NetStep, AttemptFails, LastAttemptFails, TcpConnects, WriteSome,
       WriteFails, ConnectionEnds, ServerAnswers, envUnchanged, connVars
  <2>4. CASE UNCHANGED vars
    BY <2>1, <2>4 DEF vars, connVars
  <2> QED
    BY <2>2, <2>3, <2>4, IoMoves, ThreadStep DEF Next
<1>3. ConnectedInv => CallsNeedConnection
  BY DEF ConnectedInv
<1> QED
  BY <1>1, <1>2, <1>3, PTL DEF Spec
-----------------------------------------------------------------------------
(* Types.                                                                  *)

ThreadState == [pc : Pcs, call : 0..MaxCalls, id : Idx, sync : BOOLEAN]

\* The writer: at most one operation, for a queue that is not empty; a request takes
\* one segment, so that no message is ever incomplete.
ChainInv ==
  /\ inflight # <<>> => Len(inflight) = 1 /\ writeQueue # <<>>
  /\ \A k \in DOMAIN inflight : inflight[k].ec = "pending" => inflight[k].sent = 0
  /\ tail = <<>>
  /\ wire \in Seq(Message)

\* A call that has begun finds a number.
CountInv == calls + Cardinality(Beginning) <= MaxCalls

\* A call about to be posted has its number.
PostNumbered == \A t \in Thread : thread[t].pc = "post" => thread[t].call # 0

TypeInv == TypeOK /\ ChainInv /\ CountInv /\ PostNumbered

\* What a message tells by its kind.
LEMMA MessageFields ==
  ASSUME NEW m \in Message
  PROVE  /\ m.kind \in {"call", "notification"}
         /\ m.kind = "call" => m.call \in Calls /\ m.id \in Idx
BY DEF Message, CallRequest, Notification

\* What a posted handler tells by its kind.
LEMMA PostedFields ==
  ASSUME NEW p \in Posted
  PROVE  /\ p.op \in {"write", "erase"}
         /\ p.op = "write" => p.msg \in Message
         /\ p.op = "erase" => p.key \in 0..(IdCount - 1) /\ p = [op |-> "erase", key |-> p.key]
BY DEF Posted

\* The messages and handlers that are made.
LEMMA MadeMessages ==
  /\ \A c \in Calls, i \in Idx :
       [op |-> "write", msg |-> [kind |-> "call", call |-> c, id |-> i]] \in Posted
  /\ \A n \in 1..MaxSends : [op |-> "write", msg |-> [kind |-> "notification", n |-> n]] \in Posted
  /\ \A k \in 0..(IdCount - 1) : [op |-> "erase", key |-> k] \in Posted
BY DEF Posted, Message, CallRequest, Notification

\* The conversion of an id is to an unsigned number, and to one of its own.
LEMMA KeyFacts ==
  /\ IdCount \in Nat
  /\ \A i \in Idx : Key(i) \in 0..(IdCount - 1)
  /\ \A i, j \in Idx : Key(i) = Key(j) => i = j
  /\ \A i \in Idx : get_next_call_idx(i) \in Idx
<1>1. IdCount \in Nat
  BY HalfAssumption DEF IdCount
<1>2. \A i \in Idx : Key(i) = IF i >= 0 THEN i ELSE i + IdCount
  BY HalfAssumption DEF Idx, IdCount, Key
<1>3. \A i \in Idx : Key(i) \in 0..(IdCount - 1)
  BY <1>2, HalfAssumption DEF Idx, IdCount
<1>4. \A i, j \in Idx : Key(i) = Key(j) => i = j
  BY <1>2, HalfAssumption DEF Idx, IdCount
<1>5. \A i \in Idx : get_next_call_idx(i) \in Idx
  BY HalfAssumption DEF Idx, get_next_call_idx
<1> QED
  BY <1>1, <1>3, <1>4, <1>5

\* Taking the first element off, or putting one behind.
LEMMA TailIs ==
  ASSUME NEW S, NEW q \in Seq(S), q # <<>>
  PROVE  /\ Head(q) \in S /\ Head(q) = q[1] /\ Tail(q) \in Seq(S)
         /\ 1 \in DOMAIN q
         /\ Len(q) \in Nat \ {0} /\ Len(Tail(q)) = Len(q) - 1
         /\ DOMAIN q = 1..Len(q) /\ DOMAIN Tail(q) = 1..(Len(q) - 1)
         /\ \A i \in DOMAIN Tail(q) : i + 1 \in DOMAIN q /\ Tail(q)[i] = q[i + 1]
BY HeadTailProperties

LEMMA AppendIs ==
  ASSUME NEW S, NEW q \in Seq(S), NEW e \in S
  PROVE  /\ Append(q, e) \in Seq(S) /\ Append(q, e) # <<>>
         /\ Len(q) \in Nat /\ Len(Append(q, e)) = Len(q) + 1
         /\ DOMAIN q = 1..Len(q) /\ DOMAIN Append(q, e) = 1..(Len(q) + 1)
         /\ Append(q, e)[Len(q) + 1] = e
         /\ \A i \in DOMAIN q : Append(q, e)[i] = q[i]
BY AppendProperties

\* Threads that have no number stay a finite set.
LEMMA BeginningFinite == IsFiniteSet(Beginning) /\ Cardinality(Beginning) \in Nat
<1>1. Beginning \subseteq Thread
  BY DEF Beginning
<1> QED
  BY <1>1, ThreadAssumption, FS_Subset, FS_CardinalityType

\* A thread leaves the threads without a number, or stays where it is.
LEMMA BeginningShrinks ==
  ASSUME TypeOK, CountInv, calls' = calls,
         \A u \in Thread : u \in Beginning' => u \in Beginning
  PROVE  CountInv'
<1>1. Beginning' \subseteq Beginning
  BY DEF Beginning
<1>2. Cardinality(Beginning') <= Cardinality(Beginning) /\ Cardinality(Beginning') \in Nat
  BY <1>1, BeginningFinite, FS_Subset, FS_CardinalityType
<1> QED
  BY <1>2, BeginningFinite, CountsAssumption DEF CountInv, TypeOK

\* What Goto and Leave do to a thread.
LEMMA ThreadAfter ==
  ASSUME TypeOK, NEW t \in Thread, NEW pc \in Pcs, Goto(t, pc) \/ Leave(t, pc)
  PROVE  /\ thread' \in [Thread -> ThreadState]
         /\ thread'[t].pc = pc
         /\ \A u \in Thread : u # t => thread'[u] = thread[u]
<1>1. thread \in [Thread -> ThreadState]
  BY DEF TypeOK, ThreadState
<1>2. CASE Goto(t, pc)
  <2>1. thread' = [thread EXCEPT ![t] = [thread[t] EXCEPT !.pc = pc]]
    BY <1>2 DEF Goto
  <2>2. [thread[t] EXCEPT !.pc = pc] \in ThreadState /\ [thread[t] EXCEPT !.pc = pc].pc = pc
    BY <1>1 DEF ThreadState
  <2> QED
    BY <1>1, <2>1, <2>2
<1>3. CASE Leave(t, pc)
  <2>1. Rest(pc) \in ThreadState /\ Rest(pc).pc = pc
    BY HalfAssumption, CountsAssumption DEF Rest, ThreadState, Idx
  <2> QED
    BY <1>1, <1>3, <2>1 DEF Leave
<1> QED
  BY <1>2, <1>3

\* The variables a step of a thread leaves alone, as TypeInv sees them.
LEMMA RestTyped ==
  ASSUME TypeInv, thread' \in [Thread -> ThreadState], CountInv',
         \A t \in Thread : thread'[t].pc = "post" => thread'[t] = thread[t],
         UNCHANGED <<userUnchanged, timeout, callIdx, calls, future, strand, boundVars>>
  PROVE  TypeInv'
<1>0. PostNumbered'
  BY DEF TypeInv, PostNumbered
<1>1. ChainInv'
  BY DEF TypeInv, ChainInv, userUnchanged, writerVars
<1>2. TypeOK'
  BY DEF TypeInv, TypeOK, ThreadState, userUnchanged, writerVars, connVars, netVars, boundVars,
     Up, Writer!TypeOK
<1> QED
  BY <1>0, <1>1, <1>2 DEF TypeInv

\* Steps that only move a thread.
LEMMA QuietTyped ==
  ASSUME TypeInv, NEW t \in Thread,
         \/ wait_conn(t) \/ WaitFuture(t) \/ CallReturns(t) \/ ConnectTimeout(t)
         \/ CallTimeout(t) \/ SpuriousWakeup(t) \/ wait_all_responses(t)
  PROVE  /\ TypeInv'
         /\ UNCHANGED <<userUnchanged, timeout, callIdx, calls, future, strand, boundVars>>
         /\ \E pc \in Pcs \ {"post"} : Goto(t, pc) \/ Leave(t, pc)
         /\ thread[t].pc # "post"
<1>1. UNCHANGED <<userUnchanged, timeout, callIdx, calls, future, strand, boundVars>>
  BY DEF wait_conn, WaitFuture, CallReturns, ConnectTimeout, CallTimeout, SpuriousWakeup,
     wait_all_responses
<1>2. PICK pc \in Pcs \ {"post"} :
        /\ Goto(t, pc) \/ Leave(t, pc)
        /\ pc \in {"wait_conn", "cv_wait", "cv_wait_for", "woken", "index"} => t \in Beginning
  <2>1. CASE wait_conn(t) \/ SpuriousWakeup(t)
    <3>1. t \in Beginning
      BY <2>1 DEF wait_conn, SpuriousWakeup, Beginning
    <3>2. \E pc \in {"index", "system_error", "cv_wait_for", "cv_wait", "wait_conn", "woken"} :
            Goto(t, pc)
      BY <2>1, Zenon DEF wait_conn, SpuriousWakeup
    <3> QED
      BY <3>1, <3>2 DEF Pcs, AtRest
  <2>2. CASE WaitFuture(t)
    <3>1. \E pc \in {"fut_wait_for", "fut_wait"} : Goto(t, pc)
      BY <2>2 DEF WaitFuture
    <3> QED
      BY <3>1 DEF Pcs, AtRest
  <2>3. CASE CallReturns(t) \/ ConnectTimeout(t) \/ CallTimeout(t)
    <3>1. \E pc \in {"idle", "timeout"} : Leave(t, pc)
      BY <2>3 DEF CallReturns, ConnectTimeout, CallTimeout
    <3> QED
      BY <3>1 DEF Pcs, AtRest
  <2>4. CASE wait_all_responses(t)
    <3>1. \E pc \in {"future_error", "idle"} : Goto(t, pc)
      BY <2>4 DEF wait_all_responses
    <3> QED
      BY <3>1 DEF Pcs, AtRest
  <2> QED
    BY <2>1, <2>2, <2>3, <2>4
<1>3. /\ thread' \in [Thread -> ThreadState]
      /\ thread'[t].pc = pc
      /\ \A u \in Thread : u # t => thread'[u] = thread[u]
  BY <1>2, ThreadAfter DEF TypeInv
<1>4. \A u \in Thread : u \in Beginning' => u \in Beginning
  BY <1>2, <1>3 DEF Beginning
<1>5. calls' = calls
  BY <1>1
<1>6. CountInv'
  BY <1>4, <1>5, BeginningShrinks DEF TypeInv
<1>7. thread[t].pc # "post"
  BY DEF wait_conn, WaitFuture, CallReturns, ConnectTimeout, CallTimeout, SpuriousWakeup,
     wait_all_responses, AtRest
<1> QED
  BY <1>1, <1>2, <1>3, <1>6, <1>7, RestTyped

\* StartCall keeps room for a number.
LEMMA StartTyped ==
  ASSUME TypeInv, NEW t \in Thread, NEW sync \in BOOLEAN, StartCall(t, sync)
  PROVE  TypeInv'
<1>1. UNCHANGED <<userUnchanged, timeout, callIdx, calls, future, strand, boundVars>>
  BY DEF StartCall
<1>2. /\ thread' \in [Thread -> ThreadState]
      /\ thread'[t].pc = "wait_conn"
      /\ \A u \in Thread : u # t => thread'[u] = thread[u]
  <2>1. [thread[t] EXCEPT !.pc = "wait_conn", !.sync = sync] \in ThreadState
    <3>1. thread[t] \in ThreadState
      BY DEF TypeInv, TypeOK, ThreadState
    <3>2. ASSUME NEW r \in ThreadState PROVE [r EXCEPT !.pc = "wait_conn", !.sync = sync] \in ThreadState
      BY DEF ThreadState, Pcs
    <3> QED
      BY <3>1, <3>2
  <2>2. thread' = [thread EXCEPT ![t] = [thread[t] EXCEPT !.pc = "wait_conn", !.sync = sync]]
    BY DEF StartCall
  <2>3. [thread[t] EXCEPT !.pc = "wait_conn", !.sync = sync].pc = "wait_conn"
    BY DEF TypeInv, TypeOK
  <2> QED
    BY <2>1, <2>2, <2>3 DEF TypeInv, TypeOK, ThreadState
<1>3. Beginning' = Beginning \cup {t}
  BY <1>2 DEF Beginning, StartCall
<1>4. Cardinality(Beginning') <= Cardinality(Beginning) + 1 /\ Cardinality(Beginning') \in Nat
  <2>1. Cardinality(Beginning \cup {t}) = IF t \in Beginning THEN Cardinality(Beginning)
                                          ELSE Cardinality(Beginning) + 1
    BY BeginningFinite, FS_AddElement
  <2> QED
    BY <1>3, <2>1, BeginningFinite
<1>5. calls' = calls /\ calls \in Nat
  BY <1>1 DEF TypeInv, TypeOK
<1>6. CountInv'
  BY <1>4, <1>5, BeginningFinite, CountsAssumption DEF CountInv, StartCall
<1> QED
  BY <1>1, <1>2, <1>6, RestTyped

\* What TakeIndex and PostCall change.
LEMMA TakeIndexTyped ==
  ASSUME TypeInv, NEW t \in Thread, TakeIndex(t)
  PROVE  /\ TypeInv'
         /\ calls + 1 \in Calls /\ calls \in Nat /\ calls' = calls + 1
         /\ callIdx' = get_next_call_idx(callIdx)
         /\ future' = [future EXCEPT ![calls + 1] = Pending]
         /\ thread'[t].pc = "post" /\ thread'[t].call = calls + 1 /\ thread'[t].id = callIdx'
         /\ thread[t].pc = "index"
         /\ \A u \in Thread : u # t => thread'[u] = thread[u]
         /\ UNCHANGED <<userUnchanged, timeout, strand, boundVars>>
<1> USE DEF TypeInv
<1>1. t \in Beginning /\ calls \in Nat
  BY DEF TakeIndex, Beginning, TypeOK
<1>2. Cardinality(Beginning) \in Nat \ {0}
  BY <1>1, BeginningFinite, FS_EmptySet
<1>3. calls + 1 \in Calls
  BY <1>1, <1>2, CountsAssumption DEF CountInv, Calls
<1>4. callIdx' \in Idx /\ calls' = calls + 1 /\ calls' \in 0..MaxCalls
  BY <1>1, <1>3, KeyFacts DEF TakeIndex, TypeOK, Calls
<1>5. thread' = [thread EXCEPT ![t] = [thread[t] EXCEPT !.pc = "post", !.call = calls + 1,
                                                        !.id = callIdx']]
  BY DEF TakeIndex
<1>6. /\ [thread[t] EXCEPT !.pc = "post", !.call = calls + 1, !.id = callIdx'] \in ThreadState
      /\ [thread[t] EXCEPT !.pc = "post", !.call = calls + 1, !.id = callIdx'].pc = "post"
      /\ [thread[t] EXCEPT !.pc = "post", !.call = calls + 1, !.id = callIdx'].call = calls + 1
      /\ [thread[t] EXCEPT !.pc = "post", !.call = calls + 1, !.id = callIdx'].id = callIdx'
  BY <1>3, <1>4 DEF TypeOK, ThreadState, Pcs, Calls
<1>7. /\ thread' \in [Thread -> ThreadState]
      /\ thread'[t].pc = "post" /\ thread'[t].call = calls + 1 /\ thread'[t].id = callIdx'
      /\ \A u \in Thread : u # t => thread'[u] = thread[u]
  BY <1>5, <1>6 DEF TypeOK, ThreadState
<1>8. Beginning' = Beginning \ {t}
  BY <1>7 DEF Beginning
<1>9. Cardinality(Beginning') = Cardinality(Beginning) - 1
  BY <1>1, <1>8, BeginningFinite, FS_RemoveElement
<1>10. CountInv'
  BY <1>1, <1>2, <1>4, <1>9, CountsAssumption DEF CountInv
<1>11. future' = [future EXCEPT ![calls + 1] = Pending]
  BY DEF TakeIndex
<1>12. Pending \in [st : {"none", "pending", "value", "error", "broken"}, answers : 0..MaxCalls]
  BY CountsAssumption DEF Pending
<1>13. future' \in [Calls -> [st : {"none", "pending", "value", "error", "broken"},
                              answers : 0..MaxCalls]]
  BY <1>3, <1>11, <1>12 DEF TypeOK
<1>14. UNCHANGED <<userUnchanged, timeout, strand, boundVars>>
  BY DEF TakeIndex
<1>15. ChainInv'
  BY <1>14 DEF ChainInv, userUnchanged, writerVars
<1>16. TypeOK'
  BY <1>4, <1>7, <1>13, <1>14 DEF TypeOK, ThreadState, userUnchanged, writerVars, connVars,
     netVars, boundVars, Up, Writer!TypeOK
<1>17. PostNumbered'
  BY <1>1, <1>7 DEF PostNumbered
<1> QED
  BY <1>17, <1>1, <1>3, <1>4, <1>7, <1>10, <1>11, <1>14, <1>15, <1>16 DEF TakeIndex

\* The call of a thread that is about to post it is numbered: for the type of what it posts.
LEMMA PostTyped ==
  ASSUME TypeInv, NEW t \in Thread, PostCall(t)
  PROVE  /\ TypeInv' /\ thread[t].call \in Calls /\ thread[t].id \in Idx
         /\ strand' = Append(strand, [op |-> "write",
                        msg |-> [kind |-> "call", call |-> thread[t].call, id |-> thread[t].id]])
         /\ thread[t].pc = "post" /\ thread'[t].pc \in {"posted", "idle"}
         /\ \A u \in Thread : u # t => thread'[u] = thread[u]
         /\ UNCHANGED <<userUnchanged, timeout, callIdx, calls, future, boundVars>>
<1> USE DEF TypeInv
<1>1. thread[t] \in ThreadState
  BY DEF TypeOK, ThreadState
<1>2. PICK pc \in {"posted", "idle"} : Goto(t, pc) \/ Leave(t, pc)
  BY DEF PostCall
<1>3. pc \in Pcs
  BY DEF Pcs, AtRest
<1>4. /\ thread' \in [Thread -> ThreadState] /\ thread'[t].pc = pc
      /\ \A u \in Thread : u # t => thread'[u] = thread[u]
  BY <1>2, <1>3, ThreadAfter
<1>5. \A u \in Thread : u \in Beginning' => u \in Beginning
  BY <1>4 DEF Beginning
<1>6. strand' = Append(strand, [op |-> "write",
                        msg |-> [kind |-> "call", call |-> thread[t].call, id |-> thread[t].id]])
  BY DEF PostCall
<1>0. thread[t].call \in Calls /\ thread[t].id \in Idx
  BY <1>1, CountsAssumption DEF ThreadState, Calls, PostNumbered, PostCall
<1>7. strand' \in Seq(Posted)
  BY <1>0, <1>6, MadeMessages DEF TypeOK
<1>8. UNCHANGED <<userUnchanged, timeout, callIdx, calls, future, boundVars>>
  BY DEF PostCall
<1>9. calls' = calls
  BY <1>8
<1>10. CountInv'
  BY <1>5, <1>9, BeginningShrinks
<1>11. ChainInv'
  BY <1>8 DEF ChainInv, userUnchanged, writerVars
<1>12. TypeOK'
  BY <1>4, <1>7, <1>8 DEF TypeOK, ThreadState, userUnchanged, writerVars, connVars,
     netVars, boundVars, Up, Writer!TypeOK
<1>13. PostNumbered'
  BY <1>2, <1>4 DEF PostNumbered
<1> QED
  BY <1>0, <1>2, <1>4, <1>6, <1>8, <1>10, <1>11, <1>12, <1>13 DEF PostCall
-----------------------------------------------------------------------------
(* The writer, as the client uses it.                                      *)

\* The messages the writer was given: queued, being written, or written.
Sent == {writeQueue[i] : i \in DOMAIN writeQueue} \cup {wire[i] : i \in DOMAIN wire}
        \cup {inflight[i].item : i \in DOMAIN inflight}

\* What TypeInv says of the writer.
WriterTyped ==
  /\ writeQueue \in Seq(Message) /\ inflight \in Seq(Writer!Operation)
  /\ accepted \in Seq(Message) /\ ChainInv

LEMMA WriterTypes == ASSUME TypeInv PROVE WriterTyped
BY DEF TypeInv, TypeOK, WriterTyped, Writer!TypeOK

\* ... and what it needs of it.
LEMMA WriterTypesSuffice == ASSUME WriterTyped PROVE Writer!TypeOK
<1>1. tail \in Seq(Message) /\ wire \in Seq(Message \cup {NoMessage})
  BY EmptySeq, SeqMonotonic DEF WriterTyped, ChainInv
<1>2. <<>> \in Seq(Writer!Posted)
  BY EmptySeq
<1> QED
  BY <1>1, <1>2 DEF WriterTyped, Writer!TypeOK, Up

\* The operations in flight.
LEMMA InflightIs ==
  ASSUME WriterTyped, NEW k \in DOMAIN inflight
  PROVE  /\ inflight[k] \in Writer!Operation /\ inflight[k].item \in Message
         /\ \A e \in {"ok", "error"} :
              /\ [inflight[k] EXCEPT !.ec = e] \in Writer!Operation
              /\ [inflight[k] EXCEPT !.ec = e].item = inflight[k].item
              /\ [inflight[k] EXCEPT !.ec = e].ec = e
         /\ [inflight[k] EXCEPT !.sent = 1, !.ec = "ok"] \in Writer!Operation
         /\ [inflight[k] EXCEPT !.sent = 1, !.ec = "ok"].item = inflight[k].item
         /\ [inflight[k] EXCEPT !.sent = 1, !.ec = "ok"].ec = "ok"
<1>1. inflight[k] \in Writer!Operation
  BY ElementOfSeq DEF WriterTyped
<1>2. ASSUME NEW e \in {"ok", "error"}
      PROVE  /\ [inflight[k] EXCEPT !.ec = e] \in Writer!Operation
             /\ [inflight[k] EXCEPT !.ec = e].item = inflight[k].item
             /\ [inflight[k] EXCEPT !.ec = e].ec = e
  <2>1. [inflight[k] EXCEPT !.ec = e] \in Writer!Operation
    BY <1>1 DEF Writer!Operation
  <2>2. [inflight[k] EXCEPT !.ec = e].item = inflight[k].item
    BY <1>1 DEF Writer!Operation
  <2>3. [inflight[k] EXCEPT !.ec = e].ec = e
    BY <1>1 DEF Writer!Operation
  <2> QED
    BY <2>1, <2>2, <2>3
<1>3. [inflight[k] EXCEPT !.sent = 1, !.ec = "ok"] \in Writer!Operation
  <2>1. [inflight[k] EXCEPT !.sent = 1] \in Writer!Operation
    BY <1>1 DEF Writer!Operation
  <2>2. ASSUME NEW r \in Writer!Operation PROVE [r EXCEPT !.ec = "ok"] \in Writer!Operation
    BY DEF Writer!Operation
  <2>3. [inflight[k] EXCEPT !.sent = 1, !.ec = "ok"] = [[inflight[k] EXCEPT !.sent = 1] EXCEPT !.ec = "ok"]
    OBVIOUS
  <2> QED
    BY <2>1, <2>2, <2>3
<1>4. /\ [inflight[k] EXCEPT !.sent = 1, !.ec = "ok"].item = inflight[k].item
      /\ [inflight[k] EXCEPT !.sent = 1, !.ec = "ok"].ec = "ok"
  BY <1>1 DEF Writer!Operation
<1>5. inflight[k].item \in Message
  BY <1>1 DEF Writer!Operation
<1> QED
  BY <1>1, <1>2, <1>3, <1>4, <1>5

\* What is sent is messages.
LEMMA SentMessages == ASSUME WriterTyped PROVE Sent \subseteq Message
<1>1. \A i \in DOMAIN writeQueue : writeQueue[i] \in Message
  BY ElementOfSeq DEF WriterTyped
<1>2. \A i \in DOMAIN wire : wire[i] \in Message
  BY ElementOfSeq DEF WriterTyped, ChainInv
<1>3. \A i \in DOMAIN inflight : inflight[i].item \in Message
  BY InflightIs
<1> QED
  BY <1>1, <1>2, <1>3 DEF Sent

\* The operation that do_write() starts.
LEMMA NewOperation ==
  ASSUME NEW m \in Message
  PROVE  [item |-> m, sent |-> 0, ec |-> "pending"] \in Writer!Operation
BY DEF Writer!Operation

\* A sequence of one element.
LEMMA OneElement ==
  ASSUME NEW S, NEW q \in Seq(S), Len(q) = 1
  PROVE  DOMAIN q = {1} /\ q[1] \in S
BY LenProperties, ElementOfSeq

\* write() puts one more message behind the others.
LEMMA WriteTyped ==
  ASSUME WriterTyped, NEW m \in Message, Writer!write(m)
  PROVE  WriterTyped' /\ Sent' \subseteq Sent \cup {m}
<1> DEFINE op == [item |-> Head(writeQueue'), sent |-> 0, ec |-> "pending"]
<1>1. /\ writeQueue' = Append(writeQueue, m) /\ accepted' = Append(accepted, m)
      /\ inflight' = IF Len(writeQueue') > 1 THEN inflight ELSE Append(inflight, op)
      /\ tail' = tail /\ wire' = wire
  BY DEF Writer!write, Writer!do_write, Writer!streamVars
<1>2. /\ writeQueue' \in Seq(Message) /\ writeQueue' # <<>> /\ accepted' \in Seq(Message)
      /\ \A i \in DOMAIN writeQueue' : \/ i \in DOMAIN writeQueue /\ writeQueue'[i] = writeQueue[i]
                                       \/ writeQueue'[i] = m
      /\ Len(writeQueue') = Len(writeQueue) + 1 /\ Len(writeQueue) \in Nat
  BY <1>1, AppendIs DEF WriterTyped
<1>3. CASE Len(writeQueue') > 1
  <2>1. inflight' = inflight
    BY <1>1, <1>3
  <2> QED
    BY <1>1, <1>2, <2>1 DEF WriterTyped, ChainInv, Sent
<1>4. CASE ~(Len(writeQueue') > 1)
  <2>1. writeQueue = <<>>
    BY <1>2, <1>4 DEF WriterTyped
  <2>2. inflight = <<>>
    BY <2>1 DEF WriterTyped, ChainInv
  <2>3. Head(writeQueue') = m
    BY <1>1, <2>1
  <2>4. op \in Writer!Operation /\ op.item = m
    BY <2>3, NewOperation
  <2>5. inflight' = <<op>>
    BY <1>1, <1>4, <2>2
  <2>6. inflight' \in Seq(Writer!Operation) /\ Len(inflight') = 1
        /\ \A i \in DOMAIN inflight' : inflight'[i].item = m /\ inflight'[i].sent = 0
    BY <2>4, <2>5
  <2> QED
    BY <1>1, <1>2, <2>6 DEF WriterTyped, ChainInv, Sent
<1> QED
  BY <1>3, <1>4

\* The completion handler goes on with what is queued.
LEMMA HandlerTyped ==
  ASSUME WriterTyped, NEW k \in DOMAIN inflight, Writer!write_handler(k)
  PROVE  WriterTyped' /\ Sent' \subseteq Sent
<1>1. Len(inflight) = 1 /\ k = 1 /\ writeQueue # <<>> /\ inflight # <<>>
  BY OneElement DEF WriterTyped, ChainInv
<1>2. Writer!Without(inflight, k) = <<>>
  BY <1>1 DEF Writer!Without, WriterTyped
<1>3. UNCHANGED <<tail, wire, accepted>>
  BY DEF Writer!write_handler, Writer!streamVars
<1>4. CASE inflight[k].ec = "ok"
  <2>1. /\ writeQueue' = Tail(writeQueue)
        /\ inflight' = IF writeQueue' # <<>>
                       THEN Append(<<>>, [item |-> Head(writeQueue'), sent |-> 0, ec |-> "pending"])
                       ELSE <<>>
    BY <1>2, <1>4 DEF Writer!write_handler, Writer!do_write
  <2>2. /\ writeQueue' \in Seq(Message)
        /\ \A i \in DOMAIN writeQueue' : i + 1 \in DOMAIN writeQueue /\ writeQueue'[i] = writeQueue[i + 1]
    BY <1>1, <2>1, TailIs DEF WriterTyped
  <2>3. CASE writeQueue' = <<>>
    <3>1. inflight' = <<>>
      BY <2>1, <2>3
    <3> QED
      BY <1>3, <2>2, <3>1 DEF WriterTyped, ChainInv, Sent
  <2>4. CASE writeQueue' # <<>>
    <3>1. Head(writeQueue') \in Message /\ 1 \in DOMAIN writeQueue' /\ Head(writeQueue') = writeQueue'[1]
      BY <2>2, <2>4, TailIs
    <3> DEFINE op == [item |-> Head(writeQueue'), sent |-> 0, ec |-> "pending"]
    <3>2. op \in Writer!Operation /\ op.item = writeQueue'[1]
      BY <3>1, NewOperation
    <3>3. inflight' = <<op>>
      BY <2>1, <2>4
    <3>4. /\ inflight' \in Seq(Writer!Operation) /\ Len(inflight') = 1
          /\ \A i \in DOMAIN inflight' : inflight'[i].item = writeQueue'[1] /\ inflight'[i].sent = 0
      BY <3>2, <3>3
    <3>5. WriterTyped'
      BY <1>3, <2>2, <2>4, <3>4 DEF WriterTyped, ChainInv
    <3>6. \A i \in DOMAIN inflight' : inflight'[i].item \in Sent
      BY <2>2, <3>1, <3>4 DEF Sent
    <3> QED
      BY <1>3, <2>2, <3>5, <3>6 DEF Sent
  <2> QED
    BY <2>3, <2>4
<1>5. CASE inflight[k].ec # "ok"
  <2>1. writeQueue' = writeQueue /\ inflight' = <<>>
    BY <1>2, <1>5 DEF Writer!write_handler
  <2> QED
    BY <1>3, <2>1 DEF WriterTyped, ChainInv, Sent
<1> QED
  BY <1>4, <1>5

\* An operation changes its state.
LEMMA OperationAfter ==
  ASSUME WriterTyped, NEW k \in DOMAIN inflight, NEW o \in Writer!Operation,
         o.item = inflight[k].item, inflight' = [inflight EXCEPT ![k] = o]
  PROVE  /\ inflight' \in Seq(Writer!Operation) /\ Len(inflight') = Len(inflight)
         /\ DOMAIN inflight' = DOMAIN inflight
         /\ \A i \in DOMAIN inflight : inflight'[i].item = inflight[i].item
         /\ \A i \in DOMAIN inflight : inflight'[i] = inflight[i] \/ inflight'[i] = o
BY ExceptSeq DEF WriterTyped

\* The operation sends its message.
LEMMA TransferTyped ==
  ASSUME WriterTyped, NEW k \in DOMAIN inflight, Writer!async_write_some(k)
  PROVE  WriterTyped' /\ Sent' \subseteq Sent
<1>1. Append(tail, inflight[k].item) = <<inflight[k].item>>
  BY DEF WriterTyped, ChainInv
<1>2. inflight[k] \in Writer!Operation /\ inflight[k].item \in Message
  BY InflightIs
<1>3. /\ writeQueue' = writeQueue /\ accepted' = accepted
      /\ tail' = <<>> /\ wire' = Append(wire, Writer!Unpack(<<inflight[k].item>>))
  BY <1>1 DEF Writer!async_write_some
<1>4. Writer!Unpack(<<inflight[k].item>>) = inflight[k].item
  BY DEF Writer!Unpack
<1>6. inflight[k].sent = 0
  BY DEF WriterTyped, ChainInv, Writer!async_write_some
<1> DEFINE o == [inflight[k] EXCEPT !.sent = 1, !.ec = "ok"]
<1>5. inflight' = [inflight EXCEPT ![k] = o]
  BY <1>6 DEF Writer!async_write_some
<1>7. o \in Writer!Operation /\ o.item = inflight[k].item /\ o.ec = "ok"
  BY InflightIs
<1> HIDE DEF o
<1>8. /\ inflight' \in Seq(Writer!Operation) /\ Len(inflight') = Len(inflight)
      /\ DOMAIN inflight' = DOMAIN inflight
      /\ \A i \in DOMAIN inflight : inflight'[i].item = inflight[i].item
      /\ \A i \in DOMAIN inflight : inflight'[i] = inflight[i] \/ inflight'[i].ec = "ok"
  BY <1>5, <1>7, OperationAfter
<1>9. /\ wire' \in Seq(Message)
      /\ \A i \in DOMAIN wire' : \/ i \in DOMAIN wire /\ wire'[i] = wire[i]
                                 \/ wire'[i] = inflight[k].item
  <2>1. wire \in Seq(Message) /\ wire' = Append(wire, inflight[k].item)
    BY <1>3, <1>4 DEF WriterTyped, ChainInv
  <2> HIDE DEF o
  <2>2. /\ wire' \in Seq(Message) /\ DOMAIN wire = 1..Len(wire) /\ DOMAIN wire' = 1..(Len(wire) + 1)
        /\ wire'[Len(wire) + 1] = inflight[k].item /\ Len(wire) \in Nat
        /\ \A i \in DOMAIN wire : wire'[i] = wire[i]
    BY <1>2, <2>1, AppendIs
  <2> QED
    BY <2>2
<1>10. WriterTyped'
  BY <1>3, <1>8, <1>9 DEF WriterTyped, ChainInv
<1> QED
  BY <1>3, <1>8, <1>9, <1>10 DEF Sent

\* The operation fails.
LEMMA AbortTyped ==
  ASSUME WriterTyped, NEW k \in DOMAIN inflight, Writer!abort_write(k)
  PROVE  WriterTyped' /\ Sent' \subseteq Sent
<1>1. UNCHANGED <<writeQueue, accepted, tail, wire>>
  BY DEF Writer!abort_write, Writer!streamVars
<1> DEFINE o == [inflight[k] EXCEPT !.ec = "error"]
<1>2. inflight' = [inflight EXCEPT ![k] = o]
  BY DEF Writer!abort_write
<1>3. o \in Writer!Operation /\ o.item = inflight[k].item /\ o.ec = "error"
  BY InflightIs
<1> HIDE DEF o
<1>4. /\ inflight' \in Seq(Writer!Operation) /\ Len(inflight') = Len(inflight)
      /\ DOMAIN inflight' = DOMAIN inflight
      /\ \A i \in DOMAIN inflight : inflight'[i].item = inflight[i].item
      /\ \A i \in DOMAIN inflight : inflight'[i] = inflight[i] \/ inflight'[i].ec = "error"
  BY <1>2, <1>3, OperationAfter
<1>5. WriterTyped'
  BY <1>1, <1>4 DEF WriterTyped, ChainInv
<1> QED
  BY <1>1, <1>4, <1>5 DEF Sent

\* All operations fail.
LEMMA AbortedTyped ==
  ASSUME WriterTyped, inflight' = Aborted, UNCHANGED <<writeQueue, accepted, tail, wire>>
  PROVE  WriterTyped' /\ Sent' \subseteq Sent
<1>1. ASSUME NEW k \in DOMAIN inflight
      PROVE  /\ Aborted[k] \in Writer!Operation /\ Aborted[k].item = inflight[k].item
             /\ Aborted[k].ec # "pending"
  <2>1. PICK e \in {"ok", "error"} : Aborted[k] = [inflight[k] EXCEPT !.ec = e]
    <3>1. inflight[k].ec \in {"pending", "ok", "error"}
      BY InflightIs DEF Writer!Operation
    <3> QED
      BY <3>1 DEF Aborted
  <2>2. /\ [inflight[k] EXCEPT !.ec = e] \in Writer!Operation
        /\ [inflight[k] EXCEPT !.ec = e].item = inflight[k].item
        /\ [inflight[k] EXCEPT !.ec = e].ec = e
    BY InflightIs
  <2> QED
    BY <2>1, <2>2
<1>2. DOMAIN inflight' = 1..Len(inflight) /\ Len(inflight) \in Nat /\ DOMAIN inflight = 1..Len(inflight)
  BY DEF Aborted, WriterTyped
<1>3. inflight' \in Seq(Writer!Operation) /\ Len(inflight') = Len(inflight)
  <2>1. inflight' = [k \in 1..Len(inflight) |-> Aborted[k]]
    BY <1>2 DEF Aborted
  <2>2. \A k \in 1..Len(inflight) : Aborted[k] \in Writer!Operation
    BY <1>1, <1>2
  <2> QED
    BY <1>2, <2>1, <2>2
<1>4. WriterTyped'
  BY <1>1, <1>2, <1>3 DEF WriterTyped, ChainInv
<1> QED
  BY <1>1, <1>2, <1>4 DEF Sent
-----------------------------------------------------------------------------
(* Types: the steps of the io thread and of the network.                   *)

FutureState == [st : {"none", "pending", "value", "error", "broken"}, answers : 0..MaxCalls]

\* TypeInv in parts.
FlagsTyped ==
  /\ alive \in BOOLEAN /\ state \in {"initial", "connected", "disconnected"}
  /\ isConnected \in BOOLEAN /\ connectionEc \in BOOLEAN /\ timeout \in BOOLEAN
  /\ callIdx \in Idx /\ calls \in 0..MaxCalls /\ collided \in BOOLEAN
  /\ io \in {"running", "returned", "threw"} /\ reading \in BOOLEAN
  /\ link \in {"connecting", "up", "refused"} \cup Ended /\ attempt \in 1..Endpoints
  /\ sends \in 0..MaxSends /\ settings \in 0..MaxSettings
ThreadsTyped == thread \in [Thread -> ThreadState] /\ CountInv /\ PostNumbered
CallsTyped ==
  /\ future \in [Calls -> FutureState]
  /\ DOMAIN ongoingCalls \subseteq 0..(IdCount - 1)
  /\ \A k \in DOMAIN ongoingCalls : ongoingCalls[k] \in Entry
ResponsesTyped == pac \in Seq(Response) /\ responses \in Seq(Response) /\ answered \subseteq Calls

LEMMA TypeParts ==
  TypeInv <=> FlagsTyped /\ ThreadsTyped /\ CallsTyped /\ ResponsesTyped /\ WriterTyped
              /\ strand \in Seq(Posted)
<1>1. TypeInv => WriterTyped
  BY WriterTypes
<1>2. TypeInv => FlagsTyped /\ ThreadsTyped /\ CallsTyped /\ ResponsesTyped /\ strand \in Seq(Posted)
  BY DEF TypeInv, TypeOK, FlagsTyped, ThreadsTyped, CallsTyped, ResponsesTyped, ThreadState, FutureState
<1>3. ASSUME FlagsTyped, ThreadsTyped, CallsTyped, ResponsesTyped, WriterTyped, strand \in Seq(Posted)
      PROVE TypeInv
  <2>1. Writer!TypeOK
    BY <1>3, WriterTypesSuffice
  <2> QED
    BY <1>3, <2>1 DEF TypeInv, TypeOK, FlagsTyped, ThreadsTyped, CallsTyped, ResponsesTyped, ThreadState,
       FutureState, WriterTyped
<1> QED
  BY <1>1, <1>2, <1>3

\* The same, after a step.
LEMMA TypePartsAfter ==
  TypeInv' <=> (FlagsTyped /\ ThreadsTyped /\ CallsTyped /\ ResponsesTyped /\ WriterTyped
                /\ strand \in Seq(Posted))'
BY TypeParts, PTL

\* The parts a step leaves alone.
LEMMA ThreadsKept == ASSUME ThreadsTyped, UNCHANGED <<thread, calls>> PROVE ThreadsTyped'
BY DEF ThreadsTyped, CountInv, PostNumbered, Beginning

LEMMA WriterKept == ASSUME WriterTyped, UNCHANGED writerVars PROVE WriterTyped' /\ Sent' = Sent
BY DEF WriterTyped, ChainInv, writerVars, Sent

\* A handler ends, and run() goes on or returns.
LEMMA EndHandlerTyped == ASSUME EndHandler PROVE io' \in {"running", "returned"}
BY DEF EndHandler

\* The steps of a user that move no thread.
LEMMA SendTyped ==
  ASSUME TypeInv, NEW t \in Thread, Send(t)
  PROVE  /\ TypeInv'
         /\ strand' = Append(strand, [op |-> "write", msg |-> [kind |-> "notification", n |-> sends + 1]])
         /\ [op |-> "write", msg |-> [kind |-> "notification", n |-> sends + 1]] \in Posted
         /\ UNCHANGED <<userUnchanged, timeout, callIdx, calls, thread, future, settings>>
<1>1. /\ strand' = Append(strand, [op |-> "write", msg |-> [kind |-> "notification", n |-> sends + 1]])
      /\ UNCHANGED <<userUnchanged, timeout, callIdx, calls, thread, future, settings>>
      /\ sends' = sends + 1 /\ sends < MaxSends
  BY DEF Send
<1>2. sends + 1 \in 1..MaxSends /\ sends' \in 0..MaxSends
  BY <1>1, CountsAssumption DEF TypeInv, TypeOK
<1>3. [op |-> "write", msg |-> [kind |-> "notification", n |-> sends + 1]] \in Posted
  BY <1>2, MadeMessages
<1>4. strand' \in Seq(Posted)
  BY <1>1, <1>3, TypeParts, AppendIs
<1>5. ThreadsTyped' /\ WriterTyped'
  BY <1>1, TypeParts, ThreadsKept, WriterKept DEF userUnchanged
<1>6. FlagsTyped' /\ CallsTyped' /\ ResponsesTyped'
  BY <1>1, <1>2, TypeParts DEF FlagsTyped, CallsTyped, ResponsesTyped, userUnchanged, connVars, netVars
<1> QED
  BY <1>1, <1>3, <1>4, <1>5, <1>6, TypePartsAfter

LEMMA SetTimeoutTyped ==
  ASSUME TypeInv, NEW t \in Thread, NEW on \in BOOLEAN, SetTimeout(t, on)
  PROVE  TypeInv' /\ UNCHANGED <<userUnchanged, callIdx, calls, thread, future, strand>>
<1>1. /\ UNCHANGED <<userUnchanged, callIdx, calls, thread, future, strand, sends>>
      /\ timeout' \in BOOLEAN /\ settings < MaxSettings /\ settings' = settings + 1
  BY DEF SetTimeout
<1>2. settings' \in 0..MaxSettings
  BY <1>1, CountsAssumption DEF TypeInv, TypeOK
<1>3. ThreadsTyped' /\ WriterTyped'
  BY <1>1, TypeParts, ThreadsKept, WriterKept DEF userUnchanged
<1>4. FlagsTyped' /\ CallsTyped' /\ ResponsesTyped' /\ strand' \in Seq(Posted)
  BY <1>1, <1>2, TypeParts DEF FlagsTyped, CallsTyped, ResponsesTyped, userUnchanged, connVars, netVars
<1> QED
  BY <1>1, <1>3, <1>4, TypePartsAfter

\* ~client() breaks the promises that are left.
LEMMA DestroyTyped ==
  ASSUME TypeInv, Destroy
  PROVE  /\ TypeInv' /\ alive /\ ~alive'
         /\ \A c \in Calls : /\ future[c].st = "pending" => future'[c].st = "broken"
                             /\ future[c].st # "pending" => future'[c] = future[c]
         /\ \A t \in Thread : thread[t].pc \in AtRest
         /\ UNCHANGED <<connVars, timeout, callIdx, calls, thread, strand, ongoingCalls,
                        collided, io, reading, pac, writerVars, netVars, boundVars>>
<1>1. UNCHANGED <<connVars, timeout, callIdx, calls, thread, strand, ongoingCalls,
                  collided, io, reading, pac, writerVars, netVars, boundVars>>
  BY DEF Destroy
<1>2. future' = [c \in Calls |->
                  IF future[c].st = "pending" THEN [future[c] EXCEPT !.st = "broken"] ELSE future[c]]
  BY DEF Destroy
<1>3. \A c \in Calls : /\ future[c] \in FutureState /\ [future[c] EXCEPT !.st = "broken"] \in FutureState
                       /\ [future[c] EXCEPT !.st = "broken"].st = "broken"
  BY TypeParts DEF CallsTyped, FutureState
<1>4. future' \in [Calls -> FutureState]
  BY <1>2, <1>3
<1>5. \A c \in Calls : /\ future[c].st = "pending" => future'[c].st = "broken"
                       /\ future[c].st # "pending" => future'[c] = future[c]
  BY <1>2, <1>3
<1>6. ThreadsTyped' /\ WriterTyped'
  BY <1>1, TypeParts, ThreadsKept, WriterKept
<1>7. CallsTyped' /\ ResponsesTyped' /\ strand' \in Seq(Posted)
  BY <1>1, <1>4, TypeParts DEF CallsTyped, ResponsesTyped, netVars
<1>8. FlagsTyped' /\ alive /\ ~alive' /\ \A t \in Thread : thread[t].pc \in AtRest
  BY <1>1, TypeParts DEF FlagsTyped, Destroy, connVars, netVars, boundVars
<1> QED
  BY <1>1, <1>5, <1>6, <1>7, <1>8, TypePartsAfter

\* The connection handler wakes the threads that wait.
LEMMA WakeTyped ==
  ASSUME TypeInv, Connected \/ ConnectError
  PROVE  /\ TypeInv' /\ alive /\ state = "initial" /\ link # "connecting"
         /\ \A t \in Thread : /\ thread[t].pc = "post" <=> thread'[t].pc = "post"
                              /\ thread[t].pc = "post" => thread'[t] = thread[t]
         /\ UNCHANGED <<ioUnchanged, future, strand, ongoingCalls, collided, pac, writerVars, netVars>>
<1>1. /\ UNCHANGED <<ioUnchanged, future, strand, ongoingCalls, collided, pac, writerVars, netVars>>
      /\ thread' = Woken /\ alive /\ state = "initial" /\ link # "connecting"
      /\ io' \in {"running", "returned"}
      /\ state' \in {"connected", "disconnected"} /\ isConnected' \in BOOLEAN
      /\ connectionEc' \in BOOLEAN /\ reading' \in BOOLEAN
  BY TypeParts, EndHandlerTyped DEF Connected, ConnectError, IoIdle, Ended, FlagsTyped
<1>2. ASSUME NEW t \in Thread
      PROVE  /\ Woken[t] \in ThreadState
             /\ thread[t].pc = "post" <=> Woken[t].pc = "post"
             /\ thread[t].pc = "post" => Woken[t] = thread[t]
             /\ t \in Beginning <=> Woken[t].pc \in {"wait_conn", "cv_wait", "cv_wait_for", "woken", "index"}
  <2>1. thread[t] \in ThreadState
    BY TypeParts DEF ThreadsTyped
  <2>2. /\ thread[t].pc = "cv_wait" => Woken[t] = [thread[t] EXCEPT !.pc = "wait_conn"]
        /\ thread[t].pc = "cv_wait_for" => Woken[t] = [thread[t] EXCEPT !.pc = "woken"]
    BY <2>1 DEF Woken
  <2>3. thread[t].pc \notin {"cv_wait", "cv_wait_for"} => Woken[t] = [thread[t] EXCEPT !.pc = thread[t].pc]
    BY <2>1 DEF Woken
  <2>4. ASSUME NEW r \in ThreadState PROVE [r EXCEPT !.pc = r.pc] = r
    BY DEF ThreadState
  <2>5. \A pc \in {"wait_conn", "woken"} :
          [thread[t] EXCEPT !.pc = pc] \in ThreadState /\ [thread[t] EXCEPT !.pc = pc].pc = pc
    BY <2>1 DEF ThreadState, Pcs
  <2> QED
    BY <2>1, <2>2, <2>3, <2>4, <2>5 DEF Beginning
<1>3. thread' \in [Thread -> ThreadState]
  <2>1. Woken = [t \in Thread |-> Woken[t]]
    BY DEF Woken
  <2> QED
    BY <1>1, <1>2, <2>1
<1>4. CountInv'
  <2>1. \A u \in Thread : u \in Beginning' => u \in Beginning
    BY <1>1, <1>2 DEF Beginning
  <2>2. calls' = calls
    BY <1>1 DEF ioUnchanged
  <2> QED
    BY <2>1, <2>2, BeginningShrinks DEF TypeInv
<1>5. PostNumbered'
  BY <1>1, <1>2 DEF TypeInv, PostNumbered
<1>6. WriterTyped'
  BY <1>1, TypeParts, WriterKept
<1>7. FlagsTyped' /\ CallsTyped' /\ ResponsesTyped' /\ strand' \in Seq(Posted)
  BY <1>1, TypeParts DEF FlagsTyped, CallsTyped, ResponsesTyped, ioUnchanged, netVars, boundVars
<1> QED
  BY <1>1, <1>2, <1>3, <1>4, <1>5, <1>6, <1>7, TypePartsAfter DEF ThreadsTyped

\* The entries insert() makes.
LEMMA InsertTyped ==
  ASSUME CallsTyped, collided \in BOOLEAN, NEW m \in Message, m.kind = "call", Insert(m)
  PROVE  CallsTyped' /\ collided' \in BOOLEAN
<1>1. m.call \in Calls /\ Key(m.id) \in 0..(IdCount - 1)
  BY MessageFields, KeyFacts
<1>2. CASE Key(m.id) \in DOMAIN ongoingCalls
  <2>1. /\ future' = [future EXCEPT ![m.call] = [future[m.call] EXCEPT !.st = "broken"]]
        /\ collided' = TRUE /\ ongoingCalls' = ongoingCalls
    BY <1>2 DEF Insert
  <2>2. [future[m.call] EXCEPT !.st = "broken"] \in FutureState
    BY <1>1 DEF CallsTyped, FutureState
  <2> QED
    BY <1>1, <2>1, <2>2 DEF CallsTyped
<1>3. CASE Key(m.id) \notin DOMAIN ongoingCalls
  <2>1. /\ ongoingCalls' = [j \in DOMAIN ongoingCalls \cup {Key(m.id)} |->
                             IF j = Key(m.id) THEN [call |-> m.call, satisfied |-> FALSE]
                                              ELSE ongoingCalls[j]]
        /\ future' = future /\ collided' = collided
    BY <1>3 DEF Insert
  <2>2. [call |-> m.call, satisfied |-> FALSE] \in Entry
    BY <1>1 DEF Entry, Calls
  <2> QED
    BY <1>1, <2>1, <2>2 DEF CallsTyped
<1> QED
  BY <1>2, <1>3

\* The handler of a post().
LEMMA RunPostTyped ==
  ASSUME TypeInv, RunPost
  PROVE  /\ TypeInv' /\ alive /\ strand # <<>> /\ strand[1].op = "write" /\ strand[1].msg \in Message
         /\ strand' = Tail(strand)
         /\ strand[1].msg.kind = "call" => Insert(strand[1].msg)
         /\ strand[1].msg.kind # "call" => UNCHANGED <<future, ongoingCalls, collided>>
         /\ Sent' \subseteq Sent \cup {strand[1].msg}
         /\ EndHandler
         /\ UNCHANGED <<ioUnchanged, connVars, thread, reading, pac, netVars>>
<1>1. /\ strand # <<>> /\ alive /\ EndHandler
      /\ strand' = Tail(strand) /\ Head(strand).op = "write"
      /\ IF Head(strand).msg.kind = "call" THEN Insert(Head(strand).msg)
         ELSE UNCHANGED <<future, ongoingCalls, collided>>
      /\ Writer!write(Head(strand).msg)
      /\ UNCHANGED <<ioUnchanged, connVars, thread, reading, pac, netVars>>
  BY DEF RunPost, IoIdle, netVars
<1>2. Head(strand) = strand[1] /\ Head(strand) \in Posted /\ strand' \in Seq(Posted)
  BY <1>1, TypeParts, TailIs
<1>3. Head(strand).msg \in Message
  BY <1>1, <1>2, PostedFields
<1>4. WriterTyped' /\ Sent' \subseteq Sent \cup {Head(strand).msg}
  BY <1>1, <1>3, WriteTyped, TypeParts
<1>5. CallsTyped' /\ collided' \in BOOLEAN
  <2>1. CASE Head(strand).msg.kind = "call"
    BY <1>1, <1>3, <2>1, InsertTyped, TypeParts DEF FlagsTyped
  <2>2. CASE Head(strand).msg.kind # "call"
    BY <1>1, <2>2, TypeParts DEF CallsTyped, FlagsTyped
  <2> QED
    BY <2>1, <2>2
<1>6. ThreadsTyped' /\ ResponsesTyped'
  BY <1>1, TypeParts, ThreadsKept DEF ResponsesTyped, ioUnchanged, netVars
<1>7. FlagsTyped'
  BY <1>1, <1>5, EndHandlerTyped, TypeParts DEF FlagsTyped, ioUnchanged, netVars, connVars, boundVars
<1> QED
  BY <1>1, <1>2, <1>3, <1>4, <1>5, <1>6, <1>7, TypePartsAfter

\* The handler of an erasure.
LEMMA RunEraseTyped ==
  ASSUME TypeInv, RunErase
  PROVE  /\ TypeInv' /\ alive /\ strand # <<>> /\ strand' = Tail(strand)
         /\ strand[1] = [op |-> "erase", key |-> strand[1].key]
         /\ ongoingCalls' = [j \in DOMAIN ongoingCalls \ {strand[1].key} |-> ongoingCalls[j]]
         /\ strand[1].key \in DOMAIN ongoingCalls /\ ongoingCalls[strand[1].key].satisfied
              => future' = future
         /\ EndHandler
         /\ UNCHANGED <<ioUnchanged, connVars, thread, collided, reading, pac, writerVars, netVars>>
<1> DEFINE k == strand[1].key
           c == ongoingCalls[k].call
<1>1. /\ strand # <<>> /\ alive /\ EndHandler /\ strand' = Tail(strand) /\ Head(strand).op = "erase"
      /\ UNCHANGED <<ioUnchanged, connVars, thread, collided, reading, pac, writerVars, netVars>>
  BY DEF RunErase, IoIdle
<1>2. Head(strand) = strand[1] /\ Head(strand) \in Posted /\ strand' \in Seq(Posted)
  BY <1>1, TypeParts, TailIs
<1>3. k \in 0..(IdCount - 1) /\ strand[1] = [op |-> "erase", key |-> k]
  BY <1>1, <1>2, PostedFields
<1>4. /\ ongoingCalls' = [j \in DOMAIN ongoingCalls \ {k} |-> ongoingCalls[j]]
      /\ future' = IF k \in DOMAIN ongoingCalls /\ ~ongoingCalls[k].satisfied /\ c # 0
                   THEN [future EXCEPT ![c] = [future[c] EXCEPT !.st = "broken"]]
                   ELSE future
  BY <1>2 DEF RunErase
<1>5. CallsTyped'
  <2>1. ASSUME k \in DOMAIN ongoingCalls, c # 0
        PROVE  c \in Calls /\ [future[c] EXCEPT !.st = "broken"] \in FutureState
    <3>1. ongoingCalls[k] \in Entry
      BY <2>1, TypeParts DEF CallsTyped
    <3>2. c \in Calls
      BY <2>1, <3>1 DEF Entry, Calls
    <3> QED
      BY <3>2, TypeParts DEF CallsTyped, FutureState
  <2>2. future' \in [Calls -> FutureState]
    BY <1>4, <2>1, TypeParts DEF CallsTyped
  <2> QED
    BY <1>4, <2>2, TypeParts DEF CallsTyped
<1>6. ThreadsTyped' /\ ResponsesTyped' /\ WriterTyped'
  BY <1>1, TypeParts, ThreadsKept, WriterKept DEF ResponsesTyped, ioUnchanged, netVars
<1>7. FlagsTyped'
  BY <1>1, EndHandlerTyped, TypeParts DEF FlagsTyped, ioUnchanged, netVars, connVars, boundVars
<1> QED
  BY <1>1, <1>2, <1>3, <1>4, <1>5, <1>6, <1>7, TypePartsAfter

\* The handler of a write.
LEMMA RunWriteHandlerTyped ==
  ASSUME TypeInv, RunWriteHandler
  PROVE  /\ TypeInv' /\ alive /\ Sent' \subseteq Sent /\ EndHandler
         /\ UNCHANGED <<ioUnchanged, connVars, thread, future, strand, ongoingCalls, collided,
                        reading, pac, netVars>>
<1>1. /\ alive /\ EndHandler
      /\ UNCHANGED <<ioUnchanged, connVars, thread, future, strand, ongoingCalls, collided,
                     reading, pac, netVars>>
  BY DEF RunWriteHandler, IoIdle
<1>2. PICK k \in DOMAIN inflight : Writer!write_handler(k)
  BY DEF RunWriteHandler
<1>3. WriterTyped' /\ Sent' \subseteq Sent
  BY <1>2, HandlerTyped, TypeParts
<1>4. ThreadsTyped' /\ ResponsesTyped' /\ CallsTyped' /\ strand' \in Seq(Posted)
  BY <1>1, TypeParts, ThreadsKept DEF ResponsesTyped, CallsTyped, ioUnchanged, netVars
<1>5. FlagsTyped'
  BY <1>1, EndHandlerTyped, TypeParts DEF FlagsTyped, ioUnchanged, netVars, connVars, boundVars
<1> QED
  BY <1>1, <1>3, <1>4, <1>5, TypePartsAfter

\* A sequence in two parts.
LEMMA SplitIs ==
  ASSUME NEW S, NEW q \in Seq(S), NEW n \in 0..Len(q)
  PROVE  /\ SubSeq(q, 1, n) \in Seq(S) /\ Len(SubSeq(q, 1, n)) = n
         /\ \A i \in 1..n : SubSeq(q, 1, n)[i] = q[i]
         /\ SubSeq(q, n + 1, Len(q)) \in Seq(S)
         /\ SubSeq(q, 1, n) \o SubSeq(q, n + 1, Len(q)) = q
<1>1. Len(q) \in Nat /\ \A i \in 1..Len(q) : q[i] \in S
  BY ElementOfSeq, LenProperties
<1>2. SubSeq(q, 1, n) \in Seq(S) /\ Len(SubSeq(q, 1, n)) = n
      /\ \A i \in 1..n : SubSeq(q, 1, n)[i] = q[i]
  BY <1>1, SubSeqProperties
<1>3. SubSeq(q, n + 1, Len(q)) \in Seq(S)
  BY <1>1, SubSeqProperties
<1>4. SubSeq(q, 1, n) \o SubSeq(q, n + 1, Len(q)) = q
  <2> DEFINE a == SubSeq(q, 1, n)
             b == SubSeq(q, n + 1, Len(q))
  <2>1. /\ Len(b) = Len(q) - n
        /\ \A i \in 1..(Len(q) - n) : b[i] = q[n + i]
    BY <1>1, SubSeqProperties
  <2>2. /\ a \in Seq(S) /\ b \in Seq(S) /\ Len(a) = n
        /\ \A i \in 1..n : a[i] = q[i]
    BY <1>2, <1>3
  <2> HIDE DEF a, b
  <2>3. /\ a \o b \in Seq(S) /\ Len(a \o b) = Len(q)
        /\ \A i \in 1..Len(q) : (a \o b)[i] = IF i <= n THEN a[i] ELSE b[i - n]
    BY <1>1, <2>1, <2>2, ConcatProperties
  <2>4. \A i \in 1..Len(q) : (a \o b)[i] = q[i]
    <3> TAKE i \in 1..Len(q)
    <3>1. CASE i <= n
      BY <1>1, <2>2, <2>3, <3>1
    <3>2. CASE ~(i <= n)
      <4>1. i - n \in 1..(Len(q) - n) /\ n + (i - n) = i
        BY <1>1, <3>2
      <4> QED
        BY <2>1, <2>3, <3>2, <4>1
    <3> QED
      BY <3>1, <3>2
  <2>5. a \o b = q
    BY <2>3, <2>4, SeqEqual
  <2> QED
    BY <2>5 DEF a, b
<1> QED
  BY <1>2, <1>3, <1>4

\* The read handler gets responses.
LEMMA ReadChunkTyped ==
  ASSUME TypeInv, ReadChunk
  PROVE  /\ TypeInv' /\ alive /\ pac = <<>> /\ reading /\ pac' # <<>>
         /\ pac' \o responses' = responses /\ io' = "running"
         /\ UNCHANGED <<ioUnchanged, connVars, thread, future, strand, ongoingCalls, collided,
                        writerVars, link, attempt, answered>>
<1>1. /\ alive /\ EndHandler /\ pac = <<>> /\ reading /\ reading' = FALSE
      /\ UNCHANGED <<ioUnchanged, connVars, thread, future, strand, ongoingCalls, collided,
                     writerVars, link, attempt, answered>>
  BY DEF ReadChunk, IoIdle
<1>2. PICK n \in 1..Len(responses) : /\ pac' = SubSeq(responses, 1, n)
                                     /\ responses' = SubSeq(responses, n + 1, Len(responses))
  BY DEF ReadChunk
<1>3. responses \in Seq(Response) /\ n \in 0..Len(responses) /\ n # 0
  BY TypeParts DEF ResponsesTyped
<1>4. /\ pac' \in Seq(Response) /\ responses' \in Seq(Response) /\ Len(pac') = n
      /\ pac' \o responses' = responses
  BY <1>2, <1>3, SplitIs
<1>5. pac' # <<>> /\ io' = "running"
  BY <1>1, <1>3, <1>4 DEF EndHandler, HasWork
<1>6. ThreadsTyped' /\ ResponsesTyped' /\ CallsTyped' /\ strand' \in Seq(Posted) /\ WriterTyped'
  BY <1>1, <1>4, TypeParts, ThreadsKept, WriterKept DEF ResponsesTyped, CallsTyped, ioUnchanged
<1>7. FlagsTyped'
  BY <1>1, <1>5, TypeParts DEF FlagsTyped, ioUnchanged, connVars, boundVars
<1> QED
  BY <1>1, <1>4, <1>5, <1>6, <1>7, TypePartsAfter

\* The loop of the read handler satisfies a promise, or throws.
LEMMA DispatchTyped ==
  ASSUME TypeInv, DispatchResponse
  PROVE  /\ TypeInv' /\ alive /\ pac # <<>> /\ pac' = Tail(pac) /\ pac[1] \in Response
         /\ dispatch_response(pac[1])
         /\ reading' = (pac' = <<>> /\ ~Throws(pac[1]))
         /\ io' = IF Throws(pac[1]) THEN "threw" ELSE "running"
         /\ UNCHANGED <<ioUnchanged, connVars, thread, collided, writerVars, netVars>>
<1>1. /\ alive /\ pac # <<>> /\ pac' = Tail(pac)
      /\ dispatch_response(Head(pac))
      /\ reading' = (pac' = <<>> /\ ~Throws(Head(pac)))
      /\ io' = IF Throws(Head(pac)) THEN "threw" ELSE "running"
      /\ UNCHANGED <<ioUnchanged, connVars, thread, collided, writerVars, netVars>>
  BY DEF DispatchResponse
<1>2. Head(pac) = pac[1] /\ Head(pac) \in Response /\ pac' \in Seq(Response)
  BY <1>1, TypeParts, TailIs DEF ResponsesTyped
<1> DEFINE r == pac[1]
           entry == IF r.id \in DOMAIN ongoingCalls THEN ongoingCalls[r.id]
                    ELSE [call |-> 0, satisfied |-> FALSE]
           answer == [st |-> IF r.error THEN "error" ELSE "value", answers |-> r.answers]
<1>3. r.id \in 0..(IdCount - 1) /\ r.answers \in Calls
  BY <1>2 DEF Response
<1>4. entry \in Entry /\ [entry EXCEPT !.satisfied = TRUE] \in Entry /\ entry.call \in 0..MaxCalls
  <2>1. entry \in Entry
    BY TypeParts, CountsAssumption DEF CallsTyped, Entry
  <2> QED
    BY <2>1 DEF Entry
<1>5. answer \in FutureState
  BY <1>3 DEF FutureState, Calls
<1>6. /\ ongoingCalls' = [j \in DOMAIN ongoingCalls \cup {r.id} |->
                            IF j = r.id THEN [entry EXCEPT !.satisfied = TRUE] ELSE ongoingCalls[j]]
      /\ \/ UNCHANGED <<future, strand>>
         \/ /\ future' = IF entry.call = 0 THEN future ELSE [future EXCEPT ![entry.call] = answer]
            /\ strand' = Append(strand, [op |-> "erase", key |-> r.id])
  <2>1. dispatch_response(r)
    BY <1>1, <1>2
  <2> QED
    BY <2>1, Zenon DEF dispatch_response
<1> HIDE DEF entry, answer
<1>7. strand' \in Seq(Posted)
  BY <1>3, <1>6, MadeMessages, AppendIs, TypeParts
<1>8. CallsTyped'
  <2>1. future' \in [Calls -> FutureState]
    <3>1. entry.call # 0 => entry.call \in Calls
      BY <1>4 DEF Calls
    <3> QED
      BY <1>5, <1>6, <3>1, TypeParts DEF CallsTyped
  <2> QED
    BY <1>3, <1>4, <1>6, <2>1, TypeParts DEF CallsTyped
<1>9. ThreadsTyped' /\ ResponsesTyped' /\ WriterTyped'
  BY <1>1, <1>2, TypeParts, ThreadsKept, WriterKept DEF ResponsesTyped, ioUnchanged, netVars
<1>10. FlagsTyped'
  BY <1>1, TypeParts DEF FlagsTyped, ioUnchanged, netVars, connVars, boundVars
<1> QED
  BY <1>1, <1>2, <1>7, <1>8, <1>9, <1>10, TypePartsAfter

\* The read handler gets an error.
LEMMA ReadErrorTyped ==
  ASSUME TypeInv, ReadError
  PROVE  /\ TypeInv' /\ alive /\ link \in Ended /\ EndHandler
         /\ UNCHANGED <<ioUnchanged, thread, future, strand, ongoingCalls, collided, pac,
                        writerVars, netVars>>
<1>1. /\ alive /\ link \in Ended /\ EndHandler /\ reading' = FALSE
      /\ state' = IF link \in {"eof", "reset"} THEN "disconnected" ELSE state
      /\ UNCHANGED <<ioUnchanged, isConnected, connectionEc, thread, future, strand,
                     ongoingCalls, collided, pac, writerVars, netVars>>
  BY DEF ReadError, IoIdle
<1>2. ThreadsTyped' /\ ResponsesTyped' /\ CallsTyped' /\ strand' \in Seq(Posted) /\ WriterTyped'
  BY <1>1, TypeParts, ThreadsKept, WriterKept DEF ResponsesTyped, CallsTyped, ioUnchanged, netVars
<1>3. FlagsTyped'
  BY <1>1, EndHandlerTyped, TypeParts DEF FlagsTyped, ioUnchanged, netVars, boundVars
<1> QED
  BY <1>1, <1>2, <1>3, TypePartsAfter

\* The network: nothing of the client but its writer changes.
LEMMA NetTyped ==
  ASSUME TypeInv, NetStep
  PROVE  /\ TypeInv' /\ alive /\ Sent' \subseteq Sent
         /\ link' # link => link = "connecting" /\ link' \in {"refused", "up"}
         /\ UNCHANGED <<envUnchanged, answered, responses>>
<1>1. /\ alive /\ UNCHANGED <<envUnchanged, answered, responses>>
      /\ link' # link => link = "connecting" /\ link' \in {"refused", "up"}
      /\ attempt' # attempt => attempt < Endpoints /\ attempt' = attempt + 1
  BY DEF NetStep, AttemptFails, LastAttemptFails, TcpConnects, WriteSome, WriteFails, netVars
<1>2. WriterTyped' /\ Sent' \subseteq Sent
  <2>1. CASE AttemptFails
    BY <2>1, AbortedTyped, TypeParts DEF AttemptFails
  <2>2. CASE LastAttemptFails \/ TcpConnects
    BY <2>2, WriterKept, TypeParts DEF LastAttemptFails, TcpConnects
  <2>3. CASE WriteSome
    <3>1. PICK k \in DOMAIN inflight : Writer!async_write_some(k)
      BY <2>3 DEF WriteSome
    <3> QED
      BY <3>1, TransferTyped, TypeParts
  <2>4. CASE WriteFails
    <3>1. PICK k \in DOMAIN inflight : Writer!abort_write(k)
      BY <2>4 DEF WriteFails
    <3> QED
      BY <3>1, AbortTyped, TypeParts
  <2> QED
    BY <2>1, <2>2, <2>3, <2>4 DEF NetStep
<1>3. ThreadsTyped' /\ ResponsesTyped' /\ CallsTyped' /\ strand' \in Seq(Posted)
  BY <1>1, TypeParts, ThreadsKept DEF ResponsesTyped, CallsTyped, envUnchanged
<1>4. attempt' \in 1..Endpoints
  BY <1>1, TypeParts, EndpointsAssumption DEF FlagsTyped
<1>5. FlagsTyped'
  BY <1>1, <1>4, TypeParts DEF FlagsTyped, envUnchanged, connVars, boundVars
<1> QED
  BY <1>1, <1>2, <1>3, <1>5, TypePartsAfter

\* The server answers a call that was sent.
LEMMA AnswerTyped ==
  ASSUME TypeInv, NEW i \in DOMAIN wire, ServerAnswers(wire[i])
  PROVE  /\ TypeInv' /\ alive /\ wire[i] \in Sent /\ wire[i] \in Message /\ wire[i].kind = "call"
         /\ wire[i].call \in Calls /\ wire[i].call \notin answered
         /\ answered' = answered \cup {wire[i].call}
         /\ \E e \in BOOLEAN :
              LET r == [id |-> Key(wire[i].id), error |-> e, answers |-> wire[i].call]
              IN  r \in Response /\ responses' = Append(responses, r)
         /\ UNCHANGED <<envUnchanged, writerVars, link, attempt>>
<1>1. wire[i] \in Sent /\ wire[i] \in Message
  BY SentMessages, TypeParts DEF Sent
<1>2. /\ alive /\ wire[i].kind = "call" /\ wire[i].call \notin answered
      /\ answered' = answered \cup {wire[i].call}
      /\ UNCHANGED <<envUnchanged, writerVars, link, attempt>>
  BY DEF ServerAnswers
<1>3. wire[i].call \in Calls /\ Key(wire[i].id) \in 0..(IdCount - 1)
  BY <1>1, <1>2, MessageFields, KeyFacts
<1>4. PICK e \in BOOLEAN :
        responses' = Append(responses, [id |-> Key(wire[i].id), error |-> e, answers |-> wire[i].call])
  BY DEF ServerAnswers
<1>5. [id |-> Key(wire[i].id), error |-> e, answers |-> wire[i].call] \in Response
  BY <1>3 DEF Response
<1>6. responses' \in Seq(Response)
  BY <1>4, <1>5, TypeParts, AppendIs DEF ResponsesTyped
<1>7. ThreadsTyped' /\ ResponsesTyped' /\ CallsTyped' /\ strand' \in Seq(Posted) /\ WriterTyped'
  BY <1>2, <1>3, <1>6, TypeParts, ThreadsKept, WriterKept DEF ResponsesTyped, CallsTyped, envUnchanged
<1>8. FlagsTyped'
  BY <1>2, TypeParts DEF FlagsTyped, envUnchanged, connVars, boundVars
<1> QED
  BY <1>1, <1>2, <1>3, <1>4, <1>5, <1>7, <1>8, TypePartsAfter

\* The connection ends, and responses are lost.
LEMMA EndsTyped ==
  ASSUME TypeInv, ConnectionEnds
  PROVE  /\ TypeInv' /\ alive /\ link' \in Ended
         /\ \E n \in 0..Len(responses) : responses' = SubSeq(responses, 1, n)
         /\ UNCHANGED <<envUnchanged, writerVars, attempt, answered>>
<1>1. /\ alive /\ link' \in Ended
      /\ UNCHANGED <<envUnchanged, writerVars, attempt, answered>>
  BY DEF ConnectionEnds
<1>2. PICK n \in 0..Len(responses) : responses' = SubSeq(responses, 1, n)
  BY DEF ConnectionEnds
<1>3. responses' \in Seq(Response)
  BY <1>2, TypeParts, SplitIs DEF ResponsesTyped
<1>4. ThreadsTyped' /\ ResponsesTyped' /\ CallsTyped' /\ strand' \in Seq(Posted) /\ WriterTyped'
  BY <1>1, <1>3, TypeParts, ThreadsKept, WriterKept DEF ResponsesTyped, CallsTyped, envUnchanged
<1>5. FlagsTyped'
  BY <1>1, TypeParts DEF FlagsTyped, envUnchanged, connVars, boundVars
<1> QED
  BY <1>1, <1>2, <1>4, <1>5, TypePartsAfter

LEMMA InitTyped == ASSUME Init PROVE TypeInv
<1>1. thread \in [Thread -> ThreadState] /\ \A t \in Thread : thread[t].pc = "idle"
  <2>1. [pc |-> "idle", call |-> 0, id |-> 0, sync |-> FALSE] \in ThreadState
    BY HalfAssumption, CountsAssumption DEF ThreadState, Pcs, AtRest, Idx
  <2> QED
    BY <2>1 DEF Init
<1>2. Beginning = {}
  BY <1>1 DEF Beginning
<1>3. ThreadsTyped
  BY <1>1, <1>2, FS_EmptySet, CountsAssumption DEF ThreadsTyped, CountInv, PostNumbered, Init
<1>4. CallsTyped
  <2>1. [st |-> "none", answers |-> 0] \in FutureState
    BY CountsAssumption DEF FutureState
  <2> QED
    BY <2>1 DEF Init, CallsTyped
<1>5. ResponsesTyped /\ WriterTyped /\ strand \in Seq(Posted)
  BY EmptySeq DEF Init, ResponsesTyped, WriterTyped, ChainInv
<1>6. FlagsTyped
  <2>1. calls \in 0..MaxCalls /\ sends \in 0..MaxSends /\ settings \in 0..MaxSettings
    BY CountsAssumption DEF Init
  <2>2. callIdx \in Idx /\ attempt \in 1..Endpoints
    BY FirstIdxAssumption, EndpointsAssumption DEF Init, Idx
  <2> QED
    BY <2>1, <2>2 DEF Init, FlagsTyped
<1> QED
  BY <1>3, <1>4, <1>5, <1>6, TypeParts

LEMMA StutterTyped == ASSUME TypeInv, UNCHANGED vars PROVE TypeInv'
<1>1. ThreadsTyped' /\ WriterTyped'
  BY TypeParts, ThreadsKept, WriterKept DEF vars
<1>2. FlagsTyped' /\ CallsTyped' /\ ResponsesTyped' /\ strand' \in Seq(Posted)
  BY TypeParts DEF FlagsTyped, CallsTyped, ResponsesTyped, vars, connVars, netVars, boundVars
<1> QED
  BY <1>1, <1>2, TypePartsAfter

LEMMA NextTyped == ASSUME TypeInv, [Next]_vars PROVE TypeInv'
<1>1. ASSUME NEW t \in Thread,
             \/ UserStep(t) \/ SpuriousWakeup(t) \/ Send(t) \/ wait_all_responses(t)
             \/ \E sync \in BOOLEAN : StartCall(t, sync)
             \/ \E on \in BOOLEAN : SetTimeout(t, on)
      PROVE  TypeInv'
  BY <1>1, QuietTyped, TakeIndexTyped, PostTyped, SendTyped, StartTyped, SetTimeoutTyped DEF UserStep
<1>2. CASE IoStep
  BY <1>2, WakeTyped, RunPostTyped, RunEraseTyped, RunWriteHandlerTyped, ReadChunkTyped,
     DispatchTyped, ReadErrorTyped DEF IoStep
<1> QED
  BY <1>1, <1>2, DestroyTyped, NetTyped, AnswerTyped, EndsTyped, StutterTyped DEF Next

\* Client.TypeOK for any number of threads, calls and ids.  It takes the counting of
\* the threads that have begun a call (its number, and the id on the wire, exist), and
\* the chain of the writer (its handler finds the buffer it pops).
THEOREM ClientTypes == Spec => []TypeOK
<1>1. Init => TypeInv
  BY InitTyped
<1>2. TypeInv /\ [Next]_vars => TypeInv'
  BY NextTyped
<1>3. TypeInv => TypeOK
  BY DEF TypeInv
<1> QED
  BY <1>1, <1>2, <1>3, PTL DEF Spec
-----------------------------------------------------------------------------
(* The bookkeeping of the calls.                                           *)

\* Calls are numbered in order; the server answers calls that were made.
Numbered ==
  /\ \A c \in Calls : c > calls <=> future[c].st = "none"
  /\ answered \subseteq 1..calls

\* Where the promise of call c may be: with the thread that made it, in the posted
\* handler, in ongoing_calls_.
ThreadHolds(th, t, c) == th[t].pc = "post" /\ th[t].call = c
StrandHolds(q, i, c) == q[i].op = "write" /\ q[i].msg.kind = "call" /\ q[i].msg.call = c
EntryHolds(oc, k, c) == oc[k].call = c /\ ~oc[k].satisfied

\* The promise of call c is in one place at most, ...
OnePlace(th, q, oc, c) ==
  /\ \A t, u \in Thread : ThreadHolds(th, t, c) /\ ThreadHolds(th, u, c) => t = u
  /\ \A i, j \in DOMAIN q : StrandHolds(q, i, c) /\ StrandHolds(q, j, c) => i = j
  /\ \A k, l \in DOMAIN oc : EntryHolds(oc, k, c) /\ EntryHolds(oc, l, c) => k = l
  /\ \A t \in Thread, i \in DOMAIN q : ~(ThreadHolds(th, t, c) /\ StrandHolds(q, i, c))
  /\ \A t \in Thread, k \in DOMAIN oc : ~(ThreadHolds(th, t, c) /\ EntryHolds(oc, k, c))
  /\ \A i \in DOMAIN q, k \in DOMAIN oc : ~(StrandHolds(q, i, c) /\ EntryHolds(oc, k, c))

SomePlace(th, q, oc, c) ==
  \/ \E t \in Thread : ThreadHolds(th, t, c)
  \/ \E i \in DOMAIN q : StrandHolds(q, i, c)
  \/ \E k \in DOMAIN oc : EntryHolds(oc, k, c)

\* ... and in one exactly while its future is pending.
HeldOnce ==
  \A c \in Calls :
    /\ OnePlace(thread, strand, ongoingCalls, c)
    /\ future[c].st # "broken"
    /\ future[c].st = "pending" <=> SomePlace(thread, strand, ongoingCalls, c)

\* The entries are those of numbered calls, and the erasures posted are of answered
\* calls, one for each.
EntryInv ==
  /\ \A k \in DOMAIN ongoingCalls :
       /\ ongoingCalls[k].call \in 1..calls
       /\ ongoingCalls[k].satisfied => future[ongoingCalls[k].call].st # "pending"
  /\ \A i \in DOMAIN strand : strand[i].op = "erase" =>
       strand[i].key \in DOMAIN ongoingCalls /\ ongoingCalls[strand[i].key].satisfied
  /\ \A i, j \in DOMAIN strand :
       strand[i].op = "erase" /\ strand[j].op = "erase" /\ strand[i].key = strand[j].key => i = j

\* The entry of a call whose promise it still holds.
OpenEntry(oc, k, c) == k \in DOMAIN oc /\ oc[k] = [call |-> c, satisfied |-> FALSE]

\* A response on its way finds the entry of its call open, and no other response does.
Transit == pac \o responses
AnswerInv ==
  /\ \A i \in DOMAIN Transit : /\ OpenEntry(ongoingCalls, Transit[i].id, Transit[i].answers)
                               /\ Transit[i].answers \in answered
  /\ \A i, j \in DOMAIN Transit : Transit[i].id = Transit[j].id => i = j

\* A call that was given to the writer and is not answered has its entry open.
SentInv ==
  \A m \in Sent : m.kind = "call" /\ m.call \notin answered => OpenEntry(ongoingCalls, Key(m.id), m.call)

\* The id of call c, as long as ids do not repeat.
IdOf(c) == IF FirstIdx + c < Half THEN FirstIdx + c ELSE FirstIdx + c - IdCount
IdInv ==
  calls <= IdCount =>
    /\ callIdx = IdOf(calls)
    /\ \A t \in Thread : thread[t].pc = "post" => thread[t].id = IdOf(thread[t].call)
    /\ \A i \in DOMAIN strand : strand[i].op = "write" /\ strand[i].msg.kind = "call" =>
         strand[i].msg.id = IdOf(strand[i].msg.call)
    /\ \A k \in DOMAIN ongoingCalls : k = Key(IdOf(ongoingCalls[k].call))

\* While there is a connection to wait for or to read from, run() has work.
IoInv ==
  /\ link = "connecting" => state = "initial"
  /\ link = "up" => state = "initial" \/ reading \/ pac # <<>>

\* The futures hold the answers to their calls.
MatchInv == \A c \in Calls : future[c].st \in {"value", "error"} => future[c].answers = c

EraseInv == \A k \in DOMAIN ongoingCalls : ongoingCalls[k].satisfied =>
              \E i \in DOMAIN strand : strand[i] = [op |-> "erase", key |-> k]

CallInv == Numbered /\ HeldOnce /\ EntryInv /\ AnswerInv /\ SentInv /\ IdInv /\ MatchInv /\ EraseInv

ServeInv == io # "threw" /\ (link \in {"connecting", "up"} => io = "running")

BookInv == CallInv /\ IoInv /\ ServeInv

ClientInv ==
  /\ TypeInv
  /\ ~alive => \A t \in Thread : thread[t].pc \in AtRest
  /\ ResponseMatchesCall /\ AnsweredIsErased /\ IoThreadServes /\ IdsDiffer
  /\ alive /\ ~collided => BookInv

-----------------------------------------------------------------------------
(* Lemmas about ids and sequences.                                         *)

\* Consecutive calls have consecutive ids, and no two of IdCount calls the same.
LEMMA IdFacts ==
  /\ IdOf(0) = FirstIdx
  /\ \A c \in Nat : c + 1 <= IdCount => get_next_call_idx(IdOf(c)) = IdOf(c + 1)
  /\ \A c \in Nat : c <= IdCount => IdOf(c) \in Idx
  /\ \A c, d \in Nat \ {0} : c <= IdCount /\ d <= IdCount /\ Key(IdOf(c)) = Key(IdOf(d)) => c = d
<1> USE HalfAssumption, FirstIdxAssumption
<1>1. IdOf(0) = FirstIdx
  BY DEF IdOf, IdCount
<1>2. \A c \in Nat : c + 1 <= IdCount => get_next_call_idx(IdOf(c)) = IdOf(c + 1)
  BY DEF IdOf, IdCount, get_next_call_idx
<1>3. \A c \in Nat : c <= IdCount => IdOf(c) \in Idx
  BY DEF IdOf, IdCount, Idx
<1>4. ASSUME NEW c \in Nat \ {0}, NEW d \in Nat \ {0}, c <= IdCount, d <= IdCount,
             Key(IdOf(c)) = Key(IdOf(d))
      PROVE  c = d
  <2>1. IdOf(c) = IdOf(d)
    BY <1>3, <1>4, KeyFacts
  <2> QED
    BY <1>4, <2>1 DEF IdOf, IdCount
<1> QED
  BY <1>1, <1>2, <1>3, <1>4

\* The place an element is appended to.
LEMMA Place ==
  ASSUME NEW S, NEW q \in Seq(S), NEW e \in S
  PROVE  \E n : /\ n \notin DOMAIN q /\ DOMAIN Append(q, e) = DOMAIN q \cup {n}
                /\ Append(q, e)[n] = e
                /\ \A i \in DOMAIN q : Append(q, e)[i] = q[i]
<1>1. /\ Len(q) \in Nat /\ DOMAIN q = 1..Len(q) /\ DOMAIN Append(q, e) = 1..(Len(q) + 1)
      /\ Append(q, e)[Len(q) + 1] = e
      /\ \A i \in DOMAIN q : Append(q, e)[i] = q[i]
  BY AppendIs
<1>2. Len(q) + 1 \notin DOMAIN q /\ DOMAIN Append(q, e) = DOMAIN q \cup {Len(q) + 1}
  BY <1>1
<1> QED
  BY <1>1, <1>2

\* The places in strand_ when its first handler was taken.
LEMMA StrandShift ==
  ASSUME strand \in Seq(Posted), strand # <<>>, strand' = Tail(strand)
  PROVE  \E f \in [DOMAIN strand' -> DOMAIN strand \ {1}] :
           /\ \A i \in DOMAIN strand' : strand'[i] = strand[f[i]]
           /\ \A i, j \in DOMAIN strand' : f[i] = f[j] => i = j
           /\ \A j \in DOMAIN strand \ {1} : \E i \in DOMAIN strand' : f[i] = j
<1> DEFINE f == [i \in DOMAIN strand' |-> i + 1]
<1>1. /\ Len(strand) \in Nat \ {0} /\ DOMAIN strand = 1..Len(strand) /\ DOMAIN strand' = 1..(Len(strand) - 1)
      /\ \A i \in DOMAIN strand' : i + 1 \in DOMAIN strand /\ strand'[i] = strand[i + 1]
  BY TailIs
<1>2. f \in [DOMAIN strand' -> DOMAIN strand \ {1}]
  BY <1>1
<1>3. \A i \in DOMAIN strand' : strand'[i] = strand[f[i]]
  BY <1>1
<1>4. \A i, j \in DOMAIN strand' : f[i] = f[j] => i = j
  BY <1>1
<1>5. ASSUME NEW j \in DOMAIN strand \ {1} PROVE \E i \in DOMAIN strand' : f[i] = j
  <2>1. j - 1 \in DOMAIN strand' /\ f[j - 1] = j
    BY <1>1
  <2> QED
    BY <2>1
<1> HIDE DEF f
<1> QED
  BY <1>2, <1>3, <1>4, <1>5
-----------------------------------------------------------------------------
(* Steps that leave the parts of the bookkeeping alone.                    *)

\* The threads that hold a promise stay.
PostsKept ==
  \A t \in Thread : /\ thread'[t].pc = "post" <=> thread[t].pc = "post"
                    /\ thread[t].pc = "post" => thread'[t] = thread[t]

LEMMA HeldKept ==
  ASSUME HeldOnce, PostsKept, UNCHANGED <<strand, ongoingCalls, future>>
  PROVE  HeldOnce'
<1>1. \A c \in Calls, t \in Thread : ThreadHolds(thread', t, c) <=> ThreadHolds(thread, t, c)
  BY DEF PostsKept, ThreadHolds
<1>2. strand' = strand /\ ongoingCalls' = ongoingCalls /\ future' = future
  OBVIOUS
<1> QED
  BY <1>1, <1>2 DEF HeldOnce, OnePlace, SomePlace

LEMMA IdKept ==
  ASSUME IdInv, PostsKept, UNCHANGED <<strand, ongoingCalls, calls, callIdx>>
  PROVE  IdInv'
BY DEF IdInv, PostsKept

LEMMA EntryKept == ASSUME EntryInv, UNCHANGED <<strand, ongoingCalls, calls, future>> PROVE EntryInv'
BY DEF EntryInv

LEMMA AnswerKept ==
  ASSUME AnswerInv, UNCHANGED <<ongoingCalls, answered>>, pac' \o responses' = pac \o responses
  PROVE  AnswerInv'
<1>1. Transit' = Transit
  BY DEF Transit
<1> QED
  BY <1>1 DEF AnswerInv

LEMMA SentKept ==
  ASSUME SentInv, UNCHANGED <<ongoingCalls, answered>>, Sent' \subseteq Sent
  PROVE  SentInv'
BY DEF SentInv

\* All of it.
LEMMA CallKept ==
  ASSUME CallInv, PostsKept, Sent' \subseteq Sent, pac' \o responses' = pac \o responses,
         UNCHANGED <<callIdx, calls, future, strand, ongoingCalls, answered>>
  PROVE  CallInv'
<1>1. HeldOnce' /\ IdInv' /\ EntryInv' /\ AnswerInv' /\ SentInv'
  BY HeldKept, IdKept, EntryKept, AnswerKept, SentKept DEF CallInv
<1>2. Numbered' /\ MatchInv' /\ EraseInv'
  BY DEF CallInv, Numbered, MatchInv, EraseInv
<1> QED
  BY <1>1, <1>2 DEF CallInv

\* A handler that ends while there is a connection leaves work for run().
LEMMA Served == ASSUME EndHandler, IoInv' PROVE ServeInv'
BY DEF EndHandler, HasWork, IoInv, ServeInv

-----------------------------------------------------------------------------
(* The steps that change it.                                               *)

\* Threads that do not hold a promise move.
LEMMA QuietBook ==
  ASSUME TypeInv, BookInv, PostsKept,
         UNCHANGED <<userUnchanged, callIdx, calls, future, strand>>
  PROVE  BookInv'
<1>1. Sent' = Sent /\ pac' \o responses' = pac \o responses
  BY TypeParts, WriterKept DEF userUnchanged, netVars
<1>2. CallInv'
  BY <1>1, CallKept DEF BookInv, userUnchanged, netVars
<1>3. IoInv' /\ ServeInv'
  BY DEF BookInv, IoInv, ServeInv, userUnchanged, connVars, netVars
<1> QED
  BY <1>2, <1>3 DEF BookInv

\* A number, an id and a promise are made.
LEMMA TakeIndexBook ==
  ASSUME TypeInv, BookInv, NEW t \in Thread, TakeIndex(t)
  PROVE  BookInv'
<1> USE DEF BookInv, CallInv
<1> DEFINE n == calls + 1
<1>1. /\ TypeInv'
      /\ n \in Calls /\ calls \in Nat /\ calls' = n
      /\ callIdx' = get_next_call_idx(callIdx)
      /\ future' = [future EXCEPT ![n] = Pending]
      /\ thread'[t].pc = "post" /\ thread'[t].call = n /\ thread'[t].id = callIdx'
      /\ thread[t].pc = "index"
      /\ \A u \in Thread : u # t => thread'[u] = thread[u]
      /\ UNCHANGED <<userUnchanged, timeout, strand, boundVars>>
  BY TakeIndexTyped
<1>2. /\ Sent' = Sent /\ pac' \o responses' = pac \o responses
      /\ ongoingCalls' = ongoingCalls /\ strand' = strand /\ answered' = answered
  BY <1>1, TypeParts, WriterKept DEF userUnchanged, netVars
<1>3. /\ future'[n].st = "pending"
      /\ \A c \in Calls : c # n => future'[c] = future[c]
      /\ future[n].st = "none"
  BY <1>1, TypeParts DEF CallsTyped, Pending, Numbered, Calls
<1>4. Numbered'
  BY <1>1, <1>2, <1>3 DEF Numbered, Calls
<1>5. HeldOnce'
  <2>1. \A c \in Calls, u \in Thread :
          ThreadHolds(thread', u, c) <=> (IF u = t THEN c = n ELSE ThreadHolds(thread, u, c))
    BY <1>1 DEF ThreadHolds
  <2>2. ~SomePlace(thread, strand, ongoingCalls, n)
    BY <1>1, <1>3 DEF HeldOnce
  <2>3. \A c \in Calls : ~ThreadHolds(thread, t, c)
    BY <1>1 DEF ThreadHolds
  <2>4. ASSUME NEW c \in Calls, c # n
        PROVE  /\ OnePlace(thread', strand, ongoingCalls, c)
               /\ SomePlace(thread', strand, ongoingCalls, c) <=> SomePlace(thread, strand, ongoingCalls, c)
    <3>1. \A u \in Thread : ThreadHolds(thread', u, c) <=> ThreadHolds(thread, u, c)
      BY <2>1, <2>3, <2>4
    <3> QED
      BY <3>1 DEF HeldOnce, OnePlace, SomePlace
  <2>5. OnePlace(thread', strand, ongoingCalls, n) /\ SomePlace(thread', strand, ongoingCalls, n)
    BY <1>1, <2>1, <2>2 DEF OnePlace, SomePlace
  <2> QED
    BY <1>2, <1>3, <2>4, <2>5 DEF HeldOnce
<1>6. EntryInv'
  <2>1. \A k \in DOMAIN ongoingCalls : ongoingCalls[k].call \in Calls /\ ongoingCalls[k].call # n
                                       /\ ongoingCalls[k].call \in 1..n
    BY <1>1, CountsAssumption DEF EntryInv, Calls
  <2> QED
    BY <1>1, <1>2, <1>3, <2>1 DEF EntryInv
<1>7. AnswerInv' /\ SentInv'
  BY <1>2, AnswerKept, SentKept
<1>8. IdInv'
  <2> SUFFICES ASSUME calls' <= IdCount PROVE IdInv'
    BY DEF IdInv
  <2>1. calls <= IdCount /\ callIdx' = IdOf(n)
    BY <1>1, IdFacts, KeyFacts DEF IdInv
  <2> QED
    BY <1>1, <1>2, <2>1 DEF IdInv
<1>9. MatchInv' /\ EraseInv'
  BY <1>2, <1>3 DEF MatchInv, EraseInv
<1>10. IoInv' /\ ServeInv'
  BY <1>1 DEF IoInv, ServeInv, userUnchanged, connVars, netVars
<1> QED
  BY <1>4, <1>5, <1>6, <1>7, <1>8, <1>9, <1>10

\* A handler that does not hold a promise is posted.
LEMMA SendBook ==
  ASSUME TypeInv, BookInv, NEW t \in Thread, Send(t)
  PROVE  BookInv'
<1> USE DEF BookInv, CallInv
<1> DEFINE p == [op |-> "write", msg |-> [kind |-> "notification", n |-> sends + 1]]
<1>1. /\ strand' = Append(strand, p) /\ p \in Posted
      /\ UNCHANGED <<userUnchanged, timeout, callIdx, calls, thread, future, settings>>
  BY SendTyped
<1>2. PICK n : /\ n \notin DOMAIN strand /\ DOMAIN strand' = DOMAIN strand \cup {n}
               /\ strand'[n] = p
               /\ \A i \in DOMAIN strand : strand'[i] = strand[i]
  BY <1>1, TypeParts, Place
<1>3. p.op = "write" /\ p.msg.kind # "call"
  OBVIOUS
<1> HIDE DEF p
<1>4. /\ Sent' = Sent /\ pac' \o responses' = pac \o responses
      /\ ongoingCalls' = ongoingCalls /\ answered' = answered /\ calls' = calls /\ future' = future
      /\ thread' = thread /\ callIdx' = callIdx
  BY <1>1, TypeParts, WriterKept DEF userUnchanged, netVars
<1>5. Numbered' /\ MatchInv' /\ AnswerInv' /\ SentInv'
  BY <1>4, AnswerKept, SentKept DEF Numbered, MatchInv
<1>6. HeldOnce'
  <2>1. \A c \in Calls, i \in DOMAIN strand' :
          StrandHolds(strand', i, c) <=> i \in DOMAIN strand /\ StrandHolds(strand, i, c)
    BY <1>2, <1>3 DEF StrandHolds
  <2> QED
    BY <1>2, <1>4, <2>1 DEF HeldOnce, OnePlace, SomePlace
<1>7. EntryInv' /\ EraseInv'
  BY <1>2, <1>3, <1>4 DEF EntryInv, EraseInv
<1>8. IdInv'
  BY <1>2, <1>3, <1>4 DEF IdInv
<1>9. IoInv' /\ ServeInv'
  BY <1>1 DEF IoInv, ServeInv, userUnchanged, connVars, netVars
<1> QED
  BY <1>5, <1>6, <1>7, <1>8, <1>9

\* The promise goes from the thread to the posted handler.
LEMMA PostCallBook ==
  ASSUME TypeInv, BookInv, NEW t \in Thread, PostCall(t)
  PROVE  BookInv'
<1> USE DEF BookInv, CallInv
<1> DEFINE d == thread[t].call
           m == [kind |-> "call", call |-> d, id |-> thread[t].id]
           p == [op |-> "write", msg |-> m]
<1>1. /\ d \in Calls /\ thread[t].id \in Idx
      /\ strand' = Append(strand, p)
      /\ thread[t].pc = "post" /\ thread'[t].pc \in {"posted", "idle"}
      /\ \A u \in Thread : u # t => thread'[u] = thread[u]
      /\ UNCHANGED <<userUnchanged, timeout, callIdx, calls, future, boundVars>>
  BY PostTyped
<1>2. PICK n : /\ n \notin DOMAIN strand /\ DOMAIN strand' = DOMAIN strand \cup {n}
               /\ strand'[n] = p
               /\ \A i \in DOMAIN strand : strand'[i] = strand[i]
  BY <1>1, MadeMessages, TypeParts, Place
<1>3. p.op = "write" /\ p.msg.kind = "call" /\ p.msg.call = d /\ p.msg.id = thread[t].id
  OBVIOUS
<1> HIDE DEF p, m
<1>4. /\ Sent' = Sent /\ pac' \o responses' = pac \o responses
      /\ ongoingCalls' = ongoingCalls /\ answered' = answered /\ calls' = calls /\ future' = future
      /\ callIdx' = callIdx
  BY <1>1, TypeParts, WriterKept DEF userUnchanged, netVars
<1>5. Numbered' /\ MatchInv' /\ AnswerInv' /\ SentInv'
  BY <1>4, AnswerKept, SentKept DEF Numbered, MatchInv
<1>6. HeldOnce'
  <2>1. \A c \in Calls, i \in DOMAIN strand :
          StrandHolds(strand', i, c) <=> StrandHolds(strand, i, c)
    BY <1>2 DEF StrandHolds
  <2>2. \A c \in Calls : StrandHolds(strand', n, c) <=> c = d
    BY <1>2, <1>3 DEF StrandHolds
  <2>3. \A c \in Calls, u \in Thread :
          ThreadHolds(thread', u, c) <=> u # t /\ ThreadHolds(thread, u, c)
    BY <1>1 DEF ThreadHolds
  <2>4. \A c \in Calls : ThreadHolds(thread, t, c) <=> c = d
    BY <1>1 DEF ThreadHolds
  <2>5. ASSUME NEW c \in Calls
        PROVE  /\ OnePlace(thread', strand', ongoingCalls, c)
               /\ SomePlace(thread', strand', ongoingCalls, c) <=> SomePlace(thread, strand, ongoingCalls, c)
    <3>1. OnePlace(thread, strand, ongoingCalls, c)
      BY DEF HeldOnce
    <3>2. CASE c = d
      <4>1. /\ \A u \in Thread : ~ThreadHolds(thread', u, c)
            /\ \A i \in DOMAIN strand : ~StrandHolds(strand', i, c)
            /\ \A k \in DOMAIN ongoingCalls : ~EntryHolds(ongoingCalls, k, c)
            /\ StrandHolds(strand', n, c) /\ ThreadHolds(thread, t, c)
        BY <2>1, <2>2, <2>3, <2>4, <3>1, <3>2 DEF OnePlace
      <4> QED
        BY <1>2, <4>1 DEF OnePlace, SomePlace
    <3>3. CASE c # d
      <4>1. /\ \A u \in Thread : ThreadHolds(thread', u, c) <=> ThreadHolds(thread, u, c)
            /\ \A i \in DOMAIN strand : StrandHolds(strand', i, c) <=> StrandHolds(strand, i, c)
            /\ ~StrandHolds(strand', n, c)
        BY <2>1, <2>2, <2>3, <2>4, <3>3
      <4> QED
        BY <1>2, <3>1, <4>1 DEF OnePlace, SomePlace
    <3> QED
      BY <3>2, <3>3
  <2> QED
    BY <1>4, <2>5 DEF HeldOnce
<1>7. EntryInv' /\ EraseInv'
  BY <1>2, <1>3, <1>4 DEF EntryInv, EraseInv
<1>8. IdInv'
  BY <1>1, <1>2, <1>3, <1>4 DEF IdInv
<1>9. IoInv' /\ ServeInv'
  BY <1>1 DEF IoInv, ServeInv, userUnchanged, connVars, netVars
<1> QED
  BY <1>5, <1>6, <1>7, <1>8, <1>9

\* insert() meets an id in use only when the ids repeat: within one round of call_idx_
\* the same key means the same call, whose promise is in one place.
LEMMA InsertCollides ==
  ASSUME TypeInv, BookInv, RunPost, strand[1].msg.kind = "call",
         Key(strand[1].msg.id) \in DOMAIN ongoingCalls
  PROVE  calls > IdCount
<1> USE DEF BookInv, CallInv
<1> DEFINE m == strand[1].msg
           k == Key(m.id)
<1>1. strand # <<>> /\ strand[1].op = "write" /\ m \in Message
  BY RunPostTyped
<1>2. 1 \in DOMAIN strand /\ m.call \in Calls
  BY <1>1, TypeParts, TailIs, MessageFields
<1>3. StrandHolds(strand, 1, m.call)
  BY <1>1 DEF StrandHolds
<1>4. future[m.call].st = "pending" /\ ~EntryHolds(ongoingCalls, k, m.call)
  BY <1>2, <1>3 DEF HeldOnce, OnePlace, SomePlace
<1>5. ongoingCalls[k].call # m.call
  BY <1>4 DEF EntryHolds, EntryInv
<1>6. calls \in Nat /\ m.call \in Nat \ {0} /\ m.call <= calls /\ ongoingCalls[k].call \in 1..calls
  BY <1>2, <1>4, TypeParts DEF Numbered, Calls, EntryInv, FlagsTyped
<1>7. calls <= IdCount => m.id = IdOf(m.call) /\ k = Key(IdOf(ongoingCalls[k].call))
  BY <1>1, <1>2 DEF IdInv
<1> QED
  BY <1>5, <1>6, <1>7, IdFacts, KeyFacts

\* The promise goes from the posted handler to ongoing_calls_.
LEMMA RunPostBook ==
  ASSUME TypeInv, BookInv, RunPost, ~collided'
  PROVE  BookInv'
<1> USE DEF BookInv, CallInv
<1> DEFINE m == strand[1].msg
           k == Key(m.id)
<1>1. /\ strand # <<>> /\ strand[1].op = "write" /\ m \in Message
      /\ strand' = Tail(strand)
      /\ m.kind = "call" => Insert(m)
      /\ m.kind # "call" => UNCHANGED <<future, ongoingCalls, collided>>
      /\ Sent' \subseteq Sent \cup {m}
      /\ EndHandler
      /\ UNCHANGED <<ioUnchanged, connVars, thread, reading, pac, netVars>>
  BY RunPostTyped
<1>2. PICK f \in [DOMAIN strand' -> DOMAIN strand \ {1}] :
        /\ \A i \in DOMAIN strand' : strand'[i] = strand[f[i]]
        /\ \A i, j \in DOMAIN strand' : f[i] = f[j] => i = j
        /\ \A j \in DOMAIN strand \ {1} : \E i \in DOMAIN strand' : f[i] = j
  BY <1>1, TypeParts, StrandShift
<1>3. 1 \in DOMAIN strand
  BY <1>1, TypeParts, TailIs
<1>4. /\ calls' = calls /\ callIdx' = callIdx /\ thread' = thread /\ answered' = answered
      /\ pac' \o responses' = pac \o responses
  BY <1>1 DEF ioUnchanged, netVars
<1>5. future' = future
  BY <1>1 DEF Insert
<1> HIDE DEF m, k
<1>6. m.kind # "call" => ongoingCalls' = ongoingCalls
  BY <1>1
<1>7. m.kind = "call" =>
        /\ k \notin DOMAIN ongoingCalls /\ DOMAIN ongoingCalls' = DOMAIN ongoingCalls \cup {k}
        /\ ongoingCalls'[k] = [call |-> m.call, satisfied |-> FALSE]
        /\ \A j \in DOMAIN ongoingCalls : ongoingCalls'[j] = ongoingCalls[j]
  BY <1>1 DEF Insert, k
<1>8. m.kind = "call" => m.call \in Calls /\ m.call \in 1..calls /\ SomePlace(thread, strand, ongoingCalls, m.call)
  <2> SUFFICES ASSUME m.kind = "call"
               PROVE  m.call \in Calls /\ m.call \in 1..calls /\ SomePlace(thread, strand, ongoingCalls, m.call)
    OBVIOUS
  <2>1. m.call \in Calls
    BY <1>1, MessageFields
  <2>2. StrandHolds(strand, 1, m.call)
    BY <1>1 DEF StrandHolds, m
  <2>3. SomePlace(thread, strand, ongoingCalls, m.call)
    BY <1>3, <2>2 DEF SomePlace
  <2> QED
    BY <2>1, <2>3, TypeParts DEF HeldOnce, Numbered, Calls, FlagsTyped
<1>9. HeldOnce'
  <2>1. \A c \in Calls, i \in DOMAIN strand' : StrandHolds(strand', i, c) <=> StrandHolds(strand, f[i], c)
    BY <1>2 DEF StrandHolds
  <2>2. \A c \in Calls : StrandHolds(strand, 1, c) <=> m.kind = "call" /\ m.call = c
    BY <1>1 DEF StrandHolds, m
  <2>3. ASSUME NEW c \in Calls
        PROVE  /\ OnePlace(thread, strand', ongoingCalls', c)
               /\ SomePlace(thread, strand', ongoingCalls', c) <=> SomePlace(thread, strand, ongoingCalls, c)
    <3>1. OnePlace(thread, strand, ongoingCalls, c)
      BY DEF HeldOnce
    <3>2. CASE m.kind = "call" /\ m.call = c
      <4>1. /\ \A u \in Thread : ~ThreadHolds(thread, u, c)
            /\ \A i \in DOMAIN strand' : ~StrandHolds(strand', i, c)
            /\ \A j \in DOMAIN ongoingCalls : ~EntryHolds(ongoingCalls, j, c)
        BY <1>2, <1>3, <2>1, <2>2, <3>1, <3>2 DEF OnePlace
      <4>2. /\ \A j \in DOMAIN ongoingCalls' : EntryHolds(ongoingCalls', j, c) <=> j = k
            /\ k \in DOMAIN ongoingCalls'
        BY <1>7, <3>2, <4>1 DEF EntryHolds
      <4> QED
        BY <1>8, <3>2, <4>1, <4>2 DEF OnePlace, SomePlace
    <3>3. CASE ~(m.kind = "call" /\ m.call = c)
      <4>1. ~StrandHolds(strand, 1, c)
        BY <2>2, <3>3
      <4>2. \A j \in DOMAIN ongoingCalls' : EntryHolds(ongoingCalls', j, c) <=>
                                             j \in DOMAIN ongoingCalls /\ EntryHolds(ongoingCalls, j, c)
        BY <1>6, <1>7, <3>3 DEF EntryHolds
      <4>3. DOMAIN ongoingCalls \subseteq DOMAIN ongoingCalls'
        BY <1>6, <1>7
      <4>4. OnePlace(thread, strand', ongoingCalls', c)
        BY <1>2, <2>1, <3>1, <4>2 DEF OnePlace
      <4>5. (\E i \in DOMAIN strand' : StrandHolds(strand', i, c)) <=> (\E i \in DOMAIN strand : StrandHolds(strand, i, c))
        BY <1>2, <2>1, <4>1
      <4> QED
        BY <4>2, <4>3, <4>4, <4>5 DEF SomePlace
    <3> QED
      BY <3>2, <3>3
  <2> QED
    BY <1>4, <1>5, <2>3 DEF HeldOnce
<1>10. EntryInv'
  BY <1>2, <1>4, <1>5, <1>6, <1>7, <1>8 DEF EntryInv
<1>11. \A j, c : OpenEntry(ongoingCalls, j, c) => OpenEntry(ongoingCalls', j, c)
  BY <1>6, <1>7 DEF OpenEntry
<1>12. AnswerInv'
  <2>1. Transit' = Transit
    BY <1>4 DEF Transit
  <2> QED
    BY <1>4, <1>11, <2>1 DEF AnswerInv
<1>13. SentInv'
  <2>1. m.kind = "call" => OpenEntry(ongoingCalls', Key(m.id), m.call)
    BY <1>7 DEF OpenEntry, k
  <2> QED
    BY <1>1, <1>4, <1>11, <2>1 DEF SentInv
<1>14. IdInv'
  <2>1. ASSUME calls <= IdCount, m.kind = "call" PROVE k = Key(IdOf(m.call))
    BY <1>1, <1>3, <2>1 DEF IdInv, k, m
  <2> QED
    BY <1>2, <1>4, <1>6, <1>7, <2>1 DEF IdInv
<1>15. MatchInv' /\ Numbered'
  BY <1>4, <1>5 DEF MatchInv, Numbered
<1>16. EraseInv'
  <2>1. \A j \in DOMAIN ongoingCalls' : ongoingCalls'[j].satisfied =>
          j \in DOMAIN ongoingCalls /\ ongoingCalls[j].satisfied
    BY <1>6, <1>7
  <2>2. \A j : strand[1] # [op |-> "erase", key |-> j]
    BY <1>1
  <2> QED
    BY <1>2, <2>1, <2>2 DEF EraseInv
<1>17. IoInv'
  BY <1>1 DEF IoInv, connVars, netVars
<1>18. ServeInv'
  BY <1>1, <1>17, Served
<1> QED
  BY <1>9, <1>10, <1>12, <1>13, <1>14, <1>15, <1>16, <1>17, <1>18

\* The entry that is erased is that of an answered call: no promise is lost.
LEMMA RunEraseBook ==
  ASSUME TypeInv, BookInv, RunErase
  PROVE  BookInv'
<1> USE DEF BookInv, CallInv
<1> DEFINE k == strand[1].key
<1>1. /\ strand # <<>> /\ strand' = Tail(strand)
      /\ strand[1] = [op |-> "erase", key |-> k]
      /\ ongoingCalls' = [j \in DOMAIN ongoingCalls \ {k} |-> ongoingCalls[j]]
      /\ k \in DOMAIN ongoingCalls /\ ongoingCalls[k].satisfied => future' = future
      /\ EndHandler
      /\ UNCHANGED <<ioUnchanged, connVars, thread, collided, reading, pac, writerVars, netVars>>
  BY RunEraseTyped
<1>2. PICK f \in [DOMAIN strand' -> DOMAIN strand \ {1}] :
        /\ \A i \in DOMAIN strand' : strand'[i] = strand[f[i]]
        /\ \A i, j \in DOMAIN strand' : f[i] = f[j] => i = j
        /\ \A j \in DOMAIN strand \ {1} : \E i \in DOMAIN strand' : f[i] = j
  BY <1>1, TypeParts, StrandShift
<1>3. 1 \in DOMAIN strand
  BY <1>1, TypeParts, TailIs
<1>4. strand[1].op = "erase"
  BY <1>1
<1>5. k \in DOMAIN ongoingCalls /\ ongoingCalls[k].satisfied
  BY <1>3, <1>4 DEF EntryInv
<1>6. /\ calls' = calls /\ callIdx' = callIdx /\ thread' = thread /\ answered' = answered
      /\ pac' \o responses' = pac \o responses /\ future' = future /\ Sent' = Sent
  BY <1>1, <1>5, TypeParts, WriterKept DEF ioUnchanged, netVars
<1>7. /\ DOMAIN ongoingCalls' = DOMAIN ongoingCalls \ {k}
      /\ \A j \in DOMAIN ongoingCalls' : ongoingCalls'[j] = ongoingCalls[j]
  BY <1>1
<1>8. HeldOnce'
  <2>1. \A c \in Calls, i \in DOMAIN strand' : StrandHolds(strand', i, c) <=> StrandHolds(strand, f[i], c)
    BY <1>2 DEF StrandHolds
  <2>2. \A c \in Calls : ~StrandHolds(strand, 1, c)
    BY <1>4 DEF StrandHolds
  <2>3. \A c \in Calls : ~EntryHolds(ongoingCalls, k, c)
    BY <1>5 DEF EntryHolds
  <2>4. \A c \in Calls, j \in DOMAIN ongoingCalls' : EntryHolds(ongoingCalls', j, c) <=> EntryHolds(ongoingCalls, j, c)
    BY <1>7 DEF EntryHolds
  <2>5. ASSUME NEW c \in Calls
        PROVE  /\ OnePlace(thread, strand', ongoingCalls', c)
               /\ SomePlace(thread, strand', ongoingCalls', c) <=> SomePlace(thread, strand, ongoingCalls, c)
    <3>1. OnePlace(thread, strand, ongoingCalls, c)
      BY DEF HeldOnce
    <3>2. OnePlace(thread, strand', ongoingCalls', c)
      BY <1>2, <1>7, <2>1, <2>4, <3>1 DEF OnePlace
    <3>3. (\E i \in DOMAIN strand' : StrandHolds(strand', i, c)) <=> (\E i \in DOMAIN strand : StrandHolds(strand, i, c))
      BY <1>2, <2>1, <2>2
    <3>4. (\E j \in DOMAIN ongoingCalls' : EntryHolds(ongoingCalls', j, c))
            <=> (\E j \in DOMAIN ongoingCalls : EntryHolds(ongoingCalls, j, c))
      BY <1>7, <2>3, <2>4
    <3> QED
      BY <3>2, <3>3, <3>4 DEF SomePlace
  <2> QED
    BY <1>6, <2>5 DEF HeldOnce
<1>9. EntryInv'
  <2>1. \A i \in DOMAIN strand' : strand'[i].op = "erase" => strand'[i].key \in DOMAIN ongoingCalls \ {k}
    BY <1>2, <1>3, <1>4 DEF EntryInv
  <2> QED
    BY <1>2, <1>6, <1>7, <2>1 DEF EntryInv
<1>10. \A j, c : OpenEntry(ongoingCalls, j, c) => OpenEntry(ongoingCalls', j, c)
  <2>1. \A c : [call |-> c, satisfied |-> FALSE].satisfied = FALSE
    OBVIOUS
  <2> QED
    BY <1>5, <1>7, <2>1 DEF OpenEntry
<1>11. AnswerInv'
  <2>1. Transit' = Transit
    BY <1>6 DEF Transit
  <2> QED
    BY <1>6, <1>10, <2>1 DEF AnswerInv
<1>12. SentInv'
  BY <1>6, <1>10 DEF SentInv
<1>13. IdInv'
  BY <1>2, <1>6, <1>7 DEF IdInv
<1>14. MatchInv' /\ Numbered'
  BY <1>6 DEF MatchInv, Numbered
<1>15. EraseInv'
  <2>1. ASSUME NEW j \in DOMAIN ongoingCalls', ongoingCalls'[j].satisfied
        PROVE  \E i \in DOMAIN strand' : strand'[i] = [op |-> "erase", key |-> j]
    <3>1. PICK i \in DOMAIN strand : strand[i] = [op |-> "erase", key |-> j]
      BY <1>7, <2>1 DEF EraseInv
    <3>2. i # 1
      BY <1>1, <1>7, <3>1
    <3> QED
      BY <1>2, <3>1, <3>2
  <2> QED
    BY <2>1 DEF EraseInv
<1>16. IoInv'
  BY <1>1 DEF IoInv, connVars, netVars
<1>17. ServeInv'
  BY <1>1, <1>16, Served
<1> QED
  BY <1>8, <1>9, <1>11, <1>12, <1>13, <1>14, <1>15, <1>16, <1>17

\* Responses on their way, in pieces.
LEMMA TransitSeq == ASSUME TypeInv PROVE Transit \in Seq(Response)
BY TypeParts, ConcatProperties DEF ResponsesTyped, Transit

\* The first response is taken out of the way.
LEMMA TransitTail ==
  ASSUME TypeInv, pac # <<>>, pac' = Tail(pac), responses' = responses
  PROVE  /\ Transit # <<>> /\ Transit' = Tail(Transit) /\ Transit[1] = pac[1]
<1>1. pac \in Seq(Response) /\ responses \in Seq(Response)
  BY TypeParts DEF ResponsesTyped
<1> DEFINE s == pac \o responses
<1>2. /\ s \in Seq(Response) /\ Len(s) = Len(pac) + Len(responses)
      /\ \A i \in 1..Len(s) : s[i] = IF i <= Len(pac) THEN pac[i] ELSE responses[i - Len(pac)]
  BY <1>1, ConcatProperties
<1>3. /\ Len(pac) \in Nat \ {0} /\ Len(responses) \in Nat /\ Len(Tail(pac)) = Len(pac) - 1
      /\ Tail(pac) \in Seq(Response)
      /\ \A i \in 1..(Len(pac) - 1) : Tail(pac)[i] = pac[i + 1]
  BY <1>1, TailIs, LenProperties
<1> HIDE DEF s
<1>4. s # <<>> /\ s[1] = pac[1]
  BY <1>2, <1>3
<1>5. /\ Len(Tail(s)) = Len(s) - 1 /\ Tail(s) \in Seq(Response)
      /\ \A i \in 1..(Len(s) - 1) : Tail(s)[i] = s[i + 1]
  BY <1>2, <1>4, TailIs
<1> DEFINE w == Tail(pac) \o responses
<1>6. /\ w \in Seq(Response) /\ Len(w) = Len(s) - 1
      /\ \A i \in 1..Len(w) : w[i] = IF i <= Len(pac) - 1 THEN Tail(pac)[i] ELSE responses[i - (Len(pac) - 1)]
  BY <1>1, <1>2, <1>3, ConcatProperties
<1> HIDE DEF w
<1>7. \A i \in 1..Len(w) : w[i] = Tail(s)[i]
  <2> TAKE i \in 1..Len(w)
  <2>0. Len(s) \in Nat /\ i + 1 \in 1..Len(s) /\ i \in 1..(Len(s) - 1)
    BY <1>2, <1>3, <1>6
  <2>1. CASE i <= Len(pac) - 1
    <3>1. i \in 1..(Len(pac) - 1) /\ i + 1 <= Len(pac)
      BY <1>3, <2>1
    <3> QED
      BY <1>2, <1>3, <1>5, <1>6, <2>0, <2>1, <3>1
  <2>2. CASE ~(i <= Len(pac) - 1)
    <3>1. ~(i + 1 <= Len(pac)) /\ (i + 1) - Len(pac) = i - (Len(pac) - 1)
      BY <1>3, <2>2
    <3> QED
      BY <1>2, <1>5, <1>6, <2>0, <2>2, <3>1
  <2> QED
    BY <2>1, <2>2
<1>8. w = Tail(s)
  BY <1>5, <1>6, <1>7, SeqEqual
<1> QED
  BY <1>4, <1>8 DEF Transit, s, w

\* A response joins the others.
LEMMA TransitAppend ==
  ASSUME TypeInv, NEW r \in Response, responses' = Append(responses, r), pac' = pac
  PROVE  Transit' = Append(Transit, r)
<1>1. pac \in Seq(Response) /\ responses \in Seq(Response)
  BY TypeParts DEF ResponsesTyped
<1>2. pac \o Append(responses, r) = Append(pac \o responses, r)
  BY <1>1
<1> QED
  BY <1>2 DEF Transit

\* The last responses are lost.
LEMMA TransitCut ==
  ASSUME TypeInv, NEW n \in 0..Len(responses), responses' = SubSeq(responses, 1, n), pac' = pac
  PROVE  DOMAIN Transit' \subseteq DOMAIN Transit /\ \A i \in DOMAIN Transit' : Transit'[i] = Transit[i]
<1>1. pac \in Seq(Response) /\ responses \in Seq(Response)
  BY TypeParts DEF ResponsesTyped
<1>2. /\ responses' \in Seq(Response) /\ Len(responses') = n /\ \A i \in 1..n : responses'[i] = responses[i]
      /\ Len(pac) \in Nat /\ Len(responses) \in Nat
  BY <1>1, SplitIs, LenProperties
<1>3. /\ DOMAIN Transit = 1..(Len(pac) + Len(responses))
      /\ \A i \in DOMAIN Transit : Transit[i] = IF i <= Len(pac) THEN pac[i] ELSE responses[i - Len(pac)]
  BY <1>1, ConcatProperties, LenProperties DEF Transit
<1>4. /\ DOMAIN Transit' = 1..(Len(pac) + n)
      /\ \A i \in DOMAIN Transit' : Transit'[i] = IF i <= Len(pac) THEN pac[i] ELSE responses'[i - Len(pac)]
  BY <1>1, <1>2, ConcatProperties, LenProperties DEF Transit
<1>5. \A i \in 1..(Len(pac) + n) : ~(i <= Len(pac)) => i - Len(pac) \in 1..n
  BY <1>2
<1>6. DOMAIN Transit' \subseteq DOMAIN Transit
  BY <1>2, <1>3, <1>4
<1>7. ASSUME NEW i \in DOMAIN Transit' PROVE Transit'[i] = Transit[i]
  <2>1. CASE i <= Len(pac)
    BY <1>3, <1>4, <1>6, <2>1
  <2>2. CASE ~(i <= Len(pac))
    <3>1. responses'[i - Len(pac)] = responses[i - Len(pac)]
      BY <1>2, <1>4, <1>5, <2>2
    <3> QED
      BY <1>3, <1>4, <1>6, <2>2, <3>1
  <2> QED
    BY <2>1, <2>2
<1> QED
  BY <1>6, <1>7

\* A response finds the entry of its own call open: it satisfies that promise, once, and
\* posts the erasure.
LEMMA DispatchIs ==
  ASSUME TypeInv, BookInv, DispatchResponse
  PROVE  /\ OpenEntry(ongoingCalls, pac[1].id, pac[1].answers)
         /\ pac[1].answers \in answered /\ pac[1].answers \in Calls /\ pac[1].id \in 0..(IdCount - 1)
         /\ Transit # <<>> /\ Transit' = Tail(Transit) /\ Transit[1] = pac[1] /\ 1 \in DOMAIN Transit
         /\ ~Throws(pac[1])
         /\ strand' = Append(strand, [op |-> "erase", key |-> pac[1].id])
         /\ DOMAIN ongoingCalls' = DOMAIN ongoingCalls
         /\ ongoingCalls'[pac[1].id].call = pac[1].answers /\ ongoingCalls'[pac[1].id].satisfied
         /\ \A j \in DOMAIN ongoingCalls : j # pac[1].id => ongoingCalls'[j] = ongoingCalls[j]
         /\ future[pac[1].answers].st = "pending"
         /\ future'[pac[1].answers].st \in {"value", "error"}
         /\ future'[pac[1].answers].answers = pac[1].answers
         /\ \A c \in Calls : c # pac[1].answers => future'[c] = future[c]
<1> USE DEF BookInv, CallInv
<1> DEFINE r == pac[1]
           k == r.id
           d == r.answers
<1>1. /\ pac # <<>> /\ pac' = Tail(pac) /\ r \in Response
      /\ dispatch_response(r)
      /\ reading' = (pac' = <<>> /\ ~Throws(r))
      /\ io' = IF Throws(r) THEN "threw" ELSE "running"
      /\ UNCHANGED <<ioUnchanged, connVars, thread, collided, writerVars, netVars>>
  BY DispatchTyped
<1>2. /\ calls' = calls /\ callIdx' = callIdx /\ thread' = thread /\ answered' = answered
      /\ Sent' = Sent /\ responses' = responses /\ link' = link /\ state' = state
  BY <1>1, TypeParts, WriterKept DEF ioUnchanged, netVars, connVars
<1>3. Transit # <<>> /\ Transit' = Tail(Transit) /\ Transit[1] = r
  BY <1>1, <1>2, TransitTail
<1>4. 1 \in DOMAIN Transit
  BY <1>3, TransitSeq, TailIs
<1>5. OpenEntry(ongoingCalls, k, d) /\ d \in answered /\ d \in Calls /\ k \in 0..(IdCount - 1)
  BY <1>1, <1>3, <1>4 DEF AnswerInv, Response
<1>6. ~Throws(r)
  BY <1>5 DEF OpenEntry, Throws
<1> DEFINE e == [op |-> "erase", key |-> k]
<1>7. /\ ongoingCalls' = [j \in DOMAIN ongoingCalls \cup {k} |->
                            IF j = k THEN [ongoingCalls[k] EXCEPT !.satisfied = TRUE] ELSE ongoingCalls[j]]
      /\ future' = IF ongoingCalls[k].call = 0 THEN future
                   ELSE [future EXCEPT ![ongoingCalls[k].call] =
                           [st |-> IF r.error THEN "error" ELSE "value", answers |-> r.answers]]
      /\ strand' = Append(strand, e)
  <2>1. k \in DOMAIN ongoingCalls
    BY <1>5 DEF OpenEntry
  <2> QED
    BY <1>1, <1>6, <2>1, Zenon DEF dispatch_response
<1>8. /\ DOMAIN ongoingCalls' = DOMAIN ongoingCalls /\ k \in DOMAIN ongoingCalls
      /\ ongoingCalls'[k].call = d /\ ongoingCalls'[k].satisfied
      /\ ongoingCalls[k].call = d /\ ~ongoingCalls[k].satisfied
      /\ \A j \in DOMAIN ongoingCalls : j # k => ongoingCalls'[j] = ongoingCalls[j]
  <2>1. /\ DOMAIN ongoingCalls' = DOMAIN ongoingCalls /\ k \in DOMAIN ongoingCalls
        /\ ongoingCalls'[k] = [ongoingCalls[k] EXCEPT !.satisfied = TRUE]
        /\ \A j \in DOMAIN ongoingCalls : j # k => ongoingCalls'[j] = ongoingCalls[j]
    BY <1>5, <1>7 DEF OpenEntry
  <2>2. ongoingCalls[k] = [call |-> d, satisfied |-> FALSE]
    BY <1>5 DEF OpenEntry
  <2> QED
    BY <2>1, <2>2
<1>9. /\ future'[d].st \in {"value", "error"} /\ future'[d].answers = d
      /\ \A c \in Calls : c # d => future'[c] = future[c]
  BY <1>5, <1>7, <1>8, TypeParts, CountsAssumption DEF CallsTyped, Calls
<1>10. future[d].st = "pending"
  <2>1. EntryHolds(ongoingCalls, k, d)
    BY <1>8 DEF EntryHolds
  <2> QED
    BY <1>5, <1>8, <2>1 DEF HeldOnce, SomePlace
<1> QED
  BY <1>3, <1>4, <1>5, <1>6, <1>7, <1>8, <1>9, <1>10

LEMMA DispatchBook ==
  ASSUME TypeInv, BookInv, DispatchResponse
  PROVE  BookInv'
<1> USE DEF BookInv, CallInv
<1> DEFINE r == pac[1]
           k == r.id
           d == r.answers
           e == [op |-> "erase", key |-> k]
<1>1. /\ pac' = Tail(pac) /\ r \in Response
      /\ reading' = (pac' = <<>> /\ ~Throws(r))
      /\ io' = IF Throws(r) THEN "threw" ELSE "running"
      /\ UNCHANGED <<ioUnchanged, connVars, thread, collided, writerVars, netVars>>
  BY DispatchTyped
<1>2. /\ calls' = calls /\ callIdx' = callIdx /\ thread' = thread /\ answered' = answered
      /\ Sent' = Sent /\ responses' = responses /\ link' = link /\ state' = state
  BY <1>1, TypeParts, WriterKept DEF ioUnchanged, netVars, connVars
<1>3. Transit # <<>> /\ Transit' = Tail(Transit) /\ Transit[1] = r
  BY DispatchIs
<1>4. 1 \in DOMAIN Transit
  BY DispatchIs
<1>5. OpenEntry(ongoingCalls, k, d) /\ d \in answered /\ d \in Calls /\ k \in 0..(IdCount - 1)
  BY DispatchIs
<1>6. ~Throws(r)
  BY DispatchIs
<1>7. strand' = Append(strand, e)
  BY DispatchIs
<1>8. /\ DOMAIN ongoingCalls' = DOMAIN ongoingCalls /\ k \in DOMAIN ongoingCalls
      /\ ongoingCalls'[k].call = d /\ ongoingCalls'[k].satisfied
      /\ ongoingCalls[k].call = d /\ ~ongoingCalls[k].satisfied
      /\ \A j \in DOMAIN ongoingCalls : j # k => ongoingCalls'[j] = ongoingCalls[j]
  BY DispatchIs DEF OpenEntry
<1>9. /\ future'[d].st \in {"value", "error"} /\ future'[d].answers = d
      /\ \A c \in Calls : c # d => future'[c] = future[c]
  BY DispatchIs
<1>10. PICK n : /\ n \notin DOMAIN strand /\ DOMAIN strand' = DOMAIN strand \cup {n}
                /\ strand'[n] = e
                /\ \A i \in DOMAIN strand : strand'[i] = strand[i]
  <2>1. strand \in Seq(Posted) /\ e \in Posted
    BY <1>5, MadeMessages, TypeParts
  <2> QED
    BY <1>7, <2>1, Place
<1>11. e.op = "erase" /\ e.key = k
  OBVIOUS
<1> HIDE DEF r, k, d, e
<1>12. /\ future[d].st = "pending"
       /\ \A u \in Thread : ~ThreadHolds(thread, u, d)
       /\ \A i \in DOMAIN strand : ~StrandHolds(strand, i, d)
       /\ \A j \in DOMAIN ongoingCalls : j # k => ~EntryHolds(ongoingCalls, j, d)
  <2>1. EntryHolds(ongoingCalls, k, d)
    BY <1>8 DEF EntryHolds
  <2> QED
    BY <1>5, <1>8, <2>1 DEF HeldOnce, OnePlace, SomePlace
<1>13. Numbered'
  BY <1>2, <1>5, <1>9, <1>12 DEF Numbered
<1>14. HeldOnce'
  <2>1. \A c \in Calls, i \in DOMAIN strand : StrandHolds(strand', i, c) <=> StrandHolds(strand, i, c)
    BY <1>10 DEF StrandHolds
  <2>2. \A c \in Calls : ~StrandHolds(strand', n, c)
    BY <1>10, <1>11 DEF StrandHolds
  <2>3. \A c \in Calls, j \in DOMAIN ongoingCalls :
          EntryHolds(ongoingCalls', j, c) <=> j # k /\ EntryHolds(ongoingCalls, j, c)
    BY <1>8 DEF EntryHolds
  <2>4. \A c \in Calls : EntryHolds(ongoingCalls, k, c) <=> c = d
    BY <1>8 DEF EntryHolds
  <2>5. ASSUME NEW c \in Calls
        PROVE  /\ OnePlace(thread, strand', ongoingCalls', c)
               /\ c # d => (SomePlace(thread, strand', ongoingCalls', c) <=> SomePlace(thread, strand, ongoingCalls, c))
               /\ c = d => ~SomePlace(thread, strand', ongoingCalls', c)
    <3>1. OnePlace(thread, strand, ongoingCalls, c)
      BY DEF HeldOnce
    <3>2. OnePlace(thread, strand', ongoingCalls', c)
      BY <1>8, <1>10, <2>1, <2>2, <2>3, <3>1 DEF OnePlace
    <3>3. c = d => ~SomePlace(thread, strand', ongoingCalls', c)
      BY <1>8, <1>10, <1>12, <2>1, <2>2, <2>3 DEF SomePlace
    <3>4. ASSUME c # d
          PROVE  SomePlace(thread, strand', ongoingCalls', c) <=> SomePlace(thread, strand, ongoingCalls, c)
      <4>1. \A j \in DOMAIN ongoingCalls : EntryHolds(ongoingCalls', j, c) <=> EntryHolds(ongoingCalls, j, c)
        BY <2>3, <2>4, <3>4
      <4> QED
        BY <1>8, <1>10, <2>1, <2>2, <4>1 DEF SomePlace
    <3> QED
      BY <3>2, <3>3, <3>4
  <2> QED
    BY <1>2, <1>9, <2>5 DEF HeldOnce
<1>15. EntryInv'
  <2>1. \A j \in DOMAIN ongoingCalls' :
          /\ ongoingCalls'[j].call \in 1..calls
          /\ ongoingCalls'[j].satisfied => future'[ongoingCalls'[j].call].st # "pending"
    <3>1. \A j \in DOMAIN ongoingCalls : ongoingCalls[j].call \in Calls
      BY TypeParts, CountsAssumption DEF EntryInv, FlagsTyped, Calls
    <3> QED
      BY <1>8, <1>9, <3>1 DEF EntryInv
  <2>2. \A i \in DOMAIN strand' : strand'[i].op = "erase" =>
          strand'[i].key \in DOMAIN ongoingCalls' /\ ongoingCalls'[strand'[i].key].satisfied
    BY <1>8, <1>10, <1>11 DEF EntryInv
  <2>3. \A i \in DOMAIN strand : strand[i].op = "erase" => strand[i].key # k
    BY <1>8 DEF EntryInv
  <2>4. \A i, j \in DOMAIN strand' :
          strand'[i].op = "erase" /\ strand'[j].op = "erase" /\ strand'[i].key = strand'[j].key => i = j
    BY <1>10, <1>11, <2>3 DEF EntryInv
  <2> QED
    BY <1>2, <2>1, <2>2, <2>4 DEF EntryInv
<1>16. \A j, c : j # k /\ OpenEntry(ongoingCalls, j, c) => OpenEntry(ongoingCalls', j, c)
  BY <1>8 DEF OpenEntry
<1>17. AnswerInv'
  <2>1. \A i \in DOMAIN Transit' : /\ i \in Nat /\ i + 1 \in DOMAIN Transit \ {1}
                                   /\ Transit'[i] = Transit[i + 1]
    <3>1. /\ Len(Transit) \in Nat \ {0} /\ DOMAIN Transit' = 1..(Len(Transit) - 1)
          /\ \A i \in DOMAIN Transit' : i + 1 \in DOMAIN Transit /\ Transit'[i] = Transit[i + 1]
      BY <1>3, TransitSeq, TailIs
    <3> QED
      BY <3>1
  <2>2. \A i \in DOMAIN Transit \ {1} : Transit[i].id # k
    BY <1>3, <1>4 DEF AnswerInv, k
  <2>3. \A i \in DOMAIN Transit' : /\ OpenEntry(ongoingCalls', Transit'[i].id, Transit'[i].answers)
                                   /\ Transit'[i].answers \in answered'
    BY <1>2, <1>16, <2>1, <2>2 DEF AnswerInv
  <2>4. \A i, j \in DOMAIN Transit' : Transit'[i].id = Transit'[j].id => i = j
    BY <2>1 DEF AnswerInv
  <2> QED
    BY <2>3, <2>4 DEF AnswerInv
<1>18. SentInv'
  <2>1. ASSUME NEW m \in Sent, m.kind = "call", m.call \notin answered
        PROVE  OpenEntry(ongoingCalls', Key(m.id), m.call)
    <3>1. OpenEntry(ongoingCalls, Key(m.id), m.call)
      BY <2>1 DEF SentInv
    <3>2. Key(m.id) # k
      BY <1>5, <2>1, <3>1 DEF OpenEntry
    <3> QED
      BY <1>16, <3>1, <3>2
  <2> QED
    BY <1>2, <2>1 DEF SentInv
<1>19. IdInv'
  <2>1. \A j \in DOMAIN ongoingCalls : ongoingCalls'[j].call = ongoingCalls[j].call
    BY <1>8
  <2> QED
    BY <1>2, <1>8, <1>10, <1>11, <2>1 DEF IdInv
<1>20. MatchInv'
  BY <1>9 DEF MatchInv
<1>21. EraseInv'
  <2>1. ASSUME NEW j \in DOMAIN ongoingCalls, j # k, ongoingCalls[j].satisfied
        PROVE  \E i \in DOMAIN strand' : strand'[i] = [op |-> "erase", key |-> j]
    BY <1>10, <2>1 DEF EraseInv
  <2>2. \E i \in DOMAIN strand' : strand'[i] = [op |-> "erase", key |-> k]
    BY <1>10 DEF e
  <2> QED
    BY <1>8, <2>1, <2>2 DEF EraseInv
<1>22. IoInv' /\ ServeInv'
  BY <1>1, <1>2, <1>6 DEF IoInv, ServeInv
<1> QED
  BY <1>13, <1>14, <1>15, <1>17, <1>18, <1>19, <1>20, <1>21, <1>22

\* The server answers a call once: the response finds the entry open.
LEMMA AnswerBook ==
  ASSUME TypeInv, BookInv, NEW i \in DOMAIN wire, ServerAnswers(wire[i])
  PROVE  BookInv'
<1> USE DEF BookInv, CallInv
<1> DEFINE m == wire[i]
<1>1. /\ m \in Sent /\ m \in Message /\ m.kind = "call" /\ m.call \in Calls /\ m.call \notin answered
      /\ answered' = answered \cup {m.call}
      /\ UNCHANGED <<envUnchanged, writerVars, link, attempt>>
  BY AnswerTyped
<1>2. PICK e \in BOOLEAN :
        LET r == [id |-> Key(m.id), error |-> e, answers |-> m.call]
        IN  r \in Response /\ responses' = Append(responses, r)
  BY AnswerTyped
<1> DEFINE r == [id |-> Key(m.id), error |-> e, answers |-> m.call]
<1>3. r \in Response /\ r.id = Key(m.id) /\ r.answers = m.call /\ responses' = Append(responses, r)
  BY <1>2
<1> HIDE DEF r, m
<1>4. /\ calls' = calls /\ callIdx' = callIdx /\ thread' = thread /\ ongoingCalls' = ongoingCalls
      /\ strand' = strand /\ future' = future /\ pac' = pac /\ Sent' = Sent
  BY <1>1, TypeParts, WriterKept DEF envUnchanged
<1>5. OpenEntry(ongoingCalls, Key(m.id), m.call)
  BY <1>1 DEF SentInv
<1>6. Numbered'
  <2>1. m.call \in 1..calls
    BY <1>5 DEF OpenEntry, EntryInv
  <2> QED
    BY <1>1, <1>4, <2>1 DEF Numbered
<1>7. PICK n : /\ n \notin DOMAIN Transit /\ DOMAIN Transit' = DOMAIN Transit \cup {n}
               /\ Transit'[n] = r
               /\ \A j \in DOMAIN Transit : Transit'[j] = Transit[j]
  <2>1. Transit' = Append(Transit, r) /\ Transit \in Seq(Response)
    BY <1>3, <1>4, TransitAppend, TransitSeq
  <2> QED
    BY <1>3, <2>1, Place
<1>8. AnswerInv'
  <2>1. \A j \in DOMAIN Transit : Transit[j].id # Key(m.id)
    <3> SUFFICES ASSUME NEW j \in DOMAIN Transit, Transit[j].id = Key(m.id) PROVE FALSE
      OBVIOUS
    <3>1. OpenEntry(ongoingCalls, Key(m.id), Transit[j].answers) /\ Transit[j].answers \in answered
      BY DEF AnswerInv
    <3>2. Transit[j].answers = m.call
      BY <1>5, <3>1 DEF OpenEntry
    <3> QED
      BY <1>1, <3>1, <3>2
  <2>2. \A j \in DOMAIN Transit' : /\ OpenEntry(ongoingCalls, Transit'[j].id, Transit'[j].answers)
                                   /\ Transit'[j].answers \in answered'
    BY <1>1, <1>3, <1>5, <1>7 DEF AnswerInv
  <2>3. \A j, l \in DOMAIN Transit' : Transit'[j].id = Transit'[l].id => j = l
    BY <1>3, <1>7, <2>1 DEF AnswerInv
  <2> QED
    BY <1>4, <2>2, <2>3 DEF AnswerInv
<1>9. SentInv'
  BY <1>1, <1>4 DEF SentInv
<1>10. PostsKept
  BY <1>4 DEF PostsKept
<1>11. HeldOnce' /\ IdInv' /\ EntryInv'
  BY <1>4, <1>10, HeldKept, IdKept, EntryKept
<1>12. MatchInv' /\ EraseInv'
  BY <1>4 DEF MatchInv, EraseInv
<1>13. IoInv' /\ ServeInv'
  BY <1>1 DEF IoInv, ServeInv, envUnchanged, connVars
<1> QED
  BY <1>6, <1>8, <1>9, <1>11, <1>12, <1>13

LEMMA EndsBook ==
  ASSUME TypeInv, BookInv, ConnectionEnds
  PROVE  BookInv'
<1> USE DEF BookInv, CallInv
<1>1. link' \in Ended /\ UNCHANGED <<envUnchanged, writerVars, attempt, answered>>
  BY EndsTyped
<1>2. PICK n \in 0..Len(responses) : responses' = SubSeq(responses, 1, n)
  BY EndsTyped
<1>3. /\ calls' = calls /\ callIdx' = callIdx /\ thread' = thread /\ ongoingCalls' = ongoingCalls
      /\ strand' = strand /\ future' = future /\ pac' = pac /\ Sent' = Sent /\ answered' = answered
  BY <1>1, TypeParts, WriterKept DEF envUnchanged
<1>4. DOMAIN Transit' \subseteq DOMAIN Transit /\ \A i \in DOMAIN Transit' : Transit'[i] = Transit[i]
  BY <1>2, <1>3, TransitCut
<1>5. AnswerInv'
  BY <1>3, <1>4 DEF AnswerInv
<1>6. PostsKept
  BY <1>3 DEF PostsKept
<1>7. HeldOnce' /\ IdInv' /\ EntryInv' /\ SentInv'
  BY <1>3, <1>6, HeldKept, IdKept, EntryKept, SentKept
<1>8. MatchInv' /\ EraseInv' /\ Numbered'
  BY <1>3 DEF MatchInv, EraseInv, Numbered
<1>9. IoInv' /\ ServeInv'
  BY <1>1 DEF IoInv, ServeInv, envUnchanged, connVars, Ended
<1> QED
  BY <1>5, <1>7, <1>8, <1>9

\* The other steps of the io thread and of the network.
LEMMA WakeBook == ASSUME TypeInv, BookInv, Connected \/ ConnectError PROVE BookInv'
<1> USE DEF BookInv
<1>1. /\ link # "connecting"
      /\ \A t \in Thread : /\ thread[t].pc = "post" <=> thread'[t].pc = "post"
                           /\ thread[t].pc = "post" => thread'[t] = thread[t]
      /\ UNCHANGED <<ioUnchanged, future, strand, ongoingCalls, collided, pac, writerVars, netVars>>
  BY WakeTyped
<1>2. PostsKept
  BY <1>1 DEF PostsKept
<1>3. /\ Sent' = Sent /\ pac' \o responses' = pac \o responses
      /\ UNCHANGED <<callIdx, calls, future, strand, ongoingCalls, answered>>
  BY <1>1, TypeParts, WriterKept DEF ioUnchanged, netVars
<1>4. CallInv'
  BY <1>2, <1>3, CallKept
<1>5. IoInv' /\ EndHandler
  <2>1. CASE Connected
    BY <1>1, <2>1 DEF IoInv, Connected, netVars
  <2>2. CASE ConnectError
    BY <1>1, <2>2 DEF IoInv, ConnectError, netVars
  <2> QED
    BY <2>1, <2>2
<1> QED
  BY <1>4, <1>5, Served

LEMMA OtherBook ==
  ASSUME TypeInv, BookInv, RunWriteHandler \/ ReadChunk \/ ReadError \/ NetStep
  PROVE  BookInv'
<1> USE DEF BookInv
<1>1. /\ thread' = thread /\ Sent' \subseteq Sent
      /\ UNCHANGED <<callIdx, calls, future, strand, ongoingCalls, answered>>
  <2>1. CASE RunWriteHandler
    BY <2>1, RunWriteHandlerTyped DEF ioUnchanged, netVars
  <2>2. CASE ReadChunk
    BY <2>2, ReadChunkTyped, TypeParts, WriterKept DEF ioUnchanged
  <2>3. CASE ReadError
    BY <2>3, ReadErrorTyped, TypeParts, WriterKept DEF ioUnchanged, netVars
  <2>4. CASE NetStep
    BY <2>4, NetTyped DEF envUnchanged
  <2> QED
    BY <2>1, <2>2, <2>3, <2>4
<1>2. pac' \o responses' = pac \o responses
  <2>1. CASE ReadChunk
    <3>1. pac = <<>> /\ pac' \o responses' = responses /\ responses \in Seq(Response)
      BY <2>1, ReadChunkTyped, TypeParts DEF ResponsesTyped
    <3> QED
      BY <3>1, ConcatEmptySeq
  <2>2. CASE RunWriteHandler \/ ReadError \/ NetStep
    BY <2>2, RunWriteHandlerTyped, ReadErrorTyped, NetTyped DEF netVars, envUnchanged
  <2> QED
    BY <2>1, <2>2
<1>3. PostsKept
  BY <1>1 DEF PostsKept
<1>4. CallInv'
  BY <1>1, <1>2, <1>3, CallKept
<1>5. IoInv' /\ ServeInv'
  <2>1. CASE RunWriteHandler
    <3>1. IoInv'
      BY <2>1, RunWriteHandlerTyped DEF IoInv, connVars, netVars
    <3> QED
      BY <2>1, <3>1, RunWriteHandlerTyped, Served
  <2>2. CASE ReadChunk
    BY <2>2, ReadChunkTyped DEF IoInv, ServeInv, connVars
  <2>3. CASE ReadError
    <3>1. IoInv'
      BY <2>3, ReadErrorTyped DEF IoInv, netVars, Ended
    <3> QED
      BY <2>3, <3>1, ReadErrorTyped, Served
  <2>4. CASE NetStep
    BY <2>4, NetTyped DEF IoInv, ServeInv, envUnchanged, connVars
  <2> QED
    BY <2>1, <2>2, <2>3, <2>4
<1> QED
  BY <1>4, <1>5

LEMMA NextBook ==
  ASSUME TypeInv, BookInv, Next, alive', ~collided'
  PROVE  BookInv'
<1>1. ASSUME NEW t \in Thread,
             \/ UserStep(t) \/ SpuriousWakeup(t) \/ Send(t) \/ wait_all_responses(t)
             \/ \E sync \in BOOLEAN : StartCall(t, sync)
             \/ \E on \in BOOLEAN : SetTimeout(t, on)
      PROVE  BookInv'
  <2>1. CASE \/ wait_conn(t) \/ WaitFuture(t) \/ CallReturns(t) \/ ConnectTimeout(t)
             \/ CallTimeout(t) \/ SpuriousWakeup(t) \/ wait_all_responses(t)
    <3>1. UNCHANGED <<userUnchanged, callIdx, calls, future, strand>> /\ thread[t].pc # "post"
      BY <2>1, QuietTyped
    <3>2. PICK pc \in Pcs \ {"post"} : Goto(t, pc) \/ Leave(t, pc)
      BY <2>1, QuietTyped
    <3>3. thread'[t].pc = pc /\ \A u \in Thread : u # t => thread'[u] = thread[u]
      BY <3>2, ThreadAfter DEF TypeInv
    <3>4. PostsKept
      BY <3>1, <3>3 DEF PostsKept
    <3> QED
      BY <3>1, <3>4, QuietBook
  <2>2. ASSUME NEW sync \in BOOLEAN, StartCall(t, sync) PROVE BookInv'
    <3>1. /\ UNCHANGED <<userUnchanged, callIdx, calls, future, strand>>
          /\ thread[t].pc \in AtRest
          /\ thread' = [thread EXCEPT ![t] = [@ EXCEPT !.pc = "wait_conn", !.sync = sync]]
      BY <2>2 DEF StartCall
    <3>2. PostsKept
      BY <3>1, TypeParts DEF PostsKept, ThreadsTyped, AtRest
    <3> QED
      BY <3>1, <3>2, QuietBook
  <2>3. ASSUME NEW on \in BOOLEAN, SetTimeout(t, on) PROVE BookInv'
    <3>1. UNCHANGED <<userUnchanged, callIdx, calls, future, strand>> /\ thread' = thread
      BY <2>3, SetTimeoutTyped
    <3>2. PostsKept
      BY <3>1 DEF PostsKept
    <3> QED
      BY <3>1, <3>2, QuietBook
  <2> QED
    BY <1>1, <2>1, <2>2, <2>3, TakeIndexBook, PostCallBook, SendBook DEF UserStep
<1>2. CASE IoStep
  BY <1>2, WakeBook, RunPostBook, RunEraseBook, OtherBook, DispatchBook DEF IoStep
<1>3. CASE Destroy
  BY <1>3, DestroyTyped
<1> QED
  BY <1>1, <1>2, <1>3, OtherBook, AnswerBook, EndsBook DEF Next

\* Nothing changes once the client is destroyed.
LEMMA DeadStays ==
  ASSUME TypeInv, ~alive, \A t \in Thread : thread[t].pc \in AtRest, Next
  PROVE  FALSE
<1>1. ASSUME NEW t \in Thread,
             \/ UserStep(t) \/ SpuriousWakeup(t) \/ Send(t) \/ wait_all_responses(t)
             \/ \E sync \in BOOLEAN : StartCall(t, sync)
             \/ \E on \in BOOLEAN : SetTimeout(t, on)
      PROVE  FALSE
  <2>1. thread[t].pc \in AtRest
    OBVIOUS
  <2> QED
    BY <1>1, <2>1 DEF UserStep, wait_conn, TakeIndex, PostCall, WaitFuture, CallReturns, ConnectTimeout,
       CallTimeout, SpuriousWakeup, Send, wait_all_responses, StartCall, SetTimeout, AtRest
<1>2. ~Destroy /\ ~NetStep /\ ~ConnectionEnds
  BY DEF Destroy, NetStep, AttemptFails, LastAttemptFails, TcpConnects, WriteSome, WriteFails,
     ConnectionEnds
<1>3. ~IoStep
  BY DEF IoStep, Connected, ConnectError, RunPost, RunErase, RunWriteHandler, ReadChunk,
     DispatchResponse, ReadError, IoIdle
<1>4. \A i \in DOMAIN wire : ~ServerAnswers(wire[i])
  BY DEF ServerAnswers
<1> QED
  BY <1>1, <1>2, <1>3, <1>4 DEF Next

\* What a step does to alive, to the number of calls and to collided.
LEMMA NextFlags ==
  ASSUME TypeInv, alive, Next
  PROVE  /\ alive' \/ Destroy
         /\ calls \in Nat /\ calls' \in Nat /\ calls' >= calls
         /\ collided => collided'
         /\ collided' /\ ~collided => RunPost
<1>1. ASSUME NEW t \in Thread,
             \/ UserStep(t) \/ SpuriousWakeup(t) \/ Send(t) \/ wait_all_responses(t)
             \/ \E sync \in BOOLEAN : StartCall(t, sync)
             \/ \E on \in BOOLEAN : SetTimeout(t, on)
      PROVE  alive' = alive /\ collided' = collided /\ (calls' = calls \/ calls' = calls + 1)
  BY <1>1 DEF UserStep, wait_conn, TakeIndex, PostCall, WaitFuture, CallReturns, ConnectTimeout,
     CallTimeout, SpuriousWakeup, Send, wait_all_responses, StartCall, SetTimeout, userUnchanged
<1>2. ASSUME IoStep
      PROVE  /\ alive' = alive /\ calls' = calls /\ (collided => collided')
             /\ collided' /\ ~collided => RunPost
  <2>1. alive' = alive /\ calls' = calls
    BY <1>2 DEF IoStep, Connected, ConnectError, RunPost, RunErase, RunWriteHandler, ReadChunk,
       DispatchResponse, ReadError, ioUnchanged
  <2>2. RunPost \/ collided' = collided
    BY <1>2 DEF IoStep, Connected, ConnectError, RunErase, RunWriteHandler, ReadChunk,
       DispatchResponse, ReadError
  <2>3. RunPost => (collided => collided')
    BY DEF RunPost, Insert
  <2> QED
    BY <2>1, <2>2, <2>3
<1>3. ASSUME NetStep \/ ConnectionEnds \/ \E i \in DOMAIN wire : ServerAnswers(wire[i])
      PROVE  alive' = alive /\ collided' = collided /\ calls' = calls
  BY <1>3 DEF NetStep, AttemptFails, LastAttemptFails, TcpConnects, WriteSome,
     WriteFails, ConnectionEnds, ServerAnswers, envUnchanged
<1>4. ASSUME Destroy PROVE collided' = collided /\ calls' = calls
  BY <1>4 DEF Destroy
<1>5. calls \in Nat
  BY TypeParts DEF FlagsTyped
<1>6. CASE \E t \in Thread :
             \/ UserStep(t) \/ SpuriousWakeup(t) \/ Send(t) \/ wait_all_responses(t)
             \/ \E sync \in BOOLEAN : StartCall(t, sync)
             \/ \E on \in BOOLEAN : SetTimeout(t, on)
  <2>1. alive' = alive /\ collided' = collided /\ (calls' = calls \/ calls' = calls + 1)
    BY <1>1, <1>6
  <2> QED
    BY <1>5, <2>1
<1>7. CASE IoStep
  BY <1>2, <1>5, <1>7
<1>8. CASE NetStep \/ ConnectionEnds \/ \E i \in DOMAIN wire : ServerAnswers(wire[i])
  <2>1. alive' = alive /\ collided' = collided /\ calls' = calls
    BY <1>3, <1>8
  <2> QED
    BY <1>5, <2>1
<1>9. CASE Destroy
  BY <1>4, <1>5, <1>9
<1> QED
  BY <1>6, <1>7, <1>8, <1>9 DEF Next

\* The whole invariant.
LEMMA ClientInvNext == ASSUME ClientInv, [Next]_vars PROVE ClientInv'
<1> USE DEF ClientInv
<1>1. TypeInv'
  BY NextTyped
<1>2. CASE UNCHANGED vars
  <2>1. Sent' = Sent
    BY <1>2, TypeParts, WriterKept DEF vars
  <2>2. /\ UNCHANGED <<alive, thread, collided, calls, callIdx, future, strand, ongoingCalls, io, link, state,
                       reading, pac, responses, answered>>
    BY <1>2 DEF vars, connVars, netVars
  <2>3. pac' \o responses' = pac \o responses /\ PostsKept
    BY <2>2 DEF PostsKept
  <2>4. BookInv => BookInv'
    BY <2>1, <2>2, <2>3, CallKept DEF BookInv, IoInv, ServeInv
  <2> QED
    BY <1>1, <2>2, <2>4 DEF ResponseMatchesCall, AnsweredIsErased, IoThreadServes, IdsDiffer
<1>3. CASE Next /\ alive
  <2>1. /\ alive' \/ Destroy
        /\ calls \in Nat /\ calls' \in Nat /\ calls' >= calls
        /\ collided => collided'
        /\ collided' /\ ~collided => RunPost
    BY <1>3, NextFlags
  <2>2. alive' /\ ~collided' => BookInv'
    BY <1>3, <2>1, NextBook
  <2>3. ~alive' => \A t \in Thread : thread'[t].pc \in AtRest
    BY <2>1, DestroyTyped
  <2>4. IdsDiffer'
    <3>1. CASE collided' /\ ~collided
      <4>1. RunPost /\ BookInv
        BY <1>3, <2>1, <3>1
      <4>2. strand[1].msg.kind = "call" /\ Key(strand[1].msg.id) \in DOMAIN ongoingCalls
        BY <3>1, <4>1, RunPostTyped DEF Insert
      <4>3. calls > IdCount
        BY <4>1, <4>2, InsertCollides
      <4> QED
        BY <2>1, <4>3, KeyFacts DEF IdsDiffer
    <3>2. CASE ~(collided' /\ ~collided)
      BY <2>1, <3>2, KeyFacts DEF IdsDiffer
    <3> QED
      BY <3>1, <3>2
  <2>5. CASE alive'
    BY <1>1, <2>2, <2>4, <2>5
       DEF BookInv, CallInv, MatchInv, EraseInv, ServeInv, ResponseMatchesCall, AnsweredIsErased, IoThreadServes
  <2>6. CASE ~alive'
    <3>1. Destroy
      BY <2>1, <2>6
    <3>2. /\ \A c \in Calls : /\ future[c].st = "pending" => future'[c].st = "broken"
                              /\ future[c].st # "pending" => future'[c] = future[c]
          /\ UNCHANGED <<strand, ongoingCalls, collided, io>>
      BY <3>1, DestroyTyped
    <3>3. ResponseMatchesCall'
      <4> SUFFICES ASSUME ~collided', NEW c \in Calls, future'[c].st \in {"value", "error"}
                   PROVE  future'[c].answers = c
        BY DEF ResponseMatchesCall
      <4>1. ~collided
        BY <2>1
      <4>2. future'[c] = future[c]
        <5>1. future'[c].st # "broken"
          OBVIOUS
        <5> QED
          BY <3>2, <5>1
      <4> QED
        BY <4>1, <4>2 DEF ResponseMatchesCall
    <3>4. AnsweredIsErased' /\ IoThreadServes'
      BY <2>6, <3>2 DEF AnsweredIsErased, IoThreadServes
    <3> QED
      BY <1>1, <2>3, <2>4, <2>6, <3>3, <3>4
  <2> QED
    BY <2>5, <2>6
<1> QED
  BY <1>2, <1>3, DeadStays

LEMMA ClientInvInit == ASSUME Init PROVE ClientInv
<1>1. TypeInv /\ alive /\ ~collided
  BY InitTyped DEF Init
<1>2. /\ \A c \in Calls : future[c].st = "none"
      /\ calls = 0 /\ answered = {} /\ strand = <<>> /\ DOMAIN ongoingCalls = {}
      /\ \A t \in Thread : thread[t].pc = "idle"
  BY DEF Init
<1>3. Numbered /\ MatchInv /\ EraseInv
  BY <1>2 DEF Numbered, MatchInv, EraseInv, Calls
<1>4. HeldOnce /\ EntryInv
  BY <1>2 DEF HeldOnce, OnePlace, SomePlace, ThreadHolds, EntryInv
<1>5. AnswerInv
  <2>1. Transit = <<>>
    BY DEF Init, Transit
  <2> QED
    BY <2>1 DEF AnswerInv
<1>6. SentInv
  <2>1. Sent = {}
    BY DEF Sent, Init
  <2> QED
    BY <2>1 DEF SentInv
<1>7. IdInv
  BY <1>2, IdFacts DEF IdInv, Init
<1>8. IoInv /\ ServeInv
  BY DEF IoInv, ServeInv, Init
<1>9. ResponseMatchesCall /\ AnsweredIsErased /\ IoThreadServes /\ IdsDiffer
  BY <1>1, <1>3, <1>8 DEF MatchInv, EraseInv, ServeInv, ResponseMatchesCall, AnsweredIsErased, IoThreadServes, IdsDiffer
<1> QED
  BY <1>1, <1>3, <1>4, <1>5, <1>6, <1>7, <1>8, <1>9 DEF ClientInv, BookInv, CallInv

\* ClientInvariant: the invariant the theorems below rest on.  Every reachable state of
\* client.cc keeps the books of BookInv: each promise has one holder, each answer in
\* transit finds the open entry of its own call, each satisfied entry has its erase.
THEOREM ClientInvariant == Spec => []ClientInv
<1>1. Init => ClientInv
  BY ClientInvInit
<1>2. ClientInv /\ [Next]_vars => ClientInv'
  BY ClientInvNext
<1> QED
  BY <1>1, <1>2, PTL DEF Spec

\* ResponseMatchesCall: as long as insert() met no id in use, a future holds the answer
\* to its own call, in whatever order ids are taken, answers come and entries are erased.
THEOREM AnswersMatch == Spec => []ResponseMatchesCall
BY ClientInvariant, PTL DEF ClientInv

\* AnsweredIsErased: the entry of an answered call is in ongoing_calls_ only until the
\* handler that erases it has run.
THEOREM AnsweredErased == Spec => []AnsweredIsErased
BY ClientInvariant, PTL DEF ClientInv

\* IoThreadServes: no promise is satisfied twice, so that no handler throws, and run()
\* returns only when the connection is over.
THEOREM IoServes == Spec => []IoThreadServes
BY ClientInvariant, PTL DEF ClientInv

\* IdsDiffer: insert() meets an id in use only when more calls were made than there are ids.
THEOREM IdsAreOwn == Spec => []IdsDiffer
BY ClientInvariant, PTL DEF ClientInv

\* The places of a promise, as the set that PromiseHeldOnce counts.
LEMMA HoldersCounted ==
  ASSUME NEW c \in Calls, OnePlace(thread, strand, ongoingCalls, c)
  PROVE  Cardinality(Holders(c)) = IF SomePlace(thread, strand, ongoingCalls, c) THEN 1 ELSE 0
<1>1. \A x : x \in Holders(c) <=>
        \/ \E t \in Thread : ThreadHolds(thread, t, c) /\ x = <<"thread", t>>
        \/ \E i \in DOMAIN strand : StrandHolds(strand, i, c) /\ x = <<"strand", i>>
        \/ \E k \in DOMAIN ongoingCalls : EntryHolds(ongoingCalls, k, c) /\ x = <<"ongoing", k>>
  BY DEF Holders, ThreadHolds, StrandHolds, EntryHolds
<1>2. CASE ~SomePlace(thread, strand, ongoingCalls, c)
  <2>1. Holders(c) = {}
    BY <1>1, <1>2 DEF SomePlace
  <2> QED
    BY <1>2, <2>1, FS_EmptySet
<1>3. CASE SomePlace(thread, strand, ongoingCalls, c)
  <2>1. \E x : Holders(c) = {x}
    <3>1. \E x : x \in Holders(c)
      BY <1>1, <1>3 DEF SomePlace
    <3>2. \A x, y \in Holders(c) : x = y
      <4>1. SUFFICES ASSUME NEW x \in Holders(c), NEW y \in Holders(c) PROVE x = y
        OBVIOUS
      <4>2. CASE \E t \in Thread : ThreadHolds(thread, t, c) /\ x = <<"thread", t>>
        BY <1>1, <4>2 DEF OnePlace
      <4>3. CASE \E i \in DOMAIN strand : StrandHolds(strand, i, c) /\ x = <<"strand", i>>
        BY <1>1, <4>3 DEF OnePlace
      <4>4. CASE \E k \in DOMAIN ongoingCalls : EntryHolds(ongoingCalls, k, c) /\ x = <<"ongoing", k>>
        BY <1>1, <4>4 DEF OnePlace
      <4> QED
        BY <1>1, <4>2, <4>3, <4>4
    <3> QED
      BY <3>1, <3>2
  <2> QED
    BY <1>3, <2>1, FS_Singleton
<1> QED
  BY <1>2, <1>3

\* PromiseHeldOnce: no promise is destroyed unsatisfied while the client lives, and that
\* of a pending call is in exactly one place.
THEOREM PromisesHeld == Spec => []PromiseHeldOnce
<1>1. ClientInv => PromiseHeldOnce
  <2> SUFFICES ASSUME ClientInv, alive, ~collided, NEW c \in Calls
               PROVE  /\ future[c].st # "broken"
                      /\ Cardinality(Holders(c)) = IF future[c].st = "pending" THEN 1 ELSE 0
    BY DEF PromiseHeldOnce
  <2>1. HeldOnce
    BY DEF ClientInv, BookInv, CallInv
  <2>2. /\ OnePlace(thread, strand, ongoingCalls, c) /\ future[c].st # "broken"
        /\ future[c].st = "pending" <=> SomePlace(thread, strand, ongoingCalls, c)
    BY <2>1 DEF HeldOnce
  <2> QED
    BY <2>2, HoldersCounted
<1> QED
  BY <1>1, ClientInvariant, PTL

-----------------------------------------------------------------------------
(* The client implements RemoteCalls, as long as no id is used twice.      *)

\* What has become of call c.
StatusOf(st, ans, c) ==
  CASE st.st = "none" -> "new"
    [] st.st = "pending" /\ c \notin ans -> "issued"
    [] st.st = "pending" /\ c \in ans -> "executed"
    [] st.st \in {"value", "error"} /\ st.answers = c -> "answered"
    [] st.st = "broken" -> "failed"
    [] OTHER -> "misdelivered"

LEMMA StatusIs ==
  /\ Status = [c \in Calls |-> StatusOf(future[c], answered, c)]
  /\ Status' = [c \in Calls |-> StatusOf(future'[c], answered', c)]
BY DEF Status, StatusOf

LEMMA StatusCases ==
  ASSUME NEW s, NEW A, NEW c
  PROVE  /\ s.st = "none" => StatusOf(s, A, c) = "new"
         /\ s.st = "pending" /\ c \notin A => StatusOf(s, A, c) = "issued"
         /\ s.st = "pending" /\ c \in A => StatusOf(s, A, c) = "executed"
         /\ s.st \in {"value", "error"} /\ s.answers = c => StatusOf(s, A, c) = "answered"
         /\ s.st = "broken" => StatusOf(s, A, c) = "failed"
         /\ \A B : s.st # "pending" => StatusOf(s, A, c) = StatusOf(s, B, c)
         /\ \A B : (c \in A <=> c \in B) => StatusOf(s, A, c) = StatusOf(s, B, c)
BY DEF StatusOf

\* One call changes its status.
LEMMA StatusMoves ==
  ASSUME NEW d \in Calls, NEW from, NEW to,
         StatusOf(future[d], answered, d) = from, StatusOf(future'[d], answered', d) = to,
         \A c \in Calls : c # d => StatusOf(future'[c], answered', c) = StatusOf(future[c], answered, c)
  PROVE  Remote!Move(d, from, to)
<1>1. Status[d] = from
  BY StatusIs
<1>2. Status' = [Status EXCEPT ![d] = to]
  BY StatusIs
<1> QED
  BY <1>1, <1>2 DEF Remote!Move

LEMMA StatusStays ==
  ASSUME future' = future, answered' = answered
  PROVE  Status' = Status
BY StatusIs

\* TakeIndex issues a call.
LEMMA TakeIndexImplements ==
  ASSUME TypeInv, BookInv, NEW t \in Thread, TakeIndex(t)
  PROVE  Remote!Next
<1> DEFINE n == calls + 1
<1>1. /\ n \in Calls /\ calls \in Nat /\ future' = [future EXCEPT ![n] = Pending]
      /\ UNCHANGED <<userUnchanged, timeout, strand, boundVars>>
  BY TakeIndexTyped
<1>2. answered' = answered
  BY <1>1 DEF userUnchanged, netVars
<1>3. future[n].st = "none" /\ n \notin answered
  BY <1>1 DEF BookInv, CallInv, Numbered
<1>4. future'[n].st = "pending" /\ \A c \in Calls : c # n => future'[c] = future[c]
  BY <1>1, TypeParts DEF CallsTyped, Pending
<1>5. Remote!Issue(n)
  <2>1. StatusOf(future[n], answered, n) = "new" /\ StatusOf(future'[n], answered', n) = "issued"
    BY <1>2, <1>3, <1>4, StatusCases
  <2> QED
    BY <1>1, <1>2, <1>4, <2>1, StatusMoves DEF Remote!Issue
<1> QED
  BY <1>1, <1>5 DEF Remote!Next

\* ServerAnswers executes it.
LEMMA AnswerImplements ==
  ASSUME TypeInv, BookInv, NEW i \in DOMAIN wire, ServerAnswers(wire[i])
  PROVE  Remote!Next
<1> DEFINE d == wire[i].call
<1>1. /\ wire[i] \in Sent /\ wire[i].kind = "call" /\ d \in Calls /\ d \notin answered
      /\ answered' = answered \cup {d}
      /\ UNCHANGED <<envUnchanged, writerVars, link, attempt>>
  BY AnswerTyped
<1>2. future' = future
  BY <1>1 DEF envUnchanged
<1>3. OpenEntry(ongoingCalls, Key(wire[i].id), d)
  BY <1>1 DEF BookInv, CallInv, SentInv
<1>4. Key(wire[i].id) \in DOMAIN ongoingCalls /\ EntryHolds(ongoingCalls, Key(wire[i].id), d)
  BY <1>3 DEF OpenEntry, EntryHolds
<1>5. future[d].st = "pending"
  BY <1>1, <1>4 DEF BookInv, CallInv, HeldOnce, SomePlace
<1>6. Remote!Execute(d)
  <2>1. StatusOf(future[d], answered, d) = "issued" /\ StatusOf(future'[d], answered', d) = "executed"
    BY <1>1, <1>2, <1>5, StatusCases
  <2>2. \A c \in Calls : c # d => (c \in answered' <=> c \in answered)
    BY <1>1
  <2>3. \A c \in Calls : c # d => StatusOf(future'[c], answered', c) = StatusOf(future[c], answered, c)
    BY <1>2, <2>2, StatusCases
  <2> QED
    BY <1>1, <2>1, <2>3, StatusMoves DEF Remote!Execute
<1> QED
  BY <1>1, <1>6 DEF Remote!Next

\* DispatchResponse completes it.
LEMMA DispatchImplements ==
  ASSUME TypeInv, BookInv, DispatchResponse
  PROVE  Remote!Next
<1> DEFINE d == pac[1].answers
<1>1. /\ d \in answered /\ d \in Calls /\ future[d].st = "pending"
      /\ future'[d].st \in {"value", "error"} /\ future'[d].answers = d
      /\ \A c \in Calls : c # d => future'[c] = future[c]
  BY DispatchIs
<1>2. answered' = answered
  BY DispatchTyped DEF netVars
<1>3. Remote!Complete(d)
  <2>1. StatusOf(future[d], answered, d) = "executed" /\ StatusOf(future'[d], answered', d) = "answered"
    BY <1>1, <1>2, StatusCases
  <2> QED
    BY <1>1, <1>2, <2>1, StatusMoves DEF Remote!Complete
<1> QED
  BY <1>1, <1>3 DEF Remote!Next

\* Destroy fails the calls that are pending.
LEMMA DestroyImplements ==
  ASSUME TypeInv, Destroy
  PROVE  Remote!Next
<1> DEFINE S == {c \in Calls : future[c].st = "pending"}
<1>1. /\ \A c \in Calls : future[c].st = "pending" => future'[c].st = "broken"
      /\ \A c \in Calls : future[c].st # "pending" => future'[c] = future[c]
      /\ answered' = answered
  BY DestroyTyped DEF netVars
<1>2. \A c \in S : Status[c] \in {"issued", "executed"}
  BY StatusIs, StatusCases
<1>3. Status' = [c \in Calls |-> IF c \in S THEN "failed" ELSE Status[c]]
  <2>1. \A c \in Calls : c \in S => StatusOf(future'[c], answered', c) = "failed"
    BY <1>1, StatusCases
  <2>2. \A c \in Calls : c \notin S => StatusOf(future'[c], answered', c) = StatusOf(future[c], answered, c)
    BY <1>1
  <2> QED
    BY <2>1, <2>2, StatusIs
<1>4. Remote!Abandon(S)
  BY <1>2, <1>3 DEF Remote!Abandon
<1>5. S \in SUBSET Calls
  OBVIOUS
<1> QED
  BY <1>4, <1>5 DEF Remote!Next

\* The other steps are not seen.
LEMMA QuietImplements ==
  ASSUME TypeInv, BookInv, Next, ~collided',
         ~Destroy, ~DispatchResponse, \A t \in Thread : ~TakeIndex(t),
         \A i \in DOMAIN wire : ~ServerAnswers(wire[i])
  PROVE  Status' = Status
<1>1. ASSUME NEW t \in Thread,
             \/ UserStep(t) \/ SpuriousWakeup(t) \/ Send(t) \/ wait_all_responses(t)
             \/ \E sync \in BOOLEAN : StartCall(t, sync)
             \/ \E on \in BOOLEAN : SetTimeout(t, on)
      PROVE  future' = future /\ answered' = answered
  <2>1. ~TakeIndex(t)
    OBVIOUS
  <2> QED
    BY <1>1, <2>1 DEF UserStep, wait_conn, PostCall, WaitFuture, CallReturns, ConnectTimeout,
       CallTimeout, SpuriousWakeup, Send, wait_all_responses, StartCall, SetTimeout, userUnchanged, netVars
<1>2. ASSUME IoStep PROVE future' = future /\ answered' = answered
  <2>1. CASE RunPost
    BY <2>1, RunPostTyped DEF Insert, netVars
  <2>2. CASE RunErase
    <3>1. strand[1] = [op |-> "erase", key |-> strand[1].key] /\ strand # <<>>
      BY <2>2, RunEraseTyped
    <3>2. 1 \in DOMAIN strand /\ strand[1].op = "erase"
      BY <3>1, TypeParts, TailIs
    <3>3. strand[1].key \in DOMAIN ongoingCalls /\ ongoingCalls[strand[1].key].satisfied
      BY <3>2 DEF BookInv, CallInv, EntryInv
    <3> QED
      BY <2>2, <3>3, RunEraseTyped DEF netVars
  <2>3. CASE Connected \/ ConnectError \/ RunWriteHandler \/ ReadChunk \/ ReadError
    BY <2>3 DEF Connected, ConnectError, RunWriteHandler, ReadChunk, ReadError, netVars
  <2> QED
    BY <1>2, <2>1, <2>2, <2>3 DEF IoStep
<1>3. ASSUME NetStep \/ ConnectionEnds PROVE future' = future /\ answered' = answered
  BY <1>3 DEF NetStep, AttemptFails, LastAttemptFails, TcpConnects, WriteSome, WriteFails, ConnectionEnds,
     envUnchanged, netVars
<1>4. future' = future /\ answered' = answered
  BY <1>1, <1>2, <1>3 DEF Next
<1> QED
  BY <1>4, StatusStays

\* RemoteSpec: while there are ids enough for the calls, every step of the client is a step
\* of the abstract calls or not seen by the callers: a call is executed at most once, after
\* it was issued, and its future gets the answer of that execution, or fails with the client.
THEOREM ClientImplements == ASSUME MaxCalls <= IdCount PROVE Spec => RemoteSpec
<1>1. Init => Remote!Init
  BY StatusIs, StatusCases DEF Init, Remote!Init
<1>2. ClientInv /\ ClientInv' /\ [Next]_vars => [Remote!Next]_Status
  <2> SUFFICES ASSUME ClientInv, ClientInv', [Next]_vars PROVE [Remote!Next]_Status
    OBVIOUS
  <2>1. TypeInv /\ ~collided /\ ~collided'
    <3>1. TypeInv /\ TypeInv' /\ IdsDiffer /\ IdsDiffer'
      BY DEF ClientInv
    <3>2. calls \in 0..MaxCalls /\ calls' \in 0..MaxCalls
      BY <3>1, TypeParts, TypePartsAfter DEF FlagsTyped
    <3> QED
      BY <3>1, <3>2, KeyFacts, CountsAssumption DEF IdsDiffer
  <2>2. CASE UNCHANGED vars
    BY <2>2, StatusStays DEF vars, netVars
  <2>3. CASE Next /\ ~alive
    BY <2>1, <2>3, DeadStays DEF ClientInv
  <2>4. CASE Next /\ alive
    <3>1. BookInv
      BY <2>1, <2>4 DEF ClientInv
    <3> QED
      BY <2>1, <2>4, <3>1, TakeIndexImplements, AnswerImplements, DispatchImplements,
         DestroyImplements, QuietImplements
  <2> QED
    BY <2>2, <2>3, <2>4
<1> QED
  BY <1>1, <1>2, ClientInvariant, PTL DEF Spec, RemoteSpec, Remote!Spec
=============================================================================
