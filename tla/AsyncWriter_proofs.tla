------------------------- MODULE AsyncWriter_proofs -------------------------
(***************************************************************************)
(* Proofs about AsyncWriter, for every set of buffers, every number of     *)
(* segments and every bound: WriterInv is inductive, the stream the peer   *)
(* reads is intact, and the writer implements FifoStream.                  *)
(***************************************************************************)
EXTENDS AsyncWriter, SequenceTheorems, TLAPS

-----------------------------------------------------------------------------
(* Lemmas about the operators of the model.                                *)

\* Removing the only operation leaves none.
LEMMA WithoutOnly ==
  ASSUME NEW ops \in Seq(Operation), Len(ops) = 1
  PROVE  Without(ops, 1) = <<>>
<1>1. SubSeq(ops, 1, 0) = <<>> /\ SubSeq(ops, 2, 1) = <<>>
  BY SubSeqEmpty
<1>2. Without(ops, 1) = SubSeq(ops, 1, 0) \o SubSeq(ops, 2, 1)
  BY DEF Without
<1> QED
  BY <1>1, <1>2

\* Equal segments make the message they are segments of.
LEMMA UnpackSame ==
  ASSUME NEW segs \in Seq(Item), NEW i \in Item, Len(segs) > 0,
         \A j \in 1..Len(segs) : segs[j] = i
  PROVE  Unpack(segs) = i
<1>1. DOMAIN segs = 1..Len(segs)
  OBVIOUS
<1>2. segs[1] = i
  OBVIOUS
<1> QED
  BY <1>1, <1>2 DEF Unpack

-----------------------------------------------------------------------------
(* The steps of the members of async_writer preserve the invariant.        *)

\* The constructor establishes the invariant.
LEMMA InitInv == Init => WriterInv
<1> SUFFICES ASSUME Init PROVE WriterInv
  OBVIOUS
<1> USE SegmentsAssumption, BoundsAssumption DEF Init
<1>1. TypeOK
  <2>1. exit \in BOOLEAN /\ peerUp \in BOOLEAN /\ socket \in {"open", "closed"}
    BY Zenon
  <2>2. posts \in 0..MaxPosts /\ closes \in 0..MaxCloses
    OBVIOUS
  <2>3. /\ writeQueue \in Seq(Item) /\ inflight \in Seq(Operation)
        /\ tail \in Seq(Item) /\ wire \in Seq(Item \cup {Garbage})
        /\ accepted \in Seq(Item) /\ strand \in Seq(Posted)
    OBVIOUS
  <2> QED
    BY <2>1, <2>2, <2>3 DEF TypeOK
<1>2. OneWriteChain /\ OperationResult /\ QueueIsRest /\ TailIsSentPart /\ StreamIntact
  BY DEF OneWriteChain, OperationResult, QueueIsRest, TailIsSentPart, StreamIntact, Done
<1> QED
  BY <1>1, <1>2 DEF WriterInv

\* What write(i) does to the queue, the operations and the history.
LEMMA WriteInv ==
  ASSUME WriterInv, NEW i \in Item, write(i)
  PROVE  /\ writeQueue' \in Seq(Item) /\ inflight' \in Seq(Operation)
         /\ accepted' \in Seq(Item)
         /\ OneWriteChain' /\ OperationResult' /\ QueueIsRest'
         /\ TailIsSentPart' /\ StreamIntact'
<1> USE SegmentsAssumption
<1> USE DEF WriterInv, TypeOK
<1> DEFINE op == [item |-> i, sent |-> 0, ec |-> "pending"]
<1>1. /\ writeQueue' = Append(writeQueue, i) /\ accepted' = Append(accepted, i)
      /\ writeQueue' \in Seq(Item) /\ accepted' \in Seq(Item)
      /\ Len(writeQueue') = Len(writeQueue) + 1
      /\ Len(accepted') = Len(accepted) + 1
      /\ UNCHANGED <<tail, wire>>
  BY DEF write, streamVars
<1>2. \A n \in 1..Len(writeQueue) : writeQueue'[n] = writeQueue[n]
  BY <1>1
<1>3. \A n \in 1..Len(accepted) : accepted'[n] = accepted[n]
  BY <1>1
<1>4. writeQueue'[Len(writeQueue')] = i /\ accepted'[Len(accepted')] = i
  BY <1>1
<1>5. Len(wire) \in Nat /\ Len(writeQueue) \in Nat /\ Len(accepted) \in Nat
  OBVIOUS
<1>6. Len(writeQueue') = Len(writeQueue) + 1 /\ Len(accepted') = Len(accepted) + 1
  BY <1>1
<1>7. op \in Operation
  BY DEF Operation
<1>8. Len(writeQueue) <= Len(accepted)
  BY DEF QueueIsRest
<1>9. Len(wire') + Len(writeQueue') = Len(accepted') + (IF Done THEN 1 ELSE 0)
       /\ Len(writeQueue') <= Len(accepted')
  <2>1. Len(wire) + Len(writeQueue) = Len(accepted) + (IF Done THEN 1 ELSE 0)
        /\ wire' = wire
    BY <1>1 DEF QueueIsRest
  <2> QED
    BY ONLY <2>1, <1>5, <1>6, <1>8
<1>10. \A n \in 1..Len(writeQueue') :
        writeQueue'[n] = accepted'[(Len(accepted') - Len(writeQueue')) + n]
  <2> TAKE n \in 1..Len(writeQueue')
  <2>1. CASE n = Len(writeQueue')
    <3>1. (Len(accepted') - Len(writeQueue')) + n = Len(accepted')
      BY ONLY <2>1, <1>6, <1>5
    <3> QED
      BY <2>1, <3>1, <1>4
  <2>2. CASE n # Len(writeQueue')
    <3>1. n \in 1..Len(writeQueue)
      BY ONLY <2>2, <1>6, <1>5, n \in 1..Len(writeQueue')
    <3> DEFINE m == (Len(accepted) - Len(writeQueue)) + n
    <3>2. (Len(accepted') - Len(writeQueue')) + n = m /\ m \in 1..Len(accepted)
      BY ONLY <3>1, <1>6, <1>8, <1>5
    <3>3. writeQueue[n] = accepted[m]
      BY <3>1 DEF QueueIsRest
    <3> HIDE DEF m
    <3> QED
      BY <3>1, <3>2, <3>3, <1>2, <1>3
  <2> QED
    BY <2>1, <2>2
<1>11. writeQueue' # <<>>
  BY <1>1, AppendProperties
<1>12. CASE Len(writeQueue') > 1 \/ exit
  <2>1. inflight' = inflight
    BY <1>12, <1>1 DEF write, do_write
  <2>2. writeQueue # <<>> => Head(writeQueue') = Head(writeQueue)
    BY <1>1
  <2>3. inflight # <<>> => writeQueue # <<>>
    BY DEF OneWriteChain
  <2>4. OneWriteChain'
    BY <2>1, <2>2, <2>3, <1>1 DEF OneWriteChain
  <2>5. OperationResult' /\ (Done' <=> Done)
    BY <2>1 DEF OperationResult, Done
  <2>6. QueueIsRest'
    BY ONLY <2>5, <1>10, <1>9 DEF QueueIsRest
  <2>7. TailIsSentPart'
    BY <2>1, <2>5, <1>1, <1>11 DEF TailIsSentPart
  <2>8. StreamIntact'
    BY <1>1, <1>3, <1>5 DEF StreamIntact
  <2> QED
    BY <1>1, <2>1, <2>4, <2>5, <2>6, <2>7, <2>8
<1>13. CASE ~(Len(writeQueue') > 1) /\ ~exit
  <2>1. writeQueue = <<>> /\ inflight = <<>> /\ tail = <<>>
    BY <1>13, <1>1, <1>5 DEF OneWriteChain, TailIsSentPart
  <2>2. Head(writeQueue') = i
    BY <2>1, <1>1
  <2>3. inflight' = Append(inflight, op)
    BY <1>13, <2>2 DEF write, do_write
  <2>4. inflight' \in Seq(Operation) /\ Len(inflight') = 1 /\ inflight'[1] = op
    BY <2>1, <2>3, <1>7
  <2>5. ~Done /\ ~Done'
    BY <2>1, <2>4 DEF Done
  <2>6. OneWriteChain' /\ OperationResult'
    BY <2>2, <2>4, <1>11 DEF OneWriteChain, OperationResult
  <2>7. QueueIsRest'
    BY ONLY <2>5, <1>10, <1>9 DEF QueueIsRest
  <2>8. TailIsSentPart'
    BY <2>1, <2>4, <2>5, <1>1 DEF TailIsSentPart
  <2>9. StreamIntact'
    BY <1>1, <1>3, <1>5 DEF StreamIntact
  <2> QED
    BY <1>1, <2>4, <2>6, <2>7, <2>8, <2>9
<1> QED
  BY <1>12, <1>13

\* What the completion handler of an operation does.
LEMMA WriteHandlerInv ==
  ASSUME WriterInv, NEW k \in DOMAIN inflight, write_handler(k)
  PROVE  /\ writeQueue' \in Seq(Item) /\ inflight' \in Seq(Operation)
         /\ OneWriteChain' /\ OperationResult' /\ QueueIsRest'
         /\ TailIsSentPart' /\ StreamIntact'
<1> USE SegmentsAssumption
<1> USE DEF WriterInv, TypeOK
<1>1. k = 1 /\ Len(inflight) = 1 /\ inflight # <<>> /\ writeQueue # <<>>
      /\ inflight[1] \in Operation
  BY DEF OneWriteChain
<1>2. Without(inflight, k) = <<>>
  BY <1>1, WithoutOnly
<1>3. UNCHANGED <<tail, wire, accepted>>
  BY DEF write_handler, streamVars
<1>4. Len(wire) \in Nat /\ Len(writeQueue) \in Nat \ {0} /\ Len(accepted) \in Nat
  BY <1>1
<1>5. StreamIntact'
  BY <1>3 DEF StreamIntact
<1>6. CASE inflight[1].ec = "ok"
  <2>1. Done /\ tail = <<>>
    BY <1>1, <1>6 DEF Done, OperationResult, TailIsSentPart
  <2>2. /\ writeQueue' = Tail(writeQueue) /\ writeQueue' \in Seq(Item)
        /\ Len(writeQueue') = Len(writeQueue) - 1
        /\ \A n \in 1..Len(writeQueue') : writeQueue'[n] = writeQueue[n + 1]
    BY <1>1, <1>6, HeadTailProperties DEF write_handler
  <2>3. /\ Len(wire') + Len(writeQueue') = Len(accepted')
        /\ \A n \in 1..Len(writeQueue') :
             writeQueue'[n] = accepted'[(Len(accepted') - Len(writeQueue')) + n]
    <3>1. Len(wire') + Len(writeQueue') = Len(accepted')
      BY <2>1, <2>2, <1>3, <1>4 DEF QueueIsRest
    <3>2. ASSUME NEW n \in 1..Len(writeQueue')
          PROVE  writeQueue'[n] = accepted'[(Len(accepted') - Len(writeQueue')) + n]
      <4>1. n + 1 \in 1..Len(writeQueue)
        BY <2>2, <1>4
      <4>2. writeQueue[n + 1] = accepted[(Len(accepted) - Len(writeQueue)) + (n + 1)]
        BY <4>1 DEF QueueIsRest
      <4>3. (Len(accepted) - Len(writeQueue)) + (n + 1)
              = (Len(accepted') - Len(writeQueue')) + n
        BY <2>2, <1>3, <1>4, <4>1
      <4> QED
        BY <4>2, <4>3, <2>2, <1>3
    <3> QED
      BY <3>1, <3>2
  <2>4. CASE writeQueue' # <<>> /\ ~exit
    <3> DEFINE op == [item |-> Head(writeQueue'), sent |-> 0, ec |-> "pending"]
    <3>1. inflight' = Append(<<>>, op)
      BY <1>1, <1>2, <1>6, <2>4 DEF write_handler, do_write
    <3>2. op \in Operation
      <4>1. Head(writeQueue') \in Item
        BY ONLY <2>2, <2>4, HeadTailProperties
      <4>2. 0 \in 0..Segments
        BY ONLY SegmentsAssumption
      <4> QED
        BY ONLY <4>1, <4>2 DEF Operation
    <3>3. inflight' \in Seq(Operation) /\ Len(inflight') = 1 /\ inflight'[1] = op
      BY <3>1, <3>2
    <3>4. ~Done'
      BY <3>3 DEF Done
    <3>5. OneWriteChain' /\ OperationResult'
      BY <3>3, <2>4 DEF OneWriteChain, OperationResult
    <3>6. QueueIsRest' /\ TailIsSentPart'
      BY <3>3, <3>4, <2>1, <2>3, <1>3, <1>4 DEF QueueIsRest, TailIsSentPart
    <3> QED
      BY <2>2, <3>3, <3>5, <3>6, <1>5
  <2>5. CASE ~(writeQueue' # <<>> /\ ~exit)
    <3>1. inflight' = <<>>
      BY <1>1, <1>2, <1>6, <2>5 DEF write_handler
    <3>2. ~Done' /\ OneWriteChain' /\ OperationResult'
      BY <3>1 DEF Done, OneWriteChain, OperationResult
    <3>3. QueueIsRest' /\ TailIsSentPart'
      BY <3>1, <3>2, <2>1, <2>3, <1>3, <1>4 DEF QueueIsRest, TailIsSentPart
    <3> QED
      BY <2>2, <3>1, <3>2, <3>3, <1>5
  <2> QED
    BY <2>4, <2>5
<1>7. CASE inflight[1].ec # "ok"
  <2>1. inflight' = <<>> /\ writeQueue' = writeQueue
    BY <1>1, <1>2, <1>7 DEF write_handler
  <2>2. ~Done
    BY <1>1, <1>7 DEF Done, OperationResult
  <2>3. ~Done' /\ OneWriteChain' /\ OperationResult'
    BY <2>1 DEF Done, OneWriteChain, OperationResult
  <2>4. QueueIsRest' /\ TailIsSentPart'
    BY <2>1, <2>2, <2>3, <1>1, <1>3 DEF QueueIsRest, TailIsSentPart
  <2> QED
    BY <2>1, <2>3, <2>4, <1>5
<1> QED
  BY <1>6, <1>7

\* A segment goes out: either it is one of several, and the peer only keeps
\* it, or it is the last one, and the peer has the oldest buffer it lacked.
LEMMA TransferStep ==
  ASSUME WriterInv, NEW k \in DOMAIN inflight, async_write_some(k)
  PROVE  /\ inflight' \in Seq(Operation) /\ Len(inflight') = 1 /\ inflight' # <<>>
         /\ inflight'[1].item = inflight[1].item
         /\ inflight'[1].sent = inflight[1].sent + 1
         /\ inflight'[1].ec = IF Done' THEN "ok" ELSE "pending"
         /\ ~Done
         /\ IF Done'
            THEN /\ Len(wire) < Len(accepted)
                 /\ wire' = Append(wire, accepted[Len(wire) + 1])
                 /\ tail' = <<>>
            ELSE /\ wire' = wire
                 /\ tail' = Append(tail, inflight[1].item)
<1> USE SegmentsAssumption
<1> USE DEF WriterInv, TypeOK
<1> DEFINE it == inflight[1].item
           sent == inflight[1].sent
           segs == Append(tail, it)
           res == IF sent + 1 = Segments THEN "ok" ELSE "pending"
<1>1. k = 1 /\ Len(inflight) = 1 /\ inflight # <<>> /\ writeQueue # <<>>
      /\ inflight[1] \in Operation /\ it = Head(writeQueue)
  BY DEF OneWriteChain
<1>2. it \in Item /\ sent \in 0..Segments /\ inflight[1].ec = "pending"
  BY <1>1 DEF Operation, async_write_some
<1>3. sent # Segments /\ ~Done
  BY <1>1, <1>2 DEF OperationResult, Done
<1>4. sent + 1 \in 0..Segments
  BY <1>2, <1>3
<1>5. inflight' = [inflight EXCEPT ![1] = [inflight[1] EXCEPT !.sent = sent + 1, !.ec = res]]
  BY <1>1 DEF async_write_some
<1>6. inflight'[1] = [inflight[1] EXCEPT !.sent = sent + 1, !.ec = res]
  BY <1>1, <1>5
<1>7. inflight'[1] = [item |-> it, sent |-> sent + 1, ec |-> res]
  BY <1>1, <1>6 DEF Operation
<1>8. inflight'[1] \in Operation
  BY <1>2, <1>4, <1>7 DEF Operation
<1>9. inflight' \in Seq(Operation) /\ Len(inflight') = 1 /\ inflight' # <<>>
  BY <1>1, <1>5, <1>6, <1>8
<1>10. Done' <=> sent + 1 = Segments
  BY ONLY <1>7, <1>9 DEF Done
<1>11. /\ inflight'[1].item = it /\ inflight'[1].sent = sent + 1
       /\ inflight'[1].ec = IF Done' THEN "ok" ELSE "pending"
  BY <1>7, <1>10
<1>12. /\ Len(tail) = sent /\ \A j \in 1..Len(tail) : tail[j] = it
  BY <1>1, <1>3 DEF TailIsSentPart
<1>13. /\ segs \in Seq(Item) /\ Len(segs) = sent + 1
       /\ \A j \in 1..Len(segs) : segs[j] = it
  <2>1. /\ segs \in Seq(Item) /\ Len(segs) = Len(tail) + 1
        /\ \A j \in 1..Len(tail) : segs[j] = tail[j]
        /\ segs[Len(tail) + 1] = it
    BY <1>2, AppendProperties
  <2> HIDE DEF segs, it, sent
  <2>2. ASSUME NEW j \in 1..Len(segs) PROVE segs[j] = it
    <3>1. Len(tail) \in Nat
      OBVIOUS
    <3>2. j \in 1..Len(tail) \/ j = Len(tail) + 1
      BY ONLY <2>1, <3>1, j \in 1..Len(segs)
    <3> QED
      BY ONLY <2>1, <3>2, <1>12
  <2> QED
    BY <2>1, <2>2, <1>12
<1>14. Unpack(segs) = it
  <2>1. Len(segs) > 0
    BY <1>13, <1>2
  <2> HIDE DEF segs, it
  <2> QED
    BY <2>1, <1>13, <1>2, UnpackSame
<1>15. it = accepted[Len(wire) + 1] /\ Len(wire) < Len(accepted)
  <2>1. Len(wire) + Len(writeQueue) = Len(accepted) /\ Len(writeQueue) > 0
    BY <1>1, <1>3 DEF QueueIsRest
  <2>4. Len(wire) \in Nat /\ Len(writeQueue) \in Nat /\ Len(accepted) \in Nat
    OBVIOUS
  <2>5. 1 \in 1..Len(writeQueue)
    BY ONLY <2>1, <2>4
  <2>2. writeQueue[1] = accepted[(Len(accepted) - Len(writeQueue)) + 1]
    BY <2>5 DEF QueueIsRest
  <2>3. (Len(accepted) - Len(writeQueue)) + 1 = Len(wire) + 1
        /\ Len(wire) < Len(accepted)
    BY ONLY <2>1, <2>4
  <2> QED
    BY <2>2, <2>3, <1>1
<1>16. IF Len(segs) = Segments
       THEN wire' = Append(wire, Unpack(segs)) /\ tail' = <<>>
       ELSE tail' = segs /\ UNCHANGED wire
  BY <1>1 DEF async_write_some
<1>17. Len(segs) = Segments <=> Done'
  BY ONLY <1>10, <1>13
<1>18. IF Done'
       THEN /\ Len(wire) < Len(accepted)
            /\ wire' = Append(wire, accepted[Len(wire) + 1])
            /\ tail' = <<>>
       ELSE /\ wire' = wire
            /\ tail' = Append(tail, inflight[1].item)
  BY ONLY <1>14, <1>15, <1>16, <1>17
<1> QED
  BY <1>3, <1>9, <1>11, <1>18

\* So a segment that goes out keeps the invariant.
LEMMA TransferInv ==
  ASSUME WriterInv, NEW k \in DOMAIN inflight, async_write_some(k)
  PROVE  /\ inflight' \in Seq(Operation) /\ tail' \in Seq(Item)
         /\ wire' \in Seq(Item \cup {Garbage})
         /\ OneWriteChain' /\ OperationResult' /\ QueueIsRest'
         /\ TailIsSentPart' /\ StreamIntact'
<1> USE SegmentsAssumption
<1> USE DEF WriterInv, TypeOK
<1>1. /\ inflight # <<>> /\ Len(inflight) = 1 /\ writeQueue # <<>>
      /\ inflight[1] \in Operation /\ inflight[1].item = Head(writeQueue)
  BY DEF OneWriteChain
<1>2. inflight[1].item \in Item /\ inflight[1].sent \in Nat
  BY <1>1 DEF Operation
<1>3. /\ inflight' \in Seq(Operation) /\ Len(inflight') = 1
      /\ inflight'[1].item = inflight[1].item
      /\ inflight'[1].sent = inflight[1].sent + 1
      /\ inflight'[1].ec = IF Done' THEN "ok" ELSE "pending"
      /\ ~Done
  BY TransferStep
<1>4. inflight' # <<>>
  BY TransferStep
<1>5. UNCHANGED <<writeQueue, accepted>>
  BY DEF async_write_some
<1>6. OneWriteChain'
  BY <1>1, <1>3, <1>5 DEF OneWriteChain
<1>7. OperationResult'
  <2>1. Done' <=> inflight'[1].sent = Segments
    BY <1>4 DEF Done
  <2> QED
    BY <1>3, <2>1 DEF OperationResult
<1>8. Len(wire) \in Nat /\ Len(writeQueue) \in Nat /\ Len(accepted) \in Nat
  OBVIOUS
<1>9. Len(wire) + Len(writeQueue) = Len(accepted) /\ Len(writeQueue) <= Len(accepted)
  BY <1>3 DEF QueueIsRest
<1>10. /\ Len(tail) = inflight[1].sent
      /\ \A j \in 1..Len(tail) : tail[j] = inflight[1].item
  BY <1>1, <1>3 DEF TailIsSentPart
<1>11. \A n \in 1..Len(writeQueue') :
        writeQueue'[n] = accepted'[(Len(accepted') - Len(writeQueue')) + n]
  BY <1>5 DEF QueueIsRest
<1>12. CASE Done'
  <2>1. /\ Len(wire) < Len(accepted)
        /\ wire' = Append(wire, accepted[Len(wire) + 1])
        /\ tail' = <<>>
    BY <1>12, TransferStep
  <2>2. accepted[Len(wire) + 1] \in Item
    BY <2>1, <1>8
  <2>3. /\ wire' \in Seq(Item \cup {Garbage})
        /\ Len(wire') = Len(wire) + 1
        /\ \A n \in 1..Len(wire) : wire'[n] = wire[n]
        /\ wire'[Len(wire) + 1] = accepted[Len(wire) + 1]
    BY <2>1, <2>2, AppendProperties
  <2>4. QueueIsRest'
    <3>1. Len(wire') + Len(writeQueue') = Len(accepted') + 1
          /\ Len(writeQueue') <= Len(accepted')
      BY ONLY <2>3, <1>5, <1>8, <1>9
    <3> QED
      BY ONLY <3>1, <1>11, <1>12 DEF QueueIsRest
  <2>5. TailIsSentPart'
    BY <2>1, <1>3, <1>12 DEF TailIsSentPart
  <2>6. StreamIntact'
    <3>1. ASSUME NEW n \in 1..Len(wire') PROVE wire'[n] = accepted[n]
      <4>1. n \in 1..Len(wire) \/ n = Len(wire) + 1
        BY ONLY <2>3, <1>8, n \in 1..Len(wire')
      <4> QED
        BY <2>3, <4>1 DEF StreamIntact
    <3>2. Len(wire') <= Len(accepted)
      BY <2>1, <2>3, <1>8
    <3> QED
      BY ONLY <3>1, <3>2, <1>5 DEF StreamIntact
  <2> QED
    BY <1>3, <1>6, <1>7, <2>1, <2>3, <2>4, <2>5, <2>6
<1>13. CASE ~Done'
  <2>1. wire' = wire /\ tail' = Append(tail, inflight[1].item)
    BY <1>13, TransferStep
  <2>2. /\ tail' \in Seq(Item) /\ Len(tail') = Len(tail) + 1
        /\ \A j \in 1..Len(tail) : tail'[j] = tail[j]
        /\ tail'[Len(tail) + 1] = inflight[1].item
    BY <2>1, <1>2, AppendProperties
  <2>3. QueueIsRest'
    <3>1. Len(wire') + Len(writeQueue') = Len(accepted')
          /\ Len(writeQueue') <= Len(accepted')
      BY ONLY <2>1, <1>5, <1>8, <1>9
    <3> QED
      BY ONLY <3>1, <1>8, <1>5, <1>11, <1>13 DEF QueueIsRest
  <2>4. TailIsSentPart'
    <3>1. ASSUME NEW j \in 1..Len(tail') PROVE tail'[j] = inflight'[1].item
      <4>1. Len(tail) \in Nat
        OBVIOUS
      <4>2. j \in 1..Len(tail) \/ j = Len(tail) + 1
        BY ONLY <2>2, <4>1, j \in 1..Len(tail')
      <4> QED
        BY ONLY <2>2, <4>2, <1>3, <1>10
    <3>2. Len(tail') = inflight'[1].sent
      BY <2>2, <1>3, <1>10
    <3> QED
      BY ONLY <3>1, <3>2, <1>4, <1>13 DEF TailIsSentPart
  <2>5. StreamIntact'
    BY <2>1, <1>5 DEF StreamIntact
  <2> QED
    BY <1>3, <1>6, <1>7, <2>1, <2>2, <2>3, <2>4, <2>5
<1> QED
  BY <1>12, <1>13

\* An operation that fails has sent only a part of its buffer.
LEMMA AbortInv ==
  ASSUME WriterInv, NEW k \in DOMAIN inflight, abort_write(k)
  PROVE  /\ inflight' \in Seq(Operation)
         /\ OneWriteChain' /\ OperationResult' /\ QueueIsRest'
         /\ TailIsSentPart' /\ StreamIntact'
<1> USE SegmentsAssumption
<1> USE DEF WriterInv, TypeOK
<1>1. k = 1 /\ Len(inflight) = 1 /\ inflight # <<>> /\ writeQueue # <<>>
      /\ inflight[1] \in Operation
  BY DEF OneWriteChain
<1>2. inflight' = [inflight EXCEPT ![1] = [inflight[1] EXCEPT !.ec = "error"]]
      /\ UNCHANGED <<writeQueue, wire, tail, accepted>>
      /\ inflight[1].ec = "pending"
  BY <1>1 DEF abort_write, streamVars
<1>3. inflight'[1] = [inflight[1] EXCEPT !.ec = "error"]
  BY <1>1, <1>2
<1>4. inflight'[1] \in Operation /\ inflight'[1].item = inflight[1].item
      /\ inflight'[1].sent = inflight[1].sent /\ inflight'[1].ec = "error"
  BY <1>1, <1>3 DEF Operation
<1>5. inflight' \in Seq(Operation) /\ Len(inflight') = 1 /\ inflight' # <<>>
  BY <1>1, <1>2, <1>3, <1>4
<1>6. ~Done /\ ~Done' /\ inflight[1].sent # Segments
  BY <1>1, <1>2, <1>4, <1>5 DEF Done, OperationResult
<1>7. OneWriteChain'
  BY <1>1, <1>2, <1>4, <1>5 DEF OneWriteChain
<1>8. OperationResult'
  BY <1>4, <1>5, <1>6 DEF OperationResult
<1>9. QueueIsRest'
  BY <1>2, <1>6 DEF QueueIsRest
<1>10. TailIsSentPart'
  BY <1>1, <1>2, <1>4, <1>5, <1>6 DEF TailIsSentPart
<1>11. StreamIntact'
  BY <1>2 DEF StreamIntact
<1> QED
  BY <1>5, <1>7, <1>8, <1>9, <1>10, <1>11

-----------------------------------------------------------------------------
(* Every step preserves the invariant.                                     *)

\* The strand keeps its type when a handler is posted or taken out of it.
LEMMA StrandType ==
  ASSUME strand \in Seq(Posted)
  PROVE  /\ \A h \in Posted : Post(h) => strand' \in Seq(Posted)
         /\ \A op : Dequeue(op) => strand' \in Seq(Posted) /\ Head(strand) \in Posted
BY HeadTailProperties, AppendProperties DEF Post, Dequeue

\* Steps that leave the queue, the operations and the stream alone.
LEMMA IdleInv ==
  ASSUME WriterInv, UNCHANGED <<writeQueue, inflight, streamVars, accepted>>
  PROVE  OneWriteChain' /\ OperationResult' /\ QueueIsRest' /\ TailIsSentPart'
         /\ StreamIntact'
<1>1. UNCHANGED <<writeQueue, inflight, tail, wire, accepted>>
  BY DEF streamVars
<1>2. Done' <=> Done
  BY <1>1 DEF Done
<1> QED
  BY <1>1, <1>2
  DEF WriterInv, OneWriteChain, OperationResult, QueueIsRest, TailIsSentPart, StreamIntact

\* Every step of the writer and of its surroundings keeps the invariant.
LEMMA StepInv == WriterInv /\ [Next]_vars => WriterInv'
<1> SUFFICES ASSUME WriterInv, [Next]_vars PROVE WriterInv'
  OBVIOUS
<1> USE BoundsAssumption, SegmentsAssumption
<1>1. TypeOK /\ strand \in Seq(Posted)
  BY DEF WriterInv, TypeOK
<1>2. ASSUME NEW i \in Item, PostWrite(i) PROVE WriterInv'
  <2>1. [op |-> "write", item |-> i] \in Posted
    BY <1>2 DEF Posted
  <2>2. strand' \in Seq(Posted)
    BY <1>1, <1>2, <2>1, StrandType DEF PostWrite
  <2>3. TypeOK'
    BY <1>1, <1>2, <2>2 DEF PostWrite, TypeOK, streamVars
  <2> QED
    BY <1>2, <2>3, IdleInv DEF PostWrite, WriterInv
<1>3. CASE close
  <2>1. [op |-> "close_socket"] \in Posted
    BY DEF Posted
  <2>2. strand' \in Seq(Posted)
    BY <1>1, <1>3, <2>1, StrandType DEF close
  <2>3. exit' \in BOOLEAN
    BY <1>3, Zenon DEF close
  <2>4. TypeOK'
    BY <1>1, <1>3, <2>2, <2>3 DEF close, TypeOK, streamVars
  <2> QED
    BY <1>3, <2>4, IdleInv DEF close, WriterInv
<1>4. CASE RunWrite
  <2>1. strand' \in Seq(Posted) /\ Head(strand) \in Posted
    BY <1>1, <1>4, StrandType DEF RunWrite
  <2>2. Head(strand).item \in Item
    BY <1>4, <2>1 DEF RunWrite, Dequeue, Posted
  <2>3. write(Head(strand).item)
    BY <1>4 DEF RunWrite
  <2>4. /\ writeQueue' \in Seq(Item) /\ inflight' \in Seq(Operation)
        /\ accepted' \in Seq(Item)
        /\ OneWriteChain' /\ OperationResult' /\ QueueIsRest'
        /\ TailIsSentPart' /\ StreamIntact'
    BY <2>2, <2>3, WriteInv
  <2>5. TypeOK'
    BY <1>1, <1>4, <2>1, <2>3, <2>4 DEF RunWrite, write, TypeOK, streamVars
  <2> QED
    BY <2>4, <2>5 DEF WriterInv
<1>5. CASE RunWriteHandler
  <2>1. strand' \in Seq(Posted)
    BY <1>1, <1>5, StrandType DEF RunWriteHandler
  <2>2. PICK k \in DOMAIN inflight : write_handler(k)
    BY <1>5 DEF RunWriteHandler
  <2>3. /\ writeQueue' \in Seq(Item) /\ inflight' \in Seq(Operation)
        /\ OneWriteChain' /\ OperationResult' /\ QueueIsRest'
        /\ TailIsSentPart' /\ StreamIntact'
    BY <2>2, WriteHandlerInv
  <2>4. TypeOK'
    BY <1>1, <1>5, <2>1, <2>2, <2>3
    DEF RunWriteHandler, write_handler, TypeOK, streamVars
  <2> QED
    BY <2>3, <2>4 DEF WriterInv
<1>6. CASE RunClose
  <2>1. strand' \in Seq(Posted)
    BY <1>1, <1>6, StrandType DEF RunClose
  <2>2. TypeOK'
    BY <1>1, <1>6, <2>1 DEF RunClose, close_socket, TypeOK, streamVars
  <2> QED
    BY <1>6, <2>2, IdleInv DEF RunClose, close_socket, WriterInv
<1>7. CASE Transfer
  <2>1. [op |-> "written"] \in Posted
    BY DEF Posted
  <2>2. strand' \in Seq(Posted)
    BY <1>1, <1>7, <2>1, StrandType DEF Transfer
  <2>3. PICK k \in DOMAIN inflight : async_write_some(k)
    BY <1>7 DEF Transfer
  <2>4. /\ inflight' \in Seq(Operation) /\ tail' \in Seq(Item)
        /\ wire' \in Seq(Item \cup {Garbage})
        /\ OneWriteChain' /\ OperationResult' /\ QueueIsRest'
        /\ TailIsSentPart' /\ StreamIntact'
    BY <2>3, TransferInv
  <2>5. TypeOK'
    BY <1>1, <1>7, <2>2, <2>3, <2>4 DEF Transfer, async_write_some, TypeOK
  <2> QED
    BY <2>4, <2>5 DEF WriterInv
<1>8. CASE Abort
  <2>1. [op |-> "written"] \in Posted
    BY DEF Posted
  <2>2. strand' \in Seq(Posted)
    BY <1>1, <1>8, <2>1, StrandType DEF Abort
  <2>3. PICK k \in DOMAIN inflight : abort_write(k)
    BY <1>8 DEF Abort
  <2>4. /\ inflight' \in Seq(Operation)
        /\ OneWriteChain' /\ OperationResult' /\ QueueIsRest'
        /\ TailIsSentPart' /\ StreamIntact'
    BY <2>3, AbortInv
  <2>5. TypeOK'
    BY <1>1, <1>8, <2>2, <2>3, <2>4 DEF Abort, abort_write, TypeOK, streamVars
  <2> QED
    BY <2>4, <2>5 DEF WriterInv
<1>9. CASE PeerLost
  <2>1. peerUp' \in BOOLEAN
    BY <1>9, Zenon DEF PeerLost
  <2>2. TypeOK'
    BY <1>1, <1>9, <2>1 DEF PeerLost, TypeOK, streamVars
  <2> QED
    BY <1>9, <2>2, IdleInv DEF PeerLost, WriterInv
<1>10. CASE UNCHANGED vars
  <2>1. TypeOK'
    BY <1>1, <1>10 DEF vars, TypeOK
  <2> QED
    BY <1>10, <2>1, IdleInv DEF vars, streamVars, WriterInv
<1> QED
  BY <1>2, <1>3, <1>4, <1>5, <1>6, <1>7, <1>8, <1>9, <1>10 DEF Next

-----------------------------------------------------------------------------
(* The theorems.                                                           *)

\* The writer's state stays consistent in every reachable state.
THEOREM WriterInvariant == Spec => []WriterInv
BY InitInv, StepInv, PTL DEF Spec

\* Every variable keeps its type.
THEOREM TypeCorrect == Spec => []TypeOK
<1>1. WriterInv => TypeOK
  BY DEF WriterInv
<1> QED
  BY <1>1, WriterInvariant, PTL

\* do_write() and the completion handlers keep a single chain of writes, whose
\* buffer is the front of write_queue_ until its handler has run.
THEOREM SingleChain == Spec => []OneWriteChain
<1>1. WriterInv => OneWriteChain
  BY DEF WriterInv
<1> QED
  BY <1>1, WriterInvariant, PTL

\* The peer reads what was given to write(): nothing lost in between, repeated,
\* reordered or mixed, for buffers of any number of segments.
THEOREM IntactStream == Spec => []StreamIntact
<1>1. WriterInv => StreamIntact
  BY DEF WriterInv
<1> QED
  BY <1>1, WriterInvariant, PTL

\* The writer implements the FIFO stream: write() accepts a buffer, the last
\* segment of a buffer delivers it, and every other step is a stutter.
THEOREM ImplementsStream == Spec => StreamSpec
<1>1. Init => Stream!Init
  BY DEF Init, Stream!Init
<1>2. WriterInv /\ [Next]_vars => [Stream!Next]_Stream!vars
  <2> SUFFICES ASSUME WriterInv, [Next]_vars
               PROVE  Stream!Next \/ UNCHANGED <<accepted, wire>>
    BY DEF Stream!vars
  <2>1. CASE RunWrite
    <3>1. strand \in Seq(Posted) /\ Dequeue("write")
      BY <2>1 DEF RunWrite, WriterInv, TypeOK
    <3>2. Head(strand) \in Posted /\ Head(strand).op = "write"
      BY <3>1, StrandType DEF Dequeue
    <3>3. Head(strand).item \in Item
      BY <3>2 DEF Posted
    <3>4. Stream!Accept(Head(strand).item)
      BY <2>1 DEF RunWrite, write, streamVars, Stream!Accept
    <3> QED
      BY <3>3, <3>4 DEF Stream!Next
  <2>2. CASE Transfer
    <3>1. PICK k \in DOMAIN inflight : async_write_some(k)
      BY <2>2 DEF Transfer
    <3>2. accepted' = accepted
      BY <3>1 DEF async_write_some
    <3>3. IF Done'
          THEN /\ Len(wire) < Len(accepted)
               /\ wire' = Append(wire, accepted[Len(wire) + 1])
          ELSE wire' = wire
      BY <3>1, TransferStep
    <3> QED
      BY <3>2, <3>3 DEF Stream!Next, Stream!Deliver
  <2>3. CASE \/ \E i \in Item : PostWrite(i)
             \/ close \/ RunWriteHandler \/ RunClose \/ Abort \/ PeerLost
             \/ UNCHANGED vars
    BY <2>3 DEF PostWrite, close, RunWriteHandler, write_handler, RunClose,
                close_socket, Abort, abort_write, PeerLost, vars, streamVars
  <2> QED
    BY <2>1, <2>2, <2>3 DEF Next
<1> QED
  BY <1>1, <1>2, WriterInvariant, PTL DEF Spec, StreamSpec, Stream!Spec
=============================================================================
