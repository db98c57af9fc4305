-------------------------- MODULE Unpacker_proofs --------------------------
(***************************************************************************)
(* Proofs about Unpacker, for every byte stream, however it is cut into    *)
(* reads, and for every size of the counter, the first buffer and a read.  *)
(* StreamInv says where the bytes are, OwnerInv who owns the buffers, and  *)
(* FrameInv how far the parser has come in the messages.                   *)
(***************************************************************************)
EXTENDS Unpacker, SequenceTheorems, FiniteSetTheorems, WellFoundedInduction, TLAPS

-----------------------------------------------------------------------------
(* Lemmas about the operators of the model.                                *)

\* A non-empty set of numbers up to n has a largest element.
LEMMA LargestElement ==
  ASSUME NEW n \in Nat, NEW T \in SUBSET (0..n), T # {}
  PROVE  \E x \in T : \A y \in T : y <= x
<1> DEFINE U == {n - x : x \in T}
<1>1. U \subseteq Nat /\ U # {}
  <2>1. PICK x \in T : TRUE
    OBVIOUS
  <2>2. n - x \in U
    BY <2>1
  <2>3. \A y \in T : y \in 0..n
    OBVIOUS
  <2> QED
    BY <2>2, <2>3
<1>2. PICK u \in U : \A v \in U : ~ (<<v, u>> \in OpToRel(<, Nat))
  BY <1>1, WFMin, NatLessThanWellFounded
<1>3. \A v \in U : ~ (v < u)
  BY <1>1, <1>2 DEF OpToRel
<1>4. PICK x \in T : u = n - x
  OBVIOUS
<1> QED
  BY <1>3, <1>4

\* consume() stops at the last array that needs more than one value, or below all.
LEMMA LastUnfinished ==
  ASSUME NEW s \in Seq(Nat \ {0})
  PROVE  \E i \in 0..Len(s) : (\A j \in i+1..Len(s) : s[j] = 1) /\ (i = 0 \/ s[i] > 1)
<1> DEFINE T == {i \in 0..Len(s) : i = 0 \/ s[i] > 1}
           P(i) == (\A j \in i+1..Len(s) : s[j] = 1) /\ (i = 0 \/ s[i] > 1)
<1>0. Len(s) \in Nat /\ DOMAIN s = 1..Len(s)
  OBVIOUS
<1>1. T \in SUBSET (0..Len(s)) /\ 0 \in T
  <2>1. T \subseteq 0..Len(s)
    OBVIOUS
  <2>2. 0 \in T
    BY <1>0
  <2> QED
    BY <2>1, <2>2
<1>2. \E x \in T : \A y \in T : y <= x
  <2> HIDE DEF T
  <2> QED
    BY <1>0, <1>1, LargestElement
<1>3. PICK x \in T : \A y \in T : y <= x
  BY <1>2
<1>4. P(x)
  <2>1. ASSUME NEW j \in x+1..Len(s) PROVE s[j] = 1
    <3>1. j \in 1..Len(s) /\ j \notin T
      BY <1>1, <1>3, <2>1
    <3>2. s[j] \in Nat \ {0} /\ ~ (s[j] > 1)
      BY <3>1
    <3> QED
      BY <3>2
  <2> QED
    BY <2>1
<1> QED
  BY <1>1, <1>4

\* consume() leaves a stack of arrays that need one more value at least.
LEMMA ConsumedType ==
  ASSUME NEW s \in Seq(Nat \ {0})
  PROVE  Consumed(s) \in Seq(Nat \ {0})
<1> DEFINE P(i) == (\A j \in i+1..Len(s) : s[j] = 1) /\ (i = 0 \/ s[i] > 1)
           d == CHOOSE i \in 0..Len(s) : P(i)
<1>0. Len(s) \in Nat /\ DOMAIN s = 1..Len(s)
  OBVIOUS
<1>1. d \in 0..Len(s) /\ P(d)
  <2>1. \E i \in 0..Len(s) : P(i)
    BY LastUnfinished
  <2> QED
    BY <2>1
<1>2. CASE d = 0
  BY <1>2 DEF Consumed
<1>3. CASE d # 0
  <2> DEFINE q == SubSeq(s, 1, d)
  <2>1. q \in Seq(Nat \ {0}) /\ Len(q) = d /\ q[d] = s[d]
    <3> HIDE DEF d
    <3>0. d \in 1..Len(s)
      BY <1>0, <1>1, <1>3
    <3>1. d \in 1..Len(s) /\ \A i \in 1..d : s[i] \in Nat \ {0}
      BY <1>0, <3>0
    <3> QED
      BY <3>1, <1>0
  <2>2. d \in 1..Len(s) /\ s[d] > 1
    BY <1>0, <1>1, <1>3
  <2>3. [q EXCEPT ![d] = @ - 1] \in Seq(Nat \ {0})
    <3> HIDE DEF d, q
    <3>1. q[d] \in Nat /\ q[d] - 1 \in Nat \ {0}
      BY <1>0, <2>1, <2>2
    <3>2. d \in 1..Len(q)
      BY <1>0, <2>1, <2>2
    <3> QED
      BY <2>1, <3>1, <3>2
  <2>4. Consumed(s) = [q EXCEPT ![d] = @ - 1]
    BY <1>3 DEF Consumed
  <2> QED
    BY <2>3, <2>4
<1> QED
  BY <1>2, <1>3

\* A new element behind a function on the buffers.
LEMMA AppendToFunction ==
  ASSUME Len(mem) \in Nat, NEW f \in [1..Len(mem) -> Nat], NEW x \in Nat
  PROVE  /\ Append(f, x) \in [1..(Len(mem) + 1) -> Nat]
         /\ \A i \in 1..Len(mem) : Append(f, x)[i] = f[i]
         /\ Append(f, x)[Len(mem) + 1] = x
<1>1. f \in Seq(Nat)
  BY SeqDef
<1>2. Len(f) = Len(mem)
  BY <1>1, LenProperties
<1>3. /\ Append(f, x) \in Seq(Nat) /\ Len(Append(f, x)) = Len(mem) + 1
      /\ \A i \in 1..Len(mem) : Append(f, x)[i] = f[i]
      /\ Append(f, x)[Len(mem) + 1] = x
  BY <1>1, <1>2
<1>4. Append(f, x) \in [1..(Len(mem) + 1) -> Nat]
  BY <1>3, LenProperties
<1> QED
  BY <1>3, <1>4

\* The doubling ends with a number that is enough, and less than twice as much
\* as is needed or what it began with.
LEMMA DoubledBounds ==
  ASSUME NEW from \in Nat, NEW need \in Nat, NEW s \in Doubled(from, need)
  PROVE  s \in Nat /\ s >= need /\ (s = from \/ s < 2 * need)
  BY DEF Doubled
-----------------------------------------------------------------------------
(* Where the bytes are.                                                    *)

\* The offsets lie in the buffer, which holds what lies between them.
BufferShape ==
  /\ mem \in Seq(Seq(Nat)) /\ size \in [1..Len(mem) -> Nat] /\ buf \in 1..Len(mem)
  /\ used \in Nat /\ free \in Nat /\ off \in Nat
  /\ Counter <= off /\ off <= used /\ used + free = size[buf]
  /\ used - Counter <= Len(mem[buf])

\* What the parser waits for is a size that some byte has announced.
ParserShape ==
  /\ input \in Input /\ fed \in 0..Len(input.bytes)
  /\ parsed \in Nat /\ fed - parsed = used - off
  /\ cs \in {"header", "number", "body", "str", "ext", "array"}
  /\ trail \in Nat /\ stack \in Seq(Nat \ {0}) /\ delivered \in Seq(Nat)
  /\ cs # "header" =>
       trail > 0 /\ \E i \in DOMAIN input.bytes : trail <= input.bytes[i].n + 1
  /\ pc \in {"constructed", "reading", "next", "ended", "destroyed"}
  /\ pc = "constructed" => cs = "header" /\ off = used

StreamInv == BufferShape /\ ParserShape /\ ReadFits /\ UnparsedInOrder /\ BufferBounded

\* What BufferShape says of the types.
LEMMA ShapeTypes ==
  ASSUME BufferShape
  PROVE  /\ Len(mem) \in Nat /\ buf \in 1..Len(mem) /\ buf \in Nat
         /\ mem[buf] \in Seq(Nat) /\ Len(mem[buf]) \in Nat
         /\ Unparsed \in Seq(Nat)
<1> USE SizesAssumption
<1>1. Len(mem) \in Nat /\ buf \in 1..Len(mem) /\ mem[buf] \in Seq(Nat)
  BY DEF BufferShape
<1>2. Len(mem[buf]) \in Nat /\ buf \in Nat
  BY <1>1
<1>3. off - Counter + 1 \in Int /\ used - Counter \in Int
  BY DEF BufferShape
<1>4. \A i \in (off - Counter + 1)..(used - Counter) : i \in 1..Len(mem[buf])
  BY <1>2 DEF BufferShape
<1>5. \A i \in (off - Counter + 1)..(used - Counter) : mem[buf][i] \in Nat
  BY <1>1, <1>4
<1> QED
  BY <1>1, <1>2, <1>3, <1>5, SubSeqProperties DEF Unparsed

\* The new buffer of MoveTo() holds the content behind its counter.
LEMMA MoveToBuffer ==
  ASSUME BufferShape, NEW s \in Nat, NEW content \in Seq(Nat), s >= Counter + Len(content),
         MoveTo(s, content)
  PROVE  /\ BufferShape' /\ mem'[buf'] = content
         /\ used' - off' = Len(content) /\ off' = Counter
         /\ free' = s - Counter - Len(content) /\ size'[buf'] = s
<1> USE SizesAssumption
<1>1. Len(content) \in Nat /\ Len(mem) \in Nat
  BY DEF BufferShape
<1>2. mem' = Append(mem, content) /\ size' = Append(size, s) /\ buf' = Len(mem) + 1
  BY DEF MoveTo
<1>3. mem' \in Seq(Seq(Nat)) /\ Len(mem') = Len(mem) + 1 /\ mem'[buf'] = content
  BY <1>1, <1>2 DEF BufferShape
<1>4. size' \in [1..Len(mem') -> Nat] /\ size'[buf'] = s
  <2>1. size \in [1..Len(mem) -> Nat]
    BY DEF BufferShape
  <2>2. /\ Append(size, s) \in [1..Len(mem)+1 -> Nat]
        /\ Append(size, s)[Len(mem) + 1] = s
    BY <1>1, <2>1, AppendToFunction
  <2> QED
    BY <1>2, <1>3, <2>2
<1>5. buf' \in 1..Len(mem')
  BY <1>1, <1>2, <1>3
<1>6. /\ used' = Counter + Len(content) /\ off' = Counter
      /\ free' = s - Counter - Len(content)
  BY <1>1 DEF MoveTo
<1>7. used' \in Nat /\ free' \in Nat /\ off' \in Nat /\ used' + free' = s
  BY <1>1, <1>6
<1>8. Counter <= off' /\ off' <= used' /\ used' - Counter <= Len(mem'[buf'])
  BY <1>1, <1>3, <1>6
<1>9. BufferShape'
  BY <1>3, <1>4, <1>5, <1>7, <1>8 DEF BufferShape
<1> QED
  BY <1>1, <1>3, <1>4, <1>6, <1>9

\* reserve_buffer() makes room for a read and keeps the unparsed bytes, in a
\* buffer that is as large as they and the read need.
LEMMA RoomMade ==
  ASSUME BufferShape, reserve_buffer
  PROVE  /\ BufferShape' /\ free' >= ReadSize
         /\ used' - off' = used - off
         /\ \A i \in 1..(used - off) :
              mem'[buf'][off' - Counter + i] = mem[buf][off - Counter + i]
         /\ \/ size'[buf'] = size[buf]
            \/ size'[buf'] <= InitSize
            \/ size'[buf'] <= 2 * (Counter + ReadSize + (used - off))
<1> USE SizesAssumption
<1>0. mem[buf] \in Seq(Nat) /\ Len(mem[buf]) \in Nat
  BY DEF BufferShape
<1>1. CASE free >= ReadSize
  <2>1. UNCHANGED <<mem, size, buf, used, free, off>>
    BY <1>1 DEF reserve_buffer, bufVars
  <2> QED
    BY <1>1, <2>1 DEF BufferShape
<1>2. CASE ~ (free >= ReadSize)
  <2>0. expand_buffer
    BY <1>2 DEF reserve_buffer
  <2> DEFINE room == free + used - Counter
  <2>1. CASE CanRewind /\ room >= ReadSize /\ free' = room /\ used' = Counter
             /\ off' = Counter /\ UNCHANGED <<mem, size, buf>>
    <3>1. used = off /\ room \in Nat
      BY <2>1 DEF CanRewind, BufferShape
    <3>2. BufferShape'
      BY <1>0, <2>1, <3>1 DEF BufferShape
    <3>3. used' - off' = 0 /\ used - off = 0
      BY <2>1, <3>1 DEF BufferShape
    <3>4. size'[buf'] = size[buf] /\ free' >= ReadSize
      BY <2>1
    <3> QED
      BY <3>2, <3>3, <3>4
  <2>2. ASSUME NEW s, NEW content \in Seq(Nat), Len(content) = used - off, s \in Nat,
               s >= Counter + ReadSize + (used - off), MoveTo(s, content),
               \A i \in 1..(used - off) : content[i] = mem[buf][off - Counter + i],
               s <= InitSize \/ s <= 2 * (Counter + ReadSize + (used - off))
        PROVE  /\ BufferShape' /\ free' >= ReadSize
               /\ used' - off' = used - off
               /\ \A i \in 1..(used - off) :
                    mem'[buf'][off' - Counter + i] = mem[buf][off - Counter + i]
               /\ size'[buf'] <= InitSize \/ size'[buf'] <= 2 * (Counter + ReadSize + (used - off))
    <3>1. used - off \in Nat /\ s >= Counter + Len(content)
      BY <2>2 DEF BufferShape
    <3>2. /\ BufferShape' /\ mem'[buf'] = content /\ used' - off' = Len(content)
          /\ off' = Counter /\ free' = s - Counter - Len(content) /\ size'[buf'] = s
      BY <2>2, <3>1, MoveToBuffer
    <3>3. free' >= ReadSize
      BY <2>2, <3>1, <3>2
    <3>4. \A i \in 1..(used - off) : off' - Counter + i = i
      BY <3>1, <3>2
    <3> QED
      BY <2>2, <3>2, <3>3, <3>4
  <2>3. ASSUME NEW u \in Nat, NEW f \in Nat, Counter <= u, u - Counter = used - off,
               u + f = size[buf], f < ReadSize, used = off \/ off = Counter, Grow(u, f)
        PROVE  \E s \in Nat, content \in Seq(Nat) :
                 /\ Len(content) = used - off /\ MoveTo(s, content)
                 /\ s >= Counter + ReadSize + (used - off)
                 /\ \A i \in 1..(used - off) : content[i] = mem[buf][off - Counter + i]
                 /\ s <= 2 * (Counter + ReadSize + (used - off))
    <3>1. PICK s \in Doubled((u + f) * 2, ReadSize + u) :
                 MoveTo(s, SubSeq(mem[buf], 1, u - Counter))
      BY <2>3 DEF Grow
    <3>2. s \in Nat /\ s >= ReadSize + u /\ (s = (u + f) * 2 \/ s < 2 * (ReadSize + u))
      BY <2>3, <3>1, DoubledBounds
    <3> DEFINE content == SubSeq(mem[buf], 1, u - Counter)
    <3>3. used - off \in Nat /\ used - off <= Len(mem[buf])
      BY <1>0 DEF BufferShape
    <3>4. content \in Seq(Nat) /\ Len(content) = used - off
      <4>1. PICK c \in Nat : c = u - Counter /\ c = used - off /\ c <= Len(mem[buf])
        BY <2>3, <3>3
      <4>2. PICK b \in Seq(Nat) : b = mem[buf]
        BY <1>0
      <4>3. SubSeq(b, 1, c) \in Seq(Nat) /\ Len(SubSeq(b, 1, c)) = c
        <5>1. \A i \in 1..c : b[i] \in Nat
          BY <4>1, <4>2
        <5>2. /\ SubSeq(b, 1, c) \in Seq(Nat)
              /\ Len(SubSeq(b, 1, c)) = IF 1 <= c THEN c - 1 + 1 ELSE 0
          BY <5>1, SubSeqProperties
        <5> QED
          BY <4>1, <5>2
      <4> QED
        BY <4>1, <4>2, <4>3
    <3>5. ASSUME NEW i \in 1..(used - off) PROVE content[i] = mem[buf][off - Counter + i]
      <4>1. off = Counter
        BY <2>3, <3>3, <3>5 DEF BufferShape
      <4>2. content[i] = mem[buf][i]
        BY <1>0, <2>3, <3>3
      <4>3. off - Counter + i = i
        BY <4>1
      <4> QED
        BY <4>2, <4>3
    <3>6. s >= Counter + ReadSize + (used - off)
      BY <2>3, <3>2, <3>3
    <3>7. s <= 2 * (Counter + ReadSize + (used - off))
      BY <2>3, <3>2, <3>3
    <3> HIDE DEF content
    <3> QED
      BY <3>1, <3>2, <3>4, <3>5, <3>6, <3>7 DEF content
  <2>4. CASE CanRewind /\ room < ReadSize /\ Grow(Counter, room)
    <3>1. used = off /\ room \in Nat /\ Counter + room = size[buf]
      BY <2>4 DEF CanRewind, BufferShape
    <3>2. Counter - Counter = used - off
      BY <3>1 DEF BufferShape
    <3> HIDE DEF room
    <3> QED
      BY <2>2, <2>3, <2>4, <3>1, <3>2
  <2>5. CASE ~CanRewind /\ off = Counter /\ Grow(used, free)
    <3>1. used - Counter = used - off /\ Counter <= used /\ free < ReadSize
      BY <1>2, <2>5 DEF BufferShape
    <3> QED
      BY <2>2, <2>3, <2>5, <3>1 DEF BufferShape
  <2>6. CASE ~CanRewind /\ off # Counter /\ Replace
    <3> DEFINE need == ReadSize + (used - off) + Counter
    <3>1. used - off \in Nat /\ need \in Nat
      BY DEF BufferShape
    <3>2. PICK s \in Doubled(InitSize, need) : MoveTo(s, Unparsed)
      BY <2>6 DEF Replace
    <3>3. s \in Nat /\ s >= need /\ (s = InitSize \/ s < 2 * need)
      BY <3>1, <3>2, DoubledBounds
    <3>4. /\ Unparsed \in Seq(Nat) /\ Len(Unparsed) = used - off
          /\ \A i \in 1..(used - off) : Unparsed[i] = mem[buf][off - Counter + i]
      <4>1. off - Counter + 1 \in Int /\ used - Counter \in Int
        BY DEF BufferShape
      <4>2. \A i \in (off - Counter + 1)..(used - Counter) : mem[buf][i] \in Nat
        <5>1. \A i \in (off - Counter + 1)..(used - Counter) : i \in 1..Len(mem[buf])
          BY <1>0 DEF BufferShape
        <5> QED
          BY <1>0, <5>1
      <4>3. (used - Counter) - (off - Counter + 1) + 1 = used - off
        BY DEF BufferShape
      <4>4. \A i \in 1..(used - off) : (off - Counter + 1) + i - 1 = off - Counter + i
        BY DEF BufferShape
      <4>5. off - Counter + 1 <= used - Counter \/ used - off = 0
        BY DEF BufferShape
      <4> QED
        BY <4>1, <4>2, <4>3, <4>4, <4>5, SubSeqProperties, <3>1 DEF Unparsed
    <3>5. s <= InitSize \/ s <= 2 * (Counter + ReadSize + (used - off))
      BY <3>1, <3>3
    <3>6. s >= Counter + ReadSize + (used - off)
      BY <3>1, <3>3
    <3> QED
      BY <2>2, <3>2, <3>3, <3>4, <3>5, <3>6
  <2> QED
    BY <2>0, <2>1, <2>4, <2>5, <2>6 DEF expand_buffer
<1> QED
  BY <1>1, <1>2

\* The byte under m_current is one of the stream.
LEMMA CurrentByte ==
  ASSUME StreamInv, off < used
  PROVE  /\ Current \in Byte
         /\ \E i \in DOMAIN input.bytes : Current = input.bytes[i]
<1>1. mem[buf][off - Counter + 1] = parsed + 1
  <2>1. 1 \in 1..(used - off)
    BY DEF StreamInv, BufferShape
  <2> QED
    BY <2>1 DEF StreamInv, UnparsedInOrder
<1>2. input.bytes \in Seq(Byte)
  BY InputAssumption DEF StreamInv, ParserShape
<1>3. parsed + 1 \in 1..Len(input.bytes)
  BY <1>2 DEF StreamInv, ParserShape, BufferShape
<1> QED
  BY <1>1, <1>2, <1>3 DEF Current

\* Parsing n bytes that have arrived keeps the rest in order.
LEMMA AdvanceStream ==
  ASSUME StreamInv, NEW n \in Nat, n <= used - off, Advance(n),
         UNCHANGED <<input, fed, bufVars>>
  PROVE  /\ BufferShape' /\ UnparsedInOrder' /\ BufferBounded'
         /\ parsed' \in Nat /\ fed' - parsed' = used' - off'
<1> USE SizesAssumption DEF StreamInv
<1>1. /\ off' = off + n /\ parsed' = parsed + n
      /\ UNCHANGED <<input, fed, mem, size, buf, used, free>>
  BY DEF Advance, bufVars
<1>2. off \in Nat /\ used \in Nat /\ parsed \in Nat /\ fed \in Nat /\ Counter <= off
  <2>1. Len(input.bytes) \in Nat
    BY InputAssumption DEF ParserShape
  <2> QED
    BY <2>1 DEF BufferShape, ParserShape
<1>3. off' \in Nat /\ Counter <= off' /\ off' <= used
  BY <1>1, <1>2
<1>4. BufferShape'
  BY <1>1, <1>3 DEF BufferShape
<1>5. ASSUME NEW i \in 1..(used - off')
      PROVE  mem[buf][off' - Counter + i] = parsed' + i
  <2>1. n + i \in 1..(used - off)
    BY <1>1, <1>2, <1>3
  <2>2. mem[buf][off - Counter + (n + i)] = parsed + (n + i)
    BY <2>1 DEF UnparsedInOrder
  <2>3. off' - Counter + i = off - Counter + (n + i) /\ parsed' + i = parsed + (n + i)
    BY <1>1, <1>2
  <2> QED
    BY <2>2, <2>3
<1>6. UnparsedInOrder'
  BY <1>1, <1>5 DEF UnparsedInOrder
<1>7. BufferBounded'
  BY <1>1 DEF BufferBounded
<1>8. parsed' \in Nat /\ fed' - parsed' = used' - off'
  BY <1>1, <1>2 DEF ParserShape
<1> QED
  BY <1>4, <1>6, <1>7, <1>8

\* Each turn of execute() preserves the invariant.
LEMMA VisitStream ==
  ASSUME StreamInv, pc = "next", NEW n \in Nat, n <= used - off, NEW ref, visit(n, ref),
         UNCHANGED <<input, fed, bufVars, closed>>
  PROVE  StreamInv'
<1>1. Advance(n) /\ cs' = "header" /\ trail' = trail /\ stack' = Consumed(stack)
  BY DEF visit
<1>2. stack' \in Seq(Nat \ {0})
  BY <1>1, ConsumedType DEF StreamInv, ParserShape
<1>3. /\ BufferShape' /\ UnparsedInOrder' /\ BufferBounded'
      /\ parsed' \in Nat /\ fed' - parsed' = used' - off'
  BY <1>1, AdvanceStream
<1>4. pc' \in {"next", "ended"} /\ delivered' \in Seq(Nat)
  <2>1. (delivered' = delivered \/ delivered' = Append(delivered, parsed'))
        /\ (pc' = "ended" \/ pc' = pc)
    BY DEF visit, release_zone
  <2>2. delivered' \in Seq(Nat)
    <3>1. delivered \in Seq(Nat) /\ parsed' \in Nat
      BY <1>3 DEF StreamInv, ParserShape
    <3>2. Append(delivered, parsed') \in Seq(Nat)
      BY <3>1, AppendProperties
    <3> QED
      BY <2>1, <3>1, <3>2
  <2> QED
    BY <2>1, <2>2
<1>5. ParserShape'
  BY <1>1, <1>2, <1>3, <1>4 DEF StreamInv, ParserShape
<1> QED
  BY <1>3, <1>4, <1>5 DEF StreamInv, ReadFits

\* Waiting for more bytes keeps it.
LEMMA ExpectStream ==
  ASSUME StreamInv, pc = "next", NEW n \in Nat, n <= used - off,
         NEW c \in {"number", "body", "str", "ext", "array"}, NEW t \in Nat \ {0},
         \E i \in DOMAIN input.bytes : t <= input.bytes[i].n + 1,
         expect(n, c, t), UNCHANGED <<input, fed, bufVars, closed>>
  PROVE  StreamInv'
<1>1. /\ Advance(n) /\ cs' = c /\ trail' = t
      /\ UNCHANGED <<stack, delivered, pc, input, fed>>
  BY DEF expect
<1>2. /\ BufferShape' /\ UnparsedInOrder' /\ BufferBounded'
      /\ parsed' \in Nat /\ fed' - parsed' = used' - off'
  BY <1>1, AdvanceStream
<1>3. ParserShape'
  BY <1>1, <1>2 DEF StreamInv, ParserShape
<1> QED
  BY <1>1, <1>2, <1>3 DEF StreamInv, ReadFits

\* So does the start of an array, empty or not.
LEMMA AggregateStream ==
  ASSUME StreamInv, pc = "next", NEW n \in Nat, n <= used - off, NEW elements \in Nat,
         start_aggregate(n, elements), UNCHANGED <<input, fed, bufVars, closed>>
  PROVE  StreamInv'
<1>1. CASE visit(n, FALSE)
  BY <1>1, VisitStream
<1>2. CASE ~visit(n, FALSE)
  <2>1. /\ elements > 0 /\ Advance(n) /\ cs' = "header" /\ stack' = Append(stack, elements)
        /\ UNCHANGED <<trail, delivered, pc, input, fed>>
    BY <1>2 DEF start_aggregate
  <2>2. /\ BufferShape' /\ UnparsedInOrder' /\ BufferBounded'
        /\ parsed' \in Nat /\ fed' - parsed' = used' - off'
    BY <2>1, AdvanceStream
  <2>3. stack' \in Seq(Nat \ {0})
    BY <2>1 DEF StreamInv, ParserShape
  <2>4. ParserShape'
    BY <2>1, <2>2, <2>3 DEF StreamInv, ParserShape
  <2> QED
    BY <2>1, <2>2, <2>4 DEF StreamInv, ReadFits
<1> QED
  BY <1>1, <1>2

\* The first half of execute().
LEMMA HeaderStream == StreamInv /\ Header => StreamInv'
<1> SUFFICES ASSUME StreamInv, Header PROVE StreamInv'
  OBVIOUS
<1>1. pc = "next" /\ off < used /\ UNCHANGED <<input, fed, bufVars, closed>>
  BY DEF Header
<1>2. 1 <= used - off
  BY <1>1 DEF StreamInv, BufferShape
<1>3. Current \in Byte /\ \E i \in DOMAIN input.bytes : Current = input.bytes[i]
  BY <1>1, CurrentByte
<1>4. CASE visit(1, FALSE)
  BY <1>1, <1>2, <1>4, VisitStream
<1>5. CASE visit(1, TRUE)
  BY <1>1, <1>2, <1>5, VisitStream
<1>6. CASE start_aggregate(1, Current.n)
  <2>1. Current.n \in Nat
    BY <1>3 DEF Byte
  <2> QED
    BY <1>1, <1>2, <1>6, <2>1, AggregateStream
<1>7. CASE /\ Current.k \in {"number", "body", "str", "ext", "array"}
           /\ expect(1, Current.k, Current.n)
  <2>1. Current.n \in Nat \ {0}
    BY <1>3, <1>7 DEF Byte
  <2>2. \E i \in DOMAIN input.bytes : Current.n <= input.bytes[i].n + 1
    BY <1>3, <2>1
  <2> QED
    BY <1>1, <1>2, <1>7, <2>1, <2>2, ExpectStream
<1> QED
  BY <1>4, <1>5, <1>6, <1>7 DEF Header

\* The second half of execute().
LEMMA TrailStream == StreamInv /\ Trail => StreamInv'
<1> SUFFICES ASSUME StreamInv, Trail PROVE StreamInv'
  OBVIOUS
<1>1. pc = "next" /\ UNCHANGED <<input, fed, bufVars, closed>>
  BY DEF Trail
<1>2. trail \in Nat /\ trail <= used - off /\ trail > 0
  BY DEF Trail, StreamInv, ParserShape, BufferShape
<1>3. off < used
  BY <1>2 DEF StreamInv, BufferShape
<1>4. Current \in Byte /\ \E i \in DOMAIN input.bytes : Current = input.bytes[i]
  BY <1>3, CurrentByte
<1>5. Current.n \in Nat
  BY <1>4 DEF Byte
<1>6. CASE visit(trail, FALSE)
  BY <1>1, <1>2, <1>6, VisitStream
<1>7. CASE visit(trail, TRUE)
  BY <1>1, <1>2, <1>7, VisitStream
<1>8. CASE Current.n > 0 /\ expect(trail, "body", Current.n)
  <2>1. \E i \in DOMAIN input.bytes : Current.n <= input.bytes[i].n + 1
    BY <1>4, <1>5
  <2> QED
    BY <1>1, <1>2, <1>5, <1>8, <2>1, ExpectStream
<1>9. CASE expect(trail, "body", Current.n + 1)
  <2>1. \E i \in DOMAIN input.bytes : Current.n + 1 <= input.bytes[i].n + 1
    BY <1>4, <1>5
  <2> QED
    BY <1>1, <1>2, <1>5, <1>9, <2>1, ExpectStream
<1>10. CASE start_aggregate(trail, Current.n)
  BY <1>1, <1>2, <1>5, <1>10, AggregateStream
<1> QED
  BY <1>6, <1>7, <1>8, <1>9, <1>10 DEF Trail

\* A read starts with room for it.
LEMMA ReserveStream ==
  ASSUME StreamInv, reserve_buffer, pc' = "reading",
         used = off \/ (cs # "header" /\ used - off < trail),
         UNCHANGED <<input, fed, cs, trail, stack, parsed, delivered>>
  PROVE  StreamInv'
<1> USE SizesAssumption
<1>1. /\ BufferShape' /\ free' >= ReadSize
      /\ used' - off' = used - off
      /\ \A i \in 1..(used - off) :
           mem'[buf'][off' - Counter + i] = mem[buf][off - Counter + i]
      /\ \/ size'[buf'] = size[buf]
         \/ size'[buf'] <= InitSize
         \/ size'[buf'] <= 2 * (Counter + ReadSize + (used - off))
  BY RoomMade DEF StreamInv
<1>2. UnparsedInOrder'
  BY <1>1 DEF StreamInv, UnparsedInOrder
<1>3. ParserShape'
  BY <1>1 DEF StreamInv, ParserShape
<1>4. BufferBounded'
  <2>1. CASE size'[buf'] <= 2 * (Counter + ReadSize + (used - off))
    <3>1. CASE used = off
      <4>1. used - off = 0
        BY <3>1 DEF StreamInv, BufferShape
      <4> QED
        BY <2>1, <4>1 DEF BufferBounded
    <3>2. CASE cs # "header" /\ used - off < trail
      <4>1. PICK i \in DOMAIN input.bytes : trail <= input.bytes[i].n + 1
        BY <3>2 DEF StreamInv, ParserShape
      <4>2. input.bytes[i].n \in Nat
        <5>1. input.bytes \in Seq(Byte)
          BY InputAssumption DEF StreamInv, ParserShape
        <5>2. input.bytes[i] \in Byte
          BY <5>1
        <5> QED
          BY <5>2 DEF Byte
      <4>3. size'[buf'] \in Nat
        BY <1>1 DEF BufferShape
      <4>4. size'[buf'] <= 2 * (Counter + ReadSize + input.bytes[i].n + 1)
        <5>1. used - off \in Nat /\ trail \in Nat
          BY DEF StreamInv, BufferShape, ParserShape
        <5>2. used - off <= input.bytes[i].n + 1
          BY <3>2, <4>1, <4>2, <5>1
        <5> QED
          BY <2>1, <4>2, <4>3, <5>1, <5>2
      <4> QED
        BY <4>4 DEF BufferBounded
    <3> QED
      BY <3>1, <3>2
  <2>2. CASE size'[buf'] = size[buf] \/ size'[buf'] <= InitSize
    BY <2>2 DEF StreamInv, BufferBounded
  <2> QED
    BY <1>1, <2>1, <2>2
<1> QED
  BY <1>1, <1>2, <1>3, <1>4 DEF StreamInv, ReadFits

\* What arrives is written behind what is there.
LEMMA ReadBytes ==
  ASSUME StreamInv, NEW n \in Nat, Read(n)
  PROVE  /\ mem' \in Seq(Seq(Nat)) /\ Len(mem') = Len(mem) /\ buf' = buf
         /\ \A b \in 1..Len(mem) : b # buf => mem'[b] = mem[b]
         /\ Len(mem'[buf]) >= (used - Counter) + n
         /\ \A j \in 1..(used - Counter) : mem'[buf][j] = mem[buf][j]
         /\ \A j \in 1..n : mem'[buf][(used - Counter) + j] = fed + j
<1> USE SizesAssumption
<1> DEFINE m == mem[buf]
           at == used - Counter
           w == Written(m, at, fed + 1, n)
<1>1. m \in Seq(Nat) /\ at \in Nat /\ at <= Len(m) /\ fed \in Nat /\ Len(m) \in Nat
  <2>1. input.bytes \in Seq(Byte)
    BY InputAssumption DEF StreamInv, ParserShape
  <2>2. fed \in Nat
    BY <2>1 DEF StreamInv, ParserShape
  <2>3. at \in Nat /\ at <= Len(m) /\ m \in Seq(Nat) /\ Len(m) \in Nat
    BY ShapeTypes DEF StreamInv, BufferShape
  <2> QED
    BY <2>2, <2>3
<1>2. /\ w \in Seq(Nat) /\ Len(w) >= at + n
      /\ \A j \in 1..at : w[j] = m[j]
      /\ \A j \in 1..n : w[at + j] = fed + j
  <2> HIDE DEF m, at
  <2> DEFINE k == IF at + n > Len(m) THEN at + n ELSE Len(m)
  <2>1. k \in Nat /\ k >= at + n /\ w = [j \in 1..k |->
          IF j > at /\ j <= at + n THEN fed + 1 + (j - at) - 1 ELSE m[j]]
    BY <1>1 DEF Written
  <2> HIDE DEF k
  <2>2. \A j \in 1..k : (IF j > at /\ j <= at + n THEN fed + 1 + (j - at) - 1 ELSE m[j]) \in Nat
    <3> SUFFICES ASSUME NEW j \in 1..k, ~ (j > at /\ j <= at + n) PROVE j \in 1..Len(m)
      BY <1>1, <2>1
    <3> QED
      BY <1>1, <2>1 DEF k
  <2>3. w \in [1..k -> Nat]
    BY <2>1, <2>2
  <2>4. w \in Seq(Nat) /\ Len(w) = k
    BY <2>1, <2>3
  <2> QED
    BY <1>1, <2>1, <2>4
<1>3. mem' = [mem EXCEPT ![buf] = w] /\ buf' = buf
  BY DEF Read
<1> HIDE DEF w, m, at
<1>4. /\ mem' \in Seq(Seq(Nat)) /\ Len(mem') = Len(mem) /\ mem'[buf] = w
      /\ \A b \in 1..Len(mem) : b # buf => mem'[b] = mem[b]
  BY <1>2, <1>3 DEF StreamInv, BufferShape
<1> QED
  BY <1>2, <1>3, <1>4 DEF at, m

\* A read that completes puts the next bytes behind the others.
LEMMA ReadStream == ASSUME StreamInv, NEW n \in Nat, Read(n) PROVE StreamInv'
<1> USE SizesAssumption
<1> DEFINE at == used - Counter
<1>1. at \in Nat /\ fed \in Nat /\ at <= Len(mem[buf])
  <2>1. input.bytes \in Seq(Byte)
    BY InputAssumption DEF StreamInv, ParserShape
  <2>2. fed \in Nat
    BY <2>1 DEF StreamInv, ParserShape
  <2>3. at \in Nat /\ at <= Len(mem[buf])
    BY DEF StreamInv, BufferShape
  <2> QED
    BY <2>2, <2>3
<1>2. /\ \A j \in 1..at : mem'[buf][j] = mem[buf][j]
      /\ \A j \in 1..n : mem'[buf][at + j] = fed + j
  BY ReadBytes, Zenon
<1>3. UNCHANGED <<input, size, buf, off, parsed>>
  BY DEF Read
<1>4. /\ mem' \in Seq(Seq(Nat)) /\ Len(mem') = Len(mem)
      /\ mem'[buf] \in Seq(Nat) /\ Len(mem'[buf]) \in Nat /\ Len(mem'[buf]) >= at + n
  <2>1. mem' \in Seq(Seq(Nat)) /\ Len(mem') = Len(mem)
    BY ReadBytes, Zenon
  <2>4. Len(mem'[buf]) >= at + n
    BY ReadBytes, Zenon
  <2>2. buf \in 1..Len(mem)
    BY ShapeTypes DEF StreamInv
  <2>3. mem'[buf] \in Seq(Nat)
    BY <2>1, <2>2
  <2> QED
    BY <2>1, <2>3, <2>4
<1>5. BufferBounded'
  BY <1>3 DEF StreamInv, BufferBounded
<1>6. CASE closed
  <2>1. pc' = "ended" /\ UNCHANGED <<fed, used, free, cs, trail, stack, delivered>>
    BY <1>6 DEF Read
  <2>2. BufferShape'
    <3>1. used' - Counter <= Len(mem'[buf'])
      BY <1>1, <1>3, <1>4, <2>1
    <3> QED
      BY <1>3, <1>4, <2>1, <3>1 DEF StreamInv, BufferShape
  <2>3. UnparsedInOrder'
    <3>1. ASSUME NEW i \in 1..(used - off) PROVE mem'[buf'][off - Counter + i] = parsed + i
      <4>1. off - Counter + i \in 1..at
        BY <1>1 DEF StreamInv, BufferShape
      <4>2. mem'[buf][off - Counter + i] = mem[buf][off - Counter + i]
        BY <1>2, <4>1
      <4> QED
        BY <1>3, <4>2 DEF StreamInv, UnparsedInOrder
    <3> QED
      BY <1>3, <2>1, <3>1 DEF UnparsedInOrder
  <2>4. ParserShape'
    BY <1>3, <2>1 DEF StreamInv, ParserShape
  <2> QED
    BY <1>5, <2>1, <2>2, <2>3, <2>4 DEF StreamInv, ReadFits
<1>7. CASE ~closed
  <2>1. /\ pc' = "next" /\ fed' = fed + n /\ used' = used + n /\ free' = free - n
        /\ UNCHANGED <<cs, trail, stack, delivered>>
        /\ pc = "reading" /\ n <= ReadSize /\ fed + n <= Len(input.bytes)
    BY <1>7 DEF Read
  <2>2. free - n \in Nat
    BY <2>1 DEF StreamInv, BufferShape, ReadFits
  <2>3. BufferShape'
    <3>1. used' - Counter <= Len(mem'[buf'])
      <4>1. used \in Nat
        BY DEF StreamInv, BufferShape
      <4>2. used' - Counter = at + n
        BY <2>1, <4>1
      <4> QED
        BY <1>3, <1>4, <4>2
    <3> QED
      BY <1>3, <1>4, <2>1, <2>2, <3>1 DEF StreamInv, BufferShape
  <2>4. UnparsedInOrder'
    <3>1. ASSUME NEW i \in 1..(used' - off) PROVE mem'[buf'][off - Counter + i] = parsed + i
      <4>1. used \in Nat /\ off \in Nat /\ Counter <= off /\ off <= used
            /\ parsed \in Nat /\ fed - parsed = used - off
        BY DEF StreamInv, BufferShape, ParserShape
      <4>2. CASE i <= used - off
        <5>1. off - Counter + i \in 1..at
          BY <1>1, <4>1, <4>2
        <5>2. mem'[buf][off - Counter + i] = mem[buf][off - Counter + i]
          BY <1>2, <5>1
        <5>3. i \in 1..(used - off)
          BY <4>1, <4>2
        <5> QED
          BY <1>3, <5>2, <5>3 DEF StreamInv, UnparsedInOrder
      <4>3. CASE ~ (i <= used - off)
        <5> DEFINE j == i - (used - off)
        <5>1. j \in 1..n /\ off - Counter + i = at + j
          BY <2>1, <4>1, <4>3
        <5>2. mem'[buf][at + j] = fed + j
          BY <1>2, <5>1
        <5>3. fed + j = parsed + i
          BY <1>1, <4>1
        <5> QED
          BY <1>3, <5>1, <5>2, <5>3
      <4> QED
        BY <4>2, <4>3
    <3> QED
      BY <1>3, <2>1, <3>1 DEF UnparsedInOrder
  <2>5. ParserShape'
    BY <1>1, <1>3, <2>1 DEF StreamInv, ParserShape, BufferShape
  <2> QED
    BY <1>5, <2>1, <2>3, <2>4, <2>5 DEF StreamInv, ReadFits
<1> QED
  BY <1>6, <1>7

\* The constructor of the unpacker.
LEMMA StreamInit == Init => StreamInv
<1> SUFFICES ASSUME Init PROVE StreamInv
  OBVIOUS
<1> USE SizesAssumption, InputAssumption DEF Init
<1>1. mem \in Seq(Seq(Nat)) /\ Len(mem) = 1 /\ mem[1] = <<>> /\ Len(mem[1]) = 0
  OBVIOUS
<1>2. size \in [1..Len(mem) -> Nat] /\ size[buf] = InitSize
  BY <1>1
<1>3. BufferShape
  BY <1>1, <1>2 DEF BufferShape
<1>4. ParserShape
  <2>1. Len(input.bytes) \in Nat
    OBVIOUS
  <2> QED
    BY <2>1 DEF ParserShape
<1>5. UnparsedInOrder
  <2>1. used - off = 0
    OBVIOUS
  <2> QED
    BY <2>1 DEF UnparsedInOrder
<1>6. ReadFits /\ BufferBounded
  BY <1>2 DEF ReadFits, BufferBounded
<1> QED
  BY <1>3, <1>4, <1>5, <1>6 DEF StreamInv

\* Every step keeps the stream in order.
LEMMA StreamNext == StreamInv /\ [Next]_vars => StreamInv'
<1> SUFFICES ASSUME StreamInv, [Next]_vars PROVE StreamInv'
  OBVIOUS
<1>1. ASSUME UNCHANGED <<input, fed, bufVars, off, cs, trail, stack, parsed, delivered>>,
             pc' = pc \/ pc' \in {"ended", "destroyed"}
      PROVE  StreamInv'
  <2>1. BufferShape'
    BY <1>1 DEF StreamInv, BufferShape, bufVars
  <2>2. ParserShape'
    BY <1>1 DEF StreamInv, ParserShape, bufVars
  <2> QED
    BY <1>1, <2>1, <2>2 DEF StreamInv, ReadFits, UnparsedInOrder, BufferBounded, bufVars
<1>2. CASE Start
  <2>1. used = off
    BY <1>2 DEF Start, StreamInv, ParserShape
  <2> QED
    BY <1>2, <2>1, ReserveStream DEF Start
<1>3. ASSUME NEW n \in 1..ReadSize, Read(n) PROVE StreamInv'
  <2>1. n \in Nat
    BY SizesAssumption
  <2> QED
    BY <1>3, <2>1, ReadStream
<1>4. CASE Header
  BY <1>4, HeaderStream
<1>5. CASE Trail
  BY <1>5, TrailStream
<1>6. CASE Reread
  <2>1. CASE closed
    BY <1>1, <1>6, <2>1 DEF Reread
  <2>2. CASE ~closed
    <3>1. used = off \/ (cs # "header" /\ used - off < trail)
      BY <1>6 DEF Reread
    <3> QED
      BY <1>6, <2>2, <3>1, ReserveStream DEF Reread
  <2> QED
    BY <2>1, <2>2
<1>7. ASSUME NEW m \in live, Release(m) PROVE StreamInv'
  BY <1>1, <1>7 DEF Release
<1>8. CASE Close
  BY <1>1, <1>8 DEF Close
<1>9. CASE Destroy
  BY <1>1, <1>9 DEF Destroy
<1>10. CASE UNCHANGED vars
  BY <1>1, <1>10 DEF vars
<1> QED
  BY <1>2, <1>3, <1>4, <1>5, <1>6, <1>7, <1>8, <1>9, <1>10 DEF Next

\* The invariant of the byte stream holds throughout.
LEMMA StreamAlways == Spec => []StreamInv
<1> QED
  BY StreamInit, StreamNext, PTL DEF Spec

\* async_read_some() is never given more than the room behind buffer(): reserve_buffer()
\* makes it in the constructors and after every loop of do_read().
THEOREM ReadsFit == Spec => []ReadFits
<1>1. StreamInv => ReadFits
  BY DEF StreamInv
<1> QED
  BY <1>1, StreamAlways, PTL

\* However expand_buffer() moves them, the bytes next() has still to parse are
\* the ones that have arrived, in order.
THEOREM NoByteLost == Spec => []UnparsedInOrder
<1>1. StreamInv => UnparsedInOrder
  BY DEF StreamInv
<1> QED
  BY <1>1, StreamAlways, PTL

\* expand_buffer() never makes the buffer larger than twice what the longest
\* string and a read need.
THEOREM BufferStaysSmall == Spec => []BufferBounded
<1>1. StreamInv => BufferBounded
  BY DEF StreamInv
<1> QED
  BY <1>1, StreamAlways, PTL
-----------------------------------------------------------------------------
(* Who owns the buffers.                                                   *)

\* The messages that share a buffer.
Shares(b) == {m \in live : b \in m.fin}

\* A reference is to bytes of the stream, and in the current buffer to bytes
\* that were parsed.
RefIn(r) ==
  /\ \A j \in 1..r.len : mem[r.buf][r.at + j] = r.idx + j - 1
  /\ r.buf = buf => r.at + r.len <= off - Counter

\* A zone has a finalizer for every buffer its references are in, except that
\* the zone of the unfinished message refers to the current buffer by m_referenced.
OwnerInv ==
  /\ count \in [1..Len(mem) -> Nat] /\ CountExact
  /\ referenced \in BOOLEAN /\ closed \in BOOLEAN
  /\ zone \in [refs : SUBSET Reference, fin : SUBSET Nat]
  /\ live \subseteq [id : Nat, refs : SUBSET Reference, fin : SUBSET Nat]
  /\ IsFiniteSet(live)
  /\ zone.fin \subseteq (1..Len(mem)) \ {buf}
  /\ \A m \in live : m.id <= Len(delivered) /\ m.fin \subseteq 1..Len(mem)
  /\ \A m \in live : \A r \in m.refs : r.buf \in m.fin /\ RefIn(r)
  /\ \A r \in zone.refs : RefIn(r) /\ (r.buf \in zone.fin \/ (r.buf = buf /\ referenced))
  /\ referenced \/ Shares(buf) # {} => off > Counter
  /\ pc = "destroyed" => zone = EmptyZone

\* The counter of a buffer, with the number of messages that share it.
LEMMA CountOf ==
  ASSUME BufferShape, OwnerInv, NEW b \in 1..Len(mem)
  PROVE  /\ IsFiniteSet(Shares(b)) /\ Cardinality(Shares(b)) \in Nat
         /\ Cardinality(Shares(b)) = 0 <=> Shares(b) = {}
         /\ count[b] = Cardinality(Shares(b)) + (IF b \in zone.fin THEN 1 ELSE 0)
                       + (IF b = buf /\ pc # "destroyed" THEN 1 ELSE 0)
<1>1. IsFiniteSet(live) /\ Shares(b) \in SUBSET live
  BY DEF OwnerInv, Shares
<1>2. IsFiniteSet(Shares(b))
  BY <1>1, FS_Subset
<1>3. Cardinality(Shares(b)) \in Nat
  BY <1>2, FS_CardinalityType
<1>4. Cardinality(Shares(b)) = 0 <=> Shares(b) = {}
  BY <1>2, FS_EmptySet
<1>5. DOMAIN mem = 1..Len(mem)
  BY DEF BufferShape
<1> QED
  BY <1>2, <1>3, <1>4, <1>5 DEF OwnerInv, CountExact, Shares, Buffer

\* A step that leaves the owners alone and no parsed byte changes.
LEMMA OwnersUnchanged ==
  ASSUME BufferShape, BufferShape', OwnerInv,
         UNCHANGED <<live, zone, count, referenced, buf, delivered>>,
         Len(mem') = Len(mem), off' >= off, closed' \in BOOLEAN,
         \A b \in 1..Len(mem) : b # buf => mem'[b] = mem[b],
         \A j \in 1..(off - Counter) : mem'[buf][j] = mem[buf][j],
         pc' = "destroyed" <=> pc = "destroyed"
  PROVE  OwnerInv'
<1> USE SizesAssumption
<1>1. DOMAIN mem' = 1..Len(mem) /\ DOMAIN mem = 1..Len(mem)
  BY DEF BufferShape
<1>2. CountExact'
  BY <1>1 DEF OwnerInv, CountExact, Buffer
<1>3. ASSUME NEW r \in Reference, RefIn(r), r.buf \in 1..Len(mem) PROVE RefIn(r)'
  <2>0. r.at \in Nat /\ r.len \in Nat /\ off \in Nat /\ off' \in Nat
    BY DEF Reference, BufferShape
  <2>1. ASSUME NEW j \in 1..r.len PROVE mem'[r.buf][r.at + j] = mem[r.buf][r.at + j]
    <3>1. CASE r.buf = buf
      <4>1. r.at + j \in 1..(off - Counter)
        <5>1. r.at + r.len <= off - Counter
          BY <1>3, <3>1 DEF RefIn
        <5> QED
          BY <2>0, <5>1
      <4> QED
        BY <3>1, <4>1
    <3> QED
      BY <1>3, <3>1
  <2>2. r.buf = buf' => r.at + r.len <= off' - Counter
    <3> SUFFICES ASSUME r.buf = buf PROVE r.at + r.len <= off' - Counter
      OBVIOUS
    <3>1. r.at + r.len <= off - Counter
      BY <1>3 DEF RefIn
    <3> QED
      BY <2>0, <3>1
  <2> QED
    BY <1>3, <2>1, <2>2 DEF RefIn
<1>4. \A m \in live : \A r \in m.refs : r \in Reference /\ r.buf \in 1..Len(mem)
  BY DEF OwnerInv
<1>5. \A r \in zone.refs : r \in Reference /\ r.buf \in 1..Len(mem)
  BY DEF OwnerInv, BufferShape
<1>6. (\A m \in live : \A r \in m.refs : r.buf \in m.fin /\ RefIn(r))'
  BY <1>3, <1>4 DEF OwnerInv
<1>7. (\A r \in zone.refs : RefIn(r) /\ (r.buf \in zone.fin \/ (r.buf = buf /\ referenced)))'
  BY <1>3, <1>5 DEF OwnerInv
<1>8. (referenced \/ Shares(buf) # {} => off > Counter)'
  BY DEF OwnerInv, Shares, BufferShape
<1> QED
  BY <1>2, <1>6, <1>7, <1>8 DEF OwnerInv

\* decr_count() for a set of buffers.
LEMMA ReleasedCount ==
  ASSUME NEW c \in [1..Len(mem) -> Nat], NEW fin,
         \A b \in 1..Len(mem) : b \in fin => c[b] > 0
  PROVE  /\ Released(c, fin) \in [1..Len(mem) -> Nat]
         /\ \A b \in 1..Len(mem) : Released(c, fin)[b] = IF b \in fin THEN c[b] - 1 ELSE c[b]
<1>1. \A b \in 1..Len(mem) : (IF b \in fin THEN c[b] - 1 ELSE c[b]) \in Nat
  OBVIOUS
<1> QED
  BY <1>1 DEF Released

\* The end of a message gives back its shares.
LEMMA ReleaseOwner ==
  ASSUME BufferShape, OwnerInv, NEW m \in live, Release(m)
  PROVE  OwnerInv'
<1>1. /\ live' = live \ {m} /\ count' = Released(count, m.fin)
      /\ UNCHANGED <<mem, buf, off, referenced, zone, delivered, pc, closed>>
  BY DEF Release, bufVars
<1>2. count \in [1..Len(mem) -> Nat] /\ Len(mem) \in Nat /\ DOMAIN mem = 1..Len(mem)
  BY DEF OwnerInv, BufferShape
<1>3. ASSUME NEW b \in 1..Len(mem), b \in m.fin PROVE count[b] > 0
  <2>1. Shares(b) # {}
    BY <1>3 DEF Shares
  <2> QED
    BY <2>1, CountOf
<1>4. /\ count' \in [1..Len(mem) -> Nat]
      /\ \A b \in 1..Len(mem) : count'[b] = IF b \in m.fin THEN count[b] - 1 ELSE count[b]
  BY <1>1, <1>2, <1>3, ReleasedCount
<1>5. ASSUME NEW b \in 1..Len(mem)
      PROVE  count'[b] = Cardinality({x \in live' : b \in x.fin})
                         + (IF b \in zone.fin THEN 1 ELSE 0)
                         + (IF b = buf /\ pc # "destroyed" THEN 1 ELSE 0)
  <2>1. {x \in live' : b \in x.fin} = Shares(b) \ {m}
    BY <1>1 DEF Shares
  <2>2. Cardinality(Shares(b) \ {m}) =
          IF m \in Shares(b) THEN Cardinality(Shares(b)) - 1 ELSE Cardinality(Shares(b))
    BY CountOf, FS_RemoveElement
  <2>3. m \in Shares(b) <=> b \in m.fin
    BY DEF Shares
  <2>4. PICK k \in Nat : k = Cardinality(Shares(b))
    BY CountOf
  <2>5. count[b] = k + (IF b \in zone.fin THEN 1 ELSE 0)
                   + (IF b = buf /\ pc # "destroyed" THEN 1 ELSE 0)
    BY <2>4, CountOf
  <2>6. Cardinality({x \in live' : b \in x.fin}) = IF b \in m.fin THEN k - 1 ELSE k
    BY <2>1, <2>2, <2>3, <2>4, Zenon
  <2>7. count'[b] = (IF b \in m.fin THEN k - 1 ELSE k) + (IF b \in zone.fin THEN 1 ELSE 0)
                    + (IF b = buf /\ pc # "destroyed" THEN 1 ELSE 0)
    BY <1>4, <2>5
  <2> QED
    BY <2>6, <2>7, Zenon
<1>6. CountExact'
  BY <1>1, <1>2, <1>5 DEF CountExact, Buffer
<1>7. IsFiniteSet(live')
  BY <1>1, FS_RemoveElement DEF OwnerInv
<1>8. \A r : RefIn(r)' <=> RefIn(r)
  BY <1>1 DEF RefIn
<1>9. (referenced \/ Shares(buf) # {} => off > Counter)'
  BY <1>1 DEF OwnerInv, Shares
<1> QED
  BY <1>1, <1>4, <1>6, <1>7, <1>8, <1>9 DEF OwnerInv

\* A read writes behind every reference.
LEMMA ReadOwner ==
  ASSUME StreamInv, StreamInv', OwnerInv, NEW n \in Nat, Read(n)
  PROVE  OwnerInv'
<1>1. /\ UNCHANGED <<live, zone, count, referenced, buf, delivered, off, closed>>
      /\ pc = "reading" /\ pc' # "destroyed"
  BY DEF Read
<1>2. /\ Len(mem') = Len(mem)
      /\ \A b \in 1..Len(mem) : b # buf => mem'[b] = mem[b]
      /\ \A j \in 1..(used - Counter) : mem'[buf][j] = mem[buf][j]
  BY ReadBytes
<1>3. \A j \in 1..(off - Counter) : j \in 1..(used - Counter)
  BY SizesAssumption DEF StreamInv, BufferShape
<1>4. off' >= off /\ closed' \in BOOLEAN
  BY <1>1 DEF StreamInv, BufferShape, OwnerInv
<1> QED
  BY <1>1, <1>2, <1>3, <1>4, OwnersUnchanged DEF StreamInv

\* The unpacker goes over to a new buffer; its share of the old one goes to the
\* zone of the unfinished message, or is given back.
LEMMA MoveOwner ==
  ASSUME BufferShape, BufferShape', OwnerInv, pc # "destroyed", pc' # "destroyed",
         NEW content, mem' = Append(mem, content), content \in Seq(Nat),
         buf' = Len(mem) + 1,
         UNCHANGED <<live, delivered, closed>>,
         count' \in [1..(Len(mem) + 1) -> Nat], count'[Len(mem) + 1] = 1,
         \A b \in 1..Len(mem) :
           count'[b] = IF b = buf /\ buf \notin zone'.fin THEN count[b] - 1 ELSE count[b],
         zone' \in [refs : SUBSET Reference, fin : SUBSET Nat],
         zone'.refs = zone.refs,
         zone'.fin = zone.fin \/ zone'.fin = zone.fin \cup {buf},
         referenced => buf \in zone'.fin,
         referenced' = FALSE
  PROVE  OwnerInv'
<1> DEFINE n == Len(mem)
<1>1. n \in Nat /\ buf \in 1..n /\ DOMAIN mem = 1..n /\ buf' = n + 1
  BY DEF BufferShape
<1>2. Len(mem') = n + 1 /\ DOMAIN mem' = 1..(n + 1) /\ \A b \in 1..n : mem'[b] = mem[b]
  BY DEF BufferShape
<1>3. buf \notin zone.fin /\ zone.fin \subseteq 1..n /\ zone'.fin \subseteq 1..n
  BY <1>1 DEF OwnerInv
<1>4. \A m \in live : m.fin \subseteq 1..n
  BY DEF OwnerInv
<1>5. ASSUME NEW b \in 1..(n + 1)
      PROVE  count'[b] = Cardinality({m \in live' : b \in m.fin})
                         + (IF b \in zone'.fin THEN 1 ELSE 0)
                         + (IF b = buf' /\ pc' # "destroyed" THEN 1 ELSE 0)
  <2>1. {m \in live' : b \in m.fin} = Shares(b)
    BY DEF Shares
  <2>2. CASE b = n + 1
    <3>1. Shares(b) = {}
      BY <1>1, <1>4, <2>2 DEF Shares
    <3>2. Cardinality(Shares(b)) = 0
      BY <3>1, FS_EmptySet
    <3>3. b \notin zone'.fin
      BY <1>1, <1>3, <2>2
    <3>4. Cardinality({m \in live' : b \in m.fin}) = 0
      BY <2>1, <3>2, Zenon
    <3> QED
      BY <1>1, <2>2, <3>3, <3>4
  <2>3. CASE b # n + 1
    <3>1. b \in 1..n
      BY <1>1, <2>3
    <3>2. /\ Cardinality(Shares(b)) \in Nat
          /\ count[b] = Cardinality(Shares(b)) + (IF b \in zone.fin THEN 1 ELSE 0)
                        + (IF b = buf THEN 1 ELSE 0)
      BY <3>1, CountOf
    <3>3. count'[b] = IF b = buf /\ buf \notin zone'.fin THEN count[b] - 1 ELSE count[b]
      BY <3>1
    <3>4. b # buf => (b \in zone'.fin <=> b \in zone.fin)
      OBVIOUS
    <3>5. PICK k \in Nat : k = Cardinality(Shares(b))
      BY <3>2
    <3>6. Cardinality({m \in live' : b \in m.fin}) = k
      BY <2>1, <3>5, Zenon
    <3>7. count'[b] = k + (IF b \in zone'.fin THEN 1 ELSE 0)
      BY <1>1, <1>3, <3>2, <3>3, <3>4, <3>5
    <3> QED
      BY <1>1, <2>3, <3>6, <3>7
  <2> QED
    BY <2>2, <2>3
<1>6. CountExact'
  BY <1>2, <1>5 DEF CountExact, Buffer
<1>7. ASSUME NEW r, RefIn(r), r.buf \in 1..n PROVE RefIn(r)'
  BY <1>1, <1>2, <1>7 DEF RefIn
<1>8. (\A m \in live : \A r \in m.refs : r.buf \in m.fin /\ RefIn(r))'
  BY <1>4, <1>7 DEF OwnerInv
<1>9. \A r \in zone.refs : r.buf \in zone'.fin /\ r.buf \in 1..n /\ RefIn(r)
  BY <1>1, <1>3 DEF OwnerInv
<1>10. (\A r \in zone.refs : RefIn(r) /\ (r.buf \in zone.fin \/ (r.buf = buf /\ referenced)))'
  BY <1>7, <1>9
<1>11. Shares(buf)' = {}
  BY <1>1, <1>4 DEF Shares
<1>12. (zone.fin \subseteq (1..Len(mem)) \ {buf})'
  BY <1>1, <1>2, <1>3
<1>13. (\A m \in live : m.id <= Len(delivered) /\ m.fin \subseteq 1..Len(mem))'
  BY <1>1, <1>2, <1>4 DEF OwnerInv
<1> QED
  BY <1>2, <1>6, <1>8, <1>10, <1>11, <1>12, <1>13 DEF OwnerInv

\* reserve_buffer() frees or rewinds a buffer only if nothing refers to it.
LEMMA ReserveOwner ==
  ASSUME StreamInv, BufferShape', OwnerInv, pc # "destroyed", pc' # "destroyed",
         reserve_buffer, UNCHANGED <<live, delivered, closed>>
  PROVE  OwnerInv'
<1> USE SizesAssumption
<1>0. /\ BufferShape /\ mem[buf] \in Seq(Nat) /\ Len(mem[buf]) \in Nat
      /\ Len(mem) \in Nat /\ buf \in 1..Len(mem)
  BY ShapeTypes DEF StreamInv
<1>1. CASE free >= ReadSize
  <2>1. UNCHANGED <<mem, buf, off, count, referenced, zone>>
    BY <1>1 DEF reserve_buffer, bufVars
  <2>2. off' >= off /\ closed' \in BOOLEAN
    BY <1>0, <2>1 DEF OwnerInv, BufferShape
  <2> QED
    BY <1>0, <2>1, <2>2, OwnersUnchanged
<1>2. CASE ~ (free >= ReadSize)
  <2>0. expand_buffer
    BY <1>2 DEF reserve_buffer
  <2>1. CanRewind => ~referenced /\ Shares(buf) = {} /\ count[buf] = 1
    <3> SUFFICES ASSUME CanRewind PROVE ~referenced /\ Shares(buf) = {} /\ count[buf] = 1
      OBVIOUS
    <3>1. ~referenced /\ count[buf] = 1
      BY DEF CanRewind
    <3>2. /\ Cardinality(Shares(buf)) \in Nat
          /\ Cardinality(Shares(buf)) = 0 <=> Shares(buf) = {}
          /\ count[buf] = Cardinality(Shares(buf)) + (IF buf \in zone.fin THEN 1 ELSE 0) + 1
      BY <1>0, CountOf
    <3> QED
      BY <3>1, <3>2
  <2>2. off = Counter => ~referenced /\ Shares(buf) = {} /\ count[buf] = 1
    <3> SUFFICES ASSUME off = Counter PROVE ~referenced /\ Shares(buf) = {} /\ count[buf] = 1
      OBVIOUS
    <3>1. ~referenced /\ Shares(buf) = {}
      BY DEF OwnerInv
    <3>2. buf \notin zone.fin
      BY DEF OwnerInv
    <3>3. /\ Cardinality(Shares(buf)) \in Nat
          /\ Cardinality(Shares(buf)) = 0 <=> Shares(buf) = {}
          /\ count[buf] = Cardinality(Shares(buf)) + (IF buf \in zone.fin THEN 1 ELSE 0) + 1
      BY <1>0, CountOf
    <3> QED
      BY <3>1, <3>2, <3>3
  <2>3. CASE /\ CanRewind /\ off' = Counter
             /\ UNCHANGED <<mem, buf, count, referenced, zone>>
    <3>1. \A m \in live : buf \notin m.fin
      BY <2>1, <2>3 DEF Shares
    <3>2. \A m \in live : \A r \in m.refs : r.buf # buf
      BY <3>1 DEF OwnerInv
    <3>3. \A r \in zone.refs : r.buf # buf
      BY <2>1, <2>3 DEF OwnerInv
    <3>4. \A r : RefIn(r) /\ r.buf # buf => RefIn(r)'
      BY <2>3 DEF RefIn
    <3>5. CountExact'
      BY <2>3 DEF OwnerInv, CountExact, Buffer
    <3>6. Shares(buf)' = {} /\ ~referenced'
      BY <2>1, <2>3 DEF Shares
    <3> QED
      BY <2>3, <3>2, <3>3, <3>4, <3>5, <3>6 DEF OwnerInv
  <2>4. ASSUME NEW u, NEW f, Grow(u, f), u - Counter <= Len(mem[buf]), u \in Nat, Counter <= u,
               ~referenced, Shares(buf) = {}, count[buf] = 1
        PROVE  OwnerInv'
    <3> DEFINE content == SubSeq(mem[buf], 1, u - Counter)
    <3>1. /\ mem' = Append(mem, content) /\ buf' = Len(mem) + 1
          /\ count' = Append([count EXCEPT ![buf] = 0], 1)
          /\ UNCHANGED <<referenced, zone>>
      BY <2>4 DEF Grow, MoveTo
    <3>2. content \in Seq(Nat)
      BY <1>0, <2>4
    <3>3. [count EXCEPT ![buf] = 0] \in [1..Len(mem) -> Nat]
      BY DEF OwnerInv
    <3>4. /\ count' \in [1..(Len(mem) + 1) -> Nat] /\ count'[Len(mem) + 1] = 1
          /\ \A b \in 1..Len(mem) : count'[b] = [count EXCEPT ![buf] = 0][b]
      <4> DEFINE c == [count EXCEPT ![buf] = 0]
      <4> HIDE DEF c
      <4>1. /\ Append(c, 1) \in [1..(Len(mem) + 1) -> Nat] /\ Append(c, 1)[Len(mem) + 1] = 1
            /\ \A b \in 1..Len(mem) : Append(c, 1)[b] = c[b]
        BY <1>0, <3>3, AppendToFunction DEF c
      <4> QED
        BY <3>1, <4>1 DEF c
    <3>5. \A b \in 1..Len(mem) :
            count'[b] = IF b = buf /\ buf \notin zone'.fin THEN count[b] - 1 ELSE count[b]
      BY <1>0, <2>4, <3>1, <3>4 DEF OwnerInv
    <3>6. zone' \in [refs : SUBSET Reference, fin : SUBSET Nat] /\ referenced' = FALSE
      BY <2>4, <3>1 DEF OwnerInv
    <3> HIDE DEF content
    <3> QED
      BY <1>0, <2>4, <3>1, <3>2, <3>4, <3>5, <3>6, MoveOwner
  <2>5. CASE CanRewind /\ Grow(Counter, free + used - Counter)
    <3>1. Counter \in Nat /\ Counter - Counter <= Len(mem[buf])
      BY <1>0
    <3> QED
      BY <2>1, <2>4, <2>5, <3>1
  <2>6. CASE off = Counter /\ Grow(used, free)
    BY <1>0, <2>2, <2>4, <2>6 DEF BufferShape
  <2>7. CASE Replace
    <3>1. /\ mem' = Append(mem, Unparsed) /\ buf' = Len(mem) + 1 /\ referenced' = FALSE
          /\ IF referenced
             THEN zone' = [zone EXCEPT !.fin = @ \cup {buf}] /\ count' = Append(count, 1)
             ELSE zone' = zone /\ count' = Append(Released(count, {buf}), 1)
      BY <2>7 DEF Replace, MoveTo
    <3>2. Unparsed \in Seq(Nat)
      BY <1>0, ShapeTypes
    <3>3. count \in [1..Len(mem) -> Nat] /\ buf \notin zone.fin
          /\ zone \in [refs : SUBSET Reference, fin : SUBSET Nat] /\ buf \in Nat
      BY <1>0 DEF OwnerInv
    <3>4. count[buf] > 0
      BY <1>0, CountOf
    <3>5. CASE referenced
      <4>1. /\ count' \in [1..(Len(mem) + 1) -> Nat] /\ count'[Len(mem) + 1] = 1
            /\ \A b \in 1..Len(mem) : count'[b] = count[b]
        <5>1. /\ Append(count, 1) \in [1..(Len(mem) + 1) -> Nat]
              /\ Append(count, 1)[Len(mem) + 1] = 1
              /\ \A b \in 1..Len(mem) : Append(count, 1)[b] = count[b]
          BY <1>0, <3>3, AppendToFunction
        <5> QED
          BY <3>1, <3>5, <5>1
      <4>2. /\ zone' \in [refs : SUBSET Reference, fin : SUBSET Nat]
            /\ zone'.refs = zone.refs /\ zone'.fin = zone.fin \cup {buf}
        BY <3>1, <3>3, <3>5
      <4> QED
        BY <1>0, <3>1, <3>2, <4>1, <4>2, MoveOwner
    <3>6. CASE ~referenced
      <4>1. /\ Released(count, {buf}) \in [1..Len(mem) -> Nat]
            /\ \A b \in 1..Len(mem) :
                 Released(count, {buf})[b] = IF b \in {buf} THEN count[b] - 1 ELSE count[b]
        <5>1. \A b \in 1..Len(mem) : b \in {buf} => count[b] > 0
          BY <3>4
        <5> QED
          BY <1>0, <3>3, <5>1, ReleasedCount
      <4>2. /\ count' \in [1..(Len(mem) + 1) -> Nat] /\ count'[Len(mem) + 1] = 1
            /\ \A b \in 1..Len(mem) : count'[b] = Released(count, {buf})[b]
        <5> DEFINE c == Released(count, {buf})
        <5>1. c \in [1..Len(mem) -> Nat]
          BY <4>1
        <5> HIDE DEF c
        <5>2. /\ Append(c, 1) \in [1..(Len(mem) + 1) -> Nat] /\ Append(c, 1)[Len(mem) + 1] = 1
              /\ \A b \in 1..Len(mem) : Append(c, 1)[b] = c[b]
          BY <1>0, <5>1, AppendToFunction
        <5> QED
          BY <3>1, <3>6, <5>2 DEF c
      <4>3. \A b \in 1..Len(mem) :
              count'[b] = IF b = buf /\ buf \notin zone'.fin THEN count[b] - 1 ELSE count[b]
        BY <3>1, <3>3, <3>6, <4>1, <4>2
      <4> QED
        BY <1>0, <3>1, <3>2, <3>3, <3>6, <4>2, <4>3, MoveOwner
    <3> QED
      BY <3>5, <3>6
  <2> QED
    BY <2>0, <2>3, <2>5, <2>6, <2>7 DEF expand_buffer
<1> QED
  BY <1>1, <1>2

\* The references of the unfinished message, with the bytes of one more value.
NewRefs(n, ref) ==
  IF ref /\ n > 0
  THEN zone.refs \cup {[buf |-> buf, at |-> off - Counter, len |-> n, idx |-> parsed + 1]}
  ELSE zone.refs

\* After n bytes more the references are to parsed bytes still.
LEMMA NewRefsIn ==
  ASSUME StreamInv, OwnerInv, NEW n \in Nat, n <= used - off, NEW ref \in BOOLEAN,
         Advance(n), UNCHANGED <<mem, buf>>
  PROVE  /\ NewRefs(n, ref) \subseteq Reference
         /\ \A r \in NewRefs(n, ref) :
              RefIn(r)' /\ (r.buf \in zone.fin \/ (r.buf = buf /\ (referenced \/ ref)))
         /\ \A m \in live : \A r \in m.refs : RefIn(r)'
<1> USE SizesAssumption
<1>1. /\ off \in Nat /\ parsed \in Nat /\ used \in Nat /\ Counter <= off /\ off' = off + n
      /\ buf \in Nat
  BY ShapeTypes DEF StreamInv, BufferShape, ParserShape, Advance
<1>2. ASSUME NEW r \in Reference, RefIn(r) PROVE RefIn(r)'
  <2>1. r.at \in Nat /\ r.len \in Nat
    BY DEF Reference
  <2>2. r.buf = buf => r.at + r.len <= off' - Counter
    BY <1>1, <1>2, <2>1 DEF RefIn
  <2> QED
    BY <1>2, <2>2 DEF RefIn
<1>3. zone.refs \subseteq Reference /\ \A m \in live : m.refs \subseteq Reference
  BY DEF OwnerInv
<1>4. \A m \in live : \A r \in m.refs : RefIn(r)'
  BY <1>2, <1>3 DEF OwnerInv
<1>5. \A r \in zone.refs :
        RefIn(r)' /\ (r.buf \in zone.fin \/ (r.buf = buf /\ (referenced \/ ref)))
  BY <1>2, <1>3 DEF OwnerInv
<1>0. PICK r0 : r0 = [buf |-> buf, at |-> off - Counter, len |-> n, idx |-> parsed + 1]
  OBVIOUS
<1>6. /\ r0 \in Reference
      /\ r0.buf = buf /\ r0.at = off - Counter /\ r0.len = n /\ r0.idx = parsed + 1
  BY <1>0, <1>1 DEF Reference
<1>7. RefIn(r0)'
  <2>1. ASSUME NEW j \in 1..n PROVE mem[buf][(off - Counter) + j] = (parsed + 1) + j - 1
    <3>1. j \in 1..(used - off)
      BY <1>1
    <3>2. mem[buf][off - Counter + j] = parsed + j
      BY <3>1 DEF StreamInv, UnparsedInOrder
    <3>3. (parsed + 1) + j - 1 = parsed + j
      BY <1>1
    <3> QED
      BY <3>2, <3>3
  <2>2. (off - Counter) + n <= off' - Counter
    BY <1>1
  <2> QED
    BY <1>6, <2>1, <2>2 DEF RefIn
<1>8. CASE ref /\ n > 0
  <2>1. NewRefs(n, ref) = zone.refs \cup {r0}
    BY <1>0, <1>8 DEF NewRefs
  <2> QED
    BY <1>3, <1>4, <1>5, <1>6, <1>7, <1>8, <2>1
<1>9. CASE ~ (ref /\ n > 0)
  <2>1. NewRefs(n, ref) = zone.refs
    BY <1>9 DEF NewRefs
  <2> QED
    BY <1>3, <1>4, <1>5, <2>1
<1> QED
  BY <1>8, <1>9

\* A message takes its shares with it, or gives them back if it is dropped.
LEMMA VisitOwner ==
  ASSUME StreamInv, StreamInv', OwnerInv, pc = "next",
         NEW n \in Nat \ {0}, n <= used - off, NEW ref \in BOOLEAN, visit(n, ref),
         UNCHANGED <<input, fed, bufVars, closed>>
  PROVE  OwnerInv'
<1> USE SizesAssumption
<1> DEFINE refs == NewRefs(n, ref)
           rr == referenced \/ ref
           N == Len(mem)
<1>1. Advance(n) /\ UNCHANGED <<mem, buf, used, free, size>> /\ rr \in BOOLEAN
  BY DEF visit, bufVars
<1>2. /\ refs \subseteq Reference
      /\ \A r \in refs : RefIn(r)' /\ (r.buf \in zone.fin \/ (r.buf = buf /\ rr))
      /\ \A m \in live : \A r \in m.refs : RefIn(r)'
  BY <1>1, NewRefsIn
<1>3. /\ N \in Nat /\ buf \in 1..N /\ buf \in Nat /\ DOMAIN mem = 1..N
      /\ count \in [1..N -> Nat] /\ buf \notin zone.fin /\ zone.fin \subseteq 1..N
      /\ zone \in [refs : SUBSET Reference, fin : SUBSET Nat]
  <2>1. N \in Nat /\ buf \in 1..N /\ buf \in Nat
    BY ShapeTypes DEF StreamInv
  <2>2. DOMAIN mem = 1..N
    BY DEF StreamInv, BufferShape
  <2> QED
    BY <2>1, <2>2 DEF OwnerInv
<1>4. off' > Counter
  BY <1>1 DEF StreamInv, BufferShape, Advance
<1>5. CASE stack' # <<>>
  <2>1. /\ referenced' = rr /\ zone' = [zone EXCEPT !.refs = refs]
        /\ UNCHANGED <<live, count, delivered, pc>>
    BY <1>5 DEF visit, NewRefs
  <2> HIDE DEF refs, rr
  <2>2. /\ zone' \in [refs : SUBSET Reference, fin : SUBSET Nat]
        /\ zone'.refs = refs /\ zone'.fin = zone.fin
    BY <1>2, <1>3, <2>1
  <2>3. CountExact'
    BY <1>1, <2>1, <2>2 DEF OwnerInv, CountExact, Buffer
  <2> QED
    BY <1>1, <1>2, <1>3, <1>4, <2>1, <2>2, <2>3 DEF OwnerInv
<1>6. CASE stack' = <<>>
  <2> DEFINE fin == zone.fin \cup (IF rr THEN {buf} ELSE {})
             shared == IF rr THEN [count EXCEPT ![buf] = @ + 1] ELSE count
             msg == [id |-> Len(delivered'), refs |-> refs, fin |-> fin]
  <2>1. /\ zone' = EmptyZone /\ referenced' = FALSE
        /\ delivered' = Append(delivered, parsed')
        /\ \/ closed /\ pc' = "ended" /\ count' = Released(shared, fin) /\ live' = live
           \/ ~closed /\ live' = live \cup {msg} /\ count' = shared /\ pc' = pc
    BY <1>6 DEF visit, release_zone, NewRefs
  <2>2. Len(delivered) \in Nat /\ Len(delivered') = Len(delivered) + 1
    <3>1. delivered \in Seq(Nat) /\ parsed' \in Nat
      BY DEF StreamInv, ParserShape
    <3> QED
      BY <2>1, <3>1, AppendProperties
  <2>3. /\ zone' \in [refs : SUBSET Reference, fin : SUBSET Nat]
        /\ zone'.refs = {} /\ zone'.fin = {}
    BY <2>1 DEF EmptyZone
  <2>4. /\ fin \subseteq 1..N /\ \A b \in 1..N : b \in fin <=> b \in zone.fin \/ (b = buf /\ rr)
    BY <1>3
  <2>5. /\ shared \in [1..N -> Nat]
        /\ \A b \in 1..N : shared[b] = IF b = buf /\ rr THEN count[b] + 1 ELSE count[b]
    BY <1>3
  <2>6. pc' # "destroyed"
    BY <2>1
  <2>7. CASE closed
    <3>1. count' = Released(shared, fin) /\ live' = live
      BY <2>1, <2>7
    <3> HIDE DEF fin, shared, rr
    <3>2. ASSUME NEW b \in 1..N, b \in fin PROVE shared[b] > 0
      <4>1. /\ Cardinality(Shares(b)) \in Nat
            /\ count[b] = Cardinality(Shares(b)) + (IF b \in zone.fin THEN 1 ELSE 0)
                          + (IF b = buf /\ pc # "destroyed" THEN 1 ELSE 0)
        BY CountOf DEF StreamInv
      <4>2. count[b] > 0
        BY <2>4, <3>2, <4>1
      <4> QED
        BY <1>3, <2>5, <4>2
    <3>3. /\ count' \in [1..N -> Nat]
          /\ \A b \in 1..N : count'[b] = IF b \in fin THEN shared[b] - 1 ELSE shared[b]
      BY <2>5, <3>1, <3>2, ReleasedCount
    <3>4. ASSUME NEW b \in 1..N
          PROVE  count'[b] = Cardinality({x \in live' : b \in x.fin})
                             + (IF b \in zone'.fin THEN 1 ELSE 0)
                             + (IF b = buf' /\ pc' # "destroyed" THEN 1 ELSE 0)
      <4>1. PICK k \in Nat : k = Cardinality(Shares(b))
        BY CountOf DEF StreamInv
      <4>2. count[b] = k + (IF b \in zone.fin THEN 1 ELSE 0) + (IF b = buf THEN 1 ELSE 0)
        BY <4>1, CountOf DEF StreamInv
      <4>3. count'[b] = k + (IF b = buf THEN 1 ELSE 0)
        BY <1>3, <2>4, <2>5, <3>3, <4>2
      <4>4. Cardinality({x \in live' : b \in x.fin}) = k
        BY <3>1, <4>1 DEF Shares
      <4> QED
        BY <1>1, <2>3, <2>6, <4>3, <4>4
    <3>5. CountExact'
      BY <1>1, <1>3, <3>4 DEF CountExact, Buffer
    <3>6. \A m \in live : m.id <= Len(delivered')
      BY <2>2 DEF OwnerInv
    <3> QED
      BY <1>1, <1>2, <1>4, <2>1, <2>3, <2>6, <3>1, <3>3, <3>5, <3>6 DEF OwnerInv
  <2>8. CASE ~closed
    <3>1. live' = live \cup {msg} /\ count' = shared
      BY <2>1, <2>8
    <3>2. /\ msg.id = Len(delivered) + 1 /\ msg.refs = refs /\ msg.fin = fin
          /\ msg \in [id : Nat, refs : SUBSET Reference, fin : SUBSET Nat]
      BY <1>2, <1>3, <2>2
    <3> HIDE DEF fin, shared, rr, msg, refs
    <3>3. msg \notin live
      BY <2>2, <3>2 DEF OwnerInv
    <3>4. ASSUME NEW b \in 1..N
          PROVE  count'[b] = Cardinality({x \in live' : b \in x.fin})
                             + (IF b \in zone'.fin THEN 1 ELSE 0)
                             + (IF b = buf' /\ pc' # "destroyed" THEN 1 ELSE 0)
      <4>0. PICK k \in Nat : k = Cardinality(Shares(b))
        BY CountOf DEF StreamInv
      <4>1. count[b] = k + (IF b \in zone.fin THEN 1 ELSE 0) + (IF b = buf THEN 1 ELSE 0)
        BY <4>0, CountOf DEF StreamInv
      <4>2. count'[b] = (IF b \in fin THEN k + 1 ELSE k) + (IF b = buf THEN 1 ELSE 0)
        BY <1>3, <2>4, <2>5, <3>1, <4>1
      <4>3. Cardinality({x \in live' : b \in x.fin}) = IF b \in fin THEN k + 1 ELSE k
        <5>1. CASE b \in fin
          <6>1. {x \in live' : b \in x.fin} = Shares(b) \cup {msg}
            BY <3>1, <3>2, <5>1 DEF Shares
          <6>2. msg \notin Shares(b) /\ IsFiniteSet(Shares(b))
            BY <3>3, CountOf DEF Shares, StreamInv
          <6>3. Cardinality(Shares(b) \cup {msg}) = Cardinality(Shares(b)) + 1
            BY <6>2, FS_AddElement
          <6> QED
            BY <4>0, <5>1, <6>1, <6>3
        <5>2. CASE b \notin fin
          <6>1. {x \in live' : b \in x.fin} = Shares(b)
            BY <3>1, <3>2, <5>2 DEF Shares
          <6> QED
            BY <4>0, <5>2, <6>1
        <5> QED
          BY <5>1, <5>2
      <4> QED
        BY <1>1, <2>3, <2>6, <4>2, <4>3
    <3>5. CountExact'
      BY <1>1, <1>3, <3>4 DEF CountExact, Buffer
    <3>6. \A m \in live' : m.id <= Len(delivered') /\ m.fin \subseteq 1..N
      BY <2>2, <2>4, <3>1, <3>2 DEF OwnerInv
    <3>7. \A r \in refs : r.buf \in fin
      BY <1>2, <2>4, <1>3
    <3>8. (\A m \in live : \A r \in m.refs : r.buf \in m.fin /\ RefIn(r))'
      BY <1>2, <3>1, <3>2, <3>7 DEF OwnerInv
    <3>9. IsFiniteSet(live')
      BY <3>1, FS_AddElement DEF OwnerInv
    <3>10. live' \subseteq [id : Nat, refs : SUBSET Reference, fin : SUBSET Nat]
      BY <3>1, <3>2 DEF OwnerInv
    <3>11. count' \in [1..N -> Nat]
      BY <2>5, <3>1
    <3> QED
      BY <1>1, <1>4, <2>1, <2>3, <2>6, <3>5, <3>6, <3>8, <3>9, <3>10, <3>11 DEF OwnerInv
  <2> QED
    BY <2>7, <2>8 DEF OwnerInv
<1> QED
  BY <1>5, <1>6

\* An array begins, or more bytes are awaited: the owners stay.
LEMMA AdvanceOwner ==
  ASSUME StreamInv, StreamInv', OwnerInv, pc = "next", NEW n \in Nat, Advance(n),
         UNCHANGED <<mem, buf, closed, referenced, zone, live, count, delivered, pc>>
  PROVE  OwnerInv'
<1>1. off' >= off
  BY DEF StreamInv, BufferShape, Advance
<1> QED
  BY <1>1, OwnersUnchanged DEF StreamInv, OwnerInv

\* The start of an array refers to nothing.
LEMMA AggregateOwner ==
  ASSUME StreamInv, StreamInv', OwnerInv, pc = "next", NEW n \in Nat \ {0}, n <= used - off,
         NEW elements, start_aggregate(n, elements), UNCHANGED <<input, fed, bufVars, closed>>
  PROVE  OwnerInv'
<1>1. CASE visit(n, FALSE)
  BY <1>1, VisitOwner
<1>2. CASE ~visit(n, FALSE)
  <2>1. Advance(n) /\ UNCHANGED <<mem, buf, closed, referenced, zone, live, count, delivered, pc>>
    BY <1>2 DEF start_aggregate, bufVars
  <2> QED
    BY <2>1, AdvanceOwner
<1> QED
  BY <1>1, <1>2

\* The first half of execute(), for the owners.
LEMMA HeaderOwner == StreamInv /\ StreamInv' /\ OwnerInv /\ Header => OwnerInv'
<1> SUFFICES ASSUME StreamInv, StreamInv', OwnerInv, Header PROVE OwnerInv'
  OBVIOUS
<1>1. pc = "next" /\ off < used /\ UNCHANGED <<input, fed, bufVars, closed>>
  BY DEF Header
<1>2. 1 <= used - off /\ 1 \in Nat \ {0}
  BY <1>1 DEF StreamInv, BufferShape
<1>3. CASE visit(1, FALSE)
  BY <1>1, <1>2, <1>3, VisitOwner
<1>4. CASE visit(1, TRUE)
  BY <1>1, <1>2, <1>4, VisitOwner
<1>5. CASE start_aggregate(1, Current.n)
  BY <1>1, <1>2, <1>5, AggregateOwner
<1>6. CASE expect(1, Current.k, Current.n)
  BY <1>1, <1>6, AdvanceOwner DEF expect, bufVars
<1> QED
  BY <1>3, <1>4, <1>5, <1>6 DEF Header

\* The second half of execute(), for the owners.
LEMMA TrailOwner == StreamInv /\ StreamInv' /\ OwnerInv /\ Trail => OwnerInv'
<1> SUFFICES ASSUME StreamInv, StreamInv', OwnerInv, Trail PROVE OwnerInv'
  OBVIOUS
<1>1. pc = "next" /\ UNCHANGED <<input, fed, bufVars, closed>>
  BY DEF Trail
<1>2. trail \in Nat \ {0} /\ trail <= used - off
  BY DEF Trail, StreamInv, ParserShape, BufferShape
<1>3. CASE visit(trail, FALSE)
  BY <1>1, <1>2, <1>3, VisitOwner
<1>4. CASE visit(trail, TRUE)
  BY <1>1, <1>2, <1>4, VisitOwner
<1>5. CASE start_aggregate(trail, Current.n)
  BY <1>1, <1>2, <1>5, AggregateOwner
<1>6. ASSUME NEW t, expect(trail, "body", t) PROVE OwnerInv'
  BY <1>1, <1>2, <1>6, AdvanceOwner DEF expect, bufVars
<1> QED
  BY <1>3, <1>4, <1>5, <1>6 DEF Trail

\* ~parser() gives back the share of the unpacker and those of the zone.
LEMMA DestroyOwner ==
  ASSUME StreamInv, OwnerInv, Destroy
  PROVE  OwnerInv'
<1>1. /\ pc # "destroyed" /\ pc' = "destroyed" /\ zone' = EmptyZone
      /\ count' = Released(Released(count, {buf}), zone.fin)
      /\ UNCHANGED <<mem, buf, off, referenced, live, delivered, closed>>
  BY DEF Destroy, bufVars
<1>2. Len(mem) \in Nat /\ buf \in 1..Len(mem) /\ DOMAIN mem = 1..Len(mem)
  BY ShapeTypes DEF StreamInv, BufferShape
<1>3. /\ count \in [1..Len(mem) -> Nat] /\ buf \notin zone.fin
      /\ zone.fin \subseteq 1..Len(mem)
  BY DEF OwnerInv
<1>4. \A b \in 1..Len(mem) :
        /\ Cardinality(Shares(b)) \in Nat
        /\ count[b] = Cardinality(Shares(b)) + (IF b \in zone.fin THEN 1 ELSE 0)
                      + (IF b = buf THEN 1 ELSE 0)
  BY <1>1, CountOf DEF StreamInv
<1> DEFINE c == Released(count, {buf})
<1>5. /\ c \in [1..Len(mem) -> Nat]
      /\ \A b \in 1..Len(mem) : c[b] = IF b \in {buf} THEN count[b] - 1 ELSE count[b]
  <2>1. \A b \in 1..Len(mem) : b \in {buf} => count[b] > 0
    BY <1>4
  <2> QED
    BY <1>3, <2>1, ReleasedCount
<1> HIDE DEF c
<1>6. /\ Released(c, zone.fin) \in [1..Len(mem) -> Nat]
      /\ \A b \in 1..Len(mem) :
           Released(c, zone.fin)[b] = IF b \in zone.fin THEN c[b] - 1 ELSE c[b]
  <2>1. \A b \in 1..Len(mem) : b \in zone.fin => c[b] > 0
    BY <1>3, <1>4, <1>5
  <2> QED
    BY <1>5, <2>1, ReleasedCount
<1>7. count' = Released(c, zone.fin)
  BY <1>1 DEF c
<1>8. ASSUME NEW b \in 1..Len(mem)
      PROVE  count'[b] = Cardinality({x \in live' : b \in x.fin})
                         + (IF b \in zone'.fin THEN 1 ELSE 0)
                         + (IF b = buf' /\ pc' # "destroyed" THEN 1 ELSE 0)
  <2>1. PICK k \in Nat : k = Cardinality(Shares(b))
    BY <1>4
  <2>2. count'[b] = k
    BY <1>3, <1>4, <1>5, <1>6, <1>7, <2>1
  <2>3. Cardinality({x \in live' : b \in x.fin}) = k
    BY <1>1, <2>1 DEF Shares
  <2>4. b \notin zone'.fin /\ ~ (b = buf' /\ pc' # "destroyed")
    BY <1>1 DEF EmptyZone
  <2> QED
    BY <2>2, <2>3, <2>4
<1>9. CountExact'
  BY <1>1, <1>2, <1>8 DEF CountExact, Buffer
<1>10. \A r : RefIn(r)' <=> RefIn(r)
  BY <1>1 DEF RefIn
<1>11. /\ zone' \in [refs : SUBSET Reference, fin : SUBSET Nat]
       /\ zone'.refs = {} /\ zone'.fin = {}
  BY <1>1 DEF EmptyZone
<1>12. (referenced \/ Shares(buf) # {} => off > Counter)'
  BY <1>1 DEF OwnerInv, Shares
<1>13. count' \in [1..Len(mem') -> Nat]
  BY <1>1, <1>6, <1>7
<1> QED
  BY <1>1, <1>9, <1>10, <1>11, <1>12, <1>13 DEF OwnerInv

\* The constructor makes one buffer, which nothing refers to.
LEMMA OwnerInit == Init => OwnerInv
<1> SUFFICES ASSUME Init PROVE OwnerInv
  OBVIOUS
<1> USE SizesAssumption DEF Init
<1>1. Len(mem) = 1 /\ DOMAIN mem = {1} /\ 1..Len(mem) = {1}
  OBVIOUS
<1>2. count \in [1..Len(mem) -> Nat] /\ count[1] = 1
  BY <1>1
<1>3. CountExact
  <2>1. {m \in live : 1 \in m.fin} = {} /\ Cardinality({}) = 0
    BY FS_EmptySet
  <2>2. Cardinality({m \in live : 1 \in m.fin}) = 0
    BY <2>1
  <2>3. 1 \notin zone.fin /\ buf = 1 /\ pc # "destroyed"
    BY DEF EmptyZone
  <2>4. count[1] = Cardinality({m \in live : 1 \in m.fin})
                   + (IF 1 \in zone.fin THEN 1 ELSE 0)
                   + (IF 1 = buf /\ pc # "destroyed" THEN 1 ELSE 0)
    BY <1>2, <2>2, <2>3
  <2> QED
    BY <1>1, <2>4 DEF CountExact, Buffer
<1>4. IsFiniteSet(live)
  BY FS_EmptySet
<1>5. zone \in [refs : SUBSET Reference, fin : SUBSET Nat] /\ zone.refs = {} /\ zone.fin = {}
  BY DEF EmptyZone
<1> QED
  BY <1>1, <1>2, <1>3, <1>4, <1>5 DEF OwnerInv, Shares

\* Every step keeps the owners, given the order of the stream.
LEMMA OwnerNext == StreamInv /\ StreamInv' /\ OwnerInv /\ [Next]_vars => OwnerInv'
<1> SUFFICES ASSUME StreamInv, StreamInv', OwnerInv, [Next]_vars PROVE OwnerInv'
  OBVIOUS
<1>1. ASSUME UNCHANGED <<bufVars, count, off, referenced, zone, live, delivered>>,
             closed' \in BOOLEAN, pc' = "destroyed" <=> pc = "destroyed"
      PROVE  OwnerInv'
  <2>1. off' >= off
    BY <1>1 DEF StreamInv, BufferShape
  <2> QED
    BY <1>1, <2>1, OwnersUnchanged DEF StreamInv, bufVars
<1>2. CASE Start
  BY <1>2, ReserveOwner DEF Start, StreamInv
<1>3. ASSUME NEW n \in 1..ReadSize, Read(n) PROVE OwnerInv'
  <2>1. n \in Nat
    BY SizesAssumption
  <2> QED
    BY <1>3, <2>1, ReadOwner
<1>4. CASE Header
  BY <1>4, HeaderOwner
<1>5. CASE Trail
  BY <1>5, TrailOwner
<1>6. CASE Reread
  <2>1. CASE closed
    BY <1>1, <1>6, <2>1 DEF Reread, OwnerInv
  <2>2. CASE ~closed
    BY <1>6, <2>2, ReserveOwner DEF Reread, StreamInv
  <2> QED
    BY <2>1, <2>2
<1>7. ASSUME NEW m \in live, Release(m) PROVE OwnerInv'
  BY <1>7, ReleaseOwner DEF StreamInv
<1>8. CASE Close
  BY <1>1, <1>8 DEF Close
<1>9. CASE Destroy
  BY <1>9, DestroyOwner
<1>10. CASE UNCHANGED vars
  BY <1>1, <1>10 DEF vars, OwnerInv
<1> QED
  BY <1>2, <1>3, <1>4, <1>5, <1>6, <1>7, <1>8, <1>9, <1>10 DEF Next
-----------------------------------------------------------------------------
(* What the two invariants imply.                                          *)

\* A buffer something refers to has not been freed.
LEMMA ReferencesOwned == StreamInv /\ OwnerInv => ReferencesIntact
<1> SUFFICES ASSUME StreamInv, OwnerInv,
                    NEW r \in UNION ({m.refs : m \in live} \cup {zone.refs})
             PROVE  /\ count[r.buf] > 0
                    /\ \A j \in 1..r.len : mem[r.buf][r.at + j] = r.idx + j - 1
  BY DEF ReferencesIntact
<1>1. BufferShape /\ buf \in 1..Len(mem)
  BY DEF StreamInv, BufferShape
<1>2. CASE r \in zone.refs
  <2>1. RefIn(r) /\ pc # "destroyed"
    BY <1>2 DEF OwnerInv, EmptyZone
  <2>2. r.buf \in 1..Len(mem) /\ (r.buf \in zone.fin \/ r.buf = buf)
    BY <1>1, <1>2 DEF OwnerInv
  <2>3. count[r.buf] > 0
    BY <1>1, <2>1, <2>2, CountOf
  <2> QED
    BY <2>1, <2>3 DEF RefIn
<1>3. CASE r \notin zone.refs
  <2>1. PICK m \in live : r \in m.refs
    BY <1>3
  <2>2. RefIn(r) /\ r.buf \in m.fin /\ r.buf \in 1..Len(mem)
    BY <2>1 DEF OwnerInv
  <2>3. Shares(r.buf) # {}
    BY <2>1, <2>2 DEF Shares
  <2>4. count[r.buf] > 0
    BY <1>1, <2>2, <2>3, CountOf
  <2> QED
    BY <2>2, <2>4 DEF RefIn
<1> QED
  BY <1>2, <1>3

\* The two invariants contain the types.
LEMMA TypesImplied == StreamInv /\ OwnerInv => TypeOK
<1> SUFFICES ASSUME StreamInv, OwnerInv PROVE TypeOK
  OBVIOUS
<1>1. DOMAIN mem = 1..Len(mem)
  BY DEF StreamInv, BufferShape
<1> QED
  BY <1>1 DEF StreamInv, OwnerInv, BufferShape, ParserShape, TypeOK, Buffer

\* The invariant of the owners holds throughout.
LEMMA OwnerAlways == Spec => []OwnerInv
<1> QED
  BY StreamInit, StreamNext, OwnerInit, OwnerNext, PTL DEF Spec

\* The members of the unpacker (v2/parse.hpp) keep their types, and m_used,
\* m_free and m_off stay consistent.
THEOREM UnpackerTypes == Spec => []TypeOK
<1> QED
  BY StreamAlways, OwnerAlways, TypesImplied, PTL

\* incr_count() and decr_count() (v1/unpack.hpp): the counter of a buffer is
\* always the number of its owners.
THEOREM CountsExact == Spec => []CountExact
<1>1. OwnerInv => CountExact
  BY DEF OwnerInv
<1> QED
  BY <1>1, OwnerAlways, PTL

\* Every reference of a message in use is to memory that was not freed and that
\* holds the bytes the peer sent.
THEOREM SharedStringsIntact == Spec => []ReferencesIntact
<1> QED
  BY StreamAlways, OwnerAlways, ReferencesOwned, PTL
-----------------------------------------------------------------------------
(* Where messages end.                                                     *)

\* Induction over the numbers, for a set of them: the least number outside it
\* would be neither 0 nor a successor.
LEMMA SetInduction ==
  ASSUME NEW S, 0 \in S, \A n \in Nat : n \in S => n + 1 \in S
  PROVE  Nat \subseteq S
<1> DEFINE U == Nat \ S
<1> SUFFICES ASSUME U # {} PROVE FALSE
  OBVIOUS
<1>1. PICK u \in U : \A v \in U : ~ (<<v, u>> \in OpToRel(<, Nat))
  BY WFMin, NatLessThanWellFounded
<1>2. \A v \in U : ~ (v < u)
  BY <1>1 DEF OpToRel
<1>3. u \in Nat /\ u # 0
  OBVIOUS
<1>4. u - 1 \in Nat /\ u - 1 < u /\ (u - 1) + 1 = u
  BY <1>3
<1>5. u - 1 \in S
  BY <1>2, <1>4
<1> QED
  BY <1>4, <1>5

Place == [pos : Nat, open : Nat]

\* A byte of the stream, and the size behind it.
LEMMA ByteAt ==
  ASSUME NEW bytes \in Seq(Byte), NEW p \in Nat, p < Len(bytes)
  PROVE  /\ bytes[p + 1] \in Byte /\ bytes[p + 1].n \in Nat
         /\ bytes[p + 1].k \in {"number", "body", "str", "ext", "array"} => bytes[p + 1].n > 0
         /\ SizeAt(bytes, p) \in Nat
<1>1. bytes[p + 1] \in Byte
  OBVIOUS
<1>2. p + 2 <= Len(bytes) => bytes[p + 2] \in Byte
  OBVIOUS
<1>3. \A b \in Byte : b.n \in Nat /\ (b.k \in {"number", "body", "str", "ext", "array"} => b.n > 0)
  BY DEF Byte
<1>4. SizeAt(bytes, p) \in Nat
  BY <1>2, <1>3 DEF SizeAt
<1> QED
  BY <1>1, <1>3, <1>4

\* The lengths of the values, by the first byte.
LEMMA ValueLengths ==
  ASSUME NEW bytes, NEW p, NEW b, b = bytes[p + 1]
  PROVE  /\ b.k \in {"value", "empty", "fixarray", "data"} => ValueLen(bytes, p) = 1
         /\ b.k \in {"number", "body", "array"} => ValueLen(bytes, p) = 1 + b.n
         /\ b.k = "str" => ValueLen(bytes, p) = 1 + b.n + SizeAt(bytes, p)
         /\ b.k = "ext" => ValueLen(bytes, p) = 1 + b.n + SizeAt(bytes, p) + 1
         /\ b.k = "fixarray" => Elements(bytes, p) = b.n
         /\ b.k = "array" => Elements(bytes, p) = SizeAt(bytes, p)
         /\ b.k \in {"value", "empty", "data", "number", "body", "str", "ext"} => Elements(bytes, p) = 0
  BY DEF ValueLen, Elements

\* A value is a byte at least.
LEMMA AfterType ==
  ASSUME NEW bytes \in Seq(Byte), NEW q \in Place, q.pos < Len(bytes)
  PROVE  /\ After(bytes, q) \in Place /\ After(bytes, q).pos > q.pos
         /\ After(bytes, q).pos = q.pos + ValueLen(bytes, q.pos)
         /\ After(bytes, q).open = (IF q.open = 0 THEN 0 ELSE q.open - 1) + Elements(bytes, q.pos)
         /\ ValueLen(bytes, q.pos) \in Nat /\ Elements(bytes, q.pos) \in Nat
<1>0. q.pos \in Nat /\ q.open \in Nat
  BY DEF Place
<1>1. bytes[q.pos + 1].n \in Nat /\ SizeAt(bytes, q.pos) \in Nat
  BY <1>0, ByteAt
<1>2. PICK n \in Nat, z \in Nat : n = bytes[q.pos + 1].n /\ z = SizeAt(bytes, q.pos)
  BY <1>1
<1>3. PICK l, e : l = ValueLen(bytes, q.pos) /\ e = Elements(bytes, q.pos)
  OBVIOUS
<1>4. l \in {1, 1 + n, 1 + n + z, 1 + n + z + 1}
  BY <1>2, <1>3 DEF ValueLen
<1>5. l \in Nat /\ l > 0 /\ e \in Nat
  <2>1. e \in {0, n, z}
    BY <1>2, <1>3 DEF Elements
  <2> QED
    BY <1>4, <2>1
<1>6. (IF q.open = 0 THEN 0 ELSE q.open - 1) + e \in Nat
  BY <1>0, <1>5
<1>7. q.pos + l \in Nat /\ q.pos + l > q.pos
  BY <1>0, <1>5
<1>8. After(bytes, q) = [pos |-> q.pos + l, open |-> (IF q.open = 0 THEN 0 ELSE q.open - 1) + e]
  BY <1>3 DEF After
<1>9. After(bytes, q) \in Place
  BY <1>6, <1>7, <1>8 DEF Place
<1> QED
  BY <1>3, <1>5, <1>7, <1>8, <1>9

\* The next place of the walk, which stops at the end of the stream.
Onward(bytes, q) == IF q.pos >= Len(bytes) THEN q ELSE After(bytes, q)

\* The first n steps of a walk.
Walks(bytes, g, n) ==
  /\ g \in [0..n -> Place] /\ g[0] = [pos |-> 0, open |-> 0]
  /\ \A k \in 1..n : g[k] = Onward(bytes, g[k - 1])

\* There is a walk of every length.
LEMMA WalksExist ==
  ASSUME NEW bytes \in Seq(Byte), NEW n \in Nat
  PROVE  \E g : Walks(bytes, g, n)
<1> DEFINE S == {m \in Nat : \E g : Walks(bytes, g, m)}
<1>1. 0 \in S
  <2> DEFINE g == [k \in 0..0 |-> [pos |-> 0, open |-> 0]]
  <2>1. g \in [0..0 -> Place] /\ g[0] = [pos |-> 0, open |-> 0]
    BY DEF Place
  <2>2. Walks(bytes, g, 0)
    BY <2>1 DEF Walks
  <2> QED
    BY <2>2
<1>2. ASSUME NEW m \in Nat, m \in S PROVE m + 1 \in S
  <2>1. PICK g : Walks(bytes, g, m)
    BY <1>2
  <2>2. g \in [0..m -> Place] /\ g[m] \in Place
    BY <2>1 DEF Walks
  <2>3. g[m].pos \in Nat /\ Len(bytes) \in Nat
    BY <2>2 DEF Place
  <2>4. Onward(bytes, g[m]) \in Place
    BY <2>2, <2>3, AfterType DEF Onward
  <2> DEFINE h == [k \in 0..(m + 1) |-> IF k = m + 1 THEN Onward(bytes, g[m]) ELSE g[k]]
  <2>5. h \in [0..(m + 1) -> Place]
    BY <2>2, <2>4
  <2>6. \A k \in 0..m : h[k] = g[k]
    OBVIOUS
  <2>7. h[m + 1] = Onward(bytes, g[m])
    OBVIOUS
  <2> HIDE DEF h
  <2>8. h[0] = [pos |-> 0, open |-> 0]
    BY <2>1, <2>6 DEF Walks
  <2>9. ASSUME NEW k \in 1..(m + 1) PROVE h[k] = Onward(bytes, h[k - 1])
    <3>1. CASE k = m + 1
      <4>1. k - 1 = m /\ h[m] = g[m]
        BY <3>1, <2>6
      <4> QED
        BY <3>1, <4>1, <2>7
    <3>2. CASE k # m + 1
      <4>1. k \in 1..m /\ k \in 0..m /\ k - 1 \in 0..m
        BY <3>2
      <4>2. h[k] = g[k] /\ h[k - 1] = g[k - 1]
        BY <4>1, <2>6
      <4>3. g[k] = Onward(bytes, g[k - 1])
        BY <4>1, <2>1 DEF Walks
      <4> QED
        BY <4>2, <4>3
    <3> QED
      BY <3>1, <3>2
  <2>10. Walks(bytes, h, m + 1)
    BY <2>5, <2>8, <2>9 DEF Walks
  <2> QED
    BY <2>10
<1>3. Nat \subseteq S
  <2> HIDE DEF S
  <2> QED
    BY <1>1, <1>2, SetInduction
<1> QED
  BY <1>3

\* The recursive function is the walk.
LEMMA WalkIsWalk ==
  ASSUME NEW bytes \in Seq(Byte)
  PROVE  Walks(bytes, Walk(bytes), Len(bytes))
<1> DEFINE n == Len(bytes)
           F(w) == [k \in 0..n |-> IF k = 0 THEN [pos |-> 0, open |-> 0]
                                  ELSE IF w[k - 1].pos >= n THEN w[k - 1]
                                       ELSE After(bytes, w[k - 1])]
<1>0. n \in Nat
  OBVIOUS
<1>1. PICK g : Walks(bytes, g, n)
  BY <1>0, WalksExist
<1>2. g = F(g)
  <2>1. g \in [0..n -> Place] /\ g[0] = [pos |-> 0, open |-> 0]
    BY <1>1 DEF Walks
  <2>2. ASSUME NEW k \in 0..n PROVE g[k] = F(g)[k]
    <3>1. CASE k = 0
      BY <2>1, <3>1
    <3>2. CASE k # 0
      <4>1. k \in 1..n
        BY <1>0, <3>2
      <4>2. g[k] = Onward(bytes, g[k - 1])
        BY <4>1, <1>1 DEF Walks
      <4> QED
        BY <4>2, <3>2 DEF Onward
    <3> QED
      BY <3>1, <3>2
  <2> QED
    BY <2>1, <2>2
<1>3. Walk(bytes) = CHOOSE w : w = F(w)
  BY DEF Walk
<1>4. Walk(bytes) = F(Walk(bytes))
  BY <1>2, <1>3
<1> DEFINE w == Walk(bytes)
<1> HIDE DEF w
<1>5. w = F(w)
  BY <1>4 DEF w
<1>6. w[0] = [pos |-> 0, open |-> 0]
  BY <1>0, <1>5
<1>7. ASSUME NEW k \in 1..n PROVE w[k] = Onward(bytes, w[k - 1])
  BY <1>0, <1>5 DEF Onward
<1>8. \A k \in 0..n : w[k] \in Place
  <2> DEFINE S == {k \in Nat : k <= n => w[k] \in Place}
  <2>1. 0 \in S
    BY <1>6 DEF Place
  <2>2. ASSUME NEW k \in Nat, k \in S PROVE k + 1 \in S
    <3> SUFFICES ASSUME k + 1 <= n PROVE w[k + 1] \in Place
      OBVIOUS
    <3>1. w[k] \in Place /\ k + 1 \in 1..n /\ (k + 1) - 1 = k
      BY <1>0, <2>2
    <3>2. w[k + 1] = Onward(bytes, w[k])
      BY <1>7, <3>1
    <3>3. w[k].pos \in Nat
      BY <3>1 DEF Place
    <3> QED
      BY <1>0, <3>1, <3>2, <3>3, AfterType DEF Onward
  <2>3. Nat \subseteq S
    <3> HIDE DEF S
    <3> QED
      BY <2>1, <2>2, SetInduction
  <2> QED
    BY <1>0, <2>3
<1>9. w \in [0..n -> Place]
  BY <1>5, <1>8
<1> QED
  BY <1>6, <1>7, <1>9 DEF Walks, w

\* The walk goes on until the end of the stream, and then stays.
LEMMA WalkOrder ==
  ASSUME NEW bytes \in Seq(Byte), NEW w, Walks(bytes, w, Len(bytes)),
         NEW i \in 0..Len(bytes), NEW j \in 0..Len(bytes), i < j
  PROVE  /\ w[i].pos >= Len(bytes) => w[j] = w[i]
         /\ w[i].pos < Len(bytes) => w[j].pos > w[i].pos
<1>0. Len(bytes) \in Nat /\ i \in Nat /\ j \in Nat
  OBVIOUS
<1>1. \A k \in 0..Len(bytes) : w[k] \in Place /\ w[k].pos \in Nat
  BY DEF Walks, Place
<1>2. \A k \in 1..Len(bytes) : w[k] = Onward(bytes, w[k - 1])
  BY DEF Walks
<1> DEFINE S == {m \in Nat : i + m <= Len(bytes) =>
                   /\ w[i].pos >= Len(bytes) => w[i + m] = w[i]
                   /\ w[i].pos < Len(bytes) => m = 0 \/ w[i + m].pos > w[i].pos}
<1>3. 0 \in S
  BY <1>0
<1>4. ASSUME NEW m \in Nat, m \in S PROVE m + 1 \in S
  <2> SUFFICES ASSUME i + (m + 1) <= Len(bytes)
               PROVE  /\ w[i].pos >= Len(bytes) => w[i + (m + 1)] = w[i]
                      /\ w[i].pos < Len(bytes) => w[i + (m + 1)].pos > w[i].pos
    OBVIOUS
  <2>1. PICK k : k = i + m
    OBVIOUS
  <2>2. /\ k \in 0..Len(bytes) /\ k + 1 \in 1..Len(bytes) /\ i + (m + 1) = k + 1
        /\ (k + 1) - 1 = k
    BY <1>0, <2>1
  <2>3. w[k + 1] = Onward(bytes, w[k])
    BY <1>2, <2>2
  <2>4. /\ w[i].pos >= Len(bytes) => w[k] = w[i]
        /\ w[i].pos < Len(bytes) => m = 0 \/ w[k].pos > w[i].pos
    BY <1>0, <1>4, <2>1, <2>2
  <2>5. w[k].pos < Len(bytes) => w[k + 1].pos > w[k].pos
    BY <1>1, <2>2, <2>3, AfterType DEF Onward
  <2>6. w[k].pos >= Len(bytes) => w[k + 1] = w[k]
    BY <2>3 DEF Onward
  <2>7. m = 0 => k = i
    BY <1>0, <2>1
  <2>8. w[k].pos \in Nat /\ w[i].pos \in Nat /\ w[k + 1].pos \in Nat
    BY <1>1, <2>2
  <2> QED
    BY <1>0, <2>2, <2>4, <2>5, <2>6, <2>7, <2>8
<1>5. Nat \subseteq S
  <2> HIDE DEF S
  <2> QED
    BY <1>3, <1>4, SetInduction
<1>6. j - i \in Nat /\ i + (j - i) = j /\ j - i # 0
  BY <1>0
<1>7. j - i \in S
  BY <1>5, <1>6
<1> QED
  BY <1>6, <1>7

\* Each step of the walk before the end of the stream has a byte of its own.
LEMMA WalkShort ==
  ASSUME NEW bytes \in Seq(Byte), NEW w, Walks(bytes, w, Len(bytes)),
         NEW i \in 0..Len(bytes), w[i].pos < Len(bytes)
  PROVE  i < Len(bytes)
<1>0. Len(bytes) \in Nat /\ i \in Nat
  OBVIOUS
<1>1. \A k \in 0..Len(bytes) : w[k] \in Place /\ w[k].pos \in Nat
  BY DEF Walks, Place
<1> DEFINE S == {m \in Nat : m <= Len(bytes) => w[m].pos >= m \/ w[m].pos >= Len(bytes)}
<1>2. 0 \in S
  BY <1>1
<1>3. ASSUME NEW m \in Nat, m \in S PROVE m + 1 \in S
  <2> SUFFICES ASSUME m + 1 <= Len(bytes)
               PROVE  w[m + 1].pos >= m + 1 \/ w[m + 1].pos >= Len(bytes)
    OBVIOUS
  <2>1. m \in 0..Len(bytes) /\ m + 1 \in 0..Len(bytes) /\ m < m + 1
    BY <1>0
  <2>2. /\ w[m].pos >= Len(bytes) => w[m + 1] = w[m]
        /\ w[m].pos < Len(bytes) => w[m + 1].pos > w[m].pos
    BY <2>1, WalkOrder
  <2>3. w[m].pos >= m \/ w[m].pos >= Len(bytes)
    BY <1>3, <2>1
  <2>4. w[m].pos \in Nat /\ w[m + 1].pos \in Nat
    BY <1>1, <2>1
  <2> QED
    BY <1>0, <2>2, <2>3, <2>4
<1>4. Nat \subseteq S
  <2> HIDE DEF S
  <2> QED
    BY <1>2, <1>3, SetInduction
<1>5. w[i].pos >= i \/ w[i].pos >= Len(bytes)
  BY <1>0, <1>4
<1> QED
  BY <1>0, <1>1, <1>5

\* What the walk does at a place before the end of the stream.
LEMMA WalkStep ==
  ASSUME NEW bytes \in Seq(Byte), NEW k \in 0..Len(bytes)
  PROVE  /\ Walk(bytes)[k] \in Place /\ Walk(bytes)[k].pos \in Nat /\ Walk(bytes)[k].open \in Nat
         /\ Walk(bytes)[k].pos < Len(bytes) =>
              /\ k + 1 \in 1..Len(bytes)
              /\ Walk(bytes)[k + 1] = After(bytes, Walk(bytes)[k])
<1> DEFINE w == Walk(bytes)
<1>1. Walks(bytes, w, Len(bytes)) /\ Len(bytes) \in Nat /\ k \in Nat
  BY WalkIsWalk
<1> HIDE DEF w
<1>2. w[k] \in Place
  BY <1>1 DEF Walks
<1>3. w[k].pos \in Nat /\ w[k].open \in Nat
  BY <1>2 DEF Place
<1>4. ASSUME w[k].pos < Len(bytes)
      PROVE  k + 1 \in 1..Len(bytes) /\ w[k + 1] = After(bytes, w[k])
  <2>1. k < Len(bytes)
    BY <1>1, <1>4, WalkShort
  <2>2. k + 1 \in 1..Len(bytes) /\ (k + 1) - 1 = k
    BY <1>1, <2>1
  <2>3. w[k + 1] = Onward(bytes, w[k])
    BY <1>1, <2>2 DEF Walks
  <2> QED
    BY <1>1, <1>3, <1>4, <2>2, <2>3 DEF Onward
<1> QED
  BY <1>2, <1>3, <1>4 DEF w

\* Between one place of the walk and the next no message ends, and one ends at
\* the next only if nothing is open there.
LEMMA EndsBetween ==
  ASSUME NEW bytes \in Seq(Byte), NEW k \in 0..Len(bytes),
         Walk(bytes)[k].pos < Len(bytes), NEW e \in MessageEnds(bytes)
  PROVE  /\ e \in Nat
         /\ e > Walk(bytes)[k].pos => e >= Walk(bytes)[k + 1].pos
         /\ e = Walk(bytes)[k + 1].pos => Walk(bytes)[k + 1].open = 0
<1> DEFINE w == Walk(bytes)
           n == Len(bytes)
<1>0. n \in Nat /\ k \in Nat /\ k + 1 \in 1..n /\ k + 1 \in 0..n
  BY WalkStep
<1>1. Walks(bytes, w, n)
  BY WalkIsWalk
<1>2. PICK i \in 1..n : e = w[i].pos /\ w[i].open = 0 /\ w[i].pos <= n
  BY DEF MessageEnds
<1>3. /\ w[k] \in Place /\ w[k].pos \in Nat /\ w[i].pos \in Nat /\ w[k + 1].pos \in Nat
      /\ w[k + 1] = After(bytes, w[k])
  BY <1>0, WalkStep
<1>4. w[k].pos < n
  OBVIOUS
<1>5. w[k + 1].pos > w[k].pos
  BY <1>3, <1>4, AfterType
<1> HIDE DEF w
<1>6. i < k => w[i].pos <= w[k].pos
  <2> SUFFICES ASSUME i < k PROVE w[i].pos <= w[k].pos
    OBVIOUS
  <2>1. /\ w[i].pos >= n => w[k] = w[i]
        /\ w[i].pos < n => w[k].pos > w[i].pos
    BY <1>0, <1>1, WalkOrder
  <2> QED
    BY <1>0, <1>3, <2>1
<1>7. k + 1 < i => w[i].pos > w[k + 1].pos \/ w[i] = w[k + 1]
  <2> SUFFICES ASSUME k + 1 < i PROVE w[i].pos > w[k + 1].pos \/ w[i] = w[k + 1]
    OBVIOUS
  <2>1. /\ w[k + 1].pos >= n => w[i] = w[k + 1]
        /\ w[k + 1].pos < n => w[i].pos > w[k + 1].pos
    BY <1>0, <1>1, WalkOrder
  <2> QED
    BY <1>0, <1>3, <2>1
<1> HIDE DEF n
<1>8. i = k \/ i < k \/ i = k + 1 \/ k + 1 < i
  BY <1>0 DEF n
<1>9. CASE i = k \/ i < k
  <2>1. e <= w[k].pos
    BY <1>2, <1>3, <1>6, <1>9
  <2> QED
    BY <1>2, <1>3, <1>5, <2>1 DEF w
<1>10. CASE i = k + 1
  BY <1>2, <1>3, <1>10 DEF w
<1>11. CASE k + 1 < i
  <2>1. CASE w[i] = w[k + 1]
    BY <1>2, <1>3, <2>1 DEF w
  <2>2. CASE w[i].pos > w[k + 1].pos
    BY <1>2, <1>3, <2>2 DEF w
  <2> QED
    BY <1>7, <1>11, <2>1, <2>2
<1> QED
  BY <1>8, <1>9, <1>10, <1>11

\* The values a message still needs, from the stack: each array that is open
\* needs its own, of which the array inside it is one.
Opens(s, n) ==
  \E g \in [0..Len(s) -> Nat] :
    /\ g[0] = 0
    /\ \A i \in 1..Len(s) : g[i] = g[i - 1] + s[i] - 1
    /\ n = IF Len(s) = 0 THEN 0 ELSE g[Len(s)] + 1

\* Arrays that need one value more add nothing.
LEMMA OnesAddNothing ==
  ASSUME NEW N \in Nat, NEW s \in [1..N -> Nat], NEW g \in [0..N -> Nat], NEW d \in 0..N,
         \A i \in 1..N : g[i] = g[i - 1] + s[i] - 1, \A j \in d+1..N : s[j] = 1
  PROVE  g[N] = g[d]
<1> DEFINE S == {m \in Nat : d + m <= N => g[d + m] = g[d]}
<1>0. d \in Nat
  OBVIOUS
<1>1. 0 \in S
  BY <1>0
<1>2. ASSUME NEW m \in Nat, m \in S PROVE m + 1 \in S
  <2> SUFFICES ASSUME d + (m + 1) <= N PROVE g[d + (m + 1)] = g[d]
    OBVIOUS
  <2>1. PICK j : j = d + (m + 1)
    OBVIOUS
  <2>2. j \in d+1..N /\ j \in 1..N /\ j - 1 = d + m /\ d + m <= N /\ j - 1 \in 0..N
    BY <1>0, <2>1
  <2>3. s[j] = 1 /\ g[j] = g[j - 1] + s[j] - 1 /\ g[j - 1] \in Nat
    BY <2>2
  <2>4. g[j] = g[j - 1]
    BY <2>3
  <2>5. g[d + m] = g[d]
    BY <1>2, <2>2
  <2> QED
    BY <2>1, <2>2, <2>4, <2>5
<1>3. Nat \subseteq S
  <2> HIDE DEF S
  <2> QED
    BY <1>1, <1>2, SetInduction
<1>4. N - d \in Nat /\ d + (N - d) = N
  BY <1>0
<1>5. N - d \in S
  BY <1>3, <1>4
<1> QED
  BY <1>4, <1>5

\* consume() takes one from what is needed, and empties the stack when it was
\* the last.
LEMMA ConsumedOpens ==
  ASSUME NEW s \in Seq(Nat \ {0}), NEW n \in Nat, Opens(s, n)
  PROVE  /\ Opens(Consumed(s), IF n = 0 THEN 0 ELSE n - 1)
         /\ Consumed(s) = <<>> <=> (IF n = 0 THEN 0 ELSE n - 1) = 0
<1> DEFINE N == Len(s)
           P(i) == (\A j \in i+1..N : s[j] = 1) /\ (i = 0 \/ s[i] > 1)
           d == CHOOSE i \in 0..N : P(i)
<1>0. N \in Nat /\ DOMAIN s = 1..N /\ \A i \in 1..N : s[i] \in Nat \ {0}
  OBVIOUS
<1>1. d \in 0..N /\ P(d)
  <2>1. \E i \in 0..N : P(i)
    BY LastUnfinished
  <2> QED
    BY <2>1
<1>2. Consumed(s) = IF d = 0 THEN <<>> ELSE [SubSeq(s, 1, d) EXCEPT ![d] = @ - 1]
  BY DEF Consumed
<1> HIDE DEF d
<1>3. PICK g \in [0..N -> Nat] :
         /\ g[0] = 0
         /\ \A i \in 1..N : g[i] = g[i - 1] + s[i] - 1
         /\ n = IF N = 0 THEN 0 ELSE g[N] + 1
  BY DEF Opens
<1> HIDE DEF N
<1>4. g[N] = g[d]
  <2>1. \A j \in d+1..N : s[j] = 1
    BY <1>1
  <2>2. \A i \in 1..N : g[i] = g[i - 1] + s[i] - 1
    BY <1>3
  <2>3. N \in Nat /\ d \in 0..N /\ g \in [0..N -> Nat] /\ s \in [1..N -> Nat]
    BY <1>0, <1>1 DEF N
  <2> QED
    BY <2>1, <2>2, <2>3, OnesAddNothing
<1>5. CASE d = 0
  <2>1. Consumed(s) = <<>> /\ n \in {0, 1}
    BY <1>0, <1>2, <1>3, <1>4, <1>5
  <2>2. Opens(<<>>, 0)
    <3> DEFINE h == [i \in 0..0 |-> 0]
    <3>1. Len(<<>>) = 0 /\ h \in [0..0 -> Nat] /\ h[0] = 0
      OBVIOUS
    <3> HIDE DEF h
    <3> QED
      BY <3>1 DEF Opens
  <2>3. (IF n = 0 THEN 0 ELSE n - 1) = 0
    BY <2>1
  <2> QED
    BY <2>1, <2>2, <2>3
<1>6. CASE d # 0
  <2>0. d \in 1..N /\ d \in Nat /\ d - 1 \in 0..N /\ d \in 0..N /\ s[d] > 1 /\ N > 0
    BY <1>0, <1>1, <1>6
  <2>1. g[d] \in Nat /\ g[d] >= 1 /\ n = g[d] + 1
    <3>1. g[d - 1] \in Nat /\ g[d] = g[d - 1] + s[d] - 1 /\ s[d] \in Nat
      BY <1>0, <1>3, <2>0
    <3>2. n = g[N] + 1
      BY <1>3, <2>0, <1>0
    <3>3. g[d] >= 1 /\ g[d] \in Nat
      BY <2>0, <3>1
    <3> QED
      BY <1>4, <3>2, <3>3
  <2> DEFINE t == [SubSeq(s, 1, d) EXCEPT ![d] = @ - 1]
             h == [i \in 0..d |-> IF i = d THEN g[d] - 1 ELSE g[i]]
  <2>2. Len(t) = d /\ \A i \in 1..d : t[i] = IF i = d THEN s[d] - 1 ELSE s[i]
    <3> DEFINE r == SubSeq(s, 1, d)
    <3>1. r \in Seq(Nat \ {0}) /\ Len(r) = d /\ \A i \in 1..d : r[i] = s[i]
      <4>1. \A i \in 1..d : i \in 1..N
        BY <1>0, <2>0
      <4> QED
        BY <1>0, <2>0, <4>1 DEF N
    <3>2. DOMAIN r = 1..d
      BY <3>1
    <3> HIDE DEF r
    <3>3. t = [r EXCEPT ![d] = @ - 1]
      BY DEF r
    <3>4. t = [i \in 1..d |-> IF i = d THEN r[d] - 1 ELSE r[i]]
      BY <3>1, <3>2, <3>3
    <3> HIDE DEF t
    <3>5. Len(t) = d
      BY <2>0, <3>4
    <3> QED
      BY <2>0, <3>1, <3>4, <3>5
  <2>3. Consumed(s) = t
    BY <1>2, <1>6
  <2> HIDE DEF t
  <2>4. h \in [0..d -> Nat] /\ h[0] = 0 /\ h[d] = g[d] - 1
    <3>1. \A i \in 0..d : i \in 0..N
      BY <1>0, <2>0
    <3>2. \A i \in 0..d : g[i] \in Nat
      BY <1>3, <3>1
    <3>3. g[d] - 1 \in Nat
      BY <2>1
    <3> QED
      BY <1>3, <1>6, <2>0, <3>2, <3>3
  <2>5. ASSUME NEW i \in 1..d PROVE h[i] = h[i - 1] + t[i] - 1
    <3>1. i \in 1..N /\ i - 1 \in 0..d /\ i - 1 # d /\ i \in 0..d /\ i - 1 \in 0..N
      BY <1>0, <2>0
    <3>2. g[i] = g[i - 1] + s[i] - 1 /\ g[i - 1] \in Nat /\ s[i] \in Nat
      BY <1>0, <1>3, <3>1
    <3>3. h[i - 1] = g[i - 1]
      BY <3>1
    <3>4. CASE i = d
      <4>1. h[i] = g[i] - 1 /\ t[i] = s[i] - 1
        BY <2>2, <3>1, <3>4
      <4> HIDE DEF h
      <4> QED
        BY <3>1, <3>2, <3>3, <4>1
    <3>5. CASE i # d
      <4>1. h[i] = g[i] /\ t[i] = s[i]
        BY <2>2, <3>1, <3>5
      <4> QED
        BY <3>2, <3>3, <4>1
    <3> QED
      BY <3>4, <3>5
  <2> HIDE DEF h
  <2>6. Opens(t, n - 1)
    <3>1. n - 1 = IF Len(t) = 0 THEN 0 ELSE h[Len(t)] + 1
      BY <2>0, <2>1, <2>2, <2>4
    <3> QED
      BY <2>2, <2>4, <2>5, <3>1 DEF Opens
  <2>7. t # <<>> /\ n # 0 /\ n - 1 # 0
    <3>1. Len(<<>>) = 0
      OBVIOUS
    <3> QED
      BY <2>0, <2>1, <2>2, <3>1
  <2> QED
    BY <2>3, <2>6, <2>7
<1> QED
  BY <1>5, <1>6

\* An array that begins is one of the values that were needed, and needs its own.
LEMMA AppendOpens ==
  ASSUME NEW s \in Seq(Nat \ {0}), NEW n \in Nat, Opens(s, n), NEW e \in Nat \ {0}
  PROVE  Opens(Append(s, e), (IF n = 0 THEN 0 ELSE n - 1) + e)
<1> DEFINE N == Len(s)
           t == Append(s, e)
<1>0. N \in Nat /\ Len(t) = N + 1 /\ t[N + 1] = e /\ \A i \in 1..N : t[i] = s[i]
  OBVIOUS
<1>1. PICK g \in [0..N -> Nat] :
         /\ g[0] = 0
         /\ \A i \in 1..N : g[i] = g[i - 1] + s[i] - 1
         /\ n = IF N = 0 THEN 0 ELSE g[N] + 1
  BY DEF Opens
<1> HIDE DEF N, t
<1> DEFINE h == [i \in 0..(N + 1) |-> IF i = N + 1 THEN g[N] + e - 1 ELSE g[i]]
<1>2. g[N] \in Nat /\ g[N] = IF n = 0 THEN 0 ELSE n - 1
  BY <1>0, <1>1
<1>3. h \in [0..(N + 1) -> Nat]
  <2>1. \A i \in 0..(N + 1) : i # N + 1 => i \in 0..N
    BY <1>0
  <2>2. g[N] + e - 1 \in Nat
    BY <1>2
  <2> QED
    BY <2>1, <2>2
<1>4. h[0] = 0 /\ h[N + 1] = g[N] + e - 1
  BY <1>0, <1>1
<1>5. ASSUME NEW i \in 1..(N + 1) PROVE h[i] = h[i - 1] + t[i] - 1
  <2>1. h[i - 1] = g[i - 1]
    BY <1>0
  <2>2. CASE i = N + 1
    <3>1. i - 1 = N /\ t[i] = e
      BY <1>0, <2>2
    <3> QED
      BY <1>4, <2>1, <2>2, <3>1
  <2>3. CASE i # N + 1
    <3>1. i \in 1..N /\ h[i] = g[i] /\ t[i] = s[i]
      BY <1>0, <2>3
    <3> QED
      BY <1>1, <2>1, <3>1
  <2> QED
    BY <2>2, <2>3
<1> HIDE DEF h
<1>6. (IF n = 0 THEN 0 ELSE n - 1) + e = IF Len(t) = 0 THEN 0 ELSE h[Len(t)] + 1
  BY <1>0, <1>2, <1>4
<1>7. Opens(t, (IF n = 0 THEN 0 ELSE n - 1) + e)
  BY <1>0, <1>3, <1>4, <1>5, <1>6 DEF Opens
<1> QED
  BY <1>7 DEF t

-----------------------------------------------------------------------------
(* How far the parser has come.                                            *)

\* The messages taken out are the first of those that end at q or before.
Taken(q) ==
  /\ Len(delivered) <= Len(input.ends)
  /\ \A i \in DOMAIN delivered : delivered[i] = input.ends[i]
  /\ \A i \in DOMAIN input.ends : input.ends[i] <= q.pos <=> i <= Len(delivered)

\* The parser is in the middle of the value at p: it waits for the size or the
\* content that the first byte announces, or for the content a size announces.
InValue(p) ==
  LET b == input.bytes[p + 1]
  IN  /\ p < Len(input.bytes)
      /\ b.k \in {"number", "body", "str", "ext", "array"}
      /\ \/ cs = b.k /\ parsed = p + 1 /\ trail = b.n
         \/ /\ cs = "body" /\ b.k \in {"str", "ext"} /\ parsed = p + 1 + b.n
            /\ parsed + trail = p + ValueLen(input.bytes, p)

\* The parser is at a place of the walk: what was taken out ends there or
\* before, and the stack holds what is open there.
AtPlace(q) ==
  /\ Taken(q)
  /\ Opens(stack, q.open)
  /\ IF cs = "header" THEN parsed = q.pos ELSE InValue(q.pos)

\* next() has gone as far as it could before a read starts.
Exhausted == pc = "reading" => IF cs = "header" THEN parsed = fed ELSE fed - parsed < trail

FrameInv ==
  /\ \E k \in 0..Len(input.bytes) : AtPlace(Walk(input.bytes)[k])
  /\ Exhausted

\* What StreamInv says of the stream and the position in it.
LEMMA StreamTypes ==
  ASSUME StreamInv
  PROVE  /\ input \in Input /\ input.bytes \in Seq(Byte) /\ input.ends \in Seq(Nat)
         /\ Len(input.bytes) \in Nat /\ Len(input.ends) \in Nat
         /\ parsed \in Nat /\ fed \in Nat /\ fed <= Len(input.bytes) /\ parsed <= fed
         /\ used - off = fed - parsed /\ stack \in Seq(Nat \ {0}) /\ trail \in Nat
         /\ delivered \in Seq(Nat) /\ Len(delivered) \in Nat
<1>1. input \in Input /\ input.bytes \in Seq(Byte) /\ input.ends \in Seq(Nat)
  BY InputAssumption DEF StreamInv, ParserShape
<1>2. Len(input.bytes) \in Nat /\ Len(input.ends) \in Nat
  BY <1>1
<1>3. stack \in Seq(Nat \ {0}) /\ trail \in Nat /\ delivered \in Seq(Nat) /\ parsed \in Nat
  BY DEF StreamInv, ParserShape
<1>4. Len(delivered) \in Nat
  BY <1>3
<1>5. fed \in Nat /\ fed <= Len(input.bytes) /\ used - off = fed - parsed
  BY <1>2 DEF StreamInv, ParserShape
<1>6. parsed <= fed
  <2>1. used \in Nat /\ off \in Nat /\ off <= used
    BY DEF StreamInv, BufferShape
  <2> QED
    BY <1>3, <1>5, <2>1
<1> QED
  BY <1>1, <1>2, <1>3, <1>4, <1>5, <1>6

\* The byte under m_current is the next of the stream.
LEMMA CurrentIsNext ==
  ASSUME StreamInv, off < used
  PROVE  Current = input.bytes[parsed + 1]
<1>1. 1 \in 1..(used - off)
  BY DEF StreamInv, BufferShape
<1>2. mem[buf][off - Counter + 1] = parsed + 1
  BY <1>1 DEF StreamInv, UnparsedInOrder
<1> QED
  BY <1>2 DEF Current

\* The ends of the messages are those the format defines, in order.
LEMMA EndsInOrder ==
  ASSUME StreamInv
  PROVE  /\ \A i \in 1..Len(input.ends) : input.ends[i] \in MessageEnds(input.bytes)
         /\ \A e \in MessageEnds(input.bytes) : \E i \in 1..Len(input.ends) : input.ends[i] = e
         /\ \A i, j \in 1..Len(input.ends) : i < j => input.ends[i] < input.ends[j]
<1>1. input \in Input /\ input.ends \in Seq(Nat)
  BY StreamTypes
<1>2. DOMAIN input.ends = 1..Len(input.ends)
  BY <1>1
<1>3. /\ {input.ends[i] : i \in DOMAIN input.ends} = MessageEnds(input.bytes)
      /\ \A i, j \in DOMAIN input.ends : i < j => input.ends[i] < input.ends[j]
  BY <1>1, EndsAssumption DEF Framed
<1> QED
  BY <1>2, <1>3

\* The messages that end at the next place and were not taken out before: the
\* one behind those taken, or none.
LEMMA TakenNext ==
  ASSUME StreamInv, NEW k \in 0..Len(input.bytes), Taken(Walk(input.bytes)[k]),
         Walk(input.bytes)[k].pos < Len(input.bytes)
  PROVE  LET r == Walk(input.bytes)[k + 1]
             m == Len(delivered)
         IN  /\ r.open # 0 => \A i \in 1..Len(input.ends) : input.ends[i] <= r.pos <=> i <= m
             /\ r.open = 0 /\ r.pos <= Len(input.bytes) =>
                  /\ m + 1 \in 1..Len(input.ends) /\ input.ends[m + 1] = r.pos
                  /\ \A i \in 1..Len(input.ends) : input.ends[i] <= r.pos <=> i <= m + 1
<1> DEFINE bytes == input.bytes
           ends == input.ends
           q == Walk(bytes)[k]
           r == Walk(bytes)[k + 1]
           m == Len(delivered)
           N == Len(ends)
<1>1. bytes \in Seq(Byte) /\ ends \in Seq(Nat) /\ m \in Nat /\ N \in Nat /\ DOMAIN ends = 1..N
  BY StreamTypes
<1>2. /\ q \in Place /\ q.pos \in Nat /\ k + 1 \in 1..Len(bytes) /\ r = After(bytes, q)
  BY <1>1, WalkStep
<1>3. r.pos > q.pos /\ r.pos \in Nat
  <2>1. q.pos < Len(bytes)
    OBVIOUS
  <2> HIDE DEF q, r, bytes
  <2>2. After(bytes, q) \in Place /\ After(bytes, q).pos > q.pos
    BY <1>1, <1>2, <2>1, AfterType
  <2> QED
    BY <1>2, <2>2 DEF Place
<1>4. \A e \in MessageEnds(bytes) : e \in Nat /\ (e > q.pos => e >= r.pos) /\ (e = r.pos => r.open = 0)
  BY <1>1, EndsBetween
<1>5. /\ \A i \in 1..N : ends[i] \in MessageEnds(bytes) /\ ends[i] \in Nat
      /\ \A e \in MessageEnds(bytes) : \E i \in 1..N : ends[i] = e
      /\ \A i, j \in 1..N : i < j => ends[i] < ends[j]
  <2>1. \A i \in 1..N : ends[i] \in Nat
    BY <1>1
  <2> QED
    BY <2>1, EndsInOrder, Zenon
<1>6. m <= N /\ \A i \in 1..N : ends[i] <= q.pos <=> i <= m
  BY <1>1 DEF Taken
<1>7. r.open = 0 /\ r.pos <= Len(bytes) => r.pos \in MessageEnds(bytes)
  BY <1>2 DEF MessageEnds
<1> HIDE DEF q, r, bytes, ends, m, N
<1>8. ASSUME r.open # 0 PROVE \A i \in 1..N : ends[i] <= r.pos <=> i <= m
  <2> SUFFICES ASSUME NEW i \in 1..N PROVE ends[i] <= r.pos <=> i <= m
    OBVIOUS
  <2>1. ends[i] \in Nat /\ (ends[i] > q.pos => ends[i] >= r.pos) /\ ends[i] # r.pos
    BY <1>4, <1>5, <1>8
  <2>2. ends[i] <= q.pos <=> i <= m
    BY <1>6
  <2> QED
    BY <1>2, <1>3, <2>1, <2>2
<1>9. ASSUME r.open = 0, r.pos <= Len(bytes)
      PROVE  /\ m + 1 \in 1..N /\ ends[m + 1] = r.pos
             /\ \A i \in 1..N : ends[i] <= r.pos <=> i <= m + 1
  <2>1. PICK j \in 1..N : ends[j] = r.pos
    BY <1>5, <1>7, <1>9
  <2>2. ~ (j <= m)
    BY <1>2, <1>3, <1>6, <2>1
  <2>3. m + 1 \in 1..N
    BY <1>1, <2>2
  <2>4. j = m + 1
    <3> SUFFICES ASSUME m + 1 < j PROVE FALSE
      BY <1>1, <2>2
    <3>1. ends[m + 1] < r.pos /\ ends[m + 1] \in Nat
      BY <1>5, <2>1, <2>3
    <3>2. ~ (ends[m + 1] <= q.pos)
      BY <1>1, <1>6, <2>3
    <3>3. ends[m + 1] > q.pos
      BY <1>2, <3>1, <3>2
    <3>4. ends[m + 1] >= r.pos
      BY <1>4, <1>5, <2>3, <3>3
    <3> QED
      BY <1>3, <3>1, <3>4
  <2>5. ASSUME NEW i \in 1..N PROVE ends[i] <= r.pos <=> i <= m + 1
    <3>1. CASE i < m + 1
      <4>1. ends[i] < ends[m + 1] /\ ends[i] \in Nat
        BY <1>5, <2>3, <3>1
      <4> QED
        BY <1>1, <1>3, <2>1, <2>4, <3>1, <4>1
    <3>2. CASE i = m + 1
      BY <1>1, <1>3, <2>1, <2>4, <3>2
    <3>3. CASE m + 1 < i
      <4>1. ends[m + 1] < ends[i] /\ ends[i] \in Nat
        BY <1>5, <2>3, <3>3
      <4> QED
        BY <1>1, <1>3, <2>1, <2>4, <3>3, <4>1
    <3> QED
      BY <1>1, <3>1, <3>2, <3>3
  <2> QED
    BY <2>1, <2>3, <2>4, <2>5
<1> QED
  BY <1>8, <1>9 DEF q, r, bytes, ends, m, N

\* The parser arrives at the next place of the walk.
LEMMA NextPlace ==
  ASSUME StreamInv, NEW k \in 0..Len(input.bytes),
         NEW q, q = Walk(input.bytes)[k], Taken(q), q.pos < Len(input.bytes),
         NEW n \in Nat, n <= used - off, parsed + n = q.pos + ValueLen(input.bytes, q.pos),
         Advance(n), UNCHANGED input, cs' = "header", pc' \in {"next", "ended"},
         NEW r, r = Walk(input.bytes)[k + 1], Opens(stack, r.open)',
         delivered' = IF r.open = 0 THEN Append(delivered, parsed') ELSE delivered
  PROVE  FrameInv'
<1>0. /\ input.bytes \in Seq(Byte) /\ input.ends \in Seq(Nat) /\ Len(input.ends) \in Nat
      /\ delivered \in Seq(Nat) /\ Len(delivered) \in Nat /\ Len(input.bytes) \in Nat
      /\ DOMAIN delivered = 1..Len(delivered) /\ DOMAIN input.ends = 1..Len(input.ends)
  BY StreamTypes
<1>1. k + 1 \in 1..Len(input.bytes) /\ r = After(input.bytes, q) /\ q \in Place
  BY <1>0, WalkStep
<1>2. r.pos = q.pos + ValueLen(input.bytes, q.pos)
  BY <1>0, <1>1, AfterType
<1>3. parsed' = r.pos
  BY <1>2 DEF Advance
<1>4. r.pos \in Nat /\ r.pos <= Len(input.bytes)
  <2>1. /\ parsed \in Nat /\ fed \in Nat /\ fed <= Len(input.bytes)
        /\ used - off = fed - parsed
    BY StreamTypes
  <2>2. r.pos = parsed + n
    BY <1>2
  <2> QED
    BY <1>0, <2>1, <2>2
<1>5. /\ r.open # 0 => \A i \in 1..Len(input.ends) : input.ends[i] <= r.pos <=> i <= Len(delivered)
      /\ r.open = 0 =>
           /\ Len(delivered) + 1 \in 1..Len(input.ends)
           /\ input.ends[Len(delivered) + 1] = r.pos
           /\ \A i \in 1..Len(input.ends) : input.ends[i] <= r.pos <=> i <= Len(delivered) + 1
  BY <1>4, TakenNext
<1>6. /\ Len(delivered) <= Len(input.ends)
      /\ \A i \in 1..Len(delivered) : delivered[i] = input.ends[i]
  BY <1>0 DEF Taken
<1>7. Taken(r)'
  <2>1. CASE r.open = 0
    <3>1. delivered' = Append(delivered, r.pos)
      BY <1>3, <2>1
    <3>2. /\ Len(delivered') = Len(delivered) + 1 /\ DOMAIN delivered' = 1..(Len(delivered) + 1)
          /\ \A i \in 1..Len(delivered) : delivered'[i] = delivered[i]
          /\ delivered'[Len(delivered) + 1] = r.pos
      BY <1>0, <1>4, <3>1
    <3>3. ASSUME NEW i \in 1..(Len(delivered) + 1) PROVE delivered'[i] = input.ends[i]
      <4>1. CASE i = Len(delivered) + 1
        BY <1>5, <2>1, <3>2, <4>1
      <4>2. CASE i # Len(delivered) + 1
        <5>1. i \in 1..Len(delivered)
          BY <1>0, <4>2
        <5> QED
          BY <1>6, <3>2, <5>1
      <4> QED
        BY <4>1, <4>2
    <3>4. Len(delivered) + 1 <= Len(input.ends)
      BY <1>0, <1>5, <2>1
    <3> QED
      BY <1>0, <1>5, <2>1, <3>2, <3>3, <3>4 DEF Taken
  <2>2. CASE r.open # 0
    BY <1>0, <1>5, <1>6, <2>2 DEF Taken
  <2> QED
    BY <2>1, <2>2
<1>8. AtPlace(r)'
  BY <1>3, <1>7 DEF AtPlace
<1>9. k + 1 \in 0..Len(input'.bytes) /\ r = Walk(input'.bytes)[k + 1]
  BY <1>0, <1>1
<1>10. (\E j \in 0..Len(input.bytes) : AtPlace(Walk(input.bytes)[j]))'
  BY <1>8, <1>9
<1> QED
  BY <1>10 DEF FrameInv, Exhausted

\* A value is complete.
LEMMA VisitFrame ==
  ASSUME StreamInv, NEW k \in 0..Len(input.bytes),
         NEW q, q = Walk(input.bytes)[k], Taken(q), Opens(stack, q.open),
         q.pos < Len(input.bytes),
         NEW n \in Nat, n <= used - off, parsed + n = q.pos + ValueLen(input.bytes, q.pos),
         Elements(input.bytes, q.pos) = 0,
         pc = "next", NEW ref, visit(n, ref), UNCHANGED input
  PROVE  FrameInv'
<1>0. input.bytes \in Seq(Byte) /\ stack \in Seq(Nat \ {0})
  BY StreamTypes
<1> DEFINE r == Walk(input.bytes)[k + 1]
           left == IF q.open = 0 THEN 0 ELSE q.open - 1
<1>1. r = After(input.bytes, q) /\ q \in Place /\ q.open \in Nat
  BY <1>0, WalkStep
<1>2. r.open = left
  <2>1. After(input.bytes, q).open = left + Elements(input.bytes, q.pos)
    BY <1>0, <1>1, AfterType
  <2>2. left \in Nat
    BY <1>1
  <2> HIDE DEF r, left
  <2> QED
    BY <1>1, <2>1, <2>2
<1>3. Opens(Consumed(stack), left) /\ (Consumed(stack) = <<>> <=> left = 0)
  BY <1>0, <1>1, ConsumedOpens
<1> HIDE DEF r, left
<1>4. Advance(n) /\ cs' = "header" /\ stack' = Consumed(stack)
  BY DEF visit
<1>5. Opens(stack', r.open) /\ (stack' = <<>> <=> r.open = 0)
  BY <1>2, <1>3, <1>4
<1>6. /\ delivered' = IF stack' = <<>> THEN Append(delivered, parsed') ELSE delivered
      /\ pc' \in {"next", "ended"}
  BY DEF visit, release_zone
<1>7. delivered' = IF r.open = 0 THEN Append(delivered, parsed') ELSE delivered
  BY <1>5, <1>6
<1>8. PICK y : y = r
  OBVIOUS
<1>9. Opens(stack, y.open)'
  BY <1>5, <1>8 DEF Opens
<1> QED
  BY <1>4, <1>6, <1>7, <1>8, <1>9, NextPlace DEF r

\* An array begins, empty or not.
LEMMA AggregateFrame ==
  ASSUME StreamInv, NEW k \in 0..Len(input.bytes),
         NEW q, q = Walk(input.bytes)[k], Taken(q), Opens(stack, q.open),
         q.pos < Len(input.bytes),
         NEW n \in Nat, n <= used - off, parsed + n = q.pos + ValueLen(input.bytes, q.pos),
         NEW elements \in Nat, Elements(input.bytes, q.pos) = elements,
         pc = "next", start_aggregate(n, elements), UNCHANGED input
  PROVE  FrameInv'
<1>1. CASE elements = 0 /\ visit(n, FALSE)
  BY <1>1, VisitFrame
<1>2. CASE ~ (elements = 0 /\ visit(n, FALSE))
  <2>0. input.bytes \in Seq(Byte) /\ stack \in Seq(Nat \ {0})
    BY StreamTypes
  <2>1. /\ elements > 0 /\ Advance(n) /\ cs' = "header" /\ stack' = Append(stack, elements)
        /\ delivered' = delivered /\ pc' = pc
    BY <1>2 DEF start_aggregate
  <2> DEFINE r == Walk(input.bytes)[k + 1]
             left == IF q.open = 0 THEN 0 ELSE q.open - 1
  <2>2. r = After(input.bytes, q) /\ q \in Place /\ q.open \in Nat
    BY <2>0, WalkStep
  <2>3. r.open = left + elements
    <3>1. After(input.bytes, q).open = left + Elements(input.bytes, q.pos)
      BY <2>0, <2>2, AfterType
    <3> HIDE DEF r, left
    <3> QED
      BY <2>2, <3>1
  <2>4. Opens(Append(stack, elements), left + elements)
    <3>1. elements \in Nat \ {0}
      BY <2>1
    <3> QED
      BY <2>0, <2>2, <3>1, AppendOpens, Zenon
  <2>5. left \in Nat
    BY <2>2
  <2> HIDE DEF r, left
  <2>6. r.open # 0
    BY <2>1, <2>3, <2>5
  <2>7. PICK y : y = r
    OBVIOUS
  <2>8. Opens(stack', y.open)
    BY <2>1, <2>3, <2>4, <2>7
  <2>9. Opens(stack, y.open)'
    BY <2>8 DEF Opens
  <2>10. delivered' = IF y.open = 0 THEN Append(delivered, parsed') ELSE delivered
    BY <2>1, <2>6, <2>7
  <2> QED
    BY <2>1, <2>7, <2>9, <2>10, NextPlace DEF r
<1> QED
  BY <1>1, <1>2

\* More of the value at q is awaited.
LEMMA ExpectFrame ==
  ASSUME StreamInv, NEW k \in 0..Len(input.bytes),
         NEW q, q = Walk(input.bytes)[k], Taken(q), Opens(stack, q.open), pc = "next",
         NEW n, NEW c \in {"number", "body", "str", "ext", "array"}, NEW t, expect(n, c, t),
         InValue(q.pos)', UNCHANGED input
  PROVE  FrameInv'
<1>1. cs' = c /\ UNCHANGED <<stack, delivered, pc>>
  BY DEF expect
<1>2. Taken(q)' /\ Opens(stack, q.open)'
  BY <1>1 DEF Taken, Opens
<1>3. AtPlace(q)'
  BY <1>1, <1>2 DEF AtPlace
<1>4. (\E j \in 0..Len(input.bytes) : AtPlace(Walk(input.bytes)[j]))'
  BY <1>3
<1> QED
  BY <1>1, <1>4 DEF FrameInv, Exhausted

\* The first half of execute(): a value begins at the place.
LEMMA HeaderFrame == StreamInv /\ FrameInv /\ Header => FrameInv'
<1> SUFFICES ASSUME StreamInv, FrameInv, Header PROVE FrameInv'
  OBVIOUS
<1>0. pc = "next" /\ cs = "header" /\ off < used /\ UNCHANGED <<input, fed, bufVars, closed>>
  BY DEF Header
<1>1. /\ input.bytes \in Seq(Byte) /\ Len(input.bytes) \in Nat /\ parsed \in Nat
      /\ fed \in Nat /\ fed <= Len(input.bytes) /\ used - off = fed - parsed
  BY StreamTypes
<1>2. 1 <= used - off /\ parsed < Len(input.bytes)
  <2>1. used \in Nat /\ off \in Nat
    BY DEF StreamInv, BufferShape
  <2> QED
    BY <1>0, <1>1, <2>1
<1>3. PICK k \in 0..Len(input.bytes) : AtPlace(Walk(input.bytes)[k])
  BY DEF FrameInv
<1>4. PICK q : q = Walk(input.bytes)[k]
  OBVIOUS
<1>5. Taken(q) /\ Opens(stack, q.open) /\ parsed = q.pos /\ q.pos < Len(input.bytes)
  BY <1>0, <1>2, <1>3, <1>4 DEF AtPlace
<1>6. PICK b : b = input.bytes[q.pos + 1]
  OBVIOUS
<1>7. b = Current /\ b.n \in Nat
  BY <1>0, <1>1, <1>5, <1>6, CurrentIsNext, ByteAt
<1>8. CASE b.k \in {"value", "empty"} /\ (visit(1, FALSE) \/ visit(1, TRUE))
  <2>1. ValueLen(input.bytes, q.pos) = 1 /\ Elements(input.bytes, q.pos) = 0
    BY <1>6, <1>8, ValueLengths
  <2> QED
    BY <1>0, <1>2, <1>4, <1>5, <1>8, <2>1, VisitFrame
<1>9. CASE b.k = "fixarray" /\ start_aggregate(1, b.n)
  <2>1. ValueLen(input.bytes, q.pos) = 1 /\ Elements(input.bytes, q.pos) = b.n
    BY <1>6, <1>9, ValueLengths
  <2> QED
    BY <1>0, <1>2, <1>4, <1>5, <1>7, <1>9, <2>1, AggregateFrame
<1>10. CASE b.k \in {"number", "body", "str", "ext", "array"} /\ expect(1, b.k, b.n)
  <2>1. cs' = b.k /\ trail' = b.n /\ parsed' = q.pos + 1
    BY <1>5, <1>10 DEF expect, Advance
  <2>2. InValue(q.pos)'
    BY <1>0, <1>5, <1>6, <1>10, <2>1 DEF InValue
  <2> QED
    BY <1>0, <1>4, <1>5, <1>10, <2>2, ExpectFrame
<1> QED
  BY <1>7, <1>8, <1>9, <1>10 DEF Header

\* The second half of execute(): the size, or the rest, of the value has arrived.
LEMMA TrailFrame == StreamInv /\ FrameInv /\ Trail => FrameInv'
<1> SUFFICES ASSUME StreamInv, FrameInv, Trail PROVE FrameInv'
  OBVIOUS
<1>0. /\ pc = "next" /\ cs # "header" /\ trail <= used - off
      /\ UNCHANGED <<input, fed, bufVars, closed>>
  <2>1. used - off \in Nat /\ trail \in Nat
    BY DEF StreamInv, BufferShape, ParserShape
  <2> QED
    BY <2>1 DEF Trail
<1>1. /\ input.bytes \in Seq(Byte) /\ Len(input.bytes) \in Nat /\ parsed \in Nat
      /\ fed \in Nat /\ fed <= Len(input.bytes) /\ used - off = fed - parsed /\ trail \in Nat
  BY StreamTypes
<1>2. trail > 0 /\ off < used /\ parsed < Len(input.bytes)
  <2>1. used \in Nat /\ off \in Nat /\ trail > 0
    BY <1>0 DEF StreamInv, BufferShape, ParserShape
  <2> QED
    BY <1>0, <1>1, <2>1
<1>3. PICK k \in 0..Len(input.bytes) : AtPlace(Walk(input.bytes)[k])
  BY DEF FrameInv
<1>4. PICK q : q = Walk(input.bytes)[k]
  OBVIOUS
<1>5. Taken(q) /\ Opens(stack, q.open) /\ InValue(q.pos)
  BY <1>0, <1>3, <1>4 DEF AtPlace
<1>6. q.pos \in Nat /\ q.pos < Len(input.bytes)
  BY <1>1, <1>4, <1>5, WalkStep DEF InValue
<1>7. PICK b : b = input.bytes[q.pos + 1]
  OBVIOUS
<1>8. /\ b.n \in Nat /\ SizeAt(input.bytes, q.pos) \in Nat
      /\ b.k \in {"number", "body", "str", "ext", "array"}
  BY <1>1, <1>5, <1>6, <1>7, ByteAt DEF InValue
<1>9. CASE cs = b.k /\ parsed = q.pos + 1 /\ trail = b.n
  <2>1. Current.n = SizeAt(input.bytes, q.pos)
    <3>1. parsed + 1 = q.pos + 2 /\ q.pos + 2 <= Len(input.bytes)
      BY <1>1, <1>2, <1>6, <1>9
    <3>2. Current = input.bytes[q.pos + 2]
      BY <1>2, <3>1, CurrentIsNext
    <3> QED
      BY <3>1, <3>2 DEF SizeAt
  <2>2. CASE cs \in {"number", "body"} /\ (visit(trail, FALSE) \/ visit(trail, TRUE))
    <3>1. ValueLen(input.bytes, q.pos) = 1 + b.n /\ Elements(input.bytes, q.pos) = 0
      BY <1>7, <1>9, <2>2, ValueLengths
    <3>2. parsed + trail = q.pos + ValueLen(input.bytes, q.pos)
      BY <1>6, <1>8, <1>9, <3>1
    <3> QED
      BY <1>0, <1>1, <1>4, <1>5, <1>6, <2>2, <3>1, <3>2, VisitFrame
  <2>3. CASE cs = "str" /\ Current.n = 0 /\ visit(trail, TRUE)
    <3>1. /\ ValueLen(input.bytes, q.pos) = 1 + b.n + SizeAt(input.bytes, q.pos)
          /\ Elements(input.bytes, q.pos) = 0
      <4>1. b.k = "str"
        BY <1>9, <2>3
      <4> QED
        BY <1>7, <4>1, ValueLengths
    <3>2. parsed + trail = q.pos + ValueLen(input.bytes, q.pos)
      <4>1. SizeAt(input.bytes, q.pos) = 0
        BY <2>1, <2>3
      <4>2. ValueLen(input.bytes, q.pos) = 1 + b.n
        BY <1>8, <3>1, <4>1
      <4>3. parsed + trail = q.pos + 1 + b.n
        BY <1>9
      <4> QED
        BY <1>6, <1>8, <4>2, <4>3
    <3> QED
      BY <1>0, <1>1, <1>4, <1>5, <1>6, <2>3, <3>1, <3>2, VisitFrame
  <2>4. CASE cs = "array" /\ start_aggregate(trail, Current.n)
    <3>0. b.k = "array"
      BY <1>9, <2>4
    <3>1. /\ ValueLen(input.bytes, q.pos) = 1 + b.n
          /\ Elements(input.bytes, q.pos) = Current.n
      <4>1. Elements(input.bytes, q.pos) = SizeAt(input.bytes, q.pos)
        BY <1>7, <3>0, ValueLengths
      <4>2. ValueLen(input.bytes, q.pos) = 1 + b.n
        BY <1>7, <3>0, ValueLengths
      <4> QED
        BY <2>1, <4>1, <4>2
    <3>2. parsed + trail = q.pos + ValueLen(input.bytes, q.pos) /\ Current.n \in Nat
      BY <1>6, <1>8, <1>9, <2>1, <3>1
    <3> QED
      BY <1>0, <1>1, <1>4, <1>5, <1>6, <2>4, <3>1, <3>2, AggregateFrame
  <2>5. ASSUME NEW t \in Nat, cs \in {"str", "ext"}, expect(trail, "body", t),
               t = SizeAt(input.bytes, q.pos) + (IF cs = "ext" THEN 1 ELSE 0)
        PROVE  FrameInv'
    <3>1. ValueLen(input.bytes, q.pos) = 1 + b.n + t
      <4>1. PICK z \in Nat : z = SizeAt(input.bytes, q.pos)
        BY <1>8
      <4>2. CASE cs = "str"
        <5>1. b.k = "str"
          BY <1>9, <4>2
        <5>2. ValueLen(input.bytes, q.pos) = 1 + b.n + z
          BY <1>7, <4>1, <5>1, ValueLengths
        <5> QED
          BY <2>5, <4>1, <4>2, <5>2
      <4>3. CASE cs = "ext"
        <5>1. b.k = "ext"
          BY <1>9, <4>3
        <5>2. ValueLen(input.bytes, q.pos) = 1 + b.n + z + 1
          BY <1>7, <4>1, <5>1, ValueLengths
        <5> QED
          BY <1>8, <2>5, <4>1, <4>3, <5>2
      <4> QED
        BY <2>5, <4>2, <4>3
    <3>2. cs' = "body" /\ trail' = t /\ parsed' = q.pos + 1 + b.n
      BY <1>9, <2>5 DEF expect, Advance
    <3>3. parsed' + trail' = q.pos + ValueLen(input.bytes, q.pos)
      BY <1>6, <1>8, <2>5, <3>1, <3>2
    <3>4. InValue(q.pos)'
      BY <1>0, <1>6, <1>7, <1>8, <1>9, <2>5, <3>2, <3>3 DEF InValue
    <3> QED
      BY <1>0, <1>4, <1>5, <2>5, <3>4, ExpectFrame
  <2>6. CASE cs = "str" /\ Current.n > 0 /\ expect(trail, "body", Current.n)
    BY <1>8, <2>1, <2>5, <2>6
  <2>7. CASE cs = "ext" /\ expect(trail, "body", Current.n + 1)
    BY <1>8, <2>1, <2>5, <2>7
  <2> QED
    BY <2>2, <2>3, <2>4, <2>6, <2>7 DEF Trail
<1>10. CASE /\ cs = "body" /\ b.k \in {"str", "ext"} /\ parsed = q.pos + 1 + b.n
            /\ parsed + trail = q.pos + ValueLen(input.bytes, q.pos)
  <2>1. visit(trail, TRUE)
    BY <1>10 DEF Trail
  <2>2. Elements(input.bytes, q.pos) = 0
    BY <1>7, <1>10, ValueLengths
  <2> QED
    BY <1>0, <1>1, <1>4, <1>5, <1>6, <1>10, <2>1, <2>2, VisitFrame
<1> QED
  BY <1>5, <1>7, <1>9, <1>10 DEF InValue

\* Steps that neither parse nor start a read leave the parser where it is.
LEMMA FrameUnchanged ==
  ASSUME FrameInv, UNCHANGED <<input, cs, trail, stack, parsed, delivered>>, Exhausted'
  PROVE  FrameInv'
  BY DEF FrameInv, AtPlace, Taken, InValue, Opens

LEMMA FrameInit == Init => FrameInv
<1> SUFFICES ASSUME Init PROVE FrameInv
  OBVIOUS
<1>0. input \in Input /\ input.bytes \in Seq(Byte) /\ input.ends \in Seq(Nat)
  BY InputAssumption DEF Init
<1>1. Len(input.bytes) \in Nat /\ DOMAIN input.ends = 1..Len(input.ends) /\ Len(input.ends) \in Nat
  BY <1>0
<1>2. 0 \in 0..Len(input.bytes)
  BY <1>1
<1> DEFINE w == Walk(input.bytes)
           q == w[0]
<1>3. Walks(input.bytes, w, Len(input.bytes))
  BY <1>0, WalkIsWalk
<1>4. q = [pos |-> 0, open |-> 0]
  BY <1>3 DEF Walks
<1> HIDE DEF w, q
<1>5. q.pos = 0 /\ q.open = 0
  BY <1>4
<1>6. \A i \in DOMAIN input.ends : input.ends[i] \in Nat /\ input.ends[i] > 0
  <2> SUFFICES ASSUME NEW i \in DOMAIN input.ends PROVE input.ends[i] \in Nat /\ input.ends[i] > 0
    OBVIOUS
  <2>1. input.ends[i] \in MessageEnds(input.bytes)
    BY <1>0, EndsAssumption DEF Framed
  <2>2. PICK j \in 1..Len(input.bytes) : input.ends[i] = w[j].pos
    BY <2>1 DEF MessageEnds, w
  <2>3. j \in 0..Len(input.bytes) /\ 0 < j /\ q.pos < Len(input.bytes)
    BY <1>1, <1>5
  <2>4. w[j].pos > w[0].pos
    BY <1>0, <1>2, <1>3, <2>3, WalkOrder DEF q
  <2>5. input.ends[i] \in Nat
    BY <1>0
  <2> QED
    BY <1>5, <2>2, <2>4, <2>5 DEF q
<1>7. delivered = <<>> /\ Len(delivered) = 0 /\ DOMAIN delivered = {} /\ stack = <<>>
  BY DEF Init
<1>8. Taken(q)
  BY <1>1, <1>5, <1>6, <1>7 DEF Taken
<1>9. Opens(stack, q.open)
  <2> DEFINE h == [i \in 0..0 |-> 0]
  <2>1. Len(<<>>) = 0 /\ h \in [0..0 -> Nat] /\ h[0] = 0
    OBVIOUS
  <2> HIDE DEF h
  <2> QED
    BY <1>5, <1>7, <2>1 DEF Opens
<1>10. AtPlace(q)
  BY <1>5, <1>8, <1>9 DEF AtPlace, Init
<1>11. Exhausted
  BY DEF Exhausted, Init
<1> QED
  BY <1>2, <1>10, <1>11 DEF FrameInv, q, w

LEMMA FrameNext == StreamInv /\ FrameInv /\ [Next]_vars => FrameInv'
<1> SUFFICES ASSUME StreamInv, FrameInv, [Next]_vars PROVE FrameInv'
  OBVIOUS
<1>0. used - off = fed - parsed /\ fed \in Nat /\ parsed \in Nat
  BY StreamTypes
<1>1. CASE Start
  <2>1. cs = "header" /\ fed = parsed
    BY <1>0, <1>1 DEF Start, StreamInv, ParserShape, BufferShape
  <2> QED
    BY <1>1, <2>1, FrameUnchanged DEF Start, Exhausted
<1>2. ASSUME NEW n \in 1..ReadSize, Read(n) PROVE FrameInv'
  BY <1>2, FrameUnchanged DEF Read, Exhausted
<1>3. CASE Header
  BY <1>3, HeaderFrame
<1>4. CASE Trail
  BY <1>4, TrailFrame
<1>5. CASE Reread
  <2>1. Exhausted'
    <3>1. used \in Nat /\ off \in Nat
      BY DEF StreamInv, BufferShape
    <3>2. IF cs = "header" THEN parsed = fed ELSE fed - parsed < trail
      BY <1>0, <1>5, <3>1 DEF Reread
    <3> QED
      BY <1>5, <3>2 DEF Reread, Exhausted
  <2> QED
    BY <1>5, <2>1, FrameUnchanged DEF Reread
<1>6. ASSUME NEW m \in live, Release(m) PROVE FrameInv'
  BY <1>6, FrameUnchanged DEF Release, Exhausted, FrameInv
<1>7. CASE Close
  BY <1>7, FrameUnchanged DEF Close, Exhausted, FrameInv
<1>8. CASE Destroy
  BY <1>8, FrameUnchanged DEF Destroy, Exhausted, FrameInv
<1>9. CASE UNCHANGED vars
  BY <1>9, FrameUnchanged DEF vars, Exhausted, FrameInv
<1> QED
  BY <1>1, <1>2, <1>3, <1>4, <1>5, <1>6, <1>7, <1>8, <1>9 DEF Next

\* Nothing of a message that ends in what has arrived is left for a read.
LEMMA FrameWhole == StreamInv /\ FrameInv => MessagesWhole
<1> SUFFICES ASSUME StreamInv, FrameInv PROVE MessagesWhole
  OBVIOUS
<1>0. /\ input.bytes \in Seq(Byte) /\ input.ends \in Seq(Nat) /\ Len(input.bytes) \in Nat
      /\ fed \in Nat /\ parsed \in Nat /\ parsed <= fed /\ trail \in Nat
      /\ Len(delivered) \in Nat /\ DOMAIN input.ends = 1..Len(input.ends) /\ Len(input.ends) \in Nat
  BY StreamTypes
<1>1. PICK k \in 0..Len(input.bytes) : AtPlace(Walk(input.bytes)[k])
  BY DEF FrameInv
<1>2. PICK q : q = Walk(input.bytes)[k]
  OBVIOUS
<1>3. Taken(q) /\ IF cs = "header" THEN parsed = q.pos ELSE InValue(q.pos)
  BY <1>1, <1>2 DEF AtPlace
<1>4. q \in Place /\ q.pos \in Nat
  BY <1>0, <1>2, WalkStep
<1>5. ASSUME pc = "reading", NEW i \in DOMAIN input.ends
      PROVE  input.ends[i] <= fed <=> i <= Len(delivered)
  <2>0. input.ends[i] \in Nat /\ (input.ends[i] <= q.pos <=> i <= Len(delivered))
    BY <1>0, <1>3 DEF Taken
  <2>1. CASE cs = "header"
    BY <1>3, <1>5, <2>0, <2>1 DEF FrameInv, Exhausted
  <2>2. CASE cs # "header"
    <3>1. InValue(q.pos) /\ fed - parsed < trail
      BY <1>3, <1>5, <2>2 DEF FrameInv, Exhausted
    <3>2. q.pos < Len(input.bytes)
      BY <3>1 DEF InValue
    <3>3. PICK b : b = input.bytes[q.pos + 1]
      OBVIOUS
    <3>4. b.n \in Nat /\ SizeAt(input.bytes, q.pos) \in Nat
      BY <1>0, <1>4, <3>2, <3>3, ByteAt
    <3>5. PICK v \in Nat : v = ValueLen(input.bytes, q.pos)
      BY <1>0, <1>4, <3>2, AfterType
    <3>6. b.k \in {"number", "body", "str", "ext", "array"} => v >= 1 + b.n
      <4>1. PICK z \in Nat : z = SizeAt(input.bytes, q.pos)
        BY <3>4
      <4>2. b.k \in {"number", "body", "array"} => v = 1 + b.n
        BY <3>3, <3>5, ValueLengths
      <4>3. b.k = "str" => v = 1 + b.n + z
        BY <3>3, <3>5, <4>1, ValueLengths
      <4>4. b.k = "ext" => v = 1 + b.n + z + 1
        BY <3>3, <3>5, <4>1, ValueLengths
      <4> QED
        BY <3>4, <4>2, <4>3, <4>4
    <3>7. parsed > q.pos /\ parsed + trail <= q.pos + v
      <4>1. /\ b.k \in {"number", "body", "str", "ext", "array"}
            /\ \/ parsed = q.pos + 1 /\ trail = b.n
               \/ parsed = q.pos + 1 + b.n /\ parsed + trail = q.pos + v
        BY <3>1, <3>3, <3>5 DEF InValue
      <4>2. v >= 1 + b.n
        BY <3>6, <4>1
      <4>3. CASE parsed = q.pos + 1 /\ trail = b.n
        BY <1>4, <3>4, <4>2, <4>3
      <4>4. CASE parsed = q.pos + 1 + b.n /\ parsed + trail = q.pos + v
        <5>1. parsed > q.pos
          BY <1>4, <3>4, <4>4
        <5> QED
          BY <1>0, <1>4, <3>5, <4>4, <5>1
      <4> QED
        BY <4>1, <4>3, <4>4
    <3>8. q.pos < fed /\ fed < q.pos + v
      BY <1>0, <1>4, <3>1, <3>7
    <3>9. input.ends[i] > q.pos => input.ends[i] >= q.pos + v
      <4>1. Walk(input.bytes)[k + 1].pos = q.pos + v
        BY <1>0, <1>2, <1>4, <3>2, <3>5, WalkStep, AfterType
      <4>2. input.ends[i] \in MessageEnds(input.bytes)
        BY <1>0, EndsInOrder
      <4>3. /\ input.ends[i] > Walk(input.bytes)[k].pos =>
                  input.ends[i] >= Walk(input.bytes)[k + 1].pos
        BY <1>0, <1>2, <3>2, <4>2, EndsBetween, Zenon
      <4> QED
        BY <1>2, <4>1, <4>3
    <3>10. PICK e \in Nat, p \in Nat : e = input.ends[i] /\ p = q.pos
      BY <1>4, <2>0
    <3>11. e <= fed <=> e <= p
      <4>1. p < fed /\ fed < p + v /\ (e > p => e >= p + v)
        BY <3>8, <3>9, <3>10
      <4>2. fed \in Nat
        BY <1>0
      <4> QED
        BY <4>1, <4>2
    <3> QED
      BY <2>0, <3>10, <3>11
  <2> QED
    BY <2>1, <2>2
<1>6. ASSUME pc = "reading"
      PROVE  Len(delivered) = Cardinality({i \in DOMAIN input.ends : input.ends[i] <= fed})
  <2>1. {i \in DOMAIN input.ends : input.ends[i] <= fed} = 1..Len(delivered)
    <3>1. Len(delivered) <= Len(input.ends)
      BY <1>3 DEF Taken
    <3>2. {i \in DOMAIN input.ends : input.ends[i] <= fed}
            = {i \in 1..Len(input.ends) : i <= Len(delivered)}
      BY <1>0, <1>5, <1>6
    <3> QED
      BY <1>0, <3>1, <3>2
  <2>2. Cardinality(1..Len(delivered)) = Len(delivered)
    <3>1. 1 \in Int /\ Len(delivered) \in Int
      BY <1>0
    <3>2. Cardinality(1..Len(delivered)) =
            IF 1 > Len(delivered) THEN 0 ELSE Len(delivered) - 1 + 1
      BY <3>1, FS_Interval, Zenon
    <3> QED
      BY <1>0, <3>2
  <2> QED
    BY <2>1, <2>2
<1> QED
  BY <1>3, <1>6 DEF MessagesWhole, Taken

\* The parser is at a place of the walk throughout.
LEMMA FrameAlways == Spec => []FrameInv
<1> QED
  BY StreamInit, StreamNext, FrameInit, FrameNext, PTL DEF Spec

\* next() (v2/parse.hpp): the messages come out where the format says they end,
\* however the stream is cut into reads and the buffer is moved, and none that
\* has arrived waits for the next read.
THEOREM MessagesComeOutWhole == Spec => []MessagesWhole
<1> QED
  BY StreamAlways, FrameAlways, FrameWhole, PTL

\* Every stream of bytes has its ends: EndsAssumption excludes none.
THEOREM EveryStreamFramed ==
  \A bytes \in Seq(Byte) : \E ends \in Seq(Nat) : Framed([bytes |-> bytes, ends |-> ends])
<1> SUFFICES ASSUME NEW bytes \in Seq(Byte)
             PROVE  \E ends \in Seq(Nat) : Framed([bytes |-> bytes, ends |-> ends])
  OBVIOUS
<1> DEFINE E == MessageEnds(bytes)
           Lists(t, n) == /\ {t[i] : i \in 1..Len(t)} = {e \in E : e <= n}
                          /\ \A i, j \in 1..Len(t) : i < j => t[i] < t[j]
           S == {n \in Nat : \E t \in Seq(Nat) : Lists(t, n)}
<1>0. Len(bytes) \in Nat
  OBVIOUS
<1>1. \A e \in E : e \in Nat /\ e > 0 /\ e <= Len(bytes)
  <2> SUFFICES ASSUME NEW e \in E PROVE e \in Nat /\ e > 0 /\ e <= Len(bytes)
    OBVIOUS
  <2> DEFINE w == Walk(bytes)
  <2>1. PICK i \in 1..Len(bytes) : e = w[i].pos /\ w[i].pos <= Len(bytes)
    BY DEF MessageEnds
  <2>2. Walks(bytes, w, Len(bytes)) /\ i \in 0..Len(bytes) /\ 0 \in 0..Len(bytes) /\ 0 < i
    BY <1>0, WalkIsWalk
  <2>3. w[i].pos \in Nat
    BY <2>2, WalkStep
  <2> HIDE DEF w
  <2>4. w[0].pos = 0 /\ 0 < Len(bytes)
    BY <1>0, <2>1, <2>2 DEF Walks
  <2>5. w[i].pos > w[0].pos
    BY <2>2, <2>4, WalkOrder
  <2> QED
    BY <2>1, <2>3, <2>4, <2>5
<1> HIDE DEF E
<1>2. 0 \in S
  <2>1. Lists(<<>>, 0)
    <3>1. Len(<<>>) = 0
      OBVIOUS
    <3>2. {e \in E : e <= 0} = {}
      BY <1>1
    <3> QED
      BY <3>1, <3>2
  <2>2. <<>> \in Seq(Nat)
    OBVIOUS
  <2> QED
    BY <2>1, <2>2
<1>3. ASSUME NEW n \in Nat, n \in S PROVE n + 1 \in S
  <2>1. PICK t \in Seq(Nat) : Lists(t, n)
    BY <1>3
  <2>0. Len(t) \in Nat /\ \A i \in 1..Len(t) : t[i] \in Nat /\ t[i] <= n
    BY <2>1
  <2>2. CASE n + 1 \in E
    <3> DEFINE u == Append(t, n + 1)
    <3>1. /\ u \in Seq(Nat) /\ Len(u) = Len(t) + 1 /\ u[Len(t) + 1] = n + 1
          /\ \A i \in 1..Len(t) : u[i] = t[i]
      BY <2>0
    <3> HIDE DEF u
    <3>2. {u[i] : i \in 1..Len(u)} = {t[i] : i \in 1..Len(t)} \cup {n + 1}
      <4>1. 1..Len(u) = (1..Len(t)) \cup {Len(t) + 1}
        BY <2>0, <3>1
      <4> QED
        BY <3>1, <4>1
    <3>3. {e \in E : e <= n + 1} = {e \in E : e <= n} \cup {n + 1}
      BY <1>1, <2>2
    <3>4. ASSUME NEW i \in 1..Len(u), NEW j \in 1..Len(u), i < j PROVE u[i] < u[j]
      <4>1. i \in 1..Len(t)
        BY <2>0, <3>1, <3>4
      <4>2. CASE j = Len(t) + 1
        <5>1. u[j] = n + 1 /\ u[i] = t[i]
          BY <3>1, <4>1, <4>2
        <5>2. t[i] \in Nat /\ t[i] <= n
          BY <2>0, <4>1
        <5> QED
          BY <5>1, <5>2
      <4>3. CASE j # Len(t) + 1
        <5>1. j \in 1..Len(t)
          BY <2>0, <3>1, <4>3
        <5> QED
          BY <2>1, <3>1, <3>4, <4>1, <5>1
      <4> QED
        BY <4>2, <4>3
    <3>5. Lists(u, n + 1)
      BY <2>1, <3>2, <3>3, <3>4
    <3> HIDE DEF Lists
    <3> QED
      BY <3>1, <3>5
  <2>3. CASE n + 1 \notin E
    <3>1. {e \in E : e <= n + 1} = {e \in E : e <= n}
      BY <1>1, <2>3
    <3> QED
      BY <2>1, <3>1
  <2> QED
    BY <2>2, <2>3
<1>4. Nat \subseteq S
  <2> HIDE DEF S
  <2> QED
    BY <1>2, <1>3, SetInduction
<1>5. PICK ends \in Seq(Nat) : Lists(ends, Len(bytes))
  BY <1>0, <1>4
<1>6. {e \in E : e <= Len(bytes)} = E
  BY <1>1
<1>7. DOMAIN ends = 1..Len(ends)
  OBVIOUS
<1>8. Framed([bytes |-> bytes, ends |-> ends])
  BY <1>5, <1>6, <1>7 DEF Framed, E
<1> QED
  BY <1>8
-----------------------------------------------------------------------------
(* Buffers that were freed.                                                *)

\* A buffer that was freed is neither counted nor written to again.
FreedStep ==
  \A b \in Buffer : count[b] = 0 => b \in Buffer' /\ count'[b] = 0 /\ mem'[b] = mem[b]

FreedForGood == [][FreedStep]_vars

\* When the unpacker and all messages are gone, every buffer has been freed.
AllFreed == pc = "destroyed" /\ live = {} => \A b \in Buffer : count[b] = 0

\* Shares are only passed on: who owns a buffer after a step owned it before, or
\* got it from the zone or the unpacker, and only the buffer in use is written to.
PassedOn ==
  /\ \A m \in live' : m \in live \/ (pc # "destroyed" /\ m.fin \subseteq zone.fin \cup {buf})
  /\ zone'.fin \subseteq zone.fin \cup (IF pc # "destroyed" THEN {buf} ELSE {})
  /\ \/ buf' = buf /\ (pc' # "destroyed" => pc # "destroyed")
     \/ buf' = Len(mem) + 1
  /\ Len(mem') >= Len(mem)
  /\ \A b \in 1..Len(mem) : b # buf \/ pc = "destroyed" => mem'[b] = mem[b]

\* reserve_buffer() leaves the old buffer to the zone, or gives it up.
LEMMA ReservePassedOn ==
  ASSUME BufferShape, OwnerInv, reserve_buffer, pc # "destroyed", UNCHANGED live
  PROVE  PassedOn
<1>0. Len(mem) \in Nat /\ mem \in Seq(Seq(Nat))
  BY ShapeTypes DEF BufferShape
<1>1. CASE UNCHANGED <<mem, buf, zone>>
  BY <1>0, <1>1 DEF PassedOn
<1>2. ASSUME NEW s, NEW content \in Seq(Nat), MoveTo(s, content),
             zone'.fin \subseteq zone.fin \cup {buf}
      PROVE  PassedOn
  <2>1. mem' = Append(mem, content) /\ buf' = Len(mem) + 1
    BY <1>2 DEF MoveTo
  <2>2. Len(mem') = Len(mem) + 1 /\ \A b \in 1..Len(mem) : mem'[b] = mem[b]
    BY <1>0, <2>1
  <2> QED
    BY <1>0, <1>2, <2>1, <2>2 DEF PassedOn
<1>3. ASSUME NEW u, NEW f, Grow(u, f), u \in {Counter, used} PROVE PassedOn
  <2>1. PICK s : MoveTo(s, SubSeq(mem[buf], 1, u - Counter)) /\ UNCHANGED zone
    BY <1>3 DEF Grow
  <2>2. SubSeq(mem[buf], 1, u - Counter) \in Seq(Nat)
    <3>1. mem[buf] \in Seq(Nat) /\ Len(mem[buf]) \in Nat
      BY ShapeTypes
    <3>2. u - Counter \in Nat /\ u - Counter <= Len(mem[buf])
      BY <1>3, <3>1, SizesAssumption DEF BufferShape
    <3> QED
      BY <3>1, <3>2
  <2> QED
    BY <1>2, <2>1, <2>2
<1>4. CASE Replace
  <2>1. PICK s : MoveTo(s, Unparsed)
    BY <1>4 DEF Replace
  <2>2. zone' = [zone EXCEPT !.fin = @ \cup {buf}] \/ zone' = zone
    BY <1>4 DEF Replace
  <2>3. zone \in [refs : SUBSET Reference, fin : SUBSET Nat]
    BY DEF OwnerInv
  <2>4. zone'.fin \subseteq zone.fin \cup {buf}
    BY <2>2, <2>3
  <2>5. Unparsed \in Seq(Nat)
    BY ShapeTypes
  <2> QED
    BY <1>2, <2>1, <2>4, <2>5
<1> QED
  BY <1>1, <1>3, <1>4 DEF reserve_buffer, expand_buffer, bufVars

\* A value that is complete, and a message that is.
LEMMA VisitPassedOn ==
  ASSUME BufferShape, OwnerInv, NEW n, NEW ref, visit(n, ref), pc = "next",
         UNCHANGED <<mem, buf>>
  PROVE  PassedOn
<1>0. Len(mem) \in Nat /\ zone \in [refs : SUBSET Reference, fin : SUBSET Nat]
  BY ShapeTypes DEF OwnerInv
<1>1. CASE stack' # <<>>
  <2>1. live' = live /\ \E refs : zone' = [zone EXCEPT !.refs = refs]
    BY <1>1 DEF visit
  <2>2. zone'.fin = zone.fin
    BY <1>0, <2>1
  <2> QED
    BY <1>0, <2>1, <2>2 DEF PassedOn
<1>2. CASE stack' = <<>>
  <2>1. PICK refs, rr : release_zone(refs, rr)
    BY <1>2 DEF visit
  <2> DEFINE fin == zone.fin \cup (IF rr THEN {buf} ELSE {})
             msg == [id |-> Len(delivered'), refs |-> refs, fin |-> fin]
  <2>2. zone'.fin = {} /\ (live' = live \/ live' = live \cup {msg})
    BY <2>1 DEF release_zone, EmptyZone
  <2>3. msg.fin \subseteq zone.fin \cup {buf}
    OBVIOUS
  <2> HIDE DEF msg
  <2> QED
    BY <1>0, <2>2, <2>3 DEF PassedOn
<1> QED
  BY <1>1, <1>2

LEMMA NextPassedOn == StreamInv /\ OwnerInv /\ [Next]_vars => PassedOn
<1> SUFFICES ASSUME StreamInv, OwnerInv, [Next]_vars PROVE PassedOn
  OBVIOUS
<1>0. BufferShape /\ Len(mem) \in Nat
  BY ShapeTypes DEF StreamInv
<1>1. ASSUME UNCHANGED <<mem, buf, zone, live>>, pc' # "destroyed" => pc # "destroyed"
      PROVE  PassedOn
  BY <1>0, <1>1 DEF PassedOn
<1>2. CASE Start
  BY <1>0, <1>2, ReservePassedOn DEF Start
<1>3. ASSUME NEW n \in 1..ReadSize, Read(n) PROVE PassedOn
  <2>1. n \in Nat
    BY SizesAssumption
  <2>2. Len(mem') = Len(mem) /\ buf' = buf /\ \A b \in 1..Len(mem) : b # buf => mem'[b] = mem[b]
    BY <1>3, <2>1, ReadBytes
  <2>3. pc = "reading" /\ UNCHANGED <<zone, live>>
    BY <1>3 DEF Read
  <2> QED
    BY <1>0, <2>2, <2>3 DEF PassedOn
<1>4. ASSUME NEW n, NEW ref, visit(n, ref), pc = "next", UNCHANGED <<bufVars>> PROVE PassedOn
  BY <1>0, <1>4, VisitPassedOn DEF bufVars
<1>5. ASSUME NEW n, NEW e, start_aggregate(n, e), pc = "next", UNCHANGED <<bufVars>>
      PROVE  PassedOn
  BY <1>1, <1>4, <1>5 DEF start_aggregate, bufVars
<1>6. ASSUME NEW n, NEW c, NEW t, expect(n, c, t), pc = "next", UNCHANGED <<bufVars>>
      PROVE  PassedOn
  BY <1>1, <1>6 DEF expect, bufVars
<1>7. CASE Header
  BY <1>4, <1>5, <1>6, <1>7 DEF Header
<1>8. CASE Trail
  BY <1>4, <1>5, <1>6, <1>8 DEF Trail
<1>9. CASE Reread
  BY <1>0, <1>1, <1>9, ReservePassedOn DEF Reread, bufVars
<1>10. ASSUME NEW m \in live, Release(m) PROVE PassedOn
  BY <1>0, <1>10 DEF Release, PassedOn, bufVars
<1>11. CASE Close
  BY <1>1, <1>11 DEF Close, bufVars
<1>12. CASE Destroy
  BY <1>0, <1>12 DEF Destroy, PassedOn, bufVars, EmptyZone
<1>13. CASE UNCHANGED vars
  BY <1>1, <1>13 DEF vars, bufVars
<1> QED
  BY <1>2, <1>3, <1>7, <1>8, <1>9, <1>10, <1>11, <1>12, <1>13 DEF Next

\* A counter that is 0 stays 0, because nobody gets a share of that buffer.
LEMMA FreedStays ==
  ASSUME StreamInv, OwnerInv, OwnerInv', StreamInv', PassedOn
  PROVE  FreedStep
<1> SUFFICES ASSUME NEW b \in Buffer, count[b] = 0
             PROVE  b \in Buffer' /\ count'[b] = 0 /\ mem'[b] = mem[b]
  BY DEF FreedStep
<1>0. /\ BufferShape /\ Len(mem) \in Nat /\ DOMAIN mem = 1..Len(mem)
      /\ Len(mem') \in Nat /\ DOMAIN mem' = 1..Len(mem')
  <2>1. BufferShape /\ mem \in Seq(Seq(Nat)) /\ mem' \in Seq(Seq(Nat))
    BY DEF StreamInv, BufferShape
  <2> QED
    BY <2>1
<1>1. b \in 1..Len(mem) /\ b \in 1..Len(mem') /\ b # Len(mem) + 1
  BY <1>0 DEF Buffer, PassedOn
<1>2. Shares(b) = {} /\ b \notin zone.fin /\ (b # buf \/ pc = "destroyed")
  BY <1>0, <1>1, CountOf
<1>3. {m \in live' : b \in m.fin} = {}
  BY <1>2 DEF PassedOn, Shares
<1>4. b \notin zone'.fin /\ ~ (b = buf' /\ pc' # "destroyed")
  BY <1>1, <1>2 DEF PassedOn
<1>5. count'[b] = Cardinality({m \in live' : b \in m.fin})
                  + (IF b \in zone'.fin THEN 1 ELSE 0)
                  + (IF b = buf' /\ pc' # "destroyed" THEN 1 ELSE 0)
  <2>1. CountExact' /\ b \in Buffer'
    BY <1>0, <1>1 DEF OwnerInv, Buffer
  <2> QED
    BY <2>1 DEF CountExact
<1>6. Cardinality({m \in live' : b \in m.fin}) = 0
  BY <1>3, FS_EmptySet
<1>7. count'[b] = 0
  BY <1>4, <1>5, <1>6
<1>8. mem'[b] = mem[b]
  BY <1>1, <1>2 DEF PassedOn
<1> QED
  BY <1>0, <1>1, <1>7, <1>8 DEF Buffer

\* decr_count() frees a buffer once: from then on it is never written to by a
\* read and its counter never rises again.
THEOREM NoUseAfterFree == Spec => FreedForGood
<1>1. StreamInv /\ OwnerInv /\ StreamInv' /\ OwnerInv' /\ [Next]_vars => [FreedStep]_vars
  BY NextPassedOn, FreedStays
<1> QED
  BY <1>1, StreamAlways, OwnerAlways, PTL DEF Spec, FreedForGood

\* ~parser() and the end of the last message leave no buffer behind.
THEOREM NoBufferLeaks == Spec => []AllFreed
<1>1. StreamInv /\ OwnerInv => AllFreed
  <2> SUFFICES ASSUME StreamInv, OwnerInv, pc = "destroyed", live = {}, NEW b \in Buffer
               PROVE  count[b] = 0
    BY DEF AllFreed
  <2>1. b \in 1..Len(mem) /\ BufferShape
    BY DEF StreamInv, BufferShape, Buffer
  <2>2. Shares(b) = {} /\ b \notin zone.fin
    BY DEF OwnerInv, EmptyZone, Shares
  <2> QED
    BY <2>1, <2>2, CountOf
<1> QED
  BY <1>1, StreamAlways, OwnerAlways, PTL
=============================================================================
