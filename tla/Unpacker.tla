------------------------------ MODULE Unpacker ------------------------------
(***************************************************************************)
(* The read side of a connection: msgpack's unpacker (pac_) and the loop   *)
(* of server_session::do_read() and of client::impl::do_read() around it.  *)
(* asio writes at buffer(), next() parses what has arrived and may stop in *)
(* the middle of a message, and the strings of a message are not copied:   *)
(* the objects point into the buffer, which the unpacker and the zones of  *)
(* the messages share by a count in front of it.  Messages live on in the  *)
(* handlers of a server and in the results of a client's calls.            *)
(*                                                                         *)
(* A byte is what the parser makes of it; a buffer holds positions of the  *)
(* byte stream.  The client has no Close.                                  *)
(***************************************************************************)
EXTENDS Naturals, Sequences, FiniteSets

CONSTANTS
  Input,       \* what peers send: the bytes, and where each message ends
  Counter,     \* COUNTER_SIZE
  InitSize,    \* MSGPACK_UNPACKER_INIT_BUFFER_SIZE
  ReadSize     \* default_buffer_size

\* A byte starts a value of one byte, an empty string, an array of n (a map of
\* m pairs is an array of 2m), or says that n bytes follow: a number, a body
\* that is referenced, or the size of a body (of an extension: less one) or of
\* an array.  "data" is a byte of those, with the size n it stands for.
Byte == [k : {"value", "empty", "fixarray", "data"}, n : Nat]
        \cup [k : {"number", "body", "str", "ext", "array"}, n : Nat \ {0}]

ASSUME InputAssumption == Input \subseteq [bytes : Seq(Byte), ends : Seq(Nat)]
ASSUME SizesAssumption ==
  Counter \in Nat \ {0} /\ InitSize \in Nat /\ ReadSize \in Nat /\ InitSize >= Counter

VARIABLES
  input,         \* what this peer sends
  fed,           \* how much of it has arrived
  mem, size, count,   \* the buffers: contents behind the counter, size, counter
  buf,           \* m_buffer
  used, free, off,    \* m_used, m_free, m_off
  cs, trail, stack,   \* m_cs, m_trail and the values each open array still needs
  referenced,    \* m_referenced
  zone,          \* m_z: references made so far, and the buffers its finalizers release
  parsed,        \* bytes parsed, as m_parsed but never reset
  live,          \* messages that were taken out and are in use
  delivered,     \* history: where each message ended
  pc,            \* before the first read, a read is outstanding, the loop runs, it is over
  closed         \* is_closed()

bufVars == <<mem, size, buf, used, free>>
vars == <<input, fed, bufVars, count, off, cs, trail, stack, referenced, zone, parsed, live,
          delivered, pc, closed>>

Buffer == DOMAIN mem
Reference == [buf : Nat, at : Nat, len : Nat, idx : Nat]
EmptyZone == [refs |-> {}, fin |-> {}]

TypeOK ==
  /\ input \in Input /\ fed \in 0..Len(input.bytes)
  /\ mem \in Seq(Seq(Nat))
  /\ size \in [Buffer -> Nat] /\ count \in [Buffer -> Nat]
  /\ buf \in Buffer
  /\ used \in Nat /\ free \in Nat /\ off \in Nat
  /\ Counter <= off /\ off <= used /\ used + free = size[buf]
  /\ fed - parsed = used - off
  /\ cs \in {"header", "number", "body", "str", "ext", "array"}
  /\ trail \in Nat /\ stack \in Seq(Nat \ {0})
  /\ referenced \in BOOLEAN /\ closed \in BOOLEAN
  /\ zone \in [refs : SUBSET Reference, fin : SUBSET Nat]
  /\ live \subseteq [id : Nat, refs : SUBSET Reference, fin : SUBSET Nat]
  /\ parsed \in Nat /\ delivered \in Seq(Nat)
  /\ pc \in {"constructed", "reading", "next", "ended", "destroyed"}

\* next_size: from, doubled until it is enough.  Sizes do not overflow size_t: that
\* branch of the loops (parse.hpp:862-865, 882-885) is left out.
Doubled(from, need) ==
  {s \in need..(from + 2 * need) :
     s = from \/ (s < 2 * need /\ \E k \in 1..need : s = from * 2^k)}

\* The constructor of the unpacker.
Init ==
  /\ input \in Input /\ fed = 0
  /\ mem = <<<<>>>> /\ size = <<InitSize>> /\ count = <<1>> /\ buf = 1
  /\ used = Counter /\ off = Counter /\ free = InitSize - Counter
  /\ cs = "header" /\ trail = 0 /\ stack = <<>>
  /\ referenced = FALSE /\ zone = EmptyZone
  /\ parsed = 0 /\ live = {} /\ delivered = <<>>
  /\ pc = "constructed" /\ closed = FALSE
-----------------------------------------------------------------------------
(* Buffers.                                                                *)

\* decr_count() for each finalizer of a zone.
Released(c, fin) == [b \in DOMAIN c |-> IF b \in fin THEN c[b] - 1 ELSE c[b]]

\* n bytes of the stream, from position i on, are written behind the first at bytes.
Written(m, at, i, n) ==
  [j \in 1..(IF at + n > Len(m) THEN at + n ELSE Len(m)) |->
     IF j > at /\ j <= at + n THEN i + (j - at) - 1 ELSE m[j]]

\* async_read_some() completes, and buffer_consumed(); a closed session ignores it.
Read(n) ==
  /\ pc = "reading"
  /\ n <= ReadSize /\ fed + n <= Len(input.bytes)
  /\ mem' = [mem EXCEPT ![buf] = Written(@, used - Counter, fed + 1, n)]
  /\ IF closed
     THEN pc' = "ended" /\ UNCHANGED <<fed, used, free>>
     ELSE /\ pc' = "next"
          /\ fed' = fed + n
          /\ used' = used + n
          /\ free' = free - n
  /\ UNCHANGED <<input, size, count, buf, off, cs, trail, stack, referenced, zone, parsed,
                 live, delivered, closed>>

\* A new buffer of s bytes takes the unparsed bytes over.
MoveTo(s, content) ==
  /\ mem' = Append(mem, content)
  /\ size' = Append(size, s)
  /\ buf' = Len(mem) + 1
  /\ used' = Counter + Len(content)
  /\ free' = s - used'
  /\ off' = Counter

\* Mutant of Unparsed: as many bytes, from the front of the buffer.
unparsed_front == SubSeq(mem[buf], 1, used - off)

Unparsed == SubSeq(mem[buf], off - Counter + 1, used - Counter)

\* Mutant of CanRewind: the messages in use are forgotten.
rewind_shared == used = off /\ ~referenced

\* Nothing in the buffer is needed any more.
CanRewind == used = off /\ count[buf] = 1 /\ ~referenced

\* realloc(): nothing of the buffer was parsed.
Grow(u, f) ==
  \E s \in Doubled((u + f) * 2, ReadSize + u) :
    /\ MoveTo(s, SubSeq(mem[buf], 1, u - Counter))
    /\ count' = Append([count EXCEPT ![buf] = 0], 1)
    /\ UNCHANGED <<referenced, zone>>

\* Mutant of Replace: a message that is not finished needs no room.
replace_short ==
  \E s \in Doubled(InitSize, ReadSize + Counter) :
    /\ MoveTo(s, Unparsed)
    /\ zone' = [zone EXCEPT !.fin = @ \cup IF referenced THEN {buf} ELSE {}]
    /\ count' = Append(IF referenced THEN count ELSE Released(count, {buf}), 1)
    /\ referenced' = FALSE

\* Mutant of Replace: twice as large as the buffer before it.
replace_double ==
  \E s \in Doubled(2 * size[buf], ReadSize + (used - off) + Counter) :
    /\ MoveTo(s, Unparsed)
    /\ zone' = [zone EXCEPT !.fin = @ \cup IF referenced THEN {buf} ELSE {}]
    /\ count' = Append(IF referenced THEN count ELSE Released(count, {buf}), 1)
    /\ referenced' = FALSE

\* malloc(): the old buffer is left to the zone of the unfinished message if
\* that refers to it, and released if not.
Replace ==
  \E s \in Doubled(InitSize, ReadSize + (used - off) + Counter) :
    /\ MoveTo(s, Unparsed)
    /\ IF referenced
       THEN /\ zone' = [zone EXCEPT !.fin = @ \cup {buf}]
            /\ count' = Append(count, 1)
       ELSE /\ count' = Append(Released(count, {buf}), 1)
            /\ UNCHANGED zone
    /\ referenced' = FALSE

\* expand_buffer(max_read_bytes): the buffer is rewound, if that is enough, or
\* enlarged, or replaced.
expand_buffer ==
  LET room == free + used - Counter
  IN  \/ /\ CanRewind /\ room >= ReadSize
         /\ free' = room /\ used' = Counter /\ off' = Counter
         /\ UNCHANGED <<mem, size, buf, count, referenced, zone>>
      \/ CanRewind /\ room < ReadSize /\ Grow(Counter, room)
      \/ ~CanRewind /\ off = Counter /\ Grow(used, free)
      \/ ~CanRewind /\ off # Counter /\ Replace

reserve_buffer ==
  IF free >= ReadSize THEN UNCHANGED <<bufVars, count, off, referenced, zone>> ELSE expand_buffer

\* The constructor of the session or client, and its first read.
Start ==
  /\ pc = "constructed"
  /\ pc' = "reading"
  /\ reserve_buffer
  /\ UNCHANGED <<input, fed, cs, trail, stack, parsed, live, delivered, closed>>
-----------------------------------------------------------------------------
(* next(): the turns of the loop in execute().                             *)

\* Mutant of Consumed: an array that is complete does not count in the one
\* around it.
consume_top(s) ==
  LET d == Len(s)
  IN  IF d = 0 \/ s[d] > 1 THEN [i \in 1..d |-> IF i = d THEN s[i] - 1 ELSE s[i]]
      ELSE SubSeq(s, 1, d - 1)

\* unpack_stack::consume(): a value is complete, and with it the arrays that
\* waited for their last one.
Consumed(s) ==
  LET d == CHOOSE i \in 0..Len(s) : /\ \A j \in i+1..Len(s) : s[j] = 1
                                    /\ i = 0 \/ s[i] > 1
  IN  IF d = 0 THEN <<>> ELSE [SubSeq(s, 1, d) EXCEPT ![d] = @ - 1]

Advance(n) == off' = off + n /\ parsed' = parsed + n

\* The byte under m_current.
Current == input.bytes[mem[buf][off - Counter + 1]]

\* Mutant of release_zone(): the buffer is counted, but the zone has no finalizer.
release_zone_leak(refs, ref) ==
  /\ zone' = EmptyZone /\ referenced' = FALSE
  /\ delivered' = Append(delivered, parsed')
  /\ live' = live \cup {[id |-> Len(delivered'), refs |-> refs, fin |-> zone.fin]}
  /\ count' = IF ref THEN [count EXCEPT ![buf] = @ + 1] ELSE count
  /\ UNCHANGED pc

\* release_zone() and flush_zone() give the message its zone, with a share of
\* the buffer if it refers to it; a closed session drops it and ends the loop.
release_zone(refs, ref) ==
  LET fin == zone.fin \cup (IF ref THEN {buf} ELSE {})
      shared == IF ref THEN [count EXCEPT ![buf] = @ + 1] ELSE count
  IN  /\ zone' = EmptyZone /\ referenced' = FALSE
      /\ delivered' = Append(delivered, parsed')
      /\ IF closed
         THEN pc' = "ended" /\ count' = Released(shared, fin) /\ UNCHANGED live
         ELSE /\ live' = live \cup {[id |-> Len(delivered'), refs |-> refs, fin |-> fin]}
              /\ count' = shared
              /\ UNCHANGED pc

\* A visit function and after_visit_proc(): a value that ends n bytes on, and
\* that refers to them or not.
visit(n, ref) ==
  LET refs == IF ref /\ n > 0
              THEN zone.refs \cup {[buf |-> buf, at |-> off - Counter, len |-> n,
                                    idx |-> parsed + 1]}
              ELSE zone.refs
  IN  /\ Advance(n)
      /\ cs' = "header" /\ UNCHANGED trail
      /\ stack' = Consumed(stack)
      /\ IF stack' = <<>> THEN release_zone(refs, referenced \/ ref)
         ELSE /\ referenced' = (referenced \/ ref)
              /\ zone' = [zone EXCEPT !.refs = refs]
              /\ UNCHANGED <<live, count, delivered, pc>>

\* More is needed: t bytes, and then what c says.
expect(n, c, t) ==
  /\ Advance(n)
  /\ cs' = c /\ trail' = t
  /\ UNCHANGED <<stack, referenced, zone, live, count, delivered, pc>>

\* start_aggregate()
start_aggregate(n, elements) ==
  \/ elements = 0 /\ visit(n, FALSE)
  \/ /\ elements > 0
     /\ Advance(n)
     /\ cs' = "header"
     /\ stack' = Append(stack, elements)
     /\ UNCHANGED <<trail, referenced, zone, live, count, delivered, pc>>

Header ==
  /\ pc = "next" /\ cs = "header" /\ off < used
  /\ \/ Current.k = "value" /\ visit(1, FALSE)
     \/ Current.k = "empty" /\ visit(1, TRUE)
     \/ Current.k = "fixarray" /\ start_aggregate(1, Current.n)
     \/ /\ Current.k \in {"number", "body", "str", "ext", "array"}
        /\ expect(1, Current.k, Current.n)
  /\ UNCHANGED <<input, fed, bufVars, closed>>

\* Mutant of Trail: it does not wait for the last byte.
trail_early ==
  /\ pc = "next" /\ cs # "header" /\ used - off >= trail - 1 /\ off < used
  /\ \/ cs = "number" /\ visit(trail, FALSE)
     \/ cs = "body" /\ visit(trail, TRUE)
     \/ cs = "str" /\ expect(trail, "body", Current.n)
  /\ UNCHANGED <<input, fed, bufVars, closed>>

Trail ==
  /\ pc = "next" /\ cs # "header" /\ used - off >= trail
  /\ \/ cs = "number" /\ visit(trail, FALSE)
     \/ cs = "body" /\ visit(trail, TRUE)
     \/ cs = "str" /\ Current.n = 0 /\ visit(trail, TRUE)
     \/ cs = "str" /\ Current.n > 0 /\ expect(trail, "body", Current.n)
     \/ cs = "ext" /\ expect(trail, "body", Current.n + 1)
     \/ cs = "array" /\ start_aggregate(trail, Current.n)
  /\ UNCHANGED <<input, fed, bufVars, closed>>

\* next() returns false: more room for the next read, if it takes that.
Reread ==
  /\ pc = "next"
  /\ IF cs = "header" THEN off = used ELSE used - off < trail
  /\ IF closed
     THEN pc' = "ended" /\ UNCHANGED <<bufVars, count, off, referenced, zone>>
     ELSE pc' = "reading" /\ reserve_buffer
  /\ UNCHANGED <<input, fed, cs, trail, stack, parsed, live, delivered, closed>>
-----------------------------------------------------------------------------
(* Everything else that happens to messages and sessions.                  *)

\* The last copy of a message is gone, on any thread and at any time.
Release(m) ==
  /\ m \in live
  /\ live' = live \ {m}
  /\ count' = Released(count, m.fin)
  /\ UNCHANGED <<input, fed, bufVars, off, cs, trail, stack, referenced, zone, parsed,
                 delivered, pc, closed>>

\* async_writer::close() on the write strand.
Close ==
  /\ ~closed /\ pc # "destroyed"
  /\ closed' = TRUE
  /\ UNCHANGED <<input, fed, bufVars, count, off, cs, trail, stack, referenced, zone, parsed,
                 live, delivered, pc>>

\* ~parser() and the zone of the unfinished message.  The results of a client's
\* calls outlive it.
Destroy ==
  /\ pc \in {"reading", "ended"}
  /\ pc' = "destroyed"
  /\ count' = Released(Released(count, {buf}), zone.fin)
  /\ zone' = EmptyZone
  /\ UNCHANGED <<input, fed, bufVars, off, cs, trail, stack, referenced, parsed, live,
                 delivered, closed>>

Next ==
  \/ Start
  \/ \E n \in 1..ReadSize : Read(n)
  \/ Header
  \/ Trail
  \/ Reread
  \/ \E m \in live : Release(m)
  \/ Close
  \/ Destroy

Spec == Init /\ [][Next]_vars
-----------------------------------------------------------------------------
(* What the format says of a whole stream: no buffer, no stack, no reads.  *)

\* The size in the bytes behind the one at p + 1.
SizeAt(bytes, p) == IF p + 2 <= Len(bytes) THEN bytes[p + 2].n ELSE 0

\* The value that begins behind the first p bytes ends so many bytes on; of an
\* array, its first element begins there.
ValueLen(bytes, p) ==
  LET b == bytes[p + 1]
  IN  CASE b.k \in {"number", "body", "array"} -> 1 + b.n
        [] b.k = "str" -> 1 + b.n + SizeAt(bytes, p)
        [] b.k = "ext" -> 1 + b.n + SizeAt(bytes, p) + 1
        [] OTHER -> 1

\* The values that an array announces.
Elements(bytes, p) ==
  LET b == bytes[p + 1]
  IN  CASE b.k = "fixarray" -> b.n
        [] b.k = "array" -> SizeAt(bytes, p)
        [] OTHER -> 0

\* A value is one of those that are open, if any are, and opens its elements.
After(bytes, q) ==
  [pos |-> q.pos + ValueLen(bytes, q.pos),
   open |-> (IF q.open = 0 THEN 0 ELSE q.open - 1) + Elements(bytes, q.pos)]

\* From value to value: after k of them, where the next begins and how many the
\* message still needs.
Walk(bytes) ==
  LET w[k \in 0..Len(bytes)] ==
        IF k = 0 THEN [pos |-> 0, open |-> 0]
        ELSE LET q == w[k - 1] IN IF q.pos >= Len(bytes) THEN q ELSE After(bytes, q)
  IN  w

MessageEnds(bytes) ==
  {Walk(bytes)[k].pos : k \in {i \in 1..Len(bytes) : /\ Walk(bytes)[i].open = 0
                                                    /\ Walk(bytes)[i].pos <= Len(bytes)}}

\* Every message ends where the format says; the last one may be cut off.
Framed(x) ==
  /\ {x.ends[i] : i \in DOMAIN x.ends} = MessageEnds(x.bytes)
  /\ \A i, j \in DOMAIN x.ends : i < j => x.ends[i] < x.ends[j]

ASSUME EndsAssumption == \A x \in Input : Framed(x)
-----------------------------------------------------------------------------
(* Properties.                                                             *)

\* async_read_some() may write max_read_bytes behind buffer(): the buffer has
\* that much room whenever a read is outstanding, whichever way expand_buffer()
\* took.
ReadFits == pc = "reading" => free >= ReadSize

\* What next() has still to go through is what has arrived and was not parsed,
\* in order: no byte is lost or doubled when the buffer is rewound, enlarged or
\* replaced in the middle of a message.
UnparsedInOrder ==
  \A i \in 1..(used - off) : mem[buf][off - Counter + i] = parsed + i

\* The strings of a message that is in use, or half parsed, are what the peer
\* sent: their buffer is neither freed nor written over, rewound or moved.
ReferencesIntact ==
  \A r \in UNION ({m.refs : m \in live} \cup {zone.refs}) :
    /\ count[r.buf] > 0
    /\ \A j \in 1..r.len : mem[r.buf][r.at + j] = r.idx + j - 1

\* The counter of a buffer is the number of its owners, the unpacker and the
\* zones: no buffer leaks and none is freed twice.
CountExact ==
  \A b \in Buffer :
    count[b] = Cardinality({m \in live : b \in m.fin})
               + (IF b \in zone.fin THEN 1 ELSE 0)
               + (IF b = buf /\ pc # "destroyed" THEN 1 ELSE 0)

\* However the stream is cut into reads, the messages come out as they were
\* sent, and none that has arrived waits for the next read.
MessagesWhole ==
  /\ \A i \in DOMAIN delivered : delivered[i] = input.ends[i]
  /\ pc = "reading" => Len(delivered) = Cardinality({i \in DOMAIN input.ends :
                                                       input.ends[i] <= fed})

\* The buffer does not grow with the number of messages, only with the longest
\* string.
BufferBounded ==
  \/ size[buf] <= InitSize
  \/ size[buf] <= 2 * (Counter + ReadSize)
  \/ \E i \in DOMAIN input.bytes :
       size[buf] <= 2 * (Counter + ReadSize + input.bytes[i].n + 1)
=============================================================================
