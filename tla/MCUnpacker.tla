----------------------------- MODULE MCUnpacker -----------------------------
(* Instances of Unpacker for TLC.                                          *)
EXTENDS Unpacker, SequencesExt

B(k, n) == [k |-> k, n |-> n]
Data(n) == [i \in 1..n |-> B("data", 0)]

\* A message with a string, an empty array and a number; one whose string is
\* longer than a read; nested arrays, the inner one with a size of its own; an
\* extension and an empty string.
Call == <<B("fixarray", 3), B("body", 2)>> \o Data(2) \o <<B("fixarray", 0), B("number", 1)>> \o Data(1)
Long == <<B("fixarray", 2), B("value", 0), B("str", 1), B("data", 6)>> \o Data(6)
Nested == <<B("fixarray", 2), B("array", 1), B("data", 2), B("empty", 0), B("body", 1)>> \o Data(1)
          \o <<B("value", 0)>>
Ext == <<B("fixarray", 2), B("ext", 1), B("data", 1)>> \o Data(2) \o <<B("str", 1), B("data", 0)>>

Peer(messages) ==
  [bytes |-> FlattenSeq(messages),
   ends |-> [i \in 1..Len(messages) |-> Len(FlattenSeq(SubSeq(messages, 1, i)))]]

Peers == {Peer(<<Call, Nested, Call>>), Peer(<<Long, Call>>), Peer(<<Ext, Long>>)}
=============================================================================
