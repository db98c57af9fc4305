----------------------------- MODULE FifoStream -----------------------------
(***************************************************************************)
(* What a connection promises its users: the buffers handed to it come out *)
(* at the other end whole, at most once and in the order they went in.     *)
(* The stream may stop delivering at any moment (a connection can be       *)
(* closed or lost), but it never skips, repeats, reorders or mixes them.   *)
(***************************************************************************)
EXTENDS Naturals, Sequences

CONSTANT Item            \* the buffers

VARIABLES
  accepted,              \* the buffers handed over, in order
  received               \* the buffers the peer has read, in order

vars == <<accepted, received>>

Init == accepted = <<>> /\ received = <<>>

\* A buffer is handed over.
Accept(i) ==
  /\ accepted' = Append(accepted, i)
  /\ UNCHANGED received

\* The oldest buffer not yet delivered arrives.
Deliver ==
  /\ Len(received) < Len(accepted)
  /\ received' = Append(received, accepted[Len(received) + 1])
  /\ UNCHANGED accepted

Next == (\E i \in Item : Accept(i)) \/ Deliver

Spec == Init /\ [][Next]_vars
=============================================================================
