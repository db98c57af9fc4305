---------------------------- MODULE RemoteCalls ----------------------------
(***************************************************************************)
(* What rpclib promises about calls: a call is executed by the server at   *)
(* most once and only after it was made, and the future the caller holds   *)
(* gets the answer to that very call, or fails when the client goes away.  *)
(***************************************************************************)
CONSTANT Call            \* the calls that may be made

VARIABLE status          \* what has become of each call

Init == status = [c \in Call |-> "new"]

Move(c, from, to) ==
  /\ status[c] = from
  /\ status' = [status EXCEPT ![c] = to]

\* The caller has its future.
Issue(c) == Move(c, "new", "issued")

\* The server has run the function and sent the answer.
Execute(c) == Move(c, "issued", "executed")

\* The future holds the answer.
Complete(c) == Move(c, "executed", "answered")

\* The calls in S fail together: their client is destroyed.
Abandon(S) ==
  /\ \A c \in S : status[c] \in {"issued", "executed"}
  /\ status' = [c \in Call |-> IF c \in S THEN "failed" ELSE status[c]]

Next ==
  \/ \E c \in Call : Issue(c) \/ Execute(c) \/ Complete(c)
  \/ \E S \in SUBSET Call : Abandon(S)

Spec == Init /\ [][Next]_status
=============================================================================
