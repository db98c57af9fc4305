------------------------------ MODULE MCClient ------------------------------
(* Instances of Client for TLC.                                            *)
EXTENDS Client, TLC

Threads == Permutations(Thread)

\* With ids of one bit the next call gets 0, the one after -1, the third 0 again.
BeforeZero == -1
=============================================================================
