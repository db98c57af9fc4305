---------------------------- MODULE MCIoService ----------------------------
(* Instances of IoService for TLC.                                         *)
EXTENDS IoService
=============================================================================
