------------------------------ MODULE MCSemaLock ------------------------------
(***************************************************************************)
(* SemaLock for TLC: three threads on one processor.                       *)
(***************************************************************************)
EXTENDS SemaLock, TLC

CONSTANTS m1, m2, m3
=============================================================================
