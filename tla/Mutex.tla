-------------------------------- MODULE Mutex --------------------------------
(***************************************************************************)
(* What a lock promises: one thread at a time has it, and when it is free  *)
(* some thread that waits gets it.  Which one is not said.                 *)
(***************************************************************************)
CONSTANT Threads

VARIABLES
  waiting,   \* threads that called lock and could not have it at once
  holders    \* the thread that has it, as a set

vars == <<waiting, holders>>

Init == waiting = {} /\ holders = {}

Wait(t) ==
  /\ t \notin waiting \cup holders
  /\ waiting' = waiting \cup {t}
  /\ UNCHANGED holders

Acquire(t) ==
  /\ holders = {}
  /\ holders' = {t}
  /\ waiting' = waiting \ {t}

Release(t) ==
  /\ holders = {t}
  /\ holders' = {}
  /\ UNCHANGED waiting

Next == \E t \in Threads : Wait(t) \/ Acquire(t) \/ Release(t)

Spec == Init /\ [][Next]_vars

\* Weak fairness of a waiting thread's Acquire, written without ENABLED: a lock
\* that is free does not stay free while there are threads that wait
Progress == (holders = {} /\ waiting # {}) ~> (holders # {})
=============================================================================
