------------------------------- MODULE Release -------------------------------
(***************************************************************************)
(* What building promises, as its user sees it: what lies in the           *)
(* build\release of each project, and what the last build said.  How a     *)
(* build comes to its artifact (BuildSession) does not show.               *)
(***************************************************************************)
EXTENDS Naturals

CONSTANTS
  Projects,   \* the open projects
  Tree,       \* Projects -> the files of the project
  None,       \* no project, nothing released
  Truncated   \* a package archive that was not completed

VARIABLES
  current,    \* the project being built, or None
  build,      \* builds begun so far
  sources,    \* what the build under way compiles
  leftover,   \* files an aborted build left to the next one
  said,       \* what the last build said in the end
  release     \* project -> what its build\release holds

vars == <<current, build, sources, leftover, said, release>>

Init ==
  /\ current = None /\ build = 0 /\ sources = {} /\ leftover = {}
  /\ said = "nothing"
  /\ release = [p \in Projects |-> None]

\* The artifact of the build under way.
Made == [build |-> build, sources |-> sources]

\* One build at a time; it compiles the project's files, and what is left over.
Begin(p) ==
  /\ current = None
  /\ current' = p /\ build' = build + 1
  /\ sources' = Tree[p] \cup leftover
  /\ leftover' = {} /\ said' = "nothing"
  /\ UNCHANGED release

\* A build changes the release of its own project only: it removes the old one,
\* puts there what it made, or leaves an incomplete archive.
Put(r) ==
  /\ current # None
  /\ release' = [release EXCEPT ![current] = r]
  /\ UNCHANGED <<current, build, sources, leftover, said>>

\* A build that says how long it took has released what it made, and leaves
\* nothing to the next one.
End(what) ==
  /\ current # None
  /\ said' = what
  /\ leftover' \in SUBSET sources
  /\ what = "time" => release[current] = Made /\ leftover' = {}
  /\ current' = None /\ sources' = {}
  /\ UNCHANGED <<build, release>>

\* The process is killed: nothing is left over, except what was being written.
Kill ==
  /\ current' = None /\ sources' = {} /\ leftover' = {} /\ said' = "nothing"
  /\ \/ UNCHANGED release
     \/ current # None /\ release' = [release EXCEPT ![current] = Truncated]
  /\ UNCHANGED build

Next ==
  \/ \E p \in Projects : Begin(p)
  \/ \E r \in {None, Truncated, Made} : Put(r)
  \/ \E what \in {"nothing", "errors", "time"} : End(what)
  \/ Kill

Spec == Init /\ [][Next]_vars
=============================================================================
