------------------------------ MODULE FilterCode ------------------------------
(***************************************************************************)
(* Parser.ParserFilter, the stacks that tell ParseObject which objects may *)
(* stand where, and what ParseObject does to them, whatever the tokens     *)
(* are.  A setter of ParserFilter pushes, a getter peeks.  The handler of  *)
(* ParseObject pops nothing of what was pushed before the exception, so    *)
(* that after an error the stacks are deeper than what is open.            *)
(***************************************************************************)
EXTENDS Integers, Sequences, FiniteSets

VARIABLES
  open,         \* the namespaces and classes whose body is being parsed
  canMethod,    \* _method
  canNamespace, \* _namespace
  paths,        \* _path.Count
  erred,        \* ErrorCollector.Count # 0
  status        \* "parsing", "done", "crashed", or "hung" in a loop

vars == <<open, canMethod, canNamespace, paths, erred, status>>

Push(stack, x) == Append(stack, x)
Peek(stack)    == stack[Len(stack)]
Pop(stack)     == SubSeq(stack, 1, Len(stack) - 1)

Init ==
  /\ open = <<>> /\ canMethod = <<FALSE>> /\ canNamespace = <<TRUE>> /\ paths = 1
  /\ erred = FALSE /\ status = "parsing"

\* An object that ends in an exception: it was counted, or nobody caught it.
Fails == erred' = TRUE \/ (erred' = erred /\ status' \in {"crashed", "hung"})

\* Errors inside an object, in an import that stands in an expression, have been
\* counted and do not end it.
Succeeds == erred' \in {erred, TRUE} /\ status' = "parsing"

\* The head of a class pushes the flags first, then the path.
Class ==
  /\ status = "parsing"
  /\ canMethod' = Push(canMethod, TRUE) /\ canNamespace' = Push(canNamespace, FALSE)
  /\ status' \in {"parsing", "crashed", "hung"}
  /\ \/ Succeeds /\ open' = Push(open, "class") /\ paths' = paths + 1
     \/ Fails /\ open' = open /\ paths' \in {paths, paths + 1}

Namespace ==
  /\ status = "parsing" /\ ~Peek(canMethod) /\ Peek(canNamespace)
  /\ status' \in {"parsing", "crashed", "hung"}
  /\ \/ Succeeds /\ open' = Push(open, "namespace") /\ paths' = paths + 1
     \/ Fails /\ open' = open /\ paths' \in {paths, paths + 1}
  /\ UNCHANGED <<canMethod, canNamespace>>

\* A member, using or import pops what it pushed, but for the flag of a method
\* whose body fails.
Other ==
  /\ status = "parsing"
  /\ status' \in {"parsing", "crashed", "hung"}
  /\ \/ (Succeeds \/ Fails) /\ canMethod' = canMethod
     \/ Fails /\ Peek(canMethod) /\ canMethod' = Push(canMethod, FALSE)
  /\ UNCHANGED <<open, canNamespace, paths>>

\* CrackCode comes to the brace that ends a class or namespace.
CloseBlock ==
  /\ status = "parsing" /\ open # <<>>
  /\ open' = Pop(open) /\ paths' = paths - 1
  /\ IF Peek(open) = "class"
     THEN canMethod' = Pop(canMethod) /\ canNamespace' = Pop(canNamespace)
     ELSE UNCHANGED <<canMethod, canNamespace>>
  /\ UNCHANGED <<erred, status>>

Finish ==
  /\ status = "parsing" /\ open = <<>>
  /\ status' = "done"
  /\ UNCHANGED <<open, canMethod, canNamespace, paths, erred>>

Next == Class \/ Namespace \/ Other \/ CloseBlock \/ Finish

Spec == Init /\ [][Next]_vars

-----------------------------------------------------------------------------
Classes == Cardinality({i \in DOMAIN open : open[i] = "class"})

\* Whatever went wrong before, the end of a class or namespace finds its flags
\* and its path on the stacks: Pop never meets an empty stack, nor does a getter
\* afterwards.
PopsArePushed ==
  Len(canMethod) > Classes /\ Len(canNamespace) > Classes /\ paths > Len(open)

\* As long as there was no error, members are taken in classes and only there,
\* namespaces in namespaces and at the top, and the path names what is open.
FilterFollowsNesting ==
  ~erred /\ status = "parsing" =>
    /\ Peek(canMethod) <=> open # <<>> /\ Peek(open) = "class"
    /\ Peek(canNamespace) <=> Classes = 0
    /\ paths = Len(open) + 1

\* A file without an error leaves the stacks as it found them.
StacksEmptied ==
  status = "done" /\ ~erred =>
    open = <<>> /\ canMethod = <<FALSE>> /\ canNamespace = <<TRUE>> /\ paths = 1
=============================================================================
