--------------------------- MODULE ParserOrganize ---------------------------
(***************************************************************************)
(* Parser.ParserOrganize: ParseData and the recursive descent below it,    *)
(* from the tokens of one file to C#.  A step of the specification is one  *)
(* ParseObject (a class, namespace, member, using or import) or the end of *)
(* one; what it calls for expressions, types and statements are recursive  *)
(* operators over a cursor record.                                         *)
(*                                                                         *)
(* Three things happen to a file that is not well-formed.  A               *)
(* CodeErrorException is caught by the innermost ParseObject, which counts *)
(* it and goes on behind it, and the flags pushed on the way are not       *)
(* popped.  Reading behind the last token throws another exception, which  *)
(* only expressions catch ("over" the rest of the way).  A loop over the   *)
(* statements of a block that does not get past a token never ends.        *)
(*                                                                         *)
(* The text that is written is not modelled, only its open braces.         *)
(***************************************************************************)
EXTENDS Integers, Sequences, SequencesExt, FiniteSets, TLC

CONSTANTS
  Words,    \* identifiers
  Packets   \* the files, after Precompiling

Integers_ == {"0"}
Strings   == {"c#", "text"}
Keywords  == {"class", "interface", "static", "namespace", "using", "import", "operator",
              "extends", "while", "for", "if", "else", "loop", "return", "split", "finally",
              "new", "this", "true", "false", "half", "percent"}
\* The infix operators, in the order CrackExpression asks for them.
Infix     == <<".", "==", "<=", ">=", ">", "<", "=", "+=", "-=", "*=", "/=",
               "&", "&&", "|", "||", "^", "^^">>
Operators == ToSet(Infix) \cup {"+", "-", "*", "/", "++", "--"}
Tokens    == Words \cup Integers_ \cup Strings \cup Keywords \cup Operators
               \cup {"{", "}", "(", ")", "[", "]", ",", ";", ":", "@"}

ASSUME ParserAssumption ==
  /\ Words \cap (Integers_ \cup Strings \cup Keywords \cup Operators) = {}
  /\ Packets \subseteq Seq(Tokens)

VARIABLES
  packet,       \* CurrentPacket
  index,        \* its Index, the first token being 1
  open,         \* the namespaces and classes whose body is being parsed
  canMethod,    \* the stacks of FilterCode
  canNamespace,
  path,
  errors,       \* ErrorCollector.Count
  depth,        \* braces written and not closed by members
  lost,         \* an expression has dropped tokens it had read (history)
  status        \* "parsing", "done", "crashed", or "hung" in a loop

vars == <<packet, index, open, canMethod, canNamespace, path, errors, depth, lost, status>>

(***************************************************************************)
(* The cursor.  st tells whether parsing goes on ("ok"), a                 *)
(* CodeErrorException is under way ("error"), the packet ran "out", or a   *)
(* loop is "stuck"; "left" is CrackExpression's return from the middle.    *)
(***************************************************************************)
Cursor == [i |-> index, st |-> "ok", errs |-> errors, depth |-> depth, lost |-> lost,
           method |-> canMethod]

Sees(r, T) == r.st = "ok" /\ r.i <= Len(packet) /\ packet[r.i] \in T
Next1(r)   == [r EXCEPT !.i = @ + 1]
Fail(r, s) == IF r.st = "ok" THEN [r EXCEPT !.st = s] ELSE r
\* A test that came out negative has still read the current token.
Look(r)    == IF r.i > Len(packet) /\ r.st \in {"ok", "error"} THEN [r EXCEPT !.st = "out"]
                                                              ELSE r
Crack(r, T)     == IF Sees(r, T) THEN Next1(r) ELSE Look(r)
mustCrack(r, T) == IF Sees(r, T) THEN Next1(r) ELSE Fail(Look(r), "error")
Opens(r)   == IF r.st = "ok" THEN [r EXCEPT !.depth = @ + 1] ELSE r
Closes(r)  == IF r.st = "ok" THEN [r EXCEPT !.depth = @ - 1] ELSE r

RECURSIVE Cracks(_, _)
Cracks(r, T) == IF Sees(r, T) THEN Cracks(Next1(r), T) ELSE Look(r)

\* while ( Crack( Acc.Bracket_Split ) ) ..., the loop of every list.
More(r, Loop(_)) == IF Sees(r, {","}) THEN Loop(Next1(r)) ELSE Look(r)

\* Slip: goes on where the error was.
RecoverInPlace(r, first) == IF r.st = "error" THEN [r EXCEPT !.st = "ok", !.errs = @ + 1] ELSE r

\* Slip: skips one token more.
RecoverTooFar(r, first) ==
  IF r.st = "error" THEN [r EXCEPT !.st = "ok", !.errs = @ + 1, !.i = @ + 2] ELSE r

\* ParseObject's handler.
Recover(r, first) ==
  IF r.st = "error"
  THEN [r EXCEPT !.st = "ok", !.errs = @ + 1, !.i = IF @ > first THEN @ ELSE first + 1]
  ELSE r

(***************************************************************************)
(* CrackIdent.                                                             *)
(***************************************************************************)
RECURSIVE Dotted(_), Arrays(_), Generics(_), CrackIdent(_, _)
Dotted(r) == More(r, LAMBDA n : Dotted(mustCrack(n, Words)))
Arrays(r) == IF Sees(r, {"["}) THEN Arrays(mustCrack(Cracks(Next1(r), {","}), {"]"}))
                               ELSE Look(r)
Generics(r) == CASE r.st # "ok"     -> r
                 [] Sees(r, {">"})  -> Next1(r)
                 [] OTHER           -> Generics(CrackIdent(Crack(r, {","}), TRUE))
CrackIdent(r, type) ==
  LET name == Dotted(mustCrack(r, IF type THEN Words ELSE Words \cup {"this"}))
  IN  IF ~type THEN name
      ELSE Arrays(IF Sees(name, {"<"}) THEN Generics(CrackIdent(Next1(name), TRUE)) ELSE name)

\* The words of the name between two cursors.
Name(r, s) == SelectSeq(SubSeq(packet, r.i, s.i - 1), LAMBDA t : t # ",")

(***************************************************************************)
(* Using and import.                                                       *)
(***************************************************************************)
\* What a C# block spans: up to the brace that closes the first.
RECURSIVE Braces(_, _)
Braces(r, n) ==
  LET m == CASE Sees(r, {"{"}) -> n + 1 [] Sees(r, {"}"}) -> n - 1 [] OTHER -> n
  IN  CASE Look(r).st # "ok" -> Look(r)
        [] m = 0             -> Next1(r)
        [] OTHER             -> Braces(Next1(r), m)

RECURSIVE Idents(_)
Idents(r) == IF Sees(r, {"."}) THEN Idents(mustCrack(Next1(r), Words)) ELSE Look(r)

Alias(r) == Idents(mustCrack(r, Words))
Using(r) ==
  LET name == mustCrack(r, Words)
  IN  IF Sees(name, {"="}) THEN Alias(Next1(name)) ELSE Idents(name)

\* import A.B.* ends at the star.
RECURSIVE ImportIdents(_)
ImportIdents(r) ==
  CASE ~Sees(r, {"."})        -> Look(r)
    [] Sees(Next1(r), {"*"})  -> Next1(Next1(r))
    [] OTHER                  -> ImportIdents(mustCrack(Next1(r), Words))

ImportCode(r) ==
  LET language == mustCrack(r, Strings)
  IN  IF language.st = "ok" /\ packet[r.i] # "c#" THEN Fail(language, "error")
      ELSE LET block == mustCrack(mustCrack(language, {")"}), {"{"})
           IN  IF block.st = "ok" THEN Braces(block, 1) ELSE block
Import(r) ==
  IF Sees(r, {"("}) THEN ImportCode(Next1(r))
  ELSE LET name == mustCrack(r, Words)
       IN  IF Sees(name, {"="}) THEN Alias(Next1(name)) ELSE ImportIdents(name)

\* Slip: the import is seen and left for later.
ImportObjectLater(r) == r

\* The ParseObject of an import that stands in an expression.
ImportObject(r) ==
  Recover(IF Last(r.method) THEN mustCrack(r, Words) ELSE Import(Next1(r)), r.i)

(***************************************************************************)
(* CrackExpression reads operands until something is wrong; what it has    *)
(* read of the operand that failed stays read.                             *)
(***************************************************************************)
RECURSIVE CrackExpression(_), Rest(_), Items(_)

List(r)      == Items(CrackExpression(r))
Items(r)     == More(r, LAMBDA e : Items(CrackExpression(e)))
Arguments(r) == IF Sees(r, {")"}) THEN Next1(r) ELSE mustCrack(List(r), {")"})

\* new T( ... ), or new T[ ]{ ... } when the type ends with a bracket.
Construct(type) == IF Sees(type, {"("}) THEN Arguments(Next1(type)) ELSE mustCrack(type, {"("})
HasElements(type) == Sees(type, {"{"}) /\ packet[type.i - 1] = "]"

\* Slip: the brace that closes the elements is not demanded.
NewObjectUnclosed(type) ==
  IF HasElements(type) THEN Crack(List(Next1(type)), {"}"}) ELSE Construct(type)

NewObject(type) ==
  CASE ~HasElements(type)        -> Construct(type)
    [] Sees(Next1(type), {"}"})  -> Next1(Next1(type))
    [] OTHER                     -> mustCrack(List(Next1(type)), {"}"})

\* A token that begins no value is left where it is, and is no error.
Value(r) ==
  CASE Sees(r, Words)  -> Look(Next1(r))
    [] Sees(r, Integers_ \cup Strings \cup {"false", "true", "half", "percent", "this"})
                       -> Next1(r)
    [] Sees(r, {"new"})    -> NewObject(CrackIdent(Next1(r), TRUE))
    [] Sees(r, {"import"}) -> Fail(ImportObject(r), "left")
    [] Sees(r, {"("})      -> mustCrack(CrackExpression(Next1(r)), {")"})
    [] OTHER               -> Look(r)

\* At the start of an expression, an infix operator is read and dropped.
Drop(r, ops) == LET d == FoldLeft(LAMBDA q, t : Crack(q, {t}), r, ops)
                IN  [d EXCEPT !.lost = @ \/ d.i # r.i]

\* The arguments of a call.
Called(r) == IF Sees(r, {"("}) THEN Arguments(Next1(r)) ELSE Look(r)

FirstOperand(r) ==
  LET d == IF Sees(r, {"+", "-"}) THEN r ELSE Drop(r, <<"*", "/">>)
  IN  Called(IF Sees(d, {"++", "--"}) \/ (d = r /\ Sees(r, {"+", "-"}))
             THEN Value(Next1(d))
             ELSE Crack(Value(Drop(d, Infix)), {"++", "--"}))

NextOperand(r) ==
  Called(IF Sees(r, {"."}) THEN mustCrack(Next1(r), Words) ELSE Value(mustCrack(r, Operators)))

GoOn(r, o) ==
  IF o.st = "ok" THEN Rest(o)
  ELSE [o EXCEPT !.st = "ok", !.lost = @ \/ (o.st # "left" /\ o.i # r.i)]
Rest(r) == GoOn(r, NextOperand(r))

Start(r, o) ==
  CASE o.st = "ok"   -> Rest(o)
    [] o.st = "left" -> [o EXCEPT !.st = "ok"]
    [] OTHER         -> Look([o EXCEPT !.i = r.i, !.st = "error", !.lost = r.lost])
CrackExpression(r) == IF r.st = "ok" THEN Start(r, FirstOperand(r)) ELSE r

(***************************************************************************)
(* CrackStatement.                                                         *)
(***************************************************************************)
RECURSIVE CrackStatement(_), Block(_), Statements(_), Variables(_), ForVariables(_)

\* while ( !Crack( Acc.Block_End ) ) CrackStatement( )
After(r, s) ==
  CASE s.st = "ok" /\ s.i = r.i  -> Fail(s, "stuck")
    [] s.st = "ok" /\ s.i # r.i  -> Block(s)
    [] OTHER                     -> s
Block(r) == IF Sees(r, {"}"}) THEN Next1(r) ELSE After(r, CrackStatement(r))

Body(r)    == IF Sees(r, {"{"}) THEN Block(Next1(r)) ELSE CrackStatement(r)
Assign(r)  == IF Sees(r, {"="}) THEN CrackExpression(Next1(r)) ELSE Look(r)
\* The conditions of if and for: && or || before them says how they are joined.
Conditions(r) == List(Crack(r, {"&&", "||"}))

Variables(r)   == More(Assign(mustCrack(r, Words)), Variables)
Declaration(r) == Variables(CrackIdent(r, TRUE))

\* Slip: a parameter always has a type of its own.
ParameterTyped(r) == mustCrack(CrackIdent(r, TRUE), Words)

\* Names that follow a comma, with a type or without: the second token decides.
Parameter(r) ==
  CASE Look(Next1(r)).st # "ok"    -> Look(Next1(r))
    [] Sees(Next1(r), {",", ")"})  -> mustCrack(r, Words)
    [] OTHER                       -> mustCrack(CrackIdent(r, TRUE), Words)
ForVariables(r) == More(Assign(r), LAMBDA v : ForVariables(Parameter(v)))

Statements(r) == More(r, LAMBDA s : Statements(CrackStatement(s)))

ForStart(r) ==
  IF Sees(r, {";"}) THEN Next1(r)
  ELSE mustCrack(ForVariables(mustCrack(CrackIdent(r, TRUE), Words)), {";"})
ForCondition(r) ==
  Opens(IF Sees(r, {";"}) THEN Next1(r) ELSE mustCrack(Conditions(r), {";"}))
\* What ends the head is asked for behind the steps, and then once more.
ForStep(r, closer) ==
  IF Sees(r, closer) THEN r
  ELSE mustCrack(Closes(Statements(CrackStatement(Opens(r)))), closer)
ForBody(r) ==
  Closes(CASE Sees(r, {";"}) -> Next1(r)
           [] Sees(r, {"{"}) -> Block(Next1(r))
           [] OTHER          -> mustCrack(r, {"{"}))
For(r) ==
  IF Sees(r, {"("})
  THEN ForBody(mustCrack(ForStep(ForCondition(ForStart(Next1(r))), {")"}), {")"}))
  ELSE ForBody(ForStep(ForCondition(ForStart(r)), {"{"}))

\* A declaration that fails is read again as an expression.
Reread(r, d) ==
  IF d.st \in {"error", "out"}
  THEN CrackExpression([d EXCEPT !.i = r.i, !.st = "ok", !.lost = r.lost]) ELSE d
WhileBody(r) == Closes(IF Sees(r, {";"}) THEN Next1(r) ELSE Body(r))

Statement(r) ==
  CASE Sees(r, {"while"})  -> WhileBody(Opens(CrackExpression(Next1(r))))
    [] Sees(r, {"for"})    -> For(Next1(r))
    [] Sees(r, {"if"})     -> Closes(Body(Opens(Conditions(Next1(r)))))
    [] Sees(r, {"loop", "split", "finally"}) -> Closes(Body(Opens(Next1(r))))
    [] Sees(r, {"return"}) -> [CrackExpression(Next1(r)) EXCEPT !.st = "ok"]
    [] OTHER               -> Reread(r, Declaration(r))

\* The semicolons are skipped behind a statement that failed as well.
End(s) ==
  LET e == Cracks([s EXCEPT !.st = "ok"], {";"})
  IN  IF s.st \in {"ok", "error"} THEN [e EXCEPT !.st = IF @ = "ok" THEN s.st ELSE @] ELSE s

CrackStatement(r) ==
  LET first == Cracks(r, {";"})
  IN  CASE r.st # "ok"     -> r
        [] first.st # "ok" -> first
        [] OTHER           -> End(Statement(first))

(***************************************************************************)
(* Members of a class.                                                     *)
(***************************************************************************)
RECURSIVE Parameters(_)
Parameters(r) == More(r, LAMBDA p : Parameters(Parameter(p)))
ParameterList(r) ==
  IF Sees(r, {")"}) THEN Next1(r)
  ELSE mustCrack(Parameters(mustCrack(CrackIdent(r, TRUE), Words)), {")"})

\* Slip: PopMethod is forgotten.
MethodBodyStays(r) == Closes(Block(Opens([r EXCEPT !.method = Append(@, FALSE)])))

\* In a body no methods: the flag is popped unless the body fails.
PopMethod(b) == IF b.st = "ok" THEN Closes([b EXCEPT !.method = Front(@)]) ELSE b
MethodBody(r) == PopMethod(Block(Opens([r EXCEPT !.method = Append(@, FALSE)])))
BodyOrNone(r) == IF Sees(r, {"{"}) THEN MethodBody(Next1(r)) ELSE Look(r)

Constructor(r) == BodyOrNone(ParameterList(mustCrack(r, {"("})))

RECURSIVE Names(_)
Names(r) == More(r, LAMBDA n : Names(mustCrack(n, Words)))

MethodOrVariables(r) ==
  LET type   == CrackIdent(r, TRUE)
      isop   == Sees(type, {"operator"})
      extern == Sees(type, {"@"})
      name   == IF isop THEN mustCrack(Next1(type), Operators \ {"&", "&&", "|", "||", "^", "^^"})
                        ELSE mustCrack(Crack(type, {"@"}), Words)
  IN  CASE Sees(name, {"("}) -> LET head == ParameterList(Next1(name))
                                IN  IF extern THEN head ELSE BodyOrNone(head)
        [] isop \/ extern    -> Fail(Look(name), "error")
        [] OTHER             -> Names(name)

\* A word that is the name of the class in its namespace begins a constructor.
IsConstructor(r) == Sees(r, Words) /\ Len(Last(path)) >= 2 /\ packet[r.i] = Last(Last(path))
Member(r) ==
  CASE ~Sees(r, Words)   -> mustCrack(r, Words)
    [] IsConstructor(r)  -> Constructor(Next1(r))
    [] OTHER             -> MethodOrVariables(r)

(***************************************************************************)
(* ParseObject, from CrackCode or ParseData.                               *)
(***************************************************************************)
RECURSIVE AttributeList(_), Attributes(_)
AttributeList(r) == More(Called(CrackIdent(r, FALSE)), AttributeList)
Attributes(r) == IF Sees(r, {"["}) THEN Attributes(mustCrack(AttributeList(Next1(r)), {"]"}))
                                   ELSE Look(r)

Begin  == Cracks(Cursor, {";"})
Object == Crack(Attributes(Begin), {"static"})

AtEof      == open = <<>> /\ index > Len(packet)
AtBlockEnd == open # <<>> /\ Sees(Begin, {"}"})

\* What is left to do when a part of ParseObject has returned or thrown.
Return(r) ==
  LET e == Recover(r, Begin.i)
  IN  /\ index' = e.i /\ errors' = e.errs /\ depth' = e.depth /\ lost' = e.lost
      /\ canMethod' = e.method
      /\ status' = CASE e.st = "ok" -> "parsing" [] e.st = "stuck" -> "hung"
                     [] OTHER -> "crashed"
      /\ UNCHANGED packet

Handling == status = "parsing" /\ ~AtEof /\ ~AtBlockEnd
Sort == CASE Object.st # "ok"                                  -> "none"
          [] Sees(Object, {"class", "interface"})              -> "class"
          [] Last(canMethod)                                   -> "member"
          [] Last(canNamespace) /\ Sees(Object, {"namespace"}) -> "namespace"
          [] Sees(Object, {"using"})                           -> "using"
          [] Sees(Object, {"import"})                          -> "import"
          [] OTHER                                             -> "unexpected"

Bases(r) == IF Sees(r, {"extends", ":"}) THEN CrackIdent(Next1(r), FALSE) ELSE Look(r)

\* Slip: canNamespace stays as it is.
ClassInNamespace ==
  /\ Handling /\ Sort = "class"
  /\ LET r    == [Next1(Object) EXCEPT !.method = Append(@, TRUE)]
         name == CrackIdent(r, FALSE)
         body == mustCrack(Bases(name), {"{"})
     IN  /\ Return(body)
         /\ path' = IF name.st = "ok" THEN Append(path, Last(path) \o Name(r, name)) ELSE path
         /\ open' = IF body.st = "ok" THEN Append(open, "class") ELSE open
  /\ UNCHANGED canNamespace

\* The flags are pushed before the header is read, the path with the name.
Class ==
  /\ Handling /\ Sort = "class"
  /\ LET r    == [Next1(Object) EXCEPT !.method = Append(@, TRUE)]
         name == CrackIdent(r, FALSE)
         body == mustCrack(Bases(name), {"{"})
     IN  /\ Return(body)
         /\ canNamespace' = Append(canNamespace, FALSE)
         /\ path' = IF name.st = "ok" THEN Append(path, Last(path) \o Name(r, name)) ELSE path
         /\ open' = IF body.st = "ok" THEN Append(open, "class") ELSE open

Namespace ==
  /\ Handling /\ Sort = "namespace"
  /\ LET r    == Next1(Object)
         name == CrackIdent(r, FALSE)
         body == mustCrack(name, {"{"})
     IN  /\ Return(body)
         /\ path' = IF name.st = "ok" THEN Append(path, Last(path) \o Name(r, name)) ELSE path
         /\ open' = IF body.st = "ok" THEN Append(open, "namespace") ELSE open
  /\ UNCHANGED canNamespace

\* The other objects open nothing.
Flat(sort, r) ==
  /\ Handling /\ Sort = sort
  /\ Return(r)
  /\ UNCHANGED <<open, canNamespace, path>>

ClassMember == Flat("member", Member(Object))
UsingObject == Flat("using", Using(Next1(Object)))
ImportCSharp == Flat("import", Import(Next1(Object)))
Unexpected  == Flat("unexpected", Fail(Look(Object), "error"))
BadStart    == Flat("none", Object)

\* Slip: PopNamespace is forgotten.
CloseBlockStays ==
  /\ status = "parsing" /\ AtBlockEnd
  /\ index' = Begin.i + 1 /\ open' = Front(open) /\ path' = Front(path)
  /\ canMethod' = IF Last(open) = "class" THEN Front(canMethod) ELSE canMethod
  /\ UNCHANGED <<packet, canNamespace, errors, depth, lost, status>>

\* CrackCode comes to the brace that ends its namespace or class.
CloseBlock ==
  /\ status = "parsing" /\ AtBlockEnd
  /\ index' = Begin.i + 1
  /\ open' = Front(open)
  /\ path' = Front(path)
  /\ canMethod' = IF Last(open) = "class" THEN Front(canMethod) ELSE canMethod
  /\ canNamespace' = IF Last(open) = "class" THEN Front(canNamespace) ELSE canNamespace
  /\ UNCHANGED <<packet, errors, depth, lost, status>>

Finish ==
  /\ status = "parsing" /\ AtEof
  /\ status' = "done"
  /\ UNCHANGED <<packet, index, open, canMethod, canNamespace, path, errors, depth, lost>>

Init ==
  /\ packet \in Packets /\ index = 1 /\ open = <<>>
  /\ canMethod = <<FALSE>> /\ canNamespace = <<TRUE>> /\ path = <<<<>>>>
  /\ errors = 0 /\ depth = 0 /\ lost = FALSE /\ status = "parsing"

\* The thread of ParseDetails has ended.
Stopped == status # "parsing" /\ UNCHANGED vars

Step == Class \/ Namespace \/ ClassMember \/ UsingObject \/ ImportCSharp
          \/ Unexpected \/ BadStart \/ CloseBlock \/ Finish
Next == Step \/ Stopped

Spec == Init /\ [][Next]_vars

(***************************************************************************)
(* What the parser promises.                                               *)
(***************************************************************************)
TypeOK ==
  /\ packet \in Seq(Tokens)
  /\ index \in 1..Len(packet) + 1
  /\ open \in Seq({"namespace", "class"})
  /\ canMethod \in Seq(BOOLEAN) /\ canNamespace \in Seq(BOOLEAN)
  /\ path \in Seq(Seq(Words \cup {"this"}))
  /\ errors \in 0..Len(packet) /\ depth \in 0..Len(packet) /\ lost \in BOOLEAN
  /\ status \in {"parsing", "done", "crashed", "hung"}

Accepted == status = "done" /\ errors = 0

\* Whatever the tokens are, ParseObject pushes and pops the stacks of FilterCode
\* as FilterCode says, of which it is proved that no Pop meets an empty stack.
Filter == INSTANCE FilterCode WITH paths <- Len(path), erred <- errors # 0
ImplementsFilterCode == Filter!Spec

\* As long as there was no error, members are taken in classes and only there,
\* namespaces in namespaces and at the top, and the path names what is open.
FilterFollowsNesting == Filter!FilterFollowsNesting

\* An accepted file has left nothing open, neither in the C# that was written
\* nor on the stacks, so that it can be compiled on its own.
AcceptedIsClosed ==
  Accepted => open = <<>> /\ depth = 0 /\ Len(canMethod) = 1 /\ Len(canNamespace) = 1
                /\ Len(path) = 1

\* The braces still open after a file; a brace that closes none stays open.
Unclosed(p) ==
  FoldLeft(LAMBDA n, t : CASE t = "{" -> IF n < 0 THEN n ELSE n + 1
                           [] t = "}" -> n - 1
                           [] OTHER   -> n,
           0, p)

\* A file whose braces do not match is accepted only where an expression has
\* dropped tokens.
AcceptedIsBalanced == Accepted /\ ~lost => Unclosed(packet) = 0

\* A block hangs only at a token with which no statement begins.
HangsAtNonStatement ==
  status = "hung" =>
    packet[index] \in {"else", "class", "interface", "static", "namespace", "using", "operator",
                       "extends", "{", ")", "[", "]", ",", ":", "@"}

\* No error makes the parser come back to where it was: whatever it finds, the
\* next object begins behind this one, so that every file comes to an end.
EachObjectAdvances == [][index' > index \/ status' # "parsing"]_vars
=============================================================================
