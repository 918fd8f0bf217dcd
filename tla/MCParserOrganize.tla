-------------------------- MODULE MCParserOrganize --------------------------
(***************************************************************************)
(* The files of a new project and of the sample projects in bin\Debug,     *)
(* shortened and with other names, a file with every statement, and what   *)
(* one slip of the keyboard makes of them.                                 *)
(***************************************************************************)
EXTENDS ParserOrganize

MCWords == {"A", "B"}

\* projectToolStripMenuItem1_Click writes this one into a new project.
Template == << "using", "A", ";", "namespace", "A", "{", "class", "B", "{",
               "static", "A", "A", "(", ")", "{", "}", "}", "}" >>

\* GeneralBase: methods without a body, an extern, a base class, a constructor.
Base == << "using", "A", "namespace", "A", "{", "class", "B", ":", "A", "{",
           "static", "A", "B", "(", "A", "B", ")",
           "static", "A", "@", "B", "(", "A", "B", ",", "A", ")",
           "B", "(", "A", "B", ")", "{", "}", "A", "B", ",", "A", "}", "}" >>

\* code of the project Test: calls, assignments, generic types, split, loop.
Test == << "using", "A", ".", "B", "class", "B", "{", "static", "A", "B", "(", ")", "{",
           "A", "=", "new", "A", "<", "B", ">", "(", ")", "B", ".", "A", "(", "0", ")",
           "split", "{", "loop", "{", "A", ".", "B", "(", "text", ")", "}", "}", "}", "}" >>

\* The statements that the samples do not use.
Statements_ ==
  << "[", "A", "(", "0", ")", "]", "class", "B", "{", "A", "operator", "+", "(", ")", "{",
     "import", "(", "c#", ")", "{", "{", "}", "}",
     "while", "A", "<", "0", "if", "&&", "A", ",", "(", "B", ")", "{", "return", "-", "A", ";", "}",
     "for", "(", "A", "B", "=", "0", ";", ";", ")", "{", "finally", "B", "++", "}",
     "A", "B", "=", "new", "A", "[", "]", "{", "0", "}", "}", "}" >>

Samples == {Template, Base, Test}

Typed == {"A", "0", "else", "class", "import", "new", "(", ")", "{", "}", "[", "]", ",", ";", "=",
          "*", "+"}
\* A token left out, typed for another, or typed in addition.
Slips(p) == {RemoveAt(p, i) : i \in DOMAIN p}
              \cup {ReplaceAt(p, i, t) : i \in DOMAIN p, t \in Typed}
              \cup {InsertAt(p, i, t) : i \in DOMAIN p, t \in Typed}

Files == Samples \cup {Statements_}
MCPackets == Files \cup UNION {Slips(p) : p \in Files}

\* What is written into a new project, and the sources of the samples, are
\* parsed to the end without an error and without dropping a token.
SamplesAccepted == packet \in Samples => status = "parsing" \/ (Accepted /\ ~lost)
=============================================================================
