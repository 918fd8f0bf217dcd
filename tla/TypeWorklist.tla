----------------------------- MODULE TypeWorklist -----------------------------
(***************************************************************************)
(* ExecutableAnalied.RunSources (Analyzer.cs): from the types of the       *)
(* linked assembly to the text of main.go.  A list holds the types still   *)
(* to be looked at; the one taken is translated, and the types its         *)
(* translation mentions are put into the list, where types with one name   *)
(* in Go are merged.                                                       *)
(*                                                                         *)
(* The list is a set here: its order decides only which of two types with  *)
(* one name is met first, and either may be.  Entries without a definition *)
(* (type parameters) are removed when lists are merged, and are left out;  *)
(* one that is first in its list, a base type that does not resolve, stays *)
(* and throws, and counts as Broken.  Left out are also the brackets of    *)
(* arrays, which may keep two entries of one type from being merged.       *)
(***************************************************************************)
EXTENDS Naturals, FiniteSets

CONSTANTS
    Types,       \* type definitions
    Roots,       \* the assembly's own that are not nested in others
    Assemblies,  \* what its types may mention: functions from types to types
    Module,      \* type -> the module that defines it
    Main,        \* the main module
    Name,        \* type -> its name in Go
    Known,       \* types that have a name of their own in Go, attributes, delegates
    Owner,       \* type -> the package its DllFieldAttribute names, or ID
    ID,          \* the package that is being built, or no package
    Refs,        \* the packages the project refers to
    Broken       \* types whose translation throws: interfaces, and the like

ASSUME WorklistAssumption ==
    /\ Assemblies \subseteq [Types -> SUBSET Types]
    /\ Roots \subseteq Types /\ Known \subseteq Types /\ Broken \subseteq Types
    /\ DOMAIN Module = Types /\ DOMAIN Owner = Types /\ DOMAIN Name = Types
    /\ \A t \in Roots : Module[t] = Main
    /\ ID \notin Refs

VARIABLES
    uses,        \* type -> what its translation mentions (TypeAnalied.Includes)
    lta,         \* types to be looked at
    dss,         \* types that were taken from the list
    refs_check,  \* packages that were met
    imports,     \* packages that main.go imports
    code,        \* types that main.go declares
    reported,    \* types whose exception was written to the console
    dropped,     \* types whose exception nobody hears of
    escaped,     \* the type, if any, whose exception ended RunSources
    invoked      \* main.go is written

failVars == <<reported, dropped, escaped>>
vars == <<uses, lta, dss, refs_check, imports, code, failVars, invoked>>

Init ==
    /\ uses \in Assemblies
    /\ lta = Roots
    /\ dss = {} /\ refs_check = {} /\ imports = {} /\ code = {}
    /\ reported = {} /\ dropped = {} /\ escaped = {}
    /\ invoked = FALSE

\* Slip: the entries that share a name all go.
OptimizedAway(S) == {{t \in S : \A u \in S : Name[u] = Name[t] => u = t}}

\* OptimizeIncludeListGlobal: of the entries with one name one remains
Optimized(S) == {K \in SUBSET S : \A t \in S : \E u \in K : Name[u] = Name[t]}

\* OptimizeIncludeList removes from what t mentions t's own name as well
Includes(t) == {K \in SUBSET uses[t] :
    \A v \in uses[t] : Name[v] = Name[t] \/ \E u \in K : Name[u] = Name[v]}

-----------------------------------------------------------------------------
\* dss.Add( ... ) throws, and the message says "same"
TakeAgain(t) ==
    /\ t \in lta \cap dss /\ escaped = {}
    /\ lta' = lta \ {t}
    /\ UNCHANGED <<uses, dss, refs_check, imports, code, failVars, invoked>>

\* Slip: a type is not remembered.
TakeUnrecorded(t) ==
    /\ t \in lta \ dss /\ escaped = {}
    /\ UNCHANGED <<uses, dss, invoked>>

Take(t) ==
    /\ t \in lta \ dss /\ escaped = {}
    /\ dss' = dss \cup {t}
    /\ UNCHANGED <<uses, invoked>>

SkipKnown(t) ==
    /\ Take(t)
    /\ t \in Known
    /\ lta' = lta \ {t}
    /\ UNCHANGED <<refs_check, imports, code, failVars>>

\* Slip: every package that is met is imported.
ImportAny(t) ==
    /\ Take(t)
    /\ t \notin Known /\ Owner[t] # ID
    /\ lta' = lta \ {t}
    /\ refs_check' = refs_check \cup {Owner[t]}
    /\ imports' = imports \cup {Owner[t]}
    /\ UNCHANGED <<code, failVars>>

\* A type of another package is imported with the first that is met, if the
\* project refers to the package
Import(t) ==
    /\ Take(t)
    /\ t \notin Known /\ Owner[t] # ID
    /\ lta' = lta \ {t}
    /\ refs_check' = refs_check \cup {Owner[t]}
    /\ imports' = IF Owner[t] \in Refs \ refs_check THEN imports \cup {Owner[t]} ELSE imports
    /\ UNCHANGED <<code, failVars>>

Looked(t) ==
    /\ Take(t)
    /\ t \notin Known /\ Owner[t] = ID
    /\ UNCHANGED <<refs_check, imports>>

\* A type of a library: its code is not translated
PassForeign(t) ==
    /\ Looked(t)
    /\ Module[t] # Main
    /\ lta' \in Optimized(lta \ {t})
    /\ UNCHANGED <<code, failVars>>

\* code += ta.GoCode, and the types it mentions join the list
Translate(t) ==
    /\ Looked(t)
    /\ Module[t] = Main /\ t \notin Broken
    /\ \E rest \in Optimized(lta \ {t}), mentioned \in Includes(t) :
          lta' = rest \cup mentioned
    /\ code' = code \cup {t}
    /\ UNCHANGED failVars

\* Slip: the types that were met before the exception join the list.
FailsAndGoesOn(t) ==
    /\ Looked(t)
    /\ Module[t] = Main /\ t \in Broken
    /\ \E rest \in Optimized(lta \ {t}), mentioned \in Includes(t) :
          lta' = rest \cup mentioned
    /\ UNCHANGED code

\* The getter throws: no code, and nothing joins the list
Fails(t) ==
    /\ Looked(t)
    /\ Module[t] = Main /\ t \in Broken
    /\ lta' \in Optimized(lta \ {t})
    /\ UNCHANGED code

\* The handler writes where the exception comes from, and goes on ...
Report(t) == Fails(t) /\ reported' = reported \cup {t} /\ UNCHANGED <<dropped, escaped>>

\* ... or says nothing, if the message has the word "same" in it ...
Drop(t) == Fails(t) /\ dropped' = dropped \cup {t} /\ UNCHANGED <<reported, escaped>>

\* ... or throws itself, when the stack trace has one line or no file names: its
\* Substring looks for "at" in an empty text.
Escape(t) == Fails(t) /\ escaped' = {t} /\ UNCHANGED <<reported, dropped>>

\* invoke( "main", code )
Invoke ==
    /\ lta = {} /\ ~invoked /\ escaped = {}
    /\ invoked' = TRUE
    /\ UNCHANGED <<uses, lta, dss, refs_check, imports, code, failVars>>

Look(t) ==
    \/ TakeAgain(t) \/ SkipKnown(t) \/ Import(t)
    \/ PassForeign(t) \/ Translate(t)
    \/ Report(t) \/ Drop(t) \/ Escape(t)

Next == (\E t \in Types : Look(t)) \/ Invoke

Spec == Init /\ [][Next]_vars /\ WF_vars(Next)

-----------------------------------------------------------------------------
(* Properties *)

\* Each type that was taken came to one end of seven: skipped, imported, passed,
\* translated, or failed in one of three ways.
TypeOK ==
    /\ uses \in Assemblies
    /\ lta \subseteq Types /\ dss \subseteq Types
    /\ imports = refs_check \cap Refs
    /\ refs_check = {Owner[t] : t \in dss \ Known} \ {ID}
    /\ code = {t \in dss \ Known : Owner[t] = ID /\ Module[t] = Main /\ t \notin Broken}
    /\ reported \cup dropped \cup escaped =
         {t \in dss \ Known : Owner[t] = ID /\ Module[t] = Main /\ t \in Broken}
    /\ reported \cap dropped = {} /\ escaped \cap (reported \cup dropped) = {}
    /\ \A t, u \in escaped : t = u
    /\ invoked \in BOOLEAN

Named(t, S) == \E u \in S : Name[u] = Name[t]

\* What Go finds under the name of u in main.go, or in what it imports
Found(u) ==
    \/ u \in Known \/ u \in code \/ u \in reported \cup dropped
    \/ Owner[u] \in imports
    \/ Owner[u] \notin Refs \cup {ID}
    \/ Owner[u] = ID /\ Module[u] # Main

\* When main.go is written, it has everything it speaks of: every name that a
\* translated type mentions is declared in it or imported by it.  The names that
\* are missing, go.exe will complain of: a type whose translation failed, heard of
\* or not, one of a library, one of a package the project does not refer to.
\* Of two types with one name one may be missing.
NamesAreFound == invoked =>
    \A t \in Roots \cup UNION {uses[u] : u \in code} :
        \E u \in dss : Name[u] = Name[t] /\ Found(u)

\* S has the roots, and what the translated types in it mention
Closed(S) == Roots \subseteq S /\ \A t \in S \cap code : uses[t] \subseteq S

\* main.go has nothing else: neither declares a type nor imports a package that
\* the roots do not lead to.
NothingElse == \A S \in SUBSET Types : Closed(S) =>
    code \subseteq S /\ imports \subseteq {Owner[t] : t \in S}

\* Types that mention each other, merged names and exceptions do not keep
\* RunSources going: either it writes main.go, or the exception of one failing type
\* has left it by way of its own handler (and goes on to the Build handler).
ComesToAnEnd == <>(invoked \/ escaped # {})

\* Why NamesAreFound holds: what a translated type mentions is in the list until
\* it, or another type of that name, is taken from it.
Pending == \A t \in Roots \cup UNION {uses[u] : u \in code} : Named(t, dss \cup lta)

\* Why NothingElse holds.
Reached == \A S \in SUBSET Types : Closed(S) => dss \cup lta \subseteq S

WorklistInvariant ==
    /\ Pending
    /\ Reached
    /\ invoked => lta = {} /\ escaped = {}
=============================================================================
