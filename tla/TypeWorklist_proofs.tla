-------------------------- MODULE TypeWorklist_proofs --------------------------
(***************************************************************************)
(* Theorems about TypeWorklist, proved for any assemblies, names, packages *)
(* and failing types.                                                      *)
(***************************************************************************)
EXTENDS TypeWorklist, TLAPS

USE WorklistAssumption

\* Merging entries of one name leaves entries that were there.
LEMMA OptimizedType ==
  ASSUME NEW S \in SUBSET Types, NEW K \in Optimized(S)
  PROVE  K \subseteq S /\ \A t \in S : Named(t, K)
  BY DEF Optimized, Named

\* So does what is kept of the types that t mentions.
LEMMA IncludesType ==
  ASSUME NEW t \in Types, TypeOK, NEW K \in Includes(t)
  PROVE  K \subseteq uses[t] /\ K \subseteq Types /\ uses[t] \subseteq Types
         /\ \A v \in uses[t] : Named(v, {t} \cup K)
<1>1. uses \in [Types -> SUBSET Types]
  BY DEF TypeOK
<1> QED
  BY <1>1 DEF Includes, Named

\* The ends of a type that is taken keep the list and its outcomes in step.
LEMMA NextType == TypeOK /\ [Next]_vars => TypeOK'
<1> SUFFICES ASSUME TypeOK, [Next]_vars PROVE TypeOK'
  OBVIOUS
<1>1. CASE UNCHANGED vars
  BY <1>1 DEF TypeOK, vars, failVars
<1>2. CASE Invoke
  BY <1>2 DEF TypeOK, Invoke, failVars
<1>3. ASSUME NEW t \in Types, TakeAgain(t) PROVE TypeOK'
  BY <1>3 DEF TypeOK, TakeAgain, failVars
<1>4. ASSUME NEW t \in Types, SkipKnown(t) PROVE TypeOK'
  BY <1>4 DEF TypeOK, SkipKnown, Take, failVars
<1>5. ASSUME NEW t \in Types, Import(t) PROVE TypeOK'
  <2>1. refs_check' = {Owner[u] : u \in dss' \ Known} \ {ID}
    BY <1>5 DEF TypeOK, Import, Take
  <2>2. imports' = refs_check' \cap Refs
    BY <1>5 DEF TypeOK, Import
  <2> QED
    BY <1>5, <2>1, <2>2 DEF TypeOK, Import, Take, failVars
<1>6. ASSUME NEW t \in Types, Looked(t), lta' \subseteq Types,
             UNCHANGED <<code, failVars>>, Module[t] # Main
      PROVE  TypeOK'
  BY <1>6 DEF TypeOK, Looked, Take, failVars
<1>7. ASSUME NEW t \in Types, PassForeign(t) PROVE TypeOK'
  <2>1. lta \ {t} \subseteq Types
    BY DEF TypeOK
  <2> QED
    BY <1>6, <1>7, <2>1, OptimizedType DEF PassForeign
<1>8. ASSUME NEW t \in Types, Translate(t) PROVE TypeOK'
  <2>1. lta' \subseteq Types
    <3>1. PICK K \in Optimized(lta \ {t}), M \in Includes(t) : lta' = K \cup M
      BY <1>8 DEF Translate
    <3>2. K \subseteq Types
      BY OptimizedType DEF TypeOK
    <3> QED
      BY <3>1, <3>2, IncludesType
  <2>2. code' = {v \in dss' \ Known : Owner[v] = ID /\ Module[v] = Main /\ v \notin Broken}
    BY <1>8 DEF TypeOK, Translate, Looked, Take
  <2>3. UNCHANGED failVars
        /\ {v \in dss' \ Known : Owner[v] = ID /\ Module[v] = Main /\ v \in Broken}
             = {v \in dss \ Known : Owner[v] = ID /\ Module[v] = Main /\ v \in Broken}
    BY <1>8 DEF Translate, Looked, Take
  <2>4. refs_check' = {Owner[u] : u \in dss' \ Known} \ {ID}
    BY <1>8 DEF TypeOK, Translate, Looked, Take
  <2> QED
    BY <1>8, <2>1, <2>2, <2>3, <2>4 DEF TypeOK, Translate, Looked, Take, failVars
<1>9. ASSUME NEW t \in Types, Fails(t), reported' \cup dropped' \cup escaped' = reported \cup dropped \cup {t},
             reported' \cap dropped' = {}, escaped' \cap (reported' \cup dropped') = {},
             \A v, u \in escaped' : v = u
      PROVE  TypeOK'
  <2>1. lta' \subseteq Types /\ dss' \subseteq Types
    BY <1>9, OptimizedType DEF Fails, Looked, Take, TypeOK
  <2>2. {v \in dss' \ Known : Owner[v] = ID /\ Module[v] = Main /\ v \in Broken}
          = {v \in dss \ Known : Owner[v] = ID /\ Module[v] = Main /\ v \in Broken} \cup {t}
    BY <1>9 DEF Fails, Looked, Take
  <2>3. escaped = {}
    BY <1>9 DEF Fails, Looked, Take
  <2>4. refs_check' = {Owner[u] : u \in dss' \ Known} \ {ID}
    BY <1>9 DEF TypeOK, Fails, Looked, Take
  <2>5. code' = {v \in dss' \ Known : Owner[v] = ID /\ Module[v] = Main /\ v \notin Broken}
    BY <1>9 DEF TypeOK, Fails, Looked, Take
  <2> QED
    BY <1>9, <2>1, <2>2, <2>3, <2>4, <2>5 DEF TypeOK, Fails, Looked, Take
<1>10. ASSUME NEW t \in Types, Report(t) \/ Drop(t) \/ Escape(t) PROVE TypeOK'
  <2>1. escaped = {} /\ t \notin reported \cup dropped /\ Fails(t)
    BY <1>10 DEF TypeOK, Report, Drop, Escape, Fails, Looked, Take
  <2> QED
    BY <1>9, <1>10, <2>1 DEF TypeOK, Report, Drop, Escape
<1> QED
  BY <1>1, <1>2, <1>3, <1>4, <1>5, <1>7, <1>8, <1>10 DEF Next, Look

\* Every type that was taken is skipped, imported, passed or translated, or its
\* exception was reported, dropped or ended RunSources.
THEOREM TypeCorrect == Spec => []TypeOK
<1>1. Init => TypeOK
  BY DEF Init, TypeOK
<1> QED
  BY <1>1, NextType, PTL DEF Spec

-----------------------------------------------------------------------------
\* What a step takes from the list and puts there, when it takes t.
Moved(t, K, M) ==
  /\ t \in lta
  /\ dss' = dss \cup {t}
  /\ lta' = K \cup M
  /\ K \subseteq lta /\ \A v \in lta : Named(v, {t} \cup K)

\* In Pending, what is taken goes from the list to dss, and a merged entry leaves
\* one of its name behind.
LEMMA MovedPending ==
  ASSUME TypeOK, Pending, NEW t \in Types, NEW K, NEW M, Moved(t, K, M), UNCHANGED uses,
         \/ code' = code
         \/ code' = code \cup {t} /\ \A v \in uses[t] : Named(v, {t} \cup M)
  PROVE  Pending'
<1>1. \A v : Named(v, dss \cup lta) => Named(v, dss' \cup lta')
  BY DEF Moved, Named
<1>2. CASE code' = code
  BY <1>1, <1>2 DEF Pending, Named
<1>3. CASE code' = code \cup {t} /\ \A v \in uses[t] : Named(v, {t} \cup M)
  <2>1. \A v \in uses[t] : Named(v, dss' \cup lta')
    BY <1>3 DEF Moved, Named
  <2>2. \A v \in Roots \cup UNION {uses[u] : u \in code} : Named(v, dss' \cup lta')
    BY <1>1 DEF Pending
  <2>3. \A v \in UNION {uses'[u] : u \in code'} :
          v \in uses[t] \/ v \in UNION {uses[u] : u \in code}
    BY <1>3
  <2>4. \A v \in Roots \cup UNION {uses'[u] : u \in code'} : Named(v, dss' \cup lta')
    BY <2>1, <2>2, <2>3
  <2> QED
    BY <2>4 DEF Pending, Named
<1> QED
  BY <1>2, <1>3

\* In Reached, what is put into the list is in every closed set.
LEMMA MovedReached ==
  ASSUME TypeOK, Reached, NEW t \in Types, NEW K, NEW M, Moved(t, K, M), UNCHANGED uses,
         \/ code' = code /\ M = {}
         \/ code' = code \cup {t} /\ M \subseteq uses[t]
  PROVE  Reached'
<1> SUFFICES ASSUME NEW S \in SUBSET Types, Closed(S)' PROVE dss' \cup lta' \subseteq S
  BY DEF Reached
<1>1. Closed(S)
  BY DEF Closed
<1>2. dss \cup lta \subseteq S
  BY <1>1 DEF Reached
<1>3. M \subseteq S
  BY <1>2 DEF Closed, Moved
<1> QED
  BY <1>2, <1>3 DEF Moved

\* Every step that takes a type moves it so.
LEMMA Moves ==
  ASSUME TypeOK, NEW t \in Types, Look(t)
  PROVE  /\ UNCHANGED <<uses, invoked>>
         /\ \/ \E K : Moved(t, K, {}) /\ code' = code
            \/ \E K, M : /\ Moved(t, K, M) /\ code' = code \cup {t}
                         /\ M \subseteq uses[t] /\ \A v \in uses[t] : Named(v, {t} \cup M)
<1>1. CASE TakeAgain(t) \/ SkipKnown(t) \/ Import(t)
  <2>1. Moved(t, lta \ {t}, {}) /\ code' = code
    BY <1>1 DEF TakeAgain, SkipKnown, Import, Take, Moved, Named
  <2> QED
    BY <1>1, <2>1 DEF TakeAgain, SkipKnown, Import, Take
<1>2. ASSUME NEW K \in Optimized(lta \ {t})
      PROVE  K \subseteq lta /\ \A v \in lta : Named(v, {t} \cup K)
  BY <1>2, OptimizedType DEF TypeOK, Named
<1>3. CASE PassForeign(t) \/ Fails(t)
  <2>1. Moved(t, lta', {}) /\ code' = code
    BY <1>2, <1>3 DEF PassForeign, Fails, Looked, Take, Moved
  <2> QED
    BY <1>3, <2>1 DEF PassForeign, Fails, Looked, Take
<1>4. CASE Translate(t)
  <2>1. PICK K \in Optimized(lta \ {t}), M \in Includes(t) : lta' = K \cup M
    BY <1>4 DEF Translate
  <2>2. Moved(t, K, M) /\ code' = code \cup {t}
    BY <1>2, <1>4, <2>1 DEF Translate, Looked, Take, Moved
  <2> QED
    BY <1>4, <2>2, IncludesType DEF Translate, Looked, Take
<1> QED
  BY <1>1, <1>3, <1>4 DEF Look, Report, Drop, Escape

\* Every step keeps the invariant.
LEMMA NextInvariant == TypeOK /\ WorklistInvariant /\ [Next]_vars => WorklistInvariant'
<1> SUFFICES ASSUME TypeOK, WorklistInvariant, [Next]_vars PROVE WorklistInvariant'
  OBVIOUS
<1> USE DEF WorklistInvariant
<1>1. CASE UNCHANGED vars \/ Invoke
  <2>1. UNCHANGED <<uses, lta, dss, code>> /\ (invoked' => lta' = {} /\ escaped' = {})
    BY <1>1 DEF vars, failVars, Invoke
  <2>2. Pending'
    BY <2>1 DEF Pending, Named
  <2>3. Reached'
    BY <2>1 DEF Reached, Closed
  <2> QED
    BY <2>1, <2>2, <2>3
<1>2. ASSUME NEW t \in Types, Look(t) PROVE WorklistInvariant'
  <2>1. CASE \E K : Moved(t, K, {}) /\ code' = code
    BY <1>2, <2>1, Moves, MovedPending, MovedReached DEF Moved
  <2>2. CASE \E K, M : /\ Moved(t, K, M) /\ code' = code \cup {t}
                       /\ M \subseteq uses[t] /\ \A v \in uses[t] : Named(v, {t} \cup M)
    BY <1>2, <2>2, Moves, MovedPending, MovedReached DEF Moved
  <2> QED
    BY <1>2, <2>1, <2>2, Moves
<1> QED
  BY <1>1, <1>2 DEF Next

\* The list never loses the last type of a name, nor gains one from elsewhere.
THEOREM WorklistCorrect == Spec => []WorklistInvariant
<1>1. Init => WorklistInvariant
  BY DEF Init, WorklistInvariant, Pending, Reached, Closed, Named
<1> QED
  BY <1>1, NextInvariant, TypeCorrect, PTL DEF Spec

\* Whatever the types mention of each other, main.go has what it speaks of.
THEOREM AllNamesFound == Spec => []NamesAreFound
<1>1. TypeOK /\ escaped = {} => \A u \in dss : Found(u)
  BY DEF TypeOK, Found
<1>2. TypeOK /\ WorklistInvariant => NamesAreFound
  BY <1>1 DEF WorklistInvariant, Pending, Named, NamesAreFound
<1> QED
  BY <1>2, TypeCorrect, WorklistCorrect, PTL

\* And it has nothing the roots do not lead to.
THEOREM NoStrangers == Spec => []NothingElse
<1>1. TypeOK /\ WorklistInvariant => NothingElse
  <2> SUFFICES ASSUME TypeOK, WorklistInvariant, NEW S \in SUBSET Types, Closed(S)
               PROVE  code \subseteq S /\ imports \subseteq {Owner[t] : t \in S}
    BY DEF NothingElse
  <2>1. dss \subseteq S
    BY DEF WorklistInvariant, Reached
  <2> QED
    BY <2>1 DEF TypeOK
<1> QED
  BY <1>1, TypeCorrect, WorklistCorrect, PTL

-----------------------------------------------------------------------------
\* How far RunSources has come: a step takes a type it never took before, or takes
\* one from the list and puts none there, or writes main.go.
ComesCloser ==
  \/ dss \subseteq dss' /\ dss' # dss
  \/ dss' = dss /\ lta' \subseteq lta /\ lta' # lta
  \/ UNCHANGED <<dss, lta>> /\ ~invoked /\ invoked'

\* Types that mention each other do not keep it going round: no step of RunSources
\* goes back, so that it comes to an end if the types are finitely many, by writing
\* main.go or by the exception of a type that leaves its handler.
THEOREM NoStepGoesBack == Spec => [][ComesCloser]_vars
<1>1. ASSUME NEW t \in Types, Look(t) PROVE ComesCloser
  <2>1. CASE TakeAgain(t)
    BY <2>1 DEF TakeAgain, ComesCloser
  <2>2. CASE SkipKnown(t) \/ Import(t) \/ PassForeign(t) \/ Translate(t) \/ Fails(t)
    <3>1. Take(t)
      BY <2>2 DEF SkipKnown, Import, PassForeign, Translate, Fails, Looked
    <3> QED BY <3>1 DEF Take, ComesCloser
  <2> QED BY <1>1, <2>1, <2>2 DEF Look, Report, Drop, Escape
<1>2. Invoke => ComesCloser
  BY DEF Invoke, ComesCloser
<1>3. [Next]_vars => [ComesCloser]_vars
  BY <1>1, <1>2 DEF Next
<1> QED
  BY <1>3, PTL DEF Spec
=============================================================================
