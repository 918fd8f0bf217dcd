--------------------------- MODULE FilterCode_proofs ---------------------------
(***************************************************************************)
(* Theorems about FilterCode, proved for files of any length and nesting,  *)
(* and any number of errors.  ParserOrganize, which the run ParserSlips    *)
(* shows to implement FilterCode, is too recursive for such a proof.       *)
(***************************************************************************)
EXTENDS FilterCode, SequenceTheorems, FiniteSetTheorems, TLAPS

Kinds == {"namespace", "class"}

ClassSet(s) == {i \in DOMAIN s : s[i] = "class"}

-----------------------------------------------------------------------------
(* Stacks *)

LEMMA PushIs ==
  ASSUME NEW S, NEW s \in Seq(S), NEW x \in S
  PROVE  /\ Push(s, x) \in Seq(S) /\ Len(Push(s, x)) = Len(s) + 1 /\ Peek(Push(s, x)) = x
         /\ DOMAIN Push(s, x) = 1..Len(s) + 1 /\ Push(s, x)[Len(s) + 1] = x
         /\ \A i \in 1..Len(s) : Push(s, x)[i] = s[i]
<1>1. PICK t : t = Append(s, x)
  OBVIOUS
<1>2. /\ t \in Seq(S) /\ Len(t) = Len(s) + 1 /\ t[Len(s) + 1] = x
      /\ \A i \in 1..Len(s) : t[i] = s[i]
  BY <1>1, AppendProperties
<1>3. DOMAIN t = 1..Len(s) + 1
  BY <1>2, LenProperties
<1> QED
  BY <1>1, <1>2, <1>3 DEF Push, Peek

LEMMA PushFlag ==
  ASSUME NEW s \in Seq(BOOLEAN), NEW x \in BOOLEAN, NEW t, t = Append(s, x)
  PROVE  /\ t \in Seq(BOOLEAN) /\ Len(t) = Len(s) + 1 /\ t[Len(s) + 1] = x
         /\ \A i \in 1..Len(s) : t[i] = s[i]
<1>1. /\ t # <<>> /\ Len(t) = Len(s) + 1
  BY AppendProperties
<1> QED
  BY <1>1, AppendProperties, LenProperties

LEMMA PushKind ==
  ASSUME NEW s \in Seq(Kinds), NEW x \in Kinds, NEW t, t = Append(s, x)
  PROVE  /\ t \in Seq(Kinds) /\ Len(t) = Len(s) + 1 /\ DOMAIN t = 1..Len(s) + 1 /\ t[Len(s) + 1] = x
         /\ \A i \in 1..Len(s) : t[i] = s[i]
<1>1. /\ t # <<>> /\ Len(t) = Len(s) + 1
  BY AppendProperties
<1> QED
  BY <1>1, AppendProperties, LenProperties

LEMMA PopIs ==
  ASSUME NEW S, NEW s \in Seq(S), Len(s) > 0
  PROVE  /\ Pop(s) \in Seq(S) /\ Len(Pop(s)) = Len(s) - 1 /\ DOMAIN Pop(s) = 1..Len(s) - 1
         /\ \A i \in 1..Len(s) - 1 : Pop(s)[i] = s[i]
<1>1. PICK t : t = SubSeq(s, 1, Len(s) - 1)
  OBVIOUS
<1>2. Len(s) \in Nat /\ \A i \in 1..Len(s) - 1 : s[i] \in S
  BY LenProperties, ElementOfSeq
<1>3. PICK n : n = Len(s) - 1
  OBVIOUS
<1>4. n \in Int /\ n \in Nat /\ 1 \in Int /\ t = SubSeq(s, 1, n) /\ \A i \in 1..n : s[i] \in S
  BY <1>1, <1>2, <1>3
<1>5. /\ t \in Seq(S) /\ Len(t) = IF 1 <= n THEN n - 1 + 1 ELSE 0
      /\ \A i \in 1..n - 1 + 1 : t[i] = s[1 + i - 1]
  BY <1>4, SubSeqProperties
<1>6. t \in Seq(S) /\ Len(t) = Len(s) - 1 /\ \A i \in 1..Len(s) - 1 : t[i] = s[i]
  BY <1>2, <1>3, <1>4, <1>5
<1>7. DOMAIN t = 1..Len(s) - 1
  BY <1>6, LenProperties
<1> QED
  BY <1>1, <1>6, <1>7 DEF Pop

-----------------------------------------------------------------------------
(* How many classes are open *)

LEMMA ClassSetIs ==
  ASSUME NEW s \in Seq(Kinds)
  PROVE  /\ IsFiniteSet(ClassSet(s)) /\ Cardinality(ClassSet(s)) \in Nat
         /\ Cardinality(ClassSet(s)) = 0 <=> \A i \in 1..Len(s) : s[i] # "class"
<1>1. DOMAIN s = 1..Len(s) /\ Len(s) \in Nat
  BY LenProperties
<1>2. IsFiniteSet(1..Len(s)) /\ ClassSet(s) \subseteq 1..Len(s)
  BY <1>1, FS_Interval DEF ClassSet
<1>3. IsFiniteSet(ClassSet(s))
  BY <1>2, FS_Subset
<1>4. Cardinality(ClassSet(s)) = 0 <=> ClassSet(s) = {}
  BY <1>3, FS_EmptySet
<1>5. Cardinality(ClassSet(s)) \in Nat
  BY <1>3, FS_CardinalityType
<1> QED
  BY <1>1, <1>3, <1>4, <1>5 DEF ClassSet

LEMMA PushCounts ==
  ASSUME NEW s \in Seq(Kinds), NEW x \in Kinds
  PROVE  Cardinality(ClassSet(Push(s, x))) =
           IF x = "class" THEN Cardinality(ClassSet(s)) + 1 ELSE Cardinality(ClassSet(s))
<1>1. DOMAIN s = 1..Len(s) /\ Len(s) \in Nat
  BY LenProperties
<1>2. PICK t : t = Push(s, x)
  OBVIOUS
<1>3. DOMAIN t = 1..Len(s) + 1 /\ t[Len(s) + 1] = x /\ \A i \in 1..Len(s) : t[i] = s[i]
  BY <1>2, PushKind DEF Push
<1>4. CASE x = "class"
  <2>1. ClassSet(t) = ClassSet(s) \cup {Len(s) + 1} /\ Len(s) + 1 \notin ClassSet(s)
    BY <1>1, <1>3, <1>4 DEF ClassSet
  <2> QED
    BY <1>2, <1>4, <2>1, ClassSetIs, FS_AddElement
<1>5. CASE x # "class"
  <2>1. ClassSet(t) = ClassSet(s)
    BY <1>1, <1>3, <1>5 DEF ClassSet
  <2> QED
    BY <1>2, <1>5, <2>1
<1> QED
  BY <1>4, <1>5

LEMMA PopCounts ==
  ASSUME NEW s \in Seq(Kinds), Len(s) > 0
  PROVE  Cardinality(ClassSet(s)) =
           IF Peek(s) = "class" THEN Cardinality(ClassSet(Pop(s))) + 1
                                ELSE Cardinality(ClassSet(Pop(s)))
<1>1. DOMAIN s = 1..Len(s) /\ Len(s) \in Nat
  BY LenProperties
<1>2. PICK t : t = Pop(s)
  OBVIOUS
<1>3. t \in Seq(Kinds) /\ DOMAIN t = 1..Len(s) - 1 /\ \A i \in 1..Len(s) - 1 : t[i] = s[i]
  BY <1>2, PopIs
<1>4. CASE s[Len(s)] = "class"
  <2>1. ClassSet(s) = ClassSet(t) \cup {Len(s)} /\ Len(s) \notin ClassSet(t)
    BY <1>1, <1>3, <1>4 DEF ClassSet
  <2>2. Cardinality(ClassSet(s)) = Cardinality(ClassSet(t)) + 1
    BY <1>3, <2>1, ClassSetIs, FS_AddElement
  <2> QED
    BY <1>2, <1>4, <2>2 DEF Peek
<1>5. CASE s[Len(s)] # "class"
  <2>1. ClassSet(s) = ClassSet(t)
    BY <1>1, <1>3, <1>5 DEF ClassSet
  <2> QED
    BY <1>2, <1>5, <2>1 DEF Peek
<1> QED
  BY <1>4, <1>5

-----------------------------------------------------------------------------
(* The invariant *)

Shape ==
  /\ open \in Seq(Kinds) /\ canMethod \in Seq(BOOLEAN) /\ canNamespace \in Seq(BOOLEAN)
  /\ paths \in Nat /\ erred \in BOOLEAN

\* Without an error the stacks hold what is open and nothing else; there is no
\* namespace in a class.
InStep ==
  /\ Len(canMethod) = Classes + 1 /\ Len(canNamespace) = Classes + 1 /\ paths = Len(open) + 1
  /\ \A i \in 1..Len(canMethod) : canMethod[i] <=> i # 1
  /\ \A i \in 1..Len(canNamespace) : canNamespace[i] <=> i = 1
  /\ \A i, j \in 1..Len(open) : i < j /\ open[i] = "class" => open[j] = "class"

StackInv ==
  /\ Shape /\ PopsArePushed
  /\ ~erred /\ status \in {"parsing", "done"} => InStep
  /\ status = "done" => open = <<>>

LEMMA OneFlag ==
  ASSUME NEW x \in BOOLEAN, NEW s, s = <<x>>
  PROVE  s \in Seq(BOOLEAN) /\ Len(s) = 1 /\ s[1] = x
  OBVIOUS

LEMMA InitStackInv == Init => StackInv
<1> SUFFICES ASSUME Init PROVE StackInv
  OBVIOUS
<1>1. open = <<>> /\ canMethod = <<FALSE>> /\ canNamespace = <<TRUE>> /\ paths = 1 /\ erred = FALSE /\ status = "parsing"
  BY DEF Init
<1>2. Shape /\ Len(open) = 0 /\ Len(canMethod) = 1 /\ Len(canNamespace) = 1
  <2>1. canMethod \in Seq(BOOLEAN) /\ canNamespace \in Seq(BOOLEAN) /\ Len(canMethod) = 1 /\ Len(canNamespace) = 1
      <3>1. FALSE \in BOOLEAN /\ TRUE \in BOOLEAN
        OBVIOUS
      <3> QED
        BY <1>1, <3>1, OneFlag
  <2>2. open \in Seq(Kinds) /\ Len(open) = 0
    <3>1. open = <<>>
      BY <1>1
    <3> QED
      BY <3>1
  <2>3. paths \in Nat /\ erred \in BOOLEAN
    BY <1>1
  <2> QED
    BY <2>1, <2>2, <2>3, Zenon DEF Shape
<1>3. Classes = 0
  <2>1. \A i \in 1..Len(open) : open[i] # "class"
    BY <1>2
  <2>2. open \in Seq(Kinds)
    BY <1>2 DEF Shape
  <2>3. Cardinality(ClassSet(open)) = 0
    BY <2>1, <2>2, ClassSetIs
  <2> QED
    BY <2>3 DEF Classes, ClassSet
<1>4. InStep
  <2>1. Len(canMethod) = Classes + 1 /\ Len(canNamespace) = Classes + 1 /\ paths = Len(open) + 1
    BY <1>1, <1>2, <1>3
  <2>2. \A i \in 1..Len(canMethod) : i = 1
    BY <1>2
  <2>3. \A i \in 1..Len(canNamespace) : i = 1
    BY <1>2
  <2>4. (canMethod[1] <=> FALSE) /\ (canNamespace[1] <=> TRUE)
    BY <1>1
  <2>5. \A i, j \in 1..Len(open) : FALSE
    BY <1>2
  <2> QED
    BY <2>1, <2>2, <2>3, <2>4, <2>5, Zenon DEF InStep
<1>5. PopsArePushed
  BY <1>1, <1>2, <1>3 DEF PopsArePushed
<1> QED
  BY <1>1, <1>2, <1>4, <1>5 DEF StackInv

\* Peek, as the invariant has it.
LEMMA Peeks ==
  ASSUME Shape, InStep
  PROVE  /\ Classes \in Nat /\ Len(open) \in Nat
         /\ Peek(canMethod) <=> Classes # 0
         /\ Peek(canNamespace) <=> Classes = 0
         /\ Classes # 0 <=> Len(open) > 0 /\ Peek(open) = "class"
<1>1. Classes \in Nat /\ Len(open) \in Nat /\ (Classes = 0 <=> \A i \in 1..Len(open) : open[i] # "class")
  BY ClassSetIs, LenProperties DEF Shape, Classes, ClassSet
<1>2. /\ Len(canMethod) \in 1..Len(canMethod) /\ Len(canMethod) = Classes + 1
      /\ Len(canNamespace) \in 1..Len(canNamespace) /\ Len(canNamespace) = Classes + 1
  BY <1>1 DEF InStep
<1>3. (Peek(canMethod) <=> Len(canMethod) # 1) /\ (Peek(canNamespace) <=> Len(canNamespace) = 1)
  BY <1>2 DEF InStep, Peek
<1>4. Classes # 0 => Len(open) > 0 /\ Peek(open) = "class"
  <2>1. SUFFICES ASSUME NEW i \in 1..Len(open), open[i] = "class"
                 PROVE  Len(open) > 0 /\ open[Len(open)] = "class"
    BY <1>1 DEF Peek
  <2>2. Len(open) \in 1..Len(open) /\ (i = Len(open) \/ i < Len(open))
    BY <1>1
  <2> QED
    BY <1>1, <2>1, <2>2 DEF InStep
<1>5. Len(open) > 0 /\ Peek(open) = "class" => Classes # 0
  BY <1>1 DEF Peek
<1> QED
  BY <1>1, <1>2, <1>3, <1>4, <1>5

LEMMA CountIs == Classes = Cardinality(ClassSet(open)) /\ Classes' = Cardinality(ClassSet(open'))
  BY DEF Classes, ClassSet

LEMMA ClassKeeps ==
  ASSUME StackInv, Class
  PROVE  StackInv'
<1>1. /\ status = "parsing" /\ Shape /\ PopsArePushed /\ status' # "done"
      /\ canMethod' = Push(canMethod, TRUE) /\ canNamespace' = Push(canNamespace, FALSE)
  BY DEF StackInv, Class
<1>2. /\ canMethod' \in Seq(BOOLEAN) /\ canNamespace' \in Seq(BOOLEAN)
      /\ Len(canMethod') = Len(canMethod) + 1 /\ Len(canNamespace') = Len(canNamespace) + 1
      /\ canMethod'[Len(canMethod) + 1] = TRUE /\ canNamespace'[Len(canNamespace) + 1] = FALSE
      /\ \A i \in 1..Len(canMethod) : canMethod'[i] = canMethod[i]
      /\ \A i \in 1..Len(canNamespace) : canNamespace'[i] = canNamespace[i]
  <2>1. canMethod \in Seq(BOOLEAN) /\ canNamespace \in Seq(BOOLEAN) /\ TRUE \in BOOLEAN /\ FALSE \in BOOLEAN
    BY <1>1 DEF Shape
  <2> QED
    BY <1>1, <2>1, PushFlag DEF Push
<1>3. /\ Classes \in Nat /\ Len(open) \in Nat /\ paths \in Nat /\ Len(canMethod) \in Nat /\ Len(canNamespace) \in Nat
      /\ Len(canMethod) > Classes /\ Len(canNamespace) > Classes /\ paths > Len(open)
  BY <1>1, CountIs, ClassSetIs, LenProperties DEF Shape, PopsArePushed
<1>4. Len(canMethod') = Len(canMethod) + 1 /\ Len(canNamespace') = Len(canNamespace) + 1
  BY <1>2
<1>5. CASE Succeeds /\ open' = Push(open, "class") /\ paths' = paths + 1
  <2>1. /\ open' \in Seq(Kinds) /\ Len(open') = Len(open) + 1 /\ open'[Len(open) + 1] = "class"
        /\ \A i \in 1..Len(open) : open'[i] = open[i]
    <3>1. open \in Seq(Kinds) /\ "class" \in Kinds
      BY <1>1 DEF Shape, Kinds
    <3> QED
      BY <1>5, <3>1, PushKind DEF Push
  <2>2. Classes' = Classes + 1
    <3>1. open \in Seq(Kinds) /\ "class" \in Kinds
      BY <1>1 DEF Shape, Kinds
    <3>2. Cardinality(ClassSet(Push(open, "class"))) = Cardinality(ClassSet(open)) + 1
      BY <3>1, PushCounts
    <3>3. Classes = Cardinality(ClassSet(open)) /\ Classes' = Cardinality(ClassSet(open'))
      BY CountIs
    <3> QED
      BY <1>5, <3>2, <3>3, Zenon
  <2>3. Shape'
    <3>1. open' \in Seq(Kinds) /\ canMethod' \in Seq(BOOLEAN) /\ canNamespace' \in Seq(BOOLEAN)
      BY <1>2, <2>1, Zenon
    <3>2. paths' \in Nat
      BY <1>3, <1>5
    <3>3. erred' \in BOOLEAN
      BY <1>1, <1>5, Zenon DEF Shape, Succeeds
    <3> QED
      BY <3>1, <3>2, <3>3, Zenon DEF Shape
  <2>4. PopsArePushed'
    BY <1>4, <1>3, <1>5, <2>1, <2>2 DEF PopsArePushed
  <2>5. ASSUME ~erred' PROVE InStep'
    <3>1. InStep
      BY <1>1, <1>5, <2>5 DEF StackInv, Succeeds
    <3>2. Len(canMethod') = Classes' + 1 /\ Len(canNamespace') = Classes' + 1 /\ paths' = Len(open') + 1
      BY <1>4, <1>3, <1>5, <2>1, <2>2, <3>1 DEF InStep
    <3>3. \A i \in 1..Len(canMethod') : canMethod'[i] <=> i # 1
      <4>1. SUFFICES ASSUME NEW i \in 1..Len(canMethod') PROVE canMethod'[i] <=> i # 1
        OBVIOUS
      <4>2. CASE i = Len(canMethod) + 1
        <5>1. canMethod'[i] = TRUE
          BY <1>2, <4>2, Zenon
        <5>2. i # 1
          BY <1>3, <4>2
        <5> QED
          BY <5>1, <5>2, Zenon
      <4>3. CASE i # Len(canMethod) + 1
        <5>1. i \in 1..Len(canMethod)
          BY <1>4, <1>3, <4>3
        <5> QED
          BY <1>2, <3>1, <5>1, Zenon DEF InStep
      <4> QED
        BY <4>2, <4>3
    <3>4. \A i \in 1..Len(canNamespace') : canNamespace'[i] <=> i = 1
      <4>1. SUFFICES ASSUME NEW i \in 1..Len(canNamespace') PROVE canNamespace'[i] <=> i = 1
        OBVIOUS
      <4>2. CASE i = Len(canNamespace) + 1
        <5>1. canNamespace'[i] = FALSE
          BY <1>2, <4>2, Zenon
        <5>2. i # 1
          BY <1>3, <4>2
        <5> QED
          BY <5>1, <5>2, Zenon
      <4>3. CASE i # Len(canNamespace) + 1
        <5>1. i \in 1..Len(canNamespace)
          BY <1>4, <1>3, <4>3
        <5> QED
          BY <1>2, <3>1, <5>1, Zenon DEF InStep
      <4> QED
        BY <4>2, <4>3
    <3>5. ASSUME NEW i \in 1..Len(open'), NEW j \in 1..Len(open'), i < j, open'[i] = "class"
          PROVE  open'[j] = "class"
      <4>1. CASE j = Len(open) + 1
        BY <2>1, <4>1
      <4>2. CASE j # Len(open) + 1
        <5>1. i \in 1..Len(open) /\ j \in 1..Len(open)
          BY <1>3, <2>1, <3>5, <4>2
        <5> QED
          BY <2>1, <3>1, <3>5, <5>1 DEF InStep
      <4> QED
        BY <4>1, <4>2
    <3> QED
      BY <3>2, <3>3, <3>4, <3>5 DEF InStep
  <2> QED
    BY <1>1, <2>3, <2>4, <2>5 DEF StackInv
<1>6. CASE Fails /\ open' = open /\ paths' \in {paths, paths + 1}
  <2>1. Classes' = Classes
    BY <1>6, CountIs
  <2>2. Shape'
    <3>1. erred' \in BOOLEAN
      BY <1>1, <1>6 DEF Shape, Fails
    <3>2. paths' \in Nat
      BY <1>3, <1>6
    <3> QED
      BY <1>1, <1>2, <1>6, <3>1, <3>2 DEF Shape
  <2>3. PopsArePushed'
    BY <1>2, <1>3, <1>6, <2>1 DEF PopsArePushed
  <2>4. erred' \/ status' \notin {"parsing", "done"}
    BY <1>1, <1>6 DEF Fails
  <2> QED
    BY <1>1, <2>2, <2>3, <2>4 DEF StackInv
<1> QED
  BY <1>5, <1>6 DEF Class

LEMMA NamespaceKeeps ==
  ASSUME StackInv, Namespace
  PROVE  StackInv'
<1>1. /\ status = "parsing" /\ Shape /\ PopsArePushed /\ status' # "done" /\ Peek(canNamespace)
      /\ canMethod' = canMethod /\ canNamespace' = canNamespace
  BY DEF StackInv, Namespace
<1>2. /\ Classes \in Nat /\ Len(open) \in Nat /\ paths \in Nat
      /\ Len(canMethod) > Classes /\ Len(canNamespace) > Classes /\ paths > Len(open)
  BY <1>1, CountIs, ClassSetIs, LenProperties DEF Shape, PopsArePushed
<1>3. CASE Succeeds /\ open' = Push(open, "namespace") /\ paths' = paths + 1
  <2>1. /\ open' \in Seq(Kinds) /\ Len(open') = Len(open) + 1 /\ open'[Len(open) + 1] = "namespace"
        /\ \A i \in 1..Len(open) : open'[i] = open[i]
    <3>1. open \in Seq(Kinds) /\ "namespace" \in Kinds
      BY <1>1 DEF Shape, Kinds
    <3> QED
      BY <1>3, <3>1, PushKind DEF Push
  <2>2. Classes' = Classes
    <3>1. open \in Seq(Kinds) /\ "namespace" \in Kinds
      BY <1>1 DEF Shape, Kinds
    <3>2. Cardinality(ClassSet(Push(open, "namespace"))) = Cardinality(ClassSet(open))
      BY <3>1, PushCounts
    <3>3. Classes = Cardinality(ClassSet(open)) /\ Classes' = Cardinality(ClassSet(open'))
      BY CountIs
    <3> QED
      BY <1>3, <3>2, <3>3, Zenon
  <2>3. Shape'
    <3>1. erred' \in BOOLEAN
      BY <1>1, <1>3, Zenon DEF Shape, Succeeds
    <3>2. paths' \in Nat
      BY <1>2, <1>3
    <3> QED
      BY <1>1, <2>1, <3>1, <3>2, Zenon DEF Shape
  <2>4. PopsArePushed'
    BY <1>1, <1>2, <1>3, <2>1, <2>2 DEF PopsArePushed
  <2>5. ASSUME ~erred' PROVE InStep'
    <3>1. InStep
      BY <1>1, <1>3, <2>5 DEF StackInv, Succeeds
    <3>2. \A i \in 1..Len(open) : open[i] # "class"
      BY <1>1, <3>1, Peeks, CountIs, ClassSetIs DEF Shape
    <3>3. \A i \in 1..Len(open') : open'[i] # "class"
      <4>1. SUFFICES ASSUME NEW i \in 1..Len(open') PROVE open'[i] # "class"
        OBVIOUS
      <4>2. i = Len(open) + 1 \/ i \in 1..Len(open)
        BY <1>2, <2>1
      <4> QED
        BY <2>1, <3>2, <4>2
    <3> QED
      BY <1>1, <1>2, <1>3, <2>1, <2>2, <3>1, <3>3 DEF InStep
  <2> QED
    BY <1>1, <2>3, <2>4, <2>5 DEF StackInv
<1>4. CASE Fails /\ open' = open /\ paths' \in {paths, paths + 1}
  <2>1. Classes' = Classes
    BY <1>4, CountIs
  <2>2. Shape'
    <3>1. erred' \in BOOLEAN
      BY <1>1, <1>4 DEF Shape, Fails
    <3>2. paths' \in Nat
      BY <1>2, <1>4
    <3> QED
      BY <1>1, <1>4, <3>1, <3>2 DEF Shape
  <2>3. PopsArePushed'
    BY <1>1, <1>2, <1>4, <2>1 DEF PopsArePushed
  <2>4. erred' \/ status' \notin {"parsing", "done"}
    BY <1>1, <1>4 DEF Fails
  <2> QED
    BY <1>1, <2>2, <2>3, <2>4 DEF StackInv
<1> QED
  BY <1>3, <1>4 DEF Namespace

LEMMA OtherKeeps ==
  ASSUME StackInv, Other
  PROVE  StackInv'
<1>1. /\ status = "parsing" /\ Shape /\ PopsArePushed /\ status' # "done"
      /\ open' = open /\ canNamespace' = canNamespace /\ paths' = paths
  BY DEF StackInv, Other
<1>2. Classes' = Classes /\ Classes \in Nat /\ Len(canMethod) \in Nat /\ Len(canMethod) > Classes
  BY <1>1, CountIs, ClassSetIs, LenProperties DEF Shape, PopsArePushed
<1>3. erred' \in BOOLEAN
  BY <1>1 DEF Other, Succeeds, Fails, Shape
<1>4. CASE canMethod' = canMethod
  <2>1. Shape' /\ PopsArePushed'
    BY <1>1, <1>2, <1>3, <1>4 DEF Shape, PopsArePushed
  <2>2. ASSUME ~erred', status' \in {"parsing", "done"} PROVE InStep'
    <3>1. ~erred
      BY <1>1, <2>2 DEF Other, Succeeds, Fails, Shape
    <3>2. InStep
      BY <1>1, <3>1 DEF StackInv
    <3> QED
      BY <1>1, <1>2, <1>4, <3>2 DEF InStep
  <2> QED
    BY <1>1, <2>1, <2>2 DEF StackInv
<1>5. CASE Fails /\ canMethod' = Push(canMethod, FALSE)
  <2>1. canMethod' \in Seq(BOOLEAN) /\ Len(canMethod') = Len(canMethod) + 1
    BY <1>1, <1>5, PushIs DEF Shape
  <2>2. Shape' /\ PopsArePushed'
    BY <1>1, <1>2, <1>3, <2>1 DEF Shape, PopsArePushed
  <2>3. erred' \/ status' \notin {"parsing", "done"}
    BY <1>1, <1>5 DEF Fails
  <2> QED
    BY <1>1, <2>2, <2>3 DEF StackInv
<1> QED
  BY <1>4, <1>5 DEF Other

LEMMA CloseBlockKeeps ==
  ASSUME StackInv, CloseBlock
  PROVE  StackInv'
<1>1. /\ status = "parsing" /\ Shape /\ PopsArePushed /\ open # <<>>
      /\ open' = Pop(open) /\ paths' = paths - 1 /\ erred' = erred /\ status' = status
  BY DEF StackInv, CloseBlock
<1>2. /\ Classes \in Nat /\ Len(open) \in Nat /\ Len(open) > 0 /\ paths \in Nat
      /\ Len(canMethod) \in Nat /\ Len(canNamespace) \in Nat
      /\ Len(canMethod) > Classes /\ Len(canNamespace) > Classes /\ paths > Len(open)
  BY <1>1, CountIs, ClassSetIs, LenProperties, EmptySeq DEF Shape, PopsArePushed
<1>3. /\ open' \in Seq(Kinds) /\ Len(open') = Len(open) - 1
      /\ \A i \in 1..Len(open) - 1 : open'[i] = open[i]
  BY <1>1, <1>2, PopIs DEF Shape
<1>4. Classes' \in Nat /\ Classes = IF Peek(open) = "class" THEN Classes' + 1 ELSE Classes'
  BY <1>1, <1>2, <1>3, CountIs, ClassSetIs, PopCounts DEF Shape
<1>5. ASSUME InStep
      PROVE  \A i, j \in 1..Len(open') : i < j /\ open'[i] = "class" => open'[j] = "class"
  <2>1. 1..Len(open') \subseteq 1..Len(open) /\ 1..Len(open') = 1..Len(open) - 1
    BY <1>2, <1>3
  <2> QED
    BY <1>3, <1>5, <2>1 DEF InStep
<1>6. CASE Peek(open) = "class"
  <2>1. canMethod' = Pop(canMethod) /\ canNamespace' = Pop(canNamespace)
    BY <1>6 DEF CloseBlock
  <2>2. /\ canMethod' \in Seq(BOOLEAN) /\ Len(canMethod') = Len(canMethod) - 1
        /\ \A i \in 1..Len(canMethod) - 1 : canMethod'[i] = canMethod[i]
    BY <1>1, <1>2, <2>1, PopIs DEF Shape
  <2>3. /\ canNamespace' \in Seq(BOOLEAN) /\ Len(canNamespace') = Len(canNamespace) - 1
        /\ \A i \in 1..Len(canNamespace) - 1 : canNamespace'[i] = canNamespace[i]
    BY <1>1, <1>2, <2>1, PopIs DEF Shape
  <2>4. Shape'
    BY <1>1, <1>2, <1>3, <2>2, <2>3 DEF Shape
  <2>5. PopsArePushed'
    BY <1>1, <1>2, <1>3, <1>4, <1>6, <2>2, <2>3 DEF PopsArePushed
  <2>6. ASSUME InStep PROVE InStep'
    <3>1. Len(canMethod') = Classes' + 1 /\ Len(canNamespace') = Classes' + 1 /\ paths' = Len(open') + 1
      BY <1>1, <1>2, <1>3, <1>4, <1>6, <2>2, <2>3, <2>6 DEF InStep
    <3>2. /\ \A i \in 1..Len(canMethod') : i \in 1..Len(canMethod) /\ i \in 1..Len(canMethod) - 1
          /\ \A i \in 1..Len(canNamespace') : i \in 1..Len(canNamespace) /\ i \in 1..Len(canNamespace) - 1
      BY <1>2, <2>2, <2>3
    <3>3. \A i \in 1..Len(canMethod') : canMethod'[i] <=> i # 1
      BY <2>2, <2>6, <3>2 DEF InStep
    <3>4. \A i \in 1..Len(canNamespace') : canNamespace'[i] <=> i = 1
      BY <2>3, <2>6, <3>2 DEF InStep
    <3> QED
      BY <1>5, <2>6, <3>1, <3>3, <3>4 DEF InStep
  <2> QED
    BY <1>1, <2>4, <2>5, <2>6 DEF StackInv
<1>7. CASE Peek(open) # "class"
  <2>1. canMethod' = canMethod /\ canNamespace' = canNamespace
    BY <1>7 DEF CloseBlock
  <2>2. Shape'
    BY <1>1, <1>2, <1>3, <2>1 DEF Shape
  <2>3. PopsArePushed'
    BY <1>1, <1>2, <1>3, <1>4, <1>7, <2>1 DEF PopsArePushed
  <2>4. ASSUME InStep PROVE InStep'
    <3>1. Classes' = Classes /\ paths' = Len(open') + 1
      BY <1>1, <1>2, <1>3, <1>4, <1>7, <2>4 DEF InStep
    <3> QED
      BY <1>5, <2>1, <2>4, <3>1 DEF InStep
  <2> QED
    BY <1>1, <2>2, <2>3, <2>4 DEF StackInv
<1> QED
  BY <1>6, <1>7

LEMMA NextStackInv == StackInv /\ [Next]_vars => StackInv'
<1> SUFFICES ASSUME StackInv, [Next]_vars PROVE StackInv'
  OBVIOUS
<1>1. CASE Class
  BY <1>1, ClassKeeps
<1>2. CASE Namespace
  BY <1>2, NamespaceKeeps
<1>3. CASE Other
  BY <1>3, OtherKeeps
<1>4. CASE CloseBlock
  BY <1>4, CloseBlockKeeps
<1>5. CASE Finish \/ UNCHANGED vars
  <2>1. UNCHANGED <<open, canMethod, canNamespace, paths, erred>>
    BY <1>5 DEF Finish, vars
  <2>2. Classes' = Classes
    BY <2>1, CountIs
  <2>3. Shape' /\ PopsArePushed' /\ (InStep => InStep')
    BY <2>1, <2>2 DEF StackInv, Shape, PopsArePushed, InStep
  <2>4. status' \in {"parsing", "done"} => status \in {"parsing", "done"}
    BY <1>5 DEF Finish, vars
  <2>5. status' = "done" => open' = <<>>
    BY <1>5, <2>1 DEF Finish, vars, StackInv
  <2> QED
    BY <2>1, <2>3, <2>4, <2>5 DEF StackInv
<1> QED
  BY <1>1, <1>2, <1>3, <1>4, <1>5 DEF Next

-----------------------------------------------------------------------------

\* No Pop of ParserFilter meets an empty stack, and none empties it, however
\* many objects ended in an exception that left their flags behind.
THEOREM PopsFindTheirs == Spec => []PopsArePushed
<1>1. StackInv => PopsArePushed
  BY DEF StackInv
<1> QED
  BY <1>1, InitStackInv, NextStackInv, PTL DEF Spec

\* Up to the first error, canMethod holds in classes and only there, canNamespace
\* outside of them, and Path names what is open.
THEOREM FlagsFollowNesting == Spec => []FilterFollowsNesting
<1>1. StackInv => FilterFollowsNesting
  <2> SUFFICES ASSUME StackInv, ~erred, status = "parsing"
               PROVE  /\ Peek(canMethod) <=> open # <<>> /\ Peek(open) = "class"
                      /\ Peek(canNamespace) <=> Classes = 0
                      /\ paths = Len(open) + 1
    BY DEF FilterFollowsNesting
  <2>1. Shape /\ InStep
    BY DEF StackInv
  <2>2. Len(open) > 0 <=> open # <<>>
    BY <2>1, LenProperties, EmptySeq DEF Shape
  <2>3. paths = Len(open) + 1
    BY <2>1 DEF InStep
  <2> QED
    BY <2>1, <2>2, <2>3, Peeks
<1> QED
  BY <1>1, InitStackInv, NextStackInv, PTL DEF Spec

\* A file without an error leaves the stacks as the constructor made them.
THEOREM FilesLeaveNothing == Spec => []StacksEmptied
<1>1. StackInv => StacksEmptied
  <2> SUFFICES ASSUME StackInv, status = "done", ~erred
               PROVE  open = <<>> /\ canMethod = <<FALSE>> /\ canNamespace = <<TRUE>> /\ paths = 1
    BY DEF StacksEmptied
  <2>1. Shape /\ InStep /\ open = <<>> /\ Len(open) = 0
    BY DEF StackInv
  <2>2. Classes = 0
    <3>1. \A i \in 1..Len(open) : open[i] # "class"
      BY <2>1
    <3> QED
      BY <2>1, <3>1, CountIs, ClassSetIs DEF Shape
  <2>3. Len(canMethod) = 1 /\ Len(canNamespace) = 1 /\ paths = 1
    BY <2>1, <2>2 DEF InStep
  <2>4. canMethod[1] = FALSE /\ canNamespace[1] = TRUE
    <3>1. 1 \in 1..Len(canMethod) /\ 1 \in 1..Len(canNamespace)
      BY <2>3
    <3>2. canMethod[1] \in BOOLEAN /\ canNamespace[1] \in BOOLEAN
      BY <2>1, <3>1, ElementOfSeq DEF Shape
    <3>3. ~canMethod[1] /\ canNamespace[1]
      BY <2>1, <3>1 DEF InStep
    <3> QED
      BY <3>2, <3>3
  <2>5. canMethod = <<canMethod[1]>> /\ canNamespace = <<canNamespace[1]>>
    BY <2>1, <2>3 DEF Shape
  <2> QED
    BY <2>1, <2>3, <2>4, <2>5
<1> QED
  BY <1>1, InitStackInv, NextStackInv, PTL DEF Spec
=============================================================================
