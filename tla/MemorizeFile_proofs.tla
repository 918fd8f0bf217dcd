------------------------- MODULE MemorizeFile_proofs -------------------------
(***************************************************************************)
(* Theorems about MemorizeFile, proved for objects of any types, texts of  *)
(* any lines, and any number of objects, saves and crashes.                *)
(***************************************************************************)
EXTENDS MemorizeFile, SequenceTheorems, WellFoundedInduction, TLAPS

-----------------------------------------------------------------------------
(* Texts *)

\* A set of natural numbers has a least one.
LEMMA Least ==
  ASSUME NEW S, S \subseteq Nat, S # {}
  PROVE  \E x \in S : \A y \in S : x <= y
<1>1. PICK x \in S : \A y \in S : ~(<<y, x>> \in OpToRel(<, Nat))
  BY NatLessThanWellFounded, WFMin
<1>2. \A y \in S : ~(y < x)
  BY <1>1 DEF OpToRel
<1> QED
  BY <1>2

\* What Trimmed leaves of a text whose first line that is not blank is line m ...
LEMMA TrimmedFrom ==
  ASSUME NEW S, NEW t \in Seq(S), NEW m \in DOMAIN t, t[m] # Blank,
         \A j \in 1..m - 1 : t[j] = Blank
  PROVE  Trimmed(t) = SubSeq(t, m, Len(t))
<1> DEFINE full == {k \in DOMAIN t : t[k] # Blank}
<1>1. DOMAIN t = 1..Len(t) /\ Len(t) \in Nat
  BY LenProperties
<1>2. m \in full
  OBVIOUS
<1>3. \A j \in full : m <= j
  BY <1>1
<1>4. (CHOOSE k \in full : \A j \in full : k <= j) = m
  BY <1>1, <1>2, <1>3
<1> QED
  BY <1>2, <1>4 DEF Trimmed

\* ... and of one that has only blank lines, or none.
LEMMA TrimmedBlank ==
  ASSUME NEW S, NEW t \in Seq(S), \A j \in DOMAIN t : t[j] = Blank
  PROVE  Trimmed(t) = <<Blank>>
  BY DEF Trimmed

\* A text is of one kind or of the other.
LEMMA FirstFull ==
  ASSUME NEW S, NEW t \in Seq(S)
  PROVE  \/ \A j \in DOMAIN t : t[j] = Blank
         \/ \E m \in DOMAIN t : t[m] # Blank /\ \A j \in 1..m - 1 : t[j] = Blank
<1>1. DOMAIN t = 1..Len(t) /\ Len(t) \in Nat
  BY LenProperties
<1>2. PICK full : full = {k \in DOMAIN t : t[k] # Blank}
  OBVIOUS
<1>3. CASE full # {}
  <2>1. full \subseteq Nat
    BY <1>1, <1>2
  <2>2. PICK m \in full : \A j \in full : m <= j
    BY <1>3, <2>1, Least
  <2>3. m \in DOMAIN t /\ t[m] # Blank
    BY <1>2
  <2>4. \A j \in 1..m - 1 : t[j] = Blank
    BY <1>1, <1>2, <2>2, <2>3
  <2> QED
    BY <2>3, <2>4
<1> QED
  BY <1>2, <1>3

\* A trimmed text is a text, and has nothing left to trim.
LEMMA TrimmedProperties ==
  ASSUME NEW S, Blank \in S, NEW t \in Seq(S)
  PROVE  /\ Trimmed(t) \in Seq(S) /\ Trimmed(Trimmed(t)) = Trimmed(t)
         /\ Len(Trimmed(t)) >= 1 /\ (Len(t) >= 1 => Len(Trimmed(t)) <= Len(t))
<1>1. DOMAIN t = 1..Len(t) /\ Len(t) \in Nat
  BY LenProperties
<1>2. CASE \A j \in DOMAIN t : t[j] = Blank
  <2>1. Trimmed(t) = <<Blank>>
    BY <1>2, TrimmedBlank
  <2>2. <<Blank>> \in Seq(S) /\ Len(<<Blank>>) = 1 /\ \A j \in DOMAIN <<Blank>> : <<Blank>>[j] = Blank
    OBVIOUS
  <2>3. Trimmed(<<Blank>>) = <<Blank>>
    BY <2>2, TrimmedBlank
  <2> QED
    BY <1>1, <2>1, <2>2, <2>3
<1>3. CASE \E m \in DOMAIN t : t[m] # Blank /\ \A j \in 1..m - 1 : t[j] = Blank
  <2>1. PICK m \in DOMAIN t : t[m] # Blank /\ \A j \in 1..m - 1 : t[j] = Blank
    BY <1>3
  <2>2. PICK u : u = SubSeq(t, m, Len(t))
    OBVIOUS
  <2>3. Trimmed(t) = u
    BY <2>1, <2>2, TrimmedFrom
  <2>4. u \in Seq(S) /\ Len(u) = Len(t) - m + 1 /\ u[1] = t[m]
    BY <1>1, <2>1, <2>2, SubSeqProperties
  <2>5. DOMAIN u = 1..Len(u) /\ Len(u) \in Nat
    BY <2>4, LenProperties
  <2>6. Trimmed(u) = SubSeq(u, 1, Len(u))
    <3>1. 1 \in DOMAIN u /\ u[1] # Blank /\ \A j \in 1..1 - 1 : u[j] = Blank
      BY <1>1, <2>1, <2>4, <2>5
    <3> QED
      BY <2>4, <3>1, TrimmedFrom
  <2>7. SubSeq(u, 1, Len(u)) = u
    BY <2>4
  <2> QED
    BY <1>1, <2>3, <2>4, <2>5, <2>6, <2>7
<1> QED
  BY <1>2, <1>3, FirstFull

\* AddLine keeps what it builds trimmed.
LEMMA AddLineTrims ==
  ASSUME NEW S, Blank \in S, NEW t \in Seq(S), NEW line \in S
  PROVE  AddLine(Trimmed(t), line) = Trimmed(Append(t, line))
<1>1. DOMAIN t = 1..Len(t) /\ Len(t) \in Nat
  BY LenProperties
<1>2. PICK u : u = Append(t, line)
  OBVIOUS
<1>3. /\ u \in Seq(S) /\ Len(u) = Len(t) + 1 /\ DOMAIN u = 1..Len(t) + 1
      /\ u[Len(t) + 1] = line /\ \A j \in 1..Len(t) : u[j] = t[j]
  BY <1>1, <1>2, AppendProperties
<1>4. CASE \A j \in DOMAIN t : t[j] = Blank
  <2>blank. Trimmed(t) = <<Blank>>
    BY <1>4, TrimmedBlank
  <2>1. AddLine(Trimmed(t), line) = <<line>>
    BY <2>blank DEF AddLine
  <2>2. CASE line = Blank
    <3>1. \A j \in DOMAIN u : u[j] = Blank
      BY <1>1, <1>3, <1>4, <2>2
    <3>2. Trimmed(u) = <<Blank>>
      BY <1>3, <3>1, TrimmedBlank
    <3> QED
      BY <1>2, <2>1, <2>2, <3>2
  <2>3. CASE line # Blank
    <3>1. PICK m : m = Len(t) + 1
      OBVIOUS
    <3>2. m \in DOMAIN u /\ u[m] = line /\ Len(u) = m /\ m \in Nat /\ \A j \in 1..m - 1 : u[j] = Blank
      BY <1>1, <1>3, <1>4, <3>1
    <3>3. Trimmed(u) = SubSeq(u, m, m)
      BY <1>3, <2>3, <3>2, TrimmedFrom
    <3>4. PICK w : w = SubSeq(u, m, m)
      OBVIOUS
    <3>5. w \in Seq(S) /\ Len(w) = 1 /\ w[1] = line
      BY <3>2, <3>4, SubSeqProperties
    <3>6. w = <<line>>
      BY <3>5
    <3> QED
      BY <1>2, <2>1, <3>3, <3>4, <3>6
  <2> QED
    BY <2>2, <2>3
<1>5. CASE \E m \in DOMAIN t : t[m] # Blank /\ \A j \in 1..m - 1 : t[j] = Blank
  <2>1. PICK m \in DOMAIN t : t[m] # Blank /\ \A j \in 1..m - 1 : t[j] = Blank
    BY <1>5
  <2>2. PICK v : v = SubSeq(t, m, Len(t))
    OBVIOUS
  <2>3. v \in Seq(S) /\ Len(v) = Len(t) - m + 1 /\ \A j \in 1..Len(t) - m + 1 : v[j] = t[m + j - 1]
    BY <1>1, <2>1, <2>2, SubSeqProperties
  <2>4. Trimmed(t) = v /\ v # <<Blank>>
    <3>1. v[1] = t[m]
      BY <1>1, <2>1, <2>3
    <3>2. v # <<Blank>>
      BY <2>1, <3>1
    <3>3. Trimmed(t) = SubSeq(t, m, Len(t))
      BY <2>1, TrimmedFrom
    <3> QED
      BY <2>2, <3>2, <3>3
  <2>5. AddLine(Trimmed(t), line) = Append(v, line)
    BY <2>4 DEF AddLine
  <2>6. Trimmed(u) = SubSeq(u, m, Len(u))
    <3>1. m \in DOMAIN u /\ u[m] # Blank /\ \A j \in 1..m - 1 : u[j] = Blank
      BY <1>1, <1>3, <2>1
    <3> QED
      BY <1>3, <3>1, TrimmedFrom
  <2>7. PICK w : w = SubSeq(u, m, Len(u))
    OBVIOUS
  <2>8. PICK x : x = Append(v, line)
    OBVIOUS
  <2>9. w \in Seq(S) /\ Len(w) = Len(t) - m + 2 /\ \A j \in 1..Len(t) - m + 2 : w[j] = u[m + j - 1]
    BY <1>1, <1>3, <2>1, <2>7, SubSeqProperties
  <2>10. /\ x \in Seq(S) /\ Len(x) = Len(t) - m + 2 /\ x[Len(t) - m + 2] = line
         /\ \A j \in 1..Len(t) - m + 1 : x[j] = v[j]
    BY <1>1, <2>1, <2>3, <2>8, AppendProperties
  <2>11. ASSUME NEW j \in 1..Len(w) PROVE w[j] = x[j]
    <3>1. CASE j = Len(t) - m + 2
      <4>1. m + j - 1 = Len(t) + 1 /\ j \in 1..Len(t) - m + 2
        BY <1>1, <2>1, <3>1
      <4>2. w[j] = u[Len(t) + 1]
        BY <2>9, <4>1
      <4> QED
        BY <1>3, <2>10, <3>1, <4>2
    <3>2. CASE j # Len(t) - m + 2
      <4>1. j \in 1..Len(t) - m + 1 /\ m + j - 1 \in 1..Len(t)
        BY <1>1, <2>1, <2>9, <3>2
      <4> QED
        BY <1>3, <2>3, <2>9, <2>10, <4>1
    <3> QED
      BY <3>1, <3>2
  <2>12. w = x
    BY <2>9, <2>10, <2>11, SeqEqual
  <2> QED
    BY <1>2, <2>5, <2>6, <2>7, <2>8, <2>12
<1> QED
  BY <1>4, <1>5, FirstFull

\* The lines that ReadLine gives from p on, n of them.
LinesFrom(p, n) == [k \in 1..n |-> LineAt(p + k - 1)]

\* The reader's loop trims what it reads.
LEMMA ReadTextTrims ==
  ASSUME NEW S, Blank \in S, disk \in Seq(S), NEW p \in Nat \ {0}, NEW n \in Nat
  PROVE  ReadText(p, n) = Trimmed(LinesFrom(p, n))
<1> DEFINE Def(f) == [k \in 0..n |-> IF k = 0 THEN <<Blank>> ELSE AddLine(f[k - 1], LineAt(p + k - 1))]
           text == CHOOSE f : f = Def(f)
           good == [k \in 0..n |-> Trimmed(LinesFrom(p, k))]
<1>1. \A k \in 1..n : LineAt(p + k - 1) \in S
  <2>1. DOMAIN disk = 1..Len(disk) /\ Len(disk) \in Nat /\ \A i \in 1..Len(disk) : disk[i] \in S
    BY LenProperties, ElementOfSeq
  <2> QED
    BY <2>1 DEF LineAt
<1>2. \A k \in 0..n : LinesFrom(p, k) \in Seq(S) /\ Len(LinesFrom(p, k)) = k
  <2> SUFFICES ASSUME NEW k \in 0..n
               PROVE  LinesFrom(p, k) \in Seq(S) /\ Len(LinesFrom(p, k)) = k
    OBVIOUS
  <2>1. LinesFrom(p, k) \in [1..k -> S]
    BY <1>1 DEF LinesFrom
  <2> QED
    BY <2>1
<1>3. Trimmed(LinesFrom(p, 0)) = <<Blank>>
  <2>1. \A j \in DOMAIN LinesFrom(p, 0) : LinesFrom(p, 0)[j] = Blank
    BY DEF LinesFrom
  <2> QED
    BY <1>2, <2>1, TrimmedBlank
<1>4. ASSUME NEW k \in 1..n
      PROVE  AddLine(Trimmed(LinesFrom(p, k - 1)), LineAt(p + k - 1)) = Trimmed(LinesFrom(p, k))
  <2>1. k - 1 \in 0..n /\ k \in 0..n
    OBVIOUS
  <2>2. PICK s : s = LinesFrom(p, k - 1)
    OBVIOUS
  <2>3. PICK line : line = LineAt(p + k - 1)
    OBVIOUS
  <2>4. s \in Seq(S) /\ Len(s) = k - 1 /\ line \in S
    BY <1>1, <1>2, <2>1, <2>2, <2>3
  <2>5. Append(s, line) = LinesFrom(p, k)
    <3>1. PICK u : u = LinesFrom(p, k)
      OBVIOUS
    <3>2. PICK v : v = Append(s, line)
      OBVIOUS
    <3>3. u \in Seq(S) /\ Len(u) = k
      BY <1>2, <2>1, <3>1
    <3>4. v \in Seq(S) /\ Len(v) = k /\ v[k] = line /\ \A j \in 1..k - 1 : v[j] = s[j]
      BY <2>4, <3>2, AppendProperties
    <3>5. \A j \in 1..k : u[j] = LineAt(p + j - 1)
      BY <3>1 DEF LinesFrom
    <3>6. \A j \in 1..k - 1 : s[j] = LineAt(p + j - 1)
      BY <2>2 DEF LinesFrom
    <3>7. \A j \in 1..k : u[j] = v[j]
      BY <2>3, <3>4, <3>5, <3>6
    <3>8. u = v
      BY <3>3, <3>4, <3>7, SeqEqual
    <3> QED
      BY <3>1, <3>2, <3>8
  <2> QED
    BY <2>2, <2>3, <2>4, <2>5, AddLineTrims
<1>5. good = Def(good)
  <2>1. ASSUME NEW k \in 0..n
        PROVE  good[k] = IF k = 0 THEN <<Blank>> ELSE AddLine(good[k - 1], LineAt(p + k - 1))
    BY <1>3, <1>4
  <2> QED
    BY <2>1
<1>6. text = Def(text)
  BY <1>5
<1> HIDE DEF text
<1>values. \A k \in 0..n : good[k] = Trimmed(LinesFrom(p, k))
  OBVIOUS
<1> HIDE DEF good
<1>7. PICK bad : bad = {k \in 0..n : text[k] # good[k]}
  OBVIOUS
<1>8. bad = {}
  <2>some. SUFFICES ASSUME bad # {} PROVE FALSE
    OBVIOUS
  <2>nats. bad \subseteq Nat
    BY <1>7
  <2>least. PICK k \in bad : \A j \in bad : k <= j
    BY <2>some, <2>nats, Least
  <2>1. k \in 0..n /\ text[k] # good[k] /\ \A j \in 0..n : text[j] # good[j] => k <= j
    BY <1>7, <2>least
  <2>2. text[k] = IF k = 0 THEN <<Blank>> ELSE AddLine(text[k - 1], LineAt(p + k - 1))
    BY <1>6, <2>1
  <2>3. CASE k = 0
    BY <1>3, <1>values, <2>1, <2>2, <2>3
  <2>4. CASE k # 0
    <3>1. k - 1 \in 0..n /\ k \in 1..n /\ text[k - 1] = good[k - 1]
      BY <2>1, <2>4
    <3> QED
      BY <1>4, <1>values, <2>1, <2>2, <2>4, <3>1
  <2> QED
    BY <2>3, <2>4
<1>9. ReadText(p, n) = text[n]
  BY DEF ReadText, text
<1>10. text[n] = Trimmed(LinesFrom(p, n))
  <2>1. n \in 0..n
    OBVIOUS
  <2> QED
    BY <1>7, <1>8, <1>values, <2>1
<1> QED
  BY <1>9, <1>10

-----------------------------------------------------------------------------
(* Remainders *)

LEMMA DivMod ==
  ASSUME NEW x \in Nat, NEW l \in Nat \ {0}
  PROVE  x = l * (x \div l) + (x % l) /\ x % l \in 0..l - 1 /\ x \div l \in Nat
  OBVIOUS

LEMMA SameRemainder ==
  ASSUME NEW l \in Nat \ {0}, NEW q \in Nat, NEW p \in Nat, NEW r \in 0..l - 1, NEW s \in 0..l - 1, l * q + r = l * p + s
  PROVE  r = s
<1>1. CASE q = p
  BY <1>1
<1>2. CASE q < p
  <2>1. PICK d \in Nat \ {0} : p = q + d
    <3>1. p - q \in Nat \ {0} /\ p = q + (p - q)
      BY <1>2
    <3> QED
      BY <3>1
  <2>2. l * p = l * q + l * d
    BY <2>1
  <2>3. l * d >= l
    BY <2>1
  <2> QED
    BY <2>2, <2>3
<1>3. CASE p < q
  <2>1. PICK d \in Nat \ {0} : q = p + d
    <3>1. q - p \in Nat \ {0} /\ q = p + (q - p)
      BY <1>3
    <3> QED
      BY <3>1
  <2>2. l * q = l * p + l * d
    BY <2>1
  <2>3. l * d >= l
    BY <2>1
  <2> QED
    BY <2>2, <2>3
<1> QED
  BY <1>1, <1>2, <1>3

LEMMA Remainder ==
  ASSUME NEW x \in Nat, NEW l \in Nat \ {0}, NEW p \in Nat, NEW r \in 0..l - 1, x = l * p + r
  PROVE  x % l = r
<1>1. PICK q, t : q = x \div l /\ t = x % l
  OBVIOUS
<1>2. q \in Nat /\ t \in 0..l - 1 /\ x = l * q + t
  BY <1>1, DivMod
<1>3. l * q + t = l * p + r
  BY <1>2
<1>4. t = r
  BY <1>2, <1>3, SameRemainder
<1> QED
  BY <1>1, <1>4

LEMMA NextRemainder ==
  ASSUME NEW x \in Nat, NEW l \in Nat \ {0}
  PROVE  (x + 1) % l = IF x % l = l - 1 THEN 0 ELSE (x % l) + 1
<1>1. PICK q, r : q = x \div l /\ r = x % l
  OBVIOUS
<1>2. q \in Nat /\ r \in 0..l - 1 /\ x = l * q + r
  BY <1>1, DivMod
<1>3. CASE r = l - 1
  <2>1. x + 1 = l * (q + 1) + 0 /\ q + 1 \in Nat /\ 0 \in 0..l - 1 /\ x + 1 \in Nat
    BY <1>2, <1>3
  <2>2. (x + 1) % l = 0
    BY <2>1, Remainder
  <2> QED
    BY <1>1, <1>3, <2>2
<1>4. CASE r # l - 1
  <2>1. x + 1 = l * q + (r + 1) /\ r + 1 \in 0..l - 1 /\ x + 1 \in Nat
    BY <1>2, <1>4
  <2>2. (x + 1) % l = r + 1
    BY <1>2, <2>1, Remainder
  <2> QED
    BY <1>1, <1>4, <2>2
<1> QED
  BY <1>3, <1>4

LEMMA MultipleRemainder ==
  ASSUME NEW n \in Nat, NEW l \in Nat \ {0}
  PROVE  (n * l) % l = 0
<1>1. n * l = l * n + 0 /\ n * l \in Nat /\ 0 \in 0..l - 1
  OBVIOUS
<1> QED
  BY <1>1, Remainder

-----------------------------------------------------------------------------
(* Properties and their lines *)

AllLines == Lines \cup {Decimal[n] : n \in DOMAIN Decimal} \cup {"T", "F"}

\* The lines of property i of a list of objects.
Rows(i, v) == LinesOf(TypeOf(i), v)

\* The place of property i in its object.
Place(i) == ((i - 1) % Len(Types)) + 1

LEMMA Places ==
  ASSUME NEW i \in Nat \ {0}
  PROVE  /\ Len(Types) \in Nat \ {0} /\ Place(i) \in 1..Len(Types)
         /\ TypeOf(i) = Types[Place(i)] /\ TypeOf(i) \in {"string", "int", "bool"}
         /\ (i % Len(Types) = 0 <=> Place(i) = Len(Types))
         /\ Place(i) < Len(Types) => Place(i + 1) = Place(i) + 1
<1> DEFINE l == Len(Types)
<1>1. l \in Nat \ {0}
  BY MemorizeAssumption
<1>2. (i - 1) % l \in 0..l - 1
  BY <1>1
<1>3. Place(i) \in 1..l /\ TypeOf(i) = Types[Place(i)]
  BY <1>1, <1>2 DEF Place, TypeOf
<1>4. TypeOf(i) \in {"string", "int", "bool"}
  BY <1>3, MemorizeAssumption, ElementOfSeq
<1>5. i % l = IF (i - 1) % l = l - 1 THEN 0 ELSE ((i - 1) % l) + 1
  <2>1. i - 1 \in Nat /\ (i - 1) + 1 = i
    OBVIOUS
  <2> QED
    BY <1>1, <2>1, NextRemainder
<1> QED
  BY <1>1, <1>3, <1>4, <1>5 DEF Place

\* Texts, with the null that stands for none, are sequences of lines.
LEMMA TextIs ==
  ASSUME NEW v \in Texts \cup {Null}
  PROVE  /\ v \in Seq(Lines) /\ v \in Seq(AllLines) /\ Len(v) \in 0..MaxLines
         /\ v # Null => Len(v) \in 1..MaxLines
<1>1. PICK n \in 0..MaxLines : v \in [1..n -> Lines] /\ (v # Null => n \in 1..MaxLines)
  <2>1. MaxLines \in Nat
    BY LenProperties, MemorizeAssumption
  <2>2. CASE v = Null
    <3>1. v \in [1..0 -> Lines] /\ 0 \in 0..MaxLines
      BY <2>1, <2>2 DEF Null
    <3> QED
      BY <2>2, <3>1
  <2>3. CASE v \in Texts
    BY <2>1, <2>3 DEF Texts
  <2> QED
    BY <2>2, <2>3
<1>2. Lines \subseteq AllLines /\ n \in Nat
  BY MemorizeAssumption DEF AllLines
<1>3. v \in Seq(Lines) /\ Len(v) = n
  BY <1>1, <1>2
<1> QED
  BY <1>1, <1>2, <1>3, SeqMonotonic

\* What is written for a value.
LEMMA RowsAre ==
  ASSUME NEW i \in Nat \ {0}, NEW v \in Values(TypeOf(i))
  PROVE  /\ v \in Seq(AllLines) /\ Rows(i, v) \in Seq(AllLines) /\ Len(Rows(i, v)) \in Nat \ {0}
         /\ TypeOf(i) = "string" =>
              /\ v \in Texts \cup {Null}
              /\ Len(Rows(i, v)) = Len(v) + 1 /\ Rows(i, v)[1] = CountLine(Len(v))
              /\ \A j \in 1..Len(v) : Rows(i, v)[j + 1] = v[j]
         /\ TypeOf(i) = "int" => /\ \E n \in DOMAIN Decimal : v = <<Decimal[n]>>
                                 /\ Rows(i, v) = v /\ Len(Rows(i, v)) = 1
         /\ TypeOf(i) = "bool" => /\ v \in {Flag(TRUE), Flag(FALSE)}
                                  /\ Rows(i, v) = v /\ Len(Rows(i, v)) = 1
<1>1. TypeOf(i) \in {"string", "int", "bool"}
  BY Places
<1>2. CASE TypeOf(i) = "string"
  <2>1. v \in Texts \cup {Null}
    BY <1>2 DEF Values
  <2>2. v \in Seq(AllLines) /\ Len(v) \in 0..MaxLines
    BY <2>1, TextIs
  <2>3. PICK line : line = CountLine(Len(v))
    OBVIOUS
  <2>4. line \in AllLines
    <3>1. Len(v) + 1 \in DOMAIN Decimal
      <4>1. DOMAIN Decimal = 1..Len(Decimal) /\ Len(Decimal) \in Nat
        BY MemorizeAssumption, LenProperties
      <4> QED
        BY <2>2, <4>1, MemorizeAssumption
    <3> QED
      BY <2>3, <3>1 DEF CountLine, AllLines
  <2>5. PICK rows : rows = <<line>> \o v
    OBVIOUS
  <2>6. Rows(i, v) = rows
    BY <1>2, <2>3, <2>5 DEF Rows, LinesOf, LinesOfText
  <2>7. <<line>> \in Seq(AllLines) /\ Len(<<line>>) = 1 /\ <<line>>[1] = line
    BY <2>4
  <2>8. /\ rows \in Seq(AllLines) /\ Len(rows) = 1 + Len(v)
        /\ \A j \in 1..1 + Len(v) : rows[j] = IF j <= 1 THEN <<line>>[j] ELSE v[j - 1]
    BY <2>2, <2>5, <2>7, ConcatProperties
  <2>9. rows[1] = line /\ \A j \in 1..Len(v) : rows[j + 1] = v[j]
    BY <2>2, <2>7, <2>8
  <2> QED
    BY <1>2, <2>1, <2>2, <2>3, <2>6, <2>8, <2>9
<1>3. CASE TypeOf(i) = "int"
  <2>1. \E n \in DOMAIN Decimal : v = <<Decimal[n]>>
    BY <1>3, MemorizeAssumption DEF Values
  <2>2. v \in Seq(AllLines) /\ Len(v) = 1
    BY <2>1 DEF AllLines
  <2>3. Rows(i, v) = v
    BY <1>3 DEF Rows, LinesOf
  <2>4. TypeOf(i) # "string" /\ TypeOf(i) # "bool" /\ 1 \in Nat \ {0}
    BY <1>3
  <2> QED
    BY <2>1, <2>2, <2>3, <2>4
<1>4. CASE TypeOf(i) = "bool"
  <2>1. v \in {Flag(TRUE), Flag(FALSE)}
    BY <1>4 DEF Values
  <2>2. v \in Seq(AllLines) /\ Len(v) = 1
    <3>1. "T" \in AllLines /\ "F" \in AllLines
      BY DEF AllLines
    <3>2. v = <<"T">> \/ v = <<"F">>
      BY <2>1 DEF Flag
    <3>3. PICK x \in AllLines : v = <<x>>
      BY <3>1, <3>2
    <3> QED
      BY <3>3
  <2>3. Rows(i, v) = v
    BY <1>4 DEF Rows, LinesOf
  <2>4. TypeOf(i) # "string" /\ TypeOf(i) # "int" /\ 1 \in Nat \ {0}
    BY <1>4
  <2> QED
    BY <2>1, <2>2, <2>3, <2>4
<1> QED
  BY <1>1, <1>2, <1>3, <1>4

LEMMA TextRows ==
  ASSUME NEW i \in Nat \ {0}, NEW v \in Values(TypeOf(i)), TypeOf(i) = "string"
  PROVE  /\ v \in Texts \cup {Null}
         /\ Len(Rows(i, v)) = Len(v) + 1 /\ Rows(i, v)[1] = CountLine(Len(v))
         /\ \A j \in 1..Len(v) : Rows(i, v)[j + 1] = v[j]
  BY RowsAre

LEMMA NumberRow ==
  ASSUME NEW i \in Nat \ {0}, NEW v \in Values(TypeOf(i)), TypeOf(i) = "int"
  PROVE  /\ \E n \in DOMAIN Decimal : v = <<Decimal[n]>>
         /\ Rows(i, v) = v /\ Len(Rows(i, v)) = 1
  BY RowsAre

LEMMA FlagRow ==
  ASSUME NEW i \in Nat \ {0}, NEW v \in Values(TypeOf(i)), TypeOf(i) = "bool"
  PROVE  v \in {Flag(TRUE), Flag(FALSE)} /\ Rows(i, v) = v /\ Len(Rows(i, v)) = 1
  BY RowsAre

\* What is kept of a value is a value, of which everything is kept.
LEMMA KeptIs ==
  ASSUME NEW i \in Nat \ {0}, NEW v \in Values(TypeOf(i))
  PROVE  Kept(i, v) \in Values(TypeOf(i)) /\ Kept(i, v) # Null /\ Kept(i, Kept(i, v)) = Kept(i, v)
<1>1. CASE TypeOf(i) = "string"
  <2>1. v \in Seq(Lines) /\ Len(v) \in 0..MaxLines /\ (v # Null => Len(v) \in 1..MaxLines)
    BY <1>1, RowsAre, TextIs
  <2>2. PICK t : t = Trimmed(v)
    OBVIOUS
  <2>3. t \in Seq(Lines) /\ Trimmed(t) = t /\ Len(t) >= 1 /\ (Len(v) >= 1 => Len(t) <= Len(v))
    BY <2>1, <2>2, TrimmedProperties, MemorizeAssumption
  <2>4. Len(t) \in 1..MaxLines
    <3>1. CASE v = Null
      <4>1. t = <<Blank>>
        <5>1. \A j \in DOMAIN v : v[j] = Blank
          BY <3>1 DEF Null
        <5> QED
          BY <2>1, <2>2, <5>1, TrimmedBlank
      <4> QED
        BY <4>1, MemorizeAssumption
    <3>2. CASE v # Null
      BY <2>1, <2>3, <3>2, LenProperties, MemorizeAssumption
    <3> QED
      BY <3>1, <3>2
  <2>5. t \in Texts /\ t # Null
    BY <2>3, <2>4, LenProperties DEF Texts, Null
  <2> QED
    BY <1>1, <2>2, <2>3, <2>5 DEF Kept, Values
<1>2. CASE TypeOf(i) # "string"
  <2>1. v # Null
    BY <1>2, RowsAre, Places DEF Null, Flag
  <2> QED
    BY <1>2, <2>1 DEF Kept
<1> QED
  BY <1>1, <1>2

-----------------------------------------------------------------------------
(* Objects in a file *)

\* Whole objects, as the program may hold them.
AreObjects(s) ==
  /\ s \in Seq(Seq(AllLines)) /\ Len(s) % Len(Types) = 0 /\ Len(s) <= MaxObjects * Len(Types)
  /\ \A i \in 1..Len(s) : s[i] \in Values(TypeOf(i))

\* Property i of s, for i up to k, takes the lines behind o[i - 1] up to o[i],
\* as far as the file goes.
Laid(file, s, k, o) ==
  /\ k \in 0..Len(s) /\ o \in [0..k -> Nat] /\ o[0] = 0
  /\ \A i \in 0..k : o[i] <= o[k]
  /\ \A i \in 1..k :
       /\ s[i] # Null /\ o[i] = o[i - 1] + Len(Rows(i, s[i]))
       /\ \A j \in 1..Len(Rows(i, s[i])) :
            o[i - 1] + j <= Len(file) => file[o[i - 1] + j] = Rows(i, s[i])[j]

\* An empty file, and one that has another property.
LEMMA NothingLaid ==
  ASSUME NEW s, AreObjects(s)
  PROVE  Laid(<<>>, s, 0, [i \in 0..0 |-> 0])
<1>1. Len(s) \in Nat
  BY LenProperties DEF AreObjects
<1> QED
  BY <1>1 DEF Laid

LEMMA MoreLaid ==
  ASSUME NEW s, AreObjects(s), NEW file \in Seq(AllLines), NEW k, NEW o, Laid(file, s, k, o),
         Len(file) = o[k], k < Len(s), s[k + 1] # Null
  PROVE  LET rows == Rows(k + 1, s[k + 1])
         IN  /\ file \o rows \in Seq(AllLines)
             /\ \E p : Laid(file \o rows, s, k + 1, p) /\ Len(file \o rows) = p[k + 1]
<1>1. Len(s) \in Nat /\ k \in Nat /\ k + 1 \in 1..Len(s) /\ k + 1 \in Nat \ {0}
  BY LenProperties DEF AreObjects, Laid
<1>2. PICK rows : rows = Rows(k + 1, s[k + 1])
  OBVIOUS
<1>3. rows \in Seq(AllLines) /\ Len(rows) \in Nat \ {0}
  BY <1>1, <1>2, RowsAre DEF AreObjects
<1>4. PICK more : more = file \o rows
  OBVIOUS
<1>5. /\ more \in Seq(AllLines) /\ Len(more) = Len(file) + Len(rows) /\ Len(file) \in Nat
      /\ \A j \in 1..Len(file) + Len(rows) : more[j] = IF j <= Len(file) THEN file[j] ELSE rows[j - Len(file)]
  BY <1>3, <1>4, ConcatProperties, LenProperties
<1>6. PICK p : p = [i \in 0..k + 1 |-> IF i <= k THEN o[i] ELSE o[k] + Len(rows)]
  OBVIOUS
<1>7. /\ o \in [0..k -> Nat] /\ o[0] = 0 /\ \A i \in 0..k : o[i] <= o[k]
      /\ \A i \in 1..k : s[i] # Null /\ o[i] = o[i - 1] + Len(Rows(i, s[i]))
      /\ \A i \in 1..k : \A j \in 1..Len(Rows(i, s[i])) :
            o[i - 1] + j <= Len(file) => file[o[i - 1] + j] = Rows(i, s[i])[j]
  BY DEF Laid
<1>8. /\ p \in [0..k + 1 -> Nat] /\ p[0] = 0 /\ p[k + 1] = o[k] + Len(rows)
      /\ \A i \in 0..k : p[i] = o[i]
  BY <1>1, <1>3, <1>6, <1>7
<1>9. ASSUME NEW i \in 0..k + 1
      PROVE  p[i] <= p[k + 1]
  <2>1. p[k + 1] \in Nat /\ o[k] \in Nat /\ o[k] <= p[k + 1]
    BY <1>1, <1>3, <1>7, <1>8
  <2>2. CASE i = k + 1
    BY <2>1, <2>2
  <2>3. CASE i # k + 1
    <3>1. i \in 0..k
      BY <1>1, <2>3
    <3>2. p[i] = o[i] /\ o[i] \in Nat /\ o[i] <= o[k]
      BY <1>7, <1>8, <3>1
    <3> QED
      BY <2>1, <3>2
  <2> QED
    BY <2>2, <2>3
<1>10. ASSUME NEW i \in 1..k + 1
       PROVE  /\ s[i] # Null /\ p[i] = p[i - 1] + Len(Rows(i, s[i]))
              /\ \A j \in 1..Len(Rows(i, s[i])) :
                   p[i - 1] + j <= Len(more) => more[p[i - 1] + j] = Rows(i, s[i])[j]
  <2>1. CASE i = k + 1
    <3>1. p[i - 1] = Len(file) /\ p[i] = Len(file) + Len(rows)
      BY <1>1, <1>8, <2>1
    <3>2. ASSUME NEW j \in 1..Len(rows)
          PROVE  more[Len(file) + j] = rows[j]
      <4>1. /\ Len(file) + j \in 1..Len(file) + Len(rows)
            /\ ~(Len(file) + j <= Len(file)) /\ (Len(file) + j) - Len(file) = j
        BY <1>3, <1>5
      <4> QED
        BY <1>5, <4>1
    <3> QED
      BY <1>2, <2>1, <3>1, <3>2
  <2>2. CASE i # k + 1
    <3>1. i \in 1..k /\ i - 1 \in 0..k /\ i \in 0..k
      BY <1>1, <2>2
    <3>2. p[i] = o[i] /\ p[i - 1] = o[i - 1] /\ o[i] \in Nat /\ o[i - 1] \in Nat /\ o[i] <= Len(file)
      BY <1>7, <1>8, <3>1
    <3>3. i \in Nat \ {0} /\ s[i] \in Values(TypeOf(i))
      BY <1>1, <3>1 DEF AreObjects
    <3>4. Len(Rows(i, s[i])) \in Nat \ {0} /\ o[i] = o[i - 1] + Len(Rows(i, s[i])) /\ s[i] # Null
      BY <1>7, <3>1, <3>3, RowsAre
    <3>5. ASSUME NEW j \in 1..Len(Rows(i, s[i]))
          PROVE  more[p[i - 1] + j] = Rows(i, s[i])[j]
      <4>1. o[i - 1] + j \in 1..Len(file)
        <5>1. Len(file) \in Nat
          BY <1>5
        <5>2. PICK m \in Nat : m = Len(Rows(i, s[i])) /\ o[i] = o[i - 1] + m
          BY <3>4
        <5>3. j \in 1..m
          BY <5>2
        <5> QED
          BY <3>2, <5>1, <5>2, <5>3
      <4>2. file[o[i - 1] + j] = Rows(i, s[i])[j]
        <5>1. o[i - 1] + j <= Len(file)
          BY <1>5, <4>1
        <5> QED
          BY <1>7, <3>1, <5>1
      <4>3. more[o[i - 1] + j] = file[o[i - 1] + j]
        <5>1. o[i - 1] + j \in 1..Len(file) + Len(rows) /\ o[i - 1] + j <= Len(file)
          BY <1>3, <1>5, <4>1
        <5> QED
          BY <1>5, <5>1
      <4> QED
        BY <3>2, <4>2, <4>3
    <3> QED
      BY <3>2, <3>4, <3>5
  <2> QED
    BY <2>1, <2>2
<1>11. Laid(more, s, k + 1, p)
  <2>1. k + 1 \in 0..Len(s)
    BY <1>1
  <2>2. \A i \in 0..k + 1 : p[i] <= p[k + 1]
    BY <1>9
  <2>3. \A i \in 1..k + 1 :
          /\ s[i] # Null /\ p[i] = p[i - 1] + Len(Rows(i, s[i]))
          /\ \A j \in 1..Len(Rows(i, s[i])) :
               p[i - 1] + j <= Len(more) => more[p[i - 1] + j] = Rows(i, s[i])[j]
    BY <1>10
  <2> QED
    BY <1>8, <2>1, <2>2, <2>3, Zenon DEF Laid
<1> QED
  BY <1>2, <1>4, <1>5, <1>8, <1>11

\* The lines at the start of a file.
LEMMA LaidCut ==
  ASSUME NEW s, NEW file \in Seq(AllLines), NEW k, NEW o, Laid(file, s, k, o),
         NEW n \in 0..Len(file)
  PROVE  /\ SubSeq(file, 1, n) \in Seq(AllLines) /\ Len(SubSeq(file, 1, n)) = n
         /\ Laid(SubSeq(file, 1, n), s, k, o)
<1>1. Len(file) \in Nat /\ \A i \in 1..n : file[i] \in AllLines
  BY LenProperties, ElementOfSeq
<1>2. PICK cut : cut = SubSeq(file, 1, n)
  OBVIOUS
<1>3. cut \in Seq(AllLines) /\ Len(cut) = n /\ \A i \in 1..n : cut[i] = file[i]
  BY <1>1, <1>2, SubSeqProperties
<1>4. ASSUME NEW i \in 1..k, NEW j \in 1..Len(Rows(i, s[i])), o[i - 1] + j <= n
      PROVE  cut[o[i - 1] + j] = Rows(i, s[i])[j]
  <2>1. k \in Nat /\ o[i - 1] \in Nat /\ j \in Nat \ {0}
    <3>1. k \in 0..Len(s) /\ o \in [0..k -> Nat]
      BY DEF Laid
    <3>2. i - 1 \in 0..k
      BY <3>1
    <3> QED
      BY <3>1, <3>2
  <2>2. o[i - 1] + j \in 1..n /\ o[i - 1] + j <= Len(file)
    BY <1>1, <1>4, <2>1
  <2> QED
    BY <1>3, <2>2 DEF Laid
<1>5. Laid(cut, s, k, o)
  BY <1>3, <1>4 DEF Laid
<1> QED
  BY <1>2, <1>3, <1>5

-----------------------------------------------------------------------------
(* The invariant *)

\* Behind every text of an object comes a number, as in a Package.
NumbersFollowTexts ==
  \A i \in DOMAIN Types : Types[i] = "string" => \E q \in i + 1..Len(Types) : Types[q] = "int"

Shape ==
  /\ TypeOK /\ AreObjects(objects)
  /\ disk \in Seq(AllLines) /\ written \in Seq(AllLines)
  /\ loaded \in Seq(Seq(AllLines)) /\ Len(loaded) <= Len(objects)

Phases ==
  /\ pc \in {"create", "write"} => ~complete /\ pos = 1
  /\ pc = "create" => ~exists /\ disk = <<>>
  /\ pc = "write" => exists
  /\ pc = "failed" => ~complete
  /\ pc = "done" => AtEnd

\* The writer holds the properties that are written, and nothing else.
Writing == pc = "write" =>
  \E o : Laid(written, objects, at, o) /\ Len(written) = o[at]

\* The file was made of s, the objects or what they were before they were
\* loaded; it holds all of s if it is complete.
Saved(s, k, o) ==
  /\ AreObjects(s) /\ Len(s) = Len(objects)
  /\ \A i \in 1..Len(s) : Kept(i, s[i]) = Kept(i, objects[i])
  /\ Laid(disk, s, k, o) /\ Len(disk) <= o[k]
  /\ complete => k = Len(s) /\ Len(disk) = o[k]

\* The reader is at the line where the next property begins ...
InStep(k, o) ==
  /\ Len(loaded) <= k /\ pos = o[Len(loaded)] + 1
  /\ \A i \in 1..Len(loaded) : loaded[i] = Kept(i, objects[i])

\* ... or at the end of a file that was cut short, in the midst of an object:
\* flags read as false, and behind a text that was cut a number is missing.
Short ==
  /\ ~complete /\ pos = Len(disk) + 1
  /\ \/ \E c \in 0..Len(loaded) :
           /\ \A i \in 1..c : loaded[i] = Kept(i, objects[i])
           /\ \A i \in c + 1..Len(loaded) : TypeOf(i) = "bool" /\ loaded[i] = Flag(FALSE)
     \/ /\ Len(loaded) # 0
        /\ NumbersFollowTexts => \E q \in Place(Len(loaded)) + 1..Len(Types) : Types[q] = "int"

Reading == \E s, k, o :
  Saved(s, k, o) /\ (pc \in {"load", "done"} => InStep(k, o) \/ Short)

Again == reloaded => \A i \in 1..Len(objects) : objects[i] = Kept(i, objects[i])

FileInv == Shape /\ Phases /\ Writing /\ Reading /\ Again

-----------------------------------------------------------------------------
(* What the invariant says of a reader *)

\* Where property i of a file begins and ends.
LEMMA Offsets ==
  ASSUME NEW s, AreObjects(s), NEW file \in Seq(AllLines), NEW k, NEW o, Laid(file, s, k, o),
         NEW r \in Nat, r < k
  PROVE  LET rows == Rows(r + 1, s[r + 1])
         IN  /\ s[r + 1] # Null /\ s[r + 1] \in Values(TypeOf(r + 1))
             /\ Len(rows) \in Nat \ {0} /\ o[r] \in Nat /\ o[k] \in Nat
             /\ o[r + 1] = o[r] + Len(rows) /\ o[r + 1] <= o[k]
             /\ \A j \in 1..Len(rows) : o[r] + j <= Len(file) => file[o[r] + j] = rows[j]
<1>1. k \in 0..Len(s) /\ Len(s) \in Nat
  BY LenProperties DEF Laid, AreObjects
<1>2. r + 1 \in 1..k /\ r + 1 \in 1..Len(s) /\ r \in 0..k /\ k \in 0..k /\ r + 1 \in 0..k /\ (r + 1) - 1 = r
  BY <1>1
<1>3. s[r + 1] \in Values(TypeOf(r + 1)) /\ r + 1 \in Nat \ {0}
  BY <1>1, <1>2 DEF AreObjects
<1>4. Len(Rows(r + 1, s[r + 1])) \in Nat \ {0}
  BY <1>3, RowsAre
<1>5. o[r] \in Nat /\ o[k] \in Nat /\ o[r + 1] <= o[k]
  BY <1>2 DEF Laid
<1>6. /\ s[r + 1] # Null /\ o[r + 1] = o[r] + Len(Rows(r + 1, s[r + 1]))
      /\ \A j \in 1..Len(Rows(r + 1, s[r + 1])) :
           o[r] + j <= Len(file) => file[o[r] + j] = Rows(r + 1, s[r + 1])[j]
  BY <1>2 DEF Laid
<1> QED
  BY <1>3, <1>4, <1>5, <1>6

\* While there is something to read, a property is missing.
LEMMA Missing ==
  ASSUME FileInv, pc = "load", ~AtEnd, NEW s, NEW k, NEW o, Saved(s, k, o)
  PROVE  /\ Len(loaded) \in Nat /\ Len(disk) \in Nat /\ Len(loaded) < Len(objects)
         /\ Len(loaded) + 1 \in Nat \ {0} /\ pos \in 1..Len(disk) + 1
         /\ InStep(k, o) /\ pos <= Len(disk) => Len(loaded) < k
         /\ InStep(k, o) /\ complete => pos <= Len(disk)
<1> DEFINE r == Len(loaded)
<1>1. /\ r \in Nat /\ Len(disk) \in Nat /\ Len(objects) \in Nat /\ r <= Len(objects)
      /\ pos \in 1..Len(disk) + 1
  BY LenProperties DEF FileInv, Shape, TypeOK, AreObjects
<1>2. k \in 0..Len(s) /\ Len(s) = Len(objects) /\ o[k] \in Nat /\ Len(disk) <= o[k]
  BY <1>1 DEF Saved, Laid
<1>3. ASSUME pos > Len(disk)
      PROVE  r # Len(objects)
  <2>1. r % Len(Types) # 0
    BY <1>3 DEF AtEnd, AtObject
  <2>2. Len(objects) % Len(Types) = 0
    BY DEF FileInv, Shape, AreObjects
  <2> QED
    BY <2>1, <2>2
<1>4. ASSUME InStep(k, o), pos <= Len(disk)
      PROVE  r < k
  BY <1>1, <1>2, <1>4 DEF InStep
<1>5. r < Len(objects)
  <2>1. CASE pos > Len(disk)
    BY <1>1, <1>3, <2>1
  <2>2. CASE ~(pos > Len(disk))
    <3>1. Short => pos > Len(disk)
      BY <1>1 DEF Short
    <3>2. PICK t, l, u : Saved(t, l, u) /\ InStep(l, u)
      BY <1>1, <2>2, <3>1 DEF FileInv, Reading
    <3>3. l \in 0..Len(t) /\ Len(t) = Len(objects) /\ u[l] \in Nat /\ Len(disk) <= u[l]
      BY <1>1, <3>2 DEF Saved, Laid
    <3>4. r < l
      BY <1>1, <2>2, <3>2, <3>3 DEF InStep
    <3> QED
      BY <1>1, <3>3, <3>4
  <2> QED
    BY <2>1, <2>2
<1>6. ASSUME InStep(k, o), complete
      PROVE  pos <= Len(disk)
  <2>1. r < k /\ Len(disk) = o[k]
    BY <1>2, <1>5, <1>6 DEF Saved
  <2>2. disk \in Seq(AllLines) /\ AreObjects(s) /\ Laid(disk, s, k, o)
    BY DEF FileInv, Shape, Saved
  <2>3. o[r] \in Nat /\ o[r + 1] <= o[k] /\ \E n \in Nat \ {0} : o[r + 1] = o[r] + n
    BY <1>1, <2>1, <2>2, Offsets
  <2> QED
    BY <1>6, <2>1, <2>3 DEF InStep
<1> QED
  BY <1>1, <1>4, <1>5, <1>6

-----------------------------------------------------------------------------
(* Reading a property *)

\* Only these change when a property is read.
ReadStep(x) ==
  /\ pc = "load" /\ ~AtEnd /\ loaded' = Append(loaded, x)
  /\ UNCHANGED <<disk, exists, pc, objects, at, written, complete, saves, reloaded, crashes>>

\* A reader that comes to the end of a file that was cut short.
LEMMA ShortNext ==
  ASSUME disk' = disk, objects' = objects, complete' = complete, ~complete, pos' = Len(disk) + 1,
         NEW m, Len(loaded') = m,
         \/ \E c \in 0..m : /\ \A i \in 1..c : loaded'[i] = Kept(i, objects[i])
                            /\ \A i \in c + 1..m : TypeOf(i) = "bool" /\ loaded'[i] = Flag(FALSE)
         \/ m # 0 /\ (NumbersFollowTexts => \E q \in Place(m) + 1..Len(Types) : Types[q] = "int")
  PROVE  Short'
  BY DEF Short

\* Skip stays within the file.
LEMMA SkipStays ==
  ASSUME NEW n \in Nat, pos \in 1..Len(disk) + 1, Len(disk) \in Nat
  PROVE  /\ Skip(pos, n) \in 1..Len(disk) + 1
         /\ pos + n <= Len(disk) + 1 => Skip(pos, n) = pos + n
         /\ pos + n > Len(disk) => Skip(pos, n) = Len(disk) + 1
  BY DEF Skip

\* What is loaded after one more property.
LEMMA LoadedMore ==
  ASSUME FileInv, NEW x \in Seq(AllLines), ReadStep(x)
  PROVE  /\ loaded' \in Seq(Seq(AllLines)) /\ Len(loaded') = Len(loaded) + 1
         /\ loaded'[Len(loaded) + 1] = x /\ \A i \in 1..Len(loaded) : loaded'[i] = loaded[i]
  BY AppendProperties DEF FileInv, Shape, ReadStep

\* A step that reads keeps the invariant if the reader ends up in step or short.
LEMMA ReadKeeps ==
  ASSUME FileInv, NEW x \in Seq(AllLines), ReadStep(x), pos' \in 1..Len(disk) + 1,
         NEW s, NEW k, NEW o, Saved(s, k, o), InStep(k, o)' \/ Short'
  PROVE  FileInv'
<1>1. UNCHANGED <<disk, exists, pc, objects, at, written, complete, saves, reloaded, crashes>> /\ pc = "load"
  BY DEF ReadStep
<1>2. loaded' \in Seq(Seq(AllLines)) /\ Len(loaded') = Len(loaded) + 1
  BY LoadedMore
<1>3. Len(loaded) < Len(objects) /\ Len(loaded) \in Nat
  BY Missing DEF ReadStep
<1>4. Len(objects) \in Nat /\ Len(objects) <= MaxObjects * Len(Types) /\ MaxObjects * Len(Types) \in Nat
  BY LenProperties, MemorizeAssumption DEF FileInv, Shape, AreObjects
<1>5. Shape'
  <2>1. Len(loaded') <= Len(objects)
    BY <1>2, <1>3, <1>4
  <2>2. Len(loaded') <= MaxObjects * Len(Types)
    BY <1>2, <1>3, <1>4
  <2>3. AreObjects(objects)'
    BY <1>1 DEF FileInv, Shape, AreObjects
  <2> QED
    BY <1>1, <1>2, <2>1, <2>2, <2>3 DEF FileInv, Shape, TypeOK
<1>6. Phases' /\ Writing' /\ Again'
  BY <1>1 DEF FileInv, Phases, Writing, Again
<1>7. Saved(s, k, o)'
  BY <1>1 DEF Saved
<1>8. Reading'
  BY <1>7 DEF Reading
<1> QED
  BY <1>5, <1>6, <1>8 DEF FileInv

\* The reader got what was saved and stands behind it.
LEMMA StaysInStep ==
  ASSUME FileInv, NEW x \in Seq(AllLines), ReadStep(x), NEW s, NEW k, NEW o, Saved(s, k, o),
         InStep(k, o), Len(loaded) < k, x = Kept(Len(loaded) + 1, s[Len(loaded) + 1]),
         pos' = o[Len(loaded) + 1] + 1
  PROVE  InStep(k, o)'
<1> DEFINE r == Len(loaded)
<1>1. r \in Nat /\ r < Len(objects)
  BY Missing DEF ReadStep
<1>2. Len(loaded') = r + 1 /\ loaded'[r + 1] = x /\ \A i \in 1..r : loaded'[i] = loaded[i]
  BY LoadedMore
<1>3. k \in Nat
  BY LenProperties DEF Saved, Laid, AreObjects
<1>4. objects' = objects
  BY DEF ReadStep
<1>5. x = Kept(r + 1, objects[r + 1])
  <2>1. r + 1 \in 1..Len(s) /\ Len(objects) \in Nat
    BY <1>1, LenProperties DEF Saved, AreObjects
  <2> QED
    BY <2>1 DEF Saved
<1>6. \A i \in 1..r + 1 : loaded'[i] = Kept(i, objects[i])
  BY <1>1, <1>2, <1>5 DEF InStep
<1>7. Len(loaded') <= k /\ pos' = o[Len(loaded')] + 1
  BY <1>1, <1>2, <1>3
<1> QED
  BY <1>2, <1>4, <1>6, <1>7 DEF InStep, Kept

\* A number that was written is read.
LEMMA NumberIs ==
  ASSUME NEW n \in DOMAIN Decimal
  PROVE  IsInt(Decimal[n]) /\ ParseInt(Decimal[n]) = n - 1
<1>1. (CHOOSE m \in DOMAIN Decimal : Decimal[m] = Decimal[n]) = n
  BY MemorizeAssumption
<1> QED
  BY <1>1 DEF IsInt, ParseInt

\* An in-step reader that has a line left has the first line of a property.
LEMMA AtFirstRow ==
  ASSUME FileInv, pc = "load", ~AtEnd, NEW s, NEW k, NEW o, Saved(s, k, o), InStep(k, o),
         pos <= Len(disk)
  PROVE  LET i == Len(loaded) + 1
             rows == Rows(i, s[i])
         IN  /\ Len(loaded) < k /\ i \in Nat \ {0} /\ s[i] # Null /\ s[i] \in Values(TypeOf(i))
             /\ Len(rows) \in Nat \ {0} /\ o[i] + 1 = pos + Len(rows)
             /\ o[i] \in Nat /\ o[i] <= o[k]
             /\ disk[pos] = rows[1]
             /\ \A j \in 1..Len(rows) : pos + j - 1 <= Len(disk) => disk[pos + j - 1] = rows[j]
<1> DEFINE r == Len(loaded)
           rows == Rows(r + 1, s[r + 1])
<1>1. r \in Nat /\ Len(disk) \in Nat /\ r < k /\ r + 1 \in Nat \ {0} /\ pos \in 1..Len(disk) + 1
  BY Missing
<1>2. disk \in Seq(AllLines) /\ AreObjects(s) /\ Laid(disk, s, k, o)
  BY DEF FileInv, Shape, Saved
<1>3. /\ s[r + 1] # Null /\ s[r + 1] \in Values(TypeOf(r + 1))
      /\ Len(rows) \in Nat \ {0} /\ o[r] \in Nat /\ o[k] \in Nat
      /\ o[r + 1] = o[r] + Len(rows) /\ o[r + 1] <= o[k]
      /\ \A j \in 1..Len(rows) : o[r] + j <= Len(disk) => disk[o[r] + j] = rows[j]
  <2>1. r \in Nat /\ r < k
    BY <1>1
  <2> QED
    BY <1>2, <2>1, Offsets
<1> HIDE DEF rows
<1>4. pos = o[r] + 1
  BY DEF InStep
<1>5. \A j \in 1..Len(rows) : pos + j - 1 = o[r] + j
  BY <1>3, <1>4
<1>6. disk[pos] = rows[1]
  <2>1. 1 \in 1..Len(rows) /\ o[r] + 1 = pos /\ o[r] + 1 <= Len(disk)
    BY <1>1, <1>3, <1>4
  <2> QED
    BY <1>3, <2>1
<1>7. \A j \in 1..Len(rows) : pos + j - 1 <= Len(disk) => disk[pos + j - 1] = rows[j]
  BY <1>3, <1>5
<1>8. o[r + 1] + 1 = pos + Len(rows) /\ o[r + 1] \in Nat
  <2>1. PICK l, a, b : l = Len(rows) /\ a = o[r] /\ b = o[r + 1]
    OBVIOUS
  <2>2. l \in Nat /\ a \in Nat /\ b = a + l /\ pos = a + 1
    BY <1>3, <1>4, <2>1, Zenon
  <2>3. b + 1 = pos + l /\ b \in Nat
    BY <2>2
  <2> QED
    BY <2>1, <2>3, Zenon
<1> QED
  BY <1>1, <1>3, <1>6, <1>7, <1>8, Zenon DEF rows

\* A reader that has a line left is in step.
LEMMA NotShort ==
  ASSUME FileInv, pc = "load", pos <= Len(disk)
  PROVE  \E s, k, o : Saved(s, k, o) /\ InStep(k, o)
<1>1. pos \in Nat /\ Len(disk) \in Nat
  BY LenProperties DEF FileInv, Shape, TypeOK
<1>2. Short => pos = Len(disk) + 1
  BY DEF Short
<1>3. ~Short
  BY <1>1, <1>2
<1> QED
  BY <1>3 DEF FileInv, Reading

\* Lines are lines, wherever the reader looks.
LEMMA LinesFromAre ==
  ASSUME disk \in Seq(AllLines), NEW p \in Nat \ {0}, NEW n \in Nat
  PROVE  /\ LinesFrom(p, n) \in Seq(AllLines) /\ Len(LinesFrom(p, n)) = n
         /\ \A j \in 1..n : p + j - 1 <= Len(disk) => LinesFrom(p, n)[j] = disk[p + j - 1]
<1>1. Blank \in AllLines
  BY MemorizeAssumption DEF AllLines
<1>2. DOMAIN disk = 1..Len(disk) /\ Len(disk) \in Nat /\ \A i \in 1..Len(disk) : disk[i] \in AllLines
  BY LenProperties, ElementOfSeq
<1>3. \A j \in 1..n : LineAt(p + j - 1) \in AllLines
  BY <1>1, <1>2 DEF LineAt
<1>4. LinesFrom(p, n) \in [1..n -> AllLines]
  BY <1>3 DEF LinesFrom
<1>5. \A j \in 1..n : p + j - 1 <= Len(disk) => LinesFrom(p, n)[j] = disk[p + j - 1]
  BY DEF LinesFrom, LineAt
<1> QED
  BY <1>4, <1>5

LEMMA ReadStringKeeps ==
  ASSUME FileInv, ReadString
  PROVE  FileInv'
<1> DEFINE r == Len(loaded)
           n == NumberValue(pos)
           x == ReadText(pos + 1, n)
<1>1. pc = "load" /\ ~AtEnd /\ TypeOf(r + 1) = "string" /\ pos <= Len(disk) /\ pos' = Skip(pos, n + 1)
  BY DEF ReadString, NumberAt
<1>2. PICK s, k, o : Saved(s, k, o) /\ InStep(k, o)
  BY <1>1, NotShort
<1>3. PICK v : v = s[r + 1]
  OBVIOUS
<1>4. PICK rows : rows = Rows(r + 1, v)
  OBVIOUS
<1>5. /\ r < k /\ r + 1 \in Nat \ {0} /\ v # Null /\ v \in Values(TypeOf(r + 1))
      /\ o[r + 1] + 1 = pos + Len(rows) /\ o[r + 1] \in Nat /\ o[r + 1] <= o[k] /\ disk[pos] = rows[1]
      /\ \A j \in 1..Len(rows) : pos + j - 1 <= Len(disk) => disk[pos + j - 1] = rows[j]
  BY <1>1, <1>2, <1>3, <1>4, AtFirstRow
<1>6. /\ v \in Texts \cup {Null} /\ v \in Seq(AllLines) /\ Len(rows) = Len(v) + 1
      /\ rows[1] = CountLine(Len(v)) /\ \A j \in 1..Len(v) : rows[j + 1] = v[j]
  <2>1. v \in Seq(AllLines)
    BY <1>5, RowsAre
  <2> QED
    BY <1>1, <1>4, <1>5, <2>1, TextRows
<1>7. Len(v) \in 1..MaxLines /\ MaxLines \in 1..Len(Decimal) - 1 /\ Len(Decimal) \in Nat
  BY <1>5, <1>6, TextIs, LenProperties, MemorizeAssumption
<1>8. pos \in 1..Len(disk) + 1 /\ pos \in Nat \ {0} /\ pos + 1 \in Nat \ {0} /\ Len(disk) \in Nat /\ disk \in Seq(AllLines)
  BY <1>1, <1>2, Missing DEF FileInv, Shape
<1>9. n = Len(v)
  <2>1. Len(v) + 1 \in DOMAIN Decimal
    BY <1>7, LenProperties, MemorizeAssumption
  <2>2. n = ParseInt(Decimal[Len(v) + 1])
    BY <1>1, <1>5, <1>6 DEF NumberValue, CountLine
  <2>3. n = (Len(v) + 1) - 1
    BY <2>1, <2>2, NumberIs
  <2> QED
    BY <1>7, <2>3
<1> HIDE DEF n
<1>10. n \in Nat
  BY <1>7, <1>9
<1>11. PICK t : t = LinesFrom(pos + 1, n)
  OBVIOUS
<1>12. /\ t \in Seq(AllLines) /\ Len(t) = n
       /\ \A j \in 1..n : pos + 1 + j - 1 <= Len(disk) => t[j] = disk[pos + 1 + j - 1]
  BY <1>8, <1>10, <1>11, LinesFromAre
<1>13. Blank \in AllLines
  BY MemorizeAssumption DEF AllLines
<1>14. x = Trimmed(t) /\ x \in Seq(AllLines)
  BY <1>8, <1>10, <1>11, <1>12, <1>13, ReadTextTrims, TrimmedProperties
<1>15. ReadStep(x)
  BY DEF ReadString, ReadStep, n
<1> HIDE DEF x
<1>16. Len(loaded') = r + 1 /\ loaded'[r + 1] = x /\ r \in Nat
  BY <1>1, <1>2, <1>14, <1>15, LoadedMore, Missing
<1>17. pos' \in 1..Len(disk) + 1
  BY <1>1, <1>8, <1>10, SkipStays
<1>18. CASE o[r + 1] <= Len(disk)
  <2>1. \A j \in 1..n : t[j] = v[j]
    <3>1. SUFFICES ASSUME NEW j \in 1..n
                   PROVE  t[j] = v[j]
      OBVIOUS
    <3>2. j + 1 \in 1..Len(rows) /\ pos + (j + 1) - 1 <= Len(disk) /\ pos + (j + 1) - 1 = pos + 1 + j - 1
      BY <1>5, <1>6, <1>8, <1>9, <1>10, <1>18
    <3>3. disk[pos + (j + 1) - 1] = rows[j + 1]
      BY <1>5, <3>2
    <3> QED
      BY <1>6, <1>9, <1>12, <3>2, <3>3
  <2>2. t = v
    BY <1>6, <1>9, <1>12, <2>1, SeqEqual
  <2>3. x = Kept(r + 1, s[r + 1])
    BY <1>1, <1>3, <1>14, <2>2 DEF Kept
  <2>4. pos' = o[r + 1] + 1
    <3>1. pos + (n + 1) = o[r + 1] + 1 /\ pos + (n + 1) <= Len(disk) + 1 /\ n + 1 \in Nat
      BY <1>5, <1>6, <1>8, <1>9, <1>10, <1>18
    <3> QED
      BY <1>1, <1>8, <3>1, SkipStays
  <2>5. InStep(k, o)'
    BY <1>2, <1>5, <1>14, <1>15, <2>3, <2>4, StaysInStep
  <2> QED
    BY <1>2, <1>14, <1>15, <1>17, <2>5, ReadKeeps
<1>19. CASE ~(o[r + 1] <= Len(disk))
  <2>1. ~complete
    <3>1. complete => Len(disk) = o[k]
      BY <1>2 DEF Saved
    <3> QED
      BY <1>5, <1>19, <3>1
  <2>2. pos' = Len(disk) + 1
    <3>1. pos + (n + 1) > Len(disk) /\ n + 1 \in Nat
      BY <1>5, <1>6, <1>8, <1>9, <1>10, <1>19
    <3> QED
      BY <1>1, <1>8, <3>1, SkipStays
  <2>3. NumbersFollowTexts => \E q \in Place(r + 1) + 1..Len(Types) : Types[q] = "int"
    <3>1. Place(r + 1) \in 1..Len(Types) /\ Types[Place(r + 1)] = "string" /\ DOMAIN Types = 1..Len(Types)
      BY <1>1, <1>5, Places, LenProperties, MemorizeAssumption
    <3> QED
      BY <3>1 DEF NumbersFollowTexts
  <2>4. Len(loaded') # 0 /\ complete' = complete /\ disk' = disk
    BY <1>15, <1>16 DEF ReadStep
  <2>5. Short'
    <3>1. objects' = objects
      BY <1>15 DEF ReadStep
    <3> QED
      BY <1>16, <2>1, <2>2, <2>3, <2>4, <3>1, ShortNext
  <2> QED
    BY <1>2, <1>14, <1>15, <1>17, <2>5, ReadKeeps
<1> QED
  BY <1>18, <1>19

LEMMA ReadIntKeeps ==
  ASSUME FileInv, ReadInt
  PROVE  FileInv'
<1> DEFINE r == Len(loaded)
           x == <<CountLine(NumberValue(pos))>>
<1>1. pc = "load" /\ ~AtEnd /\ TypeOf(r + 1) = "int" /\ pos <= Len(disk) /\ pos' = Skip(pos, 1)
  BY DEF ReadInt, NumberAt
<1>2. PICK s, k, o : Saved(s, k, o) /\ InStep(k, o)
  BY <1>1, NotShort
<1>3. PICK v : v = s[r + 1]
  OBVIOUS
<1>4. PICK rows : rows = Rows(r + 1, v)
  OBVIOUS
<1>5. /\ r < k /\ r + 1 \in Nat \ {0} /\ v \in Values(TypeOf(r + 1))
      /\ o[r + 1] + 1 = pos + Len(rows) /\ disk[pos] = rows[1]
  BY <1>1, <1>2, <1>3, <1>4, AtFirstRow
<1>6. PICK n \in DOMAIN Decimal : v = <<Decimal[n]>> /\ rows = v /\ Len(rows) = 1
  BY <1>1, <1>4, <1>5, NumberRow
<1>7. disk[pos] = Decimal[n]
  BY <1>5, <1>6
<1>8. NumberValue(pos) = n - 1
  BY <1>1, <1>7, NumberIs DEF NumberValue
<1>9. n \in Nat
  BY LenProperties, MemorizeAssumption
<1>10. x = v
  <2>1. (n - 1) + 1 = n
    BY <1>9
  <2>2. CountLine(NumberValue(pos)) = Decimal[n]
    BY <1>8, <2>1 DEF CountLine
  <2> QED
    BY <1>6, <2>2
<1>11. ReadStep(x)
  BY DEF ReadInt, ReadStep
<1> HIDE DEF x
<1>12. x \in Seq(AllLines)
  BY <1>5, <1>10, RowsAre
<1>13. x = Kept(r + 1, s[r + 1])
  BY <1>1, <1>3, <1>10 DEF Kept
<1>14. pos \in 1..Len(disk) + 1 /\ Len(disk) \in Nat /\ 1 \in Nat
  BY <1>1, <1>2, Missing
<1>15. pos' \in 1..Len(disk) + 1 /\ pos' = pos + 1
  BY <1>1, <1>14, SkipStays
<1>16. InStep(k, o)'
  <2>1. pos' = o[r + 1] + 1
    BY <1>5, <1>6, <1>15
  <2> QED
    BY <1>2, <1>5, <1>11, <1>12, <1>13, <2>1, StaysInStep
<1> QED
  BY <1>2, <1>11, <1>12, <1>15, <1>16, ReadKeeps

LEMMA ReadBoolKeeps ==
  ASSUME FileInv, ReadBool
  PROVE  FileInv'
<1> DEFINE r == Len(loaded)
           x == Flag(LineAt(pos) = "T")
<1>1. pc = "load" /\ ~AtEnd /\ TypeOf(r + 1) = "bool" /\ pos' = Skip(pos, 1) /\ ReadStep(x)
  BY DEF ReadBool, ReadStep
<1>2. PICK s, k, o : Saved(s, k, o) /\ (InStep(k, o) \/ Short)
  BY <1>1 DEF FileInv, Reading
<1>3. r \in Nat /\ pos \in 1..Len(disk) + 1 /\ Len(disk) \in Nat /\ 1 \in Nat /\ r + 1 \in Nat \ {0}
  BY <1>1, <1>2, Missing
<1>4. x \in Seq(AllLines)
  <2>1. PICK y \in {"T", "F"} : x = <<y>>
    BY DEF Flag
  <2>2. PICK z \in AllLines : z = y
    BY DEF AllLines
  <2> HIDE DEF x
  <2>3. x = <<z>>
    BY <2>1, <2>2
  <2> QED
    BY <2>3
<1>5. pos' \in 1..Len(disk) + 1
  BY <1>1, <1>3, SkipStays
<1>6. Len(loaded') = r + 1 /\ loaded'[r + 1] = x /\ \A i \in 1..r : loaded'[i] = loaded[i]
  BY <1>1, <1>4, LoadedMore
<1>7. CASE pos <= Len(disk)
  <2>1. PICK t, l, u : Saved(t, l, u) /\ InStep(l, u)
    BY <1>1, <1>7, NotShort
  <2>2. PICK v : v = t[r + 1]
    OBVIOUS
  <2>3. PICK rows : rows = Rows(r + 1, v)
    OBVIOUS
  <2>4. /\ r < l /\ v \in Values(TypeOf(r + 1))
        /\ u[r + 1] + 1 = pos + Len(rows) /\ disk[pos] = rows[1]
    BY <1>1, <1>7, <2>1, <2>2, <2>3, AtFirstRow
  <2>5. v \in {Flag(TRUE), Flag(FALSE)} /\ rows = v /\ Len(rows) = 1
    BY <1>1, <1>3, <2>3, <2>4, FlagRow
  <2>6. x = v
    <3>1. LineAt(pos) = v[1]
      BY <1>7, <2>4, <2>5 DEF LineAt
    <3>2. CASE v = Flag(TRUE)
      BY <3>1, <3>2 DEF Flag
    <3>3. CASE v = Flag(FALSE)
      BY <3>1, <3>3 DEF Flag
    <3> QED
      BY <2>5, <3>2, <3>3
  <2>7. x = Kept(r + 1, t[r + 1])
    BY <1>1, <2>2, <2>6 DEF Kept
  <2>8. pos' = u[r + 1] + 1
    <3>1. pos + 1 <= Len(disk) + 1
      BY <1>3, <1>7
    <3>2. pos' = pos + 1
      BY <1>1, <1>3, <3>1, SkipStays
    <3> QED
      BY <2>4, <2>5, <3>2
  <2> HIDE DEF x
  <2>9. InStep(l, u)'
    BY <1>1, <1>4, <2>1, <2>4, <2>7, <2>8, StaysInStep
  <2> QED
    BY <1>1, <1>4, <1>5, <2>1, <2>9, ReadKeeps
<1>8. CASE pos > Len(disk)
  <2>1. x = Flag(FALSE)
    <3>1. LineAt(pos) = Blank
      BY <1>3, <1>8 DEF LineAt
    <3>2. Blank # "T"
      BY Zenon DEF Blank
    <3> QED
      BY <3>1, <3>2
  <2> HIDE DEF x
  <2>2. pos' = Len(disk) + 1 /\ pos = Len(disk) + 1
    BY <1>1, <1>3, <1>8, SkipStays
  <2>3. ~complete
    <3>1. Short => ~complete
      BY DEF Short
    <3>2. InStep(k, o) => ~complete
      BY <1>1, <1>2, <1>3, <1>8, Missing
    <3> QED
      BY <1>2, <3>1, <3>2
  <2>4. complete' = complete /\ disk' = disk /\ objects' = objects
    BY <1>1 DEF ReadStep
  <2>5. \/ \E c \in 0..r : /\ \A i \in 1..c : loaded[i] = Kept(i, objects[i])
                           /\ \A i \in c + 1..r : TypeOf(i) = "bool" /\ loaded[i] = Flag(FALSE)
        \/ r # 0 /\ (NumbersFollowTexts => \E q \in Place(r) + 1..Len(Types) : Types[q] = "int")
    <3>1. CASE Short
      BY <3>1 DEF Short
    <3>2. CASE InStep(k, o)
      <4>1. r \in 0..r /\ r + 1..r = {}
        BY <1>3
      <4> QED
        BY <3>2, <4>1 DEF InStep
    <3> QED
      BY <1>2, <3>1, <3>2
  <2>6. ASSUME \E c \in 0..r : /\ \A i \in 1..c : loaded[i] = Kept(i, objects[i])
                               /\ \A i \in c + 1..r : TypeOf(i) = "bool" /\ loaded[i] = Flag(FALSE)
        PROVE  Short'
    <3>1. PICK c \in 0..r : /\ \A i \in 1..c : loaded[i] = Kept(i, objects[i])
                            /\ \A i \in c + 1..r : TypeOf(i) = "bool" /\ loaded[i] = Flag(FALSE)
      BY <2>6
    <3>2. c \in 0..r + 1 /\ \A i \in 1..c : loaded'[i] = Kept(i, objects[i])
      BY <1>3, <1>6, <3>1
    <3>3. ASSUME NEW i \in c + 1..r + 1
          PROVE  TypeOf(i) = "bool" /\ loaded'[i] = Flag(FALSE)
      <4>1. CASE i = r + 1
        BY <1>1, <1>6, <2>1, <4>1
      <4>2. CASE i # r + 1
        <5>1. i \in c + 1..r /\ i \in 1..r
          BY <1>3, <4>2
        <5> QED
          BY <1>6, <3>1, <5>1
      <4> QED
        BY <4>1, <4>2
    <3> QED
      BY <1>6, <2>2, <2>3, <2>4, <3>2, <3>3, ShortNext
  <2>7. ASSUME r # 0 /\ (NumbersFollowTexts => \E q \in Place(r) + 1..Len(Types) : Types[q] = "int")
        PROVE  Short'
    <3>1. ASSUME NumbersFollowTexts
          PROVE  \E q \in Place(r + 1) + 1..Len(Types) : Types[q] = "int"
      <4>1. PICK q \in Place(r) + 1..Len(Types) : Types[q] = "int"
        BY <2>7, <3>1
      <4>2. r \in Nat \ {0} /\ Place(r) \in 1..Len(Types) /\ Len(Types) \in Nat
        BY <1>3, <2>7, Places
      <4>3. Place(r) < Len(Types)
        BY <4>1, <4>2
      <4>4. Place(r + 1) = Place(r) + 1
        BY <4>2, <4>3, Places
      <4>5. Types[Place(r + 1)] = "bool"
        BY <1>1, <1>3, Places
      <4>6. q # Place(r + 1)
        BY <4>1, <4>5
      <4>7. q \in Place(r + 1) + 1..Len(Types)
        BY <4>1, <4>2, <4>4, <4>6
      <4> QED
        BY <4>1, <4>7
    <3>2. r + 1 # 0
      BY <1>3
    <3> QED
      BY <1>6, <2>2, <2>3, <2>4, <3>1, <3>2, ShortNext
  <2>8. Short'
    BY <2>5, <2>6, <2>7
  <2> QED
    BY <1>1, <1>2, <1>4, <1>5, <2>8, ReadKeeps
<1> QED
  BY <1>3, <1>7, <1>8

-----------------------------------------------------------------------------
(* The other steps *)

\* A file that was replaced is one of the objects at hand.
LEMMA FileOfObjects ==
  ASSUME AreObjects(objects), objects' = objects, NEW k, NEW o, Laid(disk', objects, k, o),
         Len(disk') <= o[k], complete' => k = Len(objects) /\ Len(disk') = o[k],
         pc' \notin {"load", "done"}
  PROVE  Reading'
<1>1. Saved(objects, k, o)'
  BY DEF Saved
<1> QED
  BY <1>1 DEF Reading

LEMMA InitFileInv == Init => FileInv
<1> SUFFICES ASSUME Init PROVE FileInv
  OBVIOUS
<1>1. PICK n \in 1..MaxObjects : objects \in ObjectLists(n)
  BY DEF Init
<1>2. PICK l : l = Len(Types)
  OBVIOUS
<1>3. MaxObjects \in Nat /\ l \in Nat \ {0} /\ n \in Nat
  BY <1>1, <1>2, LenProperties, MemorizeAssumption
<1>4. PICK m : m = n * l
  OBVIOUS
<1>5. m \in Nat /\ m <= MaxObjects * l
  BY <1>1, <1>3, <1>4
<1>6. DOMAIN objects = 1..m /\ \A i \in 1..m : objects[i] \in Values(TypeOf(i))
  BY <1>1, <1>2, <1>4 DEF ObjectLists
<1>7. objects \in [1..m -> Seq(AllLines)]
  <2>1. ASSUME NEW i \in 1..m PROVE objects[i] \in Seq(AllLines)
    <3>1. PICK v : v = objects[i]
      OBVIOUS
    <3>2. i \in Nat \ {0} /\ v \in Values(TypeOf(i))
      BY <1>5, <1>6, <3>1
    <3>3. v \in Seq(AllLines)
      BY <3>2, RowsAre
    <3> QED
      BY <3>1, <3>3
  <2>2. objects = [i \in 1..m |-> objects[i]]
    BY <1>1, <1>2, <1>4 DEF ObjectLists
  <2> QED
    BY <2>1, <2>2
<1>8. objects \in Seq(Seq(AllLines)) /\ Len(objects) = m
  BY <1>5, <1>7
<1>9. m % l = 0
  BY <1>3, <1>4, MultipleRemainder
<1>10. AreObjects(objects)
  BY <1>2, <1>5, <1>6, <1>8, <1>9 DEF AreObjects
<1>11. /\ disk = <<>> /\ exists = FALSE /\ complete = FALSE /\ reloaded = FALSE /\ pc = "idle"
       /\ at = 0 /\ written = <<>> /\ pos = 1 /\ loaded = <<>> /\ saves = 0 /\ crashes = 0
  BY DEF Init
<1>12. Shape
  <2>1. MaxObjects * l \in Nat /\ MaxSaves \in Nat /\ MaxCrashes \in Nat
    BY <1>3, MemorizeAssumption
  <2>2. Len(disk) = 0 /\ Len(loaded) = 0 /\ 0 <= MaxObjects * l
    BY <1>11, <2>1
  <2>3. at \in 0..Len(objects) /\ pos \in 1..Len(disk) + 1 /\ saves \in 0..MaxSaves /\ crashes \in 0..MaxCrashes
    BY <1>5, <1>8, <1>11, <2>1, <2>2
  <2>4. Len(loaded) <= MaxObjects * Len(Types)
    BY <1>2, <2>2
  <2>5. TypeOK
    BY <1>11, <2>3, <2>4 DEF TypeOK
  <2> QED
    BY <1>5, <1>8, <1>10, <1>11, <2>2, <2>5 DEF Shape
<1>13. Phases /\ Writing /\ Again
  BY <1>11 DEF Phases, Writing, Again
<1>14. PICK o : o = [i \in 0..0 |-> 0]
  OBVIOUS
<1>15. Laid(disk, objects, 0, o)
  BY <1>10, <1>11, <1>14, NothingLaid
<1>16. Saved(objects, 0, o)
  BY <1>10, <1>11, <1>14, <1>15 DEF Saved
<1>17. Reading
  BY <1>11, <1>16 DEF Reading
<1> QED
  BY <1>12, <1>13, <1>17 DEF FileInv

LEMMA StartSaveKeeps ==
  ASSUME FileInv, StartSave
  PROVE  FileInv'
<1>1. /\ saves < MaxSaves /\ saves' = saves + 1 /\ disk' = <<>> /\ exists' = FALSE /\ complete' = FALSE
      /\ pos' = 1 /\ loaded' = <<>> /\ pc' = "create"
      /\ UNCHANGED <<objects, at, written, reloaded, crashes>>
  BY DEF StartSave
<1>2. TypeOK /\ AreObjects(objects) /\ written \in Seq(AllLines) /\ Len(objects) \in Nat /\ Again
  BY LenProperties DEF FileInv, Shape, AreObjects
<1>3. TypeOK'
  <2>1. MaxObjects * Len(Types) \in Nat
    BY MemorizeAssumption, LenProperties
  <2>2. saves' \in 0..MaxSaves
    BY <1>1, <1>2, MemorizeAssumption DEF TypeOK
  <2>3. Len(disk') = 0 /\ Len(loaded') = 0 /\ 0 <= MaxObjects * Len(Types)
    BY <1>1, <2>1
  <2>4. pos' \in 1..Len(disk') + 1 /\ Len(loaded') <= MaxObjects * Len(Types)
    BY <1>1, <2>3
  <2> QED
    BY <1>1, <1>2, <2>2, <2>4 DEF TypeOK
<1>4. Shape'
  BY <1>1, <1>2, <1>3 DEF Shape, AreObjects
<1>5. Phases' /\ Writing' /\ Again'
  BY <1>1, <1>2 DEF Phases, Writing, Again
<1>6. PICK o : o = [i \in 0..0 |-> 0]
  OBVIOUS
<1>7. Laid(disk', objects, 0, o)
  BY <1>1, <1>2, <1>6, NothingLaid
<1>8. Reading'
  BY <1>1, <1>2, <1>6, <1>7, FileOfObjects
<1> QED
  BY <1>4, <1>5, <1>8 DEF FileInv

LEMMA CreateFileKeeps ==
  ASSUME FileInv, CreateFile
  PROVE  FileInv'
<1>1. /\ pc = "create" /\ exists' = TRUE /\ pc' = "write" /\ at' = 0 /\ written' = <<>>
      /\ UNCHANGED <<disk, objects, pos, loaded, complete, saves, reloaded, crashes>>
  BY DEF CreateFile
<1>2. TypeOK /\ AreObjects(objects) /\ Len(objects) \in Nat /\ Again /\ Phases
  BY LenProperties DEF FileInv, Shape, AreObjects
<1>3. TypeOK'
  BY <1>1, <1>2 DEF TypeOK
<1>4. Shape'
  BY <1>1, <1>2, <1>3 DEF FileInv, Shape, AreObjects
<1>5. Phases' /\ Again' /\ disk = <<>> /\ ~complete
  BY <1>1, <1>2 DEF Phases, Again
<1>6. PICK o : o = [i \in 0..0 |-> 0]
  OBVIOUS
<1>7. Laid(<<>>, objects, 0, o)
  BY <1>2, <1>6, NothingLaid
<1>8. Writing'
  BY <1>1, <1>6, <1>7 DEF Writing
<1>9. Reading'
  BY <1>1, <1>2, <1>5, <1>6, <1>7, FileOfObjects
<1> QED
  BY <1>4, <1>5, <1>8, <1>9 DEF FileInv

LEMMA WritePropertyKeeps ==
  ASSUME FileInv, WriteProperty
  PROVE  FileInv'
<1>1. /\ pc = "write" /\ at < Len(objects) /\ objects[at + 1] # Null /\ at' = at + 1
      /\ written' = written \o Rows(at + 1, objects[at + 1])
      /\ UNCHANGED <<disk, exists, pc, objects, pos, loaded, complete, saves, reloaded, crashes>>
  BY DEF WriteProperty, Rows
<1>2. TypeOK /\ AreObjects(objects) /\ Len(objects) \in Nat /\ Again /\ Phases
      /\ written \in Seq(AllLines)
  BY LenProperties DEF FileInv, Shape, AreObjects
<1>3. PICK o : Laid(written, objects, at, o) /\ Len(written) = o[at]
  BY <1>1 DEF FileInv, Writing
<1>4. /\ written' \in Seq(AllLines)
      /\ \E p : Laid(written', objects, at + 1, p) /\ Len(written') = p[at + 1]
  BY <1>1, <1>2, <1>3, MoreLaid
<1>5. TypeOK'
  <2>1. at' \in 0..Len(objects)
    BY <1>1, <1>2 DEF TypeOK
  <2> QED
    BY <1>1, <1>2, <2>1 DEF TypeOK
<1>6. Shape'
  BY <1>1, <1>2, <1>4, <1>5 DEF FileInv, Shape, AreObjects
<1>7. Phases' /\ Again'
  BY <1>1, <1>2 DEF Phases, Again
<1>8. Writing'
  BY <1>1, <1>4 DEF Writing
<1>9. PICK s, k, u : Saved(s, k, u)
  BY DEF FileInv, Reading
<1>10. Saved(s, k, u)'
  BY <1>1, <1>9 DEF Saved
<1>11. Reading'
  BY <1>1, <1>10 DEF Reading
<1> QED
  BY <1>6, <1>7, <1>8, <1>11 DEF FileInv

\* The writer is closed, with or without an exception.
LEMMA ClosedKeeps ==
  ASSUME FileInv, pc = "write", disk' = written, pc' = "idle", complete' \in BOOLEAN,
         complete' => at = Len(objects),
         UNCHANGED <<exists, objects, at, written, pos, loaded, saves, reloaded, crashes>>
  PROVE  FileInv'
<1>1. /\ TypeOK /\ AreObjects(objects) /\ Len(objects) \in Nat /\ Again /\ Phases
      /\ written \in Seq(AllLines) /\ Len(written) \in Nat
  BY LenProperties DEF FileInv, Shape, AreObjects
<1>2. pos = 1
  BY <1>1 DEF Phases
<1>3. TypeOK'
  BY <1>1, <1>2 DEF TypeOK
<1>4. Shape'
  BY <1>1, <1>3 DEF FileInv, Shape, AreObjects
<1>5. Phases' /\ Again' /\ Writing'
  BY <1>1 DEF Phases, Again, Writing
<1>6. PICK o : Laid(written, objects, at, o) /\ Len(written) = o[at]
  BY DEF FileInv, Writing
<1>7. Reading'
  BY <1>1, <1>6, FileOfObjects
<1> QED
  BY <1>4, <1>5, <1>7 DEF FileInv

LEMMA CrashKeeps ==
  ASSUME FileInv, Crash
  PROVE  FileInv'
<1>1. /\ pc \in {"create", "write"} /\ crashes < MaxCrashes /\ crashes' = crashes + 1 /\ pc' = "idle"
      /\ UNCHANGED <<exists, objects, at, written, pos, loaded, complete, reloaded, saves>>
  BY DEF Crash
<1>2. PICK n \in 0..Len(written) : disk' = IF exists THEN SubSeq(written, 1, n) ELSE <<>>
  BY DEF Crash
<1>3. /\ TypeOK /\ AreObjects(objects) /\ Len(objects) \in Nat /\ Again /\ Phases
      /\ written \in Seq(AllLines) /\ Len(written) \in Nat
  BY LenProperties DEF FileInv, Shape, AreObjects
<1>4. pos = 1 /\ ~complete
  BY <1>1, <1>3 DEF Phases
<1>5. \E k, o : Laid(disk', objects, k, o) /\ Len(disk') <= o[k] /\ disk' \in Seq(AllLines)
  <2>1. CASE pc = "create"
    <3>1. disk' = <<>>
      BY <1>2, <1>3, <2>1 DEF Phases
    <3>2. PICK o : o = [i \in 0..0 |-> 0]
      OBVIOUS
    <3>3. Laid(disk', objects, 0, o)
      BY <1>3, <3>1, <3>2, NothingLaid
    <3>4. Len(disk') <= o[0] /\ disk' \in Seq(AllLines)
      BY <3>1, <3>2
    <3> QED
      BY <3>3, <3>4
  <2>2. CASE pc = "write"
    <3>1. disk' = SubSeq(written, 1, n)
      BY <1>2, <1>3, <2>2 DEF Phases
    <3>2. PICK o : Laid(written, objects, at, o) /\ Len(written) = o[at]
      BY <2>2 DEF FileInv, Writing
    <3>3. disk' \in Seq(AllLines) /\ Len(disk') = n /\ Laid(disk', objects, at, o)
      BY <1>3, <3>1, <3>2, LaidCut
    <3>4. Len(disk') <= o[at]
      BY <1>2, <1>3, <3>2, <3>3
    <3> QED
      BY <3>3, <3>4
  <2> QED
    BY <1>1, <2>1, <2>2
<1>6. TypeOK'
  <2>1. crashes' \in 0..MaxCrashes
    BY <1>1, <1>3, MemorizeAssumption DEF TypeOK
  <2>2. Len(disk') \in Nat
    BY <1>5, LenProperties
  <2>3. pos' \in 1..Len(disk') + 1
    BY <1>1, <1>4, <2>2
  <2> QED
    BY <1>1, <1>3, <2>1, <2>3 DEF TypeOK
<1>7. Shape'
  BY <1>1, <1>3, <1>5, <1>6 DEF FileInv, Shape, AreObjects
<1>8. Phases' /\ Again' /\ Writing'
  BY <1>1, <1>3 DEF Phases, Again, Writing
<1>9. Reading'
  BY <1>1, <1>3, <1>4, <1>5, FileOfObjects
<1> QED
  BY <1>7, <1>8, <1>9 DEF FileInv

LEMMA StartLoadKeeps ==
  ASSUME FileInv, StartLoad
  PROVE  FileInv'
<1>1. /\ pc = "idle" /\ pos' = 1 /\ loaded' = <<>> /\ pc' = "load"
      /\ UNCHANGED <<disk, exists, objects, at, written, complete, saves, reloaded, crashes>>
  BY DEF StartLoad
<1>2. TypeOK /\ AreObjects(objects) /\ Len(objects) \in Nat /\ Again /\ disk \in Seq(AllLines)
      /\ Len(disk) \in Nat
  BY LenProperties DEF FileInv, Shape, AreObjects
<1>3. TypeOK'
  <2>1. MaxObjects * Len(Types) \in Nat
    BY MemorizeAssumption, LenProperties
  <2> QED
    BY <1>1, <1>2, <2>1 DEF TypeOK
<1>4. Shape'
  BY <1>1, <1>2, <1>3 DEF FileInv, Shape, AreObjects
<1>5. Phases' /\ Again' /\ Writing'
  BY <1>1, <1>2 DEF Phases, Again, Writing
<1>6. PICK s, k, o : Saved(s, k, o)
  BY DEF FileInv, Reading
<1>7. Saved(s, k, o)'
  BY <1>1, <1>6 DEF Saved
<1>8. InStep(k, o)'
  <2>1. k \in Nat /\ o[0] = 0
    BY <1>6, LenProperties DEF Saved, Laid, AreObjects
  <2> QED
    BY <1>1, <2>1 DEF InStep
<1>9. Reading'
  BY <1>7, <1>8 DEF Reading
<1> QED
  BY <1>4, <1>5, <1>9 DEF FileInv

LEMMA ReadThrowsKeeps ==
  ASSUME FileInv, ReadThrows
  PROVE  FileInv'
<1>1. /\ pc = "load" /\ ~AtEnd /\ TypeOf(Len(loaded) + 1) # "bool" /\ ~NumberAt(pos) /\ pc' = "failed"
      /\ UNCHANGED <<disk, exists, objects, at, written, pos, loaded, complete, saves, reloaded, crashes>>
  BY DEF ReadThrows
<1>2. PICK s, k, o : Saved(s, k, o) /\ (InStep(k, o) \/ Short)
  BY <1>1 DEF FileInv, Reading
<1>3. ~complete
  <2>1. SUFFICES ASSUME complete PROVE FALSE
    OBVIOUS
  <2>2. InStep(k, o)
    BY <1>2, <2>1 DEF Short
  <2>3. pos <= Len(disk)
    BY <1>1, <1>2, <2>1, <2>2, Missing
  <2>4. PICK i : i = Len(loaded) + 1
    OBVIOUS
  <2>5. PICK v : v = s[i]
    OBVIOUS
  <2>6. i \in Nat \ {0} /\ v # Null /\ v \in Values(TypeOf(i)) /\ disk[pos] = Rows(i, v)[1]
    BY <1>1, <1>2, <2>2, <2>3, <2>4, <2>5, AtFirstRow
  <2>7. \E n \in DOMAIN Decimal : Rows(i, v)[1] = Decimal[n]
    <3>1. CASE TypeOf(i) = "string"
      <4>1. v \in Texts \cup {Null} /\ Rows(i, v)[1] = CountLine(Len(v))
        BY <2>6, <3>1, TextRows
      <4>2. Len(v) \in 1..MaxLines /\ MaxLines \in 1..Len(Decimal) - 1 /\ Len(Decimal) \in Nat
        BY <2>6, <4>1, TextIs, LenProperties, MemorizeAssumption
      <4>3. Len(v) + 1 \in DOMAIN Decimal
        BY <4>2, LenProperties, MemorizeAssumption
      <4> QED
        BY <4>1, <4>3 DEF CountLine
    <3>2. CASE TypeOf(i) = "int"
      <4>1. PICK n \in DOMAIN Decimal : v = <<Decimal[n]>>
        BY <2>6, <3>2, NumberRow
      <4>2. Rows(i, v) = v
        BY <2>6, <3>2, NumberRow
      <4> QED
        BY <4>1, <4>2
    <3> QED
      BY <1>1, <2>4, <2>6, <3>1, <3>2, Places
  <2>8. IsInt(disk[pos])
    BY <2>6, <2>7, NumberIs
  <2> QED
    BY <1>1, <2>3, <2>8 DEF NumberAt
<1>4. Shape'
  BY <1>1 DEF FileInv, Shape, TypeOK, AreObjects
<1>5. Phases' /\ Again' /\ Writing'
  BY <1>1, <1>3 DEF FileInv, Phases, Again, Writing
<1>6. Saved(s, k, o)'
  BY <1>1, <1>2 DEF Saved
<1>7. Reading'
  BY <1>1, <1>6 DEF Reading
<1> QED
  BY <1>4, <1>5, <1>7 DEF FileInv

LEMMA EndLoadKeeps ==
  ASSUME FileInv, EndLoad
  PROVE  FileInv'
<1>1. /\ pc = "load" /\ AtEnd /\ pc' = "done"
      /\ UNCHANGED <<disk, exists, objects, at, written, pos, loaded, complete, saves, reloaded, crashes>>
  BY DEF EndLoad
<1>2. PICK s, k, o : Saved(s, k, o) /\ (InStep(k, o) \/ Short)
  BY <1>1 DEF FileInv, Reading
<1>3. Shape'
  BY <1>1 DEF FileInv, Shape, TypeOK, AreObjects
<1>4. Phases' /\ Again' /\ Writing'
  BY <1>1 DEF FileInv, Phases, Again, Writing, AtEnd, AtObject
<1>5. Saved(s, k, o)' /\ (InStep(k, o)' \/ Short')
  BY <1>1, <1>2 DEF Saved, InStep, Short
<1>6. Reading'
  BY <1>5 DEF Reading
<1> QED
  BY <1>3, <1>4, <1>6 DEF FileInv

\* What is loaded from a file that was saved to its end.
LEMMA AllLoaded ==
  ASSUME FileInv, pc = "done", complete
  PROVE  /\ Len(loaded) = Len(objects) /\ \A i \in 1..Len(objects) : loaded[i] = Kept(i, objects[i])
<1>1. PICK s, k, o : Saved(s, k, o) /\ InStep(k, o)
  BY DEF FileInv, Reading, Short
<1>2. k = Len(s) /\ Len(s) = Len(objects) /\ Len(disk) = o[k] /\ AreObjects(s) /\ Laid(disk, s, k, o)
  BY <1>1 DEF Saved
<1>3. Len(loaded) \in Nat /\ Len(disk) \in Nat /\ k \in Nat /\ disk \in Seq(AllLines) /\ Len(loaded) <= k
  BY <1>1, <1>2, LenProperties DEF FileInv, Shape, InStep, AreObjects
<1>4. pos > Len(disk) /\ pos = o[Len(loaded)] + 1
  BY <1>1 DEF FileInv, Phases, AtEnd, InStep
<1>5. ~(Len(loaded) < k)
  <2>1. SUFFICES ASSUME Len(loaded) < k PROVE FALSE
    OBVIOUS
  <2>2. PICK r : r = Len(loaded)
    OBVIOUS
  <2>3. o[r] \in Nat /\ o[r + 1] <= o[k] /\ \E n \in Nat \ {0} : o[r + 1] = o[r] + n
    BY <1>2, <1>3, <2>1, <2>2, Offsets
  <2> QED
    BY <1>2, <1>3, <1>4, <2>2, <2>3
<1>6. Len(loaded) = Len(objects)
  BY <1>2, <1>3, <1>5
<1> QED
  BY <1>1, <1>6 DEF InStep

LEMMA SaveAgainKeeps ==
  ASSUME FileInv, SaveAgain
  PROVE  FileInv'
<1>1. /\ pc = "done" /\ complete /\ objects' = loaded /\ reloaded' = TRUE /\ pc' = "idle"
      /\ UNCHANGED <<disk, exists, at, written, pos, loaded, complete, saves, crashes>>
  BY DEF SaveAgain
<1>2. Len(loaded) = Len(objects) /\ \A i \in 1..Len(objects) : loaded[i] = Kept(i, objects[i])
  BY <1>1, AllLoaded
<1>3. AreObjects(objects) /\ Len(objects) \in Nat /\ loaded \in Seq(Seq(AllLines))
  BY LenProperties DEF FileInv, Shape, AreObjects
<1>4. ASSUME NEW i \in 1..Len(objects)
      PROVE  loaded[i] \in Values(TypeOf(i)) /\ Kept(i, loaded[i]) = loaded[i]
             /\ loaded[i] = Kept(i, objects[i])
  <2>1. i \in Nat \ {0} /\ objects[i] \in Values(TypeOf(i)) /\ loaded[i] = Kept(i, objects[i])
    BY <1>2, <1>3, <1>4 DEF AreObjects
  <2> QED
    BY <2>1, KeptIs
<1>5. AreObjects(loaded)
  BY <1>2, <1>3, <1>4 DEF AreObjects
<1>6. TypeOK'
  BY <1>1, <1>2, <1>3 DEF FileInv, Shape, TypeOK
<1>7. Shape'
  <2>1. AreObjects(objects)'
    BY <1>1, <1>5 DEF AreObjects
  <2>2. Len(loaded') <= Len(objects')
    BY <1>1, <1>2, <1>3
  <2> QED
    BY <1>1, <1>6, <2>1, <2>2 DEF FileInv, Shape
<1>8. Phases' /\ Writing'
  BY <1>1 DEF Phases, Writing
<1>9. Again'
  BY <1>1, <1>2, <1>4 DEF Again, Kept
<1>10. PICK s, k, o : Saved(s, k, o)
  BY DEF FileInv, Reading
<1>11. \A i \in 1..Len(s) : Kept(i, s[i]) = Kept(i, loaded[i])
  BY <1>4, <1>10 DEF Saved
<1>12. Saved(s, k, o)'
  BY <1>1, <1>2, <1>10, <1>11 DEF Saved
<1>13. Reading'
  BY <1>1, <1>12 DEF Reading
<1> QED
  BY <1>7, <1>8, <1>9, <1>13 DEF FileInv

LEMMA NextFileInv == FileInv /\ [Next]_vars => FileInv'
<1> SUFFICES ASSUME FileInv, [Next]_vars PROVE FileInv'
  OBVIOUS
<1>1. CASE StartSave
  BY <1>1, StartSaveKeeps
<1>2. CASE CreateFile
  BY <1>2, CreateFileKeeps
<1>3. CASE WriteProperty
  BY <1>3, WritePropertyKeeps
<1>4. CASE WriteThrows
  <2>1. complete' \in BOOLEAN /\ ~complete'
    BY <1>4 DEF WriteThrows, FileInv, Phases, Shape, TypeOK
  <2>2. /\ pc = "write" /\ disk' = written /\ pc' = "idle"
        /\ UNCHANGED <<exists, objects, at, written, pos, loaded, saves, reloaded, crashes>>
    BY <1>4 DEF WriteThrows
  <2> QED
    BY <2>1, <2>2, ClosedKeeps
<1>5. CASE CloseFile
  BY <1>5, ClosedKeeps DEF CloseFile
<1>6. CASE Crash
  BY <1>6, CrashKeeps
<1>7. CASE StartLoad
  BY <1>7, StartLoadKeeps
<1>8. CASE ReadString
  BY <1>8, ReadStringKeeps
<1>9. CASE ReadInt
  BY <1>9, ReadIntKeeps
<1>10. CASE ReadBool
  BY <1>10, ReadBoolKeeps
<1>11. CASE ReadThrows
  BY <1>11, ReadThrowsKeeps
<1>12. CASE EndLoad
  BY <1>12, EndLoadKeeps
<1>13. CASE SaveAgain
  BY <1>13, SaveAgainKeeps
<1>14. CASE UNCHANGED vars
  <2>1. UNCHANGED <<disk, exists, pc, objects, at, written, pos, loaded, complete, reloaded, saves, crashes>>
    BY <1>14 DEF vars
  <2>2. Shape'
    BY <2>1 DEF FileInv, Shape, TypeOK, AreObjects
  <2>3. Phases' /\ Writing' /\ Again'
    BY <2>1 DEF FileInv, Phases, AtEnd, AtObject, Writing, Again
  <2>4. PICK s, k, o : Saved(s, k, o) /\ (pc \in {"load", "done"} => InStep(k, o) \/ Short)
    BY DEF FileInv, Reading
  <2>5. Saved(s, k, o)'
    BY <2>1, <2>4 DEF Saved
  <2>6. pc' \in {"load", "done"} => InStep(k, o)' \/ Short'
    BY <2>1, <2>4 DEF InStep, Short
  <2>7. Reading'
    BY <2>5, <2>6 DEF Reading
  <2> QED
    BY <2>2, <2>3, <2>7 DEF FileInv
<1> QED
  BY <1>1, <1>2, <1>3, <1>4, <1>5, <1>6, <1>7, <1>8, <1>9, <1>10, <1>11, <1>12, <1>13, <1>14
     DEF Next

-----------------------------------------------------------------------------
(* What the format promises *)

\* The variables keep their types: no save, load or crash leaves the writer or
\* the reader outside its file or its objects (Memorize.cs, MemorizePortable).
THEOREM TypeCorrect == Spec => []TypeOK
<1>1. FileInv => TypeOK
  BY DEF FileInv, Shape
<1> QED
  BY <1>1, InitFileInv, NextFileInv, PTL DEF Spec

\* A file that Save wrote to its end is never refused by Load, and loads as it
\* was saved, but for the leading blank lines of its texts.
THEOREM RoundTripCorrect == Spec => []RoundTrip
<1>1. FileInv => RoundTrip
  <2> SUFFICES ASSUME FileInv, pc \in {"done", "failed"}, complete
               PROVE  pc = "done" /\ loaded = [i \in DOMAIN objects |-> Kept(i, objects[i])]
    BY DEF RoundTrip
  <2>1. pc = "done"
    BY DEF FileInv, Phases
  <2>2. Len(loaded) = Len(objects) /\ \A i \in 1..Len(objects) : loaded[i] = Kept(i, objects[i])
    BY <2>1, AllLoaded
  <2>3. /\ loaded \in Seq(Seq(AllLines)) /\ DOMAIN loaded = 1..Len(loaded)
        /\ DOMAIN objects = 1..Len(objects)
    BY LenProperties DEF FileInv, Shape, AreObjects
  <2>4. loaded = [i \in 1..Len(loaded) |-> loaded[i]]
    BY <2>3
  <2> QED
    BY <2>1, <2>2, <2>3, <2>4
<1> QED
  BY <1>1, InitFileInv, NextFileInv, PTL DEF Spec

\* What Load gave once survives any further Save and Load exactly.
THEOREM StableCorrect == Spec => []StableAfterFirst
<1>1. FileInv => StableAfterFirst
  <2> SUFFICES ASSUME FileInv, pc = "done", complete, reloaded
               PROVE  loaded = objects
    BY DEF StableAfterFirst
  <2>1. Len(loaded) = Len(objects) /\ \A i \in 1..Len(objects) : loaded[i] = Kept(i, objects[i])
    BY AllLoaded
  <2>2. \A i \in 1..Len(objects) : objects[i] = Kept(i, objects[i])
    BY DEF FileInv, Again
  <2>3. loaded \in Seq(Seq(AllLines)) /\ objects \in Seq(Seq(AllLines))
    BY DEF FileInv, Shape, AreObjects
  <2>4. \A i \in 1..Len(loaded) : loaded[i] = objects[i]
    BY <2>1, <2>2
  <2> QED
    BY <2>1, <2>3, <2>4, SeqEqual
<1> QED
  BY <1>1, InitFileInv, NextFileInv, PTL DEF Spec

\* Of an object whose texts have a number behind them, a file whose save was
\* cut short is refused, or gives whole objects as saved, of which at most the
\* last one's trailing flags read as false.
THEOREM CutShortCorrect == NumbersFollowTexts => (Spec => []CutShortIsNoticed)
<1> SUFFICES ASSUME NumbersFollowTexts PROVE Spec => []CutShortIsNoticed
  OBVIOUS
<1>1. FileInv => CutShortIsNoticed
  <2> SUFFICES ASSUME FileInv, pc = "done", ~complete
               PROVE  /\ Len(loaded) <= Len(objects)
                      /\ \A i \in DOMAIN loaded :
                           \/ loaded[i] = Kept(i, objects[i])
                           \/ /\ loaded[i] = Flag(FALSE)
                              /\ \A j \in i..Len(loaded) : TypeOf(j) = "bool"
    BY DEF CutShortIsNoticed
  <2>1. /\ Len(loaded) \in Nat /\ Len(loaded) <= Len(objects) /\ DOMAIN loaded = 1..Len(loaded)
        /\ Len(loaded) % Len(Types) = 0
    BY LenProperties DEF FileInv, Shape, Phases, AtEnd, AtObject
  <2>2. PICK k, o : InStep(k, o) \/ Short
    BY DEF FileInv, Reading
  <2>3. CASE InStep(k, o)
    BY <2>1, <2>3 DEF InStep
  <2>4. CASE Short
    <3>1. CASE \E c \in 0..Len(loaded) :
                 /\ \A i \in 1..c : loaded[i] = Kept(i, objects[i])
                 /\ \A i \in c + 1..Len(loaded) : TypeOf(i) = "bool" /\ loaded[i] = Flag(FALSE)
      <4>1. PICK c \in 0..Len(loaded) :
                 /\ \A i \in 1..c : loaded[i] = Kept(i, objects[i])
                 /\ \A i \in c + 1..Len(loaded) : TypeOf(i) = "bool" /\ loaded[i] = Flag(FALSE)
        BY <3>1
      <4>2. ASSUME NEW i \in 1..Len(loaded), ~(i <= c)
            PROVE  loaded[i] = Flag(FALSE) /\ \A j \in i..Len(loaded) : TypeOf(j) = "bool"
        <5>1. i \in c + 1..Len(loaded) /\ \A j \in i..Len(loaded) : j \in c + 1..Len(loaded)
          BY <2>1, <4>2
        <5> QED
          BY <4>1, <5>1
      <4>3. \A i \in 1..Len(loaded) : i <= c => i \in 1..c
        BY <2>1
      <4> QED
        BY <2>1, <4>1, <4>2, <4>3
    <3>2. CASE ~\E c \in 0..Len(loaded) :
                 /\ \A i \in 1..c : loaded[i] = Kept(i, objects[i])
                 /\ \A i \in c + 1..Len(loaded) : TypeOf(i) = "bool" /\ loaded[i] = Flag(FALSE)
      <4>1. Len(loaded) # 0 /\ \E q \in Place(Len(loaded)) + 1..Len(Types) : Types[q] = "int"
        BY <2>4, <3>2 DEF Short
      <4>2. Len(loaded) \in Nat \ {0} /\ Len(Types) \in Nat
        BY <2>1, <4>1, Places
      <4>3. Place(Len(loaded)) = Len(Types)
        BY <2>1, <4>2, Places
      <4> QED
        BY <4>1, <4>2, <4>3
    <3> QED
      BY <3>1, <3>2
  <2> QED
    BY <2>2, <2>3, <2>4
<1> QED
  BY <1>1, InitFileInv, NextFileInv, PTL DEF Spec
=============================================================================
