------------------------- MODULE WorkspaceTree_proofs -------------------------
(***************************************************************************)
(* Theorems about how the tree of Workspace shows the disk, for any tree   *)
(* and any disk: one lemma per operation says that its nodes still stand   *)
(* for what is on disk, and the last theorem which operations do not.      *)
(***************************************************************************)
EXTENDS Workspace_proofs

-----------------------------------------------------------------------------
(* Where a path leads *)

\* The key of two paths in a row is their keys in a row.
LEMMA KeyJoin ==
  ASSUME NEW p \in Path, NEW q \in Path
  PROVE  Key(p \o q) = Key(p) \o Key(q)
<1>1. PICK r, a, b : r = p \o q /\ a = Key(p) /\ b = Key(q)
  OBVIOUS
<1>2. /\ Len(p) \in Nat /\ Len(q) \in Nat
      /\ r \in Path /\ Len(r) = Len(p) + Len(q)
      /\ \A i \in 1..Len(p) : r[i] = p[i]
      /\ \A i \in 1..Len(q) : r[Len(p) + i] = q[i]
  BY <1>1, PathParts, JoinParts
<1>3. a \in Path /\ Len(a) = Len(p) /\ b \in Path /\ Len(b) = Len(q)
  BY <1>1, KeyParts
<1>4. PICK c : c = a \o b
  OBVIOUS
<1>5. /\ c \in Path /\ Len(c) = Len(a) + Len(b)
      /\ \A i \in 1..Len(a) : c[i] = a[i]
      /\ \A i \in 1..Len(b) : c[Len(a) + i] = b[i]
  <2>1. a \in Path /\ b \in Path
    BY <1>3
  <2> QED BY <1>4, <2>1, JoinParts
<1>6. PICK k : k = Key(r)
  OBVIOUS
<1>7. k \in Path /\ Len(k) = Len(r)
  BY <1>2, <1>6, KeyParts
<1>8. ASSUME NEW i \in 1..Len(p) PROVE k[i] = c[i]
  <2>1. i \in DOMAIN r /\ i \in DOMAIN p /\ i \in 1..Len(a) /\ r[i] = p[i]
    BY <1>2, <1>3, PathParts
  <2>2. k[i] = a[i]
    BY <1>1, <1>6, <2>1 DEF Key
  <2> QED BY <1>5, <2>1, <2>2
<1>9. ASSUME NEW i \in 1..Len(q) PROVE k[Len(p) + i] = c[Len(p) + i]
  <2>1. Len(p) + i \in 1..Len(r)
    BY <1>2
  <2>2. Len(p) + i \in DOMAIN r /\ i \in DOMAIN q /\ i \in 1..Len(b) /\ r[Len(p) + i] = q[i]
    BY <1>2, <1>3, <2>1, PathParts
  <2>3. k[Len(p) + i] = b[i]
    BY <1>1, <1>6, <2>2 DEF Key
  <2> QED BY <1>3, <1>5, <2>2, <2>3
<1>10. ASSUME NEW i \in 1..Len(k) PROVE k[i] = c[i]
  <2>1. CASE i <= Len(p)
    BY <1>2, <1>7, <1>8, <1>10, <2>1
  <2>2. CASE i > Len(p)
    <3>1. i - Len(p) \in 1..Len(q) /\ Len(p) + (i - Len(p)) = i
      BY <1>2, <1>7, <1>10, <2>2
    <3> QED BY <1>9, <3>1
  <2> QED BY <1>2, <1>7, <1>10, <2>1, <2>2
<1>11. Len(k) = Len(c)
  BY <1>2, <1>3, <1>5, <1>7
<1>12. k = c
  BY <1>5, <1>7, <1>10, <1>11, SamePath
<1> QED BY <1>1, <1>4, <1>6, <1>12

\* Three paths in a row
LEMMA JoinThree ==
  ASSUME NEW p \in Path, NEW q \in Path, NEW r \in Path
  PROVE  (p \o q) \o r = p \o (q \o r)
BY DEF Path

\* Taking off the last part of a path.
LEMMA FrontOf ==
  ASSUME NEW p \in Path, NEW x \in Parts
  PROVE  Front(p \o <<x>>) = p
<1>1. PICK r : r = p \o <<x>>
  OBVIOUS
<1>2. /\ Len(p) \in Nat /\ r \in Path /\ Len(r) = Len(p) + 1
      /\ \A i \in 1..Len(p) : r[i] = p[i]
  BY <1>1, PathParts, OneMore
<1>3. PICK f : f = SubSeq(r, 1, Len(r) - 1)
  OBVIOUS
<1>4. 1 \in 1..Len(r) + 1 /\ Len(r) - 1 \in Int /\ 1 - 1 <= Len(r) - 1 /\ Len(r) - 1 <= Len(r)
  BY <1>2
<1>5. /\ f \in Path /\ Len(f) = Len(r) - 1 - 1 + 1
      /\ \A i \in 1..Len(r) - 1 - 1 + 1 : f[i] = r[1 + i - 1]
  BY <1>2, <1>3, <1>4, PieceParts
<1>6. Len(f) = Len(p) /\ \A i \in 1..Len(f) : f[i] = p[i]
  <2>1. Len(f) = Len(p)
    BY <1>2, <1>5
  <2>2. \A i \in 1..Len(f) : 1 + i - 1 = i /\ i \in 1..Len(p) /\ i \in 1..Len(r) - 1 - 1 + 1
    BY <1>2, <2>1
  <2> QED BY <1>2, <1>5, <2>1, <2>2
<1>7. f = p
  BY <1>5, <1>6, SamePath
<1> QED BY <1>1, <1>3, <1>7 DEF Front

\* A path that ends in a separator, and a name after it
LEMMA NameAfter ==
  ASSUME NEW q \in Path, q # <<>>, q[Len(q)] \in Seps, NEW x, Plain(x)
  PROVE  /\ q \o x \in Path /\ Named(q \o x)
         /\ LastSep(q \o x) = Len(q) /\ NameOf(q \o x) = x /\ DirOf(q \o x) = Front(q)
<1>1. PICK p : p = q \o x
  OBVIOUS
<1>2. x \in Path /\ Len(x) \in Nat /\ Len(x) # 0 /\ Len(q) \in Nat /\ Len(q) # 0
  BY PathParts, EmptySeq DEF Plain, Path
<1>3. /\ p \in Path /\ Len(p) = Len(q) + Len(x)
      /\ \A i \in 1..Len(q) : p[i] = q[i]
      /\ \A i \in 1..Len(x) : p[Len(q) + i] = x[i]
  BY <1>1, <1>2, JoinParts
<1>4. Named(p)
  BY <1>1, <1>2, PlainNamed, NameBelow
<1>5. LastSep(p) = Len(q)
  <2>1. Len(q) \in 0..Len(p) /\ Len(q) \in 1..Len(q)
    BY <1>2, <1>3
  <2>2. p[Len(q)] \in Seps
    BY <1>3, <2>1
  <2>3. ASSUME NEW j \in Len(q) + 1..Len(p) PROVE p[j] \notin Seps
    <3>1. j - Len(q) \in 1..Len(x) /\ Len(q) + (j - Len(q)) = j
      BY <1>2, <1>3
    <3>2. p[j] = x[j - Len(q)]
      BY <1>3, <3>1
    <3> QED BY <3>1, <3>2 DEF Plain
  <2> QED BY <1>3, <2>1, <2>2, <2>3, LastSepIf
<1>6. NameOf(p) = x
  <2>1. PICK f, m, n : f = SubSeq(p, m, n) /\ m = Len(q) + 1 /\ n = Len(p)
    OBVIOUS
  <2>2. m \in 1..Len(p) + 1 /\ n \in Int /\ m - 1 <= n /\ n <= Len(p) /\ n - m + 1 = Len(x)
    BY <1>2, <1>3, <2>1
  <2>3. f \in Path /\ Len(f) = n - m + 1 /\ \A i \in 1..n - m + 1 : f[i] = p[m + i - 1]
    BY <1>3, <2>1, <2>2, PieceParts
  <2>4. \A i \in 1..Len(x) : m + i - 1 = Len(q) + i
    BY <1>2, <2>1
  <2>5. \A i \in 1..Len(f) : f[i] = x[i]
    BY <1>3, <2>2, <2>3, <2>4
  <2>6. f = x
    BY <1>2, <2>2, <2>3, <2>5, SamePath
  <2> QED BY <1>5, <2>1, <2>6 DEF NameOf
<1>7. DirOf(p) = Front(q)
  <2>1. PICK f, g, n : f = SubSeq(p, 1, n) /\ g = SubSeq(q, 1, n) /\ n = Len(q) - 1
    OBVIOUS
  <2>2. /\ 1 \in 1..Len(p) + 1 /\ 1 \in 1..Len(q) + 1 /\ n \in Int /\ 1 - 1 <= n
        /\ n <= Len(p) /\ n <= Len(q) /\ n - 1 + 1 = n
    BY <1>2, <1>3, <2>1
  <2>3. f \in Path /\ Len(f) = n - 1 + 1 /\ \A i \in 1..n - 1 + 1 : f[i] = p[1 + i - 1]
    BY <1>3, <2>1, <2>2, PieceParts
  <2>4. g \in Path /\ Len(g) = n - 1 + 1 /\ \A i \in 1..n - 1 + 1 : g[i] = q[1 + i - 1]
    BY <1>2, <2>1, <2>2, PieceParts
  <2>5. \A i \in 1..n : 1 + i - 1 = i /\ i \in 1..Len(q)
    BY <1>2, <2>1
  <2>6. Len(f) = Len(g) /\ \A i \in 1..Len(f) : f[i] = g[i]
    BY <1>3, <2>2, <2>3, <2>4, <2>5
  <2>7. f = g
    BY <2>3, <2>4, <2>6, SamePath
  <2> QED BY <1>5, <2>1, <2>7 DEF DirOf, Front
<1> QED BY <1>1, <1>3, <1>4, <1>5, <1>6, <1>7

\* A name stays one as a key.
LEMMA PlainKey ==
  ASSUME NEW x, Plain(x)
  PROVE  Plain(Key(x))
<1>1. x \in Path /\ Len(x) \in Nat /\ Len(x) # 0 /\ \A i \in 1..Len(x) : x[i] \notin Seps
  BY PathParts, EmptySeq DEF Plain, Path
<1>2. PICK k : k = Key(x)
  OBVIOUS
<1>3. k \in Path /\ Len(k) = Len(x) /\ IsKey(k) /\ \A i \in 1..Len(x) : k[i] = Sep <=> x[i] \in Seps
  BY <1>1, <1>2, KeyParts
<1>4. k # <<>>
  BY <1>1, <1>3
<1>5. \A i \in 1..Len(k) : k[i] \notin Seps
  BY <1>1, <1>3, PathParts DEF IsKey, Seps
<1> QED BY <1>2, <1>3, <1>4, <1>5 DEF Plain

\* The folder of a path that ends in a separator is the folder of what is in it.
LEMMA KeyAfter ==
  ASSUME NEW q \in Path, q # <<>>, q[Len(q)] \in Seps, NEW x, Plain(x)
  PROVE  /\ DirOf(Key(q \o x)) = Key(Front(q))
         /\ Key(q) = Key(Front(q)) \o <<Sep>> /\ Front(q) \in Path
         /\ Key(q \o x) = Key(q) \o Key(x)
<1>1. Len(q) \in Nat /\ Len(q) # 0
  BY PathParts, EmptySeq DEF Path
<1>2. PICK f : f = Front(q)
  OBVIOUS
<1>3. f \in Path /\ Len(f) = Len(q) - 1 /\ \A i \in 1..Len(f) : f[i] = q[i]
  <2>1. 1 \in 1..Len(q) + 1 /\ Len(q) - 1 \in Int /\ 1 - 1 <= Len(q) - 1 /\ Len(q) - 1 <= Len(q)
    BY <1>1
  <2>2. /\ f \in Path /\ Len(f) = Len(q) - 1 - 1 + 1
        /\ \A i \in 1..Len(q) - 1 - 1 + 1 : f[i] = q[1 + i - 1]
    BY <1>2, <2>1, PieceParts DEF Front
  <2>3. \A i \in 1..Len(q) - 1 : 1 + i - 1 = i
    OBVIOUS
  <2> QED BY <1>1, <2>2, <2>3
<1>4. PICK s : s = q[Len(q)]
  OBVIOUS
<1>5. s \in Seps /\ s \in Parts
  BY <1>1, <1>4, PathParts
<1>6. q = f \o <<s>>
  <2>1. PICK r : r = f \o <<s>>
    OBVIOUS
  <2>2. /\ r \in Path /\ Len(r) = Len(f) + 1 /\ \A i \in 1..Len(f) : r[i] = f[i]
        /\ r[Len(f) + 1] = s
    BY <1>3, <1>5, <2>1, OneMore
  <2>3. \A i \in 1..Len(q) : i \in 1..Len(f) \/ i = Len(f) + 1
    BY <1>1, <1>3
  <2>4. Len(f) + 1 = Len(q)
    BY <1>1, <1>3
  <2>5. Len(r) = Len(q) /\ \A i \in 1..Len(q) : r[i] = q[i]
    BY <1>3, <1>4, <2>2, <2>3, <2>4
  <2>6. r = q
    BY <2>2, <2>5, SamePath
  <2> QED BY <2>1, <2>6
<1>7. <<s>> \in Path /\ Key(<<s>>) = <<Sep>>
  <2>1. PICK e : e = <<s>>
    OBVIOUS
  <2>2. e \in Path /\ Len(e) = 1 /\ e[1] = s /\ DOMAIN e = 1..1
    BY <1>5, <2>1, OnePart, PathParts
  <2>3. PICK k : k = Key(e)
    OBVIOUS
  <2>4. k \in Path /\ Len(k) = 1 /\ k[1] = Sep
    <3>1. /\ k \in Path /\ Len(k) = Len(e)
          /\ \A i \in 1..Len(e) : k[i] = Sep <=> e[i] \in Seps
      BY <2>2, <2>3, KeyParts
    <3>2. 1 \in 1..Len(e)
      BY <2>2
    <3> QED BY <1>5, <2>2, <3>1, <3>2
  <2>5. PICK t : t = <<Sep>>
    OBVIOUS
  <2>6. t \in Path /\ Len(t) = 1 /\ t[1] = Sep
    BY <2>5, SepFacts, OnePart
  <2>7. \A i \in 1..1 : i = 1
    OBVIOUS
  <2>8. k = t
    BY <2>4, <2>6, <2>7, SamePath
  <2> QED BY <2>1, <2>2, <2>3, <2>5, <2>8
<1>8. Key(q) = Key(f) \o <<Sep>>
  BY <1>3, <1>6, <1>7, KeyJoin
<1>9. Key(q \o x) = Key(q) \o Key(x)
  BY KeyJoin DEF Plain
<1>10. DirOf(Key(q) \o Key(x)) = Front(Key(q))
  <2>1. Key(q) \in Path /\ Len(Key(q)) = Len(q) /\ \A i \in 1..Len(q) : Key(q)[i] = Sep <=> q[i] \in Seps
    BY KeyParts
  <2>2. Len(q) \in 1..Len(q)
    BY <1>1
  <2>3. Key(q)[Len(Key(q))] \in Seps /\ Key(q) # <<>>
    BY <1>1, <2>1, <2>2 DEF Seps
  <2> QED BY <2>1, <2>3, PlainKey, NameAfter
<1>11. Front(Key(q)) = Key(f)
  BY <1>3, <1>8, KeyParts, SepFacts, FrontOf
<1> QED BY <1>2, <1>3, <1>8, <1>9, <1>10, <1>11

\* The path that a new name gets in a folder: the name, and perhaps a number.
LEMMA NewName ==
  ASSUME Numerals, NEW taken, IsFiniteSet(taken),
         NEW q \in Path, q # <<>>, q[Len(q)] \in Seps, NEW x, Plain(x),
         NEW r, r = RightPath(taken, q \o x)
  PROVE  /\ r \in Path /\ Named(r) /\ Key(r) \notin taken
         /\ r = q \o NameOf(r) /\ Plain(NameOf(r))
         /\ DirOf(Key(r)) = Key(Front(q))
         /\ Legal(q) /\ Legal(x) => Legal(r)
<1>1. x \in Path /\ q \o x \in Path
  BY JoinParts DEF Plain
<1>2. Key(r) \notin taken /\ (r = q \o x \/ \E i \in Nat : r = (q \o x) \o <<Numeral(i)>>)
  BY <1>1, RightPathIs
<1>3. \E y : Plain(y) /\ r = q \o y /\ (Legal(x) => Legal(y))
  <2>1. CASE r = q \o x
    BY <2>1
  <2>2. ASSUME NEW i \in Nat, r = (q \o x) \o <<Numeral(i)>>
        PROVE  \E y : Plain(y) /\ r = q \o y /\ (Legal(x) => Legal(y))
    <3>1. PICK z, y : z = Numeral(i) /\ y = x \o <<z>>
      OBVIOUS
    <3>2. z \in Parts /\ z \notin Seps /\ z # Bad
      BY <3>1 DEF Numerals
    <3>3. <<z>> \in Path
      BY <3>2, OnePart
    <3>4. r = q \o y
      BY <1>1, <2>2, <3>1, <3>3, JoinThree
    <3>5. /\ y \in Path /\ Len(y) = Len(x) + 1 /\ Len(x) \in Nat
          /\ \A j \in 1..Len(x) : y[j] = x[j]
          /\ y[Len(x) + 1] = z
      BY <1>1, <3>1, <3>2, OneMore, PathParts
    <3>6. \A j \in 1..Len(y) : j \in 1..Len(x) \/ j = Len(x) + 1
      BY <3>5
    <3>7. y # <<>>
      BY <3>5
    <3>8. Plain(y)
      BY <3>2, <3>5, <3>6, <3>7 DEF Plain
    <3>9. Legal(x) => Legal(y)
      <4>1. DOMAIN y = 1..Len(y) /\ DOMAIN x = 1..Len(x)
        BY <1>1, <3>5, PathParts
      <4> QED BY <3>2, <3>5, <3>6, <4>1 DEF Legal
    <3> QED BY <3>4, <3>8, <3>9
  <2> QED BY <1>2, <2>1, <2>2
<1>4. PICK y : Plain(y) /\ r = q \o y /\ (Legal(x) => Legal(y))
  BY <1>3
<1>5. r \in Path /\ Named(r) /\ NameOf(r) = y
  BY <1>4, NameAfter
<1>6. DirOf(Key(r)) = Key(Front(q))
  BY <1>4, KeyAfter
<1>7. Legal(q) /\ Legal(x) => Legal(r)
  <2>1. SUFFICES ASSUME Legal(q), Legal(y) PROVE Legal(r)
    BY <1>4
  <2>2. y \in Path /\ Len(y) \in Nat /\ Len(q) \in Nat /\ DOMAIN y = 1..Len(y) /\ DOMAIN q = 1..Len(q)
    BY <1>4, PathParts DEF Plain
  <2>3. /\ DOMAIN r = 1..Len(r) /\ Len(r) = Len(q) + Len(y)
        /\ \A i \in 1..Len(q) : r[i] = q[i]
        /\ \A i \in 1..Len(y) : r[Len(q) + i] = y[i]
    BY <1>4, <1>5, <2>2, JoinParts, PathParts
  <2>4. ASSUME NEW i \in 1..Len(r) PROVE r[i] # Bad
    <3>1. CASE i <= Len(q)
      <4>1. i \in 1..Len(q)
        BY <2>2, <2>4, <3>1
      <4> QED BY <2>1, <2>2, <2>3, <4>1 DEF Legal
    <3>2. CASE i > Len(q)
      <4>1. i - Len(q) \in 1..Len(y) /\ Len(q) + (i - Len(q)) = i
        BY <2>2, <2>3, <2>4, <3>2
      <4>2. r[i] = y[i - Len(q)]
        BY <2>3, <4>1
      <4> QED BY <2>1, <2>2, <4>1, <4>2 DEF Legal
    <3> QED BY <2>2, <2>4, <3>1, <3>2
  <2> QED BY <2>3, <2>4 DEF Legal
<1> QED BY <1>2, <1>4, <1>5, <1>6, <1>7

\* The data folder is the root's.
LEMMA RootKey == Key(Front(ProjectDir \o <<Sep, "data", Sep>>)) = DataDir
<1>1. PICK s, d : s = Sep /\ d = "data"
  OBVIOUS
<1>2. /\ s \in Parts /\ d \in Parts /\ "P" \in Parts /\ s \notin {Sep2, "Data"} /\ d \notin {Sep2, "Data"}
      /\ "P" \notin {Sep2, "Data"}
  BY <1>1, SepFacts
<1>3. PICK a, b, c : a = <<"P">> /\ b = <<s, d>> /\ c = <<s>>
  OBVIOUS
<1>4. a \in Path /\ b \in Path /\ c \in Path
  BY <1>2, <1>3 DEF Path
<1>5. <<s, d, s>> = b \o c /\ <<"P", s, d>> = a \o b
  BY <1>2, <1>3 DEF Path
<1>6. a \o <<s, d, s>> = <<"P", s, d>> \o <<s>>
  BY <1>3, <1>4, <1>5, JoinThree
<1>7. <<"P", s, d>> \in Path
  BY <1>4, <1>5, JoinParts
<1>8. Front(a \o <<s, d, s>>) = <<"P", s, d>>
  BY <1>2, <1>6, <1>7, FrontOf
<1>9. IsKey(<<"P", s, d>>)
  <2>1. PICK p : p = <<"P", s, d>>
    OBVIOUS
  <2>2. p \in Path /\ DOMAIN p = 1..3 /\ p[1] = "P" /\ p[2] = s /\ p[3] = d
    BY <1>7, <2>1
  <2>3. \A i \in 1..3 : i = 1 \/ i = 2 \/ i = 3
    OBVIOUS
  <2>4. \A i \in 1..3 : p[i] \notin {Sep2, "Data"}
    BY <1>2, <2>2, <2>3
  <2> QED BY <2>1, <2>2, <2>4 DEF IsKey, Path
<1>10. Key(<<"P", s, d>>) = <<"P", s, d>>
  BY <1>9, KeyOfKey
<1> QED BY <1>1, <1>3, <1>8, <1>10 DEF ProjectDir, DataDir

\* The paths and the folders of the nodes
Folders ==
    /\ Root \in DOMAIN tree =>
          /\ NodePath[Root] = ProjectDir \o <<Sep, "data", Sep>>
          /\ FolderKey(Root) = DataDir /\ Above[Root] = {Root}
    /\ \A n \in DOMAIN tree :
          /\ GoodPath(NodePath[n]) /\ NodePath[n] # <<>> /\ NodePath[n][Len(NodePath[n])] \in Seps
          /\ FolderKey(n) \in Path /\ IsKey(FolderKey(n))
          /\ n \in Above[n] /\ Above[n] \subseteq DOMAIN tree
    /\ \A n \in DOMAIN tree \ {Root} :
          /\ tree[n].parent \in DOMAIN tree
          /\ Above[n] = {n} \cup Above[tree[n].parent]
          /\ NodePath[n] = NodePath[tree[n].parent] \o tree[n].text \o <<Sep>>
          /\ FolderKey(n) = Key(NodePath[tree[n].parent] \o tree[n].text)
          /\ FolderKey(n) = FolderKey(tree[n].parent) \o (<<Sep>> \o Key(tree[n].text))
          /\ DirOf(FolderKey(n)) = FolderKey(tree[n].parent)
          /\ Len(FolderKey(n)) > Len(FolderKey(tree[n].parent))

\* They follow from the tree being one.
LEMMA FoldersAre == TreeInv(tree) => Folders
<1>1. SUFFICES ASSUME TreeInv(tree), tree # <<>> PROVE Folders
  <2>1. TreeInv(tree) /\ tree = <<>> => DOMAIN tree = {}
    BY NoTree DEF TreeInv, NodesOK
  <2> QED BY <2>1 DEF Folders
<1>2. /\ NodePath[Root] = ProjectDir \o <<Sep, "data", Sep>>
      /\ \A n \in DOMAIN tree : GoodPath(NodePath[n])
      /\ \A n \in DOMAIN tree \ {Root} :
            NodePath[n] = NodePath[tree[n].parent] \o tree[n].text \o <<Sep>>
  BY <1>1, NodePathIs
<1>3. /\ \A n \in DOMAIN tree : Above[n] \subseteq DOMAIN tree /\ n \in Above[n]
      /\ Above[Root] = {Root}
      /\ \A n \in DOMAIN tree \ {Root} :
            tree[n].parent \in DOMAIN tree /\ Above[n] = {n} \cup Above[tree[n].parent]
  BY <1>1, AboveIs
<1>4. FolderKey(Root) = DataDir
  BY <1>2, RootKey DEF FolderKey
<1>5. ASSUME NEW n \in DOMAIN tree
      PROVE  /\ NodePath[n] \in Path /\ NodePath[n] # <<>> /\ NodePath[n][Len(NodePath[n])] \in Seps
             /\ FolderKey(n) \in Path /\ IsKey(FolderKey(n)) /\ Len(FolderKey(n)) \in Nat
  <2>1. PICK p : p = NodePath[n]
    OBVIOUS
  <2>2. p \in Path /\ Len(p) \in Nat /\ Len(p) >= 4 /\ p[Len(p)] = Sep
    BY <1>2, <2>1, PathParts DEF GoodPath
  <2>3. p # <<>>
    BY <2>2
  <2> QED BY <1>1, <2>1, <2>2, <2>3, FolderKeyIs, PathParts DEF Seps
<1>6. ASSUME NEW n \in DOMAIN tree \ {Root}
      PROVE  /\ FolderKey(n) = Key(NodePath[tree[n].parent] \o tree[n].text)
             /\ FolderKey(n) = FolderKey(tree[n].parent) \o (<<Sep>> \o Key(tree[n].text))
             /\ DirOf(FolderKey(n)) = FolderKey(tree[n].parent)
             /\ Len(FolderKey(n)) > Len(FolderKey(tree[n].parent))
  <2>1. PICK q, x, k : q = NodePath[tree[n].parent] /\ x = tree[n].text /\ k = FolderKey(tree[n].parent)
    OBVIOUS
  <2>2. Plain(x) /\ x \in Path
    BY <1>1, <2>1 DEF TreeInv, NodesOK, Plain
  <2>3. q \in Path /\ q # <<>> /\ q[Len(q)] \in Seps /\ k = Key(Front(q)) /\ k \in Path
    BY <1>3, <1>5, <2>1 DEF FolderKey
  <2>4. q \o x \in Path /\ NodePath[n] = (q \o x) \o <<Sep>>
    BY <1>2, <2>1, <2>2, <2>3, JoinParts
  <2>5. FolderKey(n) = Key(q \o x)
    BY <2>4, SepFacts, FrontOf DEF FolderKey
  <2>6. DirOf(Key(q \o x)) = k /\ Key(q) = k \o <<Sep>> /\ Key(q \o x) = Key(q) \o Key(x)
    BY <2>2, <2>3, KeyAfter
  <2>7. <<Sep>> \in Path /\ Len(<<Sep>>) = 1 /\ Key(x) \in Path /\ Len(Key(x)) \in Nat
    BY <2>2, SepFacts, OnePart, KeyParts, PathParts
  <2>8. Key(q \o x) = k \o (<<Sep>> \o Key(x))
    BY <2>3, <2>6, <2>7, JoinThree
  <2>9. Len(FolderKey(n)) > Len(k)
    <3>1. PICK y : y = <<Sep>> \o Key(x)
      OBVIOUS
    <3>2. y \in Path /\ Len(y) = 1 + Len(Key(x))
      BY <2>7, <3>1, JoinParts
    <3>3. Len(k \o y) = Len(k) + Len(y) /\ Len(k) \in Nat
      BY <2>3, <3>2, JoinParts, PathParts
    <3>4. Len(Key(q \o x)) = Len(k \o y)
      BY <2>8, <3>1
    <3> QED BY <2>5, <2>7, <3>2, <3>3, <3>4
  <2> QED BY <2>1, <2>5, <2>6, <2>8, <2>9
<1> QED BY <1>2, <1>3, <1>4, <1>5, <1>6 DEF Folders

-----------------------------------------------------------------------------
(* What the nodes stand for *)

\* A node's place, when its way up is as before
LEMMA SamePlaces ==
  ASSUME TreeInv(tree), TreeInv(tree'), NEW S, S \subseteq DOMAIN tree, S \subseteq DOMAIN tree',
         \A n \in S \ {Root} : /\ tree[n].parent \in S /\ tree'[n].parent = tree[n].parent
                               /\ tree'[n].text = tree[n].text
  PROVE  \A n \in S : /\ NodePath'[n] = NodePath[n] /\ FolderKey(n)' = FolderKey(n)
                      /\ tree'[n].tag = tree[n].tag => Where(n)' = Where(n)
<1>1. Folders /\ Folders'
  <2>1. (TreeInv(tree) => Folders)'
    BY FoldersAre, PTL
  <2> QED BY <2>1, FoldersAre
<1>2. PICK C : C = {n \in S : NodePath'[n] # NodePath[n]}
  OBVIOUS
<1>3. C \in SUBSET (DOMAIN tree \ {Root})
  BY <1>1, <1>2 DEF Folders
<1>4. \A n \in C : tree[n].parent \in C
  <2>1. SUFFICES ASSUME NEW n \in C, tree[n].parent \notin C PROVE FALSE
    OBVIOUS
  <2>2. n \in S \ {Root}
    BY <1>2, <1>3
  <2>3. NodePath'[tree[n].parent] = NodePath[tree[n].parent]
    BY <1>2, <2>1, <2>2
  <2>4. NodePath[n] = NodePath[tree[n].parent] \o tree[n].text \o <<Sep>>
    BY <1>1, <2>2 DEF Folders
  <2>5. NodePath'[n] = NodePath'[tree'[n].parent] \o tree'[n].text \o <<Sep>>
    BY <1>1, <2>2 DEF Folders
  <2> QED BY <1>2, <2>1, <2>2, <2>3, <2>4, <2>5
<1>5. C = {}
  BY <1>3, <1>4 DEF TreeInv, Rooted
<1>6. \A n \in S : NodePath'[n] = NodePath[n]
  BY <1>2, <1>5
<1>7. \A n \in S : FolderKey(n)' = FolderKey(n)
  BY <1>6 DEF FolderKey
<1> QED BY <1>6, <1>7 DEF Where, IsFile

\* The nodes show the disk, w being what they stand for.
Shows(t, w, fs, ds) == \A n \in DOMAIN t \ {Root} :
    /\ w[n] \in IF t[n].tag # NoPath THEN fs ELSE ds
    /\ \A m \in DOMAIN t \ {Root} : w[m] = w[n] => m = n
    /\ DirOf(w[n]) = w[t[n].parent]
    /\ t[n].parent = Root \/ t[t[n].parent].tag = NoPath

\* That is what Mirrors says.
LEMMA MirrorsIs ==
  TreeInv(tree) => (Mirrors <=> Shows(tree, [n \in DOMAIN tree |-> Where(n)], DOMAIN files, dirs))
<1>1. SUFFICES ASSUME TreeInv(tree)
               PROVE  Mirrors <=> Shows(tree, [n \in DOMAIN tree |-> Where(n)], DOMAIN files, dirs)
  OBVIOUS
<1>2. PICK w : w = [n \in DOMAIN tree |-> Where(n)]
  OBVIOUS
<1>3. \A n \in DOMAIN tree \ {Root} : tree[n].parent \in DOMAIN tree
  BY <1>1 DEF TreeInv, Rooted
<1>4. \A n \in DOMAIN tree : w[n] = Where(n) /\ (~IsFile(n) => w[n] = FolderKey(n))
  BY <1>2 DEF Where
<1>5. ASSUME NEW n \in DOMAIN tree \ {Root}
      PROVE  /\ IsFile(n) <=> tree[n].tag # NoPath
             /\ IsFile(tree[n].parent) <=> ~(tree[n].parent = Root \/ tree[tree[n].parent].tag = NoPath)
             /\ ~IsFile(tree[n].parent) => w[tree[n].parent] = FolderKey(tree[n].parent)
  BY <1>3, <1>4 DEF IsFile
<1> QED BY <1>2, <1>4, <1>5 DEF Mirrors, Shows

\* So it is shown of the tree after a step.
LEMMA MirrorsAfter ==
  ASSUME TreeInv(tree'), NEW w, \A n \in DOMAIN tree' : Where(n)' = w[n],
         Shows(tree', w, DOMAIN files', dirs')
  PROVE  Mirrors'
<1>1. (TreeInv(tree) => (Mirrors <=> Shows(tree, [n \in DOMAIN tree |-> Where(n)], DOMAIN files, dirs)))'
  BY MirrorsIs, PTL
<1>2. Mirrors' <=> Shows(tree', [n \in DOMAIN tree' |-> Where(n)'], DOMAIN files', dirs')
  BY <1>1
<1>3. PICK v : v = [n \in DOMAIN tree' |-> Where(n)']
  OBVIOUS
<1>4. \A n \in DOMAIN tree' : v[n] = w[n]
  BY <1>3
<1>5. \A n \in (DOMAIN tree') \ {Root} : tree'[n].parent \in DOMAIN tree'
  BY DEF TreeInv, Rooted
<1>6. Shows(tree', v, DOMAIN files', dirs')
  BY <1>4, <1>5 DEF Shows
<1> QED BY <1>2, <1>3, <1>6

\* What each node stands for, before a step
LEMMA Standing ==
  ASSUME TypeInv, Mirrors, NEW w, w = [n \in DOMAIN tree |-> Where(n)]
  PROVE  /\ Shows(tree, w, DOMAIN files, dirs)
         /\ Root \in DOMAIN tree => w[Root] = DataDir
         /\ \A n \in DOMAIN tree : ~IsFile(n) => w[n] = FolderKey(n)
         /\ \A n \in DOMAIN tree \ {Root} :
              w[n] \in Taken /\ IsKey(w[n]) /\ Named(w[n]) /\ w[n] \in Path
<1>1. TreeInv(tree) /\ Folders
  BY FoldersAre DEF TypeInv
<1>2. Shows(tree, w, DOMAIN files, dirs)
  BY <1>1, MirrorsIs
<1>3. Root \in DOMAIN tree => w[Root] = DataDir
  BY <1>1 DEF Folders, Where, IsFile
<1>4. \A k \in Taken : IsKey(k) /\ Named(k)
  BY DEF TypeInv, FilesInv, DiskInv, Taken
<1>5. \A n \in DOMAIN tree \ {Root} : w[n] \in Taken
  BY <1>2 DEF Shows, Taken
<1>6. \A n \in DOMAIN tree : ~IsFile(n) => w[n] = FolderKey(n)
  BY DEF Where
<1> QED BY <1>2, <1>3, <1>4, <1>5, <1>6 DEF IsKey, Path

\* No file has a node below it.
LEMMA NoFileAbove ==
  ASSUME TypeInv, Mirrors
  PROVE  \A m \in DOMAIN tree : \A a \in Above[m] : a # m => ~IsFile(a)
<1>1. TreeInv(tree) /\ Folders
  BY FoldersAre DEF TypeInv
<1>2. PICK C : C = {m \in DOMAIN tree : \E a \in Above[m] : a # m /\ IsFile(a)}
  OBVIOUS
<1>3. C \in SUBSET (DOMAIN tree \ {Root})
  BY <1>1, <1>2 DEF Folders
<1>4. ASSUME NEW m \in C PROVE tree[m].parent \in C
  <2>1. m \in DOMAIN tree \ {Root} /\ tree[m].parent \in DOMAIN tree /\ Above[m] = {m} \cup Above[tree[m].parent]
    BY <1>1, <1>2, <1>3 DEF Folders
  <2>2. PICK a \in Above[m] : a # m /\ IsFile(a)
    BY <1>2
  <2>3. ~IsFile(tree[m].parent)
    BY <2>1 DEF Mirrors
  <2> QED BY <1>2, <2>1, <2>2, <2>3
<1>5. C = {}
  BY <1>1, <1>3, <1>4 DEF TreeInv, Rooted
<1> QED BY <1>2, <1>5

\* Nothing is below a file.
LEMMA FileHasNone ==
  ASSUME TypeInv, Mirrors, NEW n \in DOMAIN tree, IsFile(n)
  PROVE  Below(n) = {n} /\ \A m \in DOMAIN tree \ {Root} : tree[m].parent # n
<1>1. Folders
  BY FoldersAre DEF TypeInv
<1> QED BY <1>1, NoFileAbove DEF Below, Folders, Mirrors

\* No folder of the tree is as high as the data folder.
LEMMA FoldersDeep ==
  ASSUME TypeInv, NEW n \in DOMAIN tree \ {Root}
  PROVE  Len(FolderKey(n)) > 3 /\ ~Within(DataDir, FolderKey(n))
<1>1. TreeInv(tree) /\ Folders /\ tree # <<>>
  BY FoldersAre DEF TypeInv
<1>2. \A m \in DOMAIN tree : Len(FolderKey(m)) \in Nat
  BY <1>1, PathParts DEF Folders
<1>3. PICK C : C = {m \in DOMAIN tree : Len(FolderKey(m)) < 3}
  OBVIOUS
<1>4. Len(DataDir) = 3 /\ DataDir \in Path
  BY DataDirIs
<1>5. C \in SUBSET (DOMAIN tree \ {Root})
  <2>1. Root \in DOMAIN tree => FolderKey(Root) = DataDir
    BY <1>1 DEF Folders
  <2>2. PICK l : l = Len(DataDir)
    OBVIOUS
  <2>3. ~(l < 3)
    BY <1>4, <2>2
  <2>4. Root \notin C
    BY <1>3, <2>1, <2>2, <2>3
  <2> QED BY <1>3, <2>4
<1>6. ASSUME NEW m \in C PROVE tree[m].parent \in C
  <2>1. m \in DOMAIN tree \ {Root} /\ tree[m].parent \in DOMAIN tree
    BY <1>1, <1>3, <1>5 DEF Folders
  <2>2. Len(FolderKey(m)) > Len(FolderKey(tree[m].parent))
    BY <1>1, <2>1 DEF Folders
  <2>3. PICK a, b : a = Len(FolderKey(m)) /\ b = Len(FolderKey(tree[m].parent))
    OBVIOUS
  <2>4. a \in Nat /\ b \in Nat /\ a > b /\ a < 3
    BY <1>2, <1>3, <2>1, <2>2, <2>3
  <2> QED BY <1>3, <2>1, <2>3, <2>4
<1>7. C = {}
  BY <1>1, <1>5, <1>6 DEF TreeInv, Rooted
<1>8. Len(FolderKey(n)) > 3
  <2>1. PICK a, b : a = Len(FolderKey(n)) /\ b = Len(FolderKey(tree[n].parent))
    OBVIOUS
  <2>2. tree[n].parent \in DOMAIN tree /\ a > b
    BY <1>1, <2>1 DEF Folders
  <2>3. a \in Nat /\ b \in Nat /\ ~(b < 3)
    BY <1>2, <1>3, <1>7, <2>1, <2>2
  <2> QED BY <2>1, <2>2, <2>3
<1>9. ~Within(DataDir, FolderKey(n))
  <2>1. PICK k : k = FolderKey(n)
    OBVIOUS
  <2>2. k \in Path /\ Len(k) > 3 /\ Len(k) \in Nat
    BY <1>1, <1>2, <1>8, <2>1 DEF Folders
  <2>3. ~(Len(k) < Len(DataDir)) /\ k # DataDir
    <3>1. PICK l, d : l = Len(k) /\ d = DataDir
      OBVIOUS
    <3>2. l \in Nat /\ l > 3 /\ Len(d) = 3
      BY <1>4, <2>2, <3>1
    <3>3. k # d
      <4>1. l # Len(d)
        BY <3>2
      <4>2. l = Len(k)
        BY <3>1
      <4> QED BY <4>1, <4>2
    <3> QED BY <3>1, <3>2, <3>3
  <2> QED BY <1>4, <2>1, <2>2, <2>3, InsideParts DEF Within
<1> QED BY <1>8, <1>9

\* What is below a folder on disk is below it in the tree, and the other way round.
LEMMA BelowIs ==
  ASSUME TypeInv, Mirrors, NEW n \in DOMAIN tree \ {Root}, ~IsFile(n),
         NEW w, w = [m \in DOMAIN tree |-> Where(m)]
  PROVE  \A m \in DOMAIN tree : m \in Below(n) <=> Within(w[m], FolderKey(n))
<1>1. TreeInv(tree) /\ Folders /\ tree # <<>> /\ Root \in DOMAIN tree
  BY FoldersAre DEF TypeInv, TreeInv, Rooted
<1>2. /\ Shows(tree, w, DOMAIN files, dirs) /\ w[Root] = DataDir /\ w[n] = FolderKey(n)
      /\ \A m \in DOMAIN tree \ {Root} : IsKey(w[m]) /\ w[m] \in Path
  BY <1>1, Standing
<1>3. PICK from : from = FolderKey(n)
  OBVIOUS
<1>4. from \in Path /\ ~Within(w[Root], from) /\ Root \notin Below(n) /\ n \in Below(n)
  BY <1>1, <1>2, <1>3, FoldersDeep DEF Folders, Below
<1>5. PICK C : C = {m \in DOMAIN tree : ~(m \in Below(n) <=> Within(w[m], from))}
  OBVIOUS
<1>6. C \in SUBSET (DOMAIN tree \ {Root})
  BY <1>4, <1>5
<1>7. ASSUME NEW m \in C PROVE tree[m].parent \in C
  <2>1. m \in DOMAIN tree \ {Root} /\ tree[m].parent \in DOMAIN tree
    BY <1>1, <1>5, <1>6 DEF Folders
  <2>2. m # n
    BY <1>2, <1>3, <1>4, <1>5 DEF Within
  <2>3. m \in Below(n) <=> tree[m].parent \in Below(n)
    BY <1>1, <2>1, <2>2 DEF Folders, Below
  <2>4. w[m] # from
    BY <1>2, <1>3, <2>1, <2>2 DEF Shows
  <2>5. DirOf(w[m]) = w[tree[m].parent]
    BY <1>2, <2>1 DEF Shows
  <2>6. LastSep(w[m]) # 0
    <3>1. w[m] \in Taken
      BY <2>1, Standing
    <3>2. CASE w[m] \in DOMAIN files
      BY <3>2, FileInDir DEF TypeInv, FilesInv
    <3>3. CASE LastSep(w[m]) = 0
      <4>1. DirOf(w[m]) = <<>>
        BY <1>2, <2>1, <3>3, DirParts
      <4>2. ~IsFile(tree[m].parent)
        BY <2>1 DEF Mirrors
      <4>3. w[tree[m].parent] = FolderKey(tree[m].parent)
        BY <2>1, <4>2, Standing
      <4>4. Len(FolderKey(tree[m].parent)) > 1
        BY <1>1, <2>1, FolderKeyIs
      <4>5. Len(<<>>) = 0
        OBVIOUS
      <4> QED BY <2>5, <4>1, <4>3, <4>4, <4>5
    <3> QED BY <3>1, <3>2, <3>3
  <2>7. Within(w[m], from) <=> Within(DirOf(w[m]), from)
    BY <1>2, <1>4, <2>1, <2>4, <2>6, DirInside DEF Within
  <2> QED BY <1>5, <2>1, <2>3, <2>5, <2>7
<1>8. C = {}
  BY <1>1, <1>6, <1>7 DEF TreeInv, Rooted
<1> QED BY <1>3, <1>5, <1>8

-----------------------------------------------------------------------------
(* Nodes that come, change and go *)

\* The tree shows the disk as long as nothing it shows goes.
LEMMA SameShows ==
  ASSUME TypeInv, Mirrors, TypeInv', UNCHANGED <<tree, dirs>>, DOMAIN files \subseteq DOMAIN files'
  PROVE  Mirrors'
<1>1. PICK w : w = [m \in DOMAIN tree |-> Where(m)]
  OBVIOUS
<1>2. TreeInv(tree) /\ TreeInv(tree')
  BY DEF TypeInv
<1>3. Shows(tree, w, DOMAIN files, dirs)
  BY <1>1, Standing
<1>4. \A m \in DOMAIN tree \ {Root} : tree[m].parent \in DOMAIN tree
  BY <1>2 DEF TreeInv, Rooted
<1>5. \A m \in DOMAIN tree : Where(m)' = w[m]
  BY <1>1, <1>2, <1>4, SamePlaces
<1>6. Shows(tree', w, DOMAIN files', dirs')
  BY <1>3 DEF Shows
<1> QED BY <1>2, <1>5, <1>6, MirrorsAfter

\* A new node for what is new on disk.
LEMMA LeafShows ==
  ASSUME TypeInv, Mirrors, TypeInv', NEW n \in DOMAIN tree, ~IsFile(n), NEW text, NEW tag \in Path,
         tree' = WithNode(n, text, tag),
         NEW K, K = IF tag # NoPath THEN Key(tag) ELSE Key(NodePath[n] \o text),
         K \notin Taken, DirOf(K) = FolderKey(n),
         DOMAIN files \subseteq DOMAIN files', dirs \subseteq dirs',
         K \in IF tag # NoPath THEN DOMAIN files' ELSE dirs'
  PROVE  Mirrors'
<1>1. PICK w : w = [m \in DOMAIN tree |-> Where(m)]
  OBVIOUS
<1>2. TreeInv(tree) /\ TreeInv(tree') /\ IsFiniteSet(DOMAIN tree)
  BY DEF TypeInv, TreeInv, NodesOK
<1>3. /\ Shows(tree, w, DOMAIN files, dirs)
      /\ \A m \in DOMAIN tree \ {Root} : w[m] \in Taken
      /\ w[n] = FolderKey(n)
  BY <1>1, Standing
<1>4. Folders /\ Folders'
  <2>1. (TreeInv(tree) => Folders)'
    BY FoldersAre, PTL
  <2> QED BY <1>2, <2>1, FoldersAre
<1>5. PICK i : i = NewNode
  OBVIOUS
<1>6. i \notin DOMAIN tree /\ i # Root
  <2>1. Cardinality(DOMAIN tree) \in Nat /\ \E j \in 1..Cardinality(DOMAIN tree) + 1 : j \notin DOMAIN tree
    BY <1>2, NumberFree
  <2>2. i \in 1..Cardinality(DOMAIN tree) + 1 /\ i \notin DOMAIN tree
    BY <1>5, <2>1 DEF NewNode
  <2>3. i # 0
    BY <2>1, <2>2
  <2> QED BY <2>2, <2>3 DEF Root
<1>7. /\ DOMAIN tree' = DOMAIN tree \cup {i} /\ \A m \in DOMAIN tree : tree'[m] = tree[m]
      /\ tree'[i].parent = n /\ tree'[i].text = text /\ tree'[i].tag = tag
  BY <1>5, <1>6 DEF WithNode, With
<1>8. \A m \in DOMAIN tree \ {Root} : tree[m].parent \in DOMAIN tree
  BY <1>2 DEF TreeInv, Rooted
<1>9. \A m \in DOMAIN tree : NodePath'[m] = NodePath[m] /\ Where(m)' = w[m]
  BY <1>1, <1>2, <1>7, <1>8, SamePlaces
<1>10. Where(i)' = K
  <2>1. CASE tag # NoPath
    BY <1>6, <1>7, <2>1 DEF Where, IsFile
  <2>2. CASE tag = NoPath
    <3>1. Where(i)' = FolderKey(i)'
      BY <1>7, <2>2 DEF Where, IsFile
    <3>2. FolderKey(i)' = Key(NodePath'[n] \o text)
      <4>1. i \in (DOMAIN tree') \ {Root}
        BY <1>6, <1>7
      <4>2. FolderKey(i)' = Key(NodePath'[tree'[i].parent] \o tree'[i].text)
        BY <1>4, <4>1 DEF Folders
      <4> QED BY <1>7, <4>2
    <3> QED BY <1>9, <2>2, <3>1, <3>2
  <2> QED BY <2>1, <2>2
<1>11. PICK v : v = [m \in DOMAIN tree' |-> IF m = i THEN K ELSE w[m]]
  OBVIOUS
<1>12. v[i] = K /\ \A m \in DOMAIN tree : v[m] = w[m]
  BY <1>6, <1>7, <1>11
<1>13. \A m \in DOMAIN tree' : Where(m)' = v[m]
  BY <1>7, <1>9, <1>10, <1>12
<1>14. n = Root \/ tree[n].tag = NoPath
  BY DEF IsFile
<1>15. ASSUME NEW m \in (DOMAIN tree') \ {Root}
       PROVE  /\ v[m] \in IF tree'[m].tag # NoPath THEN DOMAIN files' ELSE dirs'
              /\ \A l \in (DOMAIN tree') \ {Root} : v[l] = v[m] => l = m
              /\ DirOf(v[m]) = v[tree'[m].parent]
              /\ tree'[m].parent = Root \/ tree'[tree'[m].parent].tag = NoPath
  <2>1. CASE m = i
    <3>1. \A l \in (DOMAIN tree') \ {Root} : v[l] = v[m] => l = m
      BY <1>3, <1>7, <1>12, <2>1
    <3>2. DirOf(v[m]) = v[tree'[m].parent]
      BY <1>3, <1>7, <1>12, <2>1
    <3>3. tree'[m].parent = Root \/ tree'[tree'[m].parent].tag = NoPath
      BY <1>7, <1>14, <2>1
    <3> QED BY <1>7, <1>12, <2>1, <3>1, <3>2, <3>3
  <2>2. CASE m # i
    <3>1. m \in DOMAIN tree \ {Root} /\ tree'[m] = tree[m] /\ v[m] = w[m] /\ w[m] # K
      BY <1>3, <1>7, <1>12, <1>15, <2>2
    <3>2. tree[m].parent \in DOMAIN tree
      BY <1>8, <3>1
    <3>3. v[m] \in IF tree'[m].tag # NoPath THEN DOMAIN files' ELSE dirs'
      BY <1>3, <3>1 DEF Shows
    <3>4. \A l \in (DOMAIN tree') \ {Root} : v[l] = v[m] => l = m
      BY <1>3, <1>7, <1>12, <3>1 DEF Shows
    <3>5. DirOf(v[m]) = v[tree'[m].parent]
      BY <1>3, <1>12, <3>1, <3>2 DEF Shows
    <3>6. tree'[m].parent = Root \/ tree'[tree'[m].parent].tag = NoPath
      BY <1>3, <1>7, <3>1, <3>2 DEF Shows
    <3> QED BY <3>3, <3>4, <3>5, <3>6
  <2> QED BY <2>1, <2>2
<1>16. Shows(tree', v, DOMAIN files', dirs')
  BY <1>15 DEF Shows
<1> QED BY <1>2, <1>13, <1>16, MirrorsAfter

\* A file goes elsewhere, with its node.
LEMMA FileShows ==
  ASSUME TypeInv, Mirrors, TypeInv', NEW n \in DOMAIN tree, IsFile(n),
         NEW to \in DOMAIN tree, ~IsFile(to), NEW new, new # NoPath,
         NEW old, old = Key(tree[n].tag),
         DOMAIN tree' = DOMAIN tree, \A m \in DOMAIN tree \ {n} : tree'[m] = tree[m],
         tree'[n].tag = new, tree'[n].parent = to,
         DirOf(Key(new)) = FolderKey(to), Key(new) \notin Taken \ {old},
         UNCHANGED dirs, DOMAIN files' = (DOMAIN files \ {old}) \cup {Key(new)}
  PROVE  Mirrors'
<1>1. PICK w : w = [m \in DOMAIN tree |-> Where(m)]
  OBVIOUS
<1>2. TreeInv(tree) /\ TreeInv(tree') /\ n # Root /\ to # n
  BY DEF TypeInv, IsFile
<1>3. /\ Shows(tree, w, DOMAIN files, dirs)
      /\ \A m \in DOMAIN tree \ {Root} : w[m] \in Taken
      /\ w[to] = FolderKey(to) /\ w[n] = old
  BY <1>1, Standing DEF Where
<1>4. \A m \in DOMAIN tree \ {Root} : tree[m].parent \in DOMAIN tree \ {n}
  BY <1>2, FileHasNone DEF TreeInv, Rooted
<1>5. \A m \in DOMAIN tree \ {n} : Where(m)' = w[m]
  <2>1. PICK S : S = DOMAIN tree \ {n}
    OBVIOUS
  <2>2. \A m \in S \ {Root} : /\ tree[m].parent \in S /\ tree'[m].parent = tree[m].parent
                              /\ tree'[m].text = tree[m].text
    BY <1>4, <2>1
  <2>3. \A m \in S : tree'[m].tag = tree[m].tag => Where(m)' = Where(m)
    BY <1>2, <2>1, <2>2, SamePlaces
  <2> QED BY <1>1, <2>1, <2>3
<1>6. Where(n)' = Key(new)
  BY <1>2 DEF Where, IsFile
<1>7. PICK v : v = [m \in DOMAIN tree' |-> IF m = n THEN Key(new) ELSE w[m]]
  OBVIOUS
<1>8. v[n] = Key(new) /\ \A m \in DOMAIN tree \ {n} : v[m] = w[m]
  BY <1>7
<1>9. \A m \in DOMAIN tree' : Where(m)' = v[m]
  BY <1>5, <1>6, <1>8
<1>10. to = Root \/ tree[to].tag = NoPath
  BY DEF IsFile
<1>11. \A m \in DOMAIN tree \ {Root, n} : w[m] # old /\ w[m] # Key(new)
  BY <1>2, <1>3 DEF Shows
<1>12. ASSUME NEW m \in (DOMAIN tree') \ {Root}
       PROVE  /\ v[m] \in IF tree'[m].tag # NoPath THEN DOMAIN files' ELSE dirs'
              /\ \A l \in (DOMAIN tree') \ {Root} : v[l] = v[m] => l = m
              /\ DirOf(v[m]) = v[tree'[m].parent]
              /\ tree'[m].parent = Root \/ tree'[tree'[m].parent].tag = NoPath
  <2>1. CASE m = n
    <3>1. \A l \in (DOMAIN tree') \ {Root} : v[l] = v[m] => l = m
      BY <1>8, <1>11, <2>1
    <3>2. DirOf(v[m]) = v[tree'[m].parent]
      BY <1>2, <1>3, <1>8, <2>1
    <3>3. tree'[m].parent = Root \/ tree'[tree'[m].parent].tag = NoPath
      BY <1>2, <1>10, <2>1
    <3> QED BY <1>8, <2>1, <3>1, <3>2, <3>3
  <2>2. CASE m # n
    <3>1. m \in DOMAIN tree \ {Root} /\ tree'[m] = tree[m] /\ v[m] = w[m] /\ w[m] # old /\ w[m] # Key(new)
      BY <1>8, <1>11, <1>12, <2>2
    <3>2. tree[m].parent \in DOMAIN tree \ {n}
      BY <1>4, <3>1
    <3>3. v[m] \in IF tree'[m].tag # NoPath THEN DOMAIN files' ELSE dirs'
      BY <1>3, <3>1 DEF Shows
    <3>4. \A l \in (DOMAIN tree') \ {Root} : v[l] = v[m] => l = m
      BY <1>3, <1>8, <3>1 DEF Shows
    <3>5. DirOf(v[m]) = v[tree'[m].parent]
      BY <1>3, <1>8, <3>1, <3>2 DEF Shows
    <3>6. tree'[m].parent = Root \/ tree'[tree'[m].parent].tag = NoPath
      BY <1>3, <3>1, <3>2 DEF Shows
    <3> QED BY <3>3, <3>4, <3>5, <3>6
  <2> QED BY <2>1, <2>2
<1>13. Shows(tree', v, DOMAIN files', dirs')
  BY <1>12 DEF Shows
<1> QED BY <1>2, <1>9, <1>13, MirrorsAfter

\* A node goes with what is below it, and the disk keeps what the others stand for.
LEMMA GoneShows ==
  ASSUME TypeInv, Mirrors, TypeInv', NEW n \in DOMAIN tree, tree' = Without(tree, Below(n)),
         \A m \in DOMAIN tree \ {Root} : m \notin Below(n) =>
            Where(m) \in IF IsFile(m) THEN DOMAIN files' ELSE dirs'
  PROVE  Mirrors'
<1>1. PICK w : w = [m \in DOMAIN tree |-> Where(m)]
  OBVIOUS
<1>2. TreeInv(tree) /\ TreeInv(tree') /\ Folders
  BY FoldersAre DEF TypeInv
<1>3. Shows(tree, w, DOMAIN files, dirs)
  BY <1>1, Standing
<1>4. PICK S : S = DOMAIN tree \ Below(n)
  OBVIOUS
<1>5. DOMAIN tree' = S /\ \A m \in S : tree'[m] = tree[m]
  BY <1>4 DEF Without
<1>6. \A m \in S \ {Root} : tree[m].parent \in S
  <2>1. ASSUME NEW m \in DOMAIN tree \ {Root}, n \notin Above[m]
        PROVE  tree[m].parent \in DOMAIN tree /\ n \notin Above[tree[m].parent]
    <3>1. tree[m].parent \in DOMAIN tree /\ Above[m] = {m} \cup Above[tree[m].parent]
      BY <1>2 DEF Folders
    <3> QED BY <2>1, <3>1
  <2> QED BY <1>4, <2>1 DEF Below
<1>7. \A m \in S : Where(m)' = w[m]
  BY <1>1, <1>2, <1>4, <1>5, <1>6, SamePlaces
<1>8. ASSUME NEW m \in S \ {Root}
      PROVE  /\ w[m] \in IF tree'[m].tag # NoPath THEN DOMAIN files' ELSE dirs'
             /\ \A l \in S \ {Root} : w[l] = w[m] => l = m
             /\ DirOf(w[m]) = w[tree'[m].parent]
             /\ tree'[m].parent = Root \/ tree'[tree'[m].parent].tag = NoPath
  <2>1. m \in DOMAIN tree \ {Root} /\ tree'[m] = tree[m] /\ tree[m].parent \in S
    BY <1>4, <1>5, <1>6
  <2>2. w[m] \in IF tree[m].tag # NoPath THEN DOMAIN files' ELSE dirs'
    BY <1>1, <1>4, <2>1 DEF IsFile
  <2>3. /\ \A l \in DOMAIN tree \ {Root} : w[l] = w[m] => l = m
        /\ DirOf(w[m]) = w[tree[m].parent]
        /\ tree[m].parent = Root \/ tree[tree[m].parent].tag = NoPath
    BY <1>3, <2>1 DEF Shows
  <2> QED BY <1>4, <1>5, <2>1, <2>2, <2>3
<1>9. Shows(tree', w, DOMAIN files', dirs')
  BY <1>5, <1>8 DEF Shows
<1> QED BY <1>2, <1>5, <1>7, <1>9, MirrorsAfter

-----------------------------------------------------------------------------
(* Names that a file may have *)

\* Nothing on disk, and no name of a node, has a part that no path may contain.
Lawful ==
    /\ \A k \in Taken : Legal(k)
    /\ \A n \in DOMAIN tree \ {Root} : Legal(tree[n].text)

\* The path of a node is legal.
LEMMA LegalNodePath ==
  ASSUME TypeInv, Lawful
  PROVE  \A n \in DOMAIN tree : Legal(NodePath[n]) /\ NodePath[n] \in Path
<1>1. TreeInv(tree) /\ Folders
  BY FoldersAre DEF TypeInv
<1>2. PICK C : C = {n \in DOMAIN tree : ~Legal(NodePath[n])}
  OBVIOUS
<1>3. Sep # Bad /\ "P" # Bad /\ "data" # Bad
  BY DEF Sep, Bad
<1>4. Root \in DOMAIN tree => Legal(NodePath[Root])
  <2>1. Legal(<<"P">>) /\ <<"P">> \in Path /\ Legal(<<Sep>>) /\ <<Sep>> \in Path
    BY <1>3, SepFacts, LegalParts
  <2>2. Legal(<<"data">>) /\ <<"data">> \in Path
    BY <1>3, SepFacts, LegalParts
  <2>3. PICK s, d : s = Sep /\ d = "data"
    OBVIOUS
  <2>4. s \in Parts /\ d \in Parts
    BY <2>3, SepFacts
  <2>5. <<s, d, s>> = (<<s>> \o <<d>>) \o <<s>>
    BY <2>4 DEF Path
  <2>6. <<s>> \o <<d>> \in Path /\ Legal(<<s>> \o <<d>>)
    BY <2>1, <2>2, <2>3, JoinParts, LegalJoin
  <2>7. <<s, d, s>> \in Path /\ Legal(<<s, d, s>>)
    BY <2>1, <2>3, <2>5, <2>6, JoinParts, LegalJoin
  <2>8. Legal(ProjectDir \o <<Sep, "data", Sep>>)
    BY <2>1, <2>3, <2>7, LegalJoin DEF ProjectDir
  <2> QED BY <1>1, <2>8 DEF Folders
<1>5. C \in SUBSET (DOMAIN tree \ {Root})
  BY <1>2, <1>4
<1>6. ASSUME NEW n \in C PROVE tree[n].parent \in C
  <2>1. SUFFICES ASSUME tree[n].parent \notin C PROVE FALSE
    OBVIOUS
  <2>2. n \in DOMAIN tree \ {Root} /\ tree[n].parent \in DOMAIN tree
    BY <1>1, <1>2, <1>5 DEF Folders
  <2>3. PICK q, x : q = NodePath[tree[n].parent] /\ x = tree[n].text
    OBVIOUS
  <2>4. q \in Path /\ Legal(q) /\ x \in Path /\ Legal(x)
    <3>1. q \in Path /\ Legal(q)
      BY <1>1, <1>2, <2>1, <2>2, <2>3 DEF Folders, GoodPath
    <3>2. Plain(x) /\ Legal(x)
      BY <1>1, <2>2, <2>3 DEF TreeInv, NodesOK, Lawful
    <3> QED BY <3>1, <3>2 DEF Plain
  <2>5. q \o x \in Path /\ Legal(q \o x) /\ Legal(<<Sep>>) /\ <<Sep>> \in Path
    BY <1>3, <2>4, SepFacts, LegalParts, JoinParts, LegalJoin
  <2>6. Legal((q \o x) \o <<Sep>>)
    BY <2>5, LegalJoin
  <2>7. NodePath[n] = (q \o x) \o <<Sep>>
    BY <1>1, <2>2, <2>3 DEF Folders
  <2> QED BY <1>2, <2>2, <2>6, <2>7
<1>7. C = {}
  BY <1>1, <1>5, <1>6 DEF TreeInv, Rooted
<1> QED BY <1>1, <1>2, <1>7 DEF Folders, GoodPath

\* What moves to a legal place becomes no less legal.
LEMMA LegalMoved ==
  ASSUME NEW k, IsKey(k), Named(k), Legal(k), NEW from, IsKey(from), NEW to, IsKey(to), Legal(to)
  PROVE  Legal(Relocated(k, from, to))
<1>1. CASE Within(k, from)
  <2>1. k \in Path /\ from \in Path /\ to \in Path
    BY DEF IsKey, Path
  <2>2. PICK m, n : m = Len(from) /\ n = Len(k)
    OBVIOUS
  <2>3. m \in Nat /\ n \in Nat /\ m <= n
    BY <1>1, <2>1, <2>2, PathParts, InsideParts DEF Within
  <2>4. PICK l : l = m + 1
    OBVIOUS
  <2>5. l \in 1..Len(k) + 1 /\ n \in Int /\ l - 1 <= n /\ n <= Len(k)
    BY <2>2, <2>3, <2>4
  <2>6. SubSeq(k, l, n) \in Path
    BY <2>1, <2>5, PieceParts
  <2>7. Legal(SubSeq(k, l, n))
    BY <2>1, <2>5, LegalPiece
  <2> QED BY <1>1, <2>1, <2>2, <2>4, <2>6, <2>7, LegalJoin DEF Relocated, Within
<1>2. CASE ~Within(k, from)
  BY <1>2 DEF Relocated, Within
<1> QED BY <1>1, <1>2

\* What is on disk afterwards was there or is legal, and so are the names.
LEMMA StaysLawful ==
  ASSUME Lawful, \A k \in Taken' : k \in Taken \/ Legal(k),
         \A n \in DOMAIN tree' \ {Root} :
            (n \in DOMAIN tree /\ tree'[n].text = tree[n].text) \/ Legal(tree'[n].text)
  PROVE  Lawful'
<1>1. \A k \in Taken' : Legal(k)
  BY DEF Lawful
<1>2. \A n \in DOMAIN tree' \ {Root} : Legal(tree'[n].text)
  BY DEF Lawful
<1> QED BY <1>1, <1>2 DEF Lawful

\* The program starts on a disk that Windows can have.
LEMMA InitLawful == Init => Lawful
<1>1. SUFFICES ASSUME Init PROVE Lawful
  OBVIOUS
<1>2. DOMAIN tree = {}
  BY <1>1 DEF Init
<1>3. \A k \in Taken : Legal(k)
  <2>1. CASE files = <<>> /\ dirs = {}
    BY <2>1 DEF Taken
  <2>2. CASE files = OnDisk /\ dirs = DirsOnDisk
    BY <2>2, WorkspaceAssumption DEF Taken
  <2> QED BY <1>1, <2>1, <2>2 DEF Init
<1> QED BY <1>2, <1>3 DEF Lawful

\* A save writes only where a file may be.
LEMMA SavedLegal ==
  ASSUME TypeInv, NEW S, S \subseteq DOMAIN tabs, \A i \in S : Savable(tabs[i])
  PROVE  \A k \in DOMAIN FilesSaved(S) : k \in DOMAIN files \/ Legal(k)
<1>1. PICK keys : keys = {Key(tabs[i].tag) : i \in S}
  OBVIOUS
<1>2. DOMAIN FilesSaved(S) = DOMAIN files \cup keys
  BY <1>1, FilesSavedIs DEF TypeInv
<1>3. ASSUME NEW i \in S PROVE Legal(Key(tabs[i].tag))
  <2>1. tabs[i].tag \in Path
    BY <1>3, TabTyped DEF TypeInv
  <2>2. Legal(tabs[i].tag)
    BY <1>3 DEF Savable, Writable
  <2> QED BY <2>1, <2>2, LegalKey
<1> QED BY <1>1, <1>2, <1>3

\* What is done to a tab, or to all of them, leaves legal names.
LEMMA OnTabsLawful ==
  ASSUME TypeInv, Lawful, (\E i \in DOMAIN tabs : OnTab(i)) \/ SaveAll \/ BuildProject \/ Restart
  PROVE  Lawful'
<1>1. \A k \in Taken' : k \in Taken \/ Legal(k)
  <2>1. ASSUME NEW S, S \subseteq DOMAIN tabs, \A i \in S : Savable(tabs[i]),
               files' = FilesSaved(S), UNCHANGED dirs
        PROVE  \A k \in Taken' : k \in Taken \/ Legal(k)
    BY <2>1, SavedLegal DEF Taken
  <2>2. CASE UNCHANGED <<files, dirs>>
    BY <2>2 DEF Taken
  <2>3. ASSUME NEW i \in DOMAIN tabs, OnTab(i)
        PROVE  \A k \in Taken' : k \in Taken \/ Legal(k)
    <3>1. CASE Save(i)
      <4>1. {i} \subseteq DOMAIN tabs /\ \A j \in {i} : Savable(tabs[j])
        BY <3>1 DEF Save
      <4> QED BY <2>1, <3>1, <4>1 DEF Save
    <3>2. CASE ~Save(i)
      BY <2>2, <2>3, <3>2 DEF OnTab, Edit, MarkUnsaved, CloseTab
    <3> QED BY <3>1, <3>2
  <2>4. CASE SaveAll \/ BuildProject
    <3>1. SavedTabs \subseteq DOMAIN tabs /\ \A i \in SavedTabs : Savable(tabs[i])
      BY SavedTabsAre DEF TypeInv
    <3>2. files' = FilesSaved(SavedTabs) /\ UNCHANGED dirs
      BY <2>4 DEF SaveAll, BuildProject
    <3> QED BY <2>1, <3>1, <3>2
  <2>5. CASE Restart
    BY <2>2, <2>5 DEF Restart
  <2> QED BY <2>3, <2>4, <2>5
<1>2. UNCHANGED tree \/ tree' = <<>>
  BY DEF OnTab, Edit, MarkUnsaved, CloseTab, Save, SaveAll, BuildProject, Restart
<1>3. \A n \in DOMAIN tree' \ {Root} : n \in DOMAIN tree /\ tree'[n].text = tree[n].text
  BY <1>2
<1> QED BY <1>1, <1>3, StaysLawful

\* So does what is done to the project.
LEMMA ProjectLawful ==
  ASSUME TypeInv, Lawful, NewProject \/ OpenProject
  PROVE  Lawful'
<1>1. \A k \in Taken' : Legal(k)
  <2>1. CASE NewProject
    <3>1. PICK main : main = <<"P", Sep, "Data", Sep, "main">>
      OBVIOUS
    <3>2. ProjectDir \notin dirs /\ dirs' = {ProjectDir, DataDir} /\ files' = With(files, Key(main), Template)
      BY <2>1, <3>1 DEF NewProject
    <3>3. dirs = {}
      BY <3>2 DEF TypeInv, FilesInv, DiskInv
    <3>4. DOMAIN files = {}
      BY <3>3 DEF TypeInv, FilesInv, DiskInv, IsDisk
    <3>5. main \in Path /\ Legal(Key(main))
      BY <3>1, MainWritable, LegalKey DEF Writable
    <3>6. Taken' = {ProjectDir, DataDir, Key(main)}
      BY <3>2, <3>4 DEF Taken, With
    <3>7. Legal(ProjectDir) /\ Legal(DataDir)
      BY WorkspaceAssumption DEF DirsOnDisk
    <3> QED BY <3>5, <3>6, <3>7
  <2>2. CASE OpenProject
    BY <2>2 DEF OpenProject, Taken, Lawful
  <2> QED BY <2>1, <2>2
<1>2. FilesInv(files', dirs', clicks') /\ tree' = LoadedTree(files', dirs')
  <2>1. TypeInv'
    BY ProjectTyped
  <2>2. tree' = LoadedTree(files', dirs')
    BY DEF NewProject, OpenProject
  <2> QED BY <2>1, <2>2 DEF TypeInv
<1>3. PICK X : X = {k \in DOMAIN files' \cup dirs' : Inside(k, DataDir)}
  OBVIOUS
<1>4. /\ \A k \in X : k \in Path
      /\ \E n \in Nat : \E seq, up : LoadedAs(tree', dirs', X, n, seq, up)
  BY <1>2, <1>3, LoadedNodes DEF FilesInv
<1>5. PICK n \in Nat : \E seq, up : LoadedAs(tree', dirs', X, n, seq, up)
  BY <1>4
<1>6. PICK seq, up : LoadedAs(tree', dirs', X, n, seq, up)
  BY <1>5
<1>7. ASSUME NEW i \in 1..n PROVE Legal(tree'[i].text)
  <2>1. seq[i] \in X /\ tree'[i].text = NameOf(seq[i])
    <3>1. seq[i] \in X /\ tree'[i] = [parent |-> up[i], text |-> NameOf(seq[i]),
                                    tag |-> IF seq[i] \in dirs' THEN NoPath ELSE seq[i]]
      BY <1>6, <1>7 DEF LoadedAs
    <3> QED BY <3>1
  <2>2. seq[i] \in Path /\ Legal(seq[i])
    BY <1>1, <1>3, <1>4, <2>1 DEF Taken
  <2> QED BY <2>1, <2>2, LegalName
<1>8. DOMAIN tree' \ {Root} \subseteq 1..n
  BY <1>6 DEF LoadedAs, Root
<1> QED BY <1>1, <1>7, <1>8 DEF Lawful

\* A file with a legal path, and a node for it
LEMMA LegalFile ==
  ASSUME NEW ds, NEW p \in Path, Writable(ds, p)
  PROVE  Legal(Key(p)) /\ Legal(NameOf(p))
BY LegalKey, LegalName DEF Writable

\* What has a new node has the names of before and that of the node.
LEMMA LeafTexts ==
  ASSUME NEW n, NEW text, NEW tag, tree' = WithNode(n, text, tag), Legal(text)
  PROVE  \A m \in DOMAIN tree' \ {Root} :
            (m \in DOMAIN tree /\ tree'[m].text = tree[m].text) \/ Legal(tree'[m].text)
<1>1. PICK x : x = NewNode
  OBVIOUS
<1>2. tree' = [m \in DOMAIN tree \cup {x} |->
                  IF m = x THEN [parent |-> n, text |-> text, tag |-> tag] ELSE tree[m]]
  BY <1>1 DEF WithNode, With
<1> QED BY <1>2

\* New items and files dragged in are lawful.
LEMMA NewFilesLawful ==
  ASSUME TypeInv, Lawful, Numerals, NEW n \in DOMAIN tree,
         AddItem(n) \/ \E text \in Texts : DropFile(n, text)
  PROVE  Lawful'
<1>1. CASE AddItem(n)
  <2>1. PICK saved, path :
            /\ saved = FilesSaved(SavedTabs)
            /\ path = RightPath(DOMAIN saved \cup dirs, NodePath[n] \o <<"code">>)
    OBVIOUS
  <2>2. \A k \in DOMAIN saved : k \in DOMAIN files \/ Legal(k)
    BY <2>1, SavedTabsAre, SavedLegal DEF TypeInv
  <2>3. path \in Path
    <3>1. FilesInv(saved, dirs, clicks)
      BY <2>1, SavedInv, SavedTabsAre DEF TypeInv
    <3>2. IsFiniteSet(DOMAIN saved \cup dirs)
      BY <3>1, FS_Union DEF FilesInv, DiskInv
    <3>3. GoodPath(NodePath[n]) /\ <<"code">> \in Path /\ Named(<<"code">>)
      BY NodePathGood, Words
    <3> QED BY <2>1, <3>2, <3>3, NewPath
  <2>4. UNCHANGED dirs
    BY <1>1 DEF AddItem
  <2>5. CASE /\ Writable(dirs, path) /\ files' = With(saved, Key(path), Template)
             /\ tree' = WithNode(n, NameOf(path), path)
    <3>1. Legal(Key(path)) /\ Legal(NameOf(path))
      BY <2>3, <2>5, LegalFile
    <3>2. \A k \in Taken' : k \in Taken \/ Legal(k)
      BY <2>2, <2>4, <2>5, <3>1 DEF Taken, With
    <3> QED BY <2>5, <3>1, <3>2, LeafTexts, StaysLawful
  <2>6. CASE files' = saved /\ UNCHANGED tree
    BY <2>2, <2>4, <2>6, StaysLawful DEF Taken
  <2> QED BY <1>1, <2>1, <2>5, <2>6 DEF AddItem
<1>2. ASSUME NEW text \in Texts, DropFile(n, text) PROVE Lawful'
  <2>1. PICK path : path = RightPath(Taken, Doubled(NodePath[n]) \o Dropped)
    OBVIOUS
  <2>2. /\ Writable(dirs, path) /\ files' = With(files, Key(path), text)
        /\ tree' = WithNode(n, NameOf(path), path) /\ UNCHANGED dirs
    BY <1>2, <2>1 DEF DropFile
  <2>3. path \in Path
    BY <2>1, TakenFinite, DroppedPath
  <2>4. Legal(Key(path)) /\ Legal(NameOf(path))
    BY <2>2, <2>3, LegalFile
  <2>5. \A k \in Taken' : k \in Taken \/ Legal(k)
    BY <2>2, <2>4 DEF Taken, With
  <2> QED BY <2>2, <2>4, <2>5, LeafTexts, StaysLawful
<1> QED BY <1>1, <1>2

\* So is a new folder, with the folders above it.
LEMMA AddFolderLawful ==
  ASSUME TypeInv, Lawful, Numerals, NEW n \in DOMAIN tree, AddFolder(n)
  PROVE  Lawful'
<1>1. PICK q, path, K : /\ q = NodePath[n] /\ K = Key(path)
                        /\ path = RightPath(Taken, NodePath[n] \o <<"folder">>)
  OBVIOUS
<1>2. PICK above : above = {SubSeq(K, 1, i - 1) : i \in {j \in DOMAIN K : K[j] = Sep}}
  OBVIOUS
<1>3. /\ dirs' = (dirs \cup above) \cup {K} /\ UNCHANGED files
      /\ tree' = WithNode(n, NameOf(path), NoPath)
  BY <1>1, <1>2 DEF AddFolder
<1>4. q \in Path /\ q # <<>> /\ q[Len(q)] \in Seps /\ Legal(q)
  BY <1>1, FoldersAre, LegalNodePath DEF TypeInv, Folders
<1>5. Plain(<<"folder">>) /\ Legal(<<"folder">>)
  <2>1. "folder" \in Parts /\ "folder" \notin Seps /\ "folder" # Bad
    BY WorkspaceAssumption DEF Seps, Sep, Sep2, Bad
  <2>2. <<"folder">> # <<>> /\ \A i \in 1..1 : <<"folder">>[i] = "folder"
    OBVIOUS
  <2> QED BY <2>1, <2>2, OnePart, LegalParts DEF Plain
<1>6. path \in Path /\ Legal(path)
  BY <1>1, <1>4, <1>5, TakenFinite, NewName
<1>7. K \in Path /\ Legal(K) /\ Legal(NameOf(path))
  BY <1>1, <1>6, KeyParts, LegalKey, LegalName
<1>8. \A k \in above : Legal(k)
  <2>1. ASSUME NEW j \in DOMAIN K PROVE Legal(SubSeq(K, 1, j - 1))
    <3>1. j \in 1..Len(K) /\ Len(K) \in Nat
      BY <1>7, <2>1, PathParts
    <3>2. PICK l : l = j - 1
      OBVIOUS
    <3>3. l \in Int /\ 1 - 1 <= l /\ l <= Len(K) /\ 1 \in 1..Len(K) + 1
      BY <3>1, <3>2
    <3>4. Legal(SubSeq(K, 1, l))
      BY <1>7, <3>3, LegalPiece
    <3> QED BY <3>2, <3>4
  <2> QED BY <1>2, <2>1
<1>9. \A k \in Taken' : k \in Taken \/ Legal(k)
  BY <1>3, <1>7, <1>8 DEF Taken
<1> QED BY <1>3, <1>7, <1>9, LeafTexts, StaysLawful

\* What is renamed or moved is lawful.
LEMMA FileMovesLawful ==
  ASSUME TypeInv, Lawful, Numerals, NEW n \in DOMAIN tree,
         (\E label \in Labels : RenameFile(n, label)) \/ \E pos \in DOMAIN tree : MoveFile(pos, n)
  PROVE  Lawful'
<1>1. ASSUME NEW label \in Labels, RenameFile(n, label) PROVE Lawful'
  <2>1. PICK rest, new :
            /\ rest = Without(files, {Key(tree[n].tag)})
            /\ new = RightPath(DOMAIN rest \cup dirs, Doubled(NodePath[tree[n].parent]) \o label)
    OBVIOUS
  <2>2. /\ n # Root /\ UNCHANGED dirs
        /\ \/ /\ Writable(dirs, new)
              /\ files' = With(rest, Key(new), Empty)
              /\ tree' = [tree EXCEPT ![n].tag = new, ![n].text = NameOf(new)]
           \/ files' = rest /\ UNCHANGED tree
    BY <1>1, <2>1 DEF RenameFile, IsFile
  <2>3. DOMAIN rest \subseteq DOMAIN files
    BY <2>1 DEF Without
  <2>4. CASE /\ Writable(dirs, new)
             /\ files' = With(rest, Key(new), Empty)
             /\ tree' = [tree EXCEPT ![n].tag = new, ![n].text = NameOf(new)]
    <3>1. new \in Path
      <4>1. tree[n].parent \in DOMAIN tree
        BY <2>2, ParentIs
      <4>2. IsFiniteSet(DOMAIN rest \cup dirs)
        BY <2>3, TakenFinite, FS_Subset, FS_Union
      <4> QED BY <2>1, <4>1, <4>2, DroppedPath
    <3>2. Legal(Key(new)) /\ Legal(NameOf(new))
      BY <2>4, <3>1, LegalFile
    <3>3. \A k \in Taken' : k \in Taken \/ Legal(k)
      BY <2>2, <2>3, <2>4, <3>2 DEF Taken, With
    <3>4. tree \in [DOMAIN tree -> Node]
      BY DEF TypeInv, TreeInv, NodesOK
    <3>5. \A m \in DOMAIN tree' \ {Root} :
             (m \in DOMAIN tree /\ tree'[m].text = tree[m].text) \/ Legal(tree'[m].text)
      BY <2>4, <3>2, <3>4 DEF Node
    <3> QED BY <3>3, <3>5, StaysLawful
  <2>5. CASE files' = rest /\ UNCHANGED tree
    BY <2>2, <2>3, <2>5, StaysLawful DEF Taken
  <2> QED BY <2>2, <2>4, <2>5
<1>2. ASSUME NEW pos \in DOMAIN tree, MoveFile(pos, n) PROVE Lawful'
  <2>1. PICK old, new, to : /\ old = Key(tree[n].tag) /\ to = Target(pos)
                            /\ new = RightPath(Taken, NodePath[Target(pos)] \o tree[n].text)
    OBVIOUS
  <2>2. /\ n # Root /\ n \notin Above[pos] /\ Writable(dirs, new) /\ UNCHANGED dirs
        /\ files' = With(Without(files, {old}), Key(new), files[old])
        /\ tree' = [tree EXCEPT ![n].tag = new, ![n].parent = to]
    BY <1>2, <2>1 DEF MoveFile, IsFile
  <2>3. Legal(Key(new))
    BY <2>1, <2>2, MovedPath, LegalFile
  <2>4. \A k \in Taken' : k \in Taken \/ Legal(k)
    BY <2>2, <2>3 DEF Taken, With, Without
  <2>5. tree \in [DOMAIN tree -> Node]
    BY DEF TypeInv, TreeInv, NodesOK
  <2>6. \A m \in DOMAIN tree' \ {Root} : m \in DOMAIN tree /\ tree'[m].text = tree[m].text
    BY <2>2, <2>5 DEF Node
  <2> QED BY <2>4, <2>6, StaysLawful
<1> QED BY <1>1, <1>2

\* So is a folder.
LEMMA FolderMovesLawful ==
  ASSUME TypeInv, Lawful, Numerals, NEW n \in DOMAIN tree,
         (\E label \in Labels : RenameFolder(n, label)) \/ \E pos \in DOMAIN tree : MoveFolder(pos, n)
  PROVE  Lawful'
<1>1. FolderMoves => \A k \in Taken' : k \in Taken \/ Legal(k)
  <2>1. ASSUME NEW from, NEW to, CanMove(DOMAIN files, dirs, clicks, from, to), Legal(to),
               files' = RelocatedFiles(from, to), dirs' = RelocatedDirs(from, to)
        PROVE  \A k \in Taken' : Legal(k)
    <3>1. IsKey(from) /\ IsKey(to)
      BY <2>1 DEF CanMove, TypeInv, FilesInv, DiskInv
    <3>2. ASSUME NEW k \in Taken PROVE Legal(Relocated(k, from, to))
      <4>1. IsKey(k) /\ Named(k) /\ Legal(k)
        BY <3>2 DEF TypeInv, FilesInv, DiskInv, Taken, Lawful
      <4> QED BY <2>1, <3>1, <4>1, LegalMoved
    <3> QED BY <2>1, <3>2 DEF Taken, RelocatedFiles, RelocatedDirs
  <2> QED BY <2>1 DEF FolderMoves
<1>2. ASSUME NEW label \in Labels, RenameFolder(n, label) PROVE Lawful'
  <2>1. n # Root
    BY <1>2 DEF RenameFolder, IsFolder
  <2>2. \A k \in Taken' : k \in Taken \/ Legal(k)
    BY <1>1, <1>2, RenamedFolder
  <2>3. ASSUME NEW new \in Path, Plain(NameOf(new)), Legal(NameOf(new)),
               tree' = [ChangedTags(n, NameOf(new), tree[n].text) EXCEPT ![n].text = NameOf(new)]
        PROVE  \A m \in DOMAIN tree' \ {Root} :
                  (m \in DOMAIN tree /\ tree'[m].text = tree[m].text) \/ Legal(tree'[m].text)
    <3>1. PICK u : u = ChangedTags(n, NameOf(new), tree[n].text)
      OBVIOUS
    <3>2. NameOf(new) \in Path /\ tree[n].text \in Path /\ tree[n].text # <<>>
      BY <2>1, <2>3 DEF Plain, TypeInv, TreeInv, NodesOK
    <3>3. /\ DOMAIN u = DOMAIN tree /\ u \in [DOMAIN tree -> Node]
          /\ \A m \in DOMAIN tree : u[m].text = tree[m].text
      BY <3>1, <3>2, ChangedIs
    <3>4. tree' = [u EXCEPT ![n].text = NameOf(new)]
      BY <2>3, <3>1
    <3> QED BY <2>3, <3>3, <3>4 DEF Node
  <2>4. \A m \in DOMAIN tree' \ {Root} :
           (m \in DOMAIN tree /\ tree'[m].text = tree[m].text) \/ Legal(tree'[m].text)
    BY <1>2, <2>3, RenamedFolder
  <2> QED BY <2>2, <2>4, StaysLawful
<1>3. ASSUME NEW pos \in DOMAIN tree, MoveFolder(pos, n) PROVE Lawful'
  <2>1. \A k \in Taken' : k \in Taken \/ Legal(k)
    <3>1. UNCHANGED <<files, dirs>> => Taken' = Taken
      BY DEF Taken
    <3> QED BY <1>1, <1>3, <3>1, MovedFolder
  <2>2. PICK new, tagged, to :
            /\ to = Target(pos) /\ tagged = ChangedTags(n, NodePath[n], new)
            /\ new = RightPath(Taken, NodePath[Target(pos)] \o tree[n].text)
    OBVIOUS
  <2>3. /\ n # Root /\ n \notin Above[pos]
        /\ tree' = tagged \/ tree' = [tagged EXCEPT ![n].parent = to]
    BY <1>3, <2>2 DEF MoveFolder, IsFolder
  <2>4. new \in Path /\ new # <<>>
    BY <2>2, <2>3, MovedPath DEF Named
  <2>5. /\ DOMAIN tagged = DOMAIN tree /\ tagged \in [DOMAIN tree -> Node]
        /\ \A m \in DOMAIN tree : tagged[m].text = tree[m].text
    <3>1. NodePath[n] \in Path
      BY NodePathGood
    <3> QED BY <2>2, <2>4, <3>1, ChangedIs
  <2>6. \A m \in DOMAIN tree' \ {Root} : m \in DOMAIN tree /\ tree'[m].text = tree[m].text
    BY <2>3, <2>5 DEF Node
  <2> QED BY <2>1, <2>6, StaysLawful
<1> QED BY <1>2, <1>3

\* What is deleted, opened, exported or loaded changes no name.
LEMMA OthersLawful ==
  ASSUME TypeInv, Lawful, NEW n \in DOMAIN tree,
         \/ DeleteFile(n) \/ RemoveNode(n) \/ SaveAs(n) \/ LoadInto(n) \/ OpenNode(n)
  PROVE  Lawful'
<1>1. \A m \in DOMAIN tree' \ {Root} : m \in DOMAIN tree /\ tree'[m].text = tree[m].text
  <2>1. tree' = Without(tree, Below(n)) \/ UNCHANGED tree
    BY DEF DeleteFile, RemoveNode, SaveAs, LoadInto, OpenNode
  <2> QED BY <2>1 DEF Without
<1>2. \A k \in Taken' : k \in Taken \/ Legal(k)
  <2>1. CASE LoadInto(n)
    <3>1. PICK key : key = Key(tree[n].tag)
      OBVIOUS
    <3>2. /\ Writable(dirs, tree[n].tag) /\ UNCHANGED dirs
          /\ files' = IF exported = NoText THEN Without(files, {key}) ELSE With(files, key, exported)
      BY <2>1, <3>1 DEF LoadInto
    <3>3. Legal(key)
      BY <3>1, <3>2, TagIs, LegalFile
    <3> QED BY <3>2, <3>3 DEF Taken, With, Without
  <2>2. CASE DeleteFile(n)
    BY <2>2 DEF DeleteFile, Taken, Without
  <2>3. CASE RemoveNode(n)
    BY <2>3 DEF RemoveNode, Taken, Without
  <2>4. CASE SaveAs(n) \/ OpenNode(n)
    BY <2>4 DEF SaveAs, OpenNode, Taken
  <2> QED BY <2>1, <2>2, <2>3, <2>4
<1> QED BY <1>1, <1>2, StaysLawful

\* Every step leaves legal names.
LEMMA NextLawful ==
  ASSUME TypeInv, Lawful, Numerals, [Next]_vars
  PROVE  Lawful'
<1>1. CASE NewProject \/ OpenProject
  BY <1>1, ProjectLawful
<1>2. ASSUME NEW n \in DOMAIN tree, OnNode(n) PROVE Lawful'
  <2>1. CASE AddItem(n) \/ \E text \in Texts : DropFile(n, text)
    BY <2>1, NewFilesLawful
  <2>2. CASE AddFolder(n)
    BY <2>2, AddFolderLawful
  <2>3. CASE (\E label \in Labels : RenameFile(n, label)) \/ \E pos \in DOMAIN tree : MoveFile(pos, n)
    BY <2>3, FileMovesLawful
  <2>4. CASE \/ \E label \in Labels : RenameFolder(n, label)
             \/ \E pos \in DOMAIN tree : MoveFolder(pos, n)
    BY <2>4, FolderMovesLawful
  <2>5. CASE DeleteFile(n) \/ RemoveNode(n) \/ SaveAs(n) \/ LoadInto(n) \/ OpenNode(n)
    BY <2>5, OthersLawful
  <2> QED BY <1>2, <2>1, <2>2, <2>3, <2>4, <2>5 DEF OnNode
<1>3. CASE (\E i \in DOMAIN tabs : OnTab(i)) \/ SaveAll \/ BuildProject \/ Restart
  BY <1>3, OnTabsLawful
<1>4. CASE UNCHANGED vars
  BY <1>4 DEF vars, Lawful, Taken
<1> QED BY <1>1, <1>2, <1>3, <1>4 DEF Next

-----------------------------------------------------------------------------
(* The steps after which the tree still shows the disk *)

\* A path with its last separator doubled
LEMMA DoubledIs ==
  ASSUME NEW p, GoodPath(p)
  PROVE  /\ Doubled(p) \in Path /\ Doubled(p) # <<>> /\ Doubled(p)[Len(Doubled(p))] \in Seps
         /\ Front(Doubled(p)) = Front(p)
         /\ Legal(p) => Legal(Doubled(p))
<1>1. p \in Path /\ Len(p) \in Nat /\ Len(p) >= 4 /\ p[Len(p)] \in Seps
  BY PathParts DEF GoodPath, Seps
<1>2. PICK f : f = Front(p)
  OBVIOUS
<1>3. f = SubSeq(p, 1, Len(p) - 1)
  BY <1>2 DEF Front
<1>4. PICK l : l = Len(p) - 1
  OBVIOUS
<1>5. 1 \in 1..Len(p) + 1 /\ l \in Int /\ 1 - 1 <= l /\ l <= Len(p)
  BY <1>1, <1>4
<1>6. f \in Path
  BY <1>1, <1>3, <1>4, <1>5, PieceParts
<1>7. Legal(p) => Legal(f)
  BY <1>1, <1>3, <1>4, <1>5, LegalPiece
<1>8. Sep2 \in Parts /\ Sep2 # Bad
  BY SepFacts DEF Sep2, Bad
<1>9. PICK s : s = Sep2
  OBVIOUS
<1>10. Doubled(p) = f \o <<s>>
  BY <1>2, <1>6, <1>8, <1>9 DEF Doubled, Path
<1>11. PICK d : d = f \o <<s>>
  OBVIOUS
<1>12. d \in Path /\ Len(d) = Len(f) + 1 /\ d[Len(f) + 1] = s /\ Len(f) \in Nat
  BY <1>6, <1>8, <1>9, <1>11, OneMore, PathParts
<1>13. d # <<>> /\ d[Len(d)] \in Seps
  BY <1>9, <1>12 DEF Seps
<1>14. Front(d) = f
  BY <1>6, <1>8, <1>9, <1>11, FrontOf
<1>15. Legal(p) => Legal(d)
  BY <1>6, <1>7, <1>8, <1>9, <1>11, LegalParts, LegalJoin
<1> QED BY <1>2, <1>10, <1>11, <1>12, <1>13, <1>14, <1>15

\* A name is plain.
LEMMA NamePlainly ==
  ASSUME NEW x \in Path, Named(x), IsName(x)
  PROVE  Plain(x) /\ Legal(x)
BY PathParts DEF Plain, Named, IsName, Seps

\* What is done to a tab or to all leaves the tree and the folders.
LEMMA OnTabsShow ==
  ASSUME TypeInv, Mirrors, TypeInv',
         (\E i \in DOMAIN tabs : OnTab(i)) \/ SaveAll \/ BuildProject \/ Restart
  PROVE  Mirrors'
<1>1. ASSUME NEW S, S \subseteq DOMAIN tabs, files' = FilesSaved(S), UNCHANGED <<tree, dirs>>
      PROVE  Mirrors'
  <2>1. DOMAIN files \subseteq DOMAIN files'
    BY <1>1, FilesSavedIs DEF TypeInv
  <2> QED BY <1>1, <2>1, SameShows
<1>2. ASSUME NEW i \in DOMAIN tabs, OnTab(i) PROVE Mirrors'
  <2>1. CASE Save(i)
    BY <1>1, <2>1 DEF Save
  <2>2. CASE UNCHANGED <<files, tree, dirs>>
    BY <2>2, SameShows
  <2> QED BY <1>2, <2>1, <2>2 DEF OnTab, Edit, MarkUnsaved, CloseTab
<1>3. CASE SaveAll \/ BuildProject
  BY <1>1, <1>3, SavedTabsAre DEF SaveAll, BuildProject, TypeInv
<1>4. CASE Restart
  <2>1. tree' = <<>>
    BY <1>4 DEF Restart
  <2> QED BY <2>1 DEF Mirrors
<1> QED BY <1>2, <1>3, <1>4

\* A path for something new in a folder
LEMMA NewPlace ==
  ASSUME TypeInv, Numerals, NEW n \in DOMAIN tree, NEW x, Plain(x),
         NEW taken, IsFiniteSet(taken),
         NEW q \in {NodePath[n], Doubled(NodePath[n])}, NEW r, r = RightPath(taken, q \o x)
  PROVE  /\ r \in Path /\ Named(r) /\ r # NoPath /\ Key(r) \notin taken
         /\ Key(q \o NameOf(r)) = Key(r) /\ Plain(NameOf(r))
         /\ DirOf(Key(r)) = FolderKey(n)
         /\ Lawful /\ Legal(x) => Legal(r)
<1>1. GoodPath(NodePath[n]) /\ NodePath[n] \in Path
  BY NodePathGood
<1>2. NodePath[n] # <<>> /\ NodePath[n][Len(NodePath[n])] \in Seps
  BY FoldersAre DEF TypeInv, Folders
<1>3. /\ q \in Path /\ q # <<>> /\ q[Len(q)] \in Seps /\ Front(q) = Front(NodePath[n])
      /\ Legal(NodePath[n]) => Legal(q)
  BY <1>1, <1>2, DoubledIs
<1>4. /\ r \in Path /\ Named(r) /\ Key(r) \notin taken
      /\ r = q \o NameOf(r) /\ Plain(NameOf(r))
      /\ DirOf(Key(r)) = Key(Front(q))
      /\ Legal(q) /\ Legal(x) => Legal(r)
  BY <1>3, NewName
<1>5. r # NoPath
  BY <1>4 DEF Named, NoPath
<1>6. Lawful => Legal(q)
  BY <1>3, LegalNodePath
<1> QED BY <1>3, <1>4, <1>5, <1>6 DEF FolderKey

\* The names of what the program adds
LEMMA PlainWords ==
  Plain(<<"code">>) /\ Plain(<<"folder">>) /\ Plain(Dropped)
<1>1. ASSUME NEW w \in {"code", "folder"} PROVE Plain(<<w>>)
  <2>1. w \in Parts /\ w \notin Seps
    BY WorkspaceAssumption DEF Seps, Sep, Sep2
  <2>2. <<w>> # <<>> /\ \A i \in 1..1 : <<w>>[i] = w
    OBVIOUS
  <2> QED BY <2>1, <2>2, OnePart DEF Plain
<1>2. Plain(Dropped)
  BY WorkspaceAssumption, NamePlainly DEF Path
<1> QED BY <1>1, <1>2

\* A new item is shown where it is.
LEMMA AddItemShows ==
  ASSUME TypeInv, Mirrors, TypeInv', Numerals, NEW n \in DOMAIN tree, AddItem(n)
  PROVE  Mirrors'
<1>1. PICK saved, path :
          /\ saved = FilesSaved(SavedTabs)
          /\ path = RightPath(DOMAIN saved \cup dirs, NodePath[n] \o <<"code">>)
  OBVIOUS
<1>2. DOMAIN files \subseteq DOMAIN saved
  BY <1>1, FilesSavedIs, SavedTabsAre DEF TypeInv
<1>3. IsFiniteSet(DOMAIN saved \cup dirs)
  <2>1. FilesInv(saved, dirs, clicks)
    BY <1>1, SavedInv, SavedTabsAre DEF TypeInv
  <2> QED BY <2>1, FS_Union DEF FilesInv, DiskInv
<1>4. UNCHANGED dirs /\ ~IsFile(n)
  BY DEF AddItem
<1>5. CASE /\ files' = With(saved, Key(path), Template)
           /\ tree' = WithNode(n, NameOf(path), path)
  <2>1. /\ path \in Path /\ path # NoPath /\ Key(path) \notin DOMAIN saved \cup dirs
        /\ DirOf(Key(path)) = FolderKey(n)
    BY <1>1, <1>3, PlainWords, NewPlace
  <2>2. DOMAIN files' = DOMAIN saved \cup {Key(path)}
    BY <1>5 DEF With
  <2>3. PICK K : K = IF path # NoPath THEN Key(path) ELSE Key(NodePath[n] \o NameOf(path))
    OBVIOUS
  <2>4. K = Key(path)
    BY <2>1, <2>3
  <2>5. K \notin Taken
    BY <1>2, <2>1, <2>4 DEF Taken
  <2>6. K \in IF path # NoPath THEN DOMAIN files' ELSE dirs'
    BY <2>1, <2>2, <2>4
  <2>7. DirOf(K) = FolderKey(n) /\ DOMAIN files \subseteq DOMAIN files' /\ dirs \subseteq dirs'
    BY <1>2, <1>4, <2>1, <2>2, <2>4
  <2> QED BY <1>4, <1>5, <2>1, <2>3, <2>5, <2>6, <2>7, LeafShows
<1>6. CASE files' = saved /\ UNCHANGED tree
  BY <1>2, <1>4, <1>6, SameShows
<1> QED BY <1>1, <1>5, <1>6 DEF AddItem

\* So is a new folder.
LEMMA AddFolderShows ==
  ASSUME TypeInv, Mirrors, TypeInv', Numerals, NEW n \in DOMAIN tree, AddFolder(n)
  PROVE  Mirrors'
<1>1. PICK path : path = RightPath(Taken, NodePath[n] \o <<"folder">>)
  OBVIOUS
<1>2. /\ ~IsFile(n) /\ tree' = WithNode(n, NameOf(path), NoPath) /\ UNCHANGED files
      /\ dirs \subseteq dirs' /\ Key(path) \in dirs'
  BY <1>1 DEF AddFolder
<1>3. /\ Key(NodePath[n] \o NameOf(path)) = Key(path) /\ Key(path) \notin Taken
      /\ DirOf(Key(path)) = FolderKey(n)
  <2>1. PICK q, x : q = NodePath[n] /\ x = <<"folder">>
    OBVIOUS
  <2>2. Plain(x) /\ q \in {NodePath[n], Doubled(NodePath[n])} /\ path = RightPath(Taken, q \o x)
    BY <1>1, <2>1, PlainWords
  <2>3. /\ Key(q \o NameOf(path)) = Key(path) /\ Key(path) \notin Taken
        /\ DirOf(Key(path)) = FolderKey(n)
    BY <2>2, TakenFinite, NewPlace
  <2> QED BY <2>1, <2>3
<1>4. NoPath \in Path
  BY DEF NoPath, Path
<1>5. PICK K : K = IF NoPath # NoPath THEN Key(NoPath) ELSE Key(NodePath[n] \o NameOf(path))
  OBVIOUS
<1>6. K = Key(path)
  BY <1>3, <1>5
<1>7. K \notin Taken /\ DirOf(K) = FolderKey(n) /\ K \in IF NoPath # NoPath THEN DOMAIN files' ELSE dirs'
  BY <1>2, <1>3, <1>6
<1> QED BY <1>2, <1>4, <1>5, <1>7, LeafShows

\* So is a file dragged in, unless it is dropped on a file.
LEMMA DropShows ==
  ASSUME TypeInv, Mirrors, TypeInv', Numerals, NEW n \in DOMAIN tree, ~IsFile(n),
         NEW text \in Texts, DropFile(n, text)
  PROVE  Mirrors'
<1>1. PICK path : path = RightPath(Taken, Doubled(NodePath[n]) \o Dropped)
  OBVIOUS
<1>2. /\ files' = With(files, Key(path), text)
      /\ tree' = WithNode(n, NameOf(path), path) /\ UNCHANGED dirs
  BY <1>1 DEF DropFile
<1>3. /\ path \in Path /\ path # NoPath /\ Key(path) \notin Taken
      /\ DirOf(Key(path)) = FolderKey(n)
  BY <1>1, TakenFinite, PlainWords, NewPlace
<1>4. DOMAIN files' = DOMAIN files \cup {Key(path)}
  BY <1>2 DEF With
<1>5. PICK K : K = IF path # NoPath THEN Key(path) ELSE Key(NodePath[n] \o NameOf(path))
  OBVIOUS
<1>6. K = Key(path)
  BY <1>3, <1>5
<1>7. /\ K \notin Taken /\ DirOf(K) = FolderKey(n)
      /\ K \in IF path # NoPath THEN DOMAIN files' ELSE dirs'
  BY <1>3, <1>4, <1>6
<1>8. DOMAIN files \subseteq DOMAIN files' /\ dirs \subseteq dirs'
  BY <1>2, <1>4
<1> QED BY <1>2, <1>3, <1>5, <1>7, <1>8, LeafShows

\* What is deleted is not shown any more, and the rest is.
LEMMA DeleteShows ==
  ASSUME TypeInv, Mirrors, TypeInv', NEW n \in DOMAIN tree, DeleteFile(n)
  PROVE  Mirrors'
<1>1. /\ IsFile(n) /\ files' = Without(files, {Key(tree[n].tag)})
      /\ tree' = Without(tree, Below(n)) /\ UNCHANGED dirs
  BY DEF DeleteFile
<1>2. Where(n) = Key(tree[n].tag) /\ n \in DOMAIN tree \ {Root}
  BY <1>1 DEF Where, IsFile
<1>3. ASSUME NEW m \in DOMAIN tree \ {Root}, m \notin Below(n)
      PROVE  Where(m) \in IF IsFile(m) THEN DOMAIN files' ELSE dirs'
  <2>1. m # n
    BY <1>1, <1>3, FileHasNone
  <2>2. Where(m) # Where(n) /\ Where(m) \in IF IsFile(m) THEN DOMAIN files ELSE dirs
    BY <1>2, <2>1 DEF Mirrors
  <2> QED BY <1>1, <1>2, <2>2 DEF Without
<1> QED BY <1>1, <1>3, GoneShows

\* The same of a folder that is removed, and of a project.
LEMMA RemoveShows ==
  ASSUME TypeInv, Mirrors, TypeInv', NEW n \in DOMAIN tree, RemoveNode(n)
  PROVE  Mirrors'
<1>1. PICK dir, gone : dir = FolderKey(n) /\ gone = {k \in Taken : k = dir \/ Inside(k, dir)}
  OBVIOUS
<1>2. /\ ~IsFile(n) /\ tree' = Without(tree, Below(n))
      /\ IF n = Root THEN UNCHANGED <<files, dirs>>
         ELSE files' = Without(files, gone) /\ dirs' = dirs \ gone
  BY <1>1 DEF RemoveNode
<1>3. ASSUME NEW m \in DOMAIN tree \ {Root}, m \notin Below(n)
      PROVE  Where(m) \in IF IsFile(m) THEN DOMAIN files' ELSE dirs'
  <2>1. Where(m) \in IF IsFile(m) THEN DOMAIN files ELSE dirs
    BY DEF Mirrors
  <2>2. CASE n = Root
    BY <1>2, <2>1, <2>2
  <2>3. CASE n # Root
    <3>1. PICK w : w = [i \in DOMAIN tree |-> Where(i)]
      OBVIOUS
    <3>2. ~Within(w[m], dir)
      BY <1>1, <1>2, <1>3, <2>3, <3>1, BelowIs
    <3>3. Where(m) \notin gone
      BY <1>1, <3>1, <3>2 DEF Within
    <3> QED BY <1>2, <2>1, <2>3, <3>3 DEF Without
  <2> QED BY <2>2, <2>3
<1> QED BY <1>2, <1>3, GoneShows

\* The place of a file node
LEMMA FileStands ==
  ASSUME TypeInv, Mirrors, NEW n \in DOMAIN tree, IsFile(n)
  PROVE  /\ n # Root /\ Where(n) = Key(tree[n].tag)
         /\ Where(n) \in DOMAIN files /\ Where(n) \notin dirs
         /\ tree[n].parent \in DOMAIN tree /\ ~IsFile(tree[n].parent)
         /\ FolderKey(tree[n].parent) \in dirs
<1>1. n \in DOMAIN tree \ {Root} /\ Where(n) = Key(tree[n].tag)
  BY DEF IsFile, Where
<1>2. /\ Where(n) \in DOMAIN files /\ ~IsFile(tree[n].parent)
      /\ DirOf(Where(n)) = FolderKey(tree[n].parent)
  BY <1>1 DEF Mirrors
<1>3. IsDisk(DOMAIN files, dirs)
  BY DEF TypeInv, FilesInv, DiskInv
<1>4. DirOf(Where(n)) \in dirs /\ Where(n) \notin dirs
  BY <1>2, <1>3 DEF IsDisk
<1> QED BY <1>1, <1>2, <1>4, ParentIs

\* A file that gets another name is shown under it.
LEMMA RenameFileShows ==
  ASSUME TypeInv, Mirrors, TypeInv', Lawful, Numerals, NEW n \in DOMAIN tree,
         NEW label \in Labels, IsName(label), RenameFile(n, label)
  PROVE  Mirrors'
<1>1. PICK rest, new, old, to :
          /\ rest = Without(files, {Key(tree[n].tag)}) /\ old = Key(tree[n].tag)
          /\ to = tree[n].parent
          /\ new = RightPath(DOMAIN rest \cup dirs, Doubled(NodePath[to]) \o label)
  OBVIOUS
<1>2. /\ IsFile(n) /\ UNCHANGED dirs
      /\ \/ /\ Writable(dirs, new)
            /\ files' = With(rest, Key(new), Empty)
            /\ tree' = [tree EXCEPT ![n].tag = new, ![n].text = NameOf(new)]
         \/ ~Writable(dirs, new)
  BY <1>1 DEF RenameFile
<1>3. /\ to \in DOMAIN tree /\ ~IsFile(to) /\ old \notin dirs
      /\ FolderKey(to) \in dirs /\ old = Where(n)
  BY <1>1, <1>2, FileStands
<1>4. IsFiniteSet(DOMAIN rest \cup dirs) /\ DOMAIN rest = DOMAIN files \ {old}
  <2>1. DOMAIN rest = DOMAIN files \ {old}
    BY <1>1 DEF Without
  <2> QED BY <2>1, TakenFinite, FS_Subset, FS_Union
<1>5. Plain(label) /\ Legal(label)
  BY WorkspaceAssumption, NamePlainly DEF Path
<1>6. /\ new \in Path /\ Named(new) /\ new # NoPath /\ Key(new) \notin DOMAIN rest \cup dirs
      /\ DirOf(Key(new)) = FolderKey(to) /\ Legal(new)
  <2>1. /\ new \in Path /\ Named(new) /\ new # NoPath /\ Key(new) \notin DOMAIN rest \cup dirs
        /\ DirOf(Key(new)) = FolderKey(to)
    <3>1. PICK taken, q : taken = DOMAIN rest \cup dirs /\ q = Doubled(NodePath[to])
      OBVIOUS
    <3>2. /\ IsFiniteSet(taken) /\ q \in {NodePath[to], Doubled(NodePath[to])}
          /\ new = RightPath(taken, q \o label)
      BY <1>1, <1>4, <3>1
    <3>3. /\ new \in Path /\ Named(new) /\ new # NoPath /\ Key(new) \notin taken
          /\ DirOf(Key(new)) = FolderKey(to)
      BY <1>3, <1>5, <3>2, NewPlace
    <3> QED BY <3>1, <3>3
  <2>2. Lawful /\ Legal(label) => Legal(new)
    BY <1>1, <1>3, <1>4, <1>5, NewPlace
  <2> QED BY <1>5, <2>1, <2>2
<1>7. Writable(dirs, new)
  BY <1>3, <1>6 DEF Writable
<1>8. /\ files' = With(rest, Key(new), Empty)
      /\ tree' = [tree EXCEPT ![n].tag = new, ![n].text = NameOf(new)]
  BY <1>2, <1>7
<1>9. DOMAIN files' = (DOMAIN files \ {old}) \cup {Key(new)}
  BY <1>4, <1>8 DEF With
<1>10. Key(new) \notin Taken \ {old}
  BY <1>3, <1>4, <1>6 DEF Taken
<1>11. /\ DOMAIN tree' = DOMAIN tree /\ \A m \in DOMAIN tree \ {n} : tree'[m] = tree[m]
       /\ tree'[n].tag = new /\ tree'[n].parent = to
  <2>1. tree \in [DOMAIN tree -> Node]
    BY DEF TypeInv, TreeInv, NodesOK
  <2> QED BY <1>1, <1>8, <2>1 DEF Node
<1> QED BY <1>1, <1>2, <1>3, <1>6, <1>9, <1>10, <1>11, FileShows

\* What is dropped on a file comes to stand beside it.
LEMMA TargetFolder ==
  ASSUME TypeInv, Mirrors, NEW pos \in DOMAIN tree
  PROVE  Target(pos) \in DOMAIN tree /\ ~IsFile(Target(pos))
<1>1. CASE IsFile(pos)
  <2>1. /\ Key(tree[pos].tag) \notin dirs
        /\ tree[pos].parent \in DOMAIN tree /\ ~IsFile(tree[pos].parent)
    BY <1>1, FileStands
  <2> QED BY <1>1, <2>1 DEF Target
<1>2. CASE ~IsFile(pos)
  BY <1>2 DEF Target
<1> QED BY <1>1, <1>2

\* A file that is moved is shown where it went.
LEMMA MoveFileShows ==
  ASSUME TypeInv, Mirrors, TypeInv', Numerals, NEW n \in DOMAIN tree, NEW pos \in DOMAIN tree,
         MoveFile(pos, n)
  PROVE  Mirrors'
<1>1. PICK old, new, to, x :
          /\ old = Key(tree[n].tag) /\ to = Target(pos) /\ x = tree[n].text
          /\ new = RightPath(Taken, NodePath[to] \o x)
  OBVIOUS
<1>2. /\ IsFile(n) /\ UNCHANGED dirs
      /\ files' = With(Without(files, {old}), Key(new), files[old])
      /\ tree' = [tree EXCEPT ![n].tag = new, ![n].parent = to]
  BY <1>1 DEF MoveFile
<1>3. to \in DOMAIN tree /\ ~IsFile(to)
  BY <1>1, TargetFolder
<1>4. Plain(x)
  BY <1>1, <1>2 DEF TypeInv, TreeInv, NodesOK, IsFile
<1>5. /\ new \in Path /\ new # NoPath /\ Key(new) \notin Taken
      /\ DirOf(Key(new)) = FolderKey(to)
  BY <1>1, <1>3, <1>4, TakenFinite, NewPlace
<1>6. DOMAIN files' = (DOMAIN files \ {old}) \cup {Key(new)}
  BY <1>2 DEF With, Without
<1>7. /\ DOMAIN tree' = DOMAIN tree /\ \A m \in DOMAIN tree \ {n} : tree'[m] = tree[m]
      /\ tree'[n].tag = new /\ tree'[n].parent = to
  <2>1. tree \in [DOMAIN tree -> Node]
    BY DEF TypeInv, TreeInv, NodesOK
  <2> QED BY <1>2, <2>1 DEF Node
<1>8. Key(new) \notin Taken \ {old} /\ IsFile(n) /\ UNCHANGED dirs
  BY <1>2, <1>5
<1>9. old = Key(tree[n].tag)
  BY <1>1
<1> QED BY <1>3, <1>5, <1>6, <1>7, <1>8, <1>9, FileShows

\* A key is its folder, a separator and its name.
LEMMA KeySplit ==
  ASSUME NEW k, IsKey(k), Named(k), LastSep(k) # 0
  PROVE  /\ k = DirOf(k) \o (<<Sep>> \o Key(NameOf(k)))
         /\ DirOf(k) \in Path
<1>1. k \in Path /\ Len(k) \in Nat
  BY PathParts DEF IsKey, Path
<1>2. PICK l, m : l = LastSep(k) /\ m = l + 1
  OBVIOUS
<1>3. l \in 1..Len(k) /\ k[l] \in Seps
  BY <1>1, <1>2, LastSepIs
<1>4. PICK q, x : q = SubSeq(k, 1, l) /\ x = NameOf(k)
  OBVIOUS
<1>5. 1 \in 1..Len(k) + 1 /\ l \in Int /\ 1 - 1 <= l /\ l <= Len(k)
  BY <1>1, <1>3
<1>6. q \in Path /\ Len(q) = l - 1 + 1 /\ \A i \in 1..l - 1 + 1 : q[i] = k[1 + i - 1]
  BY <1>1, <1>4, <1>5, PieceParts
<1>7. Len(q) = l /\ \A i \in 1..l : q[i] = k[i]
  BY <1>3, <1>6
<1>8. PICK n : n = Len(k)
  OBVIOUS
<1>9. m \in 1..Len(k) + 1 /\ n \in Int /\ m - 1 <= n /\ n <= Len(k)
  BY <1>1, <1>2, <1>3, <1>8
<1>10. x = SubSeq(k, m, n)
  BY <1>2, <1>4, <1>8 DEF NameOf
<1>11. x \in Path /\ Len(x) = n - m + 1 /\ \A i \in 1..n - m + 1 : x[i] = k[m + i - 1]
  BY <1>1, <1>9, <1>10, PieceParts
<1>12. Plain(x)
  BY <1>1, <1>4, NamePlain
<1>13. q \o x = k
  <2>1. q \o x \in Path /\ Len(q \o x) = Len(q) + Len(x)
        /\ (\A i \in 1..Len(q) : (q \o x)[i] = q[i])
        /\ \A i \in 1..Len(x) : (q \o x)[Len(q) + i] = x[i]
    BY <1>6, <1>11, JoinParts
  <2>2. PICK j : j = q \o x
    OBVIOUS
  <2>3. j \in Path /\ Len(j) = Len(k)
    BY <1>2, <1>3, <1>7, <1>8, <1>11, <2>1, <2>2
  <2>4. ASSUME NEW i \in 1..Len(j) PROVE j[i] = k[i]
    <3>1. CASE i <= l
      BY <1>3, <1>7, <2>1, <2>2, <3>1
    <3>2. CASE i > l
      <4>1. PICK h : h = i - l
        OBVIOUS
      <4>2. h \in 1..Len(x) /\ l + h = i /\ m + h - 1 = i
        <5>1. PICK a : a = Len(x)
          OBVIOUS
        <5>2. n \in Nat /\ l \in Nat /\ m = l + 1 /\ a = n - m + 1 /\ i \in 1..n
          BY <1>1, <1>2, <1>3, <1>8, <1>11, <2>3, <5>1
        <5>3. h \in 1..a /\ l + h = i /\ m + h - 1 = i
          BY <3>2, <4>1, <5>2
        <5> QED BY <5>1, <5>3
      <4>3. (q \o x)[Len(q) + h] = x[h]
        BY <2>1, <4>2
      <4>4. x[h] = k[m + h - 1]
        BY <1>11, <4>2
      <4> QED BY <1>7, <2>2, <4>2, <4>3, <4>4
    <3> QED BY <1>3, <2>3, <2>4, <3>1, <3>2, PathParts
  <2>5. j = k
    BY <1>1, <2>3, <2>4, SamePath
  <2> QED BY <2>2, <2>5
<1>14. q # <<>> /\ q[Len(q)] \in Seps
  BY <1>3, <1>7
<1>15. /\ DirOf(Key(q \o x)) = Key(Front(q)) /\ Front(q) \in Path
       /\ Key(q) = Key(Front(q)) \o <<Sep>> /\ Key(q \o x) = Key(q) \o Key(x)
  BY <1>6, <1>12, <1>14, KeyAfter
<1>16. Key(k) = k
  BY KeyOfKey
<1>17. PICK d, y : d = DirOf(k) /\ y = Key(x)
  OBVIOUS
<1>18. k = (d \o <<Sep>>) \o y /\ d = Key(Front(q))
  BY <1>13, <1>15, <1>16, <1>17
<1>19. d \in Path /\ y \in Path /\ <<Sep>> \in Path
  BY <1>11, <1>15, <1>17, <1>18, KeyParts, SepFacts, OnePart
<1>20. (d \o <<Sep>>) \o y = d \o (<<Sep>> \o y)
  BY <1>19, JoinThree
<1> QED BY <1>4, <1>17, <1>18, <1>19, <1>20

\* A tree that is loaded shows the disk.
LEMMA LoadedShows ==
  ASSUME TypeInv', tree' = LoadedTree(files', dirs')
  PROVE  Mirrors'
<1>1. TreeInv(tree') /\ DiskInv(DOMAIN files', dirs', clicks')
  BY DEF TypeInv, FilesInv
<1>2. PICK X : X = {k \in DOMAIN files' \cup dirs' : Inside(k, DataDir)}
  OBVIOUS
<1>3. /\ \A k \in X : /\ IsKey(k) /\ Named(k) /\ k \in Path /\ Inside(k, DataDir) /\ LastSep(k) # 0
                      /\ DirOf(k) = DataDir \/ DirOf(k) \in X
      /\ \E n \in Nat : \E seq, up : LoadedAs(tree', dirs', X, n, seq, up)
  BY <1>1, <1>2, LoadedNodes
<1>4. PICK n \in Nat : \E seq, up : LoadedAs(tree', dirs', X, n, seq, up)
  BY <1>3
<1>5. PICK seq, up : LoadedAs(tree', dirs', X, n, seq, up)
  BY <1>4
<1>6. DOMAIN tree' = 0..n
  BY <1>5 DEF LoadedAs
<1>7. /\ \A i \in 1..n : seq[i] \in X
      /\ \A i \in 1..n : \A j \in 1..n : seq[i] = seq[j] => i = j
      /\ \A i \in 1..n :
           \/ up[i] = Root /\ DirOf(seq[i]) = DataDir
           \/ up[i] \in 1..n /\ seq[up[i]] = DirOf(seq[i])
  BY <1>5 DEF LoadedAs
<1>8. ASSUME NEW i \in 1..n
      PROVE  /\ tree'[i].parent = up[i] /\ tree'[i].text = NameOf(seq[i])
             /\ tree'[i].tag = IF seq[i] \in dirs' THEN NoPath ELSE seq[i]
  <2>1. tree'[i] = [parent |-> up[i], text |-> NameOf(seq[i]),
                    tag |-> IF seq[i] \in dirs' THEN NoPath ELSE seq[i]]
    BY <1>5, <1>8 DEF LoadedAs
  <2>2. PICK t : t = IF seq[i] \in dirs' THEN NoPath ELSE seq[i]
    OBVIOUS
  <2> QED BY <2>1, <2>2
<1>9. Folders'
  <2>1. (TreeInv(tree) => Folders)'
    BY FoldersAre, PTL
  <2> QED BY <1>1, <2>1
<1>10. PICK v : v = [i \in DOMAIN tree' |-> FolderKey(i)']
  OBVIOUS
<1>11. /\ v[Root] = DataDir
       /\ \A i \in 1..n : v[i] = v[up[i]] \o (<<Sep>> \o Key(NameOf(seq[i])))
  <2>1. Root \in DOMAIN tree' /\ v[Root] = DataDir
    BY <1>6, <1>9, <1>10 DEF Folders, Root
  <2>2. ASSUME NEW i \in 1..n
        PROVE  v[i] = v[up[i]] \o (<<Sep>> \o Key(NameOf(seq[i])))
    <3>1. i \in DOMAIN tree' \ {Root}
      BY <1>6 DEF Root
    <3>2. /\ tree'[i].parent \in DOMAIN tree'
          /\ FolderKey(i)' = FolderKey(tree[i].parent)' \o (<<Sep>> \o Key(tree'[i].text))
      BY <1>9, <3>1 DEF Folders
    <3>3. v[i] = FolderKey(i)' /\ v[tree'[i].parent] = FolderKey(tree[i].parent)'
      BY <1>10, <3>1, <3>2
    <3> QED BY <1>8, <3>2, <3>3
  <2> QED BY <2>1, <2>2
<1>12. \A i \in 1..n : v[i] = seq[i]
  <2>1. PICK C : C = {i \in 1..n : v[i] # seq[i]}
    OBVIOUS
  <2>2. C \in SUBSET (DOMAIN tree' \ {Root})
    BY <1>6, <2>1 DEF Root
  <2>3. ASSUME NEW i \in C PROVE tree'[i].parent \in C
    <3>1. i \in 1..n /\ v[i] # seq[i]
      BY <2>1
    <3>2. SUFFICES ASSUME up[i] \notin C PROVE FALSE
      BY <1>8, <3>1
    <3>3. v[up[i]] = DirOf(seq[i])
      <4>1. CASE up[i] = Root /\ DirOf(seq[i]) = DataDir
        BY <1>11, <4>1
      <4>2. CASE up[i] \in 1..n /\ seq[up[i]] = DirOf(seq[i])
        BY <2>1, <3>2, <4>2
      <4> QED BY <1>7, <3>1, <4>1, <4>2
    <3>4. PICK k : k = seq[i]
      OBVIOUS
    <3>5. k = DirOf(k) \o (<<Sep>> \o Key(NameOf(k)))
      BY <1>3, <1>7, <3>1, <3>4, KeySplit
    <3>6. v[i] = v[up[i]] \o (<<Sep>> \o Key(NameOf(seq[i])))
      BY <1>11, <3>1
    <3> QED BY <3>1, <3>3, <3>4, <3>5, <3>6
  <2>4. C = {}
    BY <1>1, <2>2, <2>3 DEF TreeInv, Rooted
  <2> QED BY <2>1, <2>4
<1>13. PICK w : w = [i \in DOMAIN tree' |-> IF i = Root THEN DataDir ELSE seq[i]]
  OBVIOUS
<1>14. ASSUME NEW i \in 1..n
       PROVE  /\ i \in DOMAIN tree' /\ i # Root /\ w[i] = seq[i]
              /\ tree'[i].tag # NoPath <=> seq[i] \notin dirs'
  <2>1. i \in DOMAIN tree' /\ i # Root
    BY <1>6 DEF Root
  <2>2. seq[i] # NoPath
    BY <1>3, <1>7, <1>14 DEF Named, NoPath
  <2> QED BY <1>8, <1>13, <1>14, <2>1, <2>2
<1>15. ASSUME NEW i \in DOMAIN tree' PROVE Where(i)' = w[i]
  <2>1. Root \in DOMAIN tree' /\ w[Root] = DataDir /\ FolderKey(i)' = v[i]
    BY <1>6, <1>10, <1>13, <1>15 DEF Root
  <2>2. CASE i = Root
    BY <1>11, <2>1, <2>2 DEF Where, IsFile
  <2>3. CASE i # Root
    <3>1. i \in 1..n
      BY <1>6, <1>15, <2>3 DEF Root
    <3>2. CASE seq[i] \in dirs'
      BY <1>12, <1>14, <2>1, <3>1, <3>2 DEF Where, IsFile
    <3>3. CASE seq[i] \notin dirs'
      <4>1. Where(i)' = Key(seq[i])
        BY <1>8, <1>14, <3>1, <3>3 DEF Where, IsFile
      <4>2. Key(seq[i]) = seq[i]
        BY <1>3, <1>7, <3>1, KeyOfKey
      <4> QED BY <1>14, <3>1, <4>1, <4>2
    <3> QED BY <3>2, <3>3
  <2> QED BY <2>2, <2>3
<1>16. ASSUME NEW i \in DOMAIN tree' \ {Root}
       PROVE  /\ w[i] \in IF tree'[i].tag # NoPath THEN DOMAIN files' ELSE dirs'
              /\ \A m \in DOMAIN tree' \ {Root} : w[m] = w[i] => m = i
              /\ DirOf(w[i]) = w[tree'[i].parent]
              /\ tree'[i].parent = Root \/ tree'[tree'[i].parent].tag = NoPath
  <2>1. i \in 1..n /\ \A m \in DOMAIN tree' \ {Root} : m \in 1..n
    BY <1>6 DEF Root
  <2>2. w[i] \in IF tree'[i].tag # NoPath THEN DOMAIN files' ELSE dirs'
    <3>1. seq[i] \in DOMAIN files' \cup dirs'
      BY <1>2, <1>7, <2>1
    <3> QED BY <1>14, <2>1, <3>1
  <2>3. \A m \in DOMAIN tree' \ {Root} : w[m] = w[i] => m = i
    BY <1>7, <1>14, <2>1
  <2>4. DirOf(seq[i]) \in dirs'
    <3>1. seq[i] \in DOMAIN files' \cup dirs' /\ LastSep(seq[i]) # 0
      BY <1>2, <1>3, <1>7, <2>1
    <3> QED BY <1>1, <3>1, DirAbove
  <2>5. /\ DirOf(w[i]) = w[tree'[i].parent]
        /\ tree'[i].parent = Root \/ tree'[tree'[i].parent].tag = NoPath
    <3>1. w[i] = seq[i] /\ tree'[i].parent = up[i] /\ w[Root] = DataDir
      BY <1>6, <1>8, <1>13, <1>14, <2>1 DEF Root
    <3>2. CASE up[i] = Root /\ DirOf(seq[i]) = DataDir
      BY <3>1, <3>2
    <3>3. CASE up[i] \in 1..n /\ seq[up[i]] = DirOf(seq[i])
      BY <1>14, <2>4, <3>1, <3>3
    <3> QED BY <1>7, <2>1, <3>2, <3>3
  <2> QED BY <2>2, <2>3, <2>5
<1>17. Shows(tree', w, DOMAIN files', dirs')
  BY <1>16 DEF Shows
<1> QED BY <1>1, <1>15, <1>17, MirrorsAfter

-----------------------------------------------------------------------------
(* Renaming a folder *)

\* A piece of a path is its first part and the rest of the piece.
LEMMA PieceStep ==
  ASSUME NEW p \in Path, NEW m \in 1..Len(p), NEW n \in Int, m <= n, n <= Len(p)
  PROVE  SubSeq(p, m, n) = <<p[m]>> \o SubSeq(p, m + 1, n)
<1>1. PICK l, k : l = m + 1 /\ k = n - m + 1
  OBVIOUS
<1>2. Len(p) \in Nat /\ p[m] \in Parts
  BY PathParts
<1>3. /\ m \in 1..Len(p) + 1 /\ l \in 1..Len(p) + 1 /\ m - 1 <= n /\ l - 1 <= n
      /\ k \in Nat /\ n - l + 1 = k - 1 /\ k >= 1
  BY <1>1, <1>2
<1>4. PICK s, t, u : s = SubSeq(p, m, n) /\ t = SubSeq(p, l, n) /\ u = <<p[m]>>
  OBVIOUS
<1>5. s \in Path /\ Len(s) = k /\ \A i \in 1..k : s[i] = p[m + i - 1]
  BY <1>1, <1>3, <1>4, PieceParts
<1>6. t \in Path /\ Len(t) = k - 1 /\ \A i \in 1..k - 1 : t[i] = p[l + i - 1]
  <2>1. t \in Path /\ Len(t) = n - l + 1 /\ \A i \in 1..n - l + 1 : t[i] = p[l + i - 1]
    BY <1>3, <1>4, PieceParts
  <2> QED BY <1>3, <2>1
<1>7. u \in Path /\ Len(u) = 1 /\ u[1] = p[m]
  BY <1>2, <1>4, OnePart
<1>8. PICK j : j = u \o t
  OBVIOUS
<1>9. /\ j \in Path /\ Len(j) = Len(u) + Len(t)
      /\ \A i \in 1..Len(u) : j[i] = u[i]
      /\ \A i \in 1..Len(t) : j[Len(u) + i] = t[i]
  BY <1>6, <1>7, <1>8, JoinParts
<1>10. Len(j) = k /\ j[1] = p[m] /\ \A i \in 1..k - 1 : j[1 + i] = t[i]
  BY <1>3, <1>6, <1>7, <1>9
<1>11. ASSUME NEW i \in 1..k PROVE s[i] = j[i]
  <2>1. CASE i = 1
    BY <1>3, <1>5, <1>10, <2>1
  <2>2. CASE i # 1
    <3>1. PICK h : h = i - 1
      OBVIOUS
    <3>2. h \in 1..k - 1 /\ 1 + h = i /\ l + h - 1 = m + i - 1
      BY <1>1, <1>3, <2>2, <3>1
    <3> QED BY <1>5, <1>6, <1>10, <3>2
  <2> QED BY <2>1, <2>2
<1>12. s = j
  BY <1>5, <1>9, <1>10, <1>11, SamePath
<1> QED BY <1>1, <1>4, <1>8, <1>12

\* A piece that ends before it starts
LEMMA NoPiece ==
  ASSUME NEW p \in Path, NEW m \in 1..Len(p) + 1, NEW n \in Int, n = m - 1
  PROVE  SubSeq(p, m, n) = <<>>
<1>1. PICK s : s = SubSeq(p, m, n)
  OBVIOUS
<1>2. Len(p) \in Nat
  BY PathParts
<1>3. m - 1 <= n /\ n <= Len(p) /\ n - m + 1 = 0
  BY <1>2
<1>4. s \in Path /\ Len(s) = 0
  BY <1>1, <1>3, PieceParts
<1> QED BY <1>1, <1>4, EmptySeq DEF Path

\* The key of a piece is the piece of the key.
LEMMA KeyPiece ==
  ASSUME NEW p \in Path, NEW m \in 1..Len(p) + 1, NEW n \in Int, m - 1 <= n, n <= Len(p)
  PROVE  Key(SubSeq(p, m, n)) = SubSeq(Key(p), m, n)
<1>1. PICK s, k, l : s = SubSeq(p, m, n) /\ k = Key(p) /\ l = n - m + 1
  OBVIOUS
<1>2. s \in Path /\ Len(s) = l /\ \A i \in 1..l : s[i] = p[m + i - 1]
  BY <1>1, PieceParts
<1>3. k \in Path /\ Len(k) = Len(p) /\ Len(p) \in Nat
  BY <1>1, KeyParts, PathParts
<1>4. PICK t : t = SubSeq(k, m, n)
  OBVIOUS
<1>5. m \in 1..Len(k) + 1 /\ n <= Len(k)
  BY <1>3
<1>6. t \in Path /\ Len(t) = l /\ \A i \in 1..l : t[i] = k[m + i - 1]
  BY <1>1, <1>3, <1>4, <1>5, PieceParts
<1>7. PICK c : c = Key(s)
  OBVIOUS
<1>8. c \in Path /\ Len(c) = l
  BY <1>2, <1>7, KeyParts
<1>9. ASSUME NEW i \in 1..l PROVE c[i] = t[i]
  <2>1. PICK j : j = m + i - 1
    OBVIOUS
  <2>2. j \in 1..Len(p) /\ s[i] = p[j] /\ t[i] = k[j]
    BY <1>1, <1>2, <1>3, <1>6, <2>1
  <2>3. i \in DOMAIN s /\ j \in DOMAIN p
    BY <1>2, <2>2, PathParts
  <2>4. c[i] = CASE s[i] = Sep2 -> Sep [] s[i] = "Data" -> "data" [] OTHER -> s[i]
    BY <1>7, <2>3 DEF Key
  <2>5. k[j] = CASE p[j] = Sep2 -> Sep [] p[j] = "Data" -> "data" [] OTHER -> p[j]
    BY <1>1, <2>3 DEF Key
  <2> QED BY <2>2, <2>4, <2>5
<1>10. c = t
  BY <1>6, <1>8, <1>9, SamePath
<1> QED BY <1>1, <1>4, <1>7, <1>10

\* A path occurs once in another, from l on, after the first L parts; e is where
\* the rest begins.
OccursOnce(p, old, L, l, e) ==
    L \in Nat /\ l = L + 1 /\ e = l + Len(old) /\ Occurrences(p, old) = {l}

\* The first L parts of p, then x, then what p has from e on
Spliced(r, p, L, x, e) == r = SubSeq(p, 1, L) \o (x \o SubSeq(p, e, Len(p)))

\* There String.Replace replaces it.
LEMMA ReplacedOnce ==
  ASSUME NEW p \in Path, NEW old \in Path, old # <<>>, NEW new \in Path,
         NEW L, NEW l, NEW e, OccursOnce(p, old, L, l, e)
  PROVE  /\ e \in 1..Len(p) + 1 /\ l \in 1..Len(p)
         /\ Spliced(Replaced(p, old, new), p, L, new, e)
<1>1. /\ Len(p) \in Nat /\ DOMAIN p = 1..Len(p) /\ Len(old) \in Nat
      /\ \A i \in 1..Len(p) : p[i] \in Parts
  BY PathParts
<1>2. PICK from, up : ReplacesBy(p, old, new, from, up)
  BY ReplacedSteps
<1>3. PICK n, D : n = Len(p) /\ D = 1..n + 1
  OBVIOUS
<1>4. /\ L \in Nat /\ l \in Nat /\ l = L + 1 /\ e = l + Len(old)
      /\ Occurrences(p, old) = {l}
  BY DEF OccursOnce
<1>5. n \in Nat /\ l \in 1..n /\ OccursAt(p, l, old) /\ \A i \in 1..n : OccursAt(p, i, old) => i = l
  BY <1>4, <1>1, <1>3 DEF Occurrences
<1>6. /\ up[l] = e /\ e \in D /\ e > l /\ from[l] = new \o from[e]
      /\ \A i \in 1..n : i # l => up[i] = i + 1 /\ i + 1 \in D /\ from[i] = <<p[i]>> \o from[i + 1]
      /\ from[n + 1] = <<>> /\ Replaced(p, old, new) = from[1]
  <2>1. up[l] = e /\ e \in D /\ e > l /\ from[l] = new \o from[e]
    BY <1>4, <1>1, <1>2, <1>3, <1>5 DEF ReplacesBy
  <2>2. ASSUME NEW i \in 1..n, i # l
        PROVE  up[i] = i + 1 /\ i + 1 \in D /\ from[i] = <<p[i]>> \o from[i + 1]
    BY <1>4, <1>2, <1>3, <1>5, <2>2 DEF ReplacesBy
  <2> QED BY <1>2, <1>3, <2>1, <2>2 DEF ReplacesBy
<1>7. ASSUME NEW C \in SUBSET (D \ {n + 1}), \A i \in C : up[i] \in C PROVE C = {}
  BY <1>2, <1>3, <1>7 DEF ReplacesBy, Grows
<1>8. \A i \in D : i > l => from[i] = SubSeq(p, i, n)
  <2>1. PICK C : C = {i \in D : i > l /\ from[i] # SubSeq(p, i, n)}
    OBVIOUS
  <2>2. n + 1 \notin C
    <3>1. PICK m : m = n + 1
      OBVIOUS
    <3>2. m \in 1..Len(p) + 1 /\ n \in Int /\ n = m - 1
      BY <1>4, <1>3, <1>5, <3>1
    <3>3. SubSeq(p, m, n) = <<>>
      BY <3>2, NoPiece
    <3> QED BY <1>6, <2>1, <3>1, <3>3
  <2>3. ASSUME NEW i \in C PROVE up[i] \in C
    <3>0. i \in D /\ i # n + 1 /\ i > l /\ from[i] # SubSeq(p, i, n)
      BY <2>1, <2>2
    <3>1. i \in 1..n /\ i > l /\ from[i] # SubSeq(p, i, n)
      BY <1>4, <1>3, <1>5, <3>0
    <3>2. up[i] = i + 1 /\ i + 1 \in D /\ i + 1 > l /\ from[i] = <<p[i]>> \o from[i + 1]
      <4>1. i # l /\ i + 1 > l
        BY <1>4, <1>5, <3>1
      <4> QED BY <1>6, <3>1, <4>1
    <3>3. SubSeq(p, i, n) = <<p[i]>> \o SubSeq(p, i + 1, n)
      <4>1. i \in 1..Len(p) /\ n \in Int /\ i <= n /\ n <= Len(p)
        BY <1>4, <1>3, <1>5, <3>1
      <4> QED BY <4>1, PieceStep
    <3>4. from[i + 1] # SubSeq(p, i + 1, n)
      BY <3>1, <3>2, <3>3
    <3> QED BY <2>1, <3>2, <3>4
  <2>4. C \in SUBSET (D \ {n + 1})
    BY <2>1, <2>2
  <2>5. C = {}
    BY <1>7, <2>3, <2>4
  <2> QED BY <2>1, <2>5
<1>9. PICK r : r = from[l]
  OBVIOUS
<1>10. r = new \o SubSeq(p, e, n) /\ r \in Path
  <2>1. e \in 1..Len(p) + 1 /\ n \in Int /\ e - 1 <= n /\ n <= Len(p)
    BY <1>4, <1>3, <1>5, <1>6
  <2>2. SubSeq(p, e, n) \in Path
    BY <2>1, PieceParts
  <2>3. r = new \o SubSeq(p, e, n)
    BY <1>6, <1>8, <1>9
  <2> QED BY <2>2, <2>3, JoinParts
<1>11. \A i \in D : i <= l => from[i] = SubSeq(p, i, L) \o r
  <2>1. PICK C : C = {i \in D : i <= l /\ from[i] # SubSeq(p, i, L) \o r}
    OBVIOUS
  <2>2. l \notin C
    <3>1. l \in 1..Len(p) + 1 /\ L \in Int /\ L = l - 1
      BY <1>4, <1>3, <1>5
    <3>2. SubSeq(p, l, L) = <<>>
      BY <3>1, NoPiece
    <3>3. <<>> \o r = r
      BY <1>10 DEF Path
    <3> QED BY <1>9, <2>1, <3>2, <3>3
  <2>3. ASSUME NEW i \in C PROVE up[i] \in C
    <3>1. i \in 1..n /\ i < l /\ i # l /\ from[i] # SubSeq(p, i, L) \o r
      BY <1>4, <1>3, <1>5, <2>1, <2>2
    <3>2. up[i] = i + 1 /\ i + 1 \in D /\ i + 1 <= l /\ from[i] = <<p[i]>> \o from[i + 1]
      BY <1>4, <1>5, <1>6, <3>1
    <3>3. i \in 1..Len(p) /\ L \in Int /\ i <= L /\ L <= Len(p)
      BY <1>4, <1>3, <1>5, <3>1
    <3>4. PICK s, t, u, m : s = SubSeq(p, i, L) /\ t = SubSeq(p, m, L) /\ u = <<p[i]>> /\ m = i + 1
      OBVIOUS
    <3>5. s = u \o t
      BY <3>3, <3>4, PieceStep
    <3>6. u \in Path /\ t \in Path /\ r \in Path
      <4>1. m \in 1..Len(p) + 1 /\ L \in Int /\ m - 1 <= L /\ L <= Len(p)
        BY <1>4, <1>1, <3>3, <3>4
      <4> QED BY <1>1, <1>10, <3>3, <3>4, <4>1, OnePart, PieceParts
    <3>7. (u \o t) \o r = u \o (t \o r)
      BY <3>6, JoinThree
    <3>8. from[i + 1] # t \o r
      BY <3>1, <3>2, <3>4, <3>5, <3>7
    <3> QED BY <2>1, <3>2, <3>4, <3>8
  <2>4. C \in SUBSET (D \ {n + 1})
    BY <1>4, <1>5, <2>1
  <2>5. C = {}
    BY <1>7, <2>3, <2>4
  <2> QED BY <2>1, <2>5
<1>12. 1 \in D /\ 1 <= l
  BY <1>4, <1>3, <1>5
<1>13. Replaced(p, old, new) = SubSeq(p, 1, L) \o r
  BY <1>6, <1>11, <1>12
<1>14. Spliced(Replaced(p, old, new), p, L, new, e)
  BY <1>3, <1>10, <1>13 DEF Spliced
<1> QED BY <1>3, <1>5, <1>6, <1>14

\* The Tag of a file in a folder, when the name of the folder occurs in it
\* where the folder's is and nowhere else
LEMMA TagFollows ==
  ASSUME NEW T \in Path, NEW q \in Path, NEW old \in Path, old # <<>>, NEW x \in Path, x # <<>>,
         Occurrences(T, old) = {Len(q) + 1},
         NEW from, from = Key(q \o old), NEW to, to = Key(q \o x), Within(Key(T), from)
  PROVE  /\ Replaced(T, old, x) # <<>>
         /\ Key(Replaced(T, old, x)) = Relocated(Key(T), from, to)
<1>1. PICK L, l, a, e, n : L = Len(q) /\ l = L + 1 /\ a = Len(old) /\ e = l + a /\ n = Len(T)
  OBVIOUS
<1>2. L \in Nat /\ l \in Nat /\ a \in Nat /\ n \in Nat
  BY <1>1, PathParts
<1>3. PICK R : R = Replaced(T, old, x)
  OBVIOUS
<1>4. e \in 1..n + 1 /\ l \in 1..n /\ Spliced(R, T, L, x, e)
  <2>1. OccursOnce(T, old, L, l, e)
    BY <1>1, <1>2 DEF OccursOnce
  <2>2. e \in 1..Len(T) + 1 /\ l \in 1..Len(T) /\ Spliced(Replaced(T, old, x), T, L, x, e)
    BY <2>1, ReplacedOnce
  <2> QED BY <1>1, <1>3, <2>2
<1>5. PICK A, S : A = SubSeq(T, 1, L) /\ S = SubSeq(T, e, n)
  OBVIOUS
<1>6. R = A \o (x \o S)
  BY <1>1, <1>4, <1>5 DEF Spliced
<1>7. /\ 1 \in 1..Len(T) + 1 /\ L \in Int /\ 1 - 1 <= L /\ L <= Len(T)
      /\ e \in 1..Len(T) + 1 /\ n \in Int /\ e - 1 <= n /\ n <= Len(T)
      /\ L - 1 + 1 = L
  BY <1>1, <1>2, <1>4
<1>8. A \in Path /\ Len(A) = L /\ S \in Path
  BY <1>5, <1>7, PieceParts
<1>9. PICK K : K = Key(T)
  OBVIOUS
<1>10. K \in Path /\ Len(K) = n
  BY <1>1, <1>9, KeyParts
<1>11. Key(A) = SubSeq(K, 1, L) /\ Key(S) = SubSeq(K, e, n)
  BY <1>5, <1>7, <1>9, KeyPiece
<1>12. PICK kq, ko, kx, ks : kq = Key(q) /\ ko = Key(old) /\ kx = Key(x) /\ ks = Key(S)
  OBVIOUS
<1>13. /\ kq \in Path /\ Len(kq) = L /\ ko \in Path /\ Len(ko) = a
       /\ kx \in Path /\ Len(kx) = Len(x) /\ ks \in Path
  BY <1>1, <1>8, <1>12, KeyParts
<1>14. from = kq \o ko /\ to = kq \o kx
  BY <1>12, KeyJoin
<1>15. from \in Path /\ Len(from) = L + a /\ \A i \in 1..L : from[i] = kq[i]
  BY <1>13, <1>14, JoinParts
<1>16. \A i \in 1..L + a : K[i] = from[i]
  BY <1>9, <1>10, <1>15, InsideParts DEF Within
<1>17. Key(A) = kq
  <2>1. PICK b : b = SubSeq(K, 1, L)
    OBVIOUS
  <2>2. 1 \in 1..Len(K) + 1 /\ L <= Len(K)
    BY <1>1, <1>7, <1>10
  <2>3. b \in Path /\ Len(b) = L - 1 + 1 /\ \A i \in 1..L - 1 + 1 : b[i] = K[1 + i - 1]
    BY <1>7, <1>10, <2>1, <2>2, PieceParts
  <2>4. Len(b) = L /\ \A i \in 1..L : b[i] = K[i]
    BY <1>2, <2>3
  <2>5. \A i \in 1..L : i \in 1..L + a
    BY <1>2
  <2>6. \A i \in 1..L : b[i] = kq[i]
    BY <1>15, <1>16, <2>4, <2>5
  <2>7. b = kq
    BY <1>13, <2>3, <2>4, <2>6, SamePath
  <2> QED BY <1>11, <2>1, <2>7
<1>18. Key(R) = kq \o (kx \o ks)
  <2>1. x \o S \in Path
    BY <1>8, JoinParts
  <2>2. Key(R) = Key(A) \o Key(x \o S)
    BY <1>6, <1>8, <2>1, KeyJoin
  <2>3. Key(x \o S) = kx \o ks
    BY <1>8, <1>12, KeyJoin
  <2> QED BY <1>17, <2>2, <2>3
<1>19. Relocated(K, from, to) = to \o SubSeq(K, e, n)
  <2>1. Len(from) + 1 = e
    BY <1>1, <1>2, <1>15
  <2> QED BY <1>9, <1>10, <2>1 DEF Relocated, Within
<1>20. (kq \o kx) \o ks = kq \o (kx \o ks)
  <2>1. kq \in Path /\ kx \in Path /\ ks \in Path
    BY <1>13
  <2> QED BY <2>1 DEF Path
<1>21. R # <<>>
  <2>1. x \o S \in Path /\ Len(x \o S) = Len(x) + Len(S) /\ Len(x) \in Nat /\ Len(S) \in Nat
    BY <1>8, JoinParts, PathParts
  <2>2. Len(x) # 0
    BY EmptySeq DEF Path
  <2>3. PICK y : y = x \o S
    OBVIOUS
  <2>4. Len(A \o y) = Len(A) + Len(y) /\ Len(A) \in Nat
    BY <1>8, <2>1, <2>3, JoinParts, PathParts
  <2>5. Len(R) # 0
    BY <1>6, <2>1, <2>2, <2>3, <2>4
  <2> QED BY <2>5
<1> QED BY <1>3, <1>9, <1>11, <1>12, <1>14, <1>18, <1>19, <1>20, <1>21

\* A folder itself moves to where it is moved.
LEMMA RelocatedSelf ==
  ASSUME NEW from \in Path, NEW to \in Path
  PROVE  Relocated(from, from, to) = to
<1>1. PICK n, m : n = Len(from) /\ m = n + 1
  OBVIOUS
<1>2. m \in 1..Len(from) + 1 /\ n \in Int /\ n = m - 1
  BY <1>1, PathParts
<1>3. SubSeq(from, m, n) = <<>>
  BY <1>2, NoPiece
<1>4. to \o <<>> = to
  BY DEF Path
<1> QED BY <1>1, <1>3, <1>4 DEF Relocated

\* The end of two paths in a row
LEMMA PieceJoin ==
  ASSUME NEW p \in Path, NEW q \in Path, NEW m \in 1..Len(p) + 1
  PROVE  SubSeq(p \o q, m, Len(p \o q)) = SubSeq(p, m, Len(p)) \o q
<1>1. PICK r, n, a, b, k : r = p \o q /\ n = Len(r) /\ a = Len(p) /\ b = Len(q) /\ k = a - m + 1
  OBVIOUS
<1>2. /\ a \in Nat /\ b \in Nat /\ r \in Path /\ n = a + b
      /\ \A i \in 1..a : r[i] = p[i]
      /\ \A i \in 1..b : r[a + i] = q[i]
  BY <1>1, JoinParts, PathParts
<1>3. PICK s, t : s = SubSeq(r, m, n) /\ t = SubSeq(p, m, a)
  OBVIOUS
<1>4. /\ m \in 1..Len(r) + 1 /\ n \in Int /\ m - 1 <= n /\ n <= Len(r) /\ n - m + 1 = k + b
      /\ m \in 1..Len(p) + 1 /\ a \in Int /\ m - 1 <= a /\ a <= Len(p) /\ k \in Nat
  BY <1>1, <1>2
<1>5. s \in Path /\ Len(s) = k + b /\ \A i \in 1..k + b : s[i] = r[m + i - 1]
  <2>1. s \in Path /\ Len(s) = n - m + 1 /\ \A i \in 1..n - m + 1 : s[i] = r[m + i - 1]
    BY <1>2, <1>3, <1>4, PieceParts
  <2> QED BY <1>4, <2>1
<1>6. t \in Path /\ Len(t) = k /\ \A i \in 1..k : t[i] = p[m + i - 1]
  BY <1>1, <1>3, <1>4, PieceParts
<1>7. PICK j : j = t \o q
  OBVIOUS
<1>8. /\ j \in Path /\ Len(j) = Len(t) + Len(q)
      /\ \A i \in 1..Len(t) : j[i] = t[i]
      /\ \A i \in 1..Len(q) : j[Len(t) + i] = q[i]
  BY <1>6, <1>7, JoinParts
<1>9. /\ Len(j) = k + b /\ \A i \in 1..k : j[i] = t[i]
      /\ \A i \in 1..b : j[k + i] = q[i]
  BY <1>1, <1>6, <1>8
<1>10. ASSUME NEW i \in 1..k + b PROVE s[i] = j[i]
  <2>1. CASE i <= k
    <3>1. i \in 1..k /\ m + i - 1 \in 1..a
      BY <1>1, <1>4, <2>1
    <3> QED BY <1>2, <1>5, <1>6, <1>9, <3>1
  <2>2. CASE i > k
    <3>1. PICK h : h = i - k
      OBVIOUS
    <3>2. h \in 1..b /\ k + h = i /\ m + i - 1 = a + h
      BY <1>1, <1>2, <1>4, <2>2, <3>1
    <3> QED BY <1>2, <1>5, <1>9, <3>2
  <2> QED BY <1>2, <1>4, <2>1, <2>2
<1>11. s = j
  BY <1>5, <1>8, <1>9, <1>10, SamePath
<1> QED BY <1>1, <1>3, <1>7, <1>11

Follows(k, d, s) == k = d \o s

\* What is in a folder moves as the folder does.
LEMMA RelocatedBelow ==
  ASSUME NEW d \in Path, NEW s \in Path, NEW from \in Path, NEW to \in Path,
         NEW k, Follows(k, d, s), Within(d, from), Within(k, from)
  PROVE  Follows(Relocated(k, from, to), Relocated(d, from, to), s)
<1>1. PICK m : m = Len(from) + 1 /\ k = d \o s
  BY DEF Follows
<1>2. m \in 1..Len(d) + 1
  <2>1. Len(from) \in Nat /\ Len(d) \in Nat /\ Len(from) <= Len(d)
    BY PathParts, InsideParts DEF Within
  <2> QED BY <1>1, <2>1
<1>3. PICK t : t = SubSeq(d, m, Len(d))
  OBVIOUS
<1>4. SubSeq(k, m, Len(k)) = t \o s
  BY <1>1, <1>2, <1>3, PieceJoin
<1>5. Relocated(k, from, to) = to \o (t \o s) /\ Relocated(d, from, to) = to \o t
  BY <1>1, <1>3, <1>4 DEF Relocated, Within
<1>6. t \in Path
  <2>1. Len(d) \in Nat /\ m - 1 <= Len(d)
    BY <1>2, PathParts
  <2> QED BY <1>2, <1>3, <2>1, PieceParts
<1>7. (to \o t) \o s = to \o (t \o s)
  BY <1>6, JoinThree
<1> QED BY <1>1, <1>5, <1>7 DEF Follows

\* The folder of n has got the name x, and with it the key `to'.
RenamedTo(n, x, from, to) ==
    /\ Plain(x) /\ from = FolderKey(n)
    /\ to = Key(NodePath[tree[n].parent] \o x)
    /\ DirOf(to) = FolderKey(tree[n].parent)
    /\ CanMove(DOMAIN files, dirs, clicks, from, to)
    /\ files' = RelocatedFiles(from, to)
    /\ dirs' = RelocatedDirs(from, to)
    /\ tree' = [ChangedTags(n, x, tree[n].text) EXCEPT ![n].text = x]

\* Renaming a folder to a name does that.
LEMMA RenamedWell ==
  ASSUME TypeInv, Mirrors, Lawful, Numerals, NEW n \in DOMAIN tree,
         NEW label \in Labels, IsName(label), RenameFolder(n, label)
  PROVE  n # Root /\ ~IsFile(n) /\ \E x, from, to : RenamedTo(n, x, from, to)
<1>1. PICK p, from, taken, new :
          /\ p = tree[n].parent /\ from = FolderKey(n)
          /\ taken = {k \in Taken : k # from /\ ~Inside(k, from)}
          /\ new = RightPath(taken, NodePath[p] \o label)
  OBVIOUS
<1>2. PICK ds, K, x : /\ ds = {d \in dirs : d # from /\ ~Inside(d, from)}
                      /\ K = Key(new) /\ x = NameOf(new)
  OBVIOUS
<1>3. /\ IsFolder(n) /\ from \in dirs
      /\ Writable(ds, new) => /\ files' = RelocatedFiles(from, K) /\ dirs' = RelocatedDirs(from, K)
                              /\ tree' = [ChangedTags(n, x, tree[n].text) EXCEPT ![n].text = x]
  BY <1>1, <1>2 DEF RenameFolder
<1>4. n \in DOMAIN tree \ {Root} /\ ~IsFile(n)
  BY <1>3 DEF IsFolder, IsFile
<1>5. p \in DOMAIN tree /\ Folders
  BY <1>1, <1>4, ParentIs, FoldersAre DEF TypeInv
<1>6. Plain(label) /\ Legal(label)
  BY WorkspaceAssumption, NamePlainly DEF Path
<1>7. IsFiniteSet(taken)
  BY <1>1, TakenFinite, FS_Subset
<1>8. PICK q : q = NodePath[p]
  OBVIOUS
<1>9. /\ new \in Path /\ Named(new) /\ K \notin taken
      /\ Key(q \o x) = K /\ Plain(x) /\ DirOf(K) = FolderKey(p)
  <2>1. q \in {NodePath[p], Doubled(NodePath[p])} /\ new = RightPath(taken, q \o label)
    BY <1>1, <1>8
  <2> QED BY <1>2, <1>5, <1>6, <1>7, <2>1, NewPlace
<1>10. Legal(new)
  <2>1. q \in {NodePath[p], Doubled(NodePath[p])} /\ new = RightPath(taken, q \o label)
    BY <1>1, <1>8
  <2>2. Lawful /\ Legal(label) => Legal(new)
    BY <1>5, <1>6, <1>7, <2>1, NewPlace
  <2> QED BY <1>6, <2>2
<1>11. IsKey(K) /\ Named(K) /\ K \in Path /\ LastSep(K) # 0 /\ K[1] = "P"
  <2>1. GoodPath(NodePath[p]) /\ label \in Path /\ Named(label)
    BY <1>5, NodePathGood, WorkspaceAssumption DEF Path
  <2> QED BY <1>1, <1>2, <1>7, <2>1, NewPath
<1>12. from \in Path /\ Len(from) > 1 /\ DirOf(from) = FolderKey(p) /\ Len(from) > Len(FolderKey(p))
  BY <1>1, <1>4, <1>5, FolderKeyIs DEF Folders, TypeInv
<1>13. FolderKey(p) \in Path /\ Len(FolderKey(p)) > 1
  BY <1>5, FolderKeyIs DEF TypeInv
<1>14. FolderKey(p) \in dirs
  <2>1. LastSep(from) # 0
    <3>1. LastSep(from) = 0 => DirOf(from) = <<>>
      BY <1>12, DirParts
    <3>2. FolderKey(p) # <<>>
      BY <1>13
    <3> QED BY <1>12, <3>1, <3>2
  <2>2. DiskInv(DOMAIN files, dirs, clicks)
    BY DEF TypeInv, FilesInv
  <2> QED BY <1>3, <1>12, <2>1, <2>2, DirAbove
<1>15. ~Within(FolderKey(p), from)
  <2>1. Len(from) \in Nat /\ Len(FolderKey(p)) \in Nat
    BY <1>12, <1>13, PathParts
  <2>2. Within(FolderKey(p), from) => Len(from) <= Len(FolderKey(p))
    BY <1>12, <1>13, <2>1, InsideParts DEF Within
  <2> QED BY <1>12, <2>1, <2>2
<1>16. Writable(ds, new)
  <2>1. DirOf(K) \in ds
    BY <1>2, <1>9, <1>14, <1>15 DEF Within
  <2>2. ds \subseteq taken
    BY <1>1, <1>2 DEF Taken
  <2> QED BY <1>2, <1>9, <1>10, <2>1, <2>2 DEF Writable
<1>17. CanMove(DOMAIN files, dirs, clicks, from, K)
  <2>1. K \in Taken => Within(K, from)
    BY <1>1, <1>9 DEF Within
  <2>2. DirOf(K) \in dirs /\ ~Within(DirOf(K), from)
    BY <1>9, <1>14, <1>15
  <2> QED BY <1>3, <1>11, <1>12, <2>1, <2>2, CanMoveTo
<1>18. RenamedTo(n, x, from, K)
  <2>1. /\ files' = RelocatedFiles(from, K) /\ dirs' = RelocatedDirs(from, K)
        /\ tree' = [ChangedTags(n, x, tree[n].text) EXCEPT ![n].text = x]
    BY <1>3, <1>16
  <2>2. K = Key(NodePath[tree[n].parent] \o x) /\ DirOf(K) = FolderKey(tree[n].parent)
    BY <1>1, <1>8, <1>9
  <2> QED BY <1>1, <1>9, <1>17, <2>1, <2>2 DEF RenamedTo
<1> QED BY <1>4, <1>18

\* What becomes of the nodes
LEMMA RenamedNodes ==
  ASSUME TypeInv, Mirrors, NEW n \in DOMAIN tree \ {Root}, ~IsFile(n),
         NEW x, NEW from, NEW to, RenamedTo(n, x, from, to)
  PROVE  /\ DOMAIN tree' = DOMAIN tree
         /\ \A m \in DOMAIN tree :
              /\ tree'[m].parent = tree[m].parent
              /\ tree'[m].text = IF m = n THEN x ELSE tree[m].text
              /\ tree'[m].tag = IF m \in Below(n) /\ IsFile(m)
                                THEN Replaced(tree[m].tag, tree[n].text, x) ELSE tree[m].tag
         /\ Visited(n) = {m \in Below(n) : IsFile(m)}
<1>1. PICK u, old : u = ChangedTags(n, x, old) /\ old = tree[n].text
  OBVIOUS
<1>2. tree \in [DOMAIN tree -> Node] /\ Plain(old) /\ Plain(x)
  BY <1>1 DEF TypeInv, TreeInv, NodesOK, RenamedTo
<1>3. x \in Path /\ old \in Path /\ old # <<>>
  BY <1>2 DEF Plain
<1>4. /\ DOMAIN u = DOMAIN tree /\ u \in [DOMAIN tree -> Node]
      /\ \A m \in DOMAIN tree : u[m].parent = tree[m].parent /\ u[m].text = tree[m].text
  BY <1>1, <1>3, ChangedIs
<1>5. Visited(n) = {m \in Below(n) : IsFile(m)}
  <2>1. \A m \in Below(n) : \A a \in Above[m] \ {m} : ~IsFile(a)
    BY NoFileAbove DEF Below
  <2> QED BY <2>1 DEF Visited
<1>6. u = [m \in DOMAIN tree |-> IF m \in Visited(n)
                                THEN [tree[m] EXCEPT !.tag = Replaced(tree[m].tag, old, x)]
                                ELSE tree[m]]
  BY <1>1 DEF ChangedTags
<1>7. ASSUME NEW m \in DOMAIN tree
      PROVE  u[m].tag = IF m \in Visited(n) THEN Replaced(tree[m].tag, old, x) ELSE tree[m].tag
  <2>1. tree[m] \in Node
    BY <1>2
  <2>2. PICK r : r = Replaced(tree[m].tag, old, x)
    OBVIOUS
  <2>3. u[m] = IF m \in Visited(n) THEN [tree[m] EXCEPT !.tag = r] ELSE tree[m]
    BY <1>6, <2>2
  <2> QED BY <2>1, <2>2, <2>3 DEF Node
<1>8. tree' = [u EXCEPT ![n].text = x]
  BY <1>1 DEF RenamedTo
<1>9. DOMAIN tree' = DOMAIN tree /\ \A m \in DOMAIN tree :
         /\ tree'[m].parent = u[m].parent /\ tree'[m].tag = u[m].tag
         /\ tree'[m].text = IF m = n THEN x ELSE u[m].text
  BY <1>4, <1>8 DEF Node
<1>10. \A m \in DOMAIN tree :
          tree'[m].tag = IF m \in Below(n) /\ IsFile(m) THEN Replaced(tree[m].tag, old, x) ELSE tree[m].tag
  BY <1>5, <1>7, <1>9
<1> QED BY <1>1, <1>4, <1>5, <1>9, <1>10

\* The keys of the folder, before and after
LEMMA RenamedKeys ==
  ASSUME TypeInv, NEW n \in DOMAIN tree \ {Root},
         NEW x, NEW from, NEW to, RenamedTo(n, x, from, to)
  PROVE  /\ from = FolderKey(n) /\ from \in Path /\ to \in Path
         /\ IsKey(from) /\ IsKey(to) /\ Named(to)
         /\ to = FolderKey(tree[n].parent) \o (<<Sep>> \o Key(x))
         /\ DirOf(to) = FolderKey(tree[n].parent)
         /\ ~Within(FolderKey(tree[n].parent), from)
<1>1. Folders
  BY FoldersAre DEF TypeInv
<1>2. from = FolderKey(n) /\ IsKey(to) /\ Named(to) /\ DirOf(to) = FolderKey(tree[n].parent)
  BY DEF RenamedTo, CanMove
<1>3. from \in Path /\ to \in Path /\ IsKey(from)
  BY <1>1, <1>2 DEF Folders, IsKey, Path
<1>4. PICK p, q : p = tree[n].parent /\ q = NodePath[p]
  OBVIOUS
<1>5. p \in DOMAIN tree /\ q \in Path /\ q # <<>> /\ q[Len(q)] \in Seps
  BY <1>1, <1>4 DEF Folders, GoodPath
<1>6. Plain(x) /\ to = Key(q \o x)
  BY <1>4 DEF RenamedTo
<1>7. Key(q) = Key(Front(q)) \o <<Sep>> /\ Front(q) \in Path /\ Key(q \o x) = Key(q) \o Key(x)
  BY <1>5, <1>6, KeyAfter
<1>8. PICK f, y : f = FolderKey(p) /\ y = Key(x)
  OBVIOUS
<1>9. f = Key(Front(q))
  BY <1>4, <1>8 DEF FolderKey
<1>10. to = (f \o <<Sep>>) \o y
  BY <1>6, <1>7, <1>8, <1>9
<1>11. f \in Path /\ <<Sep>> \in Path /\ y \in Path
  BY <1>6, <1>7, <1>8, <1>9, KeyParts, SepFacts, OnePart DEF Plain
<1>12. to = f \o (<<Sep>> \o y)
  BY <1>10, <1>11, JoinThree
<1>13. ~Within(f, from)
  <2>1. Len(from) > Len(f)
    BY <1>1, <1>2, <1>4, <1>8 DEF Folders
  <2>2. Len(from) \in Nat /\ Len(f) \in Nat
    BY <1>3, <1>11, PathParts
  <2>3. Within(f, from) => Len(from) <= Len(f)
    BY <1>3, <1>11, <2>2, InsideParts DEF Within
  <2> QED BY <2>1, <2>2, <2>3
<1> QED BY <1>2, <1>3, <1>4, <1>8, <1>12, <1>13

\* The folders after a folder got another name
LEMMA RenamedFolders ==
  ASSUME TypeInv, Mirrors, TypeInv', NEW n \in DOMAIN tree \ {Root}, ~IsFile(n),
         NEW x, NEW from, NEW to, RenamedTo(n, x, from, to)
  PROVE  \A m \in DOMAIN tree : ~IsFile(m) => FolderKey(m)' = Relocated(FolderKey(m), from, to)
<1>1. /\ DOMAIN tree' = DOMAIN tree
      /\ \A m \in DOMAIN tree :
           /\ tree'[m].parent = tree[m].parent
           /\ tree'[m].text = IF m = n THEN x ELSE tree[m].text
  BY RenamedNodes
<1>2. /\ from = FolderKey(n) /\ from \in Path /\ to \in Path /\ IsKey(from)
      /\ to = FolderKey(tree[n].parent) \o (<<Sep>> \o Key(x))
      /\ ~Within(FolderKey(tree[n].parent), from)
  BY RenamedKeys
<1>3. Folders /\ Folders' /\ TreeInv(tree)
  <2>1. (TreeInv(tree) => Folders)'
    BY FoldersAre, PTL
  <2> QED BY <2>1, FoldersAre DEF TypeInv
<1>4. PICK f, g, w : /\ f = [m \in DOMAIN tree |-> FolderKey(m)]
                     /\ g = [m \in DOMAIN tree |-> FolderKey(m)']
                     /\ w = [m \in DOMAIN tree |-> Where(m)]
  OBVIOUS
<1>5. Root \in DOMAIN tree /\ f[Root] = DataDir /\ g[Root] = DataDir
  <2>1. Root \in DOMAIN tree
    BY <1>3 DEF TreeInv, Rooted
  <2>2. FolderKey(Root) = DataDir /\ FolderKey(Root)' = DataDir
    BY <1>1, <1>3, <2>1 DEF Folders
  <2> QED BY <1>4, <2>1, <2>2
<1>6. ASSUME NEW m \in DOMAIN tree \ {Root}
      PROVE  /\ tree[m].parent \in DOMAIN tree
             /\ f[m] = f[tree[m].parent] \o (<<Sep>> \o Key(tree[m].text))
             /\ g[m] = g[tree[m].parent] \o (<<Sep>> \o Key(tree'[m].text))
             /\ DirOf(f[m]) = f[tree[m].parent]
             /\ IsKey(f[m]) /\ f[m] \in Path /\ f[tree[m].parent] \in Path
             /\ LastSep(f[m]) # 0
  <2>1. /\ tree[m].parent \in DOMAIN tree
        /\ FolderKey(m) = FolderKey(tree[m].parent) \o (<<Sep>> \o Key(tree[m].text))
        /\ DirOf(FolderKey(m)) = FolderKey(tree[m].parent)
        /\ IsKey(FolderKey(m)) /\ FolderKey(m) \in Path /\ FolderKey(tree[m].parent) \in Path
    BY <1>3 DEF Folders
  <2>2. FolderKey(m)' = FolderKey(tree[m].parent)' \o (<<Sep>> \o Key(tree'[m].text))
    <3>1. m \in (DOMAIN tree') \ {Root}
      BY <1>1
    <3>2. FolderKey(m)' = FolderKey(tree[m].parent)' \o (<<Sep>> \o Key(tree'[m].text))
      BY <1>3, <3>1 DEF Folders
    <3> QED BY <3>2
  <2>3. g[tree[m].parent] = FolderKey(tree[m].parent)'
    <3>1. PICK p : p = tree[m].parent
      OBVIOUS
    <3>2. g[p] = FolderKey(p)'
      BY <1>4, <2>1, <3>1
    <3>3. tree'[m].parent = p
      BY <1>1, <3>1
    <3> QED BY <3>1, <3>2, <3>3
  <2>4. LastSep(FolderKey(m)) # 0
    <3>1. Len(FolderKey(tree[m].parent)) > 1
      BY <1>3, <2>1, FolderKeyIs
    <3>2. LastSep(FolderKey(m)) = 0 => DirOf(FolderKey(m)) = <<>>
      BY <2>1, DirParts
    <3> QED BY <2>1, <3>1, <3>2
  <2> QED BY <1>4, <2>1, <2>2, <2>3, <2>4
<1>7. f[n] = from
  BY <1>2, <1>4
<1>8. \A m \in DOMAIN tree \ {Root} : ~IsFile(m) /\ f[m] = from => m = n
  <2>1. Shows(tree, w, DOMAIN files, dirs) /\ \A m \in DOMAIN tree : ~IsFile(m) => w[m] = f[m]
    BY <1>4, Standing
  <2> QED BY <1>7, <2>1 DEF Shows
<1>9. PICK C : C = {m \in DOMAIN tree \ {Root} : ~IsFile(m) /\ g[m] # Relocated(f[m], from, to)}
  OBVIOUS
<1>10. ASSUME NEW m \in C PROVE tree[m].parent \in C
  <2>1. m \in DOMAIN tree \ {Root} /\ ~IsFile(m) /\ g[m] # Relocated(f[m], from, to)
    BY <1>9
  <2>2. PICK p : p = tree[m].parent
    OBVIOUS
  <2>3. p \in DOMAIN tree /\ ~IsFile(p)
    BY <1>6, <2>1, <2>2 DEF Mirrors
  <2>4. SUFFICES ASSUME p \notin C PROVE FALSE
    BY <2>2
  <2>5. g[p] = Relocated(f[p], from, to)
    <3>1. CASE p = Root
      <4>1. ~Within(DataDir, from)
        BY <1>2, FoldersDeep
      <4> QED BY <1>5, <3>1, <4>1 DEF Relocated, Within
    <3>2. CASE p # Root
      BY <1>9, <2>3, <2>4, <3>2
    <3> QED BY <3>1, <3>2
  <2>6. /\ g[m] = g[p] \o (<<Sep>> \o Key(tree'[m].text)) /\ f[m] = f[p] \o (<<Sep>> \o Key(tree[m].text))
        /\ DirOf(f[m]) = f[p] /\ IsKey(f[m]) /\ f[m] \in Path /\ f[p] \in Path /\ LastSep(f[m]) # 0
    BY <1>6, <2>1, <2>2
  <2>7. CASE m = n
    <3>1. tree'[m].text = x /\ f[p] = FolderKey(p)
      BY <1>1, <1>4, <2>3, <2>7
    <3>2. ~Within(f[p], from)
      BY <1>2, <2>2, <2>7, <3>1
    <3>3. g[p] = f[p]
      BY <2>5, <3>2 DEF Relocated, Within
    <3>4. g[m] = to
      BY <1>2, <2>2, <2>6, <2>7, <3>1, <3>3
    <3>5. Relocated(f[m], from, to) = to
      BY <1>2, <1>7, <2>7, RelocatedSelf
    <3> QED BY <2>1, <3>4, <3>5
  <2>8. CASE m # n
    <3>1. PICK s : s = <<Sep>> \o Key(tree[m].text)
      OBVIOUS
    <3>2. s \in Path
      <4>1. tree[m].text \in Path
        BY <2>1, TagIs
      <4>2. <<Sep>> \in Path /\ Key(tree[m].text) \in Path
        BY <4>1, KeyParts, SepFacts, OnePart
      <4> QED BY <3>1, <4>2, JoinParts
    <3>3. g[m] = g[p] \o s /\ f[m] = f[p] \o s
      BY <1>1, <2>1, <2>6, <2>8, <3>1
    <3>4. CASE Within(f[p], from)
      <4>1. Within(f[m], from)
        <5>1. LastSep(f[m]) # 0 /\ (DirOf(f[m]) = from \/ Inside(DirOf(f[m]), from)) => Inside(f[m], from)
          BY <1>2, <2>6, DirInside
        <5> QED BY <2>6, <3>4, <5>1 DEF Within
      <4>2. Follows(f[m], f[p], s)
        BY <3>3 DEF Follows
      <4>3. Follows(Relocated(f[m], from, to), Relocated(f[p], from, to), s)
        BY <1>2, <2>6, <3>2, <3>4, <4>1, <4>2, RelocatedBelow
      <4> QED BY <2>1, <2>5, <3>3, <4>3 DEF Follows
    <3>5. CASE ~Within(f[p], from)
      <4>1. ~Inside(f[m], from)
        <5>1. Inside(f[m], from) => DirOf(f[m]) = from \/ Inside(DirOf(f[m]), from)
          BY <1>2, <2>6, DirInside
        <5> QED BY <2>6, <3>5, <5>1 DEF Within
      <4>2. f[m] # from
        BY <1>8, <2>1, <2>8
      <4>3. Relocated(f[m], from, to) = f[m] /\ Relocated(f[p], from, to) = f[p]
        BY <3>5, <4>1, <4>2 DEF Relocated, Within
      <4> QED BY <2>1, <2>5, <3>3, <4>3
    <3> QED BY <3>4, <3>5
  <2> QED BY <2>7, <2>8
<1>11. C = {}
  <2>1. C \in SUBSET (DOMAIN tree \ {Root})
    BY <1>9
  <2> QED BY <1>3, <1>10, <2>1 DEF TreeInv, Rooted
<1>12. Relocated(DataDir, from, to) = DataDir
  <2>1. ~Within(DataDir, from)
    BY <1>2, FoldersDeep
  <2> QED BY <2>1 DEF Relocated, Within
<1>13. \A m \in DOMAIN tree : ~IsFile(m) => g[m] = Relocated(f[m], from, to)
  BY <1>5, <1>9, <1>11, <1>12
<1> QED BY <1>4, <1>13

\* Every node stands for what it stood for, wherever that is now.
LEMMA RenamedWhere ==
  ASSUME TypeInv, Mirrors, TypeInv', NEW n \in DOMAIN tree \ {Root}, ~IsFile(n),
         NEW x, NEW from, NEW to, RenamedTo(n, x, from, to),
         \A m \in Visited(n) :
            Occurrences(tree[m].tag, tree[n].text) = {Len(NodePath[tree[n].parent]) + 1}
  PROVE  \A m \in DOMAIN tree : /\ Where(m)' = Relocated(Where(m), from, to)
                                /\ tree'[m].tag # NoPath <=> tree[m].tag # NoPath
<1>1. /\ DOMAIN tree' = DOMAIN tree
      /\ \A m \in DOMAIN tree :
           tree'[m].tag = IF m \in Below(n) /\ IsFile(m)
                          THEN Replaced(tree[m].tag, tree[n].text, x) ELSE tree[m].tag
      /\ Visited(n) = {m \in Below(n) : IsFile(m)}
  BY RenamedNodes
<1>2. /\ from = FolderKey(n) /\ from \in Path /\ to \in Path
  BY RenamedKeys
<1>3. \A m \in DOMAIN tree : ~IsFile(m) => FolderKey(m)' = Relocated(FolderKey(m), from, to)
  BY RenamedFolders
<1>4. PICK w : w = [m \in DOMAIN tree |-> Where(m)]
  OBVIOUS
<1>5. \A m \in DOMAIN tree : m \in Below(n) <=> Within(w[m], from)
  BY <1>2, <1>4, BelowIs
<1>6. ASSUME NEW m \in DOMAIN tree, ~IsFile(m)
      PROVE  /\ Where(m)' = Relocated(Where(m), from, to)
             /\ tree'[m].tag # NoPath <=> tree[m].tag # NoPath
  <2>1. tree'[m].tag = tree[m].tag
    BY <1>1, <1>6
  <2>2. Where(m)' = FolderKey(m)' /\ Where(m) = FolderKey(m)
    BY <1>6, <2>1 DEF Where, IsFile
  <2> QED BY <1>3, <1>6, <2>1, <2>2
<1>7. ASSUME NEW m \in DOMAIN tree, IsFile(m)
      PROVE  /\ Where(m)' = Relocated(Where(m), from, to)
             /\ tree'[m].tag # NoPath <=> tree[m].tag # NoPath
  <2>1. PICK T, y : T = tree[m].tag /\ y = tree'[m].tag
    OBVIOUS
  <2>2. T \in Path /\ T # NoPath /\ m # Root /\ w[m] = Key(T) /\ Where(m) = Key(T)
    BY <1>4, <1>7, <2>1, TagIs DEF IsFile, Where
  <2>3. y # NoPath => Where(m)' = Key(y)
    BY <1>1, <2>1, <2>2 DEF Where, IsFile
  <2>4. CASE m \in Below(n)
    <3>1. PICK q, old : q = NodePath[tree[n].parent] /\ old = tree[n].text
      OBVIOUS
    <3>2. Folders
      BY FoldersAre DEF TypeInv
    <3>3. q \in Path /\ from = Key(q \o old)
      BY <1>2, <3>1, <3>2 DEF Folders, GoodPath
    <3>4. old \in Path /\ old # <<>>
      BY <3>1 DEF TypeInv, TreeInv, NodesOK, Plain
    <3>5. x \in Path /\ x # <<>> /\ to = Key(q \o x)
      BY <3>1 DEF RenamedTo, Plain
    <3>6. Occurrences(T, old) = {Len(q) + 1}
      BY <1>1, <1>7, <2>1, <2>4, <3>1
    <3>7. Within(Key(T), from)
      BY <1>5, <2>2, <2>4
    <3>8. y = Replaced(T, old, x)
      BY <1>1, <1>7, <2>1, <2>4, <3>1
    <3>9. y # <<>> /\ Key(y) = Relocated(Key(T), from, to)
      BY <2>2, <3>3, <3>4, <3>5, <3>6, <3>7, <3>8, TagFollows
    <3> QED BY <2>1, <2>2, <2>3, <3>9 DEF NoPath
  <2>5. CASE m \notin Below(n)
    <3>1. y = T
      BY <1>1, <2>1, <2>5
    <3>2. ~Within(Key(T), from)
      BY <1>5, <2>2, <2>5
    <3>3. Relocated(Key(T), from, to) = Key(T)
      BY <3>2 DEF Relocated, Within
    <3> QED BY <2>1, <2>2, <2>3, <3>1, <3>3
  <2> QED BY <2>4, <2>5
<1> QED BY <1>6, <1>7

\* A folder gets a name, and its name occurs in the Tags below it where it is
\* and nowhere else.
LEMMA RenameFolderShows ==
  ASSUME TypeInv, Mirrors, TypeInv', Lawful, Numerals, NEW n \in DOMAIN tree,
         NEW label \in Labels, IsName(label), RenameFolder(n, label),
         \A m \in Visited(n) :
            Occurrences(tree[m].tag, tree[n].text) = {Len(NodePath[tree[n].parent]) + 1}
  PROVE  Mirrors'
<1>1. n \in DOMAIN tree \ {Root} /\ ~IsFile(n) /\ \E x, from, to : RenamedTo(n, x, from, to)
  BY RenamedWell
<1>2. PICK x, from, to : RenamedTo(n, x, from, to)
  BY <1>1
<1>3. /\ DOMAIN tree' = DOMAIN tree
      /\ \A m \in DOMAIN tree : tree'[m].parent = tree[m].parent
  BY <1>1, <1>2, RenamedNodes
<1>4. /\ from = FolderKey(n) /\ from \in Path /\ to \in Path
      /\ IsKey(from) /\ IsKey(to) /\ Named(to)
      /\ DirOf(to) = FolderKey(tree[n].parent)
      /\ ~Within(FolderKey(tree[n].parent), from)
  BY <1>1, <1>2, RenamedKeys
<1>5. \A m \in DOMAIN tree : /\ Where(m)' = Relocated(Where(m), from, to)
                             /\ tree'[m].tag # NoPath <=> tree[m].tag # NoPath
  BY <1>1, <1>2, RenamedWhere
<1>6. PICK w, r : /\ w = [m \in DOMAIN tree |-> Where(m)]
                  /\ r = [m \in DOMAIN tree |-> Relocated(w[m], from, to)]
  OBVIOUS
<1>7. \A m \in DOMAIN tree : r[m] = Relocated(w[m], from, to) /\ Where(m)' = r[m]
  BY <1>5, <1>6
<1>8. /\ Shows(tree, w, DOMAIN files, dirs)
      /\ \A m \in DOMAIN tree : ~IsFile(m) => w[m] = FolderKey(m)
      /\ \A m \in DOMAIN tree \ {Root} :
           w[m] \in Taken /\ IsKey(w[m]) /\ Named(w[m]) /\ w[m] \in Path
  BY <1>6, Standing
<1>9. TreeInv(tree) /\ TreeInv(tree') /\ DiskInv(DOMAIN files, dirs, clicks)
  BY DEF TypeInv, FilesInv
<1>10. /\ CanMove(DOMAIN files, dirs, clicks, from, to)
       /\ DOMAIN files' = {Relocated(k, from, to) : k \in DOMAIN files}
       /\ dirs' = {Relocated(k, from, to) : k \in dirs}
  BY <1>2 DEF RenamedTo, RelocatedFiles, RelocatedDirs
<1>11. \A m \in DOMAIN tree \ {Root} : Relocated(r[m], to, from) = w[m]
  <2>1. ASSUME NEW m \in DOMAIN tree \ {Root} PROVE Relocated(r[m], to, from) = w[m]
    <3>1. PICK k : k = w[m]
      OBVIOUS
    <3>2. k \in DOMAIN files \cup dirs
      BY <1>8, <3>1 DEF Taken
    <3>3. Relocated(Relocated(k, from, to), to, from) = k
      BY <1>9, <1>10, <3>2, MovedBack
    <3> QED BY <1>7, <3>1, <3>3
  <2> QED BY <2>1
<1>12. ASSUME NEW m \in DOMAIN tree \ {Root} PROVE DirOf(r[m]) = r[tree[m].parent]
  <2>1. PICK p, k : p = tree[m].parent /\ k = w[m]
    OBVIOUS
  <2>2. /\ p \in DOMAIN tree /\ w[p] = FolderKey(p) /\ DirOf(k) = w[p]
    <3>1. p \in DOMAIN tree
      BY <1>9, <2>1 DEF TreeInv, Rooted
    <3>2. ~IsFile(p)
      BY <2>1 DEF Mirrors
    <3> QED BY <1>8, <2>1, <3>1, <3>2 DEF Shows
  <2>3. r[m] = Relocated(k, from, to) /\ r[p] = Relocated(w[p], from, to)
    BY <1>7, <2>1, <2>2
  <2>4. IsKey(k) /\ Named(k) /\ k \in Path
    BY <1>8, <2>1
  <2>5. CASE m = n
    <3>1. k = from
      BY <1>1, <1>4, <1>8, <2>1, <2>5
    <3>2. r[m] = to
      BY <1>4, <2>3, <3>1, RelocatedSelf
    <3>3. ~Within(w[p], from)
      BY <1>4, <2>1, <2>2, <2>5
    <3>4. r[p] = w[p]
      BY <2>3, <3>3 DEF Relocated, Within
    <3> QED BY <1>4, <2>1, <2>2, <2>5, <3>2, <3>4
  <2>6. CASE m # n /\ Within(k, from)
    <3>1. k # from
      <4>1. w[n] = from /\ n \in DOMAIN tree \ {Root}
        BY <1>1, <1>4, <1>8
      <4> QED BY <1>8, <2>1, <2>6, <4>1 DEF Shows
    <3>2. PICK v : v = Relocated(k, from, to)
      OBVIOUS
    <3>3. DirOf(v) = Relocated(DirOf(k), from, to)
      BY <1>4, <2>4, <2>6, <3>1, <3>2, RelocatedIs
    <3> QED BY <2>1, <2>2, <2>3, <3>2, <3>3
  <2>7. CASE ~Within(k, from)
    <3>1. r[m] = k
      BY <2>3, <2>7 DEF Relocated, Within
    <3>2. LastSep(k) # 0
      <4>1. Len(FolderKey(p)) > 1
        BY <1>9, <2>2, FolderKeyIs
      <4>2. LastSep(k) = 0 => DirOf(k) = <<>>
        BY <2>4, DirParts
      <4> QED BY <2>2, <4>1, <4>2
    <3>3. ~Within(w[p], from)
      <4>1. LastSep(k) # 0 /\ (DirOf(k) = from \/ Inside(DirOf(k), from)) => Inside(k, from)
        BY <1>4, <2>4, DirInside
      <4> QED BY <2>2, <2>7, <3>2, <4>1 DEF Within
    <3>4. r[p] = w[p]
      BY <2>3, <3>3 DEF Relocated, Within
    <3> QED BY <2>1, <2>2, <3>1, <3>4
  <2> QED BY <2>5, <2>6, <2>7
<1>13. ASSUME NEW m \in (DOMAIN tree') \ {Root}
       PROVE  /\ r[m] \in IF tree'[m].tag # NoPath THEN DOMAIN files' ELSE dirs'
              /\ \A l \in (DOMAIN tree') \ {Root} : r[l] = r[m] => l = m
              /\ DirOf(r[m]) = r[tree'[m].parent]
              /\ tree'[m].parent = Root \/ tree'[tree'[m].parent].tag = NoPath
  <2>1. m \in DOMAIN tree \ {Root}
    BY <1>3
  <2>2. tree'[m].parent = tree[m].parent /\ tree[m].parent \in DOMAIN tree
    BY <1>3, <1>9, <2>1 DEF TreeInv, Rooted
  <2>3. r[m] \in IF tree'[m].tag # NoPath THEN DOMAIN files' ELSE dirs'
    <3>1. w[m] \in IF tree[m].tag # NoPath THEN DOMAIN files ELSE dirs
      BY <1>8, <2>1 DEF Shows
    <3> QED BY <1>5, <1>7, <1>10, <2>1, <3>1
  <2>4. \A l \in (DOMAIN tree') \ {Root} : r[l] = r[m] => l = m
    <3>1. ASSUME NEW l \in DOMAIN tree \ {Root}, r[l] = r[m] PROVE l = m
      <4>1. w[l] = w[m]
        BY <1>11, <2>1, <3>1
      <4> QED BY <1>8, <2>1, <4>1 DEF Shows
    <3> QED BY <1>3, <3>1
  <2>5. DirOf(r[m]) = r[tree'[m].parent]
    BY <1>12, <2>1, <2>2
  <2>6. tree'[m].parent = Root \/ tree'[tree'[m].parent].tag = NoPath
    <3>1. tree[m].parent = Root \/ tree[tree[m].parent].tag = NoPath
      BY <1>8, <2>1 DEF Shows
    <3> QED BY <1>5, <2>2, <3>1
  <2> QED BY <2>3, <2>4, <2>5, <2>6
<1>14. Shows(tree', r, DOMAIN files', dirs')
  BY <1>13 DEF Shows
<1>15. \A m \in DOMAIN tree' : Where(m)' = r[m]
  BY <1>3, <1>7
<1> QED BY <1>9, <1>14, <1>15, MirrorsAfter

\* A tree that is loaded anew shows the disk.
LEMMA ProjectShows ==
  ASSUME TypeInv, NewProject \/ OpenProject
  PROVE  Mirrors'
<1>1. TypeInv'
  BY ProjectTyped
<1>2. tree' = LoadedTree(files', dirs')
  BY DEF NewProject, OpenProject
<1> QED BY <1>1, <1>2, LoadedShows

\* What becomes of the disk and the tree by a step on a node that does not stray
LEMMA OnNodeShows ==
  ASSUME TypeInv, Mirrors, TypeInv', Lawful, Numerals, NEW n \in DOMAIN tree, OnNode(n), ~Strays(n)
  PROVE  Mirrors'
<1>1. CASE AddItem(n)
  BY <1>1, AddItemShows
<1>2. CASE AddFolder(n)
  BY <1>2, AddFolderShows
<1>3. CASE \E text \in Texts : DropFile(n, text)
  BY <1>3, DropShows DEF Strays
<1>4. CASE \E label \in Labels : RenameFile(n, label)
  BY <1>4, RenameFileShows DEF Strays
<1>5. ASSUME NEW label \in Labels, RenameFolder(n, label) PROVE Mirrors'
  <2>1. /\ IsName(label)
        /\ \A m \in Visited(n) :
              Occurrences(tree[m].tag, tree[n].text) = {Len(NodePath[tree[n].parent]) + 1}
    BY <1>5 DEF Strays
  <2> QED BY <1>5, <2>1, RenameFolderShows
<1>6. CASE \E pos \in DOMAIN tree : MoveFile(pos, n)
  BY <1>6, MoveFileShows
<1>7. CASE DeleteFile(n) \/ RemoveNode(n)
  BY <1>7, DeleteShows, RemoveShows
<1>8. CASE SaveAs(n) \/ OpenNode(n)
  BY <1>8, SameShows DEF SaveAs, OpenNode
<1> QED BY <1>1, <1>2, <1>3, <1>4, <1>5, <1>6, <1>7, <1>8 DEF OnNode, Strays

\* The tree and the disk part only by Load, by a file dropped on a file, by
\* moving a folder, by renaming to what is no name, and by renaming a folder whose
\* name does not occur once and in its place in the Tags below it.
THEOREM OnlyTheseStrayCorrect == ASSUME Numerals PROVE Spec => OnlyTheseStray
<1>1. Init => TypeInv /\ Lawful
  BY InitTypeInv, InitLawful
<1>2. TypeInv /\ Lawful /\ [Next]_vars => TypeInv' /\ Lawful'
  BY NextTypeInv, NextLawful
<1>3. ASSUME TypeInv, Lawful, TypeInv', [Next]_vars
      PROVE  [Mirrors /\ ~Mirrors' => \E n \in DOMAIN tree : Strays(n)]_vars
  <2>1. SUFFICES ASSUME Next, Mirrors, \A n \in DOMAIN tree : ~Strays(n)
                 PROVE  Mirrors'
    BY <1>3
  <2>2. CASE NewProject \/ OpenProject
    BY <1>3, <2>2, ProjectShows
  <2>3. CASE \E n \in DOMAIN tree : OnNode(n)
    BY <1>3, <2>1, <2>3, OnNodeShows
  <2>4. CASE (\E i \in DOMAIN tabs : OnTab(i)) \/ SaveAll \/ BuildProject \/ Restart
    BY <1>3, <2>1, <2>4, OnTabsShow
  <2> QED BY <2>1, <2>2, <2>3, <2>4 DEF Next
<1> QED BY <1>1, <1>2, <1>3, PTL DEF Spec, OnlyTheseStray

=============================================================================
