--------------------------- MODULE Workspace_proofs ---------------------------
(***************************************************************************)
(* Theorems about Workspace, proved for any tree, any tabs and any disk.   *)
(***************************************************************************)
EXTENDS Workspace, SequenceTheorems, FiniteSetTheorems, WellFoundedInduction, TLAPS

\* What a tab has, whatever its Tag and its texts are drawn from.
TabOver(S) == [tag : S, text : S, onfile : S, saved : BOOLEAN, marks : Nat]
TabsOver(S) == Seq(TabOver(S))
IsTabs(ts) == \E S : ts \in TabsOver(S)

Marked(ts) == \A i \in DOMAIN ts :
    ts[i].text # ts[i].onfile => ~ts[i].saved \/ ts[i].marks > 0

-----------------------------------------------------------------------------
(* Sequences of tabs *)

\* The tabs' places, and what each has there.
LEMMA TabsAre ==
  ASSUME NEW S, NEW ts \in TabsOver(S)
  PROVE  /\ DOMAIN ts = 1..Len(ts) /\ Len(ts) \in Nat
         /\ \A i \in DOMAIN ts :
              /\ ts[i] \in TabOver(S)
              /\ ts[i].tag \in S /\ ts[i].text \in S /\ ts[i].onfile \in S
              /\ ts[i].saved \in BOOLEAN /\ ts[i].marks \in Nat
<1>1. DOMAIN ts = 1..Len(ts) /\ Len(ts) \in Nat
  BY LenProperties DEF TabsOver
<1>2. \A i \in DOMAIN ts : ts[i] \in TabOver(S)
  BY <1>1, ElementOfSeq DEF TabsOver
<1> QED
  BY <1>1, <1>2 DEF TabOver

\* A longer list of tags and texts serves as well.
LEMMA MoreTags ==
  ASSUME NEW S, NEW T, S \subseteq T, NEW ts \in TabsOver(S)
  PROVE  ts \in TabsOver(T)
<1>1. TabOver(S) \subseteq TabOver(T)
  BY DEF TabOver
<1> QED
  BY <1>1, SeqMonotonic DEF TabsOver

\* OpenTab keeps the tabs tabs, and a new one is as the file.
LEMMA OpenedMarked ==
  ASSUME NEW ts, IsTabs(ts), Marked(ts), NEW p, NEW text, NEW late \in Nat
  PROVE  IsTabs(Opened(ts, p, text, late)) /\ Marked(Opened(ts, p, text, late))
<1> DEFINE new == [tag |-> p, text |-> text, onfile |-> text, saved |-> TRUE, marks |-> late]
<1>1. CASE \E i \in DOMAIN ts : ts[i].tag = p
  BY <1>1 DEF Opened
<1>2. CASE ~\E i \in DOMAIN ts : ts[i].tag = p
  <2>0. PICK S : ts \in TabsOver(S)
    BY DEF IsTabs
  <2>1. PICK T : T = S \cup {p, text}
    OBVIOUS
  <2>2. ts \in TabsOver(T)
    BY <2>0, <2>1, MoreTags
  <2>3. new \in TabOver(T)
    BY <2>1 DEF TabOver
  <2>4. Opened(ts, p, text, late) = Append(ts, new)
    BY <1>2 DEF Opened
  <2> HIDE DEF new
  <2>5. Append(ts, new) \in TabsOver(T) /\ DOMAIN Append(ts, new) = 1..Len(ts) + 1
    BY <2>2, <2>3 DEF TabsOver
  <2>6. \A i \in DOMAIN Append(ts, new) : Append(ts, new)[i] = IF i = Len(ts) + 1 THEN new ELSE ts[i]
    BY <2>2, <2>3 DEF TabsOver
  <2>7. DOMAIN ts = 1..Len(ts) /\ Len(ts) \in Nat
    BY <2>2, TabsAre
  <2>8. new.text = new.onfile
    BY DEF new
  <2>9. ASSUME NEW i \in 1..Len(ts) + 1, NEW t, t = Append(ts, new)[i], t.text # t.onfile
        PROVE  ~t.saved \/ t.marks > 0
    BY <2>5, <2>6, <2>7, <2>8, <2>9 DEF Marked
  <2>10. Marked(Append(ts, new))
    BY <2>5, <2>9 DEF Marked
  <2> QED
    BY <2>4, <2>5, <2>10 DEF IsTabs
<1> QED
  BY <1>1, <1>2

\* One tab for another in its place.
LEMMA MappedTabs ==
  ASSUME NEW S, NEW n \in Nat, NEW f \in [1..n -> TabOver(S)]
  PROVE  f \in TabsOver(S)
  BY DEF TabsOver

\* Saved tabs are as their files; Tags and texts stay, and so do the other tabs.
LEMMA SavedMarked ==
  ASSUME IsTabs(tabs), Marked(tabs), NEW S
  PROVE  /\ IsTabs(TabsSaved(S)) /\ Marked(TabsSaved(S))
         /\ DOMAIN TabsSaved(S) = DOMAIN tabs
         /\ \A i \in DOMAIN tabs : /\ TabsSaved(S)[i].tag = tabs[i].tag
                                   /\ TabsSaved(S)[i].text = tabs[i].text
<1>0. PICK T : tabs \in TabsOver(T)
  BY DEF IsTabs
<1>1. DOMAIN tabs = 1..Len(tabs) /\ Len(tabs) \in Nat /\ \A i \in DOMAIN tabs : tabs[i] \in TabOver(T)
  BY <1>0, TabsAre
<1>2. ASSUME NEW t \in TabOver(T)
      PROVE  LET u == [t EXCEPT !.saved = TRUE, !.onfile = t.text]
             IN  u \in TabOver(T) /\ u.tag = t.tag /\ u.text = t.text /\ u.onfile = t.text
  BY <1>2 DEF TabOver
<1>3. TabsSaved(S) \in [1..Len(tabs) -> TabOver(T)]
  BY <1>1, <1>2 DEF TabsSaved
<1>4. \A i \in DOMAIN tabs : /\ TabsSaved(S)[i].tag = tabs[i].tag
                             /\ TabsSaved(S)[i].text = tabs[i].text
                             /\ TabsSaved(S)[i] = tabs[i] \/ TabsSaved(S)[i].onfile = tabs[i].text
  BY <1>1, <1>2 DEF TabsSaved
<1>5. DOMAIN TabsSaved(S) = DOMAIN tabs
  BY DEF TabsSaved
<1>6. Marked(TabsSaved(S))
  BY <1>4, <1>5 DEF Marked
<1> QED
  BY <1>1, <1>3, <1>4, <1>5, <1>6, MappedTabs DEF IsTabs

\* A tab of a renamed file has a new Tag, and is else as it was.
LEMMA RetaggedMarked ==
  ASSUME IsTabs(tabs), Marked(tabs), NEW last, NEW new,
         tabs' = [i \in DOMAIN tabs |-> IF i \in last THEN [tabs[i] EXCEPT !.tag = new] ELSE tabs[i]]
  PROVE  IsTabs(tabs)' /\ Marked(tabs)'
<1>0. PICK S : tabs \in TabsOver(S)
  BY DEF IsTabs
<1>1. PICK T : T = S \cup {new}
  OBVIOUS
<1>2. tabs \in TabsOver(T)
  BY <1>0, <1>1, MoreTags
<1>3. DOMAIN tabs = 1..Len(tabs) /\ Len(tabs) \in Nat /\ \A i \in DOMAIN tabs : tabs[i] \in TabOver(T)
  BY <1>2, TabsAre
<1>4. ASSUME NEW t \in TabOver(T)
      PROVE  LET u == [t EXCEPT !.tag = new]
             IN  u \in TabOver(T) /\ u.text = t.text /\ u.onfile = t.onfile
                 /\ u.saved = t.saved /\ u.marks = t.marks
  BY <1>1 DEF TabOver
<1>5. tabs' \in [1..Len(tabs) -> TabOver(T)]
  BY <1>3, <1>4
<1>6. \A i \in DOMAIN tabs : /\ tabs'[i].text = tabs[i].text /\ tabs'[i].onfile = tabs[i].onfile
                             /\ tabs'[i].saved = tabs[i].saved /\ tabs'[i].marks = tabs[i].marks
  BY <1>3, <1>4
<1>7. Marked(tabs)'
  BY <1>6 DEF Marked
<1> QED
  BY <1>3, <1>5, <1>7, MappedTabs DEF IsTabs

\* An edit starts a thread that will mark the tab, and a thread marks it.
LEMMA EditMarked ==
  ASSUME IsTabs(tabs), Marked(tabs), NEW i \in DOMAIN tabs,
         (\E text \in Texts : Edit(i, text)) \/ MarkUnsaved(i)
  PROVE  IsTabs(tabs)' /\ Marked(tabs)'
<1>0. PICK S : tabs \in TabsOver(S)
  BY DEF IsTabs
<1>1. PICK T : T = S \cup Texts
  OBVIOUS
<1>2. tabs \in TabsOver(T)
  BY <1>0, <1>1, MoreTags
<1>3. DOMAIN tabs = 1..Len(tabs) /\ Len(tabs) \in Nat /\ \A j \in DOMAIN tabs : tabs[j] \in TabOver(T)
  BY <1>2, TabsAre
<1>4. PICK u \in TabOver(T) : tabs' = [tabs EXCEPT ![i] = u] /\ (~u.saved \/ u.marks > 0)
  <2>1. CASE \E text \in Texts : Edit(i, text)
    <3>1. PICK text \in Texts : Edit(i, text)
      BY <2>1
    <3>2. [tabs[i] EXCEPT !.text = text, !.marks = @ + 1] \in TabOver(T)
      <4>1. tabs[i] \in TabOver(T) /\ text \in T
        BY <1>1, <1>3
      <4>2. \A t \in TabOver(T) : \A x \in T :
                [t EXCEPT !.text = x, !.marks = @ + 1] \in TabOver(T)
        <5>1. ASSUME NEW t \in TabOver(T), NEW x \in T
              PROVE  t.marks + 1 \in Nat /\ [t EXCEPT !.text = x] \in TabOver(T)
          BY DEF TabOver
        <5>2. ASSUME NEW t \in TabOver(T), NEW m \in Nat
              PROVE  [t EXCEPT !.marks = m] \in TabOver(T)
          BY DEF TabOver
        <5>3. ASSUME NEW t \in TabOver(T), NEW x \in T
              PROVE  [t EXCEPT !.text = x, !.marks = @ + 1]
                       = [[t EXCEPT !.text = x] EXCEPT !.marks = t.marks + 1]
          BY DEF TabOver
        <5> QED BY <5>1, <5>2, <5>3
      <4> QED BY <4>1, <4>2
    <3>3. [tabs[i] EXCEPT !.text = text, !.marks = @ + 1].marks > 0
      BY <1>3 DEF TabOver
    <3>4. tabs' = [tabs EXCEPT ![i] = [tabs[i] EXCEPT !.text = text, !.marks = @ + 1]]
      BY <1>3, <3>1 DEF Edit, TabOver
    <3> QED BY <3>2, <3>3, <3>4
  <2>2. CASE MarkUnsaved(i)
    <3>1. [tabs[i] EXCEPT !.saved = FALSE, !.marks = @ - 1] \in TabOver(T)
      BY <1>3, <2>2 DEF TabOver, MarkUnsaved
    <3>2. [tabs[i] EXCEPT !.saved = FALSE, !.marks = @ - 1].saved = FALSE
      BY <1>3 DEF TabOver
    <3>3. tabs' = [tabs EXCEPT ![i] = [tabs[i] EXCEPT !.saved = FALSE, !.marks = @ - 1]]
      BY <1>3, <2>2 DEF MarkUnsaved, TabOver
    <3> QED BY <3>1, <3>2, <3>3
  <2> QED BY <2>1, <2>2
<1>5. tabs' \in TabsOver(T) /\ DOMAIN tabs' = DOMAIN tabs
  BY <1>2, <1>3, <1>4, ExceptSeq DEF TabsOver
<1>6. \A j \in DOMAIN tabs : tabs'[j] = IF j = i THEN u ELSE tabs[j]
  BY <1>3, <1>4
<1>7. Marked(tabs)'
  BY <1>4, <1>5, <1>6 DEF Marked
<1> QED
  BY <1>5, <1>7 DEF IsTabs

\* A tab that is closed leaves the others as they were.
LEMMA ClosedMarked ==
  ASSUME IsTabs(tabs), Marked(tabs), NEW i \in DOMAIN tabs, tabs' = RemoveAt(tabs, i)
  PROVE  IsTabs(tabs)' /\ Marked(tabs)'
<1>0. PICK S : tabs \in TabsOver(S)
  BY DEF IsTabs
<1>1. DOMAIN tabs = 1..Len(tabs) /\ Len(tabs) \in Nat /\ \A j \in DOMAIN tabs : tabs[j] \in TabOver(S)
  BY <1>0, TabsAre
<1> DEFINE front == SubSeq(tabs, 1, i - 1)
           back == SubSeq(tabs, i + 1, Len(tabs))
<1>2. /\ front \in TabsOver(S) /\ Len(front) = i - 1
      /\ \A j \in 1..i - 1 : front[j] = tabs[j]
  BY <1>0, <1>1, SubSeqProperties DEF TabsOver
<1>3. /\ back \in TabsOver(S) /\ Len(back) = Len(tabs) - i
      /\ \A j \in 1..Len(tabs) - i : back[j] = tabs[j + i]
  BY <1>0, <1>1, SubSeqProperties DEF TabsOver
<1>4. tabs' = front \o back
  BY DEF RemoveAt
<1> HIDE DEF front, back
<1>5. /\ tabs' \in TabsOver(S) /\ Len(tabs') = Len(tabs) - 1
      /\ \A j \in 1..Len(tabs) - 1 : tabs'[j] = IF j <= i - 1 THEN tabs[j] ELSE tabs[j + 1]
  <2>1. /\ front \o back \in TabsOver(S) /\ Len(front \o back) = Len(front) + Len(back)
        /\ \A j \in 1..Len(front) + Len(back) :
             (front \o back)[j] = IF j <= Len(front) THEN front[j] ELSE back[j - Len(front)]
    BY <1>2, <1>3, ConcatProperties DEF TabsOver
  <2>2. tabs' \in TabsOver(S) /\ Len(tabs') = Len(tabs) - 1
    BY <1>1, <1>2, <1>3, <1>4, <2>1
  <2>3. ASSUME NEW j \in 1..Len(tabs) - 1
        PROVE  tabs'[j] = IF j <= i - 1 THEN tabs[j] ELSE tabs[j + 1]
    <3>1. Len(front) = i - 1 /\ Len(back) = Len(tabs) - i /\ i \in 1..Len(tabs) /\ Len(tabs) \in Nat
      BY <1>1, <1>2, <1>3
    <3>2. tabs'[j] = IF j <= i - 1 THEN front[j] ELSE back[j - (i - 1)]
      <4>1. \A k \in 1..Len(front) + Len(back) :
               tabs'[k] = IF k <= Len(front) THEN front[k] ELSE back[k - Len(front)]
        BY <1>4, <2>1, Zenon
      <4>2. j \in 1..Len(front) + Len(back)
        BY <3>1
      <4> QED BY <3>1, <4>1, <4>2
    <3>3. CASE j <= i - 1
      BY <1>2, <3>1, <3>2, <3>3
    <3>4. CASE ~(j <= i - 1)
      <4>1. j - (i - 1) \in 1..Len(tabs) - i /\ j - (i - 1) + i = j + 1
        BY <3>1, <3>4
      <4>2. back[j - (i - 1)] = tabs[j - (i - 1) + i]
        BY <1>3, <4>1
      <4> QED BY <3>2, <3>4, <4>1, <4>2
    <3> QED BY <3>3, <3>4
  <2> QED BY <2>2, <2>3
<1>6. DOMAIN tabs' = 1..Len(tabs) - 1
  BY <1>5, LenProperties DEF TabsOver
<1>7. \A j \in DOMAIN tabs' : \E k \in DOMAIN tabs : tabs'[j] = tabs[k]
  BY <1>1, <1>5, <1>6
<1>8. Marked(tabs)'
  BY <1>7 DEF Marked
<1> QED
  BY <1>5, <1>8 DEF IsTabs

-----------------------------------------------------------------------------
(* What a step does to the tabs *)

\* The invariant: there is a set that every Tag and text of a tab is in, which
\* gives the tabs the shape of tabs, and an edit that is not saved will show.
MarkInv == IsTabs(tabs) /\ Marked(tabs)

\* With no tabs open, none is wrong.
LEMMA NoTabs == IsTabs(<<>>) /\ Marked(<<>>)
<1>1. <<>> \in TabsOver({})
  BY DEF TabsOver
<1> QED
  BY <1>1 DEF IsTabs, Marked

\* The program starts without tabs.
LEMMA InitMarkInv == Init => MarkInv
  BY NoTabs DEF Init, MarkInv

\* The marking threads that come late are counted.
LEMMA LateIsNat == 0..MaxMarks \subseteq Nat
  BY WorkspaceAssumption

\* Adding an item saves the tabs and, if all could be saved, opens one more.
LEMMA AddItemMarked ==
  ASSUME MarkInv, NEW n \in DOMAIN tree, AddItem(n)
  PROVE  MarkInv'
<1> DEFINE path == RightPath(DOMAIN FilesSaved(SavedTabs) \cup dirs, NodePath[n] \o <<"code">>)
<1>1. PICK late \in 0..MaxMarks :
         \/ tabs' = TabsSaved(SavedTabs)
         \/ tabs' = Opened(TabsSaved(SavedTabs), path, Template, late)
  BY DEF AddItem
<1> HIDE DEF path
<1>2. PICK ts : ts = TabsSaved(SavedTabs)
  OBVIOUS
<1>3. IsTabs(ts) /\ Marked(ts)
  BY <1>2, SavedMarked DEF MarkInv
<1>4. \A p \in {path} : IsTabs(Opened(ts, p, Template, late)) /\ Marked(Opened(ts, p, Template, late))
  BY <1>3, LateIsNat, OpenedMarked
<1> QED
  BY <1>1, <1>2, <1>3, <1>4 DEF MarkInv

\* Opening a node opens at most one more tab.
LEMMA OpenNodeMarked ==
  ASSUME MarkInv, NEW n \in DOMAIN tree, OpenNode(n)
  PROVE  MarkInv'
<1>1. PICK late \in 0..MaxMarks :
         tabs' = Opened(tabs, tree[n].tag, files[Key(tree[n].tag)], late)
  BY DEF OpenNode
<1>2. late \in Nat
  BY LateIsNat
<1> QED
  BY <1>1, <1>2, OpenedMarked DEF MarkInv

\* So does a new project.
LEMMA NewProjectMarked ==
  ASSUME MarkInv, NewProject
  PROVE  MarkInv'
<1>1. PICK late \in 0..MaxMarks :
         tabs' = Opened(tabs, <<"P", Sep, "Data", Sep, "main">>, Template, late)
  BY DEF NewProject
<1>2. late \in Nat
  BY LateIsNat
<1> QED
  BY <1>1, <1>2, OpenedMarked DEF MarkInv

\* Renaming a file changes the Tag of a tab and nothing else of it.
LEMMA RenameFileMarked ==
  ASSUME MarkInv, NEW n \in DOMAIN tree, NEW label \in Labels, RenameFile(n, label)
  PROVE  MarkInv'
<1>1. PICK last, new :
         tabs' = [i \in DOMAIN tabs |-> IF i \in last THEN [tabs[i] EXCEPT !.tag = new] ELSE tabs[i]]
  BY DEF RenameFile
<1> QED
  BY <1>1, RetaggedMarked DEF MarkInv

\* No step leaves an edit unmarked.
LEMMA NextMarkInv ==
  ASSUME MarkInv, [Next]_vars
  PROVE  MarkInv'
<1>1. CASE UNCHANGED vars
  BY <1>1 DEF vars, MarkInv, IsTabs, Marked
<1>2. CASE Restart
  BY <1>2, NoTabs DEF Restart, MarkInv
<1>3. CASE NewProject
  BY <1>3, NewProjectMarked
<1>4. CASE OpenProject
  BY <1>4 DEF OpenProject, MarkInv
<1>5. ASSUME NEW n \in DOMAIN tree, OnNode(n)
      PROVE  MarkInv'
  <2>1. CASE AddItem(n)
    BY <2>1, AddItemMarked
  <2>2. CASE \E label \in Labels : RenameFile(n, label)
    BY <2>2, RenameFileMarked
  <2>3. CASE OpenNode(n)
    BY <2>3, OpenNodeMarked
  <2>4. CASE AddFolder(n) \/ \E text \in Texts : DropFile(n, text)
    BY <2>4 DEF AddFolder, DropFile, MarkInv
  <2>5. CASE \E label \in Labels : RenameFolder(n, label)
    BY <2>5 DEF RenameFolder, MarkInv
  <2>6. CASE \E pos \in DOMAIN tree : MoveFile(pos, n) \/ MoveFolder(pos, n)
    BY <2>6 DEF MoveFile, MoveFolder, MarkInv
  <2>7. CASE DeleteFile(n) \/ RemoveNode(n) \/ SaveAs(n) \/ LoadInto(n)
    BY <2>7 DEF DeleteFile, RemoveNode, SaveAs, LoadInto, MarkInv
  <2> QED
    BY <1>5, <2>1, <2>2, <2>3, <2>4, <2>5, <2>6, <2>7 DEF OnNode
<1>6. ASSUME NEW i \in DOMAIN tabs, OnTab(i)
      PROVE  MarkInv'
  <2>1. CASE (\E text \in Texts : Edit(i, text)) \/ MarkUnsaved(i)
    BY <2>1, EditMarked DEF MarkInv
  <2>2. CASE CloseTab(i)
    BY <2>2, ClosedMarked DEF CloseTab, MarkInv
  <2>3. CASE Save(i)
    BY <2>3, SavedMarked DEF Save, MarkInv
  <2> QED
    BY <1>6, <2>1, <2>2, <2>3 DEF OnTab
<1>7. CASE SaveAll
  BY <1>7, SavedMarked DEF SaveAll, MarkInv
<1>8. CASE BuildProject
  BY <1>8, SavedMarked DEF BuildProject, MarkInv
<1> QED
  BY <1>1, <1>2, <1>3, <1>4, <1>5, <1>6, <1>7, <1>8 DEF Next

\* For any tabs, texts and number of marking threads: in whatever order edits,
\* saves and the threads that TextChanged starts (Form1.cs:371-393) come, an
\* edit that is not in the file shows on its tab, or a thread that will show it
\* is on its way.
THEOREM EditsMarked == Spec => []EditsAreMarked
<1>1. MarkInv => EditsAreMarked
  BY DEF MarkInv, Marked, EditsAreMarked
<1>2. Init => MarkInv
  BY InitMarkInv
<1>3. MarkInv /\ [Next]_vars => MarkInv'
  BY NextMarkInv
<1> QED
  BY <1>1, <1>2, <1>3, PTL DEF Spec

-----------------------------------------------------------------------------
(* What a build reads *)

\* The loop over the tabs leaves, in a file that one tab alone has, its text.
LEMMA SavedText ==
  ASSUME NEW S, NEW i \in S, NEW k, k = Key(tabs[i].tag), S \subseteq Int,
         \A j \in S : Key(tabs[j].tag) = k => j = i
  PROVE  FilesSaved(S)[k] = tabs[i].text
<1> DEFINE keys == {Key(tabs[j].tag) : j \in S}
           last(q) == CHOOSE l \in S : /\ Key(tabs[l].tag) = q
                                       /\ \A j \in S : Key(tabs[j].tag) = q => j <= l
<1>1. k \in keys
  OBVIOUS
<1>2. Key(tabs[i].tag) = k /\ \A j \in S : Key(tabs[j].tag) = k => j <= i
  OBVIOUS
<1>3. last(k) \in S /\ Key(tabs[last(k)].tag) = k
  BY <1>2
<1>4. last(k) = i
  BY <1>3
<1>5. FilesSaved(S) = [q \in DOMAIN files \cup keys |-> IF q \in keys THEN tabs[last(q)].text ELSE files[q]]
  BY DEF FilesSaved
<1> HIDE DEF keys, last
<1> QED
  BY <1>1, <1>4, <1>5

\* What a build reads was just saved.
LEMMA BuildTakes ==
  ASSUME MarkInv, BuildProject
  PROVE  BuildTakesTabs'
<1>0. DOMAIN tabs \subseteq Int
  BY TabsAre DEF MarkInv, IsTabs
<1>1. tabs' = TabsSaved(SavedTabs) /\ tree' = tree
  BY DEF BuildProject
<1>2. /\ DOMAIN tabs' = DOMAIN tabs
      /\ \A i \in DOMAIN tabs : tabs'[i].tag = tabs[i].tag /\ tabs'[i].text = tabs[i].text
  BY <1>1, SavedMarked DEF MarkInv
<1>3. CASE DOMAIN sources' = {}
  BY <1>3 DEF BuildTakesTabs
<1>4. CASE DOMAIN sources' # {}
  <2>1. /\ SavedTabs = DOMAIN tabs
        /\ \A n \in DOMAIN sources' : sources'[n] = FilesSaved(SavedTabs)[Key(tree[n].tag)]
    <3> DEFINE readable == \A n \in Visited(Root) : Key(tree[n].tag) \in DOMAIN FilesSaved(SavedTabs)
    <3>1. sources' = IF SavedTabs = DOMAIN tabs /\ readable
                     THEN [n \in Visited(Root) |-> FilesSaved(SavedTabs)[Key(tree[n].tag)]]
                     ELSE <<>>
      BY DEF BuildProject
    <3> QED
      BY <1>4, <3>1
  <2>2. SUFFICES ASSUME NEW n \in DOMAIN sources', NEW i \in DOMAIN tabs,
                        tabs[i].tag = tree[n].tag,
                        \A j \in DOMAIN tabs : Key(tabs[j].tag) = Key(tabs[i].tag) => j = i
                 PROVE  sources'[n] = tabs[i].text
    BY <1>1, <1>2 DEF BuildTakesTabs
  <2>3. FilesSaved(DOMAIN tabs)[Key(tabs[i].tag)] = tabs[i].text
    BY <1>0, <2>2, SavedText
  <2> QED
    BY <2>1, <2>2, <2>3
<1> QED
  BY <1>3, <1>4

\* Only Build hands sources to the parser.
LEMMA NextBuildTakes ==
  ASSUME MarkInv, BuildTakesTabs, [Next]_vars
  PROVE  BuildTakesTabs'
<1>1. CASE UNCHANGED vars
  BY <1>1 DEF vars, BuildTakesTabs
<1>2. CASE sources' = <<>>
  BY <1>2 DEF BuildTakesTabs
<1>3. CASE BuildProject
  BY <1>3, BuildTakes
<1>4. ASSUME NEW n \in DOMAIN tree, OnNode(n)
      PROVE  sources' = <<>>
  BY <1>4 DEF OnNode, AddItem, AddFolder, DropFile, RenameFile, RenameFolder, MoveFile, MoveFolder,
              DeleteFile, RemoveNode, SaveAs, LoadInto, OpenNode
<1>5. ASSUME NEW i \in DOMAIN tabs, OnTab(i)
      PROVE  sources' = <<>>
  BY <1>5 DEF OnTab, Edit, MarkUnsaved, CloseTab, Save
<1>6. NewProject \/ OpenProject \/ SaveAll \/ Restart => sources' = <<>>
  BY DEF NewProject, OpenProject, SaveAll, Restart
<1> QED
  BY <1>1, <1>2, <1>3, <1>4, <1>5, <1>6 DEF Next

\* For any tree, tabs and disk: a build that reaches the parser compiles what
\* the tabs show (Form1.cs saves all tabs before it reads the nodes' files),
\* marked or not, unless two tabs are open on one file.
THEOREM BuildTakesTabsCorrect == Spec => []BuildTakesTabs
<1>1. Init => MarkInv /\ BuildTakesTabs
  BY InitMarkInv DEF Init, BuildTakesTabs
<1>2. MarkInv /\ BuildTakesTabs /\ [Next]_vars => MarkInv' /\ BuildTakesTabs'
  BY NextMarkInv, NextBuildTakes
<1> QED
  BY <1>1, <1>2, PTL DEF Spec

-----------------------------------------------------------------------------
(* Paths *)

Path == Seq(Parts)
Seps == {Sep, Sep2}

\* A set of natural numbers has a least one.
LEMMA Least ==
  ASSUME NEW S, S \subseteq Nat, S # {}
  PROVE  \E x \in S : \A y \in S : x <= y
<1>1. PICK x \in S : \A y \in S : ~(<<y, x>> \in OpToRel(<, Nat))
  BY NatLessThanWellFounded, WFMin
<1>2. \A y \in S : ~(y < x)
  BY <1>1 DEF OpToRel
<1> QED
  BY <1>2

\* The parts of a path.
LEMMA PathParts ==
  ASSUME NEW p \in Path
  PROVE  Len(p) \in Nat /\ DOMAIN p = 1..Len(p) /\ \A i \in 1..Len(p) : p[i] \in Parts
  BY LenProperties, ElementOfSeq DEF Path

\* Paths with the same parts are the same.
LEMMA SamePath ==
  ASSUME NEW p \in Path, NEW q \in Path, Len(p) = Len(q), \A i \in 1..Len(p) : p[i] = q[i]
  PROVE  p = q
  BY SeqEqual DEF Path

\* The parts of two paths in a row.
LEMMA JoinParts ==
  ASSUME NEW p \in Path, NEW q \in Path
  PROVE  /\ p \o q \in Path /\ Len(p \o q) = Len(p) + Len(q)
         /\ \A i \in 1..Len(p) : (p \o q)[i] = p[i]
         /\ \A i \in 1..Len(q) : (p \o q)[Len(p) + i] = q[i]
<1>1. /\ p \o q \in Path /\ Len(p \o q) = Len(p) + Len(q)
      /\ \A i \in 1..Len(p) + Len(q) :
           (p \o q)[i] = IF i <= Len(p) THEN p[i] ELSE q[i - Len(p)]
  BY ConcatProperties DEF Path
<1>2. Len(p) \in Nat /\ Len(q) \in Nat
  BY PathParts
<1>3. ASSUME NEW i \in 1..Len(p) PROVE (p \o q)[i] = p[i]
  BY <1>1, <1>2
<1>4. ASSUME NEW i \in 1..Len(q) PROVE (p \o q)[Len(p) + i] = q[i]
  <2>1. Len(p) + i \in 1..Len(p) + Len(q) /\ ~(Len(p) + i <= Len(p)) /\ Len(p) + i - Len(p) = i
    BY <1>2
  <2> QED BY <1>1, <2>1
<1> QED BY <1>1, <1>3, <1>4

\* The parts of a piece of a path.
LEMMA PieceParts ==
  ASSUME NEW p \in Path, NEW m \in 1..Len(p) + 1, NEW n \in Int, m - 1 <= n, n <= Len(p)
  PROVE  /\ SubSeq(p, m, n) \in Path /\ Len(SubSeq(p, m, n)) = n - m + 1
         /\ \A i \in 1..n - m + 1 : SubSeq(p, m, n)[i] = p[m + i - 1]
<1>1. Len(p) \in Nat /\ \A i \in 1..Len(p) : p[i] \in Parts
  BY PathParts
<1>2. \A i \in m..n : p[i] \in Parts
  BY <1>1
<1>3. m \in Int
  BY <1>1
<1>4. /\ SubSeq(p, m, n) \in Path /\ Len(SubSeq(p, m, n)) = IF m <= n THEN n - m + 1 ELSE 0
      /\ \A i \in 1..n - m + 1 : SubSeq(p, m, n)[i] = p[m + i - 1]
  BY <1>2, <1>3, SubSeqProperties DEF Path
<1> QED BY <1>1, <1>4

\* p begins with q.
LEMMA PrefixParts ==
  ASSUME NEW p \in Path, NEW q \in Path
  PROVE  IsPrefix(q, p) <=> Len(q) <= Len(p) /\ \A i \in 1..Len(q) : p[i] = q[i]
<1>1. Len(p) \in Nat /\ Len(q) \in Nat
  BY PathParts
<1>2. CASE Len(q) <= Len(p)
  <2>1. /\ SubSeq(p, 1, Len(q)) \in Path /\ Len(SubSeq(p, 1, Len(q))) = Len(q)
        /\ \A i \in 1..Len(q) : SubSeq(p, 1, Len(q))[i] = p[i]
    BY <1>1, <1>2, PieceParts, 1 \in 1..Len(p) + 1
  <2>2. /\ SubSeq(q, 1, Len(q)) \in Path /\ Len(SubSeq(q, 1, Len(q))) = Len(q)
        /\ \A i \in 1..Len(q) : SubSeq(q, 1, Len(q))[i] = q[i]
    BY <1>1, PieceParts, 1 \in 1..Len(q) + 1
  <2>3. SubSeq(q, 1, Len(q)) = SubSeq(p, 1, Len(q)) <=> \A i \in 1..Len(q) : p[i] = q[i]
    BY <2>1, <2>2, SamePath
  <2> QED BY <1>2, <2>3 DEF IsPrefix
<1>3. CASE ~(Len(q) <= Len(p))
  BY <1>3 DEF IsPrefix
<1> QED BY <1>2, <1>3

\* The last separator is where it is found ...
LEMMA LastSepIf ==
  ASSUME NEW p \in Path, NEW l \in 0..Len(p), l = 0 \/ p[l] \in Seps,
         \A j \in l + 1..Len(p) : p[j] \notin Seps
  PROVE  LastSep(p) = l
<1>1. Len(p) \in Nat
  BY PathParts
<1>2. ASSUME NEW i \in 0..Len(p), i = 0 \/ p[i] \in Seps,
             \A j \in i + 1..Len(p) : p[j] \notin Seps
      PROVE  i = l
  <2>1. ~(i < l)
    BY <1>1, <1>2
  <2>2. ~(l < i)
    BY <1>1, <1>2
  <2> QED BY <1>1, <2>1, <2>2
<1> QED BY <1>2 DEF LastSep, Seps

\* ... and there is one, or none.
LEMMA LastSepIs ==
  ASSUME NEW p \in Path
  PROVE  /\ LastSep(p) \in 0..Len(p) /\ (LastSep(p) = 0 \/ p[LastSep(p)] \in Seps)
         /\ \A j \in LastSep(p) + 1..Len(p) : p[j] \notin Seps
<1>1. Len(p) \in Nat
  BY PathParts
<1>3. PICK T : T = {j \in 0..Len(p) : j = Len(p) \/ p[Len(p) - j] \in Seps}
  OBVIOUS
<1>4. T \subseteq Nat /\ Len(p) \in T
  BY <1>1, <1>3
<1>5. PICK m \in T : \A j \in T : m <= j
  BY <1>4, Least
<1>6. ASSUME NEW j \in Len(p) - m + 1..Len(p) PROVE p[j] \notin Seps
  BY <1>1, <1>3, <1>5, <1>6, Len(p) - j \in 0..Len(p), Len(p) - (Len(p) - j) = j
<1>7. Len(p) - m \in 0..Len(p) /\ (Len(p) - m = 0 \/ p[Len(p) - m] \in Seps)
  BY <1>1, <1>3, <1>5
<1>8. LastSep(p) = Len(p) - m
  BY <1>6, <1>7, LastSepIf
<1> QED BY <1>6, <1>7, <1>8

\* The separators are parts, and are not other parts.
LEMMA SepFacts ==
  /\ Sep \in Parts /\ Sep2 \in Parts /\ "P" \in Parts /\ "data" \in Parts
  /\ Sep # Sep2 /\ Sep \notin {"Data", "data", "P"} /\ Sep2 \notin {"Data", "data", "P"}
<1>1. Sep # Sep2 /\ Sep \notin {"Data", "data", "P"} /\ Sep2 \notin {"Data", "data", "P"}
  BY DEF Sep, Sep2
<1> QED BY <1>1, WorkspaceAssumption

\* A path of one part.
LEMMA OnePart ==
  ASSUME NEW x \in Parts
  PROVE  <<x>> \in Path /\ Len(<<x>>) = 1 /\ <<x>>[1] = x
  BY DEF Path

\* k lies inside the folder d.
LEMMA InsideParts ==
  ASSUME NEW k \in Path, NEW d \in Path
  PROVE  Inside(k, d) <=> Len(d) < Len(k) /\ (\A i \in 1..Len(d) : k[i] = d[i]) /\ k[Len(d) + 1] = Sep
<1>1. Len(k) \in Nat /\ Len(d) \in Nat
  BY PathParts
<1>2. <<Sep>> \in Path /\ Len(<<Sep>>) = 1 /\ <<Sep>>[1] = Sep
  BY SepFacts, OnePart
<1>3. /\ d \o <<Sep>> \in Path /\ Len(d \o <<Sep>>) = Len(d) + 1
      /\ \A i \in 1..Len(d) : (d \o <<Sep>>)[i] = d[i]
      /\ (d \o <<Sep>>)[Len(d) + 1] = Sep
  BY <1>1, <1>2, JoinParts
<1>4. Inside(k, d) <=> Len(d) + 1 <= Len(k) /\ \A i \in 1..Len(d) + 1 : k[i] = (d \o <<Sep>>)[i]
  BY <1>3, PrefixParts DEF Inside
<1>5. 1..Len(d) + 1 = 1..Len(d) \cup {Len(d) + 1}
  BY <1>1
<1> QED BY <1>1, <1>3, <1>4, <1>5

\* The folder that k lies in.
LEMMA DirParts ==
  ASSUME NEW k \in Path
  PROVE  /\ DirOf(k) \in Path
         /\ LastSep(k) = 0 => DirOf(k) = <<>>
         /\ LastSep(k) # 0 => /\ Len(DirOf(k)) = LastSep(k) - 1
                              /\ \A i \in 1..LastSep(k) - 1 : DirOf(k)[i] = k[i]
<1>1. Len(k) \in Nat /\ LastSep(k) \in 0..Len(k)
  BY PathParts, LastSepIs
<1>2. CASE LastSep(k) = 0
  <2>1. DirOf(k) = <<>>
    BY <1>2, SubSeqEmpty DEF DirOf
  <2> QED BY <1>2, <2>1 DEF Path
<1>3. CASE LastSep(k) # 0
  <2>1. 1 \in 1..Len(k) + 1 /\ LastSep(k) - 1 \in Int /\ 0 <= LastSep(k) - 1 /\ LastSep(k) - 1 <= Len(k)
    BY <1>1, <1>3
  <2>2. /\ DirOf(k) \in Path /\ Len(DirOf(k)) = LastSep(k) - 1
        /\ \A i \in 1..LastSep(k) - 1 : DirOf(k)[i] = k[i]
    BY <2>1, PieceParts DEF DirOf
  <2> QED BY <1>3, <2>2
<1> QED BY <1>2, <1>3

\* In a key only Sep is a separator, so that k lies inside its folder.
LEMMA KeyInDir ==
  ASSUME NEW k, IsKey(k), LastSep(k) # 0
  PROVE  /\ IsKey(DirOf(k)) /\ Inside(k, DirOf(k)) /\ Len(DirOf(k)) < Len(k)
         /\ k[LastSep(k)] = Sep
<1>1. k \in Path /\ Len(k) \in Nat /\ DOMAIN k = 1..Len(k) /\ \A i \in 1..Len(k) : k[i] \notin {Sep2, "Data"}
  BY PathParts DEF IsKey, Path
<1>2. LastSep(k) \in 1..Len(k) /\ k[LastSep(k)] = Sep
  BY <1>1, LastSepIs DEF Seps
<1>3. /\ DirOf(k) \in Path /\ Len(DirOf(k)) = LastSep(k) - 1
      /\ \A i \in 1..LastSep(k) - 1 : DirOf(k)[i] = k[i]
  BY <1>1, DirParts
<1>4. Inside(k, DirOf(k)) /\ Len(DirOf(k)) < Len(k)
  BY <1>1, <1>2, <1>3, InsideParts
<1>5. IsKey(DirOf(k))
  <2>1. DOMAIN DirOf(k) = 1..LastSep(k) - 1
    BY <1>3, PathParts
  <2> QED BY <1>1, <1>2, <1>3, <2>1 DEF IsKey, Path
<1> QED BY <1>2, <1>4, <1>5

\* What lies inside a folder lies in it, or in a folder inside it; and whose folder
\* is d or inside d is inside d.
LEMMA DirInside ==
  ASSUME NEW k, IsKey(k), NEW d \in Path
  PROVE  /\ Inside(k, d) => /\ LastSep(k) > Len(d) /\ LastSep(k) # 0
                            /\ DirOf(k) = d \/ Inside(DirOf(k), d)
         /\ LastSep(k) # 0 /\ (DirOf(k) = d \/ Inside(DirOf(k), d)) => Inside(k, d)
<1>1. k \in Path /\ Len(k) \in Nat /\ Len(d) \in Nat
  BY PathParts DEF IsKey, Path
<1>2. /\ LastSep(k) \in 0..Len(k) /\ \A j \in LastSep(k) + 1..Len(k) : k[j] \notin Seps
  BY <1>1, LastSepIs
<1>3. ASSUME Inside(k, d)
      PROVE  LastSep(k) > Len(d) /\ LastSep(k) # 0 /\ (DirOf(k) = d \/ Inside(DirOf(k), d))
  <2>1. Len(d) < Len(k) /\ (\A i \in 1..Len(d) : k[i] = d[i]) /\ k[Len(d) + 1] = Sep
    BY <1>1, <1>3, InsideParts
  <2>2. LastSep(k) > Len(d)
    BY <1>1, <1>2, <2>1 DEF Seps
  <2>3. /\ DirOf(k) \in Path /\ Len(DirOf(k)) = LastSep(k) - 1
        /\ \A i \in 1..LastSep(k) - 1 : DirOf(k)[i] = k[i]
    BY <1>1, <2>2, DirParts
  <2>4. CASE LastSep(k) = Len(d) + 1
    BY <1>1, <2>1, <2>3, <2>4, SamePath
  <2>5. CASE LastSep(k) > Len(d) + 1
    <3>1. Len(d) < Len(DirOf(k)) /\ Len(d) + 1 \in 1..LastSep(k) - 1
      BY <1>1, <1>2, <2>3, <2>5
    <3>2. DirOf(k)[Len(d) + 1] = Sep
      BY <2>1, <2>3, <3>1
    <3>3. 1..Len(d) \subseteq 1..LastSep(k) - 1
      BY <1>1, <1>2, <2>5
    <3>4. \A i \in 1..Len(d) : DirOf(k)[i] = d[i]
      BY <2>1, <2>3, <3>3
    <3>5. Inside(DirOf(k), d)
      BY <2>3, <3>1, <3>2, <3>4, InsideParts
    <3> QED BY <1>1, <1>2, <2>2, <3>5
  <2> QED BY <1>1, <1>2, <2>2, <2>4, <2>5
<1>4. ASSUME LastSep(k) # 0, DirOf(k) = d \/ Inside(DirOf(k), d)
      PROVE  Inside(k, d)
  <2>1. /\ DirOf(k) \in Path /\ Len(DirOf(k)) \in Nat /\ Len(DirOf(k)) < Len(k)
        /\ (\A i \in 1..Len(DirOf(k)) : k[i] = DirOf(k)[i])
    BY <1>1, <1>4, KeyInDir, InsideParts, PathParts DEF IsKey, Path
  <2>2. CASE DirOf(k) = d
    BY <1>4, <2>2, KeyInDir
  <2>3. CASE Inside(DirOf(k), d)
    <3>1. Len(d) < Len(DirOf(k)) /\ (\A i \in 1..Len(d) : DirOf(k)[i] = d[i]) /\ DirOf(k)[Len(d) + 1] = Sep
      BY <2>1, <2>3, InsideParts
    <3> QED BY <1>1, <2>1, <3>1, InsideParts
  <2> QED BY <1>4, <2>2, <2>3
<1> QED BY <1>3, <1>4

\* What a path is taken for.
LEMMA KeyParts ==
  ASSUME NEW p \in Path
  PROVE  /\ IsKey(Key(p)) /\ Key(p) \in Path /\ Len(Key(p)) = Len(p)
         /\ \A i \in 1..Len(p) :
              /\ Key(p)[i] = Sep <=> p[i] \in Seps
              /\ p[i] \notin {Sep2, "Data"} => Key(p)[i] = p[i]
<1>1. Len(p) \in Nat /\ DOMAIN p = 1..Len(p) /\ \A i \in 1..Len(p) : p[i] \in Parts
  BY PathParts
<1> DEFINE part(x) == CASE x = Sep2 -> Sep [] x = "Data" -> "data" [] OTHER -> x
<1>2. ASSUME NEW x \in Parts
      PROVE  /\ part(x) \in Parts /\ part(x) \notin {Sep2, "Data"}
             /\ part(x) = Sep <=> x \in Seps
             /\ x \notin {Sep2, "Data"} => part(x) = x
  BY SepFacts, WorkspaceAssumption DEF Seps
<1>3. Key(p) = [i \in 1..Len(p) |-> part(p[i])]
  BY <1>1 DEF Key
<1> HIDE DEF part
<1>4. Key(p) \in [1..Len(p) -> Parts]
  <2>1. \A i \in 1..Len(p) : part(p[i]) \in Parts
    BY <1>1, <1>2
  <2> QED BY <1>3, <2>1
<1>5. Key(p) \in Path /\ Len(Key(p)) = Len(p)
  BY <1>1, <1>4 DEF Path
<1>6. \A i \in 1..Len(p) : Key(p)[i] = part(p[i])
  BY <1>3
<1>7. IsKey(Key(p))
  <2>1. DOMAIN Key(p) = 1..Len(p)
    BY <1>3
  <2>2. \A i \in 1..Len(p) : Key(p)[i] \notin {Sep2, "Data"}
    BY <1>1, <1>2, <1>6
  <2> QED BY <1>5, <2>1, <2>2 DEF IsKey, Path
<1> QED BY <1>1, <1>2, <1>5, <1>6, <1>7

\* A key is taken for itself.
LEMMA KeyOfKey ==
  ASSUME NEW k, IsKey(k)
  PROVE  Key(k) = k
<1>1. k \in Path /\ DOMAIN k = 1..Len(k) /\ \A i \in 1..Len(k) : k[i] \notin {Sep2, "Data"}
  BY PathParts DEF IsKey, Path
<1> QED BY <1>1, KeyParts, SamePath

-----------------------------------------------------------------------------
(* Recursion along a tree *)

\* D is a tree: up is the way to the root r, and no set of nodes is closed under it
\* without r.
Grows(D, r, up) ==
    /\ r \in D
    /\ \A n \in D \ {r} : up[n] \in D
    /\ \A C \in SUBSET (D \ {r}) : (\A n \in C : up[n] \in C) => C = {}

\* f is computed from the root: base there, and below what step makes of the value above.
Computes(f, S, r, up, base, step) ==
    \A n \in S : f[n] = IF n = r THEN base ELSE step[<<f[up[n]], n>>]

Solves(f, S, D, T, r, up, base, step) ==
    /\ S \subseteq D /\ r \in S /\ \A n \in S \ {r} : up[n] \in S
    /\ f \in [S -> T] /\ Computes(f, S, r, up, base, step)

\* Two that are computed so agree where both are.
LEMMA SolutionsAgree ==
  ASSUME NEW D, NEW T, NEW r, NEW up, NEW base, NEW step, Grows(D, r, up),
         NEW f, NEW g, NEW S, NEW U,
         Solves(f, S, D, T, r, up, base, step), Solves(g, U, D, T, r, up, base, step)
  PROVE  \A n \in S \cap U : f[n] = g[n]
<1>1. PICK C : C = {n \in S \cap U : f[n] # g[n]}
  OBVIOUS
<1>2. C \in SUBSET (D \ {r})
  BY <1>1 DEF Solves, Computes
<1>3. ASSUME NEW n \in C PROVE up[n] \in C
  <2>1. n \in S /\ n \in U /\ n # r
    BY <1>1, <1>2
  <2>2. up[n] \in S \cap U
    BY <2>1 DEF Solves
  <2>3. f[n] = step[<<f[up[n]], n>>] /\ g[n] = step[<<g[up[n]], n>>]
    BY <2>1 DEF Solves, Computes
  <2> QED BY <1>1, <1>3, <2>2, <2>3
<1>4. C = {}
  BY <1>2, <1>3 DEF Grows
<1> QED BY <1>1, <1>4

\* There is one, on all of the tree.
LEMMA SolutionExists ==
  ASSUME NEW D, NEW T, NEW r, NEW up, NEW base \in T, NEW step \in [T \X D -> T], Grows(D, r, up)
  PROVE  \E f \in [D -> T] : Computes(f, D, r, up, base, step)
<1> DEFINE Has(n, f) == \E S : n \in S /\ Solves(f, S, D, T, r, up, base, step)
<1>1. PICK C : C = {n \in D : ~\E f : Has(n, f)}
  OBVIOUS
<1>2. r \notin C
  <2>1. PICK f : f = [n \in {r} |-> base]
    OBVIOUS
  <2>2. Solves(f, {r}, D, T, r, up, base, step)
    BY <2>1 DEF Solves, Computes, Grows
  <2> QED BY <1>1, <2>2
<1>3. ASSUME NEW n \in C PROVE up[n] \in C
  <2>0. n \in D \ {r} /\ up[n] \in D
    BY <1>1, <1>2 DEF Grows
  <2>1. SUFFICES ASSUME up[n] \notin C PROVE FALSE
    OBVIOUS
  <2>2. PICK f, S : up[n] \in S /\ Solves(f, S, D, T, r, up, base, step)
    BY <1>1, <2>0, <2>1
  <2>3. n \notin S
    BY <1>1, <2>2
  <2>4. PICK g : g = [m \in S \cup {n} |-> IF m = n THEN step[<<f[up[n]], n>>] ELSE f[m]]
    OBVIOUS
  <2>5. f[up[n]] \in T /\ step[<<f[up[n]], n>>] \in T
    BY <2>0, <2>2 DEF Solves
  <2>6. g \in [S \cup {n} -> T]
    BY <2>2, <2>4, <2>5 DEF Solves
  <2>7. ASSUME NEW m \in S \cup {n} PROVE g[m] = IF m = r THEN base ELSE step[<<g[up[m]], m>>]
    <3>1. CASE m = n
      BY <2>0, <2>2, <2>3, <2>4, <3>1
    <3>2. CASE m # n
      <4>1. m \in S /\ g[m] = f[m] /\ (m # r => up[m] \in S /\ up[m] # n /\ g[up[m]] = f[up[m]])
        BY <2>2, <2>3, <2>4, <2>7, <3>2 DEF Solves
      <4> QED BY <2>2, <4>1 DEF Solves, Computes
    <3> QED BY <3>1, <3>2
  <2>8. Solves(g, S \cup {n}, D, T, r, up, base, step)
    BY <2>0, <2>2, <2>6, <2>7 DEF Solves, Computes
  <2> QED BY <1>1, <2>8
<1>4. C \in SUBSET (D \ {r})
  BY <1>1, <1>2
<1>5. C = {}
  BY <1>3, <1>4 DEF Grows
<1>6. \A n \in D : \E f : Has(n, f)
  BY <1>1, <1>5
<1>7. PICK one : one = [n \in D |-> CHOOSE f : Has(n, f)]
  OBVIOUS
<1>8. \A n \in D : Has(n, one[n])
  BY <1>6, <1>7
<1>9. PICK F : F = [n \in D |-> one[n][n]]
  OBVIOUS
<1>10. ASSUME NEW n \in D
       PROVE  F[n] \in T /\ F[n] = IF n = r THEN base ELSE step[<<F[up[n]], n>>]
  <2>1. PICK S : n \in S /\ Solves(one[n], S, D, T, r, up, base, step)
    BY <1>8
  <2>2. F[n] = one[n][n] /\ F[n] \in T
    BY <1>9, <2>1 DEF Solves
  <2>3. F[n] = IF n = r THEN base ELSE step[<<one[n][up[n]], n>>]
    BY <2>1, <2>2 DEF Solves, Computes
  <2>4. ASSUME n # r PROVE one[n][up[n]] = F[up[n]]
    <3>1. up[n] \in S /\ up[n] \in D
      BY <2>1, <2>4 DEF Solves
    <3>2. PICK U : up[n] \in U /\ Solves(one[up[n]], U, D, T, r, up, base, step)
      BY <1>8, <3>1
    <3>3. \A m \in S \cap U : one[n][m] = one[up[n]][m]
      <4>1. PICK f, g : f = one[n] /\ g = one[up[n]]
        OBVIOUS
      <4>2. Solves(f, S, D, T, r, up, base, step) /\ Solves(g, U, D, T, r, up, base, step)
        BY <2>1, <3>2, <4>1
      <4>3. \A m \in S \cap U : f[m] = g[m]
        BY <4>2, SolutionsAgree
      <4> QED BY <4>1, <4>3
    <3> QED BY <1>9, <2>1, <3>1, <3>2, <3>3
  <2> QED BY <2>2, <2>3, <2>4
<1>11. F \in [D -> T] /\ Computes(F, D, r, up, base, step)
  BY <1>9, <1>10 DEF Computes
<1> QED BY <1>11

-----------------------------------------------------------------------------
(* The tree *)

Node == [parent : Int, text : Path, tag : Path]
Plain(x) == x \in Path /\ x # <<>> /\ \A i \in 1..Len(x) : x[i] \notin Seps

\* IsTree, of any tree
Rooted(t) ==
    /\ t # <<>> => Root \in DOMAIN t /\ t[Root].parent = NoNode
    /\ \A n \in DOMAIN t \ {Root} : t[n].parent \in DOMAIN t \ {n}
    /\ \A C \in SUBSET (DOMAIN t \ {Root}) : (\A n \in C : t[n].parent \in C) => C = {}

NodesOK(t) ==
    /\ IsFiniteSet(DOMAIN t) /\ DOMAIN t \subseteq Nat
    /\ t \in [DOMAIN t -> Node]
    /\ Root \in DOMAIN t => t[Root].tag = ProjectDir
    /\ \A n \in DOMAIN t \ {Root} : Plain(t[n].text)

TreeInv(t) == NodesOK(t) /\ Rooted(t)

\* What a node has.
LEMMA NodeParts ==
  ASSUME NEW t, NodesOK(t), NEW n \in DOMAIN t
  PROVE  t[n].parent \in Int /\ t[n].text \in Path /\ t[n].tag \in Path
<1>1. t[n] \in Node
  BY DEF NodesOK
<1> QED BY <1>1 DEF Node

\* The way up from a node ends at the root.
LEMMA TreeGrows ==
  ASSUME NEW t, Rooted(t), t # <<>>, NEW up, up = [n \in DOMAIN t |-> t[n].parent]
  PROVE  Grows(DOMAIN t, Root, up)
<1>1. ASSUME NEW C \in SUBSET (DOMAIN t \ {Root}), \A n \in C : up[n] \in C
      PROVE  C = {}
  BY <1>1 DEF Rooted
<1> QED BY <1>1 DEF Rooted, Grows

\* The nodes above a node are it and those above its parent.
LEMMA AboveIs ==
  ASSUME TreeInv(tree), tree # <<>>
  PROVE  /\ \A n \in DOMAIN tree : Above[n] \subseteq DOMAIN tree /\ n \in Above[n]
         /\ Root \in DOMAIN tree /\ Above[Root] = {Root}
         /\ \A n \in DOMAIN tree \ {Root} :
               tree[n].parent \in DOMAIN tree /\ Above[n] = {n} \cup Above[tree[n].parent]
<1>1. PICK D : D = DOMAIN tree
  OBVIOUS
<1>2. PICK up : up = [n \in D |-> tree[n].parent]
  OBVIOUS
<1>3. Grows(D, Root, up)
  BY <1>1, <1>2, TreeGrows DEF TreeInv
<1>4. PICK T : T = SUBSET D
  OBVIOUS
<1>5. PICK base, step : base = {Root} /\ step = [x \in T \X D |-> {x[2]} \cup x[1]]
  OBVIOUS
<1>6. base \in T /\ step \in [T \X D -> T]
  BY <1>3, <1>4, <1>5 DEF Grows
<1>7. PICK f \in [D -> T] : Computes(f, D, Root, up, base, step)
  BY <1>3, <1>6, SolutionExists
<1>8. \A n \in D : f[n] = IF n = Root THEN {Root} ELSE {n} \cup f[tree[n].parent]
  <2>1. ASSUME NEW n \in D, n # Root PROVE step[<<f[up[n]], n>>] = {n} \cup f[tree[n].parent]
    <3>1. up[n] \in D /\ up[n] = tree[n].parent
      BY <1>2, <1>3, <2>1 DEF Grows
    <3> QED BY <1>5, <1>7, <3>1
  <2> QED BY <1>5, <1>7, <2>1 DEF Computes
<1>9. tree[Root].parent = NoNode /\ \A n \in D : n # Root => tree[n].parent # NoNode /\ tree[n].parent \in D
  BY <1>1 DEF TreeInv, Rooted, NodesOK, NoNode
<1>10. f = [n \in D |-> IF tree[n].parent = NoNode THEN {n} ELSE {n} \cup f[tree[n].parent]]
  <2>1. \A n \in D : f[n] = IF tree[n].parent = NoNode THEN {n} ELSE {n} \cup f[tree[n].parent]
    BY <1>8, <1>9
  <2> QED BY <1>7, <2>1
<1>11. Above = [n \in D |-> IF tree[n].parent = NoNode THEN {n} ELSE {n} \cup Above[tree[n].parent]]
  BY <1>1, <1>10 DEF Above
<1>12. \A n \in D : Above[n] = IF n = Root THEN {n} ELSE {n} \cup Above[tree[n].parent]
  BY <1>9, <1>11
<1>13. PICK C : C = {n \in D : ~(Above[n] \subseteq D)}
  OBVIOUS
<1>14. C \in SUBSET (D \ {Root})
  BY <1>12, <1>13
<1>15. \A n \in C : up[n] \in C
  <2>1. ASSUME NEW n \in C PROVE tree[n].parent \in C
    BY <1>9, <1>12, <1>13, <1>14, <2>1
  <2> QED BY <1>2, <1>14, <2>1
<1>16. C = {}
  BY <1>3, <1>14, <1>15 DEF Grows
<1> QED
  <2>1. Root \in D
    BY <1>3 DEF Grows
  <2>2. \A n \in D : Above[n] \subseteq D /\ n \in Above[n]
    BY <1>12, <1>13, <1>16
  <2>3. Above[Root] = {Root}
    BY <1>12, <2>1
  <2>4. \A n \in D \ {Root} : tree[n].parent \in D /\ Above[n] = {n} \cup Above[tree[n].parent]
    BY <1>9, <1>12
  <2> QED BY <1>1, <2>1, <2>2, <2>3, <2>4

\* P\data\..., which ends with a separator and has no two in a row.
GoodPath(p) ==
    /\ p \in Path /\ Len(p) >= 4 /\ p[1] = "P" /\ p[2] = Sep /\ p[Len(p)] = Sep
    /\ \A i \in 1..Len(p) - 1 : p[i] \in Seps => p[i + 1] \notin Seps

\* A name and a separator make such a path of one.
LEMMA GoodLonger ==
  ASSUME NEW p, GoodPath(p), NEW x, Plain(x)
  PROVE  GoodPath(p \o x \o <<Sep>>)
<1>1. /\ p \in Path /\ Len(p) \in Nat /\ Len(p) >= 4 /\ x \in Path /\ Len(x) \in Nat /\ Len(x) # 0
      /\ <<Sep>> \in Path /\ Len(<<Sep>>) = 1 /\ <<Sep>>[1] = Sep
  BY PathParts, SepFacts, OnePart, EmptySeq DEF GoodPath, Plain, Path
<1>2. PICK q : q = p \o x
  OBVIOUS
<1>3. /\ q \in Path /\ Len(q) = Len(p) + Len(x)
      /\ \A i \in 1..Len(p) : q[i] = p[i]
      /\ \A i \in 1..Len(x) : q[Len(p) + i] = x[i]
  BY <1>1, <1>2, JoinParts
<1>4. PICK r, e : r = q \o e /\ e = <<Sep>>
  OBVIOUS
<1>5. /\ r \in Path /\ Len(r) = Len(q) + 1
      /\ \A i \in 1..Len(q) : r[i] = q[i]
      /\ r[Len(q) + 1] = Sep
  <2>1. e \in Path /\ Len(e) = 1 /\ e[1] = Sep
    BY <1>1, <1>4
  <2>2. /\ r \in Path /\ Len(r) = Len(q) + Len(e)
        /\ \A i \in 1..Len(q) : r[i] = q[i]
        /\ \A i \in 1..Len(e) : r[Len(q) + i] = e[i]
    <3>1. q \in Path /\ e \in Path /\ r = q \o e
      BY <1>3, <1>4, <2>1
    <3> QED BY <3>1, JoinParts
  <2>3. r[Len(q) + 1] = e[1]
    <3>1. 1 \in 1..Len(e)
      BY <2>1
    <3> QED BY <2>2, <3>1
  <2> QED BY <2>1, <2>2, <2>3
<1>6. \A i \in 1..Len(p) : r[i] = p[i]
  BY <1>1, <1>3, <1>5
<1>7. \A i \in Len(p) + 1..Len(q) : r[i] \notin Seps
  <2>1. ASSUME NEW i \in Len(p) + 1..Len(q) PROVE r[i] \notin Seps
    <3>1. i - Len(p) \in 1..Len(x) /\ Len(p) + (i - Len(p)) = i /\ i \in 1..Len(q)
      BY <1>1, <1>3
    <3>2. r[i] = x[i - Len(p)]
      BY <1>3, <1>5, <3>1
    <3> QED BY <3>1, <3>2 DEF Plain
  <2> QED BY <2>1
<1>8. r[1] = "P" /\ r[2] = Sep
  BY <1>1, <1>6 DEF GoodPath
<1>9. ASSUME NEW i \in 1..Len(r) - 1, r[i] \in Seps PROVE r[i + 1] \notin Seps
  <2>1. CASE i < Len(p)
    <3>1. r[i] = p[i] /\ r[i + 1] = p[i + 1] /\ i \in 1..Len(p) - 1
      BY <1>1, <1>6, <2>1
    <3> QED BY <1>9, <3>1 DEF GoodPath
  <2>2. CASE i = Len(p)
    BY <1>1, <1>3, <1>7, <2>2
  <2>3. CASE i > Len(p)
    BY <1>1, <1>3, <1>5, <1>7, <1>9, <2>3
  <2> QED BY <1>1, <2>1, <2>2, <2>3
<1>10. Len(r) >= 4 /\ r[Len(r)] = Sep
  BY <1>1, <1>3, <1>5
<1>11. GoodPath(r)
  BY <1>5, <1>8, <1>9, <1>10 DEF GoodPath
<1> QED BY <1>2, <1>4, <1>11

\* The data folder of the project is such a path.
LEMMA GoodRoot == GoodPath(ProjectDir \o <<Sep, "data", Sep>>)
<1>1. PICK s, d : s = Sep /\ d = "data"
  OBVIOUS
<1>2. s \in Parts /\ d \in Parts /\ "P" \in Parts /\ s \in Seps /\ d \notin Seps /\ "P" \notin Seps
  BY <1>1, SepFacts DEF Seps
<1>3. <<"P">> \o <<s, d, s>> = <<"P", s, d, s>>
  <2>1. PICK u, v : u = <<"P">> /\ v = <<s, d, s>>
    OBVIOUS
  <2>2. u \in Path /\ Len(u) = 1 /\ u[1] = "P" /\ v \in Path /\ Len(v) = 3 /\ v[1] = s /\ v[2] = d /\ v[3] = s
    BY <1>2, <2>1 DEF Path
  <2>3. PICK w : w = <<"P", s, d, s>>
    OBVIOUS
  <2>4. w \in Path /\ Len(w) = 4 /\ w[1] = "P" /\ w[2] = s /\ w[3] = d /\ w[4] = s
    BY <1>2, <2>3 DEF Path
  <2>8. /\ u \o v \in Path /\ Len(u \o v) = Len(u) + Len(v)
        /\ \A i \in 1..Len(u) : (u \o v)[i] = u[i]
        /\ \A i \in 1..Len(v) : (u \o v)[Len(u) + i] = v[i]
    BY <2>2, JoinParts
  <2>5. /\ u \o v \in Path /\ Len(u \o v) = 4 /\ (u \o v)[1] = "P"
        /\ (u \o v)[1 + 1] = s /\ (u \o v)[1 + 2] = d /\ (u \o v)[1 + 3] = s
    <3>1. 1 \in 1..Len(u) /\ 1 \in 1..Len(v) /\ 2 \in 1..Len(v) /\ 3 \in 1..Len(v)
      BY <2>2
    <3>2. /\ (u \o v)[1] = u[1] /\ (u \o v)[Len(u) + 1] = v[1]
          /\ (u \o v)[Len(u) + 2] = v[2] /\ (u \o v)[Len(u) + 3] = v[3]
      BY <2>8, <3>1
    <3> QED BY <2>2, <2>8, <3>2
  <2>6. \A i \in 1..4 : (u \o v)[i] = w[i]
    BY <2>4, <2>5
  <2>7. u \o v = w
    BY <2>4, <2>5, <2>6, SamePath
  <2> QED BY <2>1, <2>3, <2>7
<1>4. PICK p : p = <<"P", s, d, s>>
  OBVIOUS
<1>5. p \in Path /\ Len(p) = 4 /\ p[1] = "P" /\ p[2] = s /\ p[3] = d /\ p[4] = s
  BY <1>2, <1>4 DEF Path
<1>6. \A i \in 1..3 : p[i] \in Seps => p[i + 1] \notin Seps
  BY <1>2, <1>5
<1>7. GoodPath(p)
  BY <1>1, <1>5, <1>6 DEF GoodPath
<1> QED BY <1>1, <1>3, <1>4, <1>7 DEF ProjectDir

\* The path of a node is the path of its parent and its text.
LEMMA NodePathIs ==
  ASSUME TreeInv(tree), tree # <<>>
  PROVE  /\ NodePath[Root] = ProjectDir \o <<Sep, "data", Sep>>
         /\ \A n \in DOMAIN tree : GoodPath(NodePath[n])
         /\ \A n \in DOMAIN tree \ {Root} :
               NodePath[n] = NodePath[tree[n].parent] \o tree[n].text \o <<Sep>>
<1>1. PICK D : D = DOMAIN tree
  OBVIOUS
<1>2. PICK up : up = [n \in D |-> tree[n].parent]
  OBVIOUS
<1>3. Grows(D, Root, up)
  BY <1>1, <1>2, TreeGrows DEF TreeInv
<1>4. PICK base, step : /\ base = ProjectDir \o <<Sep, "data", Sep>>
                        /\ step = [x \in Path \X D |-> IF x[2] = Root THEN x[1] ELSE x[1] \o tree[x[2]].text \o <<Sep>>]
  OBVIOUS
<1>5. /\ \A n \in D : tree[n].text \in Path
      /\ \A n \in D \ {Root} : Plain(tree[n].text)
      /\ tree[Root].tag = ProjectDir
      /\ \A n \in D \ {Root} : tree[n].parent \in D
      /\ Root \in D
  BY <1>1, NodeParts DEF TreeInv, NodesOK, Rooted
<1>6. base \in Path /\ step \in [Path \X D -> Path]
  <2>1. base \in Path
    BY <1>4, GoodRoot DEF GoodPath
  <2>2. <<Sep>> \in Path
    BY SepFacts, OnePart
  <2>3. \A p \in Path : \A n \in D : p \o tree[n].text \o <<Sep>> \in Path
    BY <1>5, <2>2, JoinParts
  <2>4. \A x \in Path \X D : step[x] \in Path
    BY <1>4, <2>3
  <2> QED BY <1>4, <2>1, <2>4
<1>7. PICK f \in [D -> Path] : Computes(f, D, Root, up, base, step)
  BY <1>3, <1>6, SolutionExists
<1>8. \A n \in D : f[n] = IF n = Root THEN base ELSE f[tree[n].parent] \o tree[n].text \o <<Sep>>
  <2>1. ASSUME NEW n \in D, n # Root
        PROVE  step[<<f[up[n]], n>>] = f[tree[n].parent] \o tree[n].text \o <<Sep>>
    <3>1. up[n] \in D /\ up[n] = tree[n].parent /\ f[up[n]] \in Path
      BY <1>2, <1>5, <1>7, <2>1
    <3> QED BY <1>4, <2>1, <3>1
  <2> QED BY <1>7, <2>1 DEF Computes
<1>9. f = [n \in D |-> IF n = Root THEN tree[n].tag \o <<Sep, "data", Sep>>
                       ELSE f[tree[n].parent] \o tree[n].text \o <<Sep>>]
  <2>1. \A n \in D : f[n] = IF n = Root THEN tree[n].tag \o <<Sep, "data", Sep>>
                            ELSE f[tree[n].parent] \o tree[n].text \o <<Sep>>
    BY <1>4, <1>5, <1>8
  <2> QED BY <1>7, <2>1
<1>10. NodePath = [n \in D |-> IF n = Root THEN tree[n].tag \o <<Sep, "data", Sep>>
                               ELSE NodePath[tree[n].parent] \o tree[n].text \o <<Sep>>]
  BY <1>1, <1>9 DEF NodePath
<1>11. \A n \in D : NodePath[n] = IF n = Root THEN base
                                  ELSE NodePath[tree[n].parent] \o tree[n].text \o <<Sep>>
  BY <1>4, <1>5, <1>10
<1>12. PICK C : C = {n \in D : ~GoodPath(NodePath[n])}
  OBVIOUS
<1>13. C \in SUBSET (D \ {Root})
  BY <1>4, <1>11, <1>12, GoodRoot
<1>14. \A n \in C : up[n] \in C
  <2>1. ASSUME NEW n \in C PROVE tree[n].parent \in C
    BY <1>5, <1>11, <1>12, <1>13, <2>1, GoodLonger
  <2> QED BY <1>2, <1>13, <2>1
<1>15. C = {}
  BY <1>3, <1>13, <1>14 DEF Grows
<1> QED BY <1>1, <1>4, <1>5, <1>11, <1>12, <1>15

\* What is not empty has a node.
LEMMA NoTree ==
  ASSUME NEW t, t \in [DOMAIN t -> Node]
  PROVE  t = <<>> <=> DOMAIN t = {}
<1>1. t = <<>> => DOMAIN t = {}
  OBVIOUS
<1>2. ASSUME DOMAIN t = {} PROVE t = <<>>
  <2>1. t \in [1..0 -> Node]
    BY <1>2
  <2>2. t \in Seq(Node) /\ Len(t) = 0
    BY <2>1
  <2> QED BY <2>2, EmptySeq
<1> QED BY <1>1, <1>2

\* New Tags and new names leave a tree a tree.
LEMMA SameParents ==
  ASSUME NEW t, TreeInv(t), NEW u, u \in [DOMAIN t -> Node],
         \A n \in DOMAIN t : u[n].parent = t[n].parent,
         Root \in DOMAIN t => u[Root].tag = ProjectDir,
         \A n \in DOMAIN t \ {Root} : Plain(u[n].text)
  PROVE  TreeInv(u)
<1>1. DOMAIN u = DOMAIN t
  OBVIOUS
<1>2. NodesOK(u)
  BY <1>1 DEF NodesOK, TreeInv
<1>3. u # <<>> => t # <<>>
  BY <1>1, NoTree DEF NodesOK, TreeInv
<1>4. u # <<>> => Root \in DOMAIN u /\ u[Root].parent = NoNode
  BY <1>1, <1>3 DEF TreeInv, Rooted
<1>5. \A n \in DOMAIN u \ {Root} : u[n].parent \in DOMAIN u \ {n}
  BY <1>1 DEF TreeInv, Rooted
<1>6. \A C \in SUBSET (DOMAIN u \ {Root}) : (\A n \in C : u[n].parent \in C) => C = {}
  <2>1. ASSUME NEW C \in SUBSET (DOMAIN t \ {Root}), \A n \in C : u[n].parent \in C PROVE C = {}
    <3>1. \A n \in C : t[n].parent \in C
      BY <2>1
    <3> QED BY <3>1 DEF TreeInv, Rooted
  <2> QED BY <1>1, <2>1
<1> QED BY <1>2, <1>4, <1>5, <1>6 DEF TreeInv, Rooted

\* A finite set of nodes leaves a number free.
LEMMA NumberFree ==
  ASSUME NEW S, IsFiniteSet(S)
  PROVE  Cardinality(S) \in Nat /\ \E i \in 1..Cardinality(S) + 1 : i \notin S
<1>1. Cardinality(S) \in Nat
  BY FS_CardinalityType
<1>2. PICK n : n = Cardinality(S)
  OBVIOUS
<1>3. IsFiniteSet(1..n + 1) /\ Cardinality(1..n + 1) = n + 1
  <2>1. 1 \in Int /\ n + 1 \in Int /\ ~(1 > n + 1) /\ n + 1 - 1 + 1 = n + 1
    BY <1>1, <1>2
  <2> QED BY <2>1, FS_Interval
<1>4. ~(1..n + 1 \subseteq S)
  <2>1. ASSUME 1..n + 1 \subseteq S PROVE FALSE
    <3>1. Cardinality(1..n + 1) <= Cardinality(S)
      BY <2>1, FS_Subset
    <3> QED BY <1>1, <1>2, <1>3, <3>1
  <2> QED BY <2>1
<1> QED BY <1>1, <1>2, <1>4

\* A new node is a leaf.
LEMMA NewLeaf ==
  ASSUME TreeInv(tree), NEW n \in DOMAIN tree, NEW text, Plain(text), NEW tag \in Path
  PROVE  TreeInv(WithNode(n, text, tag))
<1>1. PICK D : D = DOMAIN tree
  OBVIOUS
<1>2. IsFiniteSet(D) /\ D \subseteq Nat /\ n \in D /\ tree # <<>> /\ Root \in D /\ tree[Root].parent = NoNode
  BY <1>1 DEF TreeInv, NodesOK, Rooted
<1>3. PICK i : i = NewNode
  OBVIOUS
<1>4. i \in Nat /\ i # 0 /\ i \notin D
  <2>1. Cardinality(D) \in Nat /\ \E j \in 1..Cardinality(D) + 1 : j \notin D
    BY <1>2, NumberFree
  <2>2. i \in 1..Cardinality(D) + 1 /\ i \notin D
    BY <1>1, <1>3, <2>1 DEF NewNode
  <2> QED BY <2>1, <2>2
<1>5. PICK u, v : u = WithNode(n, text, tag) /\ v = [parent |-> n, text |-> text, tag |-> tag]
  OBVIOUS
<1>6. u = [q \in D \cup {i} |-> IF q = i THEN v ELSE tree[q]]
  BY <1>1, <1>3, <1>5 DEF WithNode, With
<1>7. v \in Node /\ v.parent = n /\ v.text = text
  <2>1. n \in Int /\ text \in Path
    BY <1>2 DEF Plain
  <2> QED BY <1>5, <2>1 DEF Node
<1>8. DOMAIN u = D \cup {i} /\ u[i] = v /\ \A m \in D : u[m] = tree[m]
  BY <1>4, <1>6
<1>9. NodesOK(u)
  <2>1. IsFiniteSet(D \cup {i}) /\ D \cup {i} \subseteq Nat
    BY <1>2, <1>4, FS_AddElement
  <2>2. u \in [D \cup {i} -> Node]
    BY <1>1, <1>6, <1>7 DEF TreeInv, NodesOK
  <2>3. u[Root].tag = ProjectDir
    BY <1>1, <1>2, <1>8 DEF TreeInv, NodesOK
  <2>4. \A m \in D \cup {i} : m # Root => Plain(u[m].text)
    BY <1>1, <1>7, <1>8 DEF TreeInv, NodesOK
  <2> QED BY <1>8, <2>1, <2>2, <2>3, <2>4 DEF NodesOK
<1>10. Root \in DOMAIN u /\ u[Root].parent = NoNode
  BY <1>2, <1>8
<1>11. \A m \in DOMAIN u \ {Root} : u[m].parent \in DOMAIN u \ {m}
  BY <1>1, <1>2, <1>4, <1>7, <1>8 DEF TreeInv, Rooted
<1>12. ASSUME NEW C \in SUBSET (DOMAIN u \ {Root}), \A m \in C : u[m].parent \in C
       PROVE  C = {}
  <2>1. PICK E : E = C \ {i}
    OBVIOUS
  <2>2. E \in SUBSET (D \ {Root})
    BY <1>8, <2>1
  <2>3. \A m \in E : tree[m].parent \in E
    BY <1>1, <1>4, <1>8, <1>12, <2>1, <2>2 DEF TreeInv, Rooted
  <2>4. E = {}
    BY <1>1, <2>2, <2>3 DEF TreeInv, Rooted
  <2>5. i \notin C
    BY <1>2, <1>4, <1>7, <1>8, <1>12, <2>1, <2>4
  <2> QED BY <2>1, <2>4, <2>5
<1> QED BY <1>5, <1>9, <1>10, <1>11, <1>12 DEF TreeInv, Rooted

\* A node that goes below another that is not below it leaves a tree.
LEMMA NodeMoved ==
  ASSUME TreeInv(tree), NEW n \in DOMAIN tree \ {Root}, NEW to \in DOMAIN tree, n \notin Above[to],
         NEW u, u \in [DOMAIN tree -> Node], u[n].parent = to,
         \A m \in DOMAIN tree \ {n} : u[m].parent = tree[m].parent,
         u[Root].tag = ProjectDir, \A m \in DOMAIN tree \ {Root} : Plain(u[m].text)
  PROVE  TreeInv(u)
<1>1. PICK D : D = DOMAIN tree
  OBVIOUS
<1>2. tree # <<>> /\ Root \in D /\ tree[Root].parent = NoNode /\ IsFiniteSet(D) /\ D \subseteq Nat
  BY <1>1 DEF TreeInv, NodesOK, Rooted
<1>3. /\ \A m \in D : m \in Above[m]
      /\ \A m \in D \ {Root} : tree[m].parent \in D /\ Above[m] = {m} \cup Above[tree[m].parent]
  BY <1>1, <1>2, AboveIs
<1>4. DOMAIN u = D
  BY <1>1
<1>5. NodesOK(u)
  BY <1>1, <1>2, <1>4 DEF NodesOK
<1>6. Root \in DOMAIN u /\ u[Root].parent = NoNode
  BY <1>1, <1>2, <1>4
<1>7. to # n
  BY <1>1, <1>3
<1>8. \A m \in DOMAIN u \ {Root} : u[m].parent \in DOMAIN u \ {m}
  BY <1>1, <1>4, <1>7 DEF TreeInv, Rooted
<1>9. ASSUME NEW C \in SUBSET (D \ {Root}), \A m \in C : u[m].parent \in C
      PROVE  C = {}
  <2>1. PICK E : E = {m \in C : n \notin Above[m]}
    OBVIOUS
  <2>2. \A m \in E : tree[m].parent \in E
    <3>1. ASSUME NEW m \in E PROVE tree[m].parent \in E
      <4>1. m \in D \ {Root} /\ m # n /\ m \in C /\ n \notin Above[m]
        BY <1>1, <1>3, <2>1, <3>1
      <4>2. tree[m].parent \in C
        BY <1>1, <1>9, <4>1
      <4>3. n \notin Above[tree[m].parent]
        BY <1>3, <4>1
      <4> QED BY <2>1, <4>2, <4>3
    <3> QED BY <3>1
  <2>3. E = {}
    <3>1. E \in SUBSET (D \ {Root})
      BY <2>1
    <3> QED BY <1>1, <2>2, <3>1 DEF TreeInv, Rooted
  <2>4. n \notin C
    BY <1>9, <2>1, <2>3
  <2>5. \A m \in C : tree[m].parent \in C
    BY <1>1, <1>9, <2>4
  <2> QED BY <1>1, <2>5 DEF TreeInv, Rooted
<1> QED BY <1>4, <1>5, <1>6, <1>8, <1>9 DEF TreeInv, Rooted

\* A node goes, with all below it.
LEMMA NodeGone ==
  ASSUME TreeInv(tree), NEW n \in DOMAIN tree
  PROVE  TreeInv(Without(tree, Below(n)))
<1>1. PICK D, E : D = DOMAIN tree /\ E = D \ Below(n)
  OBVIOUS
<1>2. tree # <<>> /\ Root \in D /\ tree[Root].parent = NoNode /\ IsFiniteSet(D) /\ D \subseteq Nat
  BY <1>1 DEF TreeInv, NodesOK, Rooted
<1>3. /\ \A m \in D : m \in Above[m]
      /\ Above[Root] = {Root}
      /\ \A m \in D \ {Root} : tree[m].parent \in D /\ Above[m] = {m} \cup Above[tree[m].parent]
  BY <1>1, <1>2, AboveIs
<1>4. PICK u : u = Without(tree, Below(n))
  OBVIOUS
<1>5. u = [m \in E |-> tree[m]]
  BY <1>1, <1>4 DEF Without
<1>6. DOMAIN u = E /\ \A m \in E : u[m] = tree[m]
  BY <1>5
<1>7. \A m \in D : m \in E <=> n \notin Above[m]
  BY <1>1 DEF Below
<1>8. NodesOK(u)
  <2>1. IsFiniteSet(E) /\ E \subseteq Nat
    BY <1>1, <1>2, FS_Subset
  <2>2. u \in [E -> Node]
    BY <1>1, <1>5 DEF TreeInv, NodesOK
  <2> QED BY <1>1, <1>6, <2>1, <2>2 DEF TreeInv, NodesOK
<1>9. \A C \in SUBSET (E \ {Root}) : (\A m \in C : tree[m].parent \in C) => C = {}
  BY <1>1 DEF TreeInv, Rooted
<1>10. \A m \in E \ {Root} : tree[m].parent \in E \ {m}
  <2>1. ASSUME NEW m \in E \ {Root} PROVE tree[m].parent \in E \ {m}
    <3>1. m \in D \ {Root} /\ n \notin Above[m]
      BY <1>1, <1>7
    <3>2. tree[m].parent \in D \ {m} /\ n \notin Above[tree[m].parent]
      BY <1>1, <1>3, <3>1 DEF TreeInv, Rooted
    <3> QED BY <1>7, <3>2
  <2> QED BY <2>1
<1>11. u # <<>> => Root \in E
  <2>1. CASE n # Root
    BY <1>2, <1>3, <1>7, <2>1
  <2>2. CASE n = Root
    <3>1. PICK C : C = {m \in D : Root \notin Above[m]}
      OBVIOUS
    <3>2. C \in SUBSET (D \ {Root})
      BY <1>2, <1>3, <3>1
    <3>3. \A m \in C : tree[m].parent \in C
      BY <1>3, <3>1, <3>2
    <3>4. C = {}
      BY <1>1, <3>2, <3>3 DEF TreeInv, Rooted
    <3>5. E = {}
      BY <1>1, <1>7, <2>2, <3>1, <3>4
    <3> QED BY <1>6, <1>8, <3>5, NoTree DEF NodesOK
  <2> QED BY <2>1, <2>2
<1>12. u # <<>> => Root \in DOMAIN u /\ u[Root].parent = NoNode
  BY <1>2, <1>6, <1>11
<1>13. \A m \in DOMAIN u \ {Root} : u[m].parent \in DOMAIN u \ {m}
  BY <1>6, <1>10
<1>14. \A C \in SUBSET (DOMAIN u \ {Root}) : (\A m \in C : u[m].parent \in C) => C = {}
  <2>1. ASSUME NEW C \in SUBSET (E \ {Root}), \A m \in C : u[m].parent \in C PROVE C = {}
    <3>1. \A m \in C : tree[m].parent \in C
      BY <1>6, <2>1
    <3> QED BY <1>9, <3>1
  <2> QED BY <1>6, <2>1
<1> QED BY <1>4, <1>8, <1>12, <1>13, <1>14 DEF TreeInv, Rooted

-----------------------------------------------------------------------------
(* Names *)

\* Different numbers are written differently, without separators, and no number
\* is written as "Data" is.
Numerals == \A i \in Nat : /\ Numeral(i) \in Parts \ (Seps \cup {"Data", Bad})
                           /\ \A j \in Nat : Numeral(i) = Numeral(j) => i = j

\* A path with one more part.
LEMMA OneMore ==
  ASSUME NEW p \in Path, NEW x \in Parts
  PROVE  /\ p \o <<x>> \in Path /\ Len(p \o <<x>>) = Len(p) + 1
         /\ \A i \in 1..Len(p) : (p \o <<x>>)[i] = p[i]
         /\ (p \o <<x>>)[Len(p) + 1] = x
<1>1. PICK e : e = <<x>>
  OBVIOUS
<1>2. e \in Path /\ Len(e) = 1 /\ e[1] = x
  BY <1>1, OnePart
<1>3. /\ p \o e \in Path /\ Len(p \o e) = Len(p) + Len(e)
      /\ \A i \in 1..Len(p) : (p \o e)[i] = p[i]
      /\ \A i \in 1..Len(e) : (p \o e)[Len(p) + i] = e[i]
  BY <1>2, JoinParts
<1>4. (p \o e)[Len(p) + 1] = x
  BY <1>2, <1>3, 1 \in 1..1
<1> QED BY <1>1, <1>2, <1>3, <1>4

\* ToRightPath finds a name that nothing has, which begins with what was asked for.
LEMMA RightPathIs ==
  ASSUME Numerals, NEW taken, IsFiniteSet(taken), NEW p \in Path
  PROVE  LET r == RightPath(taken, p) IN
         /\ Key(r) \notin taken
         /\ r = p \/ \E i \in Nat : r = p \o <<Numeral(i)>>
<1>1. CASE Key(p) \notin taken
  BY <1>1 DEF RightPath
<1>2. CASE Key(p) \in taken
  <2> DEFINE Numbered(i) == p \o <<Numeral(i)>>
             Free(i) == Key(Numbered(i)) \notin taken
             n == Cardinality(taken)
  <2>1. RightPath(taken, p) = Numbered(CHOOSE i \in 1..n + 1 : Free(i) /\ \A j \in 1..i - 1 : ~Free(j))
    BY <1>2 DEF RightPath
  <2>2. n \in Nat
    BY FS_CardinalityType
  <2>3. \E i \in 1..n + 1 : Free(i)
    <3>1. SUFFICES ASSUME \A i \in 1..n + 1 : Key(Numbered(i)) \in taken
                   PROVE  FALSE
      OBVIOUS
    <3>2. PICK f : f = [i \in 1..n + 1 |-> Key(Numbered(i))]
      OBVIOUS
    <3>3. f \in [1..n + 1 -> taken]
      BY <3>1, <3>2
    <3>4. IsFiniteSet(1..n + 1) /\ Cardinality(1..n + 1) = n + 1
      <4>1. 1 \in Int /\ n + 1 \in Int /\ ~(1 > n + 1) /\ n + 1 - 1 + 1 = n + 1
        BY <2>2
      <4> QED BY <4>1, FS_Interval
    <3>5. n < n + 1
      BY <2>2
    <3> HIDE DEF n, Numbered
    <3>6. PICK i, j \in 1..n + 1 : i # j /\ f[i] = f[j]
      <4>1. Cardinality(taken) < Cardinality(1..n + 1)
        BY <3>4, <3>5 DEF n
      <4> QED BY <3>3, <3>4, <4>1, FS_PigeonHole
    <3>7. i \in Nat /\ j \in Nat /\ f[i] = Key(Numbered(i)) /\ f[j] = Key(Numbered(j))
      BY <2>2, <3>2
    <3>8. \A m \in Nat : Key(Numbered(m))[Len(p) + 1] = Numeral(m)
      <4>1. ASSUME NEW m \in Nat PROVE Key(Numbered(m))[Len(p) + 1] = Numeral(m)
        <5>1. Numeral(m) \in Parts /\ Numeral(m) \notin {Sep2, "Data"}
          BY DEF Numerals, Seps
        <5>2. /\ Numbered(m) \in Path /\ Len(Numbered(m)) = Len(p) + 1
              /\ Numbered(m)[Len(p) + 1] = Numeral(m)
          BY <5>1, OneMore DEF Numbered
        <5>3. Len(p) + 1 \in 1..Len(Numbered(m))
          BY <5>2, PathParts
        <5> QED BY <5>1, <5>2, <5>3, KeyParts
      <4> QED BY <4>1
    <3> QED BY <3>6, <3>7, <3>8 DEF Numerals
  <2>4. PICK S : S = {i \in 1..n + 1 : Free(i)}
    OBVIOUS
  <2> HIDE DEF Free, n
  <2>5. S \subseteq Nat /\ S # {}
    BY <2>2, <2>3, <2>4
  <2>6. PICK i \in S : \A j \in S : i <= j
    BY <2>5, Least
  <2>7. i \in 1..n + 1 /\ Free(i) /\ \A j \in 1..i - 1 : ~Free(j)
    BY <2>2, <2>4, <2>5, <2>6
  <2>8. PICK c : c = CHOOSE k \in 1..n + 1 : Free(k) /\ \A j \in 1..k - 1 : ~Free(j)
    OBVIOUS
  <2>9. c \in 1..n + 1 /\ Free(c)
    BY <2>7, <2>8
  <2>10. c \in Nat
    BY <2>2, <2>9
  <2>11. RightPath(taken, p) = Numbered(c)
    BY <2>1, <2>8
  <2> QED BY <2>9, <2>10, <2>11 DEF Free
<1> QED BY <1>1, <1>2

\* The name that is found has what was asked for in front, and behind no separator
\* that was not asked for.
LEMMA RightPathNamed ==
  ASSUME Numerals, NEW taken, IsFiniteSet(taken), NEW p \in Path, Named(p)
  PROVE  LET r == RightPath(taken, p) IN
         /\ r \in Path /\ Key(r) \notin taken /\ Named(r) /\ Len(r) >= Len(p)
         /\ \A i \in 1..Len(p) : r[i] = p[i]
         /\ \A i \in Len(p) + 1..Len(r) : r[i] \notin Seps
<1>1. PICK r : r = RightPath(taken, p)
  OBVIOUS
<1>2. Key(r) \notin taken /\ (r = p \/ \E i \in Nat : r = p \o <<Numeral(i)>>)
  BY <1>1, RightPathIs
<1>3. Len(p) \in Nat
  BY PathParts
<1>4. CASE r = p
  BY <1>1, <1>2, <1>3, <1>4
<1>5. ASSUME NEW i \in Nat, r = p \o <<Numeral(i)>>
      PROVE  /\ r \in Path /\ Named(r) /\ Len(r) >= Len(p)
             /\ \A j \in 1..Len(p) : r[j] = p[j]
             /\ \A j \in Len(p) + 1..Len(r) : r[j] \notin Seps
  <2>1. Numeral(i) \in Parts /\ Numeral(i) \notin Seps
    BY DEF Numerals
  <2>2. /\ r \in Path /\ Len(r) = Len(p) + 1
        /\ \A j \in 1..Len(p) : r[j] = p[j]
        /\ r[Len(p) + 1] = Numeral(i)
    BY <1>5, <2>1, OneMore
  <2>3. r # <<>>
    BY <1>3, <2>2
  <2>4. \A j \in Len(p) + 1..Len(r) : r[j] \notin Seps
    <3>1. \A j \in Len(p) + 1..Len(r) : j = Len(p) + 1
      BY <1>3, <2>2
    <3> QED BY <2>1, <2>2, <3>1
  <2>5. Named(r)
    BY <2>1, <2>2, <2>3 DEF Named, Seps
  <2> QED BY <1>3, <2>2, <2>4, <2>5
<1> QED BY <1>1, <1>2, <1>4, <1>5

\* The last name of a path that has one.
LEMMA NamePlain ==
  ASSUME NEW p \in Path, Named(p)
  PROVE  Plain(NameOf(p))
<1>1. Len(p) \in Nat /\ Len(p) # 0
  BY PathParts, EmptySeq DEF Named, Path
<1>2. /\ LastSep(p) \in 0..Len(p) /\ (LastSep(p) = 0 \/ p[LastSep(p)] \in Seps)
      /\ \A j \in LastSep(p) + 1..Len(p) : p[j] \notin Seps
  BY LastSepIs
<1>3. LastSep(p) # Len(p)
  BY <1>1, <1>2 DEF Named, Seps
<1>4. PICK l, x : l = LastSep(p) /\ x = SubSeq(p, l + 1, Len(p))
  OBVIOUS
<1>5. l \in Nat /\ l < Len(p)
  BY <1>1, <1>2, <1>3, <1>4
<1>6. l + 1 \in 1..Len(p) + 1 /\ Len(p) \in Int /\ l + 1 - 1 <= Len(p) /\ Len(p) - (l + 1) + 1 = Len(p) - l
  BY <1>1, <1>5
<1>7. /\ x \in Path /\ Len(x) = Len(p) - (l + 1) + 1
      /\ \A i \in 1..Len(p) - (l + 1) + 1 : x[i] = p[l + 1 + i - 1]
  BY <1>4, <1>6, PieceParts
<1>8. ASSUME NEW i \in 1..Len(x) PROVE x[i] \notin Seps
  <2>1. i \in 1..Len(p) - (l + 1) + 1 /\ l + 1 + i - 1 \in l + 1..Len(p)
    BY <1>1, <1>5, <1>6, <1>7
  <2>2. x[i] = p[l + 1 + i - 1]
    BY <1>7, <2>1
  <2> QED BY <1>2, <1>4, <2>1, <2>2
<1>9. x # <<>>
  BY <1>1, <1>5, <1>6, <1>7
<1>10. Plain(x)
  BY <1>7, <1>8, <1>9 DEF Plain
<1> QED BY <1>4, <1>10 DEF NameOf

\* A name below a folder.
LEMMA NameBelow ==
  ASSUME NEW q \in Path, NEW x \in Path, Named(x)
  PROVE  /\ q \o x \in Path /\ Named(q \o x) /\ Len(q \o x) > Len(q)
         /\ \A i \in 1..Len(q) : (q \o x)[i] = q[i]
<1>1. Len(x) \in Nat /\ Len(x) # 0 /\ Len(q) \in Nat
  BY PathParts, EmptySeq DEF Named, Path
<1>2. PICK r : r = q \o x
  OBVIOUS
<1>3. /\ r \in Path /\ Len(r) = Len(q) + Len(x)
      /\ \A i \in 1..Len(q) : r[i] = q[i]
      /\ \A i \in 1..Len(x) : r[Len(q) + i] = x[i]
  BY <1>2, JoinParts
<1>4. Len(x) \in 1..Len(x)
  BY <1>1
<1>5. r[Len(r)] = x[Len(x)]
  BY <1>3, <1>4
<1>6. r # <<>> /\ Len(r) > Len(q)
  BY <1>1, <1>3
<1>7. Named(r)
  BY <1>5, <1>6 DEF Named
<1> QED BY <1>2, <1>3, <1>6, <1>7

\* A name names something.
LEMMA PlainNamed ==
  ASSUME NEW x, Plain(x)
  PROVE  x \in Path /\ Named(x)
<1>1. x \in Path /\ Len(x) \in Nat /\ Len(x) # 0
  BY PathParts, EmptySeq DEF Plain, Path
<1>2. Len(x) \in 1..Len(x)
  BY <1>1
<1> QED BY <1>1, <1>2 DEF Plain, Named, Seps

-----------------------------------------------------------------------------
(* String.Replace *)

\* How String.Replace goes through a path: `up' is where it goes on.
ReplacesBy(p, old, new, from, up) ==
    /\ Grows(1..Len(p) + 1, Len(p) + 1, up)
    /\ \A i \in 1..Len(p) :
         /\ up[i] = IF OccursAt(p, i, old) THEN i + Len(old) ELSE i + 1
         /\ up[i] \in 1..Len(p) + 1 /\ up[i] > i
    /\ Replaced(p, old, new) = from[1]
    /\ from[Len(p) + 1] = <<>>
    /\ \A i \in 1..Len(p) :
         from[i] = IF OccursAt(p, i, old) THEN new \o from[up[i]] ELSE <<p[i]>> \o from[up[i]]

\* It goes through it to the end.
LEMMA ReplacedSteps ==
  ASSUME NEW p \in Path, NEW old \in Path, old # <<>>, NEW new \in Path
  PROVE  \E from, up : ReplacesBy(p, old, new, from, up)
<1>1. Len(p) \in Nat /\ Len(old) \in Nat /\ Len(old) # 0 /\ \A i \in 1..Len(p) : p[i] \in Parts
  BY PathParts, EmptySeq DEF Path
<1>2. PICK n, D : n = Len(p) /\ D = 1..n + 1
  OBVIOUS
<1>3. \A i \in 1..n : OccursAt(p, i, old) => i + Len(old) \in D
  <2>1. ASSUME NEW i \in 1..n, OccursAt(p, i, old) PROVE i + Len(old) \in D
    <3>1. i \in 1..Len(p) + 1 /\ Len(p) \in Int /\ i - 1 <= Len(p) /\ Len(p) <= Len(p)
      BY <1>1, <1>2
    <3>2. Len(SubSeq(p, i, Len(p))) = Len(p) - i + 1
      BY <3>1, PieceParts
    <3>3. Len(old) <= Len(p) - i + 1
      BY <2>1, <3>2 DEF OccursAt, IsPrefix
    <3> QED BY <1>1, <1>2, <3>3
  <2> QED BY <2>1
<1>4. PICK up : up = [i \in D |-> IF OccursAt(p, i, old) THEN i + Len(old) ELSE i + 1]
  OBVIOUS
<1>5. \A i \in 1..n : up[i] \in D /\ up[i] > i /\ i \in D
  BY <1>1, <1>2, <1>3, <1>4
<1>6. Grows(D, n + 1, up)
  <2>1. n + 1 \in D /\ \A i \in D \ {n + 1} : up[i] \in D
    BY <1>1, <1>2, <1>5
  <2>2. ASSUME NEW C \in SUBSET (D \ {n + 1}), \A i \in C : up[i] \in C PROVE C = {}
    <3>1. SUFFICES ASSUME C # {} PROVE FALSE
      OBVIOUS
    <3>2. PICK S : S = {m \in Nat : \E i \in C : m = n - i}
      OBVIOUS
    <3>3. \A i \in C : i \in 1..n /\ n - i \in S
      BY <1>1, <1>2, <3>2
    <3>4. PICK m \in S : \A k \in S : m <= k
      BY <3>1, <3>2, <3>3, Least
    <3>5. PICK i \in C : m = n - i
      BY <3>2
    <3>6. i \in 1..n /\ up[i] \in C /\ up[i] > i /\ n - up[i] \in S /\ up[i] \in 1..n
      BY <1>5, <2>2, <3>3
    <3> QED BY <1>1, <1>2, <3>4, <3>5, <3>6
  <2> QED BY <2>1, <2>2 DEF Grows
<1>7. PICK base, step :
        /\ base = <<>>
        /\ step = [x \in Path \X D |-> IF x[2] > n THEN x[1]
                                       ELSE IF OccursAt(p, x[2], old) THEN new \o x[1]
                                       ELSE <<p[x[2]]>> \o x[1]]
  OBVIOUS
<1>8. base \in Path /\ step \in [Path \X D -> Path]
  <2>1. base \in Path
    BY <1>7 DEF Path
  <2>2. \A q \in Path : new \o q \in Path
    BY JoinParts
  <2>3. \A q \in Path : \A i \in 1..n : <<p[i]>> \o q \in Path
    <3>1. ASSUME NEW q \in Path, NEW i \in 1..n PROVE <<p[i]>> \o q \in Path
      <4>1. <<p[i]>> \in Path
        BY <1>1, <1>2, OnePart
      <4> QED BY <4>1, JoinParts
    <3> QED BY <3>1
  <2>4. ASSUME NEW x \in Path \X D PROVE step[x] \in Path
    <3>1. x[1] \in Path /\ x[2] \in D /\ (~(x[2] > n) => x[2] \in 1..n)
      BY <1>1, <1>2
    <3> QED BY <1>7, <2>2, <2>3, <3>1
  <2> QED BY <1>7, <2>1, <2>4
<1>9. PICK f \in [D -> Path] : Computes(f, D, n + 1, up, base, step)
  BY <1>6, <1>8, SolutionExists
<1>10. \A i \in D : f[i] = IF i > n THEN <<>>
                           ELSE IF OccursAt(p, i, old) THEN new \o f[i + Len(old)]
                           ELSE <<p[i]>> \o f[i + 1]
  <2>1. ASSUME NEW i \in D, i > n PROVE f[i] = <<>>
    <3>1. i = n + 1
      BY <1>1, <1>2, <2>1
    <3>2. f[i] = base
      BY <1>9, <3>1 DEF Computes
    <3> QED BY <1>7, <3>2
  <2>2. ASSUME NEW i \in D, ~(i > n)
        PROVE  f[i] = IF OccursAt(p, i, old) THEN new \o f[i + Len(old)] ELSE <<p[i]>> \o f[i + 1]
    <3>1. i \in 1..n /\ i # n + 1
      BY <1>1, <1>2, <2>2
    <3>2. f[i] = step[<<f[up[i]], i>>] /\ up[i] \in D /\ f[up[i]] \in Path
      BY <1>5, <1>9, <3>1 DEF Computes
    <3>3. step[<<f[up[i]], i>>] = IF OccursAt(p, i, old) THEN new \o f[up[i]] ELSE <<p[i]>> \o f[up[i]]
      BY <1>7, <2>2, <3>2
    <3> QED BY <1>4, <3>2, <3>3
  <2> QED BY <2>1, <2>2
<1>11. PICK from : from = CHOOSE g : g = [i \in 1..Len(p) + 1 |->
            IF i > Len(p) THEN <<>>
            ELSE IF OccursAt(p, i, old) THEN new \o g[i + Len(old)]
            ELSE <<p[i]>> \o g[i + 1]]
  OBVIOUS
<1>12. Replaced(p, old, new) = from[1]
  BY <1>11 DEF Replaced
<1>13. f = [i \in 1..Len(p) + 1 |->
            IF i > Len(p) THEN <<>>
            ELSE IF OccursAt(p, i, old) THEN new \o f[i + Len(old)]
            ELSE <<p[i]>> \o f[i + 1]]
  BY <1>2, <1>9, <1>10
<1>14. from = [i \in 1..Len(p) + 1 |->
            IF i > Len(p) THEN <<>>
            ELSE IF OccursAt(p, i, old) THEN new \o from[i + Len(old)]
            ELSE <<p[i]>> \o from[i + 1]]
  BY <1>11, <1>13
<1>15. \A i \in D : from[i] = IF i > n THEN <<>>
                              ELSE IF OccursAt(p, i, old) THEN new \o from[i + Len(old)]
                              ELSE <<p[i]>> \o from[i + 1]
  BY <1>2, <1>14
<1>16. from[n + 1] = <<>> /\ \A i \in 1..n :
         from[i] = IF OccursAt(p, i, old) THEN new \o from[up[i]] ELSE <<p[i]>> \o from[up[i]]
  <2>1. n + 1 \in D /\ n + 1 > n
    BY <1>1, <1>2
  <2>2. ASSUME NEW i \in 1..n
        PROVE  from[i] = IF OccursAt(p, i, old) THEN new \o from[up[i]] ELSE <<p[i]>> \o from[up[i]]
    <3>1. i \in D /\ ~(i > n)
      BY <1>1, <1>2, <2>2
    <3> QED BY <1>4, <1>15, <3>1
  <2> QED BY <1>15, <2>1, <2>2
<1>17. ReplacesBy(p, old, new, from, up)
  BY <1>2, <1>4, <1>5, <1>6, <1>12, <1>16 DEF ReplacesBy
<1> QED BY <1>17


\* What comes of a path when a path in it is replaced by a path is a path.
LEMMA ReplacedPath ==
  ASSUME NEW p \in Path, NEW old \in Path, old # <<>>, NEW new \in Path
  PROVE  Replaced(p, old, new) \in Path
<1>1. Len(p) \in Nat /\ \A i \in 1..Len(p) : p[i] \in Parts
  BY PathParts
<1>2. PICK from, up : ReplacesBy(p, old, new, from, up)
  BY ReplacedSteps
<1>3. PICK n, D : n = Len(p) /\ D = 1..n + 1
  OBVIOUS
<1>4. PICK C : C = {i \in D : from[i] \notin Path}
  OBVIOUS
<1>5. from[n + 1] \in Path
  <2>1. from[n + 1] = <<>>
    BY <1>2, <1>3 DEF ReplacesBy
  <2> QED BY <2>1 DEF Path
<1>6. ASSUME NEW i \in C PROVE i # n + 1 /\ up[i] \in C
  <2>1. i \in 1..n
    BY <1>1, <1>3, <1>4, <1>5, <1>6
  <2>2. /\ up[i] \in D
        /\ from[i] = IF OccursAt(p, i, old) THEN new \o from[up[i]] ELSE <<p[i]>> \o from[up[i]]
    BY <1>2, <1>3, <2>1 DEF ReplacesBy
  <2>3. <<p[i]>> \in Path
    BY <1>1, <1>3, <2>1, OnePart
  <2>4. from[up[i]] \in Path => from[i] \in Path
    BY <2>2, <2>3, JoinParts
  <2> QED BY <1>1, <1>3, <1>4, <2>1, <2>2, <2>4
<1>7. C = {}
  <2>1. C \in SUBSET (D \ {n + 1})
    BY <1>4, <1>6
  <2> QED BY <1>2, <1>3, <1>6, <2>1 DEF ReplacesBy, Grows
<1>8. 1 \in D
  BY <1>1, <1>3
<1> QED BY <1>2, <1>4, <1>7, <1>8 DEF ReplacesBy

-----------------------------------------------------------------------------
(* Legal paths *)

\* Legal paths in a row, and a piece of one.
LEMMA LegalJoin ==
  ASSUME NEW p \in Path, Legal(p), NEW q \in Path, Legal(q)
  PROVE  Legal(p \o q)
<1>1. PICK r : r = p \o q
  OBVIOUS
<1>2. /\ r \in Path /\ Len(r) = Len(p) + Len(q) /\ Len(p) \in Nat /\ Len(q) \in Nat
      /\ DOMAIN r = 1..Len(r) /\ DOMAIN p = 1..Len(p) /\ DOMAIN q = 1..Len(q)
      /\ \A i \in 1..Len(p) : r[i] = p[i]
      /\ \A i \in 1..Len(q) : r[Len(p) + i] = q[i]
  BY <1>1, JoinParts, PathParts
<1>3. ASSUME NEW i \in 1..Len(r) PROVE r[i] # Bad
  <2>1. CASE i <= Len(p)
    <3>1. i \in 1..Len(p)
      BY <1>2, <1>3, <2>1
    <3> QED BY <1>2, <3>1 DEF Legal
  <2>2. CASE i > Len(p)
    <3>1. i - Len(p) \in 1..Len(q) /\ Len(p) + (i - Len(p)) = i
      BY <1>2, <1>3, <2>2
    <3>2. r[i] = q[i - Len(p)]
      BY <1>2, <3>1
    <3> QED BY <1>2, <3>1, <3>2 DEF Legal
  <2> QED BY <1>2, <1>3, <2>1, <2>2
<1> QED BY <1>1, <1>2, <1>3 DEF Legal

\* So are the pieces of a legal path.
LEMMA LegalPiece ==
  ASSUME NEW p \in Path, Legal(p), NEW m \in 1..Len(p) + 1, NEW n \in Int, m - 1 <= n, n <= Len(p)
  PROVE  Legal(SubSeq(p, m, n))
<1>1. PICK s : s = SubSeq(p, m, n)
  OBVIOUS
<1>2. /\ s \in Path /\ Len(s) = n - m + 1 /\ DOMAIN s = 1..Len(s) /\ Len(p) \in Nat
      /\ DOMAIN p = 1..Len(p)
      /\ \A i \in 1..n - m + 1 : s[i] = p[m + i - 1]
  BY <1>1, PieceParts, PathParts
<1>3. ASSUME NEW i \in 1..Len(s) PROVE s[i] # Bad
  <2>1. m + i - 1 \in 1..Len(p) /\ i \in 1..n - m + 1
    BY <1>2, <1>3
  <2>2. s[i] = p[m + i - 1]
    BY <1>2, <2>1
  <2> QED BY <1>2, <2>1, <2>2 DEF Legal
<1> QED BY <1>1, <1>2, <1>3 DEF Legal

\* A path is as legal as its key.
LEMMA LegalKey ==
  ASSUME NEW p \in Path
  PROVE  Legal(Key(p)) <=> Legal(p)
<1>1. PICK k : k = Key(p)
  OBVIOUS
<1>2. DOMAIN k = DOMAIN p
  BY <1>1 DEF Key
<1>3. "data" # Bad /\ Sep # Bad /\ Sep2 # Bad /\ "Data" # Bad
  BY DEF Bad, Sep, Sep2
<1>4. ASSUME NEW i \in DOMAIN p PROVE k[i] = Bad <=> p[i] = Bad
  <2>1. k[i] = CASE p[i] = Sep2 -> Sep [] p[i] = "Data" -> "data" [] OTHER -> p[i]
    BY <1>1 DEF Key
  <2>2. CASE p[i] = Sep2
    <3>1. Sep2 # "Data"
      BY SepFacts
    <3> QED BY <1>3, <2>1, <2>2, <3>1
  <2>3. CASE p[i] = "Data"
    <3>1. Sep2 # "Data"
      BY SepFacts
    <3> QED BY <1>3, <2>1, <2>3, <3>1
  <2>4. CASE p[i] # Sep2 /\ p[i] # "Data"
    BY <2>1, <2>4
  <2> QED BY <2>2, <2>3, <2>4
<1> QED BY <1>1, <1>2, <1>4 DEF Legal

\* The last name of a legal path is legal.
LEMMA LegalName ==
  ASSUME NEW p \in Path, Legal(p)
  PROVE  Legal(NameOf(p))
<1>1. Len(p) \in Nat /\ LastSep(p) \in 0..Len(p)
  BY PathParts, LastSepIs
<1>2. LastSep(p) + 1 \in 1..Len(p) + 1 /\ Len(p) \in Int /\ LastSep(p) + 1 - 1 <= Len(p) /\ Len(p) <= Len(p)
  BY <1>1
<1> QED BY <1>2, LegalPiece DEF NameOf

\* Words and separators are legal.
LEMMA LegalParts ==
  ASSUME NEW x \in Parts, x # Bad
  PROVE  Legal(<<x>>) /\ <<x>> \in Path
<1>1. PICK e : e = <<x>>
  OBVIOUS
<1>2. DOMAIN e = 1..1 /\ e[1] = x /\ \A i \in 1..1 : i = 1
  BY <1>1
<1> QED BY <1>1, <1>2, OnePart DEF Legal

-----------------------------------------------------------------------------
(* The disk *)

Within(k, d) == k = d \/ Inside(k, d)

\* No folder has a number to come for the random name of a folder under way.
Unused(k, c) ==
    \A i \in Nat : i >= c /\ Len(k) >= 2 /\ k[1] = "random" => k[2] # Numeral(i)

DiskInv(fs, ds, c) ==
    /\ IsFiniteSet(fs) /\ IsFiniteSet(ds)
    /\ IsDisk(fs, ds)
    /\ \A k \in fs \cup ds : IsKey(k) /\ Named(k)
    /\ \A k \in ds : Unused(k, c)
    /\ ds # {} => ProjectDir \in ds

\* What names something is not empty.
LEMMA NamedLen ==
  ASSUME NEW p \in Path, Named(p)
  PROVE  Len(p) \in Nat /\ Len(p) >= 1 /\ Len(p) \in 1..Len(p)
<1>1. Len(p) \in Nat /\ Len(p) # 0
  BY PathParts, EmptySeq DEF Named, Path
<1> QED BY <1>1

\* The key of a name is a name.
LEMMA KeyNamed ==
  ASSUME NEW p \in Path, Named(p)
  PROVE  Named(Key(p))
<1>1. Len(p) \in Nat /\ Len(p) >= 1 /\ Len(p) \in 1..Len(p)
  BY NamedLen
<1>2. /\ IsKey(Key(p)) /\ Key(p) \in Path /\ Len(Key(p)) = Len(p)
      /\ Key(p)[Len(p)] = Sep <=> p[Len(p)] \in Seps
  BY <1>1, KeyParts
<1>3. Key(p)[Len(p)] \notin Seps
  <2>1. DOMAIN Key(p) = 1..Len(p)
    BY <1>2, PathParts
  <2>2. Key(p)[Len(p)] # Sep2
    BY <1>1, <1>2, <2>1 DEF IsKey
  <2> QED BY <1>2, <2>2 DEF Named, Seps
<1>4. Key(p) # <<>>
  BY <1>1, <1>2
<1> QED BY <1>2, <1>3, <1>4 DEF Named, Seps

\* A file and what lies inside a folder have a separator.
LEMMA FileInDir ==
  ASSUME NEW fs, NEW ds, NEW c, DiskInv(fs, ds, c), NEW k \in fs
  PROVE  LastSep(k) # 0 /\ DirOf(k) \in ds
<1>1. k \in Path /\ DirOf(k) \in ds
  BY DEF DiskInv, IsDisk, IsKey, Path
<1>2. DirOf(k) # <<>>
  BY <1>1 DEF DiskInv, Named
<1> QED BY <1>1, <1>2, DirParts

\* Files where files can be created make the disk no less a disk ...
LEMMA FilesAdded ==
  ASSUME NEW fs, NEW ds, NEW c, DiskInv(fs, ds, c),
         NEW K, IsFiniteSet(K), \A k \in K : \E p \in Path : k = Key(p) /\ Writable(ds, p)
  PROVE  DiskInv(fs \cup K, ds, c)
<1>1. \A k \in K : IsKey(k) /\ Named(k) /\ DirOf(k) \in ds /\ k \notin ds
  BY KeyParts, KeyNamed DEF Writable
<1>2. IsFiniteSet(fs \cup K)
  BY FS_Union DEF DiskInv
<1>3. IsDisk(fs \cup K, ds)
  BY <1>1 DEF DiskInv, IsDisk
<1>4. \A k \in (fs \cup K) \cup ds : IsKey(k) /\ Named(k)
  BY <1>1 DEF DiskInv
<1> QED BY <1>2, <1>3, <1>4 DEF DiskInv

\* ... and fewer files neither, and another click.
LEMMA FilesFewer ==
  ASSUME NEW fs, NEW ds, NEW c, DiskInv(fs, ds, c), NEW gs, gs \subseteq fs
  PROVE  DiskInv(gs, ds, c)
<1>1. IsFiniteSet(gs)
  BY FS_Subset DEF DiskInv
<1> QED BY <1>1 DEF DiskInv, IsDisk

\* The random names of later steps are still unused.
LEMMA LaterUnused ==
  ASSUME NEW fs, NEW ds, NEW c \in Nat, DiskInv(fs, ds, c)
  PROVE  DiskInv(fs, ds, c + 1)
<1>1. ASSUME NEW k \in ds PROVE Unused(k, c + 1)
  <2>1. Unused(k, c)
    BY DEF DiskInv
  <2>2. \A i \in Nat : i >= c + 1 => i >= c
    OBVIOUS
  <2> QED BY <2>1, <2>2 DEF Unused
<1> QED BY <1>1 DEF DiskInv

\* A folder goes with all that is in it.
LEMMA FolderGone ==
  ASSUME NEW fs, NEW ds, NEW c, DiskInv(fs, ds, c), NEW d \in Path, Len(d) > 1,
         NEW gone, gone = {k \in fs \cup ds : Within(k, d)}
  PROVE  DiskInv(fs \ gone, ds \ gone, c)
<1>1. IsFiniteSet(fs \ gone) /\ IsFiniteSet(ds \ gone)
  BY FS_Subset DEF DiskInv
<1>2. ASSUME NEW k \in fs \cup ds, k \notin gone, LastSep(k) # 0
      PROVE  DirOf(k) \notin gone
  <2>1. IsKey(k) /\ ~Within(k, d)
    BY <1>2 DEF DiskInv
  <2>2. ~Within(DirOf(k), d)
    BY <1>2, <2>1, DirInside DEF Within
  <2> QED BY <2>2
<1>3. IsDisk(fs \ gone, ds \ gone)
  <2>1. ASSUME NEW k \in fs \ gone PROVE DirOf(k) \in ds \ gone /\ k \notin ds \ gone
    BY <1>2, FileInDir DEF DiskInv, IsDisk
  <2>2. ASSUME NEW k \in ds \ gone, LastSep(k) # 0 PROVE DirOf(k) \in ds \ gone
    BY <1>2, <2>2 DEF DiskInv, IsDisk
  <2> QED BY <2>1, <2>2 DEF IsDisk
<1>4. ProjectDir \notin gone
  <2>1. ProjectDir \in Path /\ Len(ProjectDir) = 1
    BY SepFacts, OnePart DEF ProjectDir
  <2>2. Len(d) \in Nat /\ Len(d) # 1 /\ ~(Len(d) < 1)
    <3>1. PICK l : l = Len(d)
      OBVIOUS
    <3>2. l \in Nat /\ l > 1
      BY <3>1, PathParts
    <3>3. l # 1 /\ ~(l < 1)
      BY <3>2
    <3> QED BY <3>1, <3>2, <3>3
  <2>3. ASSUME NEW p \in Path, Len(p) = 1 PROVE ~Within(p, d)
    <3>1. ~(Len(d) < Len(p)) /\ Len(p) # Len(d)
      BY <2>2, <2>3
    <3>2. ~Inside(p, d)
      BY <3>1, InsideParts
    <3> QED BY <3>1, <3>2 DEF Within
  <2> QED BY <2>1, <2>3
<1> QED BY <1>1, <1>3, <1>4 DEF DiskInv

\* The folder above one is a folder.
LEMMA DirAbove ==
  ASSUME NEW fs, NEW ds, NEW c, DiskInv(fs, ds, c), NEW k \in fs \cup ds, LastSep(k) # 0
  PROVE  DirOf(k) \in ds
  BY DEF DiskInv, IsDisk

\* Where nothing is, nothing is inside; a folder that moves away does not count.
LEMMA NothingInside ==
  ASSUME NEW fs, NEW ds, NEW c, DiskInv(fs, ds, c), NEW from \in Path, NEW to \in Path,
         to \in fs \cup ds => Within(to, from)
  PROVE  \A k \in fs \cup ds : ~Within(k, from) => ~Within(k, to)
<1>1. SUFFICES ASSUME NEW k0 \in fs \cup ds, ~Within(k0, from), Within(k0, to)
               PROVE  FALSE
  OBVIOUS
<1>2. PICK S : S = {m \in Nat : \E k \in fs \cup ds : ~Within(k, from) /\ Within(k, to) /\ m = Len(k)}
  OBVIOUS
<1>3. \A k \in fs \cup ds : IsKey(k) /\ k \in Path /\ Len(k) \in Nat
  BY PathParts DEF DiskInv, IsKey, Path
<1>4. S # {}
  BY <1>1, <1>2, <1>3
<1>5. PICK m \in S : \A l \in S : m <= l
  BY <1>2, <1>4, Least
<1>6. PICK k \in fs \cup ds : ~Within(k, from) /\ Within(k, to) /\ m = Len(k)
  BY <1>2
<1>7. k # to
  BY <1>6
<1>8. LastSep(k) # 0 /\ Within(DirOf(k), to)
  BY <1>3, <1>6, <1>7, DirInside DEF Within
<1>9. DirOf(k) \in ds
  BY <1>8, DirAbove
<1>10. ~Within(DirOf(k), from)
  BY <1>3, <1>6, <1>8, DirInside DEF Within
<1>11. Len(DirOf(k)) < Len(k) /\ Len(DirOf(k)) \in Nat
  BY <1>3, <1>8, <1>9, KeyInDir
<1>12. Len(DirOf(k)) \in S
  BY <1>2, <1>8, <1>9, <1>10, <1>11
<1> QED BY <1>5, <1>6, <1>11, <1>12

\* What lies at `from' or inside it, at `to'.
LEMMA RelocatedIs ==
  ASSUME NEW k, IsKey(k), Named(k), NEW from, IsKey(from), NEW to, IsKey(to), Named(to),
         Within(k, from), NEW r, r = Relocated(k, from, to)
  PROVE  /\ IsKey(r) /\ Named(r) /\ Within(r, to)
         /\ Relocated(r, to, from) = k
         /\ k # from => /\ LastSep(k) # 0 /\ LastSep(r) # 0 /\ Inside(k, from)
                        /\ DirOf(r) = Relocated(DirOf(k), from, to)
<1>1. k \in Path /\ from \in Path /\ to \in Path
  BY DEF IsKey, Path
<1>2. PICK m, n, l : m = Len(from) /\ n = Len(k) /\ l = Len(to)
  OBVIOUS
<1>3. /\ m \in Nat /\ n \in Nat /\ l \in Nat /\ n >= 1 /\ l >= 1 /\ m <= n
      /\ DOMAIN k = 1..n /\ DOMAIN to = 1..l
  BY <1>1, <1>2, PathParts, NamedLen, InsideParts DEF Within
<1>4. \A i \in 1..m : k[i] = from[i]
  BY <1>1, <1>2, InsideParts DEF Within
<1>5. r = to \o SubSeq(k, m + 1, n)
  BY <1>2 DEF Relocated, Within
<1>6. PICK s : s = SubSeq(k, m + 1, n)
  OBVIOUS
<1>7. s \in Path /\ Len(s) = n - m /\ \A i \in 1..n - m : s[i] = k[m + i]
  <2>1. m + 1 \in 1..Len(k) + 1 /\ n \in Int /\ m + 1 - 1 <= n /\ n <= Len(k)
    BY <1>2, <1>3
  <2>2. s \in Path /\ Len(s) = n - (m + 1) + 1 /\ \A i \in 1..n - (m + 1) + 1 : s[i] = k[m + 1 + i - 1]
    BY <1>1, <1>2, <1>6, <2>1, PieceParts
  <2>3. n - (m + 1) + 1 = n - m /\ \A i \in 1..n - m : m + 1 + i - 1 = m + i
    BY <1>3
  <2> QED BY <2>2, <2>3
<1>8. /\ r \in Path /\ Len(r) = l + (n - m)
      /\ \A i \in 1..l : r[i] = to[i]
      /\ \A i \in 1..n - m : r[l + i] = k[m + i]
  <2>1. /\ r \in Path /\ Len(r) = Len(to) + Len(s)
        /\ \A i \in 1..Len(to) : r[i] = to[i]
        /\ \A i \in 1..Len(s) : r[Len(to) + i] = s[i]
    <3>1. r = to \o s
      BY <1>5, <1>6
    <3>2. to \in Path /\ s \in Path
      BY <1>1, <1>7
    <3>3. /\ to \o s \in Path /\ Len(to \o s) = Len(to) + Len(s)
          /\ \A i \in 1..Len(to) : (to \o s)[i] = to[i]
          /\ \A i \in 1..Len(s) : (to \o s)[Len(to) + i] = s[i]
      BY <3>2, JoinParts
    <3> QED BY <3>1, <3>3
  <2> QED BY <1>2, <1>7, <2>1
<1>9. DOMAIN r = 1..Len(r) /\ Len(r) \in Nat
  BY <1>8, PathParts
<1>10. \A i \in 1..Len(r) : i \in 1..l \/ \E j \in 1..n - m : i = l + j
  <2>1. ASSUME NEW i \in 1..Len(r), i \notin 1..l PROVE i - l \in 1..n - m /\ i = l + (i - l)
    BY <1>3, <1>8, <2>1
  <2> QED BY <2>1
<1>11. \A j \in 1..n - m : m + j \in 1..n
  BY <1>3
<1>12. IsKey(r)
  <2>1. \A i \in 1..l : to[i] \notin {Sep2, "Data"}
    BY <1>3 DEF IsKey
  <2>2. \A i \in 1..n : k[i] \notin {Sep2, "Data"}
    BY <1>3 DEF IsKey
  <2>3. \A i \in 1..Len(r) : r[i] \notin {Sep2, "Data"}
    BY <1>8, <1>10, <1>11, <2>1, <2>2
  <2> QED BY <1>8, <1>9, <2>3 DEF IsKey, Path
<1>13. Named(r)
  <2>1. CASE n = m
    <3>1. Len(r) = l /\ r[l] = to[l]
      BY <1>3, <1>8, <2>1
    <3> QED BY <1>2, <1>3, <3>1 DEF Named
  <2>2. CASE n # m
    <3>1. n - m \in 1..n - m /\ m + (n - m) = n /\ Len(r) = l + (n - m)
      BY <1>3, <1>8, <2>2
    <3>2. r[Len(r)] = k[n]
      BY <1>8, <3>1
    <3>3. r # <<>>
      BY <1>3, <1>8
    <3> QED BY <1>2, <3>2, <3>3 DEF Named
  <2> QED BY <2>1, <2>2
<1>14. Inside(k, from) <=> k # from
  <2>1. Inside(k, from) => k # from
    BY <1>1, <1>2, <1>3, InsideParts
  <2> QED BY <2>1 DEF Within
<1>15. k # from => n > m /\ k[m + 1] = Sep
  BY <1>1, <1>2, <1>14, InsideParts
<1>16. k = from => n = m
  BY <1>2
<1>17. Within(r, to)
  <2>1. CASE k = from
    <3>1. r = to
      BY <1>1, <1>2, <1>3, <1>8, <1>16, <2>1, SamePath
    <3> QED BY <3>1 DEF Within
  <2>2. CASE k # from
    <3>1. 1 \in 1..n - m /\ l < Len(r)
      BY <1>3, <1>8, <1>15, <2>2
    <3>2. r[l + 1] = Sep
      BY <1>8, <1>15, <2>2, <3>1
    <3>3. Inside(r, to)
      BY <1>1, <1>2, <1>8, <3>1, <3>2, InsideParts
    <3> QED BY <3>3 DEF Within
  <2> QED BY <2>1, <2>2
<1>18. Relocated(r, to, from) = k
  <2>1. PICK b : b = SubSeq(r, l + 1, Len(r))
    OBVIOUS
  <2>2. Relocated(r, to, from) = from \o b
    BY <1>2, <1>17, <2>1 DEF Relocated, Within
  <2>3. b \in Path /\ Len(b) = n - m /\ \A i \in 1..n - m : b[i] = r[l + i]
    <3>1. l + 1 \in 1..Len(r) + 1 /\ Len(r) \in Int /\ l + 1 - 1 <= Len(r) /\ Len(r) <= Len(r)
      BY <1>3, <1>8
    <3>2. b \in Path /\ Len(b) = Len(r) - (l + 1) + 1 /\ \A i \in 1..Len(r) - (l + 1) + 1 : b[i] = r[l + 1 + i - 1]
      BY <1>8, <2>1, <3>1, PieceParts
    <3>3. Len(r) - (l + 1) + 1 = n - m /\ \A i \in 1..n - m : l + 1 + i - 1 = l + i
      BY <1>3, <1>8
    <3> QED BY <3>2, <3>3
  <2>4. PICK q : q = from \o b
    OBVIOUS
  <2>5. /\ q \in Path /\ Len(q) = m + (n - m)
        /\ \A i \in 1..m : q[i] = from[i]
        /\ \A i \in 1..n - m : q[m + i] = b[i]
    <3>1. /\ q \in Path /\ Len(q) = Len(from) + Len(b)
          /\ \A i \in 1..Len(from) : q[i] = from[i]
          /\ \A i \in 1..Len(b) : q[Len(from) + i] = b[i]
      BY <1>1, <2>3, <2>4, JoinParts
    <3> QED BY <1>2, <2>3, <3>1
  <2>6. \A i \in 1..n : i \in 1..m \/ \E j \in 1..n - m : i = m + j
    <3>1. ASSUME NEW i \in 1..n, i \notin 1..m PROVE i - m \in 1..n - m /\ i = m + (i - m)
      BY <1>3, <3>1
    <3> QED BY <3>1
  <2>7. \A i \in 1..n : q[i] = k[i]
    BY <1>4, <1>8, <2>3, <2>5, <2>6
  <2>8. Len(q) = n
    BY <1>3, <2>5
  <2>9. q = k
    BY <1>1, <1>2, <2>5, <2>7, <2>8, SamePath
  <2> QED BY <2>2, <2>4, <2>9
<1>19. ASSUME k # from
       PROVE  /\ LastSep(k) # 0 /\ LastSep(r) # 0 /\ Inside(k, from)
              /\ DirOf(r) = Relocated(DirOf(k), from, to)
  <2>1. PICK a : a = LastSep(k)
    OBVIOUS
  <2>2. /\ a > m /\ a \in 1..n /\ Within(DirOf(k), from)
        /\ k[a] \in Seps /\ \A j \in a + 1..n : k[j] \notin Seps
    <3>1. LastSep(k) > Len(from) /\ LastSep(k) # 0 /\ (DirOf(k) = from \/ Inside(DirOf(k), from))
      BY <1>1, <1>14, <1>19, DirInside
    <3>2. /\ LastSep(k) \in 0..Len(k) /\ (LastSep(k) = 0 \/ k[LastSep(k)] \in Seps)
          /\ \A j \in LastSep(k) + 1..Len(k) : k[j] \notin Seps
      BY <1>1, LastSepIs
    <3>3. LastSep(k) \in 1..Len(k)
      BY <1>2, <1>3, <3>1, <3>2
    <3> QED BY <1>2, <2>1, <3>1, <3>2, <3>3 DEF Within
  <2>3. PICK e : e = l + (a - m)
    OBVIOUS
  <2>4. e \in 0..Len(r) /\ e # 0 /\ a - m \in 1..n - m /\ m + (a - m) = a
    BY <1>3, <1>8, <2>2, <2>3
  <2>5. r[e] \in Seps
    BY <1>8, <2>2, <2>3, <2>4
  <2>6. ASSUME NEW j \in e + 1..Len(r) PROVE r[j] \notin Seps
    <3>1. j - l \in 1..n - m /\ l + (j - l) = j /\ m + (j - l) \in a + 1..n
      BY <1>3, <1>8, <2>2, <2>3
    <3>2. r[j] = k[m + (j - l)]
      BY <1>8, <3>1
    <3> QED BY <2>2, <3>1, <3>2
  <2>7. LastSep(r) = e
    BY <1>8, <2>4, <2>5, <2>6, LastSepIf
  <2>8. PICK d : d = DirOf(k)
    OBVIOUS
  <2>9. d \in Path /\ Len(d) = a - 1 /\ \A i \in 1..a - 1 : d[i] = k[i]
    BY <1>1, <2>1, <2>2, <2>8, DirParts
  <2>10. PICK f : f = DirOf(r)
    OBVIOUS
  <2>11. f \in Path /\ Len(f) = e - 1 /\ \A i \in 1..e - 1 : f[i] = r[i]
    BY <1>8, <2>4, <2>7, <2>10, DirParts
  <2>12. PICK b : b = SubSeq(d, m + 1, Len(d))
    OBVIOUS
  <2>13. Relocated(d, from, to) = to \o b
    BY <1>2, <2>2, <2>8, <2>12 DEF Relocated, Within
  <2>14. b \in Path /\ Len(b) = a - 1 - m /\ \A i \in 1..a - 1 - m : b[i] = d[m + i]
    <3>1. m + 1 \in 1..Len(d) + 1 /\ Len(d) \in Int /\ m + 1 - 1 <= Len(d) /\ Len(d) <= Len(d)
      BY <1>3, <2>2, <2>9
    <3>2. b \in Path /\ Len(b) = Len(d) - (m + 1) + 1 /\ \A i \in 1..Len(d) - (m + 1) + 1 : b[i] = d[m + 1 + i - 1]
      BY <2>9, <2>12, <3>1, PieceParts
    <3>3. Len(d) - (m + 1) + 1 = a - 1 - m /\ \A i \in 1..a - 1 - m : m + 1 + i - 1 = m + i
      BY <1>3, <2>2, <2>9
    <3> QED BY <3>2, <3>3
  <2>15. PICK q : q = to \o b
    OBVIOUS
  <2>16. /\ q \in Path /\ Len(q) = e - 1
         /\ \A i \in 1..l : q[i] = to[i]
         /\ \A i \in 1..a - 1 - m : q[l + i] = b[i]
    <3>1. /\ q \in Path /\ Len(q) = Len(to) + Len(b)
          /\ \A i \in 1..Len(to) : q[i] = to[i]
          /\ \A i \in 1..Len(b) : q[Len(to) + i] = b[i]
      BY <1>1, <2>14, <2>15, JoinParts
    <3>2. l + (a - 1 - m) = e - 1
      BY <1>3, <2>2, <2>3
    <3> QED BY <1>2, <2>14, <3>1, <3>2
  <2>17. ASSUME NEW i \in 1..e - 1 PROVE f[i] = q[i]
    <3>1. CASE i \in 1..l
      BY <1>8, <2>11, <2>16, <3>1
    <3>2. CASE i \notin 1..l
      <4>1. /\ i - l \in 1..a - 1 - m /\ i - l \in 1..n - m /\ l + (i - l) = i
            /\ m + (i - l) \in 1..a - 1
        BY <1>3, <2>2, <2>3, <3>2
      <4>2. f[i] = k[m + (i - l)]
        BY <1>8, <2>11, <4>1
      <4>3. q[i] = d[m + (i - l)]
        BY <2>14, <2>16, <4>1
      <4> QED BY <2>9, <4>1, <4>2, <4>3
    <3> QED BY <3>1, <3>2
  <2>18. f = q
    BY <2>11, <2>16, <2>17, SamePath
  <2> QED BY <1>14, <1>19, <2>1, <2>2, <2>4, <2>7, <2>8, <2>10, <2>13, <2>15, <2>18
<1> QED BY <1>12, <1>13, <1>17, <1>18, <1>19

\* A folder can move to `to'.
CanMove(fs, ds, c, from, to) ==
    /\ from \in ds /\ Len(from) > 1
    /\ IsKey(to) /\ Named(to)
    /\ LastSep(to) # 0 => DirOf(to) \in ds /\ ~Within(DirOf(to), from)
    /\ \A k \in fs \cup ds : ~Within(k, from) => ~Within(k, to)
    /\ \A q \in Path : Within(q, to) => Unused(q, c + 1)

\* What moves can be moved back, and what does not move is not moved back.
LEMMA MovedBack ==
  ASSUME NEW fs, NEW ds, NEW c, DiskInv(fs, ds, c), NEW from, NEW to,
         CanMove(fs, ds, c, from, to), NEW k \in fs \cup ds
  PROVE  LET r == Relocated(k, from, to) IN
         /\ IsKey(r) /\ Named(r) /\ Relocated(r, to, from) = k
         /\ Within(k, from) <=> Within(r, to)
         /\ ~Within(k, from) => r = k
<1>1. IsKey(k) /\ Named(k) /\ IsKey(from) /\ IsKey(to) /\ Named(to)
  BY DEF DiskInv, CanMove
<1>2. PICK r : r = Relocated(k, from, to)
  OBVIOUS
<1>3. CASE Within(k, from)
  BY <1>1, <1>2, <1>3, RelocatedIs
<1>4. CASE ~Within(k, from)
  <2>1. r = k
    BY <1>2, <1>4 DEF Relocated, Within
  <2>2. ~Within(k, to)
    BY <1>4 DEF CanMove
  <2>3. Relocated(k, to, from) = k
    BY <2>2 DEF Relocated, Within
  <2> QED BY <1>1, <1>2, <1>4, <2>1, <2>2, <2>3
<1> QED BY <1>2, <1>3, <1>4

\* A set of keys that moves is finite.
LEMMA MovedFinite ==
  ASSUME NEW S, IsFiniteSet(S), NEW from, NEW to
  PROVE  IsFiniteSet({Relocated(k, from, to) : k \in S})
<1>1. PICK T : T = {Relocated(k, from, to) : k \in S}
  OBVIOUS
<1>2. PICK f : f = [k \in S |-> Relocated(k, from, to)]
  OBVIOUS
<1>3. f \in Surjection(S, T)
  <2>1. f \in [S -> T]
    BY <1>1, <1>2
  <2>2. \A t \in T : \E k \in S : f[k] = t
    BY <1>1, <1>2
  <2> QED BY <2>1, <2>2 DEF Surjection
<1> QED BY <1>1, <1>3, FS_Surjection

\* A folder that moves takes with it what is in it, and leaves a disk.
LEMMA FolderMoved ==
  ASSUME NEW fs, NEW ds, NEW c \in Nat, DiskInv(fs, ds, c), NEW from, NEW to,
         CanMove(fs, ds, c, from, to)
  PROVE  DiskInv({Relocated(k, from, to) : k \in fs}, {Relocated(k, from, to) : k \in ds}, c + 1)
<1>1. PICK gs, es : /\ gs = {Relocated(k, from, to) : k \in fs}
                    /\ es = {Relocated(k, from, to) : k \in ds}
  OBVIOUS
<1>2. IsFiniteSet(gs) /\ IsFiniteSet(es)
  BY <1>1, MovedFinite DEF DiskInv
<1>3. \A k \in fs \cup ds : /\ IsKey(k) /\ Named(k) /\ k \in Path
                            /\ IsKey(Relocated(k, from, to)) /\ Named(Relocated(k, from, to))
                            /\ Relocated(Relocated(k, from, to), to, from) = k
                            /\ ~Within(k, from) => Relocated(k, from, to) = k
  <2>1. \A k \in fs \cup ds : IsKey(k) /\ Named(k) /\ k \in Path
    BY DEF DiskInv, IsKey, Path
  <2>2. ASSUME NEW k \in fs \cup ds
        PROVE  /\ IsKey(Relocated(k, from, to)) /\ Named(Relocated(k, from, to))
               /\ Relocated(Relocated(k, from, to), to, from) = k
               /\ ~Within(k, from) => Relocated(k, from, to) = k
    BY MovedBack
  <2> QED BY <2>1, <2>2
<1>4. /\ IsKey(from) /\ Named(from) /\ from \in Path /\ Len(from) \in Nat /\ Len(from) > 1 /\ from \in ds
      /\ IsKey(to) /\ Named(to) /\ to \in Path
  BY PathParts DEF CanMove, DiskInv, IsKey, Path
<1>5. Relocated(from, from, to) = to
  <2>1. PICK s : s = SubSeq(from, Len(from) + 1, Len(from))
    OBVIOUS
  <2>2. s = <<>>
    <3>1. s \in Path /\ Len(s) = Len(from) - (Len(from) + 1) + 1
      <4>1. Len(from) + 1 \in 1..Len(from) + 1 /\ Len(from) \in Int /\ Len(from) + 1 - 1 <= Len(from) /\ Len(from) <= Len(from)
        BY <1>4
      <4> QED BY <1>4, <2>1, <4>1, PieceParts
    <3>2. Len(from) - (Len(from) + 1) + 1 = 0
      BY <1>4
    <3> QED BY <3>1, <3>2, EmptySeq DEF Path
  <2>3. Relocated(from, from, to) = to \o s
    BY <2>1 DEF Relocated
  <2>4. to \o <<>> = to
    BY <1>4, ConcatEmptySeq DEF Path
  <2> QED BY <2>2, <2>3, <2>4
<1>6. ASSUME NEW k \in fs \cup ds, LastSep(k) # 0, k # from
      PROVE  /\ LastSep(Relocated(k, from, to)) # 0
             /\ DirOf(Relocated(k, from, to)) = Relocated(DirOf(k), from, to)
  <2>1. CASE Within(k, from)
    BY <1>3, <1>4, <1>6, <2>1, RelocatedIs
  <2>2. CASE ~Within(k, from)
    <3>1. ~Within(DirOf(k), from)
      BY <1>3, <1>4, <1>6, <2>2, DirInside DEF Within
    <3>2. Relocated(k, from, to) = k /\ Relocated(DirOf(k), from, to) = DirOf(k)
      BY <2>2, <3>1 DEF Relocated, Within
    <3> QED BY <1>6, <3>2
  <2> QED BY <2>1, <2>2
<1>7. IsDisk(gs, es)
  <2>1. ASSUME NEW k \in fs PROVE DirOf(Relocated(k, from, to)) \in es /\ Relocated(k, from, to) \notin es
    <3>1. LastSep(k) # 0 /\ DirOf(k) \in ds /\ k \notin ds
      BY FileInDir DEF DiskInv, IsDisk
    <3>2. k # from
      BY <1>4, <3>1
    <3>3. DirOf(Relocated(k, from, to)) \in es
      BY <1>1, <1>6, <3>1, <3>2
    <3>4. ASSUME NEW d \in ds, Relocated(d, from, to) = Relocated(k, from, to) PROVE FALSE
      BY <1>3, <3>1, <3>4
    <3> QED BY <1>1, <3>3, <3>4
  <2>2. ASSUME NEW d \in ds, LastSep(Relocated(d, from, to)) # 0
        PROVE  DirOf(Relocated(d, from, to)) \in es
    <3>1. CASE d = from
      <4>1. LastSep(to) # 0
        BY <1>5, <2>2, <3>1
      <4>2. DirOf(to) \in ds /\ ~Within(DirOf(to), from)
        BY <4>1 DEF CanMove
      <4>3. Relocated(DirOf(to), from, to) = DirOf(to)
        BY <4>2 DEF Relocated, Within
      <4> QED BY <1>1, <1>5, <3>1, <4>2, <4>3
    <3>2. CASE d # from
      <4>1. LastSep(d) # 0
        <5>1. Within(d, from) => LastSep(d) # 0
          BY <1>3, <1>4, <3>2, RelocatedIs
        <5>2. ~Within(d, from) => Relocated(d, from, to) = d
          BY <1>3
        <5> QED BY <2>2, <5>1, <5>2
      <4>2. DirOf(d) \in ds
        BY <4>1, DirAbove
      <4> QED BY <1>1, <1>6, <3>2, <4>1, <4>2
    <3> QED BY <3>1, <3>2
  <2>3. \A k \in gs : DirOf(k) \in es /\ k \notin es
    BY <1>1, <2>1
  <2>4. \A d \in es : LastSep(d) # 0 => DirOf(d) \in es
    BY <1>1, <2>2
  <2> QED BY <2>3, <2>4 DEF IsDisk
<1>8. \A k \in gs \cup es : IsKey(k) /\ Named(k)
  BY <1>1, <1>3
<1>9. ASSUME NEW d \in ds PROVE Unused(Relocated(d, from, to), c + 1)
  <2>1. CASE Within(d, from)
    <3>1. Within(Relocated(d, from, to), to) /\ Relocated(d, from, to) \in Path
      BY <1>3, <2>1, MovedBack DEF IsKey, Path
    <3> QED BY <3>1 DEF CanMove
  <2>2. CASE ~Within(d, from)
    <3>1. DiskInv(fs, ds, c + 1)
      BY LaterUnused
    <3> QED BY <1>3, <2>2, <3>1 DEF DiskInv
  <2> QED BY <2>1, <2>2
<1>10. ProjectDir \in es
  <2>1. ProjectDir \in ds /\ ProjectDir \in Path /\ Len(ProjectDir) = 1
    BY <1>4, SepFacts, OnePart DEF ProjectDir, DiskInv
  <2>2. ASSUME NEW p \in Path, Len(p) = 1 PROVE ~Within(p, from)
    <3>1. ~(Len(from) < Len(p)) /\ Len(p) # Len(from)
      <4>1. \A l \in Nat : l > 1 => ~(l < 1) /\ 1 # l
        OBVIOUS
      <4> QED BY <1>4, <2>2, <4>1
    <3>2. ~Inside(p, from)
      BY <1>4, <3>1, InsideParts
    <3> QED BY <3>1, <3>2 DEF Within
  <2>3. Relocated(ProjectDir, from, to) = ProjectDir
    BY <1>3, <2>1, <2>2
  <2> QED BY <1>1, <2>1, <2>3
<1>11. \A d \in es : Unused(d, c + 1)
  BY <1>1, <1>9
<1>12. DiskInv(gs, es, c + 1)
  BY <1>2, <1>7, <1>8, <1>10, <1>11 DEF DiskInv
<1> QED BY <1>1, <1>12

\* A path below a node: where it is looked for and what it is taken for.
LEMMA NewPath ==
  ASSUME Numerals, NEW taken, IsFiniteSet(taken), NEW q, GoodPath(q), NEW x \in Path, Named(x)
  PROVE  LET r == RightPath(taken, q \o x) IN
         /\ r \in Path /\ Named(r) /\ Key(r) \notin taken
         /\ IsKey(Key(r)) /\ Named(Key(r)) /\ Key(r) \in Path /\ LastSep(Key(r)) # 0
         /\ Len(Key(r)) >= 4 /\ Key(r)[1] = "P" /\ Key(r)[2] = Sep
         /\ Plain(NameOf(r))
<1>1. PICK p, r : p = q \o x /\ r = RightPath(taken, q \o x)
  OBVIOUS
<1>2. q \in Path /\ Len(q) \in Nat /\ Len(q) >= 4 /\ q[1] = "P" /\ q[2] = Sep /\ q[Len(q)] = Sep
  BY PathParts DEF GoodPath
<1>3. p \in Path /\ Named(p) /\ Len(p) > Len(q) /\ \A i \in 1..Len(q) : p[i] = q[i]
  BY <1>1, <1>2, NameBelow
<1>4. /\ r \in Path /\ Key(r) \notin taken /\ Named(r) /\ Len(r) >= Len(p)
      /\ \A i \in 1..Len(p) : r[i] = p[i]
  <2>1. r = RightPath(taken, p)
    BY <1>1
  <2>2. LET u == RightPath(taken, p) IN
         /\ u \in Path /\ Key(u) \notin taken /\ Named(u) /\ Len(u) >= Len(p)
         /\ \A i \in 1..Len(p) : u[i] = p[i]
    BY <1>3, RightPathNamed
  <2> QED BY <2>1, <2>2
<1>5. Len(p) \in Nat /\ Len(r) \in Nat
  BY <1>3, <1>4, PathParts
<1>6. \A i \in 1..Len(q) : i \in 1..Len(p) /\ i \in 1..Len(r) /\ r[i] = q[i]
  BY <1>2, <1>3, <1>4, <1>5
<1>7. r[1] = "P" /\ r[2] = Sep /\ r[Len(q)] = Sep /\ Len(q) \in 1..Len(r) /\ Len(r) >= 4
  BY <1>2, <1>3, <1>4, <1>5, <1>6
<1>8. /\ IsKey(Key(r)) /\ Key(r) \in Path /\ Len(Key(r)) = Len(r)
      /\ \A i \in 1..Len(r) : /\ Key(r)[i] = Sep <=> r[i] \in Seps
                              /\ r[i] \notin {Sep2, "Data"} => Key(r)[i] = r[i]
  BY <1>4, KeyParts
<1>9. Key(r)[1] = "P" /\ Key(r)[2] = Sep
  <2>1. "P" \notin {Sep2, "Data"} /\ 1 \in 1..Len(r) /\ 2 \in 1..Len(r)
    BY <1>5, <1>7, SepFacts
  <2> QED BY <1>7, <1>8, <2>1 DEF Seps
<1>10. LastSep(Key(r)) # 0
  <2>1. Key(r)[Len(q)] \in Seps
    BY <1>7, <1>8 DEF Seps
  <2>2. \A j \in LastSep(Key(r)) + 1..Len(Key(r)) : Key(r)[j] \notin Seps
    BY <1>8, LastSepIs
  <2> QED BY <1>5, <1>7, <1>8, <2>1, <2>2
<1>11. Named(Key(r)) /\ Plain(NameOf(r))
  BY <1>4, KeyNamed, NamePlain
<1> QED BY <1>1, <1>4, <1>7, <1>8, <1>9, <1>10, <1>11

\* A folder below the project's is never at the top.
LEMMA FolderKeyIs ==
  ASSUME TreeInv(tree), NEW n \in DOMAIN tree
  PROVE  IsKey(FolderKey(n)) /\ FolderKey(n) \in Path /\ Len(FolderKey(n)) > 1
<1>1. tree # <<>>
  OBVIOUS
<1>2. GoodPath(NodePath[n])
  BY <1>1, NodePathIs
<1>3. PICK p : p = NodePath[n]
  OBVIOUS
<1>4. p \in Path /\ Len(p) \in Nat /\ Len(p) >= 4
  BY <1>2, <1>3, PathParts DEF GoodPath
<1>5. 1 \in 1..Len(p) + 1 /\ Len(p) - 1 \in Int /\ 1 - 1 <= Len(p) - 1 /\ Len(p) - 1 <= Len(p)
  BY <1>4
<1>6. SubSeq(p, 1, Len(p) - 1) \in Path /\ Len(SubSeq(p, 1, Len(p) - 1)) = Len(p) - 1 - 1 + 1
  BY <1>4, <1>5, PieceParts
<1>7. Front(p) \in Path /\ Len(Front(p)) > 1
  BY <1>4, <1>6 DEF Front
<1> QED BY <1>3, <1>7, KeyParts DEF FolderKey

\* What begins with P is no random name.
LEMMA ProjectUnused ==
  ASSUME NEW k, k[1] = "P", NEW c
  PROVE  Unused(k, c)
<1>1. "P" # "random"
  OBVIOUS
<1> QED BY <1>1 DEF Unused

\* A folder with all folders above it makes the disk no less a disk.
LEMMA FoldersAdded ==
  ASSUME NEW fs, NEW ds, NEW c, DiskInv(fs, ds, c),
         NEW K, IsKey(K), Named(K), Len(K) >= 2, K[1] = "P", K[2] = Sep, K \notin fs,
         \A i \in 1..Len(K) - 1 : K[i] = Sep => K[i + 1] # Sep,
         NEW above, above = {SubSeq(K, 1, i - 1) : i \in {j \in DOMAIN K : K[j] = Sep}},
         above \cap fs = {}
  PROVE  DiskInv(fs, ds \cup above \cup {K}, c)
<1>1. K \in Path /\ Len(K) \in Nat /\ DOMAIN K = 1..Len(K) /\ \A i \in 1..Len(K) : K[i] \notin {Sep2, "Data"}
  BY PathParts DEF IsKey, Path
<1>2. "P" # Sep
  BY SepFacts
<1>3. ASSUME NEW i \in 1..Len(K), K[i] = Sep
      PROVE  LET d == SubSeq(K, 1, i - 1) IN
             /\ d \in Path /\ IsKey(d) /\ Named(d) /\ Len(d) = i - 1 /\ i - 1 >= 1 /\ d[1] = "P"
             /\ \A j \in 1..i - 1 : d[j] = K[j]
  <2>1. PICK d : d = SubSeq(K, 1, i - 1)
    OBVIOUS
  <2>2. i # 1
    BY <1>2, <1>3
  <2>3. 1 \in 1..Len(K) + 1 /\ i - 1 \in Int /\ 1 - 1 <= i - 1 /\ i - 1 <= Len(K) /\ i - 1 - 1 + 1 = i - 1
    BY <1>1
  <2>4. d \in Path /\ Len(d) = i - 1 /\ \A j \in 1..i - 1 : d[j] = K[1 + j - 1]
    BY <1>1, <2>1, <2>3, PieceParts
  <2>5. \A j \in 1..i - 1 : 1 + j - 1 = j
    BY <1>1
  <2>6. \A j \in 1..i - 1 : d[j] = K[j]
    BY <2>4, <2>5
  <2>7. DOMAIN d = 1..i - 1 /\ i - 1 >= 1 /\ i - 1 \in 1..Len(K) - 1 /\ i - 1 + 1 = i
    BY <1>1, <2>2, <2>4, PathParts
  <2>8. IsKey(d)
    <3>1. \A j \in 1..i - 1 : j \in 1..Len(K)
      BY <1>1
    <3> QED BY <1>1, <2>4, <2>6, <2>7, <3>1 DEF IsKey, Path
  <2>9. d[1] = "P"
    <3>1. 1 \in 1..i - 1
      BY <2>7
    <3> QED BY <2>6, <3>1
  <2>10. K[i - 1] # Sep
    BY <1>3, <2>7
  <2>11. Named(d)
    <3>1. d # <<>>
      BY <2>4, <2>7
    <3>2. i - 1 \in 1..i - 1 /\ i - 1 \in 1..Len(K)
      BY <1>1, <2>7
    <3>3. d[i - 1] \notin {Sep, Sep2}
      BY <1>1, <2>6, <2>10, <3>2
    <3> QED BY <2>4, <3>1, <3>3 DEF Named
  <2> QED BY <2>1, <2>4, <2>6, <2>7, <2>8, <2>9, <2>11
<1>4. ASSUME NEW d, d \in above PROVE \E i \in 1..Len(K) : K[i] = Sep /\ d = SubSeq(K, 1, i - 1)
  BY <1>1, <1>4
<1>5. \A i \in 1..Len(K) : K[i] = Sep => SubSeq(K, 1, i - 1) \in above
  BY <1>1
<1>6. \A d \in above : d \in Path /\ IsKey(d) /\ Named(d) /\ d[1] = "P"
  <2>1. ASSUME NEW d \in above PROVE d \in Path /\ IsKey(d) /\ Named(d) /\ d[1] = "P"
    <3>1. PICK i \in 1..Len(K) : K[i] = Sep /\ d = SubSeq(K, 1, i - 1)
      BY <1>4
    <3> QED BY <1>3, <3>1
  <2> QED BY <2>1
<1>7. PICK es : es = ds \cup above \cup {K}
  OBVIOUS
<1>8. IsFiniteSet(above)
  <2>1. PICK S, f : S = {j \in DOMAIN K : K[j] = Sep} /\ f = [i \in S |-> SubSeq(K, 1, i - 1)]
    OBVIOUS
  <2>2. IsFiniteSet(1..Len(K))
    <3>1. 1 \in Int /\ Len(K) \in Int
      BY <1>1
    <3> QED BY <3>1, FS_Interval
  <2>3. S \in SUBSET (1..Len(K))
    BY <1>1, <2>1
  <2>4. IsFiniteSet(S)
    BY <2>2, <2>3, FS_Subset
  <2>5. f \in Surjection(S, above)
    <3>1. f \in [S -> above]
      BY <2>1
    <3>2. \A d \in above : \E i \in S : f[i] = d
      BY <2>1
    <3> QED BY <3>1, <3>2 DEF Surjection
  <2> QED BY <2>4, <2>5, FS_Surjection
<1>9. IsFiniteSet(es)
  <2>1. IsFiniteSet(ds \cup above)
    BY <1>8, FS_Union DEF DiskInv
  <2> QED BY <1>7, <2>1, FS_AddElement
<1>10. ASSUME NEW d \in above, LastSep(d) # 0 PROVE DirOf(d) \in above
  <2>1. PICK i \in 1..Len(K) : K[i] = Sep /\ d = SubSeq(K, 1, i - 1)
    BY <1>4
  <2>2. d \in Path /\ IsKey(d) /\ Len(d) = i - 1 /\ \A j \in 1..i - 1 : d[j] = K[j]
    BY <1>3, <2>1
  <2>3. PICK l : l = LastSep(d)
    OBVIOUS
  <2>4. d[l] = Sep /\ l \in 1..i - 1
    <3>1. l \in 0..Len(d)
      BY <2>2, <2>3, LastSepIs
    <3> QED BY <1>1, <1>10, <2>2, <2>3, <3>1, KeyInDir
  <2>5. l \in 1..Len(K) /\ K[l] = Sep
    BY <1>1, <2>2, <2>4
  <2>6. DirOf(d) \in Path /\ Len(DirOf(d)) = l - 1 /\ \A j \in 1..l - 1 : DirOf(d)[j] = d[j]
    BY <1>10, <2>2, <2>3, DirParts
  <2>7. /\ SubSeq(K, 1, l - 1) \in Path /\ Len(SubSeq(K, 1, l - 1)) = l - 1
        /\ \A j \in 1..l - 1 : SubSeq(K, 1, l - 1)[j] = K[j]
    BY <1>3, <2>5
  <2>8. \A j \in 1..l - 1 : j \in 1..i - 1
    BY <1>1, <2>4
  <2>9. DirOf(d) = SubSeq(K, 1, l - 1)
    <3>1. PICK a, b : a = DirOf(d) /\ b = SubSeq(K, 1, l - 1)
      OBVIOUS
    <3>2. a \in Path /\ b \in Path /\ Len(a) = Len(b) /\ Len(a) = l - 1
      BY <2>6, <2>7, <3>1
    <3>3. \A j \in 1..l - 1 : a[j] = b[j]
      BY <2>2, <2>6, <2>7, <2>8, <3>1
    <3>4. a = b
      BY <3>2, <3>3, SamePath
    <3> QED BY <3>1, <3>4
  <2> QED BY <1>5, <2>5, <2>9
<1>11. ASSUME LastSep(K) # 0 PROVE DirOf(K) \in above
  <2>1. K[LastSep(K)] = Sep /\ LastSep(K) \in 1..Len(K)
    <3>1. LastSep(K) \in 0..Len(K)
      BY <1>1, LastSepIs
    <3> QED BY <1>1, <1>11, <3>1, KeyInDir
  <2> QED BY <1>5, <2>1 DEF DirOf
<1>12. IsDisk(fs, es)
  <2>1. ASSUME NEW k \in fs PROVE DirOf(k) \in es /\ k \notin es
    BY <1>7 DEF DiskInv, IsDisk
  <2>2. ASSUME NEW d \in es, LastSep(d) # 0 PROVE DirOf(d) \in es
    BY <1>7, <1>10, <1>11, <2>2 DEF DiskInv, IsDisk
  <2> QED BY <2>1, <2>2 DEF IsDisk
<1>13. \A k \in fs \cup es : IsKey(k) /\ Named(k)
  BY <1>6, <1>7 DEF DiskInv
<1>14. \A k \in es : Unused(k, c)
  BY <1>6, <1>7, ProjectUnused DEF DiskInv
<1>15. ProjectDir \in es
  <2>1. 2 \in 1..Len(K) /\ K[2] = Sep
    BY <1>1
  <2>2. /\ SubSeq(K, 1, 2 - 1) \in Path /\ Len(SubSeq(K, 1, 2 - 1)) = 2 - 1
        /\ SubSeq(K, 1, 2 - 1)[1] = "P" /\ SubSeq(K, 1, 2 - 1) \in above
    BY <1>3, <1>5, <2>1
  <2>3. ProjectDir \in Path /\ Len(ProjectDir) = 1 /\ ProjectDir[1] = "P"
    BY SepFacts, OnePart DEF ProjectDir
  <2>4. \A i \in 1..1 : i = 1
    OBVIOUS
  <2>5. ProjectDir = SubSeq(K, 1, 2 - 1)
    <3>1. PICK u, v : u = ProjectDir /\ v = SubSeq(K, 1, 2 - 1)
      OBVIOUS
    <3>2. u \in Path /\ v \in Path /\ Len(u) = 1 /\ Len(v) = 1 /\ \A i \in 1..1 : u[i] = v[i]
      BY <2>2, <2>3, <2>4, <3>1
    <3>3. u = v
      BY <3>2, SamePath
    <3> QED BY <3>1, <3>3
  <2> QED BY <1>7, <2>2, <2>5
<1>16. DiskInv(fs, es, c)
  BY <1>9, <1>12, <1>13, <1>14, <1>15 DEF DiskInv
<1> QED BY <1>7, <1>16

-----------------------------------------------------------------------------
(* What is on disk, as a tree *)

\* All of a finite set in a row, and nothing twice.
LEMMA InARow ==
  ASSUME NEW S, IsFiniteSet(S)
  PROVE  /\ SetToSeq(S) \in Seq(S) /\ Len(SetToSeq(S)) = Cardinality(S)
         /\ \A x \in S : \E i \in 1..Len(SetToSeq(S)) : SetToSeq(S)[i] = x
         /\ \A i, j \in 1..Len(SetToSeq(S)) : SetToSeq(S)[i] = SetToSeq(S)[j] => i = j
<1>1. PICK n, I : n = Cardinality(S) /\ I = 1..n
  OBVIOUS
<1>2. n \in Nat /\ ExistsBijection(I, S)
  BY <1>1, FS_CardinalityType
<1>3. PICK g \in [I -> S] : IsInjective(g)
  BY <1>2 DEF ExistsBijection, Bijection, Injection, IsInjective
<1>4. PICK f : f = SetToSeq(S)
  OBVIOUS
<1>5. f \in [I -> S] /\ IsInjective(f)
  BY <1>1, <1>3, <1>4 DEF SetToSeq
<1>6. f \in Injection(I, S)
  BY <1>5 DEF Injection, IsInjective
<1>7. IsFiniteSet(I) /\ Cardinality(I) = n
  <2>1. 1 \in Int /\ n \in Int /\ (1 > n => n = 0) /\ n - 1 + 1 = n
    BY <1>2
  <2> QED BY <1>1, <2>1, FS_Interval
<1>8. f \in Surjection(I, S)
  BY <1>1, <1>6, <1>7, FS_Injection
<1>9. \A x \in S : \E i \in I : f[i] = x
  BY <1>8 DEF Surjection
<1>10. f \in Seq(S) /\ Len(f) = n
  BY <1>1, <1>2, <1>5
<1>11. \A i, j \in I : f[i] = f[j] => i = j
  BY <1>5 DEF IsInjective
<1> QED BY <1>1, <1>4, <1>9, <1>10, <1>11

\* The data folder, as a path.
LEMMA DataDirIs == /\ DataDir \in Path /\ Len(DataDir) = 3
                   /\ DataDir[1] = "P" /\ DataDir[2] = Sep /\ DataDir[3] = "data"
<1>1. PICK s, d : s = Sep /\ d = "data"
  OBVIOUS
<1>2. s \in Parts /\ d \in Parts /\ "P" \in Parts
  BY <1>1, SepFacts
<1>3. <<"P", s, d>> \in Path /\ Len(<<"P", s, d>>) = 3
  BY <1>2 DEF Path
<1> QED BY <1>1, <1>3 DEF DataDir

\* t has a node for each of the files and folders seq, below that of its folder.
LoadedAs(t, ds, X, n, seq, up) ==
    /\ DOMAIN seq = 1..n /\ \A i \in 1..n : seq[i] \in X
    /\ \A i \in 1..n : \A j \in 1..n : seq[i] = seq[j] => i = j
    /\ \A i \in 1..n :
         \/ up[i] = Root /\ DirOf(seq[i]) = DataDir
         \/ up[i] \in 1..n /\ seq[up[i]] = DirOf(seq[i])
    /\ t = [i \in 0..n |-> t[i]]
    /\ t[Root] = [parent |-> NoNode, text |-> ProjectDir, tag |-> ProjectDir]
    /\ \A i \in 1..n : t[i] = [parent |-> up[i], text |-> NameOf(seq[i]),
                               tag |-> IF seq[i] \in ds THEN NoPath ELSE seq[i]]

\* LoadDir makes such a tree of what is in the data folder.
LEMMA LoadedNodes ==
  ASSUME NEW fs, NEW ds, NEW c, DiskInv(DOMAIN fs, ds, c), NEW t, t = LoadedTree(fs, ds),
         NEW X, X = {k \in DOMAIN fs \cup ds : Inside(k, DataDir)}
  PROVE  /\ \A k \in X : /\ IsKey(k) /\ Named(k) /\ k \in Path /\ Inside(k, DataDir) /\ LastSep(k) # 0
                         /\ DirOf(k) = DataDir \/ DirOf(k) \in X
         /\ \E n \in Nat : \E seq, up : LoadedAs(t, ds, X, n, seq, up)
<1>2. PICK seq, n : seq = SetToSeq(X) /\ n = Len(seq)
  OBVIOUS
<1>3. IsFiniteSet(X)
  <2>1. IsFiniteSet(DOMAIN fs \cup ds)
    BY FS_Union DEF DiskInv
  <2> QED BY <2>1, FS_Subset
<1>4. /\ n \in Nat /\ DOMAIN seq = 1..n /\ (\A i \in 1..n : seq[i] \in X)
      /\ \A x \in X : \E i \in 1..n : seq[i] = x
      /\ \A i, j \in 1..n : seq[i] = seq[j] => i = j
  <2>1. /\ seq \in Seq(X) /\ \A x \in X : \E i \in 1..Len(seq) : seq[i] = x
        /\ \A i, j \in 1..Len(seq) : seq[i] = seq[j] => i = j
    <3>1. /\ SetToSeq(X) \in Seq(X)
          /\ \A x \in X : \E i \in 1..Len(SetToSeq(X)) : SetToSeq(X)[i] = x
          /\ \A i, j \in 1..Len(SetToSeq(X)) : SetToSeq(X)[i] = SetToSeq(X)[j] => i = j
      BY <1>3, InARow
    <3> QED BY <1>2, <3>1
  <2>2. n \in Nat /\ DOMAIN seq = 1..n /\ n = Len(seq)
    BY <1>2, <2>1, LenProperties
  <2>3. \A i \in 1..n : seq[i] \in X
    BY <2>1, <2>2, ElementOfSeq
  <2> QED BY <2>1, <2>2, <2>3
<1> DEFINE parentOf(k) == IF DirOf(k) = DataDir THEN Root ELSE CHOOSE i \in DOMAIN seq : seq[i] = DirOf(k)
<1>5. PICK up : up = [i \in 1..n |-> parentOf(seq[i])]
  OBVIOUS
<1>7. t = [i \in 0..n |->
             IF i = Root THEN [parent |-> NoNode, text |-> ProjectDir, tag |-> ProjectDir]
             ELSE [parent |-> parentOf(seq[i]), text |-> NameOf(seq[i]),
                   tag |-> IF seq[i] \in ds THEN NoPath ELSE seq[i]]]
  BY <1>2 DEF LoadedTree
<1>8. \A k \in X : /\ IsKey(k) /\ Named(k) /\ k \in Path /\ Inside(k, DataDir) /\ LastSep(k) # 0
                   /\ DirOf(k) = DataDir \/ DirOf(k) \in X
  <2>1. ASSUME NEW k \in X PROVE IsKey(k) /\ Named(k) /\ k \in Path /\ Inside(k, DataDir)
    BY DEF DiskInv, IsKey, Path
  <2>2. ASSUME NEW k \in X PROVE LastSep(k) # 0 /\ (DirOf(k) = DataDir \/ Inside(DirOf(k), DataDir))
    BY <2>1, DataDirIs, DirInside
  <2>3. ASSUME NEW k \in X PROVE DirOf(k) \in ds
    BY <2>2, DirAbove
  <2> QED BY <2>1, <2>2, <2>3
<1>9. \A i \in 1..n : \/ up[i] = Root /\ DirOf(seq[i]) = DataDir
                      \/ up[i] \in 1..n /\ seq[up[i]] = DirOf(seq[i])
  <2>1. ASSUME NEW i \in 1..n, DirOf(seq[i]) # DataDir
        PROVE  up[i] \in 1..n /\ seq[up[i]] = DirOf(seq[i])
    <3>1. \E j \in 1..n : seq[j] = DirOf(seq[i])
      BY <1>4, <1>8, <2>1
    <3>2. up[i] = CHOOSE j \in 1..n : seq[j] = DirOf(seq[i])
      BY <1>4, <1>5, <2>1
    <3> QED BY <3>1, <3>2
  <2>2. ASSUME NEW i \in 1..n, DirOf(seq[i]) = DataDir PROVE up[i] = Root
    BY <1>5, <2>2
  <2> QED BY <2>1, <2>2
<1> HIDE DEF parentOf
<1>10. /\ t = [i \in 0..n |-> t[i]]
       /\ t[Root] = [parent |-> NoNode, text |-> ProjectDir, tag |-> ProjectDir]
  BY <1>4, <1>7 DEF Root
<1>11. ASSUME NEW i \in 1..n
       PROVE  t[i] = [parent |-> up[i], text |-> NameOf(seq[i]),
                      tag |-> IF seq[i] \in ds THEN NoPath ELSE seq[i]]
  <2>1. i # Root /\ i \in 0..n
    BY <1>4 DEF Root
  <2>2. t[i] = [parent |-> parentOf(seq[i]), text |-> NameOf(seq[i]),
                tag |-> IF seq[i] \in ds THEN NoPath ELSE seq[i]]
    BY <1>7, <2>1
  <2>3. up[i] = parentOf(seq[i])
    BY <1>5
  <2> QED BY <2>2, <2>3
<1>12. LoadedAs(t, ds, X, n, seq, up)
  BY <1>4, <1>9, <1>10, <1>11 DEF LoadedAs
<1> QED BY <1>4, <1>8, <1>12

\* That is a tree.
LEMMA LoadedIsTree ==
  ASSUME NEW fs, NEW ds, NEW c, DiskInv(DOMAIN fs, ds, c)
  PROVE  TreeInv(LoadedTree(fs, ds))
<1>1. PICK X, t : X = {k \in DOMAIN fs \cup ds : Inside(k, DataDir)} /\ t = LoadedTree(fs, ds)
  OBVIOUS
<1>2. /\ \A k \in X : IsKey(k) /\ Named(k) /\ k \in Path /\ LastSep(k) # 0
      /\ \E n \in Nat : \E seq, up : LoadedAs(t, ds, X, n, seq, up)
  <2>1. /\ \A k \in X : /\ IsKey(k) /\ Named(k) /\ k \in Path /\ Inside(k, DataDir) /\ LastSep(k) # 0
                        /\ DirOf(k) = DataDir \/ DirOf(k) \in X
        /\ \E n \in Nat : \E seq, up : LoadedAs(t, ds, X, n, seq, up)
    BY <1>1, LoadedNodes
  <2> QED BY <2>1
<1>3. PICK n \in Nat : \E seq, up : LoadedAs(t, ds, X, n, seq, up)
  BY <1>2
<1>4. PICK seq, up : LoadedAs(t, ds, X, n, seq, up)
  BY <1>3
<1>5. /\ \A i \in 1..n : seq[i] \in X
      /\ \A i \in 1..n :
           \/ up[i] = Root /\ DirOf(seq[i]) = DataDir
           \/ up[i] \in 1..n /\ seq[up[i]] = DirOf(seq[i])
      /\ t = [i \in 0..n |-> t[i]]
      /\ t[Root] = [parent |-> NoNode, text |-> ProjectDir, tag |-> ProjectDir]
      /\ \A i \in 1..n : t[i] = [parent |-> up[i], text |-> NameOf(seq[i]),
                                 tag |-> IF seq[i] \in ds THEN NoPath ELSE seq[i]]
  BY <1>4 DEF LoadedAs
<1>6. /\ DOMAIN t = 0..n
      /\ t[Root].parent = NoNode /\ t[Root].tag = ProjectDir
      /\ \A i \in 1..n : t[i].parent = up[i] /\ t[i].text = NameOf(seq[i])
  <2>1. DOMAIN t = 0..n /\ t[Root].parent = NoNode /\ t[Root].tag = ProjectDir
    BY <1>5
  <2>2. ASSUME NEW i \in 1..n PROVE t[i].parent = up[i] /\ t[i].text = NameOf(seq[i])
    <3>1. PICK a, b : a = NameOf(seq[i]) /\ b = IF seq[i] \in ds THEN NoPath ELSE seq[i]
      OBVIOUS
    <3>2. t[i] = [parent |-> up[i], text |-> a, tag |-> b]
      BY <1>5, <3>1
    <3> QED BY <3>1, <3>2
  <2> QED BY <2>1, <2>2
<1>7. 0..n = 1..n \cup {Root} /\ Root \notin 1..n
  BY DEF Root
<1>8. \A i \in 1..n : Plain(NameOf(seq[i])) /\ seq[i] \in Path /\ up[i] \in 0..n
  BY <1>2, <1>5, <1>7, NamePlain
<1>9. t \in [DOMAIN t -> Node]
  <2>1. ProjectDir \in Path /\ NoPath \in Path
    BY SepFacts, OnePart DEF ProjectDir, NoPath, Path
  <2>2. [parent |-> NoNode, text |-> ProjectDir, tag |-> ProjectDir] \in Node
    BY <2>1 DEF Node, NoNode
  <2>3. ASSUME NEW i \in 1..n
        PROVE  [parent |-> up[i], text |-> NameOf(seq[i]),
                tag |-> IF seq[i] \in ds THEN NoPath ELSE seq[i]] \in Node
    <3>1. up[i] \in Int
      BY <1>8
    <3> QED BY <1>8, <2>1, <3>1 DEF Node, Plain
  <2>4. ASSUME NEW i \in 0..n PROVE t[i] \in Node
    BY <1>5, <1>7, <2>2, <2>3
  <2> QED BY <1>5, <1>6, <2>4
<1>10. IsFiniteSet(DOMAIN t) /\ DOMAIN t \subseteq Nat
  <2>1. 0 \in Int /\ n \in Int
    OBVIOUS
  <2> QED BY <1>6, <2>1, FS_Interval
<1>11. NodesOK(t)
  BY <1>6, <1>7, <1>8, <1>9, <1>10 DEF NodesOK
<1>12. \A i \in 1..n : up[i] \in 1..n => Len(seq[up[i]]) < Len(seq[i]) /\ Len(seq[i]) \in Nat /\ Len(seq[up[i]]) \in Nat
  <2>1. ASSUME NEW i \in 1..n, up[i] \in 1..n PROVE seq[up[i]] = DirOf(seq[i])
    BY <1>5, <1>7, <2>1
  <2> QED BY <1>2, <1>5, <2>1, KeyInDir, PathParts
<1>13. \A m \in DOMAIN t \ {Root} : t[m].parent \in DOMAIN t \ {m}
  <2>1. ASSUME NEW m \in 1..n PROVE up[m] \in 0..n /\ up[m] # m
    BY <1>8, <1>12
  <2> QED BY <1>6, <1>7, <2>1
<1>14. ASSUME NEW C \in SUBSET (DOMAIN t \ {Root}), \A m \in C : t[m].parent \in C
       PROVE  C = {}
  <2>1. C \subseteq 1..n /\ \A m \in C : up[m] \in C
    BY <1>6, <1>7, <1>14
  <2>2. SUFFICES ASSUME C # {} PROVE FALSE
    OBVIOUS
  <2>3. PICK S : S = {l \in Nat : \E m \in C : l = Len(seq[m])}
    OBVIOUS
  <2>4. \A m \in C : Len(seq[m]) \in S
    <3>1. \A m \in 1..n : Len(seq[m]) \in Nat
      BY <1>2, <1>5, PathParts
    <3> QED BY <2>1, <2>3, <3>1
  <2>5. PICK l \in S : \A j \in S : l <= j
    BY <2>2, <2>3, <2>4, Least
  <2>6. PICK m \in C : l = Len(seq[m])
    BY <2>3
  <2>7. m \in 1..n /\ up[m] \in C /\ up[m] \in 1..n
    BY <2>1
  <2>8. Len(seq[up[m]]) < Len(seq[m]) /\ Len(seq[m]) \in Nat /\ Len(seq[up[m]]) \in Nat
    BY <1>12, <2>7
  <2>9. Len(seq[up[m]]) \in S
    BY <2>4, <2>7
  <2>10. Len(seq[m]) <= Len(seq[up[m]])
    BY <2>5, <2>6, <2>9
  <2> QED BY <2>8, <2>10
<1>15. t # <<>> => Root \in DOMAIN t /\ t[Root].parent = NoNode
  BY <1>6, <1>7
<1> QED BY <1>1, <1>11, <1>13, <1>14, <1>15 DEF TreeInv, Rooted

-----------------------------------------------------------------------------
(* The tabs' types *)

\* The tabs, each with its parts.
LEMMA TabTyped ==
  ASSUME NEW ts \in Seq(Tab)
  PROVE  /\ DOMAIN ts = 1..Len(ts) /\ Len(ts) \in Nat
         /\ \A i \in 1..Len(ts) : /\ ts[i] \in Tab /\ ts[i].tag \in Path
                                  /\ ts[i].text \in Texts /\ ts[i].onfile \in Texts
                                  /\ ts[i].saved \in BOOLEAN /\ ts[i].marks \in 0..MaxMarks
<1>1. DOMAIN ts = 1..Len(ts) /\ Len(ts) \in Nat /\ \A i \in 1..Len(ts) : ts[i] \in Tab
  BY LenProperties, ElementOfSeq
<1> QED BY <1>1 DEF Tab, Path

\* One tab for another in its place.
LEMMA TabsTyped ==
  ASSUME NEW ts \in Seq(Tab), NEW us, DOMAIN us = DOMAIN ts, us = [i \in DOMAIN ts |-> us[i]],
         \A i \in DOMAIN ts : us[i] \in Tab
  PROVE  us \in Seq(Tab)
<1>1. DOMAIN ts = 1..Len(ts) /\ Len(ts) \in Nat
  BY TabTyped
<1>2. us \in [1..Len(ts) -> Tab]
  BY <1>1
<1> QED BY <1>1, <1>2

\* The tabs when one is opened.
LEMMA OpenedTyped ==
  ASSUME NEW ts \in Seq(Tab), NEW p \in Path, NEW text \in Texts, NEW late \in 0..MaxMarks
  PROVE  Opened(ts, p, text, late) \in Seq(Tab)
<1>1. PICK new : new = [tag |-> p, text |-> text, onfile |-> text, saved |-> TRUE, marks |-> late]
  OBVIOUS
<1>2. new \in Tab
  BY <1>1 DEF Tab, Path
<1>3. Append(ts, new) \in Seq(Tab)
  BY <1>2, AppendProperties
<1> QED BY <1>1, <1>3 DEF Opened

\* The tabs when some are saved.
LEMMA SavedTyped ==
  ASSUME tabs \in Seq(Tab), NEW S
  PROVE  TabsSaved(S) \in Seq(Tab)
<1>1. DOMAIN TabsSaved(S) = DOMAIN tabs /\ TabsSaved(S) = [i \in DOMAIN tabs |-> TabsSaved(S)[i]]
  BY DEF TabsSaved
<1>2. ASSUME NEW i \in DOMAIN tabs PROVE TabsSaved(S)[i] \in Tab
  <2>1. tabs[i] \in Tab /\ tabs[i].text \in Texts
    BY TabTyped
  <2>2. \A t \in Tab : \A x \in Texts : [t EXCEPT !.saved = TRUE, !.onfile = x] \in Tab
    BY DEF Tab
  <2>3. TabsSaved(S)[i] = IF i \in S THEN [tabs[i] EXCEPT !.saved = TRUE, !.onfile = tabs[i].text] ELSE tabs[i]
    BY DEF TabsSaved
  <2> QED BY <2>1, <2>2, <2>3
<1> QED BY <1>1, <1>2, TabsTyped

\* The tabs when one gets another Tag.
LEMMA RetaggedTyped ==
  ASSUME tabs \in Seq(Tab), NEW last, NEW new \in Path
  PROVE  [i \in DOMAIN tabs |-> IF i \in last THEN [tabs[i] EXCEPT !.tag = new] ELSE tabs[i]] \in Seq(Tab)
<1>1. PICK us : us = [i \in DOMAIN tabs |-> IF i \in last THEN [tabs[i] EXCEPT !.tag = new] ELSE tabs[i]]
  OBVIOUS
<1>2. DOMAIN us = DOMAIN tabs /\ us = [i \in DOMAIN tabs |-> us[i]]
  BY <1>1
<1>3. ASSUME NEW i \in DOMAIN tabs PROVE us[i] \in Tab
  <2>1. tabs[i] \in Tab
    BY TabTyped
  <2>2. \A t \in Tab : [t EXCEPT !.tag = new] \in Tab
    BY DEF Tab, Path
  <2> QED BY <1>1, <2>1, <2>2
<1>4. us \in Seq(Tab)
  BY <1>2, <1>3, TabsTyped
<1> QED BY <1>1, <1>4

\* The tabs when one is edited, or marked.
LEMMA EditTyped ==
  ASSUME tabs \in Seq(Tab), NEW i \in DOMAIN tabs,
         (\E text \in Texts : Edit(i, text)) \/ MarkUnsaved(i)
  PROVE  tabs' \in Seq(Tab)
<1>1. MaxMarks \in Nat /\ tabs[i] \in Tab /\ tabs[i].marks \in 0..MaxMarks
  BY WorkspaceAssumption, TabTyped
<1>2. \A t \in Tab : \A m \in 0..MaxMarks :
        /\ \A x \in Texts : [t EXCEPT !.text = x, !.marks = m] \in Tab
        /\ [t EXCEPT !.saved = FALSE, !.marks = m] \in Tab
  BY DEF Tab
<1>3. PICK u \in Tab : tabs' = [tabs EXCEPT ![i] = u]
  <2>1. CASE \E text \in Texts : Edit(i, text)
    <3>1. PICK text \in Texts : Edit(i, text)
      BY <2>1
    <3>2. tabs[i].marks + 1 \in 0..MaxMarks
      <4>1. PICK m : m = tabs[i].marks
        OBVIOUS
      <4>2. m < MaxMarks /\ m \in 0..MaxMarks
        BY <1>1, <3>1, <4>1 DEF Edit
      <4>3. m + 1 \in 0..MaxMarks
        BY <1>1, <4>2
      <4> QED BY <4>1, <4>3
    <3>3. [tabs[i] EXCEPT !.text = text, !.marks = tabs[i].marks + 1] \in Tab
      BY <1>1, <1>2, <3>2
    <3>4. tabs' = [tabs EXCEPT ![i] = [tabs[i] EXCEPT !.text = text, !.marks = tabs[i].marks + 1]]
      BY <1>1, <3>1 DEF Edit, Tab
    <3> QED BY <3>3, <3>4
  <2>2. CASE MarkUnsaved(i)
    <3>1. tabs[i].marks - 1 \in 0..MaxMarks
      BY <1>1, <2>2 DEF MarkUnsaved
    <3>2. [tabs[i] EXCEPT !.saved = FALSE, !.marks = tabs[i].marks - 1] \in Tab
      BY <1>1, <1>2, <3>1
    <3>3. tabs' = [tabs EXCEPT ![i] = [tabs[i] EXCEPT !.saved = FALSE, !.marks = tabs[i].marks - 1]]
      BY <1>1, <2>2 DEF MarkUnsaved, Tab
    <3> QED BY <3>2, <3>3
  <2> QED BY <2>1, <2>2
<1>4. DOMAIN tabs' = DOMAIN tabs /\ tabs' = [j \in DOMAIN tabs |-> tabs'[j]]
  BY <1>3
<1>5. \A j \in DOMAIN tabs : tabs'[j] \in Tab
  BY <1>3, TabTyped
<1> QED BY <1>4, <1>5, TabsTyped

\* The tabs when one is closed.
LEMMA ClosedTyped ==
  ASSUME tabs \in Seq(Tab), NEW i \in DOMAIN tabs
  PROVE  RemoveAt(tabs, i) \in Seq(Tab)
<1>1. Len(tabs) \in Nat /\ i \in 1..Len(tabs) /\ \A j \in 1..Len(tabs) : tabs[j] \in Tab
  BY TabTyped
<1>2. SubSeq(tabs, 1, i - 1) \in Seq(Tab)
  <2>1. 1 \in Int /\ i - 1 \in Int /\ \A j \in 1..i - 1 : tabs[j] \in Tab
    BY <1>1
  <2> QED BY <2>1, SubSeqProperties
<1>3. SubSeq(tabs, i + 1, Len(tabs)) \in Seq(Tab)
  <2>1. i + 1 \in Int /\ Len(tabs) \in Int /\ \A j \in i + 1..Len(tabs) : tabs[j] \in Tab
    BY <1>1
  <2> QED BY <2>1, SubSeqProperties
<1> QED BY <1>2, <1>3, ConcatProperties DEF RemoveAt

-----------------------------------------------------------------------------
(* Saving tabs *)

\* A set of tabs has a last one.
LEMMA LastOf ==
  ASSUME NEW n \in Nat, NEW S, S \subseteq 1..n, S # {}
  PROVE  \E i \in S : \A j \in S : j <= i
<1>1. PICK T : T = {m \in Nat : n - m \in S}
  OBVIOUS
<1>2. \A i \in S : n - i \in T
  <2>1. \A i \in 1..n : n - i \in Nat /\ n - (n - i) = i
    OBVIOUS
  <2> QED BY <1>1, <2>1
<1>3. PICK m \in T : \A l \in T : m <= l
  BY <1>1, <1>2, Least
<1>4. n - m \in S
  BY <1>1
<1>5. ASSUME NEW j \in S PROVE j <= n - m
  <2>1. m <= n - j /\ j \in 1..n /\ m \in Nat
    BY <1>1, <1>2, <1>3
  <2> QED BY <2>1
<1> QED BY <1>4, <1>5

\* Saving writes the texts of tabs to the keys of their Tags, and leaves the rest.
LEMMA FilesSavedIs ==
  ASSUME tabs \in Seq(Tab), NEW S, S \subseteq DOMAIN tabs,
         NEW keys, keys = {Key(tabs[i].tag) : i \in S}
  PROVE  /\ DOMAIN FilesSaved(S) = DOMAIN files \cup keys /\ IsFiniteSet(keys)
         /\ \A k \in keys : \E i \in S : Key(tabs[i].tag) = k /\ FilesSaved(S)[k] = tabs[i].text
         /\ \A k \in DOMAIN files \ keys : FilesSaved(S)[k] = files[k]
<1>1. DOMAIN tabs = 1..Len(tabs) /\ Len(tabs) \in Nat
  BY TabTyped
<1> DEFINE last(k) == CHOOSE i \in S : /\ Key(tabs[i].tag) = k
                                       /\ \A j \in S : Key(tabs[j].tag) = k => j <= i
<1>2. FilesSaved(S) = [k \in DOMAIN files \cup keys |-> IF k \in keys THEN tabs[last(k)].text ELSE files[k]]
  BY DEF FilesSaved
<1>3. ASSUME NEW k \in keys PROVE last(k) \in S /\ Key(tabs[last(k)].tag) = k
  <2>1. PICK T : T = {i \in S : Key(tabs[i].tag) = k}
    OBVIOUS
  <2>2. T \subseteq 1..Len(tabs) /\ T # {}
    BY <1>1, <2>1
  <2>3. PICK i \in T : \A j \in T : j <= i
    BY <1>1, <2>2, LastOf
  <2>4. i \in S /\ Key(tabs[i].tag) = k /\ \A j \in S : Key(tabs[j].tag) = k => j <= i
    BY <2>1, <2>3
  <2> QED BY <2>4
<1> HIDE DEF last
<1>4. IsFiniteSet(keys)
  <2>1. PICK f : f = [i \in S |-> Key(tabs[i].tag)]
    OBVIOUS
  <2>2. f \in Surjection(S, keys)
    <3>1. f \in [S -> keys]
      BY <2>1
    <3>2. \A k \in keys : \E i \in S : f[i] = k
      BY <2>1
    <3> QED BY <3>1, <3>2 DEF Surjection
  <2>3. IsFiniteSet(S)
    <3>1. 1 \in Int /\ Len(tabs) \in Int
      BY <1>1
    <3>2. IsFiniteSet(1..Len(tabs))
      BY <3>1, FS_Interval
    <3> QED BY <1>1, <3>2, FS_Subset
  <2> QED BY <2>2, <2>3, FS_Surjection
<1> QED BY <1>2, <1>3, <1>4

\* Tabs that can be saved leave a disk, and texts in its files.
LEMMA SavedDisk ==
  ASSUME tabs \in Seq(Tab), NEW S, S \subseteq DOMAIN tabs, \A i \in S : Savable(tabs[i]),
         NEW c, DiskInv(DOMAIN files, dirs, c), \A k \in DOMAIN files : files[k] \in Texts
  PROVE  /\ DiskInv(DOMAIN FilesSaved(S), dirs, c)
         /\ DOMAIN files \subseteq DOMAIN FilesSaved(S)
         /\ \A k \in DOMAIN FilesSaved(S) : FilesSaved(S)[k] \in Texts
<1>1. PICK keys : keys = {Key(tabs[i].tag) : i \in S}
  OBVIOUS
<1>2. /\ DOMAIN FilesSaved(S) = DOMAIN files \cup keys /\ IsFiniteSet(keys)
      /\ \A k \in keys : \E i \in S : Key(tabs[i].tag) = k /\ FilesSaved(S)[k] = tabs[i].text
      /\ \A k \in DOMAIN files \ keys : FilesSaved(S)[k] = files[k]
  <2>1. DOMAIN FilesSaved(S) = DOMAIN files \cup keys /\ IsFiniteSet(keys)
    BY <1>1, FilesSavedIs
  <2>2. \A k \in keys : \E i \in S : Key(tabs[i].tag) = k /\ FilesSaved(S)[k] = tabs[i].text
    BY <1>1, FilesSavedIs
  <2>3. \A k \in DOMAIN files \ keys : FilesSaved(S)[k] = files[k]
    BY <1>1, FilesSavedIs
  <2> QED BY <2>1, <2>2, <2>3
<1>3. \A i \in S : tabs[i].tag \in Path /\ tabs[i].text \in Texts
  BY TabTyped
<1>4. \A k \in keys : \E p \in Path : k = Key(p) /\ Writable(dirs, p)
  BY <1>1, <1>3 DEF Savable
<1>5. DiskInv(DOMAIN files \cup keys, dirs, c)
  BY <1>2, <1>4, FilesAdded
<1>6. ASSUME NEW k \in DOMAIN files \cup keys PROVE FilesSaved(S)[k] \in Texts
  BY <1>2, <1>3
<1> QED BY <1>2, <1>5, <1>6

\* The tabs that a loop over all of them saves can be saved.
LEMMA SavedTabsAre ==
  ASSUME tabs \in Seq(Tab)
  PROVE  SavedTabs \subseteq DOMAIN tabs /\ \A i \in SavedTabs : Savable(tabs[i])
<1>1. DOMAIN tabs = 1..Len(tabs) /\ Len(tabs) \in Nat
  BY TabTyped
<1>2. \A i \in 1..Len(tabs) : i \in 1..i
  BY <1>1
<1> QED BY <1>1, <1>2 DEF SavedTabs

-----------------------------------------------------------------------------
(* What a step does to the disk and the tree *)

FilesInv(fs, ds, c) == DiskInv(DOMAIN fs, ds, c) /\ \A k \in DOMAIN fs : fs[k] \in Texts

\* The invariant.
TypeInv ==
    /\ FilesInv(files, dirs, clicks)
    /\ TreeInv(tree)
    /\ tabs \in Seq(Tab)
    /\ exported \in Texts \cup {NoText}
    /\ clicks \in 0..MaxClicks

\* A file is written where one can be.
LEMMA WithFile ==
  ASSUME NEW fs, NEW ds, NEW c, FilesInv(fs, ds, c),
         NEW p \in Path, Writable(ds, p), NEW v \in Texts
  PROVE  FilesInv(With(fs, Key(p), v), ds, c)
<1>1. PICK k, gs : k = Key(p) /\ gs = With(fs, k, v)
  OBVIOUS
<1>2. DOMAIN gs = DOMAIN fs \cup {k} /\ \A q \in DOMAIN gs : gs[q] = IF q = k THEN v ELSE fs[q]
  BY <1>1 DEF With
<1>3. IsFiniteSet({k})
  BY FS_Singleton
<1>4. DiskInv(DOMAIN fs \cup {k}, ds, c)
  BY <1>1, <1>3, FilesAdded DEF FilesInv
<1> QED BY <1>1, <1>2, <1>4 DEF FilesInv

\* Files are deleted.
LEMMA WithoutFiles ==
  ASSUME NEW fs, NEW ds, NEW c, FilesInv(fs, ds, c), NEW ks
  PROVE  FilesInv(Without(fs, ks), ds, c)
<1>1. PICK gs : gs = Without(fs, ks)
  OBVIOUS
<1>2. DOMAIN gs = DOMAIN fs \ ks /\ \A q \in DOMAIN gs : gs[q] = fs[q]
  BY <1>1 DEF Without
<1>3. DiskInv(DOMAIN gs, ds, c)
  BY <1>2, FilesFewer DEF FilesInv
<1> QED BY <1>1, <1>2, <1>3 DEF FilesInv

\* The bound on operations.
LEMMA ClickIs ==
  ASSUME TypeInv, Click
  PROVE  /\ clicks \in Nat /\ clicks' = clicks + 1 /\ clicks' \in 0..MaxClicks
         /\ FilesInv(files, dirs, clicks')
<1>1. MaxClicks \in Nat /\ clicks \in 0..MaxClicks /\ clicks < MaxClicks /\ clicks' = clicks + 1
  BY WorkspaceAssumption DEF TypeInv, Click
<1>2. clicks \in Nat /\ clicks + 1 \in 0..MaxClicks
  BY <1>1
<1>3. FilesInv(files, dirs, clicks + 1)
  BY <1>2, LaterUnused DEF TypeInv, FilesInv
<1> QED BY <1>1, <1>2, <1>3

\* The words of the program are names.
LEMMA Words ==
  /\ <<"code">> \in Path /\ Named(<<"code">>) /\ <<"folder">> \in Path /\ Named(<<"folder">>)
<1>1. {"code", "folder"} \subseteq Parts
  BY WorkspaceAssumption
<1>2. "code" \notin {Sep, Sep2} /\ "folder" \notin {Sep, Sep2}
  BY DEF Sep, Sep2
<1>3. ASSUME NEW x \in Parts, x \notin {Sep, Sep2} PROVE <<x>> \in Path /\ Named(<<x>>)
  BY <1>3, OnePart DEF Named
<1> QED BY <1>1, <1>2, <1>3

\* A project's folder and its data folder are a disk.
LEMMA EmptyProject ==
  ASSUME NEW c
  PROVE  DiskInv({}, {ProjectDir, DataDir}, c) /\ DiskInv({}, {}, c)
<1>1. DataDir \in Path /\ Len(DataDir) = 3 /\ DataDir[1] = "P" /\ DataDir[2] = Sep /\ DataDir[3] = "data"
  BY DataDirIs
<1>2. ProjectDir \in Path /\ Len(ProjectDir) = 1 /\ ProjectDir[1] = "P"
  BY SepFacts, OnePart DEF ProjectDir
<1>3. /\ "P" \notin {Sep2, "Data", Sep} /\ Sep \notin {Sep2, "Data"} /\ "data" \notin {Sep2, "Data", Sep}
  BY SepFacts
<1>4. ASSUME NEW p \in Path, Len(p) = 1, p[1] = "P" PROVE IsKey(p) /\ Named(p) /\ LastSep(p) = 0
  <2>1. DOMAIN p = 1..1 /\ p # <<>>
    BY <1>4, PathParts
  <2>2. \A i \in 1..1 : p[i] = "P"
    BY <1>4
  <2>3. LastSep(p) = 0
    <3>1. 0 \in 0..Len(p) /\ \A j \in 0 + 1..Len(p) : p[j] \notin Seps
      BY <1>3, <1>4, <2>2 DEF Seps
    <3> QED BY <3>1, LastSepIf
  <2> QED BY <1>3, <1>4, <2>1, <2>2, <2>3 DEF IsKey, Named, Path
<1>5. ASSUME NEW p \in Path, Len(p) = 3, p[1] = "P", p[2] = Sep, p[3] = "data"
      PROVE  IsKey(p) /\ Named(p) /\ LastSep(p) = 2
  <2>1. DOMAIN p = 1..3 /\ p # <<>>
    BY <1>5, PathParts
  <2>2. \A i \in 1..3 : i = 1 \/ i = 2 \/ i = 3
    OBVIOUS
  <2>3. LastSep(p) = 2
    <3>1. 2 \in 0..Len(p) /\ p[2] \in Seps
      BY <1>5 DEF Seps
    <3>2. \A j \in 2 + 1..Len(p) : j = 3
      BY <1>5
    <3>3. \A j \in 2 + 1..Len(p) : p[j] \notin Seps
      BY <1>3, <1>5, <3>2 DEF Seps
    <3> QED BY <3>1, <3>3, LastSepIf
  <2>4. \A i \in 1..3 : p[i] \notin {Sep2, "Data"}
    BY <1>3, <1>5, <2>2
  <2> QED BY <1>3, <1>5, <2>1, <2>3, <2>4 DEF IsKey, Named, Path
<1>6. DirOf(DataDir) = ProjectDir
  <2>1. PICK d, p : d = DirOf(DataDir) /\ p = ProjectDir
    OBVIOUS
  <2>2. LastSep(DataDir) = 2
    BY <1>1, <1>5
  <2>3. d \in Path /\ Len(d) = 2 - 1 /\ \A i \in 1..2 - 1 : d[i] = DataDir[i]
    BY <1>1, <2>1, <2>2, DirParts
  <2>4. \A i \in 1..1 : i = 1
    OBVIOUS
  <2>5. p \in Path /\ Len(p) = 1 /\ Len(d) = 1 /\ \A i \in 1..1 : d[i] = p[i]
    BY <1>1, <1>2, <2>1, <2>3, <2>4
  <2>6. d = p
    BY <2>3, <2>5, SamePath
  <2> QED BY <2>1, <2>6
<1>7. IsKey(ProjectDir) /\ Named(ProjectDir) /\ LastSep(ProjectDir) = 0
  BY <1>2, <1>4
<1>8. IsKey(DataDir) /\ Named(DataDir)
  BY <1>1, <1>5
<1>9. IsDisk({}, {ProjectDir, DataDir})
  BY <1>6, <1>7 DEF IsDisk
<1>10. IsFiniteSet({}) /\ IsFiniteSet({ProjectDir, DataDir})
  <2>1. {ProjectDir, DataDir} = ({} \cup {ProjectDir}) \cup {DataDir}
    OBVIOUS
  <2>2. IsFiniteSet({})
    BY FS_EmptySet
  <2>3. IsFiniteSet({} \cup {ProjectDir})
    BY <2>2, FS_AddElement
  <2>4. IsFiniteSet(({} \cup {ProjectDir}) \cup {DataDir})
    BY <2>3, FS_AddElement
  <2> QED BY <2>1, <2>2, <2>4
<1>11. Unused(ProjectDir, c) /\ Unused(DataDir, c)
  BY <1>1, <1>2, ProjectUnused
<1>12. DiskInv({}, {ProjectDir, DataDir}, c)
  BY <1>7, <1>8, <1>9, <1>10, <1>11 DEF DiskInv
<1>13. DiskInv({}, {}, c)
  BY <1>10 DEF DiskInv, IsDisk
<1> QED BY <1>12, <1>13

\* No tree at all is one.
LEMMA EmptyTree == TreeInv(<<>>)
<1>1. DOMAIN <<>> = {} /\ IsFiniteSet({})
  BY FS_EmptySet
<1>2. PICK t : t = <<>>
  OBVIOUS
<1>3. DOMAIN t = {} /\ t \in [DOMAIN t -> Node]
  <2>1. t \in [{} -> Node]
    <3>1. t \in Seq(Node) /\ Len(t) = 0
      BY <1>2
    <3>2. t \in [1..Len(t) -> Node]
      BY <3>1, LenProperties
    <3>3. 1..0 = {}
      OBVIOUS
    <3> QED BY <3>1, <3>2, <3>3
  <2> QED BY <2>1
<1>4. NodesOK(t) /\ Rooted(t)
  BY <1>1, <1>2, <1>3 DEF NodesOK, Rooted
<1> QED BY <1>2, <1>4 DEF TreeInv

\* What may be on disk beforehand is a disk.
LEMMA ProjectOnDisk == FilesInv(OnDisk, DirsOnDisk, 0)
<1>1. PICK fs, ds : fs = DOMAIN OnDisk /\ ds = DirsOnDisk
  OBVIOUS
<1>2. IsFiniteSet(fs) /\ IsDisk(fs, ds) /\ \A k \in fs \cup ds : Named(k)
  BY <1>1, WorkspaceAssumption
<1>3. \A k \in fs : IsKey(k) /\ Inside(k, DataDir) /\ k \in Path
  BY <1>1, WorkspaceAssumption DEF IsKey, Path
<1>4. ds = {ProjectDir, DataDir} \cup {DirOf(k) : k \in fs}
  BY <1>1 DEF DirsOnDisk
<1>5. DiskInv({}, {ProjectDir, DataDir}, 0)
  BY EmptyProject
<1>6. ASSUME NEW k \in fs PROVE IsKey(DirOf(k)) /\ Unused(DirOf(k), 0)
  <2>1. LastSep(k) # 0 /\ (DirOf(k) = DataDir \/ Inside(DirOf(k), DataDir))
    BY <1>3, DataDirIs, DirInside
  <2>2. IsKey(DirOf(k)) /\ DirOf(k) \in Path
    BY <1>3, <2>1, KeyInDir DEF IsKey, Path
  <2>3. DirOf(k)[1] = "P"
    <3>1. DataDir \in Path /\ 1 \in 1..Len(DataDir) /\ DataDir[1] = "P"
      BY DataDirIs
    <3> QED BY <2>1, <2>2, <3>1, InsideParts
  <2> QED BY <2>2, <2>3, ProjectUnused
<1>7. \A d \in ds : IsKey(d) /\ Unused(d, 0)
  BY <1>4, <1>5, <1>6 DEF DiskInv
<1>8. IsFiniteSet(ds)
  <2>1. PICK T, f : T = {DirOf(k) : k \in fs} /\ f = [k \in fs |-> DirOf(k)]
    OBVIOUS
  <2>2. f \in Surjection(fs, T)
    <3>1. f \in [fs -> T]
      BY <2>1
    <3>2. \A d \in T : \E k \in fs : f[k] = d
      BY <2>1
    <3> QED BY <3>1, <3>2 DEF Surjection
  <2>3. IsFiniteSet(T)
    BY <1>2, <2>2, FS_Surjection
  <2> QED BY <1>4, <1>5, <2>1, <2>3, FS_Union DEF DiskInv
<1>9. DiskInv(fs, ds, 0)
  BY <1>2, <1>3, <1>4, <1>7, <1>8 DEF DiskInv
<1> QED BY <1>1, <1>9, WorkspaceAssumption DEF FilesInv

\* The program starts with a disk that is one and with nothing open.
LEMMA InitTypeInv == Init => TypeInv
<1>1. ASSUME Init PROVE TypeInv
  <2>1. FilesInv(files, dirs, clicks)
    <3>1. CASE files = <<>> /\ dirs = {}
      <4>1. DOMAIN files = {}
        BY <3>1
      <4> QED BY <3>1, <4>1, EmptyProject DEF FilesInv
    <3>2. CASE files = OnDisk /\ dirs = DirsOnDisk
      BY <1>1, <3>2, ProjectOnDisk DEF Init
    <3> QED BY <1>1, <3>1, <3>2 DEF Init
  <2>2. TreeInv(tree)
    BY <1>1, EmptyTree DEF Init
  <2>3. tabs \in Seq(Tab)
    BY <1>1 DEF Init
  <2>4. exported \in Texts \cup {NoText} /\ clicks \in 0..MaxClicks
    BY <1>1, WorkspaceAssumption DEF Init
  <2> QED BY <2>1, <2>2, <2>3, <2>4 DEF TypeInv
<1> QED BY <1>1

-----------------------------------------------------------------------------
(* Operations on tabs *)

\* The disk after the tabs of S are saved, and the tabs
LEMMA SavedInv ==
  ASSUME TypeInv, NEW S, S \subseteq DOMAIN tabs, \A i \in S : Savable(tabs[i])
  PROVE  FilesInv(FilesSaved(S), dirs, clicks) /\ TabsSaved(S) \in Seq(Tab)
<1>1. /\ DiskInv(DOMAIN FilesSaved(S), dirs, clicks)
      /\ \A k \in DOMAIN FilesSaved(S) : FilesSaved(S)[k] \in Texts
  BY SavedDisk DEF TypeInv, FilesInv
<1> QED BY <1>1, SavedTyped DEF TypeInv, FilesInv

\* Every step on a tab keeps the invariant.
LEMMA OnTabTyped ==
  ASSUME TypeInv, NEW i \in DOMAIN tabs, OnTab(i)
  PROVE  TypeInv'
<1>1. CASE (\E text \in Texts : Edit(i, text)) \/ MarkUnsaved(i)
  <2>1. tabs' \in Seq(Tab)
    BY <1>1, EditTyped DEF TypeInv
  <2>2. UNCHANGED <<files, dirs, tree, exported, clicks>>
    BY <1>1 DEF Edit, MarkUnsaved
  <2> QED BY <2>1, <2>2 DEF TypeInv
<1>2. CASE CloseTab(i)
  <2>1. tabs' \in Seq(Tab)
    BY <1>2, ClosedTyped DEF TypeInv, CloseTab
  <2> QED BY <1>2, <2>1 DEF TypeInv, CloseTab
<1>3. CASE Save(i)
  <2>1. FilesInv(files', dirs, clicks) /\ tabs' \in Seq(Tab)
    BY <1>3, SavedInv DEF Save
  <2> QED BY <1>3, <2>1 DEF TypeInv, Save
<1> QED BY <1>1, <1>2, <1>3 DEF OnTab

\* So do Save All, Build and a restart.
LEMMA AllTabsTyped ==
  ASSUME TypeInv, SaveAll \/ BuildProject \/ Restart
  PROVE  TypeInv'
<1>1. FilesInv(FilesSaved(SavedTabs), dirs, clicks) /\ TabsSaved(SavedTabs) \in Seq(Tab)
  BY SavedInv, SavedTabsAre DEF TypeInv
<1>2. CASE SaveAll
  BY <1>1, <1>2 DEF SaveAll, TypeInv
<1>3. CASE BuildProject
  BY <1>1, <1>3 DEF BuildProject, TypeInv
<1>4. CASE Restart
  <2>1. TreeInv(tree')
    BY <1>4, EmptyTree DEF Restart
  <2> QED BY <1>4, <2>1 DEF Restart, TypeInv
<1> QED BY <1>2, <1>3, <1>4

\* What a node carries, and what is a file's path
LEMMA TagIs ==
  ASSUME TypeInv, NEW n \in DOMAIN tree
  PROVE  tree[n].parent \in Int /\ tree[n].text \in Path /\ tree[n].tag \in Path
BY NodeParts DEF TypeInv, TreeInv

\* Opening a file, exporting it and loading one into it keep the invariant.
LEMMA FileReadTyped ==
  ASSUME TypeInv, NEW n \in DOMAIN tree, SaveAs(n) \/ LoadInto(n) \/ OpenNode(n)
  PROVE  TypeInv'
<1>1. tree[n].tag \in Path
  BY TagIs
<1>2. CASE SaveAs(n)
  <2>1. Click
    BY <1>2 DEF SaveAs
  <2>2. FilesInv(files, dirs, clicks') /\ clicks' \in 0..MaxClicks
    BY <2>1, ClickIs
  <2>3. exported' \in Texts
    BY <1>2 DEF SaveAs, TypeInv, FilesInv
  <2> QED BY <1>2, <2>2, <2>3 DEF SaveAs, TypeInv
<1>3. CASE LoadInto(n)
  <2>1. Click
    BY <1>3 DEF LoadInto
  <2>2. FilesInv(files, dirs, clicks') /\ clicks' \in 0..MaxClicks
    BY <2>1, ClickIs
  <2>3. FilesInv(files', dirs, clicks')
    <3>1. CASE exported = NoText
      BY <1>3, <2>2, <3>1, WithoutFiles DEF LoadInto
    <3>2. CASE exported # NoText
      <4>1. exported \in Texts
        BY <3>2 DEF TypeInv
      <4>2. Writable(dirs, tree[n].tag) /\ files' = With(files, Key(tree[n].tag), exported)
        BY <1>3, <3>2 DEF LoadInto
      <4> QED BY <1>1, <2>2, <4>1, <4>2, WithFile
    <3> QED BY <3>1, <3>2
  <2> QED BY <1>3, <2>2, <2>3 DEF LoadInto, TypeInv
<1>4. CASE OpenNode(n)
  <2>1. Click
    BY <1>4 DEF OpenNode
  <2>2. FilesInv(files, dirs, clicks') /\ clicks' \in 0..MaxClicks
    BY <2>1, ClickIs
  <2>3. PICK late \in 0..MaxMarks :
            tabs' = Opened(tabs, tree[n].tag, files[Key(tree[n].tag)], late)
    BY <1>4 DEF OpenNode
  <2>4. files[Key(tree[n].tag)] \in Texts
    BY <1>4 DEF OpenNode, TypeInv, FilesInv
  <2>5. tabs' \in Seq(Tab)
    BY <1>1, <2>3, <2>4, OpenedTyped DEF TypeInv
  <2> QED BY <1>4, <2>2, <2>5 DEF OpenNode, TypeInv
<1> QED BY <1>2, <1>3, <1>4

\* So do Delete and Remove.
LEMMA GoneTyped ==
  ASSUME TypeInv, NEW n \in DOMAIN tree, DeleteFile(n) \/ RemoveNode(n)
  PROVE  TypeInv'
<1>1. Click
  BY DEF DeleteFile, RemoveNode
<1>2. FilesInv(files, dirs, clicks') /\ clicks' \in 0..MaxClicks
  BY <1>1, ClickIs
<1>3. TreeInv(tree')
  BY NodeGone DEF DeleteFile, RemoveNode, TypeInv
<1>4. CASE DeleteFile(n)
  <2>1. FilesInv(files', dirs, clicks')
    BY <1>2, <1>4, WithoutFiles DEF DeleteFile
  <2> QED BY <1>2, <1>3, <1>4, <2>1 DEF DeleteFile, TypeInv
<1>5. CASE RemoveNode(n)
  <2>1. FilesInv(files', dirs', clicks')
    <3>1. CASE n = Root
      BY <1>2, <1>5, <3>1 DEF RemoveNode
    <3>2. CASE n # Root
      <4>1. PICK dir, gone : dir = FolderKey(n) /\ gone = {k \in Taken : k = dir \/ Inside(k, dir)}
        OBVIOUS
      <4>2. files' = Without(files, gone) /\ dirs' = dirs \ gone
        BY <1>5, <3>2, <4>1 DEF RemoveNode
      <4>3. dir \in Path /\ Len(dir) > 1
        BY <4>1, FolderKeyIs DEF TypeInv
      <4>4. gone = {k \in DOMAIN files \cup dirs : Within(k, dir)}
        BY <4>1 DEF Taken, Within
      <4>5. DiskInv((DOMAIN files) \ gone, dirs \ gone, clicks')
        BY <1>2, <4>3, <4>4, FolderGone DEF FilesInv
      <4>6. DOMAIN files' = (DOMAIN files) \ gone /\ \A k \in DOMAIN files' : files'[k] = files[k]
        BY <4>2 DEF Without
      <4> QED BY <1>2, <4>2, <4>5, <4>6 DEF FilesInv
    <3> QED BY <3>1, <3>2
  <2> QED BY <1>2, <1>3, <1>5, <2>1 DEF RemoveNode, TypeInv
<1> QED BY <1>4, <1>5

-----------------------------------------------------------------------------
(* Operations on the project *)

\* A new project's main file can be created.
LEMMA MainWritable ==
  ASSUME NEW main, main = <<"P", Sep, "Data", Sep, "main">>
  PROVE  main \in Path /\ Writable({ProjectDir, DataDir}, main)
<1>1. "P" \in Parts /\ Sep \in Parts /\ "Data" \in Parts /\ "main" \in Parts
  BY WorkspaceAssumption, SepFacts
<1>2. /\ main \in Path /\ Len(main) = 5 /\ DOMAIN main = 1..5 /\ main[1] = "P" /\ main[2] = Sep
      /\ main[3] = "Data" /\ main[4] = Sep /\ main[5] = "main"
  BY <1>1 DEF Path
<1>3. /\ "P" \notin {Sep, Sep2, "Data"} /\ Sep \notin {Sep2, "Data"}
      /\ "main" \notin {Sep, Sep2, "Data"} /\ Bad \notin {"P", Sep, "Data", "main"}
  BY DEF Sep, Sep2, Bad
<1>4. \A i \in 1..5 : i = 1 \/ i = 2 \/ i = 3 \/ i = 4 \/ i = 5
  OBVIOUS
<1>5. Named(main) /\ \A i \in DOMAIN main : main[i] # Bad
  <2>1. main # <<>>
    BY <1>2
  <2>2. \A i \in 1..5 : main[i] # Bad
    BY <1>2, <1>3, <1>4
  <2> QED BY <1>2, <1>3, <2>1, <2>2 DEF Named
<1>6. PICK k : k = Key(main)
  OBVIOUS
<1>7. /\ k \in Path /\ Len(k) = 5 /\ k[1] = "P" /\ k[2] = Sep /\ k[3] = "data" /\ k[4] = Sep
      /\ k[5] = "main"
  <2>1. k \in Path /\ Len(k) = 5
    BY <1>2, <1>6, KeyParts
  <2>2. k = [i \in 1..5 |-> CASE main[i] = Sep2 -> Sep [] main[i] = "Data" -> "data" [] OTHER -> main[i]]
    BY <1>2, <1>6 DEF Key
  <2>3. k[1] = "P" /\ k[2] = Sep /\ k[4] = Sep /\ k[5] = "main"
    BY <1>2, <1>3, <2>2
  <2>4. k[3] = "data"
    BY <1>2, <1>3, <2>2 DEF Sep2
  <2> QED BY <2>1, <2>3, <2>4
<1>8. LastSep(k) = 4
  <2>1. 4 \in 0..Len(k) /\ k[4] \in Seps
    BY <1>7 DEF Seps
  <2>2. \A j \in 4 + 1..Len(k) : j = 5
    BY <1>7
  <2>3. \A j \in 4 + 1..Len(k) : k[j] \notin Seps
    BY <1>3, <1>7, <2>2 DEF Seps
  <2> QED BY <1>7, <2>1, <2>3, LastSepIf
<1>9. DirOf(k) = DataDir
  <2>1. PICK d, e : d = DirOf(k) /\ e = DataDir
    OBVIOUS
  <2>2. d \in Path /\ Len(d) = 4 - 1 /\ \A i \in 1..4 - 1 : d[i] = k[i]
    BY <1>7, <1>8, <2>1, DirParts
  <2>3. e \in Path /\ Len(e) = 3 /\ e[1] = "P" /\ e[2] = Sep /\ e[3] = "data"
    BY <2>1, DataDirIs
  <2>4. \A i \in 1..3 : i = 1 \/ i = 2 \/ i = 3
    OBVIOUS
  <2>5. Len(d) = Len(e) /\ \A i \in 1..Len(d) : d[i] = e[i]
    BY <1>7, <2>2, <2>3, <2>4
  <2>6. d = e
    BY <2>2, <2>3, <2>5, SamePath
  <2> QED BY <2>1, <2>6
<1>10. k \notin {ProjectDir, DataDir}
  <2>1. Len(DataDir) = 3 /\ Len(ProjectDir) = 1
    BY DataDirIs DEF ProjectDir
  <2> QED BY <1>7, <2>1
<1> QED BY <1>2, <1>5, <1>6, <1>9, <1>10 DEF Writable, Legal

\* New and Open keep the invariant.
LEMMA ProjectTyped ==
  ASSUME TypeInv, NewProject \/ OpenProject
  PROVE  TypeInv'
<1>1. CASE NewProject
  <2>0. PICK main : main = <<"P", Sep, "Data", Sep, "main">>
    OBVIOUS
  <2>1. /\ ProjectDir \notin dirs
        /\ dirs' = {ProjectDir, DataDir}
        /\ files' = With(files, Key(main), Template)
        /\ tree' = LoadedTree(files', dirs')
        /\ \E late \in 0..MaxMarks : tabs' = Opened(tabs, main, Template, late)
        /\ UNCHANGED <<exported, clicks>>
    <3>1. PICK late \in 0..MaxMarks :
            /\ ProjectDir \notin dirs
            /\ dirs' = {ProjectDir, DataDir}
            /\ files' = With(files, Key(<<"P", Sep, "Data", Sep, "main">>), Template)
            /\ tree' = LoadedTree(files', dirs')
            /\ tabs' = Opened(tabs, <<"P", Sep, "Data", Sep, "main">>, Template, late)
            /\ UNCHANGED <<exported, clicks>>
      BY <1>1 DEF NewProject
    <3> QED BY <2>0, <3>1
  <2>2. main \in Path /\ Writable({ProjectDir, DataDir}, main)
    BY <2>0, MainWritable
  <2>3. Template \in Texts
    BY WorkspaceAssumption
  <2>4. DOMAIN files = {}
    <3>1. dirs = {}
      BY <2>1 DEF TypeInv, FilesInv, DiskInv
    <3> QED BY <3>1 DEF TypeInv, FilesInv, DiskInv, IsDisk
  <2>5. FilesInv(files, {ProjectDir, DataDir}, clicks)
    BY <2>4, EmptyProject DEF FilesInv
  <2>6. FilesInv(files', dirs', clicks')
    BY <2>1, <2>2, <2>3, <2>5, WithFile
  <2>7. TreeInv(tree')
    BY <2>1, <2>6, LoadedIsTree DEF FilesInv
  <2>8. tabs' \in Seq(Tab)
    BY <2>1, <2>2, <2>3, OpenedTyped DEF TypeInv
  <2> QED BY <2>1, <2>6, <2>7, <2>8 DEF TypeInv
<1>2. CASE OpenProject
  <2>1. TreeInv(tree')
    BY <1>2, LoadedIsTree DEF OpenProject, TypeInv, FilesInv
  <2> QED BY <1>2, <2>1 DEF OpenProject, TypeInv
<1> QED BY <1>1, <1>2

-----------------------------------------------------------------------------
(* New files and folders *)

\* There are finitely many files and folders.
LEMMA TakenFinite ==
  ASSUME TypeInv
  PROVE  IsFiniteSet(DOMAIN files) /\ IsFiniteSet(dirs) /\ IsFiniteSet(Taken)
<1>1. IsFiniteSet(DOMAIN files) /\ IsFiniteSet(dirs)
  BY DEF TypeInv, FilesInv, DiskInv
<1> QED BY <1>1, FS_Union DEF Taken

\* The path of a node.
LEMMA NodePathGood ==
  ASSUME TypeInv, NEW n \in DOMAIN tree
  PROVE  GoodPath(NodePath[n]) /\ NodePath[n] \in Path
<1>1. tree # <<>>
  OBVIOUS
<1> QED BY <1>1, NodePathIs DEF TypeInv, GoodPath

\* A name below the path of a node, in the form drag and drop writes it
LEMMA DroppedPath ==
  ASSUME TypeInv, Numerals, NEW n \in DOMAIN tree, NEW name \in Labels \cup {Dropped},
         NEW taken, IsFiniteSet(taken),
         NEW r, r = RightPath(taken, Doubled(NodePath[n]) \o name)
  PROVE  r \in Path /\ Key(r) \notin taken /\ Plain(NameOf(r))
<1>1. PICK p : p = NodePath[n]
  OBVIOUS
<1>2. p \in Path /\ Len(p) \in Nat /\ Len(p) >= 4
  BY <1>1, NodePathGood, PathParts DEF GoodPath
<1>3. Doubled(p) \in Path
  <2>1. 1 \in 1..Len(p) + 1 /\ Len(p) - 1 \in Int /\ 1 - 1 <= Len(p) - 1 /\ Len(p) - 1 <= Len(p)
    BY <1>2
  <2>2. Front(p) \in Path
    BY <1>2, <2>1, PieceParts DEF Front
  <2> QED BY <2>2, SepFacts DEF Doubled, Path
<1>4. name \in Path /\ Named(name)
  BY WorkspaceAssumption DEF Path
<1>5. Doubled(p) \o name \in Path /\ Named(Doubled(p) \o name)
  BY <1>3, <1>4, NameBelow
<1>6. r \in Path /\ Key(r) \notin taken /\ Named(r)
  BY <1>1, <1>5, RightPathNamed
<1> QED BY <1>6, NamePlain

\* Dragging a file in keeps the invariant.
LEMMA DropTyped ==
  ASSUME TypeInv, Numerals, NEW n \in DOMAIN tree, NEW text \in Texts, DropFile(n, text)
  PROVE  TypeInv'
<1>1. FilesInv(files, dirs, clicks') /\ clicks' \in 0..MaxClicks
  BY ClickIs DEF DropFile
<1>2. PICK path : path = RightPath(Taken, Doubled(NodePath[n]) \o Dropped)
  OBVIOUS
<1>3. path \in Path /\ Plain(NameOf(path))
  BY <1>2, TakenFinite, DroppedPath
<1>4. /\ Writable(dirs, path) /\ files' = With(files, Key(path), text)
      /\ tree' = WithNode(n, NameOf(path), path) /\ UNCHANGED <<dirs, tabs, exported>>
  BY <1>2 DEF DropFile
<1>5. FilesInv(files', dirs, clicks')
  BY <1>1, <1>3, <1>4, WithFile
<1>6. TreeInv(tree')
  BY <1>3, <1>4, NewLeaf DEF TypeInv
<1> QED BY <1>1, <1>4, <1>5, <1>6 DEF TypeInv

\* Add Item keeps the invariant.
LEMMA AddItemTyped ==
  ASSUME TypeInv, Numerals, NEW n \in DOMAIN tree, AddItem(n)
  PROVE  TypeInv'
<1>1. clicks' \in 0..MaxClicks /\ clicks' = clicks + 1 /\ clicks \in Nat
  BY ClickIs DEF AddItem
<1>2. PICK saved, path, us :
          /\ saved = FilesSaved(SavedTabs) /\ us = TabsSaved(SavedTabs)
          /\ path = RightPath(DOMAIN saved \cup dirs, NodePath[n] \o <<"code">>)
  OBVIOUS
<1>3. FilesInv(saved, dirs, clicks') /\ us \in Seq(Tab)
  <2>1. FilesInv(saved, dirs, clicks) /\ us \in Seq(Tab)
    BY <1>2, SavedInv, SavedTabsAre DEF TypeInv
  <2>2. DiskInv(DOMAIN saved, dirs, clicks + 1)
    BY <1>1, <2>1, LaterUnused DEF FilesInv
  <2> QED BY <1>1, <2>1, <2>2 DEF FilesInv
<1>4. path \in Path /\ Plain(NameOf(path))
  <2>1. IsFiniteSet(DOMAIN saved \cup dirs)
    BY <1>3, FS_Union DEF FilesInv, DiskInv
  <2>2. GoodPath(NodePath[n]) /\ <<"code">> \in Path /\ Named(<<"code">>)
    BY NodePathGood, Words
  <2> QED BY <1>2, <2>1, <2>2, NewPath
<1>5. UNCHANGED <<dirs, exported>>
  BY DEF AddItem
<1>6. CASE /\ Writable(dirs, path) /\ files' = With(saved, Key(path), Template)
           /\ tree' = WithNode(n, NameOf(path), path)
           /\ \E late \in 0..MaxMarks : tabs' = Opened(us, path, Template, late)
  <2>1. Template \in Texts
    BY WorkspaceAssumption
  <2>2. FilesInv(files', dirs, clicks')
    BY <1>3, <1>4, <1>6, <2>1, WithFile
  <2>3. TreeInv(tree')
    BY <1>4, <1>6, NewLeaf DEF TypeInv
  <2>4. tabs' \in Seq(Tab)
    BY <1>3, <1>4, <1>6, <2>1, OpenedTyped
  <2> QED BY <1>1, <1>5, <2>2, <2>3, <2>4 DEF TypeInv
<1>7. CASE files' = saved /\ tabs' = us /\ UNCHANGED tree
  BY <1>1, <1>3, <1>5, <1>7 DEF TypeInv
<1>8. \/ /\ Writable(dirs, path) /\ files' = With(saved, Key(path), Template)
         /\ tree' = WithNode(n, NameOf(path), path)
         /\ \E late \in 0..MaxMarks : tabs' = Opened(us, path, Template, late)
      \/ files' = saved /\ tabs' = us /\ UNCHANGED tree
  BY <1>2 DEF AddItem
<1> QED BY <1>6, <1>7, <1>8

\* In the path of a new node no separator follows another.
LEMMA NoTwoSeps ==
  ASSUME Numerals, NEW taken, IsFiniteSet(taken), NEW q, GoodPath(q), NEW x, Plain(x),
         NEW K, K = Key(RightPath(taken, q \o x))
  PROVE  \A i \in 1..Len(K) - 1 : K[i] = Sep => K[i + 1] # Sep
<1>1. PICK p, r : p = q \o x /\ r = RightPath(taken, q \o x)
  OBVIOUS
<1>2. /\ q \in Path /\ Len(q) \in Nat /\ Len(q) >= 4 /\ q[Len(q)] = Sep
      /\ \A i \in 1..Len(q) - 1 : q[i] \in Seps => q[i + 1] \notin Seps
  BY PathParts DEF GoodPath
<1>3. x \in Path /\ Named(x) /\ Len(x) \in Nat /\ \A i \in 1..Len(x) : x[i] \notin Seps
  BY PlainNamed, PathParts DEF Plain
<1>4. p \in Path /\ Named(p)
  BY <1>1, <1>2, <1>3, NameBelow
<1>5. /\ Len(p) = Len(q) + Len(x) /\ \A i \in 1..Len(q) : p[i] = q[i]
      /\ \A i \in 1..Len(x) : p[Len(q) + i] = x[i]
  BY <1>1, <1>2, <1>3, JoinParts
<1>6. /\ r \in Path /\ Len(r) >= Len(p)
      /\ \A i \in 1..Len(p) : r[i] = p[i]
      /\ \A i \in Len(p) + 1..Len(r) : r[i] \notin Seps
  <2>1. r = RightPath(taken, p)
    BY <1>1
  <2> QED BY <1>4, <2>1, RightPathNamed
<1>7. Len(r) \in Nat
  BY <1>6, PathParts
<1>8. ASSUME NEW i \in Len(q) + 1..Len(r) PROVE r[i] \notin Seps
  <2>1. CASE i <= Len(p)
    <3>1. i - Len(q) \in 1..Len(x) /\ i \in 1..Len(p) /\ Len(q) + (i - Len(q)) = i
      BY <1>2, <1>3, <1>5, <1>8, <2>1
    <3>2. p[i] = x[i - Len(q)]
      BY <1>5, <3>1
    <3> QED BY <1>3, <1>6, <3>1, <3>2
  <2>2. CASE i > Len(p)
    <3>1. i \in Len(p) + 1..Len(r)
      BY <1>2, <1>3, <1>5, <1>7, <1>8, <2>2
    <3> QED BY <1>6, <3>1
  <2> QED BY <1>2, <1>3, <1>5, <1>7, <1>8, <2>1, <2>2
<1>9. ASSUME NEW i \in 1..Len(r) - 1, r[i] \in Seps PROVE r[i + 1] \notin Seps
  <2>1. CASE i < Len(q)
    <3>1. i \in 1..Len(q) - 1 /\ i \in 1..Len(q) /\ i + 1 \in 1..Len(q)
      BY <1>2, <1>7, <1>9, <2>1
    <3>2. i \in 1..Len(p) /\ i + 1 \in 1..Len(p)
      BY <1>2, <1>3, <1>5, <3>1
    <3>3. r[i] = q[i] /\ r[i + 1] = q[i + 1]
      BY <1>5, <1>6, <3>1, <3>2
    <3> QED BY <1>2, <1>9, <3>1, <3>3
  <2>2. CASE i >= Len(q)
    <3>1. i + 1 \in Len(q) + 1..Len(r)
      BY <1>2, <1>7, <1>9, <2>2
    <3> QED BY <1>8, <3>1
  <2> QED BY <1>2, <1>7, <1>9, <2>1, <2>2
<1>10. Len(K) = Len(r) /\ \A i \in 1..Len(r) : K[i] = Sep <=> r[i] \in Seps
  BY <1>1, <1>6, KeyParts
<1>11. ASSUME NEW i \in 1..Len(K) - 1, K[i] = Sep PROVE K[i + 1] # Sep
  <2>1. i \in 1..Len(r) /\ i + 1 \in 1..Len(r) /\ i \in 1..Len(r) - 1
    BY <1>7, <1>10, <1>11
  <2> QED BY <1>9, <1>10, <1>11, <2>1
<1> QED BY <1>11

\* Add Folder keeps the invariant.
LEMMA AddFolderTyped ==
  ASSUME TypeInv, Numerals, NEW n \in DOMAIN tree, AddFolder(n)
  PROVE  TypeInv'
<1>1. FilesInv(files, dirs, clicks') /\ clicks' \in 0..MaxClicks
  BY ClickIs DEF AddFolder
<1>2. PICK path, K : path = RightPath(Taken, NodePath[n] \o <<"folder">>) /\ K = Key(path)
  OBVIOUS
<1>3. PICK above : above = {SubSeq(K, 1, i - 1) : i \in {j \in DOMAIN K : K[j] = Sep}}
  OBVIOUS
<1>4. /\ above \cap DOMAIN files = {} /\ dirs' = (dirs \cup above) \cup {K}
      /\ tree' = WithNode(n, NameOf(path), NoPath) /\ UNCHANGED <<files, tabs, exported>>
  BY <1>2, <1>3 DEF AddFolder
<1>5. GoodPath(NodePath[n]) /\ <<"folder">> \in Path /\ Named(<<"folder">>) /\ IsFiniteSet(Taken)
  BY NodePathGood, Words, TakenFinite
<1>6. /\ K \notin Taken /\ IsKey(K) /\ Named(K) /\ K \in Path /\ Len(K) >= 4
      /\ K[1] = "P" /\ K[2] = Sep /\ Plain(NameOf(path))
  BY <1>2, <1>5, NewPath
<1>7. Plain(<<"folder">>)
  <2>1. "folder" \in Parts /\ "folder" \notin Seps
    BY WorkspaceAssumption DEF Seps, Sep, Sep2
  <2>2. <<"folder">> # <<>> /\ \A i \in 1..1 : <<"folder">>[i] = "folder"
    OBVIOUS
  <2> QED BY <2>1, <2>2, OnePart DEF Plain
<1>8. \A i \in 1..Len(K) - 1 : K[i] = Sep => K[i + 1] # Sep
  BY <1>2, <1>5, <1>7, NoTwoSeps
<1>9. Len(K) >= 2
  BY <1>6, PathParts
<1>10. K \notin DOMAIN files
  BY <1>6 DEF Taken
<1>11. DiskInv(DOMAIN files, dirs', clicks')
  <2>1. DiskInv(DOMAIN files, dirs, clicks')
    BY <1>1 DEF FilesInv
  <2>2. DiskInv(DOMAIN files, dirs \cup above \cup {K}, clicks')
    BY <1>3, <1>4, <1>6, <1>8, <1>9, <1>10, <2>1, FoldersAdded
  <2> QED BY <1>4, <2>2
<1>12. FilesInv(files, dirs', clicks')
  BY <1>1, <1>11 DEF FilesInv
<1>13. TreeInv(tree')
  <2>1. NoPath \in Path
    BY DEF NoPath, Path
  <2> QED BY <1>4, <1>6, <2>1, NewLeaf DEF TypeInv
<1> QED BY <1>1, <1>4, <1>12, <1>13 DEF TypeInv

\* The parent of a node is one.
LEMMA ParentIs ==
  ASSUME TypeInv, NEW n \in DOMAIN tree, n # Root
  PROVE  tree[n].parent \in DOMAIN tree
BY DEF TypeInv, TreeInv, Rooted

\* Renaming a file keeps the invariant.
LEMMA RenameFileTyped ==
  ASSUME TypeInv, Numerals, NEW n \in DOMAIN tree, NEW label \in Labels, RenameFile(n, label)
  PROVE  TypeInv'
<1>1. FilesInv(files, dirs, clicks') /\ clicks' \in 0..MaxClicks
  BY ClickIs DEF RenameFile
<1>2. PICK rest, new, last :
          /\ rest = Without(files, {Key(tree[n].tag)})
          /\ new = RightPath(DOMAIN rest \cup dirs, Doubled(NodePath[tree[n].parent]) \o label)
          /\ last = {i \in DOMAIN tabs : /\ tabs[i].tag = tree[n].tag
                                         /\ \A j \in i + 1..Len(tabs) : tabs[j].tag # tree[n].tag}
  OBVIOUS
<1>3. /\ IsFile(n)
      /\ tabs' = [i \in DOMAIN tabs |-> IF i \in last THEN [tabs[i] EXCEPT !.tag = new] ELSE tabs[i]]
      /\ \/ /\ Writable(dirs, new)
            /\ files' = With(rest, Key(new), Empty)
            /\ tree' = [tree EXCEPT ![n].tag = new, ![n].text = NameOf(new)]
         \/ files' = rest /\ UNCHANGED tree
      /\ UNCHANGED <<dirs, exported>>
  BY <1>2 DEF RenameFile
<1>4. n # Root /\ tree[n].parent \in DOMAIN tree
  BY <1>3, ParentIs DEF IsFile
<1>5. FilesInv(rest, dirs, clicks')
  BY <1>1, <1>2, WithoutFiles
<1>6. new \in Path /\ Plain(NameOf(new))
  <2>1. IsFiniteSet(DOMAIN rest \cup dirs)
    BY <1>5, FS_Union DEF FilesInv, DiskInv
  <2> QED BY <1>2, <1>4, <2>1, DroppedPath
<1>7. tabs' \in Seq(Tab)
  BY <1>3, <1>6, RetaggedTyped DEF TypeInv
<1>8. CASE /\ Writable(dirs, new)
           /\ files' = With(rest, Key(new), Empty)
           /\ tree' = [tree EXCEPT ![n].tag = new, ![n].text = NameOf(new)]
  <2>1. FilesInv(files', dirs, clicks')
    BY <1>5, <1>6, <1>8, WithFile, WorkspaceAssumption
  <2>2. TreeInv(tree')
    <3>1. PICK u : u = [tree EXCEPT ![n].tag = new, ![n].text = NameOf(new)]
      OBVIOUS
    <3>2. NameOf(new) \in Path
      BY <1>6 DEF Plain
    <3>3. tree \in [DOMAIN tree -> Node]
      BY DEF TypeInv, TreeInv, NodesOK
    <3>4. u \in [DOMAIN tree -> Node]
      BY <1>6, <3>1, <3>2, <3>3 DEF Node
    <3>5. \A m \in DOMAIN tree : u[m].parent = tree[m].parent
      BY <3>1, <3>3 DEF Node
    <3>6. \A m \in DOMAIN tree \ {n} : u[m] = tree[m]
      BY <3>1, <3>3
    <3>7. u[n].text = NameOf(new)
      BY <3>1, <3>3 DEF Node
    <3>8. Root \in DOMAIN tree => u[Root].tag = ProjectDir
      BY <1>4, <3>6 DEF TypeInv, TreeInv, NodesOK
    <3>9. \A m \in DOMAIN tree \ {Root} : Plain(u[m].text)
      BY <1>6, <3>6, <3>7 DEF TypeInv, TreeInv, NodesOK
    <3>10. TreeInv(u)
      BY <3>4, <3>5, <3>8, <3>9, SameParents DEF TypeInv
    <3> QED BY <1>8, <3>1, <3>10
  <2> QED BY <1>1, <1>3, <1>7, <2>1, <2>2 DEF TypeInv
<1>9. CASE files' = rest /\ UNCHANGED tree
  BY <1>1, <1>3, <1>5, <1>7, <1>9 DEF TypeInv
<1> QED BY <1>3, <1>8, <1>9

-----------------------------------------------------------------------------
(* Moved and renamed nodes *)

\* ChangeTags changes Tags only, and none of the root.
LEMMA ChangedIs ==
  ASSUME TypeInv, NEW n \in DOMAIN tree, NEW new \in Path, NEW old \in Path, old # <<>>,
         NEW u, u = ChangedTags(n, new, old)
  PROVE  /\ DOMAIN u = DOMAIN tree /\ u \in [DOMAIN tree -> Node]
         /\ \A m \in DOMAIN tree : u[m].parent = tree[m].parent /\ u[m].text = tree[m].text
         /\ Root \in DOMAIN tree => u[Root].tag = ProjectDir
         /\ TreeInv(u)
<1>1. tree \in [DOMAIN tree -> Node]
  BY DEF TypeInv, TreeInv, NodesOK
<1>2. /\ u = [m \in DOMAIN tree |-> u[m]]
      /\ \A m \in DOMAIN tree : \/ u[m] = tree[m]
                                \/ /\ m # Root
                                   /\ u[m] = [tree[m] EXCEPT !.tag = Replaced(tree[m].tag, old, new)]
  BY DEF ChangedTags, Visited, IsFile
<1>3. ASSUME NEW m \in DOMAIN tree
      PROVE  u[m] \in Node /\ u[m].parent = tree[m].parent /\ u[m].text = tree[m].text
  <2>1. tree[m] \in Node /\ tree[m].tag \in Path
    BY <1>1 DEF Node
  <2>2. PICK r \in Path : r = Replaced(tree[m].tag, old, new)
    BY <2>1, ReplacedPath
  <2> QED BY <1>2, <2>1, <2>2 DEF Node
<1>4. Root \in DOMAIN tree => u[Root].tag = ProjectDir
  BY <1>2 DEF TypeInv, TreeInv, NodesOK
<1>5. DOMAIN u = DOMAIN tree /\ u \in [DOMAIN tree -> Node]
  BY <1>2, <1>3
<1>6. \A m \in DOMAIN tree \ {Root} : Plain(u[m].text)
  BY <1>3 DEF TypeInv, TreeInv, NodesOK
<1>7. TreeInv(u)
  BY <1>3, <1>4, <1>5, <1>6, SameParents DEF TypeInv
<1> QED BY <1>3, <1>4, <1>5, <1>7

\* What a node is dropped on or beside is a node, and not below it.
LEMMA TargetIs ==
  ASSUME TypeInv, NEW pos \in DOMAIN tree, NEW n \in DOMAIN tree, n \notin Above[pos]
  PROVE  Target(pos) \in DOMAIN tree /\ n \notin Above[Target(pos)]
<1>1. tree # <<>>
  OBVIOUS
<1>2. \A m \in DOMAIN tree \ {Root} :
         tree[m].parent \in DOMAIN tree /\ Above[m] = {m} \cup Above[tree[m].parent]
  BY <1>1, AboveIs DEF TypeInv
<1> QED BY <1>2 DEF Target, IsFile

\* A folder's files come with it.
LEMMA FilesMoved ==
  ASSUME FilesInv(files, dirs, clicks), clicks \in Nat, NEW from, NEW to,
         CanMove(DOMAIN files, dirs, clicks, from, to)
  PROVE  FilesInv(RelocatedFiles(from, to), RelocatedDirs(from, to), clicks + 1)
<1>1. DiskInv(DOMAIN files, dirs, clicks)
  BY DEF FilesInv
<1>2. DiskInv({Relocated(k, from, to) : k \in DOMAIN files}, {Relocated(k, from, to) : k \in dirs},
              clicks + 1)
  BY <1>1, FolderMoved
<1>3. PICK gs : gs = RelocatedFiles(from, to)
  OBVIOUS
<1>4. /\ DOMAIN gs = {Relocated(q, from, to) : q \in DOMAIN files}
      /\ \A k \in DOMAIN gs : gs[k] = files[Relocated(k, to, from)]
  BY <1>3 DEF RelocatedFiles
<1>5. ASSUME NEW k \in DOMAIN gs PROVE gs[k] \in Texts
  <2>1. PICK q \in DOMAIN files : k = Relocated(q, from, to)
    BY <1>4
  <2>2. Relocated(k, to, from) = q
    BY <1>1, <2>1, MovedBack
  <2> QED BY <1>4, <2>2 DEF FilesInv
<1> QED BY <1>2, <1>3, <1>4, <1>5 DEF FilesInv, RelocatedDirs

\* A folder can move to a free path in a folder that does not move.
LEMMA CanMoveTo ==
  ASSUME TypeInv, NEW from \in dirs, from \in Path, Len(from) > 1,
         NEW K \in Path, IsKey(K), Named(K), LastSep(K) # 0, K[1] = "P", K \in Taken => Within(K, from),
         DirOf(K) \in dirs, ~Within(DirOf(K), from)
  PROVE  CanMove(DOMAIN files, dirs, clicks, from, K)
<1>1. \A k \in DOMAIN files \cup dirs : ~Within(k, from) => ~Within(k, K)
  BY NothingInside DEF TypeInv, FilesInv, Taken
<1>2. ASSUME NEW q \in Path, Within(q, K) PROVE Unused(q, clicks + 1)
  <2>1. 1 \in 1..Len(K)
    BY NamedLen
  <2>2. q[1] = "P"
    BY <1>2, <2>1, InsideParts DEF Within
  <2> QED BY <2>2, ProjectUnused
<1> QED BY <1>1, <1>2 DEF CanMove

\* It can always move to the random name.
LEMMA CanMoveElsewhere ==
  ASSUME TypeInv, Numerals, NEW from \in dirs, from \in Path, Len(from) > 1,
         NEW e, e = <<"random", Numeral(clicks)>>
  PROVE  CanMove(DOMAIN files, dirs, clicks, from, e)
<1>1. clicks \in Nat
  BY WorkspaceAssumption DEF TypeInv
<1>2. PICK x : x = Numeral(clicks)
  OBVIOUS
<1>3. x \in Parts /\ x \notin Seps /\ x # "Data" /\ \A j \in Nat : x = Numeral(j) => j = clicks
  BY <1>1, <1>2 DEF Numerals
<1>4. "random" \in Parts /\ "random" \notin Seps /\ "random" # "Data"
  BY WorkspaceAssumption DEF Seps, Sep, Sep2
<1>5. e \in Path /\ Len(e) = 2 /\ e[1] = "random" /\ e[2] = x /\ DOMAIN e = 1..2
  BY <1>2, <1>3, <1>4 DEF Path
<1>6. \A i \in 1..2 : i = 1 \/ i = 2
  OBVIOUS
<1>7. \A i \in 1..2 : e[i] \notin Seps /\ e[i] # "Data"
  BY <1>3, <1>4, <1>5, <1>6
<1>8. IsKey(e) /\ Named(e)
  BY <1>5, <1>7 DEF IsKey, Named, Path, Seps
<1>9. LastSep(e) = 0
  <2>1. 0 \in 0..Len(e) /\ \A j \in 0 + 1..Len(e) : e[j] \notin Seps
    BY <1>5, <1>7
  <2> QED BY <1>5, <2>1, LastSepIf
<1>10. e \notin DOMAIN files
  <2>1. DiskInv(DOMAIN files, dirs, clicks)
    BY DEF TypeInv, FilesInv
  <2> QED BY <1>9, <2>1, FileInDir
<1>11. e \notin dirs
  <2>1. \A k \in dirs : Unused(k, clicks)
    BY DEF TypeInv, FilesInv, DiskInv
  <2>2. Len(e) >= 2
    BY <1>5
  <2> QED BY <1>1, <1>2, <1>5, <2>1, <2>2 DEF Unused
<1>12. \A k \in DOMAIN files \cup dirs : ~Within(k, from) => ~Within(k, e)
  BY <1>5, <1>10, <1>11, NothingInside DEF TypeInv, FilesInv
<1>13. ASSUME NEW q \in Path, Within(q, e) PROVE Unused(q, clicks + 1)
  <2>1. 2 \in 1..Len(e)
    BY <1>5
  <2>2. q[2] = x
    BY <1>5, <1>13, <2>1, InsideParts DEF Within
  <2>3. \A i \in Nat : i >= clicks + 1 => x # Numeral(i)
    BY <1>1, <1>3
  <2> QED BY <2>2, <2>3 DEF Unused
<1> QED BY <1>8, <1>9, <1>12, <1>13 DEF CanMove

\* What is in and below a folder goes where it can go.
FolderMoves == \E from, to :
    /\ CanMove(DOMAIN files, dirs, clicks, from, to) /\ Legal(to)
    /\ files' = RelocatedFiles(from, to)
    /\ dirs' = RelocatedDirs(from, to)

\* The random name is legal.
LEMMA RandomLegal ==
  ASSUME TypeInv, Numerals
  PROVE  Legal(<<"random", Numeral(clicks)>>)
<1>1. clicks \in Nat
  BY WorkspaceAssumption DEF TypeInv
<1>2. PICK x, e : x = Numeral(clicks) /\ e = <<"random", x>>
  OBVIOUS
<1>3. x # Bad /\ "random" # Bad
  BY <1>1, <1>2 DEF Numerals, Bad
<1>4. DOMAIN e = 1..2 /\ e[1] = "random" /\ e[2] = x /\ \A i \in 1..2 : i = 1 \/ i = 2
  BY <1>2
<1> QED BY <1>2, <1>3, <1>4 DEF Legal

\* A folder that is renamed moves to where it can.
LEMMA RenamedFolder ==
  ASSUME TypeInv, Numerals, NEW n \in DOMAIN tree, NEW label \in Labels, RenameFolder(n, label)
  PROVE  /\ FolderMoves
         /\ \/ UNCHANGED tree
            \/ \E new \in Path :
                  /\ Plain(NameOf(new)) /\ Legal(NameOf(new))
                  /\ tree' = [ChangedTags(n, NameOf(new), tree[n].text) EXCEPT ![n].text = NameOf(new)]
<1>2. PICK from, e, taken, new :
          /\ from = FolderKey(n) /\ e = <<"random", Numeral(clicks)>>
          /\ taken = {k \in Taken : k # from /\ ~Inside(k, from)}
          /\ new = RightPath(taken, NodePath[tree[n].parent] \o label)
  OBVIOUS
<1>3. PICK ds : ds = {d \in dirs : d # from /\ ~Inside(d, from)}
  OBVIOUS
<1>4. PICK to : to = IF Writable(ds, new) THEN Key(new) ELSE e
  OBVIOUS
<1>5. /\ IsFolder(n) /\ from \in dirs
      /\ files' = RelocatedFiles(from, to) /\ dirs' = RelocatedDirs(from, to)
      /\ tree' = IF Writable(ds, new)
                 THEN [ChangedTags(n, NameOf(new), tree[n].text) EXCEPT ![n].text = NameOf(new)]
                 ELSE tree
      /\ UNCHANGED <<tabs, exported>>
  BY <1>2, <1>3, <1>4 DEF RenameFolder
<1>6. n # Root /\ tree[n].parent \in DOMAIN tree
  BY <1>5, ParentIs DEF IsFolder
<1>7. /\ new \in Path /\ Key(new) \notin taken
      /\ IsKey(Key(new)) /\ Named(Key(new)) /\ Key(new) \in Path /\ LastSep(Key(new)) # 0
      /\ Key(new)[1] = "P" /\ Plain(NameOf(new))
  <2>1. IsFiniteSet(taken)
    BY <1>2, TakenFinite, FS_Subset
  <2>2. GoodPath(NodePath[tree[n].parent]) /\ label \in Path /\ Named(label)
    BY <1>6, NodePathGood, WorkspaceAssumption DEF Path
  <2> QED BY <1>2, <2>1, <2>2, NewPath
<1>8. from \in Path /\ Len(from) > 1
  BY <1>2, FolderKeyIs DEF TypeInv
<1>9. CanMove(DOMAIN files, dirs, clicks, from, to)
  <2>1. CASE Writable(ds, new)
    <3>1. DirOf(Key(new)) \in dirs /\ ~Within(DirOf(Key(new)), from)
      BY <1>3, <2>1 DEF Writable, Within
    <3>2. Key(new) \in Taken => Within(Key(new), from)
      BY <1>2, <1>7 DEF Within
    <3>3. CanMove(DOMAIN files, dirs, clicks, from, Key(new))
      BY <1>5, <1>7, <1>8, <3>1, <3>2, CanMoveTo
    <3> QED BY <1>4, <2>1, <3>3
  <2>2. CASE ~Writable(ds, new)
    <3>1. CanMove(DOMAIN files, dirs, clicks, from, e)
      BY <1>2, <1>5, <1>8, CanMoveElsewhere
    <3> QED BY <1>4, <2>2, <3>1
  <2> QED BY <2>1, <2>2
<1>10. Writable(ds, new) => Legal(Key(new)) /\ Legal(NameOf(new))
  BY <1>7, LegalKey, LegalName DEF Writable
<1>11. Legal(e)
  BY <1>2, RandomLegal
<1>12. FolderMoves
  <2>1. Legal(to)
    BY <1>4, <1>10, <1>11
  <2> QED BY <1>5, <1>9, <2>1 DEF FolderMoves
<1> QED BY <1>5, <1>7, <1>10, <1>12

\* Renaming a folder keeps the invariant.
LEMMA RenameFolderTyped ==
  ASSUME TypeInv, Numerals, NEW n \in DOMAIN tree, NEW label \in Labels, RenameFolder(n, label)
  PROVE  TypeInv'
<1>1. clicks' \in 0..MaxClicks /\ clicks' = clicks + 1 /\ clicks \in Nat
  BY ClickIs DEF RenameFolder
<1>2. n # Root
  BY DEF RenameFolder, IsFolder
<1>3. FilesInv(files', dirs', clicks')
  BY <1>1, RenamedFolder, FilesMoved DEF FolderMoves, TypeInv
<1>4. TreeInv(tree')
  <2>1. CASE UNCHANGED tree
    BY <2>1 DEF TypeInv
  <2>2. ASSUME NEW new \in Path, Plain(NameOf(new)),
               tree' = [ChangedTags(n, NameOf(new), tree[n].text) EXCEPT ![n].text = NameOf(new)]
        PROVE  TreeInv(tree')
    <3>1. PICK u, v : /\ u = ChangedTags(n, NameOf(new), tree[n].text)
                      /\ v = [u EXCEPT ![n].text = NameOf(new)]
      OBVIOUS
    <3>2. NameOf(new) \in Path /\ tree[n].text \in Path /\ tree[n].text # <<>>
      BY <1>2, <2>2 DEF Plain, TypeInv, TreeInv, NodesOK
    <3>3. /\ DOMAIN u = DOMAIN tree /\ u \in [DOMAIN tree -> Node]
          /\ Root \in DOMAIN tree => u[Root].tag = ProjectDir
          /\ TreeInv(u)
      BY <3>1, <3>2, ChangedIs
    <3>4. /\ v \in [DOMAIN u -> Node] /\ \A m \in DOMAIN u \ {n} : v[m] = u[m]
          /\ v[n].text = NameOf(new) /\ v[n].parent = u[n].parent
      BY <3>1, <3>2, <3>3 DEF Node
    <3>5. Root \in DOMAIN u => v[Root].tag = ProjectDir
      BY <1>2, <3>3, <3>4
    <3>6. \A m \in DOMAIN u \ {Root} : Plain(v[m].text)
      BY <2>2, <3>3, <3>4 DEF TreeInv, NodesOK
    <3>7. \A m \in DOMAIN u : v[m].parent = u[m].parent
      BY <3>4
    <3>8. TreeInv(v)
      BY <3>3, <3>4, <3>5, <3>6, <3>7, SameParents
    <3> QED BY <2>2, <3>1, <3>8
  <2> QED BY <2>1, <2>2, RenamedFolder
<1>5. UNCHANGED <<tabs, exported>>
  BY DEF RenameFolder
<1> QED BY <1>1, <1>3, <1>4, <1>5 DEF TypeInv

\* A path for a node in the folder of another
LEMMA MovedPath ==
  ASSUME TypeInv, Numerals, NEW pos \in DOMAIN tree, NEW n \in DOMAIN tree, n # Root,
         n \notin Above[pos],
         NEW new, new = RightPath(Taken, NodePath[Target(pos)] \o tree[n].text)
  PROVE  /\ new \in Path /\ Named(new) /\ Key(new) \notin Taken
         /\ IsKey(Key(new)) /\ Named(Key(new)) /\ Key(new) \in Path /\ LastSep(Key(new)) # 0
         /\ Key(new)[1] = "P"
<1>1. GoodPath(NodePath[Target(pos)])
  BY TargetIs, NodePathGood
<1>2. tree[n].text \in Path /\ Named(tree[n].text)
  BY PlainNamed DEF TypeInv, TreeInv, NodesOK
<1> QED BY <1>1, <1>2, TakenFinite, NewPath

\* Moving a file keeps the invariant.
LEMMA MoveFileTyped ==
  ASSUME TypeInv, Numerals, NEW n \in DOMAIN tree, NEW pos \in DOMAIN tree, MoveFile(pos, n)
  PROVE  TypeInv'
<1>1. FilesInv(files, dirs, clicks') /\ clicks' \in 0..MaxClicks
  BY ClickIs DEF MoveFile
<1>2. PICK old, new, to : /\ old = Key(tree[n].tag) /\ to = Target(pos)
                          /\ new = RightPath(Taken, NodePath[Target(pos)] \o tree[n].text)
  OBVIOUS
<1>3. /\ IsFile(n) /\ n \notin Above[pos] /\ old \in DOMAIN files /\ Writable(dirs, new)
      /\ files' = With(Without(files, {old}), Key(new), files[old])
      /\ tree' = [tree EXCEPT ![n].tag = new, ![n].parent = to]
      /\ UNCHANGED <<dirs, tabs, exported>>
  BY <1>2 DEF MoveFile
<1>4. n # Root
  BY <1>3 DEF IsFile
<1>5. new \in Path
  BY <1>2, <1>3, <1>4, MovedPath
<1>6. to \in DOMAIN tree /\ n \notin Above[to]
  BY <1>2, <1>3, TargetIs
<1>7. FilesInv(files', dirs, clicks')
  <2>1. FilesInv(Without(files, {old}), dirs, clicks') /\ files[old] \in Texts
    BY <1>1, <1>3, WithoutFiles DEF FilesInv
  <2> QED BY <1>3, <1>5, <2>1, WithFile
<1>8. TreeInv(tree')
  <2>1. PICK u : u = [tree EXCEPT ![n].tag = new, ![n].parent = to]
    OBVIOUS
  <2>2. tree \in [DOMAIN tree -> Node] /\ to \in Int
    BY <1>6 DEF TypeInv, TreeInv, NodesOK
  <2>3. /\ u \in [DOMAIN tree -> Node] /\ u[n].parent = to /\ u[n].text = tree[n].text
        /\ \A m \in DOMAIN tree \ {n} : u[m] = tree[m]
    BY <1>5, <2>1, <2>2 DEF Node
  <2>4. Root \in DOMAIN tree /\ tree[Root].tag = ProjectDir
    BY DEF TypeInv, TreeInv, NodesOK, Rooted
  <2>5. u[Root].tag = ProjectDir /\ \A m \in DOMAIN tree \ {Root} : Plain(u[m].text)
    BY <1>4, <2>3, <2>4 DEF TypeInv, TreeInv, NodesOK
  <2>6. TreeInv(u)
    BY <1>4, <1>6, <2>3, <2>5, NodeMoved DEF TypeInv
  <2> QED BY <1>3, <2>1, <2>6
<1> QED BY <1>1, <1>3, <1>7, <1>8 DEF TypeInv

\* A folder that is moved moves to where it can.
LEMMA MovedFolder ==
  ASSUME TypeInv, Numerals, NEW n \in DOMAIN tree, NEW pos \in DOMAIN tree, MoveFolder(pos, n)
  PROVE  FolderMoves \/ UNCHANGED <<files, dirs>>
<1>1. PICK from, new, K : /\ from = FolderKey(n) /\ K = Key(new)
                          /\ new = RightPath(Taken, NodePath[Target(pos)] \o tree[n].text)
  OBVIOUS
<1>2. CASE /\ from \in dirs /\ Writable(dirs, new) /\ ~Inside(K, from)
           /\ files' = RelocatedFiles(from, K) /\ dirs' = RelocatedDirs(from, K)
  <2>1. n # Root /\ n \notin Above[pos]
    BY DEF MoveFolder, IsFolder
  <2>2. K \notin Taken /\ IsKey(K) /\ Named(K) /\ K \in Path /\ LastSep(K) # 0 /\ K[1] = "P"
    BY <1>1, <2>1, MovedPath
  <2>3. from \in Path /\ Len(from) > 1
    BY <1>1, FolderKeyIs DEF TypeInv
  <2>4. DirOf(K) \in dirs
    BY <1>1, <1>2 DEF Writable
  <2>5. ~Within(DirOf(K), from)
    BY <1>2, <2>2, <2>3, DirInside DEF Within
  <2>6. CanMove(DOMAIN files, dirs, clicks, from, K)
    BY <1>2, <2>2, <2>3, <2>4, <2>5, CanMoveTo
  <2>7. Legal(K)
    BY <1>1, <1>2, <2>1, MovedPath, LegalKey DEF Writable
  <2> QED BY <1>2, <2>6, <2>7 DEF FolderMoves
<1>3. \/ /\ from \in dirs /\ Writable(dirs, new) /\ ~Inside(K, from)
         /\ files' = RelocatedFiles(from, K) /\ dirs' = RelocatedDirs(from, K)
      \/ UNCHANGED <<files, dirs>>
  BY <1>1 DEF MoveFolder
<1> QED BY <1>2, <1>3

\* Moving a folder keeps the invariant.
LEMMA MoveFolderTyped ==
  ASSUME TypeInv, Numerals, NEW n \in DOMAIN tree, NEW pos \in DOMAIN tree, MoveFolder(pos, n)
  PROVE  TypeInv'
<1>1. /\ clicks' \in 0..MaxClicks /\ clicks' = clicks + 1 /\ clicks \in Nat
      /\ FilesInv(files, dirs, clicks')
  BY ClickIs DEF MoveFolder
<1>2. FilesInv(files', dirs', clicks')
  <2>1. FolderMoves => FilesInv(files', dirs', clicks')
    BY <1>1, FilesMoved DEF FolderMoves, TypeInv
  <2> QED BY <1>1, <2>1, MovedFolder
<1>3. PICK new, tagged, to :
          /\ to = Target(pos) /\ tagged = ChangedTags(n, NodePath[n], new)
          /\ new = RightPath(Taken, NodePath[Target(pos)] \o tree[n].text)
  OBVIOUS
<1>4. /\ n # Root /\ n \notin Above[pos] /\ UNCHANGED <<tabs, exported>>
      /\ tree' = tagged \/ tree' = [tagged EXCEPT ![n].parent = to]
  BY <1>3 DEF MoveFolder, IsFolder
<1>5. new \in Path /\ Named(new)
  BY <1>3, <1>4, MovedPath
<1>6. to \in DOMAIN tree /\ n \notin Above[to]
  BY <1>3, <1>4, TargetIs
<1>7. /\ DOMAIN tagged = DOMAIN tree /\ tagged \in [DOMAIN tree -> Node]
      /\ \A m \in DOMAIN tree : tagged[m].parent = tree[m].parent /\ tagged[m].text = tree[m].text
      /\ Root \in DOMAIN tree => tagged[Root].tag = ProjectDir
      /\ TreeInv(tagged)
  <2>1. NodePath[n] \in Path /\ new # <<>>
    BY <1>5, NodePathGood DEF Named
  <2> QED BY <1>3, <1>5, <2>1, ChangedIs
<1>8. CASE tree' = [tagged EXCEPT ![n].parent = to]
  <2>1. PICK u : u = [tagged EXCEPT ![n].parent = to]
    OBVIOUS
  <2>2. to \in Int
    BY <1>6 DEF TypeInv, TreeInv, NodesOK
  <2>3. /\ u \in [DOMAIN tree -> Node] /\ u[n].parent = to /\ u[n].text = tagged[n].text
        /\ \A m \in DOMAIN tree \ {n} : u[m] = tagged[m]
    BY <1>7, <2>1, <2>2 DEF Node
  <2>4. Root \in DOMAIN tree
    BY DEF TypeInv, TreeInv, Rooted
  <2>5. u[Root].tag = ProjectDir /\ \A m \in DOMAIN tree \ {n} : u[m].parent = tree[m].parent
    BY <1>4, <1>7, <2>3, <2>4
  <2>6. \A m \in DOMAIN tree \ {Root} : Plain(u[m].text)
    BY <1>7, <2>3 DEF TypeInv, TreeInv, NodesOK
  <2>7. TreeInv(u)
    BY <1>4, <1>6, <2>3, <2>5, <2>6, NodeMoved DEF TypeInv
  <2> QED BY <1>1, <1>2, <1>4, <1>8, <2>1, <2>7 DEF TypeInv
<1>9. CASE tree' = tagged
  BY <1>1, <1>2, <1>4, <1>7, <1>9 DEF TypeInv
<1> QED BY <1>4, <1>8, <1>9

\* Every step keeps the invariant.
LEMMA NextTypeInv ==
  ASSUME TypeInv, Numerals, [Next]_vars
  PROVE  TypeInv'
<1>1. CASE NewProject \/ OpenProject
  BY <1>1, ProjectTyped
<1>2. ASSUME NEW n \in DOMAIN tree, OnNode(n) PROVE TypeInv'
  <2>1. CASE AddItem(n) \/ AddFolder(n) \/ \E text \in Texts : DropFile(n, text)
    BY <2>1, AddItemTyped, AddFolderTyped, DropTyped
  <2>2. CASE \E label \in Labels : RenameFile(n, label) \/ RenameFolder(n, label)
    BY <2>2, RenameFileTyped, RenameFolderTyped
  <2>3. CASE \E pos \in DOMAIN tree : MoveFile(pos, n) \/ MoveFolder(pos, n)
    BY <2>3, MoveFileTyped, MoveFolderTyped
  <2>4. CASE DeleteFile(n) \/ RemoveNode(n)
    BY <2>4, GoneTyped
  <2>5. CASE SaveAs(n) \/ LoadInto(n) \/ OpenNode(n)
    BY <2>5, FileReadTyped
  <2> QED BY <1>2, <2>1, <2>2, <2>3, <2>4, <2>5 DEF OnNode
<1>3. CASE \E i \in DOMAIN tabs : OnTab(i)
  BY <1>3, OnTabTyped
<1>4. CASE SaveAll \/ BuildProject \/ Restart
  BY <1>4, AllTabsTyped
<1>5. CASE UNCHANGED vars
  BY <1>5 DEF vars, TypeInv
<1> QED BY <1>1, <1>2, <1>3, <1>4, <1>5 DEF Next

\* The invariant says what TypeOK says, and more.
LEMMA TypeInvImplies == TypeInv => TypeOK
BY DEF TypeInv, TypeOK, FilesInv, DiskInv, TreeInv, Rooted, IsTree

\* The disk stays one and the tree stays one.
THEOREM TypeCorrect == ASSUME Numerals PROVE Spec => []TypeOK
<1>1. Init => TypeInv
  BY InitTypeInv
<1>2. TypeInv /\ [Next]_vars => TypeInv'
  BY NextTypeInv
<1>3. TypeInv => TypeOK
  BY TypeInvImplies
<1> QED BY <1>1, <1>2, <1>3, PTL DEF Spec

-----------------------------------------------------------------------------
(* Which steps lose a text *)

\* A text is not lost if each file that holds it has a file of its own that
\* still does.
LEMMA StillHeld ==
  ASSUME NEW fs, NEW gs, IsFiniteSet(DOMAIN gs), NEW text, NEW at,
         \A k \in DOMAIN fs : fs[k] = text => at[k] \in DOMAIN gs /\ gs[at[k]] = text,
         \A j, k \in DOMAIN fs : fs[j] = text /\ fs[k] = text /\ at[j] = at[k] => j = k
  PROVE  ~(Holding(gs, text) < Holding(fs, text))
<1>1. PICK S, T, f : /\ S = {k \in DOMAIN fs : fs[k] = text} /\ T = {k \in DOMAIN gs : gs[k] = text}
                     /\ f = [k \in S |-> at[k]]
  OBVIOUS
<1>2. IsFiniteSet(T)
  BY <1>1, FS_Subset
<1>3. f \in Injection(S, T)
  <2>1. f \in [S -> T]
    BY <1>1
  <2>2. \A a, b \in S : f[a] = f[b] => a = b
    BY <1>1
  <2> QED BY <2>1, <2>2 DEF Injection, IsInjective
<1>4. IsFiniteSet(S) /\ Cardinality(S) <= Cardinality(T)
  BY <1>2, <1>3, FS_Injection
<1>5. Cardinality(S) \in Nat /\ Cardinality(T) \in Nat
  BY <1>2, <1>4, FS_CardinalityType
<1>6. Holding(gs, text) = Cardinality(T) /\ Holding(fs, text) = Cardinality(S)
  BY <1>1 DEF Holding
<1> QED BY <1>4, <1>5, <1>6

\* It is not lost if no file is.
LEMMA AllHeld ==
  ASSUME NEW fs, NEW gs, IsFiniteSet(DOMAIN gs), NEW text,
         \A k \in DOMAIN fs : fs[k] = text => k \in DOMAIN gs /\ gs[k] = text
  PROVE  ~(Holding(gs, text) < Holding(fs, text))
<1>1. PICK at : at = [k \in DOMAIN fs |-> k]
  OBVIOUS
<1> QED BY <1>1, StillHeld

\* A tab's file held the text, and the tab another one.
SavedOver(text) ==
    /\ DOMAIN files \subseteq DOMAIN files'
    /\ \E i \in DOMAIN tabs : LET k == Key(tabs[i].tag) IN
          k \in DOMAIN files /\ files[k] = text /\ tabs[i].text # text

\* A save loses a text only so.
LEMMA SaveLoses ==
  ASSUME TypeInv, NEW S, S \subseteq DOMAIN tabs, IsFiniteSet(DOMAIN files'),
         \A k \in DOMAIN FilesSaved(S) : k \in DOMAIN files' /\ files'[k] = FilesSaved(S)[k],
         NEW text, TextLost(text)
  PROVE  SavedOver(text)
<1>1. PICK saved, keys : saved = FilesSaved(S) /\ keys = {Key(tabs[i].tag) : i \in S}
  OBVIOUS
<1>2. /\ DOMAIN saved = DOMAIN files \cup keys
      /\ \A k \in keys : \E i \in S : Key(tabs[i].tag) = k /\ saved[k] = tabs[i].text
      /\ \A k \in DOMAIN files \ keys : saved[k] = files[k]
  <2>1. tabs \in Seq(Tab)
    BY DEF TypeInv
  <2>2. /\ DOMAIN FilesSaved(S) = DOMAIN files \cup keys
        /\ \A k \in keys : \E i \in S : Key(tabs[i].tag) = k /\ FilesSaved(S)[k] = tabs[i].text
        /\ \A k \in DOMAIN files \ keys : FilesSaved(S)[k] = files[k]
    BY <1>1, <2>1, FilesSavedIs
  <2> QED BY <1>1, <2>2
<1>3. \A k \in DOMAIN saved : k \in DOMAIN files' /\ files'[k] = saved[k]
  BY <1>1
<1>4. DOMAIN files \subseteq DOMAIN files'
  BY <1>2, <1>3
<1>5. PICK k \in DOMAIN files : files[k] = text /\ files'[k] # text
  <2>1. ~(\A k \in DOMAIN files : files[k] = text => k \in DOMAIN files' /\ files'[k] = text)
    BY AllHeld DEF TextLost
  <2> QED BY <1>4, <2>1
<1>6. k \in keys /\ saved[k] # text
  BY <1>2, <1>3, <1>5
<1>7. PICK i \in S : Key(tabs[i].tag) = k /\ tabs[i].text # text
  BY <1>2, <1>6
<1>8. i \in DOMAIN tabs
  BY <1>7
<1> QED BY <1>4, <1>5, <1>7, <1>8 DEF SavedOver

\* The folders that move lose none.
LEMMA MovesKeepText ==
  ASSUME TypeInv, FolderMoves, IsFiniteSet(DOMAIN files'), NEW text
  PROVE  ~TextLost(text)
<1>1. PICK from, to : CanMove(DOMAIN files, dirs, clicks, from, to) /\ files' = RelocatedFiles(from, to)
  BY DEF FolderMoves
<1>2. /\ DOMAIN files' = {Relocated(q, from, to) : q \in DOMAIN files}
      /\ \A k \in DOMAIN files' : files'[k] = files[Relocated(k, to, from)]
  BY <1>1 DEF RelocatedFiles
<1>3. DiskInv(DOMAIN files, dirs, clicks)
  BY DEF TypeInv, FilesInv
<1>4. PICK at : at = [k \in DOMAIN files |-> Relocated(k, from, to)]
  OBVIOUS
<1>5. ASSUME NEW k \in DOMAIN files
      PROVE  at[k] \in DOMAIN files' /\ files'[at[k]] = files[k] /\ Relocated(at[k], to, from) = k
  <2>1. at[k] = Relocated(k, from, to) /\ at[k] \in DOMAIN files'
    BY <1>2, <1>4
  <2>2. Relocated(at[k], to, from) = k
    BY <1>1, <1>3, <2>1, MovedBack
  <2> QED BY <1>2, <2>1, <2>2
<1>6. \A j, k \in DOMAIN files : at[j] = at[k] => j = k
  <2>1. SUFFICES ASSUME NEW j \in DOMAIN files, NEW k \in DOMAIN files, at[j] = at[k] PROVE j = k
    OBVIOUS
  <2> QED BY <1>5, <2>1
<1>7. \A k \in DOMAIN files : files[k] = text => at[k] \in DOMAIN files' /\ files'[at[k]] = text
  BY <1>5
<1> QED BY <1>6, <1>7, StillHeld DEF TextLost

\* A file that moves keeps its text.
LEMMA MoveKeepsText ==
  ASSUME TypeInv, Numerals, NEW n \in DOMAIN tree, NEW pos \in DOMAIN tree, MoveFile(pos, n),
         IsFiniteSet(DOMAIN files'), NEW text
  PROVE  ~TextLost(text)
<1>1. PICK old, K : /\ old = Key(tree[n].tag)
                    /\ K = Key(RightPath(Taken, NodePath[Target(pos)] \o tree[n].text))
  OBVIOUS
<1>2. old \in DOMAIN files /\ files' = With(Without(files, {old}), K, files[old])
  BY <1>1 DEF MoveFile
<1>3. K \notin DOMAIN files
  <2>1. n # Root /\ n \notin Above[pos]
    BY DEF MoveFile, IsFile
  <2> QED BY <1>1, <2>1, MovedPath DEF Taken
<1>4. PICK at : at = [k \in DOMAIN files |-> IF k = old THEN K ELSE k]
  OBVIOUS
<1>5. PICK rest : rest = Without(files, {old})
  OBVIOUS
<1>6. DOMAIN rest = DOMAIN files \ {old} /\ \A k \in DOMAIN rest : rest[k] = files[k]
  BY <1>5 DEF Without
<1>7. /\ DOMAIN files' = DOMAIN rest \cup {K} /\ files'[K] = files[old]
      /\ \A k \in DOMAIN rest : k # K => files'[k] = rest[k]
  BY <1>2, <1>5 DEF With
<1>8. \A k \in DOMAIN files : at[k] \in DOMAIN files' /\ files'[at[k]] = files[k]
  BY <1>3, <1>4, <1>6, <1>7
<1>9. \A j, k \in DOMAIN files : at[j] = at[k] => j = k
  BY <1>3, <1>4
<1> QED BY <1>8, <1>9, StillHeld DEF TextLost

\* A file with a new name is one more.
LEMMA OneMoreHeld ==
  ASSUME NEW fs, NEW k, k \notin DOMAIN fs, NEW v
  PROVE  \A q \in DOMAIN fs : q \in DOMAIN With(fs, k, v) /\ With(fs, k, v)[q] = fs[q]
BY DEF With

\* Add Item, which saves the tabs first
LEMMA AddItemLoses ==
  ASSUME TypeInv, Numerals, NEW n \in DOMAIN tree, AddItem(n), IsFiniteSet(DOMAIN files'),
         NEW text, TextLost(text)
  PROVE  SavedOver(text)
<1>1. PICK saved, K :
          /\ saved = FilesSaved(SavedTabs)
          /\ K = Key(RightPath(DOMAIN saved \cup dirs, NodePath[n] \o <<"code">>))
  OBVIOUS
<1>2. files' = With(saved, K, Template) \/ files' = saved
  BY <1>1 DEF AddItem
<1>3. SavedTabs \subseteq DOMAIN tabs /\ FilesInv(saved, dirs, clicks)
  BY <1>1, SavedTabsAre, SavedInv DEF TypeInv
<1>4. K \notin DOMAIN saved
  <2>1. IsFiniteSet(DOMAIN saved \cup dirs)
    BY <1>3, FS_Union DEF FilesInv, DiskInv
  <2>2. GoodPath(NodePath[n]) /\ <<"code">> \in Path /\ Named(<<"code">>)
    BY NodePathGood, Words
  <2> QED BY <1>1, <2>1, <2>2, NewPath
<1>5. \A k \in DOMAIN saved : k \in DOMAIN files' /\ files'[k] = saved[k]
  BY <1>2, <1>4, OneMoreHeld
<1> QED BY <1>1, <1>3, <1>5, SaveLoses

\* A step on a node
LEMMA OnNodeLoses ==
  ASSUME TypeInv, Numerals, NEW n \in DOMAIN tree, OnNode(n), IsFiniteSet(DOMAIN files'),
         NEW text, TextLost(text)
  PROVE  \/ DeleteFile(n) \/ RemoveNode(n) \/ LoadInto(n) \/ \E label \in Labels : RenameFile(n, label)
         \/ SavedOver(text)
<1>1. CASE UNCHANGED files
  BY <1>1, AllHeld DEF TextLost
<1>2. CASE AddItem(n)
  BY <1>2, AddItemLoses
<1>3. ASSUME NEW t \in Texts, DropFile(n, t) PROVE ~TextLost(text)
  <2>1. PICK r : r = RightPath(Taken, Doubled(NodePath[n]) \o Dropped)
    OBVIOUS
  <2>2. Key(r) \notin DOMAIN files
    BY <2>1, TakenFinite, DroppedPath DEF Taken
  <2>3. files' = With(files, Key(r), t)
    BY <1>3, <2>1 DEF DropFile
  <2> QED BY <2>2, <2>3, OneMoreHeld, AllHeld DEF TextLost
<1>4. CASE \E label \in Labels : RenameFolder(n, label)
  BY <1>4, RenamedFolder, MovesKeepText
<1>5. CASE \E pos \in DOMAIN tree : MoveFile(pos, n)
  BY <1>5, MoveKeepsText
<1>6. CASE \E pos \in DOMAIN tree : MoveFolder(pos, n)
  BY <1>1, <1>6, MovedFolder, MovesKeepText
<1>7. CASE AddFolder(n) \/ SaveAs(n) \/ OpenNode(n)
  BY <1>1, <1>7 DEF AddFolder, SaveAs, OpenNode
<1> QED BY <1>2, <1>3, <1>4, <1>5, <1>6, <1>7 DEF OnNode

\* Only Delete, Remove, Load, the renaming of a file and a save over another
\* text lose a text, whatever names are taken.
THEOREM OnlyTheseLose == ASSUME Numerals PROVE Spec => OnlyTheseLoseText
<1>1. Init => TypeInv
  BY InitTypeInv
<1>2. TypeInv /\ [Next]_vars => TypeInv'
  BY NextTypeInv
<1>3. ASSUME TypeInv, TypeInv', [Next]_vars
      PROVE  [\A text \in Texts : TextLost(text) =>
                \/ \E n \in DOMAIN tree : \/ DeleteFile(n) \/ RemoveNode(n) \/ LoadInto(n)
                                          \/ \E label \in Labels : RenameFile(n, label)
                \/ /\ DOMAIN files \subseteq DOMAIN files'
                   /\ \E i \in DOMAIN tabs : LET k == Key(tabs[i].tag) IN
                         k \in DOMAIN files /\ files[k] = text /\ tabs[i].text # text]_vars
  <2>1. SUFFICES ASSUME Next, NEW text \in Texts, TextLost(text)
        PROVE  \/ \E n \in DOMAIN tree : \/ DeleteFile(n) \/ RemoveNode(n) \/ LoadInto(n)
                                         \/ \E label \in Labels : RenameFile(n, label)
               \/ SavedOver(text)
    BY <1>3 DEF SavedOver
  <2>2. IsFiniteSet(DOMAIN files')
    BY <1>3 DEF TypeInv, FilesInv, DiskInv
  <2>3. ~UNCHANGED files
    BY <2>1, <2>2, AllHeld DEF TextLost
  <2>4. CASE NewProject
    <3>1. DOMAIN files = {}
      BY <1>3, <2>4 DEF NewProject, TypeInv, FilesInv, DiskInv, IsDisk
    <3> QED BY <2>1, <2>2, <3>1, AllHeld DEF TextLost
  <2>5. CASE \E n \in DOMAIN tree : OnNode(n)
    BY <1>3, <2>1, <2>2, <2>5, OnNodeLoses
  <2>6. ASSUME NEW i \in DOMAIN tabs, OnTab(i) PROVE SavedOver(text)
    <3>1. Save(i)
      BY <2>3, <2>6 DEF OnTab, Edit, MarkUnsaved, CloseTab
    <3> QED BY <1>3, <2>1, <2>2, <3>1, SaveLoses DEF Save
  <2>7. CASE SaveAll \/ BuildProject
    <3>1. SavedTabs \subseteq DOMAIN tabs /\ files' = FilesSaved(SavedTabs)
      BY <1>3, <2>7, SavedTabsAre DEF TypeInv, SaveAll, BuildProject
    <3> QED BY <1>3, <2>1, <2>2, <3>1, SaveLoses
  <2>8. CASE OpenProject \/ Restart
    BY <2>3, <2>8 DEF OpenProject, Restart
  <2> QED BY <2>1, <2>4, <2>5, <2>6, <2>7, <2>8 DEF Next
<1> QED BY <1>1, <1>2, <1>3, PTL DEF Spec, OnlyTheseLoseText

=============================================================================
