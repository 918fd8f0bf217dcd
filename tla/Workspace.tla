------------------------------ MODULE Workspace ------------------------------
(***************************************************************************)
(* The workspace of the main window (Form1.cs): the tree of a project, its *)
(* tabs, and its folder.  A file is known in three places, as a path on    *)
(* disk, as the Tag of a node and as the Tag of a tab, and the handlers    *)
(* keep the three together by editing strings.  Therefore a path is the    *)
(* sequence of its parts with the separators in place: <<"P", "\\",        *)
(* "data", "\\", "x", "1">> is P\data\x1.  Tags are compared as written,   *)
(* files by Key, which forgets case and doubled separators.                *)
(*                                                                         *)
(* Handlers run one at a time on the UI thread and are one step each.  A   *)
(* handler that an exception ends is what it did until then.  The only     *)
(* other threads are those that mark an edited tab as unsaved.             *)
(***************************************************************************)
EXTENDS Integers, Sequences, FiniteSets, SequencesExt, TLC

CONSTANTS
    Parts,        \* what paths are made of: strings
    Labels,       \* what a user calls a node: names, but also paths and what
                  \* has a Bad part; none ends in a separator
    Dropped,      \* the name of a file dragged in from outside
    Texts,        \* contents of files
    Template,     \* the content of a new item
    OnDisk,       \* the files of a project that exists beforehand: key -> text
    MaxClicks,    \* bound: operations on nodes
    MaxTabs,      \* bound: open tabs
    MaxMarks      \* bound: marking threads under way for a tab

Sep == "\\"
Sep2 == "\\\\"     \* a doubled separator, which Windows takes for one
Bad == "?"        \* a part that holds a character no path may contain
NoPath == <<>>
NoText == "no text"
Empty == ""
Root == 0
NoNode == -1
ProjectDir == <<"P">>
DataDir == <<"P", Sep, "data">>

\* The key of the folder a key lies in, and the last name of a path
LastSep(p) == CHOOSE i \in 0..Len(p) :
    /\ i = 0 \/ p[i] \in {Sep, Sep2}
    /\ \A j \in i + 1..Len(p) : p[j] \notin {Sep, Sep2}
DirOf(k) == SubSeq(k, 1, LastSep(k) - 1)
NameOf(p) == SubSeq(p, LastSep(p) + 1, Len(p))
Inside(k, dir) == IsPrefix(dir \o <<Sep>>, k)

\* A path that names something does not end in a separator
Named(p) == p # <<>> /\ p[Len(p)] \notin {Sep, Sep2}
Legal(p) == \A i \in DOMAIN p : p[i] # Bad
IsName(x) == Legal(x) /\ \A i \in DOMAIN x : x[i] \notin {Sep, Sep2}

\* A key has no doubled separators and is written in one case
IsKey(k) == k \in Seq(Parts) /\ \A i \in DOMAIN k : k[i] \notin {Sep2, "Data"}

\* A file lies in a folder that exists, and is none; so does a folder, but for
\* those at the top.
IsDisk(fs, ds) ==
    /\ \A k \in fs : DirOf(k) \in ds /\ k \notin ds
    /\ \A d \in ds : LastSep(d) # 0 => DirOf(d) \in ds

DirsOnDisk == {ProjectDir, DataDir} \cup {DirOf(k) : k \in DOMAIN OnDisk}

ASSUME WorkspaceAssumption ==
    /\ {Sep, Sep2, "P", "data", "Data", "main", "code", "folder", "random"} \subseteq Parts
    /\ MaxClicks \in Nat /\ MaxTabs \in Nat /\ MaxMarks \in Nat \ {0}
    /\ {Template, Empty} \subseteq Texts /\ NoText \notin Texts
    /\ IsFiniteSet(DOMAIN OnDisk) /\ IsDisk(DOMAIN OnDisk, DirsOnDisk)
    /\ \A k \in DOMAIN OnDisk : OnDisk[k] \in Texts /\ IsKey(k) /\ Inside(k, DataDir)
    /\ \A k \in DOMAIN OnDisk \cup DirsOnDisk : Named(k) /\ Legal(k)
    /\ \A name \in Labels \cup {Dropped} : name \in Seq(Parts) /\ Named(name)
    /\ IsName(Dropped)

VARIABLES
    files,        \* the disk: key -> text
    dirs,         \* the disk: keys of folders
    tree,         \* treeView1: node -> its parent, its Text, its Tag
    tabs,         \* _TabControl1.Items, in order
    exported,     \* the text in the file that the Save As dialog names
    sources,      \* what the last step handed to the parser, if it built
    clicks        \* bound

vars == <<files, dirs, tree, tabs, exported, sources, clicks>>

-----------------------------------------------------------------------------
(* Paths and the disk *)

\* What the file system takes a path for
Key(p) == [i \in DOMAIN p |->
    CASE p[i] = Sep2 -> Sep [] p[i] = "Data" -> "data" [] OTHER -> p[i]]

\* p, which ends with a separator, and one more
Doubled(p) == Append(Front(p), Sep2)

Without(fs, ks) == [k \in DOMAIN fs \ ks |-> fs[k]]
With(fs, k, v) == [q \in DOMAIN fs \cup {k} |-> IF q = k THEN v ELSE fs[q]]

\* A file can be created or deleted at p
Writable(ds, p) ==
    /\ Named(p) /\ Legal(p)
    /\ DirOf(Key(p)) \in ds
    /\ Key(p) \notin ds

\* ToRightPath: the path itself, or the path with the first number that is free
Numeral(i) == ToString(i)
RightPath(taken, p) ==
    IF Key(p) \notin taken THEN p
    ELSE LET Numbered(i) == p \o <<Numeral(i)>>
             Free(i) == Key(Numbered(i)) \notin taken
         IN Numbered(CHOOSE i \in 1..Cardinality(taken) + 1 :
                        Free(i) /\ \A j \in 1..i - 1 : ~Free(j))

Taken == DOMAIN files \cup dirs

\* Directory.Move: the keys in and below the folder `from' get the prefix `to'
Relocated(k, from, to) ==
    IF k = from \/ Inside(k, from) THEN to \o SubSeq(k, Len(from) + 1, Len(k)) ELSE k
RelocatedFiles(from, to) ==
    LET old(k) == Relocated(k, to, from) \* `to' is free, so this undoes it
    IN [k \in {Relocated(q, from, to) : q \in DOMAIN files} |-> files[old(k)]]
RelocatedDirs(from, to) == {Relocated(k, from, to) : k \in dirs}

-----------------------------------------------------------------------------
(* The tree *)

\* GetNodePath: it ends with a separator
NodePath[n \in DOMAIN tree] ==
    IF n = Root THEN tree[n].tag \o <<Sep, "data", Sep>>
    ELSE NodePath[tree[n].parent] \o tree[n].text \o <<Sep>>

FolderKey(n) == Key(Front(NodePath[n]))

\* ParentContainer( c, n ) is c \in Above[n]
Above[n \in DOMAIN tree] ==
    IF tree[n].parent = NoNode THEN {n} ELSE {n} \cup Above[tree[n].parent]
Below(n) == {m \in DOMAIN tree : n \in Above[m]}

IsFile(n) == n # Root /\ tree[n].tag # NoPath
IsFolder(n) == n # Root /\ tree[n].tag = NoPath
FileNodes == {n \in DOMAIN tree : IsFile(n)}

\* The files that a walk from n comes to; walks do not look below files.  (A
\* file gets nodes below it when something is dropped on it whose folder exists:
\* the node of a file x1 may say x, and then its path is that of a folder x.)
Visited(n) == {m \in Below(n) : IsFile(m) /\ \A a \in Above[m] \ {m} : ~IsFile(a)}

NewNode == CHOOSE i \in 1..Cardinality(DOMAIN tree) + 1 : i \notin DOMAIN tree
WithNode(parent, text, tag) ==
    With(tree, NewNode, [parent |-> parent, text |-> text, tag |-> tag])

OccursAt(p, i, part) == IsPrefix(part, SubSeq(p, i, Len(p)))

\* String.Replace: every occurrence of old in p, from the left
Replaced(p, old, new) ==
    LET from[i \in 1..Len(p) + 1] ==
            IF i > Len(p) THEN <<>>
            ELSE IF OccursAt(p, i, old) THEN new \o from[i + Len(old)]
            ELSE <<p[i]>> \o from[i + 1]
    IN from[1]

\* ChangeTags
ChangedTags(n, new, old) == [m \in DOMAIN tree |->
    IF m \in Visited(n)
    THEN [tree[m] EXCEPT !.tag = Replaced(tree[m].tag, old, new)]
    ELSE tree[m]]

\* LoadDir: the nodes for what is on disk
LoadedTree(fs, ds) ==
    LET seq == SetToSeq({k \in DOMAIN fs \cup ds : Inside(k, DataDir)})
        parentOf(k) == IF DirOf(k) = DataDir THEN Root
                       ELSE CHOOSE i \in DOMAIN seq : seq[i] = DirOf(k)
    IN [i \in 0..Len(seq) |->
          IF i = Root THEN [parent |-> NoNode, text |-> ProjectDir, tag |-> ProjectDir]
          ELSE [parent |-> parentOf(seq[i]), text |-> NameOf(seq[i]),
                tag |-> IF seq[i] \in ds THEN NoPath ELSE seq[i]]]

-----------------------------------------------------------------------------
(* The tabs *)

\* OpenTab: a tab with this very Tag is selected, else the file is read.  The
\* text box fires TextChanged while the tab is built; the threads this starts
\* may come late and mark the tab as unsaved.
Opened(ts, p, text, late) ==
    IF \E i \in DOMAIN ts : ts[i].tag = p THEN ts
    ELSE Append(ts, [tag |-> p, text |-> text, onfile |-> text, saved |-> TRUE,
                     marks |-> late])

\* SaveTab finds the tab's project in the tree and writes to the tab's Tag
Savable(t) == Root \in DOMAIN tree /\ Writable(dirs, t.tag)

\* The loops over all tabs stop at the first that cannot be saved
SavedTabs == {i \in DOMAIN tabs : \A j \in 1..i : Savable(tabs[j])}

\* Slip: a tab that is marked as saved is left out.
FilesSavedMarked(S) ==
    LET edited == {i \in S : ~tabs[i].saved}
        keys == {Key(tabs[i].tag) : i \in edited}
        last(k) == CHOOSE i \in edited : /\ Key(tabs[i].tag) = k
                                         /\ \A j \in edited : Key(tabs[j].tag) = k => j <= i
    IN [k \in DOMAIN files \cup keys |-> IF k \in keys THEN tabs[last(k)].text ELSE files[k]]

FilesSaved(S) ==
    LET keys == {Key(tabs[i].tag) : i \in S}
        last(k) == CHOOSE i \in S : /\ Key(tabs[i].tag) = k
                                    /\ \A j \in S : Key(tabs[j].tag) = k => j <= i
    IN [k \in DOMAIN files \cup keys |-> IF k \in keys THEN tabs[last(k)].text ELSE files[k]]
TabsSaved(S) == [i \in DOMAIN tabs |->
    IF i \in S THEN [tabs[i] EXCEPT !.saved = TRUE, !.onfile = tabs[i].text] ELSE tabs[i]]
-----------------------------------------------------------------------------
(* Operations on the project *)

Click == clicks < MaxClicks /\ clicks' = clicks + 1

\* New: the main file is opened as Data\main, its node says data\main
NewProject == \E late \in 0..MaxMarks :
    LET main == <<"P", Sep, "Data", Sep, "main">> IN
    /\ ProjectDir \notin dirs
    /\ dirs' = {ProjectDir, DataDir}
    /\ files' = With(files, Key(main), Template)
    /\ tree' = LoadedTree(files', dirs')
    /\ tabs' = Opened(tabs, main, Template, late)
    /\ sources' = <<>>
    /\ UNCHANGED <<exported, clicks>>

\* Open: LoadProject, which asks for a data folder
OpenProject ==
    /\ tree = <<>>
    /\ DataDir \in dirs
    /\ tree' = LoadedTree(files, dirs)
    /\ sources' = <<>>
    /\ UNCHANGED <<files, dirs, tabs, exported, clicks>>

\* Add Item saves all tabs, then creates a file and opens it
AddItem(n) == \E late \in 0..MaxMarks :
    LET saved == FilesSaved(SavedTabs)
        path  == RightPath(DOMAIN saved \cup dirs, NodePath[n] \o <<"code">>)
        goesOn == SavedTabs = DOMAIN tabs /\ Writable(dirs, path)
        added == With(saved, Key(path), Template)
    IN
    /\ Click
    /\ ~IsFile(n)
    /\ Len(tabs) < MaxTabs
    /\ IF goesOn
       THEN /\ files' = added
            /\ tree' = WithNode(n, NameOf(path), path)
            /\ tabs' = Opened(TabsSaved(SavedTabs), path, Template, late)
       ELSE /\ files' = saved
            /\ tabs' = TabsSaved(SavedTabs)
            /\ UNCHANGED tree
    /\ sources' = <<>>
    /\ UNCHANGED <<dirs, exported>>

\* Directory.CreateDirectory creates the folders above, too
AddFolder(n) ==
    LET path == RightPath(Taken, NodePath[n] \o <<"folder">>)
        above == {SubSeq(Key(path), 1, i - 1) : i \in {j \in DOMAIN Key(path) : Key(path)[j] = Sep}}
    IN
    /\ Click
    /\ ~IsFile(n)
    /\ above \cap DOMAIN files = {}
    /\ dirs' = dirs \cup above \cup {Key(path)}
    /\ tree' = WithNode(n, NameOf(path), NoPath)
    /\ sources' = <<>>
    /\ UNCHANGED <<files, tabs, exported>>

\* Slip: a file of that name is replaced.
DropFileOver(n, text) ==
    LET path == Doubled(NodePath[n]) \o Dropped IN
    /\ Click
    /\ Writable(dirs, path)
    /\ files' = With(files, Key(path), text)
    /\ tree' = WithNode(n, NameOf(path), path)
    /\ sources' = <<>>
    /\ UNCHANGED <<dirs, tabs, exported>>

\* getContent: a file dragged in from outside
DropFile(n, text) ==
    LET path == RightPath(Taken, Doubled(NodePath[n]) \o Dropped) IN
    /\ Click
    /\ Writable(dirs, path)
    /\ files' = With(files, Key(path), text)
    /\ tree' = WithNode(n, NameOf(path), path)
    /\ sources' = <<>>
    /\ UNCHANGED <<dirs, tabs, exported>>

\* AfterLabelEdit of a file.  Opening it for writing empties it; the empty
\* file goes to a random name and from there to the new path.  The tab has the
\* new Tag by then, the node only after the copy succeeded.
RenameFile(n, label) ==
    LET old  == tree[n].tag
        rest == Without(files, {Key(old)})
        new  == RightPath(DOMAIN rest \cup dirs, Doubled(NodePath[tree[n].parent]) \o label)
        last == {i \in DOMAIN tabs : tabs[i].tag = old /\ \A j \in i + 1..Len(tabs) : tabs[j].tag # old}
    IN
    /\ Click
    /\ IsFile(n)
    /\ Writable(dirs, old)
    /\ tabs' = [i \in DOMAIN tabs |-> IF i \in last THEN [tabs[i] EXCEPT !.tag = new] ELSE tabs[i]]
    /\ IF Writable(dirs, new)
       THEN /\ files' = With(rest, Key(new), Empty)
            /\ tree' = [tree EXCEPT ![n].tag = new, ![n].text = NameOf(new)]
       ELSE /\ files' = rest
            /\ UNCHANGED tree
    /\ sources' = <<>>
    /\ UNCHANGED <<dirs, exported>>

\* AfterLabelEdit of a folder, by way of a random name in the current directory
RenameFolder(n, label) ==
    LET from == FolderKey(n)
        elsewhere == <<"random", Numeral(clicks)>>
        new  == RightPath({k \in Taken : k # from /\ ~Inside(k, from)},
                          NodePath[tree[n].parent] \o label)
        ok   == Writable({d \in dirs : d # from /\ ~Inside(d, from)}, new)
        to   == IF ok THEN Key(new) ELSE elsewhere
    IN
    /\ Click
    /\ IsFolder(n)
    /\ from \in dirs
    /\ files' = RelocatedFiles(from, to)
    /\ dirs' = RelocatedDirs(from, to)
    /\ tree' = IF ok THEN [ChangedTags(n, NameOf(new), tree[n].text) EXCEPT ![n].text = NameOf(new)]
               ELSE tree
    /\ sources' = <<>>
    /\ UNCHANGED <<tabs, exported>>

\* MoveNode: dropped on a file, a node goes to the folder of that file
Target(pos) == IF IsFile(pos) /\ Key(tree[pos].tag) \notin dirs THEN tree[pos].parent ELSE pos

\* Slip: the node keeps its Tag.
MoveFileOldTag(pos, n) ==
    LET old == tree[n].tag
        new == RightPath(Taken, NodePath[Target(pos)] \o tree[n].text)
    IN
    /\ Click
    /\ IsFile(n)
    /\ n \notin Above[pos]
    /\ Key(old) \in DOMAIN files
    /\ Writable(dirs, new)
    /\ files' = With(Without(files, {Key(old)}), Key(new), files[Key(old)])
    /\ tree' = [tree EXCEPT ![n].parent = Target(pos)]
    /\ sources' = <<>>
    /\ UNCHANGED <<dirs, tabs, exported>>

MoveFile(pos, n) ==
    LET old == tree[n].tag
        new == RightPath(Taken, NodePath[Target(pos)] \o tree[n].text)
    IN
    /\ Click
    /\ IsFile(n)
    /\ n \notin Above[pos]
    /\ Key(old) \in DOMAIN files
    /\ Writable(dirs, new)
    /\ files' = With(Without(files, {Key(old)}), Key(new), files[Key(old)])
    /\ tree' = [tree EXCEPT ![n].tag = new, ![n].parent = Target(pos)]
    /\ sources' = <<>>
    /\ UNCHANGED <<dirs, tabs, exported>>

\* The arguments of ChangeTags are the other way round here: the new path is
\* looked for and the old one put in its place.  The Tags are changed before
\* Directory.Move has a chance to fail.
MoveFolder(pos, n) ==
    LET from == FolderKey(n)
        new  == RightPath(Taken, NodePath[Target(pos)] \o tree[n].text)
        tagged == ChangedTags(n, NodePath[n], new)
        moves == from \in dirs /\ Writable(dirs, new) /\ ~Inside(Key(new), from)
    IN
    /\ Click
    /\ IsFolder(n)
    /\ n \notin Above[pos]
    /\ IF moves
       THEN /\ files' = RelocatedFiles(from, Key(new))
            /\ dirs' = RelocatedDirs(from, Key(new))
            /\ tree' = [tagged EXCEPT ![n].parent = Target(pos)]
       ELSE /\ tree' = tagged
            /\ UNCHANGED <<files, dirs>>
    /\ sources' = <<>>
    /\ UNCHANGED <<tabs, exported>>

\* Delete of a file leaves its tab open
DeleteFile(n) ==
    /\ Click
    /\ IsFile(n)
    /\ Writable(dirs, tree[n].tag)
    /\ files' = Without(files, {Key(tree[n].tag)})
    /\ tree' = Without(tree, Below(n))
    /\ sources' = <<>>
    /\ UNCHANGED <<dirs, tabs, exported>>

\* Slip: the node goes, and those below it stay.
RemoveNodeOnly(n) ==
    /\ Click
    /\ ~IsFile(n)
    /\ tree' = Without(tree, {n})
    /\ sources' = <<>>
    /\ UNCHANGED <<files, dirs, tabs, exported>>

\* Remove of a project leaves the disk alone, of a folder deletes it
RemoveNode(n) ==
    LET dir == FolderKey(n)
        gone == {k \in Taken : k = dir \/ Inside(k, dir)}
    IN
    /\ Click
    /\ ~IsFile(n)
    /\ IF n = Root THEN UNCHANGED <<files, dirs>>
       ELSE /\ dir \in dirs
            /\ files' = Without(files, gone)
            /\ dirs' = dirs \ gone
    /\ tree' = Without(tree, Below(n))
    /\ sources' = <<>>
    /\ UNCHANGED <<tabs, exported>>

\* Save As copies the file to a new one
SaveAs(n) ==
    /\ Click
    /\ IsFile(n)
    /\ Key(tree[n].tag) \in DOMAIN files
    /\ exported' = files[Key(tree[n].tag)]
    /\ sources' = <<>>
    /\ UNCHANGED <<files, dirs, tree, tabs>>

\* Load asks for a file with one dialog and copies the file that the Save As
\* dialog names, which at first is none: then the copy fails, after the Delete
LoadInto(n) ==
    LET key == Key(tree[n].tag) IN
    /\ Click
    /\ IsFile(n)
    /\ Writable(dirs, tree[n].tag)
    /\ files' = IF exported = NoText THEN Without(files, {key})
                ELSE With(files, key, exported)
    /\ sources' = <<>>
    /\ UNCHANGED <<dirs, tree, tabs, exported>>

-----------------------------------------------------------------------------
(* Operations on tabs *)

OpenNode(n) == \E late \in 0..MaxMarks :
    LET key == Key(tree[n].tag) IN
    /\ Click
    /\ IsFile(n)
    /\ key \in DOMAIN files
    /\ Len(tabs) < MaxTabs
    /\ tabs' = Opened(tabs, tree[n].tag, files[key], late)
    /\ sources' = <<>>
    /\ UNCHANGED <<files, dirs, tree, exported>>

\* Slip: the text box has no handler for TextChanged.
EditUnmarked(i, text) ==
    /\ tabs[i].text # text
    /\ tabs' = [tabs EXCEPT ![i].text = text]
    /\ sources' = <<>>
    /\ UNCHANGED <<files, dirs, tree, exported, clicks>>

\* TextChanged starts a thread, which marks the tab when it gets to run
Edit(i, text) ==
    /\ tabs[i].text # text
    /\ tabs[i].marks < MaxMarks
    /\ tabs' = [tabs EXCEPT ![i].text = text, ![i].marks = @ + 1]
    /\ sources' = <<>>
    /\ UNCHANGED <<files, dirs, tree, exported, clicks>>

MarkUnsaved(i) ==
    /\ tabs[i].marks > 0
    /\ tabs' = [tabs EXCEPT ![i].saved = FALSE, ![i].marks = @ - 1]
    /\ sources' = <<>>
    /\ UNCHANGED <<files, dirs, tree, exported, clicks>>

\* A tab is closed without a question
CloseTab(i) ==
    /\ tabs' = RemoveAt(tabs, i)
    /\ sources' = <<>>
    /\ UNCHANGED <<files, dirs, tree, exported, clicks>>

Save(i) ==
    /\ Savable(tabs[i])
    /\ files' = FilesSaved({i})
    /\ tabs' = TabsSaved({i})
    /\ sources' = <<>>
    /\ UNCHANGED <<dirs, tree, exported, clicks>>

SaveAll ==
    /\ tabs # <<>>
    /\ files' = FilesSaved(SavedTabs)
    /\ tabs' = TabsSaved(SavedTabs)
    /\ sources' = <<>>
    /\ UNCHANGED <<dirs, tree, exported, clicks>>

\* Build saves all tabs, then reads the files that the nodes name.  Whatever
\* cannot be saved or read ends the handler.
BuildProject ==
    LET saved == FilesSaved(SavedTabs)
        readable == \A n \in Visited(Root) : Key(tree[n].tag) \in DOMAIN saved
    IN
    /\ Root \in DOMAIN tree
    /\ files' = saved
    /\ tabs' = TabsSaved(SavedTabs)
    /\ sources' = IF SavedTabs = DOMAIN tabs /\ readable
                  THEN [n \in Visited(Root) |-> saved[Key(tree[n].tag)]]
                  ELSE <<>>
    /\ UNCHANGED <<dirs, tree, exported, clicks>>

\* The window closes without a question, or the process dies, and starts again
Restart ==
    /\ tree' = <<>>
    /\ tabs' = <<>>
    /\ exported' = NoText
    /\ sources' = <<>>
    /\ UNCHANGED <<files, dirs, clicks>>

-----------------------------------------------------------------------------
Init ==
    /\ \/ files = <<>> /\ dirs = {}
       \/ /\ files = OnDisk
          /\ dirs = DirsOnDisk
    /\ tree = <<>>
    /\ tabs = <<>>
    /\ exported = NoText
    /\ sources = <<>>
    /\ clicks = 0

OnNode(n) ==
    \/ AddItem(n) \/ AddFolder(n) \/ \E text \in Texts : DropFile(n, text)
    \/ \E label \in Labels : RenameFile(n, label) \/ RenameFolder(n, label)
    \/ \E pos \in DOMAIN tree : MoveFile(pos, n) \/ MoveFolder(pos, n)
    \/ DeleteFile(n) \/ RemoveNode(n)
    \/ SaveAs(n) \/ LoadInto(n) \/ OpenNode(n)

OnTab(i) ==
    \/ \E text \in Texts : Edit(i, text)
    \/ MarkUnsaved(i) \/ CloseTab(i) \/ Save(i)

Next ==
    \/ NewProject \/ OpenProject
    \/ \E n \in DOMAIN tree : OnNode(n)
    \/ \E i \in DOMAIN tabs : OnTab(i)
    \/ SaveAll \/ BuildProject \/ Restart

Spec == Init /\ [][Next]_vars

-----------------------------------------------------------------------------
(* Properties *)

Tab == [tag : Seq(Parts), text : Texts, onfile : Texts, saved : BOOLEAN, marks : 0..MaxMarks]

\* Whatever node is moved where, every way up ends at the root
IsTree ==
    /\ tree # <<>> => Root \in DOMAIN tree /\ tree[Root].parent = NoNode
    /\ \A n \in DOMAIN tree \ {Root} : tree[n].parent \in DOMAIN tree \ {n}
    /\ \A C \in SUBSET (DOMAIN tree \ {Root}) :
         (\A n \in C : tree[n].parent \in C) => C = {}

\* The disk is one, the tree is one, and the tabs are tabs.
TypeOK ==
    /\ IsDisk(DOMAIN files, dirs)
    /\ \A k \in DOMAIN files : files[k] \in Texts
    /\ IsTree
    /\ tabs \in Seq(Tab)
    /\ exported \in Texts \cup {NoText}
    /\ clicks \in 0..MaxClicks

\* An edit that is not in the file shows on its tab, or a thread is on its way
\* to mark it: whatever the order in which edits, saves and the threads that
\* TextChanged starts come, none of them leaves an edited tab marked as saved.
EditsAreMarked == \A i \in DOMAIN tabs :
    tabs[i].text # tabs[i].onfile => ~tabs[i].saved \/ tabs[i].marks > 0

\* What a build compiles is what the tabs show, even when an edit has not been
\* marked yet: true of every node whose Tag a tab has, unless another tab is
\* open on the same file under another spelling.
BuildTakesTabs == \A n \in DOMAIN sources : \A i \in DOMAIN tabs :
    /\ tabs[i].tag = tree[n].tag
    /\ \A j \in DOMAIN tabs : Key(tabs[j].tag) = Key(tabs[i].tag) => j = i
    => sources[n] = tabs[i].text

Holding(fs, text) == Cardinality({k \in DOMAIN fs : fs[k] = text})
TextLost(text) == Holding(files', text) < Holding(files, text)

\* No text disappears from the disk by adding, moving, dragging in or opening,
\* or by renaming a folder, whatever names are taken at the destination.  Only
\* Delete, Remove, Load and the renaming of a file lose a text, and a save where
\* a tab's file held another one.
OnlyTheseLoseText == [][\A text \in Texts : TextLost(text) =>
    \/ \E n \in DOMAIN tree : \/ DeleteFile(n) \/ RemoveNode(n) \/ LoadInto(n)
                              \/ \E label \in Labels : RenameFile(n, label)
    \/ /\ DOMAIN files \subseteq DOMAIN files'
       /\ \E i \in DOMAIN tabs : LET k == Key(tabs[i].tag) IN
             k \in DOMAIN files /\ files[k] = text /\ tabs[i].text # text]_vars

\* What a node stands for on disk
Where(n) == IF IsFile(n) THEN Key(tree[n].tag) ELSE FolderKey(n)

\* The tree shows the disk: each node stands for a file or a folder that exists
\* and that no other node stands for, in the folder that its parent stands for,
\* and nothing is below a file
Mirrors == \A n \in DOMAIN tree \ {Root} :
    /\ Where(n) \in IF IsFile(n) THEN DOMAIN files ELSE dirs
    /\ \A m \in DOMAIN tree \ {Root} : Where(m) = Where(n) => m = n
    /\ DirOf(Where(n)) = FolderKey(tree[n].parent)
    /\ ~IsFile(tree[n].parent)

Occurrences(p, name) == {i \in DOMAIN p : OccursAt(p, i, name)}

\* The operations of which the code shows that tree and disk may part: moving a
\* folder (ChangeTags with its arguments swapped), renaming a folder whose name
\* does not occur once and in its own place in the Tag of a file below it,
\* renaming to what is no name (the exception is swallowed halfway, or the node
\* stays where it is), Load (Delete before a copy that fails), and a file dropped
\* on a file
Strays(n) ==
    \/ LoadInto(n)
    \/ \E text \in Texts : DropFile(n, text) /\ IsFile(n)
    \/ \E pos \in DOMAIN tree : MoveFolder(pos, n)
    \/ \E label \in Labels :
          \/ RenameFile(n, label) /\ ~IsName(label)
          \/ /\ RenameFolder(n, label)
             /\ \/ ~IsName(label)
                \/ \E m \in Visited(n) : Occurrences(tree[m].tag, tree[n].text)
                                          # {Len(NodePath[tree[n].parent]) + 1}

\* The tree and the disk part only by these five.
OnlyTheseStray == [][Mirrors /\ ~Mirrors' => \E n \in DOMAIN tree : Strays(n)]_vars

\* Renaming a file does not change what is in it.  Form1.cs:588 says of the two
\* lines at the start of the handler that they check whether the file is in use.
RenameKeepsText == [][\A n \in DOMAIN tree : \A label \in Labels :
    RenameFile(n, label) => \A text \in Texts : ~TextLost(text)]_vars

=============================================================================
