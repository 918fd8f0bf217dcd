--------------------------- MODULE PackageRegistry ---------------------------
(***************************************************************************)
(* Installed packages of VarocalCross: the record file pkg.m, the compiled *)
(* files pkg\<platform>\<ID>.a and .obj, the sources src\pkg\<ID>, and the *)
(* one scratch directory pkgcmp every archive is extracted into.           *)
(*                                                                         *)
(* The main window, the package manager and the reference chooser extract  *)
(* an archive on the UI thread and start a thread with its own             *)
(* installation dialog; nothing stops the user from starting another one   *)
(* before the first is answered.  The dialogs' handlers and the manager's  *)
(* Remove handler meet only in the file system: a step of this module is   *)
(* one file-system call (or one run of calls nobody else can observe) of   *)
(* one of those handlers, and a call that throws ends its handler.         *)
(***************************************************************************)
EXTENDS Naturals, Sequences, FiniteSets, Functions

CONSTANTS
  Packages,    \* Package.ID of the archives at hand; a build draws a fresh one
  ProjectName, \* Packages -> the project an archive was built from
  Dialogs,     \* the installation dialogs' threads
  Installed,   \* records of pkg.m when the program starts, oldest first
  MaxExtracts, \* bound: archives the user opens
  MaxRemoves,  \* bound: clicks on the manager's Remove
  MaxKills,    \* bound: times the process is killed
  None,        \* no package, no file, no writer
  Blank,       \* the Package of a dialog whose install.dat could not be read
  Manager      \* the package manager as an owner of pkg.m's write handle

ASSUME PackagesAssumption ==
  /\ None \notin Packages \cup Dialogs \cup {Blank, Manager}
  /\ Blank \notin Packages
  /\ Manager \notin Dialogs
  /\ ProjectName \in [Packages -> STRING]
  /\ Installed \in Seq(Packages)
  /\ IsInjective(Installed)
  /\ MaxExtracts \in Nat
  /\ MaxRemoves \in Nat
  /\ MaxKills \in Nat

VARIABLES
  registry,  \* IDs recorded in pkg.m, in file order
  regFile,   \* pkg.m exists
  writer,    \* who holds pkg.m open for writing (the handle is exclusive)
  aFile,     \* ID -> the package whose .a is stored as pkg\<platform>\<ID>.a
  objFile,   \* ID -> the package whose .obj is stored there
  srcDir,    \* ID -> the packages whose sources are in src\pkg\<ID>
  cmp,       \* pkgcmp: its install.dat, its *.a, *.obj and source files
  ui,        \* the window that has the UI thread: "main" or "manager"
  extracting,\* the archive being extracted by the UI thread
  todo,      \* its entries still to extract
  pc,        \* dialog -> where its thread is
  shown,     \* dialog -> the package its form was loaded with
  from,      \* dialog -> the window that started it
  alert,     \* dialog -> the text of its alert label
  grid,      \* the IDs in the manager's rows
  refresh,   \* a BeginInvoke of PackageManager_Load is queued
  mpc,       \* where the manager's Remove handler is
  mem,       \* the records it holds in memory, in load order
  picked,    \* the rows it was asked to remove
  row,       \* how many of them it has handled
  asked,     \* IDs the user ever asked to remove (history)
  extracts,  \* archives opened so far
  removes,   \* Remove clicks so far
  kills      \* times the process was killed

uiVars     == <<ui, extracting, todo, extracts>>
storeVars  == <<aFile, objFile, srcDir>>
regVars    == <<registry, regFile, writer>>
dialogVars == <<pc, shown, from, alert>>
manVars    == <<grid, refresh, mpc, mem, picked, row, asked, removes>>
vars       == <<regVars, storeVars, cmp, uiVars, dialogVars, manVars, kills>>

IDs == Packages \cup {Blank}
Entries == {"meta", "a", "obj", "src"}

\* The handler holds pkg.m from OpenAppend to its finally block.
Holding == {"locked", "movedA", "cleared", "movedObj", "movedSrc", "told"}
DialogPcs == {"closed", "loading", "open", "checked"} \cup Holding
ManagerPcs == {"idle", "rows", "drop", "recreate", "write"}

EmptyCmp(e) == [exists |-> e, meta |-> None, a |-> {}, obj |-> {}, src |-> {}]

Recorded == Range(registry)

CmpContents == [exists : BOOLEAN, meta : Packages \cup {None},
                a : SUBSET Packages, obj : SUBSET Packages, src : SUBSET Packages]

RegistryType ==
  /\ registry \in Seq(IDs)
  /\ regFile \in BOOLEAN
  /\ writer \in Dialogs \cup {Manager, None}

StoreType ==
  /\ aFile \in [IDs -> Packages \cup {None}]
  /\ objFile \in [IDs -> Packages \cup {None}]
  /\ srcDir \in [IDs -> SUBSET Packages]

UiType ==
  /\ cmp \in CmpContents
  /\ ui \in {"main", "manager"}
  /\ extracting \in Packages \cup {None}
  /\ todo \in SUBSET Entries
  /\ todo # {} => extracting # None
  /\ extracts \in Nat

DialogType ==
  /\ pc \in [Dialogs -> DialogPcs]
  /\ shown \in [Dialogs -> IDs]
  /\ from \in [Dialogs -> {"main", "manager", "gone"}]
  /\ alert \in [Dialogs -> {"none", "exists", "success"}]

ManagerType ==
  /\ grid \in SUBSET IDs
  /\ refresh \in BOOLEAN
  /\ mpc \in ManagerPcs
  /\ mem \in Seq(IDs)
  /\ picked \in Seq(IDs)
  /\ row \in Nat
  /\ asked \in SUBSET IDs
  /\ removes \in Nat
  /\ kills \in Nat

TypeOK == RegistryType /\ StoreType /\ UiType /\ DialogType /\ ManagerType

Init ==
  /\ registry = Installed
  /\ regFile = (Installed # <<>>)
  /\ writer = None
  /\ aFile = [p \in IDs |-> IF p \in Range(Installed) THEN p ELSE None]
  /\ objFile = [p \in IDs |-> IF p \in Range(Installed) THEN p ELSE None]
  /\ srcDir = [p \in IDs |-> IF p \in Range(Installed) THEN {p} ELSE {}]
  /\ cmp = EmptyCmp(FALSE)
  /\ ui = "main" /\ extracting = None /\ todo = {} /\ extracts = 0
  /\ pc = [d \in Dialogs |-> "closed"]
  /\ shown = [d \in Dialogs |-> Blank]
  /\ from = [d \in Dialogs |-> "main"]
  /\ alert = [d \in Dialogs |-> "none"]
  /\ grid = {} /\ refresh = FALSE
  /\ mpc = "idle" /\ mem = <<>> /\ picked = <<>> /\ row = 0
  /\ asked = {} /\ removes = 0 /\ kills = 0

-----------------------------------------------------------------------------
(***************************************************************************)
(* The UI thread: opening an archive, and the end of a build.              *)
(***************************************************************************)

UiFree == extracting = None /\ mpc = "idle"

\* OFD.ShowDialog returned OK: ZipForge starts to extract into pkgcmp.
OpenArchive(p) ==
  /\ UiFree
  /\ extracts < MaxExtracts
  /\ extracts' = extracts + 1
  /\ extracting' = p /\ todo' = Entries
  /\ cmp' = [cmp EXCEPT !.exists = TRUE]
  /\ UNCHANGED <<regVars, storeVars, ui, dialogVars, manVars, kills>>

\* Archives of one project carry the same file names (<project>.a, one file
\* per type) and overwrite each other; the .obj has a random name.
Over(S, p) == {q \in S : ProjectName[q] # ProjectName[p]} \cup {p}

ExtractEntry(e) ==
  /\ e \in todo
  /\ todo' = todo \ {e}
  /\ cmp' = [cmp EXCEPT !.meta = IF e = "meta" THEN extracting ELSE @,
                        !.a    = IF e = "a"    THEN Over(@, extracting) ELSE @,
                        !.obj  = IF e = "obj"  THEN @ \cup {extracting} ELSE @,
                        !.src  = IF e = "src"  THEN Over(@, extracting) ELSE @]
  /\ UNCHANGED <<regVars, storeVars, ui, extracting, extracts, dialogVars, manVars, kills>>

\* new Thread( ... new PackageInstallation( "pkgcmp" ).ShowDialog( ) ).Start( )
StartDialog(d) ==
  /\ extracting # None /\ todo = {}
  /\ pc[d] = "closed"
  /\ extracting' = None
  /\ pc' = [pc EXCEPT ![d] = "loading"]
  /\ from' = [from EXCEPT ![d] = ui]
  /\ UNCHANGED <<regVars, storeVars, cmp, ui, todo, extracts, shown, alert, manVars, kills>>

\* Archiving a package starts with a new pkgcmp, although it needs none.
BuildArchive ==
  /\ UiFree /\ ui = "main"
  /\ cmp' = EmptyCmp(TRUE)
  /\ UNCHANGED <<regVars, storeVars, uiVars, dialogVars, manVars, kills>>

\* The finally block of every build deletes pkgcmp, whoever is using it.
EndOfBuild ==
  /\ UiFree /\ ui = "main" /\ cmp.exists
  /\ cmp' = EmptyCmp(FALSE)
  /\ UNCHANGED <<regVars, storeVars, uiVars, dialogVars, manVars, kills>>

-----------------------------------------------------------------------------
(***************************************************************************)
(* An installation dialog, on its own thread.                              *)
(***************************************************************************)

\* Slip: a missing install.dat leaves the form with no Package at all.
LoadDialogWithoutDefault(d) ==
  /\ pc[d] = "loading"
  /\ shown' = [shown EXCEPT ![d] = cmp.meta]
  /\ alert' = [alert EXCEPT ![d] = "none"]
  /\ pc' = [pc EXCEPT ![d] = "open"]
  /\ UNCHANGED <<regVars, storeVars, cmp, uiVars, from, manVars, kills>>

\* PackageInstallation_Load: the form keeps what install.dat says now.  With
\* no install.dat, LoadManual throws and the form shows a default Package.
LoadDialog(d) ==
  /\ pc[d] = "loading"
  /\ shown' = [shown EXCEPT ![d] = IF cmp.meta = None THEN Blank ELSE cmp.meta]
  /\ alert' = [alert EXCEPT ![d] = "none"]
  /\ pc' = [pc EXCEPT ![d] = "open"]
  /\ UNCHANGED <<regVars, storeVars, cmp, uiVars, from, manVars, kills>>

\* A read of pkg.m fails while someone writes it or when it does not exist.
Readable == regFile /\ writer = None

\* Click on Install: any failure to read pkg.m leaves an empty list.
CheckExists(d) ==
  /\ pc[d] = "open"
  /\ IF Readable /\ shown[d] \in Recorded
     THEN /\ alert' = [alert EXCEPT ![d] = "exists"]
          /\ UNCHANGED pc
     ELSE /\ pc' = [pc EXCEPT ![d] = "checked"]
          /\ UNCHANGED alert
  /\ UNCHANGED <<regVars, storeVars, cmp, uiVars, shown, from, manVars, kills>>

\* Slip: src\pkg\ID is deleted first, before the .a shows that ID is free.
OpenAppendAndClear(d) ==
  /\ pc[d] = "checked"
  /\ writer = None
  /\ writer' = d /\ regFile' = TRUE
  /\ srcDir' = [srcDir EXCEPT ![shown[d]] = {}]
  /\ pc' = [pc EXCEPT ![d] = "locked"]
  /\ UNCHANGED <<registry, aFile, objFile, cmp, uiVars, shown, from, alert, manVars, kills>>

\* new StreamWriter( "pkg.m", true ): exclusive, and it creates the file.
OpenAppend(d) ==
  /\ pc[d] = "checked"
  /\ writer = None
  /\ writer' = d /\ regFile' = TRUE
  /\ pc' = [pc EXCEPT ![d] = "locked"]
  /\ UNCHANGED <<registry, storeVars, cmp, uiVars, shown, from, alert, manVars, kills>>

\* ... which throws while another handle is open, a writer's or a reader's.
OpenAppendFails(d) ==
  /\ pc[d] = "checked"
  /\ pc' = [pc EXCEPT ![d] = "open"]
  /\ UNCHANGED <<regVars, storeVars, cmp, uiVars, shown, from, alert, manVars, kills>>

\* Slip: the writer is closed on success only.
ThrowWithoutFinally(d) ==
  /\ pc' = [pc EXCEPT ![d] = "open"]
  /\ UNCHANGED <<regVars, uiVars, shown, from, alert, manVars, kills>>

\* An exception inside the handler: finally closes the writer, and the form is
\* still there.
FinallyBlock(d) ==
  /\ writer' = None
  /\ pc' = [pc EXCEPT ![d] = "open"]
  /\ UNCHANGED <<registry, regFile, uiVars, shown, from, alert, manVars, kills>>

\* ... of a call that has done nothing.
Throw(d) == FinallyBlock(d) /\ UNCHANGED <<storeVars, cmp>>

\* Slip: the file is copied over whatever is there.
CanOverwrite(files, from_, id) == from_ # {}

\* File.Move does not overwrite.
CanPlace(files, from_, id) == from_ # {} /\ files[id] = None

MoveA(d) ==
  /\ pc[d] = "locked"
  /\ \E x \in cmp.a :
       /\ CanPlace(aFile, cmp.a, shown[d])
       /\ aFile' = [aFile EXCEPT ![shown[d]] = x]
       /\ cmp' = [cmp EXCEPT !.a = @ \ {x}]
  /\ pc' = [pc EXCEPT ![d] = "movedA"]
  /\ UNCHANGED <<regVars, objFile, srcDir, uiVars, shown, from, alert, manVars, kills>>

\* No .a in pkgcmp, one at its place already, one that is in use, ...
MoveAFails(d) == pc[d] = "locked" /\ Throw(d)

\* Directory.Delete( src\pkg\ID ) if there, then Directory.CreateDirectory.
ClearSrc(d) ==
  /\ pc[d] = "movedA"
  /\ srcDir' = [srcDir EXCEPT ![shown[d]] = {}]
  /\ pc' = [pc EXCEPT ![d] = "cleared"]
  /\ UNCHANGED <<regVars, aFile, objFile, cmp, uiVars, shown, from, alert, manVars, kills>>

\* A source in use stops the deletion on its way.
ClearSrcFails(d) ==
  /\ pc[d] = "movedA"
  /\ \E left \in SUBSET srcDir[shown[d]] : srcDir' = [srcDir EXCEPT ![shown[d]] = left]
  /\ FinallyBlock(d)
  /\ UNCHANGED <<aFile, objFile, cmp>>

MoveObj(d) ==
  /\ pc[d] = "cleared"
  /\ \E x \in cmp.obj :
       /\ CanPlace(objFile, cmp.obj, shown[d])
       /\ objFile' = [objFile EXCEPT ![shown[d]] = x]
       /\ cmp' = [cmp EXCEPT !.obj = @ \ {x}]
  /\ pc' = [pc EXCEPT ![d] = "movedObj"]
  /\ UNCHANGED <<regVars, aFile, srcDir, uiVars, shown, from, alert, manVars, kills>>

\* Slip: an archive without .obj is installed all the same.
MoveObjSkipped(d) ==
  /\ pc[d] = "cleared"
  /\ ~CanPlace(objFile, cmp.obj, shown[d])
  /\ pc' = [pc EXCEPT ![d] = "movedObj"]
  /\ UNCHANGED <<regVars, storeVars, cmp, uiVars, shown, from, alert, manVars, kills>>

MoveObjFails(d) == pc[d] = "cleared" /\ Throw(d)

\* Every *.go and *.cs that is in pkgcmp by now.
MoveSrc(d) ==
  /\ pc[d] = "movedObj" /\ cmp.exists
  /\ srcDir' = [srcDir EXCEPT ![shown[d]] = cmp.src]
  /\ cmp' = [cmp EXCEPT !.src = {}]
  /\ pc' = [pc EXCEPT ![d] = "movedSrc"]
  /\ UNCHANGED <<regVars, aFile, objFile, uiVars, shown, from, alert, manVars, kills>>

\* It ends before the first file, or between two: those of one package may then
\* be on both sides.
MoveSrcFails(d) ==
  /\ pc[d] = "movedObj"
  /\ \E moved \in SUBSET cmp.src : \E left \in SUBSET cmp.src :
       /\ moved \cup left = cmp.src
       /\ srcDir' = [srcDir EXCEPT ![shown[d]] = @ \cup moved]
       /\ cmp' = [cmp EXCEPT !.src = left]
  /\ FinallyBlock(d)
  /\ UNCHANGED <<aFile, objFile>>

\* The alert comes before the record is written.
TellSuccess(d) ==
  /\ pc[d] = "movedSrc"
  /\ alert' = [alert EXCEPT ![d] = "success"]
  /\ pc' = [pc EXCEPT ![d] = "told"]
  /\ UNCHANGED <<regVars, storeVars, cmp, uiVars, shown, from, manVars, kills>>

\* Slip: the record stays in the writer's buffer.
SaveUnflushed(d) ==
  /\ pc[d] = "told" /\ shown[d] # Blank
  /\ FinallyBlock(d)
  /\ UNCHANGED <<storeVars, cmp>>

SaveRecord(d) ==
  /\ pc[d] = "told" /\ shown[d] # Blank
  /\ registry' = Append(registry, shown[d])
  /\ writer' = None
  /\ pc' = [pc EXCEPT ![d] = "open"]
  /\ UNCHANGED <<regFile, storeVars, cmp, uiVars, shown, from, alert, manVars, kills>>

\* Save throws on the null Name of a default Package, before it writes anything.
SaveFails(d) == pc[d] = "told" /\ shown[d] = Blank /\ Throw(d)

\* Closing the form lets its thread run on to the opener's BeginInvoke.
CloseDialog(d) ==
  /\ pc[d] = "open" /\ from[d] # "gone"
  /\ pc' = [pc EXCEPT ![d] = "closed"]
  /\ refresh' = (refresh \/ from[d] = "manager")
  /\ UNCHANGED <<regVars, storeVars, cmp, uiVars, shown, from, alert,
                 grid, mpc, mem, picked, row, asked, removes, kills>>

HandlerStep(d) ==
  \/ LoadDialog(d)
  \/ OpenAppend(d) \/ OpenAppendFails(d)
  \/ MoveA(d) \/ MoveAFails(d)
  \/ ClearSrc(d) \/ ClearSrcFails(d)
  \/ MoveObj(d) \/ MoveObjFails(d)
  \/ MoveSrc(d) \/ MoveSrcFails(d)
  \/ TellSuccess(d)
  \/ SaveRecord(d) \/ SaveFails(d)

-----------------------------------------------------------------------------
(***************************************************************************)
(* The package manager, modal on the UI thread.                            *)
(***************************************************************************)

\* PackageManager_Load clears the rows first and swallows a failed read.
LoadedGrid == IF Readable THEN Recorded ELSE {}

OpenManager ==
  /\ UiFree /\ ui = "main"
  /\ ui' = "manager"
  /\ grid' = LoadedGrid /\ refresh' = FALSE
  /\ UNCHANGED <<regVars, storeVars, cmp, extracting, todo, extracts, dialogVars,
                 mpc, mem, picked, row, asked, removes, kills>>

RefreshManager ==
  /\ refresh /\ UiFree
  /\ refresh' = FALSE
  /\ grid' = LoadedGrid
  /\ UNCHANGED <<regVars, storeVars, cmp, uiVars, dialogVars,
                 mpc, mem, picked, row, asked, removes, kills>>

\* A dialog the manager started has nobody to report to any more.
CloseManager ==
  /\ UiFree /\ ui = "manager"
  /\ ui' = "main" /\ refresh' = FALSE /\ grid' = {}
  /\ from' = [d \in Dialogs |->
                IF pc[d] # "closed" /\ from[d] = "manager" THEN "gone" ELSE from[d]]
  /\ UNCHANGED <<regVars, storeVars, cmp, extracting, todo, extracts, pc, shown, alert,
                 mpc, mem, picked, row, asked, removes, kills>>

\* Remove, first half: read pkg.m into MemoryCore.  An unreadable pkg.m ends
\* the handler before it has done anything.
RemoveLoad ==
  /\ UiFree /\ ui = "manager" /\ Readable
  /\ removes < MaxRemoves
  /\ removes' = removes + 1
  /\ mem' = registry
  /\ \E n \in 1..Cardinality(grid) : \E r \in [1..n -> grid] :
       /\ IsInjective(r)
       /\ picked' = r
  /\ asked' = asked \cup Range(picked')
  /\ row' = 0
  /\ mpc' = "rows"
  /\ UNCHANGED <<regVars, storeVars, cmp, uiVars, dialogVars, grid, refresh, kills>>

\* Slip: the first package in memory goes, whatever row is selected.
RemoveFirst ==
  /\ mpc = "rows" /\ row < Len(picked)
  /\ row' = row + 1
  /\ mem' = IF mem = <<>> THEN mem ELSE Tail(mem)
  /\ UNCHANGED <<regVars, storeVars, cmp, uiVars, dialogVars, grid, refresh, mpc, picked,
                 asked, removes, kills>>

\* One selected row.  Every Package has the same PropertyInfo for ID, so
\* lpi.IndexOf finds the first package in memory whatever the loop is at.  It
\* leaves the list, and each of its files goes unless deleting it throws, which
\* the handler swallows.
RemoveRow ==
  /\ mpc = "rows" /\ row < Len(picked)
  /\ row' = row + 1
  /\ IF mem # <<>> /\ Head(mem) = picked[row + 1]
     THEN /\ mem' = Tail(mem)
          /\ aFile' \in {aFile, [aFile EXCEPT ![picked[row + 1]] = None]}
          /\ objFile' \in {objFile, [objFile EXCEPT ![picked[row + 1]] = None]}
          /\ \E left \in SUBSET srcDir[picked[row + 1]] :
                srcDir' = [srcDir EXCEPT ![picked[row + 1]] = left]
     ELSE UNCHANGED <<mem, storeVars>>
  /\ UNCHANGED <<regVars, cmp, uiVars, dialogVars, grid, refresh, mpc, picked, asked, removes, kills>>

\* The rows leave the grid, selected package found or not.
RemoveRowsFromGrid ==
  /\ mpc = "rows" /\ row = Len(picked)
  /\ grid' = grid \ Range(picked)
  /\ mpc' = "drop"
  /\ UNCHANGED <<regVars, storeVars, cmp, uiVars, dialogVars, refresh, mem, picked, row,
                 asked, removes, kills>>

\* File.Delete( "pkg.m" ); it throws while a dialog has the file open.
DropRegistry ==
  /\ mpc = "drop"
  /\ IF writer = None
     THEN registry' = <<>> /\ regFile' = FALSE /\ mpc' = "recreate"
     ELSE UNCHANGED <<registry, regFile>> /\ mpc' = "idle"
  /\ UNCHANGED <<writer, storeVars, cmp, uiVars, dialogVars, grid, refresh, mem, picked,
                 row, asked, removes, kills>>

\* SaveManual( path ): delete pkg.m if it is there again, then create it.
RecreateRegistry ==
  /\ mpc = "recreate"
  /\ IF writer = None
     THEN registry' = <<>> /\ regFile' = TRUE /\ writer' = Manager /\ mpc' = "write"
     ELSE UNCHANGED regVars /\ mpc' = "idle"
  /\ UNCHANGED <<storeVars, cmp, uiVars, dialogVars, grid, refresh, mem, picked, row,
                 asked, removes, kills>>

WriteRegistry ==
  /\ mpc = "write"
  /\ registry' = mem /\ writer' = None
  /\ mpc' = "idle"
  /\ UNCHANGED <<regFile, storeVars, cmp, uiVars, dialogVars, grid, refresh, mem, picked,
                 row, asked, removes, kills>>

ManagerStep ==
  \/ RemoveRow \/ RemoveRowsFromGrid
  \/ DropRegistry \/ RecreateRegistry \/ WriteRegistry

-----------------------------------------------------------------------------
\* The process ends with every window: killed, or by the exception that
\* BeginInvoke on a closed manager raises on a dialog's thread.
EndProcess ==
  /\ writer' = None
  /\ ui' = "main" /\ extracting' = None /\ todo' = {}
  /\ pc' = [d \in Dialogs |-> "closed"]
  /\ shown' = [d \in Dialogs |-> Blank]
  /\ from' = [d \in Dialogs |-> "main"]
  /\ alert' = [d \in Dialogs |-> "none"]
  /\ grid' = {} /\ refresh' = FALSE
  /\ mpc' = "idle" /\ mem' = <<>> /\ picked' = <<>> /\ row' = 0
  /\ UNCHANGED <<registry, regFile, storeVars, cmp, extracts, asked, removes>>

Kill ==
  /\ kills < MaxKills
  /\ kills' = kills + 1
  /\ EndProcess

CloseOrphan(d) ==
  /\ pc[d] = "open" /\ from[d] = "gone"
  /\ EndProcess
  /\ UNCHANGED kills

Next ==
  \/ \E p \in Packages : OpenArchive(p)
  \/ \E e \in Entries : ExtractEntry(e)
  \/ BuildArchive \/ EndOfBuild
  \/ \E d \in Dialogs : \/ StartDialog(d) \/ CheckExists(d) \/ HandlerStep(d)
                        \/ CloseDialog(d) \/ CloseOrphan(d)
  \/ OpenManager \/ RefreshManager \/ CloseManager
  \/ RemoveLoad \/ ManagerStep
  \/ Kill

\* A started handler runs on to its end; what users do is left to them.
Fairness == \A d \in Dialogs : WF_vars(HandlerStep(d))

Spec == Init /\ [][Next]_vars /\ Fairness

-----------------------------------------------------------------------------
(***************************************************************************)
(* What the package store promises.                                        *)
(***************************************************************************)

\* No ID is recorded twice, although a dialog looks for duplicates before it
\* opens pkg.m and reads an unreadable pkg.m as an empty one.
UniqueRecords == IsInjective(registry)

\* A recorded package can be referenced: its .a and its .obj are in place.
RecordedFilesInPlace ==
  \A p \in Recorded : aFile[p] # None /\ objFile[p] # None

\* What a dialog's success message is worth once its handler is through: the .a
\* and the .obj are in place, and the package is recorded, except the one whose
\* install.dat could not be read.  That one's message is false: its files lie under
\* the default ID, and no record speaks of them.
SuccessOutcome ==
  \A d \in Dialogs :
    alert[d] = "success" /\ pc[d] # "told" =>
      /\ aFile[shown[d]] # None /\ objFile[shown[d]] # None
      /\ shown[d] \in Recorded <=> shown[d] # Blank

\* What the message says: from then on the package is recorded, unless the user
\* asks to remove it.
SuccessMeansRecorded ==
  \A d \in Dialogs :
    alert[d] = "success" /\ pc[d] # "told" /\ shown[d] \notin asked /\ mpc = "idle"
      => shown[d] \in Recorded

KeepsInstalled ==
  \A p \in Recorded : /\ aFile'[p] = aFile[p]
                      /\ objFile'[p] = objFile[p]
                      /\ srcDir'[p] = srcDir[p]

\* An installation, failed or not, never touches the files and the sources of
\* a package that is already recorded.
InstalledUntouched == [][KeepsInstalled]_vars

\* A dialog that holds pkg.m open lets go of it, on every path.
RegistryReleased ==
  \A d \in Dialogs : (writer = d) ~> (writer # d)

\* Why the three above hold while nobody removes packages: whoever is past
\* OpenAppend owns pkg.m, and once its .a is in place the ID is taken for
\* every other dialog although it is not recorded yet.
Placed(d) == pc[d] \in Holding \ {"locked"}

HolderOwns ==
  /\ writer # Manager
  /\ \A d \in Dialogs : pc[d] \in Holding <=> writer = d

PlacedIsNew ==
  \A d \in Dialogs :
    /\ Placed(d) => shown[d] \notin Recorded /\ aFile[shown[d]] # None
    /\ pc[d] \in {"movedObj", "movedSrc", "told"} => objFile[shown[d]] # None

InstallInvariant ==
  /\ mpc = "idle"
  /\ HolderOwns
  /\ PlacedIsNew
  /\ UniqueRecords
  /\ RecordedFilesInPlace
  /\ SuccessOutcome
  /\ Blank \notin Recorded

\* A package is installed from its own archive: the files stored under its ID
\* are the ones it was built with.
OwnFiles ==
  \A p \in Recorded : aFile[p] = p /\ objFile[p] = p /\ srcDir[p] = {p}

\* Between Remove clicks, the packages nobody asked to remove are still recorded,
\* and every record, asked for or not, has all its files: Remove takes a file only
\* of a package whose record goes.  (The file may stay when the record goes.)
RemoveSparesOthers ==
  mpc = "idle" => Range(Installed) \ asked \subseteq Recorded /\ OwnFiles

\* When Remove has rewritten pkg.m, the packages of the rows it took out of
\* the list are not recorded any more.
RemovedRowsUnregistered ==
  [][WriteRegistry => Range(picked) \cap Range(registry') = {}]_vars
=============================================================================
