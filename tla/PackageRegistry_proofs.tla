----------------------- MODULE PackageRegistry_proofs -----------------------
(***************************************************************************)
(* Proofs about PackageRegistry, for every set of packages and dialogs.    *)
(***************************************************************************)
EXTENDS PackageRegistry, TLAPS

\* What an action leaves alone keeps its type.
LEMMA KeepRegistryType == RegistryType /\ UNCHANGED regVars => RegistryType'
  BY DEF RegistryType, regVars

\* The stored files do.
LEMMA KeepStoreType == StoreType /\ UNCHANGED storeVars => StoreType'
  BY DEF StoreType, storeVars

\* The UI thread and pkgcmp do.
LEMMA KeepUiType == UiType /\ UNCHANGED <<cmp, uiVars>> => UiType'
  BY DEF UiType, uiVars

\* The dialogs do.
LEMMA KeepDialogType == DialogType /\ UNCHANGED dialogVars => DialogType'
  BY DEF DialogType, dialogVars

\* The package manager does.
LEMMA KeepManagerType == ManagerType /\ UNCHANGED <<manVars, kills>> => ManagerType'
  BY DEF ManagerType, manVars

\* An install dialog's thread keeps every type.
LEMMA HandlerType ==
  ASSUME TypeOK, NEW d \in Dialogs, HandlerStep(d)
  PROVE  TypeOK'
<1> USE DEF TypeOK
<1>p. {"loading", "open", "checked", "closed"} \cup Holding \subseteq DialogPcs
  BY DEF DialogPcs
<1>1. CASE LoadDialog(d)
  <2>1. (IF cmp.meta = None THEN Blank ELSE cmp.meta) \in IDs
    BY DEF UiType, CmpContents, IDs
  <2>2. DialogType'
    BY <1>1, <2>1, <1>p DEF LoadDialog, DialogType
  <2> QED
    BY <1>1, <2>2, KeepRegistryType, KeepStoreType, KeepUiType, KeepManagerType DEF LoadDialog
<1>2. CASE OpenAppend(d)
  <2>1. DialogType'
    BY <1>2, <1>p DEF OpenAppend, DialogType, Holding
  <2>2. RegistryType'
    BY <1>2 DEF OpenAppend, RegistryType
  <2> QED
    BY <1>2, <2>1, <2>2, KeepStoreType, KeepUiType, KeepManagerType DEF OpenAppend
<1>3. CASE OpenAppendFails(d)
  <2>1. DialogType'
    BY <1>3, <1>p DEF OpenAppendFails, DialogType
  <2> QED
    BY <1>3, <2>1, KeepRegistryType, KeepStoreType, KeepUiType, KeepManagerType DEF OpenAppendFails
<1>f. FinallyBlock(d) => RegistryType' /\ DialogType' /\ ManagerType'
  <2> SUFFICES ASSUME FinallyBlock(d) PROVE RegistryType' /\ DialogType' /\ ManagerType'
    OBVIOUS
  <2>1. DialogType'
    BY <1>p DEF FinallyBlock, DialogType
  <2>2. RegistryType'
    BY DEF FinallyBlock, RegistryType
  <2> QED
    BY <2>1, <2>2, KeepManagerType DEF FinallyBlock
<1>4. CASE Throw(d)
  BY <1>4, <1>f, KeepStoreType, KeepUiType DEF Throw, FinallyBlock
<1>5. CASE MoveA(d)
  <2>1. DialogType'
    BY <1>5, <1>p DEF MoveA, DialogType, Holding
  <2>2. StoreType'
    BY <1>5 DEF MoveA, StoreType, DialogType, UiType, CmpContents
  <2>3. UiType'
    BY <1>5 DEF MoveA, UiType, CmpContents, uiVars
  <2> QED
    BY <1>5, <2>1, <2>2, <2>3, KeepRegistryType, KeepManagerType DEF MoveA
<1>6. CASE ClearSrc(d)
  <2>1. DialogType'
    BY <1>6, <1>p DEF ClearSrc, DialogType, Holding
  <2>2. StoreType'
    BY <1>6 DEF ClearSrc, StoreType
  <2> QED
    BY <1>6, <2>1, <2>2, KeepRegistryType, KeepUiType, KeepManagerType DEF ClearSrc
<1>7. CASE MoveObj(d)
  <2>1. DialogType'
    BY <1>7, <1>p DEF MoveObj, DialogType, Holding
  <2>2. StoreType'
    BY <1>7 DEF MoveObj, StoreType, DialogType, UiType, CmpContents
  <2>3. UiType'
    BY <1>7 DEF MoveObj, UiType, CmpContents, uiVars
  <2> QED
    BY <1>7, <2>1, <2>2, <2>3, KeepRegistryType, KeepManagerType DEF MoveObj
<1>8. CASE MoveSrc(d)
  <2>1. DialogType'
    BY <1>8, <1>p DEF MoveSrc, DialogType, Holding
  <2>2. StoreType'
    BY <1>8 DEF MoveSrc, StoreType, UiType, CmpContents
  <2>3. UiType'
    BY <1>8 DEF MoveSrc, UiType, CmpContents, uiVars
  <2> QED
    BY <1>8, <2>1, <2>2, <2>3, KeepRegistryType, KeepManagerType DEF MoveSrc
<1>10. CASE ClearSrcFails(d)
  <2>1. StoreType'
    BY <1>10 DEF ClearSrcFails, StoreType
  <2> QED
    BY <1>10, <1>f, <2>1, KeepUiType DEF ClearSrcFails, FinallyBlock
<1>11. CASE MoveSrcFails(d)
  <2>1. PICK moved \in SUBSET cmp.src : \E left \in SUBSET cmp.src :
          /\ srcDir' = [srcDir EXCEPT ![shown[d]] = @ \cup moved]
          /\ cmp' = [cmp EXCEPT !.src = left]
    BY <1>11 DEF MoveSrcFails
  <2>m. moved \in SUBSET Packages
    BY <2>1 DEF UiType, CmpContents
  <2>2. StoreType'
    BY <1>11, <2>1, <2>m DEF MoveSrcFails, StoreType, DialogType
  <2>3. UiType'
    BY <1>11, <2>1 DEF MoveSrcFails, FinallyBlock, UiType, CmpContents, uiVars
  <2> QED
    BY <1>11, <1>f, <2>2, <2>3 DEF MoveSrcFails
<1>12. CASE TellSuccess(d)
  <2>1. DialogType'
    BY <1>12, <1>p DEF TellSuccess, DialogType, Holding
  <2> QED
    BY <1>12, <2>1, KeepRegistryType, KeepStoreType, KeepUiType, KeepManagerType DEF TellSuccess
<1>9. CASE SaveRecord(d)
  <2>1. DialogType'
    BY <1>9, <1>p DEF SaveRecord, DialogType
  <2>2. RegistryType'
    BY <1>9 DEF SaveRecord, RegistryType, DialogType
  <2> QED
    BY <1>9, <2>1, <2>2, KeepStoreType, KeepUiType, KeepManagerType DEF SaveRecord
<1> QED
  BY <1>1, <1>2, <1>3, <1>4, <1>5, <1>6, <1>7, <1>8, <1>9, <1>10, <1>11, <1>12
  DEF HandlerStep, MoveAFails, MoveObjFails, SaveFails

\* So do the actions of the UI thread outside the package manager.
LEMMA UiStepType ==
  ASSUME TypeOK
  PROVE  /\ \A p \in Packages : OpenArchive(p) => TypeOK'
         /\ \A e \in Entries : ExtractEntry(e) => TypeOK'
         /\ BuildArchive \/ EndOfBuild => TypeOK'
         /\ \A d \in Dialogs : StartDialog(d) => TypeOK'
<1> USE DEF TypeOK
<1>1. ASSUME NEW p \in Packages, OpenArchive(p) PROVE TypeOK'
  <2>1. p # None
    BY PackagesAssumption DEF PackagesAssumption
  <2>2. cmp' \in CmpContents
    BY <1>1 DEF OpenArchive, UiType, CmpContents
  <2>3. UiType'
    BY <1>1, <2>1, <2>2 DEF OpenArchive, UiType
  <2> QED
    BY <1>1, <2>3, KeepRegistryType, KeepStoreType, KeepDialogType, KeepManagerType
    DEF OpenArchive
<1>2. ASSUME NEW e \in Entries, ExtractEntry(e) PROVE TypeOK'
  <2>1. extracting \in Packages
    BY <1>2 DEF ExtractEntry, UiType
  <2>2. cmp' \in CmpContents
    <3>1. \A S \in SUBSET Packages : Over(S, extracting) \in SUBSET Packages
      BY <2>1 DEF Over
    <3>2. /\ (IF e = "meta" THEN extracting ELSE cmp.meta) \in Packages \cup {None}
          /\ (IF e = "a" THEN Over(cmp.a, extracting) ELSE cmp.a) \in SUBSET Packages
          /\ (IF e = "obj" THEN cmp.obj \cup {extracting} ELSE cmp.obj) \in SUBSET Packages
          /\ (IF e = "src" THEN Over(cmp.src, extracting) ELSE cmp.src) \in SUBSET Packages
      BY <2>1, <3>1 DEF UiType, CmpContents
    <3>3. cmp' = [exists |-> cmp.exists,
                  meta |-> IF e = "meta" THEN extracting ELSE cmp.meta,
                  a    |-> IF e = "a" THEN Over(cmp.a, extracting) ELSE cmp.a,
                  obj  |-> IF e = "obj" THEN cmp.obj \cup {extracting} ELSE cmp.obj,
                  src  |-> IF e = "src" THEN Over(cmp.src, extracting) ELSE cmp.src]
      BY <1>2 DEF ExtractEntry, UiType, CmpContents
    <3>4. cmp.exists \in BOOLEAN
      BY DEF UiType, CmpContents
    <3> QED
      BY <3>2, <3>3, <3>4 DEF CmpContents
  <2>3. UiType'
    BY <1>2, <2>1, <2>2 DEF ExtractEntry, UiType
  <2> QED
    BY <1>2, <2>3, KeepRegistryType, KeepStoreType, KeepDialogType, KeepManagerType
    DEF ExtractEntry
<1>3. ASSUME BuildArchive \/ EndOfBuild PROVE TypeOK'
  <2>1. \A x \in BOOLEAN : EmptyCmp(x) \in CmpContents
    BY DEF EmptyCmp, CmpContents
  <2>2. UiType'
    BY <1>3, <2>1 DEF BuildArchive, EndOfBuild, UiType, uiVars
  <2> QED
    BY <1>3, <2>2, KeepRegistryType, KeepStoreType, KeepDialogType, KeepManagerType
    DEF BuildArchive, EndOfBuild
<1>4. ASSUME NEW d \in Dialogs, StartDialog(d) PROVE TypeOK'
  <2>1. UiType'
    BY <1>4 DEF StartDialog, UiType
  <2>2. DialogType'
    BY <1>4 DEF StartDialog, DialogType, UiType, DialogPcs
  <2> QED
    BY <1>4, <2>1, <2>2, KeepRegistryType, KeepStoreType, KeepManagerType DEF StartDialog
<1> QED
  BY <1>1, <1>2, <1>3, <1>4

\* ... and the user's clicks in a dialog.
LEMMA ClickType ==
  ASSUME TypeOK, NEW d \in Dialogs, CheckExists(d) \/ CloseDialog(d)
  PROVE  TypeOK'
<1> USE DEF TypeOK
<1>1. CASE CheckExists(d)
  <2>1. DialogType'
    BY <1>1 DEF CheckExists, DialogType, DialogPcs
  <2> QED
    BY <1>1, <2>1, KeepRegistryType, KeepStoreType, KeepUiType, KeepManagerType DEF CheckExists
<1>2. CASE CloseDialog(d)
  <2>1. DialogType'
    BY <1>2 DEF CloseDialog, DialogType, DialogPcs
  <2>2. ManagerType'
    BY <1>2 DEF CloseDialog, ManagerType
  <2> QED
    BY <1>2, <2>1, <2>2, KeepRegistryType, KeepStoreType, KeepUiType DEF CloseDialog
<1> QED
  BY <1>1, <1>2

\* A process that ends leaves the disk and starts over in memory.
LEMMA EndProcessType ==
  ASSUME TypeOK, EndProcess, kills' \in Nat
  PROVE  TypeOK'
<1> USE DEF TypeOK
<1>1. RegistryType'
  BY DEF EndProcess, RegistryType
<1>2. UiType'
  BY DEF EndProcess, UiType
<1>3. DialogType'
  BY DEF EndProcess, DialogType, DialogPcs, IDs
<1>4. ManagerType'
  <2>1. <<>> \in Seq(IDs) /\ {} \in SUBSET IDs /\ "idle" \in ManagerPcs
    BY DEF ManagerPcs
  <2> QED BY <2>1 DEF EndProcess, ManagerType
<1> QED
  BY <1>1, <1>2, <1>3, <1>4, KeepStoreType DEF EndProcess

\* Removing the first package of a list leaves a list of packages.
LEMMA TailType == \A S : \A s \in Seq(S) : s # <<>> => Tail(s) \in Seq(S)
  OBVIOUS

\* The package manager keeps every type.
LEMMA ManagerStepType ==
  ASSUME TypeOK,
         OpenManager \/ RefreshManager \/ CloseManager \/ RemoveLoad \/ ManagerStep
  PROVE  TypeOK'
<1> USE DEF TypeOK
<1>r. Recorded \subseteq IDs
  BY DEF Recorded, Range, RegistryType
<1>1. CASE OpenManager
  <2>1. UiType'
    BY <1>1 DEF OpenManager, UiType
  <2>2. ManagerType'
    BY <1>1, <1>r DEF OpenManager, LoadedGrid, ManagerType
  <2> QED
    BY <1>1, <2>1, <2>2, KeepRegistryType, KeepStoreType, KeepDialogType DEF OpenManager
<1>2. CASE RefreshManager
  <2>1. ManagerType'
    BY <1>2, <1>r DEF RefreshManager, LoadedGrid, ManagerType
  <2> QED
    BY <1>2, <2>1, KeepRegistryType, KeepStoreType, KeepUiType, KeepDialogType
    DEF RefreshManager
<1>3. CASE CloseManager
  <2>1. UiType'
    BY <1>3 DEF CloseManager, UiType
  <2>2. DialogType'
    BY <1>3 DEF CloseManager, DialogType
  <2>3. ManagerType'
    BY <1>3 DEF CloseManager, ManagerType
  <2> QED
    BY <1>3, <2>1, <2>2, <2>3, KeepRegistryType, KeepStoreType DEF CloseManager
<1>4. CASE RemoveLoad
  <2>1. picked' \in Seq(IDs)
    BY <1>4 DEF RemoveLoad, ManagerType
  <2>2. Range(picked') \subseteq IDs
    BY <2>1 DEF Range
  <2>3. ManagerType'
    BY <1>4, <2>1, <2>2 DEF RemoveLoad, ManagerType, ManagerPcs, RegistryType
  <2> QED
    BY <1>4, <2>3, KeepRegistryType, KeepStoreType, KeepUiType, KeepDialogType DEF RemoveLoad
<1>5. CASE RemoveRow
  <2>1. row + 1 \in 1..Len(picked) /\ picked[row + 1] \in IDs
    BY <1>5 DEF RemoveRow, ManagerType
  <2>2. ManagerType'
    <3>1. mem' \in Seq(IDs)
      <4>1. mem \in Seq(IDs)
        BY DEF ManagerType
      <4>2. (mem # <<>> /\ mem' = Tail(mem)) \/ mem' = mem
        BY <1>5 DEF RemoveRow
      <4> QED
        BY <4>1, <4>2, TailType
    <3>2. row' \in Nat /\ UNCHANGED <<grid, refresh, mpc, picked, asked, removes, kills>>
      BY <1>5 DEF RemoveRow, ManagerType
    <3> QED
      BY <3>1, <3>2 DEF ManagerType
  <2>3. CASE UNCHANGED storeVars
    BY <1>5, <2>2, <2>3, KeepRegistryType, KeepStoreType, KeepUiType, KeepDialogType
    DEF RemoveRow
  <2>4. CASE ~UNCHANGED storeVars
    <3>1. StoreType'
      BY <1>5, <2>1, <2>4 DEF RemoveRow, StoreType
    <3> QED
      BY <1>5, <2>2, <3>1, KeepRegistryType, KeepUiType, KeepDialogType DEF RemoveRow
  <2> QED
    BY <2>3, <2>4
<1>6. CASE RemoveRowsFromGrid
  <2>1. ManagerType'
    BY <1>6 DEF RemoveRowsFromGrid, ManagerType, ManagerPcs
  <2> QED
    BY <1>6, <2>1, KeepRegistryType, KeepStoreType, KeepUiType, KeepDialogType
    DEF RemoveRowsFromGrid
<1>7. CASE DropRegistry
  <2>e. <<>> \in Seq(IDs)
    OBVIOUS
  <2>1. RegistryType'
    BY <1>7, <2>e DEF DropRegistry, RegistryType
  <2>2. ManagerType'
    BY <1>7 DEF DropRegistry, ManagerType, ManagerPcs
  <2> QED
    BY <1>7, <2>1, <2>2, KeepStoreType, KeepUiType, KeepDialogType DEF DropRegistry
<1>8. CASE RecreateRegistry
  <2>e. <<>> \in Seq(IDs)
    OBVIOUS
  <2>1. RegistryType'
    BY <1>8, <2>e DEF RecreateRegistry, RegistryType, regVars
  <2>2. ManagerType'
    BY <1>8 DEF RecreateRegistry, ManagerType, ManagerPcs
  <2> QED
    BY <1>8, <2>1, <2>2, KeepStoreType, KeepUiType, KeepDialogType DEF RecreateRegistry
<1>9. CASE WriteRegistry
  <2>1. RegistryType'
    BY <1>9 DEF WriteRegistry, RegistryType, ManagerType
  <2>2. ManagerType'
    BY <1>9 DEF WriteRegistry, ManagerType, ManagerPcs
  <2> QED
    BY <1>9, <2>1, <2>2, KeepStoreType, KeepUiType, KeepDialogType DEF WriteRegistry
<1> QED
  BY <1>1, <1>2, <1>3, <1>4, <1>5, <1>6, <1>7, <1>8, <1>9 DEF ManagerStep

\* The program starts well typed.
LEMMA InitType == Init => TypeOK
<1> SUFFICES ASSUME Init PROVE TypeOK
  OBVIOUS
<1> USE PackagesAssumption DEF PackagesAssumption
<1>1. RegistryType
  BY DEF Init, RegistryType, IDs
<1>2. StoreType
  <2>1. Range(Installed) \subseteq Packages
    BY DEF Range
  <2> QED BY <2>1 DEF Init, StoreType
<1>3. UiType
  BY DEF Init, UiType, CmpContents, EmptyCmp
<1>4. DialogType
  BY DEF Init, DialogType, DialogPcs, IDs
<1>5. ManagerType
  <2>1. <<>> \in Seq(IDs) /\ {} \in SUBSET IDs /\ "idle" \in ManagerPcs
    BY DEF ManagerPcs
  <2> QED BY <2>1 DEF Init, ManagerType
<1> QED
  BY <1>1, <1>2, <1>3, <1>4, <1>5 DEF TypeOK

\* Every step keeps every type.
LEMMA NextType == TypeOK /\ [Next]_vars => TypeOK'
<1> SUFFICES ASSUME TypeOK, [Next]_vars PROVE TypeOK'
  OBVIOUS
<1>1. CASE UNCHANGED vars
  BY <1>1, KeepRegistryType, KeepStoreType, KeepUiType, KeepDialogType, KeepManagerType
  DEF TypeOK, vars
<1>2. ASSUME NEW d \in Dialogs, CloseOrphan(d) PROVE TypeOK'
  <2>1. kills' \in Nat
    BY <1>2 DEF CloseOrphan, TypeOK, ManagerType
  <2> QED BY <1>2, <2>1, EndProcessType DEF CloseOrphan
<1>3. CASE Kill
  <2>1. kills' \in Nat
    BY <1>3 DEF Kill, TypeOK, ManagerType
  <2> QED BY <1>3, <2>1, EndProcessType DEF Kill
<1> QED
  BY <1>1, <1>2, <1>3, UiStepType, ClickType, HandlerType, ManagerStepType DEF Next

\* Every reachable state is well typed: handlers, removals and crashes included.
THEOREM TypeCorrect == Spec => []TypeOK
  BY InitType, NextType, PTL DEF Spec

-----------------------------------------------------------------------------
(***************************************************************************)
(* Installations, while nobody removes packages.                           *)
(***************************************************************************)

\* Appending an ID that is not recorded keeps the records unique.
LEMMA AppendIsNew ==
  ASSUME NEW S, NEW s \in Seq(S), NEW x \in S, IsInjective(s), x \notin Range(s)
  PROVE  /\ Range(Append(s, x)) = Range(s) \cup {x}
         /\ IsInjective(Append(s, x))
<1> DEFINE t == Append(s, x)
<1>1. /\ DOMAIN t = 1..(Len(s) + 1) /\ DOMAIN s = 1..Len(s) /\ Len(s) \in Nat
      /\ t[Len(s) + 1] = x
      /\ \A i \in 1..Len(s) : t[i] = s[i]
  OBVIOUS
<1>2. Range(t) = Range(s) \cup {x}
  <2>1. ASSUME NEW y \in Range(t) PROVE y \in Range(s) \cup {x}
    <3>1. PICK i \in DOMAIN t : y = t[i]
      BY DEF Range
    <3>2. CASE i = Len(s) + 1
      BY <1>1, <3>1, <3>2
    <3>3. CASE i \in DOMAIN s
      BY <1>1, <3>1, <3>3 DEF Range
    <3> QED
      BY <1>1, <3>2, <3>3
  <2>2. ASSUME NEW y \in Range(s) PROVE y \in Range(t)
    <3>1. PICK i \in DOMAIN s : y = s[i]
      BY DEF Range
    <3>2. i \in DOMAIN t /\ y = t[i]
      BY <1>1, <3>1
    <3> QED
      BY <3>2 DEF Range
  <2>3. x \in Range(t)
    <3>1. Len(s) + 1 \in DOMAIN t
      BY <1>1
    <3> QED
      BY <1>1, <3>1 DEF Range
  <2> QED
    BY <2>1, <2>2, <2>3
<1>3. IsInjective(t)
  <2>1. ASSUME NEW i \in DOMAIN t, NEW j \in DOMAIN t, t[i] = t[j] PROVE i = j
    <3>1. CASE i \in DOMAIN s /\ j \in DOMAIN s
      BY <1>1, <2>1, <3>1 DEF IsInjective
    <3>2. ASSUME NEW k \in DOMAIN s PROVE t[k] # x
      BY <1>1, <3>2 DEF Range
    <3> QED
      BY <1>1, <2>1, <3>1, <3>2
  <2> QED
    BY <2>1 DEF IsInjective
<1> QED
  BY <1>2, <1>3

\* What the installation invariant is about.
LEMMA KeepInstall ==
  InstallInvariant /\ UNCHANGED <<registry, writer, aFile, objFile, pc, shown, alert, asked, mpc>>
    => InstallInvariant'
  BY DEF InstallInvariant, HolderOwns, PlacedIsNew, Placed, UniqueRecords, RecordedFilesInPlace,
         SuccessOutcome, Recorded, Holding

\* A success message stays what it is worth while files only come.
LEMMA KeepOutcome ==
  ASSUME DialogType, SuccessOutcome, UNCHANGED <<registry, shown, alert>>,
         \A q \in IDs : aFile[q] # None => aFile'[q] # None,
         \A q \in IDs : objFile[q] # None => objFile'[q] # None,
         \A c \in Dialogs : pc'[c] # "told" => pc[c] # "told"
  PROVE  SuccessOutcome'
<1> SUFFICES ASSUME NEW c \in Dialogs, alert[c] = "success", pc[c] # "told"
             PROVE  /\ aFile'[shown[c]] # None /\ objFile'[shown[c]] # None
                    /\ shown[c] \in Recorded <=> shown[c] # Blank
  BY DEF SuccessOutcome, Recorded
<1>1. shown[c] \in IDs
  BY DEF DialogType
<1> QED
  BY <1>1 DEF SuccessOutcome

\* A click, or a load, moves a dialog that does not hold pkg.m.
LEMMA UnheldInstall ==
  ASSUME TypeOK, InstallInvariant, NEW d \in Dialogs,
         pc[d] \notin Holding, pc'[d] \notin Holding,
         pc' = [pc EXCEPT ![d] = pc'[d]],
         shown' = [shown EXCEPT ![d] = shown'[d]],
         alert' = [alert EXCEPT ![d] = alert'[d]],
         alert'[d] = "success" => shown'[d] = shown[d] /\ alert'[d] = alert[d],
         UNCHANGED <<registry, writer, aFile, objFile, asked, mpc>>
  PROVE  InstallInvariant'
<1> USE DEF TypeOK, DialogType
<1>1. HolderOwns'
  BY DEF InstallInvariant, HolderOwns, Holding
<1>2. PlacedIsNew'
  BY DEF InstallInvariant, PlacedIsNew, Placed, Recorded, Holding
<1>3. SuccessOutcome'
  <2>1. \A c \in Dialogs : alert'[c] = "success" /\ pc'[c] # "told"
                           => shown'[c] = shown[c] /\ alert[c] = "success" /\ pc[c] # "told"
    BY DEF Holding
  <2> QED
    BY <2>1 DEF InstallInvariant, SuccessOutcome, Recorded
<1> QED
  BY <1>1, <1>2, <1>3
  DEF InstallInvariant, UniqueRecords, RecordedFilesInPlace, Recorded

\* The dialog that gets the handle has placed no file yet.
LEMMA OpenInstall ==
  ASSUME TypeOK, InstallInvariant, NEW d \in Dialogs, OpenAppend(d)
  PROVE  InstallInvariant'
<1> USE DEF TypeOK, DialogType
<1>1. HolderOwns'
  <2>1. \A c \in Dialogs : pc[c] \notin Holding
    BY PackagesAssumption
    DEF OpenAppend, InstallInvariant, HolderOwns, PackagesAssumption
  <2>2. d # Manager
    BY PackagesAssumption DEF PackagesAssumption
  <2> QED
    BY <2>1, <2>2 DEF OpenAppend, HolderOwns, Holding
<1>2. PlacedIsNew'
  BY DEF OpenAppend, storeVars, InstallInvariant, PlacedIsNew, Placed, Recorded, Holding
<1>3. SuccessOutcome'
  BY KeepOutcome DEF OpenAppend, storeVars, InstallInvariant
<1> QED
  BY <1>1, <1>2, <1>3
  DEF OpenAppend, storeVars, manVars, InstallInvariant, UniqueRecords, RecordedFilesInPlace,
      Recorded

\* A dialog that fails lets go of pkg.m and is not past any file any more.  If it
\* has told success, it is the one of the default package.
LEMMA ThrowInstall ==
  ASSUME TypeOK, InstallInvariant, NEW d \in Dialogs, pc[d] \in Holding, FinallyBlock(d),
         UNCHANGED <<aFile, objFile>>, pc[d] = "told" => shown[d] = Blank
  PROVE  InstallInvariant'
<1> USE DEF TypeOK, DialogType
<1>1. HolderOwns'
  <2>1. writer = d /\ d # None /\ Manager # None /\ None \notin Dialogs
    BY PackagesAssumption DEF InstallInvariant, HolderOwns, PackagesAssumption
  <2> QED
    BY <2>1 DEF FinallyBlock, manVars, InstallInvariant, HolderOwns, Holding
<1>2. PlacedIsNew'
  BY DEF FinallyBlock, InstallInvariant, PlacedIsNew, Placed, Recorded, Holding
<1>3. SuccessOutcome'
  <2>1. UNCHANGED <<registry, aFile, objFile, shown, alert>> /\ \A c \in Dialogs : c # d => pc'[c] = pc[c]
    BY DEF FinallyBlock
  <2>2. ASSUME pc[d] = "told"
        PROVE  aFile[shown[d]] # None /\ objFile[shown[d]] # None /\ shown[d] \notin Recorded
    BY <2>2 DEF InstallInvariant, PlacedIsNew, Placed, Holding
  <2> QED
    BY <2>1, <2>2 DEF InstallInvariant, SuccessOutcome, Recorded
<1> QED
  BY <1>1, <1>2, <1>3
  DEF FinallyBlock, manVars, InstallInvariant, UniqueRecords, RecordedFilesInPlace, Recorded

\* Only one dialog is past OpenAppend.
LEMMA OneHolder ==
  ASSUME InstallInvariant, NEW d \in Dialogs, NEW c \in Dialogs,
         pc[d] \in Holding, pc[c] \in Holding
  PROVE  c = d
  BY DEF InstallInvariant, HolderOwns

\* The file was not there before, so its package was not recorded.
LEMMA MoveAInstall ==
  ASSUME TypeOK, InstallInvariant, NEW d \in Dialogs, MoveA(d)
  PROVE  InstallInvariant'
<1> USE DEF TypeOK, DialogType
<1> DEFINE id == shown[d]
<1>0. PICK x \in cmp.a : aFile' = [aFile EXCEPT ![id] = x]
  BY DEF MoveA
<1>1. x \in Packages /\ x # None /\ id \in IDs
  BY PackagesAssumption DEF UiType, CmpContents, PackagesAssumption
<1>2. aFile[id] = None /\ id \notin Recorded
  BY DEF MoveA, CanPlace, InstallInvariant, RecordedFilesInPlace
<1>3. pc[d] \in Holding /\ ~Placed(d) /\ pc'[d] = "movedA"
  BY DEF MoveA, Placed, Holding
<1>4. aFile'[id] # None /\ \A q \in IDs : aFile[q] # None => aFile'[q] # None
  BY <1>0, <1>1, <1>2 DEF StoreType
<1>5. HolderOwns'
  BY <1>3 DEF MoveA, regVars, InstallInvariant, HolderOwns, Holding
<1>6. PlacedIsNew'
  <2>1. ASSUME NEW c \in Dialogs, c # d PROVE pc'[c] \notin Holding
    BY <1>3, <2>1, OneHolder DEF MoveA
  <2>2. pc'[d] \notin {"movedObj", "movedSrc"}
    BY <1>3
  <2> QED
    BY <1>2, <1>4, <2>1, <2>2 DEF MoveA, regVars, PlacedIsNew, Placed, Recorded, Holding
<1>7. Recorded \subseteq IDs
  BY DEF Recorded, Range, RegistryType
<1>8. RecordedFilesInPlace'
  BY <1>4, <1>7 DEF MoveA, regVars, InstallInvariant, RecordedFilesInPlace, Recorded
<1>9. SuccessOutcome'
  <2>1. \A c \in Dialogs : pc'[c] # "told" => pc[c] # "told"
    BY DEF MoveA
  <2> QED
    BY <1>4, <2>1, KeepOutcome DEF MoveA, regVars, InstallInvariant
<1> QED
  BY <1>5, <1>6, <1>8, <1>9 DEF MoveA, regVars, manVars, InstallInvariant, UniqueRecords, Recorded

\* The .obj joins an .a whose package is not recorded.
LEMMA MoveObjInstall ==
  ASSUME TypeOK, InstallInvariant, NEW d \in Dialogs, MoveObj(d)
  PROVE  InstallInvariant'
<1> USE DEF TypeOK, DialogType
<1> DEFINE id == shown[d]
<1>0. PICK x \in cmp.obj : objFile' = [objFile EXCEPT ![id] = x]
  BY DEF MoveObj
<1>1. x # None /\ id \in IDs
  BY PackagesAssumption DEF UiType, CmpContents, PackagesAssumption
<1>2. pc[d] \in Holding /\ Placed(d) /\ pc'[d] = "movedObj"
  BY DEF MoveObj, Placed, Holding
<1>3. id \notin Recorded /\ aFile[id] # None
  BY <1>2 DEF InstallInvariant, PlacedIsNew
<1>4. objFile'[id] # None /\ \A q \in IDs : objFile[q] # None => objFile'[q] # None
  BY <1>0, <1>1 DEF StoreType
<1>5. HolderOwns'
  BY <1>2 DEF MoveObj, regVars, InstallInvariant, HolderOwns, Holding
<1>6. PlacedIsNew'
  <2>1. ASSUME NEW c \in Dialogs, c # d PROVE pc'[c] \notin Holding
    BY <1>2, <2>1, OneHolder DEF MoveObj
  <2> QED
    BY <1>3, <1>4, <2>1 DEF MoveObj, regVars, PlacedIsNew, Placed, Recorded, Holding
<1>7. Recorded \subseteq IDs
  BY DEF Recorded, Range, RegistryType
<1>8. RecordedFilesInPlace'
  BY <1>4, <1>7 DEF MoveObj, regVars, InstallInvariant, RecordedFilesInPlace, Recorded
<1>9. SuccessOutcome'
  <2>1. \A c \in Dialogs : pc'[c] # "told" => pc[c] # "told"
    BY DEF MoveObj
  <2> QED
    BY <1>4, <2>1, KeepOutcome DEF MoveObj, regVars, InstallInvariant
<1> QED
  BY <1>5, <1>6, <1>8, <1>9 DEF MoveObj, regVars, manVars, InstallInvariant, UniqueRecords, Recorded

\* The sources come and go without touching what the invariant is about, and the
\* success message waits for the handler's end to be judged.
LEMMA SourcesInstall ==
  ASSUME TypeOK, InstallInvariant, NEW d \in Dialogs, ClearSrc(d) \/ MoveSrc(d) \/ TellSuccess(d)
  PROVE  InstallInvariant'
<1> USE DEF TypeOK, DialogType
<1>1. /\ pc[d] \in Holding /\ pc'[d] \in Holding /\ Placed(d)
      /\ pc'[d] \in {"movedObj", "movedSrc", "told"} => pc[d] \in {"movedObj", "movedSrc", "told"}
      /\ pc'[d] = "told" \/ (pc[d] # "told" /\ alert'[d] = alert[d])
      /\ \A c \in Dialogs : c # d => pc'[c] = pc[c] /\ alert'[c] = alert[c]
      /\ UNCHANGED <<registry, writer, aFile, objFile, shown, asked, mpc>>
  BY DEF ClearSrc, MoveSrc, TellSuccess, Placed, Holding, regVars, storeVars, manVars
<1>2. HolderOwns'
  BY <1>1 DEF InstallInvariant, HolderOwns, Holding
<1>3. PlacedIsNew'
  BY <1>1 DEF InstallInvariant, PlacedIsNew, Placed, Recorded, Holding
<1>4. SuccessOutcome'
  BY <1>1 DEF InstallInvariant, SuccessOutcome, Recorded
<1> QED
  BY <1>1, <1>2, <1>3, <1>4 DEF InstallInvariant, UniqueRecords, RecordedFilesInPlace, Recorded

\* The record is added with both files in place and no other record of its ID.
LEMMA SaveInstall ==
  ASSUME TypeOK, InstallInvariant, NEW d \in Dialogs, SaveRecord(d)
  PROVE  InstallInvariant'
<1> USE DEF TypeOK, DialogType
<1> DEFINE id == shown[d]
<1>1. pc[d] \in Holding /\ Placed(d) /\ pc'[d] = "open" /\ writer = d
  BY DEF SaveRecord, Placed, Holding, InstallInvariant, HolderOwns
<1>2. id \notin Recorded /\ aFile[id] # None /\ objFile[id] # None /\ id \in IDs /\ id # Blank
  BY <1>1 DEF SaveRecord, InstallInvariant, PlacedIsNew
<1>3. Recorded' = Recorded \cup {id} /\ IsInjective(registry')
  BY <1>2, AppendIsNew DEF SaveRecord, Recorded, RegistryType, InstallInvariant, UniqueRecords
<1>4. HolderOwns'
  <2>1. None \notin Dialogs /\ Manager # None
    BY PackagesAssumption DEF PackagesAssumption
  <2> QED
    BY <1>1, <2>1 DEF SaveRecord, InstallInvariant, HolderOwns, Holding
<1>5. PlacedIsNew'
  <2>1. ASSUME NEW c \in Dialogs PROVE pc'[c] \notin Holding
    <3>1. CASE c = d
      BY <1>1, <3>1 DEF Holding
    <3>2. CASE c # d
      BY <1>1, <3>2, OneHolder DEF SaveRecord
    <3> QED
      BY <3>1, <3>2
  <2> QED
    BY <2>1 DEF PlacedIsNew, Placed, Holding
<1>6. RecordedFilesInPlace'
  BY <1>2, <1>3 DEF SaveRecord, storeVars, InstallInvariant, RecordedFilesInPlace
<1>7. SuccessOutcome'
  <2>1. ASSUME NEW c \in Dialogs, c # d, alert'[c] = "success", pc'[c] # "told"
        PROVE  /\ aFile'[shown'[c]] # None /\ objFile'[shown'[c]] # None
               /\ shown'[c] \in Recorded' <=> shown'[c] # Blank
    BY <1>2, <1>3, <2>1 DEF SaveRecord, storeVars, InstallInvariant, SuccessOutcome
  <2>2. /\ aFile'[shown'[d]] # None /\ objFile'[shown'[d]] # None
        /\ shown'[d] \in Recorded' <=> shown'[d] # Blank
    BY <1>2, <1>3 DEF SaveRecord, storeVars
  <2> QED
    BY <2>1, <2>2 DEF SuccessOutcome
<1> QED
  BY <1>2, <1>3, <1>4, <1>5, <1>6, <1>7 DEF SaveRecord, manVars, InstallInvariant, UniqueRecords

\* A process that ends takes its dialogs and its handle along.
LEMMA EndProcessInstall ==
  ASSUME InstallInvariant, EndProcess
  PROVE  InstallInvariant'
<1>1. \A d \in Dialogs : pc'[d] = "closed" /\ alert'[d] = "none"
  BY DEF EndProcess
<1>2. HolderOwns'
  BY <1>1, PackagesAssumption DEF EndProcess, HolderOwns, Holding, PackagesAssumption
<1>3. PlacedIsNew' /\ SuccessOutcome'
  BY <1>1 DEF PlacedIsNew, Placed, Holding, SuccessOutcome
<1> QED
  BY <1>2, <1>3
  DEF EndProcess, storeVars, InstallInvariant, UniqueRecords, RecordedFilesInPlace, Recorded

\* The program starts with every installed package complete.
LEMMA InitInstall == Init => InstallInvariant
<1> SUFFICES ASSUME Init PROVE InstallInvariant
  OBVIOUS
<1> USE PackagesAssumption DEF PackagesAssumption, Init
<1>1. HolderOwns /\ PlacedIsNew /\ SuccessOutcome
  BY DEF HolderOwns, PlacedIsNew, Placed, Holding, SuccessOutcome
<1>2. RecordedFilesInPlace
  <2>1. Range(Installed) \subseteq Packages
    BY DEF Range
  <2> QED
    BY <2>1 DEF RecordedFilesInPlace, Recorded, IDs
<1>3. Blank \notin Recorded
  BY DEF Recorded, Range
<1> QED
  BY <1>1, <1>2, <1>3 DEF InstallInvariant, UniqueRecords

\* Every step keeps the installation invariant while nobody removes packages.
LEMMA NextInstall ==
  ASSUME MaxRemoves = 0, TypeOK, InstallInvariant, [Next]_vars
  PROVE  InstallInvariant'
<1> USE DEF TypeOK
<1>1. ~RemoveLoad /\ ~ManagerStep
  BY DEF RemoveLoad, ManagerType, InstallInvariant, ManagerStep, RemoveRow, RemoveRowsFromGrid,
         DropRegistry, RecreateRegistry, WriteRegistry
<1>2. CASE UNCHANGED vars
  BY <1>2, KeepInstall DEF vars, regVars, storeVars, dialogVars, manVars
<1>3. ASSUME \/ \E p \in Packages : OpenArchive(p)
             \/ \E e \in Entries : ExtractEntry(e)
             \/ BuildArchive \/ EndOfBuild \/ OpenManager \/ RefreshManager \/ CloseManager
      PROVE  InstallInvariant'
  BY <1>3, KeepInstall
  DEF OpenArchive, ExtractEntry, BuildArchive, EndOfBuild, OpenManager, RefreshManager, CloseManager,
      regVars, storeVars, dialogVars, manVars
<1>4. ASSUME NEW d \in Dialogs,
             StartDialog(d) \/ LoadDialog(d) \/ CheckExists(d) \/ CloseDialog(d)
                \/ OpenAppendFails(d)
      PROVE  InstallInvariant'
  <2> USE DEF regVars, storeVars, manVars, Holding, DialogType
  <2>1. CASE StartDialog(d)
    BY <2>1, UnheldInstall DEF StartDialog
  <2>2. CASE LoadDialog(d)
    BY <2>2, UnheldInstall DEF LoadDialog
  <2>3. CASE CheckExists(d)
    BY <2>3, UnheldInstall DEF CheckExists
  <2>4. CASE CloseDialog(d)
    BY <2>4, UnheldInstall DEF CloseDialog
  <2>5. CASE OpenAppendFails(d)
    BY <2>5, UnheldInstall DEF OpenAppendFails
  <2> QED
    BY <1>4, <2>1, <2>2, <2>3, <2>4, <2>5
<1>5. ASSUME NEW d \in Dialogs,
             \/ MoveAFails(d) \/ ClearSrcFails(d) \/ MoveObjFails(d) \/ MoveSrcFails(d)
             \/ SaveFails(d)
      PROVE  InstallInvariant'
  <2>1. /\ pc[d] \in Holding /\ FinallyBlock(d) /\ UNCHANGED <<aFile, objFile>>
        /\ pc[d] = "told" => shown[d] = Blank
    BY <1>5 DEF MoveAFails, ClearSrcFails, MoveObjFails, MoveSrcFails, SaveFails, Throw, storeVars,
                Holding
  <2> QED
    BY <2>1, ThrowInstall
<1>6. ASSUME NEW d \in Dialogs, HandlerStep(d) PROVE InstallInvariant'
  BY <1>4, <1>5, <1>6, OpenInstall, MoveAInstall, MoveObjInstall, SourcesInstall, SaveInstall
  DEF HandlerStep
<1>7. ASSUME Kill \/ \E d \in Dialogs : CloseOrphan(d) PROVE InstallInvariant'
  BY <1>7, EndProcessInstall DEF Kill, CloseOrphan
<1> QED
  BY <1>1, <1>2, <1>3, <1>4, <1>6, <1>7 DEF Next

\* While nobody removes packages, any number of concurrent installations and
\* crashes keeps pkg.m free of duplicates, every recorded package's files in
\* place, and every announced success recorded but that of a default Package.
THEOREM InstallCorrect == MaxRemoves = 0 => (Spec => []InstallInvariant)
<1> SUFFICES ASSUME MaxRemoves = 0 PROVE Spec => []InstallInvariant
  OBVIOUS
<1>1. TypeOK /\ InstallInvariant /\ [Next]_vars => InstallInvariant'
  BY NextInstall
<1> QED
  BY <1>1, InitInstall, TypeCorrect, PTL DEF Spec

\* pkg.m never records an ID twice, whatever the dialogs' checks saw.
THEOREM NoDuplicateRecords == MaxRemoves = 0 => (Spec => []UniqueRecords)
<1>1. InstallInvariant => UniqueRecords
  BY DEF InstallInvariant
<1> QED
  BY <1>1, InstallCorrect, PTL

\* Every record's .a and .obj are in pkg\<platform>.
THEOREM RecordsHaveFiles == MaxRemoves = 0 => (Spec => []RecordedFilesInPlace)
<1>1. InstallInvariant => RecordedFilesInPlace
  BY DEF InstallInvariant
<1> QED
  BY <1>1, InstallCorrect, PTL

\* The success message of a dialog whose handler is through means a record with
\* both files in place; that of a default Package, both files and no record.
THEOREM SuccessOutcomeCorrect == MaxRemoves = 0 => (Spec => []SuccessOutcome)
<1>1. InstallInvariant => SuccessOutcome
  BY DEF InstallInvariant
<1> QED
  BY <1>1, InstallCorrect, PTL

\* A dialog only writes under an ID that is not recorded, and only a Remove
\* takes files away.
LEMMA StepUntouched ==
  ASSUME TypeOK, InstallInvariant, Next, NEW p \in Recorded
  PROVE  aFile'[p] = aFile[p] /\ objFile'[p] = objFile[p] /\ srcDir'[p] = srcDir[p]
<1> USE DEF TypeOK
<1>1. CASE UNCHANGED storeVars
  BY <1>1 DEF storeVars
<1>2. ASSUME NEW d \in Dialogs,
             \/ MoveA(d) \/ ClearSrc(d) \/ ClearSrcFails(d) \/ MoveObj(d)
             \/ MoveSrc(d) \/ MoveSrcFails(d)
      PROVE  aFile'[p] = aFile[p] /\ objFile'[p] = objFile[p] /\ srcDir'[p] = srcDir[p]
  <2>1. shown[d] # p
    BY <1>2 DEF MoveA, ClearSrc, ClearSrcFails, MoveObj, MoveSrc, MoveSrcFails, CanPlace, Placed,
                Holding, InstallInvariant, PlacedIsNew, RecordedFilesInPlace
  <2>2. p \in IDs
    BY DEF Recorded, Range, RegistryType
  <2> QED
    BY <1>2, <2>1, <2>2
    DEF MoveA, ClearSrc, ClearSrcFails, MoveObj, MoveSrc, MoveSrcFails, StoreType
<1>3. UNCHANGED storeVars \/ \E d \in Dialogs :
        \/ MoveA(d) \/ ClearSrc(d) \/ ClearSrcFails(d) \/ MoveObj(d)
        \/ MoveSrc(d) \/ MoveSrcFails(d)
  <2>1. ASSUME NEW d \in Dialogs, HandlerStep(d),
               ~(\/ MoveA(d) \/ ClearSrc(d) \/ ClearSrcFails(d) \/ MoveObj(d)
                 \/ MoveSrc(d) \/ MoveSrcFails(d))
        PROVE  UNCHANGED storeVars
    BY <2>1 DEF HandlerStep, LoadDialog, OpenAppend, OpenAppendFails, MoveAFails, MoveObjFails,
                SaveFails, Throw, TellSuccess, SaveRecord
  <2>2. ~ManagerStep
    BY DEF InstallInvariant, ManagerStep, RemoveRow, RemoveRowsFromGrid, DropRegistry,
           RecreateRegistry, WriteRegistry
  <2>3. ASSUME NEW d \in Dialogs,
               StartDialog(d) \/ CheckExists(d) \/ CloseDialog(d) \/ CloseOrphan(d)
        PROVE  UNCHANGED storeVars
    BY <2>3 DEF StartDialog, CheckExists, CloseDialog, CloseOrphan, EndProcess
  <2>4. ASSUME \/ \E q \in Packages : OpenArchive(q)
               \/ \E e \in Entries : ExtractEntry(e)
               \/ BuildArchive \/ EndOfBuild \/ OpenManager \/ RefreshManager \/ CloseManager
               \/ RemoveLoad \/ Kill
        PROVE  UNCHANGED storeVars
    BY <2>4 DEF OpenArchive, ExtractEntry, BuildArchive, EndOfBuild, OpenManager, RefreshManager,
                CloseManager, RemoveLoad, Kill, EndProcess
  <2> QED
    BY <2>1, <2>2, <2>3, <2>4 DEF Next
<1> QED
  BY <1>1, <1>2, <1>3

\* While nobody removes packages, no installation, failed or not, changes the
\* files of a recorded package.
THEOREM InstalledUntouchedCorrect == MaxRemoves = 0 => (Spec => InstalledUntouched)
<1> SUFFICES ASSUME MaxRemoves = 0 PROVE Spec => InstalledUntouched
  OBVIOUS
<1>1. TypeOK /\ InstallInvariant /\ [Next]_vars => [KeepsInstalled]_vars
  BY StepUntouched DEF KeepsInstalled
<1>2. Spec => []InstallInvariant
  BY InstallCorrect
<1> QED
  BY <1>1, <1>2, TypeCorrect, PTL DEF Spec, InstalledUntouched

-----------------------------------------------------------------------------
(***************************************************************************)
(* The package manager alone.                                              *)
(***************************************************************************)

\* The first of a sequence without repetitions occurs in no other place.
LEMMA TailIsRest ==
  ASSUME NEW S, NEW s \in Seq(S), s # <<>>, IsInjective(s)
  PROVE  Range(Tail(s)) = Range(s) \ {Head(s)} /\ IsInjective(Tail(s))
<1> DEFINE t == Tail(s)
<1>1. /\ DOMAIN s = 1..Len(s) /\ Len(s) \in Nat \ {0} /\ Head(s) = s[1]
      /\ DOMAIN t = 1..Len(s) - 1
      /\ \A k \in 1..Len(s) - 1 : t[k] = s[k + 1]
  OBVIOUS
<1> HIDE DEF t
<1>2. IsInjective(t)
  BY <1>1 DEF IsInjective
<1>3. ASSUME NEW x \in Range(t) PROVE x \in Range(s) \ {Head(s)}
  <2>1. PICK k \in 1..Len(s) - 1 : x = t[k]
    BY <1>1, <1>3 DEF Range
  <2>2. k + 1 \in DOMAIN s /\ k + 1 # 1 /\ x = s[k + 1]
    BY <1>1, <2>1
  <2> QED BY <1>1, <2>2 DEF Range, IsInjective
<1>4. ASSUME NEW x \in Range(s), x # Head(s) PROVE x \in Range(t)
  <2>1. PICK k \in 1..Len(s) : x = s[k]
    BY <1>1, <1>4 DEF Range
  <2>2. k - 1 \in 1..Len(s) - 1 /\ x = t[k - 1]
    BY <1>1, <1>4, <2>1
  <2> QED BY <1>1, <2>2 DEF Range
<1>5. Range(t) = Range(s) \ {Head(s)}
  BY <1>3, <1>4
<1> QED
  BY <1>2, <1>5 DEF t

\* p is installed: its files are all there, and its own.
Whole(p) == aFile[p] = p /\ objFile[p] = p /\ srcDir[p] = {p}

\* The records that count: those of pkg.m, or, while the Remove handler is under
\* way, those it holds in memory.
Kept == IF mpc = "idle" THEN registry ELSE mem

\* Why RemoveSparesOthers holds: from the moment it has read pkg.m until it has
\* written it again, the handler has in memory what must be recorded, and a record
\* goes from there before the package's files do.
RemoveInvariant ==
  /\ extracting = None /\ todo = {}
  /\ \A d \in Dialogs : pc[d] = "closed"
  /\ writer = IF mpc = "write" THEN Manager ELSE None
  /\ IsInjective(Kept)
  /\ Range(picked) \subseteq asked
  /\ Range(Installed) \ asked \subseteq Range(Kept)
  /\ \A p \in Range(Kept) : Whole(p)

\* What changes none of it keeps it.
LEMMA KeepRemove ==
  RemoveInvariant /\ UNCHANGED <<registry, writer, storeVars, extracting, todo, pc, mpc, mem, picked, asked>>
    => RemoveInvariant'
  BY DEF RemoveInvariant, Kept, Whole, storeVars

\* At first the records are those of the installed packages, and so are the files.
LEMMA InitRemove == Init => RemoveInvariant
<1> SUFFICES ASSUME Init PROVE RemoveInvariant
  OBVIOUS
<1> USE PackagesAssumption
<1>1. Kept = Installed /\ IsInjective(Kept)
  BY DEF Init, Kept
<1>2. Range(picked) = {}
  BY DEF Init, Range
<1>3. Range(Installed) \subseteq IDs
  BY DEF Range, IDs
<1>4. \A p \in Range(Kept) : Whole(p)
  BY <1>1, <1>3 DEF Init, Whole
<1> QED
  BY <1>1, <1>2, <1>4 DEF Init, RemoveInvariant

\* One row: the package goes from memory, and its files may, or neither does.
LEMMA RemoveRowKeeps ==
  ASSUME TypeOK, RemoveInvariant, RemoveRow
  PROVE  RemoveInvariant'
<1> DEFINE id == picked[row + 1]
<1>1. /\ mpc = "rows" /\ mpc' = "rows" /\ mem \in Seq(IDs) /\ Kept = mem /\ Kept' = mem'
      /\ UNCHANGED <<writer, extracting, todo, pc, picked, asked>>
  BY DEF RemoveRow, TypeOK, ManagerType, Kept, regVars, uiVars, dialogVars
<1>2. id \in asked
  <2>1. picked \in Seq(IDs) /\ row \in Nat /\ row < Len(picked)
    BY DEF RemoveRow, TypeOK, ManagerType
  <2>2. row + 1 \in DOMAIN picked
    BY <2>1
  <2> QED BY <2>2 DEF RemoveInvariant, Range
<1>3. CASE mem # <<>> /\ Head(mem) = id
  <2>1. mem' = Tail(mem) /\ Range(mem') = Range(mem) \ {id} /\ IsInjective(mem')
    BY <1>1, <1>3, TailIsRest DEF RemoveRow, RemoveInvariant
  <2>2. PICK left : srcDir' = [srcDir EXCEPT ![id] = left]
    BY <1>3 DEF RemoveRow
  <2>3. \A p \in Range(mem) : p # id => Whole(p)'
    BY <1>1, <1>3, <2>2 DEF RemoveRow, RemoveInvariant, Whole, TypeOK, StoreType, Range
  <2>4. \A p \in Range(mem') : Whole(p)'
    BY <2>1, <2>3
  <2>5. Range(Installed) \ asked \subseteq Range(mem')
    BY <1>1, <1>2, <2>1 DEF RemoveInvariant
  <2> QED
    BY <1>1, <2>1, <2>4, <2>5 DEF RemoveInvariant
<1>4. CASE ~(mem # <<>> /\ Head(mem) = id)
  <2>1. UNCHANGED <<mem, storeVars>>
    BY <1>4 DEF RemoveRow
  <2> QED
    BY <1>1, <2>1 DEF RemoveInvariant, Whole, storeVars
<1> QED
  BY <1>3, <1>4

\* The rest of the Remove handler.
LEMMA ManagerKeeps ==
  ASSUME TypeOK, RemoveInvariant, RemoveLoad \/ ManagerStep
  PROVE  RemoveInvariant'
<1>1. CASE RemoveLoad
  <2>1. /\ mpc = "idle" /\ mpc' = "rows" /\ Kept = registry /\ Kept' = registry
        /\ asked' = asked \cup Range(picked')
        /\ UNCHANGED <<writer, extracting, todo, pc, storeVars>>
    BY <1>1 DEF RemoveLoad, UiFree, Kept, regVars, uiVars, dialogVars
  <2> QED
    BY <2>1 DEF RemoveInvariant, Whole, storeVars
<1>2. CASE RemoveRow
  BY <1>2, RemoveRowKeeps
<1>3. CASE RemoveRowsFromGrid
  BY <1>3 DEF RemoveRowsFromGrid, RemoveInvariant, Kept, Whole, regVars, storeVars, uiVars, dialogVars
<1>4. CASE DropRegistry
  BY <1>4 DEF DropRegistry, RemoveInvariant, Kept, Whole, storeVars, uiVars, dialogVars
<1>5. CASE RecreateRegistry
  BY <1>5 DEF RecreateRegistry, RemoveInvariant, Kept, Whole, storeVars, uiVars, dialogVars
<1>6. CASE WriteRegistry
  BY <1>6 DEF WriteRegistry, RemoveInvariant, Kept, Whole, storeVars, uiVars, dialogVars
<1> QED
  BY <1>1, <1>2, <1>3, <1>4, <1>5, <1>6 DEF ManagerStep

\* While no archive is opened and nothing kills the process, every step keeps it.
LEMMA NextRemove ==
  ASSUME MaxExtracts = 0, MaxKills = 0, TypeOK, RemoveInvariant, [Next]_vars
  PROVE  RemoveInvariant'
<1>1. CASE UNCHANGED vars
  BY <1>1, KeepRemove DEF vars, regVars, uiVars, dialogVars, manVars
<1>2. CASE RemoveLoad \/ ManagerStep
  BY <1>2, ManagerKeeps
<1>3. CASE BuildArchive \/ EndOfBuild \/ OpenManager \/ RefreshManager \/ CloseManager
  BY <1>3, KeepRemove DEF BuildArchive, EndOfBuild, OpenManager, RefreshManager, CloseManager,
                          regVars, uiVars, dialogVars, manVars
<1>4. ~Kill /\ \A p \in Packages : ~OpenArchive(p)
  BY DEF Kill, OpenArchive, TypeOK, UiType, ManagerType
<1>5. \A e \in Entries : ~ExtractEntry(e)
  BY DEF ExtractEntry, RemoveInvariant
<1>6. ASSUME NEW d \in Dialogs
      PROVE  ~(StartDialog(d) \/ CheckExists(d) \/ HandlerStep(d) \/ CloseDialog(d) \/ CloseOrphan(d))
  BY DEF RemoveInvariant, StartDialog, CheckExists, CloseDialog, CloseOrphan, HandlerStep, LoadDialog,
         OpenAppend, OpenAppendFails, MoveA, MoveAFails, ClearSrc, ClearSrcFails, MoveObj, MoveObjFails,
         MoveSrc, MoveSrcFails, TellSuccess, SaveRecord, SaveFails
<1> QED
  BY <1>1, <1>2, <1>3, <1>4, <1>5, <1>6 DEF Next

\* Whatever rows the user picks, and however often, Remove keeps every record
\* that was not picked, and every record that is left has all its files, also when
\* deleting others fails.
THEOREM RemoveSparesOthersCorrect ==
  MaxExtracts = 0 /\ MaxKills = 0 => (Spec => []RemoveSparesOthers)
<1> SUFFICES ASSUME MaxExtracts = 0, MaxKills = 0 PROVE Spec => []RemoveSparesOthers
  OBVIOUS
<1>1. TypeOK /\ RemoveInvariant /\ [Next]_vars => RemoveInvariant'
  BY NextRemove
<1>2. RemoveInvariant => RemoveSparesOthers
  BY DEF RemoveInvariant, RemoveSparesOthers, Kept, Whole, OwnFiles, Recorded
<1> QED
  BY <1>1, <1>2, InitRemove, TypeCorrect, PTL DEF Spec
=============================================================================
