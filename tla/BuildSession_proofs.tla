------------------------- MODULE BuildSession_proofs -------------------------
(***************************************************************************)
(* Theorems about BuildSession, proved for any projects, files and bounds. *)
(***************************************************************************)
EXTENDS BuildSession, TLAPS

\* A compiling directory that gets other contents is still a directory.
LEMMA DirType ==
  ASSUME TypeOK, NEW d \in Directory
  PROVE  [dir EXCEPT ![cmpdir] = d] \in [DirNames -> Directory]
  BY DEF TypeOK, DirNames

\* What a failed deletion leaves is a directory.
LEMMA RestsType ==
  ASSUME NEW d \in Directory, NEW r \in Rests(d)
  PROVE  r \in Directory
<1>1. d.cs \in SUBSET Nodes /\ d.obj \in SUBSET Artifact /\ d.go \in Artifact \cup {None}
  BY DEF Directory
<1>2. r = [cs |-> r.cs, obj |-> r.obj, go |-> r.go] /\ r.cs \in SUBSET d.cs
      /\ r.obj \in SUBSET d.obj /\ r.go \in {d.go, None}
  BY DEF Rests
<1> QED
  BY <1>1, <1>2 DEF Directory

\* A directory holds what was translated, linked or translated back into it.
LEMMA FilledType ==
  ASSUME NEW d \in Directory
  PROVE  /\ \A S \in SUBSET Nodes : [EmptyDir EXCEPT !.cs = S] \in Directory
         /\ \A a \in Artifact : [d EXCEPT !.obj = @ \cup {a}] \in Directory
         /\ \A a \in Artifact : [d EXCEPT !.go = a] \in Directory
<1>1. ASSUME NEW S \in SUBSET Nodes PROVE [EmptyDir EXCEPT !.cs = S] \in Directory
  BY DEF EmptyDir, Directory
<1>2. ASSUME NEW a \in Artifact PROVE [d EXCEPT !.obj = @ \cup {a}] \in Directory
  BY DEF Directory
<1>3. ASSUME NEW a \in Artifact PROVE [d EXCEPT !.go = a] \in Directory
  BY DEF Directory
<1> QED
  BY <1>1, <1>2, <1>3

\* The directory of the build in progress is one of the two.
LEMMA CmpdirType == TypeOK => cmpdir \in DirNames /\ dir[cmpdir] \in Directory
  BY DEF TypeOK, cmpdir, DirNames

\* Clicking on Build, collecting and the pre-build script keep every type.
LEMMA CollectStepType ==
  ASSUME TypeOK,
         \/ \E p \in Projects : ClickBuild(p)
         \/ \E f \in Nodes : Collect(f) \/ CollectThrows(f)
         \/ PreBuild \/ PreBuildThrows \/ PreBuildHangs
  PROVE  TypeOK'
<1>1. ASSUME NEW p \in Projects, ClickBuild(p) PROVE TypeOK'
  <2>1. [dir EXCEPT !["package"] = EmptyDir] \in [DirNames -> Directory]
    BY DEF TypeOK, DirNames, Directory, EmptyDir
  <2>2. Tree[p] \subseteq Nodes /\ builds + 1 \in 0..MaxBuilds
    BY <1>1, BuildAssumption DEF ClickBuild, TypeOK
  <2>3. builds' > 0
    BY <1>1 DEF ClickBuild, TypeOK
  <2>4. aborted' \in BOOLEAN
    BY <1>1 DEF ClickBuild
  <2> QED
    BY <1>1, <2>1, <2>2, <2>3, <2>4 DEF ClickBuild, TypeOK, Stages, childVars
<1>2. ASSUME NEW f \in Nodes, Collect(f) \/ CollectThrows(f) PROVE TypeOK'
  BY <1>2 DEF Collect, CollectThrows, TypeOK, Stages, childVars, histVars
<1>3. CASE PreBuild \/ PreBuildThrows
  BY <1>3 DEF PreBuild, PreBuildThrows, TypeOK, Stages, childVars, histVars
<1>4. CASE PreBuildHangs
  BY <1>4 DEF PreBuildHangs, Hangs, TypeOK, Stages, histVars
<1> QED
  BY <1>1, <1>2, <1>3, <1>4

\* An exception in the try block keeps every type.
LEMMA ThrowType == TypeOK /\ stage # "idle" /\ Throw => TypeOK'
  BY DEF Throw, TypeOK, Stages, childVars, histVars

\* The compiler's stages keep every type.
LEMMA TranslateType ==
  ASSUME TypeOK,
         \/ \E ok \in BOOLEAN : Interpret(ok) \/ Link(ok)
         \/ InterpretThrows \/ InterpretHangs \/ LinkThrows \/ Analyze \/ AnalyzeThrows
  PROVE  TypeOK'
<1>1. ASSUME NEW ok \in BOOLEAN, Interpret(ok) PROVE TypeOK'
  <2>1. dir' \in [DirNames -> Directory]
    BY <1>1, CmpdirType, FilledType, DirType DEF Interpret, TypeOK
  <2> QED
    BY <1>1, <2>1 DEF Interpret, AfterStage, TypeOK, Stages, childVars, histVars
<1>2. ASSUME NEW ok \in BOOLEAN, Link(ok) PROVE TypeOK'
  <2>1. [build |-> builds, sources |-> dir[cmpdir].cs] \in Artifact
    BY <1>2, CmpdirType DEF Link, TypeOK, Directory, Artifact
  <2>2. dir' \in [DirNames -> Directory]
    BY <1>2, <2>1, CmpdirType, FilledType, DirType DEF Link, TypeOK
  <2> QED
    BY <1>2, <2>2 DEF Link, AfterStage, TypeOK, Stages, childVars, histVars
<1>3. CASE InterpretThrows
  <2>1. PICK d \in Rests(dir[cmpdir]) \cup Rests([EmptyDir EXCEPT !.cs = packets]) :
          dir' = [dir EXCEPT ![cmpdir] = d]
    BY <1>3 DEF InterpretThrows
  <2>2. d \in Directory
    BY <2>1, CmpdirType, FilledType, RestsType DEF TypeOK
  <2>3. dir' \in [DirNames -> Directory]
    BY <2>1, <2>2, DirType
  <2> QED
    BY <1>3, <2>3 DEF InterpretThrows, AfterStage, TypeOK, Stages, childVars, histVars
<1>4. CASE Analyze
  <2>1. PICK o \in dir[cmpdir].obj : dir' = [dir EXCEPT ![cmpdir].go = o]
    BY <1>4 DEF Analyze
  <2>2. o \in Artifact
    BY <2>1, CmpdirType DEF Directory
  <2>3. dir' \in [DirNames -> Directory]
    BY <2>1, <2>2, CmpdirType, FilledType, DirType
  <2> QED
    BY <1>4, <2>3 DEF Analyze, TypeOK, Stages, childVars, histVars
<1>5. CASE AnalyzeThrows \/ LinkThrows
  BY <1>5, ThrowType DEF AnalyzeThrows, LinkThrows
<1>6. CASE InterpretHangs
  <2>1. EmptyDir \in Directory
    BY DEF EmptyDir, Directory
  <2>2. dir' \in [DirNames -> Directory]
    BY <1>6, <2>1, DirType DEF InterpretHangs
  <2> QED
    BY <1>6, <2>2 DEF InterpretHangs, Hangs, TypeOK, Stages, histVars
<1> QED
  BY <1>1, <1>2, <1>3, <1>4, <1>5, <1>6

\* The child processes and the handler that waits for them keep every type.
LEMMA ChildType ==
  ASSUME TypeOK,
         \/ \E n \in 0..MaxOutput : StartGo(n) \/ StartUpx(n)
         \/ StartGoThrows \/ StartUpxThrows
         \/ WaitForExit \/ WaitForUpx
         \/ ChildStep
  PROVE  TypeOK'
<1> USE BuildAssumption
<1>1. ASSUME NEW n \in 0..MaxOutput, StartGo(n) \/ StartUpx(n) PROVE TypeOK'
  BY <1>1 DEF StartGo, StartUpx, StartChild, TypeOK, Stages, histVars
<1>2. CASE StartGoThrows \/ StartUpxThrows
  BY <1>2, ThrowType DEF StartGoThrows, StartUpxThrows
<1>3. CASE WaitForExit \/ WaitForUpx
  BY <1>3 DEF WaitForExit, WaitForUpx, TypeOK, Stages, histVars
<1>4. CASE ChildWrites
  BY <1>4 DEF ChildWrites, TypeOK, histVars
<1>5. CASE ChildExits
  <2>1. dir[cmpdir].go \in Artifact \cup {None}
    BY CmpdirType DEF Directory
  <2> QED
    BY <1>5, <2>1 DEF ChildExits, TypeOK, histVars
<1> QED
  BY <1>1, <1>2, <1>3, <1>4, <1>5 DEF ChildStep

\* So does the way of the result into build\release, and the clean-up.
LEMMA ReleaseStepType ==
  ASSUME TypeOK,
         \/ MoveOutput \/ MoveOutputThrows
         \/ DeleteOldExe \/ DeleteOldExeThrows \/ PlaceExe \/ PlaceExeThrows
         \/ ZipPackage \/ ZipPackageThrows
         \/ PostBuild \/ PostBuildThrows \/ PostBuildHangs
         \/ Finally
  PROVE  TypeOK'
<1>1. CASE MoveOutput
  BY <1>1 DEF MoveOutput, AfterCompiling, TypeOK, Stages, childVars, histVars
<1>2. CASE MoveOutputThrows \/ DeleteOldExeThrows \/ PlaceExeThrows \/ PostBuildThrows
  BY <1>2, ThrowType DEF MoveOutputThrows, DeleteOldExeThrows, PlaceExeThrows, PostBuildThrows
<1>3. CASE DeleteOldExe
  BY <1>3 DEF DeleteOldExe, TypeOK, Stages, childVars, histVars
<1>4. CASE PlaceExe
  BY <1>4 DEF PlaceExe, TypeOK, Stages, childVars, histVars
<1>5. CASE ZipPackage
  BY <1>5 DEF ZipPackage, TypeOK, Stages, childVars, histVars
<1>6. CASE ZipPackageThrows
  BY <1>6 DEF ZipPackageThrows, TypeOK, Stages, childVars, histVars
<1>7. CASE PostBuild
  BY <1>7 DEF PostBuild, TypeOK, Stages, childVars, histVars
<1>8. CASE Finally
  <2>1. PICK d \in Rests(dir[cmpdir]) : dir' = [dir EXCEPT ![cmpdir] = d]
    BY <1>8 DEF Finally
  <2>2. dir' \in [DirNames -> Directory]
    BY <2>1, CmpdirType, RestsType, DirType
  <2> QED
    BY <1>8, <2>2 DEF Finally, TypeOK, Stages, childVars, histVars
<1>9. CASE PostBuildHangs
  BY <1>9 DEF PostBuildHangs, Hangs, TypeOK, Stages, histVars
<1> QED
  BY <1>1, <1>2, <1>3, <1>4, <1>5, <1>6, <1>7, <1>8, <1>9

\* A process that is killed leaves its files, and at most a cut archive.
LEMMA KillType == TypeOK /\ Kill => TypeOK'
<1> SUFFICES ASSUME TypeOK, Kill PROVE TypeOK'
  OBVIOUS
<1>1. dir[cmpdir].go \in Artifact \cup {None}
  BY CmpdirType DEF Directory
<1>2. release' \in [Projects -> Artifact \cup {None, Truncated}]
  BY DEF Kill, TypeOK
<1>3. mainExe' \in Artifact \cup {None} /\ dir' \in [DirNames -> Directory]
  BY <1>1 DEF Kill, TypeOK
<1>4. kills' \in 0..MaxKills
  BY BuildAssumption DEF Kill, TypeOK
<1>5. aborted' \in BOOLEAN
  BY DEF Kill
<1> QED
  BY <1>2, <1>3, <1>4, <1>5, BuildAssumption DEF Kill, TypeOK, Stages

\* The program starts well typed, with nothing built.
LEMMA InitType == Init => TypeOK
<1>1. Init => dir \in [DirNames -> Directory]
  BY DEF Init, Directory, EmptyDir
<1>2. Init => release \in [Projects -> Artifact \cup {None, Truncated}]
  BY DEF Init
<1>3. Init => aborted \in BOOLEAN
  BY DEF Init
<1> QED
  BY <1>1, <1>2, <1>3, BuildAssumption DEF Init, TypeOK, Stages

\* Every step keeps every type.
LEMMA NextType == TypeOK /\ [Next]_vars => TypeOK'
<1>1. TypeOK /\ UNCHANGED vars => TypeOK'
  BY DEF TypeOK, vars, childVars, histVars
<1>2. TypeOK /\ BuildStep => TypeOK'
  BY CollectStepType, TranslateType, ChildType, ReleaseStepType DEF BuildStep
<1> QED
  BY <1>1, <1>2, CollectStepType, ChildType, KillType DEF Next

\* Every reachable state of a session is well typed.
THEOREM TypeCorrect == Spec => []TypeOK
  BY InitType, NextType, PTL DEF Spec
-----------------------------------------------------------------------------
(***************************************************************************)
(* The invariant of a build.                                               *)
(***************************************************************************)

\* While a build goes on, what it is to release stays the same.
LEMMA SameBuild ==
  ASSUME stage # "idle", stage' # "idle", UNCHANGED <<project, leaked, builds>>
  PROVE  Own' = Own /\ Made' = Made /\ IsDll' = IsDll /\ cmpdir' = cmpdir
  BY DEF Own, Made, IsDll, cmpdir

\* What a build is to release is an artifact, and none of the two sentinels.
LEMMA MadeType ==
  ASSUME TypeOK, stage # "idle", project # None
  PROVE  Own \subseteq Nodes /\ Made \in Artifact /\ Made # None /\ Made # Truncated
<1>1. project \in Projects /\ Tree[project] \subseteq Nodes
  BY BuildAssumption DEF TypeOK
<1>2. Own \subseteq Nodes
  BY <1>1 DEF Own, TypeOK
<1>3. builds \in 1..MaxBuilds
  BY BuildAssumption DEF TypeOK
<1> QED
  BY <1>2, <1>3, BuildAssumption DEF Made, Artifact

\* A build that hangs has the promises of no stage to keep.
LEMMA HangInvariant ==
  ASSUME BuildInvariant, stage # "idle",
         \E where \in {"joining", "script"} : Hangs(where)
  PROVE  BuildInvariant'
  BY DEF Hangs, histVars, BuildInvariant, PacketsOwned, DirectoryOwned, OutputOwned, ToldTrue,
         Started

\* Collecting makes the parser's packets the build's own files.
LEMMA CollectInvariant ==
  ASSUME TypeOK, BuildInvariant,
         \/ \E p \in Projects : ClickBuild(p)
         \/ \E f \in Nodes : Collect(f) \/ CollectThrows(f)
         \/ PreBuild \/ PreBuildThrows \/ PreBuildHangs
  PROVE  BuildInvariant'
<1>1. ASSUME NEW p \in Projects, ClickBuild(p) PROVE BuildInvariant'
  BY <1>1, BuildAssumption
  DEF ClickBuild, BuildInvariant, PacketsOwned, DirectoryOwned, OutputOwned, ToldTrue, Own,
      Started
<1>2. ASSUME NEW f \in Nodes, Collect(f) PROVE BuildInvariant'
  BY <1>2, SameBuild
  DEF Collect, histVars, BuildInvariant, PacketsOwned, DirectoryOwned, OutputOwned, ToldTrue,
      Started
<1>3. ASSUME NEW f \in Nodes, CollectThrows(f) PROVE BuildInvariant'
  BY <1>3
  DEF CollectThrows, BuildInvariant, PacketsOwned, DirectoryOwned, OutputOwned, ToldTrue,
      Started
<1>4. CASE PreBuild
  BY <1>4, SameBuild
  DEF PreBuild, histVars, BuildInvariant, PacketsOwned, DirectoryOwned, OutputOwned, ToldTrue,
      Started
<1>5. CASE PreBuildThrows
  BY <1>5
  DEF PreBuildThrows, BuildInvariant, PacketsOwned, DirectoryOwned, OutputOwned, ToldTrue,
      Started
<1>6. CASE PreBuildHangs
  BY <1>6, HangInvariant DEF PreBuildHangs
<1> QED
  BY <1>1, <1>2, <1>3, <1>4, <1>5, <1>6

\* An exception leads to the finally block with no message about a time.
LEMMA ThrowInvariant ==
  ASSUME BuildInvariant, Throw, stage \in Started, stage \notin {"collect", "interpret"}
  PROVE  BuildInvariant'
  BY DEF Throw, histVars, BuildInvariant, PacketsOwned, DirectoryOwned, OutputOwned, ToldTrue,
         Started

\* From stage to stage the compiler passes on this build's files only.
LEMMA TranslateInvariant ==
  ASSUME TypeOK, BuildInvariant,
         \/ \E ok \in BOOLEAN : Interpret(ok) \/ Link(ok)
         \/ InterpretThrows \/ InterpretHangs \/ LinkThrows \/ Analyze \/ AnalyzeThrows
  PROVE  BuildInvariant'
<1>1. ASSUME NEW ok \in BOOLEAN, Interpret(ok) PROVE BuildInvariant'
  <2>1. dir'[cmpdir] = [EmptyDir EXCEPT !.cs = Own]
    BY <1>1, CmpdirType DEF Interpret, BuildInvariant, PacketsOwned, TypeOK
  <2> QED
    BY <1>1, <2>1, SameBuild
    DEF Interpret, AfterStage, histVars, BuildInvariant, PacketsOwned, DirectoryOwned,
        OutputOwned, ToldTrue, Started
<1>2. ASSUME NEW ok \in BOOLEAN, Link(ok) PROVE BuildInvariant'
  <2>1. ok => dir'[cmpdir].obj = {Made}
    BY <1>2, CmpdirType
    DEF Link, BuildInvariant, DirectoryOwned, TypeOK, EmptyDir, Made, Directory
  <2> QED
    BY <1>2, <2>1, SameBuild
    DEF Link, AfterStage, histVars, BuildInvariant, PacketsOwned, DirectoryOwned,
        OutputOwned, ToldTrue, Started
<1>3. CASE InterpretThrows
  BY <1>3, SameBuild
  DEF InterpretThrows, AfterStage, histVars, BuildInvariant, PacketsOwned, DirectoryOwned,
      OutputOwned, ToldTrue, Started
<1>4. CASE Analyze
  <2>1. dir'[cmpdir].go = Made
    BY <1>4, CmpdirType DEF Analyze, BuildInvariant, DirectoryOwned, TypeOK, Directory
  <2> QED
    BY <1>4, <2>1, SameBuild
    DEF Analyze, histVars, BuildInvariant, PacketsOwned, DirectoryOwned, OutputOwned,
        ToldTrue, Started
<1>5. CASE AnalyzeThrows \/ LinkThrows
  BY <1>5, ThrowInvariant DEF AnalyzeThrows, LinkThrows, Started
<1>6. CASE InterpretHangs
  BY <1>6, HangInvariant DEF InterpretHangs
<1> QED
  BY <1>1, <1>2, <1>3, <1>4, <1>5, <1>6

\* A child that has nothing to say has left this build's output behind.
LEMMA ChildInvariant ==
  ASSUME TypeOK, BuildInvariant,
         \/ \E n \in 0..MaxOutput : StartGo(n) \/ StartUpx(n)
         \/ StartGoThrows \/ StartUpxThrows
         \/ WaitForExit \/ WaitForUpx
         \/ ChildStep
  PROVE  BuildInvariant'
<1>1. ASSUME NEW n \in 0..MaxOutput, StartGo(n) PROVE BuildInvariant'
  BY <1>1, SameBuild
  DEF StartGo, StartChild, histVars, BuildInvariant, PacketsOwned, DirectoryOwned,
      OutputOwned, ToldTrue, Started
<1>2. ASSUME NEW n \in 0..MaxOutput, StartUpx(n) PROVE BuildInvariant'
  BY <1>2, SameBuild
  DEF StartUpx, StartChild, histVars, BuildInvariant, PacketsOwned, DirectoryOwned,
      OutputOwned, ToldTrue, Started
<1>3. CASE StartGoThrows \/ StartUpxThrows
  BY <1>3, ThrowInvariant DEF StartGoThrows, StartUpxThrows, Started
<1>4. CASE WaitForExit
  BY <1>4, SameBuild
  DEF WaitForExit, histVars, BuildInvariant, PacketsOwned, DirectoryOwned, OutputOwned,
      ToldTrue, Started
<1>5. CASE WaitForUpx
  BY <1>5, SameBuild
  DEF WaitForUpx, histVars, BuildInvariant, PacketsOwned, DirectoryOwned, OutputOwned,
      ToldTrue, Started
<1>6. CASE ChildWrites
  BY <1>6
  DEF ChildWrites, histVars, BuildInvariant, PacketsOwned, DirectoryOwned, OutputOwned,
      ToldTrue, Started, Own, Made, IsDll, cmpdir
<1>7. CASE ChildExits
  <2>1. UNCHANGED <<Own, Made, IsDll, cmpdir>>
    BY <1>7 DEF ChildExits, histVars, Own, Made, IsDll, cmpdir
  <2>2. PacketsOwned' /\ DirectoryOwned' /\ ToldTrue'
    BY <1>7, <2>1
    DEF ChildExits, histVars, BuildInvariant, PacketsOwned, DirectoryOwned, ToldTrue, Started
  <2>3. OutputOwned'
    BY <1>7, <2>1 DEF ChildExits, BuildInvariant, DirectoryOwned, OutputOwned
  <2> QED BY <2>2, <2>3 DEF BuildInvariant
<1> QED
  BY <1>1, <1>2, <1>3, <1>4, <1>5, <1>6, <1>7 DEF ChildStep

\* What is moved into build\release is this build's output.
LEMMA ReleaseInvariant ==
  ASSUME TypeOK, BuildInvariant,
         \/ MoveOutput \/ MoveOutputThrows
         \/ DeleteOldExe \/ DeleteOldExeThrows \/ PlaceExe \/ PlaceExeThrows
         \/ ZipPackage \/ ZipPackageThrows
         \/ PostBuild \/ PostBuildThrows \/ PostBuildHangs
         \/ Finally
  PROVE  BuildInvariant'
<1>1. CASE MoveOutput
  <2>1. result = "none" => output' = Made
    BY <1>1, MadeType DEF MoveOutput, BuildInvariant, OutputOwned, PacketsOwned
  <2> QED
    BY <1>1, <2>1, SameBuild
    DEF MoveOutput, AfterCompiling, histVars, BuildInvariant, PacketsOwned, DirectoryOwned,
        OutputOwned, ToldTrue, Started, TypeOK
<1>2. CASE MoveOutputThrows \/ DeleteOldExeThrows \/ PlaceExeThrows
  BY <1>2, ThrowInvariant DEF MoveOutputThrows, DeleteOldExeThrows, PlaceExeThrows, Started
<1>3. CASE DeleteOldExe
  BY <1>3, SameBuild
  DEF DeleteOldExe, histVars, BuildInvariant, PacketsOwned, DirectoryOwned, OutputOwned,
      ToldTrue, Started
<1>4. CASE PlaceExe \/ ZipPackage
  <2>1. release'[project] = Made
    BY <1>4 DEF PlaceExe, ZipPackage, BuildInvariant, OutputOwned, PacketsOwned, TypeOK
  <2> QED
    BY <1>4, <2>1, SameBuild
    DEF PlaceExe, ZipPackage, histVars, BuildInvariant, PacketsOwned, DirectoryOwned,
        OutputOwned, ToldTrue, Started
<1>5. CASE ZipPackageThrows
  BY <1>5
  DEF ZipPackageThrows, histVars, BuildInvariant, PacketsOwned, DirectoryOwned, OutputOwned,
      ToldTrue, Started
<1>6. CASE PostBuild \/ PostBuildThrows
  BY <1>6, SameBuild
  DEF PostBuild, PostBuildThrows, Throw, histVars, BuildInvariant, PacketsOwned,
      DirectoryOwned, OutputOwned, ToldTrue, Started
<1>7. CASE Finally
  BY <1>7
  DEF Finally, histVars, BuildInvariant, PacketsOwned, DirectoryOwned, OutputOwned, ToldTrue,
      Started
<1>8. CASE PostBuildHangs
  BY <1>8, HangInvariant DEF PostBuildHangs
<1> QED
  BY <1>1, <1>2, <1>3, <1>4, <1>5, <1>6, <1>7, <1>8

\* A kill takes the parser and the handler along.
LEMMA KillInvariant == BuildInvariant /\ Kill => BuildInvariant'
  BY DEF Kill, BuildInvariant, PacketsOwned, DirectoryOwned, OutputOwned, ToldTrue, Started

\* The program starts with an empty parser and no build.
LEMMA InitInvariant == Init => BuildInvariant
  BY DEF Init, BuildInvariant, PacketsOwned, DirectoryOwned, OutputOwned, ToldTrue, Started

\* Every step keeps the invariant.
LEMMA NextInvariant == TypeOK /\ BuildInvariant /\ [Next]_vars => BuildInvariant'
<1>1. BuildInvariant /\ UNCHANGED vars => BuildInvariant'
  BY DEF vars, childVars, histVars, BuildInvariant, PacketsOwned, DirectoryOwned, OutputOwned,
         ToldTrue, Started, Own, Made, IsDll, cmpdir
<1>2. TypeOK /\ BuildInvariant /\ BuildStep => BuildInvariant'
  BY CollectInvariant, TranslateInvariant, ChildInvariant, ReleaseInvariant DEF BuildStep
<1> QED
  BY <1>1, <1>2, CollectInvariant, ChildInvariant, KillInvariant DEF Next

\* Whatever fails, from stage to stage a build works on its own files.
THEOREM BuildCorrect == Spec => []BuildInvariant
  BY TypeCorrect, InitInvariant, NextInvariant, PTL DEF Spec

\* A build that reports its time has released what it linked itself.
THEOREM ReleaseIsOwn == Spec => []ReleasedAsBuilt
<1>1. BuildInvariant => ReleasedAsBuilt
  BY DEF BuildInvariant, ToldTrue, ReleasedAsBuilt, Made, Own
<1> QED
  BY <1>1, BuildCorrect, PTL

\* Only an aborted collection leaves files in the parser.
THEOREM ParserIsEmptied == Spec => []ParserEmptied
<1>1. BuildInvariant => ParserEmptied
  BY DEF BuildInvariant, PacketsOwned, ParserEmptied
<1> QED
  BY <1>1, BuildCorrect, PTL

\* Of all steps only three, and a kill while an archive is filled, touch
\* build\release, and they come after the compiler's success.
LEMMA StepKeepsRelease == TypeOK /\ BuildInvariant /\ [Next]_vars => KeepsRelease
<1> SUFFICES ASSUME TypeOK, BuildInvariant, [Next]_vars PROVE KeepsRelease
  OBVIOUS
<1>1. CASE UNCHANGED release
  BY <1>1 DEF KeepsRelease
<1>2. ASSUME stage \in {"replace", "place", "zip"},
             \E a : release' = [release EXCEPT ![project] = a]
      PROVE  KeepsRelease
  BY <1>2 DEF KeepsRelease, BuildInvariant, ToldTrue, Started, TypeOK
<1>3. CASE DeleteOldExe
  BY <1>2, <1>3 DEF DeleteOldExe
<1>4. CASE PlaceExe
  BY <1>2, <1>4 DEF PlaceExe
<1>5. CASE ZipPackage
  BY <1>2, <1>5 DEF ZipPackage
<1>6. CASE ZipPackageThrows
  BY <1>2, <1>6 DEF ZipPackageThrows
<1>7. CASE Kill
  BY <1>1, <1>2, <1>7 DEF Kill
<1>8. ASSUME \/ UNCHANGED vars
             \/ \E p \in Projects : ClickBuild(p)
             \/ \E f \in Nodes : Collect(f) \/ CollectThrows(f)
             \/ PreBuild \/ PreBuildThrows \/ PreBuildHangs
             \/ \E ok \in BOOLEAN : Interpret(ok) \/ Link(ok)
             \/ InterpretThrows \/ InterpretHangs \/ LinkThrows \/ Analyze \/ AnalyzeThrows
      PROVE  UNCHANGED release
  BY <1>8 DEF vars, ClickBuild, Collect, CollectThrows, PreBuild, PreBuildThrows, PreBuildHangs,
              Interpret, Link, InterpretThrows, InterpretHangs, LinkThrows, Analyze,
              AnalyzeThrows, Throw, Hangs
<1>9. ASSUME \/ \E n \in 0..MaxOutput : StartGo(n) \/ StartUpx(n)
             \/ StartGoThrows \/ StartUpxThrows
             \/ WaitForExit \/ WaitForUpx
             \/ ChildStep
             \/ MoveOutput \/ MoveOutputThrows \/ DeleteOldExeThrows \/ PlaceExeThrows
             \/ PostBuild \/ PostBuildThrows \/ PostBuildHangs
             \/ Finally
      PROVE  UNCHANGED release
  BY <1>9 DEF StartGo, StartUpx, StartGoThrows, StartUpxThrows, WaitForExit, WaitForUpx,
              ChildStep, ChildWrites, ChildExits, MoveOutput, MoveOutputThrows,
              DeleteOldExeThrows, PlaceExeThrows, PostBuild, PostBuildThrows, PostBuildHangs,
              Finally, Throw, Hangs
<1> QED
  BY <1>1, <1>3, <1>4, <1>5, <1>6, <1>7, <1>8, <1>9 DEF Next, BuildStep

\* A failed build keeps the old release, and no build touches another project's.
THEOREM ReleaseKeptCorrect == Spec => ReleaseKept
  BY TypeCorrect, BuildCorrect, StepKeepsRelease, PTL DEF Spec, ReleaseKept
-----------------------------------------------------------------------------
(***************************************************************************)
(* A session implements Release.                                           *)
(***************************************************************************)

\* What an abort leaves in the parser is the aborted build's own.
LEMMA NextAbort ==
  ASSUME TypeOK, BuildInvariant, AbortOwned, [Next]_vars
  PROVE  AbortOwned'
<1> USE DEF AbortOwned
<1>1. CASE UNCHANGED vars
  BY <1>1 DEF vars, histVars, Own
<1>2. ASSUME NEW p \in Projects, ClickBuild(p) PROVE AbortOwned'
  BY <1>2 DEF ClickBuild
<1>3. ASSUME NEW f \in Nodes, Collect(f) \/ CollectThrows(f) PROVE AbortOwned'
  BY <1>3 DEF Collect, CollectThrows, histVars
<1>4. CASE PreBuildThrows
  <2>1. packets \subseteq Own /\ Own' = Own
    BY <1>4 DEF PreBuildThrows, BuildInvariant, PacketsOwned, Own
  <2> QED
    BY <1>4, <2>1 DEF PreBuildThrows, BuildInvariant, ToldTrue, Started
<1>5. CASE Finally
  BY <1>5 DEF Finally, histVars
<1>6. CASE Kill
  BY <1>6 DEF Kill
<1>7. ASSUME stage' = "finally", stage \notin {"idle", "finally", "script", "joining", "collect", "interpret"},
             UNCHANGED <<packets, aborted>>
      PROVE  AbortOwned'
  BY <1>7 DEF BuildInvariant, PacketsOwned
<1>8. CASE Throw /\ stage \in {"link", "analyze", "compile", "upx", "move", "replace", "place", "post"}
  BY <1>7, <1>8 DEF Throw, histVars
<1>9. CASE \/ StartGoThrows \/ StartUpxThrows \/ LinkThrows \/ AnalyzeThrows
           \/ MoveOutputThrows \/ DeleteOldExeThrows \/ PlaceExeThrows \/ PostBuildThrows
  BY <1>8, <1>9 DEF StartGoThrows, StartUpxThrows, LinkThrows, AnalyzeThrows, MoveOutputThrows,
                    DeleteOldExeThrows, PlaceExeThrows, PostBuildThrows
<1>10. CASE ZipPackageThrows \/ PostBuild
  BY <1>7, <1>10 DEF ZipPackageThrows, PostBuild, histVars
<1>11. CASE \/ PreBuild \/ (\E ok \in BOOLEAN : Interpret(ok) \/ Link(ok))
            \/ InterpretThrows \/ Analyze
  BY <1>11 DEF PreBuild, Interpret, Link, InterpretThrows, Analyze, AfterStage, histVars
<1>12. CASE \/ \E n \in 0..MaxOutput : StartGo(n) \/ StartUpx(n)
            \/ WaitForExit \/ WaitForUpx \/ MoveOutput \/ DeleteOldExe
            \/ PlaceExe \/ ZipPackage
  BY <1>12 DEF StartGo, StartUpx, WaitForExit, WaitForUpx, MoveOutput, AfterCompiling,
               DeleteOldExe, PlaceExe, ZipPackage, histVars
<1>13. CASE ChildStep
  BY <1>13 DEF ChildStep, ChildWrites, ChildExits, histVars, Own
<1>14. CASE PreBuildHangs \/ InterpretHangs \/ PostBuildHangs
  BY <1>14 DEF PreBuildHangs, InterpretHangs, PostBuildHangs, Hangs, histVars
<1> QED
  BY <1>1, <1>2, <1>3, <1>4, <1>5, <1>6, <1>9, <1>10, <1>11, <1>12, <1>13, <1>14
  DEF Next, BuildStep

\* The user sees nothing of a step inside a build that leaves the release alone.
LEMMA InnerStep ==
  ASSUME TypeOK, BuildInvariant, stage # "idle", stage' # "idle",
         UNCHANGED <<project, leaked, builds, release>>
  PROVE  UNCHANGED Seen!vars
  BY SameBuild DEF Seen!vars

\* A step inside a build that puts r into the release is seen as that.
LEMMA PutStep ==
  ASSUME TypeOK, BuildInvariant, stage # "idle", stage' # "idle",
         UNCHANGED <<project, leaked, builds>>,
         NEW r \in {None, Truncated, Made}, release' = [release EXCEPT ![project] = r]
  PROVE  Seen!Next
<1>1. Seen!Made = Made
  BY DEF Seen!Made, Made
<1>2. project # None
  BY DEF BuildInvariant, PacketsOwned
<1>3. Seen!Put(r)
  BY <1>2, SameBuild DEF Seen!Put
<1> QED
  BY <1>1, <1>3 DEF Seen!Next

\* A build ends when it aborts its collection, or after its finally block.
LEMMA EndStep ==
  ASSUME TypeOK, BuildInvariant, AbortOwned,
         Finally \/ \E f \in Nodes : CollectThrows(f)
  PROVE  Seen!Next
<1>1. project # None /\ stage # "idle" /\ stage' = "idle" /\ project' = None
  BY DEF BuildInvariant, PacketsOwned, Finally, CollectThrows
<1>2. UNCHANGED <<builds, release, told, packets>> /\ Own' = {}
  BY <1>1 DEF Finally, CollectThrows, histVars, Own
<1>3. packets \subseteq Own
  BY DEF Finally, CollectThrows, BuildInvariant, PacketsOwned, AbortOwned
<1>4. told = "time" => release[project] = Made /\ packets = {}
  BY DEF Finally, CollectThrows, BuildInvariant, PacketsOwned, ToldTrue, AbortOwned, Started
<1>5. told \in {"nothing", "errors", "time"}
  BY DEF TypeOK
<1>6. Seen!Made = Made
  BY DEF Seen!Made, Made
<1>7. Seen!End(told)
  BY <1>1, <1>2, <1>3, <1>4, <1>6 DEF Seen!End
<1> QED
  BY <1>5, <1>7 DEF Seen!Next

\* Every step of a session is one of Release, or none.
LEMMA StepImplements ==
  ASSUME TypeOK, BuildInvariant, AbortOwned, [Next]_vars
  PROVE  [Seen!Next]_Seen!vars
<1>1. CASE UNCHANGED vars
  BY <1>1 DEF vars, histVars, Seen!vars, Own
<1>2. ASSUME NEW p \in Projects, ClickBuild(p) PROVE Seen!Next
  <2>1. p # None
    BY BuildAssumption
  <2>2. project = None /\ project' = p /\ stage' = "collect"
    BY <1>2 DEF ClickBuild, BuildInvariant, PacketsOwned
  <2>3. Own' = Tree[p] \cup packets /\ builds' = builds + 1 /\ UNCHANGED release
    BY <1>2 DEF ClickBuild, Own
  <2>4. Seen!Begin(p)
    BY <1>2, <2>2, <2>3 DEF Seen!Begin, ClickBuild
  <2> QED
    BY <2>4 DEF Seen!Next
<1>3. CASE \E f \in Nodes : Collect(f)
  BY <1>3, InnerStep DEF Collect, histVars
<1>4. CASE Finally \/ \E f \in Nodes : CollectThrows(f)
  BY <1>4, EndStep
<1>5. CASE \/ PreBuild \/ PreBuildThrows
           \/ (\E ok \in BOOLEAN : Interpret(ok) \/ Link(ok))
           \/ InterpretThrows \/ LinkThrows \/ Analyze \/ AnalyzeThrows
  BY <1>5, InnerStep DEF PreBuild, PreBuildThrows, Interpret, Link, InterpretThrows, LinkThrows,
                         Analyze, AnalyzeThrows, Throw, AfterStage, histVars
<1>6. CASE \/ \E n \in 0..MaxOutput : StartGo(n) \/ StartUpx(n)
           \/ StartGoThrows \/ StartUpxThrows \/ WaitForExit \/ WaitForUpx
  BY <1>6, InnerStep DEF StartGo, StartUpx, StartGoThrows, StartUpxThrows, WaitForExit,
                         WaitForUpx, Throw, histVars
<1>7. CASE \/ MoveOutput \/ MoveOutputThrows \/ DeleteOldExeThrows \/ PlaceExeThrows
           \/ PostBuild \/ PostBuildThrows
  BY <1>7, InnerStep DEF MoveOutput, MoveOutputThrows, AfterCompiling, DeleteOldExeThrows,
                         PlaceExeThrows, PostBuild, PostBuildThrows, Throw, histVars
<1>8. CASE DeleteOldExe
  BY <1>8, PutStep DEF DeleteOldExe, histVars
<1>9. CASE PlaceExe \/ ZipPackage
  <2>1. output = Made
    BY <1>9 DEF PlaceExe, ZipPackage, BuildInvariant, OutputOwned
  <2> QED
    BY <1>9, <2>1, PutStep DEF PlaceExe, ZipPackage, histVars
<1>10. CASE ZipPackageThrows
  BY <1>10, PutStep DEF ZipPackageThrows, histVars
<1>11. CASE ChildStep
  BY <1>11 DEF ChildStep, ChildWrites, ChildExits, histVars, Seen!vars, Own
<1>12. CASE Kill
  <2>1. stage' = "idle" /\ project' = None /\ Own' = {} /\ packets' = {} /\ told' = "nothing"
        /\ builds' = builds
    BY <1>12 DEF Kill, Own
  <2>2. UNCHANGED release \/ (project # None /\ release' = [release EXCEPT ![project] = Truncated])
    BY <1>12 DEF Kill, BuildInvariant, PacketsOwned
  <2>3. Seen!Kill
    BY <2>1, <2>2 DEF Seen!Kill
  <2> QED
    BY <2>3 DEF Seen!Next
<1>13. CASE PreBuildHangs \/ InterpretHangs \/ PostBuildHangs
  BY <1>13, InnerStep DEF PreBuildHangs, InterpretHangs, PostBuildHangs, Hangs, histVars
<1> QED
  BY <1>1, <1>2, <1>3, <1>4, <1>5, <1>6, <1>7, <1>8, <1>9, <1>10, <1>11, <1>12, <1>13
  DEF Next, BuildStep

\* A session starts with nothing released, nothing said and nothing left over.
LEMMA InitImplements == Init => Seen!Init /\ AbortOwned
  BY DEF Init, Seen!Init, Own, AbortOwned

\* The stages, processes, exceptions and directories of a session implement what
\* Release says, for any projects and any number of builds.
THEOREM SessionImplementsRelease == Spec => ImplementsRelease
  BY TypeCorrect, BuildCorrect, InitImplements, NextAbort, StepImplements, PTL
  DEF Spec, Seen!Spec, ImplementsRelease
-----------------------------------------------------------------------------
(***************************************************************************)
(* Where a build may stand still, and that it never goes back.             *)
(***************************************************************************)

\* The handler waits for a child exactly while there is one.
ChildAwaited ==
  /\ stage \in {"wait", "upxwait"} <=> child \in {"running", "exited"}
  /\ stage \in {"joining", "script"} <=> child = "looping"

\* Every step of the handler ends at a later stage, or with a file less to
\* collect, and with a child exactly if it waits for one.
LEMMA BuildStepAdvances ==
  ASSUME TypeOK, ChildAwaited, BuildStep
  PROVE  ChildAwaited' /\ ComesCloser
<1>1. ASSUME NEW f \in Nodes, Collect(f) \/ CollectThrows(f) PROVE ChildAwaited' /\ ComesCloser
  BY <1>1 DEF Collect, CollectThrows, childVars, histVars, ChildAwaited, ComesCloser, Turn
<1>2. CASE PreBuild \/ PreBuildThrows
  BY <1>2 DEF PreBuild, PreBuildThrows, childVars, histVars, ChildAwaited, ComesCloser, Turn
<1>10. CASE PreBuildHangs \/ InterpretHangs \/ PostBuildHangs
  BY <1>10 DEF PreBuildHangs, InterpretHangs, PostBuildHangs, Hangs, ChildAwaited, ComesCloser,
               Turn
<1>3. CASE (\E ok \in BOOLEAN : Interpret(ok) \/ Link(ok)) \/ InterpretThrows
  BY <1>3 DEF Interpret, Link, InterpretThrows, AfterStage, childVars, histVars, ChildAwaited,
              ComesCloser, Turn
<1>4. CASE LinkThrows \/ Analyze \/ AnalyzeThrows \/ StartGoThrows \/ StartUpxThrows
  BY <1>4 DEF LinkThrows, Analyze, AnalyzeThrows, StartGoThrows, StartUpxThrows, Throw, childVars, histVars,
              ChildAwaited, ComesCloser, Turn
<1>5. CASE \E n \in 0..MaxOutput : StartGo(n) \/ StartUpx(n)
  BY <1>5 DEF StartGo, StartUpx, StartChild, histVars, ChildAwaited, ComesCloser, Turn
<1>6. CASE WaitForExit \/ WaitForUpx
  BY <1>6 DEF WaitForExit, WaitForUpx, histVars, ChildAwaited, ComesCloser, Turn
<1>7. CASE MoveOutput \/ MoveOutputThrows
  BY <1>7 DEF MoveOutput, MoveOutputThrows, AfterCompiling, Throw, childVars, histVars,
              ChildAwaited, ComesCloser, Turn
<1>8. CASE \/ DeleteOldExe \/ DeleteOldExeThrows \/ PlaceExe \/ PlaceExeThrows
           \/ ZipPackage \/ ZipPackageThrows
  BY <1>8 DEF DeleteOldExe, DeleteOldExeThrows, PlaceExe, PlaceExeThrows, ZipPackage, ZipPackageThrows, Throw,
              childVars, histVars, ChildAwaited, ComesCloser, Turn
<1>9. CASE PostBuild \/ PostBuildThrows \/ Finally
  BY <1>9 DEF PostBuild, PostBuildThrows, Finally, Throw, childVars, histVars, ChildAwaited,
              ComesCloser, Turn
<1> QED
  BY <1>1, <1>2, <1>3, <1>4, <1>5, <1>6, <1>7, <1>8, <1>9, <1>10 DEF BuildStep

\* A child writes a line less with each line, and then exits.
LEMMA ChildStepAdvances ==
  ASSUME TypeOK, ChildAwaited, ChildStep
  PROVE  ChildAwaited' /\ ComesCloser
<1>1. CASE ChildWrites
  BY <1>1 DEF ChildWrites, histVars, TypeOK, ChildAwaited, ComesCloser
<1>2. CASE ChildExits
  BY <1>2 DEF ChildExits, histVars, ChildAwaited, ComesCloser
<1> QED
  BY <1>1, <1>2 DEF ChildStep

LEMMA StepAdvances ==
  ASSUME TypeOK, ChildAwaited, [Next]_vars
  PROVE  ChildAwaited' /\ [ComesCloser]_vars
<1>1. CASE UNCHANGED vars
  BY <1>1 DEF vars, childVars, ChildAwaited
<1>2. CASE BuildStep \/ ChildStep
  BY <1>2, BuildStepAdvances, ChildStepAdvances
<1>3. ASSUME NEW p \in Projects, ClickBuild(p) PROVE ChildAwaited' /\ ComesCloser
  BY <1>3 DEF ClickBuild, childVars, ChildAwaited, ComesCloser
<1>4. CASE Kill
  BY <1>4 DEF Kill, ChildAwaited, ComesCloser, Turn, TypeOK, Stages
<1> QED
  BY <1>1, <1>2, <1>3, <1>4 DEF Next

\* Whatever the stages, exceptions and numbers of lines: a build in progress can
\* go on, itself or by its child, unless the child's output has filled the pipe that
\* Build.cs:200-201 reads only after WaitForExit (and that of upx.exe never), the
\* parser thread joined at Parser.cs:893-894 loops, or a script of the user does not
\* end.
THEOREM OnlyAChildBlocks == Spec => [](ChildAwaited /\ Unstuck)
<1>1. Init => ChildAwaited
  BY DEF Init, ChildAwaited
<1>2. TypeOK /\ ChildAwaited => Unstuck
  BY BuildAssumption DEF TypeOK, ChildAwaited, Unstuck, BuildReady, ChildReady, Waiting
<1> QED
  BY <1>1, <1>2, InitType, NextType, StepAdvances, PTL DEF Spec

\* And each of its steps leaves it less to do: the stages are passed in one
\* direction, and the lines of a child are neither lost nor doubled while it writes.
\* So a build takes finitely many steps, and stops at its end or at one of the
\* three places.
THEOREM BuildsComeCloser == Spec => [][ComesCloser]_vars
<1>1. Init => ChildAwaited
  BY DEF Init, ChildAwaited
<1> QED
  BY <1>1, InitType, NextType, StepAdvances, PTL DEF Spec
=============================================================================
