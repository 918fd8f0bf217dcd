----------------------------- MODULE BuildSession -----------------------------
(***************************************************************************)
(* A session of builds in VarocalCross: Form1's Build handler on the UI    *)
(* thread, the Build object it drives, and the compiler's processes.       *)
(*                                                                         *)
(* A build collects the project's files into the parser's TokenPackets,    *)
(* translates them to C# files in a directory, links these to one .obj,    *)
(* translates that to main.go, has go.exe compile it, and puts the result  *)
(* into the project's build\release.  What it leaves behind, in the        *)
(* parser, in cmpdir or as main.exe in the current directory, the next     *)
(* build of any project finds.  pkgcmp, which a build deletes as well, is  *)
(* modelled in PackageRegistry.                                            *)
(***************************************************************************)
EXTENDS Naturals, FiniteSets

CONSTANTS
  Projects,      \* the open projects
  Nodes,         \* files in their trees
  Tree,          \* Projects -> the files of the project's data folder
  Raw,           \* the files named *.cs, *.go or *.c
  DllProjects,   \* projects of type Package
  UpxProjects,   \* projects whose UPX box is checked
  PipeCapacity,  \* lines the pipe of a child's output holds
  MaxOutput,     \* bound: lines a child process writes
  MaxBuilds,     \* bound: builds the user starts
  MaxKills,      \* bound: times the process is killed
  None,          \* no project, no artifact
  Truncated      \* a package archive that was not completed

\* What a build links: its own number, and the files it compiled.
Artifact == [build : 1..MaxBuilds, sources : SUBSET Nodes]

ASSUME BuildAssumption ==
  /\ None \notin Projects \cup Artifact /\ Truncated \notin Artifact
  /\ Tree \in [Projects -> SUBSET Nodes]
  /\ Raw \subseteq Nodes
  /\ DllProjects \subseteq Projects /\ UpxProjects \subseteq Projects
  /\ PipeCapacity \in Nat /\ MaxOutput \in Nat /\ MaxBuilds \in Nat /\ MaxKills \in Nat

VARIABLES
  stage,    \* where the Build handler is
  project,  \* the project it builds
  todo,     \* files it still has to collect
  packets,  \* files in parser.TokenPackets
  dir,      \* the compiling directories: the files whose C# translation is
            \* there, the .obj artifacts, and the one main.go was written from
  mainExe,  \* the artifact main.exe in the current directory was built from
  output,   \* the artifact at the path Compiling returns
  result,   \* BuildResult.Type: "none" is success
  child,    \* the process or thread the handler waits for
  unsaid,   \* lines it still has to write
  pipe,     \* lines written and not read
  release,  \* project -> the artifact in build\release, None or Truncated
  told,     \* what the last build's message says
  builds,   \* builds started so far
  leaked,   \* packets that were there before this build collected (history)
  aborted,  \* the last build left before it came to InterpretTo (history)
  kills     \* times the process was killed

childVars == <<child, unsaid, pipe>>
histVars  == <<builds, leaked, aborted, kills>>
vars == <<stage, project, todo, packets, dir, mainExe, output, result, childVars,
          release, told, histVars>>

\* A program is compiled in cmpdir, a package in src\pkg\<ID>.
DirNames == {"cmpdir", "package"}
Directory == [cs : SUBSET Nodes, obj : SUBSET Artifact, go : Artifact \cup {None}]
EmptyDir == [cs |-> {}, obj |-> {}, go |-> None]

Stages == {"idle", "collect", "interpret", "joining", "link", "analyze", "compile", "wait",
           "upx", "upxwait", "move", "replace", "place", "zip", "post", "script", "finally"}

TypeOK ==
  /\ stage \in Stages
  /\ project \in Projects \cup {None}
  /\ todo \subseteq Nodes /\ packets \subseteq Nodes
  /\ dir \in [DirNames -> Directory]
  /\ mainExe \in Artifact \cup {None}
  /\ output \in Artifact \cup {None}
  /\ result \in {"none", "error"}
  /\ child \in {"none", "running", "exited", "looping"}
  /\ unsaid \in 0..MaxOutput /\ pipe \in 0..PipeCapacity
  /\ release \in [Projects -> Artifact \cup {None, Truncated}]
  /\ told \in {"nothing", "errors", "time"}
  /\ builds \in 0..MaxBuilds /\ (stage # "idle" => builds > 0) /\ kills \in 0..MaxKills
  /\ leaked \subseteq Nodes /\ aborted \in BOOLEAN

Init ==
  /\ stage = "idle" /\ project = None /\ todo = {} /\ packets = {}
  /\ dir = [n \in DirNames |-> EmptyDir]
  /\ mainExe = None /\ output = None /\ result = "none"
  /\ child = "none" /\ unsaid = 0 /\ pipe = 0
  /\ release = [p \in Projects |-> None]
  /\ told = "nothing"
  /\ builds = 0 /\ leaked = {} /\ aborted = FALSE /\ kills = 0

IsDll == project \in DllProjects
cmpdir == IF IsDll THEN "package" ELSE "cmpdir"

-----------------------------------------------------------------------------
(***************************************************************************)
(* Collecting: before the try, so an exception leaves without clean-up.    *)
(***************************************************************************)

\* A package gets a random ID: its .a and its directory are nobody else's.
ClickBuild(p) ==
  /\ stage = "idle" /\ builds < MaxBuilds
  /\ stage' = "collect" /\ project' = p /\ todo' = Tree[p]
  /\ builds' = builds + 1
  /\ leaked' = packets /\ aborted' = FALSE
  /\ told' = "nothing" /\ result' = "none" /\ output' = None
  /\ dir' = [dir EXCEPT !["package"] = EmptyDir]
  /\ UNCHANGED <<packets, mainExe, childVars, release, kills>>

Collect(f) ==
  /\ stage = "collect" /\ f \in todo \ Raw
  /\ todo' = todo \ {f}
  /\ packets' = packets \cup {f}
  /\ UNCHANGED <<stage, project, dir, mainExe, output, result, childVars, release, told,
                 histVars>>

\* File.Copy( Path.GetFileName( path ), path ) copies onto the file itself,
\* which exists; and a file may be unreadable.
CollectThrows(f) ==
  /\ stage = "collect" /\ f \in todo
  /\ stage' = "idle" /\ project' = None /\ todo' = {}
  /\ aborted' = TRUE
  /\ UNCHANGED <<packets, dir, mainExe, output, result, childVars, release, told,
                 builds, leaked, kills>>

\* The pre-build script is written and run; the compiler's turn comes next.
PreBuild ==
  /\ stage = "collect" /\ todo = {}
  /\ stage' = "interpret"
  /\ UNCHANGED <<project, todo, packets, dir, mainExe, output, result, childVars, release,
                 told, histVars>>

\* What the handler waits for never ends: only a kill goes on from here.
Hangs(where) ==
  /\ stage' = where
  /\ child' = "looping"
  /\ UNCHANGED <<project, todo, packets, mainExe, output, result, unsaid, pipe, release, told,
                 histVars>>

\* The user's script waits for something, or runs in a circle.
PreBuildHangs ==
  /\ stage = "collect" /\ todo = {}
  /\ Hangs("script") /\ UNCHANGED dir

PreBuildThrows ==
  /\ stage = "collect" /\ todo = {}
  /\ stage' = "finally"
  /\ aborted' = TRUE
  /\ UNCHANGED <<project, todo, packets, dir, mainExe, output, result, childVars, release,
                 told, builds, leaked, kills>>

-----------------------------------------------------------------------------
(***************************************************************************)
(* InterpretTo, Linking and Analyzing, all in the compiling directory.     *)
(***************************************************************************)

\* Anything that throws inside the try goes on in its finally block.
Throw ==
  /\ stage' = "finally"
  /\ UNCHANGED <<project, todo, packets, dir, mainExe, output, result, childVars, release,
                 told, histVars>>

\* After InterpretTo the handler goes on with a clean result, else reports.
AfterStage(ok, next) ==
  /\ stage' = IF ok THEN next ELSE "post"
  /\ result' = IF ok THEN "none" ELSE "error"
  /\ told' = IF ok THEN told ELSE "errors"

\* Slip: cmpdir is created when missing, and never emptied.
InterpretIntoOld(ok) ==
  /\ stage = "interpret"
  /\ dir' = [dir EXCEPT ![cmpdir].cs = @ \cup packets]
  /\ packets' = {}
  /\ AfterStage(ok, "link")
  /\ UNCHANGED <<project, todo, mainExe, output, childVars, release, histVars>>

\* The directory is emptied, every packet is translated, and a new parser replaces
\* the one that holds them, with or without errors in the code.
Interpret(ok) ==
  /\ stage = "interpret"
  /\ dir' = [dir EXCEPT ![cmpdir] = [EmptyDir EXCEPT !.cs = packets]]
  /\ packets' = {}
  /\ AfterStage(ok, "link")
  /\ UNCHANGED <<project, todo, mainExe, output, childVars, release, histVars>>

\* A token with which no statement begins keeps the loop around CrackStatement going
\* (Parser.cs:1225), on a thread that ParseDetails joins; the files would have been
\* written after that.
InterpretHangs ==
  /\ stage = "interpret"
  /\ dir' = [dir EXCEPT ![cmpdir] = EmptyDir]
  /\ Hangs("joining")

\* Slip: the parser is replaced at the end of the try block only.
InterpretThrowsKeepsParser ==
  /\ stage = "interpret"
  /\ AfterStage(FALSE, "link")
  /\ UNCHANGED <<project, todo, packets, dir, mainExe, output, childVars, release, histVars>>

\* Directory.Delete( dir, true ) that throws leaves some of the files.
Rests(d) == [cs : SUBSET d.cs, obj : SUBSET d.obj, go : {d.go, None}]

\* The directory cannot be emptied, or a file not written there: the exception
\* becomes the result, and the finally block still replaces the parser.
InterpretThrows ==
  /\ stage = "interpret"
  /\ packets' = {}
  /\ \E d \in Rests(dir[cmpdir]) \cup Rests([EmptyDir EXCEPT !.cs = packets]) :
       dir' = [dir EXCEPT ![cmpdir] = d]
  /\ AfterStage(FALSE, "link")
  /\ UNCHANGED <<project, todo, mainExe, output, childVars, release, histVars>>

\* csc compiles every *.cs of the directory into an .obj of a random name.
Link(ok) ==
  /\ stage = "link"
  /\ dir' = IF ok
            THEN [dir EXCEPT ![cmpdir].obj = @ \cup {[build |-> builds, sources |-> dir[cmpdir].cs]}]
            ELSE dir
  /\ AfterStage(ok, "analyze")
  /\ UNCHANGED <<project, todo, packets, mainExe, output, childVars, release, histVars>>

\* No directory, no compiler, a reference that is no assembly, ...
LinkThrows == stage = "link" /\ Throw

\* Directory.GetFiles( path, "*.obj" )[ 0 ] is translated into main.go.
Analyze ==
  /\ stage = "analyze"
  /\ \E o \in dir[cmpdir].obj : dir' = [dir EXCEPT ![cmpdir].go = o]
  /\ stage' = "compile"
  /\ UNCHANGED <<project, todo, packets, mainExe, output, result, childVars, release, told,
                 histVars>>

AnalyzeThrows == stage = "analyze" /\ Throw

-----------------------------------------------------------------------------
(***************************************************************************)
(* Compiling: go.exe and upx.exe with redirected output.                   *)
(***************************************************************************)

StartChild(n) == child' = "running" /\ unsaid' = n /\ pipe' = 0

\* go.exe will print n lines; it prints nothing when all is well.
StartGo(n) ==
  /\ stage = "compile"
  /\ StartChild(n)
  /\ stage' = "wait"
  /\ UNCHANGED <<project, todo, packets, dir, mainExe, output, result, release, told, histVars>>

StartGoThrows == stage = "compile" /\ Throw

\* Slip: a pipe takes whatever is written.
ChildWritesFreely ==
  /\ child = "running" /\ unsaid > 0
  /\ unsaid' = unsaid - 1 /\ pipe' = pipe + 1
  /\ UNCHANGED <<stage, project, todo, packets, dir, mainExe, output, result, child, release,
                 told, histVars>>

\* A write to a full pipe blocks.
ChildWrites ==
  /\ child = "running" /\ unsaid > 0 /\ pipe < PipeCapacity
  /\ unsaid' = unsaid - 1 /\ pipe' = pipe + 1
  /\ UNCHANGED <<stage, project, todo, packets, dir, mainExe, output, result, child, release,
                 told, histVars>>

\* go.exe leaves main.exe, or the package's .a: always when it had nothing to
\* say, and sometimes when it only warned.
ChildExits ==
  /\ child = "running" /\ unsaid = 0
  /\ child' = "exited"
  /\ \E built \in BOOLEAN :
       /\ built => stage = "wait"
       /\ stage = "wait" /\ pipe = 0 => built
       /\ mainExe' = IF built /\ ~IsDll THEN dir[cmpdir].go ELSE mainExe
       /\ output' = IF built /\ IsDll THEN dir[cmpdir].go ELSE output
  /\ UNCHANGED <<stage, project, todo, packets, dir, result, unsaid, pipe, release, told,
                 histVars>>

\* Slip: the handler wants the output read before it goes on.
WaitForDrain ==
  /\ stage = "wait" /\ child = "exited" /\ pipe = 0
  /\ result' = "none"
  /\ child' = "none"
  /\ stage' = IF project \in UpxProjects THEN "upx" ELSE "move"
  /\ UNCHANGED <<project, todo, packets, dir, mainExe, output, unsaid, pipe, release, told,
                 histVars>>

\* proc.WaitForExit( ), and only then ReadToEnd on both streams: any output
\* at all is an error, which is reported after UPX and the move.
WaitForExit ==
  /\ stage = "wait" /\ child = "exited"
  /\ result' = IF pipe = 0 THEN "none" ELSE "error"
  /\ child' = "none" /\ pipe' = 0
  /\ stage' = IF project \in UpxProjects THEN "upx" ELSE "move"
  /\ UNCHANGED <<project, todo, packets, dir, mainExe, output, unsaid, release, told, histVars>>

\* upx.exe has its output redirected as well, and nobody ever reads it.
StartUpx(n) ==
  /\ stage = "upx"
  /\ StartChild(n)
  /\ stage' = "upxwait"
  /\ UNCHANGED <<project, todo, packets, dir, mainExe, output, result, release, told, histVars>>

\* Without bin\upx.exe, Process.Start throws and main.exe stays behind.
StartUpxThrows == stage = "upx" /\ Throw

WaitForUpx ==
  /\ stage = "upxwait" /\ child = "exited"
  /\ child' = "none" /\ pipe' = 0
  /\ stage' = "move"
  /\ UNCHANGED <<project, todo, packets, dir, mainExe, output, result, unsaid, release, told,
                 histVars>>

\* Slip: errors are shown, and the build goes on with what there is.
AfterCompilingAnyway ==
  /\ stage' = (IF IsDll THEN "zip" ELSE "replace")
  /\ told' = IF result = "error" THEN "errors" ELSE told

\* After the move Compiling returns, and the handler looks at the result.
AfterCompiling ==
  IF result = "error"
  THEN stage' = "post" /\ told' = "errors"
  ELSE stage' = (IF IsDll THEN "zip" ELSE "replace") /\ UNCHANGED told

\* Any main.exe, not just this build's, is moved to the output's path ...
MoveOutput ==
  /\ stage = "move"
  /\ mainExe = None \/ output = None
  /\ output' = IF mainExe = None THEN output ELSE mainExe
  /\ mainExe' = None
  /\ AfterCompiling
  /\ UNCHANGED <<project, todo, packets, dir, result, childVars, release, histVars>>

\* ... where File.Move does not overwrite the .a of a package.
MoveOutputThrows ==
  /\ stage = "move" /\ mainExe # None /\ output # None
  /\ Throw

-----------------------------------------------------------------------------
(***************************************************************************)
(* The result goes to build\release.                                       *)
(***************************************************************************)

DeleteOldExe ==
  /\ stage = "replace"
  /\ release' = [release EXCEPT ![project] = None]
  /\ stage' = "place"
  /\ UNCHANGED <<project, todo, packets, dir, mainExe, output, result, childVars, told, histVars>>

\* The old executable is running.
DeleteOldExeThrows == stage = "replace" /\ Throw

\* File.Move( output, exe ); the success message follows the post-build script.
PlaceExe ==
  /\ stage = "place" /\ output # None
  /\ release' = [release EXCEPT ![project] = output]
  /\ output' = None
  /\ stage' = "post"
  /\ UNCHANGED <<project, todo, packets, dir, mainExe, result, childVars, told, histVars>>

\* Slip: the exception is swallowed, and the build goes on.
PlaceExeFails ==
  /\ stage = "place"
  /\ stage' = "post"
  /\ UNCHANGED <<project, todo, packets, dir, mainExe, output, result, childVars, release, told,
                 histVars>>

PlaceExeThrows == stage = "place" /\ Throw

\* The archive is created first, and filled with the .a, the sources and
\* install.dat, or left as it is by an exception.
ZipPackage ==
  /\ stage = "zip" /\ output # None
  /\ release' = [release EXCEPT ![project] = output]
  /\ output' = None
  /\ stage' = "post"
  /\ UNCHANGED <<project, todo, packets, dir, mainExe, result, childVars, told, histVars>>

ZipPackageThrows ==
  /\ stage = "zip"
  /\ release' = [release EXCEPT ![project] = Truncated]
  /\ stage' = "finally"
  /\ UNCHANGED <<project, todo, packets, dir, mainExe, output, result, childVars, told, histVars>>

\* The post-build script runs after reported errors too; only a clean build
\* ends with the message about its time.
PostBuild ==
  /\ stage = "post"
  /\ told' = IF result = "none" THEN "time" ELSE told
  /\ stage' = "finally"
  /\ UNCHANGED <<project, todo, packets, dir, mainExe, output, result, childVars, release,
                 histVars>>

PostBuildThrows == stage = "post" /\ Throw

PostBuildHangs == stage = "post" /\ Hangs("script") /\ UNCHANGED dir

\* finally: the batch file, pkgcmp and the compiling directory, the last of
\* them; whichever cannot be deleted leaves the rest.
Finally ==
  /\ stage = "finally"
  /\ \E d \in Rests(dir[cmpdir]) : dir' = [dir EXCEPT ![cmpdir] = d]
  /\ stage' = "idle" /\ project' = None
  /\ UNCHANGED <<todo, packets, mainExe, output, result, childVars, release, told, histVars>>

\* A go.exe that is running goes on without its parent, and may leave a
\* main.exe behind (before the next build, as far as the model goes).
Kill ==
  /\ kills < MaxKills
  /\ kills' = kills + 1
  /\ stage' = "idle" /\ project' = None /\ todo' = {} /\ packets' = {}
  /\ output' = None /\ result' = "none" /\ told' = "nothing"
  /\ child' = "none" /\ unsaid' = 0 /\ pipe' = 0
  /\ leaked' = {} /\ aborted' = FALSE
  /\ \/ UNCHANGED release
     \/ stage = "zip" /\ release' = [release EXCEPT ![project] = Truncated]
  /\ \/ UNCHANGED mainExe
     \/ stage = "wait" /\ child = "running" /\ ~IsDll /\ mainExe' = dir[cmpdir].go
  /\ UNCHANGED <<dir, builds>>

-----------------------------------------------------------------------------
BuildStep ==
  \/ \E f \in Nodes : Collect(f) \/ CollectThrows(f)
  \/ PreBuild \/ PreBuildThrows \/ PreBuildHangs
  \/ \E ok \in BOOLEAN : Interpret(ok) \/ Link(ok)
  \/ InterpretThrows \/ InterpretHangs \/ LinkThrows
  \/ Analyze \/ AnalyzeThrows
  \/ \E n \in 0..MaxOutput : StartGo(n) \/ StartUpx(n)
  \/ StartGoThrows \/ StartUpxThrows
  \/ WaitForExit \/ WaitForUpx
  \/ MoveOutput \/ MoveOutputThrows
  \/ DeleteOldExe \/ DeleteOldExeThrows \/ PlaceExe \/ PlaceExeThrows
  \/ ZipPackage \/ ZipPackageThrows
  \/ PostBuild \/ PostBuildThrows \/ PostBuildHangs
  \/ Finally

ChildStep == ChildWrites \/ ChildExits

Next ==
  \/ \E p \in Projects : ClickBuild(p)
  \/ BuildStep \/ ChildStep
  \/ Kill

\* The UI thread runs its handler on, and so do go.exe and upx.exe, as far as
\* their pipe lets them; a loop or a script that does not end keeps the handler.
Fairness == WF_vars(BuildStep) /\ WF_vars(ChildStep)

Spec == Init /\ [][Next]_vars /\ Fairness

-----------------------------------------------------------------------------
(***************************************************************************)
(* What a session of builds promises.                                      *)
(***************************************************************************)

\* A build that ends with its time has released what it compiled itself, from
\* the project's own files and from those an aborted collection left behind:
\* never an .obj, a main.exe or a C# file of an earlier build.
ReleasedAsBuilt ==
  stage = "finally" /\ told = "time" =>
    release[project] = [build |-> builds, sources |-> Tree[project] \cup leaked]

\* Only a build that breaks off before InterpretTo leaves files to the next one.
ParserEmptied ==
  stage = "idle" /\ ~aborted => packets = {}

KeepsRelease ==
  \A p \in Projects :
    release'[p] # release[p] => p = project /\ result = "none" /\ told # "errors"
                                /\ stage \in {"replace", "place", "zip"}

\* Nothing in build\release changes unless go.exe accepted this build, and
\* then only the release of the project being built.
ReleaseKept == [][KeepsRelease]_vars

\* When the handler goes on, and when its child does.
Waiting == {"joining", "script", "wait", "upxwait"}
BuildReady == stage # "idle" /\ (stage \in Waiting => child = "exited")
ChildReady == child = "running" /\ (unsaid > 0 => pipe < PipeCapacity)

Unstuck ==
  stage # "idle" =>
    \/ BuildReady \/ ChildReady
    \/ stage \in {"wait", "upxwait"} /\ pipe = PipeCapacity /\ unsaid > 0
    \/ stage \in {"joining", "script"} /\ child = "looping"

\* A build stands still at three places only: at a child whose output has filled
\* the pipe nobody reads, at a parser thread that loops, and at a script of the
\* user that does not end.  Anywhere else its handler or its child has a step to take.
OnlyChildrenBlock ==
  /\ BuildReady <=> ENABLED BuildStep
  /\ ChildReady <=> ENABLED ChildStep
  /\ Unstuck

\* The order of the stages.
Turn(s) ==
  CASE s = "collect" -> 1 [] s = "interpret" -> 2 [] s = "joining" -> 3 [] s = "link" -> 4
    [] s = "analyze" -> 5 [] s = "compile" -> 6 [] s = "wait" -> 7 [] s = "upx" -> 8
    [] s = "upxwait" -> 9 [] s = "move" -> 10 [] s = "replace" -> 11 [] s = "place" -> 12
    [] s = "zip" -> 13 [] s = "post" -> 14 [] s = "script" -> 15 [] s = "finally" -> 16
    [] s = "idle" -> 17

\* What a build still has to do gets less: a later stage, a file collected, a
\* line written, or the child's exit.
ComesCloser ==
  stage # "idle" =>
    \/ Turn(stage') > Turn(stage)
    \/ /\ stage' = stage
       /\ \/ todo' \subseteq todo /\ todo' # todo
          \/ todo' = todo /\ child' = "running" /\ unsaid' < unsaid /\ pipe' + unsaid' = pipe + unsaid
          \/ UNCHANGED <<todo, unsaid, pipe>> /\ child = "running" /\ child' = "exited"

\* go.exe's errors come back to the handler whenever they fit the pipe.
CompilerAnswers ==
  (stage = "wait" /\ pipe + unsaid <= PipeCapacity) ~> (stage # "wait")

\* Why the two invariants and ReleaseKept hold: from stage to stage, the next
\* stage's input is what this build made of its own files.
Own == IF stage = "idle" THEN {} ELSE Tree[project] \cup leaked
Made == [build |-> builds, sources |-> Own]

Started == {"collect", "interpret", "link", "analyze", "compile", "wait", "upx", "upxwait",
            "move", "replace", "place", "zip"}

\* What the next build may find in the parser.
PacketsOwned ==
  /\ stage = "idle" <=> project = None
  /\ stage = "collect" => packets \cup todo = Own
  /\ stage = "interpret" => packets = Own
  /\ stage \notin {"collect", "interpret", "joining", "script"} /\ ~aborted => packets = {}

\* The compiling directory, up to main.go.
DirectoryOwned ==
  /\ stage = "link" => dir[cmpdir] = [EmptyDir EXCEPT !.cs = Own]
  /\ stage = "analyze" => dir[cmpdir].obj = {Made}
  /\ stage \in {"compile", "wait"} => dir[cmpdir].go = Made

\* go.exe's output, wherever it lies until it is released.
OutputOwned ==
  /\ stage \in {"collect", "interpret", "link", "analyze", "compile"} => output = None
  /\ stage \in {"wait", "upx", "upxwait", "move"} =>
       output = None \/ (IsDll /\ output = Made)
  /\ stage = "wait" /\ child = "running" => output = None
  /\ \/ stage = "wait" /\ child = "exited" /\ pipe = 0
     \/ stage \in {"upx", "upxwait", "move"} /\ result = "none"
     => IF IsDll THEN output = Made ELSE mainExe = Made
  /\ stage \in {"replace", "place", "zip"} => output = Made

\* What the user is told, and what was released by then.
ToldTrue ==
  /\ stage \in Started => told = "nothing"
  /\ stage \in {"replace", "place", "zip"} => result = "none"
  /\ stage = "post" => told = IF result = "none" THEN "nothing" ELSE "errors"
  /\ stage = "post" /\ result = "none" => release[project] = Made
  /\ stage = "finally" /\ told = "time" => release[project] = Made

BuildInvariant == PacketsOwned /\ DirectoryOwned /\ OutputOwned /\ ToldTrue

\* What of a session its user sees.
Seen == INSTANCE Release WITH
  current <- project, build <- builds, sources <- Own,
  leftover <- IF stage = "idle" THEN packets ELSE {},
  said <- IF stage = "idle" THEN told ELSE "nothing"

\* For all its stages, processes, exceptions and left-over directories, a session
\* implements Release: a build touches the release of its own project only, puts
\* there nothing but its own artifact, and says how long it took only if it did.
ImplementsRelease == Seen!Spec

\* Why it does, besides BuildInvariant: what an abort leaves in the parser is
\* the build's own, and an aborted build says nothing.
AbortOwned ==
  /\ aborted => stage \in {"idle", "finally"}
  /\ stage = "finally" => packets \subseteq Own /\ (aborted => told = "nothing")
=============================================================================
