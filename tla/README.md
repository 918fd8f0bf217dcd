# VarocalCross in TLA+

VarocalCross is an IDE, written in C# with Windows Forms, for a C#-like
language that is compiled to native programs: a project's files are translated
to C#, the C# is compiled, its IL is decompiled and translated to Go, and
`bin\go.exe` compiles the Go. Projects can be built as *packages*, archives that
other installations of the IDE can install and reference.

This directory holds TLA+ models of the parts of the program in which several
actors, or several operations one after the other, meet in shared state: TLC
checks them on small instances and TLAPS proves the most important properties
for every instance. `PROJECT.json` maps every definition to its source lines,
and lists the runs, the mutants that show each property can fail, the hazards
and the theorems.

## The system

| Component | State | Operations | What is hard | What makes it correct |
|---|---|---|---|---|
| Package installation and registry (`PackageInstallation.cs`, `PackageManager.cs`, `ChooseReference.cs`, parts of `Form1.cs`) | `pkg.m` (the records), `pkg\<platform>\<ID>.a/.obj`, `src\pkg\<ID>`, the scratch directory `pkgcmp`, each open dialog | extract an archive, install, list, remove | any number of dialogs on their own threads share one `pkgcmp` and one `pkg.m`; builds delete `pkgcmp`; handlers fail half-way | one record per package, every record backed by files, nobody's package damaged by another's installation |
| Build pipeline (`Form1` Build handler, `Build.cs`) | the parser's `TokenPackets`, the compiling directory, `main.exe`, the project's `build\release` | collect, interpret, link, analyze, compile, place | every stage can throw; what is left behind is found by the next build; child processes with redirected output | a build that succeeds released exactly what it compiled; a build that fails leaves the old release; the handler does not hang |
| Portable records (`MemorizePortable` in `Memorize.cs`) | line files: `pkg.m`, `install.dat`, `projectdata.dat` | save, load | no marks between properties; crash while saving | what was saved is loaded; a cut file is not taken for a whole one |
| Workspace (`Form1`) | the tree, the tabs, the project's folder | new, open, add, edit, save, rename, move, delete, load | one file is a tree node's Tag, a tab's Tag and a path on disk | no edit is lost, tabs and files stay together |
| Reference resolver (`AssemblyResolver` in `Analyzer.cs`, `FormProperties.cs`) | a static list of loaded assemblies, which lives as long as the process; a project's references | update, resolve, add, remove | stale and poisoned entries | a reference resolves to the installed package |
| Tokenizer and parser (`Parser.cs`) | token packets, error list, filter stacks | tokenize, organize, parse, recover | error recovery, backtracking | every source terminates with code or errors |
| Analyzer (`Analyzer.cs`, `Program.cs`) | worklist of types, visited set, cached code | analyze types and methods | recursion through types | every reachable type is emitted once |
| Runtime of compiled programs (vendored, `bin\Debug\src\pkg\runtime`) | locks, notes, the timers | lock, unlock, sleep, wake, add a timer | a deadline races a wakeup; one semaphore per thread serves locks and notes | the lock excludes; no wakeup is lost, doubled or left over |
| Preferences, small dialogs, forms, `Controls.cs` | options, painting | | | |

The user's clicks run on the UI thread, one at a time, except that
`PackageInstallation` and a few viewers run on threads of their own, that a
painter thread follows every edit, and that a build starts child processes. The
components call each other directly; what they share is the file system under
the current directory.

The product is the C# under `src/VarocalCross`. Most lines of the tree are what it
ships below `bin\Debug`: C headers of Windows and OpenGL, which declare and do
nothing, and a Go toolchain with the sources of its runtime, which is linked into
every program the IDE builds. A count of mapped C lines therefore says little about
this project: the map stands for `Form1.cs`, `Build.cs`, `Parser.cs`, `Analyzer.cs` and
their neighbours, and for one file of the runtime with its users.

## Modules

| Module | Models | Checked by |
|---|---|---|
| `PackageRegistry` | installation dialogs, the package manager, the scratch directory, `pkg.m` and the package files | `MCPackageRegistry` with five configurations |
| `PackageRegistry_proofs` | its theorems | TLAPS |
| `BuildSession` | a session of builds: the Build handler, the stages of `Build`, `go.exe`/`upx.exe` and their pipes | `MCBuildSession`, `BuildSessions.cfg` |
| `BuildSession_proofs` | its theorems | TLAPS |
| `MemorizeFile` | the line format, written, cut short, read and written again | `MCMemorizeFile`, `MemorizeRounds.cfg` |
| `MemorizeFile_proofs` | its theorems | TLAPS |
| `Release` | what builds promise of executables, implemented by `BuildSession` | `BuildSessions.cfg` |
| `Workspace` | the tree, the tabs and the folder of a project, and the handlers of the main window that keep them together | `MCWorkspace` with two configurations |
| `Workspace_proofs` | the theorems about its types, its tabs and its texts | TLAPS |
| `WorkspaceTree_proofs` | the theorem about its tree and the disk | TLAPS |
| `TypeWorklist` | `RunSources`: the list of types to be translated to Go | `MCTypeWorklist`, `TypesFound.cfg` |
| `TypeWorklist_proofs` | its theorems | TLAPS |
| `SemaLock` | `lock_sema.c` as the timer process of the runtime uses it | `MCSemaLock`, `SemaLocks.cfg` |
| `SemaLock_proofs` | the theorems about the lock, then those about semaphores and wakeups | TLAPS |
| `Mutex` | what a lock promises, implemented by `SemaLock` | `SemaLocks.cfg` |
| `ParserOrganize` | the recursive descent of `Parser.ParserOrganize`, its error recovery and its flag stacks | `MCParserOrganize`, `ParserSlips.cfg` |
| `FilterCode` | what the descent does to the flag stacks, whatever the tokens; implemented by `ParserOrganize` | `ParserSlips.cfg` |
| `FilterCode_proofs` | its theorems | TLAPS |

### PackageRegistry

One step is one file-system call of one handler, or a run of calls that nobody
else can observe. `OpenArchive`/`ExtractEntry` are ZipForge filling `pkgcmp` on
the UI thread: archives of one project carry the same file names and overwrite
each other, the `.obj` has a random name. `StartDialog` starts the thread of a
`PackageInstallation` form; `LoadDialog` is its Load handler, which reads
whichever `install.dat` is there by then. `CheckExists` ... `SaveRecord` are
`button2_Click` call by call; each call that can throw has a `...Fails` action that
goes through the handler's `finally`, with whatever part of a deletion or of a run of
moves is done by then. The success message (`TellSuccess`) comes before the save, and
the save throws on the null `Name` of the default package that stands for an unreadable
`install.dat` (`SaveFails`); that it throws for another reason, a full disk say, is
assumed away. The exclusive `StreamWriter` on `pkg.m` is
the variable `writer`. The manager's Remove handler is `RemoveLoad` (read all
records), `RemoveRow` per selected row (each of its three deletions may fail, and is not heard of), `RemoveRowsFromGrid`, and the three steps
in which `pkg.m` is deleted, created and written. `BuildArchive` and `EndOfBuild`
are what builds do to `pkgcmp`. `Kill` ends the process; `CloseOrphan` is the
exception that `BeginInvoke` raises when the manager that started a dialog is
closed already.

Package IDs are drawn at random by a build; that two archives differ in their ID
is assumed by taking the ID for the archive's identity. Installation under
another platform than the first one is not modelled (an ID has one platform).

### BuildSession

`ClickBuild` ... `Finally` follow the handler. An artifact is identified by the
build that linked it and the files it was linked from, so a stale `.obj`, `main.go`
or `main.exe` is recognised wherever it turns up. A throw goes to `finally` from
inside the `try`, and leaves at once from the collecting loop in front of it. Three
kinds of waiting may never end: for a child that has filled its pipe, for a parser thread
in an endless loop (`InterpretHangs`; `ParserSlips` shows which files do that), and for a
pre- or post-build script (`PreBuildHangs`, `PostBuildHangs`); from the last two only
`Kill` leads on. That message boxes are answered, and that `go.exe` and `upx.exe` end once
what they print fits the pipe, is assumed. The
child process writes at will into a pipe of bounded capacity that the handler
reads only after `WaitForExit`. `go.exe` is external: it leaves its output when it
prints nothing, and prints something when it fails. A program is compiled in
`cmpdir`, a package in a fresh `src\pkg\<ID>`; deleting a directory may leave any
part of it.

`Release` is the same session seen by a user: a build begins for a project, may put
one executable (or a package) in place, and ends with a success, a failure or a
silent stop. It allows an executable to be replaced only by what this build made of
its own sources or by an archive that is cut short, a success to be shown only after
the former, and the old one to be deleted without a new one taking its place. Stages, child processes, pipes
and directories are internal to `BuildSession`; `ImplementsRelease` is its refinement.

### Workspace

One step is one handler, because all of them run on the UI thread; what an
exception cuts short is modelled by which of its effects come about. A file is known
as a path on disk, as the `Tag` of a tree node and as the `Tag` of a tab. The
handlers keep the three together by editing strings, and so a path is the sequence
of its parts with the separators in place: `Replaced` is `String.Replace`, `RightPath`
is `ToRightPath`, `Key` is what Windows takes a path for (no case, no doubled
separators), and `Tag`s are compared as written. `RenameFile` and `RenameFolder` are the
two halves of `AfterLabelEdit`, whose `catch` swallows what is half done;
`MoveFile`/`MoveFolder` are `MoveNode`. The thread that `TextChanged` starts is counted in
the tab's `marks`; `MarkUnsaved` is when it gets to run. `Restart` is the window closed,
or the process ended: nothing asks whether to save.

What the source says and a reader may not expect: renaming a file empties it;
a tab does not follow when its file is moved, so that saving it brings the old file
back while builds read the moved one; `MoveNode` calls `ChangeTags` with the old and the
new path the wrong way round; Load copies what the Save As dialog named last;
a new project opens `Data\main` while its node says `data\main`, which makes two tabs of
one file; Remove of a project makes its tabs unsavable. Names are chosen in the
model so that none is part of another, so that `String.Replace` meets whole parts.

`Parts` is what paths are made of: any strings, among them the two separators and a
part (`Bad`) that holds a character no path may contain. A path that does not end in a
separator is `Named`, one without a bad part is `Legal`, a legal one without separators
`IsName`; `Writable` is when the file system can put a file there. What a user types as
a label need be none of these, except that it names something.

`Where(n)` is what node n stands for on disk: a file by its `Tag`, a folder by the names
above it. `Mirrors` says that the tree shows the disk: what a node stands for exists, in
the folder of its parent, no other node stands for it, and nothing is below a file.
`Strays(n)` lists the operations after which that need not be so, and `OnlyTheseStray`
that there are no others. The proof of it found what TLC's small instance
did not show, and each is part of `Strays` or of `Mirrors` now: a folder that is moved
to where its name is taken becomes a second node for one folder on disk; a label may be a
path, and then the node gets a name that its place does not have; a folder's name
may occur once in a `Tag`, but not in the folder's own place, and `String.Replace` changes
it there.

### TypeWorklist

A step takes one type from the list and brings it to one of its ends: met before
(`TakeAgain`), known to Go (`SkipKnown`), of another package (`Import`), of a library
(`PassForeign`), translated (`Translate`), or not translatable, because the getter throws
(`Fails`). The handler of the last reports it and goes on (`Report`), says nothing, if the
message contains "same", by which it recognises types met before (`Drop`), or throws out of
`RunSources` itself, when the stack trace has one line or no file names (`Escape`): then no
`main.go` is written. Which of the three it is depends on texts of .NET and is left open;
English messages are assumed. `uses` is what the translation of each type mentions; it is chosen at
first, from `Assemblies`, and stands for everything the decompiler finds.
`Optimized` and `Includes` are the two merges by name, which keep one of each.

### SemaLock

One step is one access to shared memory. `Lock` ... `WaitForLock` are `runtime.lock`,
`Unlock` ... `WakeFirst` are `runtime.unlock`, `NoteWakeup` ... `WakeSleeper` are
`runtime.notewakeup`, and `Register` ... `TakeSemaphore` are `runtime.notetsleep`. They are
put together as `time.goc` does: any M adds timers (`AddTimer`, `AddFirstTimer`), and
whichever M runs the timer process serves them (`ServeTimer`) or clears the note and
sleeps (`ClearNote`), after which the process may go on in another M. The pointer with
the bit in `waitm` is a record. A semaphore is counted although an event of Windows
is not, and `InSync` shows that it never exceeds one. `Expire` is a deadline that
passes; an early return of `semasleep` changes nothing and is left out. Only the
processor count of one is modelled, on which `lock` yields once before it queues.

### MemorizeFile

A file is a sequence of lines; an object is a sequence of typed properties. A
text is a sequence of lines, written as its line count and its lines. `AddLine` is
the reader's concatenation, which drops the leading blank lines of a text. A
crash leaves a prefix of the written lines. How numbers are written is a constant
(`Decimal`), of which only is assumed that no two are written alike, and `Numbers` are those
that objects hold.

### ParserOrganize

A file is a sequence of tokens, as `Precompiling` hands it over. One step is one
`ParseObject`: `Class` and `Namespace` read a header and open a body, `CloseBlock`
is the end of `CrackCode` with the pops behind it, the other objects (`ClassMember`,
`UsingObject`, `ImportCSharp`) are read whole. Below that, each `Crack...` method is
an operator from a cursor to a cursor; the field `st` carries the exception, if
one is under way. `CodeErrorException` is what the handler of `ParseObject` catches
(`Recover`); the exception of reading behind the last token is caught by
expressions alone and ends the parse (`crashed`); a statement loop that does not
get on is `hung`. Of the C# that is written, only the open braces are kept
(`depth`). The stacks of `FilterCode` are `canMethod`, `canNamespace` and `path`. `open`
is the call stack of `CrackCode`. `lost` is a history variable: an expression
has read tokens and dropped them.

`FilterCode` is the same parse with nothing left of it but `ParserFilter`: a class pushes
two flags and the path, a namespace the path, `CloseBlock` pops what they pushed, and
an exception anywhere leaves what was pushed before it. `ImplementsFilterCode`
is the refinement. What must hold of the stacks is stated there, where it can be
proved: `ParserOrganize` is recursive.

What the source says and a reader may not expect: `CrackIdent` joins names that
stand in a list with commas (`Acc.Bracket_Split`), the dotted names of expressions
are read elsewhere; `Acc.Greater` is `<`; `CrackStatement` knows no `else`, so that an
`else` hangs the parser; a `for` with brackets asks for the closing one twice after
a step statement and therefore refuses it; after an error inside a class its flags
stay pushed, so that what follows the class is read as if it were inside; a file
whose last token is `;`, or whose last brace is missing, ends the parse with an
exception instead of an error message. `Debugger.Break` in `XManager.X` is taken to
do nothing.

## Runs

| Run | Shows | Bounds |
|---|---|---|
| `PackageInstallers` | with two dialogs, builds and a kill at any point: unique records, records with files, a success message that is true of every package but the one whose `install.dat` could not be read, recorded packages untouched, `pkg.m` released on every path | two packages of one project, one of them installed; two dialogs are what a race needs; two archives opened, one kill |
| `PackageManagerAlone` | Remove never loses a package the user did not select, and every record that is left has all its own files, whichever deletions fail | three packages, up to three clicks on any selection in any order |
| `PackageMixup` | (violation) a package is installed with another archive's files | two packages of different projects, one dialog suffices |
| `PackageRemove` | (violation) a removed row stays recorded | one click |
| `PackageLost` | (violation) Remove drops what a dialog has just recorded | one dialog, one click |
| `BuildSessions` | a successful build released its own compilation; failed builds leave the release alone; it stands still only at an unread pipe, a looping parser thread or an endless script; the session implements `Release` | three builds, so that what the first leaves can pass through the second; a program with UPX, a package, and a program with a raw file; a pipe of one line and children that write up to two |
| `MemorizeRounds` | a save that ended loads as saved, up to leading blank lines, and from then on exactly; a cut file is refused or yields whole objects | up to two objects of a text, a number and a flag; texts of up to two lines, among them blank ones and lines that look like counts |
| `ParserSlips` | every object begins behind the one before, so that every file comes to an end unless a block hangs, and that only at a token with which no statement begins; the flag stacks are handled as `FilterCode` says, whatever the errors before, and up to the first they follow the nesting; an accepted file left nothing open, and its braces match unless an expression dropped tokens; the program's own files are accepted | the file of a new project, two sample projects of `bin\Debug` shortened, a file with the other statements; each with every token left out, replaced by or preceded by any of 17 others |
| `Workspaces` | an edited tab is marked as unsaved or about to be; a build takes what the tabs show; texts are lost from the disk, and the tree parts from it, only by the operations named in `OnlyTheseLoseText` and `OnlyTheseStray` | two operations on nodes, of which one prepares what the other meets; any number of edits, saves, builds and restarts; two tabs, which is what two spellings of one file need; one marking thread under way per tab; labels that are taken, free, impossible and a path |
| `WorkspaceRename` | (violation) renaming a file empties it | one click |
| `TypesFound` | `RunSources` ends, by `main.go` or by an exception out of its own handler, and `main.go` has what it speaks of and nothing else | one type of each kind, two with one name, which mention each other in each of 1024 ways |
| `SemaLocks` | the lock excludes, a free lock is taken by some thread that waits, the timer process does not sleep through a new first timer, semaphores are in sync, whoever sleeps has a reason to, nothing throws | three M's: one that has the lock and two that wait make a list, and while the timer process sleeps in one, two contend |

`ParserSlips` states termination without fairness: `EachObjectAdvances` makes the
index grow with every object that goes on, `TypeOK` bounds it, and deadlock is
checked, so that a parse stops only as `done`, `crashed` or `hung`. One slip is
enough to reach every error path, and files with two errors arise because what
follows the first is often refused too.

Three of the runs say `CHECK_DEADLOCK FALSE`: in `TypesFound` the program ends when
`main.go` is written, in `BuildSessions` a child with a full
pipe, a looping parser thread or an endless script really stops the program for good,
which `OnlyChildrenBlock` states to be the only cases, and in `MemorizeRounds` a file that cannot be read ends the behaviour.

### Fairness

Fairness is assumed of code that runs on its own once started, never of the
user: a dialog's click handler (`HandlerStep`), the Build handler on the UI thread
(`BuildStep`), a child process (`ChildStep`), the loop of `RunSources` (`Next` of
`TypeWorklist`), and each M of the runtime once it called `lock` (`Step` of `SemaLock`; not
`Lock`, which is the program's wish, and not `Expire`: a deadline need not come). Each is a thread or a process that
the operating system schedules, weak fairness is enough because none of them
waits for a condition that comes and goes: a semaphore that is up stays up until
its only waiter takes it, and a compare-and-swap is enabled whether it fails or not.
`Workspace` assumes no fairness and states no liveness: nothing in it goes on by itself
but the marking threads, for which `EditsAreMarked` says all there is to say.

### What the violations mean

`PackageMixup`, `PackageRemove` and `PackageLost` are behaviours of the code that
contradict what it tells the user, and `WorkspaceRename` one that contradicts the
comment beside it; `PROJECT.json` quotes the lines under
"findings". The passing runs say what still holds: `PackageInstallers` is checked
and proved for `MaxRemoves = 0`, because `PackageLost` shows that Remove breaks
`SuccessMeansRecorded`. What `SuccessOutcome` says instead names the one package for which
the message is false without any Remove: the one shown for an unreadable `install.dat`.

## Proofs

`PackageRegistry_proofs` proves, for any packages, dialogs, installed records and
bounds that satisfy `PackagesAssumption`:

* `TypeCorrect`: `TypeOK` is invariant. `TypeOK` is split by component (registry,
  store, UI, dialogs, manager); a lemma per group says that a step which leaves
  the group alone keeps it, so that every action is concerned with the groups it
  changes.
* `InstallCorrect`: with `MaxRemoves = 0`, `InstallInvariant` is invariant, from
  which `NoDuplicateRecords`, `RecordsHaveFiles` and `SuccessOutcomeCorrect` follow. None
  of the three is inductive: the duplicate check alone does not exclude a second
  record, because it may read `pkg.m` while it is written. What excludes it is that
  whoever is past `OpenAppend` owns `pkg.m` (`HolderOwns`), and that a dialog whose
  `.a` is placed blocks the ID for the others because `File.Move` does not overwrite
  (`PlacedIsNew`).
* `InstalledUntouchedCorrect`: with `MaxRemoves = 0`, no step changes the files of a
  recorded package, from the same invariant.

`BuildSession_proofs` proves, for any projects, files, artifacts and bounds that
satisfy `BuildAssumption`:

* `TypeCorrect`: `TypeOK` is invariant. Throwing and killing change the same
  variables from many stages, so each has a lemma of its own; the others are one
  lemma per group of stages.
* `BuildCorrect`: `BuildInvariant` is invariant. It says what each stage works on:
  the parser holds the project's files and what an aborted collection left
  (`PacketsOwned`), the compiling directory holds at each stage exactly what this
  build put there (`DirectoryOwned`), `main.exe` is this build's once `go.exe` has
  reported success (`OutputOwned`), and the user is told a time only after that
  output was placed (`ToldTrue`). `ReleasedAsBuilt` alone is not inductive: that the
  placed file is the build's own depends on every earlier stage having replaced what
  an earlier build, or a `go.exe` that outlived its killed parent, left in the
  directory. `ReleaseIsOwn` and `ParserIsEmptied` follow from it.
* `ReleaseKeptCorrect`: only the placing stages of a build that `go.exe` accepted
  change a release, and only that of the project being built, from the same
  invariant.

* `SessionImplementsRelease`: a session of builds implements `Release`. Initial states map
  to initial states (`InitImplements`), and `StepImplements` maps every step: a click to
  `Begin`, the placing stages to `Put`, `Finally` and the aborting throws to `End`, a kill to
  `Kill`, all others to a stutter. It needs `BuildInvariant` to know that what is put is
  this build's own, and `AbortOwned`, that what an abort leaves in the parser is the
  build's own and that an aborted build says nothing.
* `OnlyAChildBlocks`: a build in progress can go on, itself or by its child, unless the
  child has filled the pipe that nobody reads, the parser thread it joins loops, or a script
  of the user does not end (`Unstuck`, with `ChildAwaited`: whoever waits
  waits for a child that was started). The guards `BuildReady` and `ChildReady` stand for
  ENABLED of the two; that they are equivalent to it is what `OnlyChildrenBlock` adds, and TLC
  checks.
* `BuildsComeCloser`: every step of handler or child leaves less to do: a later stage, a
  file fewer to collect, a line fewer to write, the child's exit (`ComesCloser`). So a build
  does not run in circles: it takes finitely many steps and then is through, or stands at one
  of the three places of the theorem before. Both are the safety behind `CompilerAnswers`,
  which speaks of the wait for `go.exe` alone: what fairness adds is that the steps are taken.

`TypeWorklist_proofs` proves, for any types, assemblies, names and packages that satisfy
`WorklistAssumption`:

* `TypeCorrect`: every type taken came to its end, and packages are imported exactly
  when they were met and are referred to.
* `AllNamesFound` and `NoStrangers`, from `WorklistInvariant`: what a translated type mentions
  is named in the list or among those taken (`Pending`, which merging by name keeps,
  while the mentioned type itself may vanish), and the list holds only what the roots
  lead to (`Reached`). `NamesAreFound` speaks of the end alone and is not inductive.

`SemaLock_proofs` proves, for any number of threads and any `Spin` that satisfy
`LockAssumption`:

* `LockIsMutex`: the lock implements the safety of `Mutex`. That the bit is set while an M
  is inside, and that only one is (`Owned`), needs to know what an M read before it swaps
  (`Bound`): an M about to grab read a word whose bit was not set.
* `NoteWokenOnce`: the note of the timers is never woken twice, because `sleeping` and the
  note change together inside the lock (`WokenOnce`). `LockIsMutex` rests on it too: the
  throw of a double wakeup would leave the lock held by nobody.
* `TypeCorrect`.

The module goes on from there, with `WakeInv`:

* `SemaphoresInSync`: `InSync` is invariant. It speaks of who is in the lock's list, which is
  the smallest set closed under "first" and "next", so that adding the first
  (`Pushed`), dropping it (`Popped`) and leaving it alone (`SameList`) need no
  recursion. Beyond `InSync` the invariant says that the list is one (`OneList`: no M
  in it twice, nothing leads back to the first), that an M that unlocks holds on to
  the first and to what follows it (`Held`), and that only the timer process
  registers with its note (`Registered`). `WaitersListed` and `NoteIsTheTimers` state these.
* `NobodyForgotten`: nobody sleeps in vain, the safety that the liveness of `Wakes` rests
  on. For the list `WakeInv` suffices; for the note it needs where the timer process
  is since it cleared the note (`NoteIsServed`).

`PackageRegistry_proofs` also proves `RemoveSparesOthersCorrect`, with `MaxExtracts = 0` and
`MaxKills = 0`: from `RemoveLoad` until it writes `pkg.m` again, the Remove handler has in
memory what must be recorded, and takes a record out in the step that deletes its
files, or tries to (`RemoveInvariant`). Files of a package whose record is gone may stay,
and the theorem does not say otherwise. Both hypotheses are the run's own bounds, and needed:
`PackageLost` is what a dialog does to Remove, and a kill before `pkg.m` is written
again leaves a record whose files are gone, or no record at all.

`MemorizeFile_proofs` proves, for objects of any property types, texts of any lines and
number, any notation of numbers, and any number of saves and crashes:

* `TypeCorrect`, `RoundTripCorrect` and `StableCorrect`. `FileInv` says that the file holds the
  lines of the first `k` properties of some objects, the last perhaps in part, each
  behind an offset (`Laid`). The writer puts the next ones at the end (`Writing`); the
  reader stands at the offset of the property it reads next, or has read past what
  is there and has but flags to come (`Reading`). That reading a text line by line gives it back
  `Trimmed` is shown for the least prefix of which it would not be true, in place of an
  induction.
* `CutShortCorrect`, if behind every text of an object comes a number
  (`NumbersFollowTexts`), as in class `Package` (`Form1.cs:1263`), whose five texts stand before its
  number: the text of a cut file ends early without a complaint, the missing number
  then throws. Objects that end in a text would be read without it.

`Workspace_proofs` and `WorkspaceTree_proofs` prove, for any parts, labels, texts, project on
disk, tree, tabs and operations that satisfy `WorkspaceAssumption`:

* `EditsMarked`, by an invariant of the row of tabs alone (`IsTabs` and `Marked`: a tab whose
  text is not its file's is unsaved or has a marking under way), which each handler is shown
  to keep, and `BuildTakesTabsCorrect`, because all tabs are written before any file is read.
* `TypeCorrect`: `TypeOK` is invariant. The inductive invariant is `TypeInv`. Of the disk it adds
  to `IsDisk` that it is finite, that keys are normalised, and that no folder has the random
  name of a renaming still to come, without which a failed renaming could put one
  folder on top of another (`FolderMoved`). Of the tree it adds that nodes are finitely many and
  that a node's text is a name: else a node's path could have two separators in a row, and
  creating it would create a folder whose own folder is missing (`FoldersAdded`).
  `Rooted` says without recursion that every way up ends at the root: a set of nodes
  closed upwards and without the root is empty. By it the equations of the recursive
  `NodePath` and `Above` are proved (`SolutionExists`, `NodePathIs`, `AboveIs`), and everything
  else about paths from these.
* `OnlyTheseLose`: `OnlyTheseLoseText` holds. The files that hold a text are
  compared by an injection (`StillHeld`): folders and files that move go to keys that
  were free (`MovedBack`, `RightPathIs`), and saved tabs write texts over others only where
  the statement says so.
* `OnlyTheseStrayCorrect`: `OnlyTheseStray` holds. One lemma per operation (`AddItemShows`,
  `RenameFolderShows`, ...) says that `Mirrors` is kept; each gives every node's new place
  (`Shows`) and compares places, not paths. For a renamed folder, all places below
  are relocated as the disk is (`RenamedWhere`), for which the `Tag`s below need that
  `String.Replace` meets the folder's own name and no other (`TagFollows`). Besides `TypeInv`
  the invariant is `Lawful`: what is on disk and what a node is called holds no bad part, for
  otherwise a renaming to a name could fail halfway too.

`TypeCorrect`, `OnlyTheseLose` and `OnlyTheseStrayCorrect` assume `Numerals`, which states of
`Numeral`, that is TLC's `ToString` in the model and `ToString()` in the code, that numbers are not
written alike and that a number's text is among `Parts` and is neither a separator, nor `Data`, nor
bad. It is a hypothesis of the theorems because the library defines `ToString` by its
evaluation, and it is true of decimal numbers.

`FilterCode_proofs` proves, for files of any length and nesting and with any errors, that no Pop
of `ParserFilter` meets an empty stack (`PopsFindTheirs`), that up to the first error the flags
follow the nesting (`FlagsFollowNesting`) and that a file without errors leaves the
stacks as they were (`FilesLeaveNothing`). `StackInv` adds what is in the stacks at each depth and
that classes hold no namespaces. For `ParserOrganize` the theorems hold as far as
`ParserSlips` shows it to implement `FilterCode`.

`TypeWorklist_proofs` proves of termination what is safety: `NoStepGoesBack`, each step takes a
type for the first time, or shortens the list, or writes `main.go`; a step that takes a type
may be the last, by an exception that leaves the handler.

TLC checked `WakeInv` and `RemoveInvariant` on the runs' instances before they were proved.
`FileInv` asks for objects of which the file was made, among more than TLC can list;
its consequences are the run's properties. So is `TypeInv` of `Workspace`, which speaks of all random
names to come; `TypeOK` and `Mirrors`, which the runs check, are what it was found from.

Only model-checked:

* the liveness properties (`RegistryReleased`, `CompilerAnswers`, `ComesToAnEnd`, `Wakes`), and of
  `OnlyChildrenBlock` the part that speaks of ENABLED: TLAPS proves neither;
* `ParserOrganize` and its refinement of `FilterCode`: its operators are recursive like the
  methods they stand for, and the prover takes none that are.

## Not modelled

What the compiler computes: the translated text, the decompiled IL, and the tokenizer
and the rewriting of tokens by shortcuts and phrases, each one pass over a list that
no one else sees. `AssemblyResolver`, a static list that each build adds its
references to and that lives as long as the process; `PROJECT.json` lists its hazard.
Several open projects at once, the Properties tab and C-magnet files of the
workspace. A tab closed while a marking thread is pending, whose exception ends the
process (`Form1.cs:378`), is covered only as a `Restart`. Painting and the editor
control, the generated designer files, and the vendored controls in `Controls.cs`.

Below `bin\` only the locks of the runtime are modelled. The headers there have no
behaviour; the rest of the runtime and the tools come with Go and are used as they are.

Files that other programs change or lock are modelled only where a call that throws
is an action of its own. Some hazards have no property:
`PROJECT.json` says why at each.

## Plan

What could follow, by what it would add:

1. The timer heap of `time.goc` under `SemaLock`: that the first timer is the earliest.
2. Several open projects in `Workspace`, with `FormProperties` and its tab.
3. `Tokenizer`, `CleanPacket` and `Precompiling` as functions in front of `ParserOrganize`,
   checked against reference definitions.
4. `AssemblyResolver` composed with `PackageRegistry` and `TypeWorklist`: that a package that
   is installed and referred to is the one whose types are imported.
