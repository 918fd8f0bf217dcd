----------------------------- MODULE MemorizeFile -----------------------------
(***************************************************************************)
(* MemorizePortable: the line format of pkg.m, install.dat and             *)
(* projectdata.dat.  A file is the concatenation of its objects'           *)
(* properties, in order and without any mark between them: a number or a   *)
(* flag takes a line, a text takes its line count and its lines.  A reader *)
(* that loses count by one line misreads everything that follows.          *)
(*                                                                         *)
(* A text is the sequence of its lines; a number and a flag are the one    *)
(* line that shows them.  A line is written or it is not (no half lines).  *)
(* A file is replaced by deleting it and writing a new one.                *)
(***************************************************************************)
EXTENDS Naturals, Sequences

CONSTANTS
  Types,      \* the property types of an object, in order
  Lines,      \* the lines texts are made of
  Decimal,    \* how 0, 1, 2, ... are written in decimal
  Numbers,    \* those that objects hold
  MaxLines,   \* bound: lines of a text
  MaxObjects, \* bound: objects in a file
  MaxSaves,   \* bound: times a file is written
  MaxCrashes  \* bound: crashes

Blank == ""

ASSUME MemorizeAssumption ==
  /\ Types \in Seq({"string", "int", "bool"}) /\ Types # <<>>
  /\ Decimal \in Seq(STRING)
  /\ \A m, n \in DOMAIN Decimal : Decimal[m] = Decimal[n] => m = n
  /\ Numbers \subseteq {Decimal[n] : n \in DOMAIN Decimal}
  /\ Lines \subseteq STRING /\ Blank \in Lines /\ MaxLines \in 1..Len(Decimal) - 1
  /\ MaxObjects \in Nat /\ MaxSaves \in Nat /\ MaxCrashes \in Nat

\* A text that was never set is null, which is not an empty text.
Null == <<>>
Texts == UNION {[1..n -> Lines] : n \in 1..MaxLines}
Flag(b) == IF b THEN <<"T">> ELSE <<"F">>

Values(type) == CASE type = "string" -> Texts \cup {Null}
                  [] type = "int"    -> {<<n>> : n \in Numbers}
                  [] type = "bool"   -> {Flag(TRUE), Flag(FALSE)}

VARIABLES
  disk,     \* the file's lines
  exists,   \* the file exists
  pc,       \* what the program is doing with it
  objects,  \* the objects being saved, property by property
  at,       \* how many properties are written
  written,  \* the lines in the stream writer
  pos,      \* the reader's next line
  loaded,   \* the property values read so far
  complete, \* the last save ran to its end (history)
  reloaded, \* the objects being saved were loaded before (history)
  saves,    \* files written so far
  crashes

vars == <<disk, exists, pc, objects, at, written, pos, loaded, complete, reloaded, saves,
          crashes>>

\* Objects one after the other: property i of the list is of this type.
TypeOf(i) == Types[((i - 1) % Len(Types)) + 1]

ObjectLists(n) == {s \in [1..n * Len(Types) -> UNION {Values(Types[j]) : j \in DOMAIN Types}] :
                     \A i \in DOMAIN s : s[i] \in Values(TypeOf(i))}

TypeOK ==
  /\ exists \in BOOLEAN /\ complete \in BOOLEAN /\ reloaded \in BOOLEAN
  /\ pc \in {"idle", "create", "write", "load", "done", "failed"}
  /\ at \in 0..Len(objects)
  /\ pos \in 1..Len(disk) + 1
  /\ Len(loaded) <= MaxObjects * Len(Types)
  /\ saves \in 0..MaxSaves /\ crashes \in 0..MaxCrashes

-----------------------------------------------------------------------------
(***************************************************************************)
(* The conversions.                                                        *)
(***************************************************************************)

CountLine(n) == Decimal[n + 1]
IsInt(l) == \E n \in DOMAIN Decimal : Decimal[n] = l
ParseInt(l) == (CHOOSE n \in DOMAIN Decimal : Decimal[n] = l) - 1

\* Slip: as many lines as there are line breaks.
LinesOfTextUncounted(t) == <<CountLine(Len(t) - 1)>> \o t

\* Count( '\n' ) + 1, and the text.
LinesOfText(t) == <<CountLine(Len(t))>> \o t

LinesOf(type, v) == IF type = "string" THEN LinesOfText(v) ELSE v

\* Slip: a line break before every line, the first one included.
AddLineAlways(text, line) == Append(text, line)

\* tst += ( tst == "" ? "" : "\r\n" ) + line
AddLine(text, line) == IF text = <<Blank>> THEN <<line>> ELSE Append(text, line)

\* n lines from p on; ReadLine gives null behind the end, which adds nothing.
LineAt(p) == IF p <= Len(disk) THEN disk[p] ELSE Blank
ReadText(p, n) ==
  LET text[k \in 0..n] == IF k = 0 THEN <<Blank>> ELSE AddLine(text[k - 1], LineAt(p + k - 1))
  IN text[n]

\* Slip: the reader counts on behind the end of the file.
SkipPast(p, n) == p + n

Skip(p, n) == IF p + n <= Len(disk) + 1 THEN p + n ELSE Len(disk) + 1

\* Slip: a missing number is a zero.
NumberOrZero(p) == p <= Len(disk) => IsInt(disk[p])

\* int.Parse throws on null and on anything else that is no number.
NumberAt(p) == p <= Len(disk) /\ IsInt(disk[p])

NumberValue(p) == IF p <= Len(disk) THEN ParseInt(disk[p]) ELSE 0

-----------------------------------------------------------------------------
Init ==
  /\ \E n \in 1..MaxObjects : objects \in ObjectLists(n)
  /\ disk = <<>> /\ exists = FALSE /\ complete = FALSE /\ reloaded = FALSE
  /\ pc = "idle" /\ at = 0 /\ written = <<>> /\ pos = 1 /\ loaded = <<>>
  /\ saves = 0 /\ crashes = 0

\* if ( File.Exists( pathfile ) ) File.Delete( pathfile )
StartSave ==
  /\ pc = "idle" /\ saves < MaxSaves
  /\ saves' = saves + 1
  /\ disk' = <<>> /\ exists' = FALSE /\ complete' = FALSE
  /\ pos' = 1 /\ loaded' = <<>>
  /\ pc' = "create"
  /\ UNCHANGED <<objects, at, written, reloaded, crashes>>

CreateFile ==
  /\ pc = "create"
  /\ exists' = TRUE /\ pc' = "write" /\ at' = 0 /\ written' = <<>>
  /\ UNCHANGED <<disk, objects, pos, loaded, complete, saves, reloaded, crashes>>

WriteProperty ==
  /\ pc = "write" /\ at < Len(objects)
  /\ objects[at + 1] # Null
  /\ written' = written \o LinesOf(TypeOf(at + 1), objects[at + 1])
  /\ at' = at + 1
  /\ UNCHANGED <<disk, exists, pc, objects, pos, loaded, complete, saves, reloaded, crashes>>

\* Counting the lines of null throws; finally closes the writer.
WriteThrows ==
  /\ pc = "write" /\ at < Len(objects)
  /\ objects[at + 1] = Null
  /\ disk' = written /\ pc' = "idle"
  /\ UNCHANGED <<exists, objects, at, written, pos, loaded, complete, saves, reloaded, crashes>>

CloseFile ==
  /\ pc = "write" /\ at = Len(objects)
  /\ disk' = written /\ complete' = TRUE
  /\ pc' = "idle"
  /\ UNCHANGED <<exists, objects, at, written, pos, loaded, saves, reloaded, crashes>>

\* What the writer has handed to the system so far stays on disk.
Crash ==
  /\ pc \in {"create", "write"} /\ crashes < MaxCrashes
  /\ crashes' = crashes + 1
  /\ \E n \in 0..Len(written) :
       disk' = IF exists THEN SubSeq(written, 1, n) ELSE <<>>
  /\ pc' = "idle"
  /\ UNCHANGED <<exists, objects, at, written, pos, loaded, complete, reloaded, saves>>

StartLoad ==
  /\ pc = "idle" /\ exists
  /\ pos' = 1 /\ loaded' = <<>>
  /\ pc' = "load"
  /\ UNCHANGED <<disk, exists, objects, at, written, complete, saves, reloaded, crashes>>

\* A file's last object ends where the file does.
AtObject == Len(loaded) % Len(Types) = 0
AtEnd == AtObject /\ pos > Len(disk)

ReadString ==
  /\ pc = "load" /\ ~AtEnd
  /\ TypeOf(Len(loaded) + 1) = "string"
  /\ NumberAt(pos)
  /\ LET n == NumberValue(pos)
     IN /\ loaded' = Append(loaded, ReadText(pos + 1, n))
        /\ pos' = Skip(pos, n + 1)
  /\ UNCHANGED <<disk, exists, pc, objects, at, written, complete, saves, reloaded, crashes>>

ReadInt ==
  /\ pc = "load" /\ ~AtEnd
  /\ TypeOf(Len(loaded) + 1) = "int"
  /\ NumberAt(pos)
  /\ loaded' = Append(loaded, <<CountLine(NumberValue(pos))>>)
  /\ pos' = Skip(pos, 1)
  /\ UNCHANGED <<disk, exists, pc, objects, at, written, complete, saves, reloaded, crashes>>

\* stream.ReadLine( ) == "T", at the end of the file too
ReadBool ==
  /\ pc = "load" /\ ~AtEnd
  /\ TypeOf(Len(loaded) + 1) = "bool"
  /\ loaded' = Append(loaded, Flag(LineAt(pos) = "T"))
  /\ pos' = Skip(pos, 1)
  /\ UNCHANGED <<disk, exists, pc, objects, at, written, complete, saves, reloaded, crashes>>

ReadThrows ==
  /\ pc = "load" /\ ~AtEnd
  /\ TypeOf(Len(loaded) + 1) # "bool"
  /\ ~NumberAt(pos)
  /\ pc' = "failed"
  /\ UNCHANGED <<disk, exists, objects, at, written, pos, loaded, complete, saves, reloaded,
                 crashes>>

EndLoad ==
  /\ pc = "load" /\ AtEnd
  /\ pc' = "done"
  /\ UNCHANGED <<disk, exists, objects, at, written, pos, loaded, complete, saves, reloaded,
                 crashes>>

\* The objects that were loaded are saved again.
SaveAgain ==
  /\ pc = "done" /\ complete /\ saves < MaxSaves
  /\ objects' = loaded /\ reloaded' = TRUE
  /\ pc' = "idle"
  /\ UNCHANGED <<disk, exists, at, written, pos, loaded, complete, saves, crashes>>

Next ==
  \/ StartSave \/ CreateFile \/ WriteProperty \/ WriteThrows \/ CloseFile
  \/ Crash
  \/ StartLoad \/ ReadString \/ ReadInt \/ ReadBool \/ ReadThrows \/ EndLoad
  \/ SaveAgain

Spec == Init /\ [][Next]_vars

-----------------------------------------------------------------------------
(***************************************************************************)
(* What the format promises.                                               *)
(***************************************************************************)

\* A text without its leading blank lines.
Trimmed(t) ==
  LET full == {k \in DOMAIN t : t[k] # Blank}
  IN IF full = {} THEN <<Blank>>
     ELSE SubSeq(t, CHOOSE k \in full : \A j \in full : k <= j, Len(t))

Kept(i, v) == IF TypeOf(i) = "string" THEN Trimmed(v) ELSE v

\* A file that was saved to its end is never refused, and loads as it was
\* saved, every object and every property in its place, but for the leading
\* blank lines of its texts.
RoundTrip ==
  pc \in {"done", "failed"} /\ complete =>
    pc = "done" /\ loaded = [i \in DOMAIN objects |-> Kept(i, objects[i])]

\* ... and what was loaded once survives any further round exactly.
StableAfterFirst ==
  pc = "done" /\ complete /\ reloaded => loaded = objects

\* A file whose save was cut short is either refused or gives whole objects,
\* as saved, of which at most the last one's trailing flags read as false.
CutShortIsNoticed ==
  pc = "done" /\ ~complete =>
    /\ Len(loaded) <= Len(objects)
    /\ \A i \in DOMAIN loaded :
         \/ loaded[i] = Kept(i, objects[i])
         \/ /\ loaded[i] = Flag(FALSE)
            /\ \A j \in i..Len(loaded) : TypeOf(j) = "bool"
=============================================================================
