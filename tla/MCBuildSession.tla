---------------------------- MODULE MCBuildSession ----------------------------
(***************************************************************************)
(* Instances of BuildSession for TLC.                                      *)
(***************************************************************************)
EXTENDS BuildSession, TLC

CONSTANTS exe, dll, mixed, a1, a2, b1, c1, r1

\* A program of two files, a package of one, and a program with a *.go file.
MCTree == (exe :> {a1, a2}) @@ (dll :> {b1}) @@ (mixed :> {c1, r1})
=============================================================================
