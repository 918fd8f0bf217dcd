---------------------------- MODULE MCWorkspace ----------------------------
(***************************************************************************)
(* Workspace for TLC: a project with a file in its data folder and a file  *)
(* in a folder, whose name the folder has as well.  "x" is taken by both,  *)
(* "y" is free, one label is no name, and one is a path into the folder.   *)
(***************************************************************************)
EXTENDS Workspace

MCParts == STRING
MCLabels == {<<"x">>, <<"y">>, <<Bad>>, <<"x", Sep, "y">>}
MCDropped == <<"x">>
MCTexts == {Empty, "ns"}
MCOnDisk == (DataDir \o <<Sep, "main">> :> "ns") @@ (DataDir \o <<Sep, "x", Sep, "x">> :> "ns")

=============================================================================
