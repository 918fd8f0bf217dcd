---------------------------- MODULE MCMemorizeFile ----------------------------
(***************************************************************************)
(* An instance of MemorizeFile for TLC.                                    *)
(***************************************************************************)
EXTENDS MemorizeFile

\* A Package in small: texts, then a number, and a flag at its end.
MCTypes == <<"string", "int", "bool">>

\* A blank line, and one that can be taken for a line count.
MCLines == {"", "1"}

MCDecimal == <<"0", "1", "2", "3", "4">>
=============================================================================
