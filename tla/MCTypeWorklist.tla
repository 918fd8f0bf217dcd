---------------------------- MODULE MCTypeWorklist ----------------------------
(***************************************************************************)
(* TypeWorklist for TLC: a program with a class a, types b and b2 further  *)
(* in that have one name in Go, a type that does not translate, types of a *)
(* package it refers to and of one it does not, one of a library and one   *)
(* that Go has itself.  What a, b and b2 mention is left open.             *)
(***************************************************************************)
EXTENDS TypeWorklist, TLC

CONSTANTS a, b, b2, broken, packed, unknown, library, int, main, lib, pkg, pkg2, none

MCModule == [t \in Types |-> IF t \in {library, int} THEN lib ELSE main]
MCOwner == [t \in Types |->
    CASE t = packed -> pkg [] t = unknown -> pkg2 [] OTHER -> none]
MCName == [t \in Types |-> IF t = b2 THEN b ELSE t]

MCAssemblies ==
    LET little == [t \in Types |-> IF t = broken THEN {b} ELSE {}] IN
    {[little EXCEPT ![a] = A, ![b] = B, ![b2] = B2] :
        A \in SUBSET {b2, b, broken, packed, library},
        B \in SUBSET {a, b2, unknown, int},
        B2 \in SUBSET {b}}
=============================================================================
