-------------------------- MODULE MCPackageRegistry --------------------------
(***************************************************************************)
(* Instances of PackageRegistry for TLC.                                   *)
(***************************************************************************)
EXTENDS PackageRegistry, TLC

CONSTANTS p1, p2, p3, d1, d2

\* p1 and p2 were built from one project, p3 from another.
MCProjectName == [p \in Packages |-> IF p = p3 THEN "Test3" ELSE "Test"]

\* Nothing, one package or three packages installed when the program starts.
NoneInstalled  == <<>>
OneInstalled   == <<p1>>
ThreeInstalled == <<p1, p2, p3>>
=============================================================================
