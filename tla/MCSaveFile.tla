------------------------------ MODULE MCSaveFile ------------------------------
(***************************************************************************)
(* Save files between builds: "base", and builds in which the layout of    *)
(* one block alone differs.  A load of the other blocks is refused where   *)
(* the file ends before them.                                              *)
(***************************************************************************)
EXTENDS SaveFile

MCBuilds == {"base", "z80", "ym", "host"}

MCLayout == [b \in MCBuilds |-> [p \in Blocks |-> IF b = p THEN 2 ELSE 1]]
=============================================================================
