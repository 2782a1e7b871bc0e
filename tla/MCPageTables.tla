---------------------------- MODULE MCPageTables -------------------------------
(***************************************************************************)
(* An instance of PageTables for TLC: four pages, whose addresses differ   *)
(* in the low and in the high bits of the page number.                     *)
(***************************************************************************)
EXTENDS PageTables, TLC

FourAddresses == 0 :> {46, 45, 12} @@ 1 :> {46, 45, 13} @@ 2 :> {46, 45, 13, 12} @@ 3 :> {46, 45, 30, 22, 21}

\* A zero word, and one whose bits are set in and around every field.
TwoWords == {{}, {2, 5, 9, 10, 11, 53, 54, 63}}
================================================================================
