------------------------------- MODULE MCParser -------------------------------
(***************************************************************************)
(* Every payload of up to MaxLength bytes over an alphabet in which each   *)
(* byte has a role as a length, as a type and as a character: 0 ends the   *)
(* payload, 1 is a field without data, 2 and 3 have one and two bytes of   *)
(* data, 8 and 9 are the name types and lengths that always run past the   *)
(* end, 65 is the only printable character.                                *)
(***************************************************************************)
EXTENDS AdParser

FieldBytes == {0, 1, 2, 3, 8, 9, 65}
===============================================================================
