-------------------------------- MODULE MCRtt --------------------------------
(***************************************************************************)
(* RttChannel for TLC: the buffer holds the two start-up lines and one     *)
(* piece more, so that every later line may be stored, cut or dropped.     *)
(***************************************************************************)
EXTENDS RttChannel
===============================================================================
