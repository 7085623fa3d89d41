-------------------------------- MODULE MCApp --------------------------------
(***************************************************************************)
(* ScannerApp for TLC: two advertisers and a queue of up to three events,  *)
(* so that a burst is longer than what one pass of the loop handles.       *)
(***************************************************************************)
EXTENDS ScannerApp

TwoDevices == {"d1", "d2"}
===============================================================================
