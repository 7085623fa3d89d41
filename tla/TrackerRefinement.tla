--------------------------- MODULE TrackerRefinement ---------------------------
(***************************************************************************)
(* The tracker implements the promises of the log: every step of           *)
(* TrackerHistory is a step of ScanLog, or none, under this mapping.       *)
(***************************************************************************)
EXTENDS TrackerHistory

HeardOf == [d \in Device |-> [at |-> heard[d].at, name |-> heard[d].name]]
LineOf  == IF result.reason = "none" THEN [reason |-> "none"]
           ELSE [reason |-> result.reason, device |-> DeviceOf(result),
                 name |-> result.name, rssi |-> result.rssi]

Log == INSTANCE ScanLog WITH
    now <- uptime, heard <- HeardOf, line <- LineOf, Span <- UINT_MOD

(* Everything the log promises is kept by slots, 32-bit counters and a      *)
(* clock that wraps: who is remembered, which line must and which may be    *)
(* emitted, and when a summary is printed (scan_tracker.c:87-246).          *)
ImplementsScanLog == Log!Spec
================================================================================
