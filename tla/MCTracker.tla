------------------------------ MODULE MCTracker ------------------------------
(***************************************************************************)
(* Small instances of TrackerHistory for TLC.  The clock has UINT_MOD = 4  *)
(* values instead of 2^32, so that it wraps within a run; the intervals    *)
(* and the counters are scaled with it.                                    *)
(***************************************************************************)
EXTENDS TrackerRefinement

CONSTANTS
    MaxUptime,      \* bound on the true time a run reaches
    MaxReports      \* bound on the number of reports a run handles

(* Payloads: no name, an empty name field, and a name with a cut-off field  *)
(* after it.                                                                *)
Unnamed      == [present |-> FALSE, name |-> NoName, malformed |-> FALSE]
Named(n)     == [present |-> TRUE, name |-> n, malformed |-> FALSE]
CutAfter(n)  == [present |-> TRUE, name |-> n, malformed |-> TRUE]

Report(a, t, r, p) == [address |-> a, address_type |-> t, rssi |-> r, parsed |-> p]

TwoAddresses == {"a0", "a1"}
TwoNames     == {"", "x"}
TwoTypes     == {0, 1}
NewsSignals  == {-60, -49, -48}

(* Three devices for two slots.  Two share an address and two share a type; *)
(* one is the all-zero identity.  That one also changes its name and its    *)
(* signal, by 11 dB and by 12 dB.                                           *)
LogReports ==
    {Report("a0", 0, -60, Unnamed), Report("a0", 0, -49, Named("")),
     Report("a0", 0, -48, CutAfter("x")),
     Report("a0", 1, -60, Unnamed), Report("a1", 1, -60, Unnamed)}

(* HNext within the bounds; at MaxUptime the run is over.                   *)
MCObserve == handled < MaxReports /\ \E o \in Reports : HObserve(o)
MCTick    == uptime < MaxUptime /\ HTick
MCEnd     == uptime = MaxUptime /\ UNCHANGED hvars

MCNext == MCObserve \/ HAppProcessAction \/ MCTick \/ MCEnd

MCSpec == HInit /\ [][MCNext]_hvars

(* The same with a super-loop that is never late: no time passes while a    *)
(* summary is due.                                                          *)
MCPromptTick == ~SummaryDue /\ MCTick

MCPromptNext == MCObserve \/ HAppProcessAction \/ MCPromptTick \/ MCEnd

MCPromptSpec == HInit /\ [][MCPromptNext]_hvars

==============================================================================
