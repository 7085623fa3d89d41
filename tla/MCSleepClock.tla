------------------------------ MODULE MCSleepClock ------------------------------
(* A counter of 4 bits; a second has 3 ms and 4 ticks of the crystals, 3 of *)
(* the slow oscillator: periods of 12 and 16 ms, as 2^32 * 1000 / 32768 and *)
(* 2^32 are for the real ones.                                              *)
EXTENDS SleepClock
Ticks  == [LFXO |-> 4, LFRCO |-> 4, ULFRCO |-> 3]
Chosen(hfxo, dpll, hf, lf, rail, features, timer, logging) ==
    [osc     |-> [BuiltOscillators EXCEPT !.HFXO_EN = hfxo, !.DPLL_EN = dpll],
     default |-> [HF |-> hf, LF |-> lf], source |-> BuiltBranches,
     rail |-> rail, features |-> features, timer |-> timer, logging |-> logging]
Built == Chosen("ENABLE", FALSE, "HFRCODPLL", "LFXO", TRUE, {}, "DEFAULT", TRUE)
(* The built configuration, and those with other defaults, another timer,   *)
(* other features or without the EM1 requirement of the logging build, with *)
(* the DPLL, without the high-frequency crystal, and with any other source  *)
(* for one branch.                                                          *)
SomeConfigs ==
    {Chosen(hfxo, FALSE, hf, lf, rail, features, timer, logging) :
        hfxo \in {"AUTO", "ENABLE"}, hf \in {"AUTO", "HFRCODPLL", "FSRCO"},
        lf \in {"LFXO", "LFRCO", "ULFRCO"}, rail \in BOOLEAN,
        features \in {{}, {"CONNECTION"}, {"SYNC"}}, timer \in {"DEFAULT", "BURTC"},
        logging \in BOOLEAN}
    \cup {Chosen("ENABLE", TRUE, "HFRCODPLL", lf, TRUE, {}, "DEFAULT", logging) :
            lf \in {"LFXO", "LFRCO"}, logging \in BOOLEAN}
    \cup {Chosen("DISABLE", FALSE, hf, "LFXO", rail, {}, "DEFAULT", TRUE) :
            hf \in {"HFRCODPLL", "FSRCO"}, rail \in BOOLEAN}
    \cup UNION {{[Built EXCEPT !.source[b] = s] : s \in Sources(b)} : b \in Branches}
================================================================================
