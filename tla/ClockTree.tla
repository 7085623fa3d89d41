------------------------------- MODULE ClockTree -------------------------------
(***************************************************************************)
(* The clock configuration of the firmware: what the generated headers     *)
(* sl_clock_manager_oscillator_config.h and _tree_config.h let one choose, *)
(* what the build chooses, and what a choice c means for each branch of    *)
(* the clock tree.  Settings on which no branch's source depends (tuning,  *)
(* precision, start-up delays, dividers, edges) are left out.              *)
(***************************************************************************)
EXTENDS Integers

(* What can be chosen; all frequencies in kHz. *)
HfxoModes   == {"AUTO", "ENABLE", "DISABLE"}
HfxoFreqs   == 38000 .. 40000
LfxoModes   == BOOLEAN
HfrcoBands  == {1000, 2000, 4000, 7000, 13000, 16000, 19000, 26000, 32000, 38000, 48000, 56000,
                64000, 80000}
DpllFreqs   == 1000 .. 80000
DpllNs      == 300 .. 4095
DpllMs      == 0 .. 4095
DpllRefClks == {"DISABLED", "HFXO", "LFXO", "CLKIN0"}
OscillatorSettings ==
    [HFXO_EN : HfxoModes, HFXO_FREQ : HfxoFreqs, LFXO_EN : LfxoModes, HFRCO_BAND : HfrcoBands,
     DPLL_EN : BOOLEAN, DPLL_FREQ : DpllFreqs, DPLL_N : DpllNs, DPLL_M : DpllMs,
     DPLL_REFCLK : DpllRefClks]

DefaultSources == [HF : {"AUTO", "HFRCODPLL", "HFXO", "FSRCO"}, LF : {"LFRCO", "LFXO", "ULFRCO"}]

LfSources == {"DEFAULT_LF", "LFRCO", "LFXO", "ULFRCO"}
SystemSources ==
    [SYSCLK |-> {"DEFAULT_HF", "FSRCO", "HFRCODPLL", "HFXO", "CLKIN0"},
     HCLK   |-> {"SYSCLK"},
     PCLK   |-> {"HCLK"}]
HfSources ==
    [TRACECLK    |-> {"HCLK", "HFRCOEM23"},
     EM01GRPACLK |-> {"DEFAULT_HF", "HFRCODPLL", "HFXO", "HFRCOEM23", "FSRCO"},
     IADCCLK     |-> {"EM01GRPACLK", "HFRCOEM23", "FSRCO"}]
TimerSources ==
    [EM23GRPACLK |-> LfSources, EM4GRPACLK |-> LfSources, RTCCCLK |-> LfSources]
WatchdogSources == [WDOG0CLK |-> LfSources \cup {"HCLK"}, WDOG1CLK |-> LfSources \cup {"HCLK"}]
SystickSources  == [SYSTICKCLK |-> {"HCLK", "EM23GRPACLK"}]

Branches == {"SYSCLK", "HCLK", "PCLK", "TRACECLK", "EM01GRPACLK", "IADCCLK", "EM23GRPACLK",
             "EM4GRPACLK", "RTCCCLK", "WDOG0CLK", "WDOG1CLK", "SYSTICKCLK"}
Sources(b) ==
    CASE b \in DOMAIN SystemSources   -> SystemSources[b]
      [] b \in DOMAIN HfSources       -> HfSources[b]
      [] b \in DOMAIN TimerSources    -> TimerSources[b]
      [] b \in DOMAIN WatchdogSources -> WatchdogSources[b]
      [] b \in DOMAIN SystickSources  -> SystickSources[b]

(* What the build chooses. *)
BuiltOscillators ==
    [HFXO_EN |-> "ENABLE", HFXO_FREQ |-> 38400, LFXO_EN |-> TRUE, HFRCO_BAND |-> 80000,
     DPLL_EN |-> FALSE, DPLL_FREQ |-> 80000, DPLL_N |-> 3999, DPLL_M |-> 1919,
     DPLL_REFCLK |-> "HFXO"]
BuiltDefaults == [HF |-> "HFRCODPLL", LF |-> "LFXO"]
BuiltBranches ==
    [b \in Branches |->
        CASE b \in {"SYSCLK", "EM01GRPACLK"}                       -> "DEFAULT_HF"
          [] b \in DOMAIN TimerSources \cup DOMAIN WatchdogSources -> "DEFAULT_LF"
          [] b = "HCLK"                                            -> "SYSCLK"
          [] b \in {"PCLK", "TRACECLK", "SYSTICKCLK"}              -> "HCLK"
          [] b = "IADCCLK"                                         -> "EM01GRPACLK"]

--------------------------------------------------------------------------------
(* What a choice means.  c.rail: the radio library is in the catalog.       *)

(* Faulty: the two files resolve AUTO differently.                          *)
HfxoEnabledByHand(c) == c.osc.HFXO_EN = "ENABLE"
HfxoEnabled(c) == c.osc.HFXO_EN = "ENABLE" \/ (c.osc.HFXO_EN = "AUTO" /\ c.rail)

DefaultHf(c) ==
    IF c.default.HF # "AUTO" THEN c.default.HF
    ELSE IF c.rail THEN "HFXO" ELSE "HFRCODPLL"

(* The oscillator or the branch that feeds x, and the oscillator it all     *)
(* comes from: no branch is more than three steps away from it.             *)
Feed(c, x) ==
    IF x \notin Branches THEN x
    ELSE CASE c.source[x] = "DEFAULT_HF" -> DefaultHf(c)
           [] c.source[x] = "DEFAULT_LF" -> c.default.LF
           [] OTHER                      -> c.source[x]
Oscillator(c, b) == Feed(c, Feed(c, Feed(c, b)))

(* Faulty: the numerator is N instead of N + 1.                             *)
HfrcoFreqOffByOne(c) ==
    IF c.osc.DPLL_EN THEN (c.osc.HFXO_FREQ * c.osc.DPLL_N) \div (c.osc.DPLL_M + 1)
    ELSE c.osc.HFRCO_BAND
HfrcoFreq(c) ==
    IF c.osc.DPLL_EN THEN (c.osc.HFXO_FREQ * (c.osc.DPLL_N + 1)) \div (c.osc.DPLL_M + 1)
    ELSE c.osc.HFRCO_BAND

(* The DPLL, if used, locks the HFRCO to a reference oscillator.            *)
Available(c, osc) ==
    CASE osc = "HFXO"      -> HfxoEnabled(c)
      [] osc = "LFXO"      -> c.osc.LFXO_EN
      [] osc = "HFRCODPLL" -> c.osc.DPLL_EN => /\ c.osc.DPLL_REFCLK = "HFXO" /\ HfxoEnabled(c)
                                              /\ HfrcoFreq(c) = c.osc.DPLL_FREQ
      [] OTHER             -> TRUE

(* The oscillators that run in an energy mode.                              *)
LowFrequency  == {"LFXO", "LFRCO", "ULFRCO"}
Runs(osc, em) == em \in {"EM0", "EM1"} \/ osc \in LowFrequency
================================================================================
