------------------------------- MODULE SleepClock -------------------------------
(***************************************************************************)
(* The clock of the scanner's log, uptime_ms of app.c, and the energy      *)
(* modes the processor sleeps in.  The sleeptimer counts ticks of a        *)
(* low-frequency oscillator; the application, the radio and the Bluetooth  *)
(* stack ask the power manager not to sleep below EM1.                     *)
(*                                                                         *)
(* Time passes in ticks of the sleeptimer's clock: `elapsed' is the true   *)
(* number of ticks since reset, which no code sees.                        *)
(***************************************************************************)
EXTENDS ClockTree

CONSTANTS
    Configs,        \* configurations: [osc, default, source, rail, features, timer, logging]
    TickMod,        \* the counter of the sleeptimer has log2(TickMod) bits
    TicksPerSecond, \* by oscillator
    MsPerSecond,    \* 1000
    MaxElapsed,     \* bound on elapsed
    MaxStack        \* bound on the requirements of the stack

VARIABLES
    config,     \* the configuration of this build
    elapsed,    \* true ticks since reset
    counter,    \* the sleeptimer's counter register
    mode,       \* energy mode
    em1,        \* EM1 requirements the power manager counts
    app,        \* app_init has run
    receiving,  \* the radio receives
    stackNeeds  \* EM1 requirements of the Bluetooth stack's own

vars == <<config, elapsed, counter, mode, em1, app, receiving, stackNeeds>>

--------------------------------------------------------------------------------
(* sl_bluetooth_config.h: what depends on timing.                           *)
TimedFeatures == {"CONNECTION", "PERIODIC_ADV", "SYNC"}

(* The clock. *)

(* The peripheral the sleeptimer uses: RTCC unless another one is chosen.   *)
(* The header also lists peripherals of other devices, the radio's own      *)
(* timer and TIMER, which no low-frequency branch of this tree feeds.       *)
TimerPeripherals == {"DEFAULT", "RTCC", "BURTC"}
TimerBranch(c) ==
    CASE c.timer \in {"DEFAULT", "RTCC"} -> "RTCCCLK"
      [] c.timer = "BURTC"               -> "EM4GRPACLK"

TimerOscillator(c) == Oscillator(c, TimerBranch(c))

Rate(c) == TicksPerSecond[TimerOscillator(c)]

(* Faulty: the product is reduced to the width of the counter.              *)
TickToMsNarrow(t) == ((t * MsPerSecond) % TickMod) \div Rate(config)
TickToMs(t)       == (t * MsPerSecond) \div Rate(config)
UptimeMs          == TickToMs(counter)

(* After this many milliseconds UptimeMs is 0 again.                        *)
ClockPeriod == (TickMod * MsPerSecond) \div Rate(config)

(* Every setting has a value its header allows.                             *)
Legal(c) ==
    /\ c.osc \in OscillatorSettings /\ c.default \in DefaultSources
    /\ DOMAIN c.source = Branches /\ \A b \in Branches : c.source[b] \in Sources(b)
    /\ c.features \subseteq TimedFeatures /\ c.timer \in TimerPeripherals
    /\ c.rail \in BOOLEAN /\ c.logging \in BOOLEAN

(* The sleeptimer counts ticks of a low-frequency oscillator, and the time  *)
(* until its counter wraps is a whole number of milliseconds.               *)
ASSUME ClockAssumption ==
    /\ TickMod \in Nat \ {0} /\ MsPerSecond \in Nat \ {0}
    /\ MaxElapsed \in Nat /\ MaxStack \in Nat
    /\ \A c \in Configs :
        /\ Legal(c) /\ TimerOscillator(c) \in LowFrequency /\ Rate(c) \in Nat \ {0}
        /\ (TickMod * MsPerSecond) % Rate(c) = 0

--------------------------------------------------------------------------------
(* Sleeping. *)

(* sl_bluetooth_config.h: without connections, periodic advertising and     *)
(* synchronisation the stack makes do with an inaccurate clock in EM2.      *)
InaccurateLfclkInEm2(c)  == TimedFeatures \cap c.features = {}
Accurate(c)              == TimerOscillator(c) = "LFXO"
StackAllowsEm2(c)        == InaccurateLfclkInEm2(c) \/ Accurate(c)

(* Faulty: requirements are a flag instead of a count.                      *)
RemoveAll(n)         == 0
RemoveRequirement(n) == n - 1

Init ==
    /\ config \in Configs
    /\ elapsed = 0 /\ counter = 0
    /\ mode = "EM0" /\ em1 = 0
    /\ app = FALSE /\ receiving = FALSE /\ stackNeeds = 0

(* app_init of the logging build adds a requirement for good.               *)
AppInit ==
    /\ ~app /\ app' = TRUE
    /\ em1' = IF config.logging THEN em1 + 1 ELSE em1
    /\ UNCHANGED <<config, elapsed, counter, mode, receiving, stackNeeds>>

(* The radio library and the stack are outside the repository: assumed is   *)
(* that each removes only requirements it added.  The library manages its   *)
(* own if it is configured to; its interrupts wake up.                      *)
RadioStart ==
    /\ app /\ config.rail /\ ~receiving
    /\ receiving' = TRUE /\ em1' = em1 + 1 /\ mode' = "EM0"
    /\ UNCHANGED <<config, elapsed, counter, app, stackNeeds>>
RadioStop ==
    /\ receiving
    /\ receiving' = FALSE /\ em1' = RemoveRequirement(em1) /\ mode' = "EM0"
    /\ UNCHANGED <<config, elapsed, counter, app, stackNeeds>>

StackAdds ==
    /\ mode = "EM0" /\ stackNeeds < MaxStack
    /\ stackNeeds' = stackNeeds + 1 /\ em1' = em1 + 1
    /\ UNCHANGED <<config, elapsed, counter, mode, app, receiving>>
StackRemoves ==
    /\ mode = "EM0" /\ stackNeeds > 0
    /\ stackNeeds' = stackNeeds - 1 /\ em1' = RemoveRequirement(em1)
    /\ UNCHANGED <<config, elapsed, counter, mode, app, receiving>>

(* The super-loop sleeps in the lowest mode nobody objects to.              *)
Sleep ==
    /\ app /\ mode = "EM0"
    /\ mode' = IF em1 > 0 \/ ~StackAllowsEm2(config) THEN "EM1" ELSE "EM2"
    /\ UNCHANGED <<config, elapsed, counter, em1, app, receiving, stackNeeds>>
Wake ==
    /\ mode # "EM0" /\ mode' = "EM0"
    /\ UNCHANGED <<config, elapsed, counter, em1, app, receiving, stackNeeds>>

Tick ==
    /\ elapsed < MaxElapsed
    /\ elapsed' = elapsed + 1
    /\ counter' = IF Runs(TimerOscillator(config), mode) THEN (counter + 1) % TickMod ELSE counter
    /\ UNCHANGED <<config, mode, em1, app, receiving, stackNeeds>>

Next == \/ AppInit \/ RadioStart \/ RadioStop \/ StackAdds \/ StackRemoves
        \/ Sleep \/ Wake \/ Tick

Spec == Init /\ [][Next]_vars

--------------------------------------------------------------------------------
TypeOK ==
    /\ config \in Configs
    /\ elapsed \in Nat /\ counter \in 0 .. (TickMod - 1)
    /\ mode \in {"EM0", "EM1", "EM2"} /\ em1 \in Nat /\ stackNeeds \in 0 .. MaxStack
    /\ app \in BOOLEAN /\ receiving \in BOOLEAN

(* The time of the log is the true time, reduced to the clock's period, in  *)
(* whatever mode the processor slept and however often the counter wrapped  *)
(* (app.c:17-19; ScanTracker's UptimeMs with this ClockPeriod).             *)
UptimeFaithful == UptimeMs = ((elapsed * MsPerSecond) \div Rate(config)) % ClockPeriod

(* The probe can read the log at any time: the requirement of app_init      *)
(* outlives all that the radio and the stack add and remove (app.c:70-72).  *)
ProbeReadable == app /\ config.logging => mode # "EM2"

(* Every branch ends at an oscillator that is set up and, if it is locked   *)
(* by the DPLL, has the frequency announced: the two files resolve AUTO     *)
(* each on its own and agree (oscillator_config.h:43-47, 187-199,           *)
(* tree_config.h:49-53).                                                    *)
BranchesClocked == \A b \in Branches : Available(config, Oscillator(config, b))

================================================================================
