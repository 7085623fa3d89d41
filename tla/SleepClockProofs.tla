--------------------------- MODULE SleepClockProofs ---------------------------
(***************************************************************************)
(* Proofs about SleepClock for every set of legal configurations, every    *)
(* width of the sleeptimer's counter and every rate of its oscillator.     *)
(***************************************************************************)
EXTENDS SleepClock, TLAPS

--------------------------------------------------------------------------------
(* Arithmetic. *)

(* A remainder identifies a number.                                         *)
LEMMA QuotientUnique ==
    ASSUME NEW d \in Nat \ {0}, NEW q \in Nat, NEW r \in 0 .. (d - 1),
           NEW k \in Nat, NEW s \in 0 .. (d - 1), q * d + r = k * d + s
    PROVE  q = k /\ r = s
<1>1. CASE q > k
  <2>1. q * d >= k * d + d
    BY <1>1
  <2> QED BY <2>1
<1>2. CASE q < k
  <2>1. k * d >= q * d + d
    BY <1>2
  <2> QED BY <2>1
<1>3. CASE q = k
  BY <1>3
<1> QED BY <1>1, <1>2, <1>3

LEMMA Division ==
    ASSUME NEW x \in Nat, NEW d \in Nat \ {0}
    PROVE  /\ x \div d \in Nat /\ x % d \in 0 .. (d - 1)
           /\ x = (x \div d) * d + (x % d)
<1>a. x \div d \in Int
  OBVIOUS
<1>b. x % d \in Int /\ x % d >= 0 /\ x % d < d
  OBVIOUS
<1>1. x \div d \in Int /\ x % d \in 0 .. (d - 1)
  BY <1>a, <1>b
<1>2. x = (x \div d) * d + (x % d)
  OBVIOUS
<1>3. x \div d \in Nat
  <2> DEFINE q == x \div d
             r == x % d
  <2>1. q \in Int /\ r \in 0 .. (d - 1) /\ x = q * d + r
    BY <1>1, <1>2
  <2> HIDE DEF q, r
  <2>2. CASE q <= -1
    <3>1. q * d <= -d
      BY <2>1, <2>2
    <3>2. q * d \in Int
      BY <2>1
    <3> QED BY <2>1, <3>1, <3>2
  <2>3. q \in Nat
    BY <2>1, <2>2
  <2> QED BY <2>3 DEF q
<1> QED BY <1>1, <1>2, <1>3

LEMMA DivisionUnique ==
    ASSUME NEW d \in Nat \ {0}, NEW k \in Nat, NEW s \in 0 .. (d - 1)
    PROVE  (k * d + s) \div d = k /\ (k * d + s) % d = s
<1>1. k * d \in Nat
  OBVIOUS
<1>2. k * d + s \in Nat
  BY <1>1
<1> DEFINE x == k * d + s
           q == x \div d
           r == x % d
<1>3. q \in Nat /\ r \in 0 .. (d - 1) /\ x = q * d + r
  BY <1>2, Division
<1>4. q * d + r = k * d + s
  BY <1>3
<1> HIDE DEF q, r
<1>5. q = k /\ r = s
  BY <1>3, <1>4, QuotientUnique
<1> QED BY <1>5 DEF q, r

(* A counter of t ticks modulo n, converted at m units per r ticks, gives   *)
(* the time in units modulo the units the counter's period takes, if that   *)
(* is a whole number of units.                                              *)
TimeReduced(t, n, m, r) ==
    ((t % n) * m) \div r = ((t * m) \div r) % ((n * m) \div r)
WholePeriod(n, m, r) == (n * m) % r = 0

LEMMA ReducedTime ==
    ASSUME NEW t \in Nat, NEW n \in Nat \ {0}, NEW m \in Nat \ {0}, NEW r \in Nat \ {0},
           WholePeriod(n, m, r)
    PROVE  TimeReduced(t, n, m, r)
<1> DEFINE q == t \div n
           c == t % n
           p == (n * m) \div r
           k == (c * m) \div r
           e == (c * m) % r
<1>1. q \in Nat /\ c \in 0 .. (n - 1) /\ t = q * n + c
  BY Division
<1> HIDE DEF q, c
<1>2. n * m \in Nat /\ c * m \in Nat
  BY <1>1
<1>3. p \in Nat /\ n * m = p * r
  <2>1. p \in Nat /\ n * m = p * r + ((n * m) % r)
    BY <1>2, Division
  <2> HIDE DEF p
  <2>2. p * r \in Nat
    BY <2>1
  <2> QED BY <2>1, <2>2 DEF WholePeriod
<1>4. k \in Nat /\ e \in 0 .. (r - 1) /\ c * m = k * r + e
  BY <1>2, Division
<1> HIDE DEF p, k, e
<1>5. k < p
  <2>1. c * m < n * m
    BY <1>1
  <2>2. k * r < p * r
    <3>1. k * r \in Nat /\ p * r \in Nat
      BY <1>3, <1>4
    <3> QED BY <1>3, <1>4, <2>1, <3>1
  <2>3. ~(k >= p)
    <3>1. k >= p => k * r >= p * r
      BY <1>3, <1>4
    <3>2. k * r \in Nat /\ p * r \in Nat
      BY <1>3, <1>4
    <3> QED BY <2>2, <3>1, <3>2
  <2> QED BY <1>3, <1>4, <2>3
<1>6. t * m = (q * p + k) * r + e
  <2>1. t * m = q * (n * m) + c * m
    BY <1>1
  <2>2. q * (n * m) = (q * p) * r
    BY <1>1, <1>3
  <2>3. (q * p + k) * r = (q * p) * r + k * r
    <3>1. q * p \in Nat
      BY <1>1, <1>3
    <3> QED BY <3>1, <1>4
  <2>4. q * p \in Nat /\ (q * p) * r \in Nat /\ k * r \in Nat
    BY <1>1, <1>3, <1>4
  <2> QED BY <1>4, <2>1, <2>2, <2>3, <2>4
<1>7. q * p + k \in Nat
  BY <1>1, <1>3, <1>4
<1>8. (t * m) \div r = q * p + k
  BY <1>4, <1>6, <1>7, DivisionUnique
<1>9. (q * p + k) % p = k
  BY <1>1, <1>3, <1>4, <1>5, DivisionUnique
<1> QED BY <1>8, <1>9 DEF TimeReduced, c, p, k

--------------------------------------------------------------------------------
(* The inductive invariant: the counter is the true time reduced, and the   *)
(* power manager counts exactly the requirements that are in force.         *)
CountExact ==
    em1 = stackNeeds + (IF receiving THEN 1 ELSE 0)
                     + (IF app /\ config.logging THEN 1 ELSE 0)

SleepInv ==
    /\ TypeOK
    /\ counter = elapsed % TickMod
    /\ CountExact
    /\ ~app => mode = "EM0"
    /\ receiving => app /\ config.rail
    /\ mode = "EM2" => em1 = 0 /\ StackAllowsEm2(config)

(* The timer's oscillator is a low-frequency one: it runs in every mode.    *)
LEMMA TimerRuns == config \in Configs => Runs(TimerOscillator(config), mode)
BY ClockAssumption DEF Runs

LEMMA SleepInit == Init => SleepInv
<1>1. TickMod \in Nat \ {0}
  BY ClockAssumption
<1>2. 0 % TickMod = 0 /\ 0 \in 0 .. (TickMod - 1)
  BY <1>1
<1>3. MaxStack \in Nat
  BY ClockAssumption
<1> SUFFICES ASSUME Init PROVE SleepInv
  OBVIOUS
<1>4. TypeOK
  <2>1. 0 \in Nat /\ 0 \in 0 .. MaxStack
    BY <1>3
  <2> QED BY <1>2, <2>1 DEF Init, TypeOK
<1>5. CountExact
  BY DEF Init, CountExact
<1>6. counter = elapsed % TickMod
  BY <1>2 DEF Init
<1> QED BY <1>4, <1>5, <1>6 DEF Init, SleepInv

LEMMA TickCounts ==
    ASSUME NEW n \in Nat
    PROVE  ((n % TickMod) + 1) % TickMod = (n + 1) % TickMod
<1> DEFINE q == n \div TickMod
           c == n % TickMod
<1>1. q \in Nat /\ c \in 0 .. (TickMod - 1) /\ n = q * TickMod + c
  BY Division, ClockAssumption
<1>2. TickMod \in Nat \ {0}
  BY ClockAssumption
<1> HIDE DEF q, c
<1>3. CASE c < TickMod - 1
  <2>1. c + 1 \in 0 .. (TickMod - 1) /\ n + 1 = q * TickMod + (c + 1)
    <3>1. q * TickMod \in Nat
      BY <1>1, <1>2
    <3> QED BY <1>1, <1>2, <1>3, <3>1
  <2>2. (n + 1) % TickMod = c + 1
    BY <1>1, <1>2, <2>1, DivisionUnique
  <2>3. (c + 1) % TickMod = c + 1
    BY <1>1, <1>2, <2>1
  <2> QED BY <2>2, <2>3 DEF c
<1>4. CASE c = TickMod - 1
  <2>1. n + 1 = (q + 1) * TickMod + 0
    <3>1. (q + 1) * TickMod = q * TickMod + TickMod
      BY <1>1, <1>2
    <3>2. q * TickMod \in Nat
      BY <1>1, <1>2
    <3> QED BY <1>1, <1>2, <1>4, <3>1, <3>2
  <2>2. (n + 1) % TickMod = 0
    <3>1. q + 1 \in Nat /\ 0 \in 0 .. (TickMod - 1)
      BY <1>1, <1>2
    <3> QED BY <1>2, <2>1, <3>1, DivisionUnique
  <2>3. (c + 1) % TickMod = 0
    BY <1>2, <1>4
  <2> QED BY <2>2, <2>3 DEF c
<1> QED BY <1>1, <1>2, <1>3, <1>4

LEMMA SleepStep == SleepInv /\ [Next]_vars => SleepInv'
<1> SUFFICES ASSUME SleepInv, [Next]_vars PROVE SleepInv'
  OBVIOUS
<1> USE DEF SleepInv, TypeOK, CountExact
<1>0. config.logging \in BOOLEAN /\ config.rail \in BOOLEAN
  BY ClockAssumption DEF Legal
<1>1. CASE AppInit
  BY <1>0, <1>1 DEF AppInit
<1>2. CASE RadioStart
  BY <1>0, <1>2 DEF RadioStart
<1>3. CASE RadioStop
  <2>1. /\ receiving' = FALSE /\ em1' = em1 - 1 /\ mode' = "EM0"
        /\ UNCHANGED <<config, elapsed, counter, app, stackNeeds>>
    BY <1>3 DEF RadioStop, RemoveRequirement
  <2>2. em1 = stackNeeds + 1 + (IF app /\ config.logging THEN 1 ELSE 0)
    BY <1>3, ClockAssumption DEF RadioStop
  <2>3. stackNeeds \in Nat
    BY ClockAssumption
  <2>4. /\ em1' = stackNeeds + (IF app /\ config.logging THEN 1 ELSE 0)
        /\ em1' \in Nat
    BY <2>1, <2>2, <2>3
  <2>5. TypeOK'
    BY <2>1, <2>4
  <2>6. CountExact'
    BY <2>1, <2>4
  <2> QED BY <2>1, <2>5, <2>6
<1>4. CASE StackAdds
  BY <1>0, <1>4, ClockAssumption DEF StackAdds
<1>5. CASE StackRemoves
  BY <1>0, <1>5, ClockAssumption DEF StackRemoves, RemoveRequirement
<1>6. CASE Sleep
  <2>1. mode' \in {"EM1", "EM2"} /\ (mode' = "EM2" => ~(em1 > 0) /\ StackAllowsEm2(config))
    BY <1>6 DEF Sleep
  <2>2. UNCHANGED <<config, elapsed, counter, em1, app, receiving, stackNeeds>> /\ app
    BY <1>6 DEF Sleep
  <2>3. StackAllowsEm2(config)' <=> StackAllowsEm2(config)
    BY <2>2
  <2> QED BY <1>0, <2>1, <2>2, <2>3
<1>7. CASE Wake
  BY <1>0, <1>7 DEF Wake
<1>8. CASE Tick
  <2>1. elapsed' = elapsed + 1 /\ UNCHANGED <<config, mode, em1, app, receiving, stackNeeds>>
    BY <1>8 DEF Tick
  <2>2. counter' = (counter + 1) % TickMod
    BY <1>8, TimerRuns DEF Tick
  <2>3. counter' = elapsed' % TickMod
    BY <2>1, <2>2, TickCounts
  <2>4. elapsed' \in Nat /\ counter' \in 0 .. (TickMod - 1)
    BY <2>1, <2>3, Division, ClockAssumption
  <2>5. StackAllowsEm2(config)' <=> StackAllowsEm2(config)
    BY <2>1
  <2> QED BY <1>0, <2>1, <2>3, <2>4, <2>5
<1>9. CASE UNCHANGED vars
  BY <1>9 DEF vars
<1> QED BY <1>1, <1>2, <1>3, <1>4, <1>5, <1>6, <1>7, <1>8, <1>9 DEF Next

LEMMA SleepInvariant == Spec => []SleepInv
BY SleepInit, SleepStep, PTL DEF Spec

--------------------------------------------------------------------------------
(* The counter keeps its width, requirements are never negative.            *)
THEOREM SleepTypeCorrect == Spec => []TypeOK
<1>1. SleepInv => TypeOK
  BY DEF SleepInv
<1> QED BY <1>1, SleepInvariant, PTL

(* For every width of the counter and every rate, the time of the log is    *)
(* the true time reduced to the period of the clock (app.c:17-19).          *)
THEOREM UptimeIsFaithful == Spec => []UptimeFaithful
<1>1. SleepInv => UptimeFaithful
  <2> SUFFICES ASSUME SleepInv PROVE UptimeFaithful
    OBVIOUS
  <2>1. /\ elapsed \in Nat /\ counter = elapsed % TickMod /\ config \in Configs
    BY DEF SleepInv, TypeOK
  <2>2. /\ TickMod \in Nat \ {0} /\ MsPerSecond \in Nat \ {0}
        /\ Rate(config) \in Nat \ {0} /\ WholePeriod(TickMod, MsPerSecond, Rate(config))
    BY <2>1, ClockAssumption DEF WholePeriod
  <2>3. TimeReduced(elapsed, TickMod, MsPerSecond, Rate(config))
    BY <2>1, <2>2, ReducedTime
  <2> QED BY <2>1, <2>3 DEF TimeReduced, UptimeFaithful, UptimeMs, TickToMs, ClockPeriod
<1> QED BY <1>1, SleepInvariant, PTL

(* Whatever the radio and the stack add and remove, the requirement of the  *)
(* logging build keeps the processor in EM1 or above (app.c:70-72).         *)
THEOREM ProbeStaysReadable == Spec => []ProbeReadable
<1>1. SleepInv => ProbeReadable
  BY ClockAssumption DEF SleepInv, TypeOK, CountExact, ProbeReadable
<1> QED BY <1>1, SleepInvariant, PTL

--------------------------------------------------------------------------------
(* The clock tree. *)

(* A setting names an oscillator as a source.                               *)
Names(c, osc) == osc \in {c.default.HF, c.default.LF} \/ \E b \in Branches : c.source[b] = osc

(* What is named is enabled, the crystal is not disabled where the radio    *)
(* makes it the default, and the DPLL, if used, is set up for the frequency *)
(* announced.  Nothing is said of what AUTO stands for in either file.      *)
Sensible(c) ==
    /\ Names(c, "HFXO") => HfxoEnabled(c)
    /\ Names(c, "LFXO") => c.osc.LFXO_EN
    /\ c.default.HF = "AUTO" /\ c.rail => c.osc.HFXO_EN # "DISABLE"
    /\ c.osc.DPLL_EN => /\ c.osc.DPLL_REFCLK = "HFXO" /\ HfxoEnabled(c)
                        /\ HfrcoFreq(c) = c.osc.DPLL_FREQ

(* The crystal is there where AUTO chooses it.                              *)
LEMMA DefaultAvailable ==
    ASSUME NEW c, Legal(c), Sensible(c)
    PROVE  Available(c, DefaultHf(c)) /\ Available(c, c.default.LF)
<1>1. Available(c, "HFRCODPLL")
  BY DEF Sensible, Available
<1>2. CASE c.default.HF = "AUTO"
  <2>1. DefaultHf(c) = IF c.rail THEN "HFXO" ELSE "HFRCODPLL"
    BY <1>2 DEF DefaultHf
  <2>2. c.osc.HFXO_EN \in HfxoModes
    <3>1. c.osc \in OscillatorSettings
      BY DEF Legal
    <3> QED BY <3>1 DEF OscillatorSettings
  <2>3. c.rail => HfxoEnabled(c)
    BY <1>2, <2>2 DEF Sensible, HfxoModes, HfxoEnabled
  <2>4. c.rail => Available(c, "HFXO")
    BY <2>3 DEF Available
  <2>5. Available(c, DefaultHf(c))
    BY <1>1, <2>1, <2>4
  <2> QED BY <2>5, <1>1 DEF Sensible, Names, Available
<1>3. CASE c.default.HF # "AUTO"
  BY <1>1, <1>3 DEF DefaultHf, Sensible, Names, Available
<1> QED BY <1>2, <1>3

(* One step up the tree from what is available leads to what is available.  *)
LEMMA FeedAvailable ==
    ASSUME NEW c, Legal(c), Sensible(c), NEW x, Available(c, x)
    PROVE  Available(c, Feed(c, x))
<1>1. CASE x \notin Branches
  BY <1>1 DEF Feed
<1>2. CASE x \in Branches
  <2>1. CASE c.source[x] = "DEFAULT_HF"
    BY <1>2, <2>1, DefaultAvailable DEF Feed
  <2>2. CASE c.source[x] = "DEFAULT_LF"
    BY <1>2, <2>2, DefaultAvailable DEF Feed
  <2>3. CASE c.source[x] \notin {"DEFAULT_HF", "DEFAULT_LF"}
    <3>1. Feed(c, x) = c.source[x]
      BY <1>2, <2>3 DEF Feed
    <3> QED BY <1>2, <3>1 DEF Sensible, Names, Available
  <2> QED BY <2>1, <2>2, <2>3
<1> QED BY <1>1, <1>2

(* In every configuration in which what is named is enabled, each branch is *)
(* fed by an oscillator that is set up: the two clock manager headers agree *)
(* on what AUTO stands for (oscillator_config.h:43-47, 187-199,             *)
(* tree_config.h:49-53).                                                    *)
THEOREM BranchesAreClocked ==
    ASSUME \A c \in Configs : Sensible(c)
    PROVE  Spec => []BranchesClocked
<1>1. \A b \in Branches : Available(config, b)
  BY DEF Branches, Available
<1>2. SleepInv => BranchesClocked
  <2> SUFFICES ASSUME SleepInv, NEW b \in Branches PROVE Available(config, Oscillator(config, b))
    BY DEF BranchesClocked
  <2>1. Legal(config) /\ Sensible(config)
    BY ClockAssumption DEF SleepInv, TypeOK
  <2>2. Available(config, Feed(config, b))
    BY <1>1, <2>1, FeedAvailable
  <2>3. Available(config, Feed(config, Feed(config, b)))
    BY <2>1, <2>2, FeedAvailable
  <2>4. Available(config, Feed(config, Feed(config, Feed(config, b))))
    BY <2>1, <2>3, FeedAvailable
  <2> QED BY <2>4 DEF Oscillator
<1> QED BY <1>2, SleepInvariant, PTL
================================================================================
