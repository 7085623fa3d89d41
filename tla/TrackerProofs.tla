------------------------------ MODULE TrackerProofs ------------------------------
(***************************************************************************)
(* Theorems about the tracker, for every capacity, clock width, set of     *)
(* intervals and set of devices.  The first part is about ScanTracker by   *)
(* itself, with any clock.  The second part proves the promises of the     *)
(* log, TrackerHistory, when the clock counts through all its values       *)
(* (ClockPeriod = UINT_MOD).  The third shows that the tracker implements  *)
(* the abstract log ScanLog, and that the counts of the summary are those  *)
(* of what happened.                                                       *)
(***************************************************************************)
EXTENDS TrackerRefinement, FiniteSetTheorems, FunctionTheorems, TLAPS

--------------------------------------------------------------------------------
(* Facts about arithmetic modulo UINT_MOD, for every width.                 *)

(* A multiple of a positive number smaller than it in magnitude is zero. *)
LEMMA SmallMultiple ==
    ASSUME NEW k \in Int, NEW r \in Uint, NEW s \in Uint, r - s = k * UINT_MOD
    PROVE  r = s
<1>1. CASE k = 0
  BY <1>1, UintAssumption DEF Uint
<1>2. CASE k >= 1
  <2>1. k * UINT_MOD >= UINT_MOD
    BY <1>2, UintAssumption
  <2> QED BY <2>1, UintAssumption DEF Uint
<1>3. CASE k <= -1
  <2>1. k * UINT_MOD <= -UINT_MOD
    BY <1>3, UintAssumption
  <2> QED BY <2>1, UintAssumption DEF Uint
<1> QED BY <1>1, <1>2, <1>3

LEMMA ModRange == \A x \in Int : x % UINT_MOD \in Uint
BY UintAssumption DEF Uint

LEMMA ModDivision ==
    \A x \in Int : x = (x \div UINT_MOD) * UINT_MOD + (x % UINT_MOD) /\ x \div UINT_MOD \in Int
BY UintAssumption

LEMMA Distribute ==
    ASSUME NEW a \in Int, NEW b \in Int
    PROVE  /\ (a + b) * UINT_MOD = a * UINT_MOD + b * UINT_MOD
           /\ (a - b) * UINT_MOD = a * UINT_MOD - b * UINT_MOD
           /\ a * UINT_MOD \in Int
BY UintAssumption

(* Two numbers congruent modulo UINT_MOD have the same remainder. *)
LEMMA ModCongruent ==
    ASSUME NEW x \in Int, NEW y \in Int, NEW q \in Int, x = y + q * UINT_MOD
    PROVE  x % UINT_MOD = y % UINT_MOD
<1> DEFINE m == x \div UINT_MOD
           n == y \div UINT_MOD
           r == x % UINT_MOD
           s == y % UINT_MOD
<1>1. m \in Int /\ n \in Int /\ r \in Uint /\ s \in Uint /\ r \in Int /\ s \in Int
  BY ModRange, ModDivision DEF Uint
<1>2. x = m * UINT_MOD + r /\ y = n * UINT_MOD + s
  BY ModDivision
<1> HIDE DEF m, n, r, s
<1>3. q + n \in Int /\ (q + n) - m \in Int
  BY <1>1
<1>4. ((q + n) - m) * UINT_MOD = (q * UINT_MOD + n * UINT_MOD) - m * UINT_MOD
  BY <1>1, <1>3, Distribute
<1>5. q * UINT_MOD \in Int /\ n * UINT_MOD \in Int /\ m * UINT_MOD \in Int
  BY <1>1, Distribute
<1>6. r - s = (q * UINT_MOD + n * UINT_MOD) - m * UINT_MOD
  <2> DEFINE a == q * UINT_MOD
             b == n * UINT_MOD
             c == m * UINT_MOD
  <2>1. a \in Int /\ b \in Int /\ c \in Int
    BY <1>5
  <2>2. x = c + r /\ y = b + s /\ x = y + a
    BY <1>2
  <2> HIDE DEF a, b, c
  <2>3. r - s = (a + b) - c
    BY <1>1, <2>1, <2>2
  <2> QED BY <2>3 DEF a, b, c
<1>7. r = s
  BY <1>1, <1>3, <1>4, <1>6, SmallMultiple
<1> QED BY <1>7 DEF r, s

LEMMA ModSmall == \A x \in Uint : x % UINT_MOD = x
BY UintAssumption DEF Uint

(* A reduced operand of a sum or a difference gives the same result as the  *)
(* operand itself.                                                          *)
LEMMA ModSum ==
    ASSUME NEW x \in Int, NEW y \in Int
    PROVE  /\ ((x % UINT_MOD) + y) % UINT_MOD = (x + y) % UINT_MOD
           /\ (x + (y % UINT_MOD)) % UINT_MOD = (x + y) % UINT_MOD
<1> DEFINE p == x \div UINT_MOD
           q == y \div UINT_MOD
           r == x % UINT_MOD
           s == y % UINT_MOD
<1>1. p \in Int /\ q \in Int /\ r \in Int /\ s \in Int
  BY ModRange, ModDivision DEF Uint
<1>2. x = p * UINT_MOD + r /\ y = q * UINT_MOD + s
  BY ModDivision
<1> HIDE DEF p, q, r, s
<1>3. x + y = (r + y) + p * UINT_MOD
  <2> DEFINE a == p * UINT_MOD
  <2>1. a \in Int /\ x = a + r
    BY <1>1, <1>2, Distribute
  <2> HIDE DEF a
  <2>2. x + y = (r + y) + a
    BY <1>1, <2>1
  <2> QED BY <2>2 DEF a
<1>4. x + y = (x + s) + q * UINT_MOD
  <2> DEFINE a == q * UINT_MOD
  <2>1. a \in Int /\ y = a + s
    BY <1>1, <1>2, Distribute
  <2> HIDE DEF a
  <2>2. x + y = (x + s) + a
    BY <1>1, <2>1
  <2> QED BY <2>2 DEF a
<1>5. x + y \in Int /\ r + y \in Int /\ x + s \in Int
  BY <1>1
<1>6. (x + y) % UINT_MOD = (r + y) % UINT_MOD
  BY <1>1, <1>3, <1>5, ModCongruent
<1>7. (x + y) % UINT_MOD = (x + s) % UINT_MOD
  BY <1>1, <1>4, <1>5, ModCongruent
<1> QED BY <1>6, <1>7 DEF r, s

LEMMA ModDifference ==
    ASSUME NEW x \in Int, NEW y \in Int
    PROVE  ((x % UINT_MOD) - (y % UINT_MOD)) % UINT_MOD = (x - y) % UINT_MOD
<1> DEFINE q == y \div UINT_MOD
           s == y % UINT_MOD
<1>1. q \in Int /\ s \in Int /\ -s \in Int
  BY ModRange, ModDivision DEF Uint
<1>2. y = q * UINT_MOD + s
  BY ModDivision
<1> HIDE DEF q, s
<1>3. x - s = (x - y) + q * UINT_MOD
  <2> DEFINE a == q * UINT_MOD
  <2>1. a \in Int /\ y = a + s
    BY <1>1, <1>2, Distribute
  <2> HIDE DEF a
  <2>2. x - s = (x - y) + a
    BY <1>1, <2>1
  <2> QED BY <2>2 DEF a
<1>4. x - s \in Int /\ x - y \in Int
  BY <1>1
<1>5. (x - s) % UINT_MOD = (x - y) % UINT_MOD
  BY <1>1, <1>3, <1>4, ModCongruent
<1>6. ((x % UINT_MOD) + (-s)) % UINT_MOD = (x + (-s)) % UINT_MOD
  BY <1>1, ModSum
<1>7. (x % UINT_MOD) + (-s) = (x % UINT_MOD) - s /\ x + (-s) = x - s
  BY <1>1, ModRange DEF Uint
<1>8. ((x % UINT_MOD) - s) % UINT_MOD = (x - s) % UINT_MOD
  BY <1>6, <1>7
<1> QED BY <1>5, <1>8 DEF s

(* What elapsed_ms computes from two reduced true times is the true elapsed *)
(* time reduced, hence never more than it, and exact below UINT_MOD.        *)
LEMMA ElapsedTrue ==
    ASSUME NEW t \in Nat, NEW s \in Nat, s <= t
    PROVE  /\ ElapsedMs(t % UINT_MOD, s % UINT_MOD) = (t - s) % UINT_MOD
           /\ ElapsedMs(t % UINT_MOD, s % UINT_MOD) <= t - s
           /\ t - s < UINT_MOD => ElapsedMs(t % UINT_MOD, s % UINT_MOD) = t - s
<1>1. ElapsedMs(t % UINT_MOD, s % UINT_MOD) = (t - s) % UINT_MOD
  BY ModDifference DEF ElapsedMs
<1>2. \A d \in Nat : d % UINT_MOD <= d /\ (d < UINT_MOD => d % UINT_MOD = d)
  BY UintAssumption
<1>3. t - s \in Nat
  OBVIOUS
<1> QED BY <1>1, <1>2, <1>3

--------------------------------------------------------------------------------
(* The tracker. *)

(* The arithmetic of UintArith stays within the width of a uint32_t. *)
LEMMA UintClosed ==
    /\ \A a, b \in Int : ElapsedMs(a, b) \in Uint /\ AddMs(a, b) \in Uint
    /\ \A c \in Uint : IncCounter(c) \in Uint /\ SaturatingInc(c) \in Uint
<1>1. \A x \in Int : x % UINT_MOD \in Uint
  BY UintAssumption DEF Uint
<1>2. \A c \in Uint : SaturatingInc(c) \in Uint
  BY UintAssumption DEF Uint, SaturatingInc, UINT_MAX
<1>3. \A c \in Uint : c + 1 \in Int
  BY UintAssumption DEF Uint
<1>4. \A a, b \in Int : a - b \in Int /\ a + b \in Int
  OBVIOUS
<1> QED BY <1>1, <1>2, <1>3, <1>4 DEF ElapsedMs, AddMs, IncCounter

LEMMA UptimeMsType ==
    ASSUME uptime \in Nat
    PROVE  UptimeMs \in Uint
BY ClockAssumption, UintAssumption DEF UptimeMs, Uint

LEMMA SummaryDeadlineType ==
    ASSUME UptimeMs \in Uint
    PROVE  AddMs(UptimeMs, SummaryInterval) \in Uint
<1>1. UptimeMs \in Int /\ SummaryInterval \in Int
  BY IntervalAssumption DEF Uint
<1> QED BY <1>1, UintClosed

LEMMA EmptyEntryType == EmptyEntry \in Entry
<1>1. 0 \in Uint
  BY UintAssumption DEF Uint
<1> QED BY <1>1, DataAssumption DEF EmptyEntry, Entry, Signals

LEMMA NoResultType == NoResult \in Result
<1>1. 0 \in Uint
  BY UintAssumption DEF Uint
<1> QED BY <1>1, DataAssumption DEF NoResult, Result, Signals, Reasons

LEMMA ReportType ==
    ASSUME NEW o \in Reports
    PROVE  /\ o.address \in Addresses /\ o.address_type \in AddressTypes
           /\ o.rssi \in Signals /\ o.parsed.name \in Names
           /\ o.parsed.malformed \in BOOLEAN
BY DataAssumption DEF Observations, ParsedNames, Signals

LEMMA NewEntryType ==
    ASSUME uptime \in Nat, NEW o \in Reports
    PROVE  NewEntry(o) \in Entry
<1>1. 1 \in Uint
  BY UintAssumption DEF Uint
<1> QED BY <1>1, UptimeMsType, ReportType, EmptyEntryType DEF NewEntry, Entry

LEMMA RefreshedEntryType ==
    ASSUME uptime \in Nat, NEW o \in Reports, NEW e \in Entry
    PROVE  RefreshedEntry(e, o) \in Entry
<1>1. SaturatingInc(e.report_count) \in Uint
  BY UintClosed DEF Entry
<1> QED BY <1>1, UptimeMsType, ReportType DEF RefreshedEntry, Entry

LEMMA LoggedEntryType ==
    ASSUME uptime \in Nat, NEW e \in Entry
    PROVE  LoggedEntry(e) \in Entry
BY UptimeMsType DEF LoggedEntry, Entry

LEMMA KnownReasonType ==
    ASSUME NEW e
    PROVE  KnownReason(e) \in Reasons
BY DEF KnownReason, Reasons

LEMMA BumpType ==
    ASSUME stats \in [Counters -> Uint], NEW counted
    PROVE  Bump(counted) \in [Counters -> Uint]
BY UintClosed DEF Bump

(* The common end of every report keeps the types. *)
LEMMA ConcludeType ==
    ASSUME TypeOK, NEW o \in Reports, NEW i \in Slots, NEW e \in Entry,
           NEW reason \in Reasons, NEW counted, Conclude(o, i, e, reason, counted)
    PROVE  TypeOK'
<1> DEFINE emit   == reason # "none" /\ GlobalLimitExpired
           stored == IF emit THEN LoggedEntry(e) ELSE e
<1>1. stored \in Entry
  BY LoggedEntryType DEF TypeOK
<1>2. entries' \in [Slots -> Entry]
  BY <1>1 DEF Conclude, TypeOK
<1>3. stats' \in [Counters -> Uint]
  BY BumpType DEF Conclude, TypeOK
<1>4. last_log_ms' \in Uint /\ has_logged' \in BOOLEAN
  BY UptimeMsType DEF Conclude, TypeOK
<1>5. result' \in Result
  <2>1. (IF emit THEN reason ELSE "none") \in Reasons
    BY DEF Reasons
  <2> QED BY <1>1, <2>1, ReportType DEF Conclude, Result, Entry
<1> QED BY <1>2, <1>3, <1>4, <1>5 DEF Conclude, TypeOK

LEMMA TypeInit == Init => TypeOK
<1> SUFFICES ASSUME Init PROVE TypeOK
  OBVIOUS
<1>1. uptime \in Nat /\ UptimeMs \in Uint
  BY ClockAssumption, UptimeMsType DEF Init
<1>2. AddMs(UptimeMs, SummaryInterval) \in Uint /\ 0 \in Uint
  BY <1>1, SummaryDeadlineType, UintAssumption DEF Uint
<1> QED BY <1>1, <1>2, EmptyEntryType, NoResultType DEF Init, TypeOK

LEMMA TypeStep == TypeOK /\ [Next]_vars => TypeOK'
<1> SUFFICES ASSUME TypeOK, [Next]_vars PROVE TypeOK'
  OBVIOUS
<1> USE DEF TypeOK
<1>1. ASSUME NEW o \in Reports, ObserveKnown(o) PROVE TypeOK'
  <2> PICK i \in Slots : LET e == RefreshedEntry(entries[i], o)
                         IN  Conclude(o, i, e, KnownReason(e), {})
    BY <1>1 DEF ObserveKnown
  <2>1. RefreshedEntry(entries[i], o) \in Entry
    BY RefreshedEntryType
  <2> QED BY <2>1, KnownReasonType, ConcludeType
<1>2. ASSUME NEW o \in Reports, ObserveNew(o) \/ ObserveEvicting(o) PROVE TypeOK'
  <2> PICK i \in Slots, counted \in {{"discoveries", "active_devices"},
                                     {"discoveries", "cache_evictions"}} :
              Conclude(o, i, NewEntry(o), "first", counted)
    BY <1>2 DEF ObserveNew, ObserveEvicting
  <2>1. NewEntry(o) \in Entry
    BY NewEntryType
  <2> QED BY <2>1, ConcludeType DEF Reasons
<1>3. CASE AppProcessAction
  <2>1. AddMs(UptimeMs, SummaryInterval) \in Uint
    BY UptimeMsType, SummaryDeadlineType
  <2> QED BY <1>3, <2>1, NoResultType DEF AppProcessAction, SnapshotSummary
<1>4. CASE Tick
  BY <1>4, NoResultType DEF Tick
<1>5. CASE UNCHANGED vars
  BY <1>5 DEF vars
<1> QED BY <1>1, <1>2, <1>3, <1>4, <1>5 DEF Next, Observe

(* Every field of the tracker stays within its C type: counters, stored     *)
(* times and report counts never leave the uint32_t range, entries hold     *)
(* only data that came in a report or zeroes.                               *)
THEOREM TypeCorrect == Spec => []TypeOK
BY TypeInit, TypeStep, PTL DEF Spec

--------------------------------------------------------------------------------
(* The cache as a whole: its used slots are a prefix, no device owns two of *)
(* them, and the counters of discoveries agree.                             *)
SlotsInv ==
    /\ TypeOK
    /\ UniqueDevices
    /\ ActiveIsPrefix
    /\ DiscoveriesAccounted

LEMMA MatchingAreOccupied ==
    ASSUME NEW o
    PROVE  MatchingSlots(o) = {i \in Occupied : DeviceOf(entries[i]) = DeviceOf(o)}
BY DEF MatchingSlots, EntryMatches, Occupied, DeviceOf

(* What each of the three kinds of report leaves in its slot. *)
LEMMA ConcludeSlot ==
    ASSUME TypeOK, NEW o \in Reports, NEW i \in Slots, NEW e \in Entry,
           NEW reason, NEW counted, Conclude(o, i, e, reason, counted)
    PROVE  /\ entries' \in [Slots -> Entry]
           /\ entries'[i].occupied = e.occupied
           /\ DeviceOf(entries'[i]) = DeviceOf(e)
           /\ \A j \in Slots : j # i => entries'[j] = entries[j]
<1> DEFINE stored == IF reason # "none" /\ GlobalLimitExpired THEN LoggedEntry(e) ELSE e
<1>1. stored \in Entry /\ stored.occupied = e.occupied /\ DeviceOf(stored) = DeviceOf(e)
  BY LoggedEntryType DEF LoggedEntry, Entry, DeviceOf, TypeOK
<1>2. entries' = [entries EXCEPT ![i] = stored]
  BY DEF Conclude
<1> QED BY <1>1, <1>2 DEF TypeOK

LEMMA ConcludeCounters ==
    ASSUME TypeOK, NEW o \in Reports, NEW i \in Slots, NEW e, NEW reason,
           NEW counted \in SUBSET {"discoveries", "active_devices", "cache_evictions"},
           Conclude(o, i, e, reason, counted)
    PROVE  \A c \in {"discoveries", "active_devices", "cache_evictions"} :
               stats'[c] = IF c \in counted THEN IncCounter(stats[c]) ELSE stats[c]
BY DEF Conclude, Bump, Counters

LEMMA SlotsInit == Init => SlotsInv
<1> SUFFICES ASSUME Init PROVE SlotsInv
  OBVIOUS
<1>1. Occupied = {}
  BY DEF Init, Occupied, EmptyEntry
<1>2. stats["active_devices"] = 0 /\ stats["discoveries"] = 0 /\ stats["cache_evictions"] = 0
  BY DEF Init, Counters
<1>3. (0 + 0) % UINT_MOD = 0
  BY UintAssumption
<1> QED BY <1>1, <1>2, <1>3, TypeInit
        DEF SlotsInv, UniqueDevices, ActiveIsPrefix, DiscoveriesAccounted

(* A report of a tracked device keeps the slots and their devices. *)
LEMMA KnownKeepsSlots ==
    ASSUME TypeOK, NEW o \in Reports, NEW i \in Slots, i \in MatchingSlots(o),
           Conclude(o, i, RefreshedEntry(entries[i], o),
                    KnownReason(RefreshedEntry(entries[i], o)), {})
    PROVE  /\ Occupied' = Occupied
           /\ \A j \in Slots : DeviceOf(entries'[j]) = DeviceOf(entries[j])
<1> DEFINE e == RefreshedEntry(entries[i], o)
<1>1. entries[i] \in Entry /\ uptime \in Nat
  BY DEF TypeOK
<1>2. e \in Entry
  BY <1>1, RefreshedEntryType
<1>3. e.occupied = entries[i].occupied /\ DeviceOf(e) = DeviceOf(entries[i])
  BY <1>1 DEF RefreshedEntry, Entry, DeviceOf
<1> HIDE DEF e
<1>4. /\ entries'[i].occupied = entries[i].occupied
      /\ DeviceOf(entries'[i]) = DeviceOf(entries[i])
      /\ \A j \in Slots : j # i => entries'[j] = entries[j]
  BY <1>2, <1>3, ConcludeSlot DEF e
<1> QED BY <1>4 DEF Occupied

(* A report of an untracked device gives it one slot and moves no other. *)
LEMMA NewTakesSlot ==
    ASSUME TypeOK, NEW o \in Reports, NEW i \in Slots, NEW counted,
           Conclude(o, i, NewEntry(o), "first", counted)
    PROVE  /\ Occupied' = Occupied \cup {i}
           /\ DeviceOf(entries'[i]) = DeviceOf(o)
           /\ \A j \in Slots : j # i => entries'[j] = entries[j]
<1>1. NewEntry(o) \in Entry
  BY NewEntryType DEF TypeOK
<1>2. NewEntry(o).occupied = TRUE /\ DeviceOf(NewEntry(o)) = DeviceOf(o)
  BY DEF NewEntry, EmptyEntry, DeviceOf
<1>3. /\ entries'[i].occupied = TRUE
      /\ DeviceOf(entries'[i]) = DeviceOf(o)
      /\ \A j \in Slots : j # i => entries'[j] = entries[j]
  BY <1>1, <1>2, ConcludeSlot
<1> QED BY <1>3 DEF Occupied

LEMMA UniqueKept ==
    ASSUME SlotsInv, NEW o \in Reports, NEW i \in Slots, NEW counted,
           MatchingSlots(o) = {}, Conclude(o, i, NewEntry(o), "first", counted)
    PROVE  UniqueDevices'
<1>1. \A j \in Occupied : DeviceOf(entries[j]) # DeviceOf(o)
  BY MatchingAreOccupied
<1>2. /\ Occupied' = Occupied \cup {i}
      /\ DeviceOf(entries'[i]) = DeviceOf(o)
      /\ \A j \in Occupied : j # i => DeviceOf(entries'[j]) = DeviceOf(entries[j])
  BY NewTakesSlot DEF SlotsInv, Occupied
<1>3. ASSUME NEW j \in Occupied', NEW k \in Occupied',
             DeviceOf(entries'[j]) = DeviceOf(entries'[k])
      PROVE  j = k
  BY <1>1, <1>2, <1>3 DEF SlotsInv, UniqueDevices
<1> QED BY <1>3 DEF UniqueDevices, DeviceOf

LEMMA SlotsStep == SlotsInv /\ [Next]_vars => SlotsInv'
<1> SUFFICES ASSUME SlotsInv, [Next]_vars PROVE SlotsInv'
  OBVIOUS
<1> DEFINE active == stats["active_devices"]
           found  == stats["discoveries"]
           gone   == stats["cache_evictions"]
<1>1. TypeOK /\ TypeOK'
  BY TypeStep DEF SlotsInv
<1>2. active \in Uint /\ found \in Uint /\ gone \in Uint /\ active + gone \in Int
  BY <1>1, UintAssumption DEF TypeOK, Counters, Uint
<1>3. ASSUME NEW o \in Reports, ObserveKnown(o) PROVE SlotsInv'
  <2> PICK i \in Slots : /\ i \in MatchingSlots(o)
                         /\ Conclude(o, i, RefreshedEntry(entries[i], o),
                                     KnownReason(RefreshedEntry(entries[i], o)), {})
    BY <1>3 DEF ObserveKnown, IsFirst
  <2>1. Occupied' = Occupied /\ \A j \in Slots : DeviceOf(entries'[j]) = DeviceOf(entries[j])
    BY <1>1, KnownKeepsSlots
  <2>2. active' = active /\ found' = found /\ gone' = gone
    BY <1>1, ConcludeCounters
  <2>3. UniqueDevices'
    BY <2>1 DEF SlotsInv, UniqueDevices, Occupied, DeviceOf
  <2> QED BY <1>1, <2>1, <2>2, <2>3 DEF SlotsInv, ActiveIsPrefix, DiscoveriesAccounted
<1>4. ASSUME NEW o \in Reports, ObserveNew(o) PROVE SlotsInv'
  <2> PICK i \in Slots : /\ IsFirst(i, EmptySlots)
                         /\ Conclude(o, i, NewEntry(o), "first",
                                     {"discoveries", "active_devices"})
    BY <1>4 DEF ObserveNew
  <2>1. Occupied' = Occupied \cup {i}
    BY <1>1, NewTakesSlot
  <2>2. active' = IncCounter(active) /\ found' = IncCounter(found) /\ gone' = gone
    BY <1>1, ConcludeCounters
  <2>3. i = active
    <3>1. Occupied = 0 .. (active - 1) /\ EmptySlots = Slots \ Occupied
      BY DEF SlotsInv, ActiveIsPrefix, EmptySlots, Occupied
    <3>2. i \in Slots /\ i \notin Occupied /\ \A j \in Slots \ Occupied : i <= j
      BY <3>1 DEF IsFirst
    <3>3. i >= active
      BY <3>1, <3>2, <1>2, CapacityAssumption DEF Slots, Uint
    <3>4. active \in Slots \ Occupied
      BY <3>1, <3>2, <3>3, <1>2, CapacityAssumption DEF Slots, Uint
    <3> QED BY <3>2, <3>3, <3>4, CapacityAssumption, <1>2 DEF Slots, Uint
  <2>4. active' = active + 1
    <3>1. active + 1 \in Uint
      BY <2>3, <1>2, CapacityAssumption, UintAssumption DEF Slots, Uint
    <3> QED BY <2>2, <3>1, ModSmall DEF IncCounter
  <2>5. ActiveIsPrefix'
    <3>1. Occupied' = 0 .. ((active + 1) - 1)
      BY <2>1, <2>3, <1>2 DEF SlotsInv, ActiveIsPrefix, Uint
    <3> QED BY <3>1, <2>4 DEF ActiveIsPrefix
  <2>6. DiscoveriesAccounted'
    <3>1. found' = (((active + gone) % UINT_MOD) + 1) % UINT_MOD
      BY <2>2 DEF IncCounter, SlotsInv, DiscoveriesAccounted
    <3>2. found' = ((active + gone) + 1) % UINT_MOD
      BY <3>1, <1>2, ModSum
    <3>3. (active + gone) + 1 = active' + gone'
      BY <2>2, <2>4, <1>2 DEF Uint
    <3> QED BY <3>2, <3>3 DEF DiscoveriesAccounted
  <2>7. UniqueDevices'
    BY <1>4, UniqueKept DEF ObserveNew
  <2> QED BY <1>1, <2>5, <2>6, <2>7 DEF SlotsInv
<1>5. ASSUME NEW o \in Reports, ObserveEvicting(o) PROVE SlotsInv'
  <2> PICK i \in Slots : Conclude(o, i, NewEntry(o), "first",
                                  {"discoveries", "cache_evictions"})
    BY <1>5 DEF ObserveEvicting
  <2>1. Occupied' = Occupied
    <3>1. i \in Occupied
      BY <1>5 DEF ObserveEvicting, EmptySlots, Occupied
    <3> QED BY <3>1, <1>1, NewTakesSlot
  <2>2. active' = active /\ found' = IncCounter(found) /\ gone' = IncCounter(gone)
    BY <1>1, ConcludeCounters
  <2>3. DiscoveriesAccounted'
    <3>1. found' = (((active + gone) % UINT_MOD) + 1) % UINT_MOD
      BY <2>2 DEF IncCounter, SlotsInv, DiscoveriesAccounted
    <3>2. found' = ((active + gone) + 1) % UINT_MOD
      BY <3>1, <1>2, ModSum
    <3>3. (active + ((gone + 1) % UINT_MOD)) % UINT_MOD = (active + (gone + 1)) % UINT_MOD
      <4>1. active \in Int /\ gone + 1 \in Int
        BY <1>2 DEF Uint
      <4> QED BY <4>1, ModSum
    <3>4. active + (gone + 1) = (active + gone) + 1
      BY <1>2 DEF Uint
    <3> QED BY <2>2, <3>2, <3>3, <3>4 DEF DiscoveriesAccounted, IncCounter
  <2>4. UniqueDevices'
    BY <1>5, UniqueKept DEF ObserveEvicting
  <2> QED BY <1>1, <2>1, <2>2, <2>3, <2>4 DEF SlotsInv, ActiveIsPrefix
<1>6. CASE UNCHANGED <<entries, stats>>
  BY <1>1, <1>6
     DEF SlotsInv, UniqueDevices, ActiveIsPrefix, DiscoveriesAccounted, Occupied, DeviceOf
<1>7. AppProcessAction \/ Tick \/ UNCHANGED vars => UNCHANGED <<entries, stats>>
  BY DEF AppProcessAction, SnapshotSummary, Tick, vars
<1> QED BY <1>3, <1>4, <1>5, <1>6, <1>7 DEF Next, Observe

LEMMA SlotsAlways == Spec => []SlotsInv
BY SlotsInit, SlotsStep, PTL DEF Spec

(* No device ever owns two slots, whatever was evicted in between, so its   *)
(* reports always find the one entry that holds its history.                *)
THEOREM DevicesUnique == Spec => []UniqueDevices
<1>1. SlotsInv => UniqueDevices
  BY DEF SlotsInv
<1> QED BY <1>1, SlotsAlways, PTL

(* active_devices is the number of used slots, which are always the first   *)
(* ones: it never passes the capacity, and no eviction leaks a slot.        *)
THEOREM ActiveDevicesExact == Spec => []ActiveIsPrefix
<1>1. SlotsInv => ActiveIsPrefix
  BY DEF SlotsInv
<1> QED BY <1>1, SlotsAlways, PTL

(* discoveries = active + evictions modulo the counter width, for ever.     *)
THEOREM DiscoveriesExact == Spec => []DiscoveriesAccounted
<1>1. SlotsInv => DiscoveriesAccounted
  BY DEF SlotsInv
<1> QED BY <1>1, SlotsAlways, PTL

--------------------------------------------------------------------------------
(* The promises of the log.                                                 *)

(* A stored time is the true time of what it records, reduced to the clock. *)
StoredAs(ms, at) == at \in 0 .. uptime /\ ms = at % UINT_MOD

GlobalLineLinked ==
    /\ has_logged <=> lineAt # Never
    /\ has_logged => StoredAs(last_log_ms, lineAt)

SummaryLinked ==
    /\ summaryAt <= uptime
    /\ next_summary_ms = (summaryAt + SummaryInterval) % UINT_MOD

(* Entry e holds what the records h (heard) and s (shown) of its device say. *)
OwnEntry(e, h, s) ==
    /\ e.name = h.name
    /\ e.report_count = IF h.reports < UINT_MAX THEN h.reports ELSE UINT_MAX
    /\ StoredAs(e.last_seen_ms, h.at)
    /\ e.logged <=> s.at # Never
    /\ e.logged => StoredAs(e.last_logged_ms, s.at)
    /\ e.last_logged_name = s.name /\ e.last_logged_rssi = s.rssi

EntriesLinked ==
    \A i \in Occupied :
        OwnEntry(entries[i], heard[DeviceOf(entries[i])], shown[DeviceOf(entries[i])])

UntrackedForgotten ==
    \A x \in Device \ Tracked : heard[x] = Unheard /\ shown[x] = Unshown

(* The inductive invariant. *)
HistoryInv ==
    /\ SlotsInv
    /\ HistoryTypeOK
    /\ GlobalLineLinked
    /\ SummaryLinked
    /\ EntriesLinked
    /\ UntrackedForgotten

--------------------------------------------------------------------------------
(* The clock counts through all UINT_MOD values before it wraps. *)
WholeClock == ClockPeriod = UINT_MOD

LEMMA ClockStored ==
    ASSUME WholeClock, uptime \in Nat
    PROVE  StoredAs(UptimeMs, uptime)
BY DEF WholeClock, UptimeMs, StoredAs

(* What the code computes from a stored time is the true elapsed time, as   *)
(* long as that is below UINT_MOD, and never more than it.                  *)
LEMMA StoredElapsed ==
    ASSUME WholeClock, uptime \in Nat, NEW ms, NEW at, StoredAs(ms, at)
    PROVE  /\ ElapsedMs(UptimeMs, ms) \in Nat
           /\ ElapsedMs(UptimeMs, ms) <= uptime - at
           /\ uptime - at < UINT_MOD => ElapsedMs(UptimeMs, ms) = uptime - at
<1>1. at \in Nat /\ at <= uptime /\ ms = at % UINT_MOD /\ UptimeMs = uptime % UINT_MOD
  BY DEF StoredAs, WholeClock, UptimeMs
<1>2. ElapsedMs(UptimeMs, ms) \in Uint
  <2>1. UptimeMs \in Int /\ ms \in Int
    BY <1>1, ModRange DEF Uint
  <2> QED BY <2>1, UintClosed
<1> QED BY <1>1, <1>2, ElapsedTrue DEF Uint

LEMMA StoredLater ==
    ASSUME uptime \in Nat, uptime' \in Nat, uptime <= uptime',
           NEW ms, NEW at, StoredAs(ms, at)
    PROVE  StoredAs(ms, at)'
BY DEF StoredAs

LEMMA CounterMoves == \A c \in Uint : IncCounter(c) # c
BY UintAssumption DEF IncCounter, Uint

LEMMA ReportDevice ==
    ASSUME NEW o \in Reports
    PROVE  DeviceOf(o) \in Device
BY ReportType DEF DeviceOf, Device

(* The record of a device after the report o of it. *)
HeardNow(o) ==
    [at      |-> uptime,
     name    |-> IF o.parsed.present THEN o.parsed.name ELSE heard[DeviceOf(o)].name,
     reports |-> heard[DeviceOf(o)].reports + 1]

(* Every report, of a tracked device or not, ends with an entry e of its    *)
(* own device in some slot i, which no other slot's device is; if slot i    *)
(* belonged to another device, the cache was full and that device oldest.   *)
Prepared(o, i, e, counted) ==
    /\ Conclude(o, i, e, KnownReason(e), counted)
    /\ e \in Entry /\ e.occupied /\ DeviceOf(e) = DeviceOf(o) /\ e.rssi = o.rssi
    /\ OwnEntry(e, HeardNow(o), shown[DeviceOf(o)])
    /\ \A j \in Occupied : j # i => DeviceOf(entries[j]) # DeviceOf(o)
    /\ i \in Occupied /\ DeviceOf(entries[i]) # DeviceOf(o) => i \in OldestSlots

LEMMA KnownPrepared ==
    ASSUME WholeClock, HistoryInv, NEW o \in Reports, ObserveKnown(o)
    PROVE  \E i \in Slots : \E e, counted : Prepared(o, i, e, counted)
<1> USE DEF HistoryInv, SlotsInv
<1> PICK i \in Slots : /\ i \in MatchingSlots(o)
                       /\ Conclude(o, i, RefreshedEntry(entries[i], o),
                                   KnownReason(RefreshedEntry(entries[i], o)), {})
  BY DEF ObserveKnown, IsFirst
<1> DEFINE e == RefreshedEntry(entries[i], o)
           d == DeviceOf(o)
<1>1. i \in Occupied /\ DeviceOf(entries[i]) = d
  BY MatchingAreOccupied
<1>2. entries[i] \in Entry /\ uptime \in Nat
  BY DEF TypeOK
<1>3. e \in Entry
  BY <1>2, RefreshedEntryType
<1>4. e.occupied /\ DeviceOf(e) = d /\ e.rssi = o.rssi
  BY <1>1, <1>2 DEF RefreshedEntry, Entry, DeviceOf, Occupied
<1>5. OwnEntry(entries[i], heard[d], shown[d])
  BY <1>1 DEF EntriesLinked
<1>6. OwnEntry(e, HeardNow(o), shown[d])
  <2>1. e.name = HeardNow(o).name
    BY <1>2, <1>5 DEF RefreshedEntry, Entry, HeardNow, OwnEntry
  <2>2. e.report_count = IF HeardNow(o).reports < UINT_MAX THEN HeardNow(o).reports ELSE UINT_MAX
    <3>1. heard[d].reports \in Nat
      BY ReportDevice DEF HistoryTypeOK
    <3>2. e.report_count = SaturatingInc(entries[i].report_count)
      BY <1>2 DEF RefreshedEntry, Entry
    <3>3. HeardNow(o).reports = heard[d].reports + 1
      BY DEF HeardNow
    <3> QED BY <3>1, <3>2, <3>3, <1>5, UintAssumption DEF OwnEntry, SaturatingInc, UINT_MAX
  <2>3. StoredAs(e.last_seen_ms, HeardNow(o).at)
    BY <1>2, ClockStored DEF RefreshedEntry, Entry, HeardNow
  <2>4. /\ e.logged = entries[i].logged /\ e.last_logged_ms = entries[i].last_logged_ms
        /\ e.last_logged_name = entries[i].last_logged_name
        /\ e.last_logged_rssi = entries[i].last_logged_rssi
    BY <1>2 DEF RefreshedEntry, Entry
  <2> HIDE DEF e
  <2> QED BY <1>5, <2>1, <2>2, <2>3, <2>4 DEF OwnEntry
<1>7. \A j \in Occupied : j # i => DeviceOf(entries[j]) # d
  BY <1>1 DEF UniqueDevices
<1> HIDE DEF e
<1>8. Conclude(o, i, e, KnownReason(e), {})
  BY DEF e
<1>9. Prepared(o, i, e, {})
  BY <1>1, <1>3, <1>4, <1>6, <1>7, <1>8 DEF Prepared
<1> QED BY <1>9

LEMMA NewPrepared ==
    ASSUME WholeClock, HistoryInv, NEW o \in Reports, ObserveNew(o) \/ ObserveEvicting(o)
    PROVE  \E i \in Slots : \E e, counted : Prepared(o, i, e, counted)
<1> USE DEF HistoryInv, SlotsInv
<1> DEFINE e == NewEntry(o)
           d == DeviceOf(o)
<1>1. PICK i \in Slots, counted \in {{"discoveries", "active_devices"},
                                     {"discoveries", "cache_evictions"}} :
          /\ Conclude(o, i, e, "first", counted)
          /\ i \in EmptySlots \/ i \in OldestSlots
  BY DEF ObserveNew, ObserveEvicting, IsFirst
<1>2. uptime \in Nat /\ e \in Entry
  BY NewEntryType DEF TypeOK
<1>3. e.occupied /\ DeviceOf(e) = d /\ e.rssi = o.rssi
  BY DEF NewEntry, EmptyEntry, DeviceOf
<1>4. ~e.logged /\ KnownReason(e) = "first"
  BY DEF NewEntry, EmptyEntry, KnownReason
<1>5. \A j \in Occupied : DeviceOf(entries[j]) # d
  BY MatchingAreOccupied DEF ObserveNew, ObserveEvicting
<1>6. d \in Device \ Tracked
  BY <1>5, ReportDevice DEF Tracked
<1>7. heard[d] = Unheard /\ shown[d] = Unshown
  BY <1>6 DEF UntrackedForgotten
<1>8. OwnEntry(e, HeardNow(o), shown[d])
  <2>1. e.name = HeardNow(o).name
    BY <1>7, DataAssumption DEF NewEntry, EmptyEntry, HeardNow, Unheard, Observations, ParsedNames
  <2>2. e.report_count = IF HeardNow(o).reports < UINT_MAX THEN HeardNow(o).reports ELSE UINT_MAX
    BY <1>7, UintAssumption DEF NewEntry, EmptyEntry, HeardNow, Unheard, UINT_MAX
  <2>3. StoredAs(e.last_seen_ms, HeardNow(o).at)
    BY <1>2, ClockStored DEF NewEntry, EmptyEntry, HeardNow
  <2>4. e.last_logged_name = shown[d].name /\ e.last_logged_rssi = shown[d].rssi /\ shown[d].at = Never
    BY <1>7 DEF NewEntry, EmptyEntry, Unshown
  <2> HIDE DEF e
  <2> QED BY <1>4, <2>1, <2>2, <2>3, <2>4 DEF OwnEntry
<1> HIDE DEF e
<1>9. i \in Occupied => i \in OldestSlots
  BY <1>1 DEF EmptySlots, Occupied
<1>10. Prepared(o, i, e, counted)
  BY <1>1, <1>2, <1>3, <1>4, <1>5, <1>8, <1>9 DEF Prepared
<1> QED BY <1>10

LEMMA ReportPrepared ==
    ASSUME WholeClock, HistoryInv, NEW o \in Reports, Observe(o)
    PROVE  \E i \in Slots : \E e, counted : Prepared(o, i, e, counted)
BY KnownPrepared, NewPrepared DEF Observe

--------------------------------------------------------------------------------
(* What a prepared report does. *)
Emitted(e) == KnownReason(e) # "none" /\ GlobalLimitExpired

LEMMA ReportObserved ==
    ASSUME HistoryInv, NEW o \in Reports, NEW i \in Slots, NEW e, NEW counted,
           Prepared(o, i, e, counted)
    PROVE  /\ Observed
           /\ LineEmitted <=> Emitted(e)
           /\ LineEmitted => result'.reason = KnownReason(e)
           /\ Reported = DeviceOf(o)
           /\ result'.name = e.name /\ result'.rssi = e.rssi
<1> DEFINE stored == IF Emitted(e) THEN LoggedEntry(e) ELSE e
<1>1. stats["total_reports"] \in Uint
  BY DEF HistoryInv, SlotsInv, TypeOK, Counters
<1>2. stats'["total_reports"] = IncCounter(stats["total_reports"])
  BY DEF Prepared, Conclude, Bump, Counters
<1>3. Observed
  BY <1>1, <1>2, CounterMoves DEF Observed
<1>4. /\ DeviceOf(stored) = DeviceOf(e) /\ stored.name = e.name /\ stored.rssi = e.rssi
  BY DEF Prepared, LoggedEntry, Entry, DeviceOf
<1> HIDE DEF stored
<1>5. /\ result'.reason = (IF Emitted(e) THEN KnownReason(e) ELSE "none")
      /\ result'.address = stored.address /\ result'.address_type = stored.address_type
      /\ result'.name = stored.name /\ result'.rssi = stored.rssi
  BY DEF Prepared, Conclude, Emitted, stored
<1>6. LineEmitted <=> Emitted(e)
  BY <1>3, <1>5 DEF LineEmitted, Emitted
<1>7. DeviceOf(result') = DeviceOf(o)
  BY <1>4, <1>5 DEF Prepared, DeviceOf
<1> QED BY <1>3, <1>4, <1>5, <1>6, <1>7 DEF Reported

LEMMA ReportSlots ==
    ASSUME HistoryInv, NEW o \in Reports, NEW i \in Slots, NEW e, NEW counted,
           Prepared(o, i, e, counted)
    PROVE  /\ entries'[i] = IF Emitted(e) THEN LoggedEntry(e) ELSE e
           /\ Occupied' = Occupied \cup {i} /\ DeviceOf(entries'[i]) = DeviceOf(o)
           /\ \A j \in Slots : j # i => entries'[j] = entries[j]
           /\ \A j \in Occupied' : j # i => j \in Occupied /\ DeviceOf(entries[j]) # DeviceOf(o)
           /\ DeviceOf(o) \in Tracked'
<1> DEFINE stored == IF Emitted(e) THEN LoggedEntry(e) ELSE e
<1>1. entries \in [Slots -> Entry]
  BY DEF HistoryInv, SlotsInv, TypeOK
<1>2. stored.occupied /\ DeviceOf(stored) = DeviceOf(o)
  BY DEF Prepared, LoggedEntry, Entry, DeviceOf
<1> HIDE DEF stored
<1>3. entries' = [entries EXCEPT ![i] = stored]
  BY DEF Prepared, Conclude, Emitted, stored
<1>4. entries'[i] = stored /\ \A j \in Slots : j # i => entries'[j] = entries[j]
  BY <1>1, <1>3
<1>5. Occupied' = Occupied \cup {i}
  BY <1>2, <1>4 DEF Occupied
<1>6. DeviceOf(entries'[i]) = DeviceOf(o)
  BY <1>2, <1>4
<1>7. DeviceOf(o) \in Tracked'
  BY <1>5, <1>6 DEF Tracked, DeviceOf
<1> QED BY <1>4, <1>5, <1>6, <1>7 DEF Prepared, stored, Occupied

--------------------------------------------------------------------------------
(* The invariant holds at the start and every step keeps it. *)

LEMMA HistoryInit ==
    ASSUME WholeClock, HInit
    PROVE  HistoryInv
<1>1. SlotsInv /\ uptime \in Nat
  BY SlotsInit, ClockAssumption DEF HInit, Init
<1>2. Occupied = {} /\ Tracked = {}
  BY DEF HInit, Init, Occupied, Tracked, EmptyEntry
<1>3. HistoryTypeOK
  BY <1>1, DataAssumption DEF HInit, HistoryTypeOK, Unheard, Unshown, Never, Signals
<1>4. GlobalLineLinked
  BY DEF HInit, Init, GlobalLineLinked, Never
<1>5. SummaryLinked
  <2>1. ((uptime % UINT_MOD) + SummaryInterval) % UINT_MOD = (uptime + SummaryInterval) % UINT_MOD
    BY <1>1, ModSum, IntervalAssumption
  <2> QED BY <1>1, <2>1 DEF HInit, Init, SummaryLinked, AddMs, UptimeMs, WholeClock
<1>6. EntriesLinked /\ UntrackedForgotten
  BY <1>2 DEF EntriesLinked, UntrackedForgotten, HInit
<1> QED BY <1>1, <1>3, <1>4, <1>5, <1>6 DEF HistoryInv

LEMMA ReportKeepsLinks ==
    ASSUME WholeClock, HistoryInv, NEW o \in Reports, NEW i \in Slots, NEW e, NEW counted,
           Prepared(o, i, e, counted), RecordReport(o), SlotsInv'
    PROVE  HistoryInv'
<1> DEFINE d == DeviceOf(o)
<1>1. d \in Device /\ uptime \in Nat /\ uptime' = uptime /\ next_summary_ms' = next_summary_ms
  BY ReportDevice DEF HistoryInv, SlotsInv, TypeOK, Prepared, Conclude
<1>2. LineEmitted <=> Emitted(e)
  BY ReportObserved
<1>3. heard'[d] = HeardNow(o)
  BY <1>1, ReportSlots DEF RecordReport, HeardNow
<1>4. shown'[d] = IF Emitted(e) THEN [at |-> uptime, name |-> e.name, rssi |-> e.rssi] ELSE shown[d]
  BY <1>1, <1>2, ReportSlots, ReportObserved DEF RecordReport
<1>5. \A x \in Device : x \in Tracked' /\ x # d => heard'[x] = heard[x] /\ shown'[x] = shown[x]
  BY <1>1 DEF RecordReport
<1>6. HistoryTypeOK'
  <2>1. HeardNow(o) \in [at : Nat \cup {Never}, name : Names, reports : Nat]
    BY <1>1, ReportType DEF HeardNow, HistoryInv, HistoryTypeOK
  <2>2. e.name \in Names /\ e.rssi \in Signals
    BY DEF Prepared, Entry
  <2>3. shown'[d] \in [at : Nat \cup {Never}, name : Names, rssi : Signals]
    BY <1>1, <1>4, <2>2 DEF HistoryInv, HistoryTypeOK
  <2>4. /\ Unheard \in [at : Nat \cup {Never}, name : Names, reports : Nat]
        /\ Unshown \in [at : Nat \cup {Never}, name : Names, rssi : Signals]
    BY DataAssumption DEF Unheard, Unshown, Signals
  <2>5. \A x \in Device : x \notin Tracked' => heard'[x] = Unheard /\ shown'[x] = Unshown
    BY DEF RecordReport
  <2>6. \A x \in Device : /\ heard'[x] \in [at : Nat \cup {Never}, name : Names, reports : Nat]
                          /\ shown'[x] \in [at : Nat \cup {Never}, name : Names, rssi : Signals]
    BY <1>3, <1>5, <2>1, <2>3, <2>4, <2>5 DEF HistoryInv, HistoryTypeOK
  <2>7. /\ heard' \in [Device -> [at : Nat \cup {Never}, name : Names, reports : Nat]]
        /\ shown' \in [Device -> [at : Nat \cup {Never}, name : Names, rssi : Signals]]
    BY <2>6 DEF RecordReport
  <2>8. /\ lineAt' \in Nat \cup {Never} /\ summaryAt' \in Nat
        /\ handled' \in Nat /\ lines' \in 0 .. handled'
    BY <1>1 DEF RecordReport, HistoryInv, HistoryTypeOK
  <2> QED BY <2>7, <2>8 DEF HistoryTypeOK
<1>7. GlobalLineLinked'
  <2>1. /\ has_logged' = (has_logged \/ Emitted(e))
        /\ last_log_ms' = IF Emitted(e) THEN UptimeMs ELSE last_log_ms
        /\ lineAt' = IF Emitted(e) THEN uptime ELSE lineAt
    BY <1>2 DEF Prepared, Conclude, Emitted, RecordReport
  <2>2. has_logged \in BOOLEAN /\ has_logged' \in BOOLEAN
    BY DEF HistoryInv, SlotsInv, TypeOK
  <2>3. CASE Emitted(e)
    <3>1. StoredAs(UptimeMs, uptime) /\ uptime # Never
      BY <1>1, ClockStored DEF Never
    <3> QED BY <1>1, <2>1, <2>2, <2>3, <3>1 DEF GlobalLineLinked, StoredAs
  <2>4. CASE ~Emitted(e)
    BY <1>1, <2>1, <2>2, <2>4 DEF GlobalLineLinked, HistoryInv, StoredAs
  <2> QED BY <2>3, <2>4
<1>8. SummaryLinked'
  BY <1>1 DEF SummaryLinked, HistoryInv, RecordReport
<1>9. EntriesLinked'
  <2>1. OwnEntry(entries'[i], heard'[d], shown'[d])
    <3>1. OwnEntry(e, HeardNow(o), shown[d]) /\ e \in Entry
      BY DEF Prepared
    <3>2. CASE ~Emitted(e)
      <4>1. entries'[i] = e /\ heard'[d] = HeardNow(o) /\ shown'[d] = shown[d]
        BY <1>3, <1>4, <3>2, ReportSlots
      <4> QED BY <1>1, <3>1, <4>1 DEF OwnEntry, StoredAs
    <3>3. CASE Emitted(e)
      <4>1. entries'[i] = LoggedEntry(e) /\ heard'[d] = HeardNow(o)
            /\ shown'[d] = [at |-> uptime, name |-> e.name, rssi |-> e.rssi]
        BY <1>3, <1>4, <3>3, ReportSlots
      <4>2. StoredAs(UptimeMs, uptime) /\ uptime # Never
        BY <1>1, ClockStored DEF Never
      <4> DEFINE f == LoggedEntry(e)
      <4>3. /\ f.name = e.name /\ f.report_count = e.report_count
            /\ f.last_seen_ms = e.last_seen_ms /\ f.logged
            /\ f.last_logged_ms = UptimeMs /\ f.last_logged_name = e.name
            /\ f.last_logged_rssi = e.rssi
        BY <3>1 DEF LoggedEntry, Entry
      <4> HIDE DEF f
      <4>4. entries'[i] = f
        BY <4>1 DEF f
      <4> QED BY <1>1, <3>1, <4>1, <4>2, <4>3, <4>4 DEF OwnEntry, StoredAs
    <3> QED BY <3>2, <3>3
  <2>2. ASSUME NEW j \in Occupied', j # i
        PROVE  OwnEntry(entries'[j], heard'[DeviceOf(entries'[j])], shown'[DeviceOf(entries'[j])])
    <3>1. /\ j \in Occupied /\ j \in Slots /\ entries'[j] = entries[j]
          /\ DeviceOf(entries[j]) # d
      BY <2>2, ReportSlots DEF Occupied
    <3>2. DeviceOf(entries'[j]) \in Tracked' /\ DeviceOf(entries[j]) \in Device
      <4>1. entries[j] \in Entry
        BY <3>1 DEF HistoryInv, SlotsInv, TypeOK
      <4> QED BY <4>1, <2>2 DEF Tracked, DeviceOf, Device, Entry
    <3>3. OwnEntry(entries[j], heard[DeviceOf(entries[j])], shown[DeviceOf(entries[j])])
      BY <3>1 DEF HistoryInv, EntriesLinked
    <3>4. /\ heard'[DeviceOf(entries[j])] = heard[DeviceOf(entries[j])]
          /\ shown'[DeviceOf(entries[j])] = shown[DeviceOf(entries[j])]
      BY <1>5, <3>1, <3>2
    <3> QED BY <3>1, <3>3, <3>4
  <2>3. \A j \in Occupied' :
            OwnEntry(entries'[j], heard'[DeviceOf(entries'[j])], shown'[DeviceOf(entries'[j])])
    BY <2>1, <2>2, ReportSlots
  <2> QED BY <1>1, <2>3 DEF EntriesLinked, OwnEntry, StoredAs, DeviceOf
<1>10. UntrackedForgotten'
  BY DEF RecordReport, UntrackedForgotten
<1> QED BY <1>6, <1>7, <1>8, <1>9, <1>10 DEF HistoryInv

LEMMA LinksKept ==
    ASSUME HistoryInv, SlotsInv', UNCHANGED <<entries, last_log_ms, has_logged>>,
           UNCHANGED <<lineAt, handled, lines, heard, shown>>,
           uptime' \in Nat, uptime <= uptime', summaryAt' \in Nat, SummaryLinked'
    PROVE  HistoryInv'
<1>1. uptime \in Nat
  BY DEF HistoryInv, SlotsInv, TypeOK
<1>2. HistoryTypeOK' /\ UntrackedForgotten'
  BY DEF HistoryInv, HistoryTypeOK, UntrackedForgotten, Tracked, Occupied, DeviceOf
<1>3. GlobalLineLinked'
  BY <1>1 DEF HistoryInv, GlobalLineLinked, StoredAs
<1>4. EntriesLinked'
  <2>1. Occupied' = Occupied
    BY DEF Occupied
  <2>2. \A j \in Occupied :
            OwnEntry(entries[j], heard[DeviceOf(entries[j])], shown[DeviceOf(entries[j])])
    BY DEF HistoryInv, EntriesLinked
  <2>3. \A j \in Occupied : DeviceOf(entries[j])' = DeviceOf(entries[j])
    BY DEF DeviceOf
  <2> QED BY <1>1, <2>1, <2>2, <2>3 DEF EntriesLinked, OwnEntry, StoredAs
<1> QED BY <1>2, <1>3, <1>4 DEF HistoryInv

LEMMA HistoryNext == HNext => Next
BY DEF HNext, HObserve, HAppProcessAction, HTick, Next

LEMMA HistoryStep ==
    ASSUME WholeClock, HistoryInv, [HNext]_hvars
    PROVE  HistoryInv'
<1>1. SlotsInv'
  <2>1. [Next]_vars
    BY HistoryNext DEF hvars
  <2> QED BY <2>1, SlotsStep DEF HistoryInv
<1>2. uptime \in Nat /\ uptime' \in Nat /\ summaryAt \in Nat
  BY <1>1 DEF HistoryInv, SlotsInv, TypeOK, HistoryTypeOK
<1>3. ASSUME NEW o \in Reports, HObserve(o) PROVE HistoryInv'
  <2>1. PICK i \in Slots : \E e, counted : Prepared(o, i, e, counted)
    BY <1>3, ReportPrepared DEF HObserve
  <2>2. PICK e, counted : Prepared(o, i, e, counted)
    BY <2>1
  <2> QED BY <1>1, <1>3, <2>2, ReportKeepsLinks DEF HObserve
<1>4. CASE HAppProcessAction
  <2>1. summaryAt' = uptime /\ uptime' = uptime
        /\ next_summary_ms' = ((uptime % UINT_MOD) + SummaryInterval) % UINT_MOD
    BY <1>4 DEF HAppProcessAction, AppProcessAction, SnapshotSummary, RecordSummary, AddMs,
                UptimeMs, WholeClock
  <2>2. ((uptime % UINT_MOD) + SummaryInterval) % UINT_MOD = (uptime + SummaryInterval) % UINT_MOD
    BY <1>2, ModSum, IntervalAssumption
  <2>3. SummaryLinked'
    BY <1>2, <2>1, <2>2 DEF SummaryLinked
  <2> QED BY <1>1, <1>2, <1>4, <2>1, <2>3, LinksKept
          DEF HAppProcessAction, AppProcessAction, SnapshotSummary, RecordSummary
<1>5. CASE HTick
  <2>1. uptime' = uptime + 1 /\ summaryAt' = summaryAt /\ next_summary_ms' = next_summary_ms
    BY <1>5 DEF HTick, Tick, history
  <2>2. SummaryLinked'
    BY <1>2, <2>1 DEF HistoryInv, SummaryLinked
  <2> QED BY <1>1, <1>2, <1>5, <2>1, <2>2, LinksKept DEF HTick, Tick, history
<1>6. CASE UNCHANGED hvars
  <2>1. SummaryLinked'
    BY <1>6 DEF hvars, vars, history, HistoryInv, SummaryLinked
  <2> QED BY <1>1, <1>2, <1>6, <2>1, LinksKept DEF hvars, vars, history
<1> QED BY <1>3, <1>4, <1>5, <1>6 DEF HNext

LEMMA HistoryAlways ==
    ASSUME WholeClock
    PROVE  HSpec => []HistoryInv
BY HistoryInit, HistoryStep, PTL DEF HSpec

--------------------------------------------------------------------------------
(* The invariants. *)

(* An entry is about its own device only: nothing of an evicted predecessor *)
(* shows in a line about the device that took its slot.                     *)
THEOREM EntriesOwn ==
    ASSUME WholeClock
    PROVE  HSpec => []EntriesAreOwn
<1>1. HistoryInv => EntriesAreOwn
  BY DEF HistoryInv, EntriesLinked, OwnEntry, EntriesAreOwn
<1> QED BY <1>1, HistoryAlways, PTL

(* What is known of the deadline for any clock: it is the clock's value at  *)
(* the last summary, and the interval.                                      *)
DeadlineStored ==
    /\ summaryAt \in Nat /\ summaryAt <= uptime
    /\ next_summary_ms = ((summaryAt % ClockPeriod) + SummaryInterval) % UINT_MOD

(* The summary is due exactly on time where the clock told the true time,   *)
(* or that reduced to the whole range.                                      *)
LEMMA DueByClock ==
    ASSUME uptime \in Nat, DeadlineStored, ClockTrue
    PROVE  SummaryDueOnTime
<1> SUFFICES ASSUME uptime - summaryAt <= SummaryInterval + UINT_MAX \div 2
             PROVE  SummaryDue <=> uptime - summaryAt >= SummaryInterval
  BY DEF SummaryDueOnTime
<1> DEFINE half == UINT_MAX \div 2
           late == uptime - (summaryAt + SummaryInterval)
<1>1. uptime \in Nat /\ summaryAt \in Nat /\ SummaryInterval \in Nat /\ summaryAt <= uptime
  BY IntervalAssumption DEF DeadlineStored
<1>2. half \in Nat /\ 2 * half <= UINT_MOD - 1 /\ SummaryInterval <= half
  BY UintAssumption, IntervalAssumption DEF UINT_MAX
<1>3. late \in Int /\ summaryAt + SummaryInterval \in Int
  BY <1>1
<1>4. SummaryDue <=> late % UINT_MOD <= half
  <2>1. UptimeMs = uptime % UINT_MOD
        /\ next_summary_ms = (summaryAt + SummaryInterval) % UINT_MOD
    <3>1. CASE ClockPeriod = UINT_MOD
      BY <1>1, <3>1, ModSum DEF DeadlineStored, UptimeMs
    <3>2. CASE uptime < ClockPeriod
      <4>1. ClockPeriod \in Nat /\ ClockPeriod <= UINT_MOD /\ uptime \in Uint
        BY <1>1, <3>2, ClockAssumption, UintAssumption DEF Uint
      <4>2. uptime % ClockPeriod = uptime /\ summaryAt % ClockPeriod = summaryAt
        BY <1>1, <3>2, <4>1
      <4> QED BY <4>1, <4>2, ModSmall DEF DeadlineStored, UptimeMs
    <3> QED BY <3>1, <3>2 DEF ClockTrue
  <2>2. (UptimeMs - next_summary_ms) % UINT_MOD = late % UINT_MOD
    BY <2>1, <1>1, <1>3, ModDifference
  <2> QED BY <2>2 DEF SummaryDue, DeadlineReached
<1> HIDE DEF half
<1>5. CASE late >= 0
  <2>1. late <= half
    BY <1>1, <1>2 DEF half
  <2>2. late \in Uint
    BY <2>1, <1>2, <1>3, <1>5, UintAssumption DEF Uint
  <2>3. late % UINT_MOD = late
    BY <2>2, ModSmall
  <2> QED BY <1>1, <1>4, <1>5, <2>1, <2>3
<1>6. CASE late < 0
  <2>1. late + UINT_MOD \in Uint /\ late + UINT_MOD > half
    BY <1>1, <1>2, <1>6, UintAssumption DEF Uint
  <2>2. late + UINT_MOD = late + 1 * UINT_MOD
    BY UintAssumption
  <2>3. (late + UINT_MOD) % UINT_MOD = late % UINT_MOD
    <3> HIDE DEF late
    <3>1. late + UINT_MOD \in Int /\ late \in Int /\ 1 \in Int
      BY <1>3, UintAssumption
    <3> QED BY <2>2, <3>1, ModCongruent
  <2>4. late % UINT_MOD > half
    BY <2>1, <2>3, ModSmall
  <2> QED BY <1>1, <1>2, <1>4, <1>6, <2>4, ModRange, UintAssumption DEF Uint
<1> QED BY <1>3, <1>5, <1>6

LEMMA DueOnTime ==
    ASSUME WholeClock, HistoryInv
    PROVE  SummaryDueOnTime
<1>1. uptime \in Nat /\ summaryAt \in Nat /\ ClockTrue
  BY DEF HistoryInv, SlotsInv, TypeOK, HistoryTypeOK, WholeClock, ClockTrue
<1>2. DeadlineStored
  BY <1>1, ModSum, IntervalAssumption DEF HistoryInv, SummaryLinked, DeadlineStored, WholeClock
<1> QED BY <1>1, <1>2, DueByClock

(* The 30 s summary becomes due exactly on time across every clock wrap, as *)
(* long as the loop is less than half the clock range late.                 *)
THEOREM SummaryOnTime ==
    ASSUME WholeClock
    PROVE  HSpec => []SummaryDueOnTime
BY DueOnTime, HistoryAlways, PTL

--------------------------------------------------------------------------------
(* What follows holds for the application's clock, too, which wraps short   *)
(* of UINT_MOD.                                                             *)
LEMMA DeadlineInit == HInit => TypeOK /\ DeadlineStored
BY TypeInit, ClockAssumption DEF HInit, Init, DeadlineStored, AddMs, UptimeMs

LEMMA DeadlineStep ==
    ASSUME TypeOK, DeadlineStored, [HNext]_hvars
    PROVE  TypeOK' /\ DeadlineStored'
<1>1. TypeOK'
  BY TypeStep, HistoryNext DEF hvars
<1>2. uptime \in Nat /\ uptime' \in Nat /\ summaryAt \in Nat
  BY <1>1 DEF TypeOK, DeadlineStored
<1>3. ASSUME NEW o \in Reports, HObserve(o) PROVE DeadlineStored'
  BY <1>3 DEF HObserve, Observe, ObserveKnown, ObserveNew, ObserveEvicting, Conclude, RecordReport,
              DeadlineStored
<1>4. CASE HAppProcessAction
  <2>1. summaryAt' = uptime /\ uptime' = uptime
        /\ next_summary_ms' = ((uptime % ClockPeriod) + SummaryInterval) % UINT_MOD
    BY <1>4 DEF HAppProcessAction, AppProcessAction, SnapshotSummary, RecordSummary, AddMs, UptimeMs
  <2> QED BY <1>1, <1>2, <2>1 DEF DeadlineStored
<1>5. CASE HTick
  <2>1. uptime' = uptime + 1 /\ summaryAt' = summaryAt /\ next_summary_ms' = next_summary_ms
    BY <1>5 DEF HTick, Tick, history
  <2> QED BY <1>1, <1>2, <2>1 DEF DeadlineStored
<1>6. CASE UNCHANGED hvars
  <2>1. uptime' = uptime /\ summaryAt' = summaryAt /\ next_summary_ms' = next_summary_ms
    BY <1>6 DEF hvars, vars, history
  <2> QED BY <1>1, <2>1 DEF DeadlineStored
<1> QED BY <1>1, <1>3, <1>4, <1>5, <1>6 DEF HNext

LEMMA ReportCounted ==
    ASSUME TypeOK, NEW o \in Reports, Observe(o)
    PROVE  stats' # stats
<1>1. stats["total_reports"] \in Uint
  BY DEF TypeOK, Counters
<1>2. stats'["total_reports"] = IncCounter(stats["total_reports"])
  BY DEF Observe, ObserveKnown, ObserveNew, ObserveEvicting, Conclude, Bump, Counters
<1> QED BY <1>1, <1>2, CounterMoves

(* The tracker is what the model of the super-loop takes it for: between    *)
(* two polls time alone makes a summary due, and nothing but a poll ends it *)
(* (app.c:79-84).  No assumption is made of the clock: the property itself  *)
(* ends where the application's clock first wraps (app.c:17-19).            *)
THEOREM DueIsAsAssumed == HSpec => DueAsAssumed
<1>1. HInit => ~SummaryDue
  <2> SUFFICES ASSUME HInit PROVE ~SummaryDue
    OBVIOUS
  <2>1. UptimeMs \in Int /\ UptimeMs % UINT_MOD \in Int /\ SummaryInterval \in Int
    BY ClockAssumption, IntervalAssumption, UptimeMsType, ModRange DEF HInit, Init, Uint, UptimeMs
  <2>2. UptimeMs = UptimeMs % UINT_MOD
    BY ClockAssumption, UptimeMsType, ModSmall DEF HInit, Init
  <2>3. (UptimeMs - next_summary_ms) % UINT_MOD = (UptimeMs - (UptimeMs + SummaryInterval)) % UINT_MOD
    <3>1. next_summary_ms = (UptimeMs + SummaryInterval) % UINT_MOD
      BY DEF HInit, Init, AddMs
    <3>2. UptimeMs + SummaryInterval \in Int
      BY <2>1
    <3> HIDE DEF UptimeMs
    <3> QED BY <2>1, <2>2, <3>1, <3>2, ModDifference
  <2>4. UptimeMs - (UptimeMs + SummaryInterval) = -SummaryInterval
    BY <2>1
  <2>5. UINT_MOD - SummaryInterval \in Uint /\ UINT_MOD - SummaryInterval > UINT_MAX \div 2
    BY IntervalAssumption, UintAssumption DEF Uint, UINT_MAX
  <2>6. (-SummaryInterval) % UINT_MOD = UINT_MOD - SummaryInterval
    <3>1. UINT_MOD - SummaryInterval = (-SummaryInterval) + 1 * UINT_MOD
      BY <2>1, UintAssumption
    <3>2. (UINT_MOD - SummaryInterval) % UINT_MOD = (-SummaryInterval) % UINT_MOD
      <4>1. UINT_MOD - SummaryInterval \in Int /\ -SummaryInterval \in Int /\ 1 \in Int
        BY <2>1, UintAssumption
      <4> QED BY <3>1, <4>1, ModCongruent
    <3> QED BY <2>5, <3>2, ModSmall
  <2> QED BY <2>3, <2>4, <2>5, <2>6, UintAssumption DEF SummaryDue, DeadlineReached, Uint, UINT_MAX
<1>2. ASSUME TypeOK, DeadlineStored, TypeOK', DeadlineStored', [HNext]_hvars, ClockTrue', PolledInTime'
      PROVE  DueRises \/ DueFalls \/ DueStays \/ UNCHANGED hvars
  <2>1. /\ uptime \in Nat /\ uptime' \in Nat /\ summaryAt \in Nat /\ SummaryInterval \in Nat \ {0}
        /\ UINT_MAX \div 2 \in Nat
    BY <1>2, IntervalAssumption, UintAssumption DEF TypeOK, DeadlineStored, UINT_MAX
  <2>2. SummaryDueOnTime'
    <3>1. (uptime \in Nat)'
      BY <2>1
    <3> QED BY <1>2, <3>1, DueByClock, PTL
  <2>3. SummaryDue' <=> uptime' - summaryAt' >= SummaryInterval
    BY <1>2, <2>2 DEF SummaryDueOnTime, PolledInTime
  <2>4. ASSUME NEW o \in Reports, HObserve(o) PROVE DueStays
    <3>1. UNCHANGED <<uptime, next_summary_ms>>
      BY <2>4 DEF HObserve, Observe, ObserveKnown, ObserveNew, ObserveEvicting, Conclude
    <3>2. ~AppProcessAction
      BY <1>2, <2>4, ReportCounted DEF HObserve, AppProcessAction, SnapshotSummary
    <3>3. SummaryDue' <=> SummaryDue
      BY <3>1 DEF SummaryDue, UptimeMs
    <3> QED BY <3>2, <3>3 DEF DueStays
  <2>5. CASE HAppProcessAction
    <3>1. uptime' = uptime /\ summaryAt' = uptime /\ SummaryDue /\ AppProcessAction
      BY <2>5 DEF HAppProcessAction, AppProcessAction, SnapshotSummary, RecordSummary
    <3>2. ~SummaryDue'
      BY <2>1, <2>3, <3>1
    <3> QED BY <3>1, <3>2 DEF DueFalls
  <2>6. CASE HTick
    <3>1. uptime' = uptime + 1 /\ summaryAt' = summaryAt /\ Tick
          /\ next_summary_ms' = next_summary_ms
      BY <2>6 DEF HTick, Tick, history
    <3>2. SummaryDue => SummaryDue'
      <4>1. ClockTrue
        BY <1>2, <2>1, <3>1, ClockAssumption DEF ClockTrue
      <4>2. SummaryDue <=> uptime - summaryAt >= SummaryInterval
        BY <1>2, <2>1, <3>1, <4>1, DueByClock DEF SummaryDueOnTime, PolledInTime
      <4> QED BY <2>1, <2>3, <3>1, <4>2
    <3>3. ~AppProcessAction
      BY <2>1, <3>1 DEF AppProcessAction, SnapshotSummary
    <3> QED BY <3>1, <3>2, <3>3 DEF DueRises, DueStays
  <2> QED BY <1>2, <2>4, <2>5, <2>6 DEF HNext
<1>3. /\ TypeOK /\ DeadlineStored /\ (TypeOK /\ DeadlineStored)' /\ [HNext]_hvars
      => [ClockTrue' /\ PolledInTime' => DueRises \/ DueFalls \/ DueStays]_hvars
  BY <1>2
<1>4. TypeOK /\ DeadlineStored /\ [HNext]_hvars => (TypeOK /\ DeadlineStored)'
  BY DeadlineStep
<1> QED BY <1>1, <1>3, <1>4, DeadlineInit, PTL DEF HSpec, DueAsAssumed

--------------------------------------------------------------------------------
(* The action properties: a step is a prepared report or touches neither    *)
(* the entries nor the counters.                                            *)
LEMMA StepKinds ==
    ASSUME WholeClock, HistoryInv, [HNext]_hvars
    PROVE  \/ \E o \in Reports, i \in Slots : \E e, counted :
                  Prepared(o, i, e, counted) /\ RecordReport(o)
           \/ UNCHANGED <<entries, stats>>
<1>1. ASSUME NEW o \in Reports, HObserve(o)
      PROVE  \E i \in Slots : \E e, counted : Prepared(o, i, e, counted) /\ RecordReport(o)
  BY <1>1, ReportPrepared DEF HObserve
<1>2. HAppProcessAction \/ HTick \/ UNCHANGED hvars => UNCHANGED <<entries, stats>>
  BY DEF HAppProcessAction, AppProcessAction, SnapshotSummary, HTick, Tick, hvars, vars
<1> QED BY <1>1, <1>2 DEF HNext

LEMMA QuietStep ==
    ASSUME UNCHANGED <<entries, stats>>
    PROVE  ~Observed /\ ~LineEmitted /\ Tracked' = Tracked
BY DEF Observed, LineEmitted, Tracked, Occupied, DeviceOf

(* The true age of the previous line about the device of a prepared report. *)
LEMMA PreparedAges ==
    ASSUME WholeClock, HistoryInv, NEW o \in Reports, NEW i \in Slots, NEW e, NEW counted,
           Prepared(o, i, e, counted)
    PROVE  /\ Reported = DeviceOf(o) /\ PreviousLine = shown[DeviceOf(o)]
           /\ uptime \in Nat /\ PreviousLine.at \in Nat \cup {Never}
           /\ e.logged \in BOOLEAN /\ (e.logged <=> PreviousLine.at # Never)
           /\ e.logged => /\ SinceLastLog(e) \in Nat
                          /\ SinceLastLog(e) <= uptime - PreviousLine.at
                          /\ uptime - PreviousLine.at < UINT_MOD
                                => SinceLastLog(e) = uptime - PreviousLine.at
           /\ e.last_logged_name = PreviousLine.name /\ e.last_logged_rssi = PreviousLine.rssi
<1>1. Reported = DeviceOf(o) /\ PreviousLine = shown[DeviceOf(o)]
  BY ReportObserved DEF PreviousLine
<1>2. uptime \in Nat /\ shown[DeviceOf(o)].at \in Nat \cup {Never}
  BY ReportDevice DEF HistoryInv, SlotsInv, TypeOK, HistoryTypeOK
<1>3. e.logged \in BOOLEAN /\ OwnEntry(e, HeardNow(o), shown[DeviceOf(o)])
  BY DEF Prepared, Entry
<1>4. e.logged => StoredAs(e.last_logged_ms, shown[DeviceOf(o)].at)
  BY <1>3 DEF OwnEntry
<1>5. e.logged => /\ SinceLastLog(e) \in Nat
                  /\ SinceLastLog(e) <= uptime - shown[DeviceOf(o)].at
                  /\ uptime - shown[DeviceOf(o)].at < UINT_MOD
                        => SinceLastLog(e) = uptime - shown[DeviceOf(o)].at
  BY <1>2, <1>4, StoredElapsed DEF SinceLastLog
<1> QED BY <1>1, <1>2, <1>3, <1>5 DEF OwnEntry

(* The true age of the last line of all. *)
LEMMA GlobalAge ==
    ASSUME WholeClock, HistoryInv
    PROVE  /\ has_logged \in BOOLEAN /\ lineAt \in Nat \cup {Never}
           /\ has_logged <=> lineAt # Never
           /\ has_logged => /\ ElapsedMs(UptimeMs, last_log_ms) \in Nat
                            /\ ElapsedMs(UptimeMs, last_log_ms) <= uptime - lineAt
                            /\ uptime - lineAt < UINT_MOD
                                  => ElapsedMs(UptimeMs, last_log_ms) = uptime - lineAt
<1>1. uptime \in Nat /\ has_logged \in BOOLEAN /\ lineAt \in Nat \cup {Never}
  BY DEF HistoryInv, SlotsInv, TypeOK, HistoryTypeOK
<1>2. (has_logged <=> lineAt # Never) /\ (has_logged => StoredAs(last_log_ms, lineAt))
  BY DEF HistoryInv, GlobalLineLinked
<1> QED BY <1>1, <1>2, StoredElapsed

(* README.md "at most four lines per second": two lines are at least        *)
(* GlobalInterval of true time apart, across every clock wrap.              *)
THEOREM CeilingHolds ==
    ASSUME WholeClock
    PROVE  HSpec => GlobalCeiling
<1>1. ASSUME HistoryInv, [HNext]_hvars
      PROVE  LineEmitted /\ lineAt # Never => uptime - lineAt >= GlobalInterval
  <2>1. ASSUME NEW o \in Reports, NEW i \in Slots, NEW e, NEW counted,
               Prepared(o, i, e, counted), LineEmitted, lineAt # Never
        PROVE  uptime - lineAt >= GlobalInterval
    <3>1. GlobalLimitExpired
      BY <1>1, <2>1, ReportObserved DEF Emitted
    <3>2. uptime \in Nat /\ GlobalInterval \in Nat
      BY <1>1, IntervalAssumption DEF HistoryInv, SlotsInv, TypeOK
    <3> QED BY <1>1, <2>1, <3>1, <3>2, GlobalAge DEF GlobalLimitExpired
  <2> QED BY <1>1, <2>1, StepKinds, QuietStep
<1> QED BY <1>1, HistoryAlways, PTL DEF HSpec, GlobalCeiling

(* Two lines about one cached device are at least MinInterval of true time  *)
(* apart, across every clock wrap.                                          *)
THEOREM CooldownHolds ==
    ASSUME WholeClock
    PROVE  HSpec => DeviceCooldown
<1>1. ASSUME HistoryInv, [HNext]_hvars
      PROVE  LineEmitted /\ PreviousLine.at # Never => uptime - PreviousLine.at >= MinInterval
  <2>1. ASSUME NEW o \in Reports, NEW i \in Slots, NEW e, NEW counted,
               Prepared(o, i, e, counted), LineEmitted, PreviousLine.at # Never
        PROVE  uptime - PreviousLine.at >= MinInterval
    <3>1. KnownReason(e) # "none"
      BY <1>1, <2>1, ReportObserved DEF Emitted
    <3>2. e.logged /\ SinceLastLog(e) \in Nat /\ SinceLastLog(e) <= uptime - PreviousLine.at
          /\ uptime - PreviousLine.at \in Int
      BY <1>1, <2>1, PreparedAges DEF Never
    <3>3. SinceLastLog(e) >= MinInterval
      BY <3>1, <3>2, IntervalAssumption DEF KnownReason, RateLimitExpired
    <3> QED BY <3>2, <3>3, IntervalAssumption
  <2> QED BY <1>1, <2>1, StepKinds, QuietStep
<1> QED BY <1>1, HistoryAlways, PTL DEF HSpec, DeviceCooldown

(* "first" marks the first line about a device since it entered the cache,  *)
(* and only that one.                                                       *)
THEOREM FirstIsFirst ==
    ASSUME WholeClock
    PROVE  HSpec => FirstLineOnce
<1>1. ASSUME HistoryInv, [HNext]_hvars
      PROVE  LineEmitted => (result'.reason = "first" <=> PreviousLine.at = Never)
  <2>1. ASSUME NEW o \in Reports, NEW i \in Slots, NEW e, NEW counted,
               Prepared(o, i, e, counted), LineEmitted
        PROVE  result'.reason = "first" <=> PreviousLine.at = Never
    <3>1. result'.reason = KnownReason(e)
      BY <1>1, <2>1, ReportObserved
    <3>2. e.logged \in BOOLEAN /\ (e.logged <=> PreviousLine.at # Never)
      BY <1>1, <2>1, PreparedAges
    <3>3. KnownReason(e) = "first" <=> ~e.logged
      BY <3>2 DEF KnownReason
    <3> QED BY <3>1, <3>2, <3>3
  <2> QED BY <1>1, <2>1, StepKinds, QuietStep
<1> QED BY <1>1, HistoryAlways, PTL DEF HSpec, FirstLineOnce

(* The distance the code compares is the distance of the property.          *)
LEMMA DistanceApart ==
    ASSUME NEW r \in Signals, NEW s \in Signals
    PROVE  RssiDistance(r, s) >= RssiDelta <=> Apart(r, s)
<1>1. r \in Int /\ s \in Int
  BY DataAssumption DEF Signals
<1> QED BY <1>1, IntervalAssumption DEF RssiDistance, Apart

(* No line claims news that the log does not show to be news.               *)
THEOREM LinesTellNews ==
    ASSUME WholeClock
    PROVE  HSpec => LineTellsNews
<1> DEFINE News ==
        LineEmitted =>
            /\ result'.reason = "name" => result'.name # PreviousLine.name
            /\ result'.reason = "rssi" => Apart(result'.rssi, PreviousLine.rssi)
            /\ result'.reason = "refresh" => uptime - PreviousLine.at >= RefreshInterval
<1>1. ASSUME HistoryInv, [HNext]_hvars
      PROVE  News
  <2>1. ASSUME NEW o \in Reports, NEW i \in Slots, NEW e, NEW counted,
               Prepared(o, i, e, counted), LineEmitted
        PROVE  News
    <3>1. result'.reason = KnownReason(e) /\ result'.name = e.name /\ result'.rssi = e.rssi
      BY <1>1, <2>1, ReportObserved
    <3>2. e.last_logged_name = PreviousLine.name /\ e.last_logged_rssi = PreviousLine.rssi
      BY <1>1, <2>1, PreparedAges
    <3>3. e.rssi \in Signals /\ e.last_logged_rssi \in Signals
      BY <2>1 DEF Prepared, Entry
    <3>4. KnownReason(e) = "name" => e.name # e.last_logged_name
      BY DEF KnownReason, NameChanged
    <3>5. KnownReason(e) = "rssi" => RssiDistance(e.rssi, e.last_logged_rssi) >= RssiDelta
      BY DEF KnownReason, RssiChanged
    <3>6. KnownReason(e) = "refresh" => e.logged /\ SinceLastLog(e) >= RefreshInterval
      <4>1. e.logged \in BOOLEAN
        BY <2>1 DEF Prepared, Entry
      <4> QED BY <4>1 DEF KnownReason
    <3>7. e.logged => /\ SinceLastLog(e) \in Nat /\ SinceLastLog(e) <= uptime - PreviousLine.at
                      /\ uptime - PreviousLine.at \in Int
      BY <1>1, <2>1, PreparedAges DEF Never
    <3>8. KnownReason(e) = "refresh" => uptime - PreviousLine.at >= RefreshInterval
      BY <3>6, <3>7, IntervalAssumption
    <3>9. KnownReason(e) = "rssi" => Apart(e.rssi, e.last_logged_rssi)
      BY <3>3, <3>5, DistanceApart
    <3> QED BY <3>1, <3>2, <3>4, <3>8, <3>9
  <2> QED BY <1>1, <2>1, StepKinds, QuietStep
<1> QED BY <1>1, HistoryAlways, PTL DEF HSpec, LineTellsNews

(* No news is withheld beyond what the two limits ask for.                  *)
THEOREM NewsIsTold ==
    ASSUME WholeClock
    PROVE  HSpec => NoNewsWithheld
<1> DEFINE Told ==
        Observed /\ NewsToTell /\ (lineAt = Never \/ Elapsed(lineAt, GlobalInterval)) => LineEmitted
<1>1. ASSUME HistoryInv, [HNext]_hvars
      PROVE  Told
  <2>1. ASSUME NEW o \in Reports, NEW i \in Slots, NEW e, NEW counted,
               Prepared(o, i, e, counted), RecordReport(o)
        PROVE  Told
    <3> SUFFICES ASSUME NewsToTell, lineAt = Never \/ Elapsed(lineAt, GlobalInterval)
                 PROVE  Emitted(e)
      BY <1>1, <2>1, ReportObserved
    <3>1. GlobalLimitExpired
      BY <1>1, GlobalAge DEF GlobalLimitExpired, Elapsed
    <3>2. result'.rssi = e.rssi /\ Reported = DeviceOf(o)
      BY <1>1, <2>1, ReportObserved
    <3>3. heard'[Reported].name = e.name
      <4>1. heard'[DeviceOf(o)] = HeardNow(o)
        BY <1>1, <2>1, ReportDevice, ReportSlots DEF RecordReport, HeardNow
      <4> QED BY <2>1, <3>2, <4>1 DEF Prepared, OwnEntry
    <3>4. e.last_logged_name = PreviousLine.name /\ e.last_logged_rssi = PreviousLine.rssi
          /\ e.logged \in BOOLEAN /\ (e.logged <=> PreviousLine.at # Never)
      BY <1>1, <2>1, PreparedAges
    <3>5. e.logged /\ uptime - PreviousLine.at < UINT_MOD
            => SinceLastLog(e) = uptime - PreviousLine.at
      BY <1>1, <2>1, PreparedAges
    <3>6. e.rssi \in Signals /\ e.last_logged_rssi \in Signals
      BY <2>1 DEF Prepared, Entry
    <3>7. CASE PreviousLine.at = Never
      BY <3>1, <3>4, <3>7 DEF Emitted, KnownReason
    <3>8. CASE /\ PreviousLine.at # Never /\ Elapsed(PreviousLine.at, MinInterval)
               /\ \/ heard'[Reported].name # PreviousLine.name
                  \/ Apart(result'.rssi, PreviousLine.rssi)
      <4>1. e.logged /\ RateLimitExpired(e)
        BY <3>4, <3>5, <3>8 DEF Elapsed, RateLimitExpired
      <4>2. NameChanged(e) \/ RssiChanged(e)
        BY <3>2, <3>3, <3>4, <3>6, <3>8, DistanceApart DEF NameChanged, RssiChanged
      <4>3. KnownReason(e) # "none"
        BY <4>1, <4>2 DEF KnownReason
      <4> QED BY <3>1, <4>3 DEF Emitted
    <3>9. CASE PreviousLine.at # Never /\ Elapsed(PreviousLine.at, RefreshInterval)
      <4>1. e.logged /\ SinceLastLog(e) >= RefreshInterval
        BY <3>4, <3>5, <3>9 DEF Elapsed
      <4>2. KnownReason(e) # "none"
        BY <4>1 DEF KnownReason
      <4> QED BY <3>1, <4>2 DEF Emitted
    <3> QED BY <3>7, <3>8, <3>9 DEF NewsToTell
  <2> QED BY <1>1, <2>1, StepKinds, QuietStep
<1> QED BY <1>1, HistoryAlways, PTL DEF HSpec, NoNewsWithheld

(* docs/ARCHITECTURE.md "oldest-seen entry evicted when full", in true time *)
(* and across every clock wrap.                                             *)
THEOREM OldestIsEvicted ==
    ASSUME WholeClock
    PROVE  HSpec => OldestEvicted
<1> DEFINE Oldest ==
        (\A x \in Tracked : uptime - heard[x].at < UINT_MOD)
            => \A d \in Tracked \ Tracked' : \A x \in Tracked : heard[d].at <= heard[x].at
<1>1. ASSUME HistoryInv, [HNext]_hvars
      PROVE  Oldest
  <2>1. ASSUME NEW o \in Reports, NEW i \in Slots, NEW e, NEW counted,
               Prepared(o, i, e, counted),
               \A x \in Tracked : uptime - heard[x].at < UINT_MOD,
               NEW d \in Tracked \ Tracked', NEW x \in Tracked
        PROVE  heard[d].at <= heard[x].at
    <3>1. PICK j \in Occupied : x = DeviceOf(entries[j])
      BY DEF Tracked
    <3>2. i \in Occupied /\ d = DeviceOf(entries[i])
      <4>1. PICK k \in Occupied : d = DeviceOf(entries[k])
        BY DEF Tracked
      <4>2. ASSUME k # i PROVE FALSE
        <5>1. k \in Occupied' /\ entries'[k] = entries[k]
          BY <1>1, <2>1, <4>2, ReportSlots DEF Occupied
        <5> QED BY <4>1, <5>1 DEF Tracked, DeviceOf
      <4> QED BY <4>1, <4>2
    <3>3. d # DeviceOf(o)
      BY <1>1, <2>1, ReportSlots
    <3>4. i \in OldestSlots
      BY <2>1, <3>2, <3>3 DEF Prepared
    <3>5. Age(j) <= Age(i)
      BY <3>4 DEF OldestSlots, Occupied
    <3>6. ASSUME NEW k \in Occupied
          PROVE  /\ Age(k) = uptime - heard[DeviceOf(entries[k])].at
                 /\ heard[DeviceOf(entries[k])].at \in Nat
      <4>1. StoredAs(entries[k].last_seen_ms, heard[DeviceOf(entries[k])].at) /\ uptime \in Nat
        BY <1>1 DEF HistoryInv, EntriesLinked, OwnEntry, SlotsInv, TypeOK
      <4>2. uptime - heard[DeviceOf(entries[k])].at < UINT_MOD
        BY <2>1 DEF Tracked
      <4>3. heard[DeviceOf(entries[k])].at \in Nat
        BY <4>1 DEF StoredAs
      <4> QED BY <4>1, <4>2, <4>3, StoredElapsed DEF Age
    <3>7. uptime \in Nat
      BY <1>1 DEF HistoryInv, SlotsInv, TypeOK
    <3> QED BY <3>1, <3>2, <3>5, <3>6, <3>7
  <2> QED BY <1>1, <2>1, StepKinds, QuietStep
<1> QED BY <1>1, HistoryAlways, PTL DEF HSpec, OldestEvicted

--------------------------------------------------------------------------------

(* Every report is concluded once, in one slot. *)
LEMMA ObserveConcludes ==
    ASSUME NEW o \in Reports, Observe(o)
    PROVE  \E i \in Slots : \E e, reason :
              \E counted \in SUBSET {"discoveries", "active_devices", "cache_evictions"} :
                  Conclude(o, i, e, reason, counted)
<1> DEFINE Bumped == SUBSET {"discoveries", "active_devices", "cache_evictions"}
<1>0. /\ {} \in Bumped /\ {"discoveries", "active_devices"} \in Bumped
      /\ {"discoveries", "cache_evictions"} \in Bumped
  OBVIOUS
<1> HIDE DEF Bumped
<1>1. CASE ObserveKnown(o)
  <2>1. \E i \in Slots : \E e, reason : \E counted \in Bumped : Conclude(o, i, e, reason, counted)
    BY <1>0, <1>1, Zenon DEF ObserveKnown
  <2> QED BY <2>1 DEF Bumped
<1>2. CASE ObserveNew(o)
  <2>1. \E i \in Slots : \E e, reason : \E counted \in Bumped : Conclude(o, i, e, reason, counted)
    BY <1>0, <1>2, Zenon DEF ObserveNew
  <2> QED BY <2>1 DEF Bumped
<1>3. CASE ObserveEvicting(o)
  <2>1. \E i \in Slots : \E e, reason : \E counted \in Bumped : Conclude(o, i, e, reason, counted)
    BY <1>0, <1>3, Zenon DEF ObserveEvicting
  <2> QED BY <2>1 DEF Bumped
<1> QED BY <1>1, <1>2, <1>3 DEF Observe, Bumped

--------------------------------------------------------------------------------
(* The counts of the summary. *)

LEMMA CountUp ==
    ASSUME NEW n \in Nat
    PROVE  IncCounter(n % UINT_MOD) = (n + 1) % UINT_MOD
BY ModSum DEF IncCounter

LEMMA AccountsKept ==
    ASSUME HistoryInv, ReportsAccounted, [HNext]_hvars
    PROVE  ReportsAccounted'
<1>1. handled \in Nat /\ lines \in Nat /\ lines <= handled
  BY DEF HistoryInv, HistoryTypeOK
<1>2. ASSUME NEW o \in Reports, HObserve(o)
      PROVE  ReportsAccounted'
  <2>0. PICK i \in Slots : \E e, reason :
             \E counted \in SUBSET {"discoveries", "active_devices", "cache_evictions"} :
                 Conclude(o, i, e, reason, counted)
    BY <1>2, ObserveConcludes DEF HObserve
  <2>1. PICK e, reason :
             \E counted \in SUBSET {"discoveries", "active_devices", "cache_evictions"} :
                 Conclude(o, i, e, reason, counted)
    BY <2>0
  <2> PICK counted \in SUBSET {"discoveries", "active_devices", "cache_evictions"} :
                 Conclude(o, i, e, reason, counted)
    BY <2>1
  <2> DEFINE emit == reason # "none" /\ GlobalLimitExpired
  <2>2. result'.reason # "none" <=> emit
    BY DEF Conclude
  <2>3. stats'["total_reports"] = IncCounter(stats["total_reports"])
    BY DEF Conclude, Bump, Counters
  <2>4. stats'["suppressed_logs"] =
            IF emit THEN stats["suppressed_logs"] ELSE IncCounter(stats["suppressed_logs"])
    BY DEF Conclude, Bump, Counters
  <2>5. LineEmitted <=> emit
    <3>1. stats["total_reports"] \in Uint
      BY DEF HistoryInv, SlotsInv, TypeOK, Counters
    <3> QED BY <2>2, <2>3, <3>1, CounterMoves DEF LineEmitted, Observed
  <2> HIDE DEF emit
  <2>6. handled' = handled + 1 /\ lines' = IF emit THEN lines + 1 ELSE lines
    BY <1>2, <2>5 DEF HObserve, RecordReport
  <2>7. stats'["total_reports"] = handled' % UINT_MOD
    BY <1>1, <2>3, <2>6, CountUp DEF ReportsAccounted
  <2>8. CASE emit
    <3>1. handled' - lines' = handled - lines
      BY <1>1, <2>6, <2>8
    <3> QED BY <2>4, <2>7, <2>8, <3>1 DEF ReportsAccounted
  <2>9. CASE ~emit
    <3>1. handled' - lines' = (handled - lines) + 1 /\ handled - lines \in Nat
      BY <1>1, <2>6, <2>9
    <3> QED BY <2>4, <2>7, <2>9, <3>1, CountUp DEF ReportsAccounted
  <2> QED BY <2>8, <2>9
<1>3. CASE HAppProcessAction \/ HTick \/ UNCHANGED hvars
  BY <1>3 DEF HAppProcessAction, AppProcessAction, SnapshotSummary, RecordSummary, HTick, Tick,
              hvars, vars, history, ReportsAccounted
<1> QED BY <1>2, <1>3 DEF HNext

(* "reports" and "suppressed" of the summary count every report and every   *)
(* report without a line, up to the wrap of the counters, for ever.         *)
THEOREM ReportsAreAccounted ==
    ASSUME WholeClock
    PROVE  HSpec => []ReportsAccounted
<1>1. HInit => ReportsAccounted
  BY UintAssumption DEF HInit, Init, Counters, ReportsAccounted
<1> QED BY <1>1, AccountsKept, HistoryAlways, PTL DEF HSpec

--------------------------------------------------------------------------------
(* The number of tracked devices is the number of occupied slots. *)
LEMMA TrackedCount ==
    ASSUME SlotsInv
    PROVE  /\ IsFiniteSet(Tracked) /\ Cardinality(Tracked) \in Nat
           /\ Cardinality(Tracked) <= Capacity
           /\ Cardinality(Tracked) = Capacity <=> EmptySlots = {}
<1> DEFINE f == [i \in Occupied |-> DeviceOf(entries[i])]
<1>1. f \in Bijection(Occupied, Tracked)
  <2>1. f \in Injection(Occupied, Tracked)
    BY DEF Tracked, SlotsInv, UniqueDevices, Injection, IsInjective
  <2>2. f \in Surjection(Occupied, Tracked)
    BY DEF Tracked, Surjection
  <2> QED BY <2>1, <2>2 DEF Bijection
<1>2. IsFiniteSet(Slots) /\ Cardinality(Slots) = Capacity
  BY FS_Interval, CapacityAssumption DEF Slots
<1>3. Occupied \in SUBSET Slots
  BY DEF Occupied
<1>4. /\ IsFiniteSet(Occupied) /\ Cardinality(Occupied) <= Capacity
      /\ Cardinality(Occupied) = Capacity => Occupied = Slots
  BY <1>2, <1>3, FS_Subset
<1>5. ExistsBijection(Occupied, Tracked)
  BY <1>1 DEF ExistsBijection
<1>6. IsFiniteSet(Tracked) /\ Cardinality(Tracked) = Cardinality(Occupied)
  BY <1>4, <1>5, FS_Bijection
<1>7. EmptySlots = {} <=> Occupied = Slots
  BY DEF EmptySlots, Occupied
<1> QED BY <1>2, <1>4, <1>6, <1>7, FS_CardinalityType

(* What a prepared report does to the set of tracked devices. *)
LEMMA TrackedGrows ==
    ASSUME HistoryInv, NEW o \in Reports, NEW i \in Slots, NEW e, NEW counted,
           Prepared(o, i, e, counted), i \notin Occupied \/ DeviceOf(entries[i]) = DeviceOf(o)
    PROVE  /\ Tracked' = Tracked \cup {DeviceOf(o)}
           /\ DeviceOf(o) \in Tracked \/ Cardinality(Tracked) < Capacity
<1>1. \A j \in Slots : j # i => entries'[j] = entries[j]
  BY ReportSlots
<1>2. Occupied' = Occupied \cup {i} /\ DeviceOf(entries'[i]) = DeviceOf(o)
  BY ReportSlots
<1>3. Tracked' = Tracked \cup {DeviceOf(o)}
  <2>1. \A j \in Occupied : j # i => DeviceOf(entries'[j]) = DeviceOf(entries[j])
    BY <1>1 DEF Occupied
  <2>2. Tracked' = {DeviceOf(entries'[j]) : j \in Occupied'}
    BY DEF Tracked, DeviceOf
  <2> QED BY <1>2, <2>1, <2>2 DEF Tracked
<1>4. i \in Occupied => DeviceOf(o) \in Tracked
  BY DEF Tracked
<1>5. i \notin Occupied => Cardinality(Tracked) < Capacity
  <2>1. i \notin Occupied => EmptySlots # {}
    BY DEF Occupied, EmptySlots
  <2> QED BY <2>1, TrackedCount, CapacityAssumption DEF HistoryInv
<1> QED BY <1>3, <1>4, <1>5

LEMMA TrackedReplaced ==
    ASSUME HistoryInv, NEW o \in Reports, NEW i \in Slots, NEW e, NEW counted,
           Prepared(o, i, e, counted), Observe(o),
           i \in Occupied, DeviceOf(entries[i]) # DeviceOf(o)
    PROVE  /\ DeviceOf(o) \notin Tracked /\ Cardinality(Tracked) = Capacity
           /\ DeviceOf(entries[i]) \in Tracked /\ i \in OldestSlots
           /\ Tracked' = (Tracked \ {DeviceOf(entries[i])}) \cup {DeviceOf(o)}
           /\ Cardinality(Tracked') = Capacity
<1>1. \A j \in Slots : j # i => entries'[j] = entries[j]
  BY ReportSlots
<1>2. Occupied' = Occupied \cup {i} /\ DeviceOf(entries'[i]) = DeviceOf(o)
  BY ReportSlots
<1>3. DeviceOf(o) \notin Tracked
  BY DEF Prepared, Tracked
<1>4. MatchingSlots(o) = {}
  BY <1>3, MatchingAreOccupied DEF Tracked
<1>5. EmptySlots = {}
  <2>1. ASSUME ObserveNew(o) PROVE FALSE
    <3>1. PICK k \in Slots : k \in EmptySlots /\ Conclude(o, k, NewEntry(o), "first",
                                                          {"discoveries", "active_devices"})
      BY <2>1 DEF ObserveNew, IsFirst
    <3>2. k # i /\ entries'[k] = entries[k] /\ ~entries[k].occupied
      BY <1>1, <3>1 DEF EmptySlots, Occupied
    <3>3. entries'[k].occupied
      <4>1. NewEntry(o) \in Entry /\ NewEntry(o).occupied
        BY NewEntryType DEF NewEntry, EmptyEntry, HistoryInv, SlotsInv, TypeOK
      <4> QED BY <3>1, <4>1, ConcludeSlot DEF HistoryInv, SlotsInv
    <3> QED BY <3>2, <3>3
  <2>2. ~ObserveKnown(o)
    BY <1>4 DEF ObserveKnown, IsFirst
  <2> QED BY <2>1, <2>2 DEF Observe, ObserveEvicting
<1>6. Cardinality(Tracked) = Capacity /\ IsFiniteSet(Tracked)
  BY <1>5, TrackedCount DEF HistoryInv
<1>7. DeviceOf(entries[i]) \in Tracked
  BY DEF Tracked
<1>8. Tracked' = (Tracked \ {DeviceOf(entries[i])}) \cup {DeviceOf(o)}
  <2>1. \A j \in Occupied : j # i => /\ DeviceOf(entries'[j]) = DeviceOf(entries[j])
                                     /\ DeviceOf(entries[j]) # DeviceOf(entries[i])
    BY <1>1 DEF Occupied, HistoryInv, SlotsInv, UniqueDevices
  <2>2. Tracked' = {DeviceOf(entries'[j]) : j \in Occupied'}
    BY DEF Tracked, DeviceOf
  <2> QED BY <1>2, <2>1, <2>2 DEF Tracked
<1>9. Cardinality(Tracked') = Capacity
  <2> DEFINE rest == Tracked \ {DeviceOf(entries[i])}
  <2>1. IsFiniteSet(rest) /\ Cardinality(rest) = Capacity - 1
    BY <1>6, <1>7, FS_RemoveElement
  <2>2. DeviceOf(o) \notin rest
    BY <1>3
  <2> HIDE DEF rest
  <2>3. Cardinality(rest \cup {DeviceOf(o)}) = (Capacity - 1) + 1
    BY <2>1, <2>2, FS_AddElement
  <2> QED BY <1>8, <2>3, CapacityAssumption DEF rest
<1> QED BY <1>3, <1>6, <1>7, <1>8, <1>9 DEF Prepared

(* A device is forgotten only in a full cache, for a new one.               *)
THEOREM EvictedWhenFull ==
    ASSUME WholeClock
    PROVE  HSpec => EvictedOnlyWhenFull
<1> DEFINE Full ==
        \A d \in Tracked \ Tracked' :
            /\ Cardinality(Tracked) = Capacity /\ Cardinality(Tracked') = Capacity
            /\ Tracked' = (Tracked \ {d}) \cup {Reported} /\ Reported \notin Tracked
<1>1. ASSUME HistoryInv, [HNext]_hvars
      PROVE  Full
  <2>1. ASSUME NEW o \in Reports, HObserve(o)
        PROVE  Full
    <3>1. PICK i \in Slots : \E e, counted : Prepared(o, i, e, counted)
      BY <1>1, <2>1, ReportPrepared DEF HObserve
    <3>2. PICK e, counted : Prepared(o, i, e, counted)
      BY <3>1
    <3>3. Reported = DeviceOf(o)
      BY <1>1, <3>2, ReportObserved
    <3>4. CASE i \notin Occupied \/ DeviceOf(entries[i]) = DeviceOf(o)
      BY <1>1, <3>2, <3>4, TrackedGrows
    <3>5. CASE i \in Occupied /\ DeviceOf(entries[i]) # DeviceOf(o)
      <4>1. /\ DeviceOf(o) \notin Tracked /\ Cardinality(Tracked) = Capacity
            /\ Tracked' = (Tracked \ {DeviceOf(entries[i])}) \cup {DeviceOf(o)}
            /\ Cardinality(Tracked') = Capacity
        BY <1>1, <2>1, <3>2, <3>5, TrackedReplaced DEF HObserve
      <4> QED BY <3>3, <4>1
    <3> QED BY <3>4, <3>5
  <2>2. CASE HAppProcessAction \/ HTick \/ UNCHANGED hvars
    <3>1. Tracked' = Tracked
      BY <2>2 DEF HAppProcessAction, AppProcessAction, SnapshotSummary, HTick, Tick, hvars, vars,
                  Tracked, Occupied, DeviceOf
    <3> QED BY <3>1
  <2> QED BY <1>1, <2>1, <2>2 DEF HNext
<1> QED BY <1>1, HistoryAlways, PTL DEF HSpec, EvictedOnlyWhenFull

--------------------------------------------------------------------------------
(* The refinement: the log of the tracker is a log as ScanLog allows it.    *)

LEMMA SameCardinality == \A S : Log!Cardinality(S) = Cardinality(S)
BY DEF Log!Cardinality, Cardinality, Log!IsFiniteSet, IsFiniteSet

LEMMA RememberedIsTracked ==
    ASSUME HistoryInv
    PROVE  Log!Remembered = Tracked
<1>1. \A x \in Tracked : x \in Device /\ heard[x].at # Never
  <2>1. ASSUME NEW j \in Occupied
        PROVE  DeviceOf(entries[j]) \in Device /\ heard[DeviceOf(entries[j])].at # Never
    <3>1. entries[j] \in Entry /\ uptime \in Nat
      BY DEF Occupied, HistoryInv, SlotsInv, TypeOK
    <3>2. StoredAs(entries[j].last_seen_ms, heard[DeviceOf(entries[j])].at)
      BY DEF HistoryInv, EntriesLinked, OwnEntry
    <3> QED BY <3>1, <3>2 DEF StoredAs, Never, Entry, DeviceOf, Device
  <2> QED BY <2>1 DEF Tracked
<1>2. \A x \in Device \ Tracked : heard[x].at = Never
  BY DEF HistoryInv, UntrackedForgotten, Unheard
<1> QED BY <1>1, <1>2 DEF Log!Remembered, HeardOf, Log!Never, Never

(* The device a report displaces is the one ScanLog allows to be forgotten. *)
LEMMA DisplacedIsOldest ==
    ASSUME WholeClock, HistoryInv, NEW i \in Occupied, i \in OldestSlots
    PROVE  Log!Oldest(DeviceOf(entries[i]))
<1> DEFINE v == DeviceOf(entries[i])
<1> SUFFICES ASSUME \A x \in Tracked : uptime - heard[x].at < UINT_MOD,
                    NEW x \in Tracked
             PROVE  heard[v].at <= heard[x].at
  <2>1. \A x \in Tracked \cup {v} : HeardOf[x].at = heard[x].at
    <3>1. Tracked \subseteq Device /\ v \in Tracked
      BY RememberedIsTracked DEF Log!Remembered, Tracked
    <3> QED BY <3>1 DEF HeardOf
  <2> QED BY <2>1, RememberedIsTracked DEF Log!Oldest
<1>1. PICK j \in Occupied : x = DeviceOf(entries[j])
  BY DEF Tracked
<1>2. Age(j) <= Age(i)
  BY DEF OldestSlots, Occupied
<1>3. ASSUME NEW k \in Occupied
      PROVE  /\ Age(k) = uptime - heard[DeviceOf(entries[k])].at
             /\ heard[DeviceOf(entries[k])].at \in Nat
  <2>1. StoredAs(entries[k].last_seen_ms, heard[DeviceOf(entries[k])].at) /\ uptime \in Nat
    BY DEF HistoryInv, EntriesLinked, OwnEntry, SlotsInv, TypeOK
  <2>2. uptime - heard[DeviceOf(entries[k])].at < UINT_MOD
    BY DEF Tracked
  <2>3. heard[DeviceOf(entries[k])].at \in Nat
    BY <2>1 DEF StoredAs
  <2> QED BY <2>1, <2>2, <2>3, StoredElapsed DEF Age
<1>4. uptime \in Nat
  BY DEF HistoryInv, SlotsInv, TypeOK
<1> QED BY <1>1, <1>2, <1>3, <1>4

(* The devices a report makes the tracker forget. *)
LEMMA ForgottenAllowed ==
    ASSUME WholeClock, HistoryInv, NEW o \in Reports, NEW i \in Slots, NEW e, NEW counted,
           Prepared(o, i, e, counted), Observe(o)
    PROVE  Tracked \ Tracked' \in Log!Forgotten(DeviceOf(o))
<1>1. CASE i \notin Occupied \/ DeviceOf(entries[i]) = DeviceOf(o)
  <2>1. Tracked \ Tracked' = {}
    BY <1>1, TrackedGrows
  <2>2. DeviceOf(o) \in Log!Remembered \/ Cardinality(Log!Remembered) < Capacity
    BY <1>1, TrackedGrows, RememberedIsTracked
  <2> QED BY <2>1, <2>2, SameCardinality DEF Log!Forgotten
<1>2. CASE i \in Occupied /\ DeviceOf(entries[i]) # DeviceOf(o)
  <2> DEFINE v == DeviceOf(entries[i])
  <2>1. /\ DeviceOf(o) \notin Tracked /\ Cardinality(Tracked) = Capacity
        /\ v \in Tracked /\ i \in OldestSlots
        /\ Tracked' = (Tracked \ {v}) \cup {DeviceOf(o)}
    BY <1>2, TrackedReplaced
  <2>2. v \in Log!Remembered /\ Log!Oldest(v)
    BY <1>2, <2>1, RememberedIsTracked, DisplacedIsOldest
  <2>3. Log!Forgotten(DeviceOf(o)) = {{x} : x \in {y \in Log!Remembered : Log!Oldest(y)}}
    BY <2>1, RememberedIsTracked, SameCardinality, CapacityAssumption DEF Log!Forgotten
  <2>4. Tracked \ Tracked' = {v}
    BY <1>2, <2>1
  <2> HIDE DEF v
  <2> QED BY <2>2, <2>3, <2>4
<1> QED BY <1>1, <1>2

(* The reason of a line is a ground the log accepts, in true time. *)
LEMMA ReasonAllowed ==
    ASSUME WholeClock, HistoryInv, NEW o \in Reports, NEW i \in Slots, NEW e, NEW counted,
           Prepared(o, i, e, counted), Emitted(e)
    PROVE  Log!May(KnownReason(e), DeviceOf(o), e.name, e.rssi)
<1> DEFINE s == shown[DeviceOf(o)]
<1>1. /\ uptime \in Nat /\ s.at \in Nat \cup {Never}
      /\ e.logged \in BOOLEAN /\ (e.logged <=> s.at # Never)
      /\ e.logged => SinceLastLog(e) \in Nat /\ SinceLastLog(e) <= uptime - s.at
      /\ e.last_logged_name = s.name /\ e.last_logged_rssi = s.rssi
  BY PreparedAges
<1>2. lineAt = Never \/ uptime - lineAt >= GlobalInterval
  BY <1>1, GlobalAge, IntervalAssumption DEF Emitted, GlobalLimitExpired, Never
<1>3. KnownReason(e) = "first" <=> s.at = Never
  BY <1>1 DEF KnownReason
<1>4. KnownReason(e) # "first" /\ KnownReason(e) # "none" => SinceLastLog(e) >= MinInterval
  BY <1>1, IntervalAssumption DEF KnownReason, RateLimitExpired
<1>5. KnownReason(e) # "first" => uptime - s.at >= MinInterval
  BY <1>1, <1>3, <1>4, IntervalAssumption DEF Emitted, Never
<1>6. KnownReason(e) = "name" => e.name # s.name
  BY <1>1 DEF KnownReason, NameChanged
<1>7. KnownReason(e) = "rssi" => Apart(e.rssi, s.rssi)
  <2>1. e.rssi \in Signals /\ e.last_logged_rssi \in Signals
    BY DEF Prepared, Entry
  <2> QED BY <1>1, <2>1, DistanceApart DEF KnownReason, RssiChanged
<1>8. KnownReason(e) = "refresh" => uptime - s.at >= RefreshInterval
  <2>1. KnownReason(e) = "refresh" => e.logged /\ SinceLastLog(e) >= RefreshInterval
    BY <1>1 DEF KnownReason
  <2> QED BY <1>1, <2>1, IntervalAssumption DEF Never
<1> QED BY <1>2, <1>3, <1>5, <1>6, <1>7, <1>8
        DEF Log!May, Log!Since, Log!Apart, Apart, Log!Never, Never

(* A report without a line has nothing the log would have to tell. *)
LEMMA SilenceAllowed ==
    ASSUME WholeClock, HistoryInv, NEW o \in Reports, NEW i \in Slots, NEW e, NEW counted,
           Prepared(o, i, e, counted), Log!Must(DeviceOf(o), e.name, e.rssi)
    PROVE  Emitted(e)
<1> DEFINE s == shown[DeviceOf(o)]
<1>1. /\ uptime \in Nat /\ s.at \in Nat \cup {Never}
      /\ e.logged \in BOOLEAN /\ (e.logged <=> s.at # Never)
      /\ e.logged /\ uptime - s.at < UINT_MOD => SinceLastLog(e) = uptime - s.at
      /\ e.last_logged_name = s.name /\ e.last_logged_rssi = s.rssi
  BY PreparedAges
<1>2. GlobalLimitExpired
  BY GlobalAge DEF GlobalLimitExpired, Log!Must, Log!Surely, Log!Since, Log!Never, Never
<1>3. CASE s.at = Never
  BY <1>1, <1>2, <1>3 DEF Emitted, KnownReason
<1>4. CASE /\ s.at # Never /\ uptime - s.at >= MinInterval /\ uptime - s.at < UINT_MOD
           /\ e.name # s.name \/ Apart(e.rssi, s.rssi)
  <2>1. e.rssi \in Signals /\ e.last_logged_rssi \in Signals
    BY DEF Prepared, Entry
  <2>2. e.logged /\ RateLimitExpired(e)
    BY <1>1, <1>4 DEF RateLimitExpired
  <2>3. NameChanged(e) \/ RssiChanged(e)
    BY <1>1, <1>4, <2>1, DistanceApart DEF NameChanged, RssiChanged
  <2>4. KnownReason(e) # "none"
    BY <2>2, <2>3 DEF KnownReason
  <2> QED BY <1>2, <2>4 DEF Emitted
<1>5. CASE s.at # Never /\ uptime - s.at >= RefreshInterval /\ uptime - s.at < UINT_MOD
  <2>1. e.logged /\ SinceLastLog(e) >= RefreshInterval
    BY <1>1, <1>5
  <2>2. KnownReason(e) # "none"
    BY <2>1 DEF KnownReason
  <2> QED BY <1>2, <2>2 DEF Emitted
<1> QED BY <1>3, <1>4, <1>5 DEF Log!Must, Log!Surely, Log!Since, Log!Apart, Apart, Log!Never, Never

(* A report of the tracker is a report of the log. *)
LEMMA ReportIsReport ==
    ASSUME WholeClock, HistoryInv, NEW o \in Reports, NEW i \in Slots, NEW e, NEW counted,
           Prepared(o, i, e, counted), Observe(o), RecordReport(o)
    PROVE  Log!Report(DeviceOf(o), o.parsed.present, o.parsed.name, o.rssi)
<1> DEFINE d      == DeviceOf(o)
           gone   == Tracked \ Tracked'
           ground == IF Emitted(e) THEN KnownReason(e) ELSE "none"
           name   == IF o.parsed.present THEN o.parsed.name ELSE HeardOf[d].name
<1>1. /\ d \in Device /\ d \in Tracked' /\ d \notin gone
      /\ uptime' = uptime /\ summaryAt' = summaryAt
  BY ReportDevice, ReportSlots DEF Prepared, Conclude, RecordReport
<1>2. e.name = name /\ e.rssi = o.rssi
  BY <1>1 DEF Prepared, OwnEntry, HeardNow, HeardOf
<1>3. /\ LineEmitted <=> Emitted(e)
      /\ Emitted(e) => result'.reason = KnownReason(e)
      /\ DeviceOf(result') = d /\ result'.name = e.name /\ result'.rssi = e.rssi
  BY ReportObserved DEF Reported
<1>4. ground \in Log!Grounds \cup {"none"}
  BY DEF KnownReason, Log!Grounds
<1>5. gone \in Log!Forgotten(d)
  BY ForgottenAllowed
<1>6. \A x \in Device : x \notin Tracked' => heard'[x] = Unheard /\ shown'[x] = Unshown
  BY DEF RecordReport
<1>7. \A x \in Device : x \notin Tracked => heard[x] = Unheard /\ shown[x] = Unshown
  BY DEF HistoryInv, UntrackedForgotten
<1>8. \A x \in Device : x \in Tracked' /\ x # d => heard'[x] = heard[x] /\ shown'[x] = shown[x]
  BY DEF RecordReport
<1>9. HeardOf' = [x \in Device |-> IF x \in gone THEN Log!Unheard
                                   ELSE IF x = d THEN [at |-> uptime, name |-> name]
                                   ELSE HeardOf[x]]
  <2>1. heard'[d].at = uptime /\ heard'[d].name = name
    BY <1>1 DEF RecordReport, HeardOf
  <2>2. \A x \in Device \ {d} : x \notin gone => heard'[x] = heard[x]
    BY <1>6, <1>7, <1>8
  <2>3. \A x \in gone : x \in Device => heard'[x] = Unheard
    BY <1>6
  <2> QED BY <1>1, <2>1, <2>2, <2>3
          DEF HeardOf, Log!Unheard, Unheard, Log!Never, Never
<1>10. shown' = [x \in Device |-> IF x \in gone THEN Log!Unshown
                                  ELSE IF x = d /\ ground # "none"
                                       THEN [at |-> uptime, name |-> name, rssi |-> o.rssi]
                                  ELSE shown[x]]
  <2>1. ground # "none" <=> Emitted(e)
    BY DEF Emitted
  <2>2. shown'[d] = IF Emitted(e) THEN [at |-> uptime, name |-> e.name, rssi |-> e.rssi] ELSE shown[d]
    BY <1>1, <1>3 DEF RecordReport
  <2>3. \A x \in Device \ {d} : x \notin gone => shown'[x] = shown[x]
    BY <1>6, <1>7, <1>8
  <2>4. shown' = [x \in Device |-> shown'[x]]
    BY DEF RecordReport
  <2> HIDE DEF ground, name, gone
  <2>5. \A x \in gone : x \in Device => shown'[x] = Log!Unshown
    BY <1>6 DEF gone, Unshown, Log!Unshown, Never, Log!Never
  <2> QED BY <1>1, <1>2, <2>1, <2>2, <2>3, <2>4, <2>5
<1>11. \/ /\ ground # "none" /\ Log!May(ground, d, name, o.rssi)
          /\ lineAt' = uptime
          /\ LineOf' = [reason |-> ground, device |-> d, name |-> name, rssi |-> o.rssi]
       \/ /\ ground = "none" /\ ~Log!Must(d, name, o.rssi)
          /\ lineAt' = lineAt /\ LineOf' = Log!NoLine
  <2>1. CASE Emitted(e)
    <3>1. ground = KnownReason(e) /\ ground # "none"
      BY <2>1 DEF Emitted
    <3>2. Log!May(KnownReason(e), d, e.name, e.rssi)
      BY <2>1, ReasonAllowed
    <3>3. lineAt' = uptime
      BY <1>3, <2>1 DEF RecordReport
    <3>4. LineOf' = [reason |-> KnownReason(e), device |-> d, name |-> e.name, rssi |-> e.rssi]
      BY <1>3, <2>1, <3>1 DEF LineOf, DeviceOf
    <3> HIDE DEF ground, name, d
    <3> QED BY <1>2, <3>1, <3>2, <3>3, <3>4
  <2>2. CASE ~Emitted(e)
    <3>1. ground = "none"
      BY <2>2
    <3>2. ~Log!Must(d, e.name, e.rssi)
      BY <2>2, SilenceAllowed
    <3>3. lineAt' = lineAt
      BY <1>3, <2>2 DEF RecordReport
    <3>4. result'.reason = "none"
      BY <2>2 DEF Prepared, Conclude, Emitted
    <3>5. LineOf' = Log!NoLine
      BY <3>4 DEF LineOf, Log!NoLine
    <3> HIDE DEF ground, name, d
    <3> QED BY <1>2, <3>1, <3>2, <3>3, <3>5
  <2> QED BY <2>1, <2>2
<1> HIDE DEF ground, name, d, gone
<1>12. UNCHANGED <<uptime, summaryAt>>
  BY <1>1
<1> QED BY <1>4, <1>5, <1>9, <1>10, <1>11, <1>12, Zenon DEF Log!Report, name, d

LEMMA LogInit ==
    ASSUME WholeClock, HInit
    PROVE  Log!Init
<1>1. HeardOf = [d \in Device |-> Log!Unheard]
  BY DEF HInit, HeardOf, Unheard, Log!Unheard, Never, Log!Never
<1>2. shown = [d \in Device |-> Log!Unshown]
  BY DEF HInit, Unshown, Log!Unshown, Never, Log!Never
<1>3. LineOf = Log!NoLine
  BY DEF HInit, Init, NoResult, LineOf, Log!NoLine
<1>4. uptime \in Nat /\ lineAt = Log!Never /\ summaryAt = uptime
  BY ClockAssumption DEF HInit, Init, Never, Log!Never
<1> QED BY <1>1, <1>2, <1>3, <1>4 DEF Log!Init

LEMMA LogStep ==
    ASSUME WholeClock, HistoryInv, [HNext]_hvars
    PROVE  [Log!Next]_Log!lvars
<1>1. ASSUME NEW o \in Reports, HObserve(o)
      PROVE  Log!Next
  <2>1. PICK i \in Slots : \E e, counted : Prepared(o, i, e, counted)
    BY <1>1, ReportPrepared DEF HObserve
  <2>2. PICK e, counted : Prepared(o, i, e, counted)
    BY <2>1
  <2>3. Log!Report(DeviceOf(o), o.parsed.present, o.parsed.name, o.rssi)
    BY <1>1, <2>2, ReportIsReport DEF HObserve
  <2>4. /\ DeviceOf(o) \in Device /\ o.parsed.present \in BOOLEAN
        /\ o.parsed.name \in Names /\ o.rssi \in Signals
    BY ReportDevice, DataAssumption DEF Observations, ParsedNames, Signals
  <2> QED BY <2>3, <2>4 DEF Log!Next
<1>2. CASE HAppProcessAction
  <2>1. uptime - summaryAt >= SummaryInterval
    <3>1. SummaryDueOnTime
      BY DueOnTime
    <3>2. uptime \in Nat /\ summaryAt \in Nat /\ SummaryInterval \in Nat /\ UINT_MAX \div 2 \in Nat
      BY UintAssumption, IntervalAssumption
         DEF HistoryInv, SlotsInv, TypeOK, HistoryTypeOK, UINT_MAX
    <3>3. SummaryDue
      BY <1>2 DEF HAppProcessAction, AppProcessAction
    <3> QED BY <3>1, <3>2, <3>3 DEF SummaryDueOnTime
  <2>2. LineOf' = Log!NoLine
    BY <1>2 DEF HAppProcessAction, AppProcessAction, SnapshotSummary, NoResult, LineOf, Log!NoLine
  <2>3. HeardOf' = HeardOf
    BY <1>2 DEF HAppProcessAction, RecordSummary, HeardOf
  <2>4. Log!Summary
    BY <1>2, <2>1, <2>2, <2>3 DEF HAppProcessAction, AppProcessAction, SnapshotSummary,
                                  RecordSummary, Log!Summary, Log!Since
  <2> QED BY <2>4 DEF Log!Next
<1>3. CASE HTick
  <2>1. LineOf' = Log!NoLine /\ HeardOf' = HeardOf
    BY <1>3 DEF HTick, Tick, history, NoResult, LineOf, Log!NoLine, HeardOf
  <2>2. uptime' = uptime + 1 /\ UNCHANGED <<shown, lineAt, summaryAt>>
    BY <1>3 DEF HTick, Tick, history
  <2>3. Log!Pass
    BY <2>1, <2>2 DEF Log!Pass
  <2> QED BY <2>3 DEF Log!Next
<1>4. CASE UNCHANGED hvars
  BY <1>4 DEF hvars, vars, history, Log!lvars, HeardOf, LineOf, DeviceOf
<1> QED BY <1>1, <1>2, <1>3, <1>4 DEF HNext

(* Slots, 32-bit counters and a wrapping clock keep every promise of the    *)
(* log, stated in true time and without them, for every capacity, clock     *)
(* width and set of intervals (scan_tracker.c:87-246).                      *)
THEOREM TrackerImplementsLog ==
    ASSUME WholeClock
    PROVE  HSpec => ImplementsScanLog
BY LogInit, LogStep, HistoryAlways, PTL DEF HSpec, ImplementsScanLog, Log!Spec

================================================================================
