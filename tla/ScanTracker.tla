------------------------------ MODULE ScanTracker ------------------------------
(***************************************************************************)
(* The bounded device cache and rate limiter of the BLE scanner            *)
(* (firmware/ble_scanner/src/scan_tracker.c), driven as app.c drives it:   *)
(* one scan_tracker_observe per advertisement report, one                  *)
(* scan_tracker_summary_due / scan_tracker_snapshot_summary per pass of    *)
(* the super-loop, both with the clock value uptime_ms() of that moment.   *)
(*                                                                         *)
(* Time is `uptime', the true number of milliseconds since power-up, which *)
(* no code ever sees: the code sees UptimeMs, uptime reduced modulo        *)
(* ClockPeriod.  A payload is abstracted to what parse_local_name makes of *)
(* it: whether a name field was found, the name, whether the payload was   *)
(* malformed.  The module AdParser models that function itself.            *)
(***************************************************************************)
EXTENDS UintArith, FiniteSets

CONSTANTS
    Capacity,           \* SCAN_TRACKER_CAPACITY
    Addresses,          \* device addresses
    AddressTypes,       \* address types (public, random, ...)
    Names,              \* local names, NoName among them
    Rssis,              \* signal strengths in reports
    ZeroAddress,        \* the address made of zero bytes
    ZeroAddressType,    \* the address type 0
    NoName,             \* the empty string
    Reports,            \* the observations the radio can deliver
    RssiDelta,          \* SCAN_TRACKER_RSSI_DELTA_DB
    GlobalInterval,     \* SCAN_TRACKER_GLOBAL_LOG_INTERVAL_MS
    MinInterval,        \* SCAN_TRACKER_MIN_LOG_INTERVAL_MS
    RefreshInterval,    \* SCAN_TRACKER_REFRESH_INTERVAL_MS
    SummaryInterval,    \* SCAN_TRACKER_SUMMARY_INTERVAL_MS
    ClockPeriod,        \* UptimeMs returns to 0 after this many milliseconds
    BootTimes           \* the true times at which app_init may run

(* What parse_local_name can return: no name means the zeroed buffer, and a *)
(* name field of length 1 yields a present but empty name.                  *)
ParsedNames == {p \in [present : BOOLEAN, name : Names, malformed : BOOLEAN] :
                    ~p.present => p.name = NoName}

Observations == [address : Addresses, address_type : AddressTypes,
                 rssi : Rssis, parsed : ParsedNames]

ASSUME CapacityAssumption == Capacity \in Nat /\ 1 <= Capacity /\ Capacity < UINT_MOD
ASSUME DataAssumption ==
    /\ ZeroAddress \in Addresses /\ ZeroAddressType \in AddressTypes
    /\ NoName \in Names
    /\ Rssis \subseteq -128 .. 127
    /\ Reports \subseteq Observations
ASSUME IntervalAssumption ==
    /\ RssiDelta \in Nat
    /\ GlobalInterval \in Nat /\ MinInterval \in Nat
    /\ RefreshInterval \in Nat /\ SummaryInterval \in Nat
    /\ GlobalInterval <= MinInterval /\ MinInterval <= RefreshInterval
    /\ 1 <= SummaryInterval
    /\ RefreshInterval < UINT_MOD /\ SummaryInterval <= UINT_MAX \div 2
ASSUME ClockAssumption ==
    /\ ClockPeriod \in 1 .. UINT_MOD
    /\ BootTimes \subseteq Nat

VARIABLES
    entries,            \* scan_tracker_t.entries
    stats,              \* scan_tracker_t.stats
    next_summary_ms,    \* scan_tracker_t.next_summary_ms
    last_log_ms,        \* scan_tracker_t.last_log_ms
    has_logged,         \* scan_tracker_t.has_logged
    result,             \* what the last step's scan_tracker_observe returned
    uptime              \* true milliseconds since power-up

vars == <<entries, stats, next_summary_ms, last_log_ms, has_logged, result, uptime>>

--------------------------------------------------------------------------------
Slots    == 0 .. (Capacity - 1)
Reasons  == {"none", "first", "name", "rssi", "refresh"}
Counters == {"total_reports", "discoveries", "active_devices",
             "cache_evictions", "suppressed_logs", "malformed_payloads"}
Signals  == Rssis \cup {0}

Entry == [occupied : BOOLEAN, logged : BOOLEAN,
          address : Addresses, address_type : AddressTypes,
          rssi : Signals, last_logged_rssi : Signals,
          name : Names, last_logged_name : Names,
          last_seen_ms : Uint, last_logged_ms : Uint, report_count : Uint]

(* An entry after memset to zero. *)
EmptyEntry == [occupied |-> FALSE, logged |-> FALSE,
               address |-> ZeroAddress, address_type |-> ZeroAddressType,
               rssi |-> 0, last_logged_rssi |-> 0,
               name |-> NoName, last_logged_name |-> NoName,
               last_seen_ms |-> 0, last_logged_ms |-> 0, report_count |-> 0]

Result == [reason : Reasons, address : Addresses, address_type : AddressTypes,
           rssi : Signals, name : Names, report_count : Uint, malformed : BOOLEAN]

NoResult == [reason |-> "none", address |-> ZeroAddress, address_type |-> ZeroAddressType,
             rssi |-> 0, name |-> NoName, report_count |-> 0, malformed |-> FALSE]

Device      == [address : Addresses, address_type : AddressTypes]
DeviceOf(x) == [address |-> x.address, address_type |-> x.address_type]

UptimeMs == uptime % ClockPeriod

(* Faulty: no absolute value. *)
RssiRise(lhs, rhs) == lhs - rhs
RssiDistance(lhs, rhs) == IF lhs - rhs < 0 THEN -(lhs - rhs) ELSE lhs - rhs

--------------------------------------------------------------------------------
(* Choosing the slot of a report.  A definition whose comment says "Faulty" *)
(* is a plausible mistake in the one that follows it; no other definition   *)
(* uses it.                                                                 *)

(* Faulty: the address type is not compared. *)
EntryMatchesAnyType(e, o) == e.occupied /\ e.address = o.address
EntryMatches(e, o) ==
    /\ e.occupied
    /\ e.address_type = o.address_type
    /\ e.address = o.address

MatchingSlots(o) == {i \in Slots : EntryMatches(entries[i], o)}
EmptySlots       == {i \in Slots : ~entries[i].occupied}
Age(i)           == ElapsedMs(UptimeMs, entries[i].last_seen_ms)

(* Faulty: times are compared instead of ages. *)
OldestSlotsByTime == {i \in Slots : \A j \in Slots :
                         entries[i].last_seen_ms <= entries[j].last_seen_ms}
(* The scan keeps the largest age seen so far and replaces it only by a     *)
(* strictly larger one, so among equally old entries the first one wins.    *)
OldestSlots   == {i \in Slots : \A j \in Slots : Age(j) <= Age(i)}

IsFirst(i, S) == i \in S /\ \A j \in S : i <= j

--------------------------------------------------------------------------------
(* The entry after a report, and the reason it gives for a log line. *)

NewEntry(o) ==
    [EmptyEntry EXCEPT
        !.occupied     = TRUE,
        !.address      = o.address,
        !.address_type = o.address_type,
        !.rssi         = o.rssi,
        !.name         = o.parsed.name,
        !.last_seen_ms = UptimeMs,
        !.report_count = 1]

RefreshedEntry(e, o) ==
    [e EXCEPT
        !.rssi         = o.rssi,
        !.last_seen_ms = UptimeMs,
        !.report_count = SaturatingInc(@),
        !.name         = IF o.parsed.present THEN o.parsed.name ELSE @]

SinceLastLog(e)     == ElapsedMs(UptimeMs, e.last_logged_ms)
RateLimitExpired(e) == SinceLastLog(e) >= MinInterval
NameChanged(e)      == e.name # e.last_logged_name
RssiChanged(e)      == RssiDistance(e.rssi, e.last_logged_rssi) >= RssiDelta

(* The reason a known device gives, e being its entry after the report. *)
KnownReason(e) ==
    CASE ~e.logged                                            -> "first"
      [] e.logged /\ RateLimitExpired(e) /\ NameChanged(e)    -> "name"
      [] e.logged /\ RateLimitExpired(e) /\ ~NameChanged(e)
                  /\ RssiChanged(e)                           -> "rssi"
      [] OTHER -> IF SinceLastLog(e) >= RefreshInterval THEN "refresh" ELSE "none"

(* Faulty: a deadline in the future is compared by magnitude. *)
GlobalLimitPassed ==
    \/ ~has_logged
    \/ UptimeMs >= AddMs(last_log_ms, GlobalInterval)
GlobalLimitExpired ==
    \/ ~has_logged
    \/ ElapsedMs(UptimeMs, last_log_ms) >= GlobalInterval

LoggedEntry(e) ==
    [e EXCEPT
        !.logged           = TRUE,
        !.last_logged_ms   = UptimeMs,
        !.last_logged_rssi = e.rssi,
        !.last_logged_name = e.name]

--------------------------------------------------------------------------------
Bump(counted) == [c \in Counters |-> IF c \in counted THEN IncCounter(stats[c]) ELSE stats[c]]

Init ==
    /\ uptime \in BootTimes
    /\ entries = [i \in Slots |-> EmptyEntry]
    /\ stats = [c \in Counters |-> 0]
    /\ next_summary_ms = AddMs(UptimeMs, SummaryInterval)
    /\ last_log_ms = 0
    /\ has_logged = FALSE
    /\ result = NoResult

(* The end of scan_tracker_observe, common to all reports: slot i holds e,  *)
(* which asks for a line for the given reason; the line is emitted if the   *)
(* global limit allows it, otherwise the report counts as suppressed.       *)
Conclude(o, i, e, reason, counted) ==
    LET emit   == reason # "none" /\ GlobalLimitExpired
        stored == IF emit THEN LoggedEntry(e) ELSE e
    IN  /\ entries' = [entries EXCEPT ![i] = stored]
        /\ has_logged' = (has_logged \/ emit)
        /\ last_log_ms' = IF emit THEN UptimeMs ELSE last_log_ms
        /\ stats' = Bump(counted \cup {"total_reports"}
                           \cup (IF o.parsed.malformed THEN {"malformed_payloads"} ELSE {})
                           \cup (IF emit THEN {} ELSE {"suppressed_logs"}))
        /\ result' = [reason |-> IF emit THEN reason ELSE "none",
                      address |-> stored.address, address_type |-> stored.address_type,
                      rssi |-> stored.rssi, name |-> stored.name,
                      report_count |-> stored.report_count,
                      malformed |-> o.parsed.malformed]
        /\ UNCHANGED <<next_summary_ms, uptime>>

ObserveKnown(o) ==
    \E i \in Slots :
        /\ IsFirst(i, MatchingSlots(o))
        /\ LET e == RefreshedEntry(entries[i], o)
           IN  Conclude(o, i, e, KnownReason(e), {})

ObserveNew(o) ==
    /\ MatchingSlots(o) = {}
    /\ \E i \in Slots :
        /\ IsFirst(i, EmptySlots)
        /\ Conclude(o, i, NewEntry(o), "first", {"discoveries", "active_devices"})

ObserveEvicting(o) ==
    /\ MatchingSlots(o) = {}
    /\ EmptySlots = {}
    /\ \E i \in Slots :
        /\ IsFirst(i, OldestSlots)
        /\ Conclude(o, i, NewEntry(o), "first", {"discoveries", "cache_evictions"})

Observe(o) == ObserveKnown(o) \/ ObserveNew(o) \/ ObserveEvicting(o)

(* app_process_action: one pass of the super-loop prints a summary when it  *)
(* is due.  The statistics it prints are returned unchanged: they are       *)
(* cumulative.                                                              *)
SummaryDue == DeadlineReached(UptimeMs, next_summary_ms)

SnapshotSummary ==
    /\ next_summary_ms' = AddMs(UptimeMs, SummaryInterval)
    /\ result' = NoResult
    /\ UNCHANGED <<entries, stats, last_log_ms, has_logged, uptime>>

AppProcessAction == SummaryDue /\ SnapshotSummary

Tick ==
    /\ uptime' = uptime + 1
    /\ result' = NoResult
    /\ UNCHANGED <<entries, stats, next_summary_ms, last_log_ms, has_logged>>

Next ==
    \/ \E o \in Reports : Observe(o)
    \/ AppProcessAction
    \/ Tick

Spec == Init /\ [][Next]_vars

--------------------------------------------------------------------------------
(* Every field stays within its C type. *)
TypeOK ==
    /\ entries \in [Slots -> Entry]
    /\ stats \in [Counters -> Uint]
    /\ next_summary_ms \in Uint /\ last_log_ms \in Uint
    /\ has_logged \in BOOLEAN
    /\ result \in Result
    /\ uptime \in Nat

Occupied == {i \in Slots : entries[i].occupied}
Tracked  == {DeviceOf(entries[i]) : i \in Occupied}

(* A device never owns two slots: select_entry finds the entry of a tracked *)
(* device whatever happened to the cache in between (scan_tracker.c:79-103).*)
UniqueDevices ==
    \A i, j \in Occupied : DeviceOf(entries[i]) = DeviceOf(entries[j]) => i = j

(* The slots in use are the first active_devices ones, so the "active"      *)
(* figure of the summary is the size of the cache, and no slot is lost to   *)
(* or leaked by an eviction (scan_tracker.c:98-122, 134-141).               *)
ActiveIsPrefix == Occupied = 0 .. (stats["active_devices"] - 1)

(* The counters of the summary line agree with each other, even after they  *)
(* wrapped: what was discovered is still active or was evicted.             *)
DiscoveriesAccounted ==
    stats["discoveries"] =
        (stats["active_devices"] + stats["cache_evictions"]) % UINT_MOD

================================================================================
