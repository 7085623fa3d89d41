---------------------------- MODULE TrackerHistory ----------------------------
(***************************************************************************)
(* ScanTracker with history variables.  The tracker keeps 32-bit times and *)
(* forgets evicted devices; the variables of this module record in true    *)
(* time what happened, so that the promises of the log (README.md,         *)
(* docs/ARCHITECTURE.md) can be stated about what a reader of the log sees *)
(* and not about the tracker's own fields.  They never influence a step.   *)
(***************************************************************************)
EXTENDS ScanTracker

VARIABLES
    lineAt,     \* when the last line about any device was emitted
    handled,    \* how many reports were handled
    lines,      \* how many of them had a line emitted
    heard,      \* per tracked device: its reports since it entered the cache
    shown,      \* per tracked device: its last line since it entered the cache
    summaryAt   \* when the last summary was printed (boot counts as one)

history == <<lineAt, handled, lines, heard, shown, summaryAt>>
hvars   == <<vars, history>>

Never   == -1
Unheard == [at |-> Never, name |-> NoName, reports |-> 0]
Unshown == [at |-> Never, name |-> NoName, rssi |-> 0]

(* What a step that handled a report looks like from outside, the device    *)
(* the report and its line are about, and that device's previous line.      *)
Observed     == stats'["total_reports"] # stats["total_reports"]
LineEmitted  == Observed /\ result'.reason # "none"
Reported     == DeviceOf(result')
PreviousLine == shown[Reported]

RecordReport(o) ==
    LET d == DeviceOf(o)
    IN  /\ heard' = [x \in Device |->
              IF x \notin Tracked' THEN Unheard
              ELSE IF x # d THEN heard[x]
              ELSE [at      |-> uptime,
                    name    |-> IF o.parsed.present THEN o.parsed.name ELSE heard[x].name,
                    reports |-> heard[x].reports + 1]]
        /\ shown' = [x \in Device |->
              IF x \notin Tracked' THEN Unshown
              ELSE IF x # d \/ ~LineEmitted THEN shown[x]
              ELSE [at |-> uptime, name |-> result'.name, rssi |-> result'.rssi]]
        /\ lineAt' = IF LineEmitted THEN uptime ELSE lineAt
        /\ handled' = handled + 1
        /\ lines' = IF LineEmitted THEN lines + 1 ELSE lines
        /\ UNCHANGED summaryAt

RecordSummary ==
    /\ summaryAt' = uptime
    /\ UNCHANGED <<lineAt, handled, lines, heard, shown>>

HInit ==
    /\ Init
    /\ lineAt = Never
    /\ handled = 0 /\ lines = 0
    /\ heard = [x \in Device |-> Unheard]
    /\ shown = [x \in Device |-> Unshown]
    /\ summaryAt = uptime

HObserve(o)       == Observe(o) /\ RecordReport(o)
HAppProcessAction == AppProcessAction /\ RecordSummary
HTick             == Tick /\ UNCHANGED history

HNext ==
    \/ \E o \in Reports : HObserve(o)
    \/ HAppProcessAction
    \/ HTick

HSpec == HInit /\ [][HNext]_hvars

--------------------------------------------------------------------------------
HistoryTypeOK ==
    /\ lineAt \in Nat \cup {Never} /\ summaryAt \in Nat
    /\ handled \in Nat /\ lines \in 0 .. handled
    /\ heard \in [Device -> [at : Nat \cup {Never}, name : Names, reports : Nat]]
    /\ shown \in [Device -> [at : Nat \cup {Never}, name : Names, rssi : Signals]]

(* README.md "one log line per 250 ms": however many devices advertise and  *)
(* wherever the clock wraps, two lines are at least GlobalInterval of true  *)
(* time apart (scan_tracker.c:210-220).                                     *)
GlobalCeiling ==
    [][LineEmitted /\ lineAt # Never => uptime - lineAt >= GlobalInterval]_hvars

(* Two lines about one device are at least MinInterval of true time apart   *)
(* for as long as the device stays in the cache, whatever changes           *)
(* (scan_tracker.c:191-206).                                                *)
DeviceCooldown ==
    [][LineEmitted /\ PreviousLine.at # Never
            => uptime - PreviousLine.at >= MinInterval]_hvars

(* "reason=first" marks exactly the first line about a device since it      *)
(* entered the cache: a suppressed first line is made up for by a later one *)
(* and none is repeated (scan_tracker.c:177, 188-189, 215).                 *)
FirstLineOnce ==
    [][LineEmitted => (result'.reason = "first" <=> PreviousLine.at = Never)]_hvars

Apart(r, s) == r - s >= RssiDelta \/ s - r >= RssiDelta

(* A line says what its reason claims, compared with the previous line      *)
(* about the device in the log: the name differs, the signal differs by the *)
(* delta, or the refresh interval is over (scan_tracker.c:191-206).         *)
LineTellsNews ==
    [][LineEmitted =>
        /\ result'.reason = "name" => result'.name # PreviousLine.name
        /\ result'.reason = "rssi" => Apart(result'.rssi, PreviousLine.rssi)
        /\ result'.reason = "refresh" => uptime - PreviousLine.at >= RefreshInterval]_hvars

(* Conversely no news is withheld: a report about a device never shown, or  *)
(* carrying a name or a signal the log does not show, or coming after the   *)
(* refresh interval, emits a line as soon as the two limits allow it.  An   *)
(* interval of UINT_MOD ms or more is excluded: the code cannot see it.     *)
Elapsed(at, interval) == uptime - at >= interval /\ uptime - at < UINT_MOD

NewsToTell ==
    \/ PreviousLine.at = Never
    \/ /\ Elapsed(PreviousLine.at, MinInterval)
       /\ \/ heard'[Reported].name # PreviousLine.name
          \/ Apart(result'.rssi, PreviousLine.rssi)
    \/ Elapsed(PreviousLine.at, RefreshInterval)

NoNewsWithheld ==
    [][Observed /\ NewsToTell /\ (lineAt = Never \/ Elapsed(lineAt, GlobalInterval))
            => LineEmitted]_hvars

(* docs/ARCHITECTURE.md "oldest-seen entry evicted when full": the device   *)
(* that leaves the cache is the one heard from the longest ago in true      *)
(* time, clock wrap or not (scan_tracker.c:87-123), provided no device has  *)
(* been silent for UINT_MOD ms or more.                                     *)
OldestEvicted ==
    [][(\A x \in Tracked : uptime - heard[x].at < UINT_MOD)
            => \A d \in Tracked \ Tracked' : \A x \in Tracked : heard[d].at <= heard[x].at]_hvars

(* A device leaves the cache only when a device that was not tracked takes  *)
(* its place in a full cache (scan_tracker.c:98-122).                       *)
EvictedOnlyWhenFull ==
    [][\A d \in Tracked \ Tracked' :
            /\ Cardinality(Tracked) = Capacity /\ Cardinality(Tracked') = Capacity
            /\ Tracked' = (Tracked \ {d}) \cup {Reported} /\ Reported \notin Tracked]_hvars

(* An entry holds what was heard of its own device since it entered the     *)
(* cache, and nothing of the device it replaced: its last name, its number  *)
(* of reports up to saturation, whether a line was shown and with which     *)
(* name and signal (scan_tracker.c:165-186, 214-220).                       *)
EntriesAreOwn ==
    \A i \in Occupied :
        LET e == entries[i]
            h == heard[DeviceOf(e)]
            s == shown[DeviceOf(e)]
        IN  /\ e.name = h.name
            /\ e.report_count = IF h.reports < UINT_MAX THEN h.reports ELSE UINT_MAX
            /\ e.logged <=> s.at # Never
            /\ e.last_logged_name = s.name /\ e.last_logged_rssi = s.rssi

(* The summary's "reports" and "suppressed" count, up to their wrap, every  *)
(* report and every report without a line (scan_tracker.c:153, 210-225).    *)
ReportsAccounted ==
    /\ stats["total_reports"] = handled % UINT_MOD
    /\ stats["suppressed_logs"] = (handled - lines) % UINT_MOD

(* docs/ARCHITECTURE.md "summaries ... every 30 seconds": the summary is    *)
(* due from SummaryInterval after the last one, never before and without a  *)
(* gap, for as long as the super-loop is at most half the clock range late  *)
(* (scan_tracker.c:20-22, 231-245).                                         *)
SummaryDueOnTime ==
    uptime - summaryAt <= SummaryInterval + UINT_MAX \div 2
        => (SummaryDue <=> uptime - summaryAt >= SummaryInterval)

(* What ScannerApp takes the tracker for, its variable `due': a summary is  *)
(* not due at first, becomes due while time passes, and a poll that finds   *)
(* it due ends that.  No report changes it, and a poll that finds nothing   *)
(* due changes nothing (app.c:79-84, 105-126; scan_tracker.c:134-162,       *)
(* 231-246).  This is so until the clock wraps short of UINT_MOD, and for a *)
(* loop that is at most half the range of the clock late.                   *)
ClockTrue    == ClockPeriod = UINT_MOD \/ uptime < ClockPeriod
PolledInTime == uptime - summaryAt <= SummaryInterval + UINT_MAX \div 2
DueRises     == Tick /\ ~SummaryDue /\ SummaryDue'
DueFalls     == AppProcessAction /\ SummaryDue /\ ~SummaryDue'
DueStays     == ~AppProcessAction /\ (SummaryDue' <=> SummaryDue)
DueAsAssumed ==
    /\ ~SummaryDue
    /\ [][ClockTrue' /\ PolledInTime' => DueRises \/ DueFalls \/ DueStays]_hvars

================================================================================
