-------------------------------- MODULE ScanLog --------------------------------
(***************************************************************************)
(* What the reader of the scanner's log is promised (README.md,            *)
(* docs/ARCHITECTURE.md), as a specification in true time: which devices   *)
(* are remembered, when a report must and when it may have a line, and     *)
(* when the summary is due.  It knows no slots, no counters and no clock   *)
(* that wraps; TrackerRefinement shows that the tracker implements it.     *)
(*                                                                         *)
(* An interval of Span or more is one that a clock may be unable to tell   *)
(* from a shorter one: the log then promises less.                         *)
(***************************************************************************)
EXTENDS Integers, FiniteSets

CONSTANTS
    Device, Names, Signals,
    NoName,             \* the name of a device that has sent none
    Capacity,           \* how many devices are remembered
    Span,
    RssiDelta, GlobalInterval, MinInterval, RefreshInterval, SummaryInterval

VARIABLES
    now,        \* true time
    heard,      \* per device: when it was last heard, and its name
    shown,      \* per device: its last line
    lineAt,     \* when the last line was emitted
    line,       \* the line the last step emitted, if any
    summaryAt   \* when the last summary was printed

lvars == <<now, heard, shown, lineAt, line, summaryAt>>

Never   == -1
Unheard == [at |-> Never, name |-> NoName]
Unshown == [at |-> Never, name |-> NoName, rssi |-> 0]
NoLine  == [reason |-> "none"]
Grounds == {"first", "name", "rssi", "refresh"}

Remembered == {d \in Device : heard[d].at # Never}

Init ==
    /\ now \in Nat
    /\ heard = [d \in Device |-> Unheard]
    /\ shown = [d \in Device |-> Unshown]
    /\ lineAt = Never /\ line = NoLine
    /\ summaryAt = now

--------------------------------------------------------------------------------
(* Since(at, i): at least i has passed.  Surely(at, i): so it has, and not  *)
(* so much that a clock cannot tell.                                        *)
Since(at, i)  == now - at >= i
Surely(at, i) == Since(at, i) /\ now - at < Span

Apart(r, s) == r - s >= RssiDelta \/ s - r >= RssiDelta

(* A line about d, named n and received with r, may be emitted on a ground. *)
May(ground, d, n, r) ==
    /\ lineAt = Never \/ Since(lineAt, GlobalInterval)
    /\ ground = "first" <=> shown[d].at = Never
    /\ ground # "first" => Since(shown[d].at, MinInterval)
    /\ ground = "name" => n # shown[d].name
    /\ ground = "rssi" => Apart(r, shown[d].rssi)
    /\ ground = "refresh" => Since(shown[d].at, RefreshInterval)

(* It must be emitted: there is news, and no limit forbids to tell it.      *)
Must(d, n, r) ==
    /\ lineAt = Never \/ Surely(lineAt, GlobalInterval)
    /\ \/ shown[d].at = Never
       \/ /\ Surely(shown[d].at, MinInterval)
          /\ n # shown[d].name \/ Apart(r, shown[d].rssi)
       \/ Surely(shown[d].at, RefreshInterval)

(* Whom a report of d makes the log forget: nobody, unless d is new and     *)
(* there is no room; then one device, the one heard from the longest ago.   *)
Oldest(v) ==
    (\A x \in Remembered : now - heard[x].at < Span)
        => \A x \in Remembered : heard[v].at <= heard[x].at
Forgotten(d) ==
    IF d \in Remembered \/ Cardinality(Remembered) < Capacity
    THEN {{}} ELSE {{v} : v \in {x \in Remembered : Oldest(x)}}

Report(d, named, n, r) ==
    LET name == IF named THEN n ELSE heard[d].name
    IN  \E ground \in Grounds \cup {"none"} :
            /\ UNCHANGED <<now, summaryAt>>
            /\ \/ /\ ground # "none" /\ May(ground, d, name, r)
                  /\ line' = [reason |-> ground, device |-> d, name |-> name, rssi |-> r]
                  /\ lineAt' = now
               \/ /\ ground = "none" /\ ~Must(d, name, r)
                  /\ line' = NoLine
                  /\ lineAt' = lineAt
            /\ \E gone \in Forgotten(d) :
                /\ heard' = [x \in Device |-> IF x \in gone THEN Unheard
                                              ELSE IF x = d THEN [at |-> now, name |-> name]
                                              ELSE heard[x]]
                /\ shown' = [x \in Device |-> IF x \in gone THEN Unshown
                                              ELSE IF x = d /\ ground # "none"
                                                   THEN [at |-> now, name |-> name, rssi |-> r]
                                              ELSE shown[x]]

(* Never before its time, however late the loop was the last time.          *)
Summary ==
    /\ Since(summaryAt, SummaryInterval)
    /\ summaryAt' = now /\ line' = NoLine
    /\ UNCHANGED <<now, heard, shown, lineAt>>

Pass == now' = now + 1 /\ line' = NoLine /\ UNCHANGED <<heard, shown, lineAt, summaryAt>>

Next ==
    \/ Pass
    \/ Summary
    \/ \E d \in Device, named \in BOOLEAN, n \in Names, r \in Signals : Report(d, named, n, r)

Spec == Init /\ [][Next]_lvars
================================================================================
