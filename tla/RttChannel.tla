------------------------------ MODULE RttChannel ------------------------------
(***************************************************************************)
(* The log stream of the scanner from printf to verdict: app.c prints a    *)
(* line in pieces into the up-buffer of RTT channel 0, capture_rtt.sh lets *)
(* a debug probe read that buffer while the processor runs, and            *)
(* validate_rtt_capture.py judges what arrived.                            *)
(*                                                                         *)
(* The printf in use streams its characters as it formats them             *)
(* (docs/ARCHITECTURE.md), each with a write of its own.  Here a line is   *)
(* two or three pieces.  Of a piece all characters are stored, or some, or *)
(* none, and the probe may have read some of them when its time is up.     *)
(* Every write is made under the RTT lock, which RttLock models.  SEGGER's *)
(* buffer code and the probe are external.                                 *)
(***************************************************************************)
EXTENDS Naturals, Sequences

CONSTANTS
    BUFFER_SIZE_UP,     \* most pieces of which the up-buffer can hold characters
    MaxLines,           \* bound on the lines printed
    MaxResets,          \* bound on the resets of the device
    MaxCaptures         \* bound on the runs of capture_rtt.sh

VARIABLES
    pc,         \* what the device does next
    scanning,   \* sl_bt_scanner_start succeeded
    line, kind, \* the number of the line printed last, and what it tells
    next,       \* its piece to be written next, 0: the line is complete
    up,         \* the up-buffer: what the probe has not read
    log,        \* build/rtt.log
    host,       \* whether a capture is running
    verdict,    \* how the last capture ended
    resets, captures,
    fate,       \* what some characters of that line were: "stored", "dropped"
    fresh,      \* no earlier capture read from the device since its reset
    scanned     \* the device was scanning during the last capture

device == <<pc, scanning, line, kind, next>>
probe  == <<log, host, verdict, captures, fresh, scanned>>
vars   == <<device, up, probe, resets, fate>>

--------------------------------------------------------------------------------
(* What the firmware prints.  NAME holds a text that the advertising device *)
(* chose.                                                                   *)

EOL     == "\r\n"
SCAN    == "scan "
NAME    == "name="
SUMMARY == "summary "
BLE     == "BLE "
INIT    == "BLE scanner initialized"
STARTED == "scan started:"
log_observation == <<SCAN, NAME, EOL>>
log_summary     == <<SUMMARY, EOL>>
initialized     == <<INIT, EOL>>
scan_started    == <<BLE, STARTED, EOL>>

Kinds   == {"scan", "summary", "initialized", "started"}
Text(k) == CASE k = "scan"        -> log_observation
             [] k = "summary"     -> log_summary
             [] k = "initialized" -> initialized
             [] k = "started"     -> scan_started

(* A piece of a line as far as it was stored or read: whole, or cut.        *)
Piece     == [kind : Kinds, part : 1 .. 3, whole : BOOLEAN]
TextOf(p) == Text(p.kind)[p.part]
Cut(p)    == [p EXCEPT !.whole = FALSE]

(* The room that there is in any case: whatever so many pieces are, another *)
(* one fits beside them.                                                    *)
SureRoom == Len(initialized) + Len(scan_started)

ASSUME ChannelAssumption ==
    /\ BUFFER_SIZE_UP \in Nat /\ BUFFER_SIZE_UP >= SureRoom
    /\ MaxLines \in Nat /\ MaxResets \in Nat /\ MaxCaptures \in Nat

Init ==
    /\ pc = "app_init" /\ scanning = FALSE
    /\ line = 0 /\ kind = "initialized" /\ next = 0 /\ up = << >>
    /\ log = << >> /\ host = "away" /\ verdict = "none"
    /\ resets = 0 /\ captures = 0 /\ fate = {} /\ fresh = TRUE /\ scanned = FALSE

--------------------------------------------------------------------------------
(* The device. *)

sl_iostream_printf(k) ==
    /\ next = 0 /\ line < MaxLines
    /\ line' = line + 1 /\ kind' = k /\ next' = 1 /\ fate' = {}

AppInit ==
    /\ pc = "app_init"
    /\ sl_iostream_printf("initialized")
    /\ pc' = "loop"
    /\ UNCHANGED <<scanning, up, probe, resets>>

(* The boot event of the stack.  app_assert_status does not return if one   *)
(* of the two calls fails.                                                  *)
OnBoot ==
    /\ pc = "loop" /\ ~scanning /\ next = 0
    /\ \/ /\ scanning' = TRUE /\ pc' = pc /\ sl_iostream_printf("started")
          /\ scanned' = (scanned \/ host = "reading")
       \/ pc' = "halted" /\ UNCHANGED <<scanning, line, kind, next, fate, scanned>>
    /\ UNCHANGED <<up, log, host, verdict, captures, fresh, resets>>

(* A report that the tracker wants shown, and a summary that is due.  The   *)
(* stack has booted by the time the first summary is due.                   *)
OnReport ==
    /\ pc = "loop" /\ scanning
    /\ sl_iostream_printf("scan")
    /\ UNCHANGED <<pc, scanning, up, probe, resets>>

AppProcessAction ==
    /\ pc = "loop" /\ scanning
    /\ sl_iostream_printf("summary")
    /\ UNCHANGED <<pc, scanning, up, probe, resets>>

(* SEGGER_RTT_MODE_NO_BLOCK_SKIP: a write for which there is no room stores *)
(* nothing and returns.  Faulty: the room is not checked, or the write waits *)
(* for room, or makes some at the expense of the oldest output.             *)
StoreWhole(p)     == up' = Append(up, p) /\ fate' = fate \cup {"stored"}
StoreUnchecked(p) == StoreWhole(p)
StoreBlocking(p)  == Len(up) < BUFFER_SIZE_UP /\ StoreWhole(p)
StoreOverwriting(p) ==
    IF Len(up) < BUFFER_SIZE_UP THEN StoreWhole(p)
    ELSE up' = Append(Tail(up), p) /\ UNCHANGED fate
Store(p) ==
    \/ Len(up) < BUFFER_SIZE_UP /\ StoreWhole(p)
    \/ /\ SureRoom <= Len(up) /\ Len(up) < BUFFER_SIZE_UP
       /\ up' = Append(up, Cut(p)) /\ fate' = {"stored", "dropped"}
    \/ SureRoom <= Len(up) /\ up' = up /\ fate' = fate \cup {"dropped"}

WritePiece ==
    /\ next # 0
    /\ Store([kind |-> kind, part |-> next, whole |-> TRUE])
    /\ next' = IF next = Len(Text(kind)) THEN 0 ELSE next + 1
    /\ UNCHANGED <<pc, scanning, line, kind, probe, resets>>

(* Flashing the device, its reset button, or a power cycle: the start-up    *)
(* code clears the control block of RTT.  Faulty: it does not.              *)
Rebooted == pc' = "app_init" /\ scanning' = FALSE /\ next' = 0
ResetKeepingBuffer ==
    /\ resets < MaxResets /\ resets' = resets + 1
    /\ Rebooted /\ fresh' = (host = "away")
    /\ UNCHANGED <<line, kind, up, log, host, verdict, captures, fate, scanned>>
Reset ==
    /\ resets < MaxResets /\ resets' = resets + 1
    /\ Rebooted /\ up' = << >> /\ fresh' = (host = "away")
    /\ \/ UNCHANGED log
       \/ host = "reading" /\ up # << >> /\ log' = Append(log, Cut(Head(up)))
    /\ UNCHANGED <<line, kind, host, verdict, captures, fate, scanned>>

--------------------------------------------------------------------------------
(* The host: capture_rtt.sh and the probe it runs. *)

(* Faulty: the log of the capture before is not removed.                    *)
StartCaptureAppending ==
    /\ host = "away" /\ captures < MaxCaptures
    /\ host' = "reading" /\ captures' = captures + 1
    /\ verdict' = "none" /\ scanned' = scanning
    /\ UNCHANGED <<device, up, log, resets, fate, fresh>>
StartCapture ==
    /\ host = "away" /\ captures < MaxCaptures
    /\ host' = "reading" /\ captures' = captures + 1
    /\ log' = << >> /\ verdict' = "none" /\ scanned' = scanning
    /\ UNCHANGED <<device, up, resets, fate, fresh>>

(* What the probe has read is free for the device to write again.           *)
Read ==
    /\ host = "reading" /\ up # << >>
    /\ log' = Append(log, Head(up)) /\ up' = Tail(up)
    /\ UNCHANGED <<device, host, verdict, captures, fresh, scanned, resets, fate>>

(* What the two searches of assess_rtt_capture find in a capture: what they *)
(* must find, and what they may find, since the name in a line and what is  *)
(* left of a cut piece may read like anything.                              *)
HasMarker(text) ==
    \E i \in 1 .. Len(text) - 1 :
        /\ text[i].whole /\ TextOf(text[i]) = BLE
        /\ text[i + 1].whole /\ TextOf(text[i + 1]) = STARTED
MayHaveMarker(text) ==
    \E i \in 1 .. Len(text) :
        /\ text[i].kind # "initialized"
        /\ TextOf(text[i]) \in {NAME, STARTED} \/ ~text[i].whole

(* "scan started:" without what came before it also begins with "scan ".    *)
BeginsLine(text, i) == i = 1 \/ TextOf(text[i - 1]) = EOL
HasScanLine(text) ==
    \E i \in 1 .. Len(text) :
        /\ text[i].whole /\ TextOf(text[i]) = SCAN
        /\ i = 1 \/ (text[i - 1].whole /\ TextOf(text[i - 1]) = EOL)
MayHaveScanLine(text) ==
    \E i \in 1 .. Len(text) :
        /\ text[i].kind # "initialized"
        /\ (BeginsLine(text, i) /\ TextOf(text[i]) \in {SCAN, STARTED}) \/ ~text[i].whole

assess_rtt_capture(text) ==
    (IF HasMarker(text) THEN {} ELSE {"not_started"}) \cup
    (IF ~MayHaveMarker(text) THEN {}
     ELSE (IF HasScanLine(text) THEN {} ELSE {"quiet"}) \cup
          (IF MayHaveScanLine(text) THEN {"scanning"} ELSE {}))

(* The probe is ended; some of a piece's characters it may have read.       *)
EndProbe ==
    /\ host = "reading" /\ host' = "away" /\ fresh' = FALSE
    /\ \/ UNCHANGED <<log, up>>
       \/ /\ up # << >> /\ log' = Append(log, Cut(Head(up)))
          /\ up' = [up EXCEPT ![1] = Cut(@)]
    /\ UNCHANGED <<device, captures, scanned, resets, fate>>

(* timeout ends the probe, and its status is one of 0, 124, 130. *)
EndCapture == EndProbe /\ verdict' \in assess_rtt_capture(log')

(* Any other status: the script passes it on and judges nothing. *)
CaptureFails == EndProbe /\ verdict' = "error"

--------------------------------------------------------------------------------
Device == AppInit \/ OnBoot \/ OnReport \/ AppProcessAction \/ WritePiece
Host   == StartCapture \/ Read \/ EndCapture \/ CaptureFails
Next   == Device \/ Host \/ Reset

(* The processor runs; nothing is assumed of the host. *)
Spec == Init /\ [][Next]_vars /\ WF_vars(WritePiece)

--------------------------------------------------------------------------------
TypeOK ==
    /\ pc \in {"app_init", "loop", "halted"} /\ scanning \in BOOLEAN
    /\ line \in 0 .. MaxLines /\ kind \in Kinds /\ next \in 0 .. 3
    /\ up \in Seq(Piece) /\ Len(up) <= BUFFER_SIZE_UP
    /\ log \in Seq(Piece) /\ host \in {"away", "reading"}
    /\ verdict \in {"none", "not_started", "quiet", "scanning", "error"}
    /\ resets \in 0 .. MaxResets /\ captures \in 0 .. MaxCaptures
    /\ fate \subseteq {"stored", "dropped"} /\ fresh \in BOOLEAN /\ scanned \in BOOLEAN

(* A capture passes only if the device was scanning while it ran, although  *)
(* lines are cut, a name may read like any line, captures begin and end in  *)
(* the middle of a line and the device may be reset and fail to start       *)
(* during one (capture_rtt.sh:44-66, validate_rtt_capture.py:11-40,         *)
(* app.c:90-103).                                                           *)
VerdictTrue == verdict \in {"quiet", "scanning"} => scanned

(* The first capture since a reset never misses that scanning started: if   *)
(* the start line was printed and the probe has drained it, the verdict is  *)
(* not that scanning did not start (capture_rtt.sh:44-66).                  *)
FirstCaptureFair ==
    [][verdict' = "not_started" /\ verdict = "none" /\ fresh /\ scanning
            => \/ \E i \in DOMAIN up : up[i].kind = "started"
               \/ kind = "started" /\ next # 0]_vars

(* README.md "a disconnected or slow host cannot stall the Bluetooth event  *)
(* handler": a line that was begun is completed whatever the host does      *)
(* (app.c:42-43).                                                           *)
WriterNeverStalls == next # 0 ~> next = 0

(* app.c:42 "A full host buffer may drop a line": a line is dropped as a    *)
(* whole or not at all.                                                     *)
LinesDroppedWhole == fate # {"stored", "dropped"}

================================================================================
