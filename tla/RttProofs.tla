------------------------------- MODULE RttProofs -------------------------------
(***************************************************************************)
(* Theorems about the RTT log, for any size of the buffer that holds the   *)
(* two lines of the start, and any number of lines, resets and captures;   *)
(* and about the RTT lock, for any handlers, priorities and builds, and    *)
(* locks nested to any depth.                                              *)
(***************************************************************************)
EXTENDS RttChannel, RttLock, SequenceTheorems, TLAPS

--------------------------------------------------------------------------------
(* The stream of the log, printf to verdict (RttChannel).                   *)

(* What a capture that runs has read and may still read.                    *)
Arrived == IF host = "reading" THEN log \o up ELSE up

(* The line that tells that scanning started is being written.              *)
Starting == next # 0 /\ kind = "started"
LinePart == next \in 0 .. Len(Text(kind))

(* Until the scan runs only the two lines of the start are printed, and     *)
(* there is room for both.                                                  *)
StartUpFits ==
    /\ pc = "app_init" => up = << >> /\ next = 0 /\ ~scanning
    /\ pc = "halted" => ~scanning
    /\ pc # "app_init" /\ ~scanning =>
          /\ next # 0 => kind = "initialized"
          /\ Len(up) <= IF next = 0 THEN 2 ELSE next - 1
    /\ Starting => scanning /\ Len(up) <= 1 + next

(* So the start of that line is never cut, and until a capture has ended it *)
(* is still to be seen.                                                     *)
BlePiece     == [kind |-> "started", part |-> 1, whole |-> TRUE]
StartedPiece == [kind |-> "started", part |-> 2, whole |-> TRUE]
EndsWithBle(s) == s # << >> /\ s[Len(s)] = BlePiece
ToldIn(s) == \E i \in 1 .. Len(s) - 1 : s[i] = BlePiece /\ s[i + 1] = StartedPiece
FreshKept ==
    fresh /\ scanning =>
        \/ Starting /\ next = 1
        \/ Starting /\ next = 2 /\ EndsWithBle(Arrived)
        \/ ToldIn(Arrived)

(* Whatever can read like a sign of scanning is written while the device    *)
(* scans, and reaches a log only while the device scans or after it did so  *)
(* during the capture.                                                      *)
TellsOfScan(s) == \E i \in DOMAIN s : s[i].kind # "initialized"
Evidence ==
    /\ TellsOfScan(up) => scanning
    /\ next # 0 /\ kind # "initialized" => scanning
    /\ host = "reading" /\ (scanning \/ TellsOfScan(log)) => scanned

Judging == host = "reading" => verdict = "none"

ChannelInv ==
    /\ TypeOK /\ LinePart /\ StartUpFits /\ FreshKept
    /\ Evidence /\ Judging /\ VerdictTrue

--------------------------------------------------------------------------------
LEMMA Texts ==
    /\ \A k \in Kinds : Len(Text(k)) \in {2, 3}
    /\ Len(Text("initialized")) = 2
    /\ Len(Text("started")) = 3
    /\ TextOf(BlePiece) = BLE /\ TextOf(StartedPiece) = STARTED
<1>1. /\ Text("scan") = <<SCAN, NAME, EOL>>
      /\ Text("summary") = <<SUMMARY, EOL>>
      /\ Text("initialized") = <<INIT, EOL>>
      /\ Text("started") = <<BLE, STARTED, EOL>>
    BY DEF Text, log_observation, log_summary, initialized, scan_started
<1>2. \A k \in Kinds : Len(Text(k)) \in {2, 3}
    BY <1>1 DEF Kinds
<1>3. TextOf(BlePiece) = Text("started")[1] /\ TextOf(StartedPiece) = Text("started")[2]
    BY DEF TextOf, BlePiece, StartedPiece
<1>. QED BY <1>1, <1>2, <1>3

LEMMA Room == BUFFER_SIZE_UP \in Nat /\ SureRoom = 5 /\ BUFFER_SIZE_UP >= 5
BY ChannelAssumption DEF SureRoom, initialized, scan_started

(* Reading moves the border between log and buffer and nothing else.        *)
LEMMA ReadKeepsStream ==
    ASSUME NEW S, NEW s \in Seq(S), NEW t \in Seq(S), t # << >>
    PROVE  Append(s, Head(t)) \o Tail(t) = s \o t
<1>1. Head(t) \in S /\ Tail(t) \in Seq(S)
    BY HeadTailProperties
<1>2. Append(s, Head(t)) = s \o <<Head(t)>>
    BY <1>1, AppendIsConcat
<1>3. <<Head(t)>> \o Tail(t) = t
    BY <1>1
<1>4. <<Head(t)>> \in Seq(S)
    BY <1>1
<1>. QED BY <1>1, <1>2, <1>3, <1>4, ConcatAssociative

LEMMA StoreExtendsStream ==
    ASSUME NEW S, NEW s \in Seq(S), NEW t \in Seq(S), NEW e \in S
    PROVE  s \o Append(t, e) = Append(s \o t, e)
<1>1. Append(t, e) = t \o <<e>> /\ <<e>> \in Seq(S)
    BY AppendIsConcat
<1>2. s \o t \in Seq(S)
    BY ConcatProperties
<1>3. Append(s \o t, e) = (s \o t) \o <<e>>
    BY <1>2, AppendIsConcat
<1>. QED BY <1>1, <1>3, ConcatAssociative

LEMMA CutParts ==
    ASSUME NEW p \in Piece
    PROVE  Cut(p) \in Piece /\ Cut(p).kind = p.kind
BY DEF Piece, Cut

(* What a piece more at the end changes.                                    *)
LEMMA Longer ==
    ASSUME NEW s \in Seq(Piece), NEW p \in Piece
    PROVE  /\ Append(s, p) \in Seq(Piece)
           /\ TellsOfScan(Append(s, p)) => TellsOfScan(s) \/ p.kind # "initialized"
           /\ ToldIn(s) => ToldIn(Append(s, p))
           /\ EndsWithBle(s) /\ p = StartedPiece => ToldIn(Append(s, p))
           /\ p = BlePiece => EndsWithBle(Append(s, p))
           /\ HasMarker(s) => HasMarker(Append(s, p))
<1>. DEFINE t == Append(s, p)
<1>1. /\ t \in Seq(Piece) /\ Len(t) = Len(s) + 1 /\ Len(s) \in Nat /\ t[Len(s) + 1] = p
      /\ \A i \in 1 .. Len(s) : t[i] = s[i]
      /\ DOMAIN t = 1 .. Len(t) /\ DOMAIN s = 1 .. Len(s)
    BY AppendProperties
<1>. HIDE DEF t
<1>2. TellsOfScan(t) => TellsOfScan(s) \/ p.kind # "initialized"
    BY <1>1 DEF TellsOfScan
<1>3. ToldIn(s) => ToldIn(t)
    BY <1>1 DEF ToldIn
<1>4. EndsWithBle(s) /\ p = StartedPiece => ToldIn(t)
    <2>. SUFFICES ASSUME EndsWithBle(s), p = StartedPiece PROVE ToldIn(t)
        OBVIOUS
    <2>1. Len(s) \in 1 .. Len(t) - 1
        BY <1>1 DEF EndsWithBle
    <2>2. t[Len(s)] = BlePiece /\ t[Len(s) + 1] = StartedPiece
        BY <1>1, <2>1 DEF EndsWithBle
    <2>. QED BY <2>1, <2>2 DEF ToldIn
<1>5. p = BlePiece => EndsWithBle(t)
    BY <1>1 DEF EndsWithBle
<1>6. HasMarker(s) => HasMarker(t)
    BY <1>1 DEF HasMarker
<1>. QED BY <1>1, <1>2, <1>3, <1>4, <1>5, <1>6 DEF t

LEMMA FirstUnread ==
    ASSUME TypeOK, up # << >>
    PROVE  /\ Head(up) \in Piece /\ Head(up) = up[1] /\ 1 \in DOMAIN up
           /\ Cut(Head(up)) \in Piece /\ Cut(Head(up)).kind = Head(up).kind
           /\ Head(up).kind # "initialized" => TellsOfScan(up)
<1>1. up \in Seq(Piece)
    BY DEF TypeOK
<1>2. Head(up) \in Piece /\ Head(up) = up[1] /\ 1 \in DOMAIN up
    BY <1>1
<1>. QED BY <1>2, CutParts DEF TellsOfScan

--------------------------------------------------------------------------------
(* The device prints. *)

LEMMA PrintKeeps ==
    ASSUME ChannelInv, NEW k \in Kinds, sl_iostream_printf(k), k # "initialized" => scanning',
           UNCHANGED <<up, log, host, verdict, resets, captures, fresh>>
    PROVE  /\ line' \in 0 .. MaxLines /\ kind' \in Kinds /\ next' \in 0 .. 3
           /\ fate' \subseteq {"stored", "dropped"}
           /\ LinePart' /\ Judging' /\ Arrived' = Arrived /\ ~Starting
           /\ scanning = scanning' /\ scanned' = scanned => Evidence' /\ VerdictTrue'
<1>. USE DEF sl_iostream_printf
<1>1. Len(Text(k)) \in {2, 3}
    BY Texts
<1>2. LinePart' /\ Judging' /\ Arrived' = Arrived /\ ~Starting
    BY <1>1 DEF ChannelInv, LinePart, Judging, Arrived, Starting
<1>3. scanning = scanning' /\ scanned' = scanned => Evidence' /\ VerdictTrue'
    BY DEF ChannelInv, Evidence, TellsOfScan, VerdictTrue
<1>4. line' \in 0 .. MaxLines
    BY ChannelAssumption DEF ChannelInv, TypeOK
<1>. QED BY <1>2, <1>3, <1>4

LEMMA AppInitKeeps ==
    ASSUME ChannelInv, AppInit
    PROVE  ChannelInv'
<1>1. /\ "initialized" \in Kinds /\ sl_iostream_printf("initialized")
      /\ pc = "app_init" /\ pc' = "loop" /\ scanning' = scanning /\ kind' = "initialized" /\ next' = 1
      /\ UNCHANGED <<up, log, host, verdict, resets, captures, fresh, scanned>>
    BY DEF AppInit, Kinds, probe, sl_iostream_printf
<1>2. TypeOK' /\ Evidence' /\ LinePart' /\ Judging' /\ VerdictTrue'
    BY <1>1, PrintKeeps DEF ChannelInv, TypeOK
<1>3. StartUpFits' /\ FreshKept'
    BY <1>1 DEF ChannelInv, StartUpFits, Starting, FreshKept
<1>. QED BY <1>2, <1>3 DEF ChannelInv

LEMMA OnBootKeeps ==
    ASSUME ChannelInv, OnBoot
    PROVE  ChannelInv'
<1>. USE DEF OnBoot
<1>1. CASE scanning' = TRUE /\ pc' = pc /\ sl_iostream_printf("started")
    <2>1. /\ "started" \in Kinds /\ pc = "loop" /\ ~scanning /\ next = 0
          /\ kind' = "started" /\ next' = 1
          /\ scanned' = (scanned \/ host = "reading")
          /\ UNCHANGED <<up, log, host, verdict, resets, captures, fresh>>
        BY <1>1, Zenon DEF Kinds, sl_iostream_printf
    <2>2. TypeOK' /\ LinePart' /\ Judging'
        BY <1>1, <2>1, PrintKeeps DEF ChannelInv, TypeOK
    <2>3. StartUpFits' /\ FreshKept'
        BY <1>1, <2>1 DEF ChannelInv, TypeOK, StartUpFits, Starting, FreshKept
    <2>4. Evidence' /\ VerdictTrue'
        BY <1>1, <2>1 DEF ChannelInv, Evidence, VerdictTrue
    <2>. QED BY <2>2, <2>3, <2>4 DEF ChannelInv
<1>2. CASE pc' = "halted" /\ UNCHANGED <<scanning, line, kind, next, fate, scanned>>
    <2>1. ~scanning /\ pc = "loop"
          /\ UNCHANGED <<scanning, line, kind, next, fate, scanned,
                         up, log, host, verdict, resets, captures, fresh>>
        BY <1>2
    <2>2. TypeOK' /\ LinePart' /\ Judging' /\ Evidence' /\ VerdictTrue'
        BY <1>2, <2>1 DEF ChannelInv, TypeOK, LinePart, Judging, Evidence, TellsOfScan, VerdictTrue
    <2>3. StartUpFits' /\ FreshKept'
        BY <1>2, <2>1 DEF ChannelInv, StartUpFits, Starting, FreshKept
    <2>. QED BY <2>2, <2>3 DEF ChannelInv
<1>. QED BY <1>1, <1>2

LEMMA LaterLineKeeps ==
    ASSUME ChannelInv, OnReport \/ AppProcessAction
    PROVE  ChannelInv'
<1>. PICK k \in {"scan", "summary"} : /\ pc = "loop" /\ scanning /\ sl_iostream_printf(k)
                                      /\ UNCHANGED <<pc, scanning, up, probe, resets>>
    BY DEF OnReport, AppProcessAction
<1>1. /\ k \in Kinds /\ kind' # "started" /\ pc = "loop" /\ scanning
      /\ UNCHANGED <<pc, scanning, up, log, host, verdict, resets, captures, fresh, scanned>>
    BY DEF Kinds, probe, sl_iostream_printf
<1>2. TypeOK' /\ LinePart' /\ Judging' /\ Evidence' /\ VerdictTrue'
    BY <1>1, PrintKeeps DEF ChannelInv, TypeOK
<1>3. StartUpFits'
    BY <1>1 DEF ChannelInv, StartUpFits, Starting
<1>4. FreshKept'
    BY <1>1, PrintKeeps DEF ChannelInv, FreshKept
<1>. QED BY <1>2, <1>3, <1>4 DEF ChannelInv

(* A write stores the next piece, or cuts or drops it; it cuts and drops    *)
(* none of a line of the start.                                             *)
LEMMA WriteEffect ==
    ASSUME ChannelInv, WritePiece
    PROVE  LET p == [kind |-> kind, part |-> next, whole |-> TRUE] IN
           /\ p \in Piece /\ next \in 1 .. 3
           /\ next' = IF next = Len(Text(kind)) THEN 0 ELSE next + 1
           /\ fate' \subseteq {"stored", "dropped"} /\ Len(up') <= BUFFER_SIZE_UP
           /\ \/ up' = Append(up, p)
              \/ ~Starting /\ scanning /\ up' \in {up, Append(up, Cut(p))}
<1>. DEFINE p == [kind |-> kind, part |-> next, whole |-> TRUE]
<1>1. TypeOK /\ StartUpFits /\ next # 0 /\ next \in 1 .. 3 /\ p \in Piece
      /\ up \in Seq(Piece) /\ Len(up) \in Nat
    BY DEF ChannelInv, WritePiece, TypeOK, Piece
<1>2. Store(p)
    BY DEF WritePiece
<1>3. \A q : Len(Append(up, q)) = Len(up) + 1
    BY <1>1
<1>4. Len(up') <= BUFFER_SIZE_UP /\ fate' \subseteq {"stored", "dropped"}
    <2>1. Len(up) <= BUFFER_SIZE_UP /\ fate \subseteq {"stored", "dropped"}
        BY <1>1 DEF TypeOK
    <2>2. CASE Len(up) < BUFFER_SIZE_UP /\ StoreWhole(p)
        BY <1>1, <1>3, <2>1, <2>2, Room DEF StoreWhole
    <2>3. CASE Len(up) < BUFFER_SIZE_UP /\ up' = Append(up, Cut(p)) /\ fate' = {"stored", "dropped"}
        BY <1>1, <1>3, <2>3, Room
    <2>4. CASE up' = up /\ fate' = fate \cup {"dropped"}
        BY <2>1, <2>4
    <2>. QED BY <1>2, <2>2, <2>3, <2>4 DEF Store
<1>5. \/ up' = Append(up, p)
      \/ SureRoom <= Len(up) /\ up' \in {up, Append(up, Cut(p))}
    BY <1>2 DEF Store, StoreWhole
<1>6. SureRoom <= Len(up) => ~Starting /\ scanning
    <2>1. Starting => Len(up) <= 4
        BY <1>1 DEF StartUpFits
    <2>2. ~scanning => Len(up) <= 3
        BY <1>1 DEF StartUpFits, TypeOK
    <2>. QED BY <2>1, <2>2, <1>1, Room
<1>7. next' = IF next = Len(Text(kind)) THEN 0 ELSE next + 1
    BY DEF WritePiece
<1>. QED BY <1>1, <1>4, <1>5, <1>6, <1>7

LEMMA WriteKeeps ==
    ASSUME ChannelInv, WritePiece
    PROVE  ChannelInv'
<1>. DEFINE p == [kind |-> kind, part |-> next, whole |-> TRUE]
<1>1. /\ p \in Piece /\ next \in 1 .. 3
      /\ next' = IF next = Len(Text(kind)) THEN 0 ELSE next + 1
      /\ fate' \subseteq {"stored", "dropped"} /\ Len(up') <= BUFFER_SIZE_UP
      /\ \/ up' = Append(up, p)
         \/ ~Starting /\ scanning /\ up' \in {up, Append(up, Cut(p))}
    BY WriteEffect
<1>2. UNCHANGED <<pc, scanning, line, kind, log, host, verdict, captures, fresh, scanned, resets>>
    BY DEF WritePiece, probe
<1>3. /\ TypeOK /\ LinePart /\ StartUpFits /\ FreshKept /\ Evidence /\ Judging /\ VerdictTrue
      /\ kind \in Kinds /\ up \in Seq(Piece) /\ log \in Seq(Piece)
    BY DEF ChannelInv, TypeOK
<1>4. Cut(p) \in Piece /\ Cut(p).kind = kind /\ p.kind = kind
    BY <1>1, CutParts
<1>5. PICK q \in {p, Cut(p)} : up' = up \/ up' = Append(up, q)
    BY <1>1
<1>6. q \in Piece /\ q.kind = kind
    BY <1>1, <1>4
<1>7. Len(Text(kind)) \in {2, 3} /\ Len(Text("initialized")) = 2 /\ Len(Text("started")) = 3
    BY <1>3, Texts
<1>8. next' \in 0 .. 3 /\ LinePart'
    <2>1. next \in 0 .. Len(Text(kind))
        BY <1>3 DEF LinePart
    <2>2. next' \in 0 .. 3 /\ next' \in 0 .. Len(Text(kind))
        <3>. DEFINE n == Len(Text(kind))
        <3>1. n \in {2, 3} /\ next \in 0 .. n /\ next \in 1 .. 3
              /\ next' = IF next = n THEN 0 ELSE next + 1
            BY <1>1, <1>7, <2>1
        <3>. HIDE DEF n
        <3>2. next' \in 0 .. 3 /\ next' \in 0 .. n
            BY <3>1
        <3>. QED BY <3>2 DEF n
    <2>3. Text(kind)' = Text(kind)
        BY <1>2 DEF Text
    <2>. QED BY <2>2, <2>3 DEF LinePart
<1>9. up' \in Seq(Piece)
    BY <1>3, <1>5, <1>6, Longer
<1>10. TypeOK'
    BY <1>1, <1>2, <1>3, <1>8, <1>9 DEF TypeOK
<1>11. StartUpFits'
    <2>1. pc # "app_init"
        BY <1>1, <1>3 DEF StartUpFits
    <2>2. CASE up' = Append(up, p)
        <3>1. Len(up') = Len(up) + 1 /\ Len(up) \in Nat
            BY <1>3, <2>2
        <3>2. ~scanning => kind = "initialized" /\ Len(up) <= next - 1
            BY <1>1, <1>3, <2>1 DEF StartUpFits
        <3>3. ~scanning => Len(up') <= IF next' = 0 THEN 2 ELSE next' - 1
            BY <1>1, <1>3, <1>7, <3>1, <3>2 DEF LinePart
        <3>4. Starting' => scanning /\ Len(up') <= 1 + next'
            BY <1>1, <1>2, <1>3, <3>1 DEF StartUpFits, Starting
        <3>. QED BY <1>2, <1>3, <2>1, <3>2, <3>3, <3>4 DEF StartUpFits
    <2>3. CASE ~Starting /\ scanning
        BY <1>1, <1>2, <1>3, <2>1, <2>3 DEF StartUpFits, Starting
    <2>. QED BY <1>1, <2>2, <2>3
<1>12. Evidence' /\ Judging' /\ VerdictTrue'
    <2>1. TellsOfScan(up') => TellsOfScan(up) \/ kind # "initialized"
        BY <1>3, <1>5, <1>6, Longer
    <2>2. kind # "initialized" => scanning
        BY <1>1, <1>3 DEF Evidence
    <2>3. TellsOfScan(up)' => TellsOfScan(up')
        BY DEF TellsOfScan
    <2>4. TellsOfScan(log)' => TellsOfScan(log)
        BY <1>2 DEF TellsOfScan
    <2>. QED BY <1>2, <1>3, <2>1, <2>2, <2>3, <2>4 DEF Evidence, Judging, VerdictTrue
<1>13. FreshKept'
    <2>. SUFFICES ASSUME fresh, scanning
                  PROVE  \/ Starting' /\ next' = 2 /\ EndsWithBle(Arrived')
                         \/ ToldIn(Arrived')
        BY <1>2 DEF FreshKept, ToldIn, EndsWithBle
    <2>1. Arrived \in Seq(Piece)
        BY <1>3 DEF Arrived
    <2>2. \A e \in Piece : up' = Append(up, e) => Arrived' = Append(Arrived, e)
        BY <1>2, <1>3, StoreExtendsStream DEF Arrived
    <2>3. ToldIn(Arrived) => ToldIn(Arrived')
        <3>1. up' = up => Arrived' = Arrived
            BY <1>2 DEF Arrived
        <3>. QED BY <1>5, <1>6, <2>1, <2>2, <3>1, Longer
    <2>4. CASE Starting
        <3>1. Arrived' = Append(Arrived, p)
            BY <1>1, <2>2, <2>4
        <3>2. CASE next = 1
            <4>1. p = BlePiece
                BY <2>4, <3>2 DEF Starting, BlePiece
            <4>2. EndsWithBle(Arrived')
                BY <1>1, <2>1, <3>1, <4>1, Longer
            <4>3. Starting' /\ next' = 2
                BY <1>1, <1>2, <1>7, <2>4, <3>2 DEF Starting
            <4>. QED BY <4>2, <4>3
        <3>3. CASE next = 2 /\ EndsWithBle(Arrived)
            <4>1. p = StartedPiece
                BY <2>4, <3>3 DEF Starting, StartedPiece
            <4>. QED BY <1>1, <2>1, <3>1, <3>3, <4>1, Longer
        <3>. QED BY <1>3, <2>3, <3>2, <3>3 DEF FreshKept
    <2>5. CASE ~Starting
        BY <1>3, <2>3, <2>5 DEF FreshKept
    <2>. QED BY <2>4, <2>5
<1>. QED BY <1>8, <1>10, <1>11, <1>12, <1>13 DEF ChannelInv

(* The start-up code clears the buffer; what the probe had of a piece it    *)
(* keeps.                                                                   *)
LEMMA ResetKeeps ==
    ASSUME ChannelInv, Reset
    PROVE  ChannelInv'
<1>1. /\ resets < MaxResets /\ resets' = resets + 1
      /\ pc' = "app_init" /\ scanning' = FALSE /\ next' = 0 /\ up' = << >>
      /\ fresh' = (host = "away")
      /\ UNCHANGED <<line, kind, host, verdict, captures, fate, scanned>>
      /\ log' = log \/ (host = "reading" /\ up # << >> /\ log' = Append(log, Cut(Head(up))))
    BY DEF Reset, Rebooted
<1>2. TypeOK /\ Evidence /\ Judging /\ VerdictTrue /\ log \in Seq(Piece)
    BY DEF ChannelInv, TypeOK
<1>3. /\ log' \in Seq(Piece)
      /\ TellsOfScan(log') => TellsOfScan(log) \/ (host = "reading" /\ scanning)
    <2>1. CASE log' = log
        BY <1>2, <2>1
    <2>2. CASE host = "reading" /\ up # << >> /\ log' = Append(log, Cut(Head(up)))
        BY <1>2, <2>2, FirstUnread, Longer DEF Evidence
    <2>. QED BY <1>1, <2>1, <2>2
<1>4. TypeOK'
    <2>1. resets' \in 0 .. MaxResets
        BY <1>1, <1>2, ChannelAssumption DEF TypeOK
    <2>2. up' \in Seq(Piece) /\ Len(up') <= BUFFER_SIZE_UP
        BY <1>1, Room
    <2>3. next' \in 0 .. 3
        BY <1>1
    <2>4. pc' \in {"app_init", "loop", "halted"} /\ scanning' \in BOOLEAN /\ fresh' \in BOOLEAN
        BY <1>1, Zenon
    <2>. QED BY <1>1, <1>2, <1>3, <2>1, <2>2, <2>3, <2>4, Zenon DEF TypeOK
<1>5. LinePart'
    <2>1. Len(Text(kind)) \in {2, 3}
        BY <1>2, Texts DEF TypeOK
    <2>. QED BY <1>1, <2>1 DEF LinePart
<1>6. StartUpFits' /\ FreshKept' /\ Judging' /\ VerdictTrue'
    BY <1>1, <1>2 DEF StartUpFits, Starting, FreshKept, Judging, VerdictTrue
<1>7. Evidence'
    <2>1. ~TellsOfScan(up)'
        BY <1>1 DEF TellsOfScan
    <2>2. TellsOfScan(log)' => TellsOfScan(log')
        BY DEF TellsOfScan
    <2>. QED BY <1>1, <1>2, <1>3, <2>1, <2>2 DEF Evidence
<1>. QED BY <1>4, <1>5, <1>6, <1>7 DEF ChannelInv

--------------------------------------------------------------------------------
(* The host. *)

LEMMA StartCaptureKeeps ==
    ASSUME ChannelInv, StartCapture
    PROVE  ChannelInv'
<1>1. /\ host = "away" /\ captures < MaxCaptures
      /\ host' = "reading" /\ captures' = captures + 1
      /\ log' = << >> /\ verdict' = "none" /\ scanned' = scanning
      /\ UNCHANGED <<pc, scanning, line, kind, next, up, resets, fate, fresh>>
    BY DEF StartCapture, device
<1>2. up \in Seq(Piece)
    BY DEF ChannelInv, TypeOK
<1>3. Arrived' = up /\ Arrived = up
    BY <1>1, <1>2, ConcatEmptySeq DEF Arrived
<1>4. TypeOK' /\ StartUpFits' /\ Judging' /\ LinePart' /\ VerdictTrue'
    BY <1>1, ChannelAssumption
    DEF ChannelInv, TypeOK, StartUpFits, Starting, Judging, LinePart, VerdictTrue
<1>5. Evidence'
    BY <1>1 DEF ChannelInv, Evidence, TellsOfScan
<1>6. FreshKept'
    BY <1>1, <1>3 DEF ChannelInv, FreshKept, ToldIn, EndsWithBle, Starting
<1>. QED BY <1>4, <1>5, <1>6 DEF ChannelInv

LEMMA ReadKeeps ==
    ASSUME ChannelInv, Read
    PROVE  ChannelInv'
<1>1. /\ host = "reading" /\ up # << >> /\ log' = Append(log, Head(up)) /\ up' = Tail(up)
      /\ UNCHANGED <<pc, scanning, line, kind, next, host, verdict, captures, fresh, scanned,
                     resets, fate>>
    BY DEF Read, device
<1>2. TypeOK /\ Evidence /\ log \in Seq(Piece) /\ up \in Seq(Piece)
    BY DEF ChannelInv, TypeOK
<1>3. Arrived' = Arrived
    BY <1>1, <1>2, ReadKeepsStream DEF Arrived
<1>4. up' \in Seq(Piece) /\ Len(up') = Len(up) - 1 /\ Len(up) \in Nat
      /\ \A i \in DOMAIN up' : i + 1 \in DOMAIN up /\ up'[i] = up[i + 1]
    BY <1>1, <1>2, HeadTailProperties
<1>5. log' \in Seq(Piece) /\ (TellsOfScan(log') => TellsOfScan(log) \/ scanning)
    BY <1>1, <1>2, FirstUnread, Longer DEF Evidence
<1>6. TypeOK' /\ StartUpFits'
    BY <1>1, <1>4, <1>5, Room DEF ChannelInv, TypeOK, StartUpFits, Starting
<1>7. Judging' /\ LinePart' /\ VerdictTrue'
    BY <1>1 DEF ChannelInv, Judging, LinePart, VerdictTrue
<1>8. Evidence'
    <2>1. TellsOfScan(up)' => TellsOfScan(up)
        BY <1>4 DEF TellsOfScan
    <2>2. TellsOfScan(log)' => TellsOfScan(log')
        BY DEF TellsOfScan
    <2>. QED BY <1>1, <1>2, <1>5, <2>1, <2>2 DEF Evidence
<1>9. FreshKept'
    BY <1>1, <1>3 DEF ChannelInv, FreshKept, ToldIn, EndsWithBle, Starting
<1>. QED BY <1>6, <1>7, <1>8, <1>9 DEF ChannelInv

LEMMA EndProbeEffect ==
    ASSUME ChannelInv, EndProbe
    PROVE  /\ host = "reading" /\ host' = "away" /\ fresh' = FALSE
           /\ UNCHANGED <<pc, scanning, line, kind, next, captures, scanned, resets, fate>>
           /\ log' \in Seq(Piece) /\ up' \in Seq(Piece) /\ Len(up') = Len(up)
           /\ TellsOfScan(log') => scanned
           /\ TellsOfScan(up') => scanning
           /\ HasMarker(log) => HasMarker(log')
<1>1. /\ host = "reading" /\ host' = "away" /\ fresh' = FALSE
      /\ UNCHANGED <<pc, scanning, line, kind, next, captures, scanned, resets, fate>>
    BY DEF EndProbe, device
<1>2. TypeOK /\ Evidence /\ log \in Seq(Piece) /\ up \in Seq(Piece)
    BY DEF ChannelInv, TypeOK
<1>3. CASE log' = log /\ up' = up
    BY <1>1, <1>2, <1>3 DEF Evidence
<1>4. CASE /\ up # << >> /\ log' = Append(log, Cut(Head(up)))
           /\ up' = [up EXCEPT ![1] = Cut(@)]
    <2>1. /\ Cut(Head(up)) \in Piece /\ Cut(Head(up)).kind = Head(up).kind /\ Head(up) = up[1]
          /\ Head(up).kind # "initialized" => TellsOfScan(up)
        BY <1>2, <1>4, FirstUnread
    <2>2. /\ log' \in Seq(Piece) /\ (HasMarker(log) => HasMarker(log'))
          /\ TellsOfScan(log') => TellsOfScan(log) \/ Head(up).kind # "initialized"
        BY <1>2, <1>4, <2>1, Longer
    <2>3. up' \in Seq(Piece) /\ Len(up') = Len(up)
        BY <1>2, <1>4, <2>1
    <2>4. \A i \in DOMAIN up' : i \in DOMAIN up /\ up'[i].kind = up[i].kind
        BY <1>2, <1>4, <2>1
    <2>5. TellsOfScan(up') => TellsOfScan(up)
        BY <2>4 DEF TellsOfScan
    <2>. QED BY <1>1, <1>2, <2>1, <2>2, <2>3, <2>5 DEF Evidence
<1>. QED BY <1>1, <1>3, <1>4 DEF EndProbe

(* What may read like the marker tells of the scan. *)
LEMMA AssessTrue ==
    ASSUME NEW text, assess_rtt_capture(text) \cap {"quiet", "scanning"} # {}
    PROVE  TellsOfScan(text)
<1>1. MayHaveMarker(text)
    BY DEF assess_rtt_capture
<1>. QED BY <1>1 DEF MayHaveMarker, TellsOfScan

LEMMA EndKeeps ==
    ASSUME ChannelInv, EndCapture \/ CaptureFails
    PROVE  ChannelInv'
<1>1. EndProbe /\ verdict' \in assess_rtt_capture(log') \cup {"error"}
    BY DEF EndCapture, CaptureFails
<1>2. /\ host = "reading" /\ host' = "away" /\ fresh' = FALSE
      /\ UNCHANGED <<pc, scanning, line, kind, next, captures, scanned, resets, fate>>
      /\ log' \in Seq(Piece) /\ up' \in Seq(Piece) /\ Len(up') = Len(up)
      /\ TellsOfScan(log') => scanned
      /\ TellsOfScan(up') => scanning
    BY <1>1, EndProbeEffect
<1>3. verdict' \in {"not_started", "quiet", "scanning", "error"}
    BY <1>1 DEF assess_rtt_capture
<1>4. TypeOK'
    BY <1>2, <1>3 DEF ChannelInv, TypeOK
<1>5. StartUpFits'
    <2>1. up = << >> => up' = << >>
        BY <1>2 DEF ChannelInv, TypeOK
    <2>. QED BY <1>2, <2>1 DEF ChannelInv, StartUpFits, Starting
<1>6. LinePart' /\ FreshKept' /\ Judging'
    BY <1>2 DEF ChannelInv, LinePart, FreshKept, Judging
<1>7. Evidence'
    <2>1. TellsOfScan(up)' => TellsOfScan(up')
        BY DEF TellsOfScan
    <2>. QED BY <1>2, <2>1 DEF ChannelInv, Evidence
<1>8. VerdictTrue'
    BY <1>1, <1>2, AssessTrue DEF VerdictTrue
<1>. QED BY <1>4, <1>5, <1>6, <1>7, <1>8 DEF ChannelInv

LEMMA ChannelStart == Init => ChannelInv
<1>. SUFFICES ASSUME Init PROVE ChannelInv
    OBVIOUS
<1>1. TypeOK
    <2>1. line \in 0 .. MaxLines /\ next \in 0 .. 3 /\ kind \in Kinds
        BY ChannelAssumption DEF Init, Kinds
    <2>2. up \in Seq(Piece) /\ Len(up) <= BUFFER_SIZE_UP /\ log \in Seq(Piece)
        BY Room DEF Init
    <2>3. resets \in 0 .. MaxResets /\ captures \in 0 .. MaxCaptures
        BY ChannelAssumption DEF Init
    <2>. QED BY <2>1, <2>2, <2>3, Zenon DEF Init, TypeOK
<1>2. LinePart /\ StartUpFits
    BY Texts DEF Init, LinePart, StartUpFits, Starting
<1>3. FreshKept /\ Judging /\ VerdictTrue /\ Evidence
    BY DEF Init, FreshKept, Judging, VerdictTrue, Evidence, TellsOfScan
<1>. QED BY <1>1, <1>2, <1>3 DEF ChannelInv

(* The inductive invariant holds of every behaviour.                        *)
THEOREM ChannelInvariant == Spec => []ChannelInv
<1>1. ChannelInv /\ [Next]_vars => ChannelInv'
    <2>. SUFFICES ASSUME ChannelInv, [Next]_vars PROVE ChannelInv'
        OBVIOUS
    <2>1. CASE AppInit                        BY <2>1, AppInitKeeps
    <2>2. CASE OnBoot                         BY <2>2, OnBootKeeps
    <2>3. CASE OnReport \/ AppProcessAction   BY <2>3, LaterLineKeeps
    <2>4. CASE WritePiece                     BY <2>4, WriteKeeps
    <2>5. CASE StartCapture                   BY <2>5, StartCaptureKeeps
    <2>6. CASE Read                           BY <2>6, ReadKeeps
    <2>7. CASE EndCapture \/ CaptureFails     BY <2>7, EndKeeps
    <2>8. CASE Reset                          BY <2>8, ResetKeeps
    <2>9. CASE UNCHANGED vars
        <3>1. UNCHANGED <<pc, scanning, line, kind, next, up, log, host, verdict, captures,
                          fresh, scanned, resets, fate>>
            BY <2>9 DEF vars, device, probe
        <3>2. TypeOK' /\ LinePart' /\ StartUpFits' /\ Judging' /\ VerdictTrue' /\ Evidence'
            BY <3>1 DEF ChannelInv, TypeOK, LinePart, StartUpFits, Starting, Judging, VerdictTrue,
                        Evidence, TellsOfScan
        <3>3. Arrived' = Arrived
            BY <3>1 DEF Arrived
        <3>4. FreshKept'
            BY <3>1, <3>3 DEF ChannelInv, FreshKept, ToldIn, EndsWithBle, Starting
        <3>. QED BY <3>2, <3>4 DEF ChannelInv
    <2>. QED BY <2>1, <2>2, <2>3, <2>4, <2>5, <2>6, <2>7, <2>8, <2>9 DEF Next, Device, Host
<1>. QED BY ChannelStart, <1>1, PTL DEF Spec

(* Of a line only the pieces that it has are written, and the buffer never  *)
(* holds more than its size (app.c:67-131, SEGGER_RTT_Conf.h:93-107).       *)
THEOREM ChannelTypeCorrect == Spec => []TypeOK
BY ChannelInvariant, PTL DEF ChannelInv

(* Whatever was cut or dropped, whatever names were advertised, and however *)
(* reading, writing, resetting and capturing interleave, a capture passes   *)
(* only if the device was scanning while it ran (capture_rtt.sh:44-66,      *)
(* validate_rtt_capture.py:11-15).                                          *)
THEOREM VerdictIsTrue == Spec => []VerdictTrue
BY ChannelInvariant, PTL DEF ChannelInv

(* The first capture after a reset that comes to see what the device        *)
(* printed never claims that scanning did not start (capture_rtt.sh:44-66). *)
THEOREM FirstCaptureIsFair == Spec => FirstCaptureFair
<1>. DEFINE Fair == verdict' = "not_started" /\ verdict = "none" /\ fresh /\ scanning
                      => \/ \E i \in DOMAIN up : up[i].kind = "started"
                         \/ kind = "started" /\ next # 0
<1>1. ChannelInv /\ [Next]_vars => Fair
    <2>. SUFFICES ASSUME ChannelInv, [Next]_vars, verdict' = "not_started", verdict = "none",
                         fresh, scanning, ~Starting
                  PROVE  \E i \in DOMAIN up : up[i].kind = "started"
        BY DEF Starting
    <2>1. EndCapture
        BY DEF Next, Device, Host, vars, device, probe, AppInit, OnBoot, OnReport, AppProcessAction,
               WritePiece, Reset, StartCapture, Read, CaptureFails
    <2>2. /\ TypeOK /\ host = "reading" /\ Arrived = log \o up /\ ToldIn(Arrived)
          /\ log \in Seq(Piece) /\ up \in Seq(Piece)
        BY <2>1 DEF EndCapture, EndProbe, Arrived, ChannelInv, FreshKept, TypeOK
    <2>3. ~HasMarker(log)
        <3>1. "not_started" \in assess_rtt_capture(log') /\ EndProbe
            BY <2>1 DEF EndCapture
        <3>2. ~HasMarker(log')
            BY <3>1 DEF assess_rtt_capture
        <3>. QED BY <3>1, <3>2, EndProbeEffect
    <2>4. /\ Len(log \o up) = Len(log) + Len(up) /\ Len(log) \in Nat /\ Len(up) \in Nat
          /\ DOMAIN up = 1 .. Len(up)
          /\ \A i \in 1 .. Len(log) + Len(up) : (log \o up)[i] =
                         IF i <= Len(log) THEN log[i] ELSE up[i - Len(log)]
        BY <2>2, ConcatProperties
    <2>5. PICK i \in 1 .. Len(log) + Len(up) - 1 :
                   (log \o up)[i] = BlePiece /\ (log \o up)[i + 1] = StartedPiece
        BY <2>2, <2>4 DEF ToldIn
    <2>6. CASE i + 1 <= Len(log)
        <3>1. i \in 1 .. Len(log) - 1 /\ log[i] = BlePiece /\ log[i + 1] = StartedPiece
            BY <2>4, <2>5, <2>6
        <3>2. /\ BlePiece.whole /\ StartedPiece.whole
              /\ TextOf(BlePiece) = BLE /\ TextOf(StartedPiece) = STARTED
            BY Texts DEF BlePiece, StartedPiece
        <3>3. HasMarker(log)
            BY <3>1, <3>2 DEF HasMarker
        <3>. QED BY <2>3, <3>3
    <2>7. CASE i + 1 > Len(log)
        <3>1. i + 1 \in 1 .. Len(log) + Len(up) /\ (i + 1) - Len(log) \in 1 .. Len(up)
            BY <2>4, <2>5, <2>7
        <3>2. up[(i + 1) - Len(log)] = StartedPiece
            BY <2>4, <2>5, <2>7, <3>1
        <3>. QED BY <2>4, <3>1, <3>2 DEF StartedPiece
    <2>. QED BY <2>4, <2>5, <2>6, <2>7
<1>. QED BY <1>1, ChannelInvariant, PTL DEF Spec, FirstCaptureFair

--------------------------------------------------------------------------------
(* The RTT lock (RttLock).  Neither OneWriter nor MaskRestored is           *)
(* inductive: what matters besides is that a context in the lock has been   *)
(* cut into only by handlers the lock does not mask, which never write, and *)
(* that the outermost lock has saved the empty mask and each inner one the  *)
(* lock's own.                                                              *)

(* The variant that was compiled masks every handler that writes.           *)
LockSound == lock \in Locks /\ Writers \subseteq lock.masks

SavedInOrder ==
    \A c \in Contexts : Holds(c) =>
        /\ mask = lock.masks
        /\ saved[c][1] = {}
        /\ \A i \in 2 .. Len(saved[c]) : saved[c][i] = lock.masks

CutByUnmasked ==
    \A c \in Contexts : Holds(c) =>
        \A h \in active \ {c} : c = Main \/ MoreUrgent(h, c) => h \notin lock.masks

LockInv == LockTypeOK /\ LockSound /\ OneWriter /\ MaskRestored /\ SavedInOrder /\ CutByUnmasked

--------------------------------------------------------------------------------
LEMMA VariantsSound ==
    ASSUME NEW b \in Builds
    PROVE  LockOf(b) \in Locks /\ Writers \subseteq LockOf(b).masks
<1>1. LockOf(b) \in {Primask, Basepri, EnableBit, NoLock}
    BY DEF LockOf, SesGcc, Iar, Keil, Ti, Ccrx
<1>2. LockOf(b) \in {Primask, Basepri, EnableBit}
    BY <1>1, BuildAssumption
<1>3. Primask \in Locks /\ Writers \subseteq Primask.masks
    BY LockAssumption DEF Primask, Locks
<1>4. Basepri \in Locks /\ Writers \subseteq Basepri.masks
    BY LockAssumption DEF Basepri, Locks
<1>5. EnableBit \in Locks /\ Writers \subseteq EnableBit.masks
    BY LockAssumption DEF EnableBit, Locks
<1>. QED BY <1>2, <1>3, <1>4, <1>5

(* A context that comes to lock holds the lock already, or nobody does.     *)
LEMMA LockerIsAlone ==
    ASSUME LockInv, NEW c \in Writers \cup {Main}, Executes(c), NEW d \in Contexts, Holds(d)
    PROVE  d = c
<1>1. CASE c = Main
    <2>1. active = {}
        BY <1>1, LockAssumption DEF Executes, Running, LockInv, LockTypeOK
    <2>. QED BY <1>1, <2>1 DEF LockInv, LockTypeOK, Contexts
<1>2. CASE c # Main
    <2>1. c \in active /\ c \in lock.masks /\ \A h \in active \ {c} : MoreUrgent(c, h)
        BY <1>2 DEF Executes, Running, LockInv, LockSound
    <2>2. d = Main \/ d \in active
        BY DEF LockInv, LockTypeOK, Contexts
    <2>. QED BY <2>1, <2>2 DEF LockInv, CutByUnmasked
<1>. QED BY <1>1, <1>2

--------------------------------------------------------------------------------
LEMMA LockInitially == LockInit => LockInv
<1>. SUFFICES ASSUME LockInit PROVE LockInv
    OBVIOUS
<1>1. LockSound
    BY VariantsSound DEF LockInit, LockSound
<1>2. \A c \in Contexts : ~Holds(c)
    BY DEF LockInit, Holds
<1>3. LockTypeOK
    BY <1>1, <1>2 DEF LockInit, LockTypeOK, LockSound, Contexts
<1>. QED BY <1>1, <1>2, <1>3
    DEF LockInv, OneWriter, MaskRestored, SavedInOrder, CutByUnmasked, LockInit

LEMMA RaiseKeeps ==
    ASSUME LockInv, NEW h \in Handlers, Raise(h)
    PROVE  LockInv'
BY DEF LockInv, Raise, LockTypeOK, LockSound, OneWriter, MaskRestored, SavedInOrder,
       CutByUnmasked, Holds, MoreUrgent

(* Only a handler that is not masked enters, and it holds nothing yet.      *)
LEMMA EnterKeeps ==
    ASSUME LockInv, NEW h \in Handlers, Enter(h)
    PROVE  LockInv'
<1>. USE DEF Enter
<1>1. h \notin active /\ h \notin mask
    BY DEF Cuts
<1>2. LockTypeOK'
    BY DEF LockInv, LockTypeOK, Holds
<1>3. CutByUnmasked'
    <2>. SUFFICES ASSUME NEW c \in Contexts, Holds(c), NEW g \in active \cup {h}, g # c,
                         c = Main \/ MoreUrgent(g, c)
                  PROVE  g \notin lock.masks
        BY DEF CutByUnmasked, Holds, MoreUrgent
    <2>1. CASE g = h
        BY <2>1, <1>1 DEF LockInv, SavedInOrder
    <2>2. CASE g \in active
        BY <2>2 DEF LockInv, CutByUnmasked
    <2>. QED BY <2>1, <2>2
<1>. QED BY <1>2, <1>3
    DEF LockInv, LockSound, OneWriter, MaskRestored, SavedInOrder, Holds

LEMMA ReturnKeeps ==
    ASSUME LockInv, NEW h \in Handlers, Return(h)
    PROVE  LockInv'
BY DEF LockInv, Return, LockTypeOK, LockSound, OneWriter, MaskRestored, SavedInOrder,
       CutByUnmasked, Holds, MoreUrgent

LEMMA LockKeeps ==
    ASSUME LockInv, NEW c \in Contexts, SEGGER_RTT_LOCK(c)
    PROVE  LockInv'
<1>. USE DEF SEGGER_RTT_LOCK
<1>1. c \in Writers \cup {Main} /\ saved[c] \in Seq(SUBSET Handlers) /\ mask \in SUBSET Handlers
    BY DEF LockInv, LockTypeOK
<1>2. /\ saved' \in [Contexts -> Seq(SUBSET Handlers)]
      /\ saved'[c] = Append(saved[c], mask) /\ \A d \in Contexts \ {c} : saved'[d] = saved[d]
    BY <1>1 DEF LockInv, LockTypeOK
<1>3. \A d \in Contexts \ {c} : ~Holds(d) /\ ~Holds(d)'
    BY <1>1, <1>2, LockerIsAlone DEF Holds
<1>4. LockTypeOK'
    <2>1. \A h \in Handlers : Holds(h)' => h \in active' \cap Writers
        BY <1>1, <1>3, LockAssumption DEF Executes, Running, Contexts
    <2>2. lock' \in Locks /\ mask' \in SUBSET Handlers
        BY DEF LockInv, LockTypeOK, Locks
    <2>. QED BY <1>2, <2>1, <2>2 DEF LockInv, LockTypeOK
<1>5. OneWriter' /\ LockSound'
    BY <1>3 DEF OneWriter, LockSound, LockInv
<1>6. Holds(c)'
    BY <1>1, <1>2 DEF Holds
<1>7. SavedInOrder'
    <2>1. CASE Holds(c)
        <3>1. mask = lock.masks /\ saved[c] # << >> /\ saved[c][1] = {}
                 /\ \A i \in 2 .. Len(saved[c]) : saved[c][i] = lock.masks
            BY <2>1 DEF LockInv, SavedInOrder, Holds
        <3>. QED BY <1>1, <1>2, <1>3, <3>1 DEF SavedInOrder
    <2>2. CASE ~Holds(c)
        <3>1. mask = {} /\ saved[c] = << >>
            BY <2>2, <1>3 DEF LockInv, MaskRestored, Holds
        <3>. QED BY <1>2, <1>3, <3>1 DEF SavedInOrder
    <2>. QED BY <2>1, <2>2
<1>8. CutByUnmasked'
    <2>. SUFFICES ASSUME NEW h \in active, h # c, c = Main \/ MoreUrgent(h, c)
                  PROVE  FALSE
        BY <1>3 DEF CutByUnmasked, MoreUrgent
    <2>1. c # Main
        BY LockAssumption DEF Executes, Running, LockInv, LockTypeOK
    <2>2. MoreUrgent(c, h) /\ c \in Handlers /\ h \in Handlers
        BY <2>1 DEF Executes, Running, LockInv, LockTypeOK, Contexts
    <2>. QED BY <2>1, <2>2, LockAssumption DEF MoreUrgent
<1>. QED BY <1>4, <1>5, <1>6, <1>7, <1>8 DEF LockInv, MaskRestored

LEMMA UnlockKeeps ==
    ASSUME LockInv, NEW c \in Contexts, SEGGER_RTT_UNLOCK(c)
    PROVE  LockInv'
<1>. USE DEF SEGGER_RTT_UNLOCK
<1>. DEFINE n == Len(saved[c])
<1>1. Holds(c) /\ saved[c] \in Seq(SUBSET Handlers) /\ n \in Nat \ {0}
    BY DEF LockInv, LockTypeOK, Holds
<1>2. /\ saved' \in [Contexts -> Seq(SUBSET Handlers)]
      /\ saved'[c] = SubSeq(saved[c], 1, n - 1) /\ \A d \in Contexts \ {c} : saved'[d] = saved[d]
    <2>1. SubSeq(saved[c], 1, n - 1) \in Seq(SUBSET Handlers)
        BY <1>1
    <2>. QED BY <2>1 DEF LockInv, LockTypeOK
<1>3. \A d \in Contexts \ {c} : ~Holds(d) /\ ~Holds(d)'
    BY <1>1, <1>2 DEF LockInv, OneWriter, Holds
<1>4. /\ mask = lock.masks /\ saved[c][1] = {}
      /\ \A i \in 2 .. n : saved[c][i] = lock.masks
    BY <1>1 DEF LockInv, SavedInOrder
<1>5. CASE n = 1
    <2>1. saved'[c] = << >>
        BY <1>1, <1>2, <1>5
    <2>2. \A d \in Contexts : ~Holds(d)'
        BY <1>3, <2>1 DEF Holds
    <2>3. mask' = {}
        BY <1>4, <1>5 DEF UnlockedMask
    <2>4. LockTypeOK'
        BY <1>2, <2>2, <2>3 DEF LockInv, LockTypeOK, Contexts
    <2>. QED BY <2>2, <2>3, <2>4
        DEF LockInv, LockSound, OneWriter, MaskRestored, SavedInOrder, CutByUnmasked
<1>6. CASE n # 1
    <2>1. mask' = lock.masks
        <3>1. mask' = UnlockedMask(saved[c][n])
            OBVIOUS
        <3>2. saved[c][n] = mask
            <4>. HIDE DEF n
            <4>1. n \in 2 .. n
                BY <1>1, <1>6
            <4>. QED BY <1>4, <4>1
        <3>. QED BY <1>4, <3>1, <3>2 DEF UnlockedMask
    <2>2. /\ Len(saved'[c]) = n - 1 /\ saved'[c] # << >>
          /\ \A i \in 1 .. n - 1 : saved'[c][i] = saved[c][i]
        <3>1. 1 \in 1 .. n /\ n - 1 \in 1 .. n /\ n - 1 >= 1
            <4>. HIDE DEF n
            <4>. QED BY <1>1, <1>6
        <3>2. /\ Len(SubSeq(saved[c], 1, n - 1)) = n - 1
              /\ \A i \in 1 .. n - 1 : SubSeq(saved[c], 1, n - 1)[i] = saved[c][i]
            BY <1>1, <3>1
        <3>. QED BY <1>2, <3>1, <3>2
    <2>3. Holds(c)'
        BY <2>2 DEF Holds
    <2>4. LockTypeOK'
        <3>1. \A h \in Handlers : Holds(h)' => h \in active' \cap Writers
            BY <1>1, <1>3 DEF LockInv, LockTypeOK, Contexts
        <3>2. mask' \in SUBSET Handlers
            BY <1>4, <2>1 DEF LockInv, LockTypeOK
        <3>. QED BY <1>2, <3>1, <3>2 DEF LockInv, LockTypeOK
    <2>5. SavedInOrder'
        BY <1>1, <1>3, <1>4, <1>6, <2>1, <2>2 DEF SavedInOrder
    <2>6. CutByUnmasked'
        BY <1>1, <1>3 DEF LockInv, CutByUnmasked, MoreUrgent
    <2>. QED BY <1>3, <2>3, <2>4, <2>5, <2>6 DEF LockInv, LockSound, OneWriter, MaskRestored
<1>. QED BY <1>5, <1>6

--------------------------------------------------------------------------------
(* The inductive invariant holds of every behaviour.                        *)
THEOREM LockInvariant == LockSpec => []LockInv
<1>1. LockInv /\ [LockNext]_lockVars => LockInv'
    <2>. SUFFICES ASSUME LockInv, [LockNext]_lockVars PROVE LockInv'
        OBVIOUS
    <2>1. ASSUME NEW h \in Handlers, Raise(h) PROVE LockInv'
        BY <2>1, RaiseKeeps
    <2>2. ASSUME NEW h \in Handlers, Enter(h) PROVE LockInv'
        BY <2>2, EnterKeeps
    <2>3. ASSUME NEW h \in Handlers, Return(h) PROVE LockInv'
        BY <2>3, ReturnKeeps
    <2>4. ASSUME NEW c \in Contexts, SEGGER_RTT_LOCK(c) PROVE LockInv'
        BY <2>4, LockKeeps
    <2>5. ASSUME NEW c \in Contexts, SEGGER_RTT_UNLOCK(c) PROVE LockInv'
        BY <2>5, UnlockKeeps
    <2>6. CASE UNCHANGED lockVars
        BY <2>6 DEF lockVars, LockInv, LockTypeOK, LockSound, OneWriter, MaskRestored, SavedInOrder,
                    CutByUnmasked, Holds, MoreUrgent
    <2>. QED BY <2>1, <2>2, <2>3, <2>4, <2>5, <2>6 DEF LockNext, Step
<1>. QED BY LockInitially, <1>1, PTL DEF LockSpec

(* Masks are sets of handlers, and a handler that holds the lock is active  *)
(* and one of those that may write (SEGGER_RTT_Conf.h:154-425).             *)
THEOREM LockTypeCorrect == LockSpec => []LockTypeOK
BY LockInvariant, PTL DEF LockInv

(* However many handlers there are and however deep they nest, two contexts *)
(* are never between lock and unlock at once (SEGGER_RTT_Conf.h:131-134,    *)
(* 154-396).                                                                *)
THEOREM OneWriterHolds == LockSpec => []OneWriter
BY LockInvariant, PTL DEF LockInv

(* No sequence of nested locks leaves an interrupt masked                   *)
(* (SEGGER_RTT_Conf.h:419-424).                                             *)
THEOREM MaskIsRestored == LockSpec => []MaskRestored
BY LockInvariant, PTL DEF LockInv
================================================================================
