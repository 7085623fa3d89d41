---------------------------- MODULE AdParserProofs ----------------------------
(***************************************************************************)
(* The parser for payloads of any length over any bytes and for a name     *)
(* buffer of any capacity: its memory safety, and that its result is the   *)
(* one the reference defines.                                              *)
(***************************************************************************)
EXTENDS AdParser, TLAPS

SafeInv == TypeOK /\ InBounds /\ Terminated

LEMMA ByteType ==
    ASSUME TypeOK, NEW i \in Nat
    PROVE  Byte(i) \in 0 .. 255
<1>1. payload_length \in Int /\ payload \in [0 .. (payload_length - 1) -> Bytes]
  BY ParserAssumption DEF TypeOK
<1>2. CASE i < payload_length
  <2>1. i \in 0 .. (payload_length - 1)
    BY <1>1, <1>2
  <2>2. payload[i] \in Bytes
    BY <1>1, <2>1, Zenon
  <2>3. payload[i] \in 0 .. 255
    BY <2>2, ParserAssumption, Zenon
  <2> QED BY <1>2, <2>3 DEF Byte
<1>3. CASE ~(i < payload_length)
  BY <1>3 DEF Byte
<1> QED BY <1>2, <1>3

LEMMA ShownType ==
    ASSUME NEW c \in 0 .. 255
    PROVE  Shown(c) \in 1 .. 255
BY DEF Shown, Dot

LEMMA SafeInit == Init => SafeInv
<1> SUFFICES ASSUME Init PROVE SafeInv
  OBVIOUS
<1>1. TypeOK
  <2>1. /\ payload_length \in 0 .. MaxLength
        /\ payload \in [0 .. (payload_length - 1) -> Bytes]
    BY DEF Init
  <2>2. offset \in 0 .. payload_length
    BY <2>1, ParserAssumption DEF Init
  <2>3. value \in [0 .. (NameCapacity - 1) -> 0 .. 255]
    <3>1. 0 \in 0 .. 255
      OBVIOUS
    <3>2. value = [i \in 0 .. (NameCapacity - 1) |-> 0]
      BY DEF Init
    <3> QED BY <3>1, <3>2, Zenon
  <2>4. /\ running \in BOOLEAN /\ present \in BOOLEAN /\ complete \in BOOLEAN
        /\ malformed \in BOOLEAN /\ looked \subseteq Nat /\ touched \subseteq Nat
    BY DEF Init
  <2> QED BY <2>1, <2>2, <2>3, <2>4 DEF TypeOK
<1>2. Terminated
  <2>1. 0 \in DOMAIN value /\ value[0] = 0
    BY ParserAssumption DEF Init
  <2> QED BY <2>1 DEF Terminated
<1>3. InBounds
  BY DEF Init, InBounds
<1> QED BY <1>1, <1>2, <1>3 DEF SafeInv

(* A whole field ends inside the payload, and its copy fits the buffer.     *)
LEMMA WholeFieldFits ==
    ASSUME TypeOK, WholeField
    PROVE  /\ FieldLength \in 1 .. 255
           /\ offset + FieldLength < payload_length
           /\ offset' \in 0 .. payload_length
           /\ CopyLength \in 0 .. (NameCapacity - 1) /\ CopyLength <= FieldLength - 1
<1>1. offset \in Nat /\ payload_length \in Nat /\ offset <= payload_length
  BY ParserAssumption DEF TypeOK
<1>2. FieldLength \in 0 .. 255
  BY <1>1, ByteType DEF FieldLength
<1>3. FieldLength # 0 /\ ~(FieldLength >= payload_length - offset)
  BY DEF WholeField, Truncated, Remaining
<1>4. offset + FieldLength < payload_length
  BY <1>1, <1>2, <1>3
<1>5. offset' = offset + FieldLength + 1
  BY DEF WholeField
<1>6. CopyLength \in 0 .. (NameCapacity - 1) /\ CopyLength <= FieldLength - 1
  BY <1>2, <1>3, ParserAssumption DEF CopyLength
<1> QED BY <1>1, <1>2, <1>3, <1>4, <1>5, <1>6

LEMMA SafeStep == SafeInv /\ [Next]_vars => SafeInv'
<1> SUFFICES ASSUME SafeInv, [Next]_vars PROVE SafeInv'
  OBVIOUS
<1> USE DEF SafeInv
<1>0. offset \in Nat /\ payload_length \in Nat /\ offset <= payload_length
  BY ParserAssumption DEF TypeOK
<1>1. CASE End
  BY <1>1 DEF End, input, parsed, TypeOK, InBounds, Terminated
<1>2. ASSUME UNCHANGED <<input, offset, parsed, touched>>, running' = FALSE,
             malformed' \in BOOLEAN, offset < payload_length, looked' = looked \cup {offset}
      PROVE  SafeInv'
  <2>1. TypeOK'
    BY <1>0, <1>2 DEF input, parsed, TypeOK
  <2>2. InBounds'
    BY <1>0, <1>2 DEF input, parsed, InBounds
  <2>3. Terminated'
    BY <1>2 DEF parsed, Terminated
  <2> QED BY <2>1, <2>2, <2>3
<1>3. CASE EarlyTermination \/ TruncatedField
  BY <1>2, <1>3 DEF EarlyTermination, TruncatedField, TypeOK
<1>4. CASE SkipField
  <2>1. WholeField /\ UNCHANGED <<parsed, touched>> /\ looked' = looked \cup {offset, offset + 1}
    BY <1>4 DEF SkipField
  <2>2. TypeOK'
    BY <1>0, <2>1, WholeFieldFits DEF WholeField, input, parsed, TypeOK
  <2>3. offset + 1 \in 0 .. (payload_length - 1) /\ offset \in 0 .. (payload_length - 1)
    BY <1>0, <2>1, WholeFieldFits
  <2>4. InBounds'
    BY <2>1, <2>3 DEF WholeField, input, InBounds
  <2>5. Terminated'
    BY <2>1 DEF parsed, Terminated
  <2> QED BY <2>2, <2>4, <2>5
<1>5. CASE NameField
  <2>1. /\ WholeField /\ touched' = touched \cup 0 .. CopyLength /\ present' = TRUE
        /\ complete' = (FieldType = CompleteName)
        /\ looked' = looked \cup {offset, offset + 1}
                            \cup {offset + 2 + i : i \in 0 .. (CopyLength - 1)}
        /\ value' = [i \in DOMAIN value |->
                        IF i < CopyLength THEN Shown(Byte(offset + 2 + i))
                        ELSE IF i = CopyLength THEN 0 ELSE value[i]]
    BY <1>5 DEF NameField
  <2>2. /\ FieldLength \in 1 .. 255 /\ offset + FieldLength < payload_length
        /\ CopyLength \in 0 .. (NameCapacity - 1) /\ CopyLength <= FieldLength - 1
        /\ offset' \in 0 .. payload_length
    BY <2>1, WholeFieldFits
  <2>3. value' \in [0 .. (NameCapacity - 1) -> 0 .. 255]
    <3>1. DOMAIN value = 0 .. (NameCapacity - 1)
      BY DEF TypeOK
    <3>2. ASSUME NEW i \in 0 .. (NameCapacity - 1)
          PROVE  /\ Shown(Byte(offset + 2 + i)) \in 0 .. 255
                 /\ value[i] \in 0 .. 255
      <4>1. offset + 2 + i \in Nat
        BY <1>0, ParserAssumption
      <4>2. Byte(offset + 2 + i) \in 0 .. 255
        BY <4>1, ByteType
      <4>3. Shown(Byte(offset + 2 + i)) \in 1 .. 255
        BY <4>2, ShownType
      <4>4. 1 .. 255 \subseteq 0 .. 255
        OBVIOUS
      <4>5. value[i] \in 0 .. 255
        BY DEF TypeOK
      <4> QED BY <4>3, <4>4, <4>5, Zenon
    <3> QED BY <2>1, <3>1, <3>2
  <2>4. looked' \subseteq 0 .. (payload_length - 1)
    <3>1. offset \in 0 .. (payload_length - 1) /\ offset + 1 \in 0 .. (payload_length - 1)
      BY <1>0, <2>2
    <3>2. \A i \in 0 .. (CopyLength - 1) : offset + 2 + i \in 0 .. (payload_length - 1)
      BY <1>0, <2>2, ParserAssumption
    <3> QED BY <2>1, <3>1, <3>2 DEF InBounds
  <2>5. touched' \subseteq 0 .. (NameCapacity - 1)
    <3>1. 0 .. CopyLength \subseteq 0 .. (NameCapacity - 1)
      BY <2>2, ParserAssumption
    <3>2. touched \subseteq 0 .. (NameCapacity - 1)
      BY DEF InBounds
    <3> QED BY <2>1, <3>1, <3>2, Zenon
  <2>6. InBounds'
    BY <2>1, <2>4, <2>5 DEF InBounds, WholeField, input
  <2>7. Terminated'
    <3>1. CopyLength \in DOMAIN value /\ DOMAIN value' = DOMAIN value
      BY <2>1, <2>2 DEF TypeOK
    <3>2. value'[CopyLength] = 0
      BY <2>1, <2>2, <3>1, ParserAssumption
    <3> QED BY <3>1, <3>2 DEF Terminated
  <2>8. TypeOK'
    <3>1. looked' \subseteq Nat /\ touched' \subseteq Nat
      BY <2>4, <2>5, <1>0, ParserAssumption
    <3> QED BY <2>1, <2>2, <2>3, <3>1 DEF TypeOK, WholeField, input
  <2> QED BY <2>6, <2>7, <2>8
<1>6. CASE UNCHANGED vars
  BY <1>6 DEF vars, TypeOK, InBounds, Terminated
<1> QED BY <1>1, <1>3, <1>4, <1>5, <1>6 DEF Next

--------------------------------------------------------------------------------
(* The chain of structures. *)

(* What is reached from the start of the payload, one structure after the   *)
(* other.  A set that has the start and, with a structure, the one after it *)
(* has everything that is reached: this stands in for an induction.         *)
Closed(S, p, n) == 0 \in S /\ \A s \in S : WellFormedAt(p, n, s) => After(p, s) \in S
Reached(p, n)   == {s \in 0 .. n : \A S \in SUBSET (0 .. n) : Closed(S, p, n) => s \in S}

(* There is a chain, of any payload.                                        *)
LEMMA ChainExists ==
    ASSUME NEW n \in Nat, NEW p, \A i \in 0 .. (n - 1) : p[i] \in Nat
    PROVE  Reached(p, n) \in SUBSET (0 .. n) /\ IsChain(Reached(p, n), p, n)
<1>. DEFINE R == Reached(p, n)
            WF(s) == WellFormedAt(p, n, s)
<1>1. R \in SUBSET (0 .. n) /\ \A S \in SUBSET (0 .. n) : Closed(S, p, n) => R \subseteq S
  BY DEF Reached
<1>2. ASSUME NEW s \in 0 .. n, WF(s)
      PROVE  After(p, s) \in 0 .. n /\ s < After(p, s)
  BY <1>2 DEF WellFormedAt, After
<1>3. 0 \in R /\ \A s \in R : WF(s) => After(p, s) \in R
  BY <1>2 DEF Reached, Closed
<1>. HIDE DEF R, WF
<1>. DEFINE Whole(x) == \A y \in R : y < x => WF(y) /\ After(p, y) <= x
<1>4. ASSUME NEW x \in R, Whole(x), NEW y \in R
      PROVE  y <= x \/ (WF(x) /\ After(p, x) <= y)
  <2>. DEFINE S == {z \in R : z <= x \/ (WF(x) /\ After(p, x) <= z)}
  <2>1. 0 \in S
    BY <1>1, <1>3
  <2>2. ASSUME NEW s \in S, WF(s) PROVE After(p, s) \in S
    <3>1. s \in R /\ After(p, s) \in R /\ s \in 0 .. n /\ x \in 0 .. n
          /\ After(p, s) \in 0 .. n /\ s < After(p, s)
      BY <1>1, <1>2, <1>3, <2>2
    <3>2. CASE s < x
      BY <1>4, <3>1, <3>2
    <3>3. CASE s = x
      BY <2>2, <3>1, <3>3
    <3>4. CASE s > x
      <4>1. WF(x) /\ After(p, x) <= s /\ After(p, x) \in 0 .. n
        BY <1>2, <3>1, <3>4
      <4>. QED BY <3>1, <4>1
    <3>. QED BY <3>1, <3>2, <3>3, <3>4
  <2>3. S \in SUBSET (0 .. n) /\ Closed(S, p, n)
    BY <1>1, <2>1, <2>2 DEF Closed, WF
  <2>4. R \subseteq S
    BY <1>1, <2>3
  <2>. QED BY <2>4
<1>5. ASSUME NEW x \in R PROVE Whole(x)
  <2>. DEFINE S == {z \in R : Whole(z)}
  <2>1. 0 \in S
    BY <1>1, <1>3
  <2>2. ASSUME NEW s \in S, WF(s) PROVE After(p, s) \in S
    <3>1. s \in 0 .. n /\ After(p, s) \in R /\ After(p, s) \in 0 .. n /\ s < After(p, s)
      BY <1>1, <1>2, <1>3, <2>2
    <3>2. ASSUME NEW y \in R, y < After(p, s) PROVE WF(y) /\ After(p, y) <= After(p, s)
      <4>1. y \in 0 .. n /\ y <= s
        BY <1>1, <1>4, <3>1, <3>2
      <4>2. CASE y = s
        BY <2>2, <3>1, <4>2
      <4>3. CASE y < s
        <5>1. WF(y) /\ After(p, y) <= s /\ After(p, y) \in 0 .. n
          BY <1>2, <4>1, <4>3
        <5>. QED BY <3>1, <5>1
      <4>. QED BY <3>1, <4>1, <4>2, <4>3
    <3>. QED BY <3>1, <3>2
  <2>3. S \in SUBSET (0 .. n) /\ Closed(S, p, n)
    BY <1>1, <2>1, <2>2 DEF Closed, WF
  <2>4. R \subseteq S
    BY <1>1, <2>3
  <2>. QED BY <2>4
<1>. QED BY <1>1, <1>3, <1>4, <1>5 DEF IsChain, R, WF

(* The reference's field starts are a chain of the payload.                 *)
LEMMA StartsAreChain ==
    ASSUME TypeOK
    PROVE  /\ FieldStarts(payload, payload_length) \subseteq 0 .. payload_length
           /\ IsChain(FieldStarts(payload, payload_length), payload, payload_length)
<1>1. payload_length \in Nat
  BY ParserAssumption DEF TypeOK
<1>2. \A i \in 0 .. (payload_length - 1) : payload[i] \in 0 .. 255
  BY ParserAssumption DEF TypeOK
<1>3. \E C \in SUBSET (0 .. payload_length) : IsChain(C, payload, payload_length)
  BY <1>1, <1>2, ChainExists
<1>. QED BY <1>3 DEF FieldStarts

--------------------------------------------------------------------------------
(* The result so far is the reference's for the structures passed so far. *)

Starts       == FieldStarts(payload, payload_length)
WholeAt(s)   == WellFormedAt(payload, payload_length, s)
Passed(type) == {s \in Named(payload, payload_length, type) : s < offset}
BestPassed   == IF complete THEN Passed(CompleteName) ELSE Passed(ShortenedName)

(* The buffer holds the name of the field at s, cut to its size.            *)
Copied(s) == IF payload[s] - 1 < NameCapacity - 1 THEN payload[s] - 1 ELSE NameCapacity - 1
Holds(s)  == /\ \A i \in 0 .. (Copied(s) - 1) : value[i] = Shown(payload[s + 2 + i])
             /\ value[Copied(s)] = 0

ResultInv ==
    /\ offset \in Starts /\ \A s \in Starts : s < offset => WholeAt(s)
    /\ running => ~malformed
    /\ ~running => ~WholeAt(offset)
    /\ ~running => (malformed <=> offset < payload_length /\ payload[offset] # 0)
    /\ complete <=> Passed(CompleteName) # {}
    /\ present <=> Passed(CompleteName) \cup Passed(ShortenedName) # {}
    /\ present => \E s \in BestPassed : Holds(s) /\ \A t \in BestPassed : t <= s
    /\ ~present => value[0] = 0

LEMMA ResultInit == Init => ResultInv
<1>. SUFFICES ASSUME Init PROVE ResultInv
  OBVIOUS
<1>1. TypeOK
  BY SafeInit DEF SafeInv
<1>2. 0 \in Starts /\ Starts \subseteq Nat
  BY <1>1, StartsAreChain DEF Starts, IsChain
<1>3. \A t : Passed(t) = {}
  BY <1>2 DEF Init, Passed, Named, Starts
<1>4. value[0] = 0
  BY ParserAssumption DEF Init
<1>. QED BY <1>2, <1>3, <1>4 DEF Init, ResultInv

(* A whole field is in the chain, and the next structure begins after it.   *)
LEMMA FieldPassed ==
    ASSUME TypeOK, ResultInv, WholeField
    PROVE  /\ WholeAt(offset) /\ payload[offset] = FieldLength /\ payload[offset + 1] = FieldType
           /\ Starts' = Starts /\ offset' \in Starts
           /\ \A s \in Starts : s < offset' => s <= offset /\ WholeAt(s)
           /\ \A s \in Starts : WholeAt(s)' <=> WholeAt(s)
           /\ \A t : Passed(t)' = IF t = FieldType THEN Passed(t) \cup {offset} ELSE Passed(t)
<1>1. /\ offset \in Nat /\ payload_length \in Nat /\ offset < payload_length
      /\ FieldLength \in 1 .. 255 /\ offset + FieldLength < payload_length
      /\ offset' = offset + FieldLength + 1 /\ UNCHANGED <<payload, payload_length>>
  BY WholeFieldFits, ParserAssumption DEF TypeOK, WholeField, input
<1>2. payload[offset] = FieldLength /\ payload[offset + 1] = FieldType
  BY <1>1 DEF FieldLength, FieldType, Byte
<1>3. WholeAt(offset) /\ After(payload, offset) = offset'
  BY <1>1, <1>2 DEF WholeAt, WellFormedAt, After
<1>4. Starts' = Starts /\ \A s \in Starts : WholeAt(s)' <=> WholeAt(s)
  BY <1>1 DEF Starts, WholeAt
<1>5. Starts \subseteq 0 .. payload_length /\ IsChain(Starts, payload, payload_length)
  BY StartsAreChain DEF Starts
<1>6. offset \in Starts /\ \A s \in Starts : s < offset => WholeAt(s)
  BY DEF ResultInv
<1>7. offset' \in Starts /\ \A s \in Starts : s <= offset \/ offset' <= s
  BY <1>3, <1>5, <1>6 DEF IsChain, WholeAt
<1>8. \A s \in Starts : s \in Nat /\ (s < offset' <=> s <= offset)
  BY <1>1, <1>5, <1>7
<1>9. \A s \in Starts : s < offset' => s <= offset /\ WholeAt(s)
  <2>. SUFFICES ASSUME NEW s \in Starts, s < offset' PROVE s <= offset /\ WholeAt(s)
    OBVIOUS
  <2>1. s \in Nat /\ s <= offset
    BY <1>8
  <2>2. s = offset \/ s < offset
    BY <1>1, <2>1
  <2>. QED BY <1>3, <1>6, <2>1, <2>2
<1>10. \A t : Passed(t)' = IF t = FieldType THEN Passed(t) \cup {offset} ELSE Passed(t)
  <2>. TAKE t
  <2>1. \A s : s \in Passed(t) <=> s \in Starts /\ WholeAt(s) /\ payload[s + 1] = t /\ s < offset
    BY DEF Passed, Named, Starts, WholeAt
  <2>2. \A s : s \in Passed(t)' <=> s \in Starts /\ WholeAt(s) /\ payload[s + 1] = t /\ s < offset'
    BY <1>1, <1>4 DEF Passed, Named, Starts, WholeAt
  <2>3. \A s \in Starts : s < offset' <=> s < offset \/ s = offset
    BY <1>1, <1>8
  <2>4. \A s : s \in Passed(t)' <=> s \in Passed(t) \/ (s = offset /\ t = FieldType)
    BY <1>2, <1>3, <1>6, <2>1, <2>2, <2>3
  <2>5. Passed(t) \subseteq Starts /\ Passed(t)' \subseteq Starts
    BY <2>1, <2>2
  <2>. QED BY <2>4
<1>. QED BY <1>2, <1>3, <1>4, <1>7, <1>9, <1>10

(* A step that leaves offset and name alone leaves what was passed alone.   *)
LEMMA ResultKept ==
    ASSUME UNCHANGED <<payload, payload_length, offset, value, present, complete>>
    PROVE  /\ Starts' = Starts /\ (\A t : Passed(t)' = Passed(t)) /\ BestPassed' = BestPassed
           /\ (\A s : Holds(s)' <=> Holds(s)) /\ (\A s : WholeAt(s)' <=> WholeAt(s))
BY DEF Starts, Passed, BestPassed, Holds, Copied, WholeAt

LEMMA ResultStep == SafeInv /\ ResultInv /\ [Next]_vars => ResultInv'
<1>. SUFFICES ASSUME SafeInv, ResultInv, [Next]_vars PROVE ResultInv'
  OBVIOUS
<1>0. /\ TypeOK /\ offset \in Nat /\ payload_length \in Nat /\ offset <= payload_length
      /\ Starts \subseteq Nat
  <2>1. TypeOK
    BY DEF SafeInv
  <2>. QED BY <2>1, StartsAreChain, ParserAssumption DEF TypeOK, Starts
<1>1. CASE End
  <2>1. UNCHANGED <<payload, payload_length, offset, value, present, complete, malformed>>
        /\ running /\ running' = FALSE /\ ~(offset < payload_length)
    BY <1>0, <1>1 DEF End, input, parsed
  <2>2. ~WholeAt(offset)
    BY <2>1 DEF WholeAt, WellFormedAt
  <2>. QED BY <2>1, <2>2, ResultKept DEF ResultInv
<1>2. CASE EarlyTermination
  <2>1. UNCHANGED <<payload, payload_length, offset, value, present, complete, malformed>>
        /\ running /\ running' = FALSE /\ payload[offset] = 0
    BY <1>2 DEF EarlyTermination, input, parsed, FieldLength, Byte
  <2>2. ~WholeAt(offset)
    BY <2>1 DEF WholeAt, WellFormedAt
  <2>. QED BY <2>1, <2>2, ResultKept DEF ResultInv
<1>3. CASE TruncatedField
  <2>1. UNCHANGED <<payload, payload_length, offset, value, present, complete>>
        /\ malformed' = TRUE /\ running' = FALSE /\ offset < payload_length
        /\ payload[offset] # 0 /\ payload[offset] >= payload_length - offset
    BY <1>3 DEF TruncatedField, Truncated, Remaining, input, parsed, FieldLength, Byte
  <2>2. payload[offset] \in 0 .. 255
    BY <1>0, <2>1, ByteType DEF Byte
  <2>3. ~WholeAt(offset)
    BY <1>0, <2>1, <2>2 DEF WholeAt, WellFormedAt
  <2>. QED BY <2>1, <2>3, ResultKept DEF ResultInv
<1>4. ASSUME WholeField, NEW c \in BOOLEAN, complete' = c, present' \in BOOLEAN
      PROVE  /\ offset' \in Starts' /\ \A s \in Starts' : s < offset' => WholeAt(s)'
             /\ running /\ running' /\ ~malformed'
  BY <1>0, <1>4, FieldPassed DEF WholeField, ResultInv
<1>5. CASE SkipField
  <2>1. WholeField /\ ~TakesName /\ UNCHANGED <<value, present, complete, payload>>
    BY <1>5 DEF SkipField, WholeField, input, parsed
  <2>2. /\ offset' \in Starts' /\ \A s \in Starts' : s < offset' => WholeAt(s)'
        /\ running' /\ ~malformed'
    BY <1>0, <1>4, <2>1 DEF TypeOK
  <2>3. \A t : Passed(t)' = IF t = FieldType THEN Passed(t) \cup {offset} ELSE Passed(t)
    BY <1>0, <2>1, FieldPassed
  <2>4. Passed(CompleteName)' = Passed(CompleteName) /\ (~complete => Passed(ShortenedName)' = Passed(ShortenedName))
    BY <2>1, <2>3 DEF TakesName, IsName
  <2>5. BestPassed' = BestPassed /\ \A s : Holds(s)' <=> Holds(s)
    BY <2>1, <2>4 DEF BestPassed, Holds, Copied
  <2>6. complete' <=> Passed(CompleteName)' # {}
    BY <2>1, <2>4 DEF ResultInv
  <2>7. present' <=> Passed(CompleteName)' \cup Passed(ShortenedName)' # {}
    BY <2>1, <2>4 DEF ResultInv
  <2>. QED BY <2>1, <2>2, <2>5, <2>6, <2>7 DEF ResultInv
<1>6. CASE NameField
  <2>1. /\ WholeField /\ TakesName /\ present' = TRUE /\ complete' = (FieldType = CompleteName)
        /\ value' = [i \in DOMAIN value |->
                        IF i < CopyLength THEN Shown(Byte(offset + 2 + i))
                        ELSE IF i = CopyLength THEN 0 ELSE value[i]]
        /\ UNCHANGED <<payload, payload_length>>
    BY <1>6 DEF NameField, WholeField, input
  <2>2. /\ offset' \in Starts' /\ \A s \in Starts' : s < offset' => WholeAt(s)'
        /\ running' /\ ~malformed'
    BY <1>0, <1>4, <2>1
  <2>3. /\ payload[offset] = FieldLength
        /\ \A t : Passed(t)' = IF t = FieldType THEN Passed(t) \cup {offset} ELSE Passed(t)
    BY <1>0, <2>1, FieldPassed
  <2>. PICK o : o = offset
    OBVIOUS
  <2>4. Holds(o)'
    <3>1. /\ CopyLength \in 0 .. (NameCapacity - 1) /\ CopyLength <= FieldLength - 1
          /\ FieldLength \in 1 .. 255 /\ o + FieldLength < payload_length /\ o \in Nat
      BY <1>0, <2>1, WholeFieldFits
    <3>2. DOMAIN value = 0 .. (NameCapacity - 1)
      BY <1>0 DEF TypeOK
    <3>3. Copied(o)' = CopyLength
      BY <2>1, <2>3 DEF CopyLength, Copied
    <3>4. \A i \in 0 .. (CopyLength - 1) : value'[i] = Shown(payload'[o + 2 + i])
      <4>. TAKE i \in 0 .. (CopyLength - 1)
      <4>1. i \in DOMAIN value /\ i < CopyLength /\ o + 2 + i < payload_length
        BY <1>0, <3>1, <3>2, ParserAssumption
      <4>2. Byte(o + 2 + i) = payload[o + 2 + i]
        BY <4>1 DEF Byte
      <4>. QED BY <2>1, <4>1, <4>2
    <3>5. value'[CopyLength] = 0
      BY <2>1, <3>1, <3>2
    <3>. QED BY <3>3, <3>4, <3>5 DEF Holds
  <2>5. \A t : Passed(t) \subseteq {s \in Nat : s < o}
    BY <1>0 DEF Passed, Named, Starts
  <2>6. CASE FieldType = CompleteName
    <3>1. Passed(CompleteName)' = Passed(CompleteName) \cup {o} /\ complete'
      BY <2>1, <2>3, <2>6
    <3>2. BestPassed' = Passed(CompleteName) \cup {o}
      BY <3>1 DEF BestPassed
    <3>3. \A t \in BestPassed' : t <= o
      BY <1>0, <2>5, <3>2
    <3>. QED BY <2>1, <2>2, <2>4, <3>1, <3>2, <3>3 DEF ResultInv
  <2>7. CASE FieldType = ShortenedName
    <3>0. FieldType # CompleteName /\ CompleteName # ShortenedName
      BY <2>7 DEF ShortenedName, CompleteName
    <3>1. Passed(CompleteName) = {} /\ ~complete'
      BY <2>1, <3>0 DEF ResultInv, TakesName
    <3>2. Passed(CompleteName)' = {} /\ Passed(ShortenedName)' = Passed(ShortenedName) \cup {o}
      BY <2>3, <2>7, <3>0, <3>1
    <3>3. BestPassed' = Passed(ShortenedName) \cup {o}
      BY <3>1, <3>2 DEF BestPassed
    <3>4. \A t \in BestPassed' : t <= o
      BY <1>0, <2>5, <3>3
    <3>. QED BY <2>1, <2>2, <2>4, <3>1, <3>2, <3>3, <3>4 DEF ResultInv
  <2>. QED BY <2>1, <2>6, <2>7 DEF TakesName, IsName
<1>7. CASE UNCHANGED vars
  <2>1. UNCHANGED <<payload, payload_length, offset, running, value, present, complete, malformed>>
    BY <1>7 DEF vars
  <2>. QED BY <2>1, ResultKept DEF ResultInv
<1>. QED BY <1>1, <1>2, <1>3, <1>5, <1>6, <1>7 DEF Next

(* A buffer that holds a name is the string of that name.                   *)
LEMMA HeldName ==
    ASSUME TypeOK, NEW s \in Nat, WholeAt(s), Holds(s)
    PROVE  StringOf(value) = NameAt(payload, s)
<1>1. /\ payload_length \in Nat /\ s < payload_length /\ payload[s] # 0 /\ s + payload[s] < payload_length
      /\ NameCapacity \in Nat \ {0} /\ DOMAIN value = 0 .. (NameCapacity - 1)
  BY ParserAssumption DEF TypeOK, WholeAt, WellFormedAt
<1>2. \A i \in 0 .. (payload_length - 1) : payload[i] \in 0 .. 255
  BY ParserAssumption DEF TypeOK
<1>3. payload[s] \in 1 .. 255
  BY <1>1, <1>2
<1>. PICK m : m = Copied(s)
  OBVIOUS
<1>. PICK l \in 1 .. 255 : l = payload[s]
  BY <1>3
<1>4. /\ m \in 0 .. (NameCapacity - 1) /\ m <= l - 1
      /\ \A j \in 0 .. (NameCapacity - 2) : j < l - 1 <=> j < m
  <2>1. m = IF l - 1 < NameCapacity - 1 THEN l - 1 ELSE NameCapacity - 1
    BY DEF Copied
  <2>2. NameCapacity \in Nat \ {0}
    BY ParserAssumption
  <2>3. m \in 0 .. (NameCapacity - 1) /\ m <= l - 1
    BY <2>1, <2>2
  <2>4. \A j \in 0 .. (NameCapacity - 2) : j < l - 1 <=> j < m
    BY <2>1, <2>2
  <2>. QED BY <2>3, <2>4
<1>5. value[m] = 0 /\ \A i \in 0 .. (m - 1) : value[i] = Shown(payload[s + 2 + i])
  BY DEF Holds
<1>6. \A i \in 0 .. (m - 1) : value[i] # 0
  <2>. TAKE i \in 0 .. (m - 1)
  <2>1. i \in Nat /\ i < l - 1
    BY <1>1, <1>4
  <2>2. s + 2 + i \in 0 .. (payload_length - 1)
    BY <1>1, <2>1
  <2>3. Shown(payload[s + 2 + i]) \in 1 .. 255
    BY <1>2, <2>2, ShownType
  <2>. QED BY <1>5, <2>3
<1>7. \A k \in DOMAIN value : value[k] = 0 /\ (\A j \in 0 .. (k - 1) : value[j] # 0) => k = m
  BY <1>1, <1>4, <1>5, <1>6
<1>8. StringOf(value) = [i \in 0 .. (m - 1) |-> value[i]]
  <2>1. m \in DOMAIN value
    BY <1>1, <1>4
  <2>2. m = CHOOSE k \in DOMAIN value : value[k] = 0 /\ \A j \in 0 .. (k - 1) : value[j] # 0
    BY <1>5, <1>6, <1>7, <2>1
  <2>. QED BY <2>2 DEF StringOf
<1>9. {j \in 0 .. (NameCapacity - 2) : j < payload[s] - 1} = 0 .. (m - 1)
  BY <1>1, <1>4
<1>10. NameAt(payload, s) = [i \in 0 .. (m - 1) |-> Shown(payload[s + 2 + i])]
  BY <1>9 DEF NameAt
<1>. QED BY <1>5, <1>8, <1>10

(* At the end, what was passed is all there is.                             *)
LEMMA ResultAtEnd == TypeOK /\ ResultInv => ResultExpected
<1>. SUFFICES ASSUME TypeOK, ResultInv, ~running PROVE ResultExpected
  BY DEF ResultExpected
<1>. DEFINE e    == Expected(payload, payload_length)
            full == Named(payload, payload_length, CompleteName)
            best == IF full # {} THEN full ELSE Named(payload, payload_length, ShortenedName)
<1>1. /\ Starts \subseteq 0 .. payload_length /\ IsChain(Starts, payload, payload_length)
      /\ payload_length \in Nat /\ offset \in Nat
      /\ \A i \in 0 .. (payload_length - 1) : payload[i] \in 0 .. 255
  <2>1. payload_length \in Nat /\ offset \in Nat
    BY ParserAssumption DEF TypeOK
  <2>2. \A i \in 0 .. (payload_length - 1) : payload[i] \in 0 .. 255
    BY ParserAssumption DEF TypeOK
  <2>. QED BY <2>1, <2>2, StartsAreChain DEF Starts
<1>2. offset \in Starts /\ ~WholeAt(offset) /\ \A s \in Starts : s < offset => WholeAt(s)
  BY DEF ResultInv
<1>3. \A s \in Starts : s <= offset
  BY <1>1, <1>2 DEF IsChain, WholeAt
<1>4. \A t : Passed(t) = Named(payload, payload_length, t)
  <2>. TAKE t
  <2>1. ASSUME NEW s \in Named(payload, payload_length, t) PROVE s < offset
    <3>1. s \in Starts /\ WholeAt(s)
      BY <2>1 DEF Named, Starts, WholeAt
    <3>2. s # offset /\ s <= offset /\ s \in Nat
      BY <1>1, <1>2, <1>3, <3>1
    <3>. QED BY <1>1, <3>2
  <2>. QED BY <2>1 DEF Passed
<1>5. best = (IF present THEN BestPassed ELSE {})
  BY <1>4 DEF ResultInv, BestPassed
<1>6. /\ e.present = (best # {})
      /\ e.name = IF best # {} THEN NameAt(payload, LastOf(best)) ELSE << >>
      /\ e.malformed = \E s \in Starts : s < payload_length /\ payload[s] # 0
                                           /\ s + payload[s] >= payload_length
  BY DEF Expected, Starts
<1>. HIDE DEF e, best, full
<1>7. present = e.present
  <2>1. present <=> best # {}
    BY <1>5 DEF ResultInv
  <2>. QED BY <1>6, <2>1 DEF TypeOK
<1>8. malformed = e.malformed
  <2>1. malformed <=> offset < payload_length /\ payload[offset] # 0
    BY DEF ResultInv
  <2>2. ASSUME offset < payload_length, payload[offset] # 0
        PROVE  offset + payload[offset] >= payload_length
    <3>1. payload[offset] \in 0 .. 255 /\ ~(offset + payload[offset] < payload_length)
      BY <1>1, <1>2, <2>2 DEF WholeAt, WellFormedAt
    <3>. QED BY <1>1, <3>1
  <2>3. ASSUME NEW s \in Starts, s < payload_length, payload[s] # 0, s + payload[s] >= payload_length
        PROVE  s = offset
    <3>1. s \in Nat /\ s <= offset /\ payload[s] \in 0 .. 255
      BY <1>1, <1>3, <2>3
    <3>2. ~(s + payload[s] < payload_length)
      BY <1>1, <2>3, <3>1
    <3>3. ~WholeAt(s)
      BY <3>2 DEF WholeAt, WellFormedAt
    <3>. QED BY <1>1, <1>2, <3>1, <3>3
  <2>4. malformed <=> \E s \in Starts : s < payload_length /\ payload[s] # 0
                                         /\ s + payload[s] >= payload_length
    BY <1>2, <2>1, <2>2, <2>3
  <2>. QED BY <1>6, <2>4 DEF TypeOK
<1>9. ASSUME present PROVE StringOf(value) = e.name
  <2>1. PICK s \in best : Holds(s) /\ \A t \in best : t <= s
    BY <1>5, <1>9 DEF ResultInv
  <2>2. best \subseteq Nat /\ \A t \in best : WholeAt(t)
    BY <1>1 DEF best, full, Named, Starts, WholeAt
  <2>3. LastOf(best) = s
    <3>1. \A t \in best : (\A u \in best : u <= t) => t = s
      BY <2>1, <2>2
    <3>. QED BY <2>1, <3>1 DEF LastOf
  <2>4. StringOf(value) = NameAt(payload, s)
    BY <2>1, <2>2, HeldName
  <2>. QED BY <1>6, <2>1, <2>3, <2>4
<1>10. ~present => value[0] = 0
  BY DEF ResultInv
<1>. QED BY <1>7, <1>8, <1>9, <1>10 DEF ResultExpected, e

--------------------------------------------------------------------------------
(* Theorems. *)

(* Every variable keeps its type: the offset never passes the payload's end *)
(* (scan_tracker.c:39-77).                                                  *)
THEOREM ParserTypeCorrect == Spec => []TypeOK
BY SafeInit, SafeStep, PTL DEF Spec, SafeInv

(* For every payload the radio may deliver, the parser reads inside the     *)
(* payload and writes inside the name buffer.                               *)
THEOREM ParserInBounds == Spec => []InBounds
BY SafeInit, SafeStep, PTL DEF Spec, SafeInv

(* The name buffer always holds a terminated string.                        *)
THEOREM NameTerminated == Spec => []Terminated
BY SafeInit, SafeStep, PTL DEF Spec, SafeInv

(* For every payload, of any length, and any name capacity the parser finds *)
(* the name that the reference defines, or none where there is none, and    *)
(* tells a malformed payload from a well-formed one (scan_tracker.c:29-77). *)
THEOREM ParserIsCorrect == Spec => []ResultExpected
<1>1. SafeInv => TypeOK
  BY DEF SafeInv
<1>. QED BY <1>1, SafeInit, SafeStep, ResultInit, ResultStep, ResultAtEnd, PTL DEF Spec

===============================================================================
