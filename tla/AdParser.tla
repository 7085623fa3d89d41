------------------------------- MODULE AdParser -------------------------------
(***************************************************************************)
(* parse_local_name of firmware/ble_scanner/src/scan_tracker.c: the loop   *)
(* over the AD structures (length, type, data) of an advertisement payload *)
(* that extracts the local name into a fixed buffer.  One action is one    *)
(* way through the loop body; `looked' and `touched' record the payload    *)
(* bytes read and the buffer positions written so far, as the C code has   *)
(* no check of its own that they exist.                                    *)
(***************************************************************************)
EXTENDS Integers

CONSTANTS
    Bytes,          \* byte values of a payload
    MaxLength,      \* longest payload
    NameCapacity    \* SCAN_TRACKER_NAME_CAPACITY, the terminator included

ASSUME ParserAssumption ==
    /\ Bytes \subseteq 0 .. 255
    /\ MaxLength \in Nat
    /\ NameCapacity \in Nat \ {0}

ShortenedName == 8      \* AD_TYPE_SHORTENED_LOCAL_NAME
CompleteName  == 9      \* AD_TYPE_COMPLETE_LOCAL_NAME
Dot           == 46     \* '.'

VARIABLES payload, payload_length, offset, running,
          value, present, complete, malformed,      \* parsed_name_t
          looked, touched

vars   == <<payload, payload_length, offset, running,
            value, present, complete, malformed, looked, touched>>
input  == <<payload, payload_length>>
parsed == <<value, present, complete>>

Init ==
    /\ payload_length \in 0 .. MaxLength
    /\ payload \in [0 .. (payload_length - 1) -> Bytes]
    /\ offset = 0 /\ running = TRUE
    /\ value = [i \in 0 .. (NameCapacity - 1) |-> 0]
    /\ present = FALSE /\ complete = FALSE /\ malformed = FALSE
    /\ looked = {} /\ touched = {}

--------------------------------------------------------------------------------
(* What lies past the payload is unknown to the code; InBounds says that it *)
(* is never read, so any value will do for it.                              *)
Byte(i) == IF i < payload_length THEN payload[i] ELSE 0

Remaining   == payload_length - offset
FieldLength == Byte(offset)
FieldType   == Byte(offset + 1)
IsName      == FieldType \in {ShortenedName, CompleteName}

(* Faulty: a field may end one byte past the payload. *)
TruncatedPastEnd == FieldLength > Remaining
Truncated        == FieldLength >= Remaining

(* A name is taken unless it is shortened and a complete one was found. *)
(* Faulty: the last name of either kind wins. *)
TakesAnyName == IsName
TakesName    == IsName /\ (complete => FieldType = CompleteName)

CopyLength == IF FieldLength - 1 < NameCapacity - 1
              THEN FieldLength - 1 ELSE NameCapacity - 1

Shown(character) == IF character \in 32 .. 126 THEN character ELSE Dot

--------------------------------------------------------------------------------
End ==
    /\ running /\ offset >= payload_length
    /\ running' = FALSE
    /\ UNCHANGED <<input, offset, parsed, malformed, looked, touched>>

(* Faulty: a zero length is skipped instead of ending the payload. *)
EarlyContinue ==
    /\ running /\ offset < payload_length
    /\ FieldLength = 0
    /\ UNCHANGED vars

EarlyTermination ==
    /\ running /\ offset < payload_length
    /\ FieldLength = 0
    /\ running' = FALSE
    /\ looked' = looked \cup {offset}
    /\ UNCHANGED <<input, offset, parsed, malformed, touched>>

TruncatedField ==
    /\ running /\ offset < payload_length
    /\ FieldLength # 0 /\ Truncated
    /\ malformed' = TRUE
    /\ running' = FALSE
    /\ looked' = looked \cup {offset}
    /\ UNCHANGED <<input, offset, parsed, touched>>

WholeField ==
    /\ running /\ offset < payload_length
    /\ FieldLength # 0 /\ ~Truncated
    /\ offset' = offset + FieldLength + 1
    /\ UNCHANGED <<input, running, malformed>>

SkipField ==
    /\ WholeField /\ ~TakesName
    /\ looked' = looked \cup {offset, offset + 1}
    /\ UNCHANGED <<parsed, touched>>

NameField ==
    /\ WholeField /\ TakesName
    /\ looked' = looked \cup {offset, offset + 1}
                        \cup {offset + 2 + i : i \in 0 .. (CopyLength - 1)}
    /\ touched' = touched \cup 0 .. CopyLength
    /\ value' = [i \in DOMAIN value |->
                    IF i < CopyLength THEN Shown(Byte(offset + 2 + i))
                    ELSE IF i = CopyLength THEN 0 ELSE value[i]]
    /\ present' = TRUE
    /\ complete' = (FieldType = CompleteName)

Next == End \/ EarlyTermination \/ TruncatedField \/ SkipField \/ NameField

Spec == Init /\ [][Next]_vars /\ WF_vars(Next)

--------------------------------------------------------------------------------
TypeOK ==
    /\ payload_length \in 0 .. MaxLength /\ payload \in [0 .. (payload_length - 1) -> Bytes]
    /\ offset \in 0 .. payload_length /\ running \in BOOLEAN
    /\ value \in [0 .. (NameCapacity - 1) -> 0 .. 255]
    /\ present \in BOOLEAN /\ complete \in BOOLEAN /\ malformed \in BOOLEAN
    /\ looked \subseteq Nat /\ touched \subseteq Nat

(* Whatever the radio delivers, the loop reads inside the payload and       *)
(* writes inside the name buffer (scan_tracker.c:39-73).                    *)
InBounds ==
    /\ looked \subseteq 0 .. (payload_length - 1)
    /\ touched \subseteq 0 .. (NameCapacity - 1)

(* The buffer always holds a terminated string, also after a name that is   *)
(* longer than it, or one taken over a longer one (scan_tracker.c:57-68).   *)
Terminated == \E k \in DOMAIN value : value[k] = 0

StringOf(v) ==
    LET n == CHOOSE k \in DOMAIN v : v[k] = 0 /\ \A j \in 0 .. (k - 1) : v[j] # 0
    IN  [i \in 0 .. (n - 1) |-> v[i]]

(* The reference: the fields of the payload are the chain of structures     *)
(* from its start, in which a well-formed one is followed by the one that   *)
(* begins where it ends, and one that is not by none; the name is that of   *)
(* the last complete name field, or else of the last shortened one; the     *)
(* payload is malformed if the chain is stopped by a field that runs past   *)
(* the end.                                                                 *)
WellFormedAt(p, n, s) == s < n /\ p[s] # 0 /\ s + p[s] < n
After(p, s)           == s + p[s] + 1

IsChain(C, p, n) ==
    /\ 0 \in C
    /\ \A s \in C : IF WellFormedAt(p, n, s)
                    THEN After(p, s) \in C /\ \A t \in C : t <= s \/ After(p, s) <= t
                    ELSE \A t \in C : t <= s

FieldStarts(p, n)  == CHOOSE C \in SUBSET (0 .. n) : IsChain(C, p, n)
Named(p, n, type)  == {s \in FieldStarts(p, n) : WellFormedAt(p, n, s) /\ p[s + 1] = type}
NameAt(p, s)       == [i \in {j \in 0 .. (NameCapacity - 2) : j < p[s] - 1} |-> Shown(p[s + 2 + i])]
LastOf(S)          == CHOOSE s \in S : \A t \in S : t <= s

Expected(p, n) ==
    LET full == Named(p, n, CompleteName)
        best == IF full # {} THEN full ELSE Named(p, n, ShortenedName)
    IN  [present   |-> best # {},
         name      |-> IF best # {} THEN NameAt(p, LastOf(best)) ELSE << >>,
         malformed |-> \E s \in FieldStarts(p, n) : s < n /\ p[s] # 0 /\ s + p[s] >= n]

(* The result of the loop is the reference's: fields in any order, names    *)
(* of both kinds, empty ones, and an error after a name, which keeps it     *)
(* (scan_tracker.c:29-77).                                                  *)
ResultExpected ==
    ~running =>
        LET e == Expected(payload, payload_length)
        IN  /\ present = e.present /\ malformed = e.malformed
            /\ present => StringOf(value) = e.name
            /\ ~present => value[0] = 0

(* The loop ends for every payload, whatever lengths it claims              *)
(* (scan_tracker.c:39-50).                                                  *)
Terminates == <>(~running)
===============================================================================
