-------------------------------- MODULE RttLock --------------------------------
(***************************************************************************)
(* SEGGER_RTT_LOCK and SEGGER_RTT_UNLOCK (config/SEGGER_RTT_Conf.h) in all *)
(* the variants the header offers: every write to an RTT buffer runs       *)
(* between the two, so that a handler that also writes cannot cut in.  The *)
(* lock masks interrupts and keeps the former mask in a local variable;    *)
(* it may be taken again inside itself.                                    *)
(*                                                                         *)
(* A mask is the set of handlers it holds back.  The processor runs the    *)
(* most urgent active handler; a pending handler that is not masked and    *)
(* more urgent than it cuts in before the next instruction.                *)
(***************************************************************************)
EXTENDS Integers, Sequences

CONSTANTS
    Handlers,       \* interrupt handlers
    Priority,       \* their priorities: a lower number is more urgent
    Writers,        \* the handlers that may write to RTT
    SEGGER_RTT_MAX_INTERRUPT_PRIORITY,
    Main,           \* the super-loop, which writes to RTT too
    MaxNesting,     \* bound on the locks taken inside each other
    Builds          \* the compilers and architectures to look at

Contexts == Handlers \cup {Main}

(* "Make sure to mask all interrupts which can send RTT data."              *)
ASSUME LockAssumption ==
    /\ Priority \in [Handlers -> Nat]
    /\ \A g, h \in Handlers : Priority[g] = Priority[h] => g = h
    /\ SEGGER_RTT_MAX_INTERRUPT_PRIORITY \in Nat
    /\ Writers \subseteq {h \in Handlers : Priority[h] >= SEGGER_RTT_MAX_INTERRUPT_PRIORITY}
    /\ Main \notin Handlers
    /\ MaxNesting \in Nat

--------------------------------------------------------------------------------
(* What the lock masks, and whether the unlock writes the saved mask back   *)
(* or only enables again what was enabled when it was saved.                *)
Locks   == [masks : SUBSET Handlers, writes_back : BOOLEAN]
Primask == [masks |-> Handlers, writes_back |-> TRUE]
Basepri == [masks |-> {h \in Handlers : Priority[h] >= SEGGER_RTT_MAX_INTERRUPT_PRIORITY},
            writes_back |-> TRUE]
EnableBit == [masks |-> Handlers, writes_back |-> FALSE]
NoLock    == [masks |-> {}, writes_back |-> TRUE]

SesGcc(arch) ==
    CASE arch \in {"6M", "8M_BASE"}       -> Primask
      [] arch \in {"7M", "7EM", "8M_MAIN"} -> Basepri
      [] arch \in {"7A", "7R"}            -> Primask      \* CPSR, IRQ and FIQ
      [] arch = "riscv"                   -> EnableBit    \* mstatus
      [] OTHER                            -> NoLock
Iar(arch) ==
    CASE arch \in {"6M", "8M_BASE"}       -> Primask
      [] arch \in {"7M", "7EM", "8M_MAIN"} -> Basepri
      [] arch \in {"7A", "7R"}            -> Primask
      [] arch \in {"rx", "rl78"}          -> Primask      \* the interrupt state
      [] OTHER                            -> NoLock
Keil(arch) ==
    CASE arch = "6M"                      -> Primask
      [] arch \in {"7M", "7EM"}           -> Basepri
      [] OTHER                            -> NoLock
Ti(arch) ==
    CASE arch = "6M"                      -> Primask
      [] arch \in {"7M", "7EM"}           -> Basepri
      [] OTHER                            -> NoLock
Ccrx == EnableBit                                         \* the psw

LockOf(build) ==
    CASE build[1] = "gcc"  -> SesGcc(build[2])
      [] build[1] = "iar"  -> Iar(build[2])
      [] build[1] = "keil" -> Keil(build[2])
      [] build[1] = "ti"   -> Ti(build[2])
      [] build[1] = "ccrx" -> Ccrx
      [] OTHER             -> NoLock                      \* the fallback

ASSUME BuildAssumption == \A b \in Builds : LockOf(b) # NoLock

--------------------------------------------------------------------------------
VARIABLES
    lock,       \* the variant that was compiled
    mask,       \* the handlers that are held back
    pending,    \* the handlers that were requested and have not begun
    active,     \* the handlers that have begun and not returned
    saved,      \* per context: _SEGGER_RTT__LockState of each lock it holds
    closing     \* the contexts that have begun to unlock

lockVars == <<lock, mask, pending, active, saved, closing>>

LockInit ==
    /\ lock \in {LockOf(b) : b \in Builds}
    /\ mask = {} /\ pending = {} /\ active = {}
    /\ saved = [c \in Contexts |-> << >>] /\ closing = {}

MoreUrgent(g, h) == Priority[g] < Priority[h]
Running(c) ==
    \/ c = Main /\ active = {}
    \/ c \in active /\ \A h \in active \ {c} : MoreUrgent(c, h)
Cuts(h) == h \in pending \ (mask \cup active) /\ \A g \in active : MoreUrgent(h, g)

Raise(h) ==
    /\ h \notin pending
    /\ pending' = pending \cup {h}
    /\ UNCHANGED <<lock, mask, active, saved, closing>>

(* Of several handlers that could cut in, the most urgent one does. *)
Enter(h) ==
    /\ Cuts(h) /\ \A g \in Handlers \ {h} : Cuts(g) => MoreUrgent(h, g)
    /\ pending' = pending \ {h} /\ active' = active \cup {h}
    /\ UNCHANGED <<lock, mask, saved, closing>>

Executes(c) == Running(c) /\ \A h \in Handlers : ~Cuts(h)

SEGGER_RTT_LOCK(c) ==
    /\ Executes(c) /\ c \in Writers \cup {Main}
    /\ Len(saved[c]) < MaxNesting /\ c \notin closing
    /\ saved' = [saved EXCEPT ![c] = Append(@, mask)]
    /\ mask' = lock.masks
    /\ UNCHANGED <<lock, pending, active, closing>>

(* Faulty: everything is enabled, or nothing is given back. *)
OpenedMask(state) == {}
KeptMask(state)   == mask
UnlockedMask(state) == IF lock.writes_back THEN state ELSE mask \cap state

SEGGER_RTT_UNLOCK(c) ==
    /\ Executes(c) /\ saved[c] # << >>
    /\ mask' = UnlockedMask(saved[c][Len(saved[c])])
    /\ saved' = [saved EXCEPT ![c] = SubSeq(@, 1, Len(@) - 1)]
    /\ closing' = IF Len(saved[c]) = 1 THEN closing \ {c} ELSE closing \cup {c}
    /\ UNCHANGED <<lock, pending, active>>

Return(h) ==
    /\ Executes(h) /\ h \in active /\ saved[h] = << >>
    /\ active' = active \ {h}
    /\ UNCHANGED <<lock, mask, pending, saved, closing>>

Step ==
    \/ \E h \in Handlers : Enter(h) \/ Return(h)
    \/ \E c \in Contexts : SEGGER_RTT_LOCK(c) \/ SEGGER_RTT_UNLOCK(c)

LockNext == Step \/ \E h \in Handlers : Raise(h)

(* The processor runs. *)
LockSpec == LockInit /\ [][LockNext]_lockVars /\ WF_lockVars(Step)

--------------------------------------------------------------------------------
Holds(c) == saved[c] # << >>

LockTypeOK ==
    /\ lock \in Locks /\ mask \in SUBSET Handlers
    /\ pending \in SUBSET Handlers /\ active \in SUBSET Handlers
    /\ saved \in [Contexts -> Seq(SUBSET Handlers)] /\ closing \in SUBSET Contexts
    /\ \A h \in Handlers : Holds(h) => h \in active \cap Writers

(* "Target is not allowed to perform other RTT operations while string      *)
(* still has not been stored completely": two contexts are never between    *)
(* lock and unlock at once, whatever nests and whatever interrupts          *)
(* (SEGGER_RTT_Conf.h:131-134, 154-396).                                    *)
OneWriter == \A c, d \in Contexts : Holds(c) /\ Holds(d) => c = d

(* Outside of all locks every interrupt is enabled again: no sequence of    *)
(* nested locks leaves the radio masked (SEGGER_RTT_Conf.h:419-424).        *)
MaskRestored == (\A c \in Contexts : ~Holds(c)) => mask = {}

(* The most urgent handler is always served, although the super-loop may    *)
(* print without end: output delays it by one write at most                 *)
(* (docs/ARCHITECTURE.md "RTT output must never control radio timing").     *)
MostUrgent   == {h \in Handlers : \A g \in Handlers \ {h} : MoreUrgent(h, g)}
UrgentServed == \A h \in Handlers : (h \in MostUrgent /\ h \in pending) ~> h \notin pending

================================================================================
