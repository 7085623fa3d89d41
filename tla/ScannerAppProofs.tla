--------------------------- MODULE ScannerAppProofs ---------------------------
(***************************************************************************)
(* No lost wake-up and no starved summary, for any devices and a stack     *)
(* that holds any number of events.  The proofs use no fairness.           *)
(***************************************************************************)
EXTENDS ScannerApp, TLAPS

(* A decision to sleep stays right until it is carried out, since only an   *)
(* interrupt could refute it; an interrupt adds to `radio' alone.           *)
SleepInv ==
    /\ pc = "asleep" => ~Work
    /\ pc = "sleep_decided" /\ ok_to_sleep => ~Work
    /\ pc = "isr_exit" => queue = << >>

LEMMA SleepInit == Init => SleepInv
BY DEF Init, SleepInv

LEMMA SleepStep == SleepInv /\ [Next]_vars => SleepInv'
<1> SUFFICES ASSUME SleepInv, [Next]_vars PROVE SleepInv'
  OBVIOUS
<1> USE DEF SleepInv, Work
<1>1. CASE BtRun \/ NoEvent \/ PopEvent
  BY <1>1 DEF BtRun, NoEvent, PopEvent
<1>2. CASE OnReportOrOther \/ OnBoot
  BY <1>2 DEF OnReportOrOther, OnBoot, AfterEvent
<1>3. CASE AppProcessAction
  BY <1>3 DEF AppProcessAction
<1>4. CASE IsOkToSleep
  BY <1>4 DEF IsOkToSleep, BtIsOkToSleep
<1>5. CASE Sleep
  BY <1>5 DEF Sleep
<1>6. CASE IsrExit
  <2>1. PICK internal \in BOOLEAN, bt \in BtSleepOnIsrExit :
            pc' = IF SleepOnIsrExit(internal, bt, AppSleepOnIsrExit) THEN "asleep" ELSE "sl_bt_run"
    BY <1>6 DEF IsrExit
  <2>2. UNCHANGED <<radio, queue, ok_to_sleep>> /\ queue = << >>
    BY <1>6 DEF IsrExit
  <2>3. CASE SleepOnIsrExit(internal, bt, AppSleepOnIsrExit)
    <3>1. radio = << >>
      BY <2>3 DEF SleepOnIsrExit, BtSleepOnIsrExit
    <3> QED BY <2>1, <2>2, <2>3, <3>1
  <2>4. CASE ~SleepOnIsrExit(internal, bt, AppSleepOnIsrExit)
    BY <2>1, <2>2, <2>4
  <2> QED BY <2>3, <2>4
<1>7. ASSUME NEW e \in Devices \cup {Other}, RadioEvent(e)
      PROVE  SleepInv'
  BY <1>7 DEF RadioEvent, InterruptsEnabled, Woken
<1>8. CASE OtherInterrupt \/ SummaryTimeElapses
  BY <1>8 DEF OtherInterrupt, SummaryTimeElapses
<1>9. CASE Spin \/ UNCHANGED vars
  BY <1>9 DEF Spin, vars
<1> QED BY <1>1, <1>2, <1>3, <1>4, <1>5, <1>6, <1>7, <1>8, <1>9
        DEF Next, LoopStep, Environment

(* The processor never sleeps while an event waits, whatever the order of   *)
(* interrupts and of the steps of sl_power_manager_sleep.                   *)
THEOREM NeverSleepsOverWork == Spec => []NoSleepOverWork
<1>1. SleepInv => NoSleepOverWork
  BY DEF SleepInv, NoSleepOverWork
<1> QED BY <1>1, SleepInit, SleepStep, PTL DEF Spec

--------------------------------------------------------------------------------
(* An event handled while the summary is due is followed by the poll.       *)
SummaryInv ==
    /\ late \in {0, 1}
    /\ ~due => late = 0
    /\ late = 1 => pc \in {"app_process_action", "halted"}

LEMMA SummaryStep == SummaryInv /\ [Next]_vars => SummaryInv'
<1> SUFFICES ASSUME SummaryInv, [Next]_vars PROVE SummaryInv'
  OBVIOUS
<1> USE DEF SummaryInv
<1>1. CASE BtRun \/ NoEvent \/ PopEvent
  BY <1>1 DEF BtRun, NoEvent, PopEvent
<1>2. CASE OnReportOrOther
  BY <1>2 DEF OnReportOrOther, Handled, AfterEvent
<1>3. CASE OnBoot
  BY <1>3 DEF OnBoot, Handled, AfterEvent
<1>4. CASE AppProcessAction
  BY <1>4 DEF AppProcessAction
<1>5. CASE IsOkToSleep \/ Sleep \/ IsrExit
  BY <1>5 DEF IsOkToSleep, Sleep, IsrExit
<1>6. ASSUME NEW e \in Devices \cup {Other}, RadioEvent(e)
      PROVE  SummaryInv'
  BY <1>6 DEF RadioEvent, Woken
<1>7. CASE OtherInterrupt \/ SummaryTimeElapses
  BY <1>7 DEF OtherInterrupt, SummaryTimeElapses
<1>8. CASE Spin \/ UNCHANGED vars
  BY <1>8 DEF Spin, vars
<1> QED BY <1>1, <1>2, <1>3, <1>4, <1>5, <1>6, <1>7, <1>8
        DEF Next, LoopStep, Environment

(* However long a burst of events is, a due summary is printed before the   *)
(* second of them is handled.                                               *)
THEOREM SummaryIsNotOvertaken == Spec => []SummaryNotOvertaken
<1>1. Init => SummaryInv
  BY DEF Init, SummaryInv
<1>2. SummaryInv => SummaryNotOvertaken
  BY DEF SummaryInv, SummaryNotOvertaken
<1> QED BY <1>1, <1>2, SummaryStep, PTL DEF Spec

--------------------------------------------------------------------------------
LEMMA HeadOfQueue ==
    ASSUME NEW S, NEW s \in Seq(S), s # << >>
    PROVE  Head(s) \in S /\ Tail(s) \in Seq(S) /\ Len(Tail(s)) = Len(s) - 1 /\ Len(s) \in Nat
OBVIOUS

LEMMA TypeStep == TypeOK /\ [Next]_vars => TypeOK'
<1> SUFFICES ASSUME TypeOK, [Next]_vars PROVE TypeOK'
  OBVIOUS
<1> USE DEF TypeOK, PCs
<1>0. Len(radio) \in Nat /\ Len(queue) \in Nat
  OBVIOUS
<1>1. CASE BtRun
  <2>1. queue \o radio \in Seq(Events) /\ Len(queue \o radio) = Len(queue) + Len(radio)
    OBVIOUS
  <2>2. Len(radio') = 0 /\ radio' \in Seq(Events)
    BY <1>1 DEF BtRun
  <2> QED BY <1>0, <1>1, <2>1, <2>2 DEF BtRun
<1>2. CASE PopEvent
  <2>1. evt' \in Events /\ queue' \in Seq(Events) /\ Len(queue') = Len(queue) - 1
    BY <1>2, HeadOfQueue DEF PopEvent
  <2> QED BY <1>0, <1>2, <2>1, EventAssumption DEF PopEvent
<1>3. CASE NoEvent \/ OnReportOrOther \/ OnBoot \/ AppProcessAction
  <2>1. late' \in Nat
    BY <1>3 DEF NoEvent, OnReportOrOther, OnBoot, AppProcessAction, Handled
  <2>2. due' \in BOOLEAN
    BY <1>3 DEF NoEvent, OnReportOrOther, OnBoot, AppProcessAction
  <2>3. scanning' \in BOOLEAN
    BY <1>3 DEF NoEvent, OnReportOrOther, OnBoot, AppProcessAction
  <2>4. pc' \in PCs /\ UNCHANGED <<radio, queue, evt, ok_to_sleep>>
    BY <1>3 DEF NoEvent, OnReportOrOther, OnBoot, AppProcessAction, AfterEvent
  <2> QED BY <2>1, <2>2, <2>3, <2>4
<1>4. CASE IsOkToSleep \/ Sleep \/ IsrExit
  <2>1. ok_to_sleep' \in BOOLEAN
    BY <1>4 DEF IsOkToSleep, BtIsOkToSleep, AppIsOkToSleep, Sleep, IsrExit
  <2>2. pc' \in PCs
    BY <1>4 DEF IsOkToSleep, Sleep, IsrExit
  <2> QED BY <1>4, <2>1, <2>2 DEF IsOkToSleep, Sleep, IsrExit
<1>5. ASSUME NEW e \in Devices \cup {Other}, RadioEvent(e)
      PROVE  TypeOK'
  <2>1. radio' \in Seq(Events) /\ Len(radio') = Len(radio) + 1
    BY <1>5 DEF RadioEvent, Events
  <2>2. Len(radio') + Len(queue') <= QueueCapacity
    BY <1>0, <1>5, <2>1, EventAssumption DEF RadioEvent
  <2> QED BY <1>5, <2>1, <2>2 DEF RadioEvent, Woken
<1>6. CASE OtherInterrupt \/ SummaryTimeElapses
  <2>1. due' \in BOOLEAN
    BY <1>6 DEF OtherInterrupt, SummaryTimeElapses
  <2>2. pc' \in PCs /\ late' \in Nat /\ UNCHANGED <<radio, queue, evt, ok_to_sleep, scanning>>
    BY <1>6 DEF OtherInterrupt, SummaryTimeElapses
  <2> QED BY <2>1, <2>2
<1>7. CASE Spin \/ UNCHANGED vars
  BY <1>7 DEF Spin, vars
<1> QED BY <1>1, <1>2, <1>3, <1>4, <1>5, <1>6, <1>7 DEF Next, LoopStep, Environment

(* Every variable keeps its type, and the stack never holds more events     *)
(* than it has room for (sl_bluetooth.c:67-85).                             *)
THEOREM AppTypeCorrect == Spec => []TypeOK
<1>1. Init => TypeOK
  <2> SUFFICES ASSUME Init PROVE TypeOK
    OBVIOUS
  <2>1. Boot \in Events /\ Other \in Events
    BY DEF Events
  <2>2. radio \in Seq(Events) /\ Len(radio) = 1 /\ queue \in Seq(Events) /\ Len(queue) = 0
    <3>1. <<Boot>> \in Seq(Events) /\ Len(<<Boot>>) = 1
      BY <2>1
    <3>2. << >> \in Seq(Events) /\ Len(<< >>) = 0
      OBVIOUS
    <3> QED BY <3>1, <3>2 DEF Init
  <2>3. Len(radio) + Len(queue) <= QueueCapacity
    BY <2>2, EventAssumption
  <2>4. pc \in PCs /\ evt \in Events /\ late \in Nat
    BY <2>1 DEF Init, PCs
  <2>5. ok_to_sleep \in BOOLEAN /\ scanning \in BOOLEAN /\ due \in BOOLEAN
    BY DEF Init
  <2> QED BY <2>2, <2>3, <2>4, <2>5 DEF TypeOK
<1> QED BY <1>1, TypeStep, PTL DEF Spec

===============================================================================
