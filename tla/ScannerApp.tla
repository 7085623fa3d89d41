------------------------------ MODULE ScannerApp ------------------------------
(***************************************************************************)
(* The bare-metal super-loop of the scanner: main.c calls sl_bt_step,      *)
(* app_process_action and sl_power_manager_sleep in turn, while interrupts *)
(* deliver radio events and may end the sleep.  The Bluetooth stack and    *)
(* the power manager are external: they are modelled by what the code      *)
(* under autogen/ asks of them and by the promises written there.          *)
(*                                                                         *)
(* The tracker is abstracted to `due', whether scan_tracker_summary_due    *)
(* holds; ScanTracker says what a report and a summary do to it.  Both run *)
(* in the loop and never in an interrupt, so each is one step.             *)
(***************************************************************************)
EXTENDS Naturals, Sequences, Functions

CONSTANTS
    Devices,        \* senders of advertisement reports
    Boot,           \* sl_bt_evt_system_boot_id
    Other,          \* any event the switch of sl_bt_on_event does not name
    QueueCapacity   \* bound on the events the stack holds; it drops the rest

ASSUME EventAssumption ==
    /\ Boot \notin Devices /\ Other \notin Devices /\ Boot # Other
    /\ QueueCapacity \in Nat \ {0}

VARIABLES
    pc,             \* what the loop does next
    radio,          \* events of interrupts that sl_bt_run has not processed
    queue,          \* the stack's event queue
    evt,            \* the event popped last (sl_bt_step's evt)
    ok_to_sleep,    \* the answer of sl_power_manager_is_ok_to_sleep
    scanning,       \* sl_bt_scanner_start succeeded
    due,            \* the summary is due
    late            \* events handled since the summary became due

vars == <<pc, radio, queue, evt, ok_to_sleep, scanning, due, late>>

Events == Devices \cup {Boot, Other}
Work   == radio # << >> \/ queue # << >>
PCs    == {"sl_bt_run", "sl_bt_pop_event", "sl_bt_on_event", "app_process_action",
           "is_ok_to_sleep", "sleep_decided", "asleep", "isr_exit", "halted"}

(* sl_main_init has run: the stack will report that it has booted.          *)
Init ==
    /\ pc = "sl_bt_run"
    /\ radio = <<Boot>> /\ queue = << >> /\ evt = Other
    /\ ok_to_sleep = FALSE /\ scanning = FALSE
    /\ due = FALSE /\ late = 0

--------------------------------------------------------------------------------
(* sl_bt_step: at most one event per pass. *)

BtRun ==
    /\ pc = "sl_bt_run"
    /\ queue' = queue \o radio /\ radio' = << >>
    /\ pc' = "sl_bt_pop_event"
    /\ UNCHANGED <<evt, ok_to_sleep, scanning, due, late>>

NoEvent ==
    /\ pc = "sl_bt_pop_event" /\ queue = << >>
    /\ pc' = "app_process_action"
    /\ UNCHANGED <<radio, queue, evt, ok_to_sleep, scanning, due, late>>

PopEvent ==
    /\ pc = "sl_bt_pop_event" /\ queue # << >>
    /\ evt' = Head(queue) /\ queue' = Tail(queue)
    /\ pc' = "sl_bt_on_event"
    /\ UNCHANGED <<radio, ok_to_sleep, scanning, due, late>>

(* Faulty: the queue is drained before the rest of the loop runs. *)
AfterEventDraining == IF queue # << >> THEN "sl_bt_pop_event" ELSE "app_process_action"
AfterEvent         == "app_process_action"

Handled == late' = IF due THEN late + 1 ELSE late

(* A report goes to scan_tracker_observe, any other event is ignored. *)
OnReportOrOther ==
    /\ pc = "sl_bt_on_event" /\ evt # Boot
    /\ Handled /\ pc' = AfterEvent
    /\ UNCHANGED <<radio, queue, evt, ok_to_sleep, scanning, due>>

(* Setting the parameters or starting the scan may fail; app_assert_status  *)
(* then never returns.                                                      *)
OnBoot ==
    /\ pc = "sl_bt_on_event" /\ evt = Boot
    /\ Handled
    /\ \/ scanning' = TRUE /\ pc' = AfterEvent
       \/ scanning' = scanning /\ pc' = "halted"
    /\ UNCHANGED <<radio, queue, evt, ok_to_sleep, due>>

Spin == pc = "halted" /\ UNCHANGED vars

--------------------------------------------------------------------------------
AppProcessAction ==
    /\ pc = "app_process_action"
    /\ due' = FALSE /\ late' = 0      \* a summary is printed if it was due
    /\ pc' = "is_ok_to_sleep"
    /\ UNCHANGED <<radio, queue, evt, ok_to_sleep, scanning>>

--------------------------------------------------------------------------------
(* Sleeping. *)

(* Faulty: interrupts stay enabled around the decision to sleep. *)
AlwaysEnabled     == TRUE
InterruptsEnabled == pc # "sleep_decided"

BtIsOkToSleep  == ~Work
AppIsOkToSleep == TRUE

(* The decision, taken with interrupts disabled. *)
IsOkToSleep ==
    /\ pc = "is_ok_to_sleep"
    /\ ok_to_sleep' = (BtIsOkToSleep /\ AppIsOkToSleep)
    /\ pc' = "sleep_decided"
    /\ UNCHANGED <<radio, queue, evt, scanning, due, late>>

Sleep ==
    /\ pc = "sleep_decided"
    /\ pc' = IF ok_to_sleep THEN "asleep" ELSE "sl_bt_run"
    /\ UNCHANGED <<radio, queue, evt, ok_to_sleep, scanning, due, late>>

(* The stack insists on waking up for an event; otherwise it has no opinion *)
(* or asks to sleep on.                                                     *)
BtSleepOnIsrExit  == IF radio # << >> THEN {"WAKEUP"} ELSE {"SLEEP", "IGNORE"}
AppSleepOnIsrExit == "IGNORE"

(* Faulty: a module that demands a wake-up is overruled by one that sleeps. *)
SleepOnIsrExitUnforced(internal, bt, app) == internal \/ bt = "SLEEP" \/ app = "SLEEP"
SleepOnIsrExit(internal, bt, app) ==
    /\ internal \/ bt = "SLEEP" \/ app = "SLEEP"
    /\ bt # "WAKEUP" /\ app # "WAKEUP"

(* After an interrupt that ended the sleep; `internal' is the answer of     *)
(* sl_power_manager_is_latest_wakeup_internal.                              *)
IsrExit ==
    /\ pc = "isr_exit"
    /\ \E internal \in BOOLEAN, bt \in BtSleepOnIsrExit :
        pc' = IF SleepOnIsrExit(internal, bt, AppSleepOnIsrExit) THEN "asleep" ELSE "sl_bt_run"
    /\ UNCHANGED <<radio, queue, evt, ok_to_sleep, scanning, due, late>>

--------------------------------------------------------------------------------
(* Interrupts, and the passing of time. *)

Woken == IF pc = "asleep" THEN "isr_exit" ELSE pc

(* The radio reports an advertisement, or the stack something else. *)
RadioEvent(e) ==
    /\ InterruptsEnabled /\ pc # "halted"
    /\ e = Other \/ scanning
    /\ Len(radio) + Len(queue) < QueueCapacity
    /\ radio' = Append(radio, e)
    /\ pc' = Woken
    /\ UNCHANGED <<queue, evt, ok_to_sleep, scanning, due, late>>

OtherInterrupt ==
    /\ pc = "asleep"
    /\ pc' = "isr_exit"
    /\ UNCHANGED <<radio, queue, evt, ok_to_sleep, scanning, due, late>>

SummaryTimeElapses ==
    /\ ~due
    /\ due' = TRUE /\ late' = 0
    /\ UNCHANGED <<pc, radio, queue, evt, ok_to_sleep, scanning>>

--------------------------------------------------------------------------------
LoopStep ==
    \/ BtRun \/ NoEvent \/ PopEvent \/ OnReportOrOther \/ OnBoot
    \/ AppProcessAction \/ IsOkToSleep \/ Sleep \/ IsrExit

Environment ==
    \/ \E e \in Devices \cup {Other} : RadioEvent(e)
    \/ OtherInterrupt
    \/ SummaryTimeElapses

Next == LoopStep \/ Environment \/ Spin

(* The processor runs; somebody keeps advertising.                          *)
Fairness ==
    /\ WF_vars(LoopStep)
    /\ WF_vars(\E d \in Devices : RadioEvent(d))

Spec == Init /\ [][Next]_vars /\ Fairness

--------------------------------------------------------------------------------
TypeOK ==
    /\ pc \in PCs
    /\ radio \in Seq(Events) /\ queue \in Seq(Events) /\ evt \in Events
    /\ ok_to_sleep \in BOOLEAN /\ scanning \in BOOLEAN
    /\ due \in BOOLEAN /\ late \in Nat
    /\ Len(radio) + Len(queue) <= QueueCapacity

(* The processor never sleeps on work: an event that arrives after the last *)
(* look at the queue keeps it awake, and one that arrives during the sleep  *)
(* ends it whatever else asks to sleep on (sl_power_manager_handler.c:56-68 *)
(* and 75-107, called around main.c:68).                                    *)
NoSleepOverWork == pc = "asleep" => ~Work

(* A summary that is due waits for one event at most: app_process_action is *)
(* polled between any two events of a burst (main.c:61-64,                  *)
(* sl_bluetooth.c:67-85).                                                   *)
SummaryNotOvertaken == late <= 1

(* Every event the stack accepts is handled, whatever arrives after it:     *)
(* neither the sleep nor the summary starves the queue                      *)
(* (sl_bluetooth.c:67-85).                                                  *)
Pending(e)   == e \in Range(radio) \cup Range(queue)
Serving(e)   == pc = "sl_bt_on_event" /\ evt = e
EventsServed == \A e \in Events : Pending(e) ~> (Serving(e) \/ pc = "halted")

(* A due summary is printed, as long as somebody advertises: nothing arms a *)
(* timer for it, so only an event ends the sleep (app.c:79-84, main.c:68).  *)
SummaryServed == due ~> (~due \/ pc = "halted")

===============================================================================
