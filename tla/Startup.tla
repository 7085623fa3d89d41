-------------------------------- MODULE Startup --------------------------------
(***************************************************************************)
(* From reset to the first advertisement report: the calls main() makes,   *)
(* in their order, with the interrupts of the Bluetooth stack in between.  *)
(* The bodies of the generated functions (autogen/sl_event_handler.c and   *)
(* others) are sequences of calls; `todo' holds those still to be made.    *)
(* sl_main_init and sl_main_process_action belong to the SDK: they call    *)
(* the functions of sl_event_handler.h in the order it declares them.      *)
(***************************************************************************)
EXTENDS Naturals, Sequences

CONSTANTS
    InstanceLists,      \* possible sl_iostream_instances_info; the build has <<"RTT">>
    MaxReports          \* bound on the reports waiting in the stack

ASSUME StartupAssumption == InstanceLists \subseteq Seq(STRING) /\ MaxReports \in Nat

VARIABLES
    todo,       \* the calls still to be made, the next one first
    instances,  \* sl_iostream_instances_info, by type
    opened,     \* the instances whose init function ran
    console,    \* sl_iostream_recommended_console_stream: an index, or NULL
    instance,   \* the instance that is looked at next to choose it
    stack,      \* "off", "ready", or "failed" to initialise
    queue,      \* events the stack holds for the application
    booted,     \* the stack has reported sl_bt_evt_system_boot
    tracker,    \* scan_tracker is initialised
    scanning,   \* sl_bt_scanner_start succeeded
    halted      \* an assertion failed

vars == <<todo, instances, opened, console, instance, stack, queue, booted, tracker, scanning, halted>>

NULL == 0

(* sl_component_catalog.h, as far as main.c and sl_bluetooth_config.h ask.  *)
Catalog == {"APP_ASSERT", "BGAPI_PROTOCOL", "BLUETOOTH_CONFIGURATION",
    "BLUETOOTH_FEATURE_LEGACY_SCANNER", "BLUETOOTH_FEATURE_SCANNER", "BLUETOOTH_FEATURE_SYSTEM",
    "BLUETOOTH_HOST_ADAPTATION", "BLUETOOTH", "CLOCK_MANAGER", "DEVICE_INIT", "DEVICE_INIT_CORE",
    "EMLIB_CORE", "GPIO", "INTERRUPT_MANAGER", "IOSTREAM", "MEMORY_MANAGER",
    "MEMORY_PROFILER_API", "MPU", "POWER_MANAGER", "POWER_MANAGER_DEEPSLEEP_BLOCKING_HFXO_RESTORE",
    "PRINTF", "PSA_CRYPTO", "RAIL_LIB", "RAIL_UTIL_PTI", "RAIL_UTIL_RF_PATH", "SE_MANAGER",
    "SEGGER_RTT", "SL_CORE", "SL_MAIN", "SLEEPTIMER", "SLI_PROTOCOL_CRYPTO"}

--------------------------------------------------------------------------------
(* What each function calls, in order. *)

SuperLoop ==
    IF "POWER_MANAGER" \in Catalog
    THEN <<"sl_main_process_action", "app_process_action", "sl_power_manager_sleep", "super_loop">>
    ELSE <<"sl_main_process_action", "app_process_action", "super_loop">>

(* Faulty: one pass of the loop comes before app_init.                      *)
MainLoopFirst == <<"sl_main_init", "sl_main_process_action", "app_process_action", "app_init",
                   "super_loop">>
Main ==
    IF "KERNEL" \in Catalog THEN <<"sl_main_init", "sl_main_kernel_start">>
    ELSE <<"sl_main_init", "app_init", "super_loop">>

MainInit ==
    <<"sli_driver_permanent_allocation", "sli_service_permanent_allocation",
      "sli_stack_permanent_allocation", "sli_internal_permanent_allocation",
      "sl_platform_init", "sli_internal_init_early", "sl_driver_init", "sl_service_init",
      "sl_stack_init", "sl_internal_app_init">>
MainProcessAction ==
    <<"sli_platform_process_action", "sli_service_process_action",
      "sli_stack_process_action", "sli_internal_app_process_action">>

PlatformInit == <<"sl_board_preinit", "sl_clock_manager_runtime_init", "sl_board_init">>
DriverInit   == <<"sl_debug_swo_init", "sl_gpio_init", "sl_cos_send_config">>
(* Faulty: the first stage of the log streams is missing. *)
ServiceInitUnstaged ==
    <<"sl_board_configure_vcom", "sl_mbedtls_init", "psa_crypto_init", "sl_se_init",
      "sli_protocol_crypto_init", "sli_crypto_init", "sli_aes_seed_mask",
      "sl_iostream_init_instances_stage_2">>
ServiceInit ==
    <<"sl_board_configure_vcom", "sl_mbedtls_init", "psa_crypto_init", "sl_se_init",
      "sli_protocol_crypto_init", "sli_crypto_init", "sli_aes_seed_mask",
      "sl_iostream_init_instances_stage_1", "sl_iostream_init_instances_stage_2">>
StackInit ==
    <<"sl_rail_util_pa_init", "sl_rail_util_power_manager_init", "sl_rail_util_pti_init",
      "sl_rail_util_rf_path_init", "sli_bt_stack_functional_init">>
AppInit      == <<"scan_tracker_init", "sl_power_manager_add_em_requirement", "sl_iostream_printf">>

Bodies ==
    [main                           |-> Main,
     super_loop                     |-> SuperLoop,
     sl_main_init                   |-> MainInit,
     sl_main_process_action         |-> MainProcessAction,
     sl_platform_init               |-> PlatformInit,
     sl_board_init                  |-> <<"sl_board_default_init">>,
     sl_board_default_init          |-> <<"sl_board_disable_vcom">>,
     sl_driver_init                 |-> DriverInit,
     sl_service_init                |-> ServiceInit,
     sl_iostream_init_instances_stage_1 |-> <<"sl_iostream_init">>,
     sl_iostream_init_instances_stage_2 |-> <<"sl_iostream_set_console_instance">>,
     sl_stack_init                  |-> StackInit,
     sli_stack_permanent_allocation |-> <<"sli_bt_stack_permanent_allocation">>,
     sli_bt_stack_functional_init   |-> <<"sl_bt_init">>,
     sl_bt_init                     |-> <<"sl_bt_stack_init">>,
     sli_stack_process_action       |-> <<"sl_bt_step">>,
     app_init                       |-> AppInit,
     app_process_action             |-> <<"scan_tracker_summary_due">>]

Init ==
    /\ todo = <<"main">>
    /\ instances \in InstanceLists
    /\ opened = {} /\ console = NULL /\ instance = 1
    /\ stack = "off" /\ queue = << >> /\ booted = FALSE
    /\ tracker = FALSE /\ scanning = FALSE /\ halted = FALSE

--------------------------------------------------------------------------------
Calls(f)  == todo # << >> /\ Head(todo) = f
Return    == todo' = Tail(todo)
Then(fs)  == todo' = fs \o Tail(todo)
Halt      == todo' = << >> /\ halted' = TRUE

(* Functions with an effect of their own; all others only call, or do       *)
(* nothing this model tells apart.                                          *)
Effects == {"sl_iostream_init", "sl_iostream_set_console_instance", "sl_bt_stack_init", "sl_bt_step",
            "scan_tracker_init", "scan_tracker_summary_due", "scan_tracker_observe",
            "sl_bt_scanner_set_parameters", "sl_bt_scanner_start"}

Call ==
    /\ todo # << >> /\ Head(todo) \notin Effects
    /\ IF Head(todo) \in DOMAIN Bodies THEN Then(Bodies[Head(todo)]) ELSE Return
    /\ UNCHANGED <<instances, opened, console, instance, stack, queue, booted, tracker, scanning, halted>>

(* One init function per instance of the list, as it was generated.         *)
IostreamInit ==
    /\ Calls("sl_iostream_init") /\ Return
    /\ opened' = DOMAIN instances
    /\ UNCHANGED <<instances, console, instance, stack, queue, booted, tracker, scanning, halted>>

TypeAt(i) == IF i = NULL THEN "UNDEFINED" ELSE instances[i]
(* Faulty: an index is off by one, or the last suitable instance is taken.  *)
PreferNext(chosen, i) == IF instances[i] \in {"UART", "RTT"} THEN i + 1 ELSE chosen
PreferLast(chosen, i) == IF instances[i] \in {"UART", "RTT", "VUART"} THEN i ELSE chosen
(* One pass of the loop: instance i against the instance chosen so far.     *)
Prefer(chosen, i) ==
    IF \/ instances[i] \in {"UART", "RTT"} /\ TypeAt(chosen) # "UART"
       \/ instances[i] = "VUART" /\ TypeAt(chosen) \notin {"UART", "RTT"}
    THEN i ELSE chosen

SetConsoleInstance ==
    /\ Calls("sl_iostream_set_console_instance")
    /\ \/ /\ instance <= Len(instances)
          /\ console' = Prefer(console, instance) /\ instance' = instance + 1
          /\ UNCHANGED todo
       \/ instance > Len(instances) /\ Return /\ UNCHANGED <<console, instance>>
    /\ UNCHANGED <<instances, opened, stack, queue, booted, tracker, scanning, halted>>

(* EFM_ASSERT looks at the result, but compiles to nothing: no file of the  *)
(* build defines DEBUG_EFM.                                                 *)
BtStackInit ==
    /\ Calls("sl_bt_stack_init") /\ Return
    /\ stack' \in {"ready", "failed"}
    /\ UNCHANGED <<instances, opened, console, instance, queue, booted, tracker, scanning, halted>>

(* sl_bt_step pops one event, if there is one: the boot event or a report.  *)
OnEvent(evt) ==
    IF evt = "boot" THEN <<"sl_bt_scanner_set_parameters", "sl_bt_scanner_start", "sl_iostream_printf">>
    ELSE <<"scan_tracker_observe">>

(* Faulty: the events waiting are discarded.                                *)
BtStepDropping ==
    /\ Calls("sl_bt_step") /\ Return
    /\ queue' = << >>
    /\ UNCHANGED <<instances, opened, console, instance, stack, booted, tracker, scanning, halted>>
BtStep ==
    /\ Calls("sl_bt_step")
    /\ \/ queue = << >> /\ Return /\ UNCHANGED queue
       \/ queue # << >> /\ Then(OnEvent(Head(queue))) /\ queue' = Tail(queue)
    /\ UNCHANGED <<instances, opened, console, instance, stack, booted, tracker, scanning, halted>>

TrackerInit ==
    /\ Calls("scan_tracker_init") /\ Return
    /\ tracker' = TRUE
    /\ UNCHANGED <<instances, opened, console, instance, stack, queue, booted, scanning, halted>>

(* A report and a pass of the loop may each print a line.                   *)
TrackerUsed ==
    /\ Calls("scan_tracker_observe") \/ Calls("scan_tracker_summary_due")
    /\ Return \/ Then(<<"sl_iostream_printf">>)
    /\ UNCHANGED <<instances, opened, console, instance, stack, queue, booted, tracker, scanning, halted>>

(* Each call of the scanner may fail: app_assert_status then never returns. *)
Scanner ==
    /\ Calls("sl_bt_scanner_set_parameters") \/ Calls("sl_bt_scanner_start")
    /\ \/ Return /\ scanning' = (scanning \/ Calls("sl_bt_scanner_start")) /\ UNCHANGED halted
       \/ Halt /\ UNCHANGED scanning
    /\ UNCHANGED <<instances, opened, console, instance, stack, queue, booted, tracker>>

(* Interrupts: the stack that is up reports that it booted, and reports     *)
(* what it receives while it scans.                                         *)
Booted ==
    /\ stack = "ready" /\ ~booted /\ ~halted
    /\ booted' = TRUE /\ queue' = Append(queue, "boot")
    /\ UNCHANGED <<todo, instances, opened, console, instance, stack, tracker, scanning, halted>>

Received ==
    /\ scanning /\ ~halted /\ Len(queue) < MaxReports
    /\ queue' = Append(queue, "report")
    /\ UNCHANGED <<todo, instances, opened, console, instance, stack, booted, tracker, scanning, halted>>

Spin == halted /\ UNCHANGED vars

Program == Call \/ IostreamInit \/ SetConsoleInstance \/ BtStackInit
           \/ BtStep \/ TrackerInit \/ TrackerUsed \/ Scanner
Next    == Program \/ Booted \/ Received \/ Spin

(* The processor runs, and a stack that is up reports it.                   *)
Spec == Init /\ [][Next]_vars /\ WF_vars(Program) /\ WF_vars(Booted)

--------------------------------------------------------------------------------
(* All the functions that are called. *)
Functions == {"main"} \cup Effects \cup
                 UNION {{Bodies[f][i] : i \in DOMAIN Bodies[f]} : f \in DOMAIN Bodies}

TypeOK ==
    /\ todo \in Seq(Functions) /\ instances \in InstanceLists
    /\ opened \subseteq DOMAIN instances /\ console \in DOMAIN instances \cup {NULL}
    /\ instance \in 1 .. Len(instances) + 1
    /\ stack \in {"off", "ready", "failed"}
    /\ queue \in Seq({"boot", "report"})
    /\ {booted, tracker, scanning, halted} \subseteq BOOLEAN

(* Nothing is printed before the stream it goes to is chosen and set up, so *)
(* no line of the start is lost; without an instance fit for a console all  *)
(* are (sl_event_handler.c:58-69, 101-109 before app.c:74).                 *)
Fit(i) == instances[i] \in {"UART", "RTT", "VUART"}
ConsoleReady ==
    Calls("sl_iostream_printf") /\ (\E i \in DOMAIN instances : Fit(i)) => console \in opened

(* The console that is chosen is of the kind preferred most, UART before    *)
(* RTT before VUART; among several UARTs the first is kept, among several   *)
(* of another kind the last (sl_iostream_handles.c:34-63).                  *)
OfType(t) == {i \in DOMAIN instances : instances[i] = t}
ConsolePreferred ==
    console # NULL /\ ~Calls("sl_iostream_set_console_instance") =>
        \/ console \in OfType("UART") /\ \A i \in OfType("UART") : console <= i
        \/ /\ OfType("UART") = {}
           /\ console \in OfType("RTT") /\ \A i \in OfType("RTT") : i <= console
        \/ /\ OfType("UART") \cup OfType("RTT") = {}
           /\ console \in OfType("VUART") /\ \A i \in OfType("VUART") : i <= console

(* The tracker is never used before scan_tracker_init: the stack is up and  *)
(* raises events before app_init runs, and they wait in its queue for the   *)
(* super-loop (main.c:47-64, sl_bluetooth.c:67-85).                         *)
TrackerReady ==
    Calls("scan_tracker_observe") \/ Calls("scan_tracker_summary_due") => tracker

(* A stack that came up leads to a scan or to a failed assertion: the boot  *)
(* event is not lost between sl_stack_init and the first pass of the loop   *)
(* (sl_event_handler.c:71-78, sl_bluetooth.c:67-85, app.c:90-103).          *)
ScanStarts == stack = "ready" ~> (scanning \/ halted)

================================================================================
