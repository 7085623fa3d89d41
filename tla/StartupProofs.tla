----------------------------- MODULE StartupProofs -----------------------------
(***************************************************************************)
(* Theorems about the start-up, for any list of log streams and any number *)
(* of reports waiting.  The calls of the program fall into six stages; the *)
(* calls still to be made are always in the order of their stages, however *)
(* often the next one is replaced by its body, and what a later stage      *)
(* relies on is either done or still among the calls to be made before it. *)
(***************************************************************************)
EXTENDS Startup, SequenceTheorems, TLAPS

(* The stages; a function that calls others reaches from one to another.    *)
Stage1 == {"sli_driver_permanent_allocation", "sli_service_permanent_allocation",
    "sli_stack_permanent_allocation", "sli_bt_stack_permanent_allocation",
    "sli_internal_permanent_allocation", "sl_platform_init", "sl_board_preinit",
    "sl_clock_manager_runtime_init", "sl_board_init", "sl_board_default_init",
    "sl_board_disable_vcom", "sli_internal_init_early", "sl_driver_init", "sl_debug_swo_init",
    "sl_gpio_init", "sl_cos_send_config", "sl_board_configure_vcom", "sl_mbedtls_init",
    "psa_crypto_init", "sl_se_init", "sli_protocol_crypto_init", "sli_crypto_init",
    "sli_aes_seed_mask"}
Stage2 == {"sl_iostream_init_instances_stage_1", "sl_iostream_init"}
Stage3 == {"sl_iostream_init_instances_stage_2", "sl_iostream_set_console_instance"}
Stage4 == {"sl_stack_init", "sl_rail_util_pa_init", "sl_rail_util_power_manager_init",
    "sl_rail_util_pti_init", "sl_rail_util_rf_path_init", "sli_bt_stack_functional_init",
    "sl_bt_init", "sl_bt_stack_init", "sl_internal_app_init"}
Stage5 == {"scan_tracker_init"}
Stage6 == {"sl_power_manager_add_em_requirement", "sl_iostream_printf", "super_loop",
    "sl_main_process_action", "sli_platform_process_action", "sli_service_process_action",
    "sli_stack_process_action", "sl_bt_step", "sli_internal_app_process_action",
    "app_process_action", "scan_tracker_summary_due", "scan_tracker_observe",
    "sl_power_manager_sleep", "sl_bt_scanner_set_parameters", "sl_bt_scanner_start"}
AllStages == Stage1 \cup Stage2 \cup Stage3 \cup Stage4 \cup Stage5 \cup Stage6
                \cup {"main", "sl_main_init", "sl_service_init", "app_init"}

First(f) ==
    CASE f \in Stage1 \cup {"main", "sl_main_init", "sl_service_init"} -> 1
      [] f \in Stage2                -> 2
      [] f \in Stage3                -> 3
      [] f \in Stage4                -> 4
      [] f \in Stage5 \cup {"app_init"} -> 5
      [] f \in Stage6                -> 6
Last(f) ==
    CASE f \in Stage1                -> 1
      [] f \in Stage2                -> 2
      [] f \in Stage3 \cup {"sl_service_init"} -> 3
      [] f \in Stage4 \cup {"sl_main_init"} -> 4
      [] f \in Stage5                -> 5
      [] f \in Stage6 \cup {"main", "app_init"} -> 6

Staged(s) == \A i, j \in DOMAIN s : i < j => Last(s[i]) <= First(s[j])

(* The calls through which a step of the start-up is reached.               *)
ToOpen    == {"main", "sl_main_init", "sl_service_init", "sl_iostream_init_instances_stage_1",
              "sl_iostream_init"}
ToConsole == {"main", "sl_main_init", "sl_service_init", "sl_iostream_init_instances_stage_2",
              "sl_iostream_set_console_instance"}
ToTracker == {"main", "app_init", "scan_tracker_init"}

Pending(path) == \E i \in DOMAIN todo : todo[i] \in path

(* The console is the one to prefer among the instances looked at so far.   *)
Seen(t) == {j \in OfType(t) : j < instance}
Preferred ==
    \/ /\ console = NULL
       /\ Seen("UART") \cup Seen("RTT") \cup Seen("VUART") = {}
    \/ console \in Seen("UART") /\ \A j \in Seen("UART") : console <= j
    \/ Seen("UART") = {} /\ console \in Seen("RTT") /\ \A j \in Seen("RTT") : j <= console
    \/ /\ Seen("UART") \cup Seen("RTT") = {}
       /\ console \in Seen("VUART") /\ \A j \in Seen("VUART") : j <= console

StartupInv ==
    /\ TypeOK /\ Staged(todo)
    /\ halted => todo = << >>
    /\ opened = DOMAIN instances \/ halted \/ Pending(ToOpen)
    /\ instance > Len(instances) \/ halted \/ Pending(ToConsole)
    /\ instance = 1 \/ instance > Len(instances) \/ Calls("sl_iostream_set_console_instance")
    /\ Preferred
    /\ tracker \/ halted \/ Pending(ToTracker)
    /\ tracker => \A i \in DOMAIN todo : First(todo[i]) >= 5

--------------------------------------------------------------------------------
(* Stages of the calls. *)

(* The calls a function makes stay within its stages, and in their order.   *)
Within(fs, f) ==
    /\ Staged(fs)
    /\ \A i \in DOMAIN fs : First(f) <= First(fs[i]) /\ Last(fs[i]) <= Last(f)

LEMMA StageBounds ==
    \A f \in AllStages : First(f) \in 1 .. 6 /\ Last(f) \in 1 .. 6 /\ First(f) <= Last(f)
BY DEF AllStages, First, Last, Stage1, Stage2, Stage3, Stage4, Stage5, Stage6

LEMMA NoCall == ASSUME NEW f PROVE Within(<< >>, f)
BY DEF Within, Staged

(* Calls that all belong to the one stage of their caller.                  *)
LEMMA InOneStage ==
    ASSUME NEW n \in 1 .. 6, NEW f, First(f) = n, Last(f) = n, NEW fs,
           \A i \in DOMAIN fs : First(fs[i]) = n /\ Last(fs[i]) = n
    PROVE  Within(fs, f)
BY DEF Within, Staged

(* What each function calls, and by which calls it reaches each step.       *)
LEMMA MainBody ==
    /\ Main = <<"sl_main_init", "app_init", "super_loop">>
    /\ SuperLoop = <<"sl_main_process_action", "app_process_action", "sl_power_manager_sleep",
                     "super_loop">>
<1>1. "KERNEL" \notin Catalog
    BY DEF Catalog
<1>2. "POWER_MANAGER" \in Catalog
    BY DEF Catalog
<1>. QED BY <1>1, <1>2 DEF Main, SuperLoop

(* Every body of a function stays within the stages of the function.        *)
LEMMA BodiesWithin ==
    ASSUME NEW f \in DOMAIN Bodies
    PROVE  Within(Bodies[f], f) /\ Bodies[f] \in Seq(AllStages)
<1>. USE DEF Within, Staged, First, Last, AllStages, Stage1, Stage2, Stage3, Stage4, Stage5, Stage6
<1>1. Within(Main, "main") /\ Main \in Seq(AllStages)
    BY MainBody
<1>2. Within(SuperLoop, "super_loop") /\ SuperLoop \in Seq(AllStages)
    BY MainBody
<1>3. Within(MainInit, "sl_main_init") /\ MainInit \in Seq(AllStages)
    BY DEF MainInit
<1>4. Within(MainProcessAction, "sl_main_process_action") /\ MainProcessAction \in Seq(AllStages)
    BY DEF MainProcessAction
<1>5. Within(PlatformInit, "sl_platform_init") /\ PlatformInit \in Seq(AllStages)
    BY DEF PlatformInit
<1>6. Within(DriverInit, "sl_driver_init") /\ DriverInit \in Seq(AllStages)
    BY DEF DriverInit
<1>7. Within(ServiceInit, "sl_service_init") /\ ServiceInit \in Seq(AllStages)
    BY DEF ServiceInit
<1>8. Within(StackInit, "sl_stack_init") /\ StackInit \in Seq(AllStages)
    BY DEF StackInit
<1>9. Within(AppInit, "app_init") /\ AppInit \in Seq(AllStages)
    BY DEF AppInit
<1>10. CASE f = "main"                   BY <1>1, <1>10 DEF Bodies
<1>11. CASE f = "super_loop"             BY <1>2, <1>11 DEF Bodies
<1>12. CASE f = "sl_main_init"           BY <1>3, <1>12 DEF Bodies
<1>13. CASE f = "sl_main_process_action" BY <1>4, <1>13 DEF Bodies
<1>14. CASE f = "sl_platform_init"       BY <1>5, <1>14 DEF Bodies
<1>15. CASE f = "sl_driver_init"         BY <1>6, <1>15 DEF Bodies
<1>16. CASE f = "sl_service_init"        BY <1>7, <1>16 DEF Bodies
<1>17. CASE f = "sl_stack_init"          BY <1>8, <1>17 DEF Bodies
<1>18. CASE f = "app_init"               BY <1>9, <1>18 DEF Bodies
<1>19. CASE f \in {"sl_board_init", "sl_board_default_init", "sl_iostream_init_instances_stage_1",
                   "sl_iostream_init_instances_stage_2", "sli_stack_permanent_allocation",
                   "sli_bt_stack_functional_init", "sl_bt_init", "sli_stack_process_action",
                   "app_process_action"}
    <2>1. CASE f = "sl_board_init"                      BY <2>1 DEF Bodies
    <2>2. CASE f = "sl_board_default_init"              BY <2>2 DEF Bodies
    <2>3. CASE f = "sl_iostream_init_instances_stage_1" BY <2>3 DEF Bodies
    <2>4. CASE f = "sl_iostream_init_instances_stage_2" BY <2>4 DEF Bodies
    <2>5. CASE f = "sli_stack_permanent_allocation"     BY <2>5 DEF Bodies
    <2>6. CASE f = "sli_bt_stack_functional_init"       BY <2>6 DEF Bodies
    <2>7. CASE f = "sl_bt_init"                         BY <2>7 DEF Bodies
    <2>8. CASE f = "sli_stack_process_action"           BY <2>8 DEF Bodies
    <2>9. CASE f = "app_process_action"                 BY <2>9 DEF Bodies
    <2>. QED BY <1>19, <2>1, <2>2, <2>3, <2>4, <2>5, <2>6, <2>7, <2>8, <2>9
<1>. QED BY <1>10, <1>11, <1>12, <1>13, <1>14, <1>15, <1>16, <1>17, <1>18, <1>19 DEF Bodies

(* A function that is on the way to a step makes a call that is.            *)
LEMMA BodiesReach ==
    ASSUME NEW f \in DOMAIN Bodies
    PROVE  /\ f \in ToOpen => \E i \in DOMAIN Bodies[f] : Bodies[f][i] \in ToOpen
           /\ f \in ToConsole => \E i \in DOMAIN Bodies[f] : Bodies[f][i] \in ToConsole
           /\ f \in ToTracker => \E i \in DOMAIN Bodies[f] : Bodies[f][i] \in ToTracker
<1>1. \A p \in {ToOpen, ToConsole, ToTracker} :
          "main" \in p => \E i \in DOMAIN Main : Main[i] \in p
    <2>1. DOMAIN Main = 1 .. 3 /\ Main[1] = "sl_main_init" /\ Main[2] = "app_init"
        BY MainBody
    <2>. QED BY <2>1 DEF ToOpen, ToConsole, ToTracker
<1>2. \A p \in {ToOpen, ToConsole, ToTracker} :
          "sl_main_init" \in p => \E i \in DOMAIN MainInit : MainInit[i] \in p
    <2>1. 8 \in DOMAIN MainInit /\ MainInit[8] = "sl_service_init"
        BY DEF MainInit
    <2>. QED BY <2>1 DEF ToOpen, ToConsole, ToTracker
<1>3. \A p \in {ToOpen, ToConsole, ToTracker} :
          "sl_service_init" \in p => \E i \in DOMAIN ServiceInit : ServiceInit[i] \in p
    <2>1. /\ 8 \in DOMAIN ServiceInit /\ ServiceInit[8] = "sl_iostream_init_instances_stage_1"
          /\ 9 \in DOMAIN ServiceInit /\ ServiceInit[9] = "sl_iostream_init_instances_stage_2"
        BY DEF ServiceInit
    <2>. QED BY <2>1 DEF ToOpen, ToConsole, ToTracker
<1>4. \A p \in {ToOpen, ToConsole, ToTracker} :
          "app_init" \in p => \E i \in DOMAIN AppInit : AppInit[i] \in p
    <2>1. 1 \in DOMAIN AppInit /\ AppInit[1] = "scan_tracker_init"
        BY DEF AppInit
    <2>. QED BY <2>1 DEF ToOpen, ToConsole, ToTracker
<1>5. CASE f = "main"            BY <1>1, <1>5 DEF Bodies
<1>6. CASE f = "sl_main_init"    BY <1>2, <1>6 DEF Bodies
<1>7. CASE f = "sl_service_init" BY <1>3, <1>7 DEF Bodies
<1>8. CASE f = "app_init"        BY <1>4, <1>8 DEF Bodies
<1>9. CASE f = "sl_iostream_init_instances_stage_1"
    <2>1. Bodies[f] = <<"sl_iostream_init">>
        BY <1>9 DEF Bodies
    <2>2. 1 \in DOMAIN Bodies[f] /\ Bodies[f][1] = "sl_iostream_init"
        BY <2>1
    <2>. QED BY <1>9, <2>2 DEF ToOpen, ToConsole, ToTracker
<1>10. CASE f = "sl_iostream_init_instances_stage_2"
    <2>1. Bodies[f] = <<"sl_iostream_set_console_instance">>
        BY <1>10 DEF Bodies
    <2>2. 1 \in DOMAIN Bodies[f] /\ Bodies[f][1] = "sl_iostream_set_console_instance"
        BY <2>1
    <2>. QED BY <1>10, <2>2 DEF ToOpen, ToConsole, ToTracker
<1>11. CASE f \notin {"main", "sl_main_init", "sl_service_init", "app_init",
                      "sl_iostream_init_instances_stage_1", "sl_iostream_init_instances_stage_2"}
    <2>1. f \notin {"sl_iostream_init", "sl_iostream_set_console_instance", "scan_tracker_init"}
        BY DEF Bodies
    <2>. QED BY <1>11, <2>1 DEF ToOpen, ToConsole, ToTracker
<1>. QED BY <1>5, <1>6, <1>7, <1>8, <1>9, <1>10, <1>11

(* Every function that is called belongs to a stage.                        *)
LEMMA AllStaged == Functions \subseteq AllStages
<1>. SUFFICES ASSUME NEW f \in Functions PROVE f \in AllStages
    OBVIOUS
<1>1. CASE f \in {"main"} \cup Effects
    BY <1>1 DEF Effects, AllStages, Stage1, Stage2, Stage3, Stage4, Stage5, Stage6
<1>2. CASE \E g \in DOMAIN Bodies : \E i \in DOMAIN Bodies[g] : f = Bodies[g][i]
    BY <1>2, BodiesWithin
<1>. QED BY <1>1, <1>2 DEF Functions

LEMMA BodiesAreCalls ==
    ASSUME NEW f \in DOMAIN Bodies
    PROVE  Bodies[f] \in Seq(Functions)
<1>1. Bodies[f] \in Seq(AllStages)
    BY BodiesWithin
<1>2. \A i \in DOMAIN Bodies[f] : Bodies[f][i] \in Functions
    BY DEF Functions
<1>. QED BY <1>1, <1>2

--------------------------------------------------------------------------------
(* Replacing a call by the calls it makes. *)

LEMMA Joined ==
    ASSUME NEW S, NEW fs \in Seq(S), NEW s \in Seq(S), s # << >>
    PROVE  /\ fs \o Tail(s) \in Seq(S)
           /\ DOMAIN (fs \o Tail(s)) = 1 .. Len(fs) + Len(s) - 1
           /\ \A i \in 1 .. Len(fs) : (fs \o Tail(s))[i] = fs[i]
           /\ \A i \in 2 .. Len(s) : (fs \o Tail(s))[Len(fs) + i - 1] = s[i]
<1>1. Tail(s) \in Seq(S) /\ Len(Tail(s)) = Len(s) - 1 /\ \A i \in 1 .. Len(Tail(s)) : Tail(s)[i] = s[i + 1]
    BY HeadTailProperties
<1>2. /\ fs \o Tail(s) \in Seq(S) /\ Len(fs \o Tail(s)) = Len(fs) + Len(s) - 1
      /\ \A i \in 1 .. Len(fs) + Len(s) - 1 : (fs \o Tail(s))[i] =
                     IF i <= Len(fs) THEN fs[i] ELSE Tail(s)[i - Len(fs)]
    BY <1>1, ConcatProperties
<1>3. Len(fs) \in Nat /\ Len(s) \in Nat \ {0}
    OBVIOUS
<1>4. \A i \in 2 .. Len(s) : (fs \o Tail(s))[Len(fs) + i - 1] = s[i]
    <2>. SUFFICES ASSUME NEW i \in 2 .. Len(s)
                  PROVE  (fs \o Tail(s))[Len(fs) + i - 1] = s[i]
        OBVIOUS
    <2>1. /\ Len(fs) + i - 1 \in 1 .. Len(fs) + Len(s) - 1 /\ ~(Len(fs) + i - 1 <= Len(fs))
          /\ (Len(fs) + i - 1) - Len(fs) = i - 1 /\ i - 1 \in 1 .. Len(Tail(s)) /\ (i - 1) + 1 = i
        BY <1>1, <1>3
    <2>. QED BY <1>1, <1>2, <2>1
<1>. QED BY <1>2, <1>3, <1>4

LEMMA Expand ==
    ASSUME TypeOK, todo # << >>, Staged(todo),
           NEW fs \in Seq(Functions), Within(fs, Head(todo)), Then(fs)
    PROVE  /\ todo' \in Seq(Functions) /\ Staged(todo')
           /\ \A path : /\ Pending(path)
                        /\ Head(todo) \in path => \E i \in DOMAIN fs : fs[i] \in path
                        => \E i \in DOMAIN todo' : todo'[i] \in path
           /\ \A i \in DOMAIN todo' : First(todo'[i]) >= First(Head(todo))
           /\ fs = << >> => \A i \in DOMAIN todo' : First(todo'[i]) >= Last(Head(todo))
<1>. DEFINE n == Len(fs)
<1>1. /\ todo \in Seq(Functions) /\ Len(todo) \in Nat \ {0} /\ n \in Nat /\ DOMAIN fs = 1 .. n
      /\ Head(todo) = todo[1] /\ DOMAIN todo = 1 .. Len(todo) /\ todo[1] \in AllStages
    BY AllStaged DEF TypeOK
<1>2. /\ todo' \in Seq(Functions)
      /\ DOMAIN todo' = 1 .. n + Len(todo) - 1
      /\ \A i \in 1 .. n : todo'[i] = fs[i]
      /\ \A i \in 2 .. Len(todo) : todo'[n + i - 1] = todo[i]
    BY <1>1, Joined DEF Then
<1>. HIDE DEF n
<1>3. \A i \in DOMAIN todo' : \/ i \in 1 .. n /\ todo'[i] = fs[i]
                              \/ \E k \in 2 .. Len(todo) : i = n + k - 1 /\ todo'[i] = todo[k]
    <2>. TAKE i \in DOMAIN todo'
    <2>1. i \in 1 .. n + Len(todo) - 1
        BY <1>2
    <2>2. CASE i <= n
        <3>1. i \in 1 .. n
            BY <1>1, <2>1, <2>2
        <3>. QED BY <1>2, <3>1
    <2>3. CASE ~(i <= n)
        <3>1. i - n + 1 \in 2 .. Len(todo) /\ i = n + (i - n + 1) - 1
            BY <1>1, <2>1, <2>3
        <3>2. todo'[i] = todo[i - n + 1]
            BY <1>2, <3>1
        <3>. QED BY <3>1, <3>2
    <2>. QED BY <2>2, <2>3
<1>4. \A i \in 1 .. n : /\ fs[i] \in AllStages
                        /\ First(todo[1]) <= First(fs[i]) /\ Last(fs[i]) <= Last(todo[1])
    BY <1>1, AllStaged DEF Within, n
<1>5. \A k \in 2 .. Len(todo) : todo[k] \in AllStages /\ Last(todo[1]) <= First(todo[k])
    BY <1>1, AllStaged DEF Staged
<1>6. Staged(todo')
    <2>. SUFFICES ASSUME NEW i \in DOMAIN todo', NEW j \in DOMAIN todo', i < j
                  PROVE  Last(todo'[i]) <= First(todo'[j])
        BY DEF Staged
    <2>1. CASE i \in 1 .. n /\ j \in 1 .. n
        BY <1>1, <1>2, <2>1 DEF Within, Staged
    <2>2. ASSUME i \in 1 .. n, NEW k \in 2 .. Len(todo), todo'[j] = todo[k]
          PROVE  Last(todo'[i]) <= First(todo'[j])
        <3>1. todo'[i] = fs[i] /\ fs[i] \in AllStages /\ todo[k] \in AllStages
            BY <1>2, <1>4, <1>5, <2>2
        <3>2. Last(fs[i]) <= Last(todo[1]) /\ Last(todo[1]) <= First(todo[k])
            BY <1>4, <1>5, <2>2
        <3>. QED BY <1>1, <2>2, <3>1, <3>2, StageBounds
    <2>3. ASSUME NEW k \in 2 .. Len(todo), NEW m \in 2 .. Len(todo),
                 i = n + k - 1, todo'[i] = todo[k], j = n + m - 1, todo'[j] = todo[m]
          PROVE  Last(todo'[i]) <= First(todo'[j])
        <3>1. k < m /\ k \in DOMAIN todo /\ m \in DOMAIN todo
            BY <1>1, <2>3
        <3>. QED BY <2>3, <3>1 DEF Staged
    <2>4. ASSUME NEW k \in 2 .. Len(todo), i = n + k - 1
          PROVE  j \notin 1 .. n
        BY <1>1, <2>4
    <2>. QED BY <1>3, <2>1, <2>2, <2>3, <2>4
<1>7. ASSUME NEW path, Pending(path), Head(todo) \in path => \E i \in DOMAIN fs : fs[i] \in path
      PROVE  \E i \in DOMAIN todo' : todo'[i] \in path
    <2>1. PICK k \in 1 .. Len(todo) : todo[k] \in path
        BY <1>1, <1>7 DEF Pending
    <2>2. CASE k = 1
        <3>1. PICK i \in 1 .. n : fs[i] \in path
            BY <1>1, <1>7, <2>1, <2>2
        <3>2. i \in DOMAIN todo' /\ todo'[i] = fs[i]
            BY <1>1, <1>2
        <3>. QED BY <3>1, <3>2
    <2>3. CASE k # 1
        <3>1. k \in 2 .. Len(todo) /\ n + k - 1 \in DOMAIN todo'
            BY <1>1, <1>2, <2>3
        <3>. QED BY <1>2, <2>1, <3>1
    <2>. QED BY <2>2, <2>3
<1>8. \A i \in DOMAIN todo' : First(todo'[i]) >= First(todo[1])
    BY <1>1, <1>3, <1>4, <1>5, StageBounds
<1>9. fs = << >> => \A i \in DOMAIN todo' : First(todo'[i]) >= Last(todo[1])
    <2>1. fs = << >> => 1 .. n = {}
        BY DEF n
    <2>. QED BY <1>1, <1>3, <1>5, <2>1, StageBounds
<1>. QED BY <1>1, <1>2, <1>6, <1>7, <1>8, <1>9

--------------------------------------------------------------------------------
(* Every step keeps the invariant. *)

(* What the steps that go on have in common: the next call is replaced by   *)
(* those it makes, and what is on the way to a step stays on the way to it, *)
(* unless that step was made.                                               *)
LEMMA GoingOnKeeps ==
    ASSUME StartupInv, todo # << >>, NEW fs \in Seq(Functions), Within(fs, Head(todo)), Then(fs),
           UNCHANGED <<instances, console, instance, halted>>,
           opened' \subseteq DOMAIN instances, stack' \in {"off", "ready", "failed"},
           queue' \in Seq({"boot", "report"}), {booted', tracker', scanning'} \subseteq BOOLEAN,
           \/ opened' = DOMAIN instances
           \/ opened' = opened /\ (Head(todo) \in ToOpen => \E i \in DOMAIN fs : fs[i] \in ToOpen),
           \/ instance > Len(instances)
           \/ Head(todo) \in ToConsole => \E i \in DOMAIN fs : fs[i] \in ToConsole,
           instance = 1 \/ instance > Len(instances),
           \/ tracker' /\ fs = << >> /\ Last(Head(todo)) = 5
           \/ /\ tracker' = tracker
              /\ Head(todo) \in ToTracker => \E i \in DOMAIN fs : fs[i] \in ToTracker
    PROVE  StartupInv'
<1>1. TypeOK /\ Staged(todo) /\ ~halted
    BY DEF StartupInv
<1>2. /\ todo' \in Seq(Functions) /\ Staged(todo')
      /\ \A path : /\ Pending(path)
                   /\ Head(todo) \in path => \E i \in DOMAIN fs : fs[i] \in path
                   => \E i \in DOMAIN todo' : todo'[i] \in path
      /\ \A i \in DOMAIN todo' : First(todo'[i]) >= First(Head(todo))
      /\ fs = << >> => \A i \in DOMAIN todo' : First(todo'[i]) >= Last(Head(todo))
    BY <1>1, Expand
<1>3. TypeOK'
    <2>1. {booted', tracker', scanning', halted'} \subseteq BOOLEAN
        BY <1>1 DEF TypeOK
    <2>. QED BY <1>1, <1>2, <2>1 DEF TypeOK
<1>4. (halted => todo = << >>)'
    BY <1>1
<1>5. (opened = DOMAIN instances \/ halted \/ Pending(ToOpen))'
    BY <1>1, <1>2 DEF StartupInv, Pending
<1>6. (instance > Len(instances) \/ halted \/ Pending(ToConsole))'
    BY <1>1, <1>2 DEF StartupInv, Pending
<1>7. (instance = 1 \/ instance > Len(instances) \/ Calls("sl_iostream_set_console_instance"))'
    OBVIOUS
<1>8. Preferred'
    BY DEF StartupInv, Preferred, Seen, OfType
<1>9. (tracker \/ halted \/ Pending(ToTracker))'
    BY <1>1, <1>2 DEF StartupInv, Pending
<1>10. (tracker => \A i \in DOMAIN todo : First(todo[i]) >= 5)'
    <2>1. CASE fs = << >> /\ Last(Head(todo)) = 5
        BY <1>2, <2>1
    <2>2. CASE tracker' = tracker
        <3>. SUFFICES ASSUME tracker, NEW i \in DOMAIN todo' PROVE First(todo'[i]) >= 5
            BY <2>2
        <3>1. First(Head(todo)) >= 5 /\ Head(todo) \in AllStages
            BY <1>1, AllStaged DEF StartupInv, TypeOK
        <3>2. todo'[i] \in AllStages
            BY <1>2, AllStaged
        <3>3. First(Head(todo)) \in 1 .. 6 /\ First(todo'[i]) \in 1 .. 6
            BY <3>1, <3>2, StageBounds
        <3>4. First(todo'[i]) >= First(Head(todo))
            BY <1>2
        <3>. QED BY <3>1, <3>3, <3>4
    <2>. QED BY <2>1, <2>2
<1>. QED BY <1>2, <1>3, <1>4, <1>5, <1>6, <1>7, <1>8, <1>9, <1>10 DEF StartupInv

(* A failed assertion ends the start-up.                                    *)
LEMMA HaltKeeps ==
    ASSUME StartupInv, Halt, UNCHANGED <<instances, opened, console, instance, queue, booted, tracker, scanning>>,
           stack' \in {"off", "ready", "failed"},
           ~Calls("sl_iostream_set_console_instance")
    PROVE  StartupInv'
<1>1. << >> \in Seq(Functions) /\ Staged(<< >>) /\ \A i \in DOMAIN << >> : First(todo'[i]) >= 5
    BY DEF Staged
<1>2. TypeOK'
    <2>1. {booted', tracker', scanning', halted'} \subseteq BOOLEAN
        BY DEF StartupInv, TypeOK, Halt
    <2>. QED BY <1>1, <2>1 DEF StartupInv, TypeOK, Halt
<1>3. Preferred'
    BY DEF StartupInv, Preferred, Seen, OfType
<1>4. todo' = << >> /\ halted'
    BY DEF Halt
<1>5. (instance = 1 \/ instance > Len(instances) \/ Calls("sl_iostream_set_console_instance"))'
    BY DEF StartupInv
<1>. QED BY <1>1, <1>2, <1>3, <1>4, <1>5 DEF StartupInv

LEMMA InitHolds == Init => StartupInv
<1>. SUFFICES ASSUME Init PROVE StartupInv
    OBVIOUS
<1>1. todo = <<"main">> /\ "main" \in Functions /\ DOMAIN todo = {1} /\ todo[1] = "main"
    BY DEF Init, Functions
<1>2. instances \in Seq(STRING)
    BY StartupAssumption DEF Init
<1>3. TypeOK
    <2>1. {booted, tracker, scanning, halted} \subseteq BOOLEAN
        BY DEF Init
    <2>. QED BY <1>1, <1>2, <2>1 DEF Init, TypeOK, NULL
<1>4. Staged(todo)
    BY <1>1 DEF Staged
<1>5. Pending(ToOpen) /\ Pending(ToConsole) /\ Pending(ToTracker)
    BY <1>1 DEF Pending, ToOpen, ToConsole, ToTracker
<1>6. Preferred
    <2>1. \A t : Seen(t) = {}
        BY <1>2 DEF Init, Seen, OfType
    <2>. QED BY <2>1 DEF Init, Preferred
<1>. QED BY <1>3, <1>4, <1>5, <1>6 DEF Init, StartupInv

LEMMA CallKeeps == ASSUME StartupInv, Call PROVE StartupInv'
<1>1. /\ todo # << >> /\ Head(todo) \notin Effects /\ TypeOK
      /\ UNCHANGED <<instances, opened, console, instance, stack, queue, booted, tracker, scanning, halted>>
      /\ (instance = 1 \/ instance > Len(instances))
    BY DEF Call, StartupInv, Calls, Effects
<1>2. {booted', tracker', scanning'} \subseteq BOOLEAN
    BY <1>1 DEF TypeOK
<1>3. CASE Head(todo) \in DOMAIN Bodies
    <2>1. Then(Bodies[Head(todo)])
        BY <1>3 DEF Call
    <2>. QED BY <1>1, <1>2, <1>3, <2>1, BodiesWithin, BodiesAreCalls, BodiesReach, GoingOnKeeps DEF TypeOK
<1>4. CASE Head(todo) \notin DOMAIN Bodies
    <2>1. Head(todo) \notin ToOpen \cup ToConsole \cup ToTracker
        BY <1>1, <1>4 DEF ToOpen, ToConsole, ToTracker, Bodies, Effects
    <2>2. Then(<< >>) /\ << >> \in Seq(Functions)
        BY <1>1, <1>4, HeadTailProperties, ConcatEmptySeq DEF Call, Return, Then, TypeOK
    <2>. QED BY <1>1, <1>2, <2>1, <2>2, NoCall, GoingOnKeeps DEF TypeOK
<1>. QED BY <1>3, <1>4

(* A call that was answered and makes no further one.                       *)
LEMMA Returned ==
    ASSUME TypeOK, todo # << >>, Return
    PROVE  << >> \in Seq(Functions) /\ Then(<< >>) /\ Within(<< >>, Head(todo))
BY HeadTailProperties, ConcatEmptySeq, NoCall DEF TypeOK, Return, Then

LEMMA IostreamInitKeeps == ASSUME StartupInv, IostreamInit PROVE StartupInv'
<1>1. /\ todo # << >> /\ Head(todo) = "sl_iostream_init" /\ Return /\ TypeOK
      /\ opened' = DOMAIN instances
      /\ UNCHANGED <<instances, console, instance, stack, queue, booted, tracker, scanning, halted>>
      /\ (instance = 1 \/ instance > Len(instances))
    BY DEF IostreamInit, StartupInv, Calls
<1>2. {booted', tracker', scanning'} \subseteq BOOLEAN
    BY <1>1 DEF TypeOK
<1>3. Head(todo) \notin ToConsole \cup ToTracker
    BY <1>1 DEF ToConsole, ToTracker
<1>. QED BY <1>1, <1>2, <1>3, Returned, GoingOnKeeps DEF TypeOK

(* One pass of the loop over the instances leaves the console preferred     *)
(* among one instance more.                                                 *)
LEMMA PreferKeeps ==
    ASSUME TypeOK, Preferred, instance <= Len(instances), UNCHANGED instances,
           console' = Prefer(console, instance), instance' = instance + 1
    PROVE  Preferred' /\ console' \in DOMAIN instances \cup {NULL}
<1>1. /\ instances \in Seq(STRING) /\ instance \in DOMAIN instances /\ instance \in Nat
      /\ DOMAIN instances = 1 .. Len(instances) /\ console \in Nat
    BY StartupAssumption DEF TypeOK, NULL
<1>2. \A t : Seen(t) \subseteq {j \in DOMAIN instances : instances[j] = t /\ j < instance}
    BY DEF Seen, OfType
<1>3. \A t : Seen(t)' = IF instances[instance] = t THEN Seen(t) \cup {instance} ELSE Seen(t)
    BY <1>1 DEF Seen, OfType
<1>4. \A t : Seen(t) \subseteq Nat /\ \A j \in Seen(t) : j < instance /\ instances[j] = t /\ j # NULL
    BY <1>1, <1>2 DEF NULL
<1>5. \A t : console \in Seen(t) => TypeAt(console) = t
    BY <1>4 DEF TypeAt
<1>6. console = NULL => TypeAt(console) = "UNDEFINED"
    BY DEF TypeAt
<1>7. console' \in DOMAIN instances \cup {NULL}
    BY <1>1 DEF TypeOK, Prefer
<1>8. Preferred'
    <2>. DEFINE U == Seen("UART") R == Seen("RTT") V == Seen("VUART")
    <2>1. /\ U \subseteq Nat /\ R \subseteq Nat /\ V \subseteq Nat
          /\ \A j \in U \cup R \cup V : j < instance
        BY <1>4
    <2>2. CASE instances[instance] = "UART"
        <3>1. Seen("UART")' = U \cup {instance}
            BY <1>3, <2>2
        <3>2. CASE console \in U
            <4>1. console' = console
                BY <1>5, <2>2, <3>2 DEF Prefer
            <4>. QED BY <1>1, <2>1, <3>1, <3>2, <4>1 DEF Preferred
        <3>3. CASE console \notin U
            <4>1. U = {} /\ TypeAt(console) # "UART"
                BY <1>5, <1>6, <3>3 DEF Preferred
            <4>2. console' = instance
                BY <2>2, <4>1 DEF Prefer
            <4>. QED BY <1>1, <2>1, <3>1, <4>1, <4>2 DEF Preferred
        <3>. QED BY <3>2, <3>3
    <2>3. CASE instances[instance] = "RTT"
        <3>1. Seen("RTT")' = R \cup {instance} /\ Seen("UART")' = U
            BY <1>3, <2>3
        <3>2. CASE console \in U
            <4>1. console' = console
                BY <1>5, <2>3, <3>2 DEF Prefer
            <4>. QED BY <3>1, <3>2, <4>1 DEF Preferred
        <3>3. CASE console \notin U
            <4>1. U = {} /\ TypeAt(console) # "UART"
                BY <1>5, <1>6, <3>3 DEF Preferred
            <4>2. console' = instance
                BY <2>3, <4>1 DEF Prefer
            <4>. QED BY <1>1, <2>1, <3>1, <4>1, <4>2 DEF Preferred
        <3>. QED BY <3>2, <3>3
    <2>4. CASE instances[instance] = "VUART"
        <3>1. Seen("VUART")' = V \cup {instance} /\ Seen("UART")' = U /\ Seen("RTT")' = R
            BY <1>3, <2>4
        <3>2. CASE console \in U \cup R
            <4>1. console' = console
                BY <1>5, <2>4, <3>2 DEF Prefer
            <4>. QED BY <3>1, <3>2, <4>1 DEF Preferred
        <3>3. CASE console \notin U \cup R
            <4>1. U = {} /\ R = {} /\ TypeAt(console) \notin {"UART", "RTT"}
                BY <1>5, <1>6, <3>3 DEF Preferred
            <4>2. console' = instance
                BY <2>4, <4>1 DEF Prefer
            <4>. QED BY <1>1, <2>1, <3>1, <4>1, <4>2 DEF Preferred
        <3>. QED BY <3>2, <3>3
    <2>5. CASE instances[instance] \notin {"UART", "RTT", "VUART"}
        <3>1. Seen("VUART")' = V /\ Seen("UART")' = U /\ Seen("RTT")' = R
            BY <1>3, <2>5
        <3>2. console' = console
            BY <2>5 DEF Prefer
        <3>. QED BY <3>1, <3>2 DEF Preferred, NULL
    <2>. QED BY <2>2, <2>3, <2>4, <2>5
<1>. QED BY <1>7, <1>8

LEMMA SetConsoleInstanceKeeps == ASSUME StartupInv, SetConsoleInstance PROVE StartupInv'
<1>1. /\ todo # << >> /\ Head(todo) = "sl_iostream_set_console_instance" /\ TypeOK /\ ~halted
      /\ UNCHANGED <<instances, opened, stack, queue, booted, tracker, scanning, halted>>
      /\ Preferred
    BY DEF SetConsoleInstance, StartupInv, Calls
<1>2. {booted', tracker', scanning', halted'} \subseteq BOOLEAN
    BY <1>1 DEF TypeOK
<1>3. CASE instance <= Len(instances) /\ console' = Prefer(console, instance)
           /\ instance' = instance + 1 /\ UNCHANGED todo
    <2>1. Preferred' /\ console' \in DOMAIN instances \cup {NULL}
        BY <1>1, <1>3, PreferKeeps
    <2>2. instance' \in 1 .. Len(instances) + 1 /\ Len(instances) \in Nat
        BY <1>1, <1>3, StartupAssumption DEF TypeOK
    <2>3. TypeOK'
        BY <1>1, <1>2, <1>3, <2>1, <2>2 DEF TypeOK
    <2>4. Calls("sl_iostream_set_console_instance")' /\ Pending(ToConsole)'
        <3>1. 1 \in DOMAIN todo /\ todo[1] = Head(todo)
            BY <1>1 DEF TypeOK
        <3>. QED BY <1>1, <1>3, <3>1 DEF Calls, Pending, ToConsole
    <2>5. Staged(todo)' /\ (halted => todo = << >>)'
          /\ (opened = DOMAIN instances \/ halted \/ Pending(ToOpen))'
          /\ (tracker \/ halted \/ Pending(ToTracker))'
          /\ (tracker => \A i \in DOMAIN todo : First(todo[i]) >= 5)'
        BY <1>1, <1>3 DEF StartupInv, Pending
    <2>. QED BY <2>1, <2>3, <2>4, <2>5 DEF StartupInv
<1>4. CASE instance > Len(instances) /\ Return /\ UNCHANGED <<console, instance>>
    <2>1. Head(todo) \notin ToOpen \cup ToTracker
        BY <1>1 DEF ToOpen, ToTracker
    <2>. QED BY <1>1, <1>2, <1>4, <2>1, Returned, GoingOnKeeps DEF TypeOK
<1>. QED BY <1>3, <1>4 DEF SetConsoleInstance

LEMMA BtStackInitKeeps == ASSUME StartupInv, BtStackInit PROVE StartupInv'
<1>1. /\ todo # << >> /\ Head(todo) = "sl_bt_stack_init" /\ Return /\ TypeOK
      /\ UNCHANGED <<instances, opened, console, instance, queue, booted, tracker, scanning, halted>>
      /\ stack' \in {"ready", "failed"}
      /\ (instance = 1 \/ instance > Len(instances))
    BY DEF BtStackInit, StartupInv, Calls
<1>2. {booted', tracker', scanning'} \subseteq BOOLEAN
    BY <1>1 DEF TypeOK
<1>3. Head(todo) \notin ToOpen \cup ToConsole \cup ToTracker
    BY <1>1 DEF ToOpen, ToConsole, ToTracker
<1>. QED BY <1>1, <1>2, <1>3, Returned, GoingOnKeeps DEF TypeOK

(* Calls of the last stage, which nothing waits for, make calls of it.      *)
LEMMA LastStageKeeps ==
    ASSUME StartupInv, todo # << >>,
           Head(todo) \in Stage6 \cap Effects,
           NEW fs \in {<< >>, <<"sl_iostream_printf">>, <<"scan_tracker_observe">>,
                       <<"sl_bt_scanner_set_parameters", "sl_bt_scanner_start", "sl_iostream_printf">>},
           Then(fs), UNCHANGED <<instances, opened, console, instance, stack, tracker, halted>>,
           queue' \in Seq({"boot", "report"}), {booted', scanning'} \subseteq BOOLEAN
    PROVE  StartupInv'
<1>1. /\ TypeOK
      /\ (instance = 1 \/ instance > Len(instances) \/ Calls("sl_iostream_set_console_instance"))
    BY DEF StartupInv
<1>2. Head(todo) \notin ToOpen \cup ToConsole \cup ToTracker
    BY DEF ToOpen, ToConsole, ToTracker, Stage6
<1>3. ~Calls("sl_iostream_set_console_instance")
    BY DEF Calls, Stage6
<1>4. \A f \in Stage6 : First(f) = 6 /\ Last(f) = 6
    BY DEF First, Last, Stage1, Stage2, Stage3, Stage4, Stage5, Stage6
<1>5. "sl_iostream_printf" \in Functions
    <2>1. 3 \in DOMAIN AppInit /\ AppInit[3] = "sl_iostream_printf"
        BY DEF AppInit
    <2>2. "app_init" \in DOMAIN Bodies /\ Bodies["app_init"] = AppInit
        BY DEF Bodies
    <2>. QED BY <2>1, <2>2 DEF Functions
<1>6. {"scan_tracker_observe", "sl_bt_scanner_set_parameters", "sl_bt_scanner_start"} \subseteq Functions
    BY DEF Functions, Effects
<1>7. fs \in Seq(Functions)
    <2>1. CASE fs = << >>
        BY <2>1
    <2>2. CASE fs = <<"sl_iostream_printf">>
        BY <1>5, <2>2
    <2>3. CASE fs = <<"scan_tracker_observe">>
        BY <1>6, <2>3
    <2>4. CASE fs = <<"sl_bt_scanner_set_parameters", "sl_bt_scanner_start", "sl_iostream_printf">>
        BY <1>5, <1>6, <2>4
    <2>. QED BY <2>1, <2>2, <2>3, <2>4
<1>8. \A i \in DOMAIN fs : fs[i] \in Stage6
    BY DEF Stage6
<1>9. Within(fs, Head(todo))
    BY <1>4, <1>8, InOneStage
<1>10. {booted', tracker', scanning'} \subseteq BOOLEAN
    BY <1>1 DEF TypeOK
<1>. QED BY <1>1, <1>2, <1>3, <1>7, <1>9, <1>10, GoingOnKeeps DEF TypeOK

LEMMA BtStepKeeps == ASSUME StartupInv, BtStep PROVE StartupInv'
<1>1. /\ todo # << >> /\ Head(todo) = "sl_bt_step" /\ TypeOK
      /\ UNCHANGED <<instances, opened, console, instance, stack, booted, tracker, scanning, halted>>
    BY DEF BtStep, StartupInv, Calls
<1>2. /\ Head(todo) \in Stage6 \cap Effects /\ {booted', scanning'} \subseteq BOOLEAN
      /\ queue \in Seq({"boot", "report"})
    BY <1>1 DEF TypeOK, Stage6, Effects
<1>3. CASE Return /\ UNCHANGED queue
    BY <1>1, <1>2, <1>3, Returned, LastStageKeeps
<1>4. CASE queue # << >> /\ Then(OnEvent(Head(queue))) /\ queue' = Tail(queue)
    <2>1. queue' \in Seq({"boot", "report"})
        BY <1>2, <1>4, HeadTailProperties
    <2>2. OnEvent(Head(queue)) \in {<<"scan_tracker_observe">>,
              <<"sl_bt_scanner_set_parameters", "sl_bt_scanner_start", "sl_iostream_printf">>}
        BY DEF OnEvent
    <2>. QED BY <1>1, <1>2, <1>4, <2>1, <2>2, LastStageKeeps
<1>. QED BY <1>3, <1>4 DEF BtStep

LEMMA TrackerUsedKeeps == ASSUME StartupInv, TrackerUsed PROVE StartupInv'
<1>1. /\ todo # << >> /\ TypeOK
      /\ Head(todo) \in {"scan_tracker_observe", "scan_tracker_summary_due"}
      /\ UNCHANGED <<instances, opened, console, instance, stack, queue, booted, tracker, scanning, halted>>
    BY DEF TrackerUsed, StartupInv, Calls
<1>2. /\ Head(todo) \in Stage6 \cap Effects /\ {booted', scanning'} \subseteq BOOLEAN
      /\ queue' \in Seq({"boot", "report"})
    BY <1>1 DEF TypeOK, Stage6, Effects
<1>3. CASE Return
    BY <1>1, <1>2, <1>3, Returned, LastStageKeeps
<1>4. CASE Then(<<"sl_iostream_printf">>)
    BY <1>1, <1>2, <1>4, LastStageKeeps
<1>. QED BY <1>3, <1>4 DEF TrackerUsed

LEMMA ScannerKeeps == ASSUME StartupInv, Scanner PROVE StartupInv'
<1>1. /\ todo # << >> /\ TypeOK
      /\ Head(todo) \in {"sl_bt_scanner_set_parameters", "sl_bt_scanner_start"}
      /\ UNCHANGED <<instances, opened, console, instance, stack, queue, booted, tracker>>
    BY DEF Scanner, StartupInv, Calls
<1>2. CASE Return /\ scanning' = (scanning \/ Calls("sl_bt_scanner_start")) /\ UNCHANGED halted
    <2>1. Head(todo) \in Stage6 \cap Effects /\ queue' \in Seq({"boot", "report"})
        BY <1>1 DEF TypeOK, Stage6, Effects
    <2>2. booted' \in BOOLEAN /\ scanning' \in BOOLEAN
        BY <1>1, <1>2 DEF TypeOK, Calls
    <2>. QED BY <1>1, <1>2, <2>1, <2>2, Returned, LastStageKeeps
<1>3. CASE Halt /\ UNCHANGED scanning
    <2>1. ~Calls("sl_iostream_set_console_instance") /\ stack' \in {"off", "ready", "failed"}
        BY <1>1 DEF Calls, TypeOK
    <2>. QED BY <1>1, <1>3, <2>1, HaltKeeps
<1>. QED BY <1>2, <1>3 DEF Scanner

LEMMA TrackerInitKeeps == ASSUME StartupInv, TrackerInit PROVE StartupInv'
<1>1. /\ todo # << >> /\ Head(todo) = "scan_tracker_init" /\ Return /\ tracker' = TRUE /\ TypeOK
      /\ UNCHANGED <<instances, opened, console, instance, stack, queue, booted, scanning, halted>>
      /\ (instance = 1 \/ instance > Len(instances))
    BY DEF TrackerInit, StartupInv, Calls
<1>2. {booted', tracker', scanning'} \subseteq BOOLEAN
    BY <1>1 DEF TypeOK
<1>3. Head(todo) \notin ToOpen \cup ToConsole
    BY <1>1 DEF ToOpen, ToConsole
<1>4. Last(Head(todo)) = 5
    <2>1. /\ "scan_tracker_init" \notin Stage1 \cup Stage2 \cup Stage3 \cup {"sl_service_init"}
          /\ "scan_tracker_init" \notin Stage4 \cup {"sl_main_init"} \cup Stage6 \cup {"main", "app_init"}
          /\ "scan_tracker_init" \in Stage5
        BY DEF Stage1, Stage2, Stage3, Stage4, Stage5, Stage6
    <2>. QED BY <1>1, <2>1 DEF Last
<1>. QED BY <1>1, <1>2, <1>3, <1>4, Returned, GoingOnKeeps DEF TypeOK

(* The interrupts of the stack leave the calls alone.                       *)
LEMMA InterruptKeeps == ASSUME StartupInv, Booted \/ Received PROVE StartupInv'
<1>1. /\ UNCHANGED <<todo, instances, opened, console, instance, stack, tracker, scanning, halted>>
      /\ booted' \in {booted, TRUE} /\ TypeOK
    BY DEF Booted, Received, StartupInv
<1>2. queue' \in Seq({"boot", "report"})
    BY <1>1, AppendProperties DEF Booted, Received, TypeOK
<1>3. {booted', tracker', scanning', halted'} \subseteq BOOLEAN
    BY <1>1 DEF TypeOK
<1>4. TypeOK'
    BY <1>1, <1>2, <1>3 DEF TypeOK
<1>5. Preferred'
    BY <1>1 DEF StartupInv, Preferred, Seen, OfType
<1>. QED BY <1>1, <1>4, <1>5 DEF StartupInv, Pending, Calls

--------------------------------------------------------------------------------
(* Theorems. *)

(* What holds throughout the start-up: the calls to be made are in the      *)
(* order of their stages, and the streams, the console and the tracker are  *)
(* each ready or on the way to it.                                          *)
THEOREM StartupInvariant == Spec => []StartupInv
<1>1. Init => StartupInv
    BY InitHolds
<1>2. StartupInv /\ [Next]_vars => StartupInv'
    <2>. SUFFICES ASSUME StartupInv, [Next]_vars PROVE StartupInv'
        OBVIOUS
    <2>1. CASE Call                BY <2>1, CallKeeps
    <2>2. CASE IostreamInit        BY <2>2, IostreamInitKeeps
    <2>3. CASE SetConsoleInstance  BY <2>3, SetConsoleInstanceKeeps
    <2>4. CASE BtStackInit         BY <2>4, BtStackInitKeeps
    <2>5. CASE BtStep              BY <2>5, BtStepKeeps
    <2>6. CASE TrackerInit         BY <2>6, TrackerInitKeeps
    <2>7. CASE TrackerUsed         BY <2>7, TrackerUsedKeeps
    <2>8. CASE Scanner             BY <2>8, ScannerKeeps
    <2>9. CASE Booted \/ Received  BY <2>9, InterruptKeeps
    <2>10. CASE UNCHANGED vars
        <3>1. TypeOK'
            BY <2>10 DEF StartupInv, TypeOK, vars
        <3>2. Preferred'
            BY <2>10 DEF StartupInv, Preferred, Seen, OfType, vars
        <3>. QED BY <2>10, <3>1, <3>2 DEF StartupInv, Pending, Calls, vars
    <2>. QED BY <2>1, <2>2, <2>3, <2>4, <2>5, <2>6, <2>7, <2>8, <2>9, <2>10 DEF Next, Program, Spin
<1>. QED BY <1>1, <1>2, PTL DEF Spec

(* Every variable has its type, from reset on (sl_event_handler.c,          *)
(* sl_iostream_handles.c, sl_bluetooth.c, app.c).                           *)
THEOREM StartupTypeCorrect == Spec => []TypeOK
<1>1. StartupInv => TypeOK
    BY DEF StartupInv
<1>. QED BY <1>1, StartupInvariant, PTL

(* In the last stage nothing is on the way to what the stages before do.    *)
LEMMA LastStage ==
    ASSUME StartupInv, NEW f \in Stage6, Calls(f)
    PROVE  ~halted /\ ~Pending(ToOpen) /\ ~Pending(ToConsole) /\ ~Pending(ToTracker)
<1>1. /\ todo # << >> /\ Head(todo) = f /\ ~halted /\ Staged(todo) /\ todo \in Seq(Functions)
      /\ Head(todo) = todo[1]
    BY DEF Calls, StartupInv, TypeOK
<1>2. \A g \in Stage6 : First(g) = 6 /\ Last(g) = 6
    BY DEF First, Last, Stage1, Stage2, Stage3, Stage4, Stage5, Stage6
<1>3. \A i \in DOMAIN todo : i # 1 => First(todo[i]) >= 6
    <2>. SUFFICES ASSUME NEW i \in DOMAIN todo, i # 1 PROVE First(todo[i]) >= 6
        OBVIOUS
    <2>1. 1 \in DOMAIN todo /\ 1 < i /\ todo[i] \in AllStages
        BY <1>1, AllStaged
    <2>2. Last(todo[1]) <= First(todo[i])
        BY <1>1, <2>1 DEF Staged
    <2>. QED BY <1>1, <1>2, <2>1, <2>2, StageBounds
<1>4. \A i \in DOMAIN todo : First(todo[i]) >= 6
    BY <1>1, <1>2, <1>3
<1>5. \A g \in ToOpen \cup ToConsole \cup ToTracker : First(g) \in 1 .. 5
    BY DEF ToOpen, ToConsole, ToTracker, First, Stage1, Stage2, Stage3, Stage4, Stage5, Stage6
<1>. QED BY <1>1, <1>4, <1>5 DEF Pending

(* Once all instances were looked at, those seen are all of them.           *)
LEMMA AllSeen ==
    ASSUME TypeOK, instance > Len(instances)
    PROVE  \A t : Seen(t) = OfType(t)
<1>1. instances \in Seq(STRING)
    BY StartupAssumption DEF TypeOK
<1>. QED BY <1>1 DEF Seen, OfType, TypeOK

(* Whatever log streams the build has: when the application prints its      *)
(* first line, and ever after, the stream it goes to is chosen and set up,  *)
(* if there is one fit for a console (sl_event_handler.c:58-69, 101-109).   *)
THEOREM ConsoleIsReady == Spec => []ConsoleReady
<1>1. StartupInv => ConsoleReady
    <2>. SUFFICES ASSUME StartupInv, Calls("sl_iostream_printf"), NEW i \in DOMAIN instances, Fit(i)
                  PROVE  console \in opened
        BY DEF ConsoleReady
    <2>1. "sl_iostream_printf" \in Stage6
        BY DEF Stage6
    <2>2. opened = DOMAIN instances /\ instance > Len(instances) /\ TypeOK /\ Preferred
        BY <2>1, LastStage DEF StartupInv
    <2>3. \A t : Seen(t) = OfType(t)
        BY <2>2, AllSeen
    <2>4. i \in OfType("UART") \cup OfType("RTT") \cup OfType("VUART")
        BY DEF Fit, OfType
    <2>5. console \in OfType("UART") \cup OfType("RTT") \cup OfType("VUART")
        BY <2>2, <2>3, <2>4 DEF Preferred
    <2>. QED BY <2>2, <2>5 DEF OfType
<1>. QED BY <1>1, StartupInvariant, PTL

(* Of any list of log streams the loop chooses the one it prefers: the      *)
(* first UART, else the last RTT, else the last VUART                       *)
(* (sl_iostream_handles.c:34-63).                                           *)
THEOREM ConsoleIsPreferred == Spec => []ConsolePreferred
<1>1. StartupInv => ConsolePreferred
    <2>. SUFFICES ASSUME StartupInv, console # NULL, ~Calls("sl_iostream_set_console_instance")
                  PROVE  ConsolePreferred
        BY DEF ConsolePreferred
    <2>1. TypeOK /\ Preferred /\ (instance = 1 \/ instance > Len(instances))
        BY DEF StartupInv
    <2>2. instances \in Seq(STRING)
        BY <2>1, StartupAssumption DEF TypeOK
    <2>3. instance # 1
        <3>. SUFFICES ASSUME instance = 1 PROVE FALSE
            OBVIOUS
        <3>1. \A t : Seen(t) = {}
            BY <2>2 DEF Seen, OfType
        <3>. QED BY <2>1, <3>1 DEF Preferred
    <2>4. \A t : Seen(t) = OfType(t)
        BY <2>1, <2>3, AllSeen
    <2>. QED BY <2>1, <2>4 DEF Preferred, ConsolePreferred
<1>. QED BY <1>1, StartupInvariant, PTL

(* The tracker is initialised before a report or a pass of the super-loop   *)
(* uses it, however early the stack raises its events (main.c:47-64,        *)
(* sl_bluetooth.c:67-85, app.c:60-77).                                      *)
THEOREM TrackerIsReady == Spec => []TrackerReady
<1>1. StartupInv => TrackerReady
    <2>. SUFFICES ASSUME StartupInv, NEW f \in {"scan_tracker_observe", "scan_tracker_summary_due"},
                         Calls(f)
                  PROVE  tracker
        BY DEF TrackerReady
    <2>1. f \in Stage6
        BY DEF Stage6
    <2>. QED BY <2>1, LastStage DEF StartupInv
<1>. QED BY <1>1, StartupInvariant, PTL

================================================================================
