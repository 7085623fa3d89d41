------------------------------ MODULE MCRttLock ------------------------------
(***************************************************************************)
(* RttLock for TLC: the radio (priority 4) and link layer (priority 5)     *)
(* interrupts of sl_btctrl_config.h, both above the masked level 0x20,     *)
(* which is priority 2 with the four priority bits of this processor, and  *)
(* one interrupt that is more urgent than that and never prints.           *)
(***************************************************************************)
EXTENDS RttLock

AllHandlers == {"urgent", "radio", "linklayer"}
Priorities  == [h \in AllHandlers |->
    CASE h = "urgent" -> 1 [] h = "radio" -> 4 [] h = "linklayer" -> 5]
AllWriters  == {"radio", "linklayer"}

AllBuilds ==
    ({"gcc", "iar"} \X {"6M", "8M_BASE", "7M", "7EM", "8M_MAIN", "7A", "7R"})
        \cup ({"keil", "ti"} \X {"6M", "7M", "7EM"})
        \cup {<<"gcc", "riscv">>, <<"iar", "rx">>, <<"iar", "rl78">>, <<"ccrx", "rx">>}
===============================================================================
