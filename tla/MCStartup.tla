------------------------------- MODULE MCStartup -------------------------------
(* Lists of up to three log streams of any type, the built one included.    *)
EXTENDS Startup
Types      == {"UART", "RTT", "VUART", "LOOPBACK", "USB"}
AllLists   == UNION {[1 .. n -> Types] : n \in 0 .. 3}
================================================================================
