------------------------------ MODULE MCInstall ------------------------------
(***************************************************************************)
(* The four generated paths of the project, in full.                       *)
(***************************************************************************)
EXTENDS InstallGenerated

GeneratedPaths == <<"autogen", "config", "ble_scanner_cmake", "main.c">>
PlainFiles     == {"main.c"}
===============================================================================
