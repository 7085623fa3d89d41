--------------------------------- MODULE MCSdk ---------------------------------
(* Three archives a project may select, of which the pinned commit has two: *)
(* every inventory occurs, those the commit cannot serve included.          *)
EXTENDS SdkPreparation
CONSTANTS crypto, radio, nvm
================================================================================
