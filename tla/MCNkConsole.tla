----------------------------- MODULE MCNkConsole -----------------------------
(***************************************************************************)
(* The console for TLC.                                                    *)
(***************************************************************************)
EXTENDS NkConsole

Watchdog == <<"wdt_poke">>
=============================================================================
