----------------------------- MODULE MCLiveScreen -----------------------------
(* Two targets, either screen, one fault: see LiveScreen.cfg.               *)
EXTENDS LiveScreen
==============================================================================
