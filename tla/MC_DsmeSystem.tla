---------------------------- MODULE MC_DsmeSystem ----------------------------
(* Model-checking instance of DsmeSystem: the boot states and battery      *)
(* levels of MC_DsmeState, and three MCE call states: idle, an ordinary    *)
(* call and an emergency call.                                             *)
EXTENDS DsmeSystem, MC_DsmeState

MCCallStates == {"none", "active", "emergency"}
=============================================================================
