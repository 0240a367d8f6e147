------------------------------- MODULE MCEcu -------------------------------
(* Model-checking instances of the cyber-physical application. *)
EXTENDS Ecu
=============================================================================
