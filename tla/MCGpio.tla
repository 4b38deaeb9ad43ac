------------------------------- MODULE MCGpio -------------------------------
(* Gpio for TLC. *)
EXTENDS Gpio
CONSTANTS a, b
=============================================================================
