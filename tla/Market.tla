------------------------------- MODULE Market -------------------------------
(* What every part of the trader names: the stock codes (6 digits, here     *)
(* just values), and a value that is none of them.                          *)
EXTENDS FiniteSets

CONSTANTS Codes, NoCode

ASSUME CodesAssumption == IsFiniteSet(Codes) /\ NoCode \notin Codes
=============================================================================
