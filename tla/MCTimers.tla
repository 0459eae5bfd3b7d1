------------------------------ MODULE MCTimers ------------------------------
(* Timers with small clocks, and one timer in the last of the scripts. *)
EXTENDS Timers

TimersOfEach == <<2, 1>>
=============================================================================
