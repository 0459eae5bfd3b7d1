---------------------------- MODULE MCExecution ----------------------------
(* A clock of ten values, 0 .. Max: two of them are the special deadlines.  *)
EXTENDS Execution
=============================================================================
