------------------------------ MODULE MCProgram ------------------------------
(* The program with its three threads and both signals.                       *)
EXTENDS Program, FiniteSets
==============================================================================
