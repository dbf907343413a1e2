---------------------------- MODULE MCJobExecution ----------------------------
(* Instances of JobExecution for TLC.                                        *)
EXTENDS JobExecution

CONSTANT r1
===============================================================================
