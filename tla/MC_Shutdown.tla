------------------------------ MODULE MC_Shutdown ------------------------------
(* Instances of Shutdown for TLC.                                          *)
EXTENDS Shutdown, TLC
===============================================================================
