------------------------------ MODULE MC_GetFiles -----------------------------
(* Instances of GetFiles for TLC.                                          *)
EXTENDS GetFiles, TLC
===============================================================================
