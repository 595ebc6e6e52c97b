---------------------------- MODULE MC_SendBuffers ----------------------------
(* Instances of SendBuffers for TLC.                                       *)
EXTENDS SendBuffers, TLC
===============================================================================
