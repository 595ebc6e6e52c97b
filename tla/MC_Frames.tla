------------------------------- MODULE MC_Frames ------------------------------
(* Instances of Frames for TLC.                                            *)
EXTENDS Frames, TLC
===============================================================================
