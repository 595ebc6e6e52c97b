------------------------------ MODULE MC_FilePort -----------------------------
(* Instances of FilePort for TLC.                                          *)
EXTENDS FilePort, TLC
===============================================================================
