-------------------------- MODULE MC_ClientRegistry ---------------------------
(* Small instances of ClientRegistry for TLC.  Descriptors and names are
   model values: accept() may return any free descriptor and names are only
   compared. *)
EXTENDS ClientRegistry
===============================================================================
