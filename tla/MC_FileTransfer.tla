---------------------------- MODULE MC_FileTransfer ----------------------------
(* FileTransfer for TLC: two files of at most two pieces.                  *)
EXTENDS FileTransfer

\* An int that was never set: not positive, small, or more than will ever come.
MCWild == {0, 1, 5}
===============================================================================
