---------------------------- MODULE MC_ChannelStore ----------------------------
(* ChannelStore for TLC: a name that fits, which stands for all of them; a
   short one with a ':' in it, for a channel with a long description; a name of
   50 bytes; and what it reads as before the description of its channel. *)
EXTENDS ChannelStore

MC_Name == {"fits", "fit:s", "fitsx", "fitsxy"}
MC_Reread == [n \in AnyName |-> IF n \in MC_Name THEN "fits" ELSE n]
MC_Long == {"fitsx", "fitsxy"}
MC_Stored == [n \in MC_Name |-> IF n \in MC_Long THEN {"fitsxy"} ELSE {n}]
MC_Endless == MC_Long
MC_Spilling == {"fit:s"}
===============================================================================
