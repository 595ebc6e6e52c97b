------------------------------ MODULE MC_Channels -----------------------------
(* Instances of Channels for TLC.                                          *)
EXTENDS Channels, TLC

\* Nothing in the specification tells connections or pseudos apart, nor the
\* names of one length.
Symmetry ==
    Permutations(Client) \cup Permutations(Pseudo)
        \cup {p \in Permutations(ChannelName) : \A n \in Long : p[n] \in Long}
===============================================================================
