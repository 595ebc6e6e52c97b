--------------------------- MODULE MC_CommandWords ----------------------------
(* Instances of CommandWords for TLC: the lines the users type.            *)
EXTENDS CommandWords

L(command, words, at) == [command |-> command, words |-> words, at |-> at]

MC_Symmetry == Permutations(Thread)

\* One command of each kind of cutting; one has an "@" in its first word, and one
\* is that word alone, which the next line sticks to.
MC_Line == {L("mp", 3, {}), L("create", 4, {}), L("join", 2, {}), L("all", 2, {1}), L("all", 1, {})}
===============================================================================
