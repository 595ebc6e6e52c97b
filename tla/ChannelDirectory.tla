--------------------------- MODULE ChannelDirectory ---------------------------
(***************************************************************************)
(* What the channel table promises: a directory from names to sets of      *)
(* members, bounded in both directions, that changes by one channel or one *)
(* member at a time.  Channels implements this module.                     *)
(***************************************************************************)
EXTENDS FiniteSets, Naturals

CONSTANTS ChannelName,   \* names of channels
          Client,        \* connections
          MaxChannels,   \* MAX_CHANNELS
          MaxClients     \* MAX_CLIENTS, the length of Channel.clients

VARIABLE dir             \* the members of each channel that exists

Existing == DOMAIN dir

Init == \E E \in SUBSET ChannelName :
            /\ Cardinality(E) <= MaxChannels
            /\ dir = [n \in E |-> {}]

Create(n) ==
    /\ n \notin Existing
    /\ Cardinality(Existing) < MaxChannels
    /\ dir' = [m \in Existing \cup {n} |-> IF m = n THEN {} ELSE dir[m]]

Delete(n) ==
    /\ n \in Existing
    /\ dir' = [m \in Existing \ {n} |-> dir[m]]

Join(c, n) ==
    /\ n \in Existing
    /\ c \notin dir[n]
    /\ Cardinality(dir[n]) < MaxClients
    /\ dir' = [dir EXCEPT ![n] = @ \cup {c}]

\* Whoever is taken out: members are told apart by a pseudo that two
\* connections may share.
Leave(c, n) ==
    /\ n \in Existing
    /\ c \in dir[n]
    /\ dir' = [dir EXCEPT ![n] = @ \ {c}]

Next ==
    \E n \in ChannelName :
        \/ Create(n)
        \/ Delete(n)
        \/ \E c \in Client : Join(c, n) \/ Leave(c, n)

Spec == Init /\ [][Next]_dir
===============================================================================
