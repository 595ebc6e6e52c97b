------------------------------ MODULE ClientPool ------------------------------
(***************************************************************************)
(* What the acceptor and the client threads promise together, without      *)
(* lists, descriptors or locks: at most MaxClients connections are served  *)
(* at once, a connection is served once, and every slot is either free,    *)
(* held by the acceptor for the next connection, held by a served client,  *)
(* or wasted.  ClientRegistry implements this module.                      *)
(***************************************************************************)
EXTENDS Naturals, FiniteSets

CONSTANTS Client,       \* the connections a run of the server may see
          MaxClients    \* MAX_CLIENTS of common.h

VARIABLES held,      \* the acceptor holds a slot and waits for a connection
          served,    \* connections that occupy a slot
          gone,      \* connections that gave their slot up
          wasted     \* slots nobody will ever free

vars == <<held, served, gone, wasted>>

InUse == Cardinality(served) + wasted + (IF held THEN 1 ELSE 0)

Init ==
    /\ held = FALSE
    /\ served = {}
    /\ gone = {}
    /\ wasted = 0

Reserve ==
    /\ ~held
    /\ InUse < MaxClients
    /\ held' = TRUE
    /\ UNCHANGED <<served, gone, wasted>>

Admit(c) ==
    /\ held
    /\ c \notin served \cup gone
    /\ held' = FALSE
    /\ served' = served \cup {c}
    /\ UNCHANGED <<gone, wasted>>

Release(c) ==
    /\ c \in served
    /\ served' = served \ {c}
    /\ gone' = gone \cup {c}
    /\ UNCHANGED <<held, wasted>>

\* accept() failed: the acceptor goes back to waiting without its slot.
WasteHeld ==
    /\ held
    /\ held' = FALSE
    /\ wasted' = wasted + 1
    /\ UNCHANGED <<served, gone>>

\* No thread could be created for c: it leaves and its slot is not freed.
WasteServed(c) ==
    /\ c \in served
    /\ served' = served \ {c}
    /\ gone' = gone \cup {c}
    /\ wasted' = wasted + 1
    /\ UNCHANGED held

Next ==
    \/ Reserve
    \/ WasteHeld
    \/ \E c \in Client : Admit(c) \/ Release(c) \/ WasteServed(c)

Spec == Init /\ [][Next]_vars
===============================================================================
