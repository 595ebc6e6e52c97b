------------------------------- MODULE Shutdown -------------------------------
(***************************************************************************)
(* SIGINT: the handler runs in the thread the signal was delivered to,     *)
(* which stays where it was, tells every client, waits, destroys the mutex *)
(* of the list and frees the list node by node; the other threads go on.   *)
(* The clients that read "fin" exit, and their sessions leave: each        *)
(* broadcasts that, closes its socket and takes itself off the same list.  *)
(*                                                                         *)
(* The save of the channels that the handler begins with is in             *)
(* ChannelStore.  A broadcast is two steps here, one per node in           *)
(* ClientRegistry.                                                         *)
(***************************************************************************)
EXTENDS Naturals, Sequences, FiniteSets, SequencesExt

CONSTANTS
    Session,    \* the threads handle_client, each with its node and its user
    Server,     \* the node of add_serveur_account
    Handler,    \* the handler, wherever it runs
    NoThread    \* nobody, or a thread without a node

ASSUME ShutdownAssumption ==
    /\ IsFiniteSet(Session)
    /\ Server \notin Session /\ Handler \notin Session \cup {Server}
    /\ NoThread \notin Session \cup {Server, Handler}

Thread == Session \cup {Handler}

VARIABLES
    list,       \* the nodes, from client_list_head
    freed,      \* nodes that were freed
    corrupt,    \* a node was freed twice
    holder,     \* who holds client_list_mutex: a thread or NoThread
    destroyed,  \* pthread_mutex_destroy succeeded
    user,       \* "away", "on" or "off"
    pc,         \* where each thread is
    found,      \* the node a removal is about to free
    host,       \* the thread the handler interrupted
    aim,        \* the head the handler has read, then the node whose index it has
    up          \* the process

heap == <<list, freed, corrupt>>
mutex == <<holder, destroyed>>
vars == <<heap, mutex, user, pc, found, host, aim, up>>

Init ==
    /\ list = <<Server>> /\ freed = {} /\ corrupt = FALSE
    /\ holder = NoThread /\ destroyed = FALSE
    /\ user = [s \in Session |-> "away"]
    /\ pc = [t \in Thread |-> "none"]
    /\ found = [t \in Thread |-> NoThread]
    /\ host = NoThread /\ aim = NoThread
    /\ up = TRUE
-------------------------------------------------------------------------------
(* The mutex.                                                              *)
At(t, label) == up /\ pc[t] = label /\ t # host
Go(t, label) == pc' = [pc EXCEPT ![t] = label]

\* Lock of a destroyed mutex returns EINVAL, which nobody looks at.
Lock(t) ==
    \/ ~destroyed /\ holder = NoThread /\ holder' = t
    \/ destroyed /\ UNCHANGED holder
Unlock == holder' = NoThread

Inside == {"saying", "leaving", "telling", "ending", "found"}
\* A lock that nobody is going to give back.
Kept == holder # NoThread /\ (pc[holder] \notin Inside \/ holder = host)
-------------------------------------------------------------------------------
(* The users and their sessions.                                           *)
\* A user connects and has a pseudo: add_client_to_list.
Connect(s) ==
    /\ up /\ user[s] = "away"
    /\ destroyed \/ holder = NoThread
    /\ list' = <<s>> \o list
    /\ user' = [user EXCEPT ![s] = "on"]
    /\ Go(s, "serve")
    /\ UNCHANGED <<freed, corrupt, mutex, found, host, aim, up>>

\* The user leaves, or its client read "fin".
Leave(s) ==
    /\ user[s] = "on"
    /\ user' = [user EXCEPT ![s] = "off"]
    /\ UNCHANGED <<heap, mutex, pc, found, host, aim, up>>

RecvEnd(s) ==
    /\ At(s, "serve") /\ user[s] = "off"
    /\ Go(s, "bye")
    /\ UNCHANGED <<heap, mutex, user, found, host, aim, up>>

\* close, after the broadcast of the departure and without the lock.
Close(s) ==
    /\ At(s, "closing")
    /\ Go(s, "closed")
    /\ UNCHANGED <<heap, mutex, user, found, host, aim, up>>
-------------------------------------------------------------------------------
(* Broadcasts, by a session (a message, a departure) or by the handler     *)
(* ("event", then "fin").                                                  *)
\* What each does once it has the lock, and after it.
Cast == [serve |-> "saying", bye |-> "leaving", event |-> "telling", fin |-> "ending"]
Sent == [saying |-> "serve", leaving |-> "closing", telling |-> "fin", ending |-> "sleep"]
Failed == [Sent EXCEPT !.telling = "sleep"]

BeginCast(t) ==
    /\ \E label \in DOMAIN Cast : At(t, label) /\ Go(t, Cast[label])
    /\ Lock(t)
    /\ UNCHANGED <<heap, destroyed, user, found, host, aim, up>>

Addressees(t) == ToSet(list) \ {IF pc[t] = "saying" THEN t ELSE Server, Server}
\* Nodes whose socket the session has closed; sockets whose peer has.
Closed(t) == {s \in Addressees(t) : pc[s] \in {"closed", "found"}}
Departed(t) == {s \in Addressees(t) : user[s] = "off"}

CastDone(t) ==
    /\ \E label \in DOMAIN Sent : At(t, label) /\ Go(t, Sent[label])
    /\ Closed(t) = {}
    /\ Unlock
    /\ UNCHANGED <<heap, destroyed, user, found, host, aim, up>>

\* A send fails: the lock is kept.
CastFails(t) ==
    /\ \E label \in DOMAIN Sent : At(t, label) /\ Go(t, Failed[label])
    /\ Closed(t) \cup Departed(t) # {}
    /\ UNCHANGED <<heap, mutex, user, found, host, aim, up>>

\* A second send to a socket whose peer has closed: SIGPIPE.
CastKills(t) ==
    /\ \E label \in DOMAIN Sent : At(t, label)
    /\ Departed(t) # {}
    /\ up' = FALSE
    /\ UNCHANGED <<heap, mutex, user, pc, found, host, aim>>
-------------------------------------------------------------------------------
(* Removal of a node, by its session or by the handler.                    *)
\* Mutant: the walk begins before the lock.
FindNodeUnlocked(t, node, next) ==
    /\ found' = [found EXCEPT ![t] = IF node \in ToSet(list) THEN node ELSE NoThread]
    /\ Go(t, next)
    /\ UNCHANGED holder

\* Lock, and walk to the node.
FindNode(t, node, next) ==
    /\ Lock(t)
    /\ found' = [found EXCEPT ![t] = IF node \in ToSet(list) THEN node ELSE NoThread]
    /\ Go(t, next)

\* Unlink, free and unlock; without a lock the node may be free by now.
FreeNode(t, next) ==
    /\ list' = RemoveFirst(list, found[t])
    /\ freed' = freed \cup ({found[t]} \ {NoThread})
    /\ corrupt' = (corrupt \/ found[t] \in freed)
    /\ found' = [found EXCEPT ![t] = NoThread]
    /\ Unlock
    /\ Go(t, next)

RemoveSelf(s) ==
    /\ At(s, "closed")
    /\ FindNode(s, s, "found")
    /\ UNCHANGED <<heap, destroyed, user, host, aim, up>>

SelfRemoved(s) ==
    /\ At(s, "found")
    /\ FreeNode(s, "ended")
    /\ UNCHANGED <<destroyed, user, host, aim, up>>
-------------------------------------------------------------------------------
(* The handler.                                                            *)
\* SIGINT reaches any thread: a session, or one that has nothing to do with the
\* list.
Interrupt ==
    /\ up /\ pc[Handler] = "none"
    /\ host' \in {NoThread} \cup {s \in Session : pc[s] \notin {"none", "ended"}}
    /\ Go(Handler, "event")
    /\ UNCHANGED <<heap, mutex, user, found, aim, up>>

\* Mutant: a C library that does not look whether the mutex is held.
DestroyAnyway ==
    /\ At(Handler, "sleep")
    /\ destroyed' = TRUE
    /\ Go(Handler, "head")
    /\ UNCHANGED <<heap, holder, user, found, host, aim, up>>

\* sleep(1), then shutdown_client_list.  A mutex that is held is not destroyed.
Destroy ==
    /\ At(Handler, "sleep")
    /\ destroyed' = (holder = NoThread)
    /\ Go(Handler, "head")
    /\ UNCHANGED <<heap, holder, user, found, host, aim, up>>

\* The head of the list is tested, then read again for its index, then the lock
\* is taken, in three steps: sessions may free that node before each.
TestHead ==
    /\ At(Handler, "head") /\ list # <<>>
    /\ aim' = Head(list)
    /\ Go(Handler, "index")
    /\ UNCHANGED <<heap, mutex, user, found, host, up>>

\* The build may keep the pointer it tested or read it again; a freed node's
\* index is whatever the memory holds.
ReadIndex ==
    /\ At(Handler, "index")
    /\ \E node \in {aim} \cup (IF list = <<>> THEN {} ELSE {Head(list)}) :
          aim' \in IF node \in freed THEN Session \cup {Server, NoThread} ELSE {node}
    /\ Go(Handler, "aim")
    /\ UNCHANGED <<heap, mutex, user, found, host, up>>

\* The pointer is read again and is NULL by now.
ReadNull ==
    /\ At(Handler, "index") /\ list = <<>>
    /\ up' = FALSE
    /\ UNCHANGED <<heap, mutex, user, pc, found, host, aim>>

\* remove_client_from_list of that index.
FreeHead ==
    /\ At(Handler, "aim")
    /\ FindNode(Handler, aim, "found")
    /\ aim' = NoThread
    /\ UNCHANGED <<heap, destroyed, user, host, up>>

HeadFreed ==
    /\ At(Handler, "found")
    /\ FreeNode(Handler, "head")
    /\ UNCHANGED <<destroyed, user, host, aim, up>>

\* Mutant: the handler waits for the sessions.
ExitJoined ==
    /\ At(Handler, "head") /\ list = <<>>
    /\ \A s \in Session : pc[s] \in {"none", "ended"}
    /\ up' = FALSE
    /\ UNCHANGED <<heap, mutex, user, pc, found, host, aim>>

\* The list is empty: the sockets are closed and the process exits.
Exit ==
    /\ At(Handler, "head") /\ list = <<>>
    /\ up' = FALSE
    /\ UNCHANGED <<heap, mutex, user, pc, found, host, aim>>
-------------------------------------------------------------------------------
CastStep(t) == CastDone(t) \/ CastFails(t) \/ CastKills(t)
SessionStep(s) == CastStep(s) \/ RecvEnd(s) \/ Close(s) \/ SelfRemoved(s)
HandlerStep ==
    \/ BeginCast(Handler) \/ CastStep(Handler) \/ Destroy
    \/ TestHead \/ ReadIndex \/ ReadNull \/ FreeHead \/ HeadFreed \/ Exit

Next ==
    \/ \E s \in Session :
          Connect(s) \/ Leave(s) \/ BeginCast(s) \/ RemoveSelf(s) \/ SessionStep(s)
    \/ Interrupt \/ HandlerStep
Spec == Init /\ [][Next]_vars

\* The thread is in a send() to a user who is there, and may not read.
HeldUp(t) ==
    /\ \E label \in DOMAIN Sent : At(t, label)
    /\ \E s \in Addressees(t) \ Closed(t) : user[s] = "on"

\* The threads are scheduled, a send returns but for a user who is there, and
\* whoever waits for a mutex that is free again and again gets it.
FairSpec ==
    /\ Spec
    /\ \A s \in Session : WF_vars(SessionStep(s) /\ ~HeldUp(s)) /\ SF_vars(RemoveSelf(s))
    /\ SF_vars(HandlerStep /\ ~HeldUp(Handler))
-------------------------------------------------------------------------------
(* What holds.                                                             *)
Label == {"none", "serve", "bye", "closing", "closed", "ended", "event", "fin", "sleep",
          "head", "index", "aim"}

TypeOK ==
    /\ list \in Seq(Session \cup {Server}) /\ freed \subseteq Session \cup {Server}
    /\ corrupt \in BOOLEAN /\ destroyed \in BOOLEAN /\ up \in BOOLEAN
    /\ holder \in Thread \cup {NoThread} /\ host \in Session \cup {NoThread}
    /\ aim \in Session \cup {Server, NoThread}
    /\ user \in [Session -> {"away", "on", "off"}]
    /\ pc \in [Thread -> Label \cup Inside]
    /\ found \in [Thread -> Session \cup {Server, NoThread}]

\* Types; and as long as the mutex could not be destroyed, the handler and the
\* departing sessions free every node once, although the handler reads the head
\* of the list and its index without the lock (client_list.c:70), and a session
\* may free that node before it is read or before the lock is taken.
FreedOnce ==
    /\ TypeOK
    /\ ~destroyed => /\ ~corrupt
                  /\ \A t \in Thread : found[t] \notin freed
                  /\ freed \cap ToSet(list) = {}

\* Why: whoever is in the list holds the lock, so what a removal has found is
\* still there and nobody else has found anything; a user who has not connected
\* has no thread and no node; the mutex is destroyed once, after the broadcasts.
Exclusion ==
    \A t \in Thread : /\ pc[t] \in Inside => holder = t
                      /\ found[t] # NoThread => found[t] \in ToSet(list)

IInv ==
    /\ FreedOnce
    /\ IsInjective(list)
    /\ \A s \in Session : user[s] = "away" =>
          /\ pc[s] = "none" /\ s \notin ToSet(list)
          /\ ~destroyed => s \notin freed
    /\ \A t \in Thread : found[t] # NoThread => pc[t] = "found"
    /\ pc[Handler] = "none" => host = NoThread
    /\ IF destroyed THEN pc[Handler] \in {"head", "index", "aim", "found"} ELSE Exclusion

\* A lock that is kept when the handler comes to the mutex is what saves the
\* list: the handler never gets past it, and never frees a node.
KeptStopsHandler ==
    [][(Kept /\ ~destroyed) => Kept' /\ ~destroyed' /\ freed' = freed]_vars

\* Once SIGINT has come the process ends, unless a broadcast has kept the lock
\* of the list, the thread that was interrupted holds it, or a broadcast waits
\* for ever for a user who does not read (communication.c:51).
StopsUnlessKept ==
    \/ \E t \in Thread : <>[]HeldUp(t)
    \/ pc[Handler] = "event" ~> (~up \/ Kept)
-------------------------------------------------------------------------------
(* What does not hold.                                                     *)
\* The server stops (signal_utilis.h: "et ferme le serveur en cas de SIGINT").
ServerStops == pc[Handler] = "event" ~> ~up

\* The node whose index the handler reads is there (client_list.c:71).
HeadIsLive == up /\ pc[Handler] = "index" => aim \notin freed

\* One thread at a time is in the list (client_list.c: "On verrouille l'accès à
\* la liste des clients").
RemovalIsExclusive ==
    \A t, r \in Thread : up /\ pc[t] = "found" /\ pc[r] = "found" => t = r
===============================================================================
