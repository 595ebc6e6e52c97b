---------------------------- MODULE ClientRegistry ----------------------------
(***************************************************************************)
(* The chat server's sessions: the acceptor (wait_for_client.c), one       *)
(* thread per client (client_handler.c), the list of clients and its lock  *)
(* (client_list.c), the broadcasts that walk the list under that lock      *)
(* (communication.c), the choice of a pseudo (handle_pseudo.c), and the    *)
(* commands that use the list.                                             *)
(*                                                                         *)
(* A Client is one TCP connection with the thread that serves it: the      *)
(* acceptor numbers connections with a counter, so an index is never used  *)
(* twice, while descriptors and freed list nodes are.  A critical section  *)
(* that only reads or relinks the list is one step, enabled when the lock  *)
(* is free; a broadcast, which holds the lock over one send() per node, is *)
(* one step per node.                                                      *)
(***************************************************************************)
EXTENDS Naturals, FiniteSets, SequencesExt

CONSTANTS
    Client,         \* the connections of a run
    Serveur,        \* the server's own node of the list (index 0)
    Pseudo,         \* names a user may type
    ServeurPseudo,  \* the name of the server's node
    EmptyPseudo,    \* what the buffer holds when recv() returned nothing
    NoPseudo,       \* the NULL pseudo of a node whose user has not chosen yet
    Descriptor,     \* descriptors accept() may return
    Stray,          \* a value of socket_fd that names no open descriptor
    NoSocket,       \* the socket_fd 0 that a broadcast skips
    Nobody,         \* no connection, no thread
    MaxClients,     \* MAX_CLIENTS
    MaxRequests,    \* bound: names and commands one user sends
    MaxFaults       \* bound: failures of accept() and pthread_create()

Node == Client \cup {Serveur}
Name == Pseudo \cup {ServeurPseudo, EmptyPseudo}

ASSUME RegistryAssumption ==
    /\ IsFiniteSet(Client)
    /\ Serveur \notin Client
    /\ Nobody \notin Node
    /\ NoPseudo \notin Name
    /\ Stray \notin Descriptor /\ NoSocket \notin Descriptor
    /\ Stray # NoSocket
    /\ MaxClients \in Nat /\ MaxRequests \in Nat /\ MaxFaults \in Nat

VARIABLES
    \* the process
    status,     \* "up", or how it died: "sigpipe", "segv"
    \* the acceptor
    main,       \* "sem" (waits for a slot), "accept", "admit" (enters a client)
    slots,      \* the semaphore client_slot
    lost,       \* history: slots taken and never to be posted
    \* the list of clients
    list,       \* client_list_head and the next pointers, head first
    mutex,      \* the thread that holds client_list_mutex, or Nobody
    rest,       \* nodes the broadcast in progress has still to visit
    pseudo,     \* client_info.pseudo of every node
    \* the kernel
    conn,       \* the connection each descriptor denotes, or Nobody
    fd,         \* client_info.socket_fd of every node
    link,       \* what the peer did, as send() and recv() will show it
    \* the client threads
    pc,         \* where the thread of a connection is
    want,       \* pseudo_buffer
    cast,       \* which broadcast the thread is in
    rcpt,       \* the node get_client_by_pseudo returned
    \* the environment
    requests,   \* names and commands the user has still to send
    faults,     \* failures still to come
    delivery    \* history: the message the last step handed to a live peer

process  == <<status>>
acceptor == <<main, slots, lost>>
registry == <<list, mutex, rest>>
kernel   == <<conn, fd, link>>
locals   == <<want, cast, rcpt>>
vars == <<status, main, slots, lost, list, mutex, rest, pseudo, conn, fd, link,
          pc, want, cast, rcpt, requests, faults, delivery>>

\* Before "choose" the acceptor handles the connection; "refused" and "done"
\* are final.
Embryo  == {"new", "added", "unadd"}
Serving == {"choose", "check", "name", "lock", "walk", "cmd", "mp"}
Leaving == {"close", "remove", "post"}

InService == {c \in Client : pc[c] \in Embryo \cup Serving \cup Leaving}
\* The connections whose node is on the list.
Listed == {c \in Client : pc[c] \in {"added", "unadd", "close", "remove"} \cup Serving}
\* The connections whose descriptor is open.
Open == {c \in Client : pc[c] \in {"new", "added", "close"} \cup Serving}
Gone(c) == link[c] \in {"fin", "reset", "broken"}

LinkState == {"away", "up", "fin", "reset", "broken", "closed"}
Kind == {"none", "pseudo", "answer", "mp", "join", "all", "tag", "bye"}
Delivery == [kind : Kind, from : Client \cup {Nobody},
             addressee : Node \cup {Nobody}, to : Client \cup {Nobody}]
Silence == [kind |-> "none", from |-> Nobody, addressee |-> Nobody, to |-> Nobody]
Message(kind, from, addressee) ==
    [kind |-> kind, from |-> from, addressee |-> addressee, to |-> Nobody]

Init ==
    /\ status = "up"
    /\ main = "sem" /\ slots = MaxClients /\ lost = 0
    /\ list = <<Serveur>> /\ mutex = Nobody /\ rest = <<>>
    /\ pseudo = [n \in Node |-> IF n = Serveur THEN ServeurPseudo ELSE NoPseudo]
    /\ conn = [d \in Descriptor |-> Nobody]
       \* add_serveur_account leaves the socket_fd of its malloc'ed node unset.
    /\ \E garbage \in {NoSocket, Stray} :
          fd = [n \in Node |-> IF n = Serveur THEN garbage ELSE Stray]
    /\ link = [c \in Client |-> "away"]
    /\ pc = [c \in Client |-> "none"]
    /\ want = [c \in Client |-> NoPseudo]
    /\ cast = [c \in Client |-> "join"]
    /\ rcpt = [c \in Client |-> Serveur]
    /\ requests = [c \in Client |-> MaxRequests]
    /\ faults = MaxFaults
    /\ delivery = Silence
-------------------------------------------------------------------------------
(* The kernel, as the server uses it.                                      *)

\* The connection a descriptor denotes, if any.
Reached(f) == IF f \in Descriptor THEN {conn[f]} \ {Nobody} ELSE {}

\* send() on descriptor f returned r.  A peer that is there may be long in
\* reading: send() then waits (NeedsUser, below).  One that closed lets one more
\* send succeed and answers it with a reset; a reset is reported once as an
\* error, and the next send raises SIGPIPE, which nothing in the program ignores.
Sent(f, m, r) ==
    LET p == IF f \in Descriptor THEN conn[f] ELSE Nobody
    IN  \/ /\ p = Nobody /\ r = "failed"
           /\ delivery' = Silence /\ UNCHANGED <<status, link>>
        \/ /\ p # Nobody /\ link[p] = "up" /\ r = "ok"
           /\ delivery' = [m EXCEPT !.to = p] /\ UNCHANGED <<status, link>>
        \/ /\ p # Nobody /\ link[p] = "fin" /\ r = "ok"
           /\ \E l \in {"fin", "broken"} : link' = [link EXCEPT ![p] = l]
           /\ delivery' = Silence /\ UNCHANGED status
        \/ /\ p # Nobody /\ link[p] = "reset" /\ r = "failed"
           /\ link' = [link EXCEPT ![p] = "broken"]
           /\ delivery' = Silence /\ UNCHANGED status
        \/ /\ p # Nobody /\ link[p] = "broken" /\ r = "killed"
           /\ status' = "sigpipe"
           /\ delivery' = Silence /\ UNCHANGED link

Result == {"ok", "failed", "killed"}

\* send_to_one_client(.., client_socket): no caller looks at more than perror.
Reply(c, kind) == \E r \in Result : Sent(fd[c], Message(kind, c, c), r)

\* recv() returns data the user sent, before or after closing.
Request(c) ==
    /\ requests[c] > 0
    /\ requests' = [requests EXCEPT ![c] = @ - 1]

\* recv() returns 0 or -1; a pending reset is consumed.
ReadEnd(c) ==
    /\ Gone(c)
    /\ link' = [link EXCEPT ![c] = IF @ = "reset" THEN "broken" ELSE @]

Close(c) ==
    /\ conn' = [conn EXCEPT ![fd[c]] = Nobody]
    /\ link' = [link EXCEPT ![c] = "closed"]

\* Nothing runs once the process has died.
Running == status = "up"
At(c, label) == Running /\ pc[c] = label
MainAt(label) == Running /\ main = label
Go(c, label) == pc' = [pc EXCEPT ![c] = label]

Unlocked == mutex = Nobody

Crash == status' = "segv" /\ delivery' = Silence

Connect(c) ==
    /\ Running /\ link[c] = "away"
    /\ link' = [link EXCEPT ![c] = "up"]
    /\ delivery' = Silence
    /\ UNCHANGED <<process, acceptor, registry, pseudo, conn, fd, pc, locals, requests, faults>>

\* The user's side closes its socket, or dies with unread data in it.
PeerCloses(c) ==
    /\ Running /\ link[c] = "up"
    /\ \E l \in {"fin", "reset"} : link' = [link EXCEPT ![c] = l]
    /\ delivery' = Silence
    /\ UNCHANGED <<process, acceptor, registry, pseudo, conn, fd, pc, locals, requests, faults>>
-------------------------------------------------------------------------------
(* The acceptor.                                                           *)

WaitSlot ==
    /\ MainAt("sem") /\ slots > 0
    /\ slots' = slots - 1
    /\ main' = "accept"
    /\ delivery' = Silence
    /\ UNCHANGED <<process, lost, registry, pseudo, kernel, pc, locals, requests, faults>>

\* Mutant: a number that was used before is given to a new connection.
AcceptAgain(c) ==
    /\ MainAt("accept")
    /\ pc[c] \in {"none", "done"} /\ link[c] # "away"
    /\ \E d \in {x \in Descriptor : conn[x] = Nobody} :
          /\ conn' = [conn EXCEPT ![d] = c]
          /\ fd' = [fd EXCEPT ![c] = d]
    /\ Go(c, "new")
    /\ main' = "admit"
    /\ delivery' = Silence
    /\ UNCHANGED <<process, slots, lost, registry, pseudo, link, locals, requests, faults>>

\* accept() returns a free descriptor; the node's pseudo is NULL.
Accept(c) ==
    /\ MainAt("accept")
    /\ pc[c] = "none" /\ link[c] # "away"
    /\ \E d \in {x \in Descriptor : conn[x] = Nobody} :
          /\ conn' = [conn EXCEPT ![d] = c]
          /\ fd' = [fd EXCEPT ![c] = d]
    /\ Go(c, "new")
    /\ main' = "admit"
    /\ delivery' = Silence
    /\ UNCHANGED <<process, slots, lost, registry, pseudo, link, locals, requests, faults>>

\* "On signale l'erreur et on continue l'ecoute": the slot is not posted back.
AcceptFails ==
    /\ MainAt("accept") /\ faults > 0
    /\ faults' = faults - 1
    /\ main' = "sem"
    /\ lost' = lost + 1
    /\ delivery' = Silence
    /\ UNCHANGED <<process, slots, registry, pseudo, kernel, pc, locals, requests>>

\* Mutant: the insertion without the lock.
AddUnlocked(c) ==
    /\ At(c, "new")
    /\ list' = <<c>> \o list
    /\ Go(c, "added")
    /\ delivery' = Silence
    /\ UNCHANGED <<process, acceptor, mutex, rest, pseudo, kernel, locals, requests, faults>>

\* add_client_to_list: at the head.
AddToList(c) ==
    /\ At(c, "new") /\ Unlocked
    /\ list' = <<c>> \o list
    /\ Go(c, "added")
    /\ delivery' = Silence
    /\ UNCHANGED <<process, acceptor, mutex, rest, pseudo, kernel, locals, requests, faults>>

Spawn(c) ==
    /\ At(c, "added")
    /\ Go(c, "choose")
    /\ main' = "sem"
    /\ delivery' = Silence
    /\ UNCHANGED <<process, slots, lost, registry, pseudo, kernel, locals, requests, faults>>

\* Mutant: the acceptor goes on before it has taken the node out again.
SpawnFailsContinue(c) ==
    /\ At(c, "added") /\ faults > 0
    /\ faults' = faults - 1
    /\ Close(c)
    /\ Go(c, "unadd")
    /\ main' = "sem"
    /\ delivery' = Silence
    /\ UNCHANGED <<process, slots, lost, registry, pseudo, fd, locals, requests>>

\* pthread_create failed: close, then remove, then on to the next connection.
SpawnFails(c) ==
    /\ At(c, "added") /\ faults > 0
    /\ faults' = faults - 1
    /\ Close(c)
    /\ Go(c, "unadd")
    /\ delivery' = Silence
    /\ UNCHANGED <<process, acceptor, registry, pseudo, fd, locals, requests>>

\* Mutants: only the head is ever unlinked; the removal without the lock.
UnlinkHead(c) ==
    /\ Unlocked
    /\ list' = IF Head(list) = c THEN Tail(list) ELSE list
    /\ pseudo' = [pseudo EXCEPT ![c] = NoPseudo]

UnlinkUnlocked(c) ==
    /\ list' = RemoveFirst(list, c)
    /\ pseudo' = [pseudo EXCEPT ![c] = NoPseudo]

\* remove_client_from_list: unlink and free the node with index c, if any.
Unlink(c) ==
    /\ Unlocked
    /\ list' = RemoveFirst(list, c)
    /\ pseudo' = [pseudo EXCEPT ![c] = NoPseudo]

RemoveRefused(c) ==
    /\ At(c, "unadd")
    /\ Unlink(c)
    /\ Go(c, "refused")
    /\ main' = "sem"
    /\ lost' = lost + 1
    /\ delivery' = Silence
    /\ UNCHANGED <<process, slots, mutex, rest, kernel, locals, requests, faults>>
-------------------------------------------------------------------------------
(* A client thread: the choice of a pseudo.                                *)

\* The result of recv() is not looked at: once the peer is gone the buffer,
\* cleared before the call, is the pseudo.
RecvPseudo(c) ==
    /\ At(c, "choose")
    /\ \/ /\ Request(c)
          /\ \E p \in Pseudo : want' = [want EXCEPT ![c] = p]
          /\ UNCHANGED link
       \/ /\ ReadEnd(c)
          /\ want' = [want EXCEPT ![c] = EmptyPseudo]
          /\ UNCHANGED requests
    /\ Go(c, "check")
    /\ delivery' = Silence
    /\ UNCHANGED <<process, acceptor, registry, pseudo, conn, fd, cast, rcpt, faults>>

\* is_pseudo_available: no node of the list has this pseudo.
Available(p) == \A n \in ToSet(list) : pseudo[n] # p

\* The answer is sent after the lock is released and before the pseudo is set.
CheckPseudo(c) ==
    /\ At(c, "check") /\ Unlocked
    /\ Go(c, IF Available(want[c]) THEN "name" ELSE "choose")
    /\ Reply(c, "pseudo")
    /\ UNCHANGED <<acceptor, registry, pseudo, conn, fd, locals, requests, faults>>

\* info->pseudo = strdup(pseudo_buffer), outside the lock.
SetPseudo(c) ==
    /\ At(c, "name")
    /\ pseudo' = [pseudo EXCEPT ![c] = want[c]]
    /\ cast' = [cast EXCEPT ![c] = "join"]
    /\ Go(c, "lock")
    /\ delivery' = Silence
    /\ UNCHANGED <<process, acceptor, registry, kernel, want, rcpt, requests, faults>>
-------------------------------------------------------------------------------
(* send_to_all_client, for "join", "all", "tag" and "bye".                 *)

LockList(c) ==
    /\ At(c, "lock") /\ Unlocked
    /\ mutex' = c
    /\ rest' = list
    /\ Go(c, "walk")
    /\ delivery' = Silence
    /\ UNCHANGED <<process, acceptor, list, pseudo, kernel, locals, requests, faults>>

\* What the thread does when its broadcast returns.
AfterCast(c) == IF cast[c] = "bye" THEN "close" ELSE "cmd"

\* The announcements pass index 0, the server's, as the sender.
Skipped(c, n) ==
    \/ pseudo[n] = NoPseudo
    \/ n = (IF cast[c] \in {"join", "bye"} THEN Serveur ELSE c)
    \/ fd[n] = NoSocket

WalkSkip(c) ==
    /\ At(c, "walk") /\ rest # <<>>
    /\ Skipped(c, Head(rest))
    /\ rest' = Tail(rest)
    /\ delivery' = Silence
    /\ UNCHANGED <<process, acceptor, list, mutex, pseudo, kernel, pc, locals, requests, faults>>

\* A send that fails makes the function return -1, and keep the lock.
WalkSend(c) ==
    /\ At(c, "walk") /\ rest # <<>>
    /\ ~Skipped(c, Head(rest))
    /\ \E r \in Result :
          /\ Sent(fd[Head(rest)], Message(cast[c], c, Head(rest)), r)
          /\ \/ r = "ok" /\ rest' = Tail(rest) /\ UNCHANGED pc
             \/ r = "failed" /\ rest' = <<>> /\ Go(c, AfterCast(c))
             \/ r = "killed" /\ UNCHANGED <<rest, pc>>
    /\ UNCHANGED <<acceptor, list, mutex, pseudo, conn, fd, locals, requests, faults>>

WalkEnd(c) ==
    /\ At(c, "walk") /\ rest = <<>>
    /\ mutex' = Nobody
    /\ Go(c, AfterCast(c))
    /\ delivery' = Silence
    /\ UNCHANGED <<process, acceptor, list, rest, pseudo, kernel, locals, requests, faults>>
-------------------------------------------------------------------------------
(* The commands of a client thread.  Which command a buffer holds is left  *)
(* open: any of them may come next.                                        *)

Command(c) == At(c, "cmd") /\ Request(c)

\* "/all": to everybody but the sender.
RecvAll(c) ==
    /\ Command(c)
    /\ cast' = [cast EXCEPT ![c] = "all"]
    /\ Go(c, "lock")
    /\ delivery' = Silence
    /\ UNCHANGED <<process, acceptor, registry, pseudo, kernel, want, rcpt, faults>>

\* "/all" whose first word has an "@", with what is left of the line: that may
\* be nothing or hold no "@" (strchr returns NULL), or no word after it; a word
\* is looked up in the list, and one in use may still be too long.
RecvTag(c) ==
    /\ Command(c)
    /\ \/ Crash /\ UNCHANGED <<link, cast, pc>>
       \/ /\ Reply(c, "answer")
          /\ UNCHANGED <<cast, pc>>
       \/ /\ Unlocked /\ \E p \in Name : ~Available(p)
          /\ cast' = [cast EXCEPT ![c] = "tag"]
          /\ Go(c, "lock")
          /\ delivery' = Silence /\ UNCHANGED <<status, link>>
    /\ UNCHANGED <<acceptor, registry, pseudo, conn, fd, want, rcpt, faults>>

\* A node of the list whose pseudo is still NULL: strcat and strcmp read it.
NullPseudo(nodes) == \E n \in nodes : pseudo[n] = NoPseudo

\* "/list": concatenates the pseudos of all nodes but the server's.
RecvList(c) ==
    /\ Command(c) /\ Unlocked
    /\ IF NullPseudo(ToSet(list) \ {Serveur})
          THEN Crash /\ UNCHANGED link
          ELSE Reply(c, "answer")
    /\ UNCHANGED <<acceptor, registry, pseudo, conn, fd, pc, locals, faults>>

\* "/mp": get_client_by_pseudo compares with every node and returns the last
\* one that matches, after which the lock is free again.
RecvMp(c) ==
    /\ Command(c) /\ Unlocked
    /\ \/ /\ NullPseudo(ToSet(list))
          /\ Crash /\ UNCHANGED <<link, pc, rcpt>>
       \/ /\ ~NullPseudo(ToSet(list))
          /\ \E p \in Name :
                \/ /\ Available(p)
                   /\ Reply(c, "answer") /\ UNCHANGED <<pc, rcpt>>
                \/ \E i \in DOMAIN list :
                      /\ pseudo[list[i]] = p
                      /\ \A j \in DOMAIN list : j > i => pseudo[list[j]] # p
                      /\ rcpt' = [rcpt EXCEPT ![c] = list[i]]
                      /\ Go(c, "mp")
                      /\ delivery' = Silence /\ UNCHANGED <<status, link>>
    /\ UNCHANGED <<acceptor, registry, pseudo, conn, fd, want, cast, faults>>

\* recipient->socket_fd is read without the lock; if the node was freed in the
\* meantime the value read is whatever the memory holds.
MpSockets(c) ==
    IF rcpt[c] \in ToSet(list) THEN {fd[rcpt[c]]} ELSE Descriptor \cup {Stray}

SendMp(c) ==
    /\ At(c, "mp")
    /\ \E f \in MpSockets(c) :
          \E r \in Result : Sent(f, Message("mp", c, rcpt[c]), r)
    /\ Go(c, "cmd")
    /\ UNCHANGED <<acceptor, registry, pseudo, conn, fd, locals, requests, faults>>

\* "/help", an unknown command, a malformed one: one answer to the asker.
RecvOther(c) ==
    /\ Command(c)
    /\ Reply(c, "answer")
    /\ UNCHANGED <<acceptor, registry, pseudo, conn, fd, pc, locals, faults>>

\* "/quit", or the end of the stream: out of the loop, to the announcement.
Farewell(c) ==
    /\ cast' = [cast EXCEPT ![c] = "bye"]
    /\ Go(c, "lock")
    /\ delivery' = Silence
    /\ UNCHANGED <<process, acceptor, registry, pseudo, conn, fd, want, rcpt, faults>>

RecvQuit(c) ==
    /\ Command(c)
    /\ Farewell(c)
    /\ UNCHANGED link

\* Mutant: an error of recv() does not leave the loop.
RecvEndContinue(c) ==
    /\ At(c, "cmd") /\ ReadEnd(c)
    /\ delivery' = Silence
    /\ UNCHANGED <<process, acceptor, registry, pseudo, conn, fd, pc, locals, requests, faults>>

RecvEnd(c) ==
    /\ At(c, "cmd") /\ ReadEnd(c)
    /\ Farewell(c)
    /\ UNCHANGED requests
-------------------------------------------------------------------------------
(* disconnect_client.                                                      *)

CloseSocket(c) ==
    /\ At(c, "close")
    /\ Close(c)
    /\ Go(c, "remove")
    /\ delivery' = Silence
    /\ UNCHANGED <<process, acceptor, registry, pseudo, fd, locals, requests, faults>>

\* Mutants: the slot is posted a first time here; the descriptor is closed a
\* second time here.
RemoveAndPost(c) ==
    /\ At(c, "remove")
    /\ Unlink(c)
    /\ Go(c, "post")
    /\ slots' = slots + 1
    /\ delivery' = Silence
    /\ UNCHANGED <<process, main, lost, mutex, rest, kernel, locals, requests, faults>>

RemoveAndClose(c) ==
    /\ At(c, "remove")
    /\ Unlink(c)
    /\ Go(c, "post")
    /\ conn' = [conn EXCEPT ![fd[c]] = Nobody]
    /\ delivery' = Silence
    /\ UNCHANGED <<process, acceptor, mutex, rest, fd, link, locals, requests, faults>>

RemoveClient(c) ==
    /\ At(c, "remove")
    /\ Unlink(c)
    /\ Go(c, "post")
    /\ delivery' = Silence
    /\ UNCHANGED <<process, acceptor, mutex, rest, kernel, locals, requests, faults>>

PostSlot(c) ==
    /\ At(c, "post")
    /\ slots' = slots + 1
    /\ Go(c, "done")
    /\ delivery' = Silence
    /\ UNCHANGED <<process, main, lost, registry, pseudo, kernel, locals, requests, faults>>
-------------------------------------------------------------------------------
AcceptorStep ==
    \/ WaitSlot
    \/ \E c \in Client : Accept(c) \/ AddToList(c) \/ Spawn(c) \/ RemoveRefused(c)

HandlerStep(c) ==
    \/ RecvPseudo(c) \/ CheckPseudo(c) \/ SetPseudo(c)
    \/ LockList(c) \/ WalkSkip(c) \/ WalkSend(c) \/ WalkEnd(c)
    \/ RecvAll(c) \/ RecvTag(c) \/ RecvList(c) \/ RecvMp(c) \/ SendMp(c)
    \/ RecvOther(c) \/ RecvQuit(c) \/ RecvEnd(c)
    \/ CloseSocket(c) \/ RemoveClient(c) \/ PostSlot(c)

Fault == AcceptFails \/ \E c \in Client : SpawnFails(c)
Peer == \E c \in Client : Connect(c) \/ PeerCloses(c)

Next == AcceptorStep \/ Fault \/ Peer \/ \E c \in Client : HandlerStep(c)

Spec == Init /\ [][Next]_vars

\* The thread is in a send() to another user who is there: the call returns when
\* that user reads, which nothing obliges him to.
HeldUp(c) ==
    \/ /\ pc[c] = "walk" /\ rest # <<>> /\ ~Skipped(c, Head(rest))
       /\ \E p \in Reached(fd[Head(rest)]) : link[p] = "up"
    \/ /\ pc[c] = "mp"
       /\ \E f \in MpSockets(c) : \E p \in Reached(f) : link[p] = "up"

\* Or it is in a recv() from, or a send() to, its own user, who is there.
NeedsUser(c) ==
    \/ HeldUp(c)
    \/ pc[c] \in {"choose", "check", "cmd"} /\ link[c] = "up"

\* Every thread that can go on without a user who has to type or read does.  A
\* lock is contended only finitely often, because users send finitely many
\* requests.
Fairness ==
    /\ WF_vars(AcceptorStep)
    /\ \A c \in Client : WF_vars(HandlerStep(c) /\ ~NeedsUser(c))

FairSpec == Spec /\ Fairness
-------------------------------------------------------------------------------
(* Properties that hold.                                                   *)

\* Every variable stays within the values the code gives it.
TypeOK ==
    /\ status \in {"up", "sigpipe", "segv"}
    /\ main \in {"sem", "accept", "admit"}
    /\ slots \in Nat /\ lost \in Nat
    /\ list \in Seq(Node) /\ rest \in Seq(Node)
    /\ mutex \in Client \cup {Nobody}
    /\ pseudo \in [Node -> Name \cup {NoPseudo}]
    /\ conn \in [Descriptor -> Client \cup {Nobody}]
    /\ fd \in [Node -> Descriptor \cup {Stray, NoSocket}]
    /\ link \in [Client -> LinkState]
    /\ pc \in [Client -> {"none", "refused", "done"} \cup Embryo \cup Serving \cup Leaving]
    /\ want \in [Client -> Name \cup {NoPseudo}]
    /\ cast \in [Client -> {"join", "all", "tag", "bye"}]
    /\ rcpt \in [Client -> Node]
    /\ requests \in [Client -> Nat] /\ faults \in Nat
    /\ delivery \in Delivery

\* The acceptor admits one connection at a time: as long as a connection is
\* between accept() and its thread, the acceptor is at no other.
OneAdmission ==
    /\ \A c \in Client : pc[c] \in Embryo => main = "admit"
    /\ \A c, d \in Client : pc[c] \in Embryo /\ pc[d] \in Embryo => c = d

\* The semaphore counts exactly: every slot is free, in the acceptor's hand,
\* with a connection in service, or lost to a failed accept() or
\* pthread_create().  Hence at most MAX_CLIENTS sessions run at once.
SlotConservation ==
    slots + Cardinality(InService) + lost + (IF main = "accept" THEN 1 ELSE 0) = MaxClients

\* The list holds the server's node and the node of each connection between
\* add_client_to_list and remove_client_from_list, each exactly once,
\* whatever order admissions, refusals and departures interleave in.
ListIsServed ==
    /\ IsInjective(list)
    /\ ToSet(list) = {Serveur} \cup Listed

\* A broadcast visits the list as it stands: one thread walks at a time, it
\* holds the lock, and the nodes it has still to visit are the tail of the
\* list, so no node is freed under it, skipped or visited twice.
WalkStaysInList ==
    \A c \in Client : pc[c] = "walk" =>
        /\ mutex = c
        /\ \E k \in 1 .. Len(list) + 1 : rest = SubSeq(list, k, Len(list))

\* From accept() to close() a thread's descriptor denotes its own connection
\* and no other, however descriptors are reused; every descriptor in use
\* belongs to such a thread, so none leaks.
OwnDescriptor ==
    /\ \A c \in Open : fd[c] \in Descriptor /\ conn[fd[c]] = c
    /\ \A d \in Descriptor : conn[d] # Nobody => conn[d] \in Open /\ fd[conn[d]] = d

\* The inductive invariant: the safety properties above, which hold each other
\* up, together.
IInv ==
    /\ TypeOK
    /\ OneAdmission
    /\ SlotConservation
    /\ ListIsServed
    /\ WalkStaysInList
    /\ OwnDescriptor

\* The lock is held by a thread that is not in a broadcast any more.
Orphaned == mutex # Nobody /\ pc[mutex] # "walk"

\* Once a broadcast has returned with the lock held, no step of any thread
\* gives it back or changes the list again.
OrphanIsForever == [][Orphaned => Orphaned' /\ UNCHANGED list]_vars

\* The sessions implement the abstract pool of slots.
Pool == INSTANCE ClientPool WITH
            held <- main = "accept",
            served <- InService,
            gone <- {c \in Client : pc[c] \in {"refused", "done"}},
            wasted <- lost
ImplementsPool == Pool!Spec

\* A connection whose user is gone gives its slot and its node back, unless the
\* process died, a failed broadcast locked the list for good, or some thread is
\* for ever in a send() to a user who does not read: communication.c:51 makes
\* that wait with the list locked, so that one such user keeps every departed
\* one on the list.
DepartedIsReleased ==
    \/ \E c \in Client : <>[]HeldUp(c)
    \/ \A c \in Client :
          Gone(c) /\ c \in InService
              ~> pc[c] \in {"refused", "done"} \/ Orphaned \/ ~Running
-------------------------------------------------------------------------------
(* What comments and documentation say, and the code does not do.          *)

\* "On libere la liste": a broadcast that returned has released the lock.
LockReleased == ~Orphaned

\* "a l'exception de l'expediteur": the sender of /all does not receive it.
SenderExcluded == delivery.kind \in {"all", "tag"} => delivery.to # delivery.from

\* "PSEUDO_TAKEN si le pseudo est deja pris": no two nodes share a pseudo.
UniquePseudo ==
    \A m, n \in ToSet(list) : pseudo[m] = pseudo[n] /\ pseudo[m] # NoPseudo => m = n

\* "Envoie un message prive a un client specifique": to the addressee only.
MpReachesAddressee == delivery.kind = "mp" => delivery.to = delivery.addressee

\* "@return 0 .. -1 en cas d'erreur": a command returns, it does not crash.
NoSegfault == status # "segv"

\* "-1 en cas d'erreur": a failed send returns, it does not kill the server.
NoSigpipe == status # "sigpipe"

\* "Deconnecte un client en fermant son socket, le retirant de la liste des
\* clients et liberant le slot": who leaves is, though others do not read.
DepartureIsServed ==
    \A c \in Client :
        Gone(c) /\ c \in InService
            ~> pc[c] \in {"refused", "done"} \/ Orphaned \/ ~Running

\* "On signale l'erreur et on continue l'ecoute": with nobody in service the
\* acceptor listens again.
KeepsListening == main = "sem" /\ InService = {} ~> main = "accept"
===============================================================================
