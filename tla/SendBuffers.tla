------------------------------ MODULE SendBuffers -----------------------------
(***************************************************************************)
(* Who waits for whom when the server sends more than its clients read.    *)
(*                                                                         *)
(* send waits while the connection's buffers are full.  A broadcast sends  *)
(* to everybody with the lock of the list, a message to a channel and a    *)
(* listing of the channels send with the lock of the table; a lookup, a    *)
(* join and the like take a lock, give it back and then answer.  What is   *)
(* sent, and sends that fail, are in ClientRegistry and Channels.          *)
(***************************************************************************)
EXTENDS Naturals, Sequences, FiniteSets, SequencesExt

CONSTANTS
    Client,         \* connected users, each with a session
    Nobody,         \* no session
    Capacity,       \* frames a connection holds that its client has not read
    NumChannels,    \* channels in the table
    MaxCommands     \* bound: commands of each user

ASSUME SendBuffersAssumption ==
    /\ IsFiniteSet(Client) /\ Nobody \notin Client
    /\ Capacity \in Nat \ {0} /\ NumChannels \in Nat /\ MaxCommands \in Nat

Mutex == {"list", "channels"}

VARIABLES
    unread,     \* frames sent to each client that it has not read
    reading,    \* the client reads what arrives
    stage,      \* of each session: "cmd", "lock", "held", "after"
    lock,       \* the lock the command takes
    held,       \* the clients it sends to with the lock, in order
    after,      \* those it sends to without
    mutex,      \* who holds each lock
    commands    \* commands each user has had

job == <<lock, held, after>>
sendsVars == <<unread, reading, stage, job, mutex, commands>>

SendsInit ==
    /\ unread = [c \in Client |-> 0] /\ reading = [c \in Client |-> TRUE]
    /\ stage = [c \in Client |-> "cmd"]
    /\ lock = [c \in Client |-> "list"]
    /\ held = [c \in Client |-> <<>>] /\ after = [c \in Client |-> <<>>]
    /\ mutex = [m \in Mutex |-> Nobody]
    /\ commands = [c \in Client |-> 0]

Stage(c, label) == stage[c] = label
Proceed(c, label) == stage' = [stage EXCEPT ![c] = label]
-------------------------------------------------------------------------------
(* The commands: the lock, the sends with it, the sends without.           *)
Sends(c, m, with, without) ==
    /\ Stage(c, "cmd") /\ commands[c] < MaxCommands
    /\ commands' = [commands EXCEPT ![c] = @ + 1]
    /\ lock' = [lock EXCEPT ![c] = m]
    /\ held' = [held EXCEPT ![c] = with]
    /\ after' = [after EXCEPT ![c] = without]
    /\ Proceed(c, "lock")
    /\ UNCHANGED <<unread, reading, mutex>>

Others(c) == SetToSeq(Client \ {c})

\* "/all", and the announcements.
SendAll(c) == Sends(c, "list", Others(c), <<>>)

\* "/send": the members, or an error to the sender, all with the lock.
SendChannel(c) == Sends(c, "channels", Others(c), <<>>) \/ Sends(c, "channels", <<c>>, <<>>)

\* "/getChannels": a frame for each channel, or one if there is none, and the end.
ListChannels(c) ==
    LET lines == IF NumChannels = 0 THEN 1 ELSE NumChannels
    IN  Sends(c, "channels", [i \in 1 .. lines + 1 |-> c], <<>>)

\* "/list"; "/mp", to another or to oneself with an error.
Lookup(c) == \E o \in Client : Sends(c, "list", <<>>, <<o>>)

\* "/join", "/leave", "/create" and "/delete".
ChangeChannels(c) == Sends(c, "channels", <<>>, <<c>>)
-------------------------------------------------------------------------------
Lock(c) ==
    /\ Stage(c, "lock") /\ mutex[lock[c]] = Nobody
    /\ mutex' = [mutex EXCEPT ![lock[c]] = c]
    /\ Proceed(c, "held")
    /\ UNCHANGED <<unread, reading, job, commands>>

\* send waits for room.
Sent(o) ==
    /\ unread[o] < Capacity
    /\ unread' = [unread EXCEPT ![o] = @ + 1]

SendHeld(c) ==
    /\ Stage(c, "held") /\ held[c] # <<>>
    /\ Sent(Head(held[c]))
    /\ held' = [held EXCEPT ![c] = Tail(@)]
    /\ UNCHANGED <<reading, stage, lock, after, mutex, commands>>

\* Mutant: a command that has only to answer returns with the lock.
UnlockForgotten(c) ==
    /\ Stage(c, "held") /\ held[c] = <<>>
    /\ mutex' = IF after[c] = <<>> THEN [mutex EXCEPT ![lock[c]] = Nobody] ELSE mutex
    /\ Proceed(c, "after")
    /\ UNCHANGED <<unread, reading, job, commands>>

Unlock(c) ==
    /\ Stage(c, "held") /\ held[c] = <<>>
    /\ mutex' = [mutex EXCEPT ![lock[c]] = Nobody]
    /\ Proceed(c, "after")
    /\ UNCHANGED <<unread, reading, job, commands>>

SendAfter(c) ==
    /\ Stage(c, "after") /\ after[c] # <<>>
    /\ Sent(Head(after[c]))
    /\ after' = [after EXCEPT ![c] = Tail(@)]
    /\ UNCHANGED <<reading, stage, lock, held, mutex, commands>>

Done(c) ==
    /\ Stage(c, "after") /\ after[c] = <<>>
    /\ Proceed(c, "cmd")
    /\ UNCHANGED <<unread, reading, job, mutex, commands>>

\* The client: its thread reads a frame, or stands still, as when its terminal
\* is stopped or the program is.
ReadFrame(c) ==
    /\ reading[c] /\ unread[c] > 0
    /\ unread' = [unread EXCEPT ![c] = @ - 1]
    /\ UNCHANGED <<reading, stage, job, mutex, commands>>

Stall(c) ==
    /\ reading' = [reading EXCEPT ![c] = ~@]
    /\ UNCHANGED <<unread, stage, job, mutex, commands>>

Start(c) == SendAll(c) \/ SendChannel(c) \/ ListChannels(c) \/ Lookup(c) \/ ChangeChannels(c)
Work(c) == SendHeld(c) \/ Unlock(c) \/ SendAfter(c) \/ Done(c)
SendsNext == \E c \in Client : Start(c) \/ Lock(c) \/ Work(c) \/ ReadFrame(c) \/ Stall(c)

\* Sessions run when they can, the locks are granted in turn, and a client that
\* reads goes on; nothing makes one that stands still read again.
SendsSpec ==
    /\ SendsInit /\ [][SendsNext]_sendsVars
    /\ \A c \in Client :
          /\ SF_sendsVars(Lock(c)) /\ SF_sendsVars(SendHeld(c)) /\ SF_sendsVars(SendAfter(c))
          /\ WF_sendsVars(Unlock(c)) /\ WF_sendsVars(Done(c)) /\ SF_sendsVars(ReadFrame(c))
-------------------------------------------------------------------------------
\* Types; a lock is held by the sessions that send with it, and by no other.
SendsTypeOK ==
    /\ unread \in [Client -> 0 .. Capacity] /\ reading \in [Client -> BOOLEAN]
    /\ stage \in [Client -> {"cmd", "lock", "held", "after"}]
    /\ lock \in [Client -> Mutex]
    /\ held \in [Client -> Seq(Client)] /\ after \in [Client -> Seq(Client)]
    /\ commands \in [Client -> 0 .. MaxCommands]
    /\ mutex \in [Mutex -> Client \cup {Nobody}]
    /\ \A m \in Mutex : \A c \in Client : mutex[m] = c <=> (Stage(c, "held") /\ lock[c] = m)

Waiting(c) ==
    \/ Stage(c, "lock") /\ mutex[lock[c]] # Nobody
    \/ Stage(c, "held") /\ held[c] # <<>> /\ unread[Head(held[c])] = Capacity
    \/ Stage(c, "after") /\ after[c] # <<>> /\ unread[Head(after[c])] = Capacity

\* Types; and the sessions never wait for each other in a circle: when all that
\* have something to do wait, it is for a client that has not read
\* (communication.c:36-51, listChannel.c:20-36, send_msg_channel.c:19-45).
WaitIsForReader ==
    /\ SendsTypeOK
    /\ (\E c \in Client : ~Stage(c, "cmd")) /\ (\A c \in Client : Stage(c, "cmd") \/ Waiting(c))
          => \E o \in Client : unread[o] = Capacity

\* If every client reads again and again, every command is served: those that
\* wait for a lock get it, although its holders wait for clients.
ServedIfRead ==
    (\A o \in Client : []<>reading[o]) => \A c \in Client : Stage(c, "lock") ~> Stage(c, "cmd")

\* A message "à tous les clients connectés" (communication.h:21) reaches those
\* who read, although one may not.
ReadersAreServed ==
    \A c \in Client : Stage(c, "lock") ~> (Stage(c, "cmd") \/ ~reading[c])
===============================================================================
