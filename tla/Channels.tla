------------------------------- MODULE Channels -------------------------------
(***************************************************************************)
(* The table of channels (channel.c) and the commands on it, as the client *)
(* threads issue them (client_handler.c, send_msg_channel.c), while        *)
(* connections come and go and their descriptors are used again.           *)
(*                                                                         *)
(* Every function of channel.c holds channels_mutex from its first access  *)
(* to its last, but for create_channel's test of num_channels, so each is  *)
(* one step and a creation two.  A member is the copy of a client_info     *)
(* made when it joined: a descriptor, and a pointer to a pseudo that is    *)
(* freed when the connection ends.  Nothing takes the copy out then.       *)
(* The name of an entry is kept as what strcmp reads there: a name that    *)
(* does not fit name[50] is followed by the description.                   *)
(***************************************************************************)
EXTENDS Naturals, FiniteSets

CONSTANTS
    Client,         \* the connections of a run
    Pseudo,         \* pseudos; two connections may have the same
    ChannelName,    \* names of channels
    Long,           \* those of 50 bytes or more
    NoName,         \* the empty name, of a slot of the table that is free
    Descriptor,     \* descriptors of connections
    Stray,          \* a socket_fd that names no open descriptor
    GarbageFd,      \* values of socket_fd found in uninitialised memory
    Nobody,         \* no connection; a NULL pseudo
    Junk,           \* a pseudo pointer found in uninitialised memory
    MaxChannels,    \* MAX_CHANNELS
    MaxClients      \* MAX_CLIENTS, also the value of MAX_CLIENT_CHANNEL

\* create_channel looks for a duplicate in the first MAX_CLIENTS entries of an
\* array of MAX_CHANNELS: common.h makes the two equal.
ASSUME ChannelsAssumption ==
    /\ NoName \notin ChannelName /\ Long \subseteq ChannelName
    /\ Nobody \notin Client /\ Junk \notin Client /\ Junk # Nobody
    /\ Stray \notin Descriptor
    /\ GarbageFd \subseteq Descriptor \cup {Stray}
    /\ MaxClients \in Nat \ {0}
    /\ MaxChannels = MaxClients

VARIABLES
    channels,   \* the array
    num,        \* num_channels
    conn,       \* the connection each descriptor denotes, or Nobody
    fd,         \* socket_fd of each connection
    pseudo,     \* the pseudo of each connected connection
    pc,         \* "away", "cmd", "creating" (between test and lock), "gone"
    want,       \* the name a creation in progress is about
    clean,      \* history: the file that was loaded fitted the table
    reply,      \* history: what the last step answered
    heard       \* history: the message the last step sent, if any, and to whom

table == <<channels, num>>
connections == <<conn, fd, pseudo>>
vars == <<channels, num, conn, fd, pseudo, pc, want, clean, reply, heard>>

\* Descriptor 0 is the server's standard input: what memset leaves.
Slot == [fd : Descriptor \cup {Stray}, who : Client \cup {Nobody, Junk}]
Zero == [fd |-> Stray, who |-> Nobody]
Position == 1 .. MaxClients
Channel == [name : ChannelName \cup {NoName}, clients : [Position -> Slot], users : 0 .. MaxClients]
Blank == [name |-> NoName, clients |-> [k \in Position |-> Zero], users |-> 0]

NoReply == [kind |-> "none", to |-> Nobody, name |-> NoName]
NotHeard == [name |-> NoName, from |-> Nobody, by |-> {}]

Live(c) == pc[c] \in {"cmd", "creating"}

\* load_channels read the file save_channels wrote, or there was no file:
\* entries from the front, with nobody in them.  A line that is not
\* name:creator:description ends the loop after its name, perhaps, was
\* written to the next entry, which num_channels does not count; and names
\* that differ after a ':' read the same.
Init ==
    /\ num \in 0 .. MaxChannels
    /\ \E named \in {num} \cup {k \in 1 .. MaxChannels : k = num + 1} :
          \E names \in [1 .. named -> ChannelName \ Long] :
             /\ channels = [i \in 1 .. MaxChannels |->
                              IF i <= named THEN [Blank EXCEPT !.name = names[i]] ELSE Blank]
             /\ clean = (/\ named = num
                         /\ \A i, j \in 1 .. num : names[i] = names[j] => i = j)
    /\ conn = [d \in Descriptor |-> Nobody]
    /\ fd = [c \in Client |-> Stray]
    /\ pseudo \in [Client -> Pseudo]
    /\ pc = [c \in Client |-> "away"]
    /\ want = [c \in Client |-> NoName]
    /\ reply = NoReply /\ heard = NotHeard
-------------------------------------------------------------------------------
At(c, label) == pc[c] = label
Go(c, label) == pc' = [pc EXCEPT ![c] = label]
Answer(c, kind, n) == reply' = [kind |-> kind, to |-> c, name |-> n] /\ heard' = NotHeard

Connect(c) ==
    /\ At(c, "away")
    /\ \E d \in {x \in Descriptor : conn[x] = Nobody} :
          /\ conn' = [conn EXCEPT ![d] = c]
          /\ fd' = [fd EXCEPT ![c] = d]
    /\ Go(c, "cmd")
    /\ reply' = NoReply /\ heard' = NotHeard
    /\ UNCHANGED <<table, pseudo, want>>

\* disconnect_client: closes the descriptor and frees the client_info, without
\* a look at the channels.
Disconnect(c) ==
    /\ At(c, "cmd")
    /\ conn' = [conn EXCEPT ![fd[c]] = Nobody]
    /\ Go(c, "gone")
    /\ reply' = NoReply /\ heard' = NotHeard
    /\ UNCHANGED <<table, fd, pseudo, want>>
-------------------------------------------------------------------------------
\* create_channel's first test, without the lock.
CreateFull(c, n) ==
    /\ At(c, "cmd")
    /\ num = MaxChannels
    /\ Answer(c, "exists", n)
    /\ UNCHANGED <<table, connections, pc, want>>

CreateTested(c, n) ==
    /\ At(c, "cmd")
    /\ num # MaxChannels
    /\ want' = [want EXCEPT ![c] = n]
    /\ Go(c, "creating")
    /\ reply' = NoReply /\ heard' = NotHeard
    /\ UNCHANGED <<table, connections>>

\* Mutant: the last entry is not compared.
DuplicateButLast(n) == \E i \in 1 .. num - 1 : channels[i].name = n

Duplicate(n) == \E i \in 1 .. MaxClients : channels[i].name = n

\* What an entry reads as once strncpy has copied n to it: the first 50 bytes
\* of a long name and then its description.
Stored(n) == IF n \in Long THEN Long ELSE {n}

\* Mutant: the entry behind the last, or the last if there is none.
NextEntry(i) == i = IF num < MaxChannels THEN num + 1 ELSE MaxChannels

FirstFree(i) ==
    /\ channels[i].name = NoName
    /\ \A j \in 1 .. i - 1 : channels[j].name # NoName

\* The entry is copied from a local variable whose clients are uninitialised.
Garbage == [Position -> [fd : GarbageFd, who : {Nobody, Junk}]]
NewChannel(n, garbage) == [name |-> n, clients |-> garbage, users |-> 0]

\* 0 is answered with an error, and both 1 (created) and -1 (no free entry)
\* with "channel cree".
CreateLocked(c) ==
    /\ At(c, "creating")
    /\ Go(c, "cmd")
    /\ \/ /\ Duplicate(want[c])
          /\ Answer(c, "exists", want[c])
          /\ UNCHANGED table
       \/ /\ ~Duplicate(want[c])
          /\ Answer(c, "created", want[c])
          /\ \/ \E i \in 1 .. MaxChannels :
                   /\ FirstFree(i)
                   /\ \E g \in Garbage, r \in Stored(want[c]) :
                         channels' = [channels EXCEPT ![i] = NewChannel(r, g)]
                   /\ num' = num + 1
             \/ /\ \A i \in 1 .. MaxChannels : channels[i].name # NoName
                /\ UNCHANGED table
    /\ want' = [want EXCEPT ![c] = NoName]
    /\ UNCHANGED connections
-------------------------------------------------------------------------------
\* The entry a lookup by name stops at.
Found(n, i) ==
    /\ i \in 1 .. num
    /\ channels[i].name = n
    /\ \A j \in 1 .. i - 1 : channels[j].name # n

NotFound(n) == \A i \in 1 .. num : channels[i].name # n

\* What strcmp(slot.pseudo, client->pseudo) == 0 may be: anything, once the
\* pseudo the slot points to has been freed.
Same(slot, c) == IF slot.who \in Client /\ Live(slot.who) THEN {pseudo[slot.who] = pseudo[c]} ELSE BOOLEAN

\* The loop over the members stops at position j, or finds nobody.
Matches(ch, c, j) ==
    /\ j \in 1 .. ch.users
    /\ TRUE \in Same(ch.clients[j], c)
    /\ \A k \in 1 .. j - 1 : FALSE \in Same(ch.clients[k], c)
MatchesNone(ch, c) == \A k \in 1 .. ch.users : FALSE \in Same(ch.clients[k], c)

AddMember(ch, c) ==
    [name |-> ch.name,
     clients |-> [ch.clients EXCEPT ![ch.users + 1] = [fd |-> fd[c], who |-> c]],
     users |-> ch.users + 1]

JoinChannel(c, n) ==
    /\ At(c, "cmd")
    /\ \/ /\ \/ NotFound(n)
             \/ \E i \in 1 .. num :
                   /\ Found(n, i)
                   /\ \/ channels[i].users = MaxClients
                      \/ \E j \in Position : Matches(channels[i], c, j)
          /\ Answer(c, "refused", n)
          /\ UNCHANGED channels
       \/ /\ \E i \in 1 .. num :
                /\ Found(n, i)
                /\ channels[i].users # MaxClients
                /\ MatchesNone(channels[i], c)
                /\ channels' = [channels EXCEPT ![i] = AddMember(@, c)]
          /\ Answer(c, "joined", n)
    /\ UNCHANGED <<num, connections, pc, want>>

\* Mutant: the slot is cleared and the gap stays.
DropMemberHole(ch, j) ==
    [name |-> ch.name, clients |-> [ch.clients EXCEPT ![j] = Zero], users |-> ch.users - 1]

\* The members behind position j move up, and the last slot is cleared.
DropMember(ch, j) ==
    [name |-> ch.name,
     clients |-> [k \in Position |-> IF k \in j .. ch.users - 1 THEN ch.clients[k + 1]
                                     ELSE IF k = ch.users THEN Zero ELSE ch.clients[k]],
     users |-> ch.users - 1]

QuitChannel(c, n) ==
    /\ At(c, "cmd")
    /\ \/ /\ \/ NotFound(n)
             \/ \E i \in 1 .. num : Found(n, i) /\ MatchesNone(channels[i], c)
          /\ Answer(c, "refused", n)
          /\ UNCHANGED channels
       \/ /\ \E i \in 1 .. num :
                /\ Found(n, i)
                /\ \E j \in Position :
                      /\ Matches(channels[i], c, j)
                      /\ channels' = [channels EXCEPT ![i] = DropMember(@, j)]
          /\ Answer(c, "left", n)
    /\ UNCHANGED <<num, connections, pc, want>>

\* Mutants: the entry is cleared and the gap stays; only the names move up.
DropChannelHole(i) == [channels EXCEPT ![i] = Blank]

DropChannelName(i) ==
    [k \in 1 .. MaxChannels |->
        IF k \in i .. num - 1 THEN [channels[k] EXCEPT !.name = channels[k + 1].name]
        ELSE IF k = num THEN Blank ELSE channels[k]]

\* The entries behind i move up, and the last one is cleared.
DropChannel(i) ==
    [k \in 1 .. MaxChannels |->
        IF k \in i .. num - 1 THEN channels[k + 1]
        ELSE IF k = num THEN Blank ELSE channels[k]]

DeleteChannel(c, n) ==
    /\ At(c, "cmd")
    /\ \/ /\ NotFound(n)
          /\ Answer(c, "refused", n)
          /\ UNCHANGED table
       \/ /\ \E i \in 1 .. num :
                /\ Found(n, i)
                /\ channels' = DropChannel(i)
                /\ num' = num - 1
          /\ Answer(c, "deleted", n)
    /\ UNCHANGED <<connections, pc, want>>

\* Mutant: the last member is left out.
RecipientsButLast(ch, c) ==
    {d \in Client : \E k \in 1 .. ch.users - 1 :
        /\ ch.clients[k].fd \in Descriptor \ {fd[c]}
        /\ conn[ch.clients[k].fd] = d}

\* send_msg_to_channel looks at every slot of the entry, used or not, and takes
\* descriptors for members.
Recipients(ch, c) ==
    {d \in Client : \E k \in Position :
        /\ ch.clients[k].who # Nobody
        /\ ch.clients[k].fd \in Descriptor \ {fd[c]}
        /\ conn[ch.clients[k].fd] = d}

\* The first entry of the name decides whether c is in the channel; every
\* entry of the name is then sent to, as nothing ends the loop.
SendToChannel(c, n) ==
    /\ At(c, "cmd")
    /\ \E i \in 1 .. MaxChannels :
          /\ channels[i].name = n
          /\ \A j \in 1 .. i - 1 : channels[j].name # n
          /\ \E k \in Position : channels[i].clients[k].fd = fd[c]
    /\ heard' = [name |-> n, from |-> c,
                 by |-> {d \in Client : \E i \in 1 .. MaxChannels :
                           channels[i].name = n /\ d \in Recipients(channels[i], c)}]
    /\ reply' = NoReply
    /\ UNCHANGED <<table, connections, pc, want>>
-------------------------------------------------------------------------------
\* A name whose only letter was the stripped newline is empty.
Command(c) ==
    \/ \E n \in ChannelName : CreateFull(c, n) \/ CreateTested(c, n) \/ SendToChannel(c, n)
    \/ CreateLocked(c)
    \/ \E n \in ChannelName \cup {NoName} :
          JoinChannel(c, n) \/ QuitChannel(c, n) \/ DeleteChannel(c, n)

Next ==
    /\ \E c \in Client : Connect(c) \/ Disconnect(c) \/ Command(c)
    /\ UNCHANGED clean

Spec == Init /\ [][Next]_vars
-------------------------------------------------------------------------------
(* Properties that hold.                                                   *)

Existing == {channels[i].name : i \in 1 .. num}
Members(i) == {channels[i].clients[k].who : k \in 1 .. channels[i].users}

\* Every variable stays within the values the code gives it.
TypeOK ==
    /\ channels \in [1 .. MaxChannels -> Channel]
    /\ num \in 0 .. MaxChannels
    /\ conn \in [Descriptor -> Client \cup {Nobody}]
    /\ fd \in [Client -> Descriptor \cup {Stray}]
    /\ pseudo \in [Client -> Pseudo]
    /\ pc \in [Client -> {"away", "cmd", "creating", "gone"}]
    /\ want \in [Client -> ChannelName \cup {NoName}]
    /\ \A c \in Client : At(c, "creating") => want[c] \in ChannelName
    /\ clean \in BOOLEAN
    /\ reply \in [kind : {"none", "created", "exists", "joined", "left", "deleted", "refused"},
                  to : Client \cup {Nobody}, name : ChannelName \cup {NoName}]
    /\ heard \in [name : ChannelName \cup {NoName}, from : Client \cup {Nobody}, by : SUBSET Client]

\* The first num_channels entries are in use, and after a load of a file that
\* fitted they are all that is: create_channel fills the first free entry and
\* the lookups stop at num_channels, so an entry behind a gap would be out of
\* reach of join, leave and delete.  However creators race on the unlocked
\* test, num_channels never passes MAX_CHANNELS.
Contiguous ==
    /\ \A i \in 1 .. num : channels[i].name # NoName
    /\ clean => \A i \in 1 .. MaxChannels : channels[i].name # NoName => i <= num

\* No two entries have the same name, although two threads may have passed
\* create_channel's first test with it, unless the load made it so or the
\* name is too long for the comparison of strcmp to find it.
UniqueNames ==
    clean => \A i, j \in 1 .. num :
                channels[i].name = channels[j].name => i = j \/ channels[i].name \in Long

\* The first num_users slots of an entry, and they only, hold the connections
\* that joined, each once, with the descriptor each had: leaving closes the
\* gap in the middle, and neither the garbage of a new entry nor the memory
\* of a pseudo that was freed makes a connection a member twice.
MembersAreJoined ==
    \A i \in 1 .. num :
        /\ \A k \in 1 .. channels[i].users :
              LET slot == channels[i].clients[k]
              IN  /\ slot.who \in Client /\ ~At(slot.who, "away")
                  /\ slot.fd = fd[slot.who]
        /\ \A j, k \in 1 .. channels[i].users :
              channels[i].clients[j].who = channels[i].clients[k].who => j = k

\* Nobody is in an entry the lookups do not reach.
Unreached == \A i \in num + 1 .. MaxChannels : channels[i].users = 0

\* From connection to disconnection a descriptor denotes one connection.
OwnDescriptor ==
    /\ \A c \in Client : Live(c) => fd[c] \in Descriptor /\ conn[fd[c]] = c
    /\ \A d \in Descriptor : conn[d] # Nobody => Live(conn[d]) /\ fd[conn[d]] = d

\* The inductive invariant.
IInv ==
    /\ TypeOK /\ Contiguous /\ UniqueNames
    /\ MembersAreJoined /\ Unreached /\ OwnDescriptor

\* "Envoie un message a tous les utilisateurs d'un channel": a message that is
\* sent to a channel reaches every member that is connected, but its sender.
EveryMemberHears ==
    \A i \in 1 .. num : channels[i].name = heard.name =>
        \A c \in Members(i) : Live(c) /\ c # heard.from => c \in heard.by

\* After a load that fitted, the channels whose names fit implement the
\* abstract directory of channels.
Roster(n) == {c \in Client : \E i \in 1 .. num : channels[i].name = n /\ c \in Members(i)}
Listed == IF clean THEN Existing \ Long ELSE {}
Directory == INSTANCE ChannelDirectory WITH dir <- [n \in Listed |-> Roster(n)]
ImplementsDirectory == Directory!Spec
-------------------------------------------------------------------------------
(* What comments say, and the code does not do.                            *)

\* "1 si le channel a ete cree avec succes": a creation that is answered with
\* "channel cree" has put the channel in the table.
CreatedExists == reply.kind = "created" => reply.name \in Existing

\* "You are not in this channel": only connections that joined a channel take
\* part in it, so nobody else hears its messages.
OnlyMembersHear ==
    \A i \in 1 .. num : channels[i].name = heard.name => heard.by \subseteq Members(i)
===============================================================================
