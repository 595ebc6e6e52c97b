---------------------------- MODULE Channels_proofs ---------------------------
(***************************************************************************)
(* Proofs that the table of channels stays what its functions rely on, for *)
(* any number of connections, pseudos, names, descriptors and slots.       *)
(***************************************************************************)
EXTENDS Channels, FiniteSetTheorems, TLAPS

LEMMA Constants == MaxClients \in Nat \ {0} /\ MaxChannels = MaxClients
BY ChannelsAssumption DEF ChannelsAssumption

LEMMA EmptyTypes == Zero \in Slot /\ Blank \in Channel
BY Constants DEF Zero, Slot, Blank, Channel, Position

\* join_channel's copy fits the entry.
LEMMA AddMemberType ==
    ASSUME NEW ch \in Channel, NEW c \in Client, fd[c] \in Descriptor \cup {Stray},
           ch.users # MaxClients
    PROVE  /\ AddMember(ch, c) \in Channel
           /\ AddMember(ch, c).name = ch.name
           /\ AddMember(ch, c).users = ch.users + 1
           /\ ch.users + 1 \in Position
           /\ AddMember(ch, c).clients =
                [ch.clients EXCEPT ![ch.users + 1] = [fd |-> fd[c], who |-> c]]
<1>1. ch.users + 1 \in Position
  BY Constants DEF Channel, Position
<1>2. [fd |-> fd[c], who |-> c] \in Slot
  BY DEF Slot
<1>3. AddMember(ch, c) = [name |-> ch.name,
                          clients |-> [ch.clients EXCEPT ![ch.users + 1] = [fd |-> fd[c], who |-> c]],
                          users |-> ch.users + 1]
  BY DEF AddMember
<1>4. [ch.clients EXCEPT ![ch.users + 1] = [fd |-> fd[c], who |-> c]] \in [Position -> Slot]
  BY <1>2 DEF Channel
<1> QED
  BY <1>1, <1>3, <1>4, Constants DEF Channel, Position

\* quit_channel closes the gap: the slots before j stay, those behind it move.
LEMMA DropMemberType ==
    ASSUME NEW ch \in Channel, NEW j \in 1 .. ch.users
    PROVE  /\ DropMember(ch, j) \in Channel
           /\ DropMember(ch, j).name = ch.name
           /\ DropMember(ch, j).users = ch.users - 1
           /\ \A k \in 1 .. ch.users - 1 :
                 DropMember(ch, j).clients[k] = ch.clients[IF k < j THEN k ELSE k + 1]
<1> DEFINE cs == [k \in Position |-> IF k \in j .. ch.users - 1 THEN ch.clients[k + 1]
                                     ELSE IF k = ch.users THEN Zero ELSE ch.clients[k]]
<1>1. ch.users \in 0 .. MaxClients /\ ch.clients \in [Position -> Slot] /\ ch.name \in ChannelName \cup {NoName}
  BY DEF Channel
<1>2. cs \in [Position -> Slot]
  BY <1>1, Constants, EmptyTypes DEF Position
<1>3. DropMember(ch, j) = [name |-> ch.name, clients |-> cs, users |-> ch.users - 1]
  BY DEF DropMember
<1>4. \A k \in 1 .. ch.users - 1 : cs[k] = ch.clients[IF k < j THEN k ELSE k + 1]
  BY <1>1, Constants DEF Position
<1> HIDE DEF cs
<1>5. ch.users - 1 \in 0 .. MaxClients
  BY <1>1, Constants
<1> QED
  BY <1>1, <1>2, <1>3, <1>4, <1>5 DEF Channel

\* delete_channel closes the gap in the table.
LEMMA DropChannelType ==
    ASSUME TypeOK, NEW i \in 1 .. num
    PROVE  /\ DropChannel(i) \in [1 .. MaxChannels -> Channel]
           /\ num - 1 \in 0 .. MaxChannels
           /\ \A k \in 1 .. num - 1 : DropChannel(i)[k] = channels[IF k < i THEN k ELSE k + 1]
           /\ \A k \in num .. MaxChannels :
                 DropChannel(i)[k] = IF k = num THEN Blank ELSE channels[k]
<1>1. num \in 0 .. MaxChannels /\ channels \in [1 .. MaxChannels -> Channel] /\ MaxChannels \in Nat
  BY Constants DEF TypeOK
<1> QED
  BY <1>1, EmptyTypes DEF DropChannel
-------------------------------------------------------------------------------
(* What each operation does to the table.                                  *)

\* n is what the new entry reads as.
Added(i, n, g) ==
    /\ FirstFree(i) /\ i \in 1 .. MaxChannels
    /\ n \in ChannelName /\ (n \in Long \/ ~Duplicate(n))
    /\ g \in Garbage
    /\ channels' = [channels EXCEPT ![i] = NewChannel(n, g)]
    /\ num' = num + 1

Joined(i, c) ==
    /\ i \in 1 .. num /\ channels[i].users # MaxClients /\ MatchesNone(channels[i], c)
    /\ At(c, "cmd")
    /\ channels' = [channels EXCEPT ![i] = AddMember(channels[i], c)] /\ num' = num

Dropped(i, j) ==
    /\ i \in 1 .. num /\ j \in 1 .. channels[i].users
    /\ channels' = [channels EXCEPT ![i] = DropMember(channels[i], j)] /\ num' = num

Deleted(i) == i \in 1 .. num /\ channels' = DropChannel(i) /\ num' = num - 1

\* A step of Next does one of these to the table, and either leaves the
\* connections alone or is Connect or Disconnect.
LEMMA Steps ==
    ASSUME TypeOK, Next
    PROVE  /\ \/ UNCHANGED table
              \/ /\ UNCHANGED connections
                 /\ \A c \in Client : At(c, "away") <=> At(c, "away")'
                 /\ \/ \E i \in 1 .. MaxChannels, n \in ChannelName, g \in Garbage : Added(i, n, g)
                    \/ \E i \in 1 .. num, c \in Client : Joined(i, c)
                    \/ \E i \in 1 .. num : \E j \in 1 .. channels[i].users : Dropped(i, j)
                    \/ \E i \in 1 .. num : Deleted(i)
           /\ \/ UNCHANGED connections /\ \A c \in Client : /\ Live(c) <=> Live(c)'
                                                            /\ At(c, "away") <=> At(c, "away")'
              \/ \E c \in Client : Connect(c) \/ Disconnect(c)
<1> SUFFICES ASSUME NEW c \in Client, Connect(c) \/ Disconnect(c) \/ Command(c)
             PROVE  /\ \/ UNCHANGED table
                       \/ /\ UNCHANGED connections
                          /\ \A x \in Client : At(x, "away") <=> At(x, "away")'
                          /\ \/ \E i \in 1 .. MaxChannels, n \in ChannelName, g \in Garbage : Added(i, n, g)
                             \/ \E i \in 1 .. num, x \in Client : Joined(i, x)
                             \/ \E i \in 1 .. num : \E j \in 1 .. channels[i].users : Dropped(i, j)
                             \/ \E i \in 1 .. num : Deleted(i)
                    /\ \/ UNCHANGED connections /\ \A x \in Client : /\ Live(x) <=> Live(x)'
                                                                     /\ At(x, "away") <=> At(x, "away")'
                       \/ \E x \in Client : Connect(x) \/ Disconnect(x)
  BY DEF Next
<1> USE DEF TypeOK, At, Go, Live
<1>1. CASE Connect(c) \/ Disconnect(c)
  BY <1>1 DEF Connect, Disconnect, table
<1>2. ASSUME NEW n \in ChannelName, CreateFull(c, n) \/ CreateTested(c, n) \/ SendToChannel(c, n)
      PROVE  /\ UNCHANGED table /\ UNCHANGED connections
             /\ \A x \in Client : (Live(x) <=> Live(x)') /\ (At(x, "away") <=> At(x, "away")')
  BY <1>2 DEF CreateFull, CreateTested, SendToChannel, table, connections
<1>3. CASE CreateLocked(c)
  <2>1. UNCHANGED connections /\ \A x \in Client : (Live(x) <=> Live(x)') /\ (At(x, "away") <=> At(x, "away")')
    BY <1>3 DEF CreateLocked
  <2>2. want[c] \in ChannelName
    BY <1>3 DEF CreateLocked
  <2>3. ASSUME ~UNCHANGED table
        PROVE  \E i \in 1 .. MaxChannels, n \in ChannelName, g \in Garbage : Added(i, n, g)
    <3>1. PICK i \in 1 .. MaxChannels, g \in Garbage, r \in Stored(want[c]) :
            /\ FirstFree(i) /\ ~Duplicate(want[c])
            /\ channels' = [channels EXCEPT ![i] = NewChannel(r, g)]
            /\ num' = num + 1
      BY <1>3, <2>3 DEF CreateLocked, table
    <3>2. r \in ChannelName /\ (r \in Long \/ r = want[c])
      BY <2>2, <3>1, ChannelsAssumption DEF Stored, ChannelsAssumption
    <3> QED
      BY <3>1, <3>2 DEF Added
  <2> QED
    BY <2>1, <2>3
<1>4. ASSUME NEW n \in ChannelName \cup {NoName}, JoinChannel(c, n)
      PROVE  /\ UNCHANGED connections
             /\ \A x \in Client : (Live(x) <=> Live(x)') /\ (At(x, "away") <=> At(x, "away")')
             /\ UNCHANGED table \/ \E i \in 1 .. num : Joined(i, c)
  BY <1>4 DEF JoinChannel, Joined, Found, table
<1>5. ASSUME NEW n \in ChannelName \cup {NoName}, QuitChannel(c, n)
      PROVE  /\ UNCHANGED connections
             /\ \A x \in Client : (Live(x) <=> Live(x)') /\ (At(x, "away") <=> At(x, "away")')
             /\ UNCHANGED table \/ \E i \in 1 .. num : \E j \in 1 .. channels[i].users : Dropped(i, j)
  BY <1>5 DEF QuitChannel, Dropped, Found, Matches, table
<1>6. ASSUME NEW n \in ChannelName \cup {NoName}, DeleteChannel(c, n)
      PROVE  /\ UNCHANGED connections
             /\ \A x \in Client : (Live(x) <=> Live(x)') /\ (At(x, "away") <=> At(x, "away")')
             /\ UNCHANGED table \/ \E i \in 1 .. num : Deleted(i)
  BY <1>6 DEF DeleteChannel, Deleted, Found
<1> QED
  BY <1>1, <1>2, <1>3, <1>4, <1>5, <1>6 DEF Command
-------------------------------------------------------------------------------
(* The invariants, one lemma each.                                         *)

LEMMA InitTable ==
    ASSUME Init
    PROVE  /\ num \in 0 .. MaxChannels /\ MaxChannels \in Nat
           /\ channels \in [1 .. MaxChannels -> Channel] /\ clean \in BOOLEAN
           /\ \A i \in 1 .. MaxChannels : channels[i].users = 0
           /\ Contiguous /\ UniqueNames
<1>0. PICK named \in {num} \cup {k \in 1 .. MaxChannels : k = num + 1} :
        \E names \in [1 .. named -> ChannelName \ Long] :
        /\ channels = [i \in 1 .. MaxChannels |->
                         IF i <= named THEN [Blank EXCEPT !.name = names[i]] ELSE Blank]
        /\ clean = (/\ named = num
                    /\ \A i, j \in 1 .. num : names[i] = names[j] => i = j)
  BY DEF Init
<1>1. PICK names \in [1 .. named -> ChannelName \ Long] :
        /\ channels = [i \in 1 .. MaxChannels |->
                         IF i <= named THEN [Blank EXCEPT !.name = names[i]] ELSE Blank]
        /\ clean = (/\ named = num
                    /\ \A i, j \in 1 .. num : names[i] = names[j] => i = j)
  BY <1>0
<1>2. num \in 0 .. MaxChannels /\ MaxChannels \in Nat
  BY Constants DEF Init
<1>3. named \in 0 .. MaxChannels /\ num <= named
  BY <1>2
<1>4. \A i \in 1 .. named : /\ [Blank EXCEPT !.name = names[i]] \in Channel
                            /\ [Blank EXCEPT !.name = names[i]].name = names[i]
                            /\ [Blank EXCEPT !.name = names[i]].users = 0
  BY EmptyTypes DEF Blank, Channel
<1>5. \A i \in 1 .. named : i \in 1 .. MaxChannels /\ channels[i] = [Blank EXCEPT !.name = names[i]]
  <2>1. \A i \in 1 .. named : i \in 1 .. MaxChannels /\ i <= named
    BY <1>2, <1>3
  <2> QED
    BY <1>1, <2>1
<1>6. \A i \in 1 .. MaxChannels : i \notin 1 .. named => channels[i] = Blank
  BY <1>1, <1>2, <1>3
<1>7. channels \in [1 .. MaxChannels -> Channel]
  BY <1>1, <1>3, <1>4, EmptyTypes
<1>8. \A i \in 1 .. MaxChannels : channels[i].users = 0
  <2>1. \A i \in 1 .. named : channels[i].users = 0
    BY <1>4, <1>5
  <2>2. \A i \in 1 .. MaxChannels : i \notin 1 .. named => channels[i].users = 0
    BY <1>6 DEF Blank
  <2> QED
    BY <2>1, <2>2
<1>9. Contiguous
  <2>1. \A i \in 1 .. named : names[i] # NoName
    BY ChannelsAssumption DEF ChannelsAssumption
  <2>2. \A i \in 1 .. num : channels[i].name # NoName
    <3>1. \A i \in 1 .. named : channels[i].name = names[i]
      BY <1>4, <1>5
    <3> QED
      BY <1>2, <1>3, <2>1, <3>1
  <2>3. \A i \in 1 .. MaxChannels : channels[i].name # NoName => i <= named
    BY <1>3, <1>6 DEF Blank
  <2>4. clean => named = num
    BY <1>1
  <2> QED
    BY <2>2, <2>3, <2>4 DEF Contiguous
<1>10. UniqueNames
  <2>1. \A i \in 1 .. num : channels[i].name = names[i]
    <3>1. \A i \in 1 .. named : channels[i].name = names[i]
      BY <1>4, <1>5
    <3> QED
      BY <1>2, <1>3, <3>1
  <2> QED
    BY <1>1, <2>1 DEF UniqueNames
<1> QED
  BY <1>1, <1>2, <1>7, <1>8, <1>9, <1>10

LEMMA InitInv == Init => IInv /\ EveryMemberHears
<1> SUFFICES ASSUME Init PROVE IInv /\ EveryMemberHears
  OBVIOUS
<1>1. num \in 0 .. MaxChannels /\ MaxChannels \in Nat /\ \A i \in 1 .. num : channels[i].users = 0
  BY InitTable
<1>2. TypeOK
  BY InitTable DEF Init, TypeOK, NoReply, NotHeard, At
<1>3. MembersAreJoined
  BY <1>1 DEF MembersAreJoined
<1>4. Unreached
  BY InitTable DEF Unreached
<1>5. OwnDescriptor
  BY DEF Init, OwnDescriptor, Live
<1>6. EveryMemberHears
  BY <1>1 DEF EveryMemberHears, Members
<1> QED
  BY <1>2, <1>3, <1>4, <1>5, <1>6, InitTable DEF IInv

\* The table stays in the array.
LEMMA NextTable ==
    ASSUME IInv, Next
    PROVE  channels' \in [1 .. MaxChannels -> Channel] /\ num' \in 0 .. MaxChannels
<1> USE DEF IInv, TypeOK
<1>1. CASE UNCHANGED table
  BY <1>1 DEF table
<1>2. ASSUME NEW i \in 1 .. MaxChannels, NEW n \in ChannelName, NEW g \in Garbage, Added(i, n, g)
      PROVE  channels' \in [1 .. MaxChannels -> Channel] /\ num' \in 0 .. MaxChannels
  <2>1. NewChannel(n, g) \in Channel
    BY Constants, ChannelsAssumption, <1>2
       DEF NewChannel, Garbage, Channel, Slot, ChannelsAssumption
  <2>2. num # MaxChannels
    BY <1>2, Constants DEF Added, FirstFree, Contiguous
  <2> QED
    BY <1>2, <2>1, <2>2, Constants DEF Added
<1>3. ASSUME NEW i \in 1 .. num, NEW c \in Client, Joined(i, c)
      PROVE  channels' \in [1 .. MaxChannels -> Channel] /\ num' \in 0 .. MaxChannels
  <2>1. channels[i] \in Channel
    BY Constants
  <2>2. AddMember(channels[i], c) \in Channel
    BY <1>3, <2>1, AddMemberType DEF Joined
  <2> QED
    BY <1>3, <2>2 DEF Joined
<1>4. ASSUME NEW i \in 1 .. num, NEW j \in 1 .. channels[i].users, Dropped(i, j)
      PROVE  channels' \in [1 .. MaxChannels -> Channel] /\ num' \in 0 .. MaxChannels
  <2>1. channels[i] \in Channel
    BY Constants
  <2>2. DropMember(channels[i], j) \in Channel
    BY <1>4, <2>1, DropMemberType
  <2> QED
    BY <1>4, <2>2 DEF Dropped
<1>5. ASSUME NEW i \in 1 .. num, Deleted(i)
      PROVE  channels' \in [1 .. MaxChannels -> Channel] /\ num' \in 0 .. MaxChannels
  BY <1>5, DropChannelType DEF Deleted
<1> QED
  BY <1>1, <1>2, <1>3, <1>4, <1>5, Steps

LEMMA NextType == ASSUME IInv, Next PROVE TypeOK'
<1> USE DEF IInv, TypeOK, At, Go, Answer, NoReply, NotHeard
<1> DEFINE Replies == [kind : {"none", "created", "exists", "joined", "left", "deleted", "refused"},
                       to : Client \cup {Nobody}, name : ChannelName \cup {NoName}]
           Hearings == [name : ChannelName \cup {NoName}, from : Client \cup {Nobody}, by : SUBSET Client]
<1>1. channels' \in [1 .. MaxChannels -> Channel] /\ num' \in 0 .. MaxChannels
  BY NextTable
<1>0. clean' \in BOOLEAN
  BY DEF Next
<1>2. NoReply \in Replies /\ NotHeard \in Hearings
  OBVIOUS
<1> SUFFICES ASSUME NEW c \in Client, Connect(c) \/ Disconnect(c) \/ Command(c)
             PROVE  TypeOK'
  BY DEF Next
<1>3. CASE Connect(c)
  BY <1>0, <1>1, <1>2, <1>3 DEF Connect
<1>4. CASE Disconnect(c)
  BY <1>0, <1>1, <1>2, <1>4 DEF Disconnect
<1>5. CASE CreateLocked(c)
  BY <1>0, <1>1, <1>2, <1>5 DEF CreateLocked, connections
<1>6. ASSUME NEW n \in ChannelName, CreateFull(c, n) PROVE TypeOK'
  BY <1>0, <1>1, <1>2, <1>6 DEF CreateFull, connections
<1>7. ASSUME NEW n \in ChannelName, CreateTested(c, n) PROVE TypeOK'
  BY <1>0, <1>1, <1>2, <1>7 DEF CreateTested, connections
<1>8. ASSUME NEW n \in ChannelName, SendToChannel(c, n) PROVE TypeOK'
  <2>1. heard' \in Hearings
    BY <1>8 DEF SendToChannel, Recipients
  <2> QED
    BY <1>0, <1>1, <1>2, <1>8, <2>1 DEF SendToChannel, connections
<1>9. ASSUME NEW n \in ChannelName \cup {NoName},
             JoinChannel(c, n) \/ QuitChannel(c, n) \/ DeleteChannel(c, n)
      PROVE  TypeOK'
  BY <1>0, <1>1, <1>2, <1>9 DEF JoinChannel, QuitChannel, DeleteChannel, connections
<1> QED
  BY <1>3, <1>4, <1>5, <1>6, <1>7, <1>8, <1>9 DEF Command

\* The first free entry is behind those in use: the next one, or one behind
\* an entry that a load left uncounted.
LEMMA FreeBehind ==
    ASSUME IInv, NEW i \in 1 .. MaxChannels, FirstFree(i)
    PROVE  /\ i \notin 1 .. num /\ num + 1 \in 1 .. MaxChannels
           /\ i # num + 1 => channels[num + 1].name # NoName
           /\ clean => i = num + 1
<1>1. num \in 0 .. MaxChannels /\ MaxChannels \in Nat
  BY Constants DEF IInv, TypeOK
<1>2. /\ channels[i].name = NoName
      /\ \A j \in 1 .. i - 1 : channels[j].name # NoName
  BY DEF FirstFree
<1>3. i \notin 1 .. num
  BY <1>2 DEF IInv, Contiguous
<1>4. num + 1 \in 1 .. MaxChannels /\ (i # num + 1 => num + 1 \in 1 .. i - 1)
  BY <1>1, <1>3
<1>5. clean => ~(num + 1 <= num) /\ i = num + 1
  <2>1. clean /\ channels[num + 1].name # NoName => num + 1 <= num
    BY <1>4 DEF IInv, Contiguous
  <2> QED
    BY <1>1, <1>2, <1>4, <2>1
<1> QED
  BY <1>2, <1>3, <1>4, <1>5

\* One entry is filled at the end, or the gap of one is closed, or an entry
\* keeps its name.
LEMMA NextNames == ASSUME IInv, Next PROVE Contiguous' /\ UniqueNames'
<1> USE DEF IInv, TypeOK, Contiguous, UniqueNames
<1>0. clean' = clean /\ num \in 0 .. MaxChannels /\ MaxChannels \in Nat
  BY Constants DEF Next
<1>1. CASE UNCHANGED table
  BY <1>0, <1>1 DEF table
<1>2. ASSUME NEW i \in 1 .. MaxChannels, NEW n \in ChannelName, NEW g \in Garbage, Added(i, n, g)
      PROVE  Contiguous' /\ UniqueNames'
  <2>1. /\ i \notin 1 .. num /\ num + 1 \in 1 .. MaxChannels
        /\ i # num + 1 => channels[num + 1].name # NoName
        /\ clean => i = num + 1
    BY <1>2, FreeBehind DEF Added
  <2>2. n # NoName /\ (n \in Long \/ \A k \in 1 .. num : channels[k].name # n)
    BY <1>2, <1>0, Constants, ChannelsAssumption DEF Added, Duplicate, ChannelsAssumption
  <2>3. /\ channels'[i].name = n
        /\ \A k \in 1 .. MaxChannels : k # i => channels'[k] = channels[k]
        /\ num' = num + 1
    BY <1>2 DEF Added, NewChannel
  <2>4. \A k \in 1 .. num + 1 : k \in 1 .. num \/ k = num + 1
    BY <1>0
  <2>5. Contiguous'
    <3>1. \A k \in 1 .. num + 1 : channels'[k].name # NoName
      BY <1>0, <2>1, <2>2, <2>3, <2>4
    <3>2. ASSUME clean, NEW k \in 1 .. MaxChannels, channels'[k].name # NoName
          PROVE  k <= num + 1
      BY <1>0, <2>1, <2>3, <3>2
    <3> QED
      BY <1>0, <2>3, <3>1, <3>2
  <2>6. UniqueNames'
    <3>1. ASSUME clean, NEW j \in 1 .. num + 1, NEW k \in 1 .. num + 1,
                 channels'[j].name = channels'[k].name, j # k
          PROVE  channels'[j].name \in Long
      <4>1. \A l \in 1 .. num + 1 : channels'[l].name = IF l = num + 1 THEN n ELSE channels[l].name
        <5>1. channels'[num + 1].name = n
          BY <2>1, <2>3, <3>1
        <5>2. \A l \in 1 .. num : l # num + 1 /\ l # i /\ l \in 1 .. MaxChannels
          BY <1>0, <2>1
        <5>3. \A l \in 1 .. num : channels'[l].name = channels[l].name
          BY <2>3, <5>2
        <5> QED
          BY <2>4, <5>1, <5>2, <5>3
      <4>2. CASE j = num + 1 \/ k = num + 1
        BY <2>2, <2>4, <3>1, <4>1, <4>2
      <4>3. CASE j \in 1 .. num /\ k \in 1 .. num
        <5>1. j # num + 1 /\ k # num + 1
          BY <1>0, <4>3
        <5> QED
          BY <3>1, <4>1, <4>3, <5>1
      <4> QED
        BY <2>4, <4>2, <4>3
    <3> QED
      BY <1>0, <2>3, <3>1
  <2> QED
    BY <2>5, <2>6
<1>3. ASSUME NEW i \in 1 .. num, NEW c \in Client, Joined(i, c)
      PROVE  Contiguous' /\ UniqueNames'
  <2>1. /\ num' = num
        /\ \A k \in 1 .. MaxChannels : channels'[k].name = channels[k].name
    BY <1>3, Constants DEF Joined, AddMember
  <2>2. 1 .. num \subseteq 1 .. MaxChannels
    BY Constants
  <2>3. Contiguous'
    BY <1>0, <2>1, <2>2
  <2>4. UniqueNames'
    BY <1>0, <2>1, <2>2
  <2> QED
    BY <2>3, <2>4
<1>4. ASSUME NEW i \in 1 .. num, NEW j \in 1 .. channels[i].users, Dropped(i, j)
      PROVE  Contiguous' /\ UniqueNames'
  <2>1. /\ num' = num
        /\ \A k \in 1 .. MaxChannels : channels'[k].name = channels[k].name
    BY <1>4, Constants DEF Dropped, DropMember
  <2>2. 1 .. num \subseteq 1 .. MaxChannels
    BY Constants
  <2>3. Contiguous'
    BY <1>0, <2>1, <2>2
  <2>4. UniqueNames'
    BY <1>0, <2>1, <2>2
  <2> QED
    BY <2>3, <2>4
<1>5. ASSUME NEW i \in 1 .. num, Deleted(i)
      PROVE  Contiguous' /\ UniqueNames'
  <2>1. /\ num' = num - 1 /\ MaxChannels \in Nat
        /\ \A k \in 1 .. num - 1 : channels'[k] = channels[IF k < i THEN k ELSE k + 1]
        /\ \A k \in num .. MaxChannels : channels'[k] = IF k = num THEN Blank ELSE channels[k]
    BY <1>5, DropChannelType, Constants DEF Deleted
  <2>2. Blank.name = NoName
    BY DEF Blank
  <2>3. \A k \in 1 .. num - 1 : channels'[k].name # NoName
    BY <2>1
  <2>4. ASSUME NEW k \in num + 1 .. MaxChannels, clean PROVE channels[k].name = NoName
    BY <1>0, <2>4
  <2>5. \A k \in num .. MaxChannels : clean => channels'[k].name = NoName
    BY <1>0, <2>1, <2>2, <2>4
  <2>6. UniqueNames'
    <3>1. \A k \in 1 .. num - 1 : (IF k < i THEN k ELSE k + 1) \in 1 .. num
      BY <1>0
    <3>2. \A j, k \in 1 .. num - 1 :
             (IF j < i THEN j ELSE j + 1) = (IF k < i THEN k ELSE k + 1) => j = k
      BY <1>0
    <3> QED
      BY <1>0, <2>1, <3>1, <3>2
  <2>7. Contiguous'
    BY <1>0, <2>1, <2>3, <2>5
  <2> QED
    BY <2>6, <2>7
<1> QED
  BY <1>1, <1>2, <1>3, <1>4, <1>5, Steps

LEMMA NextDescriptor == ASSUME IInv, Next PROVE OwnDescriptor'
<1> USE DEF IInv, TypeOK, OwnDescriptor, Live, At, Go
<1>1. CASE UNCHANGED connections /\ \A c \in Client : Live(c) <=> Live(c)'
  <2>1. \A d \in Descriptor : conn[d] \in Client \cup {Nobody}
    OBVIOUS
  <2>2. fd' = fd /\ conn' = conn
    BY <1>1 DEF connections
  <2> HIDE DEF Live
  <2> QED
    BY <1>1, <2>1, <2>2
<1>2. ASSUME NEW c \in Client, Connect(c) PROVE OwnDescriptor'
  BY <1>2, ChannelsAssumption DEF Connect, ChannelsAssumption
<1>3. ASSUME NEW c \in Client, Disconnect(c) PROVE OwnDescriptor'
  BY <1>3, ChannelsAssumption DEF Disconnect, ChannelsAssumption
<1> QED
  BY <1>1, <1>2, <1>3, Steps

\* A connection keeps its descriptor number, even after it is closed.
LEMMA DescriptorKept ==
    ASSUME IInv, Next, NEW c \in Client, ~At(c, "away")
    PROVE  ~At(c, "away")' /\ fd'[c] = fd[c]
<1> USE DEF IInv, TypeOK, At, Go
<1>1. CASE UNCHANGED connections /\ \A x \in Client : At(x, "away") <=> At(x, "away")'
  BY <1>1 DEF connections
<1>2. ASSUME NEW x \in Client, Connect(x) \/ Disconnect(x)
      PROVE  ~At(c, "away")' /\ fd'[c] = fd[c]
  BY <1>2 DEF Connect, Disconnect
<1> QED
  BY <1>1, <1>2, Steps

\* What MembersAreJoined says of one entry, given the descriptors f.
Sound(ch, f) ==
    /\ \A k \in 1 .. ch.users : /\ ch.clients[k].who \in Client
                               /\ ch.clients[k].fd = f[ch.clients[k].who]
    /\ \A j, k \in 1 .. ch.users : ch.clients[j].who = ch.clients[k].who => j = k

\* A join puts the connection behind the members, where it was not yet: the
\* comparison with its own live pseudo would have found it.
LEMMA JoinSound ==
    ASSUME IInv, NEW i \in 1 .. num, NEW c \in Client, Joined(i, c)
    PROVE  LET ch == AddMember(channels[i], c)
           IN  Sound(ch, fd) /\ \A k \in 1 .. ch.users : ~At(ch.clients[k].who, "away")
<1> DEFINE old == channels[i]
           ch == AddMember(old, c)
<1>1. old \in Channel /\ i \in 1 .. MaxChannels
  BY Constants DEF IInv, TypeOK
<1>2. /\ old.users \in 0 .. MaxClients
      /\ ch.users = old.users + 1 /\ ch.users \in Position
      /\ old.clients \in [Position -> Slot]
      /\ ch.clients = [old.clients EXCEPT ![ch.users] = [fd |-> fd[c], who |-> c]]
  <2>1. old.users # MaxClients /\ fd[c] \in Descriptor \cup {Stray}
    BY DEF Joined, IInv, TypeOK
  <2>2. old.users \in 0 .. MaxClients /\ old.clients \in [Position -> Slot]
    BY <1>1 DEF Channel
  <2> HIDE DEF old
  <2>3. /\ ch.users = old.users + 1 /\ old.users + 1 \in Position
        /\ ch.clients = [old.clients EXCEPT ![old.users + 1] = [fd |-> fd[c], who |-> c]]
    BY <1>1, <2>1, AddMemberType
  <2> QED
    BY <2>2, <2>3
<1>3. /\ Sound(old, fd)
      /\ \A k \in 1 .. old.users : ~At(old.clients[k].who, "away")
  BY DEF IInv, MembersAreJoined, Sound
<1>4. \A k \in 1 .. old.users : old.clients[k].who # c
  <2> SUFFICES ASSUME NEW k \in 1 .. old.users, old.clients[k].who = c PROVE FALSE
    OBVIOUS
  <2>1. FALSE \in Same(old.clients[k], c)
    BY DEF Joined, MatchesNone
  <2>2. Live(c)
    BY DEF Joined, At, Live
  <2>3. Same(old.clients[k], c) = {pseudo[c] = pseudo[c]}
    BY <2>2 DEF Same
  <2> QED
    BY <2>1, <2>3
<1>5. ~At(c, "away")
  BY DEF Joined, At
<1>6. \A k \in 1 .. ch.users :
         ch.clients[k] = IF k = ch.users THEN [fd |-> fd[c], who |-> c] ELSE old.clients[k]
  <2> HIDE DEF ch, old
  <2>1. \A k \in 1 .. ch.users : k \in Position
    BY <1>2, Constants DEF Position
  <2> QED
    BY <1>2, <2>1
<1> HIDE DEF ch, old
<1>7. \A k \in 1 .. ch.users : k # ch.users => k \in 1 .. old.users
  BY <1>2
<1> QED
  BY <1>3, <1>4, <1>5, <1>6, <1>7 DEF ch, old, Sound

LEMMA DropSound ==
    ASSUME IInv, NEW i \in 1 .. num, NEW j \in 1 .. channels[i].users
    PROVE  LET ch == DropMember(channels[i], j)
           IN  Sound(ch, fd) /\ \A k \in 1 .. ch.users : ~At(ch.clients[k].who, "away")
<1> DEFINE old == channels[i]
           ch == DropMember(old, j)
<1>1. old \in Channel
  BY Constants DEF IInv, TypeOK
<1>2. /\ old.users \in 0 .. MaxClients
      /\ ch.users = old.users - 1
      /\ \A k \in 1 .. old.users - 1 : ch.clients[k] = old.clients[IF k < j THEN k ELSE k + 1]
  BY <1>1, DropMemberType DEF Channel
<1>3. /\ Sound(old, fd)
      /\ \A k \in 1 .. old.users : ~At(old.clients[k].who, "away")
  BY DEF IInv, MembersAreJoined, Sound
<1> HIDE DEF ch
<1>4. \A k \in 1 .. ch.users : (IF k < j THEN k ELSE k + 1) \in 1 .. old.users
  BY <1>2, Constants
<1>5. \A k, l \in 1 .. ch.users : (IF k < j THEN k ELSE k + 1) = (IF l < j THEN l ELSE l + 1) => k = l
  BY <1>2, Constants
<1>6. \A k \in 1 .. ch.users : ch.clients[k] = old.clients[IF k < j THEN k ELSE k + 1]
  BY <1>2
<1> HIDE DEF old
<1> QED
  BY <1>3, <1>4, <1>5, <1>6 DEF Sound, ch, old

LEMMA NextMembers == ASSUME IInv, Next PROVE MembersAreJoined'
<1>1. \A i \in 1 .. num : /\ Sound(channels[i], fd)
                          /\ \A k \in 1 .. channels[i].users : ~At(channels[i].clients[k].who, "away")
  BY DEF IInv, MembersAreJoined, Sound
<1>2. SUFFICES \A i \in 1 .. num' :
         /\ Sound(channels'[i], fd)
         /\ \A k \in 1 .. channels'[i].users : ~At(channels'[i].clients[k].who, "away")
  <2>1. \A c \in Client : ~At(c, "away") => ~At(c, "away")' /\ fd'[c] = fd[c]
    BY DescriptorKept
  <2> QED
    BY <2>1, <1>2 DEF MembersAreJoined, Sound
<1>3. num \in 0 .. MaxChannels /\ MaxChannels \in Nat /\ channels \in [1 .. MaxChannels -> Channel]
  BY Constants DEF IInv, TypeOK
<1>4. CASE UNCHANGED table
  BY <1>1, <1>4 DEF table
<1>5. ASSUME NEW i \in 1 .. MaxChannels, NEW n \in ChannelName, NEW g \in Garbage, Added(i, n, g)
      PROVE  \A k \in 1 .. num' :
                /\ Sound(channels'[k], fd)
                /\ \A l \in 1 .. channels'[k].users : ~At(channels'[k].clients[l].who, "away")
  <2>1. i \notin 1 .. num /\ num + 1 \in 1 .. MaxChannels
    BY <1>5, FreeBehind DEF Added
  <2>2. channels[num + 1].users = 0
    BY <1>3, <2>1 DEF IInv, Unreached
  <2>3. channels'[num + 1].users = 0 /\ \A k \in 1 .. num : channels'[k] = channels[k]
    BY <1>3, <1>5, <2>1, <2>2 DEF Added, NewChannel
  <2>4. Sound(channels'[num + 1], fd)
    BY <2>3 DEF Sound
  <2>5. num' = num + 1
    BY <1>5 DEF Added
  <2> QED
    BY <1>1, <1>3, <2>3, <2>4, <2>5
<1>6. ASSUME NEW i \in 1 .. num, NEW c \in Client, Joined(i, c)
      PROVE  \A k \in 1 .. num' :
                /\ Sound(channels'[k], fd)
                /\ \A l \in 1 .. channels'[k].users : ~At(channels'[k].clients[l].who, "away")
  <2>1. num' = num /\ \A k \in 1 .. num :
           channels'[k] = IF k = i THEN AddMember(channels[i], c) ELSE channels[k]
    BY <1>3, <1>6 DEF Joined
  <2> QED
    BY <1>1, <1>6, <2>1, JoinSound
<1>7. ASSUME NEW i \in 1 .. num, NEW j \in 1 .. channels[i].users, Dropped(i, j)
      PROVE  \A k \in 1 .. num' :
                /\ Sound(channels'[k], fd)
                /\ \A l \in 1 .. channels'[k].users : ~At(channels'[k].clients[l].who, "away")
  <2>1. num' = num /\ \A k \in 1 .. num :
           channels'[k] = IF k = i THEN DropMember(channels[i], j) ELSE channels[k]
    BY <1>3, <1>7 DEF Dropped
  <2> QED
    BY <1>1, <1>7, <2>1, DropSound
<1>8. ASSUME NEW i \in 1 .. num, Deleted(i)
      PROVE  \A k \in 1 .. num' :
                /\ Sound(channels'[k], fd)
                /\ \A l \in 1 .. channels'[k].users : ~At(channels'[k].clients[l].who, "away")
  <2>1. num' = num - 1 /\ \A k \in 1 .. num - 1 : channels'[k] = channels[IF k < i THEN k ELSE k + 1]
    BY <1>8, DropChannelType DEF Deleted, IInv
  <2>2. \A k \in 1 .. num - 1 : (IF k < i THEN k ELSE k + 1) \in 1 .. num
    BY <1>3
  <2> QED
    BY <1>1, <2>1, <2>2
<1> QED
  BY <1>4, <1>5, <1>6, <1>7, <1>8, Steps DEF IInv

\* The entries that are counted next have no members yet.
LEMMA NextUnreached == ASSUME IInv, Next PROVE Unreached'
<1>1. num \in 0 .. MaxChannels /\ MaxChannels \in Nat /\ channels \in [1 .. MaxChannels -> Channel]
  BY Constants DEF IInv, TypeOK
<1>2. \A k \in 1 .. MaxChannels : k > num => channels[k].users = 0
  BY <1>1 DEF IInv, Unreached
<1>3. CASE UNCHANGED table
  BY <1>1, <1>2, <1>3 DEF table, Unreached
<1>4. ASSUME NEW i \in 1 .. MaxChannels, NEW n \in ChannelName, NEW g \in Garbage, Added(i, n, g)
      PROVE  Unreached'
  <2>1. num' = num + 1 /\ channels'[i].users = 0 /\ \A k \in 1 .. MaxChannels : k # i => channels'[k] = channels[k]
    BY <1>1, <1>4 DEF Added, NewChannel
  <2> QED
    BY <1>1, <1>2, <2>1 DEF Unreached
<1>5. ASSUME NEW i \in 1 .. num, \E c \in Client : Joined(i, c)
      PROVE  Unreached'
  BY <1>1, <1>2, <1>5 DEF Joined, Unreached
<1>6. ASSUME NEW i \in 1 .. num, \E j \in 1 .. channels[i].users : Dropped(i, j)
      PROVE  Unreached'
  BY <1>1, <1>2, <1>6 DEF Dropped, Unreached
<1>7. ASSUME NEW i \in 1 .. num, Deleted(i)
      PROVE  Unreached'
  <2>1. num' = num - 1 /\ \A k \in num .. MaxChannels : channels'[k] = IF k = num THEN Blank ELSE channels[k]
    BY <1>7, DropChannelType DEF Deleted, IInv
  <2>2. \A k \in num .. MaxChannels : channels'[k].users = 0
    BY <1>1, <1>2, <2>1 DEF Blank
  <2> QED
    BY <1>1, <2>1, <2>2 DEF Unreached
<1> QED
  BY <1>3, <1>4, <1>5, <1>6, <1>7, Steps DEF IInv

\* Whatever slots an entry has besides its members', a connected member is in
\* one whose descriptor is still its own, and not the sender's.
LEMMA NextHears == ASSUME IInv, Contiguous', Next PROVE EveryMemberHears'
<1> USE DEF IInv, TypeOK
<1>1. CASE heard' = NotHeard
  <2>1. \A i \in 1 .. num' : channels'[i].name # NoName
    BY <1>1, NextTable, Constants DEF Contiguous
  <2> QED
    BY <1>1, <2>1 DEF EveryMemberHears, NotHeard
<1>2. ASSUME NEW c \in Client, NEW n \in ChannelName, SendToChannel(c, n)
      PROVE  EveryMemberHears'
  <2>1. heard' = [name |-> n, from |-> c,
                  by |-> {d \in Client : \E i \in 1 .. MaxChannels :
                            channels[i].name = n /\ d \in Recipients(channels[i], c)}]
    BY <1>2 DEF SendToChannel
  <2>2. 1 .. num \subseteq 1 .. MaxChannels
    BY Constants
  <2>3. /\ channels' = channels /\ num' = num
        /\ \A m \in Client : Live(m)' <=> Live(m)
    BY <1>2 DEF SendToChannel, table, Live
  <2>4. Live(c)
    BY <1>2 DEF SendToChannel, At, Live
  <2>5. ASSUME NEW j \in 1 .. num, NEW m \in Members(j), Live(m), m # c
        PROVE  m \in Recipients(channels[j], c)
    <3>1. PICK k \in 1 .. channels[j].users : channels[j].clients[k].who = m
      BY <2>5 DEF Members
    <3>2. m \in Client /\ channels[j].clients[k].fd = fd[m]
      BY <3>1 DEF MembersAreJoined
    <3>3. fd[m] \in Descriptor /\ conn[fd[m]] = m
      BY <2>5, <3>2 DEF OwnDescriptor
    <3>4. fd[m] # fd[c]
      BY <2>4, <2>5, <3>3 DEF OwnDescriptor
    <3>5. k \in Position
      BY <2>2, <3>1, Constants DEF Position, Channel
    <3>6. m # Nobody
      BY <3>2, ChannelsAssumption DEF ChannelsAssumption
    <3> QED
      BY <3>1, <3>2, <3>3, <3>4, <3>5, <3>6 DEF Recipients
  <2>6. \A i \in 1 .. num : Members(i) \subseteq Client
    BY DEF Members, MembersAreJoined
  <2>7. \A i \in 1 .. num : Members(i)' = Members(i)
    BY <2>3 DEF Members
  <2>8. ASSUME NEW j \in 1 .. num, channels[j].name = n, NEW m \in Members(j), Live(m), m # c
        PROVE  m \in heard'.by
    BY <2>1, <2>2, <2>5, <2>6, <2>8
  <2> QED
    BY <2>1, <2>3, <2>6, <2>7, <2>8 DEF EveryMemberHears
<1>3. \/ heard' = NotHeard
      \/ \E c \in Client, n \in ChannelName : SendToChannel(c, n)
  BY DEF Next, Command, Connect, Disconnect, CreateFull, CreateTested, CreateLocked,
         JoinChannel, QuitChannel, DeleteChannel, Answer
<1> QED
  BY <1>1, <1>2, <1>3

\* The conjuncts of IInv hold each other up: the table is typed because it is
\* contiguous, and the members are told apart because descriptors are.
THEOREM InductiveInvariant == Spec => [](IInv /\ EveryMemberHears)
<1>1. IInv /\ EveryMemberHears /\ [Next]_vars => (IInv /\ EveryMemberHears)'
  <2> SUFFICES ASSUME IInv, EveryMemberHears, [Next]_vars
               PROVE  IInv' /\ EveryMemberHears'
    OBVIOUS
  <2>1. CASE Next
    BY <2>1, NextType, NextNames, NextMembers, NextUnreached, NextDescriptor, NextHears
       DEF IInv
  <2>2. CASE UNCHANGED vars
    BY <2>2 DEF vars, IInv, TypeOK, Contiguous, UniqueNames, MembersAreJoined,
                Unreached, OwnDescriptor, EveryMemberHears, Members, Live, At
  <2> QED
    BY <2>1, <2>2
<1> QED
  BY InitInv, <1>1, PTL DEF Spec

\* Every variable keeps to its type.
THEOREM TypeCorrect == Spec => []TypeOK
BY InductiveInvariant, PTL DEF IInv

\* The first num_channels entries are in use, and after a load that fitted no
\* others are, however creations, deletions and the unlocked test interleave.
THEOREM TableContiguous == Spec => []Contiguous
BY InductiveInvariant, PTL DEF IInv

\* After a load that fitted, no channel is created twice whose name fits in
\* name[50].
THEOREM NamesUnique == Spec => []UniqueNames
BY InductiveInvariant, PTL DEF IInv

\* The members of an entry are connections that joined, each once.
THEOREM MembersCorrect == Spec => []MembersAreJoined
BY InductiveInvariant, PTL DEF IInv

\* A message reaches every connected member.
THEOREM MessagesReachMembers == Spec => []EveryMemberHears
BY InductiveInvariant, PTL
-------------------------------------------------------------------------------
(* The table implements the directory.                                     *)

Dir == [n \in Listed |-> Roster(n)]

\* A sequence of n items has at most n values.
LEMMA ImageSize ==
    ASSUME NEW n \in Nat, NEW f, NEW S, f \in [1 .. n -> S]
    PROVE  /\ IsFiniteSet({f[k] : k \in 1 .. n})
           /\ Cardinality({f[k] : k \in 1 .. n}) <= n
           /\ Cardinality({f[k] : k \in 1 .. n}) \in Nat
<1> DEFINE T == {f[k] : k \in 1 .. n}
<1>1. f \in Surjection(1 .. n, T)
  BY DEF Surjection
<1>2. IsFiniteSet(1 .. n) /\ Cardinality(1 .. n) = n
  BY FS_Interval
<1> QED
  BY <1>1, <1>2, FS_Surjection, FS_CardinalityType

LEMMA Rosters ==
    ASSUME IInv
    PROVE  /\ \A i \in 1 .. num : /\ channels[i].name \in ChannelName
                                  /\ Members(i) \subseteq Client
                                  /\ clean /\ channels[i].name \notin Long =>
                                       Roster(channels[i].name) = Members(i)
           /\ Listed \subseteq ChannelName
           /\ IsFiniteSet(Listed) /\ Cardinality(Listed) <= num /\ Cardinality(Listed) \in Nat
<1> USE DEF IInv, TypeOK
<1>1. \A i \in 1 .. num : channels[i] \in Channel /\ i \in 1 .. MaxChannels
  BY Constants
<1>2. \A i \in 1 .. num : channels[i].name \in ChannelName
  BY <1>1 DEF Channel, Contiguous
<1>3. \A i \in 1 .. num : Members(i) \subseteq Client
  BY DEF Members, MembersAreJoined
<1>4. ASSUME clean, NEW i \in 1 .. num, channels[i].name \notin Long
      PROVE  Roster(channels[i].name) = Members(i)
  <2>1. \A j \in 1 .. num : channels[j].name = channels[i].name => j = i
    BY <1>4 DEF UniqueNames
  <2> QED
    BY <1>3, <2>1 DEF Roster
<1>5. IsFiniteSet(Existing) /\ Cardinality(Existing) <= num
  <2> DEFINE f == [i \in 1 .. num |-> channels[i].name]
  <2>1. f \in [1 .. num -> ChannelName] /\ num \in Nat
    BY <1>2, Constants
  <2>2. Existing = {f[i] : i \in 1 .. num}
    BY DEF Existing
  <2> HIDE DEF f, IInv, TypeOK
  <2> QED
    <3>1. IsFiniteSet({f[i] : i \in 1 .. num}) /\ Cardinality({f[i] : i \in 1 .. num}) <= num
      BY ONLY <2>1, ImageSize
    <3> QED
      BY <2>2, <3>1
<1>6. Listed \subseteq Existing /\ Existing \subseteq ChannelName
  BY <1>2 DEF Listed, Existing
<1>7. IsFiniteSet(Listed) /\ Cardinality(Listed) <= num /\ Cardinality(Listed) \in Nat
  <2>1. IsFiniteSet(Listed) /\ Cardinality(Listed) <= Cardinality(Existing)
    BY <1>5, <1>6, FS_Subset
  <2>2. Cardinality(Listed) \in Nat /\ Cardinality(Existing) \in Nat /\ num \in Nat
    BY <1>5, <2>1, FS_CardinalityType, Constants
  <2> QED
    BY <1>5, <2>1, <2>2
<1> QED
  BY <1>2, <1>3, <1>4, <1>6, <1>7

LEMMA InitDirectory == Init => Directory!Init
<1> SUFFICES ASSUME Init PROVE Directory!Init
  OBVIOUS
<1>1. IInv
  BY InitInv
<1>2. Listed \subseteq ChannelName /\ Cardinality(Listed) <= MaxChannels
  <2>1. num \in 0 .. MaxChannels /\ MaxChannels \in Nat
    BY <1>1, Constants DEF IInv, TypeOK
  <2> QED
    BY <1>1, <2>1, Rosters
<1>3. \A n : Roster(n) = {}
  <2>1. \A i \in 1 .. num : channels[i].users = 0
    BY InitTable
  <2> QED
    BY <2>1 DEF Roster, Members
<1>4. Directory!Cardinality(Listed) = Cardinality(Listed)
  BY DEF Directory!Cardinality, Cardinality
<1> QED
  BY <1>2, <1>3, <1>4 DEF Directory!Init

LEMMA NextDirectory ==
    ASSUME IInv, IInv', Next
    PROVE  [Directory!Next]_Dir
<1>1. num \in 0 .. MaxChannels /\ MaxChannels \in Nat /\ MaxClients \in Nat
  BY Constants DEF IInv, TypeOK
<1>0. clean' = clean
  BY DEF Next
<1> SUFFICES ASSUME clean PROVE [Directory!Next]_Dir
  <2>1. ~clean => Listed = {} /\ Listed' = {}
    BY <1>0 DEF Listed
  <2>2. ~clean => Dir' = Dir
    BY <2>1 DEF Dir
  <2> QED
    BY <2>2
<1>2. /\ \A i \in 1 .. num : /\ channels[i].name \in ChannelName
                             /\ Members(i) \subseteq Client
                             /\ channels[i].name \notin Long => Roster(channels[i].name) = Members(i)
      /\ IsFiniteSet(Listed) /\ Cardinality(Listed) <= num
      /\ Cardinality(Listed) \in Nat
  BY Rosters
<1>3. /\ \A i, j \in 1 .. num : channels[i].name = channels[j].name => i = j \/ channels[i].name \in Long
      /\ MembersAreJoined
  BY DEF IInv, UniqueNames
<1>4. /\ Directory!Cardinality(Listed) = Cardinality(Listed)
      /\ Listed = Existing \ Long /\ Listed' = Existing' \ Long
  BY <1>0 DEF Directory!Cardinality, Cardinality, Listed
<1>5. CASE UNCHANGED table
  <2>1. Existing' = Existing /\ \A n : Roster(n)' = Roster(n)
    BY <1>5 DEF table, Existing, Roster, Members
  <2> QED
    BY <1>4, <2>1 DEF Dir
<1>6. ASSUME NEW i \in 1 .. MaxChannels, NEW n \in ChannelName, NEW g \in Garbage, Added(i, n, g)
      PROVE  IF n \in Long THEN Dir' = Dir ELSE Directory!Create(n)
  <2>1. i = num + 1
    BY <1>6, FreeBehind DEF Added
  <2>2. /\ channels'[i].name = n /\ channels'[i].users = 0
        /\ \A k \in 1 .. num : channels'[k] = channels[k]
        /\ num' = num + 1
    BY <1>1, <1>6, <2>1 DEF Added, NewChannel, IInv, TypeOK
  <2>3. n \in Long \/ n \notin Existing
    BY <1>1, <1>6, Constants DEF Added, Duplicate, Existing
  <2>4. Existing' = Existing \cup {n}
    BY <1>1, <2>1, <2>2 DEF Existing
  <2>5. /\ \A m : m # n => Roster(m)' = Roster(m)
        /\ n \notin Existing => Roster(n)' = {}
    BY <1>1, <2>1, <2>2 DEF Roster, Members, Existing
  <2>6. Cardinality(Listed) < MaxChannels
    BY <1>1, <1>2, <2>1
  <2>7. CASE n \in Long
    <3>1. Listed' = Listed /\ n \notin Listed
      BY <1>4, <2>4, <2>7
    <3> QED
      BY <2>5, <2>7, <3>1 DEF Dir
  <2>8. CASE n \notin Long
    <3>1. Listed' = Listed \cup {n} /\ n \notin Listed
      BY <1>4, <2>3, <2>4, <2>8
    <3>2. Roster(n)' = {} /\ \A m \in Listed : Roster(m)' = Roster(m)
      BY <2>3, <2>5, <2>8, <3>1
    <3>3. Directory!Create(n)
      BY <2>6, <3>1, <3>2, <1>4 DEF Directory!Create, Directory!Existing
    <3> QED
      BY <2>8, <3>3
  <2> QED
    BY <2>7, <2>8
<1>7. ASSUME NEW i \in 1 .. num, NEW c \in Client, Joined(i, c)
      PROVE  IF channels[i].name \in Long THEN Dir' = Dir ELSE Directory!Join(c, channels[i].name)
  <2> DEFINE n == channels[i].name
             ch == channels[i]
  <2>1. ch \in Channel /\ i \in 1 .. MaxChannels
    BY <1>1 DEF IInv, TypeOK
  <2>2. /\ num' = num
        /\ \A k \in 1 .. num : k # i => channels'[k] = channels[k]
        /\ channels'[i] = AddMember(ch, c)
    BY <1>1, <1>7 DEF Joined, IInv, TypeOK
  <2>3. /\ AddMember(ch, c).name = n
        /\ AddMember(ch, c).users = ch.users + 1
        /\ ch.users \in 0 .. MaxClients /\ ch.users # MaxClients
        /\ \A k \in 1 .. ch.users + 1 :
              AddMember(ch, c).clients[k].who = IF k = ch.users + 1 THEN c ELSE ch.clients[k].who
    BY <2>1, <1>1, <1>7 DEF AddMember, Joined, Channel, Position
  <2>4. Existing' = Existing
    BY <2>2, <2>3 DEF Existing
  <2>5. Members(i)' = Members(i) \cup {c} /\ \A k \in 1 .. num : k # i => Members(k)' = Members(k)
    BY <2>2, <2>3, <1>1 DEF Members
  <2>6. c \notin Members(i)
    <3>1. Sound(AddMember(ch, c), fd)
      BY <1>7, JoinSound
    <3> QED
      BY <3>1, <2>3, <1>1 DEF Sound, Members
  <2>7. Cardinality(Members(i)) < MaxClients
    <3> DEFINE f == [k \in 1 .. ch.users |-> ch.clients[k].who]
    <3>1. f \in [1 .. ch.users -> Client] /\ ch.users \in Nat
      BY <1>3, <2>3, <1>1 DEF MembersAreJoined
    <3>2. Members(i) = {f[k] : k \in 1 .. ch.users}
      BY DEF Members
    <3> HIDE DEF f
    <3>3. Cardinality(Members(i)) <= ch.users /\ Cardinality(Members(i)) \in Nat
      BY <3>1, <3>2, ImageSize
    <3> QED
      BY <3>3, <2>3, <1>1
  <2>8. /\ \A m \in Existing : m # n => Roster(m)' = Roster(m)
        /\ n \notin Long => \A m \in Existing : m = n => Roster(m)' = Roster(m) \cup {c}
    <3>1. \A k \in 1 .. num : channels'[k].name = channels[k].name
      BY <2>2, <2>3
    <3>2. \A m \in Existing : m # n => Roster(m)' = Roster(m)
      BY <2>2, <2>5, <3>1 DEF Roster, Existing
    <3>3. n \notin Long => \A k \in 1 .. num : channels[k].name = n => k = i
      BY <1>3
    <3>4. n \notin Long => \A m \in Existing : m = n => Roster(m)' = Roster(m) \cup {c}
      BY <2>2, <2>5, <3>1, <3>3, <1>2 DEF Roster
    <3> QED
      BY <3>2, <3>4, Zenon
  <2>9. n \in Existing /\ (n \notin Long => Roster(n) = Members(i))
    <3>1. n \in Existing
      BY DEF Existing
    <3>2. channels[i].name \notin Long => Roster(channels[i].name) = Members(i)
      BY <1>2, Zenon
    <3> QED
      BY <3>1, <3>2, Zenon
  <2> HIDE DEF n, ch
  <2>10. CASE n \in Long
    <3>1. n \notin Listed /\ Listed' = Listed
      BY <1>4, <2>4, <2>10
    <3> QED
      BY <1>4, <2>8, <2>10, <3>1 DEF Dir, n
  <2>11. CASE n \notin Long
    <3>1. n \in Listed /\ Listed' = Listed /\ Listed \subseteq Existing
      BY <1>4, <2>4, <2>9, <2>11
    <3>2. c \notin Roster(n) /\ Roster(n) = Members(i)
      BY <2>6, <2>9, <2>11
    <3>3. Directory!Cardinality(Roster(n)) = Cardinality(Members(i))
      BY <3>2 DEF Directory!Cardinality, Cardinality
    <3>4. \A m \in Listed : Roster(m)' = IF m = n THEN Roster(m) \cup {c} ELSE Roster(m)
      BY <2>8, <2>11, <3>1, Zenon
    <3>5. Directory!Join(c, n)
      BY <2>7, <3>1, <3>2, <3>3, <3>4 DEF Directory!Join, Directory!Existing
    <3> QED
      BY <2>11, <3>5 DEF n
  <2> QED
    BY <2>10, <2>11
<1>8. ASSUME NEW i \in 1 .. num, NEW j \in 1 .. channels[i].users, Dropped(i, j)
      PROVE  IF channels[i].name \in Long THEN Dir' = Dir
             ELSE Directory!Leave(channels[i].clients[j].who, channels[i].name)
  <2> DEFINE n == channels[i].name
             ch == channels[i]
             c == ch.clients[j].who
  <2>1. ch \in Channel /\ i \in 1 .. MaxChannels
    BY <1>1 DEF IInv, TypeOK
  <2>2. /\ num' = num
        /\ \A k \in 1 .. num : k # i => channels'[k] = channels[k]
        /\ channels'[i] = DropMember(ch, j)
    BY <1>1, <1>8 DEF Dropped, IInv, TypeOK
  <2>3. /\ channels'[i].name = n
        /\ channels'[i].users = ch.users - 1
        /\ ch.users \in 0 .. MaxClients
        /\ \A k \in 1 .. ch.users - 1 :
              channels'[i].clients[k] = ch.clients[IF k < j THEN k ELSE k + 1]
    BY <2>1, <2>2, DropMemberType DEF Channel
  <2>4. Existing' = Existing
    BY <2>2, <2>3 DEF Existing
  <2>5. Members(i)' = Members(i) \ {c}
    <3>1. \A k, l \in 1 .. ch.users : ch.clients[k].who = ch.clients[l].who => k = l
      BY <1>3 DEF MembersAreJoined
    <3>2. ASSUME NEW x \in Members(i)' PROVE x \in Members(i) \ {c}
      <4>1. PICK k \in 1 .. ch.users - 1 : x = ch.clients[IF k < j THEN k ELSE k + 1].who
        BY <3>2, <2>3 DEF Members
      <4>2. (IF k < j THEN k ELSE k + 1) \in (1 .. ch.users) \ {j}
        BY <2>3, <1>1
      <4> QED
        BY <4>1, <4>2, <3>1 DEF Members
    <3>3. ASSUME NEW x \in Members(i) \ {c} PROVE x \in Members(i)'
      <4>1. PICK k \in 1 .. ch.users : x = ch.clients[k].who
        BY <3>3 DEF Members
      <4>2. k # j
        BY <4>1
      <4>3. PICK l \in 1 .. ch.users - 1 : k = IF l < j THEN l ELSE l + 1
        <5>1. CASE k < j
          BY <5>1, <2>3, <1>1
        <5>2. CASE k > j
          <6>1. k - 1 \in 1 .. ch.users - 1 /\ ~(k - 1 < j) /\ (k - 1) + 1 = k
            BY <5>2, <2>3, <1>1
          <6> QED
            BY <6>1
        <5> QED
          BY <5>1, <5>2, <4>2, <2>3, <1>1
      <4> QED
        BY <4>1, <4>3, <2>3 DEF Members
    <3> QED
      BY <3>2, <3>3
  <2>6. \A k \in 1 .. num : k # i => Members(k)' = Members(k)
    BY <2>2 DEF Members
  <2>7. /\ \A m \in Existing : m # n => Roster(m)' = Roster(m)
        /\ n \notin Long => \A m \in Existing : m = n => Roster(m)' = Roster(m) \ {c}
    <3>1. \A k \in 1 .. num : channels'[k].name = channels[k].name
      BY <2>2, <2>3
    <3>2. \A m \in Existing : m # n => Roster(m)' = Roster(m)
      BY <2>2, <2>6, <3>1 DEF Roster, Existing
    <3>3. n \notin Long => \A k \in 1 .. num : channels[k].name = n => k = i
      BY <1>3
    <3>4. n \notin Long => \A m \in Existing : m = n => Roster(m)' = Roster(m) \ {c}
      BY <2>2, <2>5, <3>1, <3>3, <1>2 DEF Roster
    <3> QED
      BY <3>2, <3>4, Zenon
  <2>8. n \in Existing /\ c \in Members(i) /\ (n \notin Long => Roster(n) = Members(i))
    <3>1. n \in Existing /\ c \in Members(i)
      BY DEF Existing, Members
    <3>2. channels[i].name \notin Long => Roster(channels[i].name) = Members(i)
      BY <1>2, Zenon
    <3> QED
      BY <3>1, <3>2, Zenon
  <2> HIDE DEF n, ch, c
  <2>9. CASE n \in Long
    <3>1. n \notin Listed /\ Listed' = Listed
      BY <1>4, <2>4, <2>9
    <3> QED
      BY <1>4, <2>7, <2>9, <3>1 DEF Dir, n
  <2>10. CASE n \notin Long
    <3>1. n \in Listed /\ Listed' = Listed /\ Listed \subseteq Existing
      BY <1>4, <2>4, <2>8, <2>10
    <3>2. c \in Roster(n)
      BY <2>8, <2>10
    <3>3. \A m \in Listed : Roster(m)' = IF m = n THEN Roster(m) \ {c} ELSE Roster(m)
      BY <2>7, <2>10, <3>1, Zenon
    <3>4. Directory!Leave(c, n)
      BY <3>1, <3>2, <3>3 DEF Directory!Leave, Directory!Existing
    <3> QED
      BY <2>10, <3>4 DEF n, c, ch
  <2> QED
    BY <2>9, <2>10
<1>9. ASSUME NEW i \in 1 .. num, Deleted(i)
      PROVE  IF channels[i].name \in Long THEN Dir' = Dir ELSE Directory!Delete(channels[i].name)
  <2> DEFINE n == channels[i].name
             From(k) == IF k < i THEN k ELSE k + 1
  <2>1. num' = num - 1 /\ \A k \in 1 .. num - 1 : channels'[k] = channels[From(k)]
    BY <1>9, DropChannelType DEF Deleted, IInv
  <2>2. \A k \in 1 .. num - 1 : From(k) \in (1 .. num) \ {i}
    BY <1>1
  <2>3. \A l \in (1 .. num) \ {i} : \E k \in 1 .. num - 1 : l = From(k)
    <3> SUFFICES ASSUME NEW l \in (1 .. num) \ {i} PROVE \E k \in 1 .. num - 1 : l = From(k)
      OBVIOUS
    <3>1. CASE l < i
      BY <3>1, <1>1
    <3>2. CASE l > i
      <4>1. l - 1 \in 1 .. num - 1 /\ From(l - 1) = l
        BY <3>2, <1>1
      <4> QED
        BY <4>1
    <3> QED
      BY <3>1, <3>2, <1>1
  <2> HIDE DEF From
  <2>4. Existing' = {channels[l].name : l \in (1 .. num) \ {i}}
    BY <2>1, <2>2, <2>3 DEF Existing
  <2>5. \A k \in 1 .. num - 1 : Members(k)' = Members(From(k))
    BY <2>1 DEF Members
  <2>6. ASSUME NEW m \in Existing, m # n PROVE Roster(m)' = Roster(m)
    <3>1. Roster(m)' = {c \in Client : \E l \in (1 .. num) \ {i} :
                                         channels[l].name = m /\ c \in Members(l)}
      BY <2>1, <2>2, <2>3, <2>5 DEF Roster
    <3> QED
      BY <3>1, <2>6 DEF Roster
  <2>7. Listed \subseteq Existing
    BY <1>4
  <2>8. CASE n \in Long
    <3>1. n \notin Listed /\ Listed' = Listed
      BY <1>4, <2>4, <2>8 DEF Existing
    <3> QED
      BY <2>6, <2>7, <2>8, <3>1 DEF Dir
  <2>9. CASE n \notin Long
    <3>1. n \in Listed /\ Listed' = Listed \ {n}
      BY <1>3, <1>4, <2>4, <2>9 DEF Existing
    <3> HIDE DEF n
    <3>2. Directory!Delete(n)
      BY <2>6, <2>7, <3>1 DEF Directory!Delete, Directory!Existing
    <3> QED
      BY <2>9, <3>2 DEF n
  <2> QED
    BY <2>8, <2>9
<1>10. CASE \E i \in 1 .. MaxChannels, n \in ChannelName, g \in Garbage : Added(i, n, g)
  BY <1>6, <1>10 DEF Directory!Next
<1>11. CASE \E i \in 1 .. num, c \in Client : Joined(i, c)
  <2>1. PICK i \in 1 .. num, c \in Client : Joined(i, c)
    BY <1>11
  <2>2. Dir' = Dir \/ Directory!Join(c, channels[i].name)
    BY <1>7, <2>1
  <2> QED
    BY <1>2, <2>2 DEF Directory!Next
<1>12. CASE \E i \in 1 .. num : \E j \in 1 .. channels[i].users : Dropped(i, j)
  <2>1. PICK i \in 1 .. num : \E j \in 1 .. channels[i].users : Dropped(i, j)
    BY <1>12
  <2>2. PICK j \in 1 .. channels[i].users : Dropped(i, j)
    BY <2>1
  <2>3. channels[i].clients[j].who \in Client
    BY <1>3 DEF MembersAreJoined
  <2>4. Dir' = Dir \/ Directory!Leave(channels[i].clients[j].who, channels[i].name)
    BY <1>8, <2>2
  <2> QED
    BY <1>2, <2>3, <2>4 DEF Directory!Next
<1>13. CASE \E i \in 1 .. num : Deleted(i)
  <2>1. PICK i \in 1 .. num : Deleted(i)
    BY <1>13
  <2>2. Dir' = Dir \/ Directory!Delete(channels[i].name)
    BY <1>9, <2>1
  <2> QED
    BY <1>2, <2>2 DEF Directory!Next
<1> QED
  BY <1>5, <1>10, <1>11, <1>12, <1>13, Steps DEF IInv

\* After a load that fitted, creating, deleting, joining and leaving change
\* the channels whose names fit as they would a directory from names to sets
\* of members, within both limits.
THEOREM DirectoryImplemented == Spec => ImplementsDirectory
<1>1. IInv /\ IInv' /\ [Next]_vars => [Directory!Next]_Dir
  <2>1. CASE UNCHANGED vars
    BY <2>1 DEF vars, Dir, Listed, Existing, Roster, Members
  <2> QED
    BY <2>1, NextDirectory
<1>2. Spec => []IInv
  BY InductiveInvariant, PTL
<1> QED
  BY <1>1, <1>2, InitDirectory, PTL DEF Spec, ImplementsDirectory, Directory!Spec, Dir
===============================================================================
