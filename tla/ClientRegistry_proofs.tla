------------------------ MODULE ClientRegistry_proofs -------------------------
(***************************************************************************)
(* Proofs that the safety properties of ClientRegistry hold for any number *)
(* of connections, names, descriptors, slots, requests and faults.         *)
(***************************************************************************)
EXTENDS ClientRegistry, SequenceTheorems, FiniteSetTheorems, TLAPS

\* remove_client_from_list: on a list without repetitions, exactly the node
\* asked for goes, and the others keep their order.
LEMMA RemoveFirstProperties ==
    ASSUME NEW S, NEW s \in Seq(S), IsInjective(s), NEW e
    PROVE  /\ RemoveFirst(s, e) \in Seq(S)
           /\ IsInjective(RemoveFirst(s, e))
           /\ ToSet(RemoveFirst(s, e)) = ToSet(s) \ {e}
<1>1. CASE ~\E i \in 1 .. Len(s) : s[i] = e
  BY <1>1 DEF RemoveFirst, ToSet
<1>2. CASE \E i \in 1 .. Len(s) : s[i] = e
  <2>1. PICK i \in 1 .. Len(s) : s[i] = e
    BY <1>2
  <2>2. {j \in 1 .. Len(s) : s[j] = e} = {i}
    BY <2>1 DEF IsInjective
  <2>3. Min({i}) = i
    BY DEF Min
  <2>4. RemoveFirst(s, e) = RemoveAt(s, i)
    BY <1>2, <2>2, <2>3 DEF RemoveFirst, SelectInSeq
  <2> DEFINE left == SubSeq(s, 1, i - 1)
             right == SubSeq(s, i + 1, Len(s))
             t == left \o right
  <2>5. /\ left \in Seq(S) /\ Len(left) = i - 1
        /\ \A j \in 1 .. i - 1 : left[j] = s[j]
    BY SubSeqProperties
  <2>6. /\ right \in Seq(S) /\ Len(right) = Len(s) - i
        /\ \A j \in 1 .. Len(s) - i : right[j] = s[i + j]
    BY SubSeqProperties
  <2> HIDE DEF left, right
  <2>7. /\ t \in Seq(S) /\ Len(t) = Len(s) - 1
        /\ \A j \in 1 .. Len(s) - 1 : t[j] = IF j < i THEN s[j] ELSE s[j + 1]
    <3>1. /\ t \in Seq(S) /\ Len(t) = (i - 1) + (Len(s) - i)
          /\ \A j \in 1 .. (i - 1) + (Len(s) - i) :
                t[j] = IF j <= i - 1 THEN left[j] ELSE right[j - (i - 1)]
      <4>1. /\ t \in Seq(S) /\ Len(t) = Len(left) + Len(right)
            /\ \A j \in 1 .. Len(left) + Len(right) :
                  t[j] = IF j <= Len(left) THEN left[j] ELSE right[j - Len(left)]
        BY <2>5, <2>6, ConcatProperties
      <4> QED BY <4>1, <2>5, <2>6
    <3>2. Len(s) \in Nat /\ (i - 1) + (Len(s) - i) = Len(s) - 1
      BY LenProperties
    <3> HIDE DEF t
    <3>3. ASSUME NEW j \in 1 .. Len(s) - 1
          PROVE  t[j] = IF j < i THEN s[j] ELSE s[j + 1]
      <4>1. CASE j < i
        BY <4>1, <3>1, <3>2, <2>5
      <4>2. CASE ~(j < i)
        <5>1. j - (i - 1) \in 1 .. Len(s) - i /\ i + (j - (i - 1)) = j + 1
          BY <4>2, <3>2
        <5>2. t[j] = right[j - (i - 1)]
          BY <4>2, <3>1, <3>2
        <5>3. right[j - (i - 1)] = s[i + (j - (i - 1))]
          BY <5>1, <2>6
        <5> QED BY <5>1, <5>2, <5>3, <4>2
      <4> QED BY <4>1, <4>2
    <3> QED BY <3>1, <3>2, <3>3
  <2>8. RemoveFirst(s, e) = t
    BY <2>4 DEF RemoveAt, left, right
  <2> HIDE DEF t
  <2>9. IsInjective(t)
    BY <2>7 DEF IsInjective
  <2>10. ToSet(t) = ToSet(s) \ {e}
    <3>1. \A j \in 1 .. Len(t) : t[j] \in ToSet(s) \ {e}
      BY <2>1, <2>7 DEF IsInjective, ToSet
    <3>2. ASSUME NEW k \in 1 .. Len(s), s[k] # e
          PROVE  \E j \in 1 .. Len(t) : t[j] = s[k]
      <4>1. CASE k < i
        BY <4>1, <2>7
      <4>2. CASE k > i
        <5>1. k - 1 \in 1 .. Len(t) /\ ~(k - 1 < i) /\ (k - 1) + 1 = k
          BY <4>2, <2>7
        <5> QED BY <5>1, <2>7
      <4> QED BY <3>2, <2>1, <4>1, <4>2
    <3>3. ToSet(s) = {s[k] : k \in 1 .. Len(s)} /\ ToSet(t) = {t[j] : j \in 1 .. Len(t)}
      BY <2>7 DEF ToSet
    <3>4. \A x \in ToSet(t) : x \in ToSet(s) \ {e}
      BY <3>1, <3>3
    <3>5. \A x \in ToSet(s) \ {e} : x \in ToSet(t)
      BY <3>2, <3>3
    <3> QED BY <3>4, <3>5
  <2> QED BY <2>7, <2>8, <2>9, <2>10
<1> QED BY <1>1, <1>2

\* What a send can do to the typed state: it moves one link along, or ends
\* the process, and records at most one delivery.
LEMMA SentType ==
    ASSUME TypeOK,
           NEW f, NEW r,
           NEW kind \in Kind,
           NEW from \in Client, NEW addressee \in Node,
           Sent(f, Message(kind, from, addressee), r)
    PROVE  /\ status' \in {"up", "sigpipe", "segv"}
           /\ link' \in [Client -> LinkState]
           /\ delivery' \in Delivery
<1> DEFINE p == IF f \in Descriptor THEN conn[f] ELSE Nobody
<1>1. p \in Client \cup {Nobody}
  BY DEF TypeOK
<1> HIDE DEF p
<1>2. Silence \in Delivery
  BY DEF Silence, Delivery, Kind
<1>3. CASE p = Nobody /\ delivery' = Silence /\ UNCHANGED <<status, link>>
  BY <1>2, <1>3 DEF TypeOK
<1>4. CASE /\ p # Nobody
           /\ delivery' = [Message(kind, from, addressee) EXCEPT !.to = p]
           /\ UNCHANGED <<status, link>>
  BY <1>1, <1>4 DEF TypeOK, Message, Delivery
<1>5. CASE /\ p # Nobody
           /\ \E l \in {"fin", "broken"} : link' = [link EXCEPT ![p] = l]
           /\ delivery' = Silence /\ UNCHANGED status
  BY <1>1, <1>2, <1>5 DEF TypeOK, LinkState
<1>6. CASE /\ p # Nobody
           /\ status' = "sigpipe"
           /\ delivery' = Silence /\ UNCHANGED link
  BY <1>2, <1>6 DEF TypeOK
<1> QED
  BY <1>3, <1>4, <1>5, <1>6 DEF Sent, p

-------------------------------------------------------------------------------
(* Type correctness.                                                       *)

LEMMA ReplyType ==
    ASSUME TypeOK, NEW c \in Client, NEW kind \in {"pseudo", "answer"}, Reply(c, kind)
    PROVE  /\ status' \in {"up", "sigpipe", "segv"}
           /\ link' \in [Client -> LinkState]
           /\ delivery' \in Delivery
BY SentType DEF Reply, Node, Kind

LEMMA InitType == Init => TypeOK
BY RegistryAssumption DEF Init, TypeOK, Silence, Delivery, Kind, LinkState, Node, Name, Embryo, Serving, Leaving

LEMMA NextType == TypeOK /\ IsInjective(list) /\ [Next]_vars => TypeOK'
<1> SUFFICES ASSUME TypeOK, IsInjective(list), [Next]_vars PROVE TypeOK'
  OBVIOUS
<1> USE DEF Go, At, MainAt, Running, Unlocked, process, acceptor, registry, kernel, locals
<1>s. Silence \in Delivery
  BY DEF Silence, Delivery, Kind
<1>1. CASE WaitSlot
  BY <1>1, <1>s DEF WaitSlot, TypeOK
<1>2. CASE AcceptFails
  BY <1>2, <1>s DEF AcceptFails, TypeOK
<1>3. ASSUME NEW c \in Client, Connect(c) PROVE TypeOK'
  BY <1>3, <1>s DEF Connect, TypeOK, LinkState, Embryo, Serving, Leaving, Node, Name
<1>4. ASSUME NEW c \in Client, PeerCloses(c) PROVE TypeOK'
  BY <1>4, <1>s DEF PeerCloses, TypeOK, LinkState, Embryo, Serving, Leaving, Node, Name
<1>5. ASSUME NEW c \in Client, Accept(c) PROVE TypeOK'
  BY <1>5, <1>s DEF Accept, TypeOK, LinkState, Embryo, Serving, Leaving, Node, Name
<1>6. ASSUME NEW c \in Client, AddToList(c) PROVE TypeOK'
  BY <1>6, <1>s DEF AddToList, TypeOK, LinkState, Embryo, Serving, Leaving, Node, Name
<1>7. ASSUME NEW c \in Client, Spawn(c) PROVE TypeOK'
  BY <1>7, <1>s DEF Spawn, TypeOK, LinkState, Embryo, Serving, Leaving, Node, Name
<1>8. ASSUME NEW c \in Client, SpawnFails(c) PROVE TypeOK'
  <2>1. faults' \in Nat
    BY <1>8 DEF SpawnFails, TypeOK
  <2>2. conn' \in [Descriptor -> Client \cup {Nobody}] /\ link' \in [Client -> LinkState]
    BY <1>8 DEF SpawnFails, Close, TypeOK, LinkState
  <2> QED BY <1>8, <1>s, <2>1, <2>2 DEF SpawnFails, TypeOK, Embryo, Serving, Leaving
<1>9. ASSUME NEW c \in Client, RecvPseudo(c) PROVE TypeOK'
  <2>1. link' \in [Client -> LinkState]
    BY <1>9 DEF RecvPseudo, ReadEnd, TypeOK, LinkState
  <2>2. requests' \in [Client -> Nat]
    <3>1. Request(c) => requests' \in [Client -> Nat]
      BY DEF Request, TypeOK
    <3> QED BY <1>9, <3>1 DEF RecvPseudo, TypeOK
  <2>3. want' \in [Client -> Name \cup {NoPseudo}]
    BY <1>9 DEF RecvPseudo, Name, TypeOK
  <2> QED BY <1>9, <1>s, <2>1, <2>2, <2>3 DEF RecvPseudo, TypeOK, Embryo, Serving, Leaving
<1>10. ASSUME NEW c \in Client, SetPseudo(c) PROVE TypeOK'
  BY <1>10, <1>s DEF SetPseudo, TypeOK, LinkState, Embryo, Serving, Leaving, Node, Name
<1>11. ASSUME NEW c \in Client, LockList(c) PROVE TypeOK'
  BY <1>11, <1>s DEF LockList, TypeOK, LinkState, Embryo, Serving, Leaving, Node, Name
<1>12. ASSUME NEW c \in Client, WalkSkip(c) PROVE TypeOK'
  BY <1>12, <1>s DEF WalkSkip, TypeOK, LinkState, Embryo, Serving, Leaving, Node, Name
<1>13. ASSUME NEW c \in Client, WalkEnd(c) PROVE TypeOK'
  BY <1>13, <1>s DEF WalkEnd, AfterCast, TypeOK, LinkState, Embryo, Serving, Leaving, Node, Name
<1>14. ASSUME NEW c \in Client, RecvAll(c) PROVE TypeOK'
  BY <1>14, <1>s DEF RecvAll, TypeOK, LinkState, Embryo, Serving, Leaving, Node, Name, Command, Request
<1>15. ASSUME NEW c \in Client, RecvQuit(c) PROVE TypeOK'
  BY <1>15, <1>s DEF RecvQuit, TypeOK, LinkState, Embryo, Serving, Leaving, Node, Name, Farewell, Command, Request
<1>16. ASSUME NEW c \in Client, RecvEnd(c) PROVE TypeOK'
  BY <1>16, <1>s DEF RecvEnd, TypeOK, LinkState, Embryo, Serving, Leaving, Node, Name, Farewell, ReadEnd
<1>17. ASSUME NEW c \in Client, CloseSocket(c) PROVE TypeOK'
  BY <1>17, <1>s DEF CloseSocket, TypeOK, LinkState, Embryo, Serving, Leaving, Node, Name, Close
<1>18. ASSUME NEW c \in Client, PostSlot(c) PROVE TypeOK'
  BY <1>18, <1>s DEF PostSlot, TypeOK, LinkState, Embryo, Serving, Leaving, Node, Name
<1>19. ASSUME NEW c \in Client, RemoveRefused(c) PROVE TypeOK'
  <2>1. list' \in Seq(Node)
    BY <1>19, RemoveFirstProperties DEF RemoveRefused, Unlink, TypeOK
  <2>2. pseudo' \in [Node -> Name \cup {NoPseudo}]
    BY <1>19 DEF RemoveRefused, Unlink, TypeOK
  <2>3. pc' \in [Client -> {"none", "refused", "done"} \cup Embryo \cup Serving \cup Leaving]
    BY <1>19 DEF RemoveRefused, TypeOK
  <2> QED BY <1>19, <1>s, <2>1, <2>2, <2>3 DEF RemoveRefused, TypeOK
<1>20. ASSUME NEW c \in Client, RemoveClient(c) PROVE TypeOK'
  <2>1. list' \in Seq(Node)
    BY <1>20, RemoveFirstProperties DEF RemoveClient, Unlink, TypeOK
  <2> QED BY <1>20, <1>s, <2>1 DEF RemoveClient, Unlink, TypeOK, Embryo, Serving, Leaving
<1>21. ASSUME NEW c \in Client, CheckPseudo(c) PROVE TypeOK'
  BY <1>21, <1>s, ReplyType, SentType DEF CheckPseudo, Command, Request, Crash, TypeOK, LinkState, Embryo, Serving, Leaving, Node, Name, AfterCast
<1>22. ASSUME NEW c \in Client, WalkSend(c) PROVE TypeOK'
  <2>1. Head(rest) \in Node /\ Tail(rest) \in Seq(Node) /\ cast[c] \in Kind
    BY <1>22, HeadTailProperties DEF WalkSend, TypeOK, Kind
  <2>2. PICK r \in Result :
          /\ Sent(fd[Head(rest)], Message(cast[c], c, Head(rest)), r)
          /\ \/ rest' = Tail(rest) /\ UNCHANGED pc
             \/ rest' = <<>> /\ Go(c, AfterCast(c))
             \/ UNCHANGED <<rest, pc>>
    BY <1>22 DEF WalkSend
  <2>3. status' \in {"up", "sigpipe", "segv"} /\ link' \in [Client -> LinkState] /\ delivery' \in Delivery
    BY <2>1, <2>2, SentType
  <2>4. rest' \in Seq(Node)
    <3>1. rest' = Tail(rest) \/ rest' = <<>> \/ rest' = rest
      BY <2>2
    <3>2. rest \in Seq(Node) /\ <<>> \in Seq(Node)
      BY EmptySeq DEF TypeOK
    <3> QED BY <2>1, <3>1, <3>2
  <2>5. pc' \in [Client -> {"none", "refused", "done"} \cup Embryo \cup Serving \cup Leaving]
    BY <2>2 DEF TypeOK, AfterCast, Serving, Leaving
  <2> QED BY <1>22, <2>3, <2>4, <2>5 DEF WalkSend, TypeOK
<1>23. ASSUME NEW c \in Client, RecvTag(c) PROVE TypeOK'
  <2>1. status' \in {"up", "sigpipe", "segv"} /\ link' \in [Client -> LinkState] /\ delivery' \in Delivery
    BY <1>23, <1>s, ReplyType DEF RecvTag, Crash, TypeOK
  <2>2. requests' \in [Client -> Nat]
    BY <1>23 DEF RecvTag, Command, Request, TypeOK
  <2> QED BY <1>23, <2>1, <2>2 DEF RecvTag, TypeOK, Serving
<1>24. ASSUME NEW c \in Client, RecvList(c) PROVE TypeOK'
  BY <1>24, <1>s, ReplyType, SentType DEF RecvList, Command, Request, Crash, TypeOK, LinkState, Embryo, Serving, Leaving, Node, Name, AfterCast
<1>25. ASSUME NEW c \in Client, RecvMp(c) PROVE TypeOK'
  <2>1. status' \in {"up", "sigpipe", "segv"} /\ link' \in [Client -> LinkState] /\ delivery' \in Delivery
    BY <1>25, <1>s, ReplyType DEF RecvMp, Crash, TypeOK
  <2>2. requests' \in [Client -> Nat]
    BY <1>25 DEF RecvMp, Command, Request, TypeOK
  <2>3. rcpt' \in [Client -> Node]
    <3>1. \A i \in DOMAIN list : list[i] \in Node
      BY DEF TypeOK
    <3>2. rcpt' = rcpt \/ \E i \in DOMAIN list : rcpt' = [rcpt EXCEPT ![c] = list[i]]
      BY <1>25 DEF RecvMp
    <3> QED BY <3>1, <3>2 DEF TypeOK
  <2> QED BY <1>25, <2>1, <2>2, <2>3 DEF RecvMp, TypeOK, Serving
<1>26. ASSUME NEW c \in Client, SendMp(c) PROVE TypeOK'
  <2>1. PICK f : \E r \in Result : Sent(f, Message("mp", c, rcpt[c]), r)
    BY <1>26 DEF SendMp
  <2>2. "mp" \in Kind /\ rcpt[c] \in Node
    BY DEF TypeOK, Kind
  <2>3. status' \in {"up", "sigpipe", "segv"} /\ link' \in [Client -> LinkState] /\ delivery' \in Delivery
    BY <2>1, <2>2, SentType
  <2> QED BY <1>26, <2>3 DEF SendMp, TypeOK, Serving
<1>27. ASSUME NEW c \in Client, RecvOther(c) PROVE TypeOK'
  BY <1>27, <1>s, ReplyType, SentType DEF RecvOther, Command, Request, Crash, TypeOK, LinkState, Embryo, Serving, Leaving, Node, Name, AfterCast
<1>28. CASE UNCHANGED vars
  BY <1>28 DEF vars, TypeOK
<1> QED
  BY <1>1, <1>2, <1>3, <1>4, <1>5, <1>6, <1>7, <1>8, <1>9, <1>10, <1>11, <1>12, <1>13, <1>14, <1>15, <1>16, <1>17, <1>18, <1>19, <1>20, <1>21, <1>22, <1>23, <1>24, <1>25, <1>26, <1>27, <1>28 DEF Next, AcceptorStep, HandlerStep, Fault, Peer

-------------------------------------------------------------------------------
(* The steps of a client thread between its creation and close() leave the *)
(* acceptor, the list and the descriptors alone.                           *)

Quiet ==
    /\ UNCHANGED <<main, slots, lost, list, conn, fd>>
    /\ \/ UNCHANGED pc
       \/ \E c \in Client, l \in Serving \cup {"close"} :
             pc[c] \in Serving /\ Go(c, l)

QuietStep(c) ==
    \/ Connect(c) \/ PeerCloses(c)
    \/ RecvPseudo(c) \/ CheckPseudo(c) \/ SetPseudo(c)
    \/ LockList(c) \/ WalkSkip(c) \/ WalkSend(c) \/ WalkEnd(c)
    \/ RecvAll(c) \/ RecvTag(c) \/ RecvList(c) \/ RecvMp(c) \/ SendMp(c)
    \/ RecvOther(c) \/ RecvQuit(c) \/ RecvEnd(c)

LEMMA QuietStepIsQuiet ==
    ASSUME NEW c \in Client, QuietStep(c)
    PROVE  Quiet
<1> USE DEF Quiet, At, acceptor, registry, kernel
<1>1. CASE Connect(c) \/ PeerCloses(c) \/ WalkSkip(c) \/ RecvList(c) \/ RecvOther(c)
  BY <1>1 DEF Connect, PeerCloses, WalkSkip, RecvList, RecvOther
<1>2. CASE RecvPseudo(c)
  BY <1>2 DEF RecvPseudo, Serving
<1>3. CASE CheckPseudo(c) \/ SetPseudo(c)
  BY <1>3 DEF CheckPseudo, SetPseudo, Serving
<1>4. CASE LockList(c) \/ WalkSend(c) \/ WalkEnd(c)
  BY <1>4 DEF LockList, WalkSend, WalkEnd, AfterCast, Serving
<1>5. CASE RecvAll(c) \/ RecvTag(c) \/ RecvQuit(c) \/ RecvEnd(c)
  BY <1>5 DEF RecvAll, RecvTag, RecvQuit, RecvEnd, Farewell, Command, Serving
<1>6. CASE RecvMp(c) \/ SendMp(c)
  BY <1>6 DEF RecvMp, SendMp, Command, Serving
<1> QED
  BY <1>1, <1>2, <1>3, <1>4, <1>5, <1>6 DEF QuietStep

\* The steps of a behaviour, by what they do to the state the invariant is
\* about.
LEMMA Steps ==
    ASSUME [Next]_vars
    PROVE  \/ Quiet
           \/ WaitSlot
           \/ AcceptFails
           \/ \E c \in Client : \/ Accept(c) \/ AddToList(c) \/ Spawn(c) \/ SpawnFails(c)
                               \/ RemoveRefused(c) \/ CloseSocket(c)
                               \/ RemoveClient(c) \/ PostSlot(c)
<1>1. CASE UNCHANGED vars
  BY <1>1 DEF vars, Quiet
<1>2. CASE Next
  BY <1>2, QuietStepIsQuiet DEF Next, AcceptorStep, HandlerStep, Fault, Peer, QuietStep
<1> QED BY <1>1, <1>2

LEMMA QuietSets ==
    ASSUME TypeOK, Quiet
    PROVE  /\ UNCHANGED <<main, slots, lost, list, conn, fd>>
           /\ InService' = InService /\ Listed' = Listed /\ Open' = Open
           /\ \A c \in Client : pc'[c] \in Embryo <=> pc[c] \in Embryo
<1> USE DEF Quiet, InService, Listed, Open, Embryo, Serving, Leaving
<1>1. CASE UNCHANGED pc
  BY <1>1
<1>2. ASSUME NEW c \in Client, NEW l \in Serving \cup {"close"}, pc[c] \in Serving, Go(c, l)
      PROVE  /\ InService' = InService /\ Listed' = Listed /\ Open' = Open
             /\ \A d \in Client : pc'[d] \in Embryo <=> pc[d] \in Embryo
  BY <1>2 DEF TypeOK, Go
<1> QED BY <1>1, <1>2
-------------------------------------------------------------------------------
(* One lemma per conjunct of the inductive invariant.                      *)

LEMMA NextOneAdmission == TypeOK /\ OneAdmission /\ [Next]_vars => OneAdmission'
<1> SUFFICES ASSUME TypeOK, OneAdmission, [Next]_vars PROVE OneAdmission'
  OBVIOUS
<1> USE DEF OneAdmission, At, MainAt, Go, acceptor
<1>1. CASE Quiet
  BY <1>1, QuietSets
<1>2. CASE WaitSlot \/ AcceptFails
  BY <1>2 DEF WaitSlot, AcceptFails
<1>3. ASSUME NEW c \in Client, Accept(c) PROVE OneAdmission'
  BY <1>3 DEF Accept, TypeOK, Embryo
<1>4. ASSUME NEW c \in Client, AddToList(c) PROVE OneAdmission'
  BY <1>4 DEF AddToList, TypeOK, Embryo
<1>5. ASSUME NEW c \in Client, Spawn(c) PROVE OneAdmission'
  BY <1>5 DEF Spawn, TypeOK, Embryo
<1>6. ASSUME NEW c \in Client, SpawnFails(c) PROVE OneAdmission'
  BY <1>6 DEF SpawnFails, TypeOK, Embryo
<1>7. ASSUME NEW c \in Client, RemoveRefused(c) PROVE OneAdmission'
  BY <1>7 DEF RemoveRefused, TypeOK, Embryo
<1>8. ASSUME NEW c \in Client, CloseSocket(c) PROVE OneAdmission'
  BY <1>8 DEF CloseSocket, TypeOK, Embryo
<1>9. ASSUME NEW c \in Client, RemoveClient(c) PROVE OneAdmission'
  BY <1>9 DEF RemoveClient, TypeOK, Embryo
<1>10. ASSUME NEW c \in Client, PostSlot(c) PROVE OneAdmission'
  BY <1>10 DEF PostSlot, TypeOK, Embryo
<1> QED
  BY Steps, <1>1, <1>2, <1>3, <1>4, <1>5, <1>6, <1>7, <1>8, <1>9, <1>10

\* Slots are conserved because every step moves exactly one of them.
LEMMA NextSlots ==
    TypeOK /\ OneAdmission /\ SlotConservation /\ [Next]_vars => SlotConservation'
<1> SUFFICES ASSUME TypeOK, OneAdmission, SlotConservation, [Next]_vars
             PROVE  SlotConservation'
  OBVIOUS
<1> USE DEF SlotConservation, At, MainAt, Go, acceptor
<1>f. IsFiniteSet(InService) /\ Cardinality(InService) \in Nat
  BY RegistryAssumption, FS_Subset, FS_CardinalityType DEF InService
<1>n. MaxClients \in Nat /\ slots \in Nat /\ lost \in Nat
  BY RegistryAssumption DEF TypeOK
<1>1. CASE Quiet
  BY <1>1, QuietSets
<1>2. CASE WaitSlot
  <2>1. InService' = InService
    BY <1>2 DEF WaitSlot, InService
  <2> QED BY <1>2, <2>1, <1>f, <1>n DEF WaitSlot
<1>3. CASE AcceptFails
  <2>1. InService' = InService
    BY <1>3 DEF AcceptFails, InService
  <2> QED BY <1>3, <2>1, <1>f, <1>n DEF AcceptFails
<1>4. ASSUME NEW c \in Client, Accept(c) PROVE SlotConservation'
  <2>1. c \notin InService /\ InService' = InService \cup {c}
    BY <1>4 DEF Accept, TypeOK, InService, Embryo, Serving, Leaving
  <2>2. Cardinality(InService') = Cardinality(InService) + 1
    BY <2>1, <1>f, FS_AddElement
  <2>3. main = "accept" /\ main' = "admit" /\ UNCHANGED <<slots, lost>>
    BY <1>4 DEF Accept
  <2> QED BY <2>2, <2>3, <1>f, <1>n
<1>5. ASSUME NEW c \in Client, AddToList(c) \/ SpawnFails(c) \/ CloseSocket(c) \/ RemoveClient(c)
      PROVE SlotConservation'
  <2>1. InService' = InService
    BY <1>5 DEF AddToList, SpawnFails, CloseSocket, RemoveClient, TypeOK,
                InService, Embryo, Serving, Leaving
  <2>2. UNCHANGED <<main, slots, lost>>
    BY <1>5 DEF AddToList, SpawnFails, CloseSocket, RemoveClient
  <2> QED BY <2>1, <2>2
<1>6. ASSUME NEW c \in Client, Spawn(c) PROVE SlotConservation'
  <2>1. InService' = InService
    BY <1>6 DEF Spawn, TypeOK, InService, Embryo, Serving, Leaving
  <2>2. main = "admit" /\ main' = "sem" /\ UNCHANGED <<slots, lost>>
    BY <1>6 DEF Spawn, OneAdmission, Embryo
  <2> QED BY <2>1, <2>2
<1>7. ASSUME NEW c \in Client, RemoveRefused(c) PROVE SlotConservation'
  <2>1. c \in InService /\ InService' = InService \ {c}
    BY <1>7 DEF RemoveRefused, TypeOK, InService, Embryo, Serving, Leaving
  <2>2. Cardinality(InService') = Cardinality(InService) - 1
    BY <2>1, <1>f, FS_RemoveElement
  <2>3. main = "admit" /\ main' = "sem" /\ slots' = slots /\ lost' = lost + 1
    BY <1>7 DEF RemoveRefused, OneAdmission, Embryo
  <2> QED BY <2>2, <2>3, <1>f, <1>n
<1>8. ASSUME NEW c \in Client, PostSlot(c) PROVE SlotConservation'
  <2>1. c \in InService /\ InService' = InService \ {c}
    BY <1>8 DEF PostSlot, TypeOK, InService, Embryo, Serving, Leaving
  <2>2. Cardinality(InService') = Cardinality(InService) - 1
    BY <2>1, <1>f, FS_RemoveElement
  <2> QED BY <1>8, <2>2, <1>f, <1>n DEF PostSlot
<1> QED
  BY Steps, <1>1, <1>2, <1>3, <1>4, <1>5, <1>6, <1>7, <1>8

\* The list follows the threads: add enters one node at the head, remove
\* takes exactly the thread's own node out.
LEMMA NextList ==
    TypeOK /\ ListIsServed /\ [Next]_vars => ListIsServed'
<1> SUFFICES ASSUME TypeOK, ListIsServed, [Next]_vars PROVE ListIsServed'
  OBVIOUS
<1> USE DEF ListIsServed, At, MainAt, Go, registry
<1>l. list \in Seq(Node)
  BY DEF TypeOK
<1>1. CASE Quiet
  BY <1>1, QuietSets
<1>2. CASE WaitSlot \/ AcceptFails
  BY <1>2 DEF WaitSlot, AcceptFails, Listed
<1>3. ASSUME NEW c \in Client, Accept(c) \/ Spawn(c) \/ SpawnFails(c) \/ CloseSocket(c) \/ PostSlot(c)
      PROVE ListIsServed'
  <2>1. Listed' = Listed
    BY <1>3 DEF Accept, Spawn, SpawnFails, CloseSocket, PostSlot, TypeOK, Listed, Serving
  <2>2. UNCHANGED list
    BY <1>3 DEF Accept, Spawn, SpawnFails, CloseSocket, PostSlot
  <2> QED BY <2>1, <2>2
<1>4. ASSUME NEW c \in Client, AddToList(c) PROVE ListIsServed'
  <2>1. c \notin Listed /\ Listed' = Listed \cup {c}
    BY <1>4 DEF AddToList, TypeOK, Listed, Serving
  <2>2. c \notin ToSet(list)
    BY <2>1, RegistryAssumption DEF Node
  <2>3. /\ list' \in Seq(Node) /\ Len(list') = Len(list) + 1
        /\ \A i \in 1 .. Len(list) + 1 : list'[i] = IF i = 1 THEN c ELSE list[i - 1]
    <3>1. <<c>> \in Seq(Node) /\ Len(<<c>>) = 1 /\ <<c>>[1] = c
      BY DEF Node
    <3>2. list' = <<c>> \o list
      BY <1>4 DEF AddToList
    <3> QED BY <3>1, <3>2, <1>l, ConcatProperties
  <2>4. ToSet(list') = ToSet(list) \cup {c}
    <3>1. \A i \in 1 .. Len(list') : list'[i] \in ToSet(list) \cup {c}
      BY <2>3, <1>l DEF ToSet
    <3>2. \A i \in 1 .. Len(list) : i + 1 \in 1 .. Len(list') /\ list'[i + 1] = list[i]
      BY <2>3, <1>l
    <3>3. 1 \in 1 .. Len(list') /\ list'[1] = c
      BY <2>3, <1>l
    <3>4. ToSet(list) \subseteq ToSet(list')
      <4>1. DOMAIN list = 1 .. Len(list) /\ DOMAIN list' = 1 .. Len(list')
        BY <2>3, <1>l
      <4>2. \A i \in DOMAIN list : \E j \in DOMAIN list' : list'[j] = list[i]
        BY <3>2, <4>1
      <4> QED BY <4>2 DEF ToSet
    <3>5. c \in ToSet(list')
      BY <3>3, <2>3 DEF ToSet
    <3>6. ToSet(list') \subseteq ToSet(list) \cup {c}
      BY <3>1, <2>3 DEF ToSet
    <3> QED BY <3>4, <3>5, <3>6
  <2>5. IsInjective(list')
    <3>1. \A i \in 1 .. Len(list) : list[i] # c
      BY <2>2, <1>l DEF ToSet
    <3> QED BY <2>3, <3>1, <1>l DEF IsInjective
  <2> QED BY <2>1, <2>4, <2>5
<1>5. ASSUME NEW c \in Client, RemoveRefused(c) \/ RemoveClient(c) PROVE ListIsServed'
  <2>1. Listed' = Listed \ {c} /\ list' = RemoveFirst(list, c)
    BY <1>5 DEF RemoveRefused, RemoveClient, Unlink, TypeOK, Listed, Serving
  <2>2. IsInjective(list') /\ ToSet(list') = ToSet(list) \ {c}
    BY <2>1, <1>l, RemoveFirstProperties
  <2>3. Serveur # c
    BY RegistryAssumption
  <2> QED BY <2>1, <2>2, <2>3
<1> QED
  BY Steps, <1>1, <1>2, <1>3, <1>4, <1>5

\* The lock freezes the list under a broadcast, which moves down it node by
\* node.
LEMMA NextWalk ==
    TypeOK /\ WalkStaysInList /\ [Next]_vars => WalkStaysInList'
<1> SUFFICES ASSUME TypeOK, WalkStaysInList, [Next]_vars PROVE WalkStaysInList'
  OBVIOUS
<1> USE DEF WalkStaysInList, At, MainAt, Go, registry, acceptor
<1>u. ASSUME UNCHANGED registry,
             \A c \in Client : pc'[c] = "walk" => pc[c] = "walk"
      PROVE  WalkStaysInList'
  BY <1>u
<1>l. list \in Seq(Node) /\ Len(list) \in Nat
  BY DEF TypeOK
<1>n. Nobody \notin Client
  BY RegistryAssumption DEF Node
<1>1. CASE UNCHANGED vars
  BY <1>1, <1>u DEF vars
<1>2. CASE WaitSlot \/ AcceptFails
  BY <1>2, <1>u DEF WaitSlot, AcceptFails
<1>3. ASSUME NEW c \in Client,
             \/ Connect(c) \/ PeerCloses(c) \/ Accept(c) \/ Spawn(c) \/ SpawnFails(c)
             \/ RecvPseudo(c) \/ CheckPseudo(c) \/ SetPseudo(c) \/ SendMp(c)
             \/ RecvList(c) \/ RecvOther(c) \/ CloseSocket(c) \/ PostSlot(c)
      PROVE WalkStaysInList'
  <2>1. UNCHANGED registry
    BY <1>3 DEF Connect, PeerCloses, Accept, Spawn, SpawnFails, RecvPseudo, CheckPseudo,
                SetPseudo, SendMp, RecvList, RecvOther, CloseSocket, PostSlot
  <2>2. pc' = pc \/ \E l : l # "walk" /\ pc' = [pc EXCEPT ![c] = l]
    BY <1>3 DEF Connect, PeerCloses, Accept, Spawn, SpawnFails, RecvPseudo, CheckPseudo,
                SetPseudo, SendMp, RecvList, RecvOther, CloseSocket, PostSlot
  <2> QED BY <2>1, <2>2, <1>u DEF TypeOK
<1>4. ASSUME NEW c \in Client,
             RecvAll(c) \/ RecvTag(c) \/ RecvMp(c) \/ RecvQuit(c) \/ RecvEnd(c)
      PROVE WalkStaysInList'
  <2>1. UNCHANGED registry
    BY <1>4 DEF RecvAll, RecvTag, RecvMp, RecvQuit, RecvEnd, Farewell
  <2>2. pc' = pc \/ \E l : l # "walk" /\ pc' = [pc EXCEPT ![c] = l]
    BY <1>4 DEF RecvAll, RecvTag, RecvMp, RecvQuit, RecvEnd, Farewell
  <2> QED BY <2>1, <2>2, <1>u DEF TypeOK
<1>5. ASSUME NEW c \in Client, AddToList(c) \/ RemoveRefused(c) \/ RemoveClient(c)
      PROVE WalkStaysInList'
  <2>1. mutex = Nobody
    BY <1>5 DEF AddToList, RemoveRefused, RemoveClient, Unlink, Unlocked
  <2>2. \A d \in Client : pc[d] # "walk"
    BY <2>1, <1>n
  <2>3. \E l : l # "walk" /\ pc' = [pc EXCEPT ![c] = l]
    BY <1>5 DEF AddToList, RemoveRefused, RemoveClient
  <2> QED BY <2>2, <2>3 DEF TypeOK
<1>6. ASSUME NEW c \in Client, LockList(c) PROVE WalkStaysInList'
  <2>1. \A d \in Client : pc[d] # "walk"
    BY <1>6, <1>n DEF LockList, Unlocked
  <2>2. \A d \in Client : pc'[d] = "walk" => d = c
    BY <1>6, <2>1 DEF LockList, TypeOK
  <2>3. mutex' = c /\ rest' = SubSeq(list', 1, Len(list')) /\ 1 \in 1 .. Len(list') + 1
    BY <1>6, <1>l, SubSeqFull DEF LockList
  <2> QED BY <2>2, <2>3
<1>7. ASSUME NEW c \in Client, WalkSkip(c) \/ WalkSend(c) PROVE WalkStaysInList'
  <2>1. pc[c] = "walk" /\ mutex = c /\ rest # <<>> /\ UNCHANGED <<list, mutex>>
    BY <1>7 DEF WalkSkip, WalkSend
  <2>2. PICK k \in 1 .. Len(list) + 1 : rest = SubSeq(list, k, Len(list))
    BY <2>1
  <2>3. k \in 1 .. Len(list)
    <3>1. ASSUME k = Len(list) + 1 PROVE FALSE
      BY <3>1, <2>1, <2>2, <1>l, SubSeqEmpty
    <3> QED BY <3>1, <1>l
  <2>4. Tail(rest) = SubSeq(list, k + 1, Len(list)) /\ k + 1 \in 1 .. Len(list) + 1
    BY <2>2, <2>3, <1>l, HeadTailOfSubSeq
  <2>5. \/ rest' = Tail(rest) /\ UNCHANGED pc
        \/ UNCHANGED <<rest, pc>>
        \/ \E l : l # "walk" /\ pc' = [pc EXCEPT ![c] = l]
    BY <1>7 DEF WalkSkip, WalkSend, AfterCast
  <2>6. \A d \in Client : pc[d] = "walk" => d = c
    BY <2>1
  <2>7. CASE rest' = Tail(rest) /\ UNCHANGED pc
    BY <2>1, <2>4, <2>6, <2>7
  <2>8. CASE UNCHANGED <<rest, pc>>
    BY <2>1, <2>2, <2>6, <2>8
  <2>9. CASE \E l : l # "walk" /\ pc' = [pc EXCEPT ![c] = l]
    <3>1. \A d \in Client : pc'[d] # "walk"
      BY <2>6, <2>9 DEF TypeOK
    <3> QED BY <3>1
  <2> QED BY <2>5, <2>7, <2>8, <2>9
<1>8. ASSUME NEW c \in Client, WalkEnd(c) PROVE WalkStaysInList'
  <2>1. \A d \in Client : pc[d] = "walk" => d = c
    BY <1>8 DEF WalkEnd
  <2>2. \A d \in Client : pc'[d] # "walk"
    BY <1>8, <2>1 DEF WalkEnd, AfterCast, TypeOK
  <2> QED BY <2>2
<1> QED
  BY <1>1, <1>2, <1>3, <1>4, <1>5, <1>6, <1>7, <1>8
  DEF Next, AcceptorStep, HandlerStep, Fault, Peer

\* accept() hands out a descriptor nobody uses, and only its owner closes it.
LEMMA NextDescriptor ==
    TypeOK /\ OwnDescriptor /\ [Next]_vars => OwnDescriptor'
<1> SUFFICES ASSUME TypeOK, OwnDescriptor, [Next]_vars PROVE OwnDescriptor'
  OBVIOUS
<1> USE DEF OwnDescriptor, At, MainAt, Go, kernel
<1>n. Nobody \notin Client /\ Client \subseteq Node
  BY RegistryAssumption DEF Node
<1>1. CASE Quiet
  BY <1>1, QuietSets
<1>2. CASE WaitSlot \/ AcceptFails
  BY <1>2 DEF WaitSlot, AcceptFails, Open
<1>3. ASSUME NEW c \in Client,
             AddToList(c) \/ Spawn(c) \/ RemoveRefused(c) \/ RemoveClient(c) \/ PostSlot(c)
      PROVE OwnDescriptor'
  <2>1. Open' = Open
    BY <1>3 DEF AddToList, Spawn, RemoveRefused, RemoveClient, PostSlot, TypeOK, Open, Serving
  <2>2. UNCHANGED <<conn, fd>>
    BY <1>3 DEF AddToList, Spawn, RemoveRefused, RemoveClient, PostSlot
  <2> QED BY <2>1, <2>2
<1>4. ASSUME NEW c \in Client, Accept(c) PROVE OwnDescriptor'
  <2>1. PICK d \in Descriptor : /\ conn[d] = Nobody
                                /\ conn' = [conn EXCEPT ![d] = c]
                                /\ fd' = [fd EXCEPT ![c] = d]
    BY <1>4 DEF Accept
  <2>2. c \notin Open /\ Open' = Open \cup {c}
    BY <1>4 DEF Accept, TypeOK, Open, Serving
  <2>3. \A e \in Open : e \in Client /\ e # c /\ fd[e] # d
    BY <2>1, <2>2, <1>n DEF Open
  <2>4. \A e \in Open' : fd'[e] \in Descriptor /\ conn'[fd'[e]] = e
    BY <2>1, <2>2, <2>3, <1>n DEF TypeOK
  <2>5. \A x \in Descriptor : conn'[x] # Nobody => conn'[x] \in Open' /\ fd'[conn'[x]] = x
    BY <2>1, <2>2, <2>3, <1>n DEF TypeOK
  <2> QED BY <2>4, <2>5
<1>5. ASSUME NEW c \in Client, SpawnFails(c) \/ CloseSocket(c) PROVE OwnDescriptor'
  <2>1. c \in Open /\ Open' = Open \ {c}
    BY <1>5 DEF SpawnFails, CloseSocket, TypeOK, Open, Serving
  <2>2. conn' = [conn EXCEPT ![fd[c]] = Nobody] /\ UNCHANGED fd
    BY <1>5 DEF SpawnFails, CloseSocket, Close
  <2>3. \A e \in Open : e \in Client /\ (e # c => fd[e] # fd[c])
    BY <2>1 DEF Open
  <2> QED BY <2>1, <2>2, <2>3, <1>n DEF TypeOK
<1> QED
  BY Steps, <1>1, <1>2, <1>3, <1>4, <1>5
-------------------------------------------------------------------------------
LEMMA InitInv == Init => IInv
<1> SUFFICES ASSUME Init PROVE IInv
  OBVIOUS
<1> USE DEF Init
<1>1. TypeOK
  BY InitType
<1>2. \A c \in Client : pc[c] = "none"
  OBVIOUS
<1>3. OneAdmission /\ WalkStaysInList
  BY <1>2 DEF OneAdmission, WalkStaysInList, Embryo
<1>4. SlotConservation
  <2>1. InService = {}
    BY <1>2 DEF InService, Embryo, Serving, Leaving
  <2> QED BY <2>1, FS_EmptySet, RegistryAssumption DEF SlotConservation
<1>5. ListIsServed
  <2>1. Listed = {}
    BY <1>2 DEF Listed, Serving
  <2> QED BY <2>1 DEF ListIsServed, IsInjective, ToSet
<1>6. OwnDescriptor
  <2>1. Open = {}
    BY <1>2 DEF Open, Serving
  <2> QED BY <2>1 DEF OwnDescriptor
<1> QED BY <1>1, <1>3, <1>4, <1>5, <1>6 DEF IInv

\* The inductive invariant holds of every reachable state.
THEOREM InductiveInvariant == Spec => []IInv
<1>1. IInv /\ [Next]_vars => IInv'
  BY NextType, NextOneAdmission, NextSlots, NextList, NextWalk, NextDescriptor
  DEF IInv, ListIsServed
<1> QED BY InitInv, <1>1, PTL DEF Spec

\* Every variable keeps its type, for any number of clients and descriptors.
THEOREM TypeCorrect == Spec => []TypeOK
<1>1. IInv => TypeOK
  BY DEF IInv
<1> QED BY <1>1, InductiveInvariant, PTL

\* The semaphore never loses count of the sessions.
THEOREM SlotsConserved == Spec => []SlotConservation
<1>1. IInv => SlotConservation
  BY DEF IInv
<1> QED BY <1>1, InductiveInvariant, PTL

\* The list holds exactly the clients in service, once each.
THEOREM ListCorrect == Spec => []ListIsServed
<1>1. IInv => ListIsServed
  BY DEF IInv
<1> QED BY <1>1, InductiveInvariant, PTL

\* No node is freed, skipped or repeated under a broadcast.
THEOREM WalkCorrect == Spec => []WalkStaysInList
<1>1. IInv => WalkStaysInList
  BY DEF IInv
<1> QED BY <1>1, InductiveInvariant, PTL

\* A thread's descriptor is its own connection's, and none leaks.
THEOREM DescriptorCorrect == Spec => []OwnDescriptor
<1>1. IInv => OwnDescriptor
  BY DEF IInv
<1> QED BY <1>1, InductiveInvariant, PTL

\* After a broadcast returned with the lock, the lock and the list never
\* change again: nobody joins, leaves, is listed or is written to.
THEOREM OrphanPersists == Spec => OrphanIsForever
<1> USE DEF Orphaned, At, MainAt, Go, registry, acceptor
<1>1. ASSUME IInv, [Next]_vars, Orphaned PROVE Orphaned' /\ UNCHANGED list
  <2>1. mutex \in Client /\ mutex # Nobody /\ pc[mutex] # "walk"
    BY <1>1 DEF IInv, TypeOK
  <2>2. pc \in [Client -> {"none", "refused", "done"} \cup Embryo \cup Serving \cup Leaving]
    BY <1>1 DEF IInv, TypeOK
  <2>s. ASSUME UNCHANGED <<list, mutex>>,
               pc' = pc \/ \E c \in Client : \E l : l # "walk" /\ pc' = [pc EXCEPT ![c] = l]
        PROVE  Orphaned' /\ UNCHANGED list
    BY <2>s, <2>1, <2>2
  <2>3. CASE UNCHANGED vars
    BY <2>3, <2>s DEF vars
  <2>4. CASE WaitSlot \/ AcceptFails
    BY <2>4, <2>s DEF WaitSlot, AcceptFails
  <2>5. ASSUME NEW c \in Client,
               \/ Connect(c) \/ PeerCloses(c) \/ Accept(c) \/ Spawn(c) \/ SpawnFails(c)
               \/ RecvPseudo(c) \/ SetPseudo(c) \/ SendMp(c)
               \/ RecvTag(c) \/ RecvAll(c) \/ RecvOther(c) \/ RecvQuit(c) \/ RecvEnd(c)
               \/ CloseSocket(c) \/ PostSlot(c)
        PROVE Orphaned' /\ UNCHANGED list
    BY <2>5, <2>s DEF Connect, PeerCloses, Accept, Spawn, SpawnFails, RecvPseudo, SetPseudo,
       SendMp, RecvTag, Command, Unlocked, RecvAll, RecvOther, RecvQuit, RecvEnd, Farewell, CloseSocket, PostSlot
  <2>6. ASSUME NEW c \in Client,
               \/ AddToList(c) \/ RemoveRefused(c) \/ RemoveClient(c) \/ LockList(c)
               \/ CheckPseudo(c) \/ RecvList(c) \/ RecvMp(c)
        PROVE FALSE
    BY <2>6, <2>1 DEF AddToList, RemoveRefused, RemoveClient, LockList, CheckPseudo,
       RecvList, RecvMp, Unlink, Unlocked
  <2>7. ASSUME NEW c \in Client, WalkSkip(c) \/ WalkSend(c) \/ WalkEnd(c)
        PROVE FALSE
    <3>1. pc[c] = "walk"
      BY <2>7 DEF WalkSkip, WalkSend, WalkEnd
    <3>2. mutex = c
      BY <3>1, <1>1 DEF IInv, WalkStaysInList
    <3> QED BY <3>1, <3>2, <2>1
  <2> QED
    BY <1>1, <2>3, <2>4, <2>5, <2>6, <2>7 DEF Next, AcceptorStep, HandlerStep, Fault, Peer
<1>2. IInv /\ [Next]_vars => [Orphaned => Orphaned' /\ UNCHANGED list]_vars
  BY <1>1
<1> QED BY <1>2, InductiveInvariant, PTL DEF Spec, OrphanIsForever
-------------------------------------------------------------------------------
(* The sessions implement ClientPool: every step is one of its steps or    *)
(* leaves its variables unchanged.                                         *)

LEMMA InitPool == Init => Pool!Init
BY DEF Init, Pool!Init, InService, Embryo, Serving, Leaving

LEMMA NextPool == IInv /\ [Next]_vars => [Pool!Next]_(Pool!vars)
<1> SUFFICES ASSUME IInv, [Next]_vars PROVE [Pool!Next]_(Pool!vars)
  OBVIOUS
<1> DEFINE gone == {c \in Client : pc[c] \in {"refused", "done"}}
<1> USE DEF At, MainAt, Go, acceptor
<1>t. TypeOK /\ OneAdmission /\ SlotConservation
  BY DEF IInv
<1>f. Cardinality(InService) \in Nat /\ slots \in Nat /\ lost \in Nat /\ MaxClients \in Nat
  BY <1>t, RegistryAssumption, FS_Subset, FS_CardinalityType DEF InService, TypeOK
<1>1. CASE Quiet
  <2>1. InService' = InService /\ main' = main /\ lost' = lost
    BY <1>1, <1>t, QuietSets
  <2>2. gone' = gone
    BY <1>1, <1>t DEF Quiet, TypeOK, Serving
  <2> QED BY <2>1, <2>2 DEF Pool!vars
<1>2. CASE WaitSlot
  <2>1. InService' = InService /\ gone' = gone /\ lost' = lost
    BY <1>2 DEF WaitSlot, InService
  <2>2. main = "sem" /\ main' = "accept" /\ slots > 0
    BY <1>2 DEF WaitSlot
  <2>3. Cardinality(InService) + lost < MaxClients
    BY <2>2, <1>t, <1>f DEF SlotConservation
  <2>4. Pool!Reserve
    <3>1. Pool!InUse < MaxClients
      <4>1. ~(main = "accept")
        BY <2>2
      <4>2. Pool!InUse = Cardinality(InService) + lost + (IF main = "accept" THEN 1 ELSE 0)
        BY DEF Pool!InUse, Pool!Cardinality, Cardinality
      <4> HIDE DEF InService
      <4> QED BY <4>1, <4>2, <2>3, <1>f
    <3>2. ~(main = "accept") /\ (main' = "accept") = TRUE
      BY <2>2
    <3> QED BY <3>1, <3>2, <2>1 DEF Pool!Reserve
  <2> QED BY <2>4 DEF Pool!Next
<1>3. CASE AcceptFails
  <2>1. Pool!WasteHeld
    BY <1>3 DEF AcceptFails, InService, Pool!WasteHeld
  <2> QED BY <2>1 DEF Pool!Next
<1>4. ASSUME NEW c \in Client, Accept(c) PROVE [Pool!Next]_(Pool!vars)
  <2>1. /\ c \notin InService \cup gone
        /\ InService' = InService \cup {c} /\ gone' = gone
    BY <1>4, <1>t DEF Accept, TypeOK, InService, Embryo, Serving, Leaving
  <2>2. Pool!Admit(c)
    BY <1>4, <2>1 DEF Accept, Pool!Admit
  <2> QED BY <2>2 DEF Pool!Next
<1>5. ASSUME NEW c \in Client,
             AddToList(c) \/ Spawn(c) \/ SpawnFails(c) \/ CloseSocket(c) \/ RemoveClient(c)
      PROVE [Pool!Next]_(Pool!vars)
  <2>1. InService' = InService /\ gone' = gone
    BY <1>5, <1>t DEF AddToList, Spawn, SpawnFails, CloseSocket, RemoveClient, TypeOK,
                      InService, Embryo, Serving, Leaving
  <2>2. (main = "accept") = (main' = "accept") /\ lost' = lost
    BY <1>5, <1>t DEF AddToList, Spawn, SpawnFails, CloseSocket, RemoveClient, OneAdmission, Embryo
  <2> QED BY <2>1, <2>2 DEF Pool!vars
<1>6. ASSUME NEW c \in Client, RemoveRefused(c) PROVE [Pool!Next]_(Pool!vars)
  <2>1. c \in InService /\ InService' = InService \ {c} /\ gone' = gone \cup {c}
    BY <1>6, <1>t DEF RemoveRefused, TypeOK, InService, Embryo, Serving, Leaving
  <2>2. main = "admit" /\ main' = "sem" /\ lost' = lost + 1
    BY <1>6, <1>t DEF RemoveRefused, OneAdmission, Embryo
  <2>3. Pool!WasteServed(c)
    BY <2>1, <2>2 DEF Pool!WasteServed
  <2> QED BY <2>3 DEF Pool!Next
<1>7. ASSUME NEW c \in Client, PostSlot(c) PROVE [Pool!Next]_(Pool!vars)
  <2>1. c \in InService /\ InService' = InService \ {c} /\ gone' = gone \cup {c}
    BY <1>7, <1>t DEF PostSlot, TypeOK, InService, Embryo, Serving, Leaving
  <2>2. Pool!Release(c)
    BY <1>7, <2>1 DEF PostSlot, Pool!Release
  <2> QED BY <2>2 DEF Pool!Next
<1> QED
  BY Steps, <1>1, <1>2, <1>3, <1>4, <1>5, <1>6, <1>7

\* At most MAX_CLIENTS connections are served, each once, and slots move only
\* as the abstract pool allows.
THEOREM PoolImplemented == Spec => ImplementsPool
BY InitPool, NextPool, InductiveInvariant, PTL DEF Spec, ImplementsPool, Pool!Spec
===============================================================================
