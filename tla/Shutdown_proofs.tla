---------------------------- MODULE Shutdown_proofs ----------------------------
(***************************************************************************)
(* Proofs, for any number of sessions, that nodes are freed once as long   *)
(* as the mutex of the list is not destroyed, and that a lock that is kept *)
(* keeps the handler from destroying it.                                   *)
(***************************************************************************)
EXTENDS Shutdown, SequenceTheorems, TLAPS

\* remove_client_from_list: on a list without repetitions, exactly the node
\* asked for goes, and the others keep their order.
LEMMA RemoveFirstProperties ==
    ASSUME NEW S, NEW s \in Seq(S), IsInjective(s), NEW e
    PROVE  /\ RemoveFirst(s, e) \in Seq(S)
           /\ IsInjective(RemoveFirst(s, e))
           /\ ToSet(RemoveFirst(s, e)) = ToSet(s) \ {e}
<1>1. CASE ~\E i \in 1 .. Len(s) : s[i] = e
  BY <1>1 DEF RemoveFirst, ToSet
<1>2. CASE \E i \in 1 .. Len(s) : s[i] = e
  <2>1. PICK i \in 1 .. Len(s) : s[i] = e
    BY <1>2
  <2>2. {j \in 1 .. Len(s) : s[j] = e} = {i}
    BY <2>1 DEF IsInjective
  <2>3. Min({i}) = i
    BY DEF Min
  <2>4. RemoveFirst(s, e) = RemoveAt(s, i)
    BY <1>2, <2>2, <2>3 DEF RemoveFirst, SelectInSeq
  <2> DEFINE left == SubSeq(s, 1, i - 1)
             right == SubSeq(s, i + 1, Len(s))
             t == left \o right
  <2>5. /\ left \in Seq(S) /\ Len(left) = i - 1
        /\ \A j \in 1 .. i - 1 : left[j] = s[j]
    BY SubSeqProperties
  <2>6. /\ right \in Seq(S) /\ Len(right) = Len(s) - i
        /\ \A j \in 1 .. Len(s) - i : right[j] = s[i + j]
    BY SubSeqProperties
  <2> HIDE DEF left, right
  <2>7. /\ t \in Seq(S) /\ Len(t) = Len(s) - 1
        /\ \A j \in 1 .. Len(s) - 1 : t[j] = IF j < i THEN s[j] ELSE s[j + 1]
    <3>1. /\ t \in Seq(S) /\ Len(t) = (i - 1) + (Len(s) - i)
          /\ \A j \in 1 .. (i - 1) + (Len(s) - i) :
                t[j] = IF j <= i - 1 THEN left[j] ELSE right[j - (i - 1)]
      <4>1. /\ t \in Seq(S) /\ Len(t) = Len(left) + Len(right)
            /\ \A j \in 1 .. Len(left) + Len(right) :
                  t[j] = IF j <= Len(left) THEN left[j] ELSE right[j - Len(left)]
        BY <2>5, <2>6, ConcatProperties
      <4> QED BY <4>1, <2>5, <2>6
    <3>2. Len(s) \in Nat /\ (i - 1) + (Len(s) - i) = Len(s) - 1
      BY LenProperties
    <3> HIDE DEF t
    <3>3. ASSUME NEW j \in 1 .. Len(s) - 1
          PROVE  t[j] = IF j < i THEN s[j] ELSE s[j + 1]
      <4>1. CASE j < i
        BY <4>1, <3>1, <3>2, <2>5
      <4>2. CASE ~(j < i)
        <5>1. j - (i - 1) \in 1 .. Len(s) - i /\ i + (j - (i - 1)) = j + 1
          BY <4>2, <3>2
        <5>2. t[j] = right[j - (i - 1)]
          BY <4>2, <3>1, <3>2
        <5>3. right[j - (i - 1)] = s[i + (j - (i - 1))]
          BY <5>1, <2>6
        <5> QED BY <5>1, <5>2, <5>3, <4>2
      <4> QED BY <4>1, <4>2
    <3> QED BY <3>1, <3>2, <3>3
  <2>8. RemoveFirst(s, e) = t
    BY <2>4 DEF RemoveAt, left, right
  <2> HIDE DEF t
  <2>9. IsInjective(t)
    BY <2>7 DEF IsInjective
  <2>10. ToSet(t) = ToSet(s) \ {e}
    <3>1. \A j \in 1 .. Len(t) : t[j] \in ToSet(s) \ {e}
      BY <2>1, <2>7 DEF IsInjective, ToSet
    <3>2. ASSUME NEW k \in 1 .. Len(s), s[k] # e
          PROVE  \E j \in 1 .. Len(t) : t[j] = s[k]
      <4>1. CASE k < i
        BY <4>1, <2>7
      <4>2. CASE k > i
        <5>1. k - 1 \in 1 .. Len(t) /\ ~(k - 1 < i) /\ (k - 1) + 1 = k
          BY <4>2, <2>7
        <5> QED BY <5>1, <2>7
      <4> QED BY <3>2, <2>1, <4>1, <4>2
    <3>3. ToSet(s) = {s[k] : k \in 1 .. Len(s)} /\ ToSet(t) = {t[j] : j \in 1 .. Len(t)}
      BY <2>7 DEF ToSet
    <3>4. \A x \in ToSet(t) : x \in ToSet(s) \ {e}
      BY <3>1, <3>3
    <3>5. \A x \in ToSet(s) \ {e} : x \in ToSet(t)
      BY <3>2, <3>3
    <3> QED BY <3>4, <3>5
  <2> QED BY <2>7, <2>8, <2>9, <2>10
<1> QED BY <1>1, <1>2

\* add_client_to_list: the new node is in front.
LEMMA InsertFirstProperties ==
    ASSUME NEW S, NEW s \in Seq(S), IsInjective(s), NEW e \in S, e \notin ToSet(s)
    PROVE  /\ <<e>> \o s \in Seq(S)
           /\ IsInjective(<<e>> \o s)
           /\ ToSet(<<e>> \o s) = ToSet(s) \cup {e}
<1> DEFINE t == <<e>> \o s
<1>1. /\ t \in Seq(S) /\ Len(t) = Len(s) + 1 /\ t[1] = e
      /\ \A j \in 2 .. Len(s) + 1 : t[j] = s[j - 1]
  <2>1. <<e>> \in Seq(S) /\ Len(<<e>>) = 1 /\ <<e>>[1] = e
    OBVIOUS
  <2>2. /\ t \in Seq(S) /\ Len(t) = Len(<<e>>) + Len(s)
        /\ \A j \in 1 .. Len(<<e>>) + Len(s) :
              t[j] = IF j <= Len(<<e>>) THEN <<e>>[j] ELSE s[j - Len(<<e>>)]
    BY <2>1, ConcatProperties
  <2> HIDE DEF t
  <2> QED
    BY <2>1, <2>2, LenProperties
<1> HIDE DEF t
<1>2. \A k \in 1 .. Len(s) : k + 1 \in 2 .. Len(t) /\ t[k + 1] = s[k]
  BY <1>1, LenProperties
<1>3. \A j \in 2 .. Len(t) : j - 1 \in 1 .. Len(s) /\ t[j] = s[j - 1] /\ t[j] # e
  BY <1>1, LenProperties DEF ToSet
<1>4. IsInjective(t)
  <2> SUFFICES ASSUME NEW i \in 1 .. Len(t), NEW j \in 1 .. Len(t), t[i] = t[j] PROVE i = j
    BY <1>1 DEF IsInjective
  <2>1. CASE i = 1 \/ j = 1
    BY <2>1, <1>1, <1>3
  <2>2. CASE i # 1 /\ j # 1
    <3>1. i - 1 \in 1 .. Len(s) /\ j - 1 \in 1 .. Len(s) /\ s[i - 1] = s[j - 1]
      BY <2>2, <1>3
    <3>2. i - 1 = j - 1
      BY <3>1 DEF IsInjective
    <3> QED
      BY <3>2
  <2> QED
    BY <2>1, <2>2
<1>5. ToSet(t) = ToSet(s) \cup {e}
  <2>1. ToSet(t) = {t[j] : j \in 1 .. Len(t)} /\ ToSet(s) = {s[j] : j \in 1 .. Len(s)}
    BY <1>1 DEF ToSet
  <2>2. \A x \in ToSet(t) : x \in ToSet(s) \cup {e}
    BY <2>1, <1>1, <1>3
  <2>3. ASSUME NEW x \in ToSet(s) PROVE x \in ToSet(t)
    <3>1. PICK k \in 1 .. Len(s) : s[k] = x
      BY <2>1
    <3>2. k + 1 \in 1 .. Len(t) /\ t[k + 1] = x
      BY <3>1, <1>2
    <3> QED
      BY <2>1, <3>2
  <2>4. e \in ToSet(t)
    BY <2>1, <1>1, LenProperties
  <2> QED
    BY <2>2, <2>3, <2>4
<1> QED
  BY <1>1, <1>4, <1>5 DEF t

\* What a thread is doing before and after it holds the lock of a broadcast.
LEMMA CastLabels ==
    ASSUME NEW label \in DOMAIN Cast
    PROVE  /\ label \in {"serve", "bye", "event", "fin"}
           /\ Cast[label] \in {"saying", "leaving", "telling", "ending"}
BY DEF Cast

LEMMA SentLabels ==
    ASSUME NEW label \in DOMAIN Sent
    PROVE  /\ label \in {"saying", "leaving", "telling", "ending"}
           /\ Sent[label] \in {"serve", "closing", "fin", "sleep"}
           /\ Failed[label] \in {"serve", "closing", "fin", "sleep"}
BY DEF Sent, Failed

LEMMA InitInv == Init => IInv
<1> SUFFICES ASSUME Init PROVE IInv
  OBVIOUS
<1>1. TypeOK
  <2>1. <<Server>> \in Seq(Session \cup {Server})
    OBVIOUS
  <2> QED
    BY <2>1 DEF Init, TypeOK, Label
<1>2. IsInjective(list) /\ ToSet(list) = {Server}
  BY DEF Init, IsInjective, ToSet
<1>3. FreedOnce
  BY <1>1 DEF FreedOnce, Init
<1> QED
  BY <1>1, <1>2, <1>3, ShutdownAssumption
     DEF IInv, Init, Exclusion, Inside, ShutdownAssumption, Thread, TypeOK

\* A thread that only moves on, between what it does with the lock.
LEMMA MoveInv ==
    ASSUME IInv, NEW t \in Thread, NEW label \in Label,
           pc[t] \notin {"none", "head", "index", "aim", "found"},
           label \notin {"none", "head", "index", "aim"},
           t = Handler => ~destroyed,
           Go(t, label), UNCHANGED <<heap, mutex, user, found, host, aim>>, up' \in BOOLEAN
    PROVE  IInv'
<1> USE DEF IInv, FreedOnce, Go, heap, mutex
<1>1. TypeOK'
  BY DEF TypeOK
<1>2. IsInjective(list)' /\ ToSet(list)' = ToSet(list)
  OBVIOUS
<1> QED
  BY <1>1, <1>2 DEF TypeOK, Exclusion, Label, Inside, Thread

\* Nobody is in the list when the lock is free.
LEMMA NobodyInside ==
    ASSUME IInv, ~destroyed, holder = NoThread
    PROVE  \A t \in Thread : pc[t] \notin Inside /\ found[t] = NoThread
BY ShutdownAssumption DEF IInv, Exclusion, Inside, Thread, ShutdownAssumption

\* Only the holder is in the list.
LEMMA HolderInside ==
    ASSUME IInv, ~destroyed, NEW t \in Thread, pc[t] \in Inside
    PROVE  /\ holder = t
           /\ \A r \in Thread \ {t} : pc[r] \notin Inside /\ found[r] = NoThread
BY DEF IInv, Exclusion, Inside

LEMMA ConnectInv ==
    ASSUME IInv, NEW s \in Session, Connect(s)
    PROVE  IInv'
<1> USE DEF IInv, FreedOnce, Connect, Go, mutex
<1>1. s \in Thread /\ s # Handler /\ s \in Session \cup {Server}
  BY ShutdownAssumption DEF ShutdownAssumption, Thread
<1>2. s \notin ToSet(list) /\ pc[s] = "none" /\ (~destroyed => s \notin freed)
  OBVIOUS
<1>3. /\ list' \in Seq(Session \cup {Server}) /\ IsInjective(list')
      /\ ToSet(list') = ToSet(list) \cup {s}
  <2>1. list \in Seq(Session \cup {Server}) /\ IsInjective(list)
    BY DEF TypeOK
  <2> QED
    BY <1>1, <1>2, <2>1, InsertFirstProperties
<1>4. TypeOK'
  BY <1>1, <1>3 DEF TypeOK, Label
<1>5. ~destroyed => \A t \in Thread : pc[t] \notin Inside /\ found[t] = NoThread
  BY NobodyInside
<1>6. found[s] = NoThread
  BY <1>1, <1>2
<1>7. FreedOnce'
  BY <1>2, <1>3, <1>4 DEF TypeOK
<1>8. ~destroyed => Exclusion'
  BY <1>1, <1>5 DEF Exclusion, Inside, TypeOK
<1> QED
  BY <1>1, <1>2, <1>3, <1>4, <1>6, <1>7, <1>8 DEF TypeOK

LEMMA BeginCastInv ==
    ASSUME IInv, NEW t \in Thread, BeginCast(t)
    PROVE  IInv'
<1> USE DEF IInv, FreedOnce, BeginCast, Go, heap
<1>1. PICK label \in DOMAIN Cast : pc[t] = label /\ Go(t, Cast[label])
  BY DEF At
<1> DEFINE next == Cast[label]
<1>2. /\ pc[t] \in {"serve", "bye", "event", "fin"}
      /\ next \in {"saying", "leaving", "telling", "ending"}
  BY <1>1, CastLabels
<1>3. pc' = [pc EXCEPT ![t] = next]
  BY <1>1
<1> HIDE DEF next
<1>4. TypeOK'
  BY <1>2, <1>3 DEF TypeOK, Inside, Lock
<1>5. IsInjective(list)' /\ ToSet(list)' = ToSet(list)
  OBVIOUS
<1>6. ~destroyed => Exclusion'
  BY <1>2, <1>3, <1>4, NobodyInside DEF Exclusion, Lock, TypeOK
<1>7. t = Handler => ~destroyed
  BY <1>2
<1> QED
  BY <1>2, <1>3, <1>4, <1>5, <1>6, <1>7 DEF TypeOK, Thread

LEMMA CastDoneInv ==
    ASSUME IInv, NEW t \in Thread, CastDone(t)
    PROVE  IInv'
<1> USE DEF IInv, FreedOnce, CastDone, Go, heap
<1>1. PICK label \in DOMAIN Sent : pc[t] = label /\ Go(t, Sent[label])
  BY DEF At
<1> DEFINE next == Sent[label]
<1>2. /\ pc[t] \in {"saying", "leaving", "telling", "ending"}
      /\ next \in {"serve", "closing", "fin", "sleep"}
  BY <1>1, SentLabels
<1>3. pc' = [pc EXCEPT ![t] = next]
  BY <1>1
<1> HIDE DEF next
<1>4. TypeOK'
  BY <1>2, <1>3 DEF TypeOK, Label, Unlock
<1>5. IsInjective(list)' /\ ToSet(list)' = ToSet(list)
  OBVIOUS
<1>6. pc[t] \in Inside
  BY <1>2 DEF Inside
<1>7. ~destroyed => Exclusion'
  BY <1>2, <1>3, <1>4, <1>6, HolderInside DEF Exclusion, Inside, TypeOK
<1>8. t = Handler => ~destroyed
  BY <1>2
<1> QED
  BY <1>2, <1>3, <1>4, <1>5, <1>7, <1>8 DEF TypeOK, Thread

LEMMA CastFailsInv ==
    ASSUME IInv, NEW t \in Thread, CastFails(t)
    PROVE  IInv'
<1>1. PICK label \in DOMAIN Sent : pc[t] = label /\ Go(t, Failed[label])
  BY DEF CastFails, At
<1>2. /\ pc[t] \in {"saying", "leaving", "telling", "ending"}
      /\ Failed[label] \in {"serve", "closing", "fin", "sleep"}
  BY <1>1, SentLabels
<1>3. Failed[label] \in Label
  BY <1>2 DEF Label
<1>4. t = Handler => ~destroyed
  BY <1>2 DEF IInv
<1>5. UNCHANGED <<heap, mutex, user, found, host, aim, up>> /\ up \in BOOLEAN
  BY DEF CastFails, IInv, FreedOnce, TypeOK
<1> QED
  BY <1>1, <1>2, <1>3, <1>4, <1>5, MoveInv

\* The steps that change the process, the host or a user only.
LEMMA QuietInv ==
    ASSUME IInv, UNCHANGED <<heap, mutex, pc, found>>, TypeOK',
           \A s \in Session : user'[s] = "away" => user[s] = "away",
           pc[Handler] = "none" => host' = NoThread
    PROVE  IInv'
<1> USE DEF IInv, FreedOnce, heap, mutex
<1>1. IsInjective(list)' /\ ToSet(list)' = ToSet(list)
  OBVIOUS
<1> QED
  BY <1>1 DEF Exclusion

\* Whoever begins a removal gets the lock, unless there is none any more.
LEMMA FindNodeInv ==
    ASSUME IInv, NEW t \in Thread, NEW node \in Session \cup {Server, NoThread},
           pc[t] \in {"closed", "aim"}, FindNode(t, node, "found"),
           aim' \in {aim, NoThread}, UNCHANGED <<heap, destroyed, user, host, up>>
    PROVE  IInv'
<1> USE DEF IInv, FreedOnce, FindNode, Go, heap
<1>1. TypeOK'
  BY DEF TypeOK, Inside, Lock
<1>2. IsInjective(list)' /\ ToSet(list)' = ToSet(list)
  OBVIOUS
<1>3. ASSUME ~destroyed
      PROVE  Exclusion' /\ \A r \in Thread : found'[r] \notin freed'
  <2>1. holder = NoThread /\ holder' = t
    BY <1>3 DEF Lock
  <2>2. \A r \in Thread : pc[r] \notin Inside /\ found[r] = NoThread
    BY <1>3, <2>1, NobodyInside
  <2>3. /\ pc' = [pc EXCEPT ![t] = "found"]
        /\ found' = [found EXCEPT ![t] = IF node \in ToSet(list) THEN node ELSE NoThread]
    OBVIOUS
  <2>4. NoThread \notin freed
    BY ShutdownAssumption DEF TypeOK, ShutdownAssumption
  <2> QED
    BY <1>2, <1>3, <2>1, <2>2, <2>3, <2>4 DEF TypeOK, Exclusion, Inside
<1>4. FreedOnce'
  BY <1>1, <1>2, <1>3
<1> QED
  BY <1>1, <1>2, <1>3, <1>4 DEF TypeOK, Thread

LEMMA FreeNodeInv ==
    ASSUME IInv, NEW t \in Thread, NEW next \in {"ended", "head"},
           t # Handler => next = "ended", pc[t] = "found", FreeNode(t, next),
           UNCHANGED <<destroyed, user, host, aim, up>>,
           t = Handler => next = "head"
    PROVE  IInv'
<1> USE DEF IInv, FreedOnce, FreeNode, Go
<1>1. /\ list' \in Seq(Session \cup {Server}) /\ IsInjective(list')
      /\ ToSet(list') = ToSet(list) \ {found[t]}
  <2>1. list \in Seq(Session \cup {Server}) /\ IsInjective(list)
    BY DEF TypeOK
  <2> QED
    BY <2>1, RemoveFirstProperties
<1>2. TypeOK'
  <2>1. freed' \subseteq Session \cup {Server}
    BY DEF TypeOK
  <2>2. corrupt' \in BOOLEAN
    BY DEF TypeOK
  <2> QED
    BY <1>1, <2>1, <2>2 DEF TypeOK, Label, Unlock
<1>3. ASSUME ~destroyed
      PROVE  /\ Exclusion' /\ FreedOnce'
             /\ \A s \in Session : user[s] = "away" => s \notin freed'
  <2>1. /\ holder = t
        /\ \A r \in Thread \ {t} : pc[r] \notin Inside /\ found[r] = NoThread
    BY <1>3, HolderInside DEF Inside
  <2>2. /\ found[t] \notin freed
        /\ found[t] # NoThread => found[t] \in ToSet(list)
        /\ ~corrupt /\ freed \cap ToSet(list) = {}
    BY <1>3 DEF Exclusion
  <2>3. /\ pc' = [pc EXCEPT ![t] = next]
        /\ found' = [found EXCEPT ![t] = NoThread]
        /\ freed' = freed \cup ({found[t]} \ {NoThread})
        /\ corrupt' = (corrupt \/ found[t] \in freed)
    OBVIOUS
  <2>4. NoThread \notin freed'
    BY <1>2, ShutdownAssumption DEF TypeOK, ShutdownAssumption
  <2>5. \A r \in Thread : found'[r] = NoThread /\ pc'[r] \notin Inside
    BY <2>1, <2>3 DEF TypeOK, Inside
  <2>6. Exclusion'
    BY <2>5 DEF Exclusion, Inside
  <2>7. ~corrupt'
    BY <2>2, <2>3
  <2>8. freed' \cap ToSet(list') = {}
    BY <1>1, <2>2, <2>3
  <2>9. FreedOnce'
    BY <1>2, <2>4, <2>5, <2>7, <2>8
  <2>10. \A s \in Session : user[s] = "away" => s \notin freed'
    BY <1>3, <2>2, <2>3
  <2> QED
    BY <2>6, <2>9, <2>10
<1>4. FreedOnce'
  BY <1>2, <1>3
<1>5. /\ pc' = [pc EXCEPT ![t] = next]
      /\ found' = [found EXCEPT ![t] = NoThread]
  OBVIOUS
<1>6. \A s \in Session : s \in Thread /\ s # Handler
  BY ShutdownAssumption DEF ShutdownAssumption, Thread
<1>7. \A s \in Session : user'[s] = "away" =>
          /\ pc'[s] = "none" /\ s \notin ToSet(list')
          /\ ~destroyed' => s \notin freed'
  BY <1>1, <1>3, <1>5, <1>6 DEF TypeOK
<1>8. \A r \in Thread : found'[r] # NoThread => pc'[r] = "found"
  BY <1>5 DEF TypeOK
<1>9. Handler \in Thread
  BY DEF Thread
<1>10. /\ pc'[Handler] = "none" => host' = NoThread
       /\ destroyed' => pc'[Handler] \in {"head", "index", "aim", "found"}
  BY <1>5, <1>9 DEF TypeOK
<1> QED
  BY <1>1, <1>3, <1>4, <1>7, <1>8, <1>10

\* What the handler reads before it takes the lock changes nothing else.
LEMMA AimInv ==
    ASSUME IInv, NEW label \in {"index", "aim"}, pc[Handler] \in {"head", "index"},
           Go(Handler, label), aim' \in Session \cup {Server, NoThread},
           UNCHANGED <<heap, mutex, user, found, host, up>>
    PROVE  IInv'
<1> USE DEF IInv, FreedOnce, Go, heap, mutex
<1>1. TypeOK'
  BY DEF TypeOK, Label
<1>2. IsInjective(list)' /\ ToSet(list)' = ToSet(list)
  OBVIOUS
<1>3. Handler \in Thread /\ \A s \in Session : s \in Thread /\ s # Handler
  BY ShutdownAssumption DEF ShutdownAssumption, Thread
<1>4. ~destroyed => Exclusion'
  BY <1>1 DEF TypeOK, Exclusion, Inside
<1> QED
  BY <1>1, <1>2, <1>3, <1>4 DEF TypeOK

\* Every step of a session keeps the invariant.
LEMMA SessionInv ==
    ASSUME IInv, NEW s \in Session,
           Connect(s) \/ Leave(s) \/ BeginCast(s) \/ RemoveSelf(s) \/ SessionStep(s)
    PROVE  IInv'
<1>1. s \in Thread /\ s # Handler /\ s \in Session \cup {Server}
  BY ShutdownAssumption DEF ShutdownAssumption, Thread
<1>2. CASE Connect(s)
  BY <1>2, ConnectInv
<1>3. CASE Leave(s)
  <2>1. TypeOK'
    BY <1>3 DEF Leave, IInv, FreedOnce, TypeOK, heap, mutex
  <2>2. \A r \in Session : user'[r] = "away" => user[r] = "away"
    BY <1>3 DEF Leave, IInv, FreedOnce, TypeOK
  <2> QED
    BY <1>3, <2>1, <2>2, QuietInv DEF Leave, IInv
<1>4. CASE BeginCast(s)
  BY <1>1, <1>4, BeginCastInv
<1>5. CASE RemoveSelf(s)
  BY <1>1, <1>5, FindNodeInv DEF RemoveSelf, At
<1>6. CASE CastDone(s)
  BY <1>1, <1>6, CastDoneInv
<1>7. CASE CastFails(s)
  BY <1>1, <1>7, CastFailsInv
<1>8. CASE CastKills(s)
  <2>1. TypeOK'
    BY <1>8 DEF CastKills, IInv, FreedOnce, TypeOK, heap, mutex
  <2> QED
    BY <1>8, <2>1, QuietInv DEF CastKills, IInv
<1>9. CASE RecvEnd(s)
  BY <1>1, <1>9, MoveInv DEF RecvEnd, At, Label, IInv, FreedOnce, TypeOK
<1>10. CASE Close(s)
  BY <1>1, <1>10, MoveInv DEF Close, At, Label, IInv, FreedOnce, TypeOK
<1>11. CASE SelfRemoved(s)
  BY <1>1, <1>11, FreeNodeInv DEF SelfRemoved, At
<1> QED
  BY <1>2, <1>3, <1>4, <1>5, <1>6, <1>7, <1>8, <1>9, <1>10, <1>11 DEF SessionStep, CastStep

\* So does every step of the handler.
LEMMA HandlerInv ==
    ASSUME IInv, Interrupt \/ HandlerStep
    PROVE  IInv'
<1>1. Handler \in Thread
  BY DEF Thread
<1>2. CASE Interrupt
  <2> USE DEF IInv, FreedOnce, Interrupt, Go, heap, mutex
  <2>1. TypeOK'
    BY <1>2 DEF TypeOK, Label
  <2>2. IsInjective(list)' /\ ToSet(list)' = ToSet(list)
    BY <1>2
  <2>3. ~destroyed /\ Exclusion'
    BY <1>1, <1>2 DEF TypeOK, Exclusion, Inside
  <2>4. \A s \in Session : s \in Thread /\ s # Handler
    BY ShutdownAssumption DEF ShutdownAssumption, Thread
  <2> QED
    BY <1>1, <1>2, <2>1, <2>2, <2>3, <2>4 DEF TypeOK
<1>3. CASE BeginCast(Handler)
  BY <1>1, <1>3, BeginCastInv
<1>4. CASE CastDone(Handler)
  BY <1>1, <1>4, CastDoneInv
<1>5. CASE CastFails(Handler)
  BY <1>1, <1>5, CastFailsInv
<1>6. CASE CastKills(Handler) \/ ReadNull \/ Exit
  <2>1. TypeOK'
    BY <1>6 DEF CastKills, ReadNull, Exit, IInv, FreedOnce, TypeOK, heap, mutex
  <2> QED
    BY <1>6, <2>1, QuietInv DEF CastKills, ReadNull, Exit, IInv
<1>7. CASE Destroy
  <2> USE DEF IInv, FreedOnce, Destroy, At, Go, heap
  <2>1. TypeOK'
    BY <1>7 DEF TypeOK, Label
  <2>2. IsInjective(list)' /\ ToSet(list)' = ToSet(list)
    BY <1>7
  <2>3. ~destroyed /\ Exclusion'
    BY <1>1, <1>7 DEF TypeOK, Exclusion, Inside
  <2>4. \A s \in Session : s \in Thread /\ s # Handler
    BY ShutdownAssumption DEF ShutdownAssumption, Thread
  <2> QED
    BY <1>1, <1>7, <2>1, <2>2, <2>3, <2>4 DEF TypeOK
<1>8. CASE FreeHead
  <2>1. aim \in Session \cup {Server, NoThread}
    BY DEF IInv, FreedOnce, TypeOK
  <2> QED
    BY <1>1, <1>8, <2>1, FindNodeInv DEF FreeHead, At
<1>10. CASE TestHead
  <2>1. Head(list) \in Session \cup {Server}
    BY <1>10 DEF TestHead, IInv, FreedOnce, TypeOK
  <2> QED
    BY <1>10, <2>1, AimInv DEF TestHead, At
<1>11. CASE ReadIndex
  <2>1. list # <<>> => Head(list) \in Session \cup {Server}
    BY DEF IInv, FreedOnce, TypeOK
  <2>2. aim' \in Session \cup {Server, NoThread}
    BY <1>11, <2>1 DEF ReadIndex, IInv, FreedOnce, TypeOK
  <2> QED
    BY <1>11, <2>2, AimInv DEF ReadIndex, At
<1>9. CASE HeadFreed
  BY <1>1, <1>9, FreeNodeInv DEF HeadFreed, At
<1> QED
  BY <1>2, <1>3, <1>4, <1>5, <1>6, <1>7, <1>8, <1>9, <1>10, <1>11
  DEF HandlerStep, CastStep

LEMMA NextInv == IInv /\ [Next]_vars => IInv'
<1> SUFFICES ASSUME IInv, [Next]_vars PROVE IInv'
  OBVIOUS
<1>1. CASE UNCHANGED vars
  <2>1. TypeOK'
    BY <1>1 DEF vars, heap, mutex, IInv, FreedOnce, TypeOK
  <2> QED
    BY <1>1, <2>1, QuietInv DEF vars, IInv
<1> QED
  BY <1>1, SessionInv, HandlerInv DEF Next

\* The invariant holds in every state the program reaches.
THEOREM Invariant == Spec => []IInv
<1> QED
  BY InitInv, NextInv, PTL DEF Spec

\* As long as the mutex of the list is not destroyed, sessions that leave and a
\* handler that frees the list from its head free every node once, and what a
\* removal has found is still there, although a session may free the head between
\* the handler's test, its read of the index and its lock.
THEOREM NodesAreFreedOnce == Spec => []FreedOnce
<1>1. IInv => FreedOnce
  BY DEF IInv
<1> QED
  BY <1>1, Invariant, PTL

\* A lock that is kept stays kept, whatever the sessions and the handler do, and
\* nothing is destroyed or freed from then on.
LEMMA KeptStep ==
    ASSUME IInv, [Next]_vars, Kept, ~destroyed
    PROVE  Kept' /\ ~destroyed' /\ freed' = freed
<1>1. \A t \in Thread : t # host => pc[t] \notin Inside
  BY HolderInside DEF Kept
<1>2. holder # NoThread
  BY DEF Kept
<1>3. \A t \in Thread : ~Lock(t)
  BY <1>2 DEF Lock
<1>4. \A t \in Thread : ~CastDone(t) /\ ~CastFails(t)
  BY <1>1, SentLabels DEF CastDone, CastFails, At, Inside
<1>5. \A t \in Thread : ~BeginCast(t) /\ ~RemoveSelf(t)
  BY <1>3 DEF BeginCast, RemoveSelf, FindNode
<1>6. \A s \in Session : s \in Thread
  BY DEF Thread
<1>7. \A s \in Session : ~SelfRemoved(s) /\ ~Connect(s)
  BY <1>1, <1>2, <1>6 DEF SelfRemoved, Connect, At, Inside
<1>8. Handler \in Thread
  BY DEF Thread
<1>9. ~FreeHead /\ ~HeadFreed
  BY <1>1, <1>3, <1>8 DEF FreeHead, HeadFreed, FindNode, At, Inside
<1>10. pc \in [Thread -> Label \cup Inside] /\ holder \in Thread
  BY <1>2 DEF IInv, FreedOnce, TypeOK
<1>11. ASSUME NEW s \in Session, RecvEnd(s) \/ Close(s)
       PROVE  Kept' /\ ~destroyed' /\ freed' = freed
  BY <1>6, <1>10, <1>11 DEF RecvEnd, Close, Go, Kept, Inside, heap, mutex
<1>12. ASSUME Interrupt
       PROVE  Kept' /\ ~destroyed' /\ freed' = freed
  <2>1. host = NoThread
    BY <1>12 DEF Interrupt, IInv
  <2> QED
    BY <1>2, <1>8, <1>10, <1>12, <2>1 DEF Interrupt, Go, Kept, Inside, heap, mutex
<1>13. ASSUME Destroy
       PROVE  Kept' /\ ~destroyed' /\ freed' = freed
  BY <1>2, <1>8, <1>10, <1>13 DEF Destroy, Go, Kept, Inside, heap
<1>20. ASSUME TestHead \/ ReadIndex
       PROVE  Kept' /\ ~destroyed' /\ freed' = freed
  BY <1>8, <1>10, <1>20 DEF TestHead, ReadIndex, Go, Kept, Inside, heap, mutex
<1>14. ASSUME UNCHANGED <<heap, mutex, pc, host>>
       PROVE  Kept' /\ ~destroyed' /\ freed' = freed
  BY <1>14 DEF Kept, heap, mutex
<1>15. ASSUME NEW t \in Thread, CastKills(t) \/ ReadNull \/ Exit
       PROVE  UNCHANGED <<heap, mutex, pc, host>>
  BY <1>15 DEF CastKills, ReadNull, Exit
<1>16. ASSUME NEW s \in Session, Leave(s)
       PROVE  UNCHANGED <<heap, mutex, pc, host>>
  BY <1>16 DEF Leave
<1>17. CASE UNCHANGED vars
  BY <1>14, <1>17 DEF vars
<1>18. ASSUME NEW s \in Session,
              Connect(s) \/ Leave(s) \/ BeginCast(s) \/ RemoveSelf(s) \/ SessionStep(s)
       PROVE  Kept' /\ ~destroyed' /\ freed' = freed
  BY <1>4, <1>5, <1>6, <1>7, <1>11, <1>14, <1>15, <1>16, <1>18 DEF SessionStep, CastStep
<1>19. ASSUME HandlerStep
       PROVE  Kept' /\ ~destroyed' /\ freed' = freed
  BY <1>4, <1>5, <1>8, <1>9, <1>13, <1>14, <1>15, <1>19, <1>20 DEF HandlerStep, CastStep
<1> QED
  BY <1>12, <1>17, <1>18, <1>19 DEF Next

\* A broadcast that fails keeps the lock, and with it the list: the handler never
\* destroys the mutex nor frees a node.
THEOREM KeptKeepsTheList == Spec => KeptStopsHandler
<1>1. IInv /\ [Next]_vars => [(Kept /\ ~destroyed) => Kept' /\ ~destroyed' /\ freed' = freed]_vars
  BY KeptStep
<1> QED
  BY <1>1, Invariant, PTL DEF Spec, KeptStopsHandler
===============================================================================
