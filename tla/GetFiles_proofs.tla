---------------------------- MODULE GetFiles_proofs ----------------------------
(***************************************************************************)
(* Proofs, for any choices typed, any padding and any chatter, that the    *)
(* client never waits for a verdict nobody will send, unless its user left *)
(* the command with "exit", and that it connects for files at most once    *)
(* for each confirmation.                                                  *)
(***************************************************************************)
EXTENDS GetFiles, SequenceTheorems, FiniteSetTheorems, TLAPS

PipeWord == {"OK", "NOK", "error"}
DownWord == {"askIndice", "OK", "NOK", "error", "chat", "fin"}

-------------------------------------------------------------------------------
(* What the number of a word in a sequence becomes when a word enters or   *)
(* leaves it.                                                              *)
LEMMA CountType ==
    ASSUME NEW S, NEW s \in Seq(S), NEW w
    PROVE  /\ IsFiniteSet({i \in DOMAIN s : s[i] = w})
           /\ Count(w, s) \in Nat
<1>1. DOMAIN s = 1 .. Len(s) /\ Len(s) \in Nat
  BY LenProperties
<1>2. IsFiniteSet(1 .. Len(s))
  BY <1>1, FS_Interval
<1>3. {i \in DOMAIN s : s[i] = w} \in SUBSET (1 .. Len(s))
  BY <1>1
<1>4. IsFiniteSet({i \in DOMAIN s : s[i] = w})
  BY <1>2, <1>3, FS_Subset
<1> QED
  BY <1>4, FS_CardinalityType DEF Count

LEMMA CountEmpty ==
    ASSUME NEW w
    PROVE  Count(w, <<>>) = 0
<1>1. {i \in DOMAIN <<>> : <<>>[i] = w} = {}
  OBVIOUS
<1> QED
  BY <1>1, FS_EmptySet DEF Count

LEMMA CountAppend ==
    ASSUME NEW S, NEW s \in Seq(S), NEW e \in S, NEW w
    PROVE  Count(w, Append(s, e)) = Count(w, s) + (IF e = w THEN 1 ELSE 0)
<1> DEFINE t == Append(s, e)
           old == {i \in DOMAIN s : s[i] = w}
           new == {i \in DOMAIN t : t[i] = w}
<1>1. /\ DOMAIN s = 1 .. Len(s) /\ Len(s) \in Nat
      /\ DOMAIN t = 1 .. Len(s) + 1
      /\ \A i \in 1 .. Len(s) : t[i] = s[i]
      /\ t[Len(s) + 1] = e
  BY AppendProperties, LenProperties
<1> HIDE DEF t
<1>2. new = IF e = w THEN old \cup {Len(s) + 1} ELSE old
  BY <1>1
<1>3. Len(s) + 1 \notin old
  BY <1>1
<1>4. IsFiniteSet(old)
  BY CountType
<1>5. Cardinality(old) \in Nat
  BY <1>4, FS_CardinalityType
<1> HIDE DEF old, new
<1>6. Cardinality(old \cup {Len(s) + 1}) = Cardinality(old) + 1
  BY <1>3, <1>4, FS_AddElement
<1>7. Cardinality(new) = Cardinality(old) + (IF e = w THEN 1 ELSE 0)
  BY <1>2, <1>5, <1>6
<1> QED
  BY <1>7 DEF Count, old, new, t

LEMMA CountTail ==
    ASSUME NEW S, NEW s \in Seq(S), s # <<>>, NEW w
    PROVE  Count(w, s) = Count(w, Tail(s)) + (IF Head(s) = w THEN 1 ELSE 0)
<1> DEFINE t == Tail(s)
           all == {i \in DOMAIN s : s[i] = w}
           left == {i \in DOMAIN t : t[i] = w}
           later == {i \in all : i # 1}
<1>1. /\ DOMAIN s = 1 .. Len(s) /\ Len(s) \in Nat \ {0}
      /\ t \in Seq(S)
      /\ DOMAIN t = 1 .. Len(s) - 1
      /\ \A i \in 1 .. Len(s) - 1 : t[i] = s[i + 1]
      /\ Head(s) = s[1]
  BY HeadTailProperties, LenProperties, EmptySeq
<1> HIDE DEF t
<1>2. IsFiniteSet(all) /\ IsFiniteSet(left)
  BY <1>1, CountType
<1>3. Cardinality(later) = Cardinality(left)
  <2> DEFINE shift == [i \in left |-> i + 1]
  <2>1. \A i \in left : i + 1 \in later
    BY <1>1
  <2>2. shift \in [left -> later]
    BY <2>1
  <2>3. \A i, j \in left : shift[i] = shift[j] => i = j
    BY <1>1
  <2>4. \A k \in later : \E i \in left : shift[i] = k
    <3>1. ASSUME NEW k \in later PROVE k - 1 \in left /\ (k - 1) + 1 = k
      <4>1. k \in 2 .. Len(s) /\ s[k] = w
        BY <1>1
      <4>2. k - 1 \in 1 .. Len(s) - 1 /\ (k - 1) + 1 = k
        BY <4>1, <1>1
      <4>3. t[k - 1] = s[k]
        BY <4>2, <1>1
      <4> QED
        BY <4>1, <4>2, <4>3, <1>1
    <3> QED
      BY <3>1
  <2> HIDE DEF shift, left, later
  <2>5. ExistsBijection(left, later)
    BY <2>2, <2>3, <2>4 DEF ExistsBijection, Bijection, Injection, Surjection, IsInjective
  <2> QED
    BY <1>2, <2>5, FS_Bijection
<1>4. all = IF Head(s) = w THEN later \cup {1} ELSE later
  BY <1>1
<1>5. 1 \notin later
  OBVIOUS
<1>6. IsFiniteSet(later) /\ Cardinality(later) \in Nat
  <2>1. later \in SUBSET all
    OBVIOUS
  <2> HIDE DEF all, later
  <2> QED
    BY <1>2, <2>1, FS_Subset, FS_CardinalityType
<1> HIDE DEF all, left, later
<1>7. Cardinality(later \cup {1}) = Cardinality(later) + 1
  BY <1>5, <1>6, FS_AddElement
<1>8. Cardinality(all) = Cardinality(left) + (IF Head(s) = w THEN 1 ELSE 0)
  BY <1>3, <1>4, <1>6, <1>7
<1> QED
  BY <1>8 DEF Count, all, left, t
-------------------------------------------------------------------------------
(* Types.                                                                  *)
LEMMA BlockType == Zero \in Block /\ Request \in Block /\ Stop \in Block /\ Choice \subseteq Block
BY DEF Block

LEMMA SelectionType ==
    ASSUME NEW s \in Block
    PROVE  Selection(s) \in Seq(Block)
<1> DEFINE padding == [i \in 1 .. Padding |-> Zero]
<1>1. <<s>> \in Seq(Block)
  OBVIOUS
<1>2. padding \in Seq(Block)
  BY GetFilesAssumption, BlockType DEF GetFilesAssumption
<1> HIDE DEF padding
<1>3. <<s>> \o padding \in Seq(Block)
  BY <1>1, <1>2, ConcatProperties
<1> QED
  BY <1>3 DEF Selection, padding

LEMMA RestType ==
    ASSUME NEW S, NEW s \in Seq(S), NEW k \in 1 .. Len(s)
    PROVE  SubSeq(s, k + 1, Len(s)) \in Seq(S)
<1>1. Len(s) \in Nat /\ \A i \in k + 1 .. Len(s) : s[i] \in S
  BY LenProperties
<1> QED
  BY <1>1, SubSeqProperties

\* What a message becomes in the pipe is one word or none.
LEMMA WordParts ==
    ASSUME NEW m \in DownWord
    PROVE  \/ Word(m) = <<>> /\ m # "OK"
           \/ \E x \in PipeWord : Word(m) = <<x>> /\ (x = "OK" <=> m = "OK")
BY DEF Word, DownWord, PipeWord

LEMMA WordCount ==
    ASSUME NEW s \in Seq(PipeWord), NEW m \in DownWord
    PROVE  /\ s \o Word(m) \in Seq(PipeWord)
           /\ Count("OK", s \o Word(m)) = Count("OK", s) + (IF m = "OK" THEN 1 ELSE 0)
<1>1. Count("OK", s) \in Nat
  BY CountType
<1>2. CASE Word(m) = <<>> /\ m # "OK"
  <2>1. s \o <<>> = s
    BY ConcatEmptySeq
  <2> QED
    BY <1>1, <1>2, <2>1
<1>3. CASE \E x \in PipeWord : Word(m) = <<x>> /\ (x = "OK" <=> m = "OK")
  <2>1. PICK x \in PipeWord : Word(m) = <<x>> /\ (x = "OK" <=> m = "OK")
    BY <1>3
  <2>2. s \o Word(m) = Append(s, x)
    BY <2>1, AppendIsConcat
  <2>3. /\ Append(s, x) \in Seq(PipeWord)
        /\ Count("OK", Append(s, x)) = Count("OK", s) + (IF x = "OK" THEN 1 ELSE 0)
    BY CountAppend, AppendProperties
  <2> QED
    BY <2>1, <2>2, <2>3
<1> QED
  BY <1>2, <1>3, WordParts

LEMMA DownType ==
    ASSUME TypeOK, NEW m \in DownWord
    PROVE  Append(down, m) \in Seq(DownWord)
BY AppendProperties DEF TypeOK, DownWord

\* The three outcomes of a judgement, and the three of a line in the main loop.
LEMMA JudgeParts ==
    ASSUME NEW s, Judge(s)
    PROVE  \/ /\ s \in Valid \cup {Zero} /\ chosen' = s
              /\ session' = "granting" /\ granted' = granted + 1
              /\ down' = Append(down, "OK") /\ exited' = exited
           \/ /\ session' = session /\ chosen' = chosen /\ granted' = granted
              /\ down' = Append(down, "NOK") /\ exited' = exited
           \/ /\ session' = "main" /\ chosen' = chosen /\ granted' = granted
              /\ down' = down /\ exited' = TRUE
BY DEF Judge, LeaveOnExit, Accept, Accepted

LEMMA RecvMainParts ==
    ASSUME RecvMain
    PROVE  \/ session' = "choosing" /\ exited' = FALSE /\ down' = Append(down, "askIndice")
           \/ session' = session /\ exited' = exited /\ down' = down
           \/ session' = session /\ exited' = exited /\ down' = Append(down, "error")
BY DEF RecvMain

LEMMA InitInv == Init => IInv
<1> SUFFICES ASSUME Init PROVE IInv
  OBVIOUS
<1>1. TypeOK
  <2>1. gone \in BOOLEAN /\ stopping \in BOOLEAN
    BY Zenon DEF Init
  <2>2. /\ pick \in Block /\ chosen \in Valid \cup {Zero}
        /\ pipe \in Seq({"OK", "NOK", "error"}) /\ up \in Seq(Block)
        /\ down \in Seq({"askIndice", "OK", "NOK", "error", "chat", "fin"})
    BY BlockType, EmptySeq DEF Init
  <2>3. typed \in 0 .. MaxTyped /\ chats \in 0 .. MaxChat
    BY GetFilesAssumption DEF Init, GetFilesAssumption
  <2> QED
    BY <2>1, <2>2, <2>3 DEF Init, TypeOK
<1>2. DialIsGranted
  BY CountEmpty DEF Init, DialIsGranted
<1> QED
  BY <1>1, <1>2 DEF Init, IInv, VerdictIsComing, AskIsFollowed

\* The types of the client's side and of the two streams.
LEMMA TypeStep ==
    ASSUME TypeOK, [Next]_vars
    PROVE  TypeOK'
<1> USE DEF client, server
<1>1. CASE UNCHANGED vars
  BY <1>1 DEF TypeOK, vars
<1>2. CASE AskFiles
  <2>1. up' \in Seq(Block)
    BY <1>2, BlockType, AppendProperties DEF AskFiles, TypeOK
  <2> QED
    BY <1>2, <2>1, GetFilesAssumption DEF AskFiles, Type, TypeOK, GetFilesAssumption
<1>3. CASE PickFiles
  <2>1. PICK s \in Choice : pick' = s /\ up' = up \o Selection(s)
    BY <1>3 DEF PickFiles
  <2>2. pick' \in Block /\ up' \in Seq(Block)
    BY <2>1, BlockType, SelectionType, ConcatProperties DEF TypeOK
  <2> QED
    BY <1>3, <2>2, GetFilesAssumption DEF PickFiles, Type, TypeOK, GetFilesAssumption
<1>4. CASE ReadPipe
  BY <1>4 DEF ReadPipe, TypeOK
<1>5. CASE Leave
  <2>1. up' \in Seq(Block)
    BY <1>5, BlockType, AppendProperties DEF Leave, TypeOK
  <2> QED
    BY <1>5, <2>1 DEF Leave, TypeOK
<1>6. CASE ListenMain
  <2>1. down' \in Seq(DownWord)
    BY <1>6, HeadTailProperties DEF ListenMain, TypeOK, DownWord
  <2> QED
    BY <1>6, <2>1 DEF ListenMain, TypeOK, DownWord
<1>7. CASE ListenIndices
  <2>1. Head(down) \in DownWord /\ down' \in Seq(DownWord)
    BY <1>7, HeadTailProperties DEF ListenIndices, TypeOK, DownWord
  <2>2. pipe' \in Seq(PipeWord)
    BY <1>7, <2>1, WordCount DEF ListenIndices, TypeOK, PipeWord
  <2> QED
    BY <1>7, <2>1, <2>2 DEF ListenIndices, TypeOK, DownWord, PipeWord
<1>8. CASE ListenEnd
  <2>1. pipe' \in Seq(PipeWord)
    BY <1>8, AppendProperties DEF ListenEnd, TypeOK, PipeWord
  <2> QED
    BY <1>8, <2>1 DEF ListenEnd, TypeOK, PipeWord
<1>9. CASE RecvMain
  <2>1. up' \in Seq(Block)
    BY <1>9, RestType DEF RecvMain, TypeOK
  <2>2. down' \in Seq(DownWord) /\ session' \in {"main", "choosing"} /\ exited' \in BOOLEAN
    BY <1>9, RecvMainParts, DownType DEF RecvMain, TypeOK, DownWord
  <2> QED
    BY <1>9, <2>1, <2>2 DEF RecvMain, TypeOK, DownWord
<1>10. ASSUME NEW s \in Block, Judge(s), session = "choosing"
       PROVE  /\ down' \in Seq(DownWord)
              /\ session' \in {"choosing", "granting", "main"} /\ exited' \in BOOLEAN
              /\ chosen' \in Valid \cup {Zero} /\ granted' \in Nat
  <2>1. Append(down, "OK") \in Seq(DownWord) /\ Append(down, "NOK") \in Seq(DownWord)
    BY DownType DEF DownWord
  <2>2. chosen \in Valid \cup {Zero} /\ granted \in Nat /\ exited \in BOOLEAN
    BY DEF TypeOK
  <2>3. CASE chosen' = s /\ s \in Valid \cup {Zero} /\ session' = "granting"
             /\ granted' = granted + 1 /\ down' = Append(down, "OK") /\ exited' = exited
    BY <2>1, <2>2, <2>3
  <2>4. CASE /\ session' = session /\ chosen' = chosen /\ granted' = granted
             /\ down' = Append(down, "NOK") /\ exited' = exited
    BY <1>10, <2>1, <2>2, <2>4
  <2>5. CASE /\ session' = "main" /\ chosen' = chosen /\ granted' = granted
             /\ down' = down /\ exited' = TRUE
    <3>1. down' \in Seq(DownWord)
      BY <2>5 DEF TypeOK, DownWord
    <3> QED
      BY <2>2, <2>5, <3>1
  <2> QED
    BY <1>10, <2>3, <2>4, <2>5, JudgeParts
<1>11. CASE RecvChoice
  <2>1. up' \in Seq(Block)
    BY <1>11, RestType DEF RecvChoice, TypeOK
  <2>2. up[1] \in Block
    BY <1>11, EmptySeq, LenProperties DEF RecvChoice, TypeOK
  <2> QED
    BY <1>10, <1>11, <2>1, <2>2 DEF RecvChoice, TypeOK, DownWord
<1>12. CASE RecvChoiceEnd
  BY <1>10, <1>12, BlockType DEF RecvChoiceEnd, TypeOK, DownWord
<1>13. CASE Grant
  BY <1>13 DEF Grant, TypeOK
<1>14. CASE RecvMainEnd
  BY <1>14 DEF RecvMainEnd, TypeOK
<1>15. CASE Reset
  BY <1>15 DEF Reset, TypeOK
<1>16. CASE Chat
  <2>1. down' \in Seq(DownWord)
    BY <1>16, AppendProperties DEF Chat, TypeOK, DownWord
  <2> QED
    BY <1>16, <2>1, GetFilesAssumption DEF Chat, TypeOK, DownWord, GetFilesAssumption
<1>17. CASE Shutdown
  <2>1. down' \in Seq(DownWord)
    BY <1>17, AppendProperties DEF Shutdown, TypeOK, DownWord
  <2> QED
    BY <1>17, <2>1 DEF Shutdown, TypeOK, DownWord
<1>18. CASE ServerExits
  BY <1>18 DEF ServerExits, TypeOK
<1> QED
  BY <1>1, <1>2, <1>3, <1>4, <1>5, <1>6, <1>7, <1>8, <1>9, <1>11, <1>12, <1>13, <1>14, <1>15,
     <1>16, <1>17, <1>18 DEF Next, Listener, Session
-------------------------------------------------------------------------------
(* The confirmations.                                                      *)
\* Nothing but a judgement gives a confirmation, and what the client reads it
\* has no longer.
LEMMA CountStep ==
    ASSUME IInv, [Next]_vars
    PROVE  DialIsGranted'
<1> DEFINE dn == Count("OK", down)
           pp == Count("OK", pipe)
<1> USE DEF client, server
<1>1. /\ dn \in Nat /\ pp \in Nat /\ dials \in Nat /\ granted \in Nat
      /\ dials + pp + dn <= granted
  <2>1. down \in Seq(DownWord) /\ pipe \in Seq(PipeWord) /\ dials \in Nat /\ granted \in Nat
    BY DEF IInv, TypeOK, DownWord, PipeWord
  <2> QED
    BY <2>1, CountType DEF IInv, DialIsGranted
<1>2. ASSUME NEW m \in DownWord
      PROVE  Count("OK", Append(down, m)) = dn + (IF m = "OK" THEN 1 ELSE 0)
  BY CountAppend DEF IInv, TypeOK, DownWord
<1>3. ASSUME down # <<>>
      PROVE  /\ Head(down) \in DownWord
             /\ Count("OK", Tail(down)) \in Nat
             /\ dn = Count("OK", Tail(down)) + (IF Head(down) = "OK" THEN 1 ELSE 0)
  <2>1. down \in Seq(DownWord)
    BY DEF IInv, TypeOK, DownWord
  <2>2. Head(down) \in DownWord /\ Tail(down) \in Seq(DownWord)
    BY <1>3, <2>1, HeadTailProperties
  <2> QED
    BY <1>3, <2>1, <2>2, CountTail, CountType
<1>4. CASE dials' = dials /\ pipe' = pipe /\ granted' = granted /\ down' = down
  BY <1>1, <1>4 DEF DialIsGranted
<1>5. CASE /\ dials' = dials /\ pipe' = pipe /\ granted' = granted
           /\ \E m \in DownWord \ {"OK"} : down' = Append(down, m)
  <2>1. Count("OK", down') = dn
    BY <1>1, <1>2, <1>5
  <2> QED
    BY <1>1, <1>5, <2>1 DEF DialIsGranted
<1>6. CASE dials' = dials /\ pipe' = pipe /\ granted' = granted + 1 /\ down' = Append(down, "OK")
  <2>1. Count("OK", down') = dn + 1
    BY <1>2, <1>6 DEF DownWord
  <2> QED
    BY <1>1, <1>6, <2>1 DEF DialIsGranted
<1>7. CASE AskFiles \/ PickFiles \/ Leave
  BY <1>4, <1>7 DEF AskFiles, PickFiles, Leave
<1>8. CASE ReadPipe
  <2>1. Count("OK", pipe') = 0 /\ down' = down /\ granted' = granted
    BY <1>8, CountEmpty DEF ReadPipe
  <2>2. CASE Head(pipe) = "OK"
    <3>1. pp > 0
      <4>1. pipe \in Seq(PipeWord) /\ pipe # <<>>
        BY <1>8 DEF ReadPipe, IInv, TypeOK, PipeWord
      <4>2. Tail(pipe) \in Seq(PipeWord)
        BY <4>1, HeadTailProperties
      <4>3. Count("OK", Tail(pipe)) \in Nat
        BY <4>2, CountType
      <4>4. pp = Count("OK", Tail(pipe)) + 1
        BY <2>2, <4>1, CountTail
      <4> QED
        BY <4>3, <4>4
    <3>2. dials' = dials + 1
      BY <1>8, <2>2 DEF ReadPipe
    <3> QED
      BY <1>1, <2>1, <3>1, <3>2 DEF DialIsGranted
  <2>3. CASE Head(pipe) # "OK"
    <3>1. dials' = dials
      BY <1>8, <2>3 DEF ReadPipe
    <3> QED
      BY <1>1, <2>1, <3>1 DEF DialIsGranted
  <2> QED
    BY <2>2, <2>3
<1>9. CASE ListenMain
  <2>1. down # <<>> /\ down' = Tail(down) /\ dials' = dials /\ pipe' = pipe /\ granted' = granted
    BY <1>9 DEF ListenMain
  <2>2. Count("OK", down') \in Nat /\ Count("OK", down') <= dn
    BY <1>3, <2>1
  <2> QED
    BY <1>1, <2>1, <2>2 DEF DialIsGranted
<1>10. CASE ListenIndices
  <2>1. /\ down # <<>> /\ down' = Tail(down)
        /\ pipe' = pipe \o Word(Head(down))
        /\ dials' = dials /\ granted' = granted
    BY <1>10 DEF ListenIndices
  <2>2. Count("OK", pipe') = pp + (IF Head(down) = "OK" THEN 1 ELSE 0)
    BY <1>3, <2>1, WordCount DEF IInv, TypeOK, PipeWord
  <2> QED
    BY <1>1, <1>3, <2>1, <2>2 DEF DialIsGranted
<1>11. CASE ListenEnd
  <2>1. down' = down /\ dials' = dials /\ granted' = granted
        /\ (pipe' = pipe \/ pipe' = Append(pipe, "error"))
    BY <1>11 DEF ListenEnd
  <2>2. Count("OK", Append(pipe, "error")) = pp
    <3>1. pipe \in Seq(PipeWord) /\ "error" \in PipeWord
      BY DEF IInv, TypeOK, PipeWord
    <3>2. Count("OK", Append(pipe, "error")) = pp + 0
      BY <3>1, CountAppend
    <3> QED
      BY <1>1, <3>2
  <2>3. Count("OK", pipe') = pp
    BY <2>1, <2>2
  <2> QED
    BY <1>1, <2>1, <2>3 DEF DialIsGranted
<1>12. CASE RecvMain
  BY <1>4, <1>5, <1>12, RecvMainParts DEF RecvMain, DownWord
<1>13. CASE RecvChoice
  BY <1>4, <1>5, <1>6, <1>13, JudgeParts DEF RecvChoice, DownWord
<1>14. CASE RecvChoiceEnd
  BY <1>4, <1>5, <1>6, <1>14, JudgeParts DEF RecvChoiceEnd, DownWord
<1>15. CASE Grant \/ RecvMainEnd \/ Reset \/ ServerExits
  BY <1>4, <1>15 DEF Grant, RecvMainEnd, Reset, ServerExits
<1>16. CASE Chat \/ Shutdown
  BY <1>5, <1>16 DEF Chat, Shutdown, DownWord
<1>17. CASE UNCHANGED vars
  BY <1>4, <1>17 DEF vars
<1> QED
  BY <1>7, <1>8, <1>9, <1>10, <1>11, <1>12, <1>13, <1>14, <1>15, <1>16, <1>17
  DEF Next, Listener, Session
-------------------------------------------------------------------------------
(* The wait for a verdict.                                                 *)
Awaited == VerdictIsComing /\ AskIsFollowed

\* What is written after a list and before its confirmation changes nothing, as
\* long as the session goes on judging or gives the confirmation.
LEMMA WrittenStep ==
    ASSUME TypeOK, Awaited, NEW m \in DownWord,
           down' = Append(down, m), gone' = gone, listener' = listener, exited' = exited,
           m = "askIndice" => session' = "choosing",
           m = "OK" \/ session' \in {"choosing", "ended"} \/ session' = session
    PROVE  Awaited'
<1>1. /\ DOMAIN down = 1 .. Len(down) /\ Len(down) \in Nat
      /\ DOMAIN down' = 1 .. Len(down) + 1 /\ Len(down') = Len(down) + 1
      /\ \A i \in 1 .. Len(down) : down'[i] = down[i]
      /\ down'[Len(down) + 1] = m
  <2>1. down \in Seq(DownWord)
    BY DEF TypeOK, DownWord
  <2> QED
    BY <2>1, AppendProperties, LenProperties
<1>2. VerdictIsComing'
  <2>1. CASE m = "OK"
    BY <1>1, <2>1 DEF VerdictIsComing, Contains
  <2>2. CASE session' \in {"choosing", "ended"}
    BY <2>2 DEF VerdictIsComing
  <2>3. CASE session' = session
    BY <1>1, <2>3 DEF Awaited, VerdictIsComing, Contains
  <2> QED
    BY <2>1, <2>2, <2>3
<1>3. AskIsFollowed'
  <2>1. CASE m = "OK"
    BY <1>1, <2>1 DEF AskIsFollowed
  <2>2. CASE session' \in {"choosing", "ended"}
    BY <2>2 DEF AskIsFollowed
  <2>3. CASE session' = session /\ m # "askIndice"
    BY <1>1, <2>3 DEF Awaited, AskIsFollowed
  <2> QED
    BY <2>1, <2>2, <2>3
<1> QED
  BY <1>2, <1>3 DEF Awaited

\* The receiving thread enters get_file_valid_indice with the confirmation
\* still due, and leaves it with the confirmation.
LEMMA ReadStep ==
    ASSUME TypeOK, Awaited, ListenMain \/ ListenIndices
    PROVE  Awaited'
<1> USE DEF client, server
<1>1. /\ ~gone /\ session' = session /\ exited' = exited
      /\ DOMAIN down = 1 .. Len(down) /\ Len(down) \in Nat \ {0}
      /\ DOMAIN down' = 1 .. Len(down) - 1 /\ Len(down') = Len(down) - 1
      /\ \A i \in 1 .. Len(down) - 1 : down'[i] = down[i + 1]
      /\ Head(down) = down[1]
  <2>1. down \in Seq(DownWord) /\ down # <<>> /\ down' = Tail(down) /\ ~gone
        /\ session' = session /\ exited' = exited
    BY DEF ListenMain, ListenIndices, TypeOK, DownWord
  <2> QED
    BY <2>1, HeadTailProperties, LenProperties, EmptySeq
<1>2. ASSUME NEW j \in DOMAIN down, j > 1
      PROVE  j - 1 \in DOMAIN down' /\ down'[j - 1] = down[j]
  BY <1>1, <1>2
<1>3. ASSUME listener' = "indices", session \notin {"choosing", "ended"}, ~exited
      PROVE  Contains(down, "OK")'
  <2>1. CASE ListenMain
    <3>1. down[1] = "askIndice" /\ 1 \in DOMAIN down
      BY <1>1, <1>3, <2>1 DEF ListenMain
    <3>2. PICK j \in DOMAIN down : 1 < j /\ down[j] = "OK"
      BY <1>1, <1>3, <3>1 DEF Awaited, AskIsFollowed
    <3> QED
      BY <1>1, <1>2, <3>2 DEF Contains
  <2>2. CASE ListenIndices
    <3>1. listener = "indices" /\ down[1] # "OK"
      BY <1>1, <1>3, <2>2 DEF ListenIndices
    <3>2. PICK j \in DOMAIN down : down[j] = "OK"
      BY <1>1, <1>3, <3>1 DEF Awaited, VerdictIsComing, Contains
    <3>3. j > 1
      BY <1>1, <3>1, <3>2
    <3> QED
      BY <1>1, <1>2, <3>2, <3>3 DEF Contains
  <2> QED
    BY <2>1, <2>2
<1>4. ASSUME NEW i \in DOMAIN down', down'[i] = "askIndice",
             session \notin {"choosing", "ended"}, ~exited
      PROVE  \E j \in DOMAIN down' : i < j /\ down'[j] = "OK"
  <2>1. i + 1 \in DOMAIN down /\ down[i + 1] = "askIndice"
    BY <1>1, <1>4
  <2>2. PICK j \in DOMAIN down : i + 1 < j /\ down[j] = "OK"
    BY <1>1, <1>4, <2>1 DEF Awaited, AskIsFollowed
  <2>3. j > 1 /\ i < j - 1
    BY <1>1, <2>2
  <2> QED
    BY <1>2, <2>2, <2>3
<1> QED
  BY <1>1, <1>3, <1>4 DEF Awaited, VerdictIsComing, AskIsFollowed

LEMMA AwaitedStep ==
    ASSUME TypeOK, Awaited, [Next]_vars
    PROVE  Awaited'
<1> USE DEF client, server
<1>1. CASE gone'
  BY <1>1 DEF Awaited, VerdictIsComing, AskIsFollowed
<1>2. CASE session' \in {"choosing", "ended"}
  BY <1>2 DEF Awaited, VerdictIsComing, AskIsFollowed
<1>e. CASE exited'
  BY <1>e DEF Awaited, VerdictIsComing, AskIsFollowed
<1>3. CASE /\ down' = down /\ listener' = listener /\ gone' = gone /\ exited' = exited
           /\ session' = session \/ session \notin {"choosing", "ended"}
  BY <1>3 DEF Awaited, VerdictIsComing, AskIsFollowed
<1>4. CASE AskFiles \/ PickFiles \/ ReadPipe
  BY <1>3, <1>4 DEF AskFiles, PickFiles, ReadPipe
<1>5. CASE Leave
  BY <1>1, <1>5 DEF Leave
<1>6. CASE ListenMain \/ ListenIndices
  BY <1>6, ReadStep
<1>7. CASE ListenEnd
  BY <1>2, <1>7 DEF ListenEnd
<1>8. CASE RecvMain
  <2>1. gone' = gone /\ listener' = listener
    BY <1>8 DEF RecvMain
  <2>2. CASE session' = session /\ exited' = exited /\ down' = down
    BY <1>3, <2>1, <2>2
  <2>3. CASE session' = session /\ exited' = exited /\ down' = Append(down, "error")
    BY <2>1, <2>3, WrittenStep DEF DownWord
  <2> QED
    BY <1>2, <1>8, <2>2, <2>3, RecvMainParts
<1>9. CASE RecvChoice
  <2>1. gone' = gone /\ listener' = listener /\ Judge(up[1])
    BY <1>9 DEF RecvChoice
  <2>2. CASE down' = Append(down, "OK") /\ exited' = exited
    BY <2>1, <2>2, WrittenStep DEF DownWord
  <2>3. CASE session' = session
    BY <1>2, <1>9, <2>3 DEF RecvChoice
  <2>4. CASE exited' = TRUE
    BY <1>e, <2>4
  <2> QED
    BY <2>1, <2>2, <2>3, <2>4, JudgeParts
<1>10. CASE RecvChoiceEnd \/ RecvMainEnd \/ Reset
  BY <1>1, <1>10 DEF RecvChoiceEnd, RecvMainEnd, Reset
<1>11. CASE Grant
  BY <1>3, <1>11 DEF Grant
<1>12. CASE Chat
  BY <1>12, WrittenStep DEF Chat, DownWord
<1>13. CASE Shutdown
  BY <1>13, WrittenStep DEF Shutdown, DownWord
<1>14. CASE ServerExits
  BY <1>2, <1>14 DEF ServerExits
<1>15. CASE UNCHANGED vars
  BY <1>3, <1>15 DEF vars
<1> QED
  BY <1>4, <1>5, <1>6, <1>7, <1>8, <1>9, <1>10, <1>11, <1>12, <1>13, <1>14, <1>15
  DEF Next, Listener, Session

\* The invariant holds in every state the two programs reach.
THEOREM Invariant == Spec => []IInv
<1>1. ASSUME IInv, [Next]_vars PROVE IInv'
  BY <1>1, TypeStep, CountStep, AwaitedStep DEF IInv, Awaited
<1> QED
  BY <1>1, InitInv, PTL DEF Spec

\* Whatever is typed, the session accepts a list of indices of listed files or
\* nothing, and every state has its type.
THEOREM TypesHold == Spec => []TypeOK
<1>1. IInv => TypeOK
  BY DEF IInv
<1> QED
  BY <1>1, Invariant, PTL

\* Whatever other users write into the socket meanwhile, the receiving thread is
\* never left in get_file_valid_indice with no verdict to come.
THEOREM NoVerdictIsMissed == Spec => []VerdictIsComing
<1>1. IInv => VerdictIsComing
  BY DEF IInv
<1> QED
  BY <1>1, Invariant, PTL

\* A client connects for files at most once for each confirmation.
THEOREM NoDialUnasked == Spec => []DialIsGranted
<1>1. IInv => DialIsGranted
  BY DEF IInv
<1> QED
  BY <1>1, Invariant, PTL
===============================================================================
