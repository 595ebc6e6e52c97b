---------------------------- MODULE Streams_proofs ----------------------------
(***************************************************************************)
(* Proofs about the two streams of a connection: how a session cuts the    *)
(* lines its user sent (CommandWords), for any number of sessions and      *)
(* lines of any length; how the client reads the frames of the server      *)
(* (Frames), for any number of parts of a frame; and whom the server waits *)
(* for when it sends (SendBuffers), for any number of clients and channels *)
(* and any size of the buffers.                                            *)
(***************************************************************************)
EXTENDS CommandWords, Frames, SendBuffers, SequenceTheorems, FiniteSetTheorems,
        WellFoundedInduction, TLAPS
-------------------------------------------------------------------------------
(* The words (CommandWords).                                               *)

\* Numbers have a least one: what Min chooses exists.
LEMMA MinIsLeast ==
    ASSUME NEW T \in SUBSET Nat, T # {}
    PROVE  Min(T) \in T /\ \A y \in T : Min(T) <= y
<1> DEFINE R == OpToRel(<, Nat)
<1>1. IsWellFoundedOn(R, Nat)
  BY NatLessThanWellFounded
<1>2. \A x, y \in Nat : y < x => <<y, x>> \in R
  BY DEF OpToRel
<1> HIDE DEF R
<1>3. \E x \in T : \A y \in T : ~ (<<y, x>> \in R)
  BY <1>1, WFMin
<1>4. PICK x \in T : \A y \in T : ~ (<<y, x>> \in R)
  BY <1>3
<1>5. \A y \in T : y \in Nat /\ x \in Nat /\ ~ (y < x)
  BY <1>2, <1>4
<1>6. \E z \in T : \A y \in T : z <= y
  BY <1>4, <1>5
<1> QED
  BY <1>6 DEF Min

\* What stands in a buffer is told apart.
LEMMA CellsDiffer ==
    /\ Space # Newline /\ Space # Nul /\ Newline # Nul
    /\ Space.is = " " /\ Newline.is = "\n" /\ Nul.is = "nul"
    /\ \A s, n, k : Word(s, n, k) \notin {Space, Newline, Nul}
    /\ \A s, n, k : /\ Word(s, n, k).is = "word" /\ Word(s, n, k).of = s
                    /\ Word(s, n, k).line = n /\ Word(s, n, k).k = k
BY DEF Space, Newline, Nul, Word

LEMMA PointerIsNotNull == \A t, i : <<t, i>> # Null
BY DEF Null

Got(o, start) == IF buffer[o][start] = Nul THEN Null ELSE <<o, start>>

\* What a call of strtok does: it skips the delimiters, ends the token at the
\* next delimiter or zero, and leaves the position there or behind.
Returns(t, delims, o, from, start, stop) ==
    /\ call[t] = <<o, from>> /\ from <= start /\ start <= stop
    /\ \A i \in from .. start - 1 : buffer[o][i] \in delims
    /\ buffer[o][start] \notin delims
    /\ \A i \in start .. stop - 1 : buffer[o][i] \notin delims /\ buffer[o][i] # Nul
    /\ buffer[o][stop] \in delims \cup {Nul}
    /\ call' = [call EXCEPT ![t] = Null]
    /\ tokens' = [tokens EXCEPT ![t] = Append(@, Got(o, start))]
    /\ \/ buffer[o][stop] = Nul /\ olds' = <<o, stop>> /\ UNCHANGED buffer
       \/ /\ buffer[o][stop] # Nul /\ stop < Size
          /\ olds' = <<o, stop + 1>> /\ buffer' = [buffer EXCEPT ![o][stop] = Nul]

LEMMA ReturnSteps ==
    ASSUME StrtokTypeOK, NEW t \in Thread, NEW delims \in SUBSET {Space, Newline},
           Return(t, delims)
    PROVE  \E o \in Thread : \E from, start, stop \in 1 .. Size :
              Returns(t, delims, o, from, start, stop)
<1> USE StrtokAssumption DEF StrtokAssumption
<1> DEFINE o == call[t][1]
           from == call[t][2]
           b == buffer[o]
           S == {i \in from .. Size : b[i] \notin delims}
           start == Min(S)
           E == {i \in start .. Size : b[i] \in delims \cup {Nul}}
           stop == Min(E)
<1>1. call[t] \in Thread \X (1 .. Size)
  BY DEF StrtokTypeOK, Return
<1>2. o \in Thread /\ from \in 1 .. Size /\ call[t] = <<o, from>>
  BY <1>1
<1>3. b[Size] = Nul /\ Nul \notin delims
  BY <1>2, CellsDiffer DEF StrtokTypeOK
<1>4. /\ call' = [call EXCEPT ![t] = Null]
      /\ tokens' = [tokens EXCEPT ![t] = Append(@, IF b[start] = Nul THEN Null ELSE <<o, start>>)]
      /\ IF b[stop] = Nul
         THEN olds' = <<o, stop>> /\ UNCHANGED buffer
         ELSE olds' = <<o, stop + 1>> /\ buffer' = [buffer EXCEPT ![o][stop] = Nul]
  BY DEF Return, Token
<1> HIDE DEF o, from
<1>5. Size \in S /\ S \in SUBSET Nat
  BY <1>2, <1>3
<1>6. start \in S /\ \A i \in S : start <= i
  <2> HIDE DEF S
  <2> QED
    BY <1>5, MinIsLeast
<1>7. /\ start \in from .. Size /\ b[start] \notin delims
      /\ \A i \in from .. start - 1 : b[i] \in delims
  <2> HIDE DEF start
  <2> QED
    BY <1>2, <1>6
<1> HIDE DEF start, S
<1>8. Size \in E /\ E \in SUBSET Nat
  BY <1>2, <1>3, <1>7
<1>9. stop \in E /\ \A i \in E : stop <= i
  <2> HIDE DEF E
  <2> QED
    BY <1>8, MinIsLeast
<1>10. /\ stop \in start .. Size /\ b[stop] \in delims \cup {Nul}
       /\ \A i \in start .. stop - 1 : b[i] \notin delims /\ b[i] # Nul
  <2> HIDE DEF stop
  <2> QED
    BY <1>2, <1>7, <1>9
<1> HIDE DEF stop, E
<1>11. b[stop] # Nul => stop < Size
  BY <1>2, <1>3, <1>7, <1>10
<1>12. Returns(t, delims, o, from, start, stop)
  BY <1>2, <1>4, <1>7, <1>10, <1>11 DEF Returns, Got
<1> QED
  BY <1>2, <1>7, <1>10, <1>12

\* What a pointer shows ends at the first zero.
LEMMA TextEnds ==
    ASSUME StrtokTypeOK, NEW o \in Thread, NEW p \in 1 .. Size
    PROVE  \E end \in p .. Size :
              /\ buffer[o][end] = Nul /\ \A i \in p .. end - 1 : buffer[o][i] # Nul
              /\ Len(Text(<<o, p>>)) = end - p /\ DOMAIN Text(<<o, p>>) = 1 .. end - p
              /\ \A i \in 1 .. end - p : Text(<<o, p>>)[i] = buffer[o][p + i - 1]
<1> USE StrtokAssumption DEF StrtokAssumption
<1> DEFINE b == buffer[o]
           E == {i \in p .. Size : b[i] = Nul}
           end == Min(E)
<1>1. Size \in E /\ E \in SUBSET Nat
  BY DEF StrtokTypeOK
<1>2. end \in E /\ \A i \in E : end <= i
  <2> HIDE DEF E
  <2> QED
    BY <1>1, MinIsLeast
<1>3. Text(<<o, p>>) = SubSeq(b, p, end - 1)
  BY DEF Text
<1> HIDE DEF end
<1>4. end \in p .. Size /\ b[end] = Nul /\ \A i \in p .. end - 1 : b[i] # Nul
  BY <1>2
<1>5. SubSeq(b, p, end - 1) = [i \in 1 .. end - p |-> b[p + i - 1]]
  BY <1>4 DEF SubSeq
<1> HIDE DEF b, E
<1>6. Len(Text(<<o, p>>)) = end - p
  BY <1>3, <1>4, <1>5
<1> QED
  BY <1>3, <1>4, <1>5, <1>6 DEF b

LEMMA LineType ==
    ASSUME TypeOK, NEW s \in Thread, NEW n \in 1 .. Len(typed[s])
    PROVE  /\ typed[s][n] \in Line
           /\ typed[s][n].command \in {"mp", "create", "join", "all", "help"}
           /\ typed[s][n].words \in Nat \ {0} /\ 4 * typed[s][n].words < Size
<1>1. typed[s] \in Seq(Line)
  BY DEF TypeOK
<1>2. typed[s][n] \in Line
  BY <1>1, ElementOfSeq
<1> QED
  BY <1>2, CommandWordsAssumption DEF CommandWordsAssumption

\* A line is words with blanks between them and a newline behind.
LEMMA CellsShape ==
    ASSUME TypeOK, NEW s \in Thread, NEW n \in 1 .. Len(typed[s])
    PROVE  LET w == typed[s][n].words IN
           /\ DOMAIN Cells(s, n) = 1 .. 2 * w /\ Len(Cells(s, n)) = 2 * w
           /\ \A k \in 1 .. w : Cells(s, n)[2 * k - 1] = Word(s, n, k)
           /\ \A k \in 1 .. w - 1 : Cells(s, n)[2 * k] = Space
           /\ Cells(s, n)[2 * w] = Newline
<1> DEFINE w == typed[s][n].words
<1>1. w \in Nat \ {0} /\ 2 * w \in Nat
  BY LineType
<1>2. Cells(s, n) = [i \in 1 .. 2 * w |-> IF i = 2 * w THEN Newline
                        ELSE IF i % 2 = 0 THEN Space ELSE Word(s, n, (i + 1) \div 2)]
  BY DEF Cells
<1> HIDE DEF w
<1>3. DOMAIN Cells(s, n) = 1 .. 2 * w /\ Len(Cells(s, n)) = 2 * w
  BY <1>1, <1>2
<1>4. ASSUME NEW k \in 1 .. w PROVE Cells(s, n)[2 * k - 1] = Word(s, n, k)
  <2>1. k \in Nat /\ 2 * k - 1 \in 1 .. 2 * w /\ 2 * k - 1 # 2 * w
    BY <1>1
  <2>2. (2 * k - 1) % 2 # 0 /\ (2 * k - 1 + 1) \div 2 = k
    BY <2>1
  <2> QED
    BY <1>2, <2>1, <2>2
<1>5. ASSUME NEW k \in 1 .. w - 1 PROVE Cells(s, n)[2 * k] = Space
  <2>1. k \in Nat /\ 2 * k \in 1 .. 2 * w /\ 2 * k # 2 * w
    BY <1>1
  <2>2. (2 * k) % 2 = 0
    BY <2>1
  <2> QED
    BY <1>2, <2>1, <2>2
<1>6. Cells(s, n)[2 * w] = Newline
  BY <1>1, <1>2
<1> QED
  BY <1>3, <1>4, <1>5, <1>6 DEF w

LEMMA Halves == \A i \in Nat \ {0} : \E k \in Nat \ {0} : i = 2 * k - 1 \/ i = 2 * k
<1> SUFFICES ASSUME NEW i \in Nat \ {0} PROVE \E k \in Nat \ {0} : i = 2 * k - 1 \/ i = 2 * k
  OBVIOUS
<1> DEFINE k == (i + 1) \div 2
<1>1. k \in Nat \ {0} /\ (i = 2 * k - 1 \/ i = 2 * k)
  OBVIOUS
<1> QED
  BY <1>1

LEMMA SecondOfTwo ==
    ASSUME NEW S, NEW a \in Seq(S), NEW b \in Seq(S), NEW i \in 1 .. Len(b)
    PROVE  (a \o b)[Len(a) + i] = b[i]
<1>1. Len(a) \in Nat /\ Len(b) \in Nat
  BY LenProperties
<1>2. Len(a) + i \in 1 .. Len(a) + Len(b) /\ ~(Len(a) + i <= Len(a)) /\ Len(a) + i - Len(a) = i
  BY <1>1
<1> QED
  BY <1>1, <1>2, ConcatProperties

\* What arrives is one line or two, and shorter than the buffer.
LEMMA ArrivedShape ==
    ASSUME TypeOK, NEW s \in Thread,
           NEW from \in 1 .. Len(typed[s]), NEW to \in 1 .. Len(typed[s]),
           to = from \/ to = from + 1
    PROVE  LET v == 2 * typed[s][from].words
               w == 2 * typed[s][to].words
               text == Arrived(s, from, to)
               length == IF from = to THEN v ELSE v + w
           IN  /\ DOMAIN text = 1 .. length /\ Len(text) = length /\ length < Size
               /\ \A i \in 1 .. v : text[i] = Cells(s, from)[i]
               /\ from # to => \A i \in 1 .. w : text[v + i] = Cells(s, to)[i]
<1> DEFINE v == 2 * typed[s][from].words
           w == 2 * typed[s][to].words
           length == IF from = to THEN v ELSE v + w
<1>1. v \in Nat /\ w \in Nat /\ v >= 2 /\ w >= 2
  BY LineType
<1>2. length < Size
  <2>1. 2 * (typed[s][from].words + typed[s][to].words) < Size
    BY LineType, CommandWordsAssumption DEF CommandWordsAssumption
  <2> QED
    BY <2>1, LineType, StrtokAssumption DEF StrtokAssumption
<1>3. CASE from = to
  <2>1. Arrived(s, from, to) = Cells(s, from)
    BY <1>3 DEF Arrived
  <2> QED
    BY <1>2, <1>3, <2>1, CellsShape
<1>4. CASE from # to
  <2> DEFINE a == Cells(s, from)
             b == Cells(s, to)
             S == {a[i] : i \in 1 .. v} \cup {b[i] : i \in 1 .. w}
  <2>1. a \in [1 .. v -> S] /\ b \in [1 .. w -> S] /\ Len(a) = v /\ Len(b) = w
    <3>1. DOMAIN a = 1 .. v /\ DOMAIN b = 1 .. w /\ Len(a) = v /\ Len(b) = w
      BY CellsShape
    <3>2. a = [i \in DOMAIN a |-> a[i]] /\ b = [i \in DOMAIN b |-> b[i]]
      BY DEF Cells
    <3> HIDE DEF a, b, v, w
    <3> QED
      BY <3>1, <3>2
  <2>2. Arrived(s, from, to) = a \o b
    BY <1>4 DEF Arrived
  <2> HIDE DEF a, b, S, v, w
  <2>3. a \in Seq(S) /\ b \in Seq(S)
    BY <1>1, <2>1
  <2>4. /\ a \o b \in Seq(S) /\ Len(a \o b) = v + w
        /\ \A i \in 1 .. v + w : (a \o b)[i] = IF i <= v THEN a[i] ELSE b[i - v]
    BY <2>1, <2>3, ConcatProperties
  <2>5. DOMAIN (a \o b) = 1 .. v + w
    BY <2>4, LenProperties
  <2>6. ASSUME NEW i \in 1 .. v PROVE (a \o b)[i] = a[i]
    BY <1>1, <2>4
  <2>7. ASSUME NEW i \in 1 .. w PROVE (a \o b)[v + i] = b[i]
    BY <2>1, <2>3, SecondOfTwo
  <2> QED
    BY <1>2, <1>4, <2>2, <2>4, <2>5, <2>6, <2>7 DEF a, b, v, w
<1> QED
  BY <1>3, <1>4

\* What the buffer of a busy session holds, and where its first word ends.
LEMMA BufferShape ==
    ASSUME TypeOK, NEW s \in Thread, ReadIn(s), Busy(s)
    PROVE  LET n == first[s]
               v == 2 * typed[s][n].words
           IN  /\ n \in 1 .. Len(typed[s]) /\ received[s] \in 1 .. Len(typed[s])
               /\ received[s] = n \/ received[s] = n + 1
               /\ DOMAIN InBuffer(s) = 1 .. Len(InBuffer(s)) /\ Len(InBuffer(s)) < Size
               /\ Len(InBuffer(s)) = IF received[s] = n THEN v ELSE v + 2 * typed[s][n + 1].words
               /\ \A i \in 1 .. v : InBuffer(s)[i] = Cells(s, n)[i]
               /\ received[s] # n => \A i \in 1 .. 2 * typed[s][n + 1].words :
                                        InBuffer(s)[v + i] = Cells(s, n + 1)[i]
<1> DEFINE n == first[s]
           m == received[s]
<1>1. n \in 1 .. Len(typed[s]) /\ m \in 1 .. Len(typed[s]) /\ (m = n \/ m = n + 1)
  <2>1. n \in 1 .. m /\ m <= n + 1 /\ n \in Nat /\ m \in Nat /\ m <= Len(typed[s])
    BY DEF ReadIn, TypeOK
  <2>2. Len(typed[s]) \in Nat
    BY LenProperties DEF TypeOK
  <2> HIDE DEF n, m
  <2> QED
    BY <2>1, <2>2
<1>2. InBuffer(s) = Arrived(s, n, m)
  BY DEF InBuffer
<1> HIDE DEF n, m
<1>3. CASE m = n
  BY <1>1, <1>2, <1>3, ArrivedShape DEF n, m
<1>4. CASE m = n + 1
  <2>1. n + 1 \in 1 .. Len(typed[s]) /\ n # n + 1 /\ InBuffer(s) = Arrived(s, n, n + 1)
    BY <1>1, <1>2, <1>4
  <2> DEFINE v == 2 * typed[s][n].words
             w == 2 * typed[s][n + 1].words
  <2>2. /\ DOMAIN InBuffer(s) = 1 .. v + w /\ Len(InBuffer(s)) = v + w /\ v + w < Size
        /\ \A i \in 1 .. v : InBuffer(s)[i] = Cells(s, n)[i]
        /\ \A i \in 1 .. w : InBuffer(s)[v + i] = Cells(s, n + 1)[i]
    BY <1>1, <2>1, ArrivedShape
  <2> HIDE DEF v, w
  <2>3. received[s] # n /\ received[s] = n + 1
    BY <1>4, <2>1 DEF m
  <2> QED
    BY <1>1, <2>2, <2>3 DEF n, m, v, w
<1> QED
  BY <1>1, <1>3, <1>4

\* The command a session reads in its buffer: its own, but for "/mp" with
\* something behind it.
Meant(s) ==
    LET command == typed[s][first[s]].command
    IN  IF command = "mp" /\ buffer[s][2] # Nul THEN "help" ELSE command

LEMMA CommandIsMeant ==
    ASSUME TypeOK, NEW s \in Thread, ReadIn(s), Busy(s), tokens[s][1] = <<s, 1>>
    PROVE  Command(s) = Meant(s) /\ Meant(s) \in {"mp", "create", "join", "all", "help"}
<1>1. StrtokTypeOK /\ 1 \in 1 .. Size /\ 2 \in 1 .. Size
  <2>1. first[s] \in 1 .. Len(typed[s])
    BY BufferShape
  <2>2. typed[s][first[s]].words \in Nat \ {0} /\ 4 * typed[s][first[s]].words < Size
    BY <2>1, LineType
  <2> QED
    BY <2>2, StrtokAssumption DEF StrtokAssumption, TypeOK
<1>2. PICK end \in 1 .. Size :
          /\ buffer[s][end] = Nul /\ \A i \in 1 .. end - 1 : buffer[s][i] # Nul
          /\ Len(Text(<<s, 1>>)) = end - 1
          /\ \A i \in 1 .. end - 1 : Text(<<s, 1>>)[i] = buffer[s][1 + i - 1]
  BY <1>1, TextEnds
<1>3. /\ buffer[s][1] = Word(s, first[s], 1) /\ buffer[s][1].line = first[s]
      /\ buffer[s][1] # Nul
  <2>1. buffer[s][1] = Word(s, first[s], 1)
    BY DEF ReadIn
  <2> QED
    BY <2>1 DEF Word, Nul
<1>4. end # 1 /\ end \in Nat
  BY <1>2, <1>3
<1>5. Text(<<s, 1>>)[1] = buffer[s][1]
  BY <1>2, <1>4
<1>6. Text(<<s, 1>>)[1].line = first[s]
  BY <1>3, <1>5
<1>7. Len(Text(<<s, 1>>)) > 1 <=> buffer[s][2] # Nul
  BY <1>1, <1>2, <1>4
<1>8. Command(s) = Meant(s)
  BY <1>6, <1>7 DEF Command, Meant
<1>9. typed[s][first[s]].command \in {"mp", "create", "join", "all", "help"}
  BY BufferShape, LineType
<1> QED
  BY <1>8, <1>9 DEF Meant

LEMMA DelimitersType ==
    ASSUME NEW command \in {"mp", "create", "join", "all", "help"}
    PROVE  /\ Len(Delimiters(command)) \in 0 .. 2
           /\ \A i \in 1 .. Len(Delimiters(command)) :
                 Delimiters(command)[i] \in SUBSET {Space, Newline}
BY DEF Delimiters

\* The first word of a line that came alone, or the two that stick together.
LEMMA WordsBeforeBlank ==
    ASSUME TypeOK, NEW s \in Thread, ReadIn(s), Busy(s), CutOff(s),
           NEW i \in 1 .. Size, \A j \in 1 .. i : buffer[s][j] # Nul, buffer[s][i].is = "word"
    PROVE  \/ buffer[s][i] = Word(s, first[s], 1)
           \/ /\ typed[s][first[s]].words = 1 /\ received[s] = first[s] + 1
              /\ buffer[s][i] = Word(s, first[s] + 1, 1)
<1> DEFINE n == first[s]
           v == typed[s][n].words
           w == typed[s][n + 1].words
<1>1. /\ n \in 1 .. Len(typed[s]) /\ n \in Nat /\ Len(typed[s]) \in Nat
      /\ received[s] = n \/ (received[s] = n + 1 /\ n + 1 \in 1 .. Len(typed[s]))
  BY BufferShape, LenProperties DEF TypeOK
<1>2. v \in Nat \ {0} /\ (received[s] # n => w \in Nat \ {0})
  BY <1>1, LineType
<1>3. \A j \in 1 .. i : j \in 1 .. Len(InBuffer(s)) /\ buffer[s][j] = InBuffer(s)[j] /\ buffer[s][j] # Space
  <2>1. ASSUME NEW j \in 1 .. i PROVE j \in 1 .. Len(InBuffer(s)) /\ buffer[s][j] = InBuffer(s)[j]
    <3>1. j \in 1 .. Size /\ buffer[s][j] # Nul
      BY StrtokAssumption DEF StrtokAssumption
    <3> QED
      BY <3>1, BufferShape DEF ReadIn
  <2>2. ASSUME NEW j \in 1 .. i, buffer[s][j] = Space PROVE FALSE
    <3>1. PICK l \in 1 .. j - 1 : buffer[s][l] = Nul
      BY <2>2, StrtokAssumption DEF CutOff, StrtokAssumption
    <3> QED
      BY <3>1
  <2> QED
    BY <2>1, <2>2
<1>4. CASE i <= 2 * v
  <2>1. PICK k \in Nat \ {0} : i = 2 * k - 1 \/ i = 2 * k
    <3>1. i \in Nat \ {0}
      OBVIOUS
    <3> QED
      BY <3>1, Halves
  <2>2. \A j \in 1 .. i : buffer[s][j] = Cells(s, n)[j]
    BY <1>2, <1>3, <1>4, BufferShape
  <2>3. i # 2 * k
    <3> SUFFICES ASSUME i = 2 * k PROVE FALSE
      OBVIOUS
    <3>1. Cells(s, n)[i] = Space \/ Cells(s, n)[i] = Newline
      <4>1. k \in 1 .. v
        BY <1>2, <1>4, <2>1
      <4>2. CASE k = v
        BY <1>1, <4>2, CellsShape
      <4>3. CASE k # v
        <5>1. k \in 1 .. v - 1
          BY <1>2, <4>1, <4>3
        <5> QED
          BY <1>1, <5>1, CellsShape
      <4> QED
        BY <4>2, <4>3
    <3>2. buffer[s][i] = Cells(s, n)[i]
      BY <2>2
    <3> QED
      BY <3>1, <3>2, CellsDiffer
  <2>4. k = 1
    <3> SUFFICES ASSUME k # 1 PROVE FALSE
      OBVIOUS
    <3>1. k - 1 \in 1 .. v - 1 /\ 2 * (k - 1) \in 1 .. i
      BY <1>2, <1>4, <2>1, <2>3
    <3>2. Cells(s, n)[2 * (k - 1)] = Space
      BY <1>1, <3>1, CellsShape
    <3> QED
      BY <1>3, <2>2, <3>1, <3>2
  <2>5. i = 1
    BY <2>1, <2>3, <2>4
  <2> QED
    BY <2>5 DEF ReadIn
<1>5. CASE i > 2 * v
  <2>1. received[s] = n + 1 /\ n + 1 \in 1 .. Len(typed[s]) /\ w \in Nat \ {0}
    <3>1. i \in 1 .. Len(InBuffer(s))
      BY <1>3
    <3> QED
      BY <1>1, <1>2, <1>5, <3>1, BufferShape
  <2>2. v = 1
    <3> SUFFICES ASSUME v # 1 PROVE FALSE
      OBVIOUS
    <3>1. 1 \in 1 .. v - 1 /\ 2 \in 1 .. i /\ 2 \in 1 .. 2 * v
      BY <1>2, <1>5
    <3>2. Cells(s, n)[2 * 1] = Space
      BY <1>1, <3>1, CellsShape
    <3>3. InBuffer(s)[2] = Cells(s, n)[2]
      BY <3>1, BufferShape
    <3> QED
      BY <1>3, <3>1, <3>2, <3>3
  <2>3. i - 2 \in Nat \ {0} /\ i - 2 \in 1 .. 2 * w
    <3>1. i \in 1 .. Len(InBuffer(s)) /\ Len(InBuffer(s)) = 2 * v + 2 * w
      BY <1>1, <1>3, <2>1, BufferShape
    <3> QED
      BY <1>5, <2>1, <2>2, <3>1
  <2>4. \A j \in 1 .. i - 2 : buffer[s][2 + j] = Cells(s, n + 1)[j]
    <3> SUFFICES ASSUME NEW j \in 1 .. i - 2 PROVE buffer[s][2 + j] = Cells(s, n + 1)[j]
      OBVIOUS
    <3>1. 2 + j \in 1 .. i /\ j \in 1 .. 2 * w
      BY <2>1, <2>3
    <3>2. InBuffer(s)[2 * v + j] = Cells(s, n + 1)[j]
      BY <1>1, <2>1, <3>1, BufferShape
    <3> QED
      BY <1>3, <2>2, <3>1, <3>2
  <2>5. PICK k \in Nat \ {0} : i - 2 = 2 * k - 1 \/ i - 2 = 2 * k
    BY <2>3, Halves
  <2>6. i - 2 # 2 * k
    <3> SUFFICES ASSUME i - 2 = 2 * k PROVE FALSE
      OBVIOUS
    <3>1. Cells(s, n + 1)[2 * k] = Space \/ Cells(s, n + 1)[2 * k] = Newline
      <4>1. k \in 1 .. w
        BY <2>1, <2>3, <2>5
      <4>2. CASE k = w
        BY <2>1, <4>2, CellsShape
      <4>3. CASE k # w
        <5>1. k \in 1 .. w - 1
          BY <2>1, <4>1, <4>3
        <5> QED
          BY <2>1, <5>1, CellsShape
      <4> QED
        BY <4>2, <4>3
    <3>2. buffer[s][2 + (i - 2)] = Cells(s, n + 1)[2 * k] /\ 2 + (i - 2) = i
      BY <2>3, <2>4
    <3> QED
      BY <3>1, <3>2, CellsDiffer
  <2>7. k = 1
    <3> SUFFICES ASSUME k # 1 PROVE FALSE
      OBVIOUS
    <3>1. k - 1 \in 1 .. w - 1 /\ 2 * (k - 1) \in 1 .. i - 2 /\ 2 + 2 * (k - 1) \in 1 .. i
      BY <2>1, <2>3, <2>5, <2>6
    <3>2. Cells(s, n + 1)[2 * (k - 1)] = Space
      BY <2>1, <3>1, CellsShape
    <3> QED
      BY <1>3, <2>4, <3>1, <3>2
  <2>8. buffer[s][i] = Cells(s, n + 1)[1]
    <3>1. i - 2 = 1 /\ 1 \in 1 .. i - 2 /\ 2 + 1 = i
      BY <2>5, <2>6, <2>7
    <3> QED
      BY <2>4, <3>1
  <2>9. Cells(s, n + 1)[2 * 1 - 1] = Word(s, n + 1, 1)
    BY <2>1, CellsShape
  <2> QED
    BY <2>1, <2>2, <2>8, <2>9
<1> QED
  BY <1>2, <1>4, <1>5

CommandsAreMeant ==
    \A s \in Thread :
        TypeOK /\ ReadIn(s) /\ Busy(s) /\ tokens[s][1] = <<s, 1>> =>
            Command(s) = Meant(s) /\ Meant(s) \in {"mp", "create", "join", "all", "help"}

LEMMA CommandsNow == CommandsAreMeant
BY CommandIsMeant DEF CommandsAreMeant

LEMMA CommandsNext == CommandsAreMeant'
BY CommandsNow, PTL

\* What a step leaves of a buffer: all of it, but for delimiters set to zero.
Zeroed(t) ==
    \A i \in 1 .. Size :
        \/ buffer'[t][i] = buffer[t][i]
        \/ buffer'[t][i] = Nul /\ buffer[t][i] \in {Space, Newline}

Keeps(t) ==
    /\ \A n \in 1 .. Len(typed[t]) : typed'[t][n] = typed[t][n]
    /\ received'[t] = received[t] /\ first'[t] = first[t]
    /\ Zeroed(t)

LEMMA KeepsReading ==
    ASSUME TypeOK, NEW t \in Thread, ReadIn(t), Keeps(t), Busy(t)' => Busy(t),
           pc'[t] \in {"recv", "gone"} => pc[t] \in {"recv", "gone"}
    PROVE  ReadIn(t)'
<1>1. ASSUME pc'[t] \in {"recv", "gone"}, NEW i \in 1 .. Size PROVE buffer'[t][i] = Nul
  BY <1>1, CellsDiffer DEF ReadIn, Keeps, Zeroed
<1>2. ASSUME Busy(t)'
      PROVE  /\ first'[t] \in 1 .. received'[t] /\ received'[t] <= first'[t] + 1
             /\ buffer'[t][1] = Word(t, first'[t], 1)
             /\ InBuffer(t)' = InBuffer(t)
             /\ \A i \in 1 .. Size : buffer'[t][i] # Nul =>
                   i \in DOMAIN InBuffer(t) /\ buffer'[t][i] = InBuffer(t)[i]
  <2>1. Busy(t)
    BY <1>2
  <2>2. /\ first[t] \in 1 .. Len(typed[t]) /\ received[t] \in 1 .. Len(typed[t])
        /\ 1 \in 1 .. Size
    <3>1. first[t] \in 1 .. Len(typed[t]) /\ received[t] \in 1 .. Len(typed[t])
      BY <2>1, BufferShape
    <3> QED
      BY <3>1, StrtokAssumption DEF StrtokAssumption
  <2>3. /\ first[t] \in 1 .. received[t] /\ received[t] <= first[t] + 1
        /\ buffer[t][1] = Word(t, first[t], 1)
        /\ \A i \in 1 .. Size : buffer[t][i] # Nul =>
              i \in DOMAIN InBuffer(t) /\ buffer[t][i] = InBuffer(t)[i]
    BY <2>1 DEF ReadIn
  <2>4. buffer[t][1] \notin {Space, Newline}
    <3>1. buffer[t][1] = Word(t, first[t], 1)
      BY <2>3
    <3>2. buffer[t][1].is = "word"
      BY <3>1 DEF Word
    <3> QED
      BY <3>2, CellsDiffer
  <2>5. buffer'[t][1] = Word(t, first'[t], 1)
    BY <2>2, <2>3, <2>4 DEF Keeps, Zeroed
  <2>6. InBuffer(t)' = InBuffer(t)
    <3>1. typed'[t][first[t]] = typed[t][first[t]] /\ typed'[t][received[t]] = typed[t][received[t]]
      BY <2>2 DEF Keeps
    <3>2. first'[t] = first[t] /\ received'[t] = received[t]
      BY DEF Keeps
    <3> QED
      BY <3>1, <3>2 DEF InBuffer, Arrived, Cells
  <2>7. \A i \in 1 .. Size : buffer'[t][i] # Nul => buffer'[t][i] = buffer[t][i]
    BY DEF Keeps, Zeroed
  <2> QED
    BY <2>3, <2>5, <2>6, <2>7 DEF Keeps
<1> QED
  BY <1>1, <1>2 DEF ReadIn

\* The blanks of a buffer stay cut off when more of it is cut.
LEMMA KeepsCutOff ==
    ASSUME NEW t \in Thread, CutOff(t), Zeroed(t)
    PROVE  CutOff(t)'
<1> SUFFICES ASSUME NEW i \in 1 .. Size, buffer'[t][i] = Space
             PROVE  \E j \in 1 .. i - 1 : buffer'[t][j] = Nul
  BY DEF CutOff
<1>1. buffer[t][i] = Space
  BY CellsDiffer DEF Zeroed
<1>2. PICK j \in 1 .. i - 1 : buffer[t][j] = Nul
  BY <1>1 DEF CutOff
<1>3. j \in 1 .. Size
  BY StrtokAssumption DEF StrtokAssumption
<1>4. buffer'[t][j] = Nul
  BY <1>2, <1>3, CellsDiffer DEF Zeroed
<1> QED
  BY <1>4

\* A command asks for as many calls as before, or for more: "/mp" with something
\* behind it may lose that to another session's cut.
LEMMA KeepsCommand ==
    ASSUME TypeOK, TypeOK', NEW t \in Thread, ReadIn(t), ReadIn(t)', Keeps(t),
           Busy(t), Busy(t)', tokens[t][1] = <<t, 1>>, tokens'[t][1] = <<t, 1>>
    PROVE  /\ Command(t)' \in {"mp", "create", "join", "all", "help"}
           /\ Len(Delimiters(Command(t))) <= Len(Delimiters(Command(t)'))
<1>1. Command(t) = Meant(t) /\ Command(t) \in {"mp", "create", "join", "all", "help"}
  BY CommandsNow DEF CommandsAreMeant
<1>2. Command(t)' = Meant(t)' /\ Command(t)' \in {"mp", "create", "join", "all", "help"}
  BY CommandsNext DEF CommandsAreMeant
<1>3. first[t] \in 1 .. Len(typed[t])
  BY BufferShape
<1>4. typed'[t][first'[t]].command = typed[t][first[t]].command
  BY <1>3 DEF Keeps
<1>5. buffer[t][2] = Nul => buffer'[t][2] = Nul
  <2>1. 2 \in 1 .. Size
    <3>1. typed[t][first[t]].words \in Nat \ {0} /\ 4 * typed[t][first[t]].words < Size
      BY <1>3, LineType
    <3> QED
      BY <3>1, StrtokAssumption DEF StrtokAssumption
  <2> QED
    BY <2>1, CellsDiffer DEF Keeps, Zeroed
<1>6. Command(t)' = Command(t) \/ Command(t) = "help"
  BY <1>1, <1>2, <1>4, <1>5 DEF Meant
<1>7. Len(Delimiters("help")) = 0 /\ Len(Delimiters(Command(t)')) \in 0 .. 2
  <2>1. Len(Delimiters("help")) = 0
    BY DEF Delimiters
  <2> QED
    BY <2>1, <1>2, DelimitersType
<1> QED
  BY <1>2, <1>6, <1>7

\* A session that makes no step.
LEMMA KeepsOrder ==
    ASSUME TypeOK, TypeOK', NEW t \in Thread, ReadIn(t), ReadIn(t)', InOrder(t), Keeps(t),
           pc'[t] = pc[t], call'[t] = call[t], tokens'[t] = tokens[t],
           olds # Null => olds' # Null
    PROVE  InOrder(t)'
<1>1. Busy(t)' <=> Busy(t)
  BY DEF Busy
<1>2. ASSUME Busy(t), tokens[t] # <<>>
      PROVE  /\ CutOff(t)'
             /\ Len(tokens'[t]) <= Len(Delimiters(Command(t)')) + (IF pc'[t] = "next" THEN 1 ELSE 0)
  <2>1. /\ tokens[t][1] = <<t, 1>> /\ CutOff(t)
        /\ Len(tokens[t]) <= Len(Delimiters(Command(t))) + (IF pc[t] = "next" THEN 1 ELSE 0)
    BY <1>2 DEF InOrder
  <2>2. Len(Delimiters(Command(t))) <= Len(Delimiters(Command(t)'))
    BY <1>1, <1>2, <2>1, KeepsCommand
  <2>3. CutOff(t)'
    BY <2>1, KeepsCutOff DEF Keeps
  <2>4. Len(tokens[t]) \in Nat /\ Len(Delimiters(Command(t))) \in Nat /\ Len(Delimiters(Command(t)')) \in Nat
    <3>1. Len(tokens[t]) \in Nat
      BY LenProperties DEF TypeOK, StrtokTypeOK
    <3>2. Command(t) \in {"mp", "create", "join", "all", "help"}
      BY <1>2, <2>1, CommandsNow DEF CommandsAreMeant
    <3>3. Command(t)' \in {"mp", "create", "join", "all", "help"}
      BY <1>1, <1>2, <2>1, KeepsCommand
    <3> QED
      BY <3>1, <3>2, <3>3, DelimitersType
  <2> QED
    BY <2>1, <2>2, <2>3, <2>4
<1> QED
  BY <1>1, <1>2 DEF InOrder

LEMMA InitCut == Init => TypeOK /\ SessionsCut
<1> SUFFICES ASSUME Init PROVE TypeOK /\ SessionsCut
  OBVIOUS
<1> USE StrtokAssumption DEF StrtokAssumption, Init, StrtokInit
<1>1. StrtokTypeOK
  <2>1. tokens \in [Thread -> Seq((Thread \X (1 .. Size)) \cup {Null})]
    BY EmptySeq
  <2>2. \A t \in Thread : DOMAIN buffer[t] = 1 .. Size /\ buffer[t][Size] = Nul
    BY DEF Empty
  <2> QED
    BY <2>1, <2>2 DEF StrtokTypeOK
<1>2. TypeOK
  <2>1. typed \in [Thread -> Seq(Line)] /\ \A s \in Thread : Len(typed[s]) = 0
    BY EmptySeq
  <2> QED
    BY <1>1, <2>1 DEF TypeOK
<1>3. SessionsCut
  BY DEF SessionsCut, ReadIn, InOrder, Busy
<1> QED
  BY <1>2, <1>3

\* What a user types does not change what was typed before.
LEMMA TypedBefore ==
    ASSUME TypeOK, NEW s \in Thread, Type(s)
    PROVE  /\ typed' \in [Thread -> Seq(Line)]
           /\ \A t \in Thread : /\ Len(typed[t]) <= Len(typed'[t])
                                /\ \A n \in 1 .. Len(typed[t]) : typed'[t][n] = typed[t][n]
<1>1. PICK l \in Line : typed' = [typed EXCEPT ![s] = Append(@, l)]
  BY DEF Type
<1>2. \A t \in Thread : typed[t] \in Seq(Line) /\ typed \in [Thread -> Seq(Line)]
  BY DEF TypeOK
<1>3. /\ Append(typed[s], l) \in Seq(Line) /\ Len(Append(typed[s], l)) = Len(typed[s]) + 1
      /\ \A n \in 1 .. Len(typed[s]) : Append(typed[s], l)[n] = typed[s][n]
      /\ Len(typed[s]) \in Nat
  BY <1>2, AppendProperties, LenProperties
<1>4. typed'[s] = Append(typed[s], l) /\ \A t \in Thread : t # s => typed'[t] = typed[t]
  BY <1>1, <1>2
<1>5. typed' \in [Thread -> Seq(Line)]
  BY <1>1, <1>2, <1>3
<1>6. \A t \in Thread : Len(typed[t]) \in Nat
  BY <1>2, LenProperties
<1>7. ASSUME NEW t \in Thread
      PROVE  Len(typed[t]) <= Len(typed'[t]) /\ \A n \in 1 .. Len(typed[t]) : typed'[t][n] = typed[t][n]
  <2>1. CASE t = s
    BY <1>3, <1>4, <2>1
  <2>2. CASE t # s
    BY <1>4, <1>6, <2>2
  <2> QED
    BY <2>1, <2>2
<1> QED
  BY <1>5, <1>7

LEMMA TypeCut ==
    ASSUME TypeOK, SessionsCut, NEW s \in Thread, Type(s)
    PROVE  TypeOK' /\ SessionsCut'
<1>1. UNCHANGED <<buffer, olds, call, tokens, received, first, pc, alone, event, process>>
  BY DEF Type, strtokVars
<1>2. TypeOK'
  <2>1. StrtokTypeOK'
    BY <1>1 DEF TypeOK, StrtokTypeOK
  <2>2. \A t \in Thread : Len(typed[t]) \in Nat /\ Len(typed'[t]) \in Nat
    BY TypedBefore, LenProperties DEF TypeOK
  <2>3. \A t \in Thread : received'[t] <= Len(typed'[t])
    BY <1>1, <2>2, TypedBefore DEF TypeOK
  <2> QED
    BY <1>1, <2>1, <2>3, TypedBefore DEF TypeOK
<1>3. ASSUME NEW t \in Thread PROVE ReadIn(t)' /\ (process' = "up" => InOrder(t)')
  <2>1. Keeps(t)
    BY <1>1, TypedBefore DEF Keeps, Zeroed
  <2>2. ReadIn(t)'
    BY <1>1, <2>1, KeepsReading DEF SessionsCut, Busy
  <2>3. process = "up" => InOrder(t)'
    BY <1>1, <1>2, <2>1, <2>2, KeepsOrder DEF SessionsCut
  <2> QED
    BY <1>1, <2>2, <2>3
<1> QED
  BY <1>2, <1>3 DEF SessionsCut

\* A step of session s that cuts nothing: what is left to show.
LEMMA StepCut ==
    ASSUME TypeOK, TypeOK', SessionsCut, NEW s \in Thread,
           UNCHANGED typed,
           \A t \in Thread \ {s} :
              /\ buffer'[t] = buffer[t] /\ received'[t] = received[t] /\ first'[t] = first[t]
              /\ pc'[t] = pc[t] /\ call'[t] = call[t] /\ tokens'[t] = tokens[t],
           process' = "up" => process = "up", olds # Null => olds' # Null,
           ReadIn(s)', process' = "up" => InOrder(s)'
    PROVE  SessionsCut'
<1> SUFFICES ASSUME NEW t \in Thread \ {s} PROVE ReadIn(t)' /\ (process' = "up" => InOrder(t)')
  BY DEF SessionsCut
<1>1. Keeps(t)
  BY DEF Keeps, Zeroed
<1>2. ReadIn(t)'
  BY <1>1, KeepsReading DEF SessionsCut, Busy
<1>3. process' = "up" => InOrder(t)'
  BY <1>1, <1>2, KeepsOrder DEF SessionsCut
<1> QED
  BY <1>2, <1>3

LEMMA ClearCut ==
    ASSUME TypeOK, SessionsCut, NEW s \in Thread, Clear(s)
    PROVE  TypeOK' /\ SessionsCut'
<1> USE DEF Clear, At, Go
<1>1. TypeOK'
  <2>1. StrtokTypeOK'
    BY StrtokAssumption DEF TypeOK, StrtokTypeOK, Empty, StrtokAssumption
  <2> QED
    BY <2>1 DEF TypeOK
<1>2. pc'[s] = "recv" /\ process' = "up" /\ buffer'[s] = Empty /\ call[s] = Null
  BY DEF TypeOK, StrtokTypeOK, SessionsCut, InOrder
<1>3. ReadIn(s)'
  BY <1>2 DEF ReadIn, Busy, Empty
<1>4. InOrder(s)'
  BY <1>2 DEF InOrder, Busy
<1> QED
  BY <1>1, <1>3, <1>4, StepCut DEF TypeOK, StrtokTypeOK

LEMMA LeaveCut ==
    ASSUME TypeOK, SessionsCut, NEW s \in Thread, Leave(s)
    PROVE  TypeOK' /\ SessionsCut'
<1> USE DEF Leave, At, Go, strtokVars
<1>1. TypeOK'
  BY DEF TypeOK, StrtokTypeOK
<1>2. pc'[s] = "gone" /\ pc[s] = "recv" /\ process' = "up" /\ call[s] = Null
  BY DEF TypeOK, SessionsCut, InOrder
<1>3. ReadIn(s)'
  BY <1>2 DEF ReadIn, Busy, SessionsCut
<1>4. InOrder(s)'
  BY <1>2 DEF InOrder, Busy
<1> QED
  BY <1>1, <1>3, <1>4, StepCut DEF TypeOK, StrtokTypeOK

LEMMA AnswerCut ==
    ASSUME TypeOK, SessionsCut, NEW s \in Thread, At(s, "next"),
           UNCHANGED <<strtokVars, typed, received, first, alone>>,
           \/ Go(s, "clear") /\ UNCHANGED process
           \/ process' = "null" /\ UNCHANGED pc
    PROVE  TypeOK' /\ SessionsCut'
<1> USE DEF At, Go, strtokVars
<1>1. TypeOK'
  BY DEF TypeOK, StrtokTypeOK
<1>2. CASE Go(s, "clear") /\ UNCHANGED process
  <2>1. pc'[s] = "clear" /\ process' = "up" /\ call[s] = Null
    BY <1>2 DEF TypeOK, SessionsCut, InOrder
  <2>2. ReadIn(s)'
    BY <2>1 DEF ReadIn, Busy
  <2>3. InOrder(s)'
    BY <2>1 DEF InOrder, Busy
  <2> QED
    BY <1>1, <1>2, <2>2, <2>3, StepCut DEF TypeOK
<1>3. CASE process' = "null" /\ UNCHANGED pc
  <2>1. ReadIn(s)'
    BY <1>3, KeepsReading DEF SessionsCut, Keeps, Zeroed, Busy
  <2> QED
    BY <1>1, <1>3, <2>1, StepCut
<1> QED
  BY <1>2, <1>3

LEMMA FirstCut ==
    ASSUME TypeOK, SessionsCut, NEW s \in Thread, First(s)
    PROVE  TypeOK' /\ SessionsCut'
<1> USE DEF First, At, Go, Enter
<1>1. 1 \in 1 .. Size
  BY StrtokAssumption DEF StrtokAssumption
<1>2. TypeOK'
  BY <1>1 DEF TypeOK, StrtokTypeOK
<1>3. /\ pc[s] = "first" /\ pc'[s] = "in" /\ process' = "up" /\ process = "up"
      /\ tokens[s] = <<>> /\ tokens'[s] = <<>> /\ call'[s] = <<s, 1>>
  BY DEF TypeOK, StrtokTypeOK, SessionsCut, InOrder
<1>4. ReadIn(s)'
  BY <1>3, KeepsReading DEF SessionsCut, Keeps, Zeroed, Busy
<1>5. InOrder(s)'
  BY <1>3, PointerIsNotNull DEF InOrder
<1> QED
  BY <1>2, <1>4, <1>5, StepCut DEF TypeOK, StrtokTypeOK

\* The position has been set by the first call, whoever made the last.
LEMMA MoreCut ==
    ASSUME TypeOK, SessionsCut, NEW s \in Thread, More(s)
    PROVE  TypeOK' /\ SessionsCut'
<1> USE DEF More, At, Go, Enter
<1>1. TypeOK'
  BY DEF TypeOK, StrtokTypeOK
<1>2. /\ pc[s] = "next" /\ pc'[s] = "in" /\ process' = "up" /\ process = "up"
      /\ tokens[s] # <<>> /\ tokens'[s] = tokens[s] /\ call'[s] = olds
      /\ tokens[s][1] = <<s, 1>> /\ CutOff(s)
      /\ Len(tokens[s]) <= Len(Delimiters(Command(s))) /\ olds # Null
  BY DEF TypeOK, StrtokTypeOK, SessionsCut, InOrder, Busy
<1>3. ReadIn(s)'
  BY <1>2, KeepsReading DEF SessionsCut, Keeps, Zeroed, Busy
<1>4. InOrder(s)'
  <2>1. Keeps(s) /\ Busy(s) /\ Busy(s)' /\ ReadIn(s)
    BY <1>2 DEF Keeps, Zeroed, Busy, SessionsCut
  <2>2. CutOff(s)'
    BY <1>2, <2>1, KeepsCutOff DEF Keeps
  <2>3. Command(s)' = Command(s)
    <3>1. Command(s) = Meant(s) /\ Command(s)' = Meant(s)'
      BY <1>1, <1>2, <1>3, <2>1, CommandsNow, CommandsNext DEF CommandsAreMeant
    <3> QED
      BY <3>1 DEF Meant
  <2> QED
    BY <1>2, <2>2, <2>3 DEF InOrder
<1> QED
  BY <1>1, <1>3, <1>4, StepCut DEF TypeOK, StrtokTypeOK

LEMMA RecvCut ==
    ASSUME TypeOK, SessionsCut, NEW s \in Thread, Recv(s)
    PROVE  TypeOK' /\ SessionsCut'
<1> USE DEF At, Go
<1>1. PICK last \in received[s] + 1 .. Len(typed[s]) :
          /\ last <= received[s] + 2
          /\ received' = [received EXCEPT ![s] = last]
          /\ first' = [first EXCEPT ![s] = received[s] + 1]
          /\ LET text == Arrived(s, received[s] + 1, last)
             IN  buffer' = [buffer EXCEPT ![s] = [i \in DOMAIN @ |->
                                                    IF i <= Len(text) THEN text[i] ELSE @[i]]]
  BY DEF Recv
<1> DEFINE from == received[s] + 1
           text == Arrived(s, from, last)
<1>2. /\ pc[s] = "recv" /\ process = "up" /\ process' = "up" /\ UNCHANGED <<olds, call, typed>>
      /\ pc' = [pc EXCEPT ![s] = "first"] /\ tokens' = [tokens EXCEPT ![s] = <<>>]
      /\ alone' = [alone EXCEPT ![s] = TRUE]
  BY DEF Recv
<1>3. /\ received[s] \in Nat /\ Len(typed[s]) \in Nat
      /\ from \in 1 .. Len(typed[s]) /\ last \in 1 .. Len(typed[s])
      /\ last = from \/ last = from + 1
  <2>1. received[s] \in Nat /\ Len(typed[s]) \in Nat
    BY LenProperties DEF TypeOK
  <2> QED
    BY <1>1, <2>1
<1>4. /\ DOMAIN text = 1 .. Len(text) /\ Len(text) < Size /\ Len(text) \in Nat
      /\ Len(text) >= 2 /\ text[1] = Word(s, from, 1)
  <2> HIDE DEF from
  <2> DEFINE v == typed[s][from].words
             w == typed[s][last].words
  <2>1. v \in Nat \ {0} /\ w \in Nat \ {0}
    BY <1>3, LineType
  <2>2. /\ DOMAIN text = 1 .. Len(text) /\ Len(text) < Size
        /\ Len(text) = IF from = last THEN 2 * v ELSE 2 * v + 2 * w
        /\ \A i \in 1 .. 2 * v : text[i] = Cells(s, from)[i]
    BY <1>3, ArrivedShape
  <2>3. Cells(s, from)[2 * 1 - 1] = Word(s, from, 1)
    BY <1>3, <2>1, CellsShape
  <2> HIDE DEF v, w, text
  <2> QED
    BY <2>1, <2>2, <2>3
<1> HIDE DEF text, from
<1>5. /\ DOMAIN buffer' = Thread
      /\ \A t \in Thread \ {s} : buffer'[t] = buffer[t]
      /\ buffer'[s] = [i \in 1 .. Size |-> IF i <= Len(text) THEN text[i] ELSE buffer[s][i]]
  BY <1>1 DEF TypeOK, StrtokTypeOK, text, from
<1>6. TypeOK'
  <2>1. \A t \in Thread : DOMAIN buffer'[t] = 1 .. Size /\ buffer'[t][Size] = Nul
    <3> SUFFICES ASSUME NEW t \in Thread PROVE DOMAIN buffer'[t] = 1 .. Size /\ buffer'[t][Size] = Nul
      OBVIOUS
    <3>1. DOMAIN buffer[t] = 1 .. Size /\ buffer[t][Size] = Nul
      BY DEF TypeOK, StrtokTypeOK
    <3>2. CASE t = s
      BY <1>4, <1>5, <3>1, <3>2, StrtokAssumption DEF StrtokAssumption
    <3>3. CASE t # s
      BY <1>5, <3>1, <3>3
    <3> QED
      BY <3>2, <3>3
  <2>2. tokens' \in [Thread -> Seq((Thread \X (1 .. Size)) \cup {Null})]
    BY <1>2, EmptySeq DEF TypeOK, StrtokTypeOK
  <2>3. StrtokTypeOK'
    BY <1>2, <1>5, <2>1, <2>2 DEF TypeOK, StrtokTypeOK
  <2>4. received' \in [Thread -> Nat] /\ first' \in [Thread -> Nat]
    BY <1>1, <1>3 DEF TypeOK, from
  <2>5. \A t \in Thread : received'[t] <= Len(typed'[t])
    BY <1>1, <1>2, <1>3 DEF TypeOK
  <2> QED
    BY <1>2, <2>3, <2>4, <2>5 DEF TypeOK
<1>7. /\ pc'[s] = "first" /\ tokens'[s] = <<>> /\ call'[s] = Null
      /\ first'[s] = from /\ received'[s] = last
  BY <1>1, <1>2 DEF TypeOK, StrtokTypeOK, SessionsCut, InOrder, from
<1>8. ReadIn(s)'
  <2>1. InBuffer(s)' = text
    BY <1>2, <1>7 DEF InBuffer, Arrived, Cells, text
  <2>2. ASSUME NEW i \in 1 .. Size, buffer'[s][i] # Nul
        PROVE  i \in DOMAIN text /\ buffer'[s][i] = text[i]
    <3>1. buffer[s][i] = Nul
      BY <1>2 DEF SessionsCut, ReadIn
    <3>2. i <= Len(text) /\ buffer'[s][i] = text[i]
      BY <1>5, <2>2, <3>1
    <3> QED
      BY <1>4, <3>2
  <2>3. buffer'[s][1] = Word(s, from, 1)
    BY <1>4, <1>5, StrtokAssumption DEF StrtokAssumption
  <2>4. from \in 1 .. last /\ last <= from + 1
    BY <1>3
  <2> QED
    BY <1>7, <2>1, <2>2, <2>3, <2>4 DEF ReadIn, Busy
<1>9. InOrder(s)'
  BY <1>7 DEF InOrder, Busy
<1>10. \A t \in Thread \ {s} : /\ buffer'[t] = buffer[t] /\ received'[t] = received[t]
                               /\ first'[t] = first[t] /\ pc'[t] = pc[t] /\ call'[t] = call[t]
                               /\ tokens'[t] = tokens[t]
  BY <1>1, <1>2, <1>5 DEF TypeOK, StrtokTypeOK
<1> QED
  BY <1>2, <1>6, <1>8, <1>9, <1>10, StepCut

\* The delimiters of the call a session is in.
Delims(s) == IF tokens[s] = <<>> THEN {Space} ELSE Delimiters(Command(s))[Len(tokens[s])]

LEMMA DelimsType ==
    ASSUME TypeOK, NEW s \in Thread, ReadIn(s), InOrder(s), pc[s] = "in"
    PROVE  Delims(s) \in SUBSET {Space, Newline}
<1>1. CASE tokens[s] = <<>>
  BY <1>1 DEF Delims
<1>2. CASE tokens[s] # <<>>
  <2>1. tokens[s][1] = <<s, 1>> /\ Len(tokens[s]) <= Len(Delimiters(Command(s)))
    BY <1>2 DEF InOrder, Busy
  <2>2. Command(s) \in {"mp", "create", "join", "all", "help"}
    BY <2>1, CommandsNow DEF CommandsAreMeant, Busy
  <2>3. Len(tokens[s]) \in 1 .. Len(Delimiters(Command(s)))
    <3>1. Len(tokens[s]) \in Nat /\ Len(tokens[s]) # 0
      BY <1>2, EmptySeq, LenProperties DEF TypeOK, StrtokTypeOK
    <3>2. Len(Delimiters(Command(s))) \in Nat
      BY <2>2, DelimitersType
    <3> QED
      BY <2>1, <3>1, <3>2
  <2> QED
    BY <1>2, <2>2, <2>3, DelimitersType DEF Delims
<1> QED
  BY <1>1, <1>2

\* The steps of a cut.
LEMMA CutSteps ==
    ASSUME TypeOK, SessionsCut, NEW s \in Thread, Cut(s)
    PROVE  \E o \in Thread : \E from, start, stop \in 1 .. Size :
              Returns(s, Delims(s), o, from, start, stop)
<1>1. ReadIn(s) /\ InOrder(s) /\ pc[s] = "in"
  BY DEF Cut, At, SessionsCut
<1>2. Return(s, Delims(s))
  BY DEF Cut, Delims
<1> QED
  BY <1>1, <1>2, DelimsType, ReturnSteps DEF TypeOK

\* What a cut leaves: one cell, at most, set to zero, and one token more.
Leaves(t, o, start, stop) ==
    /\ StrtokTypeOK' /\ olds' # Null
    /\ \A u \in Thread : Zeroed(u)
    /\ buffer'[o][stop] = Nul
    /\ \A u \in Thread : \A i \in 1 .. Size : u # o \/ i # stop => buffer'[u][i] = buffer[u][i]
    /\ tokens'[t] = Append(tokens[t], Got(o, start))
    /\ Len(tokens'[t]) = Len(tokens[t]) + 1 /\ Len(tokens[t]) \in Nat
    /\ \A i \in 1 .. Len(tokens[t]) : tokens'[t][i] = tokens[t][i]
    /\ call'[t] = Null
    /\ \A u \in Thread \ {t} : call'[u] = call[u] /\ tokens'[u] = tokens[u]

LEMMA CutZeroes ==
    ASSUME TypeOK, NEW s \in Thread, NEW delims \in SUBSET {Space, Newline}, NEW o \in Thread,
           NEW from \in 1 .. Size, NEW start \in 1 .. Size, NEW stop \in 1 .. Size,
           Returns(s, delims, o, from, start, stop)
    PROVE  Leaves(s, o, start, stop)
<1> USE StrtokAssumption DEF StrtokAssumption
<1> DEFINE Pointer == (Thread \X (1 .. Size)) \cup {Null}
           token == Got(o, start)
<1>1. tokens \in [Thread -> Seq(Pointer)] /\ call \in [Thread -> Pointer] /\ token \in Pointer
  BY DEF TypeOK, StrtokTypeOK, Got
<1>2. call' = [call EXCEPT ![s] = Null] /\ tokens' = [tokens EXCEPT ![s] = Append(@, token)]
  BY DEF Returns
<1>3. /\ call' \in [Thread -> Pointer] /\ call'[s] = Null
      /\ tokens'[s] = Append(tokens[s], token)
      /\ \A t \in Thread \ {s} : call'[t] = call[t] /\ tokens'[t] = tokens[t]
  BY <1>1, <1>2
<1> HIDE DEF Pointer, token
<1>4. /\ Append(tokens[s], token) \in Seq(Pointer)
      /\ Len(Append(tokens[s], token)) = Len(tokens[s]) + 1 /\ Len(tokens[s]) \in Nat
      /\ \A i \in 1 .. Len(tokens[s]) : Append(tokens[s], token)[i] = tokens[s][i]
  BY <1>1, AppendProperties, LenProperties
<1>5. tokens' \in [Thread -> Seq(Pointer)]
  BY <1>1, <1>2, <1>4
<1>6. /\ DOMAIN buffer' = Thread
      /\ \A t \in Thread : DOMAIN buffer'[t] = 1 .. Size
      /\ buffer'[o][stop] = Nul
      /\ \A t \in Thread, i \in 1 .. Size : t # o \/ i # stop => buffer'[t][i] = buffer[t][i]
  <2>1. DOMAIN buffer = Thread /\ \A t \in Thread : DOMAIN buffer[t] = 1 .. Size
    BY DEF TypeOK, StrtokTypeOK
  <2>2. CASE UNCHANGED buffer /\ buffer[o][stop] = Nul
    BY <2>1, <2>2
  <2>3. CASE buffer' = [buffer EXCEPT ![o][stop] = Nul]
    <3>1. buffer' = [buffer EXCEPT ![o] = [buffer[o] EXCEPT ![stop] = Nul]]
      BY <2>3
    <3> QED
      BY <2>1, <3>1
  <2> QED
    BY <2>2, <2>3 DEF Returns
<1>7. buffer[o][stop] \in {Space, Newline, Nul}
  BY DEF Returns
<1>8. ASSUME NEW t \in Thread PROVE Zeroed(t)
  <2> SUFFICES ASSUME NEW i \in 1 .. Size
               PROVE  \/ buffer'[t][i] = buffer[t][i]
                      \/ buffer'[t][i] = Nul /\ buffer[t][i] \in {Space, Newline}
    BY DEF Zeroed
  <2>1. CASE t # o \/ i # stop
    BY <1>6, <2>1
  <2>2. CASE t = o /\ i = stop
    BY <1>6, <1>7, <2>2
  <2> QED
    BY <2>1, <2>2
<1>9. \A t \in Thread : buffer'[t][Size] = Nul
  <2> SUFFICES ASSUME NEW t \in Thread PROVE buffer'[t][Size] = Nul
    OBVIOUS
  <2>1. buffer[t][Size] = Nul
    BY DEF TypeOK, StrtokTypeOK
  <2>2. Size \in 1 .. Size
    OBVIOUS
  <2> QED
    BY <1>8, <2>1, <2>2 DEF Zeroed
<1>10. olds' \in Thread \X (1 .. Size) /\ olds' # Null
  <2>1. olds' = <<o, stop>> \/ (stop < Size /\ olds' = <<o, stop + 1>>)
    BY DEF Returns
  <2>2. stop < Size => stop + 1 \in 1 .. Size
    OBVIOUS
  <2> QED
    BY <2>1, <2>2, PointerIsNotNull
<1>11. StrtokTypeOK'
  BY <1>3, <1>5, <1>6, <1>9, <1>10 DEF StrtokTypeOK, Pointer
<1> QED
  BY <1>3, <1>4, <1>6, <1>8, <1>10, <1>11 DEF token, Leaves

\* A session's first call ends at the first blank of what it has read.
LEMMA FirstCallCutsOff ==
    ASSUME TypeOK, NEW s \in Thread, ReadIn(s), Busy(s), tokens[s] = <<>>, call[s] = <<s, 1>>,
           NEW o \in Thread, NEW from \in 1 .. Size, NEW start \in 1 .. Size, NEW stop \in 1 .. Size,
           Returns(s, {Space}, o, from, start, stop), Leaves(s, o, start, stop)
    PROVE  tokens'[s][1] = <<s, 1>> /\ CutOff(s)'
<1>1. o = s /\ from = 1
  BY DEF Returns
<1>2. buffer[s][1] # Nul /\ buffer[s][1] # Space
  <2>1. buffer[s][1] = Word(s, first[s], 1)
    BY DEF ReadIn
  <2>2. buffer[s][1].is = "word"
    BY <2>1 DEF Word
  <2> QED
    BY <2>2, CellsDiffer
<1>3. start = 1 /\ 1 \in 1 .. Size
  <2> SUFFICES ASSUME start # 1 PROVE FALSE
    BY <1>1
  <2>1. 1 \in from .. start - 1
    BY <1>1
  <2> QED
    BY <1>1, <1>2, <2>1 DEF Returns
<1>4. /\ buffer'[s][stop] = Nul
      /\ \A i \in 1 .. Size : i # stop => buffer'[s][i] = buffer[s][i]
      /\ tokens'[s] = Append(tokens[s], <<s, 1>>)
  BY <1>1, <1>2, <1>3 DEF Got, Leaves
<1>5. tokens'[s][1] = <<s, 1>>
  <2>1. tokens'[s] = Append(<<>>, <<s, 1>>)
    BY <1>2, <1>4
  <2> QED
    BY <2>1
<1>6. ASSUME NEW i \in 1 .. Size, buffer'[s][i] = Space
      PROVE  \E j \in 1 .. i - 1 : buffer'[s][j] = Nul
  <2>1. i # stop /\ buffer[s][i] = Space
    BY <1>4, <1>6, CellsDiffer
  <2>2. ~(i < stop)
    <3> SUFFICES ASSUME i < stop PROVE FALSE
      OBVIOUS
    <3>1. i \in start .. stop - 1
      BY <1>3
    <3> QED
      BY <1>1, <2>1, <3>1 DEF Returns
  <2>3. stop \in 1 .. i - 1
    BY <2>1, <2>2
  <2> QED
    BY <1>4, <2>3
<1> QED
  BY <1>5, <1>6 DEF CutOff

LEMMA CutCut ==
    ASSUME TypeOK, SessionsCut, NEW s \in Thread, Cut(s)
    PROVE  TypeOK' /\ SessionsCut'
<1>1. PICK o \in Thread : \E from, start, stop \in 1 .. Size :
          Returns(s, Delims(s), o, from, start, stop)
  BY CutSteps
<1>2. PICK from \in 1 .. Size, start \in 1 .. Size, stop \in 1 .. Size :
          Returns(s, Delims(s), o, from, start, stop)
  BY <1>1
<1>3. /\ pc[s] = "in" /\ process = "up" /\ UNCHANGED <<typed, received, first>>
      /\ \/ pc' = [pc EXCEPT ![s] = "next"] /\ process' = "up"
         \/ process' = "unmapped" /\ UNCHANGED pc
      /\ alone' = [t \in Thread |-> t = s /\ alone[t]]
  BY DEF Cut, At, Go
<1>4. ReadIn(s) /\ InOrder(s) /\ Busy(s)
  BY <1>3 DEF SessionsCut, Busy
<1>5. Delims(s) \in SUBSET {Space, Newline}
  BY <1>3, <1>4, DelimsType
<1>a. Leaves(s, o, start, stop)
  BY <1>2, <1>5, CutZeroes
<1>6. /\ StrtokTypeOK' /\ olds' # Null
      /\ \A t \in Thread : Zeroed(t)
      /\ Len(tokens'[s]) = Len(tokens[s]) + 1 /\ Len(tokens[s]) \in Nat
      /\ \A i \in 1 .. Len(tokens[s]) : tokens'[s][i] = tokens[s][i]
      /\ call'[s] = Null
      /\ \A t \in Thread \ {s} : call'[t] = call[t] /\ tokens'[t] = tokens[t]
  BY <1>a DEF Leaves
<1>7. TypeOK'
  BY <1>3, <1>6 DEF TypeOK
<1>8. \A t \in Thread : Keeps(t)
  BY <1>3, <1>6 DEF Keeps
<1>9. /\ pc \in [Thread -> {"clear", "recv", "first", "next", "in", "gone"}]
      /\ \A t \in Thread \ {s} : pc'[t] = pc[t]
      /\ pc'[s] \in {"in", "next"}
  BY <1>3 DEF TypeOK
<1>10. ASSUME NEW t \in Thread PROVE ReadIn(t)'
  <2>1. Busy(t)' => Busy(t)
    BY <1>3, <1>4, <1>9 DEF Busy
  <2>2. pc'[t] \in {"recv", "gone"} => pc[t] \in {"recv", "gone"}
    BY <1>9
  <2> QED
    BY <1>8, <2>1, <2>2, KeepsReading DEF SessionsCut
<1>11. ASSUME NEW t \in Thread \ {s}, process' = "up" PROVE InOrder(t)'
  BY <1>3, <1>6, <1>7, <1>8, <1>9, <1>10, KeepsOrder DEF SessionsCut
<1>12. ASSUME process' = "up" PROVE InOrder(s)'
  <2>1. pc'[s] = "next" /\ Busy(s)'
    BY <1>3, <1>9, <1>12 DEF Busy
  <2>2. tokens'[s] # <<>> /\ Len(tokens'[s]) = Len(tokens[s]) + 1
    BY <1>6, EmptySeq
  <2>3. tokens'[s][1] = <<s, 1>> /\ CutOff(s)'
    <3>1. CASE tokens[s] = <<>>
      <4>1. call[s] = <<s, 1>> /\ Delims(s) = {Space}
        BY <1>3, <1>4, <3>1 DEF InOrder, Delims
      <4> QED
        BY <1>2, <1>4, <1>a, <3>1, <4>1, FirstCallCutsOff
    <3>2. CASE tokens[s] # <<>>
      <4>1. tokens[s][1] = <<s, 1>> /\ CutOff(s)
        BY <1>4, <3>2 DEF InOrder
      <4>2. 1 \in 1 .. Len(tokens[s])
        BY <1>6, <3>2, EmptySeq DEF TypeOK, StrtokTypeOK
      <4> QED
        BY <1>6, <4>1, <4>2, KeepsCutOff
    <3> QED
      BY <3>1, <3>2
  <2>4. /\ Command(s)' \in {"mp", "create", "join", "all", "help"}
        /\ Len(Delimiters(Command(s)')) \in Nat
    <3>1. Command(s)' \in {"mp", "create", "join", "all", "help"}
      BY <1>7, <1>10, <2>1, <2>3, CommandsNext DEF CommandsAreMeant
    <3> QED
      BY <3>1, DelimitersType
  <2>5. Len(tokens[s]) <= Len(Delimiters(Command(s)'))
    <3>1. CASE tokens[s] = <<>>
      BY <2>4, <3>1, EmptySeq
    <3>2. CASE tokens[s] # <<>>
      <4>1. tokens[s][1] = <<s, 1>> /\ Len(tokens[s]) <= Len(Delimiters(Command(s)))
        BY <1>3, <1>4, <3>2 DEF InOrder
      <4>2. Len(Delimiters(Command(s))) <= Len(Delimiters(Command(s)'))
        BY <1>4, <1>7, <1>8, <1>10, <2>1, <2>3, <4>1, KeepsCommand
      <4>3. Len(Delimiters(Command(s))) \in Nat
        <5>1. Command(s) \in {"mp", "create", "join", "all", "help"}
          BY <1>4, <4>1, CommandsNow DEF CommandsAreMeant
        <5> QED
          BY <5>1, DelimitersType
      <4> QED
        BY <1>6, <2>4, <4>1, <4>2, <4>3
    <3> QED
      BY <3>1, <3>2
  <2>6. Len(tokens'[s]) <= Len(Delimiters(Command(s)')) + 1
    BY <1>6, <2>4, <2>5
  <2> QED
    BY <1>6, <2>1, <2>2, <2>3, <2>6 DEF InOrder
<1> QED
  BY <1>7, <1>10, <1>11, <1>12 DEF SessionsCut

LEMMA NextCut == TypeOK /\ SessionsCut /\ [Next]_vars => TypeOK' /\ SessionsCut'
<1> SUFFICES ASSUME TypeOK, SessionsCut, [Next]_vars PROVE TypeOK' /\ SessionsCut'
  OBVIOUS
<1>1. ASSUME NEW s \in Thread, Type(s) \/ Leave(s) \/ Session(s)
      PROVE  TypeOK' /\ SessionsCut'
  <2>1. CASE Refuse(s) \/ Serve(s) \/ ServeTag(s)
    <3>1. /\ At(s, "next") /\ UNCHANGED <<strtokVars, typed, received, first, alone>>
          /\ \/ Go(s, "clear") /\ UNCHANGED process
             \/ process' = "null" /\ UNCHANGED pc
      BY <2>1 DEF Refuse, Serve, ServeTag, Ready, Answer, sessions
    <3> QED
      BY <3>1, AnswerCut
  <2> QED
    BY <1>1, <2>1, TypeCut, LeaveCut, ClearCut, RecvCut, FirstCut, MoreCut, CutCut DEF Session
<1>2. CASE UNCHANGED vars
  <2>1. TypeOK'
    BY <1>2 DEF vars, sessions, strtokVars, TypeOK, StrtokTypeOK
  <2>2. ASSUME NEW t \in Thread PROVE ReadIn(t)' /\ (process' = "up" => InOrder(t)')
    <3>1. Keeps(t) /\ UNCHANGED <<process, pc, call, tokens, olds>>
      BY <1>2 DEF vars, sessions, strtokVars, Keeps, Zeroed
    <3>2. ReadIn(t)'
      BY <3>1, KeepsReading DEF SessionsCut, Busy
    <3> QED
      BY <2>1, <3>1, <3>2, KeepsOrder DEF SessionsCut
  <2> QED
    BY <2>1, <2>2 DEF SessionsCut
<1> QED
  BY <1>1, <1>2 DEF Next

\* A mention that can read from NULL is in the command or what sticks to it.
Sane ==
    process = "null" =>
        \E s \in Thread : \E n \in 1 .. received[s] :
            typed[s][n].command = "all" /\ \E m \in Sticking(s, n) : 1 \in typed[s][m].at

LEMMA TaggedInCommand ==
    ASSUME TypeOK, NEW s \in Thread, ReadIn(s), InOrder(s), pc[s] = "next", Tagged(s)
    PROVE  \E n \in 1 .. received[s] :
              typed[s][n].command = "all" /\ \E m \in Sticking(s, n) : 1 \in typed[s][m].at
<1> USE StrtokAssumption DEF StrtokAssumption
<1> DEFINE n == first[s]
<1>1. /\ Busy(s) /\ tokens[s][1] = <<s, 1>> /\ CutOff(s) /\ Command(s) = "all"
      /\ Mentions(Text(<<s, 1>>))
  BY DEF InOrder, Busy, Tagged
<1>2. n \in 1 .. received[s] /\ typed[s][n].command = "all"
  <2>1. Command(s) = Meant(s)
    BY <1>1, CommandsNow DEF CommandsAreMeant
  <2>2. Meant(s) = "all" => typed[s][n].command = "all"
    BY DEF Meant
  <2> QED
    BY <1>1, <2>1, <2>2 DEF ReadIn
<1>3. PICK end \in 1 .. Size :
          /\ \A i \in 1 .. end - 1 : buffer[s][i] # Nul
          /\ DOMAIN Text(<<s, 1>>) = 1 .. end - 1
          /\ \A i \in 1 .. end - 1 : Text(<<s, 1>>)[i] = buffer[s][1 + i - 1]
  <2>1. StrtokTypeOK /\ 1 \in 1 .. Size
    BY DEF TypeOK
  <2> QED
    BY <2>1, TextEnds
<1>4. PICK i \in 1 .. end - 1 :
          /\ Text(<<s, 1>>)[i].is = "word"
          /\ Text(<<s, 1>>)[i].k \in typed[Text(<<s, 1>>)[i].of][Text(<<s, 1>>)[i].line].at
  BY <1>1, <1>3 DEF Mentions
<1>5. /\ i \in 1 .. Size /\ \A j \in 1 .. i : buffer[s][j] # Nul
      /\ Text(<<s, 1>>)[i] = buffer[s][i]
  <2>1. i \in Nat /\ 1 + i - 1 = i /\ i \in 1 .. Size
    OBVIOUS
  <2>2. \A j \in 1 .. i : j \in 1 .. end - 1
    OBVIOUS
  <2> QED
    BY <1>3, <2>1, <2>2
<1>6. /\ buffer[s][i].is = "word"
      /\ buffer[s][i].k \in typed[buffer[s][i].of][buffer[s][i].line].at
  BY <1>4, <1>5
<1>7. \/ buffer[s][i] = Word(s, n, 1)
      \/ /\ typed[s][n].words = 1 /\ received[s] = n + 1
         /\ buffer[s][i] = Word(s, n + 1, 1)
  BY <1>1, <1>5, <1>6, WordsBeforeBlank
<1>8. CASE buffer[s][i] = Word(s, n, 1)
  <2>1. 1 \in typed[s][n].at
    BY <1>6, <1>8 DEF Word
  <2>2. n \in Sticking(s, n)
    BY DEF Sticking
  <2> QED
    BY <1>2, <2>1, <2>2
<1>9. CASE typed[s][n].words = 1 /\ received[s] = n + 1 /\ buffer[s][i] = Word(s, n + 1, 1)
  <2>1. 1 \in typed[s][n + 1].at
    BY <1>6, <1>9 DEF Word
  <2>2. n \in Nat /\ n < received[s]
    BY <1>9 DEF TypeOK
  <2>3. n + 1 \in Sticking(s, n)
    BY <1>9, <2>2 DEF Sticking
  <2> QED
    BY <1>2, <2>1, <2>3
<1> QED
  BY <1>7, <1>8, <1>9

LEMMA NextSane == TypeOK /\ SessionsCut /\ Sane /\ [Next]_vars => Sane'
<1> SUFFICES ASSUME TypeOK, SessionsCut, Sane, [Next]_vars, process' = "null"
             PROVE  \E s \in Thread : \E n \in 1 .. received'[s] :
                       typed'[s][n].command = "all" /\ \E m \in Sticking(s, n)' : 1 \in typed'[s][m].at
  BY DEF Sane
<1>0. TypeOK'
  BY NextCut
\* What was said of the lines stays true: they are read on and added to.
<1>1. ASSUME NEW t \in Thread
      PROVE  /\ received[t] <= received'[t]
             /\ \A n \in 1 .. Len(typed[t]) : typed'[t][n] = typed[t][n]
  <2>1. CASE \E s \in Thread : Type(s)
    BY <2>1, TypedBefore DEF Type, TypeOK
  <2>2. CASE \E s \in Thread : Recv(s)
    BY <2>2, LenProperties DEF Recv, TypeOK
  <2>3. CASE UNCHANGED <<typed, received>>
    BY <2>3 DEF TypeOK
  <2>4. ASSUME NEW s \in Thread,
               Clear(s) \/ First(s) \/ More(s) \/ Cut(s) \/ Refuse(s) \/ Serve(s) \/ ServeTag(s) \/ Leave(s)
        PROVE  UNCHANGED <<typed, received>>
    BY <2>4 DEF Clear, First, More, Cut, Refuse, Serve, ServeTag, Leave, Answer, sessions
  <2> QED
    BY <2>1, <2>2, <2>3, <2>4 DEF Next, Session, vars, sessions
<1>2. ASSUME NEW s \in Thread, NEW n \in 1 .. received[s],
             typed[s][n].command = "all", NEW m \in Sticking(s, n), 1 \in typed[s][m].at
      PROVE  /\ n \in 1 .. received'[s] /\ typed'[s][n].command = "all"
             /\ m \in Sticking(s, n)' /\ 1 \in typed'[s][m].at
  <2>1. /\ received[s] \in Nat /\ received'[s] \in Nat /\ received[s] <= received'[s]
        /\ received[s] <= Len(typed[s]) /\ Len(typed[s]) \in Nat
    BY <1>0, <1>1, LenProperties DEF TypeOK
  <2>2. m \in 1 .. received[s]
    BY <2>1 DEF Sticking
  <2>3. n \in 1 .. Len(typed[s]) /\ m \in 1 .. Len(typed[s]) /\ n \in 1 .. received'[s]
    BY <2>1, <2>2
  <2>4. typed'[s][n] = typed[s][n] /\ typed'[s][m] = typed[s][m]
    BY <1>1, <2>3
  <2>5. n < received[s] => n < received'[s]
    BY <2>1
  <2>6. m \in Sticking(s, n)'
    BY <2>4, <2>5 DEF Sticking
  <2> QED
    BY <1>2, <2>3, <2>4, <2>6
<1>3. CASE process = "null"
  BY <1>2, <1>3 DEF Sane
<1>4. CASE process # "null"
  <2>1. PICK s \in Thread : ServeTag(s) /\ Tagged(s)
    BY <1>4 DEF Next, Session, vars, Type, Clear, Recv, First, More, Cut, Refuse, Serve, ServeTag,
                Leave, Answer
  <2>2. pc[s] = "next" /\ process = "up" /\ UNCHANGED <<typed, received>>
    BY <1>4, <2>1 DEF ServeTag, Ready, At, sessions, Answer
  <2>3. \E n \in 1 .. received[s] :
           typed[s][n].command = "all" /\ \E m \in Sticking(s, n) : 1 \in typed[s][m].at
    BY <2>1, <2>2, TaggedInCommand DEF SessionsCut
  <2> QED
    BY <1>2, <2>3
<1> QED
  BY <1>3, <1>4

LEMMA CellKinds ==
    ASSUME TypeOK, NEW s \in Thread, NEW n \in 1 .. Len(typed[s]), NEW i \in 1 .. 2 * typed[s][n].words
    PROVE  LET w == typed[s][n].words IN
           \/ i = 2 * w /\ Cells(s, n)[i] = Newline
           \/ i < 2 * w /\ Cells(s, n)[i] = Space /\ \E k \in 1 .. w - 1 : i = 2 * k
           \/ i < 2 * w /\ \E k \in 1 .. w : i = 2 * k - 1 /\ Cells(s, n)[i] = Word(s, n, k)
<1> DEFINE w == typed[s][n].words
<1>1. w \in Nat \ {0}
  BY LineType
<1>2. PICK k \in Nat \ {0} : i = 2 * k - 1 \/ i = 2 * k
  <2>1. i \in Nat \ {0}
    BY <1>1
  <2> QED
    BY <2>1, Halves
<1>3. CASE i = 2 * k - 1
  <2>1. k \in 1 .. w /\ i < 2 * w
    BY <1>1, <1>3
  <2> QED
    BY <1>3, <2>1, CellsShape
<1>4. CASE i = 2 * k /\ k = w
  BY <1>4, CellsShape
<1>5. CASE i = 2 * k /\ k # w
  <2>1. k \in 1 .. w - 1 /\ i < 2 * w
    BY <1>1, <1>5
  <2> QED
    BY <1>5, <2>1, CellsShape
<1> QED
  BY <1>2, <1>3, <1>4, <1>5

LEMMA KindsDiffer ==
    ASSUME NEW c
    PROVE  /\ c = Space => c # Nul /\ c # Newline
           /\ c = Newline => c # Nul /\ c # Space
           /\ c = Nul => c # Newline /\ c # Space
           /\ c.is = "word" => c # Nul /\ c # Newline /\ c # Space
BY CellsDiffer

LEMMA WordDiffers ==
    ASSUME NEW s, NEW n, NEW k
    PROVE  Word(s, n, k) # Nul /\ Word(s, n, k) # Newline /\ Word(s, n, k) # Space
<1> DEFINE c == Word(s, n, k)
<1>1. c.is = "word"
  BY DEF Word
<1> HIDE DEF c
<1>2. c # Nul /\ c # Newline /\ c # Space
  BY <1>1, KindsDiffer
<1> QED
  BY <1>2 DEF c

\* A cell of a line is no zero, a blank is no newline.
LEMMA CellIs ==
    ASSUME TypeOK, NEW s \in Thread, NEW n \in 1 .. Len(typed[s]), NEW i \in 1 .. 2 * typed[s][n].words
    PROVE  LET w == typed[s][n].words IN
           /\ Cells(s, n)[i] # Nul
           /\ Cells(s, n)[i] = Newline <=> i = 2 * w
           /\ Cells(s, n)[i] = Space => i < 2 * w /\ \E k \in 1 .. w - 1 : i = 2 * k
<1> DEFINE w == typed[s][n].words
<1>1. w \in Nat \ {0}
  BY LineType
<1> DEFINE c == Cells(s, n)[i]
<1>2. \/ i = 2 * w /\ c = Newline
      \/ i < 2 * w /\ c = Space /\ \E k \in 1 .. w - 1 : i = 2 * k
      \/ i < 2 * w /\ c # Nul /\ c # Newline /\ c # Space
  BY CellKinds, WordDiffers
<1>3. i < 2 * w => i # 2 * w
  BY <1>1
<1>4. /\ c = Space => c # Nul /\ c # Newline
      /\ c = Newline => c # Nul /\ c # Space
  BY KindsDiffer
<1> HIDE DEF c, w
<1>5. c # Nul /\ (c = Newline <=> i = 2 * w) /\ (c = Space => i < 2 * w /\ \E k \in 1 .. w - 1 : i = 2 * k)
  BY <1>2, <1>3, <1>4
<1> QED
  BY <1>5 DEF c, w

\* What a call does to the buffer of the session that makes it.
Behold(s, stop) == IF buffer[s][stop] = Nul THEN stop ELSE stop + 1

CutsOwn(s, start, stop, calls) ==
    /\ \A i \in 1 .. Size : buffer'[s][i] = IF i = stop THEN Nul ELSE buffer[s][i]
    /\ olds' = <<s, Behold(s, stop)>>
    /\ Len(tokens'[s]) = calls + 1
    /\ \A k \in 1 .. calls : tokens'[s][k] = tokens[s][k]
    /\ tokens'[s][calls + 1] = Got(s, start)

LEMMA OwnCut ==
    ASSUME TypeOK, NEW s \in Thread, NEW delims,
           NEW from \in 1 .. Size, NEW start \in 1 .. Size, NEW stop \in 1 .. Size,
           Returns(s, delims, s, from, start, stop), Leaves(s, s, start, stop)
    PROVE  CutsOwn(s, start, stop, Len(tokens[s]))
<1>1. \A i \in 1 .. Size : buffer'[s][i] = IF i = stop THEN Nul ELSE buffer[s][i]
  BY DEF Leaves
<1>2. olds' = <<s, IF buffer[s][stop] = Nul THEN stop ELSE stop + 1>>
  BY DEF Returns
<1>3. /\ tokens'[s] = Append(tokens[s], Got(s, start)) /\ Len(tokens[s]) \in Nat
      /\ Len(tokens'[s]) = Len(tokens[s]) + 1
      /\ \A i \in 1 .. Len(tokens[s]) : tokens'[s][i] = tokens[s][i]
  BY DEF Leaves
<1>4. tokens'[s][Len(tokens[s]) + 1] = Got(s, start)
  <2>1. tokens[s] \in Seq((Thread \X (1 .. Size)) \cup {Null})
    BY DEF TypeOK, StrtokTypeOK
  <2>2. Got(s, start) \in (Thread \X (1 .. Size)) \cup {Null}
    BY DEF Got
  <2> QED
    BY <1>3, <2>1, <2>2, AppendProperties
<1> QED
  BY <1>1, <1>2, <1>3, <1>4 DEF CutsOwn, Behold

\* A token that begins and ends where the buffer says so.
LEMMA StartsHere ==
    ASSUME NEW s, NEW t, NEW delims, NEW from \in 1 .. Size, NEW start \in 1 .. Size, NEW stop \in 1 .. Size,
           Returns(t, delims, s, from, start, stop), buffer[s][from] \notin delims
    PROVE  start = from
<1>1. from <= start /\ \A i \in from .. start - 1 : buffer[s][i] \in delims
  BY DEF Returns
<1> QED
  BY <1>1, StrtokAssumption DEF StrtokAssumption

StopsAt(s, delims, start, end) ==
    /\ end \in start .. Size /\ buffer[s][end] \in delims \cup {Nul}
    /\ \A i \in start .. end - 1 : buffer[s][i] \notin delims /\ buffer[s][i] # Nul

LEMMA StopsThere ==
    ASSUME NEW s, NEW t, NEW delims, NEW from \in 1 .. Size, NEW start \in 1 .. Size, NEW stop \in 1 .. Size,
           Returns(t, delims, s, from, start, stop), NEW end, StopsAt(s, delims, start, end)
    PROVE  stop = end
<1>1. /\ start <= stop /\ buffer[s][stop] \in delims \cup {Nul}
      /\ \A i \in start .. stop - 1 : buffer[s][i] \notin delims /\ buffer[s][i] # Nul
  BY DEF Returns
<1>2. ~(stop < end)
  BY <1>1, StrtokAssumption DEF StrtokAssumption, StopsAt
<1>3. ~(end < stop)
  BY <1>1, StrtokAssumption DEF StrtokAssumption, StopsAt
<1> QED
  BY <1>2, <1>3, StrtokAssumption DEF StrtokAssumption, StopsAt

\* A cut that goes on as CutAlone says.
CutsOn(s, start, stop, command, w, calls) ==
    /\ \A i \in 1 .. Size : (i > 2 * w \/ i \in CutAt(command, w, calls + 1))
                             <=> (i > 2 * w \/ i \in CutAt(command, w, calls) \/ i = stop)
    /\ calls + 1 \in 1 .. 2 => Behold(s, stop) = Behind(command, w, calls + 1)
    /\ calls + 1 >= 2 => Got(s, start) = Argument(s, w, calls + 1)

LEMMA AloneAfter ==
    ASSUME NEW s \in Thread, CutAlone(s), UNCHANGED <<typed, first>>, pc'[s] = "next",
           NEW command, NEW w, NEW calls \in Nat,
           command = typed[s][first[s]].command, w = typed[s][first[s]].words,
           calls = Len(tokens[s]),
           NEW start, NEW stop,
           CutsOwn(s, start, stop, calls), CutsOn(s, start, stop, command, w, calls)
    PROVE  CutAlone(s)'
<1>1. /\ \A i \in 1 .. Size : buffer'[s][i] = IF i = stop THEN Nul ELSE buffer[s][i]
      /\ olds' = <<s, Behold(s, stop)>>
      /\ Len(tokens'[s]) = calls + 1
      /\ \A k \in 1 .. calls : tokens'[s][k] = tokens[s][k]
      /\ tokens'[s][calls + 1] = Got(s, start)
  BY DEF CutsOwn
<1>2. /\ \A i \in 1 .. Size : (i > 2 * w \/ i \in CutAt(command, w, calls + 1))
                               <=> (i > 2 * w \/ i \in CutAt(command, w, calls) \/ i = stop)
      /\ calls + 1 \in 1 .. 2 => Behold(s, stop) = Behind(command, w, calls + 1)
      /\ calls + 1 >= 2 => Got(s, start) = Argument(s, w, calls + 1)
  BY DEF CutsOn
<1>3. ASSUME NEW i \in 1 .. Size
      PROVE  buffer'[s][i] = IF i > 2 * w \/ i \in CutAt(command, w, calls + 1) THEN Nul
                             ELSE Cells(s, first[s])[i]
  <2>1. buffer[s][i] = IF i > 2 * w \/ i \in CutAt(command, w, calls) THEN Nul
                       ELSE Cells(s, first[s])[i]
    BY DEF CutAlone
  <2>2. (i > 2 * w \/ i \in CutAt(command, w, calls + 1))
           <=> (i > 2 * w \/ i \in CutAt(command, w, calls) \/ i = stop)
    BY <1>2
  <2>3. buffer'[s][i] = IF i = stop THEN Nul ELSE buffer[s][i]
    BY <1>1
  <2> QED
    BY <2>1, <2>2, <2>3
<1>4. calls + 1 \in 1 .. 2 => olds' = <<s, Behind(command, w, calls + 1)>>
  BY <1>1, <1>2
<1>5. ASSUME NEW k \in 2 .. calls + 1 PROVE tokens'[s][k] = Argument(s, w, k)
  <2>1. CASE k = calls + 1
    BY <1>1, <1>2, <2>1
  <2>2. CASE k # calls + 1
    <3>1. k \in 2 .. calls /\ k \in 1 .. calls
      BY <2>2
    <3>2. tokens[s][k] = Argument(s, w, k)
      BY <3>1 DEF CutAlone
    <3> QED
      BY <1>1, <3>1, <3>2
  <2> QED
    BY <2>1, <2>2
<1>6. /\ typed'[s][first'[s]].command = command /\ typed'[s][first'[s]].words = w
      /\ Cells(s, first[s])' = Cells(s, first[s]) /\ first'[s] = first[s]
  BY DEF Cells
<1> QED
  BY <1>1, <1>3, <1>4, <1>5, <1>6 DEF CutAlone

\* The line in the buffer of a session alone, cell by cell.
Row(s, w, cut) ==
    /\ \A i \in 1 .. Size : i > 2 * w \/ i \in cut => buffer[s][i] = Nul
    /\ \A i \in 1 .. 2 * w : i \notin cut => buffer[s][i] # Nul /\ (buffer[s][i] = Newline <=> i = 2 * w)
    /\ \A k \in 1 .. w : 2 * k - 1 \notin cut => buffer[s][2 * k - 1] # Space
    /\ \A k \in 1 .. w - 1 : 2 * k \notin cut => buffer[s][2 * k] = Space

LEMMA AloneRow ==
    ASSUME TypeOK, NEW s \in Thread, ReadIn(s), Busy(s), CutAlone(s),
           NEW command, NEW w, NEW calls,
           command = typed[s][first[s]].command, w = typed[s][first[s]].words,
           calls = Len(tokens[s])
    PROVE  /\ w \in Nat \ {0} /\ 4 * w < Size
           /\ command \in {"mp", "create", "join", "all", "help"}
           /\ Row(s, w, CutAt(command, w, calls))
<1> DEFINE cut == CutAt(command, w, calls)
           n == first[s]
<1>1. n \in 1 .. Len(typed[s])
  BY BufferShape
<1>2. /\ w \in Nat \ {0} /\ 4 * w < Size
      /\ command \in {"mp", "create", "join", "all", "help"}
  BY <1>1, LineType
<1>3. \A i \in 1 .. Size : buffer[s][i] = IF i > 2 * w \/ i \in cut THEN Nul ELSE Cells(s, n)[i]
  BY DEF CutAlone
<1> HIDE DEF cut, n
<1>4. \A i \in 1 .. 2 * w : i \in 1 .. Size /\ i \in Nat /\ ~(i > 2 * w)
  BY <1>2, StrtokAssumption DEF StrtokAssumption
<1>5. ASSUME NEW i \in 1 .. 2 * w, i \notin cut
      PROVE  buffer[s][i] = Cells(s, n)[i] /\ buffer[s][i] # Nul /\ (buffer[s][i] = Newline <=> i = 2 * w)
  <2>1. buffer[s][i] = Cells(s, n)[i]
    BY <1>3, <1>4, <1>5
  <2>2. Cells(s, n)[i] # Nul /\ (Cells(s, n)[i] = Newline <=> i = 2 * w)
    BY <1>1, CellIs DEF n
  <2> QED
    BY <2>1, <2>2
<1>6. ASSUME NEW k \in 1 .. w, 2 * k - 1 \notin cut PROVE buffer[s][2 * k - 1] # Space
  <2>1. 2 * k - 1 \in 1 .. 2 * w
    BY <1>2
  <2>2. Cells(s, n)[2 * k - 1] = Word(s, n, k)
    BY <1>1, CellsShape DEF n
  <2> QED
    BY <1>5, <1>6, <2>1, <2>2, WordDiffers
<1>7. ASSUME NEW k \in 1 .. w - 1, 2 * k \notin cut PROVE buffer[s][2 * k] = Space
  <2>1. 2 * k \in 1 .. 2 * w
    BY <1>2
  <2>2. Cells(s, n)[2 * k] = Space
    BY <1>1, CellsShape DEF n
  <2> QED
    BY <1>5, <1>7, <2>1, <2>2
<1>8. Row(s, w, cut)
  BY <1>3, <1>5, <1>6, <1>7 DEF Row
<1> QED
  BY <1>2, <1>8 DEF cut

\* Where the calls of a session alone end, from where they begin.
LEMMA FirstAlone ==
    ASSUME NEW s, NEW w \in Nat \ {0}, 4 * w < Size, NEW command, Row(s, w, {}),
           NEW start \in 1 .. Size, NEW stop \in 1 .. Size,
           Returns(s, {Space}, s, 1, start, stop)
    PROVE  CutsOn(s, start, stop, command, w, 0)
<1> USE StrtokAssumption DEF StrtokAssumption
<1>1. 1 \in 1 .. Size /\ 2 \in 1 .. Size /\ 3 \in 1 .. Size
  OBVIOUS
<1>2. buffer[s][1] # Space /\ buffer[s][1] # Nul
  <2>1. 2 * 1 - 1 = 1 /\ 1 \in 1 .. w /\ 1 \in 1 .. 2 * w
    OBVIOUS
  <2> QED
    BY <2>1 DEF Row
<1>3. start = 1
  BY <1>1, <1>2, StartsHere
<1>4. CASE w = 1
  <2>1. buffer[s][2] # Nul /\ buffer[s][2] = Newline /\ buffer[s][3] = Nul
    BY <1>1, <1>4 DEF Row
  <2>2. buffer[s][2] # Space
    BY <2>1, KindsDiffer
  <2>3. stop = 3
    <3>1. 3 \in start .. Size /\ \A i \in start .. 3 - 1 : i = 1 \/ i = 2
      BY <1>3
    <3>2. \A i \in start .. 3 - 1 : buffer[s][i] \notin {Space} /\ buffer[s][i] # Nul
      BY <1>2, <2>1, <2>2, <3>1
    <3>3. buffer[s][3] \in {Space} \cup {Nul}
      BY <2>1
    <3>9. StopsAt(s, {Space}, start, 3)
      BY <3>1, <3>2, <3>3 DEF StopsAt
    <3> QED
      BY <1>1, <3>9, StopsThere
  <2>4. Behold(s, stop) = 3
    BY <2>1, <2>3 DEF Behold
  <2> QED
    BY <1>4, <2>3, <2>4 DEF CutsOn, CutAt, Behind
<1>5. CASE w > 1
  <2>1. buffer[s][2] = Space /\ buffer[s][2] # Nul
    <3>1. 2 * 1 = 2 /\ 1 \in 1 .. w - 1 /\ 2 \in 1 .. 2 * w
      BY <1>5
    <3> QED
      BY <3>1 DEF Row
  <2>2. stop = 2
    <3>1. 2 \in start .. Size /\ \A i \in start .. 2 - 1 : i = 1
      BY <1>3
    <3>9. StopsAt(s, {Space}, start, 2)
      BY <1>1, <1>2, <1>3, <2>1, <3>1 DEF StopsAt
    <3> QED
      BY <1>1, <3>9, StopsThere
  <2>3. Behold(s, stop) = 3
    BY <2>1, <2>2 DEF Behold
  <2> QED
    BY <1>5, <2>2, <2>3 DEF CutsOn, CutAt, Behind
<1> QED
  BY <1>4, <1>5

LEMMA SecondAlone ==
    ASSUME NEW s, NEW w \in Nat \ {0}, 4 * w < Size,
           NEW command \in {"mp", "create", "join", "all"},
           Row(s, w, CutAt(command, w, 1)),
           NEW start \in 1 .. Size, NEW stop \in 1 .. Size,
           Returns(s, Delimiters(command)[1], s, 3, start, stop)
    PROVE  CutsOn(s, start, stop, command, w, 1)
<1> USE StrtokAssumption DEF StrtokAssumption
<1> DEFINE delims == Delimiters(command)[1]
<1>1. 3 \in 1 .. Size /\ 4 \in 1 .. Size /\ (w > 1 => 5 \in 1 .. Size) /\ 2 * w + 1 \in 1 .. Size
  OBVIOUS
<1>2. /\ command # "all" => delims = {Space}
      /\ command = "all" => delims = {}
  BY DEF Delimiters
<1>0. Returns(s, delims, s, 3, start, stop)
  OBVIOUS
<1> HIDE DEF delims
<1>3. \A i : i \in CutAt(command, w, 1) <=> i = 2 /\ w > 1
  BY DEF CutAt
<1>4. /\ \A i \in 1 .. Size : i > 2 * w => buffer[s][i] = Nul
      /\ \A i \in 3 .. 2 * w : buffer[s][i] # Nul /\ (buffer[s][i] = Newline <=> i = 2 * w)
      /\ w > 1 => buffer[s][3] # Space
      /\ w > 2 => buffer[s][4] = Space
  <2>1. \A i \in 3 .. 2 * w : i \in 1 .. 2 * w /\ i \notin CutAt(command, w, 1)
    BY <1>3
  <2>2. w > 1 => 2 * 2 - 1 = 3 /\ 2 \in 1 .. w /\ 3 \notin CutAt(command, w, 1)
    BY <1>3
  <2>3. w > 2 => 2 * 2 = 4 /\ 2 \in 1 .. w - 1 /\ 4 \notin CutAt(command, w, 1)
    BY <1>3
  <2> QED
    BY <2>1, <2>2, <2>3 DEF Row
<1>5. CASE w = 1
  <2>1. buffer[s][3] = Nul
    BY <1>1, <1>4, <1>5
  <2>2. buffer[s][3] \notin delims
    BY <1>2, <2>1, KindsDiffer
  <2>3. start = 3
    BY <1>1, <2>2, <1>0, StartsHere
  <2>4. stop = 3
    <3>1. 3 \in start .. Size /\ \A i \in start .. 3 - 1 : buffer[s][i] \notin delims /\ buffer[s][i] # Nul
      BY <1>1, <2>3
    <3>2. buffer[s][3] \in delims \cup {Nul}
      BY <2>1
    <3>9. StopsAt(s, delims, start, 3)
      BY <3>1, <3>2 DEF StopsAt
    <3> QED
      BY <1>0, <1>1, <3>9, StopsThere
  <2>5. Behold(s, stop) = 3 /\ Got(s, start) = Null
    BY <2>1, <2>3, <2>4 DEF Behold, Got
  <2> QED
    BY <1>3, <1>5, <2>4, <2>5 DEF CutsOn, CutAt, Behind, Argument
<1>6. CASE w > 1
  <2>1. 3 \in 3 .. 2 * w /\ buffer[s][3] # Nul /\ buffer[s][3] # Space
    <3>1. 3 \in 3 .. 2 * w
      BY <1>6
    <3> QED
      BY <1>4, <1>6, <3>1
  <2>2. start = 3
    <3>1. buffer[s][3] \notin delims
      BY <1>2, <2>1
    <3> QED
      BY <1>1, <3>1, <1>0, StartsHere
  <2>3. Got(s, start) = Argument(s, w, 2)
    BY <1>6, <2>1, <2>2 DEF Got, Argument
  <2>4. CASE command = "all"
    <3>1. buffer[s][2 * w + 1] = Nul
      BY <1>1, <1>4
    <3>2. stop = 2 * w + 1
      <4>1. 2 * w + 1 \in start .. Size /\ \A i \in start .. 2 * w + 1 - 1 : i \in 3 .. 2 * w
        BY <1>1, <1>6, <2>2
      <4>2. \A i \in start .. 2 * w + 1 - 1 : buffer[s][i] \notin delims /\ buffer[s][i] # Nul
        BY <1>2, <1>4, <2>4, <4>1
      <4>3. buffer[s][2 * w + 1] \in delims \cup {Nul}
        BY <3>1
      <4>9. StopsAt(s, delims, start, 2 * w + 1)
        BY <4>1, <4>2, <4>3 DEF StopsAt
      <4> QED
        BY <1>0, <1>1, <4>9, StopsThere
    <3>3. Behold(s, stop) = 2 * w + 1
      BY <3>1, <3>2 DEF Behold
    <3> QED
      BY <1>3, <2>3, <2>4, <3>2, <3>3 DEF CutsOn, CutAt, Behind
  <2>5. CASE command # "all" /\ w = 2
    <3>1. buffer[s][4] = Newline /\ buffer[s][4] # Nul /\ buffer[s][5] = Nul
      <4>1. 4 \in 3 .. 2 * w /\ 4 = 2 * w /\ 5 \in 1 .. Size /\ 5 > 2 * w
        BY <1>1, <2>5
      <4> QED
        BY <1>4, <4>1
    <3>2. buffer[s][4] # Space
      BY <3>1, KindsDiffer
    <3>3. stop = 5
      <4>1. 5 \in start .. Size /\ \A i \in start .. 5 - 1 : i = 3 \/ i = 4
        BY <1>1, <1>6, <2>2
      <4>2. \A i \in start .. 5 - 1 : buffer[s][i] \notin delims /\ buffer[s][i] # Nul
        BY <1>2, <2>1, <2>5, <3>1, <3>2, <4>1
      <4>3. buffer[s][5] \in delims \cup {Nul}
        BY <3>1
      <4>9. StopsAt(s, delims, start, 5)
        BY <4>1, <4>2, <4>3 DEF StopsAt
      <4> QED
        BY <1>0, <1>1, <4>9, StopsThere
    <3>4. Behold(s, stop) = 5
      BY <3>1, <3>3 DEF Behold
    <3> QED
      BY <1>3, <2>3, <2>5, <3>3, <3>4 DEF CutsOn, CutAt, Behind
  <2>6. CASE command # "all" /\ w > 2
    <3>1. buffer[s][4] = Space /\ buffer[s][4] # Nul
      <4>1. 4 \in 3 .. 2 * w
        BY <2>6
      <4> QED
        BY <1>4, <2>6, <4>1
    <3>2. stop = 4
      <4>1. 4 \in start .. Size /\ \A i \in start .. 4 - 1 : i = 3
        BY <1>1, <1>6, <2>2
      <4>2. \A i \in start .. 4 - 1 : buffer[s][i] \notin delims /\ buffer[s][i] # Nul
        BY <1>2, <2>1, <2>6, <4>1
      <4>3. buffer[s][4] \in delims \cup {Nul}
        BY <1>2, <2>6, <3>1
      <4>9. StopsAt(s, delims, start, 4)
        BY <4>1, <4>2, <4>3 DEF StopsAt
      <4> QED
        BY <1>0, <1>1, <4>9, StopsThere
    <3>3. Behold(s, stop) = 5
      BY <3>1, <3>2 DEF Behold
    <3> QED
      BY <1>3, <2>3, <2>6, <3>2, <3>3 DEF CutsOn, CutAt, Behind
  <2> QED
    BY <1>6, <2>4, <2>5, <2>6
<1> QED
  BY <1>5, <1>6

LEMMA ThirdAlone ==
    ASSUME NEW s, NEW w \in Nat \ {0}, 4 * w < Size,
           NEW command \in {"mp", "create"},
           Row(s, w, CutAt(command, w, 2)),
           NEW start \in 1 .. Size, NEW stop \in 1 .. Size,
           Returns(s, Delimiters(command)[2], s, Behind(command, w, 2), start, stop)
    PROVE  CutsOn(s, start, stop, command, w, 2)
<1> USE StrtokAssumption DEF StrtokAssumption
<1> DEFINE delims == Delimiters(command)[2]
           from == Behind(command, w, 2)
<1>0. Returns(s, delims, s, from, start, stop)
  OBVIOUS
<1>1. /\ command = "create" => delims = {Newline}
      /\ command = "mp" => delims = {}
  BY DEF Delimiters
<1>2. from = IF w = 1 THEN 3 ELSE 5
  BY DEF Behind
<1> HIDE DEF delims, from
<1>3. \A i : i \in CutAt(command, w, 2) <=> (i = 2 /\ w > 1) \/ (i = 4 /\ w > 2)
  BY DEF CutAt
<1>4. /\ \A i \in 1 .. Size : i > 2 * w => buffer[s][i] = Nul
      /\ \A i \in 5 .. 2 * w : buffer[s][i] # Nul /\ (buffer[s][i] = Newline <=> i = 2 * w)
  <2>1. \A i \in 5 .. 2 * w : i \in 1 .. 2 * w /\ i \notin CutAt(command, w, 2)
    BY <1>3
  <2> QED
    BY <2>1 DEF Row
<1>5. from \in 1 .. Size /\ (w <= 2 => from > 2 * w)
  BY <1>2
<1>6. CASE w <= 2
  <2>1. buffer[s][from] = Nul
    BY <1>4, <1>5, <1>6
  <2>2. buffer[s][from] \notin delims
    BY <1>1, <2>1, KindsDiffer
  <2>3. start = from
    BY <1>0, <1>5, <2>2, StartsHere
  <2>4. stop = from
    <3>1. from \in start .. Size /\ \A i \in start .. from - 1 : buffer[s][i] \notin delims /\ buffer[s][i] # Nul
      BY <1>5, <2>3
    <3>2. buffer[s][from] \in delims \cup {Nul}
      BY <2>1
    <3>9. StopsAt(s, delims, start, from)
      BY <1>5, <3>1, <3>2 DEF StopsAt
    <3> QED
      BY <1>0, <1>5, <3>9, StopsThere
  <2>5. Got(s, start) = Argument(s, w, 3)
    BY <1>6, <2>1, <2>3 DEF Got, Argument
  <2>6. \A i : i \in CutAt(command, w, 3) <=> i \in CutAt(command, w, 2)
    BY <1>6 DEF CutAt
  <2> QED
    BY <1>5, <1>6, <2>4, <2>5, <2>6 DEF CutsOn
<1>7. CASE w > 2
  <2>1. 5 \in 5 .. 2 * w /\ 5 \in 1 .. Size /\ from = 5 /\ 2 * w \in 5 .. 2 * w /\ 2 * w # 5
    BY <1>2, <1>7
  <2>2. buffer[s][5] # Nul /\ buffer[s][5] # Newline /\ buffer[s][2 * w] = Newline
    BY <1>4, <2>1
  <2>3. start = 5
    <3>1. buffer[s][5] \notin delims
      BY <1>1, <2>2
    <3> QED
      BY <1>0, <2>1, <3>1, StartsHere
  <2>4. Got(s, start) = Argument(s, w, 3)
    BY <1>7, <2>2, <2>3 DEF Got, Argument
  <2>5. CASE command = "mp"
    <3>1. buffer[s][2 * w + 1] = Nul /\ 2 * w + 1 \in start .. Size
      BY <1>4, <2>1, <2>3
    <3>2. stop = 2 * w + 1
      <4>1. \A i \in start .. 2 * w + 1 - 1 : i \in 5 .. 2 * w
        BY <2>3
      <4>2. \A i \in start .. 2 * w + 1 - 1 : buffer[s][i] \notin delims /\ buffer[s][i] # Nul
        BY <1>1, <1>4, <2>5, <4>1
      <4>3. buffer[s][2 * w + 1] \in delims \cup {Nul}
        BY <3>1
      <4>9. StopsAt(s, delims, start, 2 * w + 1)
        BY <3>1, <4>2, <4>3 DEF StopsAt
      <4> QED
        BY <1>0, <1>5, <4>9, StopsThere
    <3>3. \A i : i \in CutAt(command, w, 3) <=> i \in CutAt(command, w, 2)
      BY <2>5 DEF CutAt
    <3> QED
      BY <2>4, <3>2, <3>3 DEF CutsOn
  <2>6. CASE command = "create"
    <3>1. 2 * w \in start .. Size
      BY <2>1, <2>3
    <3>2. stop = 2 * w
      <4>1. \A i \in start .. 2 * w - 1 : i \in 5 .. 2 * w /\ i # 2 * w
        BY <2>3
      <4>2. \A i \in start .. 2 * w - 1 : buffer[s][i] \notin delims /\ buffer[s][i] # Nul
        BY <1>1, <1>4, <2>6, <4>1
      <4>3. buffer[s][2 * w] \in delims \cup {Nul}
        BY <1>1, <2>2, <2>6
      <4>9. StopsAt(s, delims, start, 2 * w)
        BY <3>1, <4>2, <4>3 DEF StopsAt
      <4> QED
        BY <1>0, <1>5, <4>9, StopsThere
    <3>3. \A i : i \in CutAt(command, w, 3) <=> i \in CutAt(command, w, 2) \/ i = 2 * w
      BY <1>7, <2>6 DEF CutAt
    <3> QED
      BY <2>4, <3>2, <3>3 DEF CutsOn
  <2> QED
    BY <2>5, <2>6
<1> QED
  BY <1>6, <1>7

\* Alone, a session's call goes on as CutAlone says.
LEMMA AloneCut ==
    ASSUME TypeOK, SessionsCut, NEW s \in Thread, Cut(s), Untouched(s), CutAlone(s), pc'[s] = "next"
    PROVE  CutAlone(s)'
<1> DEFINE command == typed[s][first[s]].command
           w == typed[s][first[s]].words
           calls == Len(tokens[s])
<1>1. /\ ReadIn(s) /\ InOrder(s) /\ Busy(s) /\ pc[s] = "in" /\ call[s] # Null
      /\ UNCHANGED <<typed, first>>
  BY DEF Cut, At, Return, SessionsCut, Untouched
<1>2. /\ w \in Nat \ {0} /\ 4 * w < Size
      /\ command \in {"mp", "create", "join", "all", "help"}
      /\ Row(s, w, CutAt(command, w, calls))
  BY <1>1, AloneRow
<1>3. PICK o \in Thread, from \in 1 .. Size, start \in 1 .. Size, stop \in 1 .. Size :
          Returns(s, Delims(s), o, from, start, stop)
  BY CutSteps
<1>4. call[s] = <<o, from>>
  BY <1>3 DEF Returns
<1>5. calls \in Nat /\ (calls = 0 <=> tokens[s] = <<>>)
  BY EmptySeq, LenProperties DEF TypeOK, StrtokTypeOK
<1>6. calls > 0 => call[s] = olds
  BY <1>1 DEF CutAlone
<1>7. calls \in 1 .. 2 => call[s] = <<s, Behind(command, w, calls)>>
  <2>1. calls \in 1 .. 2 => olds = <<s, Behind(command, w, calls)>>
    BY DEF CutAlone
  <2> HIDE DEF calls, w, command
  <2> QED
    BY <1>6, <2>1
<1>8. calls > 0 =>
          /\ calls <= Len(Delimiters(Command(s))) /\ Delims(s) = Delimiters(Command(s))[calls]
          /\ Command(s) = IF command = "mp" /\ buffer[s][2] # Nul THEN "help" ELSE command
  BY <1>1, <1>5, CommandsNow DEF InOrder, CommandsAreMeant, Delims, Meant
<1> HIDE DEF calls, w, command
<1>9. /\ calls > 0 => Command(s) = command /\ command # "help" /\ calls \in 1 .. 2
      /\ calls = 2 => command \in {"mp", "create"}
  BY <1>2, <1>5, <1>8 DEF Delimiters
<1>10. ASSUME calls = 0 PROVE o = s /\ CutsOn(s, start, stop, command, w, calls)
  <2>1. o = s /\ from = 1 /\ Delims(s) = {Space}
    BY <1>1, <1>4, <1>5, <1>10 DEF InOrder, Delims
  <2>2. CutAt(command, w, calls) = {}
    BY <1>10 DEF CutAt
  <2> QED
    BY <1>2, <1>3, <1>10, <2>1, <2>2, FirstAlone
<1>11. ASSUME calls = 1 PROVE o = s /\ CutsOn(s, start, stop, command, w, calls)
  <2>1. o = s /\ from = 3 /\ Delims(s) = Delimiters(command)[1]
    BY <1>4, <1>7, <1>8, <1>9, <1>11 DEF Behind
  <2> QED
    BY <1>2, <1>3, <1>9, <1>11, <2>1, SecondAlone
<1>12. ASSUME calls = 2 PROVE o = s /\ CutsOn(s, start, stop, command, w, calls)
  <2>1. o = s /\ from = Behind(command, w, 2) /\ Delims(s) = Delimiters(command)[2]
    BY <1>4, <1>7, <1>8, <1>9, <1>12
  <2> QED
    BY <1>2, <1>3, <1>9, <1>12, <2>1, ThirdAlone
<1>13. o = s /\ CutsOn(s, start, stop, command, w, calls)
  BY <1>5, <1>9, <1>10, <1>11, <1>12
<1>14. Leaves(s, s, start, stop)
  BY <1>1, <1>3, <1>13, CutZeroes, DelimsType
<1>15. CutsOwn(s, start, stop, calls)
  BY <1>3, <1>13, <1>14, OwnCut DEF calls
<1> QED
  BY <1>1, <1>5, <1>13, <1>15, AloneAfter DEF calls, w, command

\* A line that arrives alone in the cleared buffer is there as it was sent.
LEMMA RecvAlone ==
    ASSUME TypeOK, SessionsCut, NEW s \in Thread, Recv(s), first'[s] = received'[s]
    PROVE  CutAlone(s)'
<1>1. PICK last \in received[s] + 1 .. Len(typed[s]) :
          /\ received' = [received EXCEPT ![s] = last]
          /\ first' = [first EXCEPT ![s] = received[s] + 1]
          /\ LET text == Arrived(s, received[s] + 1, last)
             IN  buffer' = [buffer EXCEPT ![s] = [i \in DOMAIN @ |->
                                                    IF i <= Len(text) THEN text[i] ELSE @[i]]]
  BY DEF Recv
<1> PICK n \in Nat : n = received[s] + 1
  BY DEF TypeOK
<1> DEFINE w == typed[s][n].words
<1>2. /\ pc[s] = "recv" /\ pc'[s] = "first" /\ UNCHANGED typed /\ tokens'[s] = <<>>
  BY DEF Recv, At, Go, TypeOK, StrtokTypeOK
<1>3. first'[s] = n /\ received'[s] = last /\ last = n
  BY <1>1 DEF TypeOK
<1>4. n \in 1 .. Len(typed[s])
  BY <1>3 DEF TypeOK
<1>5. w \in Nat \ {0} /\ Len(Cells(s, n)) = 2 * w
  BY <1>4, LineType, CellsShape
<1>6. \A i \in 1 .. Size : buffer[s][i] = Nul
  BY <1>2 DEF SessionsCut, ReadIn
<1>7. Arrived(s, n, last) = Cells(s, n)
  BY <1>3 DEF Arrived
<1>8. \A i \in 1 .. Size : buffer'[s][i] = IF i <= Len(Cells(s, n)) THEN Cells(s, n)[i] ELSE buffer[s][i]
  BY <1>1, <1>7 DEF TypeOK, StrtokTypeOK
<1>9. /\ Cells(s, n)' = Cells(s, n) /\ typed'[s][n].words = w /\ Len(tokens'[s]) = 0
      /\ typed'[s][n].command = typed[s][n].command
  BY <1>2 DEF Cells
<1>10. CutAt(typed[s][n].command, w, 0) = {}
  BY DEF CutAt
<1>11. \A i \in 1 .. Size :
           buffer'[s][i] = IF i > 2 * w \/ i \in CutAt(typed[s][n].command, w, 0) THEN Nul
                           ELSE Cells(s, n)[i]
  <2> HIDE DEF w
  <2> QED
    BY <1>5, <1>6, <1>8, <1>10, StrtokAssumption DEF StrtokAssumption
<1> QED
  BY <1>3, <1>9, <1>11 DEF CutAlone

\* What others do, and what a session does but for its calls, leaves it as it is.
LEMMA KeepsAlone ==
    ASSUME NEW s \in Thread, CutAlone(s), UNCHANGED olds,
           first'[s] = first[s], typed'[s][first[s]] = typed[s][first[s]],
           buffer'[s] = buffer[s], tokens'[s] = tokens[s],
           Len(tokens[s]) > 0 /\ pc'[s] = "in" => call'[s] = olds
    PROVE  CutAlone(s)'
<1>1. Cells(s, first[s])' = Cells(s, first[s])
  BY DEF Cells
<1> QED
  BY <1>1 DEF CutAlone

LEMMA NextAlone == TypeOK /\ SessionsCut /\ AloneIsCut /\ [Next]_vars => AloneIsCut'
<1> SUFFICES ASSUME TypeOK, SessionsCut, AloneIsCut, [Next]_vars, process' = "up",
                    NEW t \in Thread, Untouched(t)'
             PROVE  CutAlone(t)'
  BY DEF AloneIsCut
<1>1. ASSUME Untouched(t), UNCHANGED olds, process = "up",
             first'[t] = first[t], UNCHANGED typed,
             buffer'[t] = buffer[t], tokens'[t] = tokens[t],
             Len(tokens[t]) > 0 /\ pc'[t] = "in" => call'[t] = olds
      PROVE  CutAlone(t)'
  BY <1>1, KeepsAlone DEF AloneIsCut
<1>2. ASSUME NEW s \in Thread, s # t, UNCHANGED <<olds, typed>>, process = "up",
             \/ Clear(s) \/ Recv(s) \/ Leave(s) \/ First(s) \/ More(s)
             \/ Refuse(s) \/ Serve(s) \/ ServeTag(s)
      PROVE  CutAlone(t)'
  <2>1. /\ buffer'[t] = buffer[t] /\ tokens'[t] = tokens[t] /\ call'[t] = call[t]
        /\ first'[t] = first[t] /\ received'[t] = received[t] /\ alone'[t] = alone[t]
        /\ pc'[t] = pc[t]
    BY <1>2 DEF Clear, Recv, Leave, First, More, Refuse, Serve, ServeTag, Answer, Enter, Go,
                TypeOK, StrtokTypeOK, strtokVars, sessions
  <2>2. Untouched(t)
    BY <2>1 DEF Untouched, Busy
  <2>3. Len(tokens[t]) > 0 /\ pc'[t] = "in" => call'[t] = olds
    BY <1>2, <2>1, <2>2 DEF AloneIsCut, CutAlone
  <2> QED
    BY <1>1, <1>2, <2>1, <2>2, <2>3
<1>3. ASSUME NEW s \in Thread, Type(s) PROVE CutAlone(t)'
  <2>1. UNCHANGED <<buffer, olds, call, tokens, received, first, pc, alone, process>>
    BY <1>3 DEF Type, strtokVars
  <2>2. Untouched(t) /\ CutAlone(t)
    BY <2>1 DEF Untouched, Busy, AloneIsCut
  <2>3. first[t] \in 1 .. Len(typed[t])
    BY <2>2, BufferShape DEF Untouched, SessionsCut
  <2>4. typed'[t][first[t]] = typed[t][first[t]]
    BY <1>3, <2>3, TypedBefore
  <2>5. Len(tokens[t]) > 0 /\ pc'[t] = "in" => call'[t] = olds
    BY <2>1, <2>2 DEF CutAlone
  <2> QED
    BY <2>1, <2>2, <2>4, <2>5, KeepsAlone
<1>4. ASSUME NEW s \in Thread, Cut(s) PROVE CutAlone(t)'
  <2>1. t = s /\ alone[s] /\ pc[s] = "in" /\ process = "up" /\ UNCHANGED <<first, received>>
    BY <1>4 DEF Cut, At, Untouched
  <2>2. Untouched(s)
    BY <2>1 DEF Untouched, Busy
  <2>3. pc'[s] = "next"
    BY <1>4 DEF Cut, Go, TypeOK
  <2> QED
    BY <1>4, <2>1, <2>2, <2>3, AloneCut DEF AloneIsCut
<1>5. ASSUME NEW s \in Thread, s = t,
             \/ Clear(s) \/ Recv(s) \/ Leave(s) \/ First(s) \/ More(s)
             \/ Refuse(s) \/ Serve(s) \/ ServeTag(s)
      PROVE  CutAlone(t)'
  <2>1. CASE Recv(s)
    BY <1>5, <2>1, RecvAlone DEF Untouched
  <2>2. CASE First(s)
    <3>1. /\ UNCHANGED <<olds, typed, first, received, alone, buffer, tokens, process>>
          /\ pc[s] = "first" /\ process = "up"
      BY <2>2 DEF First, Enter, At
    <3>2. Untouched(t) /\ tokens[t] = <<>>
      BY <1>5, <3>1 DEF Untouched, Busy, SessionsCut, InOrder
    <3>3. ~ (Len(tokens[t]) > 0)
      BY <3>2
    <3> QED
      BY <1>1, <3>1, <3>2, <3>3
  <2>3. CASE More(s)
    <3>1. /\ UNCHANGED <<olds, typed, first, received, alone, buffer, tokens, process>>
          /\ pc[s] = "next" /\ process = "up" /\ call'[s] = olds
      BY <2>3 DEF More, Enter, At, TypeOK, StrtokTypeOK
    <3>2. Untouched(t)
      BY <1>5, <3>1 DEF Untouched, Busy
    <3> QED
      BY <1>1, <1>5, <3>1, <3>2
  <2>4. CASE Clear(s) \/ Leave(s) \/ Refuse(s) \/ Serve(s) \/ ServeTag(s)
    <3>1. pc'[s] \in {"recv", "gone", "clear"}
      BY <2>4 DEF Clear, Leave, Refuse, Serve, ServeTag, Answer, Go, TypeOK
    <3> QED
      BY <1>5, <3>1 DEF Untouched, Busy
  <2> QED
    BY <1>5, <2>1, <2>2, <2>3, <2>4
<1>6. ASSUME NEW s \in Thread,
             \/ Clear(s) \/ Recv(s) \/ Leave(s) \/ First(s) \/ More(s)
             \/ Refuse(s) \/ Serve(s) \/ ServeTag(s)
      PROVE  UNCHANGED <<olds, typed>> /\ process = "up"
  BY <1>6 DEF Clear, Recv, Leave, First, More, Refuse, Serve, ServeTag, Ready, At, Answer, Enter,
              strtokVars, sessions
<1>7. CASE UNCHANGED vars
  <2>1. Untouched(t) /\ CutAlone(t)
    BY <1>7 DEF vars, sessions, Untouched, Busy, AloneIsCut
  <2> QED
    BY <1>1, <1>7, <2>1 DEF vars, sessions, strtokVars, CutAlone
<1> QED
  BY <1>2, <1>3, <1>4, <1>5, <1>6, <1>7 DEF Next, Session

\* What a pointer into the line of a session alone shows.
TextIs(s, n, p, end) ==
    /\ DOMAIN Text(<<s, p>>) = 1 .. end - p /\ Len(Text(<<s, p>>)) = end - p
    /\ \A j \in 1 .. end - p : Text(<<s, p>>)[j] = Cells(s, n)[p + j - 1]

LEMMA AloneText ==
    ASSUME TypeOK, NEW s \in Thread, ReadIn(s), Busy(s), CutAlone(s),
           NEW w, NEW cut, w = typed[s][first[s]].words,
           cut = CutAt(typed[s][first[s]].command, w, Len(tokens[s])),
           NEW p \in 1 .. 2 * w, NEW end \in p .. 2 * w + 1, end > 2 * w \/ end \in cut,
           \A i \in p .. end - 1 : i \notin cut
    PROVE  TextIs(s, first[s], p, end)
<1> USE StrtokAssumption DEF StrtokAssumption
<1> DEFINE n == first[s]
<1>1. n \in 1 .. Len(typed[s])
  BY BufferShape
<1>2. w \in Nat \ {0} /\ 4 * w < Size
  BY <1>1, LineType
<1>3. /\ \A i \in 1 .. Size : buffer[s][i] = IF i > 2 * w \/ i \in cut THEN Nul ELSE Cells(s, n)[i]
      /\ \A i \in 1 .. 2 * w : Cells(s, n)[i] # Nul
  BY <1>1, CellIs DEF CutAlone
<1> HIDE DEF n
<1>4. p \in 1 .. Size /\ end \in p .. Size /\ buffer[s][end] = Nul
  BY <1>2, <1>3
<1>5. \A i \in p .. end - 1 : buffer[s][i] = Cells(s, n)[i] /\ buffer[s][i] # Nul
  <2>1. \A i \in p .. end - 1 : i \in 1 .. Size /\ i \in 1 .. 2 * w /\ ~(i > 2 * w)
    BY <1>2, <1>4
  <2> QED
    BY <1>3, <2>1
<1>6. PICK e \in p .. Size :
              /\ buffer[s][e] = Nul /\ \A i \in p .. e - 1 : buffer[s][i] # Nul
              /\ Len(Text(<<s, p>>)) = e - p /\ DOMAIN Text(<<s, p>>) = 1 .. e - p
              /\ \A i \in 1 .. e - p : Text(<<s, p>>)[i] = buffer[s][p + i - 1]
  BY <1>4, TextEnds DEF TypeOK
<1>7. e = end
  <2>1. ~(e < end)
    BY <1>4, <1>5, <1>6
  <2>2. ~(end < e)
    BY <1>4, <1>6
  <2> QED
    BY <1>4, <1>6, <2>1, <2>2
<1>8. ASSUME NEW j \in 1 .. end - p PROVE Text(<<s, p>>)[j] = Cells(s, n)[p + j - 1]
  <2>1. p + j - 1 \in p .. end - 1
    BY <1>4
  <2> QED
    BY <1>5, <1>6, <1>7, <2>1
<1> QED
  BY <1>6, <1>7, <1>8 DEF TextIs, n

\* Texts that quote the line from its second word on: the cells of the i-th
\* begin behind the cell of the i-th word.
Quotes(texts, s, n) ==
    LET w == typed[s][n].words
    IN  /\ DOMAIN texts \subseteq 1 .. 2 /\ \A i \in DOMAIN texts : DOMAIN texts[i] \subseteq Nat \ {0}
        /\ \A i \in DOMAIN texts : \A j \in DOMAIN texts[i] :
              2 * i + j \in 1 .. 2 * w /\ texts[i][j] = Cells(s, n)[2 * i + j]
        /\ \A i, l \in DOMAIN texts : \A j \in DOMAIN texts[i] : i < l => 2 * i + j <= 2 * l
        /\ \A k \in 2 .. w : \E i \in DOMAIN texts : \E j \in DOMAIN texts[i] : 2 * i + j = 2 * k - 1

ExactWords ==
    /\ {WordAt(at) : at \in Given} = Owed(event.by, event.last)
    /\ \A at, then \in Given : Before(at, then) => WordAt(at).k < WordAt(then).k

QuotedIsExact ==
    TypeOK /\ EventIsPast /\ Happened /\ Quotes(event.words, event.by, event.last) => ExactWords

LEMMA QuotedExact == QuotedIsExact
<1> SUFFICES ASSUME TypeOK, EventIsPast, Happened, Quotes(event.words, event.by, event.last)
             PROVE  ExactWords
  BY DEF QuotedIsExact
<1> DEFINE texts == event.words
           s == event.by
           n == event.last
           w == typed[s][n].words
<1>1. s \in Thread /\ n \in 1 .. Len(typed[s])
  BY DEF EventIsPast
<1>2. w \in Nat \ {0}
  BY <1>1, LineType
<1>3. /\ DOMAIN texts \subseteq 1 .. 2 /\ \A i \in DOMAIN texts : DOMAIN texts[i] \subseteq Nat \ {0}
      /\ \A i \in DOMAIN texts : \A j \in DOMAIN texts[i] :
              2 * i + j \in 1 .. 2 * w /\ texts[i][j] = Cells(s, n)[2 * i + j]
      /\ \A i, l \in DOMAIN texts : \A j \in DOMAIN texts[i] : i < l => 2 * i + j <= 2 * l
      /\ \A k \in 2 .. w : \E i \in DOMAIN texts : \E j \in DOMAIN texts[i] : 2 * i + j = 2 * k - 1
  BY DEF Quotes
<1>4. Given = UNION {{i} \X {j \in DOMAIN texts[i] : texts[i][j].is = "word"} : i \in DOMAIN texts}
  BY DEF Given
<1>5. \A i, j : WordAt(<<i, j>>) = texts[i][j]
  BY DEF WordAt
<1> HIDE DEF texts, s, n, w
<1>6. \A at : at \in Given <=> \E i \in DOMAIN texts : \E j \in DOMAIN texts[i] :
                                  at = <<i, j>> /\ texts[i][j].is = "word"
  BY <1>4
<1>7. ASSUME NEW i \in DOMAIN texts, NEW j \in DOMAIN texts[i], texts[i][j].is = "word"
      PROVE  \E k \in 2 .. w : 2 * i + j = 2 * k - 1 /\ texts[i][j] = Word(s, n, k)
  <2>1. 2 * i + j \in 1 .. 2 * w /\ texts[i][j] = Cells(s, n)[2 * i + j] /\ 2 * i + j >= 3
    BY <1>3
  <2>2. texts[i][j] # Newline /\ texts[i][j] # Space
    BY <1>7, KindsDiffer
  <2>3. \E k \in 1 .. w : 2 * i + j = 2 * k - 1 /\ Cells(s, n)[2 * i + j] = Word(s, n, k)
    BY <1>1, <2>1, <2>2, CellKinds DEF w
  <2>4. PICK k \in 1 .. w : 2 * i + j = 2 * k - 1 /\ Cells(s, n)[2 * i + j] = Word(s, n, k)
    BY <2>3
  <2>5. k \in 2 .. w
    BY <1>2, <2>1, <2>4
  <2> QED
    BY <2>1, <2>4, <2>5
<1>8. ASSUME NEW k \in 2 .. w PROVE \E at \in Given : WordAt(at) = Word(s, n, k)
  <2>0. PICK i \in DOMAIN texts : \E j \in DOMAIN texts[i] : 2 * i + j = 2 * k - 1
    BY <1>3
  <2>1. PICK j \in DOMAIN texts[i] : 2 * i + j = 2 * k - 1
    BY <2>0
  <2>2. k \in 1 .. w /\ texts[i][j] = Cells(s, n)[2 * k - 1]
    BY <1>2, <1>3, <2>1
  <2>3. texts[i][j] = Word(s, n, k)
    BY <1>1, <2>2, CellsShape DEF w
  <2>4. texts[i][j].is = "word"
    BY <2>3 DEF Word
  <2> QED
    BY <1>5, <1>6, <2>3, <2>4
<1>9. \A at \in Given : \E k \in 2 .. w : WordAt(at) = Word(s, n, k)
  BY <1>5, <1>6, <1>7
<1>10. Owed(s, n) = {Word(s, n, k) : k \in 2 .. w}
  BY DEF Owed, w
<1>11. {WordAt(at) : at \in Given} = Owed(s, n)
  BY <1>8, <1>9, <1>10
<1>12. ASSUME NEW at \in Given, NEW then \in Given, Before(at, then)
       PROVE  WordAt(at).k < WordAt(then).k
  <2>10. PICK i \in DOMAIN texts : \E j \in DOMAIN texts[i] : at = <<i, j>> /\ texts[i][j].is = "word"
    BY <1>6
  <2>1. PICK j \in DOMAIN texts[i] : at = <<i, j>> /\ texts[i][j].is = "word"
    BY <2>10
  <2>20. PICK l \in DOMAIN texts : \E m \in DOMAIN texts[l] : then = <<l, m>> /\ texts[l][m].is = "word"
    BY <1>6
  <2>2. PICK m \in DOMAIN texts[l] : then = <<l, m>> /\ texts[l][m].is = "word"
    BY <2>20
  <2>3. PICK k \in 2 .. w : 2 * i + j = 2 * k - 1 /\ texts[i][j] = Word(s, n, k)
    BY <1>7, <2>1
  <2>4. PICK h \in 2 .. w : 2 * l + m = 2 * h - 1 /\ texts[l][m] = Word(s, n, h)
    BY <1>7, <2>2
  <2>5. i < l \/ (i = l /\ j < m)
    BY <1>12, <2>1, <2>2 DEF Before
  <2>6. i \in Nat /\ j \in Nat \ {0} /\ l \in Nat /\ m \in Nat \ {0}
    BY <1>3
  <2>7. i < l => 2 * i + j <= 2 * l
    BY <1>3
  <2>8. 2 * i + j < 2 * l + m
    BY <2>5, <2>6, <2>7
  <2>9. k < h
    BY <1>2, <2>3, <2>4, <2>8
  <2> QED
    BY <1>5, <2>1, <2>2, <2>3, <2>4, <2>9 DEF Word
<1> QED
  BY <1>11, <1>12 DEF ExactWords, s, n

LEMMA QuotedNext == QuotedIsExact'
BY QuotedExact, PTL

\* A command served alone is served with what its line quotes.
LEMMA ServedQuotes ==
    ASSUME TypeOK, SessionsCut, AloneIsCut, NEW s \in Thread, Ready(s), alone[s],
           first[s] = received[s], Command(s) # "help", Command(s) = "all" \/ ~Missing(s)
    PROVE  \/ Quotes(IF Command(s) = "join" THEN <<Chopped(Texts(s)[1])>> ELSE Texts(s), s, received[s])
           \/ typed[s][received[s]].command = "join" /\ typed[s][received[s]].words > 2
<1> DEFINE n == first[s]
           command == typed[s][n].command
           w == typed[s][n].words
           calls == Len(tokens[s])
           cut == CutAt(command, w, calls)
           texts == Texts(s)
<1>1. /\ ReadIn(s) /\ InOrder(s) /\ Busy(s) /\ pc[s] = "next" /\ CutAlone(s)
      /\ calls > Len(Delimiters(Command(s)))
  BY DEF Ready, At, SessionsCut, AloneIsCut, Untouched, Busy
<1>2. /\ w \in Nat \ {0} /\ 4 * w < Size /\ command \in {"mp", "create", "join", "all", "help"}
      /\ Row(s, w, cut)
  BY <1>1, AloneRow
<1>3. calls \in Nat /\ (calls = 0 <=> tokens[s] = <<>>)
  BY EmptySeq, LenProperties DEF TypeOK, StrtokTypeOK
<1>4. \A k \in 2 .. calls : tokens[s][k] = Argument(s, w, k)
  BY <1>1 DEF CutAlone
<1>5. Command(s) = Meant(s) /\ calls <= Len(Delimiters(Command(s))) + 1 /\ calls > 0
  BY <1>1, <1>3, CommandsNow DEF InOrder, CommandsAreMeant
<1>6. Command(s) = command /\ command # "help" /\ (command = "mp" => buffer[s][2] = Nul)
  BY <1>5 DEF Meant
<1>7. Arguments(s) = [i \in 1 .. calls - 1 |-> tokens[s][i + 1]]
  BY DEF Arguments
<1>8. DOMAIN texts = DOMAIN Arguments(s)
  BY DEF Texts
<1>9. ASSUME NEW i \in DOMAIN Arguments(s)
      PROVE  texts[i] = IF Arguments(s)[i] = Null THEN <<>> ELSE Text(Arguments(s)[i])
  BY DEF Texts
<1>10. ASSUME NEW p \in 1 .. 2 * w, NEW end \in p .. 2 * w + 1, end > 2 * w \/ end \in cut,
              \A i \in p .. end - 1 : i \notin cut
       PROVE  TextIs(s, n, p, end)
  BY <1>1, <1>10, AloneText
<1>11. typed[s][n].words = w /\ n = received[s] /\ command = typed[s][n].command
  OBVIOUS
<1>12. cut = CutAt(command, w, calls)
  OBVIOUS
<1> HIDE DEF texts, cut, calls, w, command, n
<1>20. \A i : i \in cut <=> \/ i = 2 /\ w > 1 /\ calls >= 1
                            \/ i = 4 /\ w > 2 /\ calls >= 2 /\ command # "all"
                            \/ i = 2 * w /\ w > 2 /\ calls = 3 /\ command = "create"
  BY <1>12 DEF CutAt
<1>13. calls = Len(Delimiters(command)) + 1
  BY <1>1, <1>2, <1>3, <1>5, <1>6 DEF Delimiters
<1>14. ASSUME command \in {"mp", "create"} PROVE Quotes(texts, s, n)
  <2>1. calls = 3
    BY <1>13, <1>14 DEF Delimiters
  <2>2. /\ DOMAIN Arguments(s) = 1 .. 2
        /\ Arguments(s)[1] = Argument(s, w, 2) /\ Arguments(s)[2] = Argument(s, w, 3)
    BY <1>4, <1>7, <2>1
  <2>3. Arguments(s)[1] # Null /\ Arguments(s)[2] # Null
    BY <1>6, <1>14, <2>2 DEF Missing
  <2>4. w > 2
    BY <1>2, <2>2, <2>3 DEF Argument
  <2>5. texts[1] = Text(<<s, 3>>) /\ texts[2] = Text(<<s, 5>>)
    BY <1>9, <2>2, <2>3, <2>4 DEF Argument
  <2>6. TextIs(s, n, 3, 4)
    <3>1. 3 \in 1 .. 2 * w /\ 4 \in 3 .. 2 * w + 1 /\ 4 \in cut
      <4>1. 4 \in cut
        BY <1>14, <1>20, <2>1, <2>4
      <4> QED
        BY <1>2, <2>4, <4>1
    <3>2. \A i \in 3 .. 4 - 1 : i \notin cut
      BY <1>2, <1>20, <2>4
    <3> QED
      BY <1>10, <3>1, <3>2
  <2>7. \E end \in {2 * w, 2 * w + 1} : TextIs(s, n, 5, end)
    <3>1. CASE command = "mp"
      <4>1. PICK end \in Nat : end = 2 * w + 1
        BY <1>2
      <4>2. 5 \in 1 .. 2 * w /\ end \in 5 .. 2 * w + 1 /\ end > 2 * w
        BY <1>2, <2>4, <4>1
      <4>3. \A i \in 5 .. end - 1 : i \notin cut
        BY <1>2, <1>20, <2>4, <3>1, <4>1
      <4> QED
        BY <1>10, <4>1, <4>2, <4>3
    <3>2. CASE command = "create"
      <4>1. 5 \in 1 .. 2 * w /\ 2 * w \in 5 .. 2 * w + 1 /\ 2 * w \in cut
        BY <1>2, <1>20, <2>1, <2>4, <3>2
      <4>2. \A i \in 5 .. 2 * w - 1 : i \notin cut
        BY <1>2, <1>20, <2>4, <3>2
      <4> QED
        BY <1>10, <4>1, <4>2
    <3> QED
      BY <1>14, <3>1, <3>2
  <2>8. PICK end \in {2 * w, 2 * w + 1} : TextIs(s, n, 5, end)
    BY <2>7
  <2>9. /\ DOMAIN texts = 1 .. 2 /\ DOMAIN texts[1] = 1 .. 1 /\ DOMAIN texts[2] = 1 .. end - 5
        /\ \A j \in 1 .. 1 : texts[1][j] = Cells(s, n)[2 * 1 + j]
        /\ \A j \in 1 .. end - 5 : texts[2][j] = Cells(s, n)[2 * 2 + j]
    <3>1. /\ DOMAIN texts[1] = 1 .. 4 - 3 /\ \A j \in 1 .. 4 - 3 : texts[1][j] = Cells(s, n)[3 + j - 1]
          /\ DOMAIN texts[2] = 1 .. end - 5 /\ \A j \in 1 .. end - 5 : texts[2][j] = Cells(s, n)[5 + j - 1]
      BY <2>5, <2>6, <2>8 DEF TextIs
    <3>2. end \in Nat
      BY <1>2
    <3>3. /\ \A j \in 1 .. 4 - 3 : j \in Nat /\ 3 + j - 1 = 2 * 1 + j
          /\ \A j \in 1 .. end - 5 : j \in Nat /\ 5 + j - 1 = 2 * 2 + j
      BY <3>2
    <3> QED
      BY <1>8, <2>2, <3>1, <3>3
  <2>10. \A j \in 1 .. end - 5 : 2 * 2 + j \in 1 .. 2 * w
    BY <1>2, <2>4
  <2>11. ASSUME NEW k \in 2 .. w
         PROVE  \E i \in DOMAIN texts : \E j \in DOMAIN texts[i] : 2 * i + j = 2 * k - 1
    <3>1. CASE k = 2
      BY <2>9, <3>1
    <3>2. CASE k # 2
      <4>1. 2 * k - 5 \in 1 .. end - 5 /\ 2 * 2 + (2 * k - 5) = 2 * k - 1
        BY <1>2, <2>4, <3>2
      <4>2. 2 \in DOMAIN texts /\ 2 * k - 5 \in DOMAIN texts[2]
        BY <2>9, <4>1
      <4> QED
        BY <4>1, <4>2
    <3> QED
      BY <3>1, <3>2
  <2>12. \A i, l \in DOMAIN texts : \A j \in DOMAIN texts[i] : i < l => 2 * i + j <= 2 * l
    BY <2>9
  <2>14. ASSUME NEW i \in DOMAIN texts, NEW j \in DOMAIN texts[i]
         PROVE  2 * i + j \in 1 .. 2 * w /\ texts[i][j] = Cells(s, n)[2 * i + j]
    <3>0. i = 1 \/ i = 2
      BY <2>9
    <3>1. CASE i = 1
      <4>1. j = 1 /\ 2 * i + j = 3 /\ 3 \in 1 .. 2 * w
        BY <1>2, <2>4, <2>9, <3>1
      <4>2. texts[1][1] = Cells(s, n)[2 * 1 + 1]
        BY <2>9
      <4> QED
        BY <3>1, <4>1, <4>2
    <3>2. CASE i = 2
      BY <2>9, <2>10, <3>2
    <3> QED
      BY <3>0, <3>1, <3>2
  <2>15. \A i \in DOMAIN texts : DOMAIN texts[i] \subseteq Nat \ {0}
    <3>1. DOMAIN texts[1] \subseteq Nat \ {0} /\ DOMAIN texts[2] \subseteq Nat \ {0}
      BY <2>9
    <3>2. \A i \in DOMAIN texts : i = 1 \/ i = 2
      BY <2>9
    <3> QED
      BY <3>1, <3>2
  <2> QED
    BY <1>11, <2>9, <2>11, <2>12, <2>14, <2>15 DEF Quotes
<1>15. ASSUME command \in {"join", "all"}
       PROVE  /\ calls = 2 /\ DOMAIN texts = 1 .. 1 /\ DOMAIN Arguments(s) = 1 .. 1
              /\ texts[1] = IF w = 1 THEN <<>> ELSE Text(<<s, 3>>)
  <2>1. calls = 2
    BY <1>13, <1>15 DEF Delimiters
  <2>2. DOMAIN Arguments(s) = 1 .. 1 /\ Arguments(s)[1] = Argument(s, w, 2)
    BY <1>4, <1>7, <2>1
  <2>3. w = 1 => Argument(s, w, 2) = Null
    BY DEF Argument
  <2>4. w # 1 => Argument(s, w, 2) = <<s, 3>> /\ Argument(s, w, 2) # Null
    BY <1>2, PointerIsNotNull DEF Argument
  <2> QED
    BY <1>8, <1>9, <2>1, <2>2, <2>3, <2>4
<1>16. ASSUME command = "all" PROVE Quotes(texts, s, n)
  <2>1. /\ calls = 2 /\ DOMAIN texts = 1 .. 1
        /\ texts[1] = IF w = 1 THEN <<>> ELSE Text(<<s, 3>>)
    BY <1>15, <1>16
  <2>2. CASE w = 1
    <3>1. DOMAIN texts[1] = {}
      BY <2>1, <2>2
    <3>2. \A i \in DOMAIN texts : i = 1
      BY <2>1
    <3>3. \A k \in 2 .. w : FALSE
      BY <2>2
    <3> QED
      BY <1>11, <2>1, <3>1, <3>2, <3>3 DEF Quotes
  <2>3. CASE w # 1
    <3>1. PICK end \in Nat : end = 2 * w + 1
      BY <1>2
    <3>2. TextIs(s, n, 3, end)
      <4>1. 3 \in 1 .. 2 * w /\ end \in 3 .. 2 * w + 1 /\ end > 2 * w
        BY <1>2, <2>3, <3>1
      <4>2. \A i \in 3 .. end - 1 : i \notin cut
        BY <1>2, <1>16, <1>20, <2>1, <3>1
      <4> QED
        BY <1>10, <4>1, <4>2
    <3>3. /\ DOMAIN texts[1] = 1 .. end - 3
          /\ \A j \in 1 .. end - 3 : texts[1][j] = Cells(s, n)[3 + j - 1]
      BY <2>1, <2>3, <3>2 DEF TextIs
    <3>4. \A j \in 1 .. end - 3 : j \in Nat \ {0} /\ 3 + j - 1 = 2 * 1 + j /\ 2 * 1 + j \in 1 .. 2 * w
      BY <1>2, <3>1
    <3>5. \A i \in DOMAIN texts : i = 1
      BY <2>1
    <3>6. ASSUME NEW i \in DOMAIN texts, NEW j \in DOMAIN texts[i]
          PROVE  2 * i + j \in 1 .. 2 * w /\ texts[i][j] = Cells(s, n)[2 * i + j]
      <4>1. i = 1 /\ j \in 1 .. end - 3
        BY <3>3, <3>5
      <4> QED
        BY <3>3, <3>4, <4>1
    <3>7. ASSUME NEW k \in 2 .. w
          PROVE  \E i \in DOMAIN texts : \E j \in DOMAIN texts[i] : 2 * i + j = 2 * k - 1
      <4>1. 2 * k - 3 \in 1 .. end - 3 /\ 2 * 1 + (2 * k - 3) = 2 * k - 1
        BY <1>2, <3>1
      <4>2. 1 \in DOMAIN texts /\ 2 * k - 3 \in DOMAIN texts[1]
        BY <2>1, <3>3, <4>1
      <4> QED
        BY <4>1, <4>2
    <3>8. \A i \in DOMAIN texts : DOMAIN texts[i] \subseteq Nat \ {0}
      BY <3>3, <3>4, <3>5
    <3>9. \A i, l \in DOMAIN texts : \A j \in DOMAIN texts[i] : i < l => 2 * i + j <= 2 * l
      BY <3>5
    <3> QED
      BY <1>11, <2>1, <3>6, <3>7, <3>8, <3>9 DEF Quotes
  <2> QED
    BY <2>2, <2>3
<1>17. ASSUME command = "join", ~(w > 2) PROVE Quotes(<<Chopped(texts[1])>>, s, n)
  <2>1. /\ calls = 2 /\ DOMAIN Arguments(s) = 1 .. 1
        /\ texts[1] = IF w = 1 THEN <<>> ELSE Text(<<s, 3>>)
    BY <1>15, <1>17
  <2>2. w = 2
    <3>1. Arguments(s)[1] # Null
      BY <1>6, <1>17, <2>1 DEF Missing
    <3>2. Arguments(s)[1] = Argument(s, w, 2)
      BY <1>4, <1>7, <2>1
    <3>3. w # 1
      BY <3>1, <3>2 DEF Argument
    <3> QED
      BY <1>2, <1>17, <3>3
  <2>3. TextIs(s, n, 3, 5)
    <3>1. PICK end \in Nat : end = 5
      OBVIOUS
    <3>2. 3 \in 1 .. 2 * w /\ end \in 3 .. 2 * w + 1 /\ end > 2 * w
      BY <2>2, <3>1
    <3>3. \A i \in 3 .. end - 1 : i \notin cut
      BY <1>20, <2>1, <2>2, <3>1
    <3> QED
      BY <1>10, <3>1, <3>2, <3>3
  <2>4. /\ Len(texts[1]) = 2 /\ texts[1][1] = Cells(s, n)[3] /\ texts[1][2] = Cells(s, n)[4]
    <3>1. /\ Len(texts[1]) = 5 - 3
          /\ \A j \in 1 .. 5 - 3 : texts[1][j] = Cells(s, n)[3 + j - 1]
      BY <2>1, <2>2, <2>3 DEF TextIs
    <3>2. texts[1][1] = Cells(s, n)[3 + 1 - 1] /\ texts[1][2] = Cells(s, n)[3 + 2 - 1]
      BY <3>1
    <3> QED
      BY <3>1, <3>2
  <2>5. Cells(s, n)[4] = Newline
    <3>1. n \in 1 .. Len(typed[s])
      BY <1>1, BufferShape DEF n
    <3>2. Cells(s, n)[2 * typed[s][n].words] = Newline
      BY <3>1, CellsShape
    <3> QED
      BY <1>11, <2>2, <3>2
  <2>6. Chopped(texts[1]) = SubSeq(texts[1], 1, 2 - 1)
    BY <2>4, <2>5 DEF Chopped, Last, Front
  <2>7. DOMAIN Chopped(texts[1]) = {1} /\ Chopped(texts[1])[1] = Cells(s, n)[3]
    <3>1. Chopped(texts[1]) = [i \in 1 .. 1 |-> texts[1][1 + i - 1]]
      BY <2>6 DEF SubSeq
    <3> QED
      BY <2>4, <3>1
  <2> DEFINE chopped == <<Chopped(texts[1])>>
  <2>8. /\ DOMAIN chopped = {1} /\ DOMAIN chopped[1] = {1} /\ chopped[1][1] = Cells(s, n)[2 * 1 + 1]
    BY <2>7
  <2> HIDE DEF chopped
  <2>9. ASSUME NEW i \in DOMAIN chopped, NEW j \in DOMAIN chopped[i]
        PROVE  2 * i + j \in 1 .. 2 * w /\ chopped[i][j] = Cells(s, n)[2 * i + j]
    <3>1. i = 1 /\ j = 1
      BY <2>8
    <3> QED
      BY <2>2, <2>8, <3>1
  <2>10. \A k \in 2 .. w : \E i \in DOMAIN chopped : \E j \in DOMAIN chopped[i] : 2 * i + j = 2 * k - 1
    BY <2>2, <2>8
  <2>11. Quotes(chopped, s, n)
    BY <1>11, <2>8, <2>9, <2>10 DEF Quotes
  <2> QED
    BY <2>11 DEF chopped
<1>18. command \in {"mp", "create", "join", "all"}
  BY <1>2, <1>6
<1> QED
  BY <1>6, <1>11, <1>14, <1>16, <1>17, <1>18 DEF texts

LEMMA NextExact ==
    TypeOK /\ SessionsCut /\ AloneIsCut /\ EventIsPast /\ AloneIsExact /\ [Next]_vars
        => EventIsPast' /\ AloneIsExact'
<1> SUFFICES ASSUME TypeOK, SessionsCut, AloneIsCut, EventIsPast, AloneIsExact, [Next]_vars
             PROVE  EventIsPast' /\ AloneIsExact'
  OBVIOUS
<1>0. TypeOK'
  BY NextCut
<1>1. ASSUME UNCHANGED event,
             \A s \in Thread : /\ Len(typed[s]) <= Len(typed'[s])
                               /\ \A n \in 1 .. Len(typed[s]) : typed'[s][n] = typed[s][n]
      PROVE  EventIsPast' /\ AloneIsExact'
  <2>1. CASE ~Happened
    BY <1>1, <2>1 DEF Happened, EventIsPast, AloneIsExact
  <2>2. CASE Happened
    <3>1. event.by \in Thread /\ event.last \in 1 .. Len(typed[event.by])
      BY <2>2 DEF EventIsPast
    <3>2. typed'[event.by][event.last] = typed[event.by][event.last]
      BY <1>1, <3>1
    <3>3. event.last \in 1 .. Len(typed'[event.by])
      <4>1. Len(typed[event.by]) \in Nat /\ Len(typed'[event.by]) \in Nat
        BY <1>0, <3>1, LenProperties DEF TypeOK
      <4> QED
        BY <1>1, <3>1, <4>1
    <3>4. Given' = Given /\ (\A at : WordAt(at)' = WordAt(at)) /\ (Happened' <=> Happened)
          /\ (OneLine' <=> OneLine)
      BY <1>1 DEF Given, WordAt, Happened, OneLine
    <3>5. Asked' = Asked /\ Owed(event.by, event.last)' = Owed(event.by, event.last)
      BY <1>1, <3>2 DEF Asked, Owed
    <3>6. EventIsPast'
      BY <1>1, <3>1, <3>3 DEF EventIsPast
    <3>7. AloneIsExact'
      BY <1>1, <3>4, <3>5 DEF AloneIsExact
    <3> QED
      BY <3>6, <3>7
  <2> QED
    BY <2>1, <2>2
<1>2. ASSUME UNCHANGED typed
      PROVE  \A s \in Thread : /\ Len(typed[s]) <= Len(typed'[s])
                               /\ \A n \in 1 .. Len(typed[s]) : typed'[s][n] = typed[s][n]
  BY <1>2, LenProperties DEF TypeOK
<1>3. ASSUME NEW s \in Thread, NEW outcome, NEW texts, Ready(s), Answer(s, outcome, texts),
             outcome \in {"served", "tagged"} =>
                /\ Command(s) # "help" /\ (Command(s) = "all" \/ ~Missing(s))
                /\ texts = IF Command(s) = "join" THEN <<Chopped(Texts(s)[1])>> ELSE Texts(s)
      PROVE  EventIsPast' /\ AloneIsExact'
  <2>1. /\ event'.outcome = outcome /\ event'.by = s /\ event'.first = first[s]
        /\ event'.last = received[s] /\ event'.alone = alone[s] /\ event'.words = texts
        /\ UNCHANGED typed
    BY <1>3 DEF Answer
  <2>2. received[s] \in 1 .. Len(typed[s])
    <3>1. ReadIn(s) /\ Busy(s)
      BY <1>3 DEF Ready, At, Busy, SessionsCut
    <3> QED
      BY <3>1, BufferShape
  <2>3. EventIsPast'
    BY <2>1, <2>2 DEF EventIsPast
  <2>4. ASSUME Happened', alone[s], first[s] = received[s]
        PROVE  ExactWords' \/ (Asked.command = "join" /\ Asked.words > 2)'
    <3>1. outcome \in {"served", "tagged"}
      BY <2>1, <2>4 DEF Happened
    <3>2. \/ Quotes(texts, s, received[s])
          \/ typed[s][received[s]].command = "join" /\ typed[s][received[s]].words > 2
      BY <1>3, <2>4, <3>1, ServedQuotes
    <3>3. CASE Quotes(texts, s, received[s])
      <4>1. Quotes(event.words, event.by, event.last)'
        <5>1. PICK n : n = received[s]
          OBVIOUS
        <5>2. Cells(s, n)' = Cells(s, n)
          BY <2>1 DEF Cells
        <5>3. Quotes(texts, s, n)'
          BY <2>1, <3>3, <5>1, <5>2 DEF Quotes
        <5> QED
          BY <2>1, <5>1, <5>3
      <4> QED
        BY <1>0, <2>3, <2>4, <4>1, QuotedNext DEF QuotedIsExact
    <3>4. CASE typed[s][received[s]].command = "join" /\ typed[s][received[s]].words > 2
      BY <2>1, <3>4 DEF Asked
    <3> QED
      BY <3>2, <3>3, <3>4
  <2>5. AloneIsExact'
    BY <2>1, <2>4 DEF AloneIsExact, OneLine, ExactWords
  <2> QED
    BY <2>3, <2>5
<1>4. CASE \E s \in Thread : Type(s)
  <2>1. PICK s \in Thread : Type(s)
    BY <1>4
  <2>2. UNCHANGED event
    BY <2>1 DEF Type
  <2> QED
    BY <1>1, <2>1, <2>2, TypedBefore
<1>5. CASE \E s \in Thread : Leave(s) \/ Clear(s) \/ Recv(s) \/ First(s) \/ More(s) \/ Cut(s)
  <2>1. UNCHANGED <<event, typed>>
    BY <1>5 DEF Leave, Clear, Recv, First, More, Cut
  <2> QED
    BY <1>1, <1>2, <2>1
<1>6. ASSUME NEW s \in Thread, Refuse(s) PROVE EventIsPast' /\ AloneIsExact'
  BY <1>3, <1>6 DEF Refuse
<1>7. ASSUME NEW s \in Thread, Serve(s) PROVE EventIsPast' /\ AloneIsExact'
  BY <1>3, <1>7 DEF Serve
<1>8. ASSUME NEW s \in Thread, ServeTag(s) PROVE EventIsPast' /\ AloneIsExact'
  <2>1. Ready(s) /\ Command(s) = "all"
    BY <1>8 DEF ServeTag, Tagged
  <2>2. CASE UNCHANGED <<strtokVars, sessions, alone, event>>
    BY <1>1, <1>2, <2>2 DEF sessions
  <2>3. CASE Answer(s, "tagged", Texts(s))
    BY <1>3, <2>1, <2>3
  <2> QED
    BY <1>8, <2>2, <2>3 DEF ServeTag
<1>9. CASE UNCHANGED vars
  BY <1>1, <1>2, <1>9 DEF vars, sessions
<1> QED
  BY <1>4, <1>5, <1>6, <1>7, <1>8, <1>9 DEF Next, Session

LEMMA InitWords == Init => IInv
<1> SUFFICES ASSUME Init PROVE IInv
  OBVIOUS
<1>1. TypeOK /\ SessionsCut
  BY InitCut
<1>2. process = "up" /\ ~Happened /\ \A s \in Thread : ~Busy(s)
  BY DEF Init, NoEvent, Happened, Busy
<1> QED
  BY <1>1, <1>2 DEF IInv, NullIsMention, AloneIsExact, AloneIsCut, Untouched, EventIsPast

LEMMA NextWords == IInv /\ [Next]_vars => IInv'
<1> SUFFICES ASSUME IInv, [Next]_vars PROVE IInv'
  OBVIOUS
<1>1. TypeOK /\ Sane /\ SessionsCut /\ AloneIsCut /\ EventIsPast /\ AloneIsExact
  BY DEF IInv, NullIsMention, Sane
<1>2. TypeOK' /\ SessionsCut'
  BY <1>1, NextCut
<1>3. Sane'
  BY <1>1, NextSane
<1>4. AloneIsCut'
  BY <1>1, NextAlone
<1>5. EventIsPast' /\ AloneIsExact'
  BY <1>1, NextExact
<1> QED
  BY <1>2, <1>3, <1>4, <1>5 DEF IInv, NullIsMention, Sane

\* The inductive invariant of the sessions' cutting.
THEOREM WordsInvariant == Spec => []IInv
BY InitWords, NextWords, PTL DEF Spec

\* However the sessions disturb each other's cutting, they keep within their
\* buffers, and a NULL is only read for a command whose first word has an "@"
\* (client_handler.c:128, 195; handle_tag.c:14-15), for any number of sessions
\* and lines of any length.
THEOREM NullOnlyForMentions == Spec => []NullIsMention
<1>1. IInv => NullIsMention
  BY DEF IInv
<1> QED
  BY <1>1, WordsInvariant, PTL

\* Without another session in between, a command that came in one read is
\* served with the words of its line, in order, whatever older lines and cuts
\* were in the buffer (client_handler.c:77, 124-125); the name of a channel
\* with more words behind it is another matter.
THEOREM WordsExact == Spec => []AloneIsExact
<1>1. IInv => AloneIsExact
  BY DEF IInv
<1> QED
  BY <1>1, WordsInvariant, PTL
-------------------------------------------------------------------------------
(* The frames (Frames).                                                    *)

\* A frame ends before the next one begins.
LEMMA FramesAreApart ==
    ASSUME NEW P \in Nat, NEW a \in Nat, NEW b \in Nat, a < b
    PROVE  P * a + P <= P * b
<1> DEFINE d == b - a - 1
<1>1. d \in Nat /\ b = a + 1 + d
  OBVIOUS
<1>2. P * b = P * a + P + P * d
  <2> HIDE DEF d
  <2> QED
    BY <1>1
<1>3. P * d \in Nat /\ P * a \in Nat
  <2> HIDE DEF d
  <2> QED
    BY <1>1
<1> QED
  BY <1>2, <1>3

\* A place in the stream is one part of one frame.
LEMMA PlaceIsUnique ==
    ASSUME NEW P \in Nat,
           NEW f \in Nat, NEW g \in Nat, NEW p \in 1 .. P, NEW q \in 1 .. P,
           P * f + p = P * g + q
    PROVE  f = g /\ p = q
<1>0. P * f \in Nat /\ P * g \in Nat
  OBVIOUS
<1>1. CASE f < g
  BY <1>0, <1>1, FramesAreApart
<1>2. CASE g < f
  BY <1>0, <1>2, FramesAreApart
<1> QED
  BY <1>0, <1>1, <1>2

\* The client has read a number of parts, and no more than were sent.
LEMMA PositionType ==
    ASSUME FramesTypeOK
    PROVE  /\ Len(frames) \in Nat /\ Len(stream) \in Nat
           /\ Parts * Len(frames) \in Nat
           /\ Position \in 0 .. Parts * Len(frames)
           /\ Len(stream) = Parts * Len(frames) - Position
<1>1. Len(frames) \in Nat /\ Len(stream) \in Nat
  BY LenProperties DEF FramesTypeOK
<1>2. Parts * Len(frames) \in Nat
  BY <1>1, FramesAssumption DEF FramesAssumption
<1> QED
  BY <1>1, <1>2 DEF Position, FramesTypeOK

\* What is read next.
LEMMA NextPart ==
    ASSUME FramesTypeOK, stream # <<>>
    PROVE  /\ Head(stream).frame \in 1 .. Len(frames) /\ Head(stream).part \in 1 .. Parts
           /\ Parts * (Head(stream).frame - 1) + Head(stream).part = Position + 1
<1>1. 1 \in DOMAIN stream /\ Head(stream) = stream[1]
  BY EmptySeq, LenProperties DEF FramesTypeOK
<1>2. stream[1] \in [frame : 1 .. Len(frames), part : 1 .. Parts]
  BY <1>1, ElementOfSeq, LenProperties DEF FramesTypeOK
<1>3. Place(stream[1]) = Position + 1
  BY <1>1 DEF FramesTypeOK
<1> QED
  BY <1>1, <1>2, <1>3 DEF Place

\* When all that was read is whole frames, the next part begins one.
LEMMA NextFrame ==
    ASSUME FramesTypeOK, NEW n \in 1 .. Len(frames), Position = Parts * (n - 1)
    PROVE  stream # <<>> /\ Head(stream).frame = n /\ Head(stream).part = 1
<1> USE FramesAssumption DEF FramesAssumption
<1>1. n \in Nat /\ n - 1 \in Nat /\ n - 1 < Len(frames)
  BY PositionType
<1>2. Position + Parts <= Parts * Len(frames)
  BY <1>1, PositionType, FramesAreApart
<1>3. Len(stream) > 0
  BY <1>2, PositionType
<1>4. stream # <<>>
  BY <1>3, EmptySeq
<1>5. /\ Head(stream).frame \in 1 .. Len(frames) /\ Head(stream).part \in 1 .. Parts
      /\ Parts * (Head(stream).frame - 1) + Head(stream).part = Parts * (n - 1) + 1
  BY <1>4, NextPart
<1>6. Head(stream).frame - 1 \in Nat /\ 1 \in 1 .. Parts
  BY <1>5, PositionType
<1>7. Head(stream).frame - 1 = n - 1 /\ Head(stream).part = 1
  <2> DEFINE f == Head(stream).frame - 1
             p == Head(stream).part
             g == n - 1
  <2>1. f \in Nat /\ g \in Nat /\ p \in 1 .. Parts /\ 1 \in 1 .. Parts /\ Parts \in Nat
    BY <1>1, <1>5, <1>6
  <2>2. Parts * f + p = Parts * g + 1
    BY <1>5
  <2> HIDE DEF f, p, g
  <2>3. f = g /\ p = 1
    BY <2>1, <2>2, PlaceIsUnique
  <2> QED
    BY <2>3 DEF f, p, g
<1> QED
  BY <1>4, <1>5, <1>7, <1>1

\* What a message sent leaves as it is: the place the client has read to.
LEMMA SentFrame ==
    ASSUME FramesTypeOK, NEW kind \in Kinds, SendFrame(kind)
    PROVE  /\ frames' \in Seq(Kinds)
           /\ Len(frames') = Len(frames) + 1 /\ Len(frames') <= MaxFrames
           /\ frames'[Len(frames) + 1] = kind
           /\ \A n \in 1 .. Len(frames) : frames'[n] = frames[n]
           /\ stream' \in Seq([frame : 1 .. Len(frames'), part : 1 .. Parts])
           /\ Len(stream) <= Len(stream')
           /\ Len(stream') <= Parts * Len(frames')
           /\ Position' = Position
           /\ \A i \in DOMAIN stream' : Place(stream'[i]) = Position + i
           /\ quiet' \subseteq 1 .. Len(frames')
           /\ Messages' \subseteq 1 .. Len(frames')
           /\ quiet' \subseteq quiet \cup {Len(frames) + 1}
           /\ stream # <<>> \/ client # "talking" => quiet' = quiet
<1> USE FramesAssumption DEF FramesAssumption
<1> DEFINE n == Len(frames) + 1
           cell == [frame : 1 .. n, part : 1 .. Parts]
<1>0. n \in Nat /\ Len(frames) \in Nat /\ Len(stream) \in Nat /\ Parts * Len(frames) \in Nat
  BY PositionType
<1>1. /\ frames' \in Seq(Kinds)
      /\ Len(frames') = n /\ n <= MaxFrames /\ frames'[n] = kind
      /\ \A m \in 1 .. Len(frames) : frames'[m] = frames[m]
  BY AppendProperties DEF SendFrame, FramesTypeOK
<1>2. stream \in Seq(cell) /\ DOMAIN stream = 1 .. Len(stream)
  <2> DEFINE old == [frame : 1 .. Len(frames), part : 1 .. Parts]
  <2>1. old \subseteq cell
    BY <1>0
  <2>2. stream \in Seq(old)
    BY DEF FramesTypeOK
  <2> HIDE DEF old, cell
  <2> QED
    BY <2>1, <2>2, LenProperties
<1>3. Frame(n) \in Seq(cell) /\ Len(Frame(n)) = Parts
  BY <1>0 DEF Frame
<1>4. stream' = stream \o Frame(n)
  BY DEF SendFrame
<1>5. /\ stream' \in Seq(cell) /\ Len(stream') = Len(stream) + Parts
      /\ \A i \in 1 .. Len(stream') :
            stream'[i] = IF i <= Len(stream) THEN stream[i] ELSE Frame(n)[i - Len(stream)]
  <2> HIDE DEF cell, n
  <2> QED
    BY <1>2, <1>3, <1>4, ConcatProperties
<1>6. Parts * n = Parts * Len(frames) + Parts
  BY <1>0
<1>7. Position' = Position /\ Len(stream') <= Parts * n
  BY <1>0, <1>1, <1>5, <1>6 DEF Position, FramesTypeOK
<1>8. ASSUME NEW i \in DOMAIN stream' PROVE Place(stream'[i]) = Position + i
  <2>1. i \in 1 .. Len(stream')
    BY <1>5, LenProperties
  <2>2. CASE i <= Len(stream)
    <3> HIDE DEF cell, n
    <3>1. stream'[i] = stream[i] /\ i \in DOMAIN stream
      BY <1>0, <1>2, <1>5, <2>1, <2>2
    <3> QED
      BY <3>1 DEF FramesTypeOK
  <2>3. CASE i > Len(stream)
    <3>0. stream'[i] = Frame(n)[i - Len(stream)] /\ Len(stream') = Len(stream) + Parts
      <4> HIDE DEF n, cell
      <4> QED
        BY <1>0, <1>5, <2>1, <2>3
    <3>1. i - Len(stream) \in 1 .. Parts /\ stream'[i] = Frame(n)[i - Len(stream)]
      <4> HIDE DEF n, cell
      <4> QED
        BY <1>0, <2>1, <2>3, <3>0
    <3>2. stream'[i].frame = n /\ stream'[i].part = i - Len(stream)
      BY <3>1 DEF Frame
    <3>3. Place(stream'[i]) = Parts * (n - 1) + (i - Len(stream))
      BY <3>2 DEF Place
    <3>4. n - 1 = Len(frames)
      BY <1>0
    <3> QED
      BY <1>0, <1>5, <2>1, <3>3, <3>4 DEF Position
  <2> QED
    BY <1>0, <2>1, <2>2, <2>3, <1>5
<1>9. /\ quiet' \subseteq quiet \cup {n} /\ quiet \subseteq 1 .. Len(frames)
      /\ stream # <<>> \/ client # "talking" => quiet' = quiet
  BY DEF SendFrame, FramesTypeOK
<1>10. Messages' \subseteq 1 .. Len(frames')
  BY DEF Messages
<1>11. Len(stream) <= Len(stream')
  <2> HIDE DEF cell
  <2> QED
    BY <1>0, <1>5
<1>12. stream' \in Seq([frame : 1 .. Len(frames'), part : 1 .. Parts])
  BY <1>1, <1>5
<1> HIDE DEF cell
<1>13. quiet' \subseteq 1 .. Len(frames') /\ Len(stream') <= Parts * Len(frames')
  BY <1>0, <1>1, <1>7, <1>9
<1> QED
  BY <1>0, <1>1, <1>7, <1>8, <1>9, <1>10, <1>11, <1>12, <1>13

\* What a recv takes: the next parts, as many of them as it returns.
LEMMA TakenParts ==
    ASSUME FramesTypeOK, NEW count \in 1 .. Parts, Take(count), UNCHANGED frames
    PROVE  /\ stream # <<>>
           /\ stream' \in Seq([frame : 1 .. Len(frames), part : 1 .. Parts])
           /\ Len(stream') <= Parts * Len(frames)
           /\ Position' = Position + count
           /\ \A i \in DOMAIN stream' : Place(stream'[i]) = Position' + i
           /\ arrived' \in 0 .. Len(stream')
<1> USE FramesAssumption DEF FramesAssumption
<1> DEFINE cell == [frame : 1 .. Len(frames), part : 1 .. Parts]
<1>0. /\ Len(frames) \in Nat /\ Len(stream) \in Nat /\ Parts * Len(frames) \in Nat
      /\ count \in Nat /\ arrived \in Nat /\ arrived <= Len(stream)
  BY PositionType DEF FramesTypeOK
<1>1. count <= arrived /\ arrived > 0
  BY <1>0 DEF Take
<1>2. stream # <<>>
  BY <1>0, <1>1, EmptySeq
<1>3. stream \in Seq(cell) /\ DOMAIN stream = 1 .. Len(stream)
  BY LenProperties DEF FramesTypeOK
<1>4. stream' = SubSeq(stream, count + 1, Len(stream)) /\ arrived' = arrived - count
  BY DEF Take
<1>5. /\ stream' \in Seq(cell) /\ Len(stream') = Len(stream) - count
      /\ \A i \in 1 .. Len(stream') : stream'[i] = stream[count + i]
  <2>1. \A i \in 1 .. Len(stream) : stream[i] \in cell
    <3> HIDE DEF cell
    <3> QED
      BY <1>0, <1>3, ElementOfSeq
  <2>2. stream' = [i \in 1 .. Len(stream) - count |-> stream[i + count]]
    BY <1>0, <1>1, <1>4
  <2>3. \A i \in 1 .. Len(stream) - count : stream[i + count] \in cell
    BY <1>0, <2>1
  <2> HIDE DEF cell
  <2>4. Len(stream) - count \in Nat
    BY <1>0, <1>1
  <2> QED
    BY <1>0, <2>2, <2>3, <2>4, IsASeq, LenProperties
<1>6. Position' = Position + count
  BY <1>0, <1>5 DEF Position
<1>7. ASSUME NEW i \in DOMAIN stream' PROVE Place(stream'[i]) = Position' + i
  <2>1. i \in 1 .. Len(stream') /\ i \in Nat /\ Len(stream') \in Nat
    BY <1>5, LenProperties
  <2>2. stream'[i] = stream[count + i] /\ count + i \in DOMAIN stream
    <3> HIDE DEF cell
    <3> QED
      BY <1>0, <1>1, <1>3, <1>5, <2>1
  <2>3. Place(stream[count + i]) = Position + (count + i)
    BY <2>2 DEF FramesTypeOK
  <2> QED
    BY <1>0, <1>6, <2>1, <2>2, <2>3, PositionType
<1>8. Len(stream) <= Parts * Len(frames)
  BY DEF FramesTypeOK
<1>9. stream' \in Seq([frame : 1 .. Len(frames), part : 1 .. Parts])
  BY <1>5
<1>10. Len(stream') = Len(stream) - count
  BY <1>5
<1>11. Len(stream') <= Parts * Len(frames) /\ arrived' \in 0 .. Len(stream')
  BY <1>0, <1>1, <1>4, <1>8, <1>10
<1> QED
  BY <1>2, <1>6, <1>7, <1>9, <1>11

LEMMA InitFrames == FramesInit => FramesIInv
<1> SUFFICES ASSUME FramesInit PROVE FramesIInv
  OBVIOUS
<1> USE FramesAssumption DEF FramesAssumption
<1>1. frames = <<>> /\ stream = <<>> /\ Len(frames) = 0 /\ Len(stream) = 0
  BY EmptySeq DEF FramesInit
<1>2. DOMAIN stream = {}
  BY <1>1
<1>3. FramesTypeOK
  <2>1. frames \in Seq(Kinds) /\ stream \in Seq([frame : 1 .. Len(frames), part : 1 .. Parts])
    BY <1>1, EmptySeq
  <2>2. Len(stream) <= Parts * Len(frames) /\ Len(frames) <= MaxFrames
    BY <1>1
  <2>3. arrived \in 0 .. Len(stream) /\ inputs \in 0 .. MaxTyped /\ toServer \in 0 .. MaxTyped
    BY <1>1 DEF FramesInit
  <2> QED
    BY <1>1, <1>2, <2>1, <2>2, <2>3 DEF FramesInit, FramesTypeOK
<1>4. Messages \cap quiet = {}
  BY DEF FramesInit
<1> QED
  BY <1>3, <1>4 DEF FramesIInv, FramesInit

\* What the invariant says of a message the client has not seen.
LEMMA QuietIsNext ==
    ASSUME FramesIInv, NEW n \in Messages \cap quiet, n \notin shown \cup broken
    PROVE  /\ client = "talking" /\ stream # <<>>
           /\ Head(stream).frame = n /\ Head(stream).part = 1 /\ Reading = "message"
<1>1. FramesTypeOK /\ n \in 1 .. Len(frames) /\ frames[n] = "message"
  BY DEF FramesIInv, Messages
<1>2. client = "talking" /\ Position = Parts * (n - 1)
  BY DEF FramesIInv
<1> QED
  BY <1>1, <1>2, NextFrame DEF Reading

LEMMA NextFrames == FramesIInv /\ [FramesNext]_framesVars => FramesIInv'
<1> SUFFICES ASSUME FramesIInv, [FramesNext]_framesVars PROVE FramesIInv'
  OBVIOUS
<1> USE FramesAssumption DEF FramesAssumption
<1>0. FramesTypeOK /\ toServer <= inputs /\ toServer \in Nat
  BY DEF FramesIInv, FramesTypeOK
\* What neither sends nor reads.
<1>1. ASSUME UNCHANGED <<sent, seen>>, FramesTypeOK', toServer' <= inputs',
             client = "talking" => client' = "talking"
      PROVE  FramesIInv'
  BY <1>1 DEF FramesIInv, Position, Messages, sent, seen
<1>2. CASE AskForPseudo
  <2>1. FramesTypeOK' /\ toServer' <= inputs'
    BY <1>0, <1>2 DEF AskForPseudo, Input, FramesTypeOK, Position, Place, sent, seen
  <2> QED
    BY <1>1, <1>2, <2>1 DEF AskForPseudo, Input
<1>3. CASE TypeLine
  <2>1. FramesTypeOK' /\ toServer' <= inputs'
    BY <1>0, <1>3 DEF TypeLine, Input, FramesTypeOK, Position, Place, sent, seen
  <2> QED
    BY <1>1, <1>3, <2>1 DEF TypeLine, Input
<1>4. ASSUME ReceiveInput PROVE toServer' \in Nat /\ toServer' < toServer
  BY <1>0, <1>4 DEF ReceiveInput
<1>5. CASE ReceivePseudo
  <2>1. FramesTypeOK' /\ toServer' <= inputs'
    BY <1>0, <1>4, <1>5 DEF ReceivePseudo, FramesTypeOK, Position, Place, sent, seen
  <2> QED
    BY <1>1, <1>5, <2>1 DEF ReceivePseudo
<1>6. CASE OtherThreads
  <2>1. FramesTypeOK' /\ toServer' <= inputs'
    BY <1>0, <1>6 DEF OtherThreads, FramesTypeOK, Position, Place, sent, seen, ends
  <2> QED
    BY <1>1, <1>6, <2>1 DEF OtherThreads, ends
<1>7. CASE Arrive
  <2>1. FramesTypeOK' /\ toServer' <= inputs'
    BY <1>0, <1>7 DEF Arrive, FramesTypeOK, Position, Place, sent, seen, ends
  <2> QED
    BY <1>1, <1>7, <2>1 DEF Arrive, ends
<1>8. CASE UNCHANGED framesVars
  <2>1. FramesTypeOK' /\ toServer' <= inputs'
    BY <1>0, <1>8 DEF framesVars, FramesTypeOK, Position, Place, sent, seen, ends
  <2> QED
    BY <1>1, <1>8, <2>1 DEF framesVars, ends
\* A frame sent: only the last is new, and the client has read as far as it had.
<1>9. ASSUME NEW kind \in Kinds, SendFrame(kind),
             UNCHANGED <<arrived, seen, inputs, client, locked>>,
             toServer' \in 0 .. toServer, server' \in {"choosing", "checking", "talking", "judging"}
      PROVE  FramesIInv'
  <2>0. /\ Len(frames') = Len(frames) + 1 /\ Len(frames) \in Nat
        /\ quiet' \subseteq quiet \cup {Len(frames) + 1} /\ Position' = Position
        /\ \A n \in 1 .. Len(frames) : frames'[n] = frames[n]
        /\ stream # <<>> \/ client # "talking" => quiet' = quiet
    BY <1>0, <1>9, SentFrame, PositionType
  <2>1. FramesTypeOK'
    <3>1. shown' \subseteq 1 .. Len(frames') /\ broken' \subseteq 1 .. Len(frames')
      BY <1>0, <1>9, <2>0 DEF FramesTypeOK, seen
    <3>2. arrived' \in 0 .. Len(stream')
      <4>1. arrived \in 0 .. Len(stream) /\ arrived' = arrived
        BY <1>0, <1>9 DEF FramesTypeOK
      <4>2. Len(stream) <= Len(stream') /\ Len(stream) \in Nat /\ Len(stream') \in Nat
        BY <1>0, <1>9, SentFrame, PositionType, LenProperties
      <4> QED
        BY <4>1, <4>2
    <3>3. /\ client' \in {"asking", "waiting", "talking", "indices", "gone"}
          /\ inputs' \in 0 .. MaxTyped /\ toServer' \in 0 .. MaxTyped /\ locked' \in BOOLEAN
      BY <1>0, <1>9 DEF FramesTypeOK
    <3>4. \A i \in DOMAIN stream' : Place(stream'[i]) = Position' + i
      BY <1>0, <1>9, SentFrame
    <3>5. \A i \in DOMAIN stream' : Place(stream[i])' = Position' + i
      BY <3>4 DEF Place
    <3> QED
      BY <1>0, <1>9, <3>1, <3>2, <3>3, <3>5, SentFrame DEF FramesTypeOK
  <2>2. toServer' <= inputs'
    BY <1>0, <1>9 DEF FramesTypeOK
  <2>3. ASSUME NEW m \in Messages' \cap quiet'
        PROVE  m \in shown' \cup broken' \/ (client' = "talking" /\ Position' = Parts * (m - 1))
    <3>1. CASE m \in quiet
      <4>1. m \in Messages \cap quiet
        BY <1>0, <2>0, <2>3, <3>1 DEF Messages, FramesTypeOK
      <4> QED
        BY <1>9, <2>0, <4>1 DEF FramesIInv, seen
    <3>2. CASE m \notin quiet
      <4>1. stream = <<>> /\ client = "talking" /\ m - 1 = Len(frames)
        BY <2>0, <2>3, <3>2
      <4>2. Position = Parts * (m - 1)
        BY <1>0, <4>1, PositionType, EmptySeq DEF Position
      <4> QED
        BY <1>9, <2>0, <4>1, <4>2
    <3> QED
      BY <3>1, <3>2
  <2> QED
    BY <2>1, <2>2, <2>3 DEF FramesIInv
<1>10. {"ok", "taken", "ask", "granted", "refused", "fin", "message"} = Kinds
  BY DEF Kinds
<1>11. toServer \in 0 .. toServer
  BY <1>0
<1>12. ASSUME ReceiveInput PROVE toServer' \in 0 .. toServer
  BY <1>0, <1>4, <1>12
<1>13. CASE CheckPseudo
  BY <1>9, <1>10, <1>11, <1>13 DEF CheckPseudo
\* A line or a selection that is not answered.
<1>14. ASSUME ReceiveInput, server' \in {"talking", "judging"},
              UNCHANGED <<sent, client, locked, arrived, seen, inputs>>
       PROVE  FramesIInv'
  <2>1. FramesTypeOK' /\ toServer' <= inputs'
    BY <1>0, <1>4, <1>14 DEF FramesTypeOK, Position, Place, sent, seen
  <2> QED
    BY <1>1, <1>14, <2>1
<1>15. CASE ReceiveLine
  <2>1. CASE SendFrame("ask") /\ server' = "judging"
    BY <1>9, <1>10, <1>12, <1>15, <2>1 DEF ReceiveLine
  <2>2. CASE UNCHANGED <<server, sent>>
    BY <1>14, <1>15, <2>2 DEF ReceiveLine
  <2> QED
    BY <1>15, <2>1, <2>2 DEF ReceiveLine
<1>16. CASE ReceiveSelection
  <2>1. CASE SendFrame("granted") /\ server' = "talking"
    BY <1>9, <1>10, <1>12, <1>16, <2>1 DEF ReceiveSelection
  <2>2. CASE SendFrame("refused") /\ UNCHANGED server
    BY <1>9, <1>10, <1>12, <1>16, <2>2 DEF ReceiveSelection
  <2>3. CASE server' = "talking" /\ UNCHANGED sent
    BY <1>14, <1>16, <2>3 DEF ReceiveSelection
  <2> QED
    BY <1>16, <2>1, <2>2, <2>3 DEF ReceiveSelection
<1>17. CASE SendMessage
  <2>1. PICK kind \in {"message", "fin"} : SendFrame(kind)
    BY <1>17 DEF SendMessage
  <2> QED
    BY <1>9, <1>10, <1>11, <1>17, <2>1 DEF SendMessage, ends
\* What is read: what was seen is not lost, and the frames do not change.
<1>18. ASSUME NEW count \in 1 .. Parts, Take(count),
              UNCHANGED <<server, locked, toServer, frames, quiet, inputs>>,
              client' \in {"asking", "waiting", "talking", "indices", "gone"},
              shown' \subseteq 1 .. Len(frames), broken' \subseteq 1 .. Len(frames)
       PROVE  FramesTypeOK' /\ stream # <<>> /\ Messages' = Messages
  <2>1. \A i \in DOMAIN stream' : Place(stream'[i]) = Position' + i
    BY <1>0, <1>18, TakenParts
  <2>2. \A i \in DOMAIN stream' : Place(stream[i])' = Position' + i
    BY <2>1 DEF Place
  <2>3. /\ server' \in {"choosing", "checking", "talking", "judging"}
        /\ locked' \in BOOLEAN /\ toServer' \in 0 .. MaxTyped /\ inputs' \in 0 .. MaxTyped
        /\ frames' \in Seq(Kinds) /\ Len(frames') <= MaxFrames
        /\ quiet' \subseteq 1 .. Len(frames')
        /\ shown' \subseteq 1 .. Len(frames') /\ broken' \subseteq 1 .. Len(frames')
    BY <1>0, <1>18 DEF FramesTypeOK
  <2>4. /\ stream' \in Seq([frame : 1 .. Len(frames'), part : 1 .. Parts])
        /\ Len(stream') <= Parts * Len(frames') /\ arrived' \in 0 .. Len(stream')
    BY <1>0, <1>18, TakenParts
  <2>5. FramesTypeOK'
    BY <1>18, <2>2, <2>3, <2>4 DEF FramesTypeOK
  <2> QED
    BY <1>0, <1>18, <2>5, TakenParts DEF Messages
<1>19. ASSUME NEW count \in 1 .. Parts, Take(count), Show(count) \/ UNCHANGED seen, UNCHANGED frames
       PROVE  /\ shown' \subseteq 1 .. Len(frames) /\ broken' \subseteq 1 .. Len(frames)
              /\ shown \cup broken \subseteq shown' \cup broken'
  <2>1. stream # <<>>
    BY <1>0, <1>19, TakenParts
  <2>2. Head(stream).frame \in 1 .. Len(frames)
    BY <1>0, <2>1, NextPart
  <2>3. shown \subseteq 1 .. Len(frames) /\ broken \subseteq 1 .. Len(frames)
    BY <1>0 DEF FramesTypeOK
  <2> QED
    BY <1>19, <2>2, <2>3 DEF Show, seen
\* Who does not listen has no quiet message before it.
<1>20. ASSUME client # "talking", NEW count \in 1 .. Parts, Take(count),
              UNCHANGED <<server, locked, toServer, frames, quiet, inputs>>,
              client' \in {"asking", "waiting", "talking", "indices", "gone"},
              Show(count) \/ UNCHANGED seen
       PROVE  FramesIInv'
  <2>1. FramesTypeOK' /\ Messages' = Messages
    BY <1>18, <1>19, <1>20
  <2>2. \A n \in Messages' \cap quiet' : n \in shown' \cup broken'
    BY <1>19, <1>20, <2>1 DEF FramesIInv
  <2> QED
    BY <1>0, <1>20, <2>1, <2>2 DEF FramesIInv
<1>21. CASE RecvAnswer
  <2>1. PICK count \in 1 .. Parts : Take(count) /\ client' \in Answers(count)
    BY <1>21 DEF RecvAnswer
  <2>2. client' \in {"asking", "waiting", "talking", "indices", "gone"}
    BY <2>1 DEF Answers
  <2> QED
    BY <1>20, <1>21, <2>1, <2>2 DEF RecvAnswer
<1>22. CASE RecvIndices
  <2>1. PICK count \in 1 .. Parts :
            Take(count) /\ client' \in Verdicts(count) /\ (Show(count) \/ UNCHANGED seen)
    BY <1>22 DEF RecvIndices
  <2>2. client' \in {"asking", "waiting", "talking", "indices", "gone"}
    BY <2>1 DEF Verdicts
  <2> QED
    BY <1>20, <1>22, <2>1, <2>2 DEF RecvIndices
<1>23. CASE RecvMessage
  <2>1. PICK count \in 1 .. Parts :
            Take(count) /\ client' \in Handlings(count) /\ Show(count)
    BY <1>23 DEF RecvMessage
  <2>2. /\ UNCHANGED <<server, locked, toServer, frames, quiet, inputs>>
        /\ client' \in {"asking", "waiting", "talking", "indices", "gone"}
    BY <1>23, <2>1 DEF RecvMessage, Handlings
  <2>3. FramesTypeOK' /\ Messages' = Messages /\ shown \cup broken \subseteq shown' \cup broken'
    BY <1>18, <1>19, <2>1, <2>2
  <2>4. ASSUME NEW n \in Messages' \cap quiet' PROVE n \in shown' \cup broken'
    <3>1. CASE n \in shown \cup broken
      BY <2>3, <3>1
    <3>2. CASE n \notin shown \cup broken
      <4>1. Head(stream).frame = n /\ Head(stream).part = 1 /\ Reading = "message"
        BY <2>2, <2>3, <2>4, <3>2, QuietIsNext
      <4> QED
        BY <2>1, <4>1 DEF Show
    <3> QED
      BY <3>1, <3>2
  <2> QED
    BY <1>0, <2>2, <2>3, <2>4 DEF FramesIInv
<1> QED
  BY <1>2, <1>3, <1>5, <1>6, <1>7, <1>8, <1>13, <1>15, <1>16, <1>17, <1>21, <1>22, <1>23
     DEF FramesNext, ServerReads, ClientReads

LEMMA FramesInvariantImplies == FramesIInv => QuietIsShown
<1> SUFFICES ASSUME FramesIInv, NEW n \in (Messages \cap quiet) \ Unread
             PROVE  n \in shown \cup broken
  BY DEF FramesIInv, QuietIsShown
<1>1. FramesTypeOK /\ n \in 1 .. Len(frames)
  BY DEF FramesIInv, Messages
<1>2. Position # Parts * (n - 1)
  <2> SUFFICES ASSUME Position = Parts * (n - 1) PROVE FALSE
    OBVIOUS
  <2>1. stream # <<>> /\ Head(stream).frame = n /\ Head(stream).part = 1
    BY <1>1, NextFrame
  <2>2. 1 \in DOMAIN stream /\ Head(stream) = stream[1]
    BY <1>1, <2>1, EmptySeq, LenProperties DEF FramesTypeOK
  <2>3. n \in Unread
    BY <2>1, <2>2 DEF Unread
  <2> QED
    BY <2>3
<1> QED
  BY <1>2 DEF FramesIInv

\* A message sent when the listener had read all there was, and not seen yet, is
\* what it reads next (receive_message_thread.c:44-59), for any number of parts
\* of a frame, of its string and of what stands before the ':'.
THEOREM FramesInvariant == FramesSpec => []FramesIInv
BY InitFrames, NextFrames, PTL DEF FramesSpec

\* A message sent when the listener had read all that was sent before is shown,
\* whatever was lost earlier, unless its first recv ends before the ':'
\* (receive_message_thread.c:46-59).
THEOREM QuietMessagesShown == FramesSpec => []QuietIsShown
BY FramesInvariant, FramesInvariantImplies, PTL
-------------------------------------------------------------------------------
(* The sends (SendBuffers).                                                *)

LEMMA OthersType == ASSUME NEW c \in Client PROVE Others(c) \in Seq(Client)
<1> DEFINE S == Client \ {c}
<1>1. IsFiniteSet(S)
  BY FS_Subset, SendBuffersAssumption DEF SendBuffersAssumption
<1>2. Cardinality(S) \in Nat /\ ExistsBijection(1 .. Cardinality(S), S)
  BY <1>1, FS_CardinalityType
<1>3. \E f \in [1 .. Cardinality(S) -> S] : IsInjective(f)
  BY <1>2 DEF ExistsBijection, Bijection, Injection
<1>4. SetToSeq(S) \in [1 .. Cardinality(S) -> S]
  BY <1>3 DEF SetToSeq
<1>5. SetToSeq(S) \in [1 .. Cardinality(S) -> Client]
  BY <1>4
<1>6. ASSUME NEW n \in Nat, NEW f \in [1 .. n -> Client] PROVE f \in Seq(Client)
  OBVIOUS
<1> QED
  BY <1>2, <1>5, <1>6 DEF Others

\* What a command sends goes to clients.
LEMMA SendsTo ==
    ASSUME SendsTypeOK, NEW c \in Client, Start(c)
    PROVE  \E m \in Mutex : \E with, without \in Seq(Client) : Sends(c, m, with, without)
<1> <<>> \in Seq(Client) /\ \A o \in Client : <<o>> \in Seq(Client)
  OBVIOUS
<1>1. CASE SendAll(c)
  BY <1>1, OthersType DEF SendAll, Mutex
<1>2. CASE SendChannel(c)
  BY <1>2, OthersType DEF SendChannel, Mutex
<1>3. CASE ListChannels(c)
  <2> DEFINE lines == IF NumChannels = 0 THEN 1 ELSE NumChannels
  <2>1. lines + 1 \in Nat
    BY SendBuffersAssumption DEF SendBuffersAssumption
  <2>2. Sends(c, "channels", [i \in 1 .. lines + 1 |-> c], <<>>)
    BY <1>3 DEF ListChannels
  <2> HIDE DEF lines
  <2>3. [i \in 1 .. lines + 1 |-> c] \in Seq(Client)
    BY <2>1, IsASeq
  <2> QED
    BY <2>2, <2>3 DEF Mutex
<1>4. CASE Lookup(c)
  BY <1>4 DEF Lookup, Mutex
<1>5. CASE ChangeChannels(c)
  BY <1>5 DEF ChangeChannels, Mutex
<1> QED
  BY <1>1, <1>2, <1>3, <1>4, <1>5 DEF Start

LEMMA SentType ==
    ASSUME SendsTypeOK, NEW o \in Client, Sent(o)
    PROVE  unread' \in [Client -> 0 .. Capacity]
BY SendBuffersAssumption DEF SendBuffersAssumption, Sent, SendsTypeOK

LEMMA InitSends == SendsInit => SendsTypeOK
<1> SUFFICES ASSUME SendsInit PROVE SendsTypeOK
  OBVIOUS
<1>1. \A m \in Mutex : \A c \in Client : mutex[m] # c
  BY SendBuffersAssumption DEF SendsInit, SendBuffersAssumption
<1> QED
  BY <1>1, EmptySeq, SendBuffersAssumption DEF SendsInit, SendsTypeOK, SendBuffersAssumption, Mutex, Stage

LEMMA NextSends == SendsTypeOK /\ [SendsNext]_sendsVars => SendsTypeOK'
<1> SUFFICES ASSUME SendsTypeOK, [SendsNext]_sendsVars PROVE SendsTypeOK'
  OBVIOUS
<1> USE SendBuffersAssumption DEF SendBuffersAssumption
<1>1. ASSUME NEW c \in Client, Start(c) PROVE SendsTypeOK'
  <2>1. PICK m \in Mutex : \E with, without \in Seq(Client) : Sends(c, m, with, without)
    BY <1>1, SendsTo
  <2>2. PICK with \in Seq(Client), without \in Seq(Client) : Sends(c, m, with, without)
    BY <2>1
  <2>3. /\ lock' \in [Client -> Mutex]
        /\ held' \in [Client -> Seq(Client)] /\ after' \in [Client -> Seq(Client)]
        /\ commands' \in [Client -> 0 .. MaxCommands]
    BY <2>2 DEF Sends, SendsTypeOK
  <2>4. \A n \in Mutex : \A d \in Client : mutex'[n] = d <=> (Stage(d, "held")' /\ lock'[d] = n)
    BY <2>2 DEF Sends, SendsTypeOK, Stage, Proceed
  <2> QED
    BY <2>2, <2>3, <2>4 DEF Sends, SendsTypeOK, Proceed
<1>2. ASSUME NEW c \in Client, Lock(c) PROVE SendsTypeOK'
  <2>1. \A n \in Mutex : \A d \in Client : mutex'[n] = d <=> (Stage(d, "held")' /\ lock'[d] = n)
    BY <1>2 DEF Lock, SendsTypeOK, Stage, Proceed, job
  <2> QED
    BY <1>2, <2>1 DEF Lock, SendsTypeOK, Proceed, job
<1>3. ASSUME NEW c \in Client, SendHeld(c) PROVE SendsTypeOK'
  <2>1. Head(held[c]) \in Client /\ Tail(held[c]) \in Seq(Client)
    BY <1>3, HeadTailProperties DEF SendHeld, SendsTypeOK
  <2>2. unread' \in [Client -> 0 .. Capacity]
    BY <1>3, <2>1, SentType DEF SendHeld
  <2>3. held' \in [Client -> Seq(Client)]
    BY <1>3, <2>1 DEF SendHeld, SendsTypeOK
  <2> QED
    BY <1>3, <2>2, <2>3 DEF SendHeld, SendsTypeOK, Stage
<1>4. ASSUME NEW c \in Client, Unlock(c) PROVE SendsTypeOK'
  <2>1. \A n \in Mutex : \A d \in Client : mutex'[n] = d <=> (Stage(d, "held")' /\ lock'[d] = n)
    BY <1>4 DEF Unlock, SendsTypeOK, Stage, Proceed, job
  <2> QED
    BY <1>4, <2>1 DEF Unlock, SendsTypeOK, Proceed, job
<1>5. ASSUME NEW c \in Client, SendAfter(c) PROVE SendsTypeOK'
  <2>1. Head(after[c]) \in Client /\ Tail(after[c]) \in Seq(Client)
    BY <1>5, HeadTailProperties DEF SendAfter, SendsTypeOK
  <2>2. unread' \in [Client -> 0 .. Capacity]
    BY <1>5, <2>1, SentType DEF SendAfter
  <2>3. after' \in [Client -> Seq(Client)]
    BY <1>5, <2>1 DEF SendAfter, SendsTypeOK
  <2> QED
    BY <1>5, <2>2, <2>3 DEF SendAfter, SendsTypeOK, Stage
<1>6. ASSUME NEW c \in Client, Done(c) PROVE SendsTypeOK'
  BY <1>6 DEF Done, SendsTypeOK, Stage, Proceed, job
<1>7. ASSUME NEW c \in Client, ReadFrame(c) PROVE SendsTypeOK'
  BY <1>7 DEF ReadFrame, SendsTypeOK, Stage, job
<1>8. ASSUME NEW c \in Client, Stall(c) PROVE SendsTypeOK'
  BY <1>8 DEF Stall, SendsTypeOK, Stage, job
<1>9. CASE UNCHANGED sendsVars
  BY <1>9 DEF sendsVars, job, SendsTypeOK, Stage
<1> QED
  BY <1>1, <1>2, <1>3, <1>4, <1>5, <1>6, <1>7, <1>8, <1>9 DEF SendsNext, Work

\* The holder of a lock waits for a client and for nothing else: whoever waits
\* for the lock waits, through it, for a client too.
LEMMA HolderWaitsForReader == SendsTypeOK => WaitIsForReader
<1> SUFFICES ASSUME SendsTypeOK, NEW c \in Client, ~Stage(c, "cmd"),
                    \A d \in Client : Stage(d, "cmd") \/ Waiting(d)
             PROVE  \E o \in Client : unread[o] = Capacity
  BY DEF WaitIsForReader
<1>1. ASSUME NEW d \in Client, Waiting(d), ~Stage(d, "lock")
      PROVE  \E o \in Client : unread[o] = Capacity
  <2>1. CASE held[d] # <<>> /\ unread[Head(held[d])] = Capacity
    BY <2>1, HeadTailProperties DEF SendsTypeOK
  <2>2. CASE after[d] # <<>> /\ unread[Head(after[d])] = Capacity
    BY <2>2, HeadTailProperties DEF SendsTypeOK
  <2> QED
    BY <1>1, <2>1, <2>2 DEF Waiting
<1>2. CASE Stage(c, "lock")
  <2>1. mutex[lock[c]] \in Client
    <3>1. mutex[lock[c]] # Nobody
      BY <1>2 DEF Waiting, Stage
    <3> QED
      BY <3>1 DEF SendsTypeOK
  <2>2. Stage(mutex[lock[c]], "held")
    BY <2>1 DEF SendsTypeOK
  <2> QED
    BY <1>1, <2>1, <2>2 DEF Stage
<1>3. CASE ~Stage(c, "lock")
  BY <1>1, <1>3
<1> QED
  BY <1>2, <1>3

\* Whatever commands the users type and in whatever order the locks are given:
\* when no session can go on, a client's buffer is full
\* (communication.c:36-51, listChannel.c:20-36, send_msg_channel.c:19-45).
THEOREM NoCircularWait == SendsSpec => []WaitIsForReader
<1>1. SendsSpec => []SendsTypeOK
  BY InitSends, NextSends, PTL DEF SendsSpec
<1> QED
  BY <1>1, HolderWaitsForReader, PTL
===============================================================================
