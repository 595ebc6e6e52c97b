---------------------------- MODULE FilePort_proofs ----------------------------
(***************************************************************************)
(* Proofs, for any number of clients, connections and commands, that no    *)
(* connection made to the port of the file transfers lacks a thread to     *)
(* accept it, whatever thread takes whose connection.                      *)
(***************************************************************************)
EXTENDS FilePort, SequenceTheorems, FiniteSetTheorems, TLAPS

-------------------------------------------------------------------------------
(* Sums over the clients.                                                  *)
Pairs(f) == UNION {{c} \X (1 .. f[c]) : c \in Client}

LEMMA PairsFinite ==
    ASSUME NEW f \in [Client -> Nat]
    PROVE  IsFiniteSet(Pairs(f)) /\ Total(f) \in Nat
<1> DEFINE own == [c \in Client |-> {c} \X (1 .. f[c])]
           sets == {{c} \X (1 .. f[c]) : c \in Client}
<1>1. IsFiniteSet(Client)
  BY FilePortAssumption DEF FilePortAssumption
<1>2. \A c \in Client : IsFiniteSet({c} \X (1 .. f[c]))
  <2> SUFFICES ASSUME NEW c \in Client PROVE IsFiniteSet({c} \X (1 .. f[c]))
    OBVIOUS
  <2>1. f[c] \in Nat
    OBVIOUS
  <2>2. IsFiniteSet(1 .. f[c])
    BY <2>1, FS_Interval
  <2>3. IsFiniteSet({c})
    BY FS_Singleton
  <2> QED
    BY <2>2, <2>3, FS_Product
<1>3. own \in Surjection(Client, sets)
  BY DEF Surjection
<1>4. IsFiniteSet(sets)
  BY <1>1, <1>3, FS_Surjection
<1>5. \A t \in sets : IsFiniteSet(t)
  BY <1>2
<1> HIDE DEF sets
<1>6. IsFiniteSet(UNION sets)
  BY <1>4, <1>5, FS_UNION
<1>7. Pairs(f) = UNION sets /\ Total(f) = Cardinality(UNION sets)
  BY DEF Pairs, Total, sets
<1> QED
  BY <1>6, <1>7, FS_CardinalityType

\* A sum changes as the number of the one client that changed.
LEMMA TotalStep ==
    ASSUME NEW f \in [Client -> Nat], NEW g \in [Client -> Nat], NEW c \in Client,
           \A e \in Client \ {c} : g[e] = f[e]
    PROVE  Total(g) + f[c] = Total(f) + g[c]
<1> DEFINE rest == UNION {{e} \X (1 .. f[e]) : e \in Client \ {c}}
<1>1. ASSUME NEW h \in [Client -> Nat], \A e \in Client \ {c} : h[e] = f[e]
      PROVE  /\ Total(h) = Cardinality(rest) + h[c]
             /\ IsFiniteSet(rest)
  <2> DEFINE own == {c} \X (1 .. h[c])
  <2>1. Pairs(h) = rest \cup own
    <3>1. {{e} \X (1 .. f[e]) : e \in Client \ {c}} = {{e} \X (1 .. h[e]) : e \in Client \ {c}}
      BY <1>1
    <3>2. {{e} \X (1 .. h[e]) : e \in Client} = {{e} \X (1 .. h[e]) : e \in Client \ {c}} \cup {own}
      OBVIOUS
    <3> QED
      BY <3>1, <3>2 DEF Pairs
  <2>2. rest \cap own = {}
    OBVIOUS
  <2>3. h[c] \in Nat
    BY <1>1
  <2>4. IsFiniteSet(own) /\ Cardinality(own) = h[c]
    <3>1. IsFiniteSet(1 .. h[c]) /\ Cardinality(1 .. h[c]) = h[c]
      BY <2>3, FS_Interval
    <3>2. IsFiniteSet({c}) /\ Cardinality({c}) = 1
      BY FS_Singleton
    <3>3. /\ IsFiniteSet({c} \X (1 .. h[c]))
          /\ Cardinality({c} \X (1 .. h[c])) = Cardinality({c}) * Cardinality(1 .. h[c])
      BY <3>1, <3>2, FS_Product
    <3>4. 1 * h[c] = h[c]
      BY <2>3
    <3> QED
      BY <3>1, <3>2, <3>3, <3>4
  <2>5. IsFiniteSet(Pairs(h))
    BY <1>1, PairsFinite
  <2> HIDE DEF rest, own
  <2>6. IsFiniteSet(rest)
    <3>1. rest \in SUBSET Pairs(h)
      BY <2>1
    <3> QED
      BY <2>5, <3>1, FS_Subset
  <2>7. Cardinality(rest \cup own) = Cardinality(rest) + Cardinality(own) - 0
    BY <2>2, <2>4, <2>6, FS_Union, FS_EmptySet
  <2>8. Cardinality(rest) \in Nat
    BY <2>6, FS_CardinalityType
  <2>9. Total(h) = Cardinality(Pairs(h))
    BY DEF Total, Pairs
  <2> QED
    BY <2>1, <2>3, <2>4, <2>6, <2>7, <2>8, <2>9
<1>2. Total(f) = Cardinality(rest) + f[c] /\ IsFiniteSet(rest)
  <2> HIDE DEF rest
  <2> QED
    BY <1>1
<1>3. Total(g) = Cardinality(rest) + g[c]
  <2> HIDE DEF rest
  <2> QED
    BY <1>1
<1>4. Cardinality(rest) \in Nat
  <2> HIDE DEF rest
  <2> QED
    BY <1>2, FS_CardinalityType
<1> HIDE DEF rest
<1>5. f[c] \in Nat /\ g[c] \in Nat
  OBVIOUS
<1> QED
  BY <1>2, <1>3, <1>4, <1>5
-------------------------------------------------------------------------------
(* How many commands of a kind there are, when one is typed or read.       *)
LEMMA CountType ==
    ASSUME NEW S, NEW s \in Seq(S), NEW w
    PROVE  /\ IsFiniteSet({i \in DOMAIN s : s[i] = w})
           /\ Count(w, s) \in Nat
<1>1. DOMAIN s = 1 .. Len(s) /\ Len(s) \in Nat
  BY LenProperties
<1>2. IsFiniteSet(1 .. Len(s))
  BY <1>1, FS_Interval
<1>3. {i \in DOMAIN s : s[i] = w} \in SUBSET (1 .. Len(s))
  BY <1>1
<1>4. IsFiniteSet({i \in DOMAIN s : s[i] = w})
  BY <1>2, <1>3, FS_Subset
<1> QED
  BY <1>4, FS_CardinalityType DEF Count

LEMMA CountAppend ==
    ASSUME NEW S, NEW s \in Seq(S), NEW e \in S, NEW w
    PROVE  Count(w, Append(s, e)) = Count(w, s) + (IF e = w THEN 1 ELSE 0)
<1> DEFINE t == Append(s, e)
           old == {i \in DOMAIN s : s[i] = w}
           new == {i \in DOMAIN t : t[i] = w}
<1>1. /\ DOMAIN s = 1 .. Len(s) /\ Len(s) \in Nat
      /\ DOMAIN t = 1 .. Len(s) + 1
      /\ \A i \in 1 .. Len(s) : t[i] = s[i]
      /\ t[Len(s) + 1] = e
  BY AppendProperties, LenProperties
<1> HIDE DEF t
<1>2. new = IF e = w THEN old \cup {Len(s) + 1} ELSE old
  BY <1>1
<1>3. Len(s) + 1 \notin old
  BY <1>1
<1>4. IsFiniteSet(old)
  BY CountType
<1>5. Cardinality(old) \in Nat
  BY <1>4, FS_CardinalityType
<1> HIDE DEF old, new
<1>6. Cardinality(old \cup {Len(s) + 1}) = Cardinality(old) + 1
  BY <1>3, <1>4, FS_AddElement
<1>7. Cardinality(new) = Cardinality(old) + (IF e = w THEN 1 ELSE 0)
  BY <1>2, <1>5, <1>6
<1> QED
  BY <1>7 DEF Count, old, new, t

LEMMA CountTail ==
    ASSUME NEW S, NEW s \in Seq(S), s # <<>>, NEW w
    PROVE  Count(w, s) = Count(w, Tail(s)) + (IF Head(s) = w THEN 1 ELSE 0)
<1> DEFINE t == Tail(s)
           all == {i \in DOMAIN s : s[i] = w}
           left == {i \in DOMAIN t : t[i] = w}
           later == {i \in all : i # 1}
<1>1. /\ DOMAIN s = 1 .. Len(s) /\ Len(s) \in Nat \ {0}
      /\ t \in Seq(S)
      /\ DOMAIN t = 1 .. Len(s) - 1
      /\ \A i \in 1 .. Len(s) - 1 : t[i] = s[i + 1]
      /\ Head(s) = s[1]
  BY HeadTailProperties, LenProperties, EmptySeq
<1> HIDE DEF t
<1>2. IsFiniteSet(all) /\ IsFiniteSet(left)
  BY <1>1, CountType
<1>3. Cardinality(later) = Cardinality(left)
  <2> DEFINE shift == [i \in left |-> i + 1]
  <2>1. \A i \in left : i + 1 \in later
    BY <1>1
  <2>2. shift \in [left -> later]
    BY <2>1
  <2>3. \A i, j \in left : shift[i] = shift[j] => i = j
    BY <1>1
  <2>4. \A k \in later : \E i \in left : shift[i] = k
    <3>1. ASSUME NEW k \in later PROVE k - 1 \in left /\ (k - 1) + 1 = k
      <4>1. k \in 2 .. Len(s) /\ s[k] = w
        BY <1>1
      <4>2. k - 1 \in 1 .. Len(s) - 1 /\ (k - 1) + 1 = k
        BY <4>1, <1>1
      <4>3. t[k - 1] = s[k]
        BY <4>2, <1>1
      <4> QED
        BY <4>1, <4>2, <4>3, <1>1
    <3> QED
      BY <3>1
  <2> HIDE DEF shift, left, later
  <2>5. ExistsBijection(left, later)
    BY <2>2, <2>3, <2>4 DEF ExistsBijection, Bijection, Injection, Surjection, IsInjective
  <2> QED
    BY <1>2, <2>5, FS_Bijection
<1>4. all = IF Head(s) = w THEN later \cup {1} ELSE later
  BY <1>1
<1>5. 1 \notin later
  OBVIOUS
<1>6. IsFiniteSet(later) /\ Cardinality(later) \in Nat
  <2>1. later \in SUBSET all
    OBVIOUS
  <2> HIDE DEF all, later
  <2> QED
    BY <1>2, <2>1, FS_Subset, FS_CardinalityType
<1> HIDE DEF all, left, later
<1>7. Cardinality(later \cup {1}) = Cardinality(later) + 1
  BY <1>5, <1>6, FS_AddElement
<1>8. Cardinality(all) = Cardinality(left) + (IF Head(s) = w THEN 1 ELSE 0)
  BY <1>3, <1>4, <1>6, <1>7
<1> QED
  BY <1>8 DEF Count, all, left, t
-------------------------------------------------------------------------------
(* Types.                                                                  *)
Command == {"sendFiles", "getFiles"}
UserState == {"prompt", "selecting", "waiting", "exited"}
SessionState == {"main", "accepting", "ended"}
Stage == {"free", "dialing", "queued", "accepted", "done"}

AcceptorTypes ==
    /\ Uploads \in [Client -> Nat] /\ Accepting \in [Client -> Nat]
    /\ Acceptors \in [Client -> Nat]

LEMMA UploadsType == TypeOK => AcceptorTypes
<1> SUFFICES ASSUME TypeOK PROVE AcceptorTypes
  OBVIOUS
<1>1. \A c \in Client : Count("sendFiles", queue[c]) \in Nat
  BY CountType DEF TypeOK
<1>2. Uploads \in [Client -> Nat]
  BY <1>1 DEF Uploads
<1>3. Accepting \in [Client -> Nat]
  BY DEF Accepting
<1> QED
  BY <1>2, <1>3 DEF Acceptors, TypeOK, AcceptorTypes

\* The backlog, as a list of the queued connections.
Backlog ==
    /\ backlog \in Seq(Conn)
    /\ {backlog[i] : i \in DOMAIN backlog} = {k \in Conn : stage[k] = "queued"}
    /\ \A i, j \in DOMAIN backlog : backlog[i] = backlog[j] => i = j

\* A connection that was not queued changes its stage.
LEMMA BacklogKept ==
    ASSUME Backlog, stage \in [Conn -> Stage], NEW k \in Conn, NEW x \in Stage,
           stage' = [stage EXCEPT ![k] = x], stage[k] # "queued", x # "queued",
           backlog' = backlog
    PROVE  Backlog'
<1>1. {e \in Conn : stage[e] = "queued"}' = {e \in Conn : stage[e] = "queued"}
  OBVIOUS
<1> QED
  BY <1>1 DEF Backlog

LEMMA BacklogGrows ==
    ASSUME Backlog, stage \in [Conn -> Stage], NEW k \in Conn, stage[k] # "queued",
           stage' = [stage EXCEPT ![k] = "queued"],
           backlog' = Append(backlog, k)
    PROVE  /\ Backlog'
           /\ Len(backlog') = Len(backlog) + 1
<1>1. /\ backlog' \in Seq(Conn)
      /\ DOMAIN backlog = 1 .. Len(backlog) /\ Len(backlog) \in Nat
      /\ DOMAIN backlog' = 1 .. Len(backlog) + 1 /\ Len(backlog') = Len(backlog) + 1
      /\ \A i \in 1 .. Len(backlog) : backlog'[i] = backlog[i]
      /\ backlog'[Len(backlog) + 1] = k
  BY AppendProperties, LenProperties DEF Backlog
<1>2. {e \in Conn : stage'[e] = "queued"} = {e \in Conn : stage[e] = "queued"} \cup {k}
  OBVIOUS
<1>3. {backlog'[i] : i \in DOMAIN backlog'} = {backlog[i] : i \in DOMAIN backlog} \cup {k}
  <2>1. \A i \in DOMAIN backlog' : backlog'[i] \in {backlog[j] : j \in DOMAIN backlog} \cup {k}
    BY <1>1
  <2>2. \A i \in DOMAIN backlog : \E j \in DOMAIN backlog' : backlog'[j] = backlog[i]
    BY <1>1
  <2>3. \E j \in DOMAIN backlog' : backlog'[j] = k
    BY <1>1
  <2> QED
    BY <2>1, <2>2, <2>3
<1>4. \A i \in DOMAIN backlog : backlog[i] # k
  BY DEF Backlog
<1>5. \A i, j \in DOMAIN backlog' : backlog'[i] = backlog'[j] => i = j
  BY <1>1, <1>4 DEF Backlog
<1> QED
  BY <1>1, <1>2, <1>3, <1>5 DEF Backlog

\* accept takes the oldest connection.
LEMMA TakenParts ==
    ASSUME Backlog, stage \in [Conn -> Stage], NEW k \in Conn, Taken(k)
    PROVE  /\ Backlog' /\ stage' \in [Conn -> Stage]
           /\ stage[k] = "queued" /\ stage' = [stage EXCEPT ![k] = "accepted"]
           /\ Len(backlog) \in Nat \ {0} /\ Len(backlog') = Len(backlog) - 1
<1>1. /\ backlog' \in Seq(Conn)
      /\ DOMAIN backlog = 1 .. Len(backlog) /\ Len(backlog) \in Nat \ {0}
      /\ DOMAIN backlog' = 1 .. Len(backlog) - 1 /\ Len(backlog') = Len(backlog) - 1
      /\ \A i \in 1 .. Len(backlog) - 1 : backlog'[i] = backlog[i + 1]
      /\ backlog[1] = k
  BY HeadTailProperties, LenProperties, EmptySeq DEF Backlog, Taken
<1>2. stage' = [stage EXCEPT ![k] = "accepted"] /\ stage' \in [Conn -> Stage]
  BY DEF Taken, Stage
<1>3. stage[k] = "queued"
  <2>1. 1 \in DOMAIN backlog
    BY <1>1
  <2> QED
    BY <1>1, <2>1 DEF Backlog
<1>4. {e \in Conn : stage'[e] = "queued"} = {e \in Conn : stage[e] = "queued"} \ {k}
  BY <1>2
<1>5. {backlog'[i] : i \in DOMAIN backlog'} = {backlog[i] : i \in DOMAIN backlog} \ {k}
  <2>1. ASSUME NEW i \in DOMAIN backlog'
        PROVE  backlog'[i] \in {backlog[j] : j \in DOMAIN backlog} \ {k}
    <3>1. i + 1 \in DOMAIN backlog /\ backlog'[i] = backlog[i + 1] /\ i + 1 # 1 /\ 1 \in DOMAIN backlog
      BY <1>1
    <3>2. backlog[i + 1] # backlog[1]
      BY <3>1 DEF Backlog
    <3> QED
      BY <1>1, <3>1, <3>2
  <2>2. ASSUME NEW i \in DOMAIN backlog, backlog[i] # k
        PROVE  \E j \in DOMAIN backlog' : backlog'[j] = backlog[i]
    <3>1. i \in 2 .. Len(backlog)
      BY <1>1, <2>2
    <3>2. i - 1 \in DOMAIN backlog' /\ backlog'[i - 1] = backlog[i]
      BY <1>1, <3>1
    <3> QED
      BY <3>2
  <2> QED
    BY <2>1, <2>2
<1>6. \A i, j \in DOMAIN backlog' : backlog'[i] = backlog'[j] => i = j
  <2> SUFFICES ASSUME NEW i \in DOMAIN backlog', NEW j \in DOMAIN backlog', backlog'[i] = backlog'[j]
               PROVE  i = j
    OBVIOUS
  <2>1. i + 1 \in DOMAIN backlog /\ j + 1 \in DOMAIN backlog /\ backlog[i + 1] = backlog[j + 1]
    BY <1>1
  <2>2. i + 1 = j + 1
    BY <2>1 DEF Backlog
  <2> QED
    BY <1>1, <2>2
<1> QED
  BY <1>1, <1>2, <1>3, <1>4, <1>5, <1>6 DEF Backlog

LEMMA InitType == Init => TypeOK
<1> SUFFICES ASSUME Init PROVE TypeOK
  OBVIOUS
<1>1. Len(<<>>) = 0 /\ <<>> \in Seq(Conn) /\ <<>> \in Seq(Command)
  BY EmptySeq
<1>2. Backlog
  <2>1. backlog = <<>> /\ DOMAIN backlog = {}
    BY DEF Init
  <2>2. {k \in Conn : stage[k] = "queued"} = {}
    BY DEF Init
  <2> QED
    BY <1>1, <2>1, <2>2 DEF Backlog
<1> QED
  BY <1>1, <1>2, FilePortAssumption DEF Init, TypeOK, Backlog, Command, FilePortAssumption

\* What a new connection changes.
LEMMA NewDialParts ==
    ASSUME TypeOK, NEW c \in Client, NEW r \in {"upload", "download"}, NewDial(c, r)
    PROVE  /\ \E k \in Conn : stage[k] = "free" /\ stage' = [stage EXCEPT ![k] = "dialing"]
           /\ stage' \in [Conn -> Stage]
           /\ owner' \in [Conn -> Client \cup {Nobody}] /\ role' \in [Conn -> {"upload", "download"}]
           /\ backlog' = backlog => Backlog'
<1>1. PICK k \in Conn : /\ stage[k] = "free"
                        /\ stage' = [stage EXCEPT ![k] = "dialing"]
                        /\ owner' = [owner EXCEPT ![k] = c]
                        /\ role' = [role EXCEPT ![k] = r]
  BY DEF NewDial
<1>2. backlog' = backlog => Backlog'
  BY <1>1, BacklogKept DEF TypeOK, Backlog, Stage
<1> QED
  BY <1>1, <1>2 DEF TypeOK, Stage

LEMMA TypeStep ==
    ASSUME TypeOK, [Next]_vars
    PROVE  TypeOK'
<1> USE DEF users, sessions, conns, threads, Stage
<1>1. Backlog
  BY DEF TypeOK, Backlog
<1>2. UNCHANGED <<backlog, stage>> => Backlog'
  BY <1>1 DEF Backlog
<1>3. CASE UNCHANGED vars
  BY <1>3 DEF vars, TypeOK
<1>4. ASSUME NEW c \in Client, NEW command \in Command, NEW state \in UserState, Type(c, command, state)
      PROVE  TypeOK'
  <2>1. typed' \in 0 .. MaxTyped
    BY <1>4, FilePortAssumption DEF Type, TypeOK, FilePortAssumption
  <2>2. queue' \in [Client -> Seq(Command)]
    <3>1. Append(queue[c], command) \in Seq(Command)
      BY AppendProperties DEF TypeOK, Command
    <3> QED
      BY <1>4, <3>1 DEF Type, TypeOK, Command
  <2>3. user' \in [Client -> UserState]
    BY <1>4 DEF Type, TypeOK, UserState
  <2> QED
    BY <1>2, <1>4, <2>1, <2>2, <2>3 DEF Type, TypeOK, Backlog, Command, UserState
<1>5. ASSUME NEW c \in Client, SendFiles(c) \/ GetFiles(c)
      PROVE  TypeOK'
  BY <1>4, <1>5 DEF SendFiles, GetFiles, Command, UserState
<1>6. ASSUME NEW c \in Client, Select(c)
      PROVE  TypeOK'
  <2>1. /\ Backlog' /\ stage' \in [Conn -> Stage]
        /\ owner' \in [Conn -> Client \cup {Nobody}] /\ role' \in [Conn -> {"upload", "download"}]
    <3>1. CASE NewDial(c, "upload")
      BY <1>6, <3>1, NewDialParts DEF Select
    <3>2. CASE UNCHANGED conns
      BY <1>2, <1>6, <3>2 DEF Select, TypeOK
    <3> QED
      BY <1>6, <3>1, <3>2 DEF Select
  <2> QED
    BY <1>6, <2>1 DEF Select, TypeOK, Backlog
<1>7. ASSUME NEW k \in Conn, Dial(k)
      PROVE  TypeOK'
  <2>1. Backlog' /\ stage' \in [Conn -> Stage]
    BY <1>1, <1>7, BacklogGrows DEF Dial, TypeOK
  <2> QED
    BY <1>7, <2>1 DEF Dial, TypeOK, Backlog
<1>8. ASSUME NEW c \in Client, Exit(c)
      PROVE  TypeOK'
  BY <1>2, <1>8 DEF Exit, TypeOK, Backlog
<1>9. ASSUME NEW c \in Client, Reading(c)
      PROVE  Tail(queue[c]) \in Seq(Command)
  BY <1>9, HeadTailProperties DEF Reading, TypeOK, Command
<1>10. ASSUME NEW c \in Client, RecvSendFiles(c)
       PROVE  TypeOK'
  <2>1. queue' \in [Client -> Seq(Command)]
    BY <1>9, <1>10 DEF RecvSendFiles, TypeOK, Command
  <2> QED
    BY <1>2, <1>10, <2>1 DEF RecvSendFiles, TypeOK, Backlog, Command
<1>11. ASSUME NEW c \in Client, AcceptUpload(c)
       PROVE  TypeOK'
  <2>1. PICK k \in Conn : Taken(k) /\ local' = [local EXCEPT ![c] = k]
    BY <1>11 DEF AcceptUpload
  <2>2. Backlog' /\ stage' \in [Conn -> Stage] /\ process' = process
    BY <1>1, <1>11, <2>1, TakenParts DEF AcceptUpload, TypeOK
  <2>3. local' \in [Client -> Conn \cup {Junk}]
    BY <2>1 DEF TypeOK
  <2>4. starting' \in [Client -> Nat] /\ faults' \in 0 .. MaxFaults
    BY <1>11, FilePortAssumption DEF AcceptUpload, TypeOK, FilePortAssumption
  <2> QED
    BY <1>11, <2>2, <2>3, <2>4 DEF AcceptUpload, TypeOK, Backlog
<1>12. ASSUME NEW c \in Client, AcceptFails(c)
       PROVE  TypeOK'
  <2>1. faults' \in 0 .. MaxFaults
    BY <1>12, FilePortAssumption DEF AcceptFails, TypeOK, FilePortAssumption
  <2> QED
    BY <1>2, <1>12, <2>1 DEF AcceptFails, TypeOK, Backlog
<1>13. ASSUME NEW c \in Client, StartReception(c)
       PROVE  TypeOK'
  <2>1. starting' \in [Client -> Nat]
    BY <1>13 DEF StartReception, TypeOK
  <2>2. readers' \in [Conn -> Nat]
    BY <1>13 DEF StartReception, TypeOK
  <2> QED
    BY <1>2, <1>13, <2>1, <2>2 DEF StartReception, TypeOK, Backlog
<1>14. ASSUME NEW c \in Client, RecvGetFiles(c)
       PROVE  TypeOK'
  <2>1. queue' \in [Client -> Seq(Command)]
    BY <1>9, <1>14 DEF RecvGetFiles, TypeOK, Command
  <2>2. waiting' \in [Client -> Nat] /\ faults' \in 0 .. MaxFaults
    BY <1>14, FilePortAssumption DEF RecvGetFiles, TypeOK, FilePortAssumption
  <2>3. /\ Backlog' /\ stage' \in [Conn -> Stage] /\ user' \in [Client -> UserState]
        /\ owner' \in [Conn -> Client \cup {Nobody}] /\ role' \in [Conn -> {"upload", "download"}]
    <3>1. CASE NewDial(c, "download") /\ user' = [user EXCEPT ![c] = "prompt"]
      BY <1>14, <3>1, NewDialParts DEF RecvGetFiles, TypeOK, UserState
    <3>2. CASE UNCHANGED <<conns, user>>
      BY <1>2, <1>14, <3>2 DEF RecvGetFiles, TypeOK, UserState
    <3> QED
      BY <1>14, <3>1, <3>2 DEF RecvGetFiles
  <2> QED
    BY <1>14, <2>1, <2>2, <2>3 DEF RecvGetFiles, TypeOK, Backlog, Command, UserState
<1>15. ASSUME NEW c \in Client, AcceptDownload(c)
       PROVE  TypeOK'
  <2>1. PICK k \in Conn : Taken(k) /\ sentTo' = [sentTo EXCEPT ![k] = c]
    BY <1>15 DEF AcceptDownload
  <2>2. Backlog' /\ stage' \in [Conn -> Stage]
    BY <1>1, <2>1, TakenParts DEF TypeOK
  <2>3. sentTo' \in [Conn -> Client \cup {Nobody}] /\ waiting' \in [Client -> Nat]
    BY <1>15, <2>1 DEF AcceptDownload, TypeOK
  <2> QED
    BY <1>15, <2>2, <2>3 DEF AcceptDownload, TypeOK, Backlog
<1>16. ASSUME NEW k \in Conn, Finish(k)
       PROVE  TypeOK'
  <2>1. Backlog' /\ stage' \in [Conn -> Stage]
    BY <1>1, <1>16, BacklogKept DEF Finish, TypeOK
  <2> QED
    BY <1>16, <2>1 DEF Finish, TypeOK, Backlog
<1>17. ASSUME NEW k \in Conn, SendFails(k)
       PROVE  TypeOK'
  BY <1>2, <1>17 DEF SendFails, TypeOK, Backlog
<1>18. ASSUME NEW c \in Client, RecvEnd(c)
       PROVE  TypeOK'
  BY <1>2, <1>18 DEF RecvEnd, TypeOK, Backlog
<1>19. ASSUME NEW c \in Client, RecvGetFilesExit(c)
       PROVE  TypeOK'
  <2>1. queue' \in [Client -> Seq(Command)]
    BY <1>9, <1>19 DEF RecvGetFilesExit, TypeOK, Command
  <2> QED
    BY <1>2, <1>19, <2>1 DEF RecvGetFilesExit, TypeOK, Backlog, Command
<1> QED
  BY <1>3, <1>5, <1>6, <1>7, <1>8, <1>10, <1>11, <1>12, <1>13, <1>14, <1>15, <1>16, <1>17, <1>18, <1>19
  DEF Next, User, Session
-------------------------------------------------------------------------------
(* What a step does to each side of the inequality.                        *)
LEMMA SidesType ==
    ASSUME TypeOK
    PROVE  /\ IsFiniteSet(Dialing) /\ Cardinality(Dialing) \in Nat
           /\ IsFiniteSet(Selecting) /\ Cardinality(Selecting) \in Nat
           /\ Total(Acceptors) \in Nat /\ faults \in Nat /\ Len(backlog) \in Nat
<1>1. IsFiniteSet(Conn) /\ IsFiniteSet(Client)
  BY FS_Interval, FilePortAssumption DEF Conn, FilePortAssumption
<1>2. Dialing \in SUBSET Conn /\ Selecting \in SUBSET Client
  BY DEF Dialing, Selecting
<1>3. IsFiniteSet(Dialing) /\ IsFiniteSet(Selecting)
  BY <1>1, <1>2, FS_Subset
<1>4. Total(Acceptors) \in Nat
  BY UploadsType, PairsFinite DEF AcceptorTypes
<1>5. faults \in Nat /\ Len(backlog) \in Nat
  BY LenProperties, FilePortAssumption DEF TypeOK, FilePortAssumption
<1> QED
  BY <1>3, <1>4, <1>5, FS_CardinalityType

\* A connection enters or leaves the stage "dialing", or does neither.
LEMMA DialingStep ==
    ASSUME TypeOK, NEW k \in Conn, NEW x \in Stage, stage' = [stage EXCEPT ![k] = x]
    PROVE  /\ stage[k] = "dialing" /\ x # "dialing" => Cardinality(Dialing') = Cardinality(Dialing) - 1
           /\ stage[k] # "dialing" /\ x = "dialing" => Cardinality(Dialing') = Cardinality(Dialing) + 1
           /\ stage[k] # "dialing" /\ x # "dialing" => Dialing' = Dialing
<1>1. /\ stage[k] = "dialing" /\ x # "dialing" => Dialing' = Dialing \ {k} /\ k \in Dialing
      /\ stage[k] # "dialing" /\ x = "dialing" => Dialing' = Dialing \cup {k} /\ k \notin Dialing
      /\ stage[k] # "dialing" /\ x # "dialing" => Dialing' = Dialing
  BY DEF Dialing, TypeOK
<1>2. IsFiniteSet(Dialing)
  BY SidesType
<1>3. /\ k \in Dialing => Cardinality(Dialing \ {k}) = Cardinality(Dialing) - 1
      /\ k \notin Dialing => Cardinality(Dialing \cup {k}) = Cardinality(Dialing) + 1
  BY <1>2, FS_AddElement, FS_RemoveElement
<1> QED
  BY <1>1, <1>3

LEMMA SelectingStep ==
    ASSUME TypeOK, NEW c \in Client, NEW x \in UserState, user' = [user EXCEPT ![c] = x]
    PROVE  /\ user[c] = "selecting" /\ x # "selecting" => Cardinality(Selecting') = Cardinality(Selecting) - 1
           /\ user[c] # "selecting" /\ x = "selecting" => Cardinality(Selecting') = Cardinality(Selecting) + 1
           /\ user[c] # "selecting" /\ x # "selecting" => Selecting' = Selecting
<1>1. /\ user[c] = "selecting" /\ x # "selecting" => Selecting' = Selecting \ {c} /\ c \in Selecting
      /\ user[c] # "selecting" /\ x = "selecting" => Selecting' = Selecting \cup {c} /\ c \notin Selecting
      /\ user[c] # "selecting" /\ x # "selecting" => Selecting' = Selecting
  BY DEF Selecting, TypeOK
<1>2. IsFiniteSet(Selecting)
  BY SidesType
<1>3. /\ c \in Selecting => Cardinality(Selecting \ {c}) = Cardinality(Selecting) - 1
      /\ c \notin Selecting => Cardinality(Selecting \cup {c}) = Cardinality(Selecting) + 1
  BY <1>2, FS_AddElement, FS_RemoveElement
<1> QED
  BY <1>1, <1>3

\* One client's threads, commands and session changed.
LEMMA AcceptorsStep ==
    ASSUME TypeOK, TypeOK', NEW c \in Client, NEW n \in Int,
           \A e \in Client \ {c} :
              waiting'[e] = waiting[e] /\ queue'[e] = queue[e] /\ session'[e] = session[e],
           waiting'[c] + Count("sendFiles", queue'[c]) + (IF session'[c] = "accepting" THEN 1 ELSE 0)
              = waiting[c] + Count("sendFiles", queue[c]) + (IF session[c] = "accepting" THEN 1 ELSE 0) + n
    PROVE  Total(Acceptors)' = Total(Acceptors) + n
<1>1. AcceptorTypes /\ AcceptorTypes'
  BY UploadsType, PTL
<1>2. /\ Uploads' = [e \in Client |-> Count("sendFiles", queue'[e])]
      /\ Accepting' = [e \in Client |-> IF session'[e] = "accepting" THEN 1 ELSE 0]
      /\ Acceptors' = [e \in Client |-> waiting'[e] + Uploads'[e] + Accepting'[e]]
  BY DEF Acceptors, Uploads, Accepting, Count
<1>3. \A e \in Client \ {c} : Acceptors'[e] = Acceptors[e]
  BY <1>2 DEF Acceptors, Uploads, Accepting
<1>4. Acceptors'[c] = Acceptors[c] + n
  BY <1>2 DEF Acceptors, Uploads, Accepting
<1> DEFINE new == Acceptors'
<1>5. Total(new) + Acceptors[c] = Total(Acceptors) + new[c]
  <2>1. new \in [Client -> Nat] /\ Acceptors \in [Client -> Nat]
    BY <1>1 DEF AcceptorTypes
  <2> HIDE DEF new
  <2> QED
    BY <1>3, <2>1, TotalStep DEF new
<1>6. Total(new) \in Nat /\ Total(Acceptors) \in Nat /\ Acceptors[c] \in Nat
  <2>1. new \in [Client -> Nat] /\ Acceptors \in [Client -> Nat]
    BY <1>1 DEF AcceptorTypes
  <2> HIDE DEF new
  <2> QED
    BY <2>1, PairsFinite
<1>7. Total(Acceptors)' = Total(new)
  BY DEF Total
<1> HIDE DEF new
<1> QED
  BY <1>4, <1>5, <1>6, <1>7 DEF new

LEMMA AcceptorsSame ==
    ASSUME UNCHANGED <<waiting, queue, session>>
    PROVE  Total(Acceptors)' = Total(Acceptors)
BY DEF Total, Acceptors, Uploads, Accepting, Count

\* A command that was read is no longer counted.
LEMMA CommandRead ==
    ASSUME TypeOK, NEW c \in Client, queue[c] # <<>>,
           queue' = [queue EXCEPT ![c] = Tail(@)]
    PROVE  /\ Count("sendFiles", queue[c])
                 = Count("sendFiles", queue'[c]) + (IF Head(queue[c]) = "sendFiles" THEN 1 ELSE 0)
           /\ Count("sendFiles", queue'[c]) \in Nat
<1>1. queue[c] \in Seq(Command) /\ queue'[c] = Tail(queue[c])
  BY DEF TypeOK, Command
<1>2. Tail(queue[c]) \in Seq(Command)
  BY <1>1, HeadTailProperties
<1>3. /\ Count("sendFiles", queue[c])
            = Count("sendFiles", Tail(queue[c])) + (IF Head(queue[c]) = "sendFiles" THEN 1 ELSE 0)
      /\ Count("sendFiles", Tail(queue[c])) \in Nat
  BY <1>1, <1>2, CountTail, CountType
<1> QED
  BY <1>1, <1>3

LEMMA EnoughStep ==
    ASSUME TypeOK, TypeOK', EnoughForSelecting, [Next]_vars
    PROVE  EnoughForSelecting'
<1> DEFINE b == Len(backlog)
           d == Cardinality(Dialing)
           s == Cardinality(Selecting)
           a == Total(Acceptors)
<1> USE DEF users, sessions, conns, threads
<1>1. b \in Nat /\ d \in Nat /\ s \in Nat /\ a \in Nat /\ faults \in Nat /\ b + d + s <= a + faults
  BY SidesType DEF EnoughForSelecting, Capacity
<1>2. SUFFICES b' + d' + s' <= a' + faults'
  BY DEF EnoughForSelecting, Capacity
<1>3. UNCHANGED stage => d' = d
  BY DEF Dialing
<1>4. UNCHANGED user => s' = s
  BY DEF Selecting
<1>5. UNCHANGED <<waiting, queue, session>> => a' = a
  BY AcceptorsSame
<1> HIDE DEF b, d, s, a
<1>6. ASSUME b' = b, d' = d, s' = s, a' = a, faults' = faults
      PROVE  b' + d' + s' <= a' + faults'
  BY <1>1, <1>6
<1>7. UNCHANGED backlog => b' = b
  BY DEF b
<1>8. CASE UNCHANGED vars
  BY <1>3, <1>4, <1>5, <1>6, <1>7, <1>8 DEF vars
<1>9. ASSUME NEW c \in Client, NEW r \in {"upload", "download"}, NewDial(c, r)
      PROVE  d' = d + 1
  <2>1. PICK k \in Conn : stage[k] = "free" /\ stage' = [stage EXCEPT ![k] = "dialing"]
    BY <1>9 DEF NewDial
  <2> QED
    BY <2>1, DialingStep DEF d, Stage
<1>10. ASSUME NEW c \in Client, NEW command \in Command, NEW state \in UserState, Type(c, command, state)
       PROVE  /\ b' = b /\ d' = d /\ faults' = faults
              /\ a' = a + (IF command = "sendFiles" THEN 1 ELSE 0)
              /\ s' = s + (IF state = "selecting" THEN 1 ELSE 0)
  <2>1. user[c] = "prompt" /\ user' = [user EXCEPT ![c] = state]
    BY <1>10 DEF Type
  <2>2. s' = s + (IF state = "selecting" THEN 1 ELSE 0)
    <3>1. CASE state = "selecting"
      BY <2>1, <3>1, SelectingStep DEF s
    <3>2. CASE state # "selecting"
      <4>1. Selecting' = Selecting
        BY <2>1, <3>2, SelectingStep
      <4> QED
        BY <1>1, <3>2, <4>1 DEF s
    <3> QED
      BY <3>1, <3>2
  <2>3. queue[c] \in Seq(Command) /\ queue' = [queue EXCEPT ![c] = Append(queue[c], command)]
    BY <1>10 DEF Type, TypeOK, Command
  <2>4. queue'[c] = Append(queue[c], command)
    BY <2>3 DEF TypeOK
  <2> DEFINE old == Count("sendFiles", queue[c])
             new == Count("sendFiles", queue'[c])
             n == IF command = "sendFiles" THEN 1 ELSE 0
  <2>5. new = old + n /\ old \in Nat /\ n \in Int
    <3>1. Count("sendFiles", Append(queue[c], command))
             = Count("sendFiles", queue[c]) + (IF command = "sendFiles" THEN 1 ELSE 0)
      BY <2>3, CountAppend
    <3>2. Count("sendFiles", queue[c]) \in Nat
      BY <2>3, CountType
    <3> QED
      BY <2>4, <3>1, <3>2
  <2>6. waiting[c] \in Nat /\ UNCHANGED <<waiting, session>>
    BY <1>10 DEF Type, TypeOK
  <2> HIDE DEF old, new, n
  <2>7. waiting'[c] + new + (IF session'[c] = "accepting" THEN 1 ELSE 0)
           = waiting[c] + old + (IF session[c] = "accepting" THEN 1 ELSE 0) + n
    BY <2>5, <2>6
  <2>8. a' = a + n
    <3>1. \A e \in Client \ {c} :
             waiting'[e] = waiting[e] /\ queue'[e] = queue[e] /\ session'[e] = session[e]
      BY <2>3, <2>6 DEF TypeOK
    <3> QED
      BY <2>5, <2>7, <3>1, AcceptorsStep DEF a, old, new
  <2> QED
    BY <1>3, <1>7, <1>10, <2>2, <2>8 DEF Type, n
<1>11. ASSUME NEW c \in Client, SendFiles(c) \/ GetFiles(c)
       PROVE  b' + d' + s' <= a' + faults'
  <2>1. CASE SendFiles(c)
    <3>1. b' = b /\ d' = d /\ faults' = faults /\ a' = a + 1 /\ s' = s + 1
      BY <1>10, <2>1 DEF SendFiles, Command, UserState
    <3> QED
      BY <1>1, <3>1
  <2>2. CASE GetFiles(c)
    <3>1. b' = b /\ d' = d /\ faults' = faults /\ a' = a + 0 /\ s' = s + 0
      BY <1>10, <2>2 DEF GetFiles, Command, UserState
    <3> QED
      BY <1>1, <3>1
  <2> QED
    BY <1>11, <2>1, <2>2
<1>12. ASSUME NEW c \in Client, Select(c)
       PROVE  b' + d' + s' <= a' + faults'
  <2>1. s' = s - 1
    BY <1>12, SelectingStep DEF Select, s, UserState
  <2>2. b' = b /\ a' = a /\ faults' = faults
    BY <1>5, <1>7, <1>12 DEF Select
  <2>3. d' = d \/ d' = d + 1
    BY <1>3, <1>9, <1>12 DEF Select
  <2> QED
    BY <1>1, <2>1, <2>2, <2>3
<1>13. ASSUME NEW k \in Conn, Dial(k)
       PROVE  b' + d' + s' <= a' + faults'
  <2>1. d' = d - 1
    BY <1>13, DialingStep DEF Dial, d, Stage
  <2>2. b' = b + 1
    BY <1>13, BacklogGrows DEF Dial, TypeOK, Backlog, Stage, b
  <2>3. s' = s /\ a' = a /\ faults' = faults
    BY <1>4, <1>5, <1>13 DEF Dial
  <2> QED
    BY <1>1, <2>1, <2>2, <2>3
<1>14. ASSUME NEW c \in Client, Exit(c)
       PROVE  b' + d' + s' <= a' + faults'
  <2>1. s' = s \/ s' = s - 1
    BY <1>14, SelectingStep DEF Exit, s, UserState
  <2>2. b' = b /\ d' = d /\ a' = a /\ faults' = faults
    BY <1>3, <1>5, <1>7, <1>14 DEF Exit
  <2> QED
    BY <1>1, <2>1, <2>2
<1>15. ASSUME NEW c \in Client, RecvSendFiles(c)
       PROVE  b' + d' + s' <= a' + faults'
  <2>1. b' = b /\ d' = d /\ s' = s /\ faults' = faults
    BY <1>3, <1>4, <1>7, <1>15 DEF RecvSendFiles
  <2>2. a' = a + 0
    <3>1. /\ queue[c] # <<>> /\ Head(queue[c]) = "sendFiles"
          /\ queue' = [queue EXCEPT ![c] = Tail(@)]
          /\ session[c] = "main" /\ session' = [session EXCEPT ![c] = "accepting"]
          /\ waiting' = waiting
      BY <1>15 DEF RecvSendFiles, Reading
    <3>2. /\ Count("sendFiles", queue[c]) = Count("sendFiles", queue'[c]) + 1
          /\ Count("sendFiles", queue'[c]) \in Nat
      BY <3>1, CommandRead
    <3>3. session'[c] = "accepting" /\ waiting[c] \in Nat
      BY <3>1 DEF TypeOK
    <3>4. waiting'[c] + Count("sendFiles", queue'[c]) + (IF session'[c] = "accepting" THEN 1 ELSE 0)
             = waiting[c] + Count("sendFiles", queue[c]) + (IF session[c] = "accepting" THEN 1 ELSE 0) + 0
      BY <3>1, <3>2, <3>3
    <3>5. \A e \in Client \ {c} :
             waiting'[e] = waiting[e] /\ queue'[e] = queue[e] /\ session'[e] = session[e]
      BY <3>1 DEF TypeOK
    <3> QED
      BY <3>4, <3>5, AcceptorsStep DEF a
  <2> QED
    BY <1>1, <2>1, <2>2
<1>16. ASSUME NEW k \in Conn, Taken(k)
       PROVE  b' = b - 1 /\ d' = d
  <2>1. /\ stage[k] = "queued" /\ stage' = [stage EXCEPT ![k] = "accepted"]
        /\ Len(backlog') = Len(backlog) - 1
    BY <1>16, TakenParts DEF TypeOK, Backlog, Stage
  <2>2. Dialing' = Dialing
    BY <2>1, DialingStep DEF Stage
  <2> QED
    BY <2>1, <2>2 DEF b, d
<1>17. ASSUME NEW c \in Client, session[c] = "accepting", session' = [session EXCEPT ![c] = "main"],
              UNCHANGED <<waiting, queue>>
       PROVE  a' = a - 1
  <2>1. session'[c] = "main" /\ waiting[c] \in Nat /\ Count("sendFiles", queue[c]) \in Nat
    BY <1>17, CountType DEF TypeOK
  <2>2. waiting'[c] + Count("sendFiles", queue'[c]) + (IF session'[c] = "accepting" THEN 1 ELSE 0)
           = waiting[c] + Count("sendFiles", queue[c]) + (IF session[c] = "accepting" THEN 1 ELSE 0) + (-1)
    BY <1>17, <2>1
  <2>3. \A e \in Client \ {c} :
           waiting'[e] = waiting[e] /\ queue'[e] = queue[e] /\ session'[e] = session[e]
    BY <1>17 DEF TypeOK
  <2>4. a' = a + (-1)
    BY <2>2, <2>3, AcceptorsStep DEF a
  <2> QED
    BY <1>1, <2>4
<1>18. ASSUME NEW c \in Client, AcceptUpload(c)
       PROVE  b' + d' + s' <= a' + faults'
  <2>1. b' = b - 1 /\ d' = d
    BY <1>16, <1>18 DEF AcceptUpload
  <2>2. a' = a - 1
    BY <1>17, <1>18 DEF AcceptUpload
  <2>3. s' = s /\ (faults' = faults \/ faults' = faults + 1)
    BY <1>4, <1>18 DEF AcceptUpload
  <2> QED
    BY <1>1, <2>1, <2>2, <2>3
<1>19. ASSUME NEW c \in Client, AcceptFails(c)
       PROVE  b' + d' + s' <= a' + faults'
  <2>1. b' = b /\ d' = d /\ s' = s /\ faults' = faults + 1
    BY <1>3, <1>4, <1>7, <1>19 DEF AcceptFails
  <2>2. a' = a \/ a' = a - 1
    BY <1>5, <1>17, <1>19 DEF AcceptFails
  <2> QED
    BY <1>1, <2>1, <2>2
<1>20. ASSUME NEW c \in Client, StartReception(c)
       PROVE  b' + d' + s' <= a' + faults'
  BY <1>3, <1>4, <1>5, <1>6, <1>7, <1>20 DEF StartReception
<1>21. ASSUME NEW c \in Client, RecvGetFiles(c)
       PROVE  b' + d' + s' <= a' + faults'
  <2>1. /\ queue[c] # <<>> /\ Head(queue[c]) = "getFiles"
        /\ queue' = [queue EXCEPT ![c] = Tail(@)]
        /\ session' = session /\ backlog' = backlog
    BY <1>21 DEF RecvGetFiles, Reading
  <2>2. /\ Count("sendFiles", queue[c]) = Count("sendFiles", queue'[c]) + 0
        /\ Count("sendFiles", queue'[c]) \in Nat
    BY <2>1, CommandRead
  <2>3. ASSUME NEW n \in {0, 1}, waiting' = [waiting EXCEPT ![c] = @ + n]
        PROVE  a' = a + n
    <3>1. waiting'[c] = waiting[c] + n /\ waiting[c] \in Nat
      BY <2>3 DEF TypeOK
    <3>2. waiting'[c] + Count("sendFiles", queue'[c]) + (IF session'[c] = "accepting" THEN 1 ELSE 0)
             = waiting[c] + Count("sendFiles", queue[c]) + (IF session[c] = "accepting" THEN 1 ELSE 0) + n
      BY <2>1, <2>2, <3>1
    <3>3. \A e \in Client \ {c} :
             waiting'[e] = waiting[e] /\ queue'[e] = queue[e] /\ session'[e] = session[e]
      BY <2>1, <2>3 DEF TypeOK
    <3> QED
      BY <3>2, <3>3, AcceptorsStep DEF a
  <2>4. \/ a' = a + 1 /\ faults' = faults
        \/ a' = a + 0 /\ faults' = faults + 1
    <3>1. CASE waiting' = [waiting EXCEPT ![c] = @ + 1] /\ faults' = faults
      BY <2>3, <3>1
    <3>2. CASE faults' = faults + 1 /\ UNCHANGED waiting
      <4>1. waiting' = [waiting EXCEPT ![c] = @ + 0]
        BY <3>2 DEF TypeOK
      <4> QED
        BY <2>3, <3>2, <4>1
    <3> QED
      BY <1>21, <3>1, <3>2 DEF RecvGetFiles
  <2>5. b' = b /\ s' = s /\ (d' = d \/ d' = d + 1)
    <3>1. CASE user[c] = "waiting"
      <4>1. NewDial(c, "download") /\ user' = [user EXCEPT ![c] = "prompt"]
        BY <1>21, <3>1 DEF RecvGetFiles
      <4>2. Selecting' = Selecting
        BY <3>1, <4>1, SelectingStep DEF UserState
      <4> QED
        BY <1>7, <1>9, <2>1, <4>1, <4>2 DEF s
    <3>2. CASE user[c] # "waiting"
      BY <1>3, <1>4, <1>7, <1>21, <2>1, <3>2 DEF RecvGetFiles
    <3> QED
      BY <3>1, <3>2
  <2> QED
    BY <1>1, <2>4, <2>5
<1>22. ASSUME NEW c \in Client, AcceptDownload(c)
       PROVE  b' + d' + s' <= a' + faults'
  <2>1. b' = b - 1 /\ d' = d
    BY <1>16, <1>22 DEF AcceptDownload
  <2>2. a' = a + (-1)
    <3>1. /\ waiting' = [waiting EXCEPT ![c] = @ - 1] /\ UNCHANGED <<queue, session>>
          /\ waiting[c] \in Nat /\ Count("sendFiles", queue[c]) \in Nat
      BY <1>22, CountType DEF AcceptDownload, TypeOK
    <3>2. waiting'[c] = waiting[c] - 1
      BY <3>1 DEF TypeOK
    <3>3. waiting'[c] + Count("sendFiles", queue'[c]) + (IF session'[c] = "accepting" THEN 1 ELSE 0)
             = waiting[c] + Count("sendFiles", queue[c]) + (IF session[c] = "accepting" THEN 1 ELSE 0) + (-1)
      BY <3>1, <3>2
    <3>4. \A e \in Client \ {c} :
             waiting'[e] = waiting[e] /\ queue'[e] = queue[e] /\ session'[e] = session[e]
      BY <3>1 DEF TypeOK
    <3> QED
      BY <3>3, <3>4, AcceptorsStep DEF a
  <2>3. s' = s /\ faults' = faults
    BY <1>4, <1>22 DEF AcceptDownload
  <2> QED
    BY <1>1, <2>1, <2>2, <2>3
<1>23. ASSUME NEW k \in Conn, Finish(k)
       PROVE  b' + d' + s' <= a' + faults'
  <2>1. Dialing' = Dialing
    BY <1>23, DialingStep DEF Finish, Stage
  <2>2. d' = d
    BY <2>1 DEF d
  <2> QED
    BY <1>4, <1>5, <1>6, <1>7, <1>23, <2>2 DEF Finish
<1>24. ASSUME NEW k \in Conn, SendFails(k)
       PROVE  b' + d' + s' <= a' + faults'
  BY <1>3, <1>4, <1>5, <1>6, <1>7, <1>24 DEF SendFails
<1>25. ASSUME NEW c \in Client, RecvEnd(c)
       PROVE  b' + d' + s' <= a' + faults'
  <2>1. /\ session[c] = "main" /\ session' = [session EXCEPT ![c] = "ended"]
        /\ UNCHANGED <<waiting, queue>>
    BY <1>25 DEF RecvEnd
  <2>2. Acceptors' = Acceptors
    BY <2>1 DEF Acceptors, Uploads, Accepting, Count, TypeOK
  <2>3. a' = a
    BY <2>2 DEF Total, a
  <2> QED
    BY <1>3, <1>4, <1>6, <1>7, <1>25, <2>3 DEF RecvEnd
<1>26. ASSUME NEW c \in Client, RecvGetFilesExit(c)
       PROVE  b' + d' + s' <= a' + faults'
  <2>1. /\ queue[c] # <<>> /\ Head(queue[c]) = "getFiles"
        /\ queue' = [queue EXCEPT ![c] = Tail(@)] /\ UNCHANGED <<session, waiting>>
    BY <1>26 DEF RecvGetFilesExit, Reading, threads
  <2>2. /\ Count("sendFiles", queue[c]) = Count("sendFiles", queue'[c]) + 0
        /\ Count("sendFiles", queue'[c]) \in Nat
    BY <2>1, CommandRead
  <2>3. waiting[c] \in Nat
    BY DEF TypeOK
  <2>4. waiting'[c] + Count("sendFiles", queue'[c]) + (IF session'[c] = "accepting" THEN 1 ELSE 0)
           = waiting[c] + Count("sendFiles", queue[c]) + (IF session[c] = "accepting" THEN 1 ELSE 0) + 0
    BY <2>1, <2>2, <2>3
  <2>5. \A e \in Client \ {c} :
           waiting'[e] = waiting[e] /\ queue'[e] = queue[e] /\ session'[e] = session[e]
    BY <2>1 DEF TypeOK
  <2>6. a' = a + 0
    BY <2>4, <2>5, AcceptorsStep DEF a
  <2> QED
    BY <1>1, <1>3, <1>4, <1>6, <1>7, <1>26, <2>6 DEF RecvGetFilesExit
<1> QED
  BY <1>8, <1>11, <1>12, <1>13, <1>14, <1>15, <1>18, <1>19, <1>20, <1>21, <1>22, <1>23, <1>24, <1>25, <1>26
  DEF Next, User, Session

LEMMA InitEnough == Init => EnoughForSelecting
<1> SUFFICES ASSUME Init PROVE EnoughForSelecting
  OBVIOUS
<1>1. Dialing = {} /\ Selecting = {} /\ Len(backlog) = 0
  BY DEF Init, Dialing, Selecting
<1>2. Total(Acceptors) \in Nat /\ faults \in Nat
  BY InitType, SidesType
<1> QED
  BY <1>1, <1>2, FS_EmptySet DEF EnoughForSelecting, Capacity

\* The invariant holds in every state the clients and the server reach.
THEOREM Invariant == Spec => []IInv
<1>1. Init => IInv
  BY InitType, InitEnough DEF IInv
<1>2. ASSUME IInv, [Next]_vars PROVE IInv'
  BY <1>2, TypeStep, EnoughStep DEF IInv
<1> QED
  BY <1>1, <1>2, PTL DEF Spec

\* Whoever calls accept, the backlog holds every queued connection once, and no
\* thread is counted that does not wait.
THEOREM TypesHold == Spec => []TypeOK
<1>1. IInv => TypeOK
  BY DEF IInv
<1> QED
  BY <1>1, Invariant, PTL

\* No connection lacks a thread to accept it but for a failure of accept or of
\* pthread_create, with any number of clients, commands and connections.
THEOREM NoConnectionIsLeft == Spec => []EnoughAcceptors
<1>1. IInv => EnoughAcceptors
  BY SidesType DEF IInv, EnoughForSelecting, EnoughAcceptors, Capacity
<1> QED
  BY <1>1, Invariant, PTL
===============================================================================
