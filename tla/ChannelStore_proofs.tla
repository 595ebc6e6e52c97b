-------------------------- MODULE ChannelStore_proofs --------------------------
(***************************************************************************)
(* Proofs, for tables of any size, any names and any number of runs of the *)
(* server, that loads, saves, kills and commands leave the table without   *)
(* gaps and the names different, and that a restart brings back what the   *)
(* last SIGINT saved.                                                      *)
(***************************************************************************)
EXTENDS ChannelStore, SequenceTheorems, TLAPS

(* The command under way.                                                  *)
LEMMA JobType ==
    ASSUME op \in Job
    PROVE  /\ op.kind \in {"idle", "copy", "count", "shift", "uncount"}
           /\ op.kind = "copy" => op.into \in Entry /\ op.name \in Name
           /\ op.kind = "count" => op.name \in Name
           /\ op.kind = "shift" => /\ op.into \in Entry
                                   /\ op \in [kind : {"shift"}, into : Entry]
BY DEF Job

LEMMA Jobs ==
    /\ Idle \in Job /\ Idle.kind = "idle"
    /\ [kind |-> "uncount"] \in Job /\ [kind |-> "uncount"].kind = "uncount"
    /\ \A n \in Name : /\ [kind |-> "count", name |-> n] \in Job
                       /\ [kind |-> "count", name |-> n].kind = "count"
    /\ \A i \in Entry : /\ [kind |-> "shift", into |-> i] \in Job
                        /\ [kind |-> "shift", into |-> i].kind = "shift"
                        /\ [kind |-> "shift", into |-> i].into = i
    /\ \A n \in Name, i \in Entry : /\ [kind |-> "copy", into |-> i, name |-> n] \in Job
                                    /\ [kind |-> "copy", into |-> i, name |-> n].kind = "copy"
                                    /\ [kind |-> "copy", into |-> i, name |-> n].into = i
                                    /\ [kind |-> "copy", into |-> i, name |-> n].name = n
BY DEF Job, Idle

\* A name that fits the format is read as it was written, and nothing is left.
LEMMA FitsFormat ==
    ASSUME NEW n \in AnyName, n \notin Odd
    PROVE  n \notin Endless /\ n \notin Spilling /\ Reread[n] = n
BY DEF Odd

LEMMA InitInv == Init => IInv
<1> SUFFICES ASSUME Init PROVE IInv
  OBVIOUS
<1>1. <<>> \in Seq(AnyName \cup {Free}) /\ Len(<<>>) = 0 /\ <<>> \in Seq(AnyName)
  OBVIOUS
<1>2. MaxChannels \in Nat \ {0} /\ 0 \in 0 .. MaxChannels /\ 1 \in 1 .. MaxChannels + 1
  BY StoreAssumption DEF StoreAssumption
<1>3. TypeOK
  <2>1. Empty \in [Entry -> AnyName \cup {Free}]
    BY DEF Empty
  <2>2. table \in [Entry -> AnyName \cup {Free}] /\ num \in 0 .. MaxChannels
    BY <1>2, <2>1 DEF Init
  <2>3. line \in 0 .. MaxChannels /\ row \in 1 .. MaxChannels + 1
    BY <1>2 DEF Init
  <2>4. Len(buffer) <= MaxChannels /\ Len(file) <= MaxChannels
    BY <1>1, <1>2 DEF Init
  <2>5. spilt \in BOOLEAN /\ frozen \in BOOLEAN /\ disturbed \in BOOLEAN
    BY DEF Init
  <2>6. phase \in {"down", "loading", "serving"} /\ save \in {"no", "saved"} \cup Saving
    BY DEF Init
  <2> QED
    BY <2>2, <2>3, <2>4, <2>5, <2>6 DEF TypeOK
<1>7. Shape
  BY <1>1, <1>2, <1>3, Jobs DEF Init, Shape
<1>4. Used = 0
  BY Jobs DEF Init, Used
<1>5. Filled /\ Layout /\ Distinct
  BY <1>4, Jobs DEF Init, Filled, Layout, Distinct, Empty, Entry
<1>6. Memory
  BY <1>1 DEF Init, Memory, Saving, SavedIs
<1> QED
  BY <1>5, <1>6, <1>7 DEF IInv

(* What a step that leaves the table alone keeps.                          *)
LEMMA TableKept ==
    ASSUME IInv, UNCHANGED <<phase, channels, loader, op>>,
           Loaded' => Loaded /\ file' = file
    PROVE  Filled' /\ Layout' /\ Distinct'
<1> USE DEF IInv, channels, loader
<1>1. Used' = Used /\ \A i \in Entry : FirstFree(i)' <=> FirstFree(i)
  BY DEF Used, FirstFree
<1>2. Filled'
  BY <1>1 DEF Filled, FirstFree
<1>3. Layout'
  BY <1>1 DEF Layout
<1>4. Distinct'
  BY <1>1 DEF Distinct
<1> QED
  BY <1>2, <1>3, <1>4

\* What a step of a command keeps: it does not come while a save that nothing
\* has disturbed is under way.
LEMMA CommandKeepsMemory ==
    ASSUME IInv, UNCHANGED <<phase, saver, file, kept>>, phase = "serving",
           disturbed => disturbed', save \in Saving /\ op.kind = "idle" => disturbed'
    PROVE  Memory'
BY DEF IInv, Memory, saver, SavedIs, Saving

LEMMA SaveInv ==
    ASSUME IInv, Interrupt \/ OpenFile \/ WriteLine \/ CloseFile \/ OpenFails
    PROVE  IInv'
<1> USE DEF IInv
<1>1. UNCHANGED <<phase, channels, loader, op>>
  BY DEF Interrupt, OpenFile, WriteLine, CloseFile, OpenFails
<1>2. Loaded' => Loaded /\ file' = file
  BY DEF Interrupt, OpenFile, WriteLine, CloseFile, OpenFails, Loaded
<1>3. Filled' /\ Layout' /\ Distinct'
  BY <1>1, <1>2, TableKept
<1>4. num \in 0 .. MaxChannels /\ MaxChannels \in Nat \ {0} /\ table \in [Entry -> AnyName \cup {Free}]
  BY StoreAssumption DEF Shape, TypeOK, StoreAssumption
<1>5. CASE Interrupt
  <2>1. frozen' \in BOOLEAN /\ (phase = "loading" => frozen')
    BY <1>5, ZenonT(30) DEF Interrupt
  <2>6. Shape'
    BY <1>1, <1>5, <2>1 DEF Interrupt, Shape, TypeOK, Saving, channels, loader
  <2>2. ASSUME ~disturbed'
        PROVE  phase = "serving" /\ op = Idle
    BY <1>5, <2>2 DEF Interrupt, Shape, TypeOK
  <2>3. /\ kept' = Listed /\ Listed \in Seq(AnyName \cup {Free}) /\ Len(Listed) = num
        /\ \A j \in 1 .. num : Listed[j] = table[j]
    <3>1. table \in Seq(AnyName \cup {Free}) /\ Len(table) = MaxChannels
      BY <1>4, IsASeq DEF Entry
    <3> QED
      BY <1>4, <1>5, <3>1, SubSeqProperties DEF Interrupt, Listed
  <2>4. ~disturbed' => kept' \in Seq(AnyName)
    <3> SUFFICES ASSUME ~disturbed' PROVE kept' \in Seq(AnyName)
      OBVIOUS
    <3>1. Used = num
      BY <2>2, Jobs DEF Used
    <3>2. \A j \in 1 .. Len(Listed) : Listed[j] \in AnyName
      BY <1>4, <2>3, <3>1 DEF Filled, Entry
    <3> QED
      BY <2>3, <3>2
  <2>5. Memory'
    BY <1>1, <1>4, <1>5, <2>2, <2>3, <2>4, Jobs DEF Interrupt, Memory, Saving, channels, Shape, TypeOK
  <2> QED
    BY <1>3, <2>5, <2>6
<1>6. CASE OpenFile
  <2>1. Shape'
    BY <1>1, <1>6 DEF OpenFile, Shape, TypeOK, Saving, channels, loader
  <2>2. Memory'
    BY <1>1, <1>6 DEF OpenFile, Memory, Saving, channels
  <2> QED
    BY <1>3, <2>1, <2>2
<1>7. CASE WriteLine
  <2>1. PICK name \in Seen(row) : buffer' = Append(buffer, name)
    BY <1>7 DEF WriteLine
  <2>2. row \in 1 .. num /\ row' = row + 1 /\ row \in Entry
    BY <1>4, <1>7 DEF WriteLine, More, Shape, TypeOK, Entry
  <2>3. name \in AnyName \cup {Free}
    BY <1>4, <2>2 DEF Seen, AnyName
  <2>4. /\ buffer' \in Seq(AnyName \cup {Free}) /\ Len(buffer') = row
        /\ buffer'[row] = name /\ \A j \in 1 .. row - 1 : buffer'[j] = buffer[j]
    BY <2>1, <2>2, <2>3 DEF Shape
  <2>5. Shape'
    BY <1>1, <1>4, <1>7, <2>2, <2>4 DEF WriteLine, Shape, TypeOK, Saving, channels, loader
  <2>6. op.kind = "idle" => name = table[row]
    BY <2>1 DEF Seen
  <2>7. Memory'
    BY <1>1, <1>4, <1>7, <2>2, <2>4, <2>6 DEF WriteLine, Memory, Saving, channels
  <2> QED
    BY <1>3, <2>5, <2>7
<1>8. CASE CloseFile
  <2>1. file = <<>> /\ buffer \in Seq(AnyName \cup {Free}) /\ save = "write"
    BY <1>8 DEF CloseFile, Shape
  <2>2. file' = buffer
    BY <1>8, <2>1 DEF CloseFile
  <2>3. Shape'
    BY <1>1, <1>4, <1>8, <2>1, <2>2 DEF CloseFile, Shape, TypeOK, Saving, channels, loader
  <2>4. ASSUME ~disturbed PROVE SavedIs(buffer)
    <3>1. row = num + 1
      BY <1>4, <1>8, <2>4 DEF CloseFile, More, Memory, Saving, Shape, TypeOK
    <3> QED
      BY <1>4, <2>1, <2>4, <3>1 DEF Memory, Saving, SavedIs, Shape
  <2>5. Memory'
    BY <1>1, <1>8, <2>1, <2>2, <2>4 DEF CloseFile, Memory, Saving, SavedIs
  <2> QED
    BY <1>3, <2>3, <2>5
<1>9. CASE OpenFails
  <2>1. Shape'
    BY <1>1, <1>9 DEF OpenFails, Shape, TypeOK, Saving, channels, loader
  <2>2. Memory'
    BY <1>9 DEF OpenFails, Memory
  <2> QED
    BY <1>3, <2>1, <2>2
<1> QED
  BY <1>5, <1>6, <1>7, <1>8, <1>9

LEMMA StopInv ==
    ASSUME IInv, Exit \/ Kill
    PROVE  IInv'
<1> USE DEF IInv
<1>1. Stop /\ (disturbed => disturbed') /\ disturbed' \in BOOLEAN
  BY DEF Exit, Kill, Shape, TypeOK
<1>2. MaxChannels \in Nat \ {0} /\ 0 \in 0 .. MaxChannels /\ 1 \in 1 .. MaxChannels + 1
  BY StoreAssumption DEF StoreAssumption
<1>3. /\ <<>> \in Seq(AnyName \cup {Free}) /\ Len(<<>>) = 0
      /\ Empty \in [Entry -> AnyName \cup {Free}] /\ Used' = 0
  BY <1>1, Jobs DEF Empty, Stop, Used
<1>4. TypeOK'
  <2>1. table' \in [Entry -> AnyName \cup {Free}] /\ num' \in 0 .. MaxChannels
    BY <1>1, <1>2, <1>3 DEF Stop
  <2>2. line' \in 0 .. MaxChannels /\ row' \in 1 .. MaxChannels + 1
    BY <1>1, <1>2 DEF Stop
  <2>3. Len(buffer') <= MaxChannels /\ Len(file') <= MaxChannels
    BY <1>1, <1>2, <1>3 DEF Stop, Shape, TypeOK
  <2>4. spilt' \in BOOLEAN /\ frozen' \in BOOLEAN /\ disturbed' \in BOOLEAN
    BY <1>1 DEF Stop
  <2>5. phase' \in {"down", "loading", "serving"} /\ save' \in {"no", "saved"} \cup Saving
    BY <1>1 DEF Stop
  <2> QED
    BY <2>1, <2>2, <2>3, <2>4, <2>5 DEF TypeOK
<1>5. Shape'
  BY <1>1, <1>3, <1>4, Jobs DEF Stop, Shape
<1>6. Filled' /\ Layout' /\ Distinct'
  BY <1>1, <1>3, Jobs DEF Stop, Filled, Layout, Distinct, Empty, Entry
<1>7. ASSUME ~disturbed' PROVE save \notin Saving
  BY <1>7 DEF Exit, Kill, Saving
<1>8. Memory'
  BY <1>1, <1>7 DEF Stop, Memory, Saving, SavedIs
<1> QED
  BY <1>5, <1>6, <1>8

LEMMA StartInv == ASSUME IInv, Start PROVE IInv'
<1> USE DEF IInv, Start
<1>1. UNCHANGED <<channels, loader, op, saver, file>>
  OBVIOUS
<1>2. Used' = Used /\ op.kind = "idle" /\ num = 0 /\ line = 0 /\ spilt = FALSE /\ Loaded' = Loaded
  BY <1>1, JobType DEF Used, channels, loader, saver, Loaded, Shape, TypeOK
<1>3. Shape'
  BY <1>1, <1>2 DEF Shape, TypeOK, channels, loader, saver
<1>4. Filled' /\ Layout' /\ Distinct'
  BY <1>1, <1>2 DEF Filled, Layout, Distinct, channels, loader
<1>5. Memory'
  BY <1>1, <1>2 DEF Shape, Memory, SavedIs, Fit, saver, channels, loader, Saving
<1> QED
  BY <1>3, <1>4, <1>5

(* load_channels.                                                          *)
\* While it loads, the save has not begun and no command is under way.
LEMMA LoadingQuiet ==
    ASSUME IInv, Loading
    PROVE  /\ save = "no" /\ op.kind = "idle" /\ Used = num
           /\ num \in 0 .. MaxChannels /\ line \in 0 .. MaxChannels /\ MaxChannels \in Nat
           /\ table \in [Entry -> AnyName \cup {Free}]
           /\ file \in Seq(AnyName \cup {Free}) /\ Len(file) \in Nat /\ Len(file) <= MaxChannels
BY StoreAssumption DEF StoreAssumption, IInv, Loading, Shape, TypeOK, Used

LEMMA LoadLineInv == ASSUME IInv, LoadLine PROVE IInv'
<1> USE DEF IInv, LoadLine, Continue
<1>1. /\ Loading /\ save = "no" /\ op.kind = "idle" /\ Used = num
      /\ num \in 0 .. MaxChannels /\ line \in 0 .. MaxChannels /\ MaxChannels \in Nat
      /\ table \in [Entry -> AnyName \cup {Free}]
      /\ file \in Seq(AnyName \cup {Free}) /\ Len(file) \in Nat /\ Len(file) <= MaxChannels
  BY LoadingQuiet
<1> DEFINE read == file[line + 1]
           name == NameRead
<1>2. read \in AnyName
  BY <1>1
<1>3. name \in AnyName /\ name # Free
  BY <1>2, StoreAssumption DEF NameRead, StoreAssumption, AnyName
<1>4. ~spilt /\ read \notin Odd => name = read /\ ~spilt'
  <2> SUFFICES ASSUME ~spilt, read \notin Odd PROVE name = read /\ ~spilt'
    OBVIOUS
  <2>1. read \notin Spilling /\ Reread[read] = read
    BY <1>2, FitsFormat
  <2>2. line # Len(file)
    BY <1>1
  <2>3. name = read
    BY <2>1, <2>2 DEF NameRead
  <2>4. ~spilt'
    BY <2>1
  <2> QED
    BY <2>3, <2>4
<1>5. num + 1 \in Entry /\ table' = [table EXCEPT ![num + 1] = name] /\ num' = num + 1
  BY <1>1 DEF Entry
<1>6. spilt' \in BOOLEAN /\ line' = line + 1 /\ line + 1 \in 1 .. Len(file)
  BY <1>1
<1> HIDE DEF name, read
<1>7. Shape'
  BY <1>1, <1>3, <1>5, <1>6 DEF Shape, TypeOK, saver, Loading
<1>8. Used' = num'
  BY <1>1 DEF Used
<1>9. Filled'
  BY <1>1, <1>3, <1>5, <1>8 DEF Filled, Entry
<1>10. Loaded' = Loaded /\ (Loaded => read \notin Odd)
  BY <1>1, <1>6 DEF saver, Loaded, read
<1>11. Layout'
  BY <1>1, <1>3, <1>4, <1>5, <1>6, <1>8, <1>10 DEF Layout, Entry, Loading
<1>12. Distinct'
  <2> SUFFICES ASSUME Loaded, IsInjective(file)
        PROVE  Distinct'
    BY <1>10 DEF Distinct
  <2>1. line = num /\ ~spilt /\ name = file[num + 1]
    BY <1>1, <1>4, <1>10 DEF Layout, Loading, read
  <2>2. \A i \in 1 .. num : table[i] = file[i]
    BY <1>1 DEF Distinct, Loading
  <2>3. \A i \in 1 .. num + 1 : table'[i] = file[i]
    BY <1>1, <1>5, <2>1, <2>2 DEF Entry
  <2>4. \A i, j \in 1 .. num + 1 : i # j => file[i] # file[j]
    BY <1>1, <1>6, <2>1 DEF IsInjective
  <2> QED
    BY <1>1, <1>5, <1>8, <2>3, <2>4 DEF Distinct
<1>13. Memory'
  <2> SUFFICES ASSUME ~disturbed PROVE Memory'
    BY DEF Memory
  <2>1. kept \in Seq(AnyName) /\ Len(kept) = Len(file) /\ \A j \in 1 .. Len(kept) : kept[j] = file[j]
    BY <1>1 DEF Memory, Saving, SavedIs
  <2>2. Fit(line + 1) => /\ Fit(line) /\ read \notin Odd /\ read = kept[line + 1]
    BY <1>1, <1>6, <2>1 DEF Fit, read
  <2>3. ASSUME NEW i \in 0 .. Len(kept), i <= line + 1, Fit(i)
        PROVE  /\ i <= num + 1
               /\ i > 0 => table'[i] = kept[i]
               /\ i = line + 1 => i = num + 1 /\ ~spilt'
    <3>1. CASE i <= line
      BY <1>1, <1>5, <1>6, <2>3, <3>1 DEF Memory, Loading, Entry
    <3>2. CASE i = line + 1
      <4>1. line \in 0 .. Len(kept) /\ line = num /\ ~spilt
        BY <1>1, <1>6, <2>1, <2>2, <2>3, <3>2 DEF Memory, Loading
      <4> QED
        BY <1>1, <1>4, <1>5, <2>2, <2>3, <3>2, <4>1 DEF Entry
    <3> QED
      BY <1>1, <2>3, <3>1, <3>2
  <2>4. Fit(0)' = Fit(0) /\ \A i \in 0 .. Len(kept) : Fit(i)' = Fit(i)
    BY DEF Fit
  <2>5. UNCHANGED <<save, file, kept, phase, disturbed>>
    BY DEF saver
  <2> QED
    BY <1>1, <1>5, <1>6, <2>1, <2>3, <2>4, <2>5 DEF Memory, SavedIs, Saving
<1> QED
  BY <1>7, <1>9, <1>11, <1>12, <1>13

LEMMA LoadEndInv == ASSUME IInv, LoadPart \/ LoadDone PROVE IInv'
<1> USE DEF IInv, EndLoad
<1>1. /\ Loading /\ save = "no" /\ op.kind = "idle" /\ Used = num
      /\ num \in 0 .. MaxChannels /\ line \in 0 .. MaxChannels /\ MaxChannels \in Nat
      /\ table \in [Entry -> AnyName \cup {Free}]
      /\ file \in Seq(AnyName \cup {Free}) /\ Len(file) \in Nat /\ Len(file) <= MaxChannels
  BY LoadingQuiet DEF LoadPart, LoadDone
<1>2. UNCHANGED <<num, op, saver, file, kept, disturbed>> /\ EndLoad
  BY DEF LoadPart, LoadDone, channels
<1>3. /\ table' \in [Entry -> AnyName \cup {Free}]
      /\ \A i \in 1 .. num : table'[i] = table[i]
      /\ table' = table \/ LoadPart
  <2>1. CASE LoadDone
    BY <1>1, <2>1 DEF LoadDone, channels
  <2>2. CASE LoadPart
    <3>1. NameRead \in AnyName \cup {Free}
      <4>1. CASE spilt \/ line = Len(file)
        BY <4>1 DEF NameRead, AnyName
      <4>2. CASE ~spilt /\ line # Len(file)
        <5>1. line < Len(file) /\ file[line + 1] \in Endless
          BY <2>2, <4>2 DEF LoadPart, Part
        <5>2. file[line + 1] \in AnyName
          BY <5>1, StoreAssumption DEF StoreAssumption, AnyName
        <5> QED
          BY <4>2, <5>2, StoreAssumption DEF NameRead, StoreAssumption
      <4> QED
        BY <4>1, <4>2
    <3>2. table' = [table EXCEPT ![num + 1] = NameRead]
      BY <2>2 DEF LoadPart
    <3> QED
      BY <1>1, <2>2, <3>1, <3>2 DEF Entry, LoadPart
  <2> QED
    BY <2>1, <2>2
<1>4. Shape'
  <2>1. TypeOK'
    <3>1. line' = 0 /\ spilt' = FALSE /\ phase' = "serving" /\ 0 \in 0 .. MaxChannels
      BY <1>1, <1>2
    <3> HIDE DEF EndLoad
    <3> QED
      BY <1>1, <1>2, <1>3, <3>1 DEF Shape, TypeOK, saver
  <2> QED
    BY <1>1, <1>2, <2>1 DEF Shape, saver
<1>5. Used' = num'
  BY <1>1, <1>2 DEF Used
<1>6. Filled'
  BY <1>1, <1>2, <1>3, <1>5 DEF Filled
<1>7. Loaded' = Loaded
  BY <1>2 DEF Loaded, saver
<1>8. Loaded => table' = table
  <2> SUFFICES ASSUME Loaded, LoadPart PROVE FALSE
    BY <1>3
  <2>1. ~spilt
    BY <1>1 DEF Layout, Loading
  <2>2. line < Len(file) /\ file[line + 1] \in Endless
    BY <2>1 DEF LoadPart, Part
  <2> QED
    BY <1>1, <2>2 DEF Loaded, Odd
<1>9. Layout'
  BY <1>1, <1>2, <1>5, <1>7, <1>8 DEF Layout
<1>10. Distinct'
  BY <1>1, <1>2, <1>5, <1>7, <1>8 DEF Distinct
<1>11. Memory'
  BY <1>1, <1>2 DEF Memory, SavedIs, Saving, saver
<1> QED
  BY <1>4, <1>6, <1>9, <1>10, <1>11

(* The commands.                                                           *)
\* What a command finds when it begins, and leaves alone then.
LEMMA BeginFacts ==
    ASSUME IInv, NEW o, Begin(o)
    PROVE  /\ op' = o /\ op.kind = "idle" /\ Used = num /\ phase = "serving"
           /\ UNCHANGED <<phase, channels, loader, saver, file, kept>>
           /\ Loaded' = Loaded /\ Memory' /\ disturbed' \in BOOLEAN
           /\ num \in 0 .. MaxChannels /\ MaxChannels \in Nat
<1>1. op' = o /\ op.kind = "idle" /\ phase = "serving"
  BY Jobs DEF Begin
<1>2. UNCHANGED <<phase, channels, loader, saver, file, kept>>
  BY DEF Begin
<1>3. Loaded' = Loaded
  BY <1>2 DEF Loaded, saver
<1>4. disturbed' = (disturbed \/ save \in Saving)
  BY DEF Begin
<1>5. Memory'
  BY <1>1, <1>2, <1>4, CommandKeepsMemory
<1> QED
  BY <1>1, <1>2, <1>3, <1>4, <1>5, StoreAssumption
     DEF IInv, Shape, TypeOK, Used, StoreAssumption

LEMMA CreateInv == ASSUME IInv, NEW n \in Name, Create(n) PROVE IInv'
<1> USE DEF IInv
<1>1. PICK i \in Entry, r \in Stored[n] :
         FirstFree(i) /\ Begin([kind |-> "copy", into |-> i, name |-> r])
  BY DEF Create
<1>9. r \in Name /\ (r \in Long \/ r = n)
  BY StoreAssumption DEF StoreAssumption
<1>2. /\ op'.kind = "copy" /\ op'.into = i /\ op'.name = r /\ op' \in Job
      /\ op.kind = "idle" /\ Used = num /\ phase = "serving"
      /\ UNCHANGED <<phase, channels, loader, saver, file, kept>>
      /\ Loaded' = Loaded /\ Memory' /\ disturbed' \in BOOLEAN
      /\ num \in 0 .. MaxChannels /\ MaxChannels \in Nat
  BY <1>9, <1>1, BeginFacts, Jobs
<1>3. num # MaxChannels /\ \A j \in Entry : table[j] # n
  BY DEF Create
<1>4. Shape'
  BY <1>2, <1>3 DEF Shape, TypeOK, channels, loader, saver
<1>5. Used' = num
  BY <1>2 DEF Used, channels
<1>6. Filled'
  BY <1>1, <1>2, <1>5 DEF Filled, channels, FirstFree
<1>7. Layout'
  BY <1>2, <1>5 DEF Layout, channels
<1>8. Distinct'
  BY <1>9, <1>2, <1>3, <1>5 DEF Distinct, channels
<1> QED
  BY <1>2, <1>4, <1>6, <1>7, <1>8

LEMMA DeleteInv == ASSUME IInv, NEW n \in Name, Delete(n) PROVE IInv'
<1> USE DEF IInv
<1>1. PICK i \in 1 .. num : Begin([kind |-> "shift", into |-> i])
  BY DEF Delete
<1>2. num \in 0 .. MaxChannels /\ MaxChannels \in Nat
  BY <1>1, BeginFacts
<1>3. i \in Entry /\ i <= num
  BY <1>2 DEF Entry
<1>4. /\ op'.kind = "shift" /\ op'.into = i /\ op' \in Job
      /\ op.kind = "idle" /\ Used = num /\ phase = "serving"
      /\ UNCHANGED <<phase, channels, loader, saver, file, kept>>
      /\ Loaded' = Loaded /\ Memory' /\ disturbed' \in BOOLEAN
  BY <1>1, <1>3, BeginFacts, Jobs
<1>5. Shape'
  BY <1>2, <1>3, <1>4 DEF Shape, TypeOK, channels, loader, saver
<1>6. Used' = num
  BY <1>4 DEF Used, channels
<1>7. Filled'
  BY <1>4, <1>6 DEF Filled, channels
<1>8. Layout'
  BY <1>4, <1>6 DEF Layout, channels
<1>9. Distinct'
  BY <1>4, <1>6 DEF Distinct, channels
<1> QED
  BY <1>4, <1>5, <1>7, <1>8, <1>9

\* What the steps of a command that has begun leave alone.
LEMMA BusyFacts ==
    ASSUME IInv, Copy \/ Count \/ Shift \/ Clear \/ Uncount
    PROVE  /\ phase = "serving" /\ op.kind # "idle" /\ op \in Job
           /\ UNCHANGED <<phase, loader, saver, file, kept, disturbed>>
           /\ Loaded' = Loaded /\ Memory'
           /\ num \in 0 .. MaxChannels /\ MaxChannels \in Nat
           /\ table \in [Entry -> AnyName \cup {Free}]
<1>1. phase = "serving" /\ op.kind # "idle"
  BY DEF Copy, Count, Shift, Clear, Uncount, Busy
<1>2. UNCHANGED <<phase, loader, saver, file, kept, disturbed>>
  BY DEF Copy, Count, Shift, Clear, Uncount
<1>3. Loaded' = Loaded
  BY <1>2 DEF Loaded, saver
<1>4. Memory'
  BY <1>1, <1>2, CommandKeepsMemory
<1> QED
  BY <1>1, <1>2, <1>3, <1>4, StoreAssumption DEF IInv, Shape, TypeOK, StoreAssumption

LEMMA CopyInv == ASSUME IInv, Copy PROVE IInv'
<1> USE DEF IInv
<1>1. /\ phase = "serving" /\ op.kind = "copy" /\ op \in Job
      /\ UNCHANGED <<phase, loader, saver, file, kept, disturbed>>
      /\ Loaded' = Loaded /\ Memory'
      /\ num \in 0 .. MaxChannels /\ MaxChannels \in Nat
      /\ table \in [Entry -> AnyName \cup {Free}]
  BY BusyFacts DEF Copy, Busy
<1> DEFINE i == op.into
           n == op.name
<1>2. i \in Entry /\ n \in Name /\ n \in AnyName /\ n # Free
  BY <1>1, JobType, StoreAssumption DEF StoreAssumption, AnyName
<1>3. /\ table' = [table EXCEPT ![i] = n] /\ num' = num
      /\ op'.kind = "count" /\ op' \in Job
  BY <1>2, Jobs DEF Copy
<1>4. Used = num /\ Used' = num + 1 /\ num < MaxChannels
  BY <1>1, <1>3 DEF Used, Shape
<1>5. table[i] = Free /\ (\A j \in 1 .. i - 1 : table[j] # Free) /\ i > num
  BY <1>1, <1>2, <1>4 DEF Filled, FirstFree, Entry
<1> HIDE DEF i, n
<1>6. Shape'
  BY <1>1, <1>2, <1>3, <1>4 DEF Shape, TypeOK, loader, saver
<1>7. Filled'
  BY <1>1, <1>2, <1>3, <1>4, <1>5 DEF Filled, Entry
<1>8. Loaded => i = num + 1
  BY <1>1, <1>2, <1>4, <1>5 DEF Layout, Entry
<1>9. Layout'
  BY <1>1, <1>2, <1>3, <1>4, <1>8 DEF Layout, Entry
<1>10. Distinct'
  <2> SUFFICES ASSUME Loaded, IsInjective(file) PROVE Distinct'
    BY <1>1 DEF Distinct
  <2>1. n \in Long \/ \A j \in Entry : table[j] # n
    BY <1>1 DEF Distinct, n
  <2>2. \A j, k \in 1 .. num : j # k => table[j] # table[k] \/ table[j] \in Long
    BY <1>1, <1>4 DEF Distinct
  <2> QED
    BY <1>1, <1>2, <1>3, <1>4, <1>8, <2>1, <2>2 DEF Distinct, Entry
<1> QED
  BY <1>1, <1>6, <1>7, <1>9, <1>10

LEMMA CountInv == ASSUME IInv, Count PROVE IInv'
<1> USE DEF IInv
<1>1. /\ phase = "serving" /\ op.kind = "count"
      /\ UNCHANGED <<phase, loader, saver, file, kept, disturbed>>
      /\ Loaded' = Loaded /\ Memory'
      /\ num \in 0 .. MaxChannels /\ MaxChannels \in Nat
  BY BusyFacts DEF Count, Busy
<1>2. table' = table /\ num' = num + 1 /\ op'.kind = "idle" /\ op' \in Job
  BY Jobs DEF Count
<1>3. Used = num + 1 /\ Used' = num + 1 /\ num < MaxChannels
  BY <1>1, <1>2 DEF Used, Shape
<1>4. Shape'
  BY <1>1, <1>2, <1>3 DEF Shape, TypeOK, loader, saver
<1>5. Filled' /\ Layout' /\ Distinct'
  BY <1>1, <1>2, <1>3 DEF Filled, Layout, Distinct
<1> QED
  BY <1>1, <1>4, <1>5

LEMMA ShiftInv == ASSUME IInv, Shift PROVE IInv'
<1> USE DEF IInv
<1>1. /\ phase = "serving" /\ op.kind = "shift" /\ op \in Job
      /\ UNCHANGED <<phase, loader, saver, file, kept, disturbed>>
      /\ Loaded' = Loaded /\ Memory'
      /\ num \in 0 .. MaxChannels /\ MaxChannels \in Nat
      /\ table \in [Entry -> AnyName \cup {Free}]
  BY BusyFacts DEF Shift, Busy
<1> DEFINE i == op.into
<1>2. i \in Entry /\ i < num /\ i + 1 \in Entry
  BY <1>1, JobType DEF Shift, Entry
<1>3. /\ table' = [table EXCEPT ![i] = table[i + 1]] /\ num' = num
      /\ op'.kind = "shift" /\ op'.into = i + 1 /\ op' \in Job
  <2>1. op \in [kind : {"shift"}, into : Entry]
    BY <1>1, JobType
  <2>2. op' = [op EXCEPT !.into = op.into + 1]
    BY DEF Shift
  <2>3. op' = [kind |-> "shift", into |-> i + 1]
    BY <2>1, <2>2
  <2>4. op'.kind = "shift" /\ op'.into = i + 1
    BY <2>3
  <2>5. op' \in Job
    BY <1>2, <2>3, Jobs
  <2>6. table' = [table EXCEPT ![i] = table[i + 1]] /\ num' = num
    BY DEF Shift
  <2> QED
    BY <2>4, <2>5, <2>6
<1>4. Used = num /\ Used' = num
  BY <1>1, <1>3 DEF Used
<1> HIDE DEF i
<1>5. Shape'
  BY <1>1, <1>2, <1>3 DEF Shape, TypeOK, loader, saver
<1>6. \A j \in Entry : table'[j] = IF j = i THEN table[i + 1] ELSE table[j]
  BY <1>1, <1>3
<1>7. Filled'
  BY <1>1, <1>2, <1>3, <1>4, <1>6 DEF Filled, Entry
<1>8. Layout'
  BY <1>1, <1>2, <1>3, <1>4, <1>6 DEF Layout, Entry
<1>9. Distinct'
  <2> SUFFICES ASSUME Loaded, IsInjective(file) PROVE Distinct'
    BY <1>1 DEF Distinct
  <2>1. \A j, k \in 1 .. num : j # k /\ i \notin {j, k} => table[j] # table[k] \/ table[j] \in Long
    BY <1>1, <1>4 DEF Distinct, i
  <2>2. \A j, k \in 1 .. num : j # k /\ i + 1 \notin {j, k} => table'[j] # table'[k] \/ table'[j] \in Long
    BY <1>1, <1>2, <1>6, <2>1 DEF Entry
  <2> QED
    BY <1>1, <1>3, <1>4, <2>2 DEF Distinct
<1> QED
  BY <1>1, <1>5, <1>7, <1>8, <1>9

LEMMA ClearInv == ASSUME IInv, Clear PROVE IInv'
<1> USE DEF IInv
<1>1. /\ phase = "serving" /\ op.kind = "shift" /\ op.into = num /\ op \in Job
      /\ UNCHANGED <<phase, loader, saver, file, kept, disturbed>>
      /\ Loaded' = Loaded /\ Memory'
      /\ num \in 0 .. MaxChannels /\ MaxChannels \in Nat
      /\ table \in [Entry -> AnyName \cup {Free}]
  BY BusyFacts DEF Clear, Busy
<1>2. num \in Entry /\ num > 0
  BY <1>1, JobType DEF Entry
<1>3. /\ table' = [table EXCEPT ![num] = Free] /\ num' = num
      /\ op'.kind = "uncount" /\ op' \in Job
  BY Jobs DEF Clear
<1>4. Used = num /\ Used' = num - 1
  BY <1>1, <1>3 DEF Used
<1>5. Shape'
  BY <1>1, <1>2, <1>3 DEF Shape, TypeOK, loader, saver
<1>6. \A j \in Entry : table'[j] = IF j = num THEN Free ELSE table[j]
  BY <1>1, <1>3
<1>7. Filled'
  BY <1>1, <1>2, <1>3, <1>4, <1>6 DEF Filled, Entry
<1>8. Layout'
  BY <1>1, <1>2, <1>3, <1>4, <1>6 DEF Layout, Entry
<1>9. Distinct'
  <2> SUFFICES ASSUME Loaded, IsInjective(file) PROVE Distinct'
    BY <1>1 DEF Distinct
  <2>1. \A j, k \in 1 .. num : j # k /\ num \notin {j, k} => table[j] # table[k] \/ table[j] \in Long
    BY <1>1, <1>4 DEF Distinct
  <2> QED
    BY <1>1, <1>2, <1>3, <1>4, <1>6, <2>1 DEF Distinct, Entry
<1> QED
  BY <1>1, <1>5, <1>7, <1>8, <1>9

LEMMA UncountInv == ASSUME IInv, Uncount PROVE IInv'
<1> USE DEF IInv
<1>1. /\ phase = "serving" /\ op.kind = "uncount"
      /\ UNCHANGED <<phase, loader, saver, file, kept, disturbed>>
      /\ Loaded' = Loaded /\ Memory'
      /\ num \in 0 .. MaxChannels /\ MaxChannels \in Nat
  BY BusyFacts DEF Uncount, Busy
<1>2. table' = table /\ num' = num - 1 /\ op'.kind = "idle" /\ op' \in Job
  BY Jobs DEF Uncount
<1>3. Used = num - 1 /\ Used' = num - 1 /\ num > 0
  BY <1>1, <1>2 DEF Used, Shape
<1>4. Shape'
  BY <1>1, <1>2, <1>3 DEF Shape, TypeOK, loader, saver
<1>5. Filled' /\ Layout' /\ Distinct'
  BY <1>1, <1>2, <1>3 DEF Filled, Layout, Distinct
<1> QED
  BY <1>1, <1>4, <1>5

LEMMA NextInv == IInv /\ [Next]_vars => IInv'
<1> SUFFICES ASSUME IInv, [Next]_vars PROVE IInv'
  OBVIOUS
<1>1. CASE UNCHANGED vars
  <2>1. Filled' /\ Layout' /\ Distinct'
    BY <1>1, TableKept DEF vars, saver, Loaded
  <2>2. Shape' /\ Memory'
    BY <1>1 DEF IInv, vars, channels, loader, saver, Shape, TypeOK, Memory, SavedIs, Fit
  <2> QED
    BY <2>1, <2>2 DEF IInv
<1>2. CASE Load
  BY <1>2, LoadLineInv, LoadEndInv DEF Load
<1>3. CASE Command
  BY <1>3, CreateInv, DeleteInv, CopyInv, CountInv, ShiftInv, ClearInv, UncountInv DEF Command
<1>4. CASE Start \/ Exit \/ Kill
  BY <1>4, StartInv, StopInv
<1>5. CASE Interrupt \/ Save \/ OpenFails
  BY <1>5, SaveInv DEF Save
<1> QED
  BY <1>1, <1>2, <1>3, <1>4, <1>5 DEF Next

\* The invariant holds in every state the program reaches.
THEOREM Invariant == Spec => []IInv
<1> QED
  BY InitInv, NextInv, PTL DEF Spec

\* In a run of the server whose file fits its format the channels are the first
\* num_channels entries of the table between two commands (channel.c:21-33, 99,
\* 154), whatever became of earlier runs.
THEOREM TableContiguous == Spec => []StoreContiguous
<1>1. IInv => StoreContiguous
  BY Jobs DEF IInv, StoreContiguous, Shape, Layout, Used
<1> QED
  BY <1>1, Invariant, PTL

\* If the file's names are different too, so are those of the table, but for
\* the ones that do not fit in name[50].
THEOREM NamesUnique == Spec => []StoreUnique
<1>1. ASSUME IInv, Loaded, op = Idle, IsInjective(file),
             NEW i \in 1 .. num, NEW j \in 1 .. num, table[i] = table[j]
      PROVE  i = j \/ table[i] \in Long
  <2>1. Used = num /\ op.kind = "idle"
    BY <1>1, Jobs DEF Used
  <2> QED
    BY <1>1, <2>1 DEF IInv, Distinct
<1>2. IInv => StoreUnique
  BY <1>1 DEF StoreUnique
<1> QED
  BY <1>2, Invariant, PTL

\* load_channels brings back what save_channels wrote (channel.c:49-88), up to
\* the first channel that does not fit the format of the file.
THEOREM RestartKeepsSaved == Spec => RestartKeepsPrefix
<1>1. ASSUME IInv, Load, phase' = "serving", ~disturbed,
             NEW i \in 1 .. Len(kept), \A j \in 1 .. i : kept[j] \notin Odd
      PROVE  i <= num' /\ table'[i] = kept[i]
  <2>1. Loading
    BY <1>1 DEF Load, LoadLine, LoadPart, LoadDone
  <2>2. /\ save = "no"
        /\ num \in 0 .. MaxChannels /\ line \in 0 .. MaxChannels /\ MaxChannels \in Nat
        /\ table \in [Entry -> AnyName \cup {Free}]
        /\ file \in Seq(AnyName \cup {Free}) /\ Len(file) \in Nat /\ Len(file) <= MaxChannels
    BY <1>1, <2>1, LoadingQuiet
  <2>3. /\ kept \in Seq(AnyName) /\ Len(kept) = Len(file)
        /\ \A j \in 1 .. Len(kept) : kept[j] = file[j]
    BY <1>1, <2>2 DEF IInv, Memory, Saving, SavedIs
  <2>4. i <= line
    <3> SUFFICES ASSUME i > line PROVE FALSE
      BY <2>2
    <3>1. line \in 0 .. Len(kept) /\ Fit(line) /\ kept[line + 1] \notin Odd /\ line < Len(file)
      BY <1>1, <2>2, <2>3 DEF Fit
    <3>2. line = num /\ ~spilt
      BY <1>1, <2>1, <3>1 DEF IInv, Memory, Loading
    <3>3. file[line + 1] = kept[line + 1] /\ kept[line + 1] \in AnyName
      BY <2>3, <3>1
    <3>4. file[line + 1] # Free /\ file[line + 1] \notin Endless
      BY <3>1, <3>3, StoreAssumption DEF Odd, StoreAssumption
    <3>5. ~LoadLine
      BY <1>1, <2>1 DEF LoadLine, Continue, Loading
    <3> QED
      BY <1>1, <2>2, <3>1, <3>2, <3>4, <3>5 DEF Load, LoadPart, LoadDone, Part, NoMore
  <2>5. i <= num /\ table[i] = kept[i]
    BY <1>1, <2>1, <2>4 DEF IInv, Memory, Loading, Fit
  <2>6. ~LoadLine
    BY <1>1, <2>1 DEF LoadLine, Continue, Loading
  <2> QED
    BY <1>1, <2>2, <2>5, <2>6 DEF Load, LoadPart, LoadDone, channels, Entry
<1>2. IInv /\ [Next]_vars =>
        [Load /\ phase' = "serving" /\ ~disturbed =>
            \A i \in 1 .. Len(kept) :
               (\A j \in 1 .. i : kept[j] \notin Odd) => i <= num' /\ table'[i] = kept[i]]_vars
  BY <1>1
<1> QED
  BY <1>2, Invariant, PTL DEF Spec, RestartKeepsPrefix
===============================================================================
