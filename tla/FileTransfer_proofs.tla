-------------------------- MODULE FileTransfer_proofs --------------------------
(***************************************************************************)
(* Proofs, for any number of files of any size, that two ends in step      *)
(* deliver every file that is acknowledged, harm nothing else, and that    *)
(* the sender is never ahead of the receiver.                              *)
(***************************************************************************)
EXTENDS FileTransfer, SequenceTheorems, TLAPS

Base == TypeOK /\ InLoop
Behind ==
    /\ at > 1 => closes > 0
    /\ ~ReceiverGone => at - 1 <= closes
    /\ ~SenderGone /\ (answers > 0 \/ ~ReceiverGone) => at - 1 + answers <= closes

LEMMA ItemType ==
    ASSUME NEW i \in Name, NEW n \in 0 .. MaxCells,
           NEW kind \in {"READY", "END", "name", "size", "data", "scrap", "old"}
    PROVE  Item(kind, i, n) \in Cell
BY DEF Item, Cell

LEMMA ItemParts ==
    ASSUME NEW kind, NEW i, NEW n
    PROVE  Item(kind, i, n).kind = kind /\ Item(kind, i, n).file = i /\ Item(kind, i, n).at = n
BY DEF Item

\* What a file holds after a piece was written at offset.
LEMMA WrittenProperties ==
    ASSUME NEW old \in Seq(Cell), NEW cells \in Seq(Cell), offset \in 0 .. Len(old)
    PROVE  /\ Written(old, cells) \in Seq(Cell)
           /\ Len(Written(old, cells)) >= offset + Len(cells)
           /\ \A j \in 1 .. offset : Written(old, cells)[j] = old[j]
           /\ \A j \in 1 .. Len(cells) : Written(old, cells)[offset + j] = cells[j]
<1> DEFINE left == SubSeq(old, 1, offset)
           right == SubSeq(old, offset + Len(cells) + 1, Len(old))
           new == left \o cells
<1>1. Len(old) \in Nat /\ Len(cells) \in Nat /\ offset \in Nat
  BY LenProperties
<1>2. /\ left \in Seq(Cell) /\ Len(left) = offset
      /\ \A j \in 1 .. offset : left[j] = old[j]
  <2>1. \A j \in 1 .. offset : old[j] \in Cell
    BY <1>1
  <2> QED
    BY <1>1, <2>1, SubSeqProperties
<1>3. right \in Seq(Cell) /\ Len(right) \in Nat
  <2>1. \A j \in offset + Len(cells) + 1 .. Len(old) : old[j] \in Cell
    BY <1>1
  <2> QED
    BY <1>1, <2>1, SubSeqProperties, LenProperties
<1> HIDE DEF left, right
<1>4. /\ new \in Seq(Cell) /\ Len(new) = offset + Len(cells)
      /\ \A j \in 1 .. offset : new[j] = old[j]
      /\ \A j \in 1 .. Len(cells) : new[offset + j] = cells[j]
  <2>1. /\ new \in Seq(Cell) /\ Len(new) = offset + Len(cells)
        /\ \A j \in 1 .. offset + Len(cells) :
              new[j] = IF j <= offset THEN left[j] ELSE cells[j - offset]
    BY <1>1, <1>2, ConcatProperties
  <2> HIDE DEF new
  <2>2. ASSUME NEW j \in 1 .. Len(cells) PROVE new[offset + j] = cells[j]
    <3>1. offset + j \in 1 .. offset + Len(cells) /\ ~(offset + j <= offset) /\ (offset + j) - offset = j
      BY <1>1
    <3> QED
      BY <2>1, <3>1
  <2> QED
    BY <1>1, <1>2, <2>1, <2>2
<1>5. Written(old, cells) = new \o right
  BY DEF Written, left, right
<1> HIDE DEF new
<1>6. /\ new \o right \in Seq(Cell) /\ Len(new \o right) = Len(new) + Len(right)
      /\ \A j \in 1 .. Len(new) : (new \o right)[j] = new[j]
  <2> DEFINE all == new \o right
  <2>1. /\ all \in Seq(Cell) /\ Len(all) = Len(new) + Len(right)
        /\ \A j \in 1 .. Len(new) + Len(right) :
              all[j] = IF j <= Len(new) THEN new[j] ELSE right[j - Len(new)]
    BY <1>3, <1>4, ConcatProperties
  <2> HIDE DEF all
  <2>2. \A j \in 1 .. Len(new) : j \in 1 .. Len(new) + Len(right) /\ j <= Len(new)
    BY <1>1, <1>3, <1>4
  <2>3. \A j \in 1 .. Len(new) : all[j] = new[j]
    BY <2>1, <2>2
  <2> QED
    BY <2>1, <2>3 DEF all
<1> QED
  BY <1>1, <1>3, <1>4, <1>5, <1>6

\* The first k cells are taken.
LEMMA TakeProperties ==
    ASSUME wire \in Seq(Cell), NEW k \in 1 .. Len(wire)
    PROVE  /\ SubSeq(wire, k + 1, Len(wire)) \in Seq(Cell)
           /\ Len(SubSeq(wire, k + 1, Len(wire))) = Len(wire) - k
           /\ \A j \in 1 .. Len(wire) - k : SubSeq(wire, k + 1, Len(wire))[j] = wire[k + j]
           /\ SubSeq(wire, 1, k) \in Seq(Cell) /\ Len(SubSeq(wire, 1, k)) = k
           /\ \A j \in 1 .. k : SubSeq(wire, 1, k)[j] = wire[j]
           /\ wire[1] \in Cell /\ Len(wire) \in Nat
<1>1. Len(wire) \in Nat
  BY LenProperties
<1>2. \A j \in 1 .. Len(wire) : wire[j] \in Cell
  OBVIOUS
<1>3. /\ SubSeq(wire, k + 1, Len(wire)) \in Seq(Cell)
      /\ Len(SubSeq(wire, k + 1, Len(wire))) = Len(wire) - k
      /\ \A j \in 1 .. Len(wire) - k : SubSeq(wire, k + 1, Len(wire))[j] = wire[k + j]
  <2>1. \A j \in k + 1 .. Len(wire) : wire[j] \in Cell
    BY <1>1, <1>2
  <2>2. /\ SubSeq(wire, k + 1, Len(wire)) \in Seq(Cell)
        /\ Len(SubSeq(wire, k + 1, Len(wire))) = IF k + 1 <= Len(wire) THEN Len(wire) - (k + 1) + 1 ELSE 0
        /\ \A j \in 1 .. Len(wire) - (k + 1) + 1 : SubSeq(wire, k + 1, Len(wire))[j] = wire[(k + 1) + j - 1]
    BY <1>1, <2>1, SubSeqProperties
  <2>3. Len(wire) - (k + 1) + 1 = Len(wire) - k /\ \A j \in 1 .. Len(wire) - k : (k + 1) + j - 1 = k + j
    BY <1>1
  <2> HIDE DEF Cell
  <2>4. Len(SubSeq(wire, k + 1, Len(wire))) = Len(wire) - k
    BY <1>1, <2>2
  <2>5. \A j \in 1 .. Len(wire) - k : SubSeq(wire, k + 1, Len(wire))[j] = wire[k + j]
    BY <2>2, <2>3
  <2> QED
    BY <2>2, <2>4, <2>5
<1>4. /\ SubSeq(wire, 1, k) \in Seq(Cell) /\ Len(SubSeq(wire, 1, k)) = k
      /\ \A j \in 1 .. k : SubSeq(wire, 1, k)[j] = wire[j]
  <2>1. \A j \in 1 .. k : wire[j] \in Cell
    BY <1>1, <1>2
  <2> QED
    BY <1>1, <2>1, SubSeqProperties
<1> QED
  BY <1>1, <1>2, <1>3, <1>4
-------------------------------------------------------------------------------
(* Types and places.                                                       *)
LEMMA SenderBase ==
    ASSUME IInv, SenderStep \/ OpenSourceFails \/ FileGrows \/ SenderKilled
    PROVE  Base' /\ Behind'
<1> USE DEF IInv, NotAhead, Base, Behind
<1>1. /\ MaxCells \in Nat /\ MaxFiles \in Nat /\ Len(files) \in 0 .. MaxFiles
      /\ at \in 1 .. Len(files) + 1 /\ answers \in Nat /\ closes \in Nat
      /\ \A i \in 1 .. Len(files) : files[i] \in 0 .. MaxCells
  BY TransferAssumption DEF TransferAssumption, TypeOK, InLoop
<1>2. UNCHANGED <<receiver, receiving, held, remaining, open, offset, disk, closes>>
  BY DEF SenderStep, SendHello, SendName, SendSize, SendData, AllSent, RecvReady, RecvReadyEnd,
         SendEnd, OpenSourceFails, FileGrows, SenderKilled, SenderOnly, target
<1>3. ASSUME NEW cell \in Cell PROVE Append(wire, cell) \in Seq(Cell)
  BY <1>3 DEF InLoop
<1>4. ASSUME NEW cell \in Cell, NEW next \in {"hello", "name", "size", "data", "wait", "end", "done"},
             Send(cell, next)
      PROVE  wire' \in Seq(Cell) /\ sending' \in {next, "dead"}
             /\ (sending' = "dead" => ReceiverGone)
  BY <1>3, <1>4 DEF Send, InLoop
<1>5. \A i \in Nat : wire' \in Seq(Cell) /\ i \in 1 .. Len(wire') => wire'[i] \in Cell
  OBVIOUS
<1>6. CASE SendHello
  <2>1. 0 \in Name /\ 0 \in 0 .. MaxCells
    BY <1>1 DEF Name
  <2>2. Item("READY", 0, 0) \in Cell
    BY <2>1, ItemType
  <2>3. wire' \in Seq(Cell) /\ sending' \in {IF at > Len(files) THEN "end" ELSE "name", "dead"}
    BY <1>4, <1>6, <2>2 DEF SendHello
  <2> QED
    BY <1>1, <1>2, <1>5, <1>6, <2>3 DEF SendHello, TypeOK, InLoop, Over, ReceiverGone, SenderGone
<1>7. CASE SendName
  <2>1. at \in Name /\ 0 \in 0 .. MaxCells
    BY <1>1, <1>7 DEF Name, SendName, InLoop
  <2>2. Item("name", at, 0) \in Cell
    BY <2>1, ItemType
  <2>3. wire' \in Seq(Cell) /\ sending' \in {"size", "dead"}
    BY <1>4, <1>7, <2>2 DEF SendName
  <2> QED
    BY <1>1, <1>2, <1>5, <1>7, <2>3 DEF SendName, TypeOK, InLoop, Over, ReceiverGone, SenderGone
<1>8. CASE SendSize
  <2>1. at \in Name /\ files[at] \in 0 .. MaxCells
    BY <1>1, <1>8 DEF Name, SendSize, InLoop
  <2>2. Item("size", at, files[at]) \in Cell
    BY <2>1, ItemType
  <2>3. wire' \in Seq(Cell) /\ sending' \in {"data", "dead"}
    BY <1>4, <1>8, <2>2 DEF SendSize
  <2> QED
    BY <1>1, <1>2, <1>5, <1>8, <2>3 DEF SendSize, TypeOK, InLoop, Over, ReceiverGone, SenderGone
<1>9. CASE SendData
  <2>1. at \in Name /\ files[at] \in 0 .. MaxCells
    BY <1>1, <1>9 DEF Name, SendData, InLoop
  <2>2. sent \in 0 .. MaxCells /\ sent < files[at]
    BY <1>9 DEF SendData, TypeOK
  <2>3. sent + 1 \in 0 .. MaxCells
    BY <1>1, <2>1, <2>2
  <2>4. Item("data", at, sent + 1) \in Cell
    BY <2>1, <2>3, ItemType
  <2>5. wire' \in Seq(Cell) /\ sending' \in {"data", "dead"}
    BY <1>4, <1>9, <2>4 DEF SendData
  <2> QED
    BY <1>1, <1>2, <1>5, <1>9, <2>1, <2>3, <2>5 DEF SendData, TypeOK, InLoop, Over, ReceiverGone, SenderGone
<1>10. CASE SendEnd
  <2>1. 0 \in Name /\ 0 \in 0 .. MaxCells
    BY <1>1 DEF Name
  <2>2. Item("END", 0, 0) \in Cell
    BY <2>1, ItemType
  <2>3. wire' \in Seq(Cell) /\ sending' \in {"done", "dead"}
    BY <1>4, <1>10, <2>2 DEF SendEnd
  <2> QED
    BY <1>1, <1>2, <1>5, <1>10, <2>3 DEF SendEnd, TypeOK, InLoop, Over, ReceiverGone, SenderGone
<1>11. CASE AllSent
  BY <1>1, <1>2, <1>11 DEF AllSent, TypeOK, InLoop, Over, ReceiverGone, SenderGone
<1>12. CASE RecvReady
  BY <1>1, <1>2, <1>12 DEF RecvReady, NextFile, TypeOK, InLoop, Over, ReceiverGone, SenderGone
<1>13. CASE RecvReadyEnd
  BY <1>1, <1>2, <1>13 DEF RecvReadyEnd, NextFile, TypeOK, InLoop, Over, ReceiverGone, SenderGone
<1>14. CASE OpenSourceFails \/ SenderKilled
  <2>1. sending' = "dead" /\ UNCHANGED <<files, at, sent, wire, answers, strayed>>
    BY <1>14 DEF OpenSourceFails, SenderKilled
  <2>2. faults' \in 0 .. MaxFaults
    BY <1>14, TransferAssumption DEF OpenSourceFails, SenderKilled, Fault, TransferAssumption, TypeOK
  <2>3. TypeOK' /\ InLoop'
    BY <1>2, <2>1, <2>2 DEF TypeOK, InLoop, Over
  <2>4. Behind'
    BY <1>1, <1>2, <2>1 DEF Over, ReceiverGone, SenderGone
  <2> QED
    BY <2>3, <2>4
<1>15. CASE FileGrows
  <2>1. PICK n \in files[at] + 1 .. MaxCells : files' = [files EXCEPT ![at] = n]
    BY <1>15 DEF FileGrows
  <2>2. n \in 0 .. MaxCells /\ at \in 1 .. Len(files)
    BY <1>1, <1>15 DEF FileGrows, InLoop
  <2>3. files' \in Seq(0 .. MaxCells) /\ Len(files') = Len(files)
    BY <2>1, <2>2 DEF InLoop
  <2> QED
    BY <1>1, <1>2, <1>15, <2>3, TransferAssumption
       DEF FileGrows, Fault, TransferAssumption, TypeOK, InLoop, Over, ReceiverGone, SenderGone
<1> QED
  BY <1>6, <1>7, <1>8, <1>9, <1>10, <1>11, <1>12, <1>13, <1>14, <1>15 DEF SenderStep

\* close and the answer, with the file after them or not.
LEMMA CloseBase ==
    ASSUME IInv, ~ReceiverGone, Close, UNCHANGED <<receiver, sender>>
    PROVE  /\ receiving' \in {"command", "dead"} /\ answers' \in Nat /\ closes' \in Nat
           /\ Behind'
<1>1. at \in Nat /\ answers \in Nat /\ closes \in Nat
  BY DEF IInv, NotAhead, TypeOK
<1>2. Behind
  BY DEF IInv, NotAhead, Behind
<1>3. at' = at /\ SenderGone' = SenderGone /\ ~ReceiverGone
  BY DEF sender, SenderGone
<1>4. CASE SenderGone
  <2>1. closes' = closes /\ SenderGone' /\ answers' \in Nat
    BY <1>1, <1>3, <1>4 DEF Close
  <2>2. receiving' \in {"command", "dead"}
    BY DEF Close
  <2> QED
    BY <1>1, <1>2, <1>3, <2>1, <2>2 DEF Behind
<1>5. CASE ~SenderGone
  BY <1>1, <1>2, <1>3, <1>5 DEF Close, Behind
<1> QED
  BY <1>4, <1>5

LEMMA AwaitBase ==
    ASSUME IInv, ~ReceiverGone, NEW n \in Nat, Await(n), UNCHANGED <<receiver, sender>>
    PROVE  /\ receiving' \in {"data", "command", "dead"} /\ answers' \in Nat /\ closes' \in Nat
           /\ remaining' \in Nat /\ Behind'
<1>1. CASE n > 0
  BY <1>1 DEF Await, IInv, NotAhead, TypeOK, Behind, sender, SenderGone, ReceiverGone
<1>2. CASE ~(n > 0)
  <2>1. Close /\ remaining' = n
    BY <1>2 DEF Await
  <2> QED
    BY <2>1, CloseBase
<1> QED
  BY <1>1, <1>2

LEMMA ReceiverBase ==
    ASSUME IInv, ReceiverStep \/ OpenTargetFails \/ ReceiverKilled
    PROVE  Base' /\ Behind'
<1> USE DEF IInv, NotAhead, Base, Behind
<1>1. /\ wire \in Seq(Cell) /\ open \in Name /\ 0 \in Name /\ disk \in [Name -> Seq(Cell)]
      /\ answers \in Nat /\ closes \in Nat /\ at \in Nat /\ WildSizes \subseteq Nat
      /\ remaining \in Nat /\ offset \in Nat /\ Len(wire) \in Nat
  BY TransferAssumption DEF TransferAssumption, TypeOK, InLoop, Name
<1>2. UNCHANGED <<receiver, sender>>
  BY DEF ReceiverStep, RecvCommand, RecvCommandEnd, RecvName, RecvNameEnd, RecvSize, RecvSizeEnd,
         RecvData, RecvReset, OpenTargetFails, ReceiverKilled, ReceiverOnly
<1>3. \A i \in 1 .. Len(wire) : wire[i] \in Cell /\ wire[i].file \in Name /\ wire[i].at \in Nat
  <2>1. \A i \in 1 .. Len(wire) : wire[i] \in Cell
    BY <1>1
  <2>2. \A c \in Cell : c.file \in Name /\ c.at \in 0 .. MaxCells
    BY DEF Cell
  <2>3. 0 .. MaxCells \subseteq Nat
    OBVIOUS
  <2> QED
    BY <2>1, <2>2, <2>3
<1>4. ASSUME wire' \in Seq(Cell), disk' \in [Name -> Seq(Cell)], open' \in Name,
             offset' \in 0 .. Len(disk'[open']),
             receiving' \in {"command", "name", "size", "data", "done", "dead"},
             held' \in {"junk", "READY", "END"}, remaining' \in Nat,
             answers' \in Nat, closes' \in Nat, strayed' \in BOOLEAN, faults' \in 0 .. MaxFaults,
             Behind'
      PROVE  Base' /\ Behind'
  <2>1. \A j \in 1 .. Len(wire') : wire'[j] \in Cell
    BY <1>4
  <2>2. \A i \in Name : \A j \in 1 .. Len(disk'[i]) : disk'[i][j] \in Cell
    BY <1>4
  <2>3. InLoop'
    BY <1>2, <1>4 DEF InLoop, sender
  <2>4. TypeOK'
    BY <1>2, <1>4, <2>1, <2>2 DEF TypeOK, sender, Over
  <2> QED
    BY <1>4, <2>3, <2>4
<1>5. ASSUME NEW k \in 1 .. Len(wire), NEW kinds, Take(k, kinds)
      PROVE  wire' \in Seq(Cell) /\ strayed' \in BOOLEAN /\ wire[1] \in Cell
  BY <1>1, <1>5, TakeProperties DEF Take, TypeOK
<1>6. offset \in 0 .. Len(disk[open]) /\ 0 \in 0 .. Len(disk[open])
      /\ \A i \in Name : Len(disk[i]) \in Nat /\ 0 \in 0 .. Len(disk[i])
  BY <1>1 DEF InLoop
<1>7. /\ strayed \in BOOLEAN /\ faults \in 0 .. MaxFaults /\ held \in {"junk", "READY", "END"}
      /\ receiving \in {"command", "name", "size", "data", "done", "dead"}
  BY DEF TypeOK, Over
<1>8. ASSUME Fault PROVE faults' \in 0 .. MaxFaults
  BY <1>7, <1>8, TransferAssumption DEF Fault, TransferAssumption
<1>9. ASSUME UNCHANGED <<answers, closes>>, receiving \notin Over PROVE Behind'
  BY <1>2, <1>9 DEF sender, ReceiverGone, SenderGone
<1>10. CASE RecvCommand
  <2>1. receiving' \in {"name", "done", "command"} /\ held' \in {"junk", "READY", "END"}
    BY <1>10 DEF RecvCommand, Obey
  <2> QED
    BY <1>1, <1>4, <1>5, <1>6, <1>7, <1>9, <1>10, <2>1 DEF RecvCommand, target, Over
<1>11. CASE RecvCommandEnd
  BY <1>1, <1>4, <1>6, <1>7, <1>9, <1>11 DEF RecvCommandEnd, Obey, target, Over
<1>12. CASE RecvName
  <2>1. wire[1].file \in Name /\ wire' \in Seq(Cell) /\ strayed' \in BOOLEAN
    BY <1>3, <1>5, <1>12 DEF RecvName
  <2>2. open' \in Name /\ offset' = 0 /\ receiving' = "size"
    BY <1>1, <1>12, <2>1 DEF RecvName, OpenTarget
  <2> QED
    BY <1>1, <1>4, <1>6, <1>7, <1>9, <1>12, <2>1, <2>2 DEF RecvName, Over
<1>13. CASE RecvNameEnd
  BY <1>1, <1>4, <1>6, <1>7, <1>9, <1>13 DEF RecvNameEnd, OpenTarget, Over
<1>14. CASE RecvSize
  <2>1. 1 \in 1 .. Len(wire) /\ wire # <<>>
    BY <1>1, <1>14 DEF RecvSize
  <2>2. wire[1] \in Cell /\ wire[1].at \in Nat /\ Tail(wire) \in Seq(Cell)
    BY <1>1, <1>3, <2>1
  <2>3. Item("scrap", 0, 0) \in Cell
    <3>1. 0 \in 0 .. MaxCells
      BY TransferAssumption DEF TransferAssumption
    <3> QED
      BY <1>1, <3>1, ItemType
  <2>4. <<Item("scrap", 0, 0)>> \o Tail(wire) \in Seq(Cell)
    BY <2>2, <2>3
  <2>5. wire' \in Seq(Cell) /\ \E n \in Nat : Await(n)
    BY <1>1, <1>14, <2>2, <2>4 DEF RecvSize
  <2>6. ~ReceiverGone
    BY <1>14 DEF RecvSize, ReceiverGone, Over
  <2>7. /\ receiving' \in {"data", "command", "dead"} /\ answers' \in Nat /\ closes' \in Nat
        /\ remaining' \in Nat /\ Behind'
    BY <1>2, <2>5, <2>6, AwaitBase
  <2>8. strayed' \in BOOLEAN
    BY <1>7, <1>14 DEF RecvSize
  <2> QED
    BY <1>1, <1>4, <1>6, <1>7, <1>14, <2>5, <2>7, <2>8 DEF RecvSize, target
<1>15. CASE RecvSizeEnd
  <2>1. CASE receiver = "server"
    BY <1>1, <1>4, <1>6, <1>7, <1>9, <1>15, <2>1 DEF RecvSizeEnd, target, Over
  <2>2. CASE receiver # "server"
    <3>1. \E n \in Nat : Await(n)
      BY <1>1, <1>15, <2>2 DEF RecvSizeEnd
    <3>2. ~ReceiverGone
      BY <1>15 DEF RecvSizeEnd, ReceiverGone, Over
    <3>3. /\ receiving' \in {"data", "command", "dead"} /\ answers' \in Nat /\ closes' \in Nat
          /\ remaining' \in Nat /\ Behind'
      BY <1>2, <3>1, <3>2, AwaitBase
    <3> QED
      BY <1>1, <1>4, <1>6, <1>7, <1>15, <3>3 DEF RecvSizeEnd, target
  <2> QED
    BY <2>1, <2>2
<1>16. CASE RecvData
  <2> DEFINE part(k) == SubSeq(wire, 1, k)
  <2>1. PICK k \in 1 .. Len(wire) :
           /\ k <= remaining
           /\ disk' = [disk EXCEPT ![open] = Written(disk[open], part(k))]
           /\ strayed' = (strayed \/ \E j \in 1 .. k : part(k)[j].kind # "data")
           /\ wire' = SubSeq(wire, k + 1, Len(wire))
           /\ offset' = offset + k
           /\ Await(remaining - k)
    BY <1>16 DEF RecvData, Limit
  <2>2. /\ wire' \in Seq(Cell) /\ part(k) \in Seq(Cell) /\ Len(part(k)) = k
    BY <1>1, <2>1, TakeProperties
  <2> HIDE DEF part
  <2>3. /\ Written(disk[open], part(k)) \in Seq(Cell)
        /\ Len(Written(disk[open], part(k))) >= offset + k
    BY <1>1, <1>6, <2>2, WrittenProperties
  <2>4. disk' \in [Name -> Seq(Cell)] /\ disk'[open] = Written(disk[open], part(k))
    BY <1>1, <2>1, <2>3
  <2>5. open' = open /\ offset' \in 0 .. Len(disk'[open'])
    BY <1>1, <1>16, <2>1, <2>3, <2>4 DEF RecvData
  <2>6. remaining - k \in Nat /\ ~ReceiverGone
    BY <1>1, <1>16, <2>1 DEF RecvData, ReceiverGone, Over
  <2>7. /\ receiving' \in {"data", "command", "dead"} /\ answers' \in Nat /\ closes' \in Nat
        /\ remaining' \in Nat /\ Behind'
    BY <1>2, <2>1, <2>6, AwaitBase
  <2>8. strayed' \in BOOLEAN
    BY <1>7, <2>1
  <2> QED
    BY <1>1, <1>4, <1>7, <1>16, <2>2, <2>4, <2>5, <2>7, <2>8 DEF RecvData
<1>17. CASE RecvReset
  <2>1. CASE receiving = "data"
    <3>1. /\ receiving' \in {"command", "dead"} /\ answers' \in Nat /\ closes' \in Nat
          /\ Behind'
      BY <1>2, <1>17, <2>1, CloseBase DEF RecvReset
    <3> QED
      BY <1>1, <1>4, <1>6, <1>7, <1>17, <3>1 DEF RecvReset, target
  <2>2. CASE receiving # "data"
    BY <1>1, <1>4, <1>6, <1>7, <1>9, <1>17, <2>2 DEF RecvReset, target, ReceiverGone
  <2> QED
    BY <2>1, <2>2
<1>18. CASE OpenTargetFails
  <2>1. wire' \in Seq(Cell) /\ strayed' \in BOOLEAN
    BY <1>5, <1>18 DEF OpenTargetFails
  <2>2. faults' \in 0 .. MaxFaults
    BY <1>7, <1>8, <1>18 DEF OpenTargetFails
  <2> QED
    BY <1>1, <1>4, <1>6, <1>7, <1>9, <1>18, <2>1, <2>2 DEF OpenTargetFails, target, Over
<1>19. CASE ReceiverKilled
  BY <1>1, <1>4, <1>6, <1>7, <1>8, <1>9, <1>19 DEF ReceiverKilled, target, ReceiverGone
<1> QED
  BY <1>10, <1>11, <1>12, <1>13, <1>14, <1>15, <1>16, <1>17, <1>18, <1>19 DEF ReceiverStep
-------------------------------------------------------------------------------
(* The two ends in step.                                                   *)
\* Nothing that strayed or failed is ever forgotten.
LEMMA CalmBefore ==
    ASSUME IInv, Next, Calm'
    PROVE  Calm /\ InStep /\ ~Failure /\ ~strayed'
<1>1. ~strayed' /\ faults' = 0 /\ strayed \in BOOLEAN /\ faults \in Nat
  BY TransferAssumption DEF Calm, IInv, NotAhead, TypeOK, TransferAssumption
<1>2. ~Fault
  BY <1>1 DEF Fault
<1>3. ASSUME Failure PROVE FALSE
  BY <1>1, <1>2, <1>3
     DEF Failure, OpenSourceFails, FileGrows, SenderKilled, OpenTargetFails, ReceiverKilled, Take
<1>4. ASSUME SenderStep PROVE Calm
  <2>1. faults' = faults
    BY <1>4
       DEF SenderStep, SendHello, SendName, SendSize, SendData, AllSent, RecvReady, RecvReadyEnd, SendEnd
  <2>2. CASE RecvReady
    BY <1>1, <2>1, <2>2 DEF Calm, RecvReady
  <2>3. CASE ~RecvReady
    <3>1. strayed' = strayed
      BY <1>4, <2>3 DEF SenderStep, SendHello, SendName, SendSize, SendData, AllSent, RecvReadyEnd, SendEnd
    <3> QED
      BY <1>1, <2>1, <3>1 DEF Calm
  <2> QED
    BY <2>2, <2>3
<1>5. ASSUME ReceiverStep PROVE Calm
  <2>1. faults' = faults
    BY <1>5
       DEF ReceiverStep, RecvCommand, RecvCommandEnd, RecvName, RecvNameEnd, RecvSize, RecvSizeEnd,
           RecvData, RecvReset
  <2>2. CASE RecvCommand \/ RecvName
    BY <1>1, <2>1, <2>2 DEF Calm, RecvCommand, RecvName, Take
  <2>3. CASE RecvSize \/ RecvData
    BY <1>1, <2>1, <2>3 DEF Calm, RecvSize, RecvData
  <2>4. CASE RecvCommandEnd \/ RecvNameEnd \/ RecvSizeEnd \/ RecvReset
    <3>1. strayed' = strayed
      BY <2>4 DEF RecvCommandEnd, RecvNameEnd, RecvSizeEnd, RecvReset
    <3> QED
      BY <1>1, <2>1, <3>1 DEF Calm
  <2> QED
    BY <1>5, <2>2, <2>3, <2>4 DEF ReceiverStep
<1> QED
  BY <1>1, <1>3, <1>4, <1>5 DEF Next, IInv

\* What both counters can be.
LEMMA Counters ==
    ASSUME IInv, InStep
    PROVE  /\ Given \in Nat /\ Taken \in Nat /\ Taken <= Given /\ Len(wire) \in Nat
           /\ at \in Nat /\ at >= 1 /\ Len(files) \in Nat /\ at <= Len(files) + 1
           /\ sent \in Nat /\ offset \in Nat
           /\ \A i \in 1 .. Len(files) : files[i] \in Nat
           /\ sending \in {"hello", "name", "size", "data", "wait", "end", "done"}
           /\ receiving \in {"command", "name", "size", "data", "done"}
           /\ (sending \in {"end", "done"} => at = Len(files) + 1)
           /\ (sending \in {"name", "size", "data", "wait"} => at <= Len(files))
           /\ (sending = "hello" => at <= Len(files) \/ Len(files) = 0)
<1>1. /\ Len(wire) \in Nat /\ at \in Nat /\ at >= 1 /\ Len(files) \in Nat /\ at <= Len(files) + 1
      /\ sent \in Nat /\ offset \in Nat
      /\ \A i \in 1 .. Len(files) : files[i] \in Nat
  BY TransferAssumption DEF IInv, NotAhead, TypeOK, InLoop, TransferAssumption
<1>2. /\ sending \in {"hello", "name", "size", "data", "wait", "end", "done"}
      /\ receiving \in {"command", "name", "size", "data", "done"}
  BY DEF IInv, NotAhead, TypeOK, InStep, InOrder, Over
<1>3. /\ sending \in {"end", "done"} => at = Len(files) + 1
      /\ sending \in {"name", "size", "data", "wait"} => at <= Len(files)
      /\ sending = "hello" => at <= Len(files) \/ Len(files) = 0
  BY DEF IInv, InLoop
<1>4. Given \in Nat
  BY <1>1, <1>2 DEF Given, Over
<1>5. Taken \in Nat
  <2>1. answers # 0 => files[at] \in Nat
    BY <1>1, <1>3 DEF InStep, InOrder
  <2> QED
    BY <1>1, <1>2, <2>1 DEF Taken
<1> QED
  BY <1>1, <1>2, <1>3, <1>4, <1>5 DEF InStep, OnWire

\* The sender sends the next item.
LEMMA GiveOne ==
    ASSUME IInv, InStep, NEW cell, wire' = Append(wire, cell), cell = Stream[Given + 1],
           Given' = Given + 1, Taken' = Taken, UNCHANGED <<at, files>>, cell \in Cell
    PROVE  OnWire'
<1>1. /\ Len(wire') = Len(wire) + 1 /\ wire'[Len(wire) + 1] = cell
      /\ \A j \in 1 .. Len(wire) : wire'[j] = wire[j]
  BY DEF IInv, InLoop
<1> DEFINE g == Given
           t == Taken
           stream == Stream
<1>2. /\ g \in Nat /\ t \in Nat /\ Len(wire) \in Nat /\ Len(wire) = g - t
      /\ \A j \in 1 .. Len(wire) : wire[j] = stream[t + j]
      /\ cell = stream[g + 1] /\ g' = g + 1 /\ t' = t
  BY Counters DEF InStep, OnWire
<1>3. stream' = stream
  BY DEF Stream
<1>4. (Len(wire') = g' - t' /\ \A j \in 1 .. Len(wire') : wire'[j] = stream'[t' + j]) => OnWire'
  BY <1>2 DEF OnWire
<1> HIDE DEF g, t, stream
<1>5. Len(wire') = g' - t'
  BY <1>1, <1>2
<1>6. ASSUME NEW j \in 1 .. Len(wire') PROVE wire'[j] = stream[t + j]
  <2>1. CASE j = Len(wire) + 1
    BY <1>1, <1>2, <2>1
  <2>2. CASE j \in 1 .. Len(wire)
    BY <1>1, <1>2, <2>2
  <2> QED
    BY <1>1, <1>2, <2>1, <2>2
<1> QED
  BY <1>2, <1>3, <1>4, <1>5, <1>6

\* The receiver takes the next k.
LEMMA TakeSome ==
    ASSUME IInv, InStep, NEW k \in 1 .. Len(wire), wire' = SubSeq(wire, k + 1, Len(wire)),
           Given' = Given, Taken' = Taken + k, UNCHANGED <<at, files>>
    PROVE  OnWire'
<1>1. /\ Len(wire') = Len(wire) - k
      /\ \A j \in 1 .. Len(wire) - k : wire'[j] = wire[k + j]
  BY TakeProperties DEF IInv, InLoop
<1> DEFINE g == Given
           t == Taken
           stream == Stream
<1>2. /\ g \in Nat /\ t \in Nat /\ Len(wire) \in Nat /\ Len(wire) = g - t
      /\ \A j \in 1 .. Len(wire) : wire[j] = stream[t + j]
      /\ g' = g /\ t' = t + k
  BY Counters DEF InStep, OnWire
<1>3. stream' = stream
  BY DEF Stream
<1>4. (Len(wire') = g' - t' /\ \A j \in 1 .. Len(wire') : wire'[j] = stream'[t' + j]) => OnWire'
  BY <1>2 DEF OnWire
<1> HIDE DEF g, t, stream
<1>5. Len(wire') = g' - t'
  BY <1>1, <1>2
<1>6. ASSUME NEW j \in 1 .. Len(wire') PROVE wire'[j] = stream'[t' + j]
  <2>1. Len(wire) \in Nat /\ k \in Nat /\ t \in Nat /\ j \in 1 .. Len(wire) - k
    BY <1>1, <1>2
  <2>2. k + j \in 1 .. Len(wire) /\ t + (k + j) = (t + k) + j
    BY <2>1
  <2> QED
    BY <1>1, <1>2, <1>3, <2>1, <2>2
<1> QED
  BY <1>4, <1>5, <1>6

LEMMA SenderInStep ==
    ASSUME IInv, InStep, SenderStep, ~strayed'
    PROVE  InStep'
<1>1. /\ Given \in Nat /\ Taken \in Nat /\ Taken <= Given /\ Len(wire) \in Nat
      /\ at \in Nat /\ at >= 1 /\ Len(files) \in Nat /\ at <= Len(files) + 1
      /\ sent \in Nat /\ offset \in Nat
      /\ \A i \in 1 .. Len(files) : files[i] \in Nat
      /\ sending \in {"hello", "name", "size", "data", "wait", "end", "done"}
      /\ receiving \in {"command", "name", "size", "data", "done"}
      /\ (sending \in {"end", "done"} => at = Len(files) + 1)
      /\ (sending \in {"name", "size", "data", "wait"} => at <= Len(files))
      /\ (sending = "hello" => at <= Len(files) \/ Len(files) = 0)
  BY Counters
<1>2. UNCHANGED <<receiving, remaining, open, offset, disk, files>>
  BY DEF SenderStep, SendHello, SendName, SendSize, SendData, AllSent, RecvReady, RecvReadyEnd,
         SendEnd, SenderOnly, target
<1>3. OnWire /\ InOrder /\ Delivered
  BY DEF InStep
<1>4. ASSUME at' = at, answers' = answers PROVE Delivered'
  BY <1>2, <1>3, <1>4 DEF Delivered, Holds
<1>5. ASSUME at' = at, answers' = answers PROVE Taken' = Taken
  BY <1>2, <1>5 DEF Taken
<1>6. ASSUME NEW cell, NEW next, Send(cell, next), sending # "done"
      PROVE  wire' = Append(wire, cell) /\ sending' = next
  BY <1>1, <1>3, <1>6 DEF Send, ReceiverGone, Over, InOrder
<1>7. ASSUME at' = at, answers' = answers, sending # "done", NEW next, Send(Stream[Given + 1], next),
             Given' = Given + 1, Stream[Given + 1] \in Cell
      PROVE  OnWire'
  BY <1>2, <1>5, <1>6, <1>7, GiveOne
<1>8. at \in 1 .. Len(files) => files[at] \in 0 .. MaxCells /\ at \in Name
  BY TransferAssumption DEF IInv, NotAhead, TypeOK, InLoop, Name, TransferAssumption
<1>9. 0 \in Name /\ 0 \in 0 .. MaxCells
  BY TransferAssumption DEF Name, TransferAssumption
<1>10. \A j \in Nat : Stream[j] =
          IF at > Len(files)
          THEN IF Len(files) = 0 /\ j = 1 THEN Item("READY", 0, 0) ELSE Item("END", 0, 0)
          ELSE CASE j = 1 -> Item("READY", 0, 0)
                 [] j = 2 -> Item("name", at, 0)
                 [] j = 3 -> Item("size", at, files[at])
                 [] OTHER -> Item("data", at, j - 3)
  BY DEF Stream
<1>11. CASE SendHello
  <2>1. sending = "hello" /\ Given = 0 /\ Stream[Given + 1] = Item("READY", 0, 0)
    BY <1>1, <1>10, <1>11 DEF SendHello, Given, Over
  <2>2. Stream[Given + 1] \in Cell
    BY <1>9, <2>1, ItemType
  <2>3. sending' = IF at > Len(files) THEN "end" ELSE "name"
    BY <1>6, <1>11, <2>1 DEF SendHello
  <2>4. Given' = Given + 1
    BY <1>1, <1>2, <1>11, <2>1, <2>3 DEF SendHello, Given, Over
  <2>5. OnWire'
    BY <1>7, <1>11, <2>1, <2>2, <2>4 DEF SendHello
  <2>6. InOrder'
    BY <1>1, <1>2, <1>3, <1>11, <2>1, <2>3 DEF SendHello, InOrder
  <2> QED
    BY <1>4, <1>11, <2>5, <2>6 DEF SendHello, InStep
<1>12. CASE SendName
  <2>1. sending = "name" /\ Given = 1 /\ Stream[Given + 1] = Item("name", at, 0)
    BY <1>1, <1>10, <1>12 DEF SendName, Given, Over
  <2>2. Stream[Given + 1] \in Cell
    BY <1>1, <1>8, <1>9, <2>1, ItemType
  <2>3. sending' = "size"
    BY <1>6, <1>12, <2>1 DEF SendName
  <2>4. Given' = Given + 1
    BY <1>1, <1>2, <1>12, <2>1, <2>3 DEF SendName, Given, Over
  <2>5. OnWire'
    BY <1>7, <1>12, <2>1, <2>2, <2>4 DEF SendName
  <2>6. InOrder'
    BY <1>1, <1>2, <1>3, <1>12, <2>1, <2>3 DEF SendName, InOrder
  <2> QED
    BY <1>4, <1>12, <2>5, <2>6 DEF SendName, InStep
<1>13. CASE SendSize
  <2>1. sending = "size" /\ Given = 2 /\ Stream[Given + 1] = Item("size", at, files[at])
    BY <1>1, <1>10, <1>13 DEF SendSize, Given, Over
  <2>2. Stream[Given + 1] \in Cell
    BY <1>1, <1>8, <2>1, ItemType
  <2>3. sending' = "data" /\ sent' = 0
    BY <1>6, <1>13, <2>1 DEF SendSize
  <2>4. Given' = Given + 1
    BY <1>1, <1>2, <1>13, <2>1, <2>3 DEF SendSize, Given, Over
  <2>5. OnWire'
    BY <1>7, <1>13, <2>1, <2>2, <2>4 DEF SendSize
  <2>6. InOrder'
    BY <1>1, <1>2, <1>3, <1>13, <2>1, <2>3 DEF SendSize, InOrder
  <2> QED
    BY <1>4, <1>13, <2>5, <2>6 DEF SendSize, InStep
<1>14. CASE SendData
  <2>1. sending = "data" /\ Given = 3 + sent /\ sent < files[at] /\ at \in 1 .. Len(files)
    BY <1>1, <1>14 DEF SendData, Given, Over
  <2>2. Given + 1 \in Nat /\ Given + 1 > 3 /\ (Given + 1) - 3 = sent + 1
    BY <1>1, <2>1
  <2>3. Stream[Given + 1] = Item("data", at, sent + 1)
    BY <1>1, <1>10, <2>1, <2>2
  <2>4. sent + 1 \in 0 .. MaxCells
    <3>1. files[at] \in 0 .. MaxCells /\ files[at] \in Nat /\ MaxCells \in Nat
      BY <1>8, <2>1, TransferAssumption DEF TransferAssumption
    <3> QED
      BY <1>1, <2>1, <3>1
  <2>5. Stream[Given + 1] \in Cell
    BY <1>8, <2>1, <2>3, <2>4, ItemType
  <2>6. sending' = "data" /\ sent' = sent + 1
    BY <1>6, <1>14, <2>1 DEF SendData
  <2>7. Given' = Given + 1
    BY <1>1, <2>1, <2>6 DEF Given, Over
  <2>8. OnWire'
    BY <1>7, <1>14, <2>1, <2>3, <2>5, <2>7 DEF SendData
  <2>9. InOrder'
    BY <1>1, <1>2, <1>3, <1>14, <2>1, <2>6 DEF SendData, InOrder
  <2> QED
    BY <1>4, <1>14, <2>8, <2>9 DEF SendData, InStep
<1>15. CASE AllSent
  <2>1. Given' = Given /\ Taken' = Taken /\ wire' = wire /\ Stream' = Stream
    BY <1>2, <1>5, <1>15 DEF AllSent, Given, Over, Stream
  <2>2. OnWire'
    BY <1>3, <2>1 DEF OnWire
  <2>3. InOrder'
    BY <1>1, <1>2, <1>3, <1>15 DEF AllSent, InOrder
  <2> QED
    BY <1>4, <1>15, <2>2, <2>3 DEF AllSent, InStep
<1>16. CASE RecvReady
  <2>1. /\ answers = 1 /\ answers' = 0
        /\ sending = "wait" /\ receiving = "command" /\ sent = files[at]
    BY <1>3, <1>16 DEF RecvReady, InOrder
  <2>2. at' = at + 1 /\ sending' = IF at = Len(files) THEN "end" ELSE "hello"
    BY <1>16 DEF RecvReady, NextFile
  <2>3. at \in 1 .. Len(files)
    BY <1>1, <2>1
  <2>4. Given = 3 + files[at] /\ Taken = 3 + files[at] /\ wire' = wire
    BY <1>16, <2>1 DEF RecvReady, Given, Over, Taken
  <2>5. Len(wire') = 0
    BY <1>1, <1>3, <2>3, <2>4 DEF OnWire
  <2>6. Given' = 0 /\ Taken' = 0
    BY <1>1, <1>2, <2>1, <2>2, <2>3 DEF Given, Over, Taken
  <2>7. OnWire'
    BY <2>5, <2>6 DEF OnWire
  <2>8. InOrder'
    BY <1>1, <1>2, <1>3, <2>1, <2>2, <2>3 DEF InOrder
  <2>9. \A i \in 1 .. (at + 1) - 1 : Holds(i, files[i])
    BY <1>1, <1>3, <2>1 DEF Delivered
  <2>10. 1 .. at \subseteq 1 .. at + 1
    BY <1>1
  <2>11. Delivered'
    BY <1>2, <1>3, <2>1, <2>2, <2>9, <2>10 DEF Delivered, Holds
  <2> QED
    BY <2>7, <2>8, <2>11 DEF InStep
<1>17. CASE RecvReadyEnd
  <2>1. receiving = "done" /\ sending = "wait"
    BY <1>1, <1>17 DEF RecvReadyEnd, ReceiverGone, Over
  <2> QED
    BY <1>3, <2>1 DEF InOrder
<1>18. CASE SendEnd
  <2>1. sending = "end" /\ at > Len(files) /\ Given = IF Len(files) = 0 THEN 1 ELSE 0
    BY <1>1, <1>18 DEF SendEnd, Given, Over
  <2>2. Stream[Given + 1] = Item("END", 0, 0)
    BY <1>1, <1>10, <2>1
  <2>3. Stream[Given + 1] \in Cell
    BY <1>9, <2>2, ItemType
  <2>4. sending' = "done"
    BY <1>6, <1>18, <2>1 DEF SendEnd
  <2>5. Given' = Given + 1
    BY <1>1, <1>2, <2>1, <2>4 DEF Given, Over
  <2>6. OnWire'
    BY <1>7, <1>18, <2>1, <2>2, <2>3, <2>5 DEF SendEnd
  <2>7. InOrder'
    BY <1>1, <1>2, <1>3, <1>18, <2>1, <2>4 DEF SendEnd, InOrder
  <2> QED
    BY <1>4, <1>18, <2>6, <2>7 DEF SendEnd, InStep
<1> QED
  BY <1>11, <1>12, <1>13, <1>14, <1>15, <1>16, <1>17, <1>18 DEF SenderStep

LEMMA ReceiverInStep ==
    ASSUME IInv, InStep, ReceiverStep, ~strayed'
    PROVE  InStep'
<1>1. /\ Given \in Nat /\ Taken \in Nat /\ Taken <= Given /\ Len(wire) \in Nat
      /\ at \in Nat /\ at >= 1 /\ Len(files) \in Nat /\ at <= Len(files) + 1
      /\ sent \in Nat /\ offset \in Nat
      /\ \A i \in 1 .. Len(files) : files[i] \in Nat
      /\ sending \in {"hello", "name", "size", "data", "wait", "end", "done"}
      /\ receiving \in {"command", "name", "size", "data", "done"}
      /\ (sending \in {"end", "done"} => at = Len(files) + 1)
      /\ (sending \in {"name", "size", "data", "wait"} => at <= Len(files))
      /\ (sending = "hello" => at <= Len(files) \/ Len(files) = 0)
  BY Counters
<1>2. UNCHANGED <<sending, files, at, sent>>
  BY DEF ReceiverStep, RecvCommand, RecvCommandEnd, RecvName, RecvNameEnd, RecvSize, RecvSizeEnd,
         RecvData, RecvReset, ReceiverOnly, sender
<1>3. OnWire /\ InOrder /\ Delivered
  BY DEF InStep
<1>4. Given' = Given /\ Given = Taken + Len(wire)
  BY <1>1, <1>2, <1>3 DEF Given, Over, OnWire
<1>5. \A j \in 1 .. Len(wire) : wire[j] = Stream[Taken + j]
  BY <1>3 DEF OnWire
<1>6. \A j \in Nat : Stream[j] =
          IF at > Len(files)
          THEN IF Len(files) = 0 /\ j = 1 THEN Item("READY", 0, 0) ELSE Item("END", 0, 0)
          ELSE CASE j = 1 -> Item("READY", 0, 0)
                 [] j = 2 -> Item("name", at, 0)
                 [] j = 3 -> Item("size", at, files[at])
                 [] OTHER -> Item("data", at, j - 3)
  BY DEF Stream
<1>7. SenderGone => sending = "done" /\ at = Len(files) + 1 /\ Given = IF Len(files) = 0 THEN 2 ELSE 1
  BY <1>1 DEF SenderGone, Over, Given
<1>8. wire \in Seq(Cell) /\ disk \in [Name -> Seq(Cell)]
      /\ (at \in 1 .. Len(files) => at \in Name) /\ offset <= Len(disk[open]) /\ open \in Name
  BY TransferAssumption DEF IInv, InLoop, NotAhead, TypeOK, Name, TransferAssumption
<1>9. ASSUME NEW kinds, NEW k \in 1 .. Len(wire), Take(k, kinds)
      PROVE  /\ wire' = SubSeq(wire, 2, Len(wire)) /\ 1 \in 1 .. Len(wire)
             /\ wire[1] = Stream[Taken + 1] /\ wire[1].kind \in kinds
  <2>1. ~(k > 1)
    BY <1>9 DEF Take
  <2>2. wire[1].kind \in kinds
    BY <1>9, Zenon DEF Take
  <2>3. k = 1
    BY <1>1, <2>1
  <2> QED
    BY <1>5, <1>9, <2>2, <2>3 DEF Take
<1>10. ASSUME wire' = SubSeq(wire, 2, Len(wire)), 1 \in 1 .. Len(wire), Taken' = Taken + 1
       PROVE  OnWire'
  BY <1>2, <1>4, <1>10, TakeSome
<1>11. CASE RecvCommand
  <2>1. /\ wire' = SubSeq(wire, 2, Len(wire)) /\ 1 \in 1 .. Len(wire)
        /\ wire[1] = Stream[Taken + 1] /\ wire[1].kind \in {"READY", "END"}
    BY <1>9, <1>11 DEF RecvCommand
  <2>2. receiving = "command" /\ answers' = answers /\ UNCHANGED <<remaining, open, offset, disk>>
    BY <1>11 DEF RecvCommand, target
  <2>3. answers = 0
    <3>1. ASSUME answers = 1 PROVE FALSE
      <4>1. sending \in {"data", "wait"} /\ sent = files[at]
        BY <1>3, <3>1 DEF InOrder
      <4>2. Given = 3 + files[at] /\ Taken = 3 + files[at]
        BY <2>2, <3>1, <4>1 DEF Given, Taken, Over
      <4> QED
        BY <1>1, <1>4, <2>1, <4>1, <4>2
    <3> QED
      BY <1>3, <3>1 DEF InOrder
  <2>4. Taken = 0 /\ wire[1] = Stream[1]
    BY <2>1, <2>2, <2>3 DEF Taken
  <2>5. held' = wire[1].kind
    BY <1>11, <2>1 DEF RecvCommand
  <2>6. /\ wire[1].kind = "READY" => receiving' = "name"
        /\ wire[1].kind = "END" => receiving' = "done"
    BY <1>11, <2>5 DEF RecvCommand, Obey
  <2>7. CASE at <= Len(files) \/ Len(files) = 0
    <3>1. wire[1] = Item("READY", 0, 0)
      BY <1>1, <1>6, <2>4, <2>7
    <3>2. receiving' = "name"
      BY <2>6, <3>1, ItemParts
    <3>a. Taken' = 1
      BY <3>2 DEF Taken, Over
    <3>3. Taken' = Taken + 1
      BY <2>4, <3>a
    <3>4. OnWire'
      BY <1>10, <2>1, <3>3
    <3>5. InOrder'
      BY <1>2, <1>3, <2>2, <2>3, <2>7, <3>2 DEF InOrder
    <3>6. Delivered'
      BY <1>2, <1>3, <2>2, <2>3, <3>2 DEF Delivered, Holds
    <3> QED
      BY <3>4, <3>5, <3>6 DEF InStep
  <2>8. CASE ~(at <= Len(files) \/ Len(files) = 0)
    <3>1. wire[1] = Item("END", 0, 0)
      BY <1>1, <1>6, <2>4, <2>8
    <3>2. receiving' = "done"
      BY <2>6, <3>1, ItemParts
    <3>a. Taken' = 1
      BY <3>2 DEF Taken, Over
    <3>3. Taken' = Taken + 1
      BY <2>4, <3>a
    <3>4. OnWire'
      BY <1>10, <2>1, <3>3
    <3>5. sending = "done"
      <4>1. Given >= 1
        BY <1>1, <1>4, <2>1
      <4>2. sending \notin {"hello", "name", "size", "data", "wait"}
        BY <1>1, <2>8
      <4>3. sending # "end"
        BY <2>8, <4>1 DEF Given, Over
      <4> QED
        BY <1>1, <4>2, <4>3
    <3>6. InOrder'
      BY <1>2, <1>3, <2>2, <2>3, <3>2, <3>5 DEF InOrder
    <3>7. Delivered'
      BY <1>2, <1>3, <2>2, <2>3, <3>2 DEF Delivered, Holds
    <3> QED
      BY <3>4, <3>6, <3>7 DEF InStep
  <2> QED
    BY <2>7, <2>8
\* The wire is empty and the sender is gone: nothing was left to take.
<1>12. ASSUME Ended PROVE receiving = "done"
  <2>1. Len(wire) = 0 /\ sending = "done" /\ at = Len(files) + 1
        /\ Taken = IF Len(files) = 0 THEN 2 ELSE 1
    BY <1>1, <1>4, <1>7, <1>12 DEF Ended
  <2>2. answers = 0
    BY <1>3, <2>1 DEF InOrder
  <2>3. receiving # "command"
    BY <2>1, <2>2 DEF Taken
  <2>4. receiving # "name"
    BY <1>1, <1>3, <2>1 DEF Taken, InOrder
  <2>5. receiving \notin {"size", "data"}
    BY <1>1, <1>3, <2>1 DEF InOrder
  <2> QED
    BY <1>1, <2>3, <2>4, <2>5
<1>13. CASE RecvCommandEnd \/ RecvNameEnd \/ RecvSizeEnd \/ RecvReset
  BY <1>12, <1>13
     DEF RecvCommandEnd, RecvNameEnd, RecvSizeEnd, RecvReset, Reset, ReceiverGone, Over
<1>14. CASE RecvName
  <2>1. /\ wire' = SubSeq(wire, 2, Len(wire)) /\ 1 \in 1 .. Len(wire)
        /\ wire[1] = Stream[Taken + 1] /\ wire[1].kind = "name"
    BY <1>9, <1>14 DEF RecvName
  <2>2. receiving = "name" /\ Taken = 1
    BY <1>14 DEF RecvName, Taken, Over
  <2>3. answers = 0
    BY <1>3, <2>2 DEF InOrder
  <2>4. at \in 1 .. Len(files)
    <3>1. ASSUME at > Len(files) PROVE FALSE
      <4>1. wire[1] = Item("END", 0, 0)
        BY <1>6, <2>1, <2>2, <3>1
      <4> QED
        BY <2>1, <4>1, ItemParts
    <3> QED
      BY <1>1, <3>1
  <2>5. wire[1] = Item("name", at, 0)
    BY <1>1, <1>6, <2>1, <2>2, <2>4
  <2>6. wire[1].file = at
    BY <2>5, ItemParts
  <2>7. /\ open' = at /\ offset' = 0 /\ receiving' = "size"
        /\ UNCHANGED <<remaining, disk, answers>>
    BY <1>14, <2>1, <2>6 DEF RecvName, OpenTarget
  <2>8. Taken' = Taken + 1
    BY <2>2, <2>7 DEF Taken, Over
  <2>9. OnWire'
    BY <1>10, <2>1, <2>8
  <2>10. InOrder'
    BY <1>1, <1>2, <1>3, <2>3, <2>4, <2>7 DEF InOrder
  <2>11. Delivered'
    BY <1>2, <1>3, <2>3, <2>7 DEF Delivered, Holds
  <2> QED
    BY <2>9, <2>10, <2>11 DEF InStep
\* The last piece of a file that may be empty.
<1>15. ASSUME NEW n \in Nat, Await(n), receiving \in {"size", "data"}, at \in 1 .. Len(files), open' = at,
              n = files[at] - offset', offset' \in Nat, offset' + 3 <= Given,
              \A i \in Name \ {at} : disk'[i] = disk[i], Len(disk'[at]) >= offset',
              \A j \in 1 .. offset' : disk'[at][j] = Item("data", at, j)
       PROVE  InOrder' /\ Delivered' /\ Taken' = 3 + offset'
  <2>1. ~SenderGone /\ answers = 0
    BY <1>1, <1>3, <1>7, <1>15 DEF InOrder
  <2>2. at' = at /\ files' = files /\ files[at] \in Nat
    BY <1>1, <1>2, <1>15
  <2> DEFINE whole(i, m) == Len(disk'[i]) >= m /\ \A j \in 1 .. m : disk'[i][j] = Item("data", i, j)
  <2>5. /\ \A i \in 1 .. at - 1 : whole(i, files[i])
        /\ \A i \in Name \ 1 .. at : \A j \in 1 .. Len(disk'[i]) : disk'[i][j].kind = "old"
    <3>1. \A i \in 1 .. at - 1 : i \in Name \ {at}
      BY <1>1, <1>15, TransferAssumption DEF IInv, NotAhead, TypeOK, Name, TransferAssumption
    <3>2. \A i \in Name \ 1 .. at : i \in Name \ {at}
      BY <1>1
    <3> QED
      BY <1>3, <1>15, <3>1, <3>2 DEF Delivered, Holds
  <2>6. whole(at, offset')
    BY <1>15
  <2>7. (/\ \A i \in 1 .. at - 1 : whole(i, files[i])
         /\ answers' = 1 => whole(at, files[at])
         /\ receiving' = "data" => whole(at, offset')
         /\ \A i \in Name \ 1 .. at : \A j \in 1 .. Len(disk'[i]) : disk'[i][j].kind = "old")
        => Delivered'
    BY <2>2 DEF Delivered, Holds
  <2> HIDE DEF whole
  <2>3. CASE n > 0
    <3>1. receiving' = "data" /\ answers' = 0 /\ remaining' = n
      BY <2>1, <2>3, <1>15 DEF Await
    <3>2. Taken' = 3 + offset'
      BY <3>1 DEF Taken, Over
    <3>3. InOrder'
      BY <1>1, <1>2, <1>3, <1>15, <2>2, <2>3, <3>1 DEF InOrder
    <3> QED
      BY <2>5, <2>6, <2>7, <3>1, <3>2, <3>3
  <2>4. CASE n = 0
    <3>1. receiving' = "command" /\ answers' = 1
      BY <2>1, <2>4, <1>15 DEF Await, Close
    <3>2. files[at] = offset'
      BY <1>15, <2>2, <2>4
    <3>3. Taken' = 3 + offset'
      BY <2>2, <3>1, <3>2 DEF Taken, Over
    <3>4. sending \in {"data", "wait"} /\ sent = files[at]
      <4>1. Given >= 3 + files[at]
        <5>1. offset' + 3 <= Given
          BY <1>15
        <5> QED
          BY <1>1, <2>2, <3>2, <5>1
      <4>2. sending \in {"data", "wait"}
        BY <1>1, <1>15, <2>2, <4>1 DEF Given, Over
      <4>3. Given = 3 + sent
        BY <4>2 DEF Given, Over
      <4>4. sent >= files[at]
        BY <1>1, <2>2, <4>1, <4>3
      <4>5. sent <= files[at]
        BY <1>1, <1>3, <2>2, <4>2 DEF InOrder
      <4> QED
        BY <1>1, <2>2, <4>2, <4>4, <4>5
    <3>5. InOrder'
      BY <1>1, <1>2, <1>3, <3>1, <3>4 DEF InOrder
    <3> QED
      BY <2>5, <2>6, <2>7, <3>1, <3>2, <3>3, <3>5
  <2> QED
    BY <1>15, <2>3, <2>4
<1>16. CASE RecvSize
  <2>1. wire # <<>> /\ receiving = "size" /\ Taken = 2 /\ 1 \in 1 .. Len(wire)
    BY <1>1, <1>8, <1>16 DEF RecvSize, Taken, Over
  <2>2. wire[1].kind = "size"
    BY <1>16, Zenon DEF RecvSize
  <2>3. at \in 1 .. Len(files) /\ open = at /\ offset = 0
    BY <1>1, <1>3, <2>1 DEF InOrder
  <2>4. wire[1] = Stream[3]
    BY <1>5, <2>1
  <2>5. wire[1] = Item("size", at, files[at])
    BY <1>1, <1>6, <2>3, <2>4
  <2>6. wire[1].at = files[at] /\ files[at] \in Nat
    BY <1>1, <2>3, <2>5, ItemParts
  <2>7. wire' = Tail(wire) /\ Await(files[at]) /\ UNCHANGED <<open, offset, disk>>
    BY <1>16, <2>2, <2>6 DEF RecvSize, target
  <2>8. wire' = SubSeq(wire, 2, Len(wire))
    BY <1>8, <2>1, <2>7
  <2>9. Len(disk[at]) \in Nat
    BY <1>8, <2>3
  <2>10. offset' + 3 <= Given
    BY <1>1, <1>4, <2>1, <2>3, <2>7
  <2>11. InOrder' /\ Delivered' /\ Taken' = 3 + offset'
    BY <1>15, <2>1, <2>3, <2>6, <2>7, <2>9, <2>10
  <2>12. OnWire'
    BY <1>10, <2>1, <2>3, <2>7, <2>8, <2>11
  <2> QED
    BY <2>11, <2>12 DEF InStep
<1>17. CASE RecvData
  <2>1. PICK k \in 1 .. Len(wire) :
           /\ k <= remaining
           /\ disk' = [disk EXCEPT ![open] = Written(disk[open], SubSeq(wire, 1, k))]
           /\ wire' = SubSeq(wire, k + 1, Len(wire))
           /\ offset' = offset + k
           /\ Await(remaining - k)
    BY <1>17 DEF RecvData, Limit
  <2> DEFINE part == SubSeq(wire, 1, k)
  <2>2. /\ receiving = "data" /\ Taken = 3 + offset /\ at \in 1 .. Len(files) /\ open = at
        /\ remaining = files[at] - offset /\ files[at] \in Nat /\ open' = open
        /\ Len(disk[at]) >= offset /\ \A j \in 1 .. offset : disk[at][j] = Item("data", at, j)
    BY <1>1, <1>3, <1>17 DEF RecvData, Taken, Over, InOrder, Delivered, Holds
  <2>3. k \in Nat /\ k <= Len(wire)
    BY <1>1
  <2>4. /\ part \in Seq(Cell) /\ Len(part) = k
        /\ \A j \in 1 .. k : part[j] = wire[j]
    BY <1>8, TakeProperties
  <2> HIDE DEF part
  <2>5. ASSUME NEW j \in 1 .. k PROVE part[j] = Item("data", at, offset + j)
    <3>1. j \in 1 .. Len(wire) /\ j \in Nat
      BY <1>1, <2>3
    <3>2. part[j] = Stream[Taken + j]
      BY <1>5, <2>4, <3>1
    <3>3. ASSUME NEW m \in Nat, m > 3 PROVE Stream[m] = Item("data", at, m - 3)
      <4>1. ~(at > Len(files)) /\ m # 1 /\ m # 2 /\ m # 3
        BY <1>1, <2>2, <3>3
      <4> QED
        BY <1>6, <3>3, <4>1
    <3>4. Taken + j \in Nat /\ Taken + j > 3 /\ (Taken + j) - 3 = offset + j
      <4>1. Taken = 3 + offset
        BY <2>2
      <4>2. offset \in Nat /\ j \in Nat /\ j >= 1
        BY <1>1, <3>1
      <4> QED
        BY <4>1, <4>2
    <3> QED
      BY <3>2, <3>3, <3>4
  <2>6. /\ Written(disk[at], part) \in Seq(Cell)
        /\ Len(Written(disk[at], part)) >= offset + k
        /\ \A j \in 1 .. offset : Written(disk[at], part)[j] = disk[at][j]
        /\ \A j \in 1 .. k : Written(disk[at], part)[offset + j] = part[j]
    <3>1. disk[at] \in Seq(Cell) /\ Len(disk[at]) \in Nat
      BY <1>8, <2>2
    <3>2. offset \in 0 .. Len(disk[at])
      BY <1>1, <2>2, <3>1
    <3> HIDE DEF Cell
    <3>3. /\ Len(Written(disk[at], part)) >= offset + Len(part)
          /\ \A j \in 1 .. Len(part) : Written(disk[at], part)[offset + j] = part[j]
          /\ Written(disk[at], part) \in Seq(Cell)
          /\ \A j \in 1 .. offset : Written(disk[at], part)[j] = disk[at][j]
      BY <2>4, <3>1, <3>2, WrittenProperties
    <3> QED
      BY <2>4, <3>3
  <2>7. disk'[at] = Written(disk[at], part) /\ \A i \in Name \ {at} : disk'[i] = disk[i]
    BY <1>8, <2>1, <2>2 DEF part
  <2>8. ASSUME NEW j \in 1 .. offset + k PROVE disk'[at][j] = Item("data", at, j)
    <3>1. CASE j <= offset
      <4>1. j \in 1 .. offset
        BY <1>1, <2>3, <3>1
      <4> QED
        BY <2>2, <2>6, <2>7, <4>1
    <3>2. CASE j > offset
      <4>1. j - offset \in 1 .. k /\ offset + (j - offset) = j
        BY <1>1, <2>3, <3>2
      <4>2. part[j - offset] = Item("data", at, j)
        BY <2>5, <4>1
      <4> QED
        BY <2>6, <2>7, <4>1, <4>2
    <3> QED
      BY <1>1, <2>3, <3>1, <3>2
  <2>9. remaining - k \in Nat /\ remaining - k = files[at] - offset' /\ offset' \in Nat
    BY <1>1, <2>1, <2>2, <2>3
  <2>10. offset' + 3 <= Given
    BY <1>1, <1>4, <2>1, <2>2, <2>3
  <2>11. Len(disk'[at]) >= offset' /\ \A j \in 1 .. offset' : disk'[at][j] = Item("data", at, j)
    BY <2>1, <2>6, <2>7, <2>8
  <2>12. InOrder' /\ Delivered' /\ Taken' = 3 + offset'
    BY <1>15, <2>1, <2>2, <2>7, <2>9, <2>10, <2>11
  <2>13. Taken' = Taken + k
    BY <1>1, <2>1, <2>2, <2>3, <2>12
  <2>14. OnWire'
    BY <1>2, <1>4, <2>1, <2>13, TakeSome
  <2> QED
    BY <2>12, <2>14 DEF InStep
<1> QED
  BY <1>11, <1>13, <1>14, <1>16, <1>17 DEF ReceiverStep
-------------------------------------------------------------------------------
(* The specification.                                                      *)
LEMMA InitInv == Init => IInv
<1> SUFFICES ASSUME Init PROVE IInv
  OBVIOUS
<1>1. MaxFiles \in Nat /\ MaxCells \in Nat /\ MaxFaults \in Nat /\ 0 \in Name
  BY TransferAssumption DEF TransferAssumption, Name
<1>2. PICK n \in 0 .. MaxFiles : files \in [1 .. n -> 0 .. MaxCells]
  BY DEF Init
<1>3. files \in Seq(0 .. MaxCells) /\ Len(files) = n /\ n \in Nat
  BY <1>1, <1>2
<1>4. PICK m \in [Name -> 0 .. MaxCells] :
         disk = [i \in Name |-> [j \in 1 .. m[i] |-> Item("old", i, j)]]
  BY DEF Init
<1>5. ASSUME NEW i \in Name
      PROVE  /\ disk[i] \in Seq(Cell) /\ Len(disk[i]) \in Nat
             /\ \A j \in 1 .. Len(disk[i]) : disk[i][j].kind = "old" /\ disk[i][j] \in Cell
  <2>1. m[i] \in Nat /\ m[i] \in 0 .. MaxCells /\ disk[i] = [j \in 1 .. m[i] |-> Item("old", i, j)]
    BY <1>1, <1>4, <1>5
  <2>2. ASSUME NEW j \in 1 .. m[i] PROVE disk[i][j] \in Cell /\ disk[i][j].kind = "old"
    <3>1. j \in 0 .. MaxCells /\ disk[i][j] = Item("old", i, j)
      BY <1>1, <2>1
    <3> QED
      BY <1>5, <3>1, ItemType, ItemParts
  <2>3. disk[i] \in [1 .. m[i] -> Cell]
    BY <2>1, <2>2
  <2> HIDE DEF Cell
  <2>4. disk[i] \in Seq(Cell) /\ Len(disk[i]) = m[i]
    BY <2>1, <2>3
  <2> QED
    BY <2>1, <2>2, <2>4
<1>6. /\ receiver \in {"server", "client"} /\ sending = "hello" /\ receiving = "command"
      /\ at = 1 /\ sent = 0 /\ held = "junk" /\ open = 0 /\ remaining = 0 /\ offset = 0
      /\ wire = <<>> /\ answers = 0 /\ closes = 0 /\ strayed = FALSE /\ faults = 0
  BY DEF Init
<1>7. TypeOK
  <2>1. strayed \in BOOLEAN
    BY <1>6, Zenon
  <2>2. /\ Len(files) \in 0 .. MaxFiles /\ at \in 1 .. Len(files) + 1 /\ sent \in 0 .. MaxCells
        /\ open \in Name /\ remaining \in Nat /\ offset \in Nat
        /\ \A j \in 1 .. Len(wire) : wire[j] \in Cell
        /\ answers \in Nat /\ closes \in Nat /\ faults \in 0 .. MaxFaults
    BY <1>1, <1>3, <1>6
  <2> QED
    BY <1>5, <1>6, <2>1, <2>2 DEF TypeOK
<1>8. disk \in [Name -> Seq(Cell)]
  BY <1>4, <1>5
<1>9. InLoop
  BY <1>1, <1>3, <1>5, <1>6, <1>8 DEF InLoop
<1>10. OnWire
  <2>1. Given = 0 /\ Taken = 0 /\ Len(wire) = 0
    BY <1>6 DEF Given, Taken, Over
  <2> QED
    BY <2>1 DEF OnWire
<1>11. InOrder
  BY <1>3, <1>6 DEF InOrder
<1>12. Delivered
  BY <1>5, <1>6 DEF Delivered
<1> QED
  BY <1>6, <1>7, <1>9, <1>10, <1>11, <1>12 DEF IInv, NotAhead, InStep

LEMMA NextInv == IInv /\ [Next]_vars => IInv'
<1> SUFFICES ASSUME IInv, [Next]_vars PROVE IInv'
  OBVIOUS
<1>1. CASE UNCHANGED vars
  <2>1. UNCHANGED <<receiver, sending, files, at, sent, receiving, held, open, remaining, offset,
                    disk, wire, answers, closes, strayed, faults>>
    BY <1>1 DEF vars, sender, target
  <2>2. NotAhead' /\ InLoop' /\ Calm' = Calm
    BY <2>1 DEF IInv, NotAhead, TypeOK, InLoop, Calm, ReceiverGone, SenderGone
  <2>3. OnWire' = OnWire
    BY <2>1 DEF OnWire, Given, Taken, Stream
  <2>4. InOrder' = InOrder /\ Delivered' = Delivered
    BY <2>1 DEF InOrder, Delivered, Holds
  <2> QED
    BY <2>2, <2>3, <2>4 DEF IInv, InStep
<1>2. CASE Next
  <2>1. NotAhead' /\ InLoop'
    BY <1>2, SenderBase, ReceiverBase DEF Next, Failure, Base, Behind, NotAhead
  <2>2. Calm' => InStep'
    BY <1>2, CalmBefore, SenderInStep, ReceiverInStep DEF Next
  <2> QED
    BY <2>1, <2>2 DEF IInv
<1> QED
  BY <1>1, <1>2

\* The inductive invariant: the places of the two ends in their loops, and,
\* while nothing strayed or failed, that the wire holds exactly what one has
\* sent and the other has not taken.
THEOREM Invariant == Spec => []IInv
<1>1. Init => IInv
  BY InitInv
<1>2. IInv /\ [Next]_vars => IInv'
  BY NextInv
<1> QED
  BY <1>1, <1>2, PTL DEF Spec

\* However the stream is cut and whatever fails, send_file does not go past more
\* files than handle_file_reception or receive_files has closed, unless these have
\* gone and their answers are used up, and never past the first file.
THEOREM SenderNotAhead == Spec => []NotAhead
<1>1. IInv => NotAhead
  BY DEF IInv
<1> QED
  BY <1>1, Invariant, PTL

\* When every recv returned the one item it was meant for, the files that
\* send_file takes for received are at the other end, whole and in order.
THEOREM FilesDelivered == Spec => []CalmDelivery
<1>1. IInv => CalmDelivery
  <2> SUFFICES ASSUME IInv, Calm, NEW i \in 1 .. at - 1
               PROVE  /\ Len(disk[i]) >= files[i]
                      /\ SubSeq(disk[i], 1, files[i]) = Content(i, files[i])
    BY DEF CalmDelivery
  <2>1. Holds(i, files[i])
    BY DEF IInv, InStep, Delivered
  <2>2. i \in Name /\ i \in 1 .. Len(files) /\ files[i] \in Nat
    <3>1. at \in 1 .. Len(files) + 1 /\ Len(files) \in 0 .. MaxFiles /\ files \in Seq(0 .. MaxCells)
      BY DEF IInv, NotAhead, TypeOK, InLoop
    <3>2. MaxFiles \in Nat /\ MaxCells \in Nat
      BY TransferAssumption DEF TransferAssumption
    <3>3. i \in 1 .. Len(files) /\ i \in 0 .. MaxFiles
      BY <3>1, <3>2
    <3>4. files[i] \in 0 .. MaxCells
      <4>1. files \in Seq(0 .. MaxCells) /\ i \in 1 .. Len(files)
        BY <3>1, <3>3
      <4>2. \A S, q : q \in Seq(S) => \A j \in 1 .. Len(q) : q[j] \in S
        OBVIOUS
      <4> QED
        BY <4>1, <4>2
    <3> QED
      BY <3>2, <3>3, <3>4 DEF Name
  <2>3. disk[i] \in Seq(Cell) /\ Len(disk[i]) \in Nat
    BY <2>2 DEF IInv, InLoop
  <2> DEFINE n == files[i]
             old == disk[i]
             part == SubSeq(old, 1, n)
  <2>4. n \in Nat /\ n <= Len(old) /\ \A j \in 1 .. n : old[j] = Item("data", i, j)
    BY <2>1, <2>2, <2>3 DEF Holds
  <2>5. part = [j \in 1 .. n |-> old[j]]
    <3> HIDE DEF n, old
    <3> QED
      BY <2>3, <2>4 DEF old
  <2> QED
    BY <2>4, <2>5 DEF Content
<1> QED
  BY <1>1, Invariant, PTL

\* Nor does either process then end, and no file outside the selection is touched.
THEOREM TransferHarmless == Spec => []CalmHarmless
<1>1. IInv => CalmHarmless
  BY DEF IInv, CalmHarmless, InStep, InOrder, Delivered
<1> QED
  BY <1>1, Invariant, PTL
===============================================================================
