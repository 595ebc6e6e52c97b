----------------------------- MODULE FileTransfer -----------------------------
(***************************************************************************)
(* One connection of the file port, from accept to close: the loop that    *)
(* sends the selected files (send_file_thread_func of either program, and  *)
(* send_file) and the loop that writes them (handle_file_reception of the  *)
(* server, receive_files of the client).                                   *)
(*                                                                         *)
(* READY, a name, a size and the data are sent one after the other, and    *)
(* the receiver expects each recv to return one of them: nothing in the    *)
(* stream says where one ends.  The stream is a sequence of cells, one per *)
(* send of a small item and one per piece of data; a recv takes as many    *)
(* of the cells in flight as had arrived.                                  *)
(*                                                                         *)
(* Which thread of the server gets which connection is settled in          *)
(* FilePort; this is a connection whose two ends agree who sends.          *)
(***************************************************************************)
EXTENDS Naturals, Sequences

CONSTANTS
    MaxFiles,   \* bound: files selected
    MaxCells,   \* bound: pieces of data in a file
    WildSizes,  \* what an int that was never set, or four bytes of something else, may say
    MaxFaults   \* bound: failed opens, files that grow, processes killed

ASSUME TransferAssumption ==
    /\ MaxFiles \in Nat /\ MaxCells \in Nat /\ MaxFaults \in Nat
    /\ WildSizes \subseteq Nat

\* File i of the selection has name i; 0 is every other name.
Name == 0 .. MaxFiles
Item(kind, i, n) == [kind |-> kind, file |-> i, at |-> n]
Content(i, n) == [j \in 1 .. n |-> Item("data", i, j)]

VARIABLES
    receiver,   \* which program receives: "server" (an upload) or "client"
    \* the end that sends
    sending,    \* where it is in its loop
    files,      \* the lengths of the selected files, in order
    at,         \* the file it is at; the ones before are acknowledged
    sent,       \* pieces of that file already sent
    \* the end that receives
    receiving,  \* where it is in its loop
    held,       \* what its command buffer holds
    open,       \* the name it opened last
    remaining,  \* remaining_bytes
    offset,     \* where it writes next
    disk,       \* its files
    \* the connection
    wire,       \* cells on their way to the receiver
    answers,    \* READYs on their way to the sender
    \* histories
    closes,     \* files the receiver closed while the sender was there
    strayed,    \* a recv did not return exactly the item expected
    faults      \* failures so far

sender == <<sending, files, at, sent>>
target == <<open, offset, disk>>
vars == <<receiver, sender, receiving, held, remaining, target, wire, answers,
          closes, strayed, faults>>

Over == {"done", "dead"}        \* the end of the thread, of the process
SenderGone == sending \in Over
ReceiverGone == receiving \in Over

Init ==
    /\ receiver \in {"server", "client"}
    /\ sending = "hello" /\ receiving = "command"
    /\ \E n \in 0 .. MaxFiles : files \in [1 .. n -> 0 .. MaxCells]
    /\ at = 1 /\ sent = 0
       \* Nothing clears the buffer before the first recv.
    /\ held = "junk"
    /\ open = 0 /\ remaining = 0 /\ offset = 0
       \* Older files of the same names.
    /\ \E n \in [Name -> 0 .. MaxCells] :
          disk = [i \in Name |-> [j \in 1 .. n[i] |-> Item("old", i, j)]]
    /\ wire = <<>> /\ answers = 0
    /\ closes = 0 /\ strayed = FALSE /\ faults = 0

\* A failure the environment chose.
Fault == faults < MaxFaults /\ faults' = faults + 1
-------------------------------------------------------------------------------
(* The end that sends.                                                     *)
\* send: to an end that has closed, the cell is lost or the process ends
\* (SIGPIPE, which nobody ignores, or exit(1)).
Send(cell, next) ==
    \/ wire' = Append(wire, cell) /\ sending' = next
    \/ ReceiverGone /\ sending' = "dead" /\ UNCHANGED wire

SenderOnly == UNCHANGED <<receiver, receiving, held, remaining, target, closes>>

\* READY goes out even when nothing was selected.
SendHello ==
    /\ sending = "hello"
    /\ Send(Item("READY", 0, 0), IF at > Len(files) THEN "end" ELSE "name")
    /\ SenderOnly /\ UNCHANGED <<files, at, sent, answers, strayed, faults>>

SendName ==
    /\ sending = "name"
    /\ Send(Item("name", at, 0), "size")
    /\ SenderOnly /\ UNCHANGED <<files, at, sent, answers, strayed, faults>>

\* fopen fails: exit(1), in the server too.
OpenSourceFails ==
    /\ sending = "name" /\ Fault
    /\ sending' = "dead"
    /\ SenderOnly /\ UNCHANGED <<files, at, sent, wire, answers, strayed>>

\* The size is that of ftell, before the file is read.
SendSize ==
    /\ sending = "size"
    /\ Send(Item("size", at, files[at]), "data")
    /\ sent' = 0
    /\ SenderOnly /\ UNCHANGED <<files, at, answers, strayed, faults>>

\* An upload of a file of the same name writes it while this end reads it.
FileGrows ==
    /\ sending = "data" /\ Fault
    /\ \E n \in files[at] + 1 .. MaxCells : files' = [files EXCEPT ![at] = n]
    /\ SenderOnly /\ UNCHANGED <<sending, at, sent, wire, answers, strayed>>

SendData ==
    /\ sending = "data" /\ sent < files[at]
    /\ Send(Item("data", at, sent + 1), "data")
    /\ sent' = sent + 1
    /\ SenderOnly /\ UNCHANGED <<files, at, answers, strayed, faults>>

\* A size that changed is reported, nothing more.
AllSent ==
    /\ sending = "data" /\ sent = files[at]
    /\ sending' = "wait"
    /\ SenderOnly /\ UNCHANGED <<files, at, sent, wire, answers, strayed, faults>>

NextFile ==
    /\ at' = at + 1
    /\ sending' = IF at = Len(files) THEN "end" ELSE "hello"

\* Mutant: the loop goes on without an answer.
RecvReadyNoWait ==
    /\ sending = "wait"
    /\ NextFile
    /\ SenderOnly /\ UNCHANGED <<files, sent, wire, answers, strayed, faults>>

\* A message that starts with READY will do, one that answers an earlier file too.
RecvReady ==
    /\ sending = "wait"
    /\ \E k \in 1 .. answers : answers' = answers - k /\ strayed' = (strayed \/ k > 1)
    /\ NextFile
    /\ SenderOnly /\ UNCHANGED <<files, sent, wire, faults>>

\* recv fails, returns 0, and the buffer, which nothing set, is compared: after
\* a first file it may still hold that file's READY.
RecvReadyEnd ==
    /\ sending = "wait" /\ answers = 0 /\ ReceiverGone
    /\ \/ sending' = "dead" /\ UNCHANGED at
       \/ at > 1 /\ NextFile
    /\ SenderOnly /\ UNCHANGED <<files, sent, wire, answers, strayed, faults>>

SendEnd ==
    /\ sending = "end"
    /\ Send(Item("END", 0, 0), "done")
    /\ SenderOnly /\ UNCHANGED <<files, at, sent, answers, strayed, faults>>

SenderKilled ==
    /\ ~SenderGone /\ Fault
    /\ sending' = "dead"
    /\ SenderOnly /\ UNCHANGED <<files, at, sent, wire, answers, strayed>>
-------------------------------------------------------------------------------
(* The end that receives.                                                  *)
ReceiverOnly == UNCHANGED <<receiver, sender>>

\* recv takes the first k cells where one of the given kinds was expected.
Take(k, kinds) ==
    /\ k \in 1 .. Len(wire)
    /\ wire' = SubSeq(wire, k + 1, Len(wire))
    /\ strayed' = (strayed \/ k > 1 \/ wire[1].kind \notin kinds)
\* Mutant: a socket that does not block.
EndedEmpty == wire = <<>>

\* recv returns 0.
Ended == wire = <<>> /\ SenderGone
\* recv fails: the other end closed before it had read everything.
Reset == Ended /\ answers > 0

\* Mutant: END is one more word the loop ignores.
ObeyNoEnd(word) == receiving' = IF word = "READY" THEN "name" ELSE "command"

Obey(word) ==
    receiving' = CASE word = "READY" -> "name" [] word = "END" -> "done" [] OTHER -> "command"

RecvCommand ==
    /\ receiving = "command"
    /\ \E k \in 1 .. Len(wire) : Take(k, {"READY", "END"})
    /\ held' = IF wire[1].kind \in {"READY", "END"} THEN wire[1].kind ELSE "junk"
    /\ Obey(held')
    /\ ReceiverOnly /\ UNCHANGED <<remaining, target, answers, closes, faults>>

\* recv returns 0: the buffer holds what it held, and if that is no command the
\* loop turns for ever.
RecvCommandEnd ==
    /\ receiving = "command" /\ Ended
    /\ Obey(held)
    /\ ReceiverOnly
    /\ UNCHANGED <<held, remaining, target, wire, answers, closes, strayed, faults>>

OpenTarget(name) == open' = name /\ offset' = 0 /\ receiving' = "size"

RecvName ==
    /\ receiving = "name"
    /\ \E k \in 1 .. Len(wire) : Take(k, {"name"})
    /\ OpenTarget(IF wire[1].kind = "name" THEN wire[1].file ELSE 0)
    /\ ReceiverOnly /\ UNCHANGED <<held, remaining, disk, answers, closes, faults>>

\* open fails: the thread closes the connection.
OpenTargetFails ==
    /\ receiving = "name"
    /\ \E k \in 1 .. Len(wire) : Take(k, {"name"})
    /\ \/ Fault
       \/ wire[1].kind # "name" /\ UNCHANGED faults
    /\ receiving' = "done"
    /\ ReceiverOnly /\ UNCHANGED <<held, remaining, target, answers, closes>>

\* recv returns 0: the server makes the name empty, which is no file; the client
\* opens the name its buffer holds.
RecvNameEnd ==
    /\ receiving = "name" /\ Ended
    /\ \/ receiving' = "done" /\ UNCHANGED <<open, offset>>
       \/ receiver = "client" /\ OpenTarget(open)
    /\ ReceiverOnly
    /\ UNCHANGED <<held, remaining, disk, wire, answers, closes, strayed, faults>>

\* close, and the answer; a sender that is gone resets the connection.
Close ==
    /\ closes' = IF SenderGone THEN closes ELSE closes + 1
    /\ \/ answers' = (IF SenderGone THEN 1 ELSE answers + 1) /\ receiving' = "command"
       \/ SenderGone /\ receiving' = "dead" /\ UNCHANGED answers

\* remaining_bytes = n.
Await(n) ==
    /\ remaining' = n
    /\ IF n > 0 THEN receiving' = "data" /\ UNCHANGED <<answers, closes>> ELSE Close

\* Four bytes, that may be the start of something else.
RecvSize ==
    /\ receiving = "size" /\ wire # <<>>
    /\ strayed' = (strayed \/ wire[1].kind # "size")
    /\ IF wire[1].kind = "size"
       THEN wire' = Tail(wire) /\ Await(wire[1].at)
       ELSE /\ wire' \in {Tail(wire), <<Item("scrap", 0, 0)>> \o Tail(wire)}
            /\ \E n \in WildSizes : Await(n)
    /\ ReceiverOnly /\ UNCHANGED <<held, target, faults>>

\* recv returns 0: the server gives up, the client takes the int as it is.
RecvSizeEnd ==
    /\ receiving = "size" /\ Ended
    /\ IF receiver = "server"
       THEN receiving' = "done" /\ UNCHANGED <<remaining, answers, closes>>
       ELSE \E n \in WildSizes : Await(n)
    /\ ReceiverOnly /\ UNCHANGED <<held, target, wire, strayed, faults>>

\* Mutant: the file is opened with O_APPEND.
WrittenAppend(old, cells) == old \o cells

\* What the file holds when cells are written at offset.
Written(old, cells) ==
    SubSeq(old, 1, offset) \o cells \o SubSeq(old, offset + Len(cells) + 1, Len(old))

\* At most min(BUFFER_SIZE, remaining_bytes).
Limit == remaining

\* recv returns 0: nothing is written and the loop asks again, for ever; that
\* changes nothing here.
RecvData ==
    /\ receiving = "data"
    /\ \E k \in 1 .. Len(wire) :
          /\ k <= Limit
          /\ LET cells == SubSeq(wire, 1, k)
             IN  /\ disk' = [disk EXCEPT ![open] = Written(@, cells)]
                 /\ strayed' = (strayed \/ \E j \in 1 .. k : cells[j].kind # "data")
          /\ wire' = SubSeq(wire, k + 1, Len(wire))
          /\ offset' = offset + k
          /\ Await(remaining - k)
    /\ ReceiverOnly /\ UNCHANGED <<held, open, faults>>

\* recv fails: in the data, that is the end of the file.
RecvReset ==
    /\ ~ReceiverGone /\ Reset
    /\ IF receiving = "data" THEN Close ELSE receiving' = "done" /\ UNCHANGED <<answers, closes>>
    /\ ReceiverOnly /\ UNCHANGED <<held, remaining, target, wire, strayed, faults>>

ReceiverKilled ==
    /\ ~ReceiverGone /\ Fault
    /\ receiving' = "dead"
    /\ ReceiverOnly
    /\ UNCHANGED <<held, remaining, target, wire, answers, closes, strayed>>
-------------------------------------------------------------------------------
SenderStep ==
    \/ SendHello \/ SendName \/ SendSize \/ SendData \/ AllSent
    \/ RecvReady \/ RecvReadyEnd \/ SendEnd
ReceiverStep ==
    \/ RecvCommand \/ RecvCommandEnd \/ RecvName \/ RecvNameEnd
    \/ RecvSize \/ RecvSizeEnd \/ RecvData \/ RecvReset
Failure == OpenSourceFails \/ FileGrows \/ SenderKilled \/ OpenTargetFails \/ ReceiverKilled

Next == SenderStep \/ ReceiverStep \/ Failure
Spec == Init /\ [][Next]_vars

\* Both ends are threads of their own that the scheduler runs, and what was
\* sent arrives.
FairSpec == Spec /\ WF_vars(SenderStep) /\ WF_vars(ReceiverStep)
-------------------------------------------------------------------------------
(* What holds.                                                             *)
Cell == [kind : {"READY", "END", "name", "size", "data", "scrap", "old"},
         file : Name, at : 0 .. MaxCells]

\* Shape of the state; in particular no recv takes more than remaining_bytes
\* (remaining stays a natural number).
TypeOK ==
    /\ receiver \in {"server", "client"}
    /\ sending \in {"hello", "name", "size", "data", "wait", "end"} \cup Over
    /\ receiving \in {"command", "name", "size", "data"} \cup Over
    /\ Len(files) \in 0 .. MaxFiles
    /\ at \in 1 .. Len(files) + 1 /\ sent \in 0 .. MaxCells
    /\ held \in {"junk", "READY", "END"} /\ open \in Name
    /\ remaining \in Nat /\ offset \in Nat
    /\ \A i \in Name : \A j \in 1 .. Len(disk[i]) : disk[i][j] \in Cell
    /\ \A j \in 1 .. Len(wire) : wire[j] \in Cell
    /\ answers \in Nat /\ closes \in Nat /\ strayed \in BOOLEAN /\ faults \in 0 .. MaxFaults

Calm == ~strayed /\ faults = 0

\* When every recv returned the one item it was meant for, the files the sender
\* takes for received (send_file returned) are at the other end, whole and in
\* order, whichever program receives.
CalmDelivery ==
    Calm => \A i \in 1 .. at - 1 :
               /\ Len(disk[i]) >= files[i]
               /\ SubSeq(disk[i], 1, files[i]) = Content(i, files[i])

\* Nor does either process then end, and what was not selected is not touched.
CalmHarmless ==
    Calm => /\ sending # "dead" /\ receiving # "dead"
            /\ \A i \in Name \ 1 .. at : \A j \in 1 .. Len(disk[i]) : disk[i][j].kind = "old"

\* Types; and however the stream is cut and whatever fails, the sender has not
\* gone past more files than the receiver has closed while it was there, with the
\* answers under way counted in.  Only when the receiver has gone and all its
\* answers are used up may it go on with a READY its buffer still holds
\* (file_utils.c:89-93), and never past the first file.
NotAhead ==
    /\ TypeOK
    /\ at > 1 => closes > 0
    /\ ~ReceiverGone => at - 1 <= closes
    /\ ~SenderGone /\ (answers > 0 \/ ~ReceiverGone) => at - 1 + answers <= closes

\* Why: the places of the two ends in their loops.
InLoop ==
    /\ files \in Seq(0 .. MaxCells) /\ wire \in Seq(Cell) /\ disk \in [Name -> Seq(Cell)]
    /\ sending \in {"name", "size", "data", "wait"} => at <= Len(files)
    /\ sending = "hello" => at <= Len(files) \/ Len(files) = 0
    /\ sending \in {"end", "done"} => at = Len(files) + 1
    /\ offset <= Len(disk[open])

\* What is sent for the file the sender is at, or at the end, item by item.
Stream == [j \in Nat |->
    IF at > Len(files)
    THEN IF Len(files) = 0 /\ j = 1 THEN Item("READY", 0, 0) ELSE Item("END", 0, 0)
    ELSE CASE j = 1 -> Item("READY", 0, 0)
           [] j = 2 -> Item("name", at, 0)
           [] j = 3 -> Item("size", at, files[at])
           [] OTHER -> Item("data", at, j - 3)]
\* How many of these are sent, and how many taken.
Given ==
    CASE sending = "hello" -> 0 [] sending = "name" -> 1 [] sending = "size" -> 2
      [] sending \in {"data", "wait"} -> 3 + sent
      [] sending = "end" -> IF Len(files) = 0 THEN 1 ELSE 0
      [] sending \in Over -> IF Len(files) = 0 THEN 2 ELSE 1
Taken ==
    CASE receiving = "command" -> IF answers = 0 THEN 0 ELSE 3 + files[at]
      [] receiving \in {"name", "done", "dead"} -> 1
      [] receiving = "size" -> 2
      [] receiving = "data" -> 3 + offset

Holds(i, n) == Len(disk[i]) >= n /\ \A j \in 1 .. n : disk[i][j] = Item("data", i, j)

\* The wire holds what is sent and not taken.
OnWire == Len(wire) = Given - Taken /\ \A j \in 1 .. Len(wire) : wire[j] = Stream[Taken + j]

\* Where one end is says where the other can be.
InOrder ==
    /\ sending # "dead" /\ receiving # "dead"
    /\ sending = "data" => sent <= files[at]
    /\ sending = "wait" => sent = files[at]
    /\ answers \in {0, 1}
    /\ answers = 1 => receiving = "command" /\ sending \in {"data", "wait"} /\ sent = files[at]
    /\ receiving = "name" => at <= Len(files) \/ Len(files) = 0
    /\ receiving \in {"size", "data"} => at <= Len(files) /\ open = at
    /\ receiving = "size" => offset = 0
    /\ receiving = "data" => remaining = files[at] - offset /\ remaining > 0
    /\ receiving = "done" => sending = "done"

\* What the receiver has written, and what it has not.
Delivered ==
    /\ \A i \in 1 .. at - 1 : Holds(i, files[i])
    /\ answers = 1 => Holds(at, files[at])
    /\ receiving = "data" => Holds(at, offset)
    /\ \A i \in Name \ 1 .. at : \A j \in 1 .. Len(disk[i]) : disk[i][j].kind = "old"

\* The two ends are in step.
InStep == OnWire /\ InOrder /\ Delivered

IInv == NotAhead /\ InLoop /\ (Calm => InStep)

\* Both ends stop when nothing strayed or failed: neither waits for an item the
\* other believes it has sent.
CalmEnds == <>(~Calm \/ (SenderGone /\ ReceiverGone))
-------------------------------------------------------------------------------
(* What does not hold.                                                     *)
\* A file whose answer came back was written (file_utils.c: "File data sent
\* successfully"), when no process was killed and no file failed.
AckedIsWritten ==
    faults = 0 => \A i \in 1 .. at - 1 :
                     \A j \in 1 .. files[i] :
                        j <= Len(disk[i]) /\ disk[i][j] = Item("data", i, j)

\* A file received has the size that was announced (file_utils.c: "Le fichier a
\* été reçu avec succès").
ReceivedSize == Calm => \A i \in 1 .. at - 1 : Len(disk[i]) = files[i]

\* The receiver notices that the other end has closed (handle_file_reception.c:
\* "La connexion a été fermée par le client").
ClosedIsNoticed == (receiver = "server" /\ SenderGone) ~> ReceiverGone

\* The transfer writes the selected files, and no other
\* (file_transfer_threads.c: "Cette fonction envoie les fichiers sélectionnés").
OnlySelected == [][open' # open => open' \in 1 .. Len(files)]_open
===============================================================================
