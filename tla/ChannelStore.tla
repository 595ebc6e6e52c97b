----------------------------- MODULE ChannelStore -----------------------------
(***************************************************************************)
(* The table of channels and its file, over several runs of the server:    *)
(* load_channels at the start, the commands that change the table, and     *)
(* save_channels in the handler of SIGINT, which interrupts whatever       *)
(* thread the signal is delivered to and does not take channels_mutex.     *)
(*                                                                         *)
(* The commands hold channels_mutex, so at most one is under way; it is    *)
(* taken step by step, as the save may run beside it.  A channel is its    *)
(* name: which names and descriptions do not survive the format of the     *)
(* file is given by constants.  Members are in Channels, what the handler  *)
(* does after the save in Shutdown.                                        *)
(***************************************************************************)
EXTENDS Naturals, Sequences, Functions

CONSTANTS
    MaxChannels,    \* MAX_CHANNELS
    Name,           \* names users give to channels
    Free,           \* the empty name: of a free entry
    Garbled,        \* what is read of an entry while it is written
    Rest,           \* the end of a description read as a name
    Reread,         \* what each name is after it was written and read: up to ':'
    Long,           \* names of 50 bytes or more: they do not fit name[50]
    Stored,         \* what an entry may read as once each was copied to it
    Endless,        \* long names with no ':' within reach
    Spilling        \* names of channels whose description has 200 bytes or more

AnyName == Name \cup {Garbled, Rest}

ASSUME StoreAssumption ==
    /\ MaxChannels \in Nat \ {0}
    /\ Free \notin AnyName /\ Garbled \notin Name /\ Rest \notin Name
    /\ Reread \in [AnyName -> AnyName]
    /\ Spilling \subseteq Name
    /\ Endless \subseteq Long /\ Long \subseteq Name
    /\ Stored \in [Name -> SUBSET Name]
    /\ \A n \in Name : IF n \in Long THEN Stored[n] \subseteq Long ELSE Stored[n] = {n}
    /\ \A n \in Long \ Endless : Reread[n] # n

Entry == 1 .. MaxChannels
Idle == [kind |-> "idle"]
Saving == {"open", "write"}

VARIABLES
    phase,      \* the server: "down", "loading" or "serving"
    table,      \* what channels[i].name reads as
    num,        \* num_channels
    line,       \* load_channels: lines read
    spilt,      \* the description read last was cut: its end is still to be read
    op,         \* the command that holds channels_mutex
    save,       \* the handler: "no", "open", "write" or "saved"
    frozen,     \* the handler runs in the thread of op, or of load_channels
    row,        \* save_channels: the entry to write next
    buffer,     \* lines written, not yet in the file
    file,       \* the lines of CHANNEL_FILE
    kept,       \* history: the table at the last SIGINT
    disturbed   \* history: something interfered with the last save

channels == <<table, num>>
loader == <<line, spilt>>
saver == <<save, frozen, row, buffer>>
vars == <<phase, channels, loader, op, saver, file, kept, disturbed>>

Empty == [i \in Entry |-> Free]
Listed == SubSeq(table, 1, num)

Init ==
    /\ phase = "down"
    /\ table = Empty /\ num = 0
    /\ line = 0 /\ spilt = FALSE
    /\ op = Idle
    /\ save = "no" /\ frozen = FALSE /\ row = 1 /\ buffer = <<>>
    /\ file = <<>> /\ kept = <<>> /\ disturbed = FALSE
-------------------------------------------------------------------------------
(* load_channels.                                                          *)
Start ==
    /\ phase = "down"
    /\ phase' = "loading"
    /\ UNCHANGED <<channels, loader, op, saver, file, kept, disturbed>>

Loading == phase = "loading" /\ ~frozen

\* The loop goes on with the next line, or ends.
Continue(spills) == line' = line + 1 /\ spilt' = spills /\ UNCHANGED phase
EndLoad == line' = 0 /\ spilt' = FALSE /\ phase' = "serving"

\* The name of the line begins where the last description was cut.
NameRead == IF spilt \/ line = Len(file) THEN Rest ELSE Reread[file[line + 1]]
\* A name is there and no ':' after it, as at the end of a last description.
Part ==
    \/ line = Len(file) /\ spilt
    \/ line < Len(file) /\ file[line + 1] \in Endless
    \/ line < Len(file) /\ file[line + 1] = Free /\ spilt
NoMore == ~spilt /\ (line < Len(file) => file[line + 1] = Free)

LoadLine ==
    /\ Loading /\ num < MaxChannels
    /\ line < Len(file) /\ file[line + 1] \notin Endless \cup {Free}
    /\ table' = [table EXCEPT ![num + 1] = NameRead]
    /\ num' = num + 1
    /\ Continue(file[line + 1] \in Spilling)
    /\ UNCHANGED <<op, saver, file, kept, disturbed>>

\* fscanf wrote the name of the entry and stopped: the entry does not count and
\* the loop ends.
LoadPart ==
    /\ Loading /\ num < MaxChannels /\ Part
    /\ table' = [table EXCEPT ![num + 1] = NameRead]
    /\ EndLoad
    /\ UNCHANGED <<num, op, saver, file, kept, disturbed>>

\* The table is full, the file is at its end, or the line has no name.
LoadDone ==
    /\ Loading
    /\ num = MaxChannels \/ NoMore
    /\ EndLoad
    /\ UNCHANGED <<channels, op, saver, file, kept, disturbed>>
-------------------------------------------------------------------------------
(* The commands.                                                           *)
\* A command takes channels_mutex; if a save is under way it disturbs it.
\* What begins after the save is lost with the process, and left out.
Begin(o) ==
    /\ phase = "serving" /\ op = Idle /\ save # "saved"
    /\ op' = o
    /\ disturbed' = (disturbed \/ save \in Saving)
    /\ UNCHANGED <<phase, channels, loader, saver, file, kept>>

Busy(kind) == phase = "serving" /\ op.kind = kind /\ ~frozen

FirstFree(i) == table[i] = Free /\ \A j \in 1 .. i - 1 : table[j] # Free

\* Mutant: any free entry will do, whatever the names of the others.
CreateUnchecked(n) ==
    /\ num # MaxChannels
    /\ \E i \in Entry : FirstFree(i) /\ Begin([kind |-> "copy", into |-> i, name |-> n])

\* create_channel, once it has a name that no entry reads as and a free entry.
\* Of a long name strncpy copies 50 bytes, and the description follows them.
Create(n) ==
    /\ num # MaxChannels
    /\ \A i \in Entry : table[i] # n
    /\ \E i \in Entry, r \in Stored[n] :
          FirstFree(i) /\ Begin([kind |-> "copy", into |-> i, name |-> r])

Copy ==
    /\ Busy("copy")
    /\ table' = [table EXCEPT ![op.into] = op.name]
    /\ op' = [kind |-> "count", name |-> op.name]
    /\ UNCHANGED <<phase, num, loader, saver, file, kept, disturbed>>

Count ==
    /\ Busy("count")
    /\ num' = num + 1
    /\ op' = Idle
    /\ UNCHANGED <<phase, table, loader, saver, file, kept, disturbed>>

\* delete_channel, once it has found an entry that reads as its argument.
Delete(n) ==
    \E i \in 1 .. num :
        /\ table[i] = n /\ \A j \in 1 .. i - 1 : table[j] # n
        /\ Begin([kind |-> "shift", into |-> i])

Shift ==
    /\ Busy("shift") /\ op.into < num
    /\ table' = [table EXCEPT ![op.into] = table[op.into + 1]]
    /\ op' = [op EXCEPT !.into = @ + 1]
    /\ UNCHANGED <<phase, num, loader, saver, file, kept, disturbed>>

\* Mutant: the last entry is not cleared.
ClearNothing ==
    /\ Busy("shift") /\ op.into = num
    /\ op' = [kind |-> "uncount"]
    /\ UNCHANGED <<phase, channels, loader, saver, file, kept, disturbed>>

Clear ==
    /\ Busy("shift") /\ op.into = num
    /\ table' = [table EXCEPT ![num] = Free]
    /\ op' = [kind |-> "uncount"]
    /\ UNCHANGED <<phase, num, loader, saver, file, kept, disturbed>>

Uncount ==
    /\ Busy("uncount")
    /\ num' = num - 1
    /\ op' = Idle
    /\ UNCHANGED <<phase, table, loader, saver, file, kept, disturbed>>
-------------------------------------------------------------------------------
(* save_channels, in the handler of SIGINT.                                *)
\* While the file is loaded there is one thread only.
Interrupt ==
    /\ phase # "down" /\ save = "no"
    /\ save' = "open"
    /\ frozen' \in (IF phase = "loading" THEN {TRUE} ELSE IF op = Idle THEN {FALSE} ELSE BOOLEAN)
    /\ kept' = Listed
    /\ disturbed' = (phase = "loading" \/ op # Idle)
    /\ UNCHANGED <<phase, channels, loader, op, row, buffer, file>>

\* Mutant: save_channels takes the lock of the table.
OpenFileLocked ==
    /\ phase # "down" /\ save = "open" /\ op = Idle
    /\ file' = <<>>
    /\ save' = "write"
    /\ UNCHANGED <<phase, channels, loader, op, frozen, row, buffer, kept, disturbed>>

\* fopen with "w" empties the file.
OpenFile ==
    /\ phase # "down" /\ save = "open"
    /\ file' = <<>>
    /\ save' = "write"
    /\ UNCHANGED <<phase, channels, loader, op, frozen, row, buffer, kept, disturbed>>

OpenFails ==
    /\ phase # "down" /\ save = "open"
    /\ save' = "saved"
    /\ disturbed' = TRUE
    /\ UNCHANGED <<phase, channels, loader, op, frozen, row, buffer, file, kept>>

\* What is read of an entry; the copy of an entry takes many instructions.
Seen(i) == {table[i]} \cup IF op.kind \in {"copy", "shift"} /\ op.into = i THEN {Garbled} ELSE {}

\* Mutant: the last channel is forgotten.
MoreButLast == row < num

\* num_channels is read again for every line.
More == row <= num

\* The lines stay in the buffer of the stream.
WriteLine ==
    /\ phase # "down" /\ save = "write" /\ More
    /\ \E name \in Seen(row) : buffer' = Append(buffer, name)
    /\ row' = row + 1
    /\ UNCHANGED <<phase, channels, loader, op, save, frozen, file, kept, disturbed>>

\* fclose writes them.
CloseFile ==
    /\ phase # "down" /\ save = "write" /\ ~More
    /\ file' = file \o buffer
    /\ save' = "saved" /\ row' = 1 /\ buffer' = <<>>
    /\ UNCHANGED <<phase, channels, loader, op, frozen, kept, disturbed>>

\* The end of the process: only the file stays, and what a save that was
\* disturbed should have kept is of no further interest.
Stop ==
    /\ phase' = "down"
    /\ table' = Empty /\ num' = 0
    /\ line' = 0 /\ spilt' = FALSE
    /\ op' = Idle
    /\ save' = "no" /\ frozen' = FALSE /\ row' = 1 /\ buffer' = <<>>
    /\ kept' = IF disturbed' THEN <<>> ELSE kept
    /\ UNCHANGED file

\* The rest of the handler.
Exit == phase # "down" /\ save = "saved" /\ UNCHANGED disturbed /\ Stop

\* The process is killed.
Kill == phase # "down" /\ disturbed' = (disturbed \/ save \in Saving) /\ Stop
-------------------------------------------------------------------------------
Command ==
    \/ \E n \in Name : Create(n) \/ Delete(n)
    \/ Copy \/ Count \/ Shift \/ Clear \/ Uncount
Load == LoadLine \/ LoadPart \/ LoadDone
Save == OpenFile \/ WriteLine \/ CloseFile

Next == Start \/ Load \/ Command \/ Interrupt \/ Save \/ OpenFails \/ Exit \/ Kill
Spec == Init /\ [][Next]_vars

\* The thread of the handler is scheduled.
FairSpec == Spec /\ WF_vars(Save)
-------------------------------------------------------------------------------
(* What holds.                                                             *)
TypeOK ==
    /\ phase \in {"down", "loading", "serving"}
    /\ table \in [Entry -> AnyName \cup {Free}] /\ num \in 0 .. MaxChannels
    /\ line \in 0 .. MaxChannels /\ spilt \in BOOLEAN
    /\ save \in {"no", "saved"} \cup Saving /\ frozen \in BOOLEAN
    /\ row \in 1 .. MaxChannels + 1 /\ Len(buffer) <= MaxChannels
    /\ Len(file) <= MaxChannels /\ disturbed \in BOOLEAN

Odd == Endless \cup Spilling \cup {n \in AnyName : Reread[n] # n}

\* What load_channels found: a save replaces it.
Loaded == save \in {"no", "open"} /\ \A i \in 1 .. Len(file) : file[i] \notin Odd

\* Types; and whatever was killed, interrupted or read half-written in earlier
\* runs: if every name and description in the file fits its format, the channels
\* are the first num_channels entries of the table between two commands, where
\* create_channel looks for room and the other functions for names.
StoreContiguous ==
    /\ TypeOK
    /\ Loaded /\ op = Idle => \A i \in Entry : table[i] # Free <=> i <= num

\* A name that fits is listed twice only if it was in the file: as often as
\* they may be loaded, saved and deleted, the names of a run that began with
\* different ones stay different, but for those that are too long for strcmp to
\* find.
StoreUnique ==
    Loaded /\ op = Idle /\ IsInjective(file) =>
        \A i, j \in 1 .. num : table[i] = table[j] => i = j \/ table[i] \in Long

\* A restart brings back the table as it was at the last SIGINT, up to the
\* first channel that does not fit the format, if nothing interfered with that
\* save; kills at other times lose what was done since and no more.
RestartKeepsPrefix ==
    [][Load /\ phase' = "serving" /\ ~disturbed =>
          \A i \in 1 .. Len(kept) :
             (\A j \in 1 .. i : kept[j] \notin Odd) => i <= num' /\ table'[i] = kept[i]]_vars

(* Why: what each command has done half-way, and what the save remembers.   *)
Job ==
    [kind : {"idle"}] \cup [kind : {"copy"}, into : Entry, name : Name]
    \cup [kind : {"count"}, name : Name] \cup [kind : {"shift"}, into : Entry]
    \cup [kind : {"uncount"}]

\* The command writes the table only while the server serves, and keeps within
\* its bounds; whoever was interrupted while it loaded goes no further.
Shape ==
    /\ TypeOK
    /\ op \in Job
    /\ file \in Seq(AnyName \cup {Free}) /\ buffer \in Seq(AnyName \cup {Free})
    /\ op.kind # "idle" => phase = "serving"
    /\ op.kind \in {"copy", "count"} => num < MaxChannels
    /\ op.kind = "shift" => op.into <= num
    /\ op.kind = "uncount" => num > 0
    /\ phase = "down" => table = Empty /\ num = 0 /\ save = "no"
    /\ phase # "loading" => line = 0 /\ ~spilt
    /\ phase = "loading" /\ save # "no" => frozen
    /\ Len(buffer) = row - 1
    /\ save # "write" => row = 1
    /\ save = "write" => file = <<>>

\* The entries in use, with the one a creation has filled and without the one a
\* deletion has cleared.
Used == CASE op.kind = "count" -> num + 1 [] op.kind = "uncount" -> num - 1 [] OTHER -> num

Filled ==
    /\ \A i \in 1 .. Used : table[i] # Free
    /\ op.kind = "copy" => FirstFree(op.into)

Layout ==
    Loaded =>
        /\ \A i \in Entry : table[i] # Free <=> i <= Used
        /\ phase = "loading" => line = num /\ ~spilt

\* A shift leaves the entry it is at twice in the table.
Distinct ==
    Loaded /\ IsInjective(file) =>
        /\ \A i, j \in 1 .. Used :
              i # j /\ (op.kind = "shift" => op.into \notin {i, j}) =>
                 table[i] # table[j] \/ table[i] \in Long
        /\ op.kind = "copy" => op.name \in Long \/ \A i \in Entry : table[i] # op.name
        /\ phase = "loading" => \A i \in 1 .. num : table[i] = file[i]

Fit(i) == \A j \in 1 .. i : kept[j] \notin Odd
SavedIs(lines) == Len(lines) = Len(kept) /\ \A j \in 1 .. Len(kept) : lines[j] = kept[j]

Memory ==
    ~disturbed =>
        /\ kept \in Seq(AnyName)
        /\ save \notin Saving => SavedIs(file)
        /\ save \in Saving =>
              /\ phase = "serving" /\ op.kind = "idle"
              /\ Len(kept) = num /\ \A j \in 1 .. num : kept[j] = table[j]
              /\ row <= num + 1 /\ \A j \in 1 .. row - 1 : buffer[j] = kept[j]
        /\ phase = "loading" => \A i \in 0 .. Len(kept) :
              i <= line /\ Fit(i) =>
                 /\ i <= num
                 /\ i > 0 => table[i] = kept[i]
                 /\ i = line => i = num /\ ~spilt

IInv == Shape /\ Filled /\ Layout /\ Distinct /\ Memory

\* The save ends, even when the thread it interrupted holds channels_mutex.
SaveEnds == save = "open" ~> (save = "saved" \/ phase = "down")
-------------------------------------------------------------------------------
(* What does not hold.                                                     *)
\* A save holds every channel that was there when it began and still is, when at
\* its end no command is under way and there are fewer channels than before
\* (channel.h: "Sauvegarde les channels dans un fichier").
NothingLost ==
    [][CloseFile /\ op = Idle /\ num < Len(kept) => \A i \in 1 .. Len(kept) :
          (\E j \in 1 .. num : table[j] = kept[i]) => \E k \in 1 .. Len(file') : file'[k] = kept[i]]_vars

\* The channels loaded are those of the file (channel.h: "Charge les channels à
\* partir d'un fichier").
LoadedIsSaved == [][Load /\ phase' = "serving" => SubSeq(table', 1, num') = file]_vars

\* A channel that was created is one of the first num_channels entries, where
\* every command looks for it (channel.h: "1 si le channel a été créé avec
\* succès").
CreatedIsListed == [][Count => \E i \in 1 .. num' : table'[i] = op.name]_vars
===============================================================================
