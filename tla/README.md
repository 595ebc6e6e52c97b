# A TLA+ model of the chat server and its client

The program is a chat in C: a server with one thread per client, a table of
channels, a port for file transfers, and a client with a sending and a
receiving thread. This directory models the parts of it where several threads,
processes or streams meet, checks them with TLC and proves their safety
properties, for instances of any size, with TLAPS.

Paths below are relative to the program's source directory (`src/` of the
repository); `PROJECT.json` gives for every definition the file and the lines it
translates.

## 1. The system

### Components and their state

| Component | Source | State | Operations |
| --- | --- | --- | --- |
| Acceptor | `serveur/wait_for_client.c`, `rk_sema.h` | the semaphore `client_slot`, the counter of indices | wait for a slot, accept, insert, start a thread |
| List of clients | `serveur_utils/client_list.c` | `client_list_head`, `client_list_mutex`, the `client_info` nodes (index, socket, pseudo) | insert, remove, find by pseudo, test a pseudo |
| Client thread | `serveur/client_handler.c`, `handle_pseudo.c` | the position in its loop, its two buffers, `strtok`'s position, shared by all | choose a pseudo, read and cut a line, one branch per command, `disconnect_client` |
| Messages | `communication.c`, `client_event.c`, `handle_all_message.c`, `handle_mp_message.c`, `handle_tag.c`, `handle_liste_user.c`, `handle_help.c` | the walk of a broadcast | send to one, to all, to the owner of a pseudo |
| Channels | `channel.c`, `send_msg_channel.c`, `listChannel.c` | `channels`, `num_channels`, `channels_mutex`; members are *copies* of `client_info` | create, join, leave, delete, send, list |
| Channel file | `channel.c` (load, save) | the file `CHANNEL_FILE` | load at the start, save in the handler of SIGINT |
| Selection of files | `handle_file_send.c`, client `handle_get_files.c`, `get_file_valid_indice.c`, the two message threads | the mode of the receiving thread, the pipe, both directions of the socket | ask, choose, judge, confirm |
| Port of the transfers | `handle_file_reception.c`, `handle_file_send.c`, client `file_transfer_threads.c` | the listening socket's backlog, the threads waiting in accept | connect, accept, start a thread |
| Transfer | `file_utils.c`, the loops of the two above | the position in READY, name, size, data; the files | send_file, receive |
| Shutdown | `signal_utils.c`, `serveur_utils.c` | none of its own | save the channels, tell the clients, free the list, exit |
| Client | `client.c`, `client_utils.c`, the two message threads, `signal_utils.c` | pseudo, pipe, default channel | choose a pseudo, send lines, show messages; see the rows above |

### How they interact

* The acceptor and the client threads share the semaphore and the list. The
  acceptor inserts a node *before* its user has a pseudo, and the client thread
  writes the pseudo without the lock.
* Broadcasts hold the lock of the list over one `send` per node. A `send` that
  fails leaves the function with the lock held; one whose client does not read
  waits, with the lock.
* Descriptors are closed before the node leaves the list, so the kernel may
  give them to the next connection. Channel members and the recipient of a
  private message are used after the point where this can happen.
* Channels have their own lock. `create_channel` tests for room before it takes
  it; `save_channels` does not take it at all.
* All sessions cut their lines with `strtok`, which keeps one position for the
  whole process.
* For `/getFiles` four parties talk over two streams and a pipe, and any other
  session may write into the same socket in between. The result is a thread of
  the server that waits in `accept` on the port of the transfers. For
  `/sendFiles` the session itself waits there.
* On a transfer's connection nothing marks where an item ends: each `recv` is
  taken for one item.
* The handler of SIGINT runs in whatever thread the signal interrupts and takes
  the lock of the list there; the other threads go on meanwhile.

### What is hard

The order in which threads take the locks; the half-way failure of a broadcast;
descriptors and memory used again; a test in one critical section and the
action in another; a library's hidden variable; messages that arrive in a mode
that does not expect them; a stream read in pieces other than those it was
written in; users who leave at any point; clients that stop reading; one
listening socket for everybody; a signal at any moment, and a file that is
written beside the threads and read back by the next run. `PROJECT.json` lists
each under "hazards" with its line and the properties that watch it.

### What makes each component correct

* *Registry*: slots are neither lost nor made; the list holds exactly the
  connections in service; a broadcast never visits a freed node; a thread's
  descriptor is its own; who leaves is released.
* *Commands*: a command is served with the words of its own line; a word that is
  missing is an error and not a crash.
* *Channels*: names unique, no entry behind a gap, members are those who joined,
  a message reaches all of them; creations racing on the unlocked test do no harm.
* *Channel file*: what a SIGINT saved is there after a restart; no sequence of
  kills, saves and loads breaks the table.
* *Sends*: sessions wait for clients, never for each other in a circle.
* *Selection*: nobody waits for an answer that will not come; nobody connects
  unasked; a departed user does not hold the session; the two ends agree on
  what was selected.
* *Port*: every connection finds a thread.
* *Transfer*: what is acknowledged is on disk; both ends stop.
* *Shutdown*: it ends; nodes are freed once.
* *Client*: every message is shown, and a choice of pseudo is answered.

## 2. The modules

| Module | Models | Written as |
| --- | --- | --- |
| `ClientPool` | what acceptor and threads promise together: a pool of slots | abstract specification |
| `ClientRegistry` | acceptor, list, client threads, messages | implements `ClientPool` |
| `ChannelDirectory` | what the table promises: a set of names with rosters | abstract specification |
| `Channels` | the table and its commands | implements `ChannelDirectory` |
| `ChannelStore` | the table and its file, over several runs of the server | detailed |
| `Strtok` | the library's function, as the code uses it | extended by `CommandWords` |
| `CommandWords` | the sessions cutting their lines | composes sessions and `Strtok` |
| `SendBuffers` | sends that wait, with the two locks | detailed |
| `GetFiles` | one client and its session agreeing on files | detailed |
| `FilePort` | several clients and one listening socket | detailed |
| `FileTransfer` | one connection of that port | detailed |
| `Shutdown` | the handler of SIGINT beside the sessions | detailed |
| `Frames` | a client taking what its session sends | detailed |
| `MC_*` | instances for TLC: lines, names and symmetry | |
| `*_proofs` | theorems and their proofs: one module for each of the above, `Streams_proofs` for `CommandWords`, `Frames` and `SendBuffers` | |

The names of `Frames` and `SendBuffers` that others have too carry a prefix
(`FramesInit`, `SendsInit` and so on), so that `Streams_proofs` can extend the
three modules.

### ClientRegistry

A `Client` is one TCP connection with the thread that serves it. `pc[c]` is
where that thread is, in the order of `handle_client`: `choose`, `check`, `name`
(the pseudo), `lock` and `walk` (a broadcast), `cmd`, `mp`, then `close`,
`remove`, `post`. Before that the acceptor has it (`new`, `added`, `unadd`).
`list`, `mutex`, `rest` are the list, the holder of its lock and what the
broadcast in progress has still to visit. A critical section is one step; a
broadcast is one step per node. `Sent` gives the outcomes of `send`: delivered,
into the void after the peer closed, failed, or SIGPIPE. `status` records that
the process died; nothing runs after that.

Which command a buffer holds is left open: `RecvAll`, `RecvTag`, `RecvList`,
`RecvMp`, `RecvOther`, `RecvQuit` may each come next (`CommandWords` says how a
line becomes one of them). The file commands are not among them: a session held
in `/sendFiles` or `/getFiles` is the subject of `FilePort` and `GetFiles`, and
`DepartedIsReleased` says nothing of it.

A `send` to a user who is there may not return before that user reads:
`NeedsUser` says when a thread is in such a call, or in a `recv` from its own
user, and `HeldUp` when the user is another's.

The server's own node is on the list with a socket `add_serveur_account` never
sets; `Init` takes 0, which broadcasts skip, or a stray value. A node's memory
that was freed is read by `/mp` as any descriptor.

### CommandWords and Strtok

`Strtok` has one cell per word, separator or zero of each thread's buffer, and
`olds`, the position all threads share. A call is two steps, `Enter` (read the
position) and `Return` (cut, leave the position behind the token), because
another session may come in between. A pointer names the thread whose buffer it
points into. `CommandWords` is the loop of `handle_client`: `Clear`, `Recv` (one
line, or two that arrived together, over what the buffer held), `First`, `More`
and `Cut`, then `Refuse`, `Serve` or `ServeTag`. Five commands stand for the five
ways of cutting: two more words (`mp`), two with different delimiters
(`create`), one (`join`), the rest of the line (`all`), none (`help`). `alone`
and `event` are histories: whether another session has cut since the last read,
and the words the last command was served with. Cells know the line and the
place they come from, and are compared with what the user typed: `Given` are the
words of the event at their places, `Owed` those of the line. `CommandWordsAssumption`
lets any two lines fit the buffer with a zero behind them. A command of one word
has its newline left in the buffer when a second line came with it, and reads on
into that line (`Sticking`).

### Channels

Every function of `channel.c` but the first test of `create_channel` runs under
`channels_mutex`: one step each, two for a creation. A slot of a member array is
a descriptor and an owner (`who`), the owner standing for the pointer to the
pseudo, freed when the connection ends. A new entry's slots hold garbage
(`GarbageFd`, `Junk`), as the code copies an uninitialised struct. Comparing
with a pointer to freed memory may give either answer (`Matches`,
`MatchesNone`). The answers' texts are left out, as is `/getChannels`, which
changes nothing. An entry's name is what `strcmp` reads there: `Stored` gives
for a name of 50 bytes or more (`Long`), which `strncpy` leaves without its
zero, some other long name, since the description follows it. `Init` allows what
`load_channels` may leave of a file that does not fit: equal names, and an entry
behind the last that is not counted (`clean` says that neither is there). That a
send to a departed member may raise SIGPIPE is modelled in `ClientRegistry`
only.

### ChannelStore

A channel is its name. `phase` is the server (down, loading, serving), `op` the
command that holds `channels_mutex`, taken in the steps `Copy` and `Count` or
`Shift`, `Clear` and `Uncount` because the handler of SIGINT may run between
them; `frozen` says that it runs in the very thread of `op`. `save`, `row` and
`buffer` are `save_channels`: `OpenFile` empties the file, `WriteLine` reads
`num_channels` and one entry, `CloseFile` writes. An entry that is being copied
may be read `Garbled`. `load_channels` is `LoadLine`, `LoadPart` (a name without
`:` behind it: the entry is written, `num_channels` is not) and `LoadDone`.
Which names survive the format is data: `Reread` (up to the first `:`),
`Long` and `Stored` (50 bytes or more, and what an entry reads as after such a
name was copied to it), `Endless` (those of them with no `:` within reach when
read back), `Spilling` (a description of 200 bytes or more,
whose rest is read as the next name). `kept` is the table as the last SIGINT found
it, `disturbed` whether anything interfered with that save (a command at work, a
load not finished, a kill, a file that does not open). Two
saves at once (a second SIGINT during the first) are left out.

### SendBuffers

`unread[c]` counts the frames in a connection's buffers, at most `Capacity`;
`reading[c]` says whether the client reads. A command is a lock, a row of sends
with it (`held`) and a row without (`after`): `SendAll`, `SendChannel`,
`ListChannels`, `Lookup`, `ChangeChannels` are the combinations the code has.
`Stall` makes a client stand still or go on.

### GetFiles

`user` and `listener` are the client's sending and receiving thread, `pipe` the
pipe between them, `up` and `down` the two directions of the socket, `session`
the server's thread. Messages down are whole (each side uses 2048 bytes); the
stream up is a sequence of blocks of 100 bytes, each known by its first string.
A read of `handle_client` takes up to a selection's length, a read of the
selection loop one block, or two if the first is the short end of something.
The session leaves the command without an answer when the selection is "exit"
(`LeaveOnExit`; `exited` remembers it). `Leave` is the client's Ctrl-C, `Reset` a connection reset because the client
left messages unread, `Shutdown` and `ServerExits` the server's handler.

### FilePort

`queue[c]` holds the commands a session has not read; `waiting[c]` its sending
threads in `accept`; `backlog` the connections no `accept` has returned, oldest
first. `GetFiles`' exchange is one step here (`RecvGetFiles`), a gone client
being confirmed too, as `GetFiles` shows; `RecvGetFilesExit` is the selection
that is given up. `local[c]` is the stack variable whose
address the reception thread is given: `StartReception` reads the latest value
or an overwritten one.

### FileTransfer

One connection whose two ends agree who sends; `receiver` says which program
receives, as the two loops differ where a `recv` returns 0. `sending` and
`receiving` are the positions in the loops. `wire` holds one cell per item sent:
`READY` or `END`, a name, a size, a piece of data; `Take` gives a `recv` any
number of cells at the front and the code looks at the first, `RecvSize` takes
four bytes of whatever comes. `answers` are the READYs going back. `disk` holds
older files of the same names, which opening does not truncate. `held` and
`open` are buffers nothing clears, used when a `recv` returns 0. Failures, at
most `MaxFaults`: a file that cannot be opened, a file that grows while it is
sent, a process killed. `strayed` records that some `recv` took something else
than the one item expected.

### Shutdown

Sessions are where they may be when the handler comes: in `serve`, in a
broadcast of theirs, or leaving (`bye`, `leaving`, `closing`, `closed`, `found`,
`ended`). A broadcast is two steps, `BeginCast` and its end: `CastDone`,
`CastFails` (with the lock kept) or `CastKills`. A removal is `FindNode` and
`FreeNode`. The handler interrupts any thread (`host`, which stays where it was),
says `event` and `fin`, sleeps, destroys the mutex if nobody holds it, and
removes the head of the list until there is none: it tests the head
(`TestHead`), reads its index (`ReadIndex`, or `ReadNull` when the list has
become empty) and then takes the lock (`FreeHead`), and a session may free that
node at any of these points (`aim` is what the handler has read). A destroyed mutex
locks nobody out: `pthread_mutex_lock` then returns EINVAL, which no caller looks
at.

### Frames

A frame is `Parts` parts: the string is in the first `TextEnd` of them, and the
`:` of a message in the part `ColonAt`. `arrived` says how much of `stream` the
client can read; a `recv` takes at most a frame's length and may end anywhere,
also inside the string. The client looks at the string its buffer begins with.
`client` is `asking` and `waiting` (the loop that chooses a pseudo), `talking`,
`indices` (in `get_file_valid_indice`) or `gone`; `server` is its session:
`choosing` and `checking` (a pseudo), `talking`, or `judging` a selection.
`locked` says that another thread has the lock of the list, which the test of a
pseudo needs. What a buffer that begins in the middle of a message holds is up
to the users, so it may look like any frame (`Anything`); a cut answer to a
pseudo is completed by what the buffers held before (`Answers`).

`shown` are the messages displayed, `quiet` the frames sent when the client's
loop had read everything before, `broken` those whose first `recv` ended before
the `:`.

## 3. What is checked

| Run | Shows | Instance | Distinct states, about |
| --- | --- | --- | --- |
| `registry` | `IInv` and its parts: slots, list, walk and descriptors stay consistent; the pool is implemented; a kept lock stays kept; who leaves is released unless the process died, the list is locked for good or a `send` waits for ever | 2 connections, 2 slots, 2 descriptors, 2 inputs each, 1 failure | 1,370,000 |
| `channels` | names that fit unique, no gap, members are those who joined, all of them hear, the directory is implemented | 2 connections, 2 pseudos, 2 descriptors, 2 names that fit and 2 that do not for a table of 2, garbage equal to a live descriptor | 562,000 |
| `store` | no kill, save or load breaks the table unless the file does not fit its format, nor makes a name that fits double; a restart brings back what a SIGINT saved; the save ends | a table of 3, a name that fits and three that do not | 3,100,000 |
| `words` | a line nobody cut into is served with its own words; a NULL is only read for a mention | 2 sessions, 2 lines each, 5 kinds of line | 6,900,000 |
| `buffers` | when no session can go on a client's buffer is full; clients that read again and again are served | 2 clients, 1 frame of room, 2 commands each | 26,000 |
| `getfiles` | no verdict is awaited in vain but after "exit", nobody connects unasked, departures end, selections are judged | 4 lines typed, 2 messages of others, 2 blocks of padding | 785,000 |
| `fileport` | every connection made is accepted, if no other command holds the session up | 2 users, 3 commands, 3 connections, 1 failure | 936,000 |
| `transfer` | when every `recv` gets its item, what is acknowledged is on disk, nobody dies and both ends stop; in any case the sender is not ahead of a receiver that is there, and goes past no file when none was closed | 2 files of at most 2 pieces, 1 failure | 1,480,000 |
| `shutdown` | nodes are freed once unless the mutex was destroyed; a kept lock holds the handler for good; the process ends, unless the lock is kept or a `send` waits for ever | 2 sessions | 23,000 |
| `frames` | a message sent into silence is shown unless it comes cut before its `:`, and the wait for an answer ends unless the lock is kept | 4 frames of 4 parts, 4 lines | 954,000 |
| `registry_lock` | a broadcast whose `send` fails returns with the list locked | 1 connection | |
| `transfer_acked` | the answer READY for a file that was not written | 2 files, no failure | |

### The bounds

* *registry*: two connections and two slots, one of which the failure may cost,
  so that the connections then compete for the other; two descriptors make an
  admission after a departure reuse one while a node still carries it; the walk
  of a list of up to three nodes (the server's is one) meets a removal at each
  position. Two inputs are a pseudo and one command, or a refused pseudo and
  another; a thread that has executed one command is back in the state before
  it, but for what others see. The theorems of section 4 are for any number of
  connections.
* *channels*: two slots per member array and two connections give a full
  channel, a hole that is closed and a descriptor used again; two names that fit
  are what two creators racing for the last entry need, and two that do not may
  read as each other. Connections, pseudos and names of one length are
  interchangeable (`Symmetry`); descriptors are not, one is garbage.
* *store*: three entries are what a shift past the middle needs, and let a file
  hold a fitting name before and after one that does not. The number of runs of
  the server is not bounded.
* *words*: two sessions are the two ends of the shared position; two lines each
  are one after another and two in one read. A buffer has room for the longest
  pair of lines and a zero. The lines are one of each kind of cutting, an "@" in
  the first word of one, and the command "/all" without another word.
* *buffers*: a circle needs two locks and two sessions. A full buffer is reached
  at any size; a larger one only takes more steps to fill.
* *getfiles*: 2 blocks of padding stand for the 20 of the code: what matters is
  that one read does not take them all and one more may follow; four lines are a
  request, a refused selection, another, and a second request or a third.
* *fileport*: two users give every mismatch of thread and connection; three
  commands an upload abandoned, another and a download.
* *transfer*: a second file is where an answer, a buffer or a position of the
  first can be left over; two pieces are a file cut in the middle. An int that
  was never set is not positive, small, or more than will come.
* *shutdown*: two sessions and the handler are three threads: one holds the lock
  and two wait for it, one of them to free what another is about to. The safety
  properties are proved for any number of sessions.
* *frames*: of four parts two are the string up to its `:`, one its end and one
  what fills the frame, so that a `recv` may end before the `:`, in the text, at
  its end or behind it; four frames are an answer, two messages and the one
  after, or a request for a selection, a message and a verdict.

Runs stop when users have typed all they may and when the process died: deadlock
is not an error there. `store` has no end and is checked for deadlock.

### Fairness

Each thread that can take a step eventually does (`WF`), which is what the
scheduler gives. A call that waits for a user is not such a step: in
`ClientRegistry` and `Shutdown` a `send` to a user who is there may never
return, as nobody has to read, and in `ClientRegistry` neither may a `recv`;
`DepartedIsReleased` and `StopsUnlessKept` name the `send` as an exception, and
`DepartureIsServed`, which does not, is refuted. In `SendBuffers` clients may stop
reading, and `ServedIfRead` is about those that read again and again.

Strong fairness is asked for only where several threads compete for a mutex
without bound (`Shutdown`: `RemoveSelf` and the handler; `SendBuffers`: `Lock`,
and the sends that wait for a client that reads again and again; `Frames`: the
test of a pseudo): whoever waits for a mutex that is free again and again gets
it, as the futex queue does in practice. A mutex that is never free again helps
nobody, and the properties except that case.

Nobody has to type, leave or connect. The client's program reads its socket: its
two threads are fair in `GetFiles`, and its reading is in `Frames`, where the
network delivers, in portions of any size. In `GetFiles`, `FilePort` and
`Frames` the session is fair, that is, no other command holds it up, as a lock
of the list that was kept would (`Frames` excepts it for the choice of a
pseudo, the only command there that takes the lock). In `FilePort` neither a
selection nor a connection is fair; in `ChannelStore` only the handler's save
is; in `FileTransfer` both loops are, as long as their processes live.

### What the code does otherwise

Two runs check what a comment or an answer says and show that it does not hold:

* `registry_lock` (`LockReleased`): a broadcast whose `send` fails returns with
  the list locked (`communication.c:55`, "On libère la liste" at 61).
* `transfer_acked` (`AckedIsWritten`): a `recv` that takes two items loses one;
  the sender prints that the file was sent and it was not written
  (`handle_file_reception.c:32`, `file_utils.c:92`).

The modules state more of this kind, each with the text it quotes, and TLC
refutes them as well. To see one, put its name in the place of the properties of
the configuration named:

| Property | Configuration | What happens |
| --- | --- | --- |
| `UniquePseudo`, `NoSegfault` | `Registry.cfg` | two users get the same pseudo; `/list` reads the pseudo of a user who has not chosen one |
| `SenderExcluded`, `NoSigpipe`, `MpReachesAddressee` | `Registry.cfg` | a stale descriptor in a node lets the sender of `/all` hear itself; a second `send` to a closed peer kills the server; a private message goes to the next owner of a descriptor |
| `KeepsListening` | `Registry.cfg` with 1 slot | a failed `accept` costs a slot for good |
| `DepartureIsServed` | `Registry.cfg`, with no failure and one input each | a user who left keeps node and slot as long as another does not read: the broadcast that announces it waits with the list locked |
| `CreatedExists` | `Channels.cfg` | "channel créé" for a channel that is not |
| `OnlyMembersHear` | `Channels.cfg` | whoever reuses a departed member's descriptor hears the channel |
| `NothingLost`, `LoadedIsSaved`, `CreatedIsListed` | `ChannelStore.cfg` | a channel is shifted away between two lines of a save; a name with `:` comes back cut; a channel created behind an entry that `load_channels` left is not found |
| `WordsAreOwn`, `OneLineEach`, `NameIsTyped` | `CommandWords.cfg` | a command is served with another user's words, with two lines' words; the last letter of a channel's name is cut off |
| `MentionIsTagged` | `CommandWords.cfg`, with the "@" of `MC_Line` in the second word | an `@` behind the command is not seen, as `strtok` has cut the buffer |
| `ReadersAreServed` | `SendBuffers.cfg` | one client that does not read stops the sessions of all |
| `AcceptedIsPicked` | `GetFiles.cfg` | after a refused selection, zeros are accepted in place of the one the client reports |
| `ExitIsAnswered` | `GetFiles.cfg` | a user who types "exit" for a selection: the session leaves the command and the client waits |
| `DepartedSessionEnds` | `FilePort.cfg` | a session whose user left after `/sendFiles` waits in `accept` for good |
| `ReceivedSize`, `ClosedIsNoticed`, `OnlySelected` | `FileTransfer.cfg` | the end of an older file stays; a receiver turns for ever when the sender was killed; an upload of no file opens one |
| `ServerStops`, `HeadIsLive`, `RemovalIsExclusive` | `Shutdown.cfg` | the handler waits for a lock nobody gives back; it reads the index of a node that a session has freed; it frees a node while a session does |
| `MessagesShown`, `LoginAgrees` | `Frames.cfg` | a message cut before its `:` is not shown, and a frame that arrives in two portions hides the next; an answer cut in two is taken for a yes |

Other divergences, read in the code and not the subject of a property: the
departure of a client is announced as an arrival (`client_event.c:25`); "channel
inexistant" is also the answer when a channel is full or already joined
(`client_handler.c:144`); `/quit` as the client sends it ends with a newline and
is answered "commande inconnue"; `/leave` by a client that shares a member's
pseudo may remove that member; a client that reads "fin" while it waits for a
verdict does not exit.

## 4. What is proved

TLAPS checks, for every number of connections, names, descriptors, slots, table
entries, sessions, buffer sizes, files and pieces of a file:

* `ClientRegistry_proofs`: the invariant `IInv` and its parts, the action
  property `OrphanIsForever`, and that `Spec` implements `ClientPool!Spec`.
  Assumptions: a finite set of connections, the special values different from
  each other, the bounds natural numbers.
* `Channels_proofs`: `IInv`, its parts, `EveryMemberHears`, and that `Spec`
  implements `ChannelDirectory!Spec`. Assumption beyond distinctness:
  `MAX_CHANNELS` equals `MAX_CLIENTS`, because `create_channel` looks for
  duplicates in the first `MAX_CLIENTS` entries; `common.h` makes it so. That
  names are unique, that no entry lies behind the last, and the directory are
  proved of runs whose load fitted, and of names that fit.
* `Shutdown_proofs`: `IInv`, `FreedOnce` and the action property
  `KeptStopsHandler`. Assumption: the handler, the server's node and the
  sessions are different.
* `ChannelStore_proofs`: `IInv`, `StoreContiguous`, `StoreUnique` and the action
  property `RestartKeepsPrefix`. Assumption: a table of at least one entry, the
  special values are not names, reading a name back gives a name, and a name that
  fits reads as itself once it is in the table.
* `FileTransfer_proofs`: `IInv`, `NotAhead`, `CalmDelivery` and `CalmHarmless`.
  Assumption: the bounds are natural numbers.
* `GetFiles_proofs`: `IInv`, `TypeOK`, `VerdictIsComing` and `DialIsGranted`.
  Assumption: the request, the stop word, "exit" and the zero are different and
  no valid selection.
* `FilePort_proofs`: `IInv`, `TypeOK` and `EnoughAcceptors`. Assumption: a finite
  set of clients, the special values different from clients and connections.
* `Streams_proofs`: `WaitIsForReader` of `SendBuffers` (a finite set of clients
  and at least one frame of room); `FramesIInv` and `QuietIsShown` of `Frames`
  (the string within a frame, its `:` within the string); `IInv`, `NullIsMention` and `AloneIsExact` of `CommandWords` (lines of
  at least one word, any two of which fit the buffer with a zero behind them).

*The registry.* None of the four safety properties is inductive alone. Slots are
counted against the connections in service, so an admission must be the only one
in progress (`OneAdmission`), or two accepts could share the slot in the
acceptor's hand. That the list is exactly the connections between insertion and
removal needs it free of repetitions, and removal to find the node. A walk stays
in the list because only the holder of the lock moves, and every change of the
list asks for the lock. A descriptor is a thread's own because `accept` takes a
free one and `close` comes once. Each action is then taken against each conjunct
it touches. Implementation follows step by step: `WaitSlot` is `Reserve`,
`Accept` is `Admit`, `PostSlot` is `Release`, the two failures waste a slot, the
rest stutters; `SlotConservation` is what makes `Reserve`'s guard true.

*The channels.* `Contiguous` says that lookups, which stop at `num_channels`,
see all entries; `UniqueNames` then follows from the second test, under the lock,
whatever the first one saw: a name that fits and is no duplicate is stored as
itself, and one that does not fit reads as a long name, which no short one
equals. `MembersAreJoined` needs `OwnDescriptor` for the
connection whose copy is taken. `EveryMemberHears` is about the last step; it
needs `MembersAreJoined` to know that a member's slot holds its own descriptor,
which is open as long as it is connected, and so differs from the sender's.

*The sends.* The type invariant says more than types: a lock is held by exactly
the session that is sending with it. So a session that waits for a lock waits
for one that is sending, and that one, if it cannot go on either, waits for a
full buffer: holders never ask for a second lock. A session that sends nothing
with its lock gives it back without waiting.

*The shutdown.* `FreedOnce` needs that what a removal has found is still in the
list when it frees it (`Exclusion`: whoever is inside holds the lock), which needs
that whoever is not inside has found nothing, that the list has no repetitions,
and that a user who has not connected has no node yet. What the handler read of the
head without the lock does not matter to it: `FreeHead` looks the index up in the
list as it then is, and removes another node or none if that one is gone. The
mutex is destroyed by
one step of the handler, after its broadcasts, and nothing is claimed of the
list from then on. `KeptStopsHandler` follows: if the lock is kept, its holder is
not inside or is the thread the handler interrupted, and everybody else who is
inside would have to be the holder, so no step gives it back, `Destroy` leaves
the mutex as it is and no node is freed.

*The channel file.* The three properties speak of the table between two commands,
so `IInv` says what each half-done command leaves: an entry filled and not yet
counted, a shift that has one entry twice, the last entry cleared and still
counted (`Used`, `Filled`, `Layout`, `Distinct`, which except the long names that
a creation does not find). For the restart, `Memory`
carries what the signal found through the save (the lines written so far are the
first of it, and the table has not changed), the time the server is down, and
the load (the entries read so far are the first of it). A kill between any two
steps and a load that stops in a line are actions like the others.

*The transfer.* That the sender is not ahead follows from counting: an answer is
given when a file is closed and taken when the sender goes on. Once the receiver
has gone, a `recv` that returns nothing lets the sender go on with the READY its
buffer holds from before, and it can only hold one if an answer was given: hence
what `NotAhead` says of each case. The other two need
to know what is on the wire. `Stream` lists the items of the current file in the
order they are sent, `Given` and `Taken` say how many each end has dealt with,
from its place in its loop, and `OnWire` that the cells in flight are those in
between. So a `recv` that returns one item returns the one its place expects;
`InOrder` rules out the places that do not go together (nobody finds the other
end gone before END), and `Delivered` says what is written so far. Nothing of
this holds after a `recv` took two items, which is why the properties are about
calm states, and calm is never regained.

*The selection.* A thread waits for a verdict only after it read a list, and the
session judges or has confirmed whenever one is on its way: `AskIsFollowed` says
it of every list in the stream, since several may be queued; both except a
command left with "exit", which is the one way out of the loop without a word.
`DialIsGranted`
adds up what a confirmation becomes: a message in the stream, a word in the pipe,
a connection. Each step moves one of them on or drops it.

*The port.* `EnoughAcceptors` breaks when a user who is choosing files connects,
so the invariant counts those users beforehand, when their command is queued
(`EnoughForSelecting`). The sum over the clients is the size of a set of pairs,
so that what a step adds or takes is a pair more or less.

*The frames.* The unread parts are the end of all that was sent, each at its
place (`Place`), so a `recv` that begins with a first part begins a frame
(`PlaceIsUnique`). A quiet message is sent when the client had read everything:
it is what its loop reads next, from its beginning, and that `recv` shows it or
ends before the `:`. Nothing is claimed of messages sent while something is
unread, or while the client reads verdicts: those may be lost.

*The words.* Any session may cut any buffer, as the position is shared, but a cut
only turns a delimiter into a zero (`Zeroed`): what a session finds in its buffer
is what it read, but for zeros, and its first word stays (`ReadIn`). Its first
call begins at its own line, and ends at the first blank (`CutOff`); so what
follows the command up to the zero is no word of that line, unless the command is
a line of its own, and that is where `strstr` looks. For `AloneIsExact` the
invariant says exactly what a session alone has cut after each of its calls, and
where it left the position (`CutAlone`); the calls are followed through the line
by where a token begins and where it ends (`StartsHere`, `StopsThere`), and the
texts of the arguments are then pieces of the line whose words are, together and
in order, all but the first (`Quotes`). `Min`, which `strtok`'s search is written
with, is a choice; that it chooses the least number rests on the numbers being
well-founded (`MinIsLeast`).

Only model-checked: liveness (`DepartedIsReleased`, `DepartedEnds`,
`ChoiceIsJudged`, `ConnectionAccepted`, `CalmEnds`, `SaveEnds`,
`StopsUnlessKept`, `ServedIfRead`, `AnswerComes`), since the prover has no rule
for fairness that its backends can use. Every invariant and every action property
that a passing run checks is proved.

## 5. What is not modelled

* *Display* and texts: wording, formatting, colours; lines longer than a buffer.
* *Sockets and errors*: set-up calls that succeed or end the process.
* The client's own use of `strtok`, on the lists it shows and the selections it
  sends, by several threads: the same hazard as `CommandWords`, in the other
  program. `/set`, which changes only what the client prefixes to its lines.
* In the server, `strtok` inside `check_valid_input` and the listing of files: a
  selection is judged in one step (`GetFiles`).
* A second SIGINT while the handler runs, and what a C library may do when
  `printf`, `malloc` or `free` is interrupted by a handler that calls them.
* Descriptors used again during the shutdown, and broadcasts there node by node:
  both are in `ClientRegistry`, without the handler.
* Two transfers that share a connection because both ends believe to send, or to
  receive: `FilePort` shows how they meet, `FileTransfer` begins where the two
  ends agree.
* In `Frames`: a `recv` that fails or finds the server gone, and the rest of a
  pseudo of more than `MAX_PSEUDO_LENGTH` + 1 bytes, which the session reads as
  the next one: `is_valid_pseudo` refuses such pseudos in the client, but one that
  took a refusal for a yes may send a line of that length.
* In `Channels` and `ChannelStore`: what the description of an entry reads as
  when it has no zero either, and the creator behind it.
* Between the modules: `GetFiles` and `FilePort` do not know the lock of the list,
  so what they say of a session's progress is of one that no broadcast holds up.

## 6. Plan

Done: `ClientPool`, `ClientRegistry`, `ChannelDirectory`, `Channels`, `GetFiles`,
`FilePort`, then `FileTransfer`, `ChannelStore`, `Shutdown`, `Strtok` and
`CommandWords`, `Frames`, `SendBuffers`; proofs of all of them.

Next, in this order:

1. Proofs: lemmas that several modules state for themselves, on queues and on
   counting, in one place.
2. The client's `strtok`: `Strtok` composed with the threads that cut the lists
   of an upload.
3. The file commands inside the sessions of `ClientRegistry`, so that
   `DepartedIsReleased` covers them or fails.
