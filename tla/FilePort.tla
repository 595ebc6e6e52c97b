------------------------------- MODULE FilePort -------------------------------
(***************************************************************************)
(* Who accepts whose connection on the port of the file transfers.         *)
(*                                                                         *)
(* Uploads and downloads use one listening socket.  For /sendFiles the     *)
(* session of the client itself waits in accept, from the moment it reads  *)
(* the command; the client connects when its user has chosen files, or     *)
(* never.  For /getFiles the session starts a sending thread that waits in *)
(* accept (GetFiles models how they come to that).  Nothing ties a         *)
(* connection to the thread that waits for it: whoever calls accept gets   *)
(* the oldest connection.  What then travels on it is not modelled here.   *)
(***************************************************************************)
EXTENDS Naturals, Sequences, FiniteSets

CONSTANTS
    Client,     \* the connected users
    MaxConn,    \* bound: connections made to the port
    Nobody,     \* no client
    Junk,       \* what an overwritten stack slot holds
    MaxTyped,   \* bound: commands the users type
    MaxFaults   \* bound: failures of accept and pthread_create

Conn == 1 .. MaxConn

ASSUME FilePortAssumption ==
    /\ IsFiniteSet(Client) /\ Nobody \notin Client
    /\ MaxConn \in Nat /\ Junk \notin Conn
    /\ MaxTyped \in Nat /\ MaxFaults \in Nat

VARIABLES
    user,       \* "prompt", "selecting" (an upload), "waiting" (a download), "exited"
    queue,      \* commands each session has not read
    session,    \* "main", "accepting" or "ended"
    waiting,    \* sending threads of each session that wait in accept
    backlog,    \* connections no accept has returned
    stage,      \* of each connection: "free", "dialing", "queued", "accepted", "done"
    owner,      \* the client each connection belongs to
    role,       \* what the client does on it: "upload" or "download"
    local,      \* client_socket_file, on the stack of each session
    starting,   \* reception threads created that have not read their argument
    readers,    \* reception threads that read each connection
    sentTo,     \* whose selection is sent on each connection, or Nobody
    process,    \* "up" or "dead"
    typed, faults   \* counters of the bounds

users == <<user, typed>>
sessions == <<queue, session, local>>
conns == <<stage, owner, role>>
threads == <<waiting, starting, readers, sentTo>>
vars == <<users, sessions, conns, threads, backlog, process, faults>>

Init ==
    /\ user = [c \in Client |-> "prompt"]
    /\ typed = 0
    /\ queue = [c \in Client |-> <<>>]
    /\ session = [c \in Client |-> "main"]
    /\ local = [c \in Client |-> Junk]
    /\ waiting = [c \in Client |-> 0] /\ starting = [c \in Client |-> 0]
    /\ backlog = <<>>
    /\ stage = [k \in Conn |-> "free"]
    /\ owner = [k \in Conn |-> Nobody]
    /\ role = [k \in Conn |-> "upload"]
    /\ readers = [k \in Conn |-> 0]
    /\ sentTo = [k \in Conn |-> Nobody]
    /\ process = "up" /\ faults = 0
-------------------------------------------------------------------------------
(* The clients.                                                            *)
\* Mutant: a client connects the same socket for every transfer.
NewDialSame(c, r) ==
    \E k \in Conn :
        /\ owner[k] = c \/ (stage[k] = "free" /\ \A j \in 1 .. k - 1 : stage[j] # "free")
        /\ stage' = [stage EXCEPT ![k] = "dialing"]
        /\ owner' = [owner EXCEPT ![k] = c]
        /\ role' = [role EXCEPT ![k] = r]

\* A thread of the client is to connect.
NewDial(c, r) ==
    \E k \in Conn :
        /\ stage[k] = "free" /\ \A j \in 1 .. k - 1 : stage[j] # "free"
        /\ stage' = [stage EXCEPT ![k] = "dialing"]
        /\ owner' = [owner EXCEPT ![k] = c]
        /\ role' = [role EXCEPT ![k] = r]

Type(c, command, state) ==
    /\ user[c] = "prompt" /\ typed < MaxTyped
    /\ typed' = typed + 1
    /\ queue' = [queue EXCEPT ![c] = Append(@, command)]
    /\ user' = [user EXCEPT ![c] = state]
    /\ UNCHANGED <<session, local, conns, threads, backlog, process, faults>>

SendFiles(c) == Type(c, "sendFiles", "selecting")
GetFiles(c) == Type(c, "getFiles", "waiting")

\* The selection of an upload: valid, or "/quit", of which the server hears
\* nothing.
Select(c) ==
    /\ user[c] = "selecting"
    /\ user' = [user EXCEPT ![c] = "prompt"]
    /\ NewDial(c, "upload") \/ UNCHANGED conns
    /\ UNCHANGED <<typed, sessions, threads, backlog, process, faults>>

Dial(k) ==
    /\ process = "up"
    /\ stage[k] = "dialing" /\ user[owner[k]] # "exited"
    /\ stage' = [stage EXCEPT ![k] = "queued"]
    /\ backlog' = Append(backlog, k)
    /\ UNCHANGED <<users, sessions, owner, role, threads, process, faults>>

Exit(c) ==
    /\ user[c] # "exited"
    /\ user' = [user EXCEPT ![c] = "exited"]
    /\ UNCHANGED <<typed, sessions, conns, threads, backlog, process, faults>>
-------------------------------------------------------------------------------
(* The server's threads.                                                   *)
Reading(c) == queue[c] # <<>> /\ session[c] = "main" /\ process = "up"

\* Mutant: the command is read and accept is not called.
RecvSendFilesIgnored(c) ==
    /\ Reading(c) /\ Head(queue[c]) = "sendFiles"
    /\ queue' = [queue EXCEPT ![c] = Tail(@)]
    /\ UNCHANGED <<session, users, local, conns, threads, backlog, process, faults>>

RecvSendFiles(c) ==
    /\ Reading(c) /\ Head(queue[c]) = "sendFiles"
    /\ queue' = [queue EXCEPT ![c] = Tail(@)]
    /\ session' = [session EXCEPT ![c] = "accepting"]
    /\ UNCHANGED <<users, local, conns, threads, backlog, process, faults>>

\* accept returns the oldest connection.
Taken(k) ==
    /\ process = "up" /\ backlog # <<>>
    /\ k = Head(backlog)
    /\ backlog' = Tail(backlog)
    /\ stage' = [stage EXCEPT ![k] = "accepted"]

\* Mutant: a session takes only its own client's connection.
AcceptUploadOwn(c) ==
    /\ session[c] = "accepting"
    /\ \E k \in Conn :
          /\ Taken(k) /\ owner[k] = c
          /\ local' = [local EXCEPT ![c] = k]
          /\ starting' = [starting EXCEPT ![c] = @ + 1]
    /\ session' = [session EXCEPT ![c] = "main"]
    /\ UNCHANGED <<users, queue, owner, role, waiting, readers, sentTo, process, faults>>

\* The thread that is to receive gets the address of a local variable.
AcceptUpload(c) ==
    /\ session[c] = "accepting"
    /\ \E k \in Conn :
          /\ Taken(k)
          /\ local' = [local EXCEPT ![c] = k]
    /\ session' = [session EXCEPT ![c] = "main"]
    /\ \/ /\ starting' = [starting EXCEPT ![c] = @ + 1]
          /\ UNCHANGED faults
       \/ /\ faults < MaxFaults
          /\ faults' = faults + 1
          /\ UNCHANGED starting
    /\ UNCHANGED <<users, queue, owner, role, waiting, readers, sentTo, process>>

\* accept fails: the session gives up, a sending thread ends the process.
AcceptFails(c) ==
    /\ process = "up" /\ faults < MaxFaults
    /\ faults' = faults + 1
    /\ \/ /\ session[c] = "accepting"
          /\ session' = [session EXCEPT ![c] = "main"]
          /\ UNCHANGED process
       \/ /\ waiting[c] > 0
          /\ process' = "dead"
          /\ UNCHANGED session
    /\ UNCHANGED <<users, queue, local, conns, threads, backlog>>

\* By then the function has returned or been called again: the thread reads
\* the latest connection, or whatever has overwritten it.
StartReception(c) ==
    /\ process = "up" /\ starting[c] > 0
    /\ starting' = [starting EXCEPT ![c] = @ - 1]
    /\ \E v \in {local[c], Junk} :
          readers' = [k \in Conn |-> IF k = v THEN readers[k] + 1 ELSE readers[k]]
    /\ UNCHANGED <<users, sessions, conns, waiting, sentTo, backlog, process, faults>>

\* The session confirms the selection, then starts the thread that sends, or
\* fails to.  A client that is gone is confirmed too.
RecvGetFiles(c) ==
    /\ Reading(c) /\ Head(queue[c]) = "getFiles"
    /\ queue' = [queue EXCEPT ![c] = Tail(@)]
    /\ \/ /\ waiting' = [waiting EXCEPT ![c] = @ + 1]
          /\ UNCHANGED faults
       \/ /\ faults < MaxFaults
          /\ faults' = faults + 1
          /\ UNCHANGED waiting
    /\ IF user[c] = "waiting"
       THEN NewDial(c, "download") /\ user' = [user EXCEPT ![c] = "prompt"]
       ELSE UNCHANGED <<conns, user>>
    /\ UNCHANGED <<typed, session, local, starting, readers, sentTo, backlog, process>>

\* The selection is "exit": neither a verdict nor a thread; the client's thread
\* waits on.
RecvGetFilesExit(c) ==
    /\ Reading(c) /\ Head(queue[c]) = "getFiles"
    /\ queue' = [queue EXCEPT ![c] = Tail(@)]
    /\ UNCHANGED <<session, users, local, conns, threads, backlog, process, faults>>

AcceptDownload(c) ==
    /\ waiting[c] > 0
    /\ \E k \in Conn :
          /\ Taken(k)
          /\ sentTo' = [sentTo EXCEPT ![k] = c]
    /\ waiting' = [waiting EXCEPT ![c] = @ - 1]
    /\ UNCHANGED <<users, sessions, owner, role, starting, readers, process, faults>>

\* Two senders take each other's READY for an acknowledgement.
Finish(k) ==
    /\ process = "up" /\ stage[k] = "accepted"
    /\ role[k] = "upload" \/ sentTo[k] # Nobody
    /\ readers[k] > 0 \/ sentTo[k] # Nobody
    /\ stage' = [stage EXCEPT ![k] = "done"]
    /\ UNCHANGED <<users, sessions, owner, role, threads, backlog, process, faults>>

\* send_file to a client that is gone: SIGPIPE, or exit because what recv left
\* in the buffer is not READY.
SendFails(k) ==
    /\ process = "up" /\ stage[k] = "accepted"
    /\ sentTo[k] # Nobody /\ user[owner[k]] = "exited"
    /\ process' = "dead"
    /\ UNCHANGED <<users, sessions, conns, threads, backlog, faults>>

\* recv returns 0: the session leaves its loop and gives back the slot.
RecvEnd(c) ==
    /\ process = "up"
    /\ session[c] = "main" /\ queue[c] = <<>> /\ user[c] = "exited"
    /\ session' = [session EXCEPT ![c] = "ended"]
    /\ UNCHANGED <<users, queue, local, conns, threads, backlog, process, faults>>

User == \E c \in Client : SendFiles(c) \/ GetFiles(c) \/ Select(c) \/ Exit(c)
Session(c) ==
    RecvSendFiles(c) \/ AcceptUpload(c) \/ RecvGetFiles(c) \/ RecvGetFilesExit(c) \/ RecvEnd(c)
Next ==
    \/ User
    \/ \E c \in Client : Session(c) \/ AcceptFails(c) \/ AcceptDownload(c) \/ StartReception(c)
    \/ \E k \in Conn : Dial(k) \/ Finish(k) \/ SendFails(k)

\* A session reads its commands and accept returns when it can: no other command
\* holds it up, as a lock of the list that was kept would (communication.c:55),
\* or a user who does not read.  A selection depends on a user.
Spec == Init /\ [][Next]_vars /\ \A c \in Client : WF_vars(Session(c)) /\ WF_vars(AcceptDownload(c))
-------------------------------------------------------------------------------
\* Types; a connection is in the backlog once, exactly while it is queued.
TypeOK ==
    /\ user \in [Client -> {"prompt", "selecting", "waiting", "exited"}]
    /\ queue \in [Client -> Seq({"sendFiles", "getFiles"})]
    /\ session \in [Client -> {"main", "accepting", "ended"}]
    /\ waiting \in [Client -> Nat] /\ starting \in [Client -> Nat]
    /\ stage \in [Conn -> {"free", "dialing", "queued", "accepted", "done"}]
    /\ owner \in [Conn -> Client \cup {Nobody}] /\ role \in [Conn -> {"upload", "download"}]
    /\ local \in [Client -> Conn \cup {Junk}]
    /\ readers \in [Conn -> Nat] /\ sentTo \in [Conn -> Client \cup {Nobody}]
    /\ backlog \in Seq(Conn)
    /\ {backlog[i] : i \in DOMAIN backlog} = {k \in Conn : stage[k] = "queued"}
    /\ \A i, j \in DOMAIN backlog : backlog[i] = backlog[j] => i = j
    /\ process \in {"up", "dead"}
    /\ typed \in 0 .. MaxTyped /\ faults \in 0 .. MaxFaults

Count(word, seq) == Cardinality({i \in DOMAIN seq : seq[i] = word})

Uploads == [c \in Client |-> Count("sendFiles", queue[c])]
Accepting == [c \in Client |-> IF session[c] = "accepting" THEN 1 ELSE 0]
Acceptors == [c \in Client |-> waiting[c] + Uploads[c] + Accepting[c]]

\* The sum of a function from clients to numbers: as many pairs <<c, 1>>,
\* <<c, 2>>, ... for each client as its number says.
Total(f) == Cardinality(UNION {{c} \X (1 .. f[c]) : c \in Client})

Capacity == Total(Acceptors) + faults
Dialing == {k \in Conn : stage[k] = "dialing"}
Selecting == {c \in Client : user[c] = "selecting"}

\* Whatever thread takes whose connection, no connection lacks a thread to
\* accept it: those made, and those of downloads about to be, are no more than
\* the threads that wait in accept (handle_file_reception.c:130,
\* handle_file_send.c:49), the commands that will make one wait, and the
\* failures of accept and pthread_create.
EnoughAcceptors == Len(backlog) + Cardinality(Dialing) <= Capacity

\* So are they together with the users who are choosing files to upload.
EnoughForSelecting == Len(backlog) + Cardinality(Dialing) + Cardinality(Selecting) <= Capacity

IInv == TypeOK /\ EnoughForSelecting

\* No client hangs in the backlog because its own thread was taken by another:
\* every connection is accepted, unless accept or pthread_create failed, the
\* server died, or another command of a session holds it up for good.
ConnectionAccepted ==
    \A k \in Conn :
        stage[k] = "queued" ~> (stage[k] # "queued" \/ faults > 0 \/ process = "dead")

\* "Lorsque le client se déconnecte, libérer le slot" (client_handler.c:239):
\* the session of a user who has gone ends.
DepartedSessionEnds ==
    \A c \in Client : user[c] = "exited" ~> (session[c] = "ended" \/ process = "dead")
===============================================================================
