--------------------------------- MODULE Frames --------------------------------
(***************************************************************************)
(* How a client takes what the server sends: first the answers to the      *)
(* pseudos its user chooses, then the messages, and among these the        *)
(* verdicts on a selection of files.                                       *)
(*                                                                         *)
(* The server sends everything in frames of BUFFER_SIZE bytes: a string    *)
(* and what fills the frame.  The client takes each recv for one frame,    *)
(* and the string at the beginning of the buffer for all there is.  A      *)
(* frame is here a few parts: the string is in the first ones, up to       *)
(* TextEnd, and that of a message has its ':' in the part ColonAt.  The network *)
(* may deliver any number of parts before the client reads, so that a recv *)
(* may end anywhere, in the string as well as behind it.                   *)
(***************************************************************************)
EXTENDS Naturals, Sequences, FiniteSets, SequencesExt

CONSTANTS
    Parts,          \* parts of a frame
    TextEnd,        \* those that hold the string
    ColonAt,        \* the one with the ':' of a message
    MaxFrames,      \* bound: frames the server sends
    MaxTyped        \* bound: pseudos and lines the user types

ASSUME FramesAssumption ==
    /\ Parts \in Nat \ {0} /\ TextEnd \in 1 .. Parts /\ ColonAt \in 1 .. TextEnd
    /\ MaxFrames \in Nat /\ MaxTyped \in Nat

VARIABLES
    client,     \* "asking", "waiting" for an answer, "talking", "indices", "gone"
    server,     \* its session: "choosing", "checking", "talking" or "judging"
    locked,     \* another thread holds client_list_mutex
    toServer,   \* how many things the user typed the session has not read
    frames,     \* the frames sent, by what is in them
    stream,     \* parts the client has not read
    arrived,    \* how many of those have arrived
    shown,      \* history: the messages the client has shown
    broken,     \* history: those whose first recv ended before the ':'
    quiet,      \* history: frames sent when the client had read all there was
    inputs

ends == <<client, server>>
sent == <<frames, stream, quiet>>
seen == <<shown, broken>>
framesVars == <<ends, locked, toServer, sent, arrived, seen, inputs>>

\* What strings there are: the answers to a pseudo, what is sent to a selection
\* of files, the farewell, and all the others.
Kinds == {"ok", "taken", "ask", "granted", "refused", "fin", "message"}

FramesInit ==
    /\ client = "asking" /\ server = "choosing" /\ locked = FALSE
    /\ toServer = 0 /\ inputs = 0
    /\ frames = <<>> /\ stream = <<>> /\ arrived = 0
    /\ shown = {} /\ broken = {} /\ quiet = {}
-------------------------------------------------------------------------------
(* The server's session.                                                   *)
Frame(n) == [p \in 1 .. Parts |-> [frame |-> n, part |-> p]]

SendFrame(kind) ==
    LET n == Len(frames) + 1
    IN  /\ n <= MaxFrames
        /\ frames' = Append(frames, kind)
        /\ stream' = stream \o Frame(n)
        /\ quiet' = IF stream = <<>> /\ client = "talking" THEN quiet \cup {n} ELSE quiet

\* A recv returns one or more of the things typed, if they came together.
ReceiveInput ==
    /\ toServer > 0
    /\ \E rest \in 0 .. toServer - 1 : toServer' = rest

\* Whatever comes is a pseudo.  The rest of a line of more than
\* MAX_PSEUDO_LENGTH + 1 bytes, which would be the next, is left out.
ReceivePseudo ==
    /\ server = "choosing" /\ ReceiveInput
    /\ server' = "checking"
    /\ UNCHANGED <<client, locked, sent, arrived, seen, inputs>>

\* Mutant: a pseudo that is taken is not answered.
CheckPseudoSilent ==
    /\ server = "checking" /\ ~locked
    /\ \/ SendFrame("ok") /\ server' = "talking"
       \/ server' = "choosing" /\ UNCHANGED sent
    /\ UNCHANGED <<client, locked, toServer, arrived, seen, inputs>>

\* The pseudos in use are read under the lock of the list.
CheckPseudo ==
    /\ server = "checking" /\ ~locked
    /\ \/ SendFrame("ok") /\ server' = "talking"
       \/ SendFrame("taken") /\ server' = "choosing"
    /\ UNCHANGED <<client, locked, toServer, arrived, seen, inputs>>

\* A command; what it is answered is one of the messages, but "/getFiles" asks
\* for a selection.
ReceiveLine ==
    /\ server = "talking" /\ ReceiveInput
    /\ \/ SendFrame("ask") /\ server' = "judging"
       \/ UNCHANGED <<server, sent>>
    /\ UNCHANGED <<client, locked, arrived, seen, inputs>>

\* A selection: one to give up has no answer.
ReceiveSelection ==
    /\ server = "judging" /\ ReceiveInput
    /\ \/ SendFrame("granted") /\ server' = "talking"
       \/ SendFrame("refused") /\ UNCHANGED server
       \/ server' = "talking" /\ UNCHANGED sent
    /\ UNCHANGED <<client, locked, arrived, seen, inputs>>

\* An answer, a broadcast, or the farewell of the signal handler.
SendMessage ==
    /\ server \in {"talking", "judging"}
    /\ \E kind \in {"message", "fin"} : SendFrame(kind)
    /\ UNCHANGED <<ends, locked, toServer, arrived, seen, inputs>>

\* The other threads, which may also keep the lock (communication.c:55).
OtherThreads ==
    /\ locked' = ~locked
    /\ UNCHANGED <<ends, toServer, sent, arrived, seen, inputs>>

\* The network.
Arrive ==
    /\ \E n \in arrived + 1 .. Len(stream) : arrived' = n
    /\ UNCHANGED <<ends, locked, toServer, sent, seen, inputs>>
-------------------------------------------------------------------------------
(* The client.                                                             *)
Input ==
    /\ inputs < MaxTyped
    /\ inputs' = inputs + 1
    /\ toServer' = toServer + 1
    /\ UNCHANGED <<server, locked, sent, arrived, seen>>

\* A pseudo is_valid_pseudo accepts; the others are asked for again.
AskForPseudo ==
    /\ client = "asking"
    /\ Input
    /\ client' = "waiting"

\* A line, or a selection.
TypeLine ==
    /\ client \in {"talking", "indices"}
    /\ Input
    /\ UNCHANGED client

\* recv returns what has arrived, up to the size of a frame.
Take(count) ==
    /\ arrived > 0
    /\ count = IF arrived < Parts THEN arrived ELSE Parts
    /\ stream' = SubSeq(stream, count + 1, Len(stream))
    /\ arrived' = arrived - count

Reading == frames[Head(stream).frame]
\* The buffer begins with a string and holds it up to that part, the rest of
\* the buffer being zeros.
HoldsUpTo(part, count) == Head(stream).part = 1 /\ count >= part
\* It begins in the middle of what users wrote, which may look like anything.
Anything == Reading = "message" /\ Head(stream).part \in 2 .. TextEnd

\* "PSEUDO_OK" ends the loop, and so does an answer that is neither.  In front of
\* a cut answer server_response holds what its stack held, and behind an answer
\* come the strings the program has behind it: either may complete it.
Answers(count) ==
    IF HoldsUpTo(TextEnd, count)
      THEN {IF Reading = "taken" THEN "asking" ELSE "talking"}
      ELSE {"asking", "talking"}

RecvAnswer ==
    /\ client = "waiting"
    /\ \E count \in 1 .. Parts : Take(count) /\ client' \in Answers(count)
    /\ UNCHANGED <<server, locked, toServer, frames, seen, quiet, inputs>>

\* Without a ':' there is nothing to show; the rest of a string is looked at as
\* if it were one.
Handlings(count) ==
    IF Anything THEN {"talking", "indices", "gone"}
    ELSE {CASE HoldsUpTo(ColonAt, count) /\ Reading = "ask" -> "indices"
            [] HoldsUpTo(ColonAt, count) /\ Reading = "fin" -> "gone"
            [] OTHER -> "talking"}

Show(count) ==
    LET read == IF Reading = "message" /\ Head(stream).part = 1
                  THEN {Head(stream).frame} ELSE {}
    IN  IF count >= ColonAt
          THEN shown' = shown \cup read /\ UNCHANGED broken
          ELSE broken' = broken \cup read /\ UNCHANGED shown

\* Mutant: only a frame that fills the buffer is looked at.
RecvMessageWhole ==
    /\ client = "talking"
    /\ \E count \in 1 .. Parts :
          /\ Take(count)
          /\ IF count = Parts THEN client' \in Handlings(count) /\ Show(count)
                              ELSE UNCHANGED <<client, seen>>
    /\ UNCHANGED <<server, locked, toServer, frames, quiet, inputs>>

RecvMessage ==
    /\ client = "talking"
    /\ \E count \in 1 .. Parts :
          Take(count) /\ client' \in Handlings(count) /\ Show(count)
    /\ UNCHANGED <<server, locked, toServer, frames, quiet, inputs>>

\* In a selection a verdict is waited for: all but a refusal ends it, a message
\* too, and of the messages only an error is shown.
Verdicts(count) ==
    IF Anything THEN {"talking", "indices"}
    ELSE {IF HoldsUpTo(ColonAt, count)
              /\ (Reading = "refused" \/ (Reading = "granted" /\ count < TextEnd))
            THEN "indices" ELSE "talking"}

RecvIndices ==
    /\ client = "indices"
    /\ \E count \in 1 .. Parts :
          Take(count) /\ client' \in Verdicts(count) /\ (Show(count) \/ UNCHANGED seen)
    /\ UNCHANGED <<server, locked, toServer, frames, quiet, inputs>>

ServerReads == ReceivePseudo \/ ReceiveLine \/ ReceiveSelection
ClientReads == RecvAnswer \/ RecvMessage \/ RecvIndices
FramesNext ==
    \/ AskForPseudo \/ TypeLine \/ ClientReads
    \/ ServerReads \/ CheckPseudo \/ SendMessage \/ OtherThreads \/ Arrive

\* The client and the session read what there is, the network delivers, and a
\* session that waits for the lock gets it if it is free again and again.
FramesSpec ==
    /\ FramesInit /\ [][FramesNext]_framesVars
    /\ WF_framesVars(ServerReads) /\ SF_framesVars(CheckPseudo)
    /\ WF_framesVars(ClientReads) /\ WF_framesVars(Arrive)
-------------------------------------------------------------------------------
\* The parts of a frame are read in order: their places in all that was sent.
Place(cell) == Parts * (cell.frame - 1) + cell.part
Position == Parts * Len(frames) - Len(stream)

\* Types; the parts not read are the end of what was sent.
FramesTypeOK ==
    /\ client \in {"asking", "waiting", "talking", "indices", "gone"}
    /\ server \in {"choosing", "checking", "talking", "judging"}
    /\ locked \in BOOLEAN /\ inputs \in 0 .. MaxTyped /\ toServer \in 0 .. MaxTyped
    /\ frames \in Seq(Kinds) /\ Len(frames) <= MaxFrames
    /\ stream \in Seq([frame : 1 .. Len(frames), part : 1 .. Parts])
    /\ Len(stream) <= Parts * Len(frames)
    /\ \A i \in DOMAIN stream : Place(stream[i]) = Position + i
    /\ arrived \in 0 .. Len(stream)
    /\ shown \subseteq 1 .. Len(frames) /\ broken \subseteq 1 .. Len(frames)
    /\ quiet \subseteq 1 .. Len(frames)

Messages == {n \in 1 .. Len(frames) : frames[n] = "message"}
Unread == {stream[i].frame : i \in {j \in DOMAIN stream : stream[j].part = 1}}

\* Types; and the client falls back into step: a message sent when its listener
\* had read all that was sent before is shown, whatever was lost earlier, unless
\* the recv that reads its beginning ends before the ':'
\* (receive_message_thread.c:46-59).
QuietIsShown ==
    FramesTypeOK /\ \A n \in (Messages \cap quiet) \ Unread : n \in shown \cup broken

\* The inductive invariant: a quiet message that was not read is what the
\* listener reads next.
FramesIInv ==
    /\ FramesTypeOK /\ toServer <= inputs
    /\ \A n \in Messages \cap quiet :
          \/ n \in shown \cup broken
          \/ client = "talking" /\ Position = Parts * (n - 1)

\* A user who has chosen a pseudo hears of it (handle_pseudo.c:19-37), unless the
\* lock of the list is never free again.  Only a session that still takes what
\* comes for a pseudo answers: a client that took "yes" for "no" waits on.
AnswerComes ==
    (<>[]locked) \/ ((client = "waiting" /\ server \in {"choosing", "checking"})
                        ~> client # "waiting")

\* "Réinitialise le tampon et reçoit un message du serveur"
\* (receive_message_thread.c:45): what has been read has been shown.
MessagesShown == \A n \in Messages \ Unread : n \in shown

\* "demande un pseudo au client et le retourne si il est valide"
\* (client_utils.h:18-19): the session has taken the pseudo of a client that
\* believes itself in (client_utils.c:81-84).
LoginAgrees == client # "talking" \/ server \in {"talking", "judging"}
===============================================================================
