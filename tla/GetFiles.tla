------------------------------- MODULE GetFiles -------------------------------
(***************************************************************************)
(* /getFiles: how one client and its session agree on the files to send.   *)
(*                                                                         *)
(* Four parties meet over two byte streams and a pipe.  The client's       *)
(* sending thread reads the keyboard, sends the selection and waits on the *)
(* pipe; its receiving thread, put in a special mode by "askIndice",       *)
(* writes the server's verdict into the pipe; the session reads selections *)
(* until one is valid; other sessions write into the same socket whenever  *)
(* somebody chats.                                                         *)
(*                                                                         *)
(* The client sends a selection in BUFFER_SIZE bytes, padded with zeros;   *)
(* the session reads MAX_FILES_LIST bytes at a time and finds the padding  *)
(* later.  The upward stream is therefore a sequence of blocks of          *)
(* MAX_FILES_LIST bytes, each known by the string it starts with.          *)
(***************************************************************************)
EXTENDS Naturals, Sequences, SequencesExt, FiniteSets

CONSTANTS
    Choice,     \* what the user types as a selection
    Valid,      \* the choices made of commas and indices of listed files
    Request,    \* the text "/getFiles"
    Stop,       \* the text "STOP", which the client sends on SIGINT
    Exit,       \* the text "exit", on which the session leaves the command
    Zero,       \* the empty string: a block of padding, or an empty line typed
    Padding,       \* blocks of padding after a selection
    MaxTyped,   \* bound: lines the user types
    MaxChat     \* bound: messages of other users

ASSUME GetFilesAssumption ==
    /\ Valid \subseteq Choice \ {Request, Stop, Exit, Zero}
    /\ Cardinality({Request, Stop, Exit, Zero}) = 4
    /\ Padding \in Nat \ {0}
    /\ MaxTyped \in Nat /\ MaxChat \in Nat

VARIABLES
    user,       \* the sending thread: at the prompt, choosing, reading the pipe
    pick,       \* selected_indices, the last choice typed
    listener,   \* the receiving thread: its loop, get_file_valid_indice, ended
    pipe,       \* words the receiving thread wrote for the sending one
    gone,       \* the client's process has exited
    up, down,   \* blocks to the session, messages to the client
    session,    \* "main", "choosing", "granting" or "ended"
    chosen,     \* the selection the session accepted last
    granted,    \* history: confirmations sent
    exited,     \* history: the session left its last /getFiles on "exit"
    stopping,   \* the server's handler of SIGINT has run
    senders,    \* sending threads the session started
    dials,      \* receiving threads the client started, each connects once
    typed, chats    \* counters of the bounds

client == <<user, pick, listener, pipe, gone, dials>>
server == <<session, chosen, granted, exited, senders, stopping>>
vars == <<client, up, down, server, typed, chats>>

Block == Choice \cup {Request, Stop, Exit, Zero}

Init ==
    /\ user = "prompt" /\ pick = Zero /\ listener = "main" /\ pipe = <<>> /\ gone = FALSE
    /\ up = <<>> /\ down = <<>>
    /\ session = "main" /\ chosen = Zero /\ granted = 0 /\ exited = FALSE
    /\ senders = 0 /\ dials = 0 /\ stopping = FALSE
    /\ typed = 0 /\ chats = 0
-------------------------------------------------------------------------------
(* The client's sending thread.                                            *)
Type ==
    /\ ~gone /\ typed < MaxTyped
    /\ typed' = typed + 1

\* The command goes to the server and the thread waits for a choice at once:
\* nothing makes it wait for the list.
AskFiles ==
    /\ Type
    /\ user = "prompt"
    /\ user' = "choosing"
    /\ up' = Append(up, Request)
    /\ UNCHANGED <<pick, listener, pipe, gone, dials, down, server, chats>>

\* Mutant: only the text is sent, as send_message does.
SelectionUnpadded(s) == <<s>>

Selection(s) == <<s>> \o [i \in 1 .. Padding |-> Zero]

\* "/quit" typed here changes nothing: the loop goes on.
PickFiles ==
    /\ Type
    /\ user = "choosing"
    /\ \E s \in Choice :
          /\ pick' = s
          /\ up' = up \o Selection(s)
    /\ user' = "reading"
    /\ UNCHANGED <<listener, pipe, gone, dials, down, server, chats>>

\* Mutant: the word is searched for with strstr, not compared.
ReadPipeAnywhere ==
    /\ ~gone
    /\ user = "reading" /\ pipe # <<>>
    /\ pipe' = <<>>
    /\ IF Head(pipe) \in {"OK", "NOK"}
       THEN user' = "prompt" /\ dials' = dials + 1
       ELSE user' = "choosing" /\ UNCHANGED dials
    /\ UNCHANGED <<pick, listener, gone, up, down, server, typed, chats>>

\* One read takes all the pipe holds and looks at the first word.
ReadPipe ==
    /\ ~gone
    /\ user = "reading" /\ pipe # <<>>
    /\ pipe' = <<>>
    /\ IF Head(pipe) = "OK"
       THEN user' = "prompt" /\ dials' = dials + 1
       ELSE user' = "choosing" /\ UNCHANGED dials
    /\ UNCHANGED <<pick, listener, gone, up, down, server, typed, chats>>

\* sigint_handler of the client.
Leave ==
    /\ ~gone
    /\ gone' = TRUE
    /\ up' = Append(up, Stop)
    /\ UNCHANGED <<user, pick, listener, pipe, dials, down, server, typed, chats>>
-------------------------------------------------------------------------------
(* The client's receiving thread.                                          *)
ListenMain ==
    /\ ~gone
    /\ listener = "main" /\ down # <<>>
    /\ down' = Tail(down)
    /\ listener' = IF Head(down) = "askIndice" THEN "indices" ELSE "main"
    /\ gone' = (Head(down) = "fin")
    /\ UNCHANGED <<user, pick, pipe, dials, up, server, typed, chats>>

\* What get_file_valid_indice writes for a message: messages of other users
\* are format errors to it.
Word(m) == CASE m = "OK" -> <<"OK">>
             [] m = "NOK" -> <<"NOK">>
             [] m \in {"error", "fin"} -> <<>>
             [] OTHER -> <<"error">>

ListenIndices ==
    /\ ~gone
    /\ listener = "indices" /\ down # <<>>
    /\ down' = Tail(down)
    /\ pipe' = pipe \o Word(Head(down))
    /\ listener' = IF Head(down) = "NOK" THEN "indices" ELSE "main"
    /\ UNCHANGED <<user, pick, gone, dials, up, server, typed, chats>>

\* The server has closed the connection.
ListenEnd ==
    /\ ~gone
    /\ down = <<>> /\ session = "ended"
    /\ \/ listener = "indices" /\ listener' = "main" /\ pipe' = Append(pipe, "error")
       \/ listener = "main" /\ listener' = "done" /\ UNCHANGED pipe
    /\ UNCHANGED <<user, pick, gone, dials, up, down, server, typed, chats>>
-------------------------------------------------------------------------------
(* The session.                                                            *)
\* The loop of handle_client reads up to BUFFER_SIZE bytes and looks at the
\* first string: what follows a command in the same read is lost, and so is a
\* command that follows padding.
RecvMain ==
    /\ session = "main" /\ up # <<>>
    /\ \E k \in 1 .. Len(up) : k <= Padding + 1 /\ up' = SubSeq(up, k + 1, Len(up))
    /\ \/ /\ up[1] = Request
          /\ session' = "choosing" /\ exited' = FALSE /\ down' = Append(down, "askIndice")
       \/ up[1] = Zero /\ UNCHANGED <<session, exited, down>>
       \/ /\ up[1] \notin {Request, Zero}
          /\ down' = Append(down, "error") /\ UNCHANGED <<session, exited>>
    /\ UNCHANGED <<client, chosen, granted, senders, stopping, typed, chats>>

\* Mutant: the indices are not looked up.
AcceptedUnchecked(s) == s # Stop

\* check_valid_input: no character of the empty string is wrong.
Accepted(s) == s \in Valid \cup {Zero}

\* "exit" ends the command, and nothing tells the client so.
LeaveOnExit(s) ==
    /\ s = Exit
    /\ session' = "main" /\ exited' = TRUE
    /\ UNCHANGED <<chosen, granted, down>>

Accept(s) ==
    /\ s # Exit /\ Accepted(s)
    /\ session' = "granting" /\ chosen' = s /\ granted' = granted + 1
    /\ down' = Append(down, "OK")
    /\ UNCHANGED exited

\* Mutant: a refusal ends the command.
JudgeOnce(s) ==
    \/ LeaveOnExit(s)
    \/ Accept(s)
    \/ /\ s # Exit /\ ~Accepted(s)
       /\ down' = Append(down, "NOK") /\ session' = "main"
       /\ UNCHANGED <<chosen, granted, exited>>

Judge(s) ==
    \/ LeaveOnExit(s)
    \/ Accept(s)
    \/ /\ s # Exit /\ ~Accepted(s)
       /\ down' = Append(down, "NOK")
       /\ UNCHANGED <<session, chosen, granted, exited>>

\* One read of MAX_FILES_LIST bytes: a block, or two when the first is short
\* (the end of the padding, or a command).
RecvChoice ==
    /\ session = "choosing" /\ up # <<>>
    /\ \E k \in 1 .. Len(up) :
          /\ k = 1 \/ (k = 2 /\ up[1] \in {Request, Stop, Zero})
          /\ up' = SubSeq(up, k + 1, Len(up))
    /\ Judge(up[1])
    /\ UNCHANGED <<client, senders, stopping, typed, chats>>

\* Mutant: recv returns 0 and the loop reads again.
RecvChoiceEndRetried == session = "choosing" /\ up = <<>> /\ gone /\ UNCHANGED vars

\* The client is gone: recv returns 0, which the loop does not test, and the
\* buffer it has just cleared is judged.
RecvChoiceEnd ==
    /\ session = "choosing" /\ up = <<>> /\ gone
    /\ Judge(Zero)
    /\ UNCHANGED <<client, up, senders, stopping, typed, chats>>

\* The confirmation is sent before the thread exists; there may be none.
Grant ==
    /\ session = "granting"
    /\ session' = "main"
    /\ senders' \in {senders, senders + 1}
    /\ UNCHANGED <<client, up, down, chosen, granted, exited, stopping, typed, chats>>

RecvMainEnd ==
    /\ session = "main" /\ up = <<>> /\ gone
    /\ session' = "ended"
    /\ UNCHANGED <<client, up, down, chosen, granted, exited, senders, stopping, typed, chats>>

\* The client exited with messages unread: its system resets the connection,
\* what it had sent is lost and recv fails.
Reset ==
    /\ gone /\ session \in {"main", "choosing"} /\ down # <<>>
    /\ up' = <<>>
    /\ session' = IF session = "main" THEN "ended" ELSE "main"
    /\ UNCHANGED <<client, down, chosen, granted, exited, senders, stopping, typed, chats>>
-------------------------------------------------------------------------------
(* The other sessions, and the server's own SIGINT.                        *)
Chat ==
    /\ session # "ended" /\ chats < MaxChat
    /\ chats' = chats + 1
    /\ down' = Append(down, "chat")
    /\ UNCHANGED <<client, up, server, typed>>

\* The handler of SIGINT tells the clients, sleeps and ends the process; the
\* session runs meanwhile.
Shutdown ==
    /\ session # "ended" /\ ~stopping
    /\ stopping' = TRUE
    /\ down' = Append(down, "fin")
    /\ UNCHANGED <<client, up, session, chosen, granted, exited, senders, typed, chats>>

ServerExits ==
    /\ session # "ended" /\ stopping
    /\ session' = "ended"
    /\ UNCHANGED <<client, up, down, chosen, granted, exited, senders, stopping, typed, chats>>

Listener == ListenMain \/ ListenIndices \/ ListenEnd
Session == RecvMain \/ RecvChoice \/ RecvChoiceEnd \/ Grant \/ RecvMainEnd \/ Reset
Next == AskFiles \/ PickFiles \/ ReadPipe \/ Leave \/ Listener \/ Session \/ Chat \/ Shutdown \/ ServerExits

\* The threads run; nobody has to type, to chat or to stop the server.
Spec == Init /\ [][Next]_vars /\ WF_vars(ReadPipe) /\ WF_vars(Listener) /\ WF_vars(Session)
-------------------------------------------------------------------------------
\* Types; what the session accepts is a list of indices or nothing.
TypeOK ==
    /\ user \in {"prompt", "choosing", "reading"} /\ pick \in Block
    /\ listener \in {"main", "indices", "done"}
    /\ pipe \in Seq({"OK", "NOK", "error"})
    /\ up \in Seq(Block)
    /\ down \in Seq({"askIndice", "OK", "NOK", "error", "chat", "fin"})
    /\ session \in {"main", "choosing", "granting", "ended"}
    /\ chosen \in Valid \cup {Zero}
    /\ gone \in BOOLEAN /\ stopping \in BOOLEAN /\ exited \in BOOLEAN
    /\ granted \in Nat /\ senders \in Nat /\ dials \in Nat /\ typed \in 0 .. MaxTyped /\ chats \in 0 .. MaxChat

\* The receiving thread stays in get_file_valid_indice (get_file_valid_indice.c:17)
\* only while the session is to judge a selection, its confirmation is on the
\* way, the connection is over, or the user left the command with "exit", which
\* the session does not answer (handle_file_send.c:188): but for that text it
\* never waits there for a verdict nobody will send.
VerdictIsComing ==
    listener = "indices" /\ ~gone =>
        \/ session \in {"choosing", "ended"}
        \/ Contains(down, "OK")
        \/ exited

Count(word, seq) == Cardinality({i \in DOMAIN seq : seq[i] = word})

\* A client connects for files (handle_get_files.c:199) at most once for each
\* confirmation the session sent, whatever the two streams and the pipe hold.
DialIsGranted == dials + Count("OK", pipe) + Count("OK", down) <= granted

\* A list on its way to the client finds the session judging, is followed by the
\* confirmation, or belongs to a command left with "exit".
AskIsFollowed ==
    ~gone => \A i \in DOMAIN down : down[i] = "askIndice" =>
        \/ session \in {"choosing", "ended"}
        \/ \E j \in DOMAIN down : i < j /\ down[j] = "OK"
        \/ exited

IInv == TypeOK /\ DialIsGranted /\ VerdictIsComing /\ AskIsFollowed

\* A client that exits while its session reads a selection does not keep it:
\* the session ends (handle_file_send.c:175).
DepartedEnds == gone ~> session = "ended"

\* A selection that was sent is judged: the session does not wait for the
\* client in handle_get_files_commande while the client waits for it in the
\* pipe (handle_get_files.c:168).  To judge may be to leave the command, on
\* "exit".  The exception is a user who types the command itself as a selection:
\* the session reads it as a command.
ChoiceIsJudged ==
    (session = "choosing" /\ user = "reading" /\ pick # Request) ~> session # "choosing"

\* A command left with "exit" (handle_file_send.h:26) is over for the client too.
\* Violated: no message says so, and both its threads wait until somebody chats.
ExitIsAnswered == session = "main" /\ exited ~> listener # "indices" \/ session # "main" \/ gone

\* The client that is told its selection is accepted, and prints that these
\* are the files selected (handle_get_files.c:176, 194), has the selection the
\* session accepted.  Violated: padding that an earlier read left behind, of a
\* refused selection or of one read together with the command, is accepted.
AcceptedIsPicked ==
    user = "reading" /\ pipe # <<>> /\ ~gone =>
        (Head(pipe) = "OK" => pick = chosen)
===============================================================================
