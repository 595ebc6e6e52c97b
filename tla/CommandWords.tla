----------------------------- MODULE CommandWords -----------------------------
(***************************************************************************)
(* How the sessions cut the lines of their users into words.               *)
(*                                                                         *)
(* A session reads what has arrived of the lines its user typed, cuts it   *)
(* with strtok, whose position it shares with all other sessions, and      *)
(* serves the command with the words it got.  What the commands do is in   *)
(* the other modules; here a command is its words.                         *)
(***************************************************************************)
EXTENDS Strtok, SequencesExt

CONSTANTS
    Line,       \* the lines users type: command, number of words, words with "@"
    MaxLines    \* bound: lines each user types

\* What has arrived fits the buffer with a zero behind it.
ASSUME CommandWordsAssumption ==
    /\ Line \subseteq [command : {"mp", "create", "join", "all", "help"},
                       words : Nat \ {0}, at : SUBSET Nat]
    /\ \A l, m \in Line : 2 * (l.words + m.words) < Size

VARIABLES
    typed,      \* the lines of each user
    received,   \* how many of them the session has read
    first,      \* the first line of the last read
    pc,         \* "clear", "recv", "first", "next", "in", "serve", "gone"
    alone,      \* no other session has cut since the session last read
    event,      \* what was served last
    process     \* "up", "null" or "unmapped": what the server died of

sessions == <<typed, received, first, pc>>
vars == <<strtokVars, sessions, alone, event, process>>

NoEvent == [outcome |-> "none"]

Init ==
    /\ StrtokInit
    /\ typed = [s \in Thread |-> <<>>]
    /\ received = [s \in Thread |-> 0] /\ first = [s \in Thread |-> 0]
    /\ pc = [s \in Thread |-> "clear"]
    /\ alone = [s \in Thread |-> TRUE]
    /\ event = NoEvent
    /\ process = "up"

At(s, label) == process = "up" /\ pc[s] = label
Go(s, label) == pc' = [pc EXCEPT ![s] = label]
-------------------------------------------------------------------------------
Word(s, n, k) == [is |-> "word", of |-> s, line |-> n, k |-> k]

\* A line as it is sent: words, a blank between them, a newline behind, no zero.
Cells(s, n) ==
    LET w == typed[s][n].words
    IN  [i \in 1 .. 2 * w |-> IF i = 2 * w THEN Newline
                              ELSE IF i % 2 = 0 THEN Space ELSE Word(s, n, (i + 1) \div 2)]

Type(s) ==
    /\ pc[s] # "gone" /\ Len(typed[s]) < MaxLines
    /\ \E l \in Line : typed' = [typed EXCEPT ![s] = Append(@, l)]
    /\ UNCHANGED <<strtokVars, received, first, pc, alone, event, process>>

\* Mutant: the buffer keeps the last line.
ClearNothing(s) ==
    /\ At(s, "clear")
    /\ Go(s, "recv")
    /\ UNCHANGED <<buffer, olds, call, tokens, typed, received, first, alone, event, process>>

Clear(s) ==
    /\ At(s, "clear")
    /\ buffer' = [buffer EXCEPT ![s] = Empty]
    /\ Go(s, "recv")
    /\ UNCHANGED <<olds, call, tokens, typed, received, first, alone, event, process>>

\* recv returns one line, or several that arrived together.
Arrived(s, from, to) ==
    IF from = to THEN Cells(s, to) ELSE Cells(s, from) \o Cells(s, to)

Recv(s) ==
    /\ At(s, "recv")
    /\ \E last \in received[s] + 1 .. Len(typed[s]) :
          /\ last <= received[s] + 2
          /\ received' = [received EXCEPT ![s] = last]
          /\ first' = [first EXCEPT ![s] = received[s] + 1]
          /\ LET text == Arrived(s, received[s] + 1, last)
             IN  buffer' = [buffer EXCEPT ![s] = [i \in DOMAIN @ |->
                                                    IF i <= Len(text) THEN text[i] ELSE @[i]]]
    /\ tokens' = [tokens EXCEPT ![s] = <<>>]
    /\ alone' = [alone EXCEPT ![s] = TRUE]
    /\ Go(s, "first")
    /\ UNCHANGED <<olds, call, typed, event, process>>

\* The user leaves and the thread ends, with the buffer on its stack.
Leave(s) ==
    /\ At(s, "recv") /\ received[s] = Len(typed[s])
    /\ Go(s, "gone")
    /\ UNCHANGED <<strtokVars, typed, received, first, alone, event, process>>
-------------------------------------------------------------------------------
First(s) ==
    /\ At(s, "first")
    /\ Enter(s, <<s, 1>>)
    /\ Go(s, "in")
    /\ UNCHANGED <<typed, received, first, alone, event, process>>

\* The command is compared exactly with "mp", by its beginning with the others:
\* a newline that sticks to it makes "/mp" an unknown command.
Command(s) ==
    LET text == Text(tokens[s][1])
        command == typed[s][text[1].line].command
    IN  IF command = "mp" /\ Len(text) > 1 THEN "help" ELSE command

\* The delimiters of the calls that follow the first.
Delimiters(command) ==
    CASE command = "mp" -> <<{Space}, {}>>
      [] command = "create" -> <<{Space}, {Newline}>>
      [] command = "join" -> <<{Space}>>
      [] command = "all" -> <<{}>>
      [] command = "help" -> <<>>

More(s) ==
    /\ At(s, "next")
    /\ Len(tokens[s]) <= Len(Delimiters(Command(s)))
    /\ Enter(s, olds)
    /\ Go(s, "in")
    /\ UNCHANGED <<typed, received, first, alone, event, process>>

\* Another thread's stack may be unmapped when it has ended.
Cut(s) ==
    /\ At(s, "in")
    /\ Return(s, IF tokens[s] = <<>> THEN {Space} ELSE Delimiters(Command(s))[Len(tokens[s])])
    /\ alone' = [o \in Thread |-> o = s /\ alone[o]]
    /\ \/ Go(s, "next") /\ UNCHANGED process
       \/ pc[call[s][1]] = "gone" /\ process' = "unmapped" /\ UNCHANGED pc
    /\ UNCHANGED <<typed, received, first, event>>

Arguments(s) == [i \in 1 .. Len(tokens[s]) - 1 |-> tokens[s][i + 1]]
Missing(s) == \E i \in DOMAIN Arguments(s) : Arguments(s)[i] = Null

\* join_channel, quit_channel and delete_channel zero the last byte of the name.
Chopped(text) ==
    IF text = <<>> \/ Last(text) = Newline THEN Front(text)
    ELSE [text EXCEPT ![Len(text)] = [Last(text) EXCEPT !.is = "cut word"]]

Mentions(text) ==
    \E i \in DOMAIN text :
        text[i].is = "word" /\ text[i].k \in typed[text[i].of][text[i].line].at

\* strstr looks for "@" in the buffer, which ends behind the command by now.
Tagged(s) == Command(s) = "all" /\ Mentions(Text(<<s, 1>>))

Answer(s, outcome, texts) ==
    /\ event' = [outcome |-> outcome, by |-> s, first |-> first[s], last |-> received[s],
                  alone |-> alone[s], words |-> texts]
    /\ Go(s, "clear")
    /\ UNCHANGED <<strtokVars, typed, received, first, alone, process>>

Ready(s) == At(s, "next") /\ Len(tokens[s]) > Len(Delimiters(Command(s)))

Texts(s) == [i \in DOMAIN Arguments(s) |->
                 IF Arguments(s)[i] = Null THEN <<>> ELSE Text(Arguments(s)[i])]

\* A word is missing, or the command is unknown: an error.  "/all" has no test.
Refuse(s) ==
    /\ Ready(s) /\ Command(s) # "all"
    /\ Command(s) = "help" \/ Missing(s)
    /\ Answer(s, "refused", <<>>)

\* Mutant: the words of /mp are not tested; strcmp reads from NULL.
ServeUntested(s) ==
    /\ Ready(s) /\ Command(s) # "help" /\ ~Tagged(s)
    /\ IF Command(s) # "all" /\ Arguments(s)[1] = Null
       THEN process' = "null" /\ UNCHANGED <<strtokVars, sessions, alone, event>>
       ELSE Answer(s, "served", Texts(s))

Serve(s) ==
    /\ Ready(s) /\ Command(s) # "help" /\ ~Tagged(s)
    /\ Command(s) = "all" \/ ~Missing(s)
    /\ Answer(s, "served", IF Command(s) = "join" THEN <<Chopped(Texts(s)[1])>> ELSE Texts(s))

\* handle_tag_message looks for the "@" in what follows the command: without
\* one, or without anything, it reads from NULL.
ServeTag(s) ==
    /\ Ready(s) /\ Tagged(s)
    /\ IF Missing(s) \/ ~Mentions(Texts(s)[1])
       THEN process' = "null" /\ UNCHANGED <<strtokVars, sessions, alone, event>>
       ELSE Answer(s, "tagged", Texts(s))

Session(s) ==
    \/ Clear(s) \/ Recv(s) \/ First(s) \/ More(s) \/ Cut(s)
    \/ Refuse(s) \/ Serve(s) \/ ServeTag(s)

Next == \E s \in Thread : Type(s) \/ Leave(s) \/ Session(s)

Spec == Init /\ [][Next]_vars
-------------------------------------------------------------------------------
\* Types; see StrtokTypeOK for what every use of the position relies on.
TypeOK ==
    /\ StrtokTypeOK
    /\ typed \in [Thread -> Seq(Line)]
    /\ received \in [Thread -> Nat] /\ first \in [Thread -> Nat]
    /\ \A s \in Thread : received[s] <= Len(typed[s])
    /\ pc \in [Thread -> {"clear", "recv", "first", "next", "in", "gone"}]
    /\ alone \in [Thread -> BOOLEAN]
    /\ process \in {"up", "null", "unmapped"}

\* The words a command was served with, at <<argument, cell>>, and their order.
Given == UNION {{i} \X {j \in DOMAIN event.words[i] : event.words[i][j].is = "word"} :
                i \in DOMAIN event.words}
WordAt(at) == event.words[at[1]][at[2]]
Before(at, then) == at[1] < then[1] \/ (at[1] = then[1] /\ at[2] < then[2])
Happened == event.outcome \in {"served", "tagged"}
OneLine == event.first = event.last
Asked == typed[event.by][event.last]
Owed(s, n) == {Word(s, n, k) : k \in 2 .. typed[s][n].words}

\* Without another session in between, a command that came in one read is
\* served with the words of its line, in order, whatever older lines and cuts
\* were in the buffer (client_handler.c:77, 124-125); the name of a channel
\* with more words behind it is another matter (NameIsTyped).
AloneIsExact ==
    Happened /\ event.alone /\ OneLine =>
        \/ /\ {WordAt(at) : at \in Given} = Owed(event.by, event.last)
           /\ \A at, then \in Given : Before(at, then) => WordAt(at).k < WordAt(then).k
        \/ Asked.command = "join" /\ Asked.words > 2

\* The command of line n has an "@" in it, or what sticks to it has: a command
\* without another word takes the first word of a line that came with it.
Sticking(s, n) ==
    IF typed[s][n].words = 1 /\ n < received[s] THEN {n, n + 1} ELSE {n}

\* Types; and however the sessions disturb each other's cutting, a NULL is only
\* read for a command whose first word has an "@" (client_handler.c:128, 195).
NullIsMention ==
    /\ TypeOK
    /\ process = "null" =>
        \E s \in Thread : \E n \in 1 .. received[s] :
            typed[s][n].command = "all" /\ \E m \in Sticking(s, n) : 1 \in typed[s][m].at

\* The inductive invariant.  In a buffer is the text of the last read, but for
\* zeros, and its first word is never cut.
InBuffer(s) == Arrived(s, first[s], received[s])
Busy(s) == pc[s] \in {"first", "in", "next"}

ReadIn(s) ==
    /\ pc[s] \in {"recv", "gone"} => \A i \in 1 .. Size : buffer[s][i] = Nul
    /\ Busy(s) =>
        /\ first[s] \in 1 .. received[s] /\ received[s] <= first[s] + 1
        /\ buffer[s][1] = Word(s, first[s], 1)
        /\ \A i \in 1 .. Size : buffer[s][i] # Nul =>
              i \in DOMAIN InBuffer(s) /\ buffer[s][i] = InBuffer(s)[i]

\* A session's first call cuts its own line off at the first blank, and it makes
\* no more calls than its command asks for.
CutOff(s) == \A i \in 1 .. Size : buffer[s][i] = Space => \E j \in 1 .. i - 1 : buffer[s][j] = Nul

InOrder(s) ==
    /\ call[s] # Null <=> pc[s] = "in"
    /\ pc[s] = "first" => tokens[s] = <<>>
    /\ pc[s] = "in" /\ tokens[s] = <<>> => call[s] = <<s, 1>>
    /\ pc[s] = "next" => tokens[s] # <<>> /\ olds # Null
    /\ Busy(s) /\ tokens[s] # <<>> =>
        /\ tokens[s][1] = <<s, 1>> /\ CutOff(s)
        /\ Len(tokens[s]) <= Len(Delimiters(Command(s))) + (IF pc[s] = "next" THEN 1 ELSE 0)

SessionsCut ==
    \A s \in Thread : ReadIn(s) /\ (process = "up" => InOrder(s))

\* What the calls of a session alone have cut out of the line of w words.
CutAt(command, w, calls) ==
    {i \in {2, 4, 2 * w} :
        \/ i = 2 /\ w > 1 /\ calls >= 1
        \/ i = 4 /\ w > 2 /\ calls >= 2 /\ command # "all"
        \/ i = 2 * w /\ w > 2 /\ calls = 3 /\ command = "create"}

Behind(command, w, calls) ==
    CASE calls = 1 -> 3
      [] calls = 2 -> IF command = "all" THEN 2 * w + 1 ELSE IF w = 1 THEN 3 ELSE 5

Argument(s, w, k) == IF k > w THEN Null ELSE <<s, 2 * k - 1>>

Untouched(s) == Busy(s) /\ alone[s] /\ first[s] = received[s]

CutAlone(s) ==
    LET command == typed[s][first[s]].command
        w == typed[s][first[s]].words
        calls == Len(tokens[s])
    IN  /\ \A i \in 1 .. Size :
              buffer[s][i] = IF i > 2 * w \/ i \in CutAt(command, w, calls) THEN Nul
                             ELSE Cells(s, first[s])[i]
        /\ calls \in 1 .. 2 => olds = <<s, Behind(command, w, calls)>>
        /\ calls > 0 /\ pc[s] = "in" => call[s] = olds
        /\ \A k \in 2 .. calls : tokens[s][k] = Argument(s, w, k)

AloneIsCut == process = "up" => \A s \in Thread : Untouched(s) => CutAlone(s)

EventIsPast == Happened => event.by \in Thread /\ event.last \in 1 .. Len(typed[event.by])

IInv ==
    /\ NullIsMention /\ AloneIsExact
    /\ SessionsCut /\ AloneIsCut /\ EventIsPast

\* The words a command is served with are those of its user ("Extraire le
\* pseudo et le message", client_handler.c:123).
WordsAreOwn == Happened => \A at \in Given : WordAt(at).of = event.by

\* A read is one message of the client ("Recevoir un message du client",
\* client_handler.c:79): no command is served with the words of two lines.
OneLineEach ==
    Happened /\ event.alone => \A at, then \in Given : WordAt(at).line = WordAt(then).line

\* "@<pseudo> : Mentionne un client spécifié par <pseudo> dans un message
\* public" (readme.md:79, manual.txt:20): a message with an "@" is a mention.
MentionIsTagged ==
    Happened /\ event.alone /\ OneLine /\ Asked.command = "all" /\ Asked.at # {}
        => event.outcome = "tagged"

\* "Enlever "\n" du nom du channel" (channel.c:117): nothing else is taken off.
NameIsTyped ==
    Happened => \A i \in DOMAIN event.words : \A j \in DOMAIN event.words[i] :
        event.words[i][j].is # "cut word"
===============================================================================
