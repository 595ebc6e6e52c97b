-------------------------------- MODULE Strtok --------------------------------
(***************************************************************************)
(* strtok of the C library, with the one position all threads of a process *)
(* share.                                                                  *)
(*                                                                         *)
(* A buffer is a row of cells: a word, a separator or the zero byte.  A    *)
(* call reads where it is to start (Enter), then cuts the token out of the *)
(* buffer, whoever owns that, and leaves the position behind it (Return).  *)
(* A pointer is <<thread that owns the buffer, cell>>.                     *)
(***************************************************************************)
EXTENDS Naturals, Sequences, FiniteSetsExt

CONSTANTS
    Thread,     \* the threads, each with one buffer
    Size        \* the cells of a buffer; the last stays zero

ASSUME StrtokAssumption == Size \in Nat \ {0}

Null == <<>>
Space == [is |-> " "]
Newline == [is |-> "\n"]
Nul == [is |-> "nul"]

VARIABLES
    buffer,     \* cells of each thread's buffer
    olds,       \* the static position, or Null before the first call
    call,       \* where the call a thread is in starts, or Null
    tokens      \* what the thread's calls returned since it last started over

strtokVars == <<buffer, olds, call, tokens>>

Empty == [i \in 1 .. Size |-> Nul]

StrtokInit ==
    /\ buffer = [t \in Thread |-> Empty]
    /\ olds = Null
    /\ call = [t \in Thread |-> Null]
    /\ tokens = [t \in Thread |-> <<>>]

\* What a pointer shows: the cells up to the zero.
Text(p) ==
    LET b == buffer[p[1]]
        end == Min({i \in p[2] .. Size : b[i] = Nul})
    IN  SubSeq(b, p[2], end - 1)

\* strtok(start, ...), or strtok(NULL, ...) when start is olds.
Enter(t, start) ==
    /\ call[t] = Null
    /\ call' = [call EXCEPT ![t] = start]
    /\ UNCHANGED <<buffer, olds, tokens>>

Token(t, p) == tokens' = [tokens EXCEPT ![t] = Append(@, p)]

Return(t, delims) ==
    LET o == call[t][1]
        b == buffer[o]
        first == Min({i \in call[t][2] .. Size : b[i] \notin delims})
        stop == Min({i \in first .. Size : b[i] \in delims \cup {Nul}})
    IN  /\ call[t] # Null
        /\ call' = [call EXCEPT ![t] = Null]
        /\ Token(t, IF b[first] = Nul THEN Null ELSE <<o, first>>)
        /\ IF b[stop] = Nul
           THEN olds' = <<o, stop>> /\ UNCHANGED buffer
           ELSE olds' = <<o, stop + 1>> /\ buffer' = [buffer EXCEPT ![o][stop] = Nul]

\* Every position in use is in a buffer, and every buffer ends.
StrtokTypeOK ==
    LET Pointer == (Thread \X (1 .. Size)) \cup {Null}
    IN  /\ DOMAIN buffer = Thread
        /\ \A t \in Thread : DOMAIN buffer[t] = 1 .. Size /\ buffer[t][Size] = Nul
        /\ olds \in Pointer /\ call \in [Thread -> Pointer]
        /\ tokens \in [Thread -> Seq(Pointer)]
===============================================================================
