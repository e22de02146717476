-------------------------------- MODULE Tty --------------------------------
(***************************************************************************)
(* What the keyboard and terminal_read promise: every terminal has a queue *)
(* of finished lines and the line being edited.  Keys go to the terminal   *)
(* on the display, a read takes the first finished line of a terminal, and *)
(* switching the display touches no line.                                  *)
(***************************************************************************)
EXTENDS Naturals, Sequences, FiniteSets

CONSTANTS
    Terminals,    \* those the promise is made to
    BUFF_SIZE, Chars, NULL

VARIABLES
    lines,    \* [Terminals -> Seq(Seq(Chars))], finished and not yet read
    edit,     \* [Terminals -> Seq(Chars)], being typed
    shown,    \* terminal on the display, NULL when it is none of these
    out       \* <<terminal, line>> when the last step was a read, else NULL

tty == <<lines, edit, shown, out>>

\* A terminal without finished lines takes BUFF_SIZE - 1 characters and Enter.
Room == Len(edit[shown]) < BUFF_SIZE - 1

Displayed == shown \in Terminals

TtyInit ==
    /\ lines = [t \in Terminals |-> <<>>]
    /\ edit = [t \in Terminals |-> <<>>]
    /\ shown \in Terminals \cup {NULL}
    /\ out = NULL

\* A further character is dropped.
Type(c) ==
    /\ Displayed
    /\ edit' = [edit EXCEPT ![shown] = IF Room THEN Append(@, c) ELSE @]
    /\ out' = NULL
    /\ UNCHANGED <<lines, shown>>

EndLine ==
    /\ Displayed
    /\ lines' = [lines EXCEPT ![shown] = Append(@, edit[shown])]
    /\ edit' = [edit EXCEPT ![shown] = <<>>]
    /\ out' = NULL
    /\ UNCHANGED shown

Erase ==
    /\ Displayed
    /\ edit' = [edit EXCEPT ![shown] = IF @ = <<>> THEN @
                                       ELSE SubSeq(@, 1, Len(@) - 1)]
    /\ out' = NULL
    /\ UNCHANGED <<lines, shown>>

Show(t) ==
    /\ shown' = t
    /\ out' = NULL
    /\ UNCHANGED <<lines, edit>>

ReadLine(t) ==
    /\ lines[t] # <<>>
    /\ out' = <<t, Head(lines[t])>>
    /\ lines' = [lines EXCEPT ![t] = Tail(@)]
    /\ UNCHANGED <<edit, shown>>

Idle == out' = NULL /\ UNCHANGED <<lines, edit, shown>>

TtyNext ==
    \/ \E c \in Chars : Type(c)
    \/ EndLine \/ Erase \/ Idle
    \/ \E t \in Terminals \cup {NULL} : Show(t)
    \/ \E t \in Terminals : ReadLine(t)

TtySpec == TtyInit /\ [][TtyNext]_tty
=============================================================================
