--------------------------------- MODULE Vt ---------------------------------
(***************************************************************************)
(* What the terminals promise on the screen: each is a teletype with a     *)
(* page of its own, which what is written to it and typed on it fills in   *)
(* order, whether or not it is the one displayed.  Positions are counted   *)
(* row by row; a line that leaves the page at the bottom pushes the top    *)
(* line out.                                                               *)
(***************************************************************************)
EXTENDS Integers, Sequences

CONSTANTS
    Term,       \* the terminals
    ROWS, COLS, \* size of the page
    Text,       \* what may be written at once: a set of sequences
    NEWLINE,    \* the character that ends a line
    BLANK       \* an empty cell

VARIABLES
    page,       \* [Term -> [cells, pos]]
    shown       \* the terminal displayed

vars == <<page, shown>>

Cell == 0 .. ROWS * COLS - 1

Feed(p) ==
    IF p.pos < ROWS * COLS THEN p
    ELSE [cells |-> [k \in Cell |-> IF k + COLS \in Cell THEN p.cells[k + COLS]
                                    ELSE BLANK],
          pos |-> p.pos - COLS]

Put(p, c) ==
    Feed(IF c = NEWLINE
         THEN [p EXCEPT !.pos = (@ \div COLS + 1) * COLS]
         ELSE [cells |-> [p.cells EXCEPT ![p.pos] = c], pos |-> p.pos + 1])

\* The page after the first n characters of text.
Putting(p, text) ==
    LET after[n \in 0 .. Len(text)] ==
            IF n = 0 THEN p ELSE Put(after[n - 1], text[n])
    IN after

Init ==
    /\ shown \in Term
    /\ \E start \in Cell :
          page = [t \in Term |-> [cells |-> [k \in Cell |-> BLANK],
                                  pos |-> IF t = shown THEN start ELSE 0]]

Write(t, text) ==
    /\ page' = [page EXCEPT ![t] = Putting(@, text)[Len(text)]]
    /\ UNCHANGED shown

Erase ==
    /\ page[shown].pos > 0
    /\ page' = [page EXCEPT ![shown] =
                   [cells |-> [@.cells EXCEPT ![page[shown].pos - 1] = BLANK],
                    pos |-> @.pos - 1]]
    /\ UNCHANGED shown

Wipe ==
    /\ page' = [page EXCEPT ![shown] = [cells |-> [k \in Cell |-> BLANK], pos |-> 0]]
    /\ UNCHANGED shown

Show(t) == shown' = t /\ UNCHANGED page

Next ==
    \/ Erase \/ Wipe
    \/ \E t \in Term : Show(t) \/ \E text \in Text : Write(t, text)

Spec == Init /\ [][Next]_vars
=============================================================================
