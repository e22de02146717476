------------------------------- MODULE Frames -------------------------------
(***************************************************************************)
(* add_frames of the user program fish (fish.c): two frame files are read  *)
(* side by side, a character of each at a time, and every place where one  *)
(* of them is not blank is given to mp1_ioctl as a blink.  A file that is  *)
(* at the end of its line, or at its end, waits for the other one.         *)
(***************************************************************************)
EXTENDS Strings

CONSTANTS
    NEWLINE,
    COLS, OFFSET    \* width of a row (80) and the column frames start at (40)

\* The state of the loops, at the beginning of a row or inside it.
At(row, col, in0, in1, out) ==
    [row |-> row, col |-> col, in0 |-> in0, in1 |-> in1, out |-> out]

\* One file: where it is read, the last character and whether its end was met.
Input(pos, c, eof) == [pos |-> pos, c |-> c, eof |-> eof]

ReadChar(in, file) ==
    IF in.c = NEWLINE THEN in
    ELSE IF in.pos = Len(file) THEN Input(in.pos, NEWLINE, TRUE)
    ELSE Input(in.pos + 1, file[in.pos + 1], in.eof)

\* For the next row: a file at its end stays there, the other is read again.
NewRow(in) == IF in.eof THEN in ELSE Input(in.pos, 48, FALSE)

\* Mutant: both characters have to be there.
BothInk(c0, c1) == c0 \notin { SPACE, NEWLINE } /\ c1 \notin { SPACE, NEWLINE }

Ink(c0, c1) == c0 \notin { SPACE, NEWLINE } \/ c1 \notin { SPACE, NEWLINE }

CharOf(c) == IF c = NEWLINE THEN SPACE ELSE c

RECURSIVE Scan(_, _, _)
Scan(g, f0, f1) ==
    LET in0 == ReadChar(g.in0, f0)
        in1 == ReadChar(g.in1, f1)
        blink == [location |-> g.row * COLS + g.col + OFFSET,
                  on_char |-> CharOf(in0.c), off_char |-> CharOf(in1.c)]
        out == IF Ink(in0.c, in1.c) THEN Append(g.out, blink) ELSE g.out
    IN IF in0.c # NEWLINE \/ in1.c # NEWLINE
       THEN Scan(At(g.row, g.col + 1, in0, in1, out), f0, f1)
       ELSE IF in0.eof /\ in1.eof THEN g.out
       ELSE Scan(At(g.row + 1, 0, NewRow(in0), NewRow(in1), g.out), f0, f1)

\* The blinks added for two frame files, in order.
add_frames(f0, f1) == Scan(At(0, 0, Input(0, 48, FALSE), Input(0, 48, FALSE), << >>), f0, f1)
=============================================================================
