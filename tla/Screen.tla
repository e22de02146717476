------------------------------- MODULE Screen -------------------------------
(***************************************************************************)
(* The text screen: putc, scroll, clear, print_backspace and their twins   *)
(* for terminals that are not displayed (lib.c), terminal_write and the    *)
(* part of switch_displaying_term that saves and loads the screen          *)
(* (terminal.c), and the echo of the keyboard handler (keyboard.c).        *)
(*                                                                         *)
(* The displayed terminal lives in video memory, screen_x and screen_y,    *)
(* the others in terms[].  terminal_write runs under cli and the keyboard  *)
(* handler with interrupts off, so each is one step; of the line buffer    *)
(* only the number of characters in it matters, how a line is read is      *)
(* module LineBuffer.  Blanks and NUL characters look the same.            *)
(***************************************************************************)
EXTENDS Integers, Sequences

CONSTANTS
    NUM_TERMINALS,
    NUM_ROWS, NUM_COLS,
    BUFF_SIZE,          \* capacity of the line buffer
    Chars,              \* printable characters
    NEWLINE, BLANK,
    MaxWrite            \* longest buffer of one terminal_write, a bound

Term == 0 .. NUM_TERMINALS - 1
Cell == 0 .. NUM_ROWS * NUM_COLS - 1
Text == UNION { [1 .. n -> Chars \cup {NEWLINE}] : n \in 1 .. MaxWrite }

\* A full line buffer fits the screen above its last row (128 <= 24 * 80).
ASSUME ScreenAssumption ==
    /\ NUM_TERMINALS \in Nat \ {0}
    /\ NUM_ROWS \in Nat \ {0} /\ NUM_COLS \in Nat \ {0}
    /\ BUFF_SIZE \in Nat \ {0}
    /\ BUFF_SIZE <= (NUM_ROWS - 1) * NUM_COLS
    /\ MaxWrite \in Nat \ {0}
    /\ NEWLINE \notin Chars /\ BLANK \notin Chars \cup {NEWLINE}

VARIABLES
    scr,            \* video memory, screen_x and screen_y
    hw_cursor,      \* the position the VGA cursor is programmed to
    saved,          \* [Term -> vid_save, x_save, y_save]
    curr_term_id,   \* the terminal displayed
    typed,          \* [Term -> characters in its line buffer]
    wiped,          \* history: [Term -> was it cleared with what is in its buffer]
    fault           \* a write has left video memory; the model ends there

vars == <<scr, hw_cursor, saved, curr_term_id, typed, wiped, fault>>

-----------------------------------------------------------------------------
(***************************************************************************)
(* A screen s is a record of cells and cursor.  The functions of lib.c for *)
(* the displayed terminal and the non_display_ ones do the same to it.     *)
(***************************************************************************)
AllBlank == [k \in Cell |-> BLANK]
At(s) == NUM_COLS * s.y + s.x

scroll(s) ==
    [cells |-> [k \in Cell |-> IF k < NUM_COLS * (NUM_ROWS - 1)
                               THEN s.cells[k + NUM_COLS] ELSE BLANK],
     x |-> 0, y |-> NUM_ROWS - 1]

clear(s) == [cells |-> AllBlank, x |-> 0, y |-> 0]

\* Mutant: the scroll is one row late.
LateScroll(s) ==
    LET t == [s EXCEPT !.y = @ + 1]
    IN [(IF t.y > NUM_ROWS THEN scroll(t) ELSE t) EXCEPT !.x = 0]

newline(s) ==
    LET t == [s EXCEPT !.y = @ + 1]
    IN [(IF t.y >= NUM_ROWS THEN scroll(t) ELSE t) EXCEPT !.x = 0]

putc(s, c) ==
    IF c = NEWLINE THEN newline(s)
    ELSE LET t == [s EXCEPT !.cells[At(s)] = c, !.x = @ + 1]
         IN IF t.x = NUM_COLS THEN newline(t)
            ELSE [t EXCEPT !.y = (@ + t.x \div NUM_COLS) % NUM_ROWS]

\* Mutant: output to a terminal that is not displayed does not scroll it.
NoScroll(s, c) ==
    IF c = NEWLINE THEN [s EXCEPT !.y = (@ + 1) % NUM_ROWS, !.x = 0]
    ELSE LET t == [s EXCEPT !.cells[At(s)] = c, !.x = @ + 1]
         IN IF t.x = NUM_COLS
            THEN [t EXCEPT !.y = (@ + 1) % NUM_ROWS, !.x = 0] ELSE t

non_display_putc(s, c) ==
    IF c = NEWLINE THEN newline(s)
    ELSE LET t == [s EXCEPT !.cells[At(s)] = c, !.x = @ + 1]
         IN IF t.x = NUM_COLS THEN newline(t)
            ELSE [t EXCEPT !.y = (@ + t.x \div NUM_COLS) % NUM_ROWS]

print_backspace(s) ==
    LET t == IF s.x - 1 < 0 THEN [s EXCEPT !.x = NUM_COLS - 1, !.y = @ - 1]
             ELSE [s EXCEPT !.x = @ - 1]
    IN [t EXCEPT !.cells[At(t)] = BLANK]

-----------------------------------------------------------------------------
\* boot: the kernel has printed its messages, the cursor is where they ended
\* (what they say is left out); the buffers of all terminals are blank.
Init ==
    /\ \E x \in 0 .. NUM_COLS - 1, y \in 0 .. NUM_ROWS - 1 :
          /\ scr = [cells |-> AllBlank, x |-> x, y |-> y]
          /\ hw_cursor = NUM_COLS * y + x
    /\ saved = [t \in Term |-> clear(t)]
    /\ curr_term_id = 0
    /\ typed = [t \in Term |-> 0]
    /\ wiped = [t \in Term |-> FALSE]
    /\ fault = FALSE

\* New contents for the displayed terminal: every function of lib.c ends in
\* move_cursor.
SetScreen(s) == scr' = s /\ hw_cursor' = At(s)

\* The loops of terminal_write: the screen after the first n characters of buf.
Putting(s, buf) ==
    LET after[n \in 0 .. Len(buf)] ==
            IF n = 0 THEN s ELSE putc(after[n - 1], buf[n])
    IN after

NonDisplayPutting(s, buf) ==
    LET after[n \in 0 .. Len(buf)] ==
            IF n = 0 THEN s ELSE non_display_putc(after[n - 1], buf[n])
    IN after

\* write to stdout by a program of terminal t.
terminal_write(t, buf) ==
    /\ ~ fault
    /\ IF t = curr_term_id
       THEN SetScreen(Putting(scr, buf)[Len(buf)]) /\ UNCHANGED saved
       ELSE /\ saved' = [saved EXCEPT ![t] = NonDisplayPutting(@, buf)[Len(buf)]]
            /\ UNCHANGED <<scr, hw_cursor>>
    /\ UNCHANGED <<curr_term_id, typed, wiped, fault>>

\* printf in the kernel, of the process limit or of an exception: always to the
\* terminal displayed.
KernelPrint(c) ==
    /\ ~ fault
    /\ SetScreen(putc(scr, c))
    /\ UNCHANGED <<saved, curr_term_id, typed, wiped, fault>>

\* A key with a character, and Enter, which has one more place in the buffer.
Key(c) ==
    /\ ~ fault
    /\ typed[curr_term_id] < BUFF_SIZE - (IF c = NEWLINE THEN 0 ELSE 1)
    /\ SetScreen(putc(scr, c))
    /\ typed' = [typed EXCEPT ![curr_term_id] = @ + 1]
    /\ UNCHANGED <<saved, curr_term_id, wiped, fault>>

\* n characters are left in the line buffer.
Left(n) ==
    /\ typed' = [typed EXCEPT ![curr_term_id] = n]
    /\ wiped' = [wiped EXCEPT ![curr_term_id] = @ /\ n > 0]

\* Mutant: Backspace erases on the screen also when the buffer is empty.
AlwaysErase == TRUE

Erases == typed[curr_term_id] > 0

\* Backspace.  The character may have gone from the buffer without a read
\* having taken it (LineBuffer, PopsOneLine); then nothing is erased.  Before the
\* first cell there is no memory to write to: the page is not mapped.
Backspace ==
    /\ ~ fault
    /\ Erases
    /\ \/ /\ At(scr) = 0
          /\ fault' = TRUE
          /\ UNCHANGED <<scr, hw_cursor, typed, wiped>>
       \/ /\ \/ At(scr) > 0 /\ SetScreen(print_backspace(scr))
             \/ UNCHANGED <<scr, hw_cursor>>
          /\ Left(IF typed[curr_term_id] = 0 THEN 0 ELSE typed[curr_term_id] - 1)
          /\ UNCHANGED fault
    /\ UNCHANGED <<saved, curr_term_id>>

\* Ctrl+L.  The line buffer is left as it is.
CtrlL ==
    /\ ~ fault
    /\ SetScreen(clear(scr))
    /\ wiped' = [wiped EXCEPT ![curr_term_id] = typed[curr_term_id] > 0]
    /\ UNCHANGED <<saved, curr_term_id, typed, fault>>

\* terminal_read takes a line, or as much of it as was asked for, off the buffer.
terminal_read ==
    /\ ~ fault
    /\ \E n \in 0 .. typed[curr_term_id] - 1 : Left(n)
    /\ UNCHANGED <<scr, hw_cursor, saved, curr_term_id, fault>>

\* Mutant: set_y does not program the cursor.
HalfMoved(s) == NUM_COLS * scr.y + s.x

Moved(s) == NUM_COLS * s.y + s.x

\* Alt+F(t+1).
switch_displaying_term(t) ==
    LET saving == [saved EXCEPT ![curr_term_id] = scr] IN
    /\ ~ fault
    /\ saved' = saving
    /\ scr' = saving[t]
    /\ hw_cursor' = Moved(saving[t])
    /\ curr_term_id' = t
    /\ UNCHANGED <<typed, wiped, fault>>

Next ==
    \/ Backspace \/ CtrlL \/ terminal_read
    \/ \E c \in Chars \cup {NEWLINE} : Key(c) \/ KernelPrint(c)
    \/ \E t \in Term : \/ switch_displaying_term(t)
                       \/ \E buf \in Text : terminal_write(t, buf)

Spec == Init /\ [][Next]_vars

-----------------------------------------------------------------------------
(***************************************************************************)
(* Properties.                                                             *)
(***************************************************************************)
Page == [cells : [Cell -> Chars \cup {BLANK}],
         x : 0 .. NUM_COLS - 1, y : 0 .. NUM_ROWS - 1]

\* In particular the cursor of every terminal is inside its screen.
TypeOK ==
    /\ scr \in Page
    /\ hw_cursor \in Cell
    /\ saved \in [Term -> Page]
    /\ curr_term_id \in Term
    /\ typed \in [Term -> 0 .. BUFF_SIZE]
    /\ wiped \in [Term -> BOOLEAN]
    /\ fault \in BOOLEAN

\* The cursor on the display is where the next character goes, after any output,
\* erasing, clearing, scrolling and switching (move_cursor, lib.c:20-29).
CursorShown == hw_cursor = At(scr)

\* Backspace never moves in front of the first cell: what is typed and not yet
\* erased is on the screen before the cursor, also when output has scrolled it
\* (lib.c:249-261).  The exception is Ctrl+L with characters in the line buffer.
ErasesInside == fault => wiped[curr_term_id]

\* Every terminal behaves as a teletype with a page of its own: writing in the
\* background (non_display_putc) gives what writing on the display would, and
\* switching neither loses nor mixes anything.
Owned(t) == IF t = curr_term_id THEN scr ELSE saved[t]

Teletype == INSTANCE Vt WITH
    ROWS <- NUM_ROWS, COLS <- NUM_COLS, shown <- curr_term_id,
    page <- [t \in Term |-> [cells |-> Owned(t).cells, pos |-> At(Owned(t))]]

KeepsPages == Teletype!Spec
=============================================================================
