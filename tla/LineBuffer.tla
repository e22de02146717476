----------------------------- MODULE LineBuffer -----------------------------
(***************************************************************************)
(* The keyboard line buffer: keyboard_handler, set_buffer and shift_buffer *)
(* (keyboard.c), terminal_read and the part of switch_displaying_term that *)
(* saves and restores the buffer (terminal.c).  key_buff, buff_index and   *)
(* num_enters are those of the terminal on the display; the other          *)
(* terminals' are in terms[].                                              *)
(***************************************************************************)
EXTENDS Integers, Sequences, FiniteSets

CONSTANTS
    NUM_TERMINALS,
    BUFF_SIZE,      \* length of key_buff
    Chars,          \* characters that can be typed
    NUL, NL,        \* the bytes '\0' and '\n'
    ReadSizes,      \* the nbytes user programs pass to read
    TypeAhead,      \* terminals whose users type on before their line is read
    MAX_ENTERS,     \* bound: Enter keys outstanding in one terminal
    NULL

Term == 0 .. NUM_TERMINALS - 1
Index == 0 .. BUFF_SIZE - 1
Byte == Chars \cup {NUL, NL}

ASSUME LineBufferAssumption ==
    /\ NUM_TERMINALS \in Nat \ {0}
    /\ BUFF_SIZE \in Nat \ {0}
    /\ ReadSizes \subseteq Nat
    /\ TypeAhead \subseteq Term
    /\ MAX_ENTERS \in Nat
    /\ NUL \notin Chars /\ NL \notin Chars /\ NUL # NL
    /\ NULL \notin Term

VARIABLES
    key_buff,       \* [Index -> Byte]
    buff_index,     \* where the next character goes
    num_enters,     \* Enter keys pressed and not yet consumed by a read
    terms,          \* [Term -> saved key_buff, buff_index and num_enters]
    curr_term_id,   \* terminal on the display
    exec_term_id,   \* terminal whose thread is on the processor
    read_buf,       \* <<terminal, line>> when the last step was a read, else NULL
    overrun         \* a read has run past the end of key_buff

buffer == <<key_buff, buff_index, num_enters>>
vars == <<buffer, terms, curr_term_id, exec_term_id, read_buf, overrun>>

-----------------------------------------------------------------------------
Init ==
    /\ key_buff = [k \in Index |-> NUL]
    /\ buff_index = 0
    /\ num_enters = 0
    /\ terms = [t \in Term |-> [buff_save |-> [k \in Index |-> NUL],
                                buff_index_save |-> 0, enters_save |-> 0]]
    /\ curr_term_id = 0
    /\ exec_term_id = 0
    /\ read_buf = NULL
    /\ overrun = FALSE

(***************************************************************************)
(* Keys.  With an index below 0, which a read can leave, the handler       *)
(* writes outside the array; such writes are not followed.                 *)
(***************************************************************************)
Key ==
    /\ ~ overrun
    /\ buff_index >= 0
    /\ curr_term_id \in TypeAhead \/ num_enters = 0

\* Mutant: a character is accepted in the last cell too.
FullByOne == buff_index < BUFF_SIZE

RoomForChar == buff_index < BUFF_SIZE - 1

set_buffer(c) ==
    /\ Key
    /\ RoomForChar
    /\ key_buff' = [key_buff EXCEPT ![buff_index] = c]
    /\ buff_index' = buff_index + 1
    /\ read_buf' = NULL
    /\ UNCHANGED <<num_enters, terms, curr_term_id, exec_term_id, overrun>>

Enter ==
    /\ Key
    /\ num_enters < MAX_ENTERS
    /\ buff_index < BUFF_SIZE
    /\ key_buff' = [key_buff EXCEPT ![buff_index] = NL]
    /\ buff_index' = buff_index + 1
    /\ num_enters' = num_enters + 1
    /\ read_buf' = NULL
    /\ UNCHANGED <<terms, curr_term_id, exec_term_id, overrun>>

Backspace ==
    LET i == IF buff_index - 1 < 0 THEN 0 ELSE buff_index - 1 IN
    /\ Key
    /\ buff_index' = i
    /\ key_buff' = [key_buff EXCEPT ![i] = NUL]
    /\ read_buf' = NULL
    /\ UNCHANGED <<num_enters, terms, curr_term_id, exec_term_id, overrun>>

-----------------------------------------------------------------------------
(***************************************************************************)
(* terminal_read, atomic from the test on since interrupts stay off.       *)
(***************************************************************************)
\* Number of bytes copied: up to the first newline or nbytes.
NewlineAt(k) == key_buff[k] = NL /\ \A j \in 0 .. k - 1 : key_buff[j] # NL
ReadLen(nbytes) ==
    IF \E k \in Index : k < nbytes /\ NewlineAt(k)
    THEN CHOOSE k \in Index : NewlineAt(k)
    ELSE nbytes

\* shift_buffer: clear 0 .. index, then copy BUFF_SIZE - index - 1 bytes down
\* from index + 2.  The last of them lies behind the array: past.
shift_buffer(index, past) ==
    LET cleared(k) == IF k <= index THEN NUL ELSE key_buff[k] IN
    [k \in Index |->
        IF k < BUFF_SIZE - index - 2 THEN cleared(k + index + 2)
        ELSE IF k = BUFF_SIZE - index - 2 THEN past
        ELSE cleared(k)]

\* Mutant: the wait is left as soon as the terminal is displayed.
NoWait == ~ overrun /\ exec_term_id = curr_term_id

Readable ==
    ~ overrun /\ exec_term_id = curr_term_id /\ num_enters > 0

\* Mutant: the Enter is not consumed.
KeepEnter == num_enters

EntersAfter == num_enters - 1

terminal_read(nbytes) ==
    LET i == ReadLen(nbytes) IN
    /\ Readable
    /\ i < BUFF_SIZE
    /\ num_enters' = EntersAfter
    /\ \E past \in Byte : key_buff' = shift_buffer(i, past)
    /\ buff_index' = buff_index - (i + 1)
    /\ read_buf' = <<exec_term_id, [k \in 1 .. i |-> key_buff[k - 1]]>>
    /\ UNCHANGED <<terms, curr_term_id, exec_term_id, overrun>>

\* No newline within the array and room for more in the caller's buffer.
ReadOverrun(nbytes) ==
    /\ Readable
    /\ ReadLen(nbytes) >= BUFF_SIZE
    /\ overrun' = TRUE
    /\ read_buf' = NULL
    /\ UNCHANGED <<buffer, terms, curr_term_id, exec_term_id>>

-----------------------------------------------------------------------------
Saved == [buff_save |-> key_buff, buff_index_save |-> buff_index,
          enters_save |-> num_enters]

\* Mutant: the index is not saved.
IndexNotSaved == [terms EXCEPT
    ![curr_term_id] = [@ EXCEPT !.buff_save = key_buff, !.enters_save = num_enters]]

SaveTerm == [terms EXCEPT ![curr_term_id] = Saved]

switch_displaying_term(t) ==
    /\ ~ overrun
    /\ terms' = SaveTerm
    /\ key_buff' = SaveTerm[t].buff_save
    /\ buff_index' = SaveTerm[t].buff_index_save
    /\ num_enters' = SaveTerm[t].enters_save
    /\ curr_term_id' = t
    /\ read_buf' = NULL
    /\ UNCHANGED <<exec_term_id, overrun>>

\* The timer turns to any terminal.
Schedule(t) ==
    /\ ~ overrun
    /\ exec_term_id' = t
    /\ read_buf' = NULL
    /\ UNCHANGED <<buffer, terms, curr_term_id, overrun>>

\* What happens besides typing a character and switching the display.
Others ==
    \/ Enter \/ Backspace
    \/ \E n \in ReadSizes : terminal_read(n) \/ ReadOverrun(n)
    \/ \E t \in Term : Schedule(t)

Next ==
    \/ \E c \in Chars : set_buffer(c)
    \/ \E t \in Term : switch_displaying_term(t)
    \/ Others

Spec == Init /\ [][Next]_vars

-----------------------------------------------------------------------------
WriteIndex == { i \in Int : i <= BUFF_SIZE }
TermState ==
    [buff_save : [Index -> Byte], buff_index_save : WriteIndex, enters_save : Nat]

TypeOK ==
    /\ key_buff \in [Index -> Byte]
    /\ buff_index \in WriteIndex
    /\ num_enters \in Nat
    /\ terms \in [Term -> TermState]
    /\ curr_term_id \in Term
    /\ exec_term_id \in Term
    /\ overrun \in BOOLEAN

\* The line buffer of terminal t, wherever it is kept.
View(t) == IF t = curr_term_id THEN Saved ELSE terms[t]

\* Keys and reads change only the displayed terminal's line buffer, and a switch
\* of the display changes none: what is typed in one terminal neither leaks into
\* nor disturbs another.
Isolation ==
    [][\A t \in Term : View(t)' # View(t)
          => t = curr_term_id /\ curr_term_id' = curr_term_id]_vars

\* The terminals whose users wait for their line to be read.
Patient == Term \ TypeAhead

\* In the terminal of a user who waits, num_enters counts the newlines in the
\* buffer, so a read that is let through finds the newline it stops at.
EntersAreNewlines ==
    \A t \in Patient :
        LET v == View(t) IN
        v.enters_save = Cardinality({ k \in Index : /\ k < v.buff_index_save
                                                    /\ v.buff_save[k] = NL })

\* A read pops exactly the first line: what was typed after it stays.
Text(b, n) == [k \in 1 .. n |-> b[k - 1]]
PopsOneLine ==
    [][\A n \in ReadSizes : terminal_read(n) =>
          LET i == ReadLen(n) IN
          Text(key_buff', buff_index') =
             SubSeq(Text(key_buff, buff_index), i + 2, buff_index)]_vars

(***************************************************************************)
(* To the users who wait for their line to be read before they type on the *)
(* code keeps the promise of module Tty, whatever the others type.         *)
(***************************************************************************)
Typed(v) == [k \in 1 .. v.buff_index_save |-> v.buff_save[k - 1]]
FinishedLines(v) ==
    IF v.enters_save = 0 THEN <<>>
    ELSE << SubSeq(Typed(v), 1, v.buff_index_save - 1) >>
EditedLine(v) == IF v.enters_save = 0 THEN Typed(v) ELSE <<>>

Promise == INSTANCE Tty WITH
    Terminals <- Patient,
    lines <- [t \in Patient |-> FinishedLines(View(t))],
    edit <- [t \in Patient |-> EditedLine(View(t))],
    shown <- IF curr_term_id \in Patient THEN curr_term_id ELSE NULL,
    out <- IF read_buf # NULL /\ exec_term_id \in Patient THEN read_buf ELSE NULL

\* Every behaviour of the line buffer is one of Tty for the terminals whose users
\* wait: a read returns the line as typed and corrected, in the terminal it was
\* typed in, however the display is switched, the terminals are scheduled and
\* other users type ahead in between.
KeepsPromise == Promise!TtySpec
=============================================================================
