------------------------------ MODULE Strings ------------------------------
(***************************************************************************)
(* String functions of the kernel (lib.c) and the way of a command line to *)
(* the program it starts: parse_command (lib.c) splits it, execute copies  *)
(* the arguments into the PCB, and getargs (syscall.c) hands them out.  A  *)
(* string is the sequence of its characters before the NUL, which are      *)
(* numbers above 0.                                                        *)
(***************************************************************************)
EXTENDS Integers, Sequences, SequencesExt, FiniteSetsExt

SPACE == 32

\* The character at offset i of a string; the NUL behind the last one.
CharAt(s, i) == IF i < Len(s) THEN s[i + 1] ELSE 0

\* The difference at the first of n places where the strings differ or end.
strncmp(s1, s2, n) ==
    LET stops == { i \in 0 .. n - 1 : CharAt(s1, i) # CharAt(s2, i)
                                        \/ CharAt(s1, i) = 0 }
    IN IF stops = {} THEN 0
       ELSE CharAt(s1, Min(stops)) - CharAt(s2, Min(stops))

\* In place: the outermost two are exchanged, then the next two.
strrev(s) ==
    LET swap[b \in 0 .. Len(s) \div 2] ==
            IF b = 0 THEN s
            ELSE [swap[b - 1] EXCEPT ![b] = swap[b - 1][Len(s) + 1 - b],
                                     ![Len(s) + 1 - b] = swap[b - 1][b]]
    IN swap[Len(s) \div 2]

\* The digits of value; lookup[] gives each its character.
itoa(value, radix) ==
    LET digits[v \in 0 .. value] ==
            IF v = 0 THEN << >> ELSE <<v % radix>> \o digits[v \div radix]
    IN IF value = 0 THEN <<0>> ELSE strrev(digits[value])

-----------------------------------------------------------------------------
Blank(c) == c = SPACE
Letter(c) == c # SPACE

\* Where the loop for the command stops: behind the first space that follows a
\* letter, or at the end.
CommandEnd(command) ==
    LET ends == { i \in 1 .. Len(command) :
                     Blank(command[i]) /\ \E j \in 1 .. i - 1 : Letter(command[j]) }
    IN IF ends = {} THEN Len(command) + 1 ELSE Min(ends) + 1

\* Mutant: a space is kept whatever came before it.
KeepSpaces(command, first, i) == TRUE

\* prev_char is a space when the loop for the arguments starts.
Kept(command, first, i) ==
    Letter(command[i]) \/ (i > first /\ Letter(command[i - 1]))

\* below is the byte in front of args: with no arguments args[arg_idx - 1] is
\* that byte, and a space there is overwritten.
parse_command(command, below) ==
    LET first == CommandEnd(command)
        kept == SetToSortSeq({ i \in first .. Len(command) :
                                  Kept(command, first, i) }, <)
        args == [k \in 1 .. Len(kept) |-> command[kept[k]]]
    IN [cmd |-> SelectSeq(SubSeq(command, 1, first - 1), Letter),
        args |-> IF args # << >> /\ Blank(Last(args)) THEN Front(args) ELSE args,
        below |-> IF args = << >> /\ Blank(below) THEN 0 ELSE below]

\* The value returned and the bytes written, for a buf that passes the checks
\* of its address.
getargs(args, nbytes) ==
    IF Len(args) = 0 \/ nbytes < Len(args)
    THEN [ret |-> -1, buf |-> << >>]
    ELSE [ret |-> 0, buf |-> args \o <<0>>]
=============================================================================
