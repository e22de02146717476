-------------------------------- MODULE Grep --------------------------------
(***************************************************************************)
(* do_one_file of the user program grep (ece391grep.c): a file is read     *)
(* into a buffer of BUFSIZE bytes and searched line by line; the beginning *)
(* of a line that is not there to its end is moved to the front of the     *)
(* buffer before the next read.  A byte behind the buffer holds the NUL    *)
(* of a line that fills it.                                                *)
(***************************************************************************)
EXTENDS Strings

CONSTANTS BUFSIZE, NEWLINE

NUL == 0

\* The state of the loop: file position, buffer, its fill, what was printed.
Reading(pos, data, last, out) ==
    [pos |-> pos, data |-> data, last |-> last, out |-> out]

\* Mutant: the part of a line that is there is taken for the line.
NeverPartial(g, line_start, line_end, cnt) == FALSE

\* The line may go on in the next read.  At line_end = last this looks at a byte
\* that no read has filled.
Partial(g, line_start, line_end, cnt) ==
    g.data[line_end] # NEWLINE /\ cnt # 0 /\ line_start # 0

\* The string in the buffer at place k.
StringAt(data, k) ==
    LET end == Min({ i \in k .. BUFSIZE : data[i] = NUL })
    IN [i \in 1 .. end - k |-> data[k + i - 1]]

Found(data, line_start, line_end, s) ==
    \E check \in line_start .. line_end - 1 :
        /\ data[check] = s[1]
        /\ strncmp(StringAt(data, check), s, Len(s)) = 0

\* The inner loop: the lines of one buffer from line_start on.
RECURSIVE SearchLines(_, _, _, _)
SearchLines(g, line_start, cnt, s) ==
    LET line_end == Min({ k \in line_start .. g.last :
                             k = g.last \/ g.data[k] = NEWLINE })
        data == [g.data EXCEPT ![line_end] = NUL]
        line == StringAt(data, line_start)
        found == Found(data, line_start, line_end, s)
        out == IF found THEN Append(g.out, line) ELSE g.out
    IN IF Partial(g, line_start, line_end, cnt)
       THEN Reading(g.pos,
                    [k \in 0 .. BUFSIZE |-> IF k < Len(line) THEN line[k + 1]
                                            ELSE IF k = Len(line) THEN NUL
                                            ELSE data[k]],
                    g.last - line_start, g.out)
       ELSE IF line_end + 1 >= g.last
       THEN Reading(g.pos, data, 0, out)
       ELSE SearchLines(Reading(g.pos, data, g.last, out), line_end + 1, cnt, s)

\* The outer loop: read on behind what is left, until a read gives nothing.
RECURSIVE ReadOn(_, _, _)
ReadOn(g, file, s) ==
    LET cnt == Min({ Len(file) - g.pos, BUFSIZE - g.last })
        data == [k \in 0 .. BUFSIZE |->
                    IF k \in g.last .. g.last + cnt - 1
                    THEN file[g.pos + (k - g.last) + 1] ELSE g.data[k]]
        read == Reading(g.pos + cnt, data, g.last + cnt, g.out)
        next == SearchLines(read, 0, cnt, s)
    IN IF cnt = 0 THEN next.out ELSE ReadOn(next, file, s)

\* What is printed for a file; junk is what the stack holds in the buffer.
do_one_file(s, file, junk) ==
    ReadOn(Reading(0, [k \in 0 .. BUFSIZE |-> junk], 0, << >>), file, s)
=============================================================================
