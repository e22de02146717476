------------------------------ MODULE Library ------------------------------
(***************************************************************************)
(* The library and string functions called one at a time, each with every  *)
(* input of a bounded size: a call is chosen at the start, one step        *)
(* answers it, and the answer is compared with a definition that does not  *)
(* follow the code.                                                        *)
(***************************************************************************)
EXTENDS Grep

CONSTANTS
    COLS, OFFSET,   \* of the frames (module Frames)
    MaxFrame,       \* longest frame file
    MemSize,        \* bytes of the memory the memory functions work on
    MaxNumber,      \* largest number converted
    NameLen,        \* file names have at most this many characters (32)
    MaxLine,        \* longest command line
    MaxFile,        \* longest file searched
    Text,           \* the characters used in strings, the space not included
    NULL            \* not answered yet

M == INSTANCE Memory
F == INSTANCE Frames

ASSUME LibraryAssumption ==
    /\ { MemSize, MaxNumber, NameLen, MaxLine, MaxFile, MaxFrame,
         COLS, OFFSET, BUFSIZE } \subseteq Nat \ {0}
    /\ Text \subseteq Nat \ { 0, SPACE, NEWLINE }

VARIABLES job, result
vars == <<job, result>>

StringsOver(S, n) == UNION { [1 .. k -> S] : k \in 0 .. n }
Address == 0 .. MemSize - 1

\* Every byte different, and a NUL at z to end the strings below it.
Mem(z) == [a \in Address |-> IF a = z THEN 0 ELSE a + 1]

FrameFile == StringsOver({ SPACE, NEWLINE, Min(Text) }, MaxFrame)

Jobs ==
    [fn : { "memcpy", "memmove", "memset" }, d : Address, s : Address, n : 0 .. MemSize]
    \cup [fn : { "strcpy", "strncpy" }, d : Address, s : Address, n : 0 .. MemSize,
          z : { MemSize - 1, MemSize \div 2 }]
    \cup [fn : { "itoa" }, value : 0 .. MaxNumber, radix : { 2, 10, 16 }]
    \cup [fn : { "strncmp" }, s1 : StringsOver(Text, NameLen + 1), s2 : StringsOver(Text, NameLen)]
    \cup [fn : { "getargs" }, command : StringsOver(Text \cup {SPACE}, MaxLine),
          below : { SPACE, NUL }, nbytes : { 1, MaxLine + 1 }]
    \cup [fn : { "grep" }, s : StringsOver(Text, 2) \ { << >> },
          file : StringsOver(Text \cup {NEWLINE}, MaxFile), junk : { NUL, NEWLINE }]
    \cup [fn : { "frames" }, f0 : FrameFile, f1 : FrameFile]

\* The areas lie inside the memory, and a string ends inside it.
Fits(j) ==
    CASE j.fn \in { "memcpy", "memmove", "memset" } ->
            j.d + j.n <= MemSize /\ j.s + j.n <= MemSize
      [] j.fn = "strcpy" -> j.n = 0 /\ j.s <= j.z /\ j.d + (j.z - j.s) < MemSize
                            /\ (j.d <= j.s \/ j.z < j.d)
      [] j.fn = "strncpy" -> j.s <= j.z /\ j.d + j.n <= MemSize
                             /\ (j.d <= j.s \/ j.z < j.d)
      [] OTHER -> TRUE

Init == job \in { j \in Jobs : Fits(j) } /\ result = NULL

Answer(fn, r) ==
    /\ result = NULL
    /\ job.fn = fn
    /\ result' = r
    /\ UNCHANGED job

Unmarked == Mem(MemSize)

Next ==
    \/ Answer("memcpy", M!memcpy(Unmarked, job.d, job.s, job.n))
    \/ Answer("memmove", M!memmove(Unmarked, job.d, job.s, job.n))
    \/ Answer("memset", M!memset(Unmarked, job.d, NUL, job.n))
    \/ Answer("strcpy", M!strcpy(Mem(job.z), job.d, job.s))
    \/ Answer("strncpy", M!strncpy(Mem(job.z), job.d, job.s, job.n))
    \/ Answer("itoa", itoa(job.value, job.radix))
    \/ Answer("strncmp", strncmp(job.s1, job.s2, NameLen))
    \/ Answer("getargs",
              LET p == parse_command(job.command, job.below)
              IN [cmd |-> p.cmd, got |-> getargs(p.args, job.nbytes)])
    \/ Answer("grep", do_one_file(job.s, job.file, job.junk))
    \/ Answer("frames", F!add_frames(job.f0, job.f1))

Spec == Init /\ [][Next]_vars

-----------------------------------------------------------------------------
(***************************************************************************)
(* Properties.                                                             *)
(***************************************************************************)
Answered(fns) == result # NULL /\ job.fn \in fns

\* n bytes at d come from s as it was, and no other byte changes.
Moved(mem, d, s, n) ==
    [a \in Address |-> IF a \in d .. d + n - 1 THEN mem[s + a - d] ELSE mem[a]]

\* The copies that go by bytes up to an aligned address, by double words and by
\* bytes again (lib.c:498-562) move the bytes as they were before the call, for
\* every alignment and every overlap of the two areas; memcpy only where it goes
\* down or the areas are apart, which is how scroll and shift_buffer use it.
CopiesExact ==
    /\ Answered({ "memmove" }) => result = Moved(Unmarked, job.d, job.s, job.n)
    /\ Answered({ "memcpy" }) /\ (job.d <= job.s \/ job.s + job.n <= job.d)
          => result = Moved(Unmarked, job.d, job.s, job.n)
    /\ Answered({ "memset" }) =>
          result = [a \in Address |-> IF a \in job.d .. job.d + job.n - 1 THEN NUL
                                      ELSE Unmarked[a]]

\* strcpy and strncpy (lib.c:596-623) leave the string with its end where it was
\* asked for; strncpy fills exactly n bytes, so a name of n characters has no NUL.
StringsCopied ==
    LET mem == Mem(job.z)
        len == job.z - job.s
        fill == IF job.fn = "strcpy" THEN len + 1 ELSE job.n
    IN Answered({ "strcpy", "strncpy" }) =>
          result = [a \in Address |->
                       IF a \notin job.d .. job.d + fill - 1 THEN mem[a]
                       ELSE IF a - job.d < len THEN mem[job.s + (a - job.d)] ELSE NUL]

\* itoa (lib.c:347-377): the digits read back give the number, with no zero in
\* front of it.
NumbersReadBack ==
    LET value[k \in 0 .. Len(result)] ==
            IF k = 0 THEN 0 ELSE value[k - 1] * job.radix + result[k]
    IN Answered({ "itoa" }) =>
          /\ \A k \in 1 .. Len(result) : result[k] \in 0 .. job.radix - 1
          /\ value[Len(result)] = job.value
          /\ result[1] = 0 => result = <<0>>

\* The comparison of read_dentry_by_name (fs.c:67) finds two names equal just when
\* they are, up to the length of a name: a longer name the user types is taken
\* for the file whose name it begins with.
SameName ==
    Answered({ "strncmp" }) =>
        (result = 0 <=> SubSeq(job.s1, 1, Min({ NameLen, Len(job.s1) })) = job.s2)

\* The memory and string functions of lib.c do what their callers in the kernel
\* take them to do, on every input of the bounds.
LibraryExact == CopiesExact /\ StringsCopied /\ NumbersReadBack /\ SameName

\* The words of a line: the longest runs without a separator.
Words(line, sep) ==
    LET starts == { i \in 1 .. Len(line) :
                       line[i] # sep /\ (i = 1 \/ line[i - 1] = sep) }
        end(i) == Max({ j \in i .. Len(line) : \A k \in i .. j : line[k] # sep })
        order == SetToSortSeq(starts, <)
    IN [k \in 1 .. Len(order) |-> SubSeq(line, order[k], end(order[k]))]

\* Words joined by single spaces.
Joined(words) ==
    LET upto[k \in 0 .. Len(words)] ==
            CASE k = 0 -> << >>
              [] k = 1 -> words[1]
              [] OTHER -> upto[k - 1] \o <<SPACE>> \o words[k]
    IN upto[Len(words)]

\* However a command line is spaced, execute runs its first word (lib.c:642-684)
\* and getargs (syscall.c:487-511) gives the program the others, one space
\* between them and a NUL at the end, or -1 when there are none or they do not
\* fit; the byte in front of args makes no difference.
ArgsArrive ==
    LET words == Words(job.command, SPACE)
        args == Joined(Tail(words))
    IN Answered({ "getargs" }) =>
          /\ result.cmd = IF words = << >> THEN << >> ELSE words[1]
          /\ IF words = << >> \/ args = << >> \/ job.nbytes < Len(args)
             THEN result.got.ret = -1
             ELSE result.got = [ret |-> 0, buf |-> args \o <<NUL>>]

HasString(line, s) ==
    \E i \in 0 .. Len(line) - Len(s) : SubSeq(line, i + 1, i + Len(s)) = s

\* grep prints exactly the lines that contain the string, each whole, once and in
\* order, however they fall into the reads of its buffer (ece391grep.c:21-60).
\* Lines longer than the buffer are cut, and a newline on the stack behind the
\* buffer, which nothing has written, cuts the line that ends there.
GrepFinds ==
    LET lines == Words(job.file, NEWLINE)
    IN Answered({ "grep" }) /\ job.junk # NEWLINE
          /\ (\A k \in 1 .. Len(lines) : Len(lines[k]) <= BUFSIZE)
          => result = SelectSeq(lines, LAMBDA line : HasString(line, job.s))

\* The character of a file at a row and column, a space where its lines end.
CharIn(file, row, col) ==
    LET cuts == <<0>> \o SetToSortSeq({ k \in DOMAIN file : file[k] = NEWLINE }, <)
                     \o <<Len(file) + 1>>
    IN IF row + 2 > Len(cuts) \/ cuts[row + 1] + 1 + col >= cuts[row + 2] THEN SPACE
       ELSE file[cuts[row + 1] + 1 + col]

\* fish blinks exactly the places where one of the frames has a character, between
\* the two characters of the place, however the lines of the two files differ in
\* number and length (fish.c:98-147).
FramesMerged ==
    LET places == { p \in (0 .. MaxFrame) \X (0 .. MaxFrame) :
                       { CharIn(job.f0, p[1], p[2]), CharIn(job.f1, p[1], p[2]) } # {SPACE} }
        blinks == { [location |-> p[1] * COLS + p[2] + OFFSET,
                     on_char |-> CharIn(job.f0, p[1], p[2]),
                     off_char |-> CharIn(job.f1, p[1], p[2])] : p \in places }
    IN Answered({ "frames" }) =>
          Range(result) = blinks /\ Len(result) = Cardinality(blinks)
=============================================================================
