------------------------------- MODULE Memory -------------------------------
(***************************************************************************)
(* The memory functions of lib.c on a memory mem, a function from          *)
(* addresses to bytes: what a call leaves in it.  memset_word and          *)
(* memset_dword are never called.                                          *)
(***************************************************************************)
EXTENDS Integers, FiniteSetsExt

NUL == 0

\* n bytes from s to d, lowest address first: movb in a loop, or movsb.
CopyUp(mem, d, s, n) ==
    LET after[k \in 0 .. n] ==
            IF k = 0 THEN mem
            ELSE [after[k - 1] EXCEPT ![d + k - 1] = after[k - 1][s + k - 1]]
    IN after[n]

\* The same, highest address first: movsb with the direction flag set.
CopyDown(mem, d, s, n) ==
    LET after[k \in 0 .. n] ==
            IF k = 0 THEN mem
            ELSE [after[k - 1] EXCEPT ![d + n - k] = after[k - 1][s + n - k]]
    IN after[n]

\* rep movsl: n double words, each read whole before it is written.
CopyLongs(mem, d, s, n) ==
    LET after[k \in 0 .. n] ==
            IF k = 0 THEN mem
            ELSE LET low == d + 4 * (k - 1)
                 IN [a \in DOMAIN mem |->
                        IF a \in low .. low + 3 THEN after[k - 1][s + (a - d)]
                        ELSE after[k - 1][a]]
    IN after[n]

\* Bytes up to the first address of d that is a multiple of 4.
Unaligned(d, n) == Min({ n, (4 - (d % 4)) % 4 })

Longs(d, n) == (n - Unaligned(d, n)) \div 4

Tail4(d, n) == (n - Unaligned(d, n)) % 4

memcpy(mem, d, s, n) ==
    LET h == Unaligned(d, n)
        done == h + 4 * Longs(d, n)
    IN CopyUp(CopyLongs(CopyUp(mem, d, s, h), d + h, s + h, Longs(d, n)),
              d + done, s + done, Tail4(d, n))

\* Mutant: the areas are always copied upwards.
MoveUp(mem, d, s, n) == CopyUp(mem, d, s, n)

memmove(mem, d, s, n) ==
    IF s >= d THEN CopyUp(mem, d, s, n) ELSE CopyDown(mem, d, s, n)

memset(mem, d, c, n) ==
    LET filled == Unaligned(d, n) + 4 * Longs(d, n) + Tail4(d, n)
    IN [a \in DOMAIN mem |-> IF a \in d .. d + filled - 1 THEN c ELSE mem[a]]

-----------------------------------------------------------------------------
\* The string at s, without its NUL, and its length.
strlen(mem, s) == Min({ k \in 0 .. Max(DOMAIN mem) - s : mem[s + k] = NUL })

strcpy(mem, d, s) ==
    [CopyUp(mem, d, s, strlen(mem, s)) EXCEPT ![d + strlen(mem, s)] = NUL]

\* Up to n bytes of the string, then NULs up to n.
strncpy(mem, d, s, n) ==
    LET k == Min({ n, strlen(mem, s) })
        copied == CopyUp(mem, d, s, k)
    IN [a \in DOMAIN mem |-> IF a \in d + k .. d + n - 1 THEN NUL ELSE copied[a]]
=============================================================================
