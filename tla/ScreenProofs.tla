---------------------------- MODULE ScreenProofs ----------------------------
(***************************************************************************)
(* Theorems about Screen, for any number of terminals, any size of the     *)
(* screen and any length of the texts written.                             *)
(***************************************************************************)
EXTENDS Screen, WellFoundedInduction, SequenceTheorems, TLAPS

-----------------------------------------------------------------------------
(***************************************************************************)
(* Positions.  A cell is numbered NUM_COLS * y + x.                        *)
(***************************************************************************)
Col == 0 .. NUM_COLS - 1
Row == 0 .. NUM_ROWS - 1

\* What the provers need of products: rows follow one another.
LEMMA RowStart ==
    ASSUME NEW y \in Row
    PROVE  /\ NUM_COLS * y \in Nat /\ NUM_COLS * y = y * NUM_COLS
           /\ NUM_COLS * (y + 1) = NUM_COLS * y + NUM_COLS
           /\ NUM_COLS * (NUM_ROWS - 1) = NUM_ROWS * NUM_COLS - NUM_COLS
           /\ (NUM_ROWS - 1) * NUM_COLS = NUM_ROWS * NUM_COLS - NUM_COLS
           /\ y + 1 < NUM_ROWS => NUM_COLS * y + NUM_COLS <= NUM_ROWS * NUM_COLS - NUM_COLS
           /\ NUM_COLS * y + NUM_COLS <= NUM_ROWS * NUM_COLS
<1> USE ScreenAssumption
<1> PICK c, r : c = NUM_COLS /\ r = NUM_ROWS /\ c \in Nat \ {0} /\ r \in Nat \ {0}
  OBVIOUS
<1>1. y \in Nat /\ y <= r - 1
  BY DEF Row
<1>2. c * y \in Nat /\ c * y = y * c /\ c * (y + 1) = c * y + c
  BY <1>1
<1>3. c * (r - 1) = r * c - c /\ (r - 1) * c = r * c - c /\ r * c \in Nat
  OBVIOUS
<1>4. \A d \in Nat : c * d \in Nat /\ c * (y + d) = c * y + c * d
  BY <1>1
<1>5. c * y + c <= r * c
  <2>1. r - 1 - y \in Nat /\ y + (r - 1 - y) = r - 1
    BY <1>1
  <2>2. c * (r - 1 - y) \in Nat /\ c * (r - 1) = c * y + c * (r - 1 - y)
    BY <1>4, <2>1
  <2> QED BY <1>2, <1>3, <2>2
<1>6. ASSUME y + 1 < r PROVE c * y + c <= r * c - c
  <2>1. r - 2 - y \in Nat /\ y + 1 + (r - 2 - y) = r - 1
    BY <1>1, <1>6
  <2>2. c * (r - 2 - y) \in Nat /\ c * (r - 1) = c * (y + 1) + c * (r - 2 - y)
    BY <1>1, <2>1
  <2> QED BY <1>2, <1>3, <2>2
<1> QED BY <1>2, <1>3, <1>5, <1>6

\* A position on the page is a cell, and gives its row back.
LEMMA Position ==
    ASSUME NEW y \in Row, NEW x \in Col
    PROVE  /\ NUM_COLS * y + x \in Cell
           /\ (NUM_COLS * y + x) \div NUM_COLS = y
           /\ x \div NUM_COLS = 0 /\ y % NUM_ROWS = y
<1> USE ScreenAssumption
<1> PICK c, r : c = NUM_COLS /\ r = NUM_ROWS /\ c \in Nat \ {0} /\ r \in Nat \ {0}
  OBVIOUS
<1>1. y \in Nat /\ y < r /\ x \in Nat /\ x < c
  BY DEF Row, Col
<1>2. c * y \in Nat /\ c * y + c <= r * c
  BY RowStart
<1>3. c * y + x \in Cell
  BY <1>1, <1>2 DEF Cell
<1>4. (c * y + x) \div c = y
  BY <1>1
<1>5. x \div c = 0 /\ y % r = y
  BY <1>1
<1> QED BY <1>3, <1>4, <1>5

-----------------------------------------------------------------------------
(***************************************************************************)
(* One character.                                                          *)
(***************************************************************************)
Ink == Chars \cup {NEWLINE}

\* A page is its cells and a cursor inside it.
LEMMA PageFields ==
    ASSUME NEW s \in Page
    PROVE  /\ s.cells \in [Cell -> Chars \cup {BLANK}] /\ s.x \in Col /\ s.y \in Row
           /\ s = [cells |-> s.cells, x |-> s.x, y |-> s.y]
           /\ At(s) \in Cell /\ At(s) \in Nat
<1>1. s.cells \in [Cell -> Chars \cup {BLANK}] /\ s.x \in Col /\ s.y \in Row
  BY DEF Page, Col, Row
<1>2. s = [cells |-> s.cells, x |-> s.x, y |-> s.y]
  BY DEF Page
<1>3. At(s) \in Cell
  BY <1>1, Position DEF At
<1> QED BY <1>1, <1>2, <1>3 DEF Cell

\* The page a line further on: below, or scrolled.
NewRow(d, y) ==
    IF y + 1 < NUM_ROWS THEN [cells |-> d, x |-> 0, y |-> y + 1]
    ELSE [cells |-> [k \in Cell |-> IF k < NUM_COLS * (NUM_ROWS - 1)
                                    THEN d[k + NUM_COLS] ELSE BLANK],
          x |-> 0, y |-> NUM_ROWS - 1]

\* What newline leaves, on a row above the last and on the last.
LEMMA NewlineIs ==
    ASSUME NEW d, NEW x, NEW y \in Row, NEW s, s = [cells |-> d, x |-> x, y |-> y]
    PROVE  newline(s) = NewRow(d, y)
<1> USE ScreenAssumption
<1> DEFINE t == [cells |-> d, x |-> x, y |-> y + 1]
<1>1. [s EXCEPT !.y = @ + 1] = t
  OBVIOUS
<1>2. y + 1 < NUM_ROWS <=> ~ (y + 1 >= NUM_ROWS)
  BY DEF Row
<1>3. newline(s) = [(IF y + 1 >= NUM_ROWS THEN scroll(t) ELSE t) EXCEPT !.x = 0]
  BY <1>1 DEF newline
<1>4. CASE y + 1 < NUM_ROWS
  <2>1. [t EXCEPT !.x = 0] = [cells |-> d, x |-> 0, y |-> y + 1]
    OBVIOUS
  <2> QED BY <1>2, <1>3, <1>4, <2>1 DEF NewRow
<1>5. CASE ~ (y + 1 < NUM_ROWS)
  <2>1. [scroll(t) EXCEPT !.x = 0] = scroll(t)
    BY DEF scroll
  <2> QED BY <1>2, <1>3, <1>5, <2>1 DEF scroll, NewRow
<1> QED BY <1>4, <1>5

\* putc: the two ways to a new row, or one cell further on.
LEMMA PutcRecord ==
    ASSUME NEW e \in [Cell -> Chars \cup {BLANK}], NEW x \in Col, NEW y \in Row,
           NEW s, s = [cells |-> e, x |-> x, y |-> y], NEW c \in Ink
    PROVE  LET d == [e EXCEPT ![At(s)] = c]
           IN putc(s, c) = IF c = NEWLINE THEN NewRow(e, y)
                           ELSE IF x + 1 = NUM_COLS THEN NewRow(d, y)
                           ELSE [cells |-> d, x |-> x + 1, y |-> y]
<1> USE ScreenAssumption
<1> DEFINE d == [e EXCEPT ![At(s)] = c]
           t == [cells |-> d, x |-> x + 1, y |-> y]
<1>1. CASE c = NEWLINE
  <2>1. newline(s) = NewRow(e, y)
    BY NewlineIs, Zenon
  <2> QED BY <1>1, <2>1 DEF putc
<1>2. CASE c # NEWLINE
  <2>1. [s EXCEPT !.cells[At(s)] = c, !.x = @ + 1] = t
    <3> DEFINE a == At(s)
    <3> HIDE DEF a
    <3>1. s.cells = e /\ s.x = x
      OBVIOUS
    <3>2. ASSUME NEW f, NEW z
          PROVE  [[s EXCEPT !.cells = f] EXCEPT !.x = z] =
                    [cells |-> f, x |-> z, y |-> y]
      <4>1. [s EXCEPT !.cells = f] = [cells |-> f, x |-> x, y |-> y]
        OBVIOUS
      <4>2. [[cells |-> f, x |-> x, y |-> y] EXCEPT !.x = z] =
               [cells |-> f, x |-> z, y |-> y]
        OBVIOUS
      <4> QED BY <4>1, <4>2, Zenon
    <3>3. [s EXCEPT !.cells[a] = c, !.x = @ + 1] =
             [cells |-> [e EXCEPT ![a] = c], x |-> x + 1, y |-> y]
      BY <3>1, <3>2, Zenon
    <3> QED BY <3>3 DEF a
  <2>2. t.x = x + 1 /\ t.y = y
    OBVIOUS
  <2>3. CASE x + 1 = NUM_COLS
    <3>1. newline(t) = NewRow(d, y)
      <4> HIDE DEF d
      <4> QED BY NewlineIs, Zenon
    <3>2. putc(s, c) = newline(t)
      BY <1>2, <2>1, <2>3 DEF putc
    <3> QED BY <1>2, <2>3, <3>1, <3>2
  <2>4. CASE x + 1 # NUM_COLS
    <3>1. x + 1 \in Col
      BY <2>4 DEF Col
    <3>2. (x + 1) \div NUM_COLS = 0 /\ y % NUM_ROWS = y /\ y + 0 = y
      BY <3>1, Position DEF Row
    <3>3. putc(s, c) = [t EXCEPT !.y = (@ + t.x \div NUM_COLS) % NUM_ROWS]
      BY <1>2, <2>1, <2>4 DEF putc
    <3>4. putc(s, c) = t
      BY <3>2, <3>3
    <3> QED BY <1>2, <2>4, <3>4
  <2> QED BY <2>3, <2>4
<1> QED BY <1>1, <1>2

\* The same of a page, and of the function for terminals that are not displayed.
LEMMA PutcIs ==
    ASSUME NEW s \in Page, NEW c \in Ink
    PROVE  LET d == [s.cells EXCEPT ![At(s)] = c]
           IN /\ putc(s, c) = IF c = NEWLINE THEN NewRow(s.cells, s.y)
                              ELSE IF s.x + 1 = NUM_COLS THEN NewRow(d, s.y)
                              ELSE [cells |-> d, x |-> s.x + 1, y |-> s.y]
              /\ non_display_putc(s, c) = putc(s, c)
<1>1. /\ s.cells \in [Cell -> Chars \cup {BLANK}] /\ s.x \in Col /\ s.y \in Row
      /\ s = [cells |-> s.cells, x |-> s.x, y |-> s.y]
  BY PageFields
<1>2. non_display_putc(s, c) = putc(s, c)
  BY DEF putc, non_display_putc
<1> PICK e, x, y : e = s.cells /\ x = s.x /\ y = s.y
  OBVIOUS
<1>3. /\ e \in [Cell -> Chars \cup {BLANK}] /\ x \in Col /\ y \in Row
      /\ s = [cells |-> e, x |-> x, y |-> y]
  BY <1>1
<1>4. putc(s, c) = IF c = NEWLINE THEN NewRow(e, y)
                   ELSE IF x + 1 = NUM_COLS THEN NewRow([e EXCEPT ![At(s)] = c], y)
                   ELSE [cells |-> [e EXCEPT ![At(s)] = c], x |-> x + 1, y |-> y]
  BY <1>3, PutcRecord
<1> QED BY <1>2, <1>4

\* A new row is a page; its start is behind the row left, or that of the last row.
LEMMA NewRowType ==
    ASSUME NEW d \in [Cell -> Chars \cup {BLANK}], NEW y \in Row
    PROVE  /\ NewRow(d, y) \in Page
           /\ At(NewRow(d, y)) = IF y + 1 < NUM_ROWS THEN NUM_COLS * y + NUM_COLS
                                 ELSE NUM_ROWS * NUM_COLS - NUM_COLS
<1> USE ScreenAssumption
<1>1. /\ NUM_COLS * (y + 1) = NUM_COLS * y + NUM_COLS
      /\ NUM_COLS * (NUM_ROWS - 1) = NUM_ROWS * NUM_COLS - NUM_COLS
  BY RowStart
<1>2. 0 \in 0 .. NUM_COLS - 1 /\ NUM_ROWS - 1 \in 0 .. NUM_ROWS - 1
  OBVIOUS
<1>3. NUM_COLS * y \in Nat /\ NUM_ROWS * NUM_COLS - NUM_COLS \in Int
  BY RowStart
<1>4. CASE y + 1 < NUM_ROWS
  <2>1. y + 1 \in 0 .. NUM_ROWS - 1
    BY <1>4 DEF Row
  <2> QED BY <1>1, <1>2, <1>3, <1>4, <2>1 DEF NewRow, Page, At
<1>5. CASE ~ (y + 1 < NUM_ROWS)
  <2> DEFINE e == [k \in Cell |-> IF k < NUM_COLS * (NUM_ROWS - 1)
                                  THEN d[k + NUM_COLS] ELSE BLANK]
  <2>1. ASSUME NEW k \in Cell, k < NUM_COLS * (NUM_ROWS - 1) PROVE k + NUM_COLS \in Cell
    BY <1>1, <2>1 DEF Cell
  <2>2. e \in [Cell -> Chars \cup {BLANK}]
    BY <2>1
  <2>3. NewRow(d, y) = [cells |-> e, x |-> 0, y |-> NUM_ROWS - 1]
    BY <1>5 DEF NewRow
  <2> HIDE DEF e
  <2> QED BY <1>1, <1>2, <1>3, <1>5, <2>2, <2>3 DEF Page, At
<1> QED BY <1>4, <1>5

\* putc keeps the cursor inside, and moves it forward or onto the last row.
LEMMA PutcType ==
    ASSUME NEW s \in Page, NEW c \in Ink
    PROVE  /\ putc(s, c) \in Page
           /\ \/ At(putc(s, c)) >= At(s) + 1
              \/ At(putc(s, c)) >= (NUM_ROWS - 1) * NUM_COLS
<1> USE ScreenAssumption
<1> DEFINE d == [s.cells EXCEPT ![At(s)] = c]
<1>1. /\ s.cells \in [Cell -> Chars \cup {BLANK}] /\ s.x \in Col /\ s.y \in Row
      /\ At(s) \in Cell /\ At(s) = NUM_COLS * s.y + s.x
  BY PageFields DEF At
<1>2. putc(s, c) = IF c = NEWLINE THEN NewRow(s.cells, s.y)
                   ELSE IF s.x + 1 = NUM_COLS THEN NewRow(d, s.y)
                   ELSE [cells |-> d, x |-> s.x + 1, y |-> s.y]
  BY PutcIs
<1>3. /\ NUM_COLS * s.y \in Nat
      /\ (NUM_ROWS - 1) * NUM_COLS = NUM_ROWS * NUM_COLS - NUM_COLS
      /\ NUM_ROWS * NUM_COLS \in Nat
  BY <1>1, RowStart
<1>4. ASSUME NEW e \in [Cell -> Chars \cup {BLANK}], putc(s, c) = NewRow(e, s.y)
      PROVE  /\ putc(s, c) \in Page
             /\ \/ At(putc(s, c)) >= At(s) + 1
                \/ At(putc(s, c)) >= (NUM_ROWS - 1) * NUM_COLS
  <2>1. /\ NewRow(e, s.y) \in Page
        /\ At(NewRow(e, s.y)) = IF s.y + 1 < NUM_ROWS THEN NUM_COLS * s.y + NUM_COLS
                                ELSE NUM_ROWS * NUM_COLS - NUM_COLS
    BY <1>1, NewRowType
  <2> QED BY <1>1, <1>3, <1>4, <2>1 DEF Col
<1>5. CASE c = NEWLINE
  BY <1>1, <1>2, <1>4, <1>5
<1>6. CASE c # NEWLINE
  <2>1. d \in [Cell -> Chars \cup {BLANK}]
    BY <1>1, <1>6 DEF Ink
  <2> HIDE DEF d
  <2>2. CASE s.x + 1 = NUM_COLS
    BY <1>2, <1>4, <1>6, <2>1, <2>2
  <2>3. CASE s.x + 1 # NUM_COLS
    <3>1. s.x + 1 \in 0 .. NUM_COLS - 1 /\ s.y \in 0 .. NUM_ROWS - 1
      BY <1>1, <2>3 DEF Col, Row
    <3>2. putc(s, c) = [cells |-> d, x |-> s.x + 1, y |-> s.y]
      BY <1>2, <1>6, <2>3
    <3>3. putc(s, c) \in Page
      BY <2>1, <3>1, <3>2 DEF Page
    <3>4. At(putc(s, c)) = At(s) + 1
      BY <1>1, <1>3, <3>1, <3>2 DEF At, Col, Row
    <3> QED BY <1>1, <3>3, <3>4 DEF Cell
  <2> QED BY <2>2, <2>3
<1> QED BY <1>5, <1>6

-----------------------------------------------------------------------------
(***************************************************************************)
(* A text, character by character.                                         *)
(***************************************************************************)
\* Induction up to N, for a set of numbers.
LEMMA UpTo ==
    ASSUME NEW N \in Nat, NEW S, 0 \in S, \A n \in 1 .. N : n - 1 \in S => n \in S
    PROVE  \A n \in 0 .. N : n \in S
<1> DEFINE T == { n \in 0 .. N : n \notin S }
           R == OpToRel(<, Nat)
<1> SUFFICES ASSUME T # {} PROVE FALSE
  OBVIOUS
<1>0. T \in SUBSET Nat
  OBVIOUS
<1>1. IsWellFoundedOn(R, Nat)
  BY NatLessThanWellFounded
<1>2. \A x, y \in Nat : x < y => <<x, y>> \in R
  BY DEF OpToRel
<1> HIDE DEF R
<1>3. PICK m \in T : \A y \in T : ~ (<<y, m>> \in R)
  BY <1>0, <1>1, WFMin
<1>4. m \in 1 .. N /\ m - 1 \in 0 .. N /\ m - 1 \in Nat /\ m \in Nat /\ m - 1 < m
  OBVIOUS
<1>5. m - 1 \in S
  BY <1>2, <1>3, <1>4, Zenon
<1> QED BY <1>3, <1>4, <1>5

\* The recursion of Putting is well defined.
LEMMA PuttingIs ==
    ASSUME NEW s, NEW buf, Len(buf) \in Nat
    PROVE  LET w == Putting(s, buf)
           IN /\ w[0] = s
              /\ \A n \in 1 .. Len(buf) : w[n] = putc(w[n - 1], buf[n])
<1> DEFINE N == Len(buf)
           Runs(f, m) == f = [n \in 0 .. m |-> IF n = 0 THEN s ELSE putc(f[n - 1], buf[n])]
           S == { m \in 0 .. N : \E f : Runs(f, m) }
<1>1. 0 \in S
  <2> DEFINE f == [n \in 0 .. 0 |-> s]
  <2>1. Runs(f, 0)
    OBVIOUS
  <2> HIDE DEF f, Runs
  <2> QED BY <2>1
<1>2. ASSUME NEW m \in 1 .. N, m - 1 \in S PROVE m \in S
  <2>1. PICK f : Runs(f, m - 1)
    BY <1>2
  <2> DEFINE g == [n \in 0 .. m |-> IF n = m THEN putc(f[m - 1], buf[m]) ELSE f[n]]
  <2>2. \A n \in 0 .. m - 1 : f[n] = IF n = 0 THEN s ELSE putc(f[n - 1], buf[n])
    BY <2>1
  <2>3. ASSUME NEW n \in 0 .. m
        PROVE  g[n] = IF n = 0 THEN s ELSE putc(g[n - 1], buf[n])
    <3>1. CASE n = m
      <4>1. m - 1 \in 0 .. m /\ m - 1 # m /\ n # 0
        BY <3>1
      <4>2. g[m - 1] = f[m - 1]
        BY <4>1
      <4> QED BY <3>1, <4>1, <4>2
    <3>2. CASE n # m
      <4>1. n \in 0 .. m - 1 /\ (n # 0 => n - 1 \in 0 .. m /\ n - 1 # m)
        BY <3>2
      <4>2. g[n] = f[n] /\ (n # 0 => g[n - 1] = f[n - 1])
        BY <3>2, <4>1
      <4> QED BY <2>2, <4>1, <4>2
    <3> QED BY <3>1, <3>2
  <2>4. Runs(g, m)
    BY <2>3
  <2> HIDE DEF g, Runs
  <2> QED BY <2>4
<1>3. N \in S
  <2> HIDE DEF S
  <2>1. \A m \in 1 .. N : m - 1 \in S => m \in S
    BY <1>2
  <2>2. \A n \in 0 .. N : n \in S
    BY <1>1, <2>1, UpTo, Zenon
  <2> QED BY <2>2
<1>4. \E f : Runs(f, N)
  BY <1>3
<1>5. Putting(s, buf) = CHOOSE f : Runs(f, N)
  BY DEF Putting
<1>6. Runs(Putting(s, buf), N)
  <2> HIDE DEF Runs
  <2> QED BY <1>4, <1>5
<1> QED BY <1>6

\* A text is a nonempty sequence of characters and newlines.
LEMMA TextSeq ==
    /\ \A buf \in Text : /\ Len(buf) \in Nat
                         /\ \A n \in 1 .. Len(buf) : buf[n] \in Ink
    /\ \A c \in Ink : <<c>> \in Text
<1> USE ScreenAssumption
<1>1. ASSUME NEW buf \in Text
      PROVE  Len(buf) \in Nat /\ \A n \in 1 .. Len(buf) : buf[n] \in Ink
  <2>1. PICK n \in 1 .. MaxWrite : buf \in [1 .. n -> Ink]
    BY DEF Text, Ink
  <2>2. n \in Nat /\ Len(buf) = n
    BY <2>1
  <2> QED BY <2>1, <2>2
<1>2. ASSUME NEW c \in Ink PROVE <<c>> \in Text
  <2>1. <<c>> \in [1 .. 1 -> Chars \cup {NEWLINE}] /\ 1 \in 1 .. MaxWrite
    BY DEF Ink
  <2> QED BY <2>1 DEF Text
<1> QED BY <1>1, <1>2

\* Terminals that are not displayed are written as the one that is.
LEMMA SamePutting == \A s, buf : NonDisplayPutting(s, buf) = Putting(s, buf)
BY DEF NonDisplayPutting, Putting, non_display_putc, putc

\* Writing keeps the cursor inside, and not before where it was unless the text
\* has scrolled the page.
LEMMA PuttingType ==
    ASSUME NEW s \in Page, NEW buf \in Text
    PROVE  \A n \in 0 .. Len(buf) :
              /\ Putting(s, buf)[n] \in Page
              /\ \/ At(Putting(s, buf)[n]) >= At(s)
                 \/ At(Putting(s, buf)[n]) >= (NUM_ROWS - 1) * NUM_COLS
<1> USE ScreenAssumption
<1> DEFINE N == Len(buf)
           w == Putting(s, buf)
           Good(r) == /\ r \in Page
                      /\ At(r) >= At(s) \/ At(r) >= (NUM_ROWS - 1) * NUM_COLS
           S == { n \in 0 .. N : Good(w[n]) }
<1>1. N \in Nat /\ \A n \in 1 .. N : buf[n] \in Ink
  BY TextSeq
<1>2. w[0] = s /\ \A n \in 1 .. N : w[n] = putc(w[n - 1], buf[n])
  BY <1>1, PuttingIs
<1> HIDE DEF w, N
<1>3. ASSUME NEW r, NEW c \in Ink, Good(r) PROVE Good(putc(r, c))
  <2>1. /\ putc(r, c) \in Page
        /\ \/ At(putc(r, c)) >= At(r) + 1
           \/ At(putc(r, c)) >= (NUM_ROWS - 1) * NUM_COLS
    BY <1>3, PutcType
  <2>2. At(r) \in Nat /\ At(putc(r, c)) \in Nat /\ At(s) \in Nat
    BY <1>3, <2>1, PageFields
  <2>3. (NUM_ROWS - 1) * NUM_COLS \in Int
    OBVIOUS
  <2> HIDE DEF At
  <2> QED BY <1>3, <2>1, <2>2, <2>3
<1>4. 0 \in S
  <2>1. At(s) \in Nat
    BY PageFields
  <2> QED BY <1>1, <1>2, <2>1
<1> HIDE DEF Good
<1>5. ASSUME NEW n \in 1 .. N, n - 1 \in S PROVE n \in S
  BY <1>1, <1>2, <1>3, <1>5
<1>6. \A n \in 0 .. N : n \in S
  <2> HIDE DEF S
  <2>1. \A n \in 1 .. N : n - 1 \in S => n \in S
    BY <1>5
  <2> QED BY <1>1, <1>4, <2>1, UpTo, Zenon
<1> QED BY <1>6 DEF Good, w, N

-----------------------------------------------------------------------------
(***************************************************************************)
(* The invariant.  Behind a full line buffer there is a row to spare, so a *)
(* line in the buffer is never longer than what stands before the cursor.  *)
(***************************************************************************)
BeforeCursor == \A t \in Term : ~ wiped[t] => typed[t] <= At(Owned(t))

IInv == TypeOK /\ CursorShown /\ BeforeCursor /\ ErasesInside

\* The state after boot.
LEMMA InitInv == Init => IInv
<1> SUFFICES ASSUME Init PROVE IInv
  OBVIOUS
<1> USE ScreenAssumption
<1>1. PICK x \in Col, y \in Row : /\ scr = [cells |-> AllBlank, x |-> x, y |-> y]
                                  /\ hw_cursor = NUM_COLS * y + x
  BY DEF Init, Col, Row
<1>2. AllBlank \in [Cell -> Chars \cup {BLANK}]
  BY DEF AllBlank
<1>3. scr \in Page
  BY <1>1, <1>2 DEF Page, Col, Row
<1>4. hw_cursor = At(scr) /\ hw_cursor \in Cell
  BY <1>1, Position DEF At
<1>5. saved \in [Term -> Page]
  <2>1. 0 \in 0 .. NUM_COLS - 1 /\ 0 \in 0 .. NUM_ROWS - 1
    OBVIOUS
  <2>2. \A t \in Term : clear(t) \in Page
    BY <1>2, <2>1 DEF clear, Page
  <2> QED BY <2>2 DEF Init
<1>6. /\ curr_term_id \in Term /\ typed \in [Term -> 0 .. BUFF_SIZE]
      /\ wiped \in [Term -> BOOLEAN] /\ fault = FALSE
  BY DEF Init, Term
<1>7. BeforeCursor
  <2>1. \A t \in Term : Owned(t) \in Page /\ typed[t] = 0
    BY <1>3, <1>5 DEF Owned, Init
  <2>2. \A t \in Term : At(Owned(t)) \in Nat
    BY <2>1, PageFields
  <2> QED BY <2>1, <2>2 DEF BeforeCursor
<1> QED BY <1>3, <1>4, <1>5, <1>6, <1>7 DEF IInv, TypeOK, CursorShown, ErasesInside

\* A step on the displayed terminal keeps the invariant when its line still fits
\* before the cursor.
LEMMA DisplayedStep ==
    ASSUME IInv, NEW s \in Page, scr' = s, hw_cursor' = At(s),
           UNCHANGED <<saved, curr_term_id>>, fault' = FALSE,
           NEW x \in Term, x = curr_term_id, NEW n \in 0 .. BUFF_SIZE, NEW b \in BOOLEAN,
           typed' = [typed EXCEPT ![x] = n], wiped' = [wiped EXCEPT ![x] = b],
           ~ b => n <= At(s)
    PROVE  IInv'
<1>1. TypeOK' /\ CursorShown' /\ ErasesInside'
  BY PageFields DEF IInv, TypeOK, CursorShown, ErasesInside
<1>2. ASSUME NEW t \in Term, ~ wiped'[t] PROVE typed'[t] <= At(Owned(t)')
  <2>1. CASE t = x
    BY <1>2, <2>1 DEF IInv, TypeOK, Owned
  <2>2. CASE t # x
    BY <1>2, <2>2 DEF IInv, TypeOK, BeforeCursor, Owned
  <2> QED BY <2>1, <2>2
<1>3. BeforeCursor'
  BY <1>2 DEF BeforeCursor, At
<1> QED BY <1>1, <1>3 DEF IInv

\* The line in the buffer of the displayed terminal is before the cursor.
LEMMA LineShown ==
    ASSUME IInv, NEW x \in Term, x = curr_term_id
    PROVE  /\ scr \in Page /\ At(scr) \in Nat /\ At(scr) = hw_cursor
           /\ typed[x] \in 0 .. BUFF_SIZE /\ wiped[x] \in BOOLEAN
           /\ ~ wiped[x] => typed[x] <= At(scr)
           /\ typed = [typed EXCEPT ![x] = typed[x]]
           /\ wiped = [wiped EXCEPT ![x] = wiped[x]]
<1>1. scr \in Page
  BY DEF IInv, TypeOK
<1> QED BY <1>1, PageFields DEF IInv, TypeOK, CursorShown, BeforeCursor, Owned

\* Every character keeps the invariant, from a key or from the kernel.
LEMMA CharStep ==
    ASSUME IInv, NEW c \in Ink, Key(c) \/ KernelPrint(c)
    PROVE  IInv'
<1> USE ScreenAssumption
<1> PICK x \in Term : x = curr_term_id
  BY DEF IInv, TypeOK
<1> DEFINE s == putc(scr, c)
           last == (NUM_ROWS - 1) * NUM_COLS
<1>1. /\ scr \in Page /\ At(scr) \in Nat /\ typed[x] \in 0 .. BUFF_SIZE
      /\ wiped[x] \in BOOLEAN /\ (~ wiped[x] => typed[x] <= At(scr))
      /\ typed = [typed EXCEPT ![x] = typed[x]]
      /\ wiped = [wiped EXCEPT ![x] = wiped[x]]
  BY LineShown
<1>2. s \in Page /\ (At(s) >= At(scr) + 1 \/ At(s) >= last)
  BY <1>1, PutcType
<1>3. At(s) \in Nat /\ BUFF_SIZE <= last /\ last \in Int
  BY <1>2, PageFields
<1> HIDE DEF s, last
<1>4. CASE Key(c)
  <2>1. /\ scr' = s /\ hw_cursor' = At(s) /\ UNCHANGED <<saved, curr_term_id, wiped>>
        /\ fault' = FALSE
    BY <1>4 DEF Key, SetScreen, s, IInv, TypeOK
  <2>2. typed[x] < BUFF_SIZE
    BY <1>1, <1>4 DEF Key
  <2>3. typed' = [typed EXCEPT ![x] = typed[x] + 1] /\ typed[x] + 1 \in 0 .. BUFF_SIZE
    BY <1>1, <1>4, <2>2 DEF Key
  <2>4. ~ wiped[x] => typed[x] + 1 <= At(s)
    BY <1>1, <1>2, <1>3, <2>2
  <2>5. wiped' = [wiped EXCEPT ![x] = wiped[x]]
    BY <1>1, <2>1
  <2> QED BY <1>1, <1>2, <2>1, <2>3, <2>4, <2>5, DisplayedStep
<1>5. CASE KernelPrint(c)
  <2>1. /\ scr' = s /\ hw_cursor' = At(s) /\ UNCHANGED <<saved, curr_term_id, typed, wiped>>
        /\ fault' = FALSE
    BY <1>5 DEF KernelPrint, SetScreen, s, IInv, TypeOK
  <2>2. ~ wiped[x] => typed[x] <= At(s)
    BY <1>1, <1>2, <1>3
  <2>3. typed' = [typed EXCEPT ![x] = typed[x]] /\ wiped' = [wiped EXCEPT ![x] = wiped[x]]
    BY <1>1, <2>1
  <2> QED BY <1>1, <1>2, <2>1, <2>2, <2>3, DisplayedStep
<1> QED BY <1>4, <1>5

\* So does a text, wherever its terminal is.
LEMMA WriteStep ==
    ASSUME IInv, NEW t \in Term, NEW buf \in Text, terminal_write(t, buf)
    PROVE  IInv'
<1> USE ScreenAssumption
<1> PICK x \in Term : x = curr_term_id
  BY DEF IInv, TypeOK
<1> DEFINE last == (NUM_ROWS - 1) * NUM_COLS
           s == Putting(Owned(t), buf)[Len(buf)]
<1>1. /\ Owned(t) \in Page /\ typed[t] \in 0 .. BUFF_SIZE /\ wiped[t] \in BOOLEAN
      /\ ~ wiped[t] => typed[t] <= At(Owned(t))
  BY DEF IInv, TypeOK, Owned, BeforeCursor
<1>2. Len(buf) \in 0 .. Len(buf)
  BY TextSeq
<1>3. s \in Page /\ (At(s) >= At(Owned(t)) \/ At(s) >= last)
  BY <1>1, <1>2, PuttingType
<1>4. At(s) \in Nat /\ At(Owned(t)) \in Nat /\ BUFF_SIZE <= last /\ last \in Int
  BY <1>1, <1>3, PageFields
<1>5. ~ wiped[t] => typed[t] <= At(s)
  <2> HIDE DEF s, last, At
  <2> QED BY <1>1, <1>3, <1>4
<1>6. UNCHANGED <<curr_term_id, typed, wiped>> /\ fault' = FALSE
  BY DEF terminal_write, IInv, TypeOK
<1>7. CASE t = x
  <2>1. Owned(t) = scr
    BY <1>7 DEF Owned
  <2>2. scr' = s /\ hw_cursor' = At(s) /\ saved' = saved
    BY <1>7, <2>1 DEF terminal_write, SetScreen
  <2>3. typed' = [typed EXCEPT ![x] = typed[x]] /\ wiped' = [wiped EXCEPT ![x] = wiped[x]]
    BY <1>6, LineShown
  <2> HIDE DEF s
  <2> QED BY <1>1, <1>3, <1>5, <1>6, <1>7, <2>2, <2>3, DisplayedStep
<1>8. CASE t # x
  <2>1. Owned(t) = saved[t]
    BY <1>8 DEF Owned
  <2>2. scr' = scr /\ hw_cursor' = hw_cursor /\ saved' = [saved EXCEPT ![t] = s]
    BY <1>8, <2>1, SamePutting DEF terminal_write
  <2> HIDE DEF s
  <2>3. TypeOK' /\ CursorShown' /\ ErasesInside'
    BY <1>3, <1>6, <2>2 DEF IInv, TypeOK, CursorShown, ErasesInside, At
  <2>4. ASSUME NEW u \in Term, ~ wiped'[u] PROVE typed'[u] <= At(Owned(u)')
    <3>1. CASE u = t
      BY <1>5, <1>6, <1>8, <2>2, <2>4, <3>1 DEF IInv, TypeOK, Owned
    <3>2. CASE u # t
      BY <1>6, <2>2, <2>4, <3>2 DEF IInv, TypeOK, Owned, BeforeCursor
    <3> QED BY <3>1, <3>2
  <2>5. BeforeCursor'
    BY <2>4 DEF BeforeCursor, At
  <2> QED BY <2>3, <2>5 DEF IInv
<1> QED BY <1>7, <1>8

\* print_backspace goes one cell back, over the start of a row if need be.
LEMMA EraseIs ==
    ASSUME NEW s \in Page, At(s) > 0
    PROVE  /\ print_backspace(s) \in Page
           /\ print_backspace(s).cells = [s.cells EXCEPT ![At(s) - 1] = BLANK]
           /\ At(print_backspace(s)) = At(s) - 1
<1> USE ScreenAssumption
<1>1. /\ s.cells \in [Cell -> Chars \cup {BLANK}] /\ s.x \in Col /\ s.y \in Row
      /\ s = [cells |-> s.cells, x |-> s.x, y |-> s.y] /\ At(s) \in Cell
  BY PageFields
<1> PICK e, x, y, a : e = s.cells /\ x = s.x /\ y = s.y /\ a = At(s)
  OBVIOUS
<1>2. /\ e \in [Cell -> Chars \cup {BLANK}] /\ x \in Col /\ y \in Row
      /\ s = [cells |-> e, x |-> x, y |-> y]
      /\ a = NUM_COLS * y + x /\ a > 0 /\ a \in Cell
  BY <1>1 DEF At
<1>3. ASSUME NEW v \in Col, NEW z \in Row, NEW t, t = [cells |-> e, x |-> v, y |-> z],
             NUM_COLS * z + v = a - 1,
             print_backspace(s) = [t EXCEPT !.cells[At(t)] = BLANK]
      PROVE  /\ print_backspace(s) \in Page
             /\ print_backspace(s).cells = [e EXCEPT ![a - 1] = BLANK]
             /\ At(print_backspace(s)) = a - 1
  <2>1. At(t) = a - 1
    BY <1>3 DEF At
  <2>2. t.cells = e
    BY <1>3
  <2> DEFINE f == [e EXCEPT ![a - 1] = BLANK]
  <2>3. f \in [Cell -> Chars \cup {BLANK}]
    BY <1>2
  <2>4. print_backspace(s) = [t EXCEPT !.cells = f]
    BY <1>3, <2>1, <2>2, Zenon
  <2> HIDE DEF f
  <2>5. print_backspace(s) = [cells |-> f, x |-> v, y |-> z]
    BY <1>3, <2>4
  <2>6. print_backspace(s) \in Page
    BY <2>3, <2>5 DEF Page, Col, Row
  <2>7. At(print_backspace(s)) = a - 1
    BY <1>3, <2>5 DEF At
  <2> QED BY <2>5, <2>6, <2>7 DEF f
<1>4. CASE x = 0
  <2> DEFINE t == [cells |-> e, x |-> NUM_COLS - 1, y |-> y - 1]
  <2>1. y > 0
    <3>1. y = 0 => NUM_COLS * y + x = 0
      BY <1>4
    <3> QED BY <1>2, <3>1 DEF Row
  <2>2. y - 1 \in Row /\ NUM_COLS - 1 \in Col
    BY <1>2, <2>1 DEF Row, Col
  <2>3. NUM_COLS * (y - 1 + 1) = NUM_COLS * (y - 1) + NUM_COLS /\ y - 1 + 1 = y
    BY <1>2, <2>2, RowStart DEF Row
  <2>4. NUM_COLS * (y - 1) + (NUM_COLS - 1) = a - 1
    BY <1>2, <1>4, <2>2, <2>3 DEF Row
  <2>5. [s EXCEPT !.x = NUM_COLS - 1, !.y = @ - 1] = t
    <3>1. s.y = y /\ [s EXCEPT !.x = NUM_COLS - 1] = [cells |-> e, x |-> NUM_COLS - 1, y |-> y]
      BY <1>2
    <3>2. [[cells |-> e, x |-> NUM_COLS - 1, y |-> y] EXCEPT !.y = y - 1] = t
      OBVIOUS
    <3> QED BY <3>1, <3>2, Zenon
  <2>6. s.x - 1 < 0
    BY <1>4
  <2>7. print_backspace(s) = [t EXCEPT !.cells[At(t)] = BLANK]
    BY <2>5, <2>6, Zenon DEF print_backspace
  <2> HIDE DEF t
  <2>8. t = [cells |-> e, x |-> NUM_COLS - 1, y |-> y - 1]
    BY DEF t
  <2> QED BY <1>3, <2>2, <2>4, <2>7, <2>8
<1>5. CASE x # 0
  <2> DEFINE t == [cells |-> e, x |-> x - 1, y |-> y]
  <2>1. x - 1 \in Col /\ NUM_COLS * y \in Nat /\ ~ (s.x - 1 < 0)
    BY <1>2, <1>5, RowStart DEF Col
  <2>2. NUM_COLS * y + (x - 1) = a - 1
    BY <1>2, <2>1 DEF Col
  <2>3. s.x = x /\ [s EXCEPT !.x = x - 1] = t
    BY <1>2
  <2>4. [s EXCEPT !.x = @ - 1] = t
    BY <2>3, Zenon
  <2>5. print_backspace(s) = [t EXCEPT !.cells[At(t)] = BLANK]
    BY <2>1, <2>4, Zenon DEF print_backspace
  <2> HIDE DEF t
  <2>6. t = [cells |-> e, x |-> x - 1, y |-> y]
    BY DEF t
  <2>7. y \in Row /\ x - 1 \in Col
    BY <1>2, <2>1
  <2> QED BY <1>3, <2>2, <2>5, <2>6, <2>7
<1> QED BY <1>4, <1>5

\* Backspace, Ctrl+L and a read of the line.
LEMMA LineStep ==
    ASSUME IInv, Backspace \/ CtrlL \/ terminal_read
    PROVE  IInv'
<1> USE ScreenAssumption
<1> PICK x \in Term : x = curr_term_id
  BY DEF IInv, TypeOK
<1>1. /\ scr \in Page /\ At(scr) \in Nat /\ At(scr) = hw_cursor
      /\ typed[x] \in 0 .. BUFF_SIZE /\ wiped[x] \in BOOLEAN
      /\ ~ wiped[x] => typed[x] <= At(scr)
      /\ typed = [typed EXCEPT ![x] = typed[x]]
      /\ wiped = [wiped EXCEPT ![x] = wiped[x]]
  BY LineShown
<1>2. UNCHANGED <<saved, curr_term_id>> /\ fault = FALSE
  BY DEF Backspace, CtrlL, terminal_read, IInv, TypeOK
<1>3. ASSUME NEW s \in Page, scr' = s, hw_cursor' = At(s), fault' = FALSE,
             NEW n \in 0 .. BUFF_SIZE, Left(n), ~ wiped[x] => n <= At(s)
      PROVE  IInv'
  <2> DEFINE b == wiped[x] /\ n > 0
  <2>1. typed' = [typed EXCEPT ![x] = n] /\ wiped' = [wiped EXCEPT ![x] = b]
    BY <1>3 DEF Left
  <2>2. b \in BOOLEAN /\ (~ b => n <= At(s))
    <3>1. At(s) \in Nat
      BY PageFields
    <3> HIDE DEF At
    <3> QED BY <1>1, <1>3, <3>1
  <2> HIDE DEF b
  <2> QED BY <1>2, <1>3, <2>1, <2>2, DisplayedStep
<1>4. CASE Backspace
  <2>1. typed[x] > 0
    BY <1>4 DEF Backspace, Erases
  <2>2. CASE At(scr) = 0 /\ fault' = TRUE /\ UNCHANGED <<scr, hw_cursor, typed, wiped>>
    <3>1. wiped[x]
      BY <1>1, <2>1, <2>2
    <3>2. TypeOK' /\ CursorShown' /\ ErasesInside'
      BY <1>2, <2>2, <3>1 DEF IInv, TypeOK, CursorShown, ErasesInside, At
    <3>3. BeforeCursor'
      BY <1>2, <2>2 DEF IInv, BeforeCursor, Owned, At
    <3> QED BY <3>2, <3>3 DEF IInv
  <2> DEFINE n == typed[x] - 1
  <2>3. n \in 0 .. BUFF_SIZE
    BY <1>1, <2>1
  <2>4. CASE At(scr) > 0 /\ SetScreen(print_backspace(scr)) /\ Left(n) /\ UNCHANGED fault
    <3> DEFINE s == print_backspace(scr)
    <3>1. s \in Page /\ At(s) = At(scr) - 1
      BY <1>1, <2>4, EraseIs
    <3>2. scr' = s /\ hw_cursor' = At(s) /\ fault' = FALSE
      BY <1>2, <2>4 DEF SetScreen
    <3> HIDE DEF s
    <3>3. ~ wiped[x] => n <= At(s)
      BY <1>1, <3>1
    <3> QED BY <1>3, <2>3, <2>4, <3>1, <3>2, <3>3
  <2>5. CASE UNCHANGED <<scr, hw_cursor>> /\ Left(n) /\ UNCHANGED fault
    <3>1. scr' = scr /\ hw_cursor' = At(scr) /\ fault' = FALSE
      BY <1>1, <1>2, <2>5
    <3>2. ~ wiped[x] => n <= At(scr)
      BY <1>1
    <3> QED BY <1>1, <1>3, <2>3, <2>5, <3>1, <3>2
  <2>6. (IF typed[curr_term_id] = 0 THEN 0 ELSE typed[curr_term_id] - 1) = n
    BY <2>1
  <2> QED BY <1>4, <2>2, <2>4, <2>5, <2>6 DEF Backspace
<1>5. CASE CtrlL
  <2> DEFINE s == clear(scr)
             b == typed[x] > 0
  <2>1. s \in Page /\ At(s) = 0
    <3>1. 0 \in 0 .. NUM_COLS - 1 /\ 0 \in 0 .. NUM_ROWS - 1 /\ NUM_COLS * 0 + 0 = 0
      OBVIOUS
    <3>2. AllBlank \in [Cell -> Chars \cup {BLANK}]
      BY DEF AllBlank
    <3> QED BY <3>1, <3>2 DEF clear, Page, At
  <2>2. /\ scr' = s /\ hw_cursor' = At(s) /\ fault' = FALSE
        /\ typed' = [typed EXCEPT ![x] = typed[x]] /\ wiped' = [wiped EXCEPT ![x] = b]
    BY <1>1, <1>2, <1>5 DEF CtrlL, SetScreen
  <2>3. b \in BOOLEAN /\ (~ b => typed[x] <= At(s))
    BY <1>1, <2>1
  <2> HIDE DEF s, b
  <2> QED BY <1>1, <1>2, <2>1, <2>2, <2>3, DisplayedStep
<1>6. CASE terminal_read
  <2>1. PICK n \in 0 .. typed[x] - 1 : Left(n)
    BY <1>6 DEF terminal_read
  <2>2. scr' = scr /\ hw_cursor' = At(scr) /\ fault' = FALSE
    BY <1>1, <1>2, <1>6 DEF terminal_read
  <2>3. n \in 0 .. BUFF_SIZE /\ (~ wiped[x] => n <= At(scr))
    BY <1>1
  <2> QED BY <1>1, <1>3, <2>1, <2>2, <2>3
<1> QED BY <1>4, <1>5, <1>6

\* Switching the display leaves every terminal the page it has.
LEMMA SwitchKeepsPages ==
    ASSUME TypeOK, NEW t \in Term, switch_displaying_term(t)
    PROVE  /\ \A u \in Term : Owned(u)' = Owned(u)
           /\ scr' \in Page /\ saved' \in [Term -> Page] /\ hw_cursor' = At(scr')
<1> DEFINE saving == [saved EXCEPT ![curr_term_id] = scr]
<1>1. saving \in [Term -> Page]
  BY DEF TypeOK
<1>2. \A u \in Term : saving[u] = Owned(u)
  BY DEF TypeOK, Owned
<1>3. saved' = saving /\ scr' = saving[t] /\ hw_cursor' = At(saving[t]) /\ curr_term_id' = t
  BY DEF switch_displaying_term, Moved, At
<1> HIDE DEF saving
<1>4. \A u \in Term : Owned(u)' = saving[u]
  BY <1>3 DEF Owned
<1> QED BY <1>1, <1>2, <1>3, <1>4

\* Every step keeps the invariant.
LEMMA NextInv == IInv /\ [Next]_vars => IInv'
<1> SUFFICES ASSUME IInv, [Next]_vars PROVE IInv'
  OBVIOUS
<1>1. CASE Backspace \/ CtrlL \/ terminal_read
  BY <1>1, LineStep
<1>2. ASSUME NEW c \in Ink, Key(c) \/ KernelPrint(c) PROVE IInv'
  BY <1>2, CharStep
<1>3. ASSUME NEW t \in Term, NEW buf \in Text, terminal_write(t, buf) PROVE IInv'
  BY <1>3, WriteStep
<1>4. ASSUME NEW t \in Term, switch_displaying_term(t) PROVE IInv'
  <2>1. /\ \A u \in Term : Owned(u)' = Owned(u)
        /\ scr' \in Page /\ saved' \in [Term -> Page] /\ hw_cursor' = At(scr')
    BY <1>4, SwitchKeepsPages DEF IInv
  <2>2. curr_term_id' = t /\ UNCHANGED <<typed, wiped>> /\ fault' = FALSE
    BY <1>4 DEF switch_displaying_term, IInv, TypeOK
  <2>3. hw_cursor' \in Cell
    BY <2>1, PageFields
  <2>4. TypeOK' /\ CursorShown' /\ ErasesInside'
    BY <2>1, <2>2, <2>3 DEF IInv, TypeOK, CursorShown, ErasesInside, At
  <2>5. BeforeCursor'
    BY <2>1, <2>2 DEF IInv, BeforeCursor, At
  <2> QED BY <2>4, <2>5 DEF IInv
<1>5. CASE UNCHANGED vars
  BY <1>5 DEF vars, IInv, TypeOK, CursorShown, ErasesInside, BeforeCursor, Owned, At
<1> QED BY <1>1, <1>2, <1>3, <1>4, <1>5 DEF Next, Ink

\* The invariant holds throughout.
LEMMA InvariantHolds == Spec => []IInv
BY InitInv, NextInv, PTL DEF Spec

\* Every variable keeps its type: putc, newline, scroll, print_backspace and their
\* twins keep the cursor of every terminal inside its screen.
THEOREM ScreensKept == Spec => []TypeOK
<1>1. IInv => TypeOK
  BY DEF IInv
<1> QED BY <1>1, InvariantHolds, PTL

\* The VGA cursor is where the next character goes (move_cursor, lib.c).
THEOREM CursorFollows == Spec => []CursorShown
<1>1. IInv => CursorShown
  BY DEF IInv
<1> QED BY <1>1, InvariantHolds, PTL

\* print_backspace never steps in front of video memory, except after Ctrl+L with
\* characters in the line buffer.
THEOREM ErasesStayInside == Spec => []ErasesInside
<1>1. IInv => ErasesInside
  BY DEF IInv
<1> QED BY <1>1, InvariantHolds, PTL

-----------------------------------------------------------------------------
(***************************************************************************)
(* The promise of Vt, step by step.                                        *)
(***************************************************************************)
Paged(s) == [cells |-> s.cells, pos |-> At(s)]
Pages == [t \in Term |-> Paged(Owned(t))]

\* A new row is the teletype's line feed.
LEMMA FeedIs ==
    ASSUME NEW d \in [Cell -> Chars \cup {BLANK}], NEW y \in Row, NEW p,
           p = [cells |-> d, pos |-> NUM_COLS * y + NUM_COLS]
    PROVE  Teletype!Feed(p) = Paged(NewRow(d, y))
<1> USE ScreenAssumption
<1> PICK z, c : z = NUM_ROWS * NUM_COLS /\ c = NUM_COLS
  OBVIOUS
<1>1. /\ NUM_COLS * y \in Nat /\ z \in Nat /\ c \in Nat \ {0}
      /\ NUM_COLS * (NUM_ROWS - 1) = z - c
      /\ y + 1 < NUM_ROWS => NUM_COLS * y + c <= z - c
      /\ NUM_COLS * (y + 1) = NUM_COLS * y + c
  BY RowStart
<1>2. p.pos = NUM_COLS * y + c /\ p.cells = d
  OBVIOUS
<1>3. At(NewRow(d, y)) = IF y + 1 < NUM_ROWS THEN NUM_COLS * y + c ELSE z - c
  BY NewRowType
<1>4. Teletype!Cell = Cell /\ Cell = 0 .. z - 1
  BY DEF Teletype!Cell, Cell
<1>5. CASE y + 1 < NUM_ROWS
  <2>1. NewRow(d, y).cells = d
    BY <1>5 DEF NewRow
  <2>2. p.pos < NUM_ROWS * NUM_COLS
    BY <1>1, <1>2, <1>5
  <2> QED BY <1>2, <1>3, <1>5, <2>1, <2>2 DEF Paged, Teletype!Feed
<1>6. CASE ~ (y + 1 < NUM_ROWS)
  <2>1. y + 1 = NUM_ROWS /\ NUM_COLS * NUM_ROWS = z
    BY <1>6 DEF Row
  <2>2. NUM_COLS * y + c = z
    BY <1>1, <2>1
  <2> DEFINE e == [k \in Cell |-> IF k < z - c THEN d[k + c] ELSE BLANK]
  <2>3. \A k \in Cell : k + c \in Cell <=> k < z - c
    BY <1>1, <1>4
  <2>4. [k \in Cell |-> IF k + c \in Cell THEN d[k + c] ELSE BLANK] = e
    BY <2>3
  <2>5. NewRow(d, y).cells = e
    BY <1>1, <1>6 DEF NewRow
  <2>6. Teletype!Feed(p) = [cells |-> e, pos |-> z - c]
    <3>1. ~ (p.pos < NUM_ROWS * NUM_COLS)
      BY <1>1, <1>2, <2>2
    <3>2. Teletype!Feed(p) = [cells |-> [k \in Cell |-> IF k + c \in Cell THEN d[k + c]
                                                        ELSE BLANK],
                              pos |-> z - c]
      BY <1>2, <1>4, <2>2, <3>1 DEF Teletype!Feed
    <3> HIDE DEF e
    <3> QED BY <2>4, <3>2
  <2> HIDE DEF e
  <2> QED BY <1>3, <1>6, <2>5, <2>6 DEF Paged
<1> QED BY <1>5, <1>6

\* putc puts what the teletype puts.
LEMMA PutRefines ==
    ASSUME NEW s \in Page, NEW c \in Ink
    PROVE  Teletype!Put(Paged(s), c) = Paged(putc(s, c))
<1> USE ScreenAssumption
<1>1. /\ s.cells \in [Cell -> Chars \cup {BLANK}] /\ s.x \in Col /\ s.y \in Row
      /\ At(s) \in Cell /\ At(s) = NUM_COLS * s.y + s.x
  BY PageFields DEF At
<1> PICK e, x, y, a : e = s.cells /\ x = s.x /\ y = s.y /\ a = At(s)
  OBVIOUS
<1> DEFINE d == [e EXCEPT ![a] = c]
<1>2. /\ e \in [Cell -> Chars \cup {BLANK}] /\ x \in Col /\ y \in Row
      /\ a \in Cell /\ a = NUM_COLS * y + x /\ Paged(s) = [cells |-> e, pos |-> a]
  BY <1>1 DEF Paged
<1>3. putc(s, c) = IF c = NEWLINE THEN NewRow(e, y)
                   ELSE IF x + 1 = NUM_COLS THEN NewRow(d, y)
                   ELSE [cells |-> d, x |-> x + 1, y |-> y]
  BY PutcIs
<1>4. /\ a \div NUM_COLS = y /\ NUM_COLS * y \in Nat
      /\ (y + 1) * NUM_COLS = NUM_COLS * y + NUM_COLS
  <2>1. NUM_COLS * (y + 1) = NUM_COLS * y + NUM_COLS /\ NUM_COLS * y \in Nat
    BY <1>2, RowStart
  <2>2. (y + 1) * NUM_COLS = NUM_COLS * (y + 1)
    BY <1>2 DEF Row
  <2> QED BY <1>2, <2>1, <2>2, Position
<1>5. CASE c = NEWLINE
  <2> DEFINE p == [cells |-> e, pos |-> NUM_COLS * y + NUM_COLS]
  <2>1. [Paged(s) EXCEPT !.pos = (@ \div NUM_COLS + 1) * NUM_COLS] = p
    BY <1>2, <1>4
  <2>2. Teletype!Put(Paged(s), c) = Teletype!Feed(p)
    BY <1>5, <2>1 DEF Teletype!Put
  <2>3. Teletype!Feed(p) = Paged(NewRow(e, y))
    BY <1>2, FeedIs
  <2> QED BY <1>3, <1>5, <2>2, <2>3
<1>6. CASE c # NEWLINE
  <2> DEFINE p == [cells |-> d, pos |-> a + 1]
  <2>1. d \in [Cell -> Chars \cup {BLANK}]
    BY <1>2, <1>6 DEF Ink
  <2>2. Teletype!Put(Paged(s), c) = Teletype!Feed(p)
    BY <1>2, <1>6 DEF Teletype!Put
  <2> HIDE DEF d
  <2>3. CASE x + 1 = NUM_COLS
    <3>1. p = [cells |-> d, pos |-> NUM_COLS * y + NUM_COLS]
      BY <1>2, <1>4, <2>3 DEF Col
    <3>2. Teletype!Feed(p) = Paged(NewRow(d, y))
      BY <1>2, <2>1, <3>1, FeedIs
    <3> QED BY <1>3, <1>6, <2>2, <2>3, <3>2
  <2>4. CASE x + 1 # NUM_COLS
    <3>1. x + 1 \in Col
      BY <1>2, <2>4 DEF Col
    <3>2. NUM_COLS * y + (x + 1) \in Cell /\ NUM_COLS * y + (x + 1) = a + 1
      <4>1. NUM_COLS * y + (x + 1) \in Cell
        BY <1>2, <3>1, Position
      <4>2. NUM_COLS * y + (x + 1) = a + 1
        BY <1>2, <1>4 DEF Col
      <4> QED BY <4>1, <4>2
    <3>3. a + 1 < NUM_ROWS * NUM_COLS
      BY <1>2, <3>2 DEF Cell
    <3>4. Teletype!Feed(p) = p
      BY <3>3 DEF Teletype!Feed
    <3>5. putc(s, c) = [cells |-> d, x |-> x + 1, y |-> y]
      BY <1>3, <1>6, <2>4
    <3>6. At(putc(s, c)) = a + 1 /\ putc(s, c).cells = d
      BY <3>2, <3>5 DEF At
    <3> QED BY <2>2, <3>4, <3>6 DEF Paged
  <2> QED BY <2>3, <2>4
<1> QED BY <1>5, <1>6

\* A text puts what the teletype writes.  (Its recursion is solved by the pages of
\* ours, and has no other solution.)
LEMMA TextRefines ==
    ASSUME NEW s \in Page, NEW buf \in Text
    PROVE  Teletype!Putting(Paged(s), buf)[Len(buf)] = Paged(Putting(s, buf)[Len(buf)])
<1> DEFINE N == Len(buf)
           w == Putting(s, buf)
           u == [n \in 0 .. N |-> Paged(w[n])]
           v == Teletype!Putting(Paged(s), buf)
           Runs(f) == f = [n \in 0 .. N |-> IF n = 0 THEN Paged(s)
                                            ELSE Teletype!Put(f[n - 1], buf[n])]
<1>1. N \in Nat /\ \A n \in 1 .. N : buf[n] \in Ink
  BY TextSeq
<1>2. w[0] = s /\ \A n \in 1 .. N : w[n] = putc(w[n - 1], buf[n])
  BY <1>1, PuttingIs
<1>3. \A n \in 0 .. N : w[n] \in Page
  BY PuttingType
<1> HIDE DEF w, N
<1>4. \A n \in 1 .. N : Paged(w[n]) = Teletype!Put(Paged(w[n - 1]), buf[n])
  <2> SUFFICES ASSUME NEW n \in 1 .. N
               PROVE  Paged(w[n]) = Teletype!Put(Paged(w[n - 1]), buf[n])
    OBVIOUS
  <2>1. n - 1 \in 0 .. N
    BY <1>1
  <2> QED BY <1>1, <1>2, <1>3, <2>1, PutRefines
<1>5. Runs(u)
  <2>1. \A n \in 0 .. N : n # 0 => n \in 1 .. N /\ n - 1 \in 0 .. N
    BY <1>1
  <2>2. ASSUME NEW n \in 0 .. N
        PROVE  Paged(w[n]) = IF n = 0 THEN Paged(s) ELSE Teletype!Put(u[n - 1], buf[n])
    <3>1. CASE n = 0
      BY <1>2, <3>1
    <3>2. CASE n # 0
      <4>1. u[n - 1] = Paged(w[n - 1])
        BY <2>1, <3>2
      <4> QED BY <1>4, <2>1, <3>2, <4>1
    <3> QED BY <3>1, <3>2
  <2> QED BY <2>2
<1>6. v = CHOOSE f : Runs(f)
  BY DEF Teletype!Putting, N
<1>7. Runs(v)
  <2> HIDE DEF Runs, v, u
  <2> QED BY <1>5, <1>6
<1>8. \A n \in 0 .. N : v[n] = IF n = 0 THEN Paged(s) ELSE Teletype!Put(v[n - 1], buf[n])
  <2> HIDE DEF v
  <2> QED BY <1>7
<1> HIDE DEF v, Runs, u
<1> DEFINE S == { n \in 0 .. N : v[n] = Paged(w[n]) }
<1>9. 0 \in S
  BY <1>1, <1>2, <1>8
<1>10. ASSUME NEW n \in 1 .. N, n - 1 \in S PROVE n \in S
  <2>1. n \in 0 .. N /\ n # 0
    BY <1>1
  <2> QED BY <1>4, <1>8, <1>10, <2>1
<1>11. \A n \in 0 .. N : n \in S
  <2> HIDE DEF S
  <2>1. \A n \in 1 .. N : n - 1 \in S => n \in S
    BY <1>10
  <2> QED BY <1>1, <1>9, <2>1, UpTo, Zenon
<1>12. N \in 0 .. N
  BY <1>1
<1> QED BY <1>11, <1>12 DEF N, v, w

\* The teletype's recursion over one character.
LEMMA CharText ==
    ASSUME NEW s \in Page, NEW c \in Ink
    PROVE  <<c>> \in Text /\ Len(<<c>>) = 1
           /\ Putting(s, <<c>>)[Len(<<c>>)] = putc(s, c)
<1>1. <<c>> \in Text /\ Len(<<c>>) = 1 /\ <<c>>[1] = c
  BY TextSeq
<1> PICK b : b = <<c>>
  BY Zenon
<1>2. /\ Putting(s, b)[0] = s
      /\ \A n \in 1 .. Len(b) : Putting(s, b)[n] = putc(Putting(s, b)[n - 1], b[n])
  BY <1>1, PuttingIs
<1>3. Len(b) = 1 /\ b[1] = c
  BY <1>1
<1>4. Putting(s, b)[1] = putc(s, c)
  <2>1. 1 \in 1 .. 1 /\ 1 - 1 = 0
    OBVIOUS
  <2> QED BY <1>2, <1>3, <2>1
<1> QED BY <1>1, <1>3, <1>4

\* A step that changes the page of one terminal only.
LEMMA OnePage ==
    ASSUME NEW x \in Term, \A u \in Term : u # x => Owned(u)' = Owned(u)
    PROVE  Pages' = [Pages EXCEPT ![x] = Paged(Owned(x)')]
<1>1. \A u : Paged(Owned(u))' = Paged(Owned(u)')
  BY DEF Paged, At
<1>2. Pages' = [u \in Term |-> Paged(Owned(u)')]
  BY <1>1 DEF Pages
<1>3. Pages = [u \in Term |-> Paged(Owned(u))]
  BY DEF Pages
<1> QED BY <1>2, <1>3

\* The mapping's variables.
LEMMA TeletypeVars ==
    /\ \A t \in Term, text \in Text : Teletype!Write(t, text) <=>
          /\ Pages' = [Pages EXCEPT ![t] = Teletype!Putting(@, text)[Len(text)]]
          /\ UNCHANGED curr_term_id
    /\ Teletype!Erase <=>
          /\ Pages[curr_term_id].pos > 0
          /\ Pages' = [Pages EXCEPT ![curr_term_id] =
                 [cells |-> [@.cells EXCEPT ![Pages[curr_term_id].pos - 1] = BLANK],
                  pos |-> @.pos - 1]]
          /\ UNCHANGED curr_term_id
    /\ Teletype!Wipe <=>
          /\ Pages' = [Pages EXCEPT ![curr_term_id] = [cells |-> AllBlank, pos |-> 0]]
          /\ UNCHANGED curr_term_id
    /\ \A t \in Term : Teletype!Show(t) <=> curr_term_id' = t /\ UNCHANGED Pages
BY DEF Teletype!Write, Teletype!Erase, Teletype!Wipe, Teletype!Show, Teletype!Cell,
       Pages, Paged, AllBlank, Cell

\* A text or a character written to one terminal is a Write of the teletype.
LEMMA WriteRefines ==
    ASSUME TypeOK, NEW x \in Term, NEW text \in Text,
           \A u \in Term : u # x => Owned(u)' = Owned(u),
           Owned(x)' = Putting(Owned(x), text)[Len(text)], UNCHANGED curr_term_id
    PROVE  Teletype!Next
<1>1. Owned(x) \in Page
  BY DEF TypeOK, Owned
<1>2. Pages' = [Pages EXCEPT ![x] = Paged(Putting(Owned(x), text)[Len(text)])]
  BY OnePage
<1>3. Pages[x] = Paged(Owned(x))
  BY DEF Pages
<1>4. Teletype!Putting(Pages[x], text)[Len(text)] = Paged(Putting(Owned(x), text)[Len(text)])
  BY <1>1, <1>3, TextRefines
<1>5. Teletype!Write(x, text)
  BY <1>2, <1>4, TeletypeVars
<1> QED BY <1>5 DEF Teletype!Next

\* Boot leaves every teletype its page.
LEMMA InitRefines == Init => Teletype!Init
<1> SUFFICES ASSUME Init PROVE Teletype!Init
  OBVIOUS
<1> USE ScreenAssumption
<1>1. PICK x \in Col, y \in Row : scr = [cells |-> AllBlank, x |-> x, y |-> y]
  BY DEF Init, Col, Row
<1>2. /\ At(scr) = NUM_COLS * y + x /\ At(scr) \in Cell /\ scr.cells = AllBlank
  BY <1>1, Position DEF At
<1>3. \A t \in Term : saved[t].cells = AllBlank /\ At(saved[t]) = 0
  BY DEF Init, clear, At
<1>4. Pages = [t \in Term |-> [cells |-> AllBlank,
                               pos |-> IF t = curr_term_id THEN At(scr) ELSE 0]]
  <2>1. ASSUME NEW t \in Term
        PROVE  Paged(Owned(t)) = [cells |-> AllBlank,
                                  pos |-> IF t = curr_term_id THEN At(scr) ELSE 0]
    BY <1>2, <1>3 DEF Paged, Owned
  <2> QED BY <2>1 DEF Pages
<1>5. curr_term_id \in Term
  BY DEF Init, Term
<1> QED BY <1>2, <1>4, <1>5 DEF Teletype!Init, Pages, Paged, AllBlank, Teletype!Cell, Cell

\* Every step is one of the teletypes', or leaves their pages alone.
LEMMA NextRefines ==
    ASSUME TypeOK, [Next]_vars
    PROVE  [Teletype!Next]_(Teletype!vars)
<1> USE ScreenAssumption
<1> PICK x \in Term : x = curr_term_id
  BY DEF TypeOK
<1>1. Owned(x) = scr /\ scr \in Page /\ At(scr) \in Nat
  BY PageFields DEF Owned, TypeOK
<1>2. ASSUME UNCHANGED <<saved, curr_term_id>>
      PROVE  /\ \A u \in Term : u # x => Owned(u)' = Owned(u)
             /\ Owned(x)' = scr'
  BY <1>2 DEF Owned
<1>3. ASSUME UNCHANGED <<scr, saved, curr_term_id>> PROVE UNCHANGED Teletype!vars
  BY <1>3 DEF Teletype!vars, Owned, At
<1>4. ASSUME NEW c \in Ink, Key(c) \/ KernelPrint(c) PROVE Teletype!Next
  <2>1. scr' = putc(scr, c) /\ UNCHANGED <<saved, curr_term_id>>
    BY <1>4 DEF Key, KernelPrint, SetScreen
  <2>2. <<c>> \in Text /\ Putting(scr, <<c>>)[Len(<<c>>)] = putc(scr, c)
    BY <1>1, CharText
  <2> QED BY <1>1, <1>2, <2>1, <2>2, WriteRefines
<1>5. ASSUME NEW t \in Term, NEW buf \in Text, terminal_write(t, buf) PROVE Teletype!Next
  <2>1. UNCHANGED curr_term_id
    BY <1>5 DEF terminal_write
  <2>2. /\ \A u \in Term : u # t => Owned(u)' = Owned(u)
        /\ Owned(t)' = Putting(Owned(t), buf)[Len(buf)]
    <3>1. CASE t = x
      BY <1>1, <1>2, <1>5, <3>1 DEF terminal_write, SetScreen
    <3>2. CASE t # x
      <4>1. /\ scr' = scr
            /\ saved' = [saved EXCEPT ![t] = Putting(saved[t], buf)[Len(buf)]]
        BY <1>5, <3>2, SamePutting DEF terminal_write
      <4> QED BY <2>1, <3>2, <4>1 DEF Owned, TypeOK
    <3> QED BY <3>1, <3>2
  <2> QED BY <2>1, <2>2, WriteRefines
<1>6. CASE Backspace
  <2>1. UNCHANGED <<saved, curr_term_id>>
    BY <1>6 DEF Backspace
  <2>2. CASE UNCHANGED scr
    BY <1>3, <2>1, <2>2
  <2>3. CASE At(scr) > 0 /\ scr' = print_backspace(scr)
    <3>1. /\ scr'.cells = [scr.cells EXCEPT ![At(scr) - 1] = BLANK]
          /\ At(scr)' = At(scr) - 1
      BY <1>1, <2>3, EraseIs DEF At
    <3>2. Paged(scr') = [cells |-> [scr.cells EXCEPT ![At(scr) - 1] = BLANK],
                         pos |-> At(scr) - 1]
      BY <3>1 DEF Paged, At
    <3>3. Pages[x] = [cells |-> scr.cells, pos |-> At(scr)]
      BY <1>1 DEF Pages, Paged
    <3>4. Pages' = [Pages EXCEPT ![x] = Paged(scr')]
      BY <1>2, <2>1, OnePage
    <3>5. Pages[x].pos = At(scr) /\ Pages[x].cells = scr.cells
      BY <3>3
    <3> HIDE DEF At
    <3>6. /\ Pages[curr_term_id].pos > 0
          /\ Pages' = [Pages EXCEPT ![curr_term_id] =
                 [cells |-> [@.cells EXCEPT ![Pages[curr_term_id].pos - 1] = BLANK],
                  pos |-> @.pos - 1]]
      BY <2>3, <3>2, <3>4, <3>5
    <3>7. Teletype!Erase
      BY <2>1, <3>6, TeletypeVars
    <3> QED BY <3>7 DEF Teletype!Next
  <2> QED BY <1>6, <2>2, <2>3 DEF Backspace, SetScreen
<1>7. CASE CtrlL
  <2>1. scr' = clear(scr) /\ UNCHANGED <<saved, curr_term_id>>
    BY <1>7 DEF CtrlL, SetScreen
  <2>2. Paged(scr') = [cells |-> AllBlank, pos |-> 0]
    BY <2>1 DEF clear, Paged, At
  <2>3. Pages' = [Pages EXCEPT ![x] = Paged(scr')]
    BY <1>2, <2>1, OnePage
  <2>4. Teletype!Wipe
    BY <2>1, <2>2, <2>3, TeletypeVars
  <2> QED BY <2>4 DEF Teletype!Next
<1>8. CASE terminal_read
  BY <1>3, <1>8 DEF terminal_read
<1>9. ASSUME NEW t \in Term, switch_displaying_term(t) PROVE Teletype!Next
  <2>1. \A u \in Term : Owned(u)' = Owned(u)
    BY <1>9, SwitchKeepsPages
  <2>2. UNCHANGED Pages
    BY <2>1 DEF Pages, Paged, At
  <2>3. Teletype!Show(t)
    BY <1>9, <2>2, TeletypeVars DEF switch_displaying_term
  <2> QED BY <2>3 DEF Teletype!Next
<1>10. CASE UNCHANGED vars
  BY <1>3, <1>10 DEF vars
<1> QED BY <1>4, <1>5, <1>6, <1>7, <1>8, <1>9, <1>10 DEF Next, Ink

\* Every terminal is a teletype with a page of its own: what is written and typed
\* fills its page in order, on the display or behind it, and the switch of the
\* display neither loses nor mixes anything.
THEOREM PagesKept == Spec => KeepsPages
<1>1. TypeOK /\ [Next]_vars => [Teletype!Next]_(Teletype!vars)
  BY NextRefines
<1> QED
  BY <1>1, InitRefines, ScreensKept, PTL DEF Spec, KeepsPages, Teletype!Spec
=============================================================================
