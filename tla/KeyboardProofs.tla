--------------------------- MODULE KeyboardProofs ---------------------------
(***************************************************************************)
(* Theorems about LineBuffer and Keyboard, for any number of terminals,    *)
(* any buffer length, any keys, and users that type ahead or not.          *)
(***************************************************************************)
EXTENDS Keyboard, SequenceTheorems, FiniteSetTheorems, TLAPS

\* The value saved by switch_displaying_term has the type of a saved buffer.
LEMMA SavedType == TypeOK => Saved \in TermState
BY DEF TypeOK, Saved, TermState

\* shift_buffer yields a buffer, whatever byte lies behind the array.
LEMMA ShiftType ==
    ASSUME TypeOK, NEW i \in Nat, i < BUFF_SIZE, NEW past \in Byte
    PROVE  shift_buffer(i, past) \in [Index -> Byte]
<1> USE LineBufferAssumption
<1>1. ASSUME NEW k \in Index, k < BUFF_SIZE - i - 2
      PROVE  k + i + 2 \in Index
  BY <1>1 DEF Index
<1>2. \A k \in Index : key_buff[k] \in Byte
  BY DEF TypeOK
<1>3. NUL \in Byte
  BY DEF Byte
<1> QED
  BY <1>1, <1>2, <1>3 DEF shift_buffer

\* A newline found within the array, or the number of bytes asked for.
LEMMA ReadLenType ==
    ASSUME NEW n \in ReadSizes
    PROVE  ReadLen(n) \in Nat
<1> USE LineBufferAssumption
<1>1. n \in Nat
  OBVIOUS
<1>2. CASE \E k \in Index : k < n /\ NewlineAt(k)
  <2>1. (CHOOSE k \in Index : NewlineAt(k)) \in Index
    BY <1>2
  <2> QED
    BY <1>2, <2>1 DEF ReadLen, Index
<1>3. CASE ~ \E k \in Index : k < n /\ NewlineAt(k)
  BY <1>1, <1>3 DEF ReadLen
<1> QED
  BY <1>2, <1>3

\* Every step keeps the types: the index never passes the end of the buffer and
\* no read takes an Enter that was not pressed.
LEMMA TypeStep == TypeOK /\ [Next]_vars => TypeOK'
<1> SUFFICES ASSUME TypeOK, [Next]_vars PROVE TypeOK'
  OBVIOUS
<1> USE LineBufferAssumption
<1>1. ASSUME NEW c \in Chars, set_buffer(c) PROVE TypeOK'
  <2>1. c \in Byte
    BY DEF Byte
  <2>2. key_buff' \in [Index -> Byte]
    BY <1>1, <2>1 DEF TypeOK, set_buffer
  <2>3. buff_index' \in WriteIndex
    BY <1>1 DEF TypeOK, set_buffer, RoomForChar, WriteIndex
  <2> QED
    BY <1>1, <2>2, <2>3 DEF TypeOK, set_buffer
<1>2. CASE Enter
  <2>1. NL \in Byte
    BY DEF Byte
  <2>2. key_buff' \in [Index -> Byte]
    BY <1>2, <2>1 DEF TypeOK, Enter
  <2>3. buff_index' \in WriteIndex
    BY <1>2 DEF TypeOK, Enter, WriteIndex
  <2> QED
    BY <1>2, <2>2, <2>3 DEF TypeOK, Enter
<1>3. CASE Backspace
  <2>1. NUL \in Byte
    BY DEF Byte
  <2>2. key_buff' \in [Index -> Byte]
    BY <1>3, <2>1 DEF TypeOK, Backspace
  <2>3. buff_index' \in WriteIndex
    BY <1>3 DEF TypeOK, Backspace, WriteIndex
  <2> QED
    BY <1>3, <2>2, <2>3 DEF TypeOK, Backspace
<1>4. ASSUME NEW n \in ReadSizes, terminal_read(n) PROVE TypeOK'
  <2> DEFINE i == ReadLen(n)
  <2>1. i \in Nat /\ i < BUFF_SIZE
    BY <1>4, ReadLenType DEF terminal_read
  <2>2. PICK past \in Byte : key_buff' = shift_buffer(i, past)
    BY <1>4 DEF terminal_read
  <2>3. key_buff' \in [Index -> Byte]
    BY <2>1, <2>2, ShiftType
  <2>4. buff_index' = buff_index - (i + 1) /\ num_enters' = num_enters - 1
    BY <1>4 DEF terminal_read, EntersAfter
  <2>5. num_enters > 0
    BY <1>4 DEF terminal_read, Readable
  <2>6. buff_index' \in WriteIndex /\ num_enters' \in Nat
    BY <2>1, <2>4, <2>5 DEF TypeOK, WriteIndex
  <2> QED
    BY <1>4, <2>3, <2>6 DEF TypeOK, terminal_read
<1>5. ASSUME NEW n \in ReadSizes, ReadOverrun(n) PROVE TypeOK'
  BY <1>5 DEF TypeOK, ReadOverrun, buffer
<1>6. ASSUME NEW t \in Term, switch_displaying_term(t) PROVE TypeOK'
  <2>1. SaveTerm \in [Term -> TermState]
    BY SavedType DEF SaveTerm, TypeOK
  <2>2. SaveTerm[t] \in TermState
    BY <2>1
  <2> QED
    BY <1>6, <2>1, <2>2 DEF TypeOK, switch_displaying_term, TermState
<1>7. ASSUME NEW t \in Term, Schedule(t) PROVE TypeOK'
  BY <1>7 DEF TypeOK, Schedule, buffer
<1>8. CASE UNCHANGED vars
  BY <1>8 DEF TypeOK, vars, buffer
<1> QED
  BY <1>1, <1>2, <1>3, <1>4, <1>5, <1>6, <1>7, <1>8 DEF Next, Others

\* LineBuffer is type-correct: in particular buff_index stays at or below the
\* length of key_buff and num_enters never becomes negative.
THEOREM TypeCorrect == Spec => []TypeOK
<1>1. Init => TypeOK
  <2> SUFFICES ASSUME Init PROVE TypeOK
    OBVIOUS
  <2>1. [k \in Index |-> NUL] \in [Index -> Byte]
    BY DEF Byte
  <2>2. 0 \in WriteIndex /\ 0 \in Term
    BY LineBufferAssumption DEF WriteIndex, Term
  <2>3. [buff_save |-> [k \in Index |-> NUL], buff_index_save |-> 0,
         enters_save |-> 0] \in TermState
    BY <2>1, <2>2 DEF TermState
  <2> QED
    BY <2>1, <2>2, <2>3 DEF Init, TypeOK
<1> QED
  BY <1>1, TypeStep, PTL DEF Spec

-----------------------------------------------------------------------------
\* A switch of the display leaves every terminal's line buffer as it is.
LEMMA SwitchKeepsViews ==
    ASSUME TypeOK, NEW t \in Term, switch_displaying_term(t), NEW u \in Term
    PROVE  View(u)' = View(u)
<1>2. SaveTerm[curr_term_id] = Saved
  BY DEF SaveTerm, TypeOK
<1>3. \A v \in Term : v # curr_term_id => SaveTerm[v] = terms[v]
  BY DEF SaveTerm, TypeOK
<1>4. \A v \in Term : View(v) = SaveTerm[v]
  BY <1>2, <1>3 DEF View
<1>5. SaveTerm[t] \in TermState
  BY SavedType DEF SaveTerm, TypeOK
<1>6. Saved' = SaveTerm[t]
  BY <1>5 DEF switch_displaying_term, Saved, TermState
<1>7. curr_term_id' = t /\ terms' = SaveTerm
  BY DEF switch_displaying_term
<1>8. CASE u = t
  BY <1>4, <1>6, <1>7, <1>8 DEF View
<1>9. CASE u # t
  BY <1>4, <1>7, <1>9 DEF View
<1> QED
  BY <1>8, <1>9

\* Keys, reads and the scheduler change only the displayed terminal's buffer;
\* switching terminals changes none.
LEMMA OnlyDisplayed ==
    ASSUME TypeOK, [Next]_vars, NEW t \in Term, View(t)' # View(t)
    PROVE  t = curr_term_id /\ curr_term_id' = curr_term_id
<1>1. CASE \E u \in Term : switch_displaying_term(u)
  BY <1>1, SwitchKeepsViews
<1>2. CASE terms' = terms /\ curr_term_id' = curr_term_id
  BY <1>2 DEF View
<1>3. ASSUME NEW c \in Chars, set_buffer(c) PROVE terms' = terms /\ curr_term_id' = curr_term_id
  BY <1>3 DEF set_buffer
<1>4. CASE Enter \/ Backspace
  BY <1>2, <1>4 DEF Enter, Backspace
<1>5. ASSUME NEW n \in ReadSizes, terminal_read(n) \/ ReadOverrun(n)
      PROVE  terms' = terms /\ curr_term_id' = curr_term_id
  BY <1>5 DEF terminal_read, ReadOverrun
<1>6. ASSUME NEW u \in Term, Schedule(u) PROVE terms' = terms /\ curr_term_id' = curr_term_id
  BY <1>6 DEF Schedule
<1>7. CASE UNCHANGED vars
  BY <1>2, <1>7 DEF vars
<1> QED
  BY <1>1, <1>2, <1>3, <1>4, <1>5, <1>6, <1>7 DEF Next, Others

\* What is typed in one terminal neither leaks into nor disturbs another.
THEOREM TerminalsIsolated == Spec => Isolation
<1> DEFINE Private == \A t \in Term : View(t)' # View(t)
                         => t = curr_term_id /\ curr_term_id' = curr_term_id
<1>1. TypeOK /\ [Next]_vars => [Private]_vars
  BY OnlyDisplayed
<1> QED
  BY <1>1, TypeCorrect, PTL DEF Spec, Isolation

-----------------------------------------------------------------------------
(***************************************************************************)
(* The users who wait for their line to be read, when every program reads  *)
(* whole lines: the buffer of their terminal holds the line being edited,  *)
(* or one finished line and nothing behind it.                             *)
(***************************************************************************)
WholeLines == \A n \in ReadSizes : n >= BUFF_SIZE - 1

OneLine(v) ==
    /\ v.buff_index_save \in 0 .. BUFF_SIZE
    /\ v.enters_save = 0 =>
          /\ v.buff_index_save < BUFF_SIZE
          /\ \A k \in Index : k < v.buff_index_save => v.buff_save[k] # NL
    /\ v.enters_save # 0 =>
          /\ v.enters_save = 1
          /\ v.buff_index_save > 0
          /\ v.buff_save[v.buff_index_save - 1] = NL
          /\ \A k \in Index : k < v.buff_index_save - 1 => v.buff_save[k] # NL

LineInv == \A t \in Patient : OneLine(View(t))

\* The view of the displayed terminal is the live buffer.
LEMMA DisplayedView ==
    /\ View(curr_term_id).buff_save = key_buff
    /\ View(curr_term_id).buff_index_save = buff_index
    /\ View(curr_term_id).enters_save = num_enters
BY DEF View, Saved

\* A read in the terminal of a user who waits finds the newline at the end of the
\* line, or reads just as far.
LEMMA ReadsToEnd ==
    ASSUME TypeOK, WholeLines, LineInv, curr_term_id \in Patient,
           num_enters > 0, NEW n \in ReadSizes
    PROVE  ReadLen(n) = buff_index - 1 /\ buff_index \in 1 .. BUFF_SIZE /\ num_enters = 1
<1> USE LineBufferAssumption
<1>1. OneLine(View(curr_term_id)) /\ num_enters # 0
  BY DEF LineInv, TypeOK
<1>2. /\ buff_index \in 1 .. BUFF_SIZE /\ num_enters = 1
      /\ key_buff[buff_index - 1] = NL
      /\ \A k \in Index : k < buff_index - 1 => key_buff[k] # NL
  BY <1>1, DisplayedView DEF OneLine
<1>3. buff_index - 1 \in Index
  BY <1>2 DEF Index
<1>4. ASSUME NEW k \in Index PROVE NewlineAt(k) <=> k = buff_index - 1
  BY <1>2, <1>3 DEF NewlineAt, Index
<1>5. n \in Nat /\ n >= BUFF_SIZE - 1
  BY DEF WholeLines
<1>6. CASE buff_index - 1 < n
  <2>1. (CHOOSE k \in Index : NewlineAt(k)) = buff_index - 1
    BY <1>3, <1>4
  <2> QED
    BY <1>2, <1>3, <1>4, <1>6, <2>1 DEF ReadLen
<1>7. CASE ~ (buff_index - 1 < n)
  <2>1. n = buff_index - 1
    BY <1>2, <1>5, <1>7
  <2>2. ~ \E k \in Index : k < n /\ NewlineAt(k)
    BY <1>4, <2>1 DEF Index
  <2> QED
    BY <1>2, <2>1, <2>2 DEF ReadLen
<1> QED
  BY <1>6, <1>7

\* Every step leaves such a terminal with one line.
LEMMA LineStep ==
    ASSUME WholeLines, TypeOK, TypeOK', LineInv, [Next]_vars
    PROVE  LineInv'
<1> USE LineBufferAssumption
<1> SUFFICES ASSUME NEW t \in Patient, View(t)' # View(t)
             PROVE  OneLine(View(t))'
  BY DEF LineInv, OneLine
<1>1. t \in Term /\ t = curr_term_id /\ curr_term_id' = curr_term_id
  BY OnlyDisplayed DEF Patient
<1>2. /\ OneLine(View(t)) /\ View(t).buff_save = key_buff
      /\ View(t).buff_index_save = buff_index /\ View(t).enters_save = num_enters
  BY <1>1, DisplayedView DEF LineInv
<1>3. /\ View(t)'.buff_save = key_buff' /\ View(t)'.buff_index_save = buff_index'
      /\ View(t)'.enters_save = num_enters'
  BY <1>1 DEF View, Saved
<1>4. /\ key_buff \in [Index -> Byte] /\ buff_index \in 0 .. BUFF_SIZE
      /\ num_enters \in Nat
  BY <1>2 DEF TypeOK, OneLine
<1>5. Key => num_enters = 0 /\ buff_index < BUFF_SIZE
             /\ \A k \in Index : k < buff_index => key_buff[k] # NL
  BY <1>1, <1>2 DEF Key, Patient, OneLine
<1>6. ASSUME NEW c \in Chars, set_buffer(c) PROVE OneLine(View(t))'
  <2>1. /\ buff_index \in Index /\ buff_index < BUFF_SIZE - 1 /\ Key
        /\ key_buff' = [key_buff EXCEPT ![buff_index] = c]
        /\ buff_index' = buff_index + 1 /\ num_enters' = num_enters
    BY <1>4, <1>6 DEF set_buffer, RoomForChar, Index
  <2>2. \A k \in Index : k < buff_index' => key_buff'[k] # NL
    BY <1>4, <1>5, <2>1 DEF Index
  <2> QED
    BY <1>3, <1>4, <1>5, <2>1, <2>2 DEF OneLine
<1>7. CASE Enter
  <2>1. /\ buff_index \in Index /\ Key
        /\ key_buff' = [key_buff EXCEPT ![buff_index] = NL]
        /\ buff_index' = buff_index + 1 /\ num_enters' = num_enters + 1
    BY <1>4, <1>7 DEF Enter, Index
  <2>2. /\ key_buff'[buff_index' - 1] = NL
        /\ \A k \in Index : k < buff_index' - 1 => key_buff'[k] # NL
    BY <1>4, <1>5, <2>1 DEF Index
  <2>3. num_enters' = 1 /\ buff_index' \in 1 .. BUFF_SIZE
    BY <1>4, <1>5, <2>1
  <2> QED
    BY <1>3, <2>2, <2>3 DEF OneLine
<1>8. CASE Backspace
  <2> DEFINE i == IF buff_index - 1 < 0 THEN 0 ELSE buff_index - 1
  <2>1. /\ i \in Index /\ Key /\ key_buff' = [key_buff EXCEPT ![i] = NUL]
        /\ buff_index' = i /\ num_enters' = num_enters
    BY <1>4, <1>8 DEF Backspace, Index
  <2>2. i <= buff_index
    BY <1>4
  <2> HIDE DEF i
  <2>3. \A k \in Index : k < i => key_buff'[k] # NL
    BY <1>4, <1>5, <2>1, <2>2 DEF Index
  <2>4. i \in 0 .. BUFF_SIZE /\ i < BUFF_SIZE
    BY <2>1 DEF Index
  <2> QED
    BY <1>3, <1>5, <2>1, <2>3, <2>4 DEF OneLine
<1>9. ASSUME NEW n \in ReadSizes, terminal_read(n) PROVE OneLine(View(t))'
  <2>1. num_enters > 0
    BY <1>9 DEF terminal_read, Readable
  <2>2. ReadLen(n) = buff_index - 1 /\ buff_index \in 1 .. BUFF_SIZE /\ num_enters = 1
    BY <1>1, <2>1, ReadsToEnd
  <2>3. buff_index' = 0 /\ num_enters' = 0
    BY <1>9, <2>2 DEF terminal_read, EntersAfter
  <2> QED
    BY <1>3, <2>3 DEF OneLine, Index
<1>10. CASE UNCHANGED buffer
  BY <1>2, <1>3, <1>10 DEF buffer, OneLine
<1>11. ASSUME NEW n \in ReadSizes, ReadOverrun(n) PROVE UNCHANGED buffer
  BY <1>11 DEF ReadOverrun
<1>12. ASSUME NEW u \in Term, Schedule(u) PROVE UNCHANGED buffer
  BY <1>12 DEF Schedule
<1>13. ASSUME NEW u \in Term, switch_displaying_term(u) PROVE FALSE
  BY <1>1, <1>13, SwitchKeepsViews
<1> QED
  BY <1>6, <1>7, <1>8, <1>9, <1>10, <1>11, <1>12, <1>13 DEF Next, Others, vars

\* The buffers are empty at the start.
LEMMA InitLines == Init => LineInv
<1> SUFFICES ASSUME Init, NEW t \in Patient PROVE OneLine(View(t))
  BY DEF LineInv
<1>1. t \in Term
  BY DEF Patient
<1>2. View(t).buff_index_save = 0 /\ View(t).enters_save = 0
  BY <1>1 DEF View, Saved, Init
<1> QED
  BY <1>2, LineBufferAssumption DEF OneLine, Index

\* The invariant holds throughout.
LEMMA LinesHold ==
    ASSUME WholeLines
    PROVE  Spec => [](TypeOK /\ LineInv)
<1>1. TypeOK /\ TypeOK' /\ LineInv /\ [Next]_vars => LineInv'
  BY LineStep
<1> QED
  BY <1>1, InitLines, TypeCorrect, PTL DEF Spec

\* In the terminal of a user who waits num_enters counts the newlines in key_buff,
\* when programs ask terminal_read for at least BUFF_SIZE - 1 bytes (as the shell,
\* hello, counter and syserr do).
THEOREM EntersCounted ==
    ASSUME WholeLines
    PROVE  Spec => []EntersAreNewlines
<1>1. TypeOK /\ LineInv => EntersAreNewlines
  <2> SUFFICES ASSUME TypeOK, LineInv, NEW t \in Patient
               PROVE  View(t).enters_save =
                         Cardinality({ k \in Index : /\ k < View(t).buff_index_save
                                                     /\ View(t).buff_save[k] = NL })
    BY DEF EntersAreNewlines
  <2> DEFINE i == View(t).buff_index_save
             b == View(t).buff_save
             S == { k \in Index : k < i /\ b[k] = NL }
  <2>1. OneLine(View(t))
    BY DEF LineInv
  <2>2. CASE View(t).enters_save = 0
    <3>1. S = {}
      BY <2>1, <2>2 DEF OneLine
    <3> QED BY <2>2, <3>1, FS_EmptySet
  <2>3. CASE View(t).enters_save # 0
    <3>1. /\ View(t).enters_save = 1 /\ i \in 1 .. BUFF_SIZE /\ b[i - 1] = NL
          /\ \A k \in Index : k < i - 1 => b[k] # NL
      BY <2>1, <2>3, LineBufferAssumption DEF OneLine
    <3> HIDE DEF i, b
    <3>2. i - 1 \in Index /\ \A k \in Index : k < i /\ k # i - 1 => k < i - 1
      BY <3>1, LineBufferAssumption DEF Index
    <3>3. S = { i - 1 }
      BY <3>1, <3>2
    <3>4. Cardinality(S) = 1
      BY <3>3, FS_Singleton
    <3> QED BY <3>1, <3>4 DEF i, b
  <2> QED BY <2>2, <2>3
<1> QED
  BY <1>1, LinesHold, PTL

-----------------------------------------------------------------------------
(***************************************************************************)
(* The promise of Tty, step by step.                                       *)
(***************************************************************************)
\* The characters typed so far form a sequence as long as the index.
LEMMA TypedSeq ==
    ASSUME NEW v, v.buff_index_save \in 0 .. BUFF_SIZE, v.buff_save \in [Index -> Byte]
    PROVE  /\ Typed(v) \in Seq(Byte) /\ Len(Typed(v)) = v.buff_index_save
           /\ \A k \in 1 .. v.buff_index_save : Typed(v)[k] = v.buff_save[k - 1]
<1> USE LineBufferAssumption
<1> DEFINE n == v.buff_index_save
<1>1. n \in Nat /\ \A k \in 1 .. n : k - 1 \in Index
  BY DEF Index
<1>2. Typed(v) = [k \in 1 .. n |-> v.buff_save[k - 1]]
  BY DEF Typed
<1> HIDE DEF n
<1>3. Typed(v) \in [1 .. n -> Byte]
  BY <1>1, <1>2
<1>4. Typed(v) \in Seq(Byte) /\ Len(Typed(v)) = n
  BY <1>1, <1>3
<1> QED
  BY <1>2, <1>4 DEF n

\* Two typed lines with the same characters are the same.
LEMMA SameSeq ==
    ASSUME NEW S, NEW s \in Seq(S), NEW r \in Seq(S), Len(s) = Len(r),
           \A k \in 1 .. Len(s) : s[k] = r[k]
    PROVE  s = r
BY SeqEqual

\* All but the last n - m characters of a line.
LEMMA Prefix ==
    ASSUME NEW S, NEW s \in Seq(S), NEW m \in 0 .. Len(s)
    PROVE  /\ SubSeq(s, 1, m) \in Seq(S) /\ Len(SubSeq(s, 1, m)) = m
           /\ \A k \in 1 .. m : SubSeq(s, 1, m)[k] = s[k]
<1>1. m \in Int /\ 1 \in Int /\ Len(s) \in Nat /\ m - 1 + 1 = m
  OBVIOUS
<1>2. \A k \in 1 .. m : s[k] \in S
  BY <1>1
<1>3. /\ SubSeq(s, 1, m) \in Seq(S)
      /\ Len(SubSeq(s, 1, m)) = IF 1 <= m THEN m - 1 + 1 ELSE 0
      /\ \A k \in 1 .. m - 1 + 1 : SubSeq(s, 1, m)[k] = s[1 + k - 1]
  BY <1>1, <1>2, SubSeqProperties
<1>4. ASSUME NEW k \in 1 .. m PROVE SubSeq(s, 1, m)[k] = s[k]
  <2>1. k \in 1 .. m - 1 + 1 /\ 1 + k - 1 = k
    BY <1>1
  <2> QED BY <1>3, <2>1
<1>5. Len(SubSeq(s, 1, m)) = m
  BY <1>1, <1>3
<1> QED
  BY <1>3, <1>4, <1>5

\* The variables of Tty, as the refinement mapping of LineBuffer gives them.
Lines == [t \in Patient |-> FinishedLines(View(t))]
Edit == [t \in Patient |-> EditedLine(View(t))]
Shown == IF curr_term_id \in Patient THEN curr_term_id ELSE NULL
Out == IF read_buf # NULL /\ exec_term_id \in Patient THEN read_buf ELSE NULL

\* Only the displayed terminal's line changes, if any does.
LEMMA OneChanges ==
    ASSUME TypeOK, [Next]_vars
    PROVE  /\ \A x \in Patient : x = curr_term_id =>
                 /\ Lines' = [Lines EXCEPT ![x] = FinishedLines(View(x)')]
                 /\ Edit' = [Edit EXCEPT ![x] = EditedLine(View(x)')]
           /\ (\A t \in Patient : View(t)' = View(t)) => Lines' = Lines /\ Edit' = Edit
           /\ curr_term_id \notin Patient => \A t \in Patient : View(t)' = View(t)
<1>1. \A t \in Patient : t \in Term
  BY DEF Patient
<1>2. \A t \in Patient : t # curr_term_id => View(t)' = View(t)
  BY <1>1, OnlyDisplayed
<1>3. \A t \in Patient : /\ FinishedLines(View(t))' = FinishedLines(View(t)')
                         /\ EditedLine(View(t))' = EditedLine(View(t)')
  BY DEF FinishedLines, EditedLine, Typed
<1>4. /\ Lines' = [t \in Patient |-> FinishedLines(View(t)')]
      /\ Edit' = [t \in Patient |-> EditedLine(View(t)')]
  BY <1>3 DEF Lines, Edit
<1>5. /\ Lines = [t \in Patient |-> FinishedLines(View(t))]
      /\ Edit = [t \in Patient |-> EditedLine(View(t))]
  BY DEF Lines, Edit
<1>6. ASSUME NEW x \in Patient, x = curr_term_id
      PROVE  /\ Lines' = [Lines EXCEPT ![x] = FinishedLines(View(x)')]
             /\ Edit' = [Edit EXCEPT ![x] = EditedLine(View(x)')]
  <2>1. \A t \in Patient : t # x =>
           /\ FinishedLines(View(t)') = FinishedLines(View(t))
           /\ EditedLine(View(t)') = EditedLine(View(t))
    BY <1>2, <1>6
  <2> QED BY <1>4, <1>5, <2>1
<1>7. ASSUME \A t \in Patient : View(t)' = View(t)
      PROVE  Lines' = Lines /\ Edit' = Edit
  BY <1>4, <1>5, <1>7
<1> QED
  BY <1>2, <1>6, <1>7

\* While a line is being edited the buffer is that line.
LEMMA Editing ==
    ASSUME NEW v, OneLine(v), v.buff_save \in [Index -> Byte], v.enters_save = 0
    PROVE  /\ FinishedLines(v) = <<>> /\ EditedLine(v) = Typed(v)
           /\ Typed(v) \in Seq(Byte) /\ Len(Typed(v)) = v.buff_index_save
           /\ \A k \in 1 .. v.buff_index_save : Typed(v)[k] = v.buff_save[k - 1]
<1>1. v.buff_index_save \in 0 .. BUFF_SIZE
  BY DEF OneLine
<1> QED
  BY <1>1, TypedSeq DEF FinishedLines, EditedLine

\* When it is finished, the buffer is that line and its newline.
LEMMA Finished ==
    ASSUME NEW v, OneLine(v), v.buff_save \in [Index -> Byte], v.enters_save # 0
    PROVE  LET n == v.buff_index_save - 1
               l == SubSeq(Typed(v), 1, n)
           IN /\ FinishedLines(v) = <<l>> /\ EditedLine(v) = <<>>
              /\ l \in Seq(Byte) /\ Len(l) = n
              /\ \A k \in 1 .. n : l[k] = v.buff_save[k - 1]
<1> USE LineBufferAssumption
<1>1. v.buff_index_save \in 1 .. BUFF_SIZE
  BY DEF OneLine
<1>2. /\ Typed(v) \in Seq(Byte) /\ Len(Typed(v)) = v.buff_index_save
      /\ \A k \in 1 .. v.buff_index_save : Typed(v)[k] = v.buff_save[k - 1]
  BY <1>1, TypedSeq
<1> DEFINE n == v.buff_index_save - 1
           l == SubSeq(Typed(v), 1, n)
<1>3. n \in 0 .. Len(Typed(v))
  BY <1>1, <1>2
<1>4. l \in Seq(Byte) /\ Len(l) = n /\ \A k \in 1 .. n : l[k] = Typed(v)[k]
  <2> HIDE DEF n
  <2> QED BY <1>2, <1>3, Prefix DEF l
<1>5. \A k \in 1 .. n : k \in 1 .. v.buff_index_save
  BY <1>1
<1> QED
  BY <1>2, <1>4, <1>5 DEF FinishedLines, EditedLine

\* A buffer as the variables hold it.
Buffer(v) == OneLine(v) /\ v.buff_save \in [Index -> Byte]

\* A character is one more of the line (set_buffer, keyboard.c).
LEMMA CharTyped ==
    ASSUME NEW v, NEW w, Buffer(v), Buffer(w), v.enters_save = 0, w.enters_save = 0,
           NEW c \in Chars, w.buff_index_save = v.buff_index_save + 1,
           w.buff_save = [v.buff_save EXCEPT ![v.buff_index_save] = c]
    PROVE  /\ FinishedLines(w) = FinishedLines(v)
           /\ EditedLine(w) = Append(EditedLine(v), c)
           /\ Len(EditedLine(v)) = v.buff_index_save
<1> USE LineBufferAssumption DEF Buffer
<1> DEFINE n == v.buff_index_save
           a == Append(Typed(v), c)
<1>1. n \in 0 .. BUFF_SIZE - 1 /\ n \in Index
  BY DEF OneLine, Index
<1>2. /\ FinishedLines(v) = <<>> /\ EditedLine(v) = Typed(v)
      /\ Typed(v) \in Seq(Byte) /\ Len(Typed(v)) = n
      /\ \A k \in 1 .. n : Typed(v)[k] = v.buff_save[k - 1]
  BY Editing
<1>3. /\ FinishedLines(w) = <<>> /\ EditedLine(w) = Typed(w)
      /\ Typed(w) \in Seq(Byte) /\ Len(Typed(w)) = n + 1
      /\ \A k \in 1 .. n + 1 : Typed(w)[k] = w.buff_save[k - 1]
  BY Editing
<1> HIDE DEF n
<1>4. /\ c \in Byte /\ a \in Seq(Byte) /\ Len(a) = n + 1 /\ a[n + 1] = c
      /\ \A k \in 1 .. n : a[k] = Typed(v)[k]
  BY <1>2 DEF Byte
<1>5. ASSUME NEW k \in 1 .. n + 1 PROVE Typed(w)[k] = a[k]
  <2>1. CASE k = n + 1
    BY <1>1, <1>3, <1>4, <2>1 DEF n
  <2>2. CASE k # n + 1
    <3>1. k \in 1 .. n /\ k - 1 \in Index /\ k - 1 # n
      BY <1>1, <2>2 DEF Index
    <3>2. w.buff_save[k - 1] = v.buff_save[k - 1]
      BY <1>1, <3>1 DEF n
    <3> QED BY <1>2, <1>3, <1>4, <3>1, <3>2
  <2> QED BY <2>1, <2>2
<1>6. Typed(w) = a
  <2> HIDE DEF a
  <2> QED BY <1>1, <1>3, <1>4, <1>5, SameSeq
<1> QED
  BY <1>2, <1>3, <1>6 DEF n

\* Enter finishes the line as it was edited.
LEMMA LineEnded ==
    ASSUME NEW v, NEW w, Buffer(v), Buffer(w), v.enters_save = 0, w.enters_save = 1,
           w.buff_index_save = v.buff_index_save + 1,
           w.buff_save = [v.buff_save EXCEPT ![v.buff_index_save] = NL]
    PROVE  /\ FinishedLines(w) = Append(FinishedLines(v), EditedLine(v))
           /\ EditedLine(w) = <<>>
<1> USE LineBufferAssumption DEF Buffer
<1> DEFINE n == v.buff_index_save
           l == SubSeq(Typed(w), 1, n)
<1>1. n \in 0 .. BUFF_SIZE - 1 /\ n \in Index /\ w.buff_index_save - 1 = n
  BY DEF OneLine, Index
<1>2. /\ FinishedLines(v) = <<>> /\ EditedLine(v) = Typed(v)
      /\ Typed(v) \in Seq(Byte) /\ Len(Typed(v)) = n
      /\ \A k \in 1 .. n : Typed(v)[k] = v.buff_save[k - 1]
  BY Editing
<1>3. /\ FinishedLines(w) = <<l>> /\ EditedLine(w) = <<>>
      /\ l \in Seq(Byte) /\ Len(l) = n
      /\ \A k \in 1 .. n : l[k] = w.buff_save[k - 1]
  <2> DEFINE m == w.buff_index_save - 1
  <2>1. /\ FinishedLines(w) = << SubSeq(Typed(w), 1, m) >> /\ EditedLine(w) = <<>>
        /\ SubSeq(Typed(w), 1, m) \in Seq(Byte) /\ Len(SubSeq(Typed(w), 1, m)) = m
        /\ \A k \in 1 .. m : SubSeq(Typed(w), 1, m)[k] = w.buff_save[k - 1]
    <3>1. w.enters_save # 0
      OBVIOUS
    <3> QED BY <3>1, Finished
  <2>2. m = n
    BY <1>1
  <2> HIDE DEF m, n
  <2> QED BY <2>1, <2>2
<1> HIDE DEF l, n
<1>4. ASSUME NEW k \in 1 .. n PROVE l[k] = Typed(v)[k]
  <2>1. k - 1 \in Index /\ k - 1 # n
    BY <1>1 DEF Index
  <2>2. w.buff_save[k - 1] = v.buff_save[k - 1]
    BY <1>1, <2>1 DEF n
  <2> QED BY <1>2, <1>3, <2>2
<1>5. l = Typed(v)
  BY <1>1, <1>2, <1>3, <1>4, SameSeq
<1> QED
  BY <1>2, <1>3, <1>5

\* Backspace takes the last character off the line, if there is one.
LEMMA CharErased ==
    ASSUME NEW v, NEW w, Buffer(v), Buffer(w), v.enters_save = 0, w.enters_save = 0,
           NEW i, i = IF v.buff_index_save - 1 < 0 THEN 0 ELSE v.buff_index_save - 1,
           w.buff_index_save = i, w.buff_save = [v.buff_save EXCEPT ![i] = NUL]
    PROVE  /\ FinishedLines(w) = FinishedLines(v)
           /\ EditedLine(w) = IF EditedLine(v) = <<>> THEN EditedLine(v)
                              ELSE SubSeq(EditedLine(v), 1, Len(EditedLine(v)) - 1)
<1> USE LineBufferAssumption DEF Buffer
<1> DEFINE n == v.buff_index_save
<1>1. n \in 0 .. BUFF_SIZE - 1 /\ i \in Index /\ i <= n
  BY DEF OneLine, Index
<1>2. /\ FinishedLines(v) = <<>> /\ EditedLine(v) = Typed(v)
      /\ Typed(v) \in Seq(Byte) /\ Len(Typed(v)) = n
      /\ \A k \in 1 .. n : Typed(v)[k] = v.buff_save[k - 1]
  BY Editing
<1>3. /\ FinishedLines(w) = <<>> /\ EditedLine(w) = Typed(w)
      /\ Typed(w) \in Seq(Byte) /\ Len(Typed(w)) = i
      /\ \A k \in 1 .. i : Typed(w)[k] = w.buff_save[k - 1]
  BY Editing
<1>4. i = IF n - 1 < 0 THEN 0 ELSE n - 1
  OBVIOUS
<1> HIDE DEF n
<1>5. CASE n = 0
  <2>1. i = 0 /\ Typed(v) = <<>> /\ Typed(w) = <<>>
    BY <1>2, <1>3, <1>4, <1>5
  <2> QED BY <1>2, <1>3, <2>1
<1>6. CASE n # 0
  <2>1. i = n - 1 /\ Typed(v) # <<>> /\ i \in 0 .. Len(Typed(v))
    BY <1>1, <1>2, <1>4, <1>6
  <2> DEFINE l == SubSeq(Typed(v), 1, i)
  <2>2. l \in Seq(Byte) /\ Len(l) = i /\ \A k \in 1 .. i : l[k] = Typed(v)[k]
    BY <1>2, <2>1, Prefix
  <2>3. ASSUME NEW k \in 1 .. i PROVE Typed(w)[k] = l[k]
    <3>1. k \in 1 .. n /\ k - 1 \in Index /\ k - 1 # i
      BY <1>1, <2>1 DEF Index
    <3>2. w.buff_save[k - 1] = v.buff_save[k - 1]
      BY <1>1, <3>1
    <3> QED BY <1>2, <1>3, <2>2, <3>1, <3>2
  <2>4. Typed(w) = l
    <3> HIDE DEF l
    <3> QED BY <1>3, <2>2, <2>3, SameSeq
  <2> QED BY <1>2, <1>3, <2>1, <2>4
<1> QED
  BY <1>5, <1>6

\* A read copies the finished line out and leaves nothing (terminal.c).
LEMMA LineRead ==
    ASSUME NEW v, NEW w, Buffer(v), Buffer(w), v.enters_save = 1, w.enters_save = 0,
           w.buff_index_save = 0,
           NEW i, i = v.buff_index_save - 1
    PROVE  /\ FinishedLines(v) # <<>>
           /\ Head(FinishedLines(v)) = [k \in 1 .. i |-> v.buff_save[k - 1]]
           /\ FinishedLines(w) = Tail(FinishedLines(v))
           /\ EditedLine(w) = EditedLine(v)
<1> USE LineBufferAssumption DEF Buffer
<1> DEFINE l == SubSeq(Typed(v), 1, i)
           r == [k \in 1 .. i |-> v.buff_save[k - 1]]
<1>1. i \in 0 .. BUFF_SIZE - 1
  BY DEF OneLine
<1>2. /\ FinishedLines(v) = <<l>> /\ EditedLine(v) = <<>>
      /\ l \in Seq(Byte) /\ Len(l) = i
      /\ \A k \in 1 .. i : l[k] = v.buff_save[k - 1]
  <2>1. v.enters_save # 0
    OBVIOUS
  <2> QED BY <2>1, Finished
<1>3. r \in Seq(Byte) /\ Len(r) = i /\ \A k \in 1 .. i : r[k] = v.buff_save[k - 1]
  <2>1. \A k \in 1 .. i : k - 1 \in Index
    BY <1>1 DEF Index
  <2>2. r \in [1 .. i -> Byte] /\ \A k \in 1 .. i : r[k] = v.buff_save[k - 1]
    BY <2>1
  <2> HIDE DEF r
  <2> QED BY <1>1, <2>2
<1> HIDE DEF l, r
<1>4. l = r
  BY <1>1, <1>2, <1>3, SameSeq
<1>5. /\ FinishedLines(w) = <<>> /\ EditedLine(w) = Typed(w)
      /\ Typed(w) \in Seq(Byte) /\ Len(Typed(w)) = 0
  BY Editing
<1>6. Typed(w) = <<>>
  BY <1>5
<1> QED
  BY <1>2, <1>4, <1>5, <1>6 DEF r

\* The initial buffers are empty lines.
LEMMA InitRefines == Init => Promise!TtyInit
<1> SUFFICES ASSUME Init PROVE Promise!TtyInit
  OBVIOUS
<1>1. ASSUME NEW t \in Patient
      PROVE  FinishedLines(View(t)) = <<>> /\ EditedLine(View(t)) = <<>>
  <2>1. t \in Term
    BY DEF Patient
  <2>2. View(t).buff_index_save = 0 /\ View(t).enters_save = 0
    BY <2>1 DEF View, Saved, Init
  <2>3. Typed(View(t)) = <<>>
    BY <2>2 DEF Typed
  <2> QED BY <2>2, <2>3 DEF FinishedLines, EditedLine
<1>2. Out = NULL
  BY DEF Out, Init
<1> QED
  BY <1>1, <1>2 DEF Promise!TtyInit, Out

\* Every step is one of Tty, or leaves its variables alone.
LEMMA NextRefines ==
    ASSUME WholeLines, TypeOK, TypeOK', LineInv, LineInv', [Next]_vars
    PROVE  [Promise!TtyNext]_(Promise!tty)
<1> USE LineBufferAssumption
<1> PICK x \in Term : x = curr_term_id
  BY DEF TypeOK
<1> DEFINE v == View(x)
           w == View(x)'
<1>1. x \in Patient /\ curr_term_id' = x =>
         /\ Buffer(v) /\ Buffer(w)
         /\ v.buff_save = key_buff /\ v.buff_index_save = buff_index
         /\ v.enters_save = num_enters
         /\ w.buff_save = key_buff' /\ w.buff_index_save = buff_index'
         /\ w.enters_save = num_enters'
  <2> SUFFICES ASSUME x \in Patient, curr_term_id' = x
               PROVE  /\ Buffer(v) /\ Buffer(w)
                      /\ v.buff_save = key_buff /\ v.buff_index_save = buff_index
                      /\ v.enters_save = num_enters
                      /\ w.buff_save = key_buff' /\ w.buff_index_save = buff_index'
                      /\ w.enters_save = num_enters'
    OBVIOUS
  <2>1. /\ v.buff_save = key_buff /\ v.buff_index_save = buff_index
        /\ v.enters_save = num_enters
    BY DEF View, Saved
  <2>2. /\ w.buff_save = key_buff' /\ w.buff_index_save = buff_index'
        /\ w.enters_save = num_enters'
    BY DEF View, Saved
  <2>3. OneLine(v) /\ OneLine(w)
    BY DEF LineInv, OneLine
  <2> QED BY <2>1, <2>2, <2>3 DEF Buffer, TypeOK
<1>2. x \in Patient => /\ Lines[x] = FinishedLines(v) /\ Edit[x] = EditedLine(v)
                       /\ Lines' = [Lines EXCEPT ![x] = FinishedLines(w)]
                       /\ Edit' = [Edit EXCEPT ![x] = EditedLine(w)]
                       /\ Shown = x /\ Shown \in Patient
  BY OneChanges DEF Lines, Edit, Shown
<1>3. x \notin Patient => Lines' = Lines /\ Edit' = Edit /\ Shown \notin Patient
  BY OneChanges DEF Shown, Patient
<1>4. curr_term_id' = curr_term_id => Shown' = Shown
  BY DEF Shown
<1>5. read_buf' = NULL => Out' = NULL
  BY DEF Out
<1> HIDE DEF v, w
<1>6. x \in Patient /\ Key => num_enters = 0
  BY DEF Key, Patient
<1>7. ASSUME x \notin Patient, curr_term_id' = curr_term_id, Out' = NULL
      PROVE  Promise!Idle
  BY <1>3, <1>4, <1>7 DEF Promise!Idle, Lines, Edit, Shown, Out
<1>8. ASSUME NEW c \in Chars, set_buffer(c) PROVE Promise!TtyNext
  <2>1. curr_term_id' = curr_term_id /\ Out' = NULL
    BY <1>5, <1>8 DEF set_buffer
  <2>2. CASE x \in Patient
    <3>1. /\ num_enters = 0 /\ num_enters' = 0 /\ buff_index' = buff_index + 1
          /\ key_buff' = [key_buff EXCEPT ![buff_index] = c]
          /\ buff_index < BUFF_SIZE - 1
      BY <1>6, <1>8, <2>2 DEF set_buffer, RoomForChar
    <3>2. /\ FinishedLines(w) = Lines[x] /\ EditedLine(w) = Append(Edit[x], c)
          /\ Len(Edit[x]) < BUFF_SIZE - 1
      <4>1. /\ Buffer(v) /\ Buffer(w) /\ v.enters_save = 0 /\ w.enters_save = 0
            /\ w.buff_index_save = v.buff_index_save + 1
            /\ w.buff_save = [v.buff_save EXCEPT ![v.buff_index_save] = c]
            /\ v.buff_index_save < BUFF_SIZE - 1
        BY <1>1, <2>1, <2>2, <3>1
      <4>2. /\ FinishedLines(w) = FinishedLines(v)
            /\ EditedLine(w) = Append(EditedLine(v), c)
            /\ Len(EditedLine(v)) = v.buff_index_save
        BY <4>1, CharTyped
      <4> QED BY <1>2, <2>2, <4>1, <4>2
    <3>3. /\ Shown \in Patient /\ Shown' = Shown /\ Lines' = Lines
          /\ Edit' = [Edit EXCEPT ![Shown] = IF Len(Edit[Shown]) < BUFF_SIZE - 1
                                             THEN Append(@, c) ELSE @]
      BY <1>2, <1>4, <2>1, <2>2, <3>2 DEF Lines
    <3>4. Promise!Type(c)
      BY <2>1, <3>3 DEF Promise!Type, Promise!Room, Promise!Displayed, Lines, Edit, Shown, Out
    <3> QED BY <3>4 DEF Promise!TtyNext
  <2>3. CASE x \notin Patient
    BY <1>7, <2>1, <2>3 DEF Promise!TtyNext
  <2> QED BY <2>2, <2>3
<1>9. CASE Enter
  <2>1. curr_term_id' = curr_term_id /\ Out' = NULL
    BY <1>5, <1>9 DEF Enter
  <2>2. CASE x \in Patient
    <3>1. /\ num_enters = 0 /\ num_enters' = 1 /\ buff_index' = buff_index + 1
          /\ key_buff' = [key_buff EXCEPT ![buff_index] = NL]
      BY <1>6, <1>9, <2>2 DEF Enter
    <3>2. FinishedLines(w) = Append(Lines[x], Edit[x]) /\ EditedLine(w) = <<>>
      BY <1>1, <1>2, <2>1, <2>2, <3>1, LineEnded
    <3>3. /\ Shown \in Patient /\ Shown' = Shown
          /\ Lines' = [Lines EXCEPT ![Shown] = Append(@, Edit[Shown])]
          /\ Edit' = [Edit EXCEPT ![Shown] = <<>>]
      BY <1>2, <1>4, <2>1, <2>2, <3>2
    <3>4. Promise!EndLine
      BY <2>1, <3>3 DEF Promise!EndLine, Promise!Displayed, Lines, Edit, Shown, Out
    <3> QED BY <3>4 DEF Promise!TtyNext
  <2>3. CASE x \notin Patient
    BY <1>7, <2>1, <2>3 DEF Promise!TtyNext
  <2> QED BY <2>2, <2>3
<1>10. CASE Backspace
  <2>1. curr_term_id' = curr_term_id /\ Out' = NULL
    BY <1>5, <1>10 DEF Backspace
  <2>2. CASE x \in Patient
    <3> DEFINE i == IF buff_index - 1 < 0 THEN 0 ELSE buff_index - 1
    <3>1. /\ num_enters = 0 /\ num_enters' = 0 /\ buff_index' = i
          /\ key_buff' = [key_buff EXCEPT ![i] = NUL]
      BY <1>6, <1>10, <2>2 DEF Backspace
    <3>2. /\ FinishedLines(w) = Lines[x]
          /\ EditedLine(w) = IF Edit[x] = <<>> THEN Edit[x]
                             ELSE SubSeq(Edit[x], 1, Len(Edit[x]) - 1)
      <4>1. /\ Buffer(v) /\ Buffer(w) /\ v.enters_save = 0 /\ w.enters_save = 0
            /\ i = IF v.buff_index_save - 1 < 0 THEN 0 ELSE v.buff_index_save - 1
            /\ w.buff_index_save = i /\ w.buff_save = [v.buff_save EXCEPT ![i] = NUL]
        BY <1>1, <2>1, <2>2, <3>1
      <4> HIDE DEF i
      <4>2. /\ FinishedLines(w) = FinishedLines(v)
            /\ EditedLine(w) = IF EditedLine(v) = <<>> THEN EditedLine(v)
                               ELSE SubSeq(EditedLine(v), 1, Len(EditedLine(v)) - 1)
        BY <4>1, CharErased
      <4> QED BY <1>2, <2>2, <4>2
    <3>3. /\ Shown \in Patient /\ Shown' = Shown /\ Lines' = Lines
          /\ Edit' = [Edit EXCEPT ![Shown] = IF @ = <<>> THEN @
                                             ELSE SubSeq(@, 1, Len(@) - 1)]
      BY <1>2, <1>4, <2>1, <2>2, <3>2 DEF Lines
    <3>4. Promise!Erase
      BY <2>1, <3>3 DEF Promise!Erase, Promise!Displayed, Lines, Edit, Shown, Out
    <3> QED BY <3>4 DEF Promise!TtyNext
  <2>3. CASE x \notin Patient
    BY <1>7, <2>1, <2>3 DEF Promise!TtyNext
  <2> QED BY <2>2, <2>3
<1>11. ASSUME NEW n \in ReadSizes, terminal_read(n) PROVE Promise!TtyNext
  <2> DEFINE r == [k \in 1 .. ReadLen(n) |-> key_buff[k - 1]]
  <2>1. /\ curr_term_id' = curr_term_id /\ exec_term_id' = exec_term_id
        /\ exec_term_id = x /\ read_buf' = <<x, r>> /\ num_enters > 0
        /\ num_enters' = num_enters - 1 /\ buff_index' = buff_index - (ReadLen(n) + 1)
    BY <1>11 DEF terminal_read, Readable, EntersAfter
  <2>2. CASE x \in Patient
    <3>1. ReadLen(n) = buff_index - 1 /\ buff_index \in 1 .. BUFF_SIZE /\ num_enters = 1
      BY <2>1, <2>2, ReadsToEnd
    <3>2. num_enters' = 0 /\ buff_index' = 0
      BY <2>1, <3>1
    <3>3. /\ Lines[x] # <<>> /\ Head(Lines[x]) = r
          /\ FinishedLines(w) = Tail(Lines[x]) /\ EditedLine(w) = Edit[x]
      <4>1. /\ Buffer(v) /\ Buffer(w) /\ v.enters_save = 1 /\ w.enters_save = 0
            /\ w.buff_index_save = 0 /\ ReadLen(n) = v.buff_index_save - 1
            /\ v.buff_save = key_buff
        BY <1>1, <2>1, <2>2, <3>1, <3>2
      <4> DEFINE i == ReadLen(n)
      <4> HIDE DEF i
      <4>2. /\ FinishedLines(v) # <<>>
            /\ Head(FinishedLines(v)) = [k \in 1 .. i |-> v.buff_save[k - 1]]
            /\ FinishedLines(w) = Tail(FinishedLines(v))
            /\ EditedLine(w) = EditedLine(v)
        <5>1. i = v.buff_index_save - 1
          BY <4>1 DEF i
        <5> QED BY <4>1, <5>1, LineRead
      <4>3. r = [k \in 1 .. i |-> v.buff_save[k - 1]]
        BY <4>1 DEF i
      <4> QED BY <1>2, <2>2, <4>2, <4>3
    <3> HIDE DEF r
    <3>4. Out' = <<x, r>>
      BY <2>1, <2>2 DEF Out
    <3>5. /\ Shown' = Shown /\ Edit' = Edit
          /\ Lines' = [Lines EXCEPT ![x] = Tail(@)]
      BY <1>2, <1>4, <2>1, <2>2, <3>3 DEF Edit
    <3>6. Promise!ReadLine(x)
      BY <3>3, <3>4, <3>5 DEF Promise!ReadLine, Lines, Edit, Shown, Out
    <3> QED BY <2>2, <3>6 DEF Promise!TtyNext
  <2>3. CASE x \notin Patient
    <3>1. Out' = NULL
      BY <2>1, <2>3 DEF Out
    <3> QED BY <1>7, <2>1, <2>3, <3>1 DEF Promise!TtyNext
  <2> QED BY <2>2, <2>3
<1>12. ASSUME NEW t \in Term, switch_displaying_term(t) PROVE Promise!TtyNext
  <2>1. curr_term_id' = t /\ Out' = NULL
    BY <1>5, <1>12 DEF switch_displaying_term
  <2>2. \A u \in Patient : View(u)' = View(u)
    BY <1>12, SwitchKeepsViews DEF Patient
  <2>3. Lines' = Lines /\ Edit' = Edit
    BY <2>2, OneChanges
  <2>4. Shown' \in Patient \cup {NULL}
    BY <2>1 DEF Shown
  <2>5. PICK s \in Patient \cup {NULL} : s = Shown'
    BY <2>4
  <2>6. Promise!Show(s)
    BY <2>1, <2>3, <2>5 DEF Promise!Show, Lines, Edit, Shown, Out
  <2> QED BY <2>6 DEF Promise!TtyNext
<1>13. ASSUME UNCHANGED <<buffer, terms, curr_term_id>>, Out' = NULL
       PROVE  Promise!TtyNext
  <2>1. \A u \in Patient : View(u)' = View(u)
    BY <1>13 DEF View, Saved, buffer
  <2>2. Lines' = Lines /\ Edit' = Edit /\ Shown' = Shown
    BY <1>4, <1>13, <2>1, OneChanges
  <2>3. Promise!Idle
    BY <1>13, <2>2 DEF Promise!Idle, Lines, Edit, Shown, Out
  <2> QED BY <2>3 DEF Promise!TtyNext
<1>14. ASSUME NEW n \in ReadSizes, ReadOverrun(n) PROVE Promise!TtyNext
  BY <1>5, <1>13, <1>14 DEF ReadOverrun
<1>15. ASSUME NEW t \in Term, Schedule(t) PROVE Promise!TtyNext
  BY <1>5, <1>13, <1>15 DEF Schedule
<1>16. CASE UNCHANGED vars
  <2>1. \A u \in Patient : View(u)' = View(u)
    BY <1>16 DEF View, Saved, vars, buffer
  <2>2. Lines' = Lines /\ Edit' = Edit /\ Shown' = Shown /\ Out' = Out
    BY <1>4, <1>16, <2>1, OneChanges DEF vars, Out
  <2> QED BY <2>2 DEF Promise!tty, Lines, Edit, Shown, Out
<1> QED
  BY <1>8, <1>9, <1>10, <1>11, <1>12, <1>14, <1>15, <1>16 DEF Next, Others

\* When programs read whole lines, the keyboard, the display switch, the scheduler
\* and terminal_read keep the promise of Tty to every user who waits for a line to
\* be read, whatever is typed in the other terminals.
THEOREM PromiseKept ==
    ASSUME WholeLines
    PROVE  Spec => KeepsPromise
<1>1. TypeOK /\ LineInv /\ TypeOK' /\ LineInv' /\ [Next]_vars
         => [Promise!TtyNext]_(Promise!tty)
  BY NextRefines
<1> QED
  BY <1>1, InitRefines, LinesHold, PTL DEF Spec, KeepsPromise, Promise!TtySpec

-----------------------------------------------------------------------------
(***************************************************************************)
(* The scan codes: what holds of the line buffer holds when its characters *)
(* come out of the tables and its switches from Alt and a function key.    *)
(***************************************************************************)
\* A table entry is one of the key's two characters.
LEMMA MappingType ==
    ASSUME NEW key \in TypedKeys
    PROVE  Mapping(key) \in Chars
<1>1. key \in { "l", "d", "b" }
  BY KeyboardAssumption DEF no_modifier
<1>2. \A table \in { no_modifier, shift_pressed, caps_pressed, caps_shift_pressed } :
         table[key] \in { "low", "high" }
  BY <1>1 DEF no_modifier, shift_pressed, caps_pressed, caps_shift_pressed
<1>3. Mapping(key) \in { "low", "high" }
  BY <1>2, Zenon DEF Mapping
<1> QED
  BY <1>3, KeyboardAssumption

\* Every step of the keyboard is one of the line buffer, or none.
LEMMA KeyStep == [KNext]_kvars => [Next]_vars
<1> SUFFICES ASSUME [KNext]_kvars PROVE [Next]_vars
  OBVIOUS
<1>1. ASSUME NEW key \in Modifiers, Press(key) \/ Release(key) PROVE UNCHANGED vars
  BY <1>1 DEF Press, Release, Modifier
<1>2. CASE CapsLock \/ ExtendedKey
  BY <1>2 DEF CapsLock, ExtendedKey
<1>3. ASSUME NEW key \in TypedKeys, TypeKey(key) PROVE [Next]_vars
  BY <1>3, MappingType DEF TypeKey, Next
<1>4. ASSUME NEW t \in Term, FunctionKey(t) PROVE Next
  BY <1>4 DEF FunctionKey, Next
<1>5. CASE Others
  BY <1>5 DEF Next
<1>6. CASE UNCHANGED kvars
  BY <1>6 DEF kvars
<1> QED
  BY <1>1, <1>2, <1>3, <1>4, <1>5, <1>6 DEF KNext

\* Driven by scan codes the line buffer does nothing it does not do by itself.
THEOREM KeysDriveBuffer == KSpec => Spec
BY KeyStep, PTL DEF KSpec, KInit, Spec

\* Isolation, the count of the newlines and the promise hold of it.
THEOREM KeysKeepPromise ==
    ASSUME WholeLines
    PROVE  KSpec => Isolation /\ []EntersAreNewlines /\ KeepsPromise
BY KeysDriveBuffer, TerminalsIsolated, EntersCounted, PromiseKept, PTL

-----------------------------------------------------------------------------
(***************************************************************************)
(* The modifier flags.                                                     *)
(***************************************************************************)
FlagInv ==
    /\ SHIFT_LEFT_FLAG \in BOOLEAN /\ SHIFT_RIGHT_FLAG \in BOOLEAN
    /\ CAPS_LOCK_FLAG \in BOOLEAN /\ CTRL_FLAG \in BOOLEAN /\ alt_flag \in BOOLEAN
    /\ FlagsFollowKeys

\* A modifier key that goes down or up, or repeats its code.
LEMMA ModifierStep ==
    ASSUME FlagInv, NEW key \in Modifiers, NEW down \in BOOLEAN, Modifier(key, down),
           held' = IF down THEN held \cup {key} ELSE held \ {key}
    PROVE  FlagInv'
<1>1. \A k : k \in held' <=> IF k = key THEN down ELSE k \in held
  OBVIOUS
<1>2. /\ SHIFT_LEFT_FLAG' = (IF key = "LSHIFT" THEN down ELSE SHIFT_LEFT_FLAG)
      /\ SHIFT_RIGHT_FLAG' = (IF key = "RSHIFT" THEN down ELSE SHIFT_RIGHT_FLAG)
      /\ CTRL_FLAG' = (IF key \in { "LCTRL", "RCTRL" } THEN down ELSE CTRL_FLAG)
      /\ CAPS_LOCK_FLAG' = CAPS_LOCK_FLAG
      /\ extended' = (extended \/ key \in Prefixed)
  BY DEF Modifier, ShiftsAfter
<1>3. alt_flag' = AltAfter(key, down)
  BY DEF Modifier
<1>4. AltAfter(key, down) \in BOOLEAN
  BY Zenon DEF AltAfter, FlagInv
<1>5. ~ extended' => ~ extended /\ key # "RALT" /\ key # "RCTRL"
  BY <1>2, Zenon DEF Prefixed
<1>6. ~ extended' => alt_flag' = IF key = "LALT" THEN down ELSE alt_flag
  BY <1>3, <1>5, Zenon DEF AltAfter
<1>7. (SHIFT_LEFT_FLAG <=> "LSHIFT" \in held)' /\ SHIFT_LEFT_FLAG' \in BOOLEAN
  BY <1>1, <1>2 DEF FlagInv, FlagsFollowKeys
<1>8. (SHIFT_RIGHT_FLAG <=> "RSHIFT" \in held)' /\ SHIFT_RIGHT_FLAG' \in BOOLEAN
  BY <1>1, <1>2 DEF FlagInv, FlagsFollowKeys
<1>9. CTRL_FLAG' \in BOOLEAN
  BY <1>2 DEF FlagInv
<1>10. ASSUME NEW k \in { "LCTRL", "RCTRL" }, Modifiers \cap { "LCTRL", "RCTRL" } = {k}
       PROVE  CTRL_FLAG' <=> k \in held'
  <2>1. CTRL_FLAG <=> k \in held
    BY <1>10 DEF FlagInv, FlagsFollowKeys
  <2>2. key \in { "LCTRL", "RCTRL" } <=> key = k
    BY <1>10
  <2> QED BY <1>1, <1>2, <2>1, <2>2
<1>11. ~ extended' => (alt_flag' <=> "LALT" \in held')
  BY <1>1, <1>5, <1>6 DEF FlagInv, FlagsFollowKeys
<1> QED
  BY <1>2, <1>3, <1>4, <1>7, <1>8, <1>9, <1>10, <1>11 DEF FlagInv, FlagsFollowKeys

\* Every step keeps the flags with the keys.
LEMMA FlagStep == FlagInv /\ [KNext]_kvars => FlagInv'
<1> SUFFICES ASSUME FlagInv, [KNext]_kvars PROVE FlagInv'
  OBVIOUS
<1>1. ASSUME NEW key \in Modifiers, Press(key) PROVE FlagInv'
  BY <1>1, ModifierStep DEF Press
<1>2. ASSUME NEW key \in Modifiers, Release(key) PROVE FlagInv'
  BY <1>2, ModifierStep DEF Release
<1>3. CASE CapsLock
  BY <1>3 DEF CapsLock, FlagInv, FlagsFollowKeys
<1>4. CASE ExtendedKey
  BY <1>4 DEF ExtendedKey, FlagInv, FlagsFollowKeys
<1>5. CASE UNCHANGED keys
  BY <1>5 DEF keys, flags, FlagInv, FlagsFollowKeys
<1>6. ASSUME NEW key \in TypedKeys, TypeKey(key) PROVE UNCHANGED keys
  BY <1>6 DEF TypeKey
<1>7. ASSUME NEW t \in Term, FunctionKey(t) PROVE UNCHANGED keys
  BY <1>7 DEF FunctionKey
<1> QED
  BY <1>1, <1>2, <1>3, <1>4, <1>5, <1>6, <1>7 DEF KNext, kvars

\* No key is down and no flag set at the start, and they stay together.
LEMMA FlagsHold == KSpec => []FlagInv
<1>1. KInit => FlagInv
  BY DEF KInit, FlagInv, FlagsFollowKeys
<1> QED
  BY <1>1, FlagStep, PTL DEF KSpec

\* keyboard_handler's flags are the state of the keys, in whatever order they are
\* pressed, repeated and released.
THEOREM FlagsAreKeys == KSpec => []FlagsFollowKeys
<1>1. FlagInv => FlagsFollowKeys
  BY DEF FlagInv
<1> QED
  BY <1>1, FlagsHold, PTL

\* For the letters, digits and signs the table chosen by the flags has the
\* character the held keys call for.
LEMMA MappingAsHeld ==
    ASSUME FlagInv, NEW key \in TypedKeys \ {"b"}
    PROVE  Mapping(key) = Wanted(key)
<1> DEFINE shift == SHIFT_LEFT_FLAG \/ SHIFT_RIGHT_FLAG
<1>1. key \in { "l", "d" }
  BY KeyboardAssumption DEF no_modifier
<1>2. held \cap { "LSHIFT", "RSHIFT" } # {} <=> shift
  BY DEF FlagInv, FlagsFollowKeys
<1>3. CAPS_LOCK_FLAG \in BOOLEAN /\ shift \in BOOLEAN
  BY DEF FlagInv
<1>4. Mapping(key) = IF CAPS_LOCK_FLAG
                     THEN IF shift THEN caps_shift_pressed[key] ELSE caps_pressed[key]
                     ELSE IF shift THEN shift_pressed[key] ELSE no_modifier[key]
  BY <1>3, Zenon DEF Mapping
<1>5. Wanted(key) = IF (IF key = "l" THEN shift # CAPS_LOCK_FLAG ELSE shift)
                    THEN shift_pressed[key] ELSE no_modifier[key]
  BY <1>2, <1>3 DEF Wanted
<1> HIDE DEF shift
<1>6. /\ caps_shift_pressed["l"] = no_modifier["l"] /\ caps_pressed["l"] = shift_pressed["l"]
      /\ caps_shift_pressed["d"] = shift_pressed["d"] /\ caps_pressed["d"] = no_modifier["d"]
  BY DEF no_modifier, shift_pressed, caps_pressed, caps_shift_pressed
<1>7. CASE key = "l"
  BY <1>3, <1>4, <1>5, <1>6, <1>7
<1>8. CASE key = "d"
  BY <1>3, <1>4, <1>5, <1>6, <1>8
<1> QED
  BY <1>1, <1>7, <1>8

\* A key puts the character its label and the held keys promise into the line of
\* the displayed terminal (set_buffer), and disturbs no other terminal.
THEOREM TypesAsHeld == KSpec => TypedAsHeld
<1> DEFINE A == \A key \in TypedKeys \ {"b"} : TypeKey(key) /\ vars' # vars =>
                  /\ View(curr_term_id)'.buff_save[buff_index] = Wanted(key)
                  /\ \A t \in Term \ {curr_term_id} : View(t)' = View(t)
<1>1. ASSUME TypeOK, TypeOK', FlagInv, [KNext]_kvars PROVE [A]_kvars
  <2> SUFFICES ASSUME NEW key \in TypedKeys \ {"b"}, TypeKey(key), vars' # vars
               PROVE  /\ View(curr_term_id)'.buff_save[buff_index] = Wanted(key)
                      /\ \A t \in Term \ {curr_term_id} : View(t)' = View(t)
    OBVIOUS
  <2>1. set_buffer(Mapping(key))
    BY DEF TypeKey
  <2>2. /\ curr_term_id' = curr_term_id /\ buff_index \in Index
        /\ key_buff' = [key_buff EXCEPT ![buff_index] = Mapping(key)]
    BY <1>1, <2>1, LineBufferAssumption
    DEF set_buffer, RoomForChar, Key, TypeOK, WriteIndex, Index
  <2>3. View(curr_term_id)'.buff_save = key_buff'
    BY DEF View, Saved
  <2>4. View(curr_term_id)'.buff_save[buff_index] = Wanted(key)
    BY <1>1, <2>2, <2>3, MappingAsHeld DEF TypeOK
  <2>5. \A t \in Term \ {curr_term_id} : View(t)' = View(t)
    BY <1>1, KeyStep, OnlyDisplayed
  <2> QED BY <2>4, <2>5
<1>2. KSpec => []TypeOK
  BY KeysDriveBuffer, TypeCorrect, PTL
<1>3. TypeOK /\ TypeOK' /\ FlagInv /\ [KNext]_kvars => [A]_kvars
  BY <1>1
<1> QED
  BY <1>2, <1>3, FlagsHold, PTL DEF KSpec, TypedAsHeld
=============================================================================
