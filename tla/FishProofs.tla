----------------------------- MODULE FishProofs -----------------------------
(***************************************************************************)
(* Proofs about the real-time clock, the blinking characters and fish.     *)
(***************************************************************************)
EXTENDS Fish, WellFoundedInduction, SequenceTheorems, FiniteSetTheorems, TLAPS

\* Programs write frequencies that set_frequency has in one of its two lists.
ListedOnly == Frequencies \subseteq Listed \cup TooFast

\* A step of the clock: the handler, a read, a tick of the timer, or a write by
\* fish or another program.
ClockStep ==
    \/ rtc_handler \/ rtc_read \/ Schedule
    \/ \E f \in Frequencies \cup {FISH_FREQ} : rtc_write(f)

-----------------------------------------------------------------------------
\* Every step of fish, of the other programs and of the machine is a step of the
\* clock or leaves it alone.
LEMMA StepOfClock == [FNext]_allVars => [ClockStep]_vars
<1> SUFFICES ASSUME [FNext]_allVars PROVE [ClockStep]_vars
  OBVIOUS
<1>1. CASE main
  BY <1>1 DEF main, add_frames, SetRate, Read, Tick, AddIM, SyncIM, RemoveIM, Return,
              NextLoop, ClockStep, rtc_read
<1>2. CASE InRead
  BY <1>2 DEF InRead, ClockStep, rtc_read
<1>3. CASE OtherPrograms
  BY <1>3 DEF OtherPrograms, ClockStep, rtc_read
<1>4. CASE Machine
  BY <1>4 DEF Machine, ClockStep
<1>5. CASE UNCHANGED allVars
  BY <1>5 DEF allVars
<1> QED BY <1>1, <1>2, <1>3, <1>4, <1>5 DEF FNext

\* The table of set_frequency agrees with the equation in its comment: every
\* accepted frequency gets the rate at which the device runs at it.
LEMMA TableExact ==
    \A f \in Listed : RateOf[f] \in 6 .. 15 /\ Hertz(RateOf[f]) = f /\ f <= 1024
BY SMTT(30) DEF Listed, RateOf, Hertz

\* The clock keeps its types.
LEMMA ClockType == TypeOK /\ [ClockStep]_vars => TypeOK'
<1> SUFFICES ASSUME TypeOK, [ClockStep]_vars PROVE TypeOK'
  OBVIOUS
<1> USE RtcAssumption DEF TypeOK
<1>1. CASE rtc_handler
  BY <1>1 DEF rtc_handler, ReadsC
<1>2. CASE rtc_read
  BY <1>2 DEF rtc_read, ReadCall, ReadSees, ReadClears, ClearFlag
<1>3. CASE Schedule
  BY <1>3 DEF Schedule, NextTerm, Term
<1>4. ASSUME NEW f \in Frequencies \cup {FISH_FREQ}, rtc_write(f) PROVE TypeOK'
  <2>1. f \in Int
    BY FishAssumption DEF RateOf, Listed
  <2>2. Rates(f) \subseteq 0 .. 15
    BY TableExact DEF Rates
  <2> QED BY <1>4, <2>1, <2>2 DEF rtc_write
<1>5. CASE UNCHANGED vars
  BY <1>5 DEF vars
<1> QED BY <1>1, <1>2, <1>3, <1>4, <1>5 DEF ClockStep

\* A flag, and a read past its loop, stand for an interrupt no earlier read of
\* the terminal has returned for.
FlagsFresh == \A t \in Term : flags[t] \/ pc[t] = "clear" => fresh[t]

\* Handler, reads, ticks and writes keep it.
LEMMA FreshStep == TypeOK /\ FlagsFresh /\ [ClockStep]_vars => FlagsFresh'
<1> SUFFICES ASSUME TypeOK, FlagsFresh, [ClockStep]_vars PROVE FlagsFresh'
  OBVIOUS
<1> USE DEF TypeOK, FlagsFresh
<1>1. CASE rtc_handler
  BY <1>1 DEF rtc_handler
<1>2. CASE ReadCall
  BY <1>2 DEF ReadCall
<1>3. CASE ReadSees
  BY <1>3 DEF ReadSees
<1>4. CASE ReadClears
  BY <1>4 DEF ReadClears, ClearFlag
<1>5. CASE Schedule \/ \E f \in Frequencies \cup {FISH_FREQ} : rtc_write(f)
  BY <1>5 DEF Schedule, rtc_write
<1>6. CASE UNCHANGED vars
  BY <1>6 DEF vars
<1> QED BY <1>1, <1>2, <1>3, <1>4, <1>5, <1>6 DEF ClockStep, rtc_read

\* Initially no flag is set, and the device runs at DEFAULT_FREQ.
LEMMA ClockInit == Init => TypeOK /\ FlagsFresh /\ RunsAsAsked
<1>1. 2 \in Listed /\ RateOf[2] \in 0 .. 15 /\ Hertz(RateOf[2]) = 2
  BY TableExact DEF Listed
<1>2. Init => TypeOK
  BY <1>1, RtcAssumption DEF Init, TypeOK, Term, DEFAULT_FREQ
<1>3. Init => FlagsFresh
  BY DEF Init, FlagsFresh
<1> QED BY <1>1, <1>2, <1>3, TableExact DEF Init, RunsAsAsked, DEFAULT_FREQ

-----------------------------------------------------------------------------
\* However handler, readers and scheduler interleave, and whatever frequencies
\* are written, no two reads of a terminal return for one interrupt.
THEOREM ReadsPaced == FSpec => PacedByInterrupts
<1> DEFINE A == \A t \in Term : pc[t] = "clear" /\ pc'[t] = "user" => fresh[t]
<1>1. FInit => TypeOK /\ FlagsFresh
  BY ClockInit DEF FInit
<1>2. TypeOK /\ FlagsFresh /\ [FNext]_allVars => TypeOK' /\ FlagsFresh'
  BY StepOfClock, ClockType, FreshStep
<1>3. FlagsFresh /\ [FNext]_allVars => [A]_vars
  BY DEF FlagsFresh
<1> QED BY <1>1, <1>2, <1>3, PTL DEF FSpec, PacedByInterrupts

\* As long as programs write listed frequencies, the device always runs at the
\* last one that was accepted.
THEOREM DeviceAsAsked ==
    ASSUME ListedOnly
    PROVE  FSpec => []RunsAsAsked
<1>1. FInit => RunsAsAsked
  BY ClockInit DEF FInit
<1>2. RunsAsAsked /\ [FNext]_allVars => RunsAsAsked'
  <2> SUFFICES ASSUME RunsAsAsked, [ClockStep]_vars PROVE RunsAsAsked'
    BY StepOfClock
  <2>1. TypeOK /\ TypeOK'
    BY ClockType DEF RunsAsAsked
  <2>2. ASSUME NEW f \in Frequencies \cup {FISH_FREQ}, rtc_write(f)
        PROVE  Hertz(rate') = asked' /\ asked' <= 1024
    <3>1. CASE f \in TooFast
      BY <2>2, <3>1 DEF rtc_write, RunsAsAsked
    <3>2. CASE f \notin TooFast
      <4>1. f \in Listed
        BY <3>2, ListedOnly, FishAssumption DEF ListedOnly
      <4>2. rate' = RateOf[f] /\ asked' = f
        BY <2>2, <3>2, <4>1 DEF rtc_write, Rates, RateOf
      <4> QED BY <4>1, <4>2, TableExact
    <3> QED BY <3>1, <3>2
  <2>3. CASE UNCHANGED <<rate, asked>>
    BY <2>1, <2>3 DEF RunsAsAsked, Hertz
  <2>4. CASE \E f \in Frequencies \cup {FISH_FREQ} : rtc_write(f)
    <3>1. Hertz(rate') = asked' /\ asked' <= 1024
      BY <2>2, <2>4
    <3> QED BY <2>1, <3>1, TableExact DEF RunsAsAsked, Hertz
  <2> QED BY <2>3, <2>4 DEF ClockStep, rtc_handler, rtc_read, ReadCall, ReadSees, ReadClears,
                            Schedule, vars
<1> QED BY <1>1, <1>2, PTL DEF FSpec

-----------------------------------------------------------------------------
(***************************************************************************)
(* Numbers.                                                                *)
(***************************************************************************)
\* A set of numbers has a least element, which Min chooses.
LEMMA MinIs ==
    ASSUME NEW S \in SUBSET Nat, S # {}
    PROVE  Min(S) \in S /\ \A y \in S : Min(S) <= y
<1> DEFINE R == OpToRel(<, Nat)
<1>1. IsWellFoundedOn(R, Nat)
  BY NatLessThanWellFounded
<1>2. \A x, y \in Nat : x < y => <<x, y>> \in R
  BY DEF OpToRel
<1> HIDE DEF R
<1>3. PICK m \in S : \A y \in S : ~ (<<y, m>> \in R)
  BY <1>1, WFMin
<1>4. \A y \in S : m <= y
  <2> SUFFICES ASSUME NEW y \in S PROVE ~ (y < m)
    OBVIOUS
  <2> QED BY <1>2, <1>3
<1> QED BY <1>3, <1>4 DEF Min

\* Induction up to N, for a set of numbers.
LEMMA UpTo ==
    ASSUME NEW N \in Nat, NEW S, 0 \in S, \A n \in 1 .. N : n - 1 \in S => n \in S
    PROVE  \A n \in 0 .. N : n \in S
<1> DEFINE T == { n \in 0 .. N : n \notin S }
<1> SUFFICES ASSUME T # {} PROVE FALSE
  OBVIOUS
<1>1. PICK m \in T : \A y \in T : m <= y
  <2>1. T \in SUBSET Nat
    OBVIOUS
  <2> HIDE DEF T
  <2> QED BY <2>1, MinIs
<1>2. m \in 1 .. N /\ m - 1 \in 0 .. N /\ ~ (m <= m - 1)
  OBVIOUS
<1> QED BY <1>1, <1>2

\* The numbers of n places, from 1 or from 0 on.
LEMMA Counted ==
    ASSUME NEW n \in Nat
    PROVE  Cardinality(1 .. n) = n /\ Cardinality(0 .. n - 1) = n
<1>1. n \in Int /\ n - 1 \in Int /\ 1 \in Int /\ 0 \in Int
  OBVIOUS
<1>2. Cardinality(1 .. n) = IF 1 > n THEN 0 ELSE n - 1 + 1
  BY <1>1, FS_Interval, Zenon
<1>3. Cardinality(0 .. n - 1) = IF 0 > n - 1 THEN 0 ELSE n - 1 - 0 + 1
  BY <1>1, FS_Interval, Zenon
<1> QED BY <1>2, <1>3

-----------------------------------------------------------------------------
(***************************************************************************)
(* The list of blink.S.                                                    *)
(***************************************************************************)
\* s are the cells of the list from the head h on, each once.
Linked(s, a, h) ==
    /\ s \in Seq(Cell)
    /\ \A j, k \in 1 .. Len(s) : s[j] = s[k] => j = k
    /\ h = IF Len(s) = 0 THEN NIL ELSE s[1]
    /\ \A k \in 1 .. Len(s) : a[s[k]].next = IF k < Len(s) THEN s[k + 1] ELSE NIL

\* There are no more places in a list than cells.
LEMMA ListFits ==
    ASSUME NEW s \in Seq(Cell), \A j, k \in 1 .. Len(s) : s[j] = s[k] => j = k
    PROVE  Len(s) <= CELLS
<1> USE BlinkAssumption
<1>1. Len(s) \in Nat /\ s \in [1 .. Len(s) -> Cell]
  BY LenProperties
<1>2. s \in Injection(1 .. Len(s), Cell)
  BY <1>1 DEF Injection, IsInjective
<1>3. IsFiniteSet(Cell) /\ Cardinality(Cell) = CELLS
  BY FS_Interval DEF Cell
<1>4. Cardinality(1 .. Len(s)) = Len(s)
  BY <1>1, Counted
<1> QED BY <1>2, <1>3, <1>4, FS_Injection

\* Following the pointers from the head gives exactly the linked cells, and ends.
LEMMA ChainIs ==
    ASSUME NEW s, NEW a, NEW h, Linked(s, a, h)
    PROVE  Cells(a, h) = s /\ Node(a, h)[CELLS] = NIL /\ Len(s) <= CELLS
<1> USE BlinkAssumption
<1>1. /\ s \in Seq(Cell) /\ Len(s) \in Nat /\ s \in [1 .. Len(s) -> Cell]
      /\ Len(s) <= CELLS
  BY ListFits, LenProperties DEF Linked
<1> DEFINE next == [c \in Cell \cup {NIL} |-> IF c = NIL THEN NIL ELSE a[c].next]
           F == [k \in 0 .. CELLS |-> IF k < Len(s) THEN s[k + 1] ELSE NIL]
           Follows(f) == f = [k \in 0 .. CELLS |-> IF k = 0 THEN h ELSE next[f[k - 1]]]
           after == CHOOSE f : Follows(f)
<1>2. NIL \notin Cell /\ \A k \in 1 .. Len(s) : s[k] \in Cell /\ s[k] # NIL
  BY <1>1 DEF Cell, NIL
<1>3. F[0] = h
  BY <1>1 DEF Linked
<1>4. ASSUME NEW k \in 1 .. CELLS PROVE F[k] = next[F[k - 1]]
  <2>1. CASE k - 1 < Len(s)
    <3>1. F[k - 1] = s[k] /\ k \in 1 .. Len(s)
      BY <1>1, <2>1
    <3>2. next[s[k]] = a[s[k]].next
      BY <1>2, <3>1
    <3> QED BY <3>1, <3>2 DEF Linked
  <2>2. CASE ~ (k - 1 < Len(s))
    BY <1>1, <2>2
  <2> QED BY <2>1, <2>2
<1> HIDE DEF next
<1>5. Follows(F)
  <2>1. \A k \in 0 .. CELLS : k # 0 => k \in 1 .. CELLS
    OBVIOUS
  <2> HIDE DEF F
  <2>2. \A k \in 0 .. CELLS : F[k] = IF k = 0 THEN h ELSE next[F[k - 1]]
    BY <1>3, <1>4, <2>1
  <2>3. F = [k \in 0 .. CELLS |-> F[k]]
    BY DEF F
  <2> QED BY <2>2, <2>3
<1> HIDE DEF F
<1>6. Follows(after)
  <2> HIDE DEF Follows
  <2> QED BY <1>5
<1> HIDE DEF after
<1>7. after[0] = h /\ \A k \in 1 .. CELLS : after[k] = next[after[k - 1]]
  BY <1>6
<1>8. \A k \in 0 .. CELLS : after[k] = F[k]
  <2> DEFINE S == { k \in 0 .. CELLS : after[k] = F[k] }
  <2>1. 0 \in S
    BY <1>3, <1>7
  <2>2. \A k \in 1 .. CELLS : k - 1 \in S => k \in S
    BY <1>4, <1>7
  <2> HIDE DEF S
  <2>3. \A k \in 0 .. CELLS : k \in S
    BY <2>1, <2>2, UpTo
  <2> QED BY <2>3 DEF S
<1>9. Node(a, h) = F
  <2>1. Node(a, h) = [k \in 0 .. CELLS |-> after[k]]
    BY DEF Node, after, next
  <2> QED BY <1>8, <2>1 DEF F
<1>10. { n \in 0 .. CELLS : F[n] # NIL } = 0 .. Len(s) - 1
  BY <1>1, <1>2 DEF F
<1>11. Cardinality(0 .. Len(s) - 1) = Len(s)
  BY <1>1, Counted
<1>12. Cells(a, h) = [k \in 1 .. Len(s) |-> F[k - 1]]
  BY <1>9, <1>10, <1>11 DEF Cells
<1>13. \A k \in 1 .. Len(s) : F[k - 1] = s[k]
  BY <1>1 DEF F
<1> QED BY <1>1, <1>9, <1>12, <1>13 DEF F

\* s are the cells of the list, and these are the cells in use.
Holds(s, a, h) ==
    /\ Linked(s, a, h)
    /\ { s[k] : k \in 1 .. Len(s) } = { c \in Cell : a[c].location # 0 }

Lengths == { FRAME_LENGTH, IM_ON, IM_OFF }

Struct == [location : Nat, on_length : Nat, off_length : Nat, countdown : Nat,
           status : BOOLEAN, next : Cell \cup {NIL}]

\* Cells in use are what fish makes of them.
BlinkType ==
    /\ blink_array \in [Cell -> Struct]
    /\ mp1_list_head \in Cell \cup {NIL}
    /\ screen \in [Locations -> { "blank", "on", "off" }]
    /\ \A c \in Cell : blink_array[c].location # 0 =>
          /\ blink_array[c].location \in Locations
          /\ blink_array[c].on_length \in Lengths
          /\ blink_array[c].off_length \in Lengths

ListInv == BlinkType /\ Holds(Chain, blink_array, mp1_list_head)

\* The calls fish makes.
BlinkStep ==
    \/ \E l \in Locations, on, off \in Lengths : mp1_ioctl_add(l, on, off)
    \/ \E l \in Locations : mp1_ioctl_remove(l)
    \/ \E l, m \in Locations : mp1_ioctl_sync(l, m)
    \/ mp1_rtc_tasklet

\* The chain as a sequence.
LEMMA ChainSeq ==
    ASSUME ListInv
    PROVE  /\ Chain \in Seq(Cell) /\ Len(Chain) \in Nat /\ DOMAIN Chain = 1 .. Len(Chain)
           /\ \A k \in 1 .. Len(Chain) :
                 Chain[k] \in Cell /\ blink_array[Chain[k]].location \in Locations
           /\ \A j, k \in 1 .. Len(Chain) : Chain[j] = Chain[k] => j = k
           /\ \A c \in Cell : blink_array[c].location # 0 =>
                 \E k \in 1 .. Len(Chain) : c = Chain[k]
           /\ Range(Chain) = { c \in Cell : blink_array[c].location # 0 }
<1>1. Chain \in Seq(Cell)
  BY DEF ListInv, Holds, Linked
<1>2. /\ Len(Chain) \in Nat /\ DOMAIN Chain = 1 .. Len(Chain)
      /\ \A k \in 1 .. Len(Chain) : Chain[k] \in Cell
  BY <1>1, LenProperties
<1>3. { Chain[k] : k \in 1 .. Len(Chain) } = { c \in Cell : blink_array[c].location # 0 }
  BY DEF ListInv, Holds
<1>4. \A j, k \in 1 .. Len(Chain) : Chain[j] = Chain[k] => j = k
  BY DEF ListInv, Holds, Linked
<1>5. Range(Chain) = { Chain[k] : k \in 1 .. Len(Chain) }
  BY <1>2 DEF Range
<1>6. \A k \in 1 .. Len(Chain) : blink_array[Chain[k]].location # 0
  BY <1>2, <1>3
<1>7. \A c \in Cell : blink_array[c].location # 0 => \E k \in 1 .. Len(Chain) : c = Chain[k]
  BY <1>3
<1> QED BY <1>1, <1>2, <1>3, <1>4, <1>5, <1>6, <1>7 DEF ListInv, BlinkType

\* mp1_malloc finds a cell that is not on the list.
LEMMA MallocIs ==
    ASSUME ListInv, mp1_malloc # NIL
    PROVE  /\ mp1_malloc \in Cell /\ blink_array[mp1_malloc].location = 0
           /\ \A k \in 1 .. Len(Chain) : Chain[k] # mp1_malloc
<1> DEFINE free == { c \in Cell : blink_array[c].location = 0 }
<1>1. free # {} /\ mp1_malloc = Min(free)
  BY DEF mp1_malloc
<1>2. free \in SUBSET Nat
  BY DEF Cell
<1>3. mp1_malloc \in free
  BY <1>1, <1>2, MinIs
<1>4. \A k \in 1 .. Len(Chain) : blink_array[Chain[k]].location # 0
  BY ChainSeq, BlinkAssumption
<1> QED BY <1>3, <1>4

\* The places of the list with a blink at l, and the first of them.
Places(l) == { k \in DOMAIN Chain : blink_array[Chain[k]].location = l }

\* mp1_find_helper finds the first cell of the list at a location.
LEMMA FindIs ==
    ASSUME ListInv, NEW l \in Locations
    PROVE  /\ mp1_find_helper(l) = NIL <=> Places(l) = {}
           /\ Places(l) # {} =>
                 /\ Min(Places(l)) \in 1 .. Len(Chain)
                 /\ mp1_find_helper(l) = Chain[Min(Places(l))]
                 /\ blink_array[Chain[Min(Places(l))]].location = l
<1>1. Places(l) \in SUBSET Nat /\ Places(l) \subseteq 1 .. Len(Chain)
  BY ChainSeq DEF Places
<1>2. Places(l) # {} => Min(Places(l)) \in Places(l)
  BY <1>1, MinIs
<1>3. mp1_find_helper(l) = IF Places(l) = {} THEN NIL ELSE Chain[Min(Places(l))]
  BY DEF mp1_find_helper, Places
<1>4. Places(l) # {} => Chain[Min(Places(l))] # NIL
  BY <1>1, <1>2, ChainSeq DEF Cell, NIL
<1> QED BY <1>1, <1>2, <1>3, <1>4 DEF Places

\* A sequence without its place k.
Without(s, k) == SubSeq(s, 1, k - 1) \o SubSeq(s, k + 1, Len(s))

LEMMA Removed ==
    ASSUME NEW T, NEW s \in Seq(T), NEW k \in 1 .. Len(s)
    PROVE  /\ Without(s, k) \in Seq(T) /\ Len(Without(s, k)) = Len(s) - 1
           /\ \A j \in 1 .. Len(s) - 1 :
                 Without(s, k)[j] = IF j < k THEN s[j] ELSE s[j + 1]
<1> DEFINE u == SubSeq(s, 1, k - 1)
           v == SubSeq(s, k + 1, Len(s))
<1>0. Len(s) \in Nat /\ \A j \in 1 .. Len(s) : s[j] \in T
  BY LenProperties, ElementOfSeq
<1>1. u \in Seq(T) /\ Len(u) = k - 1 /\ \A j \in 1 .. k - 1 : u[j] = s[j]
  BY <1>0, SubSeqProperties
<1>2. /\ v \in Seq(T) /\ Len(v) = Len(s) - k
      /\ \A j \in 1 .. Len(s) - k : v[j] = s[k + j]
  BY <1>0, SubSeqProperties
<1> HIDE DEF u, v
<1>3. /\ u \o v \in Seq(T) /\ Len(u \o v) = Len(u) + Len(v)
      /\ \A j \in 1 .. Len(u) + Len(v) : (u \o v)[j] = IF j <= Len(u) THEN u[j] ELSE v[j - Len(u)]
  BY <1>1, <1>2, ConcatProperties
<1>4. Without(s, k) = u \o v
  BY DEF Without, u, v
<1>5. ASSUME NEW j \in 1 .. Len(s) - 1
      PROVE  (u \o v)[j] = IF j < k THEN s[j] ELSE s[j + 1]
  <2>1. CASE j < k
    BY <1>0, <1>1, <1>2, <1>3, <2>1
  <2>2. CASE ~ (j < k)
    <3>1. (u \o v)[j] = v[j - (k - 1)] /\ j - (k - 1) \in 1 .. Len(s) - k
      BY <1>0, <1>1, <1>2, <1>3, <2>2
    <3>2. k + (j - (k - 1)) = j + 1
      BY <1>0
    <3> QED BY <1>2, <2>2, <3>1, <3>2
  <2> QED BY <2>1, <2>2
<1>6. Len(u \o v) = Len(s) - 1
  BY <1>0, <1>1, <1>2, <1>3
<1>7. \A j \in 1 .. Len(s) - 1 : (u \o v)[j] = IF j < k THEN s[j] ELSE s[j + 1]
  BY <1>5
<1> HIDE DEF u, v
<1> QED BY <1>3, <1>4, <1>6, <1>7

\* The list without one of its cells.
LEMMA ChainWithout ==
    ASSUME ListInv, NEW n \in 1 .. Len(Chain)
    PROVE  /\ Without(Chain, n) \in Seq(Cell) /\ Len(Without(Chain, n)) = Len(Chain) - 1
           /\ \A j \in 1 .. Len(Chain) - 1 :
                 Without(Chain, n)[j] = IF j < n THEN Chain[j] ELSE Chain[j + 1]
<1>1. PICK s : s = Chain
  OBVIOUS
<1>2. s \in Seq(Cell) /\ n \in 1 .. Len(s)
  BY <1>1, ChainSeq
<1>3. /\ Without(s, n) \in Seq(Cell) /\ Len(Without(s, n)) = Len(s) - 1
      /\ \A j \in 1 .. Len(s) - 1 : Without(s, n)[j] = IF j < n THEN s[j] ELSE s[j + 1]
  BY <1>2, Removed
<1> QED BY <1>1, <1>3, Zenon

-----------------------------------------------------------------------------
(***************************************************************************)
(* What each call does to the list.                                        *)
(***************************************************************************)
\* A list the new array and head hold is the new chain.
LEMMA NewChain ==
    ASSUME NEW s, Holds(s, blink_array', mp1_list_head')
    PROVE  Chain' = s
BY ChainIs DEF Holds, Chain

\* The constants of the calls.
LEMMA LengthsPositive == Lengths \subseteq Nat \ {0} /\ 0 \notin Locations /\ Locations \subseteq Nat
BY FishAssumption, BlinkAssumption DEF Lengths

\* mp1_ioctl_add, with a cell left, puts the cell in front of the list.
LEMMA AddLinks ==
    ASSUME ListInv, NEW l \in Locations, NEW on \in Lengths, NEW off \in Lengths,
           NEW c, c = mp1_malloc, c # NIL, mp1_ioctl_add(l, on, off)
    PROVE  /\ BlinkType' /\ Holds(<<c>> \o Chain, blink_array', mp1_list_head')
           /\ Chain' = <<c>> \o Chain
<1> DEFINE new == [location |-> l, on_length |-> on, off_length |-> off,
                   countdown |-> on, status |-> TRUE, next |-> mp1_list_head]
           s == <<c>> \o Chain
<1>1. /\ c \in Cell /\ blink_array[c].location = 0
      /\ \A k \in 1 .. Len(Chain) : Chain[k] # c
  BY MallocIs
<1>2. /\ blink_array' = [blink_array EXCEPT ![c] = new]
      /\ mp1_list_head' = c
      /\ screen' = [screen EXCEPT ![l] = "on"]
  BY DEF mp1_ioctl_add, mp1_poke
<1>3. /\ new \in Struct /\ new.location = l /\ new.next = mp1_list_head
      /\ new.on_length = on /\ new.off_length = off
  BY LengthsPositive DEF Struct, ListInv, BlinkType
<1> HIDE DEF new
<1>4. \A d \in Cell : blink_array'[d] = IF d = c THEN new ELSE blink_array[d]
  BY <1>2 DEF ListInv, BlinkType
<1>5. BlinkType'
  <2>1. blink_array' \in [Cell -> Struct]
    BY <1>2, <1>3 DEF ListInv, BlinkType
  <2>2. screen' \in [Locations -> { "blank", "on", "off" }]
    BY <1>2 DEF ListInv, BlinkType
  <2>3. ASSUME NEW d \in Cell, blink_array'[d].location # 0
        PROVE  /\ blink_array'[d].location \in Locations
               /\ blink_array'[d].on_length \in Lengths
               /\ blink_array'[d].off_length \in Lengths
    BY <1>3, <1>4, <2>3 DEF ListInv, BlinkType
  <2> QED BY <1>1, <1>2, <2>1, <2>2, <2>3 DEF BlinkType
<1>6. /\ s \in Seq(Cell) /\ Len(s) = Len(Chain) + 1 /\ s[1] = c
      /\ \A k \in 1 .. Len(Chain) : s[k + 1] = Chain[k]
  <2>1. <<c>> \in Seq(Cell) /\ Len(<<c>>) = 1 /\ <<c>>[1] = c
    BY <1>1
  <2>2. /\ s \in Seq(Cell) /\ Len(s) = 1 + Len(Chain)
        /\ \A k \in 1 .. 1 + Len(Chain) : s[k] = IF k <= 1 THEN <<c>>[k] ELSE Chain[k - 1]
    BY <2>1, ChainSeq, ConcatProperties
  <2> HIDE DEF s
  <2>3. \A k \in 1 .. Len(Chain) : s[k + 1] = Chain[k]
    BY <2>2, ChainSeq
  <2> QED BY <2>1, <2>2, <2>3, ChainSeq
<1> HIDE DEF s
<1>7. \A k \in 1 .. Len(s) : k = 1 \/ (k - 1 \in 1 .. Len(Chain) /\ s[k] = Chain[k - 1])
  <2> SUFFICES ASSUME NEW k \in 1 .. Len(s), k # 1
               PROVE  k - 1 \in 1 .. Len(Chain) /\ s[k] = Chain[k - 1]
    OBVIOUS
  <2>1. k - 1 \in 1 .. Len(Chain) /\ (k - 1) + 1 = k
    BY <1>6, ChainSeq
  <2> QED BY <1>6, <2>1
<1>8. Holds(s, blink_array', mp1_list_head')
  <2>1. ASSUME NEW j \in 1 .. Len(s), NEW k \in 1 .. Len(s), s[j] = s[k] PROVE j = k
    <3>1. CASE j = 1 /\ k # 1
      <4>1. k - 1 \in 1 .. Len(Chain) /\ s[k] = Chain[k - 1] /\ s[j] = c
        BY <1>6, <1>7, <3>1
      <4> QED BY <1>1, <2>1, <4>1
    <3>2. CASE j # 1 /\ k = 1
      BY <1>1, <1>6, <1>7, <2>1, <3>2
    <3>3. CASE j # 1 /\ k # 1
      <4>1. j - 1 = k - 1
        BY <1>7, <2>1, <3>3, ChainSeq
      <4> QED BY <4>1
    <3> QED BY <3>1, <3>2, <3>3
  <2>2. ASSUME NEW k \in 1 .. Len(s)
        PROVE  blink_array'[s[k]].next = IF k < Len(s) THEN s[k + 1] ELSE NIL
    <3>0. /\ mp1_list_head = IF Len(Chain) = 0 THEN NIL ELSE Chain[1]
          /\ \A j \in 1 .. Len(Chain) : blink_array[Chain[j]].next =
                IF j < Len(Chain) THEN Chain[j + 1] ELSE NIL
      BY DEF ListInv, Holds, Linked
    <3>1. CASE k = 1
      <4>1. blink_array'[s[k]].next = mp1_list_head
        BY <1>1, <1>3, <1>4, <1>6, <3>1
      <4>2. Len(Chain) # 0 => 1 \in 1 .. Len(Chain)
        BY ChainSeq
      <4> QED BY <1>6, <3>0, <3>1, <4>1, <4>2, ChainSeq
    <3>2. CASE k # 1
      <4>1. k - 1 \in 1 .. Len(Chain) /\ s[k] = Chain[k - 1]
        BY <1>7, <3>2
      <4>2. blink_array'[s[k]] = blink_array[Chain[k - 1]]
        BY <1>1, <1>4, <4>1, ChainSeq
      <4>3. k - 1 < Len(Chain) => (k - 1) + 1 = k /\ k \in 1 .. Len(Chain) /\ s[k + 1] = Chain[k]
        BY <1>6, <4>1, ChainSeq
      <4>4. k - 1 < Len(Chain) <=> k < Len(s)
        BY <1>6, ChainSeq
      <4> QED BY <3>0, <4>1, <4>2, <4>3, <4>4
    <3> QED BY <3>1, <3>2
  <2>3. Linked(s, blink_array', mp1_list_head')
    <3>1. Len(s) # 0
      BY <1>6, ChainSeq
    <3> QED BY <1>2, <1>6, <2>1, <2>2, <3>1 DEF Linked
  <2>4. ASSUME NEW d \in Cell
        PROVE  blink_array'[d].location # 0 <=> \E k \in 1 .. Len(s) : d = s[k]
    <3>1. CASE d = c
      <4>1. 1 \in 1 .. Len(s) /\ l # 0
        BY <1>6, ChainSeq, LengthsPositive
      <4> QED BY <1>3, <1>4, <1>6, <3>1, <4>1
    <3>2. CASE d # c
      <4>1. blink_array'[d] = blink_array[d]
        BY <1>4, <3>2
      <4>2. ASSUME blink_array[d].location # 0 PROVE \E k \in 1 .. Len(s) : d = s[k]
        <5>1. PICK k \in 1 .. Len(Chain) : d = Chain[k]
          BY <4>2, ChainSeq
        <5>2. k + 1 \in 1 .. Len(s) /\ s[k + 1] = d
          BY <1>6, <5>1, ChainSeq
        <5> QED BY <5>2
      <4>3. ASSUME NEW k \in 1 .. Len(s), d = s[k] PROVE blink_array[d].location # 0
        <5>1. k # 1
          BY <1>6, <3>2, <4>3
        <5> QED BY <1>7, <4>3, <5>1, ChainSeq, LengthsPositive
      <4> QED BY <4>1, <4>2, <4>3
    <3> QED BY <3>1, <3>2
  <2>5. \A k \in 1 .. Len(s) : s[k] \in Cell
    BY <1>6, ElementOfSeq
  <2> QED BY <2>3, <2>4, <2>5 DEF Holds
<1> QED BY <1>5, <1>8, NewChain DEF s

\* mp1_ioctl_remove takes the first blink at the location out of the list, and
\* frees no other cell.
LEMMA RemoveLinks ==
    ASSUME ListInv, NEW l \in Locations, Places(l) # {}, mp1_ioctl_remove(l),
           NEW n, n = Min(Places(l))
    PROVE  /\ n \in 1 .. Len(Chain) /\ blink_array[Chain[n]].location = l
           /\ BlinkType' /\ Holds(Without(Chain, n), blink_array', mp1_list_head')
           /\ Chain' = Without(Chain, n) /\ blink_array'[Chain[n]] = Zeros
           /\ \A d \in Cell \ {Chain[n]} :
                 \E x \in Cell \cup {NIL} : blink_array'[d] = [blink_array[d] EXCEPT !.next = x]
           /\ unsettled' = unsettled \cup {l} /\ screen' = screen
<1> DEFINE s == Without(Chain, n)
<1>1. /\ mp1_find_helper(l) # NIL /\ n \in 1 .. Len(Chain)
      /\ mp1_find_helper(l) = Chain[n] /\ blink_array[Chain[n]].location = l
  BY FindIs
<1>2. PICK c \in Cell : c = Chain[n] /\ blink_array[c].location = l
  BY <1>1, ChainSeq
<1>3. /\ blink_array' = Unlinked(c)
      /\ mp1_list_head' = IF mp1_list_head = c THEN blink_array[c].next ELSE mp1_list_head
      /\ unsettled' = unsettled \cup {l} /\ screen' = screen
  BY <1>1, <1>2 DEF mp1_ioctl_remove
<1>4. PICK y \in Cell \cup {NIL} : y = blink_array[c].next
  BY DEF ListInv, BlinkType, Struct
<1>5. blink_array'[c] = Zeros
  BY <1>3 DEF Unlinked
<1>6. \A d \in Cell \ {c} : blink_array'[d] =
          IF blink_array[d].next = c THEN [blink_array[d] EXCEPT !.next = y]
          ELSE [blink_array[d] EXCEPT !.next = blink_array[d].next]
  <2> SUFFICES ASSUME NEW d \in Cell \ {c}
               PROVE  blink_array'[d] =
                         IF blink_array[d].next = c THEN [blink_array[d] EXCEPT !.next = y]
                         ELSE [blink_array[d] EXCEPT !.next = blink_array[d].next]
    OBVIOUS
  <2>1. blink_array'[d] = IF blink_array[d].next = c THEN [blink_array[d] EXCEPT !.next = y]
                          ELSE blink_array[d]
    BY <1>3, <1>4 DEF Unlinked
  <2>2. blink_array[d] = [blink_array[d] EXCEPT !.next = blink_array[d].next]
    BY DEF ListInv, BlinkType, Struct
  <2> QED BY <2>1, <2>2
<1>7. ASSUME NEW d \in Cell \ {c}
      PROVE  \E x \in Cell \cup {NIL} : blink_array'[d] = [blink_array[d] EXCEPT !.next = x]
  <2>1. blink_array[d].next \in Cell \cup {NIL}
    BY DEF ListInv, BlinkType, Struct
  <2> QED BY <1>6, <2>1
<1>8. ASSUME NEW d \in Cell \ {c}
      PROVE  /\ blink_array'[d] \in Struct
             /\ blink_array'[d].location = blink_array[d].location
             /\ blink_array'[d].on_length = blink_array[d].on_length
             /\ blink_array'[d].off_length = blink_array[d].off_length
             /\ blink_array'[d].next = IF blink_array[d].next = c THEN y ELSE blink_array[d].next
  <2>1. PICK b \in Struct : b = blink_array[d]
    BY DEF ListInv, BlinkType
  <2>2. ASSUME NEW x \in Cell \cup {NIL}
        PROVE  /\ [b EXCEPT !.next = x] \in Struct
               /\ [b EXCEPT !.next = x].location = b.location
               /\ [b EXCEPT !.next = x].on_length = b.on_length
               /\ [b EXCEPT !.next = x].off_length = b.off_length
               /\ [b EXCEPT !.next = x].next = x
    BY DEF Struct
  <2>3. b.next \in Cell \cup {NIL}
    BY DEF Struct
  <2>4. blink_array'[d] = IF b.next = c THEN [b EXCEPT !.next = y] ELSE [b EXCEPT !.next = b.next]
    BY <1>6, <2>1
  <2>5. CASE b.next = c
    BY <2>1, <2>2, <2>4, <2>5
  <2>6. CASE b.next # c
    BY <2>1, <2>2, <2>3, <2>4, <2>6
  <2> QED BY <2>5, <2>6
<1>9. BlinkType'
  <2>1. Zeros \in Struct /\ Zeros.location = 0
    BY DEF Zeros, Struct, NIL
  <2>2. blink_array' \in [Cell -> Struct]
    <3>1. blink_array' = [d \in Cell |-> blink_array'[d]]
      BY <1>3 DEF Unlinked
    <3>2. \A d \in Cell : blink_array'[d] \in Struct
      BY <1>5, <1>8, <2>1
    <3> QED BY <3>1, <3>2
  <2>3. ASSUME NEW d \in Cell, blink_array'[d].location # 0
        PROVE  /\ blink_array'[d].location \in Locations
               /\ blink_array'[d].on_length \in Lengths
               /\ blink_array'[d].off_length \in Lengths
    BY <1>5, <1>8, <2>1, <2>3 DEF ListInv, BlinkType
  <2>4. mp1_list_head' \in Cell \cup {NIL}
    BY <1>3, <1>4 DEF ListInv, BlinkType
  <2> QED BY <1>3, <2>2, <2>3, <2>4 DEF ListInv, BlinkType
<1>10. PICK m \in Nat : m = Len(Chain)
  BY ChainSeq
<1>11. /\ s \in Seq(Cell) /\ Len(s) = m - 1
       /\ \A j \in 1 .. m - 1 : s[j] = IF j < n THEN Chain[j] ELSE Chain[j + 1]
  BY <1>1, <1>10, ChainWithout
<1> HIDE DEF s
<1>12. /\ \A j, k \in 1 .. m : Chain[j] = Chain[k] => j = k
       /\ \A k \in 1 .. m : Chain[k] \in Cell
       /\ mp1_list_head = Chain[1] /\ n \in 1 .. m
       /\ \A k \in 1 .. m : blink_array[Chain[k]].next = IF k < m THEN Chain[k + 1] ELSE NIL
  BY <1>1, <1>10, ChainSeq DEF ListInv, Holds, Linked
<1>13. y = IF n < m THEN Chain[n + 1] ELSE NIL
  BY <1>2, <1>4, <1>12
<1>14. ASSUME NEW k \in 1 .. m, k # n
       PROVE  blink_array'[Chain[k]].next =
                 IF k + 1 = n THEN y ELSE IF k < m THEN Chain[k + 1] ELSE NIL
  <2>1. Chain[k] \in Cell \ {c}
    BY <1>2, <1>12, <1>14
  <2>2. blink_array[Chain[k]].next = c <=> k + 1 = n
    <3>1. CASE k < m
      BY <1>2, <1>12, <3>1
    <3>2. CASE ~ (k < m)
      <4>1. blink_array[Chain[k]].next = NIL /\ k + 1 # n
        BY <1>12, <3>2
      <4> QED BY <4>1 DEF Cell, NIL
    <3> QED BY <3>1, <3>2
  <2>3. blink_array'[Chain[k]].next =
           IF blink_array[Chain[k]].next = c THEN y ELSE blink_array[Chain[k]].next
    BY <1>8, <2>1
  <2> QED BY <1>12, <2>2, <2>3
<1>15. Linked(s, blink_array', mp1_list_head')
  <2>1. ASSUME NEW j \in 1 .. Len(s), NEW k \in 1 .. Len(s), s[j] = s[k] PROVE j = k
    <3> DEFINE at(x) == IF x < n THEN x ELSE x + 1
    <3>1. at(j) \in 1 .. m /\ at(k) \in 1 .. m /\ s[j] = Chain[at(j)] /\ s[k] = Chain[at(k)]
      BY <1>11, <1>12
    <3>2. at(j) = at(k)
      <4> HIDE DEF at
      <4> QED BY <1>12, <2>1, <3>1
    <3> QED BY <1>11, <1>12, <3>2
  <2>2. ASSUME NEW k \in 1 .. Len(s)
        PROVE  blink_array'[s[k]].next = IF k < Len(s) THEN s[k + 1] ELSE NIL
    <3>1. CASE k < n
      <4>1. s[k] = Chain[k] /\ k \in 1 .. m /\ k # n /\ k < m
        BY <1>11, <1>12, <3>1
      <4>2. CASE k + 1 = n
        <5>1. blink_array'[s[k]].next = IF n < m THEN Chain[n + 1] ELSE NIL
          BY <1>13, <1>14, <4>1, <4>2
        <5>2. k < Len(s) <=> n < m
          BY <1>11, <1>12, <4>2
        <5>3. n < m => s[k + 1] = Chain[n + 1]
          BY <1>11, <1>12, <4>2
        <5> QED BY <5>1, <5>2, <5>3
      <4>3. CASE k + 1 # n
        <5>1. blink_array'[s[k]].next = Chain[k + 1]
          BY <1>14, <4>1, <4>3
        <5>2. k < Len(s) /\ s[k + 1] = Chain[k + 1]
          BY <1>11, <1>12, <3>1, <4>3
        <5> QED BY <5>1, <5>2
      <4> QED BY <4>2, <4>3
    <3>2. CASE ~ (k < n)
      <4>1. s[k] = Chain[k + 1] /\ k + 1 \in 1 .. m /\ k + 1 # n /\ (k + 1) + 1 # n
        BY <1>11, <1>12, <3>2
      <4>2. blink_array'[s[k]].next = IF k + 1 < m THEN Chain[(k + 1) + 1] ELSE NIL
        BY <1>14, <4>1
      <4>3. k < Len(s) <=> k + 1 < m
        BY <1>11
      <4>4. k < Len(s) => s[k + 1] = Chain[(k + 1) + 1]
        BY <1>11, <1>12, <3>2
      <4> QED BY <4>2, <4>3, <4>4
    <3> QED BY <3>1, <3>2
  <2>3. mp1_list_head' = IF Len(s) = 0 THEN NIL ELSE s[1]
    <3>1. CASE n = 1
      <4>1. mp1_list_head' = IF 1 < m THEN Chain[2] ELSE NIL
        BY <1>2, <1>3, <1>4, <1>12, <1>13, <3>1
      <4>2. Len(s) = 0 <=> ~ (1 < m)
        BY <1>11, <1>12
      <4>3. 1 < m => s[1] = Chain[2]
        BY <1>11, <3>1
      <4> QED BY <4>1, <4>2, <4>3
    <3>2. CASE n # 1
      <4>1. mp1_list_head # c /\ Len(s) # 0 /\ s[1] = Chain[1]
        BY <1>2, <1>11, <1>12, <3>2
      <4> QED BY <1>3, <1>12, <4>1
    <3> QED BY <3>1, <3>2
  <2> QED BY <1>11, <2>1, <2>2, <2>3 DEF Linked
<1>16. Holds(s, blink_array', mp1_list_head')
  <2>1. ASSUME NEW k \in 1 .. Len(s) PROVE s[k] \in Cell /\ blink_array'[s[k]].location # 0
    <3>1. PICK j \in 1 .. m : j # n /\ s[k] = Chain[j]
      <4>1. CASE k < n
        BY <1>11, <1>12, <4>1
      <4>2. CASE ~ (k < n)
        <5>1. k + 1 \in 1 .. m /\ k + 1 # n /\ s[k] = Chain[k + 1]
          BY <1>11, <1>12, <4>2
        <5> QED BY <5>1
      <4> QED BY <4>1, <4>2
    <3>2. s[k] \in Cell \ {c}
      BY <1>2, <1>12, <3>1
    <3>3. blink_array[s[k]].location # 0
      BY <1>10, <3>1, ChainSeq, LengthsPositive
    <3> QED BY <1>8, <3>2, <3>3
  <2>2. ASSUME NEW d \in Cell, blink_array'[d].location # 0
        PROVE  \E k \in 1 .. Len(s) : d = s[k]
    <3>1. d # c
      BY <1>5, <2>2 DEF Zeros
    <3>2. blink_array[d].location # 0
      BY <1>8, <2>2, <3>1
    <3>3. PICK j \in 1 .. m : d = Chain[j]
      BY <1>10, <3>2, ChainSeq
    <3>4. j # n
      BY <1>2, <3>1, <3>3
    <3>5. CASE j < n
      <4>1. j \in 1 .. Len(s) /\ s[j] = Chain[j]
        BY <1>11, <1>12, <3>5
      <4> QED BY <3>3, <4>1
    <3>6. CASE ~ (j < n)
      <4>1. j - 1 \in 1 .. Len(s) /\ ~ (j - 1 < n) /\ (j - 1) + 1 = j
        BY <1>11, <1>12, <3>4, <3>6
      <4>2. s[j - 1] = Chain[j]
        BY <1>11, <4>1
      <4> QED BY <3>3, <4>1, <4>2
    <3> QED BY <3>5, <3>6
  <2>3. { s[k] : k \in 1 .. Len(s) } = { d \in Cell : blink_array'[d].location # 0 }
    BY <2>1, <2>2
  <2> QED BY <1>15, <2>3 DEF Holds
<1>17. Chain' = s
  BY <1>16, NewChain
<1> QED BY <1>1, <1>2, <1>3, <1>5, <1>7, <1>9, <1>16, <1>17 DEF s

\* A step that leaves heads, pointers and locations alone leaves the list alone.
LEMMA SameLinks ==
    ASSUME ListInv, mp1_list_head' = mp1_list_head,
           \A c \in Cell : /\ blink_array'[c].next = blink_array[c].next
                           /\ blink_array'[c].location = blink_array[c].location
    PROVE  Holds(Chain, blink_array', mp1_list_head') /\ Chain' = Chain
<1>1. Linked(Chain, blink_array, mp1_list_head)
  BY DEF ListInv, Holds
<1>2. \A k \in 1 .. Len(Chain) : blink_array'[Chain[k]].next = blink_array[Chain[k]].next
  BY ChainSeq
<1>3. Linked(Chain, blink_array', mp1_list_head')
  BY <1>1, <1>2 DEF Linked
<1>4. { c \in Cell : blink_array'[c].location # 0 } = { c \in Cell : blink_array[c].location # 0 }
  OBVIOUS
<1>5. Holds(Chain, blink_array', mp1_list_head')
  BY <1>3, <1>4 DEF ListInv, Holds
<1> QED BY <1>5, NewChain

\* mp1_ioctl_sync: the first blink at m takes over the rhythm of the first at l.
LEMMA SyncLinks ==
    ASSUME ListInv, NEW l \in Locations, NEW m \in Locations,
           Places(l) # {}, Places(m) # {}, mp1_ioctl_sync(l, m),
           NEW from, from = Chain[Min(Places(l))], NEW to, to = Chain[Min(Places(m))]
    PROVE  /\ from \in Cell /\ to \in Cell
           /\ blink_array[from].location = l /\ blink_array[to].location = m
           /\ blink_array' = [blink_array EXCEPT ![to] =
                 [location |-> m, on_length |-> blink_array[from].on_length,
                  off_length |-> blink_array[from].off_length,
                  countdown |-> blink_array[from].countdown,
                  status |-> blink_array[from].status, next |-> blink_array[to].next]]
           /\ screen' = [screen EXCEPT ![m] = "off"]
           /\ unsettled' = unsettled \cup {m}
           /\ BlinkType' /\ Holds(Chain, blink_array', mp1_list_head') /\ Chain' = Chain
<1>1. /\ from \in Cell /\ mp1_find_helper(l) = from /\ from # NIL
      /\ to \in Cell /\ mp1_find_helper(m) = to /\ to # NIL
      /\ blink_array[from].location = l /\ blink_array[to].location = m
  BY FindIs, ChainSeq
<1>2. /\ blink_array' = [blink_array EXCEPT ![to] = Synced(from, to)]
      /\ screen' = [screen EXCEPT ![m] = "off"]
      /\ unsettled' = unsettled \cup {m} /\ mp1_list_head' = mp1_list_head
  BY <1>1 DEF mp1_ioctl_sync, mp1_poke
<1>3. PICK a \in Struct, b \in Struct : a = blink_array[from] /\ b = blink_array[to]
  BY <1>1 DEF ListInv, BlinkType
<1> DEFINE new == [location |-> m, on_length |-> a.on_length, off_length |-> a.off_length,
                   countdown |-> a.countdown, status |-> a.status, next |-> b.next]
<1>4. Synced(from, to) = new
  <2>1. Synced(from, to) = [b EXCEPT !.on_length = a.on_length, !.off_length = a.off_length,
                                     !.countdown = a.countdown, !.status = a.status]
    BY <1>3 DEF Synced
  <2>2. b.location = m
    BY <1>1, <1>3
  <2> QED BY <2>1, <2>2 DEF Struct
<1>5. /\ new \in Struct /\ new.location = m /\ new.next = b.next
      /\ new.on_length = a.on_length /\ new.off_length = a.off_length
  BY LengthsPositive DEF Struct
<1>6. blink_array' = [blink_array EXCEPT ![to] = new]
  BY <1>2, <1>4
<1> HIDE DEF new
<1>7. \A c \in Cell : blink_array'[c] = IF c = to THEN new ELSE blink_array[c]
  BY <1>6 DEF ListInv, BlinkType
<1>8. Holds(Chain, blink_array', mp1_list_head') /\ Chain' = Chain
  <2>1. \A c \in Cell : /\ blink_array'[c].next = blink_array[c].next
                        /\ blink_array'[c].location = blink_array[c].location
    <3>1. new.next = blink_array[to].next /\ new.location = blink_array[to].location
      BY <1>1, <1>3, <1>5
    <3> QED BY <1>7, <3>1
  <2> QED BY <1>2, <2>1, SameLinks
<1>9. BlinkType'
  <2>1. blink_array' \in [Cell -> Struct]
    <3>1. blink_array \in [Cell -> Struct]
      BY DEF ListInv, BlinkType
    <3> QED BY <1>5, <1>6, <3>1, Zenon
  <2>2. screen' \in [Locations -> { "blank", "on", "off" }]
    BY <1>2 DEF ListInv, BlinkType
  <2>3. l # 0
    BY LengthsPositive
  <2>4. a.on_length \in Lengths /\ a.off_length \in Lengths
    BY <1>1, <1>3, <2>3 DEF ListInv, BlinkType
  <2>5. ASSUME NEW d \in Cell, blink_array'[d].location # 0
        PROVE  /\ blink_array'[d].location \in Locations
               /\ blink_array'[d].on_length \in Lengths
               /\ blink_array'[d].off_length \in Lengths
    BY <1>5, <1>7, <2>4, <2>5 DEF ListInv, BlinkType
  <2> QED BY <1>2, <2>1, <2>2, <2>5 DEF ListInv, BlinkType
<1> QED BY <1>1, <1>2, <1>3, <1>6, <1>8, <1>9 DEF new

\* mp1_rtc_tasklet counts down every blink of the list, once.
LEMMA TickLinks ==
    ASSUME ListInv, mp1_rtc_tasklet
    PROVE  /\ \A c \in Cell : blink_array'[c] =
                 IF blink_array[c].location # 0 THEN Ticked(c) ELSE blink_array[c]
           /\ \A c \in Cell : blink_array[c].location # 0 =>
                 /\ blink_array'[c].location = blink_array[c].location
                 /\ blink_array'[c].on_length = blink_array[c].on_length
                 /\ blink_array'[c].off_length = blink_array[c].off_length
                 /\ IF blink_array[c].countdown <= 1
                    THEN /\ blink_array'[c].status = ~ blink_array[c].status
                         /\ blink_array'[c].countdown =
                               IF blink_array[c].status THEN blink_array[c].off_length
                               ELSE blink_array[c].on_length
                    ELSE /\ blink_array'[c].status = blink_array[c].status
                         /\ blink_array'[c].countdown = blink_array[c].countdown - 1
           /\ BlinkType' /\ Holds(Chain, blink_array', mp1_list_head') /\ Chain' = Chain
<1>1. /\ blink_array' = [c \in Cell |-> IF c \in Range(Chain) THEN Ticked(c) ELSE blink_array[c]]
      /\ mp1_list_head' = mp1_list_head
  BY DEF mp1_rtc_tasklet
<1>2. \A c \in Cell : blink_array'[c] =
         IF blink_array[c].location # 0 THEN Ticked(c) ELSE blink_array[c]
  BY <1>1, ChainSeq
<1>3. ASSUME NEW c \in Cell
      PROVE  /\ Ticked(c) \in Struct
             /\ Ticked(c).location = blink_array[c].location
             /\ Ticked(c).next = blink_array[c].next
             /\ Ticked(c).on_length = blink_array[c].on_length
             /\ Ticked(c).off_length = blink_array[c].off_length
             /\ IF blink_array[c].countdown <= 1
                THEN /\ Ticked(c).status = ~ blink_array[c].status
                     /\ Ticked(c).countdown =
                           IF blink_array[c].status THEN blink_array[c].off_length
                           ELSE blink_array[c].on_length
                ELSE /\ Ticked(c).status = blink_array[c].status
                     /\ Ticked(c).countdown = blink_array[c].countdown - 1
  <2>1. PICK b \in Struct : b = blink_array[c]
    BY DEF ListInv, BlinkType
  <2>2. /\ b.countdown \in Nat /\ b.on_length \in Nat /\ b.off_length \in Nat
        /\ b.status \in BOOLEAN
    BY DEF Struct
  <2>3. Due(c) <=> b.countdown <= 1
    BY <2>1, <2>2 DEF Due
  <2>4. CASE b.countdown <= 1
    <3>1. PICK n \in Nat : n = NextLength(b)
      BY <2>2 DEF NextLength
    <3>2. Ticked(c) = [b EXCEPT !.countdown = n, !.status = ~ b.status]
      BY <2>1, <2>3, <2>4, <3>1 DEF Ticked
    <3>3. PICK v \in BOOLEAN : v = ~ b.status
      BY <2>2
    <3>4. Ticked(c) = [b EXCEPT !.countdown = n, !.status = v]
      BY <3>2, <3>3, Zenon
    <3>5. /\ Ticked(c) \in Struct /\ Ticked(c).status = v /\ Ticked(c).countdown = n
          /\ Ticked(c).location = b.location /\ Ticked(c).next = b.next
          /\ Ticked(c).on_length = b.on_length /\ Ticked(c).off_length = b.off_length
      BY <3>4 DEF Struct
    <3>6. n = IF b.status THEN b.off_length ELSE b.on_length
      BY <3>1 DEF NextLength
    <3> QED BY <2>1, <2>4, <3>3, <3>5, <3>6
  <2>5. CASE ~ (b.countdown <= 1)
    <3>1. PICK n \in Nat : n = b.countdown - 1
      BY <2>2, <2>5
    <3>2. Ticked(c) = [b EXCEPT !.countdown = n]
      BY <2>1, <2>3, <2>5, <3>1 DEF Ticked
    <3> QED BY <2>1, <2>5, <3>1, <3>2 DEF Struct
  <2> QED BY <2>4, <2>5
<1>4. Holds(Chain, blink_array', mp1_list_head') /\ Chain' = Chain
  <2>1. \A c \in Cell : /\ blink_array'[c].next = blink_array[c].next
                        /\ blink_array'[c].location = blink_array[c].location
    BY <1>2, <1>3
  <2> QED BY <1>1, <2>1, SameLinks
<1>5. BlinkType'
  <2>1. blink_array' \in [Cell -> Struct]
    <3>1. \A c \in Cell : blink_array'[c] \in Struct
      BY <1>2, <1>3 DEF ListInv, BlinkType
    <3>2. blink_array' = [c \in Cell |-> blink_array'[c]]
      BY <1>1
    <3> QED BY <3>1, <3>2
  <2>2. screen' \in [Locations -> { "blank", "on", "off" }]
    BY DEF mp1_rtc_tasklet, ListInv, BlinkType
  <2>3. ASSUME NEW d \in Cell, blink_array'[d].location # 0
        PROVE  /\ blink_array'[d].location \in Locations
               /\ blink_array'[d].on_length \in Lengths
               /\ blink_array'[d].off_length \in Lengths
    BY <1>2, <1>3, <2>3 DEF ListInv, BlinkType
  <2> QED BY <1>1, <2>1, <2>2, <2>3 DEF ListInv, BlinkType
<1>6. ASSUME NEW c \in Cell, blink_array[c].location # 0 PROVE blink_array'[c] = Ticked(c)
  BY <1>2, <1>6
<1> QED BY <1>2, <1>3, <1>4, <1>5, <1>6

-----------------------------------------------------------------------------
(***************************************************************************)
(* The invariants of the blinks.                                           *)
(***************************************************************************)
InUse(c) == blink_array[c].location # 0

\* InPhase, of the cells in use.
PhaseInv ==
    \A c \in Cell : InUse(c) =>
        blink_array[c].countdown \in
            1 .. (IF blink_array[c].status THEN blink_array[c].on_length
                  ELSE blink_array[c].off_length)

\* ShownAsStatus, of the cells in use.
ShownInv ==
    \A c \in Cell : InUse(c) =>
        \/ blink_array[c].location \in unsettled
        \/ \E d \in Cell \ {c} : blink_array[d].location = blink_array[c].location
        \/ screen[blink_array[c].location] = IF blink_array[c].status THEN "on" ELSE "off"

\* A call that changes something.
Changes ==
    \/ \E l \in Locations, on, off \in Lengths : mp1_malloc # NIL /\ mp1_ioctl_add(l, on, off)
    \/ \E l \in Locations : Places(l) # {} /\ mp1_ioctl_remove(l)
    \/ \E l, m \in Locations : Places(l) # {} /\ Places(m) # {} /\ mp1_ioctl_sync(l, m)
    \/ mp1_rtc_tasklet

\* A call for a location without a blink, or without a free cell, changes nothing.
LEMMA StepChanges == ListInv /\ BlinkStep => Changes \/ UNCHANGED blinkVars
<1> SUFFICES ASSUME ListInv, BlinkStep PROVE Changes \/ UNCHANGED blinkVars
  OBVIOUS
<1>1. ASSUME NEW l \in Locations, NEW on \in Lengths, NEW off \in Lengths,
             mp1_ioctl_add(l, on, off)
      PROVE  Changes \/ UNCHANGED blinkVars
  BY <1>1 DEF Changes, mp1_ioctl_add
<1>2. ASSUME NEW l \in Locations, mp1_ioctl_remove(l) PROVE Changes \/ UNCHANGED blinkVars
  <2>1. CASE mp1_find_helper(l) = NIL
    BY <1>2, <2>1 DEF mp1_ioctl_remove
  <2>2. CASE mp1_find_helper(l) # NIL
    BY <1>2, <2>2, FindIs DEF Changes
  <2> QED BY <2>1, <2>2
<1>3. ASSUME NEW l \in Locations, NEW m \in Locations, mp1_ioctl_sync(l, m)
      PROVE  Changes \/ UNCHANGED blinkVars
  <2>1. CASE mp1_find_helper(l) = NIL \/ mp1_find_helper(m) = NIL
    BY <1>3, <2>1 DEF mp1_ioctl_sync
  <2>2. CASE mp1_find_helper(l) # NIL /\ mp1_find_helper(m) # NIL
    BY <1>3, <2>2, FindIs DEF Changes
  <2> QED BY <2>1, <2>2
<1> QED BY <1>1, <1>2, <1>3 DEF BlinkStep, Changes

\* A cell that changes its pointer keeps the rest.
LEMMA NextOnly ==
    ASSUME NEW b \in Struct, NEW x
    PROVE  /\ [b EXCEPT !.next = x].location = b.location
           /\ [b EXCEPT !.next = x].on_length = b.on_length
           /\ [b EXCEPT !.next = x].off_length = b.off_length
           /\ [b EXCEPT !.next = x].countdown = b.countdown
           /\ [b EXCEPT !.next = x].status = b.status
BY DEF Struct

\* A tick leads from a phase into itself or into the other.
LEMMA NextPhase ==
    ASSUME NEW on \in Nat \ {0}, NEW off \in Nat \ {0}, NEW lit \in BOOLEAN,
           NEW n \in 1 .. (IF lit THEN on ELSE off), NEW now, NEW togo,
           IF n <= 1 THEN now = (~ lit) /\ togo = IF lit THEN off ELSE on
           ELSE now = lit /\ togo = n - 1
    PROVE  togo \in 1 .. (IF now THEN on ELSE off)
<1>1. CASE n <= 1 /\ lit
  <2>1. ~ now
    BY <1>1, Zenon
  <2> QED BY <1>1, <2>1
<1>2. CASE n <= 1 /\ ~ lit
  <2>1. now
    BY <1>2, Zenon
  <2> QED BY <1>2, <2>1
<1>3. CASE ~ (n <= 1)
  BY <1>3
<1> QED BY <1>1, <1>2, <1>3

\* Each call keeps cells and list sound, and every blink in its phase.
LEMMA ListStep ==
    ASSUME ListInv, PhaseInv, Changes
    PROVE  ListInv' /\ PhaseInv'
<1>1. ASSUME NEW l \in Locations, NEW on \in Lengths, NEW off \in Lengths,
             mp1_malloc # NIL, mp1_ioctl_add(l, on, off)
      PROVE  ListInv' /\ PhaseInv'
  <2>1. PICK c : c = mp1_malloc
    OBVIOUS
  <2>2. BlinkType' /\ Chain' = <<c>> \o Chain /\ Holds(<<c>> \o Chain, blink_array', mp1_list_head')
    BY <1>1, <2>1, AddLinks
  <2>3. ListInv'
    BY <2>2 DEF ListInv
  <2>4. blink_array' = [blink_array EXCEPT ![c] =
           [location |-> l, on_length |-> on, off_length |-> off,
            countdown |-> on, status |-> TRUE, next |-> mp1_list_head]]
    BY <1>1, <2>1 DEF mp1_ioctl_add
  <2>5. c \in Cell
    BY <1>1, <2>1, MallocIs
  <2>6. on \in 1 .. on
    BY LengthsPositive
  <2>7. ASSUME NEW d \in Cell, d # c PROVE blink_array'[d] = blink_array[d]
    BY <2>4, <2>7 DEF ListInv, BlinkType
  <2>8. /\ blink_array'[c].countdown = on /\ blink_array'[c].status
        /\ blink_array'[c].on_length = on
    BY <2>4, <2>5 DEF ListInv, BlinkType
  <2>9. PhaseInv'
    BY <2>6, <2>7, <2>8 DEF PhaseInv, InUse
  <2> QED BY <2>3, <2>9
<1>2. ASSUME NEW l \in Locations, Places(l) # {}, mp1_ioctl_remove(l)
      PROVE  ListInv' /\ PhaseInv'
  <2>1. PICK n : n = Min(Places(l))
    OBVIOUS
  <2>2. /\ n \in 1 .. Len(Chain) /\ BlinkType' /\ Chain' = Without(Chain, n)
        /\ Holds(Without(Chain, n), blink_array', mp1_list_head')
        /\ blink_array'[Chain[n]] = Zeros
        /\ \A d \in Cell \ {Chain[n]} :
              \E x \in Cell \cup {NIL} : blink_array'[d] = [blink_array[d] EXCEPT !.next = x]
    BY <1>2, <2>1, RemoveLinks
  <2>3. ListInv'
    BY <2>2 DEF ListInv
  <2>4. ASSUME NEW d \in Cell, InUse(d)'
        PROVE  blink_array'[d].countdown \in
                 1 .. (IF blink_array'[d].status THEN blink_array'[d].on_length
                       ELSE blink_array'[d].off_length)
    <3>1. d # Chain[n]
      BY <2>2, <2>4 DEF InUse, Zeros
    <3>2. PICK x \in Cell \cup {NIL} : blink_array'[d] = [blink_array[d] EXCEPT !.next = x]
      BY <2>2, <3>1
    <3>3. blink_array[d] \in Struct
      BY DEF ListInv, BlinkType
    <3>4. /\ blink_array'[d].location = blink_array[d].location
          /\ blink_array'[d].on_length = blink_array[d].on_length
          /\ blink_array'[d].off_length = blink_array[d].off_length
          /\ blink_array'[d].countdown = blink_array[d].countdown
          /\ blink_array'[d].status = blink_array[d].status
      BY <3>2, <3>3, NextOnly
    <3> QED BY <2>4, <3>4 DEF PhaseInv, InUse
  <2> QED BY <2>3, <2>4 DEF PhaseInv
<1>3. ASSUME NEW l \in Locations, NEW m \in Locations, Places(l) # {}, Places(m) # {},
             mp1_ioctl_sync(l, m)
      PROVE  ListInv' /\ PhaseInv'
  <2>1. PICK from, to : from = Chain[Min(Places(l))] /\ to = Chain[Min(Places(m))]
    OBVIOUS
  <2>2. /\ from \in Cell /\ to \in Cell
        /\ blink_array[from].location = l
        /\ blink_array' = [blink_array EXCEPT ![to] =
              [location |-> m, on_length |-> blink_array[from].on_length,
               off_length |-> blink_array[from].off_length,
               countdown |-> blink_array[from].countdown,
               status |-> blink_array[from].status, next |-> blink_array[to].next]]
        /\ BlinkType' /\ Holds(Chain, blink_array', mp1_list_head') /\ Chain' = Chain
    BY <1>3, <2>1, SyncLinks
  <2>3. ListInv'
    BY <2>2 DEF ListInv
  <2>4. InUse(from)
    BY <2>2, LengthsPositive DEF InUse
  <2>5. ASSUME NEW d \in Cell, d # to PROVE blink_array'[d] = blink_array[d]
    BY <2>2, <2>5 DEF ListInv, BlinkType
  <2>6. /\ blink_array'[to].countdown = blink_array[from].countdown
        /\ blink_array'[to].status = blink_array[from].status
        /\ blink_array'[to].on_length = blink_array[from].on_length
        /\ blink_array'[to].off_length = blink_array[from].off_length
    BY <2>2 DEF ListInv, BlinkType
  <2>7. PhaseInv'
    BY <2>2, <2>4, <2>5, <2>6 DEF PhaseInv, InUse
  <2> QED BY <2>3, <2>7
<1>4. CASE mp1_rtc_tasklet
  <2>1. ListInv'
    BY <1>4, TickLinks DEF ListInv
  <2>2. ASSUME NEW d \in Cell, InUse(d)'
        PROVE  blink_array'[d].countdown \in
                 1 .. (IF blink_array'[d].status THEN blink_array'[d].on_length
                       ELSE blink_array'[d].off_length)
    <3>1. InUse(d)
      BY <1>4, <2>2, TickLinks DEF InUse
    <3>2. /\ blink_array'[d].on_length = blink_array[d].on_length
          /\ blink_array'[d].off_length = blink_array[d].off_length
          /\ IF blink_array[d].countdown <= 1
             THEN /\ blink_array'[d].status = ~ blink_array[d].status
                  /\ blink_array'[d].countdown =
                        IF blink_array[d].status THEN blink_array[d].off_length
                        ELSE blink_array[d].on_length
             ELSE /\ blink_array'[d].status = blink_array[d].status
                  /\ blink_array'[d].countdown = blink_array[d].countdown - 1
      BY <1>4, <3>1, TickLinks DEF InUse
    <3>3. /\ blink_array[d].on_length \in Nat \ {0} /\ blink_array[d].off_length \in Nat \ {0}
          /\ blink_array[d].status \in BOOLEAN /\ blink_array[d].countdown \in Nat
      BY <3>1, LengthsPositive DEF ListInv, BlinkType, InUse, Struct
    <3>4. blink_array[d].countdown \in
             1 .. (IF blink_array[d].status THEN blink_array[d].on_length
                   ELSE blink_array[d].off_length)
      BY <3>1 DEF PhaseInv
    <3>5. PICK on \in Nat \ {0}, off \in Nat \ {0}, lit \in BOOLEAN, n \in Nat :
             /\ on = blink_array[d].on_length /\ off = blink_array[d].off_length
             /\ lit = blink_array[d].status /\ n = blink_array[d].countdown
      BY <3>3, Zenon
    <3>6. PICK now, togo : now = blink_array'[d].status /\ togo = blink_array'[d].countdown
      BY Zenon
    <3>7. n \in 1 .. (IF lit THEN on ELSE off)
      BY <3>4, <3>5, Zenon
    <3>8. IF n <= 1 THEN now = (~ lit) /\ togo = IF lit THEN off ELSE on
          ELSE now = lit /\ togo = n - 1
      BY <3>2, <3>5, <3>6, Zenon
    <3>9. togo \in 1 .. (IF now THEN on ELSE off)
      BY <3>7, <3>8, NextPhase
    <3> QED BY <3>2, <3>5, <3>6, <3>9, Zenon
  <2> QED BY <2>1, <2>2 DEF PhaseInv
<1> QED BY <1>1, <1>2, <1>3, <1>4 DEF Changes

\* Each call leaves every blink that has its place to itself drawn as its status
\* says, or its place unsettled.
LEMMA ShownStep ==
    ASSUME ListInv, ShownInv, Changes
    PROVE  ShownInv'
<1> DEFINE Fine(c) ==
        \/ blink_array[c].location \in unsettled
        \/ \E d \in Cell \ {c} : blink_array[d].location = blink_array[c].location
        \/ screen[blink_array[c].location] = IF blink_array[c].status THEN "on" ELSE "off"
<1> SUFFICES ASSUME NEW c \in Cell, InUse(c)' PROVE Fine(c)'
  BY DEF ShownInv
<1>1. ASSUME NEW l \in Locations, NEW on \in Lengths, NEW off \in Lengths,
             mp1_malloc # NIL, mp1_ioctl_add(l, on, off)
      PROVE  Fine(c)'
  <2>1. PICK new : new = mp1_malloc
    OBVIOUS
  <2>2. new \in Cell /\ blink_array[new].location = 0
    BY <1>1, <2>1, MallocIs
  <2>3. /\ blink_array' = [blink_array EXCEPT ![new] =
              [location |-> l, on_length |-> on, off_length |-> off,
               countdown |-> on, status |-> TRUE, next |-> mp1_list_head]]
        /\ screen' = [screen EXCEPT ![l] = "on"] /\ unsettled' = unsettled \ {l}
    BY <1>1, <2>1 DEF mp1_ioctl_add, mp1_poke
  <2>4. /\ blink_array'[new].location = l /\ blink_array'[new].status
        /\ \A d \in Cell \ {new} : blink_array'[d] = blink_array[d]
    BY <2>2, <2>3 DEF ListInv, BlinkType
  <2>5. CASE c = new
    <3>1. screen'[l] = "on"
      BY <2>3 DEF ListInv, BlinkType
    <3> QED BY <2>4, <2>5, <3>1
  <2>6. CASE c # new /\ blink_array[c].location = l
    BY <2>2, <2>4, <2>6
  <2>7. CASE c # new /\ blink_array[c].location # l
    <3>1. InUse(c) /\ blink_array'[c] = blink_array[c]
      BY <2>4, <2>7 DEF InUse
    <3>2. CASE blink_array[c].location \in unsettled
      BY <2>3, <2>7, <3>1, <3>2
    <3>3. CASE \E d \in Cell \ {c} : blink_array[d].location = blink_array[c].location
      <4>1. PICK d \in Cell \ {c} : blink_array[d].location = blink_array[c].location
        BY <3>3
      <4>2. d # new
        BY <2>2, <3>1, <4>1 DEF InUse
      <4>3. blink_array'[d].location = blink_array'[c].location
        BY <2>4, <3>1, <4>1, <4>2
      <4> QED BY <4>3
    <3>4. CASE screen[blink_array[c].location] = IF blink_array[c].status THEN "on" ELSE "off"
      <4>1. screen'[blink_array[c].location] = screen[blink_array[c].location]
        BY <2>3, <2>7, <3>1 DEF ListInv, BlinkType, InUse
      <4> QED BY <3>1, <3>4, <4>1
    <3> QED BY <3>1, <3>2, <3>3, <3>4 DEF ShownInv
  <2> QED BY <2>5, <2>6, <2>7
<1>2. ASSUME NEW l \in Locations, Places(l) # {}, mp1_ioctl_remove(l) PROVE Fine(c)'
  <2>1. PICK n, z : n = Min(Places(l)) /\ z = Chain[n]
    OBVIOUS
  <2>2. /\ blink_array[z].location = l /\ blink_array'[z] = Zeros
        /\ \A d \in Cell \ {z} :
              \E x \in Cell \cup {NIL} : blink_array'[d] = [blink_array[d] EXCEPT !.next = x]
        /\ unsettled' = unsettled \cup {l} /\ screen' = screen
    BY <1>2, <2>1, RemoveLinks
  <2>3. ASSUME NEW d \in Cell \ {z}
        PROVE  /\ blink_array'[d].location = blink_array[d].location
               /\ blink_array'[d].status = blink_array[d].status
    <3>1. PICK x : blink_array'[d] = [blink_array[d] EXCEPT !.next = x]
      BY <2>2
    <3>2. blink_array[d] \in Struct
      BY DEF ListInv, BlinkType
    <3> QED BY <3>1, <3>2, NextOnly
  <2>4. c # z
    BY <2>2 DEF InUse, Zeros
  <2>5. InUse(c)
    BY <2>3, <2>4 DEF InUse
  <2>6. CASE blink_array[c].location = l
    BY <2>2, <2>3, <2>4, <2>6
  <2>7. CASE blink_array[c].location # l
    <3>1. ASSUME NEW d \in Cell \ {c}, blink_array[d].location = blink_array[c].location
          PROVE  blink_array'[d].location = blink_array'[c].location
      BY <2>2, <2>3, <2>4, <2>7, <3>1
    <3> QED BY <2>2, <2>3, <2>4, <2>5, <3>1 DEF ShownInv
  <2> QED BY <2>6, <2>7
<1>3. ASSUME NEW l \in Locations, NEW m \in Locations, Places(l) # {}, Places(m) # {},
             mp1_ioctl_sync(l, m)
      PROVE  Fine(c)'
  <2>1. PICK from, to : from = Chain[Min(Places(l))] /\ to = Chain[Min(Places(m))]
    OBVIOUS
  <2>2. /\ to \in Cell /\ blink_array[to].location = m
        /\ blink_array' = [blink_array EXCEPT ![to] =
              [location |-> m, on_length |-> blink_array[from].on_length,
               off_length |-> blink_array[from].off_length,
               countdown |-> blink_array[from].countdown,
               status |-> blink_array[from].status, next |-> blink_array[to].next]]
        /\ screen' = [screen EXCEPT ![m] = "off"] /\ unsettled' = unsettled \cup {m}
    BY <1>3, <2>1, SyncLinks
  <2>3. /\ blink_array'[to].location = m
        /\ \A d \in Cell \ {to} : blink_array'[d] = blink_array[d]
    BY <2>2 DEF ListInv, BlinkType
  <2>4. \A d \in Cell : blink_array'[d].location = blink_array[d].location
    BY <2>2, <2>3
  <2>5. InUse(c)
    BY <2>4 DEF InUse
  <2>6. CASE blink_array[c].location = m
    BY <2>2, <2>4, <2>6
  <2>7. CASE blink_array[c].location # m
    <3>1. blink_array'[c] = blink_array[c]
      BY <2>2, <2>3, <2>7
    <3>2. screen'[blink_array[c].location] = screen[blink_array[c].location]
      BY <2>2, <2>5, <2>7 DEF ListInv, BlinkType, InUse
    <3> QED BY <2>2, <2>4, <2>5, <3>1, <3>2 DEF ShownInv
  <2> QED BY <2>6, <2>7
<1>4. CASE mp1_rtc_tasklet
  <2>1. \A d \in Cell : blink_array'[d].location = blink_array[d].location
    BY <1>4, TickLinks
  <2>2. InUse(c)
    BY <2>1 DEF InUse
  <2>3. PICK l \in Locations : l = blink_array[c].location
    BY <2>2 DEF ListInv, BlinkType, InUse
  <2>4. CASE \E d \in Cell \ {c} : blink_array[d].location = l
    BY <2>1, <2>3, <2>4
  <2>5. CASE \A d \in Cell \ {c} : blink_array[d].location # l
    <3> DEFINE drawn(x) == { k \in DOMAIN Chain : /\ blink_array[Chain[k]].location = x
                                                  /\ Due(Chain[k]) }
    <3>1. PICK k \in 1 .. Len(Chain) : c = Chain[k]
      BY <2>2, ChainSeq DEF InUse
    <3>2. drawn(l) = IF Due(c) THEN {k} ELSE {}
      BY <2>3, <2>5, <3>1, ChainSeq
    <3>3. /\ screen'[l] = IF drawn(l) = {} THEN screen[l]
                          ELSE IF blink_array[Chain[Max(drawn(l))]].status THEN "off" ELSE "on"
          /\ l \in unsettled' <=> l \in unsettled /\ drawn(l) = {}
      BY <1>4 DEF mp1_rtc_tasklet
    <3>4. Due(c) <=> blink_array[c].countdown <= 1
      BY DEF Due, ListInv, BlinkType, Struct
    <3>5. IF blink_array[c].countdown <= 1
          THEN blink_array'[c].status = ~ blink_array[c].status
          ELSE blink_array'[c].status = blink_array[c].status
      BY <1>4, <2>2, TickLinks DEF InUse
    <3>6. CASE Due(c)
      <4>1. Max({k}) = k
        BY <3>1 DEF Max
      <4>2. drawn(l) = {k}
        BY <3>2, <3>6
      <4> HIDE DEF drawn
      <4>3. screen'[l] = IF blink_array[c].status THEN "off" ELSE "on"
        BY <3>1, <3>3, <4>1, <4>2
      <4>4. blink_array'[c].status = ~ blink_array[c].status
        BY <3>4, <3>5, <3>6, Zenon
      <4>5. screen'[l] = IF blink_array'[c].status THEN "on" ELSE "off"
        BY <4>3, <4>4, Zenon
      <4> QED BY <2>1, <2>3, <4>5
    <3>7. CASE ~ Due(c)
      <4>1. drawn(l) = {}
        BY <3>2, <3>7
      <4> HIDE DEF drawn
      <4>2. screen'[l] = screen[l] /\ (l \in unsettled' <=> l \in unsettled)
        BY <3>3, <4>1
      <4>3. blink_array'[c].status = blink_array[c].status
        BY <3>4, <3>5, <3>7, Zenon
      <4>4. Fine(c)
        BY <2>2 DEF ShownInv
      <4> QED BY <2>1, <2>3, <4>2, <4>3, <4>4
    <3> QED BY <3>6, <3>7
  <2> QED BY <2>3, <2>4, <2>5
<1> QED BY <1>1, <1>2, <1>3, <1>4 DEF Changes

-----------------------------------------------------------------------------
(***************************************************************************)
(* fish makes these calls and no others.                                   *)
(***************************************************************************)
\* Places add_frames still comes to are places of the frames.
LeftInv == left \subseteq FrameLocations

\* A step of fish or of anyone else is one call of blink.S, or none.
LEMMA StepOfBlinks ==
    ASSUME LeftInv, [FNext]_allVars
    PROVE  LeftInv' /\ (BlinkStep \/ UNCHANGED blinkVars)
<1> USE FishAssumption DEF LeftInv
<1>1. CASE add_frames
  <2>1. left \in SUBSET Nat /\ left # {} /\ FrameLocations \subseteq Locations
    BY <1>1, BlinkAssumption DEF add_frames
  <2>2. Min(left) \in Locations
    <3>1. Min(left) \in left
      BY <2>1, MinIs
    <3> QED BY <2>1, <3>1
  <2>3. FRAME_LENGTH \in Lengths
    BY DEF Lengths
  <2> QED BY <1>1, <2>2, <2>3 DEF add_frames, BlinkStep
<1>2. CASE SetRate \/ Read \/ Return
  BY <1>2 DEF SetRate, Read, Return, NextLoop, fishVars
<1>3. CASE Tick
  BY <1>3 DEF Tick, BlinkStep
<1>4. CASE AddIM \/ SyncIM \/ RemoveIM
  <2>1. IM \in Locations /\ SOURCE \in Locations /\ IM_ON \in Lengths /\ IM_OFF \in Lengths
    BY DEF Lengths
  <2> QED BY <1>4, <2>1 DEF AddIM, SyncIM, RemoveIM, NextLoop, BlinkStep
<1>5. CASE InRead \/ OtherPrograms \/ Machine
  BY <1>5 DEF InRead, OtherPrograms, Machine, fishVars
<1>6. CASE UNCHANGED allVars
  BY <1>6 DEF allVars, fishVars
<1> QED BY <1>1, <1>2, <1>3, <1>4, <1>5, <1>6 DEF FNext, main

BlinkInv == LeftInv /\ ListInv /\ PhaseInv /\ ShownInv

\* The empty list.
LEMMA BlinksInit == FInit => BlinkInv
<1> SUFFICES ASSUME FInit PROVE BlinkInv
  OBVIOUS
<1> USE DEF FInit, BlinkInit
<1>1. Zeros \in Struct /\ Zeros.location = 0
  BY DEF Zeros, Struct, NIL
<1>2. \A c \in Cell : blink_array[c] \in Struct /\ blink_array[c].location = 0
  BY <1>1
<1>3. BlinkType
  BY <1>2 DEF BlinkType
<1>4. Holds(<< >>, blink_array, mp1_list_head)
  <2>1. << >> \in Seq(Cell) /\ Len(<< >>) = 0 /\ 1 .. 0 = {}
    OBVIOUS
  <2>2. Linked(<< >>, blink_array, mp1_list_head)
    BY <2>1 DEF Linked
  <2>3. { c \in Cell : blink_array[c].location # 0 } = {}
    BY <1>2
  <2>4. { << >>[k] : k \in 1 .. Len(<< >>) } = {}
    BY <2>1
  <2> QED BY <2>2, <2>3, <2>4 DEF Holds
<1>5. Chain = << >>
  BY <1>4, ChainIs DEF Holds, Chain
<1>6. ListInv
  BY <1>3, <1>4, <1>5 DEF ListInv
<1>7. PhaseInv /\ ShownInv
  BY <1>2 DEF PhaseInv, ShownInv, InUse
<1> QED BY <1>6, <1>7 DEF BlinkInv, LeftInv

\* Every step keeps the invariant, and changes the blinks by a call.
LEMMA BlinksStep ==
    ASSUME BlinkInv, [FNext]_allVars
    PROVE  BlinkInv' /\ (Changes \/ UNCHANGED blinkVars)
<1>1. LeftInv' /\ (BlinkStep \/ UNCHANGED blinkVars)
  BY StepOfBlinks DEF BlinkInv
<1>2. Changes \/ UNCHANGED blinkVars
  BY <1>1, StepChanges DEF BlinkInv
<1>3. CASE Changes
  BY <1>1, <1>3, ListStep, ShownStep DEF BlinkInv
<1>4. CASE UNCHANGED blinkVars
  <2> USE <1>4 DEF blinkVars
  <2>1. Chain' = Chain
    BY DEF Chain
  <2>2. BlinkType' /\ PhaseInv' /\ ShownInv'
    BY DEF BlinkInv, ListInv, BlinkType, PhaseInv, ShownInv, InUse
  <2>3. Holds(Chain, blink_array, mp1_list_head)'
    BY <2>1 DEF BlinkInv, ListInv
  <2> QED BY <1>1, <2>2, <2>3 DEF BlinkInv, ListInv
<1> QED BY <1>2, <1>3, <1>4

\* BlinkInv is an invariant of fish.
LEMMA BlinksInvariant == FSpec => []BlinkInv
BY BlinksInit, BlinksStep, PTL DEF FSpec

\* For any number of cells and places and any lengths: after any calls the
\* pointers of blink.S form a list that ends and holds exactly the cells in use,
\* and every blink has between one tick and the length of its phase to go.
THEOREM BlinksStaySound == FSpec => []BlinksSound
<1>1. BlinkInv => BlinksSound
  <2> SUFFICES ASSUME BlinkInv PROVE BlinksSound
    OBVIOUS
  <2>1. Range(Chain) = { c \in Cell : blink_array[c].location # 0 }
    BY ChainSeq DEF BlinkInv
  <2>2. Node(blink_array, mp1_list_head)[CELLS] = NIL
    BY ChainIs DEF BlinkInv, ListInv, Holds
  <2>3. InPhase
    BY <2>1 DEF BlinkInv, PhaseInv, InUse, InPhase
  <2> QED BY <2>1, <2>2, <2>3 DEF BlinksSound, ListSound
<1> QED BY <1>1, BlinksInvariant, PTL

\* The character on the screen is the one of the blink's status, up to the places
\* ShownAsStatus leaves out.
THEOREM BlinksShown == FSpec => []ShownAsStatus
<1>1. BlinkInv => ShownAsStatus
  <2> SUFFICES ASSUME BlinkInv PROVE ShownAsStatus
    OBVIOUS
  <2>1. Range(Chain) = { c \in Cell : blink_array[c].location # 0 }
    BY ChainSeq DEF BlinkInv
  <2> SUFFICES ASSUME NEW c \in Cell, InUse(c)
               PROVE  \/ blink_array[c].location \in unsettled
                      \/ \E d \in Range(Chain) \ {c} :
                            blink_array[d].location = blink_array[c].location
                      \/ screen[blink_array[c].location] =
                            IF blink_array[c].status THEN "on" ELSE "off"
    BY <2>1 DEF ShownAsStatus, InUse
  <2>2. ASSUME NEW d \in Cell \ {c}, blink_array[d].location = blink_array[c].location
        PROVE  d \in Range(Chain) \ {c}
    BY <2>1, <2>2 DEF InUse
  <2> QED BY <2>2 DEF BlinkInv, ShownInv
<1> QED BY <1>1, BlinksInvariant, PTL

-----------------------------------------------------------------------------
(***************************************************************************)
(* The cells implement the list of module BlinkList.                       *)
(***************************************************************************)
\* A cell, and a sequence of cells, as BlinkList sees them.
Rec(b) == [location |-> b.location, on |-> b.on_length, off |-> b.off_length,
           togo |-> b.countdown, lit |-> b.status]

Image(s, a) == [k \in DOMAIN s |-> Rec(a[s[k]])]

Recs == [location : Nat, on : Nat, off : Nat, togo : Nat, lit : BOOLEAN]

\* The mapping, before and after a step.
LEMMA Mapping ==
    /\ Blinks = Image(Chain, blink_array)
    /\ Blinks' = Image(Chain', blink_array')
BY DEF Blinks, Image, Rec

\* What the list has at each place.
LEMMA ImageIs ==
    ASSUME NEW s \in Seq(Cell), NEW a \in [Cell -> Struct]
    PROVE  /\ Image(s, a) \in Seq(Recs) /\ Len(Image(s, a)) = Len(s)
           /\ DOMAIN Image(s, a) = 1 .. Len(s)
           /\ \A k \in 1 .. Len(s) : s[k] \in Cell /\ Image(s, a)[k] = Rec(a[s[k]])
<1>1. Len(s) \in Nat /\ DOMAIN s = 1 .. Len(s) /\ \A k \in 1 .. Len(s) : s[k] \in Cell
  BY LenProperties
<1>2. \A b \in Struct : Rec(b) \in Recs
  BY DEF Struct, Rec, Recs
<1>3. Image(s, a) = [k \in 1 .. Len(s) |-> Rec(a[s[k]])]
  BY <1>1 DEF Image
<1>4. Image(s, a) \in [1 .. Len(s) -> Recs]
  BY <1>1, <1>2, <1>3
<1>5. Image(s, a) \in Seq(Recs)
  BY <1>1, <1>4, IsASeq
<1>6. Len(Image(s, a)) = Len(s)
  BY <1>1, <1>3, <1>5, LenProperties
<1> QED BY <1>1, <1>3, <1>5, <1>6

\* The list keeps its types.
LEMMA BlinksSeq ==
    ASSUME ListInv
    PROVE  /\ Blinks \in Seq(Recs) /\ Len(Blinks) = Len(Chain) /\ Len(Chain) \in Nat
           /\ DOMAIN Blinks = 1 .. Len(Chain)
           /\ \A k \in 1 .. Len(Chain) :
                 Chain[k] \in Cell /\ Blinks[k] = Rec(blink_array[Chain[k]])
BY ChainSeq, ImageIs, Mapping DEF ListInv, BlinkType

\* BlinkList finds the first blink of a location where mp1_find_helper does.
LEMMA FirstIs ==
    ASSUME ListInv, NEW l \in Locations, Places(l) # {}
    PROVE  Min(Places(l)) \in Promise!First(Blinks, l) /\ Min(Places(l)) \in 1 .. Len(Chain)
<1>1. { k \in DOMAIN Blinks : Blinks[k].location = l } = Places(l)
  BY BlinksSeq, ChainSeq DEF Places, Rec
<1>2. Places(l) \in SUBSET Nat /\ Places(l) \subseteq 1 .. Len(Chain)
  BY ChainSeq DEF Places
<1>3. PICK n : n = Min(Places(l))
  OBVIOUS
<1>4. n \in Places(l) /\ \A k \in Places(l) : n <= k
  BY <1>2, <1>3, MinIs
<1>5. n \in DOMAIN Blinks /\ Blinks[n].location = l /\ n \in 1 .. Len(Chain)
  BY <1>1, <1>2, <1>4
<1>6. ASSUME NEW j \in 1 .. n - 1 PROVE Blinks[j].location # l
  <2>1. j \in DOMAIN Blinks /\ ~ (n <= j)
    BY <1>5, BlinksSeq
  <2> QED BY <1>1, <1>4, <2>1
<1> QED BY <1>3, <1>5, <1>6 DEF Promise!First

\* mp1_ioctl_add puts a blink in front.
LEMMA AddRefines ==
    ASSUME ListInv, NEW l \in Locations, NEW on \in Lengths, NEW off \in Lengths,
           mp1_malloc # NIL, mp1_ioctl_add(l, on, off)
    PROVE  Promise!AddBlink(Blinks, Blinks')
<1>1. PICK c : c = mp1_malloc
  OBVIOUS
<1> DEFINE s == <<c>> \o Chain
           r == [location |-> l, on |-> on, off |-> off, togo |-> on, lit |-> TRUE]
           t == <<r>> \o Blinks
<1>2. BlinkType' /\ Chain' = s /\ Holds(s, blink_array', mp1_list_head')
  BY <1>1, AddLinks
<1>3. /\ c \in Cell /\ blink_array[c].location = 0
      /\ \A k \in 1 .. Len(Chain) : Chain[k] # c
  BY <1>1, MallocIs
<1>4. blink_array' = [blink_array EXCEPT ![c] =
         [location |-> l, on_length |-> on, off_length |-> off,
          countdown |-> on, status |-> TRUE, next |-> mp1_list_head]]
  BY <1>1 DEF mp1_ioctl_add
<1>5. /\ Rec(blink_array'[c]) = r
      /\ \A k \in 1 .. Len(Chain) : blink_array'[Chain[k]] = blink_array[Chain[k]]
  BY <1>3, <1>4, BlinksSeq DEF ListInv, BlinkType, Rec
<1>6. r \in Recs
  BY LengthsPositive DEF Recs
<1> HIDE DEF r
<1>7. /\ s \in Seq(Cell) /\ Len(s) = 1 + Len(Chain)
      /\ \A k \in 1 .. 1 + Len(Chain) : s[k] = IF k <= 1 THEN c ELSE Chain[k - 1]
  <2>1. <<c>> \in Seq(Cell) /\ Len(<<c>>) = 1 /\ <<c>>[1] = c
    BY <1>3
  <2>2. /\ s \in Seq(Cell) /\ Len(s) = 1 + Len(Chain)
        /\ \A k \in 1 .. 1 + Len(Chain) : s[k] = IF k <= 1 THEN <<c>>[k] ELSE Chain[k - 1]
    BY <2>1, ChainSeq, ConcatProperties
  <2> HIDE DEF s
  <2>3. ASSUME NEW k \in 1 .. 1 + Len(Chain), k <= 1 PROVE k = 1
    BY <2>3, ChainSeq
  <2> QED BY <2>1, <2>2, <2>3
<1>8. /\ t \in Seq(Recs) /\ Len(t) = 1 + Len(Chain)
      /\ \A k \in 1 .. 1 + Len(Chain) : t[k] = IF k <= 1 THEN r ELSE Blinks[k - 1]
  <2>1. <<r>> \in Seq(Recs) /\ Len(<<r>>) = 1 /\ <<r>>[1] = r
    BY <1>6
  <2>2. /\ t \in Seq(Recs) /\ Len(t) = 1 + Len(Chain)
        /\ \A k \in 1 .. 1 + Len(Chain) : t[k] = IF k <= 1 THEN <<r>>[k] ELSE Blinks[k - 1]
    BY <2>1, BlinksSeq, ConcatProperties
  <2> HIDE DEF t
  <2>3. ASSUME NEW k \in 1 .. 1 + Len(Chain), k <= 1 PROVE k = 1
    BY <2>3, ChainSeq
  <2> QED BY <2>1, <2>2, <2>3
<1> HIDE DEF s, t
<1>9. /\ Blinks' \in Seq(Recs) /\ Len(Blinks') = Len(s)
      /\ \A k \in 1 .. Len(s) : Blinks'[k] = Rec(blink_array'[s[k]])
  BY <1>2, <1>7, ImageIs, Mapping DEF BlinkType
<1>10. ASSUME NEW k \in 1 .. 1 + Len(Chain) PROVE Blinks'[k] = t[k]
  <2>1. CASE k <= 1
    BY <1>5, <1>7, <1>8, <1>9, <2>1
  <2>2. CASE ~ (k <= 1)
    <3>1. k - 1 \in 1 .. Len(Chain)
      BY <2>2, BlinksSeq
    <3>2. s[k] = Chain[k - 1] /\ t[k] = Blinks[k - 1]
      BY <1>7, <1>8, <2>2
    <3> QED BY <1>5, <1>7, <1>9, <3>1, <3>2, BlinksSeq
  <2> QED BY <2>1, <2>2
<1>11. Blinks' = t
  BY <1>7, <1>8, <1>9, <1>10, SeqEqual
<1>12. Len(Blinks) < CELLS
  <2>1. Len(s) <= CELLS
    BY <1>2, ChainIs DEF Holds
  <2> QED BY <1>7, <2>1, BlinksSeq, BlinkAssumption
<1> QED BY <1>11, <1>12 DEF Promise!AddBlink, Lengths, t, r

\* mp1_ioctl_remove takes out the first blink at the location.
LEMMA RemoveRefines ==
    ASSUME ListInv, NEW l \in Locations, Places(l) # {}, mp1_ioctl_remove(l)
    PROVE  Promise!RemoveBlink(Blinks, Blinks')
<1>1. PICK n : n = Min(Places(l))
  OBVIOUS
<1>2. /\ n \in 1 .. Len(Chain) /\ BlinkType' /\ Chain' = Without(Chain, n)
      /\ \A d \in Cell \ {Chain[n]} :
            \E x \in Cell \cup {NIL} : blink_array'[d] = [blink_array[d] EXCEPT !.next = x]
  BY <1>1, RemoveLinks, Zenon
<1>3. PICK m \in Nat : m = Len(Chain)
  BY ChainSeq
<1>4. /\ Chain' \in Seq(Cell) /\ Len(Chain') = m - 1
      /\ \A j \in 1 .. m - 1 : Chain'[j] = IF j < n THEN Chain[j] ELSE Chain[j + 1]
  BY <1>2, <1>3, ChainWithout
<1>5. /\ Without(Blinks, n) \in Seq(Recs) /\ Len(Without(Blinks, n)) = m - 1
      /\ \A j \in 1 .. m - 1 : Without(Blinks, n)[j] = IF j < n THEN Blinks[j] ELSE Blinks[j + 1]
  <2>1. Blinks \in Seq(Recs) /\ n \in 1 .. Len(Blinks) /\ Len(Blinks) = m
    BY <1>2, <1>3, BlinksSeq
  <2> QED BY <2>1, Removed
<1>6. /\ Blinks' \in Seq(Recs) /\ Len(Blinks') = m - 1
      /\ \A j \in 1 .. m - 1 : Blinks'[j] = Rec(blink_array'[Chain'[j]])
  BY <1>2, <1>4, ImageIs, Mapping DEF BlinkType
<1>7. ASSUME NEW k \in 1 .. m, k # n
      PROVE  Rec(blink_array'[Chain[k]]) = Blinks[k]
  <2>1. Chain[k] \in Cell \ {Chain[n]}
    BY <1>2, <1>3, <1>7, ChainSeq
  <2>2. PICK x : blink_array'[Chain[k]] = [blink_array[Chain[k]] EXCEPT !.next = x]
    BY <1>2, <2>1, Zenon
  <2>3. blink_array[Chain[k]] \in Struct
    BY <2>1 DEF ListInv, BlinkType
  <2>4. Rec(blink_array'[Chain[k]]) = Rec(blink_array[Chain[k]])
    BY <2>2, <2>3, NextOnly DEF Rec
  <2> QED BY <1>3, <2>4, BlinksSeq
<1>8. ASSUME NEW j \in 1 .. m - 1 PROVE Blinks'[j] = Without(Blinks, n)[j]
  <2>1. CASE j < n
    <3>1. j \in 1 .. m /\ j # n
      BY <1>2, <1>3, <2>1
    <3> QED BY <1>4, <1>5, <1>6, <1>7, <2>1, <3>1
  <2>2. CASE ~ (j < n)
    <3>1. j + 1 \in 1 .. m /\ j + 1 # n
      BY <1>2, <1>3, <2>2
    <3> QED BY <1>4, <1>5, <1>6, <1>7, <2>2, <3>1
  <2> QED BY <2>1, <2>2
<1>9. Blinks' = Without(Blinks, n)
  BY <1>5, <1>6, <1>8, SeqEqual
<1> QED BY <1>1, <1>9, FirstIs, Zenon DEF Promise!RemoveBlink, Without

\* mp1_ioctl_sync hands the rhythm of one blink to the other.
LEMMA SyncRefines ==
    ASSUME ListInv, NEW l \in Locations, NEW m \in Locations,
           Places(l) # {}, Places(m) # {}, mp1_ioctl_sync(l, m)
    PROVE  Promise!SyncBlink(Blinks, Blinks')
<1>1. PICK x, y : x = Min(Places(l)) /\ y = Min(Places(m))
  OBVIOUS
<1>2. PICK from, to : from = Chain[x] /\ to = Chain[y]
  OBVIOUS
<1>3. /\ from \in Cell /\ to \in Cell
      /\ blink_array' = [blink_array EXCEPT ![to] =
            [location |-> m, on_length |-> blink_array[from].on_length,
             off_length |-> blink_array[from].off_length,
             countdown |-> blink_array[from].countdown,
             status |-> blink_array[from].status, next |-> blink_array[to].next]]
      /\ BlinkType' /\ Chain' = Chain
  BY <1>1, <1>2, SyncLinks
<1>4. x \in 1 .. Len(Chain) /\ y \in 1 .. Len(Chain)
  BY <1>1, FirstIs
<1>5. Blinks[x] = Rec(blink_array[from])
  BY <1>2, <1>4, BlinksSeq
<1>6. Rec(blink_array'[to]) = [Blinks[x] EXCEPT !.location = m]
  <2>1. Rec(blink_array'[to]) =
           [location |-> m, on |-> blink_array[from].on_length,
            off |-> blink_array[from].off_length, togo |-> blink_array[from].countdown,
            lit |-> blink_array[from].status]
    BY <1>3 DEF Rec, ListInv, BlinkType
  <2> QED BY <1>5, <2>1 DEF Rec
<1>7. \A d \in Cell \ {to} : blink_array'[d] = blink_array[d]
  BY <1>3 DEF ListInv, BlinkType
<1>8. /\ Blinks' \in Seq(Recs) /\ DOMAIN Blinks' = 1 .. Len(Chain)
      /\ \A k \in 1 .. Len(Chain) : Blinks'[k] = Rec(blink_array'[Chain[k]])
  <2>1. PICK s, a : s = Chain /\ a = blink_array'
    OBVIOUS
  <2>2. s \in Seq(Cell) /\ a \in [Cell -> Struct] /\ Blinks' = Image(s, a)
    BY <1>3, <2>1, ChainSeq, Mapping DEF BlinkType
  <2>3. /\ Image(s, a) \in Seq(Recs) /\ DOMAIN Image(s, a) = 1 .. Len(s)
        /\ \A k \in 1 .. Len(s) : Image(s, a)[k] = Rec(a[s[k]])
    BY <2>2, ImageIs
  <2> QED BY <2>1, <2>2, <2>3
<1>9. ASSUME NEW k \in 1 .. Len(Chain)
      PROVE  Blinks'[k] = IF k = y THEN [Blinks[x] EXCEPT !.location = m] ELSE Blinks[k]
  <2>1. CASE k = y
    BY <1>2, <1>6, <1>8, <2>1
  <2>2. CASE k # y
    <3>1. Chain[k] \in Cell \ {to}
      BY <1>2, <1>4, <2>2, ChainSeq
    <3> QED BY <1>7, <1>8, <2>2, <3>1, BlinksSeq
  <2> QED BY <2>1, <2>2
<1>10. Blinks = [k \in 1 .. Len(Chain) |-> Blinks[k]]
       /\ Blinks' = [k \in 1 .. Len(Chain) |-> Blinks'[k]]
  BY <1>8, BlinksSeq, Mapping DEF Image
<1>11. Blinks' = [Blinks EXCEPT ![y] = [Blinks[x] EXCEPT !.location = m]]
  BY <1>9, <1>10
<1>12. x \in Promise!First(Blinks, l) /\ y \in Promise!First(Blinks, m)
  BY <1>1, FirstIs
<1> QED BY <1>11, <1>12 DEF Promise!SyncBlink

\* A blink in use, ticked.
LEMMA TickedRec ==
    ASSUME NEW b, NEW d, b.countdown \in Nat, b.status \in BOOLEAN,
           d.location = b.location, d.on_length = b.on_length, d.off_length = b.off_length,
           IF b.countdown <= 1
           THEN /\ d.status = ~ b.status
                /\ d.countdown = IF b.status THEN b.off_length ELSE b.on_length
           ELSE d.status = b.status /\ d.countdown = b.countdown - 1
    PROVE  Rec(d) = LET r == Rec(b) IN
                    IF r.togo > 1 THEN [r EXCEPT !.togo = r.togo - 1]
                    ELSE [r EXCEPT !.lit = ~ r.lit, !.togo = IF r.lit THEN r.off ELSE r.on]
<1>1. PICK l, on, off, n, lit :
         /\ l = b.location /\ on = b.on_length /\ off = b.off_length
         /\ n = b.countdown /\ lit = b.status /\ n \in Nat /\ lit \in BOOLEAN
  BY Zenon
<1>2. PICK togo, now : togo = d.countdown /\ now = d.status
  BY Zenon
<1>3. PICK r : r = [location |-> l, on |-> on, off |-> off, togo |-> n, lit |-> lit]
  BY Zenon
<1>4. Rec(b) = r /\ Rec(d) = [location |-> l, on |-> on, off |-> off, togo |-> togo, lit |-> now]
  BY <1>1, <1>2, <1>3, Zenon DEF Rec
<1>5. IF n <= 1 THEN now = (~ lit) /\ togo = IF lit THEN off ELSE on
      ELSE now = lit /\ togo = n - 1
  BY <1>1, <1>2, Zenon
<1>6. r.togo = n /\ r.lit = lit /\ r.off = off /\ r.on = on
  BY <1>3
<1>7. CASE n <= 1
  <2>1. ~ (r.togo > 1)
    BY <1>1, <1>6, <1>7
  <2>2. ASSUME NEW f, NEW g
        PROVE  [r EXCEPT !.lit = f, !.togo = g] =
                  [location |-> l, on |-> on, off |-> off, togo |-> g, lit |-> f]
    <3>1. [r EXCEPT !.lit = f] =
             [location |-> l, on |-> on, off |-> off, togo |-> n, lit |-> f]
      BY <1>3
    <3>2. PICK q : q = [r EXCEPT !.lit = f]
      BY Zenon
    <3>3. q = [location |-> l, on |-> on, off |-> off, togo |-> n, lit |-> f]
      BY <3>1, <3>2, Zenon
    <3>4. [q EXCEPT !.togo = g] =
             [location |-> l, on |-> on, off |-> off, togo |-> g, lit |-> f]
      BY <3>3
    <3> QED BY <3>2, <3>4, Zenon
  <2>3. now = (~ r.lit) /\ togo = IF r.lit THEN r.off ELSE r.on
    BY <1>5, <1>6, <1>7, Zenon
  <2>4. Rec(d) = [r EXCEPT !.lit = ~ r.lit, !.togo = IF r.lit THEN r.off ELSE r.on]
    <3>1. Rec(d) = [r EXCEPT !.lit = now, !.togo = togo]
      BY <1>4, <2>2
    <3> QED BY <2>3, <3>1, Zenon
  <2> QED BY <1>4, <2>1, <2>4, Zenon
<1>8. CASE ~ (n <= 1)
  <2>1. r.togo > 1
    BY <1>1, <1>6, <1>8
  <2>2. now = lit /\ togo = r.togo - 1
    BY <1>5, <1>6, <1>8, Zenon
  <2>3. ASSUME NEW g
        PROVE  [r EXCEPT !.togo = g] =
                  [location |-> l, on |-> on, off |-> off, togo |-> g, lit |-> lit]
    BY <1>3
  <2>4. Rec(d) = [r EXCEPT !.togo = r.togo - 1]
    BY <1>4, <2>2, <2>3, Zenon
  <2> QED BY <1>4, <2>1, <2>4, Zenon
<1> QED BY <1>7, <1>8

\* mp1_rtc_tasklet ticks every blink once.
LEMMA TickRefines ==
    ASSUME ListInv, mp1_rtc_tasklet
    PROVE  Promise!TickBlinks(Blinks, Blinks')
<1> DEFINE Next1(r) == IF r.togo > 1 THEN [r EXCEPT !.togo = r.togo - 1]
                       ELSE [r EXCEPT !.lit = ~ r.lit, !.togo = IF r.lit THEN r.off ELSE r.on]
<1>1. Chain' = Chain /\ BlinkType'
  BY TickLinks
<1>2. /\ DOMAIN Blinks' = 1 .. Len(Chain)
      /\ \A k \in 1 .. Len(Chain) : Blinks'[k] = Rec(blink_array'[Chain[k]])
  BY <1>1, ChainSeq, ImageIs, Mapping DEF BlinkType
<1>3. ASSUME NEW k \in 1 .. Len(Chain) PROVE Blinks'[k] = Next1(Blinks[k])
  <2>1. PICK c \in Cell : c = Chain[k]
    BY BlinksSeq
  <2>2. blink_array[c].location # 0
    BY <2>1, ChainSeq, LengthsPositive
  <2>3. blink_array[c].countdown \in Nat /\ blink_array[c].status \in BOOLEAN
    BY DEF ListInv, BlinkType, Struct
  <2>4. /\ blink_array'[c].location = blink_array[c].location
        /\ blink_array'[c].on_length = blink_array[c].on_length
        /\ blink_array'[c].off_length = blink_array[c].off_length
        /\ IF blink_array[c].countdown <= 1
           THEN /\ blink_array'[c].status = ~ blink_array[c].status
                /\ blink_array'[c].countdown =
                      IF blink_array[c].status THEN blink_array[c].off_length
                      ELSE blink_array[c].on_length
           ELSE /\ blink_array'[c].status = blink_array[c].status
                /\ blink_array'[c].countdown = blink_array[c].countdown - 1
    BY <2>2, TickLinks
  <2>5. PICK b, d : b = blink_array[c] /\ d = blink_array'[c]
    BY Zenon
  <2>6. Rec(d) = Next1(Rec(b))
    <3>1. /\ b.countdown \in Nat /\ b.status \in BOOLEAN
          /\ d.location = b.location /\ d.on_length = b.on_length
          /\ d.off_length = b.off_length
          /\ IF b.countdown <= 1
             THEN /\ d.status = ~ b.status
                  /\ d.countdown = IF b.status THEN b.off_length ELSE b.on_length
             ELSE d.status = b.status /\ d.countdown = b.countdown - 1
      BY <2>3, <2>4, <2>5, Zenon
    <3> QED BY <3>1, TickedRec, Zenon
  <2> HIDE DEF Next1
  <2>7. Blinks'[k] = Rec(d) /\ Blinks[k] = Rec(b)
    BY <1>2, <2>1, <2>5, BlinksSeq
  <2> QED BY <2>6, <2>7
<1>4. Blinks' = [k \in DOMAIN Blinks |-> Next1(Blinks[k])]
  <2> HIDE DEF Next1
  <2>1. DOMAIN Blinks = 1 .. Len(Chain)
    BY BlinksSeq
  <2>2. Blinks' = [k \in 1 .. Len(Chain) |-> Blinks'[k]]
    BY <1>2, Mapping DEF Image
  <2> QED BY <1>3, <2>1, <2>2
<1> QED BY <1>4 DEF Promise!TickBlinks

\* Every step of fish maps to one step of the list or to none: the array, its free
\* cells and its pointers implement a list of blinks, for any number of cells,
\* places and lengths.
THEOREM ListKept == FSpec => KeepsList
<1>1. FInit => Blinks = << >>
  <2> SUFFICES ASSUME FInit PROVE Blinks = << >>
    OBVIOUS
  <2>1. ListInv /\ \A c \in Cell : blink_array[c].location = 0
    BY BlinksInit DEF BlinkInv, FInit, BlinkInit, Zeros
  <2>2. Len(Chain) = 0
    <3> SUFFICES ASSUME Len(Chain) # 0 PROVE FALSE
      OBVIOUS
    <3>1. 1 \in 1 .. Len(Chain)
      BY <2>1, ChainSeq
    <3> QED BY <2>1, <3>1, ChainSeq, LengthsPositive
  <2>3. Blinks \in Seq(Recs) /\ Len(Blinks) = 0
    BY <2>1, <2>2, BlinksSeq
  <2> QED BY <2>3, EmptySeq
<1>2. BlinkInv /\ [FNext]_allVars => [Promise!ListStep(Blinks, Blinks')]_Blinks
  <2> SUFFICES ASSUME BlinkInv, [FNext]_allVars
               PROVE  Promise!ListStep(Blinks, Blinks') \/ Blinks' = Blinks
    OBVIOUS
  <2>1. ListInv /\ (Changes \/ UNCHANGED blinkVars)
    BY BlinksStep DEF BlinkInv
  <2>2. CASE UNCHANGED blinkVars
    BY <2>2, Mapping DEF blinkVars, Chain
  <2>3. CASE Changes
    BY <2>1, <2>3, AddRefines, RemoveRefines, SyncRefines, TickRefines
       DEF Changes, Promise!ListStep
  <2> QED BY <2>1, <2>2, <2>3
<1> QED BY <1>1, <1>2, BlinksInvariant, PTL DEF FSpec, KeepsList, Promise!ListSpec
=============================================================================
