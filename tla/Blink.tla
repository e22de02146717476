-------------------------------- MODULE Blink --------------------------------
(***************************************************************************)
(* The blinking characters of the program fish: the array and the linked   *)
(* list of blink.S and fish.c, and the characters on the screen.  A cell   *)
(* is a number, NIL the null pointer.  Each blink draws its on character   *)
(* or its off character at its location.  The calls keep to the locations  *)
(* fish uses, which start behind 0: a cell with location 0 is free.        *)
(* mp1_ioctl_find is never called.                                         *)
(***************************************************************************)
EXTENDS Integers, Sequences, FiniteSets, FiniteSetsExt, Functions

CONSTANTS
    CELLS,          \* length of blink_array (80*25)
    Locations       \* places of the screen that are used

NIL == 0
Cell == 1 .. CELLS

ASSUME BlinkAssumption == CELLS \in Nat \ {0} /\ Locations \subseteq Nat \ {0}

VARIABLES
    blink_array,    \* [Cell -> struct mp1_blink_struct]
    mp1_list_head,
    screen,         \* [Locations -> "blank", "on" or "off"]
    unsettled       \* locations a sync has drawn, or a blink removed from them
                    \* may have drawn, and no tick since

blinkVars == <<blink_array, mp1_list_head, screen, unsettled>>

\* mp1_blink_struct filled with zeros.
Zeros == [location |-> 0, on_length |-> 0, off_length |-> 0, countdown |-> 0,
          status |-> FALSE, next |-> NIL]

BlinkInit ==
    /\ blink_array = [c \in Cell |-> Zeros]
    /\ mp1_list_head = NIL
    /\ screen = [l \in Locations |-> "blank"]
    /\ unsettled = {}

-----------------------------------------------------------------------------
\* The cell k pointers behind the head h of the array a, NIL from the end of the
\* list on.
Node(a, h) ==
    LET next == [c \in Cell \cup {NIL} |-> IF c = NIL THEN NIL ELSE a[c].next]
        after[k \in 0 .. CELLS] == IF k = 0 THEN h ELSE next[after[k - 1]]
    IN [k \in 0 .. CELLS |-> after[k]]
Cells(a, h) ==
    LET node == Node(a, h)
    IN [k \in 1 .. Cardinality({ n \in 0 .. CELLS : node[n] # NIL }) |-> node[k - 1]]
Chain == Cells(blink_array, mp1_list_head)

\* Mutant: the last cell of the list at the location.
FindLast(l) ==
    LET found == { k \in DOMAIN Chain : blink_array[Chain[k]].location = l }
    IN IF found = {} THEN NIL ELSE Chain[Max(found)]

\* The first cell of the list at a location.
mp1_find_helper(l) ==
    LET found == { k \in DOMAIN Chain : blink_array[Chain[k]].location = l }
    IN IF found = {} THEN NIL ELSE Chain[Min(found)]

mp1_malloc ==
    LET free == { c \in Cell : blink_array[c].location = 0 }
    IN IF free = {} THEN NIL ELSE Min(free)

mp1_poke(l, char) == screen' = [screen EXCEPT ![l] = char]

\* The new blink goes to the head of the list, turned on; with no cell left the
\* call fails.
mp1_ioctl_add(l, on, off) ==
    LET c == mp1_malloc IN
    IF c = NIL THEN UNCHANGED blinkVars
    ELSE /\ blink_array' = [blink_array EXCEPT ![c] =
                [location |-> l, on_length |-> on, off_length |-> off,
                 countdown |-> on, status |-> TRUE, next |-> mp1_list_head]]
         /\ mp1_list_head' = c
         /\ mp1_poke(l, "on")
         /\ unsettled' = unsettled \ {l}

\* Mutant: the cell is cleared first, and its next pointer with it.
FreeFirst(c) ==
    [d \in Cell |-> IF d = c THEN Zeros
                    ELSE IF blink_array[d].next = c
                    THEN [blink_array[d] EXCEPT !.next = NIL] ELSE blink_array[d]]

\* The cell before c gets its next pointer; mp1_free clears c.
Unlinked(c) ==
    [d \in Cell |-> IF d = c THEN Zeros
                    ELSE IF blink_array[d].next = c
                    THEN [blink_array[d] EXCEPT !.next = blink_array[c].next]
                    ELSE blink_array[d]]

mp1_ioctl_remove(l) ==
    LET c == mp1_find_helper(l) IN
    IF c = NIL THEN UNCHANGED blinkVars
    ELSE /\ blink_array' = Unlinked(c)
         /\ mp1_list_head' = IF mp1_list_head = c THEN blink_array[c].next
                             ELSE mp1_list_head
         /\ unsettled' = unsettled \cup {l}
         /\ UNCHANGED screen

Synced(from, to) ==
    [blink_array[to] EXCEPT !.on_length = blink_array[from].on_length,
                            !.off_length = blink_array[from].off_length,
                            !.countdown = blink_array[from].countdown,
                            !.status = blink_array[from].status]

\* testb leaves the sign and overflow flags clear, so cmovl never moves: the off
\* character is drawn whatever the status.
mp1_ioctl_sync(l, m) ==
    LET from == mp1_find_helper(l)
        to == mp1_find_helper(m)
    IN IF from = NIL \/ to = NIL THEN UNCHANGED blinkVars
       ELSE /\ blink_array' = [blink_array EXCEPT ![to] = Synced(from, to)]
            /\ mp1_poke(m, "off")
            /\ unsettled' = unsettled \cup {m}
            /\ UNCHANGED mp1_list_head

-----------------------------------------------------------------------------
Due(c) == blink_array[c].countdown - 1 <= 0

NextLength(b) == IF b.status THEN b.off_length ELSE b.on_length

\* Mutant: the status is not turned over.
StatusKept(c) ==
    LET b == blink_array[c] IN
    IF Due(c) THEN [b EXCEPT !.countdown = NextLength(b)]
    ELSE [b EXCEPT !.countdown = b.countdown - 1]

Ticked(c) ==
    LET b == blink_array[c] IN
    IF Due(c) THEN [b EXCEPT !.countdown = NextLength(b), !.status = ~ b.status]
    ELSE [b EXCEPT !.countdown = b.countdown - 1]

\* Every blink of the list counts down; one that is due is drawn with its other
\* character, the last of the list at a place over the others.
mp1_rtc_tasklet ==
    LET cells == Range(Chain)
        drawn(l) == { k \in DOMAIN Chain : blink_array[Chain[k]].location = l
                                            /\ Due(Chain[k]) }
        char(l) == IF blink_array[Chain[Max(drawn(l))]].status THEN "off" ELSE "on"
    IN /\ blink_array' = [c \in Cell |-> IF c \in cells THEN Ticked(c)
                                         ELSE blink_array[c]]
       /\ screen' = [l \in Locations |-> IF drawn(l) = {} THEN screen[l] ELSE char(l)]
       /\ unsettled' = { l \in unsettled : drawn(l) = {} }
       /\ UNCHANGED mp1_list_head

-----------------------------------------------------------------------------
(***************************************************************************)
(* Properties.                                                             *)
(***************************************************************************)
\* The pointers of blink.S form a list that ends, and the cells on it are those
\* in use: none is lost when another is removed, and none leaks.
ListSound ==
    /\ Node(blink_array, mp1_list_head)[CELLS] = NIL
    /\ Range(Chain) = { c \in Cell : blink_array[c].location # 0 }

\* A blink on the list has between one tick and the length of its phase to go:
\* mp1_ioctl_sync hands over a countdown that fits the lengths it hands over.
InPhase ==
    \A c \in Range(Chain) :
        LET b == blink_array[c] IN
        b.countdown \in 1 .. (IF b.status THEN b.on_length ELSE b.off_length)

\* Cells, pointers and countdowns are sound at every moment of add, remove, sync
\* and tick.
BlinksSound == ListSound /\ InPhase

\* The character on the screen is the one of the blink's status, where one blink
\* has the place to itself; after a sync, and when another blink of the place was
\* removed, only from its next change on.
ShownAsStatus ==
    \A c \in Range(Chain) :
        LET b == blink_array[c] IN
        \/ b.location \in unsettled
        \/ \E d \in Range(Chain) \ {c} : blink_array[d].location = b.location
        \/ screen[b.location] = IF b.status THEN "on" ELSE "off"
=============================================================================
