-------------------------------- MODULE Fish --------------------------------
(***************************************************************************)
(* The program fish in terminal 0, over the real-time clock it shares with *)
(* the programs of the other terminals: main of fish.c, whose loops read   *)
(* the RTC and move the blinks of module Blink.  The characters add_frames *)
(* finds in the two frame files (module Frames) are any set of places.     *)
(***************************************************************************)
EXTENDS Rtc, Blink

CONSTANTS
    FrameLocations, \* places the frames can have characters at
    FRAME_LENGTH,   \* on_length and off_length of add_frames (15)
    SOURCE,         \* location 40
    IM,             \* location 6*80+60
    IM_ON, IM_OFF,  \* 7 and 6
    FISH_FREQ,      \* 32
    WAIT            \* reads of one loop (100)

ASSUME FishAssumption ==
    /\ FrameLocations \cup { SOURCE, IM } \subseteq Locations
    /\ { FRAME_LENGTH, IM_ON, IM_OFF, WAIT } \subseteq Nat \ {0}
    /\ FISH_FREQ \in Listed

VARIABLES
    stage,          \* 0 adding frames, 1 to 4 the loops of main, 5 returned
    left,           \* places of the frames add_frames has still to come to
    i,              \* reads made in this loop
    ticking         \* the read has returned, mp1_rtc_tasklet is called next

fishVars == <<stage, left, i, ticking>>
allVars == <<vars, blinkVars, fishVars>>

FInit ==
    /\ Init /\ BlinkInit
    /\ stage = 0
    /\ left = FrameLocations
    /\ i = 0
    /\ ticking = FALSE

\* fish is on the processor and not inside rtc_read.
Running == exec_term_id = 0 /\ pc[0] = "user" /\ ~ ticking

\* Mutant: the loop is left one read later than it reads.
LoopLate(k) == Running /\ stage = k /\ i = WAIT + 1

LoopDone(k) == Running /\ stage = k /\ i = WAIT

add_frames ==
    /\ Running /\ stage = 0 /\ left # {}
    /\ left' = left \ { Min(left) }
    /\ \/ mp1_ioctl_add(Min(left), FRAME_LENGTH, FRAME_LENGTH)
       \/ UNCHANGED blinkVars
    /\ UNCHANGED <<vars, stage, i, ticking>>

SetRate ==
    /\ Running /\ stage = 0 /\ left = {}
    /\ rtc_write(FISH_FREQ)
    /\ stage' = 1
    /\ UNCHANGED <<blinkVars, left, i, ticking>>

Read ==
    /\ Running /\ stage \in 1 .. 4 /\ i < WAIT
    /\ ReadCall
    /\ UNCHANGED <<blinkVars, fishVars>>

Tick ==
    /\ exec_term_id = 0 /\ ticking
    /\ mp1_rtc_tasklet
    /\ ticking' = FALSE
    /\ i' = i + 1
    /\ UNCHANGED <<vars, stage, left>>

NextLoop(k) ==
    /\ LoopDone(k)
    /\ stage' = k + 1
    /\ i' = 0
    /\ UNCHANGED <<vars, left, ticking>>

AddIM == NextLoop(1) /\ mp1_ioctl_add(IM, IM_ON, IM_OFF)
SyncIM == NextLoop(2) /\ mp1_ioctl_sync(SOURCE, IM)
RemoveIM == NextLoop(3) /\ mp1_ioctl_remove(IM)
Return == NextLoop(4) /\ UNCHANGED blinkVars

main == add_frames \/ SetRate \/ Read \/ Tick \/ AddIM \/ SyncIM \/ RemoveIM \/ Return

\* The wait inside rtc_read, of fish and of the others.
InRead ==
    /\ ReadSees \/ ReadClears
    /\ ticking' = (ticking \/ (exec_term_id = 0 /\ pc'[0] = "user"))
    /\ UNCHANGED <<blinkVars, stage, left, i>>

\* The other programs read the RTC and set it.
OtherPrograms ==
    /\ exec_term_id # 0
    /\ ReadCall \/ \E f \in Frequencies : rtc_write(f)
    /\ UNCHANGED <<blinkVars, fishVars>>

Machine == (rtc_handler \/ Schedule) /\ UNCHANGED <<blinkVars, fishVars>>

FNext == main \/ InRead \/ OtherPrograms \/ Machine

\* As in module Rtc; fish's thread runs on in the slices it is given.
FFairness ==
    /\ WF_allVars(rtc_handler /\ UNCHANGED <<blinkVars, fishVars>>)
    /\ WF_allVars(Schedule /\ UNCHANGED <<blinkVars, fishVars>>)
    /\ \A t \in Term : SF_allVars(exec_term_id = t /\ InRead)
    /\ SF_allVars(main)

FSpec == FInit /\ [][FNext]_allVars /\ FFairness

-----------------------------------------------------------------------------
(***************************************************************************)
(* Properties.                                                             *)
(***************************************************************************)
\* main returns, whatever frequencies the programs of the other terminals set
\* meanwhile and however often they read.
FishEnds == <>(stage = 5)

\* fish and the readers of the other terminals all go on.
Progress == FishEnds /\ EveryReadReturns

Blinks ==
    LET chain == Chain IN
    [k \in DOMAIN chain |->
        LET b == blink_array[chain[k]] IN
        [location |-> b.location, on |-> b.on_length, off |-> b.off_length,
         togo |-> b.countdown, lit |-> b.status]]

\* The list is what the calls made of it (module BlinkList).
Promise == INSTANCE BlinkList WITH
    CAPACITY <- CELLS,
    Lengths <- { FRAME_LENGTH, IM_ON, IM_OFF },
    list <- Blinks

\* Cells and pointers implement a list: a new blink in front, a call for a location
\* on the first blink there, and every tick on every blink once.
KeepsList == Promise!ListSpec
=============================================================================
