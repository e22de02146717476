----------------------------- MODULE BlinkList -----------------------------
(***************************************************************************)
(* What the calls of blink.S promise: a list of at most CAPACITY blinks.   *)
(* Each action says how the list may go from old to new.                   *)
(***************************************************************************)
EXTENDS Integers, Sequences

CONSTANTS Locations, CAPACITY,
          Lengths           \* lengths of a phase

VARIABLE list

\* The place of the first blink at a location, if there is one.
First(old, l) ==
    { k \in DOMAIN old :
        old[k].location = l /\ \A j \in 1 .. k - 1 : old[j].location # l }

AddBlink(old, new) ==
    /\ Len(old) < CAPACITY
    /\ \E l \in Locations, on, off \in Lengths :
          new = << [location |-> l, on |-> on, off |-> off,
                    togo |-> on, lit |-> TRUE] >> \o old

RemoveBlink(old, new) ==
    \E l \in Locations : \E k \in First(old, l) :
        new = SubSeq(old, 1, k - 1) \o SubSeq(old, k + 1, Len(old))

\* The blink keeps its place and takes the rhythm of the other.
SyncBlink(old, new) ==
    \E l, m \in Locations : \E x \in First(old, l), y \in First(old, m) :
        new = [old EXCEPT ![y] = [old[x] EXCEPT !.location = m]]

TickBlinks(old, new) ==
    new = [k \in DOMAIN old |->
              LET b == old[k] IN
              IF b.togo > 1 THEN [b EXCEPT !.togo = b.togo - 1]
              ELSE [b EXCEPT !.lit = ~ b.lit,
                             !.togo = IF b.lit THEN b.off ELSE b.on]]

ListStep(old, new) ==
    \/ AddBlink(old, new) \/ RemoveBlink(old, new)
    \/ SyncBlink(old, new) \/ TickBlinks(old, new)

ListSpec == list = << >> /\ [][ListStep(list, list')]_list
=============================================================================
