-------------------------------- MODULE Rtc --------------------------------
(***************************************************************************)
(* The real-time clock (rtc.c): one device, its interrupt handler, one     *)
(* flag per terminal, and the read and write calls of the threads of the   *)
(* terminals, which the timer schedules in turn.  rtc_open and rtc_close   *)
(* are never called: open and close (syscall.c) have those calls commented *)
(* out.                                                                    *)
(***************************************************************************)
EXTENDS Integers

CONSTANTS NUM_TERMINALS,
          Frequencies       \* the values programs write to the RTC

Term == 0 .. NUM_TERMINALS - 1

ASSUME RtcAssumption == NUM_TERMINALS \in Nat \ {0} /\ Frequencies \subseteq Int

DEFAULT_FREQ == 2

VARIABLES
    flags,          \* [Term -> BOOLEAN], flags[]
    rate,           \* low four bits of register A
    armed,          \* register C was read, so the device can interrupt again
    exec_term_id,
    pc,             \* [Term -> "user", "wait" or "clear"], in rtc_read
    asked,          \* the frequency the device should run at
    fresh           \* [Term -> BOOLEAN], an interrupt since its last read returned

vars == <<flags, rate, armed, exec_term_id, pc, asked, fresh>>

-----------------------------------------------------------------------------
Listed == { 1024, 512, 256, 128, 64, 32, 16, 8, 4, 2 }

\* Mutant: two rows of the table have each other's rate.
SwappedTable ==
    [f \in Listed |->
        CASE f = 1024 -> 7 [] f = 512 -> 6 [] f = 256 -> 8 [] f = 128 -> 9 [] f = 64 -> 10
          [] f = 32 -> 11 [] f = 16 -> 12 [] f = 8 -> 13 [] f = 4 -> 14 [] f = 2 -> 15]

\* The chain of comparisons of set_frequency.
RateOf ==
    [f \in Listed |->
        CASE f = 1024 -> 6 [] f = 512 -> 7 [] f = 256 -> 8 [] f = 128 -> 9 [] f = 64 -> 10
          [] f = 32 -> 11 [] f = 16 -> 12 [] f = 8 -> 13 [] f = 4 -> 14 [] f = 2 -> 15]

TooFast == { 2048, 4096, 8192, 16384, 32768 }

\* An unlisted frequency leaves rate uninitialized: any four bits.
Rates(f) == IF f \in Listed THEN { RateOf[f] } ELSE 0 .. 15

\* What the device does with a rate (external): 0 stops the interrupts, and 1
\* and 2 act like 8 and 9.
Hertz(r) == IF r = 0 THEN 0
            ELSE IF r < 3 THEN 32768 \div 2 ^ (r + 6)
            ELSE 32768 \div 2 ^ (r - 1)

Init ==
    /\ flags = [t \in Term |-> FALSE]
    /\ rate = RateOf[DEFAULT_FREQ]
    /\ armed = TRUE
    /\ exec_term_id = 0
    /\ pc = [t \in Term |-> "user"]
    /\ asked = DEFAULT_FREQ
    /\ fresh = [t \in Term |-> FALSE]

ReadsC == TRUE

rtc_handler ==
    /\ armed /\ Hertz(rate) > 0
    /\ armed' = ReadsC
    /\ flags' = [t \in Term |-> TRUE]
    /\ fresh' = [t \in Term |-> TRUE]
    /\ UNCHANGED <<rate, exec_term_id, pc, asked>>

ReadCall ==
    /\ pc[exec_term_id] = "user"
    /\ pc' = [pc EXCEPT ![exec_term_id] = "wait"]
    /\ UNCHANGED <<flags, rate, armed, exec_term_id, asked, fresh>>

\* The loop sees the flag; an interrupt may arrive before it is cleared.
ReadSees ==
    /\ pc[exec_term_id] = "wait"
    /\ flags[exec_term_id]
    /\ pc' = [pc EXCEPT ![exec_term_id] = "clear"]
    /\ UNCHANGED <<flags, rate, armed, exec_term_id, asked, fresh>>

\* Mutant: the flag stays set.
KeepFlag == flags

ClearFlag == [flags EXCEPT ![exec_term_id] = FALSE]

ReadClears ==
    /\ pc[exec_term_id] = "clear"
    /\ flags' = ClearFlag
    /\ fresh' = [fresh EXCEPT ![exec_term_id] = FALSE]
    /\ pc' = [pc EXCEPT ![exec_term_id] = "user"]
    /\ UNCHANGED <<rate, armed, exec_term_id, asked>>

rtc_read == ReadCall \/ ReadSees \/ ReadClears

rtc_write(f) ==
    /\ pc[exec_term_id] = "user"
    /\ IF f \in TooFast THEN UNCHANGED <<rate, asked>>
       ELSE /\ rate' \in Rates(f)
            /\ asked' = IF f \in Listed THEN f ELSE asked
    /\ UNCHANGED <<flags, armed, exec_term_id, pc, fresh>>

NextTerm == (exec_term_id + 1) % NUM_TERMINALS

\* pit_handler, all terminals started.
Schedule ==
    /\ exec_term_id' = NextTerm
    /\ UNCHANGED <<flags, rate, armed, pc, asked, fresh>>

Next == rtc_handler \/ rtc_read \/ Schedule \/ \E f \in Frequencies : rtc_write(f)

Spec == Init /\ [][Next]_vars

-----------------------------------------------------------------------------
TypeOK ==
    /\ flags \in [Term -> BOOLEAN]
    /\ rate \in 0 .. 15
    /\ armed \in BOOLEAN
    /\ exec_term_id \in Term
    /\ pc \in [Term -> { "user", "wait", "clear" }]
    /\ asked \in Int
    /\ fresh \in [Term -> BOOLEAN]

\* Every rtc_read returns, whatever the other terminals read and write.
EveryReadReturns == \A t \in Term : pc[t] = "wait" ~> pc[t] = "user"

\* The device runs at the last frequency that was accepted, by the equation of
\* set_frequency, frequency = 32768 >> (rate - 1), and so never above 1024 Hz.
\* (And the variables keep their types.)
RunsAsAsked ==
    /\ TypeOK
    /\ Hertz(rate) = asked /\ asked <= 1024
    /\ \A f \in Listed : Hertz(RateOf[f]) = f

\* Two reads of a terminal never return for one interrupt: a flag left over from
\* before the call lets rtc_read through at once (rtc.c:175), but it stands for an
\* interrupt no earlier read of the terminal returned for.
PacedByInterrupts ==
    [][\A t \in Term : pc[t] = "clear" /\ pc'[t] = "user" => fresh[t]]_vars
=============================================================================
