----------------------------- MODULE Interrupts -----------------------------
(***************************************************************************)
(* How interrupts reach the processor: the two 8259 controllers (i8259.c), *)
(* the wrappers (interrupt_wrapper.S), the frame of the three handlers     *)
(* (when they acknowledge, when they enable interrupts, what they return   *)
(* to), and the start-up that unmasks the lines one by one (kernel.c,      *)
(* boot).  What the handlers do besides is in Process, LineBuffer and Rtc. *)
(*                                                                         *)
(* Gates clear the interrupt flag; rtc_handler and the keyboard's switch   *)
(* of terminals set it again before they return, so handlers nest.  The    *)
(* timer leaves the interrupted handlers of a thread on its stack and goes *)
(* to another thread's.  In the running system all shells are started.     *)
(***************************************************************************)
EXTENDS Integers, Sequences, SequencesExt

CONSTANTS
    NUM_TERMINALS,
    MaxDepth            \* bound: handlers nested on the stack of one thread

Term == 0 .. NUM_TERMINALS - 1

ASSUME InterruptsAssumption ==
    NUM_TERMINALS \in Nat \ {0} /\ MaxDepth \in Nat \ {0}

PIT_IRQ == 0
KEYBOARD_IRQ == 1
CASCADE == 2            \* where the slave is connected to the master
RTC_IRQ == 8
Devices == { PIT_IRQ, KEYBOARD_IRQ, RTC_IRQ }
Irq == Devices \cup { CASCADE }

VARIABLES
    unmasked,   \* lines enabled in master_mask and slave_mask
    irr,        \* requests the controllers have latched
    isr,        \* lines in service, acknowledged by an EOI
    frames,     \* [Term -> Seq(Frame)], handlers on the stack of a thread
    armed,      \* register C was read, so the RTC can interrupt again
    exec_term_id,
    stage       \* the call the start-up makes next, or "run"

vars == <<unmasked, irr, isr, frames, armed, exec_term_id, stage>>

Stages == <<"i8259_init", "init_keyboard", "init_rtc", "load", "init_pit",
            "enter", "run">>

\* A handler before its EOI, or after it with interrupts enabled.
Frame == { "pit", "keyboard", "rtc", "switched", "rtc_out" }

Stack == frames[exec_term_id]
Top == IF Stack = <<>> THEN "none" ELSE Last(Stack)
Return == [frames EXCEPT ![exec_term_id] = Front(@)]
Replace(f) == [frames EXCEPT ![exec_term_id] = Append(Front(@), f)]

\* init_rtc is the first to enable interrupts; load stands for the rest of
\* entry and for boot up to processes[0] = 1.
InterruptsOn ==
    IF Stack = <<>> THEN stage \in { "load", "init_pit", "enter", "run" }
    ELSE Top \in { "switched", "rtc_out" }

-----------------------------------------------------------------------------
Init ==
    /\ unmasked = {}
    /\ irr = {}
    /\ isr = {}
    /\ frames = [t \in Term |-> <<>>]
    /\ armed = TRUE
    /\ exec_term_id = 0
    /\ stage = "i8259_init"

\* Mutants: i8259_init leaves the timer line open, or the cascade closed.
TimerOpen(s) ==
    CASE s = "i8259_init"    -> { CASCADE, PIT_IRQ }
      [] s = "init_keyboard" -> { KEYBOARD_IRQ }
      [] s = "init_rtc"      -> { RTC_IRQ }
      [] OTHER               -> {}
NoCascade(s) ==
    CASE s = "init_keyboard" -> { KEYBOARD_IRQ }
      [] s = "init_rtc"      -> { RTC_IRQ }
      [] s = "init_pit"      -> { PIT_IRQ }
      [] OTHER               -> {}

enable_irq(s) ==
    CASE s = "i8259_init"    -> { CASCADE }
      [] s = "init_keyboard" -> { KEYBOARD_IRQ }
      [] s = "init_rtc"      -> { RTC_IRQ }
      [] s = "init_pit"      -> { PIT_IRQ }
      [] OTHER               -> {}

\* One call of entry or boot.  Nobody presses Alt+F2 before the shells are
\* loaded.
Start ==
    /\ stage # "run"
    /\ Stack = <<>>
    /\ unmasked' = unmasked \cup enable_irq(stage)
    /\ stage' = Stages[1 + CHOOSE k \in DOMAIN Stages : Stages[k] = stage]
    /\ UNCHANGED <<irr, isr, frames, armed, exec_term_id>>

-----------------------------------------------------------------------------
(***************************************************************************)
(* The devices and the controllers (external).                             *)
(***************************************************************************)
\* The RTC does not interrupt again before register C is read.
CanRaise(q) == q = RTC_IRQ => armed

\* A request that comes while interrupts are disabled is latched and noticed
\* when they are enabled again; here it comes then.  A handler is much shorter
\* than the time between two interrupts of a device.
Raise(q) ==
    /\ InterruptsOn
    /\ q \notin irr
    /\ CanRaise(q)
    /\ irr' = irr \cup {q}
    /\ UNCHANGED <<unmasked, isr, frames, armed, exec_term_id, stage>>

\* The line of the master a request comes in by, and the lines it puts in
\* service.
MasterLine(q) == IF q = RTC_IRQ THEN CASCADE ELSE q
Serviced(q) == { q, MasterLine(q) }

\* Fully nested: nothing of the same or a higher priority is in service, and no
\* request has a higher priority.
Deliverable(q) ==
    /\ q \in irr
    /\ Serviced(q) \subseteq unmasked
    /\ Serviced(q) \cap isr = {}
    /\ \A s \in isr : MasterLine(q) < MasterLine(s)
    /\ \A r \in irr : Serviced(r) \subseteq unmasked => MasterLine(q) <= MasterLine(r)

\* The handler's gate.
Accept(q) ==
    /\ InterruptsOn
    /\ Deliverable(q)
    /\ Len(Stack) < MaxDepth
    /\ irr' = irr \ {q}
    /\ isr' = isr \cup Serviced(q)
    /\ frames' = [frames EXCEPT ![exec_term_id] = Append(@,
                     CASE q = PIT_IRQ -> "pit" [] q = RTC_IRQ -> "rtc"
                       [] OTHER -> "keyboard")]
    /\ armed' = IF q = RTC_IRQ THEN FALSE ELSE armed
    /\ UNCHANGED <<unmasked, exec_term_id, stage>>

-----------------------------------------------------------------------------
(***************************************************************************)
(* The handlers.                                                           *)
(***************************************************************************)
\* The lines an end of interrupt takes out of service.
send_eoi(q) == IF q >= 8 THEN { q, CASCADE } ELSE { q }

\* Mutant: register C is not read.
NoReadC == FALSE

ReadsC == TRUE

\* Up to the sti.
rtc_handler ==
    /\ Top = "rtc"
    /\ armed' = ReadsC
    /\ isr' = isr \ send_eoi(RTC_IRQ)
    /\ frames' = Replace("rtc_out")
    /\ UNCHANGED <<unmasked, irr, exec_term_id, stage>>

\* Any key but a switch of terminals: no interrupt until the iret.
keyboard_handler ==
    /\ Top = "keyboard"
    /\ isr' = isr \ send_eoi(KEYBOARD_IRQ)
    /\ frames' = Return
    /\ UNCHANGED <<unmasked, irr, armed, exec_term_id, stage>>

\* Mutant: switch_displaying_term leaves the EOI to the end of the handler.
LateEoi == {}

EarlyEoi == send_eoi(KEYBOARD_IRQ)

\* Alt+F(t+1): the EOI inside switch_displaying_term, then the sti of
\* set_buffer.
SwitchHandler ==
    /\ Top = "keyboard"
    /\ stage = "run"
    /\ isr' = isr \ EarlyEoi
    /\ frames' = Replace("switched")
    /\ UNCHANGED <<unmasked, irr, armed, exec_term_id, stage>>

\* What is left of a handler after its sti: the second EOI of a switch, iret.
HandlerReturn ==
    /\ Top \in { "switched", "rtc_out" }
    /\ isr' = IF Top = "switched" THEN isr \ send_eoi(KEYBOARD_IRQ) ELSE isr
    /\ frames' = Return
    /\ UNCHANGED <<unmasked, irr, armed, exec_term_id, stage>>

next_executing_term == (exec_term_id + 1) % NUM_TERMINALS

\* pit_handler and the iret of the thread it turns to: before the first shell
\* is entered that is the interrupted one.
pit_handler ==
    /\ Top = "pit"
    /\ isr' = isr \ send_eoi(PIT_IRQ)
    /\ frames' = Return
    /\ exec_term_id' = IF stage = "run" THEN next_executing_term
                       ELSE exec_term_id
    /\ UNCHANGED <<unmasked, irr, armed, stage>>

Handler == rtc_handler \/ keyboard_handler \/ SwitchHandler \/ pit_handler

Next ==
    \/ Start \/ Handler \/ HandlerReturn
    \/ \E q \in Devices : Raise(q) \/ Accept(q)

Spec == Init /\ [][Next]_vars

\* Timer and RTC keep interrupting and the kernel keeps running; interrupts are
\* rare enough that neither the start-up nor the return of a handler is
\* interrupted every time it could go on.
Fairness ==
    /\ SF_vars(Start)
    /\ WF_vars(Handler)
    /\ SF_vars(Raise(PIT_IRQ)) /\ SF_vars(Raise(RTC_IRQ))
    /\ \A q \in Devices : SF_vars(Accept(q))
    /\ \A t \in Term, d \in 1 .. MaxDepth :
          SF_vars(exec_term_id = t /\ Len(Stack) = d /\ HandlerReturn)

FairSpec == Spec /\ Fairness

-----------------------------------------------------------------------------
TypeOK ==
    /\ unmasked \subseteq Irq
    /\ irr \subseteq Devices
    /\ isr \subseteq Irq
    /\ frames \in [Term -> Seq(Frame)]
    /\ \A t \in Term : Len(frames[t]) <= MaxDepth
    /\ armed \in BOOLEAN
    /\ exec_term_id \in Term
    /\ stage \in { Stages[k] : k \in DOMAIN Stages }

\* Whenever interrupts are enabled no line is in service: a thread the timer
\* takes off the processor in the middle of a handler (terminal.c:59 sends the
\* EOI before the handler is done for that reason) never leaves a line blocked
\* while it waits for its turn.  (And the variables keep their types.)
NothingInService == TypeOK /\ (InterruptsOn => isr = {})

\* A tick never comes before there is an active process for next_executing_term
\* to find: its loop (terminal.c:104) would not end.
TickFindsShell == Top = "pit" => stage \in { "init_pit", "enter", "run" }

\* Every request of an unmasked line is served, whatever is nested in what and
\* whichever threads are parked inside handlers.
RequestsServed ==
    \A q \in Devices : q \in irr /\ q \in unmasked ~> q \in isr

\* The RTC never falls silent: it is served again and again (rtc.c:121-126 read
\* register C and acknowledge both controllers), which every rtc_read needs.
RtcNeverSilent == []<>(RTC_IRQ \in isr)
=============================================================================
