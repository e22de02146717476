-------------------------- MODULE InterruptsProofs --------------------------
(***************************************************************************)
(* Theorems about Interrupts, for any number of threads and handlers       *)
(* nested to any depth.                                                    *)
(***************************************************************************)
EXTENDS Interrupts, SequenceTheorems, TLAPS

(***************************************************************************)
(* The strengthening.  What is in service is what the handler on top of    *)
(* the running stack still has to acknowledge; a handler below the top, or *)
(* on the stack of a thread that waits for its turn, is past its EOI.      *)
(***************************************************************************)
Out == { "switched", "rtc_out" }

InService(f) ==
    CASE f = "pit" -> { PIT_IRQ }
      [] f = "keyboard" -> { KEYBOARD_IRQ }
      [] f = "rtc" -> { RTC_IRQ, CASCADE }
      [] OTHER -> {}

ServiceInv == isr = InService(Top)

ParkedInv ==
    \A t \in Term : \A k \in 1 .. Len(frames[t]) :
        frames[t][k] \in Out \/ (t = exec_term_id /\ k = Len(frames[t]))

\* The timer's line is opened last, when the shells are loaded.
TimerInv ==
    PIT_IRQ \in unmasked \/ Top = "pit" => stage \in { "enter", "run" }

IInv == TypeOK /\ ServiceInv /\ ParkedInv /\ TimerInv

-----------------------------------------------------------------------------
\* Pushing a handler's frame (the gate) leaves the frames below it alone.
LEMMA PushFrame ==
    ASSUME NEW s \in Seq(Frame), NEW f \in Frame
    PROVE  /\ Append(s, f) \in Seq(Frame) /\ Append(s, f) # <<>>
           /\ Len(Append(s, f)) = Len(s) + 1
           /\ Last(Append(s, f)) = f
           /\ \A k \in 1 .. Len(s) : Append(s, f)[k] = s[k]
BY DEF Last

\* Popping one (iret) does too.
LEMMA PopFrame ==
    ASSUME NEW s \in Seq(Frame), s # <<>>
    PROVE  /\ Front(s) \in Seq(Frame)
           /\ Len(Front(s)) = Len(s) - 1
           /\ \A k \in 1 .. Len(s) - 1 : Front(s)[k] = s[k]
<1>1. Len(s) \in Nat \ {0}
  OBVIOUS
<1>2. \A i \in 1 .. Len(s) - 1 : s[i] \in Frame
  BY <1>1
<1> DEFINE n == Len(s) - 1
<1>3. n \in Int /\ 1 \in Int /\ n - 1 + 1 = n /\ n >= 0
  BY <1>1
<1>4. /\ SubSeq(s, 1, n) \in Seq(Frame)
      /\ Len(SubSeq(s, 1, n)) = IF 1 <= n THEN n - 1 + 1 ELSE 0
      /\ \A i \in 1 .. n - 1 + 1 : SubSeq(s, 1, n)[i] = s[1 + i - 1]
  <2> HIDE DEF n
  <2> QED BY <1>2, <1>3, SubSeqProperties DEF n
<1>5. Front(s) = SubSeq(s, 1, n)
  BY DEF Front
<1>6. Len(Front(s)) = n /\ Front(s) \in Seq(Frame)
  <2> HIDE DEF n
  <2> QED BY <1>3, <1>4, <1>5
<1>7. ASSUME NEW k \in 1 .. Len(s) - 1 PROVE Front(s)[k] = s[k]
  <2>1. 1 + k - 1 = k /\ k \in 1 .. n - 1 + 1
    BY <1>1, <1>7
  <2> QED BY <1>4, <1>5, <2>1
<1> QED
  BY <1>6, <1>7

\* The frame on top is one of the stack.
LEMMA TopFrame ==
    ASSUME TypeOK
    PROVE  /\ Stack \in Seq(Frame)
           /\ Stack = <<>> => Top = "none"
           /\ Stack # <<>> => Top = Stack[Len(Stack)] /\ Top \in Frame
                              /\ Len(Stack) \in Nat \ {0}
<1>1. exec_term_id \in Term /\ frames \in [Term -> Seq(Frame)]
  BY DEF TypeOK
<1>2. Stack \in Seq(Frame)
  BY <1>1 DEF Stack
<1> QED
  BY <1>2 DEF Top, Last

\* Interrupts are enabled only when what is on top has been acknowledged.
LEMMA OnMeansOut ==
    ASSUME IInv
    PROVE  InterruptsOn => isr = {}
<1>1. Stack = <<>> => Top = "none"
  BY TopFrame DEF IInv
<1> QED
  BY <1>1 DEF IInv, ServiceInv, InService, InterruptsOn

\* The system starts with every line masked and no handler running.
LEMMA InitInv == Init => IInv
<1> SUFFICES ASSUME Init PROVE IInv
  OBVIOUS
<1> USE InterruptsAssumption DEF Init
<1>1. 0 \in Term
  BY DEF Term
<1>2. stage \in { Stages[k] : k \in DOMAIN Stages }
  <2>1. 1 \in DOMAIN Stages /\ Stages[1] = "i8259_init"
    BY DEF Stages
  <2> QED BY <2>1
<1>3. TypeOK
  BY <1>1, <1>2 DEF TypeOK
<1>4. Top = "none"
  BY <1>1 DEF Top, Stack
<1>5. ServiceInv
  BY <1>4 DEF ServiceInv, InService
<1>6. ParkedInv
  BY DEF ParkedInv
<1>7. TimerInv
  BY <1>4 DEF TimerInv
<1> QED
  BY <1>3, <1>5, <1>6, <1>7 DEF IInv

\* The names of the stages and their order (entry and boot, kernel.c).
LEMMA StageOrder ==
    ASSUME stage \in { Stages[k] : k \in DOMAIN Stages }, Start
    PROVE  /\ stage' \in { Stages[k] : k \in DOMAIN Stages }
           /\ stage = "init_pit" => stage' = "enter"
           /\ stage = "enter" => stage' = "run"
<1> DEFINE n == CHOOSE k \in DOMAIN Stages : Stages[k] = stage
<1>1. DOMAIN Stages = 1 .. 7
  BY DEF Stages
<1>2. n \in 1 .. 7 /\ Stages[n] = stage
  BY <1>1
<1>3. n # 7
  BY <1>2 DEF Start, Stages
<1>4. stage' = Stages[1 + n]
  BY DEF Start
<1> HIDE DEF n
<1>5. 1 + n \in 1 .. 7
  BY <1>2, <1>3
<1>6. stage' \in { Stages[k] : k \in DOMAIN Stages }
  BY <1>1, <1>4, <1>5
<1>7. stage = "init_pit" => n = 5
  BY <1>2 DEF Stages
<1>8. stage = "enter" => n = 6
  BY <1>2 DEF Stages
<1> QED
  BY <1>4, <1>6, <1>7, <1>8 DEF Stages

-----------------------------------------------------------------------------
\* Every step keeps the invariant; one step per action.
LEMMA NextInv == IInv /\ [Next]_vars => IInv'
<1> SUFFICES ASSUME IInv, [Next]_vars PROVE IInv'
  OBVIOUS
<1> USE InterruptsAssumption DEF IInv
<1>1. /\ exec_term_id \in Term /\ frames \in [Term -> Seq(Frame)]
      /\ Stack \in Seq(Frame)
      /\ \A t \in Term : Len(frames[t]) <= MaxDepth
  BY TopFrame DEF TypeOK
<1>2. CASE Start
  <2>1. Top' = Top /\ Top = "none" /\ Stack' = <<>>
    BY <1>2, TopFrame DEF Start, Top, Stack
  <2>2. enable_irq(stage) \subseteq Irq
    BY DEF enable_irq, Irq, Devices
  <2>3. TypeOK'
    BY <1>2, <2>2, StageOrder DEF TypeOK, Start
  <2>4. PIT_IRQ \in enable_irq(stage) => stage = "init_pit"
    BY DEF enable_irq, PIT_IRQ, CASCADE, KEYBOARD_IRQ, RTC_IRQ
  <2>5. TimerInv'
    BY <1>2, <2>1, <2>4, StageOrder DEF TimerInv, TypeOK, Start
  <2> QED
    BY <1>2, <2>1, <2>3, <2>5 DEF Start, ServiceInv, ParkedInv
<1>3. ASSUME NEW q \in Devices, Raise(q) PROVE IInv'
  <2>1. Top' = Top
    BY <1>3 DEF Raise, Top, Stack
  <2> QED
    BY <1>3, <2>1 DEF Raise, TypeOK, ServiceInv, ParkedInv, TimerInv
<1>4. ASSUME NEW q \in Devices, Accept(q) PROVE IInv'
  <2> DEFINE f == CASE q = PIT_IRQ -> "pit" [] q = RTC_IRQ -> "rtc"
                    [] OTHER -> "keyboard"
  <2>1. f \in Frame
    BY DEF Frame
  <2>2. frames' = [frames EXCEPT ![exec_term_id] = Append(Stack, f)]
    BY <1>1, <1>4 DEF Accept, Stack
  <2>3. isr = {} /\ isr' = Serviced(q) /\ Serviced(q) = InService(f)
    BY <1>4, OnMeansOut DEF Accept, Serviced, MasterLine, InService, Devices,
       PIT_IRQ, KEYBOARD_IRQ, RTC_IRQ, CASCADE
  <2>4. f = "pit" => PIT_IRQ \in unmasked
    BY <1>4 DEF Accept, Deliverable, Serviced
  <2> HIDE DEF f
  <2>5. /\ frames' \in [Term -> Seq(Frame)]
        /\ \A t \in Term : t # exec_term_id => frames'[t] = frames[t]
        /\ frames'[exec_term_id] = Append(Stack, f)
    BY <1>1, <2>1, <2>2, PushFrame
  <2>6. Top' = f /\ exec_term_id' = exec_term_id
    BY <1>1, <1>4, <2>1, <2>5, PushFrame DEF Accept, Top, Stack
  <2>7. TypeOK'
    <3>1. \A t \in Term : Len(frames'[t]) <= MaxDepth
      BY <1>1, <1>4, <2>1, <2>5, PushFrame DEF Accept
    <3>2. isr' \subseteq Irq
      BY <2>3 DEF Serviced, MasterLine, Irq
    <3> QED
      BY <1>4, <2>5, <3>1, <3>2 DEF Accept, TypeOK
  <2>8. ServiceInv'
    BY <2>3, <2>6 DEF ServiceInv, InService
  <2>9. ParkedInv'
    <3>1. \A k \in 1 .. Len(Stack) : Stack[k] \in Out
      <4>1. CASE Stack = <<>>
        BY <4>1
      <4>2. CASE Stack # <<>>
        BY <1>1, <1>4, <4>2, TopFrame DEF Accept, InterruptsOn, ParkedInv, Stack, Out
      <4> QED BY <4>1, <4>2
    <3>2. \A k \in 1 .. Len(Stack) + 1 :
             Append(Stack, f)[k] \in Out \/ k = Len(Append(Stack, f))
      BY <1>1, <2>1, <3>1, PushFrame
    <3>3. ASSUME NEW t \in Term, NEW k \in 1 .. Len(frames'[t])
          PROVE  frames'[t][k] \in Out \/ (t = exec_term_id /\ k = Len(frames'[t]))
      <4>1. CASE t = exec_term_id
        <5>1. frames'[t] = Append(Stack, f) /\ Len(frames'[t]) = Len(Stack) + 1
          BY <1>1, <2>1, <2>5, <4>1, PushFrame
        <5>2. k \in 1 .. Len(Stack) + 1
          BY <5>1
        <5> QED BY <3>2, <4>1, <5>1, <5>2
      <4>2. CASE t # exec_term_id
        BY <2>5, <4>2 DEF ParkedInv
      <4> QED BY <4>1, <4>2
    <3> QED
      BY <2>6, <3>3 DEF ParkedInv
  <2>10. TimerInv'
    BY <1>4, <2>4, <2>6 DEF TimerInv, Accept
  <2> QED
    BY <2>7, <2>8, <2>9, <2>10
<1>5. ASSUME NEW g \in Out, Stack # <<>>, frames' = Replace(g), isr' = {},
             UNCHANGED <<unmasked, irr, exec_term_id, stage>>, armed' \in BOOLEAN
      PROVE  IInv'
  <2>1. g \in Frame /\ g # "pit" /\ InService(g) = {}
    BY DEF Out, Frame, InService
  <2>2. Front(Stack) \in Seq(Frame) /\ Len(Front(Stack)) = Len(Stack) - 1
    BY <1>1, <1>5, PopFrame
  <2> DEFINE s == Append(Front(Stack), g)
  <2>3. s \in Seq(Frame) /\ s # <<>> /\ Len(s) = Len(Stack) /\ Last(s) = g
    BY <1>1, <2>1, <2>2, PushFrame
  <2>4. \A k \in 1 .. Len(s) : s[k] \in Out
    <3>1. \A k \in 1 .. Len(Stack) - 1 : s[k] = Stack[k] /\ Stack[k] \in Out
      BY <1>1, <1>5, <2>1, <2>2, PushFrame, PopFrame DEF ParkedInv, Stack
    <3>2. s[Len(s)] \in Out
      BY <2>3 DEF Last
    <3> QED
      BY <1>1, <2>3, <3>1, <3>2
  <2>5. /\ frames' \in [Term -> Seq(Frame)]
        /\ \A t \in Term : t # exec_term_id => frames'[t] = frames[t]
        /\ frames'[exec_term_id] = s
    BY <1>1, <1>5, <2>3 DEF Replace, Stack
  <2> HIDE DEF s
  <2>6. Top' = g
    BY <1>1, <1>5, <2>3, <2>5 DEF Top, Stack
  <2>7. TypeOK'
    <3>1. \A t \in Term : Len(frames'[t]) <= MaxDepth
      BY <1>1, <2>3, <2>5 DEF Stack
    <3> QED
      BY <1>5, <2>5, <3>1 DEF TypeOK
  <2>8. ParkedInv'
    BY <1>1, <1>5, <2>4, <2>5 DEF ParkedInv
  <2> QED
    BY <1>5, <2>1, <2>6, <2>7, <2>8 DEF ServiceInv, TimerInv
<1>6. ASSUME NEW e \in Term, Stack # <<>>, frames' = Return, isr' = {},
             exec_term_id' = e, UNCHANGED <<unmasked, irr, armed, stage>>
      PROVE  IInv'
  <2> DEFINE s == Front(Stack)
  <2>1. s \in Seq(Frame) /\ Len(s) = Len(Stack) - 1
    BY <1>1, <1>6, PopFrame
  <2>2. \A k \in 1 .. Len(s) : s[k] \in Out
    BY <1>1, <1>6, <2>1, PopFrame DEF ParkedInv, Stack
  <2>3. /\ frames' \in [Term -> Seq(Frame)]
        /\ \A t \in Term : t # exec_term_id => frames'[t] = frames[t]
        /\ frames'[exec_term_id] = s
    BY <1>1, <1>6, <2>1 DEF Return, Stack
  <2> HIDE DEF s
  <2>4. \A t \in Term : \A k \in 1 .. Len(frames'[t]) : frames'[t][k] \in Out
    BY <1>1, <2>2, <2>3 DEF ParkedInv
  <2>5. TypeOK'
    <3>1. \A t \in Term : Len(frames'[t]) <= MaxDepth
      <4>1. Len(Stack) \in Nat /\ Len(Stack) <= MaxDepth
        BY <1>1 DEF Stack
      <4>2. Len(s) <= MaxDepth
        BY <2>1, <4>1
      <4> QED BY <1>1, <2>3, <4>2
    <3> QED
      BY <1>6, <2>3, <3>1 DEF TypeOK
  <2>6. Top' \in Out \cup {"none"}
    <3>1. Stack' = frames'[e] /\ frames'[e] \in Seq(Frame)
      BY <1>6, <2>3 DEF Stack
    <3>2. CASE frames'[e] = <<>>
      BY <3>1, <3>2 DEF Top
    <3>3. CASE frames'[e] # <<>>
      <4>1. Len(frames'[e]) \in 1 .. Len(frames'[e])
        BY <3>1, <3>3
      <4> QED
        BY <1>6, <2>4, <3>1, <3>3, <4>1 DEF Top, Last
    <3> QED BY <3>2, <3>3
  <2>7. ServiceInv'
    BY <1>6, <2>6 DEF ServiceInv, InService, Out
  <2>8. TimerInv'
    BY <1>6, <2>6 DEF TimerInv, Out
  <2>9. ParkedInv'
    BY <2>4 DEF ParkedInv
  <2> QED
    BY <2>5, <2>7, <2>8, <2>9
<1>7. Top # "none" => Stack # <<>>
  BY TopFrame
<1>8. CASE rtc_handler
  <2>1. isr' = {} /\ armed' \in BOOLEAN /\ "rtc_out" \in Out
    BY <1>8 DEF rtc_handler, ServiceInv, InService, send_eoi, RTC_IRQ, CASCADE,
       ReadsC, Out
  <2> QED
    BY <1>5, <1>7, <1>8, <2>1 DEF rtc_handler
<1>9. CASE keyboard_handler
  <2>1. isr' = {}
    BY <1>9 DEF keyboard_handler, ServiceInv, InService, send_eoi, KEYBOARD_IRQ
  <2> QED
    BY <1>1, <1>6, <1>7, <1>9, <2>1 DEF keyboard_handler
<1>10. CASE SwitchHandler
  <2>1. isr' = {} /\ armed' \in BOOLEAN /\ "switched" \in Out
    BY <1>10 DEF SwitchHandler, ServiceInv, InService, EarlyEoi, send_eoi,
       KEYBOARD_IRQ, TypeOK, Out
  <2> QED
    BY <1>5, <1>7, <1>10, <2>1 DEF SwitchHandler
<1>11. CASE pit_handler
  <2>1. isr' = {}
    BY <1>11 DEF pit_handler, ServiceInv, InService, send_eoi, PIT_IRQ
  <2>2. next_executing_term \in Term
    BY <1>1 DEF next_executing_term, Term
  <2>3. exec_term_id' \in Term
    BY <1>1, <1>11, <2>2 DEF pit_handler
  <2> QED
    BY <1>6, <1>7, <1>11, <2>1, <2>3 DEF pit_handler
<1>12. CASE HandlerReturn
  <2>1. isr' = {}
    BY <1>12 DEF HandlerReturn, ServiceInv, InService
  <2> QED
    BY <1>1, <1>6, <1>7, <1>12, <2>1 DEF HandlerReturn
<1>13. CASE UNCHANGED vars
  <2>1. Top' = Top
    BY <1>13 DEF vars, Top, Stack
  <2> QED
    BY <1>13, <2>1 DEF vars, TypeOK, ServiceInv, ParkedInv, TimerInv
<1> QED
  BY <1>2, <1>3, <1>4, <1>8, <1>9, <1>10, <1>11, <1>12, <1>13 DEF Next, Handler

\* The invariant holds in every reachable state.
LEMMA InvariantHolds == Spec => []IInv
BY InitInv, NextInv, PTL DEF Spec

\* Whenever a processor can be interrupted no line is in service, however deeply
\* rtc_handler and the keyboard's switch of terminals are nested and wherever the
\* timer left the other threads: terminal.c:59 and rtc.c:121-126 acknowledge before
\* they enable interrupts, so no parked thread blocks a line.
THEOREM NoLineBlocked == Spec => []NothingInService
<1>1. IInv => NothingInService
  BY OnMeansOut DEF IInv, NothingInService
<1> QED
  BY <1>1, InvariantHolds, PTL

\* The timer's handler never runs before the shells are loaded and processes[0] is
\* set, so the search of next_executing_term (terminal.c:104) ends.
THEOREM TicksFindShell == Spec => []TickFindsShell
<1>1. IInv => TickFindsShell
  BY DEF IInv, TimerInv, TickFindsShell
<1> QED
  BY <1>1, InvariantHolds, PTL
=============================================================================
