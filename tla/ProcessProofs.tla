--------------------------- MODULE ProcessProofs ---------------------------
(***************************************************************************)
(* Proofs about Process, for any number of terminals and PIDs: when no     *)
(* interrupt falls between the test and the setting of processes[i], the   *)
(* chains of PCBs are sound whatever else is interleaved.  The last part   *)
(* is about Dispatch, whose steps are steps of Process.                    *)
(***************************************************************************)
EXTENDS Dispatch, WellFoundedInduction, TLAPS

-----------------------------------------------------------------------------
(***************************************************************************)
(* Chains.  A chain is the least set that holds the root and is closed     *)
(* under the child pointers.                                               *)
(***************************************************************************)
LinkFcn == [Pid -> Pid \cup {NULL}]

\* A chain lies in Pid, holds its root and is closed under the child pointers.
LEMMA ChainClosed ==
    ASSUME NEW t \in Term, NEW c \in LinkFcn
    PROVE  /\ t \in Chain(t, c)
           /\ Chain(t, c) \subseteq Pid
           /\ \A p \in Chain(t, c) : c[p] # NULL => c[p] \in Chain(t, c)
<1>1. t \in Pid
  BY ProcessAssumption DEF Term, Pid
<1>2. t \in Chain(t, c) /\ Chain(t, c) \subseteq Pid
  BY <1>1 DEF Chain
<1>3. ASSUME NEW p \in Chain(t, c), c[p] # NULL
      PROVE  c[p] \in Chain(t, c)
  <2>1. p \in Pid /\ c[p] \in Pid
    BY <1>2, <1>3 DEF LinkFcn
  <2>2. ASSUME NEW S \in SUBSET Pid, t \in S, Closed(S, c)
        PROVE  c[p] \in S
    <3>1. p \in S
      BY <2>2, <1>3 DEF Chain
    <3> QED BY <3>1, <2>2, <1>3 DEF Closed
  <2> QED BY <2>1, <2>2 DEF Chain
<1> QED BY <1>2, <1>3

\* Any closed set with the root contains the chain.
LEMMA ChainLeast ==
    ASSUME NEW t \in Term, NEW c \in LinkFcn,
           NEW S \in SUBSET Pid, t \in S,
           \A p \in S : c[p] # NULL => c[p] \in S
    PROVE  Chain(t, c) \subseteq S
BY DEF Chain, Closed

\* Linking a new PCB after the leaf makes the chain longer by that PCB
\* (syscall.c:270-275).
LEMMA ChainGrows ==
    ASSUME NEW t \in Term, NEW c \in LinkFcn, NEW leaf \in Chain(t, c),
           NEW new \in Pid, c[leaf] = NULL, c[new] = NULL, new # leaf,
           NEW d \in LinkFcn,
           d[leaf] = new, \A p \in Pid : p # leaf => d[p] = c[p]
    PROVE  Chain(t, d) = Chain(t, c) \cup {new}
<1>1. leaf \in Pid /\ t \in Pid
  BY ChainClosed
<1>2. Chain(t, d) \subseteq Chain(t, c) \cup {new}
  <2> DEFINE S == Chain(t, c) \cup {new}
  <2>1. S \in SUBSET Pid /\ t \in S
    BY ChainClosed
  <2>2. \A p \in S : d[p] # NULL => d[p] \in S
    BY <1>1, ChainClosed
  <2> QED BY <2>1, <2>2, <1>1, ChainLeast
<1>3. Chain(t, c) \subseteq Chain(t, d)
  <2>1. Chain(t, d) \in SUBSET Pid /\ t \in Chain(t, d)
    BY <1>1, ChainClosed
  <2>2. \A p \in Chain(t, d) : c[p] # NULL => c[p] \in Chain(t, d)
    BY <1>1, ChainClosed
  <2> QED BY <2>1, <2>2, ChainLeast
<1>4. new \in Chain(t, d)
  BY <1>1, <1>3, ChainClosed, ProcessAssumption
<1> QED BY <1>2, <1>3, <1>4

\* Every element of a chain but its root is the child of one of its elements.
LEMMA ChainParent ==
    ASSUME NEW t \in Term, NEW c \in LinkFcn, NEW p \in Chain(t, c), p # t
    PROVE  \E q \in Chain(t, c) : c[q] = p
<1> SUFFICES ASSUME \A q \in Chain(t, c) : c[q] # p
             PROVE  FALSE
  OBVIOUS
<1> DEFINE S == Chain(t, c) \ {p}
<1>1. S \in SUBSET Pid /\ t \in S
  BY ChainClosed
<1>2. \A q \in S : c[q] # NULL => c[q] \in S
  BY ChainClosed
<1>3. Chain(t, c) \subseteq S
  BY <1>1, <1>2, ChainLeast
<1> QED BY <1>3

\* Unlinking the leaf from its parent takes exactly the leaf off the chain
\* (syscall.c:143-144).
LEMMA ChainShrinks ==
    ASSUME NEW t \in Term, NEW c \in LinkFcn, NEW parent \in Chain(t, c),
           NEW leaf \in Pid, leaf # t, c[parent] = leaf, c[leaf] = NULL,
           \A q \in Chain(t, c) : c[q] = leaf => q = parent,
           NEW d \in LinkFcn,
           d[parent] = NULL, \A p \in Pid : p # parent => d[p] = c[p]
    PROVE  Chain(t, d) = Chain(t, c) \ {leaf}
<1>1. parent \in Pid /\ t \in Pid
  BY ChainClosed
<1>2. Chain(t, d) \subseteq Chain(t, c) \ {leaf}
  <2> DEFINE S == Chain(t, c) \ {leaf}
  <2>1. S \in SUBSET Pid /\ t \in S
    BY ChainClosed
  <2>2. \A p \in S : d[p] # NULL => d[p] \in S
    BY <1>1, ChainClosed
  <2> HIDE DEF S
  <2>3. Chain(t, d) \subseteq S
    BY <2>1, <2>2, <1>1, ChainLeast
  <2> QED BY <2>3 DEF S
<1>3. Chain(t, c) \subseteq Chain(t, d) \cup {leaf}
  <2> DEFINE S == Chain(t, d) \cup {leaf}
  <2>1. S \in SUBSET Pid /\ t \in S
    BY <1>1, ChainClosed
  <2>2. \A p \in S : c[p] # NULL => c[p] \in S
    BY <1>1, ChainClosed
  <2> HIDE DEF S
  <2>3. Chain(t, c) \subseteq S
    BY <2>1, <2>2, ChainLeast
  <2> QED BY <2>3 DEF S
<1> QED BY <1>2, <1>3

\* A write to the child pointer of a PCB that is not on a chain does not change
\* the chain.
LEMMA ChainUntouched ==
    ASSUME NEW t \in Term, NEW c \in LinkFcn, NEW p \in Pid,
           p \notin Chain(t, c),
           NEW d \in LinkFcn, \A q \in Pid : q # p => d[q] = c[q]
    PROVE  Chain(t, d) = Chain(t, c)
<1> DEFINE S == Chain(t, d) \cap Chain(t, c)
<1>1. Chain(t, d) \subseteq Chain(t, c)
  <2>1. Chain(t, c) \in SUBSET Pid /\ t \in Chain(t, c)
    BY ChainClosed
  <2>2. \A q \in Chain(t, c) : d[q] # NULL => d[q] \in Chain(t, c)
    BY ChainClosed
  <2> QED BY <2>1, <2>2, ChainLeast
<1>2. Chain(t, c) \subseteq S
  <2>1. S \in SUBSET Pid /\ t \in S
    BY ChainClosed
  <2>2. \A q \in S : c[q] # NULL => c[q] \in S
    BY ChainClosed
  <2> HIDE DEF S
  <2> QED BY <2>1, <2>2, ChainLeast
<1> QED BY <1>1, <1>2

-----------------------------------------------------------------------------
\* Every nonempty set of natural numbers has a least element.
LEMMA Least ==
    ASSUME NEW S \in SUBSET Nat, S # {}
    PROVE  \E m \in S : \A k \in S : m <= k
<1> DEFINE R == OpToRel(<, Nat)
<1>1. IsWellFoundedOn(R, Nat)
  BY NatLessThanWellFounded
<1>2. \A x, y \in Nat : x < y => <<x, y>> \in R
  BY DEF OpToRel
<1> HIDE DEF R
<1>3. PICK m \in S : \A y \in S : ~ (<<y, m>> \in R)
  BY <1>1, WFMin
<1>4. ASSUME NEW k \in S PROVE m <= k
  <2>1. k \in Nat /\ m \in Nat
    OBVIOUS
  <2>2. ~ (k < m)
    BY <2>1, <1>2, <1>3, Zenon
  <2> QED BY <2>1, <2>2
<1> QED BY <1>4

\* next_executing_term comes to a started terminal, at the latest to the one it
\* left (terminal.c:104-110).
LEMMA NextIsStarted ==
    ASSUME TypeOK, processes[exec_term_id]
    PROVE  next_executing_term \in Term /\ processes[next_executing_term]
<1> DEFINE K == { k \in 1 .. NUM_TERMINALS : processes[After(k)] }
<1>1. \A k \in 1 .. NUM_TERMINALS : After(k) \in Term
  BY ProcessAssumption DEF TypeOK, After, Term
<1>2. After(NUM_TERMINALS) = exec_term_id
  BY ProcessAssumption DEF TypeOK, After, Term
<1>3. NUM_TERMINALS \in K /\ K \in SUBSET Nat
  BY <1>2, ProcessAssumption
<1>4. PICK m \in K : \A k \in K : m <= k
  BY <1>3, Least
<1>5. \E k \in 1 .. NUM_TERMINALS : /\ processes[After(k)]
                                   /\ \A j \in 1 .. k - 1 : ~ processes[After(j)]
  <2>1. m \in 1 .. NUM_TERMINALS /\ processes[After(m)]
    OBVIOUS
  <2>2. ASSUME NEW j \in 1 .. m - 1 PROVE ~ processes[After(j)]
    <3>1. j \in 1 .. NUM_TERMINALS /\ ~ (m <= j)
      BY <2>1, ProcessAssumption
    <3> QED BY <3>1, <1>4
  <2> QED BY <2>1, <2>2
<1>6. PICK k \in 1 .. NUM_TERMINALS :
        processes[After(k)] /\ next_executing_term = After(k)
  BY <1>5 DEF next_executing_term
<1> QED BY <1>6, <1>1

-----------------------------------------------------------------------------
(***************************************************************************)
(* The inductive invariant.  It says of every terminal, started or not,    *)
(* what the properties say of the started ones, and adds what execute's    *)
(* local new_PID and the PCBs off all chains hold.                         *)
(***************************************************************************)
Ch(t) == Chain(t, child_pcb)
Cur(t) == IF pc[t] = "ex_iret" THEN new_PID[t] ELSE proc[t]

Awake ==
    /\ processes[exec_term_id]
    /\ \A t \in Term : pc[t] = "off" <=> ~ processes[t]
    /\ \A t \in Term : pc[t] = "off" => proc[t] = t

NewPids ==
    \A t \in Term :
        /\ pc[t] = "ex_scan" => new_PID[t] \in NUM_TERMINALS .. MAX_NUM_PROCESSES
        /\ pc[t] \in { "ex_claim", "ex_page", "ex_load", "ex_link", "ex_iret" }
              => new_PID[t] \in Pid \ Term
        /\ pc[t] = "ex_claim"
              => t = exec_term_id /\ ~ processes[new_PID[t]]

LeafInv ==
    \A t \in Term :
        /\ Cur(t) \in Ch(t)
        /\ \A p \in Ch(t) : child_pcb[p] = NULL <=> p = Cur(t)

LinkInv ==
    /\ \A t \in Term : parent_pcb[t] = NULL
    /\ \A t \in Term : \A p \in Ch(t) :
          child_pcb[p] # NULL => /\ parent_pcb[child_pcb[p]] = p
                                 /\ parent_esp[child_pcb[p]] = p
    /\ \A p \in Pid : (\A t \in Term : p \notin Ch(t)) => child_pcb[p] = NULL

HeldInv ==
    /\ \A t, u \in Term : t # u => Held(t) \cap Held(u) = {}
    /\ \A t \in Term : Ch(t) \cap Claimed(t) = {}
    /\ \A p \in Pid \ Term : processes[p] <=> \E t \in Term : p \in Held(t)

IInv == TypeOK /\ Awake /\ NewPids /\ LeafInv /\ LinkInv /\ HeldInv

\* The walk down a chain finds Cur.
LEMMA LeafIsCur ==
    ASSUME TypeOK, LeafInv, NEW t \in Term
    PROVE  Leaf(t) = Cur(t) /\ Cur(t) \in Pid
<1>1. child_pcb \in LinkFcn
  BY DEF TypeOK, LinkFcn
<1>2. Cur(t) \in Ch(t) /\ \A p \in Ch(t) : child_pcb[p] = NULL <=> p = Cur(t)
  BY DEF LeafInv
<1>3. Leaf(t) = Cur(t)
  BY <1>2 DEF Leaf, Ch
<1>4. Cur(t) \in Pid
  BY <1>1, <1>2, ChainClosed DEF Ch
<1> QED BY <1>3, <1>4

\* A step that leaves the PCBs and the slots of child processes alone, and with
\* them what every terminal holds and runs, keeps the chains sound.
LEMMA QuietStep ==
    ASSUME LeafInv, LinkInv, HeldInv,
           UNCHANGED <<parent_pcb, child_pcb, parent_esp>>,
           \A p \in Pid \ Term : processes'[p] = processes[p],
           \A t \in Term : Cur(t)' = Cur(t) /\ Claimed(t)' = Claimed(t)
    PROVE  LeafInv' /\ LinkInv' /\ HeldInv'
<1>1. \A t : Ch(t)' = Ch(t)
  BY DEF Ch
<1>2. \A t \in Term : Held(t)' = Held(t)
  BY <1>1 DEF Held, Ch
<1>3. LeafInv'
  BY <1>1 DEF LeafInv
<1>4. LinkInv'
  BY <1>1 DEF LinkInv
<1>5. HeldInv'
  BY <1>1, <1>2 DEF HeldInv
<1> QED BY <1>3, <1>4, <1>5

\* The steps of execute before and after the slot is claimed, and the read call,
\* move one thread and leave the chains alone.
LEMMA UserStep ==
    ASSUME IInv,
           \/ ExecuteCall \/ ExecuteFails \/ ExecuteFound
           \/ ScanNext \/ ScanFree \/ ScanLimit
           \/ MapPage \/ LoadImage \/ ReadCall \/ ReadReturn
    PROVE  IInv'
<1> USE DEF IInv, At, Calls, Goto, ReturnToUser, pcbs, terms, mmu
<1>1. exec_term_id \in Term /\ pc[exec_term_id] # "off"
  BY DEF TypeOK, Awake
<1> SUFFICES /\ TypeOK' /\ Awake' /\ NewPids'
             /\ \A t \in Term : Cur(t)' = Cur(t) /\ Claimed(t)' = Claimed(t)
             /\ UNCHANGED pcbs
  BY QuietStep
<1>2. CASE ExecuteCall
  <2>1. TypeOK'
    BY <1>1, <1>2, ProcessAssumption DEF ExecuteCall, TypeOK, Label, ExecuteLabels, NewPids, Pid
  <2>2. Awake' /\ UNCHANGED pcbs
    BY <1>1, <1>2 DEF ExecuteCall, TypeOK, Awake
  <2>3. NewPids'
    BY <1>1, <1>2, ProcessAssumption DEF ExecuteCall, TypeOK, NewPids, Term, Pid
  <2>4. \A t \in Term : Cur(t)' = Cur(t) /\ Claimed(t)' = Claimed(t)
    BY <1>1, <1>2 DEF ExecuteCall, TypeOK, Cur, Claimed
  <2> QED BY <2>1, <2>2, <2>3, <2>4
<1>3. CASE ExecuteFails
  <2>1. TypeOK'
    BY <1>1, <1>3, ProcessAssumption DEF ExecuteFails, TypeOK, Label, ExecuteLabels, NewPids, Pid
  <2>2. Awake' /\ UNCHANGED pcbs
    BY <1>1, <1>3 DEF ExecuteFails, TypeOK, Awake
  <2>3. NewPids'
    BY <1>1, <1>3, ProcessAssumption DEF ExecuteFails, TypeOK, NewPids, Term, Pid
  <2>4. \A t \in Term : Cur(t)' = Cur(t) /\ Claimed(t)' = Claimed(t)
    BY <1>1, <1>3 DEF ExecuteFails, TypeOK, Cur, Claimed
  <2> QED BY <2>1, <2>2, <2>3, <2>4
<1>4. CASE ExecuteFound
  <2>1. TypeOK'
    BY <1>1, <1>4, ProcessAssumption DEF ExecuteFound, TypeOK, Label, ExecuteLabels, NewPids, Pid
  <2>2. Awake' /\ UNCHANGED pcbs
    BY <1>1, <1>4 DEF ExecuteFound, TypeOK, Awake
  <2>3. NewPids'
    BY <1>1, <1>4, ProcessAssumption DEF ExecuteFound, TypeOK, NewPids, Term, Pid
  <2>4. \A t \in Term : Cur(t)' = Cur(t) /\ Claimed(t)' = Claimed(t)
    BY <1>1, <1>4 DEF ExecuteFound, TypeOK, Cur, Claimed
  <2> QED BY <2>1, <2>2, <2>3, <2>4
<1>5. CASE ScanNext
  <2>1. TypeOK'
    BY <1>1, <1>5, ProcessAssumption DEF ScanNext, TypeOK, Label, ExecuteLabels, NewPids, Pid, SlotFree
  <2>2. Awake' /\ UNCHANGED pcbs
    BY <1>1, <1>5 DEF ScanNext, TypeOK, Awake, SlotFree
  <2>3. NewPids'
    BY <1>1, <1>5, ProcessAssumption DEF ScanNext, TypeOK, NewPids, Term, Pid, SlotFree
  <2>4. \A t \in Term : Cur(t)' = Cur(t) /\ Claimed(t)' = Claimed(t)
    BY <1>1, <1>5 DEF ScanNext, TypeOK, Cur, Claimed, SlotFree
  <2> QED BY <2>1, <2>2, <2>3, <2>4
<1>6. CASE ScanFree
  <2>1. TypeOK'
    BY <1>1, <1>6, ProcessAssumption DEF ScanFree, TypeOK, Label, ExecuteLabels, NewPids, Pid, SlotFree
  <2>2. Awake' /\ UNCHANGED pcbs
    BY <1>1, <1>6 DEF ScanFree, TypeOK, Awake, SlotFree
  <2>3. NewPids'
    BY <1>1, <1>6, ProcessAssumption DEF ScanFree, TypeOK, NewPids, Term, Pid, SlotFree
  <2>4. \A t \in Term : Cur(t)' = Cur(t) /\ Claimed(t)' = Claimed(t)
    BY <1>1, <1>6 DEF ScanFree, TypeOK, Cur, Claimed, SlotFree
  <2> QED BY <2>1, <2>2, <2>3, <2>4
<1>7. CASE ScanLimit
  <2>1. TypeOK'
    BY <1>1, <1>7, ProcessAssumption DEF ScanLimit, TypeOK, Label, ExecuteLabels, NewPids, Pid
  <2>2. Awake' /\ UNCHANGED pcbs
    BY <1>1, <1>7 DEF ScanLimit, TypeOK, Awake
  <2>3. NewPids'
    BY <1>1, <1>7, ProcessAssumption DEF ScanLimit, TypeOK, NewPids, Term, Pid
  <2>4. \A t \in Term : Cur(t)' = Cur(t) /\ Claimed(t)' = Claimed(t)
    BY <1>1, <1>7 DEF ScanLimit, TypeOK, Cur, Claimed
  <2> QED BY <2>1, <2>2, <2>3, <2>4
<1>8. CASE MapPage
  <2>1. TypeOK'
    BY <1>1, <1>8, ProcessAssumption DEF MapPage, TypeOK, Label, ExecuteLabels, NewPids, Pid, NewPage
  <2>2. Awake' /\ UNCHANGED pcbs
    BY <1>1, <1>8 DEF MapPage, TypeOK, Awake, NewPage
  <2>3. NewPids'
    BY <1>1, <1>8, ProcessAssumption DEF MapPage, TypeOK, NewPids, Term, Pid, NewPage
  <2>4. \A t \in Term : Cur(t)' = Cur(t) /\ Claimed(t)' = Claimed(t)
    BY <1>1, <1>8 DEF MapPage, TypeOK, Cur, Claimed, NewPage
  <2> QED BY <2>1, <2>2, <2>3, <2>4
<1>9. CASE LoadImage
  <2>1. TypeOK'
    BY <1>1, <1>9, ProcessAssumption DEF LoadImage, TypeOK, Label, ExecuteLabels, NewPids, Pid
  <2>2. Awake' /\ UNCHANGED pcbs
    BY <1>1, <1>9 DEF LoadImage, TypeOK, Awake
  <2>3. NewPids'
    BY <1>1, <1>9, ProcessAssumption DEF LoadImage, TypeOK, NewPids, Term, Pid
  <2>4. \A t \in Term : Cur(t)' = Cur(t) /\ Claimed(t)' = Claimed(t)
    BY <1>1, <1>9 DEF LoadImage, TypeOK, Cur, Claimed
  <2> QED BY <2>1, <2>2, <2>3, <2>4
<1>10. CASE ReadCall
  <2>1. TypeOK'
    BY <1>1, <1>10, ProcessAssumption DEF ReadCall, TypeOK, Label, ExecuteLabels, NewPids, Pid
  <2>2. Awake' /\ UNCHANGED pcbs
    BY <1>1, <1>10 DEF ReadCall, TypeOK, Awake
  <2>3. NewPids'
    BY <1>1, <1>10, ProcessAssumption DEF ReadCall, TypeOK, NewPids, Term, Pid
  <2>4. \A t \in Term : Cur(t)' = Cur(t) /\ Claimed(t)' = Claimed(t)
    BY <1>1, <1>10 DEF ReadCall, TypeOK, Cur, Claimed
  <2> QED BY <2>1, <2>2, <2>3, <2>4
<1>11. CASE ReadReturn
  <2>1. TypeOK'
    BY <1>1, <1>11, ProcessAssumption DEF ReadReturn, TypeOK, Label, ExecuteLabels, NewPids, Pid
  <2>2. Awake' /\ UNCHANGED pcbs
    BY <1>1, <1>11 DEF ReadReturn, TypeOK, Awake
  <2>3. NewPids'
    BY <1>1, <1>11, ProcessAssumption DEF ReadReturn, TypeOK, NewPids, Term, Pid
  <2>4. \A t \in Term : Cur(t)' = Cur(t) /\ Claimed(t)' = Claimed(t)
    BY <1>1, <1>11 DEF ReadReturn, TypeOK, Cur, Claimed
  <2> QED BY <2>1, <2>2, <2>3, <2>4
<1> QED BY <1>2, <1>3, <1>4, <1>5, <1>6, <1>7, <1>8, <1>9, <1>10, <1>11

\* The last step of execute and the restart of a root shell hand the thread to
\* the process the walk already finds.
LEMMA EnterStep ==
    ASSUME IInv, StartProgram \/ HaltRoot
    PROVE  IInv'
<1> USE DEF IInv, At, Calls, Goto, ReturnToUser, pcbs, terms, mmu
<1>1. exec_term_id \in Term /\ pc[exec_term_id] # "off"
  BY DEF TypeOK, Awake
<1>2. current = Cur(exec_term_id) /\ Cur(exec_term_id) \in Pid
  BY <1>1, LeafIsCur DEF current
<1> SUFFICES /\ TypeOK' /\ Awake' /\ NewPids'
             /\ \A t \in Term : Cur(t)' = Cur(t) /\ Claimed(t)' = Claimed(t)
             /\ UNCHANGED pcbs
  BY QuietStep
<1>3. CASE StartProgram
  <2> DEFINE p == new_PID[exec_term_id]
  <2>1. p \in Pid /\ child_pcb[p] = NULL
    BY <1>1, <1>3 DEF StartProgram, NewPids, LeafInv, Cur
  <2>2. UNCHANGED pcbs
    BY <1>3, <2>1 DEF StartProgram, TypeOK
  <2>3. TypeOK'
    BY <1>1, <1>3, <2>1 DEF StartProgram, TypeOK, Label
  <2>4. Awake' /\ NewPids'
    BY <1>1, <1>3 DEF StartProgram, TypeOK, Awake, NewPids
  <2>5. \A t \in Term : Cur(t)' = Cur(t) /\ Claimed(t)' = Claimed(t)
    BY <1>1, <1>3 DEF StartProgram, TypeOK, Cur, Claimed
  <2> QED BY <2>2, <2>3, <2>4, <2>5
<1>4. CASE HaltRoot
  <2>1. TypeOK'
    BY <1>1, <1>2, <1>4 DEF HaltRoot, TypeOK
  <2>2. Awake' /\ NewPids' /\ UNCHANGED pcbs
    BY <1>1, <1>4 DEF HaltRoot, TypeOK, Awake, NewPids
  <2>3. \A t \in Term : Cur(t)' = Cur(t) /\ Claimed(t)' = Claimed(t)
    BY <1>1, <1>2, <1>4 DEF HaltRoot, TypeOK, Cur, Claimed
  <2> QED BY <2>1, <2>2, <2>3
<1> QED BY <1>3, <1>4

\* Interrupts: the timer and both cases of a display switch.
LEMMA InterruptStep ==
    ASSUME "ex_claim" \notin PreemptPoints, IInv,
           pit_handler \/ \E t \in Term : SwitchDisplay(t) \/ StartShell(t)
    PROVE  IInv'
<1> USE DEF IInv, pcbs, threads, terms, mmu
<1>1. Interruptible => pc[exec_term_id] # "ex_claim"
  BY DEF TypeOK, Interruptible
<1>2. CASE pit_handler
  <2>1. next_executing_term \in Term /\ processes[next_executing_term]
    BY NextIsStarted DEF Awake
  <2>2. Leaf(next_executing_term) \in Pid
    BY <2>1, LeafIsCur
  <2>3. TypeOK'
    BY <1>2, <2>1, <2>2 DEF pit_handler, TypeOK
  <2>4. Awake' /\ NewPids'
    BY <1>1, <1>2, <2>1 DEF pit_handler, TypeOK, Awake, NewPids
  <2>5. \A t \in Term : Cur(t)' = Cur(t) /\ Claimed(t)' = Claimed(t)
    BY <1>2 DEF pit_handler, Cur, Claimed
  <2> QED BY <1>2, <2>3, <2>4, <2>5, QuietStep DEF pit_handler
<1>3. ASSUME NEW t \in Term, SwitchDisplay(t)
      PROVE  IInv'
  <2>1. TypeOK' /\ Awake' /\ NewPids'
    BY <1>3 DEF SwitchDisplay, TypeOK, Awake, NewPids
  <2>2. \A u \in Term : Cur(u)' = Cur(u) /\ Claimed(u)' = Claimed(u)
    BY <1>3 DEF SwitchDisplay, Cur, Claimed
  <2> QED BY <1>3, <2>1, <2>2, QuietStep DEF SwitchDisplay
<1>4. ASSUME NEW t \in Term, StartShell(t)
      PROVE  IInv'
  <2>1. t \in Pid /\ pc[t] = "off" /\ proc[t] = t
    BY <1>4, ProcessAssumption DEF StartShell, Awake, Term, Pid
  <2>2. TypeOK'
    BY <1>4, <2>1 DEF StartShell, TypeOK, Label
  <2>3. Awake'
    BY <1>4, <2>1, ProcessAssumption DEF StartShell, TypeOK, Awake, Term, Pid
  <2>4. NewPids'
    BY <1>1, <1>4, <2>1 DEF StartShell, TypeOK, NewPids
  <2>5. \A u \in Term : Cur(u)' = Cur(u) /\ Claimed(u)' = Claimed(u)
    BY <1>4, <2>1 DEF StartShell, TypeOK, Cur, Claimed
  <2>6. \A p \in Pid \ Term : processes'[p] = processes[p]
    BY <1>4 DEF StartShell, TypeOK
  <2> QED BY <1>4, <2>2, <2>3, <2>4, <2>5, <2>6, QuietStep DEF StartShell
<1> QED BY <1>2, <1>3, <1>4

\* Claiming a slot (syscall.c:211-212): no terminal held it, one does now.
LEMMA ClaimStep ==
    ASSUME IInv, Claim
    PROVE  IInv'
<1> USE DEF IInv, At, Goto, terms
<1> PICK x \in Term : x = exec_term_id
  BY DEF TypeOK
<1> PICK p : p = new_PID[x]
  OBVIOUS
<1>1. x \in Term /\ pc[x] = "ex_claim" /\ p \in Pid \ Term /\ ~ processes[p]
  BY DEF Claim, TypeOK, NewPids
<1>2. \A t \in Term : p \notin Held(t)
  BY <1>1 DEF HeldInv
<1>3. TypeOK'
  BY <1>1 DEF Claim, TypeOK, Label, ExecuteLabels
<1>4. Awake'
  BY <1>1, ProcessAssumption DEF Claim, TypeOK, Awake, Term, Pid
<1>5. NewPids'
  BY <1>1 DEF Claim, TypeOK, NewPids
<1>6. /\ \A t : Ch(t)' = Ch(t)
      /\ \A t \in Term : Cur(t)' = Cur(t)
  BY <1>1 DEF Claim, TypeOK, Ch, Cur
<1>7. LeafInv' /\ LinkInv'
  BY <1>6 DEF Claim, LeafInv, LinkInv
<1>8. /\ Claimed(x) = {} /\ Claimed(x)' = {p}
      /\ \A t \in Term : t # x => Claimed(t)' = Claimed(t)
  BY <1>1 DEF Claim, TypeOK, Claimed
<1>9. /\ Held(x)' = Held(x) \cup {p}
      /\ \A t \in Term : t # x => Held(t)' = Held(t)
  BY <1>6, <1>8 DEF Held, Ch
<1>10. HeldInv'
  <2>1. \A t, u \in Term : t # u => Held(t)' \cap Held(u)' = {}
    BY <1>2, <1>9 DEF HeldInv
  <2>2. \A t \in Term : Ch(t)' \cap Claimed(t)' = {}
    BY <1>1, <1>2, <1>6, <1>8 DEF HeldInv, Held, Ch
  <2>3. \A q \in Pid \ Term : processes'[q] <=> \E t \in Term : q \in Held(t)'
    <3>1. \A q \in Pid : processes'[q] <=> processes[q] \/ q = p
      BY <1>1 DEF Claim, TypeOK
    <3> QED BY <1>1, <1>9, <3>1 DEF HeldInv
  <2> QED BY <2>1, <2>2, <2>3 DEF HeldInv
<1> QED BY <1>3, <1>4, <1>5, <1>7, <1>10

\* Linking the new PCB (syscall.c:247-275): the claimed PID moves onto the chain.
LEMMA LinkStep ==
    ASSUME IInv, LinkPcb
    PROVE  IInv'
<1> USE DEF IInv, At, Goto, terms, mmu
<1> PICK x \in Term : x = exec_term_id
  BY DEF TypeOK
<1> PICK p, leaf : p = new_PID[x] /\ leaf = proc[x]
  OBVIOUS
<1>1. /\ x \in Term /\ pc[x] = "ex_link" /\ p \in Pid \ Term
      /\ Cur(x) = leaf /\ prev_pcb = leaf /\ leaf \in Pid
  BY LeafIsCur DEF LinkPcb, TypeOK, NewPids, Cur, prev_pcb, current
<1>2. /\ child_pcb \in LinkFcn
      /\ child_pcb' = [child_pcb EXCEPT ![leaf] = p]
      /\ parent_pcb' = [parent_pcb EXCEPT ![p] = leaf]
      /\ parent_esp' = [parent_esp EXCEPT ![p] = leaf]
      /\ processes' = processes
  BY <1>1 DEF LinkPcb, TypeOK, LinkFcn
<1>3. leaf \in Ch(x) /\ child_pcb[leaf] = NULL
  BY <1>1 DEF LeafInv
<1>4. Claimed(x) = {p} /\ Claimed(x)' = {} /\ Cur(x)' = p
  BY <1>1 DEF LinkPcb, TypeOK, Claimed, Cur
<1>5. \A t \in Term : p \notin Ch(t) /\ (t # x => leaf \notin Ch(t))
  BY <1>1, <1>3, <1>4 DEF HeldInv, Held, Ch
<1>6. child_pcb[p] = NULL
  BY <1>1, <1>5 DEF LinkInv
<1>7. /\ child_pcb \in LinkFcn
       /\ child_pcb' \in LinkFcn
       /\ child_pcb'[leaf] = p
       /\ \A q \in Pid : q # leaf => child_pcb'[q] = child_pcb[q]
  BY <1>1, <1>2 DEF LinkFcn
<1>8. Ch(x)' = Ch(x) \cup {p}
  <2>1. leaf \in Chain(x, child_pcb) /\ p \in Pid /\ p # leaf
    BY <1>1, <1>3, <1>5 DEF Ch
  <2>2. Chain(x, child_pcb') = Chain(x, child_pcb) \cup {p}
    BY <2>1, <1>3, <1>6, <1>7, ChainGrows
  <2> QED BY <2>2 DEF Ch
<1>9. \A t \in Term : t # x => Ch(t)' = Ch(t)
  <2>1. ASSUME NEW t \in Term, t # x
        PROVE  Chain(t, child_pcb') = Chain(t, child_pcb)
    <3>1. leaf \in Pid /\ leaf \notin Chain(t, child_pcb)
      BY <2>1, <1>1, <1>5 DEF Ch
    <3> QED BY <3>1, <1>7, ChainUntouched
  <2> QED BY <2>1 DEF Ch
<1>10. \A t \in Term : t # x => Cur(t)' = Cur(t) /\ Claimed(t)' = Claimed(t)
  BY <1>1 DEF LinkPcb, TypeOK, Cur, Claimed
<1>11. \A t \in Term : Held(t)' = Held(t)
  BY <1>4, <1>8, <1>9, <1>10 DEF Held, Ch
<1>12. \A t \in Term : Ch(t) \subseteq Pid
  BY <1>2, ChainClosed DEF Ch
<1>13. TypeOK'
  BY <1>1, <1>2 DEF LinkPcb, TypeOK, Label, ExecuteLabels
<1>14. Awake' /\ NewPids'
  BY <1>1 DEF LinkPcb, TypeOK, Awake, NewPids
<1>15. LeafInv'
  <2>1. ASSUME NEW t \in Term, t # x
        PROVE  /\ Cur(t)' \in Ch(t)'
               /\ \A q \in Ch(t)' : child_pcb'[q] = NULL <=> q = Cur(t)'
    BY <2>1, <1>5, <1>9, <1>10, <1>12, <1>7 DEF LeafInv
  <2>2. \A q \in Ch(x)' : child_pcb'[q] = NULL <=> q = Cur(x)'
    BY <1>1, <1>3, <1>4, <1>5, <1>6, <1>8, <1>12, <1>7, ProcessAssumption DEF LeafInv
  <2> QED BY <2>1, <2>2, <1>1, <1>4, <1>8 DEF LeafInv
<1>16. LinkInv'
  <2>1. /\ parent_pcb'[p] = leaf /\ \A q \in Pid : q # p => parent_pcb'[q] = parent_pcb[q]
        /\ parent_esp'[p] = leaf /\ \A q \in Pid : q # p => parent_esp'[q] = parent_esp[q]
    BY <1>1, <1>2 DEF TypeOK
  <2>2. \A t \in Term : parent_pcb'[t] = NULL
    BY <1>1, <2>1, ProcessAssumption DEF LinkInv, Term, Pid
  <2>3. ASSUME NEW t \in Term, NEW q \in Ch(t)', child_pcb'[q] # NULL
        PROVE  parent_pcb'[child_pcb'[q]] = q /\ parent_esp'[child_pcb'[q]] = q
    <3>1. CASE q = leaf
      BY <3>1, <2>1, <1>7
    <3>2. CASE q # leaf
      <4>1. q \in Ch(t) /\ child_pcb'[q] = child_pcb[q]
        BY <2>3, <3>2, <1>4, <1>6, <1>8, <1>9, <1>12, <1>7, <1>1
      <4>2. child_pcb[q] \in Ch(t) /\ child_pcb[q] # p
        BY <2>3, <4>1, <1>2, <1>5, ChainClosed DEF Ch
      <4> QED BY <4>1, <4>2, <2>1, <2>3, <1>12 DEF LinkInv
    <3> QED BY <3>1, <3>2
  <2>4. ASSUME NEW q \in Pid, \A t \in Term : q \notin Ch(t)'
        PROVE  child_pcb'[q] = NULL
    BY <2>4, <1>1, <1>3, <1>8, <1>9, <1>7 DEF LinkInv
  <2> QED BY <2>2, <2>3, <2>4 DEF LinkInv
<1>17. HeldInv'
  <2>1. \A t \in Term : Ch(t)' \cap Claimed(t)' = {}
    BY <1>4, <1>9, <1>10 DEF HeldInv
  <2> QED BY <1>2, <1>11, <2>1 DEF HeldInv
<1> QED BY <1>13, <1>14, <1>15, <1>16, <1>17

\* The halt of a program (syscall.c:100-155): its PID leaves the chain and is
\* free again.
LEMMA HaltStep ==
    ASSUME IInv, HaltChild
    PROVE  IInv'
<1> USE DEF IInv, terms
<1> PICK x \in Term : x = exec_term_id
  BY DEF TypeOK
<1> PICK cur : cur = proc[x]
  OBVIOUS
<1>1. /\ pc[x] = "user" /\ cur = current /\ cur \in Pid /\ Cur(x) = cur
      /\ cur \in Ch(x) /\ child_pcb[cur] = NULL
  BY LeafIsCur DEF HaltChild, Calls, At, TypeOK, Cur, current, LeafInv
<1>2. cur \notin Term /\ cur # NULL
  BY <1>1, ProcessAssumption DEF HaltChild, LinkInv
<1>3. /\ child_pcb \in LinkFcn
      /\ \A t \in Term : Ch(t) \subseteq Pid
  BY ChainClosed DEF TypeOK, LinkFcn, Ch
<1>4. PICK parent \in Ch(x) : child_pcb[parent] = cur
  BY <1>1, <1>2, <1>3, ChainParent DEF Ch
<1>5. /\ parent \in Pid /\ parent # cur
      /\ parent_pcb[cur] = parent /\ parent_esp[cur] = parent
      /\ \A q \in Ch(x) : child_pcb[q] = cur => q = parent
  BY <1>1, <1>2, <1>3, <1>4 DEF LinkInv
<1>6. /\ processes' = [processes EXCEPT ![cur] = FALSE]
      /\ child_pcb' = [child_pcb EXCEPT ![parent] = NULL]
      /\ proc' = [proc EXCEPT ![x] = parent]
      /\ user_page' = parent /\ esp0' = parent
      /\ UNCHANGED <<parent_pcb, parent_esp, pc, new_PID, exec_term_id,
                     curr_term_id, image>>
  BY <1>1, <1>5 DEF HaltChild, FreePid, Unlink, RestorePage
<1>7. /\ child_pcb' \in LinkFcn
      /\ child_pcb'[parent] = NULL
      /\ \A q \in Pid : q # parent => child_pcb'[q] = child_pcb[q]
  BY <1>3, <1>5, <1>6 DEF LinkFcn
<1>8. Ch(x)' = Ch(x) \ {cur}
  <2>1. /\ parent \in Chain(x, child_pcb) /\ cur # x
        /\ \A q \in Chain(x, child_pcb) : child_pcb[q] = cur => q = parent
    BY <1>2, <1>4, <1>5 DEF Ch
  <2>2. Chain(x, child_pcb') = Chain(x, child_pcb) \ {cur}
    BY <2>1, <1>1, <1>3, <1>4, <1>7, ChainShrinks
  <2> QED BY <2>2 DEF Ch
<1>9. \A t \in Term : t # x => cur \notin Held(t) /\ parent \notin Ch(t)
  BY <1>1, <1>4 DEF HeldInv, Held, Ch
<1>10. \A t \in Term : t # x => Ch(t)' = Ch(t)
  <2>1. ASSUME NEW t \in Term, t # x
        PROVE  Chain(t, child_pcb') = Chain(t, child_pcb)
    <3>1. parent \notin Chain(t, child_pcb)
      BY <2>1, <1>9 DEF Ch
    <3> QED BY <3>1, <1>3, <1>5, <1>7, ChainUntouched
  <2> QED BY <2>1 DEF Ch
<1>11. /\ Cur(x)' = parent /\ Claimed(x) = {}
       /\ \A t \in Term : Claimed(t)' = Claimed(t)
       /\ \A t \in Term : t # x => Cur(t)' = Cur(t)
  BY <1>1, <1>6 DEF TypeOK, Cur, Claimed
<1>12. /\ Held(x)' = Held(x) \ {cur}
       /\ \A t \in Term : t # x => Held(t)' = Held(t)
  BY <1>8, <1>10, <1>11 DEF Held, Ch
<1>13. \A q \in Pid : processes'[q] <=> processes[q] /\ q # cur
  BY <1>1, <1>6 DEF TypeOK
<1>14. TypeOK'
  BY <1>1, <1>5, <1>6 DEF TypeOK
<1>15. Awake' /\ NewPids'
  <2>1. \A t \in Term : t \in Pid
    BY ProcessAssumption DEF Term, Pid
  <2>2. \A t \in Term : processes'[t] <=> processes[t]
    BY <2>1, <1>2, <1>13
  <2>3. Awake'
    BY <2>2, <1>1, <1>6 DEF TypeOK, Awake
  <2>4. NewPids'
    BY <1>6, <1>13 DEF NewPids
  <2> QED BY <2>3, <2>4
<1>16. LeafInv'
  <2>1. ASSUME NEW t \in Term, t # x
        PROVE  /\ Cur(t)' \in Ch(t)'
               /\ \A q \in Ch(t)' : child_pcb'[q] = NULL <=> q = Cur(t)'
    BY <2>1, <1>3, <1>7, <1>9, <1>10, <1>11 DEF LeafInv
  <2>2. \A q \in Ch(x)' : child_pcb'[q] = NULL <=> q = Cur(x)'
    BY <1>1, <1>3, <1>7, <1>8, <1>11 DEF LeafInv
  <2> QED BY <2>1, <2>2, <1>4, <1>5, <1>8, <1>11 DEF LeafInv
<1>17. LinkInv'
  <2>1. ASSUME NEW t \in Term, NEW q \in Ch(t)', child_pcb'[q] # NULL
        PROVE  parent_pcb'[child_pcb'[q]] = q /\ parent_esp'[child_pcb'[q]] = q
    <3>1. q \in Ch(t) /\ child_pcb'[q] = child_pcb[q]
      BY <2>1, <1>3, <1>7, <1>8, <1>10
    <3> QED BY <2>1, <3>1, <1>6 DEF LinkInv
  <2>2. ASSUME NEW q \in Pid, \A t \in Term : q \notin Ch(t)'
        PROVE  child_pcb'[q] = NULL
    <3>1. CASE q = cur
      BY <3>1, <1>1, <1>5, <1>7
    <3>2. CASE q # cur
      <4>1. \A t \in Term : q \notin Ch(t)
        BY <2>2, <3>2, <1>8, <1>10
      <4> QED BY <4>1, <1>4, <1>7 DEF LinkInv
    <3> QED BY <3>1, <3>2
  <2>3. \A t \in Term : parent_pcb'[t] = NULL
    BY <1>6 DEF LinkInv
  <2> QED BY <2>1, <2>2, <2>3 DEF LinkInv
<1>18. HeldInv'
  <2>1. \A t, u \in Term : t # u => Held(t)' \cap Held(u)' = {}
    BY <1>12 DEF HeldInv
  <2>2. \A t \in Term : Ch(t)' \cap Claimed(t)' = {}
    BY <1>8, <1>10, <1>11 DEF HeldInv
  <2>3. \A q \in Pid \ Term : processes'[q] <=> \E t \in Term : q \in Held(t)'
    BY <1>9, <1>12, <1>13 DEF HeldInv
  <2> QED BY <2>1, <2>2, <2>3 DEF HeldInv
<1> QED BY <1>14, <1>15, <1>16, <1>17, <1>18

-----------------------------------------------------------------------------
\* The state boot leaves satisfies the invariant: every chain is a root alone.
LEMMA InitInv ==
    Init => IInv
<1> SUFFICES ASSUME Init PROVE IInv
  OBVIOUS
<1> USE DEF Init
<1>1. /\ \A t \in Term : t \in Pid
      /\ 0 \in Term /\ 0 \in Pid
  BY ProcessAssumption DEF Term, Pid
<1>2. TypeOK
  BY <1>1 DEF TypeOK, Label
<1>3. child_pcb \in LinkFcn /\ \A p \in Pid : child_pcb[p] = NULL
  BY DEF LinkFcn
<1>4. ASSUME NEW t \in Term PROVE Ch(t) = {t}
  <2> DEFINE S == {t}
  <2>1. S \in SUBSET Pid /\ t \in S /\ \A p \in S : child_pcb[p] = NULL
    BY <1>1, <1>3
  <2> HIDE DEF S
  <2>2. Chain(t, child_pcb) \subseteq S
    BY <2>1, <1>3, ChainLeast
  <2>3. t \in Chain(t, child_pcb)
    BY <1>3, ChainClosed
  <2> QED BY <2>2, <2>3 DEF S, Ch
<1>5. \A t \in Term : Cur(t) = t /\ Claimed(t) = {} /\ Held(t) = {t}
  BY <1>4 DEF Cur, Claimed, Held, Ch
<1>6. Awake
  BY <1>1 DEF Awake
<1>7. NewPids
  BY <1>1 DEF NewPids
<1>8. LeafInv
  BY <1>1, <1>3, <1>4, <1>5 DEF LeafInv
<1>9. LinkInv
  BY <1>1, <1>3, <1>4 DEF LinkInv
<1>10. HeldInv
  <2>1. \A t, u \in Term : t # u => Held(t) \cap Held(u) = {}
    BY <1>5
  <2>2. \A p \in Pid \ Term : ~ processes[p]
    BY <1>1
  <2>3. ASSUME NEW p \in Pid \ Term, NEW t \in Term PROVE p \notin Held(t)
    <3>1. Held(t) = {t} /\ p # t
      BY <1>5
    <3> QED BY <3>1
  <2>4. \A t \in Term : Ch(t) \cap Claimed(t) = {}
    BY <1>5
  <2> QED BY <2>1, <2>2, <2>3, <2>4 DEF HeldInv
<1> QED BY <1>2, <1>6, <1>7, <1>8, <1>9, <1>10 DEF IInv

\* Every step of the kernel, and every step that is not the kernel's, keeps the
\* invariant.
LEMMA NextInv ==
    ASSUME "ex_claim" \notin PreemptPoints, IInv, [Next]_vars
    PROVE  IInv'
<1>1. CASE \/ ExecuteCall \/ ExecuteFails \/ ExecuteFound
           \/ ScanNext \/ ScanFree \/ ScanLimit
           \/ MapPage \/ LoadImage \/ ReadCall \/ ReadReturn
  BY <1>1, UserStep
<1>2. CASE Claim
  BY <1>2, ClaimStep
<1>3. CASE LinkPcb
  BY <1>3, LinkStep
<1>4. CASE StartProgram \/ HaltRoot
  BY <1>4, EnterStep
<1>5. CASE HaltChild
  BY <1>5, HaltStep
<1>6. CASE pit_handler \/ \E t \in Term : SwitchDisplay(t) \/ StartShell(t)
  BY <1>6, InterruptStep
<1>7. CASE UNCHANGED vars
  <2> USE <1>7 DEF vars, pcbs, threads, terms, mmu
  <2>1. TypeOK' /\ Awake' /\ NewPids'
    BY DEF IInv, TypeOK, Awake, NewPids
  <2>2. \A t \in Term : Cur(t)' = Cur(t) /\ Claimed(t)' = Claimed(t)
    BY DEF Cur, Claimed
  <2>3. LeafInv' /\ LinkInv' /\ HeldInv'
    BY <2>2, QuietStep DEF IInv
  <2> QED BY <2>1, <2>3 DEF IInv
<1> QED BY <1>1, <1>2, <1>3, <1>4, <1>5, <1>6, <1>7
        DEF Next, execute, halt, switch_displaying_term

\* What the invariant says of every terminal, the properties say of the started
\* ones.
LEMMA InvImplies ==
    ASSUME IInv
    PROVE  PidsDisjoint /\ ActiveIffHeld /\ LeafIsRunning /\ HaltReturnsToCaller
<1> USE DEF IInv
<1>1. /\ \A t \in Term : t \in Pid
      /\ child_pcb \in LinkFcn
  BY ProcessAssumption DEF Term, Pid, TypeOK, LinkFcn
<1>2. \A t \in Term : t \in Held(t)
  BY <1>1, ChainClosed DEF Held
<1>3. PidsDisjoint
  <2>1. \A t, u \in Term : t < u => t # u
    BY ProcessAssumption DEF Term
  <2> QED BY <2>1 DEF PidsDisjoint, HeldInv, Started
<1>4. LeafIsRunning
  BY DEF LeafIsRunning, LeafInv, Started, Cur, Ch
<1>5. HaltReturnsToCaller
  BY DEF HaltReturnsToCaller, LinkInv, Started, Ch
<1>6. ASSUME NEW t \in Term, ~ processes[t]
      PROVE  Held(t) = {t}
  <2>1. pc[t] = "off" /\ proc[t] = t
    BY <1>6 DEF Awake
  <2>2. Cur(t) = t /\ Claimed(t) = {}
    BY <2>1 DEF Cur, Claimed
  <2> DEFINE S == {t}
  <2>3. S \in SUBSET Pid /\ t \in S /\ \A p \in S : child_pcb[p] = NULL
    BY <2>2, <1>1 DEF LeafInv
  <2> HIDE DEF S
  <2>4. Chain(t, child_pcb) \subseteq S
    BY <2>3, <1>1, ChainLeast
  <2>5. t \in Chain(t, child_pcb)
    BY <1>1, ChainClosed
  <2> QED BY <2>2, <2>4, <2>5 DEF S, Held
<1>7. ASSUME NEW p \in Pid
      PROVE  processes[p] <=> \E t \in Started : p \in Held(t)
  <2>1. CASE p \in Term
    BY <2>1, <1>2 DEF HeldInv, Started
  <2>2. CASE p \notin Term
    <3>1. \A t \in Term : p \in Held(t) => processes[t]
      BY <2>2, <1>6
    <3>2. processes[p] <=> \E t \in Term : p \in Held(t)
      BY <2>2 DEF HeldInv
    <3> QED BY <3>1, <3>2 DEF Started
  <2> QED BY <2>1, <2>2
<1>8. ActiveIffHeld
  BY <1>7 DEF ActiveIffHeld
<1> QED BY <1>3, <1>4, <1>5, <1>8

-----------------------------------------------------------------------------
\* The invariant holds throughout, for any number of terminals and PIDs and any
\* other interrupt points, when execute's test of processes[i] and its setting
\* (syscall.c:210-212) are not separated by an interrupt.
THEOREM InvariantHolds ==
    ASSUME "ex_claim" \notin PreemptPoints
    PROVE  Spec => []IInv
<1>1. Init => IInv
  BY InitInv
<1>2. IInv /\ [Next]_vars => IInv'
  BY NextInv
<1> QED BY <1>1, <1>2, PTL DEF Spec

\* Every variable keeps its type; in particular no field of a PCB, no page and
\* no kernel stack ever designates a process outside processes[].
THEOREM TypeCorrect ==
    ASSUME "ex_claim" \notin PreemptPoints
    PROVE  Spec => []TypeOK
<1>1. IInv => TypeOK
  BY DEF IInv
<1> QED BY <1>1, InvariantHolds, PTL

\* No PID ever belongs to two terminals: the search and claim of execute
\* (syscall.c:209-215) against every interleaving of the other terminals.
THEOREM PidsStayDisjoint ==
    ASSUME "ex_claim" \notin PreemptPoints
    PROVE  Spec => []PidsDisjoint
<1>1. IInv => PidsDisjoint
  BY InvImplies
<1> QED BY <1>1, InvariantHolds, PTL

\* processes[] is exact: execute leaks no slot and halt (syscall.c:100-155)
\* frees none that is in use.
THEOREM ProcessesExact ==
    ASSUME "ex_claim" \notin PreemptPoints
    PROVE  Spec => []ActiveIffHeld
<1>1. IInv => ActiveIffHeld
  BY InvImplies
<1> QED BY <1>1, InvariantHolds, PTL

\* get_current_executing_pcb (syscall.c:714-723) always finds the process whose
\* thread it is asked about, also for terminals that were preempted.
THEOREM WalkFindsRunning ==
    ASSUME "ex_claim" \notin PreemptPoints
    PROVE  Spec => []LeafIsRunning
<1>1. IInv => LeafIsRunning
  BY InvImplies
<1> QED BY <1>1, InvariantHolds, PTL

\* halt always returns to the program that called execute.
THEOREM HaltFindsCaller ==
    ASSUME "ex_claim" \notin PreemptPoints
    PROVE  Spec => []HaltReturnsToCaller
<1>1. IInv => HaltReturnsToCaller
  BY InvImplies
<1> QED BY <1>1, InvariantHolds, PTL

-----------------------------------------------------------------------------
(***************************************************************************)
(* Why pit_handler finds its way back: once every shell is started and     *)
(* every parked thread is where its leaf's PCB says, this stays so, since  *)
(* no two terminals share a leaf and only the timer writes return_esp.     *)
(***************************************************************************)
\* A thread inside the kernel is on a stack of its own.
OnStack == \A t \in Term : pc[t] \notin { "user", "off" } => kstack[t] \in StackTop

DInv == IInv /\ DTypeOK /\ OnStack

Settled == Started = Term /\ ParkedWhereSaved /\ ~ lost

\* Every step of Dispatch is one of Process.
LEMMA DispatchStep == [DNext]_dvars => [Next]_vars
BY DEF DNext, Syscall, SyscallReturn, Kernel, EnterUser, Timer, Keyboard, dvars,
       Next, execute, halt, switch_displaying_term

\* Where an interrupt's frame goes, and how deep the interrupted thread is.
LEMMA ParkedType ==
    ASSUME DInv
    PROVE  /\ ParkedStack \in StackTop
           /\ Interruptible => <<ParkedStack, Depth(pc[exec_term_id])>> \in StackAddr
<1>1. exec_term_id \in Term /\ pc[exec_term_id] # "off" /\ esp0 \in Pid
  BY DEF DInv, IInv, TypeOK, Awake
<1>2. ParkedStack \in StackTop
  BY <1>1 DEF ParkedStack, At, DInv, DTypeOK, OnStack, StackTop
<1>3. Interruptible => Depth(pc[exec_term_id]) \in { "user", "rd_wait", "execute", "callee" }
  BY ProcessAssumption DEF Interruptible, Depth, ExecuteLabels
<1> QED BY <1>2, <1>3 DEF StackAddr

\* Every step but those of the timer and of a first start moves only the thread on
\* the processor and writes no PCB's return_esp.
LEMMA OwnThreadOnly ==
    ASSUME DInv, Syscall \/ SyscallReturn \/ Kernel \/ EnterUser
    PROVE  /\ exec_term_id' = exec_term_id /\ UNCHANGED <<return_esp, lost>>
           /\ top' \in { top, "pcbs" }
           /\ \A t \in Term : processes[t] => processes'[t]
           /\ \A t \in Term : t # exec_term_id =>
                 /\ pc'[t] = pc[t] /\ proc'[t] = proc[t]
                 /\ new_PID'[t] = new_PID[t] /\ kstack'[t] = kstack[t]
<1> USE DEF DInv, IInv, TypeOK, DTypeOK, At, Calls, Goto, ReturnToUser, pcbs, terms,
            mmu, stacks
<1>1. CASE Syscall
  BY <1>1 DEF Syscall, ExecuteCall, ReadCall
<1>2. CASE SyscallReturn
  BY <1>2 DEF SyscallReturn, ExecuteFails, ScanLimit, ReadReturn
<1>3. CASE Kernel
  <2>1. CASE ExecuteFound \/ ScanNext \/ ScanFree
    BY <1>3, <2>1 DEF Kernel, ExecuteFound, ScanNext, ScanFree
  <2>2. CASE Claim
    <3>1. \A t \in Term : processes[t] => processes'[t]
      BY <2>2, ProcessAssumption DEF Claim, Term, Pid
    <3> QED BY <1>3, <2>2, <3>1 DEF Kernel, Claim
  <2>3. CASE MapPage \/ LoadImage \/ LinkPcb
    BY <1>3, <2>3 DEF Kernel, MapPage, LoadImage, LinkPcb
  <2> QED BY <1>3, <2>1, <2>2, <2>3 DEF Kernel
<1>4. CASE EnterUser
  <2>1. CASE StartProgram \/ HaltRoot
    BY <1>4, <2>1 DEF EnterUser, StartProgram, HaltRoot
  <2>2. CASE HaltChild
    <3>1. current \notin Term
      BY <2>2 DEF HaltChild, LinkInv
    <3>2. \A t \in Term : processes[t] => processes'[t]
      BY <2>2, <3>1, ProcessAssumption DEF HaltChild, FreePid, Term, Pid
    <3> QED BY <1>4, <2>2, <3>2 DEF EnterUser, HaltChild
  <2> QED BY <1>4, <2>1, <2>2 DEF EnterUser, halt
<1> QED BY <1>1, <1>2, <1>3, <1>4

\* The thread on the processor leaves its stack only for user mode.
LEMMA OwnStack ==
    ASSUME DInv, Syscall \/ SyscallReturn \/ Kernel \/ EnterUser
    PROVE  /\ kstack' \in [Term -> StackTop \cup {NULL}]
           /\ pc'[exec_term_id] # "user" => kstack'[exec_term_id] \in StackTop
<1> USE DEF DInv, IInv, TypeOK, DTypeOK, At, Calls, Goto, ReturnToUser
<1>1. CASE Syscall
  BY <1>1 DEF Syscall, StackTop
<1>2. CASE SyscallReturn
  BY <1>2 DEF SyscallReturn, ExecuteFails, ScanLimit, ReadReturn
<1>3. CASE Kernel
  <2>1. pc[exec_term_id] \notin { "user", "off" }
    BY <1>3 DEF Kernel, ExecuteFound, ScanNext, ScanFree, Claim, MapPage, LoadImage, LinkPcb
  <2> QED BY <1>3, <2>1 DEF Kernel, stacks, OnStack
<1>4. CASE EnterUser
  BY <1>4 DEF EnterUser, StartProgram, halt, HaltRoot, HaltChild
<1> QED BY <1>1, <1>2, <1>3, <1>4

\* Every step keeps the types and every kernel thread on a stack.
LEMMA StackStep ==
    ASSUME DInv, IInv', [DNext]_dvars
    PROVE  DTypeOK' /\ OnStack'
<1> USE DEF DInv
<1>1. TypeOK' /\ exec_term_id \in Term /\ exec_term_id' \in Term
  BY DEF IInv, TypeOK
<1>2. CASE Syscall \/ SyscallReturn \/ Kernel \/ EnterUser
  <2>1. DTypeOK'
    BY <1>1, <1>2, OwnThreadOnly, OwnStack DEF DTypeOK
  <2>2. OnStack'
    BY <1>1, <1>2, OwnThreadOnly, OwnStack DEF OnStack
  <2> QED BY <2>1, <2>2
<1>3. CASE Timer
  <2>1. Interruptible /\ current \in Pid /\ next_executing_term \in Term /\ pc' = pc
    BY <1>1, <1>3, LeafIsCur, NextIsStarted
    DEF Timer, pit_handler, threads, IInv, Awake, current
  <2>2. /\ return_esp' = [return_esp EXCEPT ![current] =
                             <<ParkedStack, Depth(pc[exec_term_id])>>]
        /\ top' = "bytes" /\ lost' \in BOOLEAN
    BY <1>3 DEF Timer, SavesInto
  <2>3. return_esp' \in [Pid -> StackAddr \cup {NULL}]
    BY <2>1, <2>2, ParkedType DEF DTypeOK
  <2>4. kstack' = [[kstack EXCEPT ![exec_term_id] = ParkedStack]
                      EXCEPT ![next_executing_term] =
                          IF pc[next_executing_term] = "user" THEN NULL ELSE @]
    BY <1>3 DEF Timer
  <2>5. /\ kstack' \in [Term -> StackTop \cup {NULL}]
        /\ \A t \in Term : pc[t] # "user" =>
              kstack'[t] = IF t = exec_term_id THEN ParkedStack ELSE kstack[t]
    BY <1>1, <2>1, <2>4, ParkedType DEF DTypeOK
  <2>6. OnStack'
    BY <2>1, <2>5, ParkedType DEF OnStack
  <2> QED BY <1>1, <2>2, <2>3, <2>5, <2>6 DEF DTypeOK
<1>4. ASSUME NEW t \in Term, StartShell(t),
             kstack' = [kstack EXCEPT ![exec_term_id] = ParkedStack], top' = "pcbs",
             UNCHANGED <<return_esp, lost>>
      PROVE  DTypeOK' /\ OnStack'
  <2>1. kstack' \in [Term -> StackTop \cup {NULL}]
    BY <1>1, <1>4, ParkedType DEF DTypeOK
  <2>2. \A u \in Term : /\ u # t => pc'[u] = pc[u]
                        /\ pc'[t] = "user"
                        /\ kstack'[u] = IF u = exec_term_id THEN ParkedStack ELSE kstack[u]
    BY <1>1, <1>4 DEF StartShell, IInv, TypeOK, DTypeOK
  <2>3. OnStack'
    BY <2>2, ParkedType DEF OnStack
  <2> QED BY <1>1, <1>4, <2>1, <2>3 DEF DTypeOK
<1>5. ASSUME UNCHANGED <<stacks, pc>> PROVE DTypeOK' /\ OnStack'
  BY <1>1, <1>5 DEF stacks, DTypeOK, OnStack
<1>6. ASSUME NEW t \in Term, SwitchDisplay(t), UNCHANGED stacks PROVE DTypeOK' /\ OnStack'
  BY <1>5, <1>6 DEF SwitchDisplay, threads
<1>7. CASE Keyboard
  BY <1>4, <1>6, <1>7 DEF Keyboard
<1>8. CASE UNCHANGED dvars
  BY <1>5, <1>8 DEF dvars, vars, threads
<1> QED BY <1>2, <1>3, <1>7, <1>8 DEF DNext

\* The invariant of Dispatch, when execute claims its slot without interruption.
LEMMA DispatchInv ==
    ASSUME "ex_claim" \notin PreemptPoints
    PROVE  DSpec => []DInv
<1>1. DInit => DInv
  <2> SUFFICES ASSUME DInit PROVE DInv
    OBVIOUS
  <2>1. IInv
    BY InitInv DEF DInit
  <2>2. DTypeOK /\ OnStack
    BY <2>1 DEF DInit, Init, DTypeOK, OnStack, IInv
  <2> QED BY <2>1, <2>2 DEF DInv
<1>2. DInv /\ [DNext]_dvars => DInv'
  <2> SUFFICES ASSUME DInv, [DNext]_dvars PROVE DInv'
    OBVIOUS
  <2>1. IInv'
    BY DispatchStep, NextInv DEF DInv
  <2> QED BY <2>1, StackStep DEF DInv
<1> QED BY <1>1, <1>2, PTL DEF DSpec

-----------------------------------------------------------------------------
\* The timer resumes a settled thread where it was parked, and parks the one it
\* interrupts in the PCB of that thread's leaf (scheduler.c:33-89).
LEMMA TimerSettled ==
    ASSUME DInv, IInv', Settled, Timer
    PROVE  Settled'
<1> USE DEF DInv
<1> PICK x, n : x = exec_term_id /\ n = next_executing_term
  OBVIOUS
<1>1. x \in Term /\ n \in Term /\ \A t \in Term : Leaf(t) = Cur(t) /\ Leaf(t) \in Pid
  BY LeafIsCur, NextIsStarted DEF IInv, TypeOK, Awake
<1>2. exec_term_id' = n /\ UNCHANGED <<processes, child_pcb, pc, proc, new_PID>>
  BY DEF Timer, pit_handler, pcbs, threads
<1>3. \A t \in Term : Leaf(t)' = Leaf(t)
  BY <1>2 DEF Leaf
<1>4. \A t \in Term : t # x => Leaf(t) # Leaf(x)
  BY <1>1 DEF IInv, HeldInv, LeafInv, Held, Ch
<1> PICK a : a = <<ParkedStack, Depth(pc[x])>>
  OBVIOUS
<1>5. return_esp' = [return_esp EXCEPT ![Leaf(x)] = a]
  BY DEF Timer, SavesInto, current
<1>6. return_esp'[Leaf(x)] = a /\ \A t \in Term : t # x => return_esp'[Leaf(t)] = return_esp[Leaf(t)]
  BY <1>1, <1>4, <1>5 DEF DTypeOK
<1>7. \A t \in Term : t # n => kstack'[t] = IF t = x THEN ParkedStack ELSE kstack[t]
  BY <1>1 DEF Timer, DTypeOK
<1>8. \A t \in Term : t # x => return_esp[Leaf(t)] = <<kstack[t], Depth(pc[t])>>
  BY DEF Settled, ParkedWhereSaved
<1>9. ParkedWhereSaved'
  <2> SUFFICES ASSUME NEW t \in Term, t # n
               PROVE  return_esp'[Leaf(t)'] = <<kstack'[t], Depth(pc'[t])>>
    BY <1>2 DEF ParkedWhereSaved, Started, Depth
  <2> QED BY <1>2, <1>3, <1>6, <1>7, <1>8
<1>10. ~ lost'
  <2>1. lost' = (return_esp'[Leaf(n)] # <<[kstack EXCEPT ![x] = ParkedStack][n], Depth(pc[n])>>)
    BY <1>5 DEF Timer, SavesInto, current
  <2>2. [kstack EXCEPT ![x] = ParkedStack][n] = IF n = x THEN ParkedStack ELSE kstack[n]
    BY <1>1 DEF DTypeOK
  <2>3. return_esp'[Leaf(n)] = <<[kstack EXCEPT ![x] = ParkedStack][n], Depth(pc[n])>>
    BY <1>1, <1>6, <1>8, <2>2
  <2> QED BY <2>1, <2>3
<1>11. Started' = Term
  BY <1>2 DEF Settled, Started
<1> QED BY <1>9, <1>10, <1>11 DEF Settled

\* No other step moves a parked thread or changes the leaf of its terminal.
LEMMA StepSettled ==
    ASSUME DInv, IInv', Settled, [DNext]_dvars
    PROVE  Settled'
<1> USE DEF DInv
<1>1. CASE Timer
  BY <1>1, TimerSettled
<1>2. ASSUME /\ exec_term_id' = exec_term_id /\ UNCHANGED <<return_esp, lost>>
             /\ \A t \in Term : processes[t] => processes'[t]
             /\ \A t \in Term : t # exec_term_id =>
                   /\ pc'[t] = pc[t] /\ proc'[t] = proc[t]
                   /\ new_PID'[t] = new_PID[t] /\ kstack'[t] = kstack[t]
      PROVE  Settled'
  <2>1. Started' = Term /\ Started = Term
    BY <1>2 DEF Settled, Started
  <2>2. ASSUME NEW t \in Term, t # exec_term_id
        PROVE  return_esp'[Leaf(t)'] = <<kstack'[t], Depth(pc'[t])>>
    <3>1. Leaf(t) = Cur(t) /\ Leaf(t)' = Cur(t)'
      <4>1. Leaf(t) = Cur(t)
        BY LeafIsCur DEF IInv
      <4>2. /\ Cur(t)' \in Ch(t)'
            /\ \A p \in Ch(t)' : child_pcb'[p] = NULL <=> p = Cur(t)'
        BY DEF IInv, LeafInv
      <4>3. Leaf(t)' = Cur(t)'
        BY <4>2 DEF Leaf, Ch
      <4> QED BY <4>1, <4>3
    <3>2. Cur(t)' = Cur(t)
      BY <1>2, <2>2 DEF Cur
    <3>3. return_esp[Leaf(t)] = <<kstack[t], Depth(pc[t])>>
      BY <2>1, <2>2 DEF Settled, ParkedWhereSaved
    <3> QED BY <1>2, <2>2, <3>1, <3>2, <3>3
  <2>3. ParkedWhereSaved'
    BY <1>2, <2>1, <2>2 DEF ParkedWhereSaved, Depth
  <2> QED BY <1>2, <2>1, <2>3 DEF Settled
<1>3. CASE Syscall \/ SyscallReturn \/ Kernel \/ EnterUser
  BY <1>2, <1>3, OwnThreadOnly
<1>4. ASSUME NEW t \in Term, SwitchDisplay(t), UNCHANGED stacks PROVE Settled'
  BY <1>2, <1>4 DEF SwitchDisplay, stacks, pcbs, threads
<1>5. ASSUME NEW t \in Term, StartShell(t) PROVE FALSE
  BY <1>5 DEF StartShell, Settled, Started
<1>6. CASE Keyboard
  BY <1>4, <1>5, <1>6 DEF Keyboard
<1>7. CASE UNCHANGED dvars
  BY <1>2, <1>7 DEF dvars, vars, pcbs, threads, terms, stacks
<1> QED BY <1>1, <1>3, <1>6, <1>7 DEF DNext

\* Once all shells are started and every parked thread is where its PCB says,
\* pit_handler resumes every thread where it was interrupted, for ever.
THEOREM ResumesOnceStarted ==
    ASSUME "ex_claim" \notin PreemptPoints
    PROVE  DSpec => SafeOnceStarted
<1>1. DInv => DTypeOK
  BY DEF DInv
<1>2. DInv /\ DInv' /\ Settled /\ [DNext]_dvars => Settled'
  BY StepSettled DEF DInv
<1>3. Settled => ResumesOwnThread
  BY DEF Settled, ResumesOwnThread
<1>4. DSpec => [](Settled => []ResumesOwnThread)
  BY <1>2, <1>3, DispatchInv, PTL DEF DSpec
<1>5. Settled <=> Started = Term /\ ParkedWhereSaved /\ ~ lost
  BY DEF Settled
<1> QED BY <1>1, <1>4, <1>5, DispatchInv, PTL DEF SafeOnceStarted
=============================================================================
