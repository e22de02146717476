------------------------------ MODULE Process ------------------------------
(***************************************************************************)
(* Processes, scheduling and the first start of a terminal: the system     *)
(* calls execute and halt (syscall.c), the timer handler (scheduler.c),    *)
(* the part of switch_displaying_term that starts a shell (terminal.c),    *)
(* and the paging and TSS registers those four share.                      *)
(*                                                                         *)
(* There is one processor.  Every terminal has one thread of control, the  *)
(* one of the last process of its chain of PCBs; the thread of             *)
(* exec_term_id is on the processor and the others are parked on a kernel  *)
(* stack.  System calls run with interrupts enabled (interrupt_wrapper.S,  *)
(* the sti before the call), so an interrupt may arrive between any two    *)
(* steps of execute.  PreemptPoints is the set of execute's labels at      *)
(* which it does: ExecuteLabels is the code as written, a smaller set      *)
(* states what would hold if the steps left out ran under cli.             *)
(***************************************************************************)
EXTENDS Integers, FiniteSets

CONSTANTS
    NUM_TERMINALS,      \* terminals, each with a shell whose PID is its id
    MAX_NUM_PROCESSES,  \* length of processes[]
    PreemptPoints,      \* labels of execute at which an interrupt may arrive
    Programs,           \* system calls the user programs make
    NULL                \* the null PCB pointer, an unset field

Term == 0 .. NUM_TERMINALS - 1
Pid == 0 .. MAX_NUM_PROCESSES - 1

ExecuteLabels == { "ex_lookup",   \* parse, dentry and ELF magic      188-206
                   "ex_scan",     \* if (!processes[i])               209-210
                   "ex_claim",    \* processes[new_PID] = 1           211-212
                   "ex_page",     \* map the new page                 225-229
                   "ex_load",     \* copy the image                   233-242
                   "ex_link",     \* fill the PCB and link it         247-275
                   "ex_iret" }    \* child_pcb = NULL, tss, iret      277-325

\* "off": the shell was never started; "rd_wait": spinning in terminal_read.
Label == ExecuteLabels \cup { "off", "user", "rd_wait" }

ASSUME ProcessAssumption ==
    /\ NUM_TERMINALS \in Nat \ {0}
    /\ MAX_NUM_PROCESSES \in Nat
    /\ NUM_TERMINALS <= MAX_NUM_PROCESSES
    /\ PreemptPoints \subseteq ExecuteLabels
    /\ Programs \subseteq { "execute", "halt", "read" }
    /\ NULL \notin Pid

VARIABLES
    processes,      \* [Pid -> BOOLEAN], processes[]
    parent_pcb,     \* [Pid -> Pid or NULL], PCB field
    child_pcb,      \* [Pid -> Pid or NULL], PCB field
    parent_esp,     \* [Pid -> Pid or NULL], whose execute frame halt returns to
    pc,             \* [Term -> Label], where the terminal's thread is
    proc,           \* [Term -> Pid], the process that thread belongs to
    new_PID,        \* [Term -> Pid, MAX_NUM_PROCESSES or NULL], local of execute
    exec_term_id,   \* terminal whose thread is on the processor
    curr_term_id,   \* terminal on the display
    user_page,      \* process whose 4MB page is mapped at 128MB
    esp0,           \* process whose kernel stack tss.esp0 is the top of
    image           \* [Pid -> Pid or NULL], whose program is in that page

pcbs == <<processes, parent_pcb, child_pcb, parent_esp>>
threads == <<pc, proc, new_PID>>
mmu == <<user_page, esp0, image>>
terms == <<exec_term_id, curr_term_id>>
vars == <<pcbs, threads, terms, mmu>>

-----------------------------------------------------------------------------
(***************************************************************************)
(* The walk of get_current_executing_pcb: from the root of terminal t down *)
(* the child pointers to the PCB that has none.                            *)
(***************************************************************************)
Closed(S, next) == \A p \in S : next[p] # NULL => next[p] \in S

Chain(t, next) ==
    { p \in Pid : \A S \in SUBSET Pid : t \in S /\ Closed(S, next) => p \in S }

Leaf(t) == CHOOSE p \in Chain(t, child_pcb) : child_pcb[p] = NULL

current == Leaf(exec_term_id)

After(k) ==
    LET t == exec_term_id + k IN
    IF t > NUM_TERMINALS - 1 THEN t - NUM_TERMINALS ELSE t

\* Mutant: the search starts over at terminal 0 instead of going on.
NextFromZero ==
    IF \E t \in Term : processes[t] /\ t # exec_term_id
    THEN CHOOSE t \in Term :
            /\ processes[t] /\ t # exec_term_id
            /\ \A u \in 0 .. t - 1 : ~ processes[u] \/ u = exec_term_id
    ELSE exec_term_id

\* The first active terminal after exec_term_id.
next_executing_term ==
    After(CHOOSE k \in 1 .. NUM_TERMINALS :
             /\ processes[After(k)]
             /\ \A j \in 1 .. k - 1 : ~ processes[After(j)])

\* The thread on the processor is at label l.
At(l) == pc[exec_term_id] = l

Calls(call) == At("user") /\ call \in Programs

Goto(l) == pc' = [pc EXCEPT ![exec_term_id] = l]

\* Back to the caller of int 0x80; execute's locals are gone.
ReturnToUser ==
    /\ Goto("user")
    /\ new_PID' = [new_PID EXCEPT ![exec_term_id] = NULL]

-----------------------------------------------------------------------------
(***************************************************************************)
(* boot: the three shells loaded and their PCBs filled in, only the first  *)
(* of them active, about to run in user mode.                              *)
(***************************************************************************)
Init ==
    /\ processes = [p \in Pid |-> p = 0]
    /\ parent_pcb = [p \in Pid |-> NULL]
    /\ child_pcb = [p \in Pid |-> NULL]
    /\ parent_esp = [p \in Pid |-> NULL]
    /\ pc = [t \in Term |-> IF t = 0 THEN "user" ELSE "off"]
    /\ proc = [t \in Term |-> t]
    /\ new_PID = [t \in Term |-> NULL]
    /\ exec_term_id = 0
    /\ curr_term_id = 0
    /\ user_page = 0
    /\ esp0 = 0
    /\ image = [p \in Pid |-> IF p \in Term THEN p ELSE NULL]

-----------------------------------------------------------------------------
(***************************************************************************)
(* execute.  The load cannot come up short: the same read_data checks have *)
(* passed in ex_lookup, so its error path is not reachable; and page index *)
(* new_PID + 2 is always in range.                                         *)
(***************************************************************************)
ExecuteCall ==
    /\ Calls("execute")
    /\ Goto("ex_lookup")
    /\ UNCHANGED <<pcbs, proc, new_PID, terms, mmu>>

\* NULL command, no such file, or not an ELF image.
ExecuteFails ==
    /\ At("ex_lookup")
    /\ ReturnToUser
    /\ UNCHANGED <<pcbs, proc, terms, mmu>>

ExecuteFound ==
    /\ At("ex_lookup")
    /\ Goto("ex_scan")
    /\ new_PID' = [new_PID EXCEPT ![exec_term_id] = NUM_TERMINALS]
    /\ UNCHANGED <<pcbs, proc, terms, mmu>>

\* Mutant: the search takes the first slot without looking.
AnySlot(i) == TRUE

SlotFree(i) == ~ processes[i]

\* One iteration of the search: slot taken, slot free, or none left.
ScanNext ==
    LET i == new_PID[exec_term_id] IN
    /\ At("ex_scan")
    /\ i < MAX_NUM_PROCESSES
    /\ ~ SlotFree(i)
    /\ new_PID' = [new_PID EXCEPT ![exec_term_id] = i + 1]
    /\ UNCHANGED <<pcbs, pc, proc, terms, mmu>>

ScanFree ==
    LET i == new_PID[exec_term_id] IN
    /\ At("ex_scan")
    /\ i < MAX_NUM_PROCESSES
    /\ SlotFree(i)
    /\ Goto("ex_claim")
    /\ UNCHANGED <<pcbs, proc, new_PID, terms, mmu>>

ScanLimit ==
    /\ At("ex_scan")
    /\ new_PID[exec_term_id] = MAX_NUM_PROCESSES
    /\ ReturnToUser
    /\ UNCHANGED <<pcbs, proc, terms, mmu>>

\* From here the bytes in the page are those of a dead process.
Claim ==
    LET p == new_PID[exec_term_id] IN
    /\ At("ex_claim")
    /\ processes' = [processes EXCEPT ![p] = TRUE]
    /\ image' = [image EXCEPT ![p] = NULL]
    /\ Goto("ex_page")
    /\ UNCHANGED <<parent_pcb, child_pcb, parent_esp, proc, new_PID, terms,
                   user_page, esp0>>

\* Mutant: the index of the page is off by one.
PageBelow == new_PID[exec_term_id] - 1

NewPage == new_PID[exec_term_id]

MapPage ==
    /\ At("ex_page")
    /\ user_page' = NewPage
    /\ Goto("ex_load")
    /\ UNCHANGED <<pcbs, proc, new_PID, terms, esp0, image>>

\* The copy goes to a virtual address: into whatever page is mapped there.
LoadImage ==
    /\ At("ex_load")
    /\ image' = [image EXCEPT ![user_page] = new_PID[exec_term_id]]
    /\ Goto("ex_link")
    /\ UNCHANGED <<pcbs, proc, new_PID, terms, user_page, esp0>>

\* Mutant: the new process is linked to the terminal's root shell.
RootPcb == exec_term_id

prev_pcb == current

LinkPcb ==
    LET p == new_PID[exec_term_id] IN
    /\ At("ex_link")
    /\ parent_esp' = [parent_esp EXCEPT ![p] = proc[exec_term_id]]
    /\ parent_pcb' = [parent_pcb EXCEPT ![p] = prev_pcb]
    /\ child_pcb' = [child_pcb EXCEPT ![prev_pcb] = p]
    /\ Goto("ex_iret")
    /\ UNCHANGED <<processes, proc, new_PID, terms, mmu>>

StartProgram ==
    LET p == new_PID[exec_term_id] IN
    /\ At("ex_iret")
    /\ child_pcb' = [child_pcb EXCEPT ![p] = NULL]
    /\ esp0' = p
    /\ proc' = [proc EXCEPT ![exec_term_id] = p]
    /\ ReturnToUser
    /\ UNCHANGED <<processes, parent_pcb, parent_esp, terms, user_page, image>>

-----------------------------------------------------------------------------
(***************************************************************************)
(* halt, also what an exception handler of idt.c ends in (with 255).  It   *)
(* runs under cli.  A root shell starts over at its entry point; any other *)
(* process gives its PID back and returns from its parent's execute (the   *)
(* value it returns is not modelled).                                      *)
(***************************************************************************)
\* Mutants: halt keeps the slot, the parent's link, or the dead process's page.
KeepPid(p) == UNCHANGED processes
KeepLink(parent) == UNCHANGED child_pcb
KeepPage(parent) == UNCHANGED user_page

FreePid(p) == processes' = [processes EXCEPT ![p] = FALSE]
Unlink(parent) == child_pcb' = [child_pcb EXCEPT ![parent] = NULL]
RestorePage(parent) == user_page' = parent

HaltRoot ==
    /\ Calls("halt")
    /\ parent_pcb[current] = NULL
    /\ esp0' = current
    /\ proc' = [proc EXCEPT ![exec_term_id] = current]
    /\ UNCHANGED <<pcbs, pc, new_PID, terms, user_page, image>>

HaltChild ==
    LET parent == parent_pcb[current] IN
    /\ Calls("halt")
    /\ parent # NULL
    /\ RestorePage(parent)
    /\ esp0' = parent
    /\ FreePid(current)
    /\ Unlink(parent)
    /\ proc' = [proc EXCEPT ![exec_term_id] = parent_esp[current]]
    /\ UNCHANGED <<parent_pcb, parent_esp, pc, new_PID, terms, image>>

-----------------------------------------------------------------------------
(***************************************************************************)
(* terminal_read, the call the scheduler finds most threads in: it spins   *)
(* until its terminal is the one displayed and a line is there; whether    *)
(* there is one is left open.                                              *)
(***************************************************************************)
ReadCall ==
    /\ Calls("read")
    /\ Goto("rd_wait")
    /\ UNCHANGED <<pcbs, proc, new_PID, terms, mmu>>

ReadReturn ==
    /\ At("rd_wait")
    /\ exec_term_id = curr_term_id
    /\ ReturnToUser
    /\ UNCHANGED <<pcbs, proc, terms, mmu>>

-----------------------------------------------------------------------------
(***************************************************************************)
(* Interrupts.  The interrupted thread stays where it is until the timer   *)
(* turns to its terminal again; module Dispatch models the saved stack     *)
(* addresses that make it so.                                              *)
(***************************************************************************)
Interruptible ==
    pc[exec_term_id] \in PreemptPoints \cup { "user", "rd_wait" }

\* The timer: go to the next terminal and install its leaf's page and stack.
pit_handler ==
    LET leaf == Leaf(next_executing_term) IN
    /\ Interruptible
    /\ exec_term_id' = next_executing_term
    /\ user_page' = leaf
    /\ esp0' = leaf
    /\ UNCHANGED <<pcbs, threads, curr_term_id, image>>

\* Alt+F(t+1) for a terminal whose shell runs: only the display changes.
SwitchDisplay(t) ==
    /\ Interruptible
    /\ processes[t]
    /\ curr_term_id' = t
    /\ UNCHANGED <<pcbs, threads, exec_term_id, mmu>>

\* Alt+F(t+1) for the first time: the shell is entered from the interrupt
\* handler, on top of the interrupted thread.
StartShell(t) ==
    /\ Interruptible
    /\ ~ processes[t]
    /\ curr_term_id' = t
    /\ exec_term_id' = t
    /\ processes' = [processes EXCEPT ![t] = TRUE]
    /\ user_page' = t
    /\ esp0' = t
    /\ pc' = [pc EXCEPT ![t] = "user"]
    /\ UNCHANGED <<parent_pcb, child_pcb, parent_esp, proc, new_PID, image>>

-----------------------------------------------------------------------------
execute ==
    \/ ExecuteCall \/ ExecuteFails \/ ExecuteFound
    \/ ScanNext \/ ScanFree \/ ScanLimit
    \/ Claim \/ MapPage \/ LoadImage \/ LinkPcb \/ StartProgram

halt == HaltRoot \/ HaltChild

switch_displaying_term == \E t \in Term : SwitchDisplay(t) \/ StartShell(t)

Next ==
    \/ execute \/ halt \/ ReadCall \/ ReadReturn
    \/ pit_handler \/ switch_displaying_term

Spec == Init /\ [][Next]_vars

\* The processor keeps executing the kernel code it is in, and the timer
\* request stays latched in the interrupt controller until it is accepted.
KernelStep == ~ At("user") /\ execute
Fairness == WF_vars(KernelStep) /\ SF_vars(pit_handler)
FairSpec == Spec /\ Fairness

-----------------------------------------------------------------------------
(***************************************************************************)
(* Properties.                                                             *)
(***************************************************************************)
TypeOK ==
    /\ processes \in [Pid -> BOOLEAN]
    /\ parent_pcb \in [Pid -> Pid \cup {NULL}]
    /\ child_pcb \in [Pid -> Pid \cup {NULL}]
    /\ parent_esp \in [Pid -> Pid \cup {NULL}]
    /\ pc \in [Term -> Label]
    /\ proc \in [Term -> Pid]
    /\ new_PID \in [Term -> (NUM_TERMINALS .. MAX_NUM_PROCESSES) \cup {NULL}]
    /\ exec_term_id \in Term
    /\ curr_term_id \in Term
    /\ user_page \in Pid
    /\ esp0 \in Pid
    /\ image \in [Pid -> Pid \cup {NULL}]

Started == { t \in Term : processes[t] }

\* The PIDs terminal t holds: its chain, and the one its execute has claimed
\* but not yet linked.
Claimed(t) == IF pc[t] \in { "ex_page", "ex_load", "ex_link" }
              THEN { new_PID[t] } ELSE {}
Held(t) == Chain(t, child_pcb) \cup Claimed(t)

\* No PID belongs to two terminals: the search of execute (syscall.c:209-215)
\* never hands out a slot another terminal's execute has taken.
PidsDisjoint ==
    \A t \in Started :
        LET held == Held(t)
        IN \A u \in Started : t < u => held \cap Held(u) = {}

\* processes[] is exact: a slot is marked active precisely when some started
\* terminal holds it, so halt leaks no PID and frees none that is in use.
ActiveIffHeld ==
    LET held == UNION { Held(t) : t \in Started }
    IN \A p \in Pid : processes[p] <=> p \in held

\* get_current_executing_pcb finds, for every started terminal, the process
\* whose thread it is; between linking and iret of execute it finds the child.
LeafIsRunning ==
    \A t \in Started :
        LET leaf == IF pc[t] = "ex_iret" THEN new_PID[t] ELSE proc[t]
            chain == Chain(t, child_pcb)
        IN leaf \in chain /\ \A p \in chain : child_pcb[p] = NULL <=> p = leaf

\* parent_pcb is the inverse of child_pcb along every chain, and the frame
\* halt returns to is that of the parent: the program that called execute.
HaltReturnsToCaller ==
    \A t \in Started : \A p \in Chain(t, child_pcb) :
        /\ p = t => parent_pcb[p] = NULL
        /\ child_pcb[p] # NULL => /\ parent_pcb[child_pcb[p]] = p
                                  /\ parent_esp[child_pcb[p]] = p

\* A program in user mode runs its own image in its own page, and enters the
\* kernel on its own stack, whatever execute, halt, the timer and the first
\* start of other terminals have done to the page directory and the TSS.
OwnAddressSpace ==
    At("user") => /\ user_page = proc[exec_term_id]
                  /\ esp0 = proc[exec_term_id]
                  /\ image[user_page] = user_page

\* No program's page is overwritten while the program is alive: the copy of
\* execute (syscall.c:234) only ever writes the page of the new process.
ImagesIntact ==
    \A t \in Started : \A p \in Chain(t, child_pcb) : image[p] = p

\* Round robin: every started terminal is turned to again and again.
RoundRobin ==
    \A t \in Term : [](processes[t] => <>(exec_term_id = t))
=============================================================================
