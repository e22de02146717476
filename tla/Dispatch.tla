------------------------------ MODULE Dispatch ------------------------------
(***************************************************************************)
(* How a thread is parked and resumed.  Module Process lets every thread   *)
(* continue where it was; the code continues at the stack address that     *)
(* pit_handler saved in the PCB (return_esp, return_ebp), and the first    *)
(* start of a terminal parks a thread without saving one.  Every action    *)
(* here is an action of Process together with what it does to the kernel   *)
(* stacks.                                                                 *)
(***************************************************************************)
EXTENDS Process

\* execute, halt, boot and the start of a shell set tss.esp0 to
\* get_pcb_by_PID(pid - 1) - 4, four PCBs below the PCB above; pit_handler to
\* (uint32_t)get_pcb_by_PID(pid - 1) - 4, four bytes below it.
StackTop == Pid \X { "pcbs", "bytes" }

\* execute's frame has one depth; the functions it calls are below it.
Depth(l) == IF l \in { "ex_lookup", "ex_load" } THEN "callee"
            ELSE IF l \in ExecuteLabels THEN "execute" ELSE l

StackAddr == StackTop \X { "user", "rd_wait", "execute", "callee" }

VARIABLES
    top,          \* which of the two tops tss.esp0 is
    kstack,       \* [Term -> StackTop or NULL], stack a thread in the kernel is on
    return_esp,   \* [Pid -> StackAddr or NULL], return_esp and return_ebp
    lost          \* the processor was resumed on a stale address

stacks == <<top, kstack, return_esp, lost>>
dvars == <<vars, stacks>>

\* Mutant: the timer saves into the root shell's PCB instead of the leaf's.
RootSaves == exec_term_id

SavesInto == current

-----------------------------------------------------------------------------
DInit ==
    /\ Init
    /\ top = "pcbs"
    /\ kstack = [t \in Term |-> NULL]
    /\ return_esp = [p \in Pid |-> NULL]
    /\ lost = FALSE

\* int 0x80 switches to tss.esp0's stack; iret leaves it.
Syscall ==
    /\ ExecuteCall \/ ReadCall
    /\ kstack' = [kstack EXCEPT ![exec_term_id] = <<esp0, top>>]
    /\ UNCHANGED <<top, return_esp, lost>>

SyscallReturn ==
    /\ ExecuteFails \/ ScanLimit \/ ReadReturn
    /\ kstack' = [kstack EXCEPT ![exec_term_id] = NULL]
    /\ UNCHANGED <<top, return_esp, lost>>

Kernel ==
    /\ ExecuteFound \/ ScanNext \/ ScanFree \/ Claim \/ MapPage \/ LoadImage \/ LinkPcb
    /\ UNCHANGED stacks

\* The new program, the restarted shell and the parent get a fresh esp0.
EnterUser ==
    /\ StartProgram \/ halt
    /\ top' = "pcbs"
    /\ kstack' = [kstack EXCEPT ![exec_term_id] = NULL]
    /\ UNCHANGED <<return_esp, lost>>

\* The stack an interrupt's frame goes to: tss.esp0's when it comes from user
\* mode, else the one the thread is on.
ParkedStack ==
    IF At("user") THEN <<esp0, top>> ELSE kstack[exec_term_id]

\* The thread of the next terminal continues from the address in its leaf's
\* PCB; the processor is lost when that thread is not parked there.
Timer ==
    LET next == next_executing_term
        parked == [kstack EXCEPT ![exec_term_id] = ParkedStack]
        saved == [return_esp EXCEPT
                     ![SavesInto] = <<ParkedStack, Depth(pc[exec_term_id])>>]
    IN
    /\ pit_handler
    /\ return_esp' = saved
    /\ top' = "bytes"
    /\ lost' = (saved[Leaf(next)] # <<parked[next], Depth(pc[next])>>)
    /\ kstack' = [parked EXCEPT ![next] = IF pc[next] = "user" THEN NULL ELSE @]

\* The interrupted thread is parked, but its return_esp is not updated.
Keyboard ==
    \E t \in Term :
        \/ SwitchDisplay(t) /\ UNCHANGED stacks
        \/ /\ StartShell(t)
           /\ kstack' = [kstack EXCEPT ![exec_term_id] = ParkedStack]
           /\ top' = "pcbs"
           /\ UNCHANGED <<return_esp, lost>>

DNext == ~ lost /\ (Syscall \/ SyscallReturn \/ Kernel \/ EnterUser \/ Timer \/ Keyboard)

DSpec == DInit /\ [][DNext]_dvars

-----------------------------------------------------------------------------
DTypeOK ==
    /\ TypeOK
    /\ top \in { "pcbs", "bytes" }
    /\ kstack \in [Term -> StackTop \cup {NULL}]
    /\ return_esp \in [Pid -> StackAddr \cup {NULL}]
    /\ lost \in BOOLEAN

\* pit_handler resumes the terminal it turns to where that terminal's thread
\* was interrupted (scheduler.c:80-89).
ResumesOwnThread == ~ lost

\* Every terminal that is not executing is parked at the address in the PCB of
\* its leaf.
ParkedWhereSaved ==
    \A t \in Started \ {exec_term_id} :
        return_esp[Leaf(t)] = <<kstack[t], Depth(pc[t])>>

\* Once all shells are started and every parked terminal is where its PCB says,
\* no execute, halt, read or tick makes pit_handler resume a wrong address:
\* although two different tops of the same stack are in use, a child's PCB
\* holds whatever its PID's last owner left there, and processes come and go.
\* (And the variables keep their types.)
SafeOnceStarted ==
    /\ []DTypeOK
    /\ [](Started = Term /\ ParkedWhereSaved /\ ~ lost => []ResumesOwnThread)
=============================================================================
