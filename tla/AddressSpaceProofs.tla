------------------------- MODULE AddressSpaceProofs -------------------------
(***************************************************************************)
(* What every program finds at 128MB, for any number of terminals and      *)
(* PIDs: when execute is not interrupted between the test and the setting  *)
(* of processes[i], nor from the mapping of the new page to the link of    *)
(* the new PCB, a program in user mode has its own image in its own page   *)
(* and enters the kernel on its own stack.  The last part is about Paging: *)
(* the page tables, and the translations kept of them, agree with that.    *)
(***************************************************************************)
EXTENDS ProcessProofs, Paging

LoadUninterrupted == { "ex_claim", "ex_load", "ex_link" } \cap PreemptPoints = {}

(***************************************************************************)
(* The strengthening: the page that is mapped while execute runs, the      *)
(* images of every chain, started or not, and of the PCB about to be       *)
(* linked, and that a thread loading an image is on the processor.         *)
(***************************************************************************)
Loading == { "ex_load", "ex_link" }

OnProcessor == \A t \in Term : pc[t] \in Loading => t = exec_term_id

PageInv ==
    user_page = IF pc[exec_term_id] \in Loading THEN new_PID[exec_term_id]
                ELSE Cur(exec_term_id)

StackInv == pc[exec_term_id] # "ex_iret" => esp0 = proc[exec_term_id]

ImageInv ==
    /\ \A t \in Term : \A p \in Ch(t) : image[p] = p
    /\ \A t \in Term : pc[t] = "ex_link" => image[new_PID[t]] = new_PID[t]

AInv == OnProcessor /\ PageInv /\ StackInv /\ ImageInv

-----------------------------------------------------------------------------
\* The state boot leaves: the first shell's page and stack, three shells loaded.
LEMMA InitAddress ==
    Init => AInv
<1> SUFFICES ASSUME Init PROVE AInv
  OBVIOUS
<1> USE DEF Init
<1>1. 0 \in Term /\ \A t \in Term : t \in Pid
  BY ProcessAssumption DEF Term, Pid
<1>2. ASSUME NEW t \in Term, NEW p \in Ch(t) PROVE image[p] = p
  <2> DEFINE S == {t}
  <2>1. S \in SUBSET Pid /\ t \in S /\ \A q \in S : child_pcb[q] = NULL
    BY <1>1
  <2>2. child_pcb \in LinkFcn
    BY DEF LinkFcn
  <2> HIDE DEF S
  <2>3. Chain(t, child_pcb) \subseteq S
    BY <2>1, <2>2, ChainLeast
  <2>4. p = t
    BY <2>3 DEF S, Ch
  <2> QED BY <2>4, <1>1
<1>3. OnProcessor /\ PageInv /\ StackInv
  BY <1>1 DEF OnProcessor, PageInv, StackInv, Loading, Cur
<1>4. ImageInv
  BY <1>2 DEF ImageInv
<1> QED BY <1>3, <1>4 DEF AInv

\* A step of the thread on the processor that leaves the PCBs, the images, the page
\* and the stack alone, and goes from a label outside the load to one outside it.
LEMMA QuietAddress ==
    ASSUME IInv, AInv,
           UNCHANGED <<child_pcb, image, user_page, esp0, exec_term_id, proc>>,
           NEW l \in Label \ { "ex_load", "ex_link", "ex_iret" },
           pc' = [pc EXCEPT ![exec_term_id] = l],
           \A t \in Term : t # exec_term_id => new_PID'[t] = new_PID[t],
           pc[exec_term_id] \notin { "ex_load", "ex_link", "ex_iret" }
    PROVE  AInv'
<1> USE DEF AInv, IInv
<1>1. exec_term_id \in Term /\ pc \in [Term -> Label]
  BY DEF TypeOK
<1>2. /\ pc'[exec_term_id] = l
      /\ \A t \in Term : t # exec_term_id => pc'[t] = pc[t]
  BY <1>1
<1>3. OnProcessor'
  BY <1>1, <1>2 DEF OnProcessor, Loading
<1>4. PageInv' /\ StackInv'
  BY <1>1, <1>2 DEF PageInv, StackInv, Loading, Cur
<1>5. ImageInv'
  BY <1>1, <1>2 DEF ImageInv, Ch
<1> QED BY <1>3, <1>4, <1>5

\* execute up to the claim, and the read call.
LEMMA UserAddress ==
    ASSUME IInv, AInv,
           \/ ExecuteCall \/ ExecuteFails \/ ExecuteFound
           \/ ScanNext \/ ScanFree \/ ScanLimit \/ ReadCall \/ ReadReturn
    PROVE  AInv'
<1> USE DEF IInv, At, Calls, Goto, ReturnToUser, pcbs, terms, mmu, Label, ExecuteLabels
<1>1. exec_term_id \in Term /\ pc \in [Term -> Label]
      /\ new_PID \in [Term -> (NUM_TERMINALS .. MAX_NUM_PROCESSES) \cup {NULL}]
  BY DEF TypeOK
<1>2. CASE ExecuteCall
  <2>1. pc' = [pc EXCEPT ![exec_term_id] = "ex_lookup"]
    BY <1>2 DEF ExecuteCall
  <2> QED BY <1>1, <1>2, <2>1, QuietAddress DEF ExecuteCall
<1>3. CASE ExecuteFails
  <2>1. pc' = [pc EXCEPT ![exec_term_id] = "user"]
    BY <1>3 DEF ExecuteFails
  <2> QED BY <1>1, <1>3, <2>1, QuietAddress DEF ExecuteFails
<1>4. CASE ExecuteFound
  <2>1. pc' = [pc EXCEPT ![exec_term_id] = "ex_scan"]
    BY <1>4 DEF ExecuteFound
  <2> QED BY <1>1, <1>4, <2>1, QuietAddress DEF ExecuteFound
<1>5. CASE ScanNext
  <2>1. pc' = [pc EXCEPT ![exec_term_id] = "ex_scan"]
    BY <1>1, <1>5 DEF ScanNext
  <2> QED BY <1>1, <1>5, <2>1, QuietAddress DEF ScanNext
<1>6. CASE ScanFree
  <2>1. pc' = [pc EXCEPT ![exec_term_id] = "ex_claim"]
    BY <1>6 DEF ScanFree
  <2> QED BY <1>1, <1>6, <2>1, QuietAddress DEF ScanFree
<1>7. CASE ScanLimit
  <2>1. pc' = [pc EXCEPT ![exec_term_id] = "user"]
    BY <1>7 DEF ScanLimit
  <2> QED BY <1>1, <1>7, <2>1, QuietAddress DEF ScanLimit
<1>8. CASE ReadCall
  <2>1. pc' = [pc EXCEPT ![exec_term_id] = "rd_wait"]
    BY <1>8 DEF ReadCall
  <2> QED BY <1>1, <1>8, <2>1, QuietAddress DEF ReadCall
<1>9. CASE ReadReturn
  <2>1. pc' = [pc EXCEPT ![exec_term_id] = "user"]
    BY <1>9 DEF ReadReturn
  <2> QED BY <1>1, <1>9, <2>1, QuietAddress DEF ReadReturn
<1> QED BY <1>2, <1>3, <1>4, <1>5, <1>6, <1>7, <1>8, <1>9

\* Claiming a slot wipes the image of a PID no terminal holds.
LEMMA ClaimAddress ==
    ASSUME IInv, AInv, Claim
    PROVE  AInv'
<1> USE DEF IInv, AInv, At, Goto, terms
<1> PICK x \in Term : x = exec_term_id
  BY DEF TypeOK
<1> PICK p : p = new_PID[x]
  OBVIOUS
<1>1. /\ pc[x] = "ex_claim" /\ p \in Pid \ Term /\ ~ processes[p]
      /\ pc' = [pc EXCEPT ![x] = "ex_page"] /\ image' = [image EXCEPT ![p] = NULL]
      /\ UNCHANGED <<child_pcb, user_page, esp0, exec_term_id, proc, new_PID>>
  BY DEF Claim, TypeOK, NewPids
<1>2. /\ pc'[x] = "ex_page" /\ \A t \in Term : t # x => pc'[t] = pc[t]
      /\ \A q \in Pid : q # p => image'[q] = image[q]
  BY <1>1 DEF TypeOK
<1>3. \A t \in Term : p \notin Held(t) /\ Ch(t) \subseteq Held(t)
  BY <1>1 DEF HeldInv, Held, Ch
<1>4. \A t \in Term : Ch(t) \subseteq Pid
  BY ChainClosed DEF TypeOK, LinkFcn, Ch
<1>5. \A t \in Term : pc[t] # "ex_link"
  BY <1>1 DEF OnProcessor, Loading
<1>6. OnProcessor' /\ PageInv' /\ StackInv'
  BY <1>1, <1>2 DEF OnProcessor, PageInv, StackInv, Loading, Cur
<1>7. \A t : Ch(t)' = Ch(t)
  BY <1>1 DEF Ch
<1>8. ImageInv'
  BY <1>2, <1>3, <1>4, <1>5, <1>7 DEF ImageInv
<1> QED BY <1>6, <1>8

\* The new page is mapped and the image copied into it (syscall.c:225-242).
LEMMA LoadAddress ==
    ASSUME IInv, AInv, MapPage \/ LoadImage
    PROVE  AInv'
<1> USE DEF IInv, AInv, At, Goto, terms, pcbs
<1> PICK x \in Term : x = exec_term_id
  BY DEF TypeOK
<1> PICK p : p = new_PID[x]
  OBVIOUS
<1>1. \A t \in Term : Ch(t) \subseteq Pid
  BY ChainClosed DEF TypeOK, LinkFcn, Ch
<1>2. UNCHANGED <<child_pcb, exec_term_id, proc, new_PID, esp0>>
  BY DEF MapPage, LoadImage
<1>3. \A t : Ch(t)' = Ch(t)
  BY <1>2 DEF Ch
<1>4. CASE MapPage
  <2>1. /\ pc[x] = "ex_page" /\ pc' = [pc EXCEPT ![x] = "ex_load"]
        /\ user_page' = p /\ image' = image
    BY <1>4 DEF MapPage, NewPage
  <2>2. pc'[x] = "ex_load" /\ \A t \in Term : t # x => pc'[t] = pc[t]
    BY <2>1 DEF TypeOK
  <2>3. OnProcessor' /\ PageInv' /\ StackInv'
    BY <1>2, <2>1, <2>2 DEF OnProcessor, PageInv, StackInv, Loading
  <2>4. ImageInv'
    BY <1>2, <1>3, <2>1, <2>2 DEF ImageInv
  <2> QED BY <2>3, <2>4
<1>5. CASE LoadImage
  <2>1. /\ pc[x] = "ex_load" /\ pc' = [pc EXCEPT ![x] = "ex_link"]
        /\ user_page' = user_page /\ user_page = p /\ p \in Pid
        /\ image' = [image EXCEPT ![p] = p]
    BY <1>5 DEF LoadImage, PageInv, Loading, NewPids
  <2>2. /\ pc'[x] = "ex_link" /\ \A t \in Term : t # x => pc'[t] = pc[t]
        /\ image'[p] = p /\ \A q \in Pid : q # p => image'[q] = image[q]
    BY <2>1 DEF TypeOK
  <2>3. OnProcessor' /\ PageInv' /\ StackInv'
    BY <1>2, <2>1, <2>2 DEF OnProcessor, PageInv, StackInv, Loading
  <2>4. \A t \in Term : pc'[t] = "ex_link" => t = x
    BY <2>1, <2>2 DEF OnProcessor, Loading
  <2>5. ImageInv'
    BY <1>1, <1>2, <1>3, <2>2, <2>4 DEF ImageInv
  <2> QED BY <2>3, <2>5
<1> QED BY <1>4, <1>5

\* Linking adds to the chains no PCB but the one whose image is loaded.
LEMMA LinkAddress ==
    ASSUME IInv, AInv, LinkPcb
    PROVE  AInv'
<1> USE DEF IInv, AInv, At, Goto, terms, mmu
<1> PICK x \in Term : x = exec_term_id
  BY DEF TypeOK
<1> PICK p, leaf : p = new_PID[x] /\ leaf = prev_pcb
  OBVIOUS
<1>1. /\ pc[x] = "ex_link" /\ p \in Pid \ Term /\ leaf \in Pid
      /\ pc' = [pc EXCEPT ![x] = "ex_iret"]
      /\ child_pcb' = [child_pcb EXCEPT ![leaf] = p]
      /\ UNCHANGED <<image, user_page, esp0, exec_term_id, proc, new_PID>>
  BY LeafIsCur DEF LinkPcb, NewPids, prev_pcb, current
<1>2. /\ pc'[x] = "ex_iret" /\ \A t \in Term : t # x => pc'[t] = pc[t]
      /\ child_pcb \in LinkFcn /\ child_pcb' \in LinkFcn
      /\ child_pcb'[leaf] = p /\ \A q \in Pid : q # leaf => child_pcb'[q] = child_pcb[q]
  BY <1>1 DEF TypeOK, LinkFcn
<1>3. \A t \in Term : p \notin Ch(t)
  <2>1. Claimed(x) = {p}
    BY <1>1 DEF Claimed
  <2> QED BY <2>1 DEF HeldInv, Held, Ch
<1>4. child_pcb[p] = NULL
  BY <1>1, <1>3 DEF LinkInv
<1>5. p # leaf
  BY <1>1, <1>3, LeafIsCur DEF prev_pcb, current, LeafInv
<1>6. image[p] = p
  BY <1>1 DEF ImageInv
<1>7. ASSUME NEW t \in Term, NEW q \in Ch(t)' PROVE image[q] = q
  <2> DEFINE S == Chain(t, child_pcb) \cup {p}
  <2>1. S \in SUBSET Pid /\ t \in S
    BY <1>1, <1>2, ChainClosed
  <2>2. \A r \in S : child_pcb'[r] # NULL => child_pcb'[r] \in S
    BY <1>1, <1>2, <1>4, <1>5, ChainClosed
  <2> HIDE DEF S
  <2>3. Chain(t, child_pcb') \subseteq S
    BY <2>1, <2>2, <1>2, ChainLeast
  <2>4. q \in Ch(t) \/ q = p
    BY <2>3 DEF S, Ch
  <2> QED BY <2>4, <1>6 DEF ImageInv
<1>8. OnProcessor' /\ PageInv' /\ StackInv'
  BY <1>1, <1>2 DEF OnProcessor, PageInv, StackInv, Loading, Cur
<1>9. ImageInv'
  BY <1>1, <1>2, <1>7 DEF ImageInv, OnProcessor, Loading
<1> QED BY <1>8, <1>9

\* The new program and the restarted shell get the page that is mapped.
LEMMA EnterAddress ==
    ASSUME IInv, AInv, StartProgram \/ HaltRoot
    PROVE  AInv'
<1> USE DEF IInv, AInv, At, Calls, Goto, ReturnToUser, pcbs, terms, mmu
<1> PICK x \in Term : x = exec_term_id
  BY DEF TypeOK
<1> PICK p : p = new_PID[x]
  OBVIOUS
<1>1. CASE StartProgram
  <2>1. /\ pc[x] = "ex_iret" /\ p \in Pid /\ child_pcb[p] = NULL
        /\ pc' = [pc EXCEPT ![x] = "user"] /\ proc' = [proc EXCEPT ![x] = p]
        /\ child_pcb' = child_pcb /\ esp0' = p
        /\ new_PID' = [new_PID EXCEPT ![x] = NULL]
        /\ UNCHANGED <<image, user_page, exec_term_id>>
    BY <1>1 DEF StartProgram, NewPids, LeafInv, Cur, TypeOK
  <2>2. /\ pc'[x] = "user" /\ proc'[x] = p
        /\ \A t \in Term : t # x => pc'[t] = pc[t] /\ new_PID'[t] = new_PID[t]
    BY <2>1 DEF TypeOK
  <2>3. user_page = p
    BY <2>1 DEF PageInv, Loading, Cur
  <2>4. OnProcessor' /\ PageInv' /\ StackInv'
    BY <2>1, <2>2, <2>3 DEF OnProcessor, PageInv, StackInv, Loading, Cur
  <2>5. ImageInv'
    BY <2>1, <2>2 DEF ImageInv, Ch
  <2> QED BY <2>4, <2>5
<1>2. CASE HaltRoot
  <2>1. /\ pc[x] = "user" /\ current = proc[x] /\ esp0' = proc[x]
        /\ proc' = [proc EXCEPT ![x] = proc[x]]
        /\ UNCHANGED <<child_pcb, image, user_page, exec_term_id, pc, new_PID>>
    BY <1>2, LeafIsCur DEF HaltRoot, current, Cur
  <2>2. proc' = proc
    BY <2>1 DEF TypeOK
  <2> QED BY <2>1, <2>2 DEF OnProcessor, PageInv, StackInv, ImageInv, Loading, Cur, Ch
<1> QED BY <1>1, <1>2

\* halt shortens one chain and goes back to the parent's page and stack.
LEMMA HaltAddress ==
    ASSUME IInv, AInv, HaltChild
    PROVE  AInv'
<1> USE DEF IInv, AInv, terms
<1> PICK x \in Term : x = exec_term_id
  BY DEF TypeOK
<1> PICK cur : cur = proc[x]
  OBVIOUS
<1>1. /\ pc[x] = "user" /\ cur = current /\ cur \in Pid /\ Cur(x) = cur
      /\ cur \in Ch(x) /\ child_pcb[cur] = NULL
  BY LeafIsCur DEF HaltChild, Calls, At, TypeOK, Cur, current, LeafInv
<1>2. cur \notin Term /\ cur # NULL
  BY <1>1, ProcessAssumption DEF HaltChild, LinkInv
<1>3. /\ child_pcb \in LinkFcn
      /\ \A t \in Term : Ch(t) \subseteq Pid
  BY ChainClosed DEF TypeOK, LinkFcn, Ch
<1>4. PICK parent \in Ch(x) : child_pcb[parent] = cur
  BY <1>1, <1>2, <1>3, ChainParent DEF Ch
<1>5. parent \in Pid /\ parent_pcb[cur] = parent /\ parent_esp[cur] = parent
  BY <1>1, <1>2, <1>3, <1>4 DEF LinkInv
<1>6. /\ child_pcb' = [child_pcb EXCEPT ![parent] = NULL]
      /\ proc' = [proc EXCEPT ![x] = parent]
      /\ user_page' = parent /\ esp0' = parent
      /\ UNCHANGED <<pc, new_PID, exec_term_id, image>>
  BY <1>1, <1>5 DEF HaltChild, Unlink, RestorePage
<1>7. /\ child_pcb' \in LinkFcn /\ child_pcb'[parent] = NULL
      /\ \A q \in Pid : q # parent => child_pcb'[q] = child_pcb[q]
      /\ proc'[x] = parent
  BY <1>3, <1>5, <1>6 DEF LinkFcn, TypeOK
<1>8. ASSUME NEW t \in Term PROVE Ch(t)' \subseteq Ch(t)
  <2> DEFINE S == Chain(t, child_pcb)
  <2>1. S \in SUBSET Pid /\ t \in S
    BY <1>3, ChainClosed
  <2>2. \A q \in S : child_pcb'[q] # NULL => child_pcb'[q] \in S
    BY <1>3, <1>7, ChainClosed
  <2> HIDE DEF S
  <2>3. Chain(t, child_pcb') \subseteq S
    BY <2>1, <2>2, <1>7, ChainLeast
  <2> QED BY <2>3 DEF S, Ch
<1>9. OnProcessor' /\ PageInv' /\ StackInv'
  BY <1>1, <1>6, <1>7 DEF OnProcessor, PageInv, StackInv, Loading, Cur
<1>10. ImageInv'
  BY <1>6, <1>8 DEF ImageInv
<1> QED BY <1>9, <1>10

\* An interrupt finds no load under way: the timer installs the page and the stack
\* of the process the walk finds, a new shell those of its terminal's root.
LEMMA InterruptAddress ==
    ASSUME LoadUninterrupted, IInv, AInv,
           pit_handler \/ \E t \in Term : SwitchDisplay(t) \/ StartShell(t)
    PROVE  AInv'
<1> USE DEF IInv, AInv, pcbs, threads, terms, mmu
<1>1. Interruptible => \A t \in Term : pc[t] \notin Loading
  BY DEF Interruptible, LoadUninterrupted, OnProcessor, Loading, TypeOK
<1>2. CASE pit_handler
  <2>1. next_executing_term \in Term
    BY NextIsStarted DEF Awake
  <2>2. /\ user_page' = Cur(exec_term_id') /\ esp0' = Cur(exec_term_id')
        /\ exec_term_id' \in Term
        /\ UNCHANGED <<child_pcb, pc, proc, new_PID, image>>
    BY <1>2, <2>1, LeafIsCur DEF pit_handler
  <2>3. OnProcessor' /\ PageInv' /\ StackInv'
    BY <1>1, <1>2, <2>2 DEF pit_handler, OnProcessor, PageInv, StackInv, Cur
  <2>4. ImageInv'
    BY <2>2 DEF ImageInv, Ch
  <2> QED BY <2>3, <2>4
<1>3. ASSUME NEW t \in Term, SwitchDisplay(t)
      PROVE  AInv'
  BY <1>3 DEF SwitchDisplay, OnProcessor, PageInv, StackInv, ImageInv, Loading, Cur, Ch
<1>4. ASSUME NEW t \in Term, StartShell(t)
      PROVE  AInv'
  <2>1. /\ proc[t] = t /\ pc' = [pc EXCEPT ![t] = "user"]
        /\ user_page' = t /\ esp0' = t /\ exec_term_id' = t
        /\ UNCHANGED <<child_pcb, proc, new_PID, image>>
    BY <1>4 DEF StartShell, Awake
  <2>2. pc'[t] = "user" /\ \A u \in Term : u # t => pc'[u] = pc[u]
    BY <2>1 DEF TypeOK
  <2>3. OnProcessor' /\ PageInv' /\ StackInv'
    BY <1>1, <1>4, <2>1, <2>2
       DEF StartShell, OnProcessor, PageInv, StackInv, Loading, Cur
  <2>4. ImageInv'
    BY <2>1, <2>2 DEF ImageInv, Ch
  <2> QED BY <2>3, <2>4
<1> QED BY <1>2, <1>3, <1>4

\* Every step keeps the strengthening, given the invariant of ProcessProofs.
LEMMA NextAddress ==
    ASSUME LoadUninterrupted, IInv, AInv, [Next]_vars
    PROVE  AInv'
<1>1. CASE \/ ExecuteCall \/ ExecuteFails \/ ExecuteFound
           \/ ScanNext \/ ScanFree \/ ScanLimit \/ ReadCall \/ ReadReturn
  BY <1>1, UserAddress
<1>2. CASE Claim
  BY <1>2, ClaimAddress
<1>3. CASE MapPage \/ LoadImage
  BY <1>3, LoadAddress
<1>4. CASE LinkPcb
  BY <1>4, LinkAddress
<1>5. CASE StartProgram \/ HaltRoot
  BY <1>5, EnterAddress
<1>6. CASE HaltChild
  BY <1>6, HaltAddress
<1>7. CASE pit_handler \/ \E t \in Term : SwitchDisplay(t) \/ StartShell(t)
  BY <1>7, InterruptAddress
<1>8. CASE UNCHANGED vars
  BY <1>8 DEF vars, pcbs, threads, terms, mmu, AInv, OnProcessor, PageInv, StackInv,
              ImageInv, Loading, Ch, Cur
<1> QED BY <1>1, <1>2, <1>3, <1>4, <1>5, <1>6, <1>7, <1>8
        DEF Next, execute, halt, switch_displaying_term

-----------------------------------------------------------------------------
\* The strengthening holds throughout when the claim of a slot and the load of an
\* image (syscall.c:210-212 and 225-275) are not interrupted.
THEOREM AddressInvariant ==
    ASSUME LoadUninterrupted
    PROVE  Spec => [](IInv /\ AInv)
<1>1. "ex_claim" \notin PreemptPoints
  BY DEF LoadUninterrupted
<1>2. Spec => []IInv
  BY <1>1, InvariantHolds
<1>3. Init => AInv
  BY InitAddress
<1>4. IInv /\ AInv /\ [Next]_vars => AInv'
  BY NextAddress
<1> QED BY <1>2, <1>3, <1>4, PTL DEF Spec

\* A program in user mode always has its own image in its own page, and its own
\* kernel stack in the TSS, for any number of terminals and processes.
THEOREM ProgramsKeepAddressSpace ==
    ASSUME LoadUninterrupted
    PROVE  Spec => []OwnAddressSpace
<1>1. IInv /\ AInv => OwnAddressSpace
  <2> SUFFICES ASSUME IInv, AInv, At("user") PROVE /\ user_page = proc[exec_term_id]
                                                   /\ esp0 = proc[exec_term_id]
                                                   /\ image[user_page] = user_page
    BY DEF OwnAddressSpace
  <2>1. exec_term_id \in Term /\ pc[exec_term_id] = "user"
    BY DEF IInv, TypeOK, At
  <2>2. user_page = Cur(exec_term_id) /\ Cur(exec_term_id) = proc[exec_term_id]
    BY <2>1 DEF AInv, PageInv, Loading, Cur
  <2>3. esp0 = proc[exec_term_id]
    BY <2>1 DEF AInv, StackInv
  <2>4. image[user_page] = user_page
    BY <2>1, <2>2 DEF IInv, AInv, LeafInv, ImageInv
  <2> QED BY <2>2, <2>3, <2>4
<1> QED BY <1>1, AddressInvariant, PTL

\* No execute (syscall.c:234) ever writes over the page of a program that is alive.
THEOREM LiveImagesIntact ==
    ASSUME LoadUninterrupted
    PROVE  Spec => []ImagesIntact
<1>1. AInv => ImagesIntact
  BY DEF AInv, ImageInv, ImagesIntact, Started, Ch
<1> QED BY <1>1, AddressInvariant, PTL

-----------------------------------------------------------------------------
(***************************************************************************)
(* The tables.  Every entry is known from user_page and vid_page, and a    *)
(* kept translation is the one the tables give.                            *)
(***************************************************************************)
DirectoryInv ==
    /\ page_directory = [v \in Index |-> page_directory[v]]
    /\ page_directory[0] = Entry(<<"table", 0>>, FALSE)
    /\ page_directory[1] = Entry(<<"4MB", 1>>, FALSE)
    /\ page_directory[USER_PD_INDEX] = Entry(<<"4MB", RealIndex(user_page)>>, TRUE)

VideoInv ==
    /\ vid_page \in Term \cup {NULL, DISPLAY}
    /\ page_table_0 = Entry(Video(DISPLAY), FALSE)
    /\ IF vid_page = NULL
       THEN /\ page_directory[VID_MAP_VIRTUAL_INDEX] = Clear
            /\ vid_page_table_0 = [Clear EXCEPT !.addr = vid_page_table_0.addr]
       ELSE /\ page_directory[VID_MAP_VIRTUAL_INDEX] = Entry(<<"table", 1>>, TRUE)
            /\ vid_page_table_0 = Entry(Video(vid_page), TRUE)

KeptInv == \A v \in DOMAIN tlb : tlb[v] = Walk(v)

TableInv == DirectoryInv /\ VideoInv /\ KeptInv

\* The page number of a process is one create_user_4mb_page accepts (paging.c).
LEMMA PageInRange ==
    ASSUME NEW p \in Pid, NEW d, d = [v \in Index |-> d[v]]
    PROVE  /\ create_user_4mb_page(d, RealIndex(p)) =
                 [v \in Index |-> create_user_4mb_page(d, RealIndex(p))[v]]
           /\ create_user_4mb_page(d, RealIndex(p))[USER_PD_INDEX] =
                 Entry(<<"4MB", RealIndex(p)>>, TRUE)
           /\ \A v \in Index \ {USER_PD_INDEX} :
                 create_user_4mb_page(d, RealIndex(p))[v] = d[v]
<1>1. RealIndex(p) >= 2 /\ RealIndex(p) < PAGE_TABLE_SIZE
  BY ProcessAssumption, PagingAssumption DEF Pid, RealIndex, PAGE_TABLE_SIZE
<1>2. create_user_4mb_page(d, RealIndex(p)) =
         [d EXCEPT ![USER_PD_INDEX] = Entry(<<"4MB", RealIndex(p)>>, TRUE)]
  BY <1>1 DEF create_user_4mb_page, RealIndex, PAGE_TABLE_SIZE, Pid
<1>3. USER_PD_INDEX \in Index
  BY DEF Index
<1> QED
  BY <1>2, <1>3

\* With no kept translation, what is kept agrees with any tables.
LEMMA NothingKept == reload_cr3 => KeptInv'
<1> SUFFICES ASSUME reload_cr3 PROVE KeptInv'
  OBVIOUS
<1>1. DOMAIN tlb' = {}
  BY DEF reload_cr3
<1> QED
  BY <1>1 DEF KeptInv

\* init_paging sets up what the invariant says.
LEMMA InitTables == PagingInit => TableInv
<1> SUFFICES ASSUME PagingInit PROVE TableInv
  OBVIOUS
<1> USE DEF PagingInit, VInit
<1>1. user_page = 0 /\ 0 \in Pid
  BY ProcessAssumption DEF Init, Pid
<1> DEFINE d == [v \in Index |-> CASE v = 0 -> Entry(<<"table", 0>>, FALSE)
                                   [] v = 1 -> KernelEntry
                                   [] OTHER -> Clear]
<1>2. /\ d = [v \in Index |-> d[v]]
      /\ d[0] = Entry(<<"table", 0>>, FALSE) /\ d[1] = Entry(<<"4MB", 1>>, FALSE)
      /\ d[VID_MAP_VIRTUAL_INDEX] = Clear
  BY DEF Index, VID_MAP_VIRTUAL_INDEX, KernelEntry
<1>3. page_directory = create_user_4mb_page(d, RealIndex(0))
  BY DEF init_paging
<1>4. {0, 1, VID_MAP_VIRTUAL_INDEX} \subseteq Index \ {USER_PD_INDEX}
  BY DEF Index, VID_MAP_VIRTUAL_INDEX, USER_PD_INDEX
<1> HIDE DEF d
<1>5. DirectoryInv /\ page_directory[VID_MAP_VIRTUAL_INDEX] = Clear
  BY <1>1, <1>2, <1>3, <1>4, PageInRange DEF DirectoryInv
<1>6. VideoInv
  BY <1>5 DEF VideoInv, init_paging, Clear, Entry
<1>7. KeptInv
  BY DEF KeptInv
<1> QED
  BY <1>5, <1>6, <1>7 DEF TableInv

\* Every step of Paging is a step of Process or leaves its variables alone.
LEMMA PagingStep == PagingNext => [Next]_vars
BY DEF PagingNext, MapUserPage, create_vid_4kb_page, vidmap, RemapAtTick, VTimer,
   MapsNothing, Access, vvars, Next, execute, halt, switch_displaying_term

\* A step that changes no mapping.
LEMMA SameTables ==
    ASSUME TableInv, UNCHANGED <<user_page, vid_page, tables>>,
           \A v \in DOMAIN tlb' : tlb'[v] = Walk(v)
    PROVE  TableInv'
<1>1. UNCHANGED <<page_directory, page_table_0, vid_page_table_0>>
  BY DEF tables
<1>2. \A v : Walk(v)' = Walk(v)
  BY <1>1 DEF Walk
<1>3. KeptInv'
  BY <1>2 DEF KeptInv
<1> QED
  BY <1>1, <1>3 DEF TableInv, DirectoryInv, VideoInv

\* Every step keeps the tables right: what maps a page also flushes.
LEMMA NextTables ==
    ASSUME TypeOK, TypeOK', TableInv, [PagingNext]_pagingVars
    PROVE  TableInv'
<1> USE DEF TableInv
<1>1. user_page \in Pid /\ user_page' \in Pid
  BY DEF TypeOK
<1> DEFINE d == create_user_4mb_page(page_directory, RealIndex(user_page'))
<1>2. /\ d = [v \in Index |-> d[v]]
      /\ d[0] = page_directory[0] /\ d[1] = page_directory[1]
      /\ d[VID_MAP_VIRTUAL_INDEX] = page_directory[VID_MAP_VIRTUAL_INDEX]
      /\ d[USER_PD_INDEX] = Entry(<<"4MB", RealIndex(user_page')>>, TRUE)
  <2>1. {0, 1, VID_MAP_VIRTUAL_INDEX} \subseteq Index \ {USER_PD_INDEX}
    BY DEF Index, VID_MAP_VIRTUAL_INDEX, USER_PD_INDEX
  <2>2. page_directory = [v \in Index |-> page_directory[v]]
    BY DEF DirectoryInv
  <2>3. /\ d = [v \in Index |-> d[v]]
        /\ d[USER_PD_INDEX] = Entry(<<"4MB", RealIndex(user_page')>>, TRUE)
        /\ \A v \in Index \ {USER_PD_INDEX} : d[v] = page_directory[v]
    BY <1>1, <2>2, PageInRange
  <2> HIDE DEF d
  <2> QED
    BY <2>1, <2>3
<1> HIDE DEF d
<1>3. page_directory' = d => DirectoryInv'
  BY <1>2 DEF DirectoryInv
<1>4. CASE MapUserPage
  <2>1. page_directory' = d /\ KeptInv'
    BY <1>4, NothingKept DEF MapUserPage, d
  <2>2. UNCHANGED <<vid_page, page_table_0, vid_page_table_0>>
    BY <1>4 DEF MapUserPage
  <2> QED
    BY <1>2, <1>3, <2>1, <2>2 DEF VideoInv
<1>5. CASE create_vid_4kb_page
  <2>1. /\ vid_page' = DISPLAY /\ UNCHANGED <<user_page, page_table_0>>
        /\ vid_page_table_0' = Entry(Video(DISPLAY), TRUE)
        /\ KeptInv'
    BY <1>5, NothingKept DEF create_vid_4kb_page, vidmap, vars, mmu
  <2>2. /\ page_directory' = [page_directory EXCEPT
               ![VID_MAP_VIRTUAL_INDEX] = Entry(<<"table", 1>>, TRUE)]
        /\ VID_MAP_VIRTUAL_INDEX \in Index
        /\ VID_MAP_VIRTUAL_INDEX \notin {0, 1, USER_PD_INDEX}
        /\ {0, 1, USER_PD_INDEX} \subseteq Index
    BY <1>5 DEF create_vid_4kb_page, Index, VID_MAP_VIRTUAL_INDEX, USER_PD_INDEX
  <2>3. /\ page_directory' = [v \in Index |-> page_directory'[v]]
        /\ page_directory'[VID_MAP_VIRTUAL_INDEX] = Entry(<<"table", 1>>, TRUE)
        /\ \A v \in {0, 1, USER_PD_INDEX} : page_directory'[v] = page_directory[v]
    BY <2>2 DEF DirectoryInv
  <2>4. DirectoryInv'
    BY <2>1, <2>3 DEF DirectoryInv
  <2>5. VideoInv'
    BY <2>1, <2>3, PagingAssumption DEF VideoInv
  <2> QED
    BY <2>1, <2>4, <2>5
<1>6. CASE RemapAtTick
  <2> DEFINE r == remap_vid(next_executing_term)
  <2>1. /\ page_directory' = d /\ KeptInv'
        /\ vid_page' = IF vid_page = NULL THEN NULL ELSE r
        /\ vid_page_table_0' = [vid_page_table_0 EXCEPT !.addr = Video(r)]
        /\ page_table_0' = page_table_0
        /\ exec_term_id' = next_executing_term
    BY <1>6, NothingKept DEF RemapAtTick, VTimer, pit_handler, d
  <2>2. r \in Term \cup {DISPLAY}
    BY <2>1 DEF TypeOK, remap_vid
  <2> HIDE DEF r
  <2>3. VideoInv'
    <3>1. CASE vid_page = NULL
      BY <1>2, <2>1, <3>1 DEF VideoInv, Clear, Entry
    <3>2. CASE vid_page # NULL
      <4>1. vid_page' = r /\ r # NULL
        BY <2>1, <2>2, <3>2, PagingAssumption
      <4>2. vid_page_table_0' = Entry(Video(r), TRUE)
        <5>1. vid_page_table_0 = Entry(Video(vid_page), TRUE)
          BY <3>2 DEF VideoInv
        <5> QED BY <2>1, <5>1 DEF Entry
      <4> QED
        BY <1>2, <2>1, <2>2, <3>2, <4>1, <4>2 DEF VideoInv
    <3> QED BY <3>1, <3>2
  <2> QED
    BY <1>3, <2>1, <2>3
<1>7. CASE MapsNothing
  <2>1. UNCHANGED <<user_page, vid_page, tables, tlb>>
    BY <1>7 DEF MapsNothing, ExecuteCall, ExecuteFails, ExecuteFound, ScanNext,
       ScanFree, ScanLimit, Claim, LoadImage, LinkPcb, StartProgram, HaltRoot,
       ReadCall, ReadReturn, SwitchDisplay, mmu
  <2> QED
    BY <2>1, SameTables DEF KeptInv
<1>8. ASSUME NEW v \in Cached, Access(v) PROVE TableInv'
  <2>1. UNCHANGED <<user_page, vid_page, tables>>
    BY <1>8 DEF Access, vvars, vars, mmu
  <2>2. \A w \in DOMAIN tlb' : tlb'[w] = Walk(w)
    BY <1>8 DEF Access, Seen, KeptInv
  <2> QED
    BY <2>1, <2>2, SameTables
<1>9. CASE UNCHANGED pagingVars
  BY <1>9, SameTables DEF pagingVars, vvars, vars, mmu, KeptInv
<1> QED
  BY <1>4, <1>5, <1>6, <1>7, <1>8, <1>9 DEF PagingNext

\* What an access finds is what the tables say.
LEMMA SeenIsWalk ==
    ASSUME TableInv
    PROVE  \A v : Seen(v) = Walk(v)
BY DEF TableInv, KeptInv, Seen

\* The tables of Paging agree with what Process and VideoMap say is mapped.
LEMMA TablesHold ==
    ASSUME "ex_claim" \notin PreemptPoints
    PROVE  PagingSpec => [](IInv /\ TableInv)
<1>1. PagingInit => IInv /\ TableInv
  BY InitInv, InitTables DEF PagingInit, VInit
<1>2. IInv /\ TableInv /\ [PagingNext]_pagingVars => (IInv /\ TableInv)'
  <2> SUFFICES ASSUME IInv, TableInv, [PagingNext]_pagingVars
               PROVE  IInv' /\ TableInv'
    OBVIOUS
  <2>1. [Next]_vars
    BY PagingStep DEF pagingVars, vvars
  <2>2. IInv'
    BY <2>1, NextInv
  <2>3. TypeOK /\ TypeOK'
    BY <2>2 DEF IInv
  <2> QED
    BY <2>2, <2>3, NextTables
<1> QED
  BY <1>1, <1>2, PTL DEF PagingSpec

\* What an access to the user page or the user video page finds is what the kernel
\* mapped last: create_user_4mb_page, create_vid_4kb_page and remap_vid (paging.c)
\* are never called without the flush the translations kept from before need.
THEOREM MappingsStayCurrent ==
    ASSUME "ex_claim" \notin PreemptPoints
    PROVE  PagingSpec => []MappingsCurrent
<1>1. IInv /\ TableInv => MappingsCurrent
  <2> SUFFICES ASSUME IInv, TableInv PROVE MappingsCurrent
    OBVIOUS
  <2>1. Seen(USER_PD_INDEX) = page_directory[USER_PD_INDEX]
    BY SeenIsWalk DEF Walk
  <2>2. Seen(USER_PD_INDEX).addr = <<"4MB", RealIndex(user_page)>>
    BY <2>1 DEF TableInv, DirectoryInv, Entry
  <2>3. Seen(VID_MAP_VIRTUAL_INDEX) = Walk(VID_MAP_VIRTUAL_INDEX)
    BY SeenIsWalk
  <2>4. VID_MAP_VIRTUAL_INDEX \notin {0, 1, USER_PD_INDEX}
    BY DEF VID_MAP_VIRTUAL_INDEX, USER_PD_INDEX
  <2>5. CASE vid_page = NULL
    <3>1. page_directory[VID_MAP_VIRTUAL_INDEX] = Clear /\ ~ Clear.present
      BY <2>5 DEF TableInv, VideoInv, Clear, Entry
    <3>2. Walk(VID_MAP_VIRTUAL_INDEX) = Clear
      BY <2>4, <3>1 DEF Walk
    <3> QED
      BY <2>2, <2>3, <2>5, <3>1, <3>2
         DEF MappingsCurrent, VTypeOK, IInv, TableInv, VideoInv
  <2>6. CASE vid_page # NULL
    <3>1. Walk(VID_MAP_VIRTUAL_INDEX).addr = Video(vid_page)
      BY <2>4, <2>6 DEF TableInv, VideoInv, Walk, Entry
    <3> QED
      BY <2>2, <2>3, <2>6, <3>1
         DEF MappingsCurrent, VTypeOK, IInv, TableInv, VideoInv
  <2> QED BY <2>5, <2>6
<1> QED
  BY <1>1, TablesHold, PTL

\* A program in user mode reaches its own page and video memory, never the kernel's
\* page or the page of another process (paging.c:124-182).
THEOREM UserReachesOwnPages ==
    ASSUME LoadUninterrupted
    PROVE  PagingSpec => []UserReach
<1>1. "ex_claim" \notin PreemptPoints
  BY DEF LoadUninterrupted
<1>2. PagingInit => AInv
  BY InitAddress DEF PagingInit, VInit
<1>3. IInv /\ AInv /\ [PagingNext]_pagingVars => AInv'
  <2> SUFFICES ASSUME IInv, AInv, [PagingNext]_pagingVars PROVE AInv'
    OBVIOUS
  <2>1. [Next]_vars
    BY PagingStep DEF pagingVars, vvars
  <2> QED
    BY <2>1, NextAddress
<1>4. IInv /\ AInv /\ TableInv => UserReach
  <2> SUFFICES ASSUME IInv, AInv, TableInv, At("user")
               PROVE  /\ Seen(USER_PD_INDEX).present
                      /\ \A v \in Index : Seen(v).present /\ Seen(v).user =>
                            \/ Seen(v).addr = <<"4MB", 2 + proc[exec_term_id]>>
                            \/ \E t \in Term \cup {DISPLAY} : Seen(v).addr = Video(t)
    BY DEF UserReach
  <2>1. user_page = proc[exec_term_id] /\ user_page \in Pid
    BY DEF IInv, TypeOK, At, AInv, PageInv, Loading, Cur
  <2>2. RealIndex(user_page) = 2 + proc[exec_term_id]
    BY <2>1 DEF RealIndex, Pid
  <2>3. Seen(USER_PD_INDEX) = Entry(<<"4MB", 2 + proc[exec_term_id]>>, TRUE)
    BY <2>2, SeenIsWalk DEF Walk, TableInv, DirectoryInv
  <2>4. ~ Seen(0).user
    <3>1. Seen(0) = Walk(0)
      BY SeenIsWalk
    <3>2. 0 \notin {1, USER_PD_INDEX}
      BY DEF USER_PD_INDEX
    <3> QED
      BY <3>1, <3>2 DEF Walk, TableInv, DirectoryInv, VideoInv, Entry, Clear
  <2>5. ~ Seen(1).user
    BY SeenIsWalk DEF Walk, TableInv, DirectoryInv, Entry
  <2>6. Seen(VID_MAP_VIRTUAL_INDEX).present =>
           \E t \in Term \cup {DISPLAY} : Seen(VID_MAP_VIRTUAL_INDEX).addr = Video(t)
    <3>1. VID_MAP_VIRTUAL_INDEX \notin {0, 1, USER_PD_INDEX}
      BY DEF VID_MAP_VIRTUAL_INDEX, USER_PD_INDEX
    <3>2. Seen(VID_MAP_VIRTUAL_INDEX) = Walk(VID_MAP_VIRTUAL_INDEX)
      BY SeenIsWalk
    <3>3. CASE vid_page = NULL
      BY <3>1, <3>2, <3>3 DEF Walk, TableInv, VideoInv, Clear, Entry
    <3>4. CASE vid_page # NULL
      <4>1. Walk(VID_MAP_VIRTUAL_INDEX).addr = Video(vid_page)
        BY <3>1, <3>4 DEF TableInv, VideoInv, Walk, Entry
      <4> QED
        BY <3>2, <3>4, <4>1 DEF TableInv, VideoInv
    <3> QED BY <3>3, <3>4
  <2> QED
    BY <2>3, <2>4, <2>5, <2>6 DEF Index, Entry
<1> QED
  BY <1>1, <1>2, <1>3, <1>4, TablesHold, PTL DEF PagingSpec
=============================================================================
