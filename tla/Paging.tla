------------------------------- MODULE Paging -------------------------------
(***************************************************************************)
(* The page directory, the two page tables and the translations the        *)
(* processor keeps of them (paging.c), under the actions of Process and    *)
(* VideoMap that change a mapping.  user_page and vid_page of those        *)
(* modules say what the kernel meant to map; here is what an access finds. *)
(* Four places are followed: the kernel's 4MB page, video memory in the    *)
(* kernel's table, the user video page and the user page.                  *)
(***************************************************************************)
EXTENDS VideoMap

CONSTANT Cached     \* the places whose kept translations are followed

VID_MAP_VIRTUAL_INDEX == 31
USER_PD_INDEX == 32
PAGE_TABLE_SIZE == 1024
Index == { 0, 1, VID_MAP_VIRTUAL_INDEX, USER_PD_INDEX }

\* The page of every process has a number in the directory (6 processes, pages 2
\* to 7).
ASSUME PagingAssumption ==
    /\ Cached \subseteq Index
    /\ MAX_NUM_PROCESSES + 2 <= PAGE_TABLE_SIZE
    /\ NULL \notin Term \cup {DISPLAY}

VARIABLES
    page_directory,     \* [Index -> directory entry]
    page_table_0,       \* the entry of video memory
    vid_page_table_0,   \* the entry of the user video page
    tlb                 \* kept translations: a function from some of Cached

tables == <<page_directory, page_table_0, vid_page_table_0>>
pagingVars == <<vvars, tables, tlb>>

\* An entry of a directory or table.  What it points to is a 4MB page, numbered by
\* its address / 4MB, a table or a frame of video memory.
Entry(addr, user) == [present |-> TRUE, addr |-> addr, user |-> user]
Clear == [Entry(<<"none", 0>>, FALSE) EXCEPT !.present = FALSE]
Video(frame) == <<"video", frame>>

RealIndex(pid) == pid + 2

create_user_4mb_page(directory, real_index) ==
    IF real_index < 2 \/ real_index >= PAGE_TABLE_SIZE THEN directory
    ELSE [directory EXCEPT ![USER_PD_INDEX] = Entry(<<"4MB", real_index>>, TRUE)]

\* Mutant: the kernel's page is marked as a user's.
UserKernel == Entry(<<"4MB", 1>>, TRUE)

KernelEntry == Entry(<<"4MB", 1>>, FALSE)

\* clear_page_directory_table, kernel_paging_init and vga_paging_init.
init_paging ==
    /\ page_table_0 = Entry(Video(DISPLAY), FALSE)
    /\ vid_page_table_0 = Clear
    /\ page_directory =
          create_user_4mb_page(
              [v \in Index |-> CASE v = 0 -> Entry(<<"table", 0>>, FALSE)
                                 [] v = 1 -> KernelEntry
                                 [] OTHER -> Clear],
              RealIndex(0))

PagingInit == VInit /\ init_paging /\ tlb = [v \in {} |-> Clear]

\* Mutant: the kept translations are not dropped.
NoReload == UNCHANGED tlb

\* Loading cr3 drops every translation, the kernel's too: its entry has the global
\* bit, but setup_control_registers does not turn global pages on.
reload_cr3 == tlb' = [v \in {} |-> Clear]

-----------------------------------------------------------------------------
(***************************************************************************)
(* The translation of the processor (external): a page is a user's when    *)
(* every entry on the way to it is.                                        *)
(***************************************************************************)
Walk(v) ==
    LET pde == page_directory[v]
        pte == IF v = 0 THEN page_table_0 ELSE vid_page_table_0
    IN IF v \in { 1, USER_PD_INDEX } THEN pde
       ELSE IF ~ pde.present \/ ~ pte.present THEN Clear
       ELSE [pte EXCEPT !.user = pte.user /\ pde.user]

Seen(v) == IF v \in DOMAIN tlb THEN tlb[v] ELSE Walk(v)

\* An access to a page that is there keeps its translation.
Access(v) ==
    /\ v \notin DOMAIN tlb
    /\ Walk(v).present
    /\ tlb' = [w \in DOMAIN tlb \cup {v} |-> Seen(w)]
    /\ UNCHANGED <<vvars, tables>>

-----------------------------------------------------------------------------
\* execute, halt and the first start of a shell map a user page and flush.
MapUserPage ==
    /\ MapPage \/ HaltChild \/ \E t \in Term : StartShell(t)
    /\ page_directory' = create_user_4mb_page(page_directory, RealIndex(user_page'))
    /\ reload_cr3
    /\ UNCHANGED <<vid_page, page_table_0, vid_page_table_0>>

create_vid_4kb_page ==
    /\ vidmap
    /\ page_directory' = [page_directory EXCEPT
           ![VID_MAP_VIRTUAL_INDEX] = Entry(<<"table", 1>>, TRUE)]
    /\ vid_page_table_0' = Entry(Video(DISPLAY), TRUE)
    /\ reload_cr3
    /\ UNCHANGED page_table_0

\* The timer maps both; before any vidmap the address of an absent page changes.
RemapAtTick ==
    /\ VTimer
    /\ page_directory' = create_user_4mb_page(page_directory, RealIndex(user_page'))
    /\ vid_page_table_0' = [vid_page_table_0 EXCEPT
           !.addr = Video(remap_vid(next_executing_term))]
    /\ reload_cr3
    /\ UNCHANGED page_table_0

MapsNothing ==
    /\ \/ ExecuteCall \/ ExecuteFails \/ ExecuteFound \/ ScanNext \/ ScanFree
       \/ ScanLimit \/ Claim \/ LoadImage \/ LinkPcb \/ StartProgram
       \/ HaltRoot \/ ReadCall \/ ReadReturn \/ \E t \in Term : SwitchDisplay(t)
    /\ UNCHANGED <<vid_page, tables, tlb>>

PagingNext ==
    \/ MapUserPage \/ create_vid_4kb_page \/ RemapAtTick \/ MapsNothing
    \/ \E v \in Cached : Access(v)

PagingSpec == PagingInit /\ [][PagingNext]_pagingVars

\* As in Process: kernel code runs on, a latched timer request is accepted.
PagingFairSpec ==
    /\ PagingSpec
    /\ WF_pagingVars(KernelStep /\ (MapUserPage \/ MapsNothing))
    /\ SF_pagingVars(RemapAtTick)

-----------------------------------------------------------------------------
(***************************************************************************)
(* Properties.                                                             *)
(***************************************************************************)
\* What an access finds, by a kept translation or by the tables, is what the
\* kernel mapped last: no change of a mapping goes without the flush it needs,
\* and no program writes to the page or the screen of an earlier mapping.
\* (And the variables keep their types.)
MappingsCurrent ==
    /\ VTypeOK
    /\ Seen(USER_PD_INDEX).addr = <<"4MB", RealIndex(user_page)>>
    /\ IF vid_page = NULL THEN ~ Seen(VID_MAP_VIRTUAL_INDEX).present
       ELSE Seen(VID_MAP_VIRTUAL_INDEX).addr = Video(vid_page)

\* A program in user mode reaches its own 4MB page and, after a vidmap, video
\* memory or a terminal's copy of it: never the kernel's page, and never the
\* page of another process (paging.c:124-182).
UserReach ==
    At("user") =>
        /\ Seen(USER_PD_INDEX).present
        /\ \A v \in Index : Seen(v).present /\ Seen(v).user =>
              \/ Seen(v).addr = <<"4MB", 2 + proc[exec_term_id]>>
              \/ \E t \in Term \cup {DISPLAY} : Seen(v).addr = Video(t)
=============================================================================
