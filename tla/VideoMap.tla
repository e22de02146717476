------------------------------ MODULE VideoMap ------------------------------
(***************************************************************************)
(* The user video page: vidmap (syscall.c), create_vid_4kb_page and        *)
(* remap_vid (paging.c) and their calls from the timer, together with the  *)
(* actions of Process that change which terminal executes or is displayed. *)
(* There is one such page for all processes; once a program has called     *)
(* vidmap it stays present.                                                *)
(***************************************************************************)
EXTENDS Process

\* The frame behind the page: 0xB8000, or t for terms[t].vid_save.
DISPLAY == NUM_TERMINALS

VARIABLE vid_page   \* NULL while the page is not present, DISPLAY or a terminal

vvars == <<vars, vid_page>>

VInit == Init /\ vid_page = NULL

\* Mutant: the timer maps the display for whichever terminal it turns to.
AlwaysDisplay(exec) == DISPLAY

remap_vid(exec) == IF exec = curr_term_id THEN DISPLAY ELSE exec

\* vidmap with a valid address, displayed terminal or not.
vidmap ==
    /\ At("user")
    /\ vid_page' = DISPLAY
    /\ UNCHANGED vars

\* Without effect while the page is not present.
VTimer ==
    /\ pit_handler
    /\ vid_page' = IF vid_page = NULL THEN NULL ELSE remap_vid(next_executing_term)

VOther ==
    /\ execute \/ halt \/ ReadCall \/ ReadReturn \/ switch_displaying_term
    /\ UNCHANGED vid_page

VNext == vidmap \/ VTimer \/ VOther

VSpec == VInit /\ [][VNext]_vvars

-----------------------------------------------------------------------------
VTypeOK == TypeOK /\ vid_page \in Term \cup {NULL, DISPLAY}

\* What terminal t's program should see while it runs: the display when t is
\* displayed, t's own buffer when it is not, nothing before any vidmap.
Due(t) == IF t = curr_term_id THEN {NULL, DISPLAY} ELSE {NULL, t}

\* A switch, the start of a shell, or a vidmap on a terminal in the background
\* can leave a program drawing on another terminal's screen; such a program gets
\* the processor again with the right page, without calling vidmap once more
\* (scheduler.c:73).
VidRepaired ==
    \A t \in Term :
        [](exec_term_id = t /\ vid_page \notin Due(t)
              => <>(exec_term_id = t /\ vid_page \in Due(t)))
=============================================================================
