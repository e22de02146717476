----------------------------- MODULE MCProcess -----------------------------
(***************************************************************************)
(* Instances of Process for TLC: the sets of labels of execute at which an *)
(* interrupt may arrive.                                                   *)
(***************************************************************************)
EXTENDS Process

\* execute as written: interrupts are enabled throughout.
AsWritten == ExecuteLabels

\* As if the test and the setting of processes[i] were one step.
ClaimAtomic == ExecuteLabels \ { "ex_claim" }

\* As if, besides, everything from mapping the page to the link ran under cli.
LoadAtomic == { "ex_lookup", "ex_scan", "ex_page", "ex_iret" }
=============================================================================
