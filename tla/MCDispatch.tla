----------------------------- MODULE MCDispatch -----------------------------
(* Instances of Dispatch for TLC. *)
EXTENDS Dispatch

\* One window per depth a thread can be parked at: in a function execute calls,
\* in execute before the new PCB is linked, and in execute after.
OnePerDepth == { "ex_lookup", "ex_page", "ex_iret" }

\* Every window but the one between test and setting of processes[i].
ClaimAtomic == ExecuteLabels \ { "ex_claim" }
=============================================================================
