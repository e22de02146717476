------------------------------- MODULE MCFish -------------------------------
(* Fish for TLC; the configuration gives the constants their values. *)
EXTENDS Fish
=============================================================================
