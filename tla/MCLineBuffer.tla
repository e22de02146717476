---------------------------- MODULE MCLineBuffer ----------------------------
(* LineBuffer for TLC; the configurations give the constants their values. *)
EXTENDS LineBuffer
=============================================================================
