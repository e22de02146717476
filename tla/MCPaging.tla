------------------------------ MODULE MCPaging ------------------------------
(* Paging for TLC; the configuration gives the constants their values. *)
EXTENDS Paging
=============================================================================
