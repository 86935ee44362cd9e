-------------------------- MODULE MCFilterSession --------------------------
(* The schema of MCAcrNav, with the history variable of FilterSession. *)
EXTENDS MCAcrNav, FilterSession
=============================================================================
