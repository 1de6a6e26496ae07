--------------------------- MODULE MCAbortOverlay ---------------------------
(***************************************************************************)
(* Two tasks and three contexts on the abort stack: two tasks and a nested *)
(* event of one of them.  A clock of four milliseconds wraps around within *)
(* two polls.                                                              *)
(***************************************************************************)
EXTENDS AbortOverlay
=============================================================================
