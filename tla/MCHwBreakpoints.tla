-------------------------- MODULE MCHwBreakpoints --------------------------
(***************************************************************************)
(* Two words: one with a Thumb instruction in each half and an ARM         *)
(* instruction over both, one with an ARM instruction; and an odd address. *)
(***************************************************************************)
EXTENDS HwBreakpoints

MCAddresses == {0, 2, 4, 5}
=============================================================================
