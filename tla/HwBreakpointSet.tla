-------------------------- MODULE HwBreakpointSet --------------------------
(***************************************************************************)
(* What HwBreakpointManager promises its callers, with no registers in it: *)
(* a bounded set of comparisons the processor is making.  A comparison is  *)
(* in it at most once, an addition is refused only if it is there already, *)
(* if the set is full or if the request makes no sense, and a removal      *)
(* removes that comparison and no other.                                   *)
(***************************************************************************)
EXTENDS Integers, FiniteSets

CONSTANTS
  Comparisons,      \* what a well-formed request can ask to compare with
  Capacity          \* how many comparisons the processor can make at once

VARIABLES
  held,             \* the comparisons being made
  result            \* what the last call returned

absvars == <<held, result>>

Init == held = {} /\ result = "None"

Add(c) ==
  \/ /\ c \in held
     /\ result' = "AlreadyExists"
     /\ UNCHANGED held
  \/ /\ c \notin held
     /\ Cardinality(held) >= Capacity
     /\ result' = "NoSpace"
     /\ UNCHANGED held
  \/ /\ c \notin held
     /\ Cardinality(held) < Capacity
     /\ result' = "Ok"
     /\ held' = held \union {c}

RefuseAdd == result' = "NotAlignedCorrectly" /\ UNCHANGED held

Remove(c) ==
  /\ result' = IF c \in held THEN "Removed" ELSE "NotFound"
  /\ held' = held \ {c}

RefuseRemove == result' = "NotFound" /\ UNCHANGED held

Reset == held' = {} /\ result' = "None"

Next ==
  \/ \E c \in Comparisons : Add(c) \/ Remove(c)
  \/ RefuseAdd
  \/ RefuseRemove
  \/ Reset

Spec == Init /\ [][Next]_absvars
=============================================================================
