-------------------------- MODULE SwBreakpointSet --------------------------
(***************************************************************************)
(* What the software breakpoint table promises, with no table in it: for   *)
(* every address, who wants the program to stop there (the user, the       *)
(* debugger itself, or both), for at most Capacity addresses at once.      *)
(***************************************************************************)
EXTENDS Integers, FiniteSets

CONSTANTS
  Addrs,            \* where breakpoints can be asked for
  Refused,          \* the addresses among them that cannot be written
  Capacity          \* how many addresses can have breakpoints

VARIABLES
  wanted,           \* who wants a breakpoint at each address
  paused,           \* breakpoints are temporarily ignored
  result            \* what the last call returned

absvars == <<wanted, paused, result>>

Who == {"user", "internal"}

Placed == {a \in Addrs : wanted[a] # {}}

Init ==
  /\ wanted = [a \in Addrs |-> {}]
  /\ paused = FALSE
  /\ result = "None"

Refuse(a) ==
  /\ a \in Refused
  /\ result' = "CannotWrite"
  /\ UNCHANGED wanted

Repeat(a, who) ==
  /\ a \notin Refused
  /\ who \in wanted[a]
  /\ result' = "AlreadyExists"
  /\ UNCHANGED wanted

Overflow(a) ==
  /\ a \notin Refused \union Placed
  /\ Cardinality(Placed) >= Capacity
  /\ result' = "NoSpace"
  /\ UNCHANGED wanted

Place(a, who) ==
  /\ a \notin Refused
  /\ who \notin wanted[a]
  /\ a \in Placed \/ Cardinality(Placed) < Capacity
  /\ result' = "Ok"
  /\ wanted' = [wanted EXCEPT ![a] = @ \union {who}]

Register(a, who) ==
  /\ \/ Refuse(a)
     \/ Repeat(a, who)
     \/ Overflow(a)
     \/ Place(a, who)
  /\ UNCHANGED paused

\* The answer is whether the program no longer stops at a, and did before.
Remove(a, who) ==
  /\ wanted' = [wanted EXCEPT ![a] = @ \ {who}]
  /\ result' = IF wanted[a] = {who} THEN "Changed" ELSE "Unchanged"
  /\ UNCHANGED paused

Ignore(ignored) ==
  /\ paused' = ignored
  /\ UNCHANGED <<wanted, result>>

Next ==
  \/ \E a \in Addrs, who \in Who : Register(a, who) \/ Remove(a, who)
  \/ \E ignored \in BOOLEAN : Ignore(ignored)

Spec == Init /\ [][Next]_absvars
=============================================================================
