---------------------------- MODULE TeeAllocation ----------------------------
(***************************************************************************)
(* What the tee reward promises, without requests, locks or transactions:  *)
(* places are numbered 1, 2, 3, ... in the order they are allocated, there *)
(* are Quantity of them for the whole life of the campaign, a member gets  *)
(* at most one, and an allocated place is never given to anybody else.     *)
(***************************************************************************)
EXTENDS Naturals

CONSTANTS Members,   \* everybody who may ever hold an account
          Quantity   \* places of the campaign

VARIABLES taken,     \* how many places have been allocated
          places     \* the allocated places: records [member, no]

vars == <<taken, places>>

Place == [member : Members, no : 1..Quantity]

Init == /\ taken = 0
        /\ places = {}

Allocate(m) ==
    /\ taken < Quantity
    /\ \A p \in places : p.member # m
    /\ taken' = taken + 1
    /\ places' = places \cup {[member |-> m, no |-> taken + 1]}

Next == \E m \in Members : Allocate(m)

Spec == Init /\ [][Next]_vars
==============================================================================
