----------------------------- MODULE ObjectLife ------------------------------
(***************************************************************************)
(* What the object map and the dispatch queue promise the objects: each is *)
(* constructed once, mapped once, dropped from the map once, and then      *)
(* deleted once, in this order.                                            *)
(***************************************************************************)
CONSTANT Objects

VARIABLE life   \* of each object

Init == life = [o \in Objects |-> "none"]

Becomes(o, before, after) ==
  /\ life[o] = before
  /\ life' = [life EXCEPT ![o] = after]

Construct(o) == Becomes(o, "none", "made")
Enter(o)     == Becomes(o, "made", "mapped")
Drop(o)      == Becomes(o, "mapped", "doomed")
Delete(o)    == Becomes(o, "doomed", "deleted")

Next == \E o \in Objects : Construct(o) \/ Enter(o) \/ Drop(o) \/ Delete(o)

Spec == Init /\ [][Next]_life
=============================================================================
