--------------------------- MODULE NavigationTrail ---------------------------
(***************************************************************************)
(* What a navigation history promises, without its two stacks: a trail of  *)
(* visited places and a cursor on it.  Back and Forward move the cursor by *)
(* one and never change the trail; a new destination cuts the trail after  *)
(* the cursor and extends it by one place.                                 *)
(***************************************************************************)
EXTENDS Naturals, Sequences

CONSTANT Location

VARIABLES trail, cursor

vars == <<trail, cursor>>

Init == \E l \in Location : trail = <<l>> /\ cursor = 1

Visit(l) ==
  /\ trail' = Append(SubSeq(trail, 1, cursor), l)
  /\ cursor' = cursor + 1

Back ==
  /\ cursor > 1
  /\ cursor' = cursor - 1
  /\ UNCHANGED trail

Forward ==
  /\ cursor < Len(trail)
  /\ cursor' = cursor + 1
  /\ UNCHANGED trail

Next == (\E l \in Location : Visit(l)) \/ Back \/ Forward

Spec == Init /\ [][Next]_vars
==============================================================================
