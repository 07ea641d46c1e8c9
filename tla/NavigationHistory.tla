-------------------------- MODULE NavigationHistory --------------------------
(***************************************************************************)
(* The per-tab navigation history (crates/kova-core/src/domain/history.rs) *)
(* as operators on a value: two stacks around a current location, the last *)
(* element of each stack being its top.                                    *)
(*                                                                         *)
(* `current` is an Option in the code, None only for a history built       *)
(* without an initial location; every tab is built with one (tab.rs:25),   *)
(* so the None branches of navigate, back and forward are left out.        *)
(***************************************************************************)
EXTENDS Naturals, Sequences

History(Location) ==
  [back: Seq(Location), current: Location, forward: Seq(Location)]

NewHistory(l) == [back |-> <<>>, current |-> l, forward |-> <<>>]

Top(stack) == stack[Len(stack)]
Pop(stack) == SubSeq(stack, 1, Len(stack) - 1)

CanGoBack(h)    == h.back # <<>>
CanGoForward(h) == h.forward # <<>>

\* Mutation of NavigateTo: the forward stack is not cleared.
NavigateToKeepsForward(h, l) ==
  [back |-> Append(h.back, h.current), current |-> l, forward |-> h.forward]

\* A new destination pushes the place left behind and forgets the forward
\* stack.
NavigateTo(h, l) ==
  [back |-> Append(h.back, h.current), current |-> l, forward |-> <<>>]

\* back() with nothing behind returns None and changes nothing.
GoBack(h) ==
  IF CanGoBack(h)
  THEN [back    |-> Pop(h.back),
        current |-> Top(h.back),
        forward |-> Append(h.forward, h.current)]
  ELSE h

GoForward(h) ==
  IF CanGoForward(h)
  THEN [back    |-> Append(h.back, h.current),
        current |-> Top(h.forward),
        forward |-> Pop(h.forward)]
  ELSE h
==============================================================================
