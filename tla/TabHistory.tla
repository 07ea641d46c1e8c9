----------------------------- MODULE TabHistory -----------------------------
(***************************************************************************)
(* One tab's history driven by the commands of the window: navigate, back, *)
(* forward (navigation.rs), each on the value of NavigationHistory.  The   *)
(* window may ask for back or forward when there is nowhere to go: the     *)
(* history then keeps its value.                                           *)
(***************************************************************************)
EXTENDS Naturals, Sequences, NavigationHistory

CONSTANTS Location,
          MaxVisits   \* navigations after the first place, a bound of the model

ASSUME TabHistoryAssumption == MaxVisits \in Nat

VARIABLE history

HistoryInit == \E l \in Location : history = NewHistory(l)

Navigate(l) ==
  /\ Len(history.back) < MaxVisits
  /\ history' = NavigateTo(history, l)

Back    == history' = GoBack(history)
Forward == history' = GoForward(history)

HistoryNext == (\E l \in Location : Navigate(l)) \/ Back \/ Forward

HistorySpec == HistoryInit /\ [][HistoryNext]_history

\* The history always has a current place, and its stacks hold places.
HistoryTypeOK == history \in History(Location)

------------------------------------------------------------------------------
\* The trail a history stands for: the places behind, the current one, and
\* the places ahead, nearest first.
Trail(h) ==
  h.back \o <<h.current>>
         \o [i \in 1..Len(h.forward) |-> h.forward[Len(h.forward) - i + 1]]

Cursor(h) == Len(h.back) + 1

Abstract == INSTANCE NavigationTrail WITH
              trail <- Trail(history), cursor <- Cursor(history)

\* The two stacks implement a cursor on a trail: no sequence of navigate,
\* back and forward loses, repeats or reorders a visited place
\* (history.rs:36-68).
ImplementsTrail == Abstract!Spec
==============================================================================
