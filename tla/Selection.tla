------------------------------ MODULE Selection ------------------------------
(***************************************************************************)
(* The selection of a tab (crates/kova-core/src/domain/selection.rs) as    *)
(* operators on a value: the numbers of the selected rows, the anchor of a *)
(* range and the row with the focus.  Rows count from 1; 0 stands for the  *)
(* None of the code.  The code keeps the selected rows in a vector without *)
(* duplicates, whose order serves only as the last choice of `primary`.    *)
(***************************************************************************)
EXTENDS Naturals, FiniteSets

NoRow == 0

SelectionOn(count) ==
  [selected: SUBSET (1..count), anchor: 0..count, focus: 0..count]

NothingSelected == [selected |-> {}, anchor |-> NoRow, focus |-> NoRow]

SelectSingle(i) == [selected |-> {i}, anchor |-> i, focus |-> i]

Toggle(s, i) ==
  IF i \in s.selected
  THEN IF s.selected = {i} THEN NothingSelected
                           ELSE [s EXCEPT !.selected = @ \ {i}]
  ELSE [selected |-> s.selected \cup {i},
        anchor   |-> IF s.anchor = NoRow THEN i ELSE s.anchor,
        focus    |-> i]

RowsBetween(i, j) == IF i <= j THEN i..j ELSE j..i

RangeSelect(s, i) ==
  LET anchor == IF s.anchor = NoRow THEN i ELSE s.anchor
  IN  [selected |-> RowsBetween(anchor, i), anchor |-> anchor, focus |-> i]

SelectAll(count) ==
  IF count = 0 THEN NothingSelected
               ELSE [selected |-> 1..count, anchor |-> 1, focus |-> count]

\* The first and the last row of a set of rows (Option of first() and last()).
LowestRow(S) == IF S = {} THEN NoRow ELSE CHOOSE i \in S : \A j \in S : i <= j
HighestRow(S)  == IF S = {} THEN NoRow ELSE CHOOSE i \in S : \A j \in S : j <= i

\* The rows under the band, added to those of the baseline if `additive`.
MarqueeRows(baseline, hit, additive, count) ==
  (hit \cup (IF additive THEN baseline.selected ELSE {})) \cap 1..count

Marquee(baseline, hit, additive, count) ==
  LET S == MarqueeRows(baseline, hit, additive, count)
  IN  [selected |-> S, anchor |-> LowestRow(S), focus |-> HighestRow(S)]

\* Mutation of Remap: the rows keep their numbers.
RemapByNumber(s, old, new) ==
  [selected |-> s.selected \cap DOMAIN new,
   anchor   |-> IF s.anchor \in DOMAIN new THEN s.anchor ELSE NoRow,
   focus    |-> IF s.focus \in DOMAIN new THEN s.focus ELSE NoRow]

\* Where the file of row i of the old rows is in the new rows.
RowNow(i, old, new) ==
  IF i \in DOMAIN old /\ \E j \in DOMAIN new : new[j] = old[i]
  THEN CHOOSE j \in DOMAIN new : new[j] = old[i]
  ELSE NoRow

\* The rows change: every number follows its file, or is dropped with it.
Remap(s, old, new) ==
  [selected |-> {RowNow(i, old, new) : i \in s.selected} \ {NoRow},
   anchor   |-> RowNow(s.anchor, old, new),
   focus    |-> RowNow(s.focus, old, new)]
==============================================================================
