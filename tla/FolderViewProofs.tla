-------------------------- MODULE FolderViewProofs --------------------------
(***************************************************************************)
(* Proofs about the rows of a folder.  The selection stands for the files  *)
(* that the user chose, whatever moves the rows, also under a pressed      *)
(* button, until a gesture puts back row numbers from before a sort; and   *)
(* what points at a row by its number acts on the file it was opened for.  *)
(* For every set of files, every listing and every number of inputs.       *)
(***************************************************************************)
EXTENDS FolderView, RetainProofs, FiniteSetTheorems

\* A set of row numbers that is not empty has a greatest one.
LEMMA GreatestOfRows ==
  ASSUME NEW n \in Nat, NEW S \in SUBSET (1..n), S # {}
  PROVE  \E i \in S : \A j \in S : j <= i
<1> DEFINE T == {n - i : i \in S}
<1>1. T \in SUBSET Nat /\ T # {}
  <2>1. \A i \in S : n - i \in Nat
    OBVIOUS
  <2> QED
    BY <2>1
<1> HIDE DEF T
<1>2. PICK m \in T : \A k \in T : m <= k
  BY <1>1, LeastNatural
<1> USE DEF T
<1>3. PICK i \in S : m = n - i
  BY <1>2
<1>4. \A j \in S : n - i <= n - j
  BY <1>2, <1>3
<1> QED
  BY <1>3, <1>4

\* A listing is a sequence of files without repetition.
LEMMA ListingFacts ==
  ASSUME NEW l \in AllListings
  PROVE  /\ l \in Seq(RowFile) /\ Len(l) \in Nat /\ DOMAIN l = 1..Len(l)
         /\ \A i \in DOMAIN l : l[i] \in RowFile
         /\ \A i, j \in DOMAIN l : l[i] = l[j] => i = j
<1>1. PICK S \in SUBSET RowFile : l \in Listings(S)
  BY DEF AllListings
<1>2. Cardinality(S) \in Nat
  BY FS_Subset, FS_CardinalityType, FolderViewAssumption
<1>3. /\ l \in [1..Cardinality(S) -> S]
      /\ \A i, j \in DOMAIN l : l[i] = l[j] => i = j
  BY <1>1 DEF Listings
<1>4. l \in Seq(S)
  BY <1>2, <1>3, SeqDef
<1>5. l \in Seq(RowFile)
  BY <1>4, SeqMonotonic
<1> QED
  BY <1>3, <1>5, LenProperties, ElementOfSeq

\* No file is twice in the rows, and the None of a row is the None of a file.
LEMMA RowFacts ==
  ASSUME NEW l \in AllListings
  PROVE  /\ \A i \in DOMAIN l : RowOf(l[i], l) = i /\ FileAt(l, i) = l[i] /\ l[i] # NoFile
         /\ FileAt(l, NoRow) = NoFile
         /\ \A i \in 0..Len(l) : FileAt(l, i) = NoFile <=> i = NoRow
         /\ \A f \in FilesOf(l) : /\ RowOf(f, l) \in DOMAIN l /\ l[RowOf(f, l)] = f
                                  /\ FileAt(l, RowOf(f, l)) = f /\ f # NoFile
<1>1. /\ DOMAIN l = 1..Len(l) /\ Len(l) \in Nat
      /\ \A i \in DOMAIN l : l[i] \in RowFile
      /\ \A i, j \in DOMAIN l : l[i] = l[j] => i = j
  BY ListingFacts
<1>2. \A i \in DOMAIN l : RowOf(l[i], l) \in DOMAIN l /\ l[RowOf(l[i], l)] = l[i]
  BY DEF RowOf
<1>3. \A i \in DOMAIN l : RowOf(l[i], l) = i
  BY <1>1, <1>2
<1>4. /\ \A i \in DOMAIN l : FileAt(l, i) = l[i] /\ l[i] # NoFile
      /\ FileAt(l, NoRow) = NoFile
      /\ \A i \in 0..Len(l) : FileAt(l, i) = NoFile <=> i = NoRow
  BY <1>1, FolderViewAssumption DEF FileAt, NoRow
<1>5. \A f \in FilesOf(l) : \E i \in DOMAIN l : f = l[i]
  BY DEF FilesOf
<1> QED
  BY <1>2, <1>3, <1>4, <1>5

\* Selections of rows with the same files are the same.
LEMMA FilesDetermineRows ==
  ASSUME NEW l \in AllListings, NEW S \in SUBSET DOMAIN l
  PROVE  /\ \A i \in DOMAIN l : l[i] \in {l[j] : j \in S} <=> i \in S
         /\ {RowOf(f, l) : f \in {l[j] : j \in S}} = S
<1>1. \A i, j \in DOMAIN l : l[i] = l[j] => i = j
  BY ListingFacts
<1>2. \A i \in DOMAIN l : RowOf(l[i], l) = i
  BY RowFacts
<1> QED
  BY <1>1, <1>2

\* The files of a selection whose rows all exist.
LEMMA MeaningOf ==
  ASSUME NEW l \in AllListings, NEW s \in SelectionOn(Len(l))
  PROVE  /\ s.selected \in SUBSET DOMAIN l /\ s.anchor \in 0..Len(l) /\ s.focus \in 0..Len(l)
         /\ FilesMeant(s, l) = [files |-> {l[i] : i \in s.selected},
                                anchor |-> FileAt(l, s.anchor), focus |-> FileAt(l, s.focus)]
         /\ FilesMeant(s, l).files \subseteq FilesOf(l)
<1>1. DOMAIN l = 1..Len(l)
  BY ListingFacts
<1>2. /\ s.selected \in SUBSET DOMAIN l /\ s.anchor \in 0..Len(l) /\ s.focus \in 0..Len(l)
  BY <1>1 DEF SelectionOn
<1>3. s.selected \cap DOMAIN l = s.selected
  BY <1>2
<1> QED
  BY <1>2, <1>3 DEF FilesMeant, FilesOf

\* What the user means by rows that exist is never lost track of.
LEMMA NeverAstray ==
  ASSUME NEW l \in AllListings, NEW s \in SelectionOn(Len(l))
  PROVE  FilesMeant(s, l) # Astray
<1>1. DOMAIN l = 1..Len(l) /\ Len(l) \in Nat /\ \A i \in DOMAIN l : l[i] \in RowFile
  BY ListingFacts
<1>2. /\ s.selected \in SUBSET DOMAIN l
      /\ FilesMeant(s, l) = [files |-> {l[i] : i \in s.selected},
                             anchor |-> FileAt(l, s.anchor), focus |-> FileAt(l, s.focus)]
  BY MeaningOf
<1>3. \A i : FileAt(l, i) \in RowFile \cup {NoFile}
  BY <1>1 DEF FileAt
<1>4. {l[i] : i \in s.selected} \in SUBSET RowFile
  BY <1>1, <1>2
<1>5. FilesMeant(s, l) \in Meanings
  BY <1>2, <1>3, <1>4 DEF Meanings
<1>6. Astray \notin Meanings
  BY FolderViewAssumption
<1> QED
  BY <1>5, <1>6

\* Nothing is selected before and after the rows change.
LEMMA NothingIsMeant ==
  ASSUME NEW l \in AllListings
  PROVE  NothingSelected \in SelectionOn(Len(l)) /\ FilesMeant(NothingSelected, l) = NothingMeant
<1>1. Len(l) \in Nat /\ FileAt(l, 0) = NoFile
  BY ListingFacts, RowFacts DEF NoRow
<1>2. NothingSelected \in SelectionOn(Len(l))
  BY <1>1 DEF NothingSelected, SelectionOn, NoRow
<1> QED
  BY <1>1, <1>2, MeaningOf DEF NothingSelected, NothingMeant, NoRow

\* The empty listing is one.
LEMMA EmptyListing == <<>> \in AllListings /\ FilesOf(<<>>) = {}
<1>1. <<>> \in Listings({})
  BY FS_EmptySet DEF Listings
<1> QED
  BY <1>1 DEF AllListings, FilesOf

\* Where a row is after the rows changed.
LEMMA RowNowFollows ==
  ASSUME NEW old \in AllListings, NEW new \in AllListings, NEW i \in 0..Len(old)
  PROVE  /\ RowNow(i, old, new) \in 0..Len(new)
         /\ FileAt(new, RowNow(i, old, new)) =
              IF FileAt(old, i) \in FilesOf(new) THEN FileAt(old, i) ELSE NoFile
<1>1. DOMAIN old = 1..Len(old) /\ DOMAIN new = 1..Len(new) /\ Len(old) \in Nat /\ Len(new) \in Nat
  BY ListingFacts
<1>2. NoFile \notin FilesOf(new)
  BY RowFacts
<1>3. CASE i \in DOMAIN old /\ \E j \in DOMAIN new : new[j] = old[i]
  <2>1. /\ RowNow(i, old, new) \in DOMAIN new /\ new[RowNow(i, old, new)] = old[i]
    BY <1>3 DEF RowNow
  <2>2. FileAt(old, i) = old[i] /\ old[i] \in FilesOf(new)
    BY <1>3 DEF FileAt, FilesOf
  <2> QED
    BY <1>1, <2>1, <2>2 DEF FileAt
<1>4. CASE ~(i \in DOMAIN old /\ \E j \in DOMAIN new : new[j] = old[i])
  <2>1. RowNow(i, old, new) = NoRow
    BY <1>4 DEF RowNow
  <2>2. FileAt(old, i) \notin FilesOf(new)
    BY <1>2, <1>4 DEF FileAt, FilesOf
  <2> QED
    BY <1>1, <2>1, <2>2, RowFacts DEF NoRow
<1> QED
  BY <1>3, <1>4

\* When the rows change, the selection, its anchor and its focus stay on
\* their files, as far as these are still there (selection.rs:136-140,
\* app_state.rs:617-642).
LEMMA RemapFollows ==
  ASSUME NEW old \in AllListings, NEW new \in AllListings, NEW s \in SelectionOn(Len(old))
  PROVE  /\ Remap(s, old, new) \in SelectionOn(Len(new))
         /\ FilesMeant(Remap(s, old, new), new) = StillThere(FilesMeant(s, old), new)
<1> DEFINE r == Remap(s, old, new)  S == {RowNow(i, old, new) : i \in s.selected}
<1>1. DOMAIN new = 1..Len(new) /\ Len(new) \in Nat /\ DOMAIN old = 1..Len(old) /\ Len(old) \in Nat
  BY ListingFacts
<1>2. /\ s.selected \in SUBSET DOMAIN old /\ s.anchor \in 0..Len(old) /\ s.focus \in 0..Len(old)
      /\ FilesMeant(s, old) = [files |-> {old[i] : i \in s.selected},
                               anchor |-> FileAt(old, s.anchor), focus |-> FileAt(old, s.focus)]
  BY MeaningOf
<1>3. /\ r.selected = S \ {NoRow}
      /\ r.anchor = RowNow(s.anchor, old, new) /\ r.focus = RowNow(s.focus, old, new)
      /\ r = [selected |-> r.selected, anchor |-> r.anchor, focus |-> r.focus]
  BY DEF Remap
<1>4. \A i \in s.selected : i \in 0..Len(old) /\ i \in DOMAIN old /\ FileAt(old, i) = old[i]
  BY <1>1, <1>2, RowFacts
<1>5. r.selected \in SUBSET (1..Len(new))
  BY <1>1, <1>3, <1>4, RowNowFollows DEF NoRow
<1>6. /\ RowNow(s.anchor, old, new) \in 0..Len(new) /\ RowNow(s.focus, old, new) \in 0..Len(new)
      /\ FileAt(new, RowNow(s.anchor, old, new)) =
           IF FileAt(old, s.anchor) \in FilesOf(new) THEN FileAt(old, s.anchor) ELSE NoFile
      /\ FileAt(new, RowNow(s.focus, old, new)) =
           IF FileAt(old, s.focus) \in FilesOf(new) THEN FileAt(old, s.focus) ELSE NoFile
  BY <1>2, RowNowFollows
<1> HIDE DEF r
<1>7. r \in SelectionOn(Len(new))
  BY <1>3, <1>5, <1>6 DEF SelectionOn
<1>8. {new[j] : j \in r.selected} = {old[i] : i \in s.selected} \cap FilesOf(new)
  <2>1. ASSUME NEW j \in r.selected PROVE new[j] \in {old[i] : i \in s.selected} \cap FilesOf(new)
    <3>1. PICK i \in s.selected : j = RowNow(i, old, new)
      BY <1>3
    <3>2. FileAt(new, j) = new[j] /\ new[j] \in FilesOf(new) /\ new[j] # NoFile
      BY <1>1, <1>5, RowFacts DEF FilesOf
    <3> QED
      BY <1>4, <3>1, <3>2, RowNowFollows
  <2>2. ASSUME NEW i \in s.selected, old[i] \in FilesOf(new) PROVE old[i] \in {new[j] : j \in r.selected}
    <3>1. /\ RowNow(i, old, new) \in 0..Len(new)
          /\ FileAt(new, RowNow(i, old, new)) = old[i]
      BY <1>4, <2>2, RowNowFollows
    <3>2. old[i] # NoFile
      BY <2>2, RowFacts
    <3>3. RowNow(i, old, new) # NoRow
      BY <3>1, <3>2, RowFacts
    <3>4. RowNow(i, old, new) \in r.selected
      BY <1>3, <3>3
    <3>5. FileAt(new, RowNow(i, old, new)) = new[RowNow(i, old, new)]
      BY <1>1, <1>5, <3>4, RowFacts
    <3> QED
      BY <3>1, <3>4, <3>5
  <2> QED
    BY <2>1, <2>2
<1>9. FilesMeant(r, new) = [files |-> {new[j] : j \in r.selected},
                           anchor |-> FileAt(new, r.anchor), focus |-> FileAt(new, r.focus)]
  BY <1>7, MeaningOf
<1>10. /\ FileAt(new, r.anchor) = IF FileAt(old, s.anchor) \in FilesOf(new) THEN FileAt(old, s.anchor) ELSE NoFile
      /\ FileAt(new, r.focus) = IF FileAt(old, s.focus) \in FilesOf(new) THEN FileAt(old, s.focus) ELSE NoFile
  BY <1>3, <1>6
<1>11. FilesMeant(r, new) = StillThere(FilesMeant(s, old), new)
  <2> DEFINE m == FilesMeant(s, old)
  <2>1. /\ m.files = {old[i] : i \in s.selected}
        /\ m.anchor = FileAt(old, s.anchor) /\ m.focus = FileAt(old, s.focus)
    BY <1>2
  <2>2. StillThere(m, new) = [files  |-> m.files \cap FilesOf(new),
                              anchor |-> IF m.anchor \in FilesOf(new) THEN m.anchor ELSE NoFile,
                              focus  |-> IF m.focus \in FilesOf(new) THEN m.focus ELSE NoFile]
    BY NeverAstray DEF StillThere
  <2> HIDE DEF m
  <2> QED
    BY <1>8, <1>9, <1>10, <2>1, <2>2 DEF m
<1> QED
  BY <1>7, <1>11 DEF r

------------------------------------------------------------------------------
\* Each way to choose rows chooses the files that the user points at.

\* A click selects one row (selection.rs:44-49).
LEMMA SingleChosen ==
  ASSUME NEW l \in AllListings, NEW i \in DOMAIN l
  PROVE  SelectSingle(i) \in SelectionOn(Len(l))
<1>1. DOMAIN l = 1..Len(l) /\ Len(l) \in Nat
  BY ListingFacts
<1> QED
  BY <1>1 DEF SelectSingle, SelectionOn

\* Everything is selected (selection.rs:81-90).
LEMMA AllChosen ==
  ASSUME NEW l \in AllListings
  PROVE  SelectAll(Len(l)) \in SelectionOn(Len(l))
<1>1. Len(l) \in Nat
  BY ListingFacts
<1> QED
  BY <1>1, NothingIsMeant DEF SelectAll, SelectionOn

\* A click with Control adds the file of the row or takes it out, and the last
\* one takes anchor and focus with it (selection.rs:52-66).
LEMMA ToggleChosen ==
  ASSUME rows \in AllListings, NEW s \in SelectionOn(Len(rows)), NEW i \in DOMAIN rows
  PROVE  /\ Toggle(s, i) \in SelectionOn(Len(rows))
         /\ FilesMeant(Toggle(s, i), rows) = MeantWith(FilesMeant(s, rows), i)
<1> DEFINE m == FilesMeant(s, rows)  t == Toggle(s, i)
<1>0. m # Astray
  BY NeverAstray
<1>1. /\ DOMAIN rows = 1..Len(rows) /\ Len(rows) \in Nat
      /\ \A j, k \in DOMAIN rows : rows[j] = rows[k] => j = k
  BY ListingFacts
<1>2. /\ s.selected \in SUBSET DOMAIN rows /\ s.anchor \in 0..Len(rows) /\ s.focus \in 0..Len(rows)
      /\ m = [files |-> {rows[j] : j \in s.selected},
              anchor |-> FileAt(rows, s.anchor), focus |-> FileAt(rows, s.focus)]
  BY MeaningOf
<1>3. /\ rows[i] \in m.files <=> i \in s.selected
      /\ m.files = {rows[i]} <=> s.selected = {i}
      /\ m.anchor = NoFile <=> s.anchor = NoRow
      /\ FileAt(rows, i) = rows[i]
  <2>1. m.files = {rows[j] : j \in s.selected} /\ m.anchor = FileAt(rows, s.anchor)
    BY <1>2
  <2> HIDE DEF m
  <2>2. rows[i] \in m.files <=> i \in s.selected
    BY <1>1, <1>2, <2>1
  <2>3. m.files = {rows[i]} => s.selected = {i}
    <3>1. ASSUME m.files = {rows[i]}, NEW j \in s.selected PROVE j = i
      <4>1. rows[j] = rows[i]
        BY <2>1, <3>1
      <4> QED
        BY <1>1, <1>2, <4>1
    <3> QED
      BY <2>2, <3>1
  <2>4. s.selected = {i} => m.files = {rows[i]}
    BY <2>1
  <2>5. m.anchor = NoFile <=> s.anchor = NoRow
    BY <1>2, <2>1, RowFacts
  <2>6. FileAt(rows, i) = rows[i]
    BY RowFacts
  <2> QED
    BY <2>2, <2>3, <2>4, <2>5, <2>6
<1>4. CASE i \in s.selected /\ s.selected = {i}
  <2>1. t = NothingSelected /\ MeantWith(m, i) = NothingMeant
    BY <1>0, <1>3, <1>4 DEF Toggle, MeantWith
  <2> QED
    BY <2>1, NothingIsMeant
<1>5. CASE i \in s.selected /\ s.selected # {i}
  <2>1. /\ t = [s EXCEPT !.selected = s.selected \ {i}]
        /\ MeantWith(m, i) = [m EXCEPT !.files = m.files \ {rows[i]}]
    BY <1>0, <1>3, <1>5 DEF Toggle, MeantWith
  <2>2. /\ t.selected = s.selected \ {i} /\ t.anchor = s.anchor /\ t.focus = s.focus
        /\ t \in SelectionOn(Len(rows))
    BY <1>1, <2>1 DEF SelectionOn
  <2>3. {rows[j] : j \in t.selected} = m.files \ {rows[i]}
    BY <1>1, <1>2, <2>2
  <2>4. FilesMeant(t, rows) = [files |-> {rows[j] : j \in t.selected},
                               anchor |-> FileAt(rows, t.anchor), focus |-> FileAt(rows, t.focus)]
    BY <2>2, MeaningOf
  <2>5. MeantWith(m, i) = [files |-> m.files \ {rows[i]}, anchor |-> m.anchor, focus |-> m.focus]
    BY <1>2, <2>1
  <2>6. m.anchor = FileAt(rows, s.anchor) /\ m.focus = FileAt(rows, s.focus)
    BY <1>2
  <2> HIDE DEF m, t
  <2>7. FilesMeant(t, rows) = MeantWith(m, i)
    BY <2>2, <2>3, <2>4, <2>5, <2>6
  <2> QED
    BY <2>2, <2>7 DEF m, t
<1>6. CASE i \notin s.selected
  <2>1. t = [selected |-> s.selected \cup {i},
             anchor   |-> IF s.anchor = NoRow THEN i ELSE s.anchor, focus |-> i]
    BY <1>6 DEF Toggle
  <2>2. MeantWith(m, i) = [files |-> m.files \cup {rows[i]}, focus |-> rows[i],
                           anchor |-> IF m.anchor = NoFile THEN rows[i] ELSE m.anchor]
    BY <1>0, <1>3, <1>6 DEF MeantWith
  <2>3. t \in SelectionOn(Len(rows))
    BY <1>1, <1>2, <2>1 DEF SelectionOn
  <2>4. {rows[j] : j \in t.selected} = m.files \cup {rows[i]}
    BY <1>2, <2>1
  <2>5. FilesMeant(t, rows) = [files |-> {rows[j] : j \in t.selected},
                               anchor |-> FileAt(rows, t.anchor), focus |-> FileAt(rows, t.focus)]
    BY <2>3, MeaningOf
  <2>6. FileAt(rows, t.anchor) = (IF m.anchor = NoFile THEN rows[i] ELSE m.anchor)
    BY <1>2, <1>3, <2>1
  <2>7. FileAt(rows, t.focus) = rows[i]
    BY <1>3, <2>1
  <2> HIDE DEF m, t
  <2>8. FilesMeant(t, rows) = MeantWith(m, i)
    BY <2>2, <2>4, <2>5, <2>6, <2>7
  <2> QED
    BY <2>3, <2>8 DEF m, t
<1> QED
  BY <1>4, <1>5, <1>6

\* A click with Shift selects the files from that of the anchor to the row
\* (selection.rs:70-78).
LEMMA RangeChosen ==
  ASSUME rows \in AllListings, NEW s \in SelectionOn(Len(rows)), NEW i \in DOMAIN rows
  PROVE  /\ RangeSelect(s, i) \in SelectionOn(Len(rows))
         /\ FilesMeant(RangeSelect(s, i), rows) = MeantUpTo(FilesMeant(s, rows), i)
<1> DEFINE m == FilesMeant(s, rows)  r == RangeSelect(s, i)
           from == IF s.anchor = NoRow THEN i ELSE s.anchor
<1>1. DOMAIN rows = 1..Len(rows) /\ Len(rows) \in Nat
  BY ListingFacts
<1>2. s.anchor \in 0..Len(rows) /\ m.anchor = FileAt(rows, s.anchor)
  BY MeaningOf
<1>3. from \in DOMAIN rows
  BY <1>1, <1>2 DEF NoRow
<1>4. from = IF m.anchor = NoFile THEN i ELSE RowOf(m.anchor, rows)
  <2>1. CASE s.anchor = NoRow
    BY <1>2, <2>1, RowFacts
  <2>2. CASE s.anchor # NoRow
    <3>1. s.anchor \in DOMAIN rows /\ m.anchor # NoFile
      BY <1>1, <1>2, <2>2, RowFacts DEF NoRow
    <3> QED
      BY <1>2, <2>2, <3>1, RowFacts
  <2> QED
    BY <2>1, <2>2
<1>5. RowsBetween(from, i) \in SUBSET (1..Len(rows))
  BY <1>1, <1>3 DEF RowsBetween
<1>6. r = [selected |-> RowsBetween(from, i), anchor |-> from, focus |-> i]
  BY DEF RangeSelect
<1>11. m # Astray
  BY NeverAstray
<1> HIDE DEF from, r, m
<1>7. r \in SelectionOn(Len(rows))
  BY <1>1, <1>3, <1>5, <1>6 DEF SelectionOn
<1>8. FilesMeant(r, rows) = [files |-> {rows[j] : j \in RowsBetween(from, i)},
                             anchor |-> FileAt(rows, from), focus |-> FileAt(rows, i)]
  BY <1>6, <1>7, MeaningOf
<1>9. FileAt(rows, from) = rows[from] /\ FileAt(rows, i) = rows[i]
  BY <1>3, RowFacts
<1>10. MeantUpTo(m, i) = [files |-> {rows[j] : j \in RowsBetween(from, i)},
                          anchor |-> rows[from], focus |-> rows[i]]
  BY <1>4, <1>11 DEF MeantUpTo
<1> QED
  BY <1>7, <1>8, <1>9, <1>10 DEF r, m

\* A band selects the files under it and, with Control or Shift, those of its
\* baseline (selection.rs:115-133).
LEMMA BandChosen ==
  ASSUME rows \in AllListings, NEW b, NEW under \in SUBSET Nat, NEW additive \in BOOLEAN,
         additive => b \in SelectionOn(Len(rows))
  PROVE  LET files == {rows[i] : i \in under \cap DOMAIN rows} \cup
                      (IF additive THEN FilesMeant(b, rows).files ELSE {})
             numbers == {RowOf(f, rows) : f \in files}
             s == Marquee(b, under, additive, Len(rows))
         IN  /\ s \in SelectionOn(Len(rows))
             /\ FilesMeant(s, rows) = [files |-> files, anchor |-> FileAt(rows, LowestRow(numbers)),
                                       focus |-> FileAt(rows, HighestRow(numbers))]
<1> DEFINE files == {rows[i] : i \in under \cap DOMAIN rows} \cup
                    (IF additive THEN FilesMeant(b, rows).files ELSE {})
           numbers == {RowOf(f, rows) : f \in files}
           S == MarqueeRows(b, under, additive, Len(rows))
           s == Marquee(b, under, additive, Len(rows))
<1>1. DOMAIN rows = 1..Len(rows) /\ Len(rows) \in Nat
  BY ListingFacts
<1>2. additive => /\ b.selected \in SUBSET DOMAIN rows
                  /\ FilesMeant(b, rows).files = {rows[i] : i \in b.selected}
  BY MeaningOf
<1>3. S \in SUBSET DOMAIN rows /\ S = (under \cup (IF additive THEN b.selected ELSE {})) \cap DOMAIN rows
  BY <1>1 DEF MarqueeRows
<1>4. files = {rows[i] : i \in S}
  BY <1>2, <1>3
<1> HIDE DEF files, S
<1>5. numbers = S
  BY <1>3, <1>4, FilesDetermineRows
<1>6. LowestRow(S) \in 0..Len(rows) /\ HighestRow(S) \in 0..Len(rows)
  <2>1. CASE S = {}
    BY <1>1, <2>1 DEF LowestRow, HighestRow, NoRow
  <2>2. CASE S # {}
    <3>1. S \in SUBSET Nat /\ S \in SUBSET (1..Len(rows))
      BY <1>1, <1>3
    <3>2. LowestRow(S) \in S
      BY <2>2, <3>1, LeastNatural DEF LowestRow
    <3>3. HighestRow(S) \in S
      BY <1>1, <2>2, <3>1, GreatestOfRows DEF HighestRow
    <3>4. LowestRow(S) \in 1..Len(rows) /\ HighestRow(S) \in 1..Len(rows)
      BY <3>1, <3>2, <3>3
    <3> HIDE DEF LowestRow, HighestRow
    <3> QED
      BY <1>1, <3>4
  <2> QED
    BY <2>1, <2>2
<1>7. s = [selected |-> S, anchor |-> LowestRow(S), focus |-> HighestRow(S)]
  BY DEF Marquee, S
<1>8. s \in SelectionOn(Len(rows))
  BY <1>1, <1>3, <1>6, <1>7 DEF SelectionOn
<1> HIDE DEF s
<1>9. FilesMeant(s, rows) = [files |-> {rows[i] : i \in S}, anchor |-> FileAt(rows, LowestRow(S)),
                             focus |-> FileAt(rows, HighestRow(S))]
  BY <1>7, <1>8, MeaningOf
<1>10. FilesMeant(s, rows) = [files |-> files, anchor |-> FileAt(rows, LowestRow(numbers)),
                              focus |-> FileAt(rows, HighestRow(numbers))]
  BY <1>4, <1>5, <1>9
<1> QED
  BY <1>8, <1>10 DEF files, s

------------------------------------------------------------------------------
\* The inductive invariant.

\* The selection s of the rows l stands for what the user means, m.
Chosen(s, m, l) == m # Astray => s \in SelectionOn(Len(l)) /\ m = FilesMeant(s, l)

RowsInv == rows \in AllListings /\ Chosen(selection, meant, rows)

PressShape(p) ==
  /\ p.additive \in BOOLEAN
  /\ p = [row |-> p.row, click |-> p.click, additive |-> p.additive, same |-> p.same,
          baseline |-> p.baseline, rows |-> p.rows, meant |-> p.meant]

\* The baseline of a gesture was chosen in the rows of the time.
PressInv ==
  press # NoPress => PressShape(press) /\ Chosen(press.baseline, press.meant, press.rows)

SelectionInv == RowsInv /\ PressInv

\* The gesture stays, ends, or is told that its rows are gone.
GestureFollows ==
  \/ press' = press \/ press' = NoPress
  \/ press # NoPress /\ press' = [press EXCEPT !.same = FALSE]

LEMMA GestureStays ==
  ASSUME PressInv, GestureFollows
  PROVE  PressInv'
<1>1. CASE press' = press \/ press' = NoPress
  BY <1>1 DEF PressInv
<1>2. CASE press # NoPress /\ press' = [press EXCEPT !.same = FALSE]
  <2>1. /\ press.additive \in BOOLEAN
        /\ press = [row |-> press.row, click |-> press.click, additive |-> press.additive,
                    same |-> press.same, baseline |-> press.baseline, rows |-> press.rows,
                    meant |-> press.meant]
        /\ Chosen(press.baseline, press.meant, press.rows)
    BY <1>2 DEF PressInv, PressShape
  <2>2. press' = [row |-> press.row, click |-> press.click, additive |-> press.additive,
                  same |-> FALSE, baseline |-> press.baseline, rows |-> press.rows,
                  meant |-> press.meant]
    BY <1>2, <2>1
  <2>3. PressShape(press')
    BY <2>1, <2>2 DEF PressShape
  <2>4. Chosen(press'.baseline, press'.meant, press'.rows)
    BY <2>1, <2>2
  <2> QED
    BY <2>3, <2>4 DEF PressInv
<1> QED
  BY <1>1, <1>2 DEF GestureFollows

\* The rows stay and the selection may be chosen anew.
LEMMA ChoiceKeeps ==
  ASSUME SelectionInv, UNCHANGED rows, GestureFollows, Chosen(selection', meant', rows)
  PROVE  SelectionInv'
  BY GestureStays DEF SelectionInv, RowsInv, Chosen

\* The rows become others, and the selection follows.
LEMMA RowsBecomeKeeps ==
  ASSUME SelectionInv, NEW listing \in AllListings, RowsBecome(listing), GestureFollows
  PROVE  SelectionInv'
<1>1. /\ rows' = listing /\ selection' = Remap(selection, rows, listing)
      /\ meant' = StillThere(meant, listing)
  BY DEF RowsBecome
<1>2. ASSUME meant' # Astray PROVE selection' \in SelectionOn(Len(rows')) /\ meant' = FilesMeant(selection', rows')
  <2>1. meant # Astray
    BY <1>1, <1>2 DEF StillThere
  <2>2. selection \in SelectionOn(Len(rows)) /\ meant = FilesMeant(selection, rows) /\ rows \in AllListings
    BY <2>1 DEF SelectionInv, RowsInv, Chosen
  <2> QED
    BY <1>1, <2>2, RemapFollows
<1> QED
  BY <1>1, <1>2, GestureStays DEF SelectionInv, RowsInv, Chosen

\* Nothing is selected in rows that are gone.
LEMMA NoRowsKeeps ==
  ASSUME SelectionInv, rows' = <<>>, selection' = NothingSelected, meant' = NothingMeant,
         GestureFollows
  PROVE  SelectionInv'
<1>1. RowsInv'
  BY EmptyListing, NothingIsMeant DEF RowsInv, Chosen
<1> QED
  BY <1>1, GestureStays DEF SelectionInv

\* A button goes down: the baseline of the gesture is the selection of now.
LEMMA GestureKeeps ==
  ASSUME SelectionInv, UNCHANGED rows, Chosen(selection', meant', rows),
         NEW i, NEW additive \in BOOLEAN, NEW click, press' = Gesture(i, additive, click)
  PROVE  SelectionInv'
<1>1. RowsInv' /\ Chosen(selection, meant, rows)
  BY DEF SelectionInv, RowsInv, Chosen
<1>2. press' = [row |-> i, click |-> click, additive |-> additive, same |-> TRUE,
                baseline |-> selection, rows |-> rows, meant |-> meant]
  BY DEF Gesture
<1>3. PressShape(press') /\ Chosen(press'.baseline, press'.meant, press'.rows)
  BY <1>1, <1>2 DEF PressShape
<1> QED
  BY <1>1, <1>3 DEF SelectionInv, PressInv

------------------------------------------------------------------------------
\* One lemma for each group of actions.

\* What an answer does to a gesture.
LEMMA AnswerEndsGesture ==
  ASSUME NEW same, press' = PressAfter(same)
  PROVE  GestureFollows
<1>1. CASE press = NoPress \/ same
  BY <1>1 DEF PressAfter, GestureFollows
<1>2. CASE press # NoPress /\ ~same
  <2>1. press' = [press EXCEPT !.same = FALSE]
    BY <1>2, Zenon DEF PressAfter
  <2> QED
    BY <1>2, <2>1 DEF GestureFollows
<1> QED
  BY <1>1, <1>2

\* Filtering and sorting again, at once or later.
LEMMA RefilterKeeps ==
  ASSUME SelectionInv, NEW listing \in AllListings, Refilter(listing), UNCHANGED press
  PROVE  SelectionInv'
<1>1. CASE RowsBecome(listing)
  BY <1>1, RowsBecomeKeeps DEF GestureFollows
<1>2. CASE UNCHANGED rowVars
  BY <1>2, ChoiceKeeps DEF rowVars, SelectionInv, RowsInv, Chosen, GestureFollows
<1> QED
  BY <1>1, <1>2 DEF Refilter

\* Answers of the workers, folder sizes, the delayed search and the revealed
\* item.
LEMMA AnswersKeep ==
  ASSUME SelectionInv, Answers
  PROVE  SelectionInv'
<1>1. Chosen(selection, meant, rows) /\ rows \in AllListings
  BY DEF SelectionInv, RowsInv
<1>2. ASSUME AnswerUnchanged \/ AnswerLarge PROVE SelectionInv'
  BY <1>1, <1>2, ChoiceKeeps DEF AnswerUnchanged, AnswerLarge, rowVars, mouseVars, Chosen, GestureFollows
<1>3. ASSUME AnswerError PROVE SelectionInv'
  BY <1>3, AnswerEndsGesture, NoRowsKeeps DEF AnswerError, Hold
<1>4. ASSUME NEW listing \in AllListings, AnswerRows(listing) PROVE SelectionInv'
  BY <1>4, AnswerEndsGesture, RowsBecomeKeeps DEF AnswerRows, Hold
<1>5. ASSUME NEW listing \in AllListings, ViewAnswer(listing) PROVE SelectionInv'
  BY <1>5, AnswerEndsGesture, RowsBecomeKeeps DEF ViewAnswer, Hold
<1>6. ASSUME NEW listing \in AllListings, SizesArrive(listing) PROVE SelectionInv'
  BY <1>6, RefilterKeeps DEF SizesArrive
<1>7. ASSUME NEW listing \in AllListings, SearchNow(listing) PROVE SelectionInv'
  <2>1. CASE typed = "here"
    BY <1>7, <2>1, RefilterKeeps DEF SearchNow
  <2>2. CASE typed # "here"
    BY <1>1, <1>7, <2>2, ChoiceKeeps DEF SearchNow, rowVars, Chosen, GestureFollows
  <2> QED
    BY <2>1, <2>2
<1>8. ASSUME Reveal PROVE SelectionInv'
  <2>1. UNCHANGED rows /\ GestureFollows
    BY <1>8 DEF Reveal, RowsStay, GestureFollows
  <2>2. CASE reveal.here /\ reveal.file \in FilesOf(rows)
    <3> DEFINE i == RowOf(reveal.file, rows)
    <3>1. i \in DOMAIN rows
      BY <1>1, <2>2, RowFacts
    <3>2. selection' = SelectSingle(i) /\ meant' = FilesMeant(SelectSingle(i), rows)
      BY <1>8, <2>2 DEF Reveal
    <3> HIDE DEF i
    <3>3. Chosen(selection', meant', rows)
      BY <1>1, <3>1, <3>2, SingleChosen DEF Chosen
    <3> QED
      BY <2>1, <3>3, ChoiceKeeps
  <2>3. CASE ~(reveal.here /\ reveal.file \in FilesOf(rows))
    BY <1>1, <1>8, <2>1, <2>3, ChoiceKeeps DEF Reveal, Chosen
  <2> QED
    BY <2>2, <2>3
<1> QED
  BY <1>2, <1>3, <1>4, <1>5, <1>6, <1>7, <1>8 DEF Answers, RowsArrive

\* Refreshes, navigation, selection and sort keys.
LEMMA KeyboardKeeps ==
  ASSUME SelectionInv, Keyboard
  PROVE  SelectionInv'
<1>2. Chosen(selection, meant, rows) /\ rows \in AllListings
  BY DEF SelectionInv, RowsInv
<1>3. ASSUME Refresh \/ Type PROVE SelectionInv'
  BY <1>2, <1>3, ChoiceKeeps DEF Refresh, Type, Asked, rowVars, mouseVars, Chosen, GestureFollows
<1>4. ASSUME GoElsewhere PROVE SelectionInv'
  BY <1>4, NoRowsKeeps DEF GoElsewhere, Asked, GestureFollows
<1>5. ASSUME SelectEverything PROVE SelectionInv'
  <2>1. Chosen(selection', meant', rows)
    BY <1>2, <1>5, AllChosen DEF SelectEverything, ChooseRows, Choose, Chosen
  <2> QED
    BY <1>5, <2>1, ChoiceKeeps DEF SelectEverything, RowsStay, GestureFollows
<1>6. ASSUME SelectNothing PROVE SelectionInv'
  <2>1. Chosen(selection', meant', rows)
    BY <1>2, <1>6, NothingIsMeant DEF SelectNothing, Choose, Chosen
  <2> QED
    BY <1>6, <2>1, ChoiceKeeps DEF SelectNothing, RowsStay, GestureFollows
<1>7. ASSUME NEW i \in DOMAIN rows, SelectRow(i) PROVE SelectionInv'
  <2>1. Chosen(selection', meant', rows)
    BY <1>2, <1>7, SingleChosen DEF SelectRow, ChooseRows, Choose, Chosen
  <2> QED
    BY <1>7, <2>1, ChoiceKeeps DEF SelectRow, RowsStay, GestureFollows
<1>8. ASSUME NEW listing \in AllListings, Resort(listing) PROVE SelectionInv'
  BY <1>8, RefilterKeeps DEF Resort
<1> QED
  BY <1>3, <1>4, <1>5, <1>6, <1>7, <1>8 DEF Keyboard

\* The file menu, the edited name, the Windows menu, and a new item.
LEMMA MenusKeep ==
  ASSUME SelectionInv,
         \/ Menus \/ ShellMenuCloses \/ BackgroundRefresh \/ UNCHANGED viewVars
         \/ \E f \in RowFile, edit \in BOOLEAN : ItemAppears(f, edit)
  PROVE  SelectionInv'
<1>1. Chosen(selection, meant, rows)
  BY DEF SelectionInv, RowsInv
<1>2. UNCHANGED <<rows, selection, meant>> /\ (press' = press \/ press' = NoPress)
  <2>1. CASE Menus
    BY <2>1 DEF Menus, CloseMenu, MenuRename, EndEdit, MenuShell, ShellMenuOpens, rowVars, mouseVars
  <2>2. CASE ShellMenuCloses
    BY <2>2 DEF ShellMenuCloses, Asked, rowVars, mouseVars
  <2>3. CASE BackgroundRefresh
    BY <2>3 DEF BackgroundRefresh, rowVars, mouseVars
  <2>4. CASE UNCHANGED viewVars
    BY <2>4 DEF viewVars, rowVars, mouseVars
  <2>5. CASE \E f \in RowFile, edit \in BOOLEAN : ItemAppears(f, edit)
    BY <2>5 DEF ItemAppears, Asked, rowVars
  <2> QED
    BY <2>1, <2>2, <2>3, <2>4, <2>5
<1> QED
  BY <1>1, <1>2, ChoiceKeeps DEF Chosen, GestureFollows

\* The left button goes down on a row.
LEMMA PressKeeps ==
  ASSUME SelectionInv, NEW i \in DOMAIN rows, NEW key \in {"plain", "control", "shift"},
         PressRow(i, key)
  PROVE  SelectionInv'
<1>1. Chosen(selection, meant, rows) /\ rows \in AllListings /\ UNCHANGED rows
  BY DEF SelectionInv, RowsInv, PressRow, RowsStay
<1>3. ASSUME NEW additive \in BOOLEAN, NEW click,
             Hold(Gesture(i, additive, click)), Chosen(selection', meant', rows)
      PROVE  SelectionInv'
  BY <1>1, <1>3, GestureKeeps DEF Hold
<1>4. CASE key = "control" /\ i \in selection.selected
  <2>1. Hold(Gesture(i, TRUE, "toggle")) /\ UNCHANGED <<selection, meant>>
    BY <1>4 DEF PressRow
  <2> QED
    BY <1>1, <1>3, <2>1 DEF Chosen
<1>5. CASE key = "control" /\ i \notin selection.selected
  <2>1. /\ Hold(Gesture(i, TRUE, "none"))
        /\ selection' = Toggle(selection, i) /\ meant' = MeantWith(meant, i)
    BY <1>5 DEF PressRow
  <2>2. Chosen(selection', meant', rows)
    BY <1>1, <2>1, ToggleChosen DEF Chosen, MeantWith
  <2> QED
    BY <1>3, <2>1, <2>2
<1>6. CASE key = "shift"
  <2>1. /\ Hold(Gesture(i, TRUE, "none"))
        /\ selection' = RangeSelect(selection, i) /\ meant' = MeantUpTo(meant, i)
    BY <1>6 DEF PressRow
  <2>2. Chosen(selection', meant', rows)
    BY <1>1, <2>1, RangeChosen DEF Chosen, MeantUpTo
  <2> QED
    BY <1>3, <2>1, <2>2
<1>7. CASE key = "plain" /\ i \in selection.selected
  <2>1. Hold(Gesture(i, FALSE, "select")) /\ UNCHANGED <<selection, meant>>
    BY <1>7 DEF PressRow
  <2> QED
    BY <1>1, <1>3, <2>1 DEF Chosen
<1>8. CASE key = "plain" /\ i \notin selection.selected
  <2>1. /\ Hold(Gesture(i, FALSE, "none"))
        /\ selection' = SelectSingle(i) /\ meant' = FilesMeant(SelectSingle(i), rows)
    BY <1>8 DEF PressRow
  <2>2. Chosen(selection', meant', rows)
    BY <1>1, <2>1, SingleChosen DEF Chosen
  <2> QED
    BY <1>3, <2>1, <2>2
<1> QED
  BY <1>4, <1>5, <1>6, <1>7, <1>8

\* The band is drawn from the baseline of the gesture.
LEMMA BandKeeps ==
  ASSUME SelectionInv, NEW first \in Nat, NEW last \in Nat, DrawBand(first, last)
  PROVE  SelectionInv'
<1>1. rows \in AllListings /\ Chosen(selection, meant, rows) /\ UNCHANGED rows /\ press # NoPress
  BY DEF SelectionInv, RowsInv, DrawBand, RowsStay
<1>2. press.additive \in BOOLEAN /\ Chosen(press.baseline, press.meant, press.rows)
  BY <1>1 DEF SelectionInv, PressInv, PressShape
<1>3. CASE GestureHolds
  <2> DEFINE under == first..last
  <2>1. /\ selection' = Marquee(press.baseline, under, press.additive, Len(rows))
        /\ meant' = MeantByBand(under) /\ press' = press
    BY <1>3 DEF DrawBand, Choose
  <2>2. under \in SUBSET Nat
    OBVIOUS
  <2> HIDE DEF under
  <2>3. Chosen(selection', meant', rows)
    <3>1. CASE press.additive /\ (SortedUnder \/ press.meant = Astray)
      BY <2>1, <3>1 DEF MeantByBand, Chosen
    \* Without Control and Shift the baseline does not matter; otherwise it is
    \* one of these rows.
    <3>2. CASE ~(press.additive /\ (SortedUnder \/ press.meant = Astray))
      <4> DEFINE added == IF press.additive THEN FilesMeant(press.baseline, rows).files ELSE {}
                 files == {rows[i] : i \in under \cap DOMAIN rows} \cup added
                 numbers == {RowOf(f, rows) : f \in files}
                 m == [files |-> files, anchor |-> FileAt(rows, LowestRow(numbers)),
                       focus |-> FileAt(rows, HighestRow(numbers))]
                 s == Marquee(press.baseline, under, press.additive, Len(rows))
      <4>1. press.additive => /\ press.baseline \in SelectionOn(Len(rows))
                              /\ press.meant = FilesMeant(press.baseline, rows)
        BY <1>2, <1>3, <3>2 DEF SortedUnder, GestureHolds, Chosen
      <4>2. (IF press.additive THEN press.meant.files ELSE {}) = added
        BY <4>1
      <4>3. s \in SelectionOn(Len(rows)) /\ FilesMeant(s, rows) = m
        BY <1>1, <1>2, <2>2, <4>1, BandChosen, ZenonT(60)
      <4> HIDE DEF added, s
      <4>4. MeantByBand(under) = m
        BY <3>2, <4>2 DEF MeantByBand
      <4>5. selection' = s /\ meant' = m
        BY <2>1, <4>4 DEF s
      <4> HIDE DEF m
      <4> QED
        BY <4>3, <4>5 DEF Chosen
    <3> QED
      BY <3>1, <3>2
  <2> QED
    BY <1>1, <2>1, <2>3, ChoiceKeeps DEF GestureFollows
<1>4. CASE ~GestureHolds
  <2>1. press' = [press EXCEPT !.same = FALSE] /\ UNCHANGED <<selection, meant>>
    BY <1>4 DEF DrawBand, Hold
  <2> QED
    BY <1>1, <2>1, ChoiceKeeps DEF GestureFollows, Chosen
<1> QED
  BY <1>3, <1>4

\* The left button is released, or Escape gives the gesture up.
LEMMA ReleaseKeeps ==
  ASSUME SelectionInv, Release \/ CancelGesture \/ StartDrag
  PROVE  SelectionInv'
<1>1. Chosen(selection, meant, rows) /\ rows \in AllListings
  BY DEF SelectionInv, RowsInv
<1>2. UNCHANGED rows /\ press # NoPress /\ GestureFollows
  BY DEF Release, CancelGesture, StartDrag, Hold, RowsStay, rowVars, GestureFollows
<1>3. CASE UNCHANGED <<selection, meant>>
  BY <1>1, <1>2, <1>3, ChoiceKeeps DEF Chosen
<1>4. ASSUME NEW i \in DOMAIN rows,
             Choose(Toggle(selection, i), MeantWith(meant, i)) \/ ChooseRows(SelectSingle(i))
      PROVE  SelectionInv'
  <2>1. Chosen(selection', meant', rows)
    <3>1. CASE Choose(Toggle(selection, i), MeantWith(meant, i))
      BY <1>1, <3>1, ToggleChosen DEF Chosen, Choose, MeantWith
    <3>2. CASE ChooseRows(SelectSingle(i))
      BY <1>1, <3>2, SingleChosen DEF Chosen, ChooseRows, Choose
    <3> QED
      BY <1>4, <3>1, <3>2
  <2> QED
    BY <1>2, <2>1, ChoiceKeeps
<1>5. CASE Release
  <2>1. CASE press.click = "none" \/ press.row \notin DOMAIN rows \/ IsLoading
    BY <1>3, <1>5, <2>1 DEF Release
  <2>2. CASE ~(press.click = "none" \/ press.row \notin DOMAIN rows \/ IsLoading)
    <3>1. press.row \in DOMAIN rows
      BY <2>2
    <3>2. \/ Choose(Toggle(selection, press.row), MeantWith(meant, press.row))
          \/ ChooseRows(SelectSingle(press.row))
      BY <1>5, <2>2 DEF Release
    <3> QED
      BY <1>4, <3>1, <3>2
  <2> QED
    BY <2>1, <2>2
<1>6. CASE CancelGesture
  <2>1. CASE GestureHolds
    <3>1. selection' = press.baseline /\ meant' = (IF SortedUnder THEN Astray ELSE press.meant)
      BY <1>6, <2>1 DEF CancelGesture, Choose
    <3>2. Chosen(selection', meant', rows)
      <4>1. CASE SortedUnder
        BY <3>1, <4>1 DEF Chosen
      <4>2. CASE ~SortedUnder
        BY <1>2, <2>1, <3>1, <4>2 DEF SortedUnder, GestureHolds, SelectionInv, PressInv, Chosen
      <4> QED
        BY <4>1, <4>2
    <3> QED
      BY <1>2, <3>2, ChoiceKeeps
  <2>2. CASE ~GestureHolds
    BY <1>3, <1>6, <2>2 DEF CancelGesture
  <2> QED
    BY <2>1, <2>2
<1>7. CASE StartDrag
  BY <1>3, <1>7 DEF StartDrag, rowVars
<1> QED
  BY <1>5, <1>6, <1>7

\* Every action of the mouse.
LEMMA MouseKeeps ==
  ASSUME SelectionInv, Mouse
  PROVE  SelectionInv'
<1>1. Chosen(selection, meant, rows) /\ rows \in AllListings
  BY DEF SelectionInv, RowsInv
<1>2. ASSUME NEW additive \in BOOLEAN, PressBeside(additive) PROVE SelectionInv'
  <2>1. Hold(Gesture(NoRow, additive, "none")) /\ UNCHANGED rows
    BY <1>2 DEF PressBeside, RowsStay
  <2>2. Chosen(selection', meant', rows)
    <3>1. CASE additive
      BY <1>1, <1>2, <3>1 DEF PressBeside, Chosen
    <3>2. CASE ~additive
      BY <1>1, <1>2, <3>2, NothingIsMeant DEF PressBeside, Chosen
    <3> QED
      BY <3>1, <3>2
  <2> QED
    BY <2>1, <2>2, GestureKeeps DEF Hold
<1>3. ASSUME NEW i \in DOMAIN rows, RightButton(i) PROVE SelectionInv'
  <2>1. UNCHANGED rows /\ GestureFollows
    BY <1>3 DEF RightButton, RowsStay, GestureFollows
  <2>2. Chosen(selection', meant', rows)
    <3>1. CASE i \in selection.selected
      BY <1>1, <1>3, <3>1 DEF RightButton, Chosen
    <3>2. CASE i \notin selection.selected
      <4>1. selection' = SelectSingle(i) /\ meant' = FilesMeant(SelectSingle(i), rows)
        BY <1>3, <3>2 DEF RightButton
      <4> QED
        BY <1>1, <1>3, <4>1, SingleChosen DEF Chosen
    <3> QED
      BY <3>1, <3>2
  <2> QED
    BY <2>1, <2>2, ChoiceKeeps
<1>4. 1..Cardinality(RowFile) \subseteq Nat
  BY FS_CardinalityType, FolderViewAssumption
<1> QED
  BY <1>2, <1>3, <1>4, PressKeeps, BandKeeps, ReleaseKeeps DEF Mouse

------------------------------------------------------------------------------
\* In every reachable state what the user means, unless a gesture has put back
\* old row numbers, is what is selected in the rows that are shown, and the
\* baseline of a gesture is that of the rows in which it began.
THEOREM SelectionInvariant == FolderViewSpec => []SelectionInv
<1>1. FolderViewInit => SelectionInv
  <2> SUFFICES ASSUME FolderViewInit PROVE SelectionInv
    OBVIOUS
  <2>1. rows \in AllListings
    BY FolderViewAssumption DEF FolderViewInit
  <2> QED
    BY <2>1, NothingIsMeant DEF FolderViewInit, SelectionInv, RowsInv, PressInv, Chosen
<1>2. SelectionInv /\ [FolderViewNext]_viewVars => SelectionInv'
  BY AnswersKeep, KeyboardKeeps, MenusKeep, MouseKeeps DEF FolderViewNext
<1> QED
  BY <1>1, <1>2, PTL DEF FolderViewSpec

\* The selected files, the anchor and the focus are those that the user chose,
\* for every number of files and of inputs, whatever moves the rows and when,
\* also under a pressed row or a band (app_state.rs:285-352, 548-643, 734-782,
\* selection.rs); except after an additive band or Escape has put back row
\* numbers from before a sort, until the next choice.
THEOREM SelectionSafe == FolderViewSpec => []SelectionIsUsers
<1>1. SelectionInv => SelectionIsUsers
  BY DEF SelectionInv, RowsInv, Chosen, SelectionIsUsers
<1> QED
  BY <1>1, SelectionInvariant, PTL

------------------------------------------------------------------------------
\* What points at rows by their number.

RowPointers ==
  /\ menu # NoMenu => FileAt(rows, menu.row) = menu.file
  /\ inline # NoInline => /\ inline = [file |-> inline.file, row |-> inline.row]
                          /\ FileAt(rows, inline.row) = inline.file

ShellInv ==
  /\ shellMenu # NoShell =>
       shellMenu = [row |-> shellMenu.row, file |-> shellMenu.file,
                    files |-> shellMenu.files, target |-> shellMenu.target]
  /\ ShellTargetIsItsFiles

\* The edited name follows its file, or the edit ends.
LEMMA InlineFollows ==
  ASSUME NEW l, NEW s, NEW n, n = InlineAfter(l, s), n # NoInline, RowPointers
  PROVE  n = [file |-> n.file, row |-> n.row] /\ FileAt(l, n.row) = n.file
<1>1. inline # NoInline /\ inline.file \in FilesMeant(s, l).files
  BY DEF InlineAfter
<1>2. inline = [file |-> inline.file, row |-> inline.row]
  BY <1>1 DEF RowPointers
<1>3. n = [inline EXCEPT !.row = RowOf(inline.file, l)]
  BY <1>1, Zenon DEF InlineAfter
<1>4. n = [file |-> inline.file, row |-> RowOf(inline.file, l)]
  BY <1>2, <1>3
<1>5. \E i \in DOMAIN l : l[i] = inline.file
  BY <1>1 DEF FilesMeant
<1>6. RowOf(inline.file, l) \in DOMAIN l /\ l[RowOf(inline.file, l)] = inline.file
  BY <1>5 DEF RowOf
<1> QED
  BY <1>4, <1>6 DEF FileAt

\* The menu and the edit end, stay with their rows, or follow their file.
LEMMA PointersFollow ==
  ASSUME RowPointers,
         \/ menu' = NoMenu
         \/ menu' = menu /\ rows' = rows,
         \/ inline' = NoInline
         \/ inline' = inline /\ rows' = rows
         \/ \E s : inline' = InlineAfter(rows', s)
  PROVE  RowPointers'
<1>1. menu' # NoMenu => FileAt(rows', menu'.row) = menu'.file
  BY DEF RowPointers
<1>2. ASSUME inline' # NoInline
      PROVE  inline' = [file |-> inline'.file, row |-> inline'.row] /\ FileAt(rows', inline'.row) = inline'.file
  <2>1. CASE inline' = inline /\ rows' = rows
    BY <1>2, <2>1 DEF RowPointers
  <2>2. ASSUME NEW s, inline' = InlineAfter(rows', s)
        PROVE  inline' = [file |-> inline'.file, row |-> inline'.row] /\ FileAt(rows', inline'.row) = inline'.file
    BY <1>2, <2>2, InlineFollows
  <2> QED
    BY <1>2, <2>1, <2>2
<1> QED
  BY <1>1, <1>2 DEF RowPointers

\* A name is edited in the row of its file.
LEMMA EditIsInItsRow ==
  ASSUME NEW i \in DOMAIN rows, EditName(rows[i], i), UNCHANGED rows, menu' = NoMenu
  PROVE  RowPointers'
  BY DEF EditName, RowPointers, FileAt

\* Answers, sizes, searches and the revealed item.
LEMMA AnswersPoint ==
  ASSUME RowPointers, Answers
  PROVE  RowPointers'
<1>1. ASSUME AnswerUnchanged \/ AnswerLarge PROVE RowPointers'
  BY <1>1, PointersFollow DEF AnswerUnchanged, AnswerLarge, rowVars, mouseVars
<1>2. ASSUME AnswerError PROVE RowPointers'
  BY <1>2, PointersFollow DEF AnswerError, MenuAfter
<1>3. ASSUME NEW listing, RowsBecome(listing) PROVE RowPointers'
  BY <1>3, PointersFollow DEF RowsBecome, MenuAfter
<1>4. ASSUME NEW listing, Refilter(listing) PROVE RowPointers'
  <2>1. CASE menu' = MenuAfter /\ inline' = InlineAfter(rows, selection) /\ UNCHANGED rowVars
    BY <2>1, PointersFollow DEF MenuAfter, rowVars
  <2> QED
    BY <1>3, <1>4, <2>1 DEF Refilter
<1>5. ASSUME NEW listing, AnswerRows(listing) \/ ViewAnswer(listing) PROVE RowPointers'
  BY <1>3, <1>5 DEF AnswerRows, ViewAnswer
<1>6. ASSUME NEW listing, SizesArrive(listing) PROVE RowPointers'
  BY <1>4, <1>6 DEF SizesArrive
<1>7. ASSUME NEW listing, SearchNow(listing) PROVE RowPointers'
  <2>1. CASE typed = "here"
    BY <1>4, <1>7, <2>1 DEF SearchNow
  <2>2. CASE typed # "here"
    BY <1>7, <2>2, PointersFollow DEF SearchNow, rowVars
  <2> QED
    BY <2>1, <2>2
<1>8. ASSUME Reveal PROVE RowPointers'
  <2>1. UNCHANGED rows
    BY <1>8 DEF Reveal, RowsStay
  <2>2. CASE reveal.here /\ reveal.file \in FilesOf(rows) /\ reveal.edit
    <3> DEFINE i == RowOf(reveal.file, rows)
    <3>1. i \in DOMAIN rows /\ rows[i] = reveal.file
      BY <2>2 DEF RowOf, FilesOf
    <3>2. EditName(reveal.file, i) /\ menu' = NoMenu
      BY <1>8, <2>2 DEF Reveal, MenuAfter
    <3> HIDE DEF i
    <3> QED
      BY <2>1, <3>1, <3>2, EditIsInItsRow
  <2>3. CASE reveal.here /\ reveal.file \in FilesOf(rows) /\ ~reveal.edit
    <3>1. menu' = NoMenu /\ inline' = InlineAfter(rows, SelectSingle(RowOf(reveal.file, rows)))
      BY <1>8, <2>3 DEF Reveal, MenuAfter
    <3> QED
      BY <2>1, <3>1, PointersFollow
  <2>4. CASE ~(reveal.here /\ reveal.file \in FilesOf(rows))
    BY <1>8, <2>1, <2>4, PointersFollow DEF Reveal
  <2> QED
    BY <2>2, <2>3, <2>4
<1> QED
  BY <1>1, <1>2, <1>5, <1>6, <1>7, <1>8 DEF Answers, RowsArrive

\* The keyboard and the mouse.
LEMMA InputsPoint ==
  ASSUME RowPointers, Keyboard \/ Mouse
  PROVE  RowPointers'
<1>1. ASSUME NEW s, NEW m, Choose(s, m), UNCHANGED rows PROVE RowPointers'
  BY <1>1, PointersFollow DEF Choose, MenuAfter
<1>2. ASSUME UNCHANGED <<rows, menu, inline>> PROVE RowPointers'
  BY <1>2, PointersFollow
<1>3. ASSUME EditConfirmed, UNCHANGED rows PROVE RowPointers'
  BY <1>3, PointersFollow DEF EditConfirmed
<1>4. CASE Refresh \/ GoElsewhere
  BY <1>4, PointersFollow DEF Refresh, GoElsewhere, Asked, MenuAfter
<1>5. CASE Type
  BY <1>2, <1>5 DEF Type, rowVars, mouseVars
<1>6. CASE SelectEverything \/ SelectNothing \/ \E i \in DOMAIN rows : SelectRow(i)
  BY <1>1, <1>6 DEF SelectEverything, SelectNothing, SelectRow, ChooseRows, RowsStay
<1>7. ASSUME NEW listing, Resort(listing) PROVE RowPointers'
  <2>1. Refilter(listing)
    BY <1>7 DEF Resort
  <2>2. CASE RowsBecome(listing)
    BY <2>2, PointersFollow DEF RowsBecome, MenuAfter
  <2>3. CASE menu' = MenuAfter /\ inline' = InlineAfter(rows, selection) /\ UNCHANGED rowVars
    BY <2>3, PointersFollow DEF MenuAfter, rowVars
  <2> QED
    BY <2>1, <2>2, <2>3 DEF Refilter
<1>8. CASE \/ \E i \in DOMAIN rows, key \in {"plain", "control", "shift"} : PressRow(i, key)
           \/ \E additive \in BOOLEAN : PressBeside(additive)
  BY <1>3, <1>8 DEF PressRow, PressBeside, RowsStay
<1>9. ASSUME NEW first, NEW last, DrawBand(first, last) PROVE RowPointers'
  BY <1>1, <1>2, <1>9 DEF DrawBand, RowsStay
<1>10. CASE Release
  BY <1>1, <1>2, <1>10 DEF Release, ChooseRows, RowsStay
<1>11. CASE StartDrag
  BY <1>2, <1>11 DEF StartDrag, rowVars
<1>12. CASE CancelGesture
  BY <1>1, <1>2, <1>12 DEF CancelGesture, RowsStay
<1>13. ASSUME NEW i \in DOMAIN rows, RightButton(i) PROVE RowPointers'
  <2>1. UNCHANGED rows /\ (inline' = inline \/ \E s : inline' = InlineAfter(rows, s))
    BY <1>13 DEF RightButton, RowsStay
  <2>2. CASE inline' = NoInline
    <3>1. menu' = [row |-> i, file |-> rows[i]]
      BY <1>13, <2>2 DEF RightButton
    <3> QED
      BY <2>1, <2>2, <3>1 DEF RowPointers, FileAt
  <2>3. CASE inline' # NoInline
    <3>1. menu' = NoMenu
      BY <1>13, <2>3 DEF RightButton
    <3> QED
      BY <2>1, <3>1, PointersFollow
  <2> QED
    BY <2>2, <2>3
<1> QED
  BY <1>4, <1>5, <1>6, <1>7, <1>8, <1>9, <1>10, <1>11, <1>12, <1>13 DEF Keyboard, Mouse

\* The menus themselves, and a new item.
LEMMA MenusPoint ==
  ASSUME RowPointers,
         \/ Menus \/ ShellMenuCloses \/ BackgroundRefresh \/ UNCHANGED viewVars
         \/ \E f \in RowFile, edit \in BOOLEAN : ItemAppears(f, edit)
  PROVE  RowPointers'
<1>1. CASE MenuRename
  BY <1>1, EditIsInItsRow DEF MenuRename, rowVars
<1>2. CASE CloseMenu \/ EndEdit \/ MenuShell \/ ShellMenuOpens
  BY <1>2, PointersFollow DEF CloseMenu, EndEdit, MenuShell, ShellMenuOpens, rowVars, mouseVars
<1>3. CASE ShellMenuCloses
  BY <1>3, PointersFollow DEF ShellMenuCloses, Asked, MenuAfter, rowVars, mouseVars
<1>4. CASE BackgroundRefresh \/ UNCHANGED viewVars
  BY <1>4, PointersFollow DEF BackgroundRefresh, viewVars, rowVars, mouseVars
<1>5. CASE \E f \in RowFile, edit \in BOOLEAN : ItemAppears(f, edit)
  BY <1>5, PointersFollow DEF ItemAppears, Asked, MenuAfter, rowVars
<1> QED
  BY <1>1, <1>2, <1>3, <1>4, <1>5 DEF Menus

\* The Windows menu is opened for the files it was asked for.
LEMMA ShellStep ==
  ASSUME ShellInv, [FolderViewNext]_viewVars
  PROVE  ShellInv'
<1>1. CASE UNCHANGED shellMenu
  BY <1>1 DEF ShellInv, ShellTargetIsItsFiles, ShellMenuIsOpen
<1>2. CASE shellMenu' = NoShell
  BY <1>2 DEF ShellInv, ShellTargetIsItsFiles, ShellMenuIsOpen
<1>3. CASE MenuShell
  <2>1. /\ shellMenu' = [row |-> menu.row, file |-> FileAt(rows, menu.row),
                         files |-> FilesMeant(selection, rows).files, target |-> {}]
    BY <1>3 DEF MenuShell
  <2> QED
    BY <2>1 DEF ShellInv, ShellTargetIsItsFiles, ShellMenuIsOpen
<1>4. CASE ShellMenuOpens /\ shellMenu' # NoShell
  <2> DEFINE target == ShellTarget(shellMenu.row)
  <2>1. /\ shellMenu # NoShell /\ ShellContextHolds /\ target # {}
        /\ shellMenu' = [shellMenu EXCEPT !.target = target]
    BY <1>4, Zenon DEF ShellMenuOpens
  <2>2. target = IF shellMenu.file \in shellMenu.files THEN shellMenu.files ELSE {shellMenu.file}
    BY <2>1 DEF ShellContextHolds, ShellTarget
  <2> HIDE DEF target
  <2>3. shellMenu' = [row |-> shellMenu.row, file |-> shellMenu.file,
                      files |-> shellMenu.files, target |-> target]
    BY <2>1 DEF ShellInv
  <2> QED
    BY <2>2, <2>3 DEF ShellInv, ShellTargetIsItsFiles, ShellMenuIsOpen
<1> QED
  <2>1. CASE UNCHANGED viewVars
    BY <1>1, <2>1 DEF viewVars
  <2>2. CASE Menus
    BY <1>1, <1>2, <1>3, <1>4, <2>2 DEF Menus, CloseMenu, MenuRename, EndEdit, ElsewhereFrame
  <2>3. CASE ShellMenuCloses
    BY <1>2, <2>3 DEF ShellMenuCloses
  <2>4. CASE Answers
    BY <1>1, <2>4 DEF Answers, RowsArrive, AnswerUnchanged, AnswerLarge, AnswerError, AnswerRows,
                      ViewAnswer, SizesArrive, SearchNow, Reveal, LoadedFrame
  <2>5. CASE Keyboard
    BY <1>1, <2>5 DEF Keyboard, Refresh, GoElsewhere, Type, SelectEverything, SelectNothing, SelectRow,
                      Resort, ElsewhereFrame
  <2>6. CASE Mouse
    BY <1>1, <2>6 DEF Mouse, PressRow, PressBeside, DrawBand, Release, StartDrag, CancelGesture,
                      RightButton, ElsewhereFrame
  <2>7. CASE BackgroundRefresh \/ \E f \in RowFile, edit \in BOOLEAN : ItemAppears(f, edit)
    BY <1>1, <2>7 DEF BackgroundRefresh, ItemAppears
  <2> QED
    BY <2>1, <2>2, <2>3, <2>4, <2>5, <2>6, <2>7 DEF FolderViewNext

\* The file menu, the edited name and the Windows menu act on the files they
\* were opened for, for every number of files and inputs and whatever moves
\* the rows, also under a band (main.rs:498-542, 878-908, callbacks.rs:470-508).
THEOREM PointersSafe == FolderViewSpec => []PointersAreTheirFiles
<1>1. FolderViewInit => RowPointers /\ ShellInv
  BY DEF FolderViewInit, RowPointers, ShellInv, ShellTargetIsItsFiles, ShellMenuIsOpen
<1>2. RowPointers /\ ShellInv /\ [FolderViewNext]_viewVars => (RowPointers /\ ShellInv)'
  BY AnswersPoint, InputsPoint, MenusPoint, ShellStep DEF FolderViewNext
<1>3. RowPointers /\ ShellInv => PointersAreTheirFiles
  BY DEF RowPointers, ShellInv, PointersAreTheirFiles
<1> QED
  BY <1>1, <1>2, <1>3, PTL DEF FolderViewSpec

------------------------------------------------------------------------------
\* An item that the folder has not been read for waits for a request.
RevealInv ==
  /\ reveal \in Revealed \cup {NoReveal}
  /\ reveal # NoReveal /\ ~reveal.fresh => flight # "none"

RevealStep == reveal # NoReveal /\ reveal' = NoReveal => reveal.fresh

\* What becomes of the item: it is still awaited, and has been read for; or it
\* is at another place.
LEMMA AwaitedStays ==
  ASSUME NEW r \in Revealed \cup {NoReveal}
  PROVE  /\ Fresh(r) \in Revealed \cup {NoReveal} /\ Elsewhere(r) \in Revealed \cup {NoReveal}
         /\ Fresh(r) = NoReveal <=> r = NoReveal
         /\ Elsewhere(r) = NoReveal <=> r = NoReveal
         /\ r # NoReveal => Fresh(r).fresh /\ Elsewhere(r).fresh = r.fresh
<1>1. CASE r = NoReveal
  BY <1>1 DEF Fresh, Elsewhere
<1>2. CASE r # NoReveal
  <2>1. r \in Revealed
    BY <1>2
  <2>2. Fresh(r) = [file |-> r.file, edit |-> r.edit, here |-> r.here, fresh |-> TRUE]
    BY <1>2, <2>1 DEF Fresh, Revealed
  <2>3. Elsewhere(r) = [file |-> r.file, edit |-> r.edit, here |-> FALSE, fresh |-> r.fresh]
    BY <1>2, <2>1 DEF Elsewhere, Revealed
  <2>4. Fresh(r) \in Revealed /\ Elsewhere(r) \in Revealed
    BY <2>1, <2>2, <2>3 DEF Revealed
  <2>5. Fresh(r) # NoReveal /\ Elsewhere(r) # NoReveal
    <3>1. NoReveal \notin Revealed
      BY FolderViewAssumption
    <3> QED
      BY <2>4, <3>1
  <2>6. Fresh(r).fresh /\ Elsewhere(r).fresh = r.fresh
    BY <2>2, <2>3
  <2> QED
    BY <1>2, <2>4, <2>5, <2>6, Zenon
<1> QED
  BY <1>1, <1>2

\* An answer that ends the request is a reading; one that leaves the request
\* leaves the item.
LEMMA ReadingsReveal ==
  ASSUME RevealInv, \/ reveal' = Fresh(reveal)
                    \/ reveal' = reveal /\ (flight' = flight \/ flight' # "none")
                    \/ reveal' = Elsewhere(reveal) /\ flight' # "none"
  PROVE  RevealInv' /\ RevealStep
<1>1. reveal \in Revealed \cup {NoReveal}
  BY DEF RevealInv
<1>2. CASE reveal' = Fresh(reveal)
  BY <1>1, <1>2, AwaitedStays DEF RevealInv, RevealStep
<1>3. CASE reveal' = reveal /\ (flight' = flight \/ flight' # "none")
  BY <1>3 DEF RevealInv, RevealStep
<1>4. CASE reveal' = Elsewhere(reveal) /\ flight' # "none"
  BY <1>1, <1>4, AwaitedStays DEF RevealInv, RevealStep
<1> QED
  BY <1>2, <1>3, <1>4

LEMMA AnswersReveal ==
  ASSUME RevealInv, Answers
  PROVE  RevealInv' /\ RevealStep
<1>1. CASE AnswerUnchanged \/ AnswerError
  BY <1>1, ReadingsReveal DEF AnswerUnchanged, AnswerError
<1>2. CASE AnswerLarge
  BY <1>2, ReadingsReveal DEF AnswerLarge
<1>3. ASSUME NEW listing \in AllListings, AnswerRows(listing)
      PROVE  RevealInv' /\ RevealStep
  BY <1>3, ReadingsReveal DEF AnswerRows
<1>4. ASSUME NEW listing \in AllListings, ViewAnswer(listing)
      PROVE  RevealInv' /\ RevealStep
  <2>1. \/ viewing = "listing" /\ reveal' = Fresh(reveal)
        \/ viewing # "listing" /\ reveal' = reveal /\ flight' = flight
    BY <1>4 DEF ViewAnswer
  <2> QED
    BY <2>1, ReadingsReveal
<1>5. ASSUME NEW listing \in AllListings, SizesArrive(listing) \/ SearchNow(listing)
      PROVE  RevealInv' /\ RevealStep
  BY <1>5, ReadingsReveal DEF SizesArrive, SearchNow
\* The item is looked for when nothing is in flight: its folder has been read.
<1>6. CASE Reveal
  BY <1>6, FolderViewAssumption DEF Reveal, MayReveal, RevealInv, RevealStep
<1> QED
  BY <1>1, <1>2, <1>3, <1>4, <1>5, <1>6 DEF Answers, RowsArrive

LEMMA InputsReveal ==
  ASSUME RevealInv, Keyboard \/ Mouse \/ Menus \/ BackgroundRefresh \/ ShellMenuCloses
  PROVE  RevealInv' /\ RevealStep
<1>1. CASE Refresh \/ GoElsewhere \/ BackgroundRefresh
  BY <1>1, ReadingsReveal DEF Refresh, GoElsewhere, BackgroundRefresh, Asked
<1>2. CASE Keyboard /\ ~Refresh /\ ~GoElsewhere
  <2>1. reveal' = reveal /\ flight' = flight
    BY <1>2 DEF Keyboard, Type, SelectEverything, SelectNothing, SelectRow, Resort, ElsewhereFrame
  <2> QED
    BY <2>1, ReadingsReveal
<1>3. CASE Mouse
  <2>1. reveal' = reveal /\ flight' = flight
    BY <1>3 DEF Mouse, PressRow, PressBeside, DrawBand, Release, StartDrag, CancelGesture,
                RightButton, ElsewhereFrame
  <2> QED
    BY <2>1, ReadingsReveal
<1>4. CASE Menus
  <2>1. reveal' = reveal /\ flight' = flight
    BY <1>4 DEF Menus, CloseMenu, MenuRename, EndEdit, MenuShell, ShellMenuOpens, ElsewhereFrame
  <2> QED
    BY <2>1, ReadingsReveal
<1>5. CASE ShellMenuCloses
  <2>1. reveal' = reveal /\ (flight' = flight \/ flight' # "none")
    BY <1>5 DEF ShellMenuCloses, Asked
  <2> QED
    BY <2>1, ReadingsReveal
<1> QED
  BY <1>1, <1>2, <1>3, <1>4, <1>5

\* A new item is looked for only in rows read since it appeared, for any
\* listing and any interleaving of requests, views and refreshes
\* (main.rs:684-712).
THEOREM RevealSafe == FolderViewSpec => RevealIsFresh
<1>1. FolderViewInit => RevealInv
  BY DEF FolderViewInit, RevealInv
<1>2. RevealInv /\ [FolderViewNext]_viewVars => RevealInv' /\ [RevealStep]_viewVars
  <2> SUFFICES ASSUME RevealInv, [FolderViewNext]_viewVars
               PROVE  RevealInv' /\ RevealStep
    OBVIOUS
  <2>1. CASE Answers
    BY <2>1, AnswersReveal
  <2>2. CASE Keyboard \/ Mouse \/ Menus \/ BackgroundRefresh \/ ShellMenuCloses
    BY <2>2, InputsReveal
  <2>3. ASSUME NEW f \in RowFile, NEW edit \in BOOLEAN, ItemAppears(f, edit)
        PROVE  RevealInv' /\ RevealStep
    <3>1. /\ reveal' = [file |-> f, edit |-> edit, here |-> TRUE, fresh |-> FALSE]
          /\ flight' = "foreground"
      BY <2>3 DEF ItemAppears, Asked
    <3>2. reveal' \in Revealed
      BY <3>1 DEF Revealed
    <3> QED
      <4>1. NoReveal \notin Revealed
        BY FolderViewAssumption
      <4> QED
        BY <3>1, <3>2, <4>1 DEF RevealInv, RevealStep
  <2>4. CASE UNCHANGED viewVars
    BY <2>4, ReadingsReveal DEF viewVars
  <2> QED
    BY <2>1, <2>2, <2>3, <2>4 DEF FolderViewNext
<1> QED
  BY <1>1, <1>2, PTL DEF FolderViewSpec, RevealIsFresh, RevealStep
==============================================================================
