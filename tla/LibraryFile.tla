----------------------------- MODULE LibraryFile -----------------------------
(***************************************************************************)
(* What the library file promises to the Kova windows that share it: it    *)
(* only ever moves from one whole library to one that contains everything  *)
(* saved before.                                                           *)
(***************************************************************************)
CONSTANT Edit

VARIABLE saved      \* the edits contained in the file

Init == saved = {}

Save(more) == more # {} /\ saved' = saved \cup more

Next == \E more \in SUBSET (Edit \ saved) : Save(more)

Spec == Init /\ [][Next]_saved
==============================================================================
