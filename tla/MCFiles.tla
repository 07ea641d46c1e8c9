------------------------------- MODULE MCFiles -------------------------------
(***************************************************************************)
(* Five parts that share no state, checked together: the undo history, the *)
(* rows of a folder, the history of a tab, the analysis of a folder, and   *)
(* the names of a transfer.  `part` names the one that moves, the others   *)
(* stay in a first state.                                                  *)
(***************************************************************************)
EXTENDS UndoHistory, FolderView, TabHistory, StorageScan, Collisions, TLC

CONSTANTS f1, f2, f3, pic, pic1, pic2

MCRows == <<f1, f2, f3>>

\* pic, pic (1), pic (2), of which the last two are numbered themselves.
MCNumbered == (pic :> <<pic1, pic2>>) @@ (pic1 :> <<pic2>>) @@ (pic2 :> <<>>)

Symmetry == Permutations(File) \cup Permutations(Path)

VARIABLE part

Parts == {"undo", "rows", "history", "storage", "names"}

MCInit ==
  /\ part \in Parts
  /\ Init /\ FolderViewInit /\ HistoryInit /\ StorageInit
  /\ IF part = "names" THEN CollisionsInit
     ELSE /\ named = <<pic, pic1, pic2>> /\ inside = {} /\ moving = FALSE
          /\ CollisionsInit /\ folder = [n \in FileName |-> Nothing]
  /\ part # "history" => history.current = CHOOSE l \in Location : TRUE

MCNext ==
  /\ UNCHANGED part
  /\ \/ part = "undo" /\ Next
        /\ UNCHANGED <<viewVars, history, storageVars, collisionVars>>
     \/ part = "rows" /\ FolderViewNext
        /\ UNCHANGED <<vars, history, storageVars, collisionVars>>
     \/ part = "history" /\ HistoryNext
        /\ UNCHANGED <<vars, viewVars, storageVars, collisionVars>>
     \/ part = "storage" /\ StorageNext
        /\ UNCHANGED <<vars, viewVars, history, collisionVars>>
     \/ part = "names" /\ CollisionsNext
        /\ UNCHANGED <<vars, viewVars, history, storageVars>>

MCVars == <<part, vars, viewVars, history, storageVars, collisionVars>>

MCSpec == MCInit /\ [][MCNext]_MCVars
==============================================================================
