------------------------------ MODULE Collisions ------------------------------
(***************************************************************************)
(* The names of one copy or move of several files into a folder: which of  *)
(* them exist there already, what the user decides for each of these, the  *)
(* unused names of KeepBoth (crates/kova-platform-windows/src/conflicts.rs) *)
(* and the two groups that the Shell thread then hands to Windows: one     *)
(* that asks before anything is replaced, and one that does not            *)
(* (shell_ops.rs).                                                         *)
(*                                                                         *)
(* All files are regular; folders are left to Windows.  When the user is   *)
(* asked, and that a decision is for the file shown, is module Transfers.  *)
(***************************************************************************)
EXTENDS Naturals, Sequences

CONSTANTS
  BatchSize,   \* number of files in the operation
  FileName,    \* names in the destination folder
  NumberedNames, \* for each name, those that KeepBoth tries, in order
  Nothing,     \* no file, no name
  SameNames    \* may files of the batch, from different folders, share a name?

Member == 1..BatchSize

ASSUME CollisionsAssumption ==
  /\ BatchSize \in Nat /\ SameNames \in BOOLEAN
  /\ NumberedNames \in [FileName -> Seq(FileName)]
  /\ Nothing \notin FileName /\ Nothing \notin Member /\ FileName \cap Member = {}

VARIABLES
  named, inside, moving,  \* the batch: the name of each file, which of them
                          \* are in the destination folder, copy or move
  folder,     \* the destination: the file of each name; a file that was
              \* there before is called like its name
  turn,       \* the next file to prepare
  plan,       \* Prepared: the group of each file, and its name there
  forAll,     \* the decision for the remaining files
  stage, done,
  approved,   \* history variable: files that the user let be replaced
  replaced    \* history variable: files replaced without being asked for then

batchVars == <<named, inside, moving>>
collisionVars == <<batchVars, folder, turn, plan, forAll, stage, done, approved, replaced>>

------------------------------------------------------------------------------
Decision == {"replace", "skip", "keep both"}

Unplanned == [group |-> "none", as |-> Nothing]
Skipped   == [group |-> "skip", as |-> Nothing]

IsTaken(n) == folder[n] # Nothing

\* The items from different folders that a collection or the clipboard holds
\* together may have the same name, those of one folder do not.
CollisionsInit ==
  /\ named \in [Member -> FileName] /\ inside \in SUBSET Member /\ moving \in BOOLEAN
  /\ \A s, t \in Member : named[s] = named[t] => s = t \/ (SameNames /\ {s, t} \ inside # {})
  /\ \E existing \in SUBSET FileName :
       folder = [n \in FileName |->
                   IF \E s \in inside : named[s] = n THEN CHOOSE s \in inside : named[s] = n
                   ELSE IF n \in existing THEN n ELSE Nothing]
  /\ turn = 1 /\ plan = [s \in Member |-> Unplanned] /\ forAll = "none"
  /\ stage = "preparing" /\ done = {}
  /\ approved = {} /\ replaced = {}

------------------------------------------------------------------------------
\* prepare (conflicts.rs:22-125), one file after the other.

PrepareFrame == UNCHANGED <<batchVars, folder, stage, done, replaced>>

Plans(p) == plan' = [plan EXCEPT ![turn] = p] /\ turn' = turn + 1

ToPrepare == stage = "preparing" /\ turn \in Member

\* No file of that name: as it is, and Windows asks should one turn up.
PrepareUnopposed ==
  /\ ToPrepare /\ ~IsTaken(named[turn])
  /\ Plans([group |-> "normal", as |-> named[turn]])
  /\ UNCHANGED <<forAll, approved>> /\ PrepareFrame

Reserved == {plan[s].as : s \in {t \in Member : plan[t].group = "normal"}}

IsUnused(n) == n \notin Reserved /\ ~IsTaken(n)

\* Mutation of KeptGroup: both are kept in the group that does not ask.
KeptGroupUnasked == "replace"

KeptGroup == "normal"

\* A file is not replaced by itself.  Keeping both fails, and the operation
\* with it, if every name tried is in use.
Decided(choice) ==
  LET n == named[turn]
  IN  \/ /\ choice = "replace" /\ folder[n] # turn
         /\ Plans([group |-> "replace", as |-> n])
         /\ approved' = approved \cup {folder[n]}
      \/ /\ choice = "skip" \/ (choice = "replace" /\ folder[n] = turn)
         /\ Plans(Skipped) /\ UNCHANGED approved
      \/ /\ choice = "keep both"
         /\ \E k \in DOMAIN NumberedNames[n] :
              /\ IsUnused(NumberedNames[n][k])
              /\ \A j \in 1..(k - 1) : ~IsUnused(NumberedNames[n][j])
              /\ Plans([group |-> KeptGroup, as |-> NumberedNames[n][k]])
         /\ UNCHANGED approved

PrepareAsked(choice, all) ==
  /\ ToPrepare /\ IsTaken(named[turn]) /\ forAll = "none"
  /\ Decided(choice)
  /\ forAll' = (IF all THEN choice ELSE "none")
  /\ PrepareFrame

PrepareAsBefore ==
  /\ ToPrepare /\ IsTaken(named[turn]) /\ forAll # "none"
  /\ Decided(forAll)
  /\ UNCHANGED forAll /\ PrepareFrame

\* Cancelled by the user, or given up after an error, at any point.
Stops ==
  /\ stage # "ended" /\ stage' = "ended"
  /\ UNCHANGED <<batchVars, folder, turn, plan, forAll, done, approved, replaced>>

Prepared ==
  /\ stage = "preparing" /\ turn = BatchSize + 1
  /\ stage' = "running"
  /\ UNCHANGED <<batchVars, folder, turn, plan, forAll, done, approved, replaced>>

------------------------------------------------------------------------------
\* execute_group (shell_ops.rs:193-311): the files of a group in their order,
\* the replacements after the others.

Waits(group) == {s \in Member \ done : plan[s].group = group}

IsNext(s, group) == s \in Waits(group) /\ \A t \in Waits(group) : s <= t

\* The contents of the file, which is another one if something took its place.
Contents(s) == IF s \in inside THEN folder[named[s]] ELSE s

Arrives(s, n) ==
  folder' = [m \in FileName |-> IF m = n THEN Contents(s)
                                ELSE IF moving /\ s \in inside /\ m = named[s] THEN Nothing
                                ELSE folder[m]]

RunFrame(s) ==
  /\ done' = done \cup {s}
  /\ UNCHANGED <<batchVars, turn, plan, forAll, stage, approved>>

\* Confirmation is switched off for the group of the replacements only.
IsConfirmed(group) == group = "normal"

\* A file, in its group: it arrives if the name is free; if not, Windows asks,
\* and the user lets it be replaced, skips it or keeps both; or nobody asks.
PerformFile(s, group) ==
  /\ stage = "running" /\ IsNext(s, group)
  /\ group = "replace" => Waits("normal") = {}
  /\ LET n == plan[s].as
     IN  IF Contents(s) = Nothing THEN UNCHANGED <<folder, replaced>>
         ELSE IF ~IsTaken(n) THEN Arrives(s, n) /\ UNCHANGED replaced
         ELSE IF IsConfirmed(group)
         THEN /\ \/ \E m \in {n} \cup {m \in FileName : ~IsTaken(m)} : Arrives(s, m)
                 \/ UNCHANGED folder
              /\ UNCHANGED replaced
         ELSE Arrives(s, n) /\ replaced' = replaced \cup {folder[n]}
  /\ RunFrame(s)

\* A file that fails leaves the others to go on.
FailFile(s, group) ==
  /\ stage = "running" /\ IsNext(s, group)
  /\ group = "replace" => Waits("normal") = {}
  /\ UNCHANGED <<folder, replaced>> /\ RunFrame(s)

Prepare ==
  \/ PrepareUnopposed \/ PrepareAsBefore \/ Prepared
  \/ \E choice \in Decision, all \in BOOLEAN : PrepareAsked(choice, all)

Execute == \E s \in Member, group \in {"normal", "replace"} : PerformFile(s, group) \/ FailFile(s, group)

CollisionsNext == Prepare \/ Execute \/ Stops

CollisionsSpec == CollisionsInit /\ [][CollisionsNext]_collisionVars

------------------------------------------------------------------------------
\* Nothing is replaced without a question but files that the user was shown as
\* existing and let be replaced: "Replace confirmation applies only to those
\* colliding files" (docs/NEXTGEN.md:95).  Neither the files of the batch that
\* have arrived before, nor the unused names of KeepBoth, nor the order of the
\* groups gets around it, unless files of the batch share a name.
ReplacedIsApproved == replaced \subseteq approved
==============================================================================
