------------------------------- MODULE Session -------------------------------
(***************************************************************************)
(* The workspace kept from run to run                                      *)
(* (apps/kova-desktop/src/preferences.rs): Kova restores the session file, *)
(* watches what the user changes, hands a changed session to a storage     *)
(* thread once it has rested for 600 ms, and hands over the last one when  *)
(* it is closed.  The file is only ever replaced by a rename.  Kova may    *)
(* crash and be started again, and any access to the file may fail.        *)
(*                                                                         *)
(* A session (tabs, options, sizes) is the number of the change that made  *)
(* it; 0 is the session of the first start.  One process at a time:        *)
(* several windows share the file and the last one wins.                   *)
(***************************************************************************)
EXTENDS Naturals, Sequences

CONSTANTS
  Foreign,     \* a session file that this version of Kova cannot read
  NoSession,   \* an idle storage thread, no failed save
  MaxChanges, MaxFaults  \* bounds of the model

\* What the storage thread saves, and whether its temporary file is written.
Save == [saves: Nat, written: BOOLEAN]

ASSUME SessionAssumption ==
  Foreign \notin Nat /\ NoSession \notin Nat \cup Save /\ MaxChanges \in Nat /\ MaxFaults \in Nat

VARIABLES
  sessionFile,
  run,          \* the process: off, on, closing, or crashed
  session,      \* tabs and options as they are now
  keeps,        \* there is a storage thread: the file could be read
  lastSeen,     \* the session that the timer saw last
  changed,      \* the debounce of the timer: none, running, or over
  handedOver,   \* the channel to the storage thread, without a bound
  saver,        \* the storage thread: what it saves, and whether the
                \* temporary file has been written
  failedSave,   \* history variable: the session of the last save if it failed
  changes, faults

sessionVars == <<sessionFile, run, session, keeps, lastSeen, changed, handedOver, saver,
                 failedSave, changes, faults>>

------------------------------------------------------------------------------
SessionInit ==
  /\ sessionFile \in {0, Foreign}
  /\ run = "off" /\ session = 0 /\ keeps = FALSE /\ lastSeen = 0
  /\ changed = "no" /\ handedOver = <<>> /\ saver = NoSession /\ failedSave = NoSession
  /\ changes = 0 /\ faults = 0

Fault == faults < MaxFaults /\ faults' = faults + 1

\* Mutation of IsKept: a file that cannot be read is replaced.
IsKeptAnyway(read) == TRUE

\* Unreadable or newer: the original is preserved.
IsKept(read) == read /\ sessionFile # Foreign

\* The start: restore and connect, which lets the first session be saved too.
StartSession(read) ==
  /\ run \in {"off", "crashed"} /\ run' = "on"
  /\ IF read THEN UNCHANGED faults ELSE Fault
  /\ session' = IF read /\ sessionFile # Foreign THEN sessionFile ELSE 0
  /\ keeps' = IsKept(read)
  /\ lastSeen' = session' /\ changed' = "recently"
  /\ handedOver' = <<>> /\ saver' = NoSession /\ failedSave' = NoSession
  /\ UNCHANGED <<sessionFile, changes>>

ChangeSession ==
  /\ run = "on" /\ changes < MaxChanges
  /\ changes' = changes + 1 /\ session' = changes'
  /\ UNCHANGED <<sessionFile, run, keeps, lastSeen, changed, handedOver, saver, failedSave,
                 faults>>

\* 600 ms pass since the timer saw a change.
Rests ==
  /\ changed = "recently" /\ changed' = "rested"
  /\ UNCHANGED <<sessionFile, run, session, keeps, lastSeen, handedOver, saver, failedSave,
                 changes, faults>>

\* Mutation of DebounceAfter: a change seen too late for this save is not
\* waited for again.
DebounceOnce == changed

DebounceAfter == IF session # lastSeen THEN "recently" ELSE changed

SessionTimer ==
  /\ run = "on" /\ keeps
  /\ lastSeen' = session
  /\ IF DebounceAfter = "rested"
     THEN handedOver' = Append(handedOver, session) /\ changed' = "no"
     ELSE UNCHANGED handedOver /\ changed' = DebounceAfter
  /\ UNCHANGED <<sessionFile, run, session, keeps, saver, failedSave, changes, faults>>

------------------------------------------------------------------------------
\* The storage thread.

SaverFrame == UNCHANGED <<run, session, keeps, lastSeen, changed, changes>>

\* Only the newest of the sessions that wait is saved.
SaverTakes ==
  /\ saver = NoSession /\ handedOver # <<>>
  /\ saver' = [saves |-> handedOver[Len(handedOver)], written |-> FALSE]
  /\ handedOver' = <<>>
  /\ UNCHANGED <<sessionFile, failedSave, faults>> /\ SaverFrame

SaverWrites ==
  /\ saver # NoSession /\ ~saver.written
  /\ saver' = [saver EXCEPT !.written = TRUE]
  /\ UNCHANGED <<sessionFile, handedOver, failedSave, faults>> /\ SaverFrame

SaverRenames ==
  /\ saver # NoSession /\ saver.written
  /\ sessionFile' = saver.saves
  /\ saver' = NoSession /\ failedSave' = NoSession
  /\ UNCHANGED <<handedOver, faults>> /\ SaverFrame

\* A save that fails is reported, and not tried again.
SaverFails ==
  /\ saver # NoSession /\ Fault
  /\ failedSave' = saver.saves /\ saver' = NoSession
  /\ UNCHANGED <<sessionFile, handedOver>> /\ SaverFrame

Saver == SaverTakes \/ SaverWrites \/ SaverRenames

------------------------------------------------------------------------------
\* Mutation of LastHandedOver: what the timer saw last, not what is now.
LastSeenHandedOver == lastSeen

LastHandedOver == session

\* Kova is closed: Drop of Persistence, which waits for the thread.
CloseSession ==
  /\ run = "on" /\ run' = "closing"
  /\ handedOver' = (IF keeps THEN Append(handedOver, LastHandedOver) ELSE handedOver)
  /\ UNCHANGED <<sessionFile, session, keeps, lastSeen, changed, saver, failedSave, changes,
                 faults>>

ExitSession ==
  /\ run = "closing" /\ handedOver = <<>> /\ saver = NoSession
  /\ run' = "off"
  /\ UNCHANGED <<sessionFile, session, keeps, lastSeen, changed, handedOver, saver, failedSave,
                 changes, faults>>

CrashSession ==
  /\ run \in {"on", "closing"} /\ Fault /\ run' = "crashed"
  /\ handedOver' = <<>> /\ saver' = NoSession
  /\ UNCHANGED <<sessionFile, session, keeps, lastSeen, changed, failedSave, changes>>

------------------------------------------------------------------------------
SessionNext ==
  \/ \E read \in BOOLEAN : StartSession(read)
  \/ ChangeSession \/ Rests \/ SessionTimer
  \/ Saver \/ SaverFails
  \/ CloseSession \/ ExitSession \/ CrashSession

SessionSpec == SessionInit /\ [][SessionNext]_sessionVars

\* Time passes, and the timer and the thread keep running.
SessionFairness ==
  WF_sessionVars(Rests) /\ WF_sessionVars(SessionTimer) /\ WF_sessionVars(Saver)

SessionFairSpec == SessionSpec /\ SessionFairness

------------------------------------------------------------------------------
\* Properties.

\* "a final flush on normal shutdown" (docs/NEXTGEN.md:130-135): a session that
\* was closed is in the file unless its save failed, whatever waited in the
\* channel before it.
ClosedSessionIsSaved ==
  run = "off" /\ keeps /\ failedSave = NoSession => sessionFile = session

\* "corrupt/newer settings are preserved" (docs/NEXTGEN.md:130-135): a file that
\* could not be read stays, through any number of runs, crashes and closings.
ForeignIsPreserved == [][sessionFile = Foreign => sessionFile' = Foreign]_sessionVars

IsUnsaved(n) == run = "on" /\ keeps /\ session = n /\ sessionFile # n /\ failedSave # n

\* A session that rests is saved, unless that fails: "A crash can lose the
\* latest debounce interval" (docs/NEXTGEN.md:134), and nothing that rested.
SessionIsSaved == \A n \in 0..MaxChanges : []<>~IsUnsaved(n)
==============================================================================
