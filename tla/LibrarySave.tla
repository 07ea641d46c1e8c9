----------------------------- MODULE LibrarySave -----------------------------
(***************************************************************************)
(* Pins, tags and collections, kept in one file by every open Kova window  *)
(* (apps/kova-desktop/src/library.rs).  A window edits its library in      *)
(* memory; its timer hands a copy to its storage worker through a channel  *)
(* of one; the worker compares and replaces the file under a lock file     *)
(* that excludes the workers of the other windows.  Windows close, crash   *)
(* and start again, reads, writes and renames fail.                        *)
(*                                                                         *)
(* A library is the set of the edits made to it since the file was new,    *)
(* whatever each edit did (pin, unpin, reorder, add, remove, relocate), so *)
(* that losing an edit shows.  The comparison of the serialized bytes is   *)
(* the comparison of the sets; a file that does not exist is the empty     *)
(* library.                                                                *)
(***************************************************************************)
EXTENDS Naturals, FiniteSets

CONSTANTS
  Window,      \* Kova processes
  Edit,        \* edits that may be made, each once
  MaxTries,    \* attempts to take the lock (library.rs:28)
  MaxFailures, \* failures of the file system and of processes, a bound of the model
  None         \* an empty Option, slot or channel, or a lock nobody holds

ASSUME LibrarySaveAssumption ==
  /\ MaxTries \in Nat \ {0} /\ MaxFailures \in Nat
  /\ None \notin Window /\ \A l \in SUBSET Edit : l # None

VARIABLES
  file,        \* the library file, always a whole library
  lock,        \* the window whose worker holds the lock file open
  \* the window: Running, its library, whether it may be edited, whether it
  \* was loaded, and at which library it was loaded and last shown
  state, library, writable, loaded, initial, shown,
  \* the copy that waits for the channel, and the channel
  pendingSave, channel,
  \* the worker: its step, the copy it saves, the library it believes to be in
  \* the file, attempts at the lock, and failed saves not told to the window
  step, saving, expected, tries, errors,
  \* history variables: edits made so far, failures so far, and whether the
  \* last save of the window failed
  made, failures, lastFailed

windowVars == <<state, library, writable, loaded, initial, shown, pendingSave>>
workerVars == <<step, saving, expected, tries>>
vars == <<file, lock, windowVars, channel, workerVars, errors, made, failures, lastFailed>>

Library == SUBSET Edit

States == {"closed", "running", "closing"}
Steps  == {"idle", "locking", "comparing", "writing", "renaming"}

------------------------------------------------------------------------------
Init ==
  /\ file = {} /\ lock = None
  /\ state = [w \in Window |-> "closed"]
  /\ library = [w \in Window |-> {}] /\ initial = [w \in Window |-> {}]
  /\ shown = [w \in Window |-> {}]
  /\ writable = [w \in Window |-> FALSE] /\ loaded = [w \in Window |-> FALSE]
  /\ pendingSave = [w \in Window |-> None] /\ channel = [w \in Window |-> None]
  /\ step = [w \in Window |-> "idle"] /\ saving = [w \in Window |-> {}]
  /\ expected = [w \in Window |-> {}] /\ tries = [w \in Window |-> 0]
  /\ errors = [w \in Window |-> 0]
  /\ made = {} /\ failures = 0
  /\ lastFailed = [w \in Window |-> FALSE]

Failure == failures < MaxFailures /\ failures' = failures + 1

\* A window opens: it reads the file without the lock, which never shows it
\* half a library because the file is only ever replaced by a rename.  A file
\* that cannot be read leaves an empty library that cannot be edited.
Open(w, ok) ==
  /\ state[w] = "closed"
  /\ IF ok THEN UNCHANGED failures ELSE Failure
  /\ LET read == IF ok THEN file ELSE {}
     IN  /\ library' = [library EXCEPT ![w] = read]
         /\ initial' = [initial EXCEPT ![w] = read]
         /\ shown' = [shown EXCEPT ![w] = read]
         /\ expected' = [expected EXCEPT ![w] = read]
  /\ state' = [state EXCEPT ![w] = "running"]
  /\ writable' = [writable EXCEPT ![w] = ok]
  /\ loaded' = [loaded EXCEPT ![w] = ok]
  /\ pendingSave' = [pendingSave EXCEPT ![w] = None]
  /\ channel' = [channel EXCEPT ![w] = None]
  /\ step' = [step EXCEPT ![w] = "idle"] /\ saving' = [saving EXCEPT ![w] = {}]
  /\ tries' = [tries EXCEPT ![w] = 0] /\ errors' = [errors EXCEPT ![w] = 0]
  /\ lastFailed' = [lastFailed EXCEPT ![w] = FALSE]
  /\ UNCHANGED <<file, lock, made>>

EditLibrary(w, e) ==
  /\ e \notin made /\ made' = made \cup {e}
  /\ library' = [library EXCEPT ![w] = @ \cup {e}]
  /\ UNCHANGED <<file, lock, state, writable, loaded, initial, shown, pendingSave,
                 channel, workerVars, errors, failures, lastFailed>>

\* An edit of the user, refused once the library is read-only.
UserEdits(w, e) == state[w] = "running" /\ writable[w] /\ EditLibrary(w, e)

\* A rename or a move follows the references, read-only or not (main.rs:601,
\* 647), if there are any.
Relocate(w, e) == state[w] = "running" /\ library[w] # {} /\ EditLibrary(w, e)

\* Mutation of Unsent: a copy that finds the channel full is dropped.
UnsentIsDropped(copy) == None

\* A copy that finds the channel full waits for the next run of the timer.  The
\* worker is there: it was started and has not ended (library.rs:136-139,
\* 290-293).
Unsent(copy) == copy

\* The timer of the window (library.rs:223-296): failures make the library
\* read-only, a changed library is copied, and the copy goes to the channel
\* when there is room.
TimerRuns(w) ==
  LET may == writable[w] /\ errors[w] = 0
      copy == IF library[w] # shown[w] /\ may THEN library[w] ELSE pendingSave[w]
  IN  /\ state[w] = "running"
      /\ writable' = [writable EXCEPT ![w] = may]
      /\ errors' = [errors EXCEPT ![w] = 0]
      /\ shown' = [shown EXCEPT ![w] = library[w]]
      /\ IF copy # None /\ channel[w] = None
         THEN /\ channel' = [channel EXCEPT ![w] = copy]
              /\ pendingSave' = [pendingSave EXCEPT ![w] = None]
         ELSE /\ pendingSave' = [pendingSave EXCEPT ![w] = Unsent(copy)]
              /\ UNCHANGED channel
      /\ UNCHANGED <<file, lock, state, library, loaded, initial, workerVars, made,
                     failures, lastFailed>>

------------------------------------------------------------------------------
\* The storage worker: save (library.rs:19-65).

WorkerFrame == UNCHANGED <<windowVars, made>>

\* Mutation of IsIdle: the worker rests after a failed save.
IsIdleUnlessFailed(w) == step[w] = "idle" /\ ~lastFailed[w]

IsIdle(w) == step[w] = "idle"

Takes(w) ==
  /\ IsIdle(w) /\ channel[w] # None
  /\ saving' = [saving EXCEPT ![w] = channel[w]]
  /\ channel' = [channel EXCEPT ![w] = None]
  /\ step' = [step EXCEPT ![w] = "locking"]
  /\ tries' = [tries EXCEPT ![w] = 0]
  /\ UNCHANGED <<file, lock, expected, errors, failures, lastFailed>> /\ WorkerFrame

\* Mutation of LockIsFree: the lock does not exclude the other windows.
LockIsShared == TRUE

LockIsFree == lock = None

\* Mutation of MayTry: one attempt too many.
MayTryOnceMore(w) == tries[w] <= MaxTries

MayTry(w) == tries[w] < MaxTries

Locks(w) ==
  /\ step[w] = "locking" /\ LockIsFree /\ tries[w] < MaxTries
  /\ lock' = w
  /\ step' = [step EXCEPT ![w] = "comparing"]
  /\ UNCHANGED <<file, channel, saving, expected, tries, errors, failures, lastFailed>>
  /\ WorkerFrame

WaitsForLock(w) ==
  /\ step[w] = "locking" /\ ~LockIsFree /\ MayTry(w)
  /\ tries' = [tries EXCEPT ![w] = @ + 1]
  /\ UNCHANGED <<file, lock, channel, step, saving, expected, errors, failures, lastFailed>>
  /\ WorkerFrame

\* The end of save: its guard releases the lock, the result is sent back.
Ends(w, failed) ==
  /\ step' = [step EXCEPT ![w] = "idle"]
  /\ lock' = IF lock = w THEN None ELSE lock
  /\ errors' = [errors EXCEPT ![w] = IF failed /\ state[w] = "running" THEN 1 ELSE @]
  /\ lastFailed' = [lastFailed EXCEPT ![w] = failed]
  /\ UNCHANGED <<channel, saving, tries>> /\ WorkerFrame

GivesUpLock(w) ==
  /\ step[w] = "locking" /\ tries[w] = MaxTries
  /\ Ends(w, TRUE)
  /\ UNCHANGED <<file, expected, failures>>

IsStale(w) == file # expected[w]

\* Another window has changed the file: it is left as it is.  Nothing to
\* write: done.
Compares(w) ==
  /\ step[w] = "comparing"
  /\ IF IsStale(w)
     THEN Ends(w, TRUE)
     ELSE IF saving[w] = expected[w]
     THEN Ends(w, FALSE)
     ELSE /\ step' = [step EXCEPT ![w] = "writing"]
          /\ UNCHANGED <<lock, channel, saving, tries, errors, lastFailed>> /\ WorkerFrame
  /\ UNCHANGED <<file, expected, failures>>

\* A temporary file of its own is written and flushed.
Writes(w) ==
  /\ step[w] = "writing"
  /\ step' = [step EXCEPT ![w] = "renaming"]
  /\ UNCHANGED <<file, lock, channel, saving, expected, tries, errors, failures, lastFailed>>
  /\ WorkerFrame

Renames(w) ==
  /\ step[w] = "renaming"
  /\ file' = saving[w]
  /\ expected' = [expected EXCEPT ![w] = saving[w]]
  /\ Ends(w, FALSE)
  /\ UNCHANGED failures

\* Any access to the file system may fail; the file keeps its content.
Fails(w) ==
  /\ step[w] # "idle" /\ Failure
  /\ Ends(w, TRUE)
  /\ UNCHANGED <<file, expected>>

------------------------------------------------------------------------------
\* The window closes: a library that was loaded and has changed since is sent
\* to the worker, which is waited for (Drop of LibraryRuntime).
Close(w) ==
  /\ state[w] = "running"
  /\ state' = [state EXCEPT ![w] = "closing"]
  /\ UNCHANGED <<file, lock, library, writable, loaded, initial, shown, pendingSave, channel,
                 workerVars, errors, made, failures, lastFailed>>

\* Mutation of Flushes: only what the channel can take at once is sent.
FlushesIfRoom(w) ==
  /\ state[w] = "closing" /\ loaded[w]
  /\ IF library[w] # initial[w] /\ channel[w] = None
     THEN channel' = [channel EXCEPT ![w] = library[w]]
     ELSE UNCHANGED channel
  /\ loaded' = [loaded EXCEPT ![w] = FALSE]
  /\ UNCHANGED <<file, lock, state, library, writable, initial, shown, pendingSave,
                 workerVars, errors, made, failures, lastFailed>>

\* The send waits until the channel is empty; it is done once, which clearing
\* `loaded` records.
Flushes(w) ==
  /\ state[w] = "closing" /\ loaded[w]
  /\ IF library[w] # initial[w]
     THEN channel[w] = None /\ channel' = [channel EXCEPT ![w] = library[w]]
     ELSE UNCHANGED channel
  /\ loaded' = [loaded EXCEPT ![w] = FALSE]
  /\ UNCHANGED <<file, lock, state, library, writable, initial, shown, pendingSave,
                 workerVars, errors, made, failures, lastFailed>>

\* The worker has drained its channel: the process ends.
Exits(w) ==
  /\ state[w] = "closing" /\ ~loaded[w]
  /\ channel[w] = None /\ step[w] = "idle"
  /\ state' = [state EXCEPT ![w] = "closed"]
  /\ UNCHANGED <<file, lock, library, writable, loaded, initial, shown, pendingSave, channel,
                 workerVars, errors, made, failures, lastFailed>>

\* The process dies at any point: the system closes the lock file.
Crash(w) ==
  /\ state[w] # "closed" /\ Failure
  /\ state' = [state EXCEPT ![w] = "closed"]
  /\ lock' = IF lock = w THEN None ELSE lock
  /\ library' = [library EXCEPT ![w] = {}]
  /\ channel' = [channel EXCEPT ![w] = None]
  /\ pendingSave' = [pendingSave EXCEPT ![w] = None]
  /\ step' = [step EXCEPT ![w] = "idle"]
  /\ errors' = [errors EXCEPT ![w] = 0]
  /\ lastFailed' = [lastFailed EXCEPT ![w] = FALSE]
  /\ UNCHANGED <<file, writable, loaded, initial, shown, saving, expected, tries, made>>

------------------------------------------------------------------------------
UserActs(w) ==
  \/ \E ok \in BOOLEAN : Open(w, ok)
  \/ \E e \in Edit : UserEdits(w, e) \/ Relocate(w, e)
  \/ Close(w)

Worker(w) ==
  \/ Takes(w) \/ Locks(w) \/ WaitsForLock(w) \/ GivesUpLock(w)
  \/ Compares(w) \/ Writes(w) \/ Renames(w)

Next ==
  \E w \in Window :
    \/ UserActs(w)
    \/ TimerRuns(w) \/ Flushes(w) \/ Exits(w)
    \/ Worker(w) \/ Fails(w)
    \/ Crash(w)

Spec == Init /\ [][Next]_vars

\* Timers and workers keep running, and a closing process runs to its end.
Fairness ==
  \A w \in Window : WF_vars(TimerRuns(w)) /\ WF_vars(Worker(w))
                    /\ WF_vars(Flushes(w)) /\ WF_vars(Exits(w))

FairSpec == Spec /\ Fairness

------------------------------------------------------------------------------
\* Properties.

TypeOK ==
  /\ file \in Library /\ lock \in Window \cup {None}
  /\ state \in [Window -> States]
  /\ library \in [Window -> Library] /\ initial \in [Window -> Library]
  /\ shown \in [Window -> Library] /\ expected \in [Window -> Library]
  /\ saving \in [Window -> Library]
  /\ writable \in [Window -> BOOLEAN] /\ loaded \in [Window -> BOOLEAN]
  /\ pendingSave \in [Window -> {None} \cup Library]
  /\ channel \in [Window -> {None} \cup Library]
  /\ step \in [Window -> Steps] /\ tries \in [Window -> 0..MaxTries]
  /\ errors \in [Window -> {0, 1}] /\ lastFailed \in [Window -> BOOLEAN]
  /\ made \in Library /\ failures \in 0..MaxFailures

\* The file implements a library that only grows: no window, however stale,
\* and no crash or failure at any step of a save takes away an edit another
\* window has saved (library.rs:19-65).
KeepsSavedEdits == INSTANCE LibraryFile WITH saved <- file

ImplementsFile == KeepsSavedEdits!Spec

\* A window that has closed leaves nothing behind: its edits are in the file
\* unless its last save failed (library.rs:75-94).
ClosedIsSaved ==
  \A w \in Window :
    state[w] = "closed" /\ library[w] # initial[w] /\ ~lastFailed[w] => library[w] \subseteq file

\* An edit that the user was allowed to make is saved, unless the window
\* becomes read-only (and says so) or its process ends.
EditsAreSaved ==
  \A w \in Window, e \in Edit :
    (state[w] = "running" /\ writable[w] /\ e \in library[w])
      ~> (e \in file \/ ~writable[w] \/ state[w] = "closed")

\* Closing ends: it never waits for ever for the lock of another window or for
\* room in its own channel.
ClosingEnds == \A w \in Window : []<>(state[w] # "closing")
==============================================================================
