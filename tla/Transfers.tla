------------------------------ MODULE Transfers ------------------------------
(***************************************************************************)
(* Copies, moves and deletions: the queue that the window fills and lists  *)
(* (crates/kova-platform-windows/src/transfers.rs), the Shell thread that  *)
(* takes one operation at a time (shell_ops.rs), asks for a decision on    *)
(* each file that exists already (conflicts.rs) and then performs it, and  *)
(* the dialog in which the user decides                                    *)
(* (apps/kova-desktop/src/operations.rs).                                  *)
(*                                                                         *)
(* The window and the Shell thread share the state of each transfer; the   *)
(* dialog is a copy that the timer of the window refreshes, so that the    *)
(* user answers what was shown, not what is the case.                      *)
(***************************************************************************)
EXTENDS Integers, Sequences, FiniteSets, Retain

CONSTANTS
  Sources,        \* number of files in each operation
  Keep,           \* transfers listed before finished ones are evicted (64)
  MaxUnfinished,  \* unfinished transfers accepted (100)
  MaxTransfers    \* a bound of the model

ASSUME TransfersAssumption ==
  /\ Sources \in Nat \ {0} /\ MaxTransfers \in Nat
  /\ Keep \in Nat \ {0} /\ MaxUnfinished \in Nat \ {0}

Id == 1..MaxTransfers
Source == 1..Sources

VARIABLES
  \* the queue: the transfers listed, the last identifier, the requests sent
  entries, next, requests,
  \* the state of each transfer, shared: its status, whether it has been
  \* cancelled, and the file that waits for a decision
  status, cancelled, conflict,
  \* the Shell thread: its transfer, the next file, the decision for all the
  \* remaining ones, the decision sent to it, what it does with each file,
  \* and the files processed
  current, position, applyAll, reply, decision, done,
  \* the dialog
  dialog,
  \* history variable: the answers given by the user, for what was shown
  answers

queueVars  == <<entries, next, requests>>
sharedVars == <<status, cancelled, conflict>>
shellVars  == <<current, position, applyAll, decision, done>>
vars == <<queueVars, sharedVars, shellVars, reply, dialog, answers>>

------------------------------------------------------------------------------
Choice == {"replace", "skip", "keep both", "cancel"}

\* No transfer, no file, no decision.
None == 0
NoReply == [choice |-> "none", all |-> FALSE]
Hidden == [visible |-> FALSE, id |-> None, incoming |-> None, all |-> FALSE]

Undecided == [s \in Source |-> "none"]

IsUnfinished(t) == status[t] \notin {"none", "finished"}

Unfinished == {t \in Id : IsUnfinished(t)}

Listed == {entries[i] : i \in DOMAIN entries}

\* Mutation of Evicts: the oldest is evicted, finished or not.
EvictsOldest(list) == IF Len(list) >= Keep THEN Tail(list) ELSE list

\* Mutation of Evicts: nothing is evicted.
EvictsNothing(list) == list

\* The oldest finished transfers leave the list until fewer than Keep are in
\* it or none is finished.
Evicts(list) ==
  LET excess == Len(list) - Keep + 1
      finishedUpTo(i) == {j \in 1..i : ~IsUnfinished(list[j])}
  IN  Retain(list, {i \in DOMAIN list :
                      IsUnfinished(list[i]) \/ Cardinality(finishedUpTo(i)) > excess})

------------------------------------------------------------------------------
Init ==
  /\ entries = <<>> /\ next = 0 /\ requests = <<>>
  /\ status = [t \in Id |-> "none"] /\ cancelled = [t \in Id |-> FALSE]
  /\ conflict = [t \in Id |-> None]
  /\ current = None /\ position = 1 /\ applyAll = "none"
  /\ decision = Undecided /\ done = {} /\ reply = NoReply
  /\ dialog = Hidden
  /\ answers = {}

------------------------------------------------------------------------------
\* The window: its callbacks and its timer run on one thread.

\* enqueue (transfers.rs:79-143) and the request to the Shell thread; a full
\* queue refuses the operation.
Enqueue ==
  /\ next < MaxTransfers
  /\ Cardinality(Unfinished \cap Listed) < MaxUnfinished
  /\ next' = next + 1
  /\ entries' = Append(Evicts(entries), next')
  /\ status' = [status EXCEPT ![next'] = "queued"]
  /\ requests' = Append(requests, next')
  /\ UNCHANGED <<cancelled, conflict, shellVars, reply, dialog, answers>>

Cancel(t) ==
  /\ t \in Listed /\ IsUnfinished(t)
  /\ cancelled' = [cancelled EXCEPT ![t] = TRUE]
  /\ UNCHANGED <<queueVars, status, conflict, shellVars, reply, dialog, answers>>

ClearFinished ==
  /\ entries' = Retain(entries, {i \in DOMAIN entries : IsUnfinished(entries[i])})
  /\ UNCHANGED <<next, requests, sharedVars, shellVars, reply, dialog, answers>>

\* The timer (operations.rs:103-145): the first transfer that waits is shown,
\* or the dialog is hidden.  The choice "for all" does not outlive its file.
WaitsForDecision(t) == t \in Listed /\ conflict[t] # None

\* Mutation of Shown: only the first transfer of the list is looked at.
ShownIfFirst(t) == t = Head(entries)

Shown(t) == \A u \in Listed : WaitsForDecision(u) => t <= u

TimerShows ==
  /\ \E t \in Id :
       /\ WaitsForDecision(t) /\ Shown(t)
       /\ dialog' = [visible |-> TRUE, id |-> t, incoming |-> conflict[t],
                     all |-> dialog.all /\ dialog.id = t /\ dialog.incoming = conflict[t]]
  /\ UNCHANGED <<queueVars, sharedVars, shellVars, reply, answers>>

TimerHides ==
  /\ \A t \in Id : ~WaitsForDecision(t)
  /\ dialog' = [dialog EXCEPT !.visible = FALSE]
  /\ UNCHANGED <<queueVars, sharedVars, shellVars, reply, answers>>

ToggleAll ==
  /\ dialog.visible
  /\ dialog' = [dialog EXCEPT !.all = ~@]
  /\ UNCHANGED <<queueVars, sharedVars, shellVars, reply, answers>>

\* Mutation of Answered: the answer goes to whichever transfer waits.
AnsweredAny(t) == TRUE

Answered(t) == t = dialog.id

\* resolve (transfers.rs:168-180): the answer goes to the transfer of the
\* dialog, if it still waits.  Cancel never applies to all.
Resolve(choice) ==
  LET all == dialog.all /\ choice # "cancel"
      taken == {t \in Listed : Answered(t) /\ conflict[t] # None}
  IN  /\ dialog.visible
      /\ dialog' = [dialog EXCEPT !.visible = FALSE]
      /\ answers' = answers \cup {[id |-> dialog.id, incoming |-> dialog.incoming,
                                   choice |-> choice, all |-> all]}
      /\ conflict' = [t \in Id |-> IF t \in taken THEN None ELSE conflict[t]]
      /\ reply' = IF taken = {} THEN reply ELSE [choice |-> choice, all |-> all]
      /\ UNCHANGED <<queueVars, status, cancelled, shellVars>>

------------------------------------------------------------------------------
\* The Shell thread.

ShellFrame == UNCHANGED <<entries, next, dialog>>

Takes ==
  /\ current = None /\ requests # <<>>
  /\ current' = Head(requests) /\ requests' = Tail(requests)
  /\ status' = [status EXCEPT ![current'] = "preparing"]
  /\ UNCHANGED <<cancelled, conflict, position, applyAll, decision, done, reply, answers>>
  /\ ShellFrame

Cleared(questions) == [questions EXCEPT ![current] = None]

\* The end of execute (shell_ops.rs:157-190), however it came.
Finishes ==
  /\ status' = [status EXCEPT ![current] = "finished"]
  /\ conflict' = Cleared(conflict)
  /\ current' = None
  /\ answers' = {a \in answers : a.id # current}
  /\ position' = 1 /\ applyAll' = "none" /\ decision' = Undecided /\ done' = {}
  /\ reply' = NoReply
  /\ UNCHANGED requests /\ ShellFrame

Preparing == current # None /\ status[current] = "preparing"

\* prepare (conflicts.rs:22-124), one file.
PreparesCancelled ==
  /\ Preparing /\ position <= Sources /\ cancelled[current]
  /\ Finishes
  /\ UNCHANGED cancelled

\* A file that would replace itself is left alone.
Decides(choice) ==
  /\ \E c \in {choice} \cup (IF choice = "replace" THEN {"none"} ELSE {}) :
       decision' = [decision EXCEPT ![position] = c]
  /\ position' = position + 1

\* No file of that name, or one that is left to Windows; a deletion.
PreparesFreely ==
  /\ Preparing /\ position <= Sources /\ ~cancelled[current]
  /\ Decides("normal")
  /\ UNCHANGED <<requests, sharedVars, current, applyAll, done, reply, answers>> /\ ShellFrame

\* The decision for all; keeping both fails if no unused name is found
\* (conflicts.rs:139-163).
PreparesAsBefore ==
  /\ Preparing /\ position <= Sources /\ ~cancelled[current]
  /\ applyAll # "none"
  /\ \/ /\ Decides(applyAll)
        /\ UNCHANGED <<requests, sharedVars, current, applyAll, done, reply, answers>>
        /\ ShellFrame
     \/ applyAll = "keep both" /\ Finishes /\ UNCHANGED cancelled

\* A channel of its own is made for the reply.
Asks ==
  /\ Preparing /\ position <= Sources /\ ~cancelled[current]
  /\ applyAll = "none"
  /\ status' = [status EXCEPT ![current] = "waiting"]
  /\ conflict' = [conflict EXCEPT ![current] = position]
  /\ reply' = NoReply
  /\ UNCHANGED <<requests, cancelled, shellVars, answers>> /\ ShellFrame

Waiting == current # None /\ status[current] = "waiting"

\* Mutation of StopsWaiting: the wait ends with a reply only.
StopsWaitingNever == FALSE

StopsWaiting == cancelled[current]

WaitIsCancelled ==
  /\ Waiting /\ StopsWaiting
  /\ Finishes
  /\ UNCHANGED cancelled

\* A reply that is already there may be taken although the transfer has been
\* cancelled since.
TakesReply ==
  /\ Waiting /\ reply.choice # "none"
  /\ \/ /\ reply.choice = "cancel"
        /\ cancelled' = [cancelled EXCEPT ![current] = TRUE]
        /\ Finishes
     \/ reply.choice = "keep both" /\ Finishes /\ UNCHANGED cancelled
     \/ /\ reply.choice # "cancel"
        /\ status' = [status EXCEPT ![current] = "preparing"]
        /\ conflict' = [conflict EXCEPT ![current] = None]
        /\ applyAll' = IF reply.all THEN reply.choice ELSE applyAll
        /\ Decides(reply.choice)
        /\ UNCHANGED <<requests, cancelled, current, done, reply, answers>> /\ ShellFrame

Starts ==
  /\ Preparing /\ position > Sources
  /\ status' = [status EXCEPT ![current] = "running"]
  /\ UNCHANGED <<requests, cancelled, conflict, shellVars, reply, answers>>
  /\ ShellFrame

\* execute_group: the replacements come after everything else.
Group ==
  LET normal == {s \in Source \ done : decision[s] \in {"normal", "keep both"}}
  IN  IF normal # {} THEN normal ELSE {s \in Source \ done : decision[s] = "replace"}

Running == current # None /\ status[current] = "running"

\* One file is processed, or fails; the others follow either way.
Performs ==
  /\ Running /\ ~cancelled[current]
  /\ \E s \in Group : done' = done \cup {s}
  /\ UNCHANGED <<requests, status, cancelled, conflict, current, position, applyAll, decision,
                 reply, answers>>
  /\ ShellFrame

\* All done, cancelled, or given up by Windows, at any point.
Completes ==
  /\ Running
  /\ Finishes
  /\ UNCHANGED cancelled

Window ==
  \/ Enqueue \/ \E t \in Id : Cancel(t)
  \/ ClearFinished \/ ToggleAll \/ \E c \in Choice : Resolve(c)

Timer == TimerShows \/ TimerHides

Shell ==
  \/ Takes \/ PreparesCancelled \/ PreparesFreely \/ PreparesAsBefore \/ Asks
  \/ WaitIsCancelled \/ TakesReply \/ Starts \/ Performs \/ Completes

Next == Window \/ Timer \/ Shell

Spec == Init /\ [][Next]_vars

\* The timer and the Shell thread keep running.
FairSpec == Spec /\ WF_vars(Timer) /\ WF_vars(Shell)

------------------------------------------------------------------------------
\* Properties.

\* What happens to a file that exists already is what the user decided for
\* that very file, or for it and all the following ones of its transfer, in a
\* dialog that showed it: replacement is "limited to explicitly approved" files
\* (docs/SECURITY_AND_DATA_SAFETY.md:19), whatever is cancelled, queued or shown meanwhile.
DecisionsAreTheUsers ==
  current # None =>
    \A s \in Source : decision[s] \notin {"none", "normal"} =>
      \E a \in answers :
        /\ a.id = current /\ a.choice = decision[s]
        /\ a.incoming = s \/ (a.all /\ a.incoming < s)

\* A transfer that is not finished stays in the list, where it can be
\* cancelled and its decisions are asked for (transfers.rs:95-104, 187-191).
UnfinishedIsListed == \A t \in Id : IsUnfinished(t) => t \in Listed

\* The list grows beyond Keep only while everything in it is unfinished, of
\* which there are never more than MaxUnfinished.
ListIsBounded ==
  [][Len(entries') > Keep /\ entries' # entries =>
       \/ Len(entries') <= Len(entries)
       \/ \A t \in Listed' : IsUnfinished(t)' /\ Len(entries') <= MaxUnfinished]_vars

\* A cancelled transfer ends even if nobody answers its dialog.
CancelEnds ==
  \A t \in Id : (current = t /\ cancelled[t]) ~> (status[t] = "finished")

\* If the user answers the dialogs shown, every transfer ends.
UserAnswers == WF_vars(\E c \in Choice : Resolve(c))

TransfersEnd ==
  UserAnswers => \A t \in Id : (status[t] = "queued") ~> (status[t] = "finished")
==============================================================================
