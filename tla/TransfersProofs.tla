---------------------------- MODULE TransfersProofs ----------------------------
(***************************************************************************)
(* Proofs about the queue of transfers, for every number of transfers and  *)
(* of files in each: a file is treated as the user decided for it, what is *)
(* not finished stays in the list, and the list is bounded.                *)
(***************************************************************************)
EXTENDS Transfers, RetainProofs, FiniteSetTheorems

Status == {"none", "queued", "preparing", "waiting", "running", "finished"}

\* The list and the requests are in the order of the identifiers; what is
\* requested is queued, the transfer of the Shell thread is at work, and what
\* was never enqueued has no status.
QueueOK ==
  /\ next \in 0..MaxTransfers /\ status \in [Id -> Status]
  /\ entries \in Seq(Id) /\ requests \in Seq(Id)
  /\ \A i \in DOMAIN entries : entries[i] \in 1..next
  /\ \A i, j \in DOMAIN entries : i < j => entries[i] < entries[j]
  /\ \A i \in DOMAIN requests : requests[i] \in 1..next /\ status[requests[i]] = "queued"
  /\ \A i, j \in DOMAIN requests : i < j => requests[i] < requests[j]
  /\ current \in {None} \cup 1..next
  /\ current # None => status[current] \in {"preparing", "waiting", "running"}
  /\ \A t \in Id : t > next => status[t] = "none"

\* Shapes of the rest.
ShellOK ==
  /\ cancelled \in [Id -> BOOLEAN] /\ conflict \in [Id -> Source \cup {None}]
  /\ position \in 1..(Sources + 1) /\ done \in SUBSET Source
  /\ applyAll \in Choice \cup {"none"}
  /\ reply \in [choice: Choice \cup {"none"}, all: BOOLEAN]
  /\ decision \in [Source -> Choice \cup {"none", "normal"}]
  /\ dialog \in [visible: BOOLEAN, id: Id \cup {None}, incoming: Source \cup {None},
                 all: BOOLEAN]
  /\ answers \in SUBSET [id: Id \cup {None}, incoming: Source \cup {None}, choice: Choice,
                         all: BOOLEAN]

\* The thread decides on the files in their order, and forgets everything
\* between two transfers.
InOrder ==
  /\ \A s \in Source : s >= position => decision[s] = "none"
  /\ current = None => position = 1 /\ applyAll = "none"

\* The file that waits is the one at the position of the Shell thread, until
\* the reply to it is there.
WaitsAtPosition ==
  /\ \A t \in Id : conflict[t] # None =>
       t = current /\ status[t] = "waiting" /\ conflict[t] = position
  /\ Waiting => position \in Source /\ (conflict[current] = None <=> reply.choice # "none")

\* A dialog that is visible shows the file that waits, or its transfer is over.
DialogIsCurrent ==
  dialog.visible =>
    /\ dialog.id \in Id /\ dialog.incoming \in Source
    /\ status[dialog.id] = "finished" \/ conflict[dialog.id] = dialog.incoming

\* A reply, and the decision for all, were given by the user for this transfer:
\* the reply for the file at the position, the other for an earlier one.
RepliesAreTheUsers ==
  /\ Waiting /\ reply.choice # "none" =>
       \E a \in answers : /\ a.id = current /\ a.choice = reply.choice
                          /\ a.incoming = position /\ a.all = reply.all
  /\ applyAll # "none" =>
       \E a \in answers : /\ a.id = current /\ a.choice = applyAll
                          /\ a.incoming < position /\ a.all

TransfersInv ==
  /\ QueueOK /\ ShellOK /\ InOrder /\ WaitsAtPosition /\ DialogIsCurrent
  /\ RepliesAreTheUsers /\ DecisionsAreTheUsers /\ UnfinishedIsListed

------------------------------------------------------------------------------
\* The steps of the window.

LEMMA TransfersStart == Init => TransfersInv
<1> SUFFICES ASSUME Init PROVE TransfersInv
  OBVIOUS
<1> USE TransfersAssumption
<1>1. /\ entries = <<>> /\ requests = <<>> /\ entries \in Seq(Id) /\ requests \in Seq(Id)
      /\ DOMAIN entries = {} /\ DOMAIN requests = {}
  BY DEF Init
<1>2. QueueOK
  BY <1>1 DEF Init, QueueOK, Status, Id, None
<1>3. ShellOK
  BY DEF Init, ShellOK, Choice, Source, None, NoReply, Hidden, Undecided
<1>4. InOrder /\ WaitsAtPosition /\ DialogIsCurrent
  BY DEF Init, InOrder, WaitsAtPosition, DialogIsCurrent, Waiting, Undecided, Hidden
<1>5. RepliesAreTheUsers /\ DecisionsAreTheUsers /\ UnfinishedIsListed
  BY DEF Init, RepliesAreTheUsers, Waiting, DecisionsAreTheUsers, UnfinishedIsListed,
         IsUnfinished
<1> QED
  BY <1>2, <1>3, <1>4, <1>5 DEF TransfersInv

\* The finished transfers leave the list, all of them or those that make room.
LEMMA LeavingKeeps ==
  ASSUME TransfersInv, NEW kept \in SUBSET (DOMAIN entries),
         \A i \in DOMAIN entries : IsUnfinished(entries[i]) => i \in kept
  PROVE  LET list == Retain(entries, kept)
         IN  /\ list \in Seq(Id)
             /\ \A i \in DOMAIN list : list[i] \in 1..next
             /\ \A i, j \in DOMAIN list : i < j => list[i] < list[j]
             /\ \A t \in Id : IsUnfinished(t) => \E i \in DOMAIN list : list[i] = t
<1> DEFINE list == Retain(entries, kept)
<1>1. entries \in Seq(Id)
  BY DEF TransfersInv, QueueOK
<1>2. /\ list \in Seq(Id)
      /\ \A i \in DOMAIN list : \E k \in kept : list[i] = entries[k]
      /\ \A k \in kept : \E i \in DOMAIN list : list[i] = entries[k]
      /\ \A i, j \in DOMAIN list : i < j =>
           \E k, l \in kept : k < l /\ list[i] = entries[k] /\ list[j] = entries[l]
  BY <1>1, RetainedElements
<1> HIDE DEF list
<1>3. \A i \in DOMAIN list : list[i] \in 1..next
  BY <1>2 DEF TransfersInv, QueueOK
<1>4. \A i, j \in DOMAIN list : i < j => list[i] < list[j]
  <2> TAKE i, j \in DOMAIN list
  <2> HAVE i < j
  <2>1. PICK k, l \in kept : k < l /\ list[i] = entries[k] /\ list[j] = entries[l]
    BY <1>2
  <2> QED
    BY <2>1 DEF TransfersInv, QueueOK
<1>5. \A t \in Id : IsUnfinished(t) => \E i \in DOMAIN list : list[i] = t
  BY <1>2 DEF TransfersInv, UnfinishedIsListed, Listed
<1> QED
  BY <1>2, <1>3, <1>4, <1>5 DEF list

LEMMA EvictsKeeps ==
  ASSUME TransfersInv
  PROVE  /\ Evicts(entries) \in Seq(Id)
         /\ \A i \in DOMAIN Evicts(entries) : Evicts(entries)[i] \in 1..next
         /\ \A i, j \in DOMAIN Evicts(entries) : i < j => Evicts(entries)[i] < Evicts(entries)[j]
         /\ \A t \in Id : IsUnfinished(t) => \E i \in DOMAIN Evicts(entries) : Evicts(entries)[i] = t
<1> DEFINE excess == Len(entries) - Keep + 1
           finishedUpTo(i) == {j \in 1..i : ~IsUnfinished(entries[j])}
           kept == {i \in DOMAIN entries :
                      IsUnfinished(entries[i]) \/ Cardinality(finishedUpTo(i)) > excess}
<1>1. Evicts(entries) = Retain(entries, kept)
  BY DEF Evicts
<1>2. /\ kept \in SUBSET (DOMAIN entries)
      /\ \A i \in DOMAIN entries : IsUnfinished(entries[i]) => i \in kept
  OBVIOUS
<1> HIDE DEF kept
<1> QED
  BY <1>1, <1>2, LeavingKeeps

LEMMA EnqueueKeeps == TransfersInv /\ Enqueue => TransfersInv'
<1> SUFFICES ASSUME TransfersInv, Enqueue PROVE TransfersInv'
  OBVIOUS
<1> DEFINE list == Evicts(entries)
           t == next + 1
<1>1. /\ next < MaxTransfers /\ next' = t /\ entries' = Append(list, t)
      /\ status' = [status EXCEPT ![t] = "queued"] /\ requests' = Append(requests, t)
      /\ UNCHANGED <<cancelled, conflict, shellVars, reply, dialog, answers>>
  BY DEF Enqueue
<1>2. next \in Nat /\ t \in Id /\ t \in Nat /\ t \in 0..MaxTransfers /\ t = next + 1
  BY <1>1, TransfersAssumption DEF TransfersInv, QueueOK, Id
<1>3. /\ list \in Seq(Id) /\ Len(list) \in Nat /\ DOMAIN list = 1..Len(list)
      /\ \A i \in DOMAIN list : list[i] \in 1..next
      /\ \A i, j \in DOMAIN list : i < j => list[i] < list[j]
      /\ \A u \in Id : IsUnfinished(u) => \E i \in DOMAIN list : list[i] = u
  BY EvictsKeeps
<1> HIDE DEF list, t
<1>4. /\ entries' \in Seq(Id) /\ Len(entries') = Len(list) + 1
      /\ DOMAIN entries' = 1..(Len(list) + 1)
      /\ \A i \in 1..Len(list) : entries'[i] = list[i]
      /\ entries'[Len(list) + 1] = t
  BY <1>1, <1>2, <1>3, AppendProperties
<1>5. \A i \in 1..(Len(list) + 1) : i \in 1..Len(list) \/ i = Len(list) + 1
  BY <1>3
<1>6. /\ \A i \in DOMAIN entries' : entries'[i] \in 1..next'
      /\ \A i, j \in DOMAIN entries' : i < j => entries'[i] < entries'[j]
  <2>1. 1..next \subseteq 1..next' /\ t \in 1..next'
    BY <1>1, <1>2
  <2>2. ASSUME NEW i \in DOMAIN entries', NEW j \in DOMAIN entries', i < j
        PROVE  entries'[i] < entries'[j]
    <3>1. i \in 1..Len(list)
      BY <1>3, <1>4, <2>2
    <3>2. CASE j \in 1..Len(list)
      BY <1>3, <1>4, <2>2, <3>1, <3>2
    <3>3. CASE j = Len(list) + 1
      <4>1. entries'[i] \in 1..next /\ entries'[j] = t
        BY <1>3, <1>4, <3>1, <3>3
      <4> QED
        BY <1>2, <4>1
    <3> QED
      BY <1>4, <1>5, <3>2, <3>3
  <2> QED
    BY <1>3, <1>4, <1>5, <2>1, <2>2
<1>7. /\ status' \in [Id -> Status] /\ status'[t] = "queued"
      /\ \A u \in Id : u # t => status'[u] = status[u]
  BY <1>1, <1>2 DEF TransfersInv, QueueOK, Status
<1>8. \A u \in 1..next : u \in Id /\ u # t /\ u \in 1..next'
  BY <1>1, <1>2, TransfersAssumption DEF Id
<1>9. /\ requests' \in Seq(Id)
      /\ \A i \in DOMAIN requests' : requests'[i] \in 1..next' /\ status'[requests'[i]] = "queued"
      /\ \A i, j \in DOMAIN requests' : i < j => requests'[i] < requests'[j]
  <2> DEFINE n == Len(requests)
  <2>1. requests \in Seq(Id) /\ n \in Nat /\ n = Len(requests) /\ DOMAIN requests = 1..n
    BY DEF TransfersInv, QueueOK
  <2> HIDE DEF n
  <2>2. /\ requests' \in Seq(Id) /\ DOMAIN requests' = 1..(n + 1)
        /\ \A i \in 1..n : requests'[i] = requests[i]
        /\ requests'[n + 1] = t
    BY <1>1, <1>2, <2>1, AppendProperties
  <2>3. \A i \in 1..(n + 1) : i \in 1..n \/ i = n + 1
    BY <2>1
  <2>4. \A i \in 1..n : requests[i] \in 1..next /\ status[requests[i]] = "queued"
    BY <2>1 DEF TransfersInv, QueueOK
  <2>5. t \in 1..next'
    BY <1>1, <1>2
  <2>6. \A i \in 1..(n + 1) : requests'[i] \in 1..next' /\ status'[requests'[i]] = "queued"
    BY <1>7, <1>8, <2>2, <2>3, <2>4, <2>5
  <2>7. ASSUME NEW i \in 1..(n + 1), NEW j \in 1..(n + 1), i < j
        PROVE  requests'[i] < requests'[j]
    <3>1. i \in 1..n
      BY <2>1, <2>7
    <3>2. CASE j \in 1..n
      BY <2>1, <2>2, <2>7, <3>1, <3>2 DEF TransfersInv, QueueOK
    <3>3. CASE j = n + 1
      <4>1. requests'[i] \in 1..next /\ requests'[j] = t
        BY <2>2, <2>4, <3>1, <3>3
      <4> QED
        BY <1>2, <4>1
    <3> QED
      BY <2>3, <3>2, <3>3
  <2> QED
    BY <2>2, <2>6, <2>7
<1>10. current' = current /\ (current # None => current \in 1..next)
  BY <1>1 DEF shellVars, TransfersInv, QueueOK
<1>11. QueueOK'
  <2>1. current' \in {None} \cup 1..next'
    BY <1>8, <1>10
  <2>2. current' # None => status'[current'] \in {"preparing", "waiting", "running"}
    BY <1>7, <1>8, <1>10 DEF TransfersInv, QueueOK
  <2>3. \A u \in Id : u > next' => status'[u] = "none"
    BY <1>1, <1>2, <1>7 DEF TransfersInv, QueueOK, Id
  <2> QED
    BY <1>1, <1>2, <1>4, <1>6, <1>7, <1>9, <2>1, <2>2, <2>3 DEF QueueOK
<1>12. status[t] = "none"
  BY <1>2 DEF TransfersInv, QueueOK
<1>13. /\ ShellOK' /\ InOrder' /\ DecisionsAreTheUsers'
  BY <1>1 DEF shellVars, TransfersInv, ShellOK, InOrder, DecisionsAreTheUsers
<1>14. current # None => status'[current] = status[current]
  BY <1>7, <1>8, <1>10
<1>15. RepliesAreTheUsers'
  BY <1>1, <1>10, <1>14 DEF shellVars, TransfersInv, RepliesAreTheUsers, Waiting
<1>16. WaitsAtPosition'
  <2>1. \A u \in Id : conflict[u] # None => u # t
    BY <1>12 DEF TransfersInv, WaitsAtPosition
  <2> QED
    BY <1>1, <1>7, <1>10, <1>14, <2>1 DEF shellVars, TransfersInv, WaitsAtPosition, Waiting
<1>17. DialogIsCurrent'
  BY <1>1, <1>7, <1>12 DEF TransfersInv, DialogIsCurrent
<1>18. UnfinishedIsListed'
  <2> SUFFICES ASSUME NEW u \in Id, status'[u] \notin {"none", "finished"}
               PROVE  \E i \in DOMAIN entries' : entries'[i] = u
    BY DEF UnfinishedIsListed, IsUnfinished, Listed
  <2>1. CASE u = t
    BY <1>3, <1>4, <2>1
  <2>2. CASE u # t
    <3>1. IsUnfinished(u)
      BY <1>7, <2>2 DEF IsUnfinished
    <3>2. PICK i \in 1..Len(list) : list[i] = u
      BY <1>3, <3>1
    <3> QED
      BY <1>3, <1>4, <3>2
  <2> QED
    BY <2>1, <2>2
<1> QED
  BY <1>11, <1>13, <1>15, <1>16, <1>17, <1>18 DEF TransfersInv

LEMMA CancelKeeps ==
  ASSUME TransfersInv, NEW t \in Id, Cancel(t)
  PROVE  TransfersInv'
<1>1. /\ cancelled' = [cancelled EXCEPT ![t] = TRUE]
      /\ UNCHANGED <<queueVars, status, conflict, shellVars, reply, dialog, answers>>
  BY DEF Cancel
<1>2. QueueOK' /\ ShellOK'
  BY <1>1 DEF queueVars, shellVars, TransfersInv, QueueOK, ShellOK
<1>3. InOrder' /\ WaitsAtPosition' /\ DialogIsCurrent'
  BY <1>1 DEF shellVars, TransfersInv, InOrder, WaitsAtPosition, Waiting, DialogIsCurrent
<1>4. RepliesAreTheUsers' /\ DecisionsAreTheUsers' /\ UnfinishedIsListed'
  BY <1>1 DEF queueVars, shellVars, TransfersInv, RepliesAreTheUsers, Waiting,
     DecisionsAreTheUsers, UnfinishedIsListed, IsUnfinished, Listed
<1> QED
  BY <1>2, <1>3, <1>4 DEF TransfersInv

LEMMA ClearFinishedKeeps == TransfersInv /\ ClearFinished => TransfersInv'
<1> SUFFICES ASSUME TransfersInv, ClearFinished PROVE TransfersInv'
  OBVIOUS
<1> DEFINE kept == {i \in DOMAIN entries : IsUnfinished(entries[i])}
<1>1. /\ entries' = Retain(entries, kept)
      /\ UNCHANGED <<next, requests, sharedVars, shellVars, reply, dialog, answers>>
  BY DEF ClearFinished
<1>2. kept \in SUBSET (DOMAIN entries) /\ \A i \in DOMAIN entries : IsUnfinished(entries[i]) => i \in kept
  OBVIOUS
<1> HIDE DEF kept
<1>3. /\ entries' \in Seq(Id)
      /\ \A i \in DOMAIN entries' : entries'[i] \in 1..next
      /\ \A i, j \in DOMAIN entries' : i < j => entries'[i] < entries'[j]
      /\ \A t \in Id : IsUnfinished(t) => \E i \in DOMAIN entries' : entries'[i] = t
  BY <1>1, <1>2, LeavingKeeps
<1>4. QueueOK' /\ ShellOK'
  BY <1>1, <1>3 DEF sharedVars, shellVars, TransfersInv, QueueOK, ShellOK
<1>5. InOrder' /\ WaitsAtPosition' /\ DialogIsCurrent'
  BY <1>1 DEF sharedVars, shellVars, TransfersInv, InOrder, WaitsAtPosition, Waiting,
     DialogIsCurrent
<1>6. RepliesAreTheUsers' /\ DecisionsAreTheUsers'
  BY <1>1 DEF sharedVars, shellVars, TransfersInv, RepliesAreTheUsers, Waiting,
     DecisionsAreTheUsers
<1>7. UnfinishedIsListed'
  BY <1>1, <1>3 DEF sharedVars, UnfinishedIsListed, IsUnfinished, Listed
<1> QED
  BY <1>4, <1>5, <1>6, <1>7 DEF TransfersInv

\* A step of the window that changes the dialog only.
LEMMA DialogStepKeeps ==
  ASSUME TransfersInv, UNCHANGED <<queueVars, sharedVars, shellVars, reply, answers>>,
         dialog' \in [visible: BOOLEAN, id: Id \cup {None}, incoming: Source \cup {None},
                      all: BOOLEAN],
         dialog'.visible =>
           /\ dialog'.id \in Id /\ dialog'.incoming \in Source
           /\ status[dialog'.id] = "finished" \/ conflict[dialog'.id] = dialog'.incoming
  PROVE  TransfersInv'
<1>1. QueueOK' /\ ShellOK'
  BY DEF queueVars, sharedVars, shellVars, TransfersInv, QueueOK, ShellOK
<1>2. InOrder' /\ WaitsAtPosition' /\ DialogIsCurrent'
  BY DEF sharedVars, shellVars, TransfersInv, InOrder, WaitsAtPosition, Waiting, DialogIsCurrent
<1>3. RepliesAreTheUsers' /\ DecisionsAreTheUsers' /\ UnfinishedIsListed'
  BY DEF queueVars, sharedVars, shellVars, TransfersInv, RepliesAreTheUsers, Waiting,
     DecisionsAreTheUsers, UnfinishedIsListed, IsUnfinished, Listed
<1> QED
  BY <1>1, <1>2, <1>3 DEF TransfersInv

LEMMA DialogKeeps == TransfersInv /\ (TimerShows \/ TimerHides \/ ToggleAll) => TransfersInv'
<1> SUFFICES ASSUME TransfersInv, TimerShows \/ TimerHides \/ ToggleAll PROVE TransfersInv'
  OBVIOUS
<1>1. dialog \in [visible: BOOLEAN, id: Id \cup {None}, incoming: Source \cup {None}, all: BOOLEAN]
  BY DEF TransfersInv, ShellOK
<1>2. UNCHANGED <<queueVars, sharedVars, shellVars, reply, answers>>
  BY DEF TimerShows, TimerHides, ToggleAll
<1>3. CASE TimerShows
  <2>1. PICK t \in Id :
          /\ WaitsForDecision(t)
          /\ dialog' = [visible |-> TRUE, id |-> t, incoming |-> conflict[t],
                        all |-> dialog.all /\ dialog.id = t /\ dialog.incoming = conflict[t]]
    BY <1>3 DEF TimerShows
  <2>2. conflict[t] \in Source
    BY <2>1 DEF WaitsForDecision, TransfersInv, ShellOK
  <2> DEFINE all == dialog.all /\ dialog.id = t /\ dialog.incoming = conflict[t]
  <2>3. all \in BOOLEAN
    BY <1>1
  <2> HIDE DEF all
  <2>4. dialog' = [visible |-> TRUE, id |-> t, incoming |-> conflict[t], all |-> all]
    BY <2>1 DEF all
  <2>5. /\ dialog'.id = t /\ dialog'.incoming = conflict[t]
        /\ dialog' \in [visible: BOOLEAN, id: Id \cup {None}, incoming: Source \cup {None},
                         all: BOOLEAN]
    BY <2>2, <2>3, <2>4
  <2> QED
    BY <1>2, <2>2, <2>5, DialogStepKeeps
<1>4. CASE TimerHides
  <2>1. dialog' = [dialog EXCEPT !.visible = FALSE]
    BY <1>4 DEF TimerHides
  <2>2. /\ dialog' \in [visible: BOOLEAN, id: Id \cup {None}, incoming: Source \cup {None},
                         all: BOOLEAN]
        /\ ~dialog'.visible
    BY <1>1, <2>1
  <2> QED
    BY <1>2, <2>2, DialogStepKeeps
<1>5. CASE ToggleAll
  <2>1. dialog.visible /\ dialog' = [dialog EXCEPT !.all = ~@]
    BY <1>5 DEF ToggleAll
  <2>2. (~dialog.all) \in BOOLEAN
    OBVIOUS
  <2>3. /\ dialog' \in [visible: BOOLEAN, id: Id \cup {None}, incoming: Source \cup {None},
                         all: BOOLEAN]
        /\ dialog'.id = dialog.id /\ dialog'.incoming = dialog.incoming
    BY <1>1, <2>1, <2>2
  <2> QED
    BY <1>2, <2>1, <2>3, DialogStepKeeps DEF TransfersInv, DialogIsCurrent
<1> QED
  BY <1>3, <1>4, <1>5

\* An answer is taken by the transfer that the dialog shows, if that one still
\* waits; it then waits for the file that the dialog shows.
LEMMA ResolveKeeps ==
  ASSUME TransfersInv, NEW choice \in Choice, Resolve(choice)
  PROVE  TransfersInv'
<1> DEFINE all == dialog.all /\ choice # "cancel"
           taken == {t \in Listed : Answered(t) /\ conflict[t] # None}
           answer == [id |-> dialog.id, incoming |-> dialog.incoming, choice |-> choice, all |-> all]
<1>1. /\ dialog.visible /\ dialog' = [dialog EXCEPT !.visible = FALSE]
      /\ answers' = answers \cup {answer}
      /\ conflict' = [t \in Id |-> IF t \in taken THEN None ELSE conflict[t]]
      /\ reply' = IF taken = {} THEN reply ELSE [choice |-> choice, all |-> all]
      /\ UNCHANGED <<queueVars, status, cancelled, shellVars>>
  BY DEF Resolve
<1>2. /\ dialog \in [visible: BOOLEAN, id: Id \cup {None}, incoming: Source \cup {None},
                     all: BOOLEAN]
      /\ dialog.id \in Id /\ dialog.incoming \in Source
  BY <1>1 DEF TransfersInv, ShellOK, DialogIsCurrent
<1>3. all \in BOOLEAN
  BY <1>2
<1>4. \A t \in taken : /\ t = dialog.id /\ t = current /\ t \in Id /\ Waiting
                       /\ conflict[t] = position /\ dialog.incoming = position
  <2> TAKE t \in taken
  <2>1. t = dialog.id /\ conflict[t] # None
    BY DEF Answered
  <2>2. t = current /\ status[t] = "waiting" /\ conflict[t] = position
    BY <1>2, <2>1 DEF TransfersInv, WaitsAtPosition
  <2>3. conflict[t] = dialog.incoming
    BY <1>1, <2>1, <2>2 DEF TransfersInv, DialogIsCurrent
  <2>4. t \in Id /\ current # None
    BY <1>2, <2>1, <2>2 DEF Id, None
  <2> QED
    BY <2>1, <2>2, <2>3, <2>4 DEF Waiting
<1>5. /\ answer.id = dialog.id /\ answer.incoming = dialog.incoming /\ answer.choice = choice
      /\ answer.all = all /\ answer \in [id: Id \cup {None}, incoming: Source \cup {None},
                                        choice: Choice, all: BOOLEAN]
  BY <1>2, <1>3
<1>6. choice # "none"
  BY DEF Choice
<1> HIDE DEF all, taken, answer
<1>7. conflict' \in [Id -> Source \cup {None}] /\ reply' \in [choice: Choice \cup {"none"}, all: BOOLEAN]
  BY <1>1, <1>3 DEF TransfersInv, ShellOK
<1>8. dialog' \in [visible: BOOLEAN, id: Id \cup {None}, incoming: Source \cup {None}, all: BOOLEAN]
      /\ ~dialog'.visible
  BY <1>1, <1>2
<1>9. QueueOK' /\ UnfinishedIsListed'
  BY <1>1 DEF queueVars, shellVars, TransfersInv, QueueOK, UnfinishedIsListed, IsUnfinished, Listed
<1>10. ShellOK'
  BY <1>1, <1>5, <1>7, <1>8 DEF shellVars, TransfersInv, ShellOK
<1>11. InOrder' /\ DialogIsCurrent' /\ DecisionsAreTheUsers'
  BY <1>1, <1>8 DEF shellVars, TransfersInv, InOrder, DialogIsCurrent, DecisionsAreTheUsers
<1>12. /\ Waiting' <=> Waiting
       /\ Waiting => current \in Id
  <2>1. current' = current /\ status' = status
    BY <1>1 DEF shellVars
  <2>2. Waiting => current \in 1..next /\ next \in 0..MaxTransfers
    BY DEF Waiting, TransfersInv, QueueOK
  <2>3. Waiting => current \in Id
    BY <2>2, TransfersAssumption DEF Id
  <2> QED
    BY <2>1, <2>3 DEF Waiting
<1>13. WaitsAtPosition' /\ RepliesAreTheUsers'
  <2>1. CASE taken = {}
    <3>1. conflict' = conflict /\ reply' = reply
      BY <1>1, <2>1 DEF TransfersInv, ShellOK
    <3> QED
      BY <1>1, <1>12, <3>1 DEF shellVars, TransfersInv, WaitsAtPosition, RepliesAreTheUsers
  <2>2. CASE taken # {}
    <3>1. taken = {current} /\ Waiting /\ dialog.id = current /\ dialog.incoming = position
      BY <1>4, <2>2
    <3>2. reply'.choice = choice /\ reply'.all = all /\ conflict'[current] = None
      BY <1>1, <1>12, <2>2, <3>1
    <3>3. \A t \in Id : t # current => conflict'[t] = conflict[t]
      BY <1>1, <3>1
    <3>4. WaitsAtPosition'
      BY <1>1, <1>6, <1>12, <3>1, <3>2, <3>3 DEF shellVars, TransfersInv, WaitsAtPosition
    <3>5. RepliesAreTheUsers'
      BY <1>1, <1>5, <1>12, <3>1, <3>2 DEF shellVars, TransfersInv, RepliesAreTheUsers
    <3> QED
      BY <3>4, <3>5
  <2> QED
    BY <2>1, <2>2
<1> QED
  BY <1>9, <1>10, <1>11, <1>13 DEF TransfersInv

------------------------------------------------------------------------------
\* The steps of the Shell thread.

\* The end of a transfer, however it comes.
LEMMA FinishesKeeps ==
  ASSUME TransfersInv, current # None, Finishes, cancelled' \in [Id -> BOOLEAN]
  PROVE  TransfersInv'
<1> USE TransfersAssumption
<1>1. /\ status' = [status EXCEPT ![current] = "finished"]
      /\ conflict' = [conflict EXCEPT ![current] = None]
      /\ current' = None /\ answers' = {a \in answers : a.id # current}
      /\ position' = 1 /\ applyAll' = "none" /\ decision' = [s \in Source |-> "none"]
      /\ done' = {} /\ reply' = [choice |-> "none", all |-> FALSE]
      /\ requests' = requests /\ entries' = entries /\ next' = next /\ dialog' = dialog
  BY DEF Finishes, Cleared, ShellFrame, Undecided, NoReply
<1>2. /\ current \in 1..next /\ current \in Id /\ status \in [Id -> Status]
      /\ status[current] \in {"preparing", "waiting", "running"}
      /\ conflict \in [Id -> Source \cup {None}]
  BY DEF TransfersInv, QueueOK, ShellOK, Id
<1>3. /\ status' \in [Id -> Status] /\ status'[current] = "finished"
      /\ \A t \in Id : t # current => status'[t] = status[t]
  BY <1>1, <1>2 DEF Status
<1>4. /\ conflict' \in [Id -> Source \cup {None}] /\ conflict'[current] = None
      /\ \A t \in Id : t # current => conflict'[t] = conflict[t]
  BY <1>1, <1>2
<1>5. QueueOK'
  <2>1. \A i \in DOMAIN requests : requests[i] # current /\ requests[i] \in Id
    BY <1>2 DEF TransfersInv, QueueOK
  <2>2. \A i \in DOMAIN requests : status'[requests[i]] = "queued"
    BY <1>3, <2>1 DEF TransfersInv, QueueOK
  <2>3. \A t \in Id : t > next => status'[t] = "none"
    BY <1>2, <1>3 DEF TransfersInv, QueueOK
  <2> QED
    BY <1>1, <1>3, <2>2, <2>3 DEF TransfersInv, QueueOK
<1>6. ShellOK'
  <2>1. position' \in 1..(Sources + 1) /\ done' \in SUBSET Source
    BY <1>1
  <2>2. /\ applyAll' \in Choice \cup {"none"}
        /\ reply' \in [choice: Choice \cup {"none"}, all: BOOLEAN]
        /\ decision' \in [Source -> Choice \cup {"none", "normal"}]
    BY <1>1
  <2>3. answers' \subseteq answers
    BY <1>1
  <2> QED
    BY <1>1, <1>4, <2>1, <2>2, <2>3 DEF TransfersInv, ShellOK
<1>7. InOrder' /\ RepliesAreTheUsers' /\ DecisionsAreTheUsers'
  BY <1>1 DEF InOrder, RepliesAreTheUsers, Waiting, DecisionsAreTheUsers
<1>8. WaitsAtPosition'
  <2>1. \A t \in Id : t # current => conflict[t] = None
    BY DEF TransfersInv, WaitsAtPosition
  <2> QED
    BY <1>1, <1>4, <2>1 DEF WaitsAtPosition, Waiting
<1>9. DialogIsCurrent'
  BY <1>1, <1>3, <1>4 DEF TransfersInv, DialogIsCurrent
<1>10. UnfinishedIsListed'
  BY <1>1, <1>3 DEF TransfersInv, UnfinishedIsListed, IsUnfinished, Listed
<1> QED
  BY <1>5, <1>6, <1>7, <1>8, <1>9, <1>10 DEF TransfersInv

LEMMA TakesKeeps == TransfersInv /\ Takes => TransfersInv'
<1> SUFFICES ASSUME TransfersInv, Takes PROVE TransfersInv'
  OBVIOUS
<1> DEFINE t == Head(requests)
<1>1. /\ current = None /\ requests # <<>> /\ current' = t /\ requests' = Tail(requests)
      /\ status' = [status EXCEPT ![t] = "preparing"]
      /\ UNCHANGED <<cancelled, conflict, position, applyAll, decision, done, reply, answers>>
      /\ entries' = entries /\ next' = next /\ dialog' = dialog
  BY DEF Takes, ShellFrame
<1>2. /\ requests \in Seq(Id) /\ DOMAIN requests = 1..Len(requests) /\ Len(requests) \in Nat \ {0}
      /\ t = requests[1] /\ 1 \in DOMAIN requests
  BY <1>1 DEF TransfersInv, QueueOK
<1>3. /\ requests' \in Seq(Id) /\ DOMAIN requests' = 1..(Len(requests) - 1)
      /\ \A i \in DOMAIN requests' : requests'[i] = requests[i + 1] /\ i + 1 \in DOMAIN requests
  BY <1>1, <1>2, HeadTailProperties
<1>4. t \in 1..next /\ status[t] = "queued" /\ t \in Id
  BY <1>2 DEF TransfersInv, QueueOK
<1> HIDE DEF t
<1>5. /\ status' \in [Id -> Status] /\ status'[t] = "preparing"
      /\ \A u \in Id : u # t => status'[u] = status[u]
  BY <1>1, <1>4 DEF TransfersInv, QueueOK, Status
<1>6. \A i \in DOMAIN requests' : /\ requests'[i] # t /\ requests'[i] \in 1..next
                                  /\ status[requests'[i]] = "queued" /\ requests'[i] \in Id
  <2> TAKE i \in DOMAIN requests'
  <2>1. requests'[i] = requests[i + 1] /\ i + 1 \in DOMAIN requests /\ 1 < i + 1
    BY <1>2, <1>3
  <2>2. requests[1] < requests[i + 1] /\ requests[1] \in 1..next
    BY <1>2, <2>1 DEF TransfersInv, QueueOK
  <2>3. requests[1] # requests[i + 1]
    BY <2>2
  <2> QED
    BY <1>2, <2>1, <2>3 DEF TransfersInv, QueueOK
<1>7. QueueOK'
  <2>1. \A i, j \in DOMAIN requests' : i < j => requests'[i] < requests'[j]
    <3> TAKE i, j \in DOMAIN requests'
    <3> HAVE i < j
    <3>1. i + 1 < j + 1 /\ i + 1 \in DOMAIN requests /\ j + 1 \in DOMAIN requests
      BY <1>2, <1>3
    <3>2. requests[i + 1] < requests[j + 1]
      BY <3>1 DEF TransfersInv, QueueOK
    <3> QED
      BY <1>3, <3>2
  <2>2. \A i \in DOMAIN requests' : requests'[i] \in 1..next /\ status'[requests'[i]] = "queued"
    BY <1>5, <1>6
  <2>3. \A u \in Id : u > next => status'[u] = "none"
    BY <1>4, <1>5 DEF TransfersInv, QueueOK
  <2> QED
    BY <1>1, <1>3, <1>4, <1>5, <2>1, <2>2, <2>3 DEF TransfersInv, QueueOK
<1>8. ShellOK' /\ InOrder' /\ \A s \in Source : decision[s] = "none"
  BY <1>1 DEF TransfersInv, ShellOK, InOrder, Source
<1>9. WaitsAtPosition'
  <2>1. \A u \in Id : conflict[u] = None
    BY <1>1 DEF TransfersInv, WaitsAtPosition, Id, None
  <2>2. ~Waiting'
    BY <1>1, <1>5 DEF Waiting
  <2> QED
    BY <1>1, <2>1, <2>2 DEF WaitsAtPosition
<1>10. DialogIsCurrent'
  BY <1>1, <1>4, <1>5 DEF TransfersInv, DialogIsCurrent
<1>11. RepliesAreTheUsers' /\ DecisionsAreTheUsers'
  BY <1>1, <1>5, <1>8 DEF TransfersInv, InOrder, RepliesAreTheUsers, Waiting, DecisionsAreTheUsers
<1>12. UnfinishedIsListed'
  BY <1>1, <1>4, <1>5 DEF TransfersInv, UnfinishedIsListed, IsUnfinished, Listed
<1> QED
  BY <1>7, <1>8, <1>9, <1>10, <1>11, <1>12 DEF TransfersInv

\* The transfer of the Shell thread changes its status while it is at work.
LEMMA StatusKeeps ==
  ASSUME TransfersInv, current # None, NEW st \in {"preparing", "waiting", "running"},
         status' = [status EXCEPT ![current] = st],
         UNCHANGED <<entries, next, requests, current>>
  PROVE  /\ QueueOK' /\ UnfinishedIsListed'
         /\ current \in Id /\ current \in 1..next
         /\ status'[current] = st /\ status[current] \in {"preparing", "waiting", "running"}
         /\ \A t \in Id : t # current => status'[t] = status[t]
<1> USE TransfersAssumption
<1>1. /\ current \in 1..next /\ current \in Id /\ status \in [Id -> Status]
      /\ status[current] \in {"preparing", "waiting", "running"}
  BY DEF TransfersInv, QueueOK, Id
<1>2. /\ status' \in [Id -> Status] /\ status'[current] = st
      /\ \A t \in Id : t # current => status'[t] = status[t]
  BY <1>1 DEF Status
<1>3. QueueOK'
  <2>1. \A i \in DOMAIN requests : requests[i] # current /\ requests[i] \in Id
    BY <1>1 DEF TransfersInv, QueueOK
  <2>2. \A i \in DOMAIN requests : status'[requests[i]] = "queued"
    BY <1>2, <2>1 DEF TransfersInv, QueueOK
  <2>3. \A t \in Id : t > next => status'[t] = "none"
    BY <1>1, <1>2 DEF TransfersInv, QueueOK
  <2> QED
    BY <1>1, <1>2, <2>2, <2>3 DEF TransfersInv, QueueOK
<1>4. UnfinishedIsListed'
  BY <1>1, <1>2 DEF TransfersInv, UnfinishedIsListed, IsUnfinished, Listed
<1> QED
  BY <1>1, <1>2, <1>3, <1>4

\* What is decided for the file at the position is that nothing of its name
\* exists, or what the user answered for it or for it and all that follow.
LEMMA DecidesKeeps ==
  ASSUME TransfersInv, current # None, position \in Source,
         NEW choice \in Choice \cup {"normal"}, Decides(choice),
         UNCHANGED <<current, answers>>,
         choice # "normal" => \E a \in answers :
           /\ a.id = current /\ a.choice = choice
           /\ a.incoming = position \/ (a.all /\ a.incoming < position)
  PROVE  /\ decision' \in [Source -> Choice \cup {"none", "normal"}]
         /\ position' = position + 1 /\ position' \in 1..(Sources + 1)
         /\ \A s \in Source : s >= position' => decision'[s] = "none"
         /\ DecisionsAreTheUsers'
<1> USE TransfersAssumption
<1>1. PICK c \in {choice, "none"} : decision' = [decision EXCEPT ![position] = c]
  BY DEF Decides
<1>2. position' = position + 1 /\ position \in Int /\ position' \in 1..(Sources + 1)
  BY DEF Decides, Source
<1>3. /\ decision' \in [Source -> Choice \cup {"none", "normal"}]
      /\ decision'[position] = c
      /\ \A s \in Source : s # position => decision'[s] = decision[s]
  BY <1>1 DEF TransfersInv, ShellOK
<1>4. \A s \in Source : s >= position' => decision'[s] = "none"
  BY <1>2, <1>3 DEF TransfersInv, InOrder, Source
<1>5. DecisionsAreTheUsers'
  BY <1>1, <1>3 DEF TransfersInv, DecisionsAreTheUsers
<1> QED
  BY <1>2, <1>3, <1>4, <1>5

LEMMA PreparesKeeps ==
  ASSUME TransfersInv, PreparesFreely \/ PreparesAsBefore
  PROVE  TransfersInv'
<1> USE TransfersAssumption
<1>1. /\ current # None /\ status[current] = "preparing" /\ position \in Source /\ ~Waiting
  <2>1. Preparing /\ position <= Sources
    BY DEF PreparesFreely, PreparesAsBefore
  <2>2. position \in 1..(Sources + 1)
    BY DEF TransfersInv, ShellOK
  <2> QED
    BY <2>1, <2>2 DEF Preparing, Waiting, Source
<1>2. CASE applyAll = "keep both" /\ Finishes /\ UNCHANGED cancelled
  <2>1. cancelled' \in [Id -> BOOLEAN]
    BY <1>2 DEF TransfersInv, ShellOK
  <2> QED
    BY <1>1, <1>2, <2>1, FinishesKeeps
<1>3. ASSUME NEW choice \in Choice \cup {"normal"}, Decides(choice),
             choice # "normal" => choice = applyAll /\ applyAll # "none",
             UNCHANGED <<requests, sharedVars, current, applyAll, done, reply, answers>>, ShellFrame
      PROVE  TransfersInv'
  <2>1. /\ requests' = requests /\ entries' = entries /\ next' = next /\ status' = status
        /\ cancelled' = cancelled /\ conflict' = conflict /\ current' = current
        /\ applyAll' = applyAll /\ done' = done /\ reply' = reply /\ answers' = answers
        /\ dialog' = dialog
    BY <1>3 DEF sharedVars, ShellFrame
  <2>2. choice # "normal" => \E a \in answers : /\ a.id = current /\ a.choice = choice
                                                /\ a.incoming < position /\ a.all
    BY <1>3 DEF TransfersInv, RepliesAreTheUsers
  <2>3. /\ decision' \in [Source -> Choice \cup {"none", "normal"}]
        /\ position' = position + 1 /\ position' \in 1..(Sources + 1)
        /\ \A s \in Source : s >= position' => decision'[s] = "none"
        /\ DecisionsAreTheUsers'
    BY <1>1, <1>3, <2>1, <2>2, DecidesKeeps
  <2>4. QueueOK' /\ UnfinishedIsListed' /\ DialogIsCurrent'
    BY <2>1 DEF TransfersInv, QueueOK, UnfinishedIsListed, IsUnfinished, Listed, DialogIsCurrent
  <2>5. ShellOK' /\ InOrder'
    BY <1>1, <2>1, <2>3 DEF TransfersInv, ShellOK, InOrder
  <2>6. WaitsAtPosition'
    BY <1>1, <2>1 DEF TransfersInv, WaitsAtPosition, Waiting
  <2>7. RepliesAreTheUsers'
    <3>1. ~Waiting'
      BY <1>1, <2>1 DEF Waiting
    <3>2. applyAll # "none" =>
            \E a \in answers : /\ a.id = current /\ a.choice = applyAll
                               /\ a.incoming < position + 1 /\ a.all
      <4> SUFFICES ASSUME applyAll # "none"
                   PROVE  \E a \in answers : /\ a.id = current /\ a.choice = applyAll
                                             /\ a.incoming < position + 1 /\ a.all
        OBVIOUS
      <4>1. PICK a \in answers : /\ a.id = current /\ a.choice = applyAll
                                 /\ a.incoming < position /\ a.all
        BY DEF TransfersInv, RepliesAreTheUsers
      <4>2. a.incoming \in Nat /\ position \in Nat
        BY <1>1 DEF TransfersInv, ShellOK, Source, None
      <4> QED
        BY <4>1, <4>2
    <3> QED
      BY <2>1, <2>3, <3>1, <3>2 DEF RepliesAreTheUsers
  <2> QED
    BY <2>3, <2>4, <2>5, <2>6, <2>7 DEF TransfersInv
<1>4. CASE PreparesFreely
  <2>1. /\ Decides("normal")
        /\ UNCHANGED <<requests, sharedVars, current, applyAll, done, reply, answers>>
        /\ ShellFrame
    BY <1>4 DEF PreparesFreely
  <2> QED
    BY <1>3, <2>1
<1>5. CASE /\ applyAll # "none" /\ Decides(applyAll)
           /\ UNCHANGED <<requests, sharedVars, current, applyAll, done, reply, answers>>
           /\ ShellFrame
  <2>1. applyAll \in Choice
    BY <1>5 DEF TransfersInv, ShellOK
  <2> QED
    BY <1>3, <1>5, <2>1
<1> QED
  BY <1>2, <1>4, <1>5 DEF PreparesAsBefore

\* The thread waits for the file at its position; no reply is there yet.
LEMMA AsksKeeps == TransfersInv /\ Asks => TransfersInv'
<1> SUFFICES ASSUME TransfersInv, Asks PROVE TransfersInv'
  OBVIOUS
<1>1. /\ current # None /\ status[current] = "preparing" /\ position \in Source
      /\ applyAll = "none"
      /\ status' = [status EXCEPT ![current] = "waiting"]
      /\ conflict' = [conflict EXCEPT ![current] = position]
      /\ reply' = [choice |-> "none", all |-> FALSE]
      /\ requests' = requests /\ entries' = entries /\ next' = next /\ cancelled' = cancelled
      /\ current' = current /\ position' = position /\ applyAll' = applyAll
      /\ decision' = decision /\ done' = done /\ answers' = answers /\ dialog' = dialog
  BY TransfersAssumption
  DEF Asks, Preparing, ShellFrame, shellVars, NoReply, TransfersInv, ShellOK, Source
<1>2. /\ QueueOK' /\ UnfinishedIsListed' /\ current \in Id
      /\ status'[current] = "waiting"
      /\ \A t \in Id : t # current => status'[t] = status[t]
  BY <1>1, StatusKeeps
<1>3. /\ conflict' \in [Id -> Source \cup {None}] /\ conflict'[current] = position
      /\ \A t \in Id : t # current => conflict'[t] = conflict[t]
  BY <1>1, <1>2 DEF TransfersInv, ShellOK
<1>4. position # None
  BY <1>1 DEF Source, None
<1>5. \A t \in Id : conflict[t] = None
  BY <1>1 DEF TransfersInv, WaitsAtPosition
<1>6. ShellOK'
  <2>1. reply' \in [choice: Choice \cup {"none"}, all: BOOLEAN]
    BY <1>1
  <2> QED
    BY <1>1, <1>3, <2>1 DEF TransfersInv, ShellOK
<1>7. InOrder' /\ DecisionsAreTheUsers'
  BY <1>1 DEF TransfersInv, InOrder, DecisionsAreTheUsers
<1>8. WaitsAtPosition'
  BY <1>1, <1>2, <1>3, <1>4, <1>5 DEF WaitsAtPosition, Waiting
<1>9. DialogIsCurrent'
  <2> SUFFICES ASSUME dialog.visible
               PROVE  /\ dialog.id \in Id /\ dialog.incoming \in Source
                      /\ status'[dialog.id] = "finished" \/ conflict'[dialog.id] = dialog.incoming
    BY <1>1 DEF DialogIsCurrent
  <2>1. /\ dialog.id \in Id /\ dialog.incoming \in Source
        /\ status[dialog.id] = "finished" \/ conflict[dialog.id] = dialog.incoming
    BY DEF TransfersInv, DialogIsCurrent
  <2>2. dialog.incoming # None
    BY <2>1 DEF Source, None
  <2>3. status[dialog.id] = "finished" /\ dialog.id # current
    BY <1>1, <1>5, <2>1, <2>2
  <2> QED
    BY <1>2, <2>1, <2>3
<1>10. RepliesAreTheUsers'
  BY <1>1 DEF RepliesAreTheUsers
<1> QED
  BY <1>2, <1>6, <1>7, <1>8, <1>9, <1>10 DEF TransfersInv

\* The reply was given for the file at the position, perhaps for all that
\* follow too.
LEMMA TakesReplyKeeps == TransfersInv /\ TakesReply => TransfersInv'
<1> SUFFICES ASSUME TransfersInv, TakesReply PROVE TransfersInv'
  OBVIOUS
<1>1. Waiting /\ current # None /\ reply.choice # "none" /\ position \in Source
  BY DEF TakesReply, Waiting, TransfersInv, WaitsAtPosition
<1>2. CASE reply.choice = "cancel" /\ cancelled' = [cancelled EXCEPT ![current] = TRUE] /\ Finishes
  <2>1. cancelled' \in [Id -> BOOLEAN]
    BY <1>2 DEF TransfersInv, ShellOK
  <2> QED
    BY <1>1, <1>2, <2>1, FinishesKeeps
<1>3. CASE reply.choice = "keep both" /\ Finishes /\ UNCHANGED cancelled
  <2>1. cancelled' \in [Id -> BOOLEAN]
    BY <1>3 DEF TransfersInv, ShellOK
  <2> QED
    BY <1>1, <1>3, <2>1, FinishesKeeps
<1>4. CASE /\ status' = [status EXCEPT ![current] = "preparing"]
           /\ conflict' = [conflict EXCEPT ![current] = None]
           /\ applyAll' = IF reply.all THEN reply.choice ELSE applyAll
           /\ Decides(reply.choice)
           /\ UNCHANGED <<requests, cancelled, current, done, reply, answers>> /\ ShellFrame
  <2>1. /\ requests' = requests /\ entries' = entries /\ next' = next /\ cancelled' = cancelled
        /\ current' = current /\ done' = done /\ reply' = reply /\ answers' = answers
        /\ dialog' = dialog
    BY <1>4 DEF ShellFrame
  <2>2. reply.choice \in Choice /\ reply.all \in BOOLEAN /\ position \in Nat
    BY <1>1 DEF TransfersInv, ShellOK, Source
  <2>3. PICK a \in answers : /\ a.id = current /\ a.choice = reply.choice
                             /\ a.incoming = position /\ a.all = reply.all
    BY <1>1 DEF TransfersInv, RepliesAreTheUsers
  <2>4. /\ decision' \in [Source -> Choice \cup {"none", "normal"}]
        /\ position' = position + 1 /\ position' \in 1..(Sources + 1)
        /\ \A s \in Source : s >= position' => decision'[s] = "none"
        /\ DecisionsAreTheUsers'
    BY <1>1, <1>4, <2>1, <2>2, <2>3, DecidesKeeps
  <2>5. /\ QueueOK' /\ UnfinishedIsListed' /\ current \in Id
        /\ status'[current] = "preparing" /\ status[current] # "finished"
        /\ \A t \in Id : t # current => status'[t] = status[t]
    BY <1>1, <1>4, <2>1, StatusKeeps
  <2>6. /\ conflict' \in [Id -> Source \cup {None}] /\ conflict'[current] = None
        /\ \A t \in Id : t # current => conflict'[t] = conflict[t]
    BY <1>4, <2>5 DEF TransfersInv, ShellOK
  <2>7. applyAll' \in Choice \cup {"none"}
    BY <1>4, <2>2 DEF TransfersInv, ShellOK
  <2>8. ShellOK' /\ InOrder'
    BY <1>1, <2>1, <2>4, <2>6, <2>7 DEF TransfersInv, ShellOK, InOrder
  <2>9. conflict[current] = None
    BY <1>1 DEF TransfersInv, WaitsAtPosition
  <2>10. \A t \in Id : conflict'[t] = None
    BY <2>6 DEF TransfersInv, WaitsAtPosition
  <2>11. WaitsAtPosition'
    BY <2>1, <2>5, <2>10 DEF WaitsAtPosition, Waiting
  <2>12. DialogIsCurrent'
    BY <2>1, <2>5, <2>6, <2>9 DEF TransfersInv, DialogIsCurrent
  <2>13. RepliesAreTheUsers'
    <3>1. ~Waiting'
      BY <2>1, <2>5 DEF Waiting
    <3>2. applyAll' # "none" =>
            \E b \in answers : /\ b.id = current /\ b.choice = applyAll'
                               /\ b.incoming < position + 1 /\ b.all
      <4>1. CASE reply.all
        <5>1. applyAll' = reply.choice
          BY <1>4, <4>1
        <5>2. a.all
          BY <2>3, <4>1
        <5>3. a.incoming < position + 1
          BY <2>2, <2>3
        <5> QED
          BY <2>3, <5>1, <5>2, <5>3
      <4>2. CASE ~reply.all
        <5> SUFFICES ASSUME applyAll # "none"
                     PROVE  \E b \in answers : /\ b.id = current /\ b.choice = applyAll
                                               /\ b.incoming < position + 1 /\ b.all
          BY <1>4, <4>2
        <5>1. PICK b \in answers : /\ b.id = current /\ b.choice = applyAll
                                   /\ b.incoming < position /\ b.all
          BY DEF TransfersInv, RepliesAreTheUsers
        <5>2. b.incoming \in Nat
          BY DEF TransfersInv, ShellOK, Source, None
        <5> QED
          BY <2>2, <5>1, <5>2
      <4> QED
        BY <4>1, <4>2
    <3> QED
      BY <2>1, <2>4, <3>1, <3>2 DEF RepliesAreTheUsers
  <2> QED
    BY <2>4, <2>5, <2>8, <2>11, <2>12, <2>13 DEF TransfersInv
<1> QED
  BY <1>2, <1>3, <1>4 DEF TakesReply

LEMMA StartsKeeps == TransfersInv /\ Starts => TransfersInv'
<1> SUFFICES ASSUME TransfersInv, Starts PROVE TransfersInv'
  OBVIOUS
<1>1. /\ current # None /\ status[current] = "preparing"
      /\ status' = [status EXCEPT ![current] = "running"]
      /\ requests' = requests /\ entries' = entries /\ next' = next /\ cancelled' = cancelled
      /\ conflict' = conflict /\ current' = current /\ position' = position
      /\ applyAll' = applyAll /\ decision' = decision /\ done' = done /\ reply' = reply
      /\ answers' = answers /\ dialog' = dialog
  BY DEF Starts, Preparing, ShellFrame, shellVars
<1>2. /\ QueueOK' /\ UnfinishedIsListed' /\ current \in Id /\ status'[current] = "running"
      /\ \A t \in Id : t # current => status'[t] = status[t]
  BY <1>1, StatusKeeps
<1>3. ShellOK' /\ InOrder' /\ DecisionsAreTheUsers'
  BY <1>1 DEF TransfersInv, ShellOK, InOrder, DecisionsAreTheUsers
<1>4. \A t \in Id : conflict[t] = None
  BY <1>1 DEF TransfersInv, WaitsAtPosition
<1>5. WaitsAtPosition' /\ RepliesAreTheUsers'
  BY <1>1, <1>2, <1>4 DEF TransfersInv, WaitsAtPosition, RepliesAreTheUsers, Waiting
<1>6. DialogIsCurrent'
  BY <1>1, <1>2 DEF TransfersInv, DialogIsCurrent
<1> QED
  BY <1>2, <1>3, <1>5, <1>6 DEF TransfersInv

LEMMA PerformsKeeps == TransfersInv /\ Performs => TransfersInv'
<1> SUFFICES ASSUME TransfersInv, Performs PROVE TransfersInv'
  OBVIOUS
<1>1. /\ UNCHANGED <<requests, status, cancelled, conflict, current, position, applyAll,
                     decision, reply, answers, entries, next, dialog>>
      /\ \E s \in Source : done' = done \cup {s}
  BY DEF Performs, ShellFrame, Group
<1>2. QueueOK' /\ ShellOK'
  BY <1>1 DEF TransfersInv, QueueOK, ShellOK
<1>3. InOrder' /\ WaitsAtPosition' /\ DialogIsCurrent'
  BY <1>1 DEF TransfersInv, InOrder, WaitsAtPosition, Waiting, DialogIsCurrent
<1>4. RepliesAreTheUsers' /\ DecisionsAreTheUsers' /\ UnfinishedIsListed'
  BY <1>1 DEF TransfersInv, RepliesAreTheUsers, Waiting, DecisionsAreTheUsers,
     UnfinishedIsListed, IsUnfinished, Listed
<1> QED
  BY <1>2, <1>3, <1>4 DEF TransfersInv

LEMMA EndsKeep ==
  ASSUME TransfersInv, PreparesCancelled \/ WaitIsCancelled \/ Completes
  PROVE  TransfersInv'
<1>1. current # None /\ Finishes /\ cancelled' = cancelled
  BY DEF PreparesCancelled, WaitIsCancelled, Completes, Preparing, Waiting, Running
<1>2. cancelled' \in [Id -> BOOLEAN]
  BY <1>1 DEF TransfersInv, ShellOK
<1> QED
  BY <1>1, <1>2, FinishesKeeps

------------------------------------------------------------------------------
LEMMA TransfersStep == TransfersInv /\ [Next]_vars => TransfersInv'
<1> SUFFICES ASSUME TransfersInv, [Next]_vars PROVE TransfersInv'
  OBVIOUS
<1>1. CASE Window
  BY <1>1, EnqueueKeeps, CancelKeeps, ClearFinishedKeeps, DialogKeeps, ResolveKeeps DEF Window
<1>2. CASE Timer
  BY <1>2, DialogKeeps DEF Timer
<1>3. CASE Shell
  BY <1>3, TakesKeeps, EndsKeep, PreparesKeeps, AsksKeeps, TakesReplyKeeps, StartsKeeps,
     PerformsKeeps DEF Shell
<1>4. CASE UNCHANGED vars
  <2>1. QueueOK' /\ ShellOK'
    BY <1>4 DEF vars, queueVars, sharedVars, shellVars, TransfersInv, QueueOK, ShellOK
  <2>2. InOrder' /\ WaitsAtPosition' /\ DialogIsCurrent'
    BY <1>4 DEF vars, queueVars, sharedVars, shellVars, TransfersInv, InOrder,
       WaitsAtPosition, Waiting, DialogIsCurrent
  <2>3. RepliesAreTheUsers' /\ DecisionsAreTheUsers' /\ UnfinishedIsListed'
    BY <1>4 DEF vars, queueVars, sharedVars, shellVars, TransfersInv, RepliesAreTheUsers,
       Waiting, DecisionsAreTheUsers, UnfinishedIsListed, IsUnfinished, Listed
  <2> QED
    BY <2>1, <2>2, <2>3 DEF TransfersInv
<1> QED
  BY <1>1, <1>2, <1>3, <1>4 DEF Next

\* The invariant of the queue, the Shell thread and the dialog.
THEOREM TransfersInvariant == Spec => []TransfersInv
<1> QED
  BY TransfersStart, TransfersStep, PTL DEF Spec

\* What happens to a file that exists already is what the user decided for it,
\* whatever is cancelled, queued or shown meanwhile.
THEOREM TransfersAreDecided == Spec => []DecisionsAreTheUsers
<1>1. TransfersInv => DecisionsAreTheUsers
  BY DEF TransfersInv
<1> QED
  BY <1>1, TransfersInvariant, PTL

\* No unfinished transfer is evicted or cleared from the list.
THEOREM TransfersStayListed == Spec => []UnfinishedIsListed
<1>1. TransfersInv => UnfinishedIsListed
  BY DEF TransfersInv
<1> QED
  BY <1>1, TransfersInvariant, PTL

------------------------------------------------------------------------------
\* The bound of the list.

\* If nothing is lost, every position is kept.
LEMMA RetainedAll ==
  ASSUME NEW S, NEW s \in Seq(S), NEW kept \in SUBSET (DOMAIN s),
         Len(Retain(s, kept)) >= Len(s)
  PROVE  kept = DOMAIN s
<1> DEFINE n == Len(s)
           r == Retain(s, kept)
<1>1. n \in Nat /\ DOMAIN s = 1..n /\ kept \subseteq 1..n
  OBVIOUS
<1>2. r \in Seq(S) /\ Len(r) <= n /\ \E place : IsKeptAt(r, s, kept, place)
  BY <1>1, RetainProperties, RetainedElements
<1> HIDE DEF r, n
<1>3. Len(r) = n
  BY <1>1, <1>2 DEF r, n
<1>4. PICK place : IsKeptAt(r, s, kept, place)
  BY <1>2
<1>5. /\ place \in [1..n -> 1..n] /\ \A i \in 1..n : place[i] \in kept
      /\ \A i, j \in 1..n : i < j => place[i] < place[j]
  BY <1>1, <1>3, <1>4 DEF IsKeptAt
<1>6. \A i, j \in 1..n : place[i] = place[j] => i = j
  BY <1>1, <1>5
<1>7. place \in Injection(1..n, 1..n)
  BY <1>5, <1>6 DEF Injection, IsInjective
<1>8. IsFiniteSet(1..n)
  BY <1>1, FS_Interval
<1>9. place \in Surjection(1..n, 1..n)
  BY <1>7, <1>8, FS_Injection
<1>10. 1..n \subseteq kept
  BY <1>5, <1>9 DEF Surjection
<1> QED
  BY <1>1, <1>10

\* If no transfer leaves a list that is full, none in it is finished: the first
\* finished one is always among those that leave.
LEMMA FullListIsUnfinished ==
  ASSUME TransfersInv, Len(entries) >= Keep, Len(Evicts(entries)) >= Len(entries)
  PROVE  \A i \in DOMAIN entries : IsUnfinished(entries[i])
<1> USE TransfersAssumption
<1> DEFINE n == Len(entries)
           excess == n - Keep + 1
           finishedUpTo(i) == {j \in 1..i : ~IsUnfinished(entries[j])}
           kept == {i \in DOMAIN entries :
                      IsUnfinished(entries[i]) \/ Cardinality(finishedUpTo(i)) > excess}
           Finished == {i \in 1..n : ~IsUnfinished(entries[i])}
<1>1. entries \in Seq(Id) /\ n \in Nat /\ DOMAIN entries = 1..n /\ excess \in Nat /\ excess >= 1
  BY DEF TransfersInv, QueueOK
<1>2. Evicts(entries) = Retain(entries, kept) /\ kept \in SUBSET (DOMAIN entries)
  BY DEF Evicts
<1>3. kept = DOMAIN entries
  <2> HIDE DEF kept
  <2> QED
    BY <1>1, <1>2, RetainedAll
<1>4. ASSUME Finished # {} PROVE FALSE
  <2>1. PICK i \in Finished : \A j \in Finished : i <= j
    <3>1. Finished \in SUBSET Nat
      BY <1>1
    <3> QED
      BY <1>4, <3>1, LeastNatural
  <2>2. i \in 1..n /\ ~IsUnfinished(entries[i]) /\ i \in Nat
    BY <2>1
  <2>3. finishedUpTo(i) = {i}
    <3>1. \A j \in finishedUpTo(i) : j \in Finished /\ j <= i
      BY <1>1, <2>2
    <3>2. \A j \in finishedUpTo(i) : j = i
      BY <2>1, <2>2, <3>1
    <3> QED
      BY <2>2, <3>2
  <2>4. Cardinality(finishedUpTo(i)) = 1
    BY <2>3, FS_Singleton
  <2>5. Cardinality(finishedUpTo(i)) > excess
    BY <1>1, <1>3, <2>2
  <2> QED
    BY <1>1, <2>4, <2>5
<1> QED
  BY <1>1, <1>4

\* A list without repetitions is no longer than the set of what it holds.
LEMMA ListFits ==
  ASSUME NEW S, IsFiniteSet(S), NEW n \in Nat, NEW f \in [1..n -> S],
         \A i, j \in 1..n : i < j => f[i] # f[j]
  PROVE  n <= Cardinality(S) /\ Cardinality(S) \in Nat
<1>1. \A i, j \in 1..n : f[i] = f[j] => i = j
  OBVIOUS
<1>2. f \in Injection(1..n, S)
  BY <1>1 DEF Injection, IsInjective
<1>3. Cardinality(1..n) <= Cardinality(S)
  BY <1>2, FS_Injection
<1>4. Cardinality(1..n) = n
  BY FS_Interval
<1> QED
  BY <1>3, <1>4, FS_CardinalityType

LEMMA EnqueueIsBounded ==
  ASSUME TransfersInv, Enqueue, Len(entries') > Keep, Len(entries') > Len(entries)
  PROVE  \A t \in Listed' : IsUnfinished(t)' /\ Len(entries') <= MaxUnfinished
<1> USE TransfersAssumption
<1> DEFINE list == Evicts(entries)
           t == next + 1
           Current == Unfinished \cap Listed
<1>1. /\ next < MaxTransfers /\ entries' = Append(list, t)
      /\ status' = [status EXCEPT ![t] = "queued"] /\ Cardinality(Current) < MaxUnfinished
  BY DEF Enqueue
<1>2. /\ next \in Nat /\ t \in Id /\ status \in [Id -> Status] /\ entries \in Seq(Id)
      /\ Len(entries) \in Nat /\ DOMAIN entries = 1..Len(entries)
  BY <1>1 DEF TransfersInv, QueueOK, Id
<1>3. /\ list \in Seq(Id) /\ Len(list) \in Nat /\ DOMAIN list = 1..Len(list)
      /\ \A i \in DOMAIN list : list[i] \in 1..next
      /\ \A i, j \in DOMAIN list : i < j => list[i] < list[j]
  BY EvictsKeeps
<1>4. /\ \A i \in DOMAIN list : \E k \in DOMAIN entries : list[i] = entries[k]
      /\ Len(list) <= Len(entries)
  <2> DEFINE kept == {i \in DOMAIN entries :
                        \/ IsUnfinished(entries[i])
                        \/ Cardinality({j \in 1..i : ~IsUnfinished(entries[j])})
                              > Len(entries) - Keep + 1}
  <2>1. list = Retain(entries, kept) /\ kept \in SUBSET (DOMAIN entries)
    BY DEF Evicts
  <2> HIDE DEF kept, list
  <2>2. \A i \in DOMAIN list : \E k \in kept : list[i] = entries[k]
    BY <1>2, <2>1, RetainedElements
  <2>3. Len(list) <= Len(entries)
    BY <1>2, <2>1, RetainedElements
  <2> QED
    BY <2>1, <2>2, <2>3
<1> HIDE DEF list
<1>5. /\ Len(entries') = Len(list) + 1
      /\ \A i \in DOMAIN entries' : i \in DOMAIN list \/ i = Len(list) + 1
      /\ \A i \in DOMAIN list : entries'[i] = list[i]
      /\ entries'[Len(list) + 1] = t
  BY <1>1, <1>2, <1>3, AppendProperties
<1>6. Len(list) >= Len(entries) /\ Len(list) >= Keep
  BY <1>2, <1>3, <1>5
<1>7. \A i \in DOMAIN entries : IsUnfinished(entries[i])
  BY <1>2, <1>3, <1>4, <1>6, FullListIsUnfinished DEF list
<1>8. \A i \in DOMAIN list : list[i] \in Current
  BY <1>2, <1>4, <1>7 DEF Unfinished, Listed
<1>9. Len(list) <= Cardinality(Current) /\ Cardinality(Current) \in Nat
  <2>1. list \in [1..Len(list) -> Current]
    BY <1>3, <1>8
  <2>2. \A i, j \in 1..Len(list) : i < j => list[i] # list[j]
    <3> TAKE i, j \in 1..Len(list)
    <3> HAVE i < j
    <3>1. list[i] < list[j] /\ list[i] \in 1..next /\ list[j] \in 1..next
      BY <1>3
    <3> QED
      BY <3>1
  <2>3. IsFiniteSet(Id)
    BY FS_Interval DEF Id
  <2>4. IsFiniteSet(Current)
    BY <2>3, FS_Subset DEF Unfinished
  <2> HIDE DEF Current
  <2> QED
    BY <1>3, <2>1, <2>2, <2>4, ListFits
<1>10. Len(entries') <= MaxUnfinished
  BY <1>1, <1>3, <1>5, <1>9
<1>11. \A u \in Listed' : IsUnfinished(u)'
  <2> SUFFICES ASSUME NEW i \in DOMAIN entries' PROVE status'[entries'[i]] \notin {"none", "finished"}
    BY DEF Listed, IsUnfinished
  <2>1. CASE i \in DOMAIN list
    <3>1. list[i] \in Id /\ list[i] \in 1..next /\ IsUnfinished(list[i])
      BY <1>3, <1>8, <2>1 DEF Unfinished
    <3>2. list[i] # t
      BY <1>2, <3>1
    <3>3. status'[list[i]] = status[list[i]]
      BY <1>1, <1>2, <3>1, <3>2
    <3> QED
      BY <1>5, <2>1, <3>1, <3>3 DEF IsUnfinished
  <2>2. CASE i = Len(list) + 1
    BY <1>1, <1>2, <1>5, <2>2
  <2> QED
    BY <1>5, <2>1, <2>2
<1> QED
  BY <1>10, <1>11

\* The list of transfers is no longer than Keep, or does not grow, or all in it
\* are unfinished and within the number that is accepted.
THEOREM TransfersListIsBounded == Spec => ListIsBounded
<1> DEFINE Grows == Len(entries') > Keep /\ entries' # entries
           Bounded == \/ Len(entries') <= Len(entries)
                      \/ \A t \in Listed' : IsUnfinished(t)' /\ Len(entries') <= MaxUnfinished
<1>1. TransfersInv /\ TransfersInv' /\ [Next]_vars => [Grows => Bounded]_vars
  <2> SUFFICES ASSUME TransfersInv, TransfersInv', Next, Grows PROVE Bounded
    BY DEF vars, queueVars
  <2>1. Len(entries) \in Nat /\ Len(entries') \in Nat
    BY DEF TransfersInv, QueueOK
  <2>2. CASE Enqueue
    BY <2>1, <2>2, EnqueueIsBounded
  <2>3. CASE ClearFinished
    <3> DEFINE kept == {i \in DOMAIN entries : IsUnfinished(entries[i])}
    <3>1. entries' = Retain(entries, kept) /\ kept \in SUBSET (DOMAIN entries) /\ entries \in Seq(Id)
      BY <2>3 DEF ClearFinished, TransfersInv, QueueOK
    <3> HIDE DEF kept
    <3>2. Len(entries') <= Len(entries)
      BY <3>1, RetainedElements
    <3> QED
      BY <3>2
  <2>4. Enqueue \/ ClearFinished \/ entries' = entries
    <3>1. CASE Window
      BY <3>1 DEF Window, Cancel, ToggleAll, Resolve, queueVars
    <3>2. CASE Timer
      BY <3>2 DEF Timer, TimerShows, TimerHides, queueVars
    <3>3. CASE Shell
      <4>1. ShellFrame
        BY <3>3 DEF Shell, Takes, PreparesCancelled, PreparesFreely, PreparesAsBefore, Asks,
           WaitIsCancelled, TakesReply, Starts, Performs, Completes, Finishes
      <4> QED
        BY <4>1 DEF ShellFrame
    <3> QED
      BY <3>1, <3>2, <3>3 DEF Next
  <2> QED
    BY <2>2, <2>3, <2>4
<1> QED
  BY <1>1, TransfersInvariant, PTL DEF Spec, ListIsBounded
==============================================================================
