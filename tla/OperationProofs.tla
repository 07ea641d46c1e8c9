---------------------------- MODULE OperationProofs ----------------------------
(***************************************************************************)
(* Proofs about file operations and what can be taken back.                *)
(*                                                                         *)
(* For every set of files and paths, every limit of the history and any    *)
(* number of operations: no file is lost but by a replacement that the     *)
(* user approved, an item is put back at most once, and what can be undone *)
(* stays so until it is undone or evicted.                                 *)
(*                                                                         *)
(* A batch whose files have different names replaces nothing without a     *)
(* question but what the user let be replaced, for every number of files,  *)
(* every set of names and whatever KeepBoth tries.                         *)
(***************************************************************************)
EXTENDS UndoHistory, Collisions, RetainProofs

------------------------------------------------------------------------------
\* The history of operations that Undo reverses.

Command == [do: {"rename"}, from: Path, to: Path] \cup [do: {"undo"}, id: Nat]

Recording == [step: {"record"}, file: File, from: Path, to: Path]

\* An entry that has its number and is not in the history yet.
Relocation == {e \in Entry : e.kind = "relocate" /\ Len(e.items) = 1}

Pushing == [step: {"push"}, entry: Relocation]

Undoing == [step: {"undo"}, id: Nat, kind: Kind, items: Seq(Item), checked: BOOLEAN]

Preparing == [kind: {"prepare"}, from: Path, to: Path]

Moving == [kind: {"move"}, from: Path, to: Path, replace: BOOLEAN]

MoveRecording == [kind: {"record"}, file: File, from: Path, to: Path]

MovePushing == [kind: {"push"}, entry: Relocation]

Deleting == [kind: {"delete"}, todo: Seq(Path), captured: Seq(Item)]

ShellWork ==
  {NoOperation} \cup Preparing \cup Moving \cup MoveRecording \cup MovePushing \cup Deleting

\* The files are at places, of which a path holds one at most.
DiskOK ==
  /\ at \in [File -> Place] /\ version \in [File -> Nat] /\ deleted \in SUBSET File
  /\ \A f, g \in File : at[f] = at[g] /\ at[f] \in Path => f = g

\* The threads hold commands and operations of these shapes.
ThreadsOK ==
  /\ commands \in Seq(Command)
  /\ worker \in {Idle} \cup Recording \cup Pushing \cup Undoing
  /\ shell \in ShellWork
  /\ applying \in BOOLEAN /\ (applying <=> worker.step = "undo")

\* No number is given twice, and a relocation has one item.
HistoryOK ==
  /\ entries \in Seq(Entry) /\ Len(entries) <= MaxEntries /\ next \in Nat
  /\ \A i \in DOMAIN entries : entries[i].id \in 1..next
  /\ \A i, j \in DOMAIN entries : entries[i].id = entries[j].id => i = j
  /\ \A i \in DOMAIN entries :
       entries[i].kind = "relocate" => Len(entries[i].items) = 1

\* What was numbered was numbered by the counter.
NumbersOK ==
  /\ reviewed \in 0..next
  /\ \A u \in undone : u.id \in 1..next
  /\ worker.step = "undo" => worker.id \in 1..next

\* The numbers of entries that are or have been in the history, as far as the
\* worker and what it has put back name them.
UsedNumbers ==
  {e.id : e \in InHistory} \cup {u.id : u \in undone}
    \cup (IF worker.step = "undo" THEN {worker.id} ELSE {})

\* An entry that a thread is about to push has a number of its own, whatever
\* the other thread has pushed since.
HeldOK ==
  /\ worker.step = "push" => worker.entry.id \in 1..next \ UsedNumbers
  /\ shell.kind = "push" => shell.entry.id \in 1..next \ UsedNumbers
  /\ worker.step = "push" /\ shell.kind = "push" => worker.entry.id # shell.entry.id

\* The copy that the worker works on: it is of the kind of its entry, one
\* item for a relocation, and what the entry still holds is in it or has been
\* put back.
CopyOK ==
  worker.step = "undo" =>
    /\ worker.kind = "relocate" => Len(worker.items) <= 1
    /\ worker.checked => worker.kind = "recycle"
    /\ \A e \in InHistory : e.id = worker.id =>
         /\ e.kind = worker.kind
         /\ \A item \in ItemsOf(e) :
              \/ \E k \in DOMAIN worker.items : worker.items[k].file = item.file
              \/ \E u \in undone : u.id = e.id /\ u.file = item.file

\* What has been put back is pending only in the entry that the worker is
\* about to remove.
PutBackOnce ==
  \A e \in InHistory : \A item \in ItemsOf(e) : \A u \in undone :
    u.id = e.id /\ u.file = item.file =>
      worker.step = "undo" /\ worker.id = e.id /\ worker.items = <<>>

UndoInv ==
  /\ DiskOK /\ ThreadsOK /\ HistoryOK /\ NumbersOK /\ HeldOK /\ CopyOK /\ PutBackOnce
  /\ NoFileIsLost

------------------------------------------------------------------------------
\* The history.

\* A pushed entry is the newest; all others stay but the oldest one, when the
\* history is full.
LEMMA PushKeeps ==
  ASSUME HistoryOK, NEW new \in Entry, new.kind = "relocate" => Len(new.items) = 1,
         next' \in {next, next + 1}, new.id \in 1..next', \A e \in InHistory : e.id # new.id,
         entries' = Pushed(new)
  PROVE  /\ HistoryOK' /\ new \in InHistory'
         /\ \A e \in InHistory' : e \in InHistory \/ e = new
         /\ \A i \in DOMAIN entries :
              entries[i] \in InHistory' \/ (i = 1 /\ Len(entries) = MaxEntries)
<1> DEFINE n == Len(entries)
           longer == Append(entries, new)
<1>1. /\ entries \in Seq(Entry) /\ n \in Nat /\ n <= MaxEntries /\ next \in Nat /\ next' \in Nat
      /\ MaxEntries \in Nat \ {0} /\ n = Len(entries) /\ DOMAIN entries = 1..n
  BY UndoHistoryAssumption DEF HistoryOK
<1>3. entries' = IF Len(longer) > MaxEntries THEN Tail(longer) ELSE longer
  BY DEF Pushed
<1> HIDE DEF n
<1>4. /\ longer \in Seq(Entry) /\ Len(longer) = n + 1 /\ longer # <<>>
      /\ \A i \in 1..n : longer[i] = entries[i]
      /\ longer[n + 1] = new
  BY <1>1, AppendProperties
<1> HIDE DEF longer
<1>5. /\ \A i \in 1..n + 1 : longer[i].id \in 1..next'
      /\ \A i, j \in 1..n + 1 : longer[i].id = longer[j].id => i = j
      /\ \A i \in 1..n + 1 : longer[i].kind = "relocate" => Len(longer[i].items) = 1
  <2>1. \A i \in 1..n : longer[i].id \in 1..next /\ longer[i].id # new.id
    BY <1>1, <1>4 DEF HistoryOK, InHistory
  <2>2. \A i, j \in 1..n : longer[i].id = longer[j].id => i = j
    BY <1>1, <1>4 DEF HistoryOK
  <2>3. \A i \in 1..n + 1 : i \in 1..n \/ i = n + 1
    BY <1>1
  <2>4. longer[n + 1].id = new.id
    BY <1>4
  <2>5. \A i, j \in 1..n + 1 : longer[i].id = longer[j].id => i = j
    BY <2>1, <2>2, <2>3, <2>4
  <2>6. \A i \in 1..n + 1 : longer[i].id \in 1..next'
    <3>1. 1..next \subseteq 1..next'
      BY <1>1
    <3> QED
      BY <2>1, <2>3, <2>4, <3>1
  <2>7. \A i \in 1..n : longer[i].kind = "relocate" => Len(longer[i].items) = 1
    BY <1>1, <1>4 DEF HistoryOK
  <2>8. longer[n + 1].kind = "relocate" => Len(longer[n + 1].items) = 1
    BY <1>4
  <2> QED
    BY <2>3, <2>5, <2>6, <2>7, <2>8
<1>6. CASE n + 1 > MaxEntries
  <2>1. n = MaxEntries /\ entries' = Tail(longer)
    BY <1>1, <1>3, <1>4, <1>6
  <2>2. /\ entries' \in Seq(Entry) /\ Len(entries') = n
        /\ \A i \in 1..n : entries'[i] = longer[i + 1] /\ i + 1 \in 1..n + 1
    BY <1>1, <1>4, <2>1, HeadTailProperties
  <2>3. DOMAIN entries' = 1..n
    BY <2>2
  <2>4. HistoryOK'
    <3>1. \A i \in 1..n : entries'[i].id \in 1..next'
      BY <1>5, <2>2
    <3>2. \A i, j \in 1..n : entries'[i].id = entries'[j].id => i = j
      <4>1. \A i, j \in 1..n : entries'[i].id = entries'[j].id => i + 1 = j + 1
        BY <1>5, <2>2
      <4> QED
        BY <1>1, <4>1
    <3>3. \A i \in 1..n : entries'[i].kind = "relocate" => Len(entries'[i].items) = 1
      BY <1>5, <2>2
    <3>4. entries' \in Seq(Entry) /\ Len(entries') <= MaxEntries /\ next' \in Nat
      BY <1>1, <2>2
    <3> QED
      BY <2>3, <3>1, <3>2, <3>3, <3>4 DEF HistoryOK
  <2>5. \A i \in 1..n : entries'[i] \in InHistory \/ entries'[i] = new
    <3>1. \A i \in 1..n : longer[i] \in InHistory
      BY <1>1, <1>4 DEF InHistory
    <3>2. \A i \in 1..n : i + 1 \in 1..n \/ i + 1 = n + 1
      BY <1>1
    <3> QED
      BY <1>4, <2>2, <3>1, <3>2
  <2>6. \A i \in 1..n : i # 1 => entries[i] = entries'[i - 1] /\ i - 1 \in 1..n
    <3> SUFFICES ASSUME NEW i \in 1..n, i # 1
                 PROVE  entries[i] = entries'[i - 1] /\ i - 1 \in 1..n
      OBVIOUS
    <3>1. i - 1 \in 1..n /\ (i - 1) + 1 = i
      BY <1>1
    <3>2. entries'[i - 1] = longer[(i - 1) + 1]
      BY <2>2, <3>1
    <3> QED
      BY <1>4, <3>1, <3>2
  <2>7. entries'[n] = new /\ n \in 1..n
    <3>1. n \in 1..n
      BY <1>1, <2>1
    <3> QED
      BY <1>4, <2>2, <3>1
  <2>8. new \in InHistory'
    BY <2>3, <2>7 DEF InHistory
  <2>9. \A e \in InHistory' : e \in InHistory \/ e = new
    BY <2>3, <2>5 DEF InHistory
  <2>10. \A i \in 1..n : entries[i] \in InHistory' \/ (i = 1 /\ n = MaxEntries)
    BY <2>1, <2>3, <2>6 DEF InHistory
  <2> QED
    BY <1>1, <2>4, <2>8, <2>9, <2>10
<1>7. CASE ~(n + 1 > MaxEntries)
  <2>1. entries' = longer /\ n + 1 <= MaxEntries
    BY <1>1, <1>3, <1>4, <1>7
  <2>2. DOMAIN entries' = 1..n + 1
    BY <1>4, <2>1
  <2>3. HistoryOK'
    BY <1>1, <1>3, <1>4, <1>5, <2>1, <2>2 DEF HistoryOK
  <2>4. \A i \in 1..n + 1 : i \in 1..n \/ i = n + 1
    BY <1>1
  <2>5. n + 1 \in 1..n + 1
    BY <1>1
  <2> QED
    BY <1>1, <1>4, <2>1, <2>2, <2>3, <2>4, <2>5 DEF InHistory
<1> QED
  BY <1>6, <1>7

\* Removing an entry leaves the others.
LEMMA WithoutKeeps ==
  ASSUME HistoryOK, NEW id, entries' = Without(id), next' = next
  PROVE  HistoryOK' /\ InHistory' = {e \in InHistory : e.id # id}
<1> DEFINE kept == {i \in DOMAIN entries : entries[i].id # id}
<1>1. entries \in Seq(Entry) /\ Len(entries) <= MaxEntries /\ next \in Nat /\ MaxEntries \in Nat
  BY UndoHistoryAssumption DEF HistoryOK
<1>2. entries' = Retain(entries, kept) /\ kept \in SUBSET (DOMAIN entries)
  BY DEF Without
<1>3. /\ entries' \in Seq(Entry) /\ Len(entries') <= Len(entries)
      /\ \A i \in DOMAIN entries' : \E k \in kept : entries'[i] = entries[k]
      /\ \A k \in kept : \E i \in DOMAIN entries' : entries'[i] = entries[k]
      /\ \A i, j \in DOMAIN entries' : i < j =>
           \E k, l \in kept : k < l /\ entries'[i] = entries[k] /\ entries'[j] = entries[l]
  <2> HIDE DEF kept
  <2> QED
    BY <1>1, <1>2, RetainedElements
<1>4. Len(entries') <= MaxEntries
  BY <1>1, <1>3
<1>5. HistoryOK'
  <2>1. \A i \in DOMAIN entries' : entries'[i].id \in 1..next'
    BY <1>3 DEF HistoryOK
  <2>2. \A i, j \in DOMAIN entries' : entries'[i].id = entries'[j].id => i = j
    <3>1. ASSUME NEW i \in DOMAIN entries', NEW j \in DOMAIN entries', i < j
          PROVE  entries'[i].id # entries'[j].id
      <4>1. PICK k, l \in kept : k < l /\ entries'[i] = entries[k] /\ entries'[j] = entries[l]
        BY <1>3, <3>1
      <4> QED
        BY <1>1, <4>1 DEF HistoryOK
    <3>2. \A i, j \in DOMAIN entries' : i < j \/ j < i \/ i = j
      BY <1>3
    <3> QED
      BY <3>1, <3>2
  <2>3. \A i \in DOMAIN entries' :
          entries'[i].kind = "relocate" => Len(entries'[i].items) = 1
    BY <1>3 DEF HistoryOK
  <2> QED
    BY <1>1, <1>3, <1>4, <2>1, <2>2, <2>3 DEF HistoryOK
<1>6. InHistory' = {e \in InHistory : e.id # id}
  BY <1>3 DEF InHistory
<1> QED
  BY <1>5, <1>6

\* What remains pending after an item has been put back.
LEMMA PendingKeeps ==
  ASSUME NEW e \in Entry, NEW item \in Item
  PROVE  /\ Pending(e, item) \in Entry
         /\ Pending(e, item).id = e.id /\ Pending(e, item).kind = e.kind
         /\ ItemsOf(Pending(e, item)) = {i \in ItemsOf(e) : i.file # item.file}
<1> DEFINE kept == {i \in DOMAIN e.items : e.items[i].file # item.file}
           left == Retain(e.items, kept)
<1>1. e.items \in Seq(Item) /\ kept \in SUBSET (DOMAIN e.items)
  BY DEF Entry
<1>2. /\ left \in Seq(Item)
      /\ \A i \in DOMAIN left : \E k \in kept : left[i] = e.items[k]
      /\ \A k \in kept : \E i \in DOMAIN left : left[i] = e.items[k]
  <2> HIDE DEF kept
  <2> QED
    BY <1>1, RetainedElements
<1>3. Pending(e, item) = [e EXCEPT !.items = left]
  BY DEF Pending
<1> HIDE DEF left
<1>4. /\ Pending(e, item) \in Entry /\ Pending(e, item).id = e.id
      /\ Pending(e, item).kind = e.kind /\ Pending(e, item).items = left
  BY <1>2, <1>3 DEF Entry
<1>5. {left[i] : i \in DOMAIN left} = {i \in ItemsOf(e) : i.file # item.file}
  BY <1>2 DEF ItemsOf
<1> QED
  BY <1>4, <1>5 DEF ItemsOf

------------------------------------------------------------------------------
\* The steps.

\* A thread that is at work holds what its work needs.
LEMMA ThreadShapes ==
  ASSUME ThreadsOK
  PROVE  /\ worker.step = "record" => worker \in Recording
         /\ worker.step = "push" => worker \in Pushing
         /\ worker.step = "undo" => worker \in Undoing
         /\ shell.kind = "prepare" => shell \in Preparing
         /\ shell.kind = "move" => shell \in Moving
         /\ shell.kind = "record" => shell \in MoveRecording
         /\ shell.kind = "push" => shell \in MovePushing
         /\ shell.kind = "delete" => shell \in Deleting
         /\ Idle.step = "idle" /\ NoOperation.kind = "none"
  BY DEF ThreadsOK, ShellWork, Idle, NoOperation, Recording, Pushing, Undoing, Preparing, Moving,
         MoveRecording, MovePushing, Deleting

LEMMA UndoInit == Init => UndoInv
<1> SUFFICES ASSUME Init PROVE UndoInv
  OBVIOUS
<1>1. DiskOK /\ NoFileIsLost
  BY UndoHistoryAssumption DEF Init, DiskOK, NoFileIsLost, Place
<1>2. ThreadsOK
  <2>1. commands \in Seq(Command) /\ worker.step # "undo" /\ applying = FALSE
    BY DEF Init, Idle
  <2>2. (applying <=> worker.step = "undo") /\ applying \in BOOLEAN
    BY <2>1, Zenon
  <2> QED
    BY <2>1, <2>2 DEF Init, ThreadsOK, ShellWork
<1>3. entries = <<>> /\ next = 0 /\ entries \in Seq(Entry) /\ Len(entries) = 0 /\ DOMAIN entries = {}
  BY DEF Init
<1>4. HistoryOK
  BY <1>3, UndoHistoryAssumption DEF HistoryOK
<1>5. NumbersOK /\ HeldOK /\ CopyOK /\ PutBackOnce
  BY <1>3 DEF Init, NumbersOK, HeldOK, CopyOK, PutBackOnce, InHistory, Idle, NoOperation
<1> QED
  BY <1>1, <1>2, <1>4, <1>5 DEF UndoInv

\* What a thread is about to push keeps its number, if at most one other
\* number comes into use.
LEMMA HeldStays ==
  ASSUME UndoInv, next' \in {next, next + 1}, NEW id, UsedNumbers' \subseteq UsedNumbers \cup {id},
         worker'.step = "push" => worker' = worker /\ worker.entry.id # id,
         shell'.kind = "push" => shell' = shell /\ shell.entry.id # id
  PROVE  HeldOK'
<1>1. next \in Nat /\ 1..next \subseteq 1..next'
  BY DEF UndoInv, HistoryOK
<1> HIDE DEF UsedNumbers
<1> QED
  BY <1>1 DEF UndoInv, HeldOK

\* A step that uses no new number.
LEMMA HeldUnused ==
  ASSUME UndoInv, next' = next, UsedNumbers' \subseteq UsedNumbers,
         worker'.step = "push" => worker' = worker, shell'.kind = "push" => shell' = shell
  PROVE  HeldOK'
<1>1. next \in Nat /\ next + 1 \notin 1..next
  BY DEF UndoInv, HistoryOK
<1>2. /\ worker.step = "push" => worker.entry.id # next + 1
      /\ shell.kind = "push" => shell.entry.id # next + 1
  BY <1>1 DEF UndoInv, HeldOK
<1> QED
  BY <1>2, HeldStays

\* The counter is ahead of every number.
LEMMA NumbersAreOld ==
  ASSUME UndoInv
  PROVE  UsedNumbers \subseteq 1..next /\ next \in Nat /\ next + 1 \notin UsedNumbers
<1>1. \A e \in InHistory : e.id \in 1..next
  BY DEF UndoInv, HistoryOK, InHistory
<1>2. next \in Nat /\ next + 1 \notin 1..next
  BY DEF UndoInv, HistoryOK
<1>3. UsedNumbers \subseteq 1..next
  BY <1>1 DEF UndoInv, NumbersOK, UsedNumbers
<1> QED
  BY <1>2, <1>3

\* What the user does leaves the files, the history and the worker alone.
LEMMA UserFrameKeeps ==
  ASSUME UndoInv, UserFrame
  PROVE  /\ DiskOK' /\ NoFileIsLost' /\ HistoryOK' /\ CopyOK' /\ PutBackOnce'
         /\ next' = next /\ undone' = undone /\ worker' = worker /\ applying' = applying
         /\ UsedNumbers' = UsedNumbers
  BY DEF UndoInv, UserFrame, diskVars, historyVars, DiskOK, NoFileIsLost, HistoryOK, CopyOK,
         PutBackOnce, InHistory, ItemsOf, UsedNumbers

LEMMA UserKeeps ==
  ASSUME UndoInv, User
  PROVE  UndoInv'
<1>1. /\ HistoryOK /\ next \in Nat /\ reviewed \in 0..next /\ commands \in Seq(Command)
      /\ shell \in ShellWork /\ ThreadsOK /\ NumbersOK
  BY DEF UndoInv, HistoryOK, NumbersOK, ThreadsOK
<1>2. ASSUME UserFrame, commands' \in Seq(Command),
             shell' \in ShellWork, shell'.kind = "push" => shell' = shell, reviewed' \in 0..next
      PROVE  UndoInv'
  <2>1. ThreadsOK' /\ NumbersOK'
    BY <1>1, <1>2, UserFrameKeeps DEF ThreadsOK, NumbersOK
  <2>2. HeldOK'
    BY <1>2, UserFrameKeeps, HeldUnused
  <2> QED
    BY <1>2, <2>1, <2>2, UserFrameKeeps DEF UndoInv
<1>3. ASSUME NEW id \in Nat, DispatchUndo(id)
      PROVE  commands' \in Seq(Command)
  <2>1. [do |-> "undo", id |-> id] \in Command
    BY DEF Command
  <2> QED
    BY <1>1, <1>3, <2>1 DEF DispatchUndo, Send
<1>4. ASSUME NEW p \in Path, NEW q \in Path, UserRenames(p, q)
      PROVE  UndoInv'
  <2>1. [do |-> "rename", from |-> p, to |-> q] \in Command
    BY DEF Command
  <2>2. commands' \in Seq(Command) /\ shell' = shell /\ reviewed' = reviewed /\ UserFrame
    BY <1>1, <1>4, <2>1 DEF UserRenames, Send
  <2> QED
    BY <1>1, <1>2, <2>2
<1>5. ASSUME NEW p \in Path, NEW q \in Path, UserMoves(p, q)
      PROVE  UndoInv'
  <2>1. /\ shell' \in ShellWork /\ shell'.kind # "push"
        /\ commands' = commands /\ reviewed' = reviewed /\ UserFrame
    BY <1>5 DEF UserMoves, Preparing, ShellWork
  <2> QED
    BY <1>1, <1>2, <2>1
<1>6. ASSUME NEW todo \in Seq(Path), UserDeletes(todo)
      PROVE  UndoInv'
  <2>1. /\ shell' \in ShellWork /\ shell'.kind # "push"
        /\ commands' = commands /\ reviewed' = reviewed /\ UserFrame
    BY <1>6 DEF UserDeletes, Deleting, ShellWork
  <2> QED
    BY <1>1, <1>2, <2>1
<1>7. CASE UserAsksUndo
  <2>1. entries # <<>> /\ UserFrame /\ shell' = shell
    BY <1>7 DEF UserAsksUndo
  <2>2. Len(entries) \in DOMAIN entries
    BY <1>1, <2>1 DEF HistoryOK
  <2>3. entries[Len(entries)].id \in 1..next
    BY <1>1, <2>2 DEF HistoryOK
  <2> DEFINE id == entries[Len(entries)].id
  <2>4. id \in Nat /\ id \in 0..next
    BY <1>1, <2>3
  <2>5. \/ DispatchUndo(id) /\ reviewed' = reviewed
        \/ reviewed' = id /\ commands' = commands
    BY <1>7 DEF UserAsksUndo
  <2> HIDE DEF id
  <2> QED
    BY <1>1, <1>2, <1>3, <2>1, <2>4, <2>5
<1>8. CASE UserConfirms
  <2>1. DispatchUndo(reviewed) /\ reviewed' = 0 /\ UserFrame /\ shell' = shell /\ reviewed \in Nat
    BY <1>1, <1>8 DEF UserConfirms
  <2>2. 0 \in 0..next
    BY <1>1
  <2> QED
    BY <1>1, <1>2, <1>3, <2>1, <2>2
<1>9. \A p, q \in Path : (IF p = q THEN <<p>> ELSE <<p, q>>) \in Seq(Path)
  OBVIOUS
<1> QED
  BY <1>4, <1>5, <1>6, <1>7, <1>8, <1>9 DEF User

\* The entry of the file that is found at the new path.
LEMMA MovedEntryShape ==
  ASSUME UndoInv, NEW m, m.file \in File, m.from \in Path, m.to \in Path, NEW g \in At(m.to)
  PROVE  MovedEntry(g, m) \in Relocation /\ MovedEntry(g, m).id = next + 1
<1> DEFINE item == [file |-> g, version |-> version[g], original |-> m.from, current |-> m.to,
                    moved |-> m.file]
           e == [id |-> next + 1, kind |-> "relocate", items |-> <<item>>]
<1>1. g \in File /\ version[g] \in Nat /\ next + 1 \in Nat
  BY DEF At, UndoInv, DiskOK, HistoryOK
<1>2. item \in Item
  BY <1>1 DEF Item
<1>3. MovedEntry(g, m) = e
  BY DEF MovedEntry
<1> HIDE DEF item
<1>4. <<item>> \in Seq(Item) /\ Len(<<item>>) = 1 /\ "relocate" \in Kind
  BY <1>2 DEF Kind
<1>5. e \in Entry /\ e.id = next + 1 /\ e.kind = "relocate" /\ Len(e.items) = 1
  BY <1>1, <1>4 DEF Entry
<1> HIDE DEF e
<1> QED
  BY <1>3, <1>5 DEF Relocation

\* A step that pushes, or leaves the history, keeps what relates it to the
\* worker: a new entry has a number that was not used.
LEMMA NewEntryKeeps ==
  ASSUME UndoInv, HistoryOK', next' \in {next, next + 1}, NEW id, id \notin UsedNumbers,
         \A e \in InHistory' : e \in InHistory \/ e.id = id,
         undone' = undone, reviewed' = reviewed,
         worker' = worker \/ (worker.step # "undo" /\ worker'.step # "undo")
  PROVE  NumbersOK' /\ CopyOK' /\ PutBackOnce'
<1>1. /\ next \in Nat /\ \A u \in undone : u.id # id
      /\ worker.step = "undo" => worker.id # id
  BY DEF UndoInv, HistoryOK, UsedNumbers
<1>2. NumbersOK'
  <2>1. 0..next \subseteq 0..next' /\ 1..next \subseteq 1..next'
    BY <1>1
  <2> QED
    BY <2>1 DEF UndoInv, NumbersOK
<1>3. CopyOK'
  <2> SUFFICES ASSUME worker'.step = "undo" PROVE CopyOK'
    BY DEF CopyOK
  <2>1. worker' = worker /\ worker.id # id
    BY <1>1
  <2>2. \A e \in InHistory' : e.id = worker.id => e \in InHistory
    BY <1>1, <2>1
  <2> QED
    BY <2>1, <2>2 DEF UndoInv, CopyOK
<1>4. PutBackOnce'
  <2> SUFFICES ASSUME NEW e \in InHistory', NEW item \in ItemsOf(e), NEW u \in undone,
                      u.id = e.id, u.file = item.file
               PROVE  worker'.step = "undo" /\ worker'.id = e.id /\ worker'.items = <<>>
    BY DEF PutBackOnce, ItemsOf
  <2>1. u.id # id
    BY <1>1
  <2>2. e \in InHistory
    BY <1>1, <2>1
  <2>3. worker.step = "undo" /\ worker.id = e.id /\ worker.items = <<>>
    BY <2>2 DEF UndoInv, PutBackOnce
  <2> QED
    BY <2>3
<1> QED
  BY <1>2, <1>3, <1>4

\* What is left alone stays in order.
LEMMA DiskStays ==
  ASSUME UndoInv, UNCHANGED diskVars
  PROVE  DiskOK' /\ NoFileIsLost'
  BY DEF UndoInv, diskVars, DiskOK, NoFileIsLost

LEMMA HistoryStays ==
  ASSUME UndoInv, UNCHANGED historyVars
  PROVE  HistoryOK' /\ next' = next /\ InHistory' = InHistory
  BY DEF UndoInv, historyVars, HistoryOK, InHistory

\* The history stays, and the worker does not begin or carry on an Undo.
LEMMA NoEntryKeeps ==
  ASSUME UndoInv, UNCHANGED historyVars, undone' = undone, reviewed' = reviewed,
         worker' = worker \/ (worker.step # "undo" /\ worker'.step # "undo")
  PROVE  HistoryOK' /\ NumbersOK' /\ CopyOK' /\ PutBackOnce' /\ UsedNumbers' = UsedNumbers
<1>1. HistoryOK' /\ next' = next /\ InHistory' = InHistory
  BY HistoryStays
<1> QED
  BY <1>1, NumbersAreOld, NewEntryKeeps DEF UsedNumbers

\* A file that moves to a free path is still alone at its place.
LEMMA MoveToFree ==
  ASSUME UndoInv, NEW f \in File, NEW q \in Path, IsFree(q), at' = [at EXCEPT ![f] = q],
         version' = version, deleted' = deleted
  PROVE  DiskOK' /\ NoFileIsLost'
<1>1. q \in Place /\ q # Gone
  BY UndoHistoryAssumption DEF Place
<1>2. \A g \in File : at'[g] = IF g = f THEN q ELSE at[g]
  BY DEF UndoInv, DiskOK
<1>3. at' \in [File -> Place]
  BY <1>1 DEF UndoInv, DiskOK
<1>4. \A g, h \in File : at'[g] = at'[h] /\ at'[g] \in Path => g = h
  BY <1>2 DEF UndoInv, DiskOK, IsFree
<1> QED
  BY <1>1, <1>2, <1>3, <1>4 DEF UndoInv, DiskOK, NoFileIsLost

\* A file that moves to a place that is no path leaves the paths to the others.
LEMMA MoveOffPaths ==
  ASSUME UndoInv, NEW f \in File, NEW q \in {Bin, Aside, Gone}, at' = [at EXCEPT ![f] = q],
         version' = version, deleted' = IF q = Gone THEN deleted \cup {f} ELSE deleted
  PROVE  DiskOK' /\ NoFileIsLost'
<1>1. q \in Place /\ q \notin Path
  BY UndoHistoryAssumption DEF Place
<1>2. \A g \in File : at'[g] = IF g = f THEN q ELSE at[g]
  BY DEF UndoInv, DiskOK
<1>3. at' \in [File -> Place]
  BY <1>1 DEF UndoInv, DiskOK
<1>4. \A g, h \in File : at'[g] = at'[h] /\ at'[g] \in Path => g = h
  BY <1>1, <1>2 DEF UndoInv, DiskOK
<1>5. deleted' \in SUBSET File /\ deleted \subseteq deleted' /\ (q = Gone => f \in deleted')
  BY DEF UndoInv, DiskOK
<1> QED
  BY <1>2, <1>3, <1>4, <1>5 DEF UndoInv, DiskOK, NoFileIsLost

\* An Undo that fails leaves its entry: nothing of it has been put back.
LEMMA FailureKeeps ==
  ASSUME UndoInv, worker.step = "undo", worker.items # <<>>, UndoFails, WorkerFrame
  PROVE  UndoInv'
<1>1. DiskOK' /\ NoFileIsLost' /\ HistoryOK' /\ next' = next /\ InHistory' = InHistory
  BY DiskStays, HistoryStays DEF UndoFails
<1>2. worker' = Idle /\ worker'.step # "undo" /\ undone' = undone
  BY DEF UndoFails, Idle
<1>3. ThreadsOK'
  <2>1. applying' = FALSE
    BY DEF UndoFails
  <2>2. (applying' <=> worker'.step = "undo") /\ applying' \in BOOLEAN
    BY <1>2, <2>1, Zenon
  <2> QED
    BY <1>2, <2>2 DEF UndoInv, ThreadsOK, UndoFails, WorkerFrame
<1>4. NumbersOK' /\ CopyOK'
  BY <1>1, <1>2 DEF UndoInv, NumbersOK, CopyOK, WorkerFrame
<1>5. PutBackOnce'
  BY <1>1, <1>2 DEF UndoInv, PutBackOnce, ItemsOf
<1>6. HeldOK'
  <2>1. UsedNumbers' \subseteq UsedNumbers /\ worker'.step # "push"
    BY <1>1, <1>2 DEF UsedNumbers, UndoFails, Idle
  <2> QED
    BY <1>1, <2>1, HeldUnused DEF WorkerFrame
<1> QED
  BY <1>1, <1>3, <1>4, <1>5, <1>6 DEF UndoInv

LEMMA WorkerRenamesKeeps == UndoInv /\ WorkerRenames => UndoInv'
<1> SUFFICES ASSUME UndoInv, WorkerRenames PROVE UndoInv'
  OBVIOUS
<1> DEFINE from == Head(commands).from
           to == Head(commands).to
<1>1. /\ worker = Idle /\ commands # <<>> /\ Head(commands).do = "rename"
      /\ commands' = Tail(commands) /\ version' = version /\ deleted' = deleted
      /\ UNCHANGED historyVars /\ applying' = applying /\ undone' = undone
      /\ shell' = shell /\ reviewed' = reviewed
  BY DEF WorkerRenames, WorkerFrame
<1>2. commands \in Seq(Command)
  BY DEF UndoInv, ThreadsOK
<1>3. Head(commands) \in Command /\ commands' \in Seq(Command)
  BY <1>1, <1>2
<1>4. from \in Path /\ to \in Path
  BY <1>1, <1>3 DEF Command
<1>5. \/ \E f \in At(from) : /\ IsFree(to) /\ at' = [at EXCEPT ![f] = to]
                             /\ worker' = [step |-> "record", file |-> f, from |-> from, to |-> to]
      \/ at' = at /\ worker' = worker
  BY DEF WorkerRenames
<1> HIDE DEF from, to
<1>6. /\ DiskOK' /\ NoFileIsLost'
      /\ worker' \in {Idle} \cup Recording /\ worker.step # "undo" /\ worker'.step # "undo"
  <2>1. ASSUME NEW f \in At(from), IsFree(to), at' = [at EXCEPT ![f] = to],
               worker' = [step |-> "record", file |-> f, from |-> from, to |-> to]
        PROVE  DiskOK' /\ NoFileIsLost' /\ worker' \in {Idle} \cup Recording
    <3>1. f \in File
      BY DEF At
    <3>2. worker' \in Recording
      BY <1>4, <2>1, <3>1 DEF Recording
    <3> QED
      BY <1>1, <1>4, <2>1, <3>1, <3>2, MoveToFree
  <2>2. CASE at' = at /\ worker' = worker
    <3>1. UNCHANGED diskVars
      BY <1>1, <2>2 DEF diskVars
    <3> QED
      BY <1>1, <2>2, <3>1, DiskStays DEF Idle
  <2> QED
    BY <1>1, <1>5, <2>1, <2>2 DEF Recording, Idle
<1>7. next' = next
  BY <1>1 DEF historyVars
<1>8. HistoryOK' /\ NumbersOK' /\ CopyOK' /\ PutBackOnce' /\ UsedNumbers' = UsedNumbers
  BY <1>1, <1>6, NoEntryKeeps
<1>9. ThreadsOK'
  BY <1>1, <1>3, <1>6 DEF UndoInv, ThreadsOK
<1>10. HeldOK'
  <2>1. worker'.step # "push"
    BY <1>6 DEF Idle, Recording
  <2> QED
    BY <1>1, <1>7, <1>8, <2>1, HeldUnused
<1> QED
  BY <1>6, <1>8, <1>9, <1>10 DEF UndoInv

LEMMA WorkerRecordsKeeps == UndoInv /\ WorkerRecords => UndoInv'
<1> SUFFICES ASSUME UndoInv, WorkerRecords PROVE UndoInv'
  OBVIOUS
<1>1. worker \in Recording
  BY ThreadShapes DEF WorkerRecords, UndoInv
<1>2. /\ UNCHANGED diskVars /\ entries' = entries /\ applying' = applying
      /\ commands' = commands /\ undone' = undone /\ shell' = shell /\ reviewed' = reviewed
      /\ worker.step # "undo"
  BY <1>1 DEF WorkerRecords, WorkerFrame, Recording
<1>3. worker.file \in File /\ worker.from \in Path /\ worker.to \in Path
  BY <1>1 DEF Recording
<1>4. CASE worker' = Idle /\ next' = next
  <2>1. worker'.step # "undo" /\ worker'.step # "push" /\ UNCHANGED historyVars
    BY <1>2, <1>4 DEF Idle, historyVars
  <2>2. HistoryOK' /\ NumbersOK' /\ CopyOK' /\ PutBackOnce' /\ UsedNumbers' = UsedNumbers
    BY <1>2, <2>1, NoEntryKeeps
  <2>3. HeldOK'
    BY <1>2, <1>4, <2>1, <2>2, HeldUnused
  <2>4. ThreadsOK'
    BY <1>2, <1>4, <2>1 DEF UndoInv, ThreadsOK
  <2> QED
    BY <1>2, <2>2, <2>3, <2>4, DiskStays DEF UndoInv
<1>5. ASSUME NEW g \in At(worker.to), worker' = [step |-> "push", entry |-> MovedEntry(g, worker)],
             next' = next + 1
      PROVE  UndoInv'
  <2> DEFINE new == MovedEntry(g, worker)
  <2>1. new \in Relocation /\ new.id = next + 1
    BY <1>3, MovedEntryShape
  <2> HIDE DEF new
  <2>2. worker' = [step |-> "push", entry |-> new]
    BY <1>5 DEF new
  <2>3. worker' \in Pushing /\ worker'.step = "push" /\ worker'.entry.id = next + 1
    BY <2>1, <2>2 DEF Pushing
  <2>4. InHistory' = InHistory /\ UsedNumbers' = UsedNumbers
    BY <1>2, <2>3 DEF InHistory, UsedNumbers
  <2>5. HistoryOK'
    BY <1>2, <1>5 DEF UndoInv, HistoryOK
  <2>6. NumbersOK' /\ CopyOK' /\ PutBackOnce'
    BY <1>2, <1>5, <2>3, <2>4, <2>5, NumbersAreOld, NewEntryKeeps
  <2>7. HeldOK'
    <3>1. /\ next \in Nat /\ next + 1 \in 1..next' /\ 1..next \subseteq 1..next'
          /\ next + 1 \notin 1..next /\ next + 1 \notin UsedNumbers
      BY <1>5, NumbersAreOld
    <3> QED
      BY <1>2, <2>3, <2>4, <3>1 DEF UndoInv, HeldOK
  <2>8. ThreadsOK'
    BY <1>2, <2>3 DEF UndoInv, ThreadsOK
  <2> QED
    BY <1>2, <2>5, <2>6, <2>7, <2>8, DiskStays DEF UndoInv
<1> QED
  BY <1>4, <1>5 DEF WorkerRecords

LEMMA WorkerPushesKeeps == UndoInv /\ WorkerPushes => UndoInv'
<1> SUFFICES ASSUME UndoInv, WorkerPushes PROVE UndoInv'
  OBVIOUS
<1> DEFINE new == worker.entry
<1>1. worker \in Pushing /\ worker.step = "push"
  BY ThreadShapes DEF WorkerPushes, UndoInv
<1>2. /\ entries' = Pushed(new) /\ worker' = Idle /\ next' = next /\ UNCHANGED diskVars
      /\ applying' = applying /\ commands' = commands /\ undone' = undone
      /\ shell' = shell /\ reviewed' = reviewed
  BY DEF WorkerPushes, WorkerFrame
<1>3. new \in Entry /\ (new.kind = "relocate" => Len(new.items) = 1)
  BY <1>1 DEF Pushing, Relocation
<1>4. new.id \in 1..next /\ new.id \notin UsedNumbers /\ (shell.kind = "push" => shell.entry.id # new.id)
  BY <1>1 DEF UndoInv, HeldOK
<1> HIDE DEF new
<1>5. \A e \in InHistory : e.id # new.id
  BY <1>4 DEF UsedNumbers
<1>6. HistoryOK' /\ \A e \in InHistory' : e \in InHistory \/ e = new
  BY <1>2, <1>3, <1>4, <1>5, PushKeeps DEF UndoInv
<1>7. worker'.step = "idle" /\ worker.step # "undo"
  BY <1>1, <1>2 DEF Idle
<1>8. NumbersOK' /\ CopyOK' /\ PutBackOnce'
  BY <1>2, <1>4, <1>6, <1>7, NewEntryKeeps
<1>9. HeldOK'
  <2>1. UsedNumbers' \subseteq UsedNumbers \cup {new.id}
    BY <1>2, <1>6, <1>7 DEF UsedNumbers
  <2> QED
    BY <1>2, <1>4, <1>7, <2>1, HeldStays
<1>10. ThreadsOK'
  BY <1>1, <1>2, <1>7 DEF UndoInv, ThreadsOK
<1> QED
  BY <1>2, <1>6, <1>8, <1>9, <1>10, DiskStays DEF UndoInv

\* The worker copies the newest entry, of which nothing has been put back.
LEMMA WorkerBeginsUndoKeeps == UndoInv /\ WorkerBeginsUndo => UndoInv'
<1> SUFFICES ASSUME UndoInv, WorkerBeginsUndo PROVE UndoInv'
  OBVIOUS
<1> DEFINE id == Head(commands).id
           last == entries[Len(entries)]
<1>1. /\ worker = Idle /\ commands # <<>> /\ commands' = Tail(commands)
      /\ UNCHANGED diskVars /\ UNCHANGED historyVars /\ undone' = undone
      /\ shell' = shell /\ reviewed' = reviewed
  BY DEF WorkerBeginsUndo, WorkerFrame
<1>2. commands' \in Seq(Command)
  BY <1>1 DEF UndoInv, ThreadsOK
<1>3. DiskOK' /\ NoFileIsLost' /\ HistoryOK' /\ next' = next /\ InHistory' = InHistory
  BY <1>1, DiskStays, HistoryStays
<1>4. CASE IsLast(id)
  <2>1. /\ entries \in Seq(Entry) /\ entries # <<>> /\ last.id = id
        /\ worker' = [step |-> "undo", id |-> id, kind |-> last.kind, items |-> last.items,
                      checked |-> FALSE]
        /\ applying' = TRUE
    BY <1>4 DEF WorkerBeginsUndo, IsLast, UndoInv, HistoryOK
  <2>2. Len(entries) \in DOMAIN entries
    BY <2>1
  <2>3. last \in Entry /\ last.id \in 1..next /\ (last.kind = "relocate" => Len(last.items) = 1)
    BY <2>1, <2>2 DEF UndoInv, HistoryOK
  <2>4. \A e \in InHistory : e.id = last.id => e = last
    BY <2>2 DEF UndoInv, HistoryOK, InHistory
  <2> HIDE DEF last, id
  <2>5. /\ worker' \in Undoing /\ worker'.step = "undo" /\ worker'.id = last.id
        /\ worker'.kind = last.kind /\ worker'.items = last.items /\ ~worker'.checked
        /\ worker'.id \in 1..next
  <3>1. last.id \in Nat /\ last.kind \in Kind /\ last.items \in Seq(Item)
      BY <2>3 DEF Entry
    <3> QED
      BY <2>1, <2>3, <3>1 DEF Undoing
  <2>6. ThreadsOK'
    <3>1. (applying' <=> worker'.step = "undo") /\ applying' \in BOOLEAN
      BY <2>1, <2>5, Zenon
    <3> QED
      BY <1>1, <1>2, <2>5, <3>1 DEF UndoInv, ThreadsOK
  <2>7. NumbersOK'
    BY <1>1, <1>3, <2>5 DEF UndoInv, NumbersOK
  <2>8. CopyOK'
    <3>1. worker'.kind = "relocate" => Len(worker'.items) <= 1
      <4> HAVE worker'.kind = "relocate"
      <4>1. Len(worker'.items) = 1
        BY <2>3, <2>5
      <4> QED
        BY <4>1
    <3>2. ASSUME NEW e \in InHistory', e.id = worker'.id
          PROVE  /\ e.kind = worker'.kind
                 /\ \A item \in ItemsOf(e) :
                      \E k \in DOMAIN worker'.items : worker'.items[k].file = item.file
      BY <1>3, <2>4, <2>5, <3>2 DEF ItemsOf
    <3> QED
      BY <2>5, <3>1, <3>2 DEF CopyOK
  <2>9. PutBackOnce'
    <3>1. worker.step # "undo"
      BY <1>1 DEF Idle
    <3> QED
      BY <1>1, <1>3, <3>1 DEF UndoInv, PutBackOnce, ItemsOf
  <2>10. HeldOK'
    <3>1. last \in InHistory
      BY <2>2 DEF InHistory, last
    <3>2. UsedNumbers' \subseteq UsedNumbers
      BY <1>1, <1>3, <2>5, <3>1 DEF UsedNumbers
    <3> QED
      BY <1>1, <1>3, <2>5, <3>2, HeldUnused
  <2> QED
    BY <1>3, <2>6, <2>7, <2>8, <2>9, <2>10 DEF UndoInv
<1>5. CASE ~IsLast(id)
  <2>1. worker' = worker /\ applying' = applying
    BY <1>5 DEF WorkerBeginsUndo
  <2>2. HistoryOK' /\ NumbersOK' /\ CopyOK' /\ PutBackOnce' /\ UsedNumbers' = UsedNumbers
    BY <1>1, <2>1, NoEntryKeeps
  <2>3. ThreadsOK'
    BY <1>1, <1>2, <2>1 DEF UndoInv, ThreadsOK
  <2>4. HeldOK'
    BY <1>1, <1>3, <2>1, <2>2, HeldUnused
  <2> QED
    BY <1>3, <2>2, <2>3, <2>4 DEF UndoInv
<1> QED
  BY <1>4, <1>5

\* What a copy with items says of the first one.
LEMMA CopyShapes ==
  ASSUME UndoInv, worker.step = "undo", worker.items # <<>>
  PROVE  /\ worker \in Undoing /\ worker.items \in Seq(Item)
         /\ Head(worker.items) \in Item /\ Tail(worker.items) \in Seq(Item)
         /\ Head(worker.items).file \in File /\ Head(worker.items).original \in Path
<1>1. worker \in Undoing
  BY ThreadShapes DEF UndoInv
<1>2. worker.items \in Seq(Item)
  BY <1>1 DEF Undoing
<1>3. Head(worker.items) \in Item /\ Tail(worker.items) \in Seq(Item)
  BY <1>2
<1> QED
  BY <1>1, <1>2, <1>3 DEF Item

LEMMA WorkerRelocatesKeeps == UndoInv /\ WorkerRelocates => UndoInv'
<1> SUFFICES ASSUME UndoInv, WorkerRelocates PROVE UndoInv'
  OBVIOUS
<1> DEFINE item == Head(worker.items)
           f == item.file
<1>1. worker.step = "undo" /\ worker.items # <<>> /\ worker.kind = "relocate" /\ WorkerFrame
  BY DEF WorkerRelocates, Unchecked, UndoFails
<1>2. worker \in Undoing /\ item \in Item /\ f \in File /\ item.original \in Path
  BY <1>1, CopyShapes
<1>3. CASE ~(at[f] = item.current /\ Identifies(item, f) /\ IsFree(item.original))
  BY <1>1, <1>3, FailureKeeps DEF WorkerRelocates
<1>4. CASE at[f] = item.current /\ Identifies(item, f) /\ IsFree(item.original)
  <2> DEFINE u == [id |-> worker.id, file |-> f, moved |-> item.moved]
  <2>1. /\ at' = [at EXCEPT ![f] = item.original] /\ undone' = undone \cup {u}
        /\ worker' = [worker EXCEPT !.items = <<>>]
        /\ version' = version /\ deleted' = deleted /\ UNCHANGED historyVars
        /\ applying' = applying /\ commands' = commands /\ shell' = shell
        /\ reviewed' = reviewed
    BY <1>4 DEF WorkerRelocates, WorkerFrame
  <2>2. DiskOK' /\ NoFileIsLost'
    BY <1>2, <1>4, <2>1, MoveToFree
  <2>3. HistoryOK' /\ next' = next /\ InHistory' = InHistory
    BY <2>1, HistoryStays
  <2>4. /\ worker' \in Undoing /\ worker'.step = "undo" /\ worker'.id = worker.id
        /\ worker'.kind = worker.kind /\ worker'.items = <<>> /\ worker'.checked = worker.checked
    <3>1. <<>> \in Seq(Item)
      OBVIOUS
    <3>2. /\ worker' \in Undoing
          /\ worker'.id = worker.id /\ worker'.kind = worker.kind
          /\ worker'.items = <<>> /\ worker'.step = worker.step
      BY <1>2, <2>1, <3>1 DEF Undoing
    <3>3. worker'.checked = worker.checked
      BY <1>2, <2>1, Zenon DEF Undoing
    <3> QED
      BY <1>1, <3>2, <3>3
  <2>5. u.id = worker.id /\ u.file = f
    OBVIOUS
  <2> HIDE DEF u
  <2>6. ThreadsOK'
    BY <1>1, <2>1, <2>4 DEF UndoInv, ThreadsOK
  <2>7. NumbersOK'
    BY <1>1, <2>1, <2>3, <2>4, <2>5 DEF UndoInv, NumbersOK
  <2>8. CopyOK'
    <3>1. worker.items \in Seq(Item) /\ Len(worker.items) <= 1
      BY <1>1, <1>2 DEF UndoInv, CopyOK, Undoing
    <3>2. \A k \in DOMAIN worker.items : worker.items[k].file = f
      BY <1>1, <3>1
    <3>3. ASSUME NEW e \in InHistory, e.id = worker.id
          PROVE  /\ e.kind = worker.kind
                 /\ \A i \in ItemsOf(e) : \E v \in undone' : v.id = e.id /\ v.file = i.file
      BY <1>1, <2>1, <2>5, <3>2, <3>3 DEF UndoInv, CopyOK
    <3>4. Len(<<>>) <= 1
      OBVIOUS
    <3> QED
      BY <1>1, <2>3, <2>4, <3>3, <3>4 DEF UndoInv, CopyOK, ItemsOf
  <2>9. PutBackOnce'
    <3> SUFFICES ASSUME NEW e \in InHistory, NEW i \in ItemsOf(e), NEW v \in undone',
                        v.id = e.id, v.file = i.file
                 PROVE  worker.id = e.id
      BY <2>3, <2>4 DEF PutBackOnce, ItemsOf
    <3> QED
      BY <1>1, <2>1, <2>5 DEF UndoInv, PutBackOnce
  <2>10. HeldOK'
    <3>1. UsedNumbers' \subseteq UsedNumbers
      BY <1>1, <2>1, <2>3, <2>4, <2>5 DEF UsedNumbers
    <3> QED
      BY <2>1, <2>3, <2>4, <3>1, HeldUnused
  <2> QED
    BY <2>2, <2>3, <2>6, <2>7, <2>8, <2>9, <2>10 DEF UndoInv
<1> QED
  BY <1>3, <1>4

LEMMA WorkerChecksRecycledKeeps == UndoInv /\ WorkerChecksRecycled => UndoInv'
<1> SUFFICES ASSUME UndoInv, WorkerChecksRecycled PROVE UndoInv'
  OBVIOUS
<1> DEFINE item == Head(worker.items)
           ready == at[item.file] = Bin /\ Identifies(item, item.file) /\ IsFree(item.original)
<1>1. worker.step = "undo" /\ worker.items # <<>> /\ worker.kind = "recycle" /\ WorkerFrame
  BY DEF WorkerChecksRecycled, Unchecked, UndoFails
<1>2. worker \in Undoing
  BY <1>1, CopyShapes
<1>3. CASE ~ready
  BY <1>1, <1>3, FailureKeeps DEF WorkerChecksRecycled
<1>4. CASE ready
  <2>1. /\ worker' = [worker EXCEPT !.checked = TRUE] /\ UNCHANGED diskVars
        /\ UNCHANGED historyVars /\ applying' = applying /\ commands' = commands
        /\ undone' = undone /\ shell' = shell /\ reviewed' = reviewed
    BY <1>4 DEF WorkerChecksRecycled, WorkerFrame
  <2>2. DiskOK' /\ NoFileIsLost' /\ HistoryOK' /\ next' = next /\ InHistory' = InHistory
    BY <2>1, DiskStays, HistoryStays
  <2>3. /\ worker' \in Undoing /\ worker'.step = worker.step /\ worker'.id = worker.id
        /\ worker'.kind = worker.kind /\ worker'.items = worker.items
    BY <1>2, <2>1 DEF Undoing
  <2>4. ThreadsOK'
    BY <2>1, <2>3 DEF UndoInv, ThreadsOK
  <2>5. NumbersOK' /\ CopyOK' /\ PutBackOnce'
    BY <1>1, <2>1, <2>2, <2>3 DEF UndoInv, NumbersOK, CopyOK, PutBackOnce, ItemsOf
  <2>6. HeldOK'
    <3>1. UsedNumbers' = UsedNumbers
      BY <2>1, <2>2, <2>3 DEF UsedNumbers
    <3> QED
      BY <1>1, <2>1, <2>2, <2>3, <3>1, HeldUnused
  <2> QED
    BY <2>2, <2>4, <2>5, <2>6 DEF UndoInv
<1> QED
  BY <1>3, <1>4

\* The history while an item of the worker's entry is put back.
LEMMA RestoringKeepsHistory ==
  ASSUME UndoInv, worker.step = "undo", worker.kind = "recycle", NEW item \in Item,
         entries' = [i \in DOMAIN entries |->
                       IF entries[i].id = worker.id THEN Pending(entries[i], item)
                                                    ELSE entries[i]],
         next' = next
  PROVE  /\ HistoryOK'
         /\ \A e \in InHistory' : \E d \in InHistory :
              /\ e.id = d.id /\ e.kind = d.kind
              /\ IF d.id = worker.id THEN ItemsOf(e) = {i \in ItemsOf(d) : i.file # item.file}
                                     ELSE e = d
         /\ \A i \in DOMAIN entries :
              /\ entries'[i] \in InHistory' /\ entries'[i].id = entries[i].id
              /\ \A j \in ItemsOf(entries[i]) :
                   j \in ItemsOf(entries'[i]) \/ (j.file = item.file /\ entries[i].id = worker.id)
<1> DEFINE n == Len(entries)
<1>1. /\ entries \in Seq(Entry) /\ n \in Nat /\ n = Len(entries) /\ DOMAIN entries = 1..n
      /\ n <= MaxEntries /\ next \in Nat
  BY DEF UndoInv, HistoryOK
<1> HIDE DEF n
<1>2. \A i \in 1..n :
        /\ entries'[i] = IF entries[i].id = worker.id THEN Pending(entries[i], item)
                                                      ELSE entries[i]
        /\ entries[i] \in Entry
  BY <1>1
<1>3. \A i \in 1..n :
        /\ entries'[i] \in Entry /\ entries'[i].id = entries[i].id
        /\ entries'[i].kind = entries[i].kind
        /\ entries[i].id # worker.id => entries'[i] = entries[i]
        /\ entries[i].id = worker.id =>
             ItemsOf(entries'[i]) = {j \in ItemsOf(entries[i]) : j.file # item.file}
  <2> TAKE i \in 1..n
  <2>1. CASE entries[i].id # worker.id
    BY <1>2, <2>1
  <2>2. CASE entries[i].id = worker.id
    <3> DEFINE e == entries[i]
    <3>1. e \in Entry /\ entries'[i] = Pending(e, item)
      BY <1>2, <2>2
    <3> HIDE DEF e
    <3>2. /\ Pending(e, item) \in Entry
          /\ Pending(e, item).id = e.id /\ Pending(e, item).kind = e.kind
          /\ ItemsOf(Pending(e, item)) = {j \in ItemsOf(e) : j.file # item.file}
      BY <3>1, PendingKeeps
    <3> QED
      BY <2>2, <3>1, <3>2 DEF e
  <2> QED
    BY <2>1, <2>2
<1>4. entries' \in Seq(Entry) /\ Len(entries') = n /\ DOMAIN entries' = 1..n
  <2>1. entries' = [i \in 1..n |-> entries'[i]]
    BY <1>1
  <2> QED
    BY <1>1, <1>3, <2>1
<1>5. \A i \in 1..n : entries[i] \in InHistory /\ entries'[i] \in InHistory'
  BY <1>1, <1>4 DEF InHistory
<1>6. HistoryOK'
  <2>1. /\ \A i \in 1..n : entries'[i].id \in 1..next
        /\ \A i, j \in 1..n : entries'[i].id = entries'[j].id => i = j
    BY <1>1, <1>3 DEF UndoInv, HistoryOK
  <2>2. \A i \in 1..n : entries'[i].kind = "relocate" => Len(entries'[i].items) = 1
    <3> TAKE i \in 1..n
    <3> HAVE entries'[i].kind = "relocate"
    <3>1. entries[i].kind = "relocate"
      BY <1>3
    <3>2. entries[i].id # worker.id
      BY <1>5, <3>1 DEF UndoInv, CopyOK
    <3> QED
      BY <1>1, <1>3, <3>1, <3>2 DEF UndoInv, HistoryOK
  <2> QED
    BY <1>1, <1>4, <2>1, <2>2 DEF HistoryOK
<1>7. \A e \in InHistory' : \E i \in 1..n : e = entries'[i]
  BY <1>4 DEF InHistory
<1>8. \A e \in InHistory' : \E d \in InHistory :
        /\ e.id = d.id /\ e.kind = d.kind
        /\ IF d.id = worker.id THEN ItemsOf(e) = {i \in ItemsOf(d) : i.file # item.file}
                               ELSE e = d
  <2> TAKE e \in InHistory'
  <2>1. PICK i \in 1..n : e = entries'[i]
    BY <1>7
  <2> QED
    BY <1>3, <1>5, <2>1
<1> QED
  BY <1>1, <1>3, <1>5, <1>6, <1>8

LEMMA WorkerRestoresKeeps == UndoInv /\ WorkerRestores => UndoInv'
<1> SUFFICES ASSUME UndoInv, WorkerRestores PROVE UndoInv'
  OBVIOUS
<1> DEFINE item == Head(worker.items)
           f == item.file
<1>1. worker.step = "undo" /\ worker.items # <<>> /\ worker.checked /\ WorkerFrame
  BY DEF WorkerRestores, UndoFails
<1>2. /\ worker \in Undoing /\ worker.items \in Seq(Item) /\ Tail(worker.items) \in Seq(Item)
      /\ item \in Item /\ f \in File /\ item.original \in Path
  BY <1>1, CopyShapes
<1>3. worker.kind = "recycle"
  BY <1>1 DEF UndoInv, CopyOK
<1>4. CASE UndoFails
  BY <1>1, <1>4, FailureKeeps
<1>5. CASE ~UndoFails
  <2> DEFINE u == [id |-> worker.id, file |-> f, moved |-> item.moved]
  <2>1. /\ at[f] = Bin
        /\ at' = IF IsFree(item.original) THEN [at EXCEPT ![f] = item.original]
                                          ELSE OnCollision(f, item.original)
        /\ entries' = [i \in DOMAIN entries |->
                         IF entries[i].id = worker.id THEN Pending(entries[i], item)
                                                      ELSE entries[i]]
        /\ undone' = undone \cup {u}
        /\ worker' = [worker EXCEPT !.items = Tail(@), !.checked = FALSE]
        /\ version' = version /\ deleted' = deleted /\ next' = next
        /\ applying' = applying /\ commands' = commands /\ shell' = shell
        /\ reviewed' = reviewed
    BY <1>5 DEF WorkerRestores, WorkerFrame
  <2>2. DiskOK' /\ NoFileIsLost'
    <3>1. CASE IsFree(item.original)
      BY <1>2, <2>1, <3>1, MoveToFree
    <3>2. CASE ~IsFree(item.original)
      <4>1. at' = [at EXCEPT ![f] = Aside]
        BY <2>1, <3>2 DEF OnCollision
      <4> QED
        BY <1>2, <2>1, <4>1, MoveOffPaths, UndoHistoryAssumption
    <3> QED
      BY <3>1, <3>2
  <2>3. /\ HistoryOK'
        /\ \A e \in InHistory' : \E d \in InHistory :
              /\ e.id = d.id /\ e.kind = d.kind
              /\ IF d.id = worker.id THEN ItemsOf(e) = {i \in ItemsOf(d) : i.file # f}
                                     ELSE e = d
    BY <1>1, <1>2, <1>3, <2>1, RestoringKeepsHistory
  <2>4. /\ worker' \in Undoing /\ worker'.step = worker.step /\ worker'.id = worker.id
        /\ worker'.kind = worker.kind /\ worker'.items = Tail(worker.items) /\ ~worker'.checked
    BY <1>2, <2>1 DEF Undoing
  <2>5. u.id = worker.id /\ u.file = f
    OBVIOUS
  <2> HIDE DEF u
  <2>6. ThreadsOK'
    BY <1>1, <2>1, <2>4 DEF UndoInv, ThreadsOK
  <2>7. NumbersOK'
    BY <1>1, <2>1, <2>4, <2>5 DEF UndoInv, NumbersOK
  <2>8. \A k \in DOMAIN worker.items :
          worker.items[k].file # f => \E l \in DOMAIN worker'.items : worker'.items[l] = worker.items[k]
    <3> TAKE k \in DOMAIN worker.items
    <3> HAVE worker.items[k].file # f
    <3>1. k # 1 /\ k \in 1..Len(worker.items) /\ Len(worker.items) \in Nat
      BY <1>1, <1>2
    <3>2. k - 1 \in DOMAIN worker'.items /\ worker'.items[k - 1] = worker.items[k]
      BY <1>1, <1>2, <2>4, <3>1
    <3> QED
      BY <3>2
  <2>9. CopyOK'
    <3> SUFFICES ASSUME NEW e \in InHistory', e.id = worker.id
                 PROVE  /\ e.kind = worker.kind
                        /\ \A i \in ItemsOf(e) :
                             \/ \E k \in DOMAIN worker'.items : worker'.items[k].file = i.file
                             \/ \E v \in undone' : v.id = e.id /\ v.file = i.file
      BY <1>3, <2>4 DEF CopyOK, ItemsOf
    <3>1. PICK d \in InHistory : /\ e.id = d.id /\ e.kind = d.kind
                              /\ ItemsOf(e) = {i \in ItemsOf(d) : i.file # f}
      BY <2>3
    <3>2. /\ d.kind = worker.kind
          /\ \A i \in ItemsOf(d) :
               \/ \E k \in DOMAIN worker.items : worker.items[k].file = i.file
               \/ \E v \in undone : v.id = d.id /\ v.file = i.file
      BY <1>1, <3>1 DEF UndoInv, CopyOK
    <3> QED
      BY <2>1, <2>8, <3>1, <3>2
  <2>10. PutBackOnce'
    <3> SUFFICES ASSUME NEW e \in InHistory', NEW i \in ItemsOf(e), NEW v \in undone',
                        v.id = e.id, v.file = i.file
                 PROVE  FALSE
      BY DEF PutBackOnce, ItemsOf
    <3>1. PICK d \in InHistory : /\ e.id = d.id
                              /\ IF d.id = worker.id
                                 THEN ItemsOf(e) = {j \in ItemsOf(d) : j.file # f}
                                 ELSE e = d
      BY <2>3
    <3>2. i \in ItemsOf(d) /\ (d.id = worker.id => i.file # f)
      BY <3>1
    <3>3. v \in undone
      BY <2>1, <2>5, <3>1, <3>2
    <3> QED
      BY <1>1, <3>1, <3>2, <3>3 DEF UndoInv, PutBackOnce
  <2>11. HeldOK'
    <3>1. {e.id : e \in InHistory'} \subseteq {d.id : d \in InHistory}
      BY <2>3
    <3>2. UsedNumbers' \subseteq UsedNumbers
      BY <1>1, <2>1, <2>4, <2>5, <3>1 DEF UsedNumbers
    <3> QED
      BY <1>1, <2>1, <2>4, <3>2, HeldUnused
  <2> QED
    BY <2>2, <2>3, <2>6, <2>7, <2>9, <2>10, <2>11 DEF UndoInv
<1> QED
  BY <1>4, <1>5

LEMMA WorkerEndsUndoKeeps == UndoInv /\ WorkerEndsUndo => UndoInv'
<1> SUFFICES ASSUME UndoInv, WorkerEndsUndo PROVE UndoInv'
  OBVIOUS
<1>1. /\ worker.step = "undo" /\ worker.items = <<>> /\ entries' = Without(worker.id)
      /\ worker' = Idle /\ applying' = FALSE /\ UNCHANGED diskVars /\ next' = next
      /\ commands' = commands /\ undone' = undone /\ shell' = shell /\ reviewed' = reviewed
  BY DEF WorkerEndsUndo, WorkerFrame
<1>2. HistoryOK' /\ InHistory' = {e \in InHistory : e.id # worker.id}
  BY <1>1, WithoutKeeps DEF UndoInv
<1>3. worker'.step # "undo"
  BY <1>1 DEF Idle
<1>4. ThreadsOK'
  <2>1. (applying' <=> worker'.step = "undo") /\ applying' \in BOOLEAN
    BY <1>1, <1>3, Zenon
  <2> QED
    BY <1>1, <2>1 DEF UndoInv, ThreadsOK
<1>5. NumbersOK' /\ CopyOK'
  BY <1>1, <1>3 DEF UndoInv, NumbersOK, CopyOK
<1>6. PutBackOnce'
  BY <1>1, <1>2 DEF UndoInv, PutBackOnce, ItemsOf
<1>7. HeldOK'
  <2>1. UsedNumbers' \subseteq UsedNumbers /\ worker'.step # "push"
    BY <1>1, <1>2, <1>3 DEF UsedNumbers, Idle
  <2> QED
    BY <1>1, <2>1, HeldUnused
<1> QED
  BY <1>1, <1>2, <1>4, <1>5, <1>6, <1>7, DiskStays DEF UndoInv

\* A step of the Shell thread that leaves the history alone.
LEMMA ShellStepKeeps ==
  ASSUME UndoInv, ShellFrame, DiskOK', NoFileIsLost', UNCHANGED historyVars,
         shell' \in ShellWork, shell'.kind # "push"
  PROVE  UndoInv'
<1>1. /\ worker' = worker /\ undone' = undone /\ reviewed' = reviewed
      /\ applying' = applying /\ commands' = commands /\ next' = next
  BY DEF ShellFrame, historyVars
<1>2. HistoryOK' /\ NumbersOK' /\ CopyOK' /\ PutBackOnce' /\ UsedNumbers' = UsedNumbers
  BY <1>1, NoEntryKeeps
<1>3. ThreadsOK'
  BY <1>1 DEF UndoInv, ThreadsOK
<1>4. HeldOK'
  BY <1>1, <1>2, HeldUnused
<1> QED
  BY <1>2, <1>3, <1>4 DEF UndoInv

LEMMA ShellPreparesKeeps == UndoInv /\ ShellPrepares => UndoInv'
<1> SUFFICES ASSUME UndoInv, ShellPrepares PROVE UndoInv'
  OBVIOUS
<1>1. shell \in Preparing /\ ShellFrame /\ UNCHANGED diskVars /\ UNCHANGED historyVars
  BY ThreadShapes DEF UndoInv, ShellPrepares
<1>2. shell.from \in Path /\ shell.to \in Path
  BY <1>1 DEF Preparing
<1>3. ASSUME NEW q \in Path, NEW replace \in BOOLEAN,
             shell' = [kind |-> "move", from |-> shell.from, to |-> q, replace |-> replace]
      PROVE  shell' \in ShellWork /\ shell'.kind # "push"
  BY <1>2, <1>3 DEF Moving, ShellWork
<1>4. ASSUME shell' = NoOperation PROVE shell' \in ShellWork /\ shell'.kind # "push"
  BY <1>4 DEF ShellWork, NoOperation
<1>5. shell' \in ShellWork /\ shell'.kind # "push"
  <2>1. \/ shell' = NoOperation
        \/ \E q \in Path, replace \in BOOLEAN :
             shell' = [kind |-> "move", from |-> shell.from, to |-> q, replace |-> replace]
    <3>1. FALSE \in BOOLEAN /\ TRUE \in BOOLEAN
      OBVIOUS
    <3> QED
      BY <1>2, <3>1, Zenon DEF ShellPrepares
  <2> QED
    BY <1>3, <1>4, <2>1
<1> QED
  BY <1>1, <1>5, DiskStays, ShellStepKeeps

LEMMA ShellMovesKeeps == UndoInv /\ ShellMoves => UndoInv'
<1> SUFFICES ASSUME UndoInv, ShellMoves PROVE UndoInv'
  OBVIOUS
<1>1. /\ shell \in Moving /\ shell.from \in Path /\ shell.to \in Path
      /\ ShellFrame /\ version' = version /\ UNCHANGED historyVars
  BY ThreadShapes DEF UndoInv, ShellMoves, Moving
<1>3. DiskOK
  BY DEF UndoInv
<1>4. ASSUME NEW f \in At(shell.from),
             at' = [g \in File |-> IF g = f THEN shell.to
                                   ELSE IF at[g] = shell.to THEN Gone ELSE at[g]],
             deleted' = deleted \cup At(shell.to),
             shell' = IF shell.replace THEN NoOperation
                      ELSE [kind |-> "record", file |-> f, from |-> shell.from, to |-> shell.to]
      PROVE  UndoInv'
  <2> DEFINE to == shell.to
  <2>1. f \in File /\ to \in Path /\ to \in Place /\ Gone \in Place /\ Gone \notin Path /\ to # Gone
    BY <1>1, <1>4, UndoHistoryAssumption DEF At, Place
  <2>2. \A g \in File : at'[g] = IF g = f THEN to ELSE IF at[g] = to THEN Gone ELSE at[g]
    BY <1>4
  <2> HIDE DEF to
  <2>3. at' \in [File -> Place]
    BY <1>3, <1>4, <2>1 DEF DiskOK, to
  <2>4. \A g, h \in File : at'[g] = at'[h] /\ at'[g] \in Path => g = h
    BY <1>3, <2>1, <2>2 DEF DiskOK
  <2>5. deleted' \in SUBSET File
    BY <1>3, <1>4 DEF DiskOK, At
  <2>6. NoFileIsLost'
    <3> SUFFICES ASSUME NEW g \in File, at'[g] = Gone PROVE g \in deleted'
      BY DEF NoFileIsLost
    <3>1. at[g] = to \/ at[g] = Gone
      BY <2>1, <2>2
    <3> QED
      BY <1>4, <3>1 DEF UndoInv, NoFileIsLost, At, to
  <2>7. shell' \in ShellWork /\ shell'.kind # "push"
    BY <1>1, <1>4, <2>1 DEF MoveRecording, ShellWork, NoOperation
  <2> QED
    BY <1>1, <1>3, <2>3, <2>4, <2>5, <2>6, <2>7, ShellStepKeeps DEF DiskOK
<1>5. CASE shell' = NoOperation /\ at' = at /\ deleted' = deleted
  <2>1. UNCHANGED diskVars
    BY <1>1, <1>5 DEF diskVars
  <2> QED
    BY <1>1, <1>5, <2>1, DiskStays, ShellStepKeeps DEF ShellWork, NoOperation
<1> QED
  BY <1>4, <1>5 DEF ShellMoves

LEMMA ShellRecordsKeeps == UndoInv /\ ShellRecords => UndoInv'
<1> SUFFICES ASSUME UndoInv, ShellRecords PROVE UndoInv'
  OBVIOUS
<1>1. /\ shell \in MoveRecording /\ shell.file \in File /\ shell.from \in Path /\ shell.to \in Path
      /\ ShellFrame /\ UNCHANGED diskVars /\ entries' = entries
  BY ThreadShapes DEF UndoInv, ShellRecords, MoveRecording
<1>2. CASE shell' = NoOperation /\ next' = next
  <2>1. UNCHANGED historyVars /\ shell' \in ShellWork /\ shell'.kind # "push"
    BY <1>1, <1>2 DEF historyVars, ShellWork, NoOperation
  <2> QED
    BY <1>1, <2>1, DiskStays, ShellStepKeeps
<1>3. ASSUME NEW g \in At(shell.to), shell' = [kind |-> "push", entry |-> MovedEntry(g, shell)],
             next' = next + 1
      PROVE  UndoInv'
  <2> DEFINE new == MovedEntry(g, shell)
  <2>1. new \in Relocation /\ new.id = next + 1
    BY <1>1, MovedEntryShape
  <2> HIDE DEF new
  <2>2. shell' = [kind |-> "push", entry |-> new]
    BY <1>3 DEF new
  <2>3. /\ shell' \in MovePushing /\ shell'.kind = "push" /\ shell'.entry.id = next + 1
        /\ worker' = worker /\ undone' = undone /\ reviewed' = reviewed
        /\ applying' = applying /\ commands' = commands
    BY <1>1, <2>1, <2>2 DEF MovePushing, ShellFrame
  <2>4. InHistory' = InHistory /\ UsedNumbers' = UsedNumbers
    BY <1>1, <2>3 DEF InHistory, UsedNumbers
  <2>5. HistoryOK'
    BY <1>1, <1>3 DEF UndoInv, HistoryOK
  <2>6. NumbersOK' /\ CopyOK' /\ PutBackOnce'
    BY <1>3, <2>3, <2>4, <2>5, NumbersAreOld, NewEntryKeeps
  <2>7. HeldOK'
    <3>1. /\ next \in Nat /\ next + 1 \in 1..next' /\ 1..next \subseteq 1..next'
          /\ next + 1 \notin 1..next /\ next + 1 \notin UsedNumbers
      BY <1>3, NumbersAreOld
    <3> QED
      BY <2>3, <2>4, <3>1 DEF UndoInv, HeldOK
  <2>8. ThreadsOK'
    BY <2>3 DEF UndoInv, ThreadsOK, ShellWork
  <2> QED
    BY <1>1, <2>5, <2>6, <2>7, <2>8, DiskStays DEF UndoInv
<1> QED
  BY <1>2, <1>3 DEF ShellRecords

LEMMA ShellPushesKeeps == UndoInv /\ ShellPushes => UndoInv'
<1> SUFFICES ASSUME UndoInv, ShellPushes PROVE UndoInv'
  OBVIOUS
<1> DEFINE new == shell.entry
<1>1. shell \in MovePushing /\ shell.kind = "push" /\ UNCHANGED diskVars
  BY ThreadShapes DEF ShellPushes, UndoInv
<1>2. /\ entries' = Pushed(new) /\ shell' = NoOperation /\ next' = next
      /\ worker' = worker /\ undone' = undone /\ reviewed' = reviewed
      /\ applying' = applying /\ commands' = commands
  BY DEF ShellPushes, ShellFrame
<1>3. new \in Entry /\ (new.kind = "relocate" => Len(new.items) = 1)
  BY <1>1 DEF MovePushing, Relocation
<1>4. new.id \in 1..next /\ new.id \notin UsedNumbers /\ (worker.step = "push" => worker.entry.id # new.id)
  BY <1>1 DEF UndoInv, HeldOK
<1> HIDE DEF new
<1>5. \A e \in InHistory : e.id # new.id
  BY <1>4 DEF UsedNumbers
<1>6. HistoryOK' /\ \A e \in InHistory' : e \in InHistory \/ e = new
  BY <1>2, <1>3, <1>4, <1>5, PushKeeps DEF UndoInv
<1>7. NumbersOK' /\ CopyOK' /\ PutBackOnce'
  BY <1>2, <1>4, <1>6, NewEntryKeeps
<1>8. HeldOK'
  <2>1. UsedNumbers' \subseteq UsedNumbers \cup {new.id} /\ shell'.kind # "push"
    BY <1>2, <1>6 DEF UsedNumbers, NoOperation
  <2> QED
    BY <1>2, <1>4, <2>1, HeldStays
<1>9. ThreadsOK'
  BY <1>2 DEF UndoInv, ThreadsOK, ShellWork
<1> QED
  BY <1>1, <1>6, <1>7, <1>8, <1>9, DiskStays DEF UndoInv

LEMMA ShellDeletesKeeps == UndoInv /\ ShellDeletes => UndoInv'
<1> SUFFICES ASSUME UndoInv, ShellDeletes PROVE UndoInv'
  OBVIOUS
<1> DEFINE p == Head(shell.todo)
<1>1. /\ shell \in Deleting /\ shell.todo # <<>> /\ ShellFrame
      /\ version' = version /\ deleted' = deleted /\ UNCHANGED historyVars
  BY ThreadShapes DEF UndoInv, ShellDeletes
<1>3. /\ shell.todo \in Seq(Path) /\ p \in Path /\ Tail(shell.todo) \in Seq(Path)
      /\ shell.captured \in Seq(Item)
  BY <1>1 DEF Deleting
<1>4. ASSUME NEW f \in At(p), at' = [at EXCEPT ![f] = Bin],
             shell' = [shell EXCEPT !.todo = Tail(@),
                         !.captured = Append(@, [file |-> f, version |-> version[f],
                                                 original |-> p, current |-> Bin, moved |-> f])]
      PROVE  UndoInv'
  <2> DEFINE item == [file |-> f, version |-> version[f], original |-> p, current |-> Bin,
                      moved |-> f]
  <2>1. f \in File /\ version[f] \in Nat
    BY <1>4 DEF At, UndoInv, DiskOK
  <2>2. item \in Item
    BY <1>3, <2>1 DEF Item
  <2>3. shell' = [shell EXCEPT !.todo = Tail(@), !.captured = Append(@, item)]
    BY <1>4
  <2> HIDE DEF item
  <2>4. Append(shell.captured, item) \in Seq(Item)
    BY <1>3, <2>2
  <2>5. shell' \in ShellWork /\ shell'.kind # "push"
    BY <1>1, <1>3, <2>3, <2>4 DEF Deleting, ShellWork
  <2>6. DiskOK' /\ NoFileIsLost'
    BY <1>1, <1>4, <2>1, MoveOffPaths, UndoHistoryAssumption
  <2> QED
    BY <1>1, <2>5, <2>6, ShellStepKeeps
<1>5. CASE at' = at /\ shell' = [shell EXCEPT !.todo = Tail(@)]
  <2>1. shell' \in ShellWork /\ shell'.kind # "push"
    BY <1>1, <1>3, <1>5 DEF Deleting, ShellWork
  <2>2. UNCHANGED diskVars
    BY <1>1, <1>5 DEF diskVars
  <2> QED
    BY <1>1, <2>1, <2>2, DiskStays, ShellStepKeeps
<1> QED
  BY <1>4, <1>5 DEF ShellDeletes

LEMMA ShellFinishesKeeps == UndoInv /\ ShellFinishes => UndoInv'
<1> SUFFICES ASSUME UndoInv, ShellFinishes PROVE UndoInv'
  OBVIOUS
<1>1. /\ shell \in Deleting /\ shell' = NoOperation /\ ShellFrame /\ UNCHANGED diskVars
      /\ shell' \in ShellWork /\ shell'.kind # "push"
  BY ThreadShapes DEF UndoInv, ShellFinishes, ShellWork, NoOperation
<1>2. CASE shell.captured = <<>>
  <2>1. UNCHANGED historyVars
    BY <1>2 DEF ShellFinishes
  <2> QED
    BY <1>1, <2>1, DiskStays, ShellStepKeeps
<1>3. CASE shell.captured # <<>>
  <2> DEFINE new == [id |-> next + 1, kind |-> "recycle", items |-> shell.captured]
  <2>1. next \in Nat /\ next' = next + 1 /\ entries' = Pushed(new)
    BY <1>3 DEF ShellFinishes, UndoInv, HistoryOK
  <2>2. new \in Entry /\ new.kind # "relocate" /\ new.id = next + 1
    BY <1>1, <2>1 DEF Deleting, Entry, Kind
  <2> HIDE DEF new
  <2>3. new.id \in 1..next' /\ new.id \notin UsedNumbers /\ new.id \notin 1..next
    BY <2>1, <2>2, NumbersAreOld
  <2>4. \A e \in InHistory : e.id # new.id
    BY <2>3 DEF UsedNumbers
  <2>5. HistoryOK' /\ \A e \in InHistory' : e \in InHistory \/ e = new
    BY <2>1, <2>2, <2>3, <2>4, PushKeeps DEF UndoInv
  <2>6. /\ worker' = worker /\ undone' = undone /\ reviewed' = reviewed
        /\ applying' = applying /\ commands' = commands
    BY <1>1 DEF ShellFrame
  <2>7. NumbersOK' /\ CopyOK' /\ PutBackOnce'
    BY <2>1, <2>3, <2>5, <2>6, NewEntryKeeps
  <2>8. HeldOK'
    <3>1. UsedNumbers' \subseteq UsedNumbers \cup {new.id}
      BY <2>5, <2>6 DEF UsedNumbers
    <3>2. worker.step = "push" => worker.entry.id # new.id
      BY <2>3 DEF UndoInv, HeldOK
    <3> QED
      BY <1>1, <2>1, <2>6, <3>1, <3>2, HeldStays
  <2>9. ThreadsOK'
    BY <1>1, <2>6 DEF UndoInv, ThreadsOK
  <2> QED
    BY <1>1, <2>5, <2>7, <2>8, <2>9, DiskStays DEF UndoInv
<1> QED
  BY <1>2, <1>3

LEMMA OtherKeeps ==
  ASSUME UndoInv, NEW f \in File, Other(f)
  PROVE  UndoInv'
<1>1. /\ UNCHANGED historyVars /\ applying' = applying /\ commands' = commands
      /\ worker' = worker /\ shell' = shell /\ reviewed' = reviewed /\ undone' = undone
  BY DEF Other
<1>2. /\ HistoryOK' /\ NumbersOK' /\ CopyOK' /\ PutBackOnce' /\ UsedNumbers' = UsedNumbers
      /\ next' = next
  BY <1>1, NoEntryKeeps DEF historyVars
<1>3. DiskOK' /\ NoFileIsLost'
  <2>1. CASE version' = [version EXCEPT ![f] = @ + 1] /\ at' = at /\ deleted' = deleted
    BY <2>1 DEF UndoInv, DiskOK, NoFileIsLost
  <2>2. ASSUME NEW p \in Path, IsFree(p), at' = [at EXCEPT ![f] = p],
               version' = version, deleted' = deleted
        PROVE  DiskOK' /\ NoFileIsLost'
    BY <2>2, MoveToFree
  <2>3. CASE at' = [at EXCEPT ![f] = Gone] /\ deleted' = deleted \cup {f} /\ version' = version
    BY <2>3, MoveOffPaths
  <2> QED
    BY <2>1, <2>2, <2>3 DEF Other
<1>4. HeldOK' /\ ThreadsOK'
  BY <1>1, <1>2, HeldUnused DEF UndoInv, ThreadsOK
<1> QED
  BY <1>2, <1>3, <1>4 DEF UndoInv

LEMMA UndoStep == UndoInv /\ [Next]_vars => UndoInv'
<1> SUFFICES ASSUME UndoInv, [Next]_vars PROVE UndoInv'
  OBVIOUS
<1>1. CASE User
  BY <1>1, UserKeeps
<1>2. CASE Worker
  BY <1>2, WorkerRenamesKeeps, WorkerRecordsKeeps, WorkerPushesKeeps, WorkerBeginsUndoKeeps, WorkerRelocatesKeeps,
     WorkerChecksRecycledKeeps, WorkerRestoresKeeps, WorkerEndsUndoKeeps DEF Worker
<1>3. CASE Shell
  BY <1>3, ShellPreparesKeeps, ShellMovesKeeps, ShellRecordsKeeps, ShellPushesKeeps,
     ShellDeletesKeeps, ShellFinishesKeeps DEF Shell
<1>4. CASE \E f \in File : Other(f)
  BY <1>4, OtherKeeps
<1>5. CASE UNCHANGED vars
  BY <1>5 DEF vars, diskVars, historyVars, UndoInv, DiskOK, ThreadsOK, HistoryOK, NumbersOK,
     HeldOK, UsedNumbers, CopyOK, PutBackOnce, NoFileIsLost, InHistory, ItemsOf
<1> QED
  BY <1>1, <1>2, <1>3, <1>4, <1>5 DEF Next

------------------------------------------------------------------------------
\* The theorems.

\* The inductive invariant: no number is given twice, in whatever order the
\* threads push what they have numbered; the worker's copy covers what its
\* entry still holds; and nothing that was put back is pending in another one
\* (undo.rs:147-277).
THEOREM UndoInvariant == Spec => []UndoInv
<1>1. Init => UndoInv
  BY UndoInit
<1>2. UndoInv /\ [Next]_vars => UndoInv'
  BY UndoStep
<1> QED
  BY <1>1, <1>2, PTL DEF Spec

\* The shapes of the history, at most MaxEntries entries with numbers up to the
\* counter, one file at most at each path, and the flag that tells an Undo that
\* runs (undo.rs:147-152, 189-192, 228-238).
THEOREM UndoTypeCorrect == Spec => []TypeOK
<1>1. UndoInv => TypeOK
  <2> SUFFICES ASSUME UndoInv PROVE TypeOK
    OBVIOUS
  <2>1. \A e \in InHistory : e.id \in 1..next
    BY DEF UndoInv, HistoryOK, InHistory
  <2>2. \A e \in InHistory : e.id <= next
    BY <2>1 DEF UndoInv, HistoryOK
  <2> QED
    BY <2>2 DEF UndoInv, DiskOK, HistoryOK, NumbersOK, ThreadsOK, TypeOK
<1> QED
  BY <1>1, UndoInvariant, PTL

\* No rename, no Undo, no deletion and no move without an approved replacement
\* removes another file, whatever other programs do between its steps
\* (undo.rs:123-145, 278-319, shell_ops.rs:212-226, 351-362).
THEOREM UndoLosesNoFile == Spec => []NoFileIsLost
<1>1. UndoInv => NoFileIsLost
  BY DEF UndoInv
<1> QED
  BY <1>1, UndoInvariant, PTL

\* What a partial restoration has put back is never pending again
\* (undo.rs:258-277).
THEOREM UndoIsDoneOnce == Spec => []UndoOnce
<1>1. UndoInv => UndoOnce
  BY DEF UndoInv, PutBackOnce, UndoOnce
<1> QED
  BY <1>1, UndoInvariant, PTL

\* An item leaves the history when it is put back or when its entry, the
\* oldest, makes room for a new one (undo.rs:187-192, 207-212, 258-275).
THEOREM UndoStaysPossible == Spec => PendingStays
<1> DEFINE Stays(i, item) ==
      \/ \E e \in InHistory' : e.id = entries[i].id /\ item \in ItemsOf(e)
      \/ \E u \in undone' : u.id = entries[i].id /\ u.file = item.file
      \/ /\ i = 1 /\ Len(entries) = MaxEntries
         /\ \E e \in InHistory' : \A d \in InHistory : d.id # e.id
<1>1. UndoInv /\ [Next]_vars =>
        [\A i \in DOMAIN entries : \A item \in ItemsOf(entries[i]) : Stays(i, item)]_vars
  <2> SUFFICES ASSUME UndoInv, Next, NEW i \in DOMAIN entries, NEW item \in ItemsOf(entries[i])
               PROVE  Stays(i, item)
    OBVIOUS
  <2>1. entries[i] \in InHistory
    BY DEF InHistory
  <2>2. CASE entries[i] \in InHistory'
    BY <2>2
  <2>3. CASE UNCHANGED historyVars
    BY <2>1, <2>2, <2>3, HistoryStays
  <2>4. CASE User
    BY <2>3, <2>4 DEF User, UserRenames, UserMoves, UserDeletes, UserAsksUndo, UserConfirms,
       UserFrame
  <2>5. ASSUME NEW new \in Entry, new.kind = "relocate" => Len(new.items) = 1,
               next' \in {next, next + 1}, new.id \in 1..next', new.id \notin UsedNumbers,
               entries' = Pushed(new)
        PROVE  Stays(i, item)
    <3>1. \A e \in InHistory : e.id # new.id
      BY <2>5 DEF UsedNumbers
    <3>2. new \in InHistory' /\ (entries[i] \in InHistory' \/ (i = 1 /\ Len(entries) = MaxEntries))
      BY <2>5, <3>1, PushKeeps DEF UndoInv
    <3> QED
      BY <2>2, <3>1, <3>2
  <2>13. CASE WorkerPushes
    <3> DEFINE new == worker.entry
    <3>1. worker \in Pushing /\ worker.step = "push"
      BY <2>13, ThreadShapes DEF WorkerPushes, UndoInv
    <3>2. /\ new \in Entry /\ (new.kind = "relocate" => Len(new.items) = 1)
          /\ new.id \in 1..next /\ new.id \notin UsedNumbers
      BY <3>1 DEF UndoInv, HeldOK, Pushing, Relocation
    <3>3. entries' = Pushed(new) /\ next' = next
      BY <2>13 DEF WorkerPushes
    <3> HIDE DEF new
    <3> QED
      BY <2>5, <3>2, <3>3
  <2>6. CASE WorkerRestores
    <3>1. CASE UndoFails
      BY <2>3, <3>1 DEF UndoFails
    <3>2. CASE ~UndoFails
      <4> DEFINE first == Head(worker.items)
                 u == [id |-> worker.id, file |-> first.file, moved |-> first.moved]
      <4>1. /\ worker.step = "undo" /\ worker.items # <<>> /\ worker.kind = "recycle"
            /\ entries' = [k \in DOMAIN entries |->
                              IF entries[k].id = worker.id THEN Pending(entries[k], first)
                                                           ELSE entries[k]]
            /\ next' = next /\ u \in undone'
        BY <2>6, <3>2 DEF WorkerRestores, UndoInv, CopyOK
      <4>2. u.id = worker.id /\ u.file = first.file
        OBVIOUS
      <4>3. first \in Item
        BY <4>1, CopyShapes
      <4> HIDE DEF u, first
      <4>4. /\ entries'[i] \in InHistory' /\ entries'[i].id = entries[i].id
            /\ item \in ItemsOf(entries'[i]) \/ (item.file = first.file /\ entries[i].id = worker.id)
        BY <4>1, <4>3, RestoringKeepsHistory
      <4> QED
        BY <4>1, <4>2, <4>4
    <3> QED
      BY <3>1, <3>2
  <2>7. CASE WorkerEndsUndo
    <3>1. /\ worker.step = "undo" /\ worker.items = <<>> /\ undone' = undone
          /\ InHistory' = {e \in InHistory : e.id # worker.id}
      BY <2>7, WithoutKeeps DEF WorkerEndsUndo, UndoInv
    <3>2. CASE entries[i].id # worker.id
      BY <2>1, <2>2, <3>1, <3>2
    <3>3. CASE entries[i].id = worker.id
      <4>1. \E u \in undone : u.id = entries[i].id /\ u.file = item.file
        BY <2>1, <3>1, <3>3 DEF UndoInv, CopyOK
      <4> QED
        BY <3>1, <4>1
    <3> QED
      BY <3>2, <3>3
  <2>8. CASE WorkerRenames \/ WorkerBeginsUndo \/ WorkerRelocates \/ WorkerChecksRecycled
    BY <2>3, <2>8 DEF WorkerRenames, WorkerBeginsUndo, WorkerRelocates, WorkerChecksRecycled,
       UndoFails
  <2>14. CASE WorkerRecords \/ ShellRecords
    BY <2>1, <2>2, <2>14 DEF WorkerRecords, ShellRecords, InHistory
  <2>9. CASE ShellPrepares \/ ShellMoves \/ ShellDeletes
    BY <2>3, <2>9 DEF ShellPrepares, ShellMoves, ShellDeletes
  <2>10. CASE ShellPushes
    <3> DEFINE new == shell.entry
    <3>1. shell \in MovePushing /\ shell.kind = "push"
      BY <2>10, ThreadShapes DEF ShellPushes, UndoInv
    <3>2. /\ new \in Entry /\ (new.kind = "relocate" => Len(new.items) = 1)
          /\ new.id \in 1..next /\ new.id \notin UsedNumbers
      BY <3>1 DEF UndoInv, HeldOK, MovePushing, Relocation
    <3>3. entries' = Pushed(new) /\ next' = next
      BY <2>10 DEF ShellPushes
    <3> HIDE DEF new
    <3> QED
      BY <2>5, <3>2, <3>3
  <2>11. CASE ShellFinishes
    <3>1. shell \in Deleting
      BY <2>11, ThreadShapes DEF UndoInv, ShellFinishes
    <3>2. CASE shell.captured = <<>>
      BY <2>3, <2>11, <3>2 DEF ShellFinishes
    <3>3. CASE shell.captured # <<>>
      <4> DEFINE new == [id |-> next + 1, kind |-> "recycle", items |-> shell.captured]
      <4>1. next \in Nat /\ next' = next + 1 /\ entries' = Pushed(new)
        BY <2>11, <3>3 DEF ShellFinishes, UndoInv, HistoryOK
      <4>2. new \in Entry /\ new.kind # "relocate" /\ new.id = next + 1
        BY <3>1, <4>1 DEF Deleting, Entry, Kind
      <4> HIDE DEF new
      <4>3. new.id \in 1..next' /\ new.id \notin UsedNumbers
        BY <4>1, <4>2, NumbersAreOld
      <4> QED
        BY <2>5, <4>1, <4>2, <4>3
    <3> QED
      BY <3>2, <3>3
  <2>12. CASE \E f \in File : Other(f)
    BY <2>3, <2>12 DEF Other
  <2> QED
    BY <2>4, <2>5, <2>6, <2>7, <2>8, <2>9, <2>10, <2>11, <2>12, <2>13, <2>14 DEF Next, Worker, Shell
<1> QED
  BY <1>1, UndoInvariant, PTL DEF Spec, PendingStays

------------------------------------------------------------------------------
\* The names of a batch.

Plan == {Unplanned, Skipped} \cup [group: {"normal", "replace"}, as: FileName]

CollisionsTypeOK ==
  /\ named \in [Member -> FileName] /\ inside \in SUBSET Member
  /\ folder \in [FileName -> FileName \cup Member \cup {Nothing}]
  /\ plan \in [Member -> Plan]
  /\ stage \in {"preparing", "running", "ended"} /\ done \in SUBSET Member

NamesDiffer == \A s, t \in Member : named[s] = named[t] => s = t

\* What a file is going to replace has been approved, and is still there.
ReplacementsHold ==
  \A s \in Member : plan[s].group = "replace" =>
    plan[s].as = named[s] /\ (s \notin done => folder[named[s]] \in approved)

\* Nothing that arrives with a question arrives where something is replaced
\* later without one.
GroupsAreApart ==
  \A s, t \in Member :
    plan[s].group = "normal" /\ plan[t].group = "replace" => plan[s].as # named[t]

\* While the files are prepared, the names given to them are free.
NamesAreFree ==
  stage = "preparing" =>
    /\ done = {}
    /\ \A s \in Member : plan[s].group = "normal" => plan[s].as \in FileName /\ ~IsTaken(plan[s].as)

OnlyApproved == Nothing \notin approved /\ replaced \subseteq approved

\* The inductive invariant of a batch without equal names.
CollisionsInv ==
  /\ CollisionsTypeOK /\ NamesDiffer /\ ReplacementsHold /\ GroupsAreApart
  /\ NamesAreFree /\ OnlyApproved

------------------------------------------------------------------------------
\* A batch starts with nothing planned, and with the names it was given.
LEMMA BatchStarts == ~SameNames /\ CollisionsInit => CollisionsInv
<1> SUFFICES ASSUME ~SameNames, CollisionsInit PROVE CollisionsInv
  OBVIOUS
<1>1. PICK existing \in SUBSET FileName :
        folder = [n \in FileName |->
                    IF \E s \in inside : named[s] = n THEN CHOOSE s \in inside : named[s] = n
                    ELSE IF n \in existing THEN n ELSE Nothing]
  BY DEF CollisionsInit
<1>2. inside \in SUBSET Member
  BY DEF CollisionsInit
<1>3. folder \in [FileName -> FileName \cup Member \cup {Nothing}]
  <2>1. \A n \in FileName :
          (\E s \in inside : named[s] = n) => (CHOOSE s \in inside : named[s] = n) \in Member
    BY <1>2
  <2> QED
    BY <1>1, <2>1
<1>4. CollisionsTypeOK
  BY <1>3 DEF CollisionsInit, CollisionsTypeOK, Plan
<1>5. NamesDiffer
  BY DEF CollisionsInit, NamesDiffer
<1>6. \A s \in Member : plan[s].group = "none"
  BY DEF CollisionsInit, Unplanned
<1> QED
  BY <1>4, <1>5, <1>6 DEF CollisionsInit, CollisionsInv, ReplacementsHold, GroupsAreApart,
                          NamesAreFree, OnlyApproved

\* Giving the next file a group and a name keeps what was planned before.
LEMMA PlanningKeeps ==
  ASSUME CollisionsInv, ToPrepare, PrepareFrame, NEW p \in Plan, Plans(p),
         p.group = "replace" => /\ IsTaken(named[turn]) /\ p.as = named[turn]
                                /\ approved' = approved \cup {folder[named[turn]]},
         p.group = "normal" => p.as \in FileName /\ ~IsTaken(p.as),
         p.group # "replace" => UNCHANGED approved
  PROVE  CollisionsInv'
<1> USE DEF CollisionsInv
<1>1. /\ UNCHANGED <<named, inside, folder, stage, done, replaced>>
      /\ turn \in Member /\ stage = "preparing" /\ done = {}
      /\ plan' = [plan EXCEPT ![turn] = p]
  BY DEF PrepareFrame, batchVars, ToPrepare, Plans, NamesAreFree
<1>2. plan' \in [Member -> Plan] /\ \A s \in Member : plan'[s] = IF s = turn THEN p ELSE plan[s]
  BY <1>1 DEF CollisionsTypeOK
<1>3. CollisionsTypeOK' /\ NamesDiffer'
  BY <1>1, <1>2 DEF CollisionsTypeOK, NamesDiffer
<1>4. approved \subseteq approved' /\ Nothing \notin approved'
  BY DEF OnlyApproved, IsTaken
<1>5. ReplacementsHold'
  BY <1>1, <1>2, <1>4 DEF ReplacementsHold
<1>6. \A s, t \in Member :
        plan'[s].group = "normal" /\ plan'[t].group = "replace" => plan'[s].as # named[t]
  <2> SUFFICES ASSUME NEW s \in Member, NEW t \in Member,
                      plan'[s].group = "normal", plan'[t].group = "replace"
               PROVE  plan'[s].as # named[t]
    OBVIOUS
  <2>1. ~IsTaken(plan'[s].as)
    BY <1>1, <1>2 DEF NamesAreFree
  <2>2. IsTaken(named[t])
    <3>1. CASE t = turn
      BY <1>2, <3>1
    <3>2. CASE t # turn
      <4>1. folder[named[t]] \in approved
        BY <1>1, <1>2, <3>2 DEF ReplacementsHold
      <4> QED
        BY <4>1 DEF OnlyApproved, IsTaken
    <3> QED
      BY <3>1, <3>2
  <2> QED
    BY <2>1, <2>2
<1>7. GroupsAreApart'
  BY <1>1, <1>6 DEF GroupsAreApart
<1>8. NamesAreFree'
  BY <1>1, <1>2 DEF NamesAreFree, IsTaken
<1>9. OnlyApproved'
  BY <1>1, <1>4 DEF OnlyApproved
<1> QED
  BY <1>3, <1>5, <1>7, <1>8, <1>9

\* Each decision of the user is such a plan.
LEMMA DecisionsKeep ==
  ASSUME CollisionsInv, ToPrepare, IsTaken(named[turn]), PrepareFrame,
         NEW choice \in Decision, Decided(choice)
  PROVE  CollisionsInv'
<1> DEFINE n == named[turn]
<1>1. n \in FileName
  BY DEF ToPrepare, CollisionsInv, CollisionsTypeOK
<1>2. CASE choice = "replace" /\ folder[n] # turn
  <2>1. Plans([group |-> "replace", as |-> n]) /\ approved' = approved \cup {folder[n]}
    BY <1>2 DEF Decided
  <2>2. [group |-> "replace", as |-> n] \in Plan
    BY <1>1 DEF Plan
  <2> QED
    BY <2>1, <2>2, PlanningKeeps
<1>3. CASE choice = "skip" \/ (choice = "replace" /\ folder[n] = turn)
  <2>1. Plans(Skipped) /\ UNCHANGED approved /\ Skipped \in Plan
    BY <1>3 DEF Decided, Plan, Skipped
  <2> QED
    BY <2>1, PlanningKeeps DEF Skipped
<1>4. CASE choice = "keep both"
  <2>1. PICK k \in DOMAIN NumberedNames[n] :
          /\ IsUnused(NumberedNames[n][k])
          /\ Plans([group |-> "normal", as |-> NumberedNames[n][k]])
          /\ UNCHANGED approved
    BY <1>4 DEF Decided, KeptGroup
  <2>2. NumberedNames[n][k] \in FileName
    BY <1>1, <2>1, CollisionsAssumption
  <2>3. [group |-> "normal", as |-> NumberedNames[n][k]] \in Plan
    BY <2>2 DEF Plan
  <2> QED
    BY <2>1, <2>2, <2>3, PlanningKeeps DEF IsUnused
<1> QED
  BY <1>2, <1>3, <1>4 DEF Decision

\* A file arrives, is skipped or fails, and the replacements that follow still
\* find what was approved.
LEMMA PerformingKeeps ==
  ASSUME CollisionsInv, NEW s \in Member, NEW group \in {"normal", "replace"},
         PerformFile(s, group) \/ FailFile(s, group)
  PROVE  CollisionsInv'
<1> USE DEF CollisionsInv
<1>1. /\ UNCHANGED <<named, inside, moving, plan, stage, approved>> /\ stage = "running"
      /\ done' = done \cup {s} /\ s \notin done /\ plan[s].group = group
  BY DEF PerformFile, FailFile, RunFrame, batchVars, IsNext, Waits
<1>2. named \in [Member -> FileName] /\ named[s] \in FileName
  BY DEF CollisionsTypeOK
<1>3. Contents(s) \in FileName \cup Member \cup {Nothing}
  BY <1>2 DEF Contents, CollisionsTypeOK
<1>4. \/ UNCHANGED folder
      \/ \E m \in FileName : (m = plan[s].as \/ ~IsTaken(m)) /\ Arrives(s, m)
  <2>1. plan[s] \in [group: {"normal", "replace"}, as: FileName]
    BY <1>1 DEF CollisionsTypeOK, Plan, Unplanned, Skipped
  <2>2. plan[s].as \in FileName
    BY <2>1
  <2> QED
    BY <2>2, Zenon DEF PerformFile, FailFile
<1>5. folder' \in [FileName -> FileName \cup Member \cup {Nothing}]
  BY <1>3, <1>4 DEF Arrives, CollisionsTypeOK
<1>6. ASSUME NEW t \in Member, plan[t].group = "replace", t \notin done, t # s
      PROVE  folder'[named[t]] = folder[named[t]]
  <2>1. named[t] \in FileName /\ named[t] # named[s] /\ IsTaken(named[t])
    <3>1. folder[named[t]] \in approved
      BY <1>6 DEF ReplacementsHold
    <3> QED
      BY <1>2, <1>6, <3>1 DEF NamesDiffer, OnlyApproved, IsTaken
  <2>2. plan[s].as # named[t]
    <3>1. CASE group = "normal"
      BY <1>1, <1>6, <3>1 DEF GroupsAreApart
    <3>2. CASE group = "replace"
      BY <1>1, <2>1, <3>2 DEF ReplacementsHold
    <3> QED
      BY <3>1, <3>2
  <2> QED
    BY <1>4, <2>1, <2>2 DEF Arrives
<1>7. CollisionsTypeOK' /\ NamesDiffer' /\ GroupsAreApart' /\ NamesAreFree'
  BY <1>1, <1>5 DEF CollisionsTypeOK, NamesDiffer, GroupsAreApart, NamesAreFree
<1>8. ReplacementsHold'
  BY <1>1, <1>6 DEF ReplacementsHold
<1>9. replaced' \subseteq replaced \cup approved
  <2>1. CASE group = "normal"
    BY <2>1 DEF PerformFile, FailFile, IsConfirmed
  <2>2. CASE group = "replace"
    <3>1. folder[plan[s].as] \in approved
      BY <1>1, <2>2 DEF ReplacementsHold
    <3>2. UNCHANGED replaced \/ replaced' = replaced \cup {folder[plan[s].as]}
      BY DEF PerformFile, FailFile
    <3> QED
      BY <3>1, <3>2
  <2> QED
    BY <2>1, <2>2
<1>10. OnlyApproved'
  BY <1>1, <1>9 DEF OnlyApproved
<1> QED
  BY <1>7, <1>8, <1>10

\* Every step of the Shell thread keeps the invariant.
LEMMA CollisionsStep == CollisionsInv /\ [CollisionsNext]_collisionVars => CollisionsInv'
<1> SUFFICES ASSUME CollisionsInv, [CollisionsNext]_collisionVars PROVE CollisionsInv'
  OBVIOUS
<1> USE DEF CollisionsInv
<1>1. CASE UNCHANGED collisionVars
  BY <1>1 DEF collisionVars, batchVars, CollisionsTypeOK, NamesDiffer, ReplacementsHold, GroupsAreApart,
              NamesAreFree, OnlyApproved, IsTaken
<1>2. CASE PrepareUnopposed
  <2>1. named[turn] \in FileName
    BY <1>2 DEF PrepareUnopposed, ToPrepare, CollisionsTypeOK
  <2>2. [group |-> "normal", as |-> named[turn]] \in Plan
    BY <2>1 DEF Plan
  <2> QED
    BY <1>2, <2>1, <2>2, PlanningKeeps DEF PrepareUnopposed
<1>3. ASSUME NEW choice \in Decision, NEW all \in BOOLEAN, PrepareAsked(choice, all)
      PROVE  CollisionsInv'
  BY <1>3, DecisionsKeep DEF PrepareAsked
<1>4. CASE PrepareAsBefore
  <2>1. forAll \in Decision
    BY <1>4 DEF PrepareAsBefore, Decided, Decision
  <2> QED
    BY <1>4, <2>1, DecisionsKeep DEF PrepareAsBefore
<1>5. CASE Prepared \/ Stops
  <2>1. UNCHANGED <<named, inside, folder, plan, done, approved, replaced>>
        /\ stage' \in {"running", "ended"}
    BY <1>5 DEF Prepared, Stops, batchVars
  <2> QED
    BY <2>1 DEF CollisionsTypeOK, NamesDiffer, ReplacementsHold, GroupsAreApart, NamesAreFree, OnlyApproved
<1>6. CASE Execute
  BY <1>6, PerformingKeeps DEF Execute
<1> QED
  BY <1>1, <1>2, <1>3, <1>4, <1>5, <1>6 DEF CollisionsNext, Prepare

\* The invariant of a batch without equal names: what is to be replaced has
\* been approved and is still there, and nothing else gets to its name
\* (conflicts.rs:22-125, shell_ops.rs:131-139).
THEOREM CollisionsInvariant == ~SameNames => (CollisionsSpec => []CollisionsInv)
<1> SUFFICES ASSUME ~SameNames PROVE CollisionsSpec => []CollisionsInv
  OBVIOUS
<1>1. CollisionsInit => CollisionsInv
  BY BatchStarts
<1> QED
  BY <1>1, CollisionsStep, PTL DEF CollisionsSpec

\* Without equal names nothing is replaced unasked but approved files.
THEOREM CollisionsSafe == ~SameNames => (CollisionsSpec => []ReplacedIsApproved)
<1> SUFFICES ASSUME ~SameNames PROVE CollisionsSpec => []ReplacedIsApproved
  OBVIOUS
<1>1. CollisionsInv => ReplacedIsApproved
  BY DEF CollisionsInv, OnlyApproved, ReplacedIsApproved
<1> QED
  BY <1>1, CollisionsInvariant, PTL
==============================================================================
