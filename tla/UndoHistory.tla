----------------------------- MODULE UndoHistory -----------------------------
(***************************************************************************)
(* The Undo of Kova (crates/kova-platform-windows/src/undo.rs): a bounded  *)
(* history of renames, moves and deletions that can be reversed, shared by *)
(* the file system worker, which renames and applies Undo, the Shell       *)
(* thread, which moves and deletes, and the window, which asks for the     *)
(* last entry.  Other programs change the same files meanwhile.            *)
(*                                                                         *)
(* The identity of a file (volume, index, size, modification time) is the  *)
(* file and its version.  A path is whole: its folder and its name.  The   *)
(* files are those whose operations capture does not refuse: regular files *)
(* on one volume.                                                          *)
(***************************************************************************)
EXTENDS Naturals, Sequences, Retain

CONSTANTS
  File, Path,
  Bin,          \* a place of its own in the Recycle Bin, one for each file
  Aside,        \* a new name that the Shell finds next to an occupied path
  Gone,         \* the place of a file that no longer exists
  MaxEntries,   \* entries kept (undo.rs:189, 210)
  MaxOperations, MaxOthers, MaxCommands   \* bounds of the model

ASSUME UndoHistoryAssumption ==
  /\ Bin \notin Path /\ Aside \notin Path /\ Gone \notin Path
  /\ Bin # Aside /\ Bin # Gone /\ Aside # Gone
  /\ MaxEntries \in Nat \ {0}
  /\ MaxOperations \in Nat /\ MaxOthers \in Nat /\ MaxCommands \in Nat

VARIABLES
  at, version,   \* the file system: the place and the version of each file
  entries, next, \* the history and its counter of identifiers
  applying,      \* the flag of an Undo that is running
  commands,      \* the commands sent to the file system worker
  worker,        \* what the worker is doing
  shell,         \* the operation of the Shell thread, finished or not
  reviewed,      \* the entry shown to the user for confirmation, or 0
  \* history variables: files removed by another program or by the replacement
  \* of what is in a path, which the user approved; what Undo has put back;
  \* operations begun, and actions of the other programs
  deleted, undone, operations, others

diskVars  == <<at, version, deleted>>
historyVars == <<entries, next>>
vars == <<diskVars, historyVars, applying, commands, worker, shell, reviewed,
          undone, operations, others>>

------------------------------------------------------------------------------
Place == Path \cup {Bin, Aside, Gone}

\* An entry holds one item for a rename or a move, the items of a whole
\* deletion otherwise.  `moved` is a history field: the file that the
\* operation moved, whatever file was captured.
Item == [file: File, version: Nat, original: Path, current: Path \cup {Bin}, moved: File]

Kind == {"relocate", "recycle"}

Entry == [id: Nat, kind: Kind, items: Seq(Item)]

Identifies(item, f) == item.file = f /\ item.version = version[f]

IsFree(p) == \A f \in File : at[f] # p

At(p) == {f \in File : at[f] = p}

Idle == [step |-> "idle"]

NoOperation == [kind |-> "none"]

\* Mutation of Pushed: the oldest entry stays.
PushedUnbounded(entry) == Append(entries, entry)

\* The push of a new entry, which may evict the oldest.
Pushed(entry) ==
  LET longer == Append(entries, entry)
  IN  IF Len(longer) > MaxEntries THEN Tail(longer) ELSE longer

\* The entry of a rename or a move m (undo.rs:155-185): the identity is that
\* of the file g found at the new path, after the operation.
MovedEntry(g, m) ==
  [id |-> next + 1, kind |-> "relocate",
   items |-> <<[file |-> g, version |-> version[g], original |-> m.from, current |-> m.to,
                moved |-> m.file]>>]

IsLast(id) == entries # <<>> /\ entries[Len(entries)].id = id

\* Mutation of Without: the newest entry is removed, whichever it is.
WithoutLast(id) == SubSeq(entries, 1, Len(entries) - 1)

Without(id) == Retain(entries, {i \in DOMAIN entries : entries[i].id # id})

\* Mutation of Pending: an item that has been restored stays.
PendingAll(e, item) == e

Pending(e, item) ==
  [e EXCEPT !.items = Retain(@, {i \in DOMAIN @ : @[i].file # item.file})]

------------------------------------------------------------------------------
Init ==
  /\ at \in [File -> Path] /\ \A f, g \in File : at[f] = at[g] => f = g
  /\ version = [f \in File |-> 0]
  /\ entries = <<>> /\ next = 0 /\ applying = FALSE
  /\ commands = <<>> /\ worker = Idle /\ shell = NoOperation /\ reviewed = 0
  /\ deleted = {} /\ undone = {} /\ operations = 0 /\ others = 0

------------------------------------------------------------------------------
\* The user, in the window.

UserFrame == UNCHANGED <<diskVars, historyVars, applying, worker, undone, others>>

Send(command) == Len(commands) < MaxCommands /\ commands' = Append(commands, command)

Begin == operations < MaxOperations /\ operations' = operations + 1

UserRenames(p, q) ==
  /\ Begin
  /\ Send([do |-> "rename", from |-> p, to |-> q])
  /\ UNCHANGED <<shell, reviewed>> /\ UserFrame

\* A transfer, begun when the one before has finished (module Transfers has
\* the queue).
UserMoves(p, q) ==
  /\ Begin
  /\ shell = NoOperation /\ p # q
  /\ shell' = [kind |-> "prepare", from |-> p, to |-> q]
  /\ UNCHANGED <<commands, reviewed>> /\ UserFrame

UserDeletes(todo) ==
  /\ Begin
  /\ shell = NoOperation
  /\ shell' = [kind |-> "delete", todo |-> todo, captured |-> <<>>]
  /\ UNCHANGED <<commands, reviewed>> /\ UserFrame

\* dispatch_undo (bridges.rs:74-81): refused while a transfer is unfinished.
DispatchUndo(id) ==
  IF shell = NoOperation THEN Send([do |-> "undo", id |-> id]) ELSE UNCHANGED commands

\* A deletion is undone without a review, a rename or a move after it.
UserAsksUndo ==
  /\ ~applying /\ entries # <<>>
  /\ LET last == entries[Len(entries)]
     IN  IF last.kind = "recycle"
         THEN DispatchUndo(last.id) /\ UNCHANGED reviewed
         ELSE reviewed' = last.id /\ UNCHANGED commands
  /\ UNCHANGED <<shell, operations>> /\ UserFrame

UserConfirms ==
  /\ reviewed # 0
  /\ DispatchUndo(reviewed)
  /\ reviewed' = 0
  /\ UNCHANGED <<shell, operations>> /\ UserFrame

------------------------------------------------------------------------------
\* The file system worker, one command at a time.

WorkerFrame == UNCHANGED <<shell, reviewed, operations, others>>

\* MoveFileW, which replaces nothing.
WorkerRenames ==
  /\ worker = Idle /\ commands # <<>> /\ Head(commands).do = "rename"
  /\ LET from == Head(commands).from
         to == Head(commands).to
     IN  \/ \E f \in At(from) :
              /\ from # to /\ IsFree(to)
              /\ at' = [at EXCEPT ![f] = to]
              /\ worker' = [step |-> "record", file |-> f, from |-> from, to |-> to]
         \/ (IsFree(from) \/ ~IsFree(to)) /\ UNCHANGED <<at, worker>>
  /\ commands' = Tail(commands)
  /\ UNCHANGED <<version, deleted, historyVars, applying, undone>> /\ WorkerFrame

\* record: the entry takes its number before the lock of the history, and is
\* pushed under it, after what the other thread may push in between.
WorkerRecords ==
  /\ worker.step = "record"
  /\ \/ IsFree(worker.to) /\ worker' = Idle /\ UNCHANGED next
     \/ \E g \in At(worker.to) :
          /\ worker' = [step |-> "push", entry |-> MovedEntry(g, worker)]
          /\ next' = next + 1
  /\ UNCHANGED <<diskVars, entries, applying, commands, undone>> /\ WorkerFrame

WorkerPushes ==
  /\ worker.step = "push"
  /\ entries' = Pushed(worker.entry)
  /\ worker' = Idle
  /\ UNCHANGED <<diskVars, next, applying, commands, undone>> /\ WorkerFrame

\* apply (undo.rs:228-248): only the last entry, if it is still the reviewed
\* one; a copy of its items is worked on.
WorkerBeginsUndo ==
  /\ worker = Idle /\ commands # <<>> /\ Head(commands).do = "undo"
  /\ LET id == Head(commands).id
     IN  IF IsLast(id)
         THEN /\ worker' = [step |-> "undo", id |-> id, kind |-> entries[Len(entries)].kind,
                            items |-> entries[Len(entries)].items, checked |-> FALSE]
              /\ applying' = TRUE
         ELSE UNCHANGED <<worker, applying>>
  /\ commands' = Tail(commands)
  /\ UNCHANGED <<diskVars, historyVars, undone>> /\ WorkerFrame

UndoFails ==
  /\ worker' = Idle /\ applying' = FALSE
  /\ UNCHANGED <<diskVars, historyVars, commands, undone>> /\ WorkerFrame

Unchecked == worker.step = "undo" /\ worker.items # <<>> /\ ~worker.checked

\* relocate (undo.rs:278-319): the open handle holds the checked file where it
\* is, and its rename replaces nothing.
WorkerRelocates ==
  /\ Unchecked /\ worker.kind = "relocate"
  /\ LET item == Head(worker.items)
         f == item.file
     IN  IF at[f] = item.current /\ Identifies(item, f) /\ IsFree(item.original)
         THEN /\ at' = [at EXCEPT ![f] = item.original]
              /\ undone' = undone \cup {[id |-> worker.id, file |-> f, moved |-> item.moved]}
              /\ worker' = [worker EXCEPT !.items = <<>>]
              /\ UNCHANGED <<version, deleted, historyVars, applying, commands>> /\ WorkerFrame
         ELSE UndoFails

\* restore (undo.rs:123-145): the identity and the original path are checked,
\* then the Shell moves the item.
WorkerChecksRecycled ==
  /\ Unchecked /\ worker.kind = "recycle"
  /\ LET item == Head(worker.items)
         f == item.file
     IN  IF at[f] = Bin /\ Identifies(item, f) /\ IsFree(item.original)
         THEN /\ worker' = [worker EXCEPT !.checked = TRUE]
              /\ UNCHANGED <<diskVars, historyVars, applying, commands, undone>> /\ WorkerFrame
         ELSE UndoFails

\* Mutation of OnCollision: the Shell replaces what has appeared.
OnCollisionReplaces(f, p) == [g \in File |-> IF g = f THEN p ELSE IF at[g] = p THEN Gone ELSE at[g]]

\* FOF_RENAMEONCOLLISION: a new name if a file has appeared since the check.
OnCollision(f, p) == [at EXCEPT ![f] = Aside]

\* The move may fail, or the item be gone; each item that succeeds leaves the
\* entry at once.
WorkerRestores ==
  /\ worker.step = "undo" /\ worker.items # <<>> /\ worker.checked
  /\ LET item == Head(worker.items)
         f == item.file
     IN  \/ UndoFails
         \/ /\ at[f] = Bin
            /\ at' = IF IsFree(item.original) THEN [at EXCEPT ![f] = item.original]
                                              ELSE OnCollision(f, item.original)
            /\ entries' = [i \in DOMAIN entries |->
                             IF entries[i].id = worker.id THEN Pending(entries[i], item)
                                                          ELSE entries[i]]
            /\ undone' = undone \cup {[id |-> worker.id, file |-> f, moved |-> item.moved]}
            /\ worker' = [worker EXCEPT !.items = Tail(@), !.checked = FALSE]
            /\ UNCHANGED <<version, deleted, next, applying, commands>> /\ WorkerFrame

WorkerEndsUndo ==
  /\ worker.step = "undo" /\ worker.items = <<>>
  /\ entries' = Without(worker.id)
  /\ worker' = Idle /\ applying' = FALSE
  /\ UNCHANGED <<diskVars, next, commands, undone>> /\ WorkerFrame

------------------------------------------------------------------------------
\* The Shell thread: the callbacks of IFileOperation (transfer_progress.rs).

ShellFrame == UNCHANGED <<applying, commands, worker, reviewed, undone, operations, others>>

\* prepare (conflicts.rs:24-116): if both paths hold a file, the user decides:
\* Skip and Cancel, Keep Both under a name that is free, or Replace.
ShellPrepares ==
  /\ shell.kind = "prepare"
  /\ LET move(q, replace) ==
           [kind |-> "move", from |-> shell.from, to |-> q, replace |-> replace]
     IN  IF IsFree(shell.from) \/ IsFree(shell.to)
         THEN shell' = move(shell.to, FALSE)
         ELSE \/ shell' = NoOperation
              \/ \E q \in Path : IsFree(q) /\ shell' = move(q, FALSE)
              \/ shell' = move(shell.to, TRUE)
  /\ UNCHANGED <<diskVars, historyVars>> /\ ShellFrame

\* The approved group replaces what is in the path by now, be it the file that
\* the user was shown or another one, with no question, and is not recorded
\* (shell_ops.rs:224-226); otherwise Windows asks about a
\* file that has appeared: the user approves its replacement or keeps both
\* files where they are.
ShellMoves ==
  /\ shell.kind = "move"
  /\ \/ \E f \in At(shell.from) :
          /\ at' = [g \in File |-> IF g = f THEN shell.to
                                   ELSE IF at[g] = shell.to THEN Gone ELSE at[g]]
          /\ deleted' = deleted \cup At(shell.to)
          /\ shell' = IF shell.replace THEN NoOperation
                      ELSE [kind |-> "record", file |-> f, from |-> shell.from, to |-> shell.to]
     \/ /\ IsFree(shell.from) \/ (~IsFree(shell.to) /\ ~shell.replace)
        /\ shell' = NoOperation
        /\ UNCHANGED <<at, deleted>>
  /\ UNCHANGED <<version, historyVars>> /\ ShellFrame

ShellRecords ==
  /\ shell.kind = "record"
  /\ \/ IsFree(shell.to) /\ shell' = NoOperation /\ UNCHANGED next
     \/ \E g \in At(shell.to) :
          /\ shell' = [kind |-> "push", entry |-> MovedEntry(g, shell)]
          /\ next' = next + 1
  /\ UNCHANGED <<diskVars, entries>> /\ ShellFrame

ShellPushes ==
  /\ shell.kind = "push"
  /\ entries' = Pushed(shell.entry)
  /\ shell' = NoOperation
  /\ UNCHANGED <<diskVars, next>> /\ ShellFrame

\* PostDeleteItem captures the recycled item.
ShellDeletes ==
  /\ shell.kind = "delete" /\ shell.todo # <<>>
  /\ LET p == Head(shell.todo)
     IN  \/ \E f \in At(p) :
              /\ at' = [at EXCEPT ![f] = Bin]
              /\ shell' = [shell EXCEPT !.todo = Tail(@),
                             !.captured = Append(@, [file |-> f, version |-> version[f],
                                                     original |-> p, current |-> Bin,
                                                     moved |-> f])]
         \/ /\ IsFree(p)
            /\ shell' = [shell EXCEPT !.todo = Tail(@)]
            /\ UNCHANGED at
  /\ UNCHANGED <<version, deleted, historyVars>> /\ ShellFrame

\* FinishOperations, after the last item or a cancellation; record_recycled
\* takes the number under the lock (undo.rs:196-214).
ShellFinishes ==
  /\ shell.kind = "delete"
  /\ IF shell.captured = <<>> THEN UNCHANGED historyVars
     ELSE /\ entries' = Pushed([id |-> next + 1, kind |-> "recycle", items |-> shell.captured])
          /\ next' = next + 1
  /\ shell' = NoOperation
  /\ UNCHANGED diskVars /\ ShellFrame

------------------------------------------------------------------------------
\* Other programs: a file is changed, moved, or deleted (also from the bin).
Other(f) ==
  /\ others < MaxOthers /\ others' = others + 1
  /\ at[f] # Gone
  /\ \/ /\ at[f] # Bin
        /\ version' = [version EXCEPT ![f] = @ + 1]
        /\ UNCHANGED <<at, deleted>>
     \/ /\ at[f] # Bin
        /\ \E p \in Path : IsFree(p) /\ at' = [at EXCEPT ![f] = p]
        /\ UNCHANGED <<version, deleted>>
     \/ /\ at' = [at EXCEPT ![f] = Gone]
        /\ deleted' = deleted \cup {f}
        /\ UNCHANGED version
  /\ UNCHANGED <<historyVars, applying, commands, worker, shell, reviewed, undone, operations>>

------------------------------------------------------------------------------
User ==
  \/ \E p, q \in Path : UserRenames(p, q)
  \/ \E p, q \in Path : UserMoves(p, q)
  \/ \E p, q \in Path : UserDeletes(IF p = q THEN <<p>> ELSE <<p, q>>)
  \/ UserAsksUndo \/ UserConfirms

Worker ==
  \/ WorkerRenames \/ WorkerRecords \/ WorkerPushes
  \/ WorkerBeginsUndo \/ WorkerRelocates \/ WorkerChecksRecycled
  \/ WorkerRestores \/ WorkerEndsUndo

Shell ==
  ShellPrepares \/ ShellMoves \/ ShellRecords \/ ShellPushes \/ ShellDeletes \/ ShellFinishes

Next == User \/ Worker \/ Shell \/ \E f \in File : Other(f)

Spec == Init /\ [][Next]_vars

------------------------------------------------------------------------------
\* Properties.

ItemsOf(e) == {e.items[i] : i \in DOMAIN e.items}

InHistory == {entries[i] : i \in DOMAIN entries}

TypeOK ==
  /\ at \in [File -> Place] /\ version \in [File -> Nat]
  /\ \A f, g \in File : at[f] = at[g] /\ at[f] \in Path => f = g
  /\ entries \in Seq(Entry) /\ Len(entries) <= MaxEntries
  /\ next \in Nat /\ \A e \in InHistory : e.id <= next
  /\ applying \in BOOLEAN /\ (applying <=> worker.step = "undo")
  /\ reviewed \in 0..next
  /\ deleted \subseteq File

\* A file that exists stays: no rename, no Undo, no deletion and no move for
\* which the user has approved no replacement removes another file, whatever
\* other programs do between its steps (MoveFileW, undo.rs:278-319, 123-145,
\* shell_ops.rs:212-226, 351-362).  Once the user has approved a replacement,
\* all that is then in its path counts as removed by it: nothing is said here
\* of a file that came there after the approval.
NoFileIsLost == \A f \in File : at[f] = Gone => f \in deleted

\* An item is put back at most once: what a partial restoration has put back
\* is not pending any more (undo.rs:258-267).
UndoOnce ==
  \A e \in InHistory : \A item \in ItemsOf(e) : \A u \in undone :
    u.id = e.id /\ u.file = item.file => worker.step = "undo" /\ worker.id = e.id

\* An operation stays undoable until it is undone or MaxEntries others have
\* been pushed after it, also when the two threads number, push and undo at
\* once and in any order (undo.rs:155-277).
PendingStays ==
  [][\A i \in DOMAIN entries : \A item \in ItemsOf(entries[i]) :
       \/ \E e \in InHistory' : e.id = entries[i].id /\ item \in ItemsOf(e)
       \/ \E u \in undone' : u.id = entries[i].id /\ u.file = item.file
       \/ /\ i = 1 /\ Len(entries) = MaxEntries
          /\ \E e \in InHistory' : \A d \in InHistory : d.id # e.id]_vars

==============================================================================
