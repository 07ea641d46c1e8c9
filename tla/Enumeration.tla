----------------------------- MODULE Enumeration -----------------------------
(***************************************************************************)
(* Opening and refreshing folders: the path of a request from the command  *)
(* dispatcher of the window (apps/kova-desktop/src/bridges.rs) through the *)
(* filesystem worker (crates/kova-ops/src/worker.rs) and the event pump of *)
(* the window (main.rs) to the controller (app_state.rs), with the         *)
(* background transform of large folders (search.rs).                      *)
(*                                                                         *)
(* Threads.  The dispatcher, the pump and the controller run on the UI     *)
(* thread, so one callback or one event is one action.  The worker is a    *)
(* task that takes commands in order, each enumeration is a task of its    *)
(* own, and the view worker is a thread that takes jobs in order.          *)
(*                                                                         *)
(* Data.  A folder's listing is the version of the folder it was read at,  *)
(* so "read before" is "<".  A row set is the listing it was made from and *)
(* the view (search and filters, order, hidden files) it was made with.    *)
(* A HashMap from tabs to snapshots is a set of records with a tab field.  *)
(* Selection is the subject of module FolderView, the watcher that starts  *)
(* background refreshes of module LiveUpdates.                             *)
(***************************************************************************)
EXTENDS Naturals, Sequences, FiniteSets, NavigationHistory

CONSTANTS
  MaxTab,        \* tabs the window may ever create (TabId never comes back)
  Location, Home,
  Virtual,       \* collections and tags: lists of references, not folders
  LargeContent,  \* versions with at least BACKGROUND_THRESHOLD entries
  Query, NoQuery,\* search text and filters of a tab
  Order, ByName, \* sort descriptors
  Inputs,        \* the kinds of input considered, a subset of InputKinds
  MaxInputs      \* inputs of the user and of the outside world in a behaviour

InputKinds == {"navigate", "deadend", "refresh", "tabs", "view", "watch", "fileop", "disk", "menu"}

ASSUME EnumerationAssumption ==
  /\ MaxTab \in Nat \ {0}
  /\ Home \in Location
  /\ Virtual \subseteq Location \ {Home}
  /\ LargeContent \subseteq Nat \ {0}
  /\ NoQuery \in Query
  /\ ByName \in Order
  /\ Inputs \subseteq InputKinds
  /\ MaxInputs \in Nat

Tab == 1..MaxTab

VARIABLES
  \* TabCollection (tab.rs)
  open, active, nextTab, history,
  \* AppController (app_state.rs)
  query, order, showHidden, request, pending, background, errors,
  snapshots, sources, viewGeneration, viewPending,
  \* GenerationCounter (worker.rs)
  generation,
  \* the filesystem worker, its enumerations and the events on their way to
  \* the window (channels and the pump's deferred_events, in order)
  commands, tasks, events,
  \* the view worker (search.rs): its job queue, the job it transforms, the
  \* result it waits to hand over, and the channel of one result
  jobs, transforming, sending, results,
  \* a file menu or an inline edit is visible
  menu, inline,
  \* the outside: the version of every folder; and the number of inputs
  disk, inputs,
  \* history variable: the version of the folder when the tab last asked
  asked

tabVars    == <<open, active, nextTab, history>>
viewParams == <<query, order, showHidden>>
asking     == <<request, generation, asked>>
status     == <<pending, background, errors>>
rowVars    == <<snapshots, sources>>
viewVars   == <<viewGeneration, viewPending, jobs, transforming, sending, results>>
workerVars == <<commands, tasks, events>>
uiVars     == <<menu, inline>>
vars == <<tabVars, viewParams, asking, status, rowVars, viewVars, workerVars,
          uiVars, disk, inputs>>

------------------------------------------------------------------------------
\* Records.

Unread == 0       \* the content of an enumeration that has not read yet

View == [query: Query, order: Order, hidden: BOOLEAN]

Snapshot == [tab: Tab, location: Location, request: Nat, content: Nat, view: View]

\* A DirectorySnapshot on its way, or kept whole as a source.
Listing == [tab: Tab, location: Location, request: Nat, content: Nat]

Command == [kind: {"Enumerate", "EnumerateReferences", "CancelEnumeration", "FileOperation"},
            tab: Tab, location: Location, request: Nat, content: Nat]

Event == [kind: {"DirectoryLoaded", "DirectoryError", "FilesChanged"},
          tab: Tab, location: Location, request: Nat, content: Nat]

Task == [kind: {"Enumerate", "EnumerateReferences"},
         tab: Tab, location: Location, request: Nat, content: Nat]

Job == [tab: Tab, generation: Nat, location: Location, request: Nat,
        content: Nat, view: View]

Place(t) == history[t].current

ViewOf(t) == [query |-> query[t], order |-> order[t], hidden |-> showHidden]

AtHome   == {t \in Tab : Place(t) = Home}

HasSnapshot(t) == \E s \in snapshots : s.tab = t
HasSource(t)   == \E s \in sources : s.tab = t

\* Mutation of IsCurrent: any answer for an open tab is taken.
IsCurrentAnyRequest(t, r) == t \in open

\* is_current_request (app_state.rs:354): closing a tab removes its entry,
\* which here is the tab no longer being open.
IsCurrent(t, r) == t \in open /\ request[t] = r

IsLoading(t) ==
  \/ t \in pending \ background
  \/ t \in viewPending /\ ~HasSnapshot(t)

\* Every enumeration of a set S of tabs is sent; the order is that of the tab
\* strip, which is abstracted, so any order.
Orders(S) ==
  {f \in [1..Cardinality(S) -> S] : \A i, j \in 1..Cardinality(S) : f[i] = f[j] => i = j}

------------------------------------------------------------------------------
\* Pieces of the controller and the dispatcher, with the history after the
\* command in hand (a navigation requests the place it has just moved to).

\* cancel_view of every tab of S: a generation is bumped if there is one.
Bumped(S) ==
  [t \in Tab |-> IF t \in S /\ viewGeneration[t] > 0
                 THEN viewGeneration[t] + 1 ELSE viewGeneration[t]]

EnumerationCommand(t, l, r) ==
  IF l = Home
  THEN [kind |-> "CancelEnumeration", tab |-> t, location |-> l, request |-> r,
        content |-> Unread]
  ELSE IF l \in Virtual   \* the references are taken from the library now
  THEN [kind |-> "EnumerateReferences", tab |-> t, location |-> l, request |-> r,
        content |-> disk[l]]
  ELSE [kind |-> "Enumerate", tab |-> t, location |-> l, request |-> r,
        content |-> Unread]

\* next_request_id for every tab of S; a closed tab loses its counter and its
\* current request.
Ask(S, closed) ==
  /\ generation' = [t \in Tab |-> IF t \in closed THEN 0
                                  ELSE IF t \in S THEN generation[t] + 1 ELSE generation[t]]
  /\ request' = [t \in Tab |-> IF t \in closed THEN 0
                               ELSE IF t \in S THEN generation[t] + 1 ELSE request[t]]
  /\ asked' = [t \in Tab |-> IF t \in S THEN disk[history'[t].current] ELSE asked[t]]

\* The commands sent for S in the order f, after the cancellation of the
\* closed tabs.
Sent(f, closed) ==
  LET cancels == {EnumerationCommand(t, Home, 0) : t \in closed}
  IN  \E g \in Orders(cancels) :
        commands' = commands \o g
          \o [i \in DOMAIN f |->
                EnumerationCommand(f[i], history'[f[i]].current, request'[f[i]])]

\* What the controller keeps of the rows it shows when the tabs of S ask
\* again: rows of the same place stay until the answer; Home has no files and
\* is shown at once.
KeptRows(S, closed) ==
  {s \in snapshots : /\ s.tab \notin closed
                     /\ s.tab \in S => /\ s.location = history'[s.tab].current
                                       /\ s.location # Home}

HomeRows(S) ==
  {[tab |-> t, location |-> Home, request |-> request'[t], content |-> disk[Home],
    view |-> ViewOf(t)'] : t \in {u \in S : history'[u].current = Home}}

\* close_tab of the tabs of `closed`, then request_enumeration for every tab
\* of S (bridges.rs enumerate with background = false, app_state.rs
\* record_request, and apply_snapshot of the empty snapshot of Home).
\* A job of a closed tab holds the counter close_tab has bumped.
RequestEnumeration(S, closed) ==
  LET loading == {t \in S : history'[t].current # Home}
  IN  /\ Ask(S, closed)
      /\ viewGeneration' = Bumped(S \cup closed)
      /\ viewPending' = viewPending \ (S \cup closed)
      /\ sources' = {s \in sources : s.tab \notin S \cup closed}
      /\ snapshots' = KeptRows(S, closed) \cup HomeRows(S)
      /\ pending' = (pending \ (S \cup closed)) \cup loading
      /\ background' = background \ (S \cup closed)
      /\ errors' = errors \ (S \cup closed)
      /\ \E f \in Orders(S) : Sent(f, closed)
      /\ UNCHANGED <<tasks, jobs, transforming, sending, results>>

\* Mutation of JobFor: the job takes the generation before the bump.
JobForOldGeneration(t, s, v) ==
  [tab |-> t, generation |-> viewGeneration[t], location |-> s.location,
   request |-> s.request, content |-> s.content, view |-> v]

JobFor(t, s, v) ==
  [tab |-> t, generation |-> viewGeneration[t] + 1, location |-> s.location,
   request |-> s.request, content |-> s.content, view |-> v]

SourceOf(t) == CHOOSE s \in sources : s.tab = t

\* schedule_view for every tab of S that has a source: a new generation and
\* a job with the view of now.  The view worker can be started, and takes the
\* job (app_state.rs:704-714 and 729 handle what fails there).
ScheduleViews(S) ==
  /\ viewGeneration' = [t \in Tab |-> IF t \in S THEN viewGeneration[t] + 1
                                      ELSE viewGeneration[t]]
  /\ viewPending' = viewPending \cup S
  /\ \E f \in Orders(S) :
       jobs' = jobs \o [i \in DOMAIN f |-> JobFor(f[i], SourceOf(f[i]), ViewOf(f[i])')]
  /\ UNCHANGED <<transforming, sending, results>>

\* refilter of the tabs of S: a tab with a source gets a new job, the rows of
\* the others are partitioned and sorted again on the spot.
Refilter(S) ==
  /\ ScheduleViews({t \in S : HasSource(t)})
  /\ snapshots' = {IF s.tab \in S /\ ~HasSource(s.tab)
                   THEN [s EXCEPT !.view = ViewOf(s.tab)'] ELSE s : s \in snapshots}
  /\ UNCHANGED <<tabVars, sources, asking, status, workerVars, uiVars, disk>>

------------------------------------------------------------------------------
\* Start: the tabs of the restored session, none of them enumerated yet, and
\* the first enumeration of the active one (main.rs:452-461).
Init ==
  \E k \in Tab, a \in Tab, places \in [Tab -> Location] :
    /\ a <= k
    /\ \A t \in Tab : t > k => places[t] = Home
    /\ open = 1..k /\ active = a /\ nextTab = k + 1
    /\ history = [t \in Tab |-> NewHistory(places[t])]
    /\ query = [t \in Tab |-> NoQuery]
    /\ order = [t \in Tab |-> ByName]
    /\ showHidden = FALSE
    /\ disk = [l \in Location |-> 1]
    /\ generation = [t \in Tab |-> IF t = a THEN 1 ELSE 0]
    /\ request = generation
    /\ asked = [t \in Tab |-> IF t = a THEN 1 ELSE 0]
    /\ pending = {a} \ {t \in Tab : places[t] = Home}
    /\ background = {} /\ errors = {}
    /\ snapshots = IF places[a] = Home
                   THEN {[tab |-> a, location |-> Home, request |-> 1, content |-> 1,
                          view |-> ViewOf(a)]}
                   ELSE {}
    /\ sources = {}
    /\ viewGeneration = [t \in Tab |-> 0] /\ viewPending = {}
    /\ commands = <<EnumerationCommand(a, places[a], 1)>>
    /\ tasks = {} /\ events = <<>>
    /\ jobs = <<>> /\ transforming = {} /\ sending = {} /\ results = <<>>
    /\ menu = FALSE /\ inline = FALSE
    /\ inputs = 0

------------------------------------------------------------------------------
\* Commands of the user, each one input.

Input(kind) == /\ kind \in Inputs
               /\ inputs < MaxInputs
               /\ inputs' = inputs + 1

\* navigate, parent and opening a folder row: the search and the filters of
\* the tab are forgotten, its order is kept.
Navigate(l) ==
  /\ Input("navigate")
  /\ history' = [history EXCEPT ![active] = NavigateTo(@, l)]
  /\ query' = [query EXCEPT ![active] = NoQuery]
  /\ UNCHANGED <<open, active, nextTab, order, showHidden, uiVars, disk, events>>
  /\ RequestEnumeration({active}, {})

\* Back and Forward move along the history; what they do at its ends is the
\* action NavigateNowhere.
NavigateBack ==
  /\ Input("navigate")
  /\ CanGoBack(history[active])
  /\ history' = [history EXCEPT ![active] = GoBack(@)]
  /\ query' = [query EXCEPT ![active] = NoQuery]
  /\ UNCHANGED <<open, active, nextTab, order, showHidden, uiVars, disk, events>>
  /\ RequestEnumeration({active}, {})

NavigateForward ==
  /\ Input("navigate")
  /\ CanGoForward(history[active])
  /\ history' = [history EXCEPT ![active] = GoForward(@)]
  /\ query' = [query EXCEPT ![active] = NoQuery]
  /\ UNCHANGED <<open, active, nextTab, order, showHidden, uiVars, disk, events>>
  /\ RequestEnumeration({active}, {})

\* Alt+Left, Alt+Right and the mouse buttons ask for Back and Forward even at
\* the end of the history (main.slint:667,784).  The search and the filters
\* are forgotten before the history is looked at, then nothing else happens.
NavigateNowhere ==
  /\ Input("deadend")
  /\ ~CanGoBack(history[active]) \/ ~CanGoForward(history[active])
  /\ query' = [query EXCEPT ![active] = NoQuery]
  /\ UNCHANGED <<tabVars, order, showHidden, asking, status, rowVars, viewVars,
                 workerVars, uiVars, disk>>

\* refresh of the active tab; a change of drives asks for any set of tabs,
\* the outcome of a file operation for all of them (main.rs:418-443,656,676).
Refresh(S) ==
  /\ Input("refresh")
  /\ UNCHANGED <<tabVars, viewParams, uiVars, disk, events>>
  /\ RequestEnumeration(S, {})

\* A new tab (Home), a duplicate of the active one, or a folder opened in a
\* tab of its own.
OpenTab(l) ==
  /\ Input("tabs")
  /\ nextTab \in Tab
  /\ open' = open \cup {nextTab} /\ active' = nextTab /\ nextTab' = nextTab + 1
  /\ history' = [history EXCEPT ![nextTab] = NewHistory(l)]
  /\ UNCHANGED <<viewParams, uiVars, disk, events>>
  /\ RequestEnumeration({nextTab}, {})

\* needs_enumeration of the tab that becomes active.
NeedsEnumeration(t) ==
  /\ t \notin pending /\ t \notin errors
  /\ ~HasSnapshot(t)

\* The last tab cannot be closed.  If the active one is closed a neighbour
\* becomes active (which one is abstracted with the order of the strip).
CloseTab(t, neighbour) ==
  /\ Input("tabs")
  /\ t \in open /\ neighbour \in open \ {t}
  /\ t # active => neighbour = active
  /\ open' = open \ {t} /\ active' = neighbour
  /\ UNCHANGED <<nextTab, history, viewParams, uiVars, disk, events>>
  /\ RequestEnumeration({u \in {neighbour} : NeedsEnumeration(u)}, {t})

SwitchTab(t) ==
  /\ Input("tabs")
  /\ t \in open \ {active}
  /\ active' = t
  /\ UNCHANGED <<open, nextTab, history, viewParams, uiVars, disk, events>>
  /\ RequestEnumeration({u \in {t} : NeedsEnumeration(u)}, {})

\* set_search and the filter menu; both refilter the active tab only.
SetQuery(q) ==
  /\ Input("view")
  /\ q # query[active]
  /\ query' = [query EXCEPT ![active] = q]
  /\ UNCHANGED <<order, showHidden>>
  /\ Refilter({active})

\* set_sort: rows of a small folder are only sorted again, so they keep the
\* search they were filtered with.
SetSort(o) ==
  /\ Input("view")
  /\ o # order[active]
  /\ order' = [order EXCEPT ![active] = o]
  /\ UNCHANGED <<query, showHidden>>
  /\ ScheduleViews({t \in {active} : HasSource(t)})
  /\ snapshots' = {IF s.tab = active /\ ~HasSource(active)
                   THEN [s EXCEPT !.view.order = o] ELSE s : s \in snapshots}
  /\ UNCHANGED <<tabVars, sources, asking, status, workerVars, uiVars, disk>>

\* set_visibility refilters every tab.
SetVisibility ==
  /\ Input("view")
  /\ showHidden' = ~showHidden
  /\ UNCHANGED <<query, order>>
  /\ Refilter(Tab)

\* A notification of the directory watcher; a tab with a request in flight is
\* left alone (bridges.rs:89, app_state.rs:165).  The notification may be about
\* the place the tab has left for Home since: the empty answer of Home finds
\* nothing new and settles at once.
RefreshBackground(t) ==
  /\ Input("watch")
  /\ t \in open \ pending
  /\ Place(t) = Home => HasSnapshot(t)
  /\ ~(inline /\ t = active) /\ ~(menu /\ t = active)
  /\ UNCHANGED <<tabVars, viewParams, errors, rowVars, viewVars, tasks, events,
                 uiVars, disk>>
  /\ Ask({t}, {})
  /\ pending' = pending \cup ({t} \ AtHome)
  /\ background' = background \cup ({t} \ AtHome)
  /\ commands' = Append(commands, EnumerationCommand(t, Place(t), request'[t]))

\* New folder, rename or undo in a folder: a command to the same worker.
RequestFileOperation(l) ==
  /\ Input("fileop")
  /\ l \in Location \ ({Home} \cup Virtual)
  /\ commands' = Append(commands, [kind |-> "FileOperation", tab |-> active, location |-> l,
                                   request |-> 0, content |-> Unread])
  /\ UNCHANGED <<tabVars, viewParams, asking, status, rowVars, viewVars, tasks,
                 events, uiVars, disk>>

\* Another program writes to a folder, or the library changes a collection.
DiskChanges(l) ==
  /\ Input("disk")
  /\ l # Home
  /\ disk' = [disk EXCEPT ![l] = @ + 1]
  /\ UNCHANGED <<tabVars, viewParams, asking, status, rowVars, viewVars,
                 workerVars, uiVars>>

\* The file menu and the inline name editor open and close.
OpenMenuOrEdit ==
  /\ Input("menu")
  /\ ~menu /\ ~inline
  /\ \/ menu' = TRUE /\ UNCHANGED inline
     \/ inline' = TRUE /\ UNCHANGED menu
  /\ UNCHANGED <<tabVars, viewParams, asking, status, rowVars, viewVars,
                 workerVars, disk>>

CloseMenuOrEdit ==
  /\ menu \/ inline
  /\ menu' = FALSE /\ inline' = FALSE
  /\ UNCHANGED <<tabVars, viewParams, asking, status, rowVars, viewVars,
                 workerVars, disk, inputs>>

------------------------------------------------------------------------------
\* The filesystem worker takes one command at a time.

WorkerFrame == UNCHANGED <<tabVars, viewParams, asking, status, rowVars, viewVars,
                           uiVars, inputs>>

\* Mutation of Abort: enumerations of other tabs are stopped as well.
AbortAnyTab(t, left) == left \in SUBSET tasks

\* An aborted enumeration usually ends without a word; one that is past its
\* last await still sends its event.
Abort(t, left) ==
  /\ left \in SUBSET tasks
  /\ \A k \in tasks \ left : k.tab = t

WorkerCancel ==
  /\ commands # <<>> /\ Head(commands).kind = "CancelEnumeration"
  /\ commands' = Tail(commands)
  /\ \E left \in SUBSET tasks :
       Abort(Head(commands).tab, left) /\ tasks' = left
  /\ UNCHANGED <<events, disk>> /\ WorkerFrame

WorkerEnumerate ==
  /\ commands # <<>> /\ Head(commands).kind \in {"Enumerate", "EnumerateReferences"}
  /\ commands' = Tail(commands)
  /\ \E left \in SUBSET tasks :
       Abort(Head(commands).tab, left) /\ tasks' = left \cup {Head(commands)}
  /\ UNCHANGED <<events, disk>> /\ WorkerFrame

\* NewFolder, Rename and Undo are awaited by the worker itself: the commands
\* behind them wait.  A success is told to the window; a failure only shows a
\* message, except that a failed restore reconciles as well (worker.rs:119).
WorkerFileOperation ==
  /\ commands # <<>> /\ Head(commands).kind = "FileOperation"
  /\ commands' = Tail(commands)
  /\ \/ /\ (disk' = [disk EXCEPT ![Head(commands).location] = @ + 1] \/ UNCHANGED disk)
        /\ events' = Append(events, [Head(commands) EXCEPT !.kind = "FilesChanged"])
     \/ UNCHANGED <<disk, events>>
  /\ UNCHANGED tasks /\ WorkerFrame

\* The listing shows the folder as it was when the enumeration began to read.
EnumerationReads(k) ==
  /\ k \in tasks /\ k.content = Unread
  /\ tasks' = (tasks \ {k}) \cup {[k EXCEPT !.content = disk[k.location]]}
  /\ UNCHANGED <<commands, events, disk>> /\ WorkerFrame

EnumerationLoads(k) ==
  /\ k \in tasks /\ k.content # Unread
  /\ tasks' = tasks \ {k}
  /\ events' = Append(events, [k EXCEPT !.kind = "DirectoryLoaded"])
  /\ UNCHANGED <<commands, disk>> /\ WorkerFrame

\* Mutation of EnumerationFails: the error is not told to the window.
EnumerationFailsSilently(k) ==
  /\ k \in tasks /\ k.kind = "Enumerate" /\ k.content = Unread
  /\ tasks' = tasks \ {k}
  /\ UNCHANGED <<commands, events, disk>> /\ WorkerFrame

EnumerationFails(k) ==
  /\ k \in tasks /\ k.kind = "Enumerate" /\ k.content = Unread
  /\ tasks' = tasks \ {k}
  /\ events' = Append(events, [k EXCEPT !.kind = "DirectoryError"])
  /\ UNCHANGED <<commands, disk>> /\ WorkerFrame

------------------------------------------------------------------------------
\* The view worker.

ViewFrame == UNCHANGED <<tabVars, viewParams, asking, status, rowVars, workerVars,
                         uiVars, disk, inputs, viewGeneration, viewPending>>

IsLatest(j) == viewGeneration[j.tab] = j.generation

\* A job that is already out of date is dropped at once.
ViewWorkerTakes ==
  /\ jobs # <<>> /\ transforming = {} /\ sending = {}
  /\ jobs' = Tail(jobs)
  /\ transforming' = IF IsLatest(Head(jobs)) THEN {Head(jobs)} ELSE {}
  /\ UNCHANGED <<sending, results>> /\ ViewFrame

\* The last look at the generation, after the transform.
ViewWorkerTransforms ==
  /\ \E j \in transforming : sending' = IF IsLatest(j) THEN {j} ELSE {}
  /\ transforming' = {}
  /\ UNCHANGED <<jobs, results>> /\ ViewFrame

\* Mutation of ViewWorkerSends: a result that finds the channel full is lost.
ViewWorkerSendsOrDrops ==
  /\ \E j \in sending : results' = IF results = <<>> THEN <<j>> ELSE results
  /\ sending' = {}
  /\ UNCHANGED <<jobs, transforming>> /\ ViewFrame

\* The channel holds one result; the worker waits while it is full.
ViewWorkerSends ==
  /\ results = <<>>
  /\ \E j \in sending : results' = <<j>>
  /\ sending' = {}
  /\ UNCHANGED <<jobs, transforming>> /\ ViewFrame

------------------------------------------------------------------------------
\* The event pump of the window (main.rs:487-632), one event at a time.

PumpFrame == UNCHANGED <<tabVars, viewParams, asking, commands, tasks, uiVars,
                         disk, inputs>>

IsAnswer(e) == e.kind \in {"DirectoryLoaded", "DirectoryError"}

CurrentAnswer(e) == IsAnswer(e) /\ IsCurrent(e.tab, e.request)

\* The answer to a background refresh waits behind the other events while a
\* menu is open, or while a name is edited in its tab.
MustWait(e) ==
  /\ CurrentAnswer(e) /\ e.tab \in background
  /\ menu \/ (inline /\ e.tab = active)

PumpDefers ==
  /\ events # <<>> /\ MustWait(Head(events))
  /\ events' = Append(Tail(events), Head(events))
  /\ UNCHANGED <<status, rowVars, viewVars>> /\ PumpFrame

\* An answer to any other request than the latest of an open tab.
PumpDropsStale ==
  /\ events # <<>> /\ IsAnswer(Head(events)) /\ ~CurrentAnswer(Head(events))
  /\ events' = Tail(events)
  /\ UNCHANGED <<status, rowVars, viewVars>> /\ PumpFrame

Ready == /\ events # <<>>
         /\ CurrentAnswer(Head(events)) /\ ~MustWait(Head(events))
         /\ events' = Tail(events)
         /\ PumpFrame

\* unchanged_entries: the whole listing is compared with the source if the
\* tab has one, else with the rows and the excluded entries.
Unchanged(e) ==
  \E s \in (IF HasSource(e.tab) THEN sources ELSE snapshots) :
    s.tab = e.tab /\ s.location = e.location /\ s.content = e.content

\* Mutation of Settle: the background mark is left behind.
SettleKeepsBackground(t) == /\ pending' = pending \ {t}
                            /\ errors' = errors \ {t}
                            /\ UNCHANGED background

Settle(t) == /\ pending' = pending \ {t}
             /\ background' = background \ {t}
             /\ errors' = errors \ {t}

\* A background refresh that found nothing new only ends; the view and its
\* pending transform go on.
ApplyUnchanged ==
  LET e == Head(events)
  IN  /\ Ready /\ e.kind = "DirectoryLoaded"
      /\ e.tab \in background /\ Unchanged(e)
      /\ Settle(e.tab)
      /\ UNCHANGED <<rowVars, viewVars>>

\* A large listing becomes the source of a transform; the request stays
\* pending until the view arrives.  cancel_view and schedule_view both take a
\* generation.
ApplyLarge ==
  LET e == Head(events)
      source == [tab |-> e.tab, location |-> e.location, request |-> e.request,
                 content |-> e.content]
      taken  == Bumped({e.tab})[e.tab] + 1
  IN  /\ Ready /\ e.kind = "DirectoryLoaded"
      /\ ~(e.tab \in background /\ Unchanged(e))
      /\ e.content \in LargeContent
      /\ sources' = {s \in sources : s.tab # e.tab} \cup {source}
      /\ viewGeneration' = [viewGeneration EXCEPT ![e.tab] = taken]
      /\ viewPending' = viewPending \cup {e.tab}
      /\ jobs' = Append(jobs, [tab |-> e.tab, generation |-> taken,
                               location |-> e.location, request |-> e.request,
                               content |-> e.content, view |-> ViewOf(e.tab)])
      /\ UNCHANGED <<status, snapshots, transforming, sending, results>>

\* Other listings are filtered and sorted on the spot.
ApplySmall ==
  LET e == Head(events)
  IN  /\ Ready /\ e.kind = "DirectoryLoaded"
      /\ ~(e.tab \in background /\ Unchanged(e))
      /\ e.content \notin LargeContent
      /\ sources' = {s \in sources : s.tab # e.tab}
      /\ viewGeneration' = Bumped({e.tab})
      /\ viewPending' = viewPending \ {e.tab}
      /\ snapshots' = {s \in snapshots : s.tab # e.tab}
           \cup {[tab |-> e.tab, location |-> e.location, request |-> e.request,
                  content |-> e.content, view |-> ViewOf(e.tab)]}
      /\ Settle(e.tab)
      /\ UNCHANGED <<jobs, transforming, sending, results>>

ApplyError ==
  LET e == Head(events)
  IN  /\ Ready /\ e.kind = "DirectoryError"
      /\ viewGeneration' = Bumped({e.tab})
      /\ viewPending' = viewPending \ {e.tab}
      /\ sources' = {s \in sources : s.tab # e.tab}
      /\ snapshots' = {s \in snapshots : s.tab # e.tab}
      /\ pending' = pending \ {e.tab}
      /\ background' = background \ {e.tab}
      /\ errors' = errors \cup {e.tab}
      /\ UNCHANGED <<jobs, transforming, sending, results>>

\* A finished file operation refreshes every tab.
PumpFilesChanged ==
  /\ events # <<>> /\ Head(events).kind = "FilesChanged"
  /\ events' = Tail(events)
  /\ UNCHANGED <<tabVars, viewParams, uiVars, disk, inputs>>
  /\ RequestEnumeration(open, {})

\* poll_views, not while a menu or an editor is open: only the result of the
\* tab's source and of its latest generation is shown; it completes the
\* enumeration if no later request was made.
\* Mutation of IsFresh: the generation is not looked at.
IsFreshAnyGeneration(r) ==
  \E s \in sources : s.tab = r.tab /\ s.request = r.request

IsFresh(r) ==
  /\ \E s \in sources : s.tab = r.tab /\ s.request = r.request
  /\ viewGeneration[r.tab] = r.generation

PollViews ==
  /\ ~menu /\ ~inline
  /\ results # <<>>
  /\ results' = <<>>
  /\ LET r == Head(results)
     IN  IF IsFresh(r)
         THEN /\ snapshots' = {s \in snapshots : s.tab # r.tab}
                   \cup {[tab |-> r.tab, location |-> r.location, request |-> r.request,
                          content |-> r.content, view |-> r.view]}
              /\ viewPending' = viewPending \ {r.tab}
              /\ errors' = errors \ {r.tab}
              /\ IF IsCurrent(r.tab, r.request)
                 THEN pending' = pending \ {r.tab} /\ background' = background \ {r.tab}
                 ELSE UNCHANGED <<pending, background>>
         ELSE UNCHANGED <<snapshots, viewPending, status>>
  /\ UNCHANGED <<sources, viewGeneration, jobs, transforming, sending, events>>
  /\ PumpFrame

------------------------------------------------------------------------------
User ==
  \/ \E l \in Location : Navigate(l) \/ OpenTab(l) \/ RequestFileOperation(l)
  \/ NavigateBack \/ NavigateForward \/ NavigateNowhere
  \/ \E S \in SUBSET open \ {{}} : Refresh(S)
  \/ \E t \in open : SwitchTab(t) \/ \E n \in open : CloseTab(t, n)
  \/ \E q \in Query : SetQuery(q)
  \/ \E o \in Order : SetSort(o)
  \/ SetVisibility
  \/ OpenMenuOrEdit

Outside ==
  \/ \E l \in Location : DiskChanges(l)
  \/ \E t \in open : RefreshBackground(t)

FilesystemWorker == WorkerCancel \/ WorkerEnumerate \/ WorkerFileOperation

EnumerationTask(k) == EnumerationReads(k) \/ EnumerationLoads(k) \/ EnumerationFails(k)

ViewWorker == ViewWorkerTakes \/ ViewWorkerTransforms \/ ViewWorkerSends

Pump ==
  \/ PumpDefers \/ PumpDropsStale \/ PumpFilesChanged
  \/ ApplyUnchanged \/ ApplyLarge \/ ApplySmall \/ ApplyError

Next ==
  \/ User \/ Outside \/ CloseMenuOrEdit
  \/ FilesystemWorker
  \/ \E k \in tasks : EnumerationTask(k)
  \/ ViewWorker
  \/ Pump \/ PollViews

Spec == Init /\ [][Next]_vars

\* The worker, its enumerations, the view worker and the timers of the window
\* keep running; the user is under no obligation, except to close a menu or
\* an editor at last.
Fairness ==
  /\ WF_vars(FilesystemWorker)
  /\ WF_vars(\E k \in tasks : EnumerationTask(k))
  /\ WF_vars(ViewWorker)
  /\ WF_vars(Pump) /\ WF_vars(PollViews)
  /\ WF_vars(CloseMenuOrEdit)

FairSpec == Spec /\ Fairness

------------------------------------------------------------------------------
\* Properties.

TypeOK ==
  /\ open \subseteq Tab /\ active \in open /\ nextTab \in 1..MaxTab + 1
  /\ history \in [Tab -> History(Location)]
  /\ query \in [Tab -> Query] /\ order \in [Tab -> Order] /\ showHidden \in BOOLEAN
  /\ request \in [Tab -> Nat] /\ generation \in [Tab -> Nat] /\ asked \in [Tab -> Nat]
  /\ pending \subseteq open /\ background \subseteq pending /\ errors \subseteq open
  /\ snapshots \subseteq Snapshot /\ sources \subseteq Listing
  /\ viewGeneration \in [Tab -> Nat] /\ viewPending \subseteq open
  /\ jobs \in Seq(Job) /\ transforming \subseteq Job /\ sending \subseteq Job
  /\ results \in Seq(Job)
  /\ commands \in Seq(Command) /\ tasks \subseteq Task /\ events \in Seq(Event)
  /\ menu \in BOOLEAN /\ inline \in BOOLEAN
  /\ disk \in [Location -> Nat \ {0}] /\ inputs \in 0..MaxInputs

\* The rows a tab shows are those of the place in its address bar, whatever
\* answers, errors and transforms of the places it has left are still under
\* way (bridges.rs enumerate, app_state.rs:285,361,734).
ShownIsPlace ==
  \A s \in snapshots : s.tab \in open /\ s.location = Place(s.tab)

\* A tab that is neither waiting for an answer nor for a transform shows a
\* listing read after its latest request: no refresh, including the one after
\* a rename or a new folder, ends with the rows of before it.
RestIsFresh ==
  \A s \in snapshots :
    s.tab \notin pending \cup viewPending => s.content >= asked[s.tab]

\* A tab that is not loading and not transforming shows its folder with the
\* search, the filters, the order and the visibility of now: no transform
\* started with older ones replaces a newer view (search.rs, app_state.rs:734).
\* Back at the end of the history (NavigateNowhere) breaks it.
RestIsInView ==
  \A s \in snapshots :
    s.tab \notin (pending \ background) \cup viewPending => s.view = ViewOf(s.tab)

\* Something under way will answer every tab that waits: its command is
\* queued, or its enumeration runs, or its event is on the way, or a
\* transform of its listing is.  No cancellation, abort or stale result
\* takes the answer away with it.
ToSet(s) == {s[i] : i \in DOMAIN s}

Carries(x, t) == x.tab = t /\ x.request = request[t]

TransformUnderWay(t, r) ==
  \E j \in ToSet(jobs) \cup transforming \cup sending \cup ToSet(results) :
    j.tab = t /\ j.request = r /\ j.generation = viewGeneration[t]

PendingIsServed ==
  \A t \in pending :
    \/ \E i \in DOMAIN commands : Carries(commands[i], t) /\ commands[i].kind # "CancelEnumeration"
    \/ \E k \in tasks : Carries(k, t)
    \/ \E i \in DOMAIN events : Carries(events[i], t) /\ IsAnswer(events[i])
    \/ TransformUnderWay(t, request[t])

ViewIsServed ==
  \A t \in viewPending : \E s \in sources : s.tab = t /\ TransformUnderWay(t, s.request)

\* The rows of a tab never go back to the answer of an earlier request.
RowsOnlyAdvance ==
  [][\A s \in snapshots, n \in snapshots' : s.tab = n.tab => s.request <= n.request]_vars

\* While an enumeration for the active tab is in flight and there is nothing
\* to show, the window says so: "True while an enumeration for the active tab
\* is in flight" (app_state.rs:150, of is_loading).
LoadingIsShown ==
  active \in pending /\ active \notin errors /\ ~HasSnapshot(active) => IsLoading(active)

\* Every tab that waits is answered or closed.
EveryRequestEnds == \A t \in Tab : []<>(t \notin pending)
EveryTransformEnds == \A t \in Tab : []<>(t \notin viewPending)

==============================================================================
