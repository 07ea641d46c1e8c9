----------------------------- MODULE LiveUpdates -----------------------------
(***************************************************************************)
(* Automatic refresh: how a change on the disk reaches the tabs that show  *)
(* the folder.  The watcher thread                                         *)
(* (crates/kova-platform-windows/src/directory_watch.rs) owns the native   *)
(* notification handles and gathers bursts of notifications; the timer of  *)
(* the window (apps/kova-desktop/src/directory_watch.rs) tells it which    *)
(* folders to watch, takes the changed ones and asks for a background      *)
(* refresh of their tabs.  The refresh itself is the subject of module     *)
(* Enumeration; here it is a request that is asked, reads, and is answered. *)
(*                                                                         *)
(* The watcher and the window run at the same time and share the desired   *)
(* folders, a channel of one wake-up token, and the set of changed folders. *)
(* Time is counted in rounds of the watcher (its 50 ms tick).              *)
(***************************************************************************)
EXTENDS Naturals, FiniteSets

CONSTANTS
  Tab,
  Watchable,
  Viewed, Home,
  Virtual,      \* collections and tags, which have no folder of their own
  Roots,        \* the folders whose changes concern a location (none for Home)
  Closed,       \* the place of a tab that has been closed
  NoPaths,      \* no folders to take (desired = None)
  Inputs,       \* the kinds of input considered, a subset of InputKinds
  MaxInputs,    \* bound of the model: changes of place, tab, scope and sizes
  Quiet,        \* rounds without a notification that end a burst (QUIET)
  MaxDelay,     \* rounds after which a burst ends anyway (MAX_DELAY)
  Retry         \* rounds before a handle is tried again (RETRY)

EditKind == {"no", "name", "new folder", "menu"}

InputKinds == EditKind \cup {"navigate", "tabs", "scope", "sizes"}

ASSUME LiveUpdatesAssumption ==
  /\ Inputs \subseteq InputKinds
  /\ Home \in Viewed /\ Virtual \subseteq Viewed \ {Home} /\ Closed \notin Viewed
  /\ Roots \in [Viewed -> SUBSET Watchable] /\ Roots[Home] = {}
  /\ \A S \in SUBSET Watchable : NoPaths \notin [S -> BOOLEAN]
  /\ Quiet \in Nat \ {0} /\ MaxDelay \in Nat /\ Quiet <= MaxDelay
  /\ Retry \in Nat /\ MaxInputs \in Nat

VARIABLES
  \* the window: where the tabs are, which of them search below their folder,
  \* whether folder sizes are shown, and what is edited in the active tab
  place, active, recursive, sizes, editing,
  \* the request of a tab: none, asked, or read but not yet answered
  requested, background,
  \* the timer: its step, the places and modes of the last synchronisation
  \* (`previous`), and the tabs that wait for their refresh (`pending`)
  timer, previous, waiting,
  \* shared with the watcher: Option of the folders to watch, the wake-up
  \* token, and the changed folders
  desired, token, dirty,
  \* the watcher: its registrations
  watches,
  \* history variable: tabs whose folder changed since they last read it
  missed,
  \* how many inputs there have been
  inputs

uiVars      == <<place, active, recursive, sizes, editing>>
requestedVars == <<requested, background>>
timerVars   == <<timer, previous, waiting>>
liveVars == <<uiVars, requestedVars, timerVars, desired, token, dirty, watches, missed, inputs>>

------------------------------------------------------------------------------
\* A burst of notifications: rounds since its first (up to MaxDelay) and since
\* its last (up to Quiet).
NoBurst == [on |-> FALSE, first |-> 0, last |-> 0]

Changed(b) == IF b.on THEN [b EXCEPT !.last = 0]
                      ELSE [on |-> TRUE, first |-> 0, last |-> 0]

Elapsed(n, limit) == IF n < limit THEN n + 1 ELSE limit

Older(b) == IF b.on THEN [b EXCEPT !.first = Elapsed(@, MaxDelay), !.last = Elapsed(@, Quiet)]
                    ELSE b

\* Mutation of IsReady: a burst ends only when the folder is quiet.
IsReadyWhenQuiet(b) == b.on /\ b.last >= Quiet

IsReady(b) == b.on /\ (b.first >= MaxDelay \/ b.last >= Quiet)

\* The registration of a folder: `deep` is the code's `recursive`, the handle
\* is none, armed or signaled.
NewWatch(deep) == [deep |-> deep, handle |-> "none", retry |-> 0, burst |-> NoBurst]

OpenTabs == {t \in Tab : place[t] # Closed}

\* The folders that concern the tabs, each with its mode.
RootsOf(t) == IF t \in OpenTabs THEN Roots[place[t]] ELSE {}

Deep(t) == sizes \/ t \in recursive

Wanted ==
  [p \in UNION {RootsOf(t) : t \in OpenTabs} |->
     \E t \in OpenTabs : p \in RootsOf(t) /\ Deep(t)]

\* References are read one by one, whatever the scope.
SearchesBelow(t) == t \in recursive /\ place[t] \notin Virtual

Key == <<place, recursive, sizes>>

------------------------------------------------------------------------------
\* The session starts with its tabs restored, only the active one asked for; a
\* collection without references has nothing to show.
LiveInit ==
  /\ place \in [Tab -> Viewed]
  /\ active \in Tab
  /\ recursive = {} /\ sizes = FALSE /\ editing = "no"
  /\ requested = [t \in Tab |-> IF t = active /\ place[t] # Home THEN "asked" ELSE "none"]
  /\ background = {}
  /\ timer = "idle" /\ previous = <<>> /\ waiting = {}
  /\ desired = NoPaths /\ token = FALSE /\ dirty = {}
  /\ watches = [p \in {} |-> NewWatch(FALSE)]
  /\ missed = {t \in Tab : Roots[place[t]] # {}}
  /\ inputs = 0

------------------------------------------------------------------------------
\* The user.  All of it runs on the thread of the window, between two runs of
\* the timer.

InputFrame == UNCHANGED <<timerVars, desired, token, dirty, watches>>

\* Inputs that change what has to be watched.  A name may be edited, and a
\* menu opened, any number of times.
MayInput(kind) == timer = "idle" /\ kind \in Inputs /\ inputs < MaxInputs

Input(kind) == MayInput(kind) /\ inputs' = inputs + 1 /\ InputFrame

\* A foreground request replaces the one in flight; Home is answered at once.
Ask(t, l) ==
  /\ requested' = [requested EXCEPT ![t] = IF l = Home THEN "none" ELSE "asked"]
  /\ background' = background \ {t}

\* Leaving the place ends a menu and the edit of a name, not the creation of
\* a folder.
EditMayEnd == editing' \in {"no"} \cup ({editing} \cap {"new folder"})

NavigateTab(l) ==
  /\ Input("navigate")
  /\ l # place[active]
  /\ place' = [place EXCEPT ![active] = l]
  /\ Ask(active, l)
  /\ missed' = IF l = Home THEN missed \ {active} ELSE missed \cup {active}
  /\ EditMayEnd
  /\ UNCHANGED <<active, recursive, sizes>>

\* A tab that has never been enumerated is asked for now.
SwitchTab(t) ==
  /\ Input("tabs")
  /\ t \in OpenTabs \ {active}
  /\ active' = t /\ EditMayEnd
  /\ \/ UNCHANGED requestedVars
     \/ requested[t] = "none" /\ Ask(t, place[t])
  /\ UNCHANGED <<place, recursive, sizes, missed>>

Unmarked(t) == background \ {t}

\* An inactive tab is closed; closing the active one is a switch before it.
CloseTab(t) ==
  /\ Input("tabs")
  /\ t \in OpenTabs \ {active}
  /\ place' = [place EXCEPT ![t] = Closed]
  /\ requested' = [requested EXCEPT ![t] = "none"]
  /\ background' = Unmarked(t)
  /\ missed' = missed \ {t}
  /\ UNCHANGED <<active, recursive, sizes, editing>>

\* The scope of the search: a folder is read again (callbacks.rs:72-87).
SetScope ==
  /\ Input("scope")
  /\ recursive' = IF active \in recursive THEN recursive \ {active}
                                          ELSE recursive \cup {active}
  /\ IF place[active] \in {Home} \cup Virtual
     THEN UNCHANGED <<requestedVars, missed>>
     ELSE Ask(active, place[active]) /\ missed' = missed \cup {active}
  /\ UNCHANGED <<place, active, sizes, editing>>

SetFolderSizes ==
  /\ Input("sizes")
  /\ sizes' = ~sizes
  /\ UNCHANGED <<place, active, recursive, editing, requestedVars, missed>>

BeginEdit(e) ==
  /\ timer = "idle" /\ e \in Inputs \ {"no"}
  /\ editing = "no"
  /\ editing' = e
  /\ UNCHANGED <<place, active, recursive, sizes, requestedVars, missed, inputs>> /\ InputFrame

FinishEdit ==
  /\ timer = "idle" /\ editing # "no"
  /\ editing' = "no"
  /\ UNCHANGED <<place, active, recursive, sizes, requestedVars, missed, inputs>> /\ InputFrame

------------------------------------------------------------------------------
\* Requests: the worker reads, the event pump applies the answer.

Read(t) ==
  /\ requested[t] = "asked"
  /\ requested' = [requested EXCEPT ![t] = "read"]
  /\ missed' = missed \ {t}
  /\ UNCHANGED <<uiVars, background, timerVars, desired, token, dirty, watches, inputs>>

\* The pump holds the answer of a background refresh back while a menu is
\* open or a name is edited in its tab.
Answer(t) ==
  /\ timer = "idle" /\ requested[t] = "read"
  /\ ~(t \in background /\ (editing = "menu" \/ (editing = "name" /\ t = active)))
  /\ requested' = [requested EXCEPT ![t] = "none"]
  /\ background' = background \ {t}
  /\ UNCHANGED <<uiVars, timerVars, desired, token, dirty, watches, missed, inputs>>

------------------------------------------------------------------------------
\* One run of the timer (apps/kova-desktop/src/directory_watch.rs:25-84): the
\* folders to watch are written if the tabs or their modes changed, then the
\* watcher is woken, then the changes are taken.

TimerSyncs ==
  /\ timer = "idle" /\ previous # Key
  /\ desired' = Wanted
  /\ previous' = Key
  /\ waiting' = waiting \cap OpenTabs
  /\ timer' = "wake"
  /\ UNCHANGED <<uiVars, requestedVars, token, dirty, watches, missed, inputs>>

\* try_send: a token that is already there is enough.
TimerWakes ==
  /\ timer = "wake"
  /\ token' = TRUE
  /\ timer' = "take"
  /\ UNCHANGED <<uiVars, requestedVars, previous, waiting, desired, dirty, watches, missed, inputs>>

\* The tabs that may be refreshed now: none whose tab is edited, none that has
\* a request in flight.
Refreshable(S) ==
  {t \in S \cap OpenTabs : /\ ~(editing # "no" /\ t = active)
                           /\ requested[t] = "none"}

\* Mutation of StillWaits: a tab that cannot be refreshed now is forgotten.
StillWaitsNot(concerned) == {}

StillWaits(concerned) == concerned \ Refreshable(concerned)

TimerTakes ==
  LET concerned == waiting \cup {t \in OpenTabs : RootsOf(t) \cap dirty # {}}
      refreshed == Refreshable(concerned)
  IN  /\ timer = "take" \/ (timer = "idle" /\ previous = Key)
      /\ dirty' = {}
      /\ waiting' = StillWaits(concerned)
      /\ requested' = [t \in Tab |-> IF t \in refreshed /\ place[t] # Home THEN "asked"
                                                                        ELSE requested[t]]
      /\ background' = background \cup {t \in refreshed : place[t] # Home}
      /\ timer' = "idle"
      /\ UNCHANGED <<uiVars, previous, desired, token, watches, missed, inputs>>

------------------------------------------------------------------------------
\* The watcher thread.

WatcherFrame == UNCHANGED <<uiVars, requestedVars, timerVars, missed, inputs>>

\* A token without folders is the trace of an older wake-up: the round ends.
WatcherTakes ==
  /\ token
  /\ token' = FALSE
  /\ desired' = NoPaths
  /\ IF desired = NoPaths
     THEN UNCHANGED <<watches, dirty>>
     ELSE /\ watches' = [p \in DOMAIN desired |->
                           IF p \in DOMAIN watches /\ watches[p].deep = desired[p]
                           THEN watches[p] ELSE NewWatch(desired[p])]
          /\ dirty' = dirty \cap DOMAIN desired
  /\ WatcherFrame

\* Registration of a folder without a handle, when its time has come.  The
\* gap before the registration, and a folder that cannot be watched, are
\* reconciled by a notification of their own.
Registered(w, handle) ==
  [w EXCEPT !.handle = handle, !.retry = Retry, !.burst = Changed(@)]

AfterRegistration(w) ==
  IF w.handle # "none" THEN {w}
  ELSE IF w.retry > 0 THEN {[w EXCEPT !.retry = @ - 1]}
  ELSE {Registered(w, h) : h \in {"none", "armed"}}

\* The poll of the handle: re-armed at once when signaled; it may fail.
AfterPoll(w) ==
  CASE w.handle = "none"     -> {w}
    [] w.handle = "armed"    ->
         {w, [w EXCEPT !.handle = "none", !.retry = Retry, !.burst = Changed(@)]}
    [] w.handle = "signaled" ->
         {[w EXCEPT !.handle = "armed", !.burst = Changed(@)],
          [w EXCEPT !.handle = "none", !.retry = Retry, !.burst = Changed(@)]}

\* One watch in one round; the end of its burst makes the folder dirty.
WatcherChecks(p) ==
  /\ p \in DOMAIN watches
  /\ \E r \in AfterRegistration([watches[p] EXCEPT !.burst = Older(@)]) :
     \E w \in AfterPoll(r) :
       IF IsReady(w.burst)
       THEN /\ dirty' = dirty \cup {p}
            /\ watches' = [watches EXCEPT ![p] = [w EXCEPT !.burst = NoBurst]]
       ELSE /\ watches' = [watches EXCEPT ![p] = w]
            /\ UNCHANGED dirty
  /\ UNCHANGED <<desired, token>> /\ WatcherFrame

------------------------------------------------------------------------------
\* Another program changes the folder, or something below it, which concerns
\* only the tabs that search below their folder.
DiskChanges(p, below) ==
  /\ missed' = missed \cup {t \in OpenTabs : p \in RootsOf(t) /\ (below => SearchesBelow(t))}
  /\ watches' = [q \in DOMAIN watches |->
                   IF q = p /\ watches[q].handle = "armed" /\ (below => watches[q].deep)
                   THEN [watches[q] EXCEPT !.handle = "signaled"] ELSE watches[q]]
  /\ UNCHANGED <<uiVars, requestedVars, timerVars, desired, token, dirty, inputs>>

LiveUser ==
  \/ \E l \in Viewed : NavigateTab(l)
  \/ \E t \in Tab : SwitchTab(t) \/ CloseTab(t)
  \/ SetScope \/ SetFolderSizes
  \/ \E e \in EditKind : BeginEdit(e)

WatcherTimer == TimerSyncs \/ TimerWakes \/ TimerTakes

LiveNext ==
  \/ LiveUser \/ FinishEdit
  \/ \E t \in Tab : Read(t) \/ Answer(t)
  \/ WatcherTimer
  \/ WatcherTakes
  \/ \E p \in Watchable : WatcherChecks(p)
  \/ \E p \in Watchable, below \in BOOLEAN : DiskChanges(p, below)

LiveSpec == LiveInit /\ [][LiveNext]_liveVars

\* The timers and the watcher keep running, requests are read and answered,
\* and the user does not edit whenever a timer happens to run.
LiveFairness ==
  /\ WF_liveVars(WatcherTimer) /\ SF_liveVars(WatcherTimer /\ editing = "no")
  /\ WF_liveVars(WatcherTakes)
  /\ \A p \in Watchable : WF_liveVars(WatcherChecks(p))
  /\ \A t \in Tab : WF_liveVars(Read(t)) /\ SF_liveVars(Answer(t))
  /\ SF_liveVars(FinishEdit)

LiveFairSpec == LiveSpec /\ LiveFairness

------------------------------------------------------------------------------
\* Properties.

\* A folder of the tabs is watched in the mode they need, or will be.
IsWatched(p, deep) == p \in DOMAIN watches /\ (deep => watches[p].deep)

WillBeWatched(p, deep) ==
  \/ previous # Key
  \/ desired # NoPaths /\ p \in DOMAIN desired /\ (deep => desired[p])

\* The watcher remembers a change of the folder it has not told yet.
Remembers(p) ==
  \/ p \in dirty
  \/ p \in DOMAIN watches /\ (watches[p].handle # "armed" \/ watches[p].burst.on)

\* A change is never lost: a tab that shows an outdated folder has a request
\* that has not read yet, or waits for one, or one of its folders is about to
\* be registered, or the watcher still holds the notification.  This holds
\* across navigation, changes of mode, failed registrations and failed
\* handles (directory_watch.rs:74-155 of the platform crate, 25-84 of the
\* window).
ChangeIsCarried ==
  \A t \in missed :
    \/ requested[t] = "asked"
    \/ t \in waiting
    \/ \E p \in RootsOf(t) :
         \/ Remembers(p)
         \/ ~IsWatched(p, SearchesBelow(t)) /\ WillBeWatched(p, SearchesBelow(t))

\* Every change of a folder that a tab shows is read, whatever the user does
\* meanwhile and however often the folder keeps changing.
EveryChangeIsRead == \A t \in Tab : []<>(t \notin missed)
==============================================================================
