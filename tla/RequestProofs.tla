---------------------------- MODULE RequestProofs ----------------------------
(***************************************************************************)
(* What becomes of the requests of module Enumeration, for every number of *)
(* tabs, every set of places, searches and orders, and any number of       *)
(* inputs: that each is served, that none is answered with a listing of    *)
(* before it, that the rows of a tab never go back to an earlier one, and  *)
(* that a tab at rest shows its folder in the view of now.                 *)
(***************************************************************************)
EXTENDS EnumerationProofs

------------------------------------------------------------------------------
\* The inductive invariant, in the order in which its parts are proved; each
\* part rests on PlaceInv and on the parts before it.

\* A tab has one row set and one source.  The rows are of no later request
\* than the source, which is of no later request than the tab's; they are the
\* source's own once no transform is under way.  A transform of the latest
\* generation is of the source there is.
IsOfSource(j, s) == s.tab = j.tab /\ s.request = j.request /\ s.content = j.content

RowsInv ==
  /\ \A n \in snapshots \cup sources : n.request <= request[n.tab]
  /\ \A m, n \in snapshots : m.tab = n.tab => m = n
  /\ \A m, n \in sources : m.tab = n.tab => m = n
  /\ \A n \in snapshots, s \in sources : n.tab = s.tab =>
       /\ n.request <= s.request
       /\ s.tab \notin viewPending => n.content = s.content
  /\ \A j \in Transforms : IsLatest(j) => \E s \in sources : IsOfSource(j, s)

\* An answer under way to the latest request of a tab has not read its folder
\* yet, or has read it after the request.
AnswerFresh(x) ==
  IsCurrent(x.tab, x.request) =>
    \/ x.kind \in {"CancelEnumeration", "DirectoryError"}
    \/ x.kind = "Enumerate" /\ x.content = Unread
    \/ x.content # Unread /\ asked[x.tab] <= x.content

SourceFresh(s) ==
  /\ s.content # Unread
  /\ s.tab \notin pending \/ s.request = request[s.tab] => asked[s.tab] <= s.content

\* Home has no files, and no operation writes to it.
HomeIsStill ==
  /\ disk[Home] = 1
  /\ \A c \in ToSet(commands) : c.kind = "FileOperation" => c.location # Home

AnswersFresh ==
  /\ HomeIsStill
  /\ \A t \in Tab : asked[t] <= disk[Place(t)]
  /\ \A x \in Answers : AnswerFresh(x)

RowsFresh ==
  /\ \A s \in sources : SourceFresh(s)
  /\ \A n \in snapshots : n.content # Unread
  /\ RestIsFresh

FreshInv == AnswersFresh /\ RowsFresh

\* The command of the latest request of a tab has no other command of the tab
\* behind it, and neither has its enumeration, so no cancellation stops them.
\* The latest command is only a cancellation if the tab does not wait.
IsRequest(c) == c.kind # "FileOperation"

QueueInv ==
  /\ \A i, j \in DOMAIN commands :
       /\ i < j /\ IsRequest(commands[i]) /\ IsRequest(commands[j])
       /\ IsCurrent(commands[i].tab, commands[i].request)
       => commands[j].tab # commands[i].tab
  /\ \A k \in tasks, c \in ToSet(commands) :
       IsRequest(c) /\ IsCurrent(k.tab, k.request) => c.tab # k.tab
  /\ \A c \in ToSet(commands) :
       c.kind = "CancelEnumeration" /\ IsCurrent(c.tab, c.request) => c.tab \notin pending

\* The view worker has one job in its hands, and one result waits for the pump.
LineInv ==
  /\ transforming = {} \/ sending = {}
  /\ \A j, k \in transforming \cup sending : j = k
  /\ \A j \in ToSet(results) : j = Head(results)

Arrived == {e \in ToSet(events) : IsAnswer(e)}

IsServed(t) ==
  \/ \E c \in ToSet(commands) : Carries(c, t) /\ c.kind \in {"Enumerate", "EnumerateReferences"}
  \/ \E k \in tasks \cup Arrived : Carries(k, t)
  \/ TransformUnderWay(t, request[t])

ServedInv ==
  /\ QueueInv /\ LineInv
  /\ \A t \in pending : IsServed(t)
  /\ ViewIsServed

------------------------------------------------------------------------------
\* Sequences and orders.

\* The elements of a queue are its head and those behind it.
LEMMA HeadAndTail ==
  ASSUME NEW T, NEW s \in Seq(T), s # <<>>
  PROVE  ToSet(s) = ToSet(Tail(s)) \cup {Head(s)}
<1>1. ToSet(Tail(s)) \subseteq ToSet(s) /\ Head(s) \in ToSet(s)
  BY TakenSet
<1>2. ASSUME NEW i \in DOMAIN s
      PROVE  s[i] \in ToSet(Tail(s)) \cup {Head(s)}
  <2>1. CASE i = 1
    BY <2>1
  <2>2. CASE i # 1
    <3>1. i - 1 \in DOMAIN Tail(s) /\ Tail(s)[i - 1] = s[i]
      BY <2>2
    <3> QED
      BY <3>1 DEF ToSet
  <2> QED
    BY <2>1, <2>2
<1> QED
  BY <1>1, <1>2 DEF ToSet

\* An order of a finite set names every element of it.
LEMMA OrderIsComplete ==
  ASSUME NEW S, IsFiniteSet(S), NEW f \in Orders(S), NEW t \in S
  PROVE  \E i \in DOMAIN f : f[i] = t
<1>1. Cardinality(S) \in Nat
  BY FS_CardinalityType
<1>2. IsFiniteSet(1..Cardinality(S)) /\ Cardinality(1..Cardinality(S)) = Cardinality(S)
  BY <1>1, FS_Interval
<1>3. f \in Injection(1..Cardinality(S), S)
  BY DEF Orders, Injection, IsInjective
<1>4. f \in Surjection(1..Cardinality(S), S)
  BY <1>2, <1>3, FS_Injection
<1> QED
  BY <1>4 DEF Surjection

------------------------------------------------------------------------------
\* What the steps that send requests have in common.

AsksAgain(S, closed) ==
  /\ S \subseteq open' /\ closed \subseteq open \ open'
  /\ open \ closed \subseteq open'
  /\ \A t \in open' \ open : t \in S /\ t >= nextTab
  /\ \A t \in Tab \ S : history'[t] = history[t] /\ query'[t] = query[t]
  /\ UNCHANGED <<order, showHidden, disk>>
  /\ Arrived' = Arrived
  /\ RequestEnumeration(S, closed)

Asking ==
  \/ \E l \in Location : Navigate(l) \/ OpenTab(l)
  \/ NavigateBack \/ NavigateForward
  \/ \E S \in SUBSET open \ {{}} : Refresh(S)
  \/ \E t \in open : SwitchTab(t) \/ \E n \in open : CloseTab(t, n)
  \/ PumpFilesChanged

LEMMA AskingAsks ==
  ASSUME PlaceInv, Asking
  PROVE  \E S \in SUBSET Tab, closed \in SUBSET open :
           AsksAgain(S, closed) /\ S \subseteq open'
<1>1. /\ open \subseteq Tab /\ active \in open /\ history \in [Tab -> History(Location)]
      /\ query \in [Tab -> Query] /\ events \in Seq(Event)
      /\ nextTab \in Nat /\ \A t \in open : t < nextTab
  BY EnumerationAssumption DEF PlaceInv, TypeOK, RequestsInv
\* What the three navigations have in common.
<1>2. ASSUME NEW h, history' = [history EXCEPT ![active] = h],
             query' = [query EXCEPT ![active] = NoQuery],
             UNCHANGED <<open, active, nextTab, order, showHidden, uiVars, disk, events>>,
             RequestEnumeration({active}, {})
      PROVE  AsksAgain({active}, {})
  BY <1>1, <1>2 DEF AsksAgain, Arrived
<1>3. ASSUME AsksAgain({active}, {}), UNCHANGED open
      PROVE  \E S \in SUBSET Tab, closed \in SUBSET open :
               AsksAgain(S, closed) /\ S \subseteq open'
  BY <1>1, <1>3
<1>4. ASSUME NEW l \in Location, Navigate(l)
      PROVE  AsksAgain({active}, {}) /\ UNCHANGED open
  BY <1>2, <1>4 DEF Navigate
<1>5. CASE NavigateBack
  <2>1. AsksAgain({active}, {}) /\ UNCHANGED open
    BY <1>2, <1>5 DEF NavigateBack
  <2> QED
    BY <1>3, <2>1
<1>6. CASE NavigateForward
  <2>1. AsksAgain({active}, {}) /\ UNCHANGED open
    BY <1>2, <1>6 DEF NavigateForward
  <2> QED
    BY <1>3, <2>1
<1>7. ASSUME NEW S \in SUBSET open \ {{}}, Refresh(S)
      PROVE  AsksAgain(S, {}) /\ S \in SUBSET Tab /\ S \subseteq open'
  BY <1>1, <1>7 DEF Refresh, AsksAgain, Arrived, tabVars, viewParams
<1>8. ASSUME NEW l \in Location, OpenTab(l)
      PROVE  AsksAgain({nextTab}, {}) /\ {nextTab} \in SUBSET Tab /\ {nextTab} \subseteq open'
  BY <1>1, <1>8 DEF OpenTab, AsksAgain, Arrived, viewParams
<1>9. ASSUME NEW t \in open, NEW n \in open, CloseTab(t, n)
      PROVE  \E S \in SUBSET Tab : AsksAgain(S, {t}) /\ S \subseteq open'
  <2> DEFINE S == {u \in {n} : NeedsEnumeration(u)}
  <2>1. /\ n \in open \ {t} /\ open' = open \ {t}
        /\ UNCHANGED <<history, query, order, showHidden, disk, events>>
        /\ RequestEnumeration(S, {t})
    BY <1>9 DEF CloseTab, viewParams
  <2>2. S \subseteq {n}
    OBVIOUS
  <2> HIDE DEF S
  <2>3. AsksAgain(S, {t}) /\ S \in SUBSET Tab /\ S \subseteq open'
    BY <1>1, <2>1, <2>2 DEF AsksAgain, Arrived
  <2> QED
    BY <2>3
<1>10. ASSUME NEW t \in open, SwitchTab(t)
       PROVE  \E S \in SUBSET Tab : AsksAgain(S, {}) /\ S \subseteq open'
  <2> DEFINE S == {u \in {t} : NeedsEnumeration(u)}
  <2>1. /\ UNCHANGED <<open, history, query, order, showHidden, disk, events>>
        /\ RequestEnumeration(S, {})
    BY <1>10 DEF SwitchTab, viewParams
  <2>2. S \subseteq {t}
    OBVIOUS
  <2> HIDE DEF S
  <2>3. AsksAgain(S, {}) /\ S \in SUBSET Tab /\ S \subseteq open'
    BY <1>1, <2>1, <2>2 DEF AsksAgain, Arrived
  <2> QED
    BY <2>3
<1>11. CASE PumpFilesChanged
  <2>1. /\ events # <<>> /\ Head(events).kind = "FilesChanged" /\ events' = Tail(events)
        /\ UNCHANGED <<open, history, query, order, showHidden, disk>>
        /\ RequestEnumeration(open, {})
    BY <1>11 DEF PumpFilesChanged, tabVars, viewParams
  <2>2. ToSet(events) = ToSet(Tail(events)) \cup {Head(events)}
    BY <1>1, <2>1, HeadAndTail
  <2>3. Arrived' = Arrived
    <3>1. ToSet(events)' = ToSet(Tail(events))
      BY <2>1 DEF ToSet
    <3>2. ~IsAnswer(Head(events))
      BY <2>1 DEF IsAnswer
    <3> QED
      BY <2>2, <3>1, <3>2 DEF Arrived, IsAnswer
  <2> QED
    BY <1>1, <2>1, <2>3 DEF AsksAgain
<1>12. {} \in SUBSET open /\ \A t \in open : {t} \in SUBSET open
  OBVIOUS
<1> QED
  BY <1>3, <1>4, <1>5, <1>6, <1>7, <1>8, <1>9, <1>10, <1>11, <1>12 DEF Asking

\* What asking leaves of requests and rows.
LEMMA AskingLeavesRows ==
  ASSUME PlaceInv, NEW S \in SUBSET Tab, NEW closed \in SUBSET open, AsksAgain(S, closed),
         S \subseteq open'
  PROVE  /\ \A t \in Tab : request[t] \in Nat /\ asked[t] \in Nat /\ disk[Place(t)] \in Nat
         /\ \A t \in S : /\ request'[t] = request[t] + 1
                         /\ asked'[t] = disk[history'[t].current]
         /\ \A t \in Tab \ S : asked'[t] = asked[t] /\ history'[t] = history[t]
         /\ \A t \in Tab \ (S \cup closed) : request'[t] = request[t]
         /\ sources' = {s \in sources : s.tab \notin S \cup closed}
         /\ snapshots' = KeptRows(S, closed) \cup HomeRows(S)
         /\ pending' = (pending \ (S \cup closed)) \cup {t \in S : history'[t].current # Home}
         /\ viewPending' = viewPending \ (S \cup closed)
         /\ background' = background \ (S \cup closed)
         /\ open' \cap closed = {}
<1>1. /\ request = generation /\ closed \subseteq Tab
      /\ \A t \in Tab : generation[t] \in Nat /\ asked[t] \in Nat /\ Place(t) \in Location
      /\ disk \in [Location -> Nat \ {0}]
  BY DEF PlaceInv, TypeOK, RequestsInv, History, Place
<1>2. Ask(S, closed) /\ S \cap closed = {}
  BY DEF AsksAgain, RequestEnumeration
<1>3. \A t \in Tab : /\ request'[t] = IF t \in closed THEN 0
                                      ELSE IF t \in S THEN generation[t] + 1 ELSE request[t]
                     /\ asked'[t] = IF t \in S THEN disk[history'[t].current] ELSE asked[t]
  BY <1>2 DEF Ask
<1>4. /\ \A t \in S : /\ request'[t] = request[t] + 1
                      /\ asked'[t] = disk[history'[t].current]
      /\ \A t \in Tab \ S : asked'[t] = asked[t]
      /\ \A t \in Tab \ (S \cup closed) : request'[t] = request[t]
  BY <1>1, <1>2, <1>3
<1> QED
  BY <1>1, <1>4 DEF AsksAgain, RequestEnumeration

\* The transforms under way stay, but none of a tab that asks or is closed is
\* of the latest generation any more.
LEMMA AskingLeavesTransforms ==
  ASSUME PlaceInv, NEW S \in SUBSET Tab, NEW closed \in SUBSET open, AsksAgain(S, closed)
  PROVE  /\ UNCHANGED <<jobs, transforming, sending, results, tasks>>
         /\ Transforms' = Transforms
         /\ \A t \in Tab \ (S \cup closed) : viewGeneration'[t] = viewGeneration[t]
         /\ \A j \in Transforms : j.tab \in S \cup closed => ~IsLatest(j)'
<1>1. /\ viewGeneration \in [Tab -> Nat]
      /\ UNCHANGED <<jobs, transforming, sending, results, tasks>>
      /\ viewGeneration' = Bumped(S \cup closed)
  BY DEF PlaceInv, TypeOK, AsksAgain, RequestEnumeration
<1>2. Transforms' = Transforms
  BY <1>1 DEF Transforms, ToSet
<1>3. \A t \in Tab : viewGeneration'[t] = IF t \in S \cup closed /\ viewGeneration[t] > 0
                                          THEN viewGeneration[t] + 1 ELSE viewGeneration[t]
  BY <1>1 DEF Bumped
<1>4. ASSUME NEW j \in Transforms, j.tab \in S \cup closed
      PROVE  ~IsLatest(j)'
  <2>1. j.tab \in Tab /\ j.generation \in Nat
    BY TransformType DEF PlaceInv, Job
  <2>2. 0 < j.generation /\ j.generation <= viewGeneration[j.tab]
    BY DEF PlaceInv, TransformsInv, TransformOK
  <2>3. viewGeneration'[j.tab] = viewGeneration[j.tab] + 1 /\ viewGeneration[j.tab] \in Nat
    BY <1>1, <1>3, <1>4, <2>1, <2>2
  <2> QED
    BY <2>1, <2>2, <2>3 DEF IsLatest
<1> QED
  BY <1>1, <1>2, <1>3, <1>4

\* The answers under way stay, with the commands of the tabs that are closed
\* and of those that ask; the old ones are answers to the latest request only
\* of tabs that do not ask.
LEMMA AskingLeavesAnswers ==
  ASSUME PlaceInv, PlaceInv', NEW S \in SUBSET Tab, NEW closed \in SUBSET open,
         AsksAgain(S, closed), S \subseteq open'
  PROVE  /\ \A x \in Answers' :
              \/ x \in Answers
              \/ \E t \in closed : x = EnumerationCommand(t, Home, 0)
              \/ \E t \in S : x = EnumerationCommand(t, history'[t].current, request'[t])
         /\ \A x \in Answers : IsCurrent(x.tab, x.request)' =>
              x.tab \in Tab \ (S \cup closed) /\ IsCurrent(x.tab, x.request)
         /\ \A c \in ToSet(commands)' : c.kind = "FileOperation" => c \in ToSet(commands)
<1>1. TypeOK /\ RequestsInv /\ TypeOK' /\ open \subseteq Tab /\ open' \subseteq Tab
  BY DEF PlaceInv, TypeOK
<1>2. PICK f \in Orders(S) : Sent(f, closed)
  BY DEF AsksAgain, RequestEnumeration
<1>3. \A x \in ToSet(commands') :
        \/ x \in ToSet(commands)
        \/ \E t \in closed : x = EnumerationCommand(t, Home, 0)
        \/ \E t \in S : x = EnumerationCommand(t, history'[t].current, request'[t])
  <2>1. /\ closed \in SUBSET Tab /\ commands \in Seq(Command)
        /\ disk \in [Location -> Nat \ {0}] /\ request' \in [Tab -> Nat]
        /\ history' \in [Tab -> History(Location)]
    BY <1>1 DEF TypeOK
  <2> QED
    BY <1>2, <2>1, SentCommands, ZenonT(60)
<1>4. ToSet(commands)' = ToSet(commands')
  BY DEF ToSet
<1>5. ASSUME NEW x \in Answers'
      PROVE  \/ x \in Answers
             \/ \E t \in closed : x = EnumerationCommand(t, Home, 0)
             \/ \E t \in S : x = EnumerationCommand(t, history'[t].current, request'[t])
  <2>1. Arrived' = Arrived /\ tasks' = tasks
    BY DEF AsksAgain, RequestEnumeration
  <2>2. CASE x \in tasks' \cup Arrived'
    BY <2>1, <2>2 DEF Answers, Arrived
  <2>3. CASE x \in ToSet(commands)' /\ x.kind # "FileOperation"
    BY <1>3, <1>4, <2>3 DEF Answers
  <2>4. x \in tasks' \cup Arrived' \/ (x \in ToSet(commands)' /\ x.kind # "FileOperation")
    BY DEF Answers, Arrived
  <2> QED
    BY <2>2, <2>3, <2>4
<1>6. ASSUME NEW x \in Answers, IsCurrent(x.tab, x.request)'
      PROVE  x.tab \in Tab \ (S \cup closed) /\ IsCurrent(x.tab, x.request)
  <2>1. x.tab \in Tab /\ x.request \in Nat /\ AnswerOK(x)
    BY <1>1, AnswerType DEF RequestsInv
  <2>2. x.tab \in open' /\ x.request = request'[x.tab] /\ x.tab \notin closed
    BY <1>6 DEF IsCurrent, AsksAgain
  <2>3. x.tab \in open
    <3>1. nextTab \in Nat
      BY <1>1, EnumerationAssumption DEF TypeOK
    <3>2. x.tab < nextTab /\ x.tab \in Nat
      BY <2>1, EnumerationAssumption DEF AnswerOK, Tab
    <3> QED
      BY <2>2, <3>1, <3>2 DEF AsksAgain
  <2>4. x.request <= request[x.tab] /\ request[x.tab] \in Nat
    BY <1>1, <2>1, <2>3 DEF AnswerOK, RequestsInv, TypeOK
  <2>5. x.tab \notin S
    <3>1. \A t \in S : request'[t] = request[t] + 1
      BY AskingLeavesRows
    <3> QED
      BY <2>1, <2>2, <2>4, <3>1
  <2>6. request'[x.tab] = request[x.tab]
    BY <2>1, <2>2, <2>5, AskingLeavesRows
  <2> QED
    BY <2>1, <2>2, <2>3, <2>5, <2>6 DEF IsCurrent
<1>7. ASSUME NEW c \in ToSet(commands)', c.kind = "FileOperation"
      PROVE  c \in ToSet(commands)
  <2>1. \A t, l, r : EnumerationCommand(t, l, r).kind # "FileOperation"
    BY DEF EnumerationCommand
  <2> QED
    BY <1>3, <1>4, <1>7, <2>1
<1> QED
  BY <1>5, <1>6, <1>7

------------------------------------------------------------------------------
\* What the changes of view have in common.

OneRowSet == \A m, n \in snapshots : m.tab = n.tab => m = n

\* Rows of after the change are those of before, in the view of now if they
\* were in the view of before and no transform of them has been started.
IsReviewed(s, n, T) ==
  /\ s.tab = n.tab /\ s.location = n.location
  /\ s.request = n.request /\ s.content = n.content
  /\ n.view = ViewOf(n.tab) /\ n.tab \notin T => s.view = ViewOf(n.tab)'

Reschedules(T) ==
  /\ \A t \in T : HasSource(t)
  /\ ScheduleViews(T)
  /\ OneRowSet => OneRowSet'
  /\ \A s \in snapshots' : \E n \in snapshots : IsReviewed(s, n, T)
  /\ \A t \in Tab \ T : HasSource(t) => ViewOf(t)' = ViewOf(t)
  /\ UNCHANGED <<tabVars, sources, asking, status, workerVars, uiVars, disk>>

Viewing ==
  \/ \E q \in Query : SetQuery(q)
  \/ \E o \in Order : SetSort(o)
  \/ SetVisibility

LEMMA ViewingSchedules ==
  ASSUME PlaceInv, Viewing
  PROVE  \E T \in SUBSET Tab : Reschedules(T)
<1>1. /\ active \in Tab /\ query \in [Tab -> Query] /\ order \in [Tab -> Order]
      /\ \A s \in snapshots : s \in Snapshot /\ s.tab \in Tab
  BY DEF PlaceInv, TypeOK, Snapshot
<1>2. ASSUME NEW S \in SUBSET Tab, Refilter(S), \A t \in Tab \ S : ViewOf(t)' = ViewOf(t)
      PROVE  \E T \in SUBSET Tab : Reschedules(T)
  <2> DEFINE T      == {t \in S : HasSource(t)}
             new(s) == IF s.tab \in S /\ ~HasSource(s.tab)
                       THEN [s EXCEPT !.view = ViewOf(s.tab)'] ELSE s
  <2>1. /\ ScheduleViews(T)
        /\ snapshots' = {new(s) : s \in snapshots}
        /\ UNCHANGED <<tabVars, sources, asking, status, workerVars, uiVars, disk>>
    BY <1>2 DEF Refilter
  <2>2. ASSUME NEW s \in snapshots
        PROVE  IsReviewed(new(s), s, T)
    <3>1. CASE s.tab \in S /\ ~HasSource(s.tab)
      BY <1>1, <3>1 DEF IsReviewed, Snapshot
    <3>2. CASE ~(s.tab \in S /\ ~HasSource(s.tab))
      BY <1>1, <1>2, <3>2 DEF IsReviewed
    <3> QED
      BY <3>1, <3>2
  <2>3. T \in SUBSET Tab /\ \A t \in T : HasSource(t)
    OBVIOUS
  <2>4. \A t \in Tab \ T : HasSource(t) => ViewOf(t)' = ViewOf(t)
    BY <1>2
  <2> HIDE DEF new, T
  <2>5. OneRowSet => OneRowSet'
    BY <2>1, <2>2 DEF OneRowSet, IsReviewed
  <2>6. \A s \in snapshots' : \E n \in snapshots : IsReviewed(s, n, T)
    BY <2>1, <2>2
  <2> QED
    BY <2>1, <2>3, <2>4, <2>5, <2>6 DEF Reschedules
<1>3. ASSUME NEW q \in Query, SetQuery(q)
      PROVE  \E T \in SUBSET Tab : Reschedules(T)
  <2>1. \A t \in Tab \ {active} : ViewOf(t)' = ViewOf(t)
    BY <1>1, <1>3 DEF SetQuery, ViewOf
  <2> QED
    BY <1>1, <1>2, <1>3, <2>1 DEF SetQuery
<1>4. CASE SetVisibility
  BY <1>2, <1>4 DEF SetVisibility
<1>5. ASSUME NEW o \in Order, SetSort(o)
      PROVE  \E T \in SUBSET Tab : Reschedules(T)
  <2> DEFINE T      == {t \in {active} : HasSource(t)}
             new(s) == IF s.tab = active /\ ~HasSource(active)
                       THEN [s EXCEPT !.view.order = o] ELSE s
  <2>1. /\ ScheduleViews(T)
        /\ snapshots' = {new(s) : s \in snapshots}
        /\ order' = [order EXCEPT ![active] = o] /\ UNCHANGED <<query, showHidden>>
        /\ UNCHANGED <<tabVars, sources, asking, status, workerVars, uiVars, disk>>
    BY <1>5 DEF SetSort
  <2>2. \A t \in Tab \ {active} : ViewOf(t)' = ViewOf(t)
    BY <1>1, <2>1 DEF ViewOf
  <2>3. \A t \in Tab : t = active => ViewOf(t)' = [ViewOf(t) EXCEPT !.order = o]
    BY <1>1, <2>1 DEF ViewOf
  <2>4. ASSUME NEW s \in snapshots
        PROVE  IsReviewed(new(s), s, T)
    <3>1. CASE s.tab = active /\ ~HasSource(active)
      <4>1. [s EXCEPT !.view.order = o].view = [s.view EXCEPT !.order = o]
        BY <1>1 DEF Snapshot, View
      <4> QED
        BY <1>1, <2>3, <3>1, <4>1 DEF IsReviewed, Snapshot
    <3>2. CASE ~(s.tab = active /\ ~HasSource(active))
      BY <1>1, <2>2, <3>2 DEF IsReviewed
    <3> QED
      BY <3>1, <3>2
  <2>5. T \in SUBSET Tab /\ \A t \in T : HasSource(t)
    BY <1>1
  <2>6. \A t \in Tab \ T : HasSource(t) => ViewOf(t)' = ViewOf(t)
    BY <2>2
  <2> HIDE DEF new, T
  <2>7. OneRowSet => OneRowSet'
    BY <2>1, <2>4 DEF OneRowSet, IsReviewed
  <2>8. \A s \in snapshots' : \E n \in snapshots : IsReviewed(s, n, T)
    BY <2>1, <2>4
  <2> QED
    BY <2>1, <2>5, <2>6, <2>7, <2>8 DEF Reschedules
<1> QED
  BY <1>3, <1>4, <1>5 DEF Viewing

\* The job of a tab whose view changes.
NewJob(t) == JobFor(t, SourceOf(t), ViewOf(t)')

\* A change of view leaves the transforms under way and adds one of each
\* source, of a generation that none of the others has.
LEMMA SchedulesLeave ==
  ASSUME PlaceInv, PlaceInv', NEW T \in SUBSET Tab, Reschedules(T)
  PROVE  /\ \A t \in T : /\ SourceOf(t) \in sources /\ SourceOf(t).tab = t
                         /\ NewJob(t) \in ToSet(jobs)' /\ NewJob(t).tab = t
                         /\ NewJob(t).request = SourceOf(t).request
                         /\ NewJob(t).content = SourceOf(t).content
                         /\ NewJob(t).view = ViewOf(t)'
                         /\ NewJob(t).generation = viewGeneration'[t]
         /\ ToSet(jobs) \subseteq ToSet(jobs)'
         /\ \A j \in Transforms' : j \in Transforms \/ \E t \in T : j = NewJob(t)
         /\ \A t \in Tab \ T : viewGeneration'[t] = viewGeneration[t]
         /\ \A j \in Transforms : j.tab \in T => ~IsLatest(j)'
         /\ viewPending' = viewPending \cup T
         /\ UNCHANGED <<open, active, nextTab, history, sources, request, generation, asked,
                        pending, background, errors, commands, tasks, events, menu, inline,
                        disk, transforming, sending, results>>
<1>1. TypeOK /\ TransformsInv /\ jobs \in Seq(Job) /\ viewGeneration \in [Tab -> Nat]
  BY DEF PlaceInv, TypeOK
<1>2. /\ ScheduleViews(T)
      /\ UNCHANGED <<open, active, nextTab, history, sources, request, generation, asked,
                     pending, background, errors, commands, tasks, events, menu, inline,
                     disk>>
  BY DEF Reschedules, tabVars, asking, status, workerVars, uiVars
<1>3. /\ viewPending' = viewPending \cup T
      /\ UNCHANGED <<transforming, sending, results>>
      /\ \A t \in Tab : viewGeneration'[t] = IF t \in T THEN viewGeneration[t] + 1
                                             ELSE viewGeneration[t]
  BY <1>2 DEF ScheduleViews
<1>4. \A t \in T : SourceOf(t) \in sources /\ SourceOf(t).tab = t
  BY DEF Reschedules, HasSource, SourceOf
<1>5. \A t \in T : /\ NewJob(t).tab = t
                   /\ NewJob(t).request = SourceOf(t).request
                   /\ NewJob(t).content = SourceOf(t).content
                   /\ NewJob(t).view = ViewOf(t)'
                   /\ NewJob(t).generation = viewGeneration'[t]
  BY <1>3 DEF NewJob, JobFor
<1>6. PICK f \in Orders(T) : jobs' = jobs \o [i \in DOMAIN f |-> NewJob(f[i])]
  BY <1>2 DEF ScheduleViews, NewJob
<1> DEFINE new == [i \in DOMAIN f |-> NewJob(f[i])]
<1>7. /\ f \in Seq(T) /\ ToSet(f) \subseteq T /\ DOMAIN f = 1..Cardinality(T)
      /\ Cardinality(T) \in Nat /\ \A t \in T : \E i \in DOMAIN f : f[i] = t
  BY OrderIsSequence, OrderIsComplete, TabsFinite, FS_CardinalityType
<1>8. /\ \A t \in T : NewJob(t) \in ToSet(new)
      /\ \A j \in ToSet(new) : \E t \in T : j = NewJob(t)
  BY <1>7 DEF ToSet
<1>9. /\ ToSet(jobs)' \subseteq ToSet(jobs) \cup ToSet(new)
      /\ ToSet(jobs) \cup ToSet(new) \subseteq ToSet(jobs)'
  <2> DEFINE Any == Job \cup {NewJob(t) : t \in T}
  <2>1. new \in [1..Cardinality(T) -> Any]
    BY <1>7
  <2> HIDE DEF new
  <2>2. Job \subseteq Any
    OBVIOUS
  <2> HIDE DEF Any
  <2>6. new \in Seq(Any)
    BY <1>7, <2>1, FunctionIsSequence
  <2>7. jobs \in Seq(Any)
    BY <1>1, <2>2
  <2>3. ToSet(jobs \o new) = ToSet(jobs) \cup ToSet(new)
    BY <2>6, <2>7, JoinedSet
  <2>4. ToSet(jobs)' = ToSet(jobs')
    BY DEF ToSet
  <2>5. jobs' = jobs \o new
    BY <1>6 DEF new
  <2> QED
    BY <2>3, <2>4, <2>5
<1> HIDE DEF new
<1>10. \A j \in Transforms' : j \in Transforms \/ \E t \in T : j = NewJob(t)
  <2>1. (ToSet(results))' = ToSet(results)
    BY <1>3 DEF ToSet
  <2> QED
    BY <1>3, <1>8, <1>9, <2>1 DEF Transforms
<1>11. ASSUME NEW j \in Transforms, j.tab \in T
       PROVE  ~IsLatest(j)'
  <2>1. j.tab \in Tab /\ j.generation \in Nat
    BY <1>1, TransformType DEF Job
  <2>2. j.generation <= viewGeneration[j.tab] /\ viewGeneration[j.tab] \in Nat
    BY <1>1, <2>1 DEF TransformsInv, TransformOK
  <2>3. viewGeneration'[j.tab] = viewGeneration[j.tab] + 1
    BY <1>3, <1>11, <2>1
  <2> QED
    BY <2>1, <2>2, <2>3 DEF IsLatest
<1>12. \A t \in Tab \ T : viewGeneration'[t] = viewGeneration[t]
  BY <1>3
<1> QED
  BY <1>2, <1>3, <1>4, <1>5, <1>8, <1>9, <1>10, <1>11, <1>12

------------------------------------------------------------------------------
\* What the steps of the pump have in common.

\* The answer the pump takes is to the latest request of an open tab.
LEMMA AnswerTaken ==
  ASSUME PlaceInv, Ready
  PROVE  /\ Head(events) \in Event /\ Head(events) \in Answers
         /\ Head(events) \in ToSet(events)
         /\ Head(events).tab \in open /\ Head(events).tab \in Tab
         /\ IsAnswer(Head(events))
         /\ IsCurrent(Head(events).tab, Head(events).request)
         /\ Head(events).request = request[Head(events).tab]
         /\ Head(events).location = Place(Head(events).tab)
         /\ ToSet(events) = ToSet(events)' \cup {Head(events)}
         /\ UNCHANGED <<open, active, history, query, order, showHidden, request, generation,
                        asked, commands, tasks, disk>>
<1>1. events \in Seq(Event) /\ open \subseteq Tab
  BY DEF PlaceInv, TypeOK
<1>2. events # <<>> /\ events' = Tail(events) /\ CurrentAnswer(Head(events)) /\ PumpFrame
  BY DEF Ready
<1>3. /\ Head(events) \in Event /\ Head(events) \in ToSet(events)
      /\ ToSet(events) = ToSet(Tail(events)) \cup {Head(events)}
  BY <1>1, <1>2, TakenSet, HeadAndTail
<1>4. ToSet(events)' = ToSet(Tail(events))
  BY <1>2 DEF ToSet
<1>5. Head(events) \in Answers
  BY <1>2, <1>3 DEF Answers, CurrentAnswer
<1>6. Head(events).tab \in open /\ Head(events).location = Place(Head(events).tab)
  BY <1>2, ReadyAnswer
<1>7. UNCHANGED <<open, active, history, query, order, showHidden, request, generation, asked,
                  commands, tasks, disk>>
  BY <1>2 DEF PumpFrame, tabVars, viewParams, asking
<1> QED
  BY <1>1, <1>2, <1>3, <1>4, <1>5, <1>6, <1>7 DEF CurrentAnswer, IsCurrent

RowOf(x, v) == [tab |-> x.tab, location |-> x.location, request |-> x.request,
                content |-> x.content, view |-> v]

\* A listing that is filtered on the spot, and an error, take the place of the
\* rows and the source, and of every transform of the tab.
LEMMA ApplyReplaces ==
  ASSUME PlaceInv, ApplySmall \/ ApplyError, NEW t \in Tab, t = Head(events).tab
  PROVE  /\ Ready
         /\ sources' = {s \in sources : s.tab # t}
         /\ viewPending' = viewPending \ {t}
         /\ pending' = pending \ {t} /\ background' = background \ {t}
         /\ \A n \in snapshots' : \/ n \in snapshots /\ n.tab # t
                                  \/ /\ ApplySmall
                                     /\ n = RowOf(Head(events), ViewOf(t))
         /\ UNCHANGED <<jobs, transforming, sending, results>>
         /\ Transforms' = Transforms
         /\ \A u \in Tab \ {t} : viewGeneration'[u] = viewGeneration[u]
         /\ \A j \in Transforms : j.tab = t => ~IsLatest(j)'
<1>1. /\ Ready
      /\ viewGeneration' = Bumped({t}) /\ viewPending' = viewPending \ {t}
      /\ sources' = {s \in sources : s.tab # t}
      /\ pending' = pending \ {t} /\ background' = background \ {t}
      /\ UNCHANGED <<jobs, transforming, sending, results>>
  BY DEF ApplySmall, ApplyError, Settle
<1>2. \A n \in snapshots' : \/ n \in snapshots /\ n.tab # t
                            \/ ApplySmall /\ n = RowOf(Head(events), ViewOf(t))
  <2>1. CASE ApplySmall
    <3>1. snapshots' = {s \in snapshots : s.tab # t} \cup {RowOf(Head(events), ViewOf(t))}
      BY <2>1 DEF ApplySmall, RowOf
    <3> QED
      BY <2>1, <3>1
  <2>2. CASE ApplyError
    <3>1. snapshots' = {s \in snapshots : s.tab # t}
      BY <2>2 DEF ApplyError
    <3> QED
      BY <3>1
  <2> QED
    BY <2>1, <2>2
<1>3. \A u \in Tab : viewGeneration'[u] = IF u = t /\ viewGeneration[u] > 0
                                          THEN viewGeneration[u] + 1 ELSE viewGeneration[u]
  BY <1>1 DEF Bumped
<1>4. ASSUME NEW j \in Transforms, j.tab = t
      PROVE  ~IsLatest(j)'
  <2>1. /\ j.generation \in Nat /\ viewGeneration[t] \in Nat
        /\ 0 < j.generation /\ j.generation <= viewGeneration[t]
    BY <1>4, TransformType DEF PlaceInv, TypeOK, TransformsInv, TransformOK, Job
  <2> QED
    BY <1>3, <1>4, <2>1 DEF IsLatest
<1>5. Transforms' = Transforms
  BY <1>1 DEF Transforms, ToSet
<1> QED
  BY <1>1, <1>2, <1>3, <1>4, <1>5

\* A large listing becomes the source, and the transform of it is the only one
\* of the tab that is of the latest generation.
LEMMA LargeSchedules ==
  ASSUME PlaceInv, ApplyLarge, NEW t \in Tab, t = Head(events).tab
  PROVE  /\ Ready
         /\ \E source, job :
              /\ IsOfSource(Head(events), source)
              /\ sources' = {s \in sources : s.tab # t} \cup {source}
              /\ job \in ToSet(jobs)' /\ IsOfSource(job, source)
              /\ job.generation = viewGeneration'[t] /\ job.view = ViewOf(t)
              /\ ToSet(jobs) \subseteq ToSet(jobs)'
              /\ Transforms' = Transforms \cup {job}
         /\ viewPending' = viewPending \cup {t}
         /\ UNCHANGED <<pending, background, snapshots, transforming, sending, results>>
         /\ \A u \in Tab \ {t} : viewGeneration'[u] = viewGeneration[u]
         /\ \A j \in Transforms : j.tab = t => ~IsLatest(j)'
<1> DEFINE e      == Head(events)
           taken  == Bumped({t})[t] + 1
           source == [tab |-> t, location |-> e.location, request |-> e.request,
                      content |-> e.content]
           job    == [tab |-> t, generation |-> taken, location |-> e.location,
                      request |-> e.request, content |-> e.content, view |-> ViewOf(t)]
<1>1. /\ Ready
      /\ sources' = {s \in sources : s.tab # t} \cup {source}
      /\ viewGeneration' = [viewGeneration EXCEPT ![t] = taken]
      /\ viewPending' = viewPending \cup {t}
      /\ jobs' = Append(jobs, job)
      /\ UNCHANGED <<pending, background, snapshots, transforming, sending, results>>
  BY DEF ApplyLarge, status
<1>2. viewGeneration \in [Tab -> Nat] /\ jobs \in Seq(Job)
  BY DEF PlaceInv, TypeOK
<1>3. viewGeneration[t] \in Nat /\ taken \in Nat /\ viewGeneration[t] < taken
  BY <1>2 DEF Bumped
<1> HIDE DEF taken
<1>4. /\ viewGeneration'[t] = taken
      /\ \A u \in Tab \ {t} : viewGeneration'[u] = viewGeneration[u]
  BY <1>1, <1>2
<1>5. /\ IsOfSource(e, source) /\ IsOfSource(job, source)
      /\ job.generation = taken /\ job.view = ViewOf(t)
  BY DEF IsOfSource
<1>6. job \in Job
  <2>1. e \in Event
    BY <1>1, AnswerTaken
  <2> QED
    BY <1>3, <2>1 DEF Event, Job, ViewOf, View, PlaceInv, TypeOK
<1> HIDE DEF job, source
<1>7. ToSet(jobs)' = ToSet(jobs) \cup {job}
  <2>1. ToSet(Append(jobs, job)) = ToSet(jobs) \cup {job}
    BY <1>2, <1>6, AppendedSet
  <2> QED
    BY <1>1, <2>1 DEF ToSet
<1>8. Transforms' = Transforms \cup {job}
  BY <1>1, <1>7 DEF Transforms, ToSet
<1>9. ASSUME NEW j \in Transforms, j.tab = t
      PROVE  ~IsLatest(j)'
  <2>1. j.generation \in Nat /\ j.generation <= viewGeneration[t]
    BY <1>9, TransformType DEF PlaceInv, TransformsInv, TransformOK, Job
  <2> QED
    BY <1>3, <1>4, <1>9, <2>1 DEF IsLatest
<1> QED
  BY <1>1, <1>4, <1>5, <1>7, <1>8, <1>9

\* The result of a transform is shown if it is of the latest generation and of
\* the source there is; otherwise nothing is shown.
LEMMA PollShows ==
  ASSUME PlaceInv, PollViews, NEW r, r = Head(results)
  PROVE  /\ r \in Job /\ r \in Transforms
         /\ ToSet(results) = ToSet(Tail(results)) \cup {r} /\ results' = <<>>
         /\ Transforms' \subseteq Transforms
         /\ UNCHANGED <<open, active, history, query, order, showHidden, request, generation,
                        asked, commands, tasks, events, disk, sources, viewGeneration, jobs,
                        transforming, sending>>
         /\ \/ /\ IsFresh(r)
               /\ snapshots' = {s \in snapshots : s.tab # r.tab} \cup {RowOf(r, r.view)}
               /\ viewPending' = viewPending \ {r.tab}
               /\ IF IsCurrent(r.tab, r.request)
                  THEN pending' = pending \ {r.tab} /\ background' = background \ {r.tab}
                  ELSE UNCHANGED <<pending, background>>
            \/ ~IsFresh(r) /\ UNCHANGED <<snapshots, viewPending, pending, background>>
<1>1. results \in Seq(Job) /\ results # <<>> /\ results' = <<>>
  BY DEF PlaceInv, TypeOK, PollViews
<1>2. r \in Job /\ r \in Transforms
      /\ ToSet(results) = ToSet(Tail(results)) \cup {r}
  BY <1>1, TakenSet, HeadAndTail DEF Transforms
<1>3. UNCHANGED <<open, active, history, query, order, showHidden, request, generation, asked,
                  commands, tasks, events, disk, sources, viewGeneration, jobs, transforming,
                  sending>>
  BY DEF PollViews, PumpFrame, tabVars, viewParams, asking
<1>4. Transforms' \subseteq Transforms
  <2>1. ToSet(results)' = {} /\ ToSet(jobs)' = ToSet(jobs)
    BY <1>1, <1>3 DEF ToSet
  <2> QED
    BY <1>3, <2>1 DEF Transforms
<1>5. CASE IsFresh(r)
  <2>1. /\ snapshots' = {s \in snapshots : s.tab # r.tab} \cup {RowOf(r, r.view)}
        /\ viewPending' = viewPending \ {r.tab}
        /\ IF IsCurrent(r.tab, r.request)
           THEN pending' = pending \ {r.tab} /\ background' = background \ {r.tab}
           ELSE UNCHANGED <<pending, background>>
    BY <1>5 DEF PollViews, RowOf
  <2> QED
    BY <1>1, <1>2, <1>3, <1>4, <1>5, <2>1
<1>6. CASE ~IsFresh(r)
  <2>1. UNCHANGED <<snapshots, viewPending, pending, background>>
    BY <1>6 DEF PollViews, status
  <2> QED
    BY <1>1, <1>2, <1>3, <1>4, <1>6, <2>1
<1> QED
  BY <1>5, <1>6

\* What a background refresh leaves: its tab asks, and shows what it showed.
LEMMA RefreshLeaves ==
  ASSUME PlaceInv, NEW t \in open, RefreshBackground(t)
  PROVE  /\ t \in Tab /\ t \notin pending
         /\ request'[t] = request[t] + 1 /\ asked'[t] = disk[Place(t)]
         /\ \A u \in Tab \ {t} : request'[u] = request[u] /\ asked'[u] = asked[u]
         /\ ToSet(commands)' =
              ToSet(commands) \cup {EnumerationCommand(t, Place(t), request'[t])}
         /\ commands' = Append(commands, EnumerationCommand(t, Place(t), request'[t]))
         /\ pending' = pending \cup ({t} \ AtHome)
         /\ background' = background \cup ({t} \ AtHome)
         /\ \A x \in Answers : IsCurrent(x.tab, x.request)' =>
              x.tab # t /\ IsCurrent(x.tab, x.request)
         /\ UNCHANGED <<open, active, history, query, order, showHidden, snapshots, sources,
                        viewGeneration, viewPending, jobs, transforming, sending, results,
                        tasks, events, disk>>
<1>1. TypeOK /\ RequestsInv /\ t \in Tab
  BY DEF PlaceInv, TypeOK
<1>2. /\ UNCHANGED <<open, active, history, query, order, showHidden, snapshots, sources,
                     viewGeneration, viewPending, jobs, transforming, sending, results,
                     tasks, events, disk>>
      /\ t \notin pending /\ Ask({t}, {})
      /\ commands' = Append(commands, EnumerationCommand(t, Place(t), request'[t]))
      /\ pending' = pending \cup ({t} \ AtHome)
      /\ background' = background \cup ({t} \ AtHome)
  BY DEF RefreshBackground, tabVars, viewParams, rowVars, viewVars
<1>3. /\ request'[t] = request[t] + 1 /\ asked'[t] = disk[Place(t)]
      /\ \A u \in Tab \ {t} : request'[u] = request[u] /\ asked'[u] = asked[u]
  BY <1>1, <1>2 DEF Ask, RequestsInv, Place
<1>4. request[t] \in Nat /\ Place(t) \in Location /\ disk \in [Location -> Nat \ {0}]
  BY <1>1 DEF TypeOK, History, Place
<1>5. EnumerationCommand(t, Place(t), request'[t]) \in Command
  BY <1>1, <1>3, <1>4, CommandType
<1>6. ToSet(commands)' = ToSet(commands)
                           \cup {EnumerationCommand(t, Place(t), request'[t])}
  <2> DEFINE c == EnumerationCommand(t, Place(t), request'[t])
  <2>1. commands' = Append(commands, c) /\ c \in Command /\ commands \in Seq(Command)
    BY <1>1, <1>2, <1>5 DEF TypeOK
  <2> HIDE DEF c
  <2>2. ToSet(Append(commands, c)) = ToSet(commands) \cup {c}
    BY <2>1, AppendedSet
  <2>3. ToSet(commands)' = ToSet(commands')
    BY DEF ToSet
  <2> QED
    BY <2>1, <2>2, <2>3 DEF c
<1>7. ASSUME NEW x \in Answers, IsCurrent(x.tab, x.request)'
      PROVE  x.tab # t /\ IsCurrent(x.tab, x.request)
  <2>1. AnswerOK(x) /\ x.tab \in Tab /\ x.request \in Nat
    BY <1>1, AnswerType DEF RequestsInv
  <2>2. x.tab \in open /\ x.request = request'[x.tab] /\ x.request <= request[x.tab]
    BY <1>1, <1>2, <1>7, <2>1 DEF IsCurrent, AnswerOK, RequestsInv
  <2>3. x.tab # t
    BY <1>3, <1>4, <2>1, <2>2
  <2> QED
    BY <1>3, <2>1, <2>2, <2>3 DEF IsCurrent
<1> QED
  BY <1>1, <1>2, <1>3, <1>6, <1>7

\* The view worker passes transforms on, or drops them.
LEMMA ViewWorkerPasses ==
  ASSUME PlaceInv, ViewWorker
  PROVE  /\ Transforms' \subseteq Transforms
         /\ UNCHANGED <<open, active, history, query, order, showHidden, request, generation,
                        asked, pending, background, snapshots, sources, viewGeneration,
                        viewPending, commands, tasks, events, disk>>
<1>1. /\ jobs \in Seq(Job)
      /\ ViewFrame => UNCHANGED <<open, active, history, query, order, showHidden, request,
                                  generation, asked, pending, background, snapshots, sources,
                                  viewGeneration, viewPending, commands, tasks, events, disk>>
  BY DEF PlaceInv, TypeOK, ViewFrame, tabVars, viewParams, asking, status, rowVars, workerVars
<1>2. CASE ViewWorkerTakes
  <2>1. Head(jobs) \in ToSet(jobs) /\ ToSet(Tail(jobs)) \subseteq ToSet(jobs)
    BY <1>1, <1>2, TakenSet DEF ViewWorkerTakes
  <2>2. /\ jobs' = Tail(jobs) /\ transforming' \subseteq {Head(jobs)}
        /\ UNCHANGED <<sending, results>> /\ ViewFrame
    BY <1>2 DEF ViewWorkerTakes
  <2> QED
    BY <1>1, <2>1, <2>2 DEF Transforms
<1>3. CASE ViewWorkerTransforms
  <2>1. /\ sending' \subseteq transforming /\ transforming' = {}
        /\ UNCHANGED <<jobs, results>> /\ ViewFrame
    BY <1>3 DEF ViewWorkerTransforms
  <2> QED
    BY <1>1, <2>1 DEF Transforms
<1>4. CASE ViewWorkerSends
  <2>1. PICK j \in sending : results' = <<j>>
    BY <1>4 DEF ViewWorkerSends
  <2>2. sending' = {} /\ UNCHANGED <<jobs, transforming>> /\ ViewFrame
    BY <1>4 DEF ViewWorkerSends
  <2>3. ToSet(results') = {j}
    BY <2>1 DEF ToSet
  <2> QED
    BY <1>1, <2>2, <2>3 DEF Transforms
<1> QED
  BY <1>2, <1>3, <1>4 DEF ViewWorker

LEMMA RowType ==
  ASSUME TypeOK
  PROVE  /\ \A s \in snapshots \cup sources : /\ s.tab \in Tab /\ s.location \in Location
                                              /\ s.request \in Nat /\ s.content \in Nat
         /\ \A t \in Tab : /\ request[t] \in Nat /\ asked[t] \in Nat
                           /\ Place(t) \in Location /\ disk[Place(t)] \in Nat \ {0}
  BY DEF TypeOK, Snapshot, Listing, Place, History

------------------------------------------------------------------------------
\* The rows and the sources.

Advances == \A s \in snapshots, n \in snapshots' : s.tab = n.tab => s.request <= n.request

LEMMA AskingKeepsRows ==
  ASSUME PlaceInv, PlaceInv', RowsInv, Asking
  PROVE  RowsInv' /\ Advances
<1>1. PICK S \in SUBSET Tab, closed \in SUBSET open : AsksAgain(S, closed) /\ S \subseteq open'
  BY AskingAsks
<1>2. TypeOK /\ TypeOK' /\ closed \subseteq Tab
  BY DEF PlaceInv, TypeOK
<1>3. /\ \A s \in snapshots \cup sources : s.tab \in Tab /\ s.request \in Nat
      /\ \A t \in Tab : request[t] \in Nat /\ request'[t] \in Nat
  BY <1>2, RowType DEF TypeOK
<1>4. /\ \A t \in S : request'[t] = request[t] + 1
      /\ \A t \in Tab \ (S \cup closed) : request'[t] = request[t]
      /\ sources' = {s \in sources : s.tab \notin S \cup closed}
      /\ viewPending' = viewPending \ (S \cup closed)
      /\ open' \cap closed = {}
      /\ snapshots' = KeptRows(S, closed) \cup HomeRows(S)
  BY <1>1, AskingLeavesRows, ZenonT(60)
<1>5. \A t \in Tab \ closed : request[t] <= request'[t]
  BY <1>3, <1>4
<1>6. \A n \in snapshots' :
        \/ /\ n \in snapshots /\ n.tab \notin closed
           /\ n.tab \in S => n.location # Home /\ n.location = history'[n.tab].current
        \/ /\ n.tab \in S /\ n.request = request'[n.tab]
           /\ history'[n.tab].current = Home
  BY <1>4 DEF KeptRows, HomeRows
<1>7. Advances
  <2> SUFFICES ASSUME NEW s \in snapshots, NEW n \in snapshots', s.tab = n.tab
               PROVE  s.request <= n.request
    BY DEF Advances
  <2>1. CASE n \in snapshots
    BY <1>3, <2>1 DEF RowsInv
  <2>2. CASE n.tab \in S /\ n.request = request'[n.tab]
    BY <1>3, <1>4, <2>2 DEF RowsInv
  <2> QED
    BY <1>6, <2>1, <2>2
<1>8. \A n \in snapshots' \cup sources' : n.request <= request'[n.tab]
  <2>1. ASSUME NEW n, n \in snapshots \cup sources, n.tab \notin closed
        PROVE  n.request <= request'[n.tab]
    <3>1. n.request <= request[n.tab] /\ request[n.tab] <= request'[n.tab]
          /\ n.tab \in Tab /\ request'[n.tab] \in Nat
      BY <1>2, <1>3, <1>5, <2>1 DEF RowsInv, TypeOK
    <3> QED
      BY <1>3, <2>1, <3>1
  <2>2. ASSUME NEW n \in snapshots', n.request = request'[n.tab], n.tab \in S
        PROVE  n.request <= request'[n.tab]
    BY <1>3, <2>2
  <2> QED
    BY <1>4, <1>6, <2>1, <2>2
<1>9. \A m, n \in snapshots' : m.tab = n.tab => m = n
  <2>1. \A m, n \in HomeRows(S) : m.tab = n.tab => m = n
    BY DEF HomeRows
  <2>2. \A m \in KeptRows(S, closed), n \in HomeRows(S) : m.tab # n.tab
    BY DEF HomeRows, KeptRows
  <2>3. \A m, n \in KeptRows(S, closed) : m.tab = n.tab => m = n
    BY DEF KeptRows, RowsInv
  <2> QED
    BY <1>4, <2>1, <2>2, <2>3
<1>10. \A m, n \in sources' : m.tab = n.tab => m = n
  BY <1>4 DEF RowsInv
<1>11. ASSUME NEW n \in snapshots', NEW s \in sources', n.tab = s.tab
       PROVE  /\ n.request <= s.request
              /\ s.tab \notin viewPending' => n.content = s.content
  <2>1. s \in sources /\ s.tab \notin S \cup closed
    BY <1>4
  <2>2. n \in snapshots
    BY <1>6, <1>11, <2>1
  <2> QED
    BY <1>4, <1>11, <2>1, <2>2 DEF RowsInv
<1>12. \A j \in Transforms' : IsLatest(j)' => \E s \in sources' : IsOfSource(j, s)
  <2> SUFFICES ASSUME NEW j \in Transforms', IsLatest(j)'
               PROVE  \E s \in sources' : IsOfSource(j, s)
    OBVIOUS
  <2>1. /\ j \in Transforms /\ j.tab \notin S \cup closed
        /\ \A t \in Tab \ (S \cup closed) : viewGeneration'[t] = viewGeneration[t]
    BY <1>1, AskingLeavesTransforms
  <2>2. j.tab \in Tab
    BY <1>2, <2>1, TransformType DEF Job
  <2>3. IsLatest(j)
    BY <2>1, <2>2 DEF IsLatest
  <2>4. PICK s \in sources : IsOfSource(j, s)
    BY <2>1, <2>3 DEF RowsInv
  <2> QED
    BY <1>4, <2>1, <2>4 DEF IsOfSource
<1> QED
  BY <1>7, <1>8, <1>9, <1>10, <1>11, <1>12 DEF RowsInv

LEMMA ViewingKeepsRows ==
  ASSUME PlaceInv, PlaceInv', RowsInv, Viewing
  PROVE  RowsInv' /\ Advances
<1>1. PICK T \in SUBSET Tab : Reschedules(T)
  BY ViewingSchedules
<1>2. /\ \A t \in T : /\ SourceOf(t) \in sources /\ SourceOf(t).tab = t
                      /\ NewJob(t).tab = t
                      /\ NewJob(t).request = SourceOf(t).request
                      /\ NewJob(t).content = SourceOf(t).content
      /\ \A j \in Transforms' : j \in Transforms \/ \E t \in T : j = NewJob(t)
      /\ \A t \in Tab \ T : viewGeneration'[t] = viewGeneration[t]
      /\ \A j \in Transforms : j.tab \in T => ~IsLatest(j)'
      /\ viewPending' = viewPending \cup T
      /\ UNCHANGED <<sources, request>>
  BY <1>1, SchedulesLeave, ZenonT(60)
<1>3. \A s \in snapshots' : \E n \in snapshots :
        s.tab = n.tab /\ s.request = n.request /\ s.content = n.content
  BY <1>1 DEF Reschedules, IsReviewed
<1>4. \A m, n \in snapshots' : m.tab = n.tab => m = n
  <2>1. OneRowSet => OneRowSet'
    BY <1>1 DEF Reschedules
  <2>2. OneRowSet
    BY DEF RowsInv, OneRowSet
  <2> QED
    BY <2>1, <2>2 DEF OneRowSet
<1>5. Advances
  <2> SUFFICES ASSUME NEW s \in snapshots, NEW n \in snapshots', s.tab = n.tab
               PROVE  s.request <= n.request
    BY DEF Advances
  <2>1. PICK m \in snapshots : n.tab = m.tab /\ n.request = m.request
    BY <1>3
  <2>2. m = s /\ s.request \in Nat
    BY <2>1, RowType DEF RowsInv, PlaceInv
  <2> QED
    BY <2>1, <2>2
<1>6. \A n \in snapshots' \cup sources' : n.request <= request'[n.tab]
  BY <1>2, <1>3 DEF RowsInv
<1>7. \A n \in snapshots', s \in sources' : n.tab = s.tab =>
        /\ n.request <= s.request
        /\ s.tab \notin viewPending' => n.content = s.content
  BY <1>2, <1>3 DEF RowsInv
<1>8. \A j \in Transforms' : IsLatest(j)' => \E s \in sources' : IsOfSource(j, s)
  <2> SUFFICES ASSUME NEW j \in Transforms', IsLatest(j)'
               PROVE  \E s \in sources : IsOfSource(j, s)
    BY <1>2
  <2>1. CASE j \in Transforms
    <3>1. j.tab \in Tab \ T
      BY <1>2, <2>1, TransformType DEF Job, PlaceInv
    <3>2. IsLatest(j)
      BY <1>2, <3>1 DEF IsLatest
    <3> QED
      BY <2>1, <3>2 DEF RowsInv
  <2>2. ASSUME NEW t \in T, j = NewJob(t)
        PROVE  \E s \in sources : IsOfSource(j, s)
    BY <1>2, <2>2 DEF IsOfSource
  <2> QED
    BY <1>2, <2>1, <2>2
<1> QED
  BY <1>2, <1>4, <1>5, <1>6, <1>7, <1>8 DEF RowsInv

LEMMA PumpKeepsRows ==
  ASSUME PlaceInv, PlaceInv', RowsInv,
         ApplyLarge \/ ApplySmall \/ ApplyError \/ PollViews
  PROVE  RowsInv' /\ Advances
<1>1. /\ TypeOK /\ open \subseteq Tab
      /\ \A s \in snapshots \cup sources : s.tab \in Tab /\ s.request \in Nat
      /\ \A t \in Tab : request[t] \in Nat
      /\ \A j \in Transforms : j.tab \in Tab
  BY RowType, TransformType DEF Job, PlaceInv, TypeOK
<1>2. CASE ApplySmall \/ ApplyError
  <2>1. Ready
    BY <1>2 DEF ApplySmall, ApplyError
  <2>2. PICK t \in Tab : t = Head(events).tab
    BY <2>1, AnswerTaken
  <2>3. /\ sources' = {s \in sources : s.tab # t}
        /\ viewPending' = viewPending \ {t}
        /\ Transforms' = Transforms
        /\ \A u \in Tab \ {t} : viewGeneration'[u] = viewGeneration[u]
        /\ \A j \in Transforms : j.tab = t => ~IsLatest(j)'
        /\ \A n \in snapshots' : \/ n \in snapshots /\ n.tab # t
                                 \/ n = RowOf(Head(events), ViewOf(t))
    BY <1>2, <2>2, ApplyReplaces, ZenonT(60)
  <2>4. Head(events).request = request[t] /\ request' = request
    BY <2>1, <2>2, AnswerTaken
  <2> DEFINE row == RowOf(Head(events), ViewOf(t))
  <2>5. row.tab = t /\ row.request = request[t]
    BY <2>2, <2>4 DEF RowOf
  <2>6. \A n \in snapshots' : (n \in snapshots /\ n.tab # t) \/ n = row
    BY <2>3
  <2> HIDE DEF row
  <2>7. Advances
    <3> SUFFICES ASSUME NEW s \in snapshots, NEW n \in snapshots', s.tab = n.tab
                 PROVE  s.request <= n.request
      BY DEF Advances
    <3>1. CASE n = row
      BY <2>5, <3>1 DEF RowsInv
    <3>2. CASE n \in snapshots
      <4>1. s = n
        BY <3>2 DEF RowsInv
      <4> QED
        BY <1>1, <4>1
    <3> QED
      BY <2>6, <3>1, <3>2
  <2>8. \A n \in snapshots' \cup sources' : n.request <= request'[n.tab]
    BY <1>1, <2>3, <2>4, <2>5, <2>6 DEF RowsInv
  <2>9. \A m, n \in snapshots' : m.tab = n.tab => m = n
    BY <2>5, <2>6 DEF RowsInv
  <2>10. /\ \A m, n \in sources' : m.tab = n.tab => m = n
         /\ \A n \in snapshots', s \in sources' : n.tab = s.tab =>
              /\ n.request <= s.request
              /\ s.tab \notin viewPending' => n.content = s.content
    BY <2>3, <2>5, <2>6 DEF RowsInv
  <2>11. \A j \in Transforms' : IsLatest(j)' => \E s \in sources' : IsOfSource(j, s)
    BY <1>1, <2>3 DEF RowsInv, IsLatest, IsOfSource
  <2> QED
    BY <2>7, <2>8, <2>9, <2>10, <2>11 DEF RowsInv
<1>3. CASE ApplyLarge
  <2>1. Ready
    BY <1>3 DEF ApplyLarge
  <2>2. PICK t \in Tab : t = Head(events).tab
    BY <2>1, AnswerTaken
  <2>3. PICK source, job :
              /\ IsOfSource(Head(events), source)
              /\ sources' = {s \in sources : s.tab # t} \cup {source}
              /\ IsOfSource(job, source)
              /\ Transforms' = Transforms \cup {job}
    BY <1>3, <2>2, LargeSchedules
  <2>4. /\ viewPending' = viewPending \cup {t}
        /\ UNCHANGED snapshots
        /\ \A u \in Tab \ {t} : viewGeneration'[u] = viewGeneration[u]
        /\ \A j \in Transforms : j.tab = t => ~IsLatest(j)'
    BY <1>3, <2>2, LargeSchedules
  <2>5. Head(events).request = request[t] /\ request' = request
    BY <2>1, <2>2, AnswerTaken
  <2>6. source.tab = t /\ source.request = request[t]
    BY <2>2, <2>3, <2>5 DEF IsOfSource
  <2>7. Advances
    <3> SUFFICES ASSUME NEW s \in snapshots, NEW n \in snapshots, s.tab = n.tab
                 PROVE  s.request <= n.request
      BY <2>4 DEF Advances
    <3>1. s = n
      BY DEF RowsInv
    <3> QED
      BY <1>1, <3>1
  <2>8. \A n \in snapshots' \cup sources' : n.request <= request'[n.tab]
    BY <1>1, <2>3, <2>4, <2>5, <2>6 DEF RowsInv
  <2>9. /\ \A m, n \in snapshots' : m.tab = n.tab => m = n
        /\ \A m, n \in sources' : m.tab = n.tab => m = n
    BY <2>3, <2>4, <2>6 DEF RowsInv
  <2>10. \A n \in snapshots', s \in sources' : n.tab = s.tab =>
           /\ n.request <= s.request
           /\ s.tab \notin viewPending' => n.content = s.content
    BY <2>3, <2>4, <2>6 DEF RowsInv
  <2>11. \A j \in Transforms' : IsLatest(j)' => \E s \in sources' : IsOfSource(j, s)
    BY <1>1, <2>3, <2>4 DEF RowsInv, IsLatest, IsOfSource
  <2> QED
    BY <2>7, <2>8, <2>9, <2>10, <2>11 DEF RowsInv
<1>4. CASE PollViews
  <2>1. PICK r : r = Head(results)
    OBVIOUS
  <2>2. /\ r \in Transforms /\ Transforms' \subseteq Transforms
        /\ UNCHANGED <<request, sources, viewGeneration>>
        /\ \/ /\ IsFresh(r)
              /\ snapshots' = {s \in snapshots : s.tab # r.tab} \cup {RowOf(r, r.view)}
              /\ viewPending' = viewPending \ {r.tab}
           \/ UNCHANGED <<snapshots, viewPending>>
    BY <1>4, <2>1, PollShows, ZenonT(60)
  <2>3. \A j \in Transforms' : IsLatest(j)' => \E s \in sources' : IsOfSource(j, s)
    BY <2>2 DEF RowsInv, IsLatest
  <2>4. CASE UNCHANGED <<snapshots, viewPending>>
    <3>1. Advances
      BY <1>1, <2>4 DEF Advances, RowsInv
    <3> QED
      BY <2>2, <2>3, <2>4, <3>1 DEF RowsInv
  <2>5. CASE /\ IsFresh(r)
             /\ snapshots' = {s \in snapshots : s.tab # r.tab} \cup {RowOf(r, r.view)}
             /\ viewPending' = viewPending \ {r.tab}
    <3> DEFINE row == RowOf(r, r.view)
    <3>1. row.tab = r.tab /\ row.request = r.request /\ row.content = r.content
      BY DEF RowOf
    <3>2. \A n \in snapshots' : (n \in snapshots /\ n.tab # r.tab) \/ n = row
      BY <2>5
    <3> HIDE DEF row
    <3>3. PICK source \in sources : IsOfSource(r, source)
      BY <2>2, <2>5 DEF IsFresh, IsLatest, RowsInv
    <3>4. source.tab = r.tab /\ source.request = r.request /\ source.content = r.content
      BY <3>3 DEF IsOfSource
    <3>5. Advances
      <4> SUFFICES ASSUME NEW s \in snapshots, NEW n \in snapshots', s.tab = n.tab
                   PROVE  s.request <= n.request
        BY DEF Advances
      <4>1. CASE n = row
        BY <3>1, <3>4, <4>1 DEF RowsInv
      <4>2. CASE n \in snapshots
        <5>1. s = n
          BY <4>2 DEF RowsInv
        <5> QED
          BY <1>1, <5>1
      <4> QED
        BY <3>2, <4>1, <4>2
    <3>6. \A n \in snapshots' \cup sources' : n.request <= request'[n.tab]
      BY <2>2, <3>1, <3>2, <3>4 DEF RowsInv
    <3>7. \A m, n \in snapshots' : m.tab = n.tab => m = n
      BY <3>1, <3>2 DEF RowsInv
    <3>8. \A n \in snapshots', s \in sources : n.tab = s.tab =>
            /\ n.request <= s.request
            /\ s.tab \notin viewPending' => n.content = s.content
      <4> SUFFICES ASSUME NEW n \in snapshots', NEW s \in sources, n.tab = s.tab
                   PROVE  /\ n.request <= s.request
                          /\ s.tab \notin viewPending' => n.content = s.content
        OBVIOUS
      <4>1. CASE n = row
        <5>1. s = source
          BY <3>1, <3>4, <4>1 DEF RowsInv
        <5> QED
          BY <1>1, <3>1, <3>4, <4>1, <5>1
      <4>2. CASE n \in snapshots /\ n.tab # r.tab
        BY <2>5, <4>2 DEF RowsInv
      <4> QED
        BY <3>2, <4>1, <4>2
    <3> QED
      BY <2>2, <2>3, <3>5, <3>6, <3>7, <3>8 DEF RowsInv
  <2> QED
    BY <2>2, <2>4, <2>5
<1> QED
  BY <1>2, <1>3, <1>4

\* The other steps change no rows, sources or generations of transforms.
Working == FilesystemWorker \/ \E k \in tasks : EnumerationTask(k)

Passing == PumpDefers \/ PumpDropsStale

Elsewhere ==
  \/ NavigateNowhere \/ OpenMenuOrEdit \/ CloseMenuOrEdit
  \/ \E l \in Location : RequestFileOperation(l) \/ DiskChanges(l)

LEMMA StepCases ==
  ASSUME Next
  PROVE  \/ Asking \/ Viewing \/ Working \/ ViewWorker \/ Passing \/ Elsewhere
         \/ \E t \in open : RefreshBackground(t)
         \/ ApplyUnchanged
         \/ ApplyLarge \/ ApplySmall \/ ApplyError \/ PollViews
<1>1. CASE User
  BY <1>1 DEF User, Asking, Viewing, Elsewhere
<1>2. CASE Outside \/ CloseMenuOrEdit
  BY <1>2 DEF Outside, Elsewhere
<1>3. CASE Pump
  BY <1>3 DEF Pump, Passing, Asking
<1> QED
  BY <1>1, <1>2, <1>3 DEF Next, Working

\* What the other steps leave alone.
LEMMA WorkingLeaves ==
  ASSUME Working
  PROVE  UNCHANGED <<open, active, nextTab, history, query, order, showHidden, request,
                     generation, asked, pending, background, snapshots, sources,
                     viewGeneration, viewPending, jobs, transforming, sending, results>>
<1>1. WorkerFrame =>
        UNCHANGED <<open, active, nextTab, history, query, order, showHidden, request,
                    generation, asked, pending, background, snapshots, sources,
                    viewGeneration, viewPending, jobs, transforming, sending, results>>
  BY DEF WorkerFrame, tabVars, viewParams, asking, status, rowVars, viewVars
<1>2. WorkerFrame
  BY DEF Working, FilesystemWorker, WorkerCancel, WorkerEnumerate, WorkerFileOperation,
         EnumerationTask, EnumerationReads, EnumerationLoads, EnumerationFails
<1> QED
  BY <1>1, <1>2

LEMMA PassingLeaves ==
  ASSUME Passing
  PROVE  UNCHANGED <<open, active, nextTab, history, query, order, showHidden, request,
                     generation, asked, pending, background, snapshots, sources,
                     viewGeneration, viewPending, jobs, transforming, sending, results,
                     commands, tasks, disk>>
  BY DEF Passing, PumpDefers, PumpDropsStale, PumpFrame, tabVars, viewParams, asking, status,
         rowVars, viewVars

LEMMA ElsewhereLeaves ==
  ASSUME Elsewhere
  PROVE  UNCHANGED <<open, active, nextTab, history, order, showHidden, request,
                     generation, asked, pending, background, snapshots, sources,
                     viewGeneration, viewPending, jobs, transforming, sending, results,
                     tasks, events>>
  BY DEF Elsewhere, NavigateNowhere, OpenMenuOrEdit, CloseMenuOrEdit, RequestFileOperation,
         DiskChanges, tabVars, viewParams, asking, status, rowVars, viewVars, workerVars

LEMMA UnchangedLeaves ==
  ASSUME PlaceInv, ApplyUnchanged, NEW t \in Tab, t = Head(events).tab
  PROVE  /\ Ready /\ Head(events).kind = "DirectoryLoaded"
         /\ t \in background /\ Unchanged(Head(events))
         /\ pending' = pending \ {t} /\ background' = background \ {t}
         /\ UNCHANGED <<snapshots, sources, viewGeneration, viewPending, jobs, transforming,
                        sending, results>>
  BY DEF ApplyUnchanged, Settle, rowVars, viewVars

LEMMA SameTransforms ==
  ASSUME UNCHANGED <<jobs, transforming, sending, results>>
  PROVE  Transforms' = Transforms /\ ToSet(jobs)' = ToSet(jobs) /\ ToSet(results)' = ToSet(results)
  BY DEF Transforms, ToSet

LEMMA OtherStepsKeepRows ==
  ASSUME PlaceInv, RowsInv,
         UNCHANGED <<snapshots, sources, viewGeneration, viewPending>>,
         Transforms' \subseteq Transforms,
         \A t \in Tab : request'[t] = request[t] \/ request'[t] = request[t] + 1
  PROVE  RowsInv' /\ Advances
<1>1. /\ \A s \in snapshots \cup sources : s.tab \in Tab /\ s.request \in Nat
      /\ \A t \in Tab : request[t] \in Nat
  BY RowType DEF PlaceInv
<1>2. \A n \in snapshots' \cup sources' : n.request <= request'[n.tab]
  BY <1>1 DEF RowsInv
<1>3. \A j \in Transforms' : IsLatest(j)' => \E s \in sources' : IsOfSource(j, s)
  BY DEF RowsInv, IsLatest
<1>4. Advances
  <2> SUFFICES ASSUME NEW s \in snapshots, NEW n \in snapshots, s.tab = n.tab
               PROVE  s.request <= n.request
    BY DEF Advances
  <2>1. s = n
    BY DEF RowsInv
  <2> QED
    BY <1>1, <2>1
<1> QED
  BY <1>2, <1>3, <1>4 DEF RowsInv

LEMMA RowsStep ==
  ASSUME PlaceInv, PlaceInv', RowsInv, [Next]_vars
  PROVE  RowsInv' /\ Advances
<1>1. ASSUME UNCHANGED <<snapshots, sources, viewGeneration, viewPending, jobs, transforming,
                         sending, results, request>>
      PROVE  RowsInv' /\ Advances
  BY <1>1, SameTransforms, OtherStepsKeepRows
<1>2. CASE Working \/ Passing \/ Elsewhere
  BY <1>1, <1>2, WorkingLeaves, PassingLeaves, ElsewhereLeaves
<1>3. CASE ApplyUnchanged
  <2>1. Ready
    BY <1>3 DEF ApplyUnchanged
  <2>2. UNCHANGED request /\ Head(events).tab \in Tab
    BY <2>1, AnswerTaken
  <2>3. UNCHANGED <<snapshots, sources, viewGeneration, viewPending, jobs, transforming,
                    sending, results>>
    BY <1>3, <2>2, UnchangedLeaves
  <2> QED
    BY <1>1, <2>2, <2>3
<1>4. ASSUME NEW t \in open, RefreshBackground(t)
      PROVE  RowsInv' /\ Advances
  <2>1. /\ request'[t] = request[t] + 1
        /\ \A u \in Tab \ {t} : request'[u] = request[u]
        /\ UNCHANGED <<snapshots, sources, viewGeneration, viewPending, jobs, transforming,
                       sending, results>>
    BY <1>4, RefreshLeaves
  <2>2. Transforms' = Transforms
    BY <2>1, SameTransforms
  <2> QED
    BY <2>1, <2>2, OtherStepsKeepRows
<1>5. CASE ViewWorker
  <2>1. /\ Transforms' \subseteq Transforms
        /\ UNCHANGED <<snapshots, sources, viewGeneration, viewPending, request>>
    BY <1>5, ViewWorkerPasses
  <2> QED
    BY <2>1, OtherStepsKeepRows
<1>6. CASE UNCHANGED vars
  BY <1>1, <1>6 DEF vars, asking, rowVars, viewVars
<1> QED
  BY <1>2, <1>3, <1>4, <1>5, <1>6, AskingKeepsRows, ViewingKeepsRows, PumpKeepsRows, StepCases

------------------------------------------------------------------------------
\* What the steps of the filesystem worker have in common.

LEMMA CommandTaken ==
  ASSUME PlaceInv, FilesystemWorker
  PROVE  /\ commands' = Tail(commands)
         /\ Head(commands) \in Command /\ Head(commands) \in ToSet(commands)
         /\ ToSet(commands) = ToSet(commands)' \cup {Head(commands)}
         /\ 1 \in DOMAIN commands /\ Head(commands) = commands[1]
         /\ \A i \in DOMAIN commands' : i + 1 \in DOMAIN commands /\ commands'[i] = commands[i + 1]
<1>1. commands # <<>> /\ commands' = Tail(commands) /\ commands \in Seq(Command)
  BY DEF FilesystemWorker, WorkerCancel, WorkerEnumerate, WorkerFileOperation, PlaceInv, TypeOK
<1>2. Head(commands) \in ToSet(commands) /\ Head(commands) \in Command
      /\ ToSet(commands) = ToSet(Tail(commands)) \cup {Head(commands)}
  BY <1>1, TakenSet, HeadAndTail
<1>3. ToSet(commands)' = ToSet(Tail(commands))
  BY <1>1 DEF ToSet
<1>4. /\ 1 \in DOMAIN commands /\ Head(commands) = commands[1]
      /\ \A i \in DOMAIN Tail(commands) :
           i + 1 \in DOMAIN commands /\ Tail(commands)[i] = commands[i + 1]
  BY <1>1
<1> QED
  BY <1>1, <1>2, <1>3, <1>4

\* An operation writes to the place it names, and says so with an event that
\* is no answer.
LEMMA FileOperationLeaves ==
  ASSUME PlaceInv, WorkerFileOperation
  PROVE  /\ Head(commands).kind = "FileOperation"
         /\ tasks' = tasks /\ Arrived' = Arrived
         /\ \A l \in Location : disk[l] <= disk'[l]
         /\ \A l \in Location : l # Head(commands).location => disk'[l] = disk[l]
<1>1. /\ Head(commands).kind = "FileOperation" /\ tasks' = tasks
      /\ \/ disk' = [disk EXCEPT ![Head(commands).location] = @ + 1]
         \/ disk' = disk
      /\ \/ events' = Append(events, [Head(commands) EXCEPT !.kind = "FilesChanged"])
         \/ events' = events
  BY DEF WorkerFileOperation
<1>2. disk \in [Location -> Nat \ {0}] /\ events \in Seq(Event)
  BY DEF PlaceInv, TypeOK
<1>3. Head(commands) \in Command
  BY CommandTaken DEF FilesystemWorker
<1>4. Arrived' = Arrived
  <2> DEFINE told == [Head(commands) EXCEPT !.kind = "FilesChanged"]
  <2>1. told \in Event /\ ~IsAnswer(told)
    BY <1>3 DEF Command, Event, IsAnswer
  <2>2. events' = Append(events, told) \/ events' = events
    BY <1>1
  <2> HIDE DEF told
  <2>3. ToSet(Append(events, told)) = ToSet(events) \cup {told}
    BY <1>2, <2>1, AppendedSet
  <2>4. ToSet(events)' = ToSet(events) \cup {told} \/ ToSet(events)' = ToSet(events)
    <3>1. ToSet(events)' = ToSet(events')
      BY DEF ToSet
    <3> QED
      BY <2>2, <2>3, <3>1
  <2> QED
    BY <2>1, <2>4 DEF Arrived, IsAnswer
<1> QED
  BY <1>1, <1>2, <1>4

\* An enumeration reads the folder as it is, or ends with an answer to the
\* request it was started for.
LEMMA TaskLeaves ==
  ASSUME PlaceInv, NEW k \in tasks, EnumerationTask(k)
  PROVE  /\ UNCHANGED <<commands, disk>>
         /\ k \in Answers /\ k.tab \in Tab /\ k.location \in Location
         /\ \/ /\ Arrived' = Arrived
               /\ \E read : /\ tasks' = (tasks \ {k}) \cup {read}
                            /\ read.kind = k.kind /\ read.tab = k.tab
                            /\ read.request = k.request
                            /\ read.content = disk[k.location]
            \/ /\ tasks' = tasks \ {k}
               /\ \E a : /\ Arrived' = Arrived \cup {a}
                         /\ a.tab = k.tab /\ a.request = k.request
                         /\ \/ a.kind = "DirectoryError"
                            \/ a.kind = "DirectoryLoaded" /\ a.content = k.content
                               /\ k.content # Unread
<1>1. k \in Task /\ k \in Answers /\ events \in Seq(Event)
  BY DEF PlaceInv, TypeOK, Answers
<1>2. k.tab \in Tab /\ k.location \in Location
  BY <1>1 DEF Task
<1>3. CASE EnumerationReads(k)
  <2> DEFINE read == [k EXCEPT !.content = disk[k.location]]
  <2>1. /\ UNCHANGED <<commands, disk, events>>
        /\ tasks' = (tasks \ {k}) \cup {read}
    BY <1>3 DEF EnumerationReads
  <2>2. /\ read.kind = k.kind /\ read.tab = k.tab /\ read.request = k.request
        /\ read.content = disk[k.location]
    BY <1>1 DEF Task
  <2>3. Arrived' = Arrived
    BY <2>1 DEF Arrived, ToSet, IsAnswer
  <2> HIDE DEF read
  <2> QED
    BY <1>1, <1>2, <2>1, <2>2, <2>3
<1>4. CASE EnumerationLoads(k) \/ EnumerationFails(k)
  <2> DEFINE answer(kind) == [k EXCEPT !.kind = kind]
  <2>1. PICK kind \in {"DirectoryLoaded", "DirectoryError"} :
          /\ events' = Append(events, answer(kind))
          /\ kind = "DirectoryLoaded" => k.content # Unread
    BY <1>4 DEF EnumerationLoads, EnumerationFails
  <2>2. UNCHANGED <<commands, disk>> /\ tasks' = tasks \ {k}
    BY <1>4 DEF EnumerationLoads, EnumerationFails
  <2>3. /\ answer(kind) \in Event /\ answer(kind).tab = k.tab
        /\ answer(kind).request = k.request /\ answer(kind).kind = kind
        /\ answer(kind).content = k.content
        /\ IsAnswer(answer(kind))
    BY <1>1 DEF Task, Event, IsAnswer
  <2> DEFINE a == answer(kind)
  <2> HIDE DEF answer
  <2>4. events' = Append(events, a) /\ a \in Event /\ IsAnswer(a)
    BY <2>1, <2>3
  <2>5. a.tab = k.tab /\ a.request = k.request /\ a.kind = kind /\ a.content = k.content
    BY <2>3
  <2> HIDE DEF a
  <2>6. Arrived' = Arrived \cup {a}
    <3>1. ToSet(Append(events, a)) = ToSet(events) \cup {a}
      BY <1>1, <2>4, AppendedSet
    <3>2. ToSet(events)' = ToSet(events')
      BY DEF ToSet
    <3> QED
      BY <2>4, <3>1, <3>2 DEF Arrived, IsAnswer
  <2> QED
    BY <1>1, <1>2, <2>1, <2>2, <2>5, <2>6
<1> QED
  BY <1>3, <1>4 DEF EnumerationTask

\* The pump lets go of no answer to the latest request of a tab unapplied.
LEMMA PassingArrived ==
  ASSUME PlaceInv, Passing
  PROVE  /\ Arrived' \subseteq Arrived
         /\ \A e \in Arrived \ Arrived' : ~IsCurrent(e.tab, e.request)
<1>1. events \in Seq(Event) /\ events # <<>>
  BY DEF PlaceInv, TypeOK, Passing, PumpDefers, PumpDropsStale
<1>2. ToSet(events) = ToSet(Tail(events)) \cup {Head(events)}
      /\ Head(events) \in Event /\ Tail(events) \in Seq(Event)
  BY <1>1, TakenSet, HeadAndTail
<1>3. CASE PumpDefers
  <2>1. events' = Append(Tail(events), Head(events))
    BY <1>3 DEF PumpDefers
  <2>2. ToSet(Append(Tail(events), Head(events))) = ToSet(Tail(events)) \cup {Head(events)}
    <3> DEFINE e == Head(events)
               rest == Tail(events)
    <3>1. e \in Event /\ rest \in Seq(Event)
      BY <1>2
    <3> HIDE DEF e, rest
    <3>2. ToSet(Append(rest, e)) = ToSet(rest) \cup {e}
      BY <3>1, AppendedSet
    <3> QED
      BY <3>2 DEF e, rest
  <2>3. ToSet(events)' = ToSet(events)
    BY <1>2, <2>1, <2>2 DEF ToSet
  <2> QED
    BY <2>3 DEF Arrived, IsAnswer
<1>4. CASE PumpDropsStale
  <2>1. events' = Tail(events) /\ ~CurrentAnswer(Head(events))
    BY <1>4 DEF PumpDropsStale
  <2>2. ToSet(events)' = ToSet(Tail(events))
    BY <2>1 DEF ToSet
  <2> QED
    BY <1>2, <2>1, <2>2 DEF Arrived, CurrentAnswer, IsAnswer
<1> QED
  BY <1>3, <1>4 DEF Passing

\* Every answer under way is a command, an enumeration or an event.
LEMMA AnswersAre ==
  /\ Answers = {c \in ToSet(commands) : c.kind # "FileOperation"} \cup tasks \cup Arrived
  /\ Answers' = {c \in ToSet(commands)' : c.kind # "FileOperation"} \cup tasks' \cup Arrived'
  BY DEF Answers, Arrived

------------------------------------------------------------------------------
\* What is shown was read after it was asked for.

LEMMA AskingKeepsFresh ==
  ASSUME PlaceInv, PlaceInv', FreshInv, Asking
  PROVE  FreshInv'
<1>1. PICK S \in SUBSET Tab, closed \in SUBSET open : AsksAgain(S, closed) /\ S \subseteq open'
  BY AskingAsks
<1>2. TypeOK /\ TypeOK' /\ closed \subseteq Tab /\ disk' = disk
      /\ disk \in [Location -> Nat \ {0}] /\ Home \in Location
  BY <1>1, EnumerationAssumption DEF PlaceInv, TypeOK, AsksAgain
<1>3. /\ \A t \in S : /\ asked'[t] = disk[history'[t].current]
                      /\ history'[t].current \in Location
      /\ \A t \in Tab \ S : asked'[t] = asked[t] /\ history'[t] = history[t]
      /\ \A t \in Tab \ (S \cup closed) : request'[t] = request[t]
  <2>1. \A t \in Tab : history'[t].current \in Location
    BY <1>2 DEF TypeOK, History
  <2> QED
    BY <1>1, <2>1, AskingLeavesRows, ZenonT(60)
<1>4. /\ sources' = {s \in sources : s.tab \notin S \cup closed}
      /\ pending' = (pending \ (S \cup closed)) \cup {t \in S : history'[t].current # Home}
      /\ viewPending' = viewPending \ (S \cup closed)
      /\ snapshots' = KeptRows(S, closed) \cup HomeRows(S)
  BY <1>1, AskingLeavesRows, ZenonT(60)
<1>5. /\ \A x \in Answers' :
           \/ x \in Answers
           \/ \E t \in closed : x = EnumerationCommand(t, Home, 0)
           \/ \E t \in S : x = EnumerationCommand(t, history'[t].current, request'[t])
      /\ \A x \in Answers : IsCurrent(x.tab, x.request)' =>
           x.tab \in Tab \ (S \cup closed) /\ IsCurrent(x.tab, x.request)
      /\ \A c \in ToSet(commands)' : c.kind = "FileOperation" => c \in ToSet(commands)
  BY <1>1, AskingLeavesAnswers, ZenonT(60)
<1>6. \A n \in snapshots' :
        \/ /\ n \in snapshots /\ n.tab \notin closed
           /\ n.tab \in S => n.tab \in pending'
        \/ /\ n.tab \in S /\ n.content = disk[Home]
           /\ history'[n.tab].current = Home
  BY <1>2, <1>4 DEF KeptRows, HomeRows
<1>7. HomeIsStill'
  BY <1>2, <1>5 DEF FreshInv, AnswersFresh, RowsFresh, HomeIsStill
<1>8. \A t \in Tab : asked'[t] <= disk'[Place(t)']
  <2>1. ASSUME NEW t \in S
        PROVE  asked'[t] <= disk'[history'[t].current]
    <3>1. disk[history'[t].current] \in Nat
      BY <1>2, <1>3
    <3> QED
      BY <1>2, <1>3, <3>1
  <2>2. \A t \in Tab \ S : asked'[t] <= disk'[history'[t].current]
    BY <1>2, <1>3 DEF FreshInv, AnswersFresh, RowsFresh, Place
  <2> QED
    BY <2>1, <2>2 DEF Place
<1>9. \A x \in Answers' : AnswerFresh(x)'
  <2>1. ASSUME NEW x \in Answers
        PROVE  AnswerFresh(x)'
    BY <1>3, <1>5, <2>1 DEF FreshInv, AnswersFresh, RowsFresh, AnswerFresh
  <2>2. ASSUME NEW t \in closed, NEW x, x = EnumerationCommand(t, Home, 0)
        PROVE  AnswerFresh(x)'
    BY <2>2 DEF AnswerFresh, EnumerationCommand
  <2>3. ASSUME NEW t \in S, NEW x, x = EnumerationCommand(t, history'[t].current, request'[t])
        PROVE  AnswerFresh(x)'
    <3>1. asked'[t] = disk[history'[t].current] /\ disk[history'[t].current] \in Nat \ {0}
      BY <1>2, <1>3
    <3> QED
      BY <2>3, <3>1 DEF AnswerFresh, EnumerationCommand, Unread
  <2> QED
    BY <1>5, <2>1, <2>2, <2>3
<1>10. \A s \in sources' : SourceFresh(s)'
  <2> SUFFICES ASSUME NEW s \in sources, s.tab \notin S \cup closed
               PROVE  SourceFresh(s)'
    BY <1>4
  <2>1. s.tab \in Tab /\ SourceFresh(s)
    BY <1>2, RowType DEF FreshInv, AnswersFresh, RowsFresh
  <2> QED
    BY <1>3, <1>4, <2>1 DEF SourceFresh
<1>11. \A n \in snapshots' : n.content # Unread
  BY <1>6 DEF FreshInv, AnswersFresh, RowsFresh, HomeIsStill, Unread
<1>12. RestIsFresh'
  <2> SUFFICES ASSUME NEW n \in snapshots', n.tab \notin pending' \cup viewPending'
               PROVE  n.content >= asked'[n.tab]
    BY DEF RestIsFresh
  <2>1. CASE n \in snapshots /\ n.tab \notin S \cup closed
    <3>1. n.tab \in Tab /\ n.tab \notin pending \cup viewPending
      BY <1>2, <1>4, <2>1, RowType
    <3> QED
      BY <1>3, <2>1, <3>1 DEF FreshInv, AnswersFresh, RowsFresh, RestIsFresh
  <2>2. CASE n.tab \in S /\ n.content = disk[Home] /\ history'[n.tab].current = Home
    <3>1. disk[Home] \in Nat
      BY <1>2
    <3> QED
      BY <1>3, <2>2, <3>1
  <2> QED
    BY <1>6, <2>1, <2>2
<1> QED
  BY <1>7, <1>8, <1>9, <1>10, <1>11, <1>12 DEF FreshInv, AnswersFresh, RowsFresh

\* Steps that ask for nothing: what they must leave for the answers under way,
\* and what for the rows.
LEMMA AnswersStayFresh ==
  ASSUME PlaceInv, AnswersFresh,
         UNCHANGED <<open, history, request, asked>>,
         \A l \in Location : disk'[l] \in Nat /\ disk[l] <= disk'[l],
         disk'[Home] = disk[Home],
         \A c \in ToSet(commands)' : c.kind = "FileOperation" =>
           c \in ToSet(commands) \/ c.location # Home,
         \A x \in Answers' : x \in Answers \/ AnswerFresh(x)
  PROVE  AnswersFresh'
<1>1. HomeIsStill'
  BY DEF AnswersFresh, HomeIsStill
<1>2. ASSUME NEW t \in Tab
      PROVE  asked'[t] <= disk'[Place(t)']
  <2>1. /\ Place(t) \in Location /\ asked[t] \in Nat /\ disk[Place(t)] \in Nat
        /\ asked[t] <= disk[Place(t)]
    BY RowType DEF PlaceInv, AnswersFresh
  <2>2. disk[Place(t)] <= disk'[Place(t)] /\ disk'[Place(t)] \in Nat
    BY <2>1
  <2>3. Place(t)' = Place(t) /\ asked' = asked
    BY DEF Place
  <2> QED
    BY <2>1, <2>2, <2>3
<1>3. \A x \in Answers' : AnswerFresh(x)'
  BY DEF AnswersFresh, AnswerFresh, IsCurrent
<1> QED
  BY <1>1, <1>2, <1>3 DEF AnswersFresh

LEMMA RowsStayFresh ==
  ASSUME RowsFresh, UNCHANGED <<request, asked, sources, pending>>,
         viewPending \subseteq viewPending',
         \A s \in snapshots' : \E n \in snapshots : s.tab = n.tab /\ s.content = n.content
  PROVE  RowsFresh'
<1>1. \A s \in sources' : SourceFresh(s)'
  BY DEF RowsFresh, SourceFresh
<1>2. \A n \in snapshots' : n.content # Unread
  BY DEF RowsFresh
<1>3. RestIsFresh'
  BY DEF RowsFresh, RestIsFresh
<1> QED
  BY <1>1, <1>2, <1>3 DEF RowsFresh

LEMMA DiskType ==
  ASSUME PlaceInv
  PROVE  /\ Home \in Location /\ disk \in [Location -> Nat \ {0}]
         /\ \A l \in Location : disk[l] \in Nat /\ disk[l] <= disk[l]
  BY EnumerationAssumption DEF PlaceInv, TypeOK

LEMMA WorkingKeepsFresh ==
  ASSUME PlaceInv, PlaceInv', AnswersFresh, Working
  PROVE  AnswersFresh'
<1>1. UNCHANGED <<open, history, request, asked>>
  BY WorkingLeaves
<1>2. TypeOK /\ TypeOK' /\ Home \in Location
  BY EnumerationAssumption DEF PlaceInv
<1>3. \A l \in Location : disk[l] \in Nat /\ disk'[l] \in Nat /\ disk[l] <= disk[l]
  BY <1>2 DEF TypeOK
<1>4. CASE WorkerCancel \/ WorkerEnumerate
  <2>1. /\ ToSet(commands) = ToSet(commands)' \cup {Head(commands)}
        /\ Head(commands) \in ToSet(commands)
    BY <1>4, CommandTaken DEF FilesystemWorker
  <2>2. /\ disk' = disk /\ events' = events
        /\ tasks' \subseteq tasks \/ /\ tasks' \subseteq tasks \cup {Head(commands)}
                                     /\ Head(commands).kind # "FileOperation"
    BY <1>4 DEF WorkerCancel, WorkerEnumerate, Abort
  <2>3. Arrived' = Arrived
    BY <2>2 DEF Arrived, ToSet, IsAnswer
  <2>4. \A x \in Answers' : x \in Answers
    BY <2>1, <2>2, <2>3, AnswersAre
  <2>5. \A l \in Location : disk'[l] \in Nat /\ disk[l] <= disk'[l]
    BY <1>3, <2>2
  <2> QED
    BY <1>1, <2>1, <2>2, <2>4, <2>5, AnswersStayFresh
<1>5. CASE WorkerFileOperation
  <2>1. /\ ToSet(commands) = ToSet(commands)' \cup {Head(commands)}
        /\ Head(commands) \in ToSet(commands)
    BY <1>5, CommandTaken DEF FilesystemWorker
  <2>2. /\ Head(commands).kind = "FileOperation"
        /\ tasks' = tasks /\ Arrived' = Arrived
        /\ \A l \in Location : disk[l] <= disk'[l]
        /\ \A l \in Location : l # Head(commands).location => disk'[l] = disk[l]
    BY <1>5, FileOperationLeaves
  <2>3. disk'[Home] = disk[Home]
    BY <1>2, <2>1, <2>2 DEF AnswersFresh, HomeIsStill
  <2>4. \A x \in Answers' : x \in Answers
    BY <2>1, <2>2, AnswersAre
  <2> QED
    BY <1>1, <1>3, <2>1, <2>2, <2>3, <2>4, AnswersStayFresh
<1>6. ASSUME NEW k \in tasks, EnumerationTask(k)
      PROVE  AnswersFresh'
  <2>1. /\ UNCHANGED <<commands, disk>>
        /\ k \in Answers /\ k.tab \in Tab /\ k.location \in Location
    BY <1>6, TaskLeaves
  <2>2. AnswerFresh(k) /\ AnswerOK(k) /\ k.kind \in {"Enumerate", "EnumerateReferences"}
    BY <1>2, <2>1 DEF AnswersFresh, PlaceInv, RequestsInv, TypeOK, Task
  <2>3. ToSet(commands)' = ToSet(commands)
    BY <2>1 DEF ToSet
  <2>4. \A l \in Location : disk'[l] \in Nat /\ disk[l] <= disk'[l]
    BY <1>3, <2>1
  <2>5. \A x \in Answers' : x \in Answers \/ AnswerFresh(x)
    <3>1. ASSUME NEW read, tasks' = (tasks \ {k}) \cup {read}, Arrived' = Arrived,
                 read.kind = k.kind, read.tab = k.tab, read.request = k.request,
                 read.content = disk[k.location]
          PROVE  \A x \in Answers' : x \in Answers \/ AnswerFresh(x)
      <4>1. AnswerFresh(read)
        <5> SUFFICES ASSUME IsCurrent(read.tab, read.request)
                     PROVE  read.content # Unread /\ asked[read.tab] <= read.content
          BY DEF AnswerFresh
        <5>1. k.location = Place(k.tab)
          BY <2>2, <3>1 DEF AnswerOK
        <5>2. disk[k.location] \in Nat \ {0}
          BY <1>2, <2>1 DEF TypeOK
        <5> QED
          BY <2>1, <3>1, <5>1, <5>2 DEF AnswersFresh, Unread
      <4> QED
        BY <2>3, <3>1, <4>1, AnswersAre
    <3>2. ASSUME NEW a, tasks' = tasks \ {k}, Arrived' = Arrived \cup {a},
                 a.tab = k.tab, a.request = k.request,
                 \/ a.kind = "DirectoryError"
                 \/ a.kind = "DirectoryLoaded" /\ a.content = k.content /\ k.content # Unread
          PROVE  \A x \in Answers' : x \in Answers \/ AnswerFresh(x)
      <4>1. AnswerFresh(a)
        BY <2>2, <3>2 DEF AnswerFresh
      <4> QED
        BY <2>3, <3>2, <4>1, AnswersAre
    <3> QED
      BY <1>6, <3>1, <3>2, TaskLeaves
  <2> QED
    BY <1>1, <2>1, <2>3, <2>4, <2>5, AnswersStayFresh
<1> QED
  BY <1>4, <1>5, <1>6 DEF Working, FilesystemWorker

LEMMA ElsewhereKeepsFresh ==
  ASSUME PlaceInv, PlaceInv', AnswersFresh, Elsewhere
  PROVE  AnswersFresh'
<1>1. UNCHANGED <<open, history, request, asked, tasks, events>>
  BY ElsewhereLeaves
<1>2. Arrived' = Arrived
  BY <1>1 DEF Arrived, ToSet, IsAnswer
<1>3. ASSUME UNCHANGED <<commands, disk>>
      PROVE  AnswersFresh'
  <2>1. ToSet(commands)' = ToSet(commands)
    BY <1>3 DEF ToSet
  <2>2. \A x \in Answers' : x \in Answers
    BY <1>1, <1>2, <2>1, AnswersAre
  <2> QED
    BY <1>1, <1>3, <2>1, <2>2, DiskType, AnswersStayFresh
<1>4. CASE NavigateNowhere \/ OpenMenuOrEdit \/ CloseMenuOrEdit
  BY <1>3, <1>4 DEF NavigateNowhere, OpenMenuOrEdit, CloseMenuOrEdit, workerVars
<1>5. ASSUME NEW l \in Location, RequestFileOperation(l)
      PROVE  AnswersFresh'
  <2> DEFINE c == [kind |-> "FileOperation", tab |-> active, location |-> l,
                   request |-> 0, content |-> Unread]
  <2>1. commands' = Append(commands, c) /\ l # Home /\ disk' = disk
    BY <1>5 DEF RequestFileOperation
  <2>2. c \in Command /\ c.kind = "FileOperation" /\ c.location = l
    BY <1>5 DEF PlaceInv, TypeOK, Command, Unread
  <2> HIDE DEF c
  <2>3. ToSet(commands)' = ToSet(commands) \cup {c}
    <3>1. ToSet(Append(commands, c)) = ToSet(commands) \cup {c}
      BY <2>2, AppendedSet DEF PlaceInv, TypeOK
    <3> QED
      BY <2>1, <3>1 DEF ToSet
  <2>4. \A x \in Answers' : x \in Answers
    BY <1>1, <1>2, <2>2, <2>3, AnswersAre
  <2> QED
    BY <1>1, <2>1, <2>2, <2>3, <2>4, DiskType, AnswersStayFresh
<1>6. ASSUME NEW l \in Location, DiskChanges(l)
      PROVE  AnswersFresh'
  <2>1. l # Home /\ disk' = [disk EXCEPT ![l] = @ + 1] /\ commands' = commands
    BY <1>6 DEF DiskChanges, workerVars
  <2>2. /\ \A m \in Location : disk'[m] \in Nat /\ disk[m] <= disk'[m]
        /\ disk'[Home] = disk[Home]
    BY <2>1, DiskType
  <2>3. ToSet(commands)' = ToSet(commands)
    BY <2>1 DEF ToSet
  <2>4. \A x \in Answers' : x \in Answers
    BY <1>1, <1>2, <2>3, AnswersAre
  <2> QED
    BY <1>1, <2>2, <2>3, <2>4, AnswersStayFresh
<1> QED
  BY <1>4, <1>5, <1>6 DEF Elsewhere

LEMMA RefreshKeepsFresh ==
  ASSUME PlaceInv, PlaceInv', RowsInv, FreshInv, NEW t \in open, RefreshBackground(t)
  PROVE  FreshInv'
<1> DEFINE c == EnumerationCommand(t, Place(t), request'[t])
<1>1. /\ t \in Tab /\ t \notin pending
      /\ request'[t] = request[t] + 1 /\ asked'[t] = disk[Place(t)]
      /\ \A u \in Tab \ {t} : request'[u] = request[u] /\ asked'[u] = asked[u]
      /\ ToSet(commands)' = ToSet(commands) \cup {c}
      /\ pending' = pending \cup ({t} \ AtHome)
      /\ \A x \in Answers : IsCurrent(x.tab, x.request)' =>
           x.tab # t /\ IsCurrent(x.tab, x.request)
      /\ UNCHANGED <<open, history, snapshots, sources, viewPending, tasks, events, disk>>
  BY RefreshLeaves
<1>2. /\ \A s \in snapshots \cup sources : s.tab \in Tab /\ s.request \in Nat /\ s.content \in Nat
      /\ \A u \in Tab : request[u] \in Nat /\ Place(u) \in Location
      /\ \A x \in Answers : x.tab \in Tab
      /\ disk[Place(t)] \in Nat \ {0}
  BY <1>1, RowType, AnswerType DEF PlaceInv
<1>3. Arrived' = Arrived /\ \A u : Place(u)' = Place(u)
  BY <1>1 DEF Arrived, ToSet, IsAnswer, Place
<1>4. c.kind # "FileOperation" /\ \A x : x = c => AnswerFresh(x)'
  BY <1>1, <1>2 DEF AnswerFresh, EnumerationCommand, Unread
<1> HIDE DEF c
<1>5. \A x \in Answers' : AnswerFresh(x)'
  <2>1. \A x \in Answers' : x \in Answers \/ x = c
    BY <1>1, <1>3, AnswersAre
  <2>2. ASSUME NEW x \in Answers
        PROVE  AnswerFresh(x)'
    BY <1>1, <1>2, <2>2 DEF FreshInv, AnswersFresh, RowsFresh, AnswerFresh
  <2> QED
    BY <1>4, <2>1, <2>2
<1>6. \A u \in Tab : asked'[u] <= disk'[Place(u)']
  <2>1. asked'[t] <= disk[Place(t)]
    BY <1>1, <1>2
  <2>2. \A u \in Tab \ {t} : asked'[u] <= disk[Place(u)]
    BY <1>1 DEF FreshInv, AnswersFresh, RowsFresh
  <2> QED
    BY <1>1, <1>3, <2>1, <2>2
<1>7. HomeIsStill'
  BY <1>1, <1>4 DEF FreshInv, AnswersFresh, RowsFresh, HomeIsStill
<1>8. t \notin pending' => asked'[t] = 1
  BY <1>1 DEF AtHome, FreshInv, AnswersFresh, RowsFresh, HomeIsStill
<1>9. ASSUME NEW s \in sources
      PROVE  SourceFresh(s)'
  <2>1. SourceFresh(s) /\ s.content # 0 /\ s.request <= request[s.tab]
    BY DEF FreshInv, AnswersFresh, RowsFresh, SourceFresh, Unread, RowsInv
  <2>2. CASE s.tab = t
    <3>1. s.request # request'[t]
      BY <1>1, <1>2, <2>1, <2>2
    <3> QED
      BY <1>2, <1>8, <2>1, <2>2, <3>1 DEF SourceFresh, Unread
  <2>3. CASE s.tab # t
    BY <1>1, <1>2, <2>1, <2>3 DEF SourceFresh
  <2> QED
    BY <2>2, <2>3
<1>10. RestIsFresh'
  <2> SUFFICES ASSUME NEW n \in snapshots, n.tab \notin pending' \cup viewPending
               PROVE  n.content >= asked'[n.tab]
    BY <1>1 DEF RestIsFresh
  <2>1. n.content # 0
    BY DEF FreshInv, AnswersFresh, RowsFresh, Unread
  <2>2. CASE n.tab = t
    BY <1>2, <1>8, <2>1, <2>2
  <2>3. CASE n.tab # t
    BY <1>1, <1>2, <2>3 DEF FreshInv, AnswersFresh, RowsFresh, RestIsFresh
  <2> QED
    BY <2>2, <2>3
<1> QED
  BY <1>1, <1>5, <1>6, <1>7, <1>9, <1>10 DEF FreshInv, AnswersFresh, RowsFresh

\* The answers that are left when the pump has applied one.
LEMMA AppliedLeavesAnswers ==
  ASSUME PlaceInv, AnswersFresh, Ready
  PROVE  AnswersFresh'
<1>1. /\ ToSet(events) = ToSet(events)' \cup {Head(events)}
      /\ UNCHANGED <<open, history, request, asked, commands, tasks, disk>>
  BY AnswerTaken
<1>2. ToSet(commands)' = ToSet(commands) /\ Arrived' \subseteq Arrived
  BY <1>1 DEF ToSet, Arrived, IsAnswer
<1>3. \A x \in Answers' : x \in Answers
  BY <1>1, <1>2, AnswersAre
<1> QED
  BY <1>1, <1>2, <1>3, DiskType, AnswersStayFresh

\* A listing the pump applies was read after the request it answers.
LEMMA AppliedIsFresh ==
  ASSUME PlaceInv, AnswersFresh, Ready, Head(events).kind = "DirectoryLoaded"
  PROVE  /\ Head(events).content # Unread
         /\ asked[Head(events).tab] <= Head(events).content
<1>1. /\ Head(events) \in Answers
      /\ IsCurrent(Head(events).tab, Head(events).request)
  BY AnswerTaken
<1>2. AnswerFresh(Head(events))
  BY <1>1 DEF AnswersFresh
<1> QED
  BY <1>1, <1>2 DEF AnswerFresh

LEMMA ApplyingKeepsFresh ==
  ASSUME PlaceInv, PlaceInv', RowsInv, AnswersFresh, RowsFresh,
         ApplyUnchanged \/ ApplyLarge \/ ApplySmall \/ ApplyError
  PROVE  RowsFresh'
<1>1. Ready
  BY DEF ApplyUnchanged, ApplyLarge, ApplySmall, ApplyError
<1>2. PICK t \in Tab : t = Head(events).tab
  BY <1>1, AnswerTaken
<1>3. /\ UNCHANGED <<request, asked>> /\ Head(events).request = request[t]
      /\ Head(events).content \in Nat
      /\ \A s \in snapshots \cup sources : s.content \in Nat
      /\ asked[t] \in Nat
  BY <1>1, <1>2, AnswerTaken, AnswerType, RowType DEF PlaceInv
<1>4. Head(events).kind = "DirectoryLoaded" =>
        Head(events).content # Unread /\ asked[t] <= Head(events).content
  BY <1>1, <1>2, AppliedIsFresh
<1>5. CASE ApplyUnchanged
  <2>1. /\ Head(events).kind = "DirectoryLoaded"
        /\ Unchanged(Head(events))
        /\ pending' = pending \ {t}
        /\ UNCHANGED <<snapshots, sources, viewPending>>
    BY <1>2, <1>5, UnchangedLeaves
  <2>2. \A s \in sources : s.tab = t => asked[t] <= s.content
    <3> SUFFICES ASSUME NEW s \in sources, s.tab = t
                 PROVE  asked[t] <= s.content
      OBVIOUS
    <3>1. HasSource(Head(events).tab)
      BY <1>2 DEF HasSource
    <3>2. PICK u \in sources : u.tab = t /\ u.content = Head(events).content
      BY <1>2, <2>1, <3>1 DEF Unchanged
    <3>3. u = s
      BY <3>2 DEF RowsInv
    <3> QED
      BY <1>4, <2>1, <3>2, <3>3
  <2>3. \A n \in snapshots : n.tab = t /\ t \notin viewPending => asked[t] <= n.content
    <3> SUFFICES ASSUME NEW n \in snapshots, n.tab = t, t \notin viewPending
                 PROVE  asked[t] <= n.content
      OBVIOUS
    <3>1. CASE HasSource(Head(events).tab)
      <4>1. PICK u \in sources : u.tab = t
        BY <1>2, <3>1 DEF HasSource
      <4>2. n.content = u.content
        BY <4>1 DEF RowsInv
      <4> QED
        BY <2>2, <4>1, <4>2
    <3>2. CASE ~HasSource(Head(events).tab)
      <4>1. PICK u \in snapshots : u.tab = t /\ u.content = Head(events).content
        BY <1>2, <2>1, <3>2 DEF Unchanged
      <4>2. u = n
        BY <4>1 DEF RowsInv
      <4> QED
        BY <1>4, <2>1, <4>1, <4>2
    <3> QED
      BY <3>1, <3>2
  <2>4. \A s \in sources' : SourceFresh(s)'
    BY <1>3, <2>1, <2>2 DEF RowsFresh, SourceFresh
  <2>5. RestIsFresh'
    BY <1>3, <2>1, <2>3 DEF RowsFresh, RestIsFresh
  <2> QED
    BY <2>1, <2>4, <2>5 DEF RowsFresh
<1>6. CASE ApplyLarge
  <2>1. Head(events).kind = "DirectoryLoaded"
    BY <1>6 DEF ApplyLarge
  <2>2. PICK source :
          /\ IsOfSource(Head(events), source)
          /\ sources' = {s \in sources : s.tab # t} \cup {source}
    BY <1>2, <1>6, LargeSchedules
  <2>3. viewPending' = viewPending \cup {t} /\ UNCHANGED <<pending, snapshots>>
    BY <1>2, <1>6, LargeSchedules
  <2>4. SourceFresh(source)'
    BY <1>2, <1>3, <1>4, <2>1, <2>2 DEF SourceFresh, IsOfSource
  <2>5. \A s \in sources' : SourceFresh(s)'
    BY <1>3, <2>2, <2>3, <2>4 DEF RowsFresh, SourceFresh
  <2>6. RestIsFresh'
    BY <1>3, <2>3 DEF RowsFresh, RestIsFresh
  <2> QED
    BY <2>3, <2>5, <2>6 DEF RowsFresh
<1>7. CASE ApplySmall \/ ApplyError
  <2>1. /\ sources' = {s \in sources : s.tab # t}
        /\ viewPending' = viewPending \ {t} /\ pending' = pending \ {t}
        /\ \A n \in snapshots' : \/ n \in snapshots /\ n.tab # t
                                 \/ /\ ApplySmall
                                    /\ n = RowOf(Head(events), ViewOf(t))
    BY <1>2, <1>7, ApplyReplaces, ZenonT(60)
  <2>2. ApplySmall => Head(events).kind = "DirectoryLoaded"
    BY DEF ApplySmall
  <2>3. ASSUME NEW n \in snapshots'
        PROVE  \/ n \in snapshots /\ n.tab # t
               \/ n.tab = t /\ n.content # Unread /\ asked[t] <= n.content
    BY <1>2, <1>4, <2>1, <2>2 DEF RowOf
  <2>4. \A s \in sources' : SourceFresh(s)'
    BY <1>3, <2>1 DEF RowsFresh, SourceFresh
  <2>5. RestIsFresh'
    BY <1>3, <2>1, <2>3 DEF RowsFresh, RestIsFresh
  <2> QED
    BY <2>3, <2>4, <2>5 DEF RowsFresh
<1> QED
  BY <1>5, <1>6, <1>7

LEMMA PollingKeepsFresh ==
  ASSUME PlaceInv, PlaceInv', RowsInv, RowsFresh, PollViews
  PROVE  RowsFresh'
<1>1. PICK r : r = Head(results)
  OBVIOUS
<1>2. /\ r \in Transforms
      /\ UNCHANGED <<request, asked, sources>>
      /\ \/ /\ IsFresh(r)
            /\ snapshots' = {s \in snapshots : s.tab # r.tab} \cup {RowOf(r, r.view)}
            /\ viewPending' = viewPending \ {r.tab}
            /\ IF IsCurrent(r.tab, r.request)
               THEN pending' = pending \ {r.tab} /\ background' = background \ {r.tab}
               ELSE UNCHANGED <<pending, background>>
         \/ UNCHANGED <<snapshots, viewPending, pending>>
  BY <1>1, PollShows, ZenonT(60)
<1>3. CASE UNCHANGED <<snapshots, viewPending, pending>>
  BY <1>2, <1>3, RowsStayFresh
<1>4. CASE /\ IsFresh(r)
           /\ snapshots' = {s \in snapshots : s.tab # r.tab} \cup {RowOf(r, r.view)}
           /\ viewPending' = viewPending \ {r.tab}
           /\ IF IsCurrent(r.tab, r.request)
              THEN pending' = pending \ {r.tab} /\ background' = background \ {r.tab}
              ELSE UNCHANGED <<pending, background>>
  <2>1. PICK source \in sources : IsOfSource(r, source)
    BY <1>2, <1>4 DEF IsFresh, IsLatest, RowsInv
  <2>2. source.tab = r.tab /\ source.request = r.request /\ source.content = r.content
        /\ \A s \in sources : s.tab = r.tab => s = source
    BY <2>1 DEF IsOfSource, RowsInv
  <2>3. SourceFresh(source)
    BY DEF RowsFresh
  <2>4. \/ pending' = pending
        \/ pending' = pending \ {r.tab} /\ r.request = request[r.tab]
    BY <1>4 DEF IsCurrent
  <2>5. SourceFresh(source)'
    BY <1>2, <2>2, <2>3, <2>4 DEF SourceFresh
  <2>6. \A s \in sources' : SourceFresh(s)'
    <3>1. ASSUME NEW s \in sources, s.tab # r.tab
          PROVE  SourceFresh(s)'
      BY <1>2, <2>4, <3>1 DEF RowsFresh, SourceFresh
    <3> QED
      BY <1>2, <2>2, <2>5, <3>1
  <2>7. \A n \in snapshots' : \/ n \in snapshots /\ n.tab # r.tab
                              \/ n.tab = r.tab /\ n.content = r.content
    BY <1>4 DEF RowOf
  <2>8. \A n \in snapshots' : n.content # Unread
    BY <2>2, <2>3, <2>7 DEF RowsFresh, SourceFresh
  <2>9. RestIsFresh'
    <3> SUFFICES ASSUME NEW n \in snapshots', n.tab \notin pending' \cup viewPending'
                 PROVE  n.content >= asked[n.tab]
      BY <1>2 DEF RestIsFresh
    <3>1. CASE n \in snapshots /\ n.tab # r.tab
      BY <1>4, <2>4, <3>1 DEF RowsFresh, RestIsFresh
    <3>2. CASE n.tab = r.tab /\ n.content = r.content
      <4>1. asked[r.tab] <= r.content
        BY <1>2, <2>2, <2>5, <3>2 DEF SourceFresh
      <4>2. r.content \in Nat /\ asked[r.tab] \in Nat
        BY <2>2, RowType DEF PlaceInv
      <4> QED
        BY <3>2, <4>1, <4>2
    <3> QED
      BY <2>7, <3>1, <3>2
  <2> QED
    BY <2>6, <2>8, <2>9 DEF RowsFresh
<1> QED
  BY <1>2, <1>3, <1>4

LEMMA FreshStep ==
  ASSUME PlaceInv, PlaceInv', RowsInv, FreshInv, [Next]_vars
  PROVE  FreshInv'
<1>1. ASSUME UNCHANGED <<open, history, request, asked, sources, pending, viewPending,
                         snapshots>>
      PROVE  RowsFresh'
  BY <1>1, RowsStayFresh DEF FreshInv
<1>2. ASSUME UNCHANGED <<open, history, request, asked, disk, commands>>,
             \A x \in Answers' : x \in Answers
      PROVE  AnswersFresh'
  <2>1. ToSet(commands)' = ToSet(commands)
    BY <1>2 DEF ToSet
  <2> QED
    BY <1>2, <2>1, DiskType, AnswersStayFresh DEF FreshInv
<1>3. ASSUME UNCHANGED <<commands, tasks, events>>
      PROVE  \A x \in Answers' : x \in Answers
  BY <1>3 DEF Answers, ToSet, IsAnswer
<1>4. CASE Working
  BY <1>1, <1>4, WorkingLeaves, WorkingKeepsFresh DEF FreshInv
<1>5. CASE Elsewhere
  BY <1>1, <1>5, ElsewhereLeaves, ElsewhereKeepsFresh DEF FreshInv
<1>6. CASE Passing
  <2>1. UNCHANGED <<open, history, request, asked, sources, pending, viewPending, snapshots,
                    disk, commands, tasks>>
    BY <1>6, PassingLeaves
  <2>2. ToSet(commands)' = ToSet(commands) /\ Arrived' \subseteq Arrived
    BY <1>6, <2>1, PassingArrived DEF ToSet
  <2>3. \A x \in Answers' : x \in Answers
    BY <2>1, <2>2, AnswersAre
  <2> QED
    BY <1>1, <1>2, <2>1, <2>3 DEF FreshInv
<1>7. CASE ViewWorker
  <2>1. UNCHANGED <<open, history, request, asked, sources, pending, viewPending, snapshots,
                    disk, commands, tasks, events>>
    BY <1>7, ViewWorkerPasses
  <2> QED
    BY <1>1, <1>2, <1>3, <2>1 DEF FreshInv
<1>8. CASE ApplyUnchanged \/ ApplyLarge \/ ApplySmall \/ ApplyError
  <2>1. Ready
    BY <1>8 DEF ApplyUnchanged, ApplyLarge, ApplySmall, ApplyError
  <2> QED
    BY <1>8, <2>1, AppliedLeavesAnswers, ApplyingKeepsFresh DEF FreshInv
<1>9. CASE PollViews
  <2>1. PICK r : r = Head(results)
    OBVIOUS
  <2>2. UNCHANGED <<open, history, request, asked, disk, commands, tasks, events>>
    BY <1>9, <2>1, PollShows
  <2>3. AnswersFresh'
    BY <1>2, <1>3, <2>2
  <2> QED
    BY <1>9, <2>3, PollingKeepsFresh DEF FreshInv
<1>10. CASE Viewing
  <2>1. PICK T \in SUBSET Tab : Reschedules(T)
    BY <1>10, ViewingSchedules
  <2>2. /\ viewPending' = viewPending \cup T
        /\ UNCHANGED <<open, history, sources, request, asked, pending, commands, tasks,
                       events, disk>>
    BY <2>1, SchedulesLeave
  <2>3. \A s \in snapshots' : \E n \in snapshots : s.tab = n.tab /\ s.content = n.content
    BY <2>1 DEF Reschedules, IsReviewed
  <2>4. RowsFresh'
    BY <2>2, <2>3, RowsStayFresh DEF FreshInv
  <2> QED
    BY <1>2, <1>3, <2>2, <2>4 DEF FreshInv
<1>11. CASE UNCHANGED vars
  <2>1. UNCHANGED <<open, history, request, asked, sources, pending, viewPending, snapshots,
                    disk, commands, tasks, events>>
    BY <1>11 DEF vars, tabVars, asking, status, rowVars, viewVars, workerVars
  <2> QED
    BY <1>1, <1>2, <1>3, <2>1 DEF FreshInv
<1> QED
  BY <1>4, <1>5, <1>6, <1>7, <1>8, <1>9, <1>10, <1>11, AskingKeepsFresh, RefreshKeepsFresh,
     StepCases

------------------------------------------------------------------------------
\* Every request is served.

\* What the queue of the worker holds after tabs have asked: the commands it
\* held, those of the closed tabs, and one of each tab that asks.
AreSent(g, asks, S, closed) ==
  /\ commands' = (commands \o g) \o asks
  /\ \A x \in ToSet(g) : x.tab \in closed
  /\ \A i \in DOMAIN asks :
       /\ asks[i].tab \in S
       /\ asks[i] = EnumerationCommand(asks[i].tab, history'[asks[i].tab].current,
                                       request'[asks[i].tab])
  /\ \A i, j \in DOMAIN asks : asks[i].tab = asks[j].tab => i = j
  /\ \A t \in S : \E i \in DOMAIN asks : asks[i].tab = t

LEMMA AskingLeavesQueue ==
  ASSUME PlaceInv, PlaceInv', NEW S \in SUBSET Tab, NEW closed \in SUBSET open,
         AsksAgain(S, closed)
  PROVE  \E g \in Seq(Command), asks \in Seq(Command) : AreSent(g, asks, S, closed)
<1> DEFINE cancels == {EnumerationCommand(t, Home, 0) : t \in closed}
           command(t) == EnumerationCommand(t, history'[t].current, request'[t])
<1>1. /\ closed \in SUBSET Tab /\ commands \in Seq(Command) /\ Home \in Location
      /\ disk \in [Location -> Nat \ {0}]
      /\ \A t \in Tab : history'[t].current \in Location /\ request'[t] \in Nat
  BY EnumerationAssumption DEF PlaceInv, TypeOK, History
<1>2. PICK f \in Orders(S), g \in Orders(cancels) :
        commands' = commands \o g \o [i \in DOMAIN f |-> command(f[i])]
  BY DEF AsksAgain, RequestEnumeration, Sent
<1> DEFINE asks == [i \in DOMAIN f |-> command(f[i])]
<1>3. /\ f \in Seq(S) /\ DOMAIN f = 1..Cardinality(S) /\ Cardinality(S) \in Nat
      /\ \A t \in S : \E i \in DOMAIN f : f[i] = t
  BY OrderIsSequence, OrderIsComplete, TabsFinite, FS_CardinalityType
<1>4. \A i \in DOMAIN f : f[i] \in S
  BY <1>3
<1>5. \A t \in S : command(t) \in Command /\ command(t).tab = t
  BY <1>1, CommandType
<1>6. /\ DOMAIN asks = 1..Cardinality(S)
      /\ \A i \in DOMAIN asks : asks[i] = command(f[i]) /\ asks[i].tab = f[i]
                                /\ asks[i] \in Command
  BY <1>3, <1>4, <1>5
<1>7. asks \in Seq(Command)
  BY <1>3, <1>6, FunctionIsSequence, asks \in [1..Cardinality(S) -> Command]
<1>8. \A i, j \in DOMAIN asks : asks[i].tab = asks[j].tab => i = j
  BY <1>3, <1>6 DEF Orders
<1>9. IsFiniteSet(cancels)
  <2> DEFINE c == [t \in closed |-> EnumerationCommand(t, Home, 0)]
  <2>1. c \in Surjection(closed, cancels)
    BY DEF Surjection
  <2>2. IsFiniteSet(closed)
    BY <1>1, TabsFinite
  <2> QED
    BY <2>1, <2>2, FS_Surjection
<1>10. \A x \in cancels : x \in Command /\ x.tab \in closed
  BY <1>1, CommandType
<1> HIDE DEF cancels
<1>11. g \in Seq(cancels) /\ ToSet(g) \subseteq cancels
  BY <1>9, OrderIsSequence
<1>12. cancels \subseteq Command
  BY <1>10
<1>13. g \in Seq(Command) /\ \A x \in ToSet(g) : x.tab \in closed
  BY <1>10, <1>11, <1>12
<1> HIDE DEF asks
<1>14. commands' = (commands \o g) \o asks
  BY <1>2 DEF asks
<1>15. \A i \in DOMAIN asks : asks[i].tab \in S /\ asks[i] = command(asks[i].tab)
  BY <1>3, <1>4, <1>6
<1>16. \A t \in S : \E i \in DOMAIN asks : asks[i].tab = t
  BY <1>3, <1>6
<1> QED
  BY <1>7, <1>8, <1>13, <1>14, <1>15, <1>16 DEF AreSent

\* The elements of a queue behind another.
LEMMA JoinedElements ==
  ASSUME NEW T, NEW s \in Seq(T), NEW u \in Seq(T), NEW i \in DOMAIN (s \o u)
  PROVE  /\ i \in Nat /\ Len(s) \in Nat
         /\ i <= Len(s) => i \in DOMAIN s /\ (s \o u)[i] = s[i]
         /\ i > Len(s) => i - Len(s) \in DOMAIN u /\ (s \o u)[i] = u[i - Len(s)]
  OBVIOUS

\* A tab whose request is served stays served if nothing that carries the
\* request is lost.
LEMMA StaysServed ==
  ASSUME NEW t, IsServed(t), request'[t] = request[t],
         \A c \in ToSet(commands) : Carries(c, t) /\ c.kind # "CancelEnumeration"
           /\ IsRequest(c) => c \in ToSet(commands)' \/ c \in tasks',
         \A k \in tasks : Carries(k, t) =>
           \E x \in tasks' \cup Arrived' : x.tab = t /\ x.request = k.request,
         \A e \in Arrived : Carries(e, t) => e \in Arrived',
         \A j \in Transforms : j.tab = t /\ j.request = request[t] /\ IsLatest(j) =>
           \/ j \in Transforms' /\ viewGeneration'[t] = viewGeneration[t]
           \/ TransformUnderWay(t, request[t])'
  PROVE  IsServed(t)'
<1>1. CASE \E c \in ToSet(commands) : Carries(c, t)
                                      /\ c.kind \in {"Enumerate", "EnumerateReferences"}
  BY <1>1 DEF IsServed, Carries, IsRequest
<1>2. CASE \E k \in tasks : Carries(k, t)
  BY <1>2 DEF IsServed, Carries
<1>3. CASE \E e \in Arrived : Carries(e, t)
  BY <1>3 DEF IsServed, Carries
<1>4. CASE TransformUnderWay(t, request[t])
  <2>1. PICK j \in Transforms : /\ j.tab = t /\ j.request = request[t]
                                /\ j.generation = viewGeneration[t]
    BY <1>4 DEF TransformUnderWay, Transforms
  <2>2. IsLatest(j)
    BY <2>1 DEF IsLatest
  <2>3. CASE j \in Transforms' /\ viewGeneration'[t] = viewGeneration[t]
    BY <2>1, <2>3 DEF IsServed, TransformUnderWay, Transforms
  <2>4. CASE TransformUnderWay(t, request[t])'
    BY <2>4 DEF IsServed
  <2> QED
    BY <2>1, <2>2, <2>3, <2>4
<1> QED
  BY <1>1, <1>2, <1>3, <1>4 DEF IsServed

\* A transform under way stays so if it is not dropped.
LEMMA StaysUnderWay ==
  ASSUME NEW t, NEW r, TransformUnderWay(t, r), viewGeneration'[t] = viewGeneration[t],
         \A j \in Transforms : j.tab = t /\ j.request = r /\ IsLatest(j) => j \in Transforms'
  PROVE  TransformUnderWay(t, r)'
<1>1. PICK j \in Transforms : /\ j.tab = t /\ j.request = r
                              /\ j.generation = viewGeneration[t]
  BY DEF TransformUnderWay, Transforms
<1>2. j \in Transforms'
  BY <1>1 DEF IsLatest
<1> QED
  BY <1>1, <1>2 DEF TransformUnderWay, Transforms

LEMMA AskingKeepsQueue ==
  ASSUME PlaceInv, PlaceInv', QueueInv, Asking
  PROVE  QueueInv'
<1>1. PICK S \in SUBSET Tab, closed \in SUBSET open : AsksAgain(S, closed) /\ S \subseteq open'
  BY AskingAsks
<1>0. PICK g \in Seq(Command), asks \in Seq(Command) : AreSent(g, asks, S, closed)
  BY <1>1, AskingLeavesQueue
<1>2. /\ commands' = (commands \o g) \o asks
      /\ \A x \in ToSet(g) : x.tab \in closed
      /\ \A i \in DOMAIN asks :
           /\ asks[i].tab \in S
           /\ asks[i] = EnumerationCommand(asks[i].tab, history'[asks[i].tab].current,
                                           request'[asks[i].tab])
      /\ \A i, j \in DOMAIN asks : asks[i].tab = asks[j].tab => i = j
  BY <1>0 DEF AreSent
<1>3. /\ \A x \in Answers : IsCurrent(x.tab, x.request)' =>
           x.tab \in Tab \ (S \cup closed) /\ IsCurrent(x.tab, x.request)
      /\ open' \cap closed = {} /\ tasks' = tasks
      /\ pending' = (pending \ (S \cup closed)) \cup {t \in S : history'[t].current # Home}
  <2>1. \A x \in Answers : IsCurrent(x.tab, x.request)' =>
           x.tab \in Tab \ (S \cup closed) /\ IsCurrent(x.tab, x.request)
    BY <1>1, AskingLeavesAnswers, ZenonT(60)
  <2>2. open' \cap closed = {}
        /\ pending' = (pending \ (S \cup closed)) \cup {t \in S : history'[t].current # Home}
    BY <1>1, AskingLeavesRows, ZenonT(60)
  <2>3. tasks' = tasks
    BY <1>1, AskingLeavesTransforms
  <2> QED
    BY <2>1, <2>2, <2>3
<1> DEFINE front == commands \o g
<1>4. commands \in Seq(Command) /\ front \in Seq(Command) /\ commands' = front \o asks
  BY <1>2 DEF PlaceInv, TypeOK
\* Where a command of the new queue comes from.
<1>5. ASSUME NEW i \in DOMAIN commands'
      PROVE  /\ i \in Nat
             /\ \/ i \in DOMAIN commands /\ commands'[i] = commands[i]
                \/ i > Len(commands) /\ commands'[i].tab \in closed
                \/ /\ i > Len(front) /\ Len(front) \in Nat /\ i - Len(front) \in DOMAIN asks
                   /\ commands'[i] = asks[i - Len(front)]
  <2> HIDE DEF front
  <2>1. i \in DOMAIN (front \o asks) /\ commands'[i] = (front \o asks)[i]
    BY <1>4
  <2>2. /\ i \in Nat /\ Len(front) \in Nat
        /\ i <= Len(front) => i \in DOMAIN front /\ commands'[i] = front[i]
        /\ i > Len(front) => /\ i - Len(front) \in DOMAIN asks
                             /\ commands'[i] = asks[i - Len(front)]
    BY <1>2, <1>4, <2>1, JoinedElements
  <2>3. ASSUME i \in DOMAIN front, commands'[i] = front[i]
        PROVE  \/ i \in DOMAIN commands /\ commands'[i] = commands[i]
               \/ i > Len(commands) /\ commands'[i].tab \in closed
    <3>1. /\ i <= Len(commands) => i \in DOMAIN commands /\ front[i] = commands[i]
          /\ i > Len(commands) => i - Len(commands) \in DOMAIN g
                                  /\ front[i] = g[i - Len(commands)]
          /\ Len(commands) \in Nat
      BY <1>2, <1>4, <2>3, JoinedElements DEF front
    <3> QED
      BY <1>2, <2>2, <2>3, <3>1 DEF ToSet
  <2> QED
    BY <2>2, <2>3
<1>6. \A i \in DOMAIN commands : i <= Len(commands) /\ Len(commands) \in Nat
                                 /\ commands[i] \in ToSet(commands)
  BY <1>4 DEF ToSet
<1> HIDE DEF front
<1>7. ASSUME NEW i \in DOMAIN commands', NEW j \in DOMAIN commands', NEW c, NEW d,
             c = commands'[i], d = commands'[j], i < j, IsRequest(c), IsRequest(d),
             IsCurrent(c.tab, c.request)'
      PROVE  d.tab # c.tab
  <2>1. c.tab \in open'
    BY <1>7 DEF IsCurrent
  <2>2. CASE i \in DOMAIN commands /\ c = commands[i]
    <3>1. commands[i] \in Answers
      BY <1>6, <1>7, <2>2 DEF Answers, IsRequest
    <3>2. commands[i].tab \notin S \cup closed /\ IsCurrent(commands[i].tab, commands[i].request)
      BY <1>3, <1>7, <2>2, <3>1
    <3>3. CASE j \in DOMAIN commands /\ d = commands[j]
      BY <1>7, <2>2, <3>2, <3>3 DEF QueueInv
    <3>4. CASE d.tab \in S \cup closed
      BY <2>2, <3>2, <3>4
    <3> QED
      BY <1>2, <1>5, <1>7, <3>3, <3>4
  <2>3. CASE c.tab \in closed
    BY <1>3, <2>1, <2>3
  <2>4. CASE /\ i > Len(front) /\ Len(front) \in Nat /\ i - Len(front) \in DOMAIN asks
             /\ c = asks[i - Len(front)]
    <3>1. CASE j \in DOMAIN commands
      <4>1. j <= Len(commands) /\ Len(commands) <= Len(front)
        BY <1>2, <1>4, <1>6, <3>1 DEF front
      <4> QED
        BY <1>5, <1>6, <1>7, <2>4, <4>1
    <3>2. CASE d.tab \in closed
      <4>1. c.tab \notin closed
        BY <1>3, <2>1
      <4> QED
        BY <3>2, <4>1
    <3>3. CASE j - Len(front) \in DOMAIN asks /\ d = asks[j - Len(front)]
      <4>1. i - Len(front) # j - Len(front)
        BY <1>5, <1>7, <2>4
      <4> QED
        BY <1>2, <2>4, <3>3, <4>1
    <3> QED
      BY <1>5, <1>7, <3>1, <3>2, <3>3
  <2> QED
    BY <1>5, <1>7, <2>2, <2>3, <2>4
<1>8. ASSUME NEW c \in ToSet(commands)'
      PROVE  \/ c \in ToSet(commands)
             \/ c.tab \in closed
             \/ /\ c.tab \in S
                /\ c = EnumerationCommand(c.tab, history'[c.tab].current, request'[c.tab])
  <2>1. PICK i \in DOMAIN commands' : c = commands'[i]
    BY DEF ToSet
  <2> QED
    BY <1>2, <1>5, <1>6, <2>1
<1>9. ASSUME NEW k \in tasks', NEW c \in ToSet(commands)', IsRequest(c),
             IsCurrent(k.tab, k.request)'
      PROVE  c.tab # k.tab
  <2>1. k \in tasks /\ k \in Answers
    BY <1>3 DEF Answers
  <2>2. k.tab \notin S \cup closed /\ IsCurrent(k.tab, k.request)
    BY <1>3, <1>9, <2>1
  <2> QED
    BY <1>8, <1>9, <2>1, <2>2 DEF QueueInv
<1>10. ASSUME NEW c \in ToSet(commands)', c.kind = "CancelEnumeration",
              IsCurrent(c.tab, c.request)'
       PROVE  c.tab \notin pending'
  <2>1. CASE c \in ToSet(commands)
    <3>1. c \in Answers
      BY <1>10, <2>1 DEF Answers
    <3>2. c.tab \notin S \cup closed /\ IsCurrent(c.tab, c.request)
      BY <1>3, <1>10, <3>1
    <3> QED
      BY <1>3, <1>10, <2>1, <3>2 DEF QueueInv
  <2>2. CASE c.tab \in closed
    BY <1>3, <1>10, <2>2 DEF IsCurrent
  <2>3. CASE c.tab \in S /\ c = EnumerationCommand(c.tab, history'[c.tab].current, request'[c.tab])
    <3>1. history'[c.tab].current = Home
      BY <1>10, <2>3 DEF EnumerationCommand
    <3> QED
      BY <1>3, <2>3, <3>1
  <2> QED
    BY <1>8, <2>1, <2>2, <2>3
<1> QED
  <2>1. ASSUME NEW i \in DOMAIN commands', NEW j \in DOMAIN commands', i < j,
               IsRequest(commands[i])', IsRequest(commands[j])',
               IsCurrent(commands[i].tab, commands[i].request)'
        PROVE  (commands[j].tab # commands[i].tab)'
    BY <1>7, <2>1 DEF IsRequest, IsCurrent
  <2> QED
    BY <1>9, <1>10, <2>1 DEF QueueInv

LEMMA AskingKeepsServed ==
  ASSUME PlaceInv, PlaceInv', ServedInv, Asking
  PROVE  ServedInv'
<1>1. PICK S \in SUBSET Tab, closed \in SUBSET open : AsksAgain(S, closed) /\ S \subseteq open'
  BY AskingAsks
<1>0. PICK g \in Seq(Command), asks \in Seq(Command) : AreSent(g, asks, S, closed)
  BY <1>1, AskingLeavesQueue
<1>2. /\ commands' = (commands \o g) \o asks
      /\ \A i \in DOMAIN asks :
           asks[i] = EnumerationCommand(asks[i].tab, history'[asks[i].tab].current,
                                        request'[asks[i].tab])
      /\ \A t \in S : \E i \in DOMAIN asks : asks[i].tab = t
  BY <1>0 DEF AreSent
<1>3. /\ \A t \in Tab \ (S \cup closed) : request'[t] = request[t]
      /\ sources' = {s \in sources : s.tab \notin S \cup closed}
      /\ viewPending' = viewPending \ (S \cup closed)
      /\ pending' = (pending \ (S \cup closed)) \cup {t \in S : history'[t].current # Home}
  BY <1>1, AskingLeavesRows, ZenonT(60)
<1>4. /\ UNCHANGED <<jobs, transforming, sending, results, tasks>>
      /\ Transforms' = Transforms
      /\ \A t \in Tab \ (S \cup closed) : viewGeneration'[t] = viewGeneration[t]
  BY <1>1, AskingLeavesTransforms
<1>5. Arrived' = Arrived
  BY <1>1 DEF AsksAgain
<1>6. ToSet(commands)' = ToSet(commands) \cup ToSet(g) \cup ToSet(asks)
  <2> DEFINE front == commands \o g
  <2>1. commands \in Seq(Command)
    BY DEF PlaceInv, TypeOK
  <2>2. front \in Seq(Command) /\ ToSet(front) = ToSet(commands) \cup ToSet(g)
    BY <2>1, JoinedSet
  <2>3. commands' = front \o asks
    BY <1>2
  <2> HIDE DEF front
  <2>4. ToSet(front \o asks) = ToSet(front) \cup ToSet(asks)
    BY <2>2, JoinedSet
  <2>5. ToSet(commands)' = ToSet(commands')
    BY DEF ToSet
  <2> QED
    BY <2>2, <2>3, <2>4, <2>5
<1>7. pending \subseteq Tab /\ viewPending \subseteq Tab
  BY DEF PlaceInv, TypeOK
<1>8. ASSUME NEW t \in pending'
      PROVE  IsServed(t)'
  <2>1. CASE t \in pending \ (S \cup closed)
    <3>1. IsServed(t) /\ request'[t] = request[t] /\ viewGeneration'[t] = viewGeneration[t]
      BY <1>3, <1>4, <1>7, <2>1 DEF ServedInv
    <3>2. \A k \in tasks : Carries(k, t) =>
            \E x \in tasks' \cup Arrived' : x.tab = t /\ x.request = k.request
      BY <1>4 DEF Carries
    <3> QED
      BY <1>4, <1>5, <1>6, <3>1, <3>2, StaysServed
  <2>2. CASE t \in S /\ history'[t].current # Home
    <3>1. PICK i \in DOMAIN asks :
            asks[i] = EnumerationCommand(t, history'[t].current, request'[t])
      BY <1>2, <2>2
    <3>2. asks[i] \in ToSet(commands)'
      BY <1>6 DEF ToSet
    <3>3. /\ asks[i].tab = t /\ asks[i].request = request'[t]
          /\ asks[i].kind \in {"Enumerate", "EnumerateReferences"}
      BY <2>2, <3>1 DEF EnumerationCommand
    <3> QED
      BY <3>2, <3>3 DEF IsServed, Carries
  <2> QED
    BY <1>3, <2>1, <2>2
<1>9. ViewIsServed'
  <2> SUFFICES ASSUME NEW t \in viewPending \ (S \cup closed)
               PROVE  \E s \in sources' : s.tab = t /\ TransformUnderWay(t, s.request)'
    BY <1>3 DEF ViewIsServed
  <2>1. PICK s \in sources : s.tab = t /\ TransformUnderWay(t, s.request)
    BY DEF ServedInv, ViewIsServed
  <2>2. TransformUnderWay(t, s.request)'
    BY <1>4, <1>7, <2>1, StaysUnderWay
  <2> QED
    BY <1>3, <2>1, <2>2
<1>10. LineInv'
  <2>1. ToSet(results)' = ToSet(results)
    BY <1>4 DEF ToSet
  <2> QED
    BY <1>4, <2>1 DEF ServedInv, LineInv
<1> QED
  BY <1>8, <1>9, <1>10, AskingKeepsQueue DEF ServedInv

\* The queue stays in order if nothing is added to it.
LEMMA QueueStays ==
  ASSUME QueueInv, UNCHANGED <<commands, open, request>>, pending' \subseteq pending,
         \A k \in tasks' : \E x \in tasks : x.tab = k.tab /\ x.request = k.request
  PROVE  QueueInv'
<1>1. ToSet(commands)' = ToSet(commands)
  BY DEF ToSet
<1>2. \A t, r : IsCurrent(t, r)' <=> IsCurrent(t, r)
  BY DEF IsCurrent
<1>3. ASSUME NEW i \in DOMAIN commands, NEW j \in DOMAIN commands, i < j,
             IsRequest(commands[i]), IsRequest(commands[j]),
             IsCurrent(commands[i].tab, commands[i].request)
      PROVE  commands[j].tab # commands[i].tab
  BY <1>3 DEF QueueInv
<1>4. ASSUME NEW k \in tasks', NEW c \in ToSet(commands), IsRequest(c),
             IsCurrent(k.tab, k.request)
      PROVE  c.tab # k.tab
  BY <1>4 DEF QueueInv
<1>5. \A c \in ToSet(commands) :
        c.kind = "CancelEnumeration" /\ IsCurrent(c.tab, c.request) => c.tab \notin pending'
  BY DEF QueueInv
<1> QED
  BY <1>1, <1>2, <1>3, <1>4, <1>5 DEF QueueInv, IsRequest, IsCurrent

LEMMA LineStays ==
  ASSUME LineInv, UNCHANGED <<transforming, sending, results>>
  PROVE  LineInv'
<1>1. ToSet(results)' = ToSet(results)
  BY DEF ToSet
<1> QED
  BY <1>1 DEF LineInv

\* Steps that leave the transforms keep every request served if they lose
\* nothing that carries the request of a tab that still waits.
LEMMA ServedStays ==
  ASSUME PlaceInv, ServedInv, QueueInv',
         UNCHANGED <<open, request, sources, viewGeneration, viewPending, jobs,
                     transforming, sending, results>>,
         pending' \subseteq pending,
         \A t \in pending', c \in ToSet(commands) :
           Carries(c, t) /\ c.kind # "CancelEnumeration" /\ IsRequest(c) =>
             c \in ToSet(commands)' \/ c \in tasks',
         \A t \in pending', k \in tasks : Carries(k, t) =>
           \E x \in tasks' \cup Arrived' : x.tab = t /\ x.request = k.request,
         \A t \in pending', e \in Arrived : Carries(e, t) => e \in Arrived'
  PROVE  ServedInv'
<1>1. Transforms' = Transforms
  BY SameTransforms
<1>2. ASSUME NEW t \in pending'
      PROVE  IsServed(t)'
  <2>1. IsServed(t) /\ request'[t] = request[t] /\ viewGeneration'[t] = viewGeneration[t]
    BY DEF ServedInv
  <2> QED
    BY <1>1, <2>1, StaysServed
<1>3. ViewIsServed'
  <2> SUFFICES ASSUME NEW t \in viewPending
               PROVE  \E s \in sources : s.tab = t /\ TransformUnderWay(t, s.request)'
    BY DEF ViewIsServed
  <2>1. PICK s \in sources : s.tab = t /\ TransformUnderWay(t, s.request)
    BY DEF ServedInv, ViewIsServed
  <2>2. viewGeneration'[t] = viewGeneration[t]
    OBVIOUS
  <2>3. TransformUnderWay(t, s.request)'
    BY <1>1, <2>1, <2>2, StaysUnderWay
  <2> QED
    BY <2>1, <2>3
<1>4. LineInv'
  BY LineStays DEF ServedInv
<1> QED
  BY <1>2, <1>3, <1>4 DEF ServedInv

\* The worker takes the first command: no other command of its tab follows if
\* it is of the latest request, and an enumeration it stops is of an earlier
\* request than the tab's, unless the tab does not wait.
LEMMA WorkerKeepsServed ==
  ASSUME PlaceInv, ServedInv, FilesystemWorker
  PROVE  ServedInv'
<1> DEFINE h == Head(commands)
<1>1. /\ commands' = Tail(commands) /\ h \in ToSet(commands)
      /\ ToSet(commands) = ToSet(commands)' \cup {h}
      /\ 1 \in DOMAIN commands /\ h = commands[1]
      /\ \A i \in DOMAIN commands' : i + 1 \in DOMAIN commands /\ commands'[i] = commands[i + 1]
  BY CommandTaken
<1>2. /\ UNCHANGED <<open, request, pending, sources, viewGeneration, viewPending, jobs,
                     transforming, sending, results>>
      /\ pending \subseteq open
  BY WorkingLeaves DEF Working, PlaceInv, TypeOK
<1>3. /\ Arrived' = Arrived
      /\ \A k \in tasks' : k \in tasks \/ (k = h /\ IsRequest(h))
      /\ \A k \in tasks \ tasks' : k.tab = h.tab /\ IsRequest(h)
      /\ h \in tasks' \/ h.kind = "CancelEnumeration" \/ ~IsRequest(h)
  <2>1. CASE WorkerCancel
    BY <2>1 DEF WorkerCancel, Abort, Arrived, IsRequest, ToSet, IsAnswer
  <2>2. CASE WorkerEnumerate
    BY <2>2 DEF WorkerEnumerate, Abort, Arrived, IsRequest, ToSet, IsAnswer
  <2>3. CASE WorkerFileOperation
    BY <2>3, FileOperationLeaves DEF IsRequest
  <2> QED
    BY <2>1, <2>2, <2>3 DEF FilesystemWorker
<1> HIDE DEF h
<1>4. \A t, r : IsCurrent(t, r)' <=> IsCurrent(t, r)
  BY <1>2 DEF IsCurrent
<1>5. QueueInv'
  <2>1. ASSUME NEW i \in DOMAIN commands', NEW j \in DOMAIN commands', i < j,
               NEW c, NEW d, c = commands'[i], d = commands'[j],
               IsRequest(c), IsRequest(d), IsCurrent(c.tab, c.request)
        PROVE  d.tab # c.tab
    <3>1. i \in Nat /\ j \in Nat
      <4>1. commands \in Seq(Command)
        BY DEF PlaceInv, TypeOK
      <4>2. commands' \in Seq(Command)
        BY <1>1, <4>1
      <4> QED
        BY <2>1, <4>2
    <3>2. /\ i + 1 \in DOMAIN commands /\ j + 1 \in DOMAIN commands /\ i + 1 < j + 1
          /\ c = commands[i + 1] /\ d = commands[j + 1]
      BY <1>1, <2>1, <3>1
    <3> QED
      BY <2>1, <3>2 DEF ServedInv, QueueInv
  <2>2. ASSUME NEW k \in tasks', NEW c \in ToSet(commands)', IsRequest(c),
               IsCurrent(k.tab, k.request)
        PROVE  c.tab # k.tab
    <3>1. CASE k \in tasks
      BY <1>1, <2>2, <3>1 DEF ServedInv, QueueInv
    <3>2. CASE k = h /\ IsRequest(h)
      <4>1. PICK j \in DOMAIN commands' : c = commands'[j]
        BY DEF ToSet
      <4>2. /\ j \in Nat /\ 1 < j + 1
            /\ j + 1 \in DOMAIN commands /\ c = commands[j + 1]
        BY <1>1, <4>1 DEF PlaceInv, TypeOK
      <4> QED
        BY <1>1, <2>2, <3>2, <4>2 DEF ServedInv, QueueInv
    <3> QED
      BY <1>3, <3>1, <3>2
  <2>3. \A c \in ToSet(commands)' :
          c.kind = "CancelEnumeration" /\ IsCurrent(c.tab, c.request) => c.tab \notin pending
    BY <1>1 DEF ServedInv, QueueInv
  <2> QED
    BY <1>2, <1>4, <2>1, <2>2, <2>3 DEF QueueInv, IsRequest, IsCurrent
<1>6. ASSUME NEW t \in pending', NEW c \in ToSet(commands), Carries(c, t),
             c.kind # "CancelEnumeration", IsRequest(c)
      PROVE  c \in ToSet(commands)' \/ c \in tasks'
  BY <1>1, <1>3, <1>6
<1>7. ASSUME NEW t \in pending', NEW k \in tasks, Carries(k, t)
      PROVE  k \in tasks'
  <2>1. IsCurrent(k.tab, k.request) /\ k.tab = t
    BY <1>2, <1>7 DEF Carries, IsCurrent
  <2>2. IsRequest(h) => h.tab # t
    BY <1>1, <2>1 DEF ServedInv, QueueInv
  <2> QED
    BY <1>3, <2>1, <2>2
<1>8. \A t \in pending', k \in tasks : Carries(k, t) =>
        \E x \in tasks' \cup Arrived' : x.tab = t /\ x.request = k.request
  BY <1>7 DEF Carries
<1> QED
  BY <1>2, <1>3, <1>5, <1>6, <1>8, ServedStays

LEMMA TaskKeepsServed ==
  ASSUME PlaceInv, ServedInv, NEW k \in tasks, EnumerationTask(k)
  PROVE  ServedInv'
<1>1. Working
  BY DEF Working
<1>2. /\ UNCHANGED <<open, request, pending, sources, viewGeneration, viewPending, jobs,
                     transforming, sending, results>>
  BY <1>1, WorkingLeaves
<1>3. UNCHANGED commands
  BY TaskLeaves
<1>4. ToSet(commands)' = ToSet(commands)
  BY <1>3 DEF ToSet
<1>5. \/ /\ Arrived' = Arrived
         /\ \E read : /\ tasks' = (tasks \ {k}) \cup {read}
                      /\ read.tab = k.tab /\ read.request = k.request
      \/ /\ tasks' = tasks \ {k}
         /\ \E a : Arrived' = Arrived \cup {a} /\ a.tab = k.tab /\ a.request = k.request
  BY TaskLeaves
<1>6. \A x \in tasks' : \E y \in tasks : y.tab = x.tab /\ y.request = x.request
  BY <1>5
<1>7. Arrived \subseteq Arrived'
  BY <1>5
<1>8. \A x \in tasks : \E y \in tasks' \cup Arrived' : y.tab = x.tab /\ y.request = x.request
  BY <1>5
<1>9. QueueInv'
  BY <1>2, <1>3, <1>6, QueueStays DEF ServedInv
<1>10. \A t \in pending', x \in tasks : Carries(x, t) =>
         \E y \in tasks' \cup Arrived' : y.tab = t /\ y.request = x.request
  BY <1>8 DEF Carries
<1> QED
  BY <1>2, <1>4, <1>7, <1>9, <1>10, ServedStays

LEMMA ElsewhereKeepsServed ==
  ASSUME PlaceInv, ServedInv, Elsewhere
  PROVE  ServedInv'
<1>1. UNCHANGED <<open, request, pending, sources, viewGeneration, viewPending, jobs,
                  transforming, sending, results, tasks, events>>
  BY ElsewhereLeaves
<1>2. Arrived' = Arrived
  BY <1>1 DEF Arrived, ToSet, IsAnswer
<1>3. ToSet(commands) \subseteq ToSet(commands)' /\ QueueInv'
  <2>1. CASE UNCHANGED commands
    <3>1. QueueInv'
      BY <1>1, <2>1, QueueStays DEF ServedInv
    <3> QED
      BY <2>1, <3>1 DEF ToSet
  <2>2. ASSUME NEW l \in Location, RequestFileOperation(l)
        PROVE  ToSet(commands) \subseteq ToSet(commands)' /\ QueueInv'
    <3> DEFINE m == [kind |-> "FileOperation", tab |-> active, location |-> l,
                     request |-> 0, content |-> Unread]
    <3>1. commands' = Append(commands, m) /\ ~IsRequest(m)
      BY <2>2 DEF RequestFileOperation, IsRequest
    <3>2. m \in Command /\ commands \in Seq(Command)
      BY DEF Command, Unread, PlaceInv, TypeOK
    <3> HIDE DEF m
    <3>3. ToSet(commands)' = ToSet(commands) \cup {m}
      <4>1. ToSet(Append(commands, m)) = ToSet(commands) \cup {m}
        BY <3>2, AppendedSet
      <4> QED
        BY <3>1, <4>1 DEF ToSet
    <3>4. \A i \in DOMAIN commands' : IsRequest(commands'[i]) =>
            i \in DOMAIN commands /\ commands'[i] = commands[i]
      BY <3>1, <3>2
    <3>5. \A t, r : IsCurrent(t, r)' <=> IsCurrent(t, r)
      BY <1>1 DEF IsCurrent
    <3>6. ASSUME NEW i \in DOMAIN commands', NEW j \in DOMAIN commands', i < j,
                 NEW c, NEW d, c = commands'[i], d = commands'[j],
                 IsRequest(c), IsRequest(d), IsCurrent(c.tab, c.request)
          PROVE  d.tab # c.tab
      BY <3>4, <3>6 DEF ServedInv, QueueInv
    <3>7. \A k \in tasks, c \in ToSet(commands)' :
            IsRequest(c) /\ IsCurrent(k.tab, k.request) => c.tab # k.tab
      BY <3>1, <3>3 DEF ServedInv, QueueInv
    <3>8. \A c \in ToSet(commands)' :
            c.kind = "CancelEnumeration" /\ IsCurrent(c.tab, c.request) => c.tab \notin pending
      BY <3>1, <3>3 DEF ServedInv, QueueInv, IsRequest
    <3>9. QueueInv'
      BY <1>1, <3>5, <3>6, <3>7, <3>8 DEF QueueInv, IsRequest, IsCurrent
    <3> QED
      BY <3>3, <3>9
  <2> QED
    BY <2>1, <2>2 DEF Elsewhere, NavigateNowhere, OpenMenuOrEdit, CloseMenuOrEdit, DiskChanges,
       workerVars
<1>4. \A t \in pending', k \in tasks : Carries(k, t) =>
        \E x \in tasks' \cup Arrived' : x.tab = t /\ x.request = k.request
  BY <1>1 DEF Carries
<1> QED
  BY <1>1, <1>2, <1>3, <1>4, ServedStays

\* The watcher asks for a tab that waits for nothing.
LEMMA RefreshKeepsServed ==
  ASSUME PlaceInv, PlaceInv', ServedInv, NEW t \in open, RefreshBackground(t)
  PROVE  ServedInv'
<1> DEFINE m == EnumerationCommand(t, Place(t), request'[t])
<1>1. /\ t \in Tab /\ t \notin pending
      /\ \A u \in Tab \ {t} : request'[u] = request[u]
      /\ ToSet(commands)' = ToSet(commands) \cup {m}
      /\ commands' = Append(commands, m)
      /\ pending' = pending \cup ({t} \ AtHome)
      /\ \A x \in Answers : IsCurrent(x.tab, x.request)' =>
           x.tab # t /\ IsCurrent(x.tab, x.request)
      /\ UNCHANGED <<sources, viewGeneration, viewPending, jobs, transforming, sending,
                     results, tasks, events>>
  BY RefreshLeaves, ZenonT(60)
<1>2. /\ m.tab = t /\ m.request = request'[t]
      /\ IF Place(t) = Home THEN m.kind = "CancelEnumeration"
         ELSE m.kind \in {"Enumerate", "EnumerateReferences"}
  BY DEF EnumerationCommand
<1>3. /\ commands \in Seq(Command) /\ pending \subseteq Tab /\ viewPending \subseteq Tab
      /\ pending \subseteq open
  BY DEF PlaceInv, TypeOK
<1> HIDE DEF m
<1>4. \A i \in DOMAIN commands' :
        \/ i \in DOMAIN commands /\ commands'[i] = commands[i]
        \/ i = Len(commands) + 1 /\ commands'[i] = m
  BY <1>1, <1>3
<1>5. \A i \in DOMAIN commands : i < Len(commands) + 1 /\ i \in Nat
                                 /\ commands[i] \in ToSet(commands)
  BY <1>3 DEF ToSet
<1>6. QueueInv'
  <2>1. ASSUME NEW i \in DOMAIN commands', NEW j \in DOMAIN commands', i < j,
               NEW c, NEW d, c = commands'[i], d = commands'[j],
               IsRequest(c), IsRequest(d), IsCurrent(c.tab, c.request)'
        PROVE  d.tab # c.tab
    <3>0. j <= Len(commands) + 1 /\ j \in Nat /\ i \in Nat /\ Len(commands) \in Nat
      BY <1>1, <1>3
    <3>1. i \in DOMAIN commands /\ c = commands[i]
      BY <1>4, <2>1, <3>0
    <3>2. c \in Answers
      BY <1>5, <2>1, <3>1 DEF Answers, IsRequest
    <3>3. c.tab # t /\ IsCurrent(c.tab, c.request)
      BY <1>1, <2>1, <3>2
    <3>4. CASE j \in DOMAIN commands /\ d = commands[j]
      BY <2>1, <3>1, <3>3, <3>4 DEF ServedInv, QueueInv
    <3>5. CASE d = m
      BY <1>2, <3>3, <3>5
    <3> QED
      BY <1>4, <2>1, <3>4, <3>5
  <2>2. ASSUME NEW k \in tasks, NEW c \in ToSet(commands)', IsRequest(c),
               IsCurrent(k.tab, k.request)'
        PROVE  c.tab # k.tab
    <3>1. k.tab # t /\ IsCurrent(k.tab, k.request)
      BY <1>1, <2>2 DEF Answers
    <3> QED
      BY <1>1, <1>2, <2>2, <3>1 DEF ServedInv, QueueInv
  <2>3. ASSUME NEW c \in ToSet(commands)', c.kind = "CancelEnumeration",
               IsCurrent(c.tab, c.request)'
        PROVE  c.tab \notin pending'
    <3>1. CASE c \in ToSet(commands)
      <4>1. c.tab # t /\ IsCurrent(c.tab, c.request)
        BY <1>1, <2>3, <3>1 DEF Answers
      <4> QED
        BY <1>1, <2>3, <3>1, <4>1 DEF ServedInv, QueueInv
    <3>2. CASE c = m
      BY <1>1, <1>2, <2>3, <3>2 DEF AtHome
    <3> QED
      BY <1>1, <2>3, <3>1, <3>2
  <2>4. ASSUME NEW i \in DOMAIN commands', NEW j \in DOMAIN commands', i < j,
               IsRequest(commands[i])', IsRequest(commands[j])',
               IsCurrent(commands[i].tab, commands[i].request)'
        PROVE  (commands[j].tab # commands[i].tab)'
    BY <2>1, <2>4 DEF IsRequest, IsCurrent
  <2> QED
    BY <1>1, <2>2, <2>3, <2>4 DEF QueueInv
<1>7. Transforms' = Transforms /\ Arrived' = Arrived
  BY <1>1, SameTransforms DEF Arrived, ToSet, IsAnswer
<1>8. ASSUME NEW u \in pending'
      PROVE  IsServed(u)'
  <2>1. CASE u \in pending
    <3>1. IsServed(u) /\ request'[u] = request[u] /\ viewGeneration'[u] = viewGeneration[u]
      BY <1>1, <1>3, <2>1 DEF ServedInv
    <3>2. \A k \in tasks : Carries(k, u) =>
            \E x \in tasks' \cup Arrived' : x.tab = u /\ x.request = k.request
      BY <1>1 DEF Carries
    <3> QED
      BY <1>1, <1>7, <3>1, <3>2, StaysServed
  <2>2. CASE u = t /\ Place(t) # Home
    BY <1>1, <1>2, <2>2 DEF IsServed, Carries
  <2> QED
    BY <1>1, <2>1, <2>2 DEF AtHome
<1>9. ViewIsServed'
  <2> SUFFICES ASSUME NEW u \in viewPending
               PROVE  \E s \in sources : s.tab = u /\ TransformUnderWay(u, s.request)'
    BY <1>1 DEF ViewIsServed
  <2>1. PICK s \in sources : s.tab = u /\ TransformUnderWay(u, s.request)
    BY DEF ServedInv, ViewIsServed
  <2>2. viewGeneration'[u] = viewGeneration[u]
    BY <1>1
  <2>3. TransformUnderWay(u, s.request)'
    BY <1>7, <2>1, <2>2, StaysUnderWay
  <2> QED
    BY <2>1, <2>3
<1>10. LineInv'
  BY <1>1, LineStays DEF ServedInv
<1> QED
  BY <1>6, <1>8, <1>9, <1>10 DEF ServedInv

\* A change of view replaces the transform that completes a request by one
\* that completes it as well.
LEMMA ViewingKeepsServed ==
  ASSUME PlaceInv, PlaceInv', RowsInv, ServedInv, Viewing
  PROVE  ServedInv'
<1>1. PICK T \in SUBSET Tab : Reschedules(T)
  BY ViewingSchedules
<1>2. /\ \A t \in T : /\ SourceOf(t) \in sources /\ SourceOf(t).tab = t
                      /\ NewJob(t) \in ToSet(jobs)' /\ NewJob(t).tab = t
                      /\ NewJob(t).request = SourceOf(t).request
                      /\ NewJob(t).generation = viewGeneration'[t]
      /\ ToSet(jobs) \subseteq ToSet(jobs)'
      /\ \A t \in Tab \ T : viewGeneration'[t] = viewGeneration[t]
      /\ viewPending' = viewPending \cup T
      /\ UNCHANGED <<open, sources, request, pending, commands, tasks, events, transforming,
                     sending, results>>
  BY <1>1, SchedulesLeave, ZenonT(60)
<1>3. Transforms \subseteq Transforms' /\ Arrived' = Arrived
      /\ ToSet(commands)' = ToSet(commands)
  <2>1. ToSet(results)' = ToSet(results) /\ ToSet(events)' = ToSet(events)
        /\ ToSet(commands)' = ToSet(commands)
    BY <1>2 DEF ToSet
  <2> QED
    BY <1>2, <2>1 DEF Transforms, Arrived, IsAnswer
<1>4. ASSUME NEW t \in T, NEW q, q = SourceOf(t).request
      PROVE  TransformUnderWay(t, q)'
  <2>1. PICK j \in ToSet(jobs)' : j.tab = t /\ j.request = q /\ j.generation = viewGeneration'[t]
    BY <1>2, <1>4
  <2> QED
    BY <2>1 DEF TransformUnderWay
<1>5. ASSUME NEW t \in pending
      PROVE  IsServed(t)'
  <2>1. IsServed(t) /\ t \in Tab
    BY DEF ServedInv, PlaceInv, TypeOK
  <2>2. ASSUME NEW j \in Transforms, j.tab = t, j.request = request[t], IsLatest(j)
        PROVE  \/ j \in Transforms' /\ viewGeneration'[t] = viewGeneration[t]
               \/ TransformUnderWay(t, request[t])'
    <3>1. CASE t \notin T
      BY <1>2, <1>3, <2>1, <3>1
    <3>2. CASE t \in T
      <4>1. PICK s \in sources : IsOfSource(j, s)
        BY <2>2 DEF RowsInv
      <4>2. s = SourceOf(t)
        BY <1>2, <2>2, <3>2, <4>1 DEF RowsInv, IsOfSource
      <4>3. SourceOf(t).request = request'[t]
        BY <1>2, <2>2, <4>1, <4>2 DEF IsOfSource
      <4>4. \A q : q = request'[t] => TransformUnderWay(t, q)'
        BY <1>4, <3>2, <4>3
      <4> QED
        BY <4>4 DEF TransformUnderWay
    <3> QED
      BY <3>1, <3>2
  <2>3. \A k \in tasks : Carries(k, t) =>
          \E x \in tasks' \cup Arrived' : x.tab = t /\ x.request = k.request
    BY <1>2 DEF Carries
  <2> QED
    BY <1>2, <1>3, <2>1, <2>2, <2>3, StaysServed
<1>6. ViewIsServed'
  <2>1. ASSUME NEW t \in T
        PROVE  \E s \in sources : s.tab = t /\ TransformUnderWay(t, s.request)'
    BY <1>2, <1>4
  <2>2. ASSUME NEW t \in viewPending, t \notin T
        PROVE  \E s \in sources : s.tab = t /\ TransformUnderWay(t, s.request)'
    <3>1. PICK s \in sources : s.tab = t /\ TransformUnderWay(t, s.request)
      BY DEF ServedInv, ViewIsServed
    <3>2. viewGeneration'[t] = viewGeneration[t]
      BY <1>2, <2>2 DEF PlaceInv, TypeOK
    <3>3. TransformUnderWay(t, s.request)'
      BY <1>3, <3>1, <3>2, StaysUnderWay
    <3> QED
      BY <3>1, <3>3
  <2> QED
    BY <1>2, <2>1, <2>2 DEF ViewIsServed
<1>7. QueueInv' /\ LineInv'
  <2>1. QueueInv'
    BY <1>2, QueueStays DEF ServedInv
  <2> QED
    BY <1>2, <2>1, LineStays DEF ServedInv
<1> QED
  BY <1>2, <1>5, <1>6, <1>7 DEF ServedInv

\* The answer the pump takes is the answer of its tab, and of no other.
LEMMA AppliedArrived ==
  ASSUME PlaceInv, Ready
  PROVE  /\ Arrived \subseteq Arrived' \cup {Head(events)}
         /\ ToSet(commands)' = ToSet(commands) /\ tasks' = tasks
<1>1. ToSet(events) = ToSet(events)' \cup {Head(events)} /\ UNCHANGED <<commands, tasks>>
  BY AnswerTaken
<1> QED
  BY <1>1 DEF Arrived, IsAnswer, ToSet

\* The tabs an answer is not for keep what serves them.
LEMMA OthersStayServed ==
  ASSUME PlaceInv, ServedInv, Ready, NEW t \in Tab, t # Head(events).tab, t \in pending,
         viewGeneration'[t] = viewGeneration[t],
         \A j \in Transforms : j.tab = t => j \in Transforms'
  PROVE  IsServed(t)'
<1>1. IsServed(t) /\ request'[t] = request[t]
  BY AnswerTaken DEF ServedInv
<1>2. /\ \A e \in Arrived : Carries(e, t) => e \in Arrived'
      /\ ToSet(commands)' = ToSet(commands)
      /\ \A k \in tasks : Carries(k, t) =>
           \E x \in tasks' \cup Arrived' : x.tab = t /\ x.request = k.request
  BY AppliedArrived DEF Carries
<1> QED
  BY <1>1, <1>2, StaysServed

LEMMA ApplyingKeepsServed ==
  ASSUME PlaceInv, ServedInv, ApplyUnchanged \/ ApplyLarge \/ ApplySmall \/ ApplyError
  PROVE  ServedInv'
<1> DEFINE e == Head(events)
<1>1. Ready
  BY DEF ApplyUnchanged, ApplyLarge, ApplySmall, ApplyError
<1>2. /\ e.tab \in Tab /\ e.request = request[e.tab]
      /\ UNCHANGED <<open, request, commands, tasks>>
  BY <1>1, AnswerTaken
<1>3. PICK t \in Tab : t = e.tab
  BY <1>2
<1>4. pending \subseteq Tab /\ viewPending \subseteq Tab
  BY DEF PlaceInv, TypeOK
<1>5. ASSUME pending' \subseteq pending
      PROVE  QueueInv'
  BY <1>2, <1>5, QueueStays DEF ServedInv
<1>6. CASE ApplyUnchanged
  <2>1. /\ pending' = pending \ {t}
        /\ UNCHANGED <<sources, viewGeneration, viewPending, jobs, transforming, sending,
                       results>>
    BY <1>3, <1>6, UnchangedLeaves
  <2>2. QueueInv'
    BY <1>5, <2>1
  <2>3. /\ \A u \in pending', x \in Arrived : Carries(x, u) => x \in Arrived'
        /\ \A c \in ToSet(commands) : c \in ToSet(commands)'
        /\ \A u \in pending', k \in tasks : Carries(k, u) =>
             \E x \in tasks' \cup Arrived' : x.tab = u /\ x.request = k.request
    BY <1>1, <1>3, <2>1, AppliedArrived DEF Carries
  <2> QED
    BY <1>2, <2>1, <2>2, <2>3, ServedStays
<1>7. CASE ApplyLarge
  <2>1. /\ \E source, job :
             /\ IsOfSource(e, source)
             /\ sources' = {s \in sources : s.tab # t} \cup {source}
             /\ job \in ToSet(jobs)' /\ IsOfSource(job, source)
             /\ job.generation = viewGeneration'[t]
             /\ Transforms' = Transforms \cup {job}
        /\ viewPending' = viewPending \cup {t}
        /\ UNCHANGED <<pending, transforming, sending, results>>
        /\ \A u \in Tab \ {t} : viewGeneration'[u] = viewGeneration[u]
    <3>1. /\ \E source, job :
             /\ IsOfSource(e, source)
             /\ sources' = {s \in sources : s.tab # t} \cup {source}
             /\ job \in ToSet(jobs)' /\ IsOfSource(job, source)
             /\ job.generation = viewGeneration'[t] /\ job.view = ViewOf(t)
             /\ ToSet(jobs) \subseteq ToSet(jobs)'
             /\ Transforms' = Transforms \cup {job}
        /\ viewPending' = viewPending \cup {t}
        /\ UNCHANGED <<pending, transforming, sending, results>>
        /\ \A u \in Tab \ {t} : viewGeneration'[u] = viewGeneration[u]
      BY <1>3, <1>7, LargeSchedules, ZenonT(60)
    <3> QED
      BY <3>1, ZenonT(60)
  <2>2. PICK source, job :
          /\ IsOfSource(e, source)
          /\ sources' = {s \in sources : s.tab # t} \cup {source}
          /\ job \in ToSet(jobs)' /\ IsOfSource(job, source)
          /\ job.generation = viewGeneration'[t]
          /\ Transforms' = Transforms \cup {job}
    BY <2>1
  <2>3. TransformUnderWay(t, source.request)' /\ source.request = request'[t] /\ source.tab = t
    BY <1>2, <1>3, <2>2 DEF TransformUnderWay, IsOfSource
  <2>4. ASSUME NEW u \in pending
        PROVE  IsServed(u)'
    <3>1. CASE u = t
      <4>1. \A q : q = request'[t] => TransformUnderWay(t, q)'
        BY <2>3
      <4> QED
        BY <3>1, <4>1 DEF IsServed, TransformUnderWay
    <3>2. CASE u # t
      BY <1>1, <1>3, <1>4, <2>1, <2>2, <3>2, OthersStayServed
    <3> QED
      BY <3>1, <3>2
  <2>5. ASSUME NEW u \in viewPending, u # t
        PROVE  \E s \in sources' : s.tab = u /\ TransformUnderWay(u, s.request)'
    <3>1. PICK s \in sources : s.tab = u /\ TransformUnderWay(u, s.request)
      BY DEF ServedInv, ViewIsServed
    <3>2. viewGeneration'[u] = viewGeneration[u]
      BY <1>4, <2>1, <2>5
    <3>3. TransformUnderWay(u, s.request)'
      BY <2>2, <3>1, <3>2, StaysUnderWay
    <3> QED
      BY <2>2, <2>5, <3>1, <3>3
  <2>6. ViewIsServed'
    BY <2>1, <2>2, <2>3, <2>5 DEF ViewIsServed
  <2>7. LineInv'
    BY <2>1, LineStays DEF ServedInv
  <2>8. QueueInv'
    BY <1>5, <2>1
  <2> QED
    BY <2>1, <2>4, <2>6, <2>7, <2>8 DEF ServedInv
<1>8. CASE ApplySmall \/ ApplyError
  <2>1. /\ sources' = {s \in sources : s.tab # t}
        /\ viewPending' = viewPending \ {t}
        /\ pending' = pending \ {t}
        /\ UNCHANGED <<jobs, transforming, sending, results>>
        /\ Transforms' = Transforms
        /\ \A u \in Tab \ {t} : viewGeneration'[u] = viewGeneration[u]
    BY <1>3, <1>8, ApplyReplaces, ZenonT(60)
  <2>2. ASSUME NEW u \in pending'
        PROVE  IsServed(u)'
    BY <1>1, <1>3, <1>4, <2>1, OthersStayServed
  <2>3. ASSUME NEW u \in viewPending, u # t
        PROVE  \E s \in sources' : s.tab = u /\ TransformUnderWay(u, s.request)'
    <3>1. PICK s \in sources : s.tab = u /\ TransformUnderWay(u, s.request)
      BY DEF ServedInv, ViewIsServed
    <3>2. viewGeneration'[u] = viewGeneration[u]
      BY <1>4, <2>1, <2>3
    <3>3. TransformUnderWay(u, s.request)'
      BY <2>1, <3>1, <3>2, StaysUnderWay
    <3> QED
      BY <2>1, <2>3, <3>1, <3>3
  <2>4. ViewIsServed'
    BY <2>1, <2>3 DEF ViewIsServed
  <2>5. LineInv' /\ QueueInv'
    BY <1>5, <2>1, LineStays DEF ServedInv
  <2> QED
    BY <2>2, <2>4, <2>5 DEF ServedInv
<1> QED
  BY <1>6, <1>7, <1>8

\* The result the pump takes is the only one, and no other of its tab is of
\* the latest generation of the source there is.
LEMMA PollingKeepsServed ==
  ASSUME PlaceInv, RowsInv, ServedInv, PollViews
  PROVE  ServedInv'
<1>1. PICK r : r = Head(results)
  OBVIOUS
<1>2. /\ ToSet(results) = ToSet(Tail(results)) \cup {r} /\ results' = <<>>
      /\ r \in Transforms
      /\ UNCHANGED <<open, request, commands, tasks, events, sources, viewGeneration, jobs,
                     transforming, sending>>
      /\ \/ /\ IsFresh(r)
            /\ viewPending' = viewPending \ {r.tab}
            /\ IF IsCurrent(r.tab, r.request)
               THEN pending' = pending \ {r.tab}
               ELSE UNCHANGED pending
         \/ ~IsFresh(r) /\ UNCHANGED <<viewPending, pending>>
  <2>1. /\ ToSet(results) = ToSet(Tail(results)) \cup {r} /\ results' = <<>>
        /\ r \in Transforms
        /\ UNCHANGED <<open, request, commands, tasks, events, sources, viewGeneration, jobs,
                       transforming, sending>>
    BY <1>1, PollShows, ZenonT(60)
  <2>2. \/ /\ IsFresh(r)
           /\ viewPending' = viewPending \ {r.tab}
           /\ IF IsCurrent(r.tab, r.request)
              THEN pending' = pending \ {r.tab} /\ background' = background \ {r.tab}
              ELSE UNCHANGED <<pending, background>>
        \/ ~IsFresh(r) /\ UNCHANGED <<viewPending, pending>>
    BY <1>1, PollShows, ZenonT(60)
  <2> QED
    BY <2>1, <2>2
<1>3. \A j \in Transforms : j # r => j \in Transforms'
  <2>1. ToSet(jobs)' = ToSet(jobs)
    BY <1>2 DEF ToSet
  <2>2. ToSet(results) \subseteq {r}
    BY <1>1 DEF ServedInv, LineInv
  <2> QED
    BY <1>2, <2>1, <2>2 DEF Transforms
<1>4. ToSet(commands)' = ToSet(commands) /\ Arrived' = Arrived
  BY <1>2 DEF ToSet, Arrived, IsAnswer
<1>5. pending' \subseteq pending /\ viewPending' \subseteq viewPending /\ pending \subseteq open
  BY <1>2 DEF PlaceInv, TypeOK
<1>6. ASSUME NEW t \in pending'
      PROVE  IsServed(t)'
  <2>1. ASSUME NEW j \in Transforms, j.tab = t, j.request = request[t], IsLatest(j)
        PROVE  j # r
    <3>1. PICK s \in sources : IsOfSource(j, s)
      BY <2>1 DEF RowsInv
    <3>2. IsFresh(j)
      BY <2>1, <3>1 DEF IsFresh, IsOfSource, IsLatest
    <3>3. IsCurrent(j.tab, j.request)
      BY <1>5, <2>1 DEF IsCurrent
    <3> QED
      BY <1>2, <2>1, <3>2, <3>3
  <2>2. \A k \in tasks : Carries(k, t) =>
          \E x \in tasks' \cup Arrived' : x.tab = t /\ x.request = k.request
    BY <1>2 DEF Carries
  <2>3. IsServed(t) /\ request'[t] = request[t] /\ viewGeneration'[t] = viewGeneration[t]
    BY <1>2, <1>5 DEF ServedInv
  <2> QED
    BY <1>3, <1>4, <2>1, <2>2, <2>3, StaysServed
<1>7. ASSUME NEW t \in viewPending'
      PROVE  \E s \in sources : s.tab = t /\ TransformUnderWay(t, s.request)'
  <2>1. PICK s \in sources : s.tab = t /\ TransformUnderWay(t, s.request)
    BY <1>5 DEF ServedInv, ViewIsServed
  <2>2. ASSUME NEW j \in Transforms, j.tab = t, j.request = s.request, IsLatest(j)
        PROVE  j # r
    <3>1. IsFresh(j)
      BY <2>1, <2>2 DEF IsFresh, IsLatest
    <3> QED
      BY <1>2, <2>2, <3>1
  <2>3. viewGeneration'[t] = viewGeneration[t]
    BY <1>2
  <2>4. TransformUnderWay(t, s.request)'
    BY <1>3, <2>1, <2>2, <2>3, StaysUnderWay
  <2> QED
    BY <2>1, <2>4
<1>8. ViewIsServed'
  BY <1>2, <1>7 DEF ViewIsServed
<1>9. LineInv'
  <2>1. ToSet(results)' = {}
    BY <1>2 DEF ToSet
  <2> QED
    BY <1>2, <2>1 DEF ServedInv, LineInv
<1>10. QueueInv'
  BY <1>2, <1>5, QueueStays DEF ServedInv
<1> QED
  BY <1>6, <1>8, <1>9, <1>10 DEF ServedInv

\* The view worker drops no transform of the latest generation.
LEMMA ViewWorkerKeepsServed ==
  ASSUME PlaceInv, ServedInv, ViewWorker
  PROVE  ServedInv'
<1>1. UNCHANGED <<open, request, pending, sources, viewGeneration, viewPending, commands,
                  tasks, events>>
  BY ViewWorkerPasses
<1>2. jobs \in Seq(Job) /\ LineInv
  BY DEF PlaceInv, TypeOK, ServedInv
<1>3. LineInv' /\ \A j \in Transforms : IsLatest(j) => j \in Transforms'
  <2>1. CASE ViewWorkerTakes
    <3>1. /\ jobs # <<>> /\ transforming = {} /\ sending = {}
          /\ jobs' = Tail(jobs)
          /\ transforming' = IF IsLatest(Head(jobs)) THEN {Head(jobs)} ELSE {}
          /\ UNCHANGED <<sending, results>>
      BY <2>1 DEF ViewWorkerTakes
    <3>2. ToSet(jobs) = ToSet(Tail(jobs)) \cup {Head(jobs)}
      BY <1>2, <3>1, HeadAndTail
    <3>3. ToSet(jobs)' = ToSet(Tail(jobs)) /\ ToSet(results)' = ToSet(results)
      BY <3>1 DEF ToSet
    <3>4. \A j \in Transforms : IsLatest(j) => j \in Transforms'
      BY <3>1, <3>2, <3>3 DEF Transforms
    <3>5. \A j, k \in transforming' : j = k
      BY <3>1
    <3> QED
      BY <1>2, <3>1, <3>3, <3>4, <3>5 DEF LineInv
  <2>2. CASE ViewWorkerTransforms
    <3>1. PICK j \in transforming : sending' = IF IsLatest(j) THEN {j} ELSE {}
      BY <2>2 DEF ViewWorkerTransforms
    <3>2. transforming = {j} /\ sending = {} /\ transforming' = {}
          /\ UNCHANGED <<jobs, results>>
      BY <1>2, <2>2 DEF LineInv, ViewWorkerTransforms
    <3>3. ToSet(jobs)' = ToSet(jobs) /\ ToSet(results)' = ToSet(results)
      BY <3>2 DEF ToSet
    <3>4. \A k \in Transforms : IsLatest(k) => k \in Transforms'
      BY <3>1, <3>2, <3>3 DEF Transforms
    <3>5. \A k, m \in sending' : k = m
      BY <3>1
    <3> QED
      BY <1>2, <3>2, <3>3, <3>4, <3>5 DEF LineInv
  <2>3. CASE ViewWorkerSends
    <3>1. PICK j \in sending : results' = <<j>>
      BY <2>3 DEF ViewWorkerSends
    <3>2. sending = {j} /\ transforming = {} /\ sending' = {} /\ transforming' = {}
          /\ UNCHANGED jobs /\ results = <<>>
      BY <1>2, <2>3 DEF LineInv, ViewWorkerSends
    <3>3. ToSet(jobs)' = ToSet(jobs) /\ ToSet(results)' = {j} /\ ToSet(results) = {}
          /\ Head(results') = j
      BY <3>1, <3>2 DEF ToSet
    <3> QED
      BY <3>1, <3>2, <3>3 DEF LineInv, Transforms
  <2> QED
    BY <2>1, <2>2, <2>3 DEF ViewWorker
<1>4. ToSet(commands)' = ToSet(commands) /\ Arrived' = Arrived
  BY <1>1 DEF ToSet, Arrived, IsAnswer
<1>5. ASSUME NEW t \in pending
      PROVE  IsServed(t)'
  <2>1. IsServed(t) /\ request'[t] = request[t] /\ viewGeneration'[t] = viewGeneration[t]
    BY <1>1 DEF ServedInv
  <2>2. \A k \in tasks : Carries(k, t) =>
          \E x \in tasks' \cup Arrived' : x.tab = t /\ x.request = k.request
    BY <1>1 DEF Carries
  <2> QED
    BY <1>1, <1>3, <1>4, <2>1, <2>2, StaysServed
<1>6. ASSUME NEW t \in viewPending
      PROVE  \E s \in sources : s.tab = t /\ TransformUnderWay(t, s.request)'
  <2>1. PICK s \in sources : s.tab = t /\ TransformUnderWay(t, s.request)
    BY DEF ServedInv, ViewIsServed
  <2>2. viewGeneration'[t] = viewGeneration[t]
    BY <1>1
  <2>3. TransformUnderWay(t, s.request)'
    BY <1>3, <2>1, <2>2, StaysUnderWay
  <2> QED
    BY <2>1, <2>3
<1>7. ViewIsServed'
  BY <1>1, <1>6 DEF ViewIsServed
<1>8. QueueInv'
  BY <1>1, QueueStays DEF ServedInv
<1> QED
  BY <1>1, <1>3, <1>5, <1>7, <1>8 DEF ServedInv

LEMMA ServedStep ==
  ASSUME PlaceInv, PlaceInv', RowsInv, ServedInv, [Next]_vars
  PROVE  ServedInv'
<1>1. CASE Working
  <2>1. ASSUME NEW k \in tasks, EnumerationTask(k)
        PROVE  ServedInv'
    BY <2>1, TaskKeepsServed
  <2> QED
    BY <1>1, <2>1, WorkerKeepsServed DEF Working
<1>2. CASE Passing
  <2>1. UNCHANGED <<open, request, pending, sources, viewGeneration, viewPending, jobs,
                    transforming, sending, results, commands, tasks>>
    BY <1>2, PassingLeaves
  <2>2. QueueInv' /\ ToSet(commands)' = ToSet(commands)
    BY <2>1, QueueStays DEF ServedInv, ToSet
  <2>3. \A t \in pending', e \in Arrived : Carries(e, t) => e \in Arrived'
    <3>1. pending \subseteq open
      BY DEF PlaceInv, TypeOK
    <3>2. \A t \in pending, e \in Arrived : Carries(e, t) => IsCurrent(e.tab, e.request)
      BY <3>1 DEF Carries, IsCurrent
    <3> QED
      BY <1>2, <2>1, <3>2, PassingArrived
  <2>4. \A t \in pending', k \in tasks : Carries(k, t) =>
          \E x \in tasks' \cup Arrived' : x.tab = t /\ x.request = k.request
    BY <2>1 DEF Carries
  <2> QED
    BY <2>1, <2>2, <2>3, <2>4, ServedStays
<1>3. CASE UNCHANGED vars
  <2>1. UNCHANGED <<open, request, pending, sources, viewGeneration, viewPending, jobs,
                    transforming, sending, results, commands, tasks, events>>
    BY <1>3 DEF vars, tabVars, asking, status, rowVars, viewVars, workerVars
  <2>2. QueueInv' /\ ToSet(commands)' = ToSet(commands) /\ Arrived' = Arrived
    BY <2>1, QueueStays DEF ServedInv, ToSet, Arrived, IsAnswer
  <2>3. \A t \in pending', k \in tasks : Carries(k, t) =>
          \E x \in tasks' \cup Arrived' : x.tab = t /\ x.request = k.request
    BY <2>1 DEF Carries
  <2> QED
    BY <2>1, <2>2, <2>3, ServedStays
<1>4. ASSUME NEW t \in open, RefreshBackground(t)
      PROVE  ServedInv'
  BY <1>4, RefreshKeepsServed
<1> QED
  BY <1>1, <1>2, <1>3, <1>4, StepCases, AskingKeepsServed, ViewingKeepsServed,
     ElsewhereKeepsServed, ApplyingKeepsServed, PollingKeepsServed, ViewWorkerKeepsServed

------------------------------------------------------------------------------
\* Rows at rest are in the view of now.

\* A transform of the latest generation is in the view of now.
ViewInv ==
  /\ RestIsInView
  /\ \A j \in Transforms : IsLatest(j) => j.view = ViewOf(j.tab)

\* Steps that change no view, no row and no source.
LEMMA ViewStays ==
  ASSUME ViewInv, UNCHANGED <<query, order, showHidden, viewGeneration, snapshots>>,
         Transforms' \subseteq Transforms,
         (pending \ background) \cup viewPending \subseteq
           ((pending \ background) \cup viewPending)'
  PROVE  ViewInv'
<1>1. \A t : ViewOf(t)' = ViewOf(t)
  BY DEF ViewOf
<1>2. \A j \in Transforms' : IsLatest(j)' => j.view = ViewOf(j.tab)
  BY DEF ViewInv, IsLatest
<1>3. \A s \in snapshots : s.tab \notin ((pending \ background) \cup viewPending)' =>
        s.view = ViewOf(s.tab)
  BY DEF ViewInv, RestIsInView
<1> QED
  BY <1>1, <1>2, <1>3 DEF ViewInv, RestIsInView

LEMMA AskingKeepsView ==
  ASSUME PlaceInv, PlaceInv', ViewInv, Asking
  PROVE  ViewInv'
<1>1. PICK S \in SUBSET Tab, closed \in SUBSET open : AsksAgain(S, closed) /\ S \subseteq open'
  BY AskingAsks
<1>2. /\ snapshots' = KeptRows(S, closed) \cup HomeRows(S)
      /\ pending' = (pending \ (S \cup closed)) \cup {t \in S : history'[t].current # Home}
      /\ viewPending' = viewPending \ (S \cup closed)
      /\ background' = background \ (S \cup closed)
  BY <1>1, AskingLeavesRows, ZenonT(60)
<1>3. /\ Transforms' = Transforms
      /\ \A t \in Tab \ (S \cup closed) : viewGeneration'[t] = viewGeneration[t]
      /\ \A j \in Transforms : j.tab \in S \cup closed => ~IsLatest(j)'
  BY <1>1, AskingLeavesTransforms
<1>4. \A t \in Tab \ S : ViewOf(t)' = ViewOf(t)
  BY <1>1 DEF AsksAgain, ViewOf
<1>5. ASSUME NEW j \in Transforms', IsLatest(j)'
      PROVE  j.view = ViewOf(j.tab)'
  <2>1. j \in Transforms /\ j.tab \in Tab \ (S \cup closed)
    BY <1>3, <1>5, TransformType DEF PlaceInv, Job
  <2>2. IsLatest(j)
    BY <1>3, <1>5, <2>1 DEF IsLatest
  <2> QED
    BY <1>4, <2>1, <2>2 DEF ViewInv
<1>6. ASSUME NEW s \in snapshots',
             s.tab \notin (pending' \ background') \cup viewPending'
      PROVE  s.view = ViewOf(s.tab)'
  <2>1. CASE s \in HomeRows(S)
    BY <2>1 DEF HomeRows
  <2>2. CASE s \in KeptRows(S, closed)
    <3>1. s \in snapshots /\ s.tab \in Tab /\ s.tab \notin closed
      BY <2>2 DEF KeptRows, PlaceInv, TypeOK, Snapshot
    <3>2. s.tab \notin S
      <4>1. s.tab \in S => s.location = history'[s.tab].current /\ s.location # Home
        BY <2>2 DEF KeptRows
      <4> QED
        BY <1>2, <1>6, <4>1
    <3>3. s.tab \notin (pending \ background) \cup viewPending
      BY <1>2, <1>6, <3>1, <3>2
    <3> QED
      BY <1>4, <3>1, <3>2, <3>3 DEF ViewInv, RestIsInView
  <2> QED
    BY <1>2, <2>1, <2>2
<1> QED
  BY <1>5, <1>6 DEF ViewInv, RestIsInView

\* Every tab whose view changes has its rows made again on the spot, or a
\* transform under way in the view of now.
LEMMA ViewingKeepsView ==
  ASSUME PlaceInv, PlaceInv', RowsInv, ViewInv, Viewing
  PROVE  ViewInv'
<1>1. PICK T \in SUBSET Tab : Reschedules(T)
  BY ViewingSchedules
<1>2. /\ \A t \in T : NewJob(t).tab = t /\ NewJob(t).view = ViewOf(t)'
      /\ \A j \in Transforms' : j \in Transforms \/ \E t \in T : j = NewJob(t)
      /\ \A t \in Tab \ T : viewGeneration'[t] = viewGeneration[t]
      /\ \A j \in Transforms : j.tab \in T => ~IsLatest(j)'
      /\ viewPending' = viewPending \cup T
      /\ UNCHANGED <<pending, background, sources>>
  BY <1>1, SchedulesLeave, ZenonT(60)
<1>3. ASSUME NEW j \in Transforms', IsLatest(j)'
      PROVE  j.view = ViewOf(j.tab)'
  <2>1. CASE \E t \in T : j = NewJob(t)
    BY <1>2, <2>1
  <2>2. CASE j \in Transforms
    <3>1. j.tab \in Tab \ T
      BY <1>2, <1>3, <2>2, TransformType DEF PlaceInv, Job
    <3>2. IsLatest(j)
      BY <1>2, <1>3, <3>1 DEF IsLatest
    <3>3. HasSource(j.tab)
      BY <2>2, <3>2 DEF RowsInv, IsOfSource, HasSource
    <3>4. ViewOf(j.tab)' = ViewOf(j.tab)
      BY <1>1, <3>1, <3>3 DEF Reschedules
    <3> QED
      BY <2>2, <3>2, <3>4 DEF ViewInv
  <2> QED
    BY <1>2, <2>1, <2>2
<1>4. ASSUME NEW s \in snapshots', s.tab \notin (pending' \ background') \cup viewPending'
      PROVE  s.view = ViewOf(s.tab)'
  <2>1. PICK n \in snapshots : IsReviewed(s, n, T)
    BY <1>1 DEF Reschedules
  <2>2. n.view = ViewOf(n.tab)
    BY <1>2, <1>4, <2>1 DEF ViewInv, RestIsInView, IsReviewed
  <2> QED
    BY <1>2, <1>4, <2>1, <2>2 DEF IsReviewed
<1> QED
  BY <1>3, <1>4 DEF ViewInv, RestIsInView

LEMMA ApplyingKeepsView ==
  ASSUME PlaceInv, ViewInv,
         ApplyUnchanged \/ ApplyLarge \/ ApplySmall \/ ApplyError
  PROVE  ViewInv'
<1>1. Ready
  BY DEF ApplyUnchanged, ApplyLarge, ApplySmall, ApplyError
<1>2. PICK t \in Tab : t = Head(events).tab
  BY <1>1, AnswerTaken
<1>3. UNCHANGED <<query, order, showHidden>>
  BY <1>1, AnswerTaken
<1>4. \A u : ViewOf(u)' = ViewOf(u)
  BY <1>3 DEF ViewOf
<1>5. CASE ApplyUnchanged
  <2>1. /\ t \in background
        /\ pending' = pending \ {t} /\ background' = background \ {t}
        /\ UNCHANGED <<snapshots, viewGeneration, viewPending, jobs, transforming, sending,
                       results>>
    BY <1>2, <1>5, UnchangedLeaves
  <2>2. pending' \ background' = pending \ background
    BY <2>1
  <2> QED
    BY <1>3, <2>1, <2>2, SameTransforms, ViewStays
<1>6. CASE ApplyLarge
  <2>1. /\ viewPending' = viewPending \cup {t}
        /\ UNCHANGED <<pending, background, snapshots>>
        /\ \A u \in Tab \ {t} : viewGeneration'[u] = viewGeneration[u]
        /\ \A j \in Transforms : j.tab = t => ~IsLatest(j)'
    BY <1>2, <1>6, LargeSchedules, ZenonT(60)
  <2>2. PICK source, job :
          /\ IsOfSource(Head(events), source)
          /\ sources' = {s \in sources : s.tab # t} \cup {source}
          /\ job \in ToSet(jobs)' /\ IsOfSource(job, source)
          /\ job.generation = viewGeneration'[t] /\ job.view = ViewOf(t)
          /\ ToSet(jobs) \subseteq ToSet(jobs)'
          /\ Transforms' = Transforms \cup {job}
    BY <1>2, <1>6, LargeSchedules, ZenonT(60)
  <2>3. ASSUME NEW j \in Transforms', IsLatest(j)'
        PROVE  j.view = ViewOf(j.tab)
    <3>1. CASE j = job
      BY <1>2, <2>2, <3>1 DEF IsOfSource
    <3>2. CASE j \in Transforms
      <4>1. j.tab \in Tab \ {t}
        BY <2>1, <2>3, <3>2, TransformType DEF PlaceInv, Job
      <4>2. IsLatest(j)
        BY <2>1, <2>3, <4>1 DEF IsLatest
      <4> QED
        BY <3>2, <4>2 DEF ViewInv
    <3> QED
      BY <2>2, <2>3, <3>1, <3>2
  <2>4. \A s \in snapshots : s.tab \notin (pending' \ background') \cup viewPending' =>
          s.view = ViewOf(s.tab)
    BY <2>1 DEF ViewInv, RestIsInView
  <2> QED
    BY <1>4, <2>1, <2>3, <2>4 DEF ViewInv, RestIsInView
<1>7. CASE ApplySmall \/ ApplyError
  <2>1. /\ viewPending' = viewPending \ {t}
        /\ pending' = pending \ {t} /\ background' = background \ {t}
        /\ \A n \in snapshots' : \/ n \in snapshots /\ n.tab # t
                                 \/ n = RowOf(Head(events), ViewOf(t))
        /\ Transforms' = Transforms
        /\ \A u \in Tab \ {t} : viewGeneration'[u] = viewGeneration[u]
        /\ \A j \in Transforms : j.tab = t => ~IsLatest(j)'
    BY <1>2, <1>7, ApplyReplaces, ZenonT(60)
  <2>2. ASSUME NEW j \in Transforms', IsLatest(j)'
        PROVE  j.view = ViewOf(j.tab)
    <3>1. j \in Transforms /\ j.tab \in Tab \ {t}
      BY <2>1, <2>2, TransformType DEF PlaceInv, Job
    <3>2. IsLatest(j)
      BY <2>1, <2>2, <3>1 DEF IsLatest
    <3> QED
      BY <3>1, <3>2 DEF ViewInv
  <2>3. ASSUME NEW s \in snapshots', s.tab \notin (pending' \ background') \cup viewPending'
        PROVE  s.view = ViewOf(s.tab)
    <3>1. CASE s \in snapshots /\ s.tab # t
      BY <2>1, <2>3, <3>1 DEF ViewInv, RestIsInView
    <3>2. CASE s = RowOf(Head(events), ViewOf(t))
      BY <1>2, <3>2 DEF RowOf
    <3> QED
      BY <2>1, <3>1, <3>2
  <2> QED
    BY <1>4, <2>2, <2>3 DEF ViewInv, RestIsInView
<1> QED
  BY <1>5, <1>6, <1>7

LEMMA PollingKeepsView ==
  ASSUME PlaceInv, ViewInv, PollViews
  PROVE  ViewInv'
<1>1. PICK r : r = Head(results)
  OBVIOUS
<1>2. /\ r \in Transforms /\ Transforms' \subseteq Transforms
      /\ UNCHANGED <<query, order, showHidden, viewGeneration>>
  BY <1>1, PollShows, ZenonT(60)
<1>3. \/ /\ IsFresh(r)
         /\ snapshots' = {s \in snapshots : s.tab # r.tab} \cup {RowOf(r, r.view)}
         /\ viewPending' = viewPending \ {r.tab}
         /\ IF IsCurrent(r.tab, r.request)
            THEN pending' = pending \ {r.tab} /\ background' = background \ {r.tab}
            ELSE UNCHANGED <<pending, background>>
      \/ ~IsFresh(r) /\ UNCHANGED <<snapshots, viewPending, pending, background>>
  BY <1>1, PollShows, ZenonT(60)
<1>4. \A u : ViewOf(u)' = ViewOf(u)
  BY <1>2 DEF ViewOf
<1>5. CASE ~IsFresh(r) /\ UNCHANGED <<snapshots, viewPending, pending, background>>
  BY <1>2, <1>5, ViewStays
<1>6. CASE /\ IsFresh(r)
           /\ snapshots' = {s \in snapshots : s.tab # r.tab} \cup {RowOf(r, r.view)}
           /\ viewPending' = viewPending \ {r.tab}
           /\ \/ pending' = pending \ {r.tab} /\ background' = background \ {r.tab}
              \/ UNCHANGED <<pending, background>>
  <2>1. r.view = ViewOf(r.tab)
    BY <1>2, <1>6 DEF IsFresh, IsLatest, ViewInv
  <2>2. ASSUME NEW s \in snapshots', s.tab \notin (pending' \ background') \cup viewPending'
        PROVE  s.view = ViewOf(s.tab)
    <3>1. CASE s \in snapshots /\ s.tab # r.tab
      BY <1>6, <2>2, <3>1 DEF ViewInv, RestIsInView
    <3>2. CASE s = RowOf(r, r.view)
      BY <2>1, <3>2 DEF RowOf
    <3> QED
      BY <1>6, <3>1, <3>2
  <2>3. \A j \in Transforms' : IsLatest(j)' => j.view = ViewOf(j.tab)
    BY <1>2 DEF ViewInv, IsLatest
  <2> QED
    BY <1>4, <2>2, <2>3 DEF ViewInv, RestIsInView
<1> QED
  BY <1>3, <1>5, <1>6

\* Only the dead end of the history forgets a search without making the rows
\* again; every other step keeps the rows at rest in the view of now.
LEMMA ViewStep ==
  ASSUME PlaceInv, PlaceInv', RowsInv, ViewInv, "deadend" \notin Inputs, [Next]_vars
  PROVE  ViewInv'
<1>1. CASE Working
  <2>1. UNCHANGED <<query, order, showHidden, viewGeneration, snapshots, pending, background,
                    viewPending, jobs, transforming, sending, results>>
    BY <1>1, WorkingLeaves
  <2> QED
    BY <2>1, SameTransforms, ViewStays
<1>2. CASE Passing
  <2>1. UNCHANGED <<query, order, showHidden, viewGeneration, snapshots, pending, background,
                    viewPending, jobs, transforming, sending, results>>
    BY <1>2, PassingLeaves
  <2> QED
    BY <2>1, SameTransforms, ViewStays
<1>3. CASE Elsewhere
  <2>1. UNCHANGED query
    BY <1>3 DEF Elsewhere, NavigateNowhere, Input, OpenMenuOrEdit, CloseMenuOrEdit,
       RequestFileOperation, DiskChanges, viewParams
  <2>2. UNCHANGED <<order, showHidden, viewGeneration, snapshots, pending, background,
                    viewPending, jobs, transforming, sending, results>>
    BY <1>3, ElsewhereLeaves
  <2> QED
    BY <2>1, <2>2, SameTransforms, ViewStays
<1>4. CASE UNCHANGED vars
  <2>1. UNCHANGED <<query, order, showHidden, viewGeneration, snapshots, pending, background,
                    viewPending, jobs, transforming, sending, results>>
    BY <1>4 DEF vars, viewParams, status, rowVars, viewVars
  <2> QED
    BY <2>1, SameTransforms, ViewStays
<1>5. CASE ViewWorker
  BY <1>5, ViewWorkerPasses, ViewStays
<1>6. ASSUME NEW t \in open, RefreshBackground(t)
      PROVE  ViewInv'
  <2>1. /\ t \notin pending
        /\ pending' = pending \cup ({t} \ AtHome)
        /\ background' = background \cup ({t} \ AtHome)
        /\ UNCHANGED <<query, order, showHidden, snapshots, viewGeneration, viewPending, jobs,
                       transforming, sending, results>>
    BY <1>6, RefreshLeaves, ZenonT(60)
  <2>2. pending \ background \subseteq pending' \ background'
    BY <2>1
  <2> QED
    BY <2>1, <2>2, SameTransforms, ViewStays
<1> QED
  BY <1>1, <1>2, <1>3, <1>4, <1>5, <1>6, StepCases, AskingKeepsView, ViewingKeepsView,
     ApplyingKeepsView, PollingKeepsView

------------------------------------------------------------------------------
\* The start: the first enumeration of the active tab.

LEMMA Start ==
  ASSUME Init
  PROVE  \E a \in Tab, l \in Location :
           /\ a \in open /\ Place(a) = l
           /\ request = [t \in Tab |-> IF t = a THEN 1 ELSE 0]
           /\ asked = [t \in Tab |-> IF t = a THEN 1 ELSE 0]
           /\ disk = [d \in Location |-> 1]
           /\ pending = IF l = Home THEN {} ELSE {a}
           /\ snapshots = IF l = Home
                          THEN {[tab |-> a, location |-> Home, request |-> 1, content |-> 1,
                                 view |-> ViewOf(a)]}
                          ELSE {}
           /\ commands = <<EnumerationCommand(a, l, 1)>>
           /\ sources = {} /\ viewPending = {} /\ background = {}
           /\ tasks = {} /\ events = <<>>
           /\ jobs = <<>> /\ transforming = {} /\ sending = {} /\ results = <<>>
<1>1. PICK k \in Tab, a \in Tab, places \in [Tab -> Location] :
        /\ a <= k
        /\ open = 1..k
        /\ history = [t \in Tab |-> NewHistory(places[t])]
        /\ disk = [l \in Location |-> 1]
        /\ generation = [t \in Tab |-> IF t = a THEN 1 ELSE 0]
        /\ request = generation
        /\ asked = [t \in Tab |-> IF t = a THEN 1 ELSE 0]
        /\ pending = {a} \ {t \in Tab : places[t] = Home}
        /\ background = {}
        /\ snapshots = IF places[a] = Home
                       THEN {[tab |-> a, location |-> Home, request |-> 1, content |-> 1,
                              view |-> ViewOf(a)]}
                       ELSE {}
        /\ sources = {} /\ viewPending = {}
        /\ commands = <<EnumerationCommand(a, places[a], 1)>>
        /\ tasks = {} /\ events = <<>>
        /\ jobs = <<>> /\ transforming = {} /\ sending = {} /\ results = <<>>
  BY ZenonT(120) DEF Init
<1>2. a \in open
  BY <1>1, EnumerationAssumption DEF Tab
<1>3. Place(a) = places[a]
  BY <1>1 DEF Place, NewHistory
<1>4. pending = IF places[a] = Home THEN {} ELSE {a}
  BY <1>1
<1> QED
  BY <1>1, <1>2, <1>3, <1>4

LEMMA StartIsServed ==
  ASSUME Init
  PROVE  RowsInv /\ FreshInv /\ ServedInv /\ ViewInv
<1>1. PICK a \in Tab, l \in Location :
           /\ a \in open /\ Place(a) = l
           /\ request = [t \in Tab |-> IF t = a THEN 1 ELSE 0]
           /\ asked = [t \in Tab |-> IF t = a THEN 1 ELSE 0]
           /\ disk = [d \in Location |-> 1]
           /\ pending = IF l = Home THEN {} ELSE {a}
           /\ snapshots = IF l = Home
                          THEN {[tab |-> a, location |-> Home, request |-> 1, content |-> 1,
                                 view |-> ViewOf(a)]}
                          ELSE {}
           /\ commands = <<EnumerationCommand(a, l, 1)>>
           /\ sources = {} /\ viewPending = {} /\ background = {}
           /\ tasks = {} /\ events = <<>>
           /\ jobs = <<>> /\ transforming = {} /\ sending = {} /\ results = <<>>
  BY Start
<1> DEFINE m == EnumerationCommand(a, l, 1)
<1>2. /\ m.tab = a /\ m.request = 1
      /\ m.kind = "CancelEnumeration" <=> l = Home
      /\ m.kind \in {"CancelEnumeration", "Enumerate", "EnumerateReferences"}
      /\ m.kind = "Enumerate" => m.content = Unread
      /\ m.kind = "EnumerateReferences" => m.content = disk[l]
  BY DEF EnumerationCommand
<1>3. commands = <<m>>
  BY <1>1
<1> HIDE DEF m
<1>4. /\ DOMAIN commands = {1} /\ commands[1] = m
      /\ ToSet(commands) = {m} /\ ToSet(events) = {} /\ ToSet(jobs) = {} /\ ToSet(results) = {}
  BY <1>1, <1>3 DEF ToSet
<1>5. Transforms = {} /\ Answers \subseteq {m}
  BY <1>1, <1>4 DEF Transforms, Answers
<1>6. \A s \in snapshots : /\ l = Home /\ s.tab = a /\ s.request = 1 /\ s.content = 1
                           /\ s.view = ViewOf(a)
  BY <1>1
<1>7. RowsInv
  <2>1. \A m1, n \in snapshots : m1 = n
    BY <1>1
  <2> QED
    BY <1>1, <1>5, <1>6, <2>1 DEF RowsInv
<1>8. FreshInv
  <2>1. \A t \in Tab : Place(t) \in Location
    <3>1. history \in [Tab -> History(Location)]
      BY InitPlace DEF PlaceInv, TypeOK
    <3> QED
      BY <3>1 DEF Place, History
  <2>2. Home \in Location
    BY EnumerationAssumption
  <2>3. \A t \in Tab : asked[t] <= disk[Place(t)]
    BY <1>1, <2>1
  <2>4. AnswerFresh(m)
    BY <1>1, <1>2 DEF AnswerFresh, Unread
  <2>5. HomeIsStill
    BY <1>1, <1>2, <1>4, <2>2 DEF HomeIsStill
  <2>6. RowsFresh
    BY <1>1, <1>6 DEF RowsFresh, RestIsFresh, Unread
  <2> QED
    BY <1>5, <2>3, <2>4, <2>5, <2>6 DEF FreshInv, AnswersFresh
<1>9. ServedInv
  <2>1. QueueInv
    BY <1>1, <1>2, <1>4 DEF QueueInv
  <2>2. LineInv
    BY <1>1, <1>4 DEF LineInv
  <2>3. \A t \in pending : IsServed(t)
    BY <1>1, <1>2, <1>4 DEF IsServed, Carries
  <2> QED
    BY <1>1, <2>1, <2>2, <2>3 DEF ServedInv, ViewIsServed
<1>10. ViewInv
  BY <1>5, <1>6 DEF ViewInv, RestIsInView
<1> QED
  BY <1>7, <1>8, <1>9, <1>10

------------------------------------------------------------------------------
\* Results.

RequestInv == RowsInv /\ FreshInv /\ ServedInv

\* What is under way for each tab, its rows and its source fit together in
\* every state the window reaches (bridges.rs, worker.rs, search.rs, main.rs).
THEOREM RequestsInvariant == Spec => [](PlaceInv /\ RequestInv)
<1>1. Init => RequestInv
  BY StartIsServed DEF RequestInv
<1>2. PlaceInv /\ PlaceInv' /\ RequestInv /\ [Next]_vars => RequestInv'
  BY RowsStep, FreshStep, ServedStep DEF RequestInv
<1> QED
  BY <1>1, <1>2, PlaceInvariant, PTL DEF Spec

\* A tab that waits for nothing shows a listing read after it last asked: no
\* refresh, the one after a rename or a new folder included, ends with the
\* rows of before it (app_state.rs is_current_request, main.rs).
THEOREM RestFresh == Spec => []RestIsFresh
<1>1. RequestInv => RestIsFresh
  BY DEF RequestInv, FreshInv, RowsFresh
<1> QED
  BY <1>1, RequestsInvariant, PTL

\* Something under way answers every tab that waits; no cancellation, abort
\* or stale result takes it away (worker.rs, search.rs).
THEOREM PendingServed == Spec => []PendingIsServed
<1>1. ASSUME ServedInv
      PROVE  PendingIsServed
  <2> SUFFICES ASSUME NEW t \in pending
               PROVE  \/ \E i \in DOMAIN commands :
                           Carries(commands[i], t) /\ commands[i].kind # "CancelEnumeration"
                      \/ \E k \in tasks : Carries(k, t)
                      \/ \E i \in DOMAIN events : Carries(events[i], t) /\ IsAnswer(events[i])
                      \/ TransformUnderWay(t, request[t])
    BY DEF PendingIsServed
  <2>1. IsServed(t)
    BY <1>1 DEF ServedInv
  <2>2. ASSUME NEW c \in ToSet(commands), Carries(c, t),
               c.kind \in {"Enumerate", "EnumerateReferences"}
        PROVE  \E i \in DOMAIN commands :
                 Carries(commands[i], t) /\ commands[i].kind # "CancelEnumeration"
    BY <2>2 DEF ToSet
  <2>3. ASSUME NEW e \in Arrived, Carries(e, t)
        PROVE  \E i \in DOMAIN events : Carries(events[i], t) /\ IsAnswer(events[i])
    BY <2>3 DEF Arrived, ToSet
  <2> QED
    BY <2>1, <2>2, <2>3 DEF IsServed
<1>2. RequestInv => PendingIsServed
  BY <1>1 DEF RequestInv
<1> QED
  BY <1>2, RequestsInvariant, PTL

\* A transform of its source is under way for every tab that waits for one
\* (search.rs, app_state.rs poll_views).
THEOREM ViewServed == Spec => []ViewIsServed
<1>1. RequestInv => ViewIsServed
  BY DEF RequestInv, ServedInv
<1> QED
  BY <1>1, RequestsInvariant, PTL

\* The rows of a tab are never replaced by those of an earlier request
\* (app_state.rs apply_snapshot, poll_views).
THEOREM RowsAdvance == Spec => RowsOnlyAdvance
<1>1. PlaceInv /\ PlaceInv' /\ RequestInv /\ [Next]_vars =>
        [\A s \in snapshots, n \in snapshots' : s.tab = n.tab => s.request <= n.request]_vars
  BY RowsStep DEF RequestInv, Advances
<1> QED
  BY <1>1, RequestsInvariant, PTL DEF Spec, RowsOnlyAdvance

\* Where Back and Forward are not used at the ends of the history, a tab that
\* is not loading shows its folder with the search, the filters, the order
\* and the visibility of now (search.rs, app_state.rs schedule_view).
THEOREM RestInView ==
  ASSUME "deadend" \notin Inputs
  PROVE  Spec => []RestIsInView
<1>1. Init => ViewInv
  BY StartIsServed
<1>2. PlaceInv /\ PlaceInv' /\ RequestInv /\ ViewInv /\ [Next]_vars => ViewInv'
  BY ViewStep DEF RequestInv
<1>3. ViewInv => RestIsInView
  BY DEF ViewInv
<1> QED
  BY <1>1, <1>2, <1>3, RequestsInvariant, PTL DEF Spec

=============================================================================
