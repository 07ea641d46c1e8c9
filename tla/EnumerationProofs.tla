-------------------------- MODULE EnumerationProofs --------------------------
(***************************************************************************)
(* What holds of module Enumeration for every number of tabs, every set of *)
(* places, searches and orders, and any number of inputs.                  *)
(***************************************************************************)
EXTENDS Enumeration, FiniteSetTheorems, TLAPS

------------------------------------------------------------------------------
\* The inductive invariant.

Answers == {x \in ToSet(commands) : x.kind # "FileOperation"} \cup tasks
             \cup {x \in ToSet(events) : IsAnswer(x)}

Transforms == ToSet(jobs) \cup transforming \cup sending \cup ToSet(results)

\* A request under way is of a tab the window has created, and never newer
\* than the tab's latest; the latest one asks for the tab's present place.
AnswerOK(x) ==
  /\ x.tab < nextTab
  /\ x.tab \in open => x.request <= generation[x.tab]
  /\ IsCurrent(x.tab, x.request) => x.location = Place(x.tab)

RequestsInv ==
  /\ request = generation
  /\ \A t \in open : t < nextTab
  /\ \A x \in Answers : AnswerOK(x)

\* A transform of the latest generation of a tab that still has a source is
\* of the tab's present place.
TransformOK(j) ==
  /\ j.tab < nextTab
  /\ 0 < j.generation /\ j.generation <= viewGeneration[j.tab]
  /\ IsLatest(j) /\ HasSource(j.tab) => j.location = Place(j.tab)

TransformsInv ==
  /\ \A s \in sources : s.tab \in open /\ s.location = Place(s.tab)
  /\ \A j \in Transforms : TransformOK(j)

PlaceInv == TypeOK /\ RequestsInv /\ TransformsInv /\ ShownIsPlace

------------------------------------------------------------------------------
\* Sequences and the sets of their elements.

\* A queue that grows by one element holds that element and nothing else new.
LEMMA AppendedSet ==
  ASSUME NEW T, NEW s \in Seq(T), NEW e \in T
  PROVE  /\ Append(s, e) \in Seq(T)
         /\ ToSet(Append(s, e)) = ToSet(s) \cup {e}
<1>1. Append(s, e) \in Seq(T)
  OBVIOUS
<1>2. ToSet(Append(s, e)) \subseteq ToSet(s) \cup {e}
  BY DEF ToSet
<1>3. ASSUME NEW x \in ToSet(s)
      PROVE  x \in ToSet(Append(s, e))
  <2>1. PICK i \in DOMAIN s : x = s[i]
    BY DEF ToSet
  <2>2. i \in DOMAIN Append(s, e) /\ Append(s, e)[i] = s[i]
    BY <2>1
  <2> QED
    BY <2>1, <2>2 DEF ToSet
<1>4. e \in ToSet(Append(s, e))
  <2>1. Len(s) + 1 \in DOMAIN Append(s, e) /\ Append(s, e)[Len(s) + 1] = e
    OBVIOUS
  <2> QED
    BY <2>1 DEF ToSet
<1> QED
  BY <1>1, <1>2, <1>3, <1>4

\* Taking the head of a queue leaves only what was behind it.
LEMMA TakenSet ==
  ASSUME NEW T, NEW s \in Seq(T), s # <<>>
  PROVE  /\ Tail(s) \in Seq(T)
         /\ Head(s) \in T
         /\ Head(s) \in ToSet(s)
         /\ ToSet(Tail(s)) \subseteq ToSet(s)
<1>1. Len(s) > 0 /\ Head(s) = s[1] /\ 1 \in DOMAIN s
  OBVIOUS
<1>2. Head(s) \in ToSet(s)
  BY <1>1 DEF ToSet
<1>3. \A i \in DOMAIN Tail(s) : i + 1 \in DOMAIN s /\ Tail(s)[i] = s[i + 1]
  BY <1>1
<1>4. ToSet(Tail(s)) \subseteq ToSet(s)
  BY <1>3 DEF ToSet
<1>5. Tail(s) \in Seq(T) /\ Head(s) \in T
  BY <1>1
<1> QED
  BY <1>2, <1>4, <1>5

\* Putting one queue behind another.
LEMMA JoinedSet ==
  ASSUME NEW T, NEW s \in Seq(T), NEW u \in Seq(T)
  PROVE  /\ s \o u \in Seq(T)
         /\ ToSet(s \o u) = ToSet(s) \cup ToSet(u)
<1>1. s \o u \in Seq(T)
  OBVIOUS
<1>2. ToSet(s \o u) \subseteq ToSet(s) \cup ToSet(u)
  <2> SUFFICES ASSUME NEW i \in DOMAIN (s \o u)
               PROVE  (s \o u)[i] \in ToSet(s) \cup ToSet(u)
    BY DEF ToSet
  <2>1. CASE i <= Len(s)
    <3>1. i \in DOMAIN s /\ (s \o u)[i] = s[i]
      BY <2>1
    <3> QED
      BY <3>1 DEF ToSet
  <2>2. CASE i > Len(s)
    <3>1. i - Len(s) \in DOMAIN u /\ (s \o u)[i] = u[i - Len(s)]
      BY <2>2
    <3> QED
      BY <3>1 DEF ToSet
  <2> QED
    BY <2>1, <2>2
<1>3. ToSet(s) \subseteq ToSet(s \o u)
  <2>1. \A i \in DOMAIN s : i \in DOMAIN (s \o u) /\ (s \o u)[i] = s[i]
    OBVIOUS
  <2> QED
    BY <2>1 DEF ToSet
<1>4. ToSet(u) \subseteq ToSet(s \o u)
  <2>1. \A i \in DOMAIN u : Len(s) + i \in DOMAIN (s \o u) /\ (s \o u)[Len(s) + i] = u[i]
    OBVIOUS
  <2> QED
    BY <2>1 DEF ToSet
<1> QED
  BY <1>1, <1>2, <1>3, <1>4

\* A function on the first numbers is a sequence.
LEMMA FunctionIsSequence ==
  ASSUME NEW T, NEW n \in Nat, NEW s \in [1..n -> T]
  PROVE  s \in Seq(T)
  OBVIOUS

\* An order of a finite set is a sequence of its elements.
LEMMA OrderIsSequence ==
  ASSUME NEW S, IsFiniteSet(S), NEW f \in Orders(S)
  PROVE  f \in Seq(S) /\ ToSet(f) \subseteq S /\ DOMAIN f = 1..Cardinality(S)
<1>1. Cardinality(S) \in Nat
  BY FS_CardinalityType
<1>2. f \in [1..Cardinality(S) -> S]
  BY DEF Orders
<1>3. f \in Seq(S)
  BY <1>1, <1>2
<1> QED
  BY <1>2, <1>3 DEF ToSet

\* The tabs are a finite set, and so is every set of them.
LEMMA TabsFinite ==
  ASSUME NEW S \in SUBSET Tab
  PROVE  IsFiniteSet(S)
<1>1. IsFiniteSet(1..MaxTab)
  BY EnumerationAssumption, FS_Interval
<1> QED
  BY <1>1, FS_Subset DEF Tab

------------------------------------------------------------------------------
\* Commands.

\* Every command of a tab for a place carries the tab, the place and the
\* request, and is no file operation.
LEMMA CommandType ==
  ASSUME NEW t \in Tab, NEW l \in Location, NEW r \in Nat,
         disk \in [Location -> Nat \ {0}]
  PROVE  /\ EnumerationCommand(t, l, r) \in Command
         /\ EnumerationCommand(t, l, r).tab = t
         /\ EnumerationCommand(t, l, r).location = l
         /\ EnumerationCommand(t, l, r).request = r
  BY DEF EnumerationCommand, Command, Unread

\* What the worker is sent when tabs are closed and others ask.
LEMMA SentCommands ==
  ASSUME NEW S \in SUBSET Tab, NEW closed \in SUBSET Tab, NEW f \in Orders(S),
         commands \in Seq(Command), disk \in [Location -> Nat \ {0}],
         history' \in [Tab -> History(Location)], request' \in [Tab -> Nat],
         Sent(f, closed)
  PROVE  /\ commands' \in Seq(Command)
         /\ \A x \in ToSet(commands') :
              \/ x \in ToSet(commands)
              \/ \E t \in closed : x = EnumerationCommand(t, Home, 0)
              \/ \E t \in S : x = EnumerationCommand(t, history'[t].current, request'[t])
<1> DEFINE cancels == {EnumerationCommand(t, Home, 0) : t \in closed}
           asks    == [i \in DOMAIN f |->
                         EnumerationCommand(f[i], history'[f[i]].current, request'[f[i]])]
<1>1. Home \in Location /\ \A t \in Tab : history'[t].current \in Location
  BY EnumerationAssumption DEF History
<1>2. IsFiniteSet(cancels)
  <2> DEFINE c == [t \in closed |-> EnumerationCommand(t, Home, 0)]
  <2>1. c \in Surjection(closed, cancels)
    BY DEF Surjection
  <2>2. IsFiniteSet(closed)
    BY TabsFinite
  <2> QED
    BY <2>1, <2>2, FS_Surjection
<1>3. cancels \subseteq Command
  BY <1>1, CommandType
<1>4. f \in Seq(S) /\ DOMAIN f = 1..Cardinality(S) /\ Cardinality(S) \in Nat
  BY OrderIsSequence, TabsFinite, FS_CardinalityType
<1>5. \A i \in DOMAIN f : f[i] \in S
  BY <1>4
<1>6. \A i \in DOMAIN f : asks[i] \in Command
  BY <1>1, <1>5, CommandType
<1>7. asks \in Seq(Command)
  BY <1>4, <1>6, FunctionIsSequence, asks \in [1..Cardinality(S) -> Command]
<1>8. PICK g \in Orders(cancels) : commands' = commands \o g \o asks
  BY DEF Sent
<1>9. g \in Seq(Command) /\ ToSet(g) \subseteq cancels
  <2>1. g \in Seq(cancels) /\ ToSet(g) \subseteq cancels
    BY <1>2, OrderIsSequence
  <2> QED
    BY <2>1, <1>3
<1>10. commands \o g \in Seq(Command) /\ ToSet(commands \o g) = ToSet(commands) \cup ToSet(g)
  BY <1>9, JoinedSet
<1>11. commands' \in Seq(Command)
       /\ ToSet(commands') = ToSet(commands) \cup ToSet(g) \cup ToSet(asks)
  <2> DEFINE front == commands \o g
  <2>1. commands' = front \o asks /\ front \in Seq(Command)
        /\ ToSet(front) = ToSet(commands) \cup ToSet(g)
    BY <1>8, <1>10
  <2> HIDE DEF asks, front
  <2>2. front \o asks \in Seq(Command) /\ ToSet(front \o asks) = ToSet(front) \cup ToSet(asks)
    BY <1>7, <2>1, JoinedSet
  <2> QED
    BY <2>1, <2>2
<1>12. \A x \in ToSet(asks) :
         \E t \in S : x = EnumerationCommand(t, history'[t].current, request'[t])
  BY <1>5 DEF ToSet
<1> QED
  BY <1>9, <1>11, <1>12

\* An answer under way names a tab, a place and a request; so does a transform.
LEMMA AnswerType ==
  ASSUME TypeOK, NEW x \in Answers
  PROVE  x.tab \in Tab /\ x.location \in Location /\ x.request \in Nat /\ x.content \in Nat
<1>1. \A c \in ToSet(commands) : c \in Command
  BY DEF ToSet, TypeOK
<1>2. \A e \in ToSet(events) : e \in Event
  BY DEF ToSet, TypeOK
<1>3. x \in Command \/ x \in Task \/ x \in Event
  BY <1>1, <1>2 DEF Answers, TypeOK
<1> QED
  BY <1>3 DEF Command, Task, Event

LEMMA TransformType ==
  ASSUME TypeOK, NEW j \in Transforms
  PROVE  j \in Job
  BY DEF Transforms, ToSet, TypeOK

------------------------------------------------------------------------------
\* Closing tabs and asking for others keeps the invariant: an answer under
\* way to a tab that asks again is no longer of its latest request, and the
\* rows and the source it keeps are of the place it asks for.
LEMMA RequestsKeepPlace ==
  ASSUME PlaceInv,
         NEW S \in SUBSET Tab, NEW closed \in SUBSET open,
         S \subseteq open', open' \subseteq Tab, open' \cap closed = {},
         open \ closed \subseteq open', open' \ S \subseteq open,
         \A t \in open' \ open : t >= nextTab,
         \A t \in open' : t < nextTab',
         active' \in open', nextTab' \in 1..MaxTab + 1, nextTab <= nextTab',
         history' \in [Tab -> History(Location)],
         \A t \in open' \ S : history'[t] = history[t],
         query' \in [Tab -> Query], order' \in [Tab -> Order], showHidden' \in BOOLEAN,
         menu' \in BOOLEAN, inline' \in BOOLEAN, disk' = disk, inputs' \in 0..MaxInputs,
         events' \in Seq(Event), ToSet(events') \subseteq ToSet(events),
         RequestEnumeration(S, closed)
  PROVE  PlaceInv'
<1>1. TypeOK /\ RequestsInv /\ TransformsInv /\ ShownIsPlace
  BY DEF PlaceInv
<1>2. PICK f \in Orders(S) : Sent(f, closed)
  BY DEF RequestEnumeration
<1>3. /\ Ask(S, closed)
      /\ viewGeneration' = Bumped(S \cup closed)
      /\ viewPending' = viewPending \ (S \cup closed)
      /\ sources' = {s \in sources : s.tab \notin S \cup closed}
      /\ snapshots' = KeptRows(S, closed) \cup HomeRows(S)
      /\ pending' = (pending \ (S \cup closed)) \cup {t \in S : history'[t].current # Home}
      /\ background' = background \ (S \cup closed)
      /\ errors' = errors \ (S \cup closed)
      /\ UNCHANGED <<tasks, jobs, transforming, sending, results>>
  BY DEF RequestEnumeration
<1>4. \A t \in Tab : /\ history'[t].current \in Location
                     /\ generation[t] \in Nat /\ viewGeneration[t] \in Nat /\ asked[t] \in Nat
                     /\ disk[history'[t].current] \in Nat
  BY <1>1 DEF TypeOK, History
<1>5. /\ request' = generation'
      /\ generation' \in [Tab -> Nat]
      /\ \A t \in S : generation'[t] = generation[t] + 1
      /\ \A t \in open' \ S : generation'[t] = generation[t]
  BY <1>1, <1>3, <1>4 DEF Ask, RequestsInv
<1>6. asked' \in [Tab -> Nat]
  BY <1>3, <1>4 DEF Ask
<1>7. /\ commands' \in Seq(Command)
      /\ \A x \in ToSet(commands') :
           \/ x \in ToSet(commands)
           \/ \E t \in closed : x = EnumerationCommand(t, Home, 0)
           \/ \E t \in S : x = EnumerationCommand(t, history'[t].current, request'[t])
  <2>1. closed \in SUBSET Tab /\ commands \in Seq(Command) /\ disk \in [Location -> Nat \ {0}]
    BY <1>1 DEF TypeOK
  <2>2. request' \in [Tab -> Nat]
    BY <1>5
  <2> QED
    BY <1>2, <2>1, <2>2, SentCommands, ZenonT(60)
<1>8. /\ viewGeneration' \in [Tab -> Nat]
      /\ \A t \in Tab : viewGeneration[t] <= viewGeneration'[t]
      /\ \A t \in Tab \ (S \cup closed) : viewGeneration'[t] = viewGeneration[t]
  BY <1>3, <1>4 DEF Bumped
<1>9. KeptRows(S, closed) \subseteq snapshots /\ HomeRows(S) \subseteq Snapshot
  <2>1. \A t \in S : ViewOf(t)' \in View
    BY DEF ViewOf, View
  <2>2. Home \in Location /\ disk[Home] \in Nat
    BY <1>1, EnumerationAssumption DEF TypeOK
  <2>3. \A t \in S : request'[t] \in Nat
    BY <1>5
  <2> QED
    BY <2>1, <2>2, <2>3 DEF KeptRows, HomeRows, Snapshot
<1>10. TypeOK'
  <2>1. pending' \subseteq open' /\ background' \subseteq pending' /\ errors' \subseteq open'
        /\ viewPending' \subseteq open'
    BY <1>1, <1>3 DEF TypeOK
  <2>2. snapshots' \subseteq Snapshot /\ sources' \subseteq Listing
    BY <1>1, <1>3, <1>9 DEF TypeOK
  <2>3. jobs' \in Seq(Job) /\ transforming' \subseteq Job /\ sending' \subseteq Job
        /\ results' \in Seq(Job) /\ tasks' \subseteq Task
    BY <1>1, <1>3 DEF TypeOK
  <2>4. disk' \in [Location -> Nat \ {0}]
    BY <1>1 DEF TypeOK
  <2> QED
    BY <1>5, <1>6, <1>7, <1>8, <2>1, <2>2, <2>3, <2>4 DEF TypeOK
<1>11. RequestsInv'
  <2> SUFFICES ASSUME NEW x \in Answers'
               PROVE  AnswerOK(x)'
    BY <1>5 DEF RequestsInv
  <2>1. CASE x \in Answers
    <3>1. AnswerOK(x) /\ x.tab \in Tab /\ x.request \in Nat
      BY <1>1, <2>1, AnswerType DEF RequestsInv
    <3>2. x.tab < nextTab'
      BY <1>1, <3>1 DEF AnswerOK, TypeOK, Tab
    <3>3. x.tab \in open' => x.tab \in open
      BY <1>1, <3>1 DEF AnswerOK, TypeOK, Tab
    <3>4. CASE x.tab \in S
      BY <1>4, <1>5, <3>1, <3>2, <3>3, <3>4 DEF AnswerOK, IsCurrent
    <3>5. CASE x.tab \notin S
      BY <1>1, <1>5, <3>1, <3>2, <3>3, <3>5 DEF AnswerOK, IsCurrent, Place, RequestsInv
    <3> QED
      BY <3>4, <3>5
  <2>2. CASE \E t \in closed : x = EnumerationCommand(t, Home, 0)
    <3>1. PICK t \in closed : x = EnumerationCommand(t, Home, 0)
      BY <2>2
    <3>2. x.tab = t
      BY <3>1 DEF EnumerationCommand
    <3>3. t < nextTab /\ t \notin open'
      BY <1>1 DEF RequestsInv
    <3>4. t < nextTab'
      BY <1>1, <3>3 DEF TypeOK, Tab
    <3> QED
      BY <3>2, <3>3, <3>4 DEF AnswerOK, IsCurrent
  <2>3. CASE \E t \in S : x = EnumerationCommand(t, history'[t].current, request'[t])
    <3>1. PICK t \in S : x = EnumerationCommand(t, history'[t].current, request'[t])
      BY <2>3
    <3>2. x.tab = t /\ x.location = history'[t].current /\ x.request = request'[t]
      BY <3>1 DEF EnumerationCommand
    <3>3. x.request \in Nat /\ t < nextTab'
      BY <1>5, <3>2
    <3> QED
      BY <1>5, <3>2, <3>3 DEF AnswerOK, IsCurrent, Place
  <2>4. x \in Answers \/ (\E t \in closed : x = EnumerationCommand(t, Home, 0))
         \/ \E t \in S : x = EnumerationCommand(t, history'[t].current, request'[t])
    BY <1>3, <1>7 DEF Answers, IsAnswer
  <2> QED
    BY <2>1, <2>2, <2>3, <2>4
<1>12. TransformsInv'
  <2>1. ASSUME NEW s \in sources'
        PROVE  s.tab \in open' /\ s.location = Place(s.tab)'
    BY <1>1, <1>3, <2>1 DEF TransformsInv, Place
  <2>2. ASSUME NEW j \in Transforms'
        PROVE  TransformOK(j)'
    <3>1. TransformOK(j) /\ j.tab \in Tab /\ j.generation \in Nat
      BY <1>1, <1>3, TransformType DEF Transforms, TransformsInv, Job
    <3>2. j.tab < nextTab'
      BY <1>1, <3>1 DEF TransformOK, TypeOK, Tab
    <3>3. j.generation <= viewGeneration'[j.tab]
      <4>1. viewGeneration[j.tab] \in Nat /\ viewGeneration'[j.tab] \in Nat
        BY <1>4, <1>8, <3>1
      <4> QED
        BY <1>8, <3>1, <4>1 DEF TransformOK
    <3>4. ASSUME HasSource(j.tab)', IsLatest(j)'
          PROVE  j.location = Place(j.tab)'
      <4>1. HasSource(j.tab) /\ j.tab \in open /\ j.tab \notin S \cup closed
        BY <1>1, <1>3, <3>4 DEF HasSource, TransformsInv
      <4>2. IsLatest(j)
        BY <1>8, <3>1, <3>4, <4>1 DEF IsLatest
      <4> QED
        BY <3>1, <4>1, <4>2 DEF TransformOK, Place
    <3> QED
      BY <3>1, <3>2, <3>3, <3>4 DEF TransformOK
  <2> QED
    BY <2>1, <2>2 DEF TransformsInv
<1>13. ShownIsPlace'
  BY <1>1, <1>3 DEF ShownIsPlace, KeptRows, HomeRows, Place
<1> QED
  BY <1>10, <1>11, <1>12, <1>13 DEF PlaceInv

------------------------------------------------------------------------------
\* A change of view starts a transform of every source there is: it is of the
\* tab's present place, and every earlier one is out of date.
LEMMA SchedulesKeepPlace ==
  ASSUME PlaceInv,
         NEW S \in SUBSET Tab, \A t \in S : HasSource(t),
         query' \in [Tab -> Query], order' \in [Tab -> Order], showHidden' \in BOOLEAN,
         inputs' \in 0..MaxInputs,
         ScheduleViews(S),
         snapshots' \subseteq Snapshot,
         \A n \in snapshots' : \E s \in snapshots : n.tab = s.tab /\ n.location = s.location,
         UNCHANGED <<tabVars, sources, asking, status, workerVars, uiVars, disk>>
  PROVE  PlaceInv'
<1> DEFINE job(t) == JobFor(t, SourceOf(t), ViewOf(t)')
<1>1. TypeOK /\ RequestsInv /\ TransformsInv /\ ShownIsPlace
  BY DEF PlaceInv
<1>2. /\ viewGeneration' = [t \in Tab |-> IF t \in S THEN viewGeneration[t] + 1
                                          ELSE viewGeneration[t]]
      /\ viewPending' = viewPending \cup S
      /\ UNCHANGED <<transforming, sending, results>>
  BY DEF ScheduleViews
<1>3. PICK f \in Orders(S) : jobs' = jobs \o [i \in DOMAIN f |-> job(f[i])]
  BY DEF ScheduleViews
<1>4. UNCHANGED <<open, active, nextTab, history, sources, request, generation, asked,
                  pending, background, errors, commands, tasks, events, menu, inline, disk>>
  BY DEF tabVars, asking, status, workerVars, uiVars
<1>5. \A t \in S : t \in open /\ SourceOf(t) \in sources /\ SourceOf(t).tab = t
                   /\ SourceOf(t).location = Place(t)
  BY <1>1 DEF HasSource, SourceOf, TransformsInv
<1>6. \A t \in Tab : viewGeneration[t] \in Nat
  BY <1>1 DEF TypeOK
<1>7. \A t \in S : job(t) \in Job /\ job(t).tab = t /\ job(t).location = Place(t)
                   /\ job(t).generation = viewGeneration[t] + 1
  <2> SUFFICES ASSUME NEW t \in S
               PROVE  job(t) \in Job /\ job(t).tab = t /\ job(t).location = Place(t)
                      /\ job(t).generation = viewGeneration[t] + 1
    OBVIOUS
  <2>1. SourceOf(t) \in Listing
    BY <1>1, <1>5 DEF TypeOK
  <2>2. ViewOf(t)' \in View
    BY DEF ViewOf, View
  <2> QED
    BY <1>5, <1>6, <2>1, <2>2 DEF JobFor, Job, Listing
<1>8. jobs' \in Seq(Job) /\ \A j \in ToSet(jobs') : j \in ToSet(jobs) \/ \E t \in S : j = job(t)
  <2> DEFINE new == [i \in DOMAIN f |-> job(f[i])]
  <2>1. /\ DOMAIN f = 1..Cardinality(S) /\ Cardinality(S) \in Nat
        /\ f \in Seq(S)
    BY OrderIsSequence, TabsFinite, FS_CardinalityType
  <2>2. \A i \in DOMAIN f : f[i] \in S
    BY <2>1
  <2> HIDE DEF job
  <2>3. new \in [1..Cardinality(S) -> Job]
    BY <1>7, <2>1, <2>2
  <2>4. new \in Seq(Job)
    BY <2>1, <2>3, FunctionIsSequence
  <2>5. \A j \in ToSet(new) : \E t \in S : j = job(t)
    BY <2>2 DEF ToSet
  <2> HIDE DEF new
  <2>6. jobs \in Seq(Job) /\ jobs' = jobs \o new
    BY <1>1, <1>3 DEF TypeOK, new
  <2>7. jobs \o new \in Seq(Job) /\ ToSet(jobs \o new) = ToSet(jobs) \cup ToSet(new)
    BY <2>4, <2>6, JoinedSet
  <2> QED
    BY <2>5, <2>6, <2>7
<1> HIDE DEF job
<1>9. viewGeneration' \in [Tab -> Nat] /\ \A t \in Tab : viewGeneration[t] <= viewGeneration'[t]
  BY <1>2, <1>6
<1>10. TypeOK'
  <2>1. viewPending' \subseteq open'
    BY <1>1, <1>2, <1>4, <1>5 DEF TypeOK
  <2> QED
    BY <1>1, <1>2, <1>4, <1>8, <1>9, <2>1 DEF TypeOK
<1>11. RequestsInv'
  BY <1>1, <1>4 DEF RequestsInv, AnswerOK, IsCurrent, Place, Answers, IsAnswer
<1>12. TransformsInv'
  <2>1. \A s \in sources' : s.tab \in open' /\ s.location = Place(s.tab)'
    BY <1>1, <1>4 DEF TransformsInv, Place
  <2>2. ASSUME NEW j \in Transforms
        PROVE  TransformOK(j)'
    <3>1. TransformOK(j) /\ j.tab \in Tab /\ j.generation \in Nat
      BY <1>1, TransformType DEF TransformsInv, Job
    <3>2. CASE j.tab \in S
      BY <1>2, <1>4, <1>6, <3>1, <3>2 DEF TransformOK, IsLatest
    <3>3. CASE j.tab \notin S
      BY <1>2, <1>4, <1>6, <3>1, <3>3 DEF TransformOK, IsLatest, HasSource, Place
    <3> QED
      BY <3>2, <3>3
  <2>3. ASSUME NEW t \in S, NEW j, j = job(t)
        PROVE  TransformOK(j)'
    <3>1. t < nextTab
      BY <1>1, <1>5 DEF RequestsInv
    <3> QED
      BY <1>2, <1>4, <1>6, <1>7, <2>3, <3>1 DEF TransformOK, Place
  <2>4. \A j \in Transforms' : j \in Transforms \/ \E t \in S : j = job(t)
    BY <1>2, <1>8 DEF Transforms
  <2> QED
    BY <2>1, <2>2, <2>3, <2>4 DEF TransformsInv
<1>13. ShownIsPlace'
  BY <1>1, <1>4 DEF ShownIsPlace, Place
<1> QED
  BY <1>10, <1>11, <1>12, <1>13 DEF PlaceInv

\* A step of the filesystem worker passes answers on, or loses them; none of
\* them changes its tab, place or request.
LEMMA WorkerKeepsPlace ==
  ASSUME PlaceInv, WorkerFrame,
         commands' \in Seq(Command), tasks' \subseteq Task, events' \in Seq(Event),
         disk' \in [Location -> Nat \ {0}],
         \A x \in Answers' : \E y \in Answers :
           x.tab = y.tab /\ x.location = y.location /\ x.request = y.request
  PROVE  PlaceInv'
<1>1. TypeOK /\ RequestsInv /\ TransformsInv /\ ShownIsPlace
  BY DEF PlaceInv
<1>2. UNCHANGED <<open, active, nextTab, history, query, order, showHidden, request,
                  generation, asked, pending, background, errors, snapshots, sources,
                  viewGeneration, viewPending, jobs, transforming, sending, results,
                  menu, inline, inputs>>
  BY DEF WorkerFrame, tabVars, viewParams, asking, status, rowVars, viewVars, uiVars
<1>3. TypeOK'
  BY <1>1, <1>2 DEF TypeOK
<1>4. RequestsInv'
  <2>1. \A x \in Answers : AnswerOK(x)
    BY <1>1 DEF RequestsInv
  <2>2. \A x \in Answers' : AnswerOK(x)'
    BY <1>2, <2>1 DEF AnswerOK, IsCurrent, Place
  <2> QED
    BY <1>1, <1>2, <2>2 DEF RequestsInv
<1>5. TransformsInv'
  BY <1>1, <1>2 DEF TransformsInv, TransformOK, Transforms, IsLatest, HasSource, Place
<1>6. ShownIsPlace'
  BY <1>1, <1>2 DEF ShownIsPlace, Place
<1> QED
  BY <1>3, <1>4, <1>5, <1>6 DEF PlaceInv

\* A step of the view worker passes a transform on, or drops it.
LEMMA ViewWorkerKeepsPlace ==
  ASSUME PlaceInv, ViewFrame,
         jobs' \in Seq(Job), transforming' \subseteq Job, sending' \subseteq Job,
         results' \in Seq(Job), Transforms' \subseteq Transforms
  PROVE  PlaceInv'
<1>1. TypeOK /\ RequestsInv /\ TransformsInv /\ ShownIsPlace
  BY DEF PlaceInv
<1>2. UNCHANGED <<open, active, nextTab, history, query, order, showHidden, request,
                  generation, asked, pending, background, errors, snapshots, sources,
                  viewGeneration, viewPending, commands, tasks, events, menu, inline,
                  disk, inputs>>
  BY DEF ViewFrame, tabVars, viewParams, asking, status, rowVars, workerVars, uiVars
<1>3. TypeOK'
  BY <1>1, <1>2 DEF TypeOK
<1>4. RequestsInv'
  BY <1>1, <1>2 DEF RequestsInv, AnswerOK, IsCurrent, Place, Answers, IsAnswer
<1>5. TransformsInv'
  BY <1>1, <1>2 DEF TransformsInv, TransformOK, IsLatest, HasSource, Place
<1>6. ShownIsPlace'
  BY <1>1, <1>2 DEF ShownIsPlace, Place
<1> QED
  BY <1>3, <1>4, <1>5, <1>6 DEF PlaceInv

------------------------------------------------------------------------------
\* Histories.

LEMMA HistoryType ==
  ASSUME NEW h \in History(Location), NEW l \in Location
  PROVE  /\ NewHistory(l) \in History(Location) /\ NewHistory(l).current = l
         /\ NavigateTo(h, l) \in History(Location)
         /\ GoBack(h) \in History(Location)
         /\ GoForward(h) \in History(Location)
<1>1. NewHistory(l) \in History(Location) /\ NewHistory(l).current = l
  BY DEF NewHistory, History
<1>2. NavigateTo(h, l) \in History(Location)
  BY DEF NavigateTo, History
<1>3. ASSUME NEW s \in Seq(Location), s # <<>>
      PROVE  Top(s) \in Location /\ Pop(s) \in Seq(Location)
  <2>1. Len(s) \in Nat \ {0}
    BY <1>3
  <2>2. Pop(s) \in Seq(Location)
    BY <2>1 DEF Pop
  <2> QED
    BY <2>1, <2>2 DEF Top
<1>4. GoBack(h) \in History(Location)
  <2>1. CASE CanGoBack(h)
    <3>1. Top(h.back) \in Location /\ Pop(h.back) \in Seq(Location)
      BY <1>3, <2>1 DEF CanGoBack, History
    <3> QED
      BY <2>1, <3>1 DEF GoBack, History
  <2>2. CASE ~CanGoBack(h)
    BY <2>2 DEF GoBack
  <2> QED
    BY <2>1, <2>2
<1>5. GoForward(h) \in History(Location)
  <2>1. CASE CanGoForward(h)
    <3>1. Top(h.forward) \in Location /\ Pop(h.forward) \in Seq(Location)
      BY <1>3, <2>1 DEF CanGoForward, History
    <3> QED
      BY <2>1, <3>1 DEF GoForward, History
  <2>2. CASE ~CanGoForward(h)
    BY <2>2 DEF GoForward
  <2> QED
    BY <2>1, <2>2
<1> QED
  BY <1>1, <1>2, <1>4, <1>5

------------------------------------------------------------------------------
\* The event pump.

\* Taking an event leaves the other answers as they were.
LEMMA PumpTakes ==
  ASSUME PlaceInv, PumpFrame, events # <<>>, events' = Tail(events)
  PROVE  RequestsInv' /\ events' \in Seq(Event)
<1>1. TypeOK /\ RequestsInv
  BY DEF PlaceInv
<1>2. events \in Seq(Event)
  BY <1>1 DEF TypeOK
<1>3. events' \in Seq(Event) /\ ToSet(events)' \subseteq ToSet(events)
  <2>1. Tail(events) \in Seq(Event) /\ ToSet(Tail(events)) \subseteq ToSet(events)
    BY <1>2, TakenSet
  <2> QED
    BY <2>1 DEF ToSet
<1>4. UNCHANGED <<open, nextTab, history, request, generation, commands, tasks>>
  BY DEF PumpFrame, tabVars, asking
<1>5. \A x \in Answers' : x \in Answers
  BY <1>3, <1>4 DEF Answers, ToSet, IsAnswer
<1>6. \A x \in Answers : AnswerOK(x)'
  BY <1>1, <1>4 DEF RequestsInv, AnswerOK, IsCurrent, Place
<1> QED
  BY <1>1, <1>3, <1>4, <1>5, <1>6 DEF RequestsInv

\* The answer the pump takes is of an open tab and of the tab's present place.
LEMMA ReadyAnswer ==
  ASSUME PlaceInv, events # <<>>, CurrentAnswer(Head(events))
  PROVE  /\ Head(events) \in Event
         /\ Head(events).tab \in open
         /\ Head(events).location = Place(Head(events).tab)
<1>1. TypeOK /\ RequestsInv
  BY DEF PlaceInv
<1>2. Head(events) \in Event /\ Head(events) \in ToSet(events)
  BY <1>1, TakenSet DEF TypeOK
<1>3. Head(events) \in Answers
  BY <1>2 DEF Answers, CurrentAnswer
<1>4. AnswerOK(Head(events))
  BY <1>1, <1>3 DEF RequestsInv
<1> QED
  BY <1>2, <1>4 DEF AnswerOK, CurrentAnswer, IsCurrent

\* What is left to show of an application of an answer: the rows, the source
\* and the transform it leaves are of the tab's place.
LEMMA PumpKeepsPlace ==
  ASSUME PlaceInv, PumpFrame, events # <<>>, events' = Tail(events),
         pending' \subseteq open, background' \subseteq pending', errors' \subseteq open,
         snapshots' \subseteq Snapshot, sources' \subseteq Listing,
         viewGeneration' \in [Tab -> Nat], viewPending' \subseteq open,
         jobs' \in Seq(Job), transforming' \subseteq Job, sending' \subseteq Job,
         results' \in Seq(Job),
         TransformsInv', ShownIsPlace'
  PROVE  PlaceInv'
<1>1. TypeOK
  BY DEF PlaceInv
<1>2. RequestsInv' /\ events' \in Seq(Event)
  BY PumpTakes
<1>3. UNCHANGED <<open, active, nextTab, history, query, order, showHidden, request,
                  generation, asked, commands, tasks, menu, inline, disk, inputs>>
  BY DEF PumpFrame, tabVars, viewParams, asking, uiVars
<1>4. TypeOK'
  BY <1>1, <1>2, <1>3 DEF TypeOK
<1> QED
  BY <1>2, <1>4 DEF PlaceInv

------------------------------------------------------------------------------
\* One lemma for each process, with a step for each of its actions.

LEMMA OutsideStep ==
  ASSUME PlaceInv, Outside \/ CloseMenuOrEdit
  PROVE  PlaceInv'
<1>1. TypeOK /\ RequestsInv /\ TransformsInv /\ ShownIsPlace
  BY DEF PlaceInv
<1>2. ASSUME NEW l \in Location, DiskChanges(l)
      PROVE  PlaceInv'
  <2>1. UNCHANGED <<open, active, nextTab, history, query, order, showHidden, request,
                    generation, asked, pending, background, errors, snapshots, sources,
                    viewGeneration, viewPending, jobs, transforming, sending, results,
                    commands, tasks, events, menu, inline>>
    BY <1>2 DEF DiskChanges, tabVars, viewParams, asking, status, rowVars, viewVars,
                workerVars, uiVars
  <2>2. disk' \in [Location -> Nat \ {0}] /\ inputs' \in 0..MaxInputs
    <3>1. disk' = [disk EXCEPT ![l] = @ + 1] /\ disk[l] \in Nat \ {0}
      BY <1>1, <1>2 DEF DiskChanges, TypeOK
    <3>2. disk' \in [Location -> Nat \ {0}]
      BY <1>1, <3>1 DEF TypeOK
    <3> QED
      BY <1>1, <1>2, <3>2, EnumerationAssumption DEF DiskChanges, Input, TypeOK
  <2>3. TypeOK'
    BY <1>1, <2>1, <2>2 DEF TypeOK
  <2>4. RequestsInv'
    BY <1>1, <2>1 DEF RequestsInv, AnswerOK, IsCurrent, Place, Answers, IsAnswer
  <2>5. TransformsInv' /\ ShownIsPlace'
    BY <1>1, <2>1 DEF TransformsInv, TransformOK, Transforms, IsLatest, HasSource, Place,
                      ShownIsPlace
  <2> QED
    BY <2>3, <2>4, <2>5 DEF PlaceInv
<1>3. ASSUME NEW t \in open, RefreshBackground(t)
      PROVE  PlaceInv'
  <2> DEFINE c == EnumerationCommand(t, Place(t), request'[t])
  <2>1. UNCHANGED <<open, active, nextTab, history, query, order, showHidden, errors,
                    snapshots, sources, viewGeneration, viewPending, jobs, transforming,
                    sending, results, tasks, events, menu, inline, disk>>
    BY <1>3 DEF RefreshBackground, tabVars, viewParams, rowVars, viewVars, uiVars
  <2>2. /\ t \in Tab /\ generation[t] \in Nat /\ Place(t) \in Location
        /\ disk[history'[t].current] \in Nat
    BY <1>1, <2>1 DEF TypeOK, History, Place
  <2>3. Ask({t}, {}) /\ commands' = Append(commands, c)
        /\ pending' = pending \cup ({t} \ AtHome)
        /\ background' = background \cup ({t} \ AtHome)
        /\ inputs < MaxInputs /\ inputs' = inputs + 1
    BY <1>3 DEF RefreshBackground, Input
  <2>4. /\ request' = [request EXCEPT ![t] = generation[t] + 1]
        /\ generation' = [generation EXCEPT ![t] = generation[t] + 1]
        /\ asked' \in [Tab -> Nat]
    BY <1>1, <2>2, <2>3 DEF Ask, TypeOK
  <2>5. request' = generation' /\ request' \in [Tab -> Nat] /\ request'[t] = generation[t] + 1
    BY <1>1, <2>2, <2>4 DEF TypeOK, RequestsInv
  <2>6. c \in Command /\ c.tab = t /\ c.location = Place(t) /\ c.request = request'[t]
    <3>1. request'[t] \in Nat /\ disk \in [Location -> Nat \ {0}]
      BY <1>1, <2>2, <2>5 DEF TypeOK
    <3> QED
      BY <2>2, <3>1, CommandType
  <2> HIDE DEF c
  <2>7. commands' \in Seq(Command) /\ ToSet(commands') = ToSet(commands) \cup {c}
    BY <1>1, <2>3, <2>6, AppendedSet DEF TypeOK
  <2>8. inputs' \in 0..MaxInputs
    BY <1>1, <2>3, EnumerationAssumption DEF TypeOK
  <2>9. TypeOK'
    BY <1>1, <2>1, <2>3, <2>4, <2>5, <2>7, <2>8 DEF TypeOK
  <2>10. RequestsInv'
    <3>1. ASSUME NEW x \in Answers
          PROVE  AnswerOK(x)'
      <4>1. AnswerOK(x) /\ x.tab \in Tab /\ x.request \in Nat
        BY <1>1, AnswerType DEF RequestsInv
      <4>2. CASE x.tab = t
        BY <2>1, <2>2, <2>4, <2>5, <4>1, <4>2 DEF AnswerOK, IsCurrent
      <4>3. CASE x.tab # t
        BY <2>1, <2>4, <2>5, <4>1, <4>3 DEF AnswerOK, IsCurrent, Place
      <4> QED
        BY <4>2, <4>3
    <3>2. ASSUME NEW x, x = c
          PROVE  AnswerOK(x)'
      BY <1>1, <2>1, <2>2, <2>5, <2>6, <3>2 DEF AnswerOK, IsCurrent, Place, RequestsInv
    <3>3. \A x \in Answers' : x \in Answers \/ x = c
      BY <2>1, <2>7 DEF Answers, IsAnswer
    <3> QED
      BY <1>1, <2>1, <2>5, <3>1, <3>2, <3>3 DEF RequestsInv
  <2>11. TransformsInv' /\ ShownIsPlace'
    BY <1>1, <2>1 DEF TransformsInv, TransformOK, Transforms, IsLatest, HasSource, Place,
                      ShownIsPlace
  <2> QED
    BY <2>9, <2>10, <2>11 DEF PlaceInv
<1>4. CASE CloseMenuOrEdit
  <2>1. UNCHANGED <<open, active, nextTab, history, query, order, showHidden, request,
                    generation, asked, pending, background, errors, snapshots, sources,
                    viewGeneration, viewPending, jobs, transforming, sending, results,
                    commands, tasks, events, disk, inputs>>
    BY <1>4 DEF CloseMenuOrEdit, tabVars, viewParams, asking, status, rowVars, viewVars,
                workerVars
  <2>2. TypeOK'
    BY <1>1, <1>4, <2>1 DEF TypeOK, CloseMenuOrEdit
  <2>3. RequestsInv'
    BY <1>1, <2>1 DEF RequestsInv, AnswerOK, IsCurrent, Place, Answers, IsAnswer
  <2>4. TransformsInv' /\ ShownIsPlace'
    BY <1>1, <2>1 DEF TransformsInv, TransformOK, Transforms, IsLatest, HasSource, Place,
                      ShownIsPlace
  <2> QED
    BY <2>2, <2>3, <2>4 DEF PlaceInv
<1> QED
  BY <1>2, <1>3, <1>4 DEF Outside

LEMMA WorkerStep ==
  ASSUME PlaceInv, FilesystemWorker \/ \E k \in tasks : EnumerationTask(k)
  PROVE  PlaceInv'
<1>1. TypeOK /\ RequestsInv
  BY DEF PlaceInv
<1>2. commands # <<>> => /\ Head(commands) \in Command /\ Head(commands) \in ToSet(commands)
                         /\ Tail(commands) \in Seq(Command)
                         /\ ToSet(Tail(commands)) \subseteq ToSet(commands)
  BY <1>1, TakenSet DEF TypeOK
<1>3. \A e \in Event : Append(events, e) \in Seq(Event)
                       /\ ToSet(Append(events, e)) = ToSet(events) \cup {e}
  BY <1>1, AppendedSet DEF TypeOK
<1>4. CASE WorkerCancel
  <2>1. /\ WorkerFrame /\ UNCHANGED <<events, disk>> /\ commands # <<>>
        /\ commands' = Tail(commands) /\ tasks' \subseteq tasks
    BY <1>4 DEF WorkerCancel, Abort
  <2>2. \A x \in Answers' : x \in Answers
    BY <1>2, <2>1 DEF Answers, IsAnswer
  <2> QED
    BY <1>1, <1>2, <2>1, <2>2, WorkerKeepsPlace DEF TypeOK
<1>5. CASE WorkerEnumerate
  <2>1. /\ WorkerFrame /\ UNCHANGED <<events, disk>> /\ commands # <<>>
        /\ Head(commands).kind \in {"Enumerate", "EnumerateReferences"}
        /\ commands' = Tail(commands) /\ tasks' \subseteq tasks \cup {Head(commands)}
    BY <1>5 DEF WorkerEnumerate, Abort
  <2>2. Head(commands) \in Task
    BY <1>2, <2>1 DEF Command, Task
  <2>3. \A x \in Answers' : x \in Answers
    BY <1>2, <2>1 DEF Answers, IsAnswer
  <2> QED
    BY <1>1, <1>2, <2>1, <2>2, <2>3, WorkerKeepsPlace DEF TypeOK
<1>6. CASE WorkerFileOperation
  <2> DEFINE told == [Head(commands) EXCEPT !.kind = "FilesChanged"]
  <2>1. /\ WorkerFrame /\ UNCHANGED tasks /\ commands # <<>>
        /\ commands' = Tail(commands)
        /\ disk' = [disk EXCEPT ![Head(commands).location] = @ + 1] \/ disk' = disk
        /\ events' = Append(events, told) \/ events' = events
    BY <1>6 DEF WorkerFileOperation
  <2>2. told \in Event /\ ~IsAnswer(told)
    BY <1>2, <2>1 DEF Command, Event, IsAnswer
  <2> HIDE DEF told
  <2>3. events' \in Seq(Event) /\ ToSet(events') \subseteq ToSet(events) \cup {told}
    BY <1>1, <1>3, <2>1, <2>2 DEF TypeOK
  <2>4. disk' \in [Location -> Nat \ {0}]
    <3>1. Head(commands).location \in Location
      BY <1>2, <2>1 DEF Command
    <3>2. disk[Head(commands).location] + 1 \in Nat \ {0}
      BY <1>1, <3>1 DEF TypeOK
    <3> QED
      BY <1>1, <2>1, <3>2 DEF TypeOK
  <2>5. \A x \in Answers' : x \in Answers
    BY <1>2, <2>1, <2>2, <2>3 DEF Answers, IsAnswer
  <2> QED
    BY <1>1, <1>2, <2>1, <2>3, <2>4, <2>5, WorkerKeepsPlace DEF TypeOK
<1>7. ASSUME NEW k \in tasks, EnumerationReads(k)
      PROVE  PlaceInv'
  <2> DEFINE read == [k EXCEPT !.content = disk[k.location]]
  <2>1. /\ WorkerFrame /\ UNCHANGED <<commands, events, disk>>
        /\ tasks' = (tasks \ {k}) \cup {read}
    BY <1>7 DEF EnumerationReads
  <2>2. k \in Answers /\ read \in Task /\ read.tab = k.tab /\ read.location = k.location
        /\ read.request = k.request
    BY <1>1 DEF Answers, TypeOK, Task
  <2> HIDE DEF read
  <2>3. \A x \in Answers' : x \in Answers \/ x = read
    BY <2>1 DEF Answers, IsAnswer
  <2> QED
    BY <1>1, <2>1, <2>2, <2>3, WorkerKeepsPlace DEF TypeOK
<1>8. ASSUME NEW k \in tasks, EnumerationLoads(k) \/ EnumerationFails(k)
      PROVE  PlaceInv'
  <2> DEFINE answer(kind) == [k EXCEPT !.kind = kind]
  <2>1. PICK kind \in {"DirectoryLoaded", "DirectoryError"} : events' = Append(events, answer(kind))
    BY <1>8 DEF EnumerationLoads, EnumerationFails
  <2>2. WorkerFrame /\ UNCHANGED <<commands, disk>> /\ tasks' = tasks \ {k}
    BY <1>8 DEF EnumerationLoads, EnumerationFails
  <2>3. k \in Answers /\ answer(kind) \in Event /\ answer(kind).tab = k.tab
        /\ answer(kind).location = k.location /\ answer(kind).request = k.request
    BY <1>1 DEF Answers, TypeOK, Task, Event
  <2> HIDE DEF answer
  <2>4. events' \in Seq(Event) /\ ToSet(events') = ToSet(events) \cup {answer(kind)}
    BY <1>3, <2>1, <2>3
  <2>5. \A x \in Answers' : x \in Answers \/ x = answer(kind)
    BY <2>2, <2>4 DEF Answers, IsAnswer
  <2> QED
    BY <1>1, <2>2, <2>3, <2>4, <2>5, WorkerKeepsPlace DEF TypeOK
<1> QED
  BY <1>4, <1>5, <1>6, <1>7, <1>8 DEF FilesystemWorker, EnumerationTask

LEMMA ViewWorkerStep ==
  ASSUME PlaceInv, ViewWorker
  PROVE  PlaceInv'
<1>1. TypeOK
  BY DEF PlaceInv
<1>2. CASE ViewWorkerTakes
  <2>1. Head(jobs) \in Job /\ Head(jobs) \in ToSet(jobs) /\ Tail(jobs) \in Seq(Job)
        /\ ToSet(Tail(jobs)) \subseteq ToSet(jobs)
    BY <1>1, <1>2, TakenSet DEF TypeOK, ViewWorkerTakes
  <2>2. /\ jobs' = Tail(jobs) /\ transforming' \subseteq {Head(jobs)}
        /\ UNCHANGED <<sending, results>> /\ ViewFrame
    BY <1>2 DEF ViewWorkerTakes
  <2>3. Transforms' \subseteq Transforms
    BY <2>1, <2>2 DEF Transforms
  <2> QED
    BY <1>1, <2>1, <2>2, <2>3, ViewWorkerKeepsPlace DEF TypeOK
<1>3. CASE ViewWorkerTransforms
  <2>1. /\ sending' \subseteq transforming /\ transforming' = {}
        /\ UNCHANGED <<jobs, results>> /\ ViewFrame
    BY <1>3 DEF ViewWorkerTransforms
  <2>2. Transforms' \subseteq Transforms
    BY <2>1 DEF Transforms
  <2> QED
    BY <1>1, <2>1, <2>2, ViewWorkerKeepsPlace DEF TypeOK
<1>4. CASE ViewWorkerSends
  <2>1. PICK j \in sending : results' = <<j>>
    BY <1>4 DEF ViewWorkerSends
  <2>2. sending' = {} /\ UNCHANGED <<jobs, transforming>> /\ ViewFrame
    BY <1>4 DEF ViewWorkerSends
  <2>3. results' \in Seq(Job) /\ ToSet(results') = {j}
    BY <1>1, <2>1 DEF TypeOK, ToSet
  <2>4. Transforms' \subseteq Transforms
    BY <2>2, <2>3 DEF Transforms
  <2> QED
    BY <1>1, <2>2, <2>3, <2>4, ViewWorkerKeepsPlace DEF TypeOK
<1> QED
  BY <1>2, <1>3, <1>4 DEF ViewWorker

LEMMA PumpStep ==
  ASSUME PlaceInv, Pump \/ PollViews
  PROVE  PlaceInv'
<1> DEFINE e == Head(events)
<1>1. TypeOK /\ RequestsInv /\ TransformsInv /\ ShownIsPlace
  BY DEF PlaceInv
<1>2. events # <<>> => /\ e \in Event /\ Tail(events) \in Seq(Event)
                       /\ ToSet(Tail(events)) \subseteq ToSet(events)
  BY <1>1, TakenSet DEF TypeOK
<1>3. ASSUME PumpFrame
      PROVE  UNCHANGED <<open, nextTab, history, disk>>
  BY <1>3 DEF PumpFrame, tabVars
<1>4. CASE PumpDropsStale
  <2>1. /\ events # <<>> /\ events' = Tail(events) /\ PumpFrame
        /\ UNCHANGED <<pending, background, errors, snapshots, sources, viewGeneration,
                       viewPending, jobs, transforming, sending, results>>
    BY <1>4 DEF PumpDropsStale, status, rowVars, viewVars
  <2>2. TransformsInv' /\ ShownIsPlace'
    BY <1>1, <1>3, <2>1 DEF TransformsInv, TransformOK, Transforms, IsLatest, HasSource,
                            Place, ShownIsPlace
  <2> QED
    BY <1>1, <2>1, <2>2, PumpKeepsPlace DEF TypeOK
<1>5. CASE PumpDefers
  <2>1. /\ events # <<>> /\ events' = Append(Tail(events), e) /\ PumpFrame
        /\ UNCHANGED <<pending, background, errors, snapshots, sources, viewGeneration,
                       viewPending, jobs, transforming, sending, results>>
    BY <1>5 DEF PumpDefers, status, rowVars, viewVars
  <2>2. events' \in Seq(Event) /\ ToSet(events') \subseteq ToSet(events)
    <3> DEFINE rest == Tail(events)
    <3>1. e \in ToSet(events)
      BY <1>1, <2>1, TakenSet DEF TypeOK
    <3>2. e \in Event /\ rest \in Seq(Event) /\ ToSet(rest) \subseteq ToSet(events)
          /\ events' = Append(rest, e)
      BY <1>2, <2>1
    <3> HIDE DEF e, rest
    <3>3. Append(rest, e) \in Seq(Event) /\ ToSet(Append(rest, e)) = ToSet(rest) \cup {e}
      BY <3>2, AppendedSet
    <3> QED
      BY <3>1, <3>2, <3>3
  <2>3. UNCHANGED <<open, active, nextTab, history, query, order, showHidden, request,
                    generation, asked, commands, tasks, menu, inline, disk, inputs>>
    BY <2>1 DEF PumpFrame, tabVars, viewParams, asking, uiVars
  <2>4. TypeOK'
    BY <1>1, <2>1, <2>2, <2>3 DEF TypeOK
  <2>5. \A x \in Answers' : x \in Answers
    BY <2>2, <2>3 DEF Answers, IsAnswer
  <2>6. RequestsInv'
    BY <1>1, <2>3, <2>5 DEF RequestsInv, AnswerOK, IsCurrent, Place
  <2>7. TransformsInv' /\ ShownIsPlace'
    BY <1>1, <2>1, <2>3 DEF TransformsInv, TransformOK, Transforms, IsLatest, HasSource,
                            Place, ShownIsPlace
  <2> QED
    BY <2>4, <2>6, <2>7 DEF PlaceInv
<1>6. CASE ApplyUnchanged
  <2>1. /\ events # <<>> /\ events' = Tail(events) /\ PumpFrame /\ Settle(e.tab)
        /\ UNCHANGED <<snapshots, sources, viewGeneration, viewPending, jobs, transforming,
                       sending, results>>
    BY <1>6 DEF ApplyUnchanged, Ready, rowVars, viewVars
  <2>2. pending' \subseteq open /\ background' \subseteq pending' /\ errors' \subseteq open
    BY <1>1, <2>1 DEF Settle, TypeOK
  <2>3. TransformsInv' /\ ShownIsPlace'
    BY <1>1, <1>3, <2>1 DEF TransformsInv, TransformOK, Transforms, IsLatest, HasSource,
                            Place, ShownIsPlace
  <2> QED
    BY <1>1, <2>1, <2>2, <2>3, PumpKeepsPlace DEF TypeOK
<1>7. ASSUME NEW t \in Tab
      PROVE  /\ Bumped({t}) \in [Tab -> Nat]
             /\ \A u \in Tab : viewGeneration[u] <= Bumped({t})[u]
             /\ \A u \in Tab \ {t} : Bumped({t})[u] = viewGeneration[u]
  <2>1. \A u \in Tab : viewGeneration[u] \in Nat
    BY <1>1 DEF TypeOK
  <2> QED
    BY <2>1 DEF Bumped
<1>8. ASSUME Ready, UNCHANGED <<transforming, sending, results>>,
             viewGeneration' = Bumped({e.tab}), UNCHANGED jobs,
             viewPending' = viewPending \ {e.tab},
             sources' = {s \in sources : s.tab # e.tab},
             pending' = pending \ {e.tab}, background' = background \ {e.tab},
             errors' \subseteq errors \cup {e.tab},
             snapshots' \subseteq Snapshot,
             \A s \in snapshots' : s \in snapshots \/ (s.tab = e.tab /\ s.location = e.location)
      PROVE  PlaceInv'
  <2>1. /\ events # <<>> /\ events' = Tail(events) /\ PumpFrame
        /\ e \in Event /\ e.tab \in open /\ e.tab \in Tab /\ e.location = Place(e.tab)
    BY <1>1, <1>8, ReadyAnswer DEF Ready, TypeOK
  <2>2. ShownIsPlace'
    BY <1>1, <1>3, <1>8, <2>1 DEF ShownIsPlace, Place
  <2>3. TransformsInv'
    <3>1. \A s \in sources' : s.tab \in open' /\ s.location = Place(s.tab)'
      BY <1>1, <1>3, <1>8, <2>1 DEF TransformsInv, Place
    <3>2. ASSUME NEW j \in Transforms'
          PROVE  TransformOK(j)'
      <4>1. TransformOK(j) /\ j.tab \in Tab /\ j.generation \in Nat
        BY <1>1, <1>8, TransformType DEF Transforms, TransformsInv, Job
      <4>2. /\ viewGeneration[j.tab] \in Nat /\ viewGeneration'[j.tab] \in Nat
            /\ viewGeneration[j.tab] <= viewGeneration'[j.tab]
            /\ j.tab # e.tab => viewGeneration'[j.tab] = viewGeneration[j.tab]
        BY <1>1, <1>7, <1>8, <2>1, <4>1 DEF TypeOK
      <4>3. HasSource(j.tab)' => HasSource(j.tab) /\ j.tab # e.tab
        BY <1>8 DEF HasSource
      <4>4. j.generation <= viewGeneration'[j.tab]
        BY <4>1, <4>2 DEF TransformOK
      <4>5. IsLatest(j)' /\ HasSource(j.tab)' => j.location = Place(j.tab)'
        BY <1>3, <2>1, <4>1, <4>2, <4>3 DEF TransformOK, IsLatest, Place
      <4> QED
        BY <1>3, <2>1, <4>1, <4>4, <4>5 DEF TransformOK
    <3> QED
      BY <3>1, <3>2 DEF TransformsInv
  <2>4. sources' \subseteq Listing /\ errors' \subseteq open /\ pending' \subseteq open
        /\ background' \subseteq pending' /\ viewPending' \subseteq open
    BY <1>1, <1>8, <2>1 DEF TypeOK
  <2>5. viewGeneration' \in [Tab -> Nat]
    BY <1>7, <1>8, <2>1
  <2> QED
    BY <1>1, <1>8, <2>1, <2>2, <2>3, <2>4, <2>5, PumpKeepsPlace DEF TypeOK
<1>9. CASE ApplyError
  <2>1. /\ Ready /\ UNCHANGED <<transforming, sending, results>>
        /\ viewGeneration' = Bumped({e.tab}) /\ UNCHANGED jobs
        /\ viewPending' = viewPending \ {e.tab}
        /\ sources' = {s \in sources : s.tab # e.tab}
        /\ pending' = pending \ {e.tab} /\ background' = background \ {e.tab}
        /\ errors' \subseteq errors \cup {e.tab}
        /\ snapshots' \subseteq snapshots
    BY <1>9 DEF ApplyError
  <2>2. /\ snapshots' \subseteq Snapshot
        /\ \A s \in snapshots' : s \in snapshots \/ (s.tab = e.tab /\ s.location = e.location)
    <3>1. snapshots \subseteq Snapshot
      BY <1>1 DEF TypeOK
    <3> HIDE DEF e
    <3> QED
      BY <2>1, <3>1
  <2> HIDE DEF e
  <2> QED
    BY <1>8, <2>1, <2>2
<1>10. CASE ApplySmall
  <2> DEFINE row == [tab |-> e.tab, location |-> e.location, request |-> e.request,
                     content |-> e.content, view |-> ViewOf(e.tab)]
  <2>1. e \in Event
    BY <1>2, <1>10 DEF ApplySmall, Ready
  <2>2. row \in Snapshot
    BY <1>1, <2>1 DEF Event, Snapshot, ViewOf, View, TypeOK
  <2>3. /\ Ready /\ UNCHANGED <<transforming, sending, results>>
        /\ viewGeneration' = Bumped({e.tab}) /\ UNCHANGED jobs
        /\ viewPending' = viewPending \ {e.tab}
        /\ sources' = {s \in sources : s.tab # e.tab}
        /\ pending' = pending \ {e.tab} /\ background' = background \ {e.tab}
        /\ errors' = errors \ {e.tab}
        /\ snapshots' = {s \in snapshots : s.tab # e.tab} \cup {row}
    BY <1>10 DEF ApplySmall, Settle
  <2>4. row.tab = e.tab /\ row.location = e.location
    OBVIOUS
  <2> HIDE DEF row
  <2>5. /\ snapshots' \subseteq Snapshot /\ errors' \subseteq errors \cup {e.tab}
        /\ \A s \in snapshots' : s \in snapshots \/ (s.tab = e.tab /\ s.location = e.location)
    <3>1. snapshots \subseteq Snapshot
      BY <1>1 DEF TypeOK
    <3> HIDE DEF e
    <3> QED
      BY <2>2, <2>3, <2>4, <3>1
  <2> HIDE DEF e
  <2> QED
    BY <1>8, <2>3, <2>5
<1>11. CASE ApplyLarge
  <2> DEFINE taken  == Bumped({e.tab})[e.tab] + 1
             source == [tab |-> e.tab, location |-> e.location, request |-> e.request,
                        content |-> e.content]
             job    == [tab |-> e.tab, generation |-> taken, location |-> e.location,
                        request |-> e.request, content |-> e.content, view |-> ViewOf(e.tab)]
  <2>1. /\ Ready
        /\ sources' = {s \in sources : s.tab # e.tab} \cup {source}
        /\ viewGeneration' = [viewGeneration EXCEPT ![e.tab] = taken]
        /\ viewPending' = viewPending \cup {e.tab}
        /\ jobs' = Append(jobs, job)
        /\ UNCHANGED <<pending, background, errors, snapshots, transforming, sending, results>>
    BY <1>11 DEF ApplyLarge, status
  <2>2. /\ events # <<>> /\ events' = Tail(events) /\ PumpFrame
        /\ e \in Event /\ e.tab \in open /\ e.tab \in Tab /\ e.location = Place(e.tab)
    BY <1>1, <2>1, ReadyAnswer DEF Ready, TypeOK
  <2>3. /\ viewGeneration[e.tab] \in Nat /\ taken \in Nat /\ viewGeneration[e.tab] < taken
    <3>1. Bumped({e.tab})[e.tab] \in Nat /\ viewGeneration[e.tab] <= Bumped({e.tab})[e.tab]
      BY <1>7, <2>2
    <3>2. viewGeneration[e.tab] \in Nat
      BY <1>1, <2>2 DEF TypeOK
    <3> QED
      BY <3>1, <3>2
  <2> HIDE DEF taken
  <2>4. source \in Listing /\ source.tab = e.tab /\ source.location = e.location
    BY <2>2 DEF Event, Listing
  <2>5. job \in Job /\ job.tab = e.tab /\ job.location = e.location /\ job.generation = taken
    BY <1>1, <2>2, <2>3 DEF Event, Job, ViewOf, View, TypeOK
  <2> HIDE DEF source, job
  <2>6. jobs' \in Seq(Job) /\ ToSet(jobs') = ToSet(jobs) \cup {job}
    BY <1>1, <2>1, <2>5, AppendedSet DEF TypeOK
  <2>7. viewGeneration' \in [Tab -> Nat] /\ viewGeneration'[e.tab] = taken
        /\ \A u \in Tab \ {e.tab} : viewGeneration'[u] = viewGeneration[u]
    BY <1>1, <2>1, <2>2, <2>3 DEF TypeOK
  <2>8. TransformsInv'
    <3>1. \A s \in sources' : s.tab \in open' /\ s.location = Place(s.tab)'
      BY <1>1, <1>3, <2>1, <2>2, <2>4 DEF TransformsInv, Place
    <3>2. ASSUME NEW j \in Transforms
          PROVE  TransformOK(j)'
      <4>1. TransformOK(j) /\ j.tab \in Tab /\ j.generation \in Nat
        BY <1>1, TransformType DEF TransformsInv, Job
      <4>2. CASE j.tab = e.tab
        BY <1>3, <2>2, <2>3, <2>7, <4>1, <4>2 DEF TransformOK, IsLatest
      <4>3. CASE j.tab # e.tab
        <5>1. HasSource(j.tab)' => HasSource(j.tab)
          BY <2>1, <2>4, <4>3 DEF HasSource
        <5> QED
          BY <1>3, <2>2, <2>7, <4>1, <4>3, <5>1 DEF TransformOK, IsLatest, Place
      <4> QED
        BY <4>2, <4>3
    <3>3. ASSUME NEW j, j = job
          PROVE  TransformOK(j)'
      <4>1. e.tab < nextTab
        BY <1>1, <2>2 DEF RequestsInv
      <4> QED
        BY <1>3, <2>2, <2>3, <2>5, <2>7, <3>3, <4>1 DEF TransformOK, Place
    <3>4. \A j \in Transforms' : j \in Transforms \/ j = job
      BY <2>1, <2>6 DEF Transforms
    <3> QED
      BY <3>1, <3>2, <3>3, <3>4 DEF TransformsInv
  <2>9. ShownIsPlace'
    BY <1>1, <1>3, <2>1, <2>2 DEF ShownIsPlace, Place
  <2>10. sources' \subseteq Listing /\ viewPending' \subseteq open
    BY <1>1, <2>1, <2>2, <2>4 DEF TypeOK
  <2> QED
    BY <1>1, <2>1, <2>2, <2>6, <2>7, <2>8, <2>9, <2>10, PumpKeepsPlace DEF TypeOK
<1>12. CASE PumpFilesChanged
  <2>1. /\ events # <<>> /\ events' = Tail(events) /\ RequestEnumeration(open, {})
        /\ UNCHANGED <<open, active, nextTab, history, query, order, showHidden, menu,
                       inline, disk, inputs>>
    BY <1>12 DEF PumpFilesChanged, tabVars, viewParams, uiVars
  <2>2. events' \in Seq(Event) /\ ToSet(events') \subseteq ToSet(events)
    BY <1>2, <2>1
  <2>3. open \in SUBSET Tab /\ \A t \in open : t < nextTab
    BY <1>1 DEF TypeOK, RequestsInv
  <2>4. nextTab <= nextTab
    BY <1>1, EnumerationAssumption DEF TypeOK
  <2> QED
    BY <1>1, <2>1, <2>2, <2>3, <2>4, RequestsKeepPlace DEF TypeOK
<1>13. CASE PollViews
  <2> DEFINE r   == Head(results)
             row == [tab |-> r.tab, location |-> r.location, request |-> r.request,
                     content |-> r.content, view |-> r.view]
  <2>1. /\ results # <<>> /\ results' = <<>> /\ PumpFrame
        /\ UNCHANGED <<sources, viewGeneration, jobs, transforming, sending, events>>
        /\ viewPending' \subseteq viewPending /\ errors' \subseteq errors
        /\ \/ UNCHANGED <<pending, background>>
           \/ pending' = pending \ {r.tab} /\ background' = background \ {r.tab}
        /\ \/ UNCHANGED snapshots
           \/ IsFresh(r) /\ snapshots' = {s \in snapshots : s.tab # r.tab} \cup {row}
    BY <1>13 DEF PollViews, status
  <2>2. r \in Job /\ r \in Transforms
    BY <1>1, <2>1, TakenSet DEF TypeOK, Transforms
  <2>3. row \in Snapshot /\ row.tab = r.tab /\ row.location = r.location
    BY <2>2 DEF Job, Snapshot
  <2> HIDE DEF row
  <2>4. IsFresh(r) => r.tab \in open /\ r.location = Place(r.tab)
    BY <1>1, <2>2 DEF IsFresh, IsLatest, HasSource, TransformsInv, TransformOK
  <2>5. UNCHANGED <<open, active, nextTab, history, query, order, showHidden, request,
                    generation, asked, commands, tasks, events, menu, inline, disk, inputs>>
    BY <2>1 DEF PumpFrame, tabVars, viewParams, asking, uiVars
  <2>6. snapshots' \subseteq Snapshot /\ ShownIsPlace'
    BY <1>1, <2>1, <2>3, <2>4, <2>5 DEF TypeOK, ShownIsPlace, Place
  <2>7. results' \in Seq(Job) /\ ToSet(results') = {}
    BY <2>1 DEF ToSet
  <2>8. pending' \subseteq open /\ background' \subseteq pending'
    BY <1>1, <2>1 DEF TypeOK
  <2>9. TypeOK'
    BY <1>1, <2>1, <2>5, <2>6, <2>7, <2>8 DEF TypeOK
  <2>10. RequestsInv'
    BY <1>1, <2>5 DEF RequestsInv, AnswerOK, IsCurrent, Place, Answers, IsAnswer
  <2>11. TransformsInv'
    BY <1>1, <2>1, <2>5, <2>7 DEF TransformsInv, TransformOK, Transforms, IsLatest,
                                  HasSource, Place
  <2> QED
    BY <2>6, <2>9, <2>10, <2>11 DEF PlaceInv
<1> QED
  BY <1>4, <1>5, <1>6, <1>9, <1>10, <1>11, <1>12, <1>13 DEF Pump

LEMMA UserStep ==
  ASSUME PlaceInv, User
  PROVE  PlaceInv'
<1>1. TypeOK /\ RequestsInv /\ TransformsInv /\ ShownIsPlace
  BY DEF PlaceInv
<1>2. /\ open \subseteq Tab /\ active \in open /\ nextTab \in 1..MaxTab + 1
      /\ history \in [Tab -> History(Location)] /\ events \in Seq(Event)
      /\ query \in [Tab -> Query] /\ order \in [Tab -> Order] /\ showHidden \in BOOLEAN
      /\ menu \in BOOLEAN /\ inline \in BOOLEAN
      /\ \A t \in open : t < nextTab
  BY <1>1 DEF TypeOK, RequestsInv
<1>3. nextTab <= nextTab /\ nextTab \in Nat
  BY <1>2, EnumerationAssumption
<1>4. ASSUME inputs < MaxInputs, inputs' = inputs + 1
      PROVE  inputs' \in 0..MaxInputs
  BY <1>1, <1>4, EnumerationAssumption DEF TypeOK
\* What the three navigations and a refresh have in common.
<1>5. ASSUME NEW S \in SUBSET open, NEW h \in History(Location),
             inputs < MaxInputs, inputs' = inputs + 1,
             \/ UNCHANGED history
             \/ S = {active} /\ history' = [history EXCEPT ![active] = h],
             \/ UNCHANGED query
             \/ query' = [query EXCEPT ![active] = NoQuery],
             UNCHANGED <<open, active, nextTab, order, showHidden, uiVars, disk, events>>,
             RequestEnumeration(S, {})
      PROVE  PlaceInv'
  <2>1. UNCHANGED <<menu, inline>>
    BY <1>5 DEF uiVars
  <2>2. S \in SUBSET Tab /\ {} \in SUBSET open
    BY <1>2
  <2>3. /\ history' \in [Tab -> History(Location)]
        /\ \A t \in open' \ S : history'[t] = history[t]
    BY <1>2, <1>5
  <2>4. query' \in [Tab -> Query]
    BY <1>2, <1>5, EnumerationAssumption
  <2>5. inputs' \in 0..MaxInputs
    BY <1>4, <1>5
  <2>6. events' \in Seq(Event) /\ ToSet(events') \subseteq ToSet(events)
    BY <1>2, <1>5
  <2>7. /\ S \subseteq open' /\ open' \subseteq Tab /\ open' \cap {} = {}
        /\ open \ {} \subseteq open' /\ open' \ S \subseteq open /\ open' \ open = {}
        /\ active' \in open' /\ nextTab' \in 1..MaxTab + 1 /\ nextTab <= nextTab'
        /\ \A t \in open' : t < nextTab'
        /\ order' \in [Tab -> Order] /\ showHidden' \in BOOLEAN /\ disk' = disk
    BY <1>2, <1>3, <1>5
  <2> QED
    BY <1>2, <1>5, <2>1, <2>2, <2>3, <2>4, <2>5, <2>6, <2>7, RequestsKeepPlace
<1>6. ASSUME NEW l \in Location, Navigate(l)
      PROVE  PlaceInv'
  <2>1. NavigateTo(history[active], l) \in History(Location)
    BY <1>2, HistoryType
  <2> QED
    BY <1>2, <1>5, <1>6, <2>1 DEF Navigate, Input
<1>7. CASE NavigateBack
  <2>1. GoBack(history[active]) \in History(Location)
    BY <1>2, HistoryType, EnumerationAssumption
  <2> QED
    BY <1>2, <1>5, <1>7, <2>1 DEF NavigateBack, Input
<1>8. CASE NavigateForward
  <2>1. GoForward(history[active]) \in History(Location)
    BY <1>2, HistoryType, EnumerationAssumption
  <2> QED
    BY <1>2, <1>5, <1>8, <2>1 DEF NavigateForward, Input
<1>9. ASSUME NEW S \in SUBSET open, Refresh(S)
      PROVE  PlaceInv'
  <2>1. history[active] \in History(Location)
    BY <1>2
  <2> QED
    BY <1>5, <1>9, <2>1 DEF Refresh, Input, tabVars, viewParams
<1>10. ASSUME NEW l \in Location, OpenTab(l)
       PROVE  PlaceInv'
  <2>1. /\ nextTab \in Tab /\ open' = open \cup {nextTab} /\ active' = nextTab
        /\ nextTab' = nextTab + 1 /\ history' = [history EXCEPT ![nextTab] = NewHistory(l)]
        /\ inputs < MaxInputs /\ inputs' = inputs + 1
        /\ UNCHANGED <<query, order, showHidden, menu, inline, disk, events>>
        /\ RequestEnumeration({nextTab}, {})
    BY <1>10 DEF OpenTab, Input, viewParams, uiVars
  <2>2. NewHistory(l) \in History(Location)
    BY <1>2, HistoryType
  <2>3. /\ history' \in [Tab -> History(Location)]
        /\ \A t \in open' \ {nextTab} : history'[t] = history[t]
    BY <1>2, <2>1, <2>2
  <2>4. nextTab' \in 1..MaxTab + 1 /\ nextTab <= nextTab' /\ \A t \in open' : t < nextTab'
    BY <1>2, <2>1, EnumerationAssumption DEF Tab
  <2>5. inputs' \in 0..MaxInputs
    BY <1>4, <2>1
  <2>6. /\ {nextTab} \subseteq open' /\ open' \subseteq Tab /\ open' \cap {} = {}
        /\ open \ {} \subseteq open' /\ open' \ {nextTab} \subseteq open
        /\ \A t \in open' \ open : t >= nextTab
        /\ active' \in open' /\ {nextTab} \in SUBSET Tab /\ {} \in SUBSET open
        /\ events' \in Seq(Event) /\ ToSet(events') \subseteq ToSet(events)
    BY <1>2, <1>3, <2>1
  <2> QED
    BY <1>2, <2>1, <2>3, <2>4, <2>5, <2>6, RequestsKeepPlace
<1>11. ASSUME NEW t \in open, NEW n \in open, CloseTab(t, n)
       PROVE  PlaceInv'
  <2> DEFINE S == {u \in {n} : NeedsEnumeration(u)}
  <2>1. /\ n \in open \ {t} /\ open' = open \ {t} /\ active' = n
        /\ inputs < MaxInputs /\ inputs' = inputs + 1
        /\ UNCHANGED <<nextTab, history, query, order, showHidden, menu, inline, disk, events>>
        /\ RequestEnumeration(S, {t})
    BY <1>11 DEF CloseTab, Input, viewParams, uiVars
  <2>2. S \subseteq {n}
    OBVIOUS
  <2> HIDE DEF S
  <2>3. inputs' \in 0..MaxInputs
    BY <1>4, <2>1
  <2>4. /\ S \subseteq open' /\ open' \subseteq Tab /\ open' \cap {t} = {}
        /\ open \ {t} \subseteq open' /\ open' \ S \subseteq open /\ open' \ open = {}
        /\ active' \in open' /\ S \in SUBSET Tab /\ {t} \in SUBSET open
        /\ nextTab' \in 1..MaxTab + 1 /\ nextTab <= nextTab' /\ \A u \in open' : u < nextTab'
        /\ events' \in Seq(Event) /\ ToSet(events') \subseteq ToSet(events)
    BY <1>2, <1>3, <2>1, <2>2
  <2> QED
    BY <1>2, <2>1, <2>3, <2>4, RequestsKeepPlace
<1>12. ASSUME NEW t \in open, SwitchTab(t)
       PROVE  PlaceInv'
  <2> DEFINE S == {u \in {t} : NeedsEnumeration(u)}
  <2>1. /\ active' = t /\ inputs < MaxInputs /\ inputs' = inputs + 1
        /\ UNCHANGED <<open, nextTab, history, query, order, showHidden, menu, inline, disk,
                       events>>
        /\ RequestEnumeration(S, {})
    BY <1>12 DEF SwitchTab, Input, viewParams, uiVars
  <2>2. S \subseteq {t}
    OBVIOUS
  <2> HIDE DEF S
  <2>3. inputs' \in 0..MaxInputs
    BY <1>4, <2>1
  <2>4. /\ S \subseteq open' /\ open' \subseteq Tab /\ open' \cap {} = {}
        /\ open \ {} \subseteq open' /\ open' \ S \subseteq open /\ open' \ open = {}
        /\ active' \in open' /\ S \in SUBSET Tab /\ {} \in SUBSET open
        /\ nextTab' \in 1..MaxTab + 1 /\ nextTab <= nextTab' /\ \A u \in open' : u < nextTab'
        /\ events' \in Seq(Event) /\ ToSet(events') \subseteq ToSet(events)
    BY <1>2, <1>3, <2>1, <2>2
  <2> QED
    BY <1>2, <2>1, <2>3, <2>4, RequestsKeepPlace
\* What the changes of view have in common.
<1>13. ASSUME NEW S \in SUBSET Tab, inputs < MaxInputs, inputs' = inputs + 1,
              query' \in [Tab -> Query], order' \in [Tab -> Order], showHidden' \in BOOLEAN,
              Refilter(S)
       PROVE  PlaceInv'
  <2> DEFINE T == {t \in S : HasSource(t)}
  <2>1. /\ ScheduleViews(T)
        /\ snapshots' = {IF s.tab \in S /\ ~HasSource(s.tab)
                         THEN [s EXCEPT !.view = ViewOf(s.tab)'] ELSE s : s \in snapshots}
        /\ UNCHANGED <<tabVars, sources, asking, status, workerVars, uiVars, disk>>
    BY <1>13 DEF Refilter
  <2>2. ASSUME NEW s \in snapshots
        PROVE  /\ s \in Snapshot
               /\ [s EXCEPT !.view = ViewOf(s.tab)'] \in Snapshot
               /\ [s EXCEPT !.view = ViewOf(s.tab)'].tab = s.tab
               /\ [s EXCEPT !.view = ViewOf(s.tab)'].location = s.location
    <3>1. s \in Snapshot /\ s.tab \in Tab
      BY <1>1 DEF TypeOK, Snapshot
    <3>2. ViewOf(s.tab)' \in View
      BY <1>13, <3>1 DEF ViewOf, View
    <3> QED
      BY <3>1, <3>2 DEF Snapshot
  <2>3. snapshots' \subseteq Snapshot
        /\ \A r \in snapshots' : \E s \in snapshots : r.tab = s.tab /\ r.location = s.location
    BY <2>1, <2>2
  <2>4. T \in SUBSET Tab /\ \A t \in T : HasSource(t)
    OBVIOUS
  <2> HIDE DEF T
  <2>5. inputs' \in 0..MaxInputs
    BY <1>4, <1>13
  <2> QED
    BY <1>13, <2>1, <2>3, <2>4, <2>5, SchedulesKeepPlace
<1>14. ASSUME NEW q \in Query, SetQuery(q)
       PROVE  PlaceInv'
  <2>1. query' \in [Tab -> Query] /\ order' \in [Tab -> Order] /\ showHidden' \in BOOLEAN
    BY <1>2, <1>14 DEF SetQuery
  <2>2. {active} \in SUBSET Tab
    BY <1>2
  <2> QED
    BY <1>13, <1>14, <2>1, <2>2 DEF SetQuery, Input
<1>15. ASSUME NEW o \in Order, SetSort(o)
       PROVE  PlaceInv'
  <2> DEFINE T == {t \in {active} : HasSource(t)}
  <2>1. /\ inputs < MaxInputs /\ inputs' = inputs + 1
        /\ order' = [order EXCEPT ![active] = o] /\ UNCHANGED <<query, showHidden>>
        /\ ScheduleViews(T)
        /\ snapshots' = {IF s.tab = active /\ ~HasSource(active)
                         THEN [s EXCEPT !.view.order = o] ELSE s : s \in snapshots}
        /\ UNCHANGED <<tabVars, sources, asking, status, workerVars, uiVars, disk>>
    BY <1>15 DEF SetSort, Input
  <2>2. ASSUME NEW s \in snapshots
        PROVE  /\ s \in Snapshot
               /\ [s EXCEPT !.view.order = o] \in Snapshot
               /\ [s EXCEPT !.view.order = o].tab = s.tab
               /\ [s EXCEPT !.view.order = o].location = s.location
    <3>1. s \in Snapshot
      BY <1>1 DEF TypeOK
    <3> QED
      BY <3>1 DEF Snapshot, View
  <2>3. snapshots' \subseteq Snapshot
        /\ \A r \in snapshots' : \E s \in snapshots : r.tab = s.tab /\ r.location = s.location
    BY <2>1, <2>2
  <2>4. T \in SUBSET Tab /\ \A t \in T : HasSource(t)
    BY <1>2
  <2> HIDE DEF T
  <2>5. inputs' \in 0..MaxInputs
    BY <1>4, <2>1
  <2>6. query' \in [Tab -> Query] /\ order' \in [Tab -> Order] /\ showHidden' \in BOOLEAN
    BY <1>2, <2>1
  <2> QED
    BY <2>1, <2>3, <2>4, <2>5, <2>6, SchedulesKeepPlace
<1>16. CASE SetVisibility
  <2>1. query' \in [Tab -> Query] /\ order' \in [Tab -> Order] /\ showHidden' \in BOOLEAN
    BY <1>2, <1>16 DEF SetVisibility
  <2> QED
    BY <1>13, <1>16, <2>1 DEF SetVisibility, Input
<1>17. ASSUME NEW l \in Location, RequestFileOperation(l)
       PROVE  PlaceInv'
  <2> DEFINE c == [kind |-> "FileOperation", tab |-> active, location |-> l,
                   request |-> 0, content |-> Unread]
  <2>1. /\ inputs < MaxInputs /\ inputs' = inputs + 1 /\ commands' = Append(commands, c)
        /\ UNCHANGED <<open, active, nextTab, history, query, order, showHidden, request,
                       generation, asked, pending, background, errors, snapshots, sources,
                       viewGeneration, viewPending, jobs, transforming, sending, results,
                       tasks, events, menu, inline, disk>>
    BY <1>17 DEF RequestFileOperation, Input, tabVars, viewParams, asking, status, rowVars,
                 viewVars, uiVars
  <2>2. c \in Command /\ c.kind = "FileOperation"
    BY <1>2 DEF Command, Unread
  <2> HIDE DEF c
  <2>3. commands' \in Seq(Command) /\ ToSet(commands') = ToSet(commands) \cup {c}
    BY <1>1, <2>1, <2>2, AppendedSet DEF TypeOK
  <2>4. inputs' \in 0..MaxInputs
    BY <1>4, <2>1
  <2>5. TypeOK'
    BY <1>1, <2>1, <2>3, <2>4 DEF TypeOK
  <2>6. \A x \in Answers' : x \in Answers
    BY <2>1, <2>2, <2>3 DEF Answers, IsAnswer
  <2>7. RequestsInv'
    BY <1>1, <2>1, <2>6 DEF RequestsInv, AnswerOK, IsCurrent, Place
  <2>8. TransformsInv' /\ ShownIsPlace'
    BY <1>1, <2>1 DEF TransformsInv, TransformOK, Transforms, IsLatest, HasSource, Place,
                      ShownIsPlace
  <2> QED
    BY <2>5, <2>7, <2>8 DEF PlaceInv
<1>18. CASE OpenMenuOrEdit
  <2>1. /\ inputs < MaxInputs /\ inputs' = inputs + 1
        /\ menu' \in BOOLEAN /\ inline' \in BOOLEAN
        /\ UNCHANGED <<open, active, nextTab, history, query, order, showHidden, request,
                       generation, asked, pending, background, errors, snapshots, sources,
                       viewGeneration, viewPending, jobs, transforming, sending, results,
                       commands, tasks, events, disk>>
    BY <1>2, <1>18 DEF OpenMenuOrEdit, Input, tabVars, viewParams, asking, status, rowVars,
                       viewVars, workerVars
  <2>2. inputs' \in 0..MaxInputs
    BY <1>4, <2>1
  <2>3. TypeOK'
    BY <1>1, <2>1, <2>2 DEF TypeOK
  <2>4. RequestsInv'
    BY <1>1, <2>1 DEF RequestsInv, AnswerOK, IsCurrent, Place, Answers, IsAnswer
  <2>5. TransformsInv' /\ ShownIsPlace'
    BY <1>1, <2>1 DEF TransformsInv, TransformOK, Transforms, IsLatest, HasSource, Place,
                      ShownIsPlace
  <2> QED
    BY <2>3, <2>4, <2>5 DEF PlaceInv
<1>19. CASE NavigateNowhere
  <2>1. /\ inputs < MaxInputs /\ inputs' = inputs + 1
        /\ query' = [query EXCEPT ![active] = NoQuery]
        /\ UNCHANGED <<open, active, nextTab, history, order, showHidden, request,
                       generation, asked, pending, background, errors, snapshots, sources,
                       viewGeneration, viewPending, jobs, transforming, sending, results,
                       commands, tasks, events, menu, inline, disk>>
    BY <1>19 DEF NavigateNowhere, Input, tabVars, asking, status, rowVars, viewVars,
                 workerVars, uiVars
  <2>2. inputs' \in 0..MaxInputs
    BY <1>4, <2>1
  <2>3. query' \in [Tab -> Query]
    BY <1>2, <2>1, EnumerationAssumption
  <2>4. TypeOK'
    BY <1>1, <2>1, <2>2, <2>3 DEF TypeOK
  <2>5. RequestsInv'
    BY <1>1, <2>1 DEF RequestsInv, AnswerOK, IsCurrent, Place, Answers, IsAnswer
  <2>6. TransformsInv' /\ ShownIsPlace'
    BY <1>1, <2>1 DEF TransformsInv, TransformOK, Transforms, IsLatest, HasSource, Place,
                      ShownIsPlace
  <2> QED
    BY <2>4, <2>5, <2>6 DEF PlaceInv
<1> QED
  BY <1>6, <1>7, <1>8, <1>9, <1>10, <1>11, <1>12, <1>14, <1>15, <1>16, <1>17, <1>18,
     <1>19 DEF User

------------------------------------------------------------------------------
\* The start: the active tab has asked once, no transform is under way.
LEMMA InitPlace == Init => PlaceInv
<1> SUFFICES ASSUME Init
             PROVE  PlaceInv
  OBVIOUS
<1>1. PICK k \in Tab, a \in Tab, places \in [Tab -> Location] :
        /\ a <= k
        /\ \A t \in Tab : t > k => places[t] = Home
        /\ open = 1..k /\ active = a /\ nextTab = k + 1
        /\ history = [t \in Tab |-> NewHistory(places[t])]
        /\ query = [t \in Tab |-> NoQuery]
        /\ order = [t \in Tab |-> ByName]
        /\ showHidden = FALSE
        /\ disk = [l \in Location |-> 1]
        /\ generation = [t \in Tab |-> IF t = a THEN 1 ELSE 0]
        /\ request = generation
        /\ asked = [t \in Tab |-> IF t = a THEN 1 ELSE 0]
        /\ pending = {a} \ {t \in Tab : places[t] = Home}
        /\ background = {} /\ errors = {}
        /\ snapshots = IF places[a] = Home
                       THEN {[tab |-> a, location |-> Home, request |-> 1, content |-> 1,
                              view |-> ViewOf(a)]}
                       ELSE {}
        /\ sources = {}
        /\ viewGeneration = [t \in Tab |-> 0] /\ viewPending = {}
        /\ commands = <<EnumerationCommand(a, places[a], 1)>>
        /\ tasks = {} /\ events = <<>>
        /\ jobs = <<>> /\ transforming = {} /\ sending = {} /\ results = <<>>
        /\ menu = FALSE /\ inline = FALSE
        /\ inputs = 0
  BY DEF Init
<1> DEFINE c == EnumerationCommand(a, places[a], 1)
<1>2. Home \in Location /\ NoQuery \in Query /\ ByName \in Order
      /\ MaxTab \in Nat \ {0} /\ MaxInputs \in Nat
  BY EnumerationAssumption
<1>3. disk \in [Location -> Nat \ {0}]
  BY <1>1
<1>4. c \in Command /\ c.tab = a /\ c.location = places[a] /\ c.request = 1
  BY <1>3, CommandType
<1> HIDE DEF c
<1>5. /\ commands = <<c>> /\ commands \in Seq(Command) /\ ToSet(commands) = {c}
      /\ ToSet(events) = {} /\ ToSet(jobs) = {} /\ ToSet(results) = {}
  BY <1>1, <1>4 DEF ToSet, c
<1>6. \A t \in Tab : history[t] \in History(Location) /\ Place(t) = places[t]
  BY <1>1, HistoryType DEF Place, NewHistory, History
<1>7. /\ open \subseteq Tab /\ active \in open /\ nextTab \in 1..MaxTab + 1
      /\ \A t \in open : t < nextTab
  BY <1>1, <1>2 DEF Tab
<1>8. ViewOf(a) \in View
  BY <1>1, <1>2 DEF ViewOf, View
<1>9. snapshots \subseteq Snapshot
  BY <1>1, <1>2, <1>8 DEF Snapshot
<1>10. /\ history \in [Tab -> History(Location)]
       /\ query \in [Tab -> Query] /\ order \in [Tab -> Order]
       /\ request \in [Tab -> Nat] /\ generation \in [Tab -> Nat] /\ asked \in [Tab -> Nat]
       /\ viewGeneration \in [Tab -> Nat] /\ inputs \in 0..MaxInputs
  BY <1>1, <1>2, <1>6
<1>11. pending \subseteq open /\ background \subseteq pending /\ errors \subseteq open
       /\ sources \subseteq Listing /\ viewPending \subseteq open
  BY <1>1, <1>7
<1>12. jobs \in Seq(Job) /\ results \in Seq(Job) /\ events \in Seq(Event)
       /\ transforming \subseteq Job /\ sending \subseteq Job /\ tasks \subseteq Task
  BY <1>1
<1>13. TypeOK
  BY <1>1, <1>3, <1>5, <1>7, <1>9, <1>10, <1>11, <1>12 DEF TypeOK
<1>14. RequestsInv
  <2>1. \A x \in Answers : x = c
    BY <1>1, <1>5 DEF Answers
  <2>2. AnswerOK(c)
    BY <1>1, <1>4, <1>6, <1>7 DEF AnswerOK
  <2> QED
    BY <1>1, <1>7, <2>1, <2>2 DEF RequestsInv
<1>15. TransformsInv
  BY <1>1, <1>5 DEF TransformsInv, Transforms
<1>16. ShownIsPlace
  BY <1>1, <1>6, <1>7 DEF ShownIsPlace
<1> QED
  BY <1>13, <1>14, <1>15, <1>16 DEF PlaceInv

LEMMA StutterPlace ==
  ASSUME PlaceInv, UNCHANGED vars
  PROVE  PlaceInv'
<1>1. UNCHANGED <<open, active, nextTab, history, query, order, showHidden, request,
                  generation, asked, pending, background, errors, snapshots, sources,
                  viewGeneration, viewPending, jobs, transforming, sending, results,
                  commands, tasks, events, menu, inline, disk, inputs>>
  BY DEF vars, tabVars, viewParams, asking, status, rowVars, viewVars, workerVars, uiVars
<1>2. TypeOK'
  BY <1>1 DEF PlaceInv, TypeOK
<1>3. RequestsInv'
  BY <1>1 DEF PlaceInv, RequestsInv, AnswerOK, IsCurrent, Place, Answers, IsAnswer
<1>4. TransformsInv' /\ ShownIsPlace'
  BY <1>1 DEF PlaceInv, TransformsInv, TransformOK, Transforms, IsLatest, HasSource, Place,
              ShownIsPlace
<1> QED
  BY <1>2, <1>3, <1>4 DEF PlaceInv

\* The invariant holds in every state of every behaviour, for any number of
\* tabs, places and inputs.
THEOREM PlaceInvariant == Spec => []PlaceInv
<1>1. Init => PlaceInv
  BY InitPlace
<1>2. PlaceInv /\ [Next]_vars => PlaceInv'
  BY UserStep, OutsideStep, WorkerStep, ViewWorkerStep, PumpStep, StutterPlace DEF Next
<1> QED
  BY <1>1, <1>2, PTL DEF Spec

\* The state of the window, the worker and the view worker keeps its type:
\* in particular a mark of a background request is never left without its
\* request, and no mark outlives its tab (app_state.rs:431-446).
THEOREM TypeCorrect == Spec => []TypeOK
<1>1. PlaceInv => TypeOK
  BY DEF PlaceInv
<1> QED
  BY <1>1, PlaceInvariant, PTL

\* No answer, error or transform of a place that a tab has left is ever shown
\* in it, however the user, the worker, its enumerations, the view worker and
\* the pump interleave (app_state.rs:285,354,734).
THEOREM PlaceSafe == Spec => []ShownIsPlace
<1>1. PlaceInv => ShownIsPlace
  BY DEF PlaceInv
<1> QED
  BY <1>1, PlaceInvariant, PTL

==============================================================================
