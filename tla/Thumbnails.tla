------------------------------ MODULE Thumbnails ------------------------------
(***************************************************************************)
(* The thumbnails of the visible rows (apps/kova-desktop/src/thumbnails.rs): *)
(* a timer of the window asks one worker for the pictures that are neither *)
(* cached nor pending, and keeps those that come in a cache of bounded     *)
(* size.  A new reading of the folder, or another tab, empties the cache   *)
(* and makes everything on its way obsolete (`fresh`, see module Preview). *)
(* Drawing the cached pictures into the rows is left out.                  *)
(***************************************************************************)
EXTENDS Naturals, Sequences, FiniteSets

CONSTANTS
  Picture,     \* the files with a thumbnail, or with the knowledge of none
  Reading,     \* contexts: a tab and the request its rows were read by
  NotRead,     \* the context while the folder is loading, or in error
  NoPictures,  \* an empty channel, an idle worker
  AtOnce,      \* rows visible at once (thumbnails.rs:36)
  CacheLimit,  \* (thumbnails.rs:17)
  ResultRoom   \* room of the channel of results (thumbnails.rs:45)

ASSUME ThumbnailsAssumption ==
  /\ NotRead \notin Reading
  /\ AtOnce \in Nat \ {0} /\ CacheLimit \in Nat /\ AtOnce <= CacheLimit
  /\ ResultRoom \in Nat \ {0}

VARIABLES
  reading, visible,  \* the context of the active tab, and its visible rows
  cache,             \* context, entries (of which reading each is) and order
  pendingPictures,   \* asked for and not received
  pictureRequest, painter, pictureResults  \* channel, worker, channel back

thumbnailVars ==
  <<reading, visible, cache, pendingPictures, pictureRequest, painter, pictureResults>>

------------------------------------------------------------------------------
EmptyCache(context) == [context |-> context, entries |-> <<>>, order |-> <<>>]

Views == {S \in SUBSET Picture : Cardinality(S) <= AtOnce}

ThumbnailsInit ==
  /\ reading = NotRead /\ visible = {}
  /\ cache = EmptyCache(NotRead) /\ pendingPictures = {}
  /\ pictureRequest = NoPictures /\ painter = NoPictures /\ pictureResults = <<>>

\* The tab is read again, another tab becomes active, or the rows scroll.
Turn(context, S) ==
  /\ <<context, S>> # <<reading, visible>>
  /\ context = NotRead => S = {}
  /\ reading' = context /\ visible' = S
  /\ UNCHANGED <<cache, pendingPictures, pictureRequest, painter, pictureResults>>

------------------------------------------------------------------------------
Obsolete(job) == IF job = NoPictures THEN NoPictures ELSE [job EXCEPT !.fresh = FALSE]

\* Mutation of PendingAfter: what was pending before the change stays so.
PendingAnyway == pendingPictures

PendingAfter == {}

\* Mutation of Evicted: the order forgets nothing.
EvictedOutOfOrder(c) ==
  [c EXCEPT !.entries = [p \in DOMAIN c.entries \ {Head(c.order)} |-> c.entries[p]]]

\* The oldest entry goes.
Evicted(c) ==
  [c EXCEPT !.entries = [p \in DOMAIN c.entries \ {Head(c.order)} |-> c.entries[p]],
            !.order = Tail(@)]

\* A picture that has come goes to the cache, which makes room first.
Cached(c, result) ==
  LET room == IF Cardinality(DOMAIN c.entries) >= CacheLimit THEN Evicted(c) ELSE c
  IN  [room EXCEPT !.order = Append(@, result.picture),
                   !.entries = [p \in DOMAIN room.entries \cup {result.picture} |->
                                  IF p = result.picture THEN result.of ELSE room.entries[p]]]

Useful(result) == result.fresh

\* Those that have come, in their order, are cached unless they are obsolete.
Received(c, results) ==
  LET upTo[i \in 0..Len(results)] ==
        IF i = 0 THEN c
        ELSE IF Useful(results[i]) THEN Cached(upTo[i - 1], results[i]) ELSE upTo[i - 1]
  IN  upTo[Len(results)]

ThumbnailTimer ==
  LET changed  == cache.context # reading
      results  == IF changed
                  THEN [i \in DOMAIN pictureResults |-> [pictureResults[i] EXCEPT !.fresh = FALSE]]
                  ELSE pictureResults
      came     == {results[i].picture : i \in {j \in DOMAIN results : Useful(results[j])}}
      kept     == Received(IF changed THEN EmptyCache(reading) ELSE cache, results)
      awaited  == (IF changed THEN PendingAfter ELSE pendingPictures) \ came
      needed   == IF reading = NotRead THEN {} ELSE visible \ (DOMAIN kept.entries \cup awaited)
      asks     == needed # {} /\ pictureRequest = NoPictures
  IN  /\ cache' = kept
      /\ pictureResults' = <<>>
      /\ painter' = IF changed THEN Obsolete(painter) ELSE painter
      /\ pendingPictures' = awaited \cup (IF asks THEN needed ELSE {})
      /\ pictureRequest' = IF asks THEN [left |-> needed, fresh |-> TRUE, of |-> reading]
                           ELSE IF changed THEN Obsolete(pictureRequest) ELSE pictureRequest
      /\ UNCHANGED <<reading, visible>>

------------------------------------------------------------------------------
\* The worker: the pictures of one request, each unless the request has
\* become obsolete before it is loaded.

PainterFrame == UNCHANGED <<reading, visible, cache, pendingPictures>>

PainterTakes ==
  /\ painter = NoPictures /\ pictureRequest # NoPictures
  /\ painter' = [left |-> pictureRequest.left, of |-> pictureRequest.of,
                 fresh |-> pictureRequest.fresh, loading |-> {}]
  /\ pictureRequest' = NoPictures
  /\ UNCHANGED pictureResults /\ PainterFrame

PainterLoads ==
  /\ painter # NoPictures /\ painter.loading = {}
  /\ IF painter.fresh /\ painter.left # {}
     THEN \E p \in painter.left : painter' = [painter EXCEPT !.left = @ \ {p}, !.loading = {p}]
     ELSE painter' = NoPictures
  /\ UNCHANGED <<pictureRequest, pictureResults>> /\ PainterFrame

PainterSends ==
  /\ painter # NoPictures /\ painter.loading # {} /\ Len(pictureResults) < ResultRoom
  /\ \E p \in painter.loading :
       pictureResults' = Append(pictureResults, [picture |-> p, fresh |-> painter.fresh,
                                                 of |-> painter.of])
  /\ painter' = [painter EXCEPT !.loading = {}]
  /\ UNCHANGED pictureRequest /\ PainterFrame

Painter == PainterTakes \/ PainterLoads \/ PainterSends

------------------------------------------------------------------------------
ThumbnailsNext ==
  \/ \E context \in Reading \cup {NotRead}, S \in Views : Turn(context, S)
  \/ ThumbnailTimer \/ Painter

ThumbnailsSpec == ThumbnailsInit /\ [][ThumbnailsNext]_thumbnailVars

\* The timer and the worker keep running, and every load ends.
ThumbnailsFairness == WF_thumbnailVars(ThumbnailTimer) /\ WF_thumbnailVars(Painter)

ThumbnailsFairSpec == ThumbnailsSpec /\ ThumbnailsFairness

------------------------------------------------------------------------------
\* Properties.

\* The cache holds pictures of the reading it belongs to only, at most
\* CacheLimit, and its order lists each exactly once: the loop that makes
\* room (thumbnails.rs:100-104) always ends.
CacheIsOfItsReading ==
  /\ \A p \in DOMAIN cache.entries : cache.entries[p] = cache.context
  /\ Cardinality(DOMAIN cache.entries) <= CacheLimit
  /\ Len(cache.order) = Cardinality(DOMAIN cache.entries)
  /\ {cache.order[i] : i \in DOMAIN cache.order} = DOMAIN cache.entries

Awaits(context, p) == reading = context /\ p \in visible /\ p \notin DOMAIN cache.entries

\* A row that stays visible gets its picture, however often the folder was
\* read, or scrolled, while older requests filled the channel.
VisibleArrives ==
  \A context \in Reading, p \in Picture : []<>~Awaits(context, p)
==============================================================================
