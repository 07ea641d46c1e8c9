------------------------------ MODULE IconStore ------------------------------
(***************************************************************************)
(* The icons of the visible rows (apps/kova-desktop/src/main.rs:60-220,    *)
(* 281-308, 709-808): the window keeps, for the keys of the rows that can  *)
(* be seen, a slot of a shared model of images; a worker resolves the keys *)
(* it is asked for.  Keys that scroll away give their slots back, while    *)
(* requests and answers for them may still be on their way.                *)
(*                                                                         *)
(* Slot 1 stands for the slots 0 to 4 of the generic icons, which are      *)
(* asked for once at the start and are left out; a key without an icon     *)
(* shares slot 1.  The cache of the worker only spares work and is left    *)
(* out too.                                                                *)
(***************************************************************************)
EXTENDS Naturals, Sequences, FiniteSets, Retain

CONSTANTS
  IconKey,      \* extensions and paths, not the generic keys
  Blank,        \* the image of a slot that is not used
  NoIcon,       \* an idle worker
  AtMost,       \* keys visible at once, a bound of the model
  RequestRoom,  \* (main.rs:274)
  ResolvedRoom  \* (main.rs:275)

ASSUME IconStoreAssumption ==
  /\ Blank \notin IconKey /\ NoIcon \notin IconKey
  /\ AtMost \in Nat /\ RequestRoom \in Nat \ {0} /\ ResolvedRoom \in Nat \ {0}

VARIABLES
  icons,        \* the store: ids, images, free, pending and queued
  wantedIcons,  \* the keys in view when the rows were last looked at, shared
                \* with the worker
  iconRequests, iconsResolved,  \* the channels
  resolver      \* the worker: its key, and whether it has resolved it

iconVars == <<icons, wantedIcons, iconRequests, iconsResolved, resolver>>

FirstSlot == 5

------------------------------------------------------------------------------
\* Operations of the store.

HasIcon(store, key) == key \in DOMAIN store.ids

NewSlot(store) ==
  IF store.free # <<>> THEN store.free[Len(store.free)]
                       ELSE FirstSlot + Len(store.images)

\* The elements of a HashSet, in an order of its own.
Listed(S) ==
  CHOOSE f \in [1..Cardinality(S) -> S] : \A i, j \in 1..Cardinality(S) : f[i] = f[j] => i = j

WithId(ids, key, slot) == [k \in DOMAIN ids \cup {key} |-> IF k = key THEN slot ELSE ids[k]]

\* The images of the slots from FirstSlot on.
Image(store, slot) == store.images[slot - FirstSlot + 1]

WithImage(images, slot, image) ==
  [i \in 1..(IF slot - FirstSlot + 1 > Len(images) THEN Len(images) + 1 ELSE Len(images)) |->
     IF i = slot - FirstSlot + 1 THEN image ELSE images[i]]

\* intern, for an answer that is still pending: a key that has an icon gets
\* the new image, one without a bitmap slot 1, any other a slot of its own.
Interned(store, answer) ==
  LET key == answer.key
      taken == [store EXCEPT !.pending = @ \ {key}]
      slot == NewSlot(store)
  IN  IF key \notin store.pending THEN store
      ELSE IF HasIcon(store, key) \/ ~answer.found
      THEN [taken EXCEPT !.ids = IF HasIcon(store, key) THEN @ ELSE WithId(@, key, 1)]
      ELSE [taken EXCEPT !.ids = WithId(@, key, slot),
                         !.images = WithImage(@, slot, key),
                         !.free = IF @ = <<>> THEN @ ELSE SubSeq(@, 1, Len(@) - 1)]

\* The answers that have come, in their order.
AllInterned(store, answers) ==
  LET upTo[i \in 0..Len(answers)] ==
        IF i = 0 THEN store ELSE Interned(upTo[i - 1], answers[i])
  IN  upTo[Len(answers)]

\* Mutation of Reclaimed: slot 1 is given back with the keys that share it.
ReclaimedWithGeneric(store, dead) == {store.ids[k] : k \in dead}

\* The slots given back: those of the generic icons stay.
Reclaimed(store, dead) == {store.ids[k] : k \in dead} \ 0..(FirstSlot - 1)

\* Mutation of PendingIfLive: keys that scroll away stay pending.
PendingIfAsked(store, live) == store.pending

PendingIfLive(store, live) == store.pending \cap live

\* retain_live (main.rs:135-159)
Retained(store, live) ==
  LET back == Reclaimed(store, DOMAIN store.ids \ live)
  IN  [store EXCEPT !.ids = [k \in DOMAIN @ \cap live |-> @[k]],
                    !.images = [i \in DOMAIN @ |-> IF i + FirstSlot - 1 \in back THEN Blank ELSE @[i]],
                    !.free = @ \o Listed(back),
                    !.pending = PendingIfLive(store, live),
                    !.queued = Retain(@, {i \in DOMAIN @ : @[i] \in live})]

\* queue_icon_requests (main.rs:782-808), before its flush
Queued(store, keys) ==
  LET kept == Retained(store, keys)
      missing == {k \in keys : ~HasIcon(kept, k) /\ k \notin kept.pending}
  IN  [kept EXCEPT !.pending = @ \cup missing, !.queued = @ \o Listed(missing)]

\* flush (main.rs:161-176): as many as the channel takes.
Flush(store) ==
  LET n == IF Len(store.queued) < RequestRoom - Len(iconRequests)
           THEN Len(store.queued) ELSE RequestRoom - Len(iconRequests)
  IN  /\ iconRequests' = iconRequests \o SubSeq(store.queued, 1, n)
      /\ icons' = [store EXCEPT !.queued = SubSeq(@, n + 1, Len(@))]

------------------------------------------------------------------------------
IconInit ==
  /\ icons = [ids |-> <<>>, images |-> <<>>, free |-> <<>>, pending |-> {}, queued |-> <<>>]
  /\ wantedIcons = {}
  /\ iconRequests = <<>> /\ iconsResolved = <<>> /\ resolver = NoIcon

\* The rows change or scroll, and the window looks at those in view: after a
\* listing, an answer of the view worker, a change of visibility and a new
\* viewport.  A sort, a filter or a search that is carried out at once is not
\* followed by it, and changes nothing here.
LookAtRows(keys) ==
  /\ wantedIcons' = keys
  /\ Flush(Queued(icons, keys))
  /\ UNCHANGED <<iconsResolved, resolver>>

\* The pump of the window takes what has been resolved.
PumpIcons ==
  /\ Flush(AllInterned(icons, iconsResolved))
  /\ iconsResolved' = <<>>
  /\ UNCHANGED <<wantedIcons, resolver>>

\* The worker looks whether a key is wanted before and after it resolves it.
ResolverTakes ==
  /\ resolver = NoIcon /\ iconRequests # <<>>
  /\ iconRequests' = Tail(iconRequests)
  /\ resolver' = IF Head(iconRequests) \in wantedIcons
                 THEN [key |-> Head(iconRequests), resolved |-> FALSE] ELSE NoIcon
  /\ UNCHANGED <<icons, wantedIcons, iconsResolved>>

ResolverResolves ==
  /\ resolver # NoIcon /\ ~resolver.resolved
  /\ resolver' = IF resolver.key \in wantedIcons THEN [resolver EXCEPT !.resolved = TRUE]
                                                 ELSE NoIcon
  /\ UNCHANGED <<icons, wantedIcons, iconRequests, iconsResolved>>

ResolverSends ==
  /\ resolver # NoIcon /\ resolver.resolved /\ Len(iconsResolved) < ResolvedRoom
  /\ \E found \in BOOLEAN :
       iconsResolved' = Append(iconsResolved, [key |-> resolver.key, found |-> found])
  /\ resolver' = NoIcon
  /\ UNCHANGED <<icons, wantedIcons, iconRequests>>

Resolver == ResolverTakes \/ ResolverResolves \/ ResolverSends

IconNext ==
  \/ \E keys \in SUBSET IconKey :
       IsFiniteSet(keys) /\ Cardinality(keys) <= AtMost /\ LookAtRows(keys)
  \/ PumpIcons \/ Resolver

IconSpec == IconInit /\ [][IconNext]_iconVars

\* The pump and the worker keep running, and the Shell answers.
IconFairness == WF_iconVars(PumpIcons) /\ WF_iconVars(Resolver)

IconFairSpec == IconSpec /\ IconFairness

------------------------------------------------------------------------------
\* Properties.

FreeSlots == {icons.free[i] : i \in DOMAIN icons.free}

OwnSlots == {k \in DOMAIN icons.ids : icons.ids[k] # 1}

\* Every key shows its own icon: a slot holds the image of the one key that
\* has it, and the slots given back are blank, each once, and used by none;
\* an answer that comes after its key has scrolled away takes no slot.
SlotsAreTheirKeys ==
  /\ \A k \in OwnSlots : icons.ids[k] >= FirstSlot /\ Image(icons, icons.ids[k]) = k
  /\ \A s \in FreeSlots : s >= FirstSlot /\ Image(icons, s) = Blank
  /\ Len(icons.free) = Cardinality(FreeSlots)
  /\ Len(icons.images) = Cardinality(OwnSlots) + Len(icons.free)

LacksIcon(k) == k \in wantedIcons /\ ~HasIcon(icons, k)

\* A key that was in view when the rows were looked at gets its icon, although
\* it may have scrolled away and back while requests for it were dropped.
WantedIconsArrive == \A k \in IconKey : []<>~LacksIcon(k)
==============================================================================
