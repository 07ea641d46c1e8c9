------------------------------- MODULE Preview -------------------------------
(***************************************************************************)
(* The preview of the selected file (apps/kova-desktop/src/preview.rs): a  *)
(* timer of the window compares what is to be previewed with what it asked *)
(* for last, one worker loads it and sends rows of information, then a     *)
(* still picture or the frames of an animation, and the timer shows them.  *)
(* Both channels are bounded; a request that is superseded is dropped      *)
(* wherever it is.                                                         *)
(*                                                                         *)
(* The numbers of the requests are only ever compared with the latest one: *)
(* `fresh` stands for being equal to it, and a new request takes it from   *)
(* everything older.  Errors of a load are content like any other.         *)
(***************************************************************************)
EXTENDS Naturals, Sequences

CONSTANTS
  Subject,    \* keys of the timer: path, page and revision of a shown file
  NoSubject,  \* the key of a hidden panel, or of no file
  Unset,      \* no key, an empty channel, an idle worker
  Room        \* room of the channel of frames (preview.rs:52)

ASSUME PreviewAssumption ==
  NoSubject \notin Subject /\ Unset \notin Subject /\ Unset # NoSubject /\ Room \in Nat \ {0}

VARIABLES
  subject,    \* what the window wants previewed
  lastKey,    \* what the timer has asked for last
  panel,      \* of: whose title is shown; info, content: whose rows and picture
  paused,     \* the animation is paused by the user
  request,    \* the channel to the worker
  loader,     \* the worker: whose part it makes next, `sure` once it has
              \* found its request to be the latest
  frames      \* the channel back

previewVars == <<subject, lastKey, panel, paused, request, loader, frames>>

------------------------------------------------------------------------------
Superseded(job) == IF job = Unset THEN Unset ELSE [job EXCEPT !.fresh = FALSE]

KeyIsNew == lastKey # subject

EmptyPanel(s) ==
  [of |-> s, shows |-> IF s = NoSubject THEN "nothing" ELSE "loading",
   info |-> Unset, content |-> Unset, moving |-> FALSE]

PreviewInit ==
  /\ subject = NoSubject /\ lastKey = Unset /\ panel = EmptyPanel(NoSubject)
  /\ paused = FALSE /\ request = Unset /\ loader = Unset /\ frames = <<>>

\* The selection, the page, the panel or the revision of the folder changes;
\* another path empties the panel at once, whatever the timer does later.
Blanked == [panel EXCEPT !.shows = "nothing", !.content = Unset]

Prefer(s) ==
  /\ s # subject /\ subject' = s
  /\ panel' \in {panel, Blanked}
  /\ UNCHANGED <<lastKey, paused, request, loader, frames>>

\* The button is there while an animation is shown (ui/inspector.slint:78-85).
PauseOrPlay ==
  /\ panel.moving /\ paused' = ~paused
  /\ UNCHANGED <<subject, lastKey, panel, request, loader, frames>>

\* Mutation of PausedAfter: a pause outlives the animation.
PausedStill == paused

PausedAfter == FALSE

\* The timer finds a new key.  A request that finds the channel full is made
\* again in the next run, under a new number.
TimerAsks ==
  /\ KeyIsNew
  /\ panel' = EmptyPanel(subject) /\ paused' = PausedAfter
  /\ frames' = <<>> /\ loader' = Superseded(loader)
  /\ IF subject # NoSubject /\ request = Unset
     THEN request' = [subject |-> subject, fresh |-> TRUE]
     ELSE request' = Superseded(request)
  /\ lastKey' = (IF subject = NoSubject \/ request = Unset THEN subject ELSE lastKey)
  /\ UNCHANGED subject

\* Mutation of IsShown: the number of the request is not compared.
IsShownAnyway(frame) == TRUE

IsShown(frame) == frame.fresh

\* The first frame with a picture ends the run; those before it are rows of
\* information, or superseded.
TimerShows ==
  /\ ~KeyIsNew /\ ~paused /\ frames # <<>>
  /\ LET shown    == {i \in DOMAIN frames : IsShown(frames[i])}
         pictures == {i \in shown : frames[i].part # "info"}
     IN  \E last \in DOMAIN frames :
           /\ IF pictures = {} THEN last = Len(frames)
                              ELSE last \in pictures /\ \A i \in pictures : last <= i
           /\ frames' = SubSeq(frames, last + 1, Len(frames))
           /\ LET infos == {frames[i].subject : i \in {j \in shown : j <= last /\ frames[j].part = "info"}}
                  told  == IF infos = {} THEN panel ELSE [panel EXCEPT !.info = CHOOSE s \in infos : TRUE]
              IN  panel' = IF pictures = {} THEN told
                           ELSE [told EXCEPT !.shows = "content", !.content = frames[last].subject,
                                             !.moving = frames[last].part = "frame"]
  /\ UNCHANGED <<subject, lastKey, paused, request, loader>>

------------------------------------------------------------------------------
\* The worker.  Each part is made, then sent once the request has been found
\* to be the latest and there is room: two steps, so that a part may be sent
\* just after its request was superseded.

LoaderFrame == UNCHANGED <<subject, lastKey, panel, paused>>

LoaderTakes ==
  /\ loader = Unset /\ request # Unset
  /\ request' = Unset
  /\ loader' = IF request.fresh
               THEN [subject |-> request.subject, fresh |-> TRUE, part |-> "info", sure |-> FALSE]
               ELSE Unset
  /\ UNCHANGED frames /\ LoaderFrame

LoaderChecks ==
  /\ loader # Unset /\ ~loader.sure
  /\ loader' = IF loader.fresh THEN [loader EXCEPT !.sure = TRUE] ELSE Unset
  /\ UNCHANGED <<request, frames>> /\ LoaderFrame

\* An animation is played again and again, or breaks off into a still picture,
\* or has one frame only (preview_animation.rs:93-137).
PartsAfter(part) ==
  CASE part = "info"  -> {"frame", "still"}
    [] part = "frame" -> {"frame", "still", "done"}
    [] part = "still" -> {"done"}

LoaderSends ==
  /\ loader # Unset /\ loader.sure
  /\ IF Len(frames) < Room
     THEN /\ frames' = Append(frames, [subject |-> loader.subject, fresh |-> loader.fresh,
                                       part |-> loader.part])
          /\ \E part \in PartsAfter(loader.part) :
               loader' = IF part = "done" THEN Unset
                         ELSE [loader EXCEPT !.part = part, !.sure = FALSE]
     ELSE loader' = [loader EXCEPT !.sure = FALSE] /\ UNCHANGED frames
  /\ UNCHANGED request /\ LoaderFrame

------------------------------------------------------------------------------
PreviewTimer == TimerAsks \/ TimerShows

Loader == LoaderTakes \/ LoaderChecks \/ LoaderSends

PreviewNext ==
  \/ \E s \in Subject \cup {NoSubject} : Prefer(s)
  \/ PauseOrPlay \/ PreviewTimer \/ Loader

PreviewSpec == PreviewInit /\ [][PreviewNext]_previewVars

\* The timer and the worker keep running, and every load ends.
PreviewFairness ==
  WF_previewVars(TimerAsks) /\ WF_previewVars(TimerShows) /\ WF_previewVars(Loader)

PreviewFairSpec == PreviewSpec /\ PreviewFairness

------------------------------------------------------------------------------
\* Properties.

Job == [subject: Subject, fresh: BOOLEAN]
Frame == [subject: Subject, fresh: BOOLEAN, part: {"info", "frame", "still"}]
Load == [subject: Subject, fresh: BOOLEAN, part: {"info", "frame", "still"}, sure: BOOLEAN]
Panel == [of: Subject \cup {NoSubject}, shows: {"nothing", "loading", "content"},
          info: Subject \cup {Unset}, content: Subject \cup {Unset}, moving: BOOLEAN]

PreviewTypeOK ==
  /\ subject \in Subject \cup {NoSubject} /\ lastKey \in Subject \cup {NoSubject, Unset}
  /\ panel \in Panel /\ paused \in BOOLEAN
  /\ request \in Job \cup {Unset} /\ loader \in Load \cup {Unset}
  /\ frames \in Seq(Frame) /\ Len(frames) <= Room

\* Picture and information are those of the file whose name is shown, however
\* the selection moves while older files are still being decoded and sent
\* (preview.rs:142-190).
PreviewIsOfItsFile ==
  panel.info \in {Unset, panel.of} /\ panel.content \in {Unset, panel.of}

\* The request that the panel waits for is on its way.
IsAccepted ==
  /\ ~KeyIsNew /\ panel.shows = "loading"
  /\ \/ request # Unset /\ request.fresh
     \/ loader # Unset /\ loader.fresh
     \/ \E i \in DOMAIN frames : frames[i].fresh

\* A request that the channel took is answered, unless another one supersedes
\* it: no full channel and no pause left from an animation keeps it waiting.
AcceptedIsShown == IsAccepted ~> (panel.shows # "loading" \/ KeyIsNew)

Waits(s) == subject = s /\ panel.shows # "content" /\ ~paused

\* Every file that stays selected is shown in the end: "One worker performs
\* filesystem reads and Windows Runtime decoding. Its pending queue is bounded
\* to one request; obsolete results are rejected" (docs/VIEW_AND_PREVIEW.md:63-65).
EveryPreviewEnds == \A s \in Subject : []<>~Waits(s)
==============================================================================
