------------------------------- MODULE MCWindow -------------------------------
(***************************************************************************)
(* The parts of a window that share no state, checked together: `part`     *)
(* names the one that moves, the others stay in their first state.  Each   *)
(* part is the module of its own, with its own properties; the library has *)
(* two windows that share a file.  Fairness is that of each module, for    *)
(* the part that moves.                                                    *)
(***************************************************************************)
EXTENDS LibrarySave, Preview, Thumbnails, IconStore, Session

VARIABLE part

Parts == {"library", "preview", "thumbnails", "icons", "session"}

MCInit ==
  /\ part \in Parts
  /\ Init /\ PreviewInit /\ ThumbnailsInit /\ IconInit /\ SessionInit
  /\ part # "session" => sessionFile = 0

MCNext ==
  /\ UNCHANGED part
  /\ \/ part = "library" /\ Next
        /\ UNCHANGED <<previewVars, thumbnailVars, iconVars, sessionVars>>
     \/ part = "preview" /\ PreviewNext
        /\ UNCHANGED <<vars, thumbnailVars, iconVars, sessionVars>>
     \/ part = "thumbnails" /\ ThumbnailsNext
        /\ UNCHANGED <<vars, previewVars, iconVars, sessionVars>>
     \/ part = "icons" /\ IconNext
        /\ UNCHANGED <<vars, previewVars, thumbnailVars, sessionVars>>
     \/ part = "session" /\ SessionNext
        /\ UNCHANGED <<vars, previewVars, thumbnailVars, iconVars>>

MCVars == <<part, vars, previewVars, thumbnailVars, iconVars, sessionVars>>

MCFairness ==
  /\ \A w \in Window :
       /\ WF_vars(part = "library" /\ TimerRuns(w)) /\ WF_vars(part = "library" /\ Worker(w))
       /\ WF_vars(part = "library" /\ Flushes(w)) /\ WF_vars(part = "library" /\ Exits(w))
  /\ WF_previewVars(part = "preview" /\ TimerAsks)
  /\ WF_previewVars(part = "preview" /\ TimerShows)
  /\ WF_previewVars(part = "preview" /\ Loader)
  /\ WF_thumbnailVars(part = "thumbnails" /\ ThumbnailTimer)
  /\ WF_thumbnailVars(part = "thumbnails" /\ Painter)
  /\ WF_iconVars(part = "icons" /\ PumpIcons)
  /\ WF_iconVars(part = "icons" /\ Resolver)
  /\ WF_sessionVars(part = "session" /\ Rests)
  /\ WF_sessionVars(part = "session" /\ SessionTimer)
  /\ WF_sessionVars(part = "session" /\ Saver)

MCSpec == MCInit /\ [][MCNext]_MCVars /\ MCFairness
==============================================================================
