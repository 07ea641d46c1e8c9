----------------------------- MODULE MCCollisions -----------------------------
EXTENDS Collisions, TLC
CONSTANTS pic, pic1, pic2

\* pic, pic (1), pic (2), of which the last two are numbered themselves.
MCNumbered == (pic :> <<pic1, pic2>>) @@ (pic1 :> <<pic2>>) @@ (pic2 :> <<>>)
==============================================================================
