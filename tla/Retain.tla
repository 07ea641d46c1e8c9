-------------------------------- MODULE Retain --------------------------------
(***************************************************************************)
(* Vec::retain of the standard library: the elements of a list at some     *)
(* positions, in their order.  A recursive function instead of SelectSeq,  *)
(* so that module RetainProofs can say what it returns.                    *)
(***************************************************************************)
EXTENDS Naturals, Sequences

Retain(s, kept) ==
  LET upTo[i \in 0..Len(s)] ==
        IF i = 0 THEN <<>>
        ELSE IF i \in kept THEN Append(upTo[i - 1], s[i]) ELSE upTo[i - 1]
  IN  upTo[Len(s)]
==============================================================================
