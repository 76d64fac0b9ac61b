----------------------------- MODULE Selection ------------------------------
(***************************************************************************)
(* What a loop over a sequence leaves when it keeps some of its elements:  *)
(* SelectSeq, written as a recursive function, so that it can be reasoned  *)
(* about.                                                                  *)
(***************************************************************************)
EXTENDS Integers, Sequences

\* The elements of s at the positions I, in order.
Picked(s, I) ==
  LET upTo[n \in 0 .. Len(s)] ==
        IF n = 0 THEN <<>>
        ELSE IF n \in I THEN Append(upTo[n - 1], s[n]) ELSE upTo[n - 1]
  IN  upTo[Len(s)]
=============================================================================
