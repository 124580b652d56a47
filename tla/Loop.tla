-------------------------------- MODULE Loop --------------------------------
(***************************************************************************)
(* A loop over the elements of a sequence, with what a turn makes of what  *)
(* the turns before it have left.  It is a fold from the left, written as  *)
(* a recursive function for LoopProofs to reason about.                    *)
(***************************************************************************)
EXTENDS Naturals, Sequences

CONSTANT Turn(_, _)

\* What each turn has left; number 0 is what there is before the first one.
Turns(begin, s) ==
  LET turns[n \in 0 .. Len(s)] == IF n = 0 THEN begin ELSE Turn(turns[n - 1], s[n])
  IN  turns

Result(begin, s) == Turns(begin, s)[Len(s)]
=============================================================================
