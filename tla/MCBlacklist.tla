----------------------------- MODULE MCBlacklist -----------------------------
(***************************************************************************)
(* Main and two workers, two addresses: two updates of one address and of  *)
(* two, beside a lookup.  Scores go from -2 to 2 around a threshold of -1, *)
(* the program's -15 made small: above, at and below it.                   *)
(***************************************************************************)
EXTENDS Blacklist

CONSTANTS w1, w2

MCWorkers == {w1, w2}

MCThreshold == -1
=============================================================================
