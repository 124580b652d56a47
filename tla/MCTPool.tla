------------------------------ MODULE MCTPool ------------------------------
(***************************************************************************)
(* A pool of three workers and four connections: more connections than     *)
(* workers, so that jobs wait; more than one sleeper, so that notify_one   *)
(* has a choice.                                                           *)
(***************************************************************************)
EXTENDS TPool

CONSTANTS main, w1, w2, w3

MCWorkers == {w1, w2, w3}
MCThreads == MCWorkers \cup {main}
=============================================================================
