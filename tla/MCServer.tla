------------------------------ MODULE MCServer ------------------------------
(***************************************************************************)
(* Four clients, three of one address, two workers and two sockets: an     *)
(* address gets below the threshold of 0 while others of it are queued or  *)
(* served, and clients wait for a socket to be closed.                     *)
(***************************************************************************)
EXTENDS Server

CONSTANTS c1, c2, c3, c4, a1, a2

MCConns == {c1, c2, c3, c4}
MCAddr == [c \in MCConns |-> IF c = c4 THEN a2 ELSE a1]
=============================================================================
