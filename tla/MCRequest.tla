------------------------------ MODULE MCRequest ------------------------------
(***************************************************************************)
(* One connection and one resource of up to three bytes, so that a file    *)
(* takes more than one sendfile; it changes at most three times.           *)
(***************************************************************************)
EXTENDS Request
=============================================================================
