------------------------------ MODULE MCLoguru ------------------------------
(***************************************************************************)
(* Two threads that log a line each, with every way stderr and the log     *)
(* file may be set.                                                        *)
(***************************************************************************)
EXTENDS Loguru

\* -v ERROR, or no -v.
MCVerbosities == {ERROR, INFO}
=============================================================================
