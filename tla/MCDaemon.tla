------------------------------ MODULE MCDaemon ------------------------------
(***************************************************************************)
(* Small instances of Daemon: a chunk of three bytes, so that records of   *)
(* one and three bytes with their newlines fall on it in every way.        *)
(***************************************************************************)
EXTENDS Daemon
=============================================================================
