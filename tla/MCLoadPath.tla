------------------------------ MODULE MCLoadPath ------------------------------
(* A small instance of the server, alone and with a test against it, for TLC. *)
EXTENDS LoadPath
===============================================================================
