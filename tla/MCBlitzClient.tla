---------------------------- MODULE MCBlitzClient ----------------------------
(* Small instances of BlitzClient for TLC. *)
EXTENDS BlitzClient
=============================================================================
