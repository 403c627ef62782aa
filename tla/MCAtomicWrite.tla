---------------------------- MODULE MCAtomicWrite -----------------------------
(* Small instances of AtomicWrite for TLC. *)
EXTENDS AtomicWrite
===============================================================================
