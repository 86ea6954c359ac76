------------------------------- MODULE MCShutdown -------------------------------
(* Shutdown on a small instance, see the .cfg files. *)
EXTENDS Shutdown
================================================================================
