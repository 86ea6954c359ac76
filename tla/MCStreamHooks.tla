----------------------------- MODULE MCStreamHooks -----------------------------
(* StreamHooks on a small instance, see the .cfg file. *)
EXTENDS StreamHooks
================================================================================
