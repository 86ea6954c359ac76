----------------------------- MODULE MCAccidentApi -----------------------------
(* AccidentApi on a small instance, see the .cfg file. *)
EXTENDS AccidentApi
================================================================================
