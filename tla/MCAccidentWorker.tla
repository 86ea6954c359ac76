--------------------------- MODULE MCAccidentWorker ---------------------------
(* AccidentWorker on small instances, see the .cfg files. *)
EXTENDS AccidentWorker
================================================================================
