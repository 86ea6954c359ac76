---------------------------- MODULE MCProcessTask ----------------------------
(* ProcessTask on small instances, see the .cfg files. *)
EXTENDS ProcessTask
==============================================================================
