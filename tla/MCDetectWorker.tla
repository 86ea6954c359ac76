---------------------------- MODULE MCDetectWorker ----------------------------
(* DetectWorker on small instances, see the .cfg files. *)
EXTENDS DetectWorker
================================================================================
