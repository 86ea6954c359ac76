---------------------------- MODULE MCFinishPlaylist ----------------------------
(* FinishPlaylist on small instances, see the .cfg files. *)
EXTENDS FinishPlaylist
================================================================================
