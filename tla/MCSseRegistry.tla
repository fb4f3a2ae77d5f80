---------------------------- MODULE MCSseRegistry ----------------------------
(* The instances of SseRegistry for TLC give its constants in their .cfg files. *)
EXTENDS SseRegistry
=============================================================================
