---------------------------- MODULE MCSyncLosses ----------------------------
(* Instances of SyncManager with its history for TLC. *)
EXTENDS MCSyncManager, SyncLosses
=============================================================================
