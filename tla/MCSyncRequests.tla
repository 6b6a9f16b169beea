---------------------------- MODULE MCSyncRequests ----------------------------
(***************************************************************************)
(* Instances of SyncRequests for TLC.                                      *)
(***************************************************************************)
EXTENDS SyncRequests, TLC

CONSTANTS i1, i2, r1, r2, r3
=============================================================================
