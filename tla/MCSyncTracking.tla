--------------------------- MODULE MCSyncTracking ---------------------------
(* Instances of SyncTracking for TLC.                                       *)
EXTENDS SyncTracking

CONSTANTS s1, s2

=============================================================================
