--------------------------- MODULE MCSyncRounds ---------------------------
(* Instances of SyncRounds for TLC.                                        *)
EXTENDS SyncRounds

OneStamp == {NoStamp, 1}
============================================================================
