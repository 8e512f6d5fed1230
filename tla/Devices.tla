------------------------------ MODULE Devices ------------------------------
(* What the two views of the sync (Sync: the protocol, SyncRounds: what    *)
(* the merge decides) have in common.                                      *)
CONSTANT Device   \* the devices that share the prefix
============================================================================
