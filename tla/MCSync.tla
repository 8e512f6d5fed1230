------------------------------ MODULE MCSync ------------------------------
(* Instances of Sync for TLC.  Mixed: one device puts with If-Match and    *)
(* one without (config.cas is a setting of the device).                    *)
EXTENDS Sync, TLC

CONSTANTS d1, d2

TwoDevices == {d1, d2}
Mixed == (d1 :> TRUE) @@ (d2 :> FALSE)
Both == [d \in TwoDevices |-> TRUE]
Neither == [d \in TwoDevices |-> FALSE]
============================================================================
