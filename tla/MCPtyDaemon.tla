----------------------------- MODULE MCPtyDaemon -----------------------------
(* Instances of PtyDaemon. *)
EXTENDS PtyDaemon

=============================================================================
