----------------------------- MODULE MCSshTunnel -----------------------------
(* A small instance of SshTunnel: one bastion that is dialled twice, and a  *)
(* target behind it whose forward is re-created while callers of its       *)
(* previous entry are still around.                                        *)
EXTENDS SshTunnel, TLC

CONSTANTS n1, y1, e1, e2, k1, k2, c1, c2

OneBastion == (e1 :> n1) @@ (e2 :> n1)
OneTarget == y1 :> n1
TwoClaims == (k1 :> y1) @@ (k2 :> y1)
=============================================================================
