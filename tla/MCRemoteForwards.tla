-------------------------- MODULE MCRemoteForwards --------------------------
(* An instance of RemoteForwards: two rules that pin one port, one that    *)
(* pins a port of its own, and two that let the server pick.               *)
EXTENDS RemoteForwards, TLC

CONSTANTS r1, r2, r3, r4, r5, p1, p2, p3, p4

Asked == (r1 :> p1) @@ (r2 :> p1) @@ (r3 :> p2) @@ (r4 :> AnyPort) @@ (r5 :> AnyPort)
=============================================================================
