-------------------------- MODULE MCHostKeyPrompts --------------------------
(* An instance of HostKeyPrompts for TLC: pairs of callers that meet, with *)
(* a jump host and a target whose keys are unknown at first.               *)
EXTENDS HostKeyPrompts, TLC

CONSTANTS tab, rule, pane, sshTest, rdpTest, d1, d2

Callers == {tab, rule, pane, sshTest, rdpTest}
Kinds == [c \in Callers |->
            CASE c = tab -> "tab" [] c = rule -> "rule" [] c = pane -> "pane"
              [] c = sshTest -> "sshTest" [] c = rdpTest -> "rdpTest"]
Through == {pane, rdpTest}
Pairs == {{tab, rule}, {rule, pane}, {rule, rdpTest}, {tab, sshTest}}
Hops == {1, 2}
Dials == {d1, d2}
Interchangeable == Permutations(Dials)
============================================================================
