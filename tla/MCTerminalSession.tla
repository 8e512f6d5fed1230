-------------------------- MODULE MCTerminalSession --------------------------
(* One pane, local or SSH, with the epoch it is in and one more: a spawn   *)
(* that was superseded, or the one that supersedes it.                     *)
EXTENDS TerminalSession

CONSTANTS o1, o2

TwoEpochs == {o1, o2}
=============================================================================
