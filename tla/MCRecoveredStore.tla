-------------------------- MODULE MCRecoveredStore --------------------------
(* Two situations of a store for TLC.  Alone: the main window on a new     *)
(* profile, with edits of one key or of both, restarts, refusals and a     *)
(* torn file.  Beside: the main and the settings window on an existing     *)
(* file, editing one key, with attempts that run out; the two windows are  *)
(* interchangeable.                                                        *)
EXTENDS RecoveredStore, TLC

CONSTANTS main, settings, hosts, groups

TwoKeys == {hosts, groups}

Alone ==
  [window |-> {main}, touches |-> [w \in {main} |-> {{hosts}, {hosts, groups}}],
   attempts |-> 3, fresh |-> TRUE, edits |-> 4, faults |-> 2, closes |-> 3, tears |-> 1]

Beside(tries, asked) ==
  [window |-> {main, settings},
   touches |-> [w \in {main, settings} |-> {{hosts}}],
   attempts |-> tries, fresh |-> FALSE, edits |-> asked, faults |-> 0, closes |-> 0, tears |-> 0]

Situations == {Alone, Beside(2, 2), Beside(1, 3)}

Interchangeable == Permutations({main, settings})
============================================================================
