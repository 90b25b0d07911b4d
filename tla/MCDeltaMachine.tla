--------------------------- MODULE MCDeltaMachine ---------------------------
(* Instances of DeltaMachine for TLC: a plain commit, one the parser       *)
(* refuses and one that cannot be embedded.                                *)
EXTENDS DeltaMachine

CONSTANTS plain, torn, hard

MCCommits == {plain, torn, hard}
MCTorn == {torn}
MCHard == {hard}
=============================================================================
