---------------------------- MODULE MCASsummary -----------------------------
(* Instances of ASsummary for TLC.                                         *)
EXTENDS ASsummary, TLC

CONSTANTS as1, as2

TwoASes == {as1, as2}

Symmetry == Permutations(TwoASes)
=============================================================================
