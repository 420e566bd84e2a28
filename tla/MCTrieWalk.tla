----------------------------- MODULE MCTrieWalk -----------------------------
(* An instance of TrieWalk for TLC.                                        *)
EXTENDS TrieWalk

CONSTANTS p1, p2, p3, as1, as2

(* A subnet, which is a special prefix as well, and a more specific one.   *)
WalkSubnets == {<<0>>, <<0, 1>>}

WalkPrefixes == {<<0>>}

ThreePeers == {p1, p2, p3}
TwoOrigins == {as1, as2}

(* The comparisons read the trie alone, and what a step does to the trie   *)
(* depends on the trie and the phase alone.                                *)
TrieOnly == <<phase, trie>>

Symmetry == Permutations(ThreePeers) \cup Permutations(TwoOrigins)
=============================================================================
