---------------------------- MODULE MCPrefixTrie ----------------------------
(* Instances of PrefixTrie for TLC.                                        *)
EXTENDS PrefixTrie

CONSTANTS p1, p2, as1, as2

(* A subnet, one more specific subnet, and the default route.              *)
TwoLevels == {<<>>, <<0>>, <<0, 1>>}

(* Two more specific subnets below one less specific subnet.               *)
NestedSubnets == {<<0>>, <<0, 1>>, <<0, 1, 1>>}

(* Subnets inside and outside of the special prefixes below, and the       *)
(* default route.                                                          *)
MonitoredSubnets == {<<>>, <<0, 1>>, <<0, 1, 1>>}

NoPrefixes == {}

(* Special prefixes none of which contains another one.                    *)
DisjointPrefixes == {<<0, 1>>, <<1, 0>>}

(* Special prefixes of which one contains the other.                       *)
NestedPrefixes == {<<0>>, <<0, 1, 1>>}

TwoPeers   == {p1, p2}
TwoOrigins == {as1, as2}

(* No definition tells two peers or two origins apart.                     *)
Symmetry == Permutations(TwoPeers) \cup Permutations(TwoOrigins)
=============================================================================
