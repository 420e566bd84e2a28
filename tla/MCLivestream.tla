---------------------------- MODULE MCLivestream ----------------------------
(* Instances of Livestream for TLC.                                        *)
EXTENDS Livestream

CONSTANTS n1, n2, v6

IPv4Prefixes == {n1, n2}
IPv6Prefixes == {v6}

Ris(withdrawals, announcements, hasPath) ==
  [isUpdate |-> TRUE, withdrawals |-> withdrawals, announcements |-> announcements,
   hasPath |-> hasPath]

(* No update, an update that withdraws and announces the same prefix, one  *)
(* with IPv6 prefixes, and one whose announcements have no origin.         *)
SomeContents ==
  {Empty,
   Ris(<<n1>>, <<n2, n1>>, TRUE),
   Ris(<<>>, <<v6, n2>>, TRUE),
   Ris(<<v6, n2>>, <<n1>>, FALSE)}
=============================================================================
