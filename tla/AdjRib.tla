------------------------------- MODULE AdjRib -------------------------------
(***************************************************************************)
(* What the prefix trie promises to store, without the trie: for every     *)
(* neighbouring peer, the origin AS of its latest announcement of each     *)
(* subnet, unless the peer has withdrawn it since.  README.md of the       *)
(* repository calls this "Peer Awareness": a WITHDRAWAL only eliminates    *)
(* the ANNOUNCEMENT of the same peer.                                      *)
(***************************************************************************)

CONSTANTS Peers,    (* the neighbouring peers                              *)
          Subnets,  (* the subnets a peer may announce                     *)
          Origins,  (* the origin ASes                                     *)
          NoRoute   (* a peer has no active announcement of a subnet       *)

VARIABLE rib  (* rib[p][n]: the origin peer p announces for subnet n       *)

TypeOK == rib \in [Peers -> [Subnets -> Origins \cup {NoRoute}]]

Init == rib = [p \in Peers |-> [n \in Subnets |-> NoRoute]]

Announce(p, n, o) == rib' = [rib EXCEPT ![p][n] = o]

Withdraw(p, n) == rib' = [rib EXCEPT ![p][n] = NoRoute]

Next == \E p \in Peers, n \in Subnets :
           \/ \E o \in Origins : Announce(p, n, o)
           \/ Withdraw(p, n)

Spec == Init /\ [][Next]_rib
=============================================================================
