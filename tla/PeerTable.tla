----------------------------- MODULE PeerTable ------------------------------
(***************************************************************************)
(* The neighbouring peers and their IDs (Peers.go).  A peer is looked up   *)
(* by its position in the table of a RIB or by its IP address, never by    *)
(* its ID, so peermapByID is left out.                                     *)
(***************************************************************************)
EXTENDS Naturals, Sequences

CONSTANTS IPs, PeerASes,  (* the addresses and ASes of peers               *)
          IdCount         (* the number of IDs: 2^16, as an ID is a uint16 *)

ASSUME PeersAssumption == IdCount \in Nat \ {0}

VARIABLES ourPeers,      (* the peers in the order in which they appeared  *)
          peermapByIP,   (* from IP addresses to peers                     *)
          highestPeerId  (* the number of peers that have been added       *)

peerVars == <<ourPeers, peermapByIP, highestPeerId>>

Peer == [id : 0..(IdCount - 1), ip : IPs, as : PeerASes]

Ids == 0..(IdCount - 1)

PeersInit ==
  /\ ourPeers = <<>>
  /\ peermapByIP = <<>>
  /\ highestPeerId = 0

(* Faulty variant: the ID is as wide as the counter.                       *)
WidePeer(n, p) == [id |-> n, ip |-> p.ip, as |-> p.as]

(* Faulty variant: the counter is incremented first.                       *)
NewPeerAfter(n, p) == [id |-> (n + 1) % IdCount, ip |-> p.ip, as |-> p.as]

(* The peer that gets the counter value n: its ID is uint16(n).            *)
NewPeer(n, p) == [id |-> n % IdCount, ip |-> p.ip, as |-> p.as]

(* Faulty variant: the peers are not put into the map.                     *)
InsertPeersUnmapped(table) ==
  /\ ourPeers' = [k \in 1..Len(table) |-> NewPeer(highestPeerId + k - 1, table[k])]
  /\ highestPeerId' = highestPeerId + Len(table)
  /\ UNCHANGED peermapByIP

(* insertPeers: the peers of a RIB, in its order.  Of two peers with the   *)
(* same address the map keeps the last one.                                *)
InsertPeers(table) ==
  LET addresses == {table[k].ip : k \in DOMAIN table}
      position(ip) == CHOOSE k \in DOMAIN table :
                        /\ table[k].ip = ip
                        /\ \A j \in DOMAIN table : table[j].ip = ip => j <= k
  IN  /\ ourPeers' = [k \in 1..Len(table) |-> NewPeer(highestPeerId + k - 1, table[k])]
      /\ peermapByIP' = [ip \in DOMAIN peermapByIP \cup addresses |->
                           IF ip \in addresses THEN ourPeers'[position(ip)]
                                               ELSE peermapByIP[ip]]
      /\ highestPeerId' = highestPeerId + Len(table)

AppendPeer(ip, as) ==
  LET p == NewPeer(highestPeerId, [ip |-> ip, as |-> as])
  IN  /\ ourPeers' = Append(ourPeers, p)
      /\ peermapByIP' = [i \in DOMAIN peermapByIP \cup {ip} |->
                           IF i = ip THEN p ELSE peermapByIP[i]]

(* Faulty variant: the new peer is not counted.                            *)
AddPeerUncounted(ip, as) == AppendPeer(ip, as) /\ UNCHANGED highestPeerId

AddPeer(ip, as) == AppendPeer(ip, as) /\ highestPeerId' = highestPeerId + 1

(* Faulty variant: a peer that comes with another AS is a new peer.        *)
FindByIPAndAS(ip, as) ==
  IF ip \in DOMAIN peermapByIP /\ peermapByIP[ip].as = as
  THEN UNCHANGED peerVars
  ELSE AddPeer(ip, as)

(* findPeerIDbyIP adds the peer when its address is new, whatever its AS;  *)
(* the ID it returns is then peermapByIP'[ip].id.                          *)
FindPeerIDbyIP(ip, as) ==
  IF ip \in DOMAIN peermapByIP THEN UNCHANGED peerVars ELSE AddPeer(ip, as)

-----------------------------------------------------------------------------
(* No ID has been given out twice yet.                                     *)
IdsFit == highestPeerId <= IdCount

(* No two addresses share an ID, up to the width of an ID.  Otherwise a    *)
(* peer would replace and withdraw the routes of another one.              *)
DistinctIDs ==
  IdsFit =>
    \A p, q \in DOMAIN peermapByIP :
      peermapByIP[p].id = peermapByIP[q].id => p = q

(* The index of a peer in the table is its ID, which the RIB relies on     *)
(* ("PeerIndex should already be equal to id", Routeviews.go:90).          *)
IndexIsId ==
  IdsFit => \A k \in DOMAIN ourPeers : ourPeers[k].id = k - 1
=============================================================================
