--------------------------- MODULE DetectorProofs ---------------------------
(***************************************************************************)
(* Proofs about the peer table and the routes of the sessions, for every   *)
(* directory, every feed, and all numbers of peers, IDs and octets.        *)
(***************************************************************************)
EXTENDS Detector, TLAPS, SequenceTheorems, WellFoundedInduction

(* As long as the counter fits, an ID is its counter value.                *)
LEMMA IdOfCounter ==
  ASSUME NEW n \in Nat
  PROVE  n % IdCount \in Ids /\ (n < IdCount => n % IdCount = n)
BY PeersAssumption DEF Ids

(* A set of positions has a last one.                                      *)
LEMMA LastPosition ==
  ASSUME NEW n \in Nat, NEW S \in SUBSET (1..n), S # {}
  PROVE  \E m \in S : \A j \in S : j <= m
<1> DEFINE Distances == {n - j : j \in S}
<1>1. Distances \subseteq Nat /\ Distances # {}
  <2>1. \A j \in S : j \in 1..n /\ n - j \in Nat
    OBVIOUS
  <2> QED
    BY <2>1
<1>2. PICK d \in Distances : \A e \in Distances : <<e, d>> \notin OpToRel(<, Nat)
  <2> HIDE DEF Distances
  <2> QED
    BY <1>1, NatLessThanWellFounded, WFMin
<1>3. \A e \in Distances : ~(e < d)
  BY <1>1, <1>2 DEF OpToRel
<1>4. PICK m \in S : d = n - m
  OBVIOUS
<1>5. \A j \in S : n - j \in Distances /\ j \in 1..n
  OBVIOUS
<1>6. ASSUME NEW j \in S
      PROVE  j <= m
  <2>1. ~(n - j < n - m)
    BY <1>3, <1>4, <1>5
  <2>2. j \in Nat /\ m \in Nat
    BY <1>5
  <2> QED
    BY <2>1, <2>2
<1> QED
  BY <1>6

LEMMA RecordTypes ==
  ASSUME NEW r \in Record(IPs, PeerASes)
  PROVE  /\ r.type = "table" => r.peers \in Seq([ip : IPs, as : PeerASes])
         /\ r.type = "rib" => /\ r.prefix \in IPNets
                              /\ r.entries \in Seq([index : Nat, attributes : Seq(Attribute)])
         /\ r.type = "update" => /\ r.ip \in IPs /\ r.as \in PeerASes
                                 /\ r.announced \in Seq(IPNets)
                                 /\ r.withdrawn \in Seq(IPNets)
                                 /\ r.attributes \in Seq(Attribute)
BY DEF Record

-----------------------------------------------------------------------------
(* The peer table.                                                         *)

(* The peers have the IDs of their positions, and the map leads from each  *)
(* address to one of them.                                                 *)
PeersInv ==
  /\ highestPeerId \in Nat
  /\ ourPeers \in Seq(Peer)
  /\ Len(ourPeers) = highestPeerId
  /\ \A k \in 1..highestPeerId : ourPeers[k].id = (k - 1) % IdCount
  /\ DOMAIN peermapByIP \subseteq IPs
  /\ \A ip \in DOMAIN peermapByIP :
       /\ peermapByIP[ip].ip = ip
       /\ \E k \in 1..highestPeerId : peermapByIP[ip] = ourPeers[k]

(* The table of a RIB comes before any other peer: it is read once, and    *)
(* the updates files come later.                                           *)
FilesInv ==
  /\ directory \in Directories
  /\ left \subseteq DOMAIN directory
  /\ records \in Seq(Record(IPs, PeerASes))
  /\ tables \in {0, 1}
  /\ pc = "rib" => rib \in FileName
  /\ pc \in {"start", "files", "openRib"} => tables = 0
  /\ pc \in {"start", "files", "openRib", "rib"} /\ tables = 0 => highestPeerId = 0

LEMMA InsertPeersKeepsPeersInv ==
  ASSUME PeersInv, highestPeerId = 0, NEW t \in Seq([ip : IPs, as : PeerASes]),
         InsertPeers(t)
  PROVE  /\ PeersInv' /\ highestPeerId' = Len(t)
         /\ \A k \in 1..Len(t) :
              \/ \E j \in 1..Len(t) : j > k /\ t[j].ip = t[k].ip
              \/ /\ t[k].ip \in DOMAIN peermapByIP'
                 /\ peermapByIP'[t[k].ip] = ourPeers'[k]
<1> DEFINE addresses == {t[k].ip : k \in DOMAIN t}
           at(ip) == {k \in DOMAIN t : t[k].ip = ip}
           position(ip) == CHOOSE k \in DOMAIN t :
                             /\ t[k].ip = ip
                             /\ \A j \in DOMAIN t : t[j].ip = ip => j <= k
<1>1. /\ DOMAIN t = 1..Len(t) /\ Len(t) \in Nat
      /\ \A k \in 1..Len(t) : t[k].ip \in IPs /\ t[k].as \in PeerASes
  <2>1. \A k \in 1..Len(t) : t[k] \in [ip : IPs, as : PeerASes]
    BY ElementOfSeq
  <2> QED
    BY <2>1, LenProperties
<1>2. highestPeerId' = Len(t)
  BY <1>1 DEF InsertPeers
<1>3. ourPeers' = [k \in 1..Len(t) |-> NewPeer(k - 1, t[k])]
  <2>1. \A k \in 1..Len(t) : highestPeerId + k - 1 = k - 1
    BY <1>1
  <2> QED
    BY <1>1, <2>1 DEF InsertPeers
<1>4. \A k \in 1..Len(t) : /\ NewPeer(k - 1, t[k]) \in Peer
                           /\ NewPeer(k - 1, t[k]).id = (k - 1) % IdCount
                           /\ NewPeer(k - 1, t[k]).ip = t[k].ip
  BY <1>1, IdOfCounter DEF NewPeer, Peer, Ids
<1>5. ourPeers' \in Seq(Peer) /\ Len(ourPeers') = Len(t)
  BY <1>1, <1>3, <1>4, IsASeq
<1>6. DOMAIN peermapByIP = {}
  <2>1. \A ip \in DOMAIN peermapByIP : \E k \in 1..0 : TRUE
    BY DEF PeersInv
  <2>2. 1..0 = {}
    OBVIOUS
  <2> QED
    BY <2>1, <2>2
<1>7. peermapByIP' = [ip \in addresses |-> ourPeers'[position(ip)]]
  BY <1>6 DEF InsertPeers
<1>8. ASSUME NEW ip \in addresses
      PROVE  /\ position(ip) \in 1..Len(t) /\ t[position(ip)].ip = ip
             /\ \A j \in 1..Len(t) : t[j].ip = ip => j <= position(ip)
  <2>1. at(ip) \in SUBSET (1..Len(t)) /\ at(ip) # {}
    BY <1>1
  <2>2. \E m \in at(ip) : \A j \in at(ip) : j <= m
    <3> HIDE DEF at
    <3> QED
      BY <1>1, <2>1, LastPosition
  <2> QED
    BY <1>1, <2>2
<1>9. addresses \subseteq IPs /\ \A k \in 1..Len(t) : t[k].ip \in addresses
  BY <1>1
<1> HIDE DEF addresses, position
<1>10. \A ip \in addresses : /\ peermapByIP'[ip].ip = ip
                             /\ \E k \in 1..Len(t) : peermapByIP'[ip] = ourPeers'[k]
  BY <1>3, <1>4, <1>7, <1>8
<1>11. ASSUME NEW k \in 1..Len(t), ~\E j \in 1..Len(t) : j > k /\ t[j].ip = t[k].ip
       PROVE  t[k].ip \in DOMAIN peermapByIP' /\ peermapByIP'[t[k].ip] = ourPeers'[k]
  <2>1. t[k].ip \in addresses
    BY <1>9
  <2>2. position(t[k].ip) \in 1..Len(t) /\ k <= position(t[k].ip)
    BY <1>8, <2>1
  <2>3. position(t[k].ip) = k
    BY <1>1, <1>8, <1>11, <2>1, <2>2
  <2> QED
    BY <1>7, <2>1, <2>3
<1>12. PeersInv'
  BY <1>1, <1>2, <1>3, <1>4, <1>5, <1>7, <1>9, <1>10 DEF PeersInv
<1> QED
  BY <1>2, <1>11, <1>12

LEMMA AddPeerKeepsPeersInv ==
  ASSUME PeersInv, NEW ip \in IPs, NEW as \in PeerASes, ip \notin DOMAIN peermapByIP,
         AddPeer(ip, as)
  PROVE  /\ PeersInv' /\ highestPeerId' = highestPeerId + 1
         /\ DOMAIN peermapByIP' = DOMAIN peermapByIP \cup {ip}
         /\ peermapByIP'[ip].id = highestPeerId % IdCount
         /\ \A i \in DOMAIN peermapByIP : peermapByIP'[i] = peermapByIP[i]
<1> DEFINE p == NewPeer(highestPeerId, [ip |-> ip, as |-> as])
<1>1. p \in Peer /\ p.id = highestPeerId % IdCount /\ p.ip = ip
  BY IdOfCounter DEF PeersInv, NewPeer, Peer, Ids
<1>2. /\ ourPeers' = Append(ourPeers, p)
      /\ peermapByIP' = [i \in DOMAIN peermapByIP \cup {ip} |->
                           IF i = ip THEN p ELSE peermapByIP[i]]
      /\ highestPeerId' = highestPeerId + 1
  BY DEF AddPeer, AppendPeer
<1> HIDE DEF p
<1>3. /\ ourPeers' \in Seq(Peer)
      /\ Len(ourPeers') = highestPeerId'
      /\ ourPeers'[highestPeerId + 1] = p
      /\ \A k \in 1..highestPeerId : ourPeers'[k] = ourPeers[k]
  BY <1>1, <1>2, AppendProperties DEF PeersInv
<1>4. \A k \in 1..highestPeerId' : ourPeers'[k].id = (k - 1) % IdCount
  <2> TAKE k \in 1..highestPeerId'
  <2>1. k \in 1..highestPeerId \/ k = highestPeerId + 1
    BY <1>2 DEF PeersInv
  <2>2. k = highestPeerId + 1 => k - 1 = highestPeerId
    BY DEF PeersInv
  <2> QED
    BY <1>1, <1>3, <2>1, <2>2 DEF PeersInv
<1>5. /\ \A i \in DOMAIN peermapByIP : peermapByIP'[i] = peermapByIP[i]
      /\ peermapByIP'[ip] = p
      /\ DOMAIN peermapByIP' = DOMAIN peermapByIP \cup {ip}
  BY <1>2
<1>6. ASSUME NEW i \in DOMAIN peermapByIP'
      PROVE  /\ peermapByIP'[i].ip = i
             /\ \E k \in 1..highestPeerId' : peermapByIP'[i] = ourPeers'[k]
  <2>1. highestPeerId + 1 \in 1..highestPeerId' /\ 1..highestPeerId \subseteq 1..highestPeerId'
    BY <1>2 DEF PeersInv
  <2>2. CASE i = ip
    BY <1>1, <1>3, <1>5, <2>1, <2>2
  <2>3. CASE i \in DOMAIN peermapByIP
    BY <1>3, <1>5, <2>1, <2>3 DEF PeersInv
  <2> QED
    BY <1>5, <2>2, <2>3
<1>7. highestPeerId' \in Nat /\ DOMAIN peermapByIP' \subseteq IPs
  BY <1>2, <1>5 DEF PeersInv
<1>8. PeersInv'
  BY <1>3, <1>4, <1>6, <1>7 DEF PeersInv
<1> QED
  BY <1>1, <1>2, <1>5, <1>8

LEMMA FindPeerKeepsPeersInv ==
  ASSUME PeersInv, NEW ip \in IPs, NEW as \in PeerASes, FindPeerIDbyIP(ip, as)
  PROVE  PeersInv'
<1>1. CASE ip \in DOMAIN peermapByIP
  BY <1>1 DEF FindPeerIDbyIP, peerVars, PeersInv
<1>2. CASE ip \notin DOMAIN peermapByIP
  BY <1>2, AddPeerKeepsPeersInv DEF FindPeerIDbyIP
<1> QED
  BY <1>1, <1>2

LEMMA InitInv == Init => PeersInv /\ FilesInv
<1> SUFFICES ASSUME Init
             PROVE  PeersInv /\ FilesInv
  OBVIOUS
<1>1. PeersInv
  <2>1. ourPeers = <<>> /\ peermapByIP = <<>> /\ highestPeerId = 0
    BY DEF Init, PeersInit
  <2>2. ourPeers \in Seq(Peer) /\ Len(ourPeers) = 0 /\ DOMAIN peermapByIP = {}
    BY <2>1, EmptySeq
  <2>3. 1..0 = {}
    OBVIOUS
  <2> QED
    BY <2>1, <2>2, <2>3 DEF PeersInv
<1>2. FilesInv
  BY EmptySeq DEF Init, FilesInit, PeersInit, FilesInv
<1> QED
  BY <1>1, <1>2

(* Records are taken off the front.                                        *)
LEMMA NextRecordTypes ==
  ASSUME FilesInv, NEW types, NextRecord(types)
  PROVE  /\ Head(records) \in Record(IPs, PeerASes)
         /\ records' \in Seq(Record(IPs, PeerASes))
BY HeadTailProperties DEF FilesInv, NextRecord

(* Steps that leave peers and files alone.                                 *)
LEMMA OtherStepsKeepInv ==
  ASSUME PeersInv, FilesInv, UNCHANGED <<peerVars, fileVars>>,
         \/ pc' = pc
         \/ pc = "start" /\ pc' = "files"
         \/ pc' \notin {"start", "files", "openRib", "rib"}
  PROVE  PeersInv' /\ FilesInv'
<1>1. PeersInv'
  BY DEF peerVars, PeersInv
<1>2. FilesInv'
  BY DEF peerVars, fileVars, FilesInv
<1> QED
  BY <1>1, <1>2

(* Steps that open a file or read on in it, but for the peer table.        *)
LEMMA FileStepsKeepInv ==
  ASSUME PeersInv, FilesInv, PeersInv', UNCHANGED <<directory, tables>>,
         left' \subseteq left,
         records' \in Seq(Record(IPs, PeerASes)),
         \/ pc \in {"rib", "file"} /\ pc' = pc /\ UNCHANGED <<peerVars, rib>>
         \/ pc' \notin {"start", "files", "openRib", "rib"}
  PROVE  FilesInv'
BY DEF FilesInv, peerVars

LEMMA MainStepsKeepInv ==
  ASSUME PeersInv, FilesInv, Initialize \/ InitializeFails \/ StartLive \/ EndMain
  PROVE  PeersInv' /\ FilesInv'
BY OtherStepsKeepInv
   DEF Initialize, InitializeFails, StartLive, EndMain, MainStep, GoTo

LEMMA InsertKeepsInv ==
  ASSUME PeersInv, FilesInv, Insert
  PROVE  PeersInv' /\ FilesInv'
<1>1. UNCHANGED <<peerVars, fileVars>> /\ (pc' = pc \/ pc' \in {"stopped", "panicked"})
  BY DEF Insert, InsertAnnouncement, InsertWithdrawal, Discard, StopTimeReached,
         MessagePanics, InsertStep
<1> QED
  BY <1>1, OtherStepsKeepInv

LEMMA ReadFilesKeepsInv ==
  ASSUME PeersInv, FilesInv, ReadFiles
  PROVE  PeersInv' /\ FilesInv'
<1>1. CASE SkipFiles \/ OpenRibFails \/ EndOfFile \/ EndOfFiles
  BY <1>1, OtherStepsKeepInv DEF SkipFiles, OpenRibFails, EndOfFile, EndOfFiles, GoTo
<1>2. CASE ChooseRib
  <2>1. PeersInv'
    BY <1>2 DEF ChooseRib, peerVars, PeersInv
  <2>2. pc' \in {"updates", "openRib"}
    BY <1>2 DEF ChooseRib, GoTo
  <2>3. FilesInv'
    BY <1>2, <2>2 DEF ChooseRib, GoTo, peerVars, FilesInv
  <2> QED
    BY <2>1, <2>3
<1>3. CASE OpenRib
  <2>1. rib \in FileName /\ directory[rib] \in Seq(Record(IPs, PeerASes))
    BY <1>3, FilesAssumption DEF OpenRib, FilesInv
  <2>2. PeersInv'
    BY <1>3 DEF OpenRib, peerVars, PeersInv
  <2>3. FilesInv'
    BY <1>3, <2>1 DEF OpenRib, GoTo, peerVars, FilesInv
  <2> QED
    BY <2>2, <2>3
<1>4. CASE ReadPeerTable
  <2>1. Head(records).peers \in Seq([ip : IPs, as : PeerASes])
    BY <1>4, NextRecordTypes, RecordTypes DEF ReadPeerTable, ReadRecord, NextRecord
  <2>2. highestPeerId = 0
    BY <1>4 DEF ReadPeerTable, GoTo, FilesInv
  <2>3. PeersInv'
    BY <1>4, <2>1, <2>2, InsertPeersKeepsPeersInv DEF ReadPeerTable
  <2>4. records' \in Seq(Record(IPs, PeerASes))
    BY <1>4, NextRecordTypes DEF ReadPeerTable, ReadRecord
  <2>5. FilesInv'
    BY <1>4, <2>4 DEF ReadPeerTable, GoTo, FilesInv
  <2> QED
    BY <2>3, <2>5
<1>5. CASE ReadRib \/ SkipRecord
  <2>1. records' \in Seq(Record(IPs, PeerASes))
    BY <1>5, NextRecordTypes DEF ReadRib, SkipRecord, ReadRecord
  <2>2. UNCHANGED <<peerVars, directory, rib, tables, left>> /\ pc \in {"rib", "file"} /\ pc' = pc
    BY <1>5 DEF ReadRib, SkipRecord, GoTo
  <2>3. PeersInv'
    BY <2>2 DEF peerVars, PeersInv
  <2> QED
    BY <2>1, <2>2, <2>3, FileStepsKeepInv
<1>6. CASE RibError \/ UpdatesError
  <2>1. records' \in Seq(Record(IPs, PeerASes))
    BY <1>6, NextRecordTypes DEF RibError, UpdatesError
  <2>2. UNCHANGED <<peerVars, directory, tables, left>> /\ pc' \in {"done", "updates"}
    BY <1>6 DEF RibError, UpdatesError, GoTo
  <2>3. PeersInv'
    BY <2>2 DEF peerVars, PeersInv
  <2> QED
    BY <2>1, <2>2, <2>3, FileStepsKeepInv
<1>7. CASE EndOfRib
  <2>1. rib.parts \in 1..3
    BY <1>7 DEF EndOfRib, GoTo, FilesInv, FileName
  <2>2. pc' \in {"done", "panicked", "updates"}
    BY <1>7, <2>1 DEF EndOfRib, GoTo
  <2> QED
    BY <1>7, <2>2, OtherStepsKeepInv DEF EndOfRib
<1>8. ASSUME NEW n \in left,
             SkipFile(n) \/ MisnamedFile(n) \/ OpenUpdates(n) \/ OpenUpdatesFails(n)
      PROVE  PeersInv' /\ FilesInv'
  <2>1. directory[n] \in Seq(Record(IPs, PeerASes))
    BY FilesAssumption DEF FilesInv
  <2>2. records' \in Seq(Record(IPs, PeerASes))
    BY <1>8, <2>1 DEF SkipFile, MisnamedFile, OpenUpdates, OpenUpdatesFails, FilesInv
  <2>3. /\ UNCHANGED <<peerVars, directory, tables>> /\ left' \subseteq left
        /\ pc' \in {"updates", "panicked", "file"}
    BY <1>8 DEF SkipFile, MisnamedFile, OpenUpdates, OpenUpdatesFails, NextFile, GoTo
  <2>4. PeersInv'
    BY <2>3 DEF peerVars, PeersInv
  <2> QED
    BY <2>2, <2>3, <2>4, FileStepsKeepInv
<1>9. CASE ReadUpdate
  <2> DEFINE u == Head(records)
  <2>1. u.ip \in IPs /\ u.as \in PeerASes
    BY <1>9, NextRecordTypes, RecordTypes DEF ReadUpdate, ReadRecord, NextRecord
  <2>2. PeersInv'
    BY <1>9, <2>1, FindPeerKeepsPeersInv DEF ReadUpdate
  <2>3. records' \in Seq(Record(IPs, PeerASes))
    BY <1>9, NextRecordTypes DEF ReadUpdate, ReadRecord
  <2>4. UNCHANGED <<directory, tables, left>> /\ pc' = "file"
    BY <1>9 DEF ReadUpdate, GoTo
  <2> QED
    BY <2>2, <2>3, <2>4, FileStepsKeepInv
<1> QED
  BY <1>1, <1>2, <1>3, <1>4, <1>5, <1>6, <1>7, <1>8, <1>9 DEF ReadFiles

LEMMA NextKeepsInv ==
  ASSUME PeersInv, FilesInv, [Next]_vars
  PROVE  PeersInv' /\ FilesInv'
<1>1. CASE Proceed
  BY <1>1, MainStepsKeepInv, ReadFilesKeepsInv, InsertKeepsInv DEF Proceed
<1>2. CASE ScanEndsEarly
  <2>1. /\ records' \in Seq(Record(IPs, PeerASes))
        /\ UNCHANGED <<peerVars, directory, rib, tables, left>>
        /\ pc \in {"rib", "file"} /\ pc' = pc
    BY <1>2, EmptySeq DEF ScanEndsEarly
  <2>2. PeersInv'
    BY <2>1 DEF peerVars, PeersInv
  <2> QED
    BY <2>1, <2>2, FileStepsKeepInv
<1>3. ASSUME NEW r \in RisMessages, Handle(r)
      PROVE  PeersInv' /\ FilesInv'
  <2>1. r.ip \in IPs /\ r.as \in PeerASes
    BY LiveAssumption DEF RisMessage
  <2>2. PeersInv'
    BY <1>3, <2>1, FindPeerKeepsPeersInv DEF Handle
  <2>3. FilesInv'
    BY <1>3 DEF Handle, GoTo, fileVars, FilesInv
  <2> QED
    BY <2>2, <2>3
<1>4. CASE UNCHANGED vars
  BY <1>4, OtherStepsKeepInv DEF vars
<1> QED
  BY <1>1, <1>2, <1>3, <1>4 DEF Next

(* The index of a peer in the table of the RIB is its ID (see IndexIsId).  *)
THEOREM IndexIsIdAlways == Spec => []IndexIsId
<1>1. PeersInv => IndexIsId
  <2> SUFFICES ASSUME PeersInv, IdsFit, NEW k \in DOMAIN ourPeers
               PROVE  ourPeers[k].id = k - 1
    BY DEF IndexIsId
  <2>1. k \in 1..highestPeerId /\ highestPeerId \in Nat
    BY LenProperties DEF PeersInv
  <2>2. k - 1 \in Nat /\ k - 1 < IdCount
    BY <2>1, PeersAssumption DEF IdsFit
  <2> QED
    BY <2>1, <2>2, IdOfCounter DEF PeersInv
<1> QED
  BY <1>1, InitInv, NextKeepsInv, PTL DEF Spec

LEMMA PeersHaveDistinctIDs == PeersInv => DistinctIDs
<1> SUFFICES ASSUME PeersInv, IdsFit,
                    NEW p \in DOMAIN peermapByIP, NEW q \in DOMAIN peermapByIP,
                    peermapByIP[p].id = peermapByIP[q].id
             PROVE  p = q
  BY DEF DistinctIDs
<1>1. PICK i \in 1..highestPeerId : peermapByIP[p] = ourPeers[i]
  BY DEF PeersInv
<1>2. PICK j \in 1..highestPeerId : peermapByIP[q] = ourPeers[j]
  BY DEF PeersInv
<1>3. /\ i - 1 \in Nat /\ i - 1 < IdCount
      /\ j - 1 \in Nat /\ j - 1 < IdCount
  BY PeersAssumption DEF PeersInv, IdsFit
<1>4. (i - 1) % IdCount = (j - 1) % IdCount
  BY <1>1, <1>2 DEF PeersInv
<1>5. i - 1 = j - 1
  BY <1>3, <1>4, IdOfCounter
<1>6. i = j
  BY <1>5
<1> QED
  BY <1>1, <1>2, <1>6 DEF PeersInv

(* Two addresses never share an ID (see DistinctIDs).                      *)
THEOREM DistinctIDsAlways == Spec => []DistinctIDs
BY PeersHaveDistinctIDs, InitInv, NextKeepsInv, PTL DEF Spec

-----------------------------------------------------------------------------
(* The types of the messages a record is turned into.                      *)

(* Messages of peers with IDs in ids, or a panic in place of one.          *)
MessagesOf(ids) ==
  [isIPv4 : BOOLEAN, net : Nets \cup {<<>>}, isAnnouncement : BOOLEAN,
   peerID : ids, origin : Origins] \cup {Panic}

LEMMA FirstNumber ==
  ASSUME NEW S \in SUBSET Nat, S # {}
  PROVE  \E m \in S : \A j \in S : m <= j
<1>1. PICK m \in S : \A j \in S : <<j, m>> \notin OpToRel(<, Nat)
  BY NatLessThanWellFounded, WFMin
<1>2. \A j \in S : ~(j < m)
  BY <1>1 DEF OpToRel
<1> QED
  BY <1>2

LEMMA LastElement ==
  ASSUME NEW S, NEW s \in Seq(S), s # <<>>
  PROVE  Last(s) \in S
<1>1. Len(s) \in 1..Len(s)
  BY LenProperties, EmptySeq
<1> QED
  BY <1>1, ElementOfSeq DEF Last

(* The best path is a first segment, if there is one that is not empty.    *)
LEMMA BestPathType ==
  ASSUME NEW attributes \in Seq(Attribute), NEW kind
  PROVE  /\ BestPath(attributes, kind) \in Seq(ASes)
         /\ \/ /\ BestPath(attributes, kind) = <<>>
               /\ \A k \in DOMAIN attributes :
                    attributes[k].kind = kind /\ attributes[k].segments # <<>> =>
                      attributes[k].segments[1] = <<>>
            \/ /\ BestPath(attributes, kind) # <<>>
               /\ \E k \in DOMAIN attributes :
                    /\ attributes[k].kind = kind
                    /\ attributes[k].segments # <<>>
                    /\ BestPath(attributes, kind) = attributes[k].segments[1]
<1> DEFINE usable    == {k \in DOMAIN attributes : /\ attributes[k].kind = kind
                                                  /\ attributes[k].segments # <<>>
                                                  /\ attributes[k].segments[1] # <<>>}
           length(k) == Len(attributes[k].segments[1])
           shortest  == {k \in usable : \A j \in usable : length(k) <= length(j)}
           lengths   == {length(k) : k \in usable}
<1>1. ASSUME NEW k \in usable
      PROVE  k \in Nat /\ attributes[k].segments[1] \in Seq(ASes) /\ length(k) \in Nat
  <2>1. k \in 1..Len(attributes) /\ k \in Nat
    BY LenProperties
  <2>2. attributes[k] \in Attribute
    BY <2>1, ElementOfSeq
  <2>3. attributes[k].segments \in Seq(Seq(ASes)) /\ attributes[k].segments # <<>>
    BY <2>2 DEF Attribute
  <2>4. 1 \in 1..Len(attributes[k].segments)
    BY <2>3, LenProperties, EmptySeq
  <2>5. attributes[k].segments[1] \in Seq(ASes)
    BY <2>3, <2>4, ElementOfSeq
  <2> QED
    BY <2>1, <2>5, LenProperties
<1>2. CASE usable = {}
  BY <1>2, EmptySeq DEF BestPath
<1>3. CASE usable # {}
  <2>1. lengths \in SUBSET Nat /\ lengths # {}
    BY <1>1, <1>3
  <2>2. \E m \in lengths : \A j \in lengths : m <= j
    <3> HIDE DEF lengths
    <3> QED
      BY <2>1, FirstNumber
  <2>3. shortest # {}
    <3>1. PICK k \in usable : \A j \in usable : length(k) <= length(j)
      BY <2>2
    <3> QED
      BY <3>1
  <2>4. shortest \in SUBSET Nat
    BY <1>1
  <2>5. \E m \in shortest : \A j \in shortest : m <= j
    <3> HIDE DEF shortest
    <3> QED
      BY <2>3, <2>4, FirstNumber
  <2>6. Min(shortest) \in shortest
    <3> HIDE DEF shortest
    <3> QED
      BY <2>5 DEF Min
  <2>7. Min(shortest) \in usable
    BY <2>6
  <2>8. BestPath(attributes, kind) = attributes[Min(shortest)].segments[1]
    BY <1>3 DEF BestPath
  <2> DEFINE k == Min(shortest)
  <2>9. /\ k \in DOMAIN attributes /\ attributes[k].kind = kind
        /\ attributes[k].segments # <<>> /\ attributes[k].segments[1] # <<>>
    <3> HIDE DEF k
    <3> QED
      BY <2>7 DEF k
  <2> HIDE DEF usable, shortest
  <2> QED
    BY <1>1, <2>7, <2>8, <2>9
<1> QED
  BY <1>2, <1>3

LEMMA SetASpathType ==
  ASSUME NEW attributes \in Seq(Attribute)
  PROVE  SetASpath(attributes) \in Origins \cup {Panic}
<1>1. /\ BestPath(attributes, "asPath") # <<>> => Last(BestPath(attributes, "asPath")) \in ASes
      /\ BestPath(attributes, "as4Path") # <<>> => Last(BestPath(attributes, "as4Path")) \in ASes
  BY BestPathType, LastElement
<1> QED
  BY <1>1 DEF SetASpath, Origins

LEMMA NewMessageType ==
  ASSUME NEW s \in IPNets, NEW isAnnouncement \in BOOLEAN, NEW ids, NEW id \in ids,
         NEW origin \in Origins
  PROVE  NewMessage(s, isAnnouncement, id, origin) \in MessagesOf(ids)
<1>1. Bits[s] \in Nets \cup {<<>>}
  BY DEF Bits, Nets
<1> QED
  BY <1>1 DEF NewMessage, MessagesOf

LEMMA AnnouncementsType ==
  ASSUME NEW prefixes \in Seq(IPNets), NEW ids, NEW id \in ids,
         NEW origin \in Origins \cup {Panic}
  PROVE  Announcements(prefixes, id, origin) \in Seq(MessagesOf(ids))
<1>1. DOMAIN prefixes = 1..Len(prefixes) /\ Len(prefixes) \in Nat
  BY LenProperties
<1>2. Panic \in MessagesOf(ids)
  BY DEF MessagesOf
<1> DEFINE m(k) == IF origin = Panic THEN Panic
                                     ELSE NewMessage(prefixes[k], TRUE, id, origin)
<1>3. \A k \in 1..Len(prefixes) : m(k) \in MessagesOf(ids)
  BY <1>2, ElementOfSeq, NewMessageType
<1>4. Announcements(prefixes, id, origin) = [k \in 1..Len(prefixes) |-> m(k)]
  BY <1>1 DEF Announcements
<1> HIDE DEF m
<1> QED
  BY <1>1, <1>3, <1>4, IsASeq

LEMMA WithdrawalsType ==
  ASSUME NEW prefixes \in Seq(IPNets), NEW ids, NEW id \in ids
  PROVE  Withdrawals(prefixes, id) \in Seq(MessagesOf(ids))
<1>1. DOMAIN prefixes = 1..Len(prefixes) /\ Len(prefixes) \in Nat
  BY LenProperties
<1>2. 0 \in Origins
  BY DEF Origins
<1> DEFINE m(k) == NewMessage(prefixes[k], FALSE, id, 0)
<1>3. \A k \in 1..Len(prefixes) : m(k) \in MessagesOf(ids)
  BY <1>2, ElementOfSeq, NewMessageType
<1>4. Withdrawals(prefixes, id) = [k \in 1..Len(prefixes) |-> m(k)]
  BY <1>1 DEF Withdrawals
<1> HIDE DEF m
<1> QED
  BY <1>1, <1>3, <1>4, IsASeq

LEMMA MessagesOfUpdateType ==
  ASSUME NEW u \in Record(IPs, PeerASes), u.type = "update", NEW ids, NEW id \in ids
  PROVE  MessagesOfUpdate(u, id) \in Seq(MessagesOf(ids))
BY RecordTypes, SetASpathType, AnnouncementsType, WithdrawalsType, ConcatProperties
   DEF MessagesOfUpdate

LEMMA OriginOfDigestedPathType ==
  ASSUME NEW path \in Seq(Seq(ASes) \cup {Undecodable})
  PROVE  /\ OriginOfDigestedPath(path) \in Origins
         /\ \/ /\ OriginOfDigestedPath(path) = 0
               /\ \A k \in DOMAIN path :
                    (\A j \in 1..k : path[j] # Undecodable) => path[k] = <<>>
            \/ /\ OriginOfDigestedPath(path) \in ASes
               /\ \E m \in DOMAIN path :
                    /\ \A j \in 1..m : path[j] # Undecodable
                    /\ path[m] \in Seq(ASes) /\ path[m] # <<>>
                    /\ OriginOfDigestedPath(path) = Last(path[m])
                    /\ \A k \in DOMAIN path :
                         k > m /\ (\A j \in 1..k : path[j] # Undecodable) => path[k] = <<>>
<1> DEFINE digested == {k \in DOMAIN path : \A j \in 1..k : path[j] # Undecodable}
           nonempty == {k \in digested : path[k] # <<>>}
<1>1. CASE nonempty = {}
  BY <1>1 DEF OriginOfDigestedPath, Origins
<1>2. CASE nonempty # {}
  <2>1. DOMAIN path = 1..Len(path) /\ Len(path) \in Nat
    BY LenProperties
  <2>2. nonempty \in SUBSET (1..Len(path))
    BY <2>1
  <2>3. \E m \in nonempty : \A j \in nonempty : j <= m
    <3> HIDE DEF nonempty
    <3> QED
      BY <1>2, <2>1, <2>2, LastPosition
  <2>4. Max(nonempty) \in nonempty
    <3>1. \E m \in nonempty : \A j \in nonempty : m >= j
      <4> HIDE DEF nonempty
      <4> QED
        BY <2>2, <2>3
    <3> HIDE DEF nonempty
    <3> QED
      BY <3>1 DEF Max
  <2>5. path[Max(nonempty)] \in Seq(ASes) /\ path[Max(nonempty)] # <<>>
    <3> DEFINE m == Max(nonempty)
    <3>1. m \in 1..Len(path) /\ m \in 1..m /\ m \in digested /\ path[m] # <<>>
      BY <2>1, <2>4
    <3> HIDE DEF m
    <3>2. path[m] # Undecodable
      BY <3>1
    <3>3. path[m] \in Seq(ASes) \cup {Undecodable}
      BY <3>1, ElementOfSeq
    <3> QED
      BY <3>1, <3>2, <3>3 DEF m
  <2>6. OriginOfDigestedPath(path) = Last(path[Max(nonempty)])
    BY <1>2 DEF OriginOfDigestedPath
  <2>7. \A k \in nonempty : k <= Max(nonempty)
    <3>1. \E m \in nonempty : \A j \in nonempty : m >= j
      <4> HIDE DEF nonempty
      <4> QED
        BY <2>2, <2>3
    <3>2. \A k \in nonempty : k \in Nat
      BY <2>1
    <3> HIDE DEF nonempty
    <3> QED
      BY <3>1, <3>2 DEF Max
  <2> DEFINE m == Max(nonempty)
  <2>8. /\ m \in 1..Len(path) /\ \A j \in 1..m : path[j] # Undecodable
        /\ \A k \in DOMAIN path :
             k > m /\ (\A j \in 1..k : path[j] # Undecodable) => path[k] = <<>>
    <3>1. m \in nonempty /\ \A k \in nonempty : k <= m
      BY <2>4, <2>7
    <3> HIDE DEF m
    <3> QED
      BY <2>1, <3>1
  <2>9. OriginOfDigestedPath(path) \in ASes
    BY <2>5, <2>6, LastElement
  <2> HIDE DEF nonempty
  <2> QED
    BY <2>1, <2>5, <2>6, <2>8, <2>9 DEF Origins
<1> QED
  BY <1>1, <1>2

LEMMA MessagesOfRisType ==
  ASSUME NEW r \in RisMessages, NEW ids, NEW id \in ids
  PROVE  MessagesOfRis(r, id) \in Seq(MessagesOf(ids))
<1>1. /\ r.withdrawals \in Seq(IPNets)
      /\ r.announcements \in Seq(Seq(IPNets))
      /\ r.path \in Seq(Seq(ASes) \cup {Undecodable})
  BY LiveAssumption DEF RisMessage
<1> DEFINE origin == OriginOfDigestedPath(r.path)
           announced == IF r.announcements = <<>> \/ origin = 0 THEN <<>>
                        ELSE Announcements(r.announcements[1], id, origin)
<1>2. origin \in Origins
  BY <1>1, OriginOfDigestedPathType
<1>3. announced \in Seq(MessagesOf(ids))
  <2>1. CASE r.announcements = <<>> \/ origin = 0
    BY <2>1, EmptySeq
  <2>2. CASE r.announcements # <<>> /\ origin # 0
    <3>1. 1 \in 1..Len(r.announcements)
      BY <1>1, <2>2, LenProperties, EmptySeq
    <3>2. r.announcements[1] \in Seq(IPNets)
      BY <1>1, <3>1, ElementOfSeq
    <3> QED
      BY <1>2, <2>2, <3>2, AnnouncementsType
  <2> QED
    BY <2>1, <2>2
<1>4. Withdrawals(r.withdrawals, id) \in Seq(MessagesOf(ids))
  BY <1>1, WithdrawalsType
<1>5. \/ MessagesOfRis(r, id) = Withdrawals(r.withdrawals, id) \o announced
      \/ MessagesOfRis(r, id) = <<Panic>>
  BY DEF MessagesOfRis
<1>6. <<Panic>> \in Seq(MessagesOf(ids))
  BY DEF MessagesOf
<1> HIDE DEF announced
<1> QED
  BY <1>3, <1>4, <1>5, <1>6, ConcatProperties

-----------------------------------------------------------------------------
(* The routes in the trie.                                                 *)

(* The IDs that have been given out.                                       *)
KnownIds == IF IdsFit THEN {id \in Ids : id < highestPeerId} ELSE Ids

(* Routes, and messages that are still to be inserted, are of known peers. *)
RoutesInv ==
  /\ Trie!TypeOK
  /\ todo \in Seq(MessagesOf(KnownIds))
  /\ \A id \in Ids, n \in Nets : table[id][n] # NoRoute => id \in KnownIds

(* The IDs of the peers in the table and in the map are known.             *)
PeersKnown ==
  /\ \A k \in 1..highestPeerId : ourPeers[k].id \in KnownIds
  /\ \A ip \in DOMAIN peermapByIP : peermapByIP[ip].id \in KnownIds

LEMMA IdsOfPeers == PeersInv => PeersKnown
<1> SUFFICES ASSUME PeersInv
             PROVE  PeersKnown
  OBVIOUS
<1>1. ASSUME NEW k \in 1..highestPeerId
      PROVE  ourPeers[k].id \in KnownIds
  <2>1. k - 1 \in Nat /\ k - 1 < highestPeerId /\ highestPeerId \in Nat
    BY DEF PeersInv
  <2>2. ourPeers[k].id = (k - 1) % IdCount /\ (k - 1) % IdCount \in Ids
    BY <2>1, IdOfCounter DEF PeersInv
  <2>3. IdsFit => (k - 1) % IdCount = k - 1
    BY <2>1, IdOfCounter, PeersAssumption DEF IdsFit
  <2> QED
    BY <2>1, <2>2, <2>3 DEF KnownIds
<1>2. ASSUME NEW ip \in DOMAIN peermapByIP
      PROVE  peermapByIP[ip].id \in KnownIds
  BY <1>1 DEF PeersInv
<1> QED
  BY <1>1, <1>2 DEF PeersKnown

(* The k-th message of a RIB record has the origin of its entry, or of an  *)
(* earlier one if the entry sets none.                                     *)
LEMMA RibAt ==
  ASSUME PeersInv, NEW r \in Record(IPs, PeerASes), r.type = "rib",
         NEW k \in 1..Len(r.entries)
  PROVE  LET m == MessagesOfRib(r, ourPeers)[k]
             setter(j) == SetASpath(r.entries[j].attributes)
             place == r.entries[k].index + 1
         IN  \/ m = Panic
             \/ /\ place \in 1..highestPeerId
                /\ \E j \in 1..k : /\ setter(j) \in Origins
                                   /\ setter(k) # 0 => j = k
                                   /\ m = NewMessage(r.prefix, TRUE, ourPeers[place].id, setter(j))
<1> DEFINE setter(j) == SetASpath(r.entries[j].attributes)
           setters == {j \in 1..k : setter(j) # 0}
           origin == IF setters = {} THEN 0 ELSE setter(Max(setters))
           index == r.entries[k].index
           m == IF index >= Len(ourPeers) \/ origin = Panic
                THEN Panic
                ELSE NewMessage(r.prefix, TRUE, ourPeers[index + 1].id, origin)
<1>1. DOMAIN r.entries = 1..Len(r.entries) /\ Len(r.entries) \in Nat
  BY RecordTypes, LenProperties
<1>2. ASSUME NEW j \in 1..Len(r.entries)
      PROVE  r.entries[j].index \in Nat /\ setter(j) \in Origins \cup {Panic}
  <2>1. r.entries[j] \in [index : Nat, attributes : Seq(Attribute)]
    BY RecordTypes, ElementOfSeq
  <2> QED
    BY <2>1, SetASpathType
<1>3. MessagesOfRib(r, ourPeers)[k] = m
  BY <1>1 DEF MessagesOfRib
<1>4. \E j \in 1..k : origin = setter(j) /\ (setter(k) # 0 => j = k)
  <2>1. k \in Nat /\ k \in 1..k /\ setters \in SUBSET (1..k)
    BY <1>1
  <2>2. CASE setters = {}
    BY <2>1, <2>2
  <2>3. CASE setters # {}
    <3>1. PICK x \in setters : \A j \in setters : j <= x
      <4> HIDE DEF setters
      <4> QED
        BY <2>1, <2>3, LastPosition
    <3>2. Max(setters) \in setters /\ \A j \in setters : j <= Max(setters)
      <4>1. \E y \in setters : \A j \in setters : y >= j
        <5>1. \A j \in setters : x >= j
          <6> HIDE DEF setters
          <6> QED
            BY <2>1, <3>1
        <5> HIDE DEF setters
        <5> QED
          BY <5>1
      <4> HIDE DEF setters
      <4>2. Max(setters) \in setters /\ \A j \in setters : Max(setters) >= j
        BY <4>1 DEF Max
      <4> QED
        BY <2>1, <4>2
    <3>3. setter(k) # 0 => Max(setters) = k
      <4> SUFFICES ASSUME setter(k) # 0
                   PROVE  Max(setters) = k
        OBVIOUS
      <4>1. k \in setters /\ Max(setters) \in 1..k
        BY <2>1, <3>2
      <4>2. k <= Max(setters)
        BY <3>2, <4>1
      <4> HIDE DEF setters
      <4> QED
        BY <2>1, <4>1, <4>2
    <3>4. origin = setter(Max(setters)) /\ Max(setters) \in 1..k
      BY <2>3, <3>2
    <3> HIDE DEF setters, origin, setter
    <3> QED
      BY <3>3, <3>4
  <2> QED
    BY <2>2, <2>3
<1>5. PICK j \in 1..k : origin = setter(j) /\ (setter(k) # 0 => j = k)
  BY <1>4
<1>6. j \in 1..Len(r.entries) /\ index \in Nat
  BY <1>1, <1>2
<1> HIDE DEF origin
<1>7. CASE index >= Len(ourPeers) \/ origin = Panic
  BY <1>3, <1>7
<1>8. CASE ~(index >= Len(ourPeers) \/ origin = Panic)
  <2>1. index + 1 \in 1..highestPeerId
    BY <1>6, <1>8 DEF PeersInv
  <2>2. setter(j) \in Origins
    BY <1>2, <1>5, <1>6, <1>8
  <2>3. m = NewMessage(r.prefix, TRUE, ourPeers[index + 1].id, setter(j))
    BY <1>5, <1>8
  <2> QED
    BY <1>3, <1>5, <2>1, <2>2, <2>3
<1> QED
  BY <1>7, <1>8

LEMMA MessagesOfRibType ==
  ASSUME PeersInv, NEW r \in Record(IPs, PeerASes), r.type = "rib"
  PROVE  MessagesOfRib(r, ourPeers) \in Seq(MessagesOf(KnownIds))
<1> DEFINE q == MessagesOfRib(r, ourPeers)
<1>1. r.prefix \in IPNets /\ DOMAIN r.entries = 1..Len(r.entries) /\ Len(r.entries) \in Nat
  BY RecordTypes, LenProperties
<1>2. q = [k \in 1..Len(r.entries) |-> q[k]]
  BY <1>1 DEF MessagesOfRib
<1>3. ASSUME NEW k \in 1..Len(r.entries)
      PROVE  q[k] \in MessagesOf(KnownIds)
  <2>1. CASE q[k] = Panic
    BY <2>1 DEF MessagesOf
  <2>2. CASE q[k] # Panic
    <3>1. PICK place \in 1..highestPeerId, o \in Origins :
            q[k] = NewMessage(r.prefix, TRUE, ourPeers[place].id, o)
      BY <2>2, RibAt
    <3>2. ourPeers[place].id \in KnownIds
      BY IdsOfPeers DEF PeersKnown
    <3> QED
      BY <1>1, <3>1, <3>2, NewMessageType
  <2> QED
    BY <2>1, <2>2
<1> HIDE DEF q
<1>4. q \in Seq(MessagesOf(KnownIds))
  BY <1>1, <1>2, <1>3, IsASeq
<1> QED
  BY <1>4 DEF q

LEMMA InitRoutesInv == Init => RoutesInv
<1> SUFFICES ASSUME Init
             PROVE  RoutesInv
  OBVIOUS
<1>1. table = [p \in Ids |-> [n \in Nets |-> NoRoute]]
  BY DEF Init, FilesInit, Trie!Init
<1>2. Trie!TypeOK
  BY <1>1 DEF Trie!TypeOK
<1>3. \A id \in Ids, n \in Nets : table[id][n] = NoRoute
  BY <1>1
<1>4. todo \in Seq(MessagesOf(KnownIds))
  BY EmptySeq DEF Init, FilesInit
<1> QED
  BY <1>2, <1>3, <1>4 DEF RoutesInv

(* What a change of the peers means for their routes: once the IDs have    *)
(* run out nothing is claimed, and until then all old IDs stay known, and  *)
(* no address gets an ID, or another one, that has routes.                 *)
LEMMA FindPeerKeepsRoutes ==
  ASSUME PeersInv, RoutesInv, NEW ip \in IPs, NEW as \in PeerASes,
         FindPeerIDbyIP(ip, as), UNCHANGED table
  PROVE  /\ KnownIds \subseteq KnownIds'
         /\ peermapByIP'[ip].id \in KnownIds'
         /\ IdsFit' => UNCHANGED SessionRoutes
<1>1. CASE ip \in DOMAIN peermapByIP
  <2>1. UNCHANGED <<peerVars, table>>
    BY <1>1 DEF FindPeerIDbyIP
  <2> QED
    BY <1>1, <2>1, IdsOfPeers DEF PeersKnown, KnownIds, IdsFit, SessionRoutes, peerVars
<1>2. CASE ip \notin DOMAIN peermapByIP
  <2>1. /\ PeersInv' /\ highestPeerId' = highestPeerId + 1
        /\ DOMAIN peermapByIP' = DOMAIN peermapByIP \cup {ip}
        /\ peermapByIP'[ip].id = highestPeerId % IdCount
        /\ \A i \in DOMAIN peermapByIP : peermapByIP'[i] = peermapByIP[i]
    BY <1>2, AddPeerKeepsPeersInv DEF FindPeerIDbyIP
  <2>2. highestPeerId \in Nat
    BY DEF PeersInv
  <2>3. KnownIds \subseteq KnownIds'
    BY <2>1, <2>2, PeersAssumption DEF KnownIds, IdsFit, Ids
  <2>4. PeersInv' => PeersKnown'
    BY IdsOfPeers, PTL
  <2>5. ASSUME IdsFit'
        PROVE  SessionRoutes' = SessionRoutes
    <3> DEFINE id == highestPeerId % IdCount
    <3>1. highestPeerId < IdCount /\ IdsFit
      BY <2>1, <2>2, <2>5, PeersAssumption DEF IdsFit
    <3>2. id = highestPeerId /\ id \in Ids
      BY <2>2, <3>1, IdOfCounter
    <3>3. id \notin KnownIds
      BY <2>2, <3>1, <3>2 DEF KnownIds
    <3>4. table[id] \in [Nets -> Origins \cup {NoRoute}]
      BY <3>2 DEF RoutesInv, Trie!TypeOK
    <3>5. \A n \in Nets : table[id][n] = NoRoute
      BY <3>2, <3>3 DEF RoutesInv
    <3>6. table[id] = [n \in Nets |-> NoRoute]
      BY <3>4, <3>5
    <3>7. ASSUME NEW i \in IPs
          PROVE  SessionRoutes'[i] = SessionRoutes[i]
      <4> DEFINE none == [n \in Nets |-> NoRoute]
      <4>1. /\ SessionRoutes[i] = IF i \in DOMAIN peermapByIP THEN table[peermapByIP[i].id]
                                                              ELSE none
            /\ SessionRoutes'[i] = IF i \in DOMAIN peermapByIP' THEN table[peermapByIP'[i].id]
                                                                ELSE none
        BY DEF SessionRoutes
      <4>2. table[id] = none /\ peermapByIP'[ip].id = id
        BY <2>1, <3>6
      <4> HIDE DEF none, id
      <4>3. CASE i = ip
        BY <1>2, <2>1, <4>1, <4>2, <4>3
      <4>4. CASE i # ip
        BY <2>1, <4>1, <4>4
      <4> QED
        BY <4>3, <4>4
    <3> HIDE DEF id
    <3> QED
      BY <3>7 DEF SessionRoutes
  <2> QED
    BY <2>1, <2>3, <2>4, <2>5 DEF PeersKnown
<1> QED
  BY <1>1, <1>2 DEF FindPeerIDbyIP

LEMMA InsertPeersKeepsRoutes ==
  ASSUME PeersInv, RoutesInv, highestPeerId = 0,
         NEW t \in Seq([ip : IPs, as : PeerASes]), InsertPeers(t), UNCHANGED table
  PROVE  /\ KnownIds \subseteq KnownIds'
         /\ UNCHANGED SessionRoutes
<1>1. PeersInv' /\ highestPeerId' \in Nat
  BY InsertPeersKeepsPeersInv DEF PeersInv
<1>2. KnownIds = {}
  BY PeersAssumption DEF KnownIds, IdsFit, Ids
<1>3. ASSUME NEW id \in Ids
      PROVE  table[id] = [n \in Nets |-> NoRoute]
  <2>1. table[id] \in [Nets -> Origins \cup {NoRoute}]
    BY DEF RoutesInv, Trie!TypeOK
  <2>2. \A n \in Nets : table[id][n] = NoRoute
    BY <1>2 DEF RoutesInv
  <2> QED
    BY <2>1, <2>2
<1>4. PeersInv' => PeersKnown'
  BY IdsOfPeers, PTL
<1>5. \A ip \in DOMAIN peermapByIP : peermapByIP[ip].id \in Ids
  BY IdsOfPeers DEF PeersKnown, KnownIds
<1>6. \A ip \in DOMAIN peermapByIP' : peermapByIP'[ip].id \in Ids
  BY <1>1, <1>4 DEF PeersKnown, KnownIds, Ids
<1>7. ASSUME NEW ip \in IPs
      PROVE  /\ SessionRoutes[ip] = [n \in Nets |-> NoRoute]
             /\ SessionRoutes'[ip] = [n \in Nets |-> NoRoute]
  <2> DEFINE none == [n \in Nets |-> NoRoute]
  <2>1. /\ SessionRoutes[ip] = IF ip \in DOMAIN peermapByIP THEN table[peermapByIP[ip].id]
                                                            ELSE none
        /\ SessionRoutes'[ip] = IF ip \in DOMAIN peermapByIP' THEN table[peermapByIP'[ip].id]
                                                              ELSE none
    BY DEF SessionRoutes
  <2> HIDE DEF none
  <2>2. \A id \in Ids : table[id] = none
    BY <1>3 DEF none
  <2>3. SessionRoutes[ip] = none /\ SessionRoutes'[ip] = none
    BY <1>5, <1>6, <2>1, <2>2
  <2> QED
    BY <2>3 DEF none
<1>8. SessionRoutes' = SessionRoutes
  BY <1>7 DEF SessionRoutes
<1> QED
  BY <1>2, <1>8

-----------------------------------------------------------------------------
(* The routes of the sessions.                                             *)

(* Every step changes one route of one session at most.                    *)
SessionStep == IdsFit' => UNCHANGED SessionRoutes \/ Sessions!Next

(* The route of subnet n changes in one session at most.                   *)
OneRouteChanged(n, route) ==
  UNCHANGED SessionRoutes \/ \E ip \in IPs : Sessions!Announce(ip, n, route)

(* A change in the trie is one of at most one session, as IDs are distinct.*)
LEMMA ChangeOfOneRoute ==
  ASSUME PeersInv, Trie!TypeOK, UNCHANGED peerVars,
         NEW id \in Ids, NEW n \in Nets, NEW route \in Origins \cup {NoRoute},
         Trie!Announce(id, n, route)
  PROVE  /\ Trie!TypeOK'
         /\ IdsFit' => OneRouteChanged(n, route)
<1>1. Trie!TypeOK'
  BY DEF Trie!TypeOK, Trie!Announce
<1>2. UNCHANGED <<peermapByIP, highestPeerId>>
  BY DEF peerVars
<1>3. /\ \A ip \in DOMAIN peermapByIP : peermapByIP[ip].id \in Ids
      /\ DOMAIN peermapByIP \subseteq IPs
  BY IdsOfPeers DEF PeersKnown, KnownIds, PeersInv
<1> DEFINE none == [m \in Nets |-> NoRoute]
<1>4. \A ip \in IPs :
        /\ SessionRoutes[ip] = IF ip \in DOMAIN peermapByIP THEN table[peermapByIP[ip].id]
                                                            ELSE none
        /\ SessionRoutes'[ip] = IF ip \in DOMAIN peermapByIP THEN table'[peermapByIP[ip].id]
                                                             ELSE none
  BY <1>2 DEF SessionRoutes
<1> HIDE DEF none
<1>5. /\ table'[id] = [table[id] EXCEPT ![n] = route]
      /\ \A i \in Ids : i # id => table'[i] = table[i]
  BY DEF Trie!TypeOK, Trie!Announce
<1>6. DOMAIN SessionRoutes = IPs /\ DOMAIN SessionRoutes' = IPs
  BY DEF SessionRoutes
<1>7. CASE \A ip \in DOMAIN peermapByIP : peermapByIP[ip].id # id
  <2>1. \A ip \in IPs : SessionRoutes'[ip] = SessionRoutes[ip]
    BY <1>3, <1>4, <1>5, <1>7
  <2>2. SessionRoutes' = SessionRoutes
    BY <2>1 DEF SessionRoutes
  <2> QED
    BY <1>1, <2>2 DEF OneRouteChanged
<1>8. ASSUME IdsFit', NEW ip \in DOMAIN peermapByIP, peermapByIP[ip].id = id
      PROVE  ip \in IPs /\ SessionRoutes' = [SessionRoutes EXCEPT ![ip][n] = route]
  <2>1. IdsFit
    BY <1>2, <1>8 DEF IdsFit
  <2>2. \A i \in DOMAIN peermapByIP : i # ip => peermapByIP[i].id # id
    BY <1>8, <2>1, PeersHaveDistinctIDs DEF DistinctIDs
  <2>3. ip \in IPs
    BY <1>3
  <2>4. SessionRoutes'[ip] = [SessionRoutes[ip] EXCEPT ![n] = route]
    BY <1>4, <1>5, <1>8, <2>3
  <2>5. \A i \in IPs : i # ip => SessionRoutes'[i] = SessionRoutes[i]
    BY <1>3, <1>4, <1>5, <2>2
  <2>6. DOMAIN SessionRoutes = IPs /\ SessionRoutes = [i \in IPs |-> SessionRoutes[i]]
        /\ SessionRoutes' = [i \in IPs |-> SessionRoutes'[i]]
    BY <1>2 DEF SessionRoutes
  <2> QED
    BY <2>3, <2>4, <2>5, <2>6
<1> QED
  BY <1>1, <1>3, <1>7, <1>8 DEF OneRouteChanged, Sessions!Announce

LEMMA InsertIsSessionStep ==
  ASSUME PeersInv, RoutesInv, Insert
  PROVE  RoutesInv' /\ SessionStep
<1>1. UNCHANGED peerVars
  BY DEF Insert, InsertAnnouncement, InsertWithdrawal, Discard, StopTimeReached,
         MessagePanics, InsertStep
<1>2. UNCHANGED <<KnownIds, IdsFit>>
  BY <1>1 DEF peerVars, KnownIds, IdsFit
<1>3. CASE UNCHANGED table /\ todo' = <<>>
  <2>1. RoutesInv'
    BY <1>2, <1>3, EmptySeq DEF RoutesInv, Trie!TypeOK
  <2>2. UNCHANGED SessionRoutes
    BY <1>1, <1>3 DEF peerVars, SessionRoutes
  <2> QED
    BY <2>1, <2>2 DEF SessionStep
<1>4. CASE InsertStep
  <2> DEFINE m == Head(todo)
  <2>1. m \in MessagesOf(KnownIds) \ {Panic} /\ todo' \in Seq(MessagesOf(KnownIds))
    BY <1>4, HeadTailProperties DEF InsertStep, RoutesInv
  <2>2. /\ m.peerID \in KnownIds /\ m.peerID \in Ids
        /\ m.net \in Nets \cup {<<>>} /\ m.origin \in Origins
    BY <2>1 DEF MessagesOf, KnownIds
  <2> HIDE DEF m
  <2>3. ASSUME NEW id \in KnownIds, NEW n \in Nets, NEW route \in Origins \cup {NoRoute},
               Trie!Announce(id, n, route)
        PROVE  RoutesInv' /\ (IdsFit' => OneRouteChanged(n, route))
    <3>1. Trie!TypeOK /\ id \in Ids
      BY DEF RoutesInv, KnownIds
    <3>2. \A i \in Ids, k \in Nets : table'[i][k] # NoRoute => i \in KnownIds
      BY <2>3, <3>1 DEF RoutesInv, Trie!TypeOK, Trie!Announce
    <3>3. Trie!TypeOK' /\ (IdsFit' => OneRouteChanged(n, route))
      BY <1>1, <2>3, <3>1, ChangeOfOneRoute
    <3>4. RoutesInv'
      BY <1>2, <2>1, <3>2, <3>3 DEF RoutesInv
    <3> QED
      BY <3>3, <3>4
  <2>4. CASE InsertAnnouncement
    <3>1. m.net \in Nets /\ Trie!Announce(m.peerID, m.net, m.origin)
      BY <2>2, <2>4 DEF InsertAnnouncement, m
    <3>2. RoutesInv' /\ (IdsFit' => OneRouteChanged(m.net, m.origin))
      BY <2>2, <2>3, <3>1
    <3> QED
      BY <2>2, <3>1, <3>2 DEF OneRouteChanged, SessionStep, Sessions!Next
  <2>5. CASE InsertWithdrawal
    <3>1. m.net \in Nets /\ Trie!Announce(m.peerID, m.net, NoRoute)
      BY <2>2, <2>5 DEF InsertWithdrawal, Trie!Withdraw, Trie!Announce, m
    <3>2. RoutesInv' /\ (IdsFit' => OneRouteChanged(m.net, NoRoute))
      BY <2>2, <2>3, <3>1
    <3>3. \A ip \in IPs : Sessions!Announce(ip, m.net, NoRoute) => Sessions!Withdraw(ip, m.net)
      BY DEF Sessions!Announce, Sessions!Withdraw
    <3> QED
      BY <3>1, <3>2, <3>3 DEF OneRouteChanged, SessionStep, Sessions!Next
  <2>6. CASE Discard
    <3>1. RoutesInv'
      BY <1>2, <2>1, <2>6 DEF Discard, RoutesInv, Trie!TypeOK
    <3>2. UNCHANGED SessionRoutes
      BY <1>1, <2>6 DEF Discard, peerVars, SessionRoutes
    <3> QED
      BY <3>1, <3>2 DEF SessionStep
  <2>7. InsertAnnouncement \/ InsertWithdrawal \/ Discard
        \/ (UNCHANGED table /\ todo' = <<>>)
    BY DEF Insert, StopTimeReached, MessagePanics
  <2> QED
    BY <1>3, <2>4, <2>5, <2>6, <2>7
<1> QED
  BY <1>3, <1>4
     DEF Insert, InsertAnnouncement, InsertWithdrawal, Discard, StopTimeReached, MessagePanics

(* Steps that neither insert nor change the peers.                         *)
LEMMA QuietStepsAreSessionSteps ==
  ASSUME RoutesInv, UNCHANGED <<peerVars, table>>, todo' \in Seq(MessagesOf(KnownIds))
  PROVE  RoutesInv' /\ SessionStep
<1>1. UNCHANGED <<KnownIds, SessionRoutes>>
  BY DEF peerVars, KnownIds, IdsFit, SessionRoutes
<1>2. RoutesInv'
  BY <1>1 DEF RoutesInv, Trie!TypeOK
<1> QED
  BY <1>1, <1>2 DEF SessionStep

(* Steps in which peers are found or added.                                *)
LEMMA PeerStepsAreSessionSteps ==
  ASSUME RoutesInv, UNCHANGED table, KnownIds \subseteq KnownIds',
         IdsFit' => UNCHANGED SessionRoutes,
         todo' \in Seq(MessagesOf(KnownIds'))
  PROVE  RoutesInv' /\ SessionStep
<1>1. Trie!TypeOK'
  BY DEF RoutesInv, Trie!TypeOK
<1>2. \A id \in Ids, n \in Nets : table'[id][n] # NoRoute => id \in KnownIds'
  BY DEF RoutesInv
<1>3. todo' \in Seq(MessagesOf(KnownIds)')
  BY DEF MessagesOf
<1> QED
  BY <1>1, <1>2, <1>3 DEF RoutesInv, SessionStep

LEMMA ReadFilesIsSessionStep ==
  ASSUME PeersInv, FilesInv, RoutesInv, ReadFiles
  PROVE  RoutesInv' /\ SessionStep
<1>1. CASE ReadPeerTable
  <2>1. Head(records).peers \in Seq([ip : IPs, as : PeerASes])
    BY <1>1, NextRecordTypes, RecordTypes DEF ReadPeerTable, ReadRecord, NextRecord
  <2>2. highestPeerId = 0
    BY <1>1 DEF ReadPeerTable, GoTo, FilesInv
  <2>3. KnownIds \subseteq KnownIds' /\ UNCHANGED SessionRoutes
    BY <1>1, <2>1, <2>2, InsertPeersKeepsRoutes DEF ReadPeerTable
  <2>4. UNCHANGED table /\ todo' \in Seq(MessagesOf(KnownIds'))
    BY <1>1, EmptySeq DEF ReadPeerTable, GoTo
  <2> QED
    BY <2>3, <2>4, PeerStepsAreSessionSteps
<1>2. CASE ReadRib
  <2>1. Head(records) \in Record(IPs, PeerASes) /\ Head(records).type = "rib"
    BY <1>2, NextRecordTypes DEF ReadRib, ReadRecord, NextRecord
  <2>2. todo' \in Seq(MessagesOf(KnownIds))
    BY <1>2, <2>1, MessagesOfRibType DEF ReadRib
  <2> QED
    BY <1>2, <2>2, QuietStepsAreSessionSteps DEF ReadRib
<1>3. CASE ReadUpdate
  <2> DEFINE u == Head(records)
             id == peermapByIP'[u.ip].id
  <2>1. u \in Record(IPs, PeerASes) /\ u.type = "update" /\ u.ip \in IPs /\ u.as \in PeerASes
    BY <1>3, NextRecordTypes, RecordTypes DEF ReadUpdate, ReadRecord, NextRecord
  <2>2. /\ FindPeerIDbyIP(u.ip, u.as) /\ UNCHANGED table
        /\ todo' = MessagesOfUpdate(u, id)
    BY <1>3 DEF ReadUpdate
  <2>3. /\ KnownIds \subseteq KnownIds' /\ id \in KnownIds'
        /\ IdsFit' => UNCHANGED SessionRoutes
    BY <2>1, <2>2, FindPeerKeepsRoutes
  <2>4. todo' \in Seq(MessagesOf(KnownIds'))
    BY <2>1, <2>2, <2>3, MessagesOfUpdateType
  <2> QED
    BY <2>2, <2>3, <2>4, PeerStepsAreSessionSteps
<1>4. CASE \/ SkipFiles \/ ChooseRib \/ OpenRib \/ OpenRibFails \/ RibError \/ EndOfRib
           \/ UpdatesError \/ EndOfFile \/ EndOfFiles \/ SkipRecord
  <2>1. UNCHANGED <<peerVars, table, todo>>
    BY <1>4 DEF SkipFiles, ChooseRib, OpenRib, OpenRibFails, RibError, EndOfRib,
                UpdatesError, EndOfFile, EndOfFiles, SkipRecord
  <2> QED
    BY <2>1, QuietStepsAreSessionSteps DEF RoutesInv
<1>5. ASSUME NEW n \in left,
             SkipFile(n) \/ MisnamedFile(n) \/ OpenUpdates(n) \/ OpenUpdatesFails(n)
      PROVE  RoutesInv' /\ SessionStep
  <2>1. UNCHANGED <<peerVars, table, todo>>
    BY <1>5 DEF SkipFile, MisnamedFile, OpenUpdates, OpenUpdatesFails, NextFile
  <2> QED
    BY <2>1, QuietStepsAreSessionSteps DEF RoutesInv
<1> QED
  BY <1>1, <1>2, <1>3, <1>4, <1>5 DEF ReadFiles

LEMMA NextIsSessionStep ==
  ASSUME PeersInv, FilesInv, RoutesInv, [Next]_vars
  PROVE  RoutesInv' /\ SessionStep
<1>1. CASE \/ Initialize \/ InitializeFails \/ StartLive \/ EndMain
           \/ ScanEndsEarly \/ UNCHANGED vars
  <2>1. UNCHANGED <<peerVars, table, todo>>
    BY <1>1 DEF Initialize, InitializeFails, StartLive, EndMain, MainStep, ScanEndsEarly, vars
  <2> QED
    BY <2>1, QuietStepsAreSessionSteps DEF RoutesInv
<1>2. CASE ReadFiles
  BY <1>2, ReadFilesIsSessionStep
<1>3. CASE Insert
  BY <1>3, InsertIsSessionStep
<1>4. ASSUME NEW r \in RisMessages, Handle(r)
      PROVE  RoutesInv' /\ SessionStep
  <2> DEFINE id == peermapByIP'[r.ip].id
  <2>1. r.ip \in IPs /\ r.as \in PeerASes
    BY LiveAssumption DEF RisMessage
  <2>2. FindPeerIDbyIP(r.ip, r.as) /\ UNCHANGED table /\ todo' = MessagesOfRis(r, id)
    BY <1>4 DEF Handle
  <2>3. /\ KnownIds \subseteq KnownIds' /\ id \in KnownIds'
        /\ IdsFit' => UNCHANGED SessionRoutes
    BY <2>1, <2>2, FindPeerKeepsRoutes
  <2>4. todo' \in Seq(MessagesOf(KnownIds'))
    BY <2>2, <2>3, MessagesOfRisType
  <2> QED
    BY <2>2, <2>3, <2>4, PeerStepsAreSessionSteps
<1> QED
  BY <1>1, <1>2, <1>3, <1>4 DEF Next, Proceed

(* README.md's "Peer Awareness" of sessions: a step changes one route of   *)
(* one session at most, and neither new peers nor the table of a RIB       *)
(* change any (see ImplementsSessions).                                    *)
THEOREM ImplementsSessionsAlways == Spec => ImplementsSessions
<1>1. Init => Sessions!Init
  <2> SUFFICES ASSUME Init
               PROVE  Sessions!Init
    OBVIOUS
  <2>1. DOMAIN peermapByIP = {}
    BY DEF Init, PeersInit
  <2> QED
    BY <2>1 DEF Sessions!Init, SessionRoutes
<1>2. PeersInv /\ FilesInv /\ RoutesInv /\ [Next]_vars
        => [IdsFit' => UNCHANGED SessionRoutes \/ Sessions!Next]_vars
  BY NextIsSessionStep DEF SessionStep
<1>3. PeersInv /\ FilesInv /\ RoutesInv /\ [Next]_vars => RoutesInv'
  BY NextIsSessionStep
<1>4. Spec => []PeersInv /\ []FilesInv /\ []RoutesInv
  BY <1>3, InitInv, InitRoutesInv, NextKeepsInv, PTL DEF Spec
<1> QED
  BY <1>1, <1>2, <1>4, PTL DEF Spec, ImplementsSessions

-----------------------------------------------------------------------------
(* The types of all variables.                                             *)

Places == {"start", "files", "openRib", "rib", "updates", "file", "done", "live",
           "ended", "stopped", "returned", "panicked"}

PlacesInv == pc \in Places /\ handled \in 0..MaxHandled

LEMMA NextKeepsPlacesInv ==
  ASSUME FilesInv, PlacesInv, [Next]_vars
  PROVE  PlacesInv'
<1>1. CASE Initialize \/ InitializeFails \/ StartLive \/ EndMain \/ UNCHANGED vars
  BY <1>1 DEF Initialize, InitializeFails, StartLive, EndMain, MainStep, GoTo, vars,
              PlacesInv, Places
<1>2. CASE Insert /\ UNCHANGED handled
  BY <1>2 DEF Insert, InsertAnnouncement, InsertWithdrawal, Discard, StopTimeReached,
              MessagePanics, InsertStep, PlacesInv, Places
<1>3. CASE EndOfRib /\ UNCHANGED handled
  <2>1. rib.parts \in 1..3
    BY <1>3 DEF EndOfRib, GoTo, FilesInv, FileName
  <2>2. pc' \in {"done", "panicked", "updates"}
    BY <1>3, <2>1 DEF EndOfRib, GoTo
  <2> QED
    BY <1>3, <2>2 DEF PlacesInv, Places
<1>4. CASE /\ \/ SkipFiles \/ ChooseRib \/ OpenRib \/ OpenRibFails \/ ReadPeerTable \/ ReadRib
              \/ RibError \/ ReadUpdate \/ UpdatesError \/ EndOfFile \/ EndOfFiles \/ SkipRecord
              \/ ScanEndsEarly
           /\ UNCHANGED handled
  BY <1>4 DEF SkipFiles, ChooseRib, OpenRib, OpenRibFails, ReadPeerTable, ReadRib, RibError,
              ReadUpdate, UpdatesError, EndOfFile, EndOfFiles, SkipRecord, ScanEndsEarly,
              GoTo, PlacesInv, Places
<1>5. ASSUME NEW n \in left, UNCHANGED handled,
             SkipFile(n) \/ MisnamedFile(n) \/ OpenUpdates(n) \/ OpenUpdatesFails(n)
      PROVE  PlacesInv'
  BY <1>5 DEF SkipFile, MisnamedFile, OpenUpdates, OpenUpdatesFails, NextFile, GoTo,
              PlacesInv, Places
<1>6. ASSUME NEW r \in RisMessages, Handle(r)
      PROVE  PlacesInv'
  BY <1>6, LiveAssumption DEF Handle, GoTo, PlacesInv, Places
<1> QED
  BY <1>1, <1>2, <1>3, <1>4, <1>5, <1>6 DEF Next, Proceed, ReadFiles

(* Every variable has its type, the messages to be inserted those of the   *)
(* program's declaration (see TypeOK).                                     *)
THEOREM TypeOKAlways == Spec => []TypeOK
<1>1. PeersInv /\ FilesInv /\ RoutesInv /\ PlacesInv => TypeOK
  <2> SUFFICES ASSUME PeersInv, FilesInv, RoutesInv, PlacesInv
               PROVE  TypeOK
    OBVIOUS
  <2>1. MessagesOf(KnownIds) \subseteq Message \cup {Panic}
    BY PeersAssumption DEF MessagesOf, Message, KnownIds, Ids
  <2>2. todo \in Seq(Message \cup {Panic})
    BY <2>1, SeqMonotonic DEF RoutesInv
  <2>3. \A ip \in DOMAIN peermapByIP : peermapByIP[ip] \in Peer
    <3> TAKE ip \in DOMAIN peermapByIP
    <3>1. PICK k \in 1..highestPeerId : peermapByIP[ip] = ourPeers[k]
      BY DEF PeersInv
    <3> QED
      BY <3>1, ElementOfSeq DEF PeersInv
  <2> QED
    BY <2>2, <2>3 DEF TypeOK, PeersInv, FilesInv, RoutesInv, PlacesInv, Places
<1>2. Init => PlacesInv
  BY LiveAssumption DEF Init, FilesInit, PlacesInv, Places
<1>3. PeersInv /\ FilesInv /\ RoutesInv /\ [Next]_vars => RoutesInv'
  BY NextIsSessionStep
<1> QED
  BY <1>1, <1>2, <1>3, InitInv, InitRoutesInv, NextKeepsInv, NextKeepsPlacesInv, PTL DEF Spec

-----------------------------------------------------------------------------
(* Routes without a peer.                                                  *)

(* The peer of an ID can be found by an address, or its address comes      *)
(* again in the table of the RIB.                                          *)
Found(id) ==
  \/ \E ip \in DOMAIN peermapByIP : peermapByIP[ip].id = id
  \/ id + 1 \in DOMAIN TablePeers /\ Repeated(id + 1)

(* What can be in the history of what was read.                            *)
Readings ==
  Record(IPs, PeerASes) \cup RisMessages
    \cup [type : {"skipped"}, record : Record(IPs, PeerASes)]

LEMMA ReadingTypes ==
  /\ Record(IPs, PeerASes) \subseteq Readings
  /\ RisMessages \subseteq Readings
BY DEF Readings

NoTableRead == \A k \in DOMAIN read : read[k].type # "table"

FoundInv ==
  /\ read \in Seq(Readings)
  /\ pc \in {"start", "files", "openRib", "rib"} /\ tables = 0 => NoTableRead
  /\ IdsFit => \A id \in KnownIds : Found(id)

(* Once a table has been read, TablePeers is settled.                      *)
LEMMA TablePeersSettled ==
  ASSUME NEW S, read \in Seq(S), NEW r \in S, read' = Append(read, r)
  PROVE  /\ ~NoTableRead => UNCHANGED TablePeers
         /\ NoTableRead => TablePeers = <<>>
         /\ NoTableRead /\ r.type = "table" => TablePeers' = r.peers
         /\ NoTableRead /\ r.type # "table" => NoTableRead'
<1> DEFINE ts == {k \in DOMAIN read : read[k].type = "table"}
           tsNext == {k \in DOMAIN read' : read'[k].type = "table"}
<1>1. /\ DOMAIN read = 1..Len(read) /\ Len(read) \in Nat
      /\ DOMAIN read' = 1..(Len(read) + 1)
      /\ \A k \in 1..Len(read) : read'[k] = read[k]
      /\ read'[Len(read) + 1] = r
  BY AppendProperties, LenProperties
<1>2. ts \subseteq tsNext /\ tsNext \subseteq ts \cup {Len(read) + 1}
  BY <1>1
<1>3. ts \in SUBSET Nat /\ tsNext \in SUBSET Nat
  BY <1>1
<1>4. ASSUME ~NoTableRead
      PROVE  UNCHANGED TablePeers
  <2>1. ts # {}
    BY <1>4 DEF NoTableRead
  <2>2. PICK m \in ts : \A j \in ts : m <= j
    <3> HIDE DEF ts
    <3> QED
      BY <1>3, <2>1, FirstNumber
  <2>3. \A j \in tsNext : m <= j
    BY <1>1, <1>2, <2>2
  <2>4. \A x \in ts : (\A j \in ts : x <= j) => x = m
    BY <1>3, <2>2
  <2>5. \A x \in tsNext : (\A j \in tsNext : x <= j) => x = m
    BY <1>2, <1>3, <2>2, <2>3
  <2>6. Min(ts) = m
    <3> HIDE DEF ts
    <3> QED
      BY <2>2, <2>4 DEF Min
  <2>7. Min(tsNext) = m
    <3>1. m \in tsNext
      BY <1>2, <2>2
    <3> HIDE DEF tsNext
    <3> QED
      BY <2>3, <2>5, <3>1 DEF Min
  <2>8. read'[m] = read[m]
    BY <1>1, <2>2
  <2>9. TablePeers = read[m].peers /\ TablePeers' = read'[m].peers
    <3>1. TablePeers = IF ts = {} THEN <<>> ELSE read[Min(ts)].peers
      BY DEF TablePeers
    <3>2. TablePeers' = IF tsNext = {} THEN <<>> ELSE read'[Min(tsNext)].peers
      BY DEF TablePeers
    <3> HIDE DEF ts, tsNext
    <3> QED
      BY <1>2, <2>1, <2>6, <2>7, <3>1, <3>2
  <2> QED
    BY <2>8, <2>9
<1>5. ASSUME NoTableRead
      PROVE  TablePeers = <<>>
  BY <1>5 DEF NoTableRead, TablePeers
<1>6. ASSUME NoTableRead, r.type = "table"
      PROVE  TablePeers' = r.peers
  <2>1. ts = {}
    BY <1>6 DEF NoTableRead
  <2>2. tsNext = {Len(read) + 1}
    BY <1>1, <1>2, <1>6, <2>1
  <2>3. Min(tsNext) = Len(read) + 1
    <3> HIDE DEF tsNext
    <3> QED
      BY <1>1, <2>2 DEF Min
  <2>4. TablePeers' = read'[Min(tsNext)].peers
    BY <2>2 DEF TablePeers
  <2> QED
    BY <1>1, <2>3, <2>4
<1>7. ASSUME NoTableRead, r.type # "table"
      PROVE  NoTableRead'
  BY <1>1, <1>7 DEF NoTableRead
<1> QED
  BY <1>4, <1>5, <1>6, <1>7

(* Reading a record takes nothing away from what is found.                 *)
LEMMA ReadingKeepsFound ==
  ASSUME NEW S, read \in Seq(S), NEW r \in S, read' = Append(read, r),
         UNCHANGED peermapByIP, NEW id, Found(id)
  PROVE  Found(id)'
<1>1. CASE NoTableRead
  <2>1. DOMAIN TablePeers = {}
    BY <1>1, TablePeersSettled, EmptySeq
  <2> QED
    BY <2>1 DEF Found
<1>2. CASE ~NoTableRead
  BY <1>2, TablePeersSettled DEF Found, Repeated
<1> QED
  BY <1>1, <1>2

LEMMA PeerTableIsFound ==
  ASSUME PeersInv, FilesInv, FoundInv, ReadPeerTable
  PROVE  FoundInv'
<1> DEFINE r == Head(records)
           t == r.peers
<1>1. r \in Record(IPs, PeerASes) /\ r.type = "table" /\ read' = Append(read, r)
  BY NextRecordTypes DEF ReadPeerTable, ReadRecord, NextRecord
<1>2. t \in Seq([ip : IPs, as : PeerASes])
  BY <1>1, RecordTypes
<1>3. /\ PeersInv' /\ highestPeerId' = Len(t)
      /\ \A k \in 1..Len(t) :
            \/ \E j \in 1..Len(t) : j > k /\ t[j].ip = t[k].ip
            \/ /\ t[k].ip \in DOMAIN peermapByIP'
               /\ peermapByIP'[t[k].ip] = ourPeers'[k]
  <2>1. highestPeerId = 0 /\ InsertPeers(t)
    BY DEF ReadPeerTable, GoTo, FilesInv
  <2> QED
    BY <1>2, <2>1, InsertPeersKeepsPeersInv
<1>4. TablePeers' = t
  <2>1. NoTableRead
    BY DEF ReadPeerTable, GoTo, FoundInv
  <2> QED
    BY <1>1, <2>1, TablePeersSettled, ReadingTypes DEF FoundInv
<1>5. read' \in Seq(Readings)
  BY <1>1, ReadingTypes, AppendProperties DEF FoundInv
<1> HIDE DEF r
<1>6. ASSUME IdsFit', NEW id \in KnownIds'
      PROVE  Found(id)'
  <2> DEFINE k == id + 1
  <2>1. k \in 1..Len(t) /\ Len(t) \in Nat /\ DOMAIN t = 1..Len(t)
    BY <1>2, <1>3, <1>6, LenProperties DEF KnownIds, Ids
  <2>2. CASE \E j \in 1..Len(t) : j > k /\ t[j].ip = t[k].ip
    BY <1>4, <2>1, <2>2 DEF Found, Repeated
  <2>3. CASE t[k].ip \in DOMAIN peermapByIP' /\ peermapByIP'[t[k].ip] = ourPeers'[k]
    <3>1. ourPeers'[k].id = id % IdCount
      <4>1. k - 1 = id
        BY <1>6 DEF KnownIds, Ids
      <4> QED
        BY <1>3, <2>1, <4>1 DEF PeersInv
    <3>2. id % IdCount = id
      BY <1>6, IdOfCounter, PeersAssumption DEF KnownIds, Ids
    <3> QED
      BY <2>3, <3>1, <3>2 DEF Found
  <2> QED
    BY <1>3, <2>1, <2>2, <2>3
<1>7. tables' = 1
  BY DEF ReadPeerTable
<1> QED
  BY <1>5, <1>6, <1>7 DEF FoundInv

(* Every step appends a record to read, or leaves it alone.                *)
LEMMA FindPeerIsFound ==
  ASSUME PeersInv, FoundInv, NEW ip \in IPs, NEW as \in PeerASes, FindPeerIDbyIP(ip, as),
         NEW r \in Readings, read' = Append(read, r),
         pc' \notin {"start", "files", "openRib", "rib"}
  PROVE  FoundInv'
<1>1. read' \in Seq(Readings)
  BY AppendProperties DEF FoundInv
<1>2. CASE ip \in DOMAIN peermapByIP
  <2>1. UNCHANGED <<peermapByIP, highestPeerId>>
    BY <1>2 DEF FindPeerIDbyIP, peerVars
  <2>2. UNCHANGED <<IdsFit, KnownIds>>
    BY <2>1 DEF IdsFit, KnownIds
  <2>3. IdsFit => \A id \in KnownIds : Found(id)'
    BY <2>1, ReadingKeepsFound DEF FoundInv
  <2> QED
    BY <1>1, <2>2, <2>3 DEF FoundInv
<1>3. CASE ip \notin DOMAIN peermapByIP
  <2>1. /\ highestPeerId' = highestPeerId + 1 /\ highestPeerId \in Nat
        /\ DOMAIN peermapByIP' = DOMAIN peermapByIP \cup {ip}
        /\ peermapByIP'[ip].id = highestPeerId % IdCount
        /\ \A i \in DOMAIN peermapByIP : peermapByIP'[i] = peermapByIP[i]
    BY <1>3, AddPeerKeepsPeersInv DEF FindPeerIDbyIP, PeersInv
  <2>2. ASSUME IdsFit', NEW id \in KnownIds'
        PROVE  Found(id)'
    <3>1. IdsFit /\ highestPeerId < IdCount
      BY <2>1, <2>2, PeersAssumption DEF IdsFit
    <3>2. id \in KnownIds \/ id = highestPeerId
      BY <2>1, <2>2, <3>1 DEF KnownIds, Ids
    <3>3. CASE id = highestPeerId
      <4>1. highestPeerId % IdCount = highestPeerId
        BY <2>1, <3>1, IdOfCounter
      <4> QED
        BY <2>1, <3>3, <4>1 DEF Found
    <3>4. CASE id \in KnownIds
      <4>1. Found(id)
        BY <3>1, <3>4 DEF FoundInv
      <4>2. CASE \E i \in DOMAIN peermapByIP : peermapByIP[i].id = id
        BY <2>1, <4>2 DEF Found
      <4>3. CASE id + 1 \in DOMAIN TablePeers /\ Repeated(id + 1)
        <5>1. CASE NoTableRead
          <6>1. DOMAIN TablePeers = {}
            BY <5>1, TablePeersSettled, EmptySeq DEF FoundInv
          <6> QED
            BY <4>3, <6>1
        <5>2. CASE ~NoTableRead
          BY <4>3, <5>2, TablePeersSettled DEF FoundInv, Found, Repeated
        <5> QED
          BY <5>1, <5>2
      <4> QED
        BY <4>1, <4>2, <4>3 DEF Found
    <3> QED
      BY <3>2, <3>3, <3>4
  <2> QED
    BY <1>1, <2>2 DEF FoundInv
<1> QED
  BY <1>2, <1>3

(* Steps that leave the peers alone, and at most read another record.      *)
LEMMA QuietStepsKeepFound ==
  ASSUME FoundInv, UNCHANGED peerVars,
         \/ UNCHANGED read
         \/ \E r \in Readings :
               /\ read' = Append(read, r)
               /\ r.type # "table" \/ pc' \notin {"start", "files", "openRib", "rib"},
         \/ pc' = pc /\ UNCHANGED tables
         \/ pc = "start" /\ pc' = "files" /\ UNCHANGED tables
         \/ pc = "files" /\ pc' = "openRib" /\ UNCHANGED tables
         \/ pc = "openRib" /\ pc' = "rib" /\ UNCHANGED tables
         \/ pc' \notin {"start", "files", "openRib", "rib"}
  PROVE  FoundInv'
<1>1. UNCHANGED <<peermapByIP, IdsFit, KnownIds>>
  BY DEF peerVars, IdsFit, KnownIds
<1>2. CASE UNCHANGED read
  <2>1. \A id \in KnownIds : Found(id) => Found(id)'
    BY <1>1, <1>2 DEF Found, Repeated, TablePeers
  <2>2. UNCHANGED NoTableRead
    BY <1>2 DEF NoTableRead
  <2> QED
    BY <1>1, <1>2, <2>1, <2>2 DEF FoundInv
<1>3. ASSUME NEW r \in Readings, read' = Append(read, r),
             r.type # "table" \/ pc' \notin {"start", "files", "openRib", "rib"}
      PROVE  FoundInv'
  <2>1. read' \in Seq(Readings)
    BY <1>3, AppendProperties DEF FoundInv
  <2>2. ASSUME NEW id, Found(id)
        PROVE  Found(id)'
    BY <1>1, <1>3, <2>2, ReadingKeepsFound DEF FoundInv
  <2>3. NoTableRead /\ r.type # "table" => NoTableRead'
    BY <1>3, TablePeersSettled DEF FoundInv
  <2> QED
    BY <1>1, <1>3, <2>1, <2>2, <2>3 DEF FoundInv
<1> QED
  BY <1>2, <1>3

LEMMA NextKeepsFoundInv ==
  ASSUME PeersInv, FilesInv, FoundInv, [Next]_vars
  PROVE  FoundInv'
<1>1. CASE Initialize \/ InitializeFails \/ StartLive \/ EndMain \/ UNCHANGED vars
  <2>1. /\ UNCHANGED <<peerVars, tables, read>>
        /\ \/ pc' = pc
           \/ pc = "start" /\ pc' = "files"
           \/ pc' \notin {"start", "files", "openRib", "rib"}
    BY <1>1 DEF Initialize, InitializeFails, StartLive, EndMain, MainStep, GoTo, vars,
                fileVars, history
  <2> QED
    BY <2>1, QuietStepsKeepFound
<1>2. CASE Insert
  <2>1. /\ UNCHANGED <<peerVars, tables, read>>
        /\ pc' = pc \/ pc' \in {"stopped", "panicked"}
    BY <1>2 DEF Insert, InsertAnnouncement, InsertWithdrawal, Discard, StopTimeReached,
                MessagePanics, InsertStep, fileVars, history
  <2> QED
    BY <2>1, QuietStepsKeepFound
<1>3. CASE SkipFiles \/ OpenRibFails \/ RibError \/ UpdatesError \/ EndOfFile \/ EndOfFiles
  <2>1. UNCHANGED <<peerVars, read>> /\ pc' \in {"done", "updates"}
    BY <1>3 DEF SkipFiles, OpenRibFails, RibError, UpdatesError, EndOfFile, EndOfFiles,
                GoTo, history
  <2> QED
    BY <2>1, QuietStepsKeepFound
<1>4. CASE ChooseRib \/ OpenRib
  <2>1. /\ UNCHANGED <<peerVars, tables, read>>
        /\ \/ pc = "files" /\ pc' \in {"openRib", "updates"}
           \/ pc = "openRib" /\ pc' = "rib"
    BY <1>4 DEF ChooseRib, OpenRib, GoTo, history
  <2> QED
    BY <2>1, QuietStepsKeepFound
<1>5. CASE ReadPeerTable
  BY <1>5, PeerTableIsFound
<1>6. CASE ReadRib
  <2>1. /\ UNCHANGED <<peerVars, tables>> /\ pc' = pc
        /\ Head(records) \in Readings /\ Head(records).type # "table"
        /\ read' = Append(read, Head(records))
    BY <1>6, NextRecordTypes DEF ReadRib, ReadRecord, NextRecord, GoTo, Readings
  <2> QED
    BY <2>1, QuietStepsKeepFound
<1>7. CASE SkipRecord
  <2>1. /\ UNCHANGED <<peerVars, tables>> /\ pc' = pc
        /\ Skipped(Head(records)) \in Readings
        /\ Skipped(Head(records)).type # "table"
        /\ read' = Append(read, Skipped(Head(records)))
    BY <1>7, NextRecordTypes DEF SkipRecord, NextRecord, Skipped, Readings
  <2> QED
    BY <2>1, QuietStepsKeepFound
<1>8. CASE EndOfRib
  <2>1. rib.parts \in 1..3
    BY <1>8 DEF EndOfRib, GoTo, FilesInv, FileName
  <2>2. UNCHANGED <<peerVars, read>> /\ pc' \in {"done", "panicked", "updates"}
    BY <1>8, <2>1 DEF EndOfRib, GoTo
  <2> QED
    BY <2>2, QuietStepsKeepFound
<1>9. ASSUME NEW n \in left,
             SkipFile(n) \/ MisnamedFile(n) \/ OpenUpdates(n) \/ OpenUpdatesFails(n)
      PROVE  FoundInv'
  <2>1. UNCHANGED <<peerVars, read>> /\ pc' \in {"updates", "panicked", "file"}
    BY <1>9 DEF SkipFile, MisnamedFile, OpenUpdates, OpenUpdatesFails, NextFile, GoTo
  <2> QED
    BY <2>1, QuietStepsKeepFound
<1>10. CASE ReadUpdate
  <2> DEFINE u == Head(records)
  <2>1. u \in Record(IPs, PeerASes) /\ u.ip \in IPs /\ u.as \in PeerASes
    BY <1>10, NextRecordTypes, RecordTypes DEF ReadUpdate, ReadRecord, NextRecord
  <2>2. FindPeerIDbyIP(u.ip, u.as) /\ read' = Append(read, u) /\ pc' = "file"
    BY <1>10 DEF ReadUpdate, ReadRecord, GoTo
  <2> QED
    BY <2>1, <2>2, ReadingTypes, FindPeerIsFound
<1>11. CASE ScanEndsEarly
  <2>1. UNCHANGED <<peerVars, tables, read>> /\ pc' = pc
    BY <1>11 DEF ScanEndsEarly
  <2> QED
    BY <2>1, QuietStepsKeepFound
<1>12. ASSUME NEW r \in RisMessages, Handle(r)
       PROVE  FoundInv'
  <2>1. r.ip \in IPs /\ r.as \in PeerASes
    BY LiveAssumption DEF RisMessage
  <2>2. FindPeerIDbyIP(r.ip, r.as) /\ read' = Append(read, r) /\ pc' = "live"
    BY <1>12 DEF Handle, GoTo
  <2> QED
    BY <2>1, <2>2, ReadingTypes, FindPeerIsFound
<1> QED
  BY <1>1, <1>2, <1>3, <1>4, <1>5, <1>6, <1>7, <1>8, <1>9, <1>10, <1>11, <1>12
     DEF Next, Proceed, ReadFiles

LEMMA InitFoundInv == Init => FoundInv
<1> SUFFICES ASSUME Init
             PROVE  FoundInv
  OBVIOUS
<1>1. read = <<>> /\ highestPeerId = 0
  BY DEF Init, FilesInit, PeersInit
<1>2. DOMAIN read = {} /\ read \in Seq(Readings)
  BY <1>1, EmptySeq
<1>3. IdsFit => KnownIds = {}
  BY <1>1 DEF KnownIds, Ids
<1> QED
  BY <1>2, <1>3 DEF FoundInv, NoTableRead

(* Only the addresses that a table repeats leave routes behind which       *)
(* nobody can withdraw (see NoGhostRoute).                                 *)
THEOREM NoGhostRouteAlways == Spec => []NoGhostRoute
<1>1. RoutesInv /\ FoundInv => NoGhostRoute
  BY DEF RoutesInv, FoundInv, Found, NoGhostRoute
<1>2. PeersInv /\ FilesInv /\ RoutesInv /\ [Next]_vars => RoutesInv'
  BY NextIsSessionStep
<1> QED
  BY <1>1, <1>2, InitInv, InitRoutesInv, InitFoundInv, NextKeepsInv, NextKeepsFoundInv, PTL DEF Spec
=============================================================================
