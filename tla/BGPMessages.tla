---------------------------- MODULE BGPMessages -----------------------------
(***************************************************************************)
(* From what a file or the live feed says to the messages that are         *)
(* inserted (Routeviews.go, Livestream.go, ConversionFunctions.go): which  *)
(* prefixes in which order, the bits of their subnets, and their origin.   *)
(*                                                                         *)
(* The libraries that decode MRT and JSON are external: a record is given  *)
(* decoded, and its prefixes can be parsed.  Of an AS path only the last   *)
(* AS is kept, and timestamps are left out.                                *)
(***************************************************************************)
EXTENDS Naturals, SequencesExt, FiniteSetsExt

CONSTANTS ASes,          (* the AS numbers that occur                      *)
          Octets,        (* octets of an IPv4 address: 4                   *)
          OctetBits,     (* bits of an octet: 8                            *)
          IPv4, IPv6,    (* the prefixes that occur                        *)
          Undecodable,   (* an element of the path of a RIS message        *)
          Panic          (* in place of a message: making it panics        *)

(* Powers of two.                                                          *)
Pow2[n \in Nat] == IF n = 0 THEN 1 ELSE 2 * Pow2[n - 1]

(* An address as a number.                                                 *)
Number(ip) ==
  LET number[k \in 0..Octets] ==
        IF k = 0 THEN 0 ELSE number[k - 1] * Pow2[OctetBits] + ip[k]
  IN  number[Octets]

AddressBits == Octets * OctetBits

(* A prefix of IPv4 as net.ParseCIDR returns it: the bits after the first  *)
(* "length" ones are 0.                                                    *)
IPv4Prefix == {s \in [ip     : [1..Octets -> 0..(Pow2[OctetBits] - 1)],
                      length : 0..AddressBits] :
                 Number(s.ip) % Pow2[AddressBits - s.length] = 0}

ASSUME MessagesAssumption ==
  /\ ASes \subseteq Nat \ {0}
  /\ Octets \in Nat \ {0} /\ OctetBits \in Nat \ {0}
  /\ IPv4 \subseteq IPv4Prefix
  /\ Panic \notin Nat

(* AS 0 is the origin of a message whose origin has not been set.          *)
Origins == ASes \cup {0}

Attribute == [kind     : {"asPath", "as4Path", "other"},
              segments : Seq(Seq(ASes))]

IPNets == IPv4 \cup IPv6

(* A record of a file, with its type: the peer table and an entry of a RIB,*)
(* an update, and records that are skipped or end the reading.             *)
Record(IPs, PeerASes) ==
  [type : {"table"}, peers : Seq([ip : IPs, as : PeerASes])]
    \cup [type : {"rib"}, prefix : IPNets,
          entries : Seq([index : Nat, attributes : Seq(Attribute)])]
    \cup [type : {"update"}, ip : IPs, as : PeerASes, announced : Seq(IPNets),
          withdrawn : Seq(IPNets), attributes : Seq(Attribute)]
    \cup [type : {"unparsable", "other", "broken"}]

(* An element of the path of a RIS message is an AS or a set of ASes, both *)
(* given as a sequence.                                                    *)
RisMessage(IPs, PeerASes) ==
  [type : {"ris"}, ip : IPs, as : PeerASes, withdrawals : Seq(IPNets),
   announcements : Seq(Seq(IPNets)), path : Seq(Seq(ASes) \cup {Undecodable})]

-----------------------------------------------------------------------------
(* What is left of octet x when its bits from j on are taken away.         *)

(* Faulty variant: an octet that is just 2^j does not have bit j.          *)
RestWithoutLast(x) ==
  LET rest[j \in 0..OctetBits] ==
        IF j = OctetBits THEN x
        ELSE IF rest[j + 1] > Pow2[j] THEN rest[j + 1] - Pow2[j] ELSE rest[j + 1]
  IN  rest

Rest(x) ==
  LET rest[j \in 0..OctetBits] ==
        IF j = OctetBits THEN x
        ELSE IF rest[j + 1] >= Pow2[j] THEN rest[j + 1] - Pow2[j] ELSE rest[j + 1]
  IN  rest

OctetToBits(x) ==
  LET rest == Rest(x)
  IN  [k \in 1..OctetBits |->
         IF rest[OctetBits - k + 1] = rest[OctetBits - k] THEN 0 ELSE 1]

(* The bits of all octets, one after the other, up to the length.          *)
ConvertIPtoBits(s) ==
  [i \in 1..s.length |->
     OctetToBits(s.ip[((i - 1) \div OctetBits) + 1])[((i - 1) % OctetBits) + 1]]

(* subnetAsBits of every prefix, which stays empty for IPv6.               *)
Bits == [s \in IPNets |-> IF s \in IPv4 THEN ConvertIPtoBits(s) ELSE <<>>]

(* The nets the trie has nodes for.                                        *)
Nets == {Bits[s] : s \in IPv4} \ {<<>>}

(* A message, with the fields of its subnet that matter.                   *)
Message == [isIPv4         : BOOLEAN,
            net            : Nets \cup {<<>>},
            isAnnouncement : BOOLEAN,
            peerID         : Nat,
            origin         : Origins]

-----------------------------------------------------------------------------
(* setASpathInMessage *)

(* The first of the shortest paths in the attributes of a kind.  Only the  *)
(* first segment of a path is looked at, and it must not be empty.         *)
BestPath(attributes, kind) ==
  LET usable    == {k \in DOMAIN attributes : /\ attributes[k].kind = kind
                                              /\ attributes[k].segments # <<>>
                                              /\ attributes[k].segments[1] # <<>>}
      length(k) == Len(attributes[k].segments[1])
      shortest  == {k \in usable : \A j \in usable : length(k) <= length(j)}
  IN  IF usable = {} THEN <<>> ELSE attributes[Min(shortest)].segments[1]

(* Faulty variant: the origin is the first AS of the path.                 *)
FirstOfASpath(attributes) ==
  LET asPath == BestPath(attributes, "asPath")
  IN  IF asPath = <<>> THEN 0 ELSE asPath[1]

(* The origin that attributes set, 0 if they set none: that of AS4_PATH,   *)
(* where there is one, and AS4_PATH without AS_PATH panics.                *)
SetASpath(attributes) ==
  LET asPath  == BestPath(attributes, "asPath")
      as4Path == BestPath(attributes, "as4Path")
  IN  CASE as4Path # <<>> /\ asPath # <<>> -> Last(as4Path)
        [] as4Path # <<>> /\ asPath = <<>> -> Panic
        [] as4Path = <<>> /\ asPath # <<>> -> Last(asPath)
        [] OTHER                           -> 0

-----------------------------------------------------------------------------
NewMessage(s, isAnnouncement, id, origin) ==
  [isIPv4 |-> s \in IPv4, net |-> Bits[s], isAnnouncement |-> isAnnouncement,
   peerID |-> id, origin |-> origin]

(* The messages of a RIB record: one variable m is used for all of its     *)
(* entries, so an entry without path keeps the origin of the one before.   *)
MessagesOfRib(r, ourPeers) ==
  LET setters(k) == {j \in 1..k : SetASpath(r.entries[j].attributes) # 0}
      origin(k)  == IF setters(k) = {} THEN 0
                    ELSE SetASpath(r.entries[Max(setters(k))].attributes)
  IN  [k \in DOMAIN r.entries |->
         IF r.entries[k].index >= Len(ourPeers) \/ origin(k) = Panic
         THEN Panic
         ELSE NewMessage(r.prefix, TRUE, ourPeers[r.entries[k].index + 1].id, origin(k))]

(* A message of peer id for each of the prefixes.                          *)
Announcements(prefixes, id, origin) ==
  [k \in DOMAIN prefixes |-> IF origin = Panic THEN Panic
                             ELSE NewMessage(prefixes[k], TRUE, id, origin)]

(* The origin of a withdrawal plays no part.                               *)
Withdrawals(prefixes, id) ==
  [k \in DOMAIN prefixes |-> NewMessage(prefixes[k], FALSE, id, 0)]

(* Faulty variant: withdrawals come first, as in the live feed.            *)
WithdrawalsFirst(u, id) ==
  Withdrawals(u.withdrawn, id)
    \o Announcements(u.announced, id, SetASpath(u.attributes))

(* The messages of an update in a file.                                    *)
MessagesOfUpdate(u, id) ==
  Announcements(u.announced, id, SetASpath(u.attributes))
    \o Withdrawals(u.withdrawn, id)

(* The last AS of the digested path, which ends before the first element   *)
(* that cannot be decoded; 0 if the digested path is empty.                *)
OriginOfDigestedPath(path) ==
  LET digested == {k \in DOMAIN path : \A j \in 1..k : path[j] # Undecodable}
      nonempty == {k \in digested : path[k] # <<>>}
  IN  IF nonempty = {} THEN 0 ELSE Last(path[Max(nonempty)])

(* The messages of a RIS message.  Its announcements are read up to the    *)
(* first, and not at all without an origin; but runLivestream compares the *)
(* first prefixes of two, so they must not be empty.                       *)
MessagesOfRis(r, id) ==
  LET origin == OriginOfDigestedPath(r.path)
      incomparable == Len(r.announcements) > 1
                        /\ <<>> \in {r.announcements[1], r.announcements[2]}
  IN  IF incomparable THEN <<Panic>>
      ELSE Withdrawals(r.withdrawals, id)
             \o (IF r.announcements = <<>> \/ origin = 0 THEN <<>>
                 ELSE Announcements(r.announcements[1], id, origin))
=============================================================================
