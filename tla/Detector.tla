------------------------------ MODULE Detector ------------------------------
(***************************************************************************)
(* The program as main runs it (Main.go): initialization, the files, then  *)
(* the RIS messages of the live feed (handle of Livestream.go), or the end.*)
(* Here the components meet: what files and feed say goes through the peer *)
(* table and the conversions into the table of routes.                     *)
(*                                                                         *)
(* The feed hands over every RIS message once and in order (Livestream).   *)
(***************************************************************************)
EXTENDS Routeviews

CONSTANTS RisMessages,  (* the RIS messages that may arrive                *)
          MaxHandled    (* bound: RIS messages handled                     *)

ASSUME LiveAssumption ==
  /\ RisMessages \subseteq RisMessage(IPs, PeerASes)
  /\ MaxHandled \in Nat

VARIABLES flags,   (* the flags -live and -rib as they are given           *)
          handled  (* the number of RIS messages handled                   *)

vars == <<pc, peerVars, fileVars, todo, table, history, flags, handled>>

Init ==
  /\ FilesInit /\ PeersInit
  /\ flags \in [live : BOOLEAN, rib : RibFlags]
  /\ rib = flags.rib
  /\ handled = 0

MainStep(from, to) ==
  /\ GoTo(from, to)
  /\ UNCHANGED <<peerVars, fileVars, todo, table, history, flags>>

Initialize ==
  /\ MainStep("start", "files")
  /\ UNCHANGED handled

(* A prefixes file that exists and cannot be read ends the program         *)
(* (log.Fatal), and so does a conflicts file that cannot be created; a line*)
(* that is an address without length, too short an -endlive and a CPU      *)
(* profile that cannot be created panic.                                   *)
InitializeFails ==
  /\ \E to \in {"returned", "panicked"} : MainStep("start", to)
  /\ UNCHANGED handled

StartLive ==
  /\ flags.live
  /\ MainStep("done", "live")
  /\ UNCHANGED handled

(* cleanup at the end of the files.                                        *)
EndMain ==
  /\ ~flags.live
  /\ MainStep("done", "ended")
  /\ UNCHANGED handled

Handle(r) ==
  /\ GoTo("live", "live")
  /\ handled < MaxHandled
  /\ handled' = handled + 1
  /\ FindPeerIDbyIP(r.ip, r.as)
  /\ todo' = MessagesOfRis(r, peermapByIP'[r.ip].id)
  /\ read' = Append(read, r)
  /\ UNCHANGED <<fileVars, table, failed, flags>>

(* The steps that are up to main.                                          *)
Proceed ==
  \/ Initialize \/ InitializeFails \/ StartLive \/ EndMain
  \/ (ReadFiles \/ Insert) /\ UNCHANGED <<flags, handled>>

Next ==
  \/ Proceed
  \/ ScanEndsEarly /\ UNCHANGED <<flags, handled>>
  \/ \E r \in RisMessages : Handle(r)

(* main is not held up by anything but the feed; nothing makes a scanner   *)
(* fail or a RIS message arrive.                                           *)
Spec == Init /\ [][Next]_vars /\ WF_vars(Proceed)

-----------------------------------------------------------------------------
(* Every variable has the type its declaration gives it.                   *)
TypeOK ==
  /\ pc \in {"start", "files", "openRib", "rib", "updates", "file", "done", "live",
             "ended", "stopped", "returned", "panicked"}
  /\ ourPeers \in Seq(Peer)
  /\ DOMAIN peermapByIP \subseteq IPs
  /\ \A ip \in DOMAIN peermapByIP : peermapByIP[ip] \in Peer
  /\ highestPeerId \in Nat /\ handled \in 0..MaxHandled
  /\ tables \in {0, 1}
  /\ todo \in Seq(Message \cup {Panic})
  /\ Trie!TypeOK

(* The routes by the address of the peer.                                  *)
SessionRoutes ==
  [ip \in IPs |-> IF ip \in DOMAIN peermapByIP THEN table[peermapByIP[ip].id]
                                               ELSE [n \in Nets |-> NoRoute]]

Sessions == INSTANCE AdjRib WITH Peers   <- IPs,
                                 Subnets <- Nets,
                                 rib     <- SessionRoutes

(* README.md's "Peer Awareness", with peers told apart by their addresses  *)
(* and not by the IDs the trie is keyed with: a step changes one route of  *)
(* one peer at most, new peers have none, and the table of a RIB, whatever *)
(* addresses it repeats, takes none away.                                  *)
ImplementsSessions ==
  /\ Sessions!Init
  /\ [][IdsFit' => UNCHANGED SessionRoutes \/ Sessions!Next]_vars

(* The peers of the RIB that has been read.                                *)
TablePeers ==
  LET tablesRead == {k \in DOMAIN read : read[k].type = "table"}
  IN  IF tablesRead = {} THEN <<>> ELSE read[Min(tablesRead)].peers

Repeated(k) == \E j \in DOMAIN TablePeers : j > k /\ TablePeers[j].ip = TablePeers[k].ip

(* A route can be withdrawn by the peer that announced it, as its ID is    *)
(* found by an address.  Only a RIB whose peer table has an address twice  *)
(* leaves routes that nobody can withdraw.                                 *)
NoGhostRoute ==
  IdsFit =>
    \A id \in Ids :
      (\E n \in Nets : table[id][n] # NoRoute) =>
        \/ \E ip \in DOMAIN peermapByIP : peermapByIP[ip].id = id
        \/ id + 1 \in DOMAIN TablePeers /\ Repeated(id + 1)

-----------------------------------------------------------------------------
(* A reference for what is read, record by record and not message by       *)
(* message.                                                                *)

(* The origins an announcement with these attributes may have: the last AS *)
(* of its only path, that of AS4_PATH if there is one.  Paths of several   *)
(* segments (AS sets), several paths, and no path leave it open.           *)
OriginsOf(attributes) ==
  LET paths(kind) == {k \in DOMAIN attributes : attributes[k].kind = kind}
      plain(kind) == \E k \in DOMAIN attributes : /\ paths(kind) = {k}
                                                  /\ Len(attributes[k].segments) = 1
                                                  /\ attributes[k].segments[1] # <<>>
      last(kind)  == {Last(attributes[k].segments[1]) : k \in paths(kind)}
  IN  IF ~plain("asPath") THEN Origins
      ELSE IF paths("as4Path") = {} THEN last("asPath")
      ELSE IF plain("as4Path") THEN last("as4Path")
      ELSE Origins

(* The first announcement of a RIS message counts, if its path has an AS   *)
(* before the first element that cannot be decoded.                        *)
AnnouncedBy(r, s) ==
  /\ r.announcements # <<>> /\ s \in ToSet(r.announcements[1])
  /\ \E k \in DOMAIN r.path : /\ r.path[k] # <<>>
                              /\ \A j \in 1..k : r.path[j] # Undecodable

(* The same for a RIS path, whose elements are sequences of ASes.          *)
OriginsOfPath(path) ==
  IF \E e \in ToSet(path) : e = Undecodable \/ Len(e) # 1
  THEN Origins
  ELSE ToSet(Last(path))

(* The routes of a peer for a subnet that record r may leave behind; none  *)
(* if it says nothing of them.  What an update both announces and          *)
(* withdraws is withdrawn in a file and announced in the live feed; for an *)
(* address that is repeated in the peer table its last position counts.    *)
Leaves(r, ip, s) ==
  CASE r.type = "rib" /\ r.prefix = s ->
         UNION {OriginsOf(e.attributes) :
                  e \in {e \in ToSet(r.entries) : /\ TablePeers[e.index + 1].ip = ip
                                                 /\ ~Repeated(e.index + 1)}}
    [] r.type = "update" /\ r.ip = ip /\ s \in ToSet(r.withdrawn) -> {NoRoute}
    [] r.type = "update" /\ r.ip = ip /\ s \in ToSet(r.announced) \ ToSet(r.withdrawn) ->
         OriginsOf(r.attributes)
    [] r.type = "ris" /\ r.ip = ip /\ AnnouncedBy(r, s) -> OriginsOfPath(r.path)
    [] r.type = "ris" /\ r.ip = ip /\ s \in ToSet(r.withdrawals) /\ ~AnnouncedBy(r, s) ->
         {NoRoute}
    [] OTHER -> {}

(* Whatever has been read so far, from however broken files, a peer's      *)
(* route of a subnet is what the last record that mentions the two says.   *)
RoutesAsSaid ==
  todo = <<>> /\ pc \notin {"stopped", "panicked"} /\ IdsFit =>
    \A ip \in IPs, s \in {s \in IPv4 : s.length > 0} :
      LET said == {k \in DOMAIN read : Leaves(read[k], ip, s) # {}}
      IN  SessionRoutes[ip][Bits[s]] \in
            IF said = {} THEN {NoRoute} ELSE Leaves(read[Max(said)], ip, s)

(* The origins at the end of the first segment of a path in a record about *)
(* subnet s; AS 0, if no AS_PATH begins with an AS.                        *)
Ends(attributes) ==
  LET firsts(kind) == {a.segments[1] : a \in {a \in ToSet(attributes) :
                                               a.kind = kind /\ a.segments # <<>>}} \ {<<>>}
  IN  {Last(g) : g \in firsts("asPath") \cup firsts("as4Path")}
        \cup (IF firsts("asPath") = {} THEN {0} ELSE {})

Mentioned(r, s) ==
  CASE r.type = "rib" /\ r.prefix = s -> UNION {Ends(e.attributes) : e \in ToSet(r.entries)}
    [] r.type = "update" /\ s \in ToSet(r.announced) -> Ends(r.attributes)
    [] r.type = "ris" /\ AnnouncedBy(r, s) ->
         UNION {ToSet(e) : e \in ToSet(r.path) \ {Undecodable}}
    [] OTHER -> {}

(* Every origin in the trie has been announced for just this subnet, if    *)
(* not by this peer: an entry of a RIB without a path may have the origin  *)
(* of another entry of its record, but not one of another record.          *)
NoInventedRoute ==
  \A id \in Ids, s \in {s \in IPv4 : s.length > 0} :
    table[id][Bits[s]] # NoRoute =>
      \E k \in DOMAIN read : table[id][Bits[s]] \in Mentioned(read[k], s)

-----------------------------------------------------------------------------
(* The records of the newest or the given RIB, then those of the updates   *)
(* files that do not begin before it, by time; without a RIB, of them all. *)
Following ==
  LET named(kind) == {n \in DOMAIN directory : n.kind = kind /\ n.parts = 3}
      first       == IF rib = NoFile THEN 0 ELSE rib.time
      times       == {n.time : n \in {n \in named("updates") : n.time >= first}}
      content(time) == directory[CHOOSE n \in named("updates") : n.time = time]
  IN  (IF rib = NoFile THEN <<>> ELSE directory[rib])
        \o FlattenSeq([k \in 1..Cardinality(times) |->
                          content(CHOOSE x \in times :
                                    Cardinality({y \in times : y <= x}) = k)])

(* The records read, whether they were skipped or not.                     *)
AllRead == [k \in DOMAIN read |-> IF read[k].type = "skipped" THEN read[k].record
                                                             ELSE read[k]]

(* README.md: the given or "the newest RIB and all following updates files"*)
(* are read, all their records in order, before the first RIS message,     *)
(* unless reading one of them fails.  The newest has the last date.        *)
FollowingFilesRead ==
  pc \in {"live", "ended"} /\ ~failed =>
    /\ IsPrefix(Following, AllRead)
    /\ flags.rib = NoFile => \A n \in DOMAIN directory :
                              n.kind = "rib" => n.time <= rib.time

-----------------------------------------------------------------------------
(* The addresses of a prefix, as numbers.                                  *)
Addresses(s) ==
  LET size == Pow2[AddressBits - s.length]
  IN  {a \in 0..(Pow2[AddressBits] - 1) : a \div size = Number(s.ip) \div size}

(* Two subnets with routes overlap in the trie, as one's bits are the      *)
(* beginning of the other's, just when they have an address in common,     *)
(* which is what README.md calls a conflict.                               *)
OverlapIsShared ==
  \A s, t \in {s \in IPv4 : \E id \in Ids, n \in Nets :
                              n = Bits[s] /\ table[id][n] # NoRoute} :
    IsPrefix(Bits[s], Bits[t]) \/ IsPrefix(Bits[t], Bits[s])
      <=> Addresses(s) \cap Addresses(t) # {}

(* The files are read to their end, whatever is in them, and the program   *)
(* goes on to the feed or ends; and every RIS message is done with.        *)
FilesEnd ==
  /\ <>(pc \in {"live", "ended", "stopped", "returned", "panicked"})
  /\ todo # <<>> ~> todo = <<>>
=============================================================================
