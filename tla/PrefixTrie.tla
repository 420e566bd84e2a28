----------------------------- MODULE PrefixTrie -----------------------------
(***************************************************************************)
(* The trie of IPv4 subnets (PrefixTrie.go), filled first with the special *)
(* prefixes (RelevantPrefixes.go), then with the routes of a RIB, then     *)
(* with the announcements and withdrawals of the updates files and of the  *)
(* live feed, and searched for conflicts at every insertion.               *)
(*                                                                         *)
(* A node is named by representedNet, the bits of its subnet.  The message *)
(* stored at a node is reduced to the fields the trie reads: its subnet is *)
(* the node itself, and timestamp and AS path play no part here.           *)
(*                                                                         *)
(* The recursive traversals of the code are given here by what they        *)
(* compute; module TrieWalk follows them call by call and is checked       *)
(* against these definitions.                                              *)
(***************************************************************************)
EXTENDS Naturals, FiniteSets, SequencesExt

CONSTANTS W,                  (* bits of an address: 32 in the code        *)
          Subnets,            (* the subnets the messages are about        *)
          Peers,              (* the peer IDs                              *)
          Origins,            (* the origin ASes                           *)
          SpecialPrefixes,    (* the lines of the prefixes file            *)
          FindConflictsInRib, (* the flag -ribconflicts                    *)
          StopTimeSet,        (* the flag -endlive is given                *)
          NoRoute             (* a peer announces no route for a subnet    *)

(* The nets a node can represent: one bit at least, W bits at most.        *)
Nets == UNION {[1..k -> {0, 1}] : k \in 1..W}

ASSUME ConstantsAssumption ==
  /\ W \in Nat \ {0}
  /\ Subnets \subseteq Nets \cup {<<>>}   (* <<>> is the default route     *)
  /\ SpecialPrefixes \subseteq Nets
  /\ FindConflictsInRib \in BOOLEAN
  /\ StopTimeSet \in BOOLEAN
  /\ NoRoute \notin Origins

VARIABLES
  phase,               (* what main is reading                             *)
  nodes,               (* the nodes that exist                             *)
  activeAnnouncments,  (* per net, oldest first; <<>> if there is no node  *)
  relevant,            (* per net, the node's flag; FALSE if there is none *)
  search,              (* the search of the last step, {} if it made none  *)
  listed,              (* history: the special prefixes inserted so far    *)
  known,               (* history: the pairs of active routes reported     *)
                       (* since both are active                            *)
  silent               (* history: the active routes that became active in *)
                       (* a step that does not search                      *)

trie == <<nodes, activeAnnouncments, relevant>>
history == <<listed, known, silent>>
vars == <<phase, trie, search, history>>

Phases == {"prefixes", "rib", "updates", "stopped"}

Announcement == [origin : Origins, peerID : Peers, alreadyAnnounced : BOOLEAN]

Route == Nets \X Origins

Conflict == [subnet : Nets, origin : Origins, peerID : Peers]

(* A search and its outcome.  It is written to the conflicts file when     *)
(* conflictingMessages is not empty, and printed when relevant holds too.  *)
Search == [referenceAnnouncement : Route,
           alreadyAnnounced      : BOOLEAN,
           conflictingMessages   : SUBSET Conflict,
           relevant              : BOOLEAN]

-----------------------------------------------------------------------------
(* Descending from the root to the node of a subnet.                       *)

(* Faulty variant: the root is a node too, with an empty net.              *)
PathWithRoot(n) == {q \in Nets \cup {<<>>} : IsPrefix(q, n)}

(* Faulty variant: a compressed trie, without the nodes in between.        *)
PathCompressed(n) == {n}

(* The nodes on the way to net n, which the descent creates when missing.  *)
Path(n) == {q \in Nets : IsPrefix(q, n)}

(* The node from which the descent to q starts creating nodes.             *)
DeepestNode(q) ==
  CHOOSE a \in nodes : /\ IsPrefix(a, q)
                       /\ \A b \in nodes : IsPrefix(b, q) => Len(b) <= Len(a)

(* Faulty variant: a new node does not inherit the flag.                   *)
NothingInherited(n) == relevant

(* A new node inherits the flag of the node it is created under; a node    *)
(* that exists keeps its own.                                              *)
RelevantAfterDescent(n) ==
  [q \in Nets |-> IF q \in Path(n) \ nodes THEN relevant[DeepestNode(q)]
                                           ELSE relevant[q]]

-----------------------------------------------------------------------------
(* The loop over the announcements of the node.  It deletes entry i while  *)
(* it iterates: the entry that moves to position i is skipped.             *)

(* Faulty variant: the loop starts at index 1.                             *)
DeletedFromSecond(list, p) ==
  {i \in DOMAIN list \ {1} : list[i].peerID = p}

(* Faulty variant: the announcements of every peer are deleted.            *)
DeletedOfAnyPeer(list, p) == DOMAIN list

Deleted(list, p) ==
  CHOOSE D \in SUBSET DOMAIN list :
    \A i \in DOMAIN list : i \in D <=> list[i].peerID = p /\ i - 1 \notin D

Visited(list, p) == {i \in DOMAIN list : i - 1 \notin Deleted(list, p)}

(* Faulty variant: the peer is compared and not the origin.                *)
AlreadyAnnouncedByPeer(list, p, o) ==
  \E i \in Visited(list, p) : list[i].peerID = p

AlreadyAnnounced(list, p, o) ==
  \E i \in Visited(list, p) : list[i].origin = o

(* The j-th smallest number in S.                                          *)
Nth(S, j) == CHOOSE i \in S : Cardinality({k \in S : k <= i}) = j

Remaining(list, p) ==
  LET kept == DOMAIN list \ Deleted(list, p)
  IN  [j \in 1..Cardinality(kept) |-> list[Nth(kept, j)]]

AfterAnnouncement(list, p, o) ==
  Append(Remaining(list, p),
         [origin           |-> o,
          peerID           |-> p,
          alreadyAnnounced |-> AlreadyAnnounced(list, p, o)])

-----------------------------------------------------------------------------
(* Searching for the conflicts of an announcement of origin o.             *)

(* Faulty variant: one conflict for each peer that announces the origin.   *)
EveryPeersConflict(active, q, o) ==
  {[subnet |-> q, origin |-> a.origin, peerID |-> a.peerID] :
     a \in {a \in ToSet(active[q]) : a.origin # o}}

(* At one level: the newest announcement of every other origin.            *)
ConflictsThisLevel(active, q, o) ==
  LET list == active[q]
      newest == {i \in DOMAIN list :
                   /\ list[i].origin # o
                   /\ \A k \in DOMAIN list :
                        k > i => list[k].origin # list[i].origin}
  IN  {[subnet |-> q, origin |-> list[i].origin, peerID |-> list[i].peerID] :
         i \in newest}

(* Faulty variant: any peer's mark stops the search.                       *)
SuppressedByAnyPeer(active, n, p) ==
  \E i \in DOMAIN active[n] : active[n][i].alreadyAnnounced

(* The search stops where it starts when peer p's announcement at n is     *)
(* marked; otherwise it climbs to the root and visits the subtrie.         *)
Suppressed(active, n, p) ==
  \E i \in DOMAIN active[n] : /\ active[n][i].peerID = p
                              /\ active[n][i].alreadyAnnounced

Overlap(m, n) == IsPrefix(m, n) \/ IsPrefix(n, m)

(* Faulty variant: the subtrie is not visited.                             *)
FindConflictsAbove(active, existing, n, p, o) ==
  IF Suppressed(active, n, p)
  THEN {}
  ELSE UNION {ConflictsThisLevel(active, q, o) :
                q \in {q \in existing : IsPrefix(q, n)}}

FindConflicts(active, existing, n, p, o) ==
  IF Suppressed(active, n, p)
  THEN {}
  ELSE UNION {ConflictsThisLevel(active, q, o) :
                q \in {q \in existing : Overlap(q, n)}}

-----------------------------------------------------------------------------
(* Bookkeeping for the properties.                                         *)

ActiveRoutes(active) ==
  UNION {{<<q, active[q][i].origin>> : i \in DOMAIN active[q]} : q \in Nets}

Conflicting(r, s) == r[2] # s[2] /\ Overlap(r[1], s[1])

(* The pairs of routes in a conflict record.                               *)
Reported(r, conflicts) == {{r, <<c.subnet, c.origin>>} : c \in conflicts}

(* Step to the table active; the search it makes reports the pairs new.    *)
Record(active, new) ==
  known' = {pair \in known : pair \subseteq ActiveRoutes(active)} \cup new

-----------------------------------------------------------------------------
Init ==
  /\ phase = "prefixes"
  /\ nodes = {<<0>>, <<1>>}
  /\ activeAnnouncments = [q \in Nets |-> <<>>]
  /\ relevant = [q \in Nets |-> FALSE]
  /\ search = {}
  /\ listed = {} /\ known = {} /\ silent = {}

(* Faulty variant: every node on the way is marked.                        *)
MarkWholePath(n) ==
  /\ phase = "prefixes"
  /\ nodes' = nodes \cup Path(n)
  /\ relevant' = [q \in Nets |-> relevant[q] \/ q \in Path(n)]
  /\ listed' = listed \cup {n}
  /\ UNCHANGED <<phase, activeAnnouncments, search, known, silent>>

(* One line of the prefixes file.                                          *)
ReadSpecialPrefix(n) ==
  /\ phase = "prefixes"
  /\ nodes' = nodes \cup Path(n)
  /\ relevant' = [RelevantAfterDescent(n) EXCEPT ![n] = TRUE]
  /\ listed' = listed \cup {n}
  /\ UNCHANGED <<phase, activeAnnouncments, search, known, silent>>

(* main goes on to the RIB, if there is one, and then to the updates.      *)
StartRib ==
  /\ phase = "prefixes"
  /\ phase' = "rib"
  /\ search' = {}
  /\ UNCHANGED <<trie, history>>

StartUpdates ==
  /\ phase \in {"prefixes", "rib"}
  /\ phase' = "updates"
  /\ search' = {}
  /\ UNCHANGED <<trie, history>>

Running == phase \in {"rib", "updates"}

Searching == phase = "updates" \/ FindConflictsInRib

Announce(n, p, o) ==
  /\ Running
  /\ n # <<>>
  /\ LET route   == <<n, o>>
         active  == [activeAnnouncments EXCEPT ![n] = AfterAnnouncement(@, p, o)]
         marked  == AlreadyAnnounced(activeAnnouncments[n], p, o)
         found   == IF Searching THEN FindConflicts(active, nodes', n, p, o)
                                 ELSE {}
         started == IF ~Searching /\ route \notin ActiveRoutes(activeAnnouncments)
                    THEN {route} ELSE {}
     IN  /\ nodes' = nodes \cup Path(n)
         /\ relevant' = RelevantAfterDescent(n)
         /\ activeAnnouncments' = active
         /\ search' = IF Searching
                      THEN {[referenceAnnouncement |-> route,
                             alreadyAnnounced      |-> marked,
                             conflictingMessages   |-> found,
                             relevant |-> \/ relevant'[n]
                                          \/ \E c \in found : relevant'[c.subnet]]}
                      ELSE {}
         /\ Record(active, Reported(route, found))
         /\ silent' = (silent \cap ActiveRoutes(active)) \cup started
  /\ UNCHANGED <<phase, listed>>

(* A withdrawal descends like an announcement, creating the nodes it       *)
(* misses, and is never searched for.  A RIB has no withdrawals.           *)
Withdraw(n, p) ==
  /\ phase = "updates"
  /\ n # <<>>
  /\ LET active == [activeAnnouncments EXCEPT ![n] = Remaining(@, p)]
     IN  /\ nodes' = nodes \cup Path(n)
         /\ relevant' = RelevantAfterDescent(n)
         /\ activeAnnouncments' = active
         /\ Record(active, {})
         /\ silent' = silent \cap ActiveRoutes(active)
  /\ search' = {}
  /\ UNCHANGED <<phase, listed>>

(* A message for a subnet of length 0, or for an IPv6 subnet.              *)
Discard(n) ==
  /\ Running
  /\ n = <<>>
  /\ search' = {}
  /\ UNCHANGED <<phase, trie, history>>

(* A message is handled after the stop time: cleanup and exit.             *)
StopTimeReached ==
  /\ StopTimeSet
  /\ Running
  /\ phase' = "stopped"
  /\ search' = {}
  /\ UNCHANGED <<trie, history>>

Next ==
  \/ \E n \in SpecialPrefixes : ReadSpecialPrefix(n)
  \/ StartRib
  \/ StartUpdates
  \/ \E n \in Subnets, p \in Peers : \/ \E o \in Origins : Announce(n, p, o)
                                     \/ Withdraw(n, p)
  \/ \E n \in Subnets : Discard(n)
  \/ StopTimeReached

Spec == Init /\ [][Next]_vars

-----------------------------------------------------------------------------
(* Every variable has the type its declaration gives it.                   *)
TypeOK ==
  /\ phase \in Phases
  /\ nodes \subseteq Nets
  /\ activeAnnouncments \in [Nets -> Seq(Announcement)]
  /\ relevant \in [Nets -> BOOLEAN]
  /\ search \subseteq Search
  /\ listed \subseteq SpecialPrefixes
  /\ known \subseteq SUBSET Route
  /\ silent \subseteq Route

(* No peer has two active announcements of one subnet, although the loop   *)
(* that deletes its previous one skips the entry after each deletion.      *)
OneAnnouncementPerPeer ==
  \A q \in Nets : \A i, j \in DOMAIN activeAnnouncments[q] :
    activeAnnouncments[q][i].peerID = activeAnnouncments[q][j].peerID => i = j

(* The trie is connected and holds every announcement: climbing from a     *)
(* node meets every node above it, the subtrie every node below it, so no  *)
(* announcement is out of reach of the search.                             *)
NothingOutOfReach ==
  /\ \A q \in nodes, m \in Nets : IsPrefix(m, q) => m \in nodes
  /\ \A q \in Nets : activeAnnouncments[q] # <<>> => q \in nodes

(* No conflict is missed: two active routes that overlap and differ in     *)
(* origin have been reported since both are active, unless both became     *)
(* active while the RIB was read without looking for conflicts.  This is   *)
(* what "alreadyAnnounced" must not break when it cuts a search short.     *)
NoMissedConflict ==
  \A r, s \in ActiveRoutes(activeAnnouncments) :
    Conflicting(r, s) => {r, s} \in known \/ {r, s} \subseteq silent

(* With -ribconflicts, or without a RIB, no conflict at all is missed.     *)
AllConflictsKnown ==
  \A r, s \in ActiveRoutes(activeAnnouncments) :
    Conflicting(r, s) => {r, s} \in known

(* A conflict is printed only if a special prefix is involved: the flag of *)
(* a node, inherited or set, always comes from a special prefix above it.  *)
NoFalseAlert ==
  \A q \in Nets : relevant[q] => \E n \in listed : IsPrefix(n, q)

(* A conflict that involves a route for a special prefix, or for a more    *)
(* specific subnet, is printed.                                            *)
EveryAlertGiven ==
  \A s \in search :
    LET subnets == {s.referenceAnnouncement[1]} \cup
                   {c.subnet : c \in s.conflictingMessages}
    IN  (\E q \in subnets, n \in listed : IsPrefix(n, q)) => s.relevant

(* The record of one search names every conflicting route once, so         *)
(* countConflicts counts routes and not peers.                             *)
RoutesReportedOnce ==
  \A s \in search : \A c, d \in s.conflictingMessages :
    c.subnet = d.subnet /\ c.origin = d.origin => c = d

(* A conflict that is still active is not reported over and over again.    *)
NoRepeatedReport ==
  [][\A s \in search' :
       Reported(s.referenceAnnouncement, s.conflictingMessages) \cap known = {}]_vars

(* When a search is cut short at an announcement marked as already made,   *)
(* all the conflicts of its route have been found before.                  *)
SuppressedWasReported ==
  [][\A s \in search' : s.alreadyAnnounced =>
       \A r \in ActiveRoutes(activeAnnouncments') :
         Conflicting(s.referenceAnnouncement, r) =>
           {s.referenceAnnouncement, r} \in known]_vars

-----------------------------------------------------------------------------
(* The table of routes the trie stands for, and its specification.         *)

AnnouncedOrigin(list, p) ==
  IF \E i \in DOMAIN list : list[i].peerID = p
  THEN list[CHOOSE i \in DOMAIN list : list[i].peerID = p].origin
  ELSE NoRoute

AnnouncedOrigins ==
  [p \in Peers |-> [n \in Subnets \ {<<>>} |->
                     AnnouncedOrigin(activeAnnouncments[n], p)]]

Rib == INSTANCE AdjRib WITH Subnets <- Subnets \ {<<>>}, rib <- AnnouncedOrigins

(* The trie implements the table of routes: an announcement replaces the   *)
(* one of the same peer for the same subnet, a withdrawal removes it, and  *)
(* nothing else adds, removes or changes a route.                          *)
ImplementsAdjRib == Rib!Spec
=============================================================================
