-------------------------- MODULE PrefixTrieProofs --------------------------
(***************************************************************************)
(* Proofs about the trie, for every set of peers, origins, subnets and     *)
(* special prefixes and every length W of an address.                      *)
(***************************************************************************)
EXTENDS PrefixTrie, FiniteSetTheorems, WellFoundedInduction, TLAPS

-----------------------------------------------------------------------------
(* The loop over the announcements of a node.                              *)

(* Every peer has one entry at most.                                       *)
OnePerPeer(list) ==
  \A i, j \in DOMAIN list : list[i].peerID = list[j].peerID => i = j

OwnEntries(list, p) == {i \in DOMAIN list : list[i].peerID = p}

(* When every peer has one entry at most the loop skips no entry of the    *)
(* peer: it deletes them all.                                              *)
LEMMA DeletedIsOwnEntries ==
  ASSUME NEW list \in Seq(Announcement), OnePerPeer(list), NEW p
  PROVE  Deleted(list, p) = OwnEntries(list, p)
<1> DEFINE Fits(D) == \A i \in DOMAIN list :
                        i \in D <=> list[i].peerID = p /\ i - 1 \notin D
<1>1. DOMAIN list = 1..Len(list) /\ Len(list) \in Nat
  OBVIOUS
<1>2. OwnEntries(list, p) \in SUBSET DOMAIN list
  BY DEF OwnEntries
<1>3. \A i \in DOMAIN list : i \in OwnEntries(list, p) => i - 1 \notin OwnEntries(list, p)
  BY <1>1 DEF OwnEntries, OnePerPeer
<1>4. Fits(OwnEntries(list, p))
  BY <1>3 DEF OwnEntries
<1>5. ASSUME NEW D \in SUBSET DOMAIN list, Fits(D)
      PROVE  D = OwnEntries(list, p)
  <2>1. D \subseteq OwnEntries(list, p)
    BY <1>5 DEF OwnEntries
  <2>2. OwnEntries(list, p) \subseteq D
    BY <2>1, <1>3, <1>5 DEF OwnEntries
  <2> QED
    BY <2>1, <2>2
<1>6. \E D \in SUBSET DOMAIN list : Fits(D)
  BY <1>2, <1>4
<1> QED
  BY <1>5, <1>6 DEF Deleted

LEMMA CardinalityOfInterval ==
  ASSUME NEW n \in Nat
  PROVE  IsFiniteSet(1..n) /\ Cardinality(1..n) = n
<1>1. CASE n = 0
  <2>1. 1..n = {}
    BY <1>1
  <2> QED
    BY <2>1, <1>1, FS_EmptySet
<1>2. CASE n > 0
  BY <1>2, FS_Interval
<1> QED
  BY <1>1, <1>2

LEMMA CardinalityUpTo ==
  ASSUME NEW n \in Nat, NEW i \in 1..n
  PROVE  Cardinality({k \in 1..n : k <= i}) = i
<1>1. {k \in 1..n : k <= i} = 1..i
  OBVIOUS
<1>2. Cardinality(1..i) = i
  BY CardinalityOfInterval
<1> QED
  BY <1>1, <1>2, Zenon

(* All of 1..n in order.                                                   *)
LEMMA NthOfAll ==
  ASSUME NEW n \in Nat, NEW j \in 1..n
  PROVE  Nth(1..n, j) = j
<1>1. \A i \in 1..n : Cardinality({k \in 1..n : k <= i}) = i
  BY CardinalityUpTo
<1> QED
  BY <1>1 DEF Nth

(* 1..n without d in order.                                                *)
LEMMA NthWithoutOne ==
  ASSUME NEW n \in Nat, NEW d \in 1..n, NEW j \in 1..(n - 1)
  PROVE  Nth((1..n) \ {d}, j) = IF j < d THEN j ELSE j + 1
<1> DEFINE S == (1..n) \ {d}
           UpTo(i) == {k \in 1..n : k <= i}
<1>1. \A i \in S : Cardinality({k \in S : k <= i}) = IF i < d THEN i ELSE i - 1
  <2> TAKE i \in S
  <2>1. {k \in S : k <= i} = UpTo(i) \ {d}
    OBVIOUS
  <2>2. IsFiniteSet(UpTo(i)) /\ Cardinality(UpTo(i)) = i
    <3>1. UpTo(i) = 1..i
      OBVIOUS
    <3>2. IsFiniteSet(1..i) /\ Cardinality(1..i) = i
      BY CardinalityOfInterval
    <3> QED
      BY <3>1, <3>2
  <2>3. d \in UpTo(i) <=> ~(i < d)
    OBVIOUS
  <2> QED
    BY <2>1, <2>2, <2>3, FS_RemoveElement
<1>2. (IF j < d THEN j ELSE j + 1) \in S
  OBVIOUS
<1>3. \A i \in S : Cardinality({k \in S : k <= i}) = j
                     <=> i = IF j < d THEN j ELSE j + 1
  BY <1>1
<1> HIDE DEF S
<1>4. Nth(S, j) = IF j < d THEN j ELSE j + 1
  BY <1>2, <1>3 DEF Nth
<1> QED
  BY <1>4 DEF S

(* What the loop leaves of a list with one entry for every peer: the       *)
(* entries of the other peers, each of them once.                          *)
LEMMA RemainingEntries ==
  ASSUME NEW list \in Seq(Announcement), OnePerPeer(list), NEW p
  PROVE  /\ Remaining(list, p) \in Seq(Announcement)
         /\ OnePerPeer(Remaining(list, p))
         /\ \A i \in DOMAIN Remaining(list, p) :
              /\ Remaining(list, p)[i].peerID # p
              /\ \E j \in DOMAIN list : Remaining(list, p)[i] = list[j]
         /\ \A j \in DOMAIN list : list[j].peerID # p =>
              \E i \in DOMAIN Remaining(list, p) : Remaining(list, p)[i] = list[j]
<1> DEFINE n == Len(list)
           kept == DOMAIN list \ OwnEntries(list, p)
<1>1. n \in Nat /\ DOMAIN list = 1..n /\ \A i \in 1..n : list[i] \in Announcement
  OBVIOUS
<1>2. Remaining(list, p) = [j \in 1..Cardinality(kept) |-> list[Nth(kept, j)]]
  BY DeletedIsOwnEntries DEF Remaining
<1>3. CASE OwnEntries(list, p) = {}
  <2>1b. Cardinality(1..n) = n
    BY <1>1, CardinalityOfInterval
  <2>1. kept = 1..n /\ Cardinality(kept) = n
    BY <1>1, <1>3, <2>1b
  <2>2. Remaining(list, p) = [j \in 1..n |-> list[j]]
    BY <1>2, <2>1, NthOfAll, <1>1
  <2>3. Remaining(list, p) = list
    BY <2>2, <1>1
  <2> QED
    BY <2>3, <1>3, <1>1 DEF OwnEntries
<1>4. CASE OwnEntries(list, p) # {}
  <2>1. PICK d \in 1..n : OwnEntries(list, p) = {d}
    BY <1>4, <1>1 DEF OwnEntries, OnePerPeer
  <2>1b. IsFiniteSet(1..n) /\ Cardinality(1..n) = n
    BY <1>1, CardinalityOfInterval
  <2>1a. Cardinality((1..n) \ {d}) = n - 1
    BY <2>1b, FS_RemoveElement
  <2>2. kept = (1..n) \ {d} /\ Cardinality(kept) = n - 1
    BY <1>1, <2>1, <2>1a
  <2> DEFINE from(j) == IF j < d THEN j ELSE j + 1
  <2>3. Remaining(list, p) = [j \in 1..(n - 1) |-> list[from(j)]]
    BY <1>2, <2>2, NthWithoutOne, <1>1
  <2>4. \A j \in 1..(n - 1) : from(j) \in 1..n /\ from(j) # d
    OBVIOUS
  <2>5. \A i \in 1..n : i # d => \E j \in 1..(n - 1) : from(j) = i
    <3> TAKE i \in 1..n
    <3>1. i < d => i \in 1..(n - 1) /\ from(i) = i
      OBVIOUS
    <3>2. i > d => i - 1 \in 1..(n - 1) /\ from(i - 1) = i
      OBVIOUS
    <3> QED
      BY <3>1, <3>2
  <2>6. \A i, j \in 1..(n - 1) : from(i) = from(j) => i = j
    OBVIOUS
  <2> HIDE DEF from
  <2>7. DOMAIN Remaining(list, p) = 1..(n - 1) /\ n - 1 \in Nat
    BY <2>3, <1>1
  <2>8. \A i \in 1..(n - 1) : Remaining(list, p)[i] = list[from(i)]
    BY <2>3
  <2>9. \A i \in 1..n : i # d <=> list[i].peerID # p
    BY <2>1, <1>1 DEF OwnEntries
  <2>10. Remaining(list, p) \in Seq(Announcement)
    BY <2>3, <2>4, <1>1, <2>7
  <2>11. OnePerPeer(Remaining(list, p))
    BY <2>4, <2>6, <2>7, <2>8, <1>1 DEF OnePerPeer
  <2> QED
    BY <2>4, <2>5, <2>7, <2>8, <2>9, <2>10, <2>11, <1>1
<1> QED
  BY <1>3, <1>4

(* What an announcement makes of the list: the remaining entries and, last,*)
(* its own.                                                                *)
LEMMA EntriesAfterAnnouncement ==
  ASSUME NEW list \in Seq(Announcement), OnePerPeer(list),
         NEW p \in Peers, NEW o \in Origins,
         NEW new, new = [origin |-> o, peerID |-> p,
                         alreadyAnnounced |-> AlreadyAnnounced(list, p, o)]
  PROVE  /\ AfterAnnouncement(list, p, o) \in Seq(Announcement)
         /\ OnePerPeer(AfterAnnouncement(list, p, o))
         /\ \A i \in DOMAIN AfterAnnouncement(list, p, o) :
              \/ AfterAnnouncement(list, p, o)[i] = new
              \/ /\ AfterAnnouncement(list, p, o)[i].peerID # p
                 /\ \E j \in DOMAIN list : AfterAnnouncement(list, p, o)[i] = list[j]
         /\ \A j \in DOMAIN list : list[j].peerID # p =>
              \E i \in DOMAIN AfterAnnouncement(list, p, o) :
                AfterAnnouncement(list, p, o)[i] = list[j]
         /\ \E i \in DOMAIN AfterAnnouncement(list, p, o) :
              AfterAnnouncement(list, p, o)[i] = new
<1> DEFINE rest == Remaining(list, p)
           after == AfterAnnouncement(list, p, o)
<1>1. new \in Announcement
  BY DEF Announcement, AlreadyAnnounced
<1>2. /\ rest \in Seq(Announcement)
      /\ OnePerPeer(rest)
      /\ \A i \in DOMAIN rest :
           /\ rest[i].peerID # p
           /\ \E j \in DOMAIN list : rest[i] = list[j]
      /\ \A j \in DOMAIN list : list[j].peerID # p =>
           \E i \in DOMAIN rest : rest[i] = list[j]
  BY RemainingEntries
<1>5. after = Append(rest, new)
  BY DEF AfterAnnouncement
<1> HIDE DEF rest, after
<1>6. /\ after \in Seq(Announcement)
      /\ DOMAIN rest = 1..Len(rest) /\ Len(rest) \in Nat
      /\ DOMAIN after = 1..(Len(rest) + 1)
      /\ after[Len(rest) + 1] = new
      /\ \A i \in DOMAIN rest : after[i] = rest[i]
  BY <1>1, <1>2, <1>5
<1>7. \A i \in DOMAIN after : i \in DOMAIN rest \/ i = Len(rest) + 1
  BY <1>6
<1>8. OnePerPeer(after)
  BY <1>1, <1>2, <1>6, <1>7 DEF OnePerPeer
<1>9. \A i \in DOMAIN after :
        \/ after[i] = new
        \/ after[i].peerID # p /\ \E j \in DOMAIN list : after[i] = list[j]
  BY <1>2, <1>6, <1>7
<1>10. DOMAIN rest \subseteq DOMAIN after /\ Len(rest) + 1 \in DOMAIN after
  BY <1>6
<1>11. \A j \in DOMAIN list : list[j].peerID # p =>
         \E i \in DOMAIN after : after[i] = list[j]
  <2> SUFFICES ASSUME NEW j \in DOMAIN list, list[j].peerID # p
               PROVE  \E i \in DOMAIN after : after[i] = list[j]
    OBVIOUS
  <2>1. PICK i \in DOMAIN rest : rest[i] = list[j]
    BY <1>2
  <2>2. i \in DOMAIN after /\ after[i] = list[j]
    BY <1>6, <2>1
  <2> QED
    BY <2>2
<1> QED
  BY <1>6, <1>8, <1>9, <1>10, <1>11 DEF after

-----------------------------------------------------------------------------
(* The descent.                                                            *)

(* The two children of the root are there.                                 *)
RootsExist == <<0>> \in nodes /\ <<1>> \in nodes

LEMMA NetsAreSequences ==
  ASSUME NEW q \in Nets
  PROVE  /\ q \in Seq({0, 1})
         /\ Len(q) \in 1..W
         /\ DOMAIN q = 1..Len(q)
         /\ q # <<>>
<1>1. PICK k \in 1..W : q \in [1..k -> {0, 1}]
  BY DEF Nets
<1>2. k \in Nat
  BY <1>1, ConstantsAssumption
<1>3. q \in Seq({0, 1}) /\ Len(q) = k
  BY <1>1, <1>2
<1> QED
  BY <1>1, <1>2, <1>3, ConstantsAssumption

(* A prefix agrees with the longer net bit by bit.                         *)
LEMMA PrefixBits ==
  ASSUME NEW a \in Nets, NEW b \in Nets
  PROVE  IsPrefix(a, b) <=> Len(a) <= Len(b) /\ \A i \in 1..Len(a) : a[i] = b[i]
<1>1. /\ a \in Seq({0, 1}) /\ b \in Seq({0, 1})
      /\ Len(a) \in Nat /\ Len(b) \in Nat
  BY NetsAreSequences, ConstantsAssumption
<1>2. SubSeq(a, 1, Len(a)) = [i \in 1..Len(a) |-> a[i]]
  BY <1>1
<1>3. Len(a) <= Len(b) => SubSeq(b, 1, Len(a)) = [i \in 1..Len(a) |-> b[i]]
  BY <1>1
<1> QED
  BY <1>2, <1>3 DEF IsPrefix

LEMMA PrefixReflexive ==
  ASSUME NEW a \in Nets
  PROVE  IsPrefix(a, a)
BY PrefixBits, NetsAreSequences, ConstantsAssumption

LEMMA PrefixTransitive ==
  ASSUME NEW a \in Nets, NEW b \in Nets, NEW c \in Nets,
         IsPrefix(a, b), IsPrefix(b, c)
  PROVE  IsPrefix(a, c)
<1>1. Len(a) \in 1..W /\ Len(b) \in 1..W /\ Len(c) \in 1..W
  BY NetsAreSequences
<1> QED
  BY <1>1, PrefixBits, ConstantsAssumption

(* The descent always starts creating nodes from a node: for every net     *)
(* there is a deepest node on the way to it.                               *)
LEMMA DeepestNodeExists ==
  ASSUME nodes \subseteq Nets, RootsExist, NEW q \in Nets
  PROVE  /\ DeepestNode(q) \in nodes
         /\ IsPrefix(DeepestNode(q), q)
         /\ \A b \in nodes : IsPrefix(b, q) => Len(b) <= Len(DeepestNode(q))
<1> DEFINE Above == {a \in nodes : IsPrefix(a, q)}
           Depths == {W - Len(a) : a \in Above}
<1>1. \A a \in Nets : W - Len(a) \in Nat
  BY NetsAreSequences, ConstantsAssumption
<1>2. <<q[1]>> \in Above
  <2>1. q[1] \in {0, 1} /\ Len(q) >= 1
    BY NetsAreSequences, ConstantsAssumption
  <2>2. <<q[1]>> \in nodes /\ <<q[1]>> \in Nets
    BY <2>1 DEF RootsExist
  <2> DEFINE c == <<q[1]>>
  <2>3. Len(c) = 1 /\ c[1] = q[1]
    OBVIOUS
  <2> HIDE DEF c
  <2>4. c \in Nets /\ c \in nodes
    BY <2>2 DEF c
  <2>5. Len(q) \in Nat
    BY NetsAreSequences, ConstantsAssumption
  <2>6. Len(c) <= Len(q) /\ \A i \in 1..Len(c) : c[i] = q[i]
    BY <2>1, <2>3, <2>5
  <2>7. IsPrefix(c, q)
    BY <2>4, <2>6, PrefixBits
  <2> QED
    BY <2>4, <2>7 DEF c
<1>3. Depths \subseteq Nat /\ Depths # {}
  BY <1>1, <1>2
<1> HIDE DEF Depths
<1>4. PICK d \in Depths : \A e \in Depths : <<e, d>> \notin OpToRel(<, Nat)
  BY <1>3, NatLessThanWellFounded, WFMin
<1>5. \A e \in Depths : ~(e < d)
  BY <1>3, <1>4 DEF OpToRel
<1>6. PICK a \in Above : d = W - Len(a)
  BY <1>4 DEF Depths
<1>7. \A b \in Above : Len(b) <= Len(a)
  <2> TAKE b \in Above
  <2>1. W - Len(b) \in Depths
    BY DEF Depths
  <2>2. ~(W - Len(b) < W - Len(a))
    BY <1>5, <1>6, <2>1
  <2>3. Len(a) \in 1..W /\ Len(b) \in 1..W
    BY NetsAreSequences
  <2> QED
    BY <2>2, <2>3, ConstantsAssumption
<1>8. \E c \in nodes : /\ IsPrefix(c, q)
                       /\ \A b \in nodes : IsPrefix(b, q) => Len(b) <= Len(c)
  BY <1>6, <1>7
<1> HIDE DEF Above
<1> QED
  BY <1>8 DEF DeepestNode

LEMMA DescentType ==
  ASSUME nodes \subseteq Nets, RootsExist, relevant \in [Nets -> BOOLEAN], NEW n
  PROVE  /\ RelevantAfterDescent(n) \in [Nets -> BOOLEAN]
         /\ nodes \cup Path(n) \subseteq Nets
<1>1. \A q \in Nets : relevant[DeepestNode(q)] \in BOOLEAN
  BY DeepestNodeExists
<1> QED
  BY <1>1 DEF RelevantAfterDescent, Path

-----------------------------------------------------------------------------
(* Types and one announcement per peer.                                    *)

Tables == [Nets -> Seq(Announcement)]

LEMMA ActiveRoutesType ==
  ASSUME NEW active \in Tables
  PROVE  ActiveRoutes(active) \subseteq Route
<1> SUFFICES ASSUME NEW q \in Nets, NEW i \in DOMAIN active[q]
             PROVE  <<q, active[q][i].origin>> \in Route
  BY DEF ActiveRoutes
<1>1. active[q][i] \in Announcement
  BY DEF Tables
<1> QED
  BY <1>1 DEF Announcement, Route

LEMMA FindConflictsType ==
  ASSUME NEW active \in Tables, NEW existing \in SUBSET Nets,
         NEW n, NEW p, NEW o
  PROVE  FindConflicts(active, existing, n, p, o) \subseteq Conflict
<1>1. ASSUME NEW q \in existing, NEW i \in DOMAIN active[q]
      PROVE  [subnet |-> q, origin |-> active[q][i].origin,
              peerID |-> active[q][i].peerID] \in Conflict
  <2>1. active[q][i] \in Announcement
    BY DEF Tables
  <2> QED
    BY <2>1 DEF Announcement, Conflict
<1>2. \A q \in existing : ConflictsThisLevel(active, q, o) \subseteq Conflict
  BY <1>1 DEF ConflictsThisLevel
<1> QED
  BY <1>2 DEF FindConflicts

LEMMA ReportedType ==
  ASSUME NEW r \in Route, NEW conflicts \in SUBSET Conflict
  PROVE  Reported(r, conflicts) \subseteq SUBSET Route
BY DEF Reported, Conflict, Route

(* The invariant: the types, the children of the root, and the property    *)
(* itself, on which the types of the lists depend.                         *)
IInv == TypeOK /\ RootsExist /\ OneAnnouncementPerPeer

LEMMA OnePerPeerEverywhere ==
  OneAnnouncementPerPeer <=> \A q \in Nets : OnePerPeer(activeAnnouncments[q])
BY DEF OneAnnouncementPerPeer, OnePerPeer

LEMMA InitIInv == Init => IInv
<1> SUFFICES ASSUME Init PROVE IInv
  OBVIOUS
<1>1. <<0>> \in Nets /\ <<1>> \in Nets
  <2>1. 1 \in 1..W
    BY ConstantsAssumption
  <2>2. <<0>> \in [1..1 -> {0, 1}] /\ <<1>> \in [1..1 -> {0, 1}]
    OBVIOUS
  <2> QED
    BY <2>1, <2>2 DEF Nets
<1>2. activeAnnouncments = [q \in Nets |-> <<>>]
  BY DEF Init
<1>3. <<>> \in Seq(Announcement) /\ DOMAIN <<>> = {}
  OBVIOUS
<1>4. OneAnnouncementPerPeer
  BY <1>2, <1>3 DEF OneAnnouncementPerPeer
<1>5. TypeOK
  BY <1>1, <1>2, <1>3 DEF Init, TypeOK, Phases
<1> QED
  BY <1>4, <1>5 DEF Init, IInv, RootsExist

(* What an announcement does to the trie.                                  *)
LEMMA AnnounceTable ==
  ASSUME IInv, NEW n \in Subnets, NEW p \in Peers, NEW o \in Origins,
         Announce(n, p, o)
  PROVE  /\ n \in Nets
         /\ activeAnnouncments' \in Tables
         /\ activeAnnouncments'[n] = AfterAnnouncement(activeAnnouncments[n], p, o)
         /\ \A q \in Nets \ {n} : activeAnnouncments'[q] = activeAnnouncments[q]
         /\ \A q \in Nets : OnePerPeer(activeAnnouncments[q])
         /\ \A q \in Nets : OnePerPeer(activeAnnouncments'[q])
<1>1. n \in Nets
  BY ConstantsAssumption DEF Announce
<1>2. activeAnnouncments \in Tables
  BY DEF IInv, TypeOK, Tables
<1>3. \A q \in Nets : OnePerPeer(activeAnnouncments[q])
  BY OnePerPeerEverywhere DEF IInv
<1>4. activeAnnouncments' =
        [activeAnnouncments EXCEPT ![n] = AfterAnnouncement(@, p, o)]
  BY DEF Announce
<1>5. activeAnnouncments[n] \in Seq(Announcement)
  BY <1>1, <1>2 DEF Tables
<1>6. /\ AfterAnnouncement(activeAnnouncments[n], p, o) \in Seq(Announcement)
      /\ OnePerPeer(AfterAnnouncement(activeAnnouncments[n], p, o))
  BY <1>1, <1>3, <1>5, EntriesAfterAnnouncement
<1> QED
  BY <1>1, <1>2, <1>3, <1>4, <1>6 DEF Tables

(* What a withdrawal does to the trie.                                     *)
LEMMA WithdrawTable ==
  ASSUME IInv, NEW n \in Subnets, NEW p \in Peers, Withdraw(n, p)
  PROVE  /\ n \in Nets
         /\ activeAnnouncments' \in Tables
         /\ activeAnnouncments'[n] = Remaining(activeAnnouncments[n], p)
         /\ \A q \in Nets \ {n} : activeAnnouncments'[q] = activeAnnouncments[q]
         /\ \A q \in Nets : OnePerPeer(activeAnnouncments[q])
         /\ \A q \in Nets : OnePerPeer(activeAnnouncments'[q])
<1>1. n \in Nets
  BY ConstantsAssumption DEF Withdraw
<1>2. activeAnnouncments \in Tables
  BY DEF IInv, TypeOK, Tables
<1>3. \A q \in Nets : OnePerPeer(activeAnnouncments[q])
  BY OnePerPeerEverywhere DEF IInv
<1>4. activeAnnouncments' = [activeAnnouncments EXCEPT ![n] = Remaining(@, p)]
  BY DEF Withdraw
<1>5. activeAnnouncments[n] \in Seq(Announcement)
  BY <1>1, <1>2 DEF Tables
<1>6. /\ Remaining(activeAnnouncments[n], p) \in Seq(Announcement)
      /\ OnePerPeer(Remaining(activeAnnouncments[n], p))
  BY <1>1, <1>3, <1>5, RemainingEntries
<1> QED
  BY <1>1, <1>2, <1>3, <1>4, <1>6 DEF Tables

LEMMA NextIInv == IInv /\ [Next]_vars => IInv'
<1> SUFFICES ASSUME IInv, [Next]_vars PROVE IInv'
  OBVIOUS
<1> USE DEF IInv
<1>1. ASSUME NEW n \in SpecialPrefixes, ReadSpecialPrefix(n) PROVE IInv'
  <2>1. n \in Nets
    BY ConstantsAssumption
  <2>2. /\ RelevantAfterDescent(n) \in [Nets -> BOOLEAN]
        /\ nodes \cup Path(n) \subseteq Nets
    BY DescentType DEF TypeOK
  <2>3. relevant' \in [Nets -> BOOLEAN]
    BY <1>1, <2>1, <2>2 DEF ReadSpecialPrefix
  <2>4. TypeOK'
    BY <1>1, <2>2, <2>3 DEF TypeOK, ReadSpecialPrefix
  <2>5. RootsExist'
    BY <1>1 DEF RootsExist, ReadSpecialPrefix
  <2>6. OneAnnouncementPerPeer'
    BY <1>1 DEF OneAnnouncementPerPeer, ReadSpecialPrefix
  <2> QED
    BY <2>4, <2>5, <2>6
<1>2. ASSUME NEW n \in Subnets, NEW p \in Peers, NEW o \in Origins, Announce(n, p, o)
      PROVE  IInv'
  <2>1. /\ n \in Nets
        /\ activeAnnouncments' \in Tables
        /\ \A q \in Nets : OnePerPeer(activeAnnouncments'[q])
    BY <1>2, AnnounceTable
  <2>2. /\ RelevantAfterDescent(n) \in [Nets -> BOOLEAN]
        /\ nodes \cup Path(n) \subseteq Nets
    BY DescentType DEF TypeOK
  <2>3. nodes' \subseteq Nets /\ relevant' \in [Nets -> BOOLEAN]
    BY <1>2, <2>2 DEF Announce
  <2> DEFINE found == IF Searching
                      THEN FindConflicts(activeAnnouncments', nodes', n, p, o) ELSE {}
             marked == AlreadyAnnounced(activeAnnouncments[n], p, o)
  <2>4. activeAnnouncments' =
          [activeAnnouncments EXCEPT ![n] = AfterAnnouncement(@, p, o)]
    BY <1>2 DEF Announce
  <2>5. found \subseteq Conflict
    BY <2>1, <2>3, FindConflictsType
  <2>6. <<n, o>> \in Route
    BY <2>1 DEF Route
  <2>7. search' \subseteq Search
    <3>1. marked \in BOOLEAN
      BY DEF AlreadyAnnounced
    <3>2. (\/ relevant'[n]
           \/ \E c \in found : relevant'[c.subnet]) \in BOOLEAN
      OBVIOUS
    <3>3. search' = IF Searching
                    THEN {[referenceAnnouncement |-> <<n, o>>,
                           alreadyAnnounced      |-> marked,
                           conflictingMessages   |-> found,
                           relevant |-> \/ relevant'[n]
                                        \/ \E c \in found : relevant'[c.subnet]]}
                    ELSE {}
      BY <1>2, <2>4 DEF Announce
    <3>4. ASSUME NEW r \in Route, NEW m \in BOOLEAN,
                 NEW cs \in SUBSET Conflict, NEW b \in BOOLEAN
          PROVE  [referenceAnnouncement |-> r, alreadyAnnounced |-> m,
                  conflictingMessages |-> cs, relevant |-> b] \in Search
      BY DEF Search
    <3> HIDE DEF found, marked
    <3> QED
      BY <2>5, <2>6, <3>1, <3>2, <3>3, <3>4, Zenon
  <2>8. known' \subseteq SUBSET Route
    <3>1. Reported(<<n, o>>, found) \subseteq SUBSET Route
      BY <2>5, <2>6, ReportedType
    <3>2. known' \subseteq known \cup Reported(<<n, o>>, found)
      BY <1>2, <2>4 DEF Announce, Record
    <3> QED
      BY <3>1, <3>2 DEF TypeOK
  <2>9. silent' \subseteq Route
    BY <1>2, <2>6 DEF Announce, TypeOK
  <2>10. TypeOK'
    BY <1>2, <2>1, <2>3, <2>7, <2>8, <2>9 DEF TypeOK, Announce, Tables
  <2>11. RootsExist'
    BY <1>2 DEF RootsExist, Announce
  <2>12. OneAnnouncementPerPeer'
    BY <2>1 DEF OneAnnouncementPerPeer, OnePerPeer
  <2> QED
    BY <2>10, <2>11, <2>12
<1>3. ASSUME NEW n \in Subnets, NEW p \in Peers, Withdraw(n, p)
      PROVE  IInv'
  <2>1. /\ n \in Nets
        /\ activeAnnouncments' \in Tables
        /\ \A q \in Nets : OnePerPeer(activeAnnouncments'[q])
    BY <1>3, WithdrawTable
  <2>2. /\ RelevantAfterDescent(n) \in [Nets -> BOOLEAN]
        /\ nodes \cup Path(n) \subseteq Nets
    BY DescentType DEF TypeOK
  <2>3. nodes' \subseteq Nets /\ relevant' \in [Nets -> BOOLEAN]
    BY <1>3, <2>2 DEF Withdraw
  <2>4. known' \subseteq known /\ silent' \subseteq silent
    BY <1>3 DEF Withdraw, Record
  <2>5. TypeOK'
    BY <1>3, <2>1, <2>3, <2>4 DEF TypeOK, Withdraw, Tables
  <2>6. RootsExist'
    BY <1>3 DEF RootsExist, Withdraw
  <2>7. OneAnnouncementPerPeer'
    BY <2>1 DEF OneAnnouncementPerPeer, OnePerPeer
  <2> QED
    BY <2>5, <2>6, <2>7
<1>4. ASSUME /\ phase' \in Phases
             /\ search' = {} \/ UNCHANGED search
             /\ UNCHANGED <<trie, history>>
      PROVE  IInv'
  BY <1>4 DEF TypeOK, RootsExist, OneAnnouncementPerPeer, trie, history
<1>5. CASE StartRib \/ StartUpdates \/ StopTimeReached \/ UNCHANGED vars
  BY <1>4, <1>5 DEF StartRib, StartUpdates, StopTimeReached, vars, Phases, TypeOK
<1>6. ASSUME NEW n \in Subnets, Discard(n) PROVE IInv'
  BY <1>4, <1>6 DEF Discard, TypeOK
<1> QED
  BY <1>1, <1>2, <1>3, <1>5, <1>6 DEF Next

(* The types hold in every reachable state.                                *)
THEOREM TypeCorrect == Spec => []TypeOK
<1>1. IInv => TypeOK
  BY DEF IInv
<1> QED
  BY <1>1, InitIInv, NextIInv, PTL DEF Spec

(* No peer ever has two active announcements of one subnet, whatever the   *)
(* order of the messages: the loop of insertMessage, which deletes while   *)
(* it iterates, never skips an entry of the peer.                          *)
THEOREM OneAnnouncementPerPeerAlways == Spec => []OneAnnouncementPerPeer
<1>1. IInv => OneAnnouncementPerPeer
  BY DEF IInv
<1> QED
  BY <1>1, InitIInv, NextIInv, PTL DEF Spec

-----------------------------------------------------------------------------
(* Every announcement is within reach of the search.                       *)

LEMMA PathIncludesNet ==
  ASSUME NEW n \in Nets
  PROVE  n \in Path(n)
BY PrefixReflexive DEF Path

LEMMA PathOfPath ==
  ASSUME NEW n \in Nets, NEW q \in Path(n)
  PROVE  Path(q) \subseteq Path(n)
BY PrefixTransitive DEF Path

LEMMA InitNothingOutOfReach == Init => NothingOutOfReach
<1> SUFFICES ASSUME Init PROVE NothingOutOfReach
  OBVIOUS
<1>1. ASSUME NEW b \in {0, 1}, NEW r \in Path(<<b>>) PROVE r = <<b>>
  <2> DEFINE c == <<b>>
  <2>1. c \in Nets
    BY InitIInv DEF IInv, TypeOK, RootsExist
  <2>2. c \in Seq({0, 1}) /\ Len(c) = 1 /\ c[1] = b
    OBVIOUS
  <2> HIDE DEF c
  <2>3. r \in Nets /\ IsPrefix(r, c)
    BY <1>1 DEF Path, c
  <2>4. Len(r) <= Len(c) /\ \A i \in 1..Len(r) : r[i] = c[i]
    BY <2>1, <2>3, PrefixBits
  <2>5. Len(r) \in 1..W /\ r \in Seq({0, 1})
    BY <2>3, NetsAreSequences
  <2>6. Len(r) = 1
    BY <2>2, <2>4, <2>5, ConstantsAssumption
  <2>7. r = c
    BY <2>2, <2>4, <2>5, <2>6
  <2> QED
    BY <2>7 DEF c
<1>2. \A q \in nodes : Path(q) \subseteq nodes
  BY <1>1 DEF Init
<1>3. \A q \in Nets : activeAnnouncments[q] = <<>>
  BY DEF Init
<1> QED
  BY <1>2, <1>3 DEF NothingOutOfReach, Path

LEMMA NextNothingOutOfReach ==
  IInv /\ NothingOutOfReach /\ [Next]_vars => NothingOutOfReach'
<1> SUFFICES ASSUME IInv, NothingOutOfReach, [Next]_vars PROVE NothingOutOfReach'
  OBVIOUS
<1>0. \A q \in nodes : Path(q) \subseteq nodes
  BY DEF NothingOutOfReach, Path
<1>1. ASSUME NEW n \in Nets, nodes' = nodes \cup Path(n),
             \A q \in Nets \ {n} : activeAnnouncments'[q] = activeAnnouncments[q]
      PROVE  NothingOutOfReach'
  <2>1. \A q \in nodes' : Path(q) \subseteq nodes'
    BY <1>0, <1>1, PathOfPath
  <2>2. n \in nodes'
    BY <1>1, PathIncludesNet
  <2>3. \A q \in Nets : activeAnnouncments'[q] # <<>> => q \in nodes'
    BY <1>1, <2>2 DEF NothingOutOfReach
  <2> QED
    BY <2>1, <2>3 DEF NothingOutOfReach, Path
<1>2. ASSUME NEW n \in SpecialPrefixes, ReadSpecialPrefix(n)
      PROVE  NothingOutOfReach'
  BY <1>1, <1>2, ConstantsAssumption DEF ReadSpecialPrefix
<1>3. ASSUME NEW n \in Subnets, NEW p \in Peers, NEW o \in Origins, Announce(n, p, o)
      PROVE  NothingOutOfReach'
  BY <1>1, <1>3, AnnounceTable DEF Announce
<1>4. ASSUME NEW n \in Subnets, NEW p \in Peers, Withdraw(n, p)
      PROVE  NothingOutOfReach'
  BY <1>1, <1>4, WithdrawTable DEF Withdraw
<1>5. ASSUME UNCHANGED trie PROVE NothingOutOfReach'
  BY <1>5 DEF trie, NothingOutOfReach, Path
<1> QED
  BY <1>2, <1>3, <1>4, <1>5
  DEF Next, StartRib, StartUpdates, StopTimeReached, Discard, vars

(* The trie stays connected and holds every announcement.                  *)
THEOREM NothingOutOfReachAlways == Spec => []NothingOutOfReach
BY InitIInv, NextIInv, InitNothingOutOfReach, NextNothingOutOfReach, PTL DEF Spec

-----------------------------------------------------------------------------
(* No conflict is missed.                                                  *)

(* The newest announcement of an origin exists.                            *)
LEMMA NewestExists ==
  ASSUME NEW list \in Seq(Announcement), NEW i \in DOMAIN list
  PROVE  \E j \in DOMAIN list :
           /\ list[j].origin = list[i].origin
           /\ \A k \in DOMAIN list : k > j => list[k].origin # list[j].origin
<1> DEFINE Same == {j \in DOMAIN list : list[j].origin = list[i].origin}
           Rest == {Len(list) - j : j \in Same}
<1>1. DOMAIN list = 1..Len(list) /\ Len(list) \in Nat
  OBVIOUS
<1>2. Rest \subseteq Nat /\ Rest # {}
  BY <1>1
<1> HIDE DEF Rest
<1>3. PICK d \in Rest : \A e \in Rest : <<e, d>> \notin OpToRel(<, Nat)
  BY <1>2, NatLessThanWellFounded, WFMin
<1>4. \A e \in Rest : ~(e < d)
  BY <1>2, <1>3 DEF OpToRel
<1>5. PICK j \in Same : d = Len(list) - j
  BY <1>3 DEF Rest
<1>6. ASSUME NEW k \in Same PROVE ~(k > j)
  <2>1. Len(list) - k \in Rest
    BY DEF Rest
  <2>2. ~(Len(list) - k < Len(list) - j)
    BY <1>4, <1>5, <2>1
  <2> QED
    BY <2>2, <1>1
<1> QED
  BY <1>5, <1>6

(* The search at one level reports every other origin.                     *)
LEMMA LevelIsComplete ==
  ASSUME NEW active \in Tables, NEW q \in Nets, NEW o,
         NEW i \in DOMAIN active[q], active[q][i].origin # o
  PROVE  \E c \in ConflictsThisLevel(active, q, o) :
           c.subnet = q /\ c.origin = active[q][i].origin
<1> DEFINE list == active[q]
<1>1. list \in Seq(Announcement)
  BY DEF Tables
<1>2. PICK j \in DOMAIN list :
        /\ list[j].origin = list[i].origin
        /\ \A k \in DOMAIN list : k > j => list[k].origin # list[j].origin
  BY <1>1, NewestExists
<1>3. [subnet |-> q, origin |-> list[j].origin, peerID |-> list[j].peerID]
        \in ConflictsThisLevel(active, q, o)
  BY <1>2 DEF ConflictsThisLevel
<1> QED
  BY <1>2, <1>3

(* While a RIB is read without searching, every route becomes active in    *)
(* silence; when the RIB is searched too, none does.                       *)
SilenceInv ==
  /\ phase \in {"prefixes", "rib"} /\ ~FindConflictsInRib =>
       ActiveRoutes(activeAnnouncments) \subseteq silent
  /\ FindConflictsInRib => silent = {}

MInv == IInv /\ NothingOutOfReach /\ NoMissedConflict /\ SilenceInv

LEMMA InitMInv == Init => MInv
<1> SUFFICES ASSUME Init PROVE MInv
  OBVIOUS
<1>1. activeAnnouncments = [q \in Nets |-> <<>>] /\ silent = {}
  BY DEF Init
<1>2. ActiveRoutes(activeAnnouncments) = {}
  BY <1>1 DEF ActiveRoutes
<1> QED
  BY <1>1, <1>2, InitIInv, InitNothingOutOfReach
  DEF MInv, NoMissedConflict, SilenceInv

LEMMA AnnounceMInv ==
  ASSUME MInv, NEW n \in Subnets, NEW p \in Peers, NEW o \in Origins,
         Announce(n, p, o)
  PROVE  NoMissedConflict' /\ SilenceInv'
<1> DEFINE active == activeAnnouncments'
           route  == <<n, o>>
           old    == ActiveRoutes(activeAnnouncments)
           found  == IF Searching THEN FindConflicts(active, nodes', n, p, o) ELSE {}
           mark   == AlreadyAnnounced(activeAnnouncments[n], p, o)
           new    == [origin |-> o, peerID |-> p, alreadyAnnounced |-> mark]
<1>1. /\ n \in Nets
      /\ active \in Tables
      /\ active[n] = AfterAnnouncement(activeAnnouncments[n], p, o)
      /\ \A q \in Nets \ {n} : active[q] = activeAnnouncments[q]
      /\ \A q \in Nets : OnePerPeer(activeAnnouncments[q])
      /\ \A q \in Nets : OnePerPeer(active[q])
  BY AnnounceTable DEF MInv
<1>2. activeAnnouncments[n] \in Seq(Announcement)
  BY <1>1 DEF MInv, IInv, TypeOK
<1>3. /\ \A i \in DOMAIN active[n] :
           \/ active[n][i] = new
           \/ /\ active[n][i].peerID # p
              /\ \E j \in DOMAIN activeAnnouncments[n] :
                   active[n][i] = activeAnnouncments[n][j]
      /\ \E i \in DOMAIN active[n] : active[n][i] = new
  BY <1>1, <1>2, EntriesAfterAnnouncement
<1>4. /\ known' = {pair \in known : pair \subseteq ActiveRoutes(active)}
                    \cup Reported(route, found)
      /\ silent' = (silent \cap ActiveRoutes(active)) \cup
                     (IF ~Searching /\ route \notin old THEN {route} ELSE {})
      /\ nodes' = nodes \cup Path(n)
      /\ phase' = phase /\ phase \in {"rib", "updates"}
  <2>1. active = [activeAnnouncments EXCEPT ![n] = AfterAnnouncement(@, p, o)]
    BY DEF Announce
  <2> QED
    BY <2>1 DEF Announce, Record, Running
(* Only the announced route can be new.                                    *)
<1>5. ActiveRoutes(active) \subseteq old \cup {route}
  <2> SUFFICES ASSUME NEW q \in Nets, NEW i \in DOMAIN active[q]
               PROVE  <<q, active[q][i].origin>> \in old \cup {route}
    BY DEF ActiveRoutes
  <2>1. CASE q # n
    BY <1>1, <2>1 DEF ActiveRoutes
  <2>2. CASE q = n
    <3>1. CASE active[n][i] = new
      BY <2>2, <3>1
    <3>2. CASE \E j \in DOMAIN activeAnnouncments[n] :
                 active[n][i] = activeAnnouncments[n][j]
      BY <1>1, <2>2, <3>2 DEF ActiveRoutes
    <3> QED
      BY <1>3, <2>2, <3>1, <3>2
  <2> QED
    BY <2>1, <2>2
(* A new route is not marked, so its search is not cut short and finds     *)
(* every active route that conflicts with it.                              *)
<1>6. ASSUME route \notin old, Searching,
             NEW s \in ActiveRoutes(active), Conflicting(route, s)
      PROVE  {route, s} \in Reported(route, found)
  <2>1. ~mark
    BY <1>1, <1>2, <1>6 DEF AlreadyAnnounced, Visited, ActiveRoutes
  <2>2. ~Suppressed(active, n, p)
    BY <1>3, <2>1 DEF Suppressed
  <2>3. PICK q \in Nets : \E i \in DOMAIN active[q] : s = <<q, active[q][i].origin>>
    BY <1>6 DEF ActiveRoutes
  <2>4. PICK i \in DOMAIN active[q] : s = <<q, active[q][i].origin>>
    BY <2>3
  <2>5. active[q][i].origin # o /\ Overlap(q, n)
    BY <1>6, <2>4 DEF Conflicting, Overlap
  <2>6. q \in nodes'
    <3>1. active[q] # <<>>
      BY <2>4
    <3>2. NothingOutOfReach'
      BY NextNothingOutOfReach DEF MInv, Next
    <3> QED
      BY <3>1, <3>2 DEF NothingOutOfReach
  <2>7. PICK c \in ConflictsThisLevel(active, q, o) :
          c.subnet = q /\ c.origin = active[q][i].origin
    BY <1>1, <2>4, <2>5, LevelIsComplete
  <2>8. c \in found
    BY <1>6, <2>2, <2>5, <2>6, <2>7 DEF FindConflicts
  <2> QED
    BY <2>4, <2>7, <2>8 DEF Reported
<1>7. NoMissedConflict'
  <2> SUFFICES ASSUME NEW r \in ActiveRoutes(active), NEW s \in ActiveRoutes(active),
                      Conflicting(r, s)
               PROVE  {r, s} \in known' \/ {r, s} \subseteq silent'
    BY DEF NoMissedConflict, ActiveRoutes, Conflicting, Overlap
  <2>1. Conflicting(s, r)
    BY DEF Conflicting, Overlap
  <2>2. CASE r \in old /\ s \in old
    BY <1>4, <2>2 DEF MInv, NoMissedConflict
  <2>3. CASE Searching /\ route \notin old /\ (r = route \/ s = route)
    <3>1. CASE r = route
      BY <1>4, <1>6, <2>3, <3>1
    <3>2. CASE s = route
      BY <1>4, <1>6, <2>1, <2>3, <3>2
    <3> QED
      BY <2>3, <3>1, <3>2
  <2>4. CASE ~Searching /\ route \notin old
    <3>1. old \subseteq silent
      BY <1>4, <2>4 DEF MInv, SilenceInv, Searching
    <3>2. ActiveRoutes(active) \subseteq silent'
      BY <1>4, <1>5, <2>4, <3>1
    <3> QED
      BY <3>2
  <2> QED
    BY <1>5, <2>2, <2>3, <2>4
<1>8. SilenceInv'
  <2>1. ASSUME phase \in {"prefixes", "rib"}, ~FindConflictsInRib
        PROVE  ActiveRoutes(active) \subseteq silent'
    <3>1. ~Searching /\ old \subseteq silent
      BY <2>1 DEF Searching, MInv, SilenceInv
    <3> QED
      BY <1>4, <1>5, <3>1
  <2>2. FindConflictsInRib => silent' = {}
    BY <1>4 DEF MInv, SilenceInv, Searching
  <2> QED
    BY <1>4, <2>1, <2>2 DEF SilenceInv, ActiveRoutes
<1> QED
  BY <1>7, <1>8

LEMMA WithdrawMInv ==
  ASSUME MInv, NEW n \in Subnets, NEW p \in Peers, Withdraw(n, p)
  PROVE  NoMissedConflict' /\ SilenceInv'
<1> DEFINE active == activeAnnouncments'
           old    == ActiveRoutes(activeAnnouncments)
<1>1. /\ n \in Nets
      /\ active[n] = Remaining(activeAnnouncments[n], p)
      /\ \A q \in Nets \ {n} : active[q] = activeAnnouncments[q]
      /\ \A q \in Nets : OnePerPeer(activeAnnouncments[q])
  BY WithdrawTable DEF MInv
<1>2. activeAnnouncments[n] \in Seq(Announcement)
  BY <1>1 DEF MInv, IInv, TypeOK
<1>3. \A i \in DOMAIN active[n] : \E j \in DOMAIN activeAnnouncments[n] :
        active[n][i] = activeAnnouncments[n][j]
  BY <1>1, <1>2, RemainingEntries
<1>4. /\ known' = {pair \in known : pair \subseteq ActiveRoutes(active)}
      /\ silent' = silent \cap ActiveRoutes(active)
      /\ phase' = phase
  <2>1. active = [activeAnnouncments EXCEPT ![n] = Remaining(@, p)]
    BY DEF Withdraw
  <2> QED
    BY <2>1 DEF Withdraw, Record
<1>5. ActiveRoutes(active) \subseteq old
  <2> SUFFICES ASSUME NEW q \in Nets, NEW i \in DOMAIN active[q]
               PROVE  <<q, active[q][i].origin>> \in old
    BY DEF ActiveRoutes
  <2>1. CASE q # n
    BY <1>1, <2>1 DEF ActiveRoutes
  <2>2. CASE q = n
    BY <1>1, <1>3, <2>2 DEF ActiveRoutes
  <2> QED
    BY <2>1, <2>2
<1>6. NoMissedConflict'
  <2> SUFFICES ASSUME NEW r \in ActiveRoutes(active), NEW s \in ActiveRoutes(active),
                      Conflicting(r, s)
               PROVE  {r, s} \in known' \/ {r, s} \subseteq silent'
    BY DEF NoMissedConflict, ActiveRoutes, Conflicting, Overlap
  <2> QED
    BY <1>4, <1>5 DEF MInv, NoMissedConflict
<1>7. SilenceInv'
  BY <1>4, <1>5 DEF MInv, SilenceInv, ActiveRoutes
<1> QED
  BY <1>6, <1>7

LEMMA NextMInv == MInv /\ [Next]_vars => MInv'
<1> SUFFICES ASSUME MInv, [Next]_vars PROVE MInv'
  OBVIOUS
<1>1. IInv' /\ NothingOutOfReach'
  BY NextIInv, NextNothingOutOfReach DEF MInv
<1>2. ASSUME NEW n \in Subnets, NEW p \in Peers, NEW o \in Origins, Announce(n, p, o)
      PROVE  NoMissedConflict' /\ SilenceInv'
  BY <1>2, AnnounceMInv
<1>3. ASSUME NEW n \in Subnets, NEW p \in Peers, Withdraw(n, p)
      PROVE  NoMissedConflict' /\ SilenceInv'
  BY <1>3, WithdrawMInv
<1>4. ASSUME UNCHANGED <<activeAnnouncments, known, silent>>,
             phase' = phase \/ phase' \in {"updates", "stopped"}
                            \/ phase = "prefixes"
      PROVE  NoMissedConflict' /\ SilenceInv'
  BY <1>4 DEF MInv, NoMissedConflict, SilenceInv, ActiveRoutes, Conflicting, Overlap
<1>5. ASSUME NEW n \in SpecialPrefixes, ReadSpecialPrefix(n)
      PROVE  NoMissedConflict' /\ SilenceInv'
  BY <1>4, <1>5 DEF ReadSpecialPrefix
<1>6. ASSUME NEW n \in Subnets, Discard(n)
      PROVE  NoMissedConflict' /\ SilenceInv'
  BY <1>4, <1>6 DEF Discard, trie, history
<1>7. ASSUME StartRib \/ StartUpdates \/ StopTimeReached \/ UNCHANGED vars
      PROVE  NoMissedConflict' /\ SilenceInv'
  BY <1>4, <1>7 DEF StartRib, StartUpdates, StopTimeReached, vars, trie, history
<1>8. NoMissedConflict' /\ SilenceInv'
  BY <1>2, <1>3, <1>5, <1>6, <1>7 DEF Next
<1> QED
  BY <1>1, <1>8 DEF MInv

(* Two active routes that conflict have been reported since both are       *)
(* active, unless both became active while the RIB was read without        *)
(* looking for conflicts: marking an announcement as already made cuts no  *)
(* search short that had a new conflict to find.                           *)
THEOREM NoMissedConflictAlways == Spec => []NoMissedConflict
<1>1. MInv => NoMissedConflict
  BY DEF MInv
<1> QED
  BY <1>1, InitMInv, NextMInv, PTL DEF Spec

(* With -ribconflicts every conflict of active routes has been reported.   *)
THEOREM AllConflictsKnownAlways ==
  ASSUME FindConflictsInRib
  PROVE  Spec => []AllConflictsKnown
<1>1. MInv => AllConflictsKnown
  BY DEF MInv, SilenceInv, NoMissedConflict, AllConflictsKnown
<1> QED
  BY <1>1, InitMInv, NextMInv, PTL DEF Spec

-----------------------------------------------------------------------------
(* The trie implements the table of routes.                                *)

LEMMA AnnouncedOriginOfEntry ==
  ASSUME NEW list, OnePerPeer(list), NEW p,
         NEW i \in DOMAIN list, list[i].peerID = p
  PROVE  AnnouncedOrigin(list, p) = list[i].origin
<1>1. \A j \in DOMAIN list : list[j].peerID = p => j = i
  BY DEF OnePerPeer
<1> QED
  BY <1>1 DEF AnnouncedOrigin

(* A peer whose entries two lists share announces the same origin in both. *)
LEMMA AnnouncedOriginOfOther ==
  ASSUME NEW list, OnePerPeer(list), NEW after, OnePerPeer(after), NEW p,
         \A i \in DOMAIN after : after[i].peerID = p =>
           \E j \in DOMAIN list : after[i] = list[j],
         \A j \in DOMAIN list : list[j].peerID = p =>
           \E i \in DOMAIN after : after[i] = list[j]
  PROVE  AnnouncedOrigin(after, p) = AnnouncedOrigin(list, p)
<1>1. CASE \E i \in DOMAIN after : after[i].peerID = p
  <2>1. PICK i \in DOMAIN after : after[i].peerID = p
    BY <1>1
  <2>2. PICK j \in DOMAIN list : after[i] = list[j]
    BY <2>1
  <2>3. AnnouncedOrigin(after, p) = after[i].origin
    BY <2>1, AnnouncedOriginOfEntry
  <2>4. AnnouncedOrigin(list, p) = list[j].origin
    BY <2>1, <2>2, AnnouncedOriginOfEntry
  <2> QED
    BY <2>2, <2>3, <2>4
<1>2. CASE ~\E i \in DOMAIN after : after[i].peerID = p
  <2>1. ~\E j \in DOMAIN list : list[j].peerID = p
    BY <1>2
  <2> QED
    BY <1>2, <2>1 DEF AnnouncedOrigin
<1> QED
  BY <1>1, <1>2

(* An entry of the table changes as the specification of the table says,   *)
(* when the trie's list for subnet n gives peer p the origin o.            *)
LEMMA OneOriginChanges ==
  ASSUME NEW n \in Subnets \ {<<>>}, NEW p \in Peers, NEW o,
         AnnouncedOrigin(activeAnnouncments'[n], p) = o,
         \A r \in Peers \ {p} : AnnouncedOrigin(activeAnnouncments'[n], r)
                                  = AnnouncedOrigin(activeAnnouncments[n], r),
         \A q \in (Subnets \ {<<>>}) \ {n} :
           activeAnnouncments'[q] = activeAnnouncments[q]
  PROVE  AnnouncedOrigins' = [AnnouncedOrigins EXCEPT ![p][n] = o]
<1> DEFINE S == Subnets \ {<<>>}
           f == AnnouncedOrigins'
           g == [AnnouncedOrigins EXCEPT ![p][n] = o]
<1>1. f = [r \in Peers |-> [q \in S |-> AnnouncedOrigin(activeAnnouncments'[q], r)]]
  BY DEF AnnouncedOrigins, AnnouncedOrigin
<1>2. g = [r \in Peers |-> [q \in S |->
            IF r = p /\ q = n THEN o ELSE AnnouncedOrigin(activeAnnouncments[q], r)]]
  BY DEF AnnouncedOrigins
<1> HIDE DEF f, g
<1>3. \A r \in Peers, q \in S :
        AnnouncedOrigin(activeAnnouncments'[q], r) =
          IF r = p /\ q = n THEN o ELSE AnnouncedOrigin(activeAnnouncments[q], r)
  OBVIOUS
<1>4. f = g
  BY <1>1, <1>2, <1>3
<1> QED
  BY <1>4 DEF f, g

LEMMA InitImplements == Init => Rib!Init
<1> SUFFICES ASSUME Init PROVE Rib!Init
  OBVIOUS
<1>1. \A q \in Nets : activeAnnouncments[q] = <<>>
  BY DEF Init
<1>2. \A q \in Subnets \ {<<>>}, p \in Peers :
        AnnouncedOrigin(activeAnnouncments[q], p) = NoRoute
  BY <1>1, ConstantsAssumption DEF AnnouncedOrigin
<1> QED
  BY <1>2 DEF Rib!Init, AnnouncedOrigins

LEMMA NextImplements == IInv /\ [Next]_vars => [Rib!Next]_AnnouncedOrigins
<1> SUFFICES ASSUME IInv, [Next]_vars PROVE [Rib!Next]_AnnouncedOrigins
  OBVIOUS
<1>1. ASSUME NEW n \in Subnets, NEW p \in Peers, NEW o \in Origins, Announce(n, p, o)
      PROVE  Rib!Next
  <2> DEFINE list  == activeAnnouncments[n]
             after == activeAnnouncments'[n]
             new   == [origin |-> o, peerID |-> p,
                       alreadyAnnounced |-> AlreadyAnnounced(list, p, o)]
  <2>1. /\ n \in Nets
        /\ after = AfterAnnouncement(list, p, o)
        /\ \A q \in Nets \ {n} : activeAnnouncments'[q] = activeAnnouncments[q]
        /\ OnePerPeer(list)
        /\ OnePerPeer(after)
    BY <1>1, AnnounceTable
  <2>2. list \in Seq(Announcement)
    BY <2>1 DEF IInv, TypeOK
  <2>3. /\ \A i \in DOMAIN after :
             \/ after[i] = new
             \/ after[i].peerID # p /\ \E j \in DOMAIN list : after[i] = list[j]
        /\ \A j \in DOMAIN list : list[j].peerID # p =>
             \E i \in DOMAIN after : after[i] = list[j]
        /\ \E i \in DOMAIN after : after[i] = new
    BY <2>1, <2>2, EntriesAfterAnnouncement
  <2> HIDE DEF list, after
  <2>4. AnnouncedOrigin(after, p) = o
    BY <2>1, <2>3, AnnouncedOriginOfEntry
  <2>5. ASSUME NEW r \in Peers \ {p}
        PROVE  AnnouncedOrigin(after, r) = AnnouncedOrigin(list, r)
    <3>1. new.peerID # r
      OBVIOUS
    <3>2. \A i \in DOMAIN after : after[i].peerID = r =>
            \E j \in DOMAIN list : after[i] = list[j]
      BY <2>3, <3>1
    <3>3. \A j \in DOMAIN list : list[j].peerID = r =>
            \E i \in DOMAIN after : after[i] = list[j]
      BY <2>3
    <3> QED
      BY <2>1, <3>2, <3>3, AnnouncedOriginOfOther
  <2>6. n \in Subnets \ {<<>>}
    BY <1>1 DEF Announce
  <2>7. AnnouncedOrigins' = [AnnouncedOrigins EXCEPT ![p][n] = o]
    BY <2>1, <2>4, <2>5, <2>6, OneOriginChanges, ConstantsAssumption DEF list, after
  <2> QED
    BY <2>6, <2>7 DEF Rib!Next, Rib!Announce
<1>2. ASSUME NEW n \in Subnets, NEW p \in Peers, Withdraw(n, p)
      PROVE  Rib!Next
  <2> DEFINE list  == activeAnnouncments[n]
             after == activeAnnouncments'[n]
  <2>1. /\ n \in Nets
        /\ after = Remaining(list, p)
        /\ \A q \in Nets \ {n} : activeAnnouncments'[q] = activeAnnouncments[q]
        /\ OnePerPeer(list)
        /\ OnePerPeer(after)
    BY <1>2, WithdrawTable
  <2>2. list \in Seq(Announcement)
    BY <2>1 DEF IInv, TypeOK
  <2>3. /\ \A i \in DOMAIN after :
             after[i].peerID # p /\ \E j \in DOMAIN list : after[i] = list[j]
        /\ \A j \in DOMAIN list : list[j].peerID # p =>
             \E i \in DOMAIN after : after[i] = list[j]
    BY <2>1, <2>2, RemainingEntries
  <2> HIDE DEF list, after
  <2>4. AnnouncedOrigin(after, p) = NoRoute
    BY <2>3 DEF AnnouncedOrigin
  <2>5. ASSUME NEW r \in Peers \ {p}
        PROVE  AnnouncedOrigin(after, r) = AnnouncedOrigin(list, r)
    <3>1. \A j \in DOMAIN list : list[j].peerID = r =>
            \E i \in DOMAIN after : after[i] = list[j]
      BY <2>3
    <3> QED
      BY <2>1, <2>3, <3>1, AnnouncedOriginOfOther
  <2>6. n \in Subnets \ {<<>>}
    BY <1>2 DEF Withdraw
  <2>7. AnnouncedOrigins' = [AnnouncedOrigins EXCEPT ![p][n] = NoRoute]
    BY <2>1, <2>4, <2>5, <2>6, OneOriginChanges, ConstantsAssumption DEF list, after
  <2> QED
    BY <2>6, <2>7 DEF Rib!Next, Rib!Withdraw
<1>3. ASSUME UNCHANGED activeAnnouncments PROVE UNCHANGED AnnouncedOrigins
  BY <1>3 DEF AnnouncedOrigins, AnnouncedOrigin
<1> QED
  BY <1>1, <1>2, <1>3
  DEF Next, ReadSpecialPrefix, StartRib, StartUpdates, StopTimeReached, Discard, trie, vars

(* The trie stores what the table of routes says: for every peer and subnet*)
(* the origin announced last, until the peer withdraws it.                 *)
THEOREM TrieImplementsAdjRib == Spec => ImplementsAdjRib
<1>1. IInv /\ [Next]_vars => [Rib!Next]_AnnouncedOrigins
  BY NextImplements
<1> QED
  BY <1>1, InitIInv, NextIInv, InitImplements, PTL DEF Spec, ImplementsAdjRib, Rib!Spec

-----------------------------------------------------------------------------
(* Alerts.                                                                 *)

AlertInv == IInv /\ NoFalseAlert

LEMMA NextAlertInv == AlertInv /\ [Next]_vars => AlertInv'
<1> SUFFICES ASSUME AlertInv, [Next]_vars PROVE NoFalseAlert'
  BY NextIInv DEF AlertInv
<1> USE DEF AlertInv
<1>1. /\ nodes \subseteq Nets /\ RootsExist
      /\ relevant \in [Nets -> BOOLEAN]
      /\ listed \subseteq Nets
  BY ConstantsAssumption DEF IInv, TypeOK
<1>2. ASSUME NEW n, NEW q \in Nets, RelevantAfterDescent(n)[q]
      PROVE  \E m \in listed : IsPrefix(m, q)
  <2>1. CASE q \in Path(n) \ nodes
    <3>1. relevant[DeepestNode(q)]
      BY <1>2, <2>1 DEF RelevantAfterDescent
    <3>2. DeepestNode(q) \in Nets /\ IsPrefix(DeepestNode(q), q)
      BY <1>1, DeepestNodeExists
    <3>3. PICK m \in listed : IsPrefix(m, DeepestNode(q))
      BY <3>1, <3>2 DEF NoFalseAlert
    <3> QED
      BY <1>1, <3>2, <3>3, PrefixTransitive
  <2>2. CASE q \notin Path(n) \ nodes
    BY <1>2, <2>2 DEF RelevantAfterDescent, NoFalseAlert
  <2> QED
    BY <2>1, <2>2
<1>3. ASSUME NEW n \in SpecialPrefixes, ReadSpecialPrefix(n) PROVE NoFalseAlert'
  <2>1. n \in Nets
    BY ConstantsAssumption
  <2>2. /\ relevant' = [RelevantAfterDescent(n) EXCEPT ![n] = TRUE]
        /\ listed' = listed \cup {n}
    BY <1>3 DEF ReadSpecialPrefix
  <2>3. RelevantAfterDescent(n) \in [Nets -> BOOLEAN]
    BY <1>1, DescentType
  <2>4. \A q \in Nets \ {n} : relevant'[q] => \E m \in listed' : IsPrefix(m, q)
    BY <1>2, <2>2, <2>3
  <2>5. \E m \in listed' : IsPrefix(m, n)
    BY <2>1, <2>2, PrefixReflexive
  <2> QED
    BY <2>4, <2>5 DEF NoFalseAlert
<1>4. ASSUME NEW n, relevant' = RelevantAfterDescent(n), listed' = listed
      PROVE  NoFalseAlert'
  BY <1>2, <1>4 DEF NoFalseAlert
<1>5. ASSUME UNCHANGED <<relevant, listed>> PROVE NoFalseAlert'
  BY <1>5 DEF NoFalseAlert
<1>6. ASSUME NEW n \in Subnets, NEW p \in Peers, NEW o \in Origins, Announce(n, p, o)
      PROVE  NoFalseAlert'
  BY <1>4, <1>6 DEF Announce
<1>7. ASSUME NEW n \in Subnets, NEW p \in Peers, Withdraw(n, p)
      PROVE  NoFalseAlert'
  BY <1>4, <1>7 DEF Withdraw
<1> QED
  BY <1>3, <1>5, <1>6, <1>7
  DEF Next, StartRib, StartUpdates, StopTimeReached, Discard, trie, history, vars

(* A conflict is printed only when a special prefix is involved, whatever  *)
(* prefixes are listed, in whatever order.                                 *)
THEOREM NoFalseAlertEver == Spec => []NoFalseAlert
<1>1. Init => AlertInv
  BY InitIInv DEF AlertInv, NoFalseAlert, Init
<1>2. AlertInv => NoFalseAlert
  BY DEF AlertInv
<1> QED
  BY <1>1, <1>2, NextAlertInv, PTL DEF Spec

-----------------------------------------------------------------------------
(* Reports.                                                                *)

(* Every search in the state names a route once.                           *)
LEMMA FoundOnce ==
  ASSUME NEW active \in Tables, NEW existing \in SUBSET Nets, NEW n, NEW p, NEW o,
         NEW c \in FindConflicts(active, existing, n, p, o),
         NEW d \in FindConflicts(active, existing, n, p, o),
         c.subnet = d.subnet, c.origin = d.origin
  PROVE  c = d
<1>1. PICK q \in existing : c \in ConflictsThisLevel(active, q, o)
  BY DEF FindConflicts
<1>2. PICK r \in existing : d \in ConflictsThisLevel(active, r, o)
  BY DEF FindConflicts
<1>3. q = r /\ q \in Nets
  BY <1>1, <1>2 DEF ConflictsThisLevel
<1> DEFINE list == active[q]
<1>4. PICK i \in DOMAIN list :
        /\ c = [subnet |-> q, origin |-> list[i].origin, peerID |-> list[i].peerID]
        /\ \A k \in DOMAIN list : k > i => list[k].origin # list[i].origin
  BY <1>1 DEF ConflictsThisLevel
<1>5. PICK j \in DOMAIN list :
        /\ d = [subnet |-> q, origin |-> list[j].origin, peerID |-> list[j].peerID]
        /\ \A k \in DOMAIN list : k > j => list[k].origin # list[j].origin
  BY <1>2, <1>3 DEF ConflictsThisLevel
<1>6. DOMAIN list \subseteq Nat
  BY <1>3 DEF Tables
<1>7. list[i].origin = list[j].origin
  BY <1>4, <1>5
<1>8. i = j
  BY <1>4, <1>5, <1>6, <1>7
<1> QED
  BY <1>4, <1>5, <1>8

ReportInv == IInv /\ RoutesReportedOnce

LEMMA NextReportInv == ReportInv /\ [Next]_vars => ReportInv'
<1> SUFFICES ASSUME ReportInv, [Next]_vars PROVE RoutesReportedOnce'
  BY NextIInv DEF ReportInv
<1>1. IInv'
  BY NextIInv DEF ReportInv
<1>2. ASSUME NEW n \in Subnets, NEW p \in Peers, NEW o \in Origins, Announce(n, p, o)
      PROVE  RoutesReportedOnce'
  <2>1. activeAnnouncments' \in Tables /\ nodes' \subseteq Nets
    BY <1>1 DEF IInv, TypeOK, Tables
  <2>2. activeAnnouncments' =
          [activeAnnouncments EXCEPT ![n] = AfterAnnouncement(@, p, o)]
    BY <1>2 DEF Announce
  <2> DEFINE found == FindConflicts(activeAnnouncments', nodes', n, p, o)
             mark  == AlreadyAnnounced(activeAnnouncments[n], p, o)
  <2>a. search' = IF Searching
                  THEN {[referenceAnnouncement |-> <<n, o>>,
                         alreadyAnnounced      |-> mark,
                         conflictingMessages   |-> found,
                         relevant |-> \/ relevant'[n]
                                      \/ \E c \in found : relevant'[c.subnet]]}
                  ELSE {}
    <3>1. CASE Searching
      BY <1>2, <2>2, <3>1 DEF Announce
    <3>2. CASE ~Searching
      BY <1>2, <3>2 DEF Announce
    <3> QED
      BY <3>1, <3>2
  <2>3. \A s \in search' : s.conflictingMessages = found
    <3> HIDE DEF found, mark
    <3>1. ASSUME NEW r, NEW m, NEW b
          PROVE  [referenceAnnouncement |-> r, alreadyAnnounced |-> m,
                  conflictingMessages |-> found, relevant |-> b].conflictingMessages
                   = found
      OBVIOUS
    <3> QED
      BY <2>a, <3>1, Zenon
  <2> QED
    BY <2>1, <2>3, FoundOnce DEF RoutesReportedOnce
<1>3. ASSUME search' = {} \/ search' = search PROVE RoutesReportedOnce'
  BY <1>3 DEF RoutesReportedOnce, ReportInv
<1> QED
  BY <1>2, <1>3
  DEF Next, ReadSpecialPrefix, Withdraw, StartRib, StartUpdates, StopTimeReached,
      Discard, vars

(* No record of the conflicts file names a conflicting route twice,        *)
(* however many peers announce it.                                         *)
THEOREM RoutesReportedOnceAlways == Spec => []RoutesReportedOnce
<1>1. Init => ReportInv
  BY InitIInv DEF ReportInv, RoutesReportedOnce, Init
<1>2. ReportInv => RoutesReportedOnce
  BY DEF ReportInv
<1> QED
  BY <1>1, <1>2, NextReportInv, PTL DEF Spec

-----------------------------------------------------------------------------
(* Searches that are cut short.                                            *)

NothingSearchedYet == phase = "prefixes" => search = {}

SuppressionInv == MInv /\ NothingSearchedYet

LEMMA NextSuppressionInv == SuppressionInv /\ [Next]_vars => SuppressionInv'
<1> SUFFICES ASSUME SuppressionInv, [Next]_vars PROVE NothingSearchedYet'
  BY NextMInv DEF SuppressionInv
<1> QED
  BY DEF SuppressionInv, NothingSearchedYet, Next, ReadSpecialPrefix, Announce, Withdraw,
         StartRib, StartUpdates, StopTimeReached, Discard, Running, vars

LEMMA StepSuppression ==
  ASSUME FindConflictsInRib, SuppressionInv, [Next]_vars
  PROVE  [\A s \in search' : s.alreadyAnnounced =>
            \A r \in ActiveRoutes(activeAnnouncments') :
              Conflicting(s.referenceAnnouncement, r) =>
                {s.referenceAnnouncement, r} \in known]_vars
<1> DEFINE Claim == \A s \in search' : s.alreadyAnnounced =>
                      \A r \in ActiveRoutes(activeAnnouncments') :
                        Conflicting(s.referenceAnnouncement, r) =>
                          {s.referenceAnnouncement, r} \in known
<1>1. \A r, s \in ActiveRoutes(activeAnnouncments) :
        Conflicting(r, s) => {r, s} \in known
  BY DEF SuppressionInv, MInv, SilenceInv, NoMissedConflict
<1>2. ASSUME NEW n \in Subnets, NEW p \in Peers, NEW o \in Origins, Announce(n, p, o)
      PROVE  Claim
  <2> DEFINE active == activeAnnouncments'
             route == <<n, o>>
             old == ActiveRoutes(activeAnnouncments)
             mark == AlreadyAnnounced(activeAnnouncments[n], p, o)
             new == [origin |-> o, peerID |-> p, alreadyAnnounced |-> mark]
  <2>1. /\ n \in Nets
        /\ active \in Tables
        /\ active[n] = AfterAnnouncement(activeAnnouncments[n], p, o)
        /\ \A q \in Nets \ {n} : active[q] = activeAnnouncments[q]
        /\ \A q \in Nets : OnePerPeer(activeAnnouncments[q])
    BY <1>2, AnnounceTable DEF SuppressionInv, MInv
  <2>2. activeAnnouncments[n] \in Seq(Announcement)
    BY <2>1 DEF SuppressionInv, MInv, IInv, TypeOK
  <2>3. \A i \in DOMAIN active[n] :
          \/ active[n][i] = new
          \/ /\ active[n][i].peerID # p
             /\ \E j \in DOMAIN activeAnnouncments[n] :
                  active[n][i] = activeAnnouncments[n][j]
    BY <2>1, <2>2, EntriesAfterAnnouncement
  <2>4. \A s \in search' : s.referenceAnnouncement = route /\ s.alreadyAnnounced = mark
    BY <1>2 DEF Announce
  <2>5. mark => route \in old
    BY <2>1 DEF AlreadyAnnounced, Visited, ActiveRoutes
  <2>6. \A r \in ActiveRoutes(active) : r \in old \/ r = route
    <3> SUFFICES ASSUME NEW q \in Nets, NEW i \in DOMAIN active[q]
                 PROVE  <<q, active[q][i].origin>> \in old \cup {route}
      BY DEF ActiveRoutes
    <3>1. CASE q # n
      BY <2>1, <3>1 DEF ActiveRoutes
    <3>2. CASE q = n
      <4>1. CASE active[n][i] = new
        BY <3>2, <4>1
      <4>2. CASE \E j \in DOMAIN activeAnnouncments[n] :
                   active[n][i] = activeAnnouncments[n][j]
        BY <2>1, <3>2, <4>2 DEF ActiveRoutes
      <4> QED
        BY <2>3, <3>2, <4>1, <4>2
    <3> QED
      BY <3>1, <3>2
  <2>7. \A r : Conflicting(route, r) => r # route
    BY DEF Conflicting
  <2> HIDE DEF mark, route, old, active
  <2>8. ASSUME NEW s \in search', s.alreadyAnnounced, NEW r \in ActiveRoutes(active),
               Conflicting(s.referenceAnnouncement, r)
        PROVE  {s.referenceAnnouncement, r} \in known
    BY <1>1, <2>4, <2>5, <2>6, <2>7, <2>8 DEF old
  <2> QED
    BY <2>8 DEF active
<1>3. CASE search' = {}
  BY <1>3
<1>4. ASSUME NEW n \in SpecialPrefixes, ReadSpecialPrefix(n) PROVE search' = {}
  BY <1>4 DEF ReadSpecialPrefix, SuppressionInv, NothingSearchedYet
<1> QED
  BY <1>2, <1>3, <1>4
  DEF Next, Withdraw, StartRib, StartUpdates, StopTimeReached, Discard

(* With -ribconflicts a search is cut short only when all the conflicts of *)
(* its route have been found before, as findConflictsAboveAndSameLevel     *)
(* assumes where it returns.                                               *)
THEOREM SuppressedWasReportedAlways ==
  ASSUME FindConflictsInRib
  PROVE  Spec => SuppressedWasReported
<1>1. Init => SuppressionInv
  BY InitMInv DEF SuppressionInv, NothingSearchedYet, Init
<1>2. SuppressionInv /\ [Next]_vars =>
        [\A s \in search' : s.alreadyAnnounced =>
           \A r \in ActiveRoutes(activeAnnouncments') :
             Conflicting(s.referenceAnnouncement, r) =>
               {s.referenceAnnouncement, r} \in known]_vars
  BY StepSuppression
<1> QED
  BY <1>1, <1>2, NextSuppressionInv, PTL DEF Spec, SuppressedWasReported
-----------------------------------------------------------------------------
(* Alerts that must not be missing.                                        *)

(* No special prefix contains another one.                                 *)
Disjoint == \A m, n \in SpecialPrefixes : IsPrefix(m, n) => m = n

LEMMA SameNet ==
  ASSUME NEW a \in Nets, NEW b \in Nets, IsPrefix(a, b), Len(b) <= Len(a)
  PROVE  a = b
<1>1. a \in Seq({0, 1}) /\ b \in Seq({0, 1}) /\ Len(a) \in Nat /\ Len(b) \in Nat
  BY NetsAreSequences, ConstantsAssumption
<1>2. Len(a) = Len(b) /\ \A i \in 1..Len(a) : a[i] = b[i]
  BY <1>1, PrefixBits
<1> QED
  BY <1>1, <1>2

(* Of two prefixes of a net the shorter one is a prefix of the other.      *)
LEMMA PrefixesAreNested ==
  ASSUME NEW a \in Nets, NEW b \in Nets, NEW q \in Nets,
         IsPrefix(a, q), IsPrefix(b, q), Len(a) <= Len(b)
  PROVE  IsPrefix(a, b)
<1>1. Len(a) \in Nat /\ Len(b) \in Nat
  BY NetsAreSequences, ConstantsAssumption
<1>2. \A i \in 1..Len(b) : b[i] = q[i]
  BY PrefixBits
<1>3. \A i \in 1..Len(a) : a[i] = q[i] /\ i \in 1..Len(b)
  BY <1>1, PrefixBits
<1> QED
  BY <1>2, <1>3, PrefixBits

(* The prefixes file creates no nodes but on the way to its prefixes, and  *)
(* every node at a listed prefix or below it has the flag.                 *)
OnlyWaysToListed ==
  phase = "prefixes" => \A q \in nodes : Len(q) = 1 \/ \E m \in listed : IsPrefix(q, m)

ListedExist == listed \subseteq nodes

AllMarked == \A q \in nodes, m \in listed : IsPrefix(m, q) => relevant[q]

MarkInv == /\ IInv /\ NothingSearchedYet
           /\ OnlyWaysToListed /\ ListedExist /\ AllMarked /\ EveryAlertGiven

LEMMA InitMarkInv == Init => MarkInv
<1> SUFFICES ASSUME Init PROVE MarkInv
  OBVIOUS
<1>1. Len(<<0>>) = 1 /\ Len(<<1>>) = 1
  OBVIOUS
<1> QED
  BY <1>1, InitIInv
  DEF Init, MarkInv, NothingSearchedYet, OnlyWaysToListed, ListedExist, AllMarked,
      EveryAlertGiven

(* A descent hands the flag on to every node it creates below a listed     *)
(* prefix, as the node it starts from is below that prefix too.            *)
LEMMA DescentMarks ==
  ASSUME MarkInv, NEW n, NEW q \in Nets, q \in nodes \cup Path(n),
         NEW m \in listed, IsPrefix(m, q)
  PROVE  RelevantAfterDescent(n)[q]
<1>1. nodes \subseteq Nets /\ RootsExist /\ m \in nodes /\ m \in Nets
  BY DEF MarkInv, IInv, TypeOK, ListedExist
<1>2. CASE q \in nodes
  <2>1. relevant[q]
    BY <1>2 DEF MarkInv, AllMarked
  <2> QED
    BY <1>2, <2>1 DEF RelevantAfterDescent
<1>3. CASE q \notin nodes
  <2>1. /\ DeepestNode(q) \in nodes /\ DeepestNode(q) \in Nets
        /\ IsPrefix(DeepestNode(q), q) /\ Len(m) <= Len(DeepestNode(q))
    BY <1>1, DeepestNodeExists
  <2>2. IsPrefix(m, DeepestNode(q))
    BY <1>1, <2>1, PrefixesAreNested
  <2>3. relevant[DeepestNode(q)]
    BY <2>1, <2>2 DEF MarkInv, AllMarked
  <2> QED
    BY <1>3, <2>3 DEF RelevantAfterDescent
<1> QED
  BY <1>2, <1>3

LEMMA MessageKeepsMarks ==
  ASSUME MarkInv, NEW n, phase # "prefixes", phase' = phase,
         nodes' = nodes \cup Path(n), relevant' = RelevantAfterDescent(n), listed' = listed
  PROVE  NothingSearchedYet' /\ OnlyWaysToListed' /\ ListedExist' /\ AllMarked'
<1>1. nodes' \subseteq Nets
  BY DEF MarkInv, IInv, TypeOK, Path
<1>2. AllMarked'
  BY <1>1, DescentMarks DEF AllMarked
<1> QED
  BY <1>2 DEF MarkInv, NothingSearchedYet, OnlyWaysToListed, ListedExist

LEMMA ReadSpecialPrefixKeepsMarks ==
  ASSUME Disjoint, MarkInv, NEW n \in SpecialPrefixes, ReadSpecialPrefix(n)
  PROVE  OnlyWaysToListed' /\ ListedExist' /\ AllMarked' /\ EveryAlertGiven'
<1>1. /\ phase = "prefixes" /\ nodes' = nodes \cup Path(n)
      /\ relevant' = [RelevantAfterDescent(n) EXCEPT ![n] = TRUE]
      /\ listed' = listed \cup {n} /\ search' = search /\ search = {}
  BY DEF ReadSpecialPrefix, MarkInv, NothingSearchedYet
<1>2. /\ n \in Nets /\ n \in Path(n) /\ nodes \subseteq Nets /\ Path(n) \subseteq Nets
      /\ listed \subseteq SpecialPrefixes /\ SpecialPrefixes \subseteq Nets
  BY ConstantsAssumption, PathIncludesNet DEF MarkInv, IInv, TypeOK, Path
<1>3. /\ RelevantAfterDescent(n) \in [Nets -> BOOLEAN]
  BY DescentType DEF MarkInv, IInv, TypeOK
<1>4. OnlyWaysToListed'
  <2>1. \A q \in Path(n) : IsPrefix(q, n)
    BY DEF Path
  <2> QED
    BY <1>1, <2>1 DEF MarkInv, OnlyWaysToListed
<1>5. ListedExist'
  BY <1>1, <1>2 DEF MarkInv, ListedExist
<1>6. AllMarked'
  <2> SUFFICES ASSUME NEW q \in nodes', NEW m \in listed', IsPrefix(m, q)
               PROVE  relevant'[q]
    BY DEF AllMarked
  <2>1. q \in Nets /\ m \in Nets
    BY <1>1, <1>2
  <2>2. CASE q = n
    BY <1>1, <1>2, <1>3, <2>2
  <2>3. CASE q # n /\ m \in listed
    <3>1. RelevantAfterDescent(n)[q]
      BY <1>1, <2>1, <2>3, DescentMarks
    <3> QED
      BY <1>1, <1>3, <2>1, <2>3, <3>1
  <2>4. CASE q # n /\ m = n
    <3>1. q \notin Path(n)
      <4>1. ASSUME IsPrefix(q, n) PROVE q = n
        <5>1. Len(q) <= Len(n)
          BY <1>2, <2>1, <4>1, PrefixBits
        <5> QED
          BY <1>2, <2>1, <2>4, <5>1, SameNet
      <4> QED
        BY <2>4, <4>1 DEF Path
    <3>2. CASE Len(q) = 1
      <4>1. Len(q) <= Len(n)
        BY <1>2, <3>2, NetsAreSequences, ConstantsAssumption
      <4> QED
        BY <1>2, <2>1, <2>4, <4>1, SameNet
    <3>3. CASE \E k \in listed : IsPrefix(q, k)
      <4>1. PICK k \in listed : IsPrefix(q, k)
        BY <3>3
      <4>2. k \in Nets /\ k \in SpecialPrefixes
        BY <1>2
      <4>3. IsPrefix(n, k)
        BY <1>2, <2>1, <2>4, <4>1, <4>2, PrefixTransitive
      <4>4. n = k
        BY <4>2, <4>3 DEF Disjoint
      <4> QED
        BY <2>1, <3>1, <4>1, <4>4 DEF Path
    <3> QED
      BY <1>1, <3>1, <3>2, <3>3 DEF MarkInv, OnlyWaysToListed
  <2> QED
    BY <1>1, <2>2, <2>3, <2>4
<1>7. EveryAlertGiven'
  BY <1>1 DEF EveryAlertGiven
<1> QED
  BY <1>4, <1>5, <1>6, <1>7

(* Every subnet of a record is a node, and its flag was looked at.         *)
LEMMA AnnounceGivesAlert ==
  ASSUME MarkInv, NEW n \in Subnets, NEW p \in Peers, NEW o \in Origins, Announce(n, p, o),
         AllMarked'
  PROVE  EveryAlertGiven'
<1> DEFINE found == FindConflicts(activeAnnouncments', nodes', n, p, o)
           mark  == AlreadyAnnounced(activeAnnouncments[n], p, o)
           flag  == relevant'[n] \/ \E c \in found : relevant'[c.subnet]
<1>1. search' = IF Searching
                THEN {[referenceAnnouncement |-> <<n, o>>,
                       alreadyAnnounced      |-> mark,
                       conflictingMessages   |-> found,
                       relevant              |-> flag]}
                ELSE {}
  <2>1. activeAnnouncments' =
          [activeAnnouncments EXCEPT ![n] = AfterAnnouncement(@, p, o)]
    BY DEF Announce
  <2>2. CASE Searching
    BY <2>1, <2>2 DEF Announce
  <2>3. CASE ~Searching
    BY <2>3 DEF Announce
  <2> QED
    BY <2>2, <2>3
<1>2. n \in nodes'
  <2>1. n \in Nets /\ nodes' = nodes \cup Path(n)
    BY ConstantsAssumption DEF Announce
  <2> QED
    BY <2>1, PathIncludesNet
<1>3. \A c \in found : c.subnet \in nodes'
  BY DEF FindConflicts, ConflictsThisLevel
<1> HIDE DEF found, mark, flag
<1>4. ASSUME NEW s \in search', NEW m \in listed',
             NEW q \in {s.referenceAnnouncement[1]} \cup {c.subnet : c \in s.conflictingMessages},
             IsPrefix(m, q)
      PROVE  s.relevant
  <2>1. s = [referenceAnnouncement |-> <<n, o>>, alreadyAnnounced |-> mark,
             conflictingMessages |-> found, relevant |-> flag]
    BY <1>1, <1>4, Zenon
  <2>2. s.referenceAnnouncement[1] = n /\ s.conflictingMessages = found /\ s.relevant = flag
    BY <2>1, Zenon
  <2>3. q = n \/ \E c \in found : q = c.subnet
    BY <1>4, <2>2, Zenon
  <2>4. q \in nodes'
    BY <1>2, <1>3, <2>3
  <2>5. relevant'[q]
    BY <1>4, <2>4 DEF AllMarked
  <2>6. flag
    BY <2>3, <2>5 DEF flag
  <2> QED
    BY <2>2, <2>6, Zenon
<1> QED
  BY <1>4 DEF EveryAlertGiven

LEMMA NextMarkInv ==
  ASSUME Disjoint, MarkInv, [Next]_vars
  PROVE  MarkInv'
<1>1. IInv'
  BY NextIInv DEF MarkInv
<1>2. ASSUME NEW n \in SpecialPrefixes, ReadSpecialPrefix(n) PROVE MarkInv'
  <2>1. NothingSearchedYet'
    BY <1>2 DEF ReadSpecialPrefix, MarkInv, NothingSearchedYet
  <2> QED
    BY <1>1, <1>2, <2>1, ReadSpecialPrefixKeepsMarks DEF MarkInv
<1>3. ASSUME NEW n \in Subnets, NEW p \in Peers, NEW o \in Origins, Announce(n, p, o)
      PROVE  MarkInv'
  <2>1. NothingSearchedYet' /\ OnlyWaysToListed' /\ ListedExist' /\ AllMarked'
    BY <1>3, MessageKeepsMarks DEF Announce, Running
  <2> QED
    BY <1>1, <1>3, <2>1, AnnounceGivesAlert DEF MarkInv
<1>4. ASSUME NEW n \in Subnets, NEW p \in Peers, Withdraw(n, p)
      PROVE  MarkInv'
  <2>1. NothingSearchedYet' /\ OnlyWaysToListed' /\ ListedExist' /\ AllMarked'
    BY <1>4, MessageKeepsMarks DEF Withdraw
  <2>2. EveryAlertGiven'
    BY <1>4 DEF Withdraw, EveryAlertGiven
  <2> QED
    BY <1>1, <2>1, <2>2 DEF MarkInv
<1>5. ASSUME UNCHANGED <<trie, history>>, search' = {} \/ UNCHANGED search,
             phase' # "prefixes" \/ UNCHANGED <<phase, search>>
      PROVE  MarkInv'
  BY <1>1, <1>5
  DEF MarkInv, NothingSearchedYet, OnlyWaysToListed, ListedExist, AllMarked,
      EveryAlertGiven, trie, history
<1> QED
  BY <1>2, <1>3, <1>4, <1>5
  DEF Next, StartRib, StartUpdates, StopTimeReached, Discard, Running, vars

(* When no special prefix contains another one, every conflict at one of   *)
(* them or below is printed, whatever was inserted before: the order of    *)
(* the prefixes file does not matter then.                                 *)
THEOREM EveryAlertGivenAlways ==
  ASSUME Disjoint
  PROVE  Spec => []EveryAlertGiven
<1>1. Init => MarkInv
  BY InitMarkInv
<1>2. MarkInv /\ [Next]_vars => MarkInv'
  BY NextMarkInv
<1>3. MarkInv => EveryAlertGiven
  BY DEF MarkInv
<1> QED
  BY <1>1, <1>2, <1>3, PTL DEF Spec
=============================================================================
