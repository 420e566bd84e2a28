------------------------------ MODULE TrieWalk ------------------------------
(***************************************************************************)
(* The traversals of PrefixTrie.go call by call and in the order of the    *)
(* code, to compare them with the definitions of module PrefixTrie in      *)
(* every state of the trie and for every message that can come next.       *)
(***************************************************************************)
EXTENDS PrefixTrie

Messages == [peerID : Peers, origin : Origins, isAnnouncement : BOOLEAN]

-----------------------------------------------------------------------------
(* insertMessage at the right position: the loop.  Its state is the list,  *)
(* which shrinks, and the mark of the message.                             *)

(* Faulty variant: the entry that moves to index i is not skipped.         *)
LoopWithoutSkip(list, m) ==
  LET loop[k \in 0..Len(list)] ==
        IF k = 0 THEN [list |-> list, mark |-> FALSE, next |-> 1]
        ELSE LET s   == loop[k - 1]
                 i   == s.next
                 own == s.list[i].peerID = m.peerID
             IN  [list |-> IF own THEN RemoveAt(s.list, i) ELSE s.list,
                  mark |-> s.mark \/ (m.isAnnouncement /\ s.list[i].origin = m.origin),
                  next |-> IF own THEN i ELSE i + 1]
  IN  loop[Len(list)]

(* The iteration at index i, if the list still has one.                    *)
Iteration(s, m, i) ==
  IF i > Len(s.list) THEN s
  ELSE [list |-> IF s.list[i].peerID = m.peerID THEN RemoveAt(s.list, i) ELSE s.list,
        mark |-> s.mark \/ (m.isAnnouncement /\ s.list[i].origin = m.origin)]

Loop(list, m) ==
  LET loop[i \in 0..Len(list)] ==
        IF i = 0 THEN [list |-> list, mark |-> FALSE]
                 ELSE Iteration(loop[i - 1], m, i)
  IN  loop[Len(list)]

InsertHere(list, m) ==
  LET s == Loop(list, m)
  IN  IF m.isAnnouncement
      THEN Append(s.list, [origin |-> m.origin, peerID |-> m.peerID,
                           alreadyAnnounced |-> s.mark])
      ELSE s.list

-----------------------------------------------------------------------------
(* insertMessage above it: from node q to its child on the way, which is   *)
(* created with q's flag when there is none.                               *)

(* Faulty variant: a child is not given the flag of its parent.            *)
ChildWithoutFlag(t, q, child) == [t EXCEPT !.nodes = @ \cup {child}]

Child(t, q, child) ==
  IF child \in t.nodes THEN t
  ELSE [nodes    |-> t.nodes \cup {child},
        relevant |-> [t.relevant EXCEPT ![child] = t.relevant[q]]]

(* insert: the descent for net n starts at a child of the root; reached[k] *)
(* is the trie when it has come to depth k.                                *)
AfterDescent(n) ==
  LET reached[k \in 1..Len(n)] ==
        IF k = 1 THEN [nodes |-> nodes, relevant |-> relevant]
        ELSE Child(reached[k - 1], SubSeq(n, 1, k - 1), SubSeq(n, 1, k))
  IN  reached[Len(n)]

-----------------------------------------------------------------------------
(* The search, over the trie t with the new announcement m in it.  c is the*)
(* list of conflicting messages and the flag relevant.                     *)

Conflicts == [list : Seq(Conflict), relevant : BOOLEAN]

(* The body of the loop of findConflictsThisLevel for announcement a of q. *)
Compare(t, m, q, a, c) ==
  IF /\ a.origin # m.origin
     /\ \A d \in ToSet(c.list) : d.origin # a.origin \/ d.subnet # q
  THEN [list     |-> Append(c.list, [subnet |-> q, origin |-> a.origin,
                                     peerID |-> a.peerID]),
        relevant |-> c.relevant \/ t.relevant[q]]
  ELSE c

(* findConflictsThisLevel, from the newest announcement to the oldest.     *)
ThisLevel(t, m, q, c) ==
  LET list == t.active[q]
      found[k \in 0..Len(list)] ==
        IF k = 0 THEN c ELSE Compare(t, m, q, list[Len(list) - k + 1], found[k - 1])
  IN  found[Len(list)]

(* Some announcement of m's peer is marked among those of n, the node of m.*)
CutShort(t, m, n) ==
  \E i \in DOMAIN t.active[n] : /\ t.active[n][i].peerID = m.peerID
                                /\ t.active[n][i].alreadyAnnounced

(* findConflictsAboveAndSameLevel: k levels from n upwards.                *)
AboveAndSameLevel(t, m, n, c) ==
  LET found[k \in 0..Len(n)] ==
        IF k = 0 THEN c
        ELSE ThisLevel(t, m, SubSeq(n, 1, Len(n) - k + 1), found[k - 1])
  IN  IF CutShort(t, m, n) THEN c ELSE found[Len(n)]

(* findConflictsBelow: the level of a node, if it is not that of m, then   *)
(* its children.  There are no more than W calls one in the other.         *)
Subtrie(t, m, n, c) ==
  LET below[h \in 0..W] ==
        [q \in Seq({0, 1}) |-> [d \in Conflicts |->
           IF h = 0 \/ q \notin t.nodes THEN d
           ELSE LET here == IF q = n THEN d ELSE ThisLevel(t, m, q, d)
                    zero == below[h - 1][Append(q, 0)][here]
                IN  below[h - 1][Append(q, 1)][zero]]]
  IN  below[W][n][c]

(* Faulty variant: a mark at the node of m does not stop the search.       *)
BelowUnstopped(t, m, n, c) == Subtrie(t, m, n, c)

Below(t, m, n, c) == IF CutShort(t, m, n) THEN c ELSE Subtrie(t, m, n, c)

(* insertAndFindConflicts: insert, then search up, then down.              *)
Walk(t, m, n) ==
  Below(t, m, n, AboveAndSameLevel(t, m, n, [list |-> <<>>, relevant |-> t.relevant[n]]))

-----------------------------------------------------------------------------
(* The loop that deletes while it iterates keeps and marks what PrefixTrie *)
(* says, skipped entries included.                                         *)
LoopAgrees ==
  \A q \in nodes, m \in Messages :
    InsertHere(activeAnnouncments[q], m) =
      IF m.isAnnouncement
      THEN AfterAnnouncement(activeAnnouncments[q], m.peerID, m.origin)
      ELSE Remaining(activeAnnouncments[q], m.peerID)

(* The descent creates the nodes of Path, and no others, with the flag of  *)
(* the deepest node that was there.                                        *)
DescentAgrees ==
  \A n \in Nets : LET t == AfterDescent(n)
                  IN  /\ t.nodes = nodes \cup Path(n)
                      /\ t.relevant = RelevantAfterDescent(n)

(* Climbing and then visiting the subtrie finds the conflicts, and the     *)
(* flag, that Announce records, and none of them twice.                    *)
WalkAgrees ==
  \A n \in Subnets \ {<<>>}, m \in [peerID : Peers, origin : Origins] :
    LET d == AfterDescent(n)
        t == [nodes |-> d.nodes, relevant |-> d.relevant,
              active |-> [activeAnnouncments EXCEPT
                            ![n] = AfterAnnouncement(@, m.peerID, m.origin)]]
        c == Walk(t, m, n)
        found == FindConflicts(t.active, t.nodes, n, m.peerID, m.origin)
    IN  /\ ToSet(c.list) = found
        /\ Len(c.list) = Cardinality(found)
        /\ c.relevant = (\/ t.relevant[n]
                         \/ \E f \in found : t.relevant[f.subnet])
=============================================================================
