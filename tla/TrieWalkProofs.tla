--------------------------- MODULE TrieWalkProofs ---------------------------
(***************************************************************************)
(* Proofs that the loops and the recursion of PrefixTrie.go compute what   *)
(* module PrefixTrie says, in every state of the trie, for every number of *)
(* bits, peers and origins.                                                *)
(***************************************************************************)
EXTENDS TrieWalk, PrefixTrieProofs, Recursion, SequenceTheorems

-----------------------------------------------------------------------------
(* The loop that deletes while it iterates.                                *)

LEMMA RemoveAtIs ==
  ASSUME NEW X, NEW list \in Seq(X), NEW d \in 1..Len(list)
  PROVE  /\ RemoveAt(list, d) \in Seq(X)
         /\ Len(RemoveAt(list, d)) = Len(list) - 1
         /\ \A j \in 1..(Len(list) - 1) :
              RemoveAt(list, d)[j] = list[IF j < d THEN j ELSE j + 1]
<1> DEFINE N == Len(list)
           s == SubSeq(list, 1, d - 1)
           t == SubSeq(list, d + 1, N)
<1>1. N \in Nat /\ d \in 1..N /\ d - 1 \in Nat
  BY LenProperties
<1>2. /\ s \in Seq(X) /\ Len(s) = d - 1
      /\ \A j \in 1..(d - 1) : s[j] = list[j]
  <2>1. \A j \in 1..(d - 1) : list[j] \in X
    BY <1>1
  <2>2. s = [j \in 1..(d - 1) |-> list[j]]
    BY <1>1
  <2> HIDE DEF s
  <2> QED
    BY <1>1, <2>1, <2>2
<1>3. /\ t \in Seq(X) /\ Len(t) = N - d
      /\ \A j \in 1..(N - d) : t[j] = list[d + j]
  <2>1. \A j \in 1..(N - d) : list[d + j] \in X
    BY <1>1
  <2>2. t = [j \in 1..(N - d) |-> list[d + j]]
    BY <1>1
  <2>3. N - d \in Nat
    BY <1>1
  <2> HIDE DEF t
  <2> QED
    BY <2>1, <2>2, <2>3
<1>4. RemoveAt(list, d) = s \o t
  BY DEF RemoveAt
<1> HIDE DEF s, t, N
<1>5. /\ s \o t \in Seq(X) /\ Len(s \o t) = (d - 1) + (N - d)
      /\ \A j \in 1..(N - 1) : (s \o t)[j] = IF j <= d - 1 THEN s[j] ELSE t[j - (d - 1)]
  <2>1. /\ s \o t \in Seq(X) /\ Len(s \o t) = Len(s) + Len(t)
        /\ \A j \in 1..(Len(s) + Len(t)) :
             (s \o t)[j] = IF j <= Len(s) THEN s[j] ELSE t[j - Len(s)]
    BY <1>2, <1>3, ConcatProperties
  <2>2. Len(s) = d - 1 /\ Len(s) + Len(t) = N - 1
    BY <1>1, <1>2, <1>3
  <2> QED
    BY <1>2, <1>3, <2>1, <2>2
<1>6. Len(s \o t) = N - 1
  BY <1>1, <1>5
<1>7. ASSUME NEW j \in 1..(N - 1)
      PROVE  (s \o t)[j] = list[IF j < d THEN j ELSE j + 1]
  <2>1. CASE j < d
    BY <1>1, <1>2, <1>5, <2>1
  <2>2. CASE ~(j < d)
    <3>1. j - (d - 1) \in 1..(N - d) /\ d + (j - (d - 1)) = j + 1 /\ ~(j <= d - 1)
      BY <1>1, <2>2
    <3> QED
      BY <1>3, <1>5, <2>2, <3>1
  <2> QED
    BY <2>1, <2>2
<1> QED
  BY <1>4, <1>5, <1>6, <1>7 DEF N

(* Without the entry at d, which is the only one of the peer.              *)
LEMMA RemainingIs ==
  ASSUME NEW list \in Seq(Announcement), OnePerPeer(list), NEW p
  PROVE  /\ OwnEntries(list, p) = {} => Remaining(list, p) = list
         /\ \A d \in OwnEntries(list, p) : /\ OwnEntries(list, p) = {d}
                                           /\ Remaining(list, p) = RemoveAt(list, d)
<1> DEFINE n == Len(list)
           kept == DOMAIN list \ OwnEntries(list, p)
<1>1. n \in Nat /\ DOMAIN list = 1..n /\ \A i \in 1..n : list[i] \in Announcement
  OBVIOUS
<1>2. Remaining(list, p) = [j \in 1..Cardinality(kept) |-> list[Nth(kept, j)]]
  BY DeletedIsOwnEntries DEF Remaining
<1>3. ASSUME OwnEntries(list, p) = {}
      PROVE  Remaining(list, p) = list
  <2>1. kept = 1..n /\ Cardinality(kept) = n
    BY <1>1, <1>3, CardinalityOfInterval
  <2>2. Remaining(list, p) = [j \in 1..n |-> list[j]]
    BY <1>1, <1>2, <2>1, NthOfAll
  <2> QED
    BY <1>1, <2>2
<1>4. ASSUME NEW d \in OwnEntries(list, p)
      PROVE  OwnEntries(list, p) = {d} /\ Remaining(list, p) = RemoveAt(list, d)
  <2>1. OwnEntries(list, p) = {d} /\ d \in 1..n
    BY <1>1 DEF OwnEntries, OnePerPeer
  <2>2. IsFiniteSet(1..n) /\ Cardinality(1..n) = n
    BY <1>1, CardinalityOfInterval
  <2>3. Cardinality((1..n) \ {d}) = n - 1
    BY <2>1, <2>2, FS_RemoveElement
  <2>4. kept = (1..n) \ {d} /\ Cardinality(kept) = n - 1
    BY <1>1, <2>1, <2>3
  <2>5. Remaining(list, p) = [j \in 1..(n - 1) |-> list[IF j < d THEN j ELSE j + 1]]
    BY <1>1, <1>2, <2>1, <2>4, NthWithoutOne
  <2> DEFINE r == RemoveAt(list, d)
  <2>6. /\ r \in Seq(Announcement) /\ Len(r) = n - 1
        /\ \A j \in 1..(n - 1) : r[j] = list[IF j < d THEN j ELSE j + 1]
    BY <2>1, RemoveAtIs
  <2> HIDE DEF r
  <2>7. r = [j \in 1..(n - 1) |-> r[j]]
    BY <2>6
  <2> QED
    BY <2>1, <2>5, <2>6, <2>7 DEF r
<1> QED
  BY <1>3, <1>4

(* The loop is known when its states are.                                  *)
LEMMA LoopByStates ==
  ASSUME NEW list, NEW m, Len(list) \in Nat, NEW g, g = [i \in 0..Len(list) |-> g[i]],
         g[0] = [list |-> list, mark |-> FALSE],
         \A i \in 0..(Len(list) - 1) : g[i + 1] = Iteration(g[i], m, i + 1)
  PROVE  Loop(list, m) = g[Len(list)]
<1> DEFINE N == Len(list)
           first == [list |-> list, mark |-> FALSE]
           Rule(f) == f = [i \in 0..N |-> IF i = 0 THEN first ELSE Iteration(f[i - 1], m, i)]
           loop == CHOOSE f : Rule(f)
<1>1. Rule(g)
  <2>1. ASSUME NEW i \in 0..N
        PROVE  g[i] = IF i = 0 THEN first ELSE Iteration(g[i - 1], m, i)
    <3>1. CASE i = 0
      BY <3>1
    <3>2. CASE i # 0
      <4>1. i - 1 \in 0..(N - 1) /\ (i - 1) + 1 = i
        BY <2>1, <3>2
      <4> QED
        BY <3>2, <4>1
    <3> QED
      BY <3>1, <3>2
  <2> HIDE DEF first
  <2>2. g = [i \in 0..N |-> IF i = 0 THEN first ELSE Iteration(g[i - 1], m, i)]
    BY <2>1
  <2> QED
    BY <2>2 DEF first
<1>2. Rule(loop)
  <2> HIDE DEF Rule
  <2> QED
    BY <1>1
<1>3. Loop(list, m) = loop[N]
  BY DEF Loop
<1>4. loop[0] = g[0] /\ \A i \in 0..(N - 1) : loop[i + 1] = Iteration(loop[i], m, i + 1)
  <2> HIDE DEF first, loop
  <2>1. \A i \in 0..N : loop[i] = IF i = 0 THEN first ELSE Iteration(loop[i - 1], m, i)
    BY <1>2
  <2>2. ASSUME NEW i \in 0..(N - 1)
        PROVE  loop[i + 1] = Iteration(loop[i], m, i + 1)
    <3>1. i + 1 \in 0..N /\ i + 1 # 0 /\ (i + 1) - 1 = i
      OBVIOUS
    <3>2. loop[i + 1] = IF i + 1 = 0 THEN first ELSE Iteration(loop[(i + 1) - 1], m, i + 1)
      BY <2>1, <3>1
    <3> QED
      BY <3>1, <3>2
  <2>3. loop[0] = first
    BY <2>1
  <2> QED
    BY <2>2, <2>3 DEF first
<1> DEFINE S == {i \in 0..N : loop[i] = g[i]}
<1>5. 0..N \subseteq S
  <2> HIDE DEF loop
  <2>1. 0 \in S
    BY <1>4
  <2>2. ASSUME NEW i \in 0..(N - 1), i \in S
        PROVE  i + 1 \in S
    <3>1. i + 1 \in 0..N /\ loop[i] = g[i]
      BY <2>2
    <3>2. loop[i + 1] = g[i + 1]
      BY <1>4, <3>1
    <3> QED
      BY <3>1, <3>2
  <2> HIDE DEF S
  <2> QED
    BY <2>1, <2>2, InductiveInterval
<1>6. N \in 0..N
  OBVIOUS
<1> HIDE DEF loop
<1> QED
  BY <1>3, <1>5, <1>6

(* The message, if it announces, has the origin of an entry in S.          *)
SameOrigin(list, m, S) == m.isAnnouncement /\ \E j \in S : list[j].origin = m.origin

(* The loop when the list has become "list" and the entries S are compared.*)
State(list, all, m, S) == [list |-> list, mark |-> SameOrigin(all, m, S)]

LEMMA NoSameOrigin == ASSUME NEW list, NEW m PROVE SameOrigin(list, m, {}) = FALSE
BY DEF SameOrigin

Without(list, m, i) == IF list[i].peerID = m.peerID THEN RemoveAt(list, i) ELSE list

(* An iteration.  Entry i of the list was entry j of "all" at first.       *)
LEMMA IterationIs ==
  ASSUME NEW all, NEW S, NEW j, NEW list, NEW m \in Messages, NEW i \in 1..Len(list),
         Len(list) \in Nat, list[i] = all[j]
  PROVE  Iteration(State(list, all, m, S), m, i) = State(Without(list, m, i), all, m, S \cup {j})
<1> DEFINE s == State(list, all, m, S)
           after == s.mark \/ (m.isAnnouncement /\ s.list[i].origin = m.origin)
<1>1. s.list = list /\ s.mark = SameOrigin(all, m, S)
  BY DEF State
<1>2. ~(i > Len(list))
  OBVIOUS
<1>3. Iteration(s, m, i) = [list |-> Without(list, m, i), mark |-> after]
  BY <1>1, <1>2 DEF Iteration, Without
<1>4. after = SameOrigin(all, m, S \cup {j})
  BY <1>1 DEF SameOrigin
<1> HIDE DEF after
<1> QED
  BY <1>3, <1>4 DEF State

LEMMA LoopWithoutOwn ==
  ASSUME NEW list \in Seq(Announcement), NEW m \in Messages,
         OwnEntries(list, m.peerID) = {}
  PROVE  Loop(list, m) = [list |-> list, mark |-> SameOrigin(list, m, 1..Len(list))]
<1> DEFINE N == Len(list)
           g == [i \in 0..N |-> State(list, list, m, 1..i)]
<1>1. N \in Nat /\ \A i \in 1..N : list[i].peerID # m.peerID
  BY DEF OwnEntries
<1>2. g[0] = [list |-> list, mark |-> FALSE]
  <2>1. 1..0 = {}
    OBVIOUS
  <2>2. 0 \in 0..N
    BY <1>1
  <2> QED
    BY <2>1, <2>2, NoSameOrigin DEF State
<1>3. ASSUME NEW i \in 0..(N - 1)
      PROVE  g[i + 1] = Iteration(g[i], m, i + 1)
  <2>1. i \in 0..N /\ i + 1 \in 0..N /\ i + 1 \in 1..N
    OBVIOUS
  <2>2. (1..i) \cup {i + 1} = 1..(i + 1)
    OBVIOUS
  <2>3. /\ g[i] = State(list, list, m, 1..i)
        /\ g[i + 1] = State(list, list, m, 1..(i + 1))
    BY <2>1
  <2> HIDE DEF g
  <2>4. Iteration(State(list, list, m, 1..i), m, i + 1)
          = State(Without(list, m, i + 1), list, m, (1..i) \cup {i + 1})
    BY <1>1, <2>1, IterationIs
  <2>5. Without(list, m, i + 1) = list
    BY <1>1, <2>1 DEF Without
  <2> QED
    BY <2>2, <2>3, <2>4, <2>5
<1>4. Loop(list, m) = g[N]
  <2>1. g = [i \in 0..N |-> g[i]]
    OBVIOUS
  <2> HIDE DEF g
  <2> QED
    BY <1>1, <1>2, <1>3, <2>1, LoopByStates
<1> QED
  BY <1>1, <1>4 DEF State

LEMMA LoopWithOwn ==
  ASSUME NEW list \in Seq(Announcement), NEW m \in Messages,
         NEW d \in 1..Len(list), OwnEntries(list, m.peerID) = {d}
  PROVE  Loop(list, m) = [list |-> RemoveAt(list, d),
                          mark |-> SameOrigin(list, m, (1..Len(list)) \ {d + 1})]
<1> DEFINE N == Len(list)
           rest == RemoveAt(list, d)
           seen(i) == IF i < d THEN 1..i ELSE {j \in 1..N : j <= i + 1 /\ j # d + 1}
           left(i) == IF i < d THEN list ELSE rest
           g == [i \in 0..N |-> State(left(i), list, m, seen(i))]
<1>1. /\ N \in Nat /\ d \in 1..N
      /\ \A i \in 1..N : i # d <=> list[i].peerID # m.peerID
  BY DEF OwnEntries
<1>2. /\ Len(rest) = N - 1
      /\ \A j \in 1..(N - 1) : rest[j] = list[IF j < d THEN j ELSE j + 1]
  BY RemoveAtIs
<1> HIDE DEF rest
<1>3. g[0] = [list |-> list, mark |-> FALSE]
  <2>1. seen(0) = {} /\ left(0) = list /\ 0 \in 0..N
    BY <1>1
  <2> HIDE DEF seen, left
  <2> QED
    BY <2>1, NoSameOrigin DEF State
<1>4. ASSUME NEW i \in 0..(N - 1)
      PROVE  g[i + 1] = Iteration(g[i], m, i + 1)
  <2>1. i \in 0..N /\ i + 1 \in 0..N /\ i + 1 \in 1..N
    BY <1>1
  <2>2. /\ g[i] = State(left(i), list, m, seen(i))
        /\ g[i + 1] = State(left(i + 1), list, m, seen(i + 1))
    <3> HIDE DEF left, seen
    <3> QED
      BY <2>1
  <2> HIDE DEF g
  <2>5. CASE i + 1 < d
    <3>1. left(i) = list /\ left(i + 1) = list /\ seen(i) \cup {i + 1} = seen(i + 1)
      BY <1>1, <2>1, <2>5
    <3>2. list[i + 1].peerID # m.peerID
      BY <1>1, <2>1, <2>5
    <3> HIDE DEF left, seen
    <3>3. Iteration(State(list, list, m, seen(i)), m, i + 1)
            = State(Without(list, m, i + 1), list, m, seen(i) \cup {i + 1})
      BY <1>1, <2>1, IterationIs
    <3>4. Without(list, m, i + 1) = list
      BY <3>2 DEF Without
    <3> QED
      BY <2>2, <3>1, <3>3, <3>4
  <2>6. CASE i + 1 = d
    <3>1. left(i) = list /\ left(i + 1) = rest /\ seen(i) \cup {i + 1} = seen(i + 1)
      BY <1>1, <2>1, <2>6
    <3>2. list[i + 1].peerID = m.peerID /\ RemoveAt(list, i + 1) = rest
      BY <1>1, <2>1, <2>6 DEF rest
    <3> HIDE DEF left, seen
    <3>3. Iteration(State(list, list, m, seen(i)), m, i + 1)
            = State(Without(list, m, i + 1), list, m, seen(i) \cup {i + 1})
      BY <1>1, <2>1, IterationIs
    <3>4. Without(list, m, i + 1) = rest
      BY <3>2 DEF Without
    <3> QED
      BY <2>2, <3>1, <3>3, <3>4
  <2>7. CASE i + 1 > d /\ i + 1 < N
    <3>1. /\ left(i) = rest /\ left(i + 1) = rest
          /\ seen(i) \cup {i + 2} = seen(i + 1)
      BY <1>1, <2>1, <2>7
    <3>2. /\ i + 1 \in 1..Len(rest) /\ rest[i + 1] = list[i + 2]
          /\ i + 2 \in 1..N /\ i + 2 # d
      <4>1. i + 1 \in 1..(N - 1) /\ ~(i + 1 < d) /\ (i + 1) + 1 = i + 2
            /\ i + 2 \in 1..N /\ i + 2 # d
        BY <1>1, <2>1, <2>7
      <4> QED
        BY <1>2, <4>1
    <3>3. rest[i + 1].peerID # m.peerID
      BY <1>1, <3>2
    <3>4. Len(rest) \in Nat
      BY <1>1, <1>2
    <3> HIDE DEF left, seen
    <3>5. Iteration(State(rest, list, m, seen(i)), m, i + 1)
            = State(Without(rest, m, i + 1), list, m, seen(i) \cup {i + 2})
      BY <3>2, <3>4, IterationIs
    <3>6. Without(rest, m, i + 1) = rest
      BY <3>3 DEF Without
    <3> QED
      BY <2>2, <3>1, <3>5, <3>6
  <2>8. CASE i + 1 > d /\ ~(i + 1 < N)
    <3>a. N = i + 1 /\ ~(i < d) /\ ~(i + 1 < d)
      BY <1>1, <2>1, <2>8
    <3>b. \A j \in 1..N : j <= i + 1 /\ j <= (i + 1) + 1
      BY <3>a
    <3>c. {j \in 1..N : j <= i + 1 /\ j # d + 1}
            = {j \in 1..N : j <= (i + 1) + 1 /\ j # d + 1}
      BY <3>b
    <3>1. left(i) = rest /\ left(i + 1) = rest /\ seen(i) = seen(i + 1)
      BY <3>a, <3>c
    <3>0. i + 1 > Len(rest)
      BY <1>1, <1>2, <2>1, <2>8
    <3> HIDE DEF left, seen
    <3>2. Iteration(g[i], m, i + 1) = g[i]
      BY <2>2, <3>0, <3>1 DEF Iteration, State
    <3> QED
      BY <2>2, <3>1, <3>2
  <2> QED
    BY <1>1, <2>1, <2>5, <2>6, <2>7, <2>8
<1>5. Loop(list, m) = g[N]
  <2>1. g = [i \in 0..N |-> g[i]]
    OBVIOUS
  <2> HIDE DEF g
  <2> QED
    BY <1>1, <1>3, <1>4, <2>1, LoopByStates
<1>6. left(N) = rest /\ seen(N) = (1..N) \ {d + 1} /\ N \in 0..N
  BY <1>1
<1>7. g[N] = State(rest, list, m, (1..N) \ {d + 1})
  <2> HIDE DEF left, seen
  <2> QED
    BY <1>6
<1> QED
  BY <1>5, <1>7 DEF rest, State

LEMMA InsertHereIs ==
  ASSUME NEW list \in Seq(Announcement), OnePerPeer(list), NEW m \in Messages
  PROVE  InsertHere(list, m) = IF m.isAnnouncement
                               THEN AfterAnnouncement(list, m.peerID, m.origin)
                               ELSE Remaining(list, m.peerID)
<1> DEFINE N == Len(list)
           p == m.peerID
           o == m.origin
<1>1. N \in Nat /\ DOMAIN list = 1..N
  OBVIOUS
<1>2. Loop(list, m).list = Remaining(list, p)
      /\ (m.isAnnouncement => Loop(list, m).mark = AlreadyAnnounced(list, p, o))
  <2>1. CASE OwnEntries(list, p) = {}
    <3>1. Loop(list, m) = [list |-> list, mark |-> SameOrigin(list, m, 1..N)]
      BY <2>1, LoopWithoutOwn
    <3>2. Visited(list, p) = 1..N
      BY <1>1, <2>1, DeletedIsOwnEntries DEF Visited
    <3>3. m.isAnnouncement => SameOrigin(list, m, 1..N) = AlreadyAnnounced(list, p, o)
      BY <3>2 DEF AlreadyAnnounced, SameOrigin
    <3> QED
      BY <2>1, <3>1, <3>3, RemainingIs
  <2>2. CASE OwnEntries(list, p) # {}
    <3>1. PICK d \in 1..N : OwnEntries(list, p) = {d}
      BY <1>1, <2>2, RemainingIs DEF OwnEntries
    <3>2. Loop(list, m) = [list |-> RemoveAt(list, d),
                           mark |-> SameOrigin(list, m, (1..N) \ {d + 1})]
      BY <3>1, LoopWithOwn
    <3>3. Visited(list, p) = (1..N) \ {d + 1}
      <4>1. Visited(list, p) = {i \in 1..N : i - 1 \notin {d}}
        BY <1>1, <3>1, DeletedIsOwnEntries DEF Visited
      <4>2. \A i \in 1..N : i - 1 = d <=> i = d + 1
        OBVIOUS
      <4> QED
        BY <4>1, <4>2
    <3>4. m.isAnnouncement =>
            SameOrigin(list, m, (1..N) \ {d + 1}) = AlreadyAnnounced(list, p, o)
      BY <3>3 DEF AlreadyAnnounced, SameOrigin
    <3>5. Remaining(list, p) = RemoveAt(list, d)
      BY <3>1, RemainingIs
    <3> QED
      BY <3>2, <3>4, <3>5
  <2> QED
    BY <2>1, <2>2
<1> QED
  BY <1>2 DEF InsertHere, AfterAnnouncement

(* The loop that deletes from the list it iterates over leaves what        *)
(* PrefixTrie says and marks what it says, at every node and for every     *)
(* message that can come next.                                             *)
THEOREM LoopAgreesAlways == Spec => []LoopAgrees
<1>1. IInv => LoopAgrees
  <2> SUFFICES ASSUME IInv, NEW q \in nodes, NEW m \in Messages
               PROVE  InsertHere(activeAnnouncments[q], m) =
                        IF m.isAnnouncement
                        THEN AfterAnnouncement(activeAnnouncments[q], m.peerID, m.origin)
                        ELSE Remaining(activeAnnouncments[q], m.peerID)
    BY DEF LoopAgrees
  <2>1. q \in Nets /\ activeAnnouncments[q] \in Seq(Announcement)
    BY DEF IInv, TypeOK
  <2>2. OnePerPeer(activeAnnouncments[q])
    BY <2>1, OnePerPeerEverywhere DEF IInv
  <2> QED
    BY <2>1, <2>2, InsertHereIs
<1> QED
  BY <1>1, InitIInv, NextIInv, PTL DEF Spec

-----------------------------------------------------------------------------
(* The descent.                                                            *)

FirstBits(n, k) == SubSeq(n, 1, k)

LEMMA FirstBitsAre ==
  ASSUME NEW n \in Nets, NEW k \in 1..Len(n)
  PROVE  /\ FirstBits(n, k) \in Nets /\ Len(FirstBits(n, k)) = k
         /\ FirstBits(n, Len(n)) = n
         /\ IsPrefix(FirstBits(n, k), n)
         /\ \A q \in Nets : IsPrefix(q, FirstBits(n, k)) <=> IsPrefix(q, n) /\ Len(q) <= k
<1> DEFINE f == FirstBits(n, k)
<1>1. n \in Seq({0, 1}) /\ Len(n) \in 1..W /\ W \in Nat
  BY NetsAreSequences, ConstantsAssumption
<1>2. f = [i \in 1..k |-> n[i]] /\ k \in 1..W
  BY <1>1 DEF FirstBits
<1>3. \A i \in 1..k : n[i] \in {0, 1} /\ i \in 1..Len(n)
  BY <1>1
<1> HIDE DEF f
<1>4. f \in Nets /\ Len(f) = k /\ \A i \in 1..k : f[i] = n[i]
  <2>1. f \in [1..k -> {0, 1}]
    BY <1>2, <1>3
  <2>2. f \in Nets
    BY <1>2, <2>1 DEF Nets
  <2> QED
    BY <1>1, <1>2, <2>1, <2>2
<1>5. FirstBits(n, Len(n)) = n
  BY <1>1 DEF FirstBits
<1>6. IsPrefix(f, n)
  BY <1>1, <1>4, PrefixBits
<1>7. ASSUME NEW q \in Nets
      PROVE  IsPrefix(q, f) <=> IsPrefix(q, n) /\ Len(q) <= k
  <2>1. Len(q) \in Nat /\ k \in Nat /\ k <= Len(n) /\ Len(n) \in Nat
    BY <1>1, NetsAreSequences
  <2>2. IsPrefix(q, f) <=> Len(q) <= k /\ \A i \in 1..Len(q) : q[i] = f[i]
    BY <1>4, PrefixBits
  <2>3. IsPrefix(q, n) <=> Len(q) <= Len(n) /\ \A i \in 1..Len(q) : q[i] = n[i]
    BY PrefixBits
  <2>4. Len(q) <= k => \A i \in 1..Len(q) : f[i] = n[i]
    <3>1. Len(q) <= k => \A i \in 1..Len(q) : i \in 1..k
      BY <2>1
    <3> QED
      BY <1>4, <3>1
  <2>5. Len(q) <= k => Len(q) <= Len(n)
    BY <2>1
  <2> QED
    BY <2>2, <2>3, <2>4, <2>5
<1> QED
  BY <1>4, <1>5, <1>6, <1>7 DEF f

(* One node more on the way.                                               *)
LEMMA PathGrows ==
  ASSUME NEW n \in Nets, NEW k \in 1..Len(n), k + 1 \in 1..Len(n)
  PROVE  /\ Path(FirstBits(n, k + 1)) = Path(FirstBits(n, k)) \cup {FirstBits(n, k + 1)}
         /\ FirstBits(n, k + 1) \notin Path(FirstBits(n, k))
<1> DEFINE f == FirstBits(n, k)
           g == FirstBits(n, k + 1)
<1>1. /\ f \in Nets /\ Len(f) = k /\ IsPrefix(f, n)
      /\ g \in Nets /\ Len(g) = k + 1 /\ IsPrefix(g, n)
      /\ k \in Nat
  BY FirstBitsAre
<1>2. \A q \in Nets : /\ q \in Path(f) <=> IsPrefix(q, n) /\ Len(q) <= k
                      /\ q \in Path(g) <=> IsPrefix(q, n) /\ Len(q) <= k + 1
                      /\ Len(q) \in Nat
  BY FirstBitsAre, NetsAreSequences DEF Path
<1> HIDE DEF f, g
<1>3. \A q \in Nets : IsPrefix(q, n) /\ Len(q) = k + 1 => q = g
  <2> SUFFICES ASSUME NEW q \in Nets, IsPrefix(q, n), Len(q) = k + 1
               PROVE  q = g
    OBVIOUS
  <2>1. k + 1 <= k + 1
    BY <1>1
  <2>2. IsPrefix(q, g)
    BY <1>1, <2>1, PrefixesAreNested
  <2> QED
    BY <1>1, <2>1, <2>2, SameNet
<1>4. Path(f) \subseteq Nets /\ Path(g) \subseteq Nets
  BY DEF Path
<1>5. \A q \in Nets : q \in Path(g) <=> q \in Path(f) \/ q = g
  <2> TAKE q \in Nets
  <2>1. Len(q) <= k + 1 <=> Len(q) <= k \/ Len(q) = k + 1
    BY <1>1, <1>2
  <2> QED
    BY <1>1, <1>2, <1>3, <2>1
<1>6. g \notin Path(f)
  <2>1. ~(k + 1 <= k)
    BY <1>1
  <2> QED
    BY <1>1, <1>2, <2>1
<1> QED
  BY <1>1, <1>4, <1>5, <1>6 DEF f, g

(* A net has one deepest node above it; it is the net itself if it exists. *)
LEMMA DeepestNodeIs ==
  ASSUME nodes \subseteq Nets, RootsExist, NEW q \in Nets, NEW a \in nodes,
         IsPrefix(a, q), \A b \in nodes : IsPrefix(b, q) => Len(b) <= Len(a)
  PROVE  DeepestNode(q) = a
<1> DEFINE d == DeepestNode(q)
<1>1. d \in nodes /\ IsPrefix(d, q) /\ \A b \in nodes : IsPrefix(b, q) => Len(b) <= Len(d)
  BY DeepestNodeExists
<1> HIDE DEF d
<1>2. a \in Nets /\ d \in Nets /\ Len(a) <= Len(d) /\ Len(d) <= Len(a)
  BY <1>1
<1>3. Len(a) = Len(d)
  BY <1>2, NetsAreSequences, ConstantsAssumption
<1>4. IsPrefix(d, a)
  BY <1>1, <1>2, PrefixesAreNested
<1> QED
  BY <1>2, <1>3, <1>4, SameNet DEF d

(* The trie when the descent for n has come to depth k.                    *)
Descended(n, k) == [nodes    |-> nodes \cup Path(FirstBits(n, k)),
                    relevant |-> RelevantAfterDescent(FirstBits(n, k))]

LEMMA NothingToCreate ==
  ASSUME IInv, NEW n, Path(n) \subseteq nodes
  PROVE  nodes \cup Path(n) = nodes /\ RelevantAfterDescent(n) = relevant
<1>1. Path(n) \ nodes = {} /\ nodes \cup Path(n) = nodes
  OBVIOUS
<1>2. relevant = [q \in Nets |-> relevant[q]]
  BY DEF IInv, TypeOK
<1>3. RelevantAfterDescent(n) = [q \in Nets |-> relevant[q]]
  BY <1>1 DEF RelevantAfterDescent
<1> QED
  BY <1>1, <1>2, <1>3

LEMMA DescentStarts ==
  ASSUME IInv, NothingOutOfReach, NEW n \in Nets
  PROVE  Descended(n, 1) = [nodes |-> nodes, relevant |-> relevant]
<1> DEFINE f == FirstBits(n, 1)
<1>1. 1 \in 1..Len(n) /\ n[1] \in {0, 1}
  BY NetsAreSequences, ConstantsAssumption
<1>2. f \in Nets /\ f = <<n[1]>>
  <2>1. f \in Nets
    BY <1>1, FirstBitsAre
  <2>2. n \in Seq({0, 1}) /\ 1 <= Len(n) /\ Len(n) \in Nat
    BY NetsAreSequences, ConstantsAssumption
  <2>3. f \in Seq({0, 1}) /\ Len(f) = 1 /\ f[1] = n[1]
    <3>1. IsPrefix(f, n) /\ Len(f) = 1
      BY <1>1, FirstBitsAre
    <3>2. f \in Seq({0, 1})
      BY <2>1, NetsAreSequences
    <3> HIDE DEF f
    <3> QED
      BY <2>1, <3>1, <3>2, PrefixBits
  <2> HIDE DEF f
  <2>4. f = <<f[1]>>
    BY <2>3
  <2> QED
    BY <2>1, <2>3, <2>4
<1>3. f \in nodes
  BY <1>1, <1>2 DEF IInv, RootsExist
<1>4. Path(f) \subseteq nodes
  BY <1>2, <1>3 DEF NothingOutOfReach, Path
<1> HIDE DEF f
<1>5. nodes \cup Path(f) = nodes /\ RelevantAfterDescent(f) = relevant
  BY <1>4, NothingToCreate
<1> QED
  BY <1>5 DEF Descended, f

LEMMA DescentGoesOn ==
  ASSUME IInv, NothingOutOfReach, NEW n \in Nets,
         NEW k \in 1..Len(n), k + 1 \in 1..Len(n)
  PROVE  Descended(n, k + 1) = Child(Descended(n, k), FirstBits(n, k), FirstBits(n, k + 1))
<1> DEFINE f == FirstBits(n, k)
           g == FirstBits(n, k + 1)
<1>1. f \in Nets /\ g \in Nets
  BY FirstBitsAre
<1>2. Path(g) = Path(f) \cup {g} /\ g \notin Path(f)
  BY PathGrows
<1>3. Descended(n, k) = [nodes |-> nodes \cup Path(f), relevant |-> RelevantAfterDescent(f)]
      /\ Descended(n, k + 1) = [nodes |-> nodes \cup Path(g), relevant |-> RelevantAfterDescent(g)]
  BY DEF Descended
<1> HIDE DEF f, g
<1>4. CASE g \in nodes
  <2>1. Path(g) \subseteq nodes /\ Path(f) \subseteq nodes
    BY <1>1, <1>2, <1>4 DEF NothingOutOfReach, Path
  <2>2. /\ Descended(n, k) = [nodes |-> nodes, relevant |-> relevant]
        /\ Descended(n, k + 1) = [nodes |-> nodes, relevant |-> relevant]
    BY <1>3, <2>1, NothingToCreate
  <2> QED
    BY <1>4, <2>2 DEF Child, f, g
<1>5. CASE g \notin nodes
  <2> DEFINE above == RelevantAfterDescent(f)
             below == RelevantAfterDescent(g)
  <2>1. nodes \cup Path(g) = nodes \cup Path(f) \cup {g} /\ g \notin nodes \cup Path(f)
    BY <1>2, <1>5
  <2>2. nodes \subseteq Nets /\ RootsExist /\ relevant \in [Nets -> BOOLEAN]
    BY DEF IInv, TypeOK
  <2>3. DeepestNode(g) = DeepestNode(f)
    <3> DEFINE d == DeepestNode(f)
    <3>1. d \in nodes /\ IsPrefix(d, f) /\ \A b \in nodes : IsPrefix(b, f) => Len(b) <= Len(d)
      BY <1>1, <2>2, DeepestNodeExists
    <3> HIDE DEF d
    <3>2. \A b \in nodes : IsPrefix(b, g) <=> IsPrefix(b, f)
      BY <1>2, <1>5, <2>2 DEF Path
    <3>3. DeepestNode(g) = d
      BY <1>1, <2>2, <3>1, <3>2, DeepestNodeIs
    <3> QED
      BY <3>3 DEF d
  <2>4. above[f] = relevant[DeepestNode(f)]
    <3>1. f \in Path(f)
      BY <1>1, PathIncludesNet
    <3>2. f \in nodes => DeepestNode(f) = f
      <4>1. \A b \in Nets : IsPrefix(b, f) => Len(b) <= Len(f)
        BY <1>1, PrefixBits
      <4> QED
        BY <1>1, <2>2, <4>1, DeepestNodeIs, PrefixReflexive
    <3> QED
      BY <1>1, <3>1, <3>2 DEF RelevantAfterDescent
  <2>5. below = [above EXCEPT ![g] = above[f]]
    <3>1. \A q \in Nets : below[q] = IF q = g THEN above[f] ELSE above[q]
      <4> SUFFICES ASSUME NEW q \in Nets
                   PROVE  below[q] = IF q = g THEN above[f] ELSE above[q]
        OBVIOUS
      <4>1. CASE q = g
        <5>1. g \in Path(g) \ nodes
          BY <1>2, <1>5
        <5>2. below[g] = relevant[DeepestNode(g)]
          BY <1>1, <5>1 DEF RelevantAfterDescent
        <5> QED
          BY <2>3, <2>4, <4>1, <5>2
      <4>2. CASE q # g
        <5>1. q \in Path(g) \ nodes <=> q \in Path(f) \ nodes
          BY <1>2, <4>2
        <5> QED
          BY <4>2, <5>1 DEF RelevantAfterDescent
      <4> QED
        BY <4>1, <4>2
    <3>2. above \in [Nets -> BOOLEAN] /\ below \in [Nets -> BOOLEAN]
      BY <2>2, DescentType
    <3> HIDE DEF above, below
    <3> QED
      BY <1>1, <3>1, <3>2
  <2>6. g \notin Descended(n, k).nodes
    BY <1>3, <2>1
  <2>7. Child(Descended(n, k), f, g)
          = [nodes |-> nodes \cup Path(f) \cup {g}, relevant |-> [above EXCEPT ![g] = above[f]]]
    <3> HIDE DEF above
    <3>1. Descended(n, k).relevant = above /\ Descended(n, k).nodes = nodes \cup Path(f)
      BY <1>3 DEF above
    <3> QED
      BY <2>6, <3>1 DEF Child
  <2> HIDE DEF above, below
  <2>8. Descended(n, k + 1) = [nodes |-> nodes \cup Path(g), relevant |-> below]
    BY <1>3 DEF below
  <2> QED
    BY <2>1, <2>5, <2>7, <2>8 DEF f, g
<1> QED
  BY <1>4, <1>5

(* The descent is known when its states are.                               *)
LEMMA AfterDescentIs ==
  ASSUME IInv, NothingOutOfReach, NEW n \in Nets
  PROVE  AfterDescent(n) = Descended(n, Len(n))
<1> DEFINE N == Len(n)
           first == [nodes |-> nodes, relevant |-> relevant]
           Step(f, k) == Child(f[k - 1], SubSeq(n, 1, k - 1), SubSeq(n, 1, k))
           Rule(f) == f = [k \in 1..N |-> IF k = 1 THEN first ELSE Step(f, k)]
           reached == CHOOSE f : Rule(f)
           g == [k \in 1..N |-> Descended(n, k)]
<1>1. N \in Nat /\ 1 \in 1..N /\ N \in 1..N
  BY NetsAreSequences, ConstantsAssumption
<1> HIDE DEF N
<1>2. g[1] = first /\ \A k \in 1..N : k # 1 => g[k] = Step(g, k)
  <2>1. g[1] = first
    BY <1>1, DescentStarts
  <2>2. ASSUME NEW k \in 1..N, k # 1
        PROVE  g[k] = Step(g, k)
    <3>1. k - 1 \in 1..N /\ (k - 1) + 1 = k
      BY <1>1, <2>2
    <3>2. g[k] = Descended(n, k) /\ g[k - 1] = Descended(n, k - 1)
      BY <3>1
    <3>3. Descended(n, (k - 1) + 1)
            = Child(Descended(n, k - 1), FirstBits(n, k - 1), FirstBits(n, (k - 1) + 1))
      <4>1. (k - 1) + 1 \in 1..Len(n) /\ k - 1 \in 1..Len(n)
        BY <3>1 DEF N
      <4> QED
        BY <4>1, DescentGoesOn
    <3> HIDE DEF g
    <3> QED
      BY <3>1, <3>2, <3>3 DEF FirstBits
  <2> QED
    BY <2>1, <2>2
<1>3. Rule(g)
  <2>1. g = [k \in 1..N |-> g[k]]
    OBVIOUS
  <2>2. \A k \in 1..N : g[k] = IF k = 1 THEN first ELSE Step(g, k)
    <3> HIDE DEF g, Step, first
    <3> QED
      BY <1>2
  <2> HIDE DEF g, Step, first
  <2> QED
    BY <2>1, <2>2
<1>4. Rule(reached)
  <2> HIDE DEF Rule
  <2> QED
    BY <1>3
<1>5. AfterDescent(n) = reached[N]
  BY DEF AfterDescent, N
<1>6. \A k \in 1..N : reached[k] = IF k = 1 THEN first ELSE Step(reached, k)
  <2> HIDE DEF reached, first, Step
  <2> QED
    BY <1>4
<1> HIDE DEF reached, first, g
<1> DEFINE S == {k \in 0..(N - 1) : reached[k + 1] = g[k + 1]}
<1>7. 0 \in S
  BY <1>1, <1>2, <1>6
<1>8. ASSUME NEW k \in 0..((N - 1) - 1), k \in S
      PROVE  k + 1 \in S
  <2>1. (k + 1) + 1 \in 1..N /\ (k + 1) + 1 # 1 /\ ((k + 1) + 1) - 1 = k + 1
        /\ k + 1 \in 0..(N - 1)
    BY <1>1
  <2>2. reached[(k + 1) + 1] = Step(reached, (k + 1) + 1) /\ g[(k + 1) + 1] = Step(g, (k + 1) + 1)
    <3> HIDE DEF Step
    <3> QED
      BY <1>2, <1>6, <2>1
  <2>3. reached[k + 1] = g[k + 1]
    BY <1>8
  <2> QED
    BY <2>1, <2>2, <2>3
<1>9. 0..(N - 1) \subseteq S
  <2>1. N - 1 \in Nat
    BY <1>1
  <2> HIDE DEF S
  <2> QED
    BY <1>7, <1>8, <2>1, InductiveInterval
<1>10. N - 1 \in S /\ (N - 1) + 1 = N
  BY <1>1, <1>9
<1> QED
  BY <1>1, <1>5, <1>10 DEF g, N

(* The descent, which creates one node after the other, each with the flag *)
(* of its parent, ends with the nodes and flags that PrefixTrie says.      *)
THEOREM DescentAgreesAlways == Spec => []DescentAgrees
<1>1. IInv /\ NothingOutOfReach => DescentAgrees
  <2> SUFFICES ASSUME IInv, NothingOutOfReach, NEW n \in Nets
               PROVE  /\ AfterDescent(n).nodes = nodes \cup Path(n)
                      /\ AfterDescent(n).relevant = RelevantAfterDescent(n)
    BY DEF DescentAgrees
  <2>1. FirstBits(n, Len(n)) = n
    BY FirstBitsAre, NetsAreSequences, ConstantsAssumption
  <2> QED
    BY <2>1, AfterDescentIs DEF Descended
<1> QED
  BY <1>1, InitIInv, NextIInv, InitNothingOutOfReach, NextNothingOutOfReach, PTL DEF Spec

-----------------------------------------------------------------------------
(* The search.                                                             *)

(* The tries the search is made on.                                        *)
IsTrie(t) == /\ t.nodes \subseteq Nets
             /\ t.active \in Tables
             /\ t.relevant \in [Nets -> BOOLEAN]
             /\ \A q \in t.nodes : Path(q) \subseteq t.nodes

(* What has been found, without a conflict that is listed twice.           *)
Distinct(c) == /\ c \in Conflicts
               /\ IsFiniteSet(ToSet(c.list))
               /\ Len(c.list) = Cardinality(ToSet(c.list))

(* From c to d the search finds the conflicts S.                           *)
Found(t, c, d, S) == /\ Distinct(d)
                     /\ ToSet(d.list) = ToSet(c.list) \cup S
                     /\ d.relevant <=> c.relevant \/ \E f \in S : t.relevant[f.subnet]

LEMMA NothingFound ==
  ASSUME NEW t, NEW c, Distinct(c)
  PROVE  Found(t, c, c, {})
BY DEF Found

LEMMA FoundTogether ==
  ASSUME NEW t, NEW c, NEW d, NEW e, NEW S, NEW T, Found(t, c, d, S), Found(t, d, e, T)
  PROVE  Found(t, c, e, S \cup T)
<1>1. Distinct(e) /\ ToSet(e.list) = ToSet(c.list) \cup (S \cup T)
  BY DEF Found
<1>2. e.relevant <=> c.relevant \/ \E f \in S \cup T : t.relevant[f.subnet]
  BY DEF Found
<1> QED
  BY <1>1, <1>2 DEF Found

LEMMA AppendedSet ==
  ASSUME NEW X, NEW list \in Seq(X), NEW x \in X
  PROVE  /\ Append(list, x) \in Seq(X)
         /\ Len(Append(list, x)) = Len(list) + 1
         /\ ToSet(Append(list, x)) = ToSet(list) \cup {x}
<1> DEFINE more == Append(list, x)
<1>1. /\ Len(list) \in Nat /\ DOMAIN list = 1..Len(list)
      /\ more \in Seq(X) /\ Len(more) = Len(list) + 1
      /\ DOMAIN more = 1..(Len(list) + 1)
      /\ more[Len(list) + 1] = x
      /\ \A i \in 1..Len(list) : more[i] = list[i]
  BY AppendProperties, LenProperties
<1> HIDE DEF more
<1>2. \A i \in DOMAIN more : i \in DOMAIN list \/ i = Len(list) + 1
  BY <1>1
<1>3. ToSet(more) = ToSet(list) \cup {x}
  <2>1. ToSet(more) \subseteq ToSet(list) \cup {x}
    BY <1>1, <1>2 DEF ToSet
  <2>2. ToSet(list) \cup {x} \subseteq ToSet(more)
    BY <1>1 DEF ToSet
  <2> QED
    BY <2>1, <2>2
<1> QED
  BY <1>1, <1>3 DEF more

(* The record of a conflict with announcement a of node q.                 *)
ConflictWith(q, a) == [subnet |-> q, origin |-> a.origin, peerID |-> a.peerID]

LEMMA ConflictWithType ==
  ASSUME NEW q \in Nets, NEW a \in Announcement
  PROVE  /\ ConflictWith(q, a) \in Conflict
         /\ ConflictWith(q, a).subnet = q /\ ConflictWith(q, a).origin = a.origin
BY DEF ConflictWith, Conflict, Announcement

(* What the comparison with announcement a adds.                           *)
NewConflict(m, q, a, c) ==
  IF /\ a.origin # m.origin
     /\ \A d \in ToSet(c.list) : d.origin # a.origin \/ d.subnet # q
  THEN {ConflictWith(q, a)} ELSE {}

LEMMA CompareFinds ==
  ASSUME NEW t, NEW m, NEW q \in Nets, NEW a \in Announcement, NEW c, Distinct(c)
  PROVE  Found(t, c, Compare(t, m, q, a, c), NewConflict(m, q, a, c))
<1> DEFINE new == /\ a.origin # m.origin
                  /\ \A d \in ToSet(c.list) : d.origin # a.origin \/ d.subnet # q
           x == ConflictWith(q, a)
           list == Append(c.list, x)
           flag == c.relevant \/ t.relevant[q]
<1>1. x \in Conflict /\ x.subnet = q /\ x.origin = a.origin
  BY ConflictWithType
<1>2. Compare(t, m, q, a, c) = IF new THEN [list |-> list, relevant |-> flag] ELSE c
  BY DEF Compare, ConflictWith
<1> HIDE DEF x
<1>3. CASE new
  <2>1. c.list \in Seq(Conflict) /\ c.relevant \in BOOLEAN
    BY DEF Distinct, Conflicts
  <2>2. /\ list \in Seq(Conflict) /\ Len(list) = Len(c.list) + 1
        /\ ToSet(list) = ToSet(c.list) \cup {x}
    BY <1>1, <2>1, AppendedSet
  <2>3. x \notin ToSet(c.list)
    BY <1>1, <1>3
  <2> HIDE DEF list
  <2>4. IsFiniteSet(ToSet(list)) /\ Cardinality(ToSet(list)) = Len(list)
    BY <2>2, <2>3, FS_AddElement DEF Distinct
  <2>5. flag \in BOOLEAN
    OBVIOUS
  <2> DEFINE d == [list |-> list, relevant |-> flag]
  <2>6. d.list = list /\ (d.relevant <=> flag)
    <3> HIDE DEF flag
    <3> QED
      OBVIOUS
  <2>7. d \in Conflicts
    <3> HIDE DEF flag
    <3> QED
      BY <2>2, <2>5 DEF Conflicts
  <2> HIDE DEF d
  <2>8. Distinct(d)
    BY <2>4, <2>6, <2>7 DEF Distinct
  <2>9. d.relevant <=> c.relevant \/ \E f \in {x} : t.relevant[f.subnet]
    BY <1>1, <2>6
  <2>10. Found(t, c, d, {x})
    BY <2>2, <2>6, <2>8, <2>9 DEF Found
  <2>11. Compare(t, m, q, a, c) = d
    BY <1>2, <1>3 DEF d
  <2>12. NewConflict(m, q, a, c) = {x}
    BY <1>3 DEF NewConflict, x
  <2> QED
    BY <2>10, <2>11, <2>12
<1>4. CASE ~new
  <2>1. Compare(t, m, q, a, c) = c
    BY <1>2, <1>4
  <2>2. NewConflict(m, q, a, c) = {}
    BY <1>4 DEF NewConflict
  <2> QED
    BY <2>1, <2>2, NothingFound
<1> QED
  BY <1>3, <1>4

LEMMA CompareType ==
  ASSUME NEW t, NEW m, NEW q \in Nets, NEW a \in Announcement, NEW c \in Conflicts
  PROVE  Compare(t, m, q, a, c) \in Conflicts
<1> DEFINE x == ConflictWith(q, a)
           flag == c.relevant \/ t.relevant[q]
<1>1. x \in Conflict
  BY ConflictWithType
<1> HIDE DEF x
<1>2. Append(c.list, x) \in Seq(Conflict) /\ flag \in BOOLEAN
  BY <1>1 DEF Conflicts
<1> HIDE DEF flag
<1>3. [list |-> Append(c.list, x), relevant |-> flag] \in Conflicts
  BY <1>2 DEF Conflicts
<1> QED
  BY <1>3 DEF Compare, x, ConflictWith, flag

(* g is the states of the loop over the announcements of a node.           *)
LevelStates(g, t, m, q, c) ==
  /\ g[0] = c
  /\ \A k \in 0..(Len(t.active[q]) - 1) :
       g[k + 1] = Compare(t, m, q, t.active[q][Len(t.active[q]) - k], g[k])
  /\ ThisLevel(t, m, q, c) = g[Len(t.active[q])]

LEMMA ThisLevelStates ==
  ASSUME NEW t, IsTrie(t), NEW m, NEW q \in Nets, NEW c \in Conflicts
  PROVE  \E g : LevelStates(g, t, m, q, c)
<1> DEFINE list == t.active[q]
           N == Len(list)
           Next1(k, d) == Compare(t, m, q, list[N - k + 1], d)
           Rule(f) == f = [k \in 0..N |-> IF k = 0 THEN c ELSE Next1(k, f[k - 1])]
           found == CHOOSE f : Rule(f)
           stepAt(k, d) == IF k < N THEN Next1(k + 1, d) ELSE d
           step == [k \in Nat |-> [d \in Conflicts |-> stepAt(k, d)]]
<1>1. list \in Seq(Announcement) /\ N \in Nat
  BY DEF IsTrie, Tables
<1> HIDE DEF list, N
<1>2. \A i \in 1..N : list[i] \in Announcement
  BY <1>1 DEF N
<1>3. \A k \in 1..N, d \in Conflicts : Next1(k, d) \in Conflicts
  <2> SUFFICES ASSUME NEW k \in 1..N, NEW d \in Conflicts
               PROVE  Next1(k, d) \in Conflicts
    OBVIOUS
  <2>1. N - k + 1 \in 1..N
    BY <1>1
  <2> QED
    BY <1>2, <2>1, CompareType
<1>4. ThisLevel(t, m, q, c) = found[N]
  BY DEF ThisLevel, list, N
<1> HIDE DEF Next1
<1>5. step \in [Nat -> [Conflicts -> Conflicts]]
  <2>1. \A k \in Nat, d \in Conflicts : stepAt(k, d) \in Conflicts
    <3> SUFFICES ASSUME NEW k \in Nat, NEW d \in Conflicts
                 PROVE  stepAt(k, d) \in Conflicts
      OBVIOUS
    <3>1. k < N => k + 1 \in 1..N
      BY <1>1
    <3> QED
      BY <1>3, <3>1
  <2> HIDE DEF stepAt
  <2> QED
    BY <2>1
<1>6. PICK h \in [0..N -> Conflicts] : Recursive(h, 0..N, c, step)
  <2> HIDE DEF step
  <2> QED
    BY <1>1, <1>5, RecursionUpTo
<1>7. Rule(h)
  <2>1. \A k \in 0..N : h[k] = IF k = 0 THEN c ELSE Next1(k, h[k - 1])
    <3> SUFFICES ASSUME NEW k \in 0..N
                 PROVE  h[k] = IF k = 0 THEN c ELSE Next1(k, h[k - 1])
      OBVIOUS
    <3>1. h[k] = IF k = 0 THEN c ELSE step[k - 1][h[k - 1]]
      <4> HIDE DEF step
      <4> QED
        BY <1>6 DEF Recursive
    <3>2. CASE k # 0
      <4>1. k - 1 \in Nat /\ k - 1 \in 0..N /\ k - 1 < N /\ (k - 1) + 1 = k
        BY <1>1, <3>2
      <4>2. h[k - 1] \in Conflicts
        BY <4>1
      <4>3. step[k - 1][h[k - 1]] = stepAt(k - 1, h[k - 1])
        <5> HIDE DEF stepAt
        <5> QED
          BY <4>1, <4>2
      <4>4. stepAt(k - 1, h[k - 1]) = Next1(k, h[k - 1])
        BY <4>1
      <4> QED
        BY <3>1, <3>2, <4>3, <4>4
    <3> QED
      BY <3>1, <3>2
  <2>2. h = [k \in 0..N |-> h[k]]
    OBVIOUS
  <2> QED
    BY <2>1, <2>2
<1>8. Rule(found)
  <2> HIDE DEF Rule
  <2> QED
    BY <1>7
<1>9. found[0] = c /\ \A k \in 0..(N - 1) : found[k + 1] = Next1(k + 1, found[k])
  <2> HIDE DEF found
  <2>1. \A k \in 0..N : found[k] = IF k = 0 THEN c ELSE Next1(k, found[k - 1])
    BY <1>8
  <2>2. ASSUME NEW k \in 0..(N - 1)
        PROVE  found[k + 1] = Next1(k + 1, found[k])
    <3>1. k + 1 \in 0..N /\ k + 1 # 0 /\ (k + 1) - 1 = k
      BY <1>1
    <3> QED
      BY <2>1, <3>1
  <2>3. 0 \in 0..N
    BY <1>1
  <2> QED
    BY <2>1, <2>2, <2>3
<1> HIDE DEF found
<1>10. \A k \in 0..(N - 1) : found[k + 1] = Compare(t, m, q, list[N - k], found[k])
  <2> SUFFICES ASSUME NEW k \in 0..(N - 1)
               PROVE  found[k + 1] = Compare(t, m, q, list[N - k], found[k])
    OBVIOUS
  <2>1. N - (k + 1) + 1 = N - k
    BY <1>1
  <2> QED
    BY <1>9, <2>1 DEF Next1
<1>11. LevelStates(found, t, m, q, c)
  BY <1>4, <1>9, <1>10 DEF list, N, LevelStates
<1> QED
  BY <1>11

LEMMA ThisLevelType ==
  ASSUME NEW t, IsTrie(t), NEW m, NEW q \in Nets, NEW c \in Conflicts
  PROVE  ThisLevel(t, m, q, c) \in Conflicts
<1> DEFINE list == t.active[q]
           N == Len(list)
<1>1. list \in Seq(Announcement) /\ N \in Nat /\ \A i \in 1..N : list[i] \in Announcement
  BY DEF IsTrie, Tables
<1>a. PICK g : LevelStates(g, t, m, q, c)
  BY ThisLevelStates
<1>2. /\ g[0] = c
      /\ \A k \in 0..(N - 1) : g[k + 1] = Compare(t, m, q, list[N - k], g[k])
      /\ ThisLevel(t, m, q, c) = g[N]
  BY <1>a DEF LevelStates
<1> HIDE DEF list, N
<1> DEFINE S == {k \in 0..N : g[k] \in Conflicts}
<1>3. 0 \in S
  BY <1>1, <1>2
<1>4. ASSUME NEW k \in 0..(N - 1), k \in S
      PROVE  k + 1 \in S
  <2>1. N - k \in 1..N /\ k + 1 \in 0..N
    BY <1>1
  <2> QED
    BY <1>1, <1>2, <1>4, <2>1, CompareType
<1>5. 0..N \subseteq S
  <2> HIDE DEF S
  <2> QED
    BY <1>1, <1>3, <1>4, InductiveInterval
<1> QED
  BY <1>1, <1>2, <1>5

(* The newest announcements, among those after index i, of other origins.  *)
NewestAfter(list, o, i) ==
  {j \in DOMAIN list : /\ j > i
                       /\ list[j].origin # o
                       /\ \A k \in DOMAIN list : k > j => list[k].origin # list[j].origin}

LevelAfter(active, q, o, i) == {ConflictWith(q, active[q][j]) : j \in NewestAfter(active[q], o, i)}

LEMMA LevelAfterZero ==
  ASSUME NEW active \in Tables, NEW q \in Nets, NEW o
  PROVE  LevelAfter(active, q, o, 0) = ConflictsThisLevel(active, q, o)
<1>1. \A j \in DOMAIN active[q] : j > 0
  BY DEF Tables
<1> QED
  BY <1>1 DEF LevelAfter, NewestAfter, ConflictsThisLevel, ConflictWith

(* At a node where nothing has been found yet the search finds the newest  *)
(* announcement of every other origin.                                     *)
LEMMA ThisLevelFinds ==
  ASSUME NEW t, IsTrie(t), NEW m, NEW q \in Nets, NEW c, Distinct(c),
         \A d \in ToSet(c.list) : d.subnet # q
  PROVE  Found(t, c, ThisLevel(t, m, q, c), ConflictsThisLevel(t.active, q, m.origin))
<1> DEFINE list == t.active[q]
           N == Len(list)
           o == m.origin
           Level(i) == LevelAfter(t.active, q, o, i)
<1>1. /\ list \in Seq(Announcement) /\ N \in Nat /\ DOMAIN list = 1..N
      /\ \A i \in 1..N : list[i] \in Announcement
      /\ t.active \in Tables
  BY DEF IsTrie, Tables
<1>a. PICK g : LevelStates(g, t, m, q, c)
  BY ThisLevelStates DEF Distinct
<1>2. /\ g[0] = c
      /\ \A k \in 0..(N - 1) : g[k + 1] = Compare(t, m, q, list[N - k], g[k])
      /\ ThisLevel(t, m, q, c) = g[N]
  BY <1>a DEF LevelStates
<1>b. Level(0) = ConflictsThisLevel(t.active, q, o)
  BY <1>1, LevelAfterZero
<1>c. \A i : Level(i) = {ConflictWith(q, list[j]) : j \in NewestAfter(list, o, i)}
  BY DEF LevelAfter
<1> HIDE DEF list, N, Level
<1> DEFINE S == {k \in 0..N : Found(t, c, g[k], Level(N - k))}
<1>3. 0 \in S
  <2>1. \A j \in 1..N : ~(j > N)
    BY <1>1
  <2>2. Level(N) = {} /\ N - 0 = N
    BY <1>1, <1>c, <2>1 DEF NewestAfter
  <2>3. Found(t, c, c, Level(N - 0))
    BY <2>2, NothingFound
  <2> QED
    BY <1>1, <1>2, <2>3
<1>4. ASSUME NEW k \in 0..(N - 1), k \in S
      PROVE  k + 1 \in S
  <2> DEFINE i == N - k
             a == list[i]
             older == Level(i)
             new == /\ a.origin # o
                    /\ \A d \in ToSet(g[k].list) : d.origin # a.origin \/ d.subnet # q
  <2>1. i \in 1..N /\ k + 1 \in 0..N /\ N - (k + 1) = i - 1 /\ a \in Announcement
    BY <1>1
  <2>2. Found(t, c, g[k], older)
    BY <1>4
  <2>3. g[k + 1] = Compare(t, m, q, a, g[k])
    BY <1>2
  <2>4. Distinct(g[k]) /\ ToSet(g[k].list) = ToSet(c.list) \cup older
    BY <2>2 DEF Found
  <2> HIDE DEF i
  <2>5. Found(t, g[k], g[k + 1], IF new THEN {ConflictWith(q, a)} ELSE {})
    <3>1. NewConflict(m, q, a, g[k]) = IF new THEN {ConflictWith(q, a)} ELSE {}
      BY DEF NewConflict, o
    <3> HIDE DEF a, new
    <3>2. Found(t, g[k], g[k + 1], NewConflict(m, q, a, g[k]))
      BY <2>1, <2>3, <2>4, CompareFinds
    <3> QED
      BY <3>1, <3>2
  <2>6. \A j \in NewestAfter(list, o, i) :
          /\ ConflictWith(q, list[j]).subnet = q
          /\ ConflictWith(q, list[j]).origin = list[j].origin
    BY <1>1, ConflictWithType DEF NewestAfter
  <2>7. new <=> i \in NewestAfter(list, o, i - 1)
    <3>1. ASSUME a.origin # o, \A j \in 1..N : j > i => list[j].origin # a.origin
          PROVE  new
      <4>1. \A d \in older : d.origin # a.origin
        BY <1>1, <1>c, <2>6, <3>1 DEF NewestAfter
      <4> QED
        BY <2>4, <3>1, <4>1
    <3>2. ASSUME a.origin # o, NEW j \in 1..N, j > i, list[j].origin = a.origin
          PROVE  ~new
      <4>1. PICK l \in DOMAIN list :
              /\ list[l].origin = list[j].origin
              /\ \A r \in DOMAIN list : r > l => list[r].origin # list[l].origin
        <5>1. j \in DOMAIN list /\ list \in Seq(Announcement)
          BY <1>1
        <5> QED
          BY <5>1, NewestExists
      <4>2. l > i
        <5>1. j \in DOMAIN list /\ j \in Nat /\ l \in Nat /\ i \in Nat
          BY <1>1, <2>1
        <5>2. ~(j > l)
          BY <4>1, <5>1
        <5> QED
          BY <3>2, <5>1, <5>2
      <4>3. l \in NewestAfter(list, o, i)
        BY <1>1, <3>2, <4>1, <4>2 DEF NewestAfter
      <4>4. ConflictWith(q, list[l]) \in older
        BY <1>c, <4>3
      <4> QED
        BY <2>4, <2>6, <3>2, <4>1, <4>3, <4>4
    <3>3. i \in NewestAfter(list, o, i - 1)
            <=> a.origin # o /\ \A j \in 1..N : j > i => list[j].origin # a.origin
      <4>1. i > i - 1
        BY <2>1
      <4> QED
        BY <1>1, <2>1, <4>1 DEF NewestAfter
    <3> HIDE DEF a
    <3> QED
      BY <3>1, <3>2, <3>3
  <2>8. Level(i - 1) = older \cup (IF new THEN {ConflictWith(q, a)} ELSE {})
    <3>1. \A j \in 1..N : j > i - 1 <=> j > i \/ j = i
      BY <2>1
    <3>2. \A j \in 1..N : /\ j \in NewestAfter(list, o, i) => j \in NewestAfter(list, o, i - 1)
                          /\ j \in NewestAfter(list, o, i - 1) =>
                               j \in NewestAfter(list, o, i) \/ j = i
      BY <1>1, <3>1 DEF NewestAfter
    <3>3. NewestAfter(list, o, i - 1)
            = NewestAfter(list, o, i) \cup (IF new THEN {i} ELSE {})
      <4>1. NewestAfter(list, o, i) \subseteq 1..N /\ NewestAfter(list, o, i - 1) \subseteq 1..N
        BY <1>1 DEF NewestAfter
      <4>2. i \notin NewestAfter(list, o, i)
        BY <2>1 DEF NewestAfter
      <4> HIDE DEF new
      <4> QED
        BY <2>1, <2>7, <3>2, <4>1, <4>2
    <3> HIDE DEF new
    <3> QED
      BY <1>c, <3>3
  <2>9. Found(t, c, g[k + 1], Level(i - 1))
    <3> HIDE DEF new, a, older
    <3> QED
      BY <2>2, <2>5, <2>8, FoundTogether
  <2> QED
    BY <2>1, <2>9
<1>5. 0..N \subseteq S
  <2> HIDE DEF S
  <2> QED
    BY <1>1, <1>3, <1>4, InductiveInterval
<1>6. N \in S /\ N - N = 0
  BY <1>1, <1>5
<1> QED
  BY <1>2, <1>b, <1>6

(* The conflicts at the nodes Q.                                           *)
LevelsOf(t, o, Q) == UNION {ConflictsThisLevel(t.active, q, o) : q \in Q}

LEMMA LevelSubnets ==
  ASSUME NEW t, NEW o, NEW Q
  PROVE  \A d \in LevelsOf(t, o, Q) : d.subnet \in Q
BY DEF LevelsOf, ConflictsThisLevel

LEMMA OneLevel ==
  ASSUME NEW t, NEW o, NEW q
  PROVE  LevelsOf(t, o, {q}) = ConflictsThisLevel(t.active, q, o)
BY DEF LevelsOf

LEMMA LevelsTogether ==
  ASSUME NEW t, NEW o, NEW Q, NEW R
  PROVE  LevelsOf(t, o, Q \cup R) = LevelsOf(t, o, Q) \cup LevelsOf(t, o, R)
BY DEF LevelsOf

(* g is the states of the climb from n to the first bit.                   *)
ClimbStates(g, t, m, n, c) ==
  /\ g[0] = c
  /\ \A k \in 0..(Len(n) - 1) : g[k + 1] = ThisLevel(t, m, FirstBits(n, Len(n) - k), g[k])
  /\ ~CutShort(t, m, n) => AboveAndSameLevel(t, m, n, c) = g[Len(n)]

LEMMA Climb ==
  ASSUME NEW t, IsTrie(t), NEW m, NEW n \in Nets, NEW c \in Conflicts
  PROVE  \E g : ClimbStates(g, t, m, n, c)
<1> DEFINE N == Len(n)
           Next1(k, d) == ThisLevel(t, m, SubSeq(n, 1, N - k + 1), d)
           Rule(f) == f = [k \in 0..N |-> IF k = 0 THEN c ELSE Next1(k, f[k - 1])]
           found == CHOOSE f : Rule(f)
           stepAt(k, d) == IF k < N THEN Next1(k + 1, d) ELSE d
           step == [k \in Nat |-> [d \in Conflicts |-> stepAt(k, d)]]
<1>1. N \in Nat
  BY NetsAreSequences, ConstantsAssumption
<1>2. \A k \in 1..N, d \in Conflicts : Next1(k, d) \in Conflicts
  <2> SUFFICES ASSUME NEW k \in 1..N, NEW d \in Conflicts
               PROVE  Next1(k, d) \in Conflicts
    OBVIOUS
  <2>1. N - k + 1 \in 1..Len(n)
    BY <1>1
  <2>2. FirstBits(n, N - k + 1) \in Nets
    BY <2>1, FirstBitsAre
  <2> QED
    BY <2>2, ThisLevelType DEF FirstBits
<1>3. ~CutShort(t, m, n) => AboveAndSameLevel(t, m, n, c) = found[N]
  BY DEF AboveAndSameLevel
<1> HIDE DEF Next1, N
<1>4. step \in [Nat -> [Conflicts -> Conflicts]]
  <2>1. \A k \in Nat, d \in Conflicts : stepAt(k, d) \in Conflicts
    <3> SUFFICES ASSUME NEW k \in Nat, NEW d \in Conflicts
                 PROVE  stepAt(k, d) \in Conflicts
      OBVIOUS
    <3>1. k < N => k + 1 \in 1..N
      BY <1>1
    <3> QED
      BY <1>2, <3>1
  <2> HIDE DEF stepAt
  <2> QED
    BY <2>1
<1>5. PICK h \in [0..N -> Conflicts] : Recursive(h, 0..N, c, step)
  <2> HIDE DEF step
  <2> QED
    BY <1>1, <1>4, RecursionUpTo
<1>6. Rule(h)
  <2>1. \A k \in 0..N : h[k] = IF k = 0 THEN c ELSE Next1(k, h[k - 1])
    <3> SUFFICES ASSUME NEW k \in 0..N
                 PROVE  h[k] = IF k = 0 THEN c ELSE Next1(k, h[k - 1])
      OBVIOUS
    <3>1. h[k] = IF k = 0 THEN c ELSE step[k - 1][h[k - 1]]
      <4> HIDE DEF step
      <4> QED
        BY <1>5 DEF Recursive
    <3>2. CASE k # 0
      <4>1. k - 1 \in Nat /\ k - 1 \in 0..N /\ k - 1 < N /\ (k - 1) + 1 = k
        BY <1>1, <3>2
      <4>2. h[k - 1] \in Conflicts
        BY <4>1
      <4>3. step[k - 1][h[k - 1]] = stepAt(k - 1, h[k - 1])
        <5> HIDE DEF stepAt
        <5> QED
          BY <4>1, <4>2
      <4>4. stepAt(k - 1, h[k - 1]) = Next1(k, h[k - 1])
        BY <4>1
      <4> QED
        BY <3>1, <3>2, <4>3, <4>4
    <3> QED
      BY <3>1, <3>2
  <2>2. h = [k \in 0..N |-> h[k]]
    OBVIOUS
  <2> QED
    BY <2>1, <2>2
<1>7. Rule(found)
  <2> HIDE DEF Rule
  <2> QED
    BY <1>6
<1>8. found[0] = c /\ \A k \in 0..(N - 1) : found[k + 1] = Next1(k + 1, found[k])
  <2> HIDE DEF found
  <2>1. \A k \in 0..N : found[k] = IF k = 0 THEN c ELSE Next1(k, found[k - 1])
    BY <1>7
  <2>2. ASSUME NEW k \in 0..(N - 1)
        PROVE  found[k + 1] = Next1(k + 1, found[k])
    <3>1. k + 1 \in 0..N /\ k + 1 # 0 /\ (k + 1) - 1 = k
      BY <1>1
    <3> QED
      BY <2>1, <3>1
  <2>3. 0 \in 0..N
    BY <1>1
  <2> QED
    BY <2>1, <2>2, <2>3
<1> HIDE DEF found
<1>9. \A k \in 0..(N - 1) : found[k + 1] = ThisLevel(t, m, FirstBits(n, N - k), found[k])
  <2> SUFFICES ASSUME NEW k \in 0..(N - 1)
               PROVE  found[k + 1] = ThisLevel(t, m, FirstBits(n, N - k), found[k])
    OBVIOUS
  <2>1. N - (k + 1) + 1 = N - k
    BY <1>1
  <2> QED
    BY <1>8, <2>1 DEF Next1, FirstBits
<1>10. ClimbStates(found, t, m, n, c)
  BY <1>3, <1>8, <1>9 DEF N, ClimbStates
<1> QED
  BY <1>10

(* The climb finds the conflicts at the nodes on the way to n.             *)
LEMMA ClimbFinds ==
  ASSUME NEW t, IsTrie(t), NEW m, NEW n \in t.nodes, ~CutShort(t, m, n),
         NEW c, Distinct(c), ToSet(c.list) = {}
  PROVE  Found(t, c, AboveAndSameLevel(t, m, n, c),
               LevelsOf(t, m.origin, {q \in t.nodes : IsPrefix(q, n)}))
<1> DEFINE N == Len(n)
           o == m.origin
           Way(k) == {q \in Nets : IsPrefix(q, n) /\ Len(q) > N - k}
<1>1. n \in Nets /\ N \in Nat
  BY NetsAreSequences, ConstantsAssumption DEF IsTrie
<1>a. PICK g : ClimbStates(g, t, m, n, c)
  BY <1>1, Climb DEF Distinct
<1>2. /\ g[0] = c
      /\ \A k \in 0..(N - 1) : g[k + 1] = ThisLevel(t, m, FirstBits(n, N - k), g[k])
      /\ AboveAndSameLevel(t, m, n, c) = g[N]
  BY <1>a DEF ClimbStates
<1>b. \A q \in Nets : Len(q) \in Nat /\ (IsPrefix(q, n) => Len(q) <= N) /\ Len(q) > 0
  BY <1>1, NetsAreSequences, PrefixBits, ConstantsAssumption
<1> DEFINE S == {k \in 0..N : Found(t, c, g[k], LevelsOf(t, o, Way(k)))}
<1>3. 0 \in S
  <2>1. \A q \in Nets : IsPrefix(q, n) => ~(Len(q) > N - 0)
    BY <1>1, <1>b
  <2>2. Way(0) = {}
    BY <2>1
  <2>3. LevelsOf(t, o, Way(0)) = {}
    BY <2>2 DEF LevelsOf
  <2>4. Found(t, c, g[0], LevelsOf(t, o, Way(0)))
    BY <1>2, <2>3, NothingFound
  <2> HIDE DEF Way, N
  <2> QED
    BY <1>1, <2>4
<1>4. ASSUME NEW k \in 0..(N - 1), k \in S
      PROVE  k + 1 \in S
  <2> DEFINE f == FirstBits(n, N - k)
  <2>1. N - k \in 1..N /\ k + 1 \in 0..N /\ N - (k + 1) = (N - k) - 1
    BY <1>1
  <2>2. f \in Nets /\ Len(f) = N - k /\ IsPrefix(f, n)
    BY <1>1, <2>1, FirstBitsAre
  <2>3. g[k + 1] = ThisLevel(t, m, f, g[k])
    BY <1>2
  <2> HIDE DEF f
  <2>4. Way(k + 1) = Way(k) \cup {f} /\ f \notin Way(k)
    <3>1. \A q \in Nets : Len(q) > N - (k + 1) <=> Len(q) > N - k \/ Len(q) = N - k
      <4> SUFFICES ASSUME NEW q \in Nets
                   PROVE  Len(q) > N - (k + 1) <=> Len(q) > N - k \/ Len(q) = N - k
        OBVIOUS
      <4>1. Len(q) \in Nat /\ k \in Nat
        BY <1>b
      <4> HIDE DEF N
      <4> QED
        BY <1>1, <4>1
    <3>2. \A q \in Nets : IsPrefix(q, n) /\ Len(q) = N - k => q = f
      <4> SUFFICES ASSUME NEW q \in Nets, IsPrefix(q, n), Len(q) = N - k
                   PROVE  q = f
        OBVIOUS
      <4>1. Len(q) <= Len(f) /\ Len(f) <= Len(q)
        BY <1>b, <2>2
      <4>2. IsPrefix(q, f)
        BY <1>1, <2>2, <4>1, PrefixesAreNested
      <4> QED
        BY <2>2, <4>1, <4>2, SameNet
    <3>3. ~(Len(f) > N - k)
      BY <2>1, <2>2
    <3> QED
      BY <2>2, <3>1, <3>2, <3>3
  <2> HIDE DEF Way
  <2>5. Found(t, c, g[k], LevelsOf(t, o, Way(k)))
    BY <1>4
  <2>6. Distinct(g[k]) /\ ToSet(g[k].list) = LevelsOf(t, o, Way(k))
    BY <2>5 DEF Found
  <2>7. \A d \in ToSet(g[k].list) : d.subnet # f
    BY <2>4, <2>6, LevelSubnets
  <2>8. Found(t, g[k], g[k + 1], LevelsOf(t, o, {f}))
    <3>1. Found(t, g[k], ThisLevel(t, m, f, g[k]), ConflictsThisLevel(t.active, f, o))
      BY <2>2, <2>6, <2>7, ThisLevelFinds
    <3> QED
      BY <2>3, <3>1, OneLevel
  <2>9. Found(t, c, g[k + 1], LevelsOf(t, o, Way(k + 1)))
    BY <2>4, <2>5, <2>8, FoundTogether, LevelsTogether
  <2> QED
    BY <2>1, <2>9
<1>5. 0..N \subseteq S
  <2> HIDE DEF S, N
  <2> QED
    BY <1>1, <1>3, <1>4, InductiveInterval
<1>6. Found(t, c, g[N], LevelsOf(t, o, Way(N)))
  <2>1. N \in S
    <3> HIDE DEF S, N
    <3> QED
      BY <1>1, <1>5
  <2> QED
    BY <2>1
<1>7. Way(N) = {q \in t.nodes : IsPrefix(q, n)}
  <2>1. \A q \in Nets : Len(q) > N - N
    BY <1>1, <1>b
  <2>2. Path(n) \subseteq t.nodes /\ t.nodes \subseteq Nets
    BY DEF IsTrie
  <2> QED
    BY <2>1, <2>2 DEF Path
<1> QED
  BY <1>2, <1>6, <1>7

(* The visit of node q, when "below" visits the nodes below it.            *)
Here(t, m, n, q, d) == IF q = n THEN d ELSE ThisLevel(t, m, q, d)

Visit(t, m, n, below, q, d) ==
  IF q \notin t.nodes THEN d
  ELSE below[Append(q, 1)][below[Append(q, 0)][Here(t, m, n, q, d)]]

(* g[h] visits h levels of the trie.                                       *)
VisitStates(g, t, m, n, c) ==
  /\ \A q \in Seq({0, 1}), d \in Conflicts : g[0][q][d] = d
  /\ \A h \in 0..(W - 1), q \in Seq({0, 1}), d \in Conflicts :
       g[h + 1][q][d] = Visit(t, m, n, g[h], q, d)
  /\ Subtrie(t, m, n, c) = g[W][n][c]

LEMMA SubtrieStates ==
  ASSUME NEW t, IsTrie(t), NEW m, NEW n \in Nets, NEW c \in Conflicts
  PROVE  \E g : VisitStates(g, t, m, n, c)
<1> DEFINE A == Seq({0, 1})
           V == [A -> [Conflicts -> Conflicts]]
           Value(f, h, q, d) ==
             IF h = 0 \/ q \notin t.nodes THEN d
             ELSE LET here == IF q = n THEN d ELSE ThisLevel(t, m, q, d)
                      zero == f[h - 1][Append(q, 0)][here]
                  IN  f[h - 1][Append(q, 1)][zero]
           Rule(f) == f = [h \in 0..W |-> [q \in A |-> [d \in Conflicts |-> Value(f, h, q, d)]]]
           found == CHOOSE f : Rule(f)
           first == [q \in A |-> [d \in Conflicts |-> d]]
           after(b) == [q \in A |-> [d \in Conflicts |-> Visit(t, m, n, b, q, d)]]
           step == [h \in Nat |-> [b \in V |-> after(b)]]
<1>1. W \in Nat
  BY ConstantsAssumption
<1>2. Subtrie(t, m, n, c) = found[W][n][c]
  BY DEF Subtrie
<1>3. \A f, h, q, d : Value(f, h, q, d) = IF h = 0 THEN d ELSE Visit(t, m, n, f[h - 1], q, d)
  BY DEF Visit, Here
<1> HIDE DEF Value
<1>4. \A b \in V, q \in A, d \in Conflicts : Visit(t, m, n, b, q, d) \in Conflicts
  <2> SUFFICES ASSUME NEW b \in V, NEW q \in A, NEW d \in Conflicts, q \in t.nodes
               PROVE  Visit(t, m, n, b, q, d) \in Conflicts
    BY DEF Visit
  <2>1. Append(q, 0) \in A /\ Append(q, 1) \in A
    OBVIOUS
  <2>2. q \in Nets
    BY DEF IsTrie
  <2>3. Here(t, m, n, q, d) \in Conflicts
    BY <2>2, ThisLevelType DEF Here
  <2> DEFINE e == b[Append(q, 0)][Here(t, m, n, q, d)]
  <2> HIDE DEF A
  <2>4. e \in Conflicts
    BY <2>1, <2>3
  <2>5. b[Append(q, 1)][e] \in Conflicts
    <3> HIDE DEF e
    <3> QED
      BY <2>1, <2>4
  <2> QED
    BY <2>5 DEF Visit
<1>5. first \in V /\ step \in [Nat -> [V -> V]]
  <2>1. first \in V
    <3> HIDE DEF A
    <3> QED
      OBVIOUS
  <2>2. \A b \in V : after(b) \in V
    <3> HIDE DEF A
    <3> QED
      BY <1>4
  <2> HIDE DEF V, after
  <2>3. step \in [Nat -> [V -> V]]
    BY <2>2
  <2> QED
    BY <2>1, <2>3
<1>6. PICK F \in [0..W -> V] : Recursive(F, 0..W, first, step)
  <2> HIDE DEF V, first, step
  <2> QED
    BY <1>1, <1>5, RecursionUpTo
<1>7. Rule(F)
  <2>1. ASSUME NEW h \in 0..W
        PROVE  F[h] = [q \in A |-> [d \in Conflicts |-> Value(F, h, q, d)]]
    <3>1. F[h] = IF h = 0 THEN first ELSE step[h - 1][F[h - 1]]
      <4> HIDE DEF first, step, V
      <4> QED
        BY <1>6 DEF Recursive
    <3>2. CASE h = 0
      <4>1. \A q \in A, d \in Conflicts : Value(F, h, q, d) = d
        BY <1>3, <3>2
      <4> HIDE DEF A, V
      <4> QED
        BY <3>1, <3>2, <4>1
    <3>3. CASE h # 0
      <4>1. h - 1 \in Nat /\ h - 1 \in 0..W
        BY <1>1, <3>3
      <4>2. F[h - 1] \in V
        <5> HIDE DEF V
        <5> QED
          BY <4>1
      <4>3. F[h] = after(F[h - 1])
        <5>1. step[h - 1][F[h - 1]] = after(F[h - 1])
          <6> HIDE DEF V, after
          <6> QED
            BY <4>1, <4>2
        <5> HIDE DEF step, after
        <5> QED
          BY <3>1, <3>3, <5>1
      <4>4. \A q \in A, d \in Conflicts : Value(F, h, q, d) = Visit(t, m, n, F[h - 1], q, d)
        BY <1>3, <3>3
      <4> HIDE DEF A, V
      <4> QED
        BY <4>3, <4>4
    <3> QED
      BY <3>2, <3>3
  <2> DEFINE G(h) == [q \in A |-> [d \in Conflicts |-> Value(F, h, q, d)]]
  <2>2. \A h \in 0..W : F[h] = G(h)
    BY <2>1
  <2>3. F = [h \in 0..W |-> G(h)]
    <3> HIDE DEF G, V
    <3> QED
      BY <2>2
  <2> QED
    BY <2>3
<1>8. Rule(found)
  <2> HIDE DEF Rule
  <2> QED
    BY <1>7
<1>9. ASSUME NEW h \in 0..W, NEW q \in A, NEW d \in Conflicts
      PROVE  found[h][q][d] = Value(found, h, q, d)
  <2> HIDE DEF found, A
  <2> DEFINE G(k) == [r \in A |-> [e \in Conflicts |-> Value(found, k, r, e)]]
  <2>1. found[h] = G(h)
    <3>1. found = [k \in 0..W |-> G(k)]
      BY <1>8
    <3> HIDE DEF G
    <3> QED
      BY <3>1
  <2> QED
    BY <2>1
<1> HIDE DEF found
<1>10. ASSUME NEW h \in 0..(W - 1), NEW q \in A, NEW d \in Conflicts
       PROVE  found[h + 1][q][d] = Visit(t, m, n, found[h], q, d)
  <2>1. h + 1 \in 0..W /\ h + 1 # 0 /\ (h + 1) - 1 = h
    BY <1>1
  <2>2. found[h + 1][q][d] = Value(found, h + 1, q, d)
    <3> HIDE DEF A
    <3> QED
      BY <1>9, <2>1
  <2> QED
    BY <1>3, <2>1, <2>2
<1>11. ASSUME NEW q \in A, NEW d \in Conflicts
       PROVE  found[0][q][d] = d
  <2>1. 0 \in 0..W
    BY <1>1
  <2>2. found[0][q][d] = Value(found, 0, q, d)
    <3> HIDE DEF A
    <3> QED
      BY <1>9, <2>1
  <2> QED
    BY <1>3, <2>2
<1>12. VisitStates(found, t, m, n, c)
  BY <1>2, <1>10, <1>11 DEF VisitStates
<1> QED
  BY <1>12

LEMMA SequenceIsNet ==
  ASSUME NEW q \in Seq({0, 1}), Len(q) \in 1..W
  PROVE  q \in Nets
<1>1. Len(q) \in Nat /\ q \in [1..Len(q) -> {0, 1}]
  OBVIOUS
<1> QED
  BY <1>1, ConstantsAssumption DEF Nets

LEMMA PrefixOfNet ==
  ASSUME NEW a \in Seq({0, 1}), NEW f \in Nets
  PROVE  IsPrefix(a, f) <=> Len(a) <= Len(f) /\ \A i \in 1..Len(a) : a[i] = f[i]
<1>1. f \in Seq({0, 1}) /\ Len(a) \in Nat /\ Len(f) \in Nat
  BY NetsAreSequences, ConstantsAssumption
<1>2. SubSeq(a, 1, Len(a)) = [i \in 1..Len(a) |-> a[i]]
  BY <1>1
<1>3. Len(a) <= Len(f) => SubSeq(f, 1, Len(a)) = [i \in 1..Len(a) |-> f[i]]
  BY <1>1
<1> QED
  BY <1>2, <1>3 DEF IsPrefix

LEMMA Child01 ==
  ASSUME NEW q \in Nets, NEW b \in {0, 1}, NEW f \in Nets
  PROVE  /\ Append(q, b) \in Seq({0, 1}) /\ Len(Append(q, b)) = Len(q) + 1
         /\ IsPrefix(Append(q, b), f)
              <=> IsPrefix(q, f) /\ Len(q) + 1 <= Len(f) /\ f[Len(q) + 1] = b
<1> DEFINE a == Append(q, b)
           N == Len(q)
<1>1. q \in Seq({0, 1}) /\ N \in Nat /\ Len(f) \in Nat
  BY NetsAreSequences, ConstantsAssumption
<1>2. /\ a \in Seq({0, 1}) /\ Len(a) = N + 1 /\ a[N + 1] = b
      /\ \A i \in 1..N : a[i] = q[i]
  BY <1>1, AppendProperties
<1> HIDE DEF a
<1>3. IsPrefix(a, f) <=> N + 1 <= Len(f) /\ \A i \in 1..(N + 1) : a[i] = f[i]
  BY <1>2, PrefixOfNet
<1>4. IsPrefix(q, f) <=> N <= Len(f) /\ \A i \in 1..N : q[i] = f[i]
  BY PrefixBits
<1> HIDE DEF N
<1>5. \A i \in 1..(N + 1) : i \in 1..N \/ i = N + 1
  BY <1>1
<1>6. \A i \in 1..N : i \in 1..(N + 1)
  BY <1>1
<1>7. N + 1 \in 1..(N + 1) /\ (N + 1 <= Len(f) => N <= Len(f))
  BY <1>1
<1> QED
  BY <1>2, <1>3, <1>4, <1>5, <1>6, <1>7 DEF a, N

(* The nets below q are q itself and those below its children.             *)
LEMMA BelowIsBelowChildren ==
  ASSUME NEW q \in Nets, NEW f \in Nets
  PROVE  /\ IsPrefix(q, f) <=> \/ f = q
                               \/ IsPrefix(Append(q, 0), f)
                               \/ IsPrefix(Append(q, 1), f)
         /\ ~(IsPrefix(Append(q, 0), f) /\ IsPrefix(Append(q, 1), f))
         /\ f = q => ~IsPrefix(Append(q, 0), f) /\ ~IsPrefix(Append(q, 1), f)
<1>1. /\ f \in Seq({0, 1}) /\ Len(q) \in Nat /\ Len(f) \in Nat
      /\ \A i \in 1..Len(f) : f[i] \in {0, 1}
  BY NetsAreSequences, ConstantsAssumption
<1>2. \A b \in {0, 1} : IsPrefix(Append(q, b), f)
        <=> IsPrefix(q, f) /\ Len(q) + 1 <= Len(f) /\ f[Len(q) + 1] = b
  BY Child01
<1>3. IsPrefix(q, f) => Len(q) <= Len(f)
  BY PrefixBits
<1>4. IsPrefix(q, f) /\ ~(Len(q) + 1 <= Len(f)) => f = q
  <2> SUFFICES ASSUME IsPrefix(q, f), ~(Len(q) + 1 <= Len(f))
               PROVE  q = f
    OBVIOUS
  <2>1. Len(f) <= Len(q)
    BY <1>1
  <2> QED
    BY <2>1, SameNet
<1>5. Len(q) + 1 <= Len(f) => f[Len(q) + 1] \in {0, 1}
  <2>1. Len(q) + 1 <= Len(f) => Len(q) + 1 \in 1..Len(f)
    BY <1>1
  <2> QED
    BY <1>1, <2>1
<1>6. f = q => ~(Len(q) + 1 <= Len(f))
  BY <1>1
<1>7. IsPrefix(q, q)
  BY PrefixReflexive
<1> QED
  BY <1>2, <1>4, <1>5, <1>6, <1>7

(* The nodes below q whose level the search has not to skip.               *)
Under(t, n, q) == {f \in t.nodes : IsPrefix(q, f) /\ f # n}

(* Nothing has been found at the nodes Q.                                  *)
NothingAt(d, Q) == \A x \in ToSet(d.list) : x.subnet \notin Q

LEMMA VisitFinds ==
  ASSUME NEW t, IsTrie(t), NEW m, NEW n, NEW q \in Nets, q \in t.nodes,
         NEW d, Distinct(d), NothingAt(d, Under(t, n, q)), NEW below,
         \A b \in {0, 1} : \A e : Distinct(e) /\ NothingAt(e, Under(t, n, Append(q, b))) =>
           Found(t, e, below[Append(q, b)][e], LevelsOf(t, m.origin, Under(t, n, Append(q, b))))
  PROVE  Found(t, d, Visit(t, m, n, below, q, d), LevelsOf(t, m.origin, Under(t, n, q)))
<1> DEFINE o == m.origin
           q0 == Append(q, 0)
           q1 == Append(q, 1)
           U == Under(t, n, q)
           U0 == Under(t, n, q0)
           U1 == Under(t, n, q1)
           Uq == {q} \ {n}
           here == Here(t, m, n, q, d)
           zero == below[q0][here]
           one == below[q1][zero]
<1>1. Visit(t, m, n, below, q, d) = one
  BY DEF Visit
<1>2. t.nodes \subseteq Nets
  BY DEF IsTrie
<1>3. /\ U = Uq \cup U0 \cup U1
      /\ Uq \cap U0 = {} /\ Uq \cap U1 = {} /\ U0 \cap U1 = {}
  BY <1>2, BelowIsBelowChildren DEF Under
<1>4. /\ \A e : Distinct(e) /\ NothingAt(e, U0) => Found(t, e, below[q0][e], LevelsOf(t, o, U0))
      /\ \A e : Distinct(e) /\ NothingAt(e, U1) => Found(t, e, below[q1][e], LevelsOf(t, o, U1))
  OBVIOUS
<1>5. NothingAt(d, U)
  OBVIOUS
<1> HIDE DEF q0, q1, U, U0, U1
<1>6. Found(t, d, here, LevelsOf(t, o, Uq))
  <2>1. CASE q = n
    <3>1. here = d /\ LevelsOf(t, o, Uq) = {}
      BY <2>1 DEF Here, LevelsOf
    <3> QED
      BY <3>1, NothingFound
  <2>2. CASE q # n
    <3>1. here = ThisLevel(t, m, q, d) /\ Uq = {q}
      BY <2>2 DEF Here
    <3>2. \A x \in ToSet(d.list) : x.subnet # q
      BY <1>3, <1>5, <3>1 DEF NothingAt
    <3>3. Found(t, d, ThisLevel(t, m, q, d), ConflictsThisLevel(t.active, q, o))
      BY <3>2, ThisLevelFinds
    <3> QED
      BY <3>1, <3>3, OneLevel
  <2> QED
    BY <2>1, <2>2
<1> HIDE DEF here, Uq
<1>7. Found(t, here, zero, LevelsOf(t, o, U0))
  <2>1. Distinct(here) /\ ToSet(here.list) = ToSet(d.list) \cup LevelsOf(t, o, Uq)
    BY <1>6 DEF Found
  <2>2. NothingAt(here, U0)
    BY <1>3, <1>5, <2>1, LevelSubnets DEF NothingAt
  <2> QED
    BY <1>4, <2>1, <2>2
<1> HIDE DEF zero
<1>8. Found(t, zero, one, LevelsOf(t, o, U1))
  <2>1. Distinct(zero) /\ ToSet(zero.list)
          = ToSet(d.list) \cup LevelsOf(t, o, Uq) \cup LevelsOf(t, o, U0)
    BY <1>6, <1>7 DEF Found
  <2>2. NothingAt(zero, U1)
    BY <1>3, <1>5, <2>1, LevelSubnets DEF NothingAt
  <2> QED
    BY <1>4, <2>1, <2>2
<1> HIDE DEF one
<1>9. Found(t, d, one, (LevelsOf(t, o, Uq) \cup LevelsOf(t, o, U0)) \cup LevelsOf(t, o, U1))
  BY <1>6, <1>7, <1>8, FoundTogether
<1>10. LevelsOf(t, o, U) = (LevelsOf(t, o, Uq) \cup LevelsOf(t, o, U0)) \cup LevelsOf(t, o, U1)
  <2>1. LevelsOf(t, o, Uq \cup U0) = LevelsOf(t, o, Uq) \cup LevelsOf(t, o, U0)
    BY LevelsTogether
  <2>2. LevelsOf(t, o, (Uq \cup U0) \cup U1) = LevelsOf(t, o, Uq \cup U0) \cup LevelsOf(t, o, U1)
    BY LevelsTogether
  <2> QED
    BY <1>3, <2>1, <2>2
<1> QED
  BY <1>1, <1>9, <1>10 DEF U

(* The visit of the subtrie finds the conflicts at the nodes below n.      *)
LEMMA SubtrieFinds ==
  ASSUME NEW t, IsTrie(t), NEW m, NEW n \in t.nodes, NEW c, Distinct(c),
         NothingAt(c, Under(t, n, n))
  PROVE  Found(t, c, Subtrie(t, m, n, c), LevelsOf(t, m.origin, Under(t, n, n)))
<1> DEFINE o == m.origin
           Finds(b, q) == \A d : Distinct(d) /\ NothingAt(d, Under(t, n, q)) =>
                            Found(t, d, b[q][d], LevelsOf(t, o, Under(t, n, q)))
<1>1. n \in Nets /\ t.nodes \subseteq Nets /\ \A q \in t.nodes : Path(q) \subseteq t.nodes
  BY DEF IsTrie
<1>2. W \in Nat /\ \A q \in Seq({0, 1}) : Len(q) \in Nat
  BY ConstantsAssumption
<1>3. PICK g : VisitStates(g, t, m, n, c)
  BY <1>1, SubtrieStates DEF Distinct
<1>4. /\ \A q \in Seq({0, 1}), d \in Conflicts : g[0][q][d] = d
      /\ \A h \in 0..(W - 1), q \in Seq({0, 1}), d \in Conflicts :
           g[h + 1][q][d] = Visit(t, m, n, g[h], q, d)
      /\ Subtrie(t, m, n, c) = g[W][n][c]
  BY <1>3 DEF VisitStates
<1>5. \A d : Distinct(d) => d \in Conflicts
  BY DEF Distinct
<1>6. ASSUME NEW q \in Seq({0, 1}), Len(q) >= 1, q \notin t.nodes
      PROVE  Under(t, n, q) = {}
  <2> SUFFICES ASSUME NEW f \in t.nodes, IsPrefix(q, f)
               PROVE  FALSE
    BY DEF Under
  <2>1. Len(q) <= Len(f) /\ Len(f) \in 1..W
    BY <1>1, PrefixOfNet, NetsAreSequences
  <2>2. q \in Nets
    BY <1>2, <1>6, <2>1, SequenceIsNet
  <2>3. q \in Path(f)
    BY <2>2 DEF Path
  <2> QED
    BY <1>1, <1>6, <2>3
<1>7. ASSUME NEW q \in Seq({0, 1}), Len(q) >= 1, q \notin t.nodes, NEW b,
             \A d \in Conflicts : b[q][d] = d
      PROVE  Finds(b, q)
  <2> SUFFICES ASSUME NEW d, Distinct(d)
               PROVE  Found(t, d, b[q][d], LevelsOf(t, o, Under(t, n, q)))
    OBVIOUS
  <2>1. LevelsOf(t, o, Under(t, n, q)) = {}
    BY <1>6, <1>7 DEF LevelsOf
  <2>2. b[q][d] = d
    BY <1>5, <1>7
  <2> QED
    BY <2>1, <2>2, NothingFound
<1> DEFINE S == {h \in 0..W : \A q \in Seq({0, 1}) :
                   Len(q) >= 1 /\ Len(q) + h >= W + 1 => Finds(g[h], q)}
<1>8. 0 \in S
  <2> SUFFICES ASSUME NEW q \in Seq({0, 1}), Len(q) >= 1, Len(q) + 0 >= W + 1
               PROVE  Finds(g[0], q)
    <3> HIDE DEF Finds
    <3> QED
      BY <1>2
  <2>1. q \notin t.nodes
    BY <1>1, <1>2, NetsAreSequences
  <2>2. \A d \in Conflicts : g[0][q][d] = d
    BY <1>4
  <2> HIDE DEF Finds
  <2> QED
    BY <1>7, <2>1, <2>2
<1>9. ASSUME NEW h \in 0..(W - 1), h \in S
      PROVE  h + 1 \in S
  <2>1. h + 1 \in 0..W
    BY <1>2
  <2> SUFFICES ASSUME NEW q \in Seq({0, 1}), Len(q) >= 1, Len(q) + (h + 1) >= W + 1
               PROVE  Finds(g[h + 1], q)
    <3> HIDE DEF Finds
    <3> QED
      BY <2>1
  <2>2. \A d \in Conflicts : g[h + 1][q][d] = Visit(t, m, n, g[h], q, d)
    BY <1>4
  <2>3. CASE q \notin t.nodes
    <3>1. \A d \in Conflicts : g[h + 1][q][d] = d
      BY <2>2, <2>3 DEF Visit
    <3> HIDE DEF Finds
    <3> QED
      BY <1>7, <2>3, <3>1
  <2>4. CASE q \in t.nodes
    <3>1. q \in Nets
      BY <1>1, <2>4
    <3>2. ASSUME NEW b \in {0, 1}
          PROVE  Finds(g[h], Append(q, b))
      <4>1. Append(q, b) \in Seq({0, 1}) /\ Len(Append(q, b)) = Len(q) + 1
        BY <3>1, Child01
      <4>2. Len(Append(q, b)) >= 1 /\ Len(Append(q, b)) + h >= W + 1
        BY <1>2, <4>1
      <4> HIDE DEF Finds
      <4> QED
        BY <1>9, <4>1, <4>2
    <3>3. ASSUME NEW d, Distinct(d), NothingAt(d, Under(t, n, q))
          PROVE  Found(t, d, g[h + 1][q][d], LevelsOf(t, o, Under(t, n, q)))
      <4>1. Found(t, d, Visit(t, m, n, g[h], q, d), LevelsOf(t, o, Under(t, n, q)))
        BY <2>4, <3>1, <3>2, <3>3, VisitFinds
      <4>2. g[h + 1][q][d] = Visit(t, m, n, g[h], q, d)
        BY <1>5, <2>2, <3>3
      <4> QED
        BY <4>1, <4>2
    <3> QED
      BY <3>3
  <2> QED
    BY <2>3, <2>4
<1>10. 0..W \subseteq S
  <2> HIDE DEF S
  <2> QED
    BY <1>2, <1>8, <1>9, InductiveInterval
<1>11. Finds(g[W], n)
  <2>1. n \in Seq({0, 1}) /\ Len(n) >= 1 /\ Len(n) + W >= W + 1 /\ W \in 0..W
    BY <1>1, <1>2, NetsAreSequences
  <2>2. W \in S
    <3> HIDE DEF S
    <3> QED
      BY <1>10, <2>1
  <2> HIDE DEF Finds
  <2> QED
    BY <2>1, <2>2
<1> QED
  BY <1>4, <1>11

(* c lists the conflicts S, none of them twice, and has their flag.        *)
Lists(c, t, n, S) == /\ ToSet(c.list) = S
                     /\ Len(c.list) = Cardinality(S)
                     /\ c.relevant = (\/ t.relevant[n]
                                      \/ \E f \in S : t.relevant[f.subnet])

(* Climbing and then visiting the subtrie finds what FindConflicts says.   *)
LEMMA WalkFinds ==
  ASSUME NEW t, IsTrie(t), NEW m, NEW n \in t.nodes
  PROVE  Lists(Walk(t, m, n), t, n,
               FindConflicts(t.active, t.nodes, n, m.peerID, m.origin))
<1> DEFINE c == Walk(t, m, n)
           S == FindConflicts(t.active, t.nodes, n, m.peerID, m.origin)
           o == m.origin
           start == [list |-> <<>>, relevant |-> t.relevant[n]]
           up == AboveAndSameLevel(t, m, n, start)
           above == {q \in t.nodes : IsPrefix(q, n)}
           below == Under(t, n, n)
<1>1. c = Below(t, m, n, up)
  BY DEF Walk
<1>2. t.nodes \subseteq Nets /\ n \in Nets
  BY DEF IsTrie
<1>3. Distinct(start) /\ ToSet(start.list) = {} /\ (start.relevant <=> t.relevant[n])
  <2>1. t.relevant[n] \in BOOLEAN
    BY <1>2 DEF IsTrie
  <2>2. <<>> \in Seq(Conflict) /\ ToSet(<<>>) = {} /\ Len(<<>>) = 0
    BY DEF ToSet
  <2>3. start.list = <<>> /\ start.relevant = t.relevant[n]
    OBVIOUS
  <2>4. start \in Conflicts
    BY <2>1, <2>2 DEF Conflicts
  <2> HIDE DEF start
  <2> QED
    BY <2>2, <2>3, <2>4, FS_EmptySet DEF Distinct
<1>4. CutShort(t, m, n) = Suppressed(t.active, n, m.peerID)
  BY DEF CutShort, Suppressed
<1>5. Found(t, start, c, S)
  <2> HIDE DEF start
  <2>1. CASE CutShort(t, m, n)
    <3>1. up = start /\ c = up
      BY <1>1, <2>1 DEF AboveAndSameLevel, Below
    <3>2. S = {}
      BY <1>4, <2>1 DEF FindConflicts
    <3> QED
      BY <1>3, <3>1, <3>2, NothingFound
  <2>2. CASE ~CutShort(t, m, n)
    <3>1. c = Subtrie(t, m, n, up)
      BY <1>1, <2>2 DEF Below
    <3>2. Found(t, start, up, LevelsOf(t, o, above))
      BY <1>3, <2>2, ClimbFinds
    <3> HIDE DEF up
    <3>3. Distinct(up) /\ ToSet(up.list) = LevelsOf(t, o, above)
      BY <1>3, <3>2 DEF Found
    <3>4. above \cap below = {}
      <4>1. \A q \in Nets : IsPrefix(q, n) /\ IsPrefix(n, q) => q = n
        BY <1>2, PrefixBits, SameNet
      <4> QED
        BY <1>2, <4>1 DEF Under
    <3>5. above \cup below = {q \in t.nodes : Overlap(q, n)}
      BY <1>2, PrefixReflexive DEF Under, Overlap
    <3> HIDE DEF above, below
    <3>6. NothingAt(up, below)
      BY <3>3, <3>4, LevelSubnets DEF NothingAt
    <3>7. Found(t, up, c, LevelsOf(t, o, below))
      BY <3>1, <3>3, <3>6, SubtrieFinds DEF below
    <3>8. Found(t, start, c, LevelsOf(t, o, above) \cup LevelsOf(t, o, below))
      BY <3>2, <3>7, FoundTogether
    <3>9. S = LevelsOf(t, o, above \cup below)
      BY <1>4, <2>2, <3>5 DEF FindConflicts, LevelsOf
    <3>10. S = LevelsOf(t, o, above) \cup LevelsOf(t, o, below)
      BY <3>9, LevelsTogether
    <3> QED
      BY <3>8, <3>10
  <2> QED
    BY <2>1, <2>2
<1> HIDE DEF start
<1>6. /\ Distinct(c) /\ ToSet(c.list) = S
      /\ c.relevant <=> t.relevant[n] \/ \E f \in S : t.relevant[f.subnet]
  BY <1>3, <1>5 DEF Found
<1> HIDE DEF c, S
<1>7. c.relevant \in BOOLEAN /\ Len(c.list) = Cardinality(S) /\ ToSet(c.list) = S
  BY <1>6 DEF Distinct, Conflicts
<1>8. c.relevant = (\/ t.relevant[n] \/ \E f \in S : t.relevant[f.subnet])
  BY <1>6, <1>7
<1>9. Lists(c, t, n, S)
  BY <1>7, <1>8 DEF Lists
<1> QED
  BY <1>9 DEF c, S

(* What the search of an announcement finds, from the node of its subnet   *)
(* up to the first bit and then down through the subtrie, is what Announce *)
(* records: every conflict, none of them twice, and the flag.              *)
THEOREM WalkAgreesAlways == Spec => []WalkAgrees
<1>1. IInv /\ NothingOutOfReach => WalkAgrees
  <2> SUFFICES ASSUME IInv, NothingOutOfReach, NEW n \in Subnets \ {<<>>},
                      NEW m \in [peerID : Peers, origin : Origins]
               PROVE  LET d == AfterDescent(n)
                          t == [nodes |-> d.nodes, relevant |-> d.relevant,
                                active |-> [activeAnnouncments EXCEPT
                                   ![n] = AfterAnnouncement(@, m.peerID, m.origin)]]
                      IN  Lists(Walk(t, m, n), t, n,
                                FindConflicts(t.active, t.nodes, n, m.peerID, m.origin))
    BY DEF WalkAgrees, Lists
  <2> DEFINE d == AfterDescent(n)
             active == [activeAnnouncments EXCEPT
                          ![n] = AfterAnnouncement(@, m.peerID, m.origin)]
             t == [nodes |-> d.nodes, relevant |-> d.relevant, active |-> active]
  <2>1. n \in Nets
    BY ConstantsAssumption
  <2>2. /\ nodes \subseteq Nets /\ RootsExist /\ relevant \in [Nets -> BOOLEAN]
        /\ activeAnnouncments \in Tables
    BY DEF IInv, TypeOK, Tables
  <2>3. d.nodes = nodes \cup Path(n) /\ d.relevant = RelevantAfterDescent(n)
    <3>1. FirstBits(n, Len(n)) = n
      BY <2>1, FirstBitsAre, NetsAreSequences, ConstantsAssumption
    <3> QED
      BY <2>1, <3>1, AfterDescentIs DEF Descended
  <2>4. active \in Tables
    <3>1. activeAnnouncments[n] \in Seq(Announcement) /\ OnePerPeer(activeAnnouncments[n])
      BY <2>1, <2>2, OnePerPeerEverywhere DEF IInv, Tables
    <3>2. AfterAnnouncement(activeAnnouncments[n], m.peerID, m.origin) \in Seq(Announcement)
      <4>1. \A p \in Peers, o \in Origins :
              AfterAnnouncement(activeAnnouncments[n], p, o) \in Seq(Announcement)
        BY <3>1, EntriesAfterAnnouncement
      <4>2. m.peerID \in Peers /\ m.origin \in Origins
        OBVIOUS
      <4> QED
        BY <4>1, <4>2
    <3> QED
      BY <2>1, <2>2, <3>2 DEF Tables
  <2> HIDE DEF d, active
  <2>5. t.nodes = nodes \cup Path(n) /\ t.relevant = RelevantAfterDescent(n) /\ t.active = active
    BY <2>3
  <2>6. IsTrie(t)
    <3>1. \A q \in nodes : Path(q) \subseteq nodes
      BY DEF NothingOutOfReach, Path
    <3>2. \A q \in Path(n) : Path(q) \subseteq Path(n)
      BY <2>1, PathOfPath
    <3>3. t.nodes \subseteq Nets /\ t.relevant \in [Nets -> BOOLEAN]
      BY <2>2, <2>5, DescentType
    <3> QED
      BY <2>4, <2>5, <3>1, <3>2, <3>3 DEF IsTrie
  <2>7. n \in t.nodes
    BY <2>1, <2>5, PathIncludesNet
  <2> HIDE DEF t
  <2>8. Lists(Walk(t, m, n), t, n, FindConflicts(t.active, t.nodes, n, m.peerID, m.origin))
    BY <2>6, <2>7, WalkFinds
  <2> QED
    BY <2>8 DEF t, active, d
<1> QED
  BY <1>1, InitIInv, NextIInv, InitNothingOutOfReach, NextNothingOutOfReach, PTL DEF Spec
=============================================================================
