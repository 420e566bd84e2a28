----------------------------- MODULE FilesProofs -----------------------------
(***************************************************************************)
(* Proof that the files that follow the RIB are read, all of them and in   *)
(* order, for every directory.  The reference Following concatenates the   *)
(* contents of the files by the rank of their times; the program takes one *)
(* name after the other from a listing.  They meet in SoFar, which says    *)
(* what must have been read when the names in a set are left.              *)
(***************************************************************************)
EXTENDS DetectorProofs, Recursion, FunctionTheorems

-----------------------------------------------------------------------------
(* FlattenSeq, and finite sets of numbers.                                 *)

(* f[k] is the concatenation of the first k of N sequences.                *)
Joins(f, seqs, N) ==
  /\ f[0] = <<>>
  /\ \A k \in 0..(N - 1) : f[k + 1] = f[k] \o seqs[k + 1]

LEMMA JoinExists ==
  ASSUME NEW X, NEW N \in Nat, NEW seqs \in [1..N -> Seq(X)]
  PROVE  \E f \in [0..N -> Seq(X)] : Joins(f, seqs, N)
<1> DEFINE V == Seq(X)
           next(n, s) == IF n < N THEN s \o seqs[n + 1] ELSE s
           step == [n \in Nat |-> [s \in V |-> next(n, s)]]
<1>1. step \in [Nat -> [V -> V]]
  <2>1. ASSUME NEW n \in Nat, NEW s \in V
        PROVE  next(n, s) \in V
    <3>1. CASE n < N
      <4>1. seqs[n + 1] \in V
        BY <3>1
      <4> QED
        BY <3>1, <4>1, ConcatProperties
    <3> QED
      BY <3>1
  <2> HIDE DEF next, V
  <2> QED
    BY <2>1
<1>2. <<>> \in V
  BY EmptySeq
<1>3. PICK f \in [0..N -> V] : Recursive(f, 0..N, <<>>, step)
  <2> HIDE DEF V, step
  <2> QED
    BY <1>1, <1>2, RecursionUpTo
<1>4. f[0] = <<>>
  <2> HIDE DEF V, step
  <2> QED
    BY <1>3 DEF Recursive
<1>5. ASSUME NEW k \in 0..(N - 1)
      PROVE  f[k + 1] = f[k] \o seqs[k + 1]
  <2>1. k + 1 \in 0..N /\ k + 1 # 0 /\ (k + 1) - 1 = k /\ k \in Nat /\ k < N /\ k \in 0..N
    OBVIOUS
  <2>2. f[k + 1] = step[k][f[k]]
    <3> HIDE DEF V, step
    <3> QED
      BY <1>3, <2>1 DEF Recursive
  <2>3. f[k] \in V
    BY <2>1
  <2>4. step[k][f[k]] = next(k, f[k])
    <3> HIDE DEF V, next
    <3> QED
      BY <2>1, <2>3
  <2> QED
    BY <2>1, <2>2, <2>4
<1> QED
  BY <1>4, <1>5 DEF Joins

(* There is only one such function, and FlattenSeq is its last value.      *)
LEMMA FlattenSeqIs ==
  ASSUME NEW X, NEW N \in Nat, NEW seqs \in [1..N -> Seq(X)], NEW f, Joins(f, seqs, N),
         \A k \in 0..N : f[k] \in Seq(X)
  PROVE  FlattenSeq(seqs) = f[N]
<1>1. Len(seqs) = N
  OBVIOUS
<1>2. CASE N = 0
  <2>1. FlattenSeq(seqs) = seqs
    BY <1>1, <1>2 DEF FlattenSeq
  <2>2. seqs = <<>>
    BY <1>2
  <2> QED
    BY <1>2, <2>1, <2>2 DEF Joins
<1>3. CASE N # 0
  <2> DEFINE Flattens(g) == g = [i \in 1..N |-> IF i = 1 THEN seqs[i] ELSE g[i - 1] \o seqs[i]]
             g == CHOOSE g : Flattens(g)
             h == [i \in 1..N |-> f[i]]
             hh == [i \in 1..N |-> IF i = 1 THEN seqs[i] ELSE h[i - 1] \o seqs[i]]
  <2>1. FlattenSeq(seqs) = g[N]
    BY <1>1, <1>3 DEF FlattenSeq
  <2>2. ASSUME NEW i \in 1..N
        PROVE  h[i] = IF i = 1 THEN seqs[i] ELSE h[i - 1] \o seqs[i]
    <3>1. f[(i - 1) + 1] = f[i - 1] \o seqs[(i - 1) + 1] /\ (i - 1) + 1 = i
      <4>1. i - 1 \in 0..(N - 1) /\ (i - 1) + 1 = i
        OBVIOUS
      <4> QED
        BY <4>1 DEF Joins
    <3> h[i] = f[i]
      OBVIOUS
    <3>2. CASE i = 1
      <4>1. f[0] = <<>> /\ seqs[i] \in Seq(X)
        BY DEF Joins
      <4>2. <<>> \o seqs[i] = seqs[i]
        BY <4>1, ConcatEmptySeq
      <4>3. i - 1 = 0
        BY <3>2
      <4>4. f[i] = <<>> \o seqs[i]
        BY <3>1, <4>1, <4>3
      <4> HIDE DEF h
      <4> QED
        BY <3>2, <4>2, <4>4
    <3>3. CASE i # 1
      <4>1. i - 1 \in 1..N
        BY <3>3
      <4>2. h[i - 1] = f[i - 1]
        BY <4>1
      <4> HIDE DEF h
      <4> QED
        BY <3>1, <3>3, <4>2
    <3> HIDE DEF h
    <3> QED
      BY <3>2, <3>3
  <2>3. Flattens(h)
    <3>1. \A i \in 1..N : h[i] = hh[i]
      BY <2>2
    <3>2. h = [i \in 1..N |-> h[i]] /\ hh = [i \in 1..N |-> hh[i]]
      OBVIOUS
    <3>3. h = hh
      <4> HIDE DEF h, hh
      <4> QED
        BY <3>1, <3>2
    <3> QED
      BY <3>3
  <2>4. Flattens(g)
    <3> HIDE DEF Flattens, h
    <3> QED
      BY <2>3
  <2> HIDE DEF g
  <2>5. \A i \in 1..N : g[i] = IF i = 1 THEN seqs[i] ELSE g[i - 1] \o seqs[i]
    BY <2>4
  <2> DEFINE Same == {n \in Nat : n + 1 <= N => g[n + 1] = f[n + 1]}
  <2>6. 0 \in Same
    <3>1. g[1] = seqs[1] /\ h[1] = seqs[1] /\ h[1] = f[1]
      BY <1>3, <2>2, <2>5
    <3> QED
      BY <3>1
  <2>7. ASSUME NEW n \in Nat, n \in Same
        PROVE  n + 1 \in Same
    <3> SUFFICES ASSUME (n + 1) + 1 <= N
                 PROVE  g[(n + 1) + 1] = f[(n + 1) + 1]
      OBVIOUS
    <3>1. /\ (n + 1) + 1 \in 1..N /\ n + 1 \in 1..N /\ (n + 1) + 1 # 1
          /\ ((n + 1) + 1) - 1 = n + 1 /\ n + 1 \in 0..(N - 1)
      OBVIOUS
    <3>2. g[(n + 1) + 1] = g[n + 1] \o seqs[(n + 1) + 1]
      BY <2>5, <3>1
    <3>3. f[(n + 1) + 1] = f[n + 1] \o seqs[(n + 1) + 1]
      BY <3>1 DEF Joins
    <3>4. g[n + 1] = f[n + 1]
      BY <2>7, <3>1
    <3> QED
      BY <3>2, <3>3, <3>4
  <2>8. Nat \subseteq Same
    <3> HIDE DEF Same
    <3> QED
      BY <2>6, <2>7, InductiveSet
  <2>9. N - 1 \in Nat /\ (N - 1) + 1 = N
    BY <1>3
  <2> QED
    BY <2>1, <2>8, <2>9
<1> QED
  BY <1>2, <1>3

(* How many elements of T there are up to x.                               *)
Rank(T, x) == Cardinality({y \in T : y <= x})

(* The rank of t in a finite set of numbers is one more than the number of *)
(* smaller elements, and that of no other element.                         *)
LEMMA RankIs ==
  ASSUME NEW T \in SUBSET Nat, IsFiniteSet(T), NEW t \in T
  PROVE  /\ Cardinality({y \in T : y < t}) \in Nat
         /\ Rank(T, t) = Cardinality({y \in T : y < t}) + 1
         /\ Rank(T, t) \in 1..Cardinality(T)
         /\ \A x \in T : Rank(T, x) = Rank(T, t) => x = t
<1> DEFINE upto(x) == {y \in T : y <= x}
           below == {y \in T : y < t}
<1>1. \A x \in T : upto(x) \in SUBSET T /\ IsFiniteSet(upto(x)) /\ Cardinality(upto(x)) \in Nat
  <2> SUFFICES ASSUME NEW x \in T
               PROVE  upto(x) \in SUBSET T /\ IsFiniteSet(upto(x)) /\ Cardinality(upto(x)) \in Nat
    OBVIOUS
  <2>1. upto(x) \in SUBSET T
    OBVIOUS
  <2> HIDE DEF upto
  <2> QED
    BY <2>1, FS_Subset, FS_CardinalityType
<1>2. IsFiniteSet(below) /\ Cardinality(below) \in Nat
  <2>1. below \in SUBSET T
    OBVIOUS
  <2> HIDE DEF below
  <2> QED
    BY <2>1, FS_Subset, FS_CardinalityType
<1> \A y \in T : y \in Nat
  OBVIOUS
<1>3. upto(t) = below \cup {t} /\ t \notin below
  <2>1. \A y \in T : y <= t <=> y < t \/ y = t
    OBVIOUS
  <2>2. ~(t < t)
    OBVIOUS
  <2> QED
    BY <2>1, <2>2
<1>4. Cardinality(upto(t)) = Cardinality(below) + 1
  <2> HIDE DEF upto, below
  <2> QED
    BY <1>2, <1>3, FS_AddElement
<1>5. Cardinality(upto(t)) <= Cardinality(T) /\ Cardinality(T) \in Nat
  <2> HIDE DEF upto
  <2> QED
    BY <1>1, FS_Subset, FS_CardinalityType
<1>6. ASSUME NEW x \in T, NEW z \in T, x < z
      PROVE  Cardinality(upto(x)) # Cardinality(upto(z))
  <2>1. upto(x) \in SUBSET upto(z) /\ z \in upto(z) /\ z \notin upto(x)
    <3>1. \A y \in T : y <= x => y <= z
      BY <1>6
    <3>2. z <= z /\ ~(z <= x)
      BY <1>6
    <3> QED
      BY <3>1, <3>2
  <2>2. IsFiniteSet(upto(z))
    BY <1>1
  <2> HIDE DEF upto
  <2> QED
    BY <2>1, <2>2, FS_Subset
<1>7. \A x \in T : Cardinality(upto(x)) = Cardinality(upto(t)) => x = t
  <2> SUFFICES ASSUME NEW x \in T, x # t
               PROVE  Cardinality(upto(x)) # Cardinality(upto(t))
    OBVIOUS
  <2>1. x < t \/ t < x
    OBVIOUS
  <2> HIDE DEF upto
  <2> QED
    BY <1>6, <2>1
<1> HIDE DEF below
<1> QED
  BY <1>1, <1>2, <1>4, <1>5, <1>7 DEF Rank, below

(* A finite set of numbers has a greatest element.                         *)
LEMMA GreatestNumber ==
  ASSUME NEW T \in SUBSET Nat, IsFiniteSet(T), T # {}
  PROVE  \E m \in T : \A n \in T : n <= m
<1> DEFINE Q == {U \in SUBSET T : U = {} \/ \E m \in U : \A n \in U : n <= m}
<1>1. {} \in Q
  OBVIOUS
<1>2. ASSUME NEW U \in SUBSET T, U # {}, U \ {CHOOSE x \in U : TRUE} \in Q
      PROVE  U \in Q
  <2> DEFINE x == CHOOSE x \in U : TRUE
  <2>1. x \in U
    BY <1>2
  <2>2. U \ {x} \in Q
    BY <1>2
  <2> HIDE DEF x
  <2>3. CASE U \ {x} = {}
    <3>1. \A n \in U : n = x /\ n <= x
      BY <2>1, <2>3
    <3> QED
      BY <2>1, <3>1
  <2>4. CASE U \ {x} # {}
    <3>1. PICK m \in U \ {x} : \A n \in U \ {x} : n <= m
      BY <2>2, <2>4
    <3>2. CASE x <= m
      BY <2>1, <3>1, <3>2
    <3>3. CASE ~(x <= m)
      <4>1. \A n \in U : n <= x
        BY <2>1, <3>1, <3>3
      <4> QED
        BY <2>1, <4>1
    <3> QED
      BY <3>2, <3>3
  <2> QED
    BY <2>3, <2>4
<1>3. SUBSET T \subseteq Q
  <2> HIDE DEF Q
  <2> QED
    BY <1>1, <1>2, InductiveSubsets
<1> QED
  BY <1>3
-----------------------------------------------------------------------------
(* The files of directory d that follow RIB r, in the order of their times.*)

Records == Record(IPs, PeerASes)

UpdatesFiles(d) == {n \in DOMAIN d : n.kind = "updates"}
FirstTime(r) == IF r = NoFile THEN 0 ELSE r.time
Named(d) == {n \in DOMAIN d : n.kind = "updates" /\ n.parts = 3}
Followers(d, r) == {n \in Named(d) : n.time >= FirstTime(r)}
TimesOf(files) == {n.time : n \in files}
Times(d, r) == TimesOf(Followers(d, r))
KthTime(d, r, k) == CHOOSE x \in Times(d, r) : Rank(Times(d, r), x) = k
Content(d, t) == d[CHOOSE n \in Named(d) : n.time = t]
Contents(d, r) == [k \in 1..Cardinality(Times(d, r)) |-> Content(d, KthTime(d, r, k))]
FromRib(d, r) == IF r = NoFile THEN <<>> ELSE d[r]

LEMMA FollowingIs ==
  Following = FromRib(directory, rib) \o FlattenSeq(Contents(directory, rib))
BY DEF Following, Contents, Content, KthTime, Rank, Times, TimesOf, Followers, Named,
       FirstTime, FromRib

(* Names differ by their times, and there are finitely many.               *)
LEMMA FollowersAre ==
  ASSUME NEW d \in Directories, NEW r
  PROVE  /\ UpdatesFiles(d) \in SUBSET FileName /\ Followers(d, r) \in SUBSET UpdatesFiles(d)
         /\ \A n \in UpdatesFiles(d) : d[n] \in Seq(Records) /\ n.time \in Nat
         /\ \A m, n \in UpdatesFiles(d) :
              m.parts = 3 /\ n.parts = 3 /\ m.time = n.time => m = n
         /\ \A S \in SUBSET UpdatesFiles(d) : TimesOf(S) \in SUBSET Nat /\ IsFiniteSet(TimesOf(S))
<1>1. /\ DOMAIN d \subseteq FileName /\ IsFiniteSet(DOMAIN d)
      /\ \A n \in DOMAIN d : d[n] \in Seq(Records)
  BY FilesAssumption DEF Records
<1>2. UpdatesFiles(d) \in SUBSET FileName /\ Followers(d, r) \in SUBSET UpdatesFiles(d)
  BY <1>1 DEF UpdatesFiles, Followers, Named
<1>3. \A n \in UpdatesFiles(d) : d[n] \in Seq(Records) /\ n.time \in Nat
  BY <1>1 DEF UpdatesFiles, FileName
<1>4. \A m, n \in UpdatesFiles(d) : m.parts = 3 /\ n.parts = 3 /\ m.time = n.time => m = n
  BY <1>2 DEF UpdatesFiles, FileName
<1>5. ASSUME NEW S \in SUBSET UpdatesFiles(d)
      PROVE  TimesOf(S) \in SUBSET Nat /\ IsFiniteSet(TimesOf(S))
  <2>1. TimesOf(S) \in SUBSET Nat
    BY <1>3 DEF TimesOf
  <2>2. IsFiniteSet(S)
    <3>1. S \in SUBSET DOMAIN d
      BY DEF UpdatesFiles
    <3> QED
      BY <1>1, <3>1, FS_Subset
  <2> DEFINE f == [n \in S |-> n.time]
  <2>3. f \in Surjection(S, TimesOf(S))
    BY DEF Surjection, TimesOf
  <2> HIDE DEF f
  <2>4. IsFiniteSet(TimesOf(S))
    BY <2>2, <2>3, FS_Surjection
  <2> QED
    BY <2>1, <2>4
<1> QED
  BY <1>2, <1>3, <1>4, <1>5

(* The next file is the one after those with earlier times.                *)
LEMMA NextContent ==
  ASSUME NEW d \in Directories, NEW r, NEW n \in Followers(d, r)
  PROVE  LET k == Cardinality({y \in Times(d, r) : y < n.time})
         IN  /\ k \in 0..(Cardinality(Times(d, r)) - 1)
             /\ Contents(d, r)[k + 1] = d[n]
<1> DEFINE T == Times(d, r)
           k == Cardinality({y \in T : y < n.time})
<1>1. T \in SUBSET Nat /\ IsFiniteSet(T) /\ n.time \in T
  BY FollowersAre DEF Times, TimesOf
<1>2. Cardinality(T) \in Nat
  BY <1>1, FS_CardinalityType
<1>3. /\ k \in Nat /\ Rank(T, n.time) = k + 1 /\ k + 1 \in 1..Cardinality(T)
      /\ \A x \in T : Rank(T, x) = k + 1 => x = n.time
  <2> DEFINE t == n.time
  <2>1. t \in T
    BY <1>1
  <2> HIDE DEF t, T
  <2>2. /\ Cardinality({y \in T : y < t}) \in Nat
        /\ Rank(T, t) = Cardinality({y \in T : y < t}) + 1
        /\ Rank(T, t) \in 1..Cardinality(T)
        /\ \A x \in T : Rank(T, x) = Rank(T, t) => x = t
    BY <1>1, <2>1, RankIs
  <2> QED
    BY <2>2 DEF t
<1> HIDE DEF k
<1>4. KthTime(d, r, k + 1) = n.time
  BY <1>1, <1>3 DEF KthTime
<1>5. Content(d, n.time) = d[n]
  <2>1. n \in UpdatesFiles(d) /\ n.parts = 3
    BY FollowersAre DEF Followers, Named
  <2>2. n \in Named(d) /\ \A m \in Named(d) : m.time = n.time => m = n
    BY <2>1, FollowersAre DEF Named, UpdatesFiles
  <2>3. (CHOOSE m \in Named(d) : m.time = n.time) = n
    BY <2>2
  <2> QED
    BY <2>3 DEF Content
<1>6. Contents(d, r)[k + 1] = Content(d, KthTime(d, r, k + 1))
  BY <1>3 DEF Contents
<1>7. k \in 0..(Cardinality(T) - 1)
  <2> HIDE DEF T
  <2> QED
    BY <1>2, <1>3
<1> QED
  BY <1>4, <1>5, <1>6, <1>7 DEF k

(* Every number up to that of all elements is a rank.                      *)
LEMMA RanksAreAll ==
  ASSUME NEW T \in SUBSET Nat, IsFiniteSet(T), NEW k \in 1..Cardinality(T)
  PROVE  \E t \in T : Rank(T, t) = k
<1> DEFINE f == [t \in T |-> Rank(T, t)]
           U == 1..Cardinality(T)
<1>1. Cardinality(T) \in Nat
  BY FS_CardinalityType
<1>2. IsFiniteSet(U) /\ Cardinality(U) = Cardinality(T)
  <2>1. IsFiniteSet(U) /\ Cardinality(U) = IF 1 > Cardinality(T) THEN 0 ELSE Cardinality(T) - 1 + 1
    BY <1>1, FS_Interval
  <2> QED
    BY <1>1, <2>1
<1>3. f \in Injection(T, U)
  <2>1. \A t \in T : Rank(T, t) \in U
    BY RankIs
  <2>2. \A x, t \in T : Rank(T, x) = Rank(T, t) => x = t
    BY RankIs
  <2> HIDE DEF U
  <2> QED
    BY <2>1, <2>2 DEF Injection, IsInjective
<1>4. f \in Surjection(T, U)
  <2> HIDE DEF f, U
  <2> QED
    BY <1>2, <1>3, FS_Injection
<1>5. k \in U
  OBVIOUS
<1> HIDE DEF U
<1> QED
  BY <1>4, <1>5 DEF Surjection

(* All of the contents are sequences of records.                           *)
LEMMA ContentsAre ==
  ASSUME NEW d \in Directories, NEW r
  PROVE  /\ Cardinality(Times(d, r)) \in Nat
         /\ Contents(d, r) \in [1..Cardinality(Times(d, r)) -> Seq(Records)]
<1> DEFINE T == Times(d, r)
           N == Cardinality(T)
<1>1. T \in SUBSET Nat /\ IsFiniteSet(T)
  BY FollowersAre DEF Times
<1>2. N \in Nat
  BY <1>1, FS_CardinalityType
<1>3. ASSUME NEW k \in 1..N
      PROVE  Content(d, KthTime(d, r, k)) \in Seq(Records)
  <2>1. \E t \in T : Rank(T, t) = k
    <3> HIDE DEF T
    <3> QED
      BY <1>1, RanksAreAll
  <2>2. KthTime(d, r, k) \in T
    BY <2>1 DEF KthTime
  <2>3. PICK n \in Followers(d, r) : KthTime(d, r, k) = n.time
    BY <2>2 DEF Times, TimesOf
  <2>4. \E m \in Named(d) : m.time = KthTime(d, r, k)
    BY <2>3 DEF Followers
  <2> DEFINE m == CHOOSE m \in Named(d) : m.time = KthTime(d, r, k)
  <2>5. m \in Named(d)
    BY <2>4
  <2> HIDE DEF m
  <2>6. d[m] \in Seq(Records)
    BY <2>5, FollowersAre DEF Named, UpdatesFiles
  <2> QED
    BY <2>6 DEF Content, m
<1> QED
  BY <1>2, <1>3 DEF Contents

(* What has been read of directory d when the files of "left" have not yet *)
(* been looked at.                                                         *)
Joined(d, r) == CHOOSE f : /\ f \in [0..Cardinality(Times(d, r)) -> Seq(Records)]
                           /\ Joins(f, Contents(d, r), Cardinality(Times(d, r)))
SoFar(d, r, rest) ==
  FromRib(d, r) \o Joined(d, r)[Cardinality(TimesOf(Followers(d, r) \ rest))]

LEMMA JoinedIs ==
  ASSUME NEW d \in Directories, NEW r
  PROVE  /\ Joined(d, r) \in [0..Cardinality(Times(d, r)) -> Seq(Records)]
         /\ Joins(Joined(d, r), Contents(d, r), Cardinality(Times(d, r)))
         /\ FlattenSeq(Contents(d, r)) = Joined(d, r)[Cardinality(Times(d, r))]
<1> DEFINE N == Cardinality(Times(d, r))
           c == Contents(d, r)
           Is(f) == f \in [0..N -> Seq(Records)] /\ Joins(f, c, N)
           j == Joined(d, r)
<1>1. N \in Nat /\ c \in [1..N -> Seq(Records)]
  BY ContentsAre
<1>2. \E f : Is(f)
  <2> HIDE DEF N, c
  <2> QED
    BY <1>1, JoinExists
<1>3. j = CHOOSE f : Is(f)
  BY DEF Joined
<1>4. Is(j)
  <2> HIDE DEF j, Is
  <2> QED
    BY <1>2, <1>3
<1>5. FlattenSeq(c) = j[N]
  <2> HIDE DEF N, c, j
  <2> QED
    BY <1>1, <1>4, FlattenSeqIs
<1> QED
  BY <1>4, <1>5

LEMMA SoFarType ==
  ASSUME NEW d \in Directories, NEW r, FromRib(d, r) \in Seq(Records), NEW rest
  PROVE  /\ Cardinality(TimesOf(Followers(d, r) \ rest)) \in 0..Cardinality(Times(d, r))
         /\ SoFar(d, r, rest) \in Seq(Records)
<1> DEFINE U == TimesOf(Followers(d, r) \ rest)
           T == Times(d, r)
<1>1. U \in SUBSET T /\ IsFiniteSet(T)
  BY FollowersAre DEF Times, TimesOf
<1>2. Cardinality(U) \in Nat /\ Cardinality(T) \in Nat /\ Cardinality(U) <= Cardinality(T)
  <2> HIDE DEF U, T
  <2> QED
    BY <1>1, FS_Subset, FS_CardinalityType
<1>3. Cardinality(U) \in 0..Cardinality(T)
  <2> HIDE DEF U, T
  <2> QED
    BY <1>2
<1>4. Joined(d, r)[Cardinality(U)] \in Seq(Records)
  <2> HIDE DEF U
  <2> QED
    BY <1>3, JoinedIs
<1> QED
  BY <1>3, <1>4, ConcatProperties DEF SoFar

LEMMA SoFarAtStart ==
  ASSUME NEW d \in Directories, NEW r, FromRib(d, r) \in Seq(Records)
  PROVE  SoFar(d, r, UpdatesFiles(d)) = FromRib(d, r)
<1>1. TimesOf(Followers(d, r) \ UpdatesFiles(d)) = {}
  BY FollowersAre DEF TimesOf
<1>2. Cardinality({}) = 0
  BY FS_EmptySet
<1>3. Joined(d, r)[0] = <<>>
  BY JoinedIs DEF Joins
<1> QED
  BY <1>1, <1>2, <1>3, ConcatEmptySeq DEF SoFar

LEMMA SoFarAtEnd ==
  ASSUME NEW d \in Directories, NEW r
  PROVE  SoFar(d, r, {}) = FromRib(d, r) \o FlattenSeq(Contents(d, r))
<1>1. Followers(d, r) \ {} = Followers(d, r)
  OBVIOUS
<1> QED
  BY <1>1, JoinedIs DEF SoFar, Times

LEMMA SoFarSkip ==
  ASSUME NEW d, NEW r, NEW rest, NEW n, n \notin Followers(d, r)
  PROVE  SoFar(d, r, rest \ {n}) = SoFar(d, r, rest)
<1>1. Followers(d, r) \ (rest \ {n}) = Followers(d, r) \ rest
  OBVIOUS
<1> QED
  BY <1>1 DEF SoFar

(* The files that are left come after those that are not, and n is the     *)
(* first of them.                                                          *)
LEMMA SoFarNext ==
  ASSUME NEW d \in Directories, NEW r, FromRib(d, r) \in Seq(Records),
         NEW rest \in SUBSET UpdatesFiles(d), NEW n \in rest, n \in Followers(d, r),
         \A m \in rest : m.time >= n.time,
         \A m \in Followers(d, r) \ rest : m.time <= n.time
  PROVE  SoFar(d, r, rest \ {n}) = SoFar(d, r, rest) \o d[n]
<1> DEFINE F == Followers(d, r)
           U == TimesOf(F \ rest)
           T == Times(d, r)
           k == Cardinality(U)
<1>1. /\ \A m \in F : m \in UpdatesFiles(d) /\ m.parts = 3 /\ m.time \in Nat
      /\ \A m, o \in F : m.time = o.time => m = o
  <2>1. \A m \in F : m \in UpdatesFiles(d) /\ m.parts = 3
    BY FollowersAre DEF Followers, Named
  <2> HIDE DEF F
  <2> QED
    BY <2>1, FollowersAre
<1>2. U = {y \in T : y < n.time}
  <2>1. ASSUME NEW m \in F
        PROVE  m.time < n.time <=> m \notin rest
    <3>1. CASE m \in rest
      <4>1. m.time >= n.time /\ m.time \in Nat /\ n.time \in Nat
        BY <1>1, <3>1
      <4> QED
        BY <3>1, <4>1
    <3>2. CASE m \notin rest
      <4>1. m.time <= n.time /\ m.time # n.time /\ m.time \in Nat /\ n.time \in Nat
        BY <1>1, <3>2
      <4> QED
        BY <3>2, <4>1
    <3> QED
      BY <3>1, <3>2
  <2> QED
    BY <2>1 DEF TimesOf, Times
<1>3. F \ (rest \ {n}) = (F \ rest) \cup {n}
  OBVIOUS
<1>4. TimesOf(F \ (rest \ {n})) = U \cup {n.time}
  <2> HIDE DEF F
  <2> QED
    BY <1>3 DEF TimesOf
<1>5. n.time \notin U
  <2>1. ~(n.time < n.time)
    <3>1. n.time \in Nat
      BY <1>1
    <3> QED
      BY <3>1
  <2> HIDE DEF U
  <2> QED
    BY <1>2, <2>1
<1>6. IsFiniteSet(U) /\ k \in Nat
  <2>1. IsFiniteSet(U)
    <3>1. F \ rest \in SUBSET UpdatesFiles(d)
      BY <1>1
    <3> HIDE DEF F
    <3> QED
      BY <3>1, FollowersAre
  <2> HIDE DEF U
  <2> QED
    BY <2>1, FS_CardinalityType
<1>7. Cardinality(U \cup {n.time}) = k + 1
  <2> HIDE DEF U
  <2> QED
    BY <1>5, <1>6, FS_AddElement
<1>8. k \in 0..(Cardinality(T) - 1) /\ Contents(d, r)[k + 1] = d[n]
  <2> HIDE DEF U, T
  <2> QED
    BY <1>2, NextContent DEF T
<1>9. Joined(d, r)[k + 1] = Joined(d, r)[k] \o d[n]
  <2> HIDE DEF k
  <2> QED
    BY <1>8, JoinedIs DEF Joins
<1>10. /\ SoFar(d, r, rest) = FromRib(d, r) \o Joined(d, r)[k]
       /\ SoFar(d, r, rest \ {n}) = FromRib(d, r) \o (Joined(d, r)[k] \o d[n])
  <2>1. Cardinality(TimesOf(F \ (rest \ {n}))) = k + 1
    BY <1>4, <1>7
  <2> QED
    BY <1>9, <2>1 DEF SoFar
<1>11. Joined(d, r)[k] \in Seq(Records) /\ d[n] \in Seq(Records)
  <2>1. Cardinality(T) \in Nat
    BY ContentsAre
  <2>2. k \in 0..Cardinality(T)
    <3> HIDE DEF k, T
    <3> QED
      BY <1>8, <2>1
  <2>3. Joined(d, r)[k] \in Seq(Records)
    <3> HIDE DEF k
    <3> QED
      BY <2>2, JoinedIs
  <2> QED
    BY <1>1, <2>3, FollowersAre
<1>12. FromRib(d, r) \o (Joined(d, r)[k] \o d[n]) = (FromRib(d, r) \o Joined(d, r)[k]) \o d[n]
  <2> DEFINE j == Joined(d, r)[k]
             b == FromRib(d, r)
             c == d[n]
  <2>1. j \in Seq(Records) /\ b \in Seq(Records) /\ c \in Seq(Records)
    BY <1>11
  <2> HIDE DEF j, b, c
  <2>2. b \o (j \o c) = (b \o j) \o c
    BY <2>1, ConcatAssociative
  <2> QED
    BY <2>2 DEF b, j, c
<1> HIDE DEF k
<1> QED
  BY <1>10, <1>12

-----------------------------------------------------------------------------
(* What has been read.                                                     *)

LEMMA HeadMoved ==
  ASSUME NEW X, NEW s \in Seq(X), NEW t \in Seq(X), t # <<>>
  PROVE  Append(s, Head(t)) \o Tail(t) = s \o t
<1>1. Head(t) \in X /\ Tail(t) \in Seq(X) /\ Len(t) \in Nat \ {0}
  BY HeadTailProperties, EmptySeq
<1>2. t = <<Head(t)>> \o Tail(t)
  <2>1. 1 \in 1..Len(t) /\ Len(t) \in 1..Len(t)
    BY <1>1
  <2>2. SubSeq(t, 1, Len(t)) = <<t[1]>> \o SubSeq(t, 1 + 1, Len(t))
    BY <2>1, SubSeqRecursiveFirst
  <2>3. SubSeq(t, 1, Len(t)) = t /\ SubSeq(t, 1 + 1, Len(t)) = Tail(t) /\ t[1] = Head(t)
    BY SubSeqFull, TailIsSubSeq
  <2> QED
    BY <2>2, <2>3
<1>3. Append(s, Head(t)) = s \o <<Head(t)>>
  BY <1>1, AppendIsConcat
<1> DEFINE h == <<Head(t)>>
           r == Tail(t)
<1>4. h \in Seq(X) /\ r \in Seq(X)
  BY <1>1
<1> HIDE DEF h, r
<1>5. (s \o h) \o r = s \o (h \o r)
  BY <1>4, ConcatAssociative
<1> QED
  BY <1>2, <1>3, <1>5 DEF h, r

LEMMA PrefixOfItself ==
  ASSUME NEW X, NEW s \in Seq(X)
  PROVE  IsPrefix(s, s)
BY SubSeqFull, LenProperties DEF IsPrefix

LEMMA PrefixStays ==
  ASSUME NEW X, NEW s \in Seq(X), NEW t \in Seq(X), IsPrefix(s, t), NEW x \in X
  PROVE  IsPrefix(s, Append(t, x))
<1> DEFINE u == Append(t, x)
<1>1. /\ Len(s) \in Nat /\ Len(t) \in Nat /\ Len(s) <= Len(t)
      /\ Len(u) = Len(t) + 1 /\ u \in Seq(X)
      /\ \A k \in 1..Len(t) : u[k] = t[k]
  BY LenProperties, AppendProperties DEF IsPrefix
<1>2. \A k \in 1..Len(s) : k \in 1..Len(t)
  BY <1>1
<1> HIDE DEF u
<1>3. SubSeq(u, 1, Len(s)) = SubSeq(t, 1, Len(s))
  BY <1>1, <1>2
<1>4. Len(s) <= Len(u)
  BY <1>1
<1> QED
  BY <1>3, <1>4 DEF IsPrefix, u

Told == Records \cup RisMessages

(* What "read" gets, "AllRead" gets, without the mark of a skipped record. *)
LEMMA AllReadAppended ==
  ASSUME read \in Seq(Readings), NEW r \in Readings, read' = Append(read, r),
         AllRead \in Seq(Told), NEW x \in Told,
         r.type = "skipped" => x = r.record,
         r.type # "skipped" => x = r
  PROVE  AllRead' = Append(AllRead, x) /\ AllRead' \in Seq(Told)
<1> DEFINE N == Len(read)
<1>1. /\ DOMAIN read = 1..N /\ N \in Nat /\ DOMAIN read' = 1..(N + 1)
      /\ \A k \in 1..N : read'[k] = read[k]
      /\ read'[N + 1] = r
  BY AppendProperties, LenProperties
<1> HIDE DEF N
<1>2. Len(AllRead) = N /\ DOMAIN AllRead = 1..N
  BY <1>1 DEF AllRead
<1> DEFINE s == Append(AllRead, x)
<1>3. /\ s \in Seq(Told) /\ Len(s) = N + 1 /\ DOMAIN s = 1..(N + 1)
      /\ \A k \in 1..N : s[k] = AllRead[k]
      /\ s[N + 1] = x
  BY <1>2, AppendProperties, LenProperties
<1>4. AllRead' = [k \in 1..(N + 1) |-> IF read'[k].type = "skipped" THEN read'[k].record
                                                                    ELSE read'[k]]
  BY <1>1 DEF AllRead
<1>5. \A k \in 1..N : AllRead'[k] = AllRead[k]
  <2>1. \A k \in 1..N : k \in 1..(N + 1)
    BY <1>1
  <2> QED
    BY <1>1, <1>4, <2>1 DEF AllRead
<1>6. AllRead'[N + 1] = x
  <2>1. N + 1 \in 1..(N + 1)
    BY <1>1
  <2> QED
    BY <1>1, <1>4, <2>1
<1> DEFINE a == AllRead'
<1>7. DOMAIN a = 1..(N + 1) /\ a = [k \in 1..(N + 1) |-> a[k]]
  BY <1>4
<1>8. \A k \in 1..(N + 1) : a[k] = s[k]
  <2>1. \A k \in 1..(N + 1) : k \in 1..N \/ k = N + 1
    BY <1>1
  <2> QED
    BY <1>3, <1>5, <1>6, <2>1
<1>9. s = [k \in 1..(N + 1) |-> s[k]]
  <2> HIDE DEF s
  <2>1. s \in [1..(N + 1) -> Told]
    BY <1>3, LenProperties
  <2> QED
    BY <2>1
<1>10. a = s
  <2> HIDE DEF a, s
  <2> QED
    BY <1>7, <1>8, <1>9
<1> QED
  BY <1>3, <1>10

-----------------------------------------------------------------------------
(* The given RIB and the updates files that follow are read.               *)

Chosen == {"openRib", "rib", "updates", "file", "done", "live", "ended"}

Gone == {"stopped", "panicked", "returned"}

RibIsNewest ==
  flags.rib = NoFile => \A n \in DOMAIN directory : n.kind = "rib" => n.time <= rib.time

(* The files that are left are not before those that have been read.       *)
LeftInOrder ==
  /\ left \subseteq UpdatesFiles(directory)
  /\ \A n \in Followers(directory, rib) \ left, m \in left : n.time <= m.time
  /\ pc \in {"openRib", "rib"} => left = UpdatesFiles(directory)

ReadInOrder ==
  /\ pc = "rib" => AllRead \o records = FromRib(directory, rib)
  /\ pc = "updates" => AllRead = SoFar(directory, rib, left)
  /\ pc = "file" => AllRead \o records = SoFar(directory, rib, left)
  /\ pc = "done" => AllRead = Following
  /\ pc \in {"live", "ended"} => IsPrefix(Following, AllRead)

(* What has been read and what is left of the open file are the RIB and the*)
(* files that have been looked at, one after the other.                    *)
FollowInv ==
  /\ AllRead \in Seq(Told)
  /\ pc \in {"start", "files", "openRib"} => read = <<>>
  /\ pc \in {"start", "files"} => rib = flags.rib /\ left = {}
  /\ LeftInOrder
  /\ ~failed => /\ pc \in Chosen => RibIsNewest
                /\ pc \in Chosen \ {"openRib"} => FromRib(directory, rib) \in Seq(Records)
                /\ ReadInOrder

LEMMA InitFollowInv == Init => FollowInv
<1> SUFFICES ASSUME Init PROVE FollowInv
  OBVIOUS
<1>1. pc = "start" /\ read = <<>> /\ left = {} /\ rib = flags.rib
  BY DEF Init, FilesInit
<1>2. AllRead \in Seq(Told)
  <2>1. AllRead = <<>>
    BY <1>1 DEF AllRead
  <2> QED
    BY <2>1, EmptySeq
<1> QED
  BY <1>1, <1>2 DEF FollowInv, LeftInOrder, ReadInOrder, Chosen

(* A step of the files, or of nothing.                                     *)
LEMMA StayKeepsFollowInv ==
  ASSUME FollowInv, UNCHANGED <<directory, rib, left, records, read, failed, flags>>,
         \/ pc' = pc
         \/ pc' \in Gone
         \/ pc = "start" /\ pc' = "files"
         \/ pc = "done" /\ pc' \in {"live", "ended"}
  PROVE  FollowInv'
<1>1. AllRead' = AllRead /\ Following' = Following
  BY DEF AllRead, Following
<1>2. pc = "done" /\ ~failed => IsPrefix(Following, AllRead)
  BY PrefixOfItself DEF FollowInv, ReadInOrder
<1>3. LeftInOrder'
  <2>1. UpdatesFiles(directory)' = UpdatesFiles(directory)
        /\ Followers(directory, rib)' = Followers(directory, rib)
    OBVIOUS
  <2> QED
    BY <2>1 DEF FollowInv, LeftInOrder, Gone
<1>4. pc' \in {"start", "files", "openRib"} => pc \in {"start", "files", "openRib"}
  BY DEF Gone
<1>5. pc' \in {"start", "files"} => pc \in {"start", "files"}
  BY DEF Gone
<1>6. /\ pc' \in Chosen => pc \in Chosen
      /\ pc' \in Chosen \ {"openRib"} => pc \in Chosen \ {"openRib"}
  BY DEF Gone, Chosen
<1>7. RibIsNewest' = RibIsNewest /\ FromRib(directory, rib)' = FromRib(directory, rib)
      /\ SoFar(directory, rib, left)' = SoFar(directory, rib, left)
  BY DEF RibIsNewest
<1>8. ~failed => ReadInOrder'
  BY <1>1, <1>2, <1>7 DEF FollowInv, ReadInOrder, Gone
<1> QED
  BY <1>1, <1>3, <1>4, <1>5, <1>6, <1>7, <1>8 DEF FollowInv

(* A failure, after which it is left open what has been read.              *)
LEMMA FailureKeepsFollowInv ==
  ASSUME FollowInv, UNCHANGED <<directory, rib, left, read>>, failed',
         \/ pc' = pc /\ pc \in {"rib", "file"}
         \/ pc' \in {"done", "updates"}
  PROVE  FollowInv'
<1>1. AllRead' = AllRead
  BY DEF AllRead
<1>2. LeftInOrder'
  <2>1. UpdatesFiles(directory)' = UpdatesFiles(directory)
        /\ Followers(directory, rib)' = Followers(directory, rib)
    OBVIOUS
  <2> QED
    BY <2>1 DEF FollowInv, LeftInOrder
<1> QED
  BY <1>1, <1>2 DEF FollowInv

LEMMA OpenRibKeepsFollowInv ==
  ASSUME FilesInv, FollowInv, OpenRib, UNCHANGED flags
  PROVE  FollowInv'
<1>1. /\ pc = "openRib" /\ pc' = "rib" /\ rib \in DOMAIN directory
      /\ records' = directory[rib]
      /\ UNCHANGED <<directory, rib, left, read, failed>>
  BY DEF OpenRib, GoTo, history
<1>2. AllRead' = <<>>
  BY <1>1 DEF FollowInv, AllRead
<1>3. FromRib(directory, rib) = directory[rib] /\ directory[rib] \in Seq(Records)
  BY <1>1, FilesAssumption DEF FilesInv, FromRib, Records
<1>4. <<>> \o directory[rib] = directory[rib]
  BY <1>3, ConcatEmptySeq
<1>5. FromRib(directory, rib)' = directory[rib]
  BY <1>1, <1>3
<1>6. ReadInOrder'
  BY <1>1, <1>2, <1>4, <1>5 DEF ReadInOrder
<1>7. LeftInOrder'
  <2>1. UpdatesFiles(directory)' = UpdatesFiles(directory)
        /\ Followers(directory, rib)' = Followers(directory, rib)
    BY <1>1
  <2> QED
    BY <1>1, <2>1 DEF FollowInv, LeftInOrder
<1>8. ~failed => RibIsNewest'
  BY <1>1 DEF FollowInv, RibIsNewest, Chosen
<1> QED
  BY <1>1, <1>2, <1>3, <1>5, <1>6, <1>7, <1>8, EmptySeq DEF FollowInv

(* The newest RIB has the last time of all.                                *)
LEMMA NewestRibIs ==
  ASSUME directory \in Directories
  PROVE  /\ NewestRib = NoFile => \A n \in DOMAIN directory : n.kind # "rib"
         /\ NewestRib # NoFile => /\ NewestRib \in DOMAIN directory
                                  /\ \A n \in DOMAIN directory :
                                       n.kind = "rib" => n.time <= NewestRib.time
<1> DEFINE ribs == {n \in DOMAIN directory : n.kind = "rib"}
           last == CHOOSE n \in ribs : \A m \in ribs : m.time <= n.time
<1>1. DOMAIN directory \subseteq FileName /\ IsFiniteSet(DOMAIN directory) /\ NoFile \notin FileName
  BY FilesAssumption
<1>2. CASE ribs = {}
  BY <1>2 DEF NewestRib
<1>3. CASE ribs # {}
  <2> DEFINE T == TimesOf(ribs)
             f == [n \in ribs |-> n.time]
  <2>1. T \in SUBSET Nat /\ T # {}
    BY <1>1, <1>3 DEF TimesOf, FileName
  <2>2. IsFiniteSet(ribs)
    <3>1. ribs \in SUBSET DOMAIN directory
      OBVIOUS
    <3> HIDE DEF ribs
    <3> QED
      BY <1>1, <3>1, FS_Subset
  <2>3. f \in Surjection(ribs, T)
    BY DEF Surjection, TimesOf
  <2>4. IsFiniteSet(T)
    <3> HIDE DEF ribs, T, f
    <3> QED
      BY <2>2, <2>3, FS_Surjection
  <2>5. \E t \in T : \A u \in T : u <= t
    <3> HIDE DEF T
    <3> QED
      BY <2>1, <2>4, GreatestNumber
  <2>6. \E n \in ribs : \A m \in ribs : m.time <= n.time
    <3>1. PICK t \in T : \A u \in T : u <= t
      BY <2>5
    <3>2. PICK n \in ribs : t = n.time
      BY DEF TimesOf
    <3>3. \A m \in ribs : m.time \in T
      BY DEF TimesOf
    <3> HIDE DEF ribs, T
    <3> QED
      BY <3>1, <3>2, <3>3
  <2>7. last \in ribs /\ \A m \in ribs : m.time <= last.time
    <3> HIDE DEF ribs
    <3> QED
      BY <2>6
  <2>8. NewestRib = last
    BY <1>3 DEF NewestRib
  <2> HIDE DEF last
  <2>9. last # NoFile
    BY <1>1, <2>7
  <2> QED
    BY <2>7, <2>8, <2>9
<1> QED
  BY <1>2, <1>3

LEMMA ChooseRibKeepsFollowInv ==
  ASSUME FilesInv, FollowInv, ChooseRib, UNCHANGED flags
  PROVE  FollowInv'
<1>1. /\ pc = "files" /\ pc' \in {"updates", "openRib"}
      /\ pc' = "updates" => rib' = NoFile
      /\ rib' = (IF rib = NoFile THEN NewestRib ELSE rib)
      /\ left' = UpdatesFiles(directory)
      /\ UNCHANGED <<directory, read, failed>>
      /\ directory \in Directories
  BY DEF ChooseRib, GoTo, history, UpdatesFiles, FilesInv
<1>2. AllRead' = <<>> /\ read' = <<>>
  BY <1>1 DEF FollowInv, AllRead
<1>3. LeftInOrder'
  <2>1. Followers(directory', rib') \subseteq UpdatesFiles(directory')
    BY <1>1, FollowersAre
  <2>2. left' = UpdatesFiles(directory')
    BY <1>1
  <2> QED
    BY <2>1, <2>2 DEF LeftInOrder
<1>4. RibIsNewest'
  <2> SUFFICES ASSUME flags.rib = NoFile, NEW n \in DOMAIN directory, n.kind = "rib"
               PROVE  n.time <= rib'.time
    BY <1>1 DEF RibIsNewest
  <2>1. rib' = NewestRib
    BY <1>1 DEF FollowInv
  <2> QED
    BY <1>1, <2>1, NewestRibIs
<1>5. pc' = "updates" => /\ FromRib(directory', rib') = <<>>
                        /\ AllRead' = SoFar(directory', rib', left')
  <2> SUFFICES ASSUME pc' = "updates"
               PROVE  /\ FromRib(directory', rib') = <<>>
                      /\ AllRead' = SoFar(directory', rib', left')
    OBVIOUS
  <2>1. FromRib(directory', rib') = <<>>
    BY <1>1 DEF FromRib
  <2>2. SoFar(directory', rib', UpdatesFiles(directory')) = FromRib(directory', rib')
    BY <1>1, <2>1, EmptySeq, SoFarAtStart
  <2> QED
    BY <1>1, <1>2, <2>1, <2>2
<1>6. pc' \in Chosen \ {"openRib"} => FromRib(directory', rib') \in Seq(Records)
  BY <1>1, <1>5, EmptySeq DEF Chosen
<1>7. ReadInOrder'
  BY <1>1, <1>5 DEF ReadInOrder
<1> QED
  BY <1>1, <1>2, <1>3, <1>4, <1>6, <1>7, EmptySeq DEF FollowInv

(* A record that is read, or skipped, moves over to what has been read.    *)
LEMMA RecordKeepsFollowInv ==
  ASSUME FilesInv, FoundInv, FollowInv,
         UNCHANGED <<pc, directory, rib, left, failed, flags>>, pc \in {"rib", "file"},
         records # <<>>, records' = Tail(records),
         read' = Append(read, Head(records)) \/ read' = Append(read, Skipped(Head(records)))
  PROVE  FollowInv'
<1> DEFINE h == Head(records)
<1>1. records \in Seq(Records) /\ Records \subseteq Told
  BY DEF FilesInv, Records, Told
<1>2. h \in Records /\ Tail(records) \in Seq(Records)
  BY <1>1, HeadTailProperties
<1>3. h.type # "skipped" /\ h \in Readings /\ h \in Told
  BY <1>1, <1>2 DEF Records, Record, Readings
<1>4. Skipped(h) \in Readings /\ Skipped(h).type = "skipped" /\ Skipped(h).record = h
  BY <1>2 DEF Skipped, Readings, Records
<1>5. read \in Seq(Readings) /\ AllRead \in Seq(Told)
  BY DEF FoundInv, FollowInv
<1>6. AllRead' = Append(AllRead, h) /\ AllRead' \in Seq(Told)
  <2> HIDE DEF h
  <2>1. CASE read' = Append(read, h)
    BY <1>3, <1>5, <2>1, AllReadAppended
  <2>2. CASE read' = Append(read, Skipped(h))
    BY <1>3, <1>4, <1>5, <2>2, AllReadAppended
  <2> QED
    BY <2>1, <2>2 DEF h
<1>7. AllRead' \o records' = AllRead \o records
  <2>1. records \in Seq(Told)
    BY <1>1
  <2>2. Append(AllRead, Head(records)) \o Tail(records) = AllRead \o records
    BY <1>5, <2>1, HeadMoved
  <2> QED
    BY <1>6, <2>2
<1>8. LeftInOrder'
  <2>1. UpdatesFiles(directory)' = UpdatesFiles(directory)
        /\ Followers(directory, rib)' = Followers(directory, rib)
    OBVIOUS
  <2> QED
    BY <2>1 DEF FollowInv, LeftInOrder
<1>9. ~failed => ReadInOrder'
  BY <1>7 DEF FollowInv, ReadInOrder
<1>10. ~failed => RibIsNewest'
  BY DEF FollowInv, RibIsNewest, Chosen
<1> QED
  BY <1>6, <1>8, <1>9, <1>10 DEF FollowInv

(* The end of a file.                                                      *)
LEMMA EndOfRibKeepsFollowInv ==
  ASSUME FilesInv, FollowInv, EndOfRib, UNCHANGED flags
  PROVE  FollowInv'
<1>1. /\ pc = "rib" /\ records = <<>> /\ rib \in FileName /\ rib.parts \in 1..3
      /\ pc' = <<"done", "panicked", "updates">>[rib.parts]
      /\ failed' = (failed \/ rib.parts < 3)
      /\ UNCHANGED <<directory, rib, left, records, read>>
      /\ directory \in Directories
  BY DEF EndOfRib, GoTo, fileVars, FilesInv, FileName
<1>2. CASE rib.parts = 3
  <2>1. pc' = "updates" /\ (~failed' => ~failed)
    <3>1. <<"done", "panicked", "updates">>[3] = "updates"
      OBVIOUS
    <3>2. pc' = "updates"
      BY <1>1, <1>2, <3>1
    <3> QED
      BY <1>1, <3>2
  <2>2. AllRead' = AllRead /\ AllRead \in Seq(Told) /\ left = UpdatesFiles(directory)
    BY <1>1 DEF AllRead, FollowInv, LeftInOrder
  <2>3. LeftInOrder'
    <3>1. UpdatesFiles(directory)' = UpdatesFiles(directory)
          /\ Followers(directory, rib)' = Followers(directory, rib)
      BY <1>1
    <3> QED
      BY <1>1, <2>1, <3>1 DEF FollowInv, LeftInOrder
  <2>4. ASSUME ~failed
        PROVE  /\ FromRib(directory, rib) \in Seq(Records) /\ RibIsNewest'
               /\ AllRead = SoFar(directory, rib, left)
    <3>1. FromRib(directory, rib) \in Seq(Records) /\ RibIsNewest'
      BY <1>1, <2>4 DEF FollowInv, Chosen, RibIsNewest
    <3>2. AllRead \o <<>> = FromRib(directory, rib)
      BY <1>1, <2>4 DEF FollowInv, ReadInOrder
    <3>3. AllRead \o <<>> = AllRead
      BY <2>2, ConcatEmptySeq
    <3>4. SoFar(directory, rib, UpdatesFiles(directory)) = FromRib(directory, rib)
      BY <1>1, <3>1, SoFarAtStart
    <3> QED
      BY <2>2, <3>1, <3>2, <3>3, <3>4
  <2>5. ~failed => ReadInOrder'
    BY <1>1, <2>1, <2>2, <2>4 DEF ReadInOrder
  <2>6. FromRib(directory, rib)' = FromRib(directory, rib)
    BY <1>1
  <2> QED
    BY <2>1, <2>2, <2>3, <2>4, <2>5, <2>6 DEF FollowInv
<1>3. CASE rib.parts = 2
  <2>1. pc' = "panicked" /\ failed'
    <3>1. <<"done", "panicked", "updates">>[2] = "panicked" /\ 2 < 3
      OBVIOUS
    <3>2. rib.parts < 3 /\ pc' = "panicked"
      BY <1>1, <1>3, <3>1
    <3> QED
      BY <1>1, <3>2
  <2>2. AllRead' = AllRead
    BY <1>1 DEF AllRead
  <2>3. LeftInOrder'
    <3>1. UpdatesFiles(directory)' = UpdatesFiles(directory)
          /\ Followers(directory, rib)' = Followers(directory, rib)
      BY <1>1
    <3> QED
      BY <1>1, <2>1, <3>1 DEF FollowInv, LeftInOrder
  <2> QED
    BY <2>1, <2>2, <2>3 DEF FollowInv
<1>4. CASE rib.parts = 1
  <2>1. pc' = "done" /\ failed'
    <3>1. <<"done", "panicked", "updates">>[1] = "done" /\ 1 < 3
      OBVIOUS
    <3>2. rib.parts < 3 /\ pc' = "done"
      BY <1>1, <1>4, <3>1
    <3> QED
      BY <1>1, <3>2
  <2> QED
    BY <1>1, <2>1, FailureKeepsFollowInv
<1> QED
  BY <1>1, <1>2, <1>3, <1>4

LEMMA EndOfFileKeepsFollowInv ==
  ASSUME FollowInv, EndOfFile, UNCHANGED flags
  PROVE  FollowInv'
<1>1. /\ pc = "file" /\ pc' = "updates" /\ records = <<>>
      /\ UNCHANGED <<directory, rib, left, read, failed>>
  BY DEF EndOfFile, GoTo, fileVars, history
<1>2. AllRead' = AllRead /\ AllRead \in Seq(Told) /\ AllRead \o <<>> = AllRead
  BY <1>1, ConcatEmptySeq DEF AllRead, FollowInv
<1>3. LeftInOrder'
  <2>1. UpdatesFiles(directory)' = UpdatesFiles(directory)
        /\ Followers(directory, rib)' = Followers(directory, rib)
    BY <1>1
  <2> QED
    BY <1>1, <2>1 DEF FollowInv, LeftInOrder
<1>4. ~failed => ReadInOrder' /\ RibIsNewest'
  BY <1>1, <1>2 DEF FollowInv, ReadInOrder, Chosen, RibIsNewest
<1>5. FromRib(directory, rib)' = FromRib(directory, rib)
  BY <1>1
<1> QED
  BY <1>1, <1>2, <1>3, <1>4, <1>5 DEF FollowInv, Chosen

LEMMA EndOfFilesKeepsFollowInv ==
  ASSUME FilesInv, FollowInv, EndOfFiles, UNCHANGED flags
  PROVE  FollowInv'
<1>1. /\ pc = "updates" /\ pc' = "done" /\ left = {}
      /\ UNCHANGED <<directory, rib, left, read, failed>>
      /\ directory \in Directories
  BY DEF EndOfFiles, GoTo, fileVars, history, FilesInv
<1>2. AllRead' = AllRead /\ Following' = Following
  BY <1>1 DEF AllRead, Following
<1>3. LeftInOrder'
  BY <1>1 DEF LeftInOrder
<1>4. ~failed => AllRead = Following
  BY <1>1, FollowingIs, SoFarAtEnd DEF FollowInv, ReadInOrder
<1>5. ~failed => RibIsNewest'
  BY <1>1 DEF FollowInv, Chosen, RibIsNewest
<1>6. FromRib(directory, rib)' = FromRib(directory, rib)
  BY <1>1
<1> QED
  BY <1>1, <1>2, <1>3, <1>4, <1>5, <1>6 DEF FollowInv, ReadInOrder, Chosen

-----------------------------------------------------------------------------
(* The next name of the listing.                                           *)
LEMMA NextFileKeepsFollowInv ==
  ASSUME FilesInv, FollowInv, UNCHANGED flags, NEW to, NEW n, NextFile(n, to),
         to \in {"updates", "panicked", "file"},
         ~failed' => ~failed,
         \/ to = "updates" /\ n \notin Followers(directory, rib)
         \/ to = "panicked"
         \/ to = "updates" /\ failed'
         \/ to = "file" /\ n \in Followers(directory, rib) /\ records' = directory[n]
  PROVE  FollowInv'
<1> DEFINE D == Followers(directory, rib) \ left
<1>1. /\ pc = "updates" /\ pc' = to /\ left' = left \ {n} /\ n \in left
      /\ \A m \in left : m.time >= n.time
      /\ UNCHANGED <<directory, rib, read>>
      /\ directory \in Directories
  BY DEF NextFile, GoTo, FilesInv
<1>2. AllRead' = AllRead /\ AllRead \in Seq(Told)
  BY <1>1 DEF AllRead, FollowInv
<1>3. /\ left \in SUBSET UpdatesFiles(directory)
      /\ \A m \in D, o \in left : m.time <= o.time
  BY DEF FollowInv, LeftInOrder
<1>4. LeftInOrder'
  <2>1. ASSUME NEW m \in Followers(directory, rib) \ (left \ {n}), NEW o \in left \ {n}
        PROVE  m.time <= o.time
    <3>1. m \in D \/ m = n
      OBVIOUS
    <3>2. n.time \in Nat /\ o.time \in Nat
      BY <1>1, <1>3, FollowersAre
    <3> HIDE DEF D
    <3> QED
      BY <1>1, <1>3, <3>1, <3>2
  <2>2. left \ {n} \subseteq UpdatesFiles(directory)
    BY <1>3
  <2>3. UpdatesFiles(directory)' = UpdatesFiles(directory)
        /\ Followers(directory, rib)' = Followers(directory, rib)
    BY <1>1
  <2>4. pc' \notin {"openRib", "rib"}
    BY <1>1
  <2> QED
    BY <1>1, <2>1, <2>2, <2>3, <2>4 DEF LeftInOrder
<1>5. /\ pc' \notin {"start", "files", "openRib", "rib", "done", "live", "ended"}
      /\ ~failed => RibIsNewest'
      /\ FromRib(directory, rib)' = FromRib(directory, rib)
      /\ SoFar(directory, rib, left)' = SoFar(directory, rib, left \ {n})
      /\ ~failed => /\ FromRib(directory, rib) \in Seq(Records)
                    /\ AllRead = SoFar(directory, rib, left)
  BY <1>1 DEF FollowInv, RibIsNewest, Chosen, ReadInOrder
<1>6. CASE to = "updates" /\ n \notin Followers(directory, rib)
  <2>1. SoFar(directory, rib, left \ {n}) = SoFar(directory, rib, left)
    BY <1>6, SoFarSkip
  <2>2. ~failed => ReadInOrder'
    BY <1>1, <1>2, <1>5, <1>6, <2>1 DEF ReadInOrder
  <2> QED
    BY <1>1, <1>2, <1>4, <1>5, <2>2 DEF FollowInv
<1>7. CASE to = "panicked"
  <2>1. pc' \notin Chosen /\ ReadInOrder'
    BY <1>1, <1>7 DEF Chosen, ReadInOrder
  <2> QED
    BY <1>1, <1>2, <1>4, <1>5, <2>1 DEF FollowInv
<1>8. CASE failed'
  BY <1>1, <1>2, <1>4, <1>5, <1>8 DEF FollowInv
<1>9. CASE to = "file" /\ n \in Followers(directory, rib) /\ records' = directory[n]
  <2>1. ASSUME ~failed
        PROVE  SoFar(directory, rib, left \ {n}) = SoFar(directory, rib, left) \o directory[n]
    <3>1. FromRib(directory, rib) \in Seq(Records)
      BY <1>5, <2>1
    <3>2. \A m \in D : m.time <= n.time
      BY <1>1, <1>3
    <3> QED
      BY <1>1, <1>3, <1>9, <3>1, <3>2, SoFarNext
  <2>2. ~failed => ReadInOrder'
    BY <1>1, <1>2, <1>5, <1>9, <2>1 DEF ReadInOrder
  <2> QED
    BY <1>1, <1>2, <1>4, <1>5, <2>2 DEF FollowInv
<1> QED
  BY <1>6, <1>7, <1>8, <1>9

FileStep(n) == SkipFile(n) \/ MisnamedFile(n) \/ OpenUpdates(n) \/ OpenUpdatesFails(n)

LEMMA FileStepKeepsFollowInv ==
  ASSUME FilesInv, FollowInv, UNCHANGED flags, NEW n \in left, FileStep(n)
  PROVE  FollowInv'
<1>1. n \in Followers(directory, rib) <=> IsFollowing(n)
  <2>1. n \in UpdatesFiles(directory)
    BY DEF FollowInv, LeftInOrder
  <2> QED
    BY <2>1 DEF Followers, Named, UpdatesFiles, FirstTime, IsFollowing, StartReading
<1>2. CASE SkipFile(n)
  BY <1>1, <1>2, NextFileKeepsFollowInv DEF SkipFile
<1>3. CASE MisnamedFile(n)
  BY <1>3, NextFileKeepsFollowInv DEF MisnamedFile
<1>4. CASE OpenUpdates(n)
  BY <1>1, <1>4, NextFileKeepsFollowInv DEF OpenUpdates
<1>5. CASE OpenUpdatesFails(n)
  BY <1>5, NextFileKeepsFollowInv DEF OpenUpdatesFails
<1> QED
  BY <1>2, <1>3, <1>4, <1>5 DEF FileStep

LEMMA FollowingIsRecords ==
  ASSUME directory \in Directories, FromRib(directory, rib) \in Seq(Records)
  PROVE  Following \in Seq(Told)
<1>1. Following = SoFar(directory, rib, {})
  BY FollowingIs, SoFarAtEnd
<1>2. Following \in Seq(Records)
  BY <1>1, SoFarType
<1>3. Records \subseteq Told
  BY DEF Told
<1> QED
  BY <1>2, <1>3

(* A RIS message comes after all that is in the files.                     *)
LEMMA HandleKeepsFollowInv ==
  ASSUME FilesInv, FoundInv, FollowInv, NEW r \in RisMessages, Handle(r)
  PROVE  FollowInv'
<1>1. /\ pc = "live" /\ pc' = "live" /\ read' = Append(read, r)
      /\ UNCHANGED <<directory, rib, left, failed, flags>>
  BY DEF Handle, GoTo, fileVars
<1>2. r \in Readings /\ r \in Told /\ r.type = "ris"
  BY LiveAssumption DEF Readings, Told, RisMessage
<1>3. read \in Seq(Readings) /\ AllRead \in Seq(Told)
  BY DEF FoundInv, FollowInv
<1>4. AllRead' = Append(AllRead, r) /\ AllRead' \in Seq(Told)
  BY <1>1, <1>2, <1>3, AllReadAppended
<1>5. LeftInOrder'
  <2>1. UpdatesFiles(directory)' = UpdatesFiles(directory)
        /\ Followers(directory, rib)' = Followers(directory, rib)
    BY <1>1
  <2> QED
    BY <1>1, <2>1 DEF FollowInv, LeftInOrder
<1>6. Following' = Following /\ FromRib(directory, rib)' = FromRib(directory, rib)
  BY <1>1 DEF Following
<1>7. ASSUME ~failed
      PROVE  ReadInOrder' /\ RibIsNewest' /\ FromRib(directory, rib) \in Seq(Records)
  <2>1. /\ IsPrefix(Following, AllRead) /\ RibIsNewest
        /\ FromRib(directory, rib) \in Seq(Records)
    BY <1>1, <1>7 DEF FollowInv, Chosen, ReadInOrder
  <2>2. Following \in Seq(Told)
    BY <2>1, FollowingIsRecords DEF FilesInv
  <2>3. IsPrefix(Following, Append(AllRead, r))
    BY <1>2, <1>3, <2>1, <2>2, PrefixStays
  <2>4. RibIsNewest'
    BY <1>1, <2>1 DEF RibIsNewest
  <2>5. ReadInOrder'
    BY <1>1, <1>4, <1>6, <2>3 DEF ReadInOrder
  <2> QED
    BY <2>1, <2>4, <2>5
<1> QED
  BY <1>1, <1>4, <1>5, <1>6, <1>7 DEF FollowInv

-----------------------------------------------------------------------------
LEMMA NextKeepsFollowInv ==
  ASSUME FilesInv, FoundInv, FollowInv, [Next]_vars
  PROVE  FollowInv'
<1>1. CASE Initialize \/ InitializeFails \/ StartLive \/ EndMain \/ UNCHANGED vars
  <2>1. /\ UNCHANGED <<directory, rib, left, records, read, failed, flags>>
        /\ \/ pc' = pc
           \/ pc' \in Gone
           \/ pc = "start" /\ pc' = "files"
           \/ pc = "done" /\ pc' \in {"live", "ended"}
    BY <1>1 DEF Initialize, InitializeFails, StartLive, EndMain, MainStep, GoTo, vars,
                fileVars, history, Gone
  <2> QED
    BY <2>1, StayKeepsFollowInv
<1>2. CASE Insert /\ UNCHANGED flags
  <2>1. /\ UNCHANGED <<directory, rib, left, records, read, failed>>
        /\ pc' = pc \/ pc' \in Gone
    BY <1>2 DEF Insert, InsertAnnouncement, InsertWithdrawal, Discard, StopTimeReached,
                MessagePanics, fileVars, history, Gone, InsertStep
  <2> QED
    BY <1>2, <2>1, StayKeepsFollowInv
<1>3. CASE (SkipFiles \/ OpenRibFails \/ RibError \/ UpdatesError) /\ UNCHANGED flags
  <2>1. /\ UNCHANGED <<directory, rib, left, read>> /\ failed'
        /\ pc' \in {"done", "updates"}
    BY <1>3 DEF SkipFiles, OpenRibFails, RibError, UpdatesError, GoTo, fileVars
  <2> QED
    BY <2>1, FailureKeepsFollowInv
<1>4. CASE ScanEndsEarly /\ UNCHANGED flags
  <2>1. /\ UNCHANGED <<directory, rib, left, read>> /\ failed'
        /\ pc' = pc /\ pc \in {"rib", "file"}
    BY <1>4 DEF ScanEndsEarly
  <2> QED
    BY <2>1, FailureKeepsFollowInv
<1>5. CASE (ReadPeerTable \/ ReadRib \/ ReadUpdate \/ SkipRecord) /\ UNCHANGED flags
  <2>1. /\ UNCHANGED <<pc, directory, rib, left, failed, flags>> /\ pc \in {"rib", "file"}
        /\ records # <<>> /\ records' = Tail(records)
        /\ \/ read' = Append(read, Head(records))
           \/ read' = Append(read, Skipped(Head(records)))
    BY <1>5 DEF ReadPeerTable, ReadRib, ReadUpdate, SkipRecord, GoTo, ReadRecord, NextRecord
  <2> QED
    BY <2>1, RecordKeepsFollowInv
<1>6. CASE (\E n \in left : FileStep(n)) /\ UNCHANGED flags
  BY <1>6, FileStepKeepsFollowInv
<1>7. CASE (OpenRib \/ ChooseRib \/ EndOfRib \/ EndOfFile \/ EndOfFiles) /\ UNCHANGED flags
  BY <1>7, OpenRibKeepsFollowInv, ChooseRibKeepsFollowInv, EndOfRibKeepsFollowInv,
     EndOfFileKeepsFollowInv, EndOfFilesKeepsFollowInv
<1>8. CASE ReadFiles /\ UNCHANGED flags
  BY <1>3, <1>5, <1>6, <1>7, <1>8 DEF ReadFiles, FileStep
<1>9. CASE \E r \in RisMessages : Handle(r)
  BY <1>9, HandleKeepsFollowInv
<1> QED
  BY <1>1, <1>2, <1>4, <1>8, <1>9 DEF Next, Proceed

(* README.md: the given or "the newest RIB and all following updates files"*)
(* are read, all their records in order, before the first RIS message.     *)
THEOREM FollowingFilesReadAlways == Spec => []FollowingFilesRead
<1>1. FollowInv => FollowingFilesRead
  BY DEF FollowInv, FollowingFilesRead, ReadInOrder, RibIsNewest, Chosen
<1>2. Init => PeersInv /\ FilesInv /\ FoundInv /\ FollowInv
  BY InitInv, InitFoundInv, InitFollowInv
<1>3. PeersInv /\ FilesInv /\ FoundInv /\ FollowInv /\ [Next]_vars
        => PeersInv' /\ FilesInv' /\ FoundInv' /\ FollowInv'
  BY NextKeepsInv, NextKeepsFoundInv, NextKeepsFollowInv
<1> QED
  BY <1>1, <1>2, <1>3, PTL DEF Spec
=============================================================================
