---------------------------- MODULE RoutesProofs ----------------------------
(***************************************************************************)
(* Proofs about addresses and their bits, for every number of octets and   *)
(* of bits of an octet: subnets overlap in the trie just when they share   *)
(* addresses, and different subnets have different bits; and then, for all *)
(* directories, RIS messages, peers and prefixes, about what the routes in *)
(* the trie say: no origin is invented, and every route is what the last   *)
(* record that mentions it says.                                           *)
(***************************************************************************)
EXTENDS DetectorProofs, Recursion

-----------------------------------------------------------------------------
(* Powers of two, and division.                                            *)

LEMMA Pow2Values ==
  /\ Pow2 \in [Nat -> Nat \ {0}]
  /\ Pow2[0] = 1
  /\ \A n \in Nat : Pow2[n + 1] = 2 * Pow2[n]
<1> DEFINE V == Nat \ {0}
           step == [n \in Nat |-> [p \in V |-> 2 * p]]
           Rule(f) == f = [n \in Nat |-> IF n = 0 THEN 1 ELSE 2 * f[n - 1]]
<1>1. 1 \in V /\ step \in [Nat -> [V -> V]]
  OBVIOUS
<1>2. PICK f \in [Nat -> V] : Recursive(f, Nat, 1, step)
  <2> HIDE DEF step, V
  <2> QED
    BY <1>1, RecursionOverNat
<1>3. Rule(f)
  <2>1. \A n \in Nat : n # 0 => step[n - 1][f[n - 1]] = 2 * f[n - 1]
    OBVIOUS
  <2> QED
    BY <1>2, <2>1 DEF Recursive
<1>4. Pow2 = CHOOSE g : Rule(g)
  BY DEF Pow2
<1>5. Rule(Pow2)
  <2> HIDE DEF Rule
  <2> QED
    BY <1>3, <1>4
<1>6. Pow2 = [n \in Nat |-> IF n = 0 THEN 1 ELSE 2 * Pow2[n - 1]]
  BY <1>5
<1> DEFINE Positive == {n \in Nat : Pow2[n] \in Nat \ {0}}
<1>7. Nat \subseteq Positive
  <2>1. 0 \in Positive
    BY <1>6
  <2>2. ASSUME NEW n \in Nat, n \in Positive
        PROVE  n + 1 \in Positive
    <3>1. Pow2[n + 1] = 2 * Pow2[n]
      BY <1>6
    <3> QED
      BY <2>2, <3>1
  <2> HIDE DEF Positive
  <2> QED
    BY <2>1, <2>2, InductiveSet
<1>8. \A n \in Nat : Pow2[n + 1] = 2 * Pow2[n]
  BY <1>6
<1> QED
  BY <1>6, <1>7, <1>8

LEMMA Pow2OfSum ==
  ASSUME NEW m \in Nat, NEW n \in Nat
  PROVE  Pow2[m + n] = Pow2[m] * Pow2[n]
<1> DEFINE S == {k \in Nat : Pow2[m + k] = Pow2[m] * Pow2[k]}
<1>1. 0 \in S
  BY Pow2Values
<1>2. ASSUME NEW k \in Nat, k \in S
      PROVE  k + 1 \in S
  <2>1. m + k \in Nat /\ m + (k + 1) = (m + k) + 1
    OBVIOUS
  <2>2. Pow2[m + (k + 1)] = 2 * Pow2[m + k] /\ Pow2[k + 1] = 2 * Pow2[k]
    BY <2>1, Pow2Values
  <2>3. Pow2[m] \in Nat /\ Pow2[k] \in Nat
    BY Pow2Values
  <2> QED
    BY <1>2, <2>2, <2>3
<1>3. Nat \subseteq S
  <2> HIDE DEF S
  <2> QED
    BY <1>1, <1>2, InductiveSet
<1> QED
  BY <1>3

LEMMA Quotient ==
  ASSUME NEW a \in Nat, NEW b \in Nat \ {0}
  PROVE  a \div b \in Nat /\ (a \div b) * b <= a /\ a < (a \div b) * b + b
OBVIOUS

LEMMA QuotientIsUnique ==
  ASSUME NEW a \in Nat, NEW b \in Nat \ {0}, NEW q \in Nat, q * b <= a, a < q * b + b
  PROVE  a \div b = q
OBVIOUS

LEMMA QuotientTwice ==
  ASSUME NEW a \in Nat, NEW b \in Nat \ {0}, NEW c \in Nat \ {0}
  PROVE  (a \div b) \div c = a \div (b * c)
OBVIOUS

(* The quotient by b of x * (c * b) + y.                                   *)
LEMMA QuotientOfSum ==
  ASSUME NEW x \in Nat, NEW c \in Nat, NEW b \in Nat \ {0}, NEW y \in Nat
  PROVE  (x * (c * b) + y) \div b = x * c + y \div b
<1> DEFINE q == y \div b
<1>1. q \in Nat /\ q * b <= y /\ y < q * b + b
  BY Quotient
<1> HIDE DEF q
<1>2. x * (c * b) \in Nat /\ x * c \in Nat /\ (x * c + q) * b = x * (c * b) + q * b
  BY <1>1
<1>3. (x * c + q) \in Nat /\ x * (c * b) + y \in Nat
  BY <1>1, <1>2
<1>4. (x * c + q) * b <= x * (c * b) + y /\ x * (c * b) + y < (x * c + q) * b + b
  <2>1. q * b \in Nat
    BY <1>1
  <2> QED
    BY <1>1, <1>2, <2>1
<1>5. (x * (c * b) + y) \div b = x * c + q
  BY <1>3, <1>4, QuotientIsUnique
<1> QED
  BY <1>5 DEF q

-----------------------------------------------------------------------------
(* The bits of numbers, of octets, and of addresses.                       *)

(* The bit of a number with the value 2^j.                                 *)
Bit(a, j) == (a \div Pow2[j]) - 2 * (a \div Pow2[j + 1])

LEMMA HalfQuotient ==
  ASSUME NEW a \in Nat, NEW j \in Nat
  PROVE  /\ a \div Pow2[j] \in Nat /\ a \div Pow2[j + 1] \in Nat
         /\ a \div Pow2[j + 1] = (a \div Pow2[j]) \div 2
         /\ Bit(a, j) \in {0, 1}
         /\ a \div Pow2[j] = 2 * (a \div Pow2[j + 1]) + Bit(a, j)
<1>1. Pow2[j] \in Nat \ {0} /\ Pow2[j + 1] \in Nat \ {0} /\ Pow2[j + 1] = Pow2[j] * 2
  BY Pow2Values
<1>2. a \div Pow2[j] \in Nat /\ a \div Pow2[j + 1] \in Nat
  BY <1>1, Quotient
<1>3. a \div Pow2[j + 1] = (a \div Pow2[j]) \div 2
  BY <1>1, QuotientTwice
<1>4. \A q \in Nat : q - 2 * (q \div 2) \in {0, 1}
  OBVIOUS
<1> DEFINE q == a \div Pow2[j]
<1>5. q \in Nat /\ q \div 2 \in Nat /\ Bit(a, j) = q - 2 * (q \div 2)
  BY <1>2, <1>3 DEF Bit
<1>6. q = 2 * (q \div 2) + (q - 2 * (q \div 2))
  BY <1>5
<1> HIDE DEF q
<1>7. Bit(a, j) \in {0, 1} /\ q = 2 * (q \div 2) + Bit(a, j)
  BY <1>4, <1>5, <1>6
<1> QED
  BY <1>2, <1>3, <1>7 DEF q

(* What is left of x when the bits from j + 1 on and then bit j are taken  *)
(* away.                                                                   *)
LEMMA RemainderStep ==
  ASSUME NEW x \in Nat, NEW j \in Nat
  PROVE  /\ x - (x \div Pow2[j]) * Pow2[j] \in 0..(Pow2[j] - 1)
         /\ x - (x \div Pow2[j + 1]) * Pow2[j + 1]
              = x - (x \div Pow2[j]) * Pow2[j] + Bit(x, j) * Pow2[j]
<1> DEFINE p == Pow2[j]
           q == x \div Pow2[j + 1]
           b == Bit(x, j)
<1>1. p \in Nat \ {0} /\ Pow2[j + 1] = 2 * p
  BY Pow2Values
<1>2. q \in Nat /\ b \in {0, 1} /\ x \div p = 2 * q + b
  BY HalfQuotient
<1>3. (x \div p) \in Nat /\ (x \div p) * p <= x /\ x < (x \div p) * p + p
  BY <1>1, Quotient
<1> HIDE DEF p, q, b
<1>4. (x \div p) * p \in Nat
  BY <1>1, <1>3
<1>5. x - (x \div p) * p \in 0..(p - 1)
  BY <1>1, <1>3, <1>4
<1>6. q * (2 * p) + b * p = (2 * q + b) * p
  BY <1>1, <1>2
<1>7. q * (2 * p) \in Nat /\ b * p \in Nat
  BY <1>1, <1>2
<1>8. x - q * (2 * p) = x - (x \div p) * p + b * p
  BY <1>2, <1>4, <1>6, <1>7
<1> QED
  BY <1>1, <1>5, <1>8 DEF p, q, b

(* What Rest takes away of an octet are its higher bits.                   *)
LEMMA RestIsRemainder ==
  ASSUME NEW x \in 0..(Pow2[OctetBits] - 1), NEW j \in 0..OctetBits
  PROVE  Rest(x)[j] = x - (x \div Pow2[j]) * Pow2[j]
<1> DEFINE remainder == [k \in 0..OctetBits |-> x - (x \div Pow2[k]) * Pow2[k]]
           without(k, r) == IF k = OctetBits THEN x
                            ELSE IF r >= Pow2[k] THEN r - Pow2[k] ELSE r
           Rule(f) == f = [k \in 0..OctetBits |-> 
                             IF k = OctetBits THEN x
                             ELSE IF f[k + 1] >= Pow2[k] THEN f[k + 1] - Pow2[k] ELSE f[k + 1]]
<1>0. OctetBits \in Nat /\ Pow2[OctetBits] \in Nat \ {0} /\ x \in Nat
  BY MessagesAssumption, Pow2Values
<1>1. x - (x \div Pow2[OctetBits]) * Pow2[OctetBits] = x
  <2>1. x \div Pow2[OctetBits] = 0
    BY <1>0, QuotientIsUnique
  <2> QED
    BY <1>0, <2>1
<1>2. ASSUME NEW k \in 0..OctetBits, k # OctetBits
      PROVE  without(k, x - (x \div Pow2[k + 1]) * Pow2[k + 1])
               = x - (x \div Pow2[k]) * Pow2[k]
  <2> DEFINE r == x - (x \div Pow2[k]) * Pow2[k]
             p == Pow2[k]
  <2>0. k \in Nat
    BY <1>0
  <2>1. /\ r \in 0..(p - 1) /\ p \in Nat \ {0} /\ Bit(x, k) \in {0, 1}
        /\ x - (x \div Pow2[k + 1]) * Pow2[k + 1] = r + Bit(x, k) * p
    <3>1. r \in 0..(p - 1) /\ x - (x \div Pow2[k + 1]) * Pow2[k + 1] = r + Bit(x, k) * p
      BY <1>0, <2>0, RemainderStep
    <3>2. p \in Nat \ {0}
      BY <2>0, Pow2Values
    <3>3. Bit(x, k) \in {0, 1}
      BY <1>0, <2>0, HalfQuotient
    <3> QED
      BY <3>1, <3>2, <3>3
  <2> HIDE DEF r, p
  <2>2. Bit(x, k) * p \in {0, p}
    BY <2>1
  <2>3. ~(r >= p) /\ r + p >= p /\ (r + p) - p = r /\ r + 0 = r
    BY <2>1
  <2> SUFFICES without(k, r + Bit(x, k) * p) = r
    BY <2>1 DEF r
  <2>4. p = Pow2[k]
    BY DEF p
  <2> QED
    BY <1>2, <2>1, <2>2, <2>3, <2>4
<1>3. remainder = [k \in 0..OctetBits |-> without(k, remainder[k + 1])]
  <2> SUFFICES ASSUME NEW k \in 0..OctetBits
               PROVE  x - (x \div Pow2[k]) * Pow2[k] = without(k, remainder[k + 1])
    OBVIOUS
  <2>1. CASE k = OctetBits
    BY <1>1, <2>1
  <2>2. CASE k # OctetBits
    <3>1. k + 1 \in 0..OctetBits
      BY <1>0, <2>2
    <3>2. remainder[k + 1] = x - (x \div Pow2[k + 1]) * Pow2[k + 1]
      BY <3>1
    <3> HIDE DEF remainder, without
    <3> QED
      BY <1>2, <2>2, <3>2
  <2> QED
    BY <2>1, <2>2
<1>4. Rule(remainder)
  <2> HIDE DEF remainder
  <2> QED
    BY <1>3
<1>5. Rest(x) = CHOOSE f : Rule(f)
  BY DEF Rest
<1>6. Rule(Rest(x))
  <2> HIDE DEF Rule
  <2> QED
    BY <1>4, <1>5
<1>7. \A k \in 0..OctetBits : Rest(x)[k] = without(k, Rest(x)[k + 1])
  BY <1>6
<1> HIDE DEF Rule, without
<1> DEFINE S == {d \in Nat : d <= OctetBits =>
                   Rest(x)[OctetBits - d]
                     = x - (x \div Pow2[OctetBits - d]) * Pow2[OctetBits - d]}
<1>8. 0 \in S
  <2>1. Rest(x)[OctetBits] = x /\ OctetBits - 0 = OctetBits
    BY <1>0, <1>7 DEF without
  <2> QED
    BY <1>1, <2>1
<1>9. ASSUME NEW d \in Nat, d \in S
      PROVE  d + 1 \in S
  <2> SUFFICES ASSUME d + 1 <= OctetBits
               PROVE  Rest(x)[OctetBits - (d + 1)]
                        = x - (x \div Pow2[OctetBits - (d + 1)]) * Pow2[OctetBits - (d + 1)]
    OBVIOUS
  <2> DEFINE k == OctetBits - (d + 1)
  <2>1. k \in 0..OctetBits /\ k # OctetBits /\ k + 1 = OctetBits - d /\ d <= OctetBits
    BY <1>0
  <2> HIDE DEF k
  <2>2. Rest(x)[k + 1] = x - (x \div Pow2[k + 1]) * Pow2[k + 1]
    BY <1>9, <2>1
  <2>3. Rest(x)[k] = x - (x \div Pow2[k]) * Pow2[k]
    BY <1>2, <1>7, <2>1, <2>2
  <2> QED
    BY <2>3 DEF k
<1>10. Nat \subseteq S
  <2> HIDE DEF S
  <2> QED
    BY <1>8, <1>9, InductiveSet
<1>11. OctetBits - j \in Nat /\ OctetBits - j <= OctetBits /\ OctetBits - (OctetBits - j) = j
  BY <1>0
<1> QED
  BY <1>10, <1>11

(* The bits of an octet, from the one with the highest value on.           *)
LEMMA BitOfOctet ==
  ASSUME NEW x \in 0..(Pow2[OctetBits] - 1), NEW k \in 1..OctetBits
  PROVE  OctetToBits(x)[k] = Bit(x, OctetBits - k)
<1> DEFINE j == OctetBits - k
           p == Pow2[j]
           r == x - (x \div p) * p
<1>1. j \in Nat /\ j \in 0..OctetBits /\ j + 1 \in 0..OctetBits /\ OctetBits - k + 1 = j + 1
  BY MessagesAssumption
<1>2. x \in Nat /\ Pow2[OctetBits] \in Nat
  BY MessagesAssumption, Pow2Values
<1> HIDE DEF j
<1>3. p \in Nat \ {0} /\ Bit(x, j) \in {0, 1}
  BY <1>1, <1>2, Pow2Values, HalfQuotient
<1>4. r \in Nat /\ Rest(x)[j] = r /\ Rest(x)[j + 1] = r + Bit(x, j) * p
  <2>1. r \in 0..(p - 1) /\ x - (x \div Pow2[j + 1]) * Pow2[j + 1] = r + Bit(x, j) * p
    BY <1>1, <1>2, RemainderStep
  <2>2. Rest(x)[j] = r
    BY <1>1, RestIsRemainder
  <2>3. Rest(x)[j + 1] = x - (x \div Pow2[j + 1]) * Pow2[j + 1]
    BY <1>1, RestIsRemainder
  <2> HIDE DEF r, p
  <2> QED
    BY <1>3, <2>1, <2>2, <2>3
<1> HIDE DEF r, p
<1>5. Rest(x)[j + 1] = Rest(x)[j] <=> Bit(x, j) = 0
  <2>1. CASE Bit(x, j) = 0
    BY <1>3, <1>4, <2>1
  <2>2. CASE Bit(x, j) = 1
    BY <1>3, <1>4, <2>2
  <2> QED
    BY <1>3, <2>1, <2>2
<1>6. OctetToBits(x)[k] = IF Rest(x)[j + 1] = Rest(x)[j] THEN 0 ELSE 1
  BY <1>1 DEF OctetToBits, j
<1> QED
  BY <1>3, <1>5, <1>6 DEF j

(* An address is as a number what its octets add up to.                    *)
LEMMA NumberByOctets ==
  ASSUME NEW ip \in [1..Octets -> 0..(Pow2[OctetBits] - 1)]
  PROVE  \E number \in [0..Octets -> Nat] :
           /\ number[0] = 0 /\ Number(ip) = number[Octets]
           /\ \A k \in 1..Octets : number[k] = number[k - 1] * Pow2[OctetBits] + ip[k]
<1> DEFINE add(k, v) == IF k < Octets THEN v * Pow2[OctetBits] + ip[k + 1] ELSE v
           step == [k \in Nat |-> [v \in Nat |-> add(k, v)]]
           Rule(f) == f = [k \in 0..Octets |-> IF k = 0 THEN 0
                                               ELSE f[k - 1] * Pow2[OctetBits] + ip[k]]
<1>0. Octets \in Nat /\ OctetBits \in Nat /\ Pow2[OctetBits] \in Nat
  BY MessagesAssumption, Pow2Values
<1>1. step \in [Nat -> [Nat -> Nat]]
  <2> SUFFICES ASSUME NEW k \in Nat, NEW v \in Nat
               PROVE  add(k, v) \in Nat
    OBVIOUS
  <2>1. k < Octets => ip[k + 1] \in Nat
    BY <1>0
  <2>2. v * Pow2[OctetBits] \in Nat
    BY <1>0
  <2> QED
    BY <2>1, <2>2
<1>2. PICK f \in [0..Octets -> Nat] : Recursive(f, 0..Octets, 0, step)
  <2> HIDE DEF step
  <2> QED
    BY <1>0, <1>1, RecursionUpTo
<1>3. Rule(f)
  <2>1. \A k \in 0..Octets : k # 0 =>
          step[k - 1][f[k - 1]] = f[k - 1] * Pow2[OctetBits] + ip[k]
    <3> SUFFICES ASSUME NEW k \in 0..Octets, k # 0
                 PROVE  step[k - 1][f[k - 1]] = f[k - 1] * Pow2[OctetBits] + ip[k]
      OBVIOUS
    <3>1. k - 1 \in Nat /\ k - 1 \in 0..Octets /\ k - 1 < Octets /\ (k - 1) + 1 = k
      BY <1>0
    <3>2. f[k - 1] \in Nat
      BY <3>1
    <3>3. step[k - 1][f[k - 1]] = add(k - 1, f[k - 1])
      BY <3>1, <3>2
    <3> QED
      BY <3>1, <3>3
  <2> HIDE DEF step
  <2> QED
    BY <1>2, <2>1 DEF Recursive
<1>4. \E g : /\ Rule(g) /\ Number(ip) = g[Octets]
  <2> DEFINE g == CHOOSE h : Rule(h)
  <2>1. Number(ip) = g[Octets]
    BY DEF Number
  <2> HIDE DEF Rule
  <2>2. Rule(g)
    BY <1>3
  <2> QED
    BY <2>1, <2>2
<1>5. PICK g : Rule(g) /\ Number(ip) = g[Octets]
  BY <1>4
<1>6. /\ g = [k \in 0..Octets |-> g[k]] /\ g[0] = 0
      /\ \A k \in 1..Octets : g[k] = g[k - 1] * Pow2[OctetBits] + ip[k]
  <2> DEFINE body(k) == IF k = 0 THEN 0 ELSE g[k - 1] * Pow2[OctetBits] + ip[k]
  <2>1. g = [k \in 0..Octets |-> body(k)]
    BY <1>5
  <2>2. body(0) = 0 /\ \A k \in 1..Octets : body(k) = g[k - 1] * Pow2[OctetBits] + ip[k]
    OBVIOUS
  <2>3. 0 \in 0..Octets /\ \A k \in 1..Octets : k \in 0..Octets
    BY <1>0
  <2> HIDE DEF body, Rule
  <2>4. g = [k \in 0..Octets |-> g[k]] /\ \A k \in 0..Octets : g[k] = body(k)
    BY <2>1
  <2> QED
    BY <2>2, <2>3, <2>4
<1> DEFINE S == {n \in Nat : n <= Octets => g[n] \in Nat}
<1>7. 0 \in S
  BY <1>6
<1>8. ASSUME NEW n \in Nat, n \in S
      PROVE  n + 1 \in S
  <2> SUFFICES ASSUME n + 1 <= Octets
               PROVE  g[n + 1] \in Nat
    OBVIOUS
  <2>1. n + 1 \in 1..Octets /\ (n + 1) - 1 = n /\ g[n] \in Nat
    BY <1>0, <1>8
  <2>2. g[n + 1] = g[n] * Pow2[OctetBits] + ip[n + 1] /\ ip[n + 1] \in Nat
    <3>1. ip[n + 1] \in 0..(Pow2[OctetBits] - 1)
      BY <2>1
    <3>2. ip[n + 1] \in Nat
      BY <1>0, <3>1
    <3>3. g[n + 1] = g[(n + 1) - 1] * Pow2[OctetBits] + ip[n + 1]
      BY <1>6, <2>1
    <3> QED
      BY <2>1, <3>2, <3>3
  <2>3. g[n] * Pow2[OctetBits] \in Nat
    BY <1>0, <2>1
  <2> QED
    BY <2>2, <2>3
<1>9. Nat \subseteq S
  <2> HIDE DEF S
  <2> QED
    BY <1>7, <1>8, InductiveSet
<1>10. g \in [0..Octets -> Nat]
  BY <1>0, <1>6, <1>9
<1> QED
  BY <1>5, <1>6, <1>10

(* A leading octet, and the octets up to it, as quotients.                 *)
LEMMA LeadingOctets ==
  ASSUME NEW ip \in [1..Octets -> 0..(Pow2[OctetBits] - 1)],
         NEW number \in [0..Octets -> Nat],
         number[0] = 0,
         \A k \in 1..Octets : number[k] = number[k - 1] * Pow2[OctetBits] + ip[k]
  PROVE  \A k \in 0..Octets :
           number[k] = number[Octets] \div Pow2[OctetBits * (Octets - k)]
<1>0. Octets \in Nat /\ OctetBits \in Nat /\ Pow2[OctetBits] \in Nat \ {0}
  BY MessagesAssumption, Pow2Values
<1> DEFINE at(d) == number[Octets - d]
           S == {d \in Nat : d <= Octets =>
                   at(d) = number[Octets] \div Pow2[OctetBits * d]}
<1>1. number[Octets] \in Nat
  BY <1>0
<1>2. 0 \in S
  <2>1. OctetBits * 0 = 0 /\ Octets - 0 = Octets
    BY <1>0
  <2>2. number[Octets] \div 1 = number[Octets]
    BY <1>1
  <2> QED
    BY <2>1, <2>2, Pow2Values
<1>3. ASSUME NEW d \in Nat, d \in S
      PROVE  d + 1 \in S
  <2> SUFFICES ASSUME d + 1 <= Octets
               PROVE  at(d + 1) = number[Octets] \div Pow2[OctetBits * (d + 1)]
    OBVIOUS
  <2> DEFINE k == Octets - d
             p == Pow2[OctetBits]
  <2>1. k \in 1..Octets /\ Octets - (d + 1) = k - 1 /\ k - 1 \in 0..Octets /\ k \in 0..Octets
    BY <1>0
  <2> HIDE DEF k
  <2>2. number[k] = number[k - 1] * p + ip[k]
    BY <2>1
  <2>3. number[k - 1] \in Nat /\ number[k] \in Nat /\ ip[k] \in 0..(p - 1)
    BY <2>1
  <2>4. p \in Nat \ {0}
    BY <1>0
  <2> HIDE DEF p
  <2>5. number[k] \div p = number[k - 1]
    <3>1. number[k - 1] * p \in Nat
      BY <2>3, <2>4
    <3>2. number[k - 1] * p <= number[k] /\ number[k] < number[k - 1] * p + p
      BY <2>2, <2>3, <2>4, <3>1
    <3> QED
      BY <2>3, <2>4, <3>2, QuotientIsUnique
  <2>6. number[k] = number[Octets] \div Pow2[OctetBits * d]
    <3>1. d <= Octets
      BY <1>0
    <3> QED
      BY <1>3, <3>1 DEF k
  <2>7. /\ OctetBits * d \in Nat /\ OctetBits * (d + 1) = OctetBits * d + OctetBits
    BY <1>0
  <2>8. Pow2[OctetBits * (d + 1)] = Pow2[OctetBits * d] * p /\ Pow2[OctetBits * d] \in Nat \ {0}
    BY <1>0, <2>7, Pow2OfSum, Pow2Values DEF p
  <2>9. (number[Octets] \div Pow2[OctetBits * d]) \div p
          = number[Octets] \div (Pow2[OctetBits * d] * p)
    BY <1>1, <2>4, <2>8, QuotientTwice
  <2> QED
    BY <2>1, <2>5, <2>6, <2>8, <2>9
<1>4. Nat \subseteq S
  <2> HIDE DEF S
  <2> QED
    BY <1>2, <1>3, InductiveSet
<1>5. ASSUME NEW k \in 0..Octets
      PROVE  number[k] = number[Octets] \div Pow2[OctetBits * (Octets - k)]
  <2>1. Octets - k \in Nat /\ Octets - k <= Octets /\ Octets - (Octets - k) = k
    BY <1>0
  <2> QED
    BY <1>4, <2>1
<1> QED
  BY <1>5

(* The bit of a quotient by a power of two.                                *)
LEMMA BitOfQuotient ==
  ASSUME NEW a \in Nat, NEW m \in Nat, NEW j \in Nat
  PROVE  Bit(a \div Pow2[m], j) = Bit(a, m + j)
<1>1. Pow2[m] \in Nat \ {0} /\ Pow2[j] \in Nat \ {0} /\ Pow2[j + 1] \in Nat \ {0}
  BY Pow2Values
<1>2. (a \div Pow2[m]) \div Pow2[j] = a \div Pow2[m + j]
  <2>1. Pow2[m + j] = Pow2[m] * Pow2[j]
    BY Pow2OfSum
  <2> QED
    BY <1>1, <2>1, QuotientTwice
<1>3. (a \div Pow2[m]) \div Pow2[j + 1] = a \div Pow2[(m + j) + 1]
  <2>1. Pow2[m + (j + 1)] = Pow2[m] * Pow2[j + 1]
    BY Pow2OfSum
  <2>2. m + (j + 1) = (m + j) + 1
    OBVIOUS
  <2>3. Pow2[(m + j) + 1] = Pow2[m] * Pow2[j + 1]
    BY <2>1, <2>2
  <2> QED
    BY <1>1, <2>3, QuotientTwice
<1> QED
  BY <1>2, <1>3 DEF Bit

(* The lower bits of a sum are those of the lower summand.                 *)
LEMMA BitOfSum ==
  ASSUME NEW n \in Nat, NEW j \in 0..(n - 1), NEW x \in Nat, NEW y \in Nat
  PROVE  Bit(x * Pow2[n] + y, j) = Bit(y, j)
<1> DEFINE c == Pow2[n - (j + 1)]
           b == Pow2[j]
<1>1. j \in Nat /\ n - (j + 1) \in Nat /\ (n - (j + 1)) + (j + 1) = n
  OBVIOUS
<1>2. c \in Nat \ {0} /\ b \in Nat \ {0} /\ Pow2[j + 1] = 2 * b
  BY <1>1, Pow2Values
<1>3. Pow2[n] = c * Pow2[j + 1]
  BY <1>1, Pow2OfSum
<1> HIDE DEF c, b
<1>4. Pow2[n] = (2 * c) * b
  BY <1>2, <1>3
<1>5. (x * Pow2[n] + y) \div Pow2[j + 1] = x * c + y \div Pow2[j + 1]
  <2>1. Pow2[j + 1] \in Nat \ {0}
    BY <1>2
  <2> QED
    BY <1>2, <1>3, <2>1, QuotientOfSum
<1>6. (x * Pow2[n] + y) \div b = x * (2 * c) + y \div b
  <2>1. 2 * c \in Nat
    BY <1>2
  <2> QED
    BY <1>2, <1>4, <2>1, QuotientOfSum
<1>7. y \div b \in Nat /\ y \div Pow2[j + 1] \in Nat /\ x * c \in Nat
      /\ x * (2 * c) = 2 * (x * c)
  BY <1>2, Quotient
<1> QED
  BY <1>5, <1>6, <1>7 DEF Bit, b

(* The i-th bit of an address, counted from the one with the highest value.*)
LEMMA BitOfAddress ==
  ASSUME NEW s \in IPv4Prefix, NEW i \in 1..s.length
  PROVE  ConvertIPtoBits(s)[i] = Bit(Number(s.ip), AddressBits - i)
<1> DEFINE ip == s.ip
           p == Pow2[OctetBits]
           k == ((i - 1) \div OctetBits) + 1
           j == ((i - 1) % OctetBits) + 1
<1>0. Octets \in Nat \ {0} /\ OctetBits \in Nat \ {0} /\ p \in Nat \ {0}
  BY MessagesAssumption, Pow2Values
<1>1. ip \in [1..Octets -> 0..(p - 1)] /\ s.length \in 0..AddressBits
  BY DEF IPv4Prefix
<1>2. AddressBits \in Nat /\ AddressBits = Octets * OctetBits /\ i \in 1..AddressBits
  <2>1. AddressBits \in Nat
    BY <1>0 DEF AddressBits
  <2> QED
    BY <1>1, <2>1 DEF AddressBits
<1>3. PICK number \in [0..Octets -> Nat] :
        /\ number[0] = 0 /\ Number(ip) = number[Octets]
        /\ \A n \in 1..Octets : number[n] = number[n - 1] * p + ip[n]
  BY <1>1, NumberByOctets
<1> HIDE DEF ip
<1>4. i - 1 \in Nat /\ i - 1 < Octets * OctetBits
  BY <1>2
<1> DEFINE q == (i - 1) \div OctetBits
           r == (i - 1) % OctetBits
<1>5. q \in Nat /\ r \in 0..(OctetBits - 1) /\ i - 1 = q * OctetBits + r
  BY <1>0, <1>4
<1> HIDE DEF q, r
<1>6. q * OctetBits \in Nat /\ OctetBits * Octets \in Nat
  BY <1>0, <1>5
<1>7. q < Octets
  <2> SUFFICES ASSUME q >= Octets
               PROVE  FALSE
    BY <1>0, <1>5
  <2>1. q * OctetBits >= Octets * OctetBits
    BY <1>0, <1>5
  <2> QED
    BY <1>0, <1>4, <1>5, <1>6, <2>1
<1>8. k = q + 1 /\ j = r + 1 /\ k \in 1..Octets /\ j \in 1..OctetBits
  BY <1>0, <1>5, <1>7 DEF q, r
<1> DEFINE e == OctetBits - j
           m == OctetBits * (Octets - k)
<1>9. e \in 0..(OctetBits - 1) /\ m \in Nat /\ Octets - k \in Nat
  BY <1>0, <1>8
<1>10. m + e = AddressBits - i
  <2>1. OctetBits * (Octets - k) = Octets * OctetBits - (q * OctetBits + OctetBits)
    BY <1>0, <1>5, <1>8
  <2>2. i = q * OctetBits + r + 1
    BY <1>2, <1>5, <1>6
  <2>3. e = OctetBits - (r + 1) /\ m = OctetBits * (Octets - k)
    BY <1>8
  <2> DEFINE x == q * OctetBits
             t == Octets * OctetBits
  <2>4. x \in Nat /\ t \in Nat /\ AddressBits = t
    BY <1>0, <1>2, <1>6
  <2>5. m = t - (x + OctetBits) /\ i = x + r + 1
    BY <2>1, <2>2, <2>3
  <2> HIDE DEF x, t, e, m
  <2> QED
    BY <1>0, <1>5, <2>3, <2>4, <2>5
<1> HIDE DEF e, m, k, j
<1>11. OctetToBits(ip[k])[j] = Bit(ip[k], e)
  <2>1. ip[k] \in 0..(p - 1)
    BY <1>1, <1>8 DEF ip
  <2> QED
    BY <1>8, <2>1, BitOfOctet DEF e
<1>12. Bit(ip[k], e) = Bit(number[k], e)
  <2>1. ip[k] \in Nat /\ k - 1 \in 0..Octets
    BY <1>0, <1>1, <1>8 DEF ip
  <2>2. number[k - 1] \in Nat
    BY <2>1
  <2>3. number[k] = number[k - 1] * p + ip[k]
    BY <1>3, <1>8
  <2>4. Bit(number[k - 1] * p + ip[k], e) = Bit(ip[k], e)
    BY <1>0, <1>9, <2>1, <2>2, BitOfSum
  <2> QED
    BY <2>3, <2>4
<1>13. number[k] = number[Octets] \div Pow2[m]
  <2>1. ip \in [1..Octets -> 0..(Pow2[OctetBits] - 1)] /\ k \in 0..Octets
    BY <1>0, <1>1, <1>8 DEF ip
  <2> QED
    BY <1>3, <2>1, LeadingOctets DEF m
<1>14. Bit(number[k], e) = Bit(number[Octets], m + e)
  <2>1. number[Octets] \in Nat /\ e \in Nat
    BY <1>0, <1>9
  <2>2. Bit(number[Octets] \div Pow2[m], e) = Bit(number[Octets], m + e)
    BY <1>9, <2>1, BitOfQuotient
  <2> QED
    BY <1>13, <2>2
<1>15. ConvertIPtoBits(s)[i] = OctetToBits(ip[k])[j]
  BY DEF ConvertIPtoBits, ip, k, j
<1> QED
  BY <1>3, <1>10, <1>11, <1>12, <1>14, <1>15 DEF ip

(* As a number, an address has no more bits.                               *)
LEMMA NumberBound ==
  ASSUME NEW ip \in [1..Octets -> 0..(Pow2[OctetBits] - 1)]
  PROVE  Number(ip) \in 0..(Pow2[AddressBits] - 1)
<1>0. Octets \in Nat \ {0} /\ OctetBits \in Nat \ {0} /\ Pow2[OctetBits] \in Nat \ {0}
  BY MessagesAssumption, Pow2Values
<1>1. PICK number \in [0..Octets -> Nat] :
        /\ number[0] = 0 /\ Number(ip) = number[Octets]
        /\ \A n \in 1..Octets : number[n] = number[n - 1] * Pow2[OctetBits] + ip[n]
  BY NumberByOctets
<1>2. number[0] = number[Octets] \div Pow2[OctetBits * (Octets - 0)]
  <2>1. 0 \in 0..Octets
    BY <1>0
  <2>2. \A k \in 0..Octets : number[k] = number[Octets] \div Pow2[OctetBits * (Octets - k)]
    BY <1>1, LeadingOctets
  <2> QED
    BY <2>1, <2>2
<1>3. OctetBits * (Octets - 0) = AddressBits /\ AddressBits \in Nat
  BY <1>0 DEF AddressBits
<1>4. number[Octets] \in Nat /\ Pow2[AddressBits] \in Nat \ {0}
  <2>1. Octets \in 0..Octets
    BY <1>0
  <2> QED
    BY <1>3, <2>1, Pow2Values
<1>5. number[Octets] < 0 * Pow2[AddressBits] + Pow2[AddressBits]
  BY <1>1, <1>2, <1>3, <1>4, Quotient
<1> QED
  BY <1>1, <1>4, <1>5

(* Numbers begin with the same l bits just when their quotients agree.     *)
LEMMA SameBeginning ==
  ASSUME NEW n \in Nat, NEW a \in 0..(Pow2[n] - 1), NEW b \in 0..(Pow2[n] - 1), NEW l \in 0..n
  PROVE  (\A i \in 1..l : Bit(a, n - i) = Bit(b, n - i))
           <=> a \div Pow2[n - l] = b \div Pow2[n - l]
<1>0. a \in Nat /\ b \in Nat /\ Pow2[n] \in Nat \ {0}
  BY Pow2Values
<1> DEFINE agree(k) == \A i \in 1..k : Bit(a, n - i) = Bit(b, n - i)
           same(k) == a \div Pow2[n - k] = b \div Pow2[n - k]
           S == {k \in Nat : k <= n => (agree(k) <=> same(k))}
<1>1. 0 \in S
  <2>1. a \div Pow2[n] = 0 /\ b \div Pow2[n] = 0
    BY <1>0, QuotientIsUnique
  <2>2. n - 0 = n /\ agree(0)
    OBVIOUS
  <2> QED
    BY <2>1, <2>2
<1>2. ASSUME NEW k \in Nat, k \in S
      PROVE  k + 1 \in S
  <2> SUFFICES ASSUME k + 1 <= n
               PROVE  agree(k + 1) <=> same(k + 1)
    OBVIOUS
  <2> DEFINE j == n - (k + 1)
  <2>1. j \in Nat /\ j + 1 = n - k
    OBVIOUS
  <2>2. agree(k) <=> same(k)
    BY <1>2
  <2>3. agree(k + 1) <=> agree(k) /\ Bit(a, j) = Bit(b, j)
    <3>1. \A i : i \in 1..(k + 1) <=> i \in 1..k \/ i = k + 1
      OBVIOUS
    <3> QED
      BY <3>1
  <2> HIDE DEF agree, j
  <2>4. /\ a \div Pow2[j] \in Nat /\ a \div Pow2[j + 1] \in Nat
        /\ a \div Pow2[j + 1] = (a \div Pow2[j]) \div 2
        /\ Bit(a, j) \in {0, 1}
        /\ a \div Pow2[j] = 2 * (a \div Pow2[j + 1]) + Bit(a, j)
    BY <1>0, <2>1, HalfQuotient
  <2>5. /\ b \div Pow2[j] \in Nat /\ b \div Pow2[j + 1] \in Nat
        /\ b \div Pow2[j + 1] = (b \div Pow2[j]) \div 2
        /\ Bit(b, j) \in {0, 1}
        /\ b \div Pow2[j] = 2 * (b \div Pow2[j + 1]) + Bit(b, j)
    BY <1>0, <2>1, HalfQuotient
  <2>6. same(k) <=> a \div Pow2[j + 1] = b \div Pow2[j + 1]
    BY <2>1
  <2>7. same(k + 1) <=> a \div Pow2[j] = b \div Pow2[j]
    BY DEF j
  <2> HIDE DEF same
  <2>8. a \div Pow2[j] = b \div Pow2[j]
          <=> a \div Pow2[j + 1] = b \div Pow2[j + 1] /\ Bit(a, j) = Bit(b, j)
    BY <2>4, <2>5
  <2> QED
    BY <2>2, <2>3, <2>6, <2>7, <2>8
<1>3. Nat \subseteq S
  <2> HIDE DEF S
  <2> QED
    BY <1>1, <1>2, InductiveSet
<1> QED
  BY <1>3

-----------------------------------------------------------------------------
(* Subnets *)

(* The bits of one prefix are the beginning of another's, if it is not     *)
(* longer and their addresses agree up to its length.                      *)
LEMMA PrefixByQuotient ==
  ASSUME NEW s \in IPv4Prefix, NEW t \in IPv4Prefix
  PROVE  IsPrefix(ConvertIPtoBits(s), ConvertIPtoBits(t))
           <=> /\ s.length <= t.length
               /\ Number(s.ip) \div Pow2[AddressBits - s.length]
                    = Number(t.ip) \div Pow2[AddressBits - s.length]
<1> DEFINE x == ConvertIPtoBits(s)
           y == ConvertIPtoBits(t)
           a == Number(s.ip)
           b == Number(t.ip)
           l == s.length
<1>0. AddressBits \in Nat
  BY MessagesAssumption DEF AddressBits
<1>1. /\ l \in 0..AddressBits /\ t.length \in 0..AddressBits
      /\ a \in 0..(Pow2[AddressBits] - 1) /\ b \in 0..(Pow2[AddressBits] - 1)
  BY NumberBound DEF IPv4Prefix
<1>2. /\ \A i \in 1..l : x[i] = Bit(a, AddressBits - i)
      /\ \A i \in 1..t.length : y[i] = Bit(b, AddressBits - i)
  BY BitOfAddress
<1>3. /\ Len(x) = l /\ Len(y) = t.length /\ l \in Nat /\ t.length \in Nat
      /\ DOMAIN x = 1..l /\ DOMAIN y = 1..t.length
  BY <1>0, <1>1 DEF ConvertIPtoBits
<1>4. ASSUME l <= t.length
      PROVE  SubSeq(x, 1, l) = SubSeq(y, 1, l) <=> \A i \in 1..l : x[i] = y[i]
  <2>1. /\ SubSeq(x, 1, l) = [i \in 1..l |-> x[i]]
        /\ SubSeq(y, 1, l) = [i \in 1..l |-> y[i]]
    <3> DEFINE values == {x[i] : i \in 1..l} \cup {y[i] : i \in 1..l}
               u == SubSeq(x, 1, l)
               v == SubSeq(y, 1, l)
    <3>1. l \in Int /\ l - 1 + 1 = l /\ (IF 1 <= l THEN l - 1 + 1 ELSE 0) = l
          /\ \A i \in 1..l : x[i] \in values /\ y[i] \in values /\ 1 + i - 1 = i
      BY <1>3
    <3> HIDE DEF values, x, y, l
    <3>3. u \in Seq(values) /\ Len(u) = l /\ \A i \in 1..l : u[i] = x[i]
      <4>1. /\ u \in Seq(values) /\ Len(u) = IF 1 <= l THEN l - 1 + 1 ELSE 0
            /\ \A i \in 1..(l - 1 + 1) : u[i] = x[1 + i - 1]
        BY <3>1, SubSeqProperties
      <4> QED
        BY <3>1, <4>1
    <3>4. v \in Seq(values) /\ Len(v) = l /\ \A i \in 1..l : v[i] = y[i]
      <4>1. /\ v \in Seq(values) /\ Len(v) = IF 1 <= l THEN l - 1 + 1 ELSE 0
            /\ \A i \in 1..(l - 1 + 1) : v[i] = y[1 + i - 1]
        BY <3>1, SubSeqProperties
      <4> QED
        BY <3>1, <4>1
    <3> HIDE DEF u, v
    <3>5. u = [i \in 1..l |-> u[i]] /\ v = [i \in 1..l |-> v[i]]
      BY <1>3, <3>3, <3>4
    <3>6. u = [i \in 1..l |-> x[i]] /\ v = [i \in 1..l |-> y[i]]
      BY <3>3, <3>4, <3>5
    <3> QED
      BY <3>6 DEF u, v
  <2> QED
    BY <2>1
<1> HIDE DEF x, y, a, b, l
<1>5. IsPrefix(x, y) <=> l <= t.length /\ SubSeq(x, 1, l) = SubSeq(y, 1, l)
  BY <1>3 DEF IsPrefix
<1>6. (\A i \in 1..l : Bit(a, AddressBits - i) = Bit(b, AddressBits - i))
        <=> a \div Pow2[AddressBits - l] = b \div Pow2[AddressBits - l]
  BY <1>0, <1>1, SameBeginning
<1>7. l <= t.length => \A i \in 1..l : i \in 1..t.length
  BY <1>3
<1>8. l <= t.length => ((\A i \in 1..l : x[i] = y[i])
                          <=> \A i \in 1..l : Bit(a, AddressBits - i) = Bit(b, AddressBits - i))
  BY <1>2, <1>7
<1>9. IsPrefix(x, y) <=> /\ l <= t.length
                         /\ a \div Pow2[AddressBits - l] = b \div Pow2[AddressBits - l]
  BY <1>4, <1>5, <1>6, <1>8
<1> QED
  BY <1>9 DEF x, y, a, b, l

(* A prefix contains the addresses of a shorter one's just when it agrees  *)
(* with it up to the shorter length.                                       *)
LEMMA SharedByQuotient ==
  ASSUME NEW s \in IPv4Prefix, NEW t \in IPv4Prefix, s.length <= t.length
  PROVE  Addresses(s) \cap Addresses(t) # {}
           <=> Number(s.ip) \div Pow2[AddressBits - s.length]
                 = Number(t.ip) \div Pow2[AddressBits - s.length]
<1> DEFINE n == AddressBits
           a == Number(s.ip)
           b == Number(t.ip)
           large == Pow2[n - s.length]
           small == Pow2[n - t.length]
           times == Pow2[t.length - s.length]
<1>0. n \in Nat
  BY MessagesAssumption DEF AddressBits
<1>1. /\ s.length \in 0..n /\ t.length \in 0..n
      /\ a \in 0..(Pow2[n] - 1) /\ b \in 0..(Pow2[n] - 1)
  BY NumberBound DEF IPv4Prefix
<1> HIDE DEF n
<1>2. n - s.length \in Nat /\ n - t.length \in Nat /\ t.length - s.length \in Nat
      /\ n - s.length = (n - t.length) + (t.length - s.length)
  BY <1>0, <1>1
<1>3. large \in Nat \ {0} /\ small \in Nat \ {0} /\ times \in Nat \ {0}
  BY <1>2, Pow2Values
<1>4. large = small * times
  <2>1. Pow2[(n - t.length) + (t.length - s.length)] = small * times
    BY <1>2, Pow2OfSum
  <2> QED
    BY <1>2, <2>1
<1>5. /\ Addresses(s) = {c \in 0..(Pow2[n] - 1) : c \div large = a \div large}
      /\ Addresses(t) = {c \in 0..(Pow2[n] - 1) : c \div small = b \div small}
  BY DEF Addresses, n
<1> HIDE DEF large, small, times, a, b
<1>6. Pow2[n] \in Nat
  BY <1>0, Pow2Values
<1>7. ASSUME a \div large = b \div large
      PROVE  Addresses(s) \cap Addresses(t) # {}
  BY <1>1, <1>5, <1>7
<1>8. ASSUME Addresses(s) \cap Addresses(t) # {}
      PROVE  a \div large = b \div large
  <2>1. PICK c \in 0..(Pow2[n] - 1) : c \div large = a \div large /\ c \div small = b \div small
    BY <1>5, <1>8
  <2>2. c \in Nat /\ b \in Nat
    BY <1>1, <1>6
  <2>3. (c \div small) \div times = c \div large /\ (b \div small) \div times = b \div large
    BY <1>3, <1>4, <2>2, QuotientTwice
  <2> QED
    BY <2>1, <2>3
<1> QED
  BY <1>7, <1>8 DEF a, b, large, n

(* Subnets overlap in the trie just when they share addresses, in every    *)
(* state: it is the conversion of addresses to bits that sees to it.       *)
LEMMA SharedOverlap ==
  ASSUME NEW s \in IPv4, NEW t \in IPv4
  PROVE  IsPrefix(Bits[s], Bits[t]) \/ IsPrefix(Bits[t], Bits[s])
           <=> Addresses(s) \cap Addresses(t) # {}
<1>1. s \in IPv4Prefix /\ t \in IPv4Prefix
  BY MessagesAssumption
<1>2. Bits[s] = ConvertIPtoBits(s) /\ Bits[t] = ConvertIPtoBits(t)
  BY DEF Bits, IPNets
<1>3. AddressBits \in Nat /\ s.length \in 0..AddressBits /\ t.length \in 0..AddressBits
  BY <1>1, MessagesAssumption DEF IPv4Prefix, AddressBits
<1>4. ASSUME NEW u \in IPv4Prefix, NEW v \in IPv4Prefix, u.length <= v.length,
             u.length \in Nat, v.length \in Nat
      PROVE  IsPrefix(ConvertIPtoBits(u), ConvertIPtoBits(v))
               \/ IsPrefix(ConvertIPtoBits(v), ConvertIPtoBits(u))
               <=> Addresses(u) \cap Addresses(v) # {}
  <2> DEFINE same(l) == Number(u.ip) \div Pow2[AddressBits - l]
                          = Number(v.ip) \div Pow2[AddressBits - l]
  <2>1. IsPrefix(ConvertIPtoBits(u), ConvertIPtoBits(v)) <=> same(u.length)
    BY <1>4, PrefixByQuotient
  <2>2. IsPrefix(ConvertIPtoBits(v), ConvertIPtoBits(u))
          <=> v.length <= u.length /\ same(v.length)
    BY PrefixByQuotient
  <2>3. v.length <= u.length => v.length = u.length
    BY <1>4
  <2>4. Addresses(u) \cap Addresses(v) # {} <=> same(u.length)
    BY <1>4, SharedByQuotient
  <2> HIDE DEF same
  <2> QED
    BY <2>1, <2>2, <2>3, <2>4
<1>5. CASE s.length <= t.length
  BY <1>1, <1>2, <1>3, <1>4, <1>5
<1>6. CASE t.length <= s.length
  <2>1. Addresses(s) \cap Addresses(t) = Addresses(t) \cap Addresses(s)
    OBVIOUS
  <2>2. IsPrefix(ConvertIPtoBits(t), ConvertIPtoBits(s))
          \/ IsPrefix(ConvertIPtoBits(s), ConvertIPtoBits(t))
          <=> Addresses(t) \cap Addresses(s) # {}
    BY <1>1, <1>3, <1>4, <1>6
  <2> QED
    BY <1>2, <2>1, <2>2
<1> QED
  BY <1>3, <1>5, <1>6

(* Addresses with the same number are the same.                            *)
LEMMA NumberIsInjective ==
  ASSUME NEW x \in [1..Octets -> 0..(Pow2[OctetBits] - 1)],
         NEW y \in [1..Octets -> 0..(Pow2[OctetBits] - 1)],
         Number(x) = Number(y)
  PROVE  x = y
<1> DEFINE p == Pow2[OctetBits]
<1>0. Octets \in Nat \ {0} /\ OctetBits \in Nat \ {0} /\ p \in Nat \ {0}
  BY MessagesAssumption, Pow2Values
<1>1. PICK f \in [0..Octets -> Nat] :
        /\ f[0] = 0 /\ Number(x) = f[Octets]
        /\ \A n \in 1..Octets : f[n] = f[n - 1] * p + x[n]
  BY NumberByOctets
<1>2. PICK g \in [0..Octets -> Nat] :
        /\ g[0] = 0 /\ Number(y) = g[Octets]
        /\ \A n \in 1..Octets : g[n] = g[n - 1] * p + y[n]
  BY NumberByOctets
<1>3. \A k \in 0..Octets : f[k] = g[k]
  <2>1. \A k \in 0..Octets : f[k] = f[Octets] \div Pow2[OctetBits * (Octets - k)]
    BY <1>1, LeadingOctets
  <2>2. \A k \in 0..Octets : g[k] = g[Octets] \div Pow2[OctetBits * (Octets - k)]
    BY <1>2, LeadingOctets
  <2> QED
    BY <1>1, <1>2, <2>1, <2>2
<1>4. ASSUME NEW k \in 1..Octets
      PROVE  x[k] = y[k]
  <2>1. k - 1 \in 0..Octets /\ k \in 0..Octets
    BY <1>0
  <2>2. f[k - 1] = g[k - 1] /\ f[k] = g[k] /\ f[k - 1] \in Nat
    BY <1>3, <2>1
  <2>3. f[k] = f[k - 1] * p + x[k] /\ g[k] = g[k - 1] * p + y[k]
    BY <1>1, <1>2
  <2>4. x[k] \in 0..(p - 1) /\ y[k] \in 0..(p - 1)
    OBVIOUS
  <2>5. x[k] \in Nat /\ y[k] \in Nat
    BY <1>0, <2>4
  <2> DEFINE w == f[k - 1] * p
  <2>6. w \in Nat
    BY <1>0, <2>2
  <2>7. w + x[k] = w + y[k]
    BY <2>2, <2>3
  <2> HIDE DEF w
  <2> QED
    BY <2>5, <2>6, <2>7
<1>5. x = [k \in 1..Octets |-> x[k]] /\ y = [k \in 1..Octets |-> y[k]]
  OBVIOUS
<1> QED
  BY <1>4, <1>5

(* Two prefixes with the same bits are the same: a node of the trie stands *)
(* for one subnet.                                                         *)
LEMMA BitsAreInjective ==
  ASSUME NEW s \in IPv4, NEW t \in IPv4, Bits[s] = Bits[t]
  PROVE  s = t
<1>1. s \in IPv4Prefix /\ t \in IPv4Prefix
  BY MessagesAssumption
<1>2. Bits[s] = ConvertIPtoBits(s) /\ Bits[t] = ConvertIPtoBits(t)
  BY DEF Bits, IPNets
<1>3. AddressBits \in Nat /\ s.length \in 0..AddressBits /\ t.length \in 0..AddressBits
  BY <1>1, MessagesAssumption DEF IPv4Prefix, AddressBits
<1>4. Len(ConvertIPtoBits(s)) = s.length /\ Len(ConvertIPtoBits(t)) = t.length
  BY <1>3 DEF ConvertIPtoBits
<1>5. s.length = t.length
  BY <1>2, <1>4
<1> DEFINE p == Pow2[AddressBits - s.length]
           a == Number(s.ip)
           b == Number(t.ip)
<1>6. IsPrefix(ConvertIPtoBits(s), ConvertIPtoBits(t))
  <2>1. \A x : Len(x) = s.length => IsPrefix(x, x)
    BY <1>3 DEF IsPrefix
  <2> QED
    BY <1>2, <1>4, <2>1
<1>7. a \div p = b \div p
  BY <1>1, <1>6, PrefixByQuotient
<1>8. a % p = 0 /\ b % p = 0
  BY <1>1, <1>5 DEF IPv4Prefix
<1>9. AddressBits - s.length \in Nat
  BY <1>3
<1>10. p \in Nat \ {0} /\ a \in Nat /\ b \in Nat
  <2>1. Pow2[AddressBits] \in Nat
    BY <1>3, Pow2Values
  <2>2. a \in 0..(Pow2[AddressBits] - 1) /\ b \in 0..(Pow2[AddressBits] - 1)
    BY <1>1, NumberBound DEF IPv4Prefix
  <2> QED
    BY <1>9, <2>1, <2>2, Pow2Values
<1>11. a = b
  <2> HIDE DEF a, b, p
  <2> QED
    BY <1>7, <1>8, <1>10
<1>12. s.ip = t.ip
  BY <1>1, <1>11, NumberIsInjective DEF IPv4Prefix
<1> QED
  BY <1>1, <1>5, <1>12 DEF IPv4Prefix

-----------------------------------------------------------------------------
(* Two subnets with routes overlap in the trie just when they have an      *)
(* address in common, whatever the numbers of octets and of their bits and *)
(* whatever has been read: ConvertIPtoBits compares with powers of two bit *)
(* by bit, and nothing is lost on the way.                                 *)
THEOREM OverlapIsSharedHolds == Spec => []OverlapIsShared
<1>1. OverlapIsShared
  BY SharedOverlap DEF OverlapIsShared
<1> QED
  BY <1>1, PTL

-----------------------------------------------------------------------------
(* Prefixes and their bits.                                                *)

Subnets4 == {s \in IPv4 : s.length > 0}

LEMMA NetOfSubnet ==
  ASSUME NEW s \in Subnets4
  PROVE  Bits[s] \in Nets /\ Bits[s] # <<>> /\ s \in IPNets
<1>1. s \in IPv4 /\ s \in IPv4Prefix /\ s.length > 0 /\ s.length \in Nat
  BY MessagesAssumption DEF Subnets4, IPv4Prefix
<1>2. Bits[s] = ConvertIPtoBits(s)
  BY <1>1 DEF Bits, IPNets
<1>3. DOMAIN ConvertIPtoBits(s) = 1..s.length /\ 1 \in 1..s.length
  BY <1>1 DEF ConvertIPtoBits
<1>4. Bits[s] # <<>>
  <2>1. DOMAIN <<>> = {}
    OBVIOUS
  <2> QED
    BY <1>2, <1>3, <2>1
<1> QED
  BY <1>1, <1>4 DEF Nets, IPNets

(* Only the prefix itself has the bits of a subnet.                        *)
LEMMA SameNet ==
  ASSUME NEW t \in IPNets, NEW s \in Subnets4
  PROVE  Bits[t] = Bits[s] <=> t = s
<1>1. CASE t \in IPv4
  BY <1>1, BitsAreInjective DEF Subnets4
<1>2. CASE t \notin IPv4
  BY <1>2, NetOfSubnet DEF Bits, Subnets4
<1> QED
  BY <1>1, <1>2

-----------------------------------------------------------------------------
(* The origins that attributes and paths set.                              *)

(* The origin that attributes set is at the end of a first segment.        *)
LEMMA SetASpathInEnds ==
  ASSUME NEW attributes \in Seq(Attribute), SetASpath(attributes) # Panic
  PROVE  SetASpath(attributes) \in Ends(attributes)
<1> DEFINE firsts(kind) == {a.segments[1] : a \in {a \in ToSet(attributes) :
                              a.kind = kind /\ a.segments # <<>>}} \ {<<>>}
<1>1. ASSUME NEW kind, BestPath(attributes, kind) # <<>>
      PROVE  BestPath(attributes, kind) \in firsts(kind)
  BY <1>1, BestPathType DEF ToSet
<1>2. ASSUME NEW kind, BestPath(attributes, kind) = <<>>
      PROVE  firsts(kind) = {}
  BY <1>2, BestPathType DEF ToSet
<1>3. Ends(attributes) = {Last(g) : g \in firsts("asPath") \cup firsts("as4Path")}
                           \cup (IF firsts("asPath") = {} THEN {0} ELSE {})
  BY DEF Ends
<1> HIDE DEF firsts
<1> QED
  BY <1>1, <1>2, <1>3 DEF SetASpath

(* What attributes set is among the origins they may have.                 *)
LEMMA SetASpathInOrigins ==
  ASSUME NEW attributes \in Seq(Attribute), SetASpath(attributes) # Panic
  PROVE  \/ OriginsOf(attributes) = Origins
         \/ /\ SetASpath(attributes) # 0
            /\ OriginsOf(attributes) = {SetASpath(attributes)}
<1> DEFINE paths(kind) == {k \in DOMAIN attributes : attributes[k].kind = kind}
           only(kind, k) == /\ paths(kind) = {k}
                            /\ Len(attributes[k].segments) = 1
                            /\ attributes[k].segments[1] # <<>>
           plain(kind) == \E k \in DOMAIN attributes : only(kind, k)
           last(kind)  == {Last(attributes[k].segments[1]) : k \in paths(kind)}
           best(kind)  == BestPath(attributes, kind)
<1>1. ASSUME NEW kind, plain(kind)
      PROVE  best(kind) # <<>> /\ last(kind) = {Last(best(kind))}
  <2>1. PICK k \in DOMAIN attributes : only(kind, k)
    BY <1>1
  <2>2. attributes[k].kind = kind /\ attributes[k].segments # <<>>
        /\ attributes[k].segments[1] # <<>>
    <3>1. attributes[k] \in Attribute
      BY ElementOfSeq, LenProperties
    <3> QED
      BY <2>1, <3>1, EmptySeq DEF Attribute
  <2>3. best(kind) = attributes[k].segments[1]
    <3>1. \A j \in DOMAIN attributes : attributes[j].kind = kind => j = k
      BY <2>1
    <3> QED
      BY <2>2, <3>1, BestPathType
  <2> QED
    BY <2>1, <2>2, <2>3
<1>2. ASSUME NEW kind, paths(kind) = {}
      PROVE  best(kind) = <<>>
  BY <1>2, BestPathType
<1>3. OriginsOf(attributes) =
        IF ~plain("asPath") THEN Origins
        ELSE IF paths("as4Path") = {} THEN last("asPath")
        ELSE IF plain("as4Path") THEN last("as4Path")
        ELSE Origins
  BY DEF OriginsOf
<1>4. ASSUME NEW kind, best(kind) # <<>>
      PROVE  Last(best(kind)) # 0
  <2>1. Last(best(kind)) \in ASes
    BY <1>4, BestPathType, LastElement
  <2> QED
    BY <2>1, MessagesAssumption
<1>5. SetASpath(attributes) =
        CASE best("as4Path") # <<>> /\ best("asPath") # <<>> -> Last(best("as4Path"))
          [] best("as4Path") # <<>> /\ best("asPath") = <<>> -> Panic
          [] best("as4Path") = <<>> /\ best("asPath") # <<>> -> Last(best("asPath"))
          [] OTHER                           -> 0
  BY DEF SetASpath
<1> HIDE DEF paths, plain, last, best
<1>6. CASE ~plain("asPath")
  BY <1>3, <1>6
<1>7. CASE plain("asPath") /\ paths("as4Path") = {}
  <2>1. best("asPath") # <<>> /\ best("as4Path") = <<>>
    BY <1>1, <1>2, <1>7
  <2>2. SetASpath(attributes) = Last(best("asPath"))
    BY <1>5, <2>1
  <2> QED
    BY <1>1, <1>3, <1>4, <1>7, <2>1, <2>2
<1>8. CASE plain("asPath") /\ paths("as4Path") # {} /\ plain("as4Path")
  <2>1. best("asPath") # <<>> /\ best("as4Path") # <<>>
    BY <1>1, <1>8
  <2>2. SetASpath(attributes) = Last(best("as4Path"))
    BY <1>5, <2>1
  <2> QED
    BY <1>1, <1>3, <1>4, <1>8, <2>1, <2>2
<1>9. CASE plain("asPath") /\ paths("as4Path") # {} /\ ~plain("as4Path")
  BY <1>3, <1>9
<1> QED
  BY <1>6, <1>7, <1>8, <1>9

(* The origin of a RIS message, when it has one.                           *)
HasOrigin(path) ==
  \E k \in DOMAIN path : path[k] # <<>> /\ \A j \in 1..k : path[j] # Undecodable

LEMMA OriginOfPath ==
  ASSUME NEW path \in Seq(Seq(ASes) \cup {Undecodable})
  PROVE  /\ OriginOfDigestedPath(path) # 0 <=> HasOrigin(path)
         /\ HasOrigin(path) =>
              /\ OriginOfDigestedPath(path) \in OriginsOfPath(path)
              /\ OriginOfDigestedPath(path) \in UNION {ToSet(e) : e \in ToSet(path) \ {Undecodable}}
<1> DEFINE o == OriginOfDigestedPath(path)
           digested(k) == \A j \in 1..k : path[j] # Undecodable
<1>0. DOMAIN path = 1..Len(path) /\ Len(path) \in Nat
  BY LenProperties
<1>1. CASE /\ o = 0
           /\ \A k \in DOMAIN path : digested(k) => path[k] = <<>>
  <2>1. ~HasOrigin(path)
    BY <1>1 DEF HasOrigin
  <2> QED
    BY <1>1, <2>1
<1>2. CASE /\ o \in ASes
           /\ \E m \in DOMAIN path :
                /\ digested(m) /\ path[m] \in Seq(ASes) /\ path[m] # <<>> /\ o = Last(path[m])
                /\ \A k \in DOMAIN path : k > m /\ digested(k) => path[k] = <<>>
  <2>1. PICK m \in DOMAIN path :
          /\ digested(m) /\ path[m] \in Seq(ASes) /\ path[m] # <<>> /\ o = Last(path[m])
          /\ \A k \in DOMAIN path : k > m /\ digested(k) => path[k] = <<>>
    BY <1>2
  <2>2. o # 0 /\ HasOrigin(path)
    BY <1>2, <2>1, MessagesAssumption DEF HasOrigin
  <2>3. o \in ToSet(path[m]) /\ path[m] # Undecodable
    <3>1. Len(path[m]) \in DOMAIN path[m]
      BY <2>1, LenProperties, EmptySeq
    <3>2. m \in 1..m
      BY <1>0
    <3> QED
      BY <2>1, <3>1, <3>2 DEF Last, ToSet
  <2>4. o \in UNION {ToSet(e) : e \in ToSet(path) \ {Undecodable}}
    BY <2>3 DEF ToSet
  <2>5. o \in OriginsOfPath(path)
    <3>1. CASE \E e \in ToSet(path) : e = Undecodable \/ Len(e) # 1
      BY <1>2, <3>1 DEF OriginsOfPath, Origins
    <3>2. CASE \A e \in ToSet(path) : e # Undecodable /\ Len(e) = 1
      <4> DEFINE l == Len(path)
      <4>1. l \in DOMAIN path /\ l \in Nat
        BY <1>0
      <4>2. \A k \in DOMAIN path : path[k] \in ToSet(path)
        BY DEF ToSet
      <4> HIDE DEF l
      <4>3. digested(l)
        BY <1>0, <3>2, <4>2 DEF l
      <4>4. path[l] # <<>>
        <5>1. Len(path[l]) = 1
          BY <3>2, <4>1, <4>2
        <5>2. \A x : x = <<>> => Len(x) = 0
          OBVIOUS
        <5>3. Len(path[l]) # 0
          BY <5>1
        <5> QED
          BY ONLY <5>2, <5>3, Zenon
      <4>5. ~(l > m)
        BY <2>1, <4>1, <4>3, <4>4
      <4>6. l = m
        BY <1>0, <4>5 DEF l
      <4>7. OriginsOfPath(path) = ToSet(path[l])
        BY <3>2 DEF OriginsOfPath, Last, l
      <4> QED
        BY <2>3, <4>6, <4>7
    <3> QED
      BY <3>1, <3>2
  <2> QED
    BY <2>2, <2>4, <2>5
<1> QED
  BY <1>1, <1>2, OriginOfDigestedPathType

-----------------------------------------------------------------------------
(* Sequences of messages: the last message about a route decides.          *)

About(q, id, n) == {k \in DOMAIN q : q[k].peerID = id /\ q[k].net = n}

RouteOf(m) == IF m.isAnnouncement THEN m.origin ELSE NoRoute

(* The route of peer id for net n, when it is "before" and q is inserted.  *)
After(q, id, n, before) ==
  IF About(q, id, n) = {} THEN before ELSE RouteOf(q[Max(About(q, id, n))])

LEMMA MaxIs ==
  ASSUME NEW S \in SUBSET Nat, NEW m \in S, \A j \in S : j <= m
  PROVE  Max(S) = m
<1>1. \A j \in S : m >= j
  OBVIOUS
<1>2. \A x \in S : (\A y \in S : x >= y) => x = m
  OBVIOUS
<1> QED
  BY <1>1, <1>2 DEF Max

LEMMA LastAbout ==
  ASSUME NEW M, NEW q \in Seq(M), NEW id, NEW n, NEW before, About(q, id, n) # {}
  PROVE  \E k \in About(q, id, n) : /\ \A j \in About(q, id, n) : j <= k
                                    /\ After(q, id, n, before) = RouteOf(q[k])
<1> DEFINE A == About(q, id, n)
<1>1. Len(q) \in Nat /\ A \in SUBSET (1..Len(q))
  BY LenProperties DEF About
<1> HIDE DEF A
<1>2. PICK k \in A : \A j \in A : j <= k
  BY <1>1, LastPosition DEF A
<1>3. Max(A) = k
  BY <1>1, <1>2, MaxIs
<1> QED
  BY <1>2, <1>3 DEF After, A

(* The first message is inserted.                                          *)
LEMMA AfterHead ==
  ASSUME NEW M, NEW q \in Seq(M), q # <<>>, NEW id, NEW n, NEW before, NEW next,
         next = IF Head(q).peerID = id /\ Head(q).net = n THEN RouteOf(Head(q)) ELSE before
  PROVE  After(Tail(q), id, n, next) = After(q, id, n, before)
<1> DEFINE t == Tail(q)
           A == About(q, id, n)
           T == About(t, id, n)
<1>1. /\ Len(q) \in Nat \ {0} /\ DOMAIN q = 1..Len(q)
      /\ t \in Seq(M) /\ Len(t) = Len(q) - 1 /\ DOMAIN t = 1..(Len(q) - 1)
      /\ \A i \in 1..(Len(q) - 1) : t[i] = q[i + 1]
      /\ Head(q) = q[1]
  BY EmptySeq, LenProperties, HeadTailProperties
<1> HIDE DEF t
<1>2. \A i \in 1..(Len(q) - 1) : i \in T <=> i + 1 \in A
  BY <1>1 DEF About
<1>3. T \subseteq 1..(Len(q) - 1) /\ A \subseteq 1..Len(q) /\ T \in SUBSET Nat /\ A \in SUBSET Nat
  BY <1>1 DEF About
<1>4. 1 \in A <=> Head(q).peerID = id /\ Head(q).net = n
  BY <1>1 DEF About
<1> HIDE DEF A, T
<1>5. CASE T = {} /\ A = {}
  <2>1. 1 \notin A
    BY <1>5
  <2> QED
    BY <1>4, <1>5, <2>1 DEF After, A, T, t
<1>6. CASE T = {} /\ A # {}
  <2>1. \A i \in A : i = 1
    <3> SUFFICES ASSUME NEW i \in A, i # 1
                 PROVE  FALSE
      OBVIOUS
    <3>1. i - 1 \in 1..(Len(q) - 1) /\ (i - 1) + 1 = i
      BY <1>1, <1>3
    <3> QED
      BY <1>2, <1>6, <3>1
  <2>2. 1 \in A
    BY <1>6, <2>1
  <2>3. Max(A) = 1
    BY <1>3, <2>1, <2>2, MaxIs
  <2> QED
    BY <1>1, <1>4, <1>6, <2>2, <2>3 DEF After, A, T, t
<1>7. CASE T # {}
  <2>0. Len(q) - 1 \in Nat /\ T \in SUBSET (1..(Len(q) - 1))
    BY <1>1, <1>3
  <2>1. PICK m \in T : \A j \in T : j <= m
    BY <1>7, <2>0, LastPosition
  <2>2. m + 1 \in A /\ m \in 1..(Len(q) - 1)
    BY <1>2, <1>3, <2>1
  <2>3. \A j \in A : j <= m + 1
    <3> SUFFICES ASSUME NEW j \in A, j > m + 1
                 PROVE  FALSE
      BY <1>3, <2>2
    <3>1. j - 1 \in 1..(Len(q) - 1) /\ (j - 1) + 1 = j
      BY <1>1, <1>3, <2>2
    <3>2. j - 1 \in T
      BY <1>2, <3>1
    <3> QED
      BY <2>1, <2>2, <3>1, <3>2
  <2>4. Max(T) = m /\ Max(A) = m + 1
    BY <1>3, <2>1, <2>2, <2>3, MaxIs
  <2>5. A # {}
    BY <2>2
  <2> QED
    BY <1>1, <1>7, <2>2, <2>4, <2>5 DEF After, A, T, t
<1> QED
  BY <1>5, <1>6, <1>7

-----------------------------------------------------------------------------
(* The messages of a record, position by position.                         *)

LEMMA ConcatAt ==
  ASSUME NEW S, NEW x \in Seq(S), NEW y \in Seq(S)
  PROVE  /\ DOMAIN (x \o y) = 1..(Len(x) + Len(y))
         /\ \A k \in 1..Len(x) : (x \o y)[k] = x[k]
         /\ \A k \in 1..Len(y) : (x \o y)[Len(x) + k] = y[k]
<1> DEFINE z == x \o y
<1>1. /\ z \in Seq(S) /\ Len(z) = Len(x) + Len(y)
      /\ \A i \in 1..(Len(x) + Len(y)) : z[i] = IF i <= Len(x) THEN x[i] ELSE y[i - Len(x)]
  BY ConcatProperties
<1>2. Len(x) \in Nat /\ Len(y) \in Nat
  BY LenProperties
<1> HIDE DEF z
<1>3. DOMAIN z = 1..(Len(x) + Len(y))
  BY <1>1, LenProperties
<1>4. ASSUME NEW k \in 1..Len(y)
      PROVE  z[Len(x) + k] = y[k]
  <2>1. /\ Len(x) + k \in 1..(Len(x) + Len(y)) /\ ~(Len(x) + k <= Len(x))
        /\ (Len(x) + k) - Len(x) = k
    BY <1>2
  <2> QED
    BY <1>1, <2>1
<1>5. \A k \in 1..Len(x) : z[k] = x[k]
  BY <1>1, <1>2
<1> QED
  BY <1>3, <1>4, <1>5 DEF z

LEMMA AnnouncementsAt ==
  ASSUME NEW prefixes \in Seq(IPNets), NEW id, NEW origin
  PROVE  /\ Len(Announcements(prefixes, id, origin)) = Len(prefixes)
         /\ \A k \in 1..Len(prefixes) :
              /\ origin = Panic => Announcements(prefixes, id, origin)[k] = Panic
              /\ origin # Panic => Announcements(prefixes, id, origin)[k]
                                    = NewMessage(prefixes[k], TRUE, id, origin)
<1>1. DOMAIN prefixes = 1..Len(prefixes) /\ Len(prefixes) \in Nat
  BY LenProperties
<1>2. /\ Len(Announcements(prefixes, id, origin)) = Len(prefixes)
      /\ \A k \in 1..Len(prefixes) : Announcements(prefixes, id, origin)[k] =
           IF origin = Panic THEN Panic ELSE NewMessage(prefixes[k], TRUE, id, origin)
  BY <1>1 DEF Announcements
<1> QED
  BY <1>2

LEMMA WithdrawalsAt ==
  ASSUME NEW prefixes \in Seq(IPNets), NEW id
  PROVE  /\ Len(Withdrawals(prefixes, id)) = Len(prefixes)
         /\ \A k \in 1..Len(prefixes) :
              Withdrawals(prefixes, id)[k] = NewMessage(prefixes[k], FALSE, id, 0)
<1>1. DOMAIN prefixes = 1..Len(prefixes) /\ Len(prefixes) \in Nat
  BY LenProperties
<1> QED
  BY <1>1 DEF Withdrawals

LEMMA UpdateAt ==
  ASSUME NEW u \in Record(IPs, PeerASes), u.type = "update", NEW ids, NEW id \in ids
  PROVE  LET q == MessagesOfUpdate(u, id)
             a == Len(u.announced)
             w == Len(u.withdrawn)
             o == SetASpath(u.attributes)
         IN  /\ a \in Nat /\ w \in Nat /\ DOMAIN q = 1..(a + w)
             /\ \A k \in 1..a : /\ u.announced[k] \in IPNets
                                /\ o = Panic => q[k] = Panic
                                /\ o # Panic => q[k] = NewMessage(u.announced[k], TRUE, id, o)
             /\ \A k \in 1..w : /\ u.withdrawn[k] \in IPNets
                                /\ q[a + k] = NewMessage(u.withdrawn[k], FALSE, id, 0)
<1> DEFINE o == SetASpath(u.attributes)
           x == Announcements(u.announced, id, o)
           y == Withdrawals(u.withdrawn, id)
<1>1. u.announced \in Seq(IPNets) /\ u.withdrawn \in Seq(IPNets) /\ o \in Origins \cup {Panic}
  BY RecordTypes, SetASpathType
<1>2. x \in Seq(MessagesOf(ids)) /\ y \in Seq(MessagesOf(ids))
  BY <1>1, AnnouncementsType, WithdrawalsType
<1>3. MessagesOfUpdate(u, id) = x \o y
  BY DEF MessagesOfUpdate
<1>4. /\ Len(x) = Len(u.announced) /\ Len(y) = Len(u.withdrawn)
      /\ \A k \in 1..Len(u.announced) :
           /\ o = Panic => x[k] = Panic
           /\ o # Panic => x[k] = NewMessage(u.announced[k], TRUE, id, o)
      /\ \A k \in 1..Len(u.withdrawn) : y[k] = NewMessage(u.withdrawn[k], FALSE, id, 0)
  <2>1. /\ Len(x) = Len(u.announced)
        /\ \A k \in 1..Len(u.announced) :
             /\ o = Panic => x[k] = Panic
             /\ o # Panic => x[k] = NewMessage(u.announced[k], TRUE, id, o)
    BY <1>1, AnnouncementsAt
  <2>2. /\ Len(y) = Len(u.withdrawn)
        /\ \A k \in 1..Len(u.withdrawn) : y[k] = NewMessage(u.withdrawn[k], FALSE, id, 0)
    BY <1>1, WithdrawalsAt
  <2> QED
    BY <2>1, <2>2
<1>5. /\ Len(u.announced) \in Nat /\ Len(u.withdrawn) \in Nat
      /\ \A k \in 1..Len(u.announced) : u.announced[k] \in IPNets
      /\ \A k \in 1..Len(u.withdrawn) : u.withdrawn[k] \in IPNets
  BY <1>1, LenProperties, ElementOfSeq
<1> HIDE DEF x, y, o
<1>6. /\ DOMAIN (x \o y) = 1..(Len(x) + Len(y))
      /\ \A k \in 1..Len(x) : (x \o y)[k] = x[k]
      /\ \A k \in 1..Len(y) : (x \o y)[Len(x) + k] = y[k]
  BY <1>2, ConcatAt
<1> QED
  BY <1>3, <1>4, <1>5, <1>6 DEF o

LEMMA RisAt ==
  ASSUME NEW r \in RisMessages, NEW ids, NEW id \in ids, NEW q, q = MessagesOfRis(r, id)
  PROVE  LET p == IF r.announcements = <<>> \/ OriginOfDigestedPath(r.path) = 0
                  THEN <<>> ELSE r.announcements[1]
             a == Len(p)
             w == Len(r.withdrawals)
             o == OriginOfDigestedPath(r.path)
         IN  \/ q = <<Panic>>
             \/ /\ a \in Nat /\ w \in Nat /\ DOMAIN q = 1..(w + a)
                /\ \A k \in 1..w : /\ r.withdrawals[k] \in IPNets
                                   /\ q[k] = NewMessage(r.withdrawals[k], FALSE, id, 0)
                /\ \A k \in 1..a : /\ p[k] \in IPNets
                                   /\ q[w + k] = NewMessage(p[k], TRUE, id, o)
<1> DEFINE o == OriginOfDigestedPath(r.path)
           p == IF r.announcements = <<>> \/ o = 0 THEN <<>> ELSE r.announcements[1]
           x == Withdrawals(r.withdrawals, id)
           y == Announcements(p, id, o)
<1>1. /\ r.withdrawals \in Seq(IPNets)
      /\ r.announcements \in Seq(Seq(IPNets))
      /\ r.path \in Seq(Seq(ASes) \cup {Undecodable})
  BY LiveAssumption DEF RisMessage
<1>2. o \in Origins /\ o # Panic
  <2>1. o \in Origins
    BY <1>1, OriginOfDigestedPathType
  <2>2. Origins \subseteq Nat
    BY MessagesAssumption DEF Origins
  <2> QED
    BY <2>1, <2>2, MessagesAssumption
<1>3. p \in Seq(IPNets)
  <2>1. CASE r.announcements = <<>> \/ o = 0
    BY <2>1, EmptySeq
  <2>2. CASE r.announcements # <<>> /\ o # 0
    <3>1. 1 \in 1..Len(r.announcements)
      BY <1>1, <2>2, LenProperties, EmptySeq
    <3>2. r.announcements[1] \in Seq(IPNets)
      BY <1>1, <3>1, ElementOfSeq
    <3> QED
      BY <2>2, <3>2
  <2> QED
    BY <2>1, <2>2
<1>4. \/ q = <<Panic>>
      \/ q = x \o y
  <2>1. CASE r.announcements = <<>> \/ o = 0
    <3>1. y \in Seq(MessagesOf(ids)) /\ Len(y) = Len(p) /\ p = <<>>
      BY <1>2, <1>3, <2>1, AnnouncementsType, AnnouncementsAt
    <3>2. y = <<>>
      <4> HIDE DEF y
      <4> QED
        BY <3>1, EmptySeq
    <3>3. x \in Seq(MessagesOf(ids)) /\ x \o <<>> = x
      <4>1. x \in Seq(MessagesOf(ids))
        BY <1>1, WithdrawalsType
      <4> QED
        BY <4>1, ConcatEmptySeq
    <3> QED
      BY <2>1, <3>2, <3>3 DEF MessagesOfRis
  <2>2. CASE r.announcements # <<>> /\ o # 0
    BY <2>2 DEF MessagesOfRis
  <2> QED
    BY <2>1, <2>2
<1> HIDE DEF p, o
<1>5. x \in Seq(MessagesOf(ids)) /\ y \in Seq(MessagesOf(ids))
  BY <1>1, <1>2, <1>3, AnnouncementsType, WithdrawalsType
<1>6. /\ Len(x) = Len(r.withdrawals) /\ Len(y) = Len(p)
      /\ \A k \in 1..Len(p) : y[k] = NewMessage(p[k], TRUE, id, o)
      /\ \A k \in 1..Len(r.withdrawals) : x[k] = NewMessage(r.withdrawals[k], FALSE, id, 0)
  <2>1. /\ Len(y) = Len(p)
        /\ \A k \in 1..Len(p) : /\ o = Panic => y[k] = Panic
                               /\ o # Panic => y[k] = NewMessage(p[k], TRUE, id, o)
    BY <1>3, AnnouncementsAt
  <2>2. /\ Len(x) = Len(r.withdrawals)
        /\ \A k \in 1..Len(r.withdrawals) : x[k] = NewMessage(r.withdrawals[k], FALSE, id, 0)
    BY <1>1, WithdrawalsAt
  <2> HIDE DEF x, y
  <2> QED
    BY <1>2, <2>1, <2>2
<1>7. /\ Len(p) \in Nat /\ Len(r.withdrawals) \in Nat
      /\ \A k \in 1..Len(p) : p[k] \in IPNets
      /\ \A k \in 1..Len(r.withdrawals) : r.withdrawals[k] \in IPNets
  BY <1>1, <1>3, LenProperties, ElementOfSeq
<1> HIDE DEF x, y
<1>8. /\ DOMAIN (x \o y) = 1..(Len(x) + Len(y))
      /\ \A k \in 1..Len(x) : (x \o y)[k] = x[k]
      /\ \A k \in 1..Len(y) : (x \o y)[Len(x) + k] = y[k]
  BY <1>5, ConcatAt
<1> QED
  BY <1>4, <1>6, <1>7, <1>8 DEF o, p

-----------------------------------------------------------------------------
(* The kinds of steps.                                                     *)

Early == {"start", "files", "openRib", "rib"}

Over == {"stopped", "panicked"}

(* Peers, routes, messages and the history stay as they are.               *)
QuietStep ==
  /\ UNCHANGED <<peerVars, todo, table, read>>
  /\ pc \in Over => UNCHANGED pc
  /\ pc' \in Early => pc \in Early

(* A record or a RIS message is read.                                      *)
Reading(r) ==
  /\ todo = <<>> /\ read' = Append(read, r) /\ r \in Readings
  /\ UNCHANGED <<pc, table>>
  /\ \/ /\ r.type = "table" /\ r \in Record(IPs, PeerASes) /\ pc = "rib" /\ tables = 0
        /\ InsertPeers(r.peers)
        /\ UNCHANGED todo
     \/ /\ r.type = "rib" /\ r \in Record(IPs, PeerASes) /\ pc = "rib"
        /\ UNCHANGED peerVars
        /\ todo' = MessagesOfRib(r, ourPeers)
     \/ /\ r.type = "update" /\ r \in Record(IPs, PeerASes) /\ pc = "file"
        /\ FindPeerIDbyIP(r.ip, r.as)
        /\ todo' = MessagesOfUpdate(r, peermapByIP'[r.ip].id)
     \/ /\ r.type = "ris" /\ r \in RisMessages /\ pc = "live"
        /\ FindPeerIDbyIP(r.ip, r.as)
        /\ todo' = MessagesOfRis(r, peermapByIP'[r.ip].id)
     \/ /\ r.type = "skipped"
        /\ UNCHANGED <<peerVars, todo>>

LEMMA FileStepKinds ==
  ASSUME FilesInv, ReadFiles
  PROVE  QuietStep \/ \E r : Reading(r)
<1>1. CASE SkipFiles \/ ChooseRib \/ OpenRib \/ OpenRibFails \/ RibError \/ EndOfRib
  BY <1>1 DEF SkipFiles, ChooseRib, OpenRib, OpenRibFails, RibError, EndOfRib, GoTo, NextRecord,
              QuietStep, fileVars, history, Over, Early
<1>2. CASE UpdatesError \/ EndOfFile \/ EndOfFiles
  BY <1>2 DEF UpdatesError, EndOfFile, EndOfFiles, GoTo, NextRecord, QuietStep, fileVars,
              history, Over, Early
<1>3. CASE \E n \in left : SkipFile(n) \/ MisnamedFile(n) \/ OpenUpdates(n) \/ OpenUpdatesFails(n)
  BY <1>3 DEF SkipFile, MisnamedFile, OpenUpdates, OpenUpdatesFails, NextFile, GoTo, QuietStep,
              Over, Early
<1> DEFINE r == Head(records)
<1>4. ASSUME NEW types, NextRecord(types)
      PROVE  r \in Record(IPs, PeerASes) /\ r \in Readings /\ r.type \in types
  BY <1>4, NextRecordTypes, ReadingTypes DEF NextRecord
<1>5. CASE ReadPeerTable
  <2>1. r \in Record(IPs, PeerASes) /\ r \in Readings /\ r.type = "table" /\ read' = Append(read, r)
    BY <1>4, <1>5 DEF ReadPeerTable, ReadRecord
  <2>2. Reading(r)
    BY <1>5, <2>1 DEF ReadPeerTable, GoTo, Reading
  <2> QED
    BY <2>2
<1>6. CASE ReadRib
  <2>1. r \in Record(IPs, PeerASes) /\ r \in Readings /\ r.type = "rib" /\ read' = Append(read, r)
    BY <1>4, <1>6 DEF ReadRib, ReadRecord
  <2>2. Reading(r)
    BY <1>6, <2>1 DEF ReadRib, GoTo, Reading
  <2> QED
    BY <2>2
<1>7. CASE ReadUpdate
  <2>1. r \in Record(IPs, PeerASes) /\ r \in Readings /\ r.type = "update" /\ read' = Append(read, r)
    BY <1>4, <1>7 DEF ReadUpdate, ReadRecord
  <2>2. Reading(r)
    BY <1>7, <2>1 DEF ReadUpdate, GoTo, Reading
  <2> QED
    BY <2>2
<1>8. CASE SkipRecord
  <2>1. r \in Record(IPs, PeerASes) /\ read' = Append(read, Skipped(r))
    BY <1>4, <1>8 DEF SkipRecord
  <2>2. Skipped(r) \in Readings /\ Skipped(r).type = "skipped"
    BY <2>1 DEF Skipped, Readings
  <2>3. Reading(Skipped(r))
    BY <1>8, <2>1, <2>2 DEF SkipRecord, Reading
  <2> QED
    BY <2>3
<1> QED
  BY <1>1, <1>2, <1>3, <1>5, <1>6, <1>7, <1>8 DEF ReadFiles

LEMMA StepKinds ==
  ASSUME FilesInv, [Next]_vars
  PROVE  QuietStep \/ Insert \/ \E r : Reading(r)
<1>1. CASE Initialize \/ InitializeFails \/ StartLive \/ EndMain
  BY <1>1 DEF Initialize, InitializeFails, StartLive, EndMain, MainStep, GoTo, QuietStep,
              history, Over, Early
<1>2. CASE ScanEndsEarly \/ UNCHANGED vars
  BY <1>2 DEF ScanEndsEarly, vars, peerVars, history, QuietStep, Over, Early
<1>3. CASE ReadFiles
  BY <1>3, FileStepKinds
<1>4. ASSUME NEW r \in RisMessages, Handle(r)
      PROVE  Reading(r)
  <2>1. r \in Readings /\ r.type = "ris"
    BY ReadingTypes, LiveAssumption DEF RisMessage
  <2> QED
    BY <1>4, <2>1 DEF Handle, GoTo, Reading
<1> QED
  BY <1>1, <1>2, <1>3, <1>4 DEF Next, Proceed

-----------------------------------------------------------------------------
(* No origin is invented.                                                  *)

(* Every announcement in q has an origin that record r mentions.           *)
Mentions(r, q) ==
  \A k \in DOMAIN q, s \in Subnets4 :
    q[k] # Panic /\ q[k].isAnnouncement /\ q[k].net = Bits[s] => q[k].origin \in Mentioned(r, s)

LEMMA UpdateMentions ==
  ASSUME NEW u \in Record(IPs, PeerASes), u.type = "update", NEW ids, NEW id \in ids
  PROVE  Mentions(u, MessagesOfUpdate(u, id))
<1> DEFINE q == MessagesOfUpdate(u, id)
           a == Len(u.announced)
           w == Len(u.withdrawn)
           o == SetASpath(u.attributes)
<1>1. /\ a \in Nat /\ w \in Nat /\ DOMAIN q = 1..(a + w)
      /\ \A k \in 1..a : /\ u.announced[k] \in IPNets
                         /\ o = Panic => q[k] = Panic
                         /\ o # Panic => q[k] = NewMessage(u.announced[k], TRUE, id, o)
      /\ \A k \in 1..w : /\ u.withdrawn[k] \in IPNets
                         /\ q[a + k] = NewMessage(u.withdrawn[k], FALSE, id, 0)
  BY UpdateAt
<1>2. u.attributes \in Seq(Attribute) /\ DOMAIN u.announced = 1..a
  BY RecordTypes, LenProperties
<1> HIDE DEF q, a, w, o
<1> SUFFICES ASSUME NEW k \in DOMAIN q, NEW s \in Subnets4,
                    q[k] # Panic, q[k].isAnnouncement, q[k].net = Bits[s]
             PROVE  q[k].origin \in Mentioned(u, s)
  BY DEF Mentions, q
<1>3. CASE k \in 1..a
  <2>1. q[k] = NewMessage(u.announced[k], TRUE, id, o) /\ o # Panic /\ u.announced[k] \in IPNets
    BY <1>1, <1>3
  <2>2. u.announced[k] = s
    BY <2>1, SameNet DEF NewMessage
  <2>3. s \in ToSet(u.announced)
    BY <1>2, <1>3, <2>2 DEF ToSet
  <2>4. o \in Ends(u.attributes)
    BY <1>2, <2>1, SetASpathInEnds DEF o
  <2> QED
    BY <2>1, <2>3, <2>4 DEF Mentioned, NewMessage
<1>4. CASE k \notin 1..a
  <2>1. k - a \in 1..w /\ a + (k - a) = k
    BY <1>1, <1>4
  <2>2. q[k] = NewMessage(u.withdrawn[k - a], FALSE, id, 0)
    BY <1>1, <2>1
  <2> QED
    BY <2>2 DEF NewMessage
<1> QED
  BY <1>3, <1>4

LEMMA RibMentions ==
  ASSUME PeersInv, NEW r \in Record(IPs, PeerASes), r.type = "rib"
  PROVE  Mentions(r, MessagesOfRib(r, ourPeers))
<1> DEFINE q == MessagesOfRib(r, ourPeers)
<1>1. /\ r.prefix \in IPNets
      /\ DOMAIN r.entries = 1..Len(r.entries) /\ Len(r.entries) \in Nat
  BY RecordTypes, LenProperties
<1>2. DOMAIN q = 1..Len(r.entries)
  BY <1>1 DEF MessagesOfRib
<1> SUFFICES ASSUME NEW k \in DOMAIN q, NEW s \in Subnets4,
                    q[k] # Panic, q[k].isAnnouncement, q[k].net = Bits[s]
             PROVE  q[k].origin \in Mentioned(r, s)
  BY DEF Mentions
<1>3. PICK j \in 1..k, p \in 1..highestPeerId :
        /\ SetASpath(r.entries[j].attributes) \in Origins
        /\ q[k] = NewMessage(r.prefix, TRUE, ourPeers[p].id, SetASpath(r.entries[j].attributes))
  BY <1>2, RibAt
<1> DEFINE e == r.entries[j]
           o == SetASpath(e.attributes)
<1>4. j \in 1..Len(r.entries)
  BY <1>1, <1>2
<1>5. e.attributes \in Seq(Attribute) /\ e \in ToSet(r.entries)
  <2>1. e \in [index : Nat, attributes : Seq(Attribute)]
    BY <1>4, RecordTypes, ElementOfSeq
  <2> QED
    BY <1>1, <1>4, <2>1 DEF ToSet
<1>6. o # Panic
  <2>1. Origins \subseteq Nat
    BY MessagesAssumption DEF Origins
  <2> QED
    BY <1>3, <2>1, MessagesAssumption
<1>7. o \in Ends(e.attributes)
  BY <1>5, <1>6, SetASpathInEnds
<1>8. r.prefix = s /\ q[k].origin = o
  BY <1>1, <1>3, SameNet DEF NewMessage
<1> HIDE DEF o, e, q
<1> QED
  BY <1>5, <1>7, <1>8 DEF Mentioned

LEMMA RisMentions ==
  ASSUME NEW r \in RisMessages, NEW ids, NEW id \in ids
  PROVE  Mentions(r, MessagesOfRis(r, id))
<1> DEFINE q == MessagesOfRis(r, id)
           o == OriginOfDigestedPath(r.path)
           p == IF r.announcements = <<>> \/ o = 0 THEN <<>> ELSE r.announcements[1]
           a == Len(p)
           w == Len(r.withdrawals)
<1>1. \/ q = <<Panic>>
      \/ /\ a \in Nat /\ w \in Nat /\ DOMAIN q = 1..(w + a)
         /\ \A k \in 1..w : /\ r.withdrawals[k] \in IPNets
                            /\ q[k] = NewMessage(r.withdrawals[k], FALSE, id, 0)
         /\ \A k \in 1..a : p[k] \in IPNets /\ q[w + k] = NewMessage(p[k], TRUE, id, o)
  BY RisAt
<1>2. /\ r.announcements \in Seq(Seq(IPNets)) /\ r.type = "ris"
      /\ r.path \in Seq(Seq(ASes) \cup {Undecodable})
  BY LiveAssumption DEF RisMessage
<1> SUFFICES ASSUME NEW k \in DOMAIN q, NEW s \in Subnets4,
                    q[k] # Panic, q[k].isAnnouncement, q[k].net = Bits[s]
             PROVE  q[k].origin \in Mentioned(r, s)
  BY DEF Mentions
<1> HIDE DEF q, a, w, o
<1>3. CASE q = <<Panic>>
  <2>1. DOMAIN <<Panic>> = {1} /\ <<Panic>>[1] = Panic
    OBVIOUS
  <2>2. k = 1 /\ q[k] = Panic
    BY <1>3, <2>1
  <2> QED
    BY <2>2
<1>4. CASE q # <<Panic>> /\ k \in 1..w
  <2>1. q[k] = NewMessage(r.withdrawals[k], FALSE, id, 0)
    BY <1>1, <1>4
  <2> QED
    BY <2>1 DEF NewMessage
<1>5. CASE q # <<Panic>> /\ k \notin 1..w
  <2>1. k - w \in 1..a /\ w + (k - w) = k
    <3>1. a \in Nat /\ w \in Nat /\ k \in 1..(w + a)
      BY <1>1, <1>5
    <3> QED
      BY <1>5, <3>1
  <2>2. q[k] = NewMessage(p[k - w], TRUE, id, o) /\ p[k - w] \in IPNets
    BY <1>1, <1>5, <2>1
  <2>3. p[k - w] = s /\ q[k].origin = o
    BY <2>2, SameNet DEF NewMessage
  <2>4. r.announcements # <<>> /\ o # 0 /\ p = r.announcements[1]
    <3>1. a # 0
      BY <2>1
    <3>2. Len(<<>>) = 0
      OBVIOUS
    <3>3. p # <<>>
      BY <3>1, <3>2 DEF a
    <3> QED
      BY <3>3
  <2>5. s \in ToSet(r.announcements[1])
    <3>1. 1 \in 1..Len(r.announcements)
      BY <1>2, <2>4, LenProperties, EmptySeq
    <3>2. p \in Seq(IPNets)
      BY <1>2, <2>4, <3>1, ElementOfSeq
    <3>3. DOMAIN p = 1..a
      BY <3>2, LenProperties DEF a
    <3> QED
      BY <2>1, <2>3, <2>4, <3>3 DEF ToSet
  <2>6. HasOrigin(r.path) /\ o \in UNION {ToSet(e) : e \in ToSet(r.path) \ {Undecodable}}
    BY <1>2, <2>4, OriginOfPath DEF o
  <2>7. AnnouncedBy(r, s)
    BY <2>4, <2>5, <2>6 DEF AnnouncedBy, HasOrigin
  <2> QED
    BY <1>2, <2>3, <2>6, <2>7 DEF Mentioned
<1> QED
  BY <1>3, <1>4, <1>5

WasMentioned(origin, s) == \E k \in DOMAIN read : origin \in Mentioned(read[k], s)

(* The origins of the routes, and of the announcements that are still to   *)
(* be inserted, have been read.                                            *)
MentionedInv ==
  /\ \A id \in Ids, s \in Subnets4 :
       table[id][Bits[s]] # NoRoute => WasMentioned(table[id][Bits[s]], s)
  /\ \A k \in DOMAIN todo, s \in Subnets4 :
       todo[k] # Panic /\ todo[k].isAnnouncement /\ todo[k].net = Bits[s] =>
         WasMentioned(todo[k].origin, s)

LEMMA MentionedStays ==
  ASSUME NEW S, read \in Seq(S), NEW r \in S, read' = Append(read, r), NEW origin, NEW s
  PROVE  /\ WasMentioned(origin, s) => WasMentioned(origin, s)'
         /\ origin \in Mentioned(r, s) => WasMentioned(origin, s)'
<1>1. /\ DOMAIN read = 1..Len(read) /\ Len(read) \in Nat
      /\ DOMAIN read' = 1..(Len(read) + 1)
      /\ \A k \in 1..Len(read) : read'[k] = read[k]
      /\ read'[Len(read) + 1] = r
  BY AppendProperties, LenProperties
<1>2. \A k \in DOMAIN read : k \in DOMAIN read' /\ read'[k] = read[k]
  BY <1>1
<1>3. Len(read) + 1 \in DOMAIN read'
  BY <1>1
<1> HIDE DEF WasMentioned
<1>4. WasMentioned(origin, s) => WasMentioned(origin, s)'
  BY <1>2 DEF WasMentioned
<1>5. origin \in Mentioned(r, s) => WasMentioned(origin, s)'
  BY <1>1, <1>3 DEF WasMentioned
<1> QED
  BY <1>4, <1>5

(* What an insertion does to every route.                                  *)
LEMMA InsertEffect ==
  ASSUME RoutesInv, Insert
  PROVE  /\ UNCHANGED <<peerVars, read>>
         /\ \/ pc' \in Over /\ todo' = <<>> /\ UNCHANGED table
            \/ /\ pc' = pc /\ todo # <<>> /\ todo' = Tail(todo)
               /\ Head(todo) # Panic /\ Head(todo) \in MessagesOf(KnownIds)
               /\ \A id \in Ids, n \in Nets :
                    table'[id][n] = IF Head(todo).peerID = id /\ Head(todo).net = n
                                    THEN RouteOf(Head(todo)) ELSE table[id][n]
<1>1. UNCHANGED <<peerVars, read>>
  BY DEF Insert, InsertAnnouncement, InsertWithdrawal, Discard, StopTimeReached,
         MessagePanics, InsertStep, history
<1>2. CASE StopTimeReached \/ MessagePanics
  BY <1>1, <1>2 DEF StopTimeReached, MessagePanics, Over
<1>3. CASE InsertAnnouncement \/ InsertWithdrawal \/ Discard
  <2> DEFINE m == Head(todo)
  <2>1. pc' = pc /\ todo # <<>> /\ todo' = Tail(todo) /\ m # Panic
    BY <1>3 DEF InsertAnnouncement, InsertWithdrawal, Discard, InsertStep
  <2>2. m \in MessagesOf(KnownIds) \ {Panic}
    BY <2>1, HeadTailProperties DEF RoutesInv
  <2>3. m.peerID \in Ids /\ m.net \in Nets \cup {<<>>} /\ m.origin \in Origins
    BY <2>2 DEF MessagesOf, KnownIds
  <2>4. ASSUME NEW p \in Ids, NEW x \in Nets, NEW route \in Origins \cup {NoRoute},
               Trie!Announce(p, x, route)
        PROVE  \A id \in Ids, n \in Nets :
                 /\ p = id /\ x = n => table'[id][n] = route
                 /\ ~(p = id /\ x = n) => table'[id][n] = table[id][n]
    <3>1. /\ table'[p] = [table[p] EXCEPT ![x] = route]
          /\ \A i \in Ids : i # p => table'[i] = table[i]
          /\ \A i \in Ids : table[i] = [n \in Nets |-> table[i][n]]
      BY <2>4 DEF RoutesInv, Trie!TypeOK, Trie!Announce
    <3> QED
      BY <3>1
  <2>5. CASE InsertAnnouncement
    <3>1. m.net \in Nets /\ m.isAnnouncement
          /\ Trie!Announce(m.peerID, m.net, m.origin)
      BY <2>3, <2>5 DEF InsertAnnouncement
    <3>2. RouteOf(m) = m.origin
      BY <3>1 DEF RouteOf
    <3> HIDE DEF m
    <3>3. \A id \in Ids, n \in Nets :
            /\ m.peerID = id /\ m.net = n => table'[id][n] = m.origin
            /\ ~(m.peerID = id /\ m.net = n) => table'[id][n] = table[id][n]
      BY <2>3, <2>4, <3>1
    <3> QED
      BY <1>1, <2>1, <2>2, <3>2, <3>3 DEF m
  <2>6. CASE InsertWithdrawal
    <3>1. m.net \in Nets /\ ~m.isAnnouncement
          /\ Trie!Announce(m.peerID, m.net, NoRoute)
      BY <2>3, <2>6 DEF InsertWithdrawal, Trie!Withdraw, Trie!Announce
    <3>2. RouteOf(m) = NoRoute
      BY <3>1 DEF RouteOf
    <3> HIDE DEF m
    <3>3. \A id \in Ids, n \in Nets :
            /\ m.peerID = id /\ m.net = n => table'[id][n] = NoRoute
            /\ ~(m.peerID = id /\ m.net = n) => table'[id][n] = table[id][n]
      BY <2>3, <2>4, <3>1
    <3> QED
      BY <1>1, <2>1, <2>2, <3>2, <3>3 DEF m
  <2>7. CASE Discard
    <3>1. m.net = <<>> /\ table' = table
      BY <2>7 DEF Discard
    <3>2. <<>> \notin Nets
      BY DEF Nets
    <3> QED
      BY <1>1, <2>1, <2>2, <3>1, <3>2
  <2> QED
    BY <1>3, <2>5, <2>6, <2>7
<1> QED
  BY <1>2, <1>3 DEF Insert

(* The IDs of the messages of a record are known; here only that they are  *)
(* some IDs matters.                                                       *)
LEMMA ReadingMentions ==
  ASSUME PeersInv, NEW r, Reading(r)
  PROVE  Mentions(r, todo')
<1>1. CASE todo' = <<>>
  BY <1>1 DEF Mentions
<1>2. CASE r.type = "rib" /\ r \in Record(IPs, PeerASes) /\ todo' = MessagesOfRib(r, ourPeers)
  BY <1>2, RibMentions
<1>3. CASE r.type = "update" /\ r \in Record(IPs, PeerASes)
           /\ todo' = MessagesOfUpdate(r, peermapByIP'[r.ip].id)
  <2> DEFINE id == peermapByIP'[r.ip].id
  <2>1. id \in {id}
    OBVIOUS
  <2> HIDE DEF id
  <2>2. Mentions(r, MessagesOfUpdate(r, id))
    BY <1>3, <2>1, UpdateMentions
  <2> QED
    BY <1>3, <2>2 DEF id
<1>4. CASE r \in RisMessages /\ todo' = MessagesOfRis(r, peermapByIP'[r.ip].id)
  <2> DEFINE id == peermapByIP'[r.ip].id
  <2>1. id \in {id}
    OBVIOUS
  <2> HIDE DEF id
  <2>2. Mentions(r, MessagesOfRis(r, id))
    BY <1>4, <2>1, RisMentions
  <2> QED
    BY <1>4, <2>2 DEF id
<1> QED
  BY <1>1, <1>2, <1>3, <1>4 DEF Reading

LEMMA NextKeepsMentionedInv ==
  ASSUME PeersInv, FilesInv, RoutesInv, read \in Seq(Readings), MentionedInv, [Next]_vars
  PROVE  MentionedInv'
<1>0. \A s \in Subnets4 : Bits[s] \in Nets
  BY NetOfSubnet
<1>1. CASE QuietStep
  BY <1>1 DEF QuietStep, MentionedInv, WasMentioned
<1>2. CASE Insert
  <2>1. UNCHANGED read
    BY <1>2, InsertEffect
  <2>2. \A o, s : WasMentioned(o, s) => WasMentioned(o, s)'
    BY <2>1 DEF WasMentioned
  <2>3. CASE todo' = <<>> /\ UNCHANGED table
    BY <2>1, <2>3 DEF MentionedInv, WasMentioned
  <2>4. CASE /\ todo # <<>> /\ todo' = Tail(todo)
             /\ Head(todo) # Panic
             /\ \A id \in Ids, n \in Nets :
                  table'[id][n] = IF Head(todo).peerID = id /\ Head(todo).net = n
                                  THEN RouteOf(Head(todo)) ELSE table[id][n]
    <3> DEFINE m == Head(todo)
    <3>1. /\ Len(todo) \in Nat \ {0} /\ DOMAIN todo = 1..Len(todo) /\ m = todo[1]
          /\ DOMAIN todo' = 1..(Len(todo) - 1)
          /\ \A k \in 1..(Len(todo) - 1) : todo'[k] = todo[k + 1]
      BY <2>4, EmptySeq, LenProperties, HeadTailProperties DEF RoutesInv
    <3>2. 1 \in DOMAIN todo
      BY <3>1
    <3>3. \A s \in Subnets4 : m.isAnnouncement /\ m.net = Bits[s] => WasMentioned(m.origin, s)
      BY <2>4, <3>1, <3>2 DEF MentionedInv
    <3> HIDE DEF m
    <3>4. ASSUME NEW id \in Ids, NEW s \in Subnets4, table'[id][Bits[s]] # NoRoute
          PROVE  WasMentioned(table'[id][Bits[s]], s)
      <4>1. CASE m.peerID = id /\ m.net = Bits[s]
        <5>1. table'[id][Bits[s]] = RouteOf(m)
          BY <1>0, <2>4, <4>1 DEF m
        <5>2. m.isAnnouncement /\ RouteOf(m) = m.origin
          BY <3>4, <5>1 DEF RouteOf
        <5> QED
          BY <3>3, <4>1, <5>1, <5>2
      <4>2. CASE ~(m.peerID = id /\ m.net = Bits[s])
        <5>1. table'[id][Bits[s]] = table[id][Bits[s]]
          BY <1>0, <2>4, <4>2 DEF m
        <5> QED
          BY <3>4, <5>1 DEF MentionedInv
      <4> QED
        BY <4>1, <4>2
    <3>5. ASSUME NEW k \in DOMAIN todo', NEW s \in Subnets4,
                 todo'[k] # Panic, todo'[k].isAnnouncement, todo'[k].net = Bits[s]
          PROVE  WasMentioned(todo'[k].origin, s)
      <4>1. k + 1 \in DOMAIN todo /\ todo'[k] = todo[k + 1]
        BY <3>1
      <4> QED
        BY <3>5, <4>1 DEF MentionedInv
    <3> QED
      BY <2>1, <3>4, <3>5 DEF MentionedInv, WasMentioned
  <2> QED
    BY <1>2, <2>3, <2>4, InsertEffect
<1>3. ASSUME NEW r, Reading(r)
      PROVE  MentionedInv'
  <2>1. read' = Append(read, r) /\ r \in Readings /\ UNCHANGED table
    BY <1>3 DEF Reading
  <2>2. ASSUME NEW o, NEW s
        PROVE  /\ WasMentioned(o, s) => WasMentioned(o, s)'
               /\ o \in Mentioned(r, s) => WasMentioned(o, s)'
    BY <2>1, MentionedStays
  <2>3. ASSUME NEW id \in Ids, NEW s \in Subnets4, table'[id][Bits[s]] # NoRoute,
               NEW o, o = table'[id][Bits[s]]
        PROVE  WasMentioned(o, s)'
    <3>1. WasMentioned(o, s)
      BY <2>1, <2>3 DEF MentionedInv
    <3> QED
      BY <2>2, <3>1
  <2>4. ASSUME NEW k \in DOMAIN todo', NEW s \in Subnets4, NEW o, o = todo'[k].origin,
               todo'[k] # Panic, todo'[k].isAnnouncement, todo'[k].net = Bits[s]
        PROVE  WasMentioned(o, s)'
    <3>1. o \in Mentioned(r, s)
      BY <1>3, <2>4, ReadingMentions DEF Mentions
    <3> QED
      BY <2>2, <3>1
  <2> QED
    BY <2>3, <2>4 DEF MentionedInv, WasMentioned
<1> QED
  BY <1>1, <1>2, <1>3, StepKinds

(* Every origin in the trie has been announced for just its subnet, by     *)
(* some record that has been read: the origin that an entry without a path *)
(* takes over is one of its own record, and the bits of a subnet are those *)
(* of no other one.                                                        *)
THEOREM NoInventedRouteAlways == Spec => []NoInventedRoute
<1>1. Init => MentionedInv
  <2> SUFFICES ASSUME Init
               PROVE  MentionedInv
    OBVIOUS
  <2>1. table = [p \in Ids |-> [n \in Nets |-> NoRoute]] /\ DOMAIN todo = {}
    BY DEF Init, FilesInit, Trie!Init
  <2>2. \A s \in Subnets4 : Bits[s] \in Nets
    BY NetOfSubnet
  <2> QED
    BY <2>1, <2>2 DEF MentionedInv
<1>2. FoundInv => read \in Seq(Readings)
  BY DEF FoundInv
<1>3. PeersInv /\ FilesInv /\ RoutesInv /\ FoundInv /\ MentionedInv /\ [Next]_vars
        => PeersInv' /\ FilesInv' /\ RoutesInv' /\ FoundInv' /\ MentionedInv'
  BY <1>2, NextKeepsInv, NextIsSessionStep, NextKeepsFoundInv, NextKeepsMentionedInv
<1>4. MentionedInv => NoInventedRoute
  BY DEF MentionedInv, NoInventedRoute, WasMentioned, Subnets4
<1>5. Init => PeersInv /\ FilesInv /\ RoutesInv /\ FoundInv
  BY InitInv, InitRoutesInv, InitFoundInv
<1> QED
  BY <1>1, <1>3, <1>4, <1>5, PTL DEF Spec

-----------------------------------------------------------------------------
(* The last record that mentions a peer and a subnet decides.              *)

(* What q leaves behind for peer id and net n is in "leaves"; and nothing, *)
(* if there is nothing in "leaves".                                        *)
LastSays(leaves, q, id, n) ==
  \/ leaves = {} /\ About(q, id, n) = {}
  \/ \E k \in About(q, id, n) : /\ \A j \in About(q, id, n) : j <= k
                                /\ RouteOf(q[k]) \in leaves

NoPanic(q) == \A k \in DOMAIN q : q[k] # Panic

LEMMA AfterSays ==
  ASSUME NEW N \in Nat, NEW q, DOMAIN q = 1..N, NEW id, NEW n, NEW leaves,
         LastSays(leaves, q, id, n), NEW before
  PROVE  /\ leaves = {} => After(q, id, n, before) = before
         /\ leaves # {} => After(q, id, n, before) \in leaves
<1> DEFINE A == About(q, id, n)
<1>1. A \in SUBSET Nat
  BY DEF About
<1> HIDE DEF A
<1>2. CASE A = {}
  BY <1>2 DEF LastSays, After, A
<1>3. CASE A # {}
  <2>1. PICK k \in A : (\A j \in A : j <= k) /\ RouteOf(q[k]) \in leaves
    BY <1>3 DEF LastSays, A
  <2>2. Max(A) = k
    BY <1>1, <2>1, MaxIs
  <2> QED
    BY <1>3, <2>1, <2>2 DEF After, A
<1> QED
  BY <1>2, <1>3

LEMMA UpdateSays ==
  ASSUME NEW u \in Record(IPs, PeerASes), u.type = "update", NEW id,
         NoPanic(MessagesOfUpdate(u, id)), NEW s \in Subnets4
  PROVE  /\ LastSays(Leaves(u, u.ip, s), MessagesOfUpdate(u, id), id, Bits[s])
         /\ \A i : i # id => About(MessagesOfUpdate(u, id), i, Bits[s]) = {}
<1> DEFINE q == MessagesOfUpdate(u, id)
           a == Len(u.announced)
           w == Len(u.withdrawn)
           o == SetASpath(u.attributes)
           A == About(q, id, Bits[s])
<1>0. id \in {id}
  OBVIOUS
<1>1. /\ a \in Nat /\ w \in Nat /\ DOMAIN q = 1..(a + w)
      /\ \A k \in 1..a : /\ u.announced[k] \in IPNets
                         /\ o = Panic => q[k] = Panic
                         /\ o # Panic => q[k] = NewMessage(u.announced[k], TRUE, id, o)
      /\ \A k \in 1..w : /\ u.withdrawn[k] \in IPNets
                         /\ q[a + k] = NewMessage(u.withdrawn[k], FALSE, id, 0)
  BY <1>0, UpdateAt
<1>2. u.attributes \in Seq(Attribute) /\ DOMAIN u.announced = 1..a /\ DOMAIN u.withdrawn = 1..w
  BY RecordTypes, LenProperties
<1>3. NoPanic(q)
  OBVIOUS
<1>4. Leaves(u, u.ip, s) = IF s \in ToSet(u.withdrawn) THEN {NoRoute}
                           ELSE IF s \in ToSet(u.announced) THEN OriginsOf(u.attributes)
                           ELSE {}
  BY DEF Leaves
<1> HIDE DEF q, a, w, o
<1>5. ASSUME NEW k \in 1..(a + w)
      PROVE  k \in 1..a \/ (k - a \in 1..w /\ a + (k - a) = k)
  BY <1>1
<1>6. ASSUME NEW k \in 1..a
      PROVE  /\ k \in 1..(a + w) /\ o # Panic /\ q[k] = NewMessage(u.announced[k], TRUE, id, o)
             /\ k \in A <=> u.announced[k] = s
  <2>1. k \in 1..(a + w) /\ k \in DOMAIN q
    BY <1>1
  <2>2. o # Panic /\ q[k] = NewMessage(u.announced[k], TRUE, id, o)
    BY <1>1, <1>3, <2>1 DEF NoPanic
  <2> QED
    BY <1>1, <2>1, <2>2, SameNet DEF About, NewMessage
<1>7. ASSUME NEW k \in 1..w
      PROVE  /\ a + k \in 1..(a + w) /\ q[a + k] = NewMessage(u.withdrawn[k], FALSE, id, 0)
             /\ a + k \in A <=> u.withdrawn[k] = s
  <2>1. a + k \in 1..(a + w) /\ a + k \in DOMAIN q
    BY <1>1
  <2>2. q[a + k] = NewMessage(u.withdrawn[k], FALSE, id, 0)
    BY <1>1
  <2> QED
    BY <1>1, <2>1, <2>2, SameNet DEF About, NewMessage
<1>8. ASSUME NEW i, i # id
      PROVE  About(q, i, Bits[s]) = {}
  <2> SUFFICES ASSUME NEW k \in About(q, i, Bits[s])
               PROVE  FALSE
    OBVIOUS
  <2>1. k \in 1..(a + w) /\ q[k].peerID = i
    BY <1>1 DEF About
  <2> HIDE DEF A
  <2>2. CASE k \in 1..a
    <3>1. q[k] = NewMessage(u.announced[k], TRUE, id, o)
      BY <1>6, <2>2
    <3> QED
      BY <1>8, <2>1, <3>1 DEF NewMessage
  <2>3. CASE k - a \in 1..w /\ a + (k - a) = k
    <3>1. q[k] = NewMessage(u.withdrawn[k - a], FALSE, id, 0)
      BY <1>7, <2>3
    <3> QED
      BY <1>8, <2>1, <3>1 DEF NewMessage
  <2> QED
    BY <1>5, <2>1, <2>2, <2>3
<1>9. A \in SUBSET (1..(a + w)) /\ a + w \in Nat
  BY <1>1 DEF About
<1> DEFINE L == Leaves(u, u.ip, s)
<1> SUFFICES LastSays(L, q, id, Bits[s])
  BY <1>8 DEF q
<1> HIDE DEF L, A
<1>10. ASSUME A # {}
       PROVE  \E k \in A : /\ \A j \in A : j <= k
                           /\ k \in 1..a \/ (k - a \in 1..w /\ a + (k - a) = k)
  <2>1. PICK k \in A : \A j \in A : j <= k
    BY <1>9, <1>10, LastPosition
  <2> QED
    BY <1>5, <1>9, <2>1
<1>11. CASE s \in ToSet(u.withdrawn)
  <2>1. PICK l \in 1..w : u.withdrawn[l] = s
    BY <1>2, <1>11 DEF ToSet
  <2>2. a + l \in A
    BY <1>7, <2>1
  <2>3. PICK k \in A : /\ \A j \in A : j <= k
                       /\ k \in 1..a \/ (k - a \in 1..w /\ a + (k - a) = k)
    BY <1>10, <2>2
  <2>4. k \notin 1..a
    <3>1. a + l <= k
      BY <2>2, <2>3
    <3> QED
      BY <1>1, <3>1
  <2>5. q[k] = NewMessage(u.withdrawn[k - a], FALSE, id, 0)
    BY <1>7, <2>3, <2>4
  <2>6. RouteOf(q[k]) = NoRoute
    BY <2>5 DEF NewMessage, RouteOf
  <2> QED
    BY <1>4, <1>11, <2>3, <2>6 DEF LastSays, A, L
<1>12. CASE s \notin ToSet(u.withdrawn) /\ s \in ToSet(u.announced)
  <2>1. PICK l \in 1..a : u.announced[l] = s
    BY <1>2, <1>12 DEF ToSet
  <2>2. l \in A
    BY <1>6, <2>1
  <2>3. PICK k \in A : /\ \A j \in A : j <= k
                       /\ k \in 1..a \/ (k - a \in 1..w /\ a + (k - a) = k)
    BY <1>10, <2>2
  <2>4. k \in 1..a
    <3> SUFFICES ASSUME k - a \in 1..w, a + (k - a) = k
                 PROVE  FALSE
      BY <2>3
    <3>1. u.withdrawn[k - a] = s
      BY <1>7, <2>3
    <3> QED
      BY <1>2, <1>12, <3>1 DEF ToSet
  <2>5. RouteOf(q[k]) = o /\ o # Panic
    <3>1. q[k] = NewMessage(u.announced[k], TRUE, id, o) /\ o # Panic
      BY <1>6, <2>4
    <3> QED
      BY <3>1 DEF NewMessage, RouteOf
  <2>6. o \in OriginsOf(u.attributes)
    <3>1. o \in Origins
      BY <1>2, <2>5, SetASpathType DEF o
    <3> QED
      BY <1>2, <2>5, <3>1, SetASpathInOrigins DEF o
  <2> QED
    BY <1>4, <1>12, <2>3, <2>5, <2>6 DEF LastSays, A, L
<1>13. CASE s \notin ToSet(u.withdrawn) /\ s \notin ToSet(u.announced)
  <2>1. A = {}
    <3> SUFFICES ASSUME NEW k \in A
                 PROVE  FALSE
      OBVIOUS
    <3>1. CASE k \in 1..a
      BY <1>2, <1>6, <1>13, <3>1 DEF ToSet
    <3>2. CASE k - a \in 1..w /\ a + (k - a) = k
      BY <1>2, <1>7, <1>13, <3>2 DEF ToSet
    <3> QED
      BY <1>5, <1>9, <3>1, <3>2
  <2> QED
    BY <1>4, <1>13, <2>1 DEF LastSays, A, L
<1> QED
  BY <1>11, <1>12, <1>13

LEMMA RisSays ==
  ASSUME NEW r \in RisMessages, NEW id, NoPanic(MessagesOfRis(r, id)), NEW s \in Subnets4
  PROVE  /\ LastSays(Leaves(r, r.ip, s), MessagesOfRis(r, id), id, Bits[s])
         /\ \A i : i # id => About(MessagesOfRis(r, id), i, Bits[s]) = {}
<1> DEFINE q == MessagesOfRis(r, id)
           o == OriginOfDigestedPath(r.path)
           p == IF r.announcements = <<>> \/ o = 0 THEN <<>> ELSE r.announcements[1]
           a == Len(p)
           w == Len(r.withdrawals)
           A == About(q, id, Bits[s])
           L == Leaves(r, r.ip, s)
<1>0. id \in {id}
  OBVIOUS
<1>1. \/ q = <<Panic>>
      \/ /\ a \in Nat /\ w \in Nat /\ DOMAIN q = 1..(w + a)
         /\ \A k \in 1..w : /\ r.withdrawals[k] \in IPNets
                            /\ q[k] = NewMessage(r.withdrawals[k], FALSE, id, 0)
         /\ \A k \in 1..a : p[k] \in IPNets /\ q[w + k] = NewMessage(p[k], TRUE, id, o)
  BY <1>0, RisAt
<1>2. /\ r.announcements \in Seq(Seq(IPNets)) /\ r.type = "ris"
      /\ r.withdrawals \in Seq(IPNets)
      /\ r.path \in Seq(Seq(ASes) \cup {Undecodable})
  BY LiveAssumption DEF RisMessage
<1>3. q # <<Panic>>
  <2>1. DOMAIN <<Panic>> = {1} /\ <<Panic>>[1] = Panic
    OBVIOUS
  <2>2. NoPanic(q)
    OBVIOUS
  <2> HIDE DEF q
  <2> QED
    BY <2>1, <2>2 DEF NoPanic
<1>4. L = IF AnnouncedBy(r, s) THEN OriginsOfPath(r.path)
          ELSE IF s \in ToSet(r.withdrawals) THEN {NoRoute}
          ELSE {}
  BY <1>2 DEF Leaves
<1>5. p \in Seq(IPNets) /\ DOMAIN p = 1..a /\ DOMAIN r.withdrawals = 1..w
  <2>1. CASE r.announcements = <<>> \/ o = 0
    <3>1. p = <<>>
      BY <2>1
    <3> QED
      BY <1>2, <3>1, EmptySeq, LenProperties
  <2>2. CASE r.announcements # <<>> /\ o # 0
    <3>1. 1 \in 1..Len(r.announcements)
      BY <1>2, <2>2, LenProperties, EmptySeq
    <3>2. r.announcements[1] \in Seq(IPNets)
      BY <1>2, <3>1, ElementOfSeq
    <3> QED
      BY <1>2, <2>2, <3>2, LenProperties
  <2> QED
    BY <2>1, <2>2
<1>6. AnnouncedBy(r, s) <=> s \in ToSet(p)
  <2>1. o # 0 <=> HasOrigin(r.path)
    BY <1>2, OriginOfPath
  <2>2. ToSet(<<>>) = {}
    BY DEF ToSet
  <2> QED
    BY <2>1, <2>2 DEF AnnouncedBy, HasOrigin
<1>7. AnnouncedBy(r, s) => o \in OriginsOfPath(r.path)
  BY <1>2, OriginOfPath DEF AnnouncedBy, HasOrigin
<1> HIDE DEF q, a, w, o, p
<1>8. /\ a \in Nat /\ w \in Nat /\ DOMAIN q = 1..(w + a)
      /\ \A k \in 1..w : /\ r.withdrawals[k] \in IPNets
                         /\ q[k] = NewMessage(r.withdrawals[k], FALSE, id, 0)
      /\ \A k \in 1..a : p[k] \in IPNets /\ q[w + k] = NewMessage(p[k], TRUE, id, o)
  BY <1>1, <1>3
<1>9. ASSUME NEW k \in 1..(w + a)
      PROVE  k \in 1..w \/ (k - w \in 1..a /\ w + (k - w) = k)
  BY <1>8
<1>10. ASSUME NEW k \in 1..w
       PROVE  /\ q[k] = NewMessage(r.withdrawals[k], FALSE, id, 0)
              /\ k \in A <=> r.withdrawals[k] = s
  <2>1. k \in 1..(w + a) /\ k \in DOMAIN q
    BY <1>8
  <2>2. q[k] = NewMessage(r.withdrawals[k], FALSE, id, 0) /\ r.withdrawals[k] \in IPNets
    BY <1>8
  <2> QED
    BY <2>1, <2>2, SameNet DEF About, NewMessage
<1>11. ASSUME NEW k \in 1..a
       PROVE  /\ q[w + k] = NewMessage(p[k], TRUE, id, o)
              /\ w + k \in A <=> p[k] = s
  <2>1. w + k \in 1..(w + a) /\ w + k \in DOMAIN q
    BY <1>8
  <2>2. q[w + k] = NewMessage(p[k], TRUE, id, o)
    BY <1>8
  <2> QED
    BY <1>8, <2>1, <2>2, SameNet DEF About, NewMessage
<1>12. ASSUME NEW i, i # id
       PROVE  About(q, i, Bits[s]) = {}
  <2> SUFFICES ASSUME NEW k \in About(q, i, Bits[s])
               PROVE  FALSE
    OBVIOUS
  <2>1. k \in 1..(w + a) /\ q[k].peerID = i
    BY <1>8 DEF About
  <2> HIDE DEF A
  <2>2. CASE k \in 1..w
    <3>1. q[k] = NewMessage(r.withdrawals[k], FALSE, id, 0)
      BY <1>10, <2>2
    <3> QED
      BY <1>12, <2>1, <3>1 DEF NewMessage
  <2>3. CASE k - w \in 1..a /\ w + (k - w) = k
    <3>1. q[k] = NewMessage(p[k - w], TRUE, id, o)
      BY <1>11, <2>3
    <3> QED
      BY <1>12, <2>1, <3>1 DEF NewMessage
  <2> QED
    BY <1>9, <2>1, <2>2, <2>3
<1>13. A \in SUBSET (1..(w + a)) /\ w + a \in Nat
  BY <1>8 DEF About
<1> SUFFICES LastSays(L, q, id, Bits[s])
  BY <1>12 DEF q
<1> HIDE DEF L, A
<1>14. ASSUME A # {}
       PROVE  \E k \in A : /\ \A j \in A : j <= k
                           /\ k \in 1..w \/ (k - w \in 1..a /\ w + (k - w) = k)
  <2>1. PICK k \in A : \A j \in A : j <= k
    BY <1>13, <1>14, LastPosition
  <2> QED
    BY <1>9, <1>13, <2>1
<1>15. CASE AnnouncedBy(r, s)
  <2>1. PICK l \in 1..a : p[l] = s
    BY <1>5, <1>6, <1>15 DEF ToSet
  <2>2. w + l \in A
    BY <1>11, <2>1
  <2>3. PICK k \in A : /\ \A j \in A : j <= k
                       /\ k \in 1..w \/ (k - w \in 1..a /\ w + (k - w) = k)
    BY <1>14, <2>2
  <2>4. k \notin 1..w
    <3>1. w + l <= k
      BY <2>2, <2>3
    <3> QED
      BY <1>8, <3>1
  <2>5. q[k] = NewMessage(p[k - w], TRUE, id, o)
    BY <1>11, <2>3, <2>4
  <2>6. RouteOf(q[k]) = o
    BY <2>5 DEF NewMessage, RouteOf
  <2> QED
    BY <1>4, <1>7, <1>15, <2>3, <2>6 DEF LastSays, A
<1>16. CASE ~AnnouncedBy(r, s) /\ s \in ToSet(r.withdrawals)
  <2>1. PICK l \in 1..w : r.withdrawals[l] = s
    BY <1>5, <1>16 DEF ToSet
  <2>2. l \in A
    BY <1>10, <2>1
  <2>3. PICK k \in A : /\ \A j \in A : j <= k
                       /\ k \in 1..w \/ (k - w \in 1..a /\ w + (k - w) = k)
    BY <1>14, <2>2
  <2>4. k \in 1..w
    <3> SUFFICES ASSUME k - w \in 1..a, w + (k - w) = k
                 PROVE  FALSE
      BY <2>3
    <3>1. p[k - w] = s
      BY <1>11, <2>3
    <3> QED
      BY <1>5, <1>6, <1>16, <3>1 DEF ToSet
  <2>5. q[k] = NewMessage(r.withdrawals[k], FALSE, id, 0)
    BY <1>10, <2>4
  <2>6. RouteOf(q[k]) = NoRoute
    BY <2>5 DEF NewMessage, RouteOf
  <2> QED
    BY <1>4, <1>16, <2>3, <2>6 DEF LastSays, A
<1>17. CASE ~AnnouncedBy(r, s) /\ s \notin ToSet(r.withdrawals)
  <2>1. A = {}
    <3> SUFFICES ASSUME NEW k \in A
                 PROVE  FALSE
      OBVIOUS
    <3>1. CASE k \in 1..w
      BY <1>5, <1>10, <1>17, <3>1 DEF ToSet
    <3>2. CASE k - w \in 1..a /\ w + (k - w) = k
      <4>1. p[k - w] = s
        BY <1>11, <3>2
      <4> QED
        BY <1>5, <1>6, <1>17, <3>2, <4>1 DEF ToSet
    <3> QED
      BY <1>9, <1>13, <3>1, <3>2
  <2> QED
    BY <1>4, <1>17, <2>1 DEF LastSays, A
<1> QED
  BY <1>15, <1>16, <1>17

-----------------------------------------------------------------------------
(* The table of the RIB and the peers.                                     *)

(* While the RIB is read, the peers are those of its table, and the map    *)
(* leads to the last position of an address.                               *)
TableInv ==
  pc \in Early =>
    /\ DOMAIN TablePeers = 1..highestPeerId
    /\ \A k \in 1..highestPeerId :
         /\ ourPeers[k].ip = TablePeers[k].ip
         /\ ~Repeated(k) => /\ TablePeers[k].ip \in DOMAIN peermapByIP
                            /\ peermapByIP[TablePeers[k].ip] = ourPeers[k]

(* The peers of the RIB records have been in the table before: an index    *)
(* beyond it panics.                                                       *)
SettledInv ==
  pc \notin Over /\ NoPanic(todo) =>
    \A k \in DOMAIN read : read[k].type = "rib" =>
      \A j \in DOMAIN read[k].entries : read[k].entries[j].index + 1 \in DOMAIN TablePeers

(* The place of a peer in the table is told by its ID.                     *)
LEMMA PlaceOfId ==
  ASSUME PeersInv, TableInv, IdsFit, pc \in Early,
         NEW ip \in DOMAIN peermapByIP, NEW k \in 1..highestPeerId
  PROVE  ourPeers[k].id = peermapByIP[ip].id <=> TablePeers[k].ip = ip /\ ~Repeated(k)
<1> DEFINE At == {j \in 1..highestPeerId : TablePeers[j].ip = ip}
<1>1. PICK m \in 1..highestPeerId : peermapByIP[ip] = ourPeers[m]
  BY DEF PeersInv
<1>2. m \in At /\ At \in SUBSET (1..highestPeerId) /\ highestPeerId \in Nat
  BY <1>1 DEF PeersInv, TableInv
<1>3. PICK l \in At : \A j \in At : j <= l
  <2> HIDE DEF At
  <2> QED
    BY <1>2, LastPosition
<1>4. ~Repeated(l)
  <2>1. \A j \in 1..highestPeerId : TablePeers[j].ip = ip => ~(j > l)
    BY <1>2, <1>3
  <2> QED
    BY <1>3, <2>1 DEF Repeated, TableInv
<1>5. peermapByIP[ip] = ourPeers[l]
  BY <1>3, <1>4 DEF TableInv
<1>6. ourPeers[k].id = ourPeers[l].id => k = l
  <2>1. ourPeers[k].id = (k - 1) % IdCount /\ ourPeers[l].id = (l - 1) % IdCount
    BY <1>3 DEF PeersInv
  <2>2. /\ k - 1 \in Nat /\ k - 1 < IdCount
        /\ l - 1 \in Nat /\ l - 1 < IdCount
        /\ k \in Nat /\ l \in Nat
    BY <1>2, <1>3, PeersAssumption DEF IdsFit
  <2>3. (k - 1) % IdCount = k - 1 /\ (l - 1) % IdCount = l - 1
    BY <2>2, IdOfCounter
  <2> QED
    BY <2>1, <2>2, <2>3
<1>7. ASSUME TablePeers[k].ip = ip, ~Repeated(k)
      PROVE  k = l
  <2>1. k <= l
    BY <1>3, <1>7
  <2>2. ~(l > k)
    BY <1>3, <1>7 DEF Repeated, TableInv
  <2> QED
    BY <1>2, <2>1, <2>2
<1> QED
  BY <1>3, <1>4, <1>5, <1>6, <1>7

(* A message for an index beyond the table is a panic.                     *)
LEMMA RibIndexes ==
  ASSUME PeersInv, TableInv, pc \in Early, NEW r \in Record(IPs, PeerASes), r.type = "rib",
         NoPanic(MessagesOfRib(r, ourPeers))
  PROVE  \A j \in DOMAIN r.entries : r.entries[j].index + 1 \in DOMAIN TablePeers
<1>1. DOMAIN r.entries = 1..Len(r.entries) /\ DOMAIN MessagesOfRib(r, ourPeers) = DOMAIN r.entries
  BY RecordTypes, LenProperties DEF MessagesOfRib
<1> SUFFICES ASSUME NEW j \in DOMAIN r.entries
             PROVE  r.entries[j].index + 1 \in DOMAIN TablePeers
  OBVIOUS
<1>2. MessagesOfRib(r, ourPeers)[j] # Panic
  BY <1>1 DEF NoPanic
<1>3. r.entries[j].index + 1 \in 1..highestPeerId
  BY <1>1, <1>2, RibAt
<1> QED
  BY <1>3 DEF TableInv

LEMMA RibSays ==
  ASSUME PeersInv, TableInv, IdsFit, pc \in Early,
         NEW r \in Record(IPs, PeerASes), r.type = "rib",
         NoPanic(MessagesOfRib(r, ourPeers)), NEW s \in Subnets4
  PROVE  /\ \A ip \in DOMAIN peermapByIP :
              LastSays(Leaves(r, ip, s), MessagesOfRib(r, ourPeers), peermapByIP[ip].id, Bits[s])
         /\ \A ip : ip \notin DOMAIN peermapByIP => Leaves(r, ip, s) = {}
<1> DEFINE q == MessagesOfRib(r, ourPeers)
           E == Len(r.entries)
           setter(k) == SetASpath(r.entries[k].attributes)
           place(k) == r.entries[k].index + 1
           origins(k) == OriginsOf(r.entries[k].attributes)
           Of(ip) == {k \in 1..E : TablePeers[place(k)].ip = ip /\ ~Repeated(place(k))}
<1>1. DOMAIN r.entries = 1..E /\ E \in Nat /\ DOMAIN q = 1..E /\ r.prefix \in IPNets
  BY RecordTypes, LenProperties DEF MessagesOfRib
<1>2. ASSUME NEW k \in 1..E
      PROVE  /\ place(k) \in 1..highestPeerId
             /\ r.entries[k].attributes \in Seq(Attribute)
             /\ \E j \in 1..k : /\ setter(j) \in Origins
                                /\ setter(k) # 0 => j = k
                                /\ q[k] = NewMessage(r.prefix, TRUE, ourPeers[place(k)].id, setter(j))
  <2>1. q[k] # Panic
    BY <1>1 DEF NoPanic
  <2>2. r.entries[k] \in [index : Nat, attributes : Seq(Attribute)]
    BY RecordTypes, ElementOfSeq
  <2> QED
    BY <2>1, <2>2, RibAt
<1>3. ASSUME NEW k \in 1..E
      PROVE  q[k].isAnnouncement /\ q[k].origin \in origins(k) /\ q[k].net = Bits[r.prefix]
             /\ q[k].peerID = ourPeers[place(k)].id
  <2>1. PICK j \in 1..k : /\ setter(j) \in Origins
                          /\ setter(k) # 0 => j = k
                          /\ q[k] = NewMessage(r.prefix, TRUE, ourPeers[place(k)].id, setter(j))
    BY <1>2
  <2>2. setter(k) # Panic
    <3>1. Origins \subseteq Nat
      BY MessagesAssumption DEF Origins
    <3> HIDE DEF setter, origins, q, place
    <3>2. setter(j) # Panic /\ 0 # Panic
      <4>1. Panic \notin Nat /\ 0 \in Nat
        BY MessagesAssumption
      <4>2. setter(j) \in Nat
        BY <2>1, <3>1
      <4> QED
        BY <4>1, <4>2
    <3>3. setter(k) # 0 => setter(k) = setter(j)
      BY <2>1
    <3> QED
      BY <3>2, <3>3
  <2>3. origins(k) = Origins \/ (setter(k) # 0 /\ origins(k) = {setter(k)})
    BY <1>2, <2>2, SetASpathInOrigins
  <2> HIDE DEF origins, setter, q
  <2> QED
    BY <2>1, <2>3 DEF NewMessage
<1>4. ASSUME NEW ip
      PROVE  Leaves(r, ip, s) = IF r.prefix = s THEN UNION {origins(k) : k \in Of(ip)} ELSE {}
  <2>1. {e \in ToSet(r.entries) : TablePeers[e.index + 1].ip = ip /\ ~Repeated(e.index + 1)}
          = {r.entries[k] : k \in Of(ip)}
    BY <1>1 DEF ToSet
  <2>2. UNION {OriginsOf(e.attributes) : e \in {r.entries[k] : k \in Of(ip)}}
          = UNION {origins(k) : k \in Of(ip)}
    BY Zenon
  <2> QED
    BY <2>1, <2>2 DEF Leaves
<1>5. ASSUME NEW ip \in DOMAIN peermapByIP
      PROVE  About(q, peermapByIP[ip].id, Bits[s]) = IF r.prefix = s THEN Of(ip) ELSE {}
  <2>1. ASSUME NEW k \in 1..E
        PROVE  q[k].peerID = peermapByIP[ip].id <=> k \in Of(ip)
    <3>1. place(k) \in 1..highestPeerId /\ q[k].peerID = ourPeers[place(k)].id
      BY <1>2, <1>3
    <3> DEFINE l == place(k)
    <3> HIDE DEF q
    <3>2. k \in Of(ip) <=> TablePeers[l].ip = ip /\ ~Repeated(l)
      OBVIOUS
    <3> HIDE DEF l
    <3>3. ourPeers[l].id = peermapByIP[ip].id <=> TablePeers[l].ip = ip /\ ~Repeated(l)
      BY <3>1, PlaceOfId DEF l
    <3> QED
      BY <3>1, <3>2, <3>3 DEF l
  <2>2. ASSUME NEW k \in 1..E
        PROVE  q[k].net = Bits[s] <=> r.prefix = s
    BY <1>1, <1>3, SameNet
  <2> QED
    BY <1>1, <2>1, <2>2 DEF About
<1>6. ASSUME NEW ip, ip \notin DOMAIN peermapByIP
      PROVE  Of(ip) = {}
  BY <1>2, <1>6 DEF TableInv
<1> HIDE DEF q, origins, setter
<1>7. ASSUME NEW ip \in DOMAIN peermapByIP
      PROVE  LastSays(Leaves(r, ip, s), q, peermapByIP[ip].id, Bits[s])
  <2> DEFINE O == Of(ip)
  <2>0. O \in SUBSET (1..E)
    OBVIOUS
  <2>1. Leaves(r, ip, s) = IF r.prefix = s THEN UNION {origins(k) : k \in O} ELSE {}
    BY <1>4
  <2>2. About(q, peermapByIP[ip].id, Bits[s]) = IF r.prefix = s THEN O ELSE {}
    BY <1>5
  <2> HIDE DEF O
  <2>3. CASE r.prefix # s \/ O = {}
    BY <2>1, <2>2, <2>3 DEF LastSays
  <2>4. CASE r.prefix = s /\ O # {}
    <3>1. PICK k \in O : \A j \in O : j <= k
      BY <1>1, <2>0, <2>4, LastPosition
    <3>2. RouteOf(q[k]) \in origins(k)
      BY <1>3, <2>0, <3>1 DEF RouteOf
    <3> QED
      BY <2>1, <2>2, <2>4, <3>1, <3>2 DEF LastSays
  <2> QED
    BY <2>3, <2>4
<1>8. ASSUME NEW ip, ip \notin DOMAIN peermapByIP
      PROVE  Leaves(r, ip, s) = {}
  BY <1>4, <1>6, <1>8
<1> QED
  BY <1>7, <1>8 DEF q

(* Only a peer table changes TablePeers.                                   *)
LEMMA OthersKeepTablePeers ==
  ASSUME NEW S, read \in Seq(S), NEW r \in S, read' = Append(read, r), r.type # "table"
  PROVE  UNCHANGED TablePeers
<1>1. NoTableRead' => TablePeers' = <<>>
  BY DEF NoTableRead, TablePeers
<1> QED
  BY <1>1, TablePeersSettled

LEMMA ReadAppended ==
  ASSUME NEW S, read \in Seq(S), NEW r \in S, read' = Append(read, r)
  PROVE  /\ DOMAIN read = 1..Len(read) /\ Len(read) \in Nat
         /\ DOMAIN read' = 1..(Len(read) + 1)
         /\ \A k \in 1..Len(read) : read'[k] = read[k]
         /\ read'[Len(read) + 1] = r
BY AppendProperties, LenProperties

LEMMA NextKeepsTableInv ==
  ASSUME PeersInv, FilesInv, RoutesInv, FoundInv, TableInv, [Next]_vars
  PROVE  TableInv'
<1>0. ASSUME UNCHANGED <<peerVars, read>>, pc' \in Early => pc \in Early
      PROVE  TableInv'
  <2>1. UNCHANGED TablePeers
    BY <1>0 DEF TablePeers
  <2> QED
    BY <1>0, <2>1 DEF TableInv, Repeated, peerVars
<1>1. CASE QuietStep
  BY <1>0, <1>1 DEF QuietStep
<1>2. CASE Insert
  <2>1. UNCHANGED <<peerVars, read>> /\ (pc' = pc \/ pc' \in Over)
    BY <1>2, InsertEffect
  <2>2. pc' \in Early => pc \in Early
    BY <2>1 DEF Early, Over
  <2> QED
    BY <1>0, <2>1, <2>2
<1>3. ASSUME NEW r, Reading(r)
      PROVE  TableInv'
  <2>1. read \in Seq(Readings) /\ r \in Readings /\ read' = Append(read, r) /\ pc' = pc
    BY <1>3 DEF FoundInv, Reading
  <2>2. CASE r.type = "table"
    <3> DEFINE t == r.peers
    <3>1. r \in Record(IPs, PeerASes) /\ pc = "rib" /\ tables = 0 /\ InsertPeers(t)
      BY <1>3, <2>2 DEF Reading
    <3>2. t \in Seq([ip : IPs, as : PeerASes])
      BY <2>2, <3>1, RecordTypes
    <3>3. NoTableRead /\ highestPeerId = 0
      BY <3>1 DEF FoundInv, FilesInv
    <3>4. TablePeers' = t
      BY <2>1, <2>2, <3>3, TablePeersSettled
    <3>5. /\ PeersInv' /\ highestPeerId' = Len(t)
          /\ \A k \in 1..Len(t) :
               \/ \E j \in 1..Len(t) : j > k /\ t[j].ip = t[k].ip
               \/ t[k].ip \in DOMAIN peermapByIP' /\ peermapByIP'[t[k].ip] = ourPeers'[k]
      BY <3>1, <3>2, <3>3, InsertPeersKeepsPeersInv
    <3>6. DOMAIN t = 1..Len(t) /\ Len(t) \in Nat
      BY <3>2, LenProperties
    <3>7. \A k \in 1..Len(t) : ourPeers'[k].ip = t[k].ip
      <4>1. ourPeers' = [k \in 1..Len(t) |-> NewPeer(highestPeerId + k - 1, t[k])]
        BY <3>1 DEF InsertPeers
      <4> QED
        BY <4>1 DEF NewPeer
    <3> HIDE DEF t
    <3>8. ASSUME NEW k \in 1..Len(t), ~Repeated(k)'
          PROVE  t[k].ip \in DOMAIN peermapByIP' /\ peermapByIP'[t[k].ip] = ourPeers'[k]
      <4>1. ~\E j \in 1..Len(t) : j > k /\ t[j].ip = t[k].ip
        BY <3>4, <3>6, <3>8 DEF Repeated
      <4> QED
        BY <3>5, <4>1
    <3> QED
      BY <3>4, <3>5, <3>6, <3>7, <3>8 DEF TableInv
  <2>3. CASE r.type # "table" /\ pc \in Early
    <3>1. UNCHANGED TablePeers
      BY <2>1, <2>3, OthersKeepTablePeers
    <3>2. UNCHANGED peerVars
      BY <1>3, <2>3 DEF Reading, Early
    <3> QED
      BY <2>1, <3>1, <3>2 DEF TableInv, Repeated, peerVars
  <2>4. CASE pc \notin Early
    BY <2>1, <2>4 DEF TableInv
  <2> QED
    BY <2>2, <2>3, <2>4
<1> QED
  BY <1>1, <1>2, <1>3, StepKinds

(* A panic that is met ends the program; one that is not stays in todo.    *)
LEMMA InsertKeepsPanic ==
  ASSUME RoutesInv, Insert, pc' \notin Over, NoPanic(todo')
  PROVE  /\ pc \notin Over /\ NoPanic(todo) /\ todo # <<>> /\ todo' = Tail(todo)
         /\ Head(todo) \in MessagesOf(KnownIds) \ {Panic}
         /\ \A id \in Ids, n \in Nets :
              table'[id][n] = IF Head(todo).peerID = id /\ Head(todo).net = n
                              THEN RouteOf(Head(todo)) ELSE table[id][n]
<1>1. /\ pc' = pc /\ todo # <<>> /\ todo' = Tail(todo)
      /\ Head(todo) # Panic /\ Head(todo) \in MessagesOf(KnownIds)
      /\ \A id \in Ids, n \in Nets :
           table'[id][n] = IF Head(todo).peerID = id /\ Head(todo).net = n
                           THEN RouteOf(Head(todo)) ELSE table[id][n]
  BY InsertEffect
<1>2. /\ Len(todo) \in Nat \ {0} /\ DOMAIN todo = 1..Len(todo) /\ Head(todo) = todo[1]
      /\ DOMAIN todo' = 1..(Len(todo) - 1)
      /\ \A k \in 1..(Len(todo) - 1) : todo'[k] = todo[k + 1]
  BY <1>1, EmptySeq, LenProperties, HeadTailProperties DEF RoutesInv
<1>3. ASSUME NEW k \in 1..Len(todo)
      PROVE  todo[k] # Panic
  <2>1. CASE k = 1
    BY <1>1, <1>2, <2>1
  <2>2. CASE k # 1
    <3>1. k - 1 \in 1..(Len(todo) - 1) /\ (k - 1) + 1 = k
      BY <1>2, <2>2
    <3>2. todo'[k - 1] = todo[k]
      BY <1>2, <3>1
    <3> QED
      BY <1>2, <3>1, <3>2 DEF NoPanic
  <2> QED
    BY <2>1, <2>2
<1>4. NoPanic(todo)
  BY <1>2, <1>3 DEF NoPanic
<1> QED
  BY <1>1, <1>4

LEMMA NextKeepsSettledInv ==
  ASSUME PeersInv, FilesInv, RoutesInv, FoundInv, TableInv, SettledInv, [Next]_vars
  PROVE  SettledInv'
<1> DEFINE Within(r, peers) == r.type = "rib" =>
             \A j \in DOMAIN r.entries : r.entries[j].index + 1 \in DOMAIN peers
<1>0. ASSUME UNCHANGED read, pc' \notin Over /\ NoPanic(todo') => pc \notin Over /\ NoPanic(todo)
      PROVE  SettledInv'
  <2>1. UNCHANGED TablePeers
    BY <1>0 DEF TablePeers
  <2> QED
    BY <1>0, <2>1 DEF SettledInv
<1>1. CASE QuietStep
  BY <1>0, <1>1 DEF QuietStep, NoPanic
<1>2. CASE Insert
  <2>1. UNCHANGED read
    BY <1>2, InsertEffect
  <2> QED
    BY <1>0, <1>2, <2>1, InsertKeepsPanic
<1>3. ASSUME NEW r, Reading(r)
      PROVE  SettledInv'
  <2>1. read \in Seq(Readings) /\ r \in Readings /\ read' = Append(read, r) /\ pc' = pc
        /\ todo = <<>>
    BY <1>3 DEF FoundInv, Reading
  <2>2. /\ DOMAIN read = 1..Len(read) /\ Len(read) \in Nat
        /\ DOMAIN read' = 1..(Len(read) + 1)
        /\ \A k \in 1..Len(read) : read'[k] = read[k]
        /\ read'[Len(read) + 1] = r
    BY <2>1, ReadAppended
  <2> SUFFICES ASSUME pc \notin Over, NoPanic(todo')
               PROVE  \A k \in DOMAIN read' : Within(read'[k], TablePeers')
    BY <2>1 DEF SettledInv
  <2>3. NoPanic(todo)
    BY <2>1 DEF NoPanic
  <2>4. ASSUME NEW k \in 1..Len(read)
        PROVE  Within(read[k], TablePeers)
    BY <2>2, <2>3 DEF SettledInv
  <2> HIDE DEF Within
  <2>5. CASE r.type = "table"
    <3>1. NoTableRead
      BY <1>3, <2>5 DEF Reading, FoundInv
    <3>2. TablePeers = <<>>
      BY <2>1, <3>1, TablePeersSettled
    <3>3. \A k \in 1..Len(read) : Within(read[k], TablePeers')
      <4>1. DOMAIN <<>> = {}
        OBVIOUS
      <4> QED
        BY <2>4, <3>2, <4>1 DEF Within
    <3>4. Within(r, TablePeers')
      BY <2>5 DEF Within
    <3> QED
      BY <2>2, <3>3, <3>4
  <2>6. CASE r.type # "table"
    <3>1. UNCHANGED TablePeers
      BY <2>1, <2>6, OthersKeepTablePeers
    <3>2. Within(r, TablePeers)
      <4> SUFFICES ASSUME r.type = "rib"
                   PROVE  \A j \in DOMAIN r.entries : r.entries[j].index + 1 \in DOMAIN TablePeers
        BY DEF Within
      <4>1. r \in Record(IPs, PeerASes) /\ pc \in Early /\ todo' = MessagesOfRib(r, ourPeers)
        BY <1>3 DEF Reading, Early
      <4> QED
        BY <4>1, RibIndexes
    <3> QED
      BY <2>2, <2>4, <3>1, <3>2
  <2> QED
    BY <2>5, <2>6
<1> QED
  BY <1>1, <1>2, <1>3, StepKinds

-----------------------------------------------------------------------------
(* What the last of a sequence of sets that is not empty contains.         *)
LastSaid(L) ==
  LET said == {k \in DOMAIN L : L[k] # {}}
  IN  IF said = {} THEN {NoRoute} ELSE L[Max(said)]

LEMMA LastSaidNext ==
  ASSUME NEW N \in Nat, NEW L, NEW M, DOMAIN L = 1..N, DOMAIN M = 1..(N + 1),
         \A k \in 1..N : M[k] = L[k]
  PROVE  /\ M[N + 1] = {} => LastSaid(M) = LastSaid(L)
         /\ M[N + 1] # {} => LastSaid(M) = M[N + 1]
<1> DEFINE S == {k \in DOMAIN L : L[k] # {}}
           T == {k \in DOMAIN M : M[k] # {}}
<1>1. /\ LastSaid(L) = IF S = {} THEN {NoRoute} ELSE L[Max(S)]
      /\ LastSaid(M) = IF T = {} THEN {NoRoute} ELSE M[Max(T)]
  BY DEF LastSaid
<1>2. S \in SUBSET (1..N) /\ T \in SUBSET Nat
  OBVIOUS
<1>3. CASE M[N + 1] = {}
  <2>1. T = S
    BY <1>3
  <2> HIDE DEF S, T
  <2>2. CASE S = {}
    BY <1>1, <2>1, <2>2, <1>3
  <2>3. CASE S # {}
    <3>1. PICK m \in S : \A j \in S : j <= m
      BY <1>2, <2>3, LastPosition
    <3>2. Max(S) = m
      BY <1>2, <2>1, <3>1, MaxIs
    <3> QED
      BY <1>1, <1>2, <1>3, <2>1, <3>1, <3>2
  <2> QED
    BY <2>2, <2>3
<1>4. CASE M[N + 1] # {}
  <2>1. N + 1 \in T /\ \A j \in T : j <= N + 1
    BY <1>4
  <2> HIDE DEF S, T
  <2>2. Max(T) = N + 1
    BY <1>2, <2>1, MaxIs
  <2> QED
    BY <1>1, <1>4, <2>1, <2>2
<1> QED
  BY <1>3, <1>4

(* What record k leaves behind.                                            *)
LeavesAt(ip, s) == [k \in DOMAIN read |-> Leaves(read[k], ip, s)]

(* The routes RoutesAsSaid allows.                                         *)
Said(ip, s) == LastSaid(LeavesAt(ip, s))

(* The route of the peer at ip, once todo has been inserted.               *)
Outcome(ip, n) ==
  IF ip \in DOMAIN peermapByIP
  THEN After(todo, peermapByIP[ip].id, n, SessionRoutes[ip][n])
  ELSE NoRoute

SaidInv ==
  pc \notin Over /\ IdsFit /\ NoPanic(todo) =>
    \A ip \in IPs, s \in Subnets4 : Outcome(ip, Bits[s]) \in Said(ip, s)

(* A record leaves behind what it did when it was read.                    *)
LEMMA LeavesStay ==
  ASSUME NEW e, NEW ip, NEW s,
         \/ UNCHANGED TablePeers
         \/ e.type = "rib" => ToSet(e.entries) = {}
  PROVE  Leaves(e, ip, s)' = Leaves(e, ip, s)
<1>1. CASE UNCHANGED TablePeers
  BY <1>1 DEF Leaves, Repeated
<1>2. CASE e.type = "rib" => ToSet(e.entries) = {}
  BY <1>2 DEF Leaves
<1> QED
  BY <1>1, <1>2

LEMMA ReadingLeaves ==
  ASSUME PeersInv, FilesInv, RoutesInv, FoundInv, TableInv, SettledInv, NEW r, Reading(r),
         pc \notin Over, NEW ip \in IPs, NEW s \in Subnets4
  PROVE  /\ Leaves(r, ip, s)' = Leaves(r, ip, s)
         /\ Leaves(r, ip, s) = {} => Said(ip, s)' = Said(ip, s)
         /\ Leaves(r, ip, s) # {} => Said(ip, s)' = Leaves(r, ip, s)
<1>1. read \in Seq(Readings) /\ r \in Readings /\ read' = Append(read, r) /\ todo = <<>>
  BY DEF FoundInv, Reading
<1>2. /\ DOMAIN read = 1..Len(read) /\ Len(read) \in Nat
      /\ DOMAIN read' = 1..(Len(read) + 1)
      /\ \A k \in 1..Len(read) : read'[k] = read[k]
      /\ read'[Len(read) + 1] = r
  BY <1>1, ReadAppended
<1>3. NoPanic(todo)
  BY <1>1 DEF NoPanic
<1>4. ASSUME NEW k \in 1..Len(read), NEW e, e = read[k]
      PROVE  Leaves(e, ip, s)' = Leaves(e, ip, s)
  <2>1. CASE r.type # "table"
    BY <1>1, <2>1, OthersKeepTablePeers, LeavesStay
  <2>2. CASE r.type = "table"
    <3>1. NoTableRead
      BY <2>2 DEF Reading, FoundInv
    <3>2. TablePeers = <<>> /\ DOMAIN <<>> = {}
      BY <1>1, <3>1, TablePeersSettled
    <3>3. e.type = "rib" => DOMAIN e.entries = {}
      BY <1>2, <1>3, <1>4, <3>2 DEF SettledInv
    <3>4. e.type = "rib" => ToSet(e.entries) = {}
      BY <3>3 DEF ToSet
    <3> QED
      BY <3>4, LeavesStay
  <2> QED
    BY <2>1, <2>2
<1>5. Leaves(r, ip, s)' = Leaves(r, ip, s)
  <2>1. CASE r.type # "table"
    BY <1>1, <2>1, OthersKeepTablePeers, LeavesStay
  <2>2. CASE r.type = "table"
    BY <2>2, LeavesStay
  <2> QED
    BY <2>1, <2>2
<1> DEFINE L == LeavesAt(ip, s)
<1>6. DOMAIN L = 1..Len(read) /\ DOMAIN L' = 1..(Len(read) + 1)
  BY <1>2 DEF LeavesAt
<1>7. ASSUME NEW k \in 1..Len(read), NEW e, e = read[k]
      PROVE  L'[k] = Leaves(e, ip, s)' /\ L[k] = Leaves(e, ip, s)
  <2>1. e = read'[k] /\ k \in DOMAIN read /\ k \in DOMAIN read'
    BY <1>2, <1>7
  <2>2. L[k] = Leaves(e, ip, s)
    BY <1>7, <2>1 DEF LeavesAt
  <2>3. L'[k] = Leaves(e, ip, s)'
    BY <2>1 DEF LeavesAt
  <2> QED
    BY <2>2, <2>3
<1>8. L'[Len(read) + 1] = Leaves(r, ip, s)'
  <2>1. Len(read) + 1 \in DOMAIN read'
    BY <1>2
  <2>2. ASSUME NEW n \in DOMAIN read', r = read'[n]
        PROVE  L'[n] = Leaves(r, ip, s)'
    BY <2>2 DEF LeavesAt
  <2> QED
    BY <1>2, <2>1, <2>2
<1>9. \A k \in 1..Len(read) : L'[k] = L[k]
  BY <1>4, <1>7
<1> HIDE DEF L
<1>10. /\ L'[Len(read) + 1] = {} => LastSaid(L') = LastSaid(L)
       /\ L'[Len(read) + 1] # {} => LastSaid(L') = L'[Len(read) + 1]
  BY <1>2, <1>6, <1>9, LastSaidNext
<1>11. Said(ip, s) = LastSaid(L) /\ Said(ip, s)' = LastSaid(L')
  BY DEF Said, L
<1> QED
  BY <1>5, <1>8, <1>10, <1>11

(* The IDs of other addresses are other IDs.                               *)
LEMMA PeerOfRecord ==
  ASSUME PeersInv, RoutesInv, UNCHANGED table, IdsFit',
         NEW a \in IPs, NEW as \in PeerASes, FindPeerIDbyIP(a, as)
  PROVE  /\ UNCHANGED SessionRoutes
         /\ a \in DOMAIN peermapByIP'
         /\ \A ip \in DOMAIN peermapByIP' :
              ip # a => peermapByIP'[ip].id # peermapByIP'[a].id
<1>1. UNCHANGED SessionRoutes
  BY FindPeerKeepsRoutes
<1>2. a \in DOMAIN peermapByIP'
  <2>1. CASE a \in DOMAIN peermapByIP
    BY <2>1 DEF FindPeerIDbyIP, peerVars
  <2>2. CASE a \notin DOMAIN peermapByIP
    BY <2>2, AddPeerKeepsPeersInv DEF FindPeerIDbyIP
  <2> QED
    BY <2>1, <2>2
<1>3. PeersInv'
  BY FindPeerKeepsPeersInv
<1>4. PeersInv' => DistinctIDs'
  BY PeersHaveDistinctIDs, PTL
<1>5. DistinctIDs'
  BY <1>3, <1>4
<1> QED
  BY <1>1, <1>2, <1>5 DEF DistinctIDs

(* What the messages of a record leave behind is what the record says.     *)
LEMMA ReadingSays ==
  ASSUME PeersInv, FilesInv, RoutesInv, FoundInv, TableInv, NEW r, Reading(r),
         IdsFit', NoPanic(todo'), NEW ip \in IPs, NEW s \in Subnets4
  PROVE  /\ UNCHANGED SessionRoutes
         /\ ip \in DOMAIN peermapByIP' =>
              LastSays(Leaves(r, ip, s), todo', peermapByIP'[ip].id, Bits[s])
         /\ ip \notin DOMAIN peermapByIP' => Leaves(r, ip, s) = {}
<1>0. /\ todo = <<>> /\ UNCHANGED table
      /\ \A id, n : About(<<>>, id, n) = {}
  BY DEF Reading, About
<1>1. CASE r.type = "table"
  <2>1. r \in Record(IPs, PeerASes) /\ InsertPeers(r.peers) /\ highestPeerId = 0 /\ todo' = <<>>
    BY <1>0, <1>1 DEF Reading, FilesInv
  <2>2. UNCHANGED SessionRoutes
    BY <1>0, <1>1, <2>1, RecordTypes, InsertPeersKeepsRoutes
  <2>3. Leaves(r, ip, s) = {}
    BY <1>1 DEF Leaves
  <2> QED
    BY <1>0, <2>1, <2>2, <2>3 DEF LastSays
<1>2. CASE r.type = "skipped"
  <2>1. UNCHANGED <<peerVars, table>> /\ todo' = <<>>
    BY <1>0, <1>2 DEF Reading
  <2>2. UNCHANGED SessionRoutes
    BY <2>1 DEF SessionRoutes, peerVars
  <2>3. Leaves(r, ip, s) = {}
    BY <1>2 DEF Leaves
  <2> QED
    BY <1>0, <2>1, <2>2, <2>3 DEF LastSays
<1>3. CASE r.type = "rib"
  <2>1. /\ r \in Record(IPs, PeerASes) /\ pc \in Early /\ UNCHANGED <<peerVars, table>>
        /\ todo' = MessagesOfRib(r, ourPeers)
    BY <1>0, <1>3 DEF Reading, Early
  <2>2. UNCHANGED SessionRoutes
    BY <2>1 DEF SessionRoutes, peerVars
  <2>3. IdsFit /\ NoPanic(MessagesOfRib(r, ourPeers))
    BY <2>1 DEF IdsFit, peerVars
  <2>4. UNCHANGED peermapByIP
    BY <2>1 DEF peerVars
  <2>5. /\ ip \in DOMAIN peermapByIP =>
             LastSays(Leaves(r, ip, s), MessagesOfRib(r, ourPeers), peermapByIP[ip].id, Bits[s])
        /\ ip \notin DOMAIN peermapByIP => Leaves(r, ip, s) = {}
    BY <1>3, <2>1, <2>3, RibSays
  <2> QED
    BY <2>1, <2>2, <2>4, <2>5
<1>4. CASE r.type = "update"
  <2> DEFINE id == peermapByIP'[r.ip].id
  <2>1. /\ r \in Record(IPs, PeerASes) /\ FindPeerIDbyIP(r.ip, r.as)
        /\ todo' = MessagesOfUpdate(r, id)
    BY <1>4 DEF Reading
  <2>2. r.ip \in IPs /\ r.as \in PeerASes
    BY <1>4, <2>1, RecordTypes
  <2>3. /\ UNCHANGED SessionRoutes
        /\ r.ip \in DOMAIN peermapByIP'
        /\ ip \in DOMAIN peermapByIP' /\ ip # r.ip => peermapByIP'[ip].id # id
    BY <1>0, <2>1, <2>2, PeerOfRecord
  <2> HIDE DEF id
  <2>4. /\ LastSays(Leaves(r, r.ip, s), todo', id, Bits[s])
        /\ \A i : i # id => About(todo', i, Bits[s]) = {}
    <3>1. NoPanic(MessagesOfUpdate(r, id))
      BY <2>1
    <3> QED
      BY <1>4, <2>1, <3>1, UpdateSays
  <2>5. ip # r.ip => Leaves(r, ip, s) = {}
    BY <1>4 DEF Leaves
  <2>6. CASE ip = r.ip
    BY <2>3, <2>4, <2>6 DEF id
  <2>7. CASE ip # r.ip
    BY <2>3, <2>4, <2>5, <2>7 DEF LastSays
  <2> QED
    BY <2>6, <2>7
<1>5. CASE r.type = "ris"
  <2> DEFINE id == peermapByIP'[r.ip].id
  <2>1. r \in RisMessages /\ FindPeerIDbyIP(r.ip, r.as) /\ todo' = MessagesOfRis(r, id)
    BY <1>5 DEF Reading
  <2>2. r.ip \in IPs /\ r.as \in PeerASes
    BY <2>1, LiveAssumption DEF RisMessage
  <2>3. /\ UNCHANGED SessionRoutes
        /\ r.ip \in DOMAIN peermapByIP'
        /\ ip \in DOMAIN peermapByIP' /\ ip # r.ip => peermapByIP'[ip].id # id
    BY <1>0, <2>1, <2>2, PeerOfRecord
  <2> HIDE DEF id
  <2>4. /\ LastSays(Leaves(r, r.ip, s), todo', id, Bits[s])
        /\ \A i : i # id => About(todo', i, Bits[s]) = {}
    <3>1. NoPanic(MessagesOfRis(r, id))
      BY <2>1
    <3> QED
      BY <2>1, <3>1, RisSays
  <2>5. ip # r.ip => Leaves(r, ip, s) = {}
    BY <1>5 DEF Leaves
  <2>6. CASE ip = r.ip
    BY <2>3, <2>4, <2>6 DEF id
  <2>7. CASE ip # r.ip
    BY <2>3, <2>4, <2>5, <2>7 DEF LastSays
  <2> QED
    BY <2>6, <2>7
<1> QED
  BY <1>1, <1>2, <1>3, <1>4, <1>5 DEF Reading

(* Before a record is read the outcome is what is in the trie.             *)
LEMMA OutcomeOfNothing ==
  ASSUME todo = <<>>, NEW ip \in IPs, NEW n \in Nets
  PROVE  Outcome(ip, n) = SessionRoutes[ip][n]
<1>1. \A id : About(todo, id, n) = {}
  BY DEF About
<1>2. CASE ip \in DOMAIN peermapByIP
  BY <1>1, <1>2 DEF Outcome, After
<1>3. CASE ip \notin DOMAIN peermapByIP
  <2>1. SessionRoutes[ip] = [m \in Nets |-> NoRoute]
    BY <1>3 DEF SessionRoutes
  <2> QED
    BY <1>3, <2>1 DEF Outcome
<1> QED
  BY <1>2, <1>3

LEMMA ReadingKeepsSaidInv ==
  ASSUME PeersInv, FilesInv, RoutesInv, RoutesInv', FoundInv, TableInv, SettledInv, SaidInv,
         NEW r, Reading(r)
  PROVE  SaidInv'
<1>1. todo = <<>> /\ pc' = pc
  BY DEF Reading
<1> SUFFICES ASSUME pc' \notin Over, IdsFit', NoPanic(todo'), NEW ip \in IPs, NEW s \in Subnets4
             PROVE  Outcome(ip, Bits[s])' \in Said(ip, s)'
  BY DEF SaidInv
<1>2. NoPanic(todo) /\ IdsFit
  <2>1. IdsFit
    <3>1. CASE UNCHANGED highestPeerId
      BY <3>1 DEF IdsFit
    <3>2. CASE \E a, as : AddPeer(a, as)
      BY <3>2, PeersAssumption DEF AddPeer, IdsFit, PeersInv
    <3>3. CASE highestPeerId = 0
      BY <3>3, PeersAssumption DEF IdsFit
    <3> QED
      BY <3>1, <3>2, <3>3 DEF Reading, FilesInv, FindPeerIDbyIP, peerVars
  <2> QED
    BY <1>1, <2>1 DEF NoPanic
<1> DEFINE n == Bits[s]
<1>3. n \in Nets
  BY NetOfSubnet
<1>4. Outcome(ip, n) \in Said(ip, s)
  BY <1>1, <1>2 DEF SaidInv
<1>5. Outcome(ip, n) = SessionRoutes[ip][n]
  BY <1>1, <1>3, OutcomeOfNothing
<1> HIDE DEF n
<1>6. /\ UNCHANGED SessionRoutes
      /\ ip \in DOMAIN peermapByIP' =>
           LastSays(Leaves(r, ip, s), todo', peermapByIP'[ip].id, n)
      /\ ip \notin DOMAIN peermapByIP' => Leaves(r, ip, s) = {}
  BY ReadingSays DEF n
<1>7. /\ Leaves(r, ip, s) = {} => Said(ip, s)' = Said(ip, s)
      /\ Leaves(r, ip, s) # {} => Said(ip, s)' = Leaves(r, ip, s)
  BY <1>1, ReadingLeaves
<1>8. CASE ip \in DOMAIN peermapByIP'
  <2> DEFINE id == peermapByIP'[ip].id
             before == SessionRoutes[ip][n]
  <2>1. Outcome(ip, n)' = After(todo', id, n, before)
    BY <1>6, <1>8 DEF Outcome, n
  <2>2. DOMAIN todo' = 1..Len(todo') /\ Len(todo') \in Nat
    BY LenProperties DEF RoutesInv
  <2> HIDE DEF id, before
  <2>3. LastSays(Leaves(r, ip, s), todo', id, n)
    BY <1>6, <1>8 DEF id
  <2>4. /\ Leaves(r, ip, s) = {} => After(todo', id, n, before) = before
        /\ Leaves(r, ip, s) # {} => After(todo', id, n, before) \in Leaves(r, ip, s)
    BY <2>2, <2>3, AfterSays
  <2>5. Outcome(ip, n)' \in Said(ip, s)'
    BY <1>4, <1>5, <1>7, <2>1, <2>4 DEF before
  <2> QED
    BY <2>5 DEF n
<1>9. CASE ip \notin DOMAIN peermapByIP'
  <2>1. Outcome(ip, n)' = NoRoute
    BY <1>9 DEF Outcome
  <2>2. ip \notin DOMAIN peermapByIP
    <3>1. CASE UNCHANGED peermapByIP
      BY <1>9, <3>1
    <3>2. CASE \E t : InsertPeers(t)
      BY <1>9, <3>2 DEF InsertPeers
    <3>3. CASE \E a, as : AddPeer(a, as)
      BY <1>9, <3>3 DEF AddPeer, AppendPeer
    <3> QED
      BY <3>1, <3>2, <3>3 DEF Reading, FindPeerIDbyIP, peerVars
  <2>3. Outcome(ip, n) = NoRoute
    BY <2>2 DEF Outcome
  <2>4. Outcome(ip, n)' \in Said(ip, s)'
    BY <1>4, <1>6, <1>7, <1>9, <2>1, <2>3
  <2> QED
    BY <2>4 DEF n
<1> QED
  BY <1>8, <1>9

(* Inserting a message changes no outcome.                                 *)
LEMMA InsertKeepsSaidInv ==
  ASSUME PeersInv, RoutesInv, RoutesInv', SaidInv, Insert
  PROVE  SaidInv'
<1>1. UNCHANGED <<peerVars, read>>
  BY InsertEffect
<1>2. UNCHANGED <<peermapByIP, IdsFit>>
  BY <1>1 DEF peerVars, IdsFit
<1> SUFFICES ASSUME pc' \notin Over, IdsFit, NoPanic(todo'), NEW ip \in IPs, NEW s \in Subnets4
             PROVE  Outcome(ip, Bits[s])' \in Said(ip, s)'
  BY <1>2 DEF SaidInv
<1> DEFINE n == Bits[s]
           m == Head(todo)
<1>3. /\ pc \notin Over /\ NoPanic(todo) /\ todo # <<>> /\ todo' = Tail(todo)
      /\ m \in MessagesOf(KnownIds) \ {Panic}
      /\ \A id \in Ids, net \in Nets :
           table'[id][net] = IF m.peerID = id /\ m.net = net THEN RouteOf(m) ELSE table[id][net]
  BY InsertKeepsPanic
<1>4. n \in Nets
  BY NetOfSubnet
<1>5. Outcome(ip, n) \in Said(ip, s)
  BY <1>3 DEF SaidInv
<1>6. UNCHANGED Said(ip, s)
  <2>1. UNCHANGED TablePeers
    BY <1>1 DEF TablePeers
  <2>2. LeavesAt(ip, s)' = LeavesAt(ip, s)
    BY <1>1, <2>1 DEF LeavesAt, Leaves, Repeated
  <2> QED
    BY <2>2 DEF Said
<1> HIDE DEF n, m
<1>7. CASE ip \notin DOMAIN peermapByIP
  <2>1. Outcome(ip, n)' = Outcome(ip, n)
    BY <1>2, <1>7 DEF Outcome
  <2> QED
    BY <1>5, <1>6, <2>1 DEF n
<1>8. CASE ip \in DOMAIN peermapByIP
  <2> DEFINE id == peermapByIP[ip].id
             before == SessionRoutes[ip][n]
             next == SessionRoutes'[ip][n]
  <2>1. id \in Ids
    BY <1>8, IdsOfPeers DEF PeersKnown, KnownIds
  <2>2. before = table[id][n] /\ next = table'[id][n]
    BY <1>2, <1>8 DEF SessionRoutes
  <2>3. /\ Outcome(ip, n) = After(todo, id, n, before)
        /\ Outcome(ip, n)' = After(todo', id, n, next)
    BY <1>2, <1>8 DEF Outcome, n
  <2> HIDE DEF id, before, next
  <2>4. next = IF m.peerID = id /\ m.net = n THEN RouteOf(m) ELSE before
    BY <1>3, <1>4, <2>1, <2>2
  <2>5. After(Tail(todo), id, n, next) = After(todo, id, n, before)
    <3>1. todo \in Seq(MessagesOf(KnownIds))
      BY DEF RoutesInv
    <3> QED
      BY <1>3, <2>4, <3>1, AfterHead DEF m
  <2> QED
    BY <1>3, <1>5, <1>6, <2>3, <2>5 DEF n
<1> QED
  BY <1>7, <1>8

LEMMA QuietStepKeepsSaidInv ==
  ASSUME QuietStep, SaidInv
  PROVE  SaidInv'
<1>1. UNCHANGED <<peerVars, todo, table, read>>
  BY DEF QuietStep
<1>2. UNCHANGED <<TablePeers, SessionRoutes, IdsFit, peermapByIP>>
  BY <1>1 DEF TablePeers, SessionRoutes, IdsFit, peerVars
<1>3. ASSUME NEW ip, NEW s
      PROVE  UNCHANGED LeavesAt(ip, s)
  BY <1>1, <1>2 DEF LeavesAt, Leaves, Repeated
<1>4. ASSUME NEW ip, NEW s
      PROVE  UNCHANGED <<Said(ip, s), Outcome(ip, Bits[s])>>
  BY <1>1, <1>2, <1>3 DEF Said, Outcome
<1>5. pc' \notin Over => pc \notin Over
  BY DEF QuietStep
<1> HIDE DEF Said, Outcome
<1> QED
  BY <1>1, <1>2, <1>4, <1>5 DEF SaidInv

LEMMA InitSaidInv == Init => TableInv /\ SettledInv /\ SaidInv
<1> SUFFICES ASSUME Init
             PROVE  TableInv /\ SettledInv /\ SaidInv
  OBVIOUS
<1>1. read = <<>> /\ highestPeerId = 0 /\ peermapByIP = <<>> /\ DOMAIN read = {}
  BY DEF Init, FilesInit, PeersInit
<1>2. TablePeers = <<>> /\ DOMAIN TablePeers = {} /\ 1..highestPeerId = {}
  BY <1>1 DEF TablePeers
<1>3. TableInv /\ SettledInv
  BY <1>1, <1>2 DEF TableInv, SettledInv
<1>4. ASSUME NEW ip \in IPs, NEW s \in Subnets4
      PROVE  Outcome(ip, Bits[s]) \in Said(ip, s)
  <2>1. Outcome(ip, Bits[s]) = NoRoute
    BY <1>1 DEF Outcome
  <2>2. DOMAIN LeavesAt(ip, s) = {}
    BY <1>1 DEF LeavesAt
  <2>3. Said(ip, s) = {NoRoute}
    BY <2>2 DEF Said, LastSaid
  <2> QED
    BY <2>1, <2>3
<1> QED
  BY <1>3, <1>4 DEF SaidInv

LEMMA SaidMeansRoutesAsSaid ==
  ASSUME FoundInv, SaidInv
  PROVE  RoutesAsSaid
<1> SUFFICES ASSUME todo = <<>>, pc \notin Over, IdsFit, NEW ip \in IPs, NEW s \in Subnets4
             PROVE  SessionRoutes[ip][Bits[s]] \in
                      LET said == {k \in DOMAIN read : Leaves(read[k], ip, s) # {}}
                      IN  IF said = {} THEN {NoRoute} ELSE Leaves(read[Max(said)], ip, s)
  BY DEF RoutesAsSaid, Subnets4, Over
<1>1. NoPanic(todo)
  BY DEF NoPanic
<1>2. SessionRoutes[ip][Bits[s]] \in Said(ip, s)
  BY <1>1, NetOfSubnet, OutcomeOfNothing DEF SaidInv
<1> DEFINE said == {k \in DOMAIN read : Leaves(read[k], ip, s) # {}}
           L == LeavesAt(ip, s)
<1>3. DOMAIN L = DOMAIN read /\ \A k \in DOMAIN read : L[k] = Leaves(read[k], ip, s)
  BY DEF LeavesAt
<1>4. DOMAIN read = 1..Len(read) /\ Len(read) \in Nat
  BY LenProperties DEF FoundInv
<1>5. said \in SUBSET (1..Len(read)) /\ said \in SUBSET Nat
  BY <1>4
<1>6. {k \in DOMAIN L : L[k] # {}} = said
  BY <1>3
<1>7. Said(ip, s) = IF said = {} THEN {NoRoute} ELSE L[Max(said)]
  BY <1>6 DEF Said, LastSaid
<1> SUFFICES SessionRoutes[ip][Bits[s]] \in
               IF said = {} THEN {NoRoute} ELSE Leaves(read[Max(said)], ip, s)
  OBVIOUS
<1> HIDE DEF said, L
<1>8. CASE said = {}
  BY <1>2, <1>7, <1>8
<1>9. CASE said # {}
  <2>1. PICK m \in said : \A j \in said : j <= m
    BY <1>4, <1>5, <1>9, LastPosition
  <2>2. Max(said) = m /\ m \in DOMAIN read
    BY <1>4, <1>5, <2>1, MaxIs
  <2> QED
    BY <1>2, <1>3, <1>7, <1>9, <2>2
<1> QED
  BY <1>8, <1>9

(* Whatever has been read so far, from however broken files, a peer's      *)
(* route of a subnet is what the last record that mentions the two says:   *)
(* the messages of a record are those it asks for, their last one about a  *)
(* route decides, and the table of the RIB names the peers that its        *)
(* records mean by their index.                                            *)
THEOREM RoutesAsSaidAlways == Spec => []RoutesAsSaid
<1> DEFINE Inv == /\ PeersInv /\ FilesInv /\ RoutesInv /\ FoundInv
                  /\ TableInv /\ SettledInv /\ SaidInv
<1>1. Init => Inv
  BY InitInv, InitRoutesInv, InitFoundInv, InitSaidInv
<1>2. ASSUME Inv, [Next]_vars
      PROVE  Inv'
  <2>1. PeersInv' /\ FilesInv' /\ RoutesInv' /\ FoundInv'
    BY <1>2, NextKeepsInv, NextIsSessionStep, NextKeepsFoundInv
  <2>2. TableInv' /\ SettledInv'
    BY <1>2, NextKeepsTableInv, NextKeepsSettledInv
  <2>3. SaidInv'
    BY <1>2, <2>1, StepKinds, QuietStepKeepsSaidInv, InsertKeepsSaidInv, ReadingKeepsSaidInv
  <2> QED
    BY <2>1, <2>2, <2>3
<1>3. Inv => RoutesAsSaid
  BY SaidMeansRoutesAsSaid
<1> QED
  BY <1>1, <1>2, <1>3, PTL DEF Spec
=============================================================================
