---------------------------- MODULE RoutingProofs ----------------------------
(***************************************************************************)
(* No chain offers a provider the quota it was resolved by calls exhausted, *)
(* a chain is ordered as it claims, a redirect serves every effort, and    *)
(* the ranking moves only the way that quota does, for all providers,      *)
(* windows, listings and ranks; and the limiter, whose word fills the gaps *)
(* in the quota, never in one life of the process climbs back to a refused *)
(* rate, and never slows down on a success, for every floor, ceiling, step, *)
(* start rate and true limit.                                              *)
(***************************************************************************)
EXTENDS Routing, AdaptiveLimiter, FiniteSetTheorems, WellFoundedInduction, TLAPS

-----------------------------------------------------------------------------
(* Numbers *)

\* Every non-empty set of naturals has a least element.
LEMMA LeastNatural ==
    ASSUME NEW T, T \subseteq Nat, T # {}
    PROVE  \E x \in T : \A y \in T : x <= y
<1> DEFINE Less == {p \in Nat \X Nat : p[1] < p[2]}
<1>1. OpToRel(<, Nat) = Less
  BY DEF OpToRel
<1>2. IsWellFoundedOn(Less, Nat)
  BY <1>1, NatLessThanWellFounded
<1>3. PICK x \in T : \A y \in T : <<y, x>> \notin Less
  <2> HIDE DEF Less
  <2>1. QED
    BY <1>2, WFMin
<1>4. ASSUME NEW y \in T PROVE x <= y
  <2>1. x \in Nat /\ y \in Nat
    OBVIOUS
  <2>2. ~(y < x)
    BY <1>3, <2>1
  <2>3. QED
    BY <2>1, <2>2
<1>5. QED
  BY <1>4

\* A quotient is the whole number below the fraction.
LEMMA Quotient ==
    ASSUME NEW a \in Int, NEW d \in Nat, d > 0
    PROVE  /\ a \div d \in Int
           /\ d * (a \div d) <= a /\ a < d * (a \div d) + d
OBVIOUS

LEMMA QuotientTop ==
    ASSUME NEW a \in Int, NEW b \in Int, NEW d \in Nat, d > 0, a <= b
    PROVE  a \div d <= b \div d
<1> DEFINE q == a \div d   r == b \div d
<1>1. q \in Int /\ r \in Int /\ d * q <= a /\ b < d * r + d
  BY Quotient
<1> HIDE DEF q, r
<1>2. d * q < d * (r + 1)
  BY <1>1
<1>3. q < r + 1
  BY <1>1, <1>2
<1> QED
  BY <1>1, <1>3 DEF q, r

LEMMA QuotientBottom ==
    ASSUME NEW a \in Nat, NEW d \in Nat, NEW e \in Nat, d > 0, d <= e
    PROVE  a \div e <= a \div d /\ a \div d \in Nat
<1> DEFINE q == a \div e   r == a \div d
<1>1. q \in Int /\ r \in Int /\ e * q <= a /\ a < d * r + d /\ a < e * q + e
  BY Quotient
<1> HIDE DEF q, r
<1>2. q >= 0
  BY <1>1
<1>2a. r >= 0
  BY <1>1
<1>3. d * q <= e * q
  BY <1>1, <1>2
<1>4. d * q < d * (r + 1)
  BY <1>1, <1>3
<1>5. q < r + 1
  BY <1>1, <1>4
<1> QED
  BY <1>1, <1>2a, <1>5 DEF q, r

\* The numerator of a larger quotient may be told by a whole denominator.
LEMMA QuotientApart ==
    ASSUME NEW a \in Int, NEW b \in Int, NEW d \in Nat, d > 0, a + d <= b
    PROVE  a \div d < b \div d
<1> DEFINE q == a \div d   r == b \div d
<1>1. q \in Int /\ r \in Int /\ d * q <= a /\ b < d * r + d
  BY Quotient
<1> HIDE DEF q, r
<1>2. d * q < d * r
  BY <1>1
<1>3. q < r
  BY <1>1, <1>2
<1> QED
  BY <1>1, <1>3 DEF q, r

\* Counting, for each element of a finite set, those before it in a strict total
\* order numbers the set from one to its size.
Before(R, S, i) == {j \in S : <<j, i>> \in R}

StrictOrder(R, S) ==
  /\ \A i \in S : <<i, i>> \notin R
  /\ \A i, j, k \in S : <<i, j>> \in R /\ <<j, k>> \in R => <<i, k>> \in R
  /\ \A i, j \in S : i # j => <<i, j>> \in R \/ <<j, i>> \in R

Numbers(place, R, S) ==
  /\ place \in [S -> 1..Cardinality(S)]
  /\ \A i, j \in S : place[i] < place[j] <=> <<i, j>> \in R
  /\ \A i, j \in S : place[i] = place[j] => i = j
  /\ \A n \in 1..Cardinality(S) : \E i \in S : place[i] = n

LEMMA NumberedByOrder ==
  ASSUME NEW S, IsFiniteSet(S), NEW R, StrictOrder(R, S)
  PROVE  Numbers([i \in S |-> 1 + Cardinality(Before(R, S, i))], R, S)
<1> DEFINE place == [i \in S |-> 1 + Cardinality(Before(R, S, i))]
<1> USE DEF StrictOrder
<1>1. Cardinality(S) \in Nat
  BY FS_CardinalityType
<1>2. ASSUME NEW i \in S
      PROVE  /\ IsFiniteSet(Before(R, S, i)) /\ Cardinality(Before(R, S, i)) \in Nat
             /\ Cardinality(Before(R, S, i)) < Cardinality(S)
  <2>1. Before(R, S, i) \in SUBSET S /\ i \notin Before(R, S, i)
    BY DEF Before
  <2>2. Before(R, S, i) # S
    BY <2>1
  <2>3. /\ IsFiniteSet(Before(R, S, i)) /\ Cardinality(Before(R, S, i)) <= Cardinality(S)
        /\ Cardinality(Before(R, S, i)) # Cardinality(S)
    BY <2>1, <2>2, FS_Subset
  <2> QED
    BY <1>1, <2>3, FS_CardinalityType
<1>3. ASSUME NEW i \in S, NEW j \in S, <<i, j>> \in R
      PROVE  Cardinality(Before(R, S, i)) < Cardinality(Before(R, S, j))
  <2>1. Before(R, S, i) \in SUBSET Before(R, S, j)
    BY <1>3 DEF Before
  <2>2. i \in Before(R, S, j) /\ i \notin Before(R, S, i)
    BY <1>3 DEF Before
  <2>3. /\ Cardinality(Before(R, S, i)) <= Cardinality(Before(R, S, j))
        /\ Cardinality(Before(R, S, i)) # Cardinality(Before(R, S, j))
    BY <1>2, <2>1, <2>2, FS_Subset
  <2> QED
    BY <1>2, <2>3
<1>4. place \in [S -> 1..Cardinality(S)]
  <2>1. \A i \in S : 1 + Cardinality(Before(R, S, i)) \in 1..Cardinality(S)
    BY <1>1, <1>2
  <2> QED
    BY <2>1
<1>5. \A i, j \in S : <<i, j>> \in R => place[i] < place[j]
  <2>1. SUFFICES ASSUME NEW i \in S, NEW j \in S, <<i, j>> \in R PROVE place[i] < place[j]
    OBVIOUS
  <2> QED
    BY <1>2, <1>3, <2>1
<1>6. \A i \in S : place[i] \in Nat
  BY <1>1, <1>4
<1>7. \A i, j \in S : place[i] < place[j] => <<i, j>> \in R
  <2>1. SUFFICES ASSUME NEW i \in S, NEW j \in S, place[i] < place[j] PROVE <<i, j>> \in R
    OBVIOUS
  <2>2. place[i] \in Nat /\ place[j] \in Nat
    BY <1>6
  <2>3. i # j /\ <<j, i>> \notin R
    <3>1. <<j, i>> \in R => place[j] < place[i]
      BY <1>5
    <3> QED
      BY <2>1, <2>2, <3>1
  <2> QED
    BY <2>3
<1>8. \A i, j \in S : place[i] = place[j] => i = j
  <2>1. SUFFICES ASSUME NEW i \in S, NEW j \in S, i # j PROVE place[i] # place[j]
    OBVIOUS
  <2>2. place[i] < place[j] \/ place[j] < place[i]
    BY <1>5, <2>1
  <2> QED
    BY <1>6, <2>2
<1>9. place \in Injection(S, 1..Cardinality(S))
  BY <1>4, <1>8 DEF Injection, IsInjective
<1>10. IsFiniteSet(1..Cardinality(S)) /\ Cardinality(1..Cardinality(S)) = Cardinality(S)
  BY <1>1, FS_Interval
<1>11. place \in Surjection(S, 1..Cardinality(S))
  BY <1>9, <1>10, FS_Injection
<1>12. \A n \in 1..Cardinality(S) : \E i \in S : place[i] = n
  BY <1>11 DEF Surjection
<1> HIDE DEF place
<1> QED
  BY <1>4, <1>5, <1>7, <1>8, <1>12 DEF Numbers, place

-----------------------------------------------------------------------------
(* The sort *)

Key == Int \X Int \X Int \X Int \X Int

\* The order of the keys, spelled out.
LEMMA KeyLessMeans ==
  ASSUME NEW k \in Key, NEW l \in Key
  PROVE  KeyLess(k, l) <=>
           \/ k[1] < l[1]
           \/ k[1] = l[1] /\ k[2] < l[2]
           \/ k[1] = l[1] /\ k[2] = l[2] /\ k[3] < l[3]
           \/ k[1] = l[1] /\ k[2] = l[2] /\ k[3] = l[3] /\ k[4] < l[4]
           \/ k[1] = l[1] /\ k[2] = l[2] /\ k[3] = l[3] /\ k[4] = l[4] /\ k[5] < l[5]
<1>1. DOMAIN k = 1..5
  BY DEF Key
<1>2. /\ 1..0 = {} /\ 1..1 = {1} /\ 1..2 = {1, 2} /\ 1..3 = {1, 2, 3} /\ 1..4 = {1, 2, 3, 4}
      /\ 1..5 = {1, 2, 3, 4, 5}
  OBVIOUS
<1>3. KeyLess(k, l) <=> \E n \in {1, 2, 3, 4, 5} :
                           k[n] < l[n] /\ \A m \in 1..(n - 1) : k[m] = l[m]
  BY <1>1, <1>2 DEF KeyLess
<1> QED
  BY <1>2, <1>3

LEMMA KeysOrdered ==
  ASSUME NEW k \in Key, NEW l \in Key, NEW m \in Key
  PROVE  /\ ~ KeyLess(k, k)
         /\ KeyLess(k, l) /\ KeyLess(l, m) => KeyLess(k, m)
         /\ KeyLess(k, l) \/ KeyLess(l, k) \/ k = l
<1>1. \A n \in 1..5 : k[n] \in Int /\ l[n] \in Int /\ m[n] \in Int
  BY DEF Key
<1>2. ~ KeyLess(k, k)
  BY <1>1, KeyLessMeans
<1>3. KeyLess(k, l) /\ KeyLess(l, m) => KeyLess(k, m)
  BY <1>1, KeyLessMeans
<1>4. k = <<k[1], k[2], k[3], k[4], k[5]>> /\ l = <<l[1], l[2], l[3], l[4], l[5]>>
  BY DEF Key
<1>5. KeyLess(k, l) \/ KeyLess(l, k) \/ k = l
  BY <1>1, <1>4, KeyLessMeans
<1> QED
  BY <1>2, <1>3, <1>5

-----------------------------------------------------------------------------
(* What a provider's state makes of a price *)

StateOK(q) ==
    \/ q = NoState
    \/ q # NoState /\ q.fraction \in 0..Full /\ q.reset \in Nat \cup {NoReset}

LEMMA Scales ==
  /\ Full \in Nat /\ Full > 0 /\ Headroom \in Nat /\ Headroom > 0 /\ Headroom <= Full
  /\ Full = 4 * Headroom /\ Unit \in Nat /\ Unit > Full
BY MeterAssumption

\* Risk and bonus are what their names say: neither is below zero, the risk is
\* nothing from the headroom on, and with more left the one falls as the other grows.
LEMMA RiskAndBonus ==
  ASSUME NEW q, NEW r, StateOK(q), StateOK(r), q # NoState, r # NoState,
         q.fraction <= r.fraction, q.reset = r.reset, NEW t \in Nat
  PROVE  /\ RejectionRisk(q) \in Nat /\ RejectionRisk(r) \in Nat
         /\ ExpiryBonus(q, t) \in Nat /\ ExpiryBonus(r, t) \in Nat
         /\ RejectionRisk(r) <= RejectionRisk(q)
         /\ ExpiryBonus(q, t) <= ExpiryBonus(r, t)
         /\ q.fraction >= Headroom => RejectionRisk(q) = 0
<1> DEFINE f == q.fraction   g == r.fraction   h == Headroom
<1>1. f \in 0..Full /\ g \in 0..Full /\ f <= g /\ q.reset \in Nat \cup {NoReset}
  BY DEF StateOK
<1>2. RejectionRisk(q) = IF f >= h THEN 0 ELSE (Unit * (h - f) * (h - f)) \div (h * h)
  BY DEF RejectionRisk
<1>3. RejectionRisk(r) = IF g >= h THEN 0 ELSE (Unit * (h - g) * (h - g)) \div (h * h)
  BY DEF RejectionRisk
<1>4. h \in Nat /\ h * h \in Nat /\ h * h > 0
  BY Scales
<1> HIDE DEF f, g, h
<1>5. ASSUME f < h
      PROVE  /\ Unit * (h - f) * (h - f) \in Nat
             /\ (Unit * (h - f) * (h - f)) \div (h * h) \in Nat
  <2>1. h - f \in Nat
    BY <1>1, <1>4, <1>5
  <2>2. \A x \in Nat : Unit * x \in Nat /\ Unit * x * x \in Nat
    BY Scales
  <2>3. Unit * (h - f) * (h - f) \in Nat
    BY <2>1, <2>2
  <2> QED
    BY <1>4, <2>3, QuotientBottom
<1>6. ASSUME g < h
      PROVE  /\ Unit * (h - g) * (h - g) \in Nat
             /\ (Unit * (h - g) * (h - g)) \div (h * h) \in Nat
             /\ (Unit * (h - g) * (h - g)) \div (h * h) <= (Unit * (h - f) * (h - f)) \div (h * h)
  <2>1. h - f \in Nat /\ h - g \in Nat /\ h - g <= h - f /\ f < h
    BY <1>1, <1>4, <1>6, Scales
  <2>2. \A x, y \in Nat : x <= y => /\ Unit * x \in Nat /\ Unit * x * x \in Nat
                                    /\ Unit * x * x <= Unit * y * y
    <3>1. SUFFICES ASSUME NEW x \in Nat, NEW y \in Nat, x <= y
                   PROVE  /\ Unit * x \in Nat /\ Unit * x * x \in Nat
                          /\ Unit * x * x <= Unit * y * y
      OBVIOUS
    <3>2. Unit * x \in Nat /\ Unit * y \in Nat /\ Unit * x <= Unit * y
      BY <3>1, Scales
    <3>3. \A a, b \in Nat : a <= b => a * x \in Nat /\ a * x <= b * y
      BY <3>1
    <3> QED
      BY <3>2, <3>3
  <2>3. /\ Unit * (h - g) * (h - g) \in Nat /\ Unit * (h - f) * (h - f) \in Nat
        /\ Unit * (h - g) * (h - g) <= Unit * (h - f) * (h - f)
    BY <2>1, <2>2
  <2> QED
    BY <1>4, <2>3, QuotientBottom, QuotientTop
<1>7. /\ RejectionRisk(q) \in Nat /\ RejectionRisk(r) \in Nat
      /\ RejectionRisk(r) <= RejectionRisk(q)
      /\ f >= h => RejectionRisk(q) = 0
  <2>1. f \in Nat /\ g \in Nat
    BY <1>1, Scales
  <2> QED
    BY <1>1, <1>2, <1>3, <1>4, <1>5, <1>6, <2>1
<1>8. CASE q.reset = NoReset
  <2>1. ExpiryBonus(q, t) = 0 /\ ExpiryBonus(r, t) = 0
    BY <1>8 DEF ExpiryBonus
  <2> QED
    BY <1>7, <2>1 DEF f, h
<1>9. CASE q.reset # NoReset
  <2> DEFINE e == 10 * (Full + AtLeastZero(q.reset - t))
  <2>1. e \in Nat /\ e > 0
    BY <1>1, <1>9, Scales DEF AtLeastZero
  <2>2. ExpiryBonus(q, t) = (Unit * f) \div e /\ ExpiryBonus(r, t) = (Unit * g) \div e
    BY <1>9 DEF ExpiryBonus, f, g
  <2>3. f \in Nat /\ g \in Nat
    BY <1>1, Scales
  <2>4. Unit * f \in Nat /\ Unit * g \in Nat /\ Unit * f <= Unit * g
    BY <1>1, <2>3, Scales
  <2> HIDE DEF e
  <2>5. /\ ExpiryBonus(q, t) \in Nat /\ ExpiryBonus(r, t) \in Nat
        /\ ExpiryBonus(q, t) <= ExpiryBonus(r, t)
    BY <2>1, <2>2, <2>4, QuotientBottom, QuotientTop
  <2> QED
    BY <1>7, <2>5 DEF f, h
<1> QED
  BY <1>8, <1>9

\* Below the reserve a price is raised by four times the share that is missing.
Raised(q, n, reserve) == n + (4 * n * (reserve - q.fraction)) \div reserve

\* Above it the price falls as what is left outlasts the time to the reset.
Urgent(q, n, left) == (n * left) \div (q.fraction + left)

LEMMA RaisedBounds ==
  ASSUME NEW q, NEW n \in Nat, NEW reserve \in Nat, q.fraction \in Nat, q.fraction < reserve
  PROVE  Raised(q, n, reserve) \in Nat /\ n <= Raised(q, n, reserve)
<1> DEFINE x == reserve - q.fraction
<1>1. x \in Nat
  OBVIOUS
<1> HIDE DEF x
<1>2. 4 * n * x \in Nat
  BY <1>1
<1>3. (4 * n * x) \div reserve \in Nat
  BY <1>2, QuotientBottom
<1>4. Raised(q, n, reserve) = n + (4 * n * x) \div reserve
  BY DEF Raised, x
<1> QED
  BY <1>3, <1>4

LEMMA UrgentBounds ==
  ASSUME NEW q, NEW n \in Nat, NEW left \in Nat, q.fraction \in Nat, left > 0
  PROVE  Urgent(q, n, left) \in Nat /\ Urgent(q, n, left) <= n
<1> DEFINE d == q.fraction + left   u == (n * left) \div d
<1>1. d \in Nat /\ d > 0 /\ left <= d
  OBVIOUS
<1>2. n * left \in Nat /\ n * left <= n * d
  BY <1>1
<1>3. u \in Nat /\ d * u <= n * left
  <2> HIDE DEF d
  <2>1. u \in Nat
    BY <1>1, <1>2, QuotientBottom
  <2>2. d * u <= n * left
    BY <1>1, <1>2, Quotient
  <2> QED
    BY <2>1, <2>2
<1> HIDE DEF d, u
<1>4. d * u <= d * n
  BY <1>1, <1>2, <1>3
<1>5. u <= n
  BY <1>1, <1>3, <1>4
<1> QED
  BY <1>3, <1>5 DEF Urgent, d, u

\* The cases of the repricing before a reset.
LEMMA CostCases ==
  ASSUME NEW q, q # NoState, q.reset # NoReset, NEW n, NEW t, NEW reserve
  PROVE  /\ q.reset - t <= 0 => OpportunityCost(q, n, t, reserve) = n
         /\ ~(q.reset - t <= 0) /\ q.fraction < reserve
            => OpportunityCost(q, n, t, reserve) = Raised(q, n, reserve)
         /\ ~(q.reset - t <= 0) /\ ~(q.fraction < reserve)
            => OpportunityCost(q, n, t, reserve) = Urgent(q, n, q.reset - t)
BY Zenon DEF OpportunityCost, Raised, Urgent

LEMMA CostTyped ==
  ASSUME NEW q, StateOK(q), NEW n \in Nat, NEW t \in Nat, NEW reserve \in Nat
  PROVE  OpportunityCost(q, n, t, reserve) \in Nat /\ DepletionPenalty(q, t) \in Int
<1>1. OpportunityCost(q, n, t, reserve) \in Nat
  <2>1. CASE q = NoState \/ q.reset = NoReset
    BY <2>1 DEF OpportunityCost
  <2>2. CASE q # NoState /\ q.reset # NoReset
    <3>1. q.fraction \in Nat /\ q.reset - t \in Int
      BY <2>2, Scales DEF StateOK
    <3>2. CASE ~(q.reset - t <= 0) /\ q.fraction < reserve
      BY <2>2, <3>1, <3>2, CostCases, RaisedBounds
    <3>3. CASE ~(q.reset - t <= 0) /\ ~(q.fraction < reserve)
      <4>1. q.reset - t \in Nat /\ q.reset - t > 0
        BY <3>1, <3>3
      <4>2. Urgent(q, n, q.reset - t) \in Nat
        BY <3>1, <4>1, UrgentBounds
      <4> QED
        BY <2>2, <3>3, <4>2, CostCases
    <3> QED
      BY <2>2, <3>2, <3>3, CostCases
  <2> QED
    BY <2>1, <2>2
<1>2. DepletionPenalty(q, t) \in Int
  BY RiskAndBonus, Scales DEF DepletionPenalty, StateOK
<1> QED
  BY <1>1, <1>2

\* With more left of a provider, the window the same, a request costs no more.
LEMMA MoreCostsLess ==
  ASSUME NEW q, NEW r, StateOK(q), StateOK(r), q # NoState, r # NoState,
         q.fraction <= r.fraction, q.reset = r.reset,
         NEW n \in Nat, NEW t \in Nat, NEW reserve \in Nat
  PROVE  /\ OpportunityCost(r, n, t, reserve) <= OpportunityCost(q, n, t, reserve)
         /\ DepletionPenalty(r, t) <= DepletionPenalty(q, t)
<1>0. q.fraction \in Nat /\ r.fraction \in Nat /\ q.fraction <= r.fraction
  BY Scales DEF StateOK
<1>1. DepletionPenalty(r, t) <= DepletionPenalty(q, t)
  BY RiskAndBonus DEF DepletionPenalty
<1>2. CASE q.reset = NoReset
  <2>1. OpportunityCost(q, n, t, reserve) = IF q.fraction >= reserve THEN n ELSE 4 * n
    BY <1>2 DEF OpportunityCost
  <2>2. OpportunityCost(r, n, t, reserve) = IF r.fraction >= reserve THEN n ELSE 4 * n
    BY <1>2 DEF OpportunityCost
  <2> QED
    BY <1>0, <1>1, <2>1, <2>2
<1>3. CASE q.reset # NoReset
  <2> DEFINE left == q.reset - t
             old == OpportunityCost(q, n, t, reserve)   new == OpportunityCost(r, n, t, reserve)
  <2>1. left \in Int
    BY <1>3 DEF StateOK
  <2>2. /\ left <= 0 => old = n
        /\ ~(left <= 0) /\ q.fraction < reserve => old = Raised(q, n, reserve)
        /\ ~(left <= 0) /\ ~(q.fraction < reserve) => old = Urgent(q, n, left)
    BY <1>3, CostCases
  <2>3. /\ left <= 0 => new = n
        /\ ~(left <= 0) /\ r.fraction < reserve => new = Raised(r, n, reserve)
        /\ ~(left <= 0) /\ ~(r.fraction < reserve) => new = Urgent(r, n, left)
    BY <1>3, CostCases
  <2> HIDE DEF left, old, new
  <2> SUFFICES new <= old
    BY <1>1 DEF old, new
  <2>4. CASE left <= 0
    BY <2>2, <2>3, <2>4
  <2>5. CASE ~(left <= 0) /\ r.fraction < reserve
    <3>1. q.fraction < reserve
      BY <1>0, <2>5
    <3>2. old = Raised(q, n, reserve) /\ new = Raised(r, n, reserve)
      BY <2>2, <2>3, <2>5, <3>1
    <3> DEFINE x == reserve - r.fraction   y == reserve - q.fraction
    <3>3. x \in Nat /\ y \in Nat /\ x <= y
      BY <1>0, <2>5, <3>1
    <3> HIDE DEF x, y
    <3>4. 4 * n * x \in Nat /\ 4 * n * y \in Nat /\ 4 * n * x <= 4 * n * y
      BY <3>3
    <3>5. reserve > 0
      BY <1>0, <2>5
    <3>6. /\ (4 * n * x) \div reserve <= (4 * n * y) \div reserve
          /\ (4 * n * x) \div reserve \in Int /\ (4 * n * y) \div reserve \in Int
      BY <3>4, <3>5, QuotientTop, Quotient
    <3>7. /\ Raised(r, n, reserve) = n + (4 * n * x) \div reserve
          /\ Raised(q, n, reserve) = n + (4 * n * y) \div reserve
      BY DEF Raised, x, y
    <3> QED
      BY <3>2, <3>6, <3>7
  <2>6. CASE ~(left <= 0) /\ ~(r.fraction < reserve) /\ q.fraction < reserve
    <3>1. n <= Raised(q, n, reserve) /\ Raised(q, n, reserve) \in Nat
      BY <1>0, <2>6, RaisedBounds
    <3>2. left \in Nat /\ left > 0
      BY <2>1, <2>6
    <3>3. Urgent(r, n, left) <= n /\ Urgent(r, n, left) \in Nat
      BY <1>0, <3>2, UrgentBounds
    <3> QED
      BY <2>2, <2>3, <2>6, <3>1, <3>3
  <2>7. CASE ~(left <= 0) /\ ~(q.fraction < reserve)
    <3>1. ~(r.fraction < reserve)
      BY <1>0, <2>7
    <3>2. left \in Nat /\ left > 0 /\ n * left \in Nat
      BY <2>1, <2>7
    <3>3. /\ q.fraction + left \in Nat /\ q.fraction + left > 0
          /\ r.fraction + left \in Nat /\ q.fraction + left <= r.fraction + left
      BY <1>0, <3>2
    <3>4. (n * left) \div (r.fraction + left) <= (n * left) \div (q.fraction + left)
      BY <3>2, <3>3, QuotientBottom
    <3> QED
      BY <2>2, <2>3, <2>7, <3>1, <3>4 DEF Urgent
  <2> QED
    BY <2>4, <2>5, <2>6, <2>7
<1> QED
  BY <1>2, <1>3

\* A request costs no more as the window runs towards its reset unspent.
LEMMA LaterCostsLess ==
  ASSUME NEW q, StateOK(q), q # NoState, NEW t \in Nat, NEW u \in Nat, t <= u, q.reset > u,
         NEW n \in Nat, NEW reserve \in Nat
  PROVE  /\ OpportunityCost(q, n, u, reserve) <= OpportunityCost(q, n, t, reserve)
         /\ DepletionPenalty(q, u) <= DepletionPenalty(q, t)
<1>1. /\ q.fraction \in Nat /\ q.reset \in Nat /\ q.reset # NoReset
      /\ q.reset - t \in Nat /\ q.reset - u \in Nat /\ q.reset - u > 0 /\ q.reset - u <= q.reset - t
  BY Scales DEF StateOK, NoReset
<1> DEFINE far == q.reset - t   near == q.reset - u   f == q.fraction
<1>2. ExpiryBonus(q, t) <= ExpiryBonus(q, u)
  <2> DEFINE d == 10 * (Full + near)   e == 10 * (Full + far)
  <2>1. AtLeastZero(near) = near /\ AtLeastZero(far) = far
    BY <1>1 DEF AtLeastZero
  <2>2. ExpiryBonus(q, t) = (Unit * f) \div e /\ ExpiryBonus(q, u) = (Unit * f) \div d
    BY <1>1, <2>1 DEF ExpiryBonus
  <2>3. d \in Nat /\ e \in Nat /\ d > 0 /\ d <= e
    BY <1>1, Scales
  <2> HIDE DEF d, e
  <2>4. Unit * f \in Nat
    BY <1>1, Scales
  <2> QED
    BY <2>2, <2>3, <2>4, QuotientBottom
<1>3. DepletionPenalty(q, u) <= DepletionPenalty(q, t)
  <2>1. q.fraction <= q.fraction
    BY <1>1
  <2>2. RejectionRisk(q) \in Nat /\ ExpiryBonus(q, t) \in Nat
    BY <2>1, RiskAndBonus
  <2>3. ExpiryBonus(q, u) \in Nat
    BY <2>1, RiskAndBonus
  <2> QED
    BY <1>2, <2>2, <2>3 DEF DepletionPenalty
<1> DEFINE old == OpportunityCost(q, n, t, reserve)   new == OpportunityCost(q, n, u, reserve)
<1>4. /\ f < reserve => old = Raised(q, n, reserve) /\ new = Raised(q, n, reserve)
      /\ ~(f < reserve) => old = Urgent(q, n, far) /\ new = Urgent(q, n, near)
  <2>1. ~(q.reset - t <= 0) /\ ~(q.reset - u <= 0)
    BY <1>1
  <2> QED
    BY <1>1, <2>1, CostCases
<1>5. CASE f < reserve
  <2>1. Raised(q, n, reserve) \in Nat
    BY <1>1, <1>5, RaisedBounds
  <2> QED
    BY <1>3, <1>4, <1>5, <2>1
<1>6. CASE ~(f < reserve)
  <2>1. f + far \in Nat /\ f + near \in Nat /\ f + near > 0 /\ f + far > 0 /\ near <= far
    BY <1>1
  <2> DEFINE x == (n * near) \div (f + near)   y == (n * far) \div (f + far)
  <2>2. n * near \in Nat /\ n * far \in Nat
    BY <1>1
  <2>3. /\ x \in Int /\ y \in Int
        /\ (f + near) * x <= n * near /\ n * far < (f + far) * y + (f + far)
    <3> DEFINE d == f + near   e == f + far   a == n * near   b == n * far
    <3>1. d \in Nat /\ d > 0 /\ e \in Nat /\ e > 0 /\ a \in Int /\ b \in Int
      BY <2>1, <2>2
    <3> HIDE DEF d, e, a, b
    <3>2. a \div d \in Int /\ d * (a \div d) <= a
      BY <3>1, Quotient
    <3>3. b \div e \in Int /\ b < e * (b \div e) + e
      BY <3>1, Quotient
    <3> QED
      BY <3>2, <3>3 DEF d, e, a, b
  <2>4. new = x /\ old = y
    BY <1>4, <1>6 DEF Urgent
  <2>4a. x \in Nat
    BY <2>1, <2>2, QuotientBottom
  <2> HIDE DEF x, y
  <2>5. f \in Nat /\ near \in Nat /\ far \in Nat /\ near > 0
    BY <1>1
  <2> HIDE DEF f, near, far, old, new
  <2>6. x <= n
    <3>1. (f + near) * x >= near * x
      BY <2>4a, <2>5
    <3>2. near * x <= near * n
      BY <2>3, <2>5, <3>1
    <3> QED
      BY <2>4a, <2>5, <3>2
  <2>7. (f + far) * x <= n * far
    <3> DEFINE g == far - near
    <3>1. g \in Nat /\ far = near + g
      BY <2>1, <2>5
    <3> HIDE DEF g
    <3>2. g * x <= g * n
      BY <2>4a, <2>6, <3>1
    <3>3. (f + far) * x = (f + near) * x + g * x /\ n * far = n * near + g * n
      BY <2>4a, <2>5, <3>1
    <3> QED
      BY <2>2, <2>3, <2>4a, <2>5, <3>1, <3>2, <3>3
  <2>8. (f + far) * x < (f + far) * (y + 1)
    BY <2>1, <2>2, <2>3, <2>7
  <2>9. x < y + 1
    BY <2>1, <2>3, <2>8
  <2> QED
    BY <1>3, <2>3, <2>4, <2>9 DEF old, new
<1> QED
  BY <1>5, <1>6

\* What is known to be at least at the headroom costs no more than the unknown.
LEMMA KnownCostsNoMore ==
  ASSUME NEW q, StateOK(q), q # NoState, q.fraction >= Headroom,
         NEW n \in Nat, NEW t \in Nat, NEW reserve \in Nat, reserve <= Headroom
  PROVE  /\ OpportunityCost(q, n, t, reserve) <= OpportunityCost(NoState, n, t, reserve)
         /\ DepletionPenalty(q, t) <= DepletionPenalty(NoState, t)
<1>1. /\ q.fraction \in Nat /\ ~(q.fraction < reserve)
      /\ q.reset \in Int
  BY Scales DEF StateOK, NoReset
<1>2. OpportunityCost(NoState, n, t, reserve) = n /\ DepletionPenalty(NoState, t) = 0
  BY DEF OpportunityCost, DepletionPenalty
<1>3. DepletionPenalty(q, t) <= 0
  BY RiskAndBonus, <1>1 DEF DepletionPenalty
<1> SUFFICES OpportunityCost(q, n, t, reserve) <= n
  BY <1>2, <1>3
<1>4. CASE q.reset = NoReset
  BY <1>1, <1>4 DEF OpportunityCost
<1>5. CASE q.reset # NoReset /\ q.reset - t <= 0
  BY <1>5, CostCases
<1>6. CASE q.reset # NoReset /\ ~(q.reset - t <= 0)
  <2>1. q.reset - t \in Nat /\ q.reset - t > 0
    BY <1>1, <1>6
  <2>2. Urgent(q, n, q.reset - t) <= n
    BY <1>1, <2>1, UrgentBounds
  <2> QED
    BY <1>1, <1>6, <2>2, CostCases
<1> QED
  BY <1>4, <1>5, <1>6

\* The provider being the same, the higher price costs more.
LEMMA CostTellsPrices ==
  ASSUME NEW q, StateOK(q), NEW t \in Nat, NEW reserve \in Nat,
         NEW m \in Nat, NEW n \in Nat, m + Unit <= n
  PROVE  OpportunityCost(q, m, t, reserve) < OpportunityCost(q, n, t, reserve)
<1>0. Unit \in Nat /\ Unit > 0 /\ m < n
  BY Scales
<1>1. CASE q = NoState \/ q.reset = NoReset
  BY <1>0, <1>1 DEF OpportunityCost
<1>2. CASE q # NoState /\ q.reset # NoReset
  <2> DEFINE left == q.reset - t   f == q.fraction
             a == OpportunityCost(q, m, t, reserve)   b == OpportunityCost(q, n, t, reserve)
  <2>1. left \in Int /\ f \in Nat /\ f <= Full
    BY <1>2, Scales DEF StateOK
  <2>2. /\ left <= 0 => a = m /\ b = n
        /\ ~(left <= 0) /\ f < reserve => a = Raised(q, m, reserve) /\ b = Raised(q, n, reserve)
        /\ ~(left <= 0) /\ ~(f < reserve) => a = Urgent(q, m, left) /\ b = Urgent(q, n, left)
    BY <1>2, CostCases
  <2> HIDE DEF left, a, b
  <2> SUFFICES a < b
    BY DEF a, b
  <2>3. CASE left <= 0
    BY <1>0, <2>2, <2>3
  <2>4. CASE ~(left <= 0) /\ f < reserve
    <3> DEFINE x == reserve - f
    <3>1. x \in Nat /\ reserve > 0
      BY <2>1, <2>4
    <3> HIDE DEF x
    <3>2. 4 * m * x \in Nat /\ 4 * n * x \in Nat /\ 4 * m * x <= 4 * n * x
      BY <1>0, <3>1
    <3>3. /\ (4 * m * x) \div reserve \in Int /\ (4 * n * x) \div reserve \in Int
          /\ (4 * m * x) \div reserve <= (4 * n * x) \div reserve
      BY <3>1, <3>2, Quotient, QuotientTop
    <3>4. a = m + (4 * m * x) \div reserve /\ b = n + (4 * n * x) \div reserve
      BY <2>2, <2>4 DEF Raised, x
    <3> QED
      BY <1>0, <3>3, <3>4
  <2>5. CASE ~(left <= 0) /\ ~(f < reserve)
    <3> DEFINE d == f + left
    <3>1. d \in Nat /\ d > 0 /\ left \in Nat /\ left >= 1 /\ d <= Full + left
      BY <2>1, <2>5, Scales
    <3>2. a = (m * left) \div d /\ b = (n * left) \div d
      BY <2>2, <2>5 DEF Urgent
    <3> HIDE DEF d
    <3>3. Full + left <= (Full + 1) * left
      <4>1. Full <= Full * left
        BY <3>1, Scales
      <4> QED
        BY <3>1, <4>1, Scales
    <3>4. (Full + 1) * left <= Unit * left
      BY <3>1, Scales
    <3>5. (m + Unit) * left <= n * left /\ (m + Unit) * left = m * left + Unit * left
      BY <1>0, <3>1
    <3>6. m * left \in Nat /\ n * left \in Nat /\ Unit * left \in Nat
      BY <1>0, <3>1
    <3>7. m * left + d <= n * left
      <4>1. d <= Unit * left
        BY <3>1, <3>3, <3>4, <3>6, Scales
      <4> QED
        BY <3>1, <3>5, <3>6, <4>1
    <3> QED
      BY <3>1, <3>2, <3>6, <3>7, QuotientApart
  <2> QED
    BY <2>3, <2>4, <2>5
<1> QED
  BY <1>1, <1>2

-----------------------------------------------------------------------------
(* What is published of a provider *)

Windowed == [budget : Nat \ {0}, period : Nat \ {0}]

\* A window that is running has begun and is not over.
LEMMA WindowRuns ==
  ASSUME NEW w \in Windowed, NEW t \in Nat
  PROVE  /\ WindowStart(w, t) \in Nat /\ WindowStart(w, t) <= t
         /\ t < WindowStart(w, t) + w.period
<1> DEFINE d == w.period   q == t \div d
<1>1. d \in Nat /\ d > 0
  BY DEF Windowed
<1>2. q \in Nat /\ d * q <= t /\ t < d * q + d
  <2> HIDE DEF d
  <2> QED
    BY <1>1, Quotient, QuotientBottom
<1>3. WindowStart(w, t) = q * d
  BY DEF WindowStart
<1> HIDE DEF d, q
<1>4. q * d = d * q /\ q * d \in Nat
  BY <1>1, <1>2
<1> QED
  BY <1>2, <1>3, <1>4 DEF d

\* The readings of one run of the command: all are known.
Readings(t) ==
  [fraction : 0..Full, confidence : {"measured", "estimated"}, source : {"model-scan", "live"},
   at : {t}, reset : Nat \cup {NoReset}]

LEMMA BudgetReadingIs ==
  ASSUME NEW w \in Windowed, NEW s \in Nat, NEW t \in Nat
  PROVE  LET r == BudgetReading(w, s, WindowStart(w, t), t)
         IN  /\ r \in Readings(t) /\ r.source = "model-scan" /\ r.reset \in Nat /\ r.reset > t
             /\ s >= w.budget => r.fraction = 0 /\ r.confidence = "measured"
<1> DEFINE b == w.budget   left == AtLeastZero(b - s)   share == (Full * left) \div b
           start == WindowStart(w, t)
<1>1. b \in Nat /\ b > 0 /\ w.period \in Nat /\ start \in Nat /\ start <= t /\ t < start + w.period
  BY WindowRuns DEF Windowed
<1>2. left \in Nat /\ left <= b /\ (s >= b => left = 0)
  BY <1>1 DEF AtLeastZero
<1>3. BudgetReading(w, s, start, t) =
        [fraction |-> share, confidence |-> IF s > 0 THEN "measured" ELSE "estimated",
         source |-> "model-scan", at |-> t, reset |-> start + w.period]
  <2>1. ~(t - start >= w.period) /\ w.budget > 0
    BY <1>1
  <2> HIDE DEF start
  <2> QED
    BY <2>1 DEF BudgetReading
<1> HIDE DEF b, left, start
<1>4. share \in 0..Full /\ (s >= b => share = 0)
  <2>1. Full * left \in Nat /\ Full * left <= Full * b /\ (left = 0 => Full * left = 0)
    BY <1>1, <1>2, Scales
  <2>2. share \in Nat /\ b * share <= Full * left
    BY <1>1, <2>1, Quotient, QuotientBottom
  <2> HIDE DEF share
  <2>3. b * share <= b * Full
    BY <1>1, <2>1, <2>2, Scales
  <2>4. share <= Full
    BY <1>1, <2>2, <2>3, Scales
  <2>5. left = 0 => share = 0
    BY <1>1, <2>1, <2>2
  <2> QED
    BY <1>2, <2>2, <2>4, <2>5, Scales
<1> HIDE DEF share
<1>5. start + w.period \in Nat /\ start + w.period > t
  BY <1>1
<1>6. s >= b => s > 0
  BY <1>1
<1> QED
  BY <1>3, <1>4, <1>5, <1>6 DEF Readings, b, start

LEMMA PrecedenceIs ==
  ASSUME NEW t, NEW r \in Readings(t)
  PROVE  /\ Known(r)
         /\ Precedence(r) \in 2..4
         /\ r.confidence = "measured" => Precedence(r) = IF r.source = "live" THEN 4 ELSE 3
         /\ r.confidence = "estimated" => Precedence(r) = 2
<1>1. Known(r)
  BY Scales DEF Readings, Known, NoFraction
<1>2. CASE r.confidence = "measured"
  BY <1>1, <1>2 DEF Precedence, Readings
<1>3. CASE r.confidence = "estimated"
  BY <1>1, <1>3 DEF Precedence, Readings
<1> QED
  BY <1>1, <1>2, <1>3 DEF Readings

\* The merge takes a reading of the best tier, and none of that tier says that
\* less is left.
LEMMA MergeIs ==
  ASSUME NEW t \in Nat, NEW rs \in Seq(Readings(t)), rs # <<>>
  PROVE  \E b \in TopTier(rs) :
           /\ Merge(rs).fraction = rs[b].fraction /\ Merge(rs).reset = rs[b].reset
           /\ Merge(rs).confidence = rs[b].confidence
           /\ Merge(rs).source \in {"model-scan", "live", "merged"}
           /\ \A j \in TopTier(rs) : rs[b].fraction <= rs[j].fraction
<1> DEFINE D == DOMAIN rs   tier == TopTier(rs)
<1>1. D \subseteq Nat /\ D # {} /\ \A i \in D : rs[i] \in Readings(t)
  <2> DEFINE R == Readings(t)
  <2>1. rs \in Seq(R)
    OBVIOUS
  <2> HIDE DEF R
  <2>2. D = 1..Len(rs) /\ Len(rs) \in Nat /\ \A i \in D : rs[i] \in R
    BY <2>1
  <2>3. Len(rs) # 0
    BY <2>1
  <2>4. 1 \in D
    BY <2>2, <2>3
  <2> QED
    BY <2>2, <2>4 DEF R
<1>2. \A i \in D : /\ Known(rs[i]) /\ Precedence(rs[i]) \in 2..4
                   /\ rs[i].fraction \in Nat /\ rs[i].at = t
  <2>1. \A r \in Readings(t) : Known(r) /\ Precedence(r) \in 2..4
    BY PrecedenceIs
  <2>2. \A r \in Readings(t) : r.fraction \in Nat /\ r.at = t
    BY Scales DEF Readings
  <2> QED
    BY <1>1, <2>1, <2>2
<1>3. PICK top \in D : \A i \in D : Precedence(rs[i]) <= Precedence(rs[top])
  <2> DEFINE T == {4 - Precedence(rs[i]) : i \in D}
  <2>1. T \subseteq Nat /\ T # {}
    BY <1>1, <1>2
  <2>2. PICK x \in T : \A y \in T : x <= y
    BY <2>1, LeastNatural
  <2>3. PICK i \in D : x = 4 - Precedence(rs[i])
    OBVIOUS
  <2>4. \A k \in D : Precedence(rs[k]) <= Precedence(rs[i])
    <3>1. \A k \in D : 4 - Precedence(rs[i]) <= 4 - Precedence(rs[k])
      BY <2>2, <2>3
    <3> QED
      BY <1>2, <3>1
  <2> QED
    BY <2>4
<1>4. top \in tier /\ tier \subseteq D
  BY <1>3 DEF TopTier
<1>5. PICK least \in tier : \A i \in tier : rs[least].fraction <= rs[i].fraction
  <2> DEFINE T == {rs[i].fraction : i \in tier}
  <2>1. T \subseteq Nat /\ T # {}
    BY <1>2, <1>4
  <2>2. PICK x \in T : \A y \in T : x <= y
    BY <2>1, LeastNatural
  <2> QED
    BY <2>2
<1>6. PICK first \in tier : /\ rs[first].fraction = rs[least].fraction
                            /\ \A i \in tier : rs[i].fraction = rs[least].fraction => first <= i
  <2> DEFINE T == {i \in tier : rs[i].fraction = rs[least].fraction}
  <2>1. T \subseteq Nat /\ T # {}
    BY <1>1, <1>4
  <2>2. PICK x \in T : \A y \in T : x <= y
    BY <2>1, LeastNatural
  <2> QED
    BY <2>2
<1> DEFINE Best(i) == \A j \in tier : IF Known(rs[i]) THEN Tighter(rs, i, j) ELSE Newer(rs, i, j)
           chosen == CHOOSE i \in tier : Best(i)
<1>7. \A i \in tier : Best(i) <=> \A j \in tier : Tighter(rs, i, j)
  BY <1>2, <1>4
<1>8. \A j \in tier : Tighter(rs, first, j)
  <2>1. SUFFICES ASSUME NEW j \in tier PROVE Tighter(rs, first, j)
    OBVIOUS
  <2>2. rs[first].fraction <= rs[j].fraction /\ rs[first].fraction \in Nat /\ rs[j].fraction \in Nat
    BY <1>2, <1>4, <1>5, <1>6
  <2>3. rs[first].at = rs[j].at
    BY <1>2, <1>4
  <2>4. rs[first].fraction = rs[j].fraction => first <= j
    BY <1>6
  <2> QED
    BY <2>2, <2>3, <2>4 DEF Tighter
<1>9. chosen \in tier /\ \A j \in tier : Tighter(rs, chosen, j)
  <2>1. \E i \in tier : Best(i)
    BY <1>7, <1>8
  <2> HIDE DEF Best
  <2>2. chosen \in tier /\ Best(chosen)
    BY <2>1
  <2> QED
    BY <1>7, <2>2
<1>10. \A j \in tier : rs[chosen].fraction <= rs[j].fraction
  <2> HIDE DEF chosen
  <2> QED
    BY <1>2, <1>4, <1>9 DEF Tighter
<1>11. Merge(rs) = [rs[chosen] EXCEPT !.source = "merged"] \/ Merge(rs) = rs[chosen]
  BY DEF Merge
<1> HIDE DEF chosen
<1>12. rs[chosen] \in Readings(t)
  BY <1>1, <1>4, <1>9
<1>13. /\ Merge(rs).fraction = rs[chosen].fraction /\ Merge(rs).reset = rs[chosen].reset
       /\ Merge(rs).confidence = rs[chosen].confidence
       /\ Merge(rs).source \in {"model-scan", "live", "merged"}
  BY <1>11, <1>12 DEF Readings
<1> QED
  BY <1>9, <1>10, <1>13

SpentOK(sp) == \A p \in Providers : sp[p] \in [DOMAIN Windows[p] -> Nat]

Shares == 0..Full \cup {NoFraction}

\* The readings that are merged, the windows' first.
MergedReadings(p, sp, lv, t) == BudgetReadings(p, sp, t) \o LiveReadings(p, lv, t)

AsMerged(rs, p, sp, lv, t) ==
  /\ rs \in Seq(Readings(t))
  /\ Len(Windows[p]) \in Nat /\ DOMAIN Windows[p] = 1..Len(Windows[p])
  /\ Len(rs) = Len(Windows[p]) + (IF lv[p] = NoFraction THEN 0 ELSE 1)
  /\ \A i \in 1..Len(Windows[p]) :
        /\ rs[i].source = "model-scan" /\ rs[i].reset \in Nat /\ rs[i].reset > t
        /\ sp[p][i] >= Windows[p][i].budget => rs[i].fraction = 0 /\ rs[i].confidence = "measured"
  /\ lv[p] # NoFraction => rs[Len(Windows[p]) + 1] = LiveReading(lv[p], t)

LEMMA MeteredReadings ==
  ASSUME NEW p \in Providers, NEW sp, SpentOK(sp), NEW lv \in [Providers -> Shares], NEW t \in Nat
  PROVE  AsMerged(MergedReadings(p, sp, lv, t), p, sp, lv, t)
<1> DEFINE bs == BudgetReadings(p, sp, t)   ls == LiveReadings(p, lv, t)   W == Windows[p]
           R == Readings(t)
<1>1. /\ W \in Seq(Windowed) /\ DOMAIN W = 1..Len(W) /\ Len(W) \in Nat
      /\ \A i \in 1..Len(W) : W[i] \in Windowed
  <2>1. W \in Seq(Windowed)
    BY RoutingAssumption DEF Windowed
  <2> HIDE DEF W
  <2> QED
    BY <2>1
<1>2. /\ bs = [i \in 1..Len(W) |-> bs[i]]
      /\ \A i \in 1..Len(W) : bs[i] = BudgetReading(W[i], sp[p][i], WindowStart(W[i], t), t)
  <2> HIDE DEF W
  <2> QED
    BY <1>1 DEF BudgetReadings, W
<1>3. \A i \in 1..Len(W) :
         /\ bs[i] \in R /\ bs[i].source = "model-scan" /\ bs[i].reset \in Nat /\ bs[i].reset > t
         /\ sp[p][i] >= W[i].budget => bs[i].fraction = 0 /\ bs[i].confidence = "measured"
  <2>1. SUFFICES ASSUME NEW i \in 1..Len(W)
        PROVE /\ bs[i] \in R /\ bs[i].source = "model-scan" /\ bs[i].reset \in Nat /\ bs[i].reset > t
              /\ sp[p][i] >= W[i].budget => bs[i].fraction = 0 /\ bs[i].confidence = "measured"
    OBVIOUS
  <2>2. sp[p][i] \in Nat
    BY <1>1 DEF SpentOK
  <2>3. W[i] \in Windowed
    BY <1>1
  <2>4. bs[i] = BudgetReading(W[i], sp[p][i], WindowStart(W[i], t), t)
    BY <1>2
  <2> HIDE DEF bs, W
  <2> QED
    BY <2>2, <2>3, <2>4, BudgetReadingIs
<1>4. bs \in Seq(R) /\ Len(bs) = Len(W)
  <2> HIDE DEF bs, W, R
  <2> QED
    BY <1>1, <1>2, <1>3
<1>5. CASE lv[p] = NoFraction
  <2>1. ls = <<>>
    BY <1>5 DEF LiveReadings
  <2>0. MergedReadings(p, sp, lv, t) = bs \o ls
    BY DEF MergedReadings
  <2> HIDE DEF bs, ls, W, R
  <2>2. ls \in Seq(R) /\ bs \o ls \in Seq(R) /\ Len(ls) = 0 /\ Len(bs \o ls) = Len(bs) + Len(ls)
    BY <1>4, <2>1
  <2>3. \A i \in 1..Len(W) : (bs \o ls)[i] = bs[i]
    BY <1>4, <2>1
  <2> QED
    BY <1>1, <1>3, <1>4, <1>5, <2>0, <2>2, <2>3 DEF W, R, AsMerged
<1>6. CASE lv[p] # NoFraction
  <2> DEFINE r == LiveReading(lv[p], t)
  <2>1. ls = <<r>>
    BY <1>6 DEF LiveReadings
  <2>2. r \in R
    BY <1>6, Scales DEF LiveReading, Readings, Shares
  <2>0. MergedReadings(p, sp, lv, t) = bs \o ls
    BY DEF MergedReadings
  <2> HIDE DEF bs, ls, W, R, r
  <2>3. ls \in Seq(R) /\ bs \o ls \in Seq(R) /\ Len(ls) = 1 /\ Len(bs \o ls) = Len(bs) + Len(ls)
    BY <1>4, <2>1, <2>2
  <2>4. \A i \in 1..Len(W) : (bs \o ls)[i] = bs[i]
    BY <1>4, <1>1, <2>1, <2>2
  <2>5. (bs \o ls)[Len(bs) + 1] = r
    BY <1>4, <1>1, <2>1, <2>2
  <2> QED
    BY <1>1, <1>3, <1>4, <1>6, <2>0, <2>3, <2>4, <2>5 DEF W, R, r, AsMerged
<1> QED
  BY <1>5, <1>6

\* What is metered of a provider: the live reading if there is one, and else
\* nothing when a single window is spent.
LEMMA MeteredIs ==
  ASSUME NEW p \in Providers, NEW sp, SpentOK(sp), NEW lv \in [Providers -> Shares], NEW t \in Nat,
         lv[p] # NoFraction \/ Windows[p] # <<>>
  PROVE  LET q == MeteredState(p, sp, lv, t)
         IN  /\ q # NoState /\ StateOK(q) /\ (q.reset = NoReset \/ q.reset > t)
             /\ lv[p] # NoFraction => q.fraction = lv[p]
             /\ lv[p] = NoFraction =>
                   \A i \in DOMAIN Windows[p] : sp[p][i] >= Windows[p][i].budget => q.fraction = 0
<1> DEFINE rs == MergedReadings(p, sp, lv, t)   n == Len(Windows[p])
<1>1. /\ rs \in Seq(Readings(t)) /\ n \in Nat /\ DOMAIN Windows[p] = 1..n
      /\ Len(rs) = n + (IF lv[p] = NoFraction THEN 0 ELSE 1)
      /\ \A i \in 1..n : /\ rs[i].source = "model-scan" /\ rs[i].reset \in Nat /\ rs[i].reset > t
                         /\ sp[p][i] >= Windows[p][i].budget
                            => rs[i].fraction = 0 /\ rs[i].confidence = "measured"
      /\ lv[p] # NoFraction => rs[n + 1] = LiveReading(lv[p], t)
  <2>1. AsMerged(rs, p, sp, lv, t)
    BY MeteredReadings
  <2> HIDE DEF rs
  <2> QED
    BY <2>1 DEF AsMerged
<1>2. n > 0 \/ lv[p] # NoFraction
  <2>1. Windows[p] \in Seq(Windowed)
    BY RoutingAssumption DEF Windowed
  <2> DEFINE W == Windows[p]
  <2> HIDE DEF W
  <2>2. W # <<>> => Len(W) > 0
    BY <2>1 DEF W
  <2> QED
    BY <2>2 DEF W
<1> HIDE DEF rs, n
<1>3. /\ Len(rs) > 0 /\ DOMAIN rs = 1..Len(rs) /\ rs # <<>>
      /\ \A i \in DOMAIN rs : rs[i] \in Readings(t)
  <2> DEFINE R == Readings(t)
  <2>1. rs \in Seq(R) /\ Len(rs) > 0
    BY <1>1, <1>2
  <2> HIDE DEF R
  <2>2. DOMAIN rs = 1..Len(rs) /\ rs # <<>> /\ \A i \in DOMAIN rs : rs[i] \in R
    BY <2>1
  <2> QED
    BY <2>1, <2>2 DEF R
<1>4. PICK b \in TopTier(rs) :
           /\ Merge(rs).fraction = rs[b].fraction /\ Merge(rs).reset = rs[b].reset
           /\ Merge(rs).confidence = rs[b].confidence
           /\ Merge(rs).source \in {"model-scan", "live", "merged"}
           /\ \A j \in TopTier(rs) : rs[b].fraction <= rs[j].fraction
  BY <1>1, <1>3, MergeIs
<1>5. b \in DOMAIN rs /\ rs[b] \in Readings(t)
  BY <1>3, <1>4 DEF TopTier
<1> DEFINE q == MeteredState(p, sp, lv, t)
<1>6. q = [fraction |-> rs[b].fraction, reset |-> rs[b].reset, source |-> Merge(rs).source]
  <2>1. Known(Merge(rs))
    BY <1>4, <1>5, Scales DEF Known, Readings, NoFraction
  <2> QED
    BY <1>3, <1>4, <2>1 DEF MeteredState, ProviderState, QuotaState, MergedReadings, rs
<1>7. q # NoState /\ StateOK(q)
  <2>1. q # NoState
    BY <1>4, <1>6 DEF NoState
  <2> QED
    BY <1>5, <1>6, <2>1 DEF StateOK, Readings
<1>8. \A i \in DOMAIN rs : rs[i].reset = NoReset \/ rs[i].reset > t
  <2>1. SUFFICES ASSUME NEW i \in DOMAIN rs PROVE rs[i].reset = NoReset \/ rs[i].reset > t
    OBVIOUS
  <2>2. i \in 1..n \/ (i = n + 1 /\ lv[p] # NoFraction)
    BY <1>1, <1>3
  <2> QED
    BY <1>1, <2>2 DEF LiveReading
<1>9. q.reset = NoReset \/ q.reset > t
  BY <1>5, <1>6, <1>8
<1>10. \A i \in DOMAIN rs : Precedence(rs[i]) \in 2..4
  BY <1>3, PrecedenceIs
<1>11. ASSUME lv[p] # NoFraction PROVE q.fraction = lv[p]
  <2>1. n + 1 \in DOMAIN rs /\ rs[n + 1].source = "live" /\ rs[n + 1].confidence = "measured"
        /\ rs[n + 1].fraction = lv[p]
    BY <1>1, <1>3, <1>11 DEF LiveReading
  <2>2. Precedence(rs[n + 1]) = 4
    BY <1>3, <2>1, PrecedenceIs
  <2>3. Precedence(rs[b]) = 4
    BY <1>4, <1>5, <1>10, <2>1, <2>2 DEF TopTier
  <2>4. b \notin 1..n
    <3>1. SUFFICES ASSUME b \in 1..n PROVE FALSE
      OBVIOUS
    <3>2. rs[b].source = "model-scan"
      BY <1>1, <3>1
    <3>3. rs[b].confidence \in {"measured", "estimated"}
      BY <1>5 DEF Readings
    <3> QED
      BY <1>5, <2>3, <3>2, <3>3, PrecedenceIs
  <2>5. b = n + 1
    BY <1>1, <1>3, <1>5, <1>11, <2>4
  <2> QED
    BY <1>6, <2>1, <2>5
<1>12. ASSUME lv[p] = NoFraction, NEW i \in DOMAIN Windows[p], sp[p][i] >= Windows[p][i].budget
       PROVE  q.fraction = 0
  <2>1. i \in DOMAIN rs /\ rs[i].fraction = 0 /\ rs[i].confidence = "measured"
        /\ rs[i].source = "model-scan"
    BY <1>1, <1>3, <1>12
  <2>2. Precedence(rs[i]) = 3
    BY <1>3, <2>1, PrecedenceIs
  <2>3. \A j \in DOMAIN rs : rs[j].source = "model-scan"
    BY <1>1, <1>3, <1>12
  <2>4. \A j \in DOMAIN rs : Precedence(rs[j]) <= 3
    <3>1. SUFFICES ASSUME NEW j \in DOMAIN rs PROVE Precedence(rs[j]) <= 3
      OBVIOUS
    <3>2. rs[j] \in Readings(t) /\ rs[j].confidence \in {"measured", "estimated"}
      BY <1>3 DEF Readings
    <3> QED
      BY <2>3, <3>2, PrecedenceIs
  <2>5. i \in TopTier(rs)
    BY <2>1, <2>2, <2>4 DEF TopTier
  <2>6. rs[b].fraction <= 0 /\ rs[b].fraction \in Nat
    BY <1>4, <1>5, <2>1, <2>5, Scales DEF Readings
  <2> QED
    BY <1>6, <2>6
<1> QED
  BY <1>7, <1>9, <1>11, <1>12

AsRefreshed(q, p, sp, lv, t) ==
  /\ StateOK(q) /\ (q.reset = NoReset \/ q.reset > t)
  /\ lv[p] # NoFraction => q.fraction = lv[p]
  /\ lv[p] = NoFraction =>
        \A i \in DOMAIN Windows[p] : sp[p][i] >= Windows[p][i].budget => q.fraction = 0
  /\ lv[p] # NoFraction \/ Windows[p] # <<>> => q = MeteredState(p, sp, lv, t)

\* The limiter's guess fills a gap and overrides nothing.
LEMMA RefreshIs ==
  ASSUME NEW p \in Providers, NEW sp, SpentOK(sp), NEW lv \in [Providers -> Shares],
         NEW inf \in [Providers -> Shares], NEW t \in Nat
  PROVE  AsRefreshed(Refresh(p, sp, lv, inf, t), p, sp, lv, t)
<1> DEFINE m == MeteredState(p, sp, lv, t)   q == Refresh(p, sp, lv, inf, t)
<1>1. CASE lv[p] # NoFraction \/ Windows[p] # <<>>
  <2>1. /\ m # NoState /\ StateOK(m) /\ (m.reset = NoReset \/ m.reset > t)
        /\ lv[p] # NoFraction => m.fraction = lv[p]
        /\ lv[p] = NoFraction =>
              \A i \in DOMAIN Windows[p] : sp[p][i] >= Windows[p][i].budget => m.fraction = 0
    BY <1>1, MeteredIs, Zenon
  <2>2. q = m
    BY <2>1 DEF Refresh
  <2> HIDE DEF m, q
  <2> QED
    BY <2>1, <2>2 DEF AsRefreshed, m, q
<1>2. CASE lv[p] = NoFraction /\ Windows[p] = <<>>
  <2> DEFINE rs == MergedReadings(p, sp, lv, t)
  <2>1. AsMerged(rs, p, sp, lv, t)
    BY MeteredReadings
  <2> HIDE DEF rs
  <2>2. rs = <<>>
    BY <1>2, <2>1 DEF AsMerged
  <2>3. m = NoState
    BY <2>2 DEF MeteredState, ProviderState, MergedReadings, rs
  <2>4. q = QuotaState(InferredReading(inf[p], t))
    BY <2>3 DEF Refresh
  <2>5. CASE inf[p] = NoFraction
    <3>1. q = NoState
      BY <2>4, <2>5 DEF QuotaState, InferredReading, Known
    <3> QED
      BY <1>2, <3>1 DEF AsRefreshed, StateOK, NoState
  <2>6. CASE inf[p] # NoFraction
    <3>1. inf[p] \in 0..Full
      BY <2>6 DEF Shares
    <3>2. q = [fraction |-> inf[p], reset |-> NoReset, source |-> "model-scan"]
      BY <2>4, <2>6 DEF QuotaState, InferredReading, Known
    <3>3. StateOK(q) /\ q.reset = NoReset
      BY <3>1, <3>2 DEF StateOK, NoState
    <3> HIDE DEF q, m
    <3> QED
      BY <1>2, <3>3 DEF AsRefreshed, q
  <2> QED
    BY <2>5, <2>6
<1> QED
  BY <1>1, <1>2

-----------------------------------------------------------------------------
(* The chain of a slot *)

Env(q, st, t) ==
  [quota |-> q, health |-> HealthMap(PublishedHealth(st)), ranks |-> Ranks,
   blocked |-> [models |-> {}, providers |-> {}], now |-> t]

QuotaOK(q) == \A p \in Providers : StateOK(q[p])

GridSlot ==
  [family : {"haiku", "sonnet", "opus", "fable"}, effort : Efforts, min_rank : 1..16,
   eval_mode : {"free", "cost_basis"}, reserve : {0, 10, 15, 20}, tools : BOOLEAN]

LEMMA SlotsTyped ==
  ASSUME NEW s \in DOMAIN Slots
  PROVE  Slots[s] \in GridSlot
<1>1. \A f \in {"haiku", "sonnet", "opus", "fable"}, e \in Efforts, n \in 1..16,
         m \in {"free", "cost_basis"}, r \in {0, 10, 15, 20} : Slot(f, e, n, m, r) \in GridSlot
  BY DEF Slot, GridSlot
<1>2. \A e \in {"low", "medium", "high", "xhigh", "max"} : e \in Efforts
  BY DEF Efforts
<1> QED
  BY <1>1, <1>2, SMTT(30) DEF Slots

\* No reserve of the grid is above the headroom.
LEMMA RequirementsTyped ==
  ASSUME NEW s \in Resolved
  PROVE  /\ Requirements(s).reserve \in Nat /\ Requirements(s).reserve <= Headroom
         /\ Requirements(s).min_rank = Slots[s].min_rank /\ Slots[s].min_rank \in Nat
         /\ Requirements(s).eval_mode = Slots[s].eval_mode
<1>1. s \in DOMAIN Slots
  BY RoutingAssumption
<1>2. Slots[s] \in GridSlot
  BY <1>1, SlotsTyped
<1>3. /\ Requirements(s).reserve = (Full * Slots[s].reserve) \div 100
      /\ Requirements(s).min_rank = Slots[s].min_rank
      /\ Requirements(s).eval_mode = Slots[s].eval_mode
  BY <1>2 DEF Requirements, GridSlot
<1>4. (Full * Slots[s].reserve) \div 100 \in Nat /\ (Full * Slots[s].reserve) \div 100 <= Headroom
  <2>1. CASE Slots[s].reserve = 0
    BY <2>1, Scales
  <2>2. CASE Slots[s].reserve = 10
    BY <2>2, Scales
  <2>3. CASE Slots[s].reserve = 15
    BY <2>3, Scales
  <2>4. CASE Slots[s].reserve = 20
    BY <2>4, Scales
  <2> QED
    BY <1>2, <2>1, <2>2, <2>3, <2>4 DEF GridSlot
<1> QED
  BY <1>2, <1>3, <1>4 DEF GridSlot

LEMMA NominalTyped ==
  ASSUME NEW c \in Candidates, NEW d \in Candidates
  PROVE  /\ Nominal(c) \in Nat
         /\ Nominal(c) = Nominal(d) \/ Nominal(c) + Unit <= Nominal(d)
              \/ Nominal(d) + Unit <= Nominal(c)
<1> DEFINE Whole(x) == IF x.price = NoPrice THEN 0 ELSE x.price
<1>1. Whole(c) \in Nat /\ Whole(d) \in Nat
  BY DEF Candidates
<1>2. Nominal(c) = Unit * Whole(c) /\ Nominal(d) = Unit * Whole(d)
  BY Scales DEF Nominal
<1> HIDE DEF Whole
<1>3. \A x, y \in Nat : /\ Unit * x \in Nat
                        /\ x < y => Unit * x + Unit <= Unit * y
  <2>1. SUFFICES ASSUME NEW x \in Nat, NEW y \in Nat
                 PROVE  Unit * x \in Nat /\ (x < y => Unit * x + Unit <= Unit * y)
    OBVIOUS
  <2>2. Unit * (x + 1) = Unit * x + Unit
    BY Scales
  <2>3. x + 1 <= y => Unit * (x + 1) <= Unit * y
    BY Scales
  <2> QED
    BY <2>2, <2>3, Scales
<1> QED
  BY <1>1, <1>2, <1>3

\* The terms of a candidate: what it costs and how it ranks.
Cost(c, q, t, reserve) ==
  OpportunityCost(q[c.provider], Nominal(c), t, reserve) + DepletionPenalty(q[c.provider], t)

LEMMA KeyIs ==
  ASSUME NEW s \in Resolved, NEW q, QuotaOK(q), NEW st, NEW t \in Nat,
         NEW c \in Candidates, NEW i \in Nat
  PROVE  LET e == Env(q, st, t)
             req == Requirements(s)
         IN  /\ SortKey(c, i, req, e) = <<Cost(c, q, t, req.reserve), RankKey(c, e), - c.fitness,
                                          c.api_model, i>>
             /\ Cost(c, q, t, req.reserve) \in Int
             /\ RankKey(c, e) = IF c.api_model \in DOMAIN Ranks THEN - Ranks[c.api_model] ELSE 0
             /\ SortKey(c, i, req, e) \in Key
<1> DEFINE e == Env(q, st, t)   req == Requirements(s)
<1>1. req.reserve \in Nat
  BY RequirementsTyped
<1>2. /\ c.provider \in Providers /\ StateOK(q[c.provider]) /\ Nominal(c) \in Nat
      /\ c.fitness \in Nat /\ c.api_model \in Nat
  BY NominalTyped DEF QuotaOK, Candidates
<1>3. e.quota = q /\ e.now = t /\ e.ranks = Ranks
  BY DEF Env
<1> HIDE DEF e, req
<1>4. Cost(c, q, t, req.reserve) \in Int
  <2>1. /\ OpportunityCost(q[c.provider], Nominal(c), t, req.reserve) \in Nat
        /\ DepletionPenalty(q[c.provider], t) \in Int
    BY <1>1, <1>2, CostTyped
  <2> QED
    BY <2>1 DEF Cost
<1>5. RankKey(c, e) = IF c.api_model \in DOMAIN Ranks THEN - Ranks[c.api_model] ELSE 0
  BY <1>3 DEF RankKey, Ranked
<1>6. RankKey(c, e) \in Int
  BY <1>5, RoutingAssumption
<1>7. SortKey(c, i, req, e) = <<Cost(c, q, t, req.reserve), RankKey(c, e), - c.fitness,
                                c.api_model, i>>
  BY <1>3 DEF SortKey, EffectiveCost, Cost
<1>8. SortKey(c, i, req, e) \in Key
  BY <1>2, <1>4, <1>6, <1>7 DEF Key
<1> QED
  BY <1>4, <1>5, <1>7, <1>8 DEF e, req

\* A chain holds the able candidates in the order o of their keys.
SortedBy(chain, l, A, K, o) ==
  /\ IsFiniteSet(A) /\ Cardinality(A) \in Nat /\ Cardinality(A) <= Len(l)
  /\ chain = [n \in 1..Cardinality(A) |-> l[o[n]]]
  /\ o \in [1..Cardinality(A) -> A]
  /\ \A i \in A : \E n \in 1..Cardinality(A) : o[n] = i
  /\ \A m, n \in 1..Cardinality(A) : m < n <=> KeyLess(K[o[m]], K[o[n]])

LEMMA ChainSorted ==
  ASSUME NEW l \in Seq(Candidates), NEW s \in Resolved, NEW q, QuotaOK(q), NEW st, NEW t \in Nat
  PROVE  LET e == Env(q, st, t)
             req == Requirements(s)
             A == Able(l, req, e)
             K == Keys(l, req, e)
         IN  /\ A \subseteq 1..Len(l) /\ Len(l) \in Nat
             /\ \A i \in A : l[i] \in Candidates /\ Eligible(l[i], req, e)
             /\ K \in [A -> Key]
             /\ \A i \in A : K[i] = SortKey(l[i], i, req, e)
             /\ \E o : SortedBy(Chain(l, req, e), l, A, K, o)
<1> DEFINE e == Env(q, st, t)   req == Requirements(s)   A == Able(l, req, e)
           K == Keys(l, req, e)
<1>1. /\ DOMAIN l = 1..Len(l) /\ Len(l) \in Nat /\ \A i \in 1..Len(l) : l[i] \in Candidates
  OBVIOUS
<1>2. /\ A \subseteq 1..Len(l)
      /\ \A i \in A : l[i] \in Candidates /\ Eligible(l[i], req, e)
  BY <1>1 DEF Able
<1>3. K = [i \in A |-> SortKey(l[i], i, req, e)]
  BY DEF Keys
<1>4. \A i \in A : SortKey(l[i], i, req, e) \in Key /\ SortKey(l[i], i, req, e)[5] = i
  <2>1. SUFFICES ASSUME NEW i \in A
                 PROVE  SortKey(l[i], i, req, e) \in Key /\ SortKey(l[i], i, req, e)[5] = i
    OBVIOUS
  <2>2. l[i] \in Candidates /\ i \in Nat
    BY <1>1, <1>2
  <2>3. /\ SortKey(l[i], i, req, e) = <<Cost(l[i], q, t, req.reserve), RankKey(l[i], e),
                                       - l[i].fitness, l[i].api_model, i>>
        /\ SortKey(l[i], i, req, e) \in Key
    <3> DEFINE c == l[i]
    <3>1. c \in Candidates
      BY <2>2
    <3> HIDE DEF c
    <3>2. /\ SortKey(c, i, req, e) = <<Cost(c, q, t, req.reserve), RankKey(c, e), - c.fitness,
                                        c.api_model, i>>
          /\ SortKey(c, i, req, e) \in Key
      BY <2>2, <3>1, KeyIs
    <3> QED
      BY <3>2 DEF c
  <2> QED
    BY <2>3
<1> HIDE DEF A, K, e, req
<1>5. K \in [A -> Key] /\ \A i, j \in A : K[i] = K[j] => i = j
  BY <1>3, <1>4
<1>6. IsFiniteSet(A) /\ Cardinality(A) \in Nat /\ Cardinality(A) <= Len(l)
  <2> DEFINE N == Len(l)
  <2>0. N \in Nat /\ A \subseteq 1..N
    BY <1>1, <1>2
  <2> HIDE DEF N
  <2>1. IsFiniteSet(1..N) /\ Cardinality(1..N) = N
    BY <2>0, FS_Interval
  <2>2. IsFiniteSet(A) /\ Cardinality(A) <= Len(l)
    BY <2>0, <2>1, FS_Subset DEF N
  <2> QED
    BY <2>2, FS_CardinalityType
<1> DEFINE R == {x \in A \X A : KeyLess(K[x[1]], K[x[2]])}   P == Places(K)
<1>7. \A i, j \in A : <<i, j>> \in R <=> KeyLess(K[i], K[j])
  OBVIOUS
<1>8. /\ \A i \in A : <<i, i>> \notin R
      /\ \A i, j, k \in A : <<i, j>> \in R /\ <<j, k>> \in R => <<i, k>> \in R
      /\ \A i, j \in A : i # j => <<i, j>> \in R \/ <<j, i>> \in R
  <2> HIDE DEF R
  <2>1. \A i \in A : K[i] \in Key
    BY <1>5
  <2>2. \A i \in A : ~ KeyLess(K[i], K[i])
    BY <2>1, KeysOrdered
  <2>3. \A i, j, k \in A : KeyLess(K[i], K[j]) /\ KeyLess(K[j], K[k]) => KeyLess(K[i], K[k])
    BY <2>1, KeysOrdered
  <2>4. \A i, j \in A : i # j => KeyLess(K[i], K[j]) \/ KeyLess(K[j], K[i])
    BY <1>5, <2>1, KeysOrdered
  <2> QED
    BY <1>7, <2>2, <2>3, <2>4
<1>9. P = [i \in A |-> 1 + Cardinality(Before(R, A, i))]
  <2>1. \A i \in A : {j \in DOMAIN K : KeyLess(K[j], K[i])} = Before(R, A, i)
    BY <1>5 DEF Before
  <2>2. DOMAIN K = A
    BY <1>5
  <2> HIDE DEF R
  <2> QED
    BY <2>1, <2>2 DEF Places
<1>10. /\ P \in [A -> 1..Cardinality(A)]
       /\ \A i, j \in A : P[i] < P[j] <=> <<i, j>> \in R
       /\ \A i, j \in A : P[i] = P[j] => i = j
       /\ \A n \in 1..Cardinality(A) : \E i \in A : P[i] = n
  <2> HIDE DEF R, P
  <2>1. StrictOrder(R, A)
    BY <1>8 DEF StrictOrder
  <2>2. Numbers(P, R, A)
    BY <1>6, <1>9, <2>1, NumberedByOrder
  <2> QED
    BY <2>2 DEF Numbers
<1> DEFINE o == [n \in 1..Cardinality(A) |-> CHOOSE i \in A : P[i] = n]
<1>11. Chain(l, req, e) = [n \in 1..Cardinality(A) |-> l[o[n]]]
  <2>1. DOMAIN P = A
    BY <1>10
  <2>2. P = Places(Keys(l, req, e))
    BY DEF K
  <2> HIDE DEF P
  <2> QED
    BY <2>1, <2>2 DEF Chain
<1> HIDE DEF P, R
<1>12. \A n \in 1..Cardinality(A) : o[n] \in A /\ P[o[n]] = n
  <2>1. SUFFICES ASSUME NEW n \in 1..Cardinality(A) PROVE o[n] \in A /\ P[o[n]] = n
    OBVIOUS
  <2>2. \E i \in A : P[i] = n
    BY <1>10
  <2>3. o[n] = CHOOSE i \in A : P[i] = n
    OBVIOUS
  <2> QED
    BY <2>2, <2>3
<1>13. o \in [1..Cardinality(A) -> A]
  BY <1>12
<1> HIDE DEF o
<1>14. \A i \in A : \E n \in 1..Cardinality(A) : o[n] = i
  <2>1. SUFFICES ASSUME NEW i \in A PROVE \E n \in 1..Cardinality(A) : o[n] = i
    OBVIOUS
  <2>2. P[i] \in 1..Cardinality(A)
    BY <1>10
  <2>3. o[P[i]] \in A /\ P[o[P[i]]] = P[i]
    BY <1>12, <2>2
  <2> QED
    BY <1>10, <2>2, <2>3
<1>15. \A m, n \in 1..Cardinality(A) : m < n <=> KeyLess(K[o[m]], K[o[n]])
  <2>1. SUFFICES ASSUME NEW m \in 1..Cardinality(A), NEW n \in 1..Cardinality(A)
                 PROVE  m < n <=> KeyLess(K[o[m]], K[o[n]])
    OBVIOUS
  <2>2. o[m] \in A /\ P[o[m]] = m /\ o[n] \in A /\ P[o[n]] = n
    BY <1>12
  <2>3. m < n <=> <<o[m], o[n]>> \in R
    BY <1>10, <2>2
  <2> QED
    BY <1>7, <2>2, <2>3
<1>16. SortedBy(Chain(l, req, e), l, A, K, o)
  BY <1>6, <1>11, <1>13, <1>14, <1>15 DEF SortedBy
<1> QED
  BY <1>1, <1>2, <1>3, <1>5, <1>16 DEF A, K, e, req

\* What a candidate has to pass besides the quota.
Passes(c, req, st) ==
  /\ c.api_model # NoName
  /\ req.tools => c.tools
  /\ req.eval_mode = "free" => c.price # NoPrice /\ ~(c.price > 0)
  /\ ~ Unhealthy(HealthMap(PublishedHealth(st)), c.provider)
  /\ c.api_model \in DOMAIN Ranks => ~(Ranks[c.api_model] > req.min_rank)

\* A candidate is eligible when none of the checks holds, whichever comes first.
LEMMA EligibleIs ==
  ASSUME NEW c, NEW req, NEW q, NEW st, NEW t
  PROVE  Eligible(c, req, Env(q, st, t)) <=> Passes(c, req, st) /\ ~ Exhausted(q[c.provider])
<1> DEFINE e == Env(q, st, t)
           c1 == c.api_model = NoName
           c2 == c.api_model \in e.blocked.models \/ c.provider \in e.blocked.providers
           c3 == req.tools /\ ~ c.tools
           c4 == req.eval_mode = "free" /\ (c.price = NoPrice \/ c.price > 0)
           c5 == Unhealthy(e.health, c.provider)
           c6 == Ranked(c, e) /\ e.ranks[c.api_model] > req.min_rank
           c7 == Exhausted(e.quota[c.provider])
           checks == Refusals(c, req, e)
           held == {n \in DOMAIN checks : checks[n][1]}
<1>1. checks = << <<c1, "unresolved_identity">>, <<c2, "blocklisted">>, <<c3, "requires_tools">>,
                  <<c4, "not_free">>, <<c5, "provider_unhealthy">>, <<c6, "below_floor">>,
                  <<c7, "quota_exhausted">> >>
  BY DEF Refusals
<1>2. /\ e.quota = q /\ e.health = HealthMap(PublishedHealth(st)) /\ e.ranks = Ranks
      /\ e.blocked.models = {} /\ e.blocked.providers = {}
  BY DEF Env
<1>3. Passes(c, req, st) /\ ~ Exhausted(q[c.provider])
        <=> ~c1 /\ ~c2 /\ ~c3 /\ ~c4 /\ ~c5 /\ ~c6 /\ ~c7
  BY <1>2 DEF Passes, Ranked
<1> HIDE DEF c1, c2, c3, c4, c5, c6, c7, e
<1>4. /\ DOMAIN checks = {1, 2, 3, 4, 5, 6, 7}
      /\ \A n \in DOMAIN checks : checks[n][2] # "none"
      /\ checks[1][1] = c1 /\ checks[2][1] = c2 /\ checks[3][1] = c3 /\ checks[4][1] = c4
      /\ checks[5][1] = c5 /\ checks[6][1] = c6 /\ checks[7][1] = c7
  <2> HIDE DEF checks
  <2>1. DOMAIN checks = {1, 2, 3, 4, 5, 6, 7}
    BY <1>1
  <2>2. /\ checks[1][2] # "none" /\ checks[2][2] # "none" /\ checks[3][2] # "none"
        /\ checks[4][2] # "none" /\ checks[5][2] # "none" /\ checks[6][2] # "none"
        /\ checks[7][2] # "none"
    BY <1>1
  <2>3. /\ checks[1][1] = c1 /\ checks[2][1] = c2 /\ checks[3][1] = c3 /\ checks[4][1] = c4
        /\ checks[5][1] = c5 /\ checks[6][1] = c6 /\ checks[7][1] = c7
    BY <1>1
  <2> QED
    BY <2>1, <2>2, <2>3
<1> HIDE DEF checks
<1>5. held = {} <=> ~c1 /\ ~c2 /\ ~c3 /\ ~c4 /\ ~c5 /\ ~c6 /\ ~c7
  BY <1>4
<1>6. held \subseteq Nat
  BY <1>4
<1> DEFINE first == CHOOSE n \in held : \A m \in held : n <= m
<1>7. held # {} => first \in held
  <2> HIDE DEF held
  <2>1. held # {} => \E n \in held : \A m \in held : n <= m
    BY <1>6, LeastNatural
  <2> QED
    BY <2>1
<1>8. Reason(c, req, e) = IF held = {} THEN "none" ELSE checks[first][2]
  BY DEF Reason, checks
<1>9. held # {} => checks[first][2] # "none"
  <2> HIDE DEF first
  <2> QED
    BY <1>4, <1>7
<1> HIDE DEF first, held
<1>10. Eligible(c, req, e) <=> held = {}
  BY <1>8, <1>9 DEF Eligible
<1> QED
  BY <1>3, <1>5, <1>10 DEF e

LEMMA SortedIsInjective ==
  ASSUME NEW l, IsInjective(l), NEW A, A \subseteq DOMAIN l, NEW K, NEW o, NEW chain,
         SortedBy(chain, l, A, K, o)
  PROVE  /\ DOMAIN chain = 1..Cardinality(A) /\ Cardinality(A) \in Nat
         /\ Len(chain) = Cardinality(A)
         /\ \A m, n \in 1..Cardinality(A) : o[m] = o[n] => m = n
         /\ IsInjective(chain)
<1> DEFINE N == Cardinality(A)
<1>1. /\ N \in Nat /\ chain = [n \in 1..N |-> l[o[n]]] /\ o \in [1..N -> A]
      /\ \A m, n \in 1..N : m < n <=> KeyLess(K[o[m]], K[o[n]])
  BY DEF SortedBy
<1> HIDE DEF N
<1>2. DOMAIN chain = 1..N /\ Len(chain) = N
  BY <1>1
<1>3. \A m, n \in 1..N : o[m] = o[n] => m = n
  <2>1. SUFFICES ASSUME NEW m \in 1..N, NEW n \in 1..N, o[m] = o[n] PROVE m = n
    OBVIOUS
  <2>2. m < n <=> n < m
    BY <1>1, <2>1
  <2> QED
    BY <2>2
<1>4. IsInjective(chain)
  <2>1. SUFFICES ASSUME NEW m \in 1..N, NEW n \in 1..N, chain[m] = chain[n] PROVE m = n
    BY <1>2 DEF IsInjective
  <2>2. o[m] \in DOMAIN l /\ o[n] \in DOMAIN l /\ l[o[m]] = l[o[n]]
    BY <1>1, <2>1
  <2>3. o[m] = o[n]
    BY <2>2 DEF IsInjective
  <2> QED
    BY <1>3, <2>3
<1> QED
  BY <1>1, <1>2, <1>3, <1>4 DEF N

-----------------------------------------------------------------------------
(* The invariant: what is published follows from the world.                *)

WorldOK ==
  /\ now \in 0..EndOfTime /\ SpentOK(spent)
  /\ live \in [Providers -> Fraction] /\ inferred \in [Providers -> Fraction]
  /\ listing \in Listings /\ status \in [Providers -> {"ok", "degraded", "down"}]
  /\ QuotaOK(embedded) /\ given \in BOOLEAN

QuotaOf(sp, lv, inf, t) == [p \in Providers |-> Refresh(p, sp, lv, inf, t)]
ChainsOf(l, q, st, t) == [s \in Resolved |-> Chain(l, Requirements(s), Env(q, st, t))]

Published ==
  /\ quota = QuotaOf(spent, live, inferred, now)
  /\ chains = ChainsOf(listing, ranked, status, now)

IInv == WorldOK /\ Published

LEMMA PublishedIs ==
  ASSUME IInv
  PROVE  /\ now \in Nat /\ listing \in Seq(Candidates) /\ IsInjective(listing)
         /\ QuotaOK(quota) /\ QuotaOK(ranked)
         /\ \A p \in Providers : AsRefreshed(quota[p], p, spent, live, now)
         /\ \A s \in Resolved : chains[s] = Chain(listing, Requirements(s), Env(ranked, status, now))
<1>1. now \in Nat /\ listing \in Seq(Candidates) /\ IsInjective(listing)
  BY RoutingAssumption DEF IInv, WorldOK
<1>2. live \in [Providers -> Shares] /\ inferred \in [Providers -> Shares] /\ SpentOK(spent)
  <2>1. Fraction \subseteq Shares
    BY RoutingAssumption DEF Fraction, Shares
  <2> QED
    BY <2>1 DEF IInv, WorldOK
<1>3. \A p \in Providers : AsRefreshed(quota[p], p, spent, live, now)
  <2>1. SUFFICES ASSUME NEW p \in Providers PROVE AsRefreshed(quota[p], p, spent, live, now)
    OBVIOUS
  <2>2. quota[p] = Refresh(p, spent, live, inferred, now)
    BY DEF IInv, Published, QuotaOf
  <2> QED
    BY <1>1, <1>2, <2>2, RefreshIs
<1>4. QuotaOK(quota)
  BY <1>3 DEF QuotaOK, AsRefreshed
<1>4a. QuotaOK(ranked)
  BY <1>4 DEF IInv, WorldOK, ranked, Ranking
<1>5. \A s \in Resolved : chains[s] = Chain(listing, Requirements(s), Env(ranked, status, now))
  BY DEF IInv, Published, ChainsOf
<1> QED
  BY <1>1, <1>3, <1>4, <1>4a, <1>5

LEMMA InvariantHolds == Spec => []IInv
<1>1. Init => IInv
  <2> SUFFICES ASSUME Init PROVE IInv
    OBVIOUS
  <2>1. now = 0 /\ 0 \in 0..EndOfTime
    BY RoutingAssumption DEF Init
  <2>2. SpentOK(spent)
    BY DEF Init, SpentOK
  <2>2a. QuotaOK(embedded)
    BY DEF Init, QuotaOK, StateOK
  <2>3. WorldOK
    BY <2>1, <2>2, <2>2a DEF Init, WorldOK, Fraction
  <2>4. Published
    BY DEF Init, Published, QuotaOf, ChainsOf, ResolveSnapshot, Env
  <2> QED
    BY <2>3, <2>4 DEF IInv
<1>2. IInv /\ [Next]_vars => IInv'
  <2> SUFFICES ASSUME IInv, [Next]_vars PROVE IInv'
    OBVIOUS
  <2>1. Publish => Published' /\ given' \in BOOLEAN
    BY DEF Publish, Published, QuotaOf, ChainsOf, ResolveSnapshot, Env, ranked
  <2>1a. QuotaOK(quota) /\ QuotaOK(embedded)
    BY PublishedIs DEF IInv, WorldOK
  <2>2. ASSUME NEW p \in Providers, Spend(p) PROVE IInv'
    <3>1. SpentOK(spent')
      <4>1. SUFFICES ASSUME NEW x \in Providers PROVE spent'[x] \in [DOMAIN Windows[x] -> Nat]
        BY DEF SpentOK
      <4>2. spent[x] \in [DOMAIN Windows[x] -> Nat]
        BY DEF IInv, WorldOK, SpentOK
      <4>3. spent'[x] = spent[x] \/ spent'[x] = [i \in DOMAIN spent[x] |-> spent[x][i] + SpendStep]
        BY <2>2 DEF Spend
      <4> DEFINE f == spent[x]   D == DOMAIN Windows[x]
      <4>4. SpendStep \in Nat /\ f \in [D -> Nat]
        BY <4>2, RoutingAssumption
      <4> HIDE DEF f, D
      <4>5. [i \in DOMAIN f |-> f[i] + SpendStep] \in [D -> Nat]
        BY <4>4
      <4> QED
        BY <4>2, <4>3, <4>5 DEF f, D
    <3> QED
      BY <2>1, <2>2, <3>1 DEF Spend, snapshot, IInv, WorldOK, SpentOK, QuotaOK
  <2>3. ASSUME NEW p \in Metered, NEW f \in Fractions, Header(p, f) PROVE IInv'
    <3>1. live' \in [Providers -> Fraction]
      BY <2>3 DEF Header, IInv, WorldOK, Fraction
    <3> QED
      BY <2>1, <2>3, <3>1 DEF Header, snapshot, IInv, WorldOK, SpentOK, QuotaOK
  <2>4. ASSUME NEW p \in Paced, NEW f \in Fractions, Infer(p, f) PROVE IInv'
    <3>1. inferred' \in [Providers -> Fraction]
      BY <2>4 DEF Infer, IInv, WorldOK, Fraction
    <3> QED
      BY <2>1, <2>4, <3>1 DEF Infer, snapshot, IInv, WorldOK, SpentOK, QuotaOK
  <2>5. ASSUME NEW l \in Listings, Relist(l) PROVE IInv'
    BY <2>1, <2>1a, <2>5 DEF Relist, IInv, WorldOK, SpentOK, QuotaOK
  <2>6. ASSUME NEW p \in Reported, NEW word \in {"ok", "down"}, Feedback(p, word) PROVE IInv'
    <3>1. status' \in [Providers -> {"ok", "degraded", "down"}]
      BY <2>6 DEF Feedback, IInv, WorldOK
    <3> QED
      BY <2>1, <2>1a, <2>6, <3>1 DEF Feedback, IInv, WorldOK, SpentOK, QuotaOK
  <2>7. ASSUME Tick PROVE IInv'
    <3>1. now' \in 0..EndOfTime
      BY <2>7, RoutingAssumption DEF Tick, IInv, WorldOK
    <3>2. SpentOK(spent')
      <4>1. SUFFICES ASSUME NEW x \in Providers PROVE spent'[x] \in [DOMAIN Windows[x] -> Nat]
        BY DEF SpentOK
      <4>2. spent[x] \in [DOMAIN Windows[x] -> Nat]
        BY DEF IInv, WorldOK, SpentOK
      <4>3. spent'[x] = [i \in DOMAIN Windows[x] |->
                           IF WindowStart(Windows[x][i], now') > now THEN 0 ELSE spent[x][i]]
        BY <2>7 DEF Tick
      <4> QED
        BY <4>2, <4>3
    <3> QED
      BY <2>1, <2>7, <3>1, <3>2 DEF Tick, snapshot, IInv, WorldOK, SpentOK, QuotaOK
  <2>8. CASE UNCHANGED vars
    BY <2>8 DEF vars, world, snapshot, IInv, WorldOK, SpentOK, QuotaOK, Published, ranked, Fraction
  <2> QED
    BY <2>2, <2>3, <2>4, <2>5, <2>6, <2>7, <2>8 DEF Next
<1> QED
  BY <1>1, <1>2, PTL DEF Spec

\* Type correctness: the published state is a share of the whole or unknown, no
\* window it speaks of is over, and no chain is longer than the listing or offers
\* a candidate twice.
THEOREM TypeCorrect == Spec => []TypeOK
<1>1. IInv => TypeOK
  <2> SUFFICES ASSUME IInv PROVE TypeOK
    OBVIOUS
  <2>1. ASSUME NEW p \in Providers
        PROVE  /\ quota[p].fraction \in 0..Full \cup {NoFraction}
               /\ quota[p].reset = NoReset \/ quota[p].reset > now
    BY PublishedIs DEF AsRefreshed, StateOK, NoState
  <2>1a. ASSUME NEW p \in Providers PROVE embedded[p].fraction \in 0..Full \cup {NoFraction}
    BY DEF IInv, WorldOK, QuotaOK, StateOK, NoState
  <2>2. DOMAIN chains = Resolved
    BY DEF IInv, Published, ChainsOf
  <2>3. ASSUME NEW s \in Resolved
        PROVE  Len(chains[s]) <= Len(listing) /\ IsInjective(chains[s])
    <3> DEFINE e == Env(ranked, status, now)   req == Requirements(s)
               A == Able(listing, req, e)   K == Keys(listing, req, e)
    <3>1. /\ A \subseteq 1..Len(listing)
          /\ \E o : SortedBy(Chain(listing, req, e), listing, A, K, o)
      BY PublishedIs, ChainSorted
    <3>2. PICK o : SortedBy(chains[s], listing, A, K, o)
      BY <3>1, PublishedIs
    <3>3. A \subseteq DOMAIN listing /\ IsInjective(listing)
      BY <3>1, PublishedIs
    <3> DEFINE chain == chains[s]
    <3>4. SortedBy(chain, listing, A, K, o)
      BY <3>2
    <3> HIDE DEF A, K, chain
    <3>5. Len(chain) = Cardinality(A) /\ IsInjective(chain)
      BY <3>3, <3>4, SortedIsInjective
    <3> QED
      BY <3>4, <3>5 DEF SortedBy, chain
  <2>4. \A p \in Providers : spent[p] \in [DOMAIN Windows[p] -> Nat]
    BY DEF IInv, WorldOK, SpentOK
  <2> QED
    BY <2>1, <2>1a, <2>2, <2>3, <2>4 DEF TypeOK, IInv, WorldOK
<1> QED
  BY <1>1, InvariantHolds, PTL

\* What a chain holds: listed candidates that pass the checks, of providers that
\* are not exhausted.
LEMMA ChainHolds ==
  ASSUME IInv, NEW s \in Resolved, NEW n \in DOMAIN chains[s]
  PROVE  \E i \in DOMAIN listing :
            /\ chains[s][n] = listing[i] /\ listing[i] \in Candidates
            /\ Passes(listing[i], Requirements(s), status)
            /\ ~ Exhausted(ranked[listing[i].provider])
<1> DEFINE e == Env(ranked, status, now)   req == Requirements(s)
           A == Able(listing, req, e)   K == Keys(listing, req, e)
<1>1. /\ A \subseteq 1..Len(listing)
      /\ \A i \in A : listing[i] \in Candidates /\ Eligible(listing[i], req, e)
      /\ \E o : SortedBy(Chain(listing, req, e), listing, A, K, o)
  BY PublishedIs, ChainSorted
<1>2. PICK o : SortedBy(chains[s], listing, A, K, o)
  BY <1>1, PublishedIs
<1>3. A \subseteq DOMAIN listing
  BY <1>1, PublishedIs
<1> HIDE DEF A, K
<1>4. DOMAIN chains[s] = 1..Cardinality(A)
  BY <1>2, <1>3, PublishedIs, SortedIsInjective
<1>5. o[n] \in A /\ chains[s][n] = listing[o[n]]
  BY <1>2, <1>4 DEF SortedBy
<1>6. /\ Passes(listing[o[n]], req, status)
      /\ ~ Exhausted(ranked[listing[o[n]].provider])
  BY <1>1, <1>5, EligibleIs DEF e
<1> QED
  BY <1>1, <1>3, <1>5, <1>6

\* Published with --quota, no chain offers a provider of which the headers, or
\* without them any one of its windows, say that nothing is left; without it, none
\* of which nothing was left when the snapshot was emitted.
THEOREM ExhaustedNeverOffered == Spec => []ExhaustedIsSkipped
<1>1. IInv => ExhaustedIsSkipped
  <2> SUFFICES ASSUME IInv, NEW s \in Resolved, NEW n \in DOMAIN chains[s]
               PROVE  LET p == chains[s][n].provider
                      IN  IF given
                          THEN /\ live[p] # 0
                               /\ live[p] = NoFraction =>
                                    \A w \in DOMAIN Windows[p] :
                                        spent[p][w] < Windows[p][w].budget
                          ELSE embedded[p].fraction # 0
    BY DEF ExhaustedIsSkipped
  <2> DEFINE p == chains[s][n].provider
  <2>0. p \in Providers /\ ranked[p].fraction # 0
    BY ChainHolds DEF Exhausted, Candidates
  <2> HIDE DEF p
  <2>a. CASE ~ given
    BY <2>0, <2>a DEF ranked, Ranking, p
  <2>b. SUFFICES ASSUME given
                 PROVE  /\ live[p] # 0
                        /\ live[p] = NoFraction =>
                             \A w \in DOMAIN Windows[p] : spent[p][w] < Windows[p][w].budget
    BY <2>a DEF p
  <2>1. p \in Providers /\ quota[p].fraction # 0
    BY <2>0, <2>b DEF ranked, Ranking
  <2>2. AsRefreshed(quota[p], p, spent, live, now)
    BY <2>1, PublishedIs
  <2>3. live[p] # 0
    BY <2>1, <2>2 DEF AsRefreshed, NoFraction
  <2>4. ASSUME live[p] = NoFraction, NEW w \in DOMAIN Windows[p]
        PROVE  spent[p][w] < Windows[p][w].budget
    <3>1. ~(spent[p][w] >= Windows[p][w].budget)
      BY <2>1, <2>2, <2>4 DEF AsRefreshed
    <3>2. Windows[p] \in Seq(Windowed)
      BY <2>1, RoutingAssumption DEF Windowed
    <3> DEFINE W == Windows[p]
    <3> HIDE DEF W
    <3>3. W[w] \in Windowed
      BY <2>4, <3>2 DEF W
    <3>4. Windows[p][w].budget \in Nat
      BY <3>3 DEF W, Windowed
    <3>5. spent[p][w] \in Nat
      BY <2>1, <2>4 DEF IInv, WorldOK, SpentOK
    <3> QED
      BY <3>1, <3>4, <3>5
  <2> QED
    BY <2>3, <2>4
<1> QED
  BY <1>1, InvariantHolds, PTL

\* Of two survivors of one provider and price the weaker comes first.
THEOREM WeakestFirst == Spec => []CheapestAdequate
<1>1. IInv => CheapestAdequate
  <2> SUFFICES ASSUME IInv, NEW s \in Resolved,
                      NEW i \in DOMAIN chains[s], NEW j \in DOMAIN chains[s],
                      NEW c, NEW d, c = chains[s][i], d = chains[s][j],
                      c.api_model \in DOMAIN Ranks, d.api_model \in DOMAIN Ranks,
                      c.provider = d.provider, Nominal(c) = Nominal(d),
                      Ranks[c.api_model] > Ranks[d.api_model]
               PROVE  i < j
    BY DEF CheapestAdequate
  <2> DEFINE e == Env(ranked, status, now)   req == Requirements(s)
             A == Able(listing, req, e)   K == Keys(listing, req, e)
  <2>1. /\ A \subseteq 1..Len(listing)
        /\ \A k \in A : listing[k] \in Candidates
        /\ \A k \in A : K[k] = SortKey(listing[k], k, req, e)
        /\ \E o : SortedBy(Chain(listing, req, e), listing, A, K, o)
    BY PublishedIs, ChainSorted
  <2>2. PICK o : SortedBy(chains[s], listing, A, K, o)
    BY <2>1, PublishedIs
  <2>3. A \subseteq DOMAIN listing
    BY <2>1, PublishedIs
  <2> HIDE DEF A, K
  <2>4. DOMAIN chains[s] = 1..Cardinality(A) /\ Cardinality(A) \in Nat
    BY <2>2, <2>3, PublishedIs, SortedIsInjective
  <2>5. o[i] \in A /\ c = listing[o[i]] /\ o[j] \in A /\ d = listing[o[j]]
    BY <2>2, <2>4 DEF SortedBy
  <2>6. c \in Candidates /\ d \in Candidates /\ o[i] \in Nat /\ o[j] \in Nat
    <3>1. c \in Candidates /\ d \in Candidates
      BY <2>1, <2>5
    <3>2. A \subseteq Nat
      BY <2>1, PublishedIs
    <3> QED
      BY <2>5, <3>1, <3>2
  <2>0. QuotaOK(ranked) /\ now \in Nat
    BY PublishedIs
  <2>7. /\ K[o[i]] = <<Cost(c, ranked, now, req.reserve), RankKey(c, e), - c.fitness, c.api_model, o[i]>>
        /\ RankKey(c, e) = - Ranks[c.api_model] /\ K[o[i]] \in Key
    <3>1. K[o[i]] = SortKey(c, o[i], req, e)
      BY <2>1, <2>5
    <3> QED
      BY <2>0, <2>6, <3>1, KeyIs
  <2>8. /\ K[o[j]] = <<Cost(d, ranked, now, req.reserve), RankKey(d, e), - d.fitness, d.api_model, o[j]>>
        /\ RankKey(d, e) = - Ranks[d.api_model] /\ K[o[j]] \in Key
    <3>1. K[o[j]] = SortKey(d, o[j], req, e)
      BY <2>1, <2>5
    <3> QED
      BY <2>0, <2>6, <3>1, KeyIs
  <2>9. Cost(c, ranked, now, req.reserve) = Cost(d, ranked, now, req.reserve)
    BY DEF Cost
  <2> HIDE DEF e, req
  <2>10. K[o[i]][1] = K[o[j]][1] /\ K[o[i]][2] < K[o[j]][2]
    BY <2>7, <2>8, <2>9, RoutingAssumption
  <2>11. KeyLess(K[o[i]], K[o[j]])
    BY <2>7, <2>8, <2>10, KeyLessMeans
  <2> QED
    BY <2>2, <2>4, <2>11 DEF SortedBy
<1> QED
  BY <1>1, InvariantHolds, PTL

-----------------------------------------------------------------------------
(* Redirects *)

LEMMA SlotsFinite == IsFiniteSet(DOMAIN Slots) /\ NoSlot \notin DOMAIN Slots
<1> DEFINE f == <<"S01_haiku", "S02_sonnet_low", "S03_sonnet_medium", "S04_sonnet_high",
                  "S05_sonnet_xhigh", "S06_opus_low", "S07_opus_medium", "S08_opus_high",
                  "S09_opus_xhigh", "S10_opus_max", "S11_fable_low", "S12_fable_medium",
                  "S13_fable_high", "S14_fable_xhigh", "S15_fable_max">>
           names == {f[1], f[2], f[3], f[4], f[5], f[6], f[7], f[8], f[9], f[10], f[11], f[12],
                     f[13], f[14], f[15]}
<1>1. DOMAIN Slots = names
  BY DEF Slots
<1>2. f \in Surjection(1..15, names)
  <2>1. 1..15 = {1, 2, 3, 4, 5, 6, 7, 8, 9, 10, 11, 12, 13, 14, 15}
    OBVIOUS
  <2> QED
    BY <2>1 DEF Surjection
<1>3. IsFiniteSet(1..15)
  <2> DEFINE n == 15
  <2>1. n \in Nat
    OBVIOUS
  <2> HIDE DEF n
  <2>2. IsFiniteSet(1..n)
    BY <2>1, FS_Interval
  <2> QED
    BY <2>2 DEF n
<1>4. IsFiniteSet(names)
  <2> HIDE DEF f, names
  <2> QED
    BY <1>2, <1>3, FS_Surjection
<1> QED
  BY <1>1, <1>4 DEF NoSlot

\* Every effort of a family of the grid leads to a slot of it.
LEMMA EffortHasSlot ==
  ASSUME NEW f \in {"haiku", "sonnet", "opus", "fable"}, NEW e
  PROVE  \E s \in DOMAIN Slots :
            Slots[s].family = f /\ Slots[s].effort = NormalizeEffort(e, f)
<1>1. CASE f = "haiku"
  <2>1. NormalizeEffort(e, f) = "medium"
    BY <1>1 DEF NormalizeEffort
  <2>2. "S01_haiku" \in DOMAIN Slots /\ Slots["S01_haiku"] = Slot("haiku", "medium", 15, "free", 0)
    BY DEF Slots
  <2> QED
    BY <1>1, <2>1, <2>2 DEF Slot
<1> DEFINE n == NormalizeEffort(e, f)
<1>2. CASE f = "sonnet"
  <2>1. n \in {"low", "medium", "high", "xhigh"}
    BY <1>2 DEF NormalizeEffort, Efforts
  <2>2. /\ {"S02_sonnet_low", "S03_sonnet_medium", "S04_sonnet_high", "S05_sonnet_xhigh"}
               \subseteq DOMAIN Slots
        /\ Slots["S02_sonnet_low"] = Slot("sonnet", "low", 16, "free", 0)
        /\ Slots["S03_sonnet_medium"] = Slot("sonnet", "medium", 14, "free", 0)
        /\ Slots["S04_sonnet_high"] = Slot("sonnet", "high", 13, "free", 0)
        /\ Slots["S05_sonnet_xhigh"] = Slot("sonnet", "xhigh", 10, "cost_basis", 0)
    BY DEF Slots
  <2> HIDE DEF n
  <2> QED
    BY <1>2, <2>1, <2>2 DEF Slot, n
<1>3. CASE f = "opus"
  <2>1. n \in {"low", "medium", "high", "xhigh", "max"}
    BY <1>3 DEF NormalizeEffort, Efforts
  <2>2. /\ {"S06_opus_low", "S07_opus_medium", "S08_opus_high", "S09_opus_xhigh", "S10_opus_max"}
               \subseteq DOMAIN Slots
        /\ Slots["S06_opus_low"] = Slot("opus", "low", 13, "free", 0)
        /\ Slots["S07_opus_medium"] = Slot("opus", "medium", 7, "cost_basis", 0)
        /\ Slots["S08_opus_high"] = Slot("opus", "high", 5, "cost_basis", 0)
        /\ Slots["S09_opus_xhigh"] = Slot("opus", "xhigh", 4, "cost_basis", 10)
        /\ Slots["S10_opus_max"] = Slot("opus", "max", 4, "cost_basis", 15)
    BY DEF Slots
  <2> HIDE DEF n
  <2> QED
    BY <1>3, <2>1, <2>2 DEF Slot, n
<1>4. CASE f = "fable"
  <2>1. n \in {"low", "medium", "high", "xhigh", "max"}
    BY <1>4 DEF NormalizeEffort, Efforts
  <2>2. /\ {"S11_fable_low", "S12_fable_medium", "S13_fable_high", "S14_fable_xhigh", "S15_fable_max"}
               \subseteq DOMAIN Slots
        /\ Slots["S11_fable_low"] = Slot("fable", "low", 12, "free", 0)
        /\ Slots["S12_fable_medium"] = Slot("fable", "medium", 9, "cost_basis", 0)
        /\ Slots["S13_fable_high"] = Slot("fable", "high", 3, "cost_basis", 10)
        /\ Slots["S14_fable_xhigh"] = Slot("fable", "xhigh", 2, "cost_basis", 15)
        /\ Slots["S15_fable_max"] = Slot("fable", "max", 1, "cost_basis", 20)
    BY DEF Slots
  <2> HIDE DEF n
  <2> QED
    BY <1>4, <2>1, <2>2 DEF Slot, n
<1> QED
  BY <1>1, <1>2, <1>3, <1>4

LEMMA SlotForIs ==
  ASSUME NEW f, NEW e
  PROVE  /\ SlotFor(f, e) # NoSlot => /\ SlotFor(f, e) \in DOMAIN Slots
                                      /\ f \in {"haiku", "sonnet", "opus", "fable"}
         /\ f \in {"haiku", "sonnet", "opus", "fable"} => SlotFor(f, e) # NoSlot
<1> DEFINE fits == {s \in DOMAIN Slots : /\ Slots[s].family = f
                                         /\ Slots[s].effort = NormalizeEffort(e, f)}
<1>1. SlotFor(f, e) = IF fits = {} THEN NoSlot ELSE CHOOSE s \in fits : TRUE
  BY DEF SlotFor
<1>2. fits # {} => f \in {"haiku", "sonnet", "opus", "fable"}
  BY SlotsTyped DEF GridSlot
<1>3. f \in {"haiku", "sonnet", "opus", "fable"} => fits # {}
  BY EffortHasSlot
<1>4. fits \subseteq DOMAIN Slots
  OBVIOUS
<1> HIDE DEF fits
<1>5. fits # {} => SlotFor(f, e) \in fits
  BY <1>1
<1> QED
  BY <1>1, <1>2, <1>3, <1>4, <1>5, SlotsFinite

\* An alias stands for the one slot that every effort asked of it leads to.
LEMMA AliasIs ==
  ASSUME NEW r \in Requests, r[1] \in DOMAIN aliases
  PROVE  aliases[r[1]] = SlotFor(r[1], r[2])
<1> DEFINE m == r[1]   S == SlotsAsked(Requests, m)
<1>1. Cardinality(S) = 1 /\ aliases[m] = CHOOSE s \in S : TRUE
  BY DEF aliases, AliasTable
<1>2. S \subseteq DOMAIN Slots
  BY SlotForIs DEF SlotsAsked
<1>3. IsFiniteSet(S)
  BY <1>2, SlotsFinite, FS_Subset
<1>4. PICK x : S = {x}
  <2> HIDE DEF S
  <2> QED
    BY <1>1, <1>3, FS_Singleton
<1>5. m \in {"haiku", "sonnet", "opus", "fable"}
  <2>1. x \in S
    BY <1>4
  <2> HIDE DEF m
  <2>2. PICK a \in Requests : a[1] = m /\ x = SlotFor(a[1], a[2]) /\ x # NoSlot
    BY <2>1 DEF SlotsAsked
  <2> QED
    BY <2>2, SlotForIs
<1>6. SlotFor(r[1], r[2]) \in S
  BY <1>5, SlotForIs DEF SlotsAsked
<1> HIDE DEF S
<1> QED
  BY <1>1, <1>4, <1>6

\* A redirect's target clears the floor of every slot it may be asked for, and is
\* listed at no cost where that slot is free.
THEOREM RedirectsServe == Spec => []RedirectServesEveryEffort
<1>1. IInv => RedirectServesEveryEffort
  <2> SUFFICES ASSUME IInv, NEW r \in Requests, r[1] \in DOMAIN Redirects,
                      NEW slot, slot = Slots[SlotFor(r[1], r[2])],
                      NEW target, target = Redirects[r[1]]
               PROVE  /\ target \in DOMAIN Ranks => Ranks[target] <= slot.min_rank
                      /\ slot.eval_mode = "free" =>
                           \E i \in DOMAIN listing :
                               listing[i].api_model = target /\ listing[i].price = 0
    BY DEF RedirectServesEveryEffort
  <2> DEFINE s == SlotFor(r[1], r[2])
  <2>1. /\ r[1] \in DOMAIN RoutedAliases /\ chains[RoutedAliases[r[1]]] # <<>>
        /\ target = chains[RoutedAliases[r[1]]][1].api_model
    BY DEF Redirects, RedirectMap
  <2>2. r[1] \in DOMAIN aliases /\ aliases[r[1]] \in Resolved /\ RoutedAliases[r[1]] = aliases[r[1]]
    BY <2>1 DEF RoutedAliases
  <2>3. s \in Resolved /\ chains[s] # <<>> /\ target = chains[s][1].api_model
    BY <2>1, <2>2, AliasIs
  <2> HIDE DEF s
  <2>4. 1 \in DOMAIN chains[s]
    <3> DEFINE e == Env(ranked, status, now)   req == Requirements(s)
               A == Able(listing, req, e)   K == Keys(listing, req, e)
    <3>1. \E o : SortedBy(Chain(listing, req, e), listing, A, K, o)
      BY <2>3, PublishedIs, ChainSorted
    <3>2. PICK o : SortedBy(chains[s], listing, A, K, o)
      BY <2>3, <3>1, PublishedIs
    <3>3. \E n \in Nat : DOMAIN chains[s] = 1..n /\ chains[s] = [k \in 1..n |-> chains[s][k]]
      BY <3>2 DEF SortedBy
    <3> QED
      BY <2>3, <3>3
  <2>5. PICK i \in DOMAIN listing :
            /\ chains[s][1] = listing[i] /\ listing[i] \in Candidates
            /\ Passes(listing[i], Requirements(s), status)
    BY <2>3, <2>4, ChainHolds
  <2>6. /\ Requirements(s).min_rank = slot.min_rank /\ slot.min_rank \in Nat
        /\ Requirements(s).eval_mode = slot.eval_mode
    BY <2>3, RequirementsTyped DEF s
  <2>7. target \in DOMAIN Ranks => Ranks[target] <= slot.min_rank
    BY <2>3, <2>5, <2>6, RoutingAssumption DEF Passes
  <2>8. slot.eval_mode = "free" => listing[i].price = 0
    BY <2>5, <2>6 DEF Passes, Candidates
  <2> QED
    BY <2>3, <2>5, <2>7, <2>8
<1> QED
  BY <1>1, InvariantHolds, PTL

-----------------------------------------------------------------------------
(* How the ranking moves *)

\* The candidates of A are in the chain, and ahead of one are those of smaller keys.
Placed(chain, l, A, K) ==
  /\ \A c \in ToSet(chain) : \E i \in A : c = l[i]
  /\ \A i \in A : /\ l[i] \in ToSet(chain)
                  /\ \A d \in Ahead(chain, l[i]) :
                        \E j \in A : d = l[j] /\ KeyLess(K[j], K[i])
                  /\ \A j \in A : KeyLess(K[j], K[i]) => l[j] \in Ahead(chain, l[i])

LEMMA AheadIs ==
  ASSUME NEW l, IsInjective(l), NEW A, A \subseteq DOMAIN l, NEW K, NEW o, NEW chain,
         SortedBy(chain, l, A, K, o)
  PROVE  Placed(chain, l, A, K)
<1> DEFINE N == Cardinality(A)
<1>1. /\ N \in Nat /\ chain = [n \in 1..N |-> l[o[n]]] /\ o \in [1..N -> A]
      /\ \A i \in A : \E n \in 1..N : o[n] = i
      /\ \A m, n \in 1..N : m < n <=> KeyLess(K[o[m]], K[o[n]])
  BY DEF SortedBy
<1>2. DOMAIN chain = 1..N /\ \A m, n \in 1..N : chain[m] = chain[n] => m = n
  <2>1. DOMAIN chain = 1..N /\ IsInjective(chain)
    BY SortedIsInjective
  <2> QED
    BY <2>1 DEF IsInjective
<1> HIDE DEF N
<1>3. ASSUME NEW c \in ToSet(chain) PROVE \E i \in A : c = l[i]
  BY <1>1, <1>2, <1>3 DEF ToSet
<1>4. ASSUME NEW i \in A
      PROVE  /\ l[i] \in ToSet(chain)
             /\ \A d \in Ahead(chain, l[i]) : \E j \in A : d = l[j] /\ KeyLess(K[j], K[i])
             /\ \A j \in A : KeyLess(K[j], K[i]) => l[j] \in Ahead(chain, l[i])
  <2>1. PICK n \in 1..N : o[n] = i
    BY <1>1, <1>4
  <2>2. chain[n] = l[i] /\ n \in DOMAIN chain
    BY <1>1, <1>2, <2>1
  <2>3. Position(chain, l[i]) = n
    <3>1. \A m \in DOMAIN chain : chain[m] = l[i] => m = n
      BY <1>2, <2>2
    <3> QED
      BY <2>2, <3>1 DEF Position
  <2>4. Ahead(chain, l[i]) = {chain[m] : m \in 1..(n - 1)}
    BY <2>3 DEF Ahead
  <2>5. ASSUME NEW d \in Ahead(chain, l[i])
        PROVE  \E j \in A : d = l[j] /\ KeyLess(K[j], K[i])
    <3>1. PICK m \in 1..(n - 1) : d = chain[m]
      BY <2>4, <2>5
    <3>2. m \in 1..N /\ m < n
      BY <1>1, <3>1
    <3>3. o[m] \in A /\ d = l[o[m]] /\ KeyLess(K[o[m]], K[i])
      BY <1>1, <2>1, <3>1, <3>2
    <3> QED
      BY <3>3
  <2>6. ASSUME NEW j \in A, KeyLess(K[j], K[i])
        PROVE  l[j] \in Ahead(chain, l[i])
    <3>1. PICK m \in 1..N : o[m] = j
      BY <1>1, <2>6
    <3>2. m < n
      BY <1>1, <2>1, <2>6, <3>1
    <3>3. m \in 1..(n - 1) /\ chain[m] = l[j]
      BY <1>1, <3>1, <3>2
    <3> QED
      BY <2>4, <3>3
  <2> QED
    BY <2>2, <2>5, <2>6 DEF ToSet
<1> QED
  BY <1>3, <1>4 DEF Placed

\* From a state and time to another the provider's requests come no dearer ...
CostsNoMore(q, t, r, u) ==
  /\ Exhausted(r) => Exhausted(q)
  /\ \A n \in Nat, reserve \in 0..Headroom :
        OpportunityCost(r, n, u, reserve) <= OpportunityCost(q, n, t, reserve)
  /\ DepletionPenalty(r, u) <= DepletionPenalty(q, t)

\* ... or cost the same.
CostsTheSame(q, t, r, u) ==
  /\ Exhausted(r) <=> Exhausted(q)
  /\ \A n \in Nat, reserve \in 0..Headroom :
        OpportunityCost(r, n, u, reserve) = OpportunityCost(q, n, t, reserve)
  /\ DepletionPenalty(r, u) = DepletionPenalty(q, t)

\* If one provider's requests come no dearer and all others' cost the same, nothing
\* gets ahead of its candidates.
LEMMA NoneOvertaken ==
  ASSUME NEW l \in Seq(Candidates), IsInjective(l), NEW s \in Resolved, NEW p \in Providers, NEW st,
         NEW q, QuotaOK(q), NEW t \in Nat, NEW r, QuotaOK(r), NEW u \in Nat,
         CostsNoMore(q[p], t, r[p], u),
         \A x \in Providers \ {p} : CostsTheSame(q[x], t, r[x], u),
         NEW c, c \in ToSet(Chain(l, Requirements(s), Env(q, st, t))), c.provider = p
  PROVE  /\ c \in ToSet(Chain(l, Requirements(s), Env(r, st, u)))
         /\ Ahead(Chain(l, Requirements(s), Env(r, st, u)), c)
              \subseteq Ahead(Chain(l, Requirements(s), Env(q, st, t)), c)
<1> DEFINE req == Requirements(s)
           e == Env(q, st, t)   A == Able(l, req, e)   K == Keys(l, req, e)
           f == Env(r, st, u)   B == Able(l, req, f)   L == Keys(l, req, f)
           old == Chain(l, req, e)   new == Chain(l, req, f)
<1>1. /\ A \subseteq 1..Len(l) /\ Len(l) \in Nat
      /\ \A i \in A : l[i] \in Candidates /\ Eligible(l[i], req, e)
      /\ \A i \in A : K[i] = SortKey(l[i], i, req, e)
      /\ \E o : SortedBy(old, l, A, K, o)
  BY ChainSorted
<1>2. /\ B \subseteq 1..Len(l)
      /\ \A i \in B : l[i] \in Candidates /\ Eligible(l[i], req, f)
      /\ \A i \in B : L[i] = SortKey(l[i], i, req, f)
      /\ \E o : SortedBy(new, l, B, L, o)
  BY ChainSorted
<1>3. DOMAIN l = 1..Len(l) /\ \A i \in DOMAIN l : l[i] \in Candidates
  OBVIOUS
<1>4. /\ \A i \in DOMAIN l : i \in A <=> Passes(l[i], req, st) /\ ~ Exhausted(q[l[i].provider])
      /\ \A i \in DOMAIN l : i \in B <=> Passes(l[i], req, st) /\ ~ Exhausted(r[l[i].provider])
  BY EligibleIs DEF Able
<1>5. Placed(old, l, A, K)
  <2>1. PICK o : SortedBy(old, l, A, K, o)
    BY <1>1
  <2>2. A \subseteq DOMAIN l
    BY <1>1, <1>3
  <2> HIDE DEF A, K, old
  <2> QED
    BY <2>1, <2>2, AheadIs
<1>6. Placed(new, l, B, L)
  <2>1. PICK o : SortedBy(new, l, B, L, o)
    BY <1>2
  <2>2. B \subseteq DOMAIN l
    BY <1>2, <1>3
  <2> HIDE DEF B, L, new
  <2> QED
    BY <2>1, <2>2, AheadIs
<1>7. req.reserve \in Nat /\ req.reserve \in 0..Headroom
  BY RequirementsTyped, Scales
<1> HIDE DEF A, B, K, L, old, new, req, e, f
<1>8. PICK i \in A : c = l[i]
  BY <1>5 DEF Placed, old, e, req
<1>9. i \in B /\ i \in DOMAIN l /\ i \in Nat
  BY <1>1, <1>3, <1>4, <1>8 DEF CostsNoMore
<1>10. ASSUME NEW j \in B, KeyLess(L[j], L[i])
       PROVE  j \in A /\ KeyLess(K[j], K[i])
  <2> DEFINE d == l[j]
  <2>1. j \in DOMAIN l /\ j \in Nat /\ d \in Candidates /\ c \in Candidates /\ d.provider \in Providers
    BY <1>1, <1>2, <1>3, <1>8 DEF Candidates
  <2>2. Nominal(c) \in Nat /\ Nominal(d) \in Nat
    BY <2>1, NominalTyped
  <2>3. j \in A
    <3>1. CASE d.provider = p
      BY <1>1, <1>4, <1>8, <1>9, <1>10, <2>1, <3>1
    <3>2. CASE d.provider # p
      <4>1. Exhausted(r[d.provider]) <=> Exhausted(q[d.provider])
        BY <2>1, <3>2 DEF CostsTheSame
      <4> QED
        BY <1>4, <1>10, <2>1, <4>1
    <3> QED
      BY <3>1, <3>2
  <2> DEFINE kc == Cost(c, q, t, req.reserve)   kd == Cost(d, q, t, req.reserve)
             lc == Cost(c, r, u, req.reserve)   ld == Cost(d, r, u, req.reserve)
             rc == IF c.api_model \in DOMAIN Ranks THEN - Ranks[c.api_model] ELSE 0
             rd == IF d.api_model \in DOMAIN Ranks THEN - Ranks[d.api_model] ELSE 0
  <2>4. K[i] = <<kc, rc, - c.fitness, c.api_model, i>> /\ K[i] \in Key /\ kc \in Int
    <3>1. K[i] = SortKey(c, i, req, e)
      BY <1>1, <1>8
    <3> QED
      BY <1>9, <2>1, <3>1, KeyIs DEF e, req
  <2>5. K[j] = <<kd, rd, - d.fitness, d.api_model, j>> /\ K[j] \in Key /\ kd \in Int
    <3>1. K[j] = SortKey(d, j, req, e)
      BY <1>1, <2>3
    <3> QED
      BY <2>1, <3>1, KeyIs DEF e, req
  <2>6. L[i] = <<lc, rc, - c.fitness, c.api_model, i>> /\ L[i] \in Key /\ lc \in Int
    <3>1. L[i] = SortKey(c, i, req, f)
      BY <1>2, <1>8, <1>9
    <3>2. i \in Nat /\ c \in Candidates
      BY <1>9, <2>1
    <3> QED
      BY <3>1, <3>2, KeyIs DEF f, req
  <2>7. L[j] = <<ld, rd, - d.fitness, d.api_model, j>> /\ L[j] \in Key /\ ld \in Int
    <3>1. L[j] = SortKey(d, j, req, f)
      BY <1>2, <1>10
    <3> QED
      BY <2>1, <3>1, KeyIs DEF f, req
  <2>8. lc <= kc
    <3>1. /\ OpportunityCost(r[p], Nominal(c), u, req.reserve)
               <= OpportunityCost(q[p], Nominal(c), t, req.reserve)
          /\ DepletionPenalty(r[p], u) <= DepletionPenalty(q[p], t)
      BY <1>7, <2>2 DEF CostsNoMore
    <3>2. /\ OpportunityCost(r[p], Nominal(c), u, req.reserve) \in Nat
          /\ OpportunityCost(q[p], Nominal(c), t, req.reserve) \in Nat
          /\ DepletionPenalty(r[p], u) \in Int /\ DepletionPenalty(q[p], t) \in Int
      BY <1>7, <2>2, CostTyped DEF QuotaOK
    <3> QED
      BY <3>1, <3>2 DEF Cost
  <2>9. /\ ld < lc => kd < kc
        /\ ld = lc => kd <= kc /\ (d.provider = p => kd = kc)
        /\ d.provider # p => kd = ld
    <3>1. CASE d.provider # p
      <4>1. kd = ld
        BY <1>7, <2>1, <2>2, <3>1 DEF CostsTheSame, Cost
      <4> HIDE DEF kc, kd, lc, ld
      <4> QED
        BY <2>4, <2>5, <2>6, <2>8, <3>1, <4>1
    <3>2. CASE d.provider = p
      <4> DEFINE m == Nominal(c)   n == Nominal(d)
      <4>1. /\ kc = OpportunityCost(q[p], m, t, req.reserve) + DepletionPenalty(q[p], t)
            /\ kd = OpportunityCost(q[p], n, t, req.reserve) + DepletionPenalty(q[p], t)
            /\ lc = OpportunityCost(r[p], m, u, req.reserve) + DepletionPenalty(r[p], u)
            /\ ld = OpportunityCost(r[p], n, u, req.reserve) + DepletionPenalty(r[p], u)
        BY <3>2 DEF Cost
      <4>2. StateOK(q[p]) /\ StateOK(r[p])
        BY DEF QuotaOK
      <4>3. m = n \/ m + Unit <= n \/ n + Unit <= m
        BY <2>1, NominalTyped
      <4> HIDE DEF kc, kd, lc, ld, m, n
      <4>4. m \in Nat /\ n \in Nat
        BY <2>2 DEF m, n
      <4>5. /\ OpportunityCost(q[p], m, t, req.reserve) \in Nat
            /\ OpportunityCost(q[p], n, t, req.reserve) \in Nat
            /\ OpportunityCost(r[p], m, u, req.reserve) \in Nat
            /\ OpportunityCost(r[p], n, u, req.reserve) \in Nat
            /\ DepletionPenalty(r[p], u) \in Int /\ DepletionPenalty(q[p], t) \in Int
        BY <1>7, <4>2, <4>4, CostTyped
      <4>6. CASE m = n
        BY <3>2, <4>1, <4>5, <4>6
      <4>7. CASE m + Unit <= n
        <5>1. OpportunityCost(r[p], m, u, req.reserve) < OpportunityCost(r[p], n, u, req.reserve)
          BY <1>7, <4>2, <4>4, <4>7, CostTellsPrices
        <5> QED
          BY <3>2, <4>1, <4>5, <5>1
      <4>8. CASE n + Unit <= m
        <5>1. OpportunityCost(r[p], n, u, req.reserve) < OpportunityCost(r[p], m, u, req.reserve)
          BY <1>7, <4>2, <4>4, <4>8, CostTellsPrices
        <5>2. OpportunityCost(q[p], n, t, req.reserve) < OpportunityCost(q[p], m, t, req.reserve)
          BY <1>7, <4>2, <4>4, <4>8, CostTellsPrices
        <5> QED
          BY <3>2, <4>1, <4>5, <5>1, <5>2
      <4> QED
        BY <4>3, <4>6, <4>7, <4>8
    <3> QED
      BY <3>1, <3>2
  <2> HIDE DEF kc, kd, lc, ld, rc, rd, d
  <2>10. KeyLess(K[j], K[i])
    <3>1. \/ ld < lc
          \/ ld = lc /\ (kd = kc => KeyLess(K[j], K[i]))
      BY <1>10, <2>4, <2>5, <2>6, <2>7, KeyLessMeans
    <3>2. kd < kc => KeyLess(K[j], K[i])
      BY <2>4, <2>5, KeyLessMeans
    <3> QED
      BY <2>4, <2>5, <2>9, <3>1, <3>2
  <2> QED
    BY <2>3, <2>10
<1>11. Ahead(new, c) \subseteq Ahead(old, c)
  <2>1. SUFFICES ASSUME NEW d \in Ahead(new, c) PROVE d \in Ahead(old, c)
    OBVIOUS
  <2>2. PICK j \in B : d = l[j] /\ KeyLess(L[j], L[i])
    BY <1>6, <1>8, <1>9, <2>1 DEF Placed
  <2>3. j \in A /\ KeyLess(K[j], K[i])
    BY <1>10, <2>2
  <2> QED
    BY <1>5, <1>8, <2>2, <2>3 DEF Placed
<1> QED
  BY <1>6, <1>8, <1>9, <1>11 DEF Placed, old, new, e, f, req

\* The two lemmas on costs that follow from what the states say.
LEMMA WithMore ==
  ASSUME NEW q, NEW r, StateOK(q), StateOK(r), q # NoState, r # NoState,
         q.fraction <= r.fraction, q.reset = r.reset, NEW t \in Nat
  PROVE  CostsNoMore(q, t, r, t)
<1>1. Exhausted(r) => Exhausted(q)
  BY Scales DEF StateOK, Exhausted
<1>2. ASSUME NEW n \in Nat, NEW reserve \in 0..Headroom
      PROVE  /\ OpportunityCost(r, n, t, reserve) <= OpportunityCost(q, n, t, reserve)
             /\ DepletionPenalty(r, t) <= DepletionPenalty(q, t)
  <2>1. reserve \in Nat
    BY Scales
  <2> QED
    BY <2>1, MoreCostsLess
<1>3. DepletionPenalty(r, t) <= DepletionPenalty(q, t)
  <2>1. 0 \in Nat /\ 0 \in 0..Headroom
    BY Scales
  <2> QED
    BY <1>2, <2>1
<1> QED
  BY <1>1, <1>2, <1>3 DEF CostsNoMore

LEMMA TowardsReset ==
  ASSUME NEW q, StateOK(q), q # NoState, NEW t \in Nat, NEW u \in Nat, t <= u, q.reset > u
  PROVE  CostsNoMore(q, t, q, u)
<1>1. ASSUME NEW n \in Nat, NEW reserve \in 0..Headroom
      PROVE  /\ OpportunityCost(q, n, u, reserve) <= OpportunityCost(q, n, t, reserve)
             /\ DepletionPenalty(q, u) <= DepletionPenalty(q, t)
  <2>1. reserve \in Nat
    BY Scales
  <2> QED
    BY <2>1, LaterCostsLess
<1>2. DepletionPenalty(q, u) <= DepletionPenalty(q, t)
  <2>1. 0 \in Nat /\ 0 \in 0..Headroom
    BY Scales
  <2> QED
    BY <1>1, <2>1
<1> QED
  BY <1>1, <1>2 DEF CostsNoMore

LEMMA OnceKnown ==
  ASSUME NEW q, StateOK(q), q # NoState, q.fraction >= Headroom, NEW t \in Nat
  PROVE  CostsNoMore(NoState, t, q, t)
<1>1. ~ Exhausted(q)
  BY Scales DEF StateOK, Exhausted
<1>2. ASSUME NEW n \in Nat, NEW reserve \in 0..Headroom
      PROVE  /\ OpportunityCost(q, n, t, reserve) <= OpportunityCost(NoState, n, t, reserve)
             /\ DepletionPenalty(q, t) <= DepletionPenalty(NoState, t)
  <2>1. reserve \in Nat /\ reserve <= Headroom
    BY Scales
  <2> QED
    BY <2>1, KnownCostsNoMore
<1>3. DepletionPenalty(q, t) <= DepletionPenalty(NoState, t)
  <2>1. 0 \in Nat /\ 0 \in 0..Headroom
    BY Scales
  <2> QED
    BY <1>2, <2>1
<1> QED
  BY <1>1, <1>2, <1>3 DEF CostsNoMore

\* Time changes the price only of a state with a reset.
LEMMA TimelessCosts ==
  ASSUME NEW q, StateOK(q), NEW t, NEW u, t = u \/ q.reset = NoReset
  PROVE  CostsTheSame(q, t, q, u)
<1>1. CASE t = u
  BY <1>1 DEF CostsTheSame
<1>2. CASE q.reset = NoReset
  <2>1. \A n, reserve : OpportunityCost(q, n, u, reserve) = OpportunityCost(q, n, t, reserve)
    BY <1>2, Zenon DEF OpportunityCost
  <2>2. ExpiryBonus(q, u) = ExpiryBonus(q, t)
    BY <1>2, Zenon DEF ExpiryBonus
  <2>3. DepletionPenalty(q, u) = DepletionPenalty(q, t)
    BY <2>2, Zenon DEF DepletionPenalty
  <2> QED
    BY <2>1, <2>3, Zenon DEF CostsTheSame
<1> QED
  BY <1>1, <1>2

\* What every slot was resolved by.
Resolution ==
  /\ now \in Nat /\ listing \in Seq(Candidates) /\ IsInjective(listing) /\ QuotaOK(ranked)
  /\ \A s \in Resolved : chains[s] = Chain(listing, Requirements(s), Env(ranked, status, now))

LEMMA ResolutionHolds == Spec => []Resolution
<1>1. IInv => Resolution
  BY PublishedIs DEF Resolution
<1> QED
  BY <1>1, InvariantHolds, PTL

\* A step that moves only one provider's state: the cheaper it makes the provider,
\* the fewer are ahead of its candidates, and the other way round.
LEMMA CheaperNotDemoted ==
  ASSUME Resolution, Resolution', UNCHANGED <<listing, status>>, NEW p \in Providers,
         CostsNoMore(ranked[p], now, ranked'[p], now'),
         \A x \in Providers \ {p} : CostsTheSame(ranked[x], now, ranked'[x], now')
  PROVE  NotDemoted(p)
<1>1. SUFFICES ASSUME NEW s \in Resolved, NEW c \in ToSet(chains[s]), c.provider = p
               PROVE  c \in ToSet(chains'[s]) /\ Ahead(chains'[s], c) \subseteq Ahead(chains[s], c)
  BY DEF NotDemoted
<1> DEFINE q == ranked   r == ranked'   t == now   u == now'   l == listing   st == status
<1>2. /\ l \in Seq(Candidates) /\ IsInjective(l) /\ QuotaOK(q) /\ QuotaOK(r)
      /\ t \in Nat /\ u \in Nat
      /\ chains[s] = Chain(l, Requirements(s), Env(q, st, t))
      /\ chains'[s] = Chain(l, Requirements(s), Env(r, st, u))
  BY DEF Resolution
<1>3. /\ CostsNoMore(q[p], t, r[p], u)
      /\ \A x \in Providers \ {p} : CostsTheSame(q[x], t, r[x], u)
  OBVIOUS
<1> DEFINE old == Chain(l, Requirements(s), Env(q, st, t))
           new == Chain(l, Requirements(s), Env(r, st, u))
<1> HIDE DEF q, r, t, u, l, st
<1>4. c \in ToSet(old)
  BY <1>1, <1>2
<1>5. c \in ToSet(new) /\ Ahead(new, c) \subseteq Ahead(old, c)
  BY <1>1, <1>2, <1>3, <1>4, NoneOvertaken
<1> QED
  BY <1>2, <1>5

LEMMA DearerNotPromoted ==
  ASSUME Resolution, Resolution', UNCHANGED <<listing, status>>, NEW p \in Providers,
         CostsNoMore(ranked'[p], now', ranked[p], now),
         \A x \in Providers \ {p} : CostsTheSame(ranked'[x], now', ranked[x], now)
  PROVE  NotPromoted(p)
<1>1. SUFFICES ASSUME NEW s \in Resolved, NEW c \in ToSet(chains'[s]), c.provider = p
               PROVE  c \in ToSet(chains[s]) /\ Ahead(chains[s], c) \subseteq Ahead(chains'[s], c)
  BY DEF NotPromoted
<1> DEFINE q == ranked'   r == ranked   t == now'   u == now   l == listing   st == status
<1>2. /\ l \in Seq(Candidates) /\ IsInjective(l) /\ QuotaOK(q) /\ QuotaOK(r)
      /\ t \in Nat /\ u \in Nat
      /\ chains'[s] = Chain(l, Requirements(s), Env(q, st, t))
      /\ chains[s] = Chain(l, Requirements(s), Env(r, st, u))
  BY DEF Resolution
<1>3. /\ CostsNoMore(q[p], t, r[p], u)
      /\ \A x \in Providers \ {p} : CostsTheSame(q[x], t, r[x], u)
  OBVIOUS
<1> DEFINE old == Chain(l, Requirements(s), Env(q, st, t))
           new == Chain(l, Requirements(s), Env(r, st, u))
<1> HIDE DEF q, r, t, u, l, st
<1>4. c \in ToSet(old)
  BY <1>1, <1>2
<1>5. c \in ToSet(new) /\ Ahead(new, c) \subseteq Ahead(old, c)
  BY <1>1, <1>2, <1>3, <1>4, NoneOvertaken
<1> QED
  BY <1>2, <1>5

\* More of one provider never puts its candidates behind another's, less never puts
\* them ahead, and neither does time, as its window runs out unspent.
THEOREM CapacityIsNoHandicap == Spec => MoreCapacityNeverDemotes
<1> DEFINE A == \A p \in Providers :
                  /\ /\ OthersUnchanged(p) /\ NoState \notin {ranked[p], ranked'[p]}
                     /\ ranked'[p].reset = ranked[p].reset
                     => /\ ranked'[p].fraction >= ranked[p].fraction => NotDemoted(p)
                        /\ ranked'[p].fraction <= ranked[p].fraction => NotPromoted(p)
                  /\ /\ now' > now /\ UNCHANGED <<listing, status, ranked>>
                     /\ ranked[p].reset > now'
                     /\ \A x \in Providers \ {p} : ranked[x].reset = NoReset
                     => NotDemoted(p)
<1>1. IInv /\ Resolution /\ Resolution' /\ [Next]_vars => A
  <2> SUFFICES ASSUME IInv, Resolution, Resolution', [Next]_vars, NEW p \in Providers
               PROVE  /\ /\ OthersUnchanged(p) /\ NoState \notin {ranked[p], ranked'[p]}
                         /\ ranked'[p].reset = ranked[p].reset
                         => /\ ranked'[p].fraction >= ranked[p].fraction => NotDemoted(p)
                            /\ ranked'[p].fraction <= ranked[p].fraction => NotPromoted(p)
                      /\ /\ now' > now /\ UNCHANGED <<listing, status, ranked>>
                         /\ ranked[p].reset > now'
                         /\ \A x \in Providers \ {p} : ranked[x].reset = NoReset
                         => NotDemoted(p)
    OBVIOUS
  <2>1. /\ now \in Nat /\ now' \in Nat
        /\ \A x \in Providers : StateOK(ranked[x]) /\ StateOK(ranked'[x])
    BY DEF Resolution, QuotaOK
  <2>2. ASSUME OthersUnchanged(p), NoState \notin {ranked[p], ranked'[p]},
               ranked'[p].reset = ranked[p].reset
        PROVE  /\ ranked'[p].fraction >= ranked[p].fraction => NotDemoted(p)
               /\ ranked'[p].fraction <= ranked[p].fraction => NotPromoted(p)
    <3>1. ranked[p] # NoState /\ ranked'[p] # NoState
      BY <2>2
    <3>2. \A x \in Providers \ {p} : /\ CostsTheSame(ranked[x], now, ranked'[x], now')
                                     /\ CostsTheSame(ranked'[x], now', ranked[x], now)
      BY <2>2 DEF OthersUnchanged, CostsTheSame
    <3>3. ranked[p].fraction \in Nat /\ ranked'[p].fraction \in Nat
      BY <2>1, <2>2, <3>1 DEF StateOK
    <3>4. ASSUME ranked'[p].fraction >= ranked[p].fraction PROVE NotDemoted(p)
      <4>1. CostsNoMore(ranked[p], now, ranked'[p], now')
        BY <2>1, <2>2, <3>1, <3>3, <3>4, WithMore DEF OthersUnchanged
      <4> QED
        BY <2>2, <3>2, <4>1, CheaperNotDemoted DEF OthersUnchanged
    <3>5. ASSUME ranked'[p].fraction <= ranked[p].fraction PROVE NotPromoted(p)
      <4>1. CostsNoMore(ranked'[p], now', ranked[p], now)
        BY <2>1, <2>2, <3>1, <3>5, WithMore DEF OthersUnchanged
      <4> QED
        BY <2>2, <3>2, <4>1, DearerNotPromoted DEF OthersUnchanged
    <3> QED
      BY <3>4, <3>5
  <2>3. ASSUME now' > now, UNCHANGED <<listing, status, ranked>>, ranked[p].reset > now',
               \A x \in Providers \ {p} : ranked[x].reset = NoReset
        PROVE  NotDemoted(p)
    <3>1. ranked[p] # NoState /\ now <= now'
      BY <2>1, <2>3 DEF NoState, NoReset
    <3>2. CostsNoMore(ranked[p], now, ranked'[p], now')
      BY <2>1, <2>3, <3>1, TowardsReset
    <3>3. \A x \in Providers \ {p} : CostsTheSame(ranked[x], now, ranked'[x], now')
      BY <2>1, <2>3, TimelessCosts
    <3> QED
      BY <2>3, <3>2, <3>3, CheaperNotDemoted
  <2> QED
    BY <2>2, <2>3
<1> QED
  BY <1>1, InvariantHolds, ResolutionHolds, PTL DEF Spec, MoreCapacityNeverDemotes

\* The first figure that is known of a provider, from the headroom on, puts none of
\* its candidates behind another's, whatever the slot keeps in reserve.
THEOREM KnowledgeIsNoHandicap == Spec => IgnoranceIsNoAdvantage
<1> DEFINE A == \A p \in Providers :
                  /\ OthersUnchanged(p)
                  /\ ranked[p] = NoState /\ ranked'[p].fraction >= Headroom
                  => NotDemoted(p)
<1>1. Resolution /\ Resolution' => A
  <2> SUFFICES ASSUME Resolution, Resolution', NEW p \in Providers,
                      OthersUnchanged(p), ranked[p] = NoState, ranked'[p].fraction >= Headroom
               PROVE  NotDemoted(p)
    OBVIOUS
  <2>1. now \in Nat /\ StateOK(ranked'[p])
    BY DEF Resolution, QuotaOK
  <2>2. ranked'[p] # NoState
    BY Scales DEF NoState, NoFraction
  <2>3. CostsNoMore(ranked[p], now, ranked'[p], now')
    BY <2>1, <2>2, OnceKnown DEF OthersUnchanged
  <2>4. \A x \in Providers \ {p} : CostsTheSame(ranked[x], now, ranked'[x], now')
    BY DEF OthersUnchanged, CostsTheSame
  <2> QED
    BY <2>3, <2>4, CheaperNotDemoted DEF OthersUnchanged
<1> QED
  BY <1>1, ResolutionHolds, PTL DEF Spec, IgnoranceIsNoAdvantage

-----------------------------------------------------------------------------
(* What the order of the listing is worth *)

\* A candidate's key without its place in the listing.
Terms(c, s, q, t) ==
  <<Cost(c, q, t, Requirements(s).reserve),
    IF c.api_model \in DOMAIN Ranks THEN - Ranks[c.api_model] ELSE 0,
    - c.fitness, c.api_model, 0>>

\* The chain offers C, each once and in the order of its terms.
OrderedBy(chain, C, T) ==
  /\ T \in [C -> Key]
  /\ \E N \in Nat :
        /\ DOMAIN chain = 1..N
        /\ \A n \in 1..N : chain[n] \in C
        /\ \A c \in C : \E n \in 1..N : chain[n] = c
        /\ \A m, n \in 1..N : m < n => ~ KeyLess(T[chain[n]], T[chain[m]])
        /\ \A m, n \in 1..N : chain[m] = chain[n] => m = n

\* Two such orders of the same set agree on the terms at every place: those in the
\* first n places of the one could not all find a place before n in the other.
LEMMA FirstsFit ==
  ASSUME NEW C, NEW T \in [C -> Key], NEW N \in Nat, NEW M \in Nat, NEW a, NEW b,
         \A n \in 1..N : a[n] \in C,
         \A m, n \in 1..N : m < n => ~ KeyLess(T[a[n]], T[a[m]]),
         \A m, n \in 1..N : a[m] = a[n] => m = n,
         \A c \in C : \E n \in 1..M : b[n] = c,
         \A n \in 1..M : b[n] \in C,
         \A m, n \in 1..M : m < n => ~ KeyLess(T[b[n]], T[b[m]])
  PROVE  /\ N <= M
         /\ \A n \in 1..N : n \in 1..M => ~ KeyLess(T[a[n]], T[b[n]])
<1> DEFINE h == [m \in 1..N |-> CHOOSE k \in 1..M : b[k] = a[m]]
<1>1. \A m \in 1..N : h[m] \in 1..M /\ b[h[m]] = a[m]
  OBVIOUS
<1>2. \A m, n \in 1..N : h[m] = h[n] => m = n
  BY <1>1
<1> HIDE DEF h
<1>3. ASSUME NEW n \in Nat, NEW k \in Nat, n \in 0..N, \A m \in 1..n : h[m] \in 1..k
      PROVE  n <= k
  <2> DEFINE g == [m \in 1..n |-> h[m]]
  <2>1. g \in [1..n -> 1..k]
    BY <1>3
  <2>2. \A x, y \in 1..n : g[x] = g[y] => x = y
    BY <1>2, <1>3
  <2> HIDE DEF g
  <2>3. /\ IsFiniteSet(1..n) /\ Cardinality(1..n) = n
        /\ IsFiniteSet(1..k) /\ Cardinality(1..k) = k
    <3>1. 1 \in Int /\ n \in Int /\ k \in Int
      OBVIOUS
    <3> QED
      BY <3>1, FS_Interval
  <2>4. ~(Cardinality(1..k) < Cardinality(1..n))
    BY <2>1, <2>2, <2>3, FS_PigeonHole
  <2> QED
    BY <2>3, <2>4
<1>4. N <= M
  BY <1>1, <1>3
<1>5. ASSUME NEW n \in 1..N, n \in 1..M, KeyLess(T[a[n]], T[b[n]])
      PROVE  FALSE
  <2>1. ASSUME NEW m \in 1..n PROVE h[m] \in 1..(n - 1)
    <3>1. m \in 1..N /\ h[m] \in 1..M /\ b[h[m]] = a[m]
      BY <1>1
    <3>2. T[a[m]] \in Key /\ T[a[n]] \in Key /\ T[b[n]] \in Key
      BY <1>5, <3>1
    <3>3. ~ KeyLess(T[a[n]], T[a[m]])
      BY <3>1, <3>2, KeysOrdered
    <3>4. KeyLess(T[a[m]], T[b[n]])
      BY <1>5, <3>2, <3>3, KeysOrdered
    <3>5. ~(n < h[m])
      BY <1>5, <3>1, <3>4
    <3>6. h[m] # n
      BY <3>1, <3>2, <3>4, KeysOrdered
    <3> QED
      BY <3>1, <3>5, <3>6
  <2> DEFINE k == n - 1
  <2>2. n \in Nat /\ k \in Nat /\ n \in 0..N /\ ~(n <= k)
    OBVIOUS
  <2>3. \A m \in 1..n : h[m] \in 1..k
    BY <2>1
  <2> HIDE DEF k
  <2> QED
    BY <1>3, <2>2, <2>3
<1> QED
  BY <1>4, <1>5

LEMMA OrdersAgree ==
  ASSUME NEW C, NEW T, NEW a, NEW b, OrderedBy(a, C, T), OrderedBy(b, C, T)
  PROVE  /\ DOMAIN a = DOMAIN b
         /\ \A n \in DOMAIN a : a[n] \in C /\ b[n] \in C /\ T[a[n]] = T[b[n]]
<1>1. PICK N \in Nat :
        /\ DOMAIN a = 1..N
        /\ \A n \in 1..N : a[n] \in C
        /\ \A c \in C : \E n \in 1..N : a[n] = c
        /\ \A m, n \in 1..N : m < n => ~ KeyLess(T[a[n]], T[a[m]])
        /\ \A m, n \in 1..N : a[m] = a[n] => m = n
  BY Zenon DEF OrderedBy
<1>2. PICK M \in Nat :
        /\ DOMAIN b = 1..M
        /\ \A n \in 1..M : b[n] \in C
        /\ \A c \in C : \E n \in 1..M : b[n] = c
        /\ \A m, n \in 1..M : m < n => ~ KeyLess(T[b[n]], T[b[m]])
        /\ \A m, n \in 1..M : b[m] = b[n] => m = n
  BY Zenon DEF OrderedBy
<1>3. T \in [C -> Key]
  BY DEF OrderedBy
<1>4. /\ N <= M
      /\ \A n \in 1..N : n \in 1..M => ~ KeyLess(T[a[n]], T[b[n]])
  BY <1>1, <1>2, <1>3, FirstsFit
<1>5. /\ M <= N
      /\ \A n \in 1..M : n \in 1..N => ~ KeyLess(T[b[n]], T[a[n]])
  BY <1>1, <1>2, <1>3, FirstsFit
<1>6. M = N
  BY <1>4, <1>5
<1>7. ASSUME NEW n \in 1..N PROVE T[a[n]] = T[b[n]]
  <2>1. T[a[n]] \in Key /\ T[b[n]] \in Key
    BY <1>1, <1>2, <1>3, <1>6
  <2>2. ~ KeyLess(T[a[n]], T[b[n]]) /\ ~ KeyLess(T[b[n]], T[a[n]])
    BY <1>4, <1>5, <1>6
  <2> QED
    BY <2>1, <2>2, KeysOrdered
<1> QED
  BY <1>1, <1>2, <1>6, <1>7

\* The survivors of a listing, ordered by what it says of each.
LEMMA ChainOrdered ==
  ASSUME NEW l \in Seq(Candidates), IsInjective(l), NEW s \in Resolved, NEW q, QuotaOK(q), NEW st,
         NEW t \in Nat
  PROVE  LET C == {c \in ToSet(l) : Passes(c, Requirements(s), st) /\ ~ Exhausted(q[c.provider])}
         IN  OrderedBy(Chain(l, Requirements(s), Env(q, st, t)), C, [c \in C |-> Terms(c, s, q, t)])
<1> DEFINE req == Requirements(s)   e == Env(q, st, t)
           A == Able(l, req, e)     K == Keys(l, req, e)   chain == Chain(l, req, e)
           C == {c \in ToSet(l) : Passes(c, req, st) /\ ~ Exhausted(q[c.provider])}
           T == [c \in C |-> Terms(c, s, q, t)]
<1>1. /\ A \subseteq 1..Len(l) /\ Len(l) \in Nat
      /\ \A i \in A : l[i] \in Candidates /\ K[i] = SortKey(l[i], i, req, e)
      /\ \E o : SortedBy(chain, l, A, K, o)
  BY ChainSorted
<1>2. DOMAIN l = 1..Len(l) /\ \A i \in DOMAIN l : l[i] \in Candidates
  OBVIOUS
<1>3. \A i \in DOMAIN l : i \in A <=> l[i] \in C
  BY EligibleIs DEF Able, ToSet
<1>4. \A c \in C : \E i \in A : c = l[i]
  BY <1>3 DEF ToSet
<1>5. ASSUME NEW i \in A
      PROVE  LET c == l[i]
             IN  /\ K[i] = <<Cost(c, q, t, req.reserve),
                             IF c.api_model \in DOMAIN Ranks THEN - Ranks[c.api_model] ELSE 0,
                             - c.fitness, c.api_model, i>>
                 /\ K[i] \in Key /\ T[c] \in Key
                 /\ T[c] = <<K[i][1], K[i][2], K[i][3], K[i][4], 0>>
  <2> DEFINE c == l[i]
  <2>1. c \in Candidates /\ i \in Nat /\ K[i] = SortKey(c, i, req, e) /\ c \in C
    BY <1>1, <1>2, <1>3
  <2>2. /\ K[i] = <<Cost(c, q, t, req.reserve),
                    IF c.api_model \in DOMAIN Ranks THEN - Ranks[c.api_model] ELSE 0,
                    - c.fitness, c.api_model, i>>
        /\ K[i] \in Key
    BY <2>1, KeyIs
  <2>3. T[c] = Terms(c, s, q, t)
    BY <2>1
  <2>4. T[c] = <<K[i][1], K[i][2], K[i][3], K[i][4], 0>>
    BY <2>2, <2>3 DEF Terms
  <2>5. T[c] \in Key
    <3> DEFINE k == K[i]   v == T[c]
    <3>1. k \in Key /\ v = <<k[1], k[2], k[3], k[4], 0>>
      BY <2>2, <2>4
    <3> HIDE DEF k, v
    <3>2. k[1] \in Int /\ k[2] \in Int /\ k[3] \in Int /\ k[4] \in Int
      BY <3>1 DEF Key
    <3>3. v \in Key
      BY <3>1, <3>2 DEF Key
    <3> QED
      BY <3>3 DEF v
  <2> QED
    BY <2>2, <2>4, <2>5
<1>6. PICK o : SortedBy(chain, l, A, K, o)
  BY <1>1
<1>7. A \subseteq DOMAIN l
  BY <1>1, <1>2
<1> DEFINE N == Cardinality(A)
<1>8. T \in [C -> Key]
  BY <1>4, <1>5
<1> HIDE DEF A, K, C, T, chain, N, req, e
<1>9. /\ N \in Nat /\ chain = [n \in 1..N |-> l[o[n]]] /\ o \in [1..N -> A]
      /\ \A i \in A : \E n \in 1..N : o[n] = i
      /\ \A m, n \in 1..N : m < n <=> KeyLess(K[o[m]], K[o[n]])
  BY <1>6 DEF SortedBy, N
<1>10. DOMAIN chain = 1..N /\ IsInjective(chain)
  BY <1>6, <1>7, SortedIsInjective DEF N
<1>11. \A n \in 1..N : chain[n] \in C
  BY <1>3, <1>7, <1>9
<1>12. \A c \in C : \E n \in 1..N : chain[n] = c
  BY <1>4, <1>9
<1>13. ASSUME NEW m \in 1..N, NEW n \in 1..N, m < n
       PROVE  ~ KeyLess(T[chain[n]], T[chain[m]])
  <2> DEFINE i == o[m]   j == o[n]
  <2>1. i \in A /\ j \in A /\ chain[m] = l[i] /\ chain[n] = l[j] /\ KeyLess(K[i], K[j])
    BY <1>9, <1>13
  <2> HIDE DEF i, j
  <2>2. /\ K[i] \in Key /\ T[l[i]] \in Key
        /\ T[l[i]] = <<K[i][1], K[i][2], K[i][3], K[i][4], 0>>
        /\ K[j] \in Key /\ T[l[j]] \in Key
        /\ T[l[j]] = <<K[j][1], K[j][2], K[j][3], K[j][4], 0>>
    BY <1>5, <2>1
  <2> DEFINE k == K[i]   h == K[j]   v == T[l[i]]   w == T[l[j]]
  <2>3. /\ k \in Key /\ h \in Key /\ v \in Key /\ w \in Key /\ KeyLess(k, h)
        /\ v = <<k[1], k[2], k[3], k[4], 0>> /\ w = <<h[1], h[2], h[3], h[4], 0>>
    BY <2>1, <2>2
  <2> HIDE DEF k, h, v, w
  <2>4. ~ KeyLess(w, v)
    <3>1. SUFFICES ASSUME KeyLess(w, v) PROVE FALSE
      OBVIOUS
    <3> DEFINE k1 == k[1]  k2 == k[2]  k3 == k[3]  k4 == k[4]
               h1 == h[1]  h2 == h[2]  h3 == h[3]  h4 == h[4]
    <3>2. /\ k1 \in Int /\ k2 \in Int /\ k3 \in Int /\ k4 \in Int
          /\ h1 \in Int /\ h2 \in Int /\ h3 \in Int /\ h4 \in Int
      BY <2>3 DEF Key
    <3>3. /\ v[1] = k1 /\ v[2] = k2 /\ v[3] = k3 /\ v[4] = k4 /\ v[5] = 0
          /\ w[1] = h1 /\ w[2] = h2 /\ w[3] = h3 /\ w[4] = h4 /\ w[5] = 0
      BY <2>3
    <3>4. \/ k1 < h1
          \/ k1 = h1 /\ k2 < h2
          \/ k1 = h1 /\ k2 = h2 /\ k3 < h3
          \/ k1 = h1 /\ k2 = h2 /\ k3 = h3 /\ k4 < h4
          \/ k1 = h1 /\ k2 = h2 /\ k3 = h3 /\ k4 = h4
      BY <2>3, KeyLessMeans
    <3> HIDE DEF k1, k2, k3, k4, h1, h2, h3, h4
    <3>5. \/ h1 < k1
          \/ h1 = k1 /\ h2 < k2
          \/ h1 = k1 /\ h2 = k2 /\ h3 < k3
          \/ h1 = k1 /\ h2 = k2 /\ h3 = k3 /\ h4 < k4
      BY <2>3, <3>1, <3>3, KeyLessMeans
    <3> QED
      BY <3>2, <3>4, <3>5
  <2> QED
    BY <2>1, <2>4 DEF v, w
<1>14. \A m, n \in 1..N : chain[m] = chain[n] => m = n
  BY <1>10 DEF IsInjective
<1>15. OrderedBy(chain, C, T)
  BY <1>8, <1>9, <1>10, <1>11, <1>12, <1>13, <1>14 DEF OrderedBy
<1> QED
  BY <1>15 DEF chain, C, T, req, e

\* A refused guess and a reshuffled listing: what the limiter infers of a provider
\* that something better speaks of changes no chain, and the order of the listing
\* no model's place in one.
THEOREM OrderIsNoMatter == Spec => IrrelevantChangesNothing
<1> DEFINE Kept == /\ UNCHANGED <<now, status, given>>
                   /\ IF given
                      THEN /\ UNCHANGED <<spent, live>>
                           /\ \A p \in Providers :
                                 inferred'[p] = inferred[p] \/ live[p] # NoFraction
                                 \/ Windows[p] # <<>>
                      ELSE UNCHANGED embedded
           A == Kept => /\ UNCHANGED listing => UNCHANGED chains
                        /\ ToSet(listing') = ToSet(listing)
                           => \A s \in Resolved : Models(chains'[s]) = Models(chains[s])
<1>1. IInv /\ IInv' => (Kept => ranked' = ranked)
  <2> SUFFICES ASSUME IInv, IInv', Kept PROVE ranked' = ranked
    OBVIOUS
  <2>a. CASE ~ given
    BY <2>a DEF ranked, Ranking
  <2>b. SUFFICES ASSUME given PROVE quota' = quota
    BY <2>a DEF ranked, Ranking
  <2>1. ASSUME NEW p \in Providers
        PROVE  Refresh(p, spent, live, inferred', now) = Refresh(p, spent, live, inferred, now)
    <3>1. CASE inferred'[p] = inferred[p]
      BY <3>1, Zenon DEF Refresh
    <3>2. CASE live[p] # NoFraction \/ Windows[p] # <<>>
      <4>1. Fraction \subseteq Shares
        BY RoutingAssumption DEF Fraction, Shares
      <4>2. live \in [Providers -> Shares] /\ SpentOK(spent) /\ now \in Nat
        BY <4>1, RoutingAssumption DEF IInv, WorldOK
      <4>3. MeteredState(p, spent, live, now) # NoState
        BY <3>2, <4>2, MeteredIs
      <4> QED
        BY <4>3, Zenon DEF Refresh
    <3>3. inferred'[p] = inferred[p] \/ live[p] # NoFraction \/ Windows[p] # <<>>
      BY <2>b
    <3> QED
      BY <3>1, <3>2, <3>3
  <2>2. /\ quota = [p \in Providers |-> Refresh(p, spent, live, inferred, now)]
        /\ quota' = [p \in Providers |-> Refresh(p, spent, live, inferred', now)]
    BY <2>b DEF IInv, Published, QuotaOf
  <2> QED
    BY <2>1, <2>2, Zenon
<1>2. IInv /\ IInv' /\ Resolution /\ Resolution' => A
  <2> SUFFICES ASSUME IInv, IInv', Resolution, Resolution', Kept
               PROVE  /\ UNCHANGED listing => UNCHANGED chains
                      /\ ToSet(listing') = ToSet(listing)
                         => \A s \in Resolved : Models(chains'[s]) = Models(chains[s])
    OBVIOUS
  <2>1. ranked' = ranked /\ now' = now /\ status' = status
    BY <1>1
  <2>2. ASSUME listing' = listing PROVE chains' = chains
    <3>1. /\ chains = ChainsOf(listing, ranked, status, now)
          /\ chains' = ChainsOf(listing', ranked', status', now')
      BY DEF IInv, Published, ChainsOf
    <3> QED
      BY <2>1, <2>2, <3>1
  <2>3. ASSUME ToSet(listing') = ToSet(listing), NEW s \in Resolved
        PROVE  Models(chains'[s]) = Models(chains[s])
    <3> DEFINE C == {c \in ToSet(listing) :
                       Passes(c, Requirements(s), status) /\ ~ Exhausted(ranked[c.provider])}
               T == [c \in C |-> Terms(c, s, ranked, now)]
               a == chains[s]   b == chains'[s]
    <3>1. OrderedBy(a, C, T)
      <4>1. OrderedBy(Chain(listing, Requirements(s), Env(ranked, status, now)), C, T)
        BY ChainOrdered DEF Resolution
      <4> QED
        BY <4>1 DEF Resolution
    <3>2. OrderedBy(b, C, T)
      <4> DEFINE l == listing'
      <4>1. l \in Seq(Candidates) /\ IsInjective(l) /\ ToSet(l) = ToSet(listing)
            /\ QuotaOK(ranked) /\ now \in Nat
            /\ b = Chain(l, Requirements(s), Env(ranked, status, now))
        BY <2>1, <2>3 DEF Resolution
      <4> HIDE DEF l, b
      <4>2. OrderedBy(Chain(l, Requirements(s), Env(ranked, status, now)),
                      {c \in ToSet(l) : Passes(c, Requirements(s), status)
                                          /\ ~ Exhausted(ranked[c.provider])},
                      [c \in {x \in ToSet(l) : Passes(x, Requirements(s), status)
                                                 /\ ~ Exhausted(ranked[x.provider])}
                         |-> Terms(c, s, ranked, now)])
        BY <4>1, ChainOrdered
      <4> QED
        BY <4>1, <4>2
    <3>3. \A c \in C : c \in Candidates /\ T[c][4] = c.api_model
      <4>1. \A c \in ToSet(listing) : c \in Candidates
        BY DEF Resolution, ToSet
      <4> QED
        BY <4>1 DEF Terms
    <3> HIDE DEF C, T, a, b
    <3>4. DOMAIN a = DOMAIN b /\ \A n \in DOMAIN a : a[n] \in C /\ b[n] \in C /\ T[a[n]] = T[b[n]]
      BY <3>1, <3>2, OrdersAgree
    <3>5. \A n \in DOMAIN a : a[n].api_model = b[n].api_model
      BY <3>3, <3>4
    <3>6. Models(a) = Models(b)
      BY <3>4, <3>5 DEF Models
    <3> QED
      BY <3>6 DEF a, b
  <2> QED
    BY <2>2, <2>3
<1> QED
  BY <1>2, InvariantHolds, ResolutionHolds, PTL DEF Spec, IrrelevantChangesNothing

-----------------------------------------------------------------------------
(* The limiter that a provider without a header or a window is judged by *)

\* A cut never raises a rate.
LEMMA CutLowers ==
  ASSUME NEW r \in Nat, NEW n \in 1..4
  PROVE  Cut(r, n) \in Nat /\ Cut(r, n) <= r \div 2
<1>1. CASE n = 1
  BY <1>1 DEF Cut
<1>2. CASE n = 2
  BY <1>2 DEF Cut
<1>3. CASE n = 3
  BY <1>3 DEF Cut
<1>4. CASE n = 4
  BY <1>4 DEF Cut
<1>5. QED
  BY <1>1, <1>2, <1>3, <1>4

\* The lowest refused rate leaves room below it, down to the minimum.
LEMMA CeilingType ==
  ASSUME NEW w \in Rates \cup {NoRefusal}
  PROVE  Ceiling(w) \in Rates /\ (w # NoRefusal => Ceiling(w) <= w)
<1>1. CASE w = NoRefusal
  BY <1>1, RateAssumption DEF Ceiling, Rates
<1>2. CASE w # NoRefusal
  <2>1. w \in Nat /\ w \in MinRate..MaxRate
    BY <1>2, RateAssumption DEF Rates
  <2>2. (95 * w) \div 100 \in Nat /\ (95 * w) \div 100 <= w
    BY <2>1
  <2> QED
    BY <1>2, <2>1, <2>2, RateAssumption DEF Ceiling, Larger, Rates
<1> QED
  BY <1>1, <1>2

\* Half of a rate is at most 95% of it.
LEMMA HalfBelowCeiling ==
  ASSUME NEW r \in Rates, NEW n \in 1..4
  PROVE  Larger(MinRate, Cut(r, n)) \in MinRate..r
         /\ Larger(MinRate, Cut(r, n)) <= Ceiling(r)
<1>1. Cut(r, n) \in Nat /\ Cut(r, n) <= r \div 2
  <2>1. r \in Nat
    BY RateAssumption DEF Rates
  <2> QED
    BY <2>1, CutLowers
<1>2. r \div 2 <= (95 * r) \div 100 /\ r \div 2 <= r
  BY RateAssumption DEF Rates
<1> DEFINE cut == Cut(r, n)   cap == (95 * r) \div 100
<1>3. r \in Nat /\ MinRate \in Nat /\ MinRate <= r /\ r # NoRefusal /\ cap \in Nat
  BY RateAssumption DEF Rates, NoRefusal
<1>4. Ceiling(r) = Larger(MinRate, cap)
  BY <1>3 DEF Ceiling
<1>5. cut \in Nat /\ cut <= r /\ cut <= cap
  <2> HIDE DEF cap
  <2>1. cut <= r \div 2 /\ r \div 2 \in Nat
    BY <1>1, <1>3
  <2> QED
    BY <1>1, <1>2, <1>3, <2>1 DEF cap
<1> HIDE DEF cut, cap
<1>6. Larger(MinRate, cut) \in MinRate..r /\ Larger(MinRate, cut) <= Larger(MinRate, cap)
  BY <1>3, <1>5 DEF Larger
<1> QED
  BY <1>4, <1>6 DEF cut

\* The live row and the saved one lie below the cap that each of them records.
LiveBelow == rate <= Ceiling(worst)
SavedBelow == saved.rate <= Ceiling(saved.worst)

\* Whatever this process saw refused, the row records it, or something lower.
Recorded == refused # NoRefusal => worst # NoRefusal /\ worst <= refused

LimiterInv == LimiterTypeOK /\ LiveBelow /\ SavedBelow /\ Recorded

\* The cap falls with the rate it is taken of.
LEMMA CeilingFalls ==
  ASSUME NEW v \in Rates, NEW w \in Rates, v <= w
  PROVE  Ceiling(v) <= Ceiling(w)
<1>1. v \in Nat /\ w \in Nat /\ v # NoRefusal /\ w # NoRefusal /\ MinRate \in Nat
  BY RateAssumption DEF Rates, NoRefusal
<1>2. (95 * v) \div 100 <= (95 * w) \div 100
  BY <1>1, QuotientTop
<1>3. (95 * v) \div 100 \in Nat /\ (95 * w) \div 100 \in Nat
  BY <1>1, QuotientBottom
<1> QED
  BY <1>1, <1>2, <1>3 DEF Ceiling, Larger

LEMMA UnderRefused == LimiterInv => NeverAboveRefused
<1> SUFFICES ASSUME LimiterInv, refused # NoRefusal PROVE rate <= Ceiling(refused)
  BY DEF NeverAboveRefused
<1>1. worst \in Rates /\ refused \in Rates /\ worst <= refused
  BY DEF LimiterInv, LimiterTypeOK, Recorded
<1>2. Ceiling(worst) <= Ceiling(refused)
  BY <1>1, CeilingFalls
<1>3. /\ rate <= Ceiling(worst) /\ rate \in Int
      /\ Ceiling(worst) \in Int /\ Ceiling(refused) \in Int
  BY <1>1, CeilingType, RateAssumption DEF LimiterInv, LiveBelow, LimiterTypeOK, Rates
<1> QED
  BY <1>2, <1>3

\* A refusal records the rate before the cut, so the cut rate is below the cap.
LEMMA RefusedKeeps ==
  ASSUME LimiterTypeOK, LiveBelow, Refused
  PROVE  /\ rate' \in Rates /\ streak' \in 0..4
         /\ best' \in Rates \cup {0} /\ worst' \in Rates \cup {NoRefusal}
         /\ rate' <= Ceiling(worst')
<1> DEFINE n == Smaller(streak + 1, 4)
           cut == Larger(MinRate, Cut(rate, n))
<1>1. n \in 1..4 /\ streak' = n /\ rate' = cut /\ best' = best
  BY DEF Refused, LimiterTypeOK, Smaller
<1>2. cut \in MinRate..rate /\ cut <= Ceiling(rate)
  BY <1>1, HalfBelowCeiling DEF LimiterTypeOK
<1>0. /\ cut \in Rates /\ rate \in Rates /\ worst \in Rates \cup {NoRefusal}
      /\ best \in Rates \cup {0} /\ n \in 0..4
  BY <1>1, <1>2, RateAssumption DEF LimiterTypeOK, Rates
<1> HIDE DEF n, cut
<1>3. CASE worst = NoRefusal \/ rate < worst
  <2>1. worst' = rate
    BY <1>3 DEF Refused
  <2>2. QED
    BY <1>0, <1>1, <1>2, <2>1
<1>4. CASE ~(worst = NoRefusal \/ rate < worst)
  <2>1. worst' = worst
    BY <1>4 DEF Refused
  <2>2. cut <= Ceiling(worst)
    BY <1>2, CeilingType, RateAssumption DEF LimiterTypeOK, LiveBelow, Rates
  <2>3. QED
    BY <1>0, <1>1, <2>1, <2>2
<1>5. QED
  BY <1>3, <1>4

\* And what the history remembers of it is recorded.
LEMMA RefusedRecorded ==
  ASSUME LimiterTypeOK, Recorded, Refused, Remember
  PROVE  Recorded' /\ refused' \in Rates \cup {NoRefusal}
<1>1. rate \in Nat /\ rate # NoRefusal /\ rate \in Rates
  BY RateAssumption DEF LimiterTypeOK, Rates, NoRefusal
<1>2. refused \in Rates \cup {NoRefusal} /\ worst \in Rates \cup {NoRefusal}
  BY DEF LimiterTypeOK
<1>3. /\ worst' = IF worst = NoRefusal \/ rate < worst THEN rate ELSE worst
      /\ refused' = IF refused = NoRefusal \/ rate < refused THEN rate ELSE refused
  BY DEF Refused, Remember
<1>4. \A x \in Rates : x \in Int
  BY RateAssumption DEF Rates
<1> QED
  BY <1>1, <1>2, <1>3, <1>4 DEF Recorded

\* A success climbs, but not past the cap.
LEMMA SucceededKeeps ==
  ASSUME LimiterTypeOK, LiveBelow, Succeeded
  PROVE  /\ rate' \in Rates /\ streak' \in 0..4
         /\ best' \in Rates \cup {0} /\ worst' \in Rates \cup {NoRefusal}
         /\ rate' <= Ceiling(worst') /\ rate' >= rate
<1>1. /\ worst' = worst /\ streak' = 0 /\ best' = Larger(best, rate)
      /\ rate \in Rates /\ worst \in Rates \cup {NoRefusal}
      /\ rate <= Ceiling(worst) /\ best \in Rates \cup {0}
  BY DEF Succeeded, LimiterTypeOK, LiveBelow
<1>2. CASE worst = NoRefusal
  <2>1. rate' = Larger(MinRate, Smaller(rate + Step, MaxRate))
    BY <1>2 DEF Succeeded
  <2>2. QED
    BY <1>1, <1>2, <2>1, RateAssumption DEF Larger, Smaller, Rates, Ceiling
<1>3. CASE worst # NoRefusal
  <2>1. rate' = Larger(MinRate, Smaller(Smaller(rate + Step, (95 * worst) \div 100), MaxRate))
    BY <1>3 DEF Succeeded
  <2>2. Ceiling(worst) = Larger(MinRate, (95 * worst) \div 100)
    BY <1>3 DEF Ceiling
  <2>3. (95 * worst) \div 100 \in Nat
    BY <1>1, RateAssumption DEF Rates, NoRefusal
  <2>4. QED
    BY <1>1, <2>1, <2>2, <2>3, RateAssumption DEF Larger, Smaller, Rates
<1>4. QED
  BY <1>2, <1>3

LEMMA LimiterInvariant == LimiterSpec => []LimiterInv
<1>1. LimiterInit => LimiterInv
  BY RateAssumption DEF LimiterInit, LimiterInv, LimiterTypeOK, LiveBelow, SavedBelow, Recorded,
                        Rates, Ceiling, NoRefusal
<1>2. LimiterInv /\ [LimiterNext]_limiterVars => LimiterInv'
  <2> SUFFICES ASSUME LimiterInv, [LimiterNext]_limiterVars PROVE LimiterInv'
    OBVIOUS
  <2> USE DEF LimiterInv
  <2>1. ASSUME NEW r \in 1..rate, Send(r)
        PROVE  LimiterInv'
    <3>1. CASE Refused /\ Remember
      BY <2>1, <3>1, RefusedKeeps, RefusedRecorded
         DEF Send, LimiterTypeOK, LiveBelow, SavedBelow
    <3>2. CASE Succeeded /\ UNCHANGED refused
      <4>1. Recorded'
        BY <3>2 DEF Succeeded, Recorded
      <4>2. QED
        BY <2>1, <3>2, <4>1, SucceededKeeps DEF Send, LimiterTypeOK, LiveBelow, SavedBelow
    <3>3. QED
      BY <2>1, <3>1, <3>2 DEF Send
  <2>2. CASE Overloaded
    <3>1. overloads' \in 0..MaxOverloads
      BY <2>2, RateAssumption DEF Overloaded, LimiterTypeOK
    <3>2. Refused /\ Remember /\ UNCHANGED <<saved, restarts>>
      BY <2>2 DEF Overloaded
    <3>3. QED
      BY <3>1, <3>2, RefusedKeeps, RefusedRecorded DEF LimiterTypeOK, LiveBelow, SavedBelow
  <2>3. CASE Save
    BY <2>3 DEF Save, pace, LimiterTypeOK, LiveBelow, SavedBelow, Recorded
  <2>4. CASE Restart
    <3>1. restarts' \in 0..MaxRestarts
      BY <2>4, RateAssumption DEF Restart, LimiterTypeOK
    <3>2. QED
      BY <2>4, <3>1 DEF Restart, LimiterTypeOK, LiveBelow, SavedBelow, Recorded
  <2>5. CASE UNCHANGED limiterVars
    BY <2>5 DEF limiterVars, pace, LimiterTypeOK, LiveBelow, SavedBelow, Recorded
  <2>6. QED
    BY <2>1, <2>2, <2>3, <2>4, <2>5 DEF LimiterNext
<1>3. QED
  BY <1>1, <1>2, PTL DEF LimiterSpec

\* Type correctness: the rate stays between the floor and the ceiling.
THEOREM LimiterTypeCorrect == LimiterSpec => []LimiterTypeOK
<1>1. LimiterInv => LimiterTypeOK
  BY DEF LimiterInv
<1>2. QED
  BY <1>1, LimiterInvariant, PTL

\* Within one life of the process the pace stays under 95% of the lowest rate it
\* was refused at, or at the minimum, whatever row it was started from.
THEOREM StaysUnderRefused == LimiterSpec => []NeverAboveRefused
<1>1. QED
  BY UnderRefused, LimiterInvariant, PTL

\* A success never lowers the pace, however close to a refused rate it is.
THEOREM SuccessMonotone == LimiterSpec => SuccessNeverSlows
<1>1. LimiterInv /\ [LimiterNext]_limiterVars =>
        [\A r \in 1..rate : r <= TrueLimit /\ Send(r) => rate' >= rate]_limiterVars
  <2> SUFFICES ASSUME LimiterInv, NEW r \in 1..rate, r <= TrueLimit, Send(r)
               PROVE  rate' >= rate
    OBVIOUS
  <2>1. Succeeded
    BY RateAssumption DEF Send, LimiterInv, LimiterTypeOK, Rates
  <2>2. QED
    BY <2>1, SucceededKeeps DEF LimiterInv
<1>2. QED
  BY <1>1, LimiterInvariant, PTL DEF LimiterSpec, SuccessNeverSlows
==============================================================================
