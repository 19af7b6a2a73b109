-------------------------- MODULE CatalogueProofs --------------------------
(***************************************************************************)
(* The catalogue and its prices, for any shop, edits, rows, imports and    *)
(* requests that are what the handlers let in (CAAssumption).              *)
(*                                                                         *)
(* Two arguments meet.  Whatever a calculation prices, in any catalogue of *)
(* the right shape, is sound: the minimum holds, the tiers cover the job,  *)
(* the sheets can be cut.  And every handler keeps that shape, and at most *)
(* one default VAT rate.  The greedy stack and the import of many rows are *)
(* recursive functions, so each is shown to be an entry of a table that    *)
(* exists for every length, and followed by induction on the length.       *)
(***************************************************************************)
EXTENDS Catalogue, FiniteSetTheorems, WellFoundedInduction, TLAPS

(**************************************************************************)
(* Numbers.                                                               *)
(**************************************************************************)

\* A non-empty set of natural numbers has a least member: of the intervals
\* from zero to a member, which are finite sets, one has no smaller one.
LEMMA Least ==
  ASSUME NEW S \in SUBSET Nat, S # {}
  PROVE  \E n \in S : \A m \in S : n <= m
<1> DEFINE Upto(n) == 0..n
           T == {Upto(n) : n \in S}
           F == FiniteSubsetsOf(Nat)
           R == StrictSubsetOrdering(Nat)
<1>1. T \subseteq F /\ T # {}
  <2>1. \A n \in S : Upto(n) \in SUBSET Nat /\ IsFiniteSet(Upto(n))
    BY FS_Interval
  <2> HIDE DEF Upto
  <2> QED BY <2>1 DEF FiniteSubsetsOf
<1>2. IsWellFoundedOn(R, F)
  BY FS_StrictSubsetOrderingWellFounded
<1>3. PICK U \in T : \A V \in T : ~ (<<V, U>> \in R)
  <2> HIDE DEF T, R, F
  <2> QED BY <1>1, <1>2, WFMin
<1>4. PICK n \in S : U = Upto(n)
  OBVIOUS
<1>5. ASSUME NEW m \in S, m < n PROVE FALSE
  <2>1. Upto(m) \subseteq Upto(n) /\ n \in Upto(n) /\ n \notin Upto(m)
    BY <1>5
  <2>2. Upto(m) \in SUBSET Nat /\ Upto(n) \in SUBSET Nat
    OBVIOUS
  <2>3. <<Upto(m), Upto(n)>> \in R
    <3> HIDE DEF Upto
    <3> QED BY <2>1, <2>2 DEF StrictSubsetOrdering
  <2> QED BY <1>3, <1>4, <2>3
<1> QED BY <1>5

\* Min finds it.
LEMMA MinOf ==
  ASSUME NEW S \in SUBSET Nat, S # {}
  PROVE  Min(S) \in S /\ \A m \in S : Min(S) <= m
<1>1. \A x, y : x =< y <=> x <= y
  OBVIOUS
<1> QED BY Least DEF Min

\* A set of numbers with a bound has a greatest member, and Max finds it.
LEMMA MaxOf ==
  ASSUME NEW n \in Nat, NEW S \in SUBSET (0..n), S # {}
  PROVE  Max(S) \in S /\ \A m \in S : m <= Max(S)
<1> DEFINE T == {n - m : m \in S}
<1>1. T \in SUBSET Nat /\ T # {}
  <2>1. \A m \in S : n - m \in Nat
    OBVIOUS
  <2> QED BY <2>1
<1>2. PICK t \in T : \A u \in T : t <= u
  <2> HIDE DEF T
  <2> QED BY <1>1, Least
<1>3. PICK x \in S : t = n - x
  OBVIOUS
<1>4. \A m \in S : x >= m
  <2> SUFFICES ASSUME NEW m \in S PROVE x >= m
    OBVIOUS
  <2>1. n - m \in T
    OBVIOUS
  <2>2. n - x <= n - m
    BY <2>1, <1>2, <1>3
  <2> QED BY <2>2
<1>5. Max(S) \in S /\ \A m \in S : Max(S) >= m
  BY <1>4 DEF Max
<1> QED BY <1>5

\* Induction over the natural numbers, for a set that is closed.
LEMMA ByInduction ==
  ASSUME NEW S \in SUBSET Nat, 0 \in S, \A n \in S : n + 1 \in S
  PROVE  S = Nat
<1>1. SUFFICES ASSUME Nat \ S # {} PROVE FALSE
  OBVIOUS
<1>2. PICK n \in Nat \ S : \A m \in Nat \ S : n <= m
  BY <1>1, Least
<1>3. n # 0 /\ n - 1 \in Nat /\ n - 1 \in S
  BY <1>2
<1> QED BY <1>2, <1>3

\* What whole division leaves is less than the divisor.
LEMMA Division ==
  ASSUME NEW a \in Int, NEW b \in Nat \ {0}
  PROVE  /\ a \div b \in Int
         /\ (a \div b) * b <= a
         /\ a < (a \div b) * b + b
<1>1. a \div b \in Int
  OBVIOUS
<1>2. a = b * (a \div b) + (a % b) /\ a % b \in 0..(b - 1)
  BY Z3
<1>3. b * (a \div b) \in Int /\ (a \div b) * b = b * (a \div b)
  BY <1>1
<1> QED BY <1>1, <1>2, <1>3

\* What is rounded is a whole number.
LEMMA Rounding ==
  ASSUME NEW n \in Int, NEW d \in Nat \ {0}
  PROVE  Rounded(n, d) \in Int
BY Division DEF Rounded

\* Scaling keeps the order.
LEMMA Scaled ==
  ASSUME NEW a \in Int, NEW b \in Int, NEW d \in Nat, a <= b
  PROVE  a * d <= b * d
<1>1. (b - a) * d >= 0
  <2>1. b - a \in Nat
    OBVIOUS
  <2>2. \A m, n \in Nat : m * n \in Nat
    OBVIOUS
  <2>3. (b - a) * d \in Nat
    BY <2>1, <2>2
  <2> QED BY <2>3
<1>2. (b - a) * d = b * d - a * d
  OBVIOUS
<1>3. a * d \in Int /\ b * d \in Int
  OBVIOUS
<1> QED BY <1>1, <1>2, <1>3

\* So many of a size d hold n.
LEMMA Ceiling ==
  ASSUME NEW n \in Nat \ {0}, NEW d \in Nat \ {0}
  PROVE  /\ CeilDiv(n, d) \in Nat \ {0}
         /\ CeilDiv(n, d) * d >= n
<1>1. n + d - 1 \in Int
  OBVIOUS
<1> DEFINE c == (n + d - 1) \div d
<1>2. c \in Int /\ c * d <= n + d - 1 /\ n + d - 1 < c * d + d
  BY <1>1, Division
<1> HIDE DEF c
<1>3. c * d >= n
  BY <1>2
<1>4. c > 0
  <2>1. CASE c <= 0
    <3>1. c \in Int /\ 0 \in Int /\ d \in Nat /\ c <= 0
      BY <2>1, <1>2
    <3>2. c * d <= 0 * d
      BY <3>1, Scaled
    <3>3. 0 * d = 0
      OBVIOUS
    <3> QED BY <3>2, <3>3, <1>2, <1>3
  <2> QED BY <2>1, <1>2
<1> QED BY <1>2, <1>3, <1>4 DEF CeilDiv, c

\* A grid that holds n, on c sheets, need have no more than n rows or columns.
LEMMA Capped ==
  ASSUME NEW c \in Nat \ {0}, NEW x \in Nat \ {0}, NEW y \in Nat \ {0}, NEW n \in Nat \ {0},
         c * (x * y) >= n
  PROVE  \E u \in 1..n, v \in 1..n : u <= x /\ v <= y /\ c * u * v >= n
<1>1. CASE x >= n
  <2>1. 1 \in 1..n /\ n \in 1..n /\ 1 <= y
    OBVIOUS
  <2>2. c * n * 1 >= n
    <3>1. 1 * n <= c * n
      BY Scaled
    <3> QED BY <3>1
  <2> QED BY <1>1, <2>1, <2>2
<1>2. CASE y >= n
  <2>1. 1 \in 1..n /\ n \in 1..n /\ 1 <= x
    OBVIOUS
  <2>2. c * 1 * n >= n
    <3>1. 1 * n <= c * n
      BY Scaled
    <3> QED BY <3>1
  <2> QED BY <1>2, <2>1, <2>2
<1>3. CASE ~ (x >= n) /\ ~ (y >= n)
  <2>1. x \in 1..n /\ y \in 1..n
    BY <1>3
  <2>2. c * x * y = c * (x * y)
    OBVIOUS
  <2> QED BY <2>1, <2>2
<1> QED BY <1>1, <1>2, <1>3

(**************************************************************************)
(* Tiers.                                                                 *)
(**************************************************************************)

\* The quantities and prices of the tiers of one size.
LEMMA LadderIs ==
  ASSUME NEW p, NEW spec, IsTiers(p.tiers)
  PROVE  /\ Ladder(p, spec) \subseteq Nat \ {0}
         /\ \A t \in Ladder(p, spec) : p.tiers[<<spec, t>>] \in Int
<1> SUFFICES ASSUME NEW t \in Ladder(p, spec)
             PROVE  t \in Nat \ {0} /\ p.tiers[<<spec, t>>] \in Int
  OBVIOUS
<1>1. PICK u \in DOMAIN p.tiers : u[1] = spec /\ t = u[2]
  BY DEF Ladder
<1>2. u = <<u[1], u[2]>> /\ u[2] \in Nat \ {0} /\ p.tiers[u] \in Int
  BY DEF IsTiers
<1>3. u = <<spec, t>>
  BY <1>1, <1>2
<1> QED BY <1>1, <1>2, <1>3

\* The smallest tier is a tier, and so is the largest that fits.
LEMMA LadderEnds ==
  ASSUME NEW p, NEW spec, IsTiers(p.tiers), Ladder(p, spec) # {}
  PROVE  /\ Min(Ladder(p, spec)) \in Ladder(p, spec)
         /\ \A n \in Nat : Fitting(p, spec, n) # {} =>
              /\ Max(Fitting(p, spec, n)) \in Ladder(p, spec)
              /\ Max(Fitting(p, spec, n)) \in 1..n
<1>1. Ladder(p, spec) \subseteq Nat \ {0}
  BY LadderIs
<1>2. Min(Ladder(p, spec)) \in Ladder(p, spec)
  BY <1>1, MinOf
<1>3. ASSUME NEW n \in Nat, Fitting(p, spec, n) # {}
      PROVE  /\ Max(Fitting(p, spec, n)) \in Ladder(p, spec)
             /\ Max(Fitting(p, spec, n)) \in 1..n
  <2>1. Fitting(p, spec, n) \in SUBSET (0..n) /\ Fitting(p, spec, n) \subseteq Ladder(p, spec)
    BY <1>1 DEF Fitting
  <2>2. Max(Fitting(p, spec, n)) \in Fitting(p, spec, n)
    BY <1>3, <2>1, MaxOf
  <2> QED BY <1>1, <2>1, <2>2
<1> QED BY <1>2, <1>3

\* The greedy stacks of all quantities up to one.
Table(f, p, spec, want, base) ==
  f = [n \in 0..want |->
         IF n = 0 THEN Nothing
         ELSE IF Fitting(p, spec, n) = {} THEN One(p, spec, Min(Ladder(p, spec)), base)
         ELSE Plus(One(p, spec, Max(Fitting(p, spec, n)), base),
                   f[n - Max(Fitting(p, spec, n))])]

\* The greedy stacks of all quantities up to one exist: a longer table goes on
\* from a shorter one.
LEMMA TablesExist ==
  ASSUME NEW p, NEW spec, IsTiers(p.tiers), Ladder(p, spec) # {}, NEW base, NEW want \in Nat
  PROVE  \E f : Table(f, p, spec, want, base)
<1> DEFINE S == {m \in Nat : \E f : Table(f, p, spec, m, base)}
           t(n) == Max(Fitting(p, spec, n))
           next(f, n) == IF n = 0 THEN Nothing
                         ELSE IF Fitting(p, spec, n) = {} THEN One(p, spec, Min(Ladder(p, spec)), base)
                         ELSE Plus(One(p, spec, t(n), base), f[n - t(n)])
<1>1. 0 \in S
  <2>1. Table([n \in 0..0 |-> Nothing], p, spec, 0, base)
    BY DEF Table
  <2> QED BY <2>1
<1>2. ASSUME NEW m \in S PROVE m + 1 \in S
  <2>1. PICK g : Table(g, p, spec, m, base)
    OBVIOUS
  <2>2. g = [n \in 0..m |-> next(g, n)]
    BY <2>1 DEF Table
  <2> DEFINE h == [n \in 0..(m + 1) |-> next(g, n)]
  <2>3. \A n \in 0..m : h[n] = g[n]
    <3> HIDE DEF next
    <3> QED BY <2>2
  <2>4. ASSUME NEW n \in 0..(m + 1) PROVE h[n] = next(h, n)
    <3>1. n # 0 /\ Fitting(p, spec, n) # {} => n - t(n) \in 0..m
      <4>1. n \in Nat /\ (Fitting(p, spec, n) # {} => t(n) \in 1..n)
        BY LadderEnds
      <4> HIDE DEF t
      <4> QED BY <4>1
    <3>2. n # 0 /\ Fitting(p, spec, n) # {} => h[n - t(n)] = g[n - t(n)]
      <4> HIDE DEF h, t
      <4> QED BY <3>1, <2>3
    <3>3. h[n] = next(g, n)
      OBVIOUS
    <3> HIDE DEF h, t
    <3> QED BY <3>2, <3>3
  <2>5. Table(h, p, spec, m + 1, base)
    <3>1. h = [n \in 0..(m + 1) |-> h[n]]
      OBVIOUS
    <3>2. [n \in 0..(m + 1) |-> h[n]] = [n \in 0..(m + 1) |-> next(h, n)]
      <4> HIDE DEF h, next
      <4> QED BY <2>4
    <3>3. h = [n \in 0..(m + 1) |-> next(h, n)]
      BY <3>1, <3>2
    <3> HIDE DEF h
    <3> QED BY <3>3 DEF Table
  <2> HIDE DEF h
  <2> QED BY <2>5
<1>3. S = Nat
  <2> HIDE DEF S
  <2>1. S \in SUBSET Nat
    BY DEF S
  <2> QED BY <1>1, <1>2, <2>1, ByInduction
<1> QED BY <1>3

\* The stack is an entry of such a table.
LEMMA FillIsTabled ==
  ASSUME NEW p, NEW spec, IsTiers(p.tiers), Ladder(p, spec) # {}, NEW base, NEW want \in Nat
  PROVE  \E f : Table(f, p, spec, want, base) /\ Fill(p, spec, want, base) = f[want]
<1> DEFINE f == CHOOSE f : Table(f, p, spec, want, base)
<1>1. Table(f, p, spec, want, base)
  <2>1. \E g : Table(g, p, spec, want, base)
    BY TablesExist
  <2> QED BY <2>1
<1>2. Fill(p, spec, want, base) = f[want]
  BY DEF Fill, Table
<1> HIDE DEF f
<1> QED BY <1>1, <1>2

\* A base that a price may be for.
Bases == (Nat \ {0}) \cup {None}

\* One tier, and what it costs.
LEMMA OneIs ==
  ASSUME NEW p, NEW spec, IsTiers(p.tiers), NEW base \in Bases, NEW t \in Ladder(p, spec)
  PROVE  One(p, spec, t, base).qty = t /\ One(p, spec, t, base).cost \in Int
<1>1. t \in Nat \ {0} /\ p.tiers[<<spec, t>>] \in Int
  BY LadderIs
<1>2. TierCost(p, spec, t, base) \in Int
  <2>1. p.tiers[<<spec, t>>] * t \in Int
    BY <1>1
  <2> QED BY <1>1, <2>1, Rounding DEF TierCost, Bases
<1> QED BY <1>2 DEF One

\* The stack holds what was asked for, and less than one smallest tier more.
LEMMA Filling ==
  ASSUME NEW p, NEW spec, IsTiers(p.tiers), Ladder(p, spec) # {}, NEW base \in Bases,
         NEW want \in Nat
  PROVE  LET s == Fill(p, spec, want, base)
         IN  /\ s.qty \in Nat /\ s.cost \in Int
             /\ s.qty >= want /\ s.qty - want < Min(Ladder(p, spec))
<1> DEFINE least == Min(Ladder(p, spec))
<1>1. PICK f : Table(f, p, spec, want, base) /\ Fill(p, spec, want, base) = f[want]
  BY FillIsTabled
<1>2. least \in Ladder(p, spec) /\ least \in Nat \ {0}
  BY LadderEnds, LadderIs
<1> DEFINE Good(n) == /\ f[n].qty \in Nat /\ f[n].cost \in Int
                      /\ f[n].qty >= n /\ f[n].qty - n < least
           S == {m \in Nat : \A n \in 0..m : n <= want => Good(n)}
<1>3. \A n \in 0..want :
        f[n] = IF n = 0 THEN Nothing
               ELSE IF Fitting(p, spec, n) = {} THEN One(p, spec, least, base)
               ELSE Plus(One(p, spec, Max(Fitting(p, spec, n)), base),
                         f[n - Max(Fitting(p, spec, n))])
  <2> HIDE DEF least
  <2> QED BY <1>1 DEF Table, least
<1> HIDE DEF least
<1>4. 0 \in S
  <2>1. f[0] = Nothing
    BY <1>3
  <2>2. Good(0)
    BY <2>1, <1>2 DEF Nothing
  <2> HIDE DEF Good
  <2> QED BY <2>2
<1>5. ASSUME NEW m \in S PROVE m + 1 \in S
  <2>1. m \in Nat /\ \A n \in 0..m : n <= want => Good(n)
    OBVIOUS
  <2> DEFINE n == m + 1
             t == Max(Fitting(p, spec, n))
  <2>2. n \in Nat \ {0}
    BY <2>1
  <2>3. ASSUME n <= want PROVE Good(n)
    <3>1. n \in 0..want
      BY <2>2, <2>3
    <3>2. CASE Fitting(p, spec, n) = {}
      <4>1. f[n] = One(p, spec, least, base)
        <5> HIDE DEF n
        <5> QED BY <1>3, <2>2, <3>1, <3>2
      <4>2. f[n].qty = least /\ f[n].cost \in Int
        BY <4>1, <1>2, OneIs
      <4>3. n < least
        <5>1. ~ (least <= n)
          BY <3>2, <1>2 DEF Fitting
        <5> QED BY <5>1, <1>2, <2>2
      <4> HIDE DEF n
      <4> QED BY <4>2, <4>3, <1>2, <2>2
    <3>3. CASE Fitting(p, spec, n) # {}
      <4>1. t \in Ladder(p, spec) /\ t \in 1..n
        <5> HIDE DEF n
        <5> QED BY <2>2, <3>3, LadderEnds
      <4>2. n - t \in 0..m /\ n - t <= want
        <5> HIDE DEF t
        <5> QED BY <4>1, <2>1, <2>3
      <4>3. Good(n - t)
        <5> HIDE DEF Good, t, n
        <5> QED BY <2>1, <4>2
      <4>4. f[n] = Plus(One(p, spec, t, base), f[n - t])
        <5> HIDE DEF n
        <5> QED BY <1>3, <2>2, <3>1, <3>3
      <4>5. One(p, spec, t, base).qty = t /\ One(p, spec, t, base).cost \in Int
        <5> HIDE DEF t
        <5> QED BY <4>1, OneIs
      <4>6. f[n].qty = t + f[n - t].qty /\ f[n].cost \in Int
        <5> HIDE DEF t, n
        <5> QED BY <4>3, <4>4, <4>5 DEF Plus
      <4> HIDE DEF t, n
      <4> QED BY <4>1, <4>3, <4>6, <1>2, <2>2
    <3> QED BY <3>2, <3>3
  <2>4. ASSUME NEW k \in 0..n, k <= want PROVE Good(k)
    <3>1. k \in 0..m \/ k = n
      BY <2>1
    <3> HIDE DEF Good, n
    <3> QED BY <3>1, <2>1, <2>3, <2>4
  <2>5. n \in Nat
    BY <2>2
  <2> HIDE DEF Good, n
  <2>6. n \in S
    BY <2>4, <2>5
  <2> QED BY <2>6 DEF n
<1>6. S = Nat
  <2> HIDE DEF S
  <2>1. S \in SUBSET Nat
    BY DEF S
  <2> QED BY <1>4, <1>5, <2>1, ByInduction
<1>7. Good(want)
  <2>1. want \in S
    BY <1>6
  <2> HIDE DEF Good
  <2> QED BY <2>1
<1> QED BY <1>1, <1>7 DEF least

\* What is billed for a stack.
LEMMA Stacking ==
  ASSUME NEW p, NEW spec, IsTiers(p.tiers), NEW base \in Bases,
         NEW want \in Nat, Stacked(p, spec, want, base) # None
  PROVE  LET s == Stacked(p, spec, want, base)
         IN  /\ s.qty \in Nat /\ s.cost \in Int
             /\ s.qty >= want /\ s.qty - want < Min(Ladder(p, spec))
<1>1. Ladder(p, spec) # {} /\ Stacked(p, spec, want, base) = Fill(p, spec, want, base)
  BY DEF Stacked, TooFar
<1> QED BY <1>1, Filling

(**************************************************************************)
(* Each calculation, when it gives a price.                               *)
(**************************************************************************)

\* An answer whose price is a whole number of cents, multiplied and floored.
Sums(c, p, r) == \E ex \in Int : r.ex = Adjusted(c, p, ex)

\* A stack covers a job when it holds it, with less than one tier over.
Covers(p, spec, n, r) == r.billed >= n /\ r.billed - n < Min(Ladder(p, spec))

\* A refusal has no price.
LEMMA RefusedIs == \A m : Refused(m).priced = FALSE
BY DEF Refused

\* What is priced is no refusal.
LEMMA NotRefused ==
  ASSUME NEW r, r.priced, NEW m
  PROVE  r # Refused(m)
<1>1. SUFFICES ASSUME r = Refused(m) PROVE FALSE
  OBVIOUS
<1>2. r.priced = FALSE
  BY <1>1, RefusedIs
<1> QED BY <1>2

\* Prices per batch: booklets, and large format by size.
LEMMA BatchPriced ==
  ASSUME NEW c, NEW p, NEW q, NEW spec, IsTiers(p.tiers), q.qty \in Nat,
         BatchPrice(c, p, q, spec).priced
  PROVE  /\ Sums(c, p, BatchPrice(c, p, q, spec))
         /\ Covers(p, spec, q.qty, BatchPrice(c, p, q, spec))
         /\ BatchPrice(c, p, q, spec).sheets = None
<1> DEFINE s == Stacked(p, spec, q.qty, None)
           r == BatchPrice(c, p, q, spec)
<1>1. s # None /\ r = Priced(c, p, q, s.cost, s.cost, s.qty, None)
  <2>1. r = IF s = None THEN Refused(FALSE)
            ELSE Priced(c, p, q, s.cost, s.cost, s.qty, None)
    BY DEF BatchPrice
  <2>2. r # Refused(TRUE) /\ r # Refused(FALSE)
    BY NotRefused
  <2> HIDE DEF s, r
  <2> QED BY <2>1, <2>2
<1>2. r.ex = Adjusted(c, p, s.cost) /\ r.billed = s.qty /\ r.sheets = None
  <2> HIDE DEF s, r
  <2> QED BY <1>1 DEF Priced
<1>3. /\ s.qty \in Nat /\ s.cost \in Int
      /\ s.qty >= q.qty /\ s.qty - q.qty < Min(Ladder(p, spec))
  BY <1>1, Stacking DEF Bases
<1> HIDE DEF s, r
<1> QED BY <1>2, <1>3 DEF Sums, Covers, r

\* A surcharge is a rule or none.
LEMMA SurchargeIs ==
  ASSUME NEW c, IsCatalogue(c), NEW name \in RuleNames, NEW p
  PROVE  Surcharge(c, name, p).amount \in Int
<1>1. c.rules[name] # None => c.rules[name].amount \in Int
  BY DEF IsCatalogue, Rules
<1> QED BY <1>1 DEF Surcharge, NoSurcharge

\* Surcharges leave a whole number of cents.
LEMMA SurchargesAre ==
  ASSUME NEW c, IsCatalogue(c), NEW p, NEW q, NEW base \in Int
  PROVE  Surcharged(base, Surcharges(c, p, q)) \in Int
<1> DEFINE s == Surcharges(c, p, q)
<1>1. s[1].amount \in Int /\ s[2].amount \in Int
  <2>1. NoSurcharge.amount \in Int
    BY DEF NoSurcharge
  <2>2. \A name \in {"double_sided", "soft_touch", "triplicate"} : Surcharge(c, name, p).amount \in Int
    BY SurchargeIs, CAAssumption
  <2>3. s[1].amount \in Int
    BY <2>1, <2>2 DEF Surcharges
  <2>4. s[2].amount \in Int
    BY <2>1, <2>2 DEF Surcharges
  <2> QED BY <2>3, <2>4
<1> HIDE DEF s
<1> DEFINE factor(n) == IF s[n].kind = "additive" THEN 100 ELSE 100 + s[n].amount
           flat(n) == IF s[n].kind = "additive" THEN s[n].amount ELSE 0
<1>2. factor(1) \in Int /\ factor(2) \in Int /\ flat(1) \in Int /\ flat(2) \in Int
  BY <1>1
<1> HIDE DEF factor, flat
<1>3. Rounded(base * factor(1) * factor(2), 10000) \in Int
  <2>1. base * factor(1) * factor(2) \in Int
    BY <1>2
  <2> QED BY <2>1, Rounding
<1>4. Surcharged(base, s) = Rounded(base * factor(1) * factor(2), 10000) + flat(1) + flat(2)
  BY DEF Surcharged, factor, flat
<1> QED BY <1>2, <1>3, <1>4 DEF s

\* Small format.
LEMMA SmallPriced ==
  ASSUME NEW c, IsCatalogue(c), NEW p, IsProduct(p), NEW q, q.qty \in Nat,
         SmallFormat(c, p, q).priced
  PROVE  /\ Sums(c, p, SmallFormat(c, p, q))
         /\ Covers(p, "", q.qty, SmallFormat(c, p, q))
         /\ SmallFormat(c, p, q).sheets = None
<1> DEFINE s == Stacked(p, "", q.qty, UnitBase(p))
           r == SmallFormat(c, p, q)
           ex == Surcharged(s.cost, Surcharges(c, p, q))
<1>1. s # None /\ r = Priced(c, p, q, s.cost, ex, s.qty, None)
  <2>1. r = IF s = None \/ ~ FinishFits(p, q.finish) THEN Refused(FALSE)
            ELSE Priced(c, p, q, s.cost, ex, s.qty, None)
    BY DEF SmallFormat
  <2>2. r # Refused(TRUE) /\ r # Refused(FALSE)
    BY NotRefused
  <2> HIDE DEF s, r, ex
  <2> QED BY <2>1, <2>2
<1>2. r.ex = Adjusted(c, p, ex) /\ r.billed = s.qty /\ r.sheets = None
  <2> HIDE DEF s, r, ex
  <2> QED BY <1>1 DEF Priced
<1>3. IsTiers(p.tiers) /\ p.base \in Bases
  <2>1. Fits("tiers", p.tiers) /\ Fits("base", p.base)
    BY DEF IsProduct, Columns
  <2> QED BY <2>1 DEF Fits, Bases, Whole
<1>4. UnitBase(p) \in Bases
  BY <1>3 DEF UnitBase, Bases
<1>5. /\ s.qty \in Nat /\ s.cost \in Int
      /\ s.qty >= q.qty /\ s.qty - q.qty < Min(Ladder(p, ""))
  BY <1>1, <1>3, <1>4, Stacking
<1> HIDE DEF s
<1>6. ex \in Int
  BY <1>5, SurchargesAre
<1> HIDE DEF ex, r
<1> QED BY <1>2, <1>5, <1>6 DEF Sums, Covers, r

\* What the columns of a product hold, one by one.
LEMMA ColumnsHold ==
  ASSUME NEW p, IsProduct(p)
  PROVE  /\ \A f \in Whole : p[f] \in Int \cup {None}
         /\ IsTiers(p.tiers) /\ p.base \in Bases /\ p.yield \in Nat \cup {None}
         /\ p.size # None => p.size[1] \in Int /\ p.size[2] \in Int
         /\ p.sheet # None => p.sheet.w \in Int /\ p.sheet.h \in Int
         /\ p.key \in Keys /\ p.category \in Categories
         /\ p.review \in BOOLEAN /\ p.dims \in BOOLEAN
<1>1. \A f \in Columns : Fits(f, p[f])
  BY DEF IsProduct
<1>2. \A f \in Whole : p[f] \in Int \cup {None}
  BY <1>1 DEF Fits, Whole, Columns
<1>3. IsTiers(p.tiers)
  BY <1>1 DEF Fits, Whole, Columns
<1>4. p.base \in Bases /\ p.yield \in Nat \cup {None}
  BY <1>1 DEF Fits, Whole, Columns, Bases
<1>5. p.size # None => p.size[1] \in Int /\ p.size[2] \in Int
  BY <1>1 DEF Fits, Whole, Columns
<1>6. p.sheet # None => p.sheet.w \in Int /\ p.sheet.h \in Int
  BY <1>1 DEF Fits, Whole, Columns
<1>7. p.key \in Keys /\ p.category \in Categories
  BY <1>1 DEF Fits, Whole, Columns
<1>8. p.review \in BOOLEAN /\ p.dims \in BOOLEAN
  BY <1>1 DEF Fits, Whole, Columns
<1> QED BY <1>2, <1>3, <1>4, <1>5, <1>6, <1>7, <1>8

\* Areas are whole numbers.
LEMMA AreaIs ==
  ASSUME NEW p, IsProduct(p), NEW q, IsRequest(q)
  PROVE  Area(p, q) \in Int /\ BilledArea(p, q) \in Int
<1>1. q.qty \in Int /\ q.w \in Int \cup {None} /\ q.h \in Int \cup {None}
      /\ q.area \in Int \cup {None}
  BY DEF IsRequest
<1>2. /\ p.yield \in Nat \cup {None} /\ p.min_area \in Int \cup {None}
      /\ p.size # None => p.size[1] \in Int /\ p.size[2] \in Int
  BY ColumnsHold DEF Whole
<1>3. Given(q.w) /\ Given(q.h) => Rounded(q.qty * q.w * q.h, 100) \in Int
  <2> SUFFICES ASSUME Given(q.w), Given(q.h) PROVE Rounded(q.qty * q.w * q.h, 100) \in Int
    OBVIOUS
  <2>1. q.qty * q.w * q.h \in Int
    BY <1>1 DEF Given
  <2> QED BY <2>1, Rounding
<1>4. p.size # None => Rounded(q.qty * p.size[1] * p.size[2], 100) \in Int
  <2> SUFFICES ASSUME p.size # None PROVE Rounded(q.qty * p.size[1] * p.size[2], 100) \in Int
    OBVIOUS
  <2>1. q.qty * p.size[1] * p.size[2] \in Int
    BY <1>1, <1>2
  <2> QED BY <2>1, Rounding
<1>5. Given(p.yield) => Rounded(q.qty * SquareMetre, p.yield) \in Int
  <2> SUFFICES ASSUME Given(p.yield) PROVE Rounded(q.qty * SquareMetre, p.yield) \in Int
    OBVIOUS
  <2>1. q.qty * SquareMetre \in Int /\ p.yield \in Nat \ {0}
    BY <1>1, <1>2 DEF Given, SquareMetre
  <2> QED BY <2>1, Rounding
<1>6. Given(q.area) => q.area \in Int
  BY <1>1 DEF Given
<1>7. Area(p, q) \in Int
  BY <1>3, <1>4, <1>5, <1>6 DEF Area
<1> QED BY <1>2, <1>7 DEF BilledArea, Given

\* So is the price of a metre.
LEMMA MetreIs ==
  ASSUME NEW p, IsProduct(p), NEW area \in Int
  PROVE  MetrePrice(p, area) \in Int
<1>1. p.bulk \in Int \cup {None} /\ p.unit \in Int \cup {None}
  BY ColumnsHold DEF Whole
<1> QED BY <1>1 DEF MetrePrice

\* Large format by area.
LEMMA SqmPriced ==
  ASSUME NEW c, NEW p, IsProduct(p), NEW q, IsRequest(q), PerSqm(c, p, q).priced
  PROVE  Sums(c, p, PerSqm(c, p, q)) /\ PerSqm(c, p, q).sheets = None
<1> DEFINE area == BilledArea(p, q)
           ex == Rounded(area * MetrePrice(p, area), SquareMetre)
           r == PerSqm(c, p, q)
<1>1. r = Priced(c, p, q, MetrePrice(p, area), ex, q.qty, None)
  <2>1. \/ r = Priced(c, p, q, MetrePrice(p, area), ex, q.qty, None)
        \/ r = Refused(TRUE)
    BY DEF PerSqm
  <2>2. r # Refused(TRUE) /\ r # Refused(FALSE)
    BY NotRefused
  <2> HIDE DEF r, ex, area
  <2> QED BY <2>1, <2>2
<1>2. r.ex = Adjusted(c, p, ex) /\ r.sheets = None
  <2> HIDE DEF area, r, ex
  <2> QED BY <1>1 DEF Priced
<1>3. ex \in Int
  <2>1. area \in Int
    BY AreaIs
  <2> HIDE DEF area
  <2>2. MetrePrice(p, area) \in Int
    BY <2>1, MetreIs
  <2>3. area * MetrePrice(p, area) \in Int /\ SquareMetre \in Nat \ {0}
    BY <2>1, <2>2 DEF SquareMetre
  <2> QED BY <2>3, Rounding
<1> HIDE DEF ex, r
<1> QED BY <1>2, <1>3 DEF Sums, r

\* Large format by the piece.
LEMMA PiecePriced ==
  ASSUME NEW c, NEW p, IsProduct(p), NEW q, IsRequest(q), PerPiece(c, p, q).priced
  PROVE  Sums(c, p, PerPiece(c, p, q)) /\ PerPiece(c, p, q).sheets = None
<1> DEFINE unit == PieceRate(p, q.qty)
           r == PerPiece(c, p, q)
<1>1. unit # None /\ r = Priced(c, p, q, unit, unit * q.qty, q.qty, None)
  <2>1. \/ unit # None /\ r = Priced(c, p, q, unit, unit * q.qty, q.qty, None)
        \/ r = Refused(TRUE) \/ r = Refused(FALSE)
    BY DEF PerPiece
  <2>2. r # Refused(TRUE) /\ r # Refused(FALSE)
    BY NotRefused
  <2> HIDE DEF r, unit
  <2> QED BY <2>1, <2>2
<1>2. r.ex = Adjusted(c, p, unit * q.qty) /\ r.sheets = None
  <2> HIDE DEF unit, r
  <2> QED BY <1>1 DEF Priced
<1>3. unit * q.qty \in Int
  <2>1. p.bulk \in Int \cup {None} /\ p.unit \in Int \cup {None}
    BY ColumnsHold DEF Whole
  <2>2. unit \in Int
    BY <1>1, <2>1 DEF PieceRate
  <2> HIDE DEF unit
  <2> QED BY <2>2 DEF IsRequest
<1> HIDE DEF unit, r
<1> QED BY <1>2, <1>3 DEF Sums, r

(**************************************************************************)
(* Sheets.                                                                *)
(**************************************************************************)

\* Some grid of n panels, on so many sheets.
Grids(panel, sheet, sheets, n) ==
  \E rows, cols \in 0..n :
    CanCut(panel, sheet, rows, cols) /\ sheets * rows * cols >= n

\* A grid of y rows and x columns fills a sheet.
Fills(pw, ph, sw, sh, x, y) ==
  /\ UnitsPerSheet(pw, ph, sw, sh) = x * y
  /\ CanCut(<<pw, ph>>, <<sw, sh>>, y, x)

\* The panels a sheet takes are a grid that lies within it.
LEMMA UnitsAre ==
  ASSUME NEW pw \in Int, NEW ph \in Int, NEW sw \in Int, NEW sh \in Int,
         UnitsPerSheet(pw, ph, sw, sh) # 0
  PROVE  /\ pw > 0 /\ ph > 0
         /\ \E x, y \in Nat \ {0} : Fills(pw, ph, sw, sh, x, y)
<1>1. pw > 0 /\ ph > 0 /\ sw > 0 /\ sh > 0
  BY DEF UnitsPerSheet
<1> DEFINE a == sw \div pw
           b == sh \div ph
           c == sw \div ph
           d == sh \div pw
<1>2. /\ a \in Int /\ a * pw <= sw /\ sw < a * pw + pw
      /\ b \in Int /\ b * ph <= sh /\ sh < b * ph + ph
      /\ c \in Int /\ c * ph <= sw /\ sw < c * ph + ph
      /\ d \in Int /\ d * pw <= sh /\ sh < d * pw + pw
  <2>1. pw \in Nat \ {0} /\ ph \in Nat \ {0}
    BY <1>1
  <2> QED BY <2>1, Division
<1>3. UnitsPerSheet(pw, ph, sw, sh) = Max({a * b, c * d})
  BY <1>1 DEF UnitsPerSheet
<1> HIDE DEF a, b, c, d
<1>4. ASSUME NEW x \in Int, NEW z \in Int, NEW w \in Int, w > 0, z > 0, z < x * w + w
      PROVE  x \in Nat
  <2>1. CASE x < 0
    <3>1. x <= 0 - 1 /\ w \in Nat /\ 0 - 1 \in Int
      BY <2>1, <1>4
    <3>2. x * w <= (0 - 1) * w
      BY <3>1, Scaled
    <3> QED BY <3>2, <1>4
  <2> QED BY <2>1
<1>5. a \in Nat /\ b \in Nat /\ c \in Nat /\ d \in Nat
  BY <1>1, <1>2, <1>4
<1>6. Max({a * b, c * d}) \in {a * b, c * d}
  <2>1. a * b \in Nat /\ c * d \in Nat
    BY <1>5
  <2> DEFINE m == a * b + c * d
             S == {a * b, c * d}
  <2>2. m \in Nat /\ S \in SUBSET (0..m) /\ S # {}
    BY <2>1
  <2> HIDE DEF m, S
  <2>3. Max(S) \in S
    BY <2>2, MaxOf
  <2> QED BY <2>3 DEF S
<1>7. CASE Max({a * b, c * d}) = a * b
  <2>1. a # 0 /\ b # 0
    BY <1>3, <1>5, <1>7
  <2>2. CanCut(<<pw, ph>>, <<sw, sh>>, b, a)
    BY <1>2 DEF CanCut
  <2> QED BY <1>1, <1>3, <1>5, <1>7, <2>1, <2>2 DEF Fills
<1>8. CASE Max({a * b, c * d}) = c * d
  <2>1. c # 0 /\ d # 0
    BY <1>3, <1>5, <1>8
  <2>2. CanCut(<<pw, ph>>, <<sw, sh>>, d, c)
    BY <1>2 DEF CanCut
  <2> QED BY <1>1, <1>3, <1>5, <1>8, <2>1, <2>2 DEF Fills
<1> QED BY <1>6, <1>7, <1>8

\* Enough sheets of such a grid hold the job.
LEMMA Cutting ==
  ASSUME NEW pw \in Int, NEW ph \in Int, NEW sw \in Int, NEW sh \in Int,
         UnitsPerSheet(pw, ph, sw, sh) # 0, NEW n \in Nat \ {0}, NEW sheets \in Nat \ {0},
         sheets * UnitsPerSheet(pw, ph, sw, sh) >= n
  PROVE  Grids(<<pw, ph>>, <<sw, sh>>, sheets, n)
<1>1. PICK x \in Nat \ {0}, y \in Nat \ {0} : Fills(pw, ph, sw, sh, x, y)
  BY UnitsAre
<1>2. pw > 0 /\ ph > 0
  BY UnitsAre
<1>3. sheets * (y * x) >= n
  BY <1>1 DEF Fills
<1>4. PICK u \in 1..n, v \in 1..n : u <= y /\ v <= x /\ sheets * u * v >= n
  BY <1>3, Capped
<1>5. /\ v * pw <= x * pw /\ u * ph <= y * ph
      /\ v * ph <= x * ph /\ u * pw <= y * pw
  <2>1. pw \in Nat /\ ph \in Nat /\ u \in Int /\ v \in Int /\ x \in Int /\ y \in Int
    BY <1>2
  <2> QED BY <1>4, <2>1, Scaled
<1>6. CanCut(<<pw, ph>>, <<sw, sh>>, u, v)
  <2>1. \/ x * pw <= sw /\ y * ph <= sh
        \/ x * ph <= sw /\ y * pw <= sh
    BY <1>1 DEF Fills, CanCut
  <2>2. /\ v * pw \in Int /\ x * pw \in Int /\ u * ph \in Int /\ y * ph \in Int
        /\ v * ph \in Int /\ x * ph \in Int /\ u * pw \in Int /\ y * pw \in Int
    OBVIOUS
  <2>3. \/ v * pw <= sw /\ u * ph <= sh
        \/ v * ph <= sw /\ u * pw <= sh
    BY <1>5, <2>1, <2>2
  <2> QED BY <2>3 DEF CanCut
<1>7. u \in 0..n /\ v \in 0..n
  OBVIOUS
<1> QED BY <1>4, <1>6, <1>7 DEF Grids

\* The number of panels is a whole number.
LEMMA UnitsInt ==
  ASSUME NEW pw \in Int, NEW ph \in Int, NEW sw \in Int, NEW sh \in Int,
         UnitsPerSheet(pw, ph, sw, sh) # 0
  PROVE  UnitsPerSheet(pw, ph, sw, sh) \in Nat \ {0}
<1>1. PICK x \in Nat \ {0}, y \in Nat \ {0} : Fills(pw, ph, sw, sh, x, y)
  BY UnitsAre
<1>2. x * y \in Nat /\ x * y # 0
  OBVIOUS
<1> QED BY <1>1, <1>2 DEF Fills

\* Large format by the sheet.
LEMMA SheetPriced ==
  ASSUME NEW c, NEW p, IsProduct(p), NEW q, IsRequest(q), q.qty \in Nat \ {0},
         PerSheet(c, p, q).priced
  PROVE  /\ Sums(c, p, PerSheet(c, p, q))
         /\ Grids(<<q.w, q.h>>, <<p.sheet.w, p.sheet.h>>, PerSheet(c, p, q).sheets, q.qty)
<1> DEFINE units == UnitsPerSheet(q.w, q.h, p.sheet.w, p.sheet.h)
           sheets == CeilDiv(q.qty, units)
           r == PerSheet(c, p, q)
<1>1. /\ Given(q.w) /\ Given(q.h) /\ p.sheet # None /\ Given(p.sheet_price) /\ units # 0
      /\ r = Priced(c, p, q, p.sheet_price, sheets * p.sheet_price, sheets * units, sheets)
  <2>1. \/ /\ Given(q.w) /\ Given(q.h) /\ p.sheet # None /\ Given(p.sheet_price) /\ units # 0
           /\ r = Priced(c, p, q, p.sheet_price, sheets * p.sheet_price, sheets * units, sheets)
        \/ r = Refused(TRUE)
    BY DEF PerSheet
  <2>2. r # Refused(TRUE)
    BY NotRefused
  <2> HIDE DEF r, units, sheets
  <2> QED BY <2>1, <2>2
<1>2. r.ex = Adjusted(c, p, sheets * p.sheet_price) /\ r.sheets = sheets
  <2> HIDE DEF r, units, sheets
  <2> QED BY <1>1 DEF Priced
<1>3. q.w \in Int /\ q.h \in Int
  BY <1>1 DEF IsRequest, Given
<1>4. p.sheet.w \in Int /\ p.sheet.h \in Int /\ p.sheet_price \in Int
  BY <1>1, ColumnsHold DEF Whole, Given
<1>5. units \in Nat \ {0}
  BY <1>1, <1>3, <1>4, UnitsInt
<1>6. sheets \in Nat \ {0} /\ sheets * units >= q.qty
  <2> HIDE DEF units
  <2> QED BY <1>5, Ceiling
<1>7. Grids(<<q.w, q.h>>, <<p.sheet.w, p.sheet.h>>, sheets, q.qty)
  <2> HIDE DEF sheets
  <2> QED BY <1>1, <1>3, <1>4, <1>6, Cutting
<1>8. sheets * p.sheet_price \in Int
  <2> HIDE DEF sheets
  <2> QED BY <1>4, <1>6
<1> HIDE DEF units, sheets, r
<1> QED BY <1>2, <1>7, <1>8 DEF Sums, r

\* Large format by tiers of whole sheets.
LEMMA LaydownPriced ==
  ASSUME NEW c, IsCatalogue(c), NEW p, IsProduct(p), NEW q, q.w \in Int, q.h \in Int,
         q.qty \in Nat \ {0}, Laydown(c, p, q).priced
  PROVE  /\ Sums(c, p, Laydown(c, p, q))
         /\ Grids(<<Bled(c, q.w), Bled(c, q.h)>>, Usable(c, p.sheet),
                  Laydown(c, p, q).sheets, q.qty)
<1> DEFINE u == Usable(c, p.sheet)
           pw == Bled(c, q.w)
           ph == Bled(c, q.h)
           n == SheetsFor(c, p, q)
           s == Stacked(p, p.sheet.spec, n, None)
           r == Laydown(c, p, q)
<1>1. /\ p.sheet # None /\ n # 0 /\ s # None
      /\ r = Priced(c, p, q, s.cost, s.cost, q.qty, s.qty)
  <2>1. \/ /\ p.sheet # None /\ n # 0 /\ s # None
           /\ r = Priced(c, p, q, s.cost, s.cost, q.qty, s.qty)
        \/ r = Refused(FALSE)
    BY DEF Laydown
  <2>2. r # Refused(FALSE)
    BY NotRefused
  <2> HIDE DEF r, s, n
  <2> QED BY <2>1, <2>2
<1>2. r.ex = Adjusted(c, p, s.cost) /\ r.sheets = s.qty
  <2> HIDE DEF r, s, n
  <2> QED BY <1>1 DEF Priced
<1>3. pw \in Int /\ ph \in Int /\ u[1] \in Int /\ u[2] \in Int /\ u = <<u[1], u[2]>>
  <2>1. /\ c.laydown.bleed \in Int /\ c.laydown.side \in Int
        /\ c.laydown.front \in Int /\ c.laydown.back \in Int
    BY DEF IsCatalogue
  <2>2. p.sheet.w \in Int /\ p.sheet.h \in Int
    BY <1>1, ColumnsHold
  <2>3. pw \in Int /\ ph \in Int
    BY <2>1 DEF Bled
  <2>4. u[1] \in Int /\ u[2] \in Int
    BY <2>1, <2>2 DEF Usable
  <2>5. u = <<u[1], u[2]>>
    BY DEF Usable
  <2> QED BY <2>3, <2>4, <2>5
<1> DEFINE units == UnitsPerSheet(pw, ph, u[1], u[2])
<1>4. units # 0 /\ n = CeilDiv(q.qty, units)
  BY <1>1 DEF SheetsFor
<1> HIDE DEF pw, ph, u
<1>5. units \in Nat \ {0}
  BY <1>3, <1>4, UnitsInt
<1>6. n \in Nat \ {0} /\ n * units >= q.qty
  <2> HIDE DEF units, n
  <2> QED BY <1>4, <1>5, Ceiling
<1>7. s.qty \in Nat /\ s.cost \in Int /\ s.qty >= n
  <2>1. IsTiers(p.tiers) /\ None \in Bases
    BY ColumnsHold DEF Bases
  <2> HIDE DEF n
  <2> QED BY <1>1, <1>6, <2>1, Stacking
<1> HIDE DEF n, s, units, r
<1>8. s.qty \in Nat \ {0} /\ s.qty * units >= q.qty
  <2>1. n * units <= s.qty * units
    BY <1>5, <1>6, <1>7, Scaled
  <2>2. n * units \in Int /\ s.qty * units \in Int
    BY <1>5, <1>6, <1>7
  <2> QED BY <1>6, <1>7, <2>1, <2>2
<1>9. Grids(<<pw, ph>>, u, s.qty, q.qty)
  <2>1. Grids(<<pw, ph>>, <<u[1], u[2]>>, s.qty, q.qty)
    BY <1>3, <1>4, <1>8, Cutting DEF units
  <2> QED BY <1>3, <2>1
<1> QED BY <1>2, <1>7, <1>9 DEF Sums, r, pw, ph, u

(**************************************************************************)
(* The tools.                                                             *)
(**************************************************************************)

\* What an answer to q for product p must be if it has a price.
Sound(c, q, p, r) ==
  /\ Sums(c, p, r)
  /\ (q.tool = "large_format" => q.size # None /\ p.strategy = "tiered") =>
       Covers(p, IF q.tool = "small_format" THEN "" ELSE q.size, q.qty, r)
  /\ r.sheets # None =>
       Grids(Panels(c, <<q, p, r>>), Sheet(c, <<q, p, r>>), r.sheets, q.qty)

\* Large format, whichever calculation the product has.
LEMMA LargePriced ==
  ASSUME NEW c, IsCatalogue(c), NEW p, IsProduct(p), NEW q, IsRequest(q),
         q.qty \in Nat \ {0}, q.tool = "large_format", LargeFormat(c, p, q).priced
  PROVE  Sound(c, q, p, LargeFormat(c, p, q))
<1> DEFINE r == LargeFormat(c, p, q)
           a == <<q, p, r>>
<1>1. CASE p.strategy \in {"per_sqm", "per_unit_metric"}
  <2>1. r = PerSqm(c, p, q)
    BY <1>1 DEF LargeFormat
  <2>2. Sums(c, p, r) /\ r.sheets = None
    <3> HIDE DEF r
    <3> QED BY <2>1, SqmPriced DEF r
  <2>3. p.strategy # "tiered"
    BY <1>1
  <2> HIDE DEF r
  <2> QED BY <2>2, <2>3 DEF Sound, r
<1>2. CASE p.strategy = "per_sheet"
  <2>1. r = PerSheet(c, p, q)
    BY <1>2 DEF LargeFormat
  <2>2. Sums(c, p, r) /\ Grids(<<q.w, q.h>>, <<p.sheet.w, p.sheet.h>>, r.sheets, q.qty)
    <3> HIDE DEF r
    <3> QED BY <2>1, SheetPriced DEF r
  <2>3. Panels(c, a) = <<q.w, q.h>> /\ Sheet(c, a) = <<p.sheet.w, p.sheet.h>>
    <3> HIDE DEF r
    <3> QED BY <1>2 DEF Panels, Sheet
  <2>4. p.strategy # "tiered"
    BY <1>2
  <2> HIDE DEF r
  <2> QED BY <2>2, <2>3, <2>4 DEF Sound, r
<1>3. CASE p.strategy = "tiered"
  <2>1. r = Tiered(c, p, q)
    BY <1>3 DEF LargeFormat
  <2>2. CASE q.size # None
    <3>1. r = BatchPrice(c, p, q, q.size)
      BY <2>1, <2>2 DEF Tiered
    <3>2. IsTiers(p.tiers) /\ r.priced
      BY ColumnsHold
    <3> HIDE DEF r
    <3>3. Sums(c, p, r) /\ Covers(p, q.size, q.qty, r) /\ r.sheets = None
      BY <3>1, <3>2, BatchPriced
    <3> QED BY <3>3 DEF Sound, r
  <2>3. CASE q.size = None
    <3>1. Given(q.w) /\ Given(q.h) /\ r = Laydown(c, p, q)
      <4>1. \/ Given(q.w) /\ Given(q.h) /\ r = Laydown(c, p, q)
            \/ r = Refused(FALSE)
        BY <2>1, <2>3 DEF Tiered
      <4>2. r # Refused(FALSE)
        BY NotRefused
      <4> QED BY <4>1, <4>2
    <3>2. q.w \in Int /\ q.h \in Int /\ r.priced
      BY <3>1 DEF IsRequest, Given
    <3>3. /\ Panels(c, a) = <<Bled(c, q.w), Bled(c, q.h)>>
          /\ Sheet(c, a) = Usable(c, p.sheet)
      <4> HIDE DEF r
      <4> QED BY <1>3 DEF Panels, Sheet
    <3> HIDE DEF r
    <3>4. /\ Sums(c, p, r)
          /\ Grids(<<Bled(c, q.w), Bled(c, q.h)>>, Usable(c, p.sheet), r.sheets, q.qty)
      BY <3>1, <3>2, LaydownPriced
    <3> QED BY <2>3, <3>3, <3>4 DEF Sound, r
  <2> QED BY <2>2, <2>3
<1>4. CASE p.strategy \notin {"per_sqm", "per_unit_metric", "per_sheet", "tiered"}
  <2>1. r = PerPiece(c, p, q)
    BY <1>4 DEF LargeFormat
  <2>2. Sums(c, p, r) /\ r.sheets = None
    <3> HIDE DEF r
    <3> QED BY <2>1, PiecePriced DEF r
  <2>3. p.strategy # "tiered"
    BY <1>4
  <2> HIDE DEF r
  <2> QED BY <2>2, <2>3 DEF Sound, r
<1> QED BY <1>1, <1>2, <1>3, <1>4

\* What has a price went through the checks at the head of a tool.
LEMMA Checked ==
  ASSUME NEW c, IsCatalogue(c), NEW q, IsRequest(q), Quote(c, q).priced
  PROVE  LET p == c.products[q.key]
         IN  /\ p # None /\ p.category = q.tool /\ ~ p.review
             /\ q.qty \in Nat \ {0} /\ ~ TooMany(p, q.qty)
             /\ Quote(c, q) = CASE q.tool = "small_format" -> SmallFormat(c, p, q)
                                [] q.tool = "large_format" -> LargeFormat(c, p, q)
                                [] q.tool = "booklet" -> BatchPrice(c, p, q, q.size)
<1> DEFINE p == c.products[q.key]
           r == Quote(c, q)
           calc == CASE q.tool = "small_format" -> SmallFormat(c, p, q)
                     [] q.tool = "large_format" -> LargeFormat(c, p, q)
                     [] q.tool = "booklet" -> BatchPrice(c, p, q, q.size)
<1>1. r # Refused(TRUE) /\ r # Refused(FALSE)
  BY NotRefused
<1>2. r = IF p = None THEN Refused(FALSE)
          ELSE IF p.category # q.tool THEN Refused(FALSE)
          ELSE IF p.review THEN Refused(TRUE)
          ELSE IF q.qty <= 0 THEN Refused(FALSE)
          ELSE IF TooMany(p, q.qty) THEN Refused(TRUE)
          ELSE calc
  BY DEF Quote
<1>3. q.qty \in Int
  BY DEF IsRequest
<1> HIDE DEF r, p, calc
<1>4. p # None /\ p.category = q.tool /\ ~ p.review /\ ~ (q.qty <= 0)
      /\ ~ TooMany(p, q.qty) /\ r = calc
  BY <1>1, <1>2
<1>5. q.qty \in Nat \ {0}
  BY <1>3, <1>4
<1> QED BY <1>4, <1>5 DEF r, p, calc

\* Whatever has a price is sound.
LEMMA QuoteSound ==
  ASSUME NEW c, IsCatalogue(c), NEW q, IsRequest(q), Quote(c, q).priced
  PROVE  /\ Sound(c, q, c.products[q.key], Quote(c, q))
         /\ c.products[q.key] # None /\ IsProduct(c.products[q.key])
<1> DEFINE p == c.products[q.key]
           r == Quote(c, q)
<1>1. p # None /\ q.qty \in Nat \ {0}
  BY Checked
<1>2. IsProduct(p) /\ q.tool \in Tools
  BY <1>1 DEF IsCatalogue, IsRequest
<1>3. r = CASE q.tool = "small_format" -> SmallFormat(c, p, q)
            [] q.tool = "large_format" -> LargeFormat(c, p, q)
            [] q.tool = "booklet" -> BatchPrice(c, p, q, q.size)
  BY Checked
<1>4. r.priced
  OBVIOUS
<1> HIDE DEF p, r
<1>5. CASE q.tool = "small_format"
  <2>1. r = SmallFormat(c, p, q)
    BY <1>3, <1>5
  <2>2. Sums(c, p, r) /\ Covers(p, "", q.qty, r) /\ r.sheets = None
    BY <1>1, <1>2, <1>4, <2>1, SmallPriced
  <2> QED BY <1>1, <1>2, <1>5, <2>2 DEF Sound, p, r
<1>6. CASE q.tool = "large_format"
  <2>1. r = LargeFormat(c, p, q)
    BY <1>3, <1>6
  <2>2. Sound(c, q, p, r)
    BY <1>1, <1>2, <1>4, <1>6, <2>1, LargePriced
  <2> QED BY <1>1, <1>2, <2>2 DEF p, r
<1>7. CASE q.tool = "booklet"
  <2>1. r = BatchPrice(c, p, q, q.size)
    BY <1>3, <1>7
  <2>2. IsTiers(p.tiers)
    BY <1>2, ColumnsHold
  <2>3. Sums(c, p, r) /\ Covers(p, q.size, q.qty, r) /\ r.sheets = None
    BY <1>1, <1>4, <2>1, <2>2, BatchPriced
  <2> QED BY <1>1, <1>2, <1>7, <2>3 DEF Sound, p, r
<1> QED BY <1>2, <1>5, <1>6, <1>7 DEF Tools

\* The price is at least the minimum.
LEMMA FloorHolds ==
  ASSUME NEW c, NEW p, IsProduct(p), NEW r, Sums(c, p, r), Given(p.floor)
  PROVE  r.ex >= p.floor
<1>1. PICK ex \in Int : r.ex = Adjusted(c, p, ex)
  BY DEF Sums
<1>2. p.floor \in Int
  BY ColumnsHold DEF Whole, Given
<1> DEFINE x == Rounded(ex * ClientMultiplier(c), 100)
<1>3. x \in Int
  <2>1. ClientMultiplier(c) \in Int
    BY DEF ClientMultiplier
  <2>2. ex * ClientMultiplier(c) \in Int
    BY <2>1
  <2> QED BY <2>2, Rounding
<1>4. r.ex = Floored(p, x)
  BY <1>1 DEF Adjusted
<1> HIDE DEF x
<1> QED BY <1>2, <1>3, <1>4 DEF Floored

\* Where a person is needed there is no price.
LEMMA PersonFirst ==
  ASSUME NEW c, IsCatalogue(c), NEW q, IsRequest(q), c.products[q.key] # None,
         NeedsAPerson(q, c.products[q.key])
  PROVE  ~ Quote(c, q).priced
<1> SUFFICES ASSUME Quote(c, q).priced PROVE FALSE
  OBVIOUS
<1> DEFINE p == c.products[q.key]
           r == Quote(c, q)
<1>1. ~ p.review /\ ~ TooMany(p, q.qty) /\ q.qty \in Nat \ {0}
  BY Checked
<1>2. ByArea(p) /\ SizeUnknown(q, p)
  BY <1>1 DEF NeedsAPerson
<1>3. r = LargeFormat(c, p, q)
  BY <1>2, Checked DEF SizeUnknown
<1> HIDE DEF p
<1>4. r = PerSqm(c, p, q)
  BY <1>2, <1>3 DEF LargeFormat, ByArea
<1>5. Area(p, q) = 0
  BY <1>2 DEF Area, SizeUnknown
<1>6. r = Refused(TRUE)
  BY <1>4, <1>5 DEF PerSqm
<1>7. r.priced
  OBVIOUS
<1> HIDE DEF r
<1> QED BY <1>6, <1>7, NotRefused

(**************************************************************************)
(* Products.                                                              *)
(**************************************************************************)

\* Lists have a length and places.
LEMMA ListIs ==
  ASSUME NEW b, IsList(b)
  PROVE  Len(b) \in Nat /\ DOMAIN b = 1..Len(b)
BY DEF IsList

\* A row makes a product, with the columns it gives.
LEMMA MadeIs ==
  ASSUME NEW row, IsRow(row)
  PROVE  /\ IsProduct(Made(row)) /\ Made(row).key = row["key"]
         /\ row["key"] \in Keys /\ row["category"] \in Categories
         /\ Made(row).category = row["category"]
         /\ \A f \in DOMAIN row \ {"tiers"} : Made(row)[f] = row[f] /\ row[f] # None
<1>1. /\ "key" \in DOMAIN row /\ "category" \in DOMAIN row
      /\ DOMAIN row \subseteq Columns
      /\ \A f \in DOMAIN row \ {"tiers"} : Fits(f, row[f]) /\ row[f] # None
  BY DEF IsRow
<1> DEFINE list == IF "tiers" \in DOMAIN row THEN row["tiers"] ELSE <<>>
<1>2. IsTiers(TiersOf(list))
  <2>1. \A n \in DOMAIN list : IsTier(list[n])
    <3>1. DOMAIN << >> = {}
      OBVIOUS
    <3> QED BY <3>1 DEF IsRow
  <2> HIDE DEF list
  <2> DEFINE T == TiersOf(list)
             D == {<<list[n][1], list[n][2]>> : n \in DOMAIN list}
  <2>2. DOMAIN T = D /\ \A t \in D :
          T[t] = list[CHOOSE n \in DOMAIN list : <<list[n][1], list[n][2]>> = t][3]
    BY DEF TiersOf
  <2>3. ASSUME NEW t \in D
        PROVE  t = <<t[1], t[2]>> /\ t[2] \in Nat \ {0} /\ T[t] \in Int
    <3>1. PICK n \in DOMAIN list : <<list[n][1], list[n][2]>> = t
      OBVIOUS
    <3> DEFINE m == CHOOSE i \in DOMAIN list : <<list[i][1], list[i][2]>> = t
    <3>2. m \in DOMAIN list
      BY <3>1
    <3>3. T[t] = list[m][3]
      BY <2>2
    <3> HIDE DEF m, T
    <3> QED BY <2>1, <3>1, <3>2, <3>3 DEF IsTier
  <2> HIDE DEF T, D
  <2> QED BY <2>2, <2>3 DEF IsTiers, T
<1>3. DOMAIN Made(row) = Columns
  BY DEF Made
<1>4. Made(row).tiers = TiersOf(list)
  BY DEF Made, Columns
<1>5. \A f \in DOMAIN row \ {"tiers"} : Made(row)[f] = row[f]
  BY <1>1 DEF Made
<1>6. \A f \in Columns \ (DOMAIN row \cup {"tiers"}) : Made(row)[f] = Default[f]
  BY DEF Made
<1>7. ASSUME NEW f \in Columns \ {"key", "category", "tiers"} PROVE Fits(f, Default[f])
  <2>1. CASE f \in Whole
    <3>1. Default[f] \in Int \cup {None}
      <4>1. CASE f = "min_qty"
        BY <4>1 DEF Default, Columns
      <4>2. CASE f \in Whole \ {"min_qty"}
        <5>1. Default[f] = None
          BY <4>2 DEF Default, Whole, Columns
        <5> QED BY <5>1
      <4> QED BY <2>1, <4>1, <4>2
    <3> QED BY <2>1, <3>1 DEF Fits, Whole
  <2>2. CASE f \in {"review", "dims"}
    <3>1. Default[f] = FALSE
      BY <2>2 DEF Default, Columns
    <3> QED BY <2>2, <3>1 DEF Fits, Whole
  <2>3. CASE f \in {"base", "yield", "size", "sheet"}
    <3>1. Default[f] = None
      BY <2>3 DEF Default, Columns
    <3> QED BY <2>3, <3>1 DEF Fits, Whole
  <2>4. CASE f \in {"strategy", "unit", "sided", "finishes"}
    BY <2>1, <2>4 DEF Fits, Whole
  <2> QED BY <2>1, <2>2, <2>3, <2>4 DEF Columns, Whole
<1>8. ASSUME NEW f \in Columns PROVE Fits(f, Made(row)[f])
  <2>1. CASE f = "tiers"
    BY <1>2, <1>4, <2>1 DEF Fits, Whole
  <2>2. CASE f # "tiers" /\ f \in DOMAIN row
    BY <1>1, <1>5, <2>2
  <2>3. CASE f # "tiers" /\ f \notin DOMAIN row
    BY <1>1, <1>6, <1>7, <2>3
  <2> QED BY <2>1, <2>2, <2>3
<1>9. Fits("key", row["key"]) /\ Fits("category", row["category"])
  BY <1>1
<1>10. row["key"] \in Keys /\ row["category"] \in Categories
  BY <1>9 DEF Fits, Whole
<1> QED BY <1>1, <1>3, <1>5, <1>8, <1>10 DEF IsProduct

\* A row that updates a product leaves one, with the columns it gives and
\* exactly its tiers.
LEMMA UpdatedIs ==
  ASSUME NEW p, IsProduct(p), NEW row, IsRow(row)
  PROVE  /\ IsProduct(Updated(p, row)) /\ Updated(p, row).key = p.key
         /\ Updated(p, row).tiers = Made(row).tiers
         /\ \A f \in DOMAIN row \ {"key", "tiers"} : Updated(p, row)[f] = row[f]
<1>1. /\ \A f \in Columns : Fits(f, p[f]) /\ Fits(f, Made(row)[f])
      /\ \A f \in DOMAIN row \ {"tiers"} : Made(row)[f] = row[f] /\ row[f] # None
  BY MadeIs DEF IsProduct
<1>2. DOMAIN Updated(p, row) = Columns
  BY DEF Updated
<1>3. \A f \in Columns : Updated(p, row)[f] = IF f \in Written(row) THEN Made(row)[f] ELSE p[f]
  BY DEF Updated
<1>4. Updated(p, row).key = p.key
  BY <1>3 DEF Written, Columns
<1>5. Updated(p, row).tiers = Made(row).tiers
  BY <1>3 DEF Written, Columns
<1>6. ASSUME NEW f \in DOMAIN row \ {"key", "tiers"} PROVE Updated(p, row)[f] = row[f]
  <2>1. f \in Columns \ {"finishes"}
    BY DEF IsRow
  <2>2. f \in Written(row)
    BY <1>1, <2>1 DEF Written
  <2> QED BY <1>1, <1>3, <2>1, <2>2
<1> QED BY <1>1, <1>2, <1>3, <1>4, <1>5, <1>6 DEF IsProduct

\* A product is put in its place and nowhere else.
LEMMA PutIs ==
  ASSUME NEW c, IsCatalogue(c), NEW p, IsProduct(p)
  PROVE  /\ IsCatalogue(PutProduct(c, p)) /\ PutProduct(c, p).rates = c.rates
         /\ \A k \in Keys : PutProduct(c, p).products[k] = IF k = p.key THEN p ELSE c.products[k]
<1> DEFINE d == PutProduct(c, p)
<1>1. p.key \in Keys
  BY DEF IsProduct, Fits, Columns, Whole
<1>2. /\ DOMAIN c = {"products", "categories", "rules", "rates", "taxes", "mult",
                     "artwork", "laydown"}
      /\ DOMAIN c.products = Keys
  BY DEF IsCatalogue
<1>3. /\ DOMAIN d = DOMAIN c /\ DOMAIN d.products = Keys
      /\ \A k \in Keys : d.products[k] = IF k = p.key THEN p ELSE c.products[k]
      /\ d.categories = c.categories /\ d.rules = c.rules /\ d.rates = c.rates
      /\ d.taxes = c.taxes /\ d.laydown = c.laydown
  BY <1>1, <1>2 DEF PutProduct
<1> HIDE DEF d
<1>4. IsCatalogue(d)
  BY <1>3 DEF IsCatalogue
<1> QED BY <1>3, <1>4 DEF d

\* Making categories changes nothing else.
LEMMA EnsuredIs ==
  ASSUME NEW c, IsCatalogue(c), NEW G, G \subseteq Categories
  PROVE  LET d == [c EXCEPT !.categories = @ \cup G]
         IN  /\ IsCatalogue(d) /\ d.rates = c.rates /\ d.products = c.products
<1> DEFINE d == [c EXCEPT !.categories = @ \cup G]
<1>1. DOMAIN c = {"products", "categories", "rules", "rates", "taxes", "mult",
                     "artwork", "laydown"}
  BY DEF IsCatalogue
<1>2. /\ DOMAIN d = DOMAIN c /\ d.products = c.products
      /\ d.categories = c.categories \cup G /\ d.rules = c.rules /\ d.rates = c.rates
      /\ d.taxes = c.taxes /\ d.laydown = c.laydown
  BY <1>1
<1> HIDE DEF d
<1>3. IsCatalogue(d)
  BY <1>2 DEF IsCatalogue
<1> QED BY <1>2, <1>3 DEF d

(**************************************************************************)
(* The import of products.                                                *)
(**************************************************************************)

\* A list of rows.
IsBatch(b) == IsList(b) /\ \A n \in DOMAIN b : IsRow(b[n])

\* The catalogues that an import of m rows goes through.
Course(f, c, batch, policy, m) ==
  f = [n \in 0..m |->
         IF n = 0 THEN WithCategories(c, batch)
         ELSE Imported(f[n - 1], batch[n], Says(f[n - 1], batch, n, policy))]

\* Such a course exists: a longer one goes on from a shorter one.
LEMMA CoursesExist ==
  ASSUME NEW c, NEW batch, NEW policy, NEW m \in Nat
  PROVE  \E f : Course(f, c, batch, policy, m)
<1> DEFINE S == {k \in Nat : \E f : Course(f, c, batch, policy, k)}
           next(f, n) == IF n = 0 THEN WithCategories(c, batch)
                         ELSE Imported(f[n - 1], batch[n], Says(f[n - 1], batch, n, policy))
<1>1. 0 \in S
  <2>1. Course([n \in 0..0 |-> WithCategories(c, batch)], c, batch, policy, 0)
    BY DEF Course
  <2> QED BY <2>1
<1>2. ASSUME NEW k \in S PROVE k + 1 \in S
  <2>1. PICK g : Course(g, c, batch, policy, k)
    OBVIOUS
  <2>2. g = [n \in 0..k |-> next(g, n)]
    BY <2>1 DEF Course
  <2> DEFINE h == [n \in 0..(k + 1) |-> next(g, n)]
  <2>3. \A n \in 0..k : h[n] = g[n]
    <3> HIDE DEF next
    <3> QED BY <2>2
  <2>4. ASSUME NEW n \in 0..(k + 1) PROVE h[n] = next(h, n)
    <3>1. n # 0 => n - 1 \in 0..k
      OBVIOUS
    <3>2. n # 0 => h[n - 1] = g[n - 1]
      <4> HIDE DEF h
      <4> QED BY <3>1, <2>3
    <3>3. h[n] = next(g, n)
      OBVIOUS
    <3> HIDE DEF h
    <3> QED BY <3>2, <3>3
  <2>5. Course(h, c, batch, policy, k + 1)
    <3>1. h = [n \in 0..(k + 1) |-> h[n]]
      OBVIOUS
    <3>2. [n \in 0..(k + 1) |-> h[n]] = [n \in 0..(k + 1) |-> next(h, n)]
      <4> HIDE DEF h, next
      <4> QED BY <2>4
    <3>3. h = [n \in 0..(k + 1) |-> next(h, n)]
      BY <3>1, <3>2
    <3> HIDE DEF h
    <3> QED BY <3>3 DEF Course
  <2> HIDE DEF h
  <2> QED BY <2>5
<1>3. S = Nat
  <2> HIDE DEF S
  <2>1. S \in SUBSET Nat
    BY DEF S
  <2> QED BY <1>1, <1>2, <2>1, ByInduction
<1> QED BY <1>3

\* The import ends where its course does.
LEMMA ImportRuns ==
  ASSUME NEW c, NEW batch, IsBatch(batch), NEW policy
  PROVE  \E f : /\ Course(f, c, batch, policy, Len(batch))
                /\ AllImported(c, batch, policy) = f[Len(batch)]
<1> DEFINE f == CHOOSE f : Course(f, c, batch, policy, Len(batch))
<1>1. Course(f, c, batch, policy, Len(batch))
  <2>1. \E g : Course(g, c, batch, policy, Len(batch))
    BY CoursesExist, ListIs DEF IsBatch
  <2> QED BY <2>1
<1>2. AllImported(c, batch, policy) = f[Len(batch)]
  BY DEF AllImported, Course
<1> HIDE DEF f
<1> QED BY <1>1, <1>2

\* What an import makes of a row's product.
Outcome(c, row) ==
  IF c.products[row["key"]] = None THEN Made(row) ELSE Updated(c.products[row["key"]], row)

\* The row is written.
Wrote(c, batch, policy, n) == Says(c, batch, n, policy) \in {"created", "updated"}

\* What is said of a row depends on the product of its key.
LEMMA SaysIs ==
  ASSUME NEW c, NEW d, NEW batch, NEW n, NEW policy,
         Repeated(batch, n) \/ d.products[batch[n]["key"]] = c.products[batch[n]["key"]]
  PROVE  /\ Says(d, batch, n, policy) = Says(c, batch, n, policy)
         /\ Says(c, batch, n, policy) \in Outcomes
         /\ Repeated(batch, n) => ~ Wrote(c, batch, policy, n)
         /\ Says(c, batch, n, policy) = "created" => c.products[batch[n]["key"]] = None
         /\ Says(c, batch, n, policy) = "updated" => c.products[batch[n]["key"]] # None
<1>1. CASE Repeated(batch, n)
  <2>1. Says(c, batch, n, policy) = "failed" /\ Says(d, batch, n, policy) = "failed"
    BY <1>1 DEF Says
  <2> QED BY <2>1 DEF Outcomes, Wrote
<1>2. CASE ~ Repeated(batch, n)
  <2> DEFINE there == c.products[batch[n]["key"]] # None
             bad == ~ Complete(Made(batch[n]))
             clash == Clash(batch[n])
  <2>1. Says(c, batch, n, policy) =
          IF bad THEN "failed"
          ELSE IF there /\ policy = "skip" THEN "skipped"
          ELSE IF (there /\ policy = "fail") \/ clash THEN "failed"
          ELSE IF there THEN "updated" ELSE "created"
    BY <1>2 DEF Says
  <2>2. Says(d, batch, n, policy) = Says(c, batch, n, policy)
    BY <1>2 DEF Says
  <2> HIDE DEF there, bad, clash
  <2>3. Says(c, batch, n, policy) \in Outcomes
    BY <2>1 DEF Outcomes
  <2>4. Says(c, batch, n, policy) = "created" => ~ there
    BY <2>1
  <2>5. Says(c, batch, n, policy) = "updated" => there
    BY <2>1
  <2> QED BY <1>2, <2>2, <2>3, <2>4, <2>5 DEF there
<1> QED BY <1>1, <1>2

\* After n rows: a catalogue, with its rates, in which the rows that say so
\* have made their products, and all other products are as they were.
After(d, c, batch, policy, n) ==
  /\ IsCatalogue(d) /\ d.rates = c.rates
  /\ \A k \in Keys :
       (\A m \in 1..n : batch[m]["key"] = k => ~ Wrote(c, batch, policy, m)) =>
         d.products[k] = c.products[k]
  /\ \A m \in 1..n : Wrote(c, batch, policy, m) =>
                       d.products[batch[m]["key"]] = Outcome(c, batch[m])

\* One row more.
LEMMA OneRow ==
  ASSUME NEW c, IsCatalogue(c), NEW batch, IsBatch(batch), NEW policy,
         NEW d, NEW n \in Nat, n + 1 \in DOMAIN batch, After(d, c, batch, policy, n)
  PROVE  After(Imported(d, batch[n + 1], Says(d, batch, n + 1, policy)),
               c, batch, policy, n + 1)
<1> DEFINE row == batch[n + 1]
           key == row["key"]
           says == Says(c, batch, n + 1, policy)
           e == Imported(d, row, Says(d, batch, n + 1, policy))
<1>1. DOMAIN batch = 1..Len(batch) /\ Len(batch) \in Nat /\ IsRow(row)
  BY ListIs DEF IsBatch
<1>2. key \in Keys /\ IsProduct(Made(row)) /\ Made(row).key = key
  BY <1>1, MadeIs
<1>3. 1..(n + 1) = 1..n \cup {n + 1}
  OBVIOUS
<1>4. ~ Repeated(batch, n + 1) => \A m \in 1..n : batch[m]["key"] # key
  <2>1. \A m \in 1..n : m \in DOMAIN batch /\ m # n + 1
    BY <1>1
  <2> QED BY <2>1 DEF Repeated
<1>5. ~ Repeated(batch, n + 1) => d.products[key] = c.products[key]
  BY <1>2, <1>4 DEF After
<1>6. /\ Says(d, batch, n + 1, policy) = says
      /\ says \in Outcomes
      /\ Repeated(batch, n + 1) => ~ Wrote(c, batch, policy, n + 1)
      /\ says = "created" => c.products[key] = None
      /\ says = "updated" => c.products[key] # None
  BY <1>5, SaysIs
<1>7. e = Imported(d, row, says)
  BY <1>6
<1> HIDE DEF e, says, key, row
<1>8. CASE ~ Wrote(c, batch, policy, n + 1)
  <2>1. e = d
    BY <1>7, <1>8 DEF Imported, Wrote, says
  <2>2. \A k \in Keys :
          (\A m \in 1..(n + 1) : batch[m]["key"] = k => ~ Wrote(c, batch, policy, m)) =>
            d.products[k] = c.products[k]
    BY <1>3 DEF After
  <2>3. \A m \in 1..(n + 1) : Wrote(c, batch, policy, m) =>
                       d.products[batch[m]["key"]] = Outcome(c, batch[m])
    BY <1>3, <1>8 DEF After
  <2> QED BY <2>1, <2>2, <2>3 DEF After, e, row
<1>9. CASE Wrote(c, batch, policy, n + 1)
  <2>1. ~ Repeated(batch, n + 1)
    BY <1>6, <1>9
  <2>2. e = PutProduct(d, Outcome(c, row)) /\ IsProduct(Outcome(c, row))
        /\ Outcome(c, row).key = key
    <3>1. CASE says = "created"
      <4>1. Outcome(c, row) = Made(row)
        BY <1>6, <3>1 DEF Outcome, key
      <4> QED BY <1>2, <1>7, <3>1, <4>1 DEF Imported
    <3>2. CASE says = "updated"
      <4>1. IsProduct(c.products[key]) /\ c.products[key].key = key
        BY <1>2, <1>6, <3>2 DEF IsCatalogue
      <4>2. Outcome(c, row) = Updated(c.products[key], row)
        BY <1>6, <3>2 DEF Outcome, key
      <4>3. e = PutProduct(d, Updated(d.products[key], row))
        BY <1>7, <3>2 DEF Imported, key
      <4> QED BY <1>1, <1>5, <2>1, <4>1, <4>2, <4>3, UpdatedIs
    <3> QED BY <1>9, <3>1, <3>2 DEF Wrote, says
  <2> DEFINE p == Outcome(c, row)
  <2> HIDE DEF p
  <2>3. /\ IsCatalogue(e) /\ e.rates = d.rates
        /\ \A k \in Keys : e.products[k] = IF k = key THEN p ELSE d.products[k]
    BY <2>2, PutIs DEF After, p
  <2>4. ASSUME NEW k \in Keys,
               \A m \in 1..(n + 1) : batch[m]["key"] = k => ~ Wrote(c, batch, policy, m)
        PROVE  e.products[k] = c.products[k]
    <3>1. n + 1 \in 1..(n + 1) /\ batch[n + 1]["key"] = key
      BY DEF key, row
    <3>2. k # key
      BY <1>9, <2>4, <3>1
    <3>3. \A m \in 1..n : batch[m]["key"] = k => ~ Wrote(c, batch, policy, m)
      BY <1>3, <2>4
    <3>4. d.products[k] = c.products[k]
      BY <3>3 DEF After
    <3> QED BY <2>3, <3>2, <3>4
  <2>5. ASSUME NEW m \in 1..(n + 1), Wrote(c, batch, policy, m)
        PROVE  e.products[batch[m]["key"]] = Outcome(c, batch[m])
    <3>1. CASE m = n + 1
      BY <1>2, <2>3, <3>1 DEF key, row, p
    <3>2. CASE m \in 1..n
      <4>1. batch[m]["key"] # key
        BY <1>4, <2>1, <3>2
      <4>2. batch[m]["key"] \in Keys
        <5>1. IsRow(batch[m])
          BY <1>1, <3>2 DEF IsBatch
        <5> QED BY <5>1, MadeIs
      <4>3. d.products[batch[m]["key"]] = Outcome(c, batch[m])
        BY <2>5, <3>2 DEF After
      <4> QED BY <2>3, <4>1, <4>2, <4>3
    <3> QED BY <1>3, <3>1, <3>2
  <2>6. e.rates = c.rates
    BY <2>3 DEF After
  <2> QED BY <2>3, <2>4, <2>5, <2>6 DEF After, e, row
<1> QED BY <1>8, <1>9

\* All rows, by induction on their number.
LEMMA ImportDoes ==
  ASSUME NEW c, IsCatalogue(c), NEW batch, IsBatch(batch), NEW policy
  PROVE  After(AllImported(c, batch, policy), c, batch, policy, Len(batch))
<1>1. PICK f : /\ Course(f, c, batch, policy, Len(batch))
               /\ AllImported(c, batch, policy) = f[Len(batch)]
  BY ImportRuns
<1>2. Len(batch) \in Nat /\ DOMAIN batch = 1..Len(batch)
  BY ListIs DEF IsBatch
<1>3. \A n \in 0..Len(batch) : f[n] =
        IF n = 0 THEN WithCategories(c, batch)
        ELSE Imported(f[n - 1], batch[n], Says(f[n - 1], batch, n, policy))
  BY <1>1 DEF Course
<1> DEFINE S == {n \in Nat : n <= Len(batch) => After(f[n], c, batch, policy, n)}
<1>4. 0 \in S
  <2>1. f[0] = WithCategories(c, batch)
    BY <1>2, <1>3
  <2> DEFINE G == {batch[n]["category"] : n \in DOMAIN batch}
  <2>2. G \subseteq Categories
    BY MadeIs DEF IsBatch
  <2>3. f[0] = [c EXCEPT !.categories = @ \cup G]
    BY <2>1 DEF WithCategories
  <2> HIDE DEF G
  <2>4. IsCatalogue(f[0]) /\ f[0].rates = c.rates /\ f[0].products = c.products
    BY <2>2, <2>3, EnsuredIs
  <2>5. 1..0 = {}
    OBVIOUS
  <2> QED BY <2>4, <2>5 DEF After
<1>5. ASSUME NEW n \in S PROVE n + 1 \in S
  <2>1. SUFFICES ASSUME n + 1 <= Len(batch) PROVE After(f[n + 1], c, batch, policy, n + 1)
    OBVIOUS
  <2>2. n \in Nat /\ n + 1 \in DOMAIN batch /\ n + 1 \in 0..Len(batch) /\ n <= Len(batch)
        /\ n + 1 # 0 /\ (n + 1) - 1 = n
    BY <1>2, <2>1
  <2>3. After(f[n], c, batch, policy, n)
    BY <2>2
  <2>4. f[n + 1] = Imported(f[n], batch[n + 1], Says(f[n], batch, n + 1, policy))
    BY <1>3, <2>2
  <2> QED BY <2>2, <2>3, <2>4, OneRow
<1>6. S = Nat
  <2> HIDE DEF S
  <2>1. S \in SUBSET Nat
    BY DEF S
  <2> QED BY <1>4, <1>5, <2>1, ByInduction
<1> QED BY <1>1, <1>2, <1>6

(**************************************************************************)
(* What every handler keeps.                                              *)
(**************************************************************************)

\* One VAT rate is the default, or none.
OneRate(c) == \A r, s \in DefaultRates(c) : r = s

\* A catalogue as the handlers keep it.
Good(c) == IsCatalogue(c) /\ OneRate(c)

\* The inductive invariant.
Inv == TypeOK /\ OneRate(cat)

\* A handler that saves a good catalogue, and no import's report, keeps all.
LEMMA Edits ==
  ASSUME Inv, NEW c, Good(c), Edit(c)
  PROVE  Inv'
<1>1. cat' = c /\ report' = NoReport /\ used' = used + 1 /\ used < MaxEdits
  BY DEF Edit, Save
<1>2. used \in 0..MaxEdits /\ MaxEdits \in Nat
  BY CAAssumption DEF Inv, TypeOK
<1>3. used' \in 0..MaxEdits
  BY <1>1, <1>2
<1>4. DOMAIN NoReport.rows = DOMAIN NoReport.says /\ DOMAIN NoReport.says = {}
  BY DEF NoReport
<1>5. IsCatalogue(cat') /\ OneRate(cat')
  BY <1>1 DEF Good
<1>6. TypeOK'
  BY <1>1, <1>3, <1>4, <1>5 DEF TypeOK
<1> QED BY <1>1, <1>5, <1>6 DEF Inv

\* With the rates it had, a catalogue has one default.
LEMMA RatesKept ==
  ASSUME NEW c, Good(c), NEW d, IsCatalogue(d), d.rates = c.rates
  PROVE  Good(d)
BY DEF Good, OneRate, DefaultRates

\* Categories.
LEMMA CategoryEdits ==
  ASSUME Inv, NEW g \in Categories, CreateCategory(g) \/ DeleteCategory(g)
  PROVE  Inv'
<1>1. IsCatalogue(cat) /\ Good(cat)
  BY DEF Inv, TypeOK, Good
<1>2. CASE CreateCategory(g)
  <2>1. Good(Ensured(cat, g))
    BY <1>1, EnsuredIs, RatesKept DEF Ensured
  <2> QED BY <1>2, <2>1, Edits DEF CreateCategory
<1>3. CASE DeleteCategory(g)
  <2> DEFINE d == [cat EXCEPT !.categories = @ \ {g}]
  <2>1. /\ DOMAIN d = DOMAIN cat /\ d.products = cat.products
        /\ d.categories = cat.categories \ {g} /\ d.rules = cat.rules
        /\ d.rates = cat.rates /\ d.taxes = cat.taxes /\ d.laydown = cat.laydown
    BY <1>1 DEF IsCatalogue
  <2>2. Edit(d)
    BY <1>3 DEF DeleteCategory
  <2> HIDE DEF d
  <2>3. IsCatalogue(d)
    BY <1>1, <2>1 DEF IsCatalogue
  <2> QED BY <1>1, <2>1, <2>2, <2>3, RatesKept, Edits
<1> QED BY <1>2, <1>3

\* A product put in place of another, or made, is a good edit.
LEMMA PutEdit ==
  ASSUME Inv, NEW c, Good(c), NEW p, IsProduct(p), Edit(PutProduct(c, p))
  PROVE  Inv'
<1>1. Good(PutProduct(c, p))
  BY PutIs, RatesKept DEF Good
<1> QED BY <1>1, Edits

\* A new product has no tiers, and its category is made with it.
LEMMA ProductMade ==
  ASSUME Inv, NEW row \in Rows, CreateProduct(row)
  PROVE  Inv'
<1> DEFINE p == [Made(row) EXCEPT !.tiers = NoTiers]
<1>1. IsRow(row)
  BY CAAssumption
<1>2. /\ DOMAIN Made(row) = Columns /\ \A f \in Columns : Fits(f, Made(row)[f])
      /\ Made(row).category \in Categories
  BY <1>1, MadeIs DEF IsProduct
<1>3. DOMAIN p = Columns /\ p.tiers = NoTiers
      /\ \A f \in Columns \ {"tiers"} : p[f] = Made(row)[f]
  BY <1>2 DEF Columns
<1>4. IsTiers(NoTiers)
  BY DEF IsTiers, NoTiers
<1>5. Fits("tiers", NoTiers)
  BY <1>4 DEF Fits, Whole
<1>6. Edit(PutProduct(Ensured(cat, p.category), p))
  BY DEF CreateProduct
<1> HIDE DEF p
<1>7. IsProduct(p)
  BY <1>2, <1>3, <1>5 DEF IsProduct
<1>8. p.category \in Categories
  BY <1>2, <1>3 DEF Columns
<1>9. Good(Ensured(cat, p.category))
  BY <1>8, EnsuredIs, RatesKept DEF Ensured, Good, Inv, TypeOK
<1> QED BY <1>6, <1>7, <1>9, PutEdit

\* An edit keeps the key, and its columns fit.
LEMMA ProductEdited ==
  ASSUME Inv, NEW k \in Keys, NEW patch \in Patches, UpdateProduct(k, patch)
  PROVE  Inv'
<1> DEFINE old == cat.products[k]
           p == [f \in Columns |-> IF f \in DOMAIN patch THEN patch[f] ELSE old[f]]
<1>1. IsPatch(patch)
  BY CAAssumption
<1>2. IsProduct(old) /\ Good(cat)
  BY DEF UpdateProduct, Inv, TypeOK, IsCatalogue, Good
<1>3. \A f \in Columns : Fits(f, p[f])
  <2> HIDE DEF old
  <2> QED BY <1>1, <1>2 DEF IsPatch, IsProduct
<1>4. IsProduct(p)
  <2>1. DOMAIN p = Columns
    OBVIOUS
  <2> HIDE DEF p
  <2> QED BY <1>3, <2>1 DEF IsProduct
<1>5. Edit(PutProduct(cat, p))
  BY DEF UpdateProduct
<1> HIDE DEF p
<1> QED BY <1>2, <1>4, <1>5, PutEdit

\* A product that is deleted leaves its place empty.
LEMMA ProductGone ==
  ASSUME Inv, NEW k \in Keys, DeleteProduct(k)
  PROVE  Inv'
<1> DEFINE d == [cat EXCEPT !.products[k] = None]
<1>1. IsCatalogue(cat) /\ Good(cat)
  BY DEF Inv, TypeOK, Good
<1>2. /\ DOMAIN d = DOMAIN cat /\ DOMAIN d.products = Keys
      /\ \A j \in Keys : d.products[j] = IF j = k THEN None ELSE cat.products[j]
      /\ d.categories = cat.categories /\ d.rules = cat.rules
      /\ d.rates = cat.rates /\ d.taxes = cat.taxes /\ d.laydown = cat.laydown
  BY <1>1 DEF IsCatalogue
<1>3. Edit(d)
  BY DEF DeleteProduct
<1> HIDE DEF d
<1>4. IsCatalogue(d)
  BY <1>1, <1>2 DEF IsCatalogue
<1> QED BY <1>1, <1>2, <1>3, <1>4, RatesKept, Edits

\* Tiers that are tiers fit a product.
LEMMA TiersSet ==
  ASSUME Inv, NEW k \in Keys, cat.products[k] # None, NEW T, IsTiers(T), SetTiers(k, T)
  PROVE  Inv'
<1> DEFINE old == cat.products[k]
           p == [old EXCEPT !.tiers = T]
           d == [cat EXCEPT !.products[k].tiers = T]
<1>1. IsCatalogue(cat) /\ Good(cat)
  BY DEF Inv, TypeOK, Good
<1>2. IsProduct(old) /\ old.key = k
  BY <1>1 DEF IsCatalogue
<1>3. DOMAIN p = Columns /\ p.tiers = T /\ \A f \in Columns \ {"tiers"} : p[f] = old[f]
  <2>1. DOMAIN old = Columns
    BY <1>2 DEF IsProduct
  <2> HIDE DEF old
  <2> QED BY <2>1 DEF Columns
<1>4. Fits("tiers", T)
  BY DEF Fits, Whole
<1>5. d.products = [cat.products EXCEPT ![k] = p] /\ DOMAIN d = DOMAIN cat
      /\ d.categories = cat.categories /\ d.rules = cat.rules
      /\ d.rates = cat.rates /\ d.taxes = cat.taxes /\ d.laydown = cat.laydown
  BY <1>1 DEF IsCatalogue
<1>6. Edit(d)
  BY DEF SetTiers
<1> HIDE DEF d, p
<1>7. IsProduct(p) /\ p.key = k
  <2>1. \A f \in Columns : Fits(f, p[f])
    BY <1>2, <1>3, <1>4 DEF IsProduct
  <2>2. p.key = k
    BY <1>2, <1>3 DEF Columns
  <2> QED BY <1>3, <2>1, <2>2 DEF IsProduct
<1>8. IsCatalogue(d)
  <2>1. DOMAIN d.products = Keys /\ \A j \in Keys : d.products[j] = IF j = k THEN p ELSE cat.products[j]
    BY <1>1, <1>5 DEF IsCatalogue
  <2> HIDE DEF old
  <2> QED BY <1>1, <1>5, <1>7, <2>1 DEF IsCatalogue
<1> QED BY <1>1, <1>5, <1>6, <1>8, RatesKept, Edits

\* Tiers are made, moved and deleted one at a time.
LEMMA TierEdited ==
  ASSUME Inv, NEW k \in Keys, cat.products[k] # None,
         \/ \E t \in TierEdits : CreateTier(k, t)
         \/ \E old \in DOMAIN cat.products[k].tiers :
              DeleteTier(k, old) \/ \E t \in TierEdits : UpdateTier(k, old, t)
  PROVE  Inv'
<1> DEFINE T == cat.products[k].tiers
<1>1. IsTiers(T)
  <2>1. IsProduct(cat.products[k])
    BY DEF Inv, TypeOK, IsCatalogue
  <2> QED BY <2>1, ColumnsHold
<1>2. ASSUME NEW t \in TierEdits, CreateTier(k, t) PROVE Inv'
  <2> DEFINE new == <<t[1], t[2]>>
             U == [u \in DOMAIN T \cup {new} |-> IF u = new THEN t[3] ELSE T[u]]
  <2>1. SetTiers(k, U)
    BY <1>2 DEF CreateTier
  <2>2. IsTiers(U)
    <3>1. t[2] \in Nat \ {0} /\ t[3] \in Int
      BY CAAssumption DEF IsTier
    <3>2. new = <<new[1], new[2]>> /\ new[2] = t[2]
      OBVIOUS
    <3> HIDE DEF T, new
    <3>3. DOMAIN U = DOMAIN T \cup {new} /\ \A u \in DOMAIN U : U[u] = IF u = new THEN t[3] ELSE T[u]
      OBVIOUS
    <3> HIDE DEF U
    <3> QED BY <1>1, <3>1, <3>2, <3>3 DEF IsTiers
  <2> HIDE DEF U
  <2> QED BY <2>1, <2>2, TiersSet
<1>3. ASSUME NEW old \in DOMAIN T, NEW t \in TierEdits, UpdateTier(k, old, t) PROVE Inv'
  <2> DEFINE new == <<t[1], t[2]>>
             U == [u \in (DOMAIN T \ {old}) \cup {new} |-> IF u = new THEN t[3] ELSE T[u]]
  <2>1. SetTiers(k, U)
    BY <1>3 DEF UpdateTier
  <2>2. IsTiers(U)
    <3>1. t[2] \in Nat \ {0} /\ t[3] \in Int
      BY CAAssumption DEF IsTier
    <3>2. new = <<new[1], new[2]>> /\ new[2] = t[2]
      OBVIOUS
    <3> HIDE DEF T, new
    <3>3. DOMAIN U = (DOMAIN T \ {old}) \cup {new}
          /\ \A u \in DOMAIN U : U[u] = IF u = new THEN t[3] ELSE T[u]
      OBVIOUS
    <3> HIDE DEF U
    <3> QED BY <1>1, <3>1, <3>2, <3>3 DEF IsTiers
  <2> HIDE DEF U
  <2> QED BY <2>1, <2>2, TiersSet
<1>4. ASSUME NEW old \in DOMAIN T, DeleteTier(k, old) PROVE Inv'
  <2> DEFINE U == [u \in DOMAIN T \ {old} |-> T[u]]
  <2>1. SetTiers(k, U)
    BY <1>4 DEF DeleteTier
  <2>2. IsTiers(U)
    <3> HIDE DEF T
    <3> QED BY <1>1 DEF IsTiers
  <2> HIDE DEF U
  <2> QED BY <2>1, <2>2, TiersSet
<1> QED BY <1>2, <1>3, <1>4

\* A change of the surcharges alone.
LEMMA RulesSet ==
  ASSUME Inv, NEW R, R \in [RuleNames -> Rules \cup {None}],
         Edit([cat EXCEPT !.rules = R])
  PROVE  Inv'
<1> DEFINE d == [cat EXCEPT !.rules = R]
<1>1. IsCatalogue(cat) /\ Good(cat)
  BY DEF Inv, TypeOK, Good
<1>2. /\ DOMAIN d = DOMAIN cat /\ d.products = cat.products
      /\ d.categories = cat.categories /\ d.rules = R
      /\ d.rates = cat.rates /\ d.taxes = cat.taxes /\ d.laydown = cat.laydown
  BY <1>1 DEF IsCatalogue
<1>3. Edit(d)
  OBVIOUS
<1> HIDE DEF d
<1>4. IsCatalogue(d)
  BY <1>1, <1>2 DEF IsCatalogue
<1> QED BY <1>1, <1>2, <1>3, <1>4, RatesKept, Edits

\* Surcharges one by one.
LEMMA RuleEdited ==
  ASSUME Inv, NEW name \in RuleNames,
         \/ DeleteSurcharge(name)
         \/ \E rule \in RuleRows : CreateSurcharge(name, rule) \/ UpdateSurcharge(name, rule)
  PROVE  Inv'
<1>1. cat.rules \in [RuleNames -> Rules \cup {None}] /\ RuleRows \subseteq Rules
  BY CAAssumption DEF Inv, TypeOK, IsCatalogue
<1>2. ASSUME NEW v \in Rules \cup {None}, Edit([cat EXCEPT !.rules[name] = v]) PROVE Inv'
  <2> DEFINE R == [cat.rules EXCEPT ![name] = v]
  <2>1. [cat EXCEPT !.rules[name] = v] = [cat EXCEPT !.rules = R]
    OBVIOUS
  <2>2. R \in [RuleNames -> Rules \cup {None}]
    BY <1>1
  <2> HIDE DEF R
  <2> QED BY <1>2, <2>1, <2>2, RulesSet
<1>3. CASE DeleteSurcharge(name)
  BY <1>2, <1>3 DEF DeleteSurcharge
<1>4. ASSUME NEW rule \in RuleRows, CreateSurcharge(name, rule) \/ UpdateSurcharge(name, rule)
      PROVE  Inv'
  BY <1>1, <1>2, <1>4 DEF CreateSurcharge, UpdateSurcharge
<1> QED BY <1>3, <1>4

\* Surcharges from a batch.
LEMMA RulesImported ==
  ASSUME Inv, NEW batch \in RuleBatches, NEW policy, NEW told, NEW dry \in BOOLEAN,
         ImportSurcharges(batch, policy, told, dry)
  PROVE  Inv'
<1>1. cat.rules \in [RuleNames -> Rules \cup {None}] /\ Good(cat)
  BY DEF Inv, TypeOK, IsCatalogue, Good
<1>2. CASE dry
  BY <1>1, <1>2, Edits DEF ImportSurcharges
<1>3. CASE ~ dry
  <2> DEFINE rows(name) == {n \in DOMAIN batch : batch[n][1] = name
                                      /\ RuleWritten(batch, n, policy, told)}
             R == [name \in RuleNames |->
                     IF rows(name) = {} THEN cat.rules[name] ELSE batch[Min(rows(name))][2]]
  <2>1. DOMAIN batch = 1..Len(batch) /\ Len(batch) \in Nat
        /\ \A n \in DOMAIN batch : batch[n] \in RuleNames \X Rules
    BY CAAssumption, ListIs
  <2>2. ASSUME NEW name \in RuleNames, rows(name) # {}
        PROVE  batch[Min(rows(name))][2] \in Rules
    <3>1. rows(name) \in SUBSET Nat /\ rows(name) \subseteq DOMAIN batch
      BY <2>1
    <3> HIDE DEF rows
    <3>2. Min(rows(name)) \in DOMAIN batch
      BY <2>2, <3>1, MinOf
    <3> QED BY <2>1, <3>2
  <2>3. Edit([cat EXCEPT !.rules = R])
    BY <1>3 DEF ImportSurcharges
  <2>4. R \in [RuleNames -> Rules \cup {None}]
    <3> HIDE DEF rows
    <3> QED BY <1>1, <2>2
  <2> HIDE DEF R
  <2> QED BY <2>3, <2>4, RulesSet
<1> QED BY <1>2, <1>3

\* The multiplier is no part of the shape.
LEMMA MultiplierSet ==
  ASSUME Inv, NEW m, SetMultiplier(m)
  PROVE  Inv'
<1> DEFINE d == [cat EXCEPT !.mult = m]
<1>1. IsCatalogue(cat) /\ Good(cat)
  BY DEF Inv, TypeOK, Good
<1>2. /\ DOMAIN d = DOMAIN cat /\ d.products = cat.products
      /\ d.categories = cat.categories /\ d.rules = cat.rules
      /\ d.rates = cat.rates /\ d.taxes = cat.taxes /\ d.laydown = cat.laydown
  BY <1>1 DEF IsCatalogue
<1>3. Edit(d)
  BY DEF SetMultiplier
<1> HIDE DEF d
<1>4. IsCatalogue(d)
  BY <1>1, <1>2 DEF IsCatalogue
<1> QED BY <1>1, <1>2, <1>3, <1>4, RatesKept, Edits

\* A change of the VAT rates alone.
LEMMA RatesSet ==
  ASSUME Inv, NEW R, R \in [RateIds -> Rates \cup {None}],
         \A r, s \in {t \in RateIds : R[t] # None /\ R[t].default} : r = s,
         Edit([cat EXCEPT !.rates = R])
  PROVE  Inv'
<1> DEFINE d == [cat EXCEPT !.rates = R]
<1>1. IsCatalogue(cat)
  BY DEF Inv, TypeOK
<1>2. /\ DOMAIN d = DOMAIN cat /\ d.products = cat.products
      /\ d.categories = cat.categories /\ d.rules = cat.rules
      /\ d.rates = R /\ d.taxes = cat.taxes /\ d.laydown = cat.laydown
  BY <1>1 DEF IsCatalogue
<1>3. Edit(d)
  OBVIOUS
<1> HIDE DEF d
<1>4. IsCatalogue(d)
  BY <1>1, <1>2 DEF IsCatalogue
<1>5. OneRate(d)
  BY <1>2 DEF OneRate, DefaultRates
<1> QED BY <1>3, <1>4, <1>5, Edits DEF Good

\* A default rate takes the mark from the others.
LEMMA RateWritten ==
  ASSUME Inv, NEW r \in RateIds, NEW rate \in Taxes, Edit(PutRate(cat, r, rate))
  PROVE  Inv'
<1> DEFINE R == [s \in RateIds |->
                   IF s = r THEN rate
                   ELSE IF cat.rates[s] # None /\ rate.default
                   THEN [cat.rates[s] EXCEPT !.default = FALSE]
                   ELSE cat.rates[s]]
<1>1. cat.rates \in [RateIds -> Rates \cup {None}] /\ rate \in Rates /\ OneRate(cat)
  BY CAAssumption DEF Inv, TypeOK, IsCatalogue
<1>2. Edit([cat EXCEPT !.rates = R])
  BY DEF PutRate
<1>3. ASSUME NEW s \in RateIds
      PROVE  /\ R[s] \in Rates \cup {None}
             /\ rate.default /\ s # r => R[s] = None \/ ~ R[s].default
             /\ ~ rate.default /\ s # r => R[s] = cat.rates[s]
             /\ s = r => R[s] = rate
  <2>1. CASE s # r /\ cat.rates[s] # None /\ rate.default
    <3>1. cat.rates[s] \in Rates
      BY <1>1, <2>1
    <3>2. R[s] = [cat.rates[s] EXCEPT !.default = FALSE]
      BY <2>1
    <3> HIDE DEF R
    <3>3. R[s] \in Rates /\ R[s].default = FALSE
      BY <3>1, <3>2 DEF Rates
    <3> QED BY <2>1, <3>3
  <2>2. CASE s = r
    <3>1. R[s] = rate
      BY <2>2
    <3> QED BY <1>1, <2>2, <3>1
  <2>3. CASE s # r /\ ~ (cat.rates[s] # None /\ rate.default)
    <3>1. R[s] = cat.rates[s]
      BY <2>3
    <3>2. cat.rates[s] \in Rates \cup {None}
      BY <1>1
    <3> HIDE DEF R
    <3> QED BY <2>3, <3>1, <3>2
  <2> QED BY <2>1, <2>2, <2>3
<1> HIDE DEF R
<1>4. R \in [RateIds -> Rates \cup {None}]
  <2>1. R = [s \in RateIds |-> R[s]]
    BY DEF R
  <2> QED BY <1>3, <2>1
<1>5. ASSUME NEW t \in RateIds, NEW u \in RateIds, R[t] # None, R[t].default,
             R[u] # None, R[u].default
      PROVE  t = u
  <2>1. CASE rate.default
    BY <1>3, <1>5, <2>1
  <2>2. CASE ~ rate.default
    <3>1. t # r /\ u # r
      BY <1>3, <1>5, <2>2
    <3>2. R[t] = cat.rates[t] /\ R[u] = cat.rates[u]
      BY <1>3, <2>2, <3>1
    <3>3. t \in DefaultRates(cat) /\ u \in DefaultRates(cat)
      BY <1>1, <1>5, <3>2 DEF DefaultRates
    <3> QED BY <1>1, <3>3 DEF OneRate
  <2> QED BY <2>1, <2>2
<1> QED BY <1>2, <1>4, <1>5, RatesSet

\* VAT rates: one that is deleted is no default.
LEMMA RateEdited ==
  ASSUME Inv, NEW r \in RateIds,
         \/ DeleteTaxRate(r)
         \/ \E rate \in Taxes : CreateTaxRate(r, rate) \/ UpdateTaxRate(r, rate)
         \/ \E g \in Categories : SetCategoryTax(g, r)
  PROVE  Inv'
<1>1. IsCatalogue(cat) /\ Good(cat) /\ OneRate(cat)
  BY DEF Inv, TypeOK, Good
<1>2. cat.rates \in [RateIds -> Rates \cup {None}]
  BY <1>1 DEF IsCatalogue
<1>3. CASE DeleteTaxRate(r)
  <2> DEFINE R == [cat.rates EXCEPT ![r] = None]
  <2>1. [cat EXCEPT !.rates[r] = None] = [cat EXCEPT !.rates = R]
    OBVIOUS
  <2>2. Edit([cat EXCEPT !.rates[r] = None])
    BY <1>3 DEF DeleteTaxRate
  <2>3. R \in [RateIds -> Rates \cup {None}]
    BY <1>2
  <2>4. \A t \in RateIds : R[t] = IF t = r THEN None ELSE cat.rates[t]
    BY <1>2
  <2> HIDE DEF R
  <2>5. {t \in RateIds : R[t] # None /\ R[t].default} \subseteq DefaultRates(cat)
    BY <1>2, <2>4 DEF DefaultRates
  <2> QED BY <1>1, <2>1, <2>2, <2>3, <2>5, RatesSet DEF OneRate
<1>4. ASSUME NEW rate \in Taxes, CreateTaxRate(r, rate) \/ UpdateTaxRate(r, rate)
      PROVE  Inv'
  BY <1>4, RateWritten DEF CreateTaxRate, UpdateTaxRate
<1>5. ASSUME NEW g \in Categories, SetCategoryTax(g, r) PROVE Inv'
  <2> DEFINE d == [cat EXCEPT !.taxes[g] = r]
  <2>1. /\ DOMAIN d = DOMAIN cat /\ d.products = cat.products
        /\ d.categories = cat.categories /\ d.rules = cat.rules
        /\ d.rates = cat.rates /\ d.taxes = [cat.taxes EXCEPT ![g] = r]
        /\ d.laydown = cat.laydown
    BY <1>1 DEF IsCatalogue
  <2>2. [cat.taxes EXCEPT ![g] = r] \in [Categories -> RateIds \cup {None}]
    BY <1>1 DEF IsCatalogue
  <2>3. Edit(d)
    BY <1>5 DEF SetCategoryTax
  <2> HIDE DEF d
  <2>4. IsCatalogue(d)
    BY <1>1, <2>1, <2>2 DEF IsCatalogue
  <2> QED BY <1>1, <2>1, <2>3, <2>4, RatesKept, Edits
<1> QED BY <1>3, <1>4, <1>5

\* The import of products keeps the shape, and reports outcomes.
LEMMA ProductsImported ==
  ASSUME Inv, NEW batch \in Batches, NEW policy \in Policies, NEW dry \in BOOLEAN,
         ImportProducts(batch, policy, dry)
  PROVE  Inv'
<1> DEFINE d == IF dry THEN cat ELSE AllImported(cat, batch, policy)
<1>1. IsCatalogue(cat) /\ Good(cat) /\ used \in 0..MaxEdits
  BY DEF Inv, TypeOK, Good
<1>2. IsBatch(batch) /\ MaxEdits \in Nat
  BY CAAssumption DEF IsBatch
<1>3. Good(d)
  <2>1. CASE ~ dry
    <3>1. After(AllImported(cat, batch, policy), cat, batch, policy, Len(batch))
      BY <1>1, <1>2, ImportDoes
    <3> QED BY <1>1, <2>1, <3>1, RatesKept DEF After
  <2> QED BY <1>1, <2>1
<1>4. cat' = d /\ used < MaxEdits /\ used' = used + 1
  BY DEF ImportProducts, Save
<1>5. report' = [rows |-> batch, dry |-> dry,
                 says |-> [n \in DOMAIN batch |-> Says(cat, batch, n, policy)]]
  BY DEF ImportProducts
<1> HIDE DEF d
<1>6. DOMAIN report'.rows = DOMAIN report'.says
      /\ \A n \in DOMAIN report'.says : report'.says[n] \in Outcomes
  BY <1>5, SaysIs
<1>7. used' \in 0..MaxEdits
  BY <1>1, <1>2, <1>4
<1>8. IsCatalogue(cat') /\ OneRate(cat')
  BY <1>3, <1>4 DEF Good
<1>9. TypeOK'
  BY <1>6, <1>7, <1>8 DEF TypeOK
<1> QED BY <1>8, <1>9 DEF Inv

\* The shop begins so.
LEMMA InitInv ==
  ASSUME Init
  PROVE  Inv
<1>1. OneRate(cat) /\ IsCatalogue(cat)
  BY CAAssumption DEF Init, OneRate
<1>2. used \in 0..MaxEdits
  BY CAAssumption DEF Init
<1>3. DOMAIN report.rows = DOMAIN report.says /\ DOMAIN report.says = {}
  BY DEF Init, NoReport
<1> QED BY <1>1, <1>2, <1>3 DEF Inv, TypeOK

\* Every step keeps it.
LEMMA NextInv ==
  ASSUME Inv, [Next]_vars
  PROVE  Inv'
<1>1. CASE UNCHANGED vars
  BY <1>1 DEF vars, Inv, TypeOK, OneRate
<1>2. ASSUME NEW g \in Categories, CreateCategory(g) \/ DeleteCategory(g) PROVE Inv'
  BY <1>2, CategoryEdits
<1>3. ASSUME NEW row \in Rows, CreateProduct(row) PROVE Inv'
  BY <1>3, ProductMade
<1>4. ASSUME NEW k \in Keys,
             \/ DeleteProduct(k)
             \/ \E patch \in Patches : UpdateProduct(k, patch)
             \/ \E t \in TierEdits : CreateTier(k, t)
             \/ /\ cat.products[k] # None
                /\ \E old \in DOMAIN cat.products[k].tiers :
                     DeleteTier(k, old) \/ \E t \in TierEdits : UpdateTier(k, old, t)
      PROVE  Inv'
  <2>1. CASE DeleteProduct(k)
    BY <2>1, ProductGone
  <2>2. CASE \E patch \in Patches : UpdateProduct(k, patch)
    BY <2>2, ProductEdited
  <2>3. CASE \E t \in TierEdits : CreateTier(k, t)
    <3>1. cat.products[k] # None
      BY <2>3 DEF CreateTier
    <3> QED BY <2>3, <3>1, TierEdited
  <2>4. CASE /\ cat.products[k] # None
             /\ \E old \in DOMAIN cat.products[k].tiers :
                  DeleteTier(k, old) \/ \E t \in TierEdits : UpdateTier(k, old, t)
    BY <2>4, TierEdited
  <2> QED BY <1>4, <2>1, <2>2, <2>3, <2>4
<1>5. ASSUME NEW batch \in Batches, NEW policy \in Policies, NEW dry \in BOOLEAN,
             ImportProducts(batch, policy, dry)
      PROVE  Inv'
  BY <1>5, ProductsImported
<1>6. ASSUME NEW r \in RateIds,
             \/ DeleteTaxRate(r)
             \/ \E rate \in Taxes : CreateTaxRate(r, rate) \/ UpdateTaxRate(r, rate)
             \/ \E g \in Categories : SetCategoryTax(g, r)
      PROVE  Inv'
  BY <1>6, RateEdited
<1>7. ASSUME NEW name \in RuleNames,
             \/ DeleteSurcharge(name)
             \/ \E rule \in RuleRows : CreateSurcharge(name, rule) \/ UpdateSurcharge(name, rule)
      PROVE  Inv'
  BY <1>7, RuleEdited
<1>8. ASSUME NEW batch \in RuleBatches, NEW policy \in Policies, NEW told \in {{}, Keys},
             NEW dry \in BOOLEAN, ImportSurcharges(batch, policy, told, dry)
      PROVE  Inv'
  BY <1>8, RulesImported
<1>9. ASSUME NEW m \in Multipliers, SetMultiplier(m) PROVE Inv'
  BY <1>9, MultiplierSet
<1> QED BY <1>1, <1>2, <1>3, <1>4, <1>5, <1>6, <1>7, <1>8, <1>9 DEF Next

(**************************************************************************)
(* The theorems.                                                          *)
(**************************************************************************)

\* Every answer with a price is sound.
LEMMA AnswersSound ==
  ASSUME IsCatalogue(cat), NEW a \in PricedOf(Answers)
  PROVE  /\ a[1] \in Requests /\ IsProduct(a[2]) /\ Sound(cat, a[1], a[2], a[3])
         /\ a = <<a[1], a[2], a[3]>>
<1>1. PICK q \in Requests : a = <<q, cat.products[q.key], Quote(cat, q)>>
  BY DEF PricedOf, Answers
<1>2. IsRequest(q)
  BY CAAssumption
<1>3. a[1] = q /\ a[2] = cat.products[q.key] /\ a[3] = Quote(cat, q)
  BY <1>1
<1>4. Quote(cat, q).priced
  BY <1>3 DEF PricedOf
<1> QED BY <1>1, <1>2, <1>3, <1>4, QuoteSound

\* The shape, from the invariant.
LEMMA CatalogueIs == Inv => IsCatalogue(cat)
BY DEF Inv, TypeOK

\* The catalogue keeps its shape, with at most one default rate, whatever the
\* dashboard edits and imports.
THEOREM Invariant == Spec => []Inv
<1>1. Init => Inv
  BY InitInv
<1>2. Inv /\ [Next]_vars => Inv'
  BY NextInv
<1> QED BY <1>1, <1>2, PTL DEF Spec

\* The catalogue, the report and the count of edits keep their types.
THEOREM TypeCorrect == Spec => []TypeOK
<1>1. Inv => TypeOK
  BY DEF Inv
<1> QED BY <1>1, Invariant, PTL

\* No price is below the product's minimum, in any catalogue that edits and
\* imports can make (pricing_engine.py:633, :858).
THEOREM MinimumAlwaysHolds == Spec => []MinimumHolds
<1>1. Inv => MinimumHolds
  <2> SUFFICES ASSUME Inv, NEW a \in PricedOf(Answers), Given(a[2].floor)
               PROVE  a[3].ex >= a[2].floor
    BY DEF MinimumHolds
  <2>1. IsProduct(a[2]) /\ Sums(cat, a[2], a[3])
    BY AnswersSound, CatalogueIs DEF Sound
  <2> QED BY <2>1, FloorHolds
<1> QED BY <1>1, Invariant, PTL

\* A job priced from tiers is billed for what was asked, and less than one
\* smallest tier more (_stack_tiers, pricing_engine.py:349).
THEOREM StackAlwaysCovers == Spec => []StackCovers
<1>1. Inv => StackCovers
  <2> SUFFICES ASSUME Inv, NEW a \in PricedOf(Answers),
                      a[1].tool = "large_format" => a[1].size # None /\ a[2].strategy = "tiered"
               PROVE  LET Q == Ladder(a[2], IF a[1].tool = "small_format" THEN "" ELSE a[1].size)
                      IN  a[3].billed >= a[1].qty /\ a[3].billed - a[1].qty < Min(Q)
    BY DEF StackCovers
  <2>1. Sound(cat, a[1], a[2], a[3])
    BY AnswersSound, CatalogueIs
  <2>2. Covers(a[2], IF a[1].tool = "small_format" THEN "" ELSE a[1].size, a[1].qty, a[3])
    BY <2>1 DEF Sound
  <2> QED BY <2>2 DEF Covers
<1> QED BY <1>1, Invariant, PTL

\* The sheets billed hold the panels asked for, cut in a grid that lies within
\* one sheet (pricing_engine.py:300, :1486).
THEOREM SheetsAlwaysHold == Spec => []SheetsHold
<1>1. Inv => SheetsHold
  <2> SUFFICES ASSUME Inv, NEW a \in PricedOf(Answers), a[3].sheets # None
               PROVE  \E rows, cols \in 0..a[1].qty :
                        /\ CanCut(Panels(cat, a), Sheet(cat, a), rows, cols)
                        /\ a[3].sheets * rows * cols >= a[1].qty
    BY DEF SheetsHold
  <2>1. Sound(cat, a[1], a[2], a[3]) /\ a = <<a[1], a[2], a[3]>>
    BY AnswersSound, CatalogueIs
  <2>2. Grids(Panels(cat, <<a[1], a[2], a[3]>>), Sheet(cat, <<a[1], a[2], a[3]>>),
              a[3].sheets, a[1].qty)
    BY <2>1 DEF Sound
  <2>3. Grids(Panels(cat, a), Sheet(cat, a), a[3].sheets, a[1].qty)
    BY <2>1, <2>2
  <2> QED BY <2>3 DEF Grids
<1> QED BY <1>1, Invariant, PTL

\* What takes a person is never priced: a product under review, a quantity
\* outside its limits and, by area, pieces of unknown size (v34, v38, v41).
THEOREM PeopleComeFirst == Spec => []PeopleArePutFirst
<1>1. Inv => PeopleArePutFirst
  <2> SUFFICES ASSUME Inv, NEW a \in Answers, a[2] # None, NeedsAPerson(a[1], a[2])
               PROVE  ~ a[3].priced
    BY DEF PeopleArePutFirst
  <2>1. PICK q \in Requests : a = <<q, cat.products[q.key], Quote(cat, q)>>
    BY DEF Answers
  <2>2. a[1] = q /\ a[2] = cat.products[q.key] /\ a[3] = Quote(cat, q)
    BY <2>1
  <2>3. IsRequest(q)
    BY CAAssumption
  <2> QED BY <2>2, <2>3, PersonFirst, CatalogueIs
<1> QED BY <1>1, Invariant, PTL

\* There is one default VAT rate at most (admin_api.py:1138).
THEOREM OneDefaultAlways == Spec => []OneDefault
<1>1. Inv => OneDefault
  <2> SUFFICES ASSUME Inv PROVE Cardinality(DefaultRates(cat)) <= 1
    BY DEF OneDefault
  <2> DEFINE D == DefaultRates(cat)
  <2>1. \A r, s \in D : r = s
    BY DEF Inv, OneRate
  <2> HIDE DEF D
  <2>2. CASE D = {}
    <3>1. Cardinality(D) = 0
      BY <2>2, FS_EmptySet
    <3> QED BY <3>1 DEF D
  <2>3. CASE D # {}
    <3>1. PICK r : D = {r}
      <4>1. PICK s : s \in D
        BY <2>3
      <4>2. D = {s}
        BY <2>1, <4>1
      <4> QED BY <4>2
    <3>2. Cardinality(D) = 1
      BY <3>1, FS_Singleton
    <3> QED BY <3>2 DEF D
  <2> QED BY <2>2, <2>3
<1> QED BY <1>1, Invariant, PTL

\* What an import writes shows the row it came from.
LEMMA OutcomeShows ==
  ASSUME NEW c, IsCatalogue(c), NEW row, IsRow(row)
  PROVE  Shows(Outcome(c, row), row)
<1> DEFINE old == c.products[row["key"]]
           p == Outcome(c, row)
<1>1. /\ row["key"] \in Keys /\ Made(row).key = row["key"]
      /\ \A f \in DOMAIN row \ {"tiers"} : Made(row)[f] = row[f]
  BY MadeIs
<1>2. CASE old = None
  <2>1. p = Made(row)
    BY <1>2 DEF Outcome
  <2> HIDE DEF p
  <2> QED BY <1>1, <2>1 DEF Shows, p
<1>3. CASE old # None
  <2>1. p = Updated(old, row)
    BY <1>3 DEF Outcome
  <2>2. IsProduct(old) /\ old.key = row["key"]
    BY <1>1, <1>3 DEF IsCatalogue
  <2> HIDE DEF p, old
  <2>3. /\ p.key = row["key"] /\ p.tiers = Made(row).tiers
        /\ \A f \in DOMAIN row \ {"key", "tiers"} : p[f] = row[f]
    BY <2>1, <2>2, UpdatedIs
  <2>4. \A f \in DOMAIN row \ {"tiers"} : p[f] = row[f]
    <3>1. p["key"] = row["key"]
      BY <2>3
    <3> QED BY <2>3, <3>1
  <2> QED BY <2>3, <2>4 DEF Shows, p
<1> QED BY <1>2, <1>3

\* An import leaves the catalogue as its report has it.
LEMMA ImportShows ==
  ASSUME Inv, NEW batch \in Batches, NEW policy \in Policies, NEW dry \in BOOLEAN,
         ImportProducts(batch, policy, dry)
  PROVE  IF report'.dry THEN cat' = cat
         ELSE /\ \A k \in Keys \ Touched(report') : cat'.products[k] = cat.products[k]
              /\ \A n \in DOMAIN report'.rows :
                   report'.rows[n]["key"] \in Touched(report') =>
                     Shows(cat'.products[report'.rows[n]["key"]], report'.rows[n])
<1>1. /\ report'.rows = batch /\ report'.dry = dry
      /\ report'.says = [n \in DOMAIN batch |-> Says(cat, batch, n, policy)]
      /\ cat' = IF dry THEN cat ELSE AllImported(cat, batch, policy)
  BY DEF ImportProducts, Save
<1>2. IsBatch(batch) /\ IsCatalogue(cat)
  BY CAAssumption, CatalogueIs DEF IsBatch
<1>3. CASE dry
  BY <1>1, <1>3
<1>4. CASE ~ dry
  <2>1. /\ cat' = AllImported(cat, batch, policy) /\ ~ report'.dry
        /\ DOMAIN batch = 1..Len(batch)
        /\ After(cat', cat, batch, policy, Len(batch))
    BY <1>1, <1>2, <1>4, ImportDoes, ListIs DEF IsBatch
  <2>2. Touched(report') = {batch[n]["key"] : n \in {m \in DOMAIN batch : Wrote(cat, batch, policy, m)}}
    BY <1>1 DEF Touched, Wrote
  <2>3. ASSUME NEW k \in Keys \ Touched(report') PROVE cat'.products[k] = cat.products[k]
    <3>1. \A m \in 1..Len(batch) : batch[m]["key"] = k => ~ Wrote(cat, batch, policy, m)
      BY <2>1, <2>2
    <3> QED BY <2>1, <3>1 DEF After
  <2>4. ASSUME NEW n \in DOMAIN batch, batch[n]["key"] \in Touched(report')
        PROVE  Shows(cat'.products[batch[n]["key"]], batch[n])
    <3>1. PICK m \in DOMAIN batch : Wrote(cat, batch, policy, m) /\ batch[m]["key"] = batch[n]["key"]
      BY <2>2, <2>4
    <3>2. ~ Repeated(batch, m)
      BY <3>1, SaysIs
    <3>3. m = n
      BY <3>1, <3>2 DEF Repeated
    <3>4. cat'.products[batch[n]["key"]] = Outcome(cat, batch[n])
      BY <2>1, <3>1, <3>3 DEF After
    <3>5. IsRow(batch[n])
      BY <1>2 DEF IsBatch
    <3> QED BY <1>2, <3>4, <3>5, OutcomeShows
  <2> QED BY <1>1, <2>1, <2>3, <2>4
<1> QED BY <1>3, <1>4

\* Only the import of products leaves a report.
LEMMA ReportsAreImports ==
  ASSUME Next, report'.rows # <<>>
  PROVE  \E batch \in Batches, policy \in Policies, dry \in BOOLEAN :
           ImportProducts(batch, policy, dry)
<1>1. report' # NoReport
  BY DEF NoReport
<1>2. \A c : ~ Edit(c)
  BY <1>1 DEF Edit
<1> QED BY <1>2 DEF Next, CreateCategory, DeleteCategory, CreateProduct, UpdateProduct,
        DeleteProduct, SetTiers, CreateTier, UpdateTier, DeleteTier, CreateTaxRate,
        UpdateTaxRate, DeleteTaxRate, SetCategoryTax, CreateSurcharge, UpdateSurcharge,
        DeleteSurcharge, ImportSurcharges, SetMultiplier

\* An import does what its report says of each row (bulk import of products,
\* admin_api.py).
THEOREM ImportsDoIt == Spec => ImportDoesWhatItSays
<1> DEFINE Step == report'.rows # <<>> =>
             IF report'.dry THEN cat' = cat
             ELSE /\ \A k \in Keys \ Touched(report') : cat'.products[k] = cat.products[k]
                  /\ \A n \in DOMAIN report'.rows :
                       report'.rows[n]["key"] \in Touched(report') =>
                         Shows(cat'.products[report'.rows[n]["key"]], report'.rows[n])
<1>1. Inv /\ [Next]_vars => [Step]_vars
  <2> SUFFICES ASSUME Inv, Next, report'.rows # <<>>
               PROVE  IF report'.dry THEN cat' = cat
             ELSE /\ \A k \in Keys \ Touched(report') : cat'.products[k] = cat.products[k]
                  /\ \A n \in DOMAIN report'.rows :
                       report'.rows[n]["key"] \in Touched(report') =>
                         Shows(cat'.products[report'.rows[n]["key"]], report'.rows[n])
    OBVIOUS
  <2>1. PICK batch \in Batches, policy \in Policies, dry \in BOOLEAN :
          ImportProducts(batch, policy, dry)
    BY ReportsAreImports
  <2> QED BY <2>1, ImportShows
<1>2. ImportDoesWhatItSays <=> [][Step]_vars
  BY PTL DEF ImportDoesWhatItSays
<1> QED BY <1>1, <1>2, Invariant, PTL DEF Spec
=============================================================================
