------------------------- MODULE RateLimiterProofs -------------------------
(***************************************************************************)
(* Theorems about RateLimiter for every set of keys, every limits, every   *)
(* window and every resolution of the clock.                               *)
(***************************************************************************)
EXTENDS RateLimiter, FiniteSets, FiniteSetTheorems, SequenceTheorems, TLAPS

\* Division by a positive number rounds down, by less than the divisor.
LEMMA RoundDown ==
  ASSUME NEW n \in Nat, NEW s \in Nat \ {0}
  PROVE  n \div s \in Nat /\ s * (n \div s) <= n /\ n < s * (n \div s) + s
OBVIOUS

\* One key: s is its history, q its deque, the tail of s the sweep keeps.
Remembers(q, s, limit, t) ==
  LET gone == Len(s) - Len(q) IN
  /\ Len(q) <= limit
  /\ Len(q) <= Len(s)
  /\ q = SubSeq(s, gone + 1, Len(s))
  /\ \A i \in 1..gone : t - s[i] > Window
  /\ Ascending(s) /\ \A i \in DOMAIN s : s[i] <= t

LEMMA TailElements ==
  ASSUME NEW s \in Seq(Nat), NEW a \in Nat, a <= Len(s), NEW n \in Nat,
         n = Len(s) - a
  PROVE  /\ SubSeq(s, a + 1, Len(s)) \in Seq(Nat)
         /\ Len(SubSeq(s, a + 1, Len(s))) = n
         /\ \A i \in 1..n : SubSeq(s, a + 1, Len(s))[i] = s[a + i]
<1>1. Len(s) \in Nat /\ \A i \in (a + 1)..Len(s) : s[i] \in Nat
  OBVIOUS
<1>2. /\ SubSeq(s, a + 1, Len(s)) \in Seq(Nat)
      /\ Len(SubSeq(s, a + 1, Len(s))) = n
      /\ \A i \in 1..(Len(s) - (a + 1) + 1) :
           SubSeq(s, a + 1, Len(s))[i] = s[(a + 1) + i - 1]
  BY <1>1, SubSeqProperties
<1>3. \A i \in 1..n : (a + 1) + i - 1 = a + i
  OBVIOUS
<1>4. Len(s) - (a + 1) + 1 = n
  BY <1>1
<1> QED
  BY <1>2, <1>3, <1>4

LEMMA Sweep ==
  ASSUME now \in Nat, NEW s \in Seq(Nat), NEW q \in Seq(Nat), NEW limit \in Nat,
         Remembers(q, s, limit, now), NEW d \in 0..Len(q), Expired(q, d)
  PROVE  /\ Kept(q, d) \in Seq(Nat) /\ Len(Kept(q, d)) = Len(q) - d
         /\ Remembers(Kept(q, d), s, limit, now)
         /\ \A i \in 1..Len(s) :
              i > Len(s) - Len(Kept(q, d)) <=> now - s[i] <= Window
         /\ Len(Kept(q, d)) > 0 =>
              /\ Kept(q, d)[1] \in Nat /\ Kept(q, d)[1] <= now
              /\ now - Kept(q, d)[1] <= Window
<1> DEFINE kept == Kept(q, d)
<1>0. /\ Len(s) \in Nat /\ Len(q) \in Nat /\ Len(q) <= Len(s)
      /\ d \in Nat /\ d <= Len(q)
  BY DEF Remembers
<1>1. PICK gone \in Nat, k \in Nat : Len(s) = gone + Len(q) /\ Len(q) = d + k
  <2>1. /\ Len(s) - Len(q) \in Nat /\ Len(q) - d \in Nat
        /\ Len(s) = (Len(s) - Len(q)) + Len(q) /\ Len(q) = d + (Len(q) - d)
    BY <1>0
  <2> QED
    BY <2>1
<1>2. /\ q = SubSeq(s, gone + 1, Len(s))
      /\ \A i \in 1..gone : now - s[i] > Window
      /\ \A i, j \in 1..Len(s) : i <= j => s[i] <= s[j]
      /\ \A i \in 1..Len(s) : s[i] \in Nat /\ s[i] <= now
  <2>1. Len(s) - Len(q) = gone
    BY <1>0, <1>1
  <2>2. \A i \in 1..gone : now - s[i] > Window
    BY <2>1 DEF Remembers
  <2>3. q = SubSeq(s, gone + 1, Len(s))
    BY <2>1 DEF Remembers
  <2>4. \A i, j \in 1..Len(s) : i <= j => s[i] <= s[j]
    BY <1>0 DEF Remembers, Ascending
  <2>5. \A i \in 1..Len(s) : s[i] \in Nat /\ s[i] <= now
    BY <1>0 DEF Remembers
  <2> QED
    BY <2>2, <2>3, <2>4, <2>5
<1>3. \A i \in 1..Len(q) : q[i] = s[gone + i]
  <2>1. gone <= Len(s) /\ Len(q) = Len(s) - gone
    BY <1>0, <1>1
  <2>2. \A i \in 1..Len(q) : SubSeq(s, gone + 1, Len(s))[i] = s[gone + i]
    BY <1>0, <2>1, TailElements
  <2> QED
    BY <1>0, <1>1, <1>2, <2>2
<1>4. /\ kept \in Seq(Nat) /\ Len(kept) = k
      /\ \A i \in 1..k : kept[i] = q[d + i]
  <2>1. d <= Len(q) /\ k = Len(q) - d
    BY <1>0, <1>1
  <2>2. /\ SubSeq(q, d + 1, Len(q)) \in Seq(Nat)
        /\ Len(SubSeq(q, d + 1, Len(q))) = k
        /\ \A i \in 1..k : SubSeq(q, d + 1, Len(q))[i] = q[d + i]
    BY <1>0, <2>1, TailElements
  <2> QED
    BY <2>2 DEF Kept
<1>5. kept = SubSeq(s, gone + d + 1, Len(s))
  <2> DEFINE tail == SubSeq(s, gone + d + 1, Len(s))
  <2>1. /\ tail \in Seq(Nat) /\ Len(tail) = k
        /\ \A i \in 1..k : tail[i] = s[gone + d + i]
    <3>1. gone + d \in Nat /\ gone + d <= Len(s) /\ k = Len(s) - (gone + d)
      BY <1>0, <1>1
    <3> QED
      BY <3>1, TailElements
  <2>2. \A i \in 1..k : d + i \in 1..Len(q) /\ gone + (d + i) = gone + d + i
    BY <1>0, <1>1
  <2>3. \A i \in 1..k : kept[i] = tail[i]
    BY <1>3, <1>4, <2>1, <2>2
  <2> QED
    BY <1>4, <2>1, <2>3, SeqEqual
<1>6. ASSUME NEW i \in 1..(gone + d)
      PROVE  now - s[i] > Window
  <2>1. CASE i <= gone
    BY <1>0, <1>1, <1>2, <2>1
  <2>2. CASE i > gone
    <3>1. PICK j \in 1..d : i = gone + j
      BY <1>0, <1>1, <2>2
    <3>2. q[j] = s[i]
      BY <1>0, <1>1, <1>3, <3>1
    <3> QED
      BY <3>1, <3>2 DEF Expired
  <2> QED
    BY <1>0, <1>1, <2>1, <2>2
<1>7. ASSUME NEW i \in (gone + d + 1)..Len(s)
      PROVE  now - s[i] <= Window
  <2>1. d < Len(q) /\ d + 1 \in 1..Len(q) /\ gone + (d + 1) = gone + d + 1
    BY <1>0, <1>1
  <2>2. q[d + 1] = s[gone + d + 1]
    BY <1>3, <2>1
  <2>3. now - s[gone + d + 1] <= Window
    BY <1>0, <1>1, <2>1, <2>2 DEF Expired
  <2>4. /\ gone + d + 1 \in 1..Len(s) /\ i \in 1..Len(s) /\ gone + d + 1 <= i
        /\ Window \in Nat
    BY <1>0, <1>1, RLAssumption DEF RLAssumption
  <2>5. s[gone + d + 1] <= s[i] /\ s[gone + d + 1] \in Nat /\ s[i] \in Nat
    BY <1>2, <2>4
  <2>6. \A a, b, t \in Nat : (a <= b /\ t - a <= Window) => t - b <= Window
    BY <2>4
  <2> QED
    BY <2>3, <2>5, <2>6
<1>8. Len(s) - Len(kept) = gone + d
  BY <1>0, <1>1, <1>4
<1>9. Remembers(kept, s, limit, now)
  <2>1. k <= limit /\ k <= Len(s)
    BY <1>0, <1>1 DEF Remembers
  <2> QED
    BY <1>0, <1>1, <1>2, <1>4, <1>5, <1>6, <1>8, <2>1 DEF Remembers, Ascending
<1>10. ASSUME NEW i \in 1..Len(s)
       PROVE  i > Len(s) - Len(kept) <=> now - s[i] <= Window
  <2>1. CASE i <= gone + d
    <3>1. now - s[i] > Window /\ s[i] \in Nat /\ Window \in Nat
      BY <1>0, <1>1, <1>2, <1>6, <2>1, RLAssumption DEF RLAssumption
    <3> QED
      BY <1>8, <2>1, <3>1
  <2>2. CASE i > gone + d
    BY <1>0, <1>1, <1>7, <1>8, <2>2
  <2> QED
    BY <1>0, <1>1, <2>1, <2>2
<1>11. ASSUME Len(kept) > 0
       PROVE  kept[1] \in Nat /\ kept[1] <= now /\ now - kept[1] <= Window
  <2>1. 1 \in 1..k /\ d < Len(q) /\ d + 1 \in 1..Len(q)
    BY <1>0, <1>1, <1>4, <1>11
  <2>2. gone + (d + 1) \in 1..Len(s)
    BY <1>0, <1>1, <2>1
  <2>3. kept[1] = q[d + 1] /\ q[d + 1] = s[gone + (d + 1)]
    BY <1>3, <1>4, <2>1
  <2>4. s[gone + (d + 1)] \in Nat /\ s[gone + (d + 1)] <= now
    BY <1>2, <2>2
  <2>5. now - q[d + 1] <= Window
    BY <2>1 DEF Expired
  <2> QED
    BY <2>3, <2>4, <2>5
<1> QED
  BY <1>0, <1>1, <1>4, <1>9, <1>10, <1>11

-----------------------------------------------------------------------------
\* No window with more than limit admissions.
Spaced(s, limit) ==
  \A i \in DOMAIN s : i + limit <= Len(s) => s[i + limit] - s[i] > Window

\* The invariants of one key, and the promise made to its last refusal.
KeyOK(k) ==
  /\ Remembers(buckets[k], log[k], Limit[k], now)
  /\ Spaced(log[k], Limit[k])
  /\ told[k] # 0 => /\ Len(buckets[k]) > 0
                    /\ buckets[k][1] + Window < told[k] + Second

IInv == TypeOK /\ \A k \in Keys : KeyOK(k)

LEMMA InitIInv == Init => IInv
<1> SUFFICES ASSUME Init PROVE IInv
  OBVIOUS
<1>1. TypeOK
  BY DEF Init, TypeOK
<1>2. ASSUME NEW k \in Keys
      PROVE  KeyOK(k)
  <2>1. buckets[k] = <<>> /\ log[k] = <<>> /\ told[k] = 0 /\ Limit[k] \in Nat
    BY RLAssumption DEF Init, RLAssumption
  <2> QED
    BY <2>1 DEF KeyOK, Remembers, Spaced, Ascending
<1> QED
  BY <1>1, <1>2 DEF IInv

LEMMA Aging ==
  ASSUME NEW s \in Seq(Nat), NEW q \in Seq(Nat), NEW limit, NEW t \in Nat,
         Remembers(q, s, limit, t)
  PROVE  Remembers(q, s, limit, t + 1)
<1> DEFINE gone == Len(s) - Len(q)
<1>1. Len(s) \in Nat /\ Len(q) \in Nat /\ gone \in Nat
  BY DEF Remembers
<1>2. ASSUME NEW i \in 1..gone
      PROVE  t + 1 - s[i] > Window
  <2>1. i \in DOMAIN s /\ s[i] \in Nat
    BY <1>1
  <2>2. t - s[i] > Window /\ Window \in Nat
    BY RLAssumption DEF Remembers, RLAssumption
  <2> QED
    BY <2>1, <2>2
<1>3. \A i \in DOMAIN s : s[i] <= t + 1
  BY DEF Remembers
<1> QED
  BY <1>2, <1>3 DEF Remembers

\* Everything but the clock stays: what is old only grows older.
LEMMA TickIInv == IInv /\ Tick => IInv'
<1> SUFFICES ASSUME IInv, Tick PROVE IInv'
  OBVIOUS
<1>1. TypeOK'
  BY DEF IInv, TypeOK, Tick
<1>2. ASSUME NEW k \in Keys
      PROVE  KeyOK(k)'
  <2>1. /\ log[k] \in Seq(Nat) /\ buckets[k] \in Seq(Nat) /\ now \in Nat
        /\ KeyOK(k) /\ now' = now + 1 /\ Window \in Nat
    BY RLAssumption DEF IInv, TypeOK, Tick, RLAssumption
  <2>2. Remembers(buckets[k], log[k], Limit[k], now + 1)
    BY <2>1, Aging DEF KeyOK
  <2> QED
    BY <2>1, <2>2 DEF KeyOK, Tick
<1> QED
  BY <1>1, <1>2 DEF IInv

\* An admission: the deque kept fewer than limit, so the one limit ago is out.
LEMMA Admitted ==
  ASSUME now \in Nat, NEW s \in Seq(Nat), NEW q \in Seq(Nat),
         NEW limit \in Nat \ {0}, Remembers(q, s, limit, now), Len(q) < limit,
         Spaced(s, limit)
  PROVE  /\ Append(s, now) \in Seq(Nat) /\ Append(q, now) \in Seq(Nat)
         /\ Remembers(Append(q, now), Append(s, now), limit, now)
         /\ Spaced(Append(s, now), limit)
<1> DEFINE s2 == Append(s, now)
           q2 == Append(q, now)
<1>1. /\ Len(s) \in Nat /\ Len(q) \in Nat /\ Len(q) <= Len(s)
      /\ s2 \in Seq(Nat) /\ q2 \in Seq(Nat)
      /\ Len(s2) = Len(s) + 1 /\ Len(q2) = Len(q) + 1
      /\ s2[Len(s) + 1] = now /\ q2[Len(q) + 1] = now
      /\ \A i \in 1..Len(s) : s2[i] = s[i]
      /\ \A i \in 1..Len(q) : q2[i] = q[i]
  BY DEF Remembers
<1>2. PICK gone \in Nat : Len(s) = gone + Len(q)
  <2>1. Len(s) - Len(q) \in Nat /\ Len(s) = (Len(s) - Len(q)) + Len(q)
    BY <1>1
  <2> QED
    BY <2>1
<1>3. Len(s) - Len(q) = gone /\ Len(s2) - Len(q2) = gone
  BY <1>1, <1>2
<1>4. /\ q = SubSeq(s, gone + 1, Len(s))
      /\ \A i \in 1..gone : now - s[i] > Window
  BY <1>3 DEF Remembers
<1>5. \A i, j \in 1..Len(s) : i <= j => s[i] <= s[j]
  BY <1>1 DEF Remembers, Ascending
<1>6. \A i \in 1..Len(s) : s[i] \in Nat /\ s[i] <= now
  BY <1>1 DEF Remembers
<1>7. q2 = SubSeq(s2, gone + 1, Len(s2))
  <2>1. \A i \in 1..Len(q) : q[i] = s[gone + i]
    <3>1. gone <= Len(s) /\ Len(q) = Len(s) - gone
      BY <1>1, <1>2
    <3> QED
      BY <1>1, <1>4, <3>1, TailElements
  <2>2. /\ SubSeq(s2, gone + 1, Len(s2)) \in Seq(Nat)
        /\ Len(SubSeq(s2, gone + 1, Len(s2))) = Len(q2)
        /\ \A i \in 1..Len(q2) : SubSeq(s2, gone + 1, Len(s2))[i] = s2[gone + i]
    <3>1. gone <= Len(s2) /\ Len(q2) = Len(s2) - gone /\ Len(q2) \in Nat
      BY <1>1, <1>2
    <3>2. s2 \in Seq(Nat) /\ gone \in Nat
      BY <1>1
    <3> HIDE DEF s2, q2
    <3> QED
      BY <3>1, <3>2, TailElements
  <2>3. ASSUME NEW i \in 1..Len(q2)
        PROVE  q2[i] = s2[gone + i]
    <3>1. CASE i <= Len(q)
      <4>1. i \in 1..Len(q) /\ gone + i \in 1..Len(s)
        BY <1>1, <1>2, <3>1
      <4>2. q2[i] = q[i] /\ s2[gone + i] = s[gone + i] /\ q[i] = s[gone + i]
        BY <1>1, <2>1, <4>1
      <4> QED
        BY <4>2
    <3>2. CASE i = Len(q) + 1
      <4>1. gone + i = Len(s) + 1
        BY <1>1, <1>2, <3>2
      <4> QED
        BY <1>1, <3>2, <4>1
    <3>3. i <= Len(q) \/ i = Len(q) + 1
      BY <1>1
    <3> QED
      BY <3>1, <3>2, <3>3
  <2> QED
    BY <1>1, <2>2, <2>3, SeqEqual
<1>8. Ascending(s2) /\ \A i \in DOMAIN s2 : s2[i] <= now
  <2>1. DOMAIN s2 = 1..(Len(s) + 1)
    BY <1>1
  <2>2. \A i \in DOMAIN s2 : i \in 1..Len(s) \/ i = Len(s) + 1
    BY <1>1, <2>1
  <2>3. \A i \in DOMAIN s2 : s2[i] <= now
    BY <1>1, <1>6, <2>2
  <2>4. ASSUME NEW i \in DOMAIN s2, NEW j \in DOMAIN s2, i <= j
        PROVE  s2[i] <= s2[j]
    <3>1. CASE j \in 1..Len(s)
      <4>1. i \in 1..Len(s)
        BY <1>1, <2>1, <2>4, <3>1
      <4> QED
        BY <1>1, <1>5, <2>4, <3>1, <4>1
    <3>2. CASE j = Len(s) + 1
      BY <1>1, <2>3, <3>2
    <3> QED
      BY <2>2, <3>1, <3>2
  <2> QED
    BY <2>3, <2>4 DEF Ascending
<1>9. \A i \in 1..gone : now - s2[i] > Window
  BY <1>1, <1>2, <1>4
<1>10. Remembers(q2, s2, limit, now)
  <2>1. Len(q2) <= limit /\ Len(q2) <= Len(s2)
    BY <1>1
  <2> QED
    BY <1>3, <1>7, <1>8, <1>9, <2>1 DEF Remembers
<1>11. ASSUME NEW i \in DOMAIN s2, i + limit <= Len(s2)
       PROVE  s2[i + limit] - s2[i] > Window
  <2>1. i \in 1..Len(s) /\ s2[i] = s[i]
    BY <1>1, <1>11
  <2>2. CASE i + limit = Len(s) + 1
    <3>1. s2[i + limit] = now
      BY <1>1, <2>2
    <3>2. i \in 1..gone
      BY <1>1, <1>2, <2>1, <2>2
    <3> QED
      BY <1>4, <2>1, <3>1, <3>2
  <2>3. CASE i + limit # Len(s) + 1
    <3>1. i + limit \in 1..Len(s) /\ i + limit <= Len(s)
      <4>1. /\ i \in Nat /\ limit \in Nat \ {0} /\ Len(s) \in Nat
            /\ i + limit <= Len(s) + 1 /\ 0 < i
        BY <1>1, <1>11, <2>1
      <4>2. \A a, b \in Nat : (a <= b + 1 /\ a # b + 1) => a <= b
        OBVIOUS
      <4>3. i + limit \in Nat /\ i + limit > 0
        BY <4>1
      <4> QED
        BY <2>3, <4>1, <4>2, <4>3
    <3>2. s2[i + limit] = s[i + limit]
      BY <1>1, <3>1
    <3>3. s[i + limit] - s[i] > Window
      BY <2>1, <3>1 DEF Spaced
    <3> QED
      BY <2>1, <3>2, <3>3
  <2> QED
    BY <2>2, <2>3
<1> QED
  BY <1>1, <1>10, <1>11 DEF Spaced

-----------------------------------------------------------------------------
LEMMA KeyType ==
  ASSUME IInv, NEW k \in Keys
  PROVE  /\ now \in Nat /\ log[k] \in Seq(Nat) /\ buckets[k] \in Seq(Nat)
         /\ Limit[k] \in Nat \ {0} /\ told[k] \in Nat /\ KeyOK(k)
         /\ Remembers(buckets[k], log[k], Limit[k], now)
         /\ Window \in Nat /\ Second \in Nat \ {0}
BY RLAssumption DEF IInv, TypeOK, KeyOK, RLAssumption

LEMMA AdmitIInv ==
  ASSUME IInv, NEW k \in Keys, Admit(k)
  PROVE  IInv'
<1> DEFINE s == log[k]
<1>1. PICK d \in 0..Len(buckets[k]) :
        /\ Expired(buckets[k], d)
        /\ Len(Kept(buckets[k], d)) < Limit[k]
        /\ buckets' = [buckets EXCEPT ![k] = Append(Kept(@, d), now)]
        /\ told' = [told EXCEPT ![k] = 0]
        /\ log' = [log EXCEPT ![k] = Append(@, now)]
        /\ answer' = [answer EXCEPT ![k] = "ok"]
        /\ now' = now
  BY DEF Admit
<1> DEFINE q == Kept(buckets[k], d)
<1>2. q \in Seq(Nat) /\ Remembers(q, s, Limit[k], now)
  BY <1>1, KeyType, Sweep
<1>3. /\ Append(s, now) \in Seq(Nat) /\ Append(q, now) \in Seq(Nat)
      /\ Remembers(Append(q, now), Append(s, now), Limit[k], now)
      /\ Spaced(Append(s, now), Limit[k])
  BY <1>1, <1>2, KeyType, Admitted DEF KeyOK
<1>4. TypeOK'
  BY <1>1, <1>3 DEF IInv, TypeOK
<1>5. /\ log'[k] = Append(s, now) /\ buckets'[k] = Append(q, now)
      /\ told'[k] = 0
  BY <1>1 DEF IInv, TypeOK
<1>7. KeyOK(k)'
  BY <1>1, <1>3, <1>5 DEF KeyOK
<1>8. ASSUME NEW j \in Keys, j # k
      PROVE  KeyOK(j)'
  <2>1. /\ KeyOK(j) /\ log'[j] = log[j] /\ buckets'[j] = buckets[j]
        /\ told'[j] = told[j] /\ now' = now
    BY <1>1, <1>8 DEF IInv, TypeOK
  <2> QED
    BY <2>1 DEF KeyOK
<1> QED
  BY <1>4, <1>7, <1>8 DEF IInv

LEMMA RetryAfterBound ==
  ASSUME now \in Nat, NEW q, q[1] \in Nat, q[1] <= now, now - q[1] <= Window,
         Window \in Nat, Second \in Nat \ {0}
  PROVE  /\ RetryAfter(q) \in Nat \ {0}
         /\ q[1] + Window < now + Second * RetryAfter(q) + Second
<1>1. PICK left \in Nat : left = Window - (now - q[1])
  OBVIOUS
<1>2. q[1] + Window = now + left
  BY <1>1
<1>3. PICK whole \in Nat : /\ whole = left \div Second
                          /\ left < Second * whole + Second
  BY RoundDown
<1>4. RetryAfter(q) = IF whole > 1 THEN whole ELSE 1
  BY <1>1, <1>3 DEF RetryAfter
<1>5. CASE whole > 1
  BY <1>2, <1>3, <1>4, <1>5
<1>6. CASE whole <= 1
  <2>1. Second * whole <= Second
    <3>1. whole = 0 \/ whole = 1
      BY <1>6
    <3> QED
      BY <3>1
  <2>2. RetryAfter(q) = 1 /\ Second * 1 = Second
    BY <1>4, <1>6
  <2>3. Second * whole \in Nat
    BY <2>1
  <2> QED
    BY <1>2, <1>3, <2>1, <2>2, <2>3
<1> QED
  BY <1>5, <1>6

\* The header is at most a second short of the moment the window reopens.
LEMMA RefuseIInv ==
  ASSUME IInv, NEW k \in Keys, Refuse(k)
  PROVE  IInv'
<1>1. PICK d \in 0..Len(buckets[k]) :
        LET q == Kept(buckets[k], d) IN
        /\ Expired(buckets[k], d)
        /\ Len(q) >= Limit[k]
        /\ buckets' = [buckets EXCEPT ![k] = q]
        /\ told' = [told EXCEPT ![k] = now + Second * RetryAfter(q)]
        /\ answer' = [answer EXCEPT ![k] = "429"]
        /\ now' = now /\ log' = log
  BY DEF Refuse
<1> DEFINE q == Kept(buckets[k], d)
<1>2. /\ q \in Seq(Nat) /\ Remembers(q, log[k], Limit[k], now)
      /\ Len(q) > 0 => /\ q[1] \in Nat /\ q[1] <= now
                       /\ now - q[1] <= Window
  BY <1>1, KeyType, Sweep
<1>3. /\ Len(q) > 0 /\ q[1] \in Nat
      /\ q[1] <= now /\ now - q[1] <= Window
  <2>1. Len(q) \in Nat /\ Len(q) > 0
    BY <1>1, <1>2, KeyType
  <2> QED
    BY <1>2, <2>1
<1>4. /\ RetryAfter(q) \in Nat \ {0}
      /\ q[1] + Window < now + Second * RetryAfter(q) + Second
  BY <1>3, KeyType, RetryAfterBound
<1>5. /\ buckets'[k] = q /\ log'[k] = log[k]
      /\ told'[k] = now + Second * RetryAfter(q)
  BY <1>1 DEF IInv, TypeOK
<1>6. TypeOK'
  <2>1. now + Second * RetryAfter(q) \in Nat
    BY <1>4, KeyType
  <2> QED
    BY <1>1, <1>2, <2>1 DEF IInv, TypeOK
<1>7. KeyOK(k)'
  BY <1>1, <1>2, <1>3, <1>4, <1>5, KeyType DEF KeyOK
<1>8. ASSUME NEW j \in Keys, j # k
      PROVE  KeyOK(j)'
  <2>1. /\ KeyOK(j) /\ log'[j] = log[j] /\ buckets'[j] = buckets[j]
        /\ told'[j] = told[j] /\ now' = now
    BY <1>1, <1>8 DEF IInv, TypeOK
  <2> QED
    BY <2>1 DEF KeyOK
<1> QED
  BY <1>6, <1>7, <1>8 DEF IInv

LEMMA NextIInv == IInv /\ [Next]_vars => IInv'
<1> SUFFICES ASSUME IInv, [Next]_vars PROVE IInv'
  OBVIOUS
<1>1. CASE Restart
  <2>1. TypeOK'
    BY <1>1 DEF Restart, TypeOK
  <2>2. ASSUME NEW k \in Keys
        PROVE  KeyOK(k)'
    <3>1. /\ buckets'[k] = <<>> /\ log'[k] = <<>> /\ told'[k] = 0
          /\ Limit[k] \in Nat
      BY <1>1, KeyType DEF Restart
    <3> QED
      BY <3>1 DEF KeyOK, Remembers, Spaced, Ascending
  <2> QED
    BY <2>1, <2>2 DEF IInv
<1>2. CASE UNCHANGED vars
  BY <1>2 DEF vars, IInv, TypeOK, KeyOK
<1> QED
  BY <1>1, <1>2, TickIInv, AdmitIInv, RefuseIInv DEF Next

(***************************************************************************)
(* Clock, deques, promises and answers keep their shape, for any instance. *)
(***************************************************************************)
THEOREM TypeCorrect == Spec => []TypeOK
<1>1. IInv => TypeOK
  BY DEF IInv
<1> QED
  BY <1>1, InitIInv, NextIInv, PTL DEF Spec

(***************************************************************************)
(* rate_limit: however the requests are timed, no key is admitted more     *)
(* than its limit in any window.  The deque forgets an entry only when it  *)
(* is older than the window, so counting the deque is counting everything. *)
(***************************************************************************)
THEOREM LimitHolds == Spec => []AtMostLimit
<1>1. IInv => AtMostLimit
  BY DEF IInv, KeyOK, AtMostLimit, Spaced
<1> QED
  BY <1>1, InitIInv, NextIInv, PTL DEF Spec

(***************************************************************************)
(* The sweep: the deque is the tail of the history from the first entry    *)
(* that can still matter, and never longer than the limit.                 *)
(***************************************************************************)
THEOREM DequeIsEnough == Spec => []RemembersEnough
<1>1. IInv => RemembersEnough
  BY DEF IInv, KeyOK, Remembers, RemembersEnough
<1> QED
  BY <1>1, InitIInv, NextIInv, PTL DEF Spec

(***************************************************************************)
(* The Retry-After header is never more than a second short: a client that *)
(* waits that second too and was not admitted meanwhile is let in.         *)
(***************************************************************************)
THEOREM RetryAfterHolds == Spec => RetryAfterIsClose
<1>1. ASSUME IInv, [Next]_vars, NEW k \in Keys, RefusedAgain(k)
      PROVE  now < told[k] + Second
  <2>1. Refuse(k)
    <3>1. told' # told /\ told'[k] # told[k] /\ told'[k] # 0
      BY <1>1 DEF RefusedAgain
    <3>2. ASSUME NEW j \in Keys, Admit(j)
          PROVE  FALSE
      BY <1>1, <3>1, <3>2 DEF Admit, IInv, TypeOK
    <3>3. ASSUME NEW j \in Keys, Refuse(j), j # k
          PROVE  FALSE
      BY <1>1, <3>1, <3>3 DEF Refuse, IInv, TypeOK
    <3>4. ~Tick /\ ~Restart /\ ~(UNCHANGED vars)
      BY <3>1 DEF Tick, Restart, vars
    <3> QED
      BY <1>1, <3>2, <3>3, <3>4 DEF Next
  <2>2. PICK d \in 0..Len(buckets[k]) :
          /\ Expired(buckets[k], d) /\ Len(Kept(buckets[k], d)) >= Limit[k]
    BY <2>1 DEF Refuse
  <2>3. d = 0
    <3>1. /\ Len(Kept(buckets[k], d)) = Len(buckets[k]) - d
          /\ Len(buckets[k]) <= Limit[k]
      <4>1. Len(Kept(buckets[k], d)) = Len(buckets[k]) - d
        BY <1>1, <2>2, KeyType, Sweep
      <4>2. Len(buckets[k]) <= Limit[k]
        BY <1>1, KeyType DEF Remembers
      <4> QED
        BY <4>1, <4>2
    <3> QED
      BY <1>1, <2>2, <3>1, KeyType
  <2>4. /\ Len(buckets[k]) > 0 /\ buckets[k][1] + Window < told[k] + Second
        /\ buckets[k][1] \in Nat
    <3>1. told[k] # 0
      BY <1>1 DEF RefusedAgain
    <3> QED
      BY <1>1, <3>1, KeyType DEF KeyOK
  <2>5. now - buckets[k][1] <= Window
    BY <1>1, <2>2, <2>3, <2>4, KeyType DEF Expired
  <2> QED
    BY <1>1, <2>4, <2>5, KeyType
<1>2. IInv /\ [Next]_vars =>
        [\A k \in Keys : RefusedAgain(k) => now < told[k] + Second]_vars
  BY <1>1
<1> QED
  BY <1>2, InitIInv, NextIInv, PTL DEF Spec, RetryAfterIsClose

-----------------------------------------------------------------------------
LEMMA SameCardinality ==
  ASSUME NEW S
  PROVE  Promise!Cardinality(S) = Cardinality(S)
BY DEF Promise!Cardinality, Cardinality

\* What the deque keeps is exactly what the promise counts.
LEMMA DequeCounts ==
  ASSUME IInv, NEW k \in Keys, NEW d \in 0..Len(buckets[k]),
         Expired(buckets[k], d)
  PROVE  Cardinality(Promise!Recent(k)) = Len(Kept(buckets[k], d))
<1> DEFINE q == Kept(buckets[k], d)
<1>1. /\ q \in Seq(Nat) /\ Remembers(q, log[k], Limit[k], now)
      /\ \A i \in 1..Len(log[k]) :
           i > Len(log[k]) - Len(q) <=> now - log[k][i] <= Window
  BY KeyType, Sweep
<1>2. /\ Len(log[k]) \in Nat /\ Len(q) \in Nat
      /\ Len(log[k]) - Len(q) \in Nat
  BY <1>1, KeyType DEF Remembers
<1>3. PICK n \in Nat, m \in Nat, gone \in Nat :
        n = Len(log[k]) /\ m = Len(q) /\ gone = n - m
  BY <1>2
<1>4. \A i \in 1..n : i > gone <=> now - log[k][i] <= Window
  BY <1>1, <1>3
<1>5. Promise!Recent(k) = (gone + 1)..n
  <2>1. Promise!Recent(k) = {i \in 1..n : now - log[k][i] <= Window}
    BY <1>3, KeyType DEF Promise!Recent
  <2>2. {i \in 1..n : now - log[k][i] <= Window} = {i \in 1..n : i > gone}
    BY <1>4
  <2>3. {i \in 1..n : i > gone} = (gone + 1)..n
    OBVIOUS
  <2> QED
    BY <2>1, <2>2, <2>3
<1>6. Cardinality((gone + 1)..n) = m
  <2>1. Cardinality((gone + 1)..n) =
          IF gone + 1 > n THEN 0 ELSE n - (gone + 1) + 1
    BY FS_Interval
  <2>2. CASE m = 0
    BY <1>3, <2>1, <2>2
  <2>3. CASE m # 0
    <3>1. ~(gone + 1 > n) /\ n - (gone + 1) + 1 = m
      <4>1. \A a, b \in Nat : b <= a /\ b # 0 =>
              LET c == a - b IN ~(c + 1 > a) /\ a - (c + 1) + 1 = b
        OBVIOUS
      <4>2. m <= n
        BY <1>3
      <4> QED
        BY <1>3, <2>3, <4>1, <4>2
    <3> QED
      BY <2>1, <3>1
  <2> QED
    BY <2>2, <2>3
<1> QED
  BY <1>3, <1>5, <1>6

(***************************************************************************)
(* The limiter implements its promise: each request is admitted exactly    *)
(* when fewer than the limit were admitted in the window that ends now.    *)
(***************************************************************************)
THEOREM KeepsThePromise == Spec => ImplementsPromise
<1>1. Init => Promise!Init
  BY DEF Init, Promise!Init
<1>2. ASSUME IInv, [Next]_vars
      PROVE  [Promise!Next]_Promise!vars
  <2>1. CASE Tick
    BY <1>2, <2>1 DEF Tick, IInv, TypeOK, Promise!Next, Promise!Tick
  <2>2. CASE Restart
    BY <2>2 DEF Restart, Promise!Next, Promise!Restart
  <2>3. ASSUME NEW k \in Keys, Admit(k)
        PROVE  Promise!Admit(k)
    <3>1. PICK d \in 0..Len(buckets[k]) :
            /\ Expired(buckets[k], d)
            /\ Len(Kept(buckets[k], d)) < Limit[k]
      BY <2>3 DEF Admit
    <3>2. Cardinality(Promise!Recent(k)) = Len(Kept(buckets[k], d))
      BY <1>2, <3>1, DequeCounts
    <3>3. /\ log' = [log EXCEPT ![k] = Append(@, now)]
          /\ answer' = [answer EXCEPT ![k] = "ok"] /\ now' = now
      BY <2>3 DEF Admit
    <3> QED
      BY <3>1, <3>2, <3>3, SameCardinality DEF Promise!Admit
  <2>4. ASSUME NEW k \in Keys, Refuse(k)
        PROVE  Promise!Refuse(k)
    <3>1. PICK d \in 0..Len(buckets[k]) :
            /\ Expired(buckets[k], d)
            /\ Len(Kept(buckets[k], d)) >= Limit[k]
      BY <2>4 DEF Refuse
    <3>2. Cardinality(Promise!Recent(k)) = Len(Kept(buckets[k], d))
      BY <1>2, <3>1, DequeCounts
    <3>3. /\ answer' = [answer EXCEPT ![k] = "429"] /\ now' = now
          /\ log' = log
      BY <2>4 DEF Refuse
    <3> QED
      BY <3>1, <3>2, <3>3, SameCardinality DEF Promise!Refuse
  <2>5. CASE UNCHANGED vars
    BY <2>5 DEF vars, Promise!vars
  <2> QED
    BY <1>2, <2>1, <2>2, <2>3, <2>4, <2>5 DEF Next, Promise!Next
<1> QED
  BY <1>1, <1>2, InitIInv, NextIInv, PTL
  DEF Spec, ImplementsPromise, Promise!Spec
=============================================================================
