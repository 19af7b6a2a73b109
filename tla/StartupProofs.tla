---------------------------- MODULE StartupProofs ----------------------------
(***************************************************************************)
(* Startup, for any number of instances, releases, keys, edits, boots and  *)
(* crashes.                                                                *)
(*                                                                         *)
(* Each script is shown to leave alone what it has no business with        *)
(* (Keeps), except seven, which have lemmas of their own.  From that comes *)
(* the outcome of every step of the chain, on any database, and from the   *)
(* outcomes an invariant that does not depend on which boots overlap: a    *)
(* script may do its work, or find it done, at any time.  A save that      *)
(* falls between the read and the write of a step is written over by it,   *)
(* so it leaves the database as the step alone would have.                 *)
(***************************************************************************)
EXTENDS Startup, FiniteSetTheorems, WellFoundedInduction, TLAPS

(***************************************************************************)
(* Natural numbers: what follows from the library without an operator.     *)
(***************************************************************************)

\* A non-empty set of natural numbers has a least member: of the intervals
\* from zero to a member, which are finite sets, one has no smaller one.
LEMMA Least ==
  ASSUME NEW S \in SUBSET Nat, S # {}
  PROVE  \E n \in S : \A m \in S : n <= m
<1> DEFINE Upto(n) == 0..n
           T == {Upto(n) : n \in S}
           F == FiniteSubsetsOf(Nat)
           R == StrictSubsetOrdering(Nat)
<1>1. T \subseteq F /\ T # {}
  <2>1. \A n \in S : Upto(n) \in SUBSET Nat /\ IsFiniteSet(Upto(n))
    BY FS_Interval
  <2> HIDE DEF Upto
  <2> QED BY <2>1 DEF FiniteSubsetsOf
<1>2. IsWellFoundedOn(R, F)
  BY FS_StrictSubsetOrderingWellFounded
<1>3. PICK U \in T : \A V \in T : ~ (<<V, U>> \in R)
  <2> HIDE DEF T, R, F
  <2> QED BY <1>1, <1>2, WFMin
<1>4. PICK n \in S : U = Upto(n)
  OBVIOUS
<1>5. ASSUME NEW m \in S, m < n PROVE FALSE
  <2>1. Upto(m) \subseteq Upto(n) /\ n \in Upto(n) /\ n \notin Upto(m)
    BY <1>5
  <2>2. Upto(m) \in SUBSET Nat /\ Upto(n) \in SUBSET Nat
    OBVIOUS
  <2>3. <<Upto(m), Upto(n)>> \in R
    <3> HIDE DEF Upto
    <3> QED BY <2>1, <2>2 DEF StrictSubsetOrdering
  <2> QED BY <1>3, <1>4, <2>3
<1> QED BY <1>5

\* Min of such a set is that member (the operator of Migrations).
LEMMA MinOf ==
  ASSUME NEW S \in SUBSET Nat, S # {}
  PROVE  Min(S) \in S /\ \A m \in S : Min(S) <= m
BY Least DEF Min

\* Induction over the natural numbers, for a set that is closed.
LEMMA ByInduction ==
  ASSUME NEW S \in SUBSET Nat, 0 \in S, \A n \in S : n + 1 \in S
  PROVE  S = Nat
<1>1. SUFFICES ASSUME Nat \ S # {} PROVE FALSE
  OBVIOUS
<1>2. PICK n \in Nat \ S : \A m \in Nat \ S : n <= m
  BY <1>1, Least
<1>3. n # 0 /\ n - 1 \in Nat /\ n - 1 \in S
  BY <1>2
<1> QED BY <1>2, <1>3

\* The places of the steps that the proofs name.
LEMMA ChainIs ==
  /\ Len(Chain) = 50
  /\ Chain[1] = "init_db" /\ Chain[2] = "pre_ddl" /\ Chain[3] = "has_products"
  /\ Chain[4] = "wipe" /\ Chain[5] = "load" /\ Chain[6] = "v2" /\ Chain[7] = "v3"
  /\ \A n \in 1..50 : Chain[n] = "v17" <=> n = 21
  /\ \A n \in 1..50 : Chain[n] = "v2" <=> n = 6
  /\ \A n \in 1..50 : Chain[n] = "v37_7" <=> n = 43
BY DEF Chain

(***************************************************************************)
(* Databases, and scripts that keep what lasts.                            *)
(***************************************************************************)

\* What a secret may be encrypted with, Plain for not at all.
Sealers == {Plain, Lost} \cup Instances \cup {Head(r) : r \in KeyRings \ {<<>>}}

\* The values of items, the sections of a prompt, the texts of a secret.
Words ==
  {"missing", "", "seed", "own", "yes", "no", "true", "false", "none", "test",
   "empty", "default", "v6", "v22", "v23", "v24", "v25", "v27", "v33", "v34",
   "v36", "v38", "placeholder", "bulk_break", "per_sqm", "per_sheet", "manual",
   "books", "pads", "single", "text", "list", "small_format", "business_cards",
   "intro", "contact", "tone", "legacy", "old", "new"}
  \cup {e[2] : e \in Edits}

Database ==
  [cols: SUBSET (AllCols \cup {"v0"}), val: [Items -> Words],
   prompt: Seq(Words), secret: [text: Words, key: Sealers]]

\* The scripts have no business with the value v of item x.
Lasts(x, v) == x \notin {"artwork", "last_known"} /\ v # Missing /\ ~Undone(x, v)

\* What a load of the catalogue makes.
Stocked == PricingItems \ {"posters", "secretest"}

Bare(d) == \A x \in Stocked : d.val[x] = Missing

\* What a script does that is not one of the seven special ones.
Keeps(d, e) ==
  /\ e \in Database /\ d.cols \subseteq e.cols
  /\ \A x \in Items : Lasts(x, d.val[x]) => e.val[x] = d.val[x]
  /\ Bare(d) => Bare(e)
  /\ e.val["last_known"] = d.val["last_known"]
  /\ e.prompt = d.prompt /\ e.secret = d.secret

\* The values that the scripts write are words.
LEMMA WordsAre ==
  /\ Missing \in Words /\ "" \in Words /\ "seed" \in Words /\ "own" \in Words
  /\ "yes" \in Words /\ "no" \in Words /\ "true" \in Words /\ "false" \in Words
  /\ "none" \in Words /\ "test" \in Words /\ "empty" \in Words
  /\ "default" \in Words /\ "v6" \in Words /\ "v22" \in Words /\ "v23" \in Words
  /\ "v24" \in Words /\ "v25" \in Words /\ "v27" \in Words /\ "v33" \in Words
  /\ "v34" \in Words /\ "v36" \in Words /\ "v38" \in Words
  /\ "placeholder" \in Words /\ "bulk_break" \in Words /\ "per_sqm" \in Words
  /\ "per_sheet" \in Words /\ "manual" \in Words /\ "books" \in Words
  /\ "pads" \in Words /\ "single" \in Words /\ "text" \in Words
  /\ "list" \in Words /\ "small_format" \in Words /\ "business_cards" \in Words
  /\ "intro" \in Words /\ "contact" \in Words /\ "tone" \in Words
  /\ "legacy" \in Words /\ "old" \in Words /\ "new" \in Words
  /\ \A e \in Edits : e[2] \in Words
BY DEF Words, Missing

\* A script that changes nothing keeps everything.
LEMMA KeepsSame == ASSUME NEW d \in Database PROVE Keeps(d, d)
BY DEF Keeps

\* Scripts that keep do so one after the other.
LEMMA KeepsTrans ==
  ASSUME NEW d, NEW e, NEW f, Keeps(d, e), Keeps(e, f) PROVE Keeps(d, f)
<1>1. \A x \in Items : Lasts(x, d.val[x]) => f.val[x] = d.val[x]
  BY DEF Keeps
<1> QED BY <1>1 DEF Keeps

\* The items that the invariant names.
LEMMA ItemNames ==
  /\ "last_known" \in Items /\ "catalogue" \in Items /\ "missive_enabled" \in Items
  /\ Stocked \subseteq Items /\ "catalogue" \in Stocked
  /\ PricingItems \subseteq Items /\ "last_known" \notin PricingItems
BY DEF Items, Settings, PricingItems, ProductItems, Stocked

\* New values keep, if they spare what lasts and stock no empty catalogue.
LEMMA Revalued ==
  ASSUME NEW d \in Database, NEW v \in [Items -> Words],
         \A x \in Items : Lasts(x, d.val[x]) => v[x] = d.val[x],
         Bare(d) => \A x \in Stocked : v[x] = Missing,
         v["last_known"] = d.val["last_known"]
  PROVE  Keeps(d, [d EXCEPT !.val = v])
<1> DEFINE e == [d EXCEPT !.val = v]
<1>1. /\ e \in Database /\ e.cols = d.cols /\ e.val = v
      /\ e.prompt = d.prompt /\ e.secret = d.secret
  BY DEF Database
<1> HIDE DEF e
<1>2. Keeps(d, e)
  BY <1>1 DEF Keeps, Bare
<1> QED BY <1>2 DEF e

\* A value written over one that does not last.
LEMMA KeepsPut ==
  ASSUME NEW d \in Database, NEW x \in Items, NEW v \in Words, ~Lasts(x, d.val[x]),
         x # "last_known", x \in Stocked => ~Bare(d)
  PROVE  /\ Keeps(d, Put(d, x, v))
         /\ Put(d, x, v).val = [d.val EXCEPT ![x] = v]
<1>1. d.val \in [Items -> Words] /\ "last_known" \in Items /\ Stocked \subseteq Items
  BY ItemNames DEF Database
<1> DEFINE w == [d.val EXCEPT ![x] = v]
<1>2. w \in [Items -> Words] /\ w["last_known"] = d.val["last_known"]
      /\ \A y \in Items : y # x => w[y] = d.val[y]
  BY <1>1
<1> HIDE DEF w
<1>3. Keeps(d, [d EXCEPT !.val = w])
  <2>1. Bare(d) => \A y \in Stocked : w[y] = Missing
    BY <1>1, <1>2 DEF Bare
  <2> QED BY <1>2, <2>1, Revalued
<1>4. Put(d, x, v) = [d EXCEPT !.val = w]
  BY DEF Put, w, Database
<1>5. [d EXCEPT !.val = w].val = w
  BY DEF Database
<1> QED BY <1>3, <1>4, <1>5 DEF w

\* A value seeded where none is, outside the loaded catalogue.
LEMMA KeepsSeed ==
  ASSUME NEW d \in Database, NEW x \in Items, NEW v \in Words,
         x \notin Stocked, x # "last_known"
  PROVE  Keeps(d, Seed(d, x, v))
BY KeepsPut, KeepsSame DEF Seed, Lasts

\* Several values seeded.
LEMMA KeepsSeedAll ==
  ASSUME NEW d \in Database, NEW X, X \cap Stocked = {}, "last_known" \notin X
  PROVE  Keeps(d, SeedAll(d, X))
<1>1. d.val \in [Items -> Words] /\ "last_known" \in Items /\ Stocked \subseteq Items
  BY ItemNames DEF Database
<1> DEFINE w == [x \in Items |-> IF x \in X /\ d.val[x] = Missing THEN "seed" ELSE d.val[x]]
<1>2. /\ w \in [Items -> Words] /\ w["last_known"] = d.val["last_known"]
      /\ \A x \in Items : d.val[x] # Missing \/ x \notin X => w[x] = d.val[x]
  <2>1. \A x \in Items : d.val[x] \in Words /\ "seed" \in Words
    BY <1>1, WordsAre
  <2>2. w \in [Items -> Words]
    BY <2>1
  <2>3. \A x \in Items : d.val[x] # Missing \/ x \notin X => w[x] = d.val[x]
    OBVIOUS
  <2> QED BY <1>1, <2>2, <2>3
<1>3. SeedAll(d, X) = [d EXCEPT !.val = w]
  BY DEF SeedAll, Database
<1> HIDE DEF w
<1>4. Keeps(d, [d EXCEPT !.val = w])
  <2>1. Bare(d) => \A y \in Stocked : w[y] = Missing
    BY <1>1, <1>2 DEF Bare
  <2>2. \A x \in Items : Lasts(x, d.val[x]) => w[x] = d.val[x]
    BY <1>2 DEF Lasts
  <2> QED BY <1>2, <2>1, <2>2, Revalued
<1> QED BY <1>3, <1>4

\* A value exchanged for another, if the ones exchanged do not last.
LEMMA KeepsSwap ==
  ASSUME NEW d \in Database, NEW x \in Items, NEW S, NEW v \in Words,
         \A u \in S : u # Missing /\ ~Lasts(x, u), x # "last_known"
  PROVE  Keeps(d, Swap(d, x, S, v))
<1>1. CASE d.val[x] \in S
  <2>1. x \in Stocked => ~Bare(d)
    BY <1>1 DEF Bare
  <2> QED BY <1>1, <2>1, KeepsPut DEF Swap
<1>2. CASE d.val[x] \notin S
  BY <1>2, KeepsSame DEF Swap
<1> QED BY <1>1, <1>2

\* Columns added.
LEMMA KeepsCols ==
  ASSUME NEW d \in Database, NEW C \in SUBSET AllCols
  PROVE  /\ Keeps(d, AddCols(d, C))
         /\ AddCols(d, C).cols = d.cols \cup C
         /\ AddCols(d, C).val = d.val
<1> DEFINE e == AddCols(d, C)
<1>1. /\ e \in Database /\ e.cols = d.cols \cup C /\ e.val = d.val
      /\ e.prompt = d.prompt /\ e.secret = d.secret
  BY DEF AddCols, Database
<1> HIDE DEF e
<1>2. Keeps(d, e)
  BY <1>1 DEF Keeps, Bare
<1> QED BY <1>1, <1>2 DEF e

\* What is kept is a database.
LEMMA KeepsTyped == ASSUME NEW d, NEW e, Keeps(d, e) PROVE e \in Database
BY DEF Keeps

\* The settings and the other items that no load makes.
LEMMA Loose ==
  /\ \A x \in Settings \cup {"taxes", "categories", "artwork", "posters", "secretest"} :
       x \in Items /\ x \notin Stocked
  /\ "last_known" \in Settings
BY DEF Items, Settings, Stocked, PricingItems, ProductItems

\* Settings seeded, all but the address that v37_7 remembers.
LEMMA SeedsKeep ==
  ASSUME NEW d \in Database, NEW X \in SUBSET (Settings \ {"last_known"})
  PROVE  Keeps(d, SeedAll(d, X))
BY Loose, KeepsSeedAll

\* What the scripts write at every boot does not last.
LEMMA PutsKeep ==
  ASSUME NEW d \in Database, NEW v \in Words,
         NEW x \in {"business_rules", "notifications_enabled", "shop_address",
                    "order_status", "secretest", "stripe_secret_key", "missive_enabled"}
  PROVE  Keeps(d, Put(d, x, v))
<1>1. x \in Items /\ x \notin Stocked /\ x # "last_known" /\ ~Lasts(x, d.val[x])
  <2>1. x \in Settings \cup {"secretest"} /\ x # "last_known"
    BY DEF Settings
  <2>2. ~Lasts(x, d.val[x])
    BY DEF Lasts, Undone
  <2> QED BY <2>1, <2>2, Loose
<1> QED BY <1>1, KeepsPut

(***************************************************************************)
(* Script by script: the ordinary ones keep.                               *)
(***************************************************************************)

\* The columns of startup, v2, v3, v6, v8 and v9.
LEMMA FirstKeep ==
  ASSUME NEW d \in Database
  PROVE  /\ Keeps(d, InitDb(d)) /\ Keeps(d, PreDdl(d)) /\ Keeps(d, V2(d))
         /\ Keeps(d, V3(d)) /\ Keeps(d, V6(d)) /\ Keeps(d, V8(d)) /\ Keeps(d, V9(d))
         /\ d.cols = {} => InitDb(d).cols = AllCols
         /\ {"v34", "v36", "v38", "v39", "v41"} \subseteq PreDdl(d).cols
         /\ "v2" \in V2(d).cols /\ "v3" \in V3(d).cols
<1>1. Keeps(d, InitDb(d)) /\ (d.cols = {} => InitDb(d).cols = AllCols)
  <2>1. CASE d.cols = {}
    <3>1. InitDb(d) = AddCols(d, AllCols)
      BY <2>1 DEF InitDb
    <3>2. {} \cup AllCols = AllCols
      OBVIOUS
    <3>3. /\ Keeps(d, AddCols(d, AllCols))
          /\ AddCols(d, AllCols).cols = d.cols \cup AllCols
      BY KeepsCols
    <3> QED BY <2>1, <3>1, <3>2, <3>3
  <2>2. CASE d.cols # {}
    BY <2>2, KeepsSame DEF InitDb
  <2> QED BY <2>1, <2>2
<1>2. Keeps(d, PreDdl(d)) /\ {"v34", "v36", "v38", "v39", "v41"} \subseteq PreDdl(d).cols
  BY KeepsCols DEF PreDdl, AllCols
<1>3. Keeps(d, V2(d)) /\ "v2" \in V2(d).cols
  <2>1. Keeps(d, V2Columns(d)) /\ "v2" \in V2Columns(d).cols
    BY KeepsCols DEF V2Columns, AllCols
  <2>2. ASSUME NEW e \in Database, NEW x \in {"vinyl_strategy", "board_strategy"}
        PROVE  Keeps(e, Swap(e, x, {""}, "bulk_break"))
    <3>1. x \in Items /\ x # "last_known"
      BY DEF Items, PricingItems, ProductItems
    <3>2. \A u \in {""} : u # Missing /\ ~Lasts(x, u)
      BY DEF Lasts, Undone, Missing
    <3> QED BY <3>1, <3>2, WordsAre, KeepsSwap
  <2>3. \A e \in Database : Keeps(e, V2Strategies(e))
    BY <2>2, KeepsTrans, KeepsTyped DEF V2Strategies
  <2>4. \A e \in Database : Keeps(e, V2Taxes(e))
    BY KeepsSeed, Loose, WordsAre DEF V2Taxes
  <2>5. Keeps(V2Columns(d), V2(d))
    BY <2>1, <2>3, <2>4, KeepsTrans, KeepsTyped DEF V2
  <2>6. Keeps(d, V2(d))
    BY <2>1, <2>5, KeepsTrans
  <2>7. V2Columns(d).cols \subseteq V2(d).cols
    BY <2>5 DEF Keeps
  <2> QED BY <2>1, <2>6, <2>7
<1>4. Keeps(d, V3(d)) /\ "v3" \in V3(d).cols
  <2>1. Keeps(d, AddCols(d, {"v3"})) /\ "v3" \in AddCols(d, {"v3"}).cols
    BY KeepsCols DEF AllCols
  <2>2. \A e \in Database : Keeps(e, Seed(e, "categories", "seed"))
    BY KeepsSeed, Loose, WordsAre
  <2>3. Keeps(AddCols(d, {"v3"}), V3(d))
    BY <2>1, <2>2, KeepsSame, KeepsTyped DEF V3
  <2>4. Keeps(d, V3(d))
    BY <2>1, <2>3, KeepsTrans
  <2>5. AddCols(d, {"v3"}).cols \subseteq V3(d).cols
    BY <2>3 DEF Keeps
  <2> QED BY <2>1, <2>4, <2>5
<1>5. ASSUME NEW S \in SUBSET {"empty", "v6"}
      PROVE  Keeps(d, Swap(d, "business_rules", S, "default"))
  <2>1. "business_rules" \in Items
    BY Loose DEF Settings
  <2>2. \A u \in S : u # Missing /\ ~Lasts("business_rules", u)
    BY DEF Lasts, Undone, Missing
  <2> QED BY <2>1, <2>2, WordsAre, KeepsSwap
<1>6. Keeps(d, V6(d)) /\ Keeps(d, V8(d))
  BY <1>5 DEF V6, V8
<1>7. Keeps(d, V9(d))
  <2>1. ASSUME NEW e \in Database, NEW x \in {"missive_enabled", "missive_from_address"},
               NEW v \in Words
        PROVE  Keeps(e, Seed(e, x, v))
    BY KeepsSeed, Loose DEF Settings
  <2>2. \A e \in Database : Keeps(e, SeedAll(e, {"missive"}))
    BY SeedsKeep DEF Settings
  <2>3. Keeps(d, Seed(d, "missive_enabled", "false"))
    BY <2>1, WordsAre
  <2>4. Keeps(d, Seed(Seed(d, "missive_enabled", "false"), "missive_from_address", "test"))
    BY <2>1, <2>3, WordsAre, KeepsTrans, KeepsTyped
  <2>5. Keeps(d, SeedAll(Seed(Seed(d, "missive_enabled", "false"),
                              "missive_from_address", "test"), {"missive"}))
    BY <2>2, <2>4, KeepsTrans, KeepsTyped
  <2> QED BY <2>5, KeepsSame DEF V9, ForShops
<1> QED BY <1>1, <1>2, <1>3, <1>4, <1>6, <1>7

\* v10 to v21.
LEMMA SecondKeep ==
  ASSUME NEW d \in Database
  PROVE  /\ Keeps(d, V10(d)) /\ Keeps(d, V11(d)) /\ Keeps(d, V12(d)) /\ Keeps(d, V13(d))
         /\ Keeps(d, V14(d)) /\ Keeps(d, V15(d)) /\ Keeps(d, V16(d)) /\ Keeps(d, V18(d))
         /\ Keeps(d, V19(d)) /\ Keeps(d, V20(d)) /\ Keeps(d, V21(d))
<1>1. Keeps(d, V10(d))
  <2>0. /\ "soft_touch_price" \in Items /\ "soft_touch_category" \in Items
        /\ "soft_touch_price" \in Stocked /\ "soft_touch_category" \in Stocked
    BY DEF Items, Stocked, PricingItems
  <2>1. \A v : ~Lasts("soft_touch_price", v) /\ ~Lasts("soft_touch_category", v)
    BY DEF Lasts, Undone
  <2>2. CASE d.val["soft_touch_price"] # Missing
    <3> DEFINE e == Put(d, "soft_touch_price", "seed")
    <3>1. ~Bare(d)
      BY <2>0, <2>2 DEF Bare
    <3>2. Keeps(d, e) /\ e.val = [d.val EXCEPT !["soft_touch_price"] = "seed"]
      BY <2>0, <2>1, <3>1, WordsAre, KeepsPut
    <3> HIDE DEF e
    <3>3. e \in Database /\ e.val["soft_touch_price"] = "seed"
      BY <2>0, <3>2, KeepsTyped DEF Database
    <3>4. ~Bare(e)
      BY <2>0, <3>3 DEF Bare, Missing
    <3>5. Keeps(e, Put(e, "soft_touch_category", "small_format"))
      BY <2>0, <2>1, <3>3, <3>4, WordsAre, KeepsPut
    <3>6. Keeps(d, Put(e, "soft_touch_category", "small_format"))
      BY <3>2, <3>5, KeepsTrans
    <3> QED BY <3>6, KeepsSame DEF V10, e
  <2>3. CASE d.val["soft_touch_price"] = Missing
    BY <2>3, KeepsSame DEF V10
  <2> QED BY <2>2, <2>3
<1>2. Keeps(d, V11(d))
  <2>1. "silk" \in Items
    BY DEF Items, PricingItems, ProductItems
  <2>2. \A u \in {"no"} : u # Missing /\ ~Lasts("silk", u)
    BY DEF Lasts, Undone, Missing
  <2> QED BY <2>1, <2>2, WordsAre, KeepsSwap DEF V11
<1>3. Keeps(d, V12(d)) /\ Keeps(d, V15(d)) /\ Keeps(d, V20(d))
  BY KeepsCols DEF V12, V15, V20, AllCols
<1>4. Keeps(d, V13(d)) /\ Keeps(d, V14(d)) /\ Keeps(d, V16(d))
  BY SeedsKeep, KeepsSame DEF V13, V14, V16, ForShops, Settings
<1>5. Keeps(d, V18(d)) /\ Keeps(d, V21(d))
  BY PutsKeep, WordsAre DEF V18, V21
<1>6. Keeps(d, V19(d))
  <2>1. Keeps(d, AddCols(d, {"v19"}))
    BY KeepsCols DEF AllCols
  <2>2. \A e \in Database : Keeps(e, SeedAll(e, {"auto_draft"}))
    BY SeedsKeep DEF Settings
  <2> QED BY <2>1, <2>2, KeepsTrans, KeepsTyped DEF V19
<1> QED BY <1>1, <1>2, <1>3, <1>4, <1>5, <1>6

\* The rules are written anew.
LEMMA RulesKeep ==
  ASSUME NEW d \in Database, NEW v \in Words PROVE Keeps(d, Rules(d, v))
BY PutsKeep DEF Rules

\* v22 to v33.
LEMMA ThirdKeep ==
  ASSUME NEW d \in Database
  PROVE  /\ Keeps(d, V22(d)) /\ Keeps(d, V23(d)) /\ Keeps(d, V24(d))
         /\ Keeps(d, V25Artwork(d)) /\ Keeps(d, V25Rules(d)) /\ Keeps(d, V26(d))
         /\ Keeps(d, V27(d)) /\ Keeps(d, V30(d)) /\ Keeps(d, V31(d)) /\ Keeps(d, V33(d))
<1>1. \A e \in Database : /\ Keeps(e, AddCols(e, {"v22"})) /\ Keeps(e, AddCols(e, {"v23"}))
                          /\ Keeps(e, AddCols(e, {"v24"})) /\ Keeps(e, AddCols(e, {"v25"}))
                          /\ Keeps(e, AddCols(e, {"v30"})) /\ Keeps(e, AddCols(e, {"v33"}))
  BY KeepsCols DEF AllCols
<1>2. \A e \in Database : /\ Keeps(e, SeedAll(e, {"faqs"})) /\ Keeps(e, SeedAll(e, {"shipping"}))
                          /\ Keeps(e, SeedAll(e, {"auto_send"}))
                          /\ Keeps(e, SeedAll(e, {"notify_to"}))
  BY SeedsKeep DEF Settings
<1>3. Keeps(d, V22(d))
  <2>1. \A e \in Database : Keeps(e, Seed(e, "shop_address", "placeholder"))
    BY KeepsSeed, Loose, WordsAre DEF Settings
  <2>2. \A e \in Database : Keeps(e, Rules(e, "v22"))
    BY RulesKeep, WordsAre
  <2>3. Keeps(d, SeedAll(AddCols(d, {"v22"}), {"faqs"}))
    BY <1>1, <1>2, KeepsTrans, KeepsTyped
  <2>4. Keeps(d, Seed(SeedAll(AddCols(d, {"v22"}), {"faqs"}), "shop_address", "placeholder"))
    BY <2>1, <2>3, KeepsTrans, KeepsTyped
  <2> QED BY <2>2, <2>4, KeepsTrans, KeepsTyped DEF V22
<1>4. Keeps(d, V23(d))
  <2>1. \A e \in Database : Keeps(e, Put(e, "shop_address", "seed"))
    BY PutsKeep, WordsAre
  <2>2. \A e \in Database : Keeps(e, Rules(e, "v23"))
    BY RulesKeep, WordsAre
  <2>3. Keeps(d, Put(AddCols(d, {"v23"}), "shop_address", "seed"))
    BY <1>1, <2>1, KeepsTrans, KeepsTyped
  <2>4. Keeps(d, SeedAll(Put(AddCols(d, {"v23"}), "shop_address", "seed"), {"shipping"}))
    BY <1>2, <2>3, KeepsTrans, KeepsTyped
  <2> QED BY <2>2, <2>4, KeepsTrans, KeepsTyped DEF V23
<1>5. Keeps(d, V24(d))
  <2>1. \A e \in Database : Keeps(e, Rules(e, "v24"))
    BY RulesKeep, WordsAre
  <2> QED BY <1>1, <2>1, KeepsTrans, KeepsTyped DEF V24
<1>6. ASSUME NEW e \in Database, NEW S \in SUBSET {"single", "text"}, NEW v \in Words
      PROVE  Keeps(e, Swap(e, "artwork", S, v))
  <2>1. "artwork" \in Items
    BY Loose
  <2>2. \A u \in S : u # Missing /\ ~Lasts("artwork", u)
    BY DEF Lasts, Missing
  <2> QED BY <2>1, <2>2, KeepsSwap
<1>7. Keeps(d, V25Artwork(d)) /\ Keeps(d, V26(d))
  <2>1. \A e \in Database : Keeps(e, Swap(e, "artwork", {"single"}, "text"))
    BY <1>6, WordsAre
  <2>2. Keeps(d, V25Artwork(d))
    BY <1>1, <2>1, KeepsTrans, KeepsTyped DEF V25Artwork
  <2>3. Keeps(d, V26(d))
    BY <1>6, WordsAre DEF V26
  <2> QED BY <2>2, <2>3
<1>8. Keeps(d, V25Rules(d))
  BY RulesKeep, WordsAre DEF V25Rules
<1>9. Keeps(d, V27(d))
  <2>1. Keeps(d, Put(d, "order_status", "seed"))
    BY PutsKeep, WordsAre
  <2>2. \A e \in Database : Keeps(e, Rules(e, "v27"))
    BY RulesKeep, WordsAre
  <2> QED BY <2>1, <2>2, KeepsTrans, KeepsTyped DEF V27
<1>10. Keeps(d, V30(d)) /\ Keeps(d, V31(d))
  BY <1>1, <1>2 DEF V30, V31
<1>11. Keeps(d, V33(d))
  <2>1. \A e \in Database : Keeps(e, Put(e, "notifications_enabled", "true"))
    BY PutsKeep, WordsAre
  <2>2. \A e \in Database : Keeps(e, Rules(e, "v33"))
    BY RulesKeep, WordsAre
  <2>3. Keeps(d, Put(AddCols(d, {"v33"}), "notifications_enabled", "true"))
    BY <1>1, <2>1, KeepsTrans, KeepsTyped
  <2>4. Keeps(d, SeedAll(Put(AddCols(d, {"v33"}), "notifications_enabled", "true"), {"notify_to"}))
    BY <1>2, <2>3, KeepsTrans, KeepsTyped
  <2> QED BY <2>2, <2>4, KeepsTrans, KeepsTyped DEF V33
<1> QED BY <1>3, <1>4, <1>5, <1>7, <1>8, <1>9, <1>10, <1>11

\* v34 to v37_6.
LEMMA FourthKeep ==
  ASSUME NEW d \in Database
  PROVE  /\ Keeps(d, V34Flip(d)) /\ Keeps(d, V34Rules(d)) /\ Keeps(d, V35(d))
         /\ Keeps(d, V36Strategies(d)) /\ Keeps(d, V36Rules(d))
         /\ Keeps(d, V37Threshold(d)) /\ Keeps(d, V37Flags(d))
<1>1. \A e \in Database : /\ Keeps(e, AddCols(e, {"v34"})) /\ Keeps(e, AddCols(e, {"v35"}))
                          /\ Keeps(e, AddCols(e, {"v36"})) /\ Keeps(e, AddCols(e, {"v37"}))
  BY KeepsCols DEF AllCols
<1>2. \A e \in Database : /\ Keeps(e, SeedAll(e, {"poa_keywords"}))
                          /\ Keeps(e, SeedAll(e, {"alert_email"}))
                          /\ Keeps(e, SeedAll(e, {"threshold"}))
  BY SeedsKeep DEF Settings
<1>0. \A x \in {"vinyl_manual", "vinyl_strategy", "board_strategy", "soft_touch_keys",
                "soft_touch_category"} : x \in Items /\ x \in Stocked /\ x # "last_known"
  BY DEF Items, Stocked, PricingItems, ProductItems
<1>3. ASSUME NEW e \in Database, NEW u \in {"yes", "no"}, NEW v \in Words
      PROVE  Keeps(e, Swap(e, "vinyl_manual", {u}, v))
  <2>1. u # Missing /\ ~Lasts("vinyl_manual", u)
    BY DEF Lasts, Undone, Missing
  <2> QED BY <1>0, <2>1, KeepsSwap
<1>4. Keeps(d, V34Flip(d)) /\ Keeps(d, V37Flags(d))
  <2>1. \A e \in Database : /\ Keeps(e, Swap(e, "vinyl_manual", {"no"}, "yes"))
                            /\ Keeps(e, Swap(e, "vinyl_manual", {"yes"}, "no"))
    BY <1>3, WordsAre
  <2>2. Keeps(d, V34Flip(d))
    BY <1>1, <2>1, KeepsTrans, KeepsTyped DEF V34Flip
  <2>3. Keeps(d, V37Flags(d))
    BY <2>1, KeepsSame DEF V37Flags
  <2> QED BY <2>2, <2>3
<1>5. Keeps(d, V34Rules(d))
  <2>1. Keeps(d, V34Scope(d))
    <3>1. CASE d.val["soft_touch_keys"] = "none"
      <4> DEFINE e == Put(d, "soft_touch_keys", "business_cards")
      <4>1. ~Bare(d) /\ ~Lasts("soft_touch_keys", d.val["soft_touch_keys"])
        BY <1>0, <3>1 DEF Bare, Missing, Lasts, Undone
      <4>2. Keeps(d, e) /\ e.val = [d.val EXCEPT !["soft_touch_keys"] = "business_cards"]
        BY <1>0, <4>1, WordsAre, KeepsPut
      <4> HIDE DEF e
      <4>3. e \in Database /\ e.val["soft_touch_keys"] = "business_cards"
        BY <1>0, <4>2, KeepsTyped DEF Database
      <4>4. ~Bare(e) /\ ~Lasts("soft_touch_category", e.val["soft_touch_category"])
        BY <1>0, <4>3 DEF Bare, Missing, Lasts, Undone
      <4>5. Keeps(e, Put(e, "soft_touch_category", "none"))
        BY <1>0, <4>3, <4>4, WordsAre, KeepsPut
      <4>6. Keeps(d, Put(e, "soft_touch_category", "none"))
        BY <4>2, <4>5, KeepsTrans
      <4> QED BY <3>1, <4>6 DEF V34Scope, e
    <3>2. CASE d.val["soft_touch_keys"] # "none"
      BY <3>2, KeepsSame DEF V34Scope
    <3> QED BY <3>1, <3>2
  <2>2. \A e \in Database : Keeps(e, Rules(e, "v34"))
    BY RulesKeep, WordsAre
  <2>3. Keeps(d, SeedAll(V34Scope(d), {"poa_keywords"}))
    BY <1>2, <2>1, KeepsTrans, KeepsTyped
  <2> QED BY <2>2, <2>3, KeepsTrans, KeepsTyped DEF V34Rules
<1>6. Keeps(d, V35(d)) /\ Keeps(d, V37Threshold(d))
  BY <1>1, <1>2, KeepsTrans, KeepsTyped DEF V35, V37Threshold
<1>7. Keeps(d, V36Rules(d))
  BY RulesKeep, WordsAre DEF V36Rules
<1>8. Keeps(d, V36Strategies(d))
  <2>0. ASSUME NEW e \in Database, NEW x \in {"vinyl_strategy", "board_strategy"},
               e.val[x] \notin Moved, NEW v \in Words
        PROVE  /\ Keeps(e, Put(e, x, v)) /\ ~Bare(e)
               /\ Put(e, x, v).val = [e.val EXCEPT ![x] = v]
    <3>1. ~Bare(e) /\ ~Lasts(x, e.val[x])
      BY <1>0, <2>0 DEF Bare, Lasts, Undone, Moved
    <3> QED BY <1>0, <3>1, KeepsPut
  <2>1. ASSUME NEW e \in Database PROVE Keeps(e, V36Vinyl(e))
    <3>1. CASE e.val["vinyl_strategy"] \notin Moved
      <4> DEFINE f == Put(e, "vinyl_strategy", "per_sqm")
      <4>1. Keeps(e, f) /\ f.val = [e.val EXCEPT !["vinyl_strategy"] = "per_sqm"]
        BY <2>0, <3>1, WordsAre
      <4> HIDE DEF f
      <4>2. f \in Database /\ f.val["vinyl_strategy"] = "per_sqm"
        BY <1>0, <4>1, KeepsTyped DEF Database
      <4>3. ~Bare(f) /\ ~Lasts("vinyl_manual", f.val["vinyl_manual"])
        BY <1>0, <4>2 DEF Bare, Missing, Lasts, Undone
      <4>4. Keeps(f, Put(f, "vinyl_manual", "no"))
        BY <1>0, <4>2, <4>3, WordsAre, KeepsPut
      <4>5. Keeps(e, Put(f, "vinyl_manual", "no"))
        BY <4>1, <4>4, KeepsTrans
      <4> QED BY <3>1, <4>5 DEF V36Vinyl, f
    <3>2. CASE e.val["vinyl_strategy"] \in Moved
      BY <3>2, KeepsSame DEF V36Vinyl
    <3> QED BY <3>1, <3>2
  <2>2. \A e \in Database : Keeps(e, V36Board(e))
    BY <2>0, WordsAre, KeepsSame DEF V36Board
  <2>3. Keeps(d, V36Vinyl(AddCols(d, {"v36"})))
    BY <1>1, <2>1, KeepsTrans, KeepsTyped
  <2> QED BY <2>2, <2>3, KeepsTrans, KeepsTyped DEF V36Strategies
<1> QED BY <1>4, <1>5, <1>6, <1>7, <1>8

\* v38 to v44.
LEMMA FifthKeep ==
  ASSUME NEW d \in Database
  PROVE  /\ Keeps(d, V38(d)) /\ Keeps(d, V39(d)) /\ Keeps(d, V40(d)) /\ Keeps(d, V41(d))
         /\ Keeps(d, V42(d)) /\ Keeps(d, V43(d)) /\ Keeps(d, V44(d))
<1>1. Keeps(d, V38(d))
  <2>1. Keeps(d, AddCols(d, {"v38"}))
    BY KeepsCols DEF AllCols
  <2>2. ASSUME NEW e \in Database PROVE Keeps(e, V38Vinyl(e))
    <3>1. "vinyl_dims" \in Items
      BY DEF Items, PricingItems, ProductItems
    <3>2. \A u \in {"no"} : u # Missing /\ ~Lasts("vinyl_dims", u)
      BY DEF Lasts, Undone, Missing
    <3> QED BY <3>1, <3>2, WordsAre, KeepsSwap DEF V38Vinyl
  <2>3. \A e \in Database : Keeps(e, V38Posters(e))
    BY Loose, WordsAre, KeepsSeed DEF V38Posters
  <2>4. \A e \in Database : Keeps(e, Rules(e, "v38"))
    BY RulesKeep, WordsAre
  <2>5. Keeps(d, V38Vinyl(AddCols(d, {"v38"})))
    BY <2>1, <2>2, KeepsTrans, KeepsTyped
  <2>6. Keeps(d, V38Posters(V38Vinyl(AddCols(d, {"v38"}))))
    BY <2>3, <2>5, KeepsTrans, KeepsTyped
  <2> QED BY <2>4, <2>6, KeepsTrans, KeepsTyped DEF V38
<1>2. Keeps(d, V39(d)) /\ Keeps(d, V40(d)) /\ Keeps(d, V41(d))
  BY KeepsCols DEF V39, V40, V41, AllCols
<1>3. Keeps(d, V42(d))
  <2>1. "ncr" \in Items
    BY DEF Items, PricingItems, ProductItems
  <2>2. \A u \in {"pads"} : u # Missing /\ ~Lasts("ncr", u)
    BY DEF Lasts, Undone, Missing
  <2> QED BY <2>1, <2>2, WordsAre, KeepsSwap DEF V42
<1>4. Keeps(d, V43(d)) /\ Keeps(d, V44(d))
  BY SeedsKeep, KeepsSame DEF V43, V44, ForShops, Settings
<1> QED BY <1>1, <1>2, <1>3, <1>4

(***************************************************************************)
(* Functions by recursion.                                                 *)
(***************************************************************************)

\* f is a at zero and goes on as G says.
Unrolls(f, V, a, G) ==
  f \in [Nat -> V] /\ f[0] = a /\ \A n \in Nat : f[n + 1] = G[<<n + 1, f[n]>>]

\* A function may be defined by what it is at zero and how it goes on.  The
\* library's theorem on that takes an operator, so here it is for a function:
\* for each number there is exactly one table that long, and the function
\* asked for reads each value from its own table.
LEMMA Recursion ==
  ASSUME NEW V, NEW a \in V, NEW G \in [Nat \X V -> V]
  PROVE  \E f : Unrolls(f, V, a, G)
<1> DEFINE Ok(g, m) == /\ g \in [0..m -> V] /\ g[0] = a
                       /\ \A n \in 0..(m - 1) : g[n + 1] = G[<<n + 1, g[n]>>]
<1>1. \A m \in Nat : \E g : Ok(g, m)
  <2> DEFINE S == {m \in Nat : \E g : Ok(g, m)}
  <2>1. 0 \in S
    <3>1. Ok([n \in 0..0 |-> a], 0)
      OBVIOUS
    <3> QED BY <3>1
  <2>2. ASSUME NEW m \in S PROVE m + 1 \in S
    <3>1. PICK g : Ok(g, m)
      OBVIOUS
    <3> DEFINE h == [n \in 0..(m + 1) |-> IF n = m + 1 THEN G[<<m + 1, g[m]>>] ELSE g[n]]
    <3>2. m \in Nat /\ g[m] \in V /\ G[<<m + 1, g[m]>>] \in V
      BY <3>1
    <3>3. h \in [0..(m + 1) -> V]
      BY <3>1, <3>2
    <3>4. h[0] = a /\ \A n \in 0..m : h[n] = g[n]
      BY <3>1, <3>2
    <3>5. h[m + 1] = G[<<m + 1, h[m]>>]
      <4>1. m \in 0..m /\ m + 1 \in 0..(m + 1)
        BY <3>2
      <4>2. h[m + 1] = G[<<m + 1, g[m]>>]
        BY <4>1
      <4>3. h[m] = g[m]
        BY <3>4, <4>1
      <4> QED BY <4>2, <4>3
    <3>6. ASSUME NEW n \in 0..m PROVE h[n + 1] = G[<<n + 1, h[n]>>]
      <4>1. CASE n = m
        BY <4>1, <3>5
      <4>2. CASE n # m
        <5>1. n \in 0..(m - 1) /\ n + 1 \in 0..m
          BY <4>2, <3>2
        <5> QED BY <5>1, <3>1, <3>4
      <4> QED BY <4>1, <4>2
    <3>7. Ok(h, m + 1)
      <4>1. 0..(m + 1 - 1) = 0..m
        BY <3>2
      <4> HIDE DEF h
      <4> QED BY <3>3, <3>4, <3>6, <4>1
    <3>8. m + 1 \in Nat
      BY <3>2
    <3> HIDE DEF Ok, h
    <3> QED BY <3>7, <3>8
  <2> HIDE DEF Ok
  <2>3. S = Nat
    BY <2>1, <2>2, ByInduction
  <2> QED BY <2>3
<1>2. \A n \in Nat : \A m, k \in Nat : n <= m /\ n <= k =>
        \A g, h : Ok(g, m) /\ Ok(h, k) => g[n] = h[n]
  <2> DEFINE Same(n) == \A m, k \in Nat : n <= m /\ n <= k =>
                          \A g, h : Ok(g, m) /\ Ok(h, k) => g[n] = h[n]
             S == {n \in Nat : Same(n)}
  <2>1. 0 \in S
    OBVIOUS
  <2>2. ASSUME NEW n \in S PROVE n + 1 \in S
    <3>1. ASSUME NEW m \in Nat, NEW k \in Nat, n + 1 <= m, n + 1 <= k,
                 NEW g, NEW h, Ok(g, m), Ok(h, k)
          PROVE  g[n + 1] = h[n + 1]
      <4>1. n \in 0..(m - 1) /\ n \in 0..(k - 1) /\ n <= m /\ n <= k
        BY <3>1
      <4>2. g[n] = h[n]
        <5>1. Same(n)
          OBVIOUS
        <5> HIDE DEF Ok
        <5> QED BY <3>1, <4>1, <5>1
      <4>3. g[n + 1] = G[<<n + 1, g[n]>>]
        BY <3>1, <4>1
      <4>4. h[n + 1] = G[<<n + 1, h[n]>>]
        BY <3>1, <4>1
      <4> QED BY <4>2, <4>3, <4>4
    <3> HIDE DEF Ok
    <3> QED BY <3>1
  <2> HIDE DEF Same
  <2>3. S = Nat
    BY <2>1, <2>2, ByInduction
  <2> QED BY <2>3 DEF Same
<1> DEFINE Best(n) == CHOOSE g : Ok(g, n)
<1>7. \A n \in Nat : Ok(Best(n), n)
  <2> HIDE DEF Ok
  <2> QED BY <1>1
<1> HIDE DEF Best
<1> DEFINE f == [n \in Nat |-> Best(n)[n]]
<1>3. ASSUME NEW n \in Nat, NEW m \in Nat, n <= m, NEW g, Ok(g, m) PROVE f[n] = g[n]
  <2>1. f[n] = Best(n)[n] /\ n <= n
    OBVIOUS
  <2>2. Ok(Best(n), n)
    BY <1>7
  <2> HIDE DEF Ok, f
  <2>3. \A p, q : Ok(p, n) /\ Ok(q, m) => p[n] = q[n]
    BY <1>2, <1>3, <2>1
  <2> QED BY <1>3, <2>1, <2>2, <2>3
<1>4. ASSUME NEW n \in Nat PROVE f[n] \in V /\ f[n + 1] = G[<<n + 1, f[n]>>]
  <2>1. PICK g : Ok(g, n + 1)
    <3>1. n + 1 \in Nat
      OBVIOUS
    <3> HIDE DEF Ok
    <3> QED BY <1>1, <3>1
  <2>2. f[n] = g[n] /\ f[n + 1] = g[n + 1]
    <3> HIDE DEF Ok, f
    <3> QED BY <1>3, <2>1
  <2> HIDE DEF f
  <2> QED BY <2>1, <2>2
<1>5. f[0] = a
  <2>1. PICK g : Ok(g, 0)
    <3> HIDE DEF Ok
    <3> QED BY <1>1
  <2>2. f[0] = g[0]
    <3> HIDE DEF Ok, f
    <3> QED BY <1>3, <2>1
  <2> HIDE DEF f
  <2> QED BY <2>1, <2>2
<1>6. f \in [Nat -> V]
  <2>1. \A n \in Nat : f[n] \in V
    BY <1>4
  <2>2. f = [n \in Nat |-> f[n]]
    OBVIOUS
  <2> HIDE DEF f
  <2> QED BY <2>1, <2>2
<1> HIDE DEF f
<1> QED BY <1>4, <1>5, <1>6 DEF Unrolls

(***************************************************************************)
(* Prompts: what v4, v5 and v7 do.                                         *)
(***************************************************************************)
Has(p, s) == \E n \in DOMAIN p : p[n] = s

\* A prompt begins with its introduction and has one contact section at most.
Opens(p) ==
  p # <<>> =>
    /\ p[1] = "intro"
    /\ \A m, n \in DOMAIN p : p[m] = "contact" /\ p[n] = "contact" => m = n

\* q has all of p that stands above its first contact or legacy section.
Keeping(p, q) ==
  /\ p # <<>> /\ ~Has(p, "legacy") /\ ~Has(p, "contact") => q = p
  /\ \A k \in Nat :
       (\A n \in 1..k : n \in DOMAIN p /\ p[n] \notin {"contact", "legacy"})
         => \A n \in 1..k : n \in DOMAIN q /\ q[n] = p[n]

\* What EditsStand says of the prompt p where the operator saved m.
Stands(m, p) ==
  /\ Stripped(m) > Len(m) => p = m
  /\ \A n \in 1..(Stripped(m) - 1) : n \in DOMAIN p /\ p[n] = m[n]

\* The first place of a section in a prompt.
LEMMA FirstOfIs ==
  ASSUME NEW p \in Seq(Words), NEW S
  PROVE  LET f == FirstOf(p, S, Len(p) + 1)
         IN  /\ f \in 1..(Len(p) + 1)
             /\ \A n \in DOMAIN p : n < f => p[n] \notin S
             /\ f # Len(p) + 1 => p[f] \in S
<1> DEFINE T == {i \in DOMAIN p : p[i] \in S} \cup {Len(p) + 1}
<1>1. T \in SUBSET Nat /\ T # {} /\ T \subseteq 1..(Len(p) + 1) /\ DOMAIN p = 1..Len(p)
  OBVIOUS
<1>2. Min(T) \in T /\ \A m \in T : Min(T) <= m
  <2> HIDE DEF T
  <2> QED BY <1>1, MinOf
<1>3. FirstOf(p, S, Len(p) + 1) = Min(T)
  BY DEF FirstOf
<1> DEFINE f == Min(T)
<1>4. f \in 1..(Len(p) + 1) /\ f \in T /\ \A m \in T : f <= m
  BY <1>1, <1>2
<1> HIDE DEF f
<1>5. \A n \in DOMAIN p : n < f => p[n] \notin S
  BY <1>1, <1>4
<1>6. f # Len(p) + 1 => p[f] \in S
  BY <1>4
<1> QED BY <1>3, <1>4, <1>5, <1>6 DEF f

\* Where a prompt the operator saved has its first contact or legacy section.
LEMMA StrippedIs ==
  ASSUME NEW m \in Seq(Words)
  PROVE  /\ Stripped(m) \in 1..(Len(m) + 1)
         /\ \A n \in DOMAIN m : n < Stripped(m) => m[n] \notin {"contact", "legacy"}
BY FirstOfIs DEF Stripped

\* A prompt as it was saved stands.
LEMMA StandsSelf ==
  ASSUME NEW m \in Seq(Words)
  PROVE  Stands(m, m)
<1>1. Stripped(m) \in 1..(Len(m) + 1) /\ DOMAIN m = 1..Len(m) /\ Len(m) \in Nat
  BY StrippedIs
<1> QED BY <1>1 DEF Stands

\* The prompts that may be saved.
LEMMA PromptsAre ==
  ASSUME NEW p \in Prompts
  PROVE  p \in Seq(Words) /\ p # <<>> /\ Opens(p) /\ Stands(p, p)
<1>1. /\ p \in Seq(Sections) /\ p # <<>> /\ p[1] = "intro"
      /\ \A m, n \in DOMAIN p : p[m] = "contact" /\ p[n] = "contact" => m = n
  BY SUAssumption
<1>2. Sections \subseteq Words
  BY WordsAre DEF Sections
<1>3. p \in Seq(Words)
  BY <1>1, <1>2
<1> QED BY <1>1, <1>3, StandsSelf DEF Opens

\* What stood still does after a script that keeps what it has to.
LEMMA StandsOn ==
  ASSUME NEW m \in Seq(Words), m # <<>>,
         NEW p \in Seq(Words), NEW q \in Seq(Words), Stands(m, p), Keeping(p, q)
  PROVE  Stands(m, q)
<1>1. /\ Stripped(m) \in 1..(Len(m) + 1) /\ DOMAIN m = 1..Len(m) /\ Len(m) \in Nat
      /\ \A n \in DOMAIN m : n < Stripped(m) => m[n] \notin {"contact", "legacy"}
  BY StrippedIs
<1>2. PICK k \in Nat : k = Stripped(m) - 1
  BY <1>1
<1>3. ASSUME NEW n \in 1..k
      PROVE  n \in DOMAIN p /\ p[n] = m[n] /\ p[n] \notin {"contact", "legacy"}
  <2>1. n \in DOMAIN m /\ n < Stripped(m)
    BY <1>1, <1>2
  <2> QED BY <1>1, <1>2, <2>1 DEF Stands
<1>4. \A n \in 1..k : n \in DOMAIN q /\ q[n] = p[n]
  BY <1>3 DEF Keeping
<1>5. ASSUME Stripped(m) > Len(m) PROVE q = m
  <2>1. p = m /\ 1..k = DOMAIN m
    BY <1>1, <1>2, <1>5 DEF Stands
  <2>2. ~Has(p, "contact") /\ ~Has(p, "legacy") /\ p # <<>>
    BY <1>3, <2>1 DEF Has
  <2> QED BY <2>1, <2>2 DEF Keeping
<1> QED BY <1>2, <1>3, <1>4, <1>5 DEF Stands

\* What a concatenation is made of.
LEMMA SeqParts ==
  ASSUME NEW T, NEW a \in Seq(T), NEW b \in Seq(T)
  PROVE  /\ a \o b \in Seq(T) /\ Len(a) \in Nat /\ Len(a \o b) = Len(a) + Len(b)
         /\ DOMAIN (a \o b) = 1..Len(a \o b)
         /\ \A i \in 1..Len(a \o b) :
              (a \o b)[i] = IF i <= Len(a) THEN a[i] ELSE b[i - Len(a)]
OBVIOUS

\* v5 cuts a prompt before its legacy section.
LEMMA V5Cuts ==
  ASSUME NEW p \in Seq(Words), Opens(p)
  PROVE  LET q == V5Prompt(p)
         IN  /\ q \in Seq(Words) /\ Opens(q) /\ (q = <<>> => p = <<>>)
             /\ \A s : Has(q, s) => Has(p, s)
             /\ ~Has(q, "legacy")
             /\ Keeping(p, q)
<1> DEFINE f == FirstOf(p, {"legacy"}, Len(p) + 1)
           q == SubSeq(p, 1, f - 1)
<1>1. /\ f \in 1..(Len(p) + 1)
      /\ \A n \in DOMAIN p : n < f => p[n] # "legacy"
      /\ f # Len(p) + 1 => p[f] = "legacy"
  BY FirstOfIs
<1>2. V5Prompt(p) = q
  BY DEF V5Prompt
<1> HIDE DEF f
<1>3. /\ DOMAIN p = 1..Len(p) /\ q \in Seq(Words) /\ Len(q) = f - 1
      /\ DOMAIN q = 1..(f - 1) /\ \A n \in 1..(f - 1) : q[n] = p[n] /\ n \in DOMAIN p
  BY <1>1
<1> HIDE DEF q
<1>4. p # <<>> => f # 1
  BY <1>1, <1>3 DEF Opens
<1>5. q = <<>> => p = <<>>
  BY <1>1, <1>3, <1>4
<1>6. Opens(q)
  BY <1>1, <1>3, <1>4, <1>5 DEF Opens
<1>7. ~Has(q, "legacy") /\ \A s : Has(q, s) => Has(p, s)
  BY <1>1, <1>3 DEF Has
<1>8. ASSUME ~Has(p, "legacy") PROVE q = p
  <2>1. f = Len(p) + 1
    BY <1>1, <1>3, <1>8 DEF Has
  <2> QED BY <2>1 DEF q
<1>9. Keeping(p, q)
  <2>1. ASSUME NEW k \in Nat,
               \A n \in 1..k : n \in DOMAIN p /\ p[n] \notin {"contact", "legacy"}
        PROVE  \A n \in 1..k : n \in DOMAIN q /\ q[n] = p[n]
    <3>1. k <= f - 1
      <4>1. CASE f \in 1..k
        BY <1>1, <1>3, <2>1, <4>1
      <4> QED BY <1>1, <4>1
    <3> QED BY <1>1, <1>3, <3>1
  <2> QED BY <1>8, <2>1 DEF Keeping
<1> QED BY <1>2, <1>3, <1>5, <1>6, <1>7, <1>9

\* v7 takes the contact section out; as there is one at most and it is not
\* the first, the introduction stays and no contact is left.
LEMMA V7Cuts ==
  ASSUME NEW p \in Seq(Words), Opens(p)
  PROVE  LET q == V7Prompt(p)
         IN  /\ q \in Seq(Words) /\ Opens(q) /\ (q = <<>> => p = <<>>)
             /\ \A s : Has(q, s) => Has(p, s)
             /\ ~Has(q, "contact")
             /\ Keeping(p, q)
<1> DEFINE f == FirstOf(p, {"contact"}, Len(p) + 1)
           R == {i \in DOMAIN p : i > f /\ p[i] \in {"tone", "legacy"}} \cup {Len(p) + 1}
           u == Min(R)
           a == SubSeq(p, 1, f - 1)
           b == SubSeq(p, u, Len(p))
           q == a \o b
<1>1. /\ f \in 1..(Len(p) + 1)
      /\ \A n \in DOMAIN p : n < f => p[n] # "contact"
      /\ f # Len(p) + 1 => p[f] = "contact"
  BY FirstOfIs
<1>2. V7Prompt(p) = q
  BY DEF V7Prompt
<1> HIDE DEF f
<1>3. /\ DOMAIN p = 1..Len(p) /\ Len(p) \in Nat
      /\ R \in SUBSET Nat /\ R # {} /\ R \subseteq f..(Len(p) + 1)
      /\ \A r \in R : r > f \/ r = Len(p) + 1
  BY <1>1
<1>4. u \in R
  <2> HIDE DEF R
  <2> QED BY <1>3, MinOf
<1>5. u \in f..(Len(p) + 1) /\ (u > f \/ u = Len(p) + 1)
  <2> HIDE DEF u, R
  <2> QED BY <1>3, <1>4
<1> HIDE DEF u
<1>6. /\ a \in Seq(Words) /\ Len(a) = f - 1 /\ \A n \in 1..(f - 1) : a[n] = p[n]
      /\ b \in Seq(Words) /\ Len(b) = Len(p) + 1 - u
      /\ \A n \in 1..(Len(p) + 1 - u) : b[n] = p[u + n - 1]
  BY <1>1, <1>3, <1>5
<1> HIDE DEF a, b
<1>7. /\ q \in Seq(Words) /\ Len(q) = f - 1 + Len(p) + 1 - u /\ DOMAIN q = 1..Len(q)
      /\ \A n \in DOMAIN q : q[n] = IF n < f THEN p[n] ELSE p[u + n - f]
  <2>1. /\ q \in Seq(Words) /\ Len(q) = Len(a) + Len(b) /\ DOMAIN q = 1..Len(q)
        /\ \A n \in 1..Len(q) : q[n] = IF n <= Len(a) THEN a[n] ELSE b[n - Len(a)]
    BY <1>6, SeqParts
  <2> HIDE DEF q
  <2>2. Len(q) = f - 1 + Len(p) + 1 - u
    BY <1>1, <1>3, <1>5, <1>6, <2>1
  <2>3. ASSUME NEW n \in DOMAIN q PROVE q[n] = IF n < f THEN p[n] ELSE p[u + n - f]
    <3>1. n \in 1..(f - 1 + Len(p) + 1 - u)
      BY <2>1, <2>2
    <3>2. CASE n < f
      <4>1. n \in 1..(f - 1) /\ n <= Len(a)
        BY <1>1, <1>6, <3>1, <3>2
      <4> QED BY <1>6, <2>1, <3>2, <4>1
    <3>3. CASE ~(n < f)
      <4>1. /\ n - (f - 1) \in 1..(Len(p) + 1 - u) /\ ~(n <= Len(a))
            /\ u + (n - (f - 1)) - 1 = u + n - f
        BY <1>1, <1>3, <1>5, <1>6, <3>1, <3>3
      <4>2. q[n] = b[n - (f - 1)]
        BY <1>6, <2>1, <4>1
      <4>3. b[n - (f - 1)] = p[u + (n - (f - 1)) - 1]
        BY <1>6, <4>1
      <4> QED BY <3>3, <4>1, <4>2, <4>3
    <3> QED BY <3>2, <3>3
  <2> QED BY <2>1, <2>2, <2>3
<1> HIDE DEF q
<1>8. ASSUME NEW n \in DOMAIN q
      PROVE  /\ n < f => n \in DOMAIN p
             /\ n >= f => u + n - f \in DOMAIN p /\ u + n - f >= u
  <2>1. n \in 1..(f - 1 + Len(p) + 1 - u)
    BY <1>7
  <2> QED BY <1>1, <1>3, <1>5, <2>1
<1>9. \A s : Has(q, s) => Has(p, s)
  <2>1. SUFFICES ASSUME NEW s, NEW n \in DOMAIN q, q[n] = s PROVE Has(p, s)
    BY DEF Has
  <2>2. \/ n < f /\ n \in DOMAIN p /\ p[n] = s
        \/ u + n - f \in DOMAIN p /\ p[u + n - f] = s
    <3>1. n \in Nat /\ (n < f \/ n >= f)
      BY <1>1, <1>7
    <3> QED BY <1>7, <1>8, <2>1, <3>1
  <2> QED BY <2>2 DEF Has
<1>10. p # <<>> => f > 1 /\ q[1] = "intro" /\ q # <<>>
  <2>1. ASSUME p # <<>> PROVE f > 1 /\ q[1] = "intro" /\ q # <<>>
    <3>1. p[1] = "intro" /\ 1 \in DOMAIN p
      BY <1>3, <2>1 DEF Opens
    <3>2. f # 1
      BY <1>1, <1>3, <3>1
    <3>3. f > 1 /\ 1 \in DOMAIN q
      BY <1>1, <1>3, <1>5, <1>7, <3>2
    <3> QED BY <1>7, <3>1, <3>3
  <2> QED BY <2>1
<1>11. ~Has(q, "contact")
  <2>1. SUFFICES ASSUME NEW n \in DOMAIN q, q[n] = "contact" PROVE FALSE
    BY DEF Has
  <2>2. n >= f
    BY <1>1, <1>7, <1>8, <2>1
  <2>3. u + n - f \in DOMAIN p /\ p[u + n - f] = "contact" /\ u + n - f >= u
    BY <1>1, <1>7, <1>8, <2>1, <2>2
  <2>4. f # Len(p) + 1 /\ f \in DOMAIN p /\ p[f] = "contact" /\ p # <<>>
    BY <1>1, <1>3, <1>5, <2>3
  <2>5. u + n - f = f
    BY <2>3, <2>4 DEF Opens
  <2> QED BY <1>1, <1>3, <1>5, <2>3, <2>4, <2>5
<1>12. Opens(q)
  <2>1. \A n \in DOMAIN q : q[n] # "contact"
    BY <1>11 DEF Has
  <2>2. q # <<>> => p # <<>>
    BY <1>1, <1>3, <1>5, <1>7
  <2> QED BY <1>10, <2>1, <2>2 DEF Opens
<1>13. ASSUME ~Has(p, "contact") PROVE q = p
  <2>1. f = Len(p) + 1 /\ u = Len(p) + 1
    BY <1>1, <1>3, <1>5, <1>13 DEF Has
  <2>2. Len(q) = Len(p)
    <3>1. Len(q) = f - 1 + Len(p) + 1 - u
      BY <1>7
    <3>2. PICK l \in Nat : l = Len(p)
      BY <1>3
    <3>3. Len(q) = l + 1 - 1 + l + 1 - (l + 1)
      BY <2>1, <3>1, <3>2
    <3> QED BY <3>2, <3>3
  <2>3. \A n \in 1..Len(p) : q[n] = p[n]
    <3>1. \A n \in DOMAIN q : n < f
      BY <1>3, <1>7, <2>1, <2>2
    <3> QED BY <1>7, <2>2, <3>1
  <2> QED BY <1>7, <2>2, <2>3
<1>14. Keeping(p, q)
  <2>1. ASSUME NEW k \in Nat,
               \A n \in 1..k : n \in DOMAIN p /\ p[n] \notin {"contact", "legacy"}
        PROVE  \A n \in 1..k : n \in DOMAIN q /\ q[n] = p[n]
    <3>1. k <= f - 1
      <4>1. CASE f \in 1..k
        BY <1>1, <1>3, <2>1, <4>1
      <4> QED BY <1>1, <4>1
    <3>2. ASSUME NEW n \in 1..k PROVE n \in DOMAIN q /\ q[n] = p[n]
      <4>1. n < f /\ n \in DOMAIN q
        BY <1>1, <1>3, <1>5, <1>7, <3>1
      <4> QED BY <1>7, <4>1
    <3> QED BY <3>2
  <2> QED BY <1>13, <2>1 DEF Keeping
<1> QED BY <1>2, <1>7, <1>9, <1>10, <1>11, <1>12, <1>14

\* The places of the scripts that change the prompt.
LEMMA ChainStarts ==
  /\ \A n \in 1..50 : Chain[n] = "v4" <=> n = 8
  /\ \A n \in 1..50 : Chain[n] = "v5" <=> n = 9
  /\ \A n \in 1..50 : Chain[n] = "v7" <=> n = 11
BY DEF Chain

\* The script sets the prompt to p, and keeps the rest.
Rewords(d, e, p) ==
  /\ Keeps([d EXCEPT !.prompt = p], e)
  /\ p \in Seq(Words)

\* What such a script does to the rest of the database.
LEMMA Reworded ==
  ASSUME NEW d \in Database, NEW e, NEW p, Rewords(d, e, p)
  PROVE  /\ e \in Database /\ d.cols \subseteq e.cols
         /\ \A x \in Items : Lasts(x, d.val[x]) => e.val[x] = d.val[x]
         /\ Bare(d) => Bare(e)
         /\ e.val["last_known"] = d.val["last_known"]
         /\ e.prompt = p /\ e.secret = d.secret
<1> DEFINE c == [d EXCEPT !.prompt = p]
<1>1. c.cols = d.cols /\ c.val = d.val /\ c.prompt = p /\ c.secret = d.secret
  BY DEF Database
<1>2. Keeps(c, e)
  BY DEF Rewords
<1> HIDE DEF c
<1> QED BY <1>1, <1>2 DEF Keeps, Bare

\* v4 saves the prompt of the code where there is none.
LEMMA V4Does ==
  ASSUME NEW d \in Database
  PROVE  Rewords(d, V4(d), IF d.prompt = <<>> THEN CodePrompt ELSE d.prompt)
<1> DEFINE p == IF d.prompt = <<>> THEN CodePrompt ELSE d.prompt
           c == [d EXCEPT !.prompt = p]
<1>1. CodePrompt \in Seq(Words) /\ d.prompt \in Seq(Words)
  <2>1. "intro" \in Words /\ "contact" \in Words /\ "tone" \in Words
    BY WordsAre
  <2>2. CodePrompt \in Seq(Words)
    BY <2>1 DEF CodePrompt
  <2> QED BY <2>2 DEF Database
<1>2. p \in Seq(Words)
  BY <1>1
<1>3. c \in Database
  BY <1>2 DEF Database
<1>4. V4(d) = SeedAll(c, {"widget"})
  BY DEF V4, Database
<1> HIDE DEF c, p
<1>5. Keeps(c, SeedAll(c, {"widget"}))
  BY <1>3, SeedsKeep DEF Settings
<1> QED BY <1>2, <1>4, <1>5 DEF Rewords, c, p

\* v5 leaves the rest alone.
LEMMA V5Does ==
  ASSUME NEW d \in Database, Opens(d.prompt), d.prompt # <<>>
  PROVE  Rewords(d, V5(d), V5Prompt(d.prompt))
<1> DEFINE p == V5Prompt(d.prompt)
           c == [d EXCEPT !.prompt = p]
<1>1. d.prompt \in Seq(Words)
  BY DEF Database
<1>2. p \in Seq(Words)
  BY <1>1, V5Cuts
<1>3. c \in Database
  BY <1>2 DEF Database
<1>4. V5(d) = Seed(c, "business_rules", "empty")
  BY DEF V5, ForShops, Database
<1> HIDE DEF c, p
<1>5. Keeps(c, Seed(c, "business_rules", "empty"))
  BY <1>3, KeepsSeed, Loose, WordsAre DEF Settings
<1> QED BY <1>2, <1>4, <1>5 DEF Rewords, c, p

\* v7 leaves the rest alone.
LEMMA V7Does ==
  ASSUME NEW d \in Database, Opens(d.prompt)
  PROVE  Rewords(d, V7(d), V7Prompt(d.prompt))
<1> DEFINE p == V7Prompt(d.prompt)
           c == [d EXCEPT !.prompt = p]
<1>1. d.prompt \in Seq(Words)
  BY DEF Database
<1>2. p \in Seq(Words)
  BY <1>1, V7Cuts
<1>3. c \in Database
  BY <1>2 DEF Database
<1>4. V7(d) = c
  BY DEF V7, Database
<1> HIDE DEF c, p
<1>5. Keeps(c, c)
  BY <1>3, KeepsSame
<1> QED BY <1>2, <1>4, <1>5 DEF Rewords, c, p

\* What may become of the prompt p, as q, by the step s.
WordsMove(s, p, q) ==
  /\ Opens(q) /\ (q = <<>> => p = <<>>)
  /\ p # <<>> => \A w : Has(q, w) => Has(p, w)
  /\ p = <<>> => \A w : Has(q, w) => Has(CodePrompt, w) /\ s = "v4"
  /\ s = "v4" => q # <<>>
  /\ s = "v5" => ~Has(q, "legacy")
  /\ s = "v7" => ~Has(q, "contact")
  /\ Keeping(p, q)

\* The prompt after the step s.
Prompted(s, p) ==
  CASE s = "v4" -> IF p = <<>> THEN CodePrompt ELSE p
    [] s = "v5" -> IF p = <<>> THEN p ELSE V5Prompt(p)
    [] s = "v7" -> V7Prompt(p)
    [] OTHER -> p

\* No script empties a prompt, brings a section back, or touches a prompt
\* without a contact and a legacy section.
LEMMA PromptMoves ==
  ASSUME NEW p \in Seq(Words), Opens(p), NEW s
  PROVE  WordsMove(s, p, Prompted(s, p))
<1>1. CASE s = "v4"
  <2>1. CASE p = <<>>
    <3>1. Opens(CodePrompt) /\ CodePrompt # <<>>
      BY DEF Opens, CodePrompt
    <3> HIDE DEF CodePrompt
    <3>2. Prompted(s, p) = CodePrompt
      BY <1>1, <2>1 DEF Prompted
    <3>3. Keeping(p, CodePrompt)
      BY <2>1 DEF Keeping
    <3> QED BY <1>1, <2>1, <3>1, <3>2, <3>3 DEF WordsMove
  <2>2. CASE p # <<>>
    <3>1. Prompted(s, p) = p
      BY <1>1, <2>2 DEF Prompted
    <3> QED BY <1>1, <2>2, <3>1 DEF WordsMove, Keeping
  <2> QED BY <2>1, <2>2
<1>2. CASE s = "v5"
  <2>1. CASE p = <<>>
    <3>1. Prompted(s, p) = <<>> /\ \A w : ~Has(<<>>, w)
      BY <1>2, <2>1 DEF Prompted, Has
    <3> QED BY <1>2, <2>1, <3>1 DEF WordsMove, Keeping
  <2>2. CASE p # <<>>
    <3>1. Prompted(s, p) = V5Prompt(p)
      BY <1>2, <2>2 DEF Prompted
    <3> QED BY <1>2, <2>2, <3>1, V5Cuts DEF WordsMove
  <2> QED BY <2>1, <2>2
<1>3. CASE s = "v7"
  <2>1. Prompted(s, p) = V7Prompt(p)
    BY <1>3 DEF Prompted
  <2>2. p = <<>> => \A w : ~Has(p, w)
    BY DEF Has
  <2> QED BY <1>3, <2>1, <2>2, V7Cuts DEF WordsMove
<1>4. CASE s \notin {"v4", "v5", "v7"}
  <2>1. Prompted(s, p) = p
    BY <1>4 DEF Prompted
  <2>2. p = <<>> => \A w : ~Has(p, w)
    BY DEF Has
  <2> QED BY <1>4, <2>1, <2>2 DEF WordsMove, Keeping
<1> QED BY <1>1, <1>2, <1>3, <1>4

(***************************************************************************)
(* The outcome of every step.                                              *)
(***************************************************************************)
Special == {"wipe", "load", "v4", "v5", "v7", "v17", "v37_7"}

\* Which script a step of the chain is.
LEMMA Scripts ==
  ASSUME NEW d, NEW s, NEW r
  PROVE  /\ s \notin Special =>
              Migrated(s, d, r) \in
                {d, InitDb(d), PreDdl(d), V2(d), V3(d), V6(d), V8(d), V9(d), V10(d),
                 V11(d), V12(d), V13(d), V14(d), V15(d), V16(d), V18(d), V19(d),
                 V20(d), V21(d), V22(d), V23(d), V24(d), V25Artwork(d), V25Rules(d),
                 V26(d), V27(d), V30(d), V31(d), V33(d), V34Flip(d), V34Rules(d),
                 V35(d), V36Strategies(d), V36Rules(d), V37Threshold(d), V37Flags(d),
                 V38(d), V39(d), V40(d), V41(d), V42(d), V43(d), V44(d)}
         /\ s = "wipe" => Migrated(s, d, r) = Wipe(d)
         /\ s = "load" => Migrated(s, d, r) = Load(d)
         /\ s = "v4" => Migrated(s, d, r) = V4(d)
         /\ s = "v5" => Migrated(s, d, r) = V5(d)
         /\ s = "v7" => Migrated(s, d, r) = V7(d)
         /\ s = "v17" => Migrated(s, d, r) = V17(d, r)
         /\ s = "v37_7" => Migrated(s, d, r) = V37_7(d)
         /\ s = "init_db" => Migrated(s, d, r) = InitDb(d)
         /\ s = "pre_ddl" => Migrated(s, d, r) = PreDdl(d)
         /\ s = "v2" => Migrated(s, d, r) = V2(d)
         /\ s = "v3" => Migrated(s, d, r) = V3(d)
<1>1. ASSUME s \notin Special
      PROVE  Migrated(s, d, r) \in
          {d, InitDb(d), PreDdl(d), V2(d), V3(d), V6(d), V8(d), V9(d), V10(d),
           V11(d), V12(d), V13(d), V14(d), V15(d), V16(d), V18(d), V19(d),
           V20(d), V21(d), V22(d), V23(d), V24(d), V25Artwork(d), V25Rules(d),
           V26(d), V27(d), V30(d), V31(d), V33(d), V34Flip(d), V34Rules(d),
           V35(d), V36Strategies(d), V36Rules(d), V37Threshold(d), V37Flags(d),
           V38(d), V39(d), V40(d), V41(d), V42(d), V43(d), V44(d)}
  BY <1>1 DEF Migrated, Special
<1>2. s = "wipe" => Migrated(s, d, r) = Wipe(d)
  BY DEF Migrated
<1>3. s = "load" => Migrated(s, d, r) = Load(d)
  BY DEF Migrated
<1>4. s = "v4" => Migrated(s, d, r) = V4(d)
  BY DEF Migrated
<1>5. s = "v5" => Migrated(s, d, r) = V5(d)
  BY DEF Migrated
<1>6. s = "v7" => Migrated(s, d, r) = V7(d)
  BY DEF Migrated
<1>7. s = "v17" => Migrated(s, d, r) = V17(d, r)
  BY DEF Migrated
<1>8. s = "v37_7" => Migrated(s, d, r) = V37_7(d)
  BY DEF Migrated
<1>9. s = "init_db" => Migrated(s, d, r) = InitDb(d)
  BY DEF Migrated
<1>10. s = "pre_ddl" => Migrated(s, d, r) = PreDdl(d)
  BY DEF Migrated
<1>11. s = "v2" => Migrated(s, d, r) = V2(d)
  BY DEF Migrated
<1>12. s = "v3" => Migrated(s, d, r) = V3(d)
  BY DEF Migrated
<1> QED BY <1>1, <1>2, <1>3, <1>4, <1>5, <1>6, <1>7, <1>8, <1>9, <1>10, <1>11, <1>12

\* Every step but the seven special ones keeps.
LEMMA OrdinaryKeep ==
  ASSUME NEW d \in Database, NEW s, s \notin Special, NEW r
  PROVE  Keeps(d, Migrated(s, d, r))
BY Scripts, KeepsSame, FirstKeep, SecondKeep, ThirdKeep, FourthKeep, FifthKeep

\* What every step of the chain does, the special ones included.
Outcome(s, d, e) ==
  /\ e \in Database /\ d.cols \subseteq e.cols
  /\ s \notin {"wipe", "load"} =>
       /\ \A x \in Items : Lasts(x, d.val[x]) => e.val[x] = d.val[x]
       /\ Bare(d) => Bare(e)
  /\ s # "v37_7" => e.val["last_known"] = d.val["last_known"]
  /\ e.prompt = Prompted(s, d.prompt)
  /\ e.secret.text = d.secret.text
  /\ s # "v17" => e.secret = d.secret

\* A database with new values differs in them only.
LEMMA ValueWritten ==
  ASSUME NEW d \in Database, NEW v \in [Items -> Words]
  PROVE  LET e == [d EXCEPT !.val = v]
         IN  /\ e \in Database /\ e.cols = d.cols /\ e.val = v
             /\ e.prompt = d.prompt /\ e.secret = d.secret
BY DEF Database

\* The wipe empties the catalogue.
LEMMA WipeDoes ==
  ASSUME NEW d \in Database
  PROVE  /\ Outcome("wipe", d, Wipe(d))
         /\ \A x \in Items : Wipe(d).val[x] = IF x \in PricingItems THEN Missing ELSE d.val[x]
<1> DEFINE v == [x \in Items |-> IF x \in PricingItems THEN Missing ELSE d.val[x]]
<1>1. d.val \in [Items -> Words]
  BY DEF Database
<1>2. v \in [Items -> Words]
  BY <1>1, WordsAre
<1>3. \A x \in Items : v[x] = IF x \in PricingItems THEN Missing ELSE d.val[x]
  OBVIOUS
<1>4. Wipe(d) = [d EXCEPT !.val = v]
  BY DEF Wipe, Database
<1> HIDE DEF v
<1>5. v["last_known"] = d.val["last_known"]
  BY <1>3, ItemNames
<1>6. Prompted("wipe", d.prompt) = d.prompt
  BY DEF Prompted
<1> QED BY <1>2, <1>3, <1>4, <1>5, <1>6, ValueWritten DEF Outcome

\* The load writes the files' products, and no others.
LEMMA LoadDoes ==
  ASSUME NEW d \in Database
  PROVE  /\ Outcome("load", d, Load(d))
         /\ \A x \in Items : x \notin Stocked \cup {"posters"} => Load(d).val[x] = d.val[x]
         /\ Load(d).val["catalogue"] = "seed"
<1> DEFINE v == [x \in Items |-> IF x \in DOMAIN Loaded THEN Loaded[x] ELSE d.val[x]]
<1>1. d.val \in [Items -> Words]
  BY DEF Database
<1>0. /\ DOMAIN Loaded = Stocked \cup {"posters"}
      /\ \A x \in DOMAIN Loaded : Loaded[x] \in Words
      /\ Loaded["catalogue"] = "seed"
  <2>1. DOMAIN Loaded = Stocked \cup {"posters"}
    BY DEF Loaded, Stocked, PricingItems, ProductItems
  <2>2. \A x \in DOMAIN Loaded : Loaded[x] \in Words
    <3>1. \A x \in DOMAIN Loaded :
            Loaded[x] \in {"seed", "bulk_break", "no", "manual", "yes", "books",
                          "none", "small_format"}
      BY DEF Loaded
    <3>2. {"seed", "bulk_break", "no", "manual", "yes", "books", "none",
           "small_format"} \subseteq Words
      BY WordsAre
    <3> QED BY <3>1, <3>2
  <2>3. Loaded["catalogue"] = "seed"
    BY DEF Loaded
  <2> QED BY <2>1, <2>2, <2>3
<1>2. v \in [Items -> Words]
  <2> HIDE DEF Loaded
  <2> QED BY <1>0, <1>1
<1>3. \A x \in Items : v[x] = IF x \in Stocked \cup {"posters"} THEN Loaded[x] ELSE d.val[x]
  <2> HIDE DEF Loaded
  <2> QED BY <1>0
<1>4. Load(d) = [d EXCEPT !.val = v]
  BY DEF Load, Database
<1> HIDE DEF v
<1>5. v["last_known"] = d.val["last_known"] /\ v["catalogue"] = "seed"
  BY <1>0, <1>3, ItemNames, Loose DEF Stocked
<1>6. Prompted("load", d.prompt) = d.prompt
  BY DEF Prompted
<1> QED BY <1>2, <1>3, <1>4, <1>5, <1>6, ValueWritten DEF Outcome

\* v17 encrypts, or leaves the secret alone; it decrypts nothing.
LEMMA V17Does ==
  ASSUME NEW d \in Database, NEW r, r = <<>> \/ r \in KeyRings
  PROVE  /\ Outcome("v17", d, V17(d, r))
         /\ d.secret.key # Plain => V17(d, r).secret.key # Plain
         /\ r # <<>> /\ d.secret.text # "" => V17(d, r).secret.key # Plain
<1>0. Prompted("v17", d.prompt) = d.prompt
  BY DEF Prompted
<1>1. CASE r # <<>> /\ d.secret.text # "" /\ d.secret.key = Plain
  <2>1. Head(r) \in Sealers /\ Head(r) # Plain
    BY <1>1, SUAssumption DEF Sealers
  <2> DEFINE e == [d EXCEPT !.secret.key = Head(r)]
  <2>2. /\ e \in Database /\ e.cols = d.cols /\ e.val = d.val /\ e.prompt = d.prompt
        /\ e.secret.text = d.secret.text /\ e.secret.key = Head(r)
    BY <2>1 DEF Database
  <2>3. V17(d, r) = e
    BY <1>1 DEF V17
  <2> HIDE DEF e
  <2> QED BY <1>0, <2>1, <2>2, <2>3 DEF Outcome, Bare
<1>2. CASE ~(r # <<>> /\ d.secret.text # "" /\ d.secret.key = Plain)
  <2>1. V17(d, r) = d
    BY <1>2 DEF V17
  <2> QED BY <1>0, <1>2, <2>1 DEF Outcome, Bare
<1> QED BY <1>1, <1>2

\* A script that keeps has the outcome of an ordinary one.
LEMMA KeptOutcome ==
  ASSUME NEW d \in Database, NEW e, Keeps(d, e), NEW s, s \notin {"v4", "v5", "v7"}
  PROVE  Outcome(s, d, e)
BY DEF Keeps, Outcome, Prompted

\* The outcome of v4, v5 and v7.
LEMMA RewordedOutcome ==
  ASSUME NEW d \in Database, NEW e, NEW s \in {"v4", "v5", "v7"},
         Rewords(d, e, Prompted(s, d.prompt))
  PROVE  Outcome(s, d, e)
<1>1. s # "wipe" /\ s # "load" /\ s # "v37_7" /\ s # "v17"
  OBVIOUS
<1> QED BY <1>1, Reworded DEF Outcome

\* No address.
Blank == {"", Missing}

\* The cutover: the address is remembered, and one that is not the address
\* remembered switches Missive off.
LEMMA V37Does ==
  ASSUME NEW d \in Database
  PROVE  LET from == d.val["missive_from_address"]
             known == d.val["last_known"]
             e == V37_7(d)
         IN  /\ Outcome("v37_7", d, e)
             /\ from \in Blank /\ known # Missing => e.val["last_known"] = known
             /\ from \notin Blank => e.val["last_known"] = from
             /\ {from, known} \cap Blank = {} /\ from # known =>
                  e.val["missive_enabled"] # "true"
<1> DEFINE from == d.val["missive_from_address"]
           known == d.val["last_known"]
           f == SeedAll(d, {"team_domains"})
<1>0. /\ "last_known" \in Items /\ "missive_from_address" \in Items
      /\ "missive_enabled" \in Items /\ "team_domains" \in Items
      /\ "last_known" \notin Stocked /\ "missive_enabled" \notin Stocked
      /\ d.val \in [Items -> Words]
  BY Loose DEF Settings, Database
<1>1. Keeps(d, f)
  BY SeedsKeep DEF Settings
<1>2. f \in Database /\ f.val \in [Items -> Words] /\ f.val["last_known"] = known
  BY <1>1 DEF Keeps, Database
<1> HIDE DEF f
<1>3. ASSUME NEW g \in Database, NEW v \in Words
      PROVE  LET h == Put(g, "last_known", v)
             IN  /\ h \in Database /\ h.cols = g.cols /\ h.prompt = g.prompt
                 /\ h.secret = g.secret /\ h.val["last_known"] = v
                 /\ \A x \in Items : x # "last_known" => h.val[x] = g.val[x]
  <2>1. g.val \in [Items -> Words]
    BY DEF Database
  <2> DEFINE w == [g.val EXCEPT !["last_known"] = v]
  <2>2. /\ w \in [Items -> Words] /\ w["last_known"] = v
        /\ \A x \in Items : x # "last_known" => w[x] = g.val[x]
    BY <1>0, <2>1
  <2> HIDE DEF w
  <2>3. Put(g, "last_known", v) = [g EXCEPT !.val = w]
    BY DEF Put, Database, w
  <2> DEFINE h == [g EXCEPT !.val = w]
  <2>4. /\ h \in Database /\ h.cols = g.cols /\ h.val = w
        /\ h.prompt = g.prompt /\ h.secret = g.secret
    BY <2>2, ValueWritten
  <2> HIDE DEF h
  <2>5. Put(g, "last_known", v) = h
    BY <2>3 DEF h
  <2> QED BY <2>2, <2>4, <2>5
<1>4. ASSUME NEW g, Keeps(d, g), NEW v \in Words
      PROVE  LET h == Put(g, "last_known", v)
             IN  /\ Outcome("v37_7", d, h) /\ h.val["last_known"] = v
                 /\ h.val["missive_enabled"] = g.val["missive_enabled"]
  <2> DEFINE h == Put(g, "last_known", v)
  <2>1. /\ h \in Database /\ h.cols = g.cols /\ h.prompt = g.prompt
        /\ h.secret = g.secret /\ h.val["last_known"] = v
        /\ \A x \in Items : x # "last_known" => h.val[x] = g.val[x]
    BY <1>3, <1>4, KeepsTyped
  <2> HIDE DEF h
  <2>2. \A x \in Items : Lasts(x, d.val[x]) => h.val[x] = d.val[x]
    <3>1. \A x \in Items : Lasts(x, d.val[x]) => x # "last_known"
      BY DEF Lasts
    <3> QED BY <1>4, <2>1, <3>1 DEF Keeps
  <2>3. Bare(d) => Bare(h)
    <3>1. Bare(d) => Bare(g)
      BY <1>4 DEF Keeps
    <3> QED BY <1>0, <2>1, <3>1, ItemNames DEF Bare
  <2>4. Prompted("v37_7", d.prompt) = d.prompt
    BY DEF Prompted
  <2>5. Outcome("v37_7", d, h)
    BY <1>4, <2>1, <2>2, <2>3, <2>4 DEF Keeps, Outcome
  <2>6. h.val["missive_enabled"] = g.val["missive_enabled"]
    BY <1>0, <2>1
  <2> QED BY <2>1, <2>5, <2>6 DEF h
<1>5. CASE from \in Blank
  <2>1. V37_7(d) = IF known = Missing THEN Put(f, "last_known", "") ELSE f
    BY <1>2, <1>5 DEF V37_7, Seed, f, Blank
  <2>2. Outcome("v37_7", d, f)
    BY <1>1, KeptOutcome
  <2>3. Outcome("v37_7", d, Put(f, "last_known", ""))
    BY <1>1, <1>4, WordsAre
  <2> QED BY <1>2, <1>5, <2>1, <2>2, <2>3 DEF Blank
<1>6. CASE from \notin Blank /\ known \in Blank
  <2>1. V37_7(d) = Put(f, "last_known", from) /\ from \in Words
    BY <1>0, <1>6 DEF V37_7, f, Blank
  <2> QED BY <1>1, <1>4, <1>6, <2>1
<1>7. CASE from \notin Blank /\ known \notin Blank /\ from = known
  <2>1. V37_7(d) = f
    BY <1>7 DEF V37_7, f, Blank
  <2> QED BY <1>1, <1>2, <1>7, <2>1, KeptOutcome
<1>8. CASE from \notin Blank /\ known \notin Blank /\ from # known
  <2> DEFINE g == Swap(f, "missive_enabled", {"true"}, "false")
  <2>1. V37_7(d) = Put(g, "last_known", from) /\ from \in Words
    BY <1>0, <1>8 DEF V37_7, f, Blank
  <2>2. Keeps(f, g)
    <3>1. \A u \in {"true"} : u # Missing /\ ~Lasts("missive_enabled", u)
      BY DEF Lasts, Undone, Missing
    <3> QED BY <1>0, <1>2, <3>1, WordsAre, KeepsSwap
  <2>3. g.val["missive_enabled"] # "true"
    <3>1. CASE f.val["missive_enabled"] = "true"
      <4>1. g = Put(f, "missive_enabled", "false")
        BY <3>1 DEF Swap
      <4>2. ~Lasts("missive_enabled", f.val["missive_enabled"])
        BY DEF Lasts, Undone
      <4>3. Put(f, "missive_enabled", "false").val
              = [f.val EXCEPT !["missive_enabled"] = "false"]
        <5>1. "false" \in Words /\ "missive_enabled" # "last_known"
          BY WordsAre
        <5> QED BY <1>0, <1>2, <4>2, <5>1, KeepsPut
      <4> QED BY <1>0, <1>2, <4>1, <4>3
    <3>2. CASE f.val["missive_enabled"] # "true"
      BY <3>2 DEF Swap
    <3> QED BY <3>1, <3>2
  <2> HIDE DEF g
  <2>4. Keeps(d, g)
    BY <1>1, <2>2, KeepsTrans
  <2> QED BY <1>4, <1>8, <2>1, <2>3, <2>4
<1> QED BY <1>5, <1>6, <1>7, <1>8

\* Every step has its outcome, on any database.
LEMMA MigratedDoes ==
  ASSUME NEW d \in Database, Opens(d.prompt), NEW s, NEW r, r = <<>> \/ r \in KeyRings
  PROVE  Outcome(s, d, Migrated(s, d, r))
<1>1. CASE s \notin Special
  <2>1. s \notin {"v4", "v5", "v7"}
    BY <1>1 DEF Special
  <2> QED BY <1>1, <2>1, OrdinaryKeep, KeptOutcome
<1>2. CASE s = "wipe"
  BY <1>2, Scripts, WipeDoes
<1>3. CASE s = "load"
  BY <1>3, Scripts, LoadDoes
<1>4. CASE s = "v4"
  <2>1. Prompted(s, d.prompt) = IF d.prompt = <<>> THEN CodePrompt ELSE d.prompt
    BY <1>4 DEF Prompted
  <2> QED BY <1>4, <2>1, Scripts, V4Does, RewordedOutcome
<1>5. CASE s = "v5"
  <2>1. CASE d.prompt # <<>>
    <3>1. Prompted(s, d.prompt) = V5Prompt(d.prompt)
      BY <1>5, <2>1 DEF Prompted
    <3> QED BY <1>5, <2>1, <3>1, Scripts, V5Does, RewordedOutcome
  <2>2. CASE d.prompt = <<>>
    <3>1. V5(d) = d /\ Prompted(s, d.prompt) = d.prompt
      BY <1>5, <2>2 DEF V5, ForShops, Prompted
    <3>2. Migrated(s, d, r) = d
      BY <1>5, <3>1, Scripts
    <3>3. Keeps(d, d)
      BY KeepsSame
    <3> QED BY <3>1, <3>2, <3>3 DEF Keeps, Outcome
  <2> QED BY <2>1, <2>2
<1>6. CASE s = "v7"
  <2>1. Prompted(s, d.prompt) = V7Prompt(d.prompt)
    BY <1>6 DEF Prompted
  <2> QED BY <1>6, <2>1, Scripts, V7Does, RewordedOutcome
<1>7. CASE s = "v17"
  <2>1. Migrated(s, d, r) = V17(d, r)
    BY <1>7, Scripts
  <2> QED BY <1>7, <2>1, V17Does
<1>8. CASE s = "v37_7"
  BY <1>8, Scripts, V37Does
<1> QED BY <1>1, <1>2, <1>3, <1>4, <1>5, <1>6, <1>7, <1>8 DEF Special

(***************************************************************************)
(* The databases that boots find.                                          *)
(***************************************************************************)

\* A database whose products, if any, came with a catalogue.
Sane(d) == d \in Database /\ Opens(d.prompt) /\ (d.val["catalogue"] = Missing => Bare(d))

\* Every step leaves a sane database sane.
LEMMA StaysSane ==
  ASSUME NEW d, Sane(d), NEW s, NEW r, r = <<>> \/ r \in KeyRings
  PROVE  Sane(Migrated(s, d, r))
<1> DEFINE e == Migrated(s, d, r)
<1>1. d \in Database /\ Opens(d.prompt) /\ d.prompt \in Seq(Words)
  BY DEF Sane, Database
<1>2. Outcome(s, d, e)
  BY <1>1, MigratedDoes
<1>3. Opens(e.prompt)
  <2> HIDE DEF e
  <2> QED BY <1>1, <1>2, PromptMoves DEF Outcome, WordsMove
<1>4. e.val["catalogue"] = Missing => Bare(e)
  <2>1. CASE s = "wipe"
    <3>1. e = Wipe(d)
      BY <2>1, Scripts
    <3>2. \A x \in PricingItems : e.val[x] = Missing
      BY <1>1, <3>1, WipeDoes, ItemNames
    <3> HIDE DEF e
    <3> QED BY <3>2 DEF Bare, Stocked
  <2>2. CASE s = "load"
    <3>1. e = Load(d)
      BY <2>2, Scripts
    <3>2. e.val["catalogue"] = "seed"
      BY <1>1, <3>1, LoadDoes
    <3> HIDE DEF e
    <3> QED BY <3>2 DEF Missing
  <2>3. CASE s \notin {"wipe", "load"}
    <3>1. \A v : v # Missing => Lasts("catalogue", v)
      BY DEF Lasts, Undone
    <3> HIDE DEF e
    <3> QED BY <1>2, <2>3, <3>1, ItemNames DEF Sane, Outcome
  <2> QED BY <2>1, <2>2, <2>3
<1>5. e \in Database
  BY <1>2 DEF Outcome
<1> HIDE DEF e
<1>6. Sane(e)
  BY <1>3, <1>4, <1>5 DEF Sane
<1> QED BY <1>6 DEF e

\* Where the named steps are in the chain.
LEMMA Places ==
  /\ DOMAIN Chain = 1..50 /\ Len(Chain) = 50
  /\ Position("v2") = 6 /\ Position("v37_7") = 43
  /\ \A k \in 7..50 : Position(Chain[k]) \in 7..50
<1>1. DOMAIN Chain = 1..50 /\ Len(Chain) = 50
  BY DEF Chain
<1>2. Position("v2") = 6 /\ Position("v37_7") = 43
  <2>1. \E n \in DOMAIN Chain : Chain[n] = "v2"
    BY <1>1, ChainIs
  <2>2. \E n \in DOMAIN Chain : Chain[n] = "v37_7"
    BY <1>1, ChainIs
  <2>3. Position("v2") \in 1..50 /\ Chain[Position("v2")] = "v2"
    BY <1>1, <2>1 DEF Position
  <2>4. Position("v37_7") \in 1..50 /\ Chain[Position("v37_7")] = "v37_7"
    BY <1>1, <2>2 DEF Position
  <2> QED BY <2>3, <2>4, ChainIs
<1>3. ASSUME NEW k \in 7..50 PROVE Position(Chain[k]) \in 7..50
  <2> DEFINE Early == {"init_db", "pre_ddl", "has_products", "wipe", "load", "v2"}
  <2>1. \A n \in 1..50 : Chain[n] \in Early => n < 7
    BY DEF Chain
  <2>2. \A n \in 1..6 : Chain[n] \in Early
    BY DEF Chain
  <2>3. \E n \in DOMAIN Chain : Chain[n] = Chain[k]
    BY <1>1
  <2>4. Position(Chain[k]) \in 1..50 /\ Chain[Position(Chain[k])] = Chain[k]
    BY <1>1, <2>3 DEF Position
  <2> HIDE DEF Early
  <2> QED BY <2>1, <2>2, <2>4
<1> QED BY <1>1, <1>2, <1>3

\* The database of a fresh installation.
LEMMA EmptyIs == Sane(Empty) /\ Empty.cols = {} /\ ~Has(Empty.prompt, "own")
<1>1. NoData \in [Items -> Words]
  BY WordsAre DEF NoData
<1>2. Plain \in Sealers /\ "" \in Words
  BY WordsAre DEF Sealers
<1>3. Empty \in Database
  <2>1. <<>> \in Seq(Words) /\ {} \in SUBSET (AllCols \cup {"v0"})
    OBVIOUS
  <2>2. [text |-> "", key |-> Plain] \in [text: Words, key: Sealers]
    BY <1>2
  <2> HIDE DEF NoData
  <2> QED BY <1>1, <2>1, <2>2 DEF Database, Empty
<1>4. Opens(Empty.prompt) /\ ~Has(Empty.prompt, "own")
  BY DEF Opens, Has, Empty
<1>5. Bare(Empty)
  BY ItemNames DEF Bare, Empty, NoData
<1> QED BY <1>3, <1>4, <1>5 DEF Sane, Empty

\* The database before the chain was written.
LEMMA LegacyIs ==
  Sane(Legacy) /\ Legacy.cols = {"v0"}
<1> DEFINE old == [posters |-> Missing, silk |-> "no", ncr |-> "pads",
                   artwork |-> "single", business_rules |-> "v6",
                   stripe_secret_key |-> "own", missive_enabled |-> "true"]
           d0 == [Empty EXCEPT !.cols = {"v0"}]
           d == Load(d0)
           v == [x \in Items |-> IF x \in DOMAIN old THEN old[x] ELSE d.val[x]]
           p == <<"intro", "contact", "tone", "legacy">>
           e == [cols |-> d.cols, val |-> v, prompt |-> p,
                 secret |-> [text |-> "old", key |-> d.secret.key]]
<1>1. d0 \in Database /\ d0.cols = {"v0"} /\ Empty \in Database
  <2>3. Empty \in Database
    BY EmptyIs DEF Sane
  <2>4. d0 \in Database
    BY <2>3 DEF Database
  <2>5. d0.cols = {"v0"}
    BY <2>3 DEF Database
  <2> QED BY <2>3, <2>4, <2>5
<1> HIDE DEF d0
<1>2. d \in Database /\ d.val["catalogue"] = "seed"
  BY <1>1, LoadDoes DEF Outcome
<1>3. d.cols = {"v0"}
  <2>1. d.cols = d0.cols
    BY <1>1 DEF Load, Database
  <2> QED BY <1>1, <2>1
<1>4. Legacy = e
  <2>1. Legacy = [d EXCEPT !.prompt = p, !.secret.text = "old",
                   !.val = [x \in Items |-> IF x \in DOMAIN old THEN old[x] ELSE @[x]]]
    BY DEF Legacy, d0
  <2> HIDE DEF d
  <2> QED BY <1>2, <2>1 DEF Database
<1> HIDE DEF d
<1>5. v \in [Items -> Words]
  <2>1. \A x \in DOMAIN old : old[x] \in {Missing, "no", "pads", "single", "v6", "own", "true"}
    OBVIOUS
  <2>2. {Missing, "no", "pads", "single", "v6", "own", "true"} \subseteq Words
    BY WordsAre
  <2>3. d.val \in [Items -> Words]
    BY <1>2 DEF Database
  <2> HIDE DEF old
  <2> QED BY <2>1, <2>2, <2>3
<1>6. v["catalogue"] = "seed"
  BY <1>2, ItemNames
<1>7. p \in Seq(Words)
  <2>1. "intro" \in Words /\ "contact" \in Words /\ "tone" \in Words /\ "legacy" \in Words
    BY WordsAre
  <2> QED BY <2>1
<1>8. Opens(p)
  BY DEF Opens
<1>9. "old" \in Words
  BY WordsAre
<1> HIDE DEF v, p
<1>10. e \in Database
  BY <1>2, <1>3, <1>5, <1>7, <1>9 DEF Database
<1>11. Sane(e)
  BY <1>6, <1>8, <1>10 DEF Sane, Missing
<1> QED BY <1>3, <1>4, <1>11

\* The database of a release is the one before it, migrated: a function with
\* that equation exists, so that LeftBy is one.
LEMMA ReleaseStep ==
  \A n \in Nat : LeftBy[n] = IF n < 6 THEN Legacy
                             ELSE Migrated(Chain[n], LeftBy[n - 1], <<>>)
<1> DEFINE Next6(n, d) == IF n < 6 THEN Legacy ELSE Migrated(Chain[n], d, <<>>)
           V == {d \in Database : Sane(d)}
           G == [x \in Nat \X V |-> Next6(x[1], x[2])]
           Is(f) == f = [n \in Nat |-> Next6(n, f[n - 1])]
<1>1. Legacy \in V
  BY LegacyIs DEF Sane
<1>2. \A n \in Nat, d \in V : Next6(n, d) \in V
  <2> SUFFICES ASSUME NEW n \in Nat, NEW d \in V PROVE Next6(n, d) \in V
    OBVIOUS
  <2>1. Migrated(Chain[n], d, <<>>) \in V
    BY StaysSane DEF Sane
  <2> HIDE DEF V
  <2> QED BY <1>1, <2>1
<1> HIDE DEF Next6
<1>3. G \in [Nat \X V -> V]
  <2> HIDE DEF V
  <2> QED BY <1>2
<1>4. PICK f : f \in [Nat -> V] /\ f[0] = Legacy /\ \A n \in Nat : f[n + 1] = G[<<n + 1, f[n]>>]
  <2> HIDE DEF V, G
  <2>1. \E f : Unrolls(f, V, Legacy, G)
    BY <1>1, <1>3, Recursion
  <2> QED BY <2>1 DEF Unrolls
<1>5. \A n \in Nat : f[n] = Next6(n, f[n - 1])
  <2> SUFFICES ASSUME NEW n \in Nat PROVE f[n] = Next6(n, f[n - 1])
    OBVIOUS
  <2>1. CASE n = 0
    BY <1>4, <2>1 DEF Next6
  <2>2. CASE n # 0
    <3>1. n - 1 \in Nat /\ (n - 1) + 1 = n
      BY <2>2
    <3>2. f[(n - 1) + 1] = G[<<(n - 1) + 1, f[n - 1]>>]
      <4> HIDE DEF G, V
      <4> QED BY <1>4, <3>1
    <3>3. f[n - 1] \in V
      <4> HIDE DEF V
      <4> QED BY <1>4, <3>1
    <3>4. G[<<n, f[n - 1]>>] = Next6(n, f[n - 1])
      <4> HIDE DEF V
      <4> QED BY <3>3
    <3> HIDE DEF G, V
    <3> QED BY <3>1, <3>2, <3>4
  <2> QED BY <2>1, <2>2
<1>6. Is(f)
  <2>1. f = [n \in Nat |-> f[n]]
    <3> HIDE DEF V
    <3> QED BY <1>4
  <2> QED BY <1>5, <2>1
<1>7. LeftBy = CHOOSE g : Is(g)
  BY Places DEF LeftBy, Next6
<1>8. Is(LeftBy)
  <2> HIDE DEF Is
  <2> QED BY <1>6, <1>7
<1>9. \A n \in Nat : LeftBy[n] = Next6(n, LeftBy[n - 1])
  <2>1. LeftBy = [n \in Nat |-> Next6(n, LeftBy[n - 1])]
    BY <1>8
  <2> QED BY <2>1
<1> QED BY <1>9 DEF Next6

\* The database that a release left is sane and has the columns of its release.
LEMMA Releasable ==
  ASSUME NEW n \in Nat
  PROVE  /\ Sane(LeftBy[n])
         /\ n >= 6 => "v2" \in LeftBy[n].cols
         /\ n >= 7 => "v3" \in LeftBy[n].cols
<1> DEFINE Good(k) == /\ Sane(LeftBy[k])
                      /\ k >= 6 => "v2" \in LeftBy[k].cols
                      /\ k >= 7 => "v3" \in LeftBy[k].cols
           S == {k \in Nat : Good(k)}
<1>1. 0 \in S
  BY ReleaseStep, LegacyIs
<1>2. ASSUME NEW k \in S PROVE k + 1 \in S
  <2>1. k \in Nat /\ k + 1 \in Nat /\ Good(k) /\ (k + 1) - 1 = k
    OBVIOUS
  <2>2. CASE k + 1 < 6
    BY <2>1, <2>2, ReleaseStep, LegacyIs
  <2>3. CASE k + 1 >= 6
    <3> DEFINE d == LeftBy[k]
               e == LeftBy[k + 1]
    <3>1. e = Migrated(Chain[k + 1], d, <<>>)
      BY <2>1, <2>3, ReleaseStep
    <3>2. Sane(d)
      BY <2>1
    <3> HIDE DEF d, e
    <3>3. Sane(e)
      BY <3>1, <3>2, StaysSane
    <3>4. d.cols \subseteq e.cols
      BY <3>1, <3>2, MigratedDoes DEF Sane, Outcome
    <3>5. d \in Database
      BY <3>2 DEF Sane
    <3>6. k + 1 = 6 => "v2" \in e.cols
      <4>1. k + 1 = 6 => e = V2(d)
        BY <3>1, Scripts, ChainIs
      <4> QED BY <3>5, <4>1, FirstKeep
    <3>7. k + 1 = 7 => "v3" \in e.cols
      <4>1. k + 1 = 7 => e = V3(d)
        BY <3>1, Scripts, ChainIs
      <4> QED BY <3>5, <4>1, FirstKeep
    <3>8. Good(k + 1)
      BY <2>1, <3>3, <3>4, <3>6, <3>7 DEF d, e
    <3> QED BY <2>1, <3>8
  <2> QED BY <2>1, <2>2, <2>3
<1>3. S = Nat
  <2> HIDE DEF Good
  <2> QED BY <1>1, <1>2, ByInduction
<1> QED BY <1>3

(***************************************************************************)
(* The invariant.                                                          *)
(*                                                                         *)
(* Boots overlap, so what is known of the database is what holds once some *)
(* instance is past a step, whoever else runs behind it.                   *)
(***************************************************************************)

\* Where the instances are, and with which keys.
Placed == at \in [Instances -> 0..51] /\ ring \in [Instances -> KeyRings]

\* What the operator wrote.
Noted ==
  /\ "secret" \in DOMAIN mine /\ DOMAIN mine \subseteq Items \cup {"secret", "prompt"}
  /\ "prompt" \in DOMAIN mine => mine["prompt"] \in Prompts
  /\ \A x \in EditedItems : mine[x] # Missing /\ x \notin {"artwork", "last_known"}

\* The form of the log.
LogTyped ==
  log \in [fix: {log.fix}, torn: BOOLEAN, since: SUBSET Instances, late: BOOLEAN,
           over: SUBSET DOMAIN mine]

\* The bounds are counted.
Counted == used \in [boots: 0..MaxBoots, edits: 0..MaxEdits, mishaps: 0..MaxMishaps]

\* All these; products come with a catalogue, see Sane.
Shape == Sane(db) /\ Placed /\ Noted /\ LogTyped /\ Counted

\* A database has no columns, or those of v3 at least; the rest comes with the
\* first two steps.
ColsInv ==
  /\ db.cols = {} \/ {"v2", "v3"} \subseteq db.cols
  /\ \A i \in Instances : at[i] > 1 => {"v2", "v3"} \subseteq db.cols
  /\ \A i \in Instances : at[i] > 2 => ProductCols \subseteq db.cols

\* A prompt that v5 and v7 have nothing to cut from.
Clean(p) == ~Has(p, "contact") /\ ~Has(p, "legacy")

\* Past v4 there is a prompt; a boot past v5 and v7 that began after the last
\* edit has their sections out of it for good: v4 saves the code's prompt,
\* which has a contact section, only where there is none.  What the operator
\* saved stands above those sections.
PromptInv ==
  /\ \A i \in Instances : at[i] > 8 => db.prompt # <<>>
  /\ \A i \in log.since : /\ at[i] > 9 => ~Has(db.prompt, "legacy")
                          /\ at[i] > 11 => ~Has(db.prompt, "contact")
  /\ "prompt" \in DOMAIN mine \ log.over => Stands(mine["prompt"], db.prompt)

\* The secret is as saved unless v17 wrote over it; past v17 an instance with
\* a key has seen it encrypted, and nobody decrypts it.
SecretInv ==
  /\ "secret" \notin log.over => db.secret.text = mine["secret"]
  /\ \A i \in Instances :
       at[i] > 21 /\ ring[i] # <<>> /\ db.secret.text # "" => db.secret.key # Plain

\* The address remembered is the last one that a boot saw.
SeenInv == seen \notin Blank => db.val["last_known"] = seen

\* The values the operator wrote stand; a wipe is an exception, and a value
\* that a step wrote over as it was saved.
EditInv ==
  ~log.late =>
    \A x \in EditedItems \ log.over : ~Undone(x, mine[x]) => db.val[x] = mine[x]

Inv == Shape /\ ColsInv /\ PromptInv /\ SecretInv /\ SeenInv /\ EditInv

(***************************************************************************)
(* The steps of the chain.                                                 *)
(***************************************************************************)

\* What the step of the chain that i is at does, be it Migrate, Finish or one
\* that loses an edit: of that edit no more is noted than that it was lost.
Advances(i) ==
  /\ at[i] \in 1..50 /\ at' = [at EXCEPT ![i] = at'[i]]
  /\ at'[i] = at[i] + 1 \/ (at[i] = 3 /\ at'[i] = 6)
  /\ db' = Migrated(Chain[at[i]], db, ring[i])
  /\ Chain[at[i]] = "load" => CanLoad(db)
  /\ seen' = IF Chain[at[i]] = "v37_7" /\ db.val["missive_from_address"] # ""
             THEN db.val["missive_from_address"] ELSE seen
  /\ log'.late = (log.late \/ (Chain[at[i]] = "wipe" /\ HasProducts(db)))
  /\ log'.since \subseteq log.since
  /\ ring' = ring /\ Noted' /\ LogTyped' /\ Counted'
  /\ \A x \in DOMAIN mine' \ log'.over :
       x \in DOMAIN mine \ log.over /\ mine'[x] = mine[x]

\* What a step of the chain leaves, and who moved.
LEMMA AdvanceDoes ==
  ASSUME Inv, NEW i \in Instances, Advances(i)
  PROVE  /\ db \in Database /\ Sane(db)
         /\ ring[i] \in KeyRings /\ Outcome(Chain[at[i]], db, db') /\ Sane(db')
         /\ \A j \in Instances : at[j] \in 0..51 /\ at'[j] \in 0..51
         /\ \A j \in Instances : j # i => at'[j] = at[j]
         /\ at' \in [Instances -> 0..51]
<1>1. Sane(db) /\ at \in [Instances -> 0..51] /\ ring[i] \in KeyRings
  BY DEF Inv, Shape, Placed
<1>2. db \in Database /\ Opens(db.prompt)
  BY <1>1 DEF Sane
<1>3. db' = Migrated(Chain[at[i]], db, ring[i])
  BY DEF Advances
<1>4. Outcome(Chain[at[i]], db, db')
  BY <1>1, <1>2, <1>3, MigratedDoes
<1>5. Sane(db')
  BY <1>1, <1>3, StaysSane
<1>6. at'[i] \in 0..51 /\ at' = [at EXCEPT ![i] = at'[i]]
  <2>1. /\ at[i] \in 1..50 /\ (at'[i] = at[i] + 1 \/ at'[i] = 6)
        /\ at' = [at EXCEPT ![i] = at'[i]]
    BY DEF Advances
  <2> QED BY <2>1
<1>7. at' \in [Instances -> 0..51] /\ \A j \in Instances : j # i => at'[j] = at[j]
  <2>1. \A n \in 0..51 : [at EXCEPT ![i] = n] \in [Instances -> 0..51]
    BY <1>1
  <2>2. \A n : \A j \in Instances : j # i => [at EXCEPT ![i] = n][j] = at[j]
    BY <1>1
  <2> QED BY <1>6, <2>1, <2>2
<1>8. \A j \in Instances : at[j] \in 0..51 /\ at'[j] \in 0..51
  BY <1>1, <1>7
<1> QED BY <1>1, <1>2, <1>4, <1>5, <1>7, <1>8

\* A step of the chain preserves Shape.
LEMMA AdvanceShape ==
  ASSUME Inv, NEW i \in Instances, Advances(i)
  PROVE  Shape'
<1>1. Sane(db') /\ at' \in [Instances -> 0..51]
  BY AdvanceDoes
<1>2. ring' \in [Instances -> KeyRings] /\ Noted' /\ LogTyped' /\ Counted'
  BY DEF Inv, Shape, Placed, Advances
<1> QED BY <1>1, <1>2 DEF Shape, Placed

\* A step of the chain preserves ColsInv: the first two add the columns.
LEMMA AdvanceCols ==
  ASSUME Inv, NEW i \in Instances, Advances(i)
  PROVE  ColsInv'
<1> DEFINE s == Chain[at[i]]
<1>1. /\ db \in Database /\ db.cols \subseteq db'.cols
      /\ \A j \in Instances : at[j] \in 0..51 /\ at'[j] \in 0..51
      /\ \A j \in Instances : j # i => at'[j] = at[j]
  BY AdvanceDoes DEF Outcome
<1>2. /\ at[i] \in 1..50 /\ (at'[i] = at[i] + 1 \/ (at[i] = 3 /\ at'[i] = 6))
      /\ db' = Migrated(s, db, ring[i])
  BY DEF Advances
<1>3. ColsInv
  BY DEF Inv
<1>4. db.cols # {} => {"v2", "v3"} \subseteq db.cols
  BY <1>3 DEF ColsInv
<1>5. at[i] = 1 => {"v2", "v3"} \subseteq db'.cols
  <2>1. at[i] = 1 => db' = InitDb(db)
    BY <1>2, Scripts, ChainIs
  <2>2. at[i] = 1 /\ db.cols = {} => db'.cols = AllCols
    BY <1>1, <2>1, FirstKeep
  <2>3. {"v2", "v3"} \subseteq AllCols
    BY DEF AllCols
  <2>4. CASE db.cols = {}
    BY <2>2, <2>3, <2>4
  <2>5. CASE db.cols # {}
    BY <1>1, <1>4, <2>5
  <2> QED BY <2>4, <2>5
<1>6. at[i] > 1 => {"v2", "v3"} \subseteq db'.cols
  BY <1>1, <1>3 DEF ColsInv
<1>7. at[i] = 2 => ProductCols \subseteq db'.cols
  <2>1. at[i] = 2 => db' = PreDdl(db)
    BY <1>2, Scripts, ChainIs
  <2>2. at[i] = 2 => {"v34", "v36", "v38", "v39", "v41"} \subseteq db'.cols
    BY <1>1, <2>1, FirstKeep
  <2> QED BY <1>6, <2>2 DEF ProductCols
<1>8. {"v2", "v3"} \subseteq db'.cols
  BY <1>2, <1>5, <1>6
<1>9. \A j \in Instances : at'[j] > 2 => ProductCols \subseteq db'.cols
  BY <1>1, <1>2, <1>3, <1>7 DEF ColsInv
<1> QED BY <1>8, <1>9 DEF ColsInv

\* A step of the chain preserves PromptInv, whichever other boot is ahead.
LEMMA AdvancePrompt ==
  ASSUME Inv, NEW i \in Instances, Advances(i)
  PROVE  PromptInv'
<1> DEFINE s == Chain[at[i]]
           p == db.prompt
           q == db'.prompt
<1>0. /\ \A j \in Instances : at[j] \in 0..51 /\ at'[j] \in 0..51
      /\ \A j \in Instances : j # i => at'[j] = at[j]
  BY AdvanceDoes
<1>1. q = Prompted(s, p) /\ p \in Seq(Words) /\ Opens(p)
  BY AdvanceDoes DEF Outcome, Sane, Database
<1>2. WordsMove(s, p, q)
  BY <1>1, PromptMoves
<1>3. at[i] \in 1..50 /\ (at'[i] = at[i] + 1 \/ (at[i] = 3 /\ at'[i] = 6))
  BY DEF Advances
<1>4. PromptInv /\ log'.since \subseteq log.since /\ log.since \subseteq Instances
  BY DEF Inv, Shape, LogTyped, Advances
<1>5. (at[i] = 8 => s = "v4") /\ (at[i] = 9 => s = "v5") /\ (at[i] = 11 => s = "v7")
  BY ChainStarts
<1>6. q \in Seq(Words)
  BY AdvanceDoes DEF Sane, Database
<1> HIDE DEF s, p, q
<1>7. /\ \A j \in Instances : at[j] > 8 => p # <<>>
      /\ \A j \in log.since : at[j] > 9 => ~Has(p, "legacy")
      /\ \A j \in log.since : at[j] > 11 => ~Has(p, "contact")
      /\ "prompt" \in DOMAIN mine \ log.over => Stands(mine["prompt"], p)
  BY <1>4 DEF PromptInv, p
<1>8. /\ q = <<>> => p = <<>>
      /\ p # <<>> => \A w : Has(q, w) => Has(p, w)
      /\ s = "v4" => q # <<>>
      /\ s = "v5" => ~Has(q, "legacy")
      /\ s = "v7" => ~Has(q, "contact")
      /\ Keeping(p, q)
  BY <1>2 DEF WordsMove
<1>9. \A j \in Instances : at'[j] > 8 => q # <<>>
  <2>1. \A j \in Instances : at'[j] > 8 => at[j] > 8 \/ (j = i /\ at[i] = 8)
    BY <1>0, <1>3
  <2> QED BY <1>5, <1>7, <1>8, <2>1
<1>10. \A j \in log'.since : at'[j] > 9 => ~Has(q, "legacy")
  <2>1. \A j \in log.since : at'[j] > 9 => at[j] > 9 \/ (j = i /\ at[i] = 9)
    BY <1>0, <1>3, <1>4
  <2>2. \A j \in log.since : at[j] > 9 => at[j] > 8
    BY <1>0, <1>4
  <2>3. \A j \in log.since : at[j] > 9 => p # <<>> /\ ~Has(p, "legacy")
    BY <1>4, <1>7, <2>2
  <2>4. at[i] = 9 => ~Has(q, "legacy")
    BY <1>5, <1>8
  <2>5. p # <<>> /\ ~Has(p, "legacy") => ~Has(q, "legacy")
    BY <1>8
  <2> QED BY <1>4, <2>1, <2>3, <2>4, <2>5
<1>11. \A j \in log'.since : at'[j] > 11 => ~Has(q, "contact")
  <2>1. \A j \in log.since : at'[j] > 11 => at[j] > 11 \/ (j = i /\ at[i] = 11)
    BY <1>0, <1>3, <1>4
  <2>2. \A j \in log.since : at[j] > 11 => at[j] > 8
    BY <1>0, <1>4
  <2>3. \A j \in log.since : at[j] > 11 => p # <<>> /\ ~Has(p, "contact")
    BY <1>4, <1>7, <2>2
  <2>4. at[i] = 11 => ~Has(q, "contact")
    BY <1>5, <1>8
  <2>5. p # <<>> /\ ~Has(p, "contact") => ~Has(q, "contact")
    BY <1>8
  <2> QED BY <1>4, <2>1, <2>3, <2>4, <2>5
<1>12. ASSUME "prompt" \in DOMAIN mine' \ log'.over PROVE Stands(mine'["prompt"], q)
  <2>1. "prompt" \in DOMAIN mine \ log.over /\ mine'["prompt"] = mine["prompt"]
    BY <1>12 DEF Advances
  <2>2. mine["prompt"] \in Prompts
    BY <2>1 DEF Inv, Shape, Noted
  <2> DEFINE m == mine["prompt"]
  <2>3. m \in Seq(Words) /\ m # <<>> /\ Stands(m, p)
    BY <1>7, <2>1, <2>2, PromptsAre
  <2> HIDE DEF m
  <2>4. Stands(m, q)
    BY <1>1, <1>6, <1>8, <2>3, StandsOn
  <2> QED BY <2>1, <2>4 DEF m
<1> QED BY <1>9, <1>10, <1>11, <1>12 DEF PromptInv, q

\* A step of the chain preserves SecretInv.
LEMMA AdvanceSecret ==
  ASSUME Inv, NEW i \in Instances, Advances(i)
  PROVE  SecretInv'
<1> DEFINE s == Chain[at[i]]
<1>1. /\ \A j \in Instances : at[j] \in 0..51 /\ at'[j] \in 0..51
      /\ \A j \in Instances : j # i => at'[j] = at[j]
      /\ db'.secret.text = db.secret.text
      /\ s # "v17" => db'.secret = db.secret
      /\ db \in Database /\ ring[i] \in KeyRings
  BY AdvanceDoes DEF Outcome
<1>2. at[i] \in 1..50 /\ (at'[i] = at[i] + 1 \/ (at[i] = 3 /\ at'[i] = 6))
  BY DEF Advances
<1>3. /\ SecretInv /\ ring' = ring
      /\ "secret" \notin log'.over => "secret" \notin log.over /\ mine'["secret"] = mine["secret"]
  BY DEF Inv, Advances, Noted
<1>4. s = "v17" <=> at[i] = 21
  BY <1>2, ChainIs
<1>5. s = "v17" => db' = V17(db, ring[i])
  <2>1. db' = Migrated(s, db, ring[i])
    BY DEF Advances
  <2> HIDE DEF s
  <2> QED BY <2>1, Scripts
<1>6. /\ s = "v17" /\ db.secret.key # Plain => db'.secret.key # Plain
      /\ s = "v17" /\ ring[i] # <<>> /\ db.secret.text # "" => db'.secret.key # Plain
  BY <1>1, <1>5, V17Does
<1> HIDE DEF s
<1>7. db.secret.key # Plain => db'.secret.key # Plain
  BY <1>1, <1>6
<1>8. \A j \in Instances : at'[j] > 21 => at[j] > 21 \/ (j = i /\ at[i] = 21)
  BY <1>1, <1>2
<1>9. \A j \in Instances :
        at'[j] > 21 /\ ring[j] # <<>> /\ db.secret.text # "" => db'.secret.key # Plain
  BY <1>3, <1>4, <1>6, <1>7, <1>8 DEF SecretInv
<1> QED BY <1>1, <1>3, <1>9 DEF SecretInv

\* A step of the chain preserves SeenInv.
LEMMA AdvanceSeen ==
  ASSUME Inv, NEW i \in Instances, Advances(i)
  PROVE  SeenInv'
<1> DEFINE s == Chain[at[i]]
           from == db.val["missive_from_address"]
<1>1. db \in Database /\ (s # "v37_7" => db'.val["last_known"] = db.val["last_known"])
  BY AdvanceDoes DEF Outcome
<1>2. seen' = IF s = "v37_7" /\ from # "" THEN from ELSE seen
  BY DEF Advances
<1>3. s = "v37_7" => db' = V37_7(db)
  <2>1. db' = Migrated(s, db, ring[i])
    BY DEF Advances
  <2> HIDE DEF s
  <2> QED BY <2>1, Scripts
<1>4. /\ s = "v37_7" /\ from \in Blank /\ db.val["last_known"] # Missing
           => db'.val["last_known"] = db.val["last_known"]
      /\ s = "v37_7" /\ from \notin Blank => db'.val["last_known"] = from
  BY <1>1, <1>3, V37Does
<1>5. SeenInv
  BY DEF Inv
<1> HIDE DEF s, from
<1>6. CASE s = "v37_7" /\ from \notin Blank
  BY <1>2, <1>4, <1>6 DEF SeenInv, Blank
<1>7. CASE s = "v37_7" /\ from \in Blank
  <2>1. seen' \notin Blank => seen' = seen /\ db.val["last_known"] = seen
    BY <1>2, <1>5, <1>7 DEF SeenInv, Blank
  <2>2. db.val["last_known"] = seen /\ seen \notin Blank => db'.val["last_known"] = seen
    BY <1>4, <1>7 DEF Blank
  <2> QED BY <2>1, <2>2 DEF SeenInv
<1>8. CASE s # "v37_7"
  BY <1>1, <1>2, <1>5, <1>8 DEF SeenInv
<1> QED BY <1>6, <1>7, <1>8

\* A step of the chain preserves EditInv: a wipe with products is recorded,
\* one without finds nothing of the operator's, and neither does a load.
LEMMA AdvanceEdit ==
  ASSUME Inv, NEW i \in Instances, Advances(i)
  PROVE  EditInv'
<1> DEFINE s == Chain[at[i]]
<1>1. /\ db \in Database /\ Sane(db) /\ Outcome(s, db, db')
      /\ log'.late = (log.late \/ (s = "wipe" /\ HasProducts(db)))
      /\ db' = Migrated(s, db, ring[i]) /\ (s = "load" => CanLoad(db))
      /\ \A x \in DOMAIN mine' \ log'.over :
           x \in DOMAIN mine \ log.over /\ mine'[x] = mine[x]
  BY AdvanceDoes DEF Advances
<1>2. /\ EditInv /\ log.late \in BOOLEAN
      /\ \A x \in EditedItems : mine[x] # Missing /\ x \notin {"artwork", "last_known"}
  BY DEF Inv, Shape, Noted, LogTyped
<1> HIDE DEF s
<1>3. SUFFICES ASSUME ~log'.late, NEW x \in EditedItems \ log.over, ~Undone(x, mine[x])
               PROVE  db'.val[x] = mine[x]
  BY <1>1 DEF EditInv, EditedItems
<1>4. ~log.late /\ db.val[x] = mine[x] /\ x \in Items /\ db.val[x] # Missing
  BY <1>1, <1>2, <1>3 DEF EditInv, EditedItems
<1>5. Lasts(x, db.val[x])
  BY <1>2, <1>3, <1>4 DEF Lasts
<1>6. CASE s = "wipe"
  <2>1. db' = Wipe(db) /\ ~HasProducts(db)
    BY <1>1, <1>3, <1>6, Scripts
  <2>2. Bare(db) /\ db.val["posters"] = Missing /\ db.val["secretest"] = Missing
    BY <1>1, <2>1 DEF HasProducts, Sane
  <2>3. x \notin PricingItems
    BY <1>4, <2>2 DEF Bare, Stocked
  <2> QED BY <1>1, <1>4, <2>1, <2>3, WipeDoes
<1>7. CASE s = "load"
  <2>1. db' = Load(db) /\ CanLoad(db)
    BY <1>1, <1>7, Scripts
  <2>2. Bare(db) /\ db.val["posters"] = Missing
    BY <1>1, <2>1 DEF CanLoad, Sane
  <2>3. x \notin Stocked \cup {"posters"}
    BY <1>4, <2>2 DEF Bare
  <2> QED BY <1>1, <1>4, <2>1, <2>3, LoadDoes
<1>8. CASE s \notin {"wipe", "load"}
  BY <1>1, <1>4, <1>5, <1>8 DEF Outcome
<1> QED BY <1>6, <1>7, <1>8

\* A step of the chain preserves the invariant.
LEMMA AdvanceInv ==
  ASSUME Inv, NEW i \in Instances, Advances(i)
  PROVE  Inv'
BY AdvanceShape, AdvanceCols, AdvancePrompt, AdvanceSecret, AdvanceSeen, AdvanceEdit
   DEF Inv

(***************************************************************************)
(* Initial states, boots that begin, and the two actions of the chain.     *)
(***************************************************************************)

\* The invariant holds of every release.
LEMMA InitInv == ASSUME Init PROVE Inv
<1>1. Sane(db) /\ (db.cols = {} \/ {"v2", "v3"} \subseteq db.cols)
  <2>1. PICK r \in Releases :
          db = IF r = "fresh" THEN Empty ELSE LeftBy[Position(r)]
    BY DEF Init
  <2>2. CASE r = "fresh"
    BY <2>1, <2>2, EmptyIs
  <2>3. CASE r # "fresh"
    <3>1. PICK k \in 7..50 : r = Chain[k]
      <4>1. r \in {Chain[n] : n \in 7..Len(Chain)}
        BY <2>3, SUAssumption
      <4> QED BY <4>1, Places
    <3>2. Position(r) \in 7..50
      BY <3>1, Places
    <3> DEFINE n == Position(r)
    <3>3. n \in Nat /\ n >= 6 /\ n >= 7 /\ db = LeftBy[n]
      BY <2>1, <2>3, <3>2
    <3> HIDE DEF n
    <3> QED BY <3>3, Releasable
  <2> QED BY <2>2, <2>3
<1>2. /\ at = [i \in Instances |-> 0] /\ seen = db.val["last_known"]
      /\ mine = [x \in {"secret"} |-> db.secret.text]
      /\ log = [fix |-> None, torn |-> FALSE, since |-> {}, late |-> FALSE,
                over |-> {}]
      /\ used = [boots |-> 0, edits |-> 0, mishaps |-> 0]
  BY DEF Init, Down
<1>3. ring \in [Instances -> KeyRings]
  <2>1. (CHOOSE r \in KeyRings : TRUE) \in KeyRings
    BY SUAssumption
  <2> QED BY <2>1 DEF Init
<1>4. at \in [Instances -> 0..51] /\ \A i \in Instances : at[i] = 0
  BY <1>2
<1>6. DOMAIN mine = {"secret"} /\ mine["secret"] = db.secret.text
  BY <1>2
<1>7. EditedItems = {}
  <2>1. "secret" \notin Items
    BY DEF Items, Settings, PricingItems, ProductItems
  <2> QED BY <1>6, <2>1 DEF EditedItems
<1>8. LogTyped /\ Counted
  BY <1>2, SUAssumption DEF LogTyped, Counted
<1>9. Shape
  BY <1>1, <1>3, <1>4, <1>6, <1>7, <1>8 DEF Shape, Placed, Noted
<1>10. ColsInv /\ PromptInv /\ SecretInv
  <2>1. ColsInv
    BY <1>1, <1>4 DEF ColsInv
  <2>2. PromptInv
    <3>1. "prompt" \notin DOMAIN mine
      BY <1>6
    <3>2. log.since = {} /\ \A i \in Instances : ~(at[i] > 8)
      BY <1>2, <1>4
    <3> QED BY <3>1, <3>2 DEF PromptInv
  <2>3. SecretInv
    <3>1. \A i \in Instances : ~(at[i] > 21)
      BY <1>4
    <3> QED BY <1>6, <3>1 DEF SecretInv
  <2> QED BY <2>1, <2>2, <2>3
<1>11. SeenInv /\ EditInv
  BY <1>2, <1>7 DEF SeenInv, EditInv
<1> QED BY <1>9, <1>10, <1>11 DEF Inv

\* Where the instances are after one moved.
LEMMA Stepped ==
  ASSUME Inv, NEW i \in Instances, NEW n \in 0..51,
         at' = [at EXCEPT ![i] = n]
  PROVE  /\ at' \in [Instances -> 0..51] /\ at'[i] = n
         /\ \A j \in Instances : at[j] \in 0..51 /\ at'[j] \in 0..51
         /\ \A j \in Instances : j # i => at'[j] = at[j]
BY DEF Inv, Shape, Placed

\* A boot begins at the first step.
LEMMA StartInv == ASSUME Inv, NEW i \in Instances, Start(i) PROVE Inv'
<1>1. /\ at' = [at EXCEPT ![i] = 1] /\ db' = db /\ mine' = mine /\ seen' = seen
      /\ log' = [log EXCEPT !.since = @ \cup {i}]
      /\ used' = [used EXCEPT !.boots = @ + 1,
                              !.mishaps = IF Booting = {} THEN @ ELSE @ + 1]
      /\ used.boots < MaxBoots /\ (Booting # {} => used.mishaps < MaxMishaps)
  BY DEF Start
<1>2. PICK r \in KeyRings : ring' = [ring EXCEPT ![i] = r]
  BY DEF Start
<1>3. Shape /\ ColsInv /\ PromptInv /\ SecretInv /\ SeenInv /\ EditInv
  BY DEF Inv
<1>4. /\ at' \in [Instances -> 0..51] /\ at'[i] = 1
      /\ \A j \in Instances : at[j] \in 0..51 /\ at'[j] \in 0..51
      /\ \A j \in Instances : j # i => at'[j] = at[j]
  <2>1. 1 \in 0..51
    OBVIOUS
  <2> QED BY <1>1, <2>1, Stepped
<1>5. ring' \in [Instances -> KeyRings] /\ \A j \in Instances : j # i => ring'[j] = ring[j]
  BY <1>2, <1>3 DEF Shape, Placed
<1>6. /\ LogTyped' /\ log'.late = log.late /\ log'.over = log.over
      /\ log'.since = log.since \cup {i} /\ log.since \subseteq Instances
  BY <1>1, <1>3 DEF Shape, LogTyped
<1>7. Counted'
  <2>1. used \in [boots: 0..MaxBoots, edits: 0..MaxEdits, mishaps: 0..MaxMishaps]
    BY <1>3 DEF Shape, Counted
  <2>2. used.boots + 1 \in 0..MaxBoots
    BY <1>1, <2>1, SUAssumption
  <2>3. (IF Booting = {} THEN used.mishaps ELSE used.mishaps + 1) \in 0..MaxMishaps
    BY <1>1, <2>1, SUAssumption
  <2> HIDE DEF Booting
  <2> QED BY <1>1, <2>1, <2>2, <2>3 DEF Counted
<1>8. EditedItems' = EditedItems /\ Noted'
  BY <1>1, <1>3 DEF Shape, Noted, EditedItems
<1>9. Shape'
  BY <1>1, <1>3, <1>4, <1>5, <1>6, <1>7, <1>8 DEF Shape, Placed
<1>10. ColsInv'
  BY <1>1, <1>3, <1>4 DEF ColsInv
<1>11. PromptInv'
  <2>1. \A j \in Instances : at'[j] > 8 => at'[j] = at[j]
    BY <1>4
  <2>2. \A j \in log'.since : at'[j] > 9 => at'[j] = at[j] /\ j \in log.since
    BY <1>4, <1>6
  <2>3. \A j \in log'.since : at'[j] > 11 => at'[j] = at[j] /\ j \in log.since
    BY <1>4, <1>6
  <2> QED BY <1>1, <1>3, <1>6, <2>1, <2>2, <2>3 DEF PromptInv
<1>12. SecretInv'
  <2>1. \A j \in Instances : at'[j] > 21 => at'[j] = at[j] /\ ring'[j] = ring[j]
    BY <1>4, <1>5
  <2> QED BY <1>1, <1>3, <1>6, <2>1 DEF SecretInv
<1>13. SeenInv' /\ EditInv'
  BY <1>1, <1>3, <1>6, <1>8 DEF SeenInv, EditInv
<1> QED BY <1>9, <1>10, <1>11, <1>12, <1>13 DEF Inv

\* The secret and the prompt have their own records.
LEMMA NotItems == "secret" \notin Items /\ "prompt" \notin Items
BY DEF Items, Settings, PricingItems, ProductItems

\* What the operator wrote last, after one more edit.
LEMMA Remembered ==
  ASSUME Inv, NEW x \in Items \cup {"secret", "prompt"}, NEW v,
         x \in Items => v # Missing /\ x \notin {"artwork", "last_known"},
         x = "prompt" => v \in Prompts,
         Remember(x, v)
  PROVE  /\ Noted' /\ DOMAIN mine' = DOMAIN mine \cup {x}
         /\ mine'[x] = v /\ \A y \in DOMAIN mine : y # x => mine'[y] = mine[y]
<1>1. mine' = [y \in DOMAIN mine \cup {x} |-> IF y = x THEN v ELSE mine[y]]
  BY DEF Remember
<1>2. Noted
  BY DEF Inv, Shape
<1>3. /\ DOMAIN mine' = DOMAIN mine \cup {x}
      /\ mine'[x] = v /\ \A y \in DOMAIN mine : y # x => mine'[y] = mine[y]
  BY <1>1
<1>4. (\A y \in EditedItems : mine[y] # Missing /\ y \notin {"artwork", "last_known"})'
  BY <1>2, <1>3 DEF Noted, EditedItems
<1>5. "prompt" \in DOMAIN mine' => mine'["prompt"] \in Prompts
  BY <1>2, <1>3 DEF Noted
<1> QED BY <1>2, <1>3, <1>4, <1>5 DEF Noted

\* What a step of the chain that is not the last one does: all of Advances
\* but what it says of the history.
LEMMA RunDoes ==
  ASSUME Inv, NEW i \in Instances, Runs(i)
  PROVE  /\ at[i] \in 1..49 /\ at' = [at EXCEPT ![i] = at'[i]]
         /\ at'[i] = at[i] + 1 \/ (at[i] = 3 /\ at'[i] = 6)
         /\ db' = Migrated(Chain[at[i]], db, ring[i])
         /\ Chain[at[i]] = "load" => CanLoad(db)
         /\ seen' = IF Chain[at[i]] = "v37_7" /\ db.val["missive_from_address"] # ""
                    THEN db.val["missive_from_address"] ELSE seen
         /\ ring' = ring
<1>1. /\ i \in Booting /\ at[i] < Len(Chain) /\ CanRun(Chain[at[i]], db)
      /\ db' = Migrated(Chain[at[i]], db, ring[i])
      /\ at' = [at EXCEPT ![i] = NextStep(@)]
      /\ seen' = IF Chain[at[i]] = "v37_7" /\ db.val["missive_from_address"] # ""
                 THEN db.val["missive_from_address"] ELSE seen
      /\ ring' = ring
  BY DEF Runs
<1>2. at \in [Instances -> 0..51] /\ at[i] \in 1..49
  <2>1. at \in [Instances -> 0..51] /\ at[i] \in 1..50 /\ at[i] < 50
    BY <1>1, Places DEF Inv, Shape, Placed, Booting
  <2> QED BY <2>1
<1>3. at'[i] = NextStep(at[i]) /\ at' = [at EXCEPT ![i] = at'[i]]
  BY <1>1, <1>2
<1>4. NextStep(at[i]) = at[i] + 1 \/ (at[i] = 3 /\ NextStep(at[i]) = 6)
  <2>1. Chain[at[i]] = "has_products" => at[i] = 3
    <3>1. \A n \in 1..50 : Chain[n] = "has_products" => n = 3
      BY DEF Chain
    <3> QED BY <1>2, <3>1
  <2> QED BY <2>1, Places DEF NextStep
<1>5. Chain[at[i]] = "load" => CanLoad(db)
  BY <1>1 DEF CanRun
<1> QED BY <1>1, <1>2, <1>3, <1>4, <1>5

\* Where the operator writes nothing, nothing of what was written is noted anew.
LEMMA SameNotes ==
  ASSUME Inv, mine' = mine, log'.over = log.over
  PROVE  /\ Noted' /\ EditedItems' = EditedItems
         /\ \A x \in DOMAIN mine' \ log'.over :
              x \in DOMAIN mine \ log.over /\ mine'[x] = mine[x]
BY DEF Inv, Shape, Noted, EditedItems

\* Migrate is a step of the chain.
LEMMA MigrateAdvances ==
  ASSUME Inv, NEW i \in Instances, Migrate(i)
  PROVE  Advances(i) /\ at[i] < 50
<1> DEFINE l == log.late \/ (Chain[at[i]] = "wipe" /\ HasProducts(db))
<1>1. Runs(i) /\ log' = [log EXCEPT !.late = l] /\ mine' = mine /\ used' = used
  BY DEF Migrate
<1>2. l \in BOOLEAN /\ LogTyped /\ Counted
  BY DEF Inv, Shape
<1> HIDE DEF l
<1>3. /\ LogTyped' /\ log'.late = l /\ log'.since \subseteq log.since
      /\ log'.over = log.over
  BY <1>1, <1>2 DEF LogTyped
<1>4. Counted'
  BY <1>1, <1>2 DEF Counted
<1>5. /\ Noted'
      /\ \A x \in DOMAIN mine' \ log'.over :
           x \in DOMAIN mine \ log.over /\ mine'[x] = mine[x]
  BY <1>1, <1>3, SameNotes
<1>6. at[i] \in 1..49
  BY <1>1, RunDoes
<1>7. at[i] \in 1..50 /\ at[i] < 50
  BY <1>6
<1> QED BY <1>1, <1>3, <1>4, <1>5, <1>7, RunDoes DEF Advances, l

\* So is a step that loses what the operator saves meanwhile.
LEMMA LostAdvances ==
  ASSUME Inv, NEW i \in Instances, NEW j \in Instances, UpdateLost(i, j)
  PROVE  /\ Advances(i) /\ at[i] < 50 /\ Chain[at[i]] \notin AtOnce
         /\ log'.late = log.late /\ log'.fix = None /\ log'.since = {}
         /\ log'.torn = log.torn
<1>1. /\ Runs(i) /\ Chain[at[i]] \notin AtOnce
      /\ used' = [used EXCEPT !.edits = @ + 1] /\ used.edits < MaxEdits
  BY DEF UpdateLost, Saves
<1>2. PICK x, v : /\ Overwritten(x, v)
                  /\ x \in Items \cup {"secret", "prompt"}
                  /\ x \in Items => v # Missing /\ x \notin {"artwork", "last_known"}
                  /\ x = "prompt" => v \in Prompts
  <2>1. CASE \E e \in Edits : Overwritten(e[1], e[2])
    <3>1. PICK e \in Edits : Overwritten(e[1], e[2])
      BY <2>1
    <3>2. e[1] \in Items /\ e[1] \notin {"artwork", "last_known"} /\ e[2] # Missing
      BY SUAssumption
    <3>3. e[1] # "prompt"
      BY <3>2, NotItems
    <3> QED BY <3>1, <3>2, <3>3
  <2>2. CASE \E p \in Prompts : Overwritten("prompt", p)
    <3>1. "prompt" \notin Items
      BY NotItems
    <3> QED BY <2>2, <3>1
  <2>3. CASE Overwritten("secret", "new")
    <3>1. "secret" \notin Items /\ "secret" # "prompt"
      BY NotItems
    <3> QED BY <2>3, <3>1
  <2> QED BY <2>1, <2>2, <2>3 DEF UpdateLost
<1>3. /\ Remember(x, v)
      /\ log' = [log EXCEPT !.fix = None, !.since = {}, !.over = @ \cup {x}]
  BY <1>2 DEF Overwritten
<1>4. /\ Noted' /\ DOMAIN mine' = DOMAIN mine \cup {x}
      /\ \A y \in DOMAIN mine : y # x => mine'[y] = mine[y]
  BY <1>2, <1>3, Remembered
<1>5. LogTyped /\ Counted
  BY DEF Inv, Shape
<1>6. /\ LogTyped' /\ log'.late = log.late /\ log'.since = {} /\ log'.fix = None
      /\ log'.over = log.over \cup {x} /\ log'.torn = log.torn
  BY <1>3, <1>4, <1>5 DEF LogTyped
<1>7. Counted'
  <2>1. used.edits + 1 \in 0..MaxEdits
    BY <1>1, <1>5, SUAssumption DEF Counted
  <2> QED BY <1>1, <1>5, <2>1 DEF Counted
<1>8. \A y \in DOMAIN mine' \ log'.over :
        y \in DOMAIN mine \ log.over /\ mine'[y] = mine[y]
  BY <1>4, <1>6
<1>9. log'.late = (log.late \/ (Chain[at[i]] = "wipe" /\ HasProducts(db)))
  <2>1. Chain[at[i]] # "wipe" /\ log.late \in BOOLEAN
    BY <1>1, <1>5 DEF AtOnce, LogTyped
  <2> QED BY <1>6, <2>1
<1>10. at[i] \in 1..49
  BY <1>1, RunDoes
<1>11. at[i] \in 1..50 /\ at[i] < 50 /\ log'.since \subseteq log.since
  BY <1>6, <1>10
<1>12. Advances(i)
  BY <1>1, <1>4, <1>6, <1>7, <1>8, <1>9, <1>11, RunDoes DEF Advances
<1> QED BY <1>1, <1>6, <1>11, <1>12

\* So is Finish, the last one.
LEMMA FinishAdvances ==
  ASSUME Inv, NEW i \in Instances, Finish(i)
  PROVE  Advances(i) /\ at[i] = 50 /\ at'[i] = 51
<1>1. /\ at[i] = 50 /\ at' = [at EXCEPT ![i] = 51]
      /\ db' = Migrated(Chain[at[i]], db, ring[i])
      /\ UNCHANGED <<ring, mine, seen, used>>
  BY Places DEF Finish, Up
<1>2. at \in [Instances -> 0..51]
  BY DEF Inv, Shape, Placed
<1>3. at'[i] = 51 /\ at' = [at EXCEPT ![i] = at'[i]] /\ 51 = 50 + 1
  BY <1>1, <1>2
<1>4. Chain[50] \notin {"wipe", "load", "v37_7"}
  BY DEF Chain
<1>5. /\ LogTyped' /\ log'.late = log.late /\ log'.since \subseteq log.since
      /\ log'.over = log.over
  <2> DEFINE torn == log.torn /\ i \notin log.since
             alone == Booting = {i} /\ i \in log.since /\ ~torn
             fix == IF alone THEN db' ELSE log.fix
  <2>1. log' = [log EXCEPT !.torn = torn, !.fix = fix] /\ mine' = mine
    BY DEF Finish
  <2>2. LogTyped
    BY DEF Inv, Shape
  <2>3. torn \in BOOLEAN
    OBVIOUS
  <2> HIDE DEF torn, fix
  <2> QED BY <2>1, <2>2, <2>3 DEF LogTyped
<1>6. log.late \in BOOLEAN /\ Counted'
  BY <1>1 DEF Inv, Shape, LogTyped, Counted
<1>7. at[i] \in 1..50 /\ at'[i] = at[i] + 1
  BY <1>1, <1>3
<1>8. Chain[at[i]] \notin {"wipe", "load", "v37_7"}
  BY <1>1, <1>4
<1>9. /\ Noted'
      /\ \A x \in DOMAIN mine' \ log'.over :
           x \in DOMAIN mine \ log.over /\ mine'[x] = mine[x]
  BY <1>1, <1>5, SameNotes
<1> QED BY <1>1, <1>3, <1>5, <1>6, <1>7, <1>8, <1>9 DEF Advances

(***************************************************************************)
(* Boots that die, instances that stop, edits.                             *)
(***************************************************************************)

\* The log keeps its form, and says nothing new on wipes.
Logged == LogTyped' /\ log'.late = log.late

\* A process that goes takes its key along, and nothing else.
LEMMA ForgetDoes ==
  ASSUME NEW d \in Database, db = d, NEW i
  PROVE  LET e == Forget(i)
         IN  /\ e \in Database /\ e.cols = d.cols /\ e.val = d.val
             /\ e.prompt = d.prompt /\ e.secret.text = d.secret.text
             /\ d.secret.key # Plain => e.secret.key # Plain
<1> DEFINE k == IF d.secret.key = i THEN Lost ELSE d.secret.key
           e == [d EXCEPT !.secret.key = k]
<1>1. d.secret.key \in Sealers /\ Lost \in Sealers /\ Lost # Plain
  BY SUAssumption DEF Database, Sealers
<1>2. k \in Sealers /\ (d.secret.key # Plain => k # Plain)
  BY <1>1
<1>3. Forget(i) = e
  BY DEF Forget
<1> HIDE DEF k
<1>4. /\ e \in Database /\ e.cols = d.cols /\ e.val = d.val
      /\ e.prompt = d.prompt /\ e.secret.text = d.secret.text /\ e.secret.key = k
  BY <1>2 DEF Database
<1> QED BY <1>2, <1>3, <1>4

\* An instance goes down, by whichever action.
LEMMA StopsInv ==
  ASSUME Inv, NEW i \in Instances, at' = [at EXCEPT ![i] = 0], db' = Forget(i),
         ring' = ring, mine' = mine, seen' = seen, Logged, Counted',
         log'.over = log.over, log'.since \subseteq log.since
  PROVE  Inv'
<1>1. Shape /\ ColsInv /\ PromptInv /\ SecretInv /\ SeenInv /\ EditInv /\ db \in Database
  BY DEF Inv, Shape, Sane
<1>2. /\ db' \in Database /\ db'.cols = db.cols /\ db'.val = db.val
      /\ db'.prompt = db.prompt /\ db'.secret.text = db.secret.text
      /\ db.secret.key # Plain => db'.secret.key # Plain
  BY <1>1, ForgetDoes
<1>3. /\ at' \in [Instances -> 0..51] /\ at'[i] = 0
      /\ \A j \in Instances : at[j] \in 0..51 /\ at'[j] \in 0..51
      /\ \A j \in Instances : j # i => at'[j] = at[j]
  <2>1. 0 \in 0..51
    OBVIOUS
  <2> QED BY <2>1, Stepped
<1>4. EditedItems' = EditedItems /\ Noted'
  BY SameNotes
<1>5. Sane(db)'
  BY <1>1, <1>2 DEF Shape, Sane, Bare, Opens
<1>6. Shape' /\ log.since \subseteq Instances
  BY <1>1, <1>3, <1>4, <1>5 DEF Shape, Placed, LogTyped, Logged
<1>7. ColsInv'
  BY <1>1, <1>2, <1>3 DEF ColsInv
<1>9. PromptInv'
  <2>1. \A j \in Instances : at'[j] > 8 => at'[j] = at[j]
    BY <1>3
  <2>2. \A j \in log'.since : at'[j] > 9 => at'[j] = at[j] /\ j \in log.since
    BY <1>3, <1>6
  <2>3. \A j \in log'.since : at'[j] > 11 => at'[j] = at[j] /\ j \in log.since
    BY <1>3, <1>6
  <2> QED BY <1>1, <1>2, <2>1, <2>2, <2>3 DEF PromptInv
<1>10. SecretInv'
  <2>1. \A j \in Instances : at'[j] > 21 => at'[j] = at[j]
    BY <1>3
  <2> QED BY <1>1, <1>2, <2>1 DEF SecretInv
<1>11. SeenInv' /\ EditInv'
  BY <1>1, <1>2, <1>4 DEF SeenInv, EditInv, Logged
<1> QED BY <1>6, <1>7, <1>9, <1>10, <1>11 DEF Inv

\* A boot dies.
LEMMA FailsInv == ASSUME Inv, NEW i \in Instances, Fails(i) \/ Crash(i) PROVE Inv'
<1>1. /\ at' = [at EXCEPT ![i] = 0] /\ db' = Forget(i)
      /\ log' = [log EXCEPT !.torn = TRUE, !.since = {}]
      /\ ring' = ring /\ mine' = mine /\ seen' = seen
      /\ \/ used' = used
         \/ /\ used' = [used EXCEPT !.mishaps = @ + 1]
            /\ used.mishaps < MaxMishaps
  BY DEF Fails, Crash, Dies, Down
<1>2. LogTyped /\ used \in [boots: 0..MaxBoots, edits: 0..MaxEdits, mishaps: 0..MaxMishaps]
  BY DEF Inv, Shape, Counted
<1>3. Logged /\ log'.over = log.over /\ log'.since \subseteq log.since
  BY <1>1, <1>2 DEF Logged, LogTyped
<1>4. Counted'
  <2>1. CASE used' = used
    BY <1>2, <2>1 DEF Counted
  <2>2. CASE used' = [used EXCEPT !.mishaps = @ + 1] /\ used.mishaps < MaxMishaps
    <3>1. used.mishaps + 1 \in 0..MaxMishaps
      BY <1>2, <2>2, SUAssumption
    <3> QED BY <1>2, <2>2, <3>1 DEF Counted
  <2> QED BY <1>1, <2>1, <2>2
<1> QED BY <1>1, <1>3, <1>4, StopsInv

\* A running instance is stopped.
LEMMA StopInv == ASSUME Inv, NEW i \in Instances, Stop(i) PROVE Inv'
<1>1. /\ at' = [at EXCEPT ![i] = 0] /\ db' = Forget(i)
      /\ ring' = ring /\ mine' = mine /\ seen' = seen /\ log' = log /\ used' = used
  BY DEF Stop, Down
<1>2. Logged /\ Counted' /\ log'.over = log.over /\ log'.since \subseteq log.since
  BY <1>1 DEF Logged, LogTyped, Counted, Inv, Shape
<1> QED BY <1>1, <1>2, StopsInv

\* What the edits have in common.
LEMMA EditDoes ==
  ASSUME Inv, NEW i \in Instances, NEW x \in Items \cup {"secret", "prompt"}, NEW v,
         x \in Items => v # Missing /\ x \notin {"artwork", "last_known"},
         x = "prompt" => v \in Prompts,
         Edit(i, x, v)
  PROVE  /\ at[i] = 51 /\ at' = at /\ ring' = ring /\ seen' = seen
         /\ Noted' /\ Logged /\ Counted'
         /\ log'.over = log.over \ {x} /\ log'.since = {}
         /\ DOMAIN mine' = DOMAIN mine \cup {x}
         /\ mine'[x] = v /\ \A y \in DOMAIN mine : y # x => mine'[y] = mine[y]
<1>1. /\ at[i] = 51 /\ at' = at /\ ring' = ring /\ seen' = seen
      /\ log' = [log EXCEPT !.fix = None, !.since = {}, !.over = @ \ {x}]
      /\ used' = [used EXCEPT !.edits = @ + 1] /\ used.edits < MaxEdits
      /\ Remember(x, v)
  BY Places DEF Edit, Saves, Up
<1>2. LogTyped /\ Counted
  BY DEF Inv, Shape
<1>3. /\ Noted' /\ DOMAIN mine' = DOMAIN mine \cup {x}
      /\ mine'[x] = v /\ \A y \in DOMAIN mine : y # x => mine'[y] = mine[y]
  BY <1>1, Remembered
<1>4. Logged /\ log'.over = log.over \ {x} /\ log'.since = {}
  BY <1>1, <1>2, <1>3 DEF Logged, LogTyped
<1>5. used.edits + 1 \in 0..MaxEdits
  BY <1>1, <1>2, SUAssumption DEF Counted
<1>6. Counted'
  BY <1>1, <1>2, <1>5 DEF Counted
<1> QED BY <1>1, <1>3, <1>4, <1>6

\* A setting or a product is written.
LEMMA ItemInv == ASSUME Inv, NEW i \in Instances, UpdateItem(i) PROVE Inv'
<1>1. PICK e \in Edits :
        /\ e[1] \in PricingItems => db.val[e[1]] # Missing
        /\ Edit(i, e[1], e[2]) /\ db' = Put(db, e[1], e[2])
  BY DEF UpdateItem
<1> DEFINE x == e[1]
           v == e[2]
<1>2. x \in Items /\ x \notin {"artwork", "last_known"} /\ v # Missing /\ v \in Words
  BY SUAssumption, WordsAre
<1>3. /\ x \in PricingItems => db.val[x] # Missing
      /\ db' = Put(db, x, v) /\ Edit(i, x, v)
  BY <1>1
<1> HIDE DEF x, v
<1>13. x # "secret" /\ x # "prompt" /\ x \in Items \cup {"secret", "prompt"}
  BY <1>2, NotItems
<1>4. /\ at[i] = 51 /\ at' = at /\ ring' = ring /\ seen' = seen
      /\ Noted' /\ Logged /\ Counted'
      /\ log'.over = log.over \ {x} /\ log'.since = {}
      /\ DOMAIN mine' = DOMAIN mine \cup {x}
      /\ mine'[x] = v /\ \A y \in DOMAIN mine : y # x => mine'[y] = mine[y]
  BY <1>2, <1>3, <1>13, EditDoes
<1>5. /\ Shape /\ ColsInv /\ PromptInv /\ SecretInv /\ SeenInv /\ EditInv
      /\ db \in Database /\ db.val \in [Items -> Words]
  BY DEF Inv, Shape, Sane, Database
<1> DEFINE w == [db.val EXCEPT ![x] = v]
<1>6. /\ w \in [Items -> Words] /\ w[x] = v
      /\ \A y \in Items : y # x => w[y] = db.val[y]
  BY <1>2, <1>5
<1>7. db' = [db EXCEPT !.val = w]
  BY <1>3, <1>5 DEF Put, Database
<1> HIDE DEF w
<1>8. /\ db' \in Database /\ db'.cols = db.cols /\ db'.val = w
      /\ db'.prompt = db.prompt /\ db'.secret = db.secret
  BY <1>5, <1>6, <1>7, ValueWritten
<1>10. Sane(db)'
  <2>1. w["catalogue"] = Missing => \A y \in Stocked : w[y] = Missing
    <3>1. ASSUME w["catalogue"] = Missing PROVE \A y \in Stocked : w[y] = Missing
      <4>1. x # "catalogue" /\ db.val["catalogue"] = Missing
        BY <1>2, <1>6, <3>1, ItemNames
      <4>2. Bare(db)
        BY <1>5, <4>1 DEF Shape, Sane
      <4>3. x \notin Stocked
        BY <1>3, <4>2 DEF Bare, Stocked
      <4> QED BY <1>6, <4>2, <4>3, ItemNames DEF Bare
    <3> QED BY <3>1
  <2>2. Opens(db'.prompt)
    BY <1>5, <1>8 DEF Shape, Sane
  <2> QED BY <1>8, <2>1, <2>2 DEF Sane, Bare, Opens
<1>11. Shape'
  BY <1>4, <1>5, <1>10 DEF Shape, Placed, Logged
<1>12. ColsInv'
  BY <1>4, <1>5, <1>8 DEF ColsInv
<1>14. PromptInv'
  BY <1>4, <1>5, <1>8, <1>13 DEF PromptInv
<1>15. SecretInv'
  <2>1. mine'["secret"] = mine["secret"]
    BY <1>4, <1>5, <1>13 DEF Shape, Noted
  <2> QED BY <1>4, <1>5, <1>8, <1>13, <2>1 DEF SecretInv
<1>16. SeenInv'
  BY <1>2, <1>4, <1>5, <1>6, <1>8, ItemNames DEF SeenInv
<1>17. EditInv'
  <2> SUFFICES ASSUME ~log'.late, NEW y \in EditedItems' \ log'.over, ~Undone(y, mine'[y])
               PROVE  db'.val[y] = mine'[y]
    BY DEF EditInv
  <2>1. CASE y = x
    BY <1>4, <1>6, <1>8, <2>1
  <2>2. CASE y # x
    <3>1. y \in EditedItems \ log.over /\ y \in Items /\ y \in DOMAIN mine
      BY <1>4, <2>2 DEF EditedItems
    <3>2. ~log.late /\ mine'[y] = mine[y]
      BY <1>4, <2>2, <3>1 DEF Logged
    <3>3. db.val[y] = mine[y]
      BY <1>5, <3>1, <3>2 DEF EditInv
    <3> QED BY <1>6, <1>8, <2>2, <3>1, <3>2, <3>3
  <2> QED BY <2>1, <2>2
<1> QED BY <1>11, <1>12, <1>14, <1>15, <1>16, <1>17 DEF Inv

\* The prompt is saved whole.
LEMMA UpdatePromptInv == ASSUME Inv, NEW i \in Instances, UpdatePrompt(i) PROVE Inv'
<1>1. PICK p \in Prompts : Edit(i, "prompt", p) /\ db' = [db EXCEPT !.prompt = p]
  BY DEF UpdatePrompt
<1>2. p \in Seq(Words) /\ p # <<>> /\ Opens(p) /\ Stands(p, p)
  BY PromptsAre
<1>3. "prompt" \notin Items /\ "secret" # "prompt"
  BY NotItems
<1>4. /\ at[i] = 51 /\ at' = at /\ ring' = ring /\ seen' = seen
      /\ Noted' /\ Logged /\ Counted'
      /\ log'.over = log.over \ {"prompt"} /\ log'.since = {}
      /\ DOMAIN mine' = DOMAIN mine \cup {"prompt"}
      /\ mine'["prompt"] = p
      /\ \A y \in DOMAIN mine : y # "prompt" => mine'[y] = mine[y]
  <2> DEFINE x == "prompt"
  <2>1. x \in Items \cup {"secret", "prompt"} /\ x \notin Items /\ Edit(i, x, p)
    BY <1>1, <1>3
  <2> HIDE DEF x
  <2>2. /\ at[i] = 51 /\ at' = at /\ ring' = ring /\ seen' = seen
        /\ Noted' /\ Logged /\ Counted'
        /\ log'.over = log.over \ {x} /\ log'.since = {}
        /\ DOMAIN mine' = DOMAIN mine \cup {x}
        /\ mine'[x] = p /\ \A y \in DOMAIN mine : y # x => mine'[y] = mine[y]
    BY <2>1, EditDoes
  <2> QED BY <2>2 DEF x
<1>5. /\ Shape /\ ColsInv /\ PromptInv /\ SecretInv /\ SeenInv /\ EditInv
      /\ db \in Database /\ Sane(db)
  BY DEF Inv, Shape, Sane
<1>6. /\ db' \in Database /\ db'.cols = db.cols /\ db'.val = db.val
      /\ db'.prompt = p /\ db'.secret = db.secret
  BY <1>1, <1>2, <1>5 DEF Database
<1>7. EditedItems' = EditedItems
  BY <1>3, <1>4 DEF EditedItems
<1>8. Sane(db)'
  BY <1>2, <1>5, <1>6 DEF Sane, Bare
<1>9. Shape'
  BY <1>4, <1>5, <1>8 DEF Shape, Placed, Logged
<1>10. ColsInv'
  BY <1>4, <1>5, <1>6 DEF ColsInv
<1>11. PromptInv'
  BY <1>2, <1>4, <1>6 DEF PromptInv
<1>12. SecretInv'
  <2>1. mine'["secret"] = mine["secret"]
    BY <1>3, <1>4, <1>5 DEF Shape, Noted
  <2> QED BY <1>3, <1>4, <1>5, <1>6, <2>1 DEF SecretInv
<1>13. SeenInv'
  BY <1>4, <1>5, <1>6 DEF SeenInv
<1>14. EditInv'
  <2>1. \A y \in EditedItems : y # "prompt" /\ mine'[y] = mine[y]
    BY <1>3, <1>4 DEF EditedItems
  <2> QED BY <1>4, <1>5, <1>6, <1>7, <2>1 DEF EditInv, Logged
<1> QED BY <1>9, <1>10, <1>11, <1>12, <1>13, <1>14 DEF Inv

\* The secret is written, encrypted with a key.
LEMMA UpdateSecretInv == ASSUME Inv, NEW i \in Instances, UpdateSecret(i) PROVE Inv'
<1> DEFINE k == SealingKey(i)
           t == [text |-> "new", key |-> k]
<1>1. Edit(i, "secret", "new") /\ db' = [db EXCEPT !.secret = t]
  BY DEF UpdateSecret
<1>2. /\ Shape /\ ColsInv /\ PromptInv /\ SecretInv /\ SeenInv /\ EditInv
      /\ db \in Database /\ Sane(db)
  BY DEF Inv, Shape, Sane
<1>3. k \in Sealers /\ k # Plain
  <2>1. ring[i] \in KeyRings /\ i # Plain
    BY <1>2, SUAssumption DEF Shape, Placed
  <2> QED BY <2>1, SUAssumption DEF SealingKey, Sealers
<1>4. "new" \in Words /\ "secret" \notin Items /\ "secret" # "prompt"
  BY WordsAre, NotItems
<1>5. t \in [text: Words, key: Sealers] /\ t.text = "new" /\ t.key # Plain
  BY <1>3, <1>4
<1> HIDE DEF t
<1>6. /\ db' \in Database /\ db'.cols = db.cols /\ db'.val = db.val
      /\ db'.prompt = db.prompt /\ db'.secret = t
  BY <1>1, <1>2, <1>5 DEF Database
<1>7. /\ at' = at /\ ring' = ring /\ seen' = seen
      /\ Noted' /\ Logged /\ Counted'
      /\ log'.over = log.over \ {"secret"} /\ log'.since = {}
      /\ DOMAIN mine' = DOMAIN mine \cup {"secret"} /\ mine'["secret"] = "new"
      /\ \A y \in DOMAIN mine : y # "secret" => mine'[y] = mine[y]
  <2> DEFINE x == "secret"
             v == "new"
  <2>1. /\ x \in Items \cup {"secret", "prompt"} /\ x \notin Items /\ x # "prompt"
        /\ Edit(i, x, v)
    BY <1>1, <1>4
  <2> HIDE DEF x, v
  <2>2. /\ at' = at /\ ring' = ring /\ seen' = seen
        /\ Noted' /\ Logged /\ Counted'
        /\ log'.over = log.over \ {x} /\ log'.since = {}
        /\ DOMAIN mine' = DOMAIN mine \cup {x}
        /\ mine'[x] = v /\ \A y \in DOMAIN mine : y # x => mine'[y] = mine[y]
    BY <2>1, EditDoes
  <2> QED BY <2>2 DEF x, v
<1>8. Sane(db)'
  BY <1>2, <1>6 DEF Sane, Bare, Opens
<1>9. Shape'
  BY <1>2, <1>7, <1>8 DEF Shape, Placed, Logged
<1>10. ColsInv'
  BY <1>2, <1>6, <1>7 DEF ColsInv
<1>11. PromptInv'
  BY <1>2, <1>4, <1>6, <1>7 DEF PromptInv
<1>12. SecretInv'
  BY <1>5, <1>6, <1>7 DEF SecretInv
<1>13. SeenInv'
  BY <1>2, <1>6, <1>7 DEF SeenInv
<1>14. EditInv'
  <2>1. EditedItems' = EditedItems /\ \A y \in EditedItems : y # "secret" /\ mine'[y] = mine[y]
    BY <1>4, <1>7 DEF EditedItems
  <2> QED BY <1>2, <1>6, <1>7, <2>1 DEF EditInv, Logged
<1> QED BY <1>9, <1>10, <1>11, <1>12, <1>13, <1>14 DEF Inv

\* Nothing changes.
LEMMA IdleInv == ASSUME Inv, UNCHANGED vars PROVE Inv'
BY DEF Inv, vars, Shape, Placed, Noted, LogTyped, Counted, ColsInv, PromptInv,
       SecretInv, SeenInv, EditInv, EditedItems

\* Every action preserves the invariant.
LEMMA NextInv == ASSUME Inv, [Next]_vars PROVE Inv'
<1>1. ASSUME NEW i \in Instances, Migrate(i) \/ Finish(i) PROVE Inv'
  BY <1>1, MigrateAdvances, FinishAdvances, AdvanceInv
<1>2. ASSUME NEW i \in Instances, SaveMask(i) PROVE Inv'
  BY <1>2, IdleInv DEF SaveMask
<1>3. ASSUME NEW i \in Instances, NEW j \in Instances, UpdateLost(i, j) PROVE Inv'
  BY <1>3, LostAdvances, AdvanceInv
<1> QED BY <1>1, <1>2, <1>3, StartInv, FailsInv, StopInv, ItemInv, UpdatePromptInv,
           UpdateSecretInv, IdleInv DEF Next

(***************************************************************************)
(* The theorems.                                                           *)
(***************************************************************************)

\* The invariant holds of every database a release left, for any number of
\* instances, keys, edits, boots and crashes.
THEOREM Invariant == Spec => []Inv
<1>1. Init => Inv
  BY InitInv
<1>2. Inv /\ [Next]_vars => Inv'
  BY NextInv
<1> QED BY <1>1, <1>2, PTL DEF Spec

\* Every reachable state has the types that TypeOK lists.
THEOREM TypeCorrect == Spec => []TypeOK
<1>1. Inv => TypeOK
  <2> SUFFICES ASSUME Inv PROVE TypeOK
    OBVIOUS
  <2>1. db \in Database /\ Shape
    BY DEF Inv, Shape, Sane
  <2>2. Down = 0 /\ Up = 51
    BY Places DEF Down, Up
  <2> QED BY <2>1, <2>2 DEF Shape, Placed, Noted, LogTyped, Counted, TypeOK, Database
<1> QED BY <1>1, Invariant, PTL

\* Whatever boots die or overlap, no script changes what the operator wrote
\* and the scripts do not name, nor what stands in a saved prompt above the
\* first heading that v5 and v7 strip; what a script wrote over as it was
\* saved is left out (startup.py, v2, v5, v7, v36 and v38).
THEOREM EditsStandAlways == Spec => []EditsStand
<1>1. Inv => EditsStand
  BY DEF Inv, EditInv, PromptInv, Stands, EditsStand
<1> QED BY <1>1, Invariant, PTL

\* The secret is the one last saved, unless v17 wrote the one it had read over
\* it as it was saved; and no instance with a key serves while it lies in the
\* clear (settings_security.py:56, v17).
THEOREM SecretStandsAlways == Spec => []SecretStands
<1>1. Inv => SecretStands
  <2> SUFFICES ASSUME Inv PROVE SecretStands
    OBVIOUS
  <2>1. Up = 51 /\ 51 > 21
    BY Places DEF Up
  <2> QED BY <2>1 DEF Inv, SecretInv, SecretStands
<1> QED BY <1>1, Invariant, PTL

\* The columns that a script loads exist when it runs, from whatever release
\* the database is (startup.py:39-113).
THEOREM SelectsFind == Spec => []SelectsFindTheirColumns
<1>1. Inv => SelectsFindTheirColumns
  <2> SUFFICES ASSUME Inv, NEW i \in Booting PROVE Needs(Chain[at[i]]) \subseteq db.cols
    BY DEF SelectsFindTheirColumns
  <2>1. i \in Instances /\ at[i] \in 1..50
    BY Places DEF Booting
  <2>2. CASE at[i] \in 1..2
    <3>1. Needs("init_db") = {} /\ Needs("pre_ddl") = {}
      BY DEF Needs
    <3>2. at[i] = 1 \/ at[i] = 2
      BY <2>2
    <3> QED BY <3>1, <3>2, ChainIs
  <2>3. CASE at[i] \in 3..50
    <3>1. at[i] > 2
      BY <2>3
    <3>2. ProductCols \subseteq db.cols
      BY <2>1, <3>1 DEF Inv, ColsInv
    <3>3. Needs(Chain[at[i]]) \subseteq ProductCols
      BY DEF Needs, ProductCols
    <3> QED BY <3>2, <3>3
  <2> QED BY <2>1, <2>2, <2>3
<1> QED BY <1>1, Invariant, PTL

\* The step of the cutover is one that Runs, and the address remembered is the one
\* the last boot saw.
LEMMA CutoverStep ==
  ASSUME Inv, Next, NEW i \in Instances, i \in Booting,
         at[i] = Position("v37_7"), at'[i] = at[i] + 1,
         {seen, db.val["missive_from_address"]} \cap {"", Missing} = {},
         db.val["missive_from_address"] # seen
  PROVE  db'.val["missive_enabled"] # "true"
<1>1. at[i] = 43 /\ at'[i] = 44 /\ at \in [Instances -> 0..51]
  BY Places DEF Inv, Shape, Placed
<1>2. \A n : \A j \in Instances : at' = [at EXCEPT ![j] = n] => j = i /\ n = 44
  BY <1>1
<1>3. at' # at
  BY <1>1
<1>4. Runs(i)
  <2>1. PICK j \in Instances :
          \/ Start(j) \/ Migrate(j) \/ Finish(j) \/ Fails(j) \/ Crash(j) \/ Stop(j)
          \/ UpdateItem(j) \/ UpdatePrompt(j) \/ UpdateSecret(j) \/ SaveMask(j)
          \/ \E k \in Instances : UpdateLost(j, k)
    BY DEF Next
  <2>2. ~UpdateItem(j) /\ ~UpdatePrompt(j) /\ ~UpdateSecret(j) /\ ~SaveMask(j)
    BY <1>3 DEF UpdateItem, UpdatePrompt, UpdateSecret, SaveMask, Edit, vars
  <2>3. ~Start(j)
    BY <1>2 DEF Start
  <2>4. ~Fails(j) /\ ~Crash(j) /\ ~Stop(j)
    BY <1>2 DEF Fails, Crash, Stop, Dies, Down
  <2>5. ~Finish(j)
    BY <1>2, Places DEF Finish, Up
  <2>6. Migrate(j) \/ (\E k \in Instances : UpdateLost(j, k)) => Runs(j)
    BY DEF Migrate, UpdateLost
  <2>7. Runs(j) => j = i
    BY <1>2 DEF Runs
  <2> QED BY <2>1, <2>2, <2>3, <2>4, <2>5, <2>6, <2>7
<1>5. Chain[43] = "v37_7"
  <2>1. 43 \in 1..50
    OBVIOUS
  <2> QED BY <2>1, ChainIs
<1>6. db' = V37_7(db)
  <2>1. db' = Migrated(Chain[at[i]], db, ring[i])
    BY <1>4 DEF Runs
  <2>2. Chain[at[i]] = "v37_7"
    BY <1>1, <1>5
  <2> QED BY <2>1, <2>2, Scripts
<1>7. db.val["last_known"] = seen /\ db \in Database
  BY DEF Inv, SeenInv, Blank, Shape, Sane
<1> QED BY <1>6, <1>7, V37Does DEF Blank

\* A boot that finds another from-address than the last boot that saw one
\* leaves Missive switched off (v37_7_cutover_safety.py:6-18).
THEOREM CutoverDormant == Spec => CutoverIsDormant
<1> DEFINE A ==
      \A i \in Instances :
        /\ i \in Booting /\ at[i] = Position("v37_7") /\ at'[i] = at[i] + 1
        /\ {seen, db.val["missive_from_address"]} \cap {"", Missing} = {}
        /\ db.val["missive_from_address"] # seen
        => db'.val["missive_enabled"] # "true"
<1>1. Inv /\ Next => A
  BY CutoverStep
<1>2. [][A]_vars <=> CutoverIsDormant
  BY DEF CutoverIsDormant
<1> HIDE DEF A
<1> QED BY <1>1, <1>2, Invariant, PTL DEF Spec

(***************************************************************************)
(* What is left to do.                                                     *)
(*                                                                         *)
(* A step that ran has seen to something (Fact).  Where that is so already *)
(* the step changes nothing, and no other step but the wipe and the load   *)
(* undoes it; only the rules and the category of soft touch are written    *)
(* anew by each boot.                                                      *)
(***************************************************************************)

\* No text: a strategy, or an address, that is there and empty.
NoText == ""

\* The items that a step sees to: there is a value once it ran.
Brings(s) ==
  CASE s = "v2" -> {"taxes"} [] s = "v3" -> {"categories"}
    [] s = "v4" -> {"widget"}
    [] s = "v9" -> {"missive", "missive_enabled", "missive_from_address"}
    [] s = "v13" -> {"printlogic_dry_run"} [] s = "v14" -> {"multiplier"}
    [] s = "v16" -> {"stripe_enabled"} [] s = "v19" -> {"auto_draft"}
    [] s = "v22" -> {"faqs", "shop_address"} [] s = "v23" -> {"shipping"}
    [] s = "v31" -> {"auto_send"} [] s = "v33" -> {"notify_to"}
    [] s = "v34_rules" -> {"poa_keywords"} [] s = "v35" -> {"alert_email"}
    [] s = "v37_threshold" -> {"threshold"}
    [] s = "v37_7" -> {"team_domains", "last_known"}
    [] s = "v38" -> {"posters"}
    [] s = "v43" -> {"laydown"} [] s = "v44" -> {"temperature"}
    [] OTHER -> {}

\* The columns it adds.
Lays(s) ==
  CASE s = "pre_ddl" -> {"v34", "v35", "v36", "v37", "v38", "v39", "v40", "v41"}
    [] s \in {"v2", "v3", "v12", "v15", "v19", "v20", "v22", "v23", "v24",
              "v30", "v33"} -> {s}
    [] s = "v25_artwork" -> {"v25"}
    [] OTHER -> {}

\* What else it leaves so that it finds nothing to do the next time.
Settles(s, v) ==
  /\ s = "v2" => v["vinyl_strategy"] # NoText /\ v["board_strategy"] # NoText
  /\ s = "load" => v["catalogue"] # Missing \/ v["posters"] # Missing
                   \/ v["secretest"] # Missing
  /\ s = "v10" => v["soft_touch_price"] \in {Missing, "seed"}
  /\ s = "v11" => v["silk"] # "no"
  /\ s = "v18" => v["stripe_secret_key"] = Missing
  /\ s = "v21" => v["secretest"] = "seed"
  /\ s = "v23" => v["shop_address"] = "seed"
  /\ s = "v25_artwork" => v["artwork"] # "single"
  /\ s = "v26" => v["artwork"] \notin {"single", "text"}
  /\ s = "v27" => v["order_status"] = "seed"
  /\ s = "v33" => v["notifications_enabled"] = "true"
  /\ s = "v34_flip" =>
       v["vinyl_strategy"] \in {"per_sqm", "per_sheet"} \/ v["vinyl_manual"] # "no"
  /\ s = "v34_rules" => v["soft_touch_keys"] # "none"
  /\ s = "v36_strategies" =>
       v["vinyl_strategy"] \in Moved /\ v["board_strategy"] \in Moved
  /\ s = "v37_flags" =>
       v["vinyl_strategy"] \notin {"per_sqm", "per_sheet"} \/ v["vinyl_manual"] # "yes"
  /\ s = "v37_7" =>
       /\ v["missive_from_address"] # Missing
       /\ v["missive_from_address"] # NoText => v["last_known"] = v["missive_from_address"]
  /\ s = "v38" => v["vinyl_dims"] # "no"
  /\ s = "v42" => v["ncr"] # "pads"

\* Step s has nothing left to do, the rules aside.
Fact(s, d) ==
  /\ Lays(s) \subseteq d.cols
  /\ \A x \in Brings(s) : d.val[x] # Missing
  /\ Settles(s, d.val)

\* What is written anew at every boot, so that it comes and goes.
Restless == {"business_rules", "soft_touch_category"}

\* A catalogue comes with all that a load makes; artwork and the mark for
\* manual review have values that the scripts know.
Stock(d) ==
  /\ d.val["catalogue"] # Missing => \A x \in Stocked : d.val[x] # Missing
  /\ d.val["artwork"] \in {Missing, "single", "text", "list"}
  /\ d.val["vinyl_manual"] \in {Missing, "yes", "no"}

\* What a script counts on: a shop, products, and what others have done.
Ready(s, d) ==
  /\ s \in {"v9", "v13", "v14", "v16", "v43", "v44"} => d.prompt # <<>>
  /\ s = "v3" => HasProducts(d)
  /\ s = "v26" => d.val["artwork"] # "single"
  /\ s = "v37_7" => d.val["missive_from_address"] # Missing

\* Nothing changed, what comes and goes aside.
Same(d, e) == \A x \in Items \ Restless : e.val[x] = d.val[x]

\* e is what the step s leaves of d.
Works(s, d, e) ==
  /\ \A x \in Items \ {"stripe_secret_key"} : d.val[x] # Missing => e.val[x] # Missing
  /\ \A t : Settles(t, d.val) => Settles(t, e.val)
  /\ Stock(d) => Stock(e)
  /\ Fact(s, d) => Same(d, e)
  /\ Ready(s, d) => Fact(s, e)

(***************************************************************************)
(* The values that each script leaves.                                     *)
(***************************************************************************)

\* One value written.
LEMMA PutValues ==
  \A d \in Database, x \in Items, v \in Words :
    /\ Put(d, x, v) \in Database /\ Put(d, x, v).cols = d.cols
    /\ \A y \in Items : Put(d, x, v).val[y] = IF y = x THEN v ELSE d.val[y]
<1> SUFFICES ASSUME NEW d \in Database, NEW x \in Items, NEW v \in Words
             PROVE  /\ Put(d, x, v) \in Database /\ Put(d, x, v).cols = d.cols
                    /\ \A y \in Items : Put(d, x, v).val[y] = IF y = x THEN v ELSE d.val[y]
  OBVIOUS
<1> DEFINE w == [d.val EXCEPT ![x] = v]
<1>1. d.val \in [Items -> Words]
  BY DEF Database
<1>2. w \in [Items -> Words] /\ \A y \in Items : w[y] = IF y = x THEN v ELSE d.val[y]
  BY <1>1
<1>3. Put(d, x, v) = [d EXCEPT !.val = w]
  BY DEF Put, Database
<1> HIDE DEF w
<1> QED BY <1>2, <1>3, ValueWritten

\* One value seeded.
LEMMA SeedValues ==
  \A d \in Database, x \in Items, v \in Words :
    /\ Seed(d, x, v) \in Database /\ Seed(d, x, v).cols = d.cols
    /\ \A y \in Items :
         Seed(d, x, v).val[y] = IF y = x /\ d.val[y] = Missing THEN v ELSE d.val[y]
BY PutValues DEF Seed

\* One value exchanged.
LEMMA SwapValues ==
  \A d \in Database, x \in Items, v \in Words : \A S :
    /\ Swap(d, x, S, v) \in Database /\ Swap(d, x, S, v).cols = d.cols
    /\ \A y \in Items :
         Swap(d, x, S, v).val[y] = IF y = x /\ d.val[y] \in S THEN v ELSE d.val[y]
BY PutValues DEF Swap

\* Several values seeded.
LEMMA SeedAllValues ==
  \A d \in Database : \A X :
    /\ SeedAll(d, X) \in Database /\ SeedAll(d, X).cols = d.cols
    /\ \A y \in Items :
         SeedAll(d, X).val[y] = IF y \in X /\ d.val[y] = Missing THEN "seed" ELSE d.val[y]
<1> SUFFICES ASSUME NEW d \in Database, NEW X
             PROVE  /\ SeedAll(d, X) \in Database /\ SeedAll(d, X).cols = d.cols
                    /\ \A y \in Items : SeedAll(d, X).val[y] =
                         IF y \in X /\ d.val[y] = Missing THEN "seed" ELSE d.val[y]
  OBVIOUS
<1> DEFINE w == [y \in Items |-> IF y \in X /\ d.val[y] = Missing THEN "seed" ELSE d.val[y]]
<1>1. d.val \in [Items -> Words] /\ "seed" \in Words
  BY WordsAre DEF Database
<1>2. /\ w \in [Items -> Words]
      /\ \A y \in Items : w[y] = IF y \in X /\ d.val[y] = Missing THEN "seed" ELSE d.val[y]
  BY <1>1
<1>3. SeedAll(d, X) = [d EXCEPT !.val = w]
  BY DEF SeedAll, Database
<1> HIDE DEF w
<1> QED BY <1>2, <1>3, ValueWritten

\* Columns added: no value changes.
LEMMA ColsValues ==
  \A d \in Database, C \in SUBSET AllCols :
    /\ AddCols(d, C) \in Database /\ AddCols(d, C).val = d.val
    /\ AddCols(d, C).cols = d.cols \cup C
BY KeepsCols DEF Keeps

\* The items by name.
LEMMA Named ==
  /\ "vinyl_strategy" \in Items /\ "vinyl_manual" \in Items
  /\ "vinyl_dims" \in Items /\ "board_strategy" \in Items /\ "posters" \in Items
  /\ "silk" \in Items /\ "ncr" \in Items /\ "secretest" \in Items
  /\ "catalogue" \in Items /\ "soft_touch_price" \in Items
  /\ "soft_touch_keys" \in Items /\ "soft_touch_category" \in Items
  /\ "business_rules" \in Items /\ "widget" \in Items /\ "missive" \in Items
  /\ "missive_enabled" \in Items /\ "missive_from_address" \in Items
  /\ "last_known" \in Items /\ "printlogic_dry_run" \in Items
  /\ "multiplier" \in Items /\ "stripe_enabled" \in Items
  /\ "stripe_secret_key" \in Items /\ "auto_draft" \in Items /\ "faqs" \in Items
  /\ "shop_address" \in Items /\ "shipping" \in Items /\ "order_status" \in Items
  /\ "auto_send" \in Items /\ "notifications_enabled" \in Items
  /\ "notify_to" \in Items /\ "poa_keywords" \in Items /\ "alert_email" \in Items
  /\ "threshold" \in Items /\ "team_domains" \in Items /\ "laydown" \in Items
  /\ "temperature" \in Items /\ "taxes" \in Items /\ "categories" \in Items
  /\ "artwork" \in Items
BY DEF Items, PricingItems, ProductItems, Settings

\* The items that steps settle.
LEMMA Settled ==
  /\ "catalogue" \in Items \ Restless /\ "posters" \in Items \ Restless
  /\ "secretest" \in Items \ Restless /\ "soft_touch_price" \in Items \ Restless
  /\ "silk" \in Items \ Restless /\ "stripe_secret_key" \in Items \ Restless
  /\ "shop_address" \in Items \ Restless /\ "artwork" \in Items \ Restless
  /\ "order_status" \in Items \ Restless /\ "notifications_enabled" \in Items \ Restless
  /\ "vinyl_strategy" \in Items \ Restless /\ "vinyl_manual" \in Items \ Restless
  /\ "soft_touch_keys" \in Items \ Restless /\ "board_strategy" \in Items \ Restless
  /\ "missive_from_address" \in Items \ Restless /\ "last_known" \in Items \ Restless
  /\ "vinyl_dims" \in Items \ Restless /\ "ncr" \in Items \ Restless
BY DEF Items, PricingItems, ProductItems, Settings, Restless

\* What stands between two databases, to say that the settled stays so: the
\* items are unchanged, or what they were did not settle anything.
Spared(d, e) ==
  /\ \A x \in {"soft_touch_price", "silk", "stripe_secret_key", "artwork",
               "order_status", "notifications_enabled", "vinyl_strategy",
               "vinyl_manual", "soft_touch_keys", "board_strategy", "last_known",
               "vinyl_dims", "ncr", "catalogue"} : e.val[x] = d.val[x]
  /\ \A x \in {"posters", "secretest", "shop_address", "missive_from_address"} :
       d.val[x] # Missing => e.val[x] = d.val[x]

\* The columns, prompt and secret aside, a script that only seeds.
Light(d, e, X) ==
  /\ \A x \in Items \ (X \cup Restless) : e.val[x] = d.val[x]
  /\ \A x \in X : e.val[x] # Missing /\ (d.val[x] # Missing => e.val[x] = d.val[x])
  /\ \A x \in Restless : d.val[x] # Missing => e.val[x] # Missing

\* The scripts that do.
Lightly == {"init_db", "pre_ddl", "has_products", "v3", "v4", "v5", "v6", "v7", "v8",
            "v9", "v12", "v13", "v14", "v15", "v16", "v17", "v19", "v20", "v22", "v24",
            "v25_rules", "v30", "v31", "v35", "v36_rules", "v37_threshold", "v39",
            "v40", "v41", "v43", "v44"}

\* What they bring is not what other steps settle.
LEMMA LightBrings ==
  ASSUME NEW s \in Lightly
  PROVE  /\ Brings(s) \subseteq Items \ Restless
         /\ {"soft_touch_price", "silk", "stripe_secret_key", "artwork",
             "order_status", "notifications_enabled", "vinyl_strategy",
             "vinyl_manual", "soft_touch_keys", "board_strategy", "last_known",
             "vinyl_dims", "ncr", "catalogue", "posters", "secretest"} \cap Brings(s) = {}
         /\ \A v : Settles(s, v)
<1>1. /\ Brings(s) \subseteq {"taxes", "categories", "widget", "missive", "missive_enabled",
                             "missive_from_address", "printlogic_dry_run", "multiplier",
                             "stripe_enabled", "auto_draft", "faqs", "shop_address",
                             "auto_send", "alert_email", "threshold", "laydown",
                             "temperature"}
  BY DEF Brings, Lightly
<1>2. \A x \in Brings(s) : x \in Items \ Restless
  BY <1>1 DEF Items, PricingItems, ProductItems, Settings, Restless
<1>3. {"soft_touch_price", "silk", "stripe_secret_key", "artwork",
       "order_status", "notifications_enabled", "vinyl_strategy",
       "vinyl_manual", "soft_touch_keys", "board_strategy", "last_known",
       "vinyl_dims", "ncr", "catalogue", "posters", "secretest"} \cap Brings(s) = {}
  BY <1>1
<1>4. \A v : Settles(s, v)
  BY DEF Settles, Lightly
<1> QED BY <1>2, <1>3, <1>4

\* What is spared stays settled.
LEMMA SparedSettled ==
  ASSUME NEW d, NEW e, Spared(d, e), NEW t, Settles(t, d.val)
  PROVE  Settles(t, e.val)
BY DEF Spared, Settles, Missing

\* A script that only seeds does its work.
LEMMA LightWorks ==
  ASSUME NEW d, NEW e, NEW s \in Lightly, Light(d, e, Brings(s)), Lays(s) \subseteq e.cols
  PROVE  Works(s, d, e)
<1>1. /\ \A x \in Items \ Restless : x \notin Brings(s) => e.val[x] = d.val[x]
      /\ \A x \in Brings(s) : e.val[x] # Missing /\ (d.val[x] # Missing => e.val[x] = d.val[x])
      /\ \A x \in Restless : d.val[x] # Missing => e.val[x] # Missing
  BY DEF Light
<1>2. \A x \in Items : d.val[x] # Missing => e.val[x] # Missing
  BY <1>1
<1>3. Spared(d, e)
  <2>1. \A x \in {"soft_touch_price", "silk", "stripe_secret_key", "artwork",
               "order_status", "notifications_enabled", "vinyl_strategy",
               "vinyl_manual", "soft_touch_keys", "board_strategy", "last_known",
               "vinyl_dims", "ncr", "catalogue", "posters", "secretest"} :
          x \in Items \ Restless /\ x \notin Brings(s)
    BY LightBrings, Settled
  <2>2. \A x \in {"shop_address", "missive_from_address"} : x \in Items \ Restless
    BY Settled
  <2> QED BY <1>1, <2>1, <2>2 DEF Spared
<1>4. \A t : Settles(t, d.val) => Settles(t, e.val)
  BY <1>3, SparedSettled
<1>5. Stock(d) => Stock(e)
  <2>1. e.val["catalogue"] = d.val["catalogue"] /\ e.val["artwork"] = d.val["artwork"]
        /\ e.val["vinyl_manual"] = d.val["vinyl_manual"]
    BY <1>3 DEF Spared
  <2> QED BY <1>2, <2>1, ItemNames DEF Stock
<1>6. Fact(s, d) => Same(d, e)
  BY <1>1 DEF Fact, Same
<1>7. Fact(s, e)
  BY <1>1, LightBrings DEF Fact
<1> QED BY <1>2, <1>4, <1>5, <1>6, <1>7 DEF Works

\* A step that finds nothing to work on.
LEMMA IdleWorks ==
  ASSUME NEW d, NEW s, ~Ready(s, d) PROVE Works(s, d, d)
BY DEF Works, Same

\* No value changes.
LEMMA LightSame ==
  ASSUME NEW d, NEW e, e.val = d.val PROVE Light(d, e, {})
BY DEF Light

\* Values seeded, over columns added.
LEMMA LightSeeds ==
  ASSUME NEW d \in Database, NEW c \in Database, c.val = d.val,
         NEW X \in SUBSET (Items \ Restless)
  PROVE  Light(d, SeedAll(c, X), X) /\ SeedAll(c, X).cols = c.cols
<1> DEFINE e == SeedAll(c, X)
<1>1. e.cols = c.cols /\ \A y \in Items :
        e.val[y] = IF y \in X /\ d.val[y] = Missing THEN "seed" ELSE d.val[y]
  BY SeedAllValues
<1>2. "seed" # Missing
  BY DEF Missing
<1>3. Restless \subseteq Items
  BY Named DEF Restless
<1> HIDE DEF e
<1>4. Light(d, e, X)
  BY <1>1, <1>2, <1>3 DEF Light
<1> QED BY <1>1, <1>4 DEF e

\* The rules written, over columns added.
LEMMA LightRules ==
  ASSUME NEW d \in Database, NEW c \in Database, c.val = d.val, NEW v \in Words,
         v # Missing
  PROVE  /\ Light(d, Rules(c, v), {}) /\ Rules(c, v).cols = c.cols
         /\ \A S : Light(d, Swap(c, "business_rules", S, v), {})
         /\ Light(d, Seed(c, "business_rules", v), {})
<1> DEFINE x == "business_rules"
<1>1. x \in Items /\ x \in Restless /\ Restless \subseteq Items
  BY Named DEF Restless
<1>2. ASSUME NEW e, \A y \in Items : y # x => e.val[y] = d.val[y],
             e.val[x] = v \/ e.val[x] = d.val[x]
      PROVE  Light(d, e, {})
  BY <1>1, <1>2 DEF Light
<1>3. Rules(c, v) = Put(c, x, v)
  BY DEF Rules
<1> HIDE DEF x
<1>4. /\ Rules(c, v).cols = c.cols
      /\ \A y \in Items : Rules(c, v).val[y] = IF y = x THEN v ELSE d.val[y]
  BY <1>1, <1>3, PutValues
<1>5. Light(d, Rules(c, v), {})
  BY <1>1, <1>2, <1>4
<1>6. ASSUME NEW S PROVE Light(d, Swap(c, x, S, v), {})
  <2> DEFINE e == Swap(c, x, S, v)
  <2>1. \A y \in Items : e.val[y] = IF y = x /\ c.val[x] \in S THEN v ELSE c.val[y]
    BY <1>1, SwapValues
  <2> HIDE DEF e
  <2>2. Light(d, e, {})
    BY <1>1, <1>2, <2>1
  <2> QED BY <2>2 DEF e
<1>7. Light(d, Seed(c, x, v), {})
  <2> DEFINE e == Seed(c, x, v)
  <2>1. \A y \in Items : e.val[y] = IF y = x /\ c.val[x] = Missing THEN v ELSE c.val[y]
    BY <1>1, SeedValues
  <2> HIDE DEF e
  <2>2. Light(d, e, {})
    BY <1>1, <1>2, <2>1
  <2> QED BY <2>2 DEF e
<1> QED BY <1>4, <1>5, <1>6, <1>7 DEF x

\* The steps that bring nothing.
LEMMA Bringless ==
  /\ \A s \in {"init_db", "pre_ddl", "has_products", "v5", "v6", "v7", "v8", "v12",
               "v15", "v17", "v20", "v24", "v25_rules", "v30", "v36_rules", "v39",
               "v40", "v41"} : Brings(s) = {} /\ s \in Lightly
  /\ \A s \in {"init_db", "has_products", "v5", "v6", "v7", "v8", "v17", "v25_rules",
               "v36_rules", "v39", "v40", "v41"} : Lays(s) = {}
BY DEF Brings, Lightly, Lays

\* The steps that change no value.
LEMMA ColumnsWork ==
  ASSUME NEW d \in Database, NEW r
  PROVE  /\ Works("init_db", d, InitDb(d)) /\ Works("pre_ddl", d, PreDdl(d))
         /\ Works("has_products", d, d) /\ Works("v12", d, V12(d))
         /\ Works("v15", d, V15(d)) /\ Works("v20", d, V20(d))
         /\ Works("v30", d, V30(d)) /\ Works("v39", d, V39(d))
         /\ Works("v40", d, V40(d)) /\ Works("v41", d, V41(d))
         /\ Works("v17", d, V17(d, r))
<1>1. ASSUME NEW s \in Lightly, Brings(s) = {}, NEW e, e.val = d.val, Lays(s) \subseteq e.cols
      PROVE  Works(s, d, e)
  BY <1>1, LightSame, LightWorks
<1>2. Works("init_db", d, InitDb(d))
  <2>1. InitDb(d).val = d.val
    BY ColsValues DEF InitDb
  <2> QED BY <1>1, <2>1, Bringless
<1>3. Works("has_products", d, d)
  BY <1>1, Bringless
<1>4. ASSUME NEW C \in SUBSET AllCols, NEW s \in Lightly, Brings(s) = {}, Lays(s) \subseteq C
      PROVE  Works(s, d, AddCols(d, C))
  <2>1. AddCols(d, C).val = d.val /\ Lays(s) \subseteq AddCols(d, C).cols
    BY <1>4, ColsValues
  <2> QED BY <1>1, <1>4, <2>1
<1>5. Works("pre_ddl", d, PreDdl(d))
  <2> DEFINE C == {"v34", "v35", "v36", "v37", "v38", "v39", "v40", "v41"}
             s == "pre_ddl"
  <2>1. C \in SUBSET AllCols /\ Lays(s) \subseteq C /\ PreDdl(d) = AddCols(d, C)
    BY DEF AllCols, Lays, PreDdl
  <2>2. s \in Lightly /\ Brings(s) = {}
    BY Bringless
  <2> HIDE DEF C, s
  <2>3. Works(s, d, PreDdl(d))
    BY <1>4, <2>1, <2>2
  <2> QED BY <2>3 DEF s
<1>6. ASSUME NEW s \in {"v12", "v15", "v20", "v30", "v39", "v40", "v41"}
      PROVE  Works(s, d, AddCols(d, {s}))
  <2>1. {s} \in SUBSET AllCols /\ Lays(s) \subseteq {s}
    BY DEF AllCols, Lays
  <2>2. s \in Lightly /\ Brings(s) = {}
    BY Bringless
  <2> QED BY <1>4, <2>1, <2>2
<1>7. /\ Works("v12", d, V12(d)) /\ Works("v15", d, V15(d)) /\ Works("v20", d, V20(d))
      /\ Works("v30", d, V30(d)) /\ Works("v39", d, V39(d))
      /\ Works("v40", d, V40(d)) /\ Works("v41", d, V41(d))
  BY <1>6 DEF V12, V15, V20, V30, V39, V40, V41
<1>8. Works("v17", d, V17(d, r))
  <2>1. V17(d, r).val = d.val
    BY DEF V17, Database
  <2> QED BY <1>1, <2>1, Bringless
<1> QED BY <1>2, <1>3, <1>5, <1>7, <1>8

\* The steps that write the rules and nothing else, and v7, which cuts the
\* prompt.
LEMMA RulesWork ==
  ASSUME NEW d \in Database, Opens(d.prompt)
  PROVE  /\ Works("v5", d, V5(d)) /\ Works("v6", d, V6(d)) /\ Works("v7", d, V7(d))
         /\ Works("v8", d, V8(d)) /\ Works("v24", d, V24(d))
         /\ Works("v25_rules", d, V25Rules(d)) /\ Works("v36_rules", d, V36Rules(d))
<1>1. ASSUME NEW s \in Lightly, Brings(s) = {}, NEW e, Light(d, e, {}), Lays(s) \subseteq e.cols
      PROVE  Works(s, d, e)
  BY <1>1, LightWorks
<1>2. /\ "empty" \in Words /\ "default" \in Words /\ "v24" \in Words /\ "v25" \in Words
      /\ "v36" \in Words
  BY WordsAre
<1>3. /\ "empty" # Missing /\ "default" # Missing /\ "v24" # Missing /\ "v25" # Missing
      /\ "v36" # Missing
  BY DEF Missing
<1>4. Works("v5", d, V5(d))
  <2>1. CASE d.prompt = <<>>
    <3>1. V5(d) = d
      BY <2>1 DEF V5, ForShops
    <3>2. Light(d, d, {})
      BY LightSame
    <3> QED BY <1>1, <3>1, <3>2, Bringless
  <2>2. CASE d.prompt # <<>>
    <3> DEFINE p == V5Prompt(d.prompt)
               c == [d EXCEPT !.prompt = p]
    <3>1. d.prompt \in Seq(Words)
      BY DEF Database
    <3>2. p \in Seq(Words)
      BY <2>2, <3>1, V5Cuts
    <3>3. c \in Database /\ c.val = d.val
      BY <3>2 DEF Database
    <3>4. V5(d) = Seed(c, "business_rules", "empty")
      BY <2>2 DEF V5, ForShops, Database
    <3> HIDE DEF c
    <3>5. Light(d, V5(d), {})
      BY <1>2, <1>3, <3>3, <3>4, LightRules
    <3> QED BY <1>1, <3>5, Bringless
  <2> QED BY <2>1, <2>2
<1>5. Works("v6", d, V6(d)) /\ Works("v8", d, V8(d))
  <2>1. Light(d, V6(d), {}) /\ Light(d, V8(d), {})
    BY <1>2, <1>3, LightRules DEF V6, V8
  <2> QED BY <1>1, <2>1, Bringless
<1>6. Works("v7", d, V7(d))
  <2>1. V7(d).val = d.val
    BY DEF V7, Database
  <2>2. Light(d, V7(d), {})
    BY <2>1, LightSame
  <2> QED BY <1>1, <2>2, Bringless
<1>7. Works("v24", d, V24(d))
  <2> DEFINE c == AddCols(d, {"v24"})
  <2>1. /\ c \in Database /\ c.val = d.val /\ "v24" \in c.cols
        /\ V24(d) = Rules(c, "v24")
    BY ColsValues DEF AllCols, V24
  <2> HIDE DEF c
  <2>2. Light(d, V24(d), {}) /\ V24(d).cols = c.cols
    BY <1>2, <1>3, <2>1, LightRules
  <2>3. Lays("v24") = {"v24"}
    BY DEF Lays
  <2> QED BY <1>1, <2>1, <2>2, <2>3, Bringless
<1>8. Works("v25_rules", d, V25Rules(d)) /\ Works("v36_rules", d, V36Rules(d))
  <2>1. Light(d, V25Rules(d), {}) /\ Light(d, V36Rules(d), {})
    BY <1>2, <1>3, LightRules DEF V25Rules, V36Rules
  <2> QED BY <1>1, <2>1, Bringless
<1> QED BY <1>4, <1>5, <1>6, <1>7, <1>8

\* A step that seeds what it brings, over columns added.
LEMMA SeedsWork ==
  ASSUME NEW d \in Database, NEW c \in Database, c.val = d.val, NEW s \in Lightly,
         Lays(s) \subseteq c.cols
  PROVE  Works(s, d, SeedAll(c, Brings(s)))
<1>1. Brings(s) \in SUBSET (Items \ Restless)
  BY LightBrings
<1>2. Light(d, SeedAll(c, Brings(s)), Brings(s)) /\ SeedAll(c, Brings(s)).cols = c.cols
  BY <1>1, LightSeeds
<1> QED BY <1>2, LightWorks

\* The same for the shops there are.
LEMMA ShopsWork ==
  ASSUME NEW d \in Database, NEW s \in {"v13", "v14", "v16", "v43", "v44"}
  PROVE  Works(s, d, ForShops(d, SeedAll(d, Brings(s))))
<1>1. CASE d.prompt = <<>>
  <2>1. ~Ready(s, d)
    BY <1>1 DEF Ready
  <2> QED BY <1>1, <2>1, IdleWorks DEF ForShops
<1>2. CASE d.prompt # <<>>
  <2>1. s \in Lightly /\ Lays(s) = {}
    BY DEF Lightly, Lays
  <2> QED BY <1>2, <2>1, SeedsWork DEF ForShops
<1> QED BY <1>1, <1>2

\* The steps that only seed.
LEMMA SeedersWork ==
  ASSUME NEW d \in Database
  PROVE  /\ Works("v4", d, V4(d)) /\ Works("v13", d, V13(d)) /\ Works("v14", d, V14(d))
         /\ Works("v16", d, V16(d)) /\ Works("v19", d, V19(d)) /\ Works("v31", d, V31(d))
         /\ Works("v35", d, V35(d)) /\ Works("v37_threshold", d, V37Threshold(d))
         /\ Works("v43", d, V43(d)) /\ Works("v44", d, V44(d))
<1>1. /\ Brings("v4") = {"widget"} /\ Brings("v13") = {"printlogic_dry_run"}
      /\ Brings("v14") = {"multiplier"} /\ Brings("v16") = {"stripe_enabled"}
      /\ Brings("v19") = {"auto_draft"} /\ Brings("v31") = {"auto_send"}
      /\ Brings("v35") = {"alert_email"} /\ Brings("v37_threshold") = {"threshold"}
      /\ Brings("v43") = {"laydown"} /\ Brings("v44") = {"temperature"}
  BY DEF Brings
<1>2. /\ Lays("v4") = {} /\ Lays("v19") = {"v19"} /\ Lays("v31") = {}
      /\ Lays("v35") = {} /\ Lays("v37_threshold") = {}
  BY DEF Lays
<1>3. "v4" \in Lightly /\ "v19" \in Lightly /\ "v31" \in Lightly /\ "v35" \in Lightly
      /\ "v37_threshold" \in Lightly
  BY DEF Lightly
<1>4. Works("v13", d, V13(d)) /\ Works("v14", d, V14(d)) /\ Works("v16", d, V16(d))
      /\ Works("v43", d, V43(d)) /\ Works("v44", d, V44(d))
  BY <1>1, ShopsWork DEF V13, V14, V16, V43, V44
<1>5. Works("v4", d, V4(d))
  <2> DEFINE p == IF d.prompt = <<>> THEN CodePrompt ELSE d.prompt
             c == [d EXCEPT !.prompt = p]
  <2>1. p \in Seq(Words)
    BY V4Does DEF Rewords
  <2>2. c \in Database /\ c.val = d.val
    BY <2>1 DEF Database
  <2>3. V4(d) = SeedAll(c, {"widget"})
    BY DEF V4, Database
  <2> DEFINE s == "v4"
  <2>4. s \in Lightly /\ Lays(s) \subseteq c.cols /\ V4(d) = SeedAll(c, Brings(s))
    BY <1>1, <1>2, <1>3, <2>3
  <2> HIDE DEF c, s
  <2>5. Works(s, d, V4(d))
    BY <2>2, <2>4, SeedsWork
  <2> QED BY <2>5 DEF s
<1>6. Works("v31", d, V31(d))
  BY <1>1, <1>2, <1>3, SeedsWork DEF V31
<1>7. Works("v19", d, V19(d)) /\ Works("v35", d, V35(d))
      /\ Works("v37_threshold", d, V37Threshold(d))
  <2>1. ASSUME NEW x \in {"v19", "v35", "v37"}
        PROVE  /\ AddCols(d, {x}) \in Database /\ AddCols(d, {x}).val = d.val
               /\ x \in AddCols(d, {x}).cols
    <3>1. {x} \in SUBSET AllCols
      BY DEF AllCols
    <3> QED BY <3>1, ColsValues
  <2>2. Works("v19", d, V19(d))
    <3> DEFINE c == AddCols(d, {"v19"})
               s == "v19"
    <3>1. c \in Database /\ c.val = d.val /\ "v19" \in c.cols
      BY <2>1
    <3>2. V19(d) = SeedAll(c, Brings(s)) /\ s \in Lightly
      BY <1>1, <1>3 DEF V19
    <3> HIDE DEF c
    <3>3. Lays(s) \subseteq c.cols
      BY <1>2, <3>1
    <3> HIDE DEF s
    <3>4. Works(s, d, V19(d))
      BY <3>1, <3>2, <3>3, SeedsWork
    <3> QED BY <3>4 DEF s
  <2>3. Works("v35", d, V35(d))
    BY <1>1, <1>2, <1>3, <2>1, SeedsWork DEF V35
  <2>4. Works("v37_threshold", d, V37Threshold(d))
    BY <1>1, <1>2, <1>3, <2>1, SeedsWork DEF V37Threshold
  <2> QED BY <2>2, <2>3, <2>4
<1> QED BY <1>4, <1>5, <1>6, <1>7

\* v3, v9 and v22 seed and do more.
LEMMA MoreSeedsWork ==
  ASSUME NEW d \in Database
  PROVE  Works("v3", d, V3(d)) /\ Works("v9", d, V9(d)) /\ Works("v22", d, V22(d))
<1>1. /\ Brings("v3") = {"categories"} /\ Brings("v22") = {"faqs", "shop_address"}
      /\ Brings("v9") = {"missive", "missive_enabled", "missive_from_address"}
      /\ Lays("v3") = {"v3"} /\ Lays("v22") = {"v22"} /\ Lays("v9") = {}
  BY DEF Brings, Lays
<1>2. "v3" \in Lightly /\ "v9" \in Lightly /\ "v22" \in Lightly
  BY DEF Lightly
<1>3. /\ "seed" # Missing /\ "false" # Missing /\ "test" # Missing /\ "v22" # Missing
      /\ "placeholder" # Missing
  BY DEF Missing
<1>4. /\ "categories" \in Items /\ "missive" \in Items /\ "missive_enabled" \in Items
      /\ "missive_from_address" \in Items /\ "faqs" \in Items /\ "shop_address" \in Items
      /\ "business_rules" \in Items /\ "seed" \in Words /\ "false" \in Words
      /\ "test" \in Words /\ "v22" \in Words /\ "placeholder" \in Words
  BY Named, WordsAre
<1>5. Works("v3", d, V3(d))
  <2> DEFINE c == AddCols(d, {"v3"})
  <2>1. c \in Database /\ c.val = d.val /\ "v3" \in c.cols
    BY ColsValues DEF AllCols
  <2>2. V3(d) = IF HasProducts(d) THEN Seed(c, "categories", "seed") ELSE c
    BY DEF V3
  <2> HIDE DEF c
  <2>3. CASE HasProducts(d)
    <3> DEFINE e == Seed(c, "categories", "seed")
    <3>0. e.cols = c.cols /\ \A y \in Items :
            e.val[y] = IF y = "categories" /\ c.val[y] = Missing THEN "seed" ELSE c.val[y]
      <4>1. c \in Database /\ "categories" \in Items /\ "seed" \in Words
        BY <1>4, <2>1
      <4> QED BY <4>1, SeedValues
    <3>1. e.cols = c.cols /\ \A y \in Items :
            e.val[y] = IF y = "categories" /\ d.val[y] = Missing THEN "seed" ELSE d.val[y]
      <4> HIDE DEF e
      <4> QED BY <2>1, <3>0
    <3>2. Restless \subseteq Items
      BY Named DEF Restless
    <3>3. V3(d) = e
      BY <2>2, <2>3
    <3> HIDE DEF e
    <3>4. Light(d, e, {"categories"})
      BY <1>3, <1>4, <3>1, <3>2 DEF Light
    <3>5. Lays("v3") \subseteq e.cols
      BY <1>1, <2>1, <3>1
    <3> QED BY <1>1, <1>2, <3>3, <3>4, <3>5, LightWorks
  <2>4. CASE ~HasProducts(d)
    <3>1. V3(d) = c
      BY <2>2, <2>4
    <3>2. ~Ready("v3", d)
      BY <2>4 DEF Ready
    <3> QED BY <2>1, <3>1, <3>2 DEF Works, Same, Stock
  <2> QED BY <2>3, <2>4
<1>6. Works("v9", d, V9(d))
  <2>1. CASE d.prompt = <<>>
    <3>1. ~Ready("v9", d) /\ V9(d) = d
      BY <2>1 DEF Ready, V9, ForShops
    <3> QED BY <3>1, IdleWorks
  <2>2. CASE d.prompt # <<>>
    <3> DEFINE a == Seed(d, "missive_enabled", "false")
               b == Seed(a, "missive_from_address", "test")
               e == SeedAll(b, {"missive"})
    <3>1. V9(d) = e
      BY <2>2 DEF V9, ForShops
    <3>2. a \in Database /\ \A y \in Items :
            a.val[y] = IF y = "missive_enabled" /\ d.val[y] = Missing THEN "false" ELSE d.val[y]
      BY <1>4, SeedValues
    <3> HIDE DEF a
    <3>3. b \in Database /\ \A y \in Items :
            b.val[y] = IF y = "missive_from_address" /\ a.val[y] = Missing THEN "test" ELSE a.val[y]
      BY <1>4, <3>2, SeedValues
    <3> HIDE DEF b
    <3>4. \A y \in Items :
            e.val[y] = IF y \in {"missive"} /\ b.val[y] = Missing THEN "seed" ELSE b.val[y]
      BY <3>3, SeedAllValues
    <3>5. Restless \subseteq Items
      BY Named DEF Restless
    <3> HIDE DEF e
    <3>6. Light(d, e, {"missive", "missive_enabled", "missive_from_address"})
      BY <1>3, <1>4, <3>2, <3>3, <3>4, <3>5 DEF Light
    <3> QED BY <1>1, <1>2, <3>1, <3>6, LightWorks
  <2> QED BY <2>1, <2>2
<1>7. Works("v22", d, V22(d))
  <2> DEFINE c == AddCols(d, {"v22"})
             a == SeedAll(c, {"faqs"})
             b == Seed(a, "shop_address", "placeholder")
             e == Put(b, "business_rules", "v22")
  <2>1. V22(d) = e
    BY DEF V22, Rules
  <2>2. c \in Database /\ c.val = d.val /\ "v22" \in c.cols
    BY ColsValues DEF AllCols
  <2> HIDE DEF c
  <2>3. a \in Database /\ a.cols = c.cols /\ \A y \in Items :
          a.val[y] = IF y \in {"faqs"} /\ d.val[y] = Missing THEN "seed" ELSE d.val[y]
    BY <2>2, SeedAllValues
  <2> HIDE DEF a
  <2>4. b \in Database /\ b.cols = c.cols /\ \A y \in Items :
          b.val[y] = IF y = "shop_address" /\ a.val[y] = Missing THEN "placeholder" ELSE a.val[y]
    BY <1>4, <2>3, SeedValues
  <2> HIDE DEF b
  <2>5. e.cols = c.cols /\ \A y \in Items :
          e.val[y] = IF y = "business_rules" THEN "v22" ELSE b.val[y]
    BY <1>4, <2>4, PutValues
  <2>6. Restless \subseteq Items /\ "business_rules" \in Restless
    BY Named DEF Restless
  <2> HIDE DEF e
  <2>7. Light(d, e, {"faqs", "shop_address"})
    BY <1>3, <1>4, <2>3, <2>4, <2>5, <2>6 DEF Light
  <2>8. Lays("v22") \subseteq e.cols
    BY <1>1, <2>2, <2>5
  <2> QED BY <1>1, <1>2, <2>1, <2>7, <2>8, LightWorks
<1> QED BY <1>5, <1>6, <1>7

\* A script that seeds, and sets the item x.
Sets(d, e, x, X) ==
  /\ \A y \in Items \ (X \cup Restless \cup {x}) : e.val[y] = d.val[y]
  /\ \A y \in X : e.val[y] # Missing /\ (d.val[y] # Missing => e.val[y] = d.val[y])
  /\ \A y \in Restless : d.val[y] # Missing => e.val[y] # Missing

\* The same of the items that steps settle, x aside.
SparedBut(d, e, x) ==
  /\ \A y \in {"soft_touch_price", "silk", "stripe_secret_key", "artwork",
               "order_status", "notifications_enabled", "vinyl_strategy",
               "vinyl_manual", "soft_touch_keys", "board_strategy", "last_known",
               "vinyl_dims", "ncr", "catalogue"} : y # x => e.val[y] = d.val[y]
  /\ \A y \in {"posters", "secretest", "shop_address", "missive_from_address"} :
       y # x /\ d.val[y] # Missing => e.val[y] = d.val[y]

\* The scripts that do, each with an item of its own.
SetterNames == {"v10", "v11", "v18", "v21", "v23", "v25_artwork", "v26", "v27", "v33",
                "v34_flip", "v34_rules", "v37_flags", "v38", "v42"}

\* They bring a few items that nobody else settles.
LEMMA SetterBrings ==
  ASSUME NEW s \in SetterNames
  PROVE  /\ Brings(s) \subseteq Items \ Restless
         /\ {"soft_touch_price", "silk", "stripe_secret_key", "artwork",
             "order_status", "notifications_enabled", "vinyl_strategy",
             "vinyl_manual", "soft_touch_keys", "board_strategy", "last_known",
             "vinyl_dims", "ncr", "catalogue", "secretest",
             "shop_address", "missive_from_address"} \cap Brings(s) = {}
<1>1. Brings(s) \subseteq {"shipping", "notify_to", "poa_keywords", "posters"}
  BY DEF Brings, SetterNames
<1>2. \A x \in Brings(s) : x \in Items \ Restless
  BY <1>1 DEF Items, PricingItems, ProductItems, Settings, Restless
<1>3. {"soft_touch_price", "silk", "stripe_secret_key", "artwork",
             "order_status", "notifications_enabled", "vinyl_strategy",
             "vinyl_manual", "soft_touch_keys", "board_strategy", "last_known",
             "vinyl_dims", "ncr", "catalogue", "secretest",
             "shop_address", "missive_from_address"} \cap Brings(s) = {}
  BY <1>1
<1> QED BY <1>2, <1>3

\* So what others settled depends on the item set alone.
LEMMA SetsSpared ==
  ASSUME NEW d, NEW e, NEW s \in SetterNames, NEW x, Sets(d, e, x, Brings(s))
  PROVE  SparedBut(d, e, x)
<1>1. /\ \A y \in Items \ Restless : y # x /\ y \notin Brings(s) => e.val[y] = d.val[y]
      /\ \A y \in Brings(s) : e.val[y] # Missing /\ (d.val[y] # Missing => e.val[y] = d.val[y])
  BY DEF Sets
<1>2. \A y \in {"soft_touch_price", "silk", "stripe_secret_key", "artwork",
               "order_status", "notifications_enabled", "vinyl_strategy",
               "vinyl_manual", "soft_touch_keys", "board_strategy", "last_known",
               "vinyl_dims", "ncr", "catalogue", "secretest", "shop_address",
               "missive_from_address"} :
          y \in Items \ Restless /\ y \notin Brings(s)
  BY SetterBrings, Settled
<1>3. \A y \in {"posters"} : y \in Items \ Restless
  BY Settled
<1> QED BY <1>1, <1>2, <1>3 DEF SparedBut

\* What is left to show of such a script: what becomes of its item.
LEMMA SetsWork ==
  ASSUME NEW d, NEW e, NEW s \in SetterNames, NEW x \in Items \ Restless,
         Sets(d, e, x, Brings(s)), Lays(s) \subseteq e.cols, x # "catalogue",
         x # "stripe_secret_key" => (d.val[x] # Missing => e.val[x] # Missing),
         \A t : Settles(t, d.val) => Settles(t, e.val),
         Settles(s, d.val) => e.val[x] = d.val[x],
         Ready(s, d) => Settles(s, e.val),
         Stock(d) => /\ e.val["artwork"] \in {Missing, "single", "text", "list"}
                     /\ e.val["vinyl_manual"] \in {Missing, "yes", "no"}
  PROVE  Works(s, d, e)
<1>1. /\ \A y \in Items \ Restless : y # x /\ y \notin Brings(s) => e.val[y] = d.val[y]
      /\ \A y \in Brings(s) : e.val[y] # Missing /\ (d.val[y] # Missing => e.val[y] = d.val[y])
      /\ \A y \in Restless : d.val[y] # Missing => e.val[y] # Missing
  BY DEF Sets
<1>2. \A y \in Items \ {"stripe_secret_key"} : d.val[y] # Missing => e.val[y] # Missing
  <2>1. \A y \in Items \ Restless : y \notin Brings(s) /\ y # x /\ d.val[y] # Missing => e.val[y] # Missing
    BY <1>1
  <2> QED BY <1>1, <2>1
<1>3. SparedBut(d, e, x)
  BY SetsSpared
<1>4. Stock(d) => Stock(e)
  <2>1. e.val["catalogue"] = d.val["catalogue"]
    BY <1>3 DEF SparedBut
  <2>2. \A y \in Stocked : y \in Items \ {"stripe_secret_key"}
    BY DEF Stocked, Items, PricingItems, ProductItems
  <2> QED BY <1>2, <2>1, <2>2 DEF Stock
<1>5. Fact(s, d) => Same(d, e)
  BY <1>1 DEF Fact, Same
<1>6. Ready(s, d) => Fact(s, e)
  BY <1>1 DEF Fact
<1> QED BY <1>2, <1>4, <1>5, <1>6 DEF Works

\* The item that such a script sets.
Own(s) ==
  CASE s = "v10" -> "soft_touch_price" [] s = "v11" -> "silk"
    [] s = "v18" -> "stripe_secret_key" [] s = "v21" -> "secretest"
    [] s = "v23" -> "shop_address" [] s = "v25_artwork" -> "artwork"
    [] s = "v26" -> "artwork" [] s = "v27" -> "order_status"
    [] s = "v33" -> "notifications_enabled" [] s = "v34_flip" -> "vinyl_manual"
    [] s = "v34_rules" -> "soft_touch_keys" [] s = "v37_flags" -> "vinyl_manual"
    [] s = "v38" -> "vinyl_dims" [] s = "v42" -> "ncr"

\* What it becomes, of the values v.
Turned(s, v) ==
  LET swap(x, from, to) == IF v[x] = from THEN to ELSE v[x]
      measured == v["vinyl_strategy"] \in {"per_sqm", "per_sheet"}
  IN  CASE s = "v10" -> IF v["soft_touch_price"] = Missing THEN Missing ELSE "seed"
        [] s = "v11" -> swap("silk", "no", "yes")
        [] s = "v18" -> Missing
        [] s \in {"v21", "v23", "v27"} -> "seed"
        [] s = "v25_artwork" -> swap("artwork", "single", "text")
        [] s = "v26" -> swap("artwork", "text", "list")
        [] s = "v33" -> "true"
        [] s = "v34_flip" ->
             IF measured THEN v["vinyl_manual"] ELSE swap("vinyl_manual", "no", "yes")
        [] s = "v34_rules" -> swap("soft_touch_keys", "none", "business_cards")
        [] s = "v37_flags" ->
             IF measured THEN swap("vinyl_manual", "yes", "no") ELSE v["vinyl_manual"]
        [] s = "v38" -> swap("vinyl_dims", "no", "yes")
        [] s = "v42" -> swap("ncr", "pads", "books")

\* What is settled stays so when a setter turns its item.
LEMMA TurnedSettled ==
  ASSUME NEW d, NEW e, NEW s \in SetterNames, SparedBut(d, e, Own(s)),
         e.val[Own(s)] = Turned(s, d.val), NEW t, Settles(t, d.val)
  PROVE  Settles(t, e.val)
<1>1. CASE s = "v10"
  BY <1>1 DEF SparedBut, Own, Turned, Settles, Missing
<1>2. CASE s = "v11"
  BY <1>2 DEF SparedBut, Own, Turned, Settles, Missing
<1>3. CASE s = "v18"
  BY <1>3 DEF SparedBut, Own, Turned, Settles, Missing
<1>4. CASE s = "v21"
  BY <1>4 DEF SparedBut, Own, Turned, Settles, Missing
<1>5. CASE s = "v23"
  BY <1>5 DEF SparedBut, Own, Turned, Settles, Missing
<1>6. CASE s = "v25_artwork"
  BY <1>6 DEF SparedBut, Own, Turned, Settles, Missing
<1>7. CASE s = "v26"
  BY <1>7 DEF SparedBut, Own, Turned, Settles, Missing
<1>8. CASE s = "v27"
  BY <1>8 DEF SparedBut, Own, Turned, Settles, Missing
<1>9. CASE s = "v33"
  BY <1>9 DEF SparedBut, Own, Turned, Settles, Missing
<1>10. CASE s = "v34_flip"
  BY <1>10 DEF SparedBut, Own, Turned, Settles, Missing
<1>11. CASE s = "v34_rules"
  BY <1>11 DEF SparedBut, Own, Turned, Settles, Missing
<1>12. CASE s = "v37_flags"
  BY <1>12 DEF SparedBut, Own, Turned, Settles, Missing
<1>13. CASE s = "v38"
  BY <1>13 DEF SparedBut, Own, Turned, Settles, Missing
<1>14. CASE s = "v42"
  BY <1>14 DEF SparedBut, Own, Turned, Settles, Missing
<1> QED BY <1>1, <1>2, <1>3, <1>4, <1>5, <1>6, <1>7, <1>8, <1>9, <1>10, <1>11, <1>12,
           <1>13, <1>14 DEF SetterNames

\* It finds it settled the next time.
LEMMA TurnedAlready ==
  ASSUME NEW v, NEW s \in SetterNames, Settles(s, v)
  PROVE  Turned(s, v) = v[Own(s)]
<1>1. CASE s \in {"v10", "v11", "v18", "v21", "v23"}
  BY <1>1 DEF Own, Turned, Settles, Missing
<1>2. CASE s \in {"v25_artwork", "v26", "v27", "v33"}
  BY <1>2 DEF Own, Turned, Settles, Missing
<1>3. CASE s \in {"v34_flip", "v34_rules", "v37_flags"}
  BY <1>3 DEF Own, Turned, Settles, Missing
<1>4. CASE s \in {"v38", "v42"}
  BY <1>4 DEF Own, Turned, Settles, Missing
<1> QED BY <1>1, <1>2, <1>3, <1>4 DEF SetterNames

\* A setter does its work: it settles its item, and finds it settled.
LEMMA SettersWork ==
  ASSUME NEW d, NEW e, NEW s \in SetterNames, Sets(d, e, Own(s), Brings(s)),
         e.val[Own(s)] = Turned(s, d.val), Lays(s) \subseteq e.cols
  PROVE  Works(s, d, e)
<1> DEFINE x == Own(s)
<1>1. x \in Items \ Restless /\ x # "catalogue"
  BY Settled DEF Own, SetterNames
<1>2. SparedBut(d, e, x)
  BY SetsSpared
<1>3. \A t : Settles(t, d.val) => Settles(t, e.val)
  BY <1>2, TurnedSettled
<1>4. x # "stripe_secret_key" => (d.val[x] # Missing => e.val[x] # Missing)
  BY DEF Own, Turned, SetterNames, Missing
<1>5. Settles(s, d.val) => e.val[x] = d.val[x]
  BY TurnedAlready
<1>6. Ready(s, d) => Settles(s, e.val)
  BY <1>2 DEF SparedBut, Own, Turned, SetterNames, Settles, Ready, Missing
<1>7. Stock(d) => /\ e.val["artwork"] \in {Missing, "single", "text", "list"}
                  /\ e.val["vinyl_manual"] \in {Missing, "yes", "no"}
  BY <1>2 DEF SparedBut, Own, Turned, SetterNames, Stock, Missing
<1> HIDE DEF x
<1>8. Sets(d, e, x, Brings(s))
  BY DEF x
<1> QED BY <1>1, <1>3, <1>4, <1>5, <1>6, <1>7, <1>8, SetsWork

\* One item set, over columns added.
LEMMA SetsPut ==
  ASSUME NEW d \in Database, NEW c \in Database, c.val = d.val,
         NEW x \in Items \ Restless, NEW v \in Words
  PROVE  /\ Put(c, x, v) \in Database /\ Put(c, x, v).cols = c.cols
         /\ Put(c, x, v).val[x] = v /\ Sets(d, Put(c, x, v), x, {})
<1> DEFINE e == Put(c, x, v)
<1>1. e \in Database /\ e.cols = c.cols /\ \A y \in Items :
        e.val[y] = IF y = x THEN v ELSE d.val[y]
  BY PutValues
<1>2. Restless \subseteq Items
  BY Named DEF Restless
<1> HIDE DEF e
<1>3. Sets(d, e, x, {})
  BY <1>1, <1>2 DEF Sets
<1> QED BY <1>1, <1>3 DEF e

\* The same when it is exchanged.
LEMMA SetsSwap ==
  ASSUME NEW d \in Database, NEW c \in Database, c.val = d.val,
         NEW x \in Items \ Restless, NEW S, NEW v \in Words
  PROVE  /\ Swap(c, x, S, v) \in Database /\ Swap(c, x, S, v).cols = c.cols
         /\ Swap(c, x, S, v).val[x] = IF d.val[x] \in S THEN v ELSE d.val[x]
         /\ Sets(d, Swap(c, x, S, v), x, {})
<1>1. Sets(d, c, x, {})
  <2>1. Restless \subseteq Items
    BY Named DEF Restless
  <2> QED BY <2>1 DEF Sets
<1>2. CASE d.val[x] \in S
  BY <1>2, SetsPut DEF Swap
<1>3. CASE d.val[x] \notin S
  BY <1>1, <1>3 DEF Swap
<1> QED BY <1>2, <1>3

\* Then one is seeded.
LEMMA SetsSeed ==
  ASSUME NEW d \in Database, NEW b \in Database, NEW x \in Items, Sets(d, b, x, {}),
         NEW z \in Items \ Restless, z # x, NEW v \in Words, v # Missing
  PROVE  /\ Seed(b, z, v) \in Database /\ Seed(b, z, v).cols = b.cols
         /\ Seed(b, z, v).val[x] = b.val[x] /\ Sets(d, Seed(b, z, v), x, {z})
<1> DEFINE e == Seed(b, z, v)
<1>1. e \in Database /\ e.cols = b.cols /\ \A y \in Items :
        e.val[y] = IF y = z /\ b.val[y] = Missing THEN v ELSE b.val[y]
  BY SeedValues
<1>2. Restless \subseteq Items
  BY Named DEF Restless
<1>3. /\ \A y \in Items : y \notin Restless /\ y # x => b.val[y] = d.val[y]
      /\ \A y \in Restless : d.val[y] # Missing => b.val[y] # Missing
  BY DEF Sets
<1> HIDE DEF e
<1>4. Sets(d, e, x, {z})
  BY <1>1, <1>2, <1>3 DEF Sets
<1>5. e.val[x] = b.val[x]
  BY <1>1
<1> QED BY <1>1, <1>4, <1>5 DEF e

\* SeedAll of one item.
LEMMA SetsSeeds ==
  ASSUME NEW d \in Database, NEW b \in Database, NEW x \in Items, Sets(d, b, x, {}),
         NEW z \in Items \ Restless, z # x
  PROVE  /\ SeedAll(b, {z}) \in Database /\ SeedAll(b, {z}).cols = b.cols
         /\ SeedAll(b, {z}).val[x] = b.val[x] /\ Sets(d, SeedAll(b, {z}), x, {z})
<1> DEFINE e == SeedAll(b, {z})
<1>1. e \in Database /\ e.cols = b.cols /\ \A y \in Items :
        e.val[y] = IF y \in {z} /\ b.val[y] = Missing THEN "seed" ELSE b.val[y]
  BY SeedAllValues
<1>2. Restless \subseteq Items
  BY Named DEF Restless
<1>3. /\ \A y \in Items : y \notin Restless /\ y # x => b.val[y] = d.val[y]
      /\ \A y \in Restless : d.val[y] # Missing => b.val[y] # Missing
  BY DEF Sets
<1>6. "seed" # Missing
  BY DEF Missing
<1> HIDE DEF e
<1>4. Sets(d, e, x, {z})
  BY <1>1, <1>2, <1>3, <1>6 DEF Sets
<1>5. e.val[x] = b.val[x]
  BY <1>1
<1> QED BY <1>1, <1>4, <1>5 DEF e

\* Then the rules are written.
LEMMA SetsRules ==
  ASSUME NEW d \in Database, NEW b \in Database, NEW x \in Items \ Restless,
         NEW X \in SUBSET (Items \ Restless), Sets(d, b, x, X),
         NEW v \in Words, v # Missing
  PROVE  /\ Rules(b, v).cols = b.cols /\ Rules(b, v).val[x] = b.val[x]
         /\ Rules(b, v).val["business_rules"] = v
         /\ Sets(d, Rules(b, v), x, X)
<1> DEFINE z == "business_rules"
<1>1. z \in Items /\ z \in Restless /\ Restless \subseteq Items
  BY Named DEF Restless
<1>2. Rules(b, v) = Put(b, z, v)
  BY DEF Rules
<1> HIDE DEF z
<1> DEFINE e == Rules(b, v)
<1>3. e.cols = b.cols /\ \A y \in Items : e.val[y] = IF y = z THEN v ELSE b.val[y]
  BY <1>1, <1>2, PutValues
<1> HIDE DEF e
<1>4. Sets(d, e, x, X)
  BY <1>1, <1>3 DEF Sets
<1>5. e.val[x] = b.val[x] /\ e.val[z] = v
  BY <1>1, <1>3
<1> QED BY <1>3, <1>4, <1>5 DEF e, z

\* What a setter brings, the columns it adds and the item it sets.
LEMMA SettersBring ==
  /\ \A s \in {"v10", "v11", "v18", "v21", "v25_artwork", "v26", "v27", "v34_flip",
               "v37_flags", "v42"} : Brings(s) = {}
  /\ \A s \in {"v10", "v11", "v18", "v21", "v26", "v27", "v34_flip", "v34_rules",
               "v37_flags", "v38", "v42"} : Lays(s) = {}
  /\ Brings("v23") = {"shipping"} /\ Brings("v33") = {"notify_to"}
  /\ Brings("v34_rules") = {"poa_keywords"} /\ Brings("v38") = {"posters"}
  /\ Lays("v23") = {"v23"} /\ Lays("v25_artwork") = {"v25"} /\ Lays("v33") = {"v33"}
BY DEF Brings, Lays

\* The setters that set one item and do no more.
LEMMA OneWorks ==
  ASSUME NEW d \in Database
  PROVE  /\ Works("v11", d, V11(d)) /\ Works("v18", d, V18(d))
         /\ Works("v21", d, V21(d)) /\ Works("v26", d, V26(d))
         /\ Works("v42", d, V42(d)) /\ Works("v37_flags", d, V37Flags(d))
         /\ Works("v34_flip", d, V34Flip(d))
         /\ Works("v25_artwork", d, V25Artwork(d))
<1>1. ASSUME NEW s \in SetterNames, Brings(s) = {}, NEW c \in Database, c.val = d.val,
             NEW x \in Items \ Restless, x = Own(s), Lays(s) \subseteq c.cols
      PROVE  /\ \A S : \A v \in Words :
                  Turned(s, d.val) = (IF d.val[x] \in S THEN v ELSE d.val[x])
                  => Works(s, d, Swap(c, x, S, v))
             /\ \A v \in Words : Turned(s, d.val) = v => Works(s, d, Put(c, x, v))
  <2>1. ASSUME NEW S, NEW v \in Words,
               Turned(s, d.val) = (IF d.val[x] \in S THEN v ELSE d.val[x])
        PROVE  Works(s, d, Swap(c, x, S, v))
    <3> DEFINE e == Swap(c, x, S, v)
    <3>1. e.cols = c.cols /\ e.val[x] = Turned(s, d.val) /\ Sets(d, e, x, {})
      BY <1>1, <2>1, SetsSwap
    <3> HIDE DEF e
    <3>2. Works(s, d, e)
      BY <1>1, <3>1, SettersWork
    <3> QED BY <3>2 DEF e
  <2>2. ASSUME NEW v \in Words, Turned(s, d.val) = v PROVE Works(s, d, Put(c, x, v))
    <3> DEFINE e == Put(c, x, v)
    <3>1. e.cols = c.cols /\ e.val[x] = Turned(s, d.val) /\ Sets(d, e, x, {})
      BY <1>1, <2>2, SetsPut
    <3> HIDE DEF e
    <3>2. Works(s, d, e)
      BY <1>1, <3>1, SettersWork
    <3> QED BY <3>2 DEF e
  <2> QED BY <2>1, <2>2
<1>2. /\ "yes" \in Words /\ "no" \in Words /\ "seed" \in Words /\ "text" \in Words
      /\ "list" \in Words /\ "books" \in Words /\ Missing \in Words
  BY WordsAre
<1>3. Works("v11", d, V11(d))
  <2> DEFINE s == "v11"
             x == "silk"
  <2>1. /\ s \in SetterNames /\ Brings(s) = {} /\ x \in Items \ Restless /\ x = Own(s)
        /\ Lays(s) \subseteq d.cols
    BY SettersBring, Settled DEF SetterNames, Own
  <2>2. Turned(s, d.val) = (IF d.val[x] \in {"no"} THEN "yes" ELSE d.val[x])
    BY DEF Turned
  <2>3. V11(d) = Swap(d, x, {"no"}, "yes")
    BY DEF V11
  <2> HIDE DEF s, x
  <2>4. Works(s, d, V11(d))
    BY <1>1, <1>2, <2>1, <2>2, <2>3
  <2> QED BY <2>4 DEF s
<1>4. Works("v18", d, V18(d))
  <2> DEFINE s == "v18"
             x == "stripe_secret_key"
  <2>1. /\ s \in SetterNames /\ Brings(s) = {} /\ x \in Items \ Restless /\ x = Own(s)
        /\ Lays(s) \subseteq d.cols
    BY SettersBring, Settled DEF SetterNames, Own
  <2>2. Turned(s, d.val) = Missing
    BY DEF Turned
  <2>3. V18(d) = Put(d, x, Missing)
    BY DEF V18
  <2> HIDE DEF s, x
  <2>4. Works(s, d, V18(d))
    BY <1>1, <1>2, <2>1, <2>2, <2>3
  <2> QED BY <2>4 DEF s
<1>5. Works("v21", d, V21(d))
  <2> DEFINE s == "v21"
             x == "secretest"
  <2>1. /\ s \in SetterNames /\ Brings(s) = {} /\ x \in Items \ Restless /\ x = Own(s)
        /\ Lays(s) \subseteq d.cols
    BY SettersBring, Settled DEF SetterNames, Own
  <2>2. Turned(s, d.val) = "seed"
    BY DEF Turned
  <2>3. V21(d) = Put(d, x, "seed")
    BY DEF V21
  <2> HIDE DEF s, x
  <2>4. Works(s, d, V21(d))
    BY <1>1, <1>2, <2>1, <2>2, <2>3
  <2> QED BY <2>4 DEF s
<1>6. Works("v26", d, V26(d))
  <2> DEFINE s == "v26"
             x == "artwork"
  <2>1. /\ s \in SetterNames /\ Brings(s) = {} /\ x \in Items \ Restless /\ x = Own(s)
        /\ Lays(s) \subseteq d.cols
    BY SettersBring, Settled DEF SetterNames, Own
  <2>2. Turned(s, d.val) = (IF d.val[x] \in {"text"} THEN "list" ELSE d.val[x])
    BY DEF Turned
  <2>3. V26(d) = Swap(d, x, {"text"}, "list")
    BY DEF V26
  <2> HIDE DEF s, x
  <2>4. Works(s, d, V26(d))
    BY <1>1, <1>2, <2>1, <2>2, <2>3
  <2> QED BY <2>4 DEF s
<1>7. Works("v42", d, V42(d))
  <2> DEFINE s == "v42"
             x == "ncr"
  <2>1. /\ s \in SetterNames /\ Brings(s) = {} /\ x \in Items \ Restless /\ x = Own(s)
        /\ Lays(s) \subseteq d.cols
    BY SettersBring, Settled DEF SetterNames, Own
  <2>2. Turned(s, d.val) = (IF d.val[x] \in {"pads"} THEN "books" ELSE d.val[x])
    BY DEF Turned
  <2>3. V42(d) = Swap(d, x, {"pads"}, "books")
    BY DEF V42
  <2> HIDE DEF s, x
  <2>4. Works(s, d, V42(d))
    BY <1>1, <1>2, <2>1, <2>2, <2>3
  <2> QED BY <2>4 DEF s
<1>8. Works("v37_flags", d, V37Flags(d))
  <2> DEFINE s == "v37_flags"
             x == "vinyl_manual"
             S == IF d.val["vinyl_strategy"] \in {"per_sqm", "per_sheet"} THEN {"yes"} ELSE {}
  <2>1. /\ s \in SetterNames /\ Brings(s) = {} /\ x \in Items \ Restless /\ x = Own(s)
        /\ Lays(s) \subseteq d.cols
    BY SettersBring, Settled DEF SetterNames, Own
  <2>2. Turned(s, d.val) = (IF d.val[x] \in S THEN "no" ELSE d.val[x])
    BY DEF Turned
  <2>3. V37Flags(d) = Swap(d, x, S, "no")
    BY DEF V37Flags, Swap
  <2> HIDE DEF s, x, S
  <2>4. Works(s, d, V37Flags(d))
    BY <1>1, <1>2, <2>1, <2>2, <2>3
  <2> QED BY <2>4 DEF s
<1>9. Works("v34_flip", d, V34Flip(d))
  <2> DEFINE s == "v34_flip"
             x == "vinyl_manual"
             c == AddCols(d, {"v34"})
             S == IF d.val["vinyl_strategy"] \in {"per_sqm", "per_sheet"} THEN {} ELSE {"no"}
  <2>1. /\ s \in SetterNames /\ Brings(s) = {} /\ x \in Items \ Restless /\ x = Own(s)
        /\ Lays(s) \subseteq c.cols
    BY SettersBring, Settled DEF SetterNames, Own
  <2>2. Turned(s, d.val) = (IF d.val[x] \in S THEN "yes" ELSE d.val[x])
    BY DEF Turned
  <2>3. V34Flip(d) = Swap(c, x, S, "yes")
    BY DEF V34Flip, Swap
  <2>4. c \in Database /\ c.val = d.val
    BY ColsValues DEF AllCols
  <2> HIDE DEF s, x, S, c
  <2>5. Works(s, d, V34Flip(d))
    BY <1>1, <1>2, <2>1, <2>2, <2>3, <2>4
  <2> QED BY <2>5 DEF s
<1>10. Works("v25_artwork", d, V25Artwork(d))
  <2> DEFINE s == "v25_artwork"
             x == "artwork"
             c == AddCols(d, {"v25"})
  <2>4. c \in Database /\ c.val = d.val /\ "v25" \in c.cols
    BY ColsValues DEF AllCols
  <2>1. /\ s \in SetterNames /\ Brings(s) = {} /\ x \in Items \ Restless /\ x = Own(s)
        /\ Lays(s) \subseteq c.cols
    BY <2>4, SettersBring, Settled DEF SetterNames, Own
  <2>2. Turned(s, d.val) = (IF d.val[x] \in {"single"} THEN "text" ELSE d.val[x])
    BY DEF Turned
  <2>3. V25Artwork(d) = Swap(c, x, {"single"}, "text")
    BY DEF V25Artwork
  <2> HIDE DEF s, x, c
  <2>5. Works(s, d, V25Artwork(d))
    BY <1>1, <1>2, <2>1, <2>2, <2>3, <2>4
  <2> QED BY <2>5 DEF s
<1> QED BY <1>3, <1>4, <1>5, <1>6, <1>7, <1>8, <1>9, <1>10

\* The setters that bring something too.
LEMMA BothWork ==
  ASSUME NEW d \in Database
  PROVE  /\ Works("v23", d, V23(d)) /\ Works("v33", d, V33(d))
         /\ Works("v27", d, V27(d)) /\ Works("v38", d, V38(d))
<1>1. /\ "shipping" \in Items \ Restless /\ "notify_to" \in Items \ Restless
      /\ "posters" \in Items \ Restless
  BY DEF Items, PricingItems, ProductItems, Settings, Restless
<1>2. /\ "seed" \in Words /\ "true" \in Words /\ "v23" \in Words /\ "v27" \in Words
      /\ "v33" \in Words /\ "v38" \in Words /\ "yes" \in Words /\ "manual" \in Words
  BY WordsAre
<1>3. /\ "v23" # Missing /\ "v27" # Missing /\ "v33" # Missing /\ "v38" # Missing
      /\ "manual" # Missing
  BY DEF Missing
<1>4. Works("v23", d, V23(d))
  <2> DEFINE s == "v23"
             x == "shop_address"
             z == "shipping"
             c == AddCols(d, {"v23"})
             a == Put(c, x, "seed")
             b == SeedAll(a, {z})
             e == Rules(b, "v23")
  <2>1. c \in Database /\ c.val = d.val /\ "v23" \in c.cols
    BY ColsValues DEF AllCols
  <2>2. /\ s \in SetterNames /\ Brings(s) = {z} /\ x \in Items \ Restless /\ x = Own(s)
        /\ Lays(s) \subseteq c.cols /\ z # x /\ Turned(s, d.val) = "seed"
    BY <2>1, SettersBring, Settled DEF SetterNames, Own, Turned
  <2>3. V23(d) = e
    BY DEF V23
  <2>4. z \in Items \ Restless
    BY <1>1
  <2> HIDE DEF s, x, z, c
  <2>5. a \in Database /\ a.cols = c.cols /\ a.val[x] = "seed" /\ Sets(d, a, x, {})
    <3>1. c \in Database /\ c.val = d.val /\ x \in Items \ Restless /\ "seed" \in Words
      BY <1>2, <2>1, <2>2
    <3> HIDE DEF a
    <3>2. /\ Put(c, x, "seed") \in Database /\ Put(c, x, "seed").cols = c.cols
          /\ Put(c, x, "seed").val[x] = "seed" /\ Sets(d, Put(c, x, "seed"), x, {})
      BY <3>1, SetsPut
    <3> QED BY <3>2 DEF a
  <2> HIDE DEF a
  <2>6. b \in Database /\ b.cols = c.cols /\ b.val[x] = "seed" /\ Sets(d, b, x, {z})
    BY <2>2, <2>4, <2>5, SetsSeeds
  <2> HIDE DEF b
  <2>7. e.cols = c.cols /\ e.val[x] = "seed" /\ Sets(d, e, x, {z})
    BY <1>2, <1>3, <2>2, <2>4, <2>6, SetsRules
  <2> HIDE DEF e
  <2>8. Works(s, d, e)
    BY <2>2, <2>7, SettersWork
  <2> QED BY <2>3, <2>8 DEF s
<1>5. Works("v33", d, V33(d))
  <2> DEFINE s == "v33"
             x == "notifications_enabled"
             z == "notify_to"
             c == AddCols(d, {"v33"})
             a == Put(c, x, "true")
             b == SeedAll(a, {z})
             e == Rules(b, "v33")
  <2>1. c \in Database /\ c.val = d.val /\ "v33" \in c.cols
    BY ColsValues DEF AllCols
  <2>2. /\ s \in SetterNames /\ Brings(s) = {z} /\ x \in Items \ Restless /\ x = Own(s)
        /\ Lays(s) \subseteq c.cols /\ z # x /\ Turned(s, d.val) = "true"
    BY <2>1, SettersBring, Settled DEF SetterNames, Own, Turned
  <2>3. V33(d) = e
    BY DEF V33
  <2>4. z \in Items \ Restless
    BY <1>1
  <2> HIDE DEF s, x, z, c
  <2>5. a \in Database /\ a.cols = c.cols /\ a.val[x] = "true" /\ Sets(d, a, x, {})
    <3>1. c \in Database /\ c.val = d.val /\ x \in Items \ Restless /\ "true" \in Words
      BY <1>2, <2>1, <2>2
    <3> HIDE DEF a
    <3>2. /\ Put(c, x, "true") \in Database /\ Put(c, x, "true").cols = c.cols
          /\ Put(c, x, "true").val[x] = "true" /\ Sets(d, Put(c, x, "true"), x, {})
      BY <3>1, SetsPut
    <3> QED BY <3>2 DEF a
  <2> HIDE DEF a
  <2>6. b \in Database /\ b.cols = c.cols /\ b.val[x] = "true" /\ Sets(d, b, x, {z})
    BY <2>2, <2>4, <2>5, SetsSeeds
  <2> HIDE DEF b
  <2>7. e.cols = c.cols /\ e.val[x] = "true" /\ Sets(d, e, x, {z})
    BY <1>2, <1>3, <2>2, <2>4, <2>6, SetsRules
  <2> HIDE DEF e
  <2>8. Works(s, d, e)
    BY <2>2, <2>7, SettersWork
  <2> QED BY <2>3, <2>8 DEF s
<1>6. Works("v27", d, V27(d))
  <2> DEFINE s == "v27"
             x == "order_status"
             a == Put(d, x, "seed")
             e == Rules(a, "v27")
  <2>2. /\ s \in SetterNames /\ Brings(s) = {} /\ x \in Items \ Restless /\ x = Own(s)
        /\ Lays(s) = {} /\ Turned(s, d.val) = "seed"
    BY SettersBring, Settled DEF SetterNames, Own, Turned
  <2>3. V27(d) = e
    BY DEF V27
  <2> HIDE DEF s, x
  <2>5. a \in Database /\ a.val[x] = "seed" /\ Sets(d, a, x, {})
    BY <1>2, <2>2, SetsPut
  <2> HIDE DEF a
  <2>7. e.val[x] = "seed" /\ Sets(d, e, x, {})
    BY <1>2, <1>3, <2>2, <2>5, SetsRules
  <2> HIDE DEF e
  <2>8. Works(s, d, e)
    BY <2>2, <2>7, SettersWork
  <2> QED BY <2>3, <2>8 DEF s
<1>7. Works("v38", d, V38(d))
  <2> DEFINE s == "v38"
             x == "vinyl_dims"
             z == "posters"
             c == AddCols(d, {"v38"})
             a == Swap(c, x, {"no"}, "yes")
             b == Seed(a, z, "manual")
             e == Rules(b, "v38")
  <2>1. c \in Database /\ c.val = d.val
    BY ColsValues DEF AllCols
  <2>2. /\ s \in SetterNames /\ Brings(s) = {z} /\ x \in Items \ Restless /\ x = Own(s)
        /\ Lays(s) = {} /\ z # x
        /\ Turned(s, d.val) = (IF d.val[x] \in {"no"} THEN "yes" ELSE d.val[x])
    BY <2>1, SettersBring, Settled DEF SetterNames, Own, Turned
  <2>3. V38(d) = e
    BY DEF V38, V38Posters, V38Vinyl
  <2>4. z \in Items \ Restless
    BY <1>1
  <2> HIDE DEF s, x, z, c
  <2>5. a \in Database /\ a.val[x] = Turned(s, d.val) /\ Sets(d, a, x, {})
    BY <1>2, <2>1, <2>2, SetsSwap
  <2> HIDE DEF a
  <2>6. b \in Database /\ b.val[x] = Turned(s, d.val) /\ Sets(d, b, x, {z})
    BY <1>2, <1>3, <2>2, <2>4, <2>5, SetsSeed
  <2> HIDE DEF b
  <2>7. e.val[x] = Turned(s, d.val) /\ Sets(d, e, x, {z})
    BY <1>2, <1>3, <2>2, <2>4, <2>6, SetsRules
  <2> HIDE DEF e
  <2>8. Works(s, d, e)
    BY <2>2, <2>7, SettersWork
  <2> QED BY <2>3, <2>8 DEF s
<1> QED BY <1>4, <1>5, <1>6, <1>7

\* v10 and v34_rules write the category of soft touch, too.
LEMMA SoftTouchWorks ==
  ASSUME NEW d \in Database
  PROVE  Works("v10", d, V10(d)) /\ Works("v34_rules", d, V34Rules(d))
<1>1. /\ "soft_touch_category" \in Items /\ "soft_touch_category" \in Restless
      /\ Restless \subseteq Items /\ "poa_keywords" \in Items \ Restless
  BY Named DEF Restless
<1>2. /\ "seed" \in Words /\ "small_format" \in Words /\ "business_cards" \in Words
      /\ "none" \in Words /\ "v34" \in Words
  BY WordsAre
<1>3. "v34" # Missing /\ "small_format" # Missing /\ "none" # Missing
  BY DEF Missing
<1>4. ASSUME NEW a \in Database, NEW x \in Items \ Restless, Sets(d, a, x, {}),
             NEW v \in Words, v # Missing
      PROVE  /\ Put(a, "soft_touch_category", v) \in Database
             /\ Put(a, "soft_touch_category", v).val[x] = a.val[x]
             /\ Sets(d, Put(a, "soft_touch_category", v), x, {})
  <2> DEFINE z == "soft_touch_category"
             e == Put(a, z, v)
  <2>1. z \in Items /\ z \in Restless /\ Restless \subseteq Items
    BY <1>1
  <2> HIDE DEF z
  <2>2. e \in Database /\ \A y \in Items : e.val[y] = IF y = z THEN v ELSE a.val[y]
    BY <2>1, PutValues
  <2> HIDE DEF e
  <2>3. Sets(d, e, x, {}) /\ e.val[x] = a.val[x]
    BY <1>4, <2>1, <2>2 DEF Sets
  <2> QED BY <2>2, <2>3 DEF e, z
<1>5. ASSUME NEW x \in Items PROVE Sets(d, d, x, {})
  BY <1>1 DEF Sets
<1>6. Works("v10", d, V10(d))
  <2> DEFINE s == "v10"
             x == "soft_touch_price"
  <2>1. /\ s \in SetterNames /\ Brings(s) = {} /\ x \in Items \ Restless /\ x = Own(s)
        /\ Lays(s) = {}
        /\ Turned(s, d.val) = (IF d.val[x] = Missing THEN Missing ELSE "seed")
    BY SettersBring, Settled DEF SetterNames, Own, Turned
  <2> DEFINE c == d.val[x] # Missing /\ (d.val[x] # "seed"
                    \/ d.val["soft_touch_category"] # "small_format")
             a == Put(d, x, "seed")
             e == Put(a, "soft_touch_category", "small_format")
  <2>2. V10(d) = IF c THEN e ELSE d
    BY DEF V10
  <2>3. CASE c
    <3>1. d.val[x] # Missing
      BY <2>3
    <3> HIDE DEF s, x, c
    <3>2. a \in Database /\ a.val[x] = "seed" /\ Sets(d, a, x, {})
      BY <1>2, <2>1, SetsPut
    <3> HIDE DEF a
    <3>3. e.val[x] = "seed" /\ Sets(d, e, x, {})
      BY <1>2, <1>3, <1>4, <2>1, <3>2
    <3> HIDE DEF e
    <3>4. Works(s, d, e)
      BY <2>1, <3>1, <3>3, SettersWork
    <3>5. V10(d) = e
      BY <2>2, <2>3
    <3> QED BY <3>4, <3>5 DEF s
  <2>4. CASE ~c
    <3>1. d.val[x] = Missing \/ d.val[x] = "seed"
      BY <2>4
    <3> HIDE DEF s, x, c
    <3>2. Sets(d, d, x, {})
      BY <1>5, <2>1
    <3>3. Works(s, d, d)
      BY <2>1, <3>1, <3>2, SettersWork
    <3>4. V10(d) = d
      BY <2>2, <2>4
    <3> QED BY <3>3, <3>4 DEF s
  <2> QED BY <2>3, <2>4
<1>7. Works("v34_rules", d, V34Rules(d))
  <2> DEFINE s == "v34_rules"
             x == "soft_touch_keys"
             z == "poa_keywords"
             a == V34Scope(d)
             b == SeedAll(a, {z})
             e == Rules(b, "v34")
  <2>1. /\ s \in SetterNames /\ Brings(s) = {z} /\ x \in Items \ Restless /\ x = Own(s)
        /\ Lays(s) = {} /\ z # x
        /\ Turned(s, d.val) = (IF d.val[x] = "none" THEN "business_cards" ELSE d.val[x])
    BY SettersBring, Settled DEF SetterNames, Own, Turned
  <2>2. V34Rules(d) = e
    BY DEF V34Rules
  <2>3. z \in Items \ Restless
    BY <1>1
  <2>4. a = IF d.val[x] = "none"
            THEN Put(Put(d, x, "business_cards"), "soft_touch_category", "none") ELSE d
    BY DEF V34Scope
  <2> HIDE DEF s, x, z, a
  <2>5. a \in Database /\ a.val[x] = Turned(s, d.val) /\ Sets(d, a, x, {})
    <3>1. CASE d.val[x] = "none"
      <4> DEFINE p == Put(d, x, "business_cards")
      <4>1. p \in Database /\ p.val[x] = "business_cards" /\ Sets(d, p, x, {})
        BY <1>2, <2>1, SetsPut
      <4>2. a = Put(p, "soft_touch_category", "none")
        BY <2>4, <3>1
      <4> HIDE DEF p
      <4>3. a \in Database /\ a.val[x] = "business_cards" /\ Sets(d, a, x, {})
        BY <1>2, <1>3, <1>4, <2>1, <4>1, <4>2
      <4> QED BY <2>1, <3>1, <4>3
    <3>2. CASE d.val[x] # "none"
      <4>1. a = d
        BY <2>4, <3>2
      <4> QED BY <1>5, <2>1, <3>2, <4>1
    <3> QED BY <3>1, <3>2
  <2>6. b \in Database /\ b.val[x] = Turned(s, d.val) /\ Sets(d, b, x, {z})
    BY <2>1, <2>3, <2>5, SetsSeeds
  <2> HIDE DEF b
  <2>7. e.val[x] = Turned(s, d.val) /\ Sets(d, e, x, {z})
    BY <1>2, <1>3, <2>1, <2>3, <2>6, SetsRules
  <2> HIDE DEF e
  <2>8. Works(s, d, e)
    BY <2>1, <2>7, SettersWork
  <2> QED BY <2>2, <2>8 DEF s
<1> QED BY <1>6, <1>7

\* No text is a text, and no strategy.
LEMMA NoTextIs ==
  /\ NoText \in Words /\ NoText # Missing /\ NoText \notin Moved
  /\ NoText # "bulk_break" /\ NoText # "per_sqm" /\ NoText # "per_sheet"
<1>1. NoText \in Words
  BY WordsAre DEF NoText
<1>2. NoText # Missing
  BY DEF NoText, Missing
<1>3. NoText \notin Moved
  BY DEF NoText, Moved, Missing
<1>4. NoText # "bulk_break" /\ NoText # "per_sqm" /\ NoText # "per_sheet"
  BY DEF NoText
<1> QED BY <1>1, <1>2, <1>3, <1>4

\* v2 gives a formula to the products that have none.
LEMMA V2Works ==
  ASSUME NEW d \in Database
  PROVE  Works("v2", d, V2(d))
<1> DEFINE c == AddCols(d, {"v2"})
           a == Swap(c, "vinyl_strategy", {NoText}, "bulk_break")
           b == Swap(a, "board_strategy", {NoText}, "bulk_break")
           e == Seed(b, "taxes", "seed")
<1>1. V2(d) = e
  BY DEF V2, V2Taxes, V2Strategies, V2Columns, NoText
<1>2. c \in Database /\ c.val = d.val /\ "v2" \in c.cols
  BY ColsValues DEF AllCols
<1>3. /\ "vinyl_strategy" \in Items /\ "board_strategy" \in Items /\ "taxes" \in Items
      /\ "bulk_break" \in Words /\ "seed" \in Words
  BY Named, WordsAre
<1> HIDE DEF c
<1>4. a \in Database /\ a.cols = c.cols /\ \A y \in Items :
        a.val[y] = IF y = "vinyl_strategy" /\ c.val[y] \in {NoText} THEN "bulk_break" ELSE c.val[y]
  BY <1>2, <1>3, SwapValues
<1> HIDE DEF a
<1>5. b \in Database /\ b.cols = c.cols /\ \A y \in Items :
        b.val[y] = IF y = "board_strategy" /\ a.val[y] \in {NoText} THEN "bulk_break" ELSE a.val[y]
  BY <1>3, <1>4, SwapValues
<1> HIDE DEF b
<1>6. e.cols = c.cols /\ \A y \in Items :
        e.val[y] = IF y = "taxes" /\ b.val[y] = Missing THEN "seed" ELSE b.val[y]
  BY <1>3, <1>5, SeedValues
<1> HIDE DEF e
<1>7. /\ \A y \in Items : y \notin {"vinyl_strategy", "board_strategy", "taxes"} =>
           e.val[y] = d.val[y]
      /\ e.val["vinyl_strategy"] = IF d.val["vinyl_strategy"] = NoText
                                   THEN "bulk_break" ELSE d.val["vinyl_strategy"]
      /\ e.val["board_strategy"] = IF d.val["board_strategy"] = NoText
                                   THEN "bulk_break" ELSE d.val["board_strategy"]
      /\ e.val["taxes"] = IF d.val["taxes"] = Missing THEN "seed" ELSE d.val["taxes"]
  BY <1>2, <1>3, <1>4, <1>5, <1>6
<1>8. "seed" # Missing /\ "bulk_break" # Missing
  BY DEF Missing
<1>9. \A y \in Items \ {"stripe_secret_key"} : d.val[y] # Missing => e.val[y] # Missing
  BY <1>7, <1>8
<1>10. ASSUME NEW t, Settles(t, d.val) PROVE Settles(t, e.val)
  <2>1. \A y \in {"catalogue", "posters", "secretest", "soft_touch_price", "silk",
                  "stripe_secret_key", "shop_address", "artwork", "order_status",
                  "notifications_enabled", "vinyl_manual", "soft_touch_keys",
                  "missive_from_address", "last_known", "vinyl_dims", "ncr"} :
             e.val[y] = d.val[y]
    <3>1. \A y \in {"catalogue", "posters", "secretest", "soft_touch_price", "silk",
                    "stripe_secret_key", "shop_address", "artwork", "order_status",
                    "notifications_enabled", "vinyl_manual", "soft_touch_keys",
                    "missive_from_address", "last_known", "vinyl_dims", "ncr"} :
               y \in Items /\ y \notin {"vinyl_strategy", "board_strategy", "taxes"}
      BY Named
    <3> QED BY <1>7, <3>1
  <2>2. /\ d.val["vinyl_strategy"] # NoText => e.val["vinyl_strategy"] = d.val["vinyl_strategy"]
        /\ d.val["board_strategy"] # NoText => e.val["board_strategy"] = d.val["board_strategy"]
        /\ d.val["vinyl_strategy"] = NoText => e.val["vinyl_strategy"] = "bulk_break"
        /\ d.val["board_strategy"] = NoText => e.val["board_strategy"] = "bulk_break"
    BY <1>7
  <2>3. CASE t = "v2"
    BY <1>10, <2>2, <2>3 DEF Settles
  <2>4. CASE t = "v36_strategies"
    BY <1>10, <2>2, <2>4, NoTextIs DEF Settles
  <2>5. CASE t = "v34_flip"
    BY <1>10, <2>1, <2>2, <2>5, NoTextIs DEF Settles
  <2>6. CASE t = "v37_flags"
    BY <1>10, <2>1, <2>2, <2>6, NoTextIs DEF Settles
  <2>7. CASE t \notin {"v2", "v36_strategies", "v34_flip", "v37_flags"}
    BY <1>10, <2>1, <2>7 DEF Settles
  <2> QED BY <2>3, <2>4, <2>5, <2>6, <2>7
<1>11. Stock(d) => Stock(e)
  <2>1. e.val["catalogue"] = d.val["catalogue"] /\ e.val["artwork"] = d.val["artwork"]
        /\ e.val["vinyl_manual"] = d.val["vinyl_manual"]
    BY <1>7, Named
  <2>2. \A y \in Stocked : y \in Items \ {"stripe_secret_key"}
    BY DEF Stocked, Items, PricingItems, ProductItems
  <2> QED BY <1>9, <2>1, <2>2 DEF Stock
<1>12. Brings("v2") = {"taxes"} /\ Lays("v2") = {"v2"}
  BY DEF Brings, Lays
<1>13. \A v : Settles("v2", v) <=> v["vinyl_strategy"] # NoText /\ v["board_strategy"] # NoText
  BY DEF Settles
<1>14. Fact("v2", d) => Same(d, e)
  BY <1>7, <1>12, <1>13 DEF Fact, Same
<1>15. Fact("v2", e)
  BY <1>2, <1>6, <1>7, <1>8, <1>12, <1>13, NoTextIs DEF Fact
<1> QED BY <1>1, <1>9, <1>10, <1>11, <1>14, <1>15 DEF Works

\* v36 moves products to the formulas by area and by sheet.
LEMMA V36Works ==
  ASSUME NEW d \in Database
  PROVE  Works("v36_strategies", d, V36Strategies(d))
<1> DEFINE c == AddCols(d, {"v36"})
           a == V36Vinyl(c)
           e == V36Board(a)
<1>1. V36Strategies(d) = e
  BY DEF V36Strategies
<1>2. c \in Database /\ c.val = d.val
  BY ColsValues DEF AllCols
<1>3. /\ "vinyl_strategy" \in Items /\ "board_strategy" \in Items
      /\ "vinyl_manual" \in Items /\ "per_sqm" \in Words /\ "per_sheet" \in Words
      /\ "no" \in Words
  BY Named, WordsAre
<1> HIDE DEF c
<1>4. a \in Database /\ \A y \in Items :
        a.val[y] = IF d.val["vinyl_strategy"] \in Moved THEN d.val[y]
                   ELSE IF y = "vinyl_strategy" THEN "per_sqm"
                   ELSE IF y = "vinyl_manual" THEN "no" ELSE d.val[y]
  <2>1. CASE d.val["vinyl_strategy"] \in Moved
    <3>1. a = c
      BY <1>2, <2>1 DEF V36Vinyl
    <3> QED BY <1>2, <2>1, <3>1
  <2>2. CASE d.val["vinyl_strategy"] \notin Moved
    <3> DEFINE p == Put(c, "vinyl_strategy", "per_sqm")
    <3>1. a = Put(p, "vinyl_manual", "no")
      BY <1>2, <2>2 DEF V36Vinyl
    <3>5. "vinyl_strategy" \in Items /\ "per_sqm" \in Words
      BY <1>3
    <3>2. p \in Database /\ \A y \in Items :
            p.val[y] = IF y = "vinyl_strategy" THEN "per_sqm" ELSE c.val[y]
      BY <1>2, <3>5, PutValues
    <3>6. "vinyl_manual" \in Items /\ "no" \in Words
      BY <1>3
    <3> HIDE DEF a, p
    <3>3. a \in Database /\ \A y \in Items :
            a.val[y] = IF y = "vinyl_manual" THEN "no" ELSE p.val[y]
      BY <3>1, <3>2, <3>6, PutValues
    <3>4. \A y \in Items :
            a.val[y] = IF y = "vinyl_strategy" THEN "per_sqm"
                       ELSE IF y = "vinyl_manual" THEN "no" ELSE d.val[y]
      BY <1>2, <3>2, <3>3
    <3> QED BY <2>2, <3>3, <3>4
  <2> QED BY <2>1, <2>2
<1> HIDE DEF a
<1>5. \A y \in Items :
        e.val[y] = IF y = "board_strategy" /\ a.val[y] \notin Moved THEN "per_sheet" ELSE a.val[y]
  <2> DEFINE x == "board_strategy"
             v == "per_sheet"
  <2>1. x \in Items /\ v \in Words
    BY <1>3
  <2>2. e = IF a.val[x] \in Moved THEN a ELSE Put(a, x, v)
    BY DEF V36Board, e
  <2> HIDE DEF x, v
  <2>3. \A y \in Items : e.val[y] = IF y = x /\ a.val[y] \notin Moved THEN v ELSE a.val[y]
    BY <1>4, <2>1, <2>2, PutValues
  <2> QED BY <2>3 DEF x, v
<1> HIDE DEF e
<1>6. /\ \A y \in Items : y \notin {"vinyl_strategy", "board_strategy", "vinyl_manual"} =>
           e.val[y] = d.val[y]
      /\ d.val["vinyl_strategy"] \in Moved => e.val["vinyl_strategy"] = d.val["vinyl_strategy"]
                                              /\ e.val["vinyl_manual"] = d.val["vinyl_manual"]
      /\ d.val["vinyl_strategy"] \notin Moved => e.val["vinyl_strategy"] = "per_sqm"
                                                 /\ e.val["vinyl_manual"] = "no"
      /\ d.val["board_strategy"] \in Moved => e.val["board_strategy"] = d.val["board_strategy"]
      /\ d.val["board_strategy"] \notin Moved => e.val["board_strategy"] = "per_sheet"
  BY <1>3, <1>4, <1>5
<1>7. /\ "per_sqm" # Missing /\ "per_sheet" # Missing /\ "no" # Missing
      /\ "per_sqm" \in Moved /\ "per_sheet" \in Moved
  BY DEF Missing, Moved
<1>8. \A y \in Items \ {"stripe_secret_key"} : d.val[y] # Missing => e.val[y] # Missing
  BY <1>6, <1>7
<1>9. ASSUME NEW t, Settles(t, d.val) PROVE Settles(t, e.val)
  <2>1. \A y \in {"catalogue", "posters", "secretest", "soft_touch_price", "silk",
                  "stripe_secret_key", "shop_address", "artwork", "order_status",
                  "notifications_enabled", "soft_touch_keys",
                  "missive_from_address", "last_known", "vinyl_dims", "ncr"} :
             e.val[y] = d.val[y]
    <3>1. \A y \in {"catalogue", "posters", "secretest", "soft_touch_price", "silk",
                    "stripe_secret_key", "shop_address", "artwork", "order_status",
                    "notifications_enabled", "soft_touch_keys",
                    "missive_from_address", "last_known", "vinyl_dims", "ncr"} :
               y \in Items /\ y \notin {"vinyl_strategy", "board_strategy", "vinyl_manual"}
      BY Named
    <3> QED BY <1>6, <3>1
  <2>2. CASE t = "v2"
    BY <1>6, <1>9, <2>2, NoTextIs DEF Settles
  <2>3. CASE t = "v36_strategies"
    BY <1>6, <1>7, <1>9, <2>3 DEF Settles
  <2>4. CASE t = "v34_flip"
    BY <1>6, <1>9, <2>4 DEF Settles
  <2>5. CASE t = "v37_flags"
    BY <1>6, <1>9, <2>5 DEF Settles
  <2>6. CASE t \notin {"v2", "v36_strategies", "v34_flip", "v37_flags"}
    BY <1>9, <2>1, <2>6 DEF Settles
  <2> QED BY <2>2, <2>3, <2>4, <2>5, <2>6
<1>10. Stock(d) => Stock(e)
  <2>1. e.val["catalogue"] = d.val["catalogue"] /\ e.val["artwork"] = d.val["artwork"]
        /\ (e.val["vinyl_manual"] = d.val["vinyl_manual"] \/ e.val["vinyl_manual"] = "no")
    BY <1>6, Named
  <2>2. \A y \in Stocked : y \in Items \ {"stripe_secret_key"}
    BY DEF Stocked, Items, PricingItems, ProductItems
  <2> QED BY <1>8, <2>1, <2>2 DEF Stock
<1>11. Brings("v36_strategies") = {} /\ Lays("v36_strategies") = {}
  BY DEF Brings, Lays
<1>12. \A v : Settles("v36_strategies", v)
              <=> v["vinyl_strategy"] \in Moved /\ v["board_strategy"] \in Moved
  BY DEF Settles
<1>13. Fact("v36_strategies", d) => Same(d, e)
  BY <1>6, <1>12 DEF Fact, Same
<1>14. Fact("v36_strategies", e)
  BY <1>6, <1>7, <1>11, <1>12 DEF Fact
<1> QED BY <1>1, <1>8, <1>9, <1>10, <1>13, <1>14 DEF Works

\* The values that the cutover leaves.
LEMMA CutoverValues ==
  ASSUME NEW d \in Database
  PROVE  LET from == d.val["missive_from_address"]
             known == d.val["last_known"]
             e == V37_7(d)
         IN  /\ \A y \in Items : y \notin {"team_domains", "last_known", "missive_enabled"}
                                 => e.val[y] = d.val[y]
             /\ e.val["team_domains"] # Missing
             /\ d.val["team_domains"] # Missing => e.val["team_domains"] = d.val["team_domains"]
             /\ d.val["missive_enabled"] # Missing => e.val["missive_enabled"] # Missing
             /\ from \in {NoText, Missing} \/ from = known =>
                  e.val["missive_enabled"] = d.val["missive_enabled"]
             /\ e.val["last_known"] # Missing
             /\ from \in {NoText, Missing} /\ known # Missing => e.val["last_known"] = known
             /\ from \notin {NoText, Missing} => e.val["last_known"] = from
<1> DEFINE t == "team_domains"
           l == "last_known"
           m == "missive_enabled"
           a == "missive_from_address"
           on == "true"
           off == "false"
           from == d.val[a]
           known == d.val[l]
           e == V37_7(d)
           f == SeedAll(d, {t})
           g == Swap(f, m, {on}, off)
<1>1. /\ t \in Items /\ l \in Items /\ m \in Items /\ a \in Items
      /\ t # l /\ t # m /\ t # a /\ l # m /\ l # a /\ m # a
  BY Named
<1>2. off \in Words /\ off # Missing /\ NoText \in Words /\ NoText # Missing
      /\ from \in Words /\ "seed" # Missing
  <2>1. d.val \in [Items -> Words]
    BY DEF Database
  <2> QED BY <1>1, <2>1, WordsAre, NoTextIs DEF Missing
<1>3. /\ from \in {NoText, Missing} => e = Seed(f, l, NoText)
      /\ from \notin {NoText, Missing} /\ known \in {NoText, Missing} => e = Put(f, l, from)
      /\ from \notin {NoText, Missing} /\ known \notin {NoText, Missing} /\ from = known => e = f
      /\ from \notin {NoText, Missing} /\ known \notin {NoText, Missing} /\ from # known =>
           e = Put(g, l, from)
  BY DEF V37_7, NoText
<1> HIDE DEF t, l, m, a, on, off, e
<1>4. f \in Database /\ \A y \in Items :
        f.val[y] = IF y \in {t} /\ d.val[y] = Missing THEN "seed" ELSE d.val[y]
  BY SeedAllValues
<1> HIDE DEF f
<1>5. g \in Database /\ \A y \in Items :
        g.val[y] = IF y = m /\ f.val[y] \in {on} THEN off ELSE f.val[y]
  BY <1>1, <1>2, <1>4, SwapValues
<1> HIDE DEF g
<1>6. /\ \A y \in Items : y # t => f.val[y] = d.val[y]
      /\ f.val[t] # Missing
      /\ d.val[t] # Missing => f.val[t] = d.val[t]
  BY <1>1, <1>2, <1>4
<1>7. /\ \A y \in Items : y # t /\ y # m => g.val[y] = d.val[y]
      /\ g.val[t] # Missing
      /\ d.val[t] # Missing => g.val[t] = d.val[t]
      /\ d.val[m] # Missing => g.val[m] # Missing
  BY <1>1, <1>2, <1>5, <1>6
<1>9. ASSUME NEW b \in Database, NEW v \in Words
      PROVE  /\ \A y \in Items : Put(b, l, v).val[y] = IF y = l THEN v ELSE b.val[y]
             /\ \A y \in Items : Seed(b, l, v).val[y] =
                                  IF y = l /\ b.val[y] = Missing THEN v ELSE b.val[y]
  <2>1. l \in Items
    BY <1>1
  <2> QED BY <2>1, PutValues, SeedValues
<1>10. from \in Words /\ NoText \in Words
  BY <1>2
<1>8. /\ \A y \in Items : y \notin {t, l, m} => e.val[y] = d.val[y]
      /\ e.val[t] # Missing
      /\ d.val[t] # Missing => e.val[t] = d.val[t]
      /\ d.val[m] # Missing => e.val[m] # Missing
      /\ from \in {NoText, Missing} \/ from = known => e.val[m] = d.val[m]
      /\ e.val[l] # Missing
      /\ from \in {NoText, Missing} /\ known # Missing => e.val[l] = known
      /\ from \notin {NoText, Missing} => e.val[l] = from
  <2>1. CASE from \in {NoText, Missing}
    <3>1. \A y \in Items : e.val[y] = IF y = l /\ f.val[y] = Missing THEN NoText ELSE f.val[y]
      <4>1. e = Seed(f, l, NoText)
        BY <1>3, <2>1
      <4> QED BY <1>4, <1>9, <1>10, <4>1
    <3> QED BY <1>1, <1>2, <1>6, <2>1, <3>1
  <2>2. CASE from \notin {NoText, Missing} /\ known \in {NoText, Missing}
    <3>1. \A y \in Items : e.val[y] = IF y = l THEN from ELSE f.val[y]
      <4>1. e = Put(f, l, from)
        BY <1>3, <2>2
      <4> QED BY <1>4, <1>9, <1>10, <4>1
    <3> QED BY <1>1, <1>2, <1>6, <2>2, <3>1
  <2>3. CASE from \notin {NoText, Missing} /\ known \notin {NoText, Missing} /\ from = known
    <3>1. e = f
      BY <1>3, <2>3
    <3> QED BY <1>1, <1>6, <2>3, <3>1
  <2>4. CASE from \notin {NoText, Missing} /\ known \notin {NoText, Missing} /\ from # known
    <3>1. \A y \in Items : e.val[y] = IF y = l THEN from ELSE g.val[y]
      <4>1. e = Put(g, l, from)
        BY <1>3, <2>4
      <4> QED BY <1>5, <1>9, <1>10, <4>1
    <3> QED BY <1>1, <1>2, <1>7, <2>4, <3>1
  <2> QED BY <2>1, <2>2, <2>3, <2>4
<1> QED BY <1>8 DEF e, t, l, m, a

\* The cutover does its work, once there is a from-address.
LEMMA CutoverWorks ==
  ASSUME NEW d \in Database
  PROVE  Works("v37_7", d, V37_7(d))
<1> DEFINE e == V37_7(d)
<1>1. /\ \A y \in Items : y \notin {"team_domains", "last_known", "missive_enabled"}
                          => e.val[y] = d.val[y]
      /\ e.val["team_domains"] # Missing
      /\ d.val["team_domains"] # Missing => e.val["team_domains"] = d.val["team_domains"]
      /\ d.val["missive_enabled"] # Missing => e.val["missive_enabled"] # Missing
      /\ d.val["missive_from_address"] \in {NoText, Missing}
         \/ d.val["missive_from_address"] = d.val["last_known"] =>
           e.val["missive_enabled"] = d.val["missive_enabled"]
      /\ e.val["last_known"] # Missing
      /\ d.val["missive_from_address"] \in {NoText, Missing} /\ d.val["last_known"] # Missing
           => e.val["last_known"] = d.val["last_known"]
      /\ d.val["missive_from_address"] \notin {NoText, Missing}
           => e.val["last_known"] = d.val["missive_from_address"]
  BY CutoverValues
<1> HIDE DEF e
<1>2. \A y \in Items \ {"stripe_secret_key"} : d.val[y] # Missing => e.val[y] # Missing
  BY <1>1
<1>3. \A y \in {"catalogue", "posters", "secretest", "soft_touch_price", "silk",
                "stripe_secret_key", "shop_address", "artwork", "order_status",
                "notifications_enabled", "soft_touch_keys", "vinyl_manual",
                "vinyl_strategy", "board_strategy", "missive_from_address",
                "vinyl_dims", "ncr"} : e.val[y] = d.val[y]
  <2>1. \A y \in {"catalogue", "posters", "secretest", "soft_touch_price", "silk",
                  "stripe_secret_key", "shop_address", "artwork", "order_status",
                  "notifications_enabled", "soft_touch_keys", "vinyl_manual",
                  "vinyl_strategy", "board_strategy", "missive_from_address",
                  "vinyl_dims", "ncr"} :
             y \in Items /\ y \notin {"team_domains", "last_known", "missive_enabled"}
    BY Named
  <2> QED BY <1>1, <2>1
<1>4. ASSUME NEW t, Settles(t, d.val) PROVE Settles(t, e.val)
  <2>1. CASE t = "v37_7"
    BY <1>1, <1>3, <1>4, <2>1 DEF Settles
  <2>2. CASE t # "v37_7"
    BY <1>3, <1>4, <2>2 DEF Settles
  <2> QED BY <2>1, <2>2
<1>5. Stock(d) => Stock(e)
  <2>1. \A y \in Stocked : y \in Items \ {"stripe_secret_key"}
    BY DEF Stocked, Items, PricingItems, ProductItems
  <2>2. e.val["catalogue"] = d.val["catalogue"] /\ e.val["artwork"] = d.val["artwork"]
        /\ e.val["vinyl_manual"] = d.val["vinyl_manual"]
    BY <1>3
  <2> QED BY <1>2, <2>1, <2>2 DEF Stock
<1>6. Brings("v37_7") = {"team_domains", "last_known"} /\ Lays("v37_7") = {}
  BY DEF Brings, Lays
<1>7. \A v : Settles("v37_7", v) <=>
        /\ v["missive_from_address"] # Missing
        /\ v["missive_from_address"] # NoText => v["last_known"] = v["missive_from_address"]
  BY DEF Settles
<1>8. Fact("v37_7", d) => Same(d, e)
  BY <1>1, <1>6, <1>7 DEF Fact, Same
<1>9. Ready("v37_7", d) => Fact("v37_7", e)
  <2>1. ASSUME Ready("v37_7", d) PROVE d.val["missive_from_address"] # Missing
    BY <2>1 DEF Ready
  <2>2. e.val["missive_from_address"] = d.val["missive_from_address"]
    BY <1>3
  <2> QED BY <1>1, <1>6, <1>7, <2>1, <2>2 DEF Fact
<1>10. Works("v37_7", d, e)
  BY <1>2, <1>4, <1>5, <1>8, <1>9 DEF Works
<1> QED BY <1>10 DEF e

\* The steps, the wipe and the load aside.
Ordinary ==
  {"init_db", "pre_ddl", "has_products", "v2", "v3", "v4", "v5", "v6",
   "v7", "v8", "v9", "v10", "v11", "v12", "v13", "v14", "v15", "v16",
   "v17", "v18", "v19", "v20", "v21", "v22", "v23", "v24", "v25_artwork",
   "v25_rules", "v26", "v27", "v30", "v31", "v33", "v34_flip",
   "v34_rules", "v35", "v36_strategies", "v36_rules", "v37_threshold",
   "v37_flags", "v37_7", "v38", "v39", "v40", "v41", "v42", "v43", "v44"}

\* Every step but two is one of them.
LEMMA OrdinarySteps == \A n \in 1..50 : n \notin {4, 5} => Chain[n] \in Ordinary
BY DEF Chain, Ordinary

\* Each of them does its work.
LEMMA StepWorks ==
  ASSUME NEW d \in Database, Opens(d.prompt), NEW s \in Ordinary, NEW r
  PROVE  Works(s, d, Migrated(s, d, r))
<1>1. CASE s \in {"init_db", "pre_ddl", "has_products", "v12", "v15", "v17", "v20", "v30", "v39", "v40", "v41"}
  <2>1. CASE s = "init_db"
    <3>1. Migrated(s, d, r) = InitDb(d)
      BY <2>1 DEF Migrated
    <3> QED BY <2>1, <3>1, ColumnsWork
  <2>2. CASE s = "pre_ddl"
    <3>1. Migrated(s, d, r) = PreDdl(d)
      BY <2>2 DEF Migrated
    <3> QED BY <2>2, <3>1, ColumnsWork
  <2>3. CASE s = "has_products"
    <3>1. Migrated(s, d, r) = d
      BY <2>3 DEF Migrated
    <3> QED BY <2>3, <3>1, ColumnsWork
  <2>4. CASE s = "v12"
    <3>1. Migrated(s, d, r) = V12(d)
      BY <2>4 DEF Migrated
    <3> QED BY <2>4, <3>1, ColumnsWork
  <2>5. CASE s = "v15"
    <3>1. Migrated(s, d, r) = V15(d)
      BY <2>5 DEF Migrated
    <3> QED BY <2>5, <3>1, ColumnsWork
  <2>6. CASE s = "v17"
    <3>1. Migrated(s, d, r) = V17(d, r)
      BY <2>6 DEF Migrated
    <3> QED BY <2>6, <3>1, ColumnsWork
  <2>7. CASE s = "v20"
    <3>1. Migrated(s, d, r) = V20(d)
      BY <2>7 DEF Migrated
    <3> QED BY <2>7, <3>1, ColumnsWork
  <2>8. CASE s = "v30"
    <3>1. Migrated(s, d, r) = V30(d)
      BY <2>8 DEF Migrated
    <3> QED BY <2>8, <3>1, ColumnsWork
  <2>9. CASE s = "v39"
    <3>1. Migrated(s, d, r) = V39(d)
      BY <2>9 DEF Migrated
    <3> QED BY <2>9, <3>1, ColumnsWork
  <2>10. CASE s = "v40"
    <3>1. Migrated(s, d, r) = V40(d)
      BY <2>10 DEF Migrated
    <3> QED BY <2>10, <3>1, ColumnsWork
  <2>11. CASE s = "v41"
    <3>1. Migrated(s, d, r) = V41(d)
      BY <2>11 DEF Migrated
    <3> QED BY <2>11, <3>1, ColumnsWork
  <2> QED BY <1>1, <2>1, <2>2, <2>3, <2>4, <2>5, <2>6, <2>7, <2>8, <2>9, <2>10, <2>11
<1>2. CASE s = "v2"
  <2>1. Migrated(s, d, r) = V2(d)
    BY <1>2 DEF Migrated
  <2> QED BY <1>2, <2>1, V2Works
<1>3. CASE s \in {"v3", "v9", "v22"}
  <2>1. CASE s = "v3"
    <3>1. Migrated(s, d, r) = V3(d)
      BY <2>1 DEF Migrated
    <3> QED BY <2>1, <3>1, MoreSeedsWork
  <2>2. CASE s = "v9"
    <3>1. Migrated(s, d, r) = V9(d)
      BY <2>2 DEF Migrated
    <3> QED BY <2>2, <3>1, MoreSeedsWork
  <2>3. CASE s = "v22"
    <3>1. Migrated(s, d, r) = V22(d)
      BY <2>3 DEF Migrated
    <3> QED BY <2>3, <3>1, MoreSeedsWork
  <2> QED BY <1>3, <2>1, <2>2, <2>3
<1>4. CASE s \in {"v4", "v13", "v14", "v16", "v19", "v31", "v35", "v37_threshold", "v43", "v44"}
  <2>1. CASE s = "v4"
    <3>1. Migrated(s, d, r) = V4(d)
      BY <2>1 DEF Migrated
    <3> QED BY <2>1, <3>1, SeedersWork
  <2>2. CASE s = "v13"
    <3>1. Migrated(s, d, r) = V13(d)
      BY <2>2 DEF Migrated
    <3> QED BY <2>2, <3>1, SeedersWork
  <2>3. CASE s = "v14"
    <3>1. Migrated(s, d, r) = V14(d)
      BY <2>3 DEF Migrated
    <3> QED BY <2>3, <3>1, SeedersWork
  <2>4. CASE s = "v16"
    <3>1. Migrated(s, d, r) = V16(d)
      BY <2>4 DEF Migrated
    <3> QED BY <2>4, <3>1, SeedersWork
  <2>5. CASE s = "v19"
    <3>1. Migrated(s, d, r) = V19(d)
      BY <2>5 DEF Migrated
    <3> QED BY <2>5, <3>1, SeedersWork
  <2>6. CASE s = "v31"
    <3>1. Migrated(s, d, r) = V31(d)
      BY <2>6 DEF Migrated
    <3> QED BY <2>6, <3>1, SeedersWork
  <2>7. CASE s = "v35"
    <3>1. Migrated(s, d, r) = V35(d)
      BY <2>7 DEF Migrated
    <3> QED BY <2>7, <3>1, SeedersWork
  <2>8. CASE s = "v37_threshold"
    <3>1. Migrated(s, d, r) = V37Threshold(d)
      BY <2>8 DEF Migrated
    <3> QED BY <2>8, <3>1, SeedersWork
  <2>9. CASE s = "v43"
    <3>1. Migrated(s, d, r) = V43(d)
      BY <2>9 DEF Migrated
    <3> QED BY <2>9, <3>1, SeedersWork
  <2>10. CASE s = "v44"
    <3>1. Migrated(s, d, r) = V44(d)
      BY <2>10 DEF Migrated
    <3> QED BY <2>10, <3>1, SeedersWork
  <2> QED BY <1>4, <2>1, <2>2, <2>3, <2>4, <2>5, <2>6, <2>7, <2>8, <2>9, <2>10
<1>5. CASE s \in {"v5", "v6", "v7", "v8", "v24", "v25_rules", "v36_rules"}
  <2>1. CASE s = "v5"
    <3>1. Migrated(s, d, r) = V5(d)
      BY <2>1 DEF Migrated
    <3> QED BY <2>1, <3>1, RulesWork
  <2>2. CASE s = "v6"
    <3>1. Migrated(s, d, r) = V6(d)
      BY <2>2 DEF Migrated
    <3> QED BY <2>2, <3>1, RulesWork
  <2>3. CASE s = "v7"
    <3>1. Migrated(s, d, r) = V7(d)
      BY <2>3 DEF Migrated
    <3> QED BY <2>3, <3>1, RulesWork
  <2>4. CASE s = "v8"
    <3>1. Migrated(s, d, r) = V8(d)
      BY <2>4 DEF Migrated
    <3> QED BY <2>4, <3>1, RulesWork
  <2>5. CASE s = "v24"
    <3>1. Migrated(s, d, r) = V24(d)
      BY <2>5 DEF Migrated
    <3> QED BY <2>5, <3>1, RulesWork
  <2>6. CASE s = "v25_rules"
    <3>1. Migrated(s, d, r) = V25Rules(d)
      BY <2>6 DEF Migrated
    <3> QED BY <2>6, <3>1, RulesWork
  <2>7. CASE s = "v36_rules"
    <3>1. Migrated(s, d, r) = V36Rules(d)
      BY <2>7 DEF Migrated
    <3> QED BY <2>7, <3>1, RulesWork
  <2> QED BY <1>5, <2>1, <2>2, <2>3, <2>4, <2>5, <2>6, <2>7
<1>6. CASE s \in {"v10", "v34_rules"}
  <2>1. CASE s = "v10"
    <3>1. Migrated(s, d, r) = V10(d)
      BY <2>1 DEF Migrated
    <3> QED BY <2>1, <3>1, SoftTouchWorks
  <2>2. CASE s = "v34_rules"
    <3>1. Migrated(s, d, r) = V34Rules(d)
      BY <2>2 DEF Migrated
    <3> QED BY <2>2, <3>1, SoftTouchWorks
  <2> QED BY <1>6, <2>1, <2>2
<1>7. CASE s \in {"v11", "v18", "v21", "v25_artwork", "v26", "v34_flip", "v37_flags", "v42"}
  <2>1. CASE s = "v11"
    <3>1. Migrated(s, d, r) = V11(d)
      BY <2>1 DEF Migrated
    <3> QED BY <2>1, <3>1, OneWorks
  <2>2. CASE s = "v18"
    <3>1. Migrated(s, d, r) = V18(d)
      BY <2>2 DEF Migrated
    <3> QED BY <2>2, <3>1, OneWorks
  <2>3. CASE s = "v21"
    <3>1. Migrated(s, d, r) = V21(d)
      BY <2>3 DEF Migrated
    <3> QED BY <2>3, <3>1, OneWorks
  <2>4. CASE s = "v25_artwork"
    <3>1. Migrated(s, d, r) = V25Artwork(d)
      BY <2>4 DEF Migrated
    <3> QED BY <2>4, <3>1, OneWorks
  <2>5. CASE s = "v26"
    <3>1. Migrated(s, d, r) = V26(d)
      BY <2>5 DEF Migrated
    <3> QED BY <2>5, <3>1, OneWorks
  <2>6. CASE s = "v34_flip"
    <3>1. Migrated(s, d, r) = V34Flip(d)
      BY <2>6 DEF Migrated
    <3> QED BY <2>6, <3>1, OneWorks
  <2>7. CASE s = "v37_flags"
    <3>1. Migrated(s, d, r) = V37Flags(d)
      BY <2>7 DEF Migrated
    <3> QED BY <2>7, <3>1, OneWorks
  <2>8. CASE s = "v42"
    <3>1. Migrated(s, d, r) = V42(d)
      BY <2>8 DEF Migrated
    <3> QED BY <2>8, <3>1, OneWorks
  <2> QED BY <1>7, <2>1, <2>2, <2>3, <2>4, <2>5, <2>6, <2>7, <2>8
<1>8. CASE s \in {"v23", "v27", "v33", "v38"}
  <2>1. CASE s = "v23"
    <3>1. Migrated(s, d, r) = V23(d)
      BY <2>1 DEF Migrated
    <3> QED BY <2>1, <3>1, BothWork
  <2>2. CASE s = "v27"
    <3>1. Migrated(s, d, r) = V27(d)
      BY <2>2 DEF Migrated
    <3> QED BY <2>2, <3>1, BothWork
  <2>3. CASE s = "v33"
    <3>1. Migrated(s, d, r) = V33(d)
      BY <2>3 DEF Migrated
    <3> QED BY <2>3, <3>1, BothWork
  <2>4. CASE s = "v38"
    <3>1. Migrated(s, d, r) = V38(d)
      BY <2>4 DEF Migrated
    <3> QED BY <2>4, <3>1, BothWork
  <2> QED BY <1>8, <2>1, <2>2, <2>3, <2>4
<1>9. CASE s = "v36_strategies"
  <2>1. Migrated(s, d, r) = V36Strategies(d)
    BY <1>9 DEF Migrated
  <2> QED BY <1>9, <2>1, V36Works
<1>10. CASE s = "v37_7"
  <2>1. Migrated(s, d, r) = V37_7(d)
    BY <1>10 DEF Migrated
  <2> QED BY <1>10, <2>1, CutoverWorks
<1> QED BY <1>1, <1>2, <1>3, <1>4, <1>5, <1>6, <1>7, <1>8, <1>9, <1>10 DEF Ordinary

\* What steps bring are settings and products, neither the rules nor the
\* category of soft touch nor the key that v18 deletes.
LEMMA BringsItems ==
  ASSUME NEW s
  PROVE  Brings(s) \subseteq Items \ (Restless \cup {"stripe_secret_key"})
<1>1. Brings(s) \subseteq
        {"taxes", "categories", "widget", "missive", "missive_enabled",
         "missive_from_address", "printlogic_dry_run", "multiplier",
         "stripe_enabled", "auto_draft", "faqs", "shop_address", "shipping",
         "auto_send", "notify_to", "poa_keywords", "alert_email", "threshold",
         "team_domains", "last_known", "posters", "laydown", "temperature"}
  BY DEF Brings
<1>2. \A x \in {"taxes", "categories", "widget", "missive", "missive_enabled",
         "missive_from_address", "printlogic_dry_run", "multiplier",
         "stripe_enabled", "auto_draft", "faqs", "shop_address", "shipping",
         "auto_send", "notify_to", "poa_keywords", "alert_email", "threshold",
         "team_domains", "last_known", "posters", "laydown", "temperature"} :
        x \in Items \ (Restless \cup {"stripe_secret_key"})
  BY Named DEF Restless
<1> QED BY <1>1, <1>2

\* What a step saw to stays seen to while others work.
LEMMA FactStays ==
  ASSUME NEW s, NEW d, NEW e, Works(s, d, e), d.cols \subseteq e.cols,
         NEW t, Fact(t, d)
  PROVE  Fact(t, e)
<1>1. \A x \in Brings(t) : x \in Items \ {"stripe_secret_key"}
  BY BringsItems
<1> QED BY <1>1 DEF Works, Fact

\* And while nothing changes.
LEMMA FactSame ==
  ASSUME NEW d, NEW e, Same(d, e), d.cols \subseteq e.cols, NEW t, Fact(t, d)
  PROVE  Fact(t, e)
<1>1. \A x \in Brings(t) : e.val[x] # Missing
  <2>1. \A x \in Brings(t) : x \in Items \ Restless
    BY BringsItems
  <2> QED BY <2>1 DEF Same, Fact
<1>2. Settles(t, e.val)
  <2>1. \A x \in {"catalogue", "posters", "secretest", "soft_touch_price", "silk",
                  "stripe_secret_key", "shop_address", "artwork", "order_status",
                  "notifications_enabled", "vinyl_strategy", "vinyl_manual",
                  "soft_touch_keys", "board_strategy", "missive_from_address",
                  "last_known", "vinyl_dims", "ncr"} : e.val[x] = d.val[x]
    BY Settled DEF Same
  <2>2. Settles(t, d.val)
    BY DEF Fact
  <2> QED BY <2>1, <2>2 DEF Settles
<1> QED BY <1>1, <1>2 DEF Fact

\* The rules are those of v38 from v38 on.
LEMMA LastRules ==
  ASSUME NEW d \in Database, NEW n \in 44..50, NEW r
  PROVE  Migrated(Chain[n], d, r).val["business_rules"] =
           IF n = 44 THEN "v38" ELSE d.val["business_rules"]
<1> DEFINE x == "business_rules"
           e == Migrated(Chain[n], d, r)
<1>1. /\ Chain[44] = "v38" /\ Chain[45] = "v39" /\ Chain[46] = "v40"
      /\ Chain[47] = "v41" /\ Chain[48] = "v42" /\ Chain[49] = "v43"
      /\ Chain[50] = "v44"
  BY DEF Chain
<1>2. x \in Items /\ x # "ncr" /\ "ncr" \in Items /\ x \notin {"laydown", "temperature"}
  BY Named
<1>3. CASE n = 44
  <2>1. e = V38(d)
    BY <1>1, <1>3 DEF Migrated
  <2> DEFINE a == V38Posters(V38Vinyl(AddCols(d, {"v38"})))
  <2>2. e = Put(a, x, "v38")
    BY <2>1 DEF V38, Rules
  <2>3. a \in Database
    <3>1. AddCols(d, {"v38"}) \in Database
      BY ColsValues DEF AllCols
    <3>2. "vinyl_dims" \in Items /\ "posters" \in Items /\ "yes" \in Words
          /\ "manual" \in Words
      BY Named, WordsAre
    <3>3. V38Vinyl(AddCols(d, {"v38"})) \in Database
      BY <3>1, <3>2, SwapValues DEF V38Vinyl
    <3> QED BY <3>2, <3>3, SeedValues DEF V38Posters
  <2>4. "v38" \in Words
    BY WordsAre
  <2> HIDE DEF x, a
  <2>5. Put(a, x, "v38").val[x] = "v38"
    BY <1>2, <2>3, <2>4, PutValues
  <2> QED BY <1>3, <2>2, <2>5 DEF x
<1>4. CASE n \in {45, 46, 47}
  <2>1. n = 45 => e = AddCols(d, {"v39"})
    BY <1>1 DEF Migrated, V39
  <2>2. n = 46 => e = AddCols(d, {"v40"})
    BY <1>1 DEF Migrated, V40
  <2>3. n = 47 => e = AddCols(d, {"v41"})
    BY <1>1 DEF Migrated, V41
  <2>4. \A c \in {"v39", "v40", "v41"} : AddCols(d, {c}).val = d.val
    BY ColsValues DEF AllCols
  <2> QED BY <1>4, <2>1, <2>2, <2>3, <2>4
<1>5. CASE n = 48
  <2>1. e = Swap(d, "ncr", {"pads"}, "books")
    BY <1>1, <1>5 DEF Migrated, V42
  <2>2. "ncr" \in Items /\ "books" \in Words
    BY Named, WordsAre
  <2> HIDE DEF e
  <2>3. \A y \in Items : y # "ncr" => e.val[y] = d.val[y]
    BY <2>1, <2>2, SwapValues
  <2> QED BY <1>2, <1>5, <2>3 DEF e
<1>6. CASE n \in {49, 50}
  <2>1. e = d \/ e = SeedAll(d, {"laydown"}) \/ e = SeedAll(d, {"temperature"})
    BY <1>1, <1>6 DEF Migrated, V43, V44, ForShops
  <2> HIDE DEF e
  <2>2. \A y \in Items : y \notin {"laydown", "temperature"} => e.val[y] = d.val[y]
    BY <2>1, SeedAllValues
  <2> QED BY <1>2, <1>6, <2>2 DEF e
<1> QED BY <1>3, <1>4, <1>5, <1>6

\* The first three steps change no value.
LEMMA EarlySteps ==
  ASSUME NEW d \in Database, NEW n \in 1..3, NEW r
  PROVE  Migrated(Chain[n], d, r).val = d.val
<1>1. n = 1 => Migrated(Chain[n], d, r) = InitDb(d)
  BY ChainIs, Scripts
<1>2. n = 2 => Migrated(Chain[n], d, r) = PreDdl(d)
  BY ChainIs, Scripts
<1>3. n = 3 => Migrated(Chain[n], d, r) = d
  BY ChainIs DEF Migrated
<1>4. InitDb(d).val = d.val
  BY ColsValues DEF InitDb
<1>5. PreDdl(d).val = d.val
  BY ColsValues DEF PreDdl, AllCols
<1> QED BY <1>1, <1>2, <1>3, <1>4, <1>5

\* The wipe leaves no product.
LEMMA WipeEmpties ==
  ASSUME NEW d \in Database
  PROVE  /\ ~HasProducts(Wipe(d)) /\ (Stock(d) => Stock(Wipe(d)))
<1> DEFINE e == Wipe(d)
<1>1. \A x \in Items : e.val[x] = IF x \in PricingItems THEN Missing ELSE d.val[x]
  BY WipeDoes
<1>2. /\ \A x \in {"catalogue", "posters", "secretest", "vinyl_manual"} :
           x \in Items /\ x \in PricingItems
      /\ "artwork" \in Items /\ "artwork" \notin PricingItems
  BY Named DEF PricingItems, ProductItems
<1> HIDE DEF e
<1>3. \A x \in {"catalogue", "posters", "secretest", "vinyl_manual"} : e.val[x] = Missing
  BY <1>1, <1>2
<1>4. e.val["artwork"] = d.val["artwork"]
  BY <1>1, <1>2
<1>5. ~HasProducts(e)
  BY <1>3 DEF HasProducts
<1>6. Stock(d) => Stock(e)
  BY <1>3, <1>4 DEF Stock
<1> QED BY <1>5, <1>6 DEF e

\* The load stocks the catalogue.
LEMMA LoadFills ==
  ASSUME NEW d \in Database
  PROVE  /\ \A x \in Stocked : Load(d).val[x] # Missing
         /\ Load(d).val["vinyl_manual"] = "no"
         /\ Stock(d) => Stock(Load(d))
         /\ Fact("load", Load(d))
<1> DEFINE v == [x \in Items |-> IF x \in DOMAIN Loaded THEN Loaded[x] ELSE d.val[x]]
           e == Load(d)
<1>1. DOMAIN Loaded = Stocked \cup {"posters"}
  BY DEF Loaded, Stocked, PricingItems, ProductItems
<1>2. \A x \in DOMAIN Loaded : Loaded[x] # Missing
  BY DEF Loaded, Missing
<1>3. Loaded["vinyl_manual"] = "no"
  BY DEF Loaded
<1>4. e.val = v
  BY DEF Load, Database
<1>5. \A x \in Stocked : x \in Items
  BY DEF Stocked, Items
<1>6. "vinyl_manual" \in Stocked /\ "catalogue" \in Stocked
  BY DEF Stocked, PricingItems, ProductItems
<1>7. e.val["artwork"] = d.val["artwork"]
  <2>1. "artwork" \in Items /\ "artwork" \notin Stocked \cup {"posters"}
    BY Named DEF Stocked, PricingItems, ProductItems
  <2> QED BY <2>1, LoadDoes
<1> HIDE DEF e
<1>8. \A x \in Stocked : e.val[x] = Loaded[x]
  <2> HIDE DEF Loaded
  <2> QED BY <1>1, <1>4, <1>5
<1>9. (\A x \in Stocked : e.val[x] # Missing) /\ e.val["vinyl_manual"] = "no"
  BY <1>1, <1>2, <1>3, <1>6, <1>8
<1>10. Stock(d) => Stock(e)
  BY <1>7, <1>9 DEF Stock
<1>11. Fact("load", e)
  <2>1. Brings("load") = {} /\ Lays("load") = {}
    BY DEF Brings, Lays
  <2>2. e.val["catalogue"] # Missing
    BY <1>6, <1>9
  <2>3. Settles("load", e.val)
    BY <2>2 DEF Settles
  <2> QED BY <2>1, <2>3 DEF Fact
<1> QED BY <1>9, <1>10, <1>11 DEF e

\* Every step keeps a stock.
LEMMA StaysStock ==
  ASSUME NEW d, Sane(d), Stock(d), NEW n \in 1..50, NEW r
  PROVE  Stock(Migrated(Chain[n], d, r))
<1>1. d \in Database /\ Opens(d.prompt)
  BY DEF Sane
<1>2. CASE n = 4
  BY <1>1, <1>2, ChainIs, Scripts, WipeEmpties
<1>3. CASE n = 5
  BY <1>1, <1>3, ChainIs, Scripts, LoadFills
<1>4. CASE n \notin {4, 5}
  BY <1>1, <1>4, OrdinarySteps, StepWorks DEF Works
<1> QED BY <1>2, <1>3, <1>4

\* The database before the chain was written has a stock.
LEMMA LegacyStock == Stock(Legacy) /\ Legacy.val["catalogue"] # Missing
<1> DEFINE old == [posters |-> Missing, silk |-> "no", ncr |-> "pads",
                   artwork |-> "single", business_rules |-> "v6",
                   stripe_secret_key |-> "own", missive_enabled |-> "true"]
           d0 == [Empty EXCEPT !.cols = {"v0"}]
           d == Load(d0)
           v == [x \in Items |-> IF x \in DOMAIN old THEN old[x] ELSE d.val[x]]
<1>1. d0 \in Database
  BY EmptyIs DEF Sane, Database
<1>2. (\A x \in Stocked : d.val[x] # Missing) /\ d.val["vinyl_manual"] = "no" /\ d \in Database
  BY <1>1, LoadFills, LoadDoes DEF Outcome
<1>3. Legacy.val = v
  <2>1. Legacy = [d EXCEPT !.prompt = <<"intro", "contact", "tone", "legacy">>,
                   !.secret.text = "old",
                   !.val = [x \in Items |-> IF x \in DOMAIN old THEN old[x] ELSE @[x]]]
    BY DEF Legacy
  <2> HIDE DEF d
  <2> QED BY <1>2, <2>1 DEF Database
<1> HIDE DEF d0, d
<1>4. /\ "posters" \notin Stocked /\ "catalogue" \in Stocked /\ "vinyl_manual" \in Stocked
      /\ "artwork" \in Items /\ \A x \in Stocked : x \in Items
  BY Named DEF Stocked, PricingItems, ProductItems, Items
<1>5. /\ DOMAIN old = {"posters", "silk", "ncr", "artwork", "business_rules",
                       "stripe_secret_key", "missive_enabled"}
      /\ \A x \in DOMAIN old : x # "posters" => old[x] # Missing
      /\ old["artwork"] = "single"
  BY DEF Missing
<1> HIDE DEF old
<1>6. \A x \in Stocked : v[x] # Missing
  <2> SUFFICES ASSUME NEW x \in Stocked PROVE v[x] # Missing
    OBVIOUS
  <2>1. x \in Items /\ x # "posters"
    BY <1>4
  <2> QED BY <1>2, <1>5, <2>1
<1>7. v["artwork"] = "single" /\ v["vinyl_manual"] = "no"
  <2>1. "vinyl_manual" \in Items
    BY Named
  <2> QED BY <1>2, <1>4, <1>5, <2>1
<1>8. v["catalogue"] # Missing
  BY <1>4, <1>6
<1> HIDE DEF v
<1> QED BY <1>3, <1>6, <1>7, <1>8 DEF Stock

\* So has what a release left.
LEMMA ReleaseStock ==
  ASSUME NEW n \in 0..50
  PROVE  Stock(LeftBy[n]) /\ LeftBy[n].val["catalogue"] # Missing
<1> DEFINE Good(k) == k <= 50 => Stock(LeftBy[k]) /\ LeftBy[k].val["catalogue"] # Missing
           S == {k \in Nat : Good(k)}
<1>1. 0 \in S
  BY ReleaseStep, LegacyStock
<1>2. ASSUME NEW k \in S PROVE k + 1 \in S
  <2>1. k \in Nat /\ k + 1 \in Nat /\ Good(k) /\ (k + 1) - 1 = k
    OBVIOUS
  <2>2. CASE k + 1 < 6
    BY <2>1, <2>2, ReleaseStep, LegacyStock
  <2>3. CASE k + 1 > 50
    BY <2>1, <2>3
  <2>4. CASE k + 1 >= 6 /\ k + 1 <= 50
    <3> DEFINE d == LeftBy[k]
               e == LeftBy[k + 1]
    <3>1. e = Migrated(Chain[k + 1], d, <<>>)
      BY <2>1, <2>4, ReleaseStep
    <3>2. Sane(d) /\ Stock(d) /\ d.val["catalogue"] # Missing
      BY <2>1, <2>4, Releasable
    <3>3. k + 1 \in 1..50 /\ k + 1 \notin {4, 5}
      BY <2>1, <2>4
    <3> HIDE DEF d, e
    <3>4. Stock(e)
      BY <3>1, <3>2, <3>3, StaysStock
    <3>5. Works(Chain[k + 1], d, e)
      BY <3>1, <3>2, <3>3, OrdinarySteps, StepWorks DEF Sane
    <3>6. "catalogue" \in Items \ {"stripe_secret_key"}
      BY Named
    <3>7. e.val["catalogue"] # Missing
      BY <3>2, <3>5, <3>6 DEF Works
    <3> QED BY <2>1, <3>4, <3>7 DEF e
  <2> QED BY <2>1, <2>2, <2>3, <2>4
<1>3. S = Nat
  <2> HIDE DEF Good
  <2> QED BY <1>1, <1>2, ByInduction
<1> QED BY <1>3

(***************************************************************************)
(* What boots that overlap have done.                                      *)
(***************************************************************************)

\* An instance that boots has step n before it.
Behind(n) == \E j \in Instances : at[j] \in 1..n

\* Step n is done with, the rules too if it is their last one.
Done(n, d) ==
  /\ Fact(Chain[n], d)
  /\ n = 44 => d.val["business_rules"] = "v38"

\* What a boot did, since the last edit and since a boot died, stands, unless
\* another boot will do it again.
DoneInv ==
  \A i \in log.since, n \in 1..50 : n < at[i] /\ ~Behind(n) => Done(n, db)

\* The database that a boot left is done with, and nothing changed since.
FixInv ==
  log.fix # None =>
    /\ log.fix.cols \subseteq db.cols
    /\ Same(log.fix, db)
    /\ \A n \in 1..50 : Done(n, log.fix)
    /\ \A j \in Instances : at[j] \notin {4, 5}

\* As long as no catalogue in use was wiped, products come with a catalogue,
\* it is there past the load, and what a boot left is serviceable.
StockInv ==
  /\ Stock(db)
  /\ ~log.late =>
       /\ HasProducts(db) => db.val["catalogue"] # Missing
       /\ \A i \in Instances : at[i] > 5 => db.val["catalogue"] # Missing
       /\ log.fix # None => Serviceable(log.fix)

DoneInvs == Inv /\ DoneInv /\ FixInv /\ StockInv

\* It holds of every database a release left.
LEMMA InitDone == ASSUME Init PROVE DoneInv /\ FixInv /\ StockInv
<1>1. /\ log = [fix |-> None, torn |-> FALSE, since |-> {}, late |-> FALSE,
                over |-> {}]
      /\ \A i \in Instances : at[i] = 0
  BY DEF Init, Down
<1>2. DoneInv /\ FixInv
  BY <1>1 DEF DoneInv, FixInv
<1>3. PICK r \in Releases : db = IF r = "fresh" THEN Empty ELSE LeftBy[Position(r)]
  BY DEF Init
<1>4. Stock(db) /\ (HasProducts(db) => db.val["catalogue"] # Missing)
  <2>1. CASE r = "fresh"
    <3>1. \A x \in Items : Empty.val[x] = Missing
      BY DEF Empty, NoData
    <3>2. \A x \in {"catalogue", "posters", "secretest", "artwork", "vinyl_manual"} :
            x \in Items
      BY Named
    <3>3. \A x \in {"catalogue", "posters", "secretest", "artwork", "vinyl_manual"} :
            Empty.val[x] = Missing
      BY <3>1, <3>2
    <3>4. ~HasProducts(Empty)
      BY <3>3 DEF HasProducts
    <3>5. Stock(Empty)
      BY <3>3 DEF Stock
    <3> QED BY <1>3, <2>1, <3>4, <3>5
  <2>2. CASE r # "fresh"
    <3>1. PICK n \in 7..50 : r = Chain[n]
      BY <2>2, SUAssumption, Places
    <3>2. Position(r) \in 7..50
      BY <3>1, Places
    <3>3. Position(r) \in 0..50
      BY <3>2
    <3> QED BY <1>3, <2>2, <3>3, ReleaseStock
  <2> QED BY <2>1, <2>2
<1>5. StockInv
  BY <1>1, <1>4 DEF StockInv
<1> QED BY <1>2, <1>5

\* What a step leaves of the log: when it wipes; when it loses an edit; and,
\* the last one, when no other boot is about, it sets fix.
Logs(i) ==
  /\ log'.late = (log.late \/ (at[i] = 4 /\ HasProducts(db)))
  /\ at[i] = 3 /\ at'[i] = 6 => HasProducts(db)
  /\ at[i] = 3 /\ at'[i] = 4 => ~HasProducts(db)
  /\ \/ log'.since = {} /\ log'.fix = None
     \/ /\ log'.since = log.since
        /\ \/ log'.fix = log.fix
           \/ /\ log'.fix = db' /\ at[i] = 50 /\ at'[i] = 51
              /\ Booting = {i} /\ i \in log.since

\* Where a step that is not the last one goes on, and which one wipes.
LEMMA RunTurns ==
  ASSUME Inv, NEW i \in Instances, Runs(i)
  PROVE  /\ Chain[at[i]] = "wipe" <=> at[i] = 4
         /\ at[i] = 3 /\ at'[i] = 6 => HasProducts(db)
         /\ at[i] = 3 /\ at'[i] = 4 => ~HasProducts(db)
<1>1. at[i] \in 1..49 /\ at \in [Instances -> 0..51]
  BY RunDoes DEF Inv, Shape, Placed
<1>2. at[i] \in 1..50
  BY <1>1
<1>3. at'[i] = NextStep(at[i])
  BY <1>1 DEF Runs
<1>4. /\ Chain[at[i]] = "wipe" <=> at[i] = 4
      /\ Chain[at[i]] = "has_products" <=> at[i] = 3
  <2>1. \A n \in 1..50 : (Chain[n] = "wipe" <=> n = 4) /\ (Chain[n] = "has_products" <=> n = 3)
    BY DEF Chain
  <2> QED BY <1>2, <2>1
<1>5. NextStep(at[i]) = IF Chain[at[i]] = "has_products" /\ HasProducts(db) THEN 6 ELSE at[i] + 1
  BY Places DEF NextStep
<1>6. CASE HasProducts(db)
  BY <1>3, <1>4, <1>5, <1>6
<1>7. CASE ~HasProducts(db)
  BY <1>2, <1>3, <1>4, <1>5, <1>7
<1> QED BY <1>4, <1>6, <1>7

\* Migrate does so.
LEMMA MigrateLogs ==
  ASSUME Inv, NEW i \in Instances, Migrate(i)
  PROVE  Logs(i)
<1>1. Advances(i) /\ Runs(i)
  BY MigrateAdvances DEF Migrate
<1>2. log' = [log EXCEPT !.late = @ \/ (Chain[at[i]] = "wipe" /\ HasProducts(db))]
  BY DEF Migrate
<1>3. LogTyped
  BY DEF Inv, Shape
<1>4. log'.since = log.since /\ log'.fix = log.fix
  BY <1>2, <1>3 DEF LogTyped
<1>5. log'.late = (log.late \/ (at[i] = 4 /\ HasProducts(db)))
  BY <1>1, RunTurns DEF Advances
<1> QED BY <1>1, <1>4, <1>5, RunTurns DEF Logs

\* So does a step that loses an edit.
LEMMA LostLogs ==
  ASSUME Inv, NEW i \in Instances, NEW j \in Instances, UpdateLost(i, j)
  PROVE  Logs(i)
<1>1. Advances(i) /\ log'.since = {} /\ log'.fix = None
  BY LostAdvances
<1>2. Runs(i)
  BY DEF UpdateLost
<1>3. log'.late = (log.late \/ (at[i] = 4 /\ HasProducts(db)))
  BY <1>1, <1>2, RunTurns DEF Advances
<1> QED BY <1>1, <1>2, <1>3, RunTurns DEF Logs

\* So does Finish.
LEMMA FinishLogs ==
  ASSUME Inv, NEW i \in Instances, Finish(i)
  PROVE  Logs(i)
<1>1. Advances(i) /\ at[i] = 50 /\ at'[i] = 51
  BY FinishAdvances
<1>2. LogTyped
  BY DEF Inv, Shape
<1> DEFINE torn == log.torn /\ i \notin log.since
           alone == Booting = {i} /\ i \in log.since /\ ~torn
           fix == IF alone THEN db' ELSE log.fix
<1>3. log' = [log EXCEPT !.torn = torn, !.fix = fix]
  BY DEF Finish
<1>4. fix = log.fix \/ (fix = db' /\ Booting = {i} /\ i \in log.since)
  OBVIOUS
<1> HIDE DEF torn, fix
<1>5. log'.since = log.since /\ log'.fix = fix
  BY <1>2, <1>3 DEF LogTyped
<1>6. log'.late = log.late
  BY <1>2, <1>3 DEF LogTyped
<1>7. log.late \in BOOLEAN /\ ~(at[i] = 4) /\ ~(at[i] = 3)
  BY <1>1, <1>2 DEF LogTyped
<1> QED BY <1>1, <1>4, <1>5, <1>6, <1>7 DEF Logs

\* Past n, and with no other boot behind it, what was done with is so still
\* when another step is taken.
LEMMA StillDone ==
  ASSUME DoneInvs, NEW j \in Instances, Advances(j), NEW i \in log.since,
         NEW n \in 1..50, n < at[i], n < at[j], ~Behind(n)'
  PROVE  Done(n, db)
<1>1. Inv /\ DoneInv
  BY DEF DoneInvs
<1>2. /\ \A k \in Instances : at[k] \in 0..51 /\ at'[k] \in 0..51
      /\ \A k \in Instances : k # j => at'[k] = at[k]
  BY <1>1, AdvanceDoes
<1>3. ~Behind(n)
  <2> SUFFICES ASSUME NEW k \in Instances, at[k] \in 1..n PROVE FALSE
    BY DEF Behind
  <2>1. k # j
    BY <1>2
  <2>2. at'[k] \in 1..n
    BY <1>2, <2>1
  <2> QED BY <2>2 DEF Behind
<1> QED BY <1>1, <1>3 DEF DoneInv

\* Then it is done with all the steps before its own.
LEMMA AllBefore ==
  ASSUME DoneInvs, NEW j \in Instances, Advances(j), NEW i \in log.since,
         i \in Instances, NEW m \in 1..50, at[j] = m, at[i] >= m, ~Behind(m)'
  PROVE  \A n \in 1..50 : n < m => Done(n, db)
<1> SUFFICES ASSUME NEW n \in 1..50, n < m PROVE Done(n, db)
  OBVIOUS
<1>1. \A k \in Instances : at[k] \in 0..51 /\ at'[k] \in 0..51
  BY AdvanceDoes DEF DoneInvs
<1>2. ~Behind(n)'
  <2> SUFFICES ASSUME NEW k \in Instances, at'[k] \in 1..n PROVE FALSE
    BY DEF Behind
  <2>1. at'[k] \in 1..m
    OBVIOUS
  <2> QED BY <2>1 DEF Behind
<1>3. n < at[i] /\ n < at[j]
  BY <1>1
<1> QED BY <1>2, <1>3, StillDone

\* Where the steps are that count on others.
LEMMA CountingSteps ==
  /\ Chain[5] = "load" /\ Chain[13] = "v9" /\ Chain[29] = "v25_artwork"
  /\ \A n \in 1..50 : Chain[n] = "v3" => n = 7
  /\ \A n \in 1..50 : Chain[n] = "v26" => n = 31
  /\ \A n \in 1..50 : Chain[n] = "v37_7" => n = 43
  /\ \A n \in 1..50 : Chain[n] \in {"v9", "v13", "v14", "v16", "v43", "v44"} => n > 8
BY DEF Chain

\* With all the steps before it done, a step has what it counts on.
LEMMA MakesReady ==
  ASSUME NEW m \in 1..50, NEW d, m > 8 => d.prompt # <<>>,
         \A n \in 1..50 : n < m => Fact(Chain[n], d)
  PROVE  Ready(Chain[m], d)
<1>1. Chain[m] \in {"v9", "v13", "v14", "v16", "v43", "v44"} => d.prompt # <<>>
  BY CountingSteps
<1>2. Chain[m] = "v3" => HasProducts(d)
  <2> SUFFICES ASSUME Chain[m] = "v3" PROVE HasProducts(d)
    OBVIOUS
  <2>1. m = 7
    BY CountingSteps
  <2>2. Fact("load", d)
    BY <2>1, CountingSteps
  <2> QED BY <2>2 DEF Fact, Settles, HasProducts
<1>3. Chain[m] = "v26" => d.val["artwork"] # "single"
  <2> SUFFICES ASSUME Chain[m] = "v26" PROVE d.val["artwork"] # "single"
    OBVIOUS
  <2>1. m = 31
    BY CountingSteps
  <2>3. 29 \in 1..50 /\ 29 < m
    BY <2>1
  <2>2. Fact("v25_artwork", d)
    BY <2>3, CountingSteps
  <2> QED BY <2>2 DEF Fact, Settles
<1>4. Chain[m] = "v37_7" => d.val["missive_from_address"] # Missing
  <2> SUFFICES ASSUME Chain[m] = "v37_7" PROVE d.val["missive_from_address"] # Missing
    OBVIOUS
  <2>1. m = 43
    BY CountingSteps
  <2>4. 13 \in 1..50 /\ 13 < m
    BY <2>1
  <2>2. Fact("v9", d)
    BY <2>4, CountingSteps
  <2>3. "missive_from_address" \in Brings("v9")
    BY DEF Brings
  <2> QED BY <2>2, <2>3 DEF Fact
<1> QED BY <1>1, <1>2, <1>3, <1>4 DEF Ready

\* The first four steps add columns, at most.
LEMMA FirstFacts ==
  ASSUME NEW n \in 1..4, NEW d, NEW e, d.cols \subseteq e.cols, Fact(Chain[n], d)
  PROVE  Fact(Chain[n], e)
<1>1. \A s \in {"init_db", "pre_ddl", "has_products", "wipe"} :
        Brings(s) = {} /\ \A v : Settles(s, v)
  BY DEF Brings, Settles
<1>2. Chain[n] \in {"init_db", "pre_ddl", "has_products", "wipe"}
  BY ChainIs
<1> QED BY <1>1, <1>2 DEF Fact

\* The wipe has nothing to do again.
LEMMA WipeFact == ASSUME NEW d PROVE Fact("wipe", d)
<1>1. Brings("wipe") = {} /\ Lays("wipe") = {} /\ Settles("wipe", d.val)
  BY DEF Brings, Lays, Settles
<1> QED BY <1>1 DEF Fact

\* A step keeps what is done with.
LEMMA StepKeeps ==
  ASSUME DoneInvs, NEW j \in Instances, Advances(j), NEW n \in 1..50, n < at[j], Done(n, db)
  PROVE  Done(n, db')
<1> DEFINE m == at[j]
<1>1. /\ db \in Database /\ Opens(db.prompt) /\ db.cols \subseteq db'.cols
      /\ m \in 1..50 /\ db' = Migrated(Chain[m], db, ring[j])
  BY AdvanceDoes DEF DoneInvs, Advances, Outcome, Sane
<1>2. Fact(Chain[n], db')
  <2>1. CASE m \in {4, 5}
    <3>1. n \in 1..4
      BY <2>1
    <3> QED BY <1>1, <3>1, FirstFacts DEF Done
  <2>2. CASE m \notin {4, 5}
    <3>1. Works(Chain[m], db, db')
      BY <1>1, <2>2, OrdinarySteps, StepWorks
    <3> QED BY <1>1, <3>1, FactStays DEF Done
  <2> QED BY <2>1, <2>2
<1>3. n = 44 => db'.val["business_rules"] = "v38"
  <2> SUFFICES ASSUME n = 44 PROVE db'.val["business_rules"] = "v38"
    OBVIOUS
  <2>1. m \in 44..50 /\ m # 44
    BY <1>1
  <2>2. db.val["business_rules"] = "v38"
    BY DEF Done
  <2> QED BY <1>1, <2>1, <2>2, LastRules
<1> QED BY <1>2, <1>3 DEF Done

\* A step of an instance that all before is done for does its own.
LEMMA StepDoes ==
  ASSUME DoneInvs, NEW j \in Instances, Advances(j),
         \A n \in 1..50 : n < at[j] => Done(n, db)
  PROVE  Done(at[j], db')
<1> DEFINE m == at[j]
<1>1. /\ db \in Database /\ Opens(db.prompt)
      /\ m \in 1..50 /\ db' = Migrated(Chain[m], db, ring[j])
  BY AdvanceDoes DEF DoneInvs, Advances, Sane
<1>2. m > 8 => db.prompt # <<>>
  BY DEF DoneInvs, Inv, PromptInv
<1>3. Fact(Chain[m], db')
  <2>1. CASE m = 4
    BY <2>1, ChainIs, WipeFact
  <2>2. CASE m = 5
    BY <1>1, <2>2, ChainIs, Scripts, LoadFills
  <2>3. CASE m \notin {4, 5}
    <3>1. Works(Chain[m], db, db')
      BY <1>1, <2>3, OrdinarySteps, StepWorks
    <3>2. Ready(Chain[m], db)
      BY <1>1, <1>2, MakesReady DEF Done
    <3> QED BY <3>1, <3>2 DEF Works
  <2> QED BY <2>1, <2>2, <2>3
<1>4. m = 44 => db'.val["business_rules"] = "v38"
  <2>1. 44 \in 44..50
    OBVIOUS
  <2> QED BY <1>1, <2>1, LastRules
<1> QED BY <1>3, <1>4 DEF Done

\* A step of the chain preserves DoneInv.
LEMMA AdvanceDone ==
  ASSUME DoneInvs, NEW j \in Instances, Advances(j), Logs(j)
  PROVE  DoneInv'
<1> DEFINE m == at[j]
<1>1. /\ \A k \in Instances : at[k] \in 0..51 /\ at'[k] \in 0..51
      /\ \A k \in Instances : k # j => at'[k] = at[k]
  BY AdvanceDoes DEF DoneInvs
<1>2. m \in 1..50 /\ (at'[j] = m + 1 \/ (m = 3 /\ at'[j] = 6))
  BY DEF Advances
<1>3. log'.since \subseteq log.since /\ log.since \subseteq Instances
  BY DEF Advances, DoneInvs, Inv, Shape, LogTyped
<1> SUFFICES ASSUME NEW i \in log.since, NEW n \in 1..50, n < at'[i], ~Behind(n)'
             PROVE  Done(n, db')
  BY <1>3 DEF DoneInv
<1>4. i \in Instances
  BY <1>3
<1>5. n < at'[j]
  <2>1. at'[j] \notin 1..n
    BY DEF Behind
  <2> QED BY <1>1, <1>2, <2>1
<1>6. CASE n < m
  <2>1. n < at[i]
    BY <1>1, <1>4, <1>6
  <2>2. Done(n, db)
    BY <1>6, <2>1, StillDone
  <2> QED BY <1>6, <2>2, StepKeeps
<1>7. CASE n = m
  <2>1. at[i] >= m
    BY <1>1, <1>2, <1>4, <1>7
  <2>2. \A k \in 1..50 : k < m => Done(k, db)
    BY <1>2, <1>4, <1>7, <2>1, AllBefore
  <2> QED BY <1>7, <2>2, StepDoes
<1>8. CASE m = 3 /\ at'[j] = 6 /\ n \in {4, 5}
  <2>1. HasProducts(db)
    BY <1>8 DEF Logs
  <2>2. db' = db
    <3>1. db' = Migrated(Chain[3], db, ring[j])
      BY <1>8 DEF Advances
    <3> QED BY <3>1, ChainIs DEF Migrated
  <2>3. Fact("load", db)
    <3>1. Brings("load") = {} /\ Lays("load") = {}
      BY DEF Brings, Lays
    <3>2. Settles("load", db.val)
      BY <2>1 DEF Settles, HasProducts
    <3> QED BY <3>1, <3>2 DEF Fact
  <2> QED BY <1>8, <2>2, <2>3, ChainIs, WipeFact DEF Done
<1>9. n < m \/ n = m \/ (m = 3 /\ at'[j] = 6 /\ n \in {4, 5})
  BY <1>2, <1>5
<1> QED BY <1>6, <1>7, <1>8, <1>9

\* The last step, of the only boot about, leaves everything done.
LEMMA AloneDone ==
  ASSUME DoneInvs, NEW j \in Instances, Advances(j), DoneInv', log'.since = log.since,
         at[j] = 50, at'[j] = 51, Booting = {j}, j \in log.since
  PROVE  /\ \A n \in 1..50 : Done(n, db')
         /\ \A k \in Instances : at'[k] \notin {4, 5}
<1>1. /\ \A k \in Instances : at[k] \in 0..51 /\ at'[k] \in 0..51
      /\ \A k \in Instances : k # j => at'[k] = at[k]
  BY AdvanceDoes DEF DoneInvs
<1>2. \A k \in Instances : at'[k] \in {0, 51}
  <2>1. \A k \in Instances : k # j => at[k] \notin 1..50
    BY Places DEF Booting
  <2>2. \A k \in Instances : k # j => at[k] \in {0, 51}
    BY <1>1, <2>1
  <2> QED BY <1>1, <2>2
<1>3. ASSUME NEW n \in 1..50 PROVE Done(n, db')
  <2>1. ~Behind(n)'
    <3> SUFFICES ASSUME NEW k \in Instances, at'[k] \in 1..n PROVE FALSE
      BY DEF Behind
    <3> QED BY <1>2
  <2>2. n < at'[j] /\ j \in log'.since
    OBVIOUS
  <2> QED BY <2>1, <2>2 DEF DoneInv
<1>4. \A k \in Instances : at'[k] \notin {4, 5}
  BY <1>2
<1> QED BY <1>3, <1>4

\* On a database that is done with a step changes nothing.
LEMMA FixedStep ==
  ASSUME DoneInvs, NEW j \in Instances, Advances(j), log.fix # None
  PROVE  /\ at[j] \notin {4, 5} /\ db.cols \subseteq db'.cols
         /\ Same(db, db') /\ Same(log.fix, db')
<1>1. /\ log.fix.cols \subseteq db.cols /\ Same(log.fix, db)
      /\ \A n \in 1..50 : Done(n, log.fix)
      /\ at[j] \notin {4, 5}
  BY DEF DoneInvs, FixInv
<1>2. /\ db \in Database /\ Opens(db.prompt) /\ db.cols \subseteq db'.cols
      /\ at[j] \in 1..50 /\ db' = Migrated(Chain[at[j]], db, ring[j])
  BY AdvanceDoes DEF DoneInvs, Advances, Outcome, Sane
<1>3. Fact(Chain[at[j]], db)
  BY <1>1, <1>2, FactSame DEF Done
<1>4. Works(Chain[at[j]], db, db')
  BY <1>1, <1>2, OrdinarySteps, StepWorks
<1>5. Same(db, db')
  BY <1>3, <1>4 DEF Works
<1>6. Same(log.fix, db')
  BY <1>1, <1>5 DEF Same
<1> QED BY <1>1, <1>2, <1>5, <1>6

\* A step of the chain preserves FixInv.
LEMMA AdvanceFix ==
  ASSUME DoneInvs, NEW j \in Instances, Advances(j), Logs(j), DoneInv'
  PROVE  FixInv'
<1>1. CASE log'.fix \notin {log.fix, None}
  <2>1. /\ log'.fix = db' /\ at[j] = 50 /\ at'[j] = 51 /\ Booting = {j} /\ j \in log.since
        /\ log'.since = log.since
    BY <1>1 DEF Logs
  <2>2. /\ \A n \in 1..50 : Done(n, db')
        /\ \A k \in Instances : at'[k] \notin {4, 5}
    BY <2>1, AloneDone
  <2>3. Same(db', db')
    BY DEF Same
  <2> QED BY <2>1, <2>2, <2>3 DEF FixInv
<1>2. CASE log'.fix = log.fix /\ log.fix # None
  <2>1. /\ at[j] \notin {4, 5} /\ db.cols \subseteq db'.cols /\ Same(log.fix, db')
    BY <1>2, FixedStep
  <2>2. /\ log.fix.cols \subseteq db.cols /\ Same(log.fix, db)
        /\ \A n \in 1..50 : Done(n, log.fix)
        /\ \A k \in Instances : at[k] \notin {4, 5}
    BY <1>2 DEF DoneInvs, FixInv
  <2>3. HasProducts(db)
    <3>1. Fact(Chain[5], log.fix)
      <4>1. 5 \in 1..50
        OBVIOUS
      <4> QED BY <2>2, <4>1 DEF Done
    <3>2. Fact("load", db)
      BY <2>2, <3>1, FactSame, ChainIs
    <3> QED BY <3>2 DEF Fact, Settles, HasProducts
  <2>4. at'[j] \notin {4, 5}
    <3>1. at[j] \in 1..50 /\ (at'[j] = at[j] + 1 \/ (at[j] = 3 /\ at'[j] = 6))
      BY DEF Advances
    <3>2. ~(at[j] = 3 /\ at'[j] = 4)
      BY <2>3 DEF Logs
    <3> QED BY <2>1, <3>1, <3>2
  <2>5. \A k \in Instances : k # j => at'[k] = at[k]
    BY AdvanceDoes DEF DoneInvs
  <2>6. \A k \in Instances : at'[k] \notin {4, 5}
    BY <2>2, <2>4, <2>5
  <2>7. log.fix.cols \subseteq db'.cols
    BY <2>1, <2>2
  <2> QED BY <1>2, <2>1, <2>2, <2>6, <2>7 DEF FixInv
<1>3. CASE log'.fix = None
  BY <1>3 DEF FixInv
<1> QED BY <1>1, <1>2, <1>3

\* What all steps saw to, on a stocked database with a clean prompt, is what
\* the code expects.
LEMMA AllDoneServes ==
  ASSUME NEW d, \A n \in 1..50 : Done(n, d), Stock(d), d.val["catalogue"] # Missing,
         Clean(d.prompt)
  PROVE  Serviceable(d)
<1>1. \A s \in Ordinary : Fact(s, d)
  <2>1. \A s \in Ordinary : \E n \in DOMAIN Chain : Chain[n] = s
    <3>1. Ordinary \subseteq {Chain[n] : n \in DOMAIN Chain}
      BY DEF Ordinary, Chain
    <3> QED BY <3>1
  <2> QED BY <2>1, Places DEF Done
<1>2. /\ "v2" \in Ordinary /\ "v3" \in Ordinary /\ "v4" \in Ordinary /\ "v9" \in Ordinary
      /\ "v12" \in Ordinary /\ "v13" \in Ordinary /\ "v14" \in Ordinary
      /\ "v15" \in Ordinary /\ "v16" \in Ordinary /\ "v18" \in Ordinary
      /\ "v19" \in Ordinary /\ "v20" \in Ordinary /\ "v21" \in Ordinary
      /\ "v22" \in Ordinary /\ "v23" \in Ordinary /\ "v24" \in Ordinary
      /\ "v25_artwork" \in Ordinary /\ "v26" \in Ordinary /\ "v27" \in Ordinary
      /\ "v30" \in Ordinary /\ "v31" \in Ordinary /\ "v33" \in Ordinary
      /\ "v34_rules" \in Ordinary /\ "v35" \in Ordinary
      /\ "v37_threshold" \in Ordinary /\ "v37_flags" \in Ordinary
      /\ "v37_7" \in Ordinary /\ "v38" \in Ordinary /\ "v43" \in Ordinary
      /\ "v44" \in Ordinary /\ "pre_ddl" \in Ordinary
  BY DEF Ordinary
<1>3. AllCols \subseteq d.cols
  <2>1. \A s \in {"v2", "v3", "v12", "v15", "v19", "v20", "v22", "v23", "v24", "v30", "v33"} :
          Lays(s) = {s} /\ s \in Ordinary
    BY <1>2 DEF Lays
  <2>2. /\ Lays("v25_artwork") = {"v25"}
        /\ Lays("pre_ddl") = {"v34", "v35", "v36", "v37", "v38", "v39", "v40", "v41"}
    BY DEF Lays
  <2>3. {"v2", "v3", "v12", "v15", "v19", "v20", "v22", "v23", "v24", "v30", "v33"}
          \subseteq d.cols
    BY <1>1, <2>1 DEF Fact
  <2>4. {"v25", "v34", "v35", "v36", "v37", "v38", "v39", "v40", "v41"} \subseteq d.cols
    BY <1>1, <1>2, <2>2 DEF Fact
  <2> QED BY <2>3, <2>4 DEF AllCols
<1>4. d.val["business_rules"] = "v38"
  <2>1. 44 \in 1..50
    OBVIOUS
  <2> QED BY <2>1 DEF Done
<1>5. ASSUME NEW s \in Ordinary, NEW x \in Brings(s) PROVE d.val[x] # Missing
  BY <1>1 DEF Fact
<1>6. ASSUME NEW s \in Ordinary PROVE Settles(s, d.val)
  BY <1>1 DEF Fact
<1>7. \A x \in Settings \ {"stripe_secret_key"} : d.val[x] # Missing
  <2>1. /\ "widget" \in Brings("v4") /\ "missive" \in Brings("v9")
        /\ "missive_enabled" \in Brings("v9") /\ "missive_from_address" \in Brings("v9")
        /\ "printlogic_dry_run" \in Brings("v13") /\ "multiplier" \in Brings("v14")
        /\ "stripe_enabled" \in Brings("v16") /\ "auto_draft" \in Brings("v19")
        /\ "faqs" \in Brings("v22") /\ "shop_address" \in Brings("v22")
        /\ "shipping" \in Brings("v23") /\ "auto_send" \in Brings("v31")
        /\ "notify_to" \in Brings("v33") /\ "poa_keywords" \in Brings("v34_rules")
        /\ "alert_email" \in Brings("v35") /\ "threshold" \in Brings("v37_threshold")
        /\ "team_domains" \in Brings("v37_7") /\ "last_known" \in Brings("v37_7")
        /\ "laydown" \in Brings("v43") /\ "temperature" \in Brings("v44")
    BY DEF Brings
  <2>2. /\ d.val["widget"] # Missing /\ d.val["missive"] # Missing
        /\ d.val["missive_enabled"] # Missing /\ d.val["missive_from_address"] # Missing
        /\ d.val["printlogic_dry_run"] # Missing /\ d.val["multiplier"] # Missing
        /\ d.val["stripe_enabled"] # Missing /\ d.val["auto_draft"] # Missing
        /\ d.val["faqs"] # Missing /\ d.val["shop_address"] # Missing
        /\ d.val["shipping"] # Missing /\ d.val["auto_send"] # Missing
        /\ d.val["notify_to"] # Missing /\ d.val["poa_keywords"] # Missing
        /\ d.val["alert_email"] # Missing /\ d.val["threshold"] # Missing
        /\ d.val["team_domains"] # Missing /\ d.val["last_known"] # Missing
        /\ d.val["laydown"] # Missing /\ d.val["temperature"] # Missing
    BY <1>2, <1>5, <2>1
  <2>3. Settles("v27", d.val) /\ Settles("v33", d.val)
    BY <1>2, <1>6
  <2>4. d.val["order_status"] = "seed" /\ d.val["notifications_enabled"] = "true"
    BY <2>3 DEF Settles
  <2>5. /\ d.val["order_status"] # Missing /\ d.val["notifications_enabled"] # Missing
        /\ d.val["business_rules"] # Missing
    BY <1>4, <2>4 DEF Missing
  <2> QED BY <2>2, <2>5 DEF Settings
<1>8. \A x \in ProductItems : d.val[x] # Missing
  <2>1. "posters" \in Brings("v38")
    BY DEF Brings
  <2>2. Settles("v21", d.val)
    BY <1>2, <1>6
  <2>3. d.val["posters"] # Missing /\ d.val["secretest"] # Missing
    BY <1>2, <1>5, <2>1, <2>2 DEF Settles, Missing
  <2>4. \A x \in ProductItems : x \in Stocked \cup {"posters", "secretest"}
    BY DEF Stocked, PricingItems
  <2>5. \A x \in Stocked : d.val[x] # Missing
    BY DEF Stock
  <2> QED BY <2>3, <2>4, <2>5
<1>9. d.val["stripe_secret_key"] = Missing
  <2>1. Settles("v18", d.val)
    BY <1>2, <1>6
  <2> QED BY <2>1 DEF Settles
<1>10. d.val["artwork"] \in {Missing, "list"}
  <2>1. Settles("v26", d.val)
    BY <1>2, <1>6
  <2> QED BY <2>1 DEF Settles, Stock
<1>11. d.val["vinyl_strategy"] = "per_sqm" => d.val["vinyl_manual"] = "no"
  <2>1. Settles("v37_flags", d.val)
    BY <1>2, <1>6
  <2>2. "vinyl_manual" \in ProductItems
    BY DEF ProductItems
  <2>3. d.val["vinyl_manual"] \in {"yes", "no"}
    BY <1>8, <2>2 DEF Stock
  <2> QED BY <2>1, <2>3 DEF Settles
<1>12. \A n \in DOMAIN d.prompt : d.prompt[n] \notin {"contact", "legacy"}
  BY DEF Clean, Has
<1>13. \A x \in (Settings \ {"stripe_secret_key"}) \cup ProductItems : d.val[x] # Missing
  BY <1>7, <1>8
<1> QED BY <1>3, <1>4, <1>9, <1>10, <1>11, <1>12, <1>13 DEF Serviceable

\* A step of the chain preserves StockInv.
LEMMA AdvanceStock ==
  ASSUME DoneInvs, NEW j \in Instances, Advances(j), Logs(j), DoneInv', Inv'
  PROVE  StockInv'
<1> DEFINE m == at[j]
           d == db
           e == db'
<1>1. /\ d \in Database /\ Opens(d.prompt) /\ Sane(d) /\ m \in 1..50
      /\ e = Migrated(Chain[m], d, ring[j])
      /\ (at'[j] = m + 1 \/ (m = 3 /\ at'[j] = 6))
  BY AdvanceDoes DEF DoneInvs, Advances, Sane
<1>2. /\ \A k \in Instances : at[k] \in 0..51 /\ at'[k] \in 0..51
      /\ \A k \in Instances : k # j => at'[k] = at[k]
  BY AdvanceDoes DEF DoneInvs
<1>3. /\ Stock(d)
      /\ ~log.late =>
           /\ HasProducts(d) => d.val["catalogue"] # Missing
           /\ \A i \in Instances : at[i] > 5 => d.val["catalogue"] # Missing
           /\ log.fix # None => Serviceable(log.fix)
  BY DEF DoneInvs, StockInv
<1>4. Stock(e)
  BY <1>1, <1>3, StaysStock
<1>5. ASSUME ~log'.late
      PROVE  /\ HasProducts(e) => e.val["catalogue"] # Missing
             /\ \A i \in Instances : at'[i] > 5 => e.val["catalogue"] # Missing
             /\ log'.fix # None => Serviceable(log'.fix)
  <2>1. ~log.late /\ ~(m = 4 /\ HasProducts(d))
    BY <1>5 DEF Logs
  <2>2. /\ HasProducts(d) => d.val["catalogue"] # Missing
        /\ \A i \in Instances : at[i] > 5 => d.val["catalogue"] # Missing
        /\ log.fix # None => Serviceable(log.fix)
    BY <1>3, <2>1
  <2>3. /\ HasProducts(e) => e.val["catalogue"] # Missing
        /\ \A i \in Instances : at'[i] > 5 => e.val["catalogue"] # Missing
    <3>1. CASE m \in 1..3
      <4>1. e.val = d.val
        BY <1>1, <3>1, EarlySteps
      <4>2. HasProducts(e) <=> HasProducts(d)
        BY <4>1 DEF HasProducts
      <4>3. at'[j] > 5 => HasProducts(d)
        BY <1>1, <3>1 DEF Logs
      <4>4. \A i \in Instances : at'[i] > 5 => d.val["catalogue"] # Missing
        BY <1>2, <2>2, <4>3
      <4>5. e.val["catalogue"] = d.val["catalogue"]
        BY <4>1
      <4> HIDE DEF d, e
      <4> QED BY <2>2, <4>2, <4>4, <4>5
    <3>2. CASE m = 4
      <4>1. e = Wipe(d)
        BY <1>1, <3>2, ChainIs, Scripts
      <4>2. ~HasProducts(e)
        BY <1>1, <4>1, WipeEmpties
      <4>3. d.val["catalogue"] = Missing
        BY <2>1, <3>2 DEF HasProducts
      <4>4. \A i \in Instances : ~(at[i] > 5)
        BY <2>2, <4>3
      <4>5. \A i \in Instances : ~(at'[i] > 5)
        BY <1>1, <1>2, <3>2, <4>4
      <4> QED BY <4>2, <4>5
    <3>3. CASE m = 5
      <4>1. e = Load(d)
        BY <1>1, <3>3, ChainIs, Scripts
      <4>2. "catalogue" \in Stocked
        BY DEF Stocked, PricingItems, ProductItems
      <4> QED BY <1>1, <4>1, <4>2, LoadFills
    <3>4. CASE m > 5
      <4>1. Works(Chain[m], d, e)
        BY <1>1, <3>4, OrdinarySteps, StepWorks
      <4>2. d.val["catalogue"] # Missing
        BY <2>2, <3>4
      <4>3. "catalogue" \in Items \ {"stripe_secret_key"}
        BY Named
      <4>4. e.val["catalogue"] # Missing
        <5> HIDE DEF d, e
        <5> QED BY <4>1, <4>2, <4>3 DEF Works
      <4> QED BY <4>4
    <3> QED BY <1>1, <3>1, <3>2, <3>3, <3>4
  <2>4. log'.fix # None => Serviceable(log'.fix)
    <3>1. CASE log'.fix \in {log.fix, None}
      BY <2>2, <3>1
    <3>2. CASE log'.fix \notin {log.fix, None}
      <4>1. /\ log'.fix = e /\ at[j] = 50 /\ at'[j] = 51 /\ Booting = {j}
            /\ j \in log.since /\ log'.since = log.since
        BY <3>2 DEF Logs
      <4>2. \A n \in 1..50 : Done(n, e)
        BY <4>1, AloneDone
      <4>3. e.val["catalogue"] # Missing
        BY <2>3, <4>1
      <4>4. Clean(e.prompt)
        <5>1. at'[j] > 9 /\ at'[j] > 11 /\ j \in log'.since
          BY <4>1
        <5> QED BY <5>1 DEF Inv, PromptInv, Clean
      <4> QED BY <1>4, <4>1, <4>2, <4>3, <4>4, AllDoneServes
    <3> QED BY <3>1, <3>2
  <2> QED BY <2>3, <2>4
<1> QED BY <1>4, <1>5 DEF StockInv

\* With the values as they were, and nobody further on, the stock is as it was.
LEMMA StockKept ==
  ASSUME DoneInvs, db'.val = db.val, log'.late = log.late, log'.fix \in {log.fix, None},
         \A k \in Instances : at'[k] > 5 => at[k] > 5
  PROVE  StockInv'
<1>1. StockInv
  BY DEF DoneInvs
<1>2. (HasProducts(db') <=> HasProducts(db)) /\ (Stock(db) => Stock(db'))
  BY DEF HasProducts, Stock
<1> QED BY <1>1, <1>2 DEF StockInv

\* With the values and columns as they were, what a boot left is unchanged.
LEMMA FixKept ==
  ASSUME DoneInvs, db'.val = db.val, db'.cols = db.cols, log'.fix \in {log.fix, None},
         \A k \in Instances : at'[k] \in {at[k], 0, 1}
  PROVE  FixInv'
<1>1. FixInv
  BY DEF DoneInvs
<1>2. Same(log.fix, db) => Same(log.fix, db')
  BY DEF Same
<1> QED BY <1>1, <1>2 DEF FixInv

\* What is done does not depend on the prompt or the secret.
LEMMA DoneSame ==
  ASSUME NEW d, NEW e, e.val = d.val, e.cols = d.cols, NEW n, Done(n, d)
  PROVE  Done(n, e)
BY DEF Done, Fact

\* A boot that begins has every step before it.
LEMMA StartDone ==
  ASSUME DoneInvs, NEW i \in Instances, Start(i)
  PROVE  DoneInv' /\ FixInv' /\ StockInv'
<1>1. /\ at' = [at EXCEPT ![i] = 1] /\ db' = db
      /\ log' = [log EXCEPT !.since = @ \cup {i}]
  BY DEF Start
<1>2. Inv
  BY DEF DoneInvs
<1>3. /\ at'[i] = 1 /\ \A j \in Instances : j # i => at'[j] = at[j]
      /\ \A j \in Instances : at[j] \in 0..51 /\ at'[j] \in 0..51
  <2>1. 1 \in 0..51
    OBVIOUS
  <2> QED BY <1>1, <1>2, <2>1, Stepped
<1>4. log'.late = log.late /\ log'.fix = log.fix
  BY <1>1, <1>2 DEF Inv, Shape, LogTyped
<1>5. DoneInv'
  <2>1. \A n \in 1..50 : Behind(n)'
    BY <1>3 DEF Behind
  <2> QED BY <2>1 DEF DoneInv
<1>6. FixInv'
  BY <1>1, <1>3, <1>4, FixKept
<1>7. StockInv'
  <2>1. \A k \in Instances : at'[k] > 5 => at[k] > 5
    BY <1>3
  <2> QED BY <1>1, <1>4, <2>1, StockKept
<1> QED BY <1>5, <1>6, <1>7

\* A boot that dies takes away what is known of the others.
LEMMA DiesDone ==
  ASSUME DoneInvs, NEW i \in Instances, Dies(i)
  PROVE  DoneInv' /\ FixInv' /\ StockInv'
<1>1. /\ at' = [at EXCEPT ![i] = 0] /\ db' = Forget(i)
      /\ log' = [log EXCEPT !.torn = TRUE, !.since = {}]
  BY DEF Dies, Down
<1>2. Inv /\ db \in Database
  BY DEF DoneInvs, Inv, Shape, Sane
<1>3. /\ at'[i] = 0 /\ \A j \in Instances : j # i => at'[j] = at[j]
      /\ \A j \in Instances : at[j] \in 0..51 /\ at'[j] \in 0..51
  <2>1. 0 \in 0..51
    OBVIOUS
  <2> QED BY <1>1, <1>2, <2>1, Stepped
<1>4. log'.late = log.late /\ log'.fix = log.fix /\ log'.since = {}
  BY <1>1, <1>2 DEF Inv, Shape, LogTyped
<1>5. db'.val = db.val /\ db'.cols = db.cols
  BY <1>1, <1>2, ForgetDoes
<1>6. DoneInv'
  BY <1>4 DEF DoneInv
<1>7. FixInv'
  BY <1>3, <1>4, <1>5, FixKept
<1>8. StockInv'
  <2>1. \A k \in Instances : at'[k] > 5 => at[k] > 5
    BY <1>3
  <2> QED BY <1>4, <1>5, <2>1, StockKept
<1> QED BY <1>6, <1>7, <1>8

\* An instance that stops had no step before it.
LEMMA StopDone ==
  ASSUME DoneInvs, NEW i \in Instances, Stop(i)
  PROVE  DoneInv' /\ FixInv' /\ StockInv'
<1>1. /\ at[i] = 51 /\ at' = [at EXCEPT ![i] = 0] /\ db' = Forget(i) /\ log' = log
  BY Places DEF Stop, Down, Up
<1>2. Inv /\ db \in Database /\ DoneInv /\ log.since \subseteq Instances
  BY DEF DoneInvs, Inv, Shape, Sane, LogTyped
<1>3. /\ at'[i] = 0 /\ \A j \in Instances : j # i => at'[j] = at[j]
      /\ \A j \in Instances : at[j] \in 0..51 /\ at'[j] \in 0..51
  <2>1. 0 \in 0..51
    OBVIOUS
  <2> QED BY <1>1, <1>2, <2>1, Stepped
<1>4. db'.val = db.val /\ db'.cols = db.cols
  BY <1>1, <1>2, ForgetDoes
<1>5. DoneInv'
  <2> SUFFICES ASSUME NEW k \in log.since, NEW n \in 1..50, n < at'[k], ~Behind(n)'
               PROVE  Done(n, db')
    BY <1>1 DEF DoneInv
  <2>1. n < at[k]
    BY <1>2, <1>3
  <2>2. ~Behind(n)
    <3> SUFFICES ASSUME NEW j \in Instances, at[j] \in 1..n PROVE FALSE
      BY DEF Behind
    <3>1. j # i
      BY <1>1
    <3>2. at'[j] \in 1..n
      BY <1>3, <3>1
    <3> QED BY <3>2 DEF Behind
  <2>3. Done(n, db)
    BY <1>2, <2>1, <2>2 DEF DoneInv
  <2> QED BY <1>4, <2>3, DoneSame
<1>6. FixInv'
  BY <1>1, <1>3, <1>4, FixKept
<1>7. StockInv'
  <2>1. \A k \in Instances : at'[k] > 5 => at[k] > 5
    BY <1>3
  <2> QED BY <1>1, <1>4, <2>1, StockKept
<1> QED BY <1>5, <1>6, <1>7

\* An edit takes away what is known of the boots.
LEMMA EditDone ==
  ASSUME DoneInvs, NEW i \in Instances, NEW x, NEW v, Edit(i, x, v)
  PROVE  /\ DoneInv' /\ FixInv' /\ at' = at
         /\ log'.fix = None /\ log'.late = log.late
<1>1. log' = [log EXCEPT !.fix = None, !.since = {}, !.over = @ \ {x}] /\ at' = at
  BY DEF Edit
<1>2. LogTyped
  BY DEF DoneInvs, Inv, Shape
<1>3. log'.fix = None /\ log'.since = {} /\ log'.late = log.late
  BY <1>1, <1>2 DEF LogTyped
<1> QED BY <1>1, <1>3 DEF DoneInv, FixInv

\* A setting or a product is written: no product comes or goes.
LEMMA ItemDone ==
  ASSUME DoneInvs, NEW i \in Instances, UpdateItem(i)
  PROVE  DoneInv' /\ FixInv' /\ StockInv'
<1>1. PICK a \in Edits :
        /\ a[1] \in PricingItems => db.val[a[1]] # Missing
        /\ Edit(i, a[1], a[2]) /\ db' = Put(db, a[1], a[2])
  BY DEF UpdateItem
<1> DEFINE x == a[1]
           v == a[2]
<1>2. /\ x \in Items /\ x # "artwork" /\ v # Missing /\ v \in Words
      /\ x = "vinyl_manual" => v \in {"yes", "no"}
  BY SUAssumption, WordsAre
<1>3. /\ x \in PricingItems => db.val[x] # Missing
      /\ db' = Put(db, x, v)
  BY <1>1
<1> HIDE DEF x, v
<1>4. /\ DoneInv' /\ FixInv' /\ at' = at
      /\ log'.fix = None /\ log'.late = log.late
  BY <1>1, EditDone
<1>5. db \in Database /\ StockInv
  BY DEF DoneInvs, Inv, Shape, Sane
<1> DEFINE e == db'
<1>6. \A y \in Items : e.val[y] = IF y = x THEN v ELSE db.val[y]
  BY <1>2, <1>3, <1>5, PutValues
<1>7. \A y \in {"catalogue", "posters", "secretest"} :
        y \in Items /\ y \in PricingItems
  BY Named DEF PricingItems, ProductItems
<1> HIDE DEF e
<1>8. \A y \in {"catalogue", "posters", "secretest"} :
        e.val[y] # Missing <=> db.val[y] # Missing
  BY <1>2, <1>3, <1>6, <1>7
<1>9. HasProducts(e) <=> HasProducts(db)
  BY <1>8 DEF HasProducts
<1>10. Stock(e)
  <2>1. Stock(db)
    BY <1>5 DEF StockInv
  <2>2. "artwork" \in Items /\ "vinyl_manual" \in Items /\ \A y \in Stocked : y \in Items
    BY Named DEF Stocked, Items
  <2>3. e.val["artwork"] = db.val["artwork"]
    BY <1>2, <1>6, <2>2
  <2>4. e.val["vinyl_manual"] \in {Missing, "yes", "no"}
    BY <1>2, <1>6, <2>1, <2>2 DEF Stock
  <2>5. e.val["catalogue"] # Missing => \A y \in Stocked : e.val[y] # Missing
    BY <1>2, <1>6, <1>8, <2>1, <2>2 DEF Stock
  <2> QED BY <2>1, <2>3, <2>4, <2>5 DEF Stock
<1>11. e.val["catalogue"] # Missing <=> db.val["catalogue"] # Missing
  BY <1>8
<1>12. StockInv'
  BY <1>4, <1>5, <1>9, <1>10, <1>11 DEF StockInv, e
<1> QED BY <1>4, <1>12

\* The prompt or the secret is written.
LEMMA OtherEditsDone ==
  ASSUME DoneInvs, NEW i \in Instances, UpdatePrompt(i) \/ UpdateSecret(i)
  PROVE  DoneInv' /\ FixInv' /\ StockInv'
<1>1. (\E x, v : Edit(i, x, v)) /\ db'.val = db.val
  <2>1. db \in Database
    BY DEF DoneInvs, Inv, Shape, Sane
  <2> QED BY <2>1 DEF UpdatePrompt, UpdateSecret, Database
<1>2. /\ DoneInv' /\ FixInv' /\ at' = at
      /\ log'.fix = None /\ log'.late = log.late
  BY <1>1, EditDone
<1>3. StockInv'
  BY <1>1, <1>2, StockKept
<1> QED BY <1>2, <1>3

\* Nothing changes.
LEMMA IdleDone ==
  ASSUME DoneInvs, UNCHANGED vars PROVE DoneInv' /\ FixInv' /\ StockInv'
BY DEF DoneInvs, vars, DoneInv, Behind, FixInv, StockInv

\* A step of the chain, by whichever action, has its effect on the log.
LEMMA ChainDone ==
  ASSUME DoneInvs, NEW i \in Instances,
         Migrate(i) \/ Finish(i) \/ \E j \in Instances : UpdateLost(i, j)
  PROVE  DoneInv' /\ FixInv' /\ StockInv'
<1>1. Inv
  BY DEF DoneInvs
<1>2. Advances(i) /\ Logs(i)
  BY <1>1, MigrateAdvances, MigrateLogs, FinishAdvances, FinishLogs, LostAdvances, LostLogs
<1>3. DoneInv'
  BY <1>2, AdvanceDone
<1>4. Inv'
  BY <1>1, <1>2, AdvanceInv
<1> QED BY <1>2, <1>3, <1>4, AdvanceFix, AdvanceStock

\* Every action preserves all of it.
LEMMA NextDone == ASSUME DoneInvs, [Next]_vars PROVE DoneInvs'
<1>1. Inv'
  BY NextInv DEF DoneInvs
<1>2. DoneInv' /\ FixInv' /\ StockInv'
  <2>1. ASSUME NEW i \in Instances, Fails(i) \/ Crash(i) PROVE DoneInv' /\ FixInv' /\ StockInv'
    BY <2>1, DiesDone DEF Fails, Crash
  <2>2. ASSUME NEW i \in Instances, SaveMask(i) PROVE DoneInv' /\ FixInv' /\ StockInv'
    BY <2>2, IdleDone DEF SaveMask
  <2> QED BY <2>1, <2>2, StartDone, ChainDone, StopDone, ItemDone, OtherEditsDone,
             IdleDone DEF Next
<1> QED BY <1>1, <1>2 DEF DoneInvs

\* What boots have done stands, whatever other boots run, die or overlap, and
\* whatever was edited before.
THEOREM DoneStands == Spec => []DoneInvs
<1>1. Init => DoneInvs
  BY InitInv, InitDone DEF DoneInvs
<1>2. DoneInvs /\ [Next]_vars => DoneInvs'
  BY NextDone
<1> QED BY <1>1, <1>2, PTL DEF Spec

\* What a boot leaves that ran through with no other one about is what the
\* code expects: columns, settings, the latest rules, a clean prompt, artwork
\* as lists, products with a formula not on manual review.
THEOREM BootServesAlways == Spec => []BootServes
<1>1. DoneInvs => BootServes
  BY DEF DoneInvs, StockInv, BootServes
<1> QED BY <1>1, DoneStands, PTL

\* A boot leaves what the one before it left.
LEMMA FixStep ==
  ASSUME DoneInvs, DoneInvs', Next, log.fix # None, log'.fix # None
  PROVE  \A x \in Items \ {"soft_touch_category"} : log'.fix.val[x] = log.fix.val[x]
<1>1. CASE log'.fix = log.fix
  BY <1>1
<1>2. CASE log'.fix # log.fix
  <2>1. LogTyped
    BY DEF DoneInvs, Inv, Shape
  <2>2. PICK i \in Instances : Migrate(i) \/ Finish(i)
    <3>1. PICK j \in Instances :
            \/ Start(j) \/ Migrate(j) \/ Finish(j) \/ Fails(j) \/ Crash(j) \/ Stop(j)
            \/ UpdateItem(j) \/ UpdatePrompt(j) \/ UpdateSecret(j) \/ SaveMask(j)
            \/ \E k \in Instances : UpdateLost(j, k)
      BY DEF Next
    <3>2. ~UpdateItem(j) /\ ~UpdatePrompt(j) /\ ~UpdateSecret(j)
      BY EditDone DEF UpdateItem, UpdatePrompt, UpdateSecret
    <3>3. ~Start(j) /\ ~Fails(j) /\ ~Crash(j) /\ ~Stop(j) /\ ~SaveMask(j)
      BY <1>2, <2>1 DEF LogTyped, Start, Fails, Crash, Dies, Stop, SaveMask, vars
    <3>4. \A k \in Instances : ~UpdateLost(j, k)
      BY LostAdvances DEF DoneInvs
    <3> QED BY <3>1, <3>2, <3>3, <3>4
  <2>3. Advances(i) /\ Logs(i)
    BY <2>2, MigrateAdvances, MigrateLogs, FinishAdvances, FinishLogs DEF DoneInvs
  <2>4. log'.fix = db'
    BY <1>2, <2>3 DEF Logs
  <2>5. Same(log.fix, db')
    BY <2>3, FixedStep
  <2>6. log.fix.val["business_rules"] = "v38" /\ log'.fix.val["business_rules"] = "v38"
    <3>1. 44 \in 1..50
      OBVIOUS
    <3> QED BY <3>1 DEF DoneInvs, FixInv, Done
  <2>7. \A x \in Items \ {"soft_touch_category"} : x # "business_rules" => x \in Items \ Restless
    BY DEF Restless
  <2> QED BY <2>4, <2>5, <2>6, <2>7 DEF Same
<1> QED BY <1>1, <1>2

\* The chain is idempotent: until the next edit every boot leaves what the one
\* before it left, whatever boots died or overlapped before (startup.py:7).
THEOREM ConvergesAlways == Spec => Converges
<1> DEFINE A == log.fix # None /\ log'.fix # None =>
                  \A x \in Items \ {"soft_touch_category"} :
                    log'.fix.val[x] = log.fix.val[x]
<1>1. DoneInvs /\ DoneInvs' /\ Next => A
  BY FixStep
<1>2. [][A]_vars <=> Converges
  BY DEF Converges
<1> HIDE DEF A
<1> QED BY <1>1, <1>2, DoneStands, PTL DEF Spec
=============================================================================
