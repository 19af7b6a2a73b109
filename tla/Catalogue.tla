------------------------------ MODULE Catalogue ------------------------------
(***************************************************************************)
(* The catalogue of one shop under the dashboard's edits and imports       *)
(* (admin_api.py), and the prices Pricing takes from it.                   *)
(*                                                                         *)
(* A handler is one transaction and one action; what it refuses (404, 409, *)
(* 400, a broken constraint) changes nothing.  Two handlers that overlap   *)
(* are not modelled, nor are names, texts and pictures.  Reads of another  *)
(* shop's rows are out of the model: there is one shop.                    *)
(***************************************************************************)
EXTENDS Pricing

CONSTANTS
  Keys,        \* product keys
  Categories,  \* category slugs
  RateIds,     \* VAT rates
  RuleNames,   \* surcharges
  Start,       \* the catalogue the shop begins with
  Rows,        \* product rows: functions from the columns given to values
  Batches,     \* product imports, sequences of rows
  RuleRows,    \* surcharge rules
  RuleBatches, \* surcharge imports, sequences of pairs of a name and a rule
  Patches,     \* edits of a product
  TierEdits,   \* tiers an operator writes, triples of spec, quantity, price
  Taxes,       \* VAT rates an operator writes
  Multipliers, \* client multipliers an operator writes
  Requests,    \* what customers ask for
  MaxEdits     \* bound: handlers that ran

Policies == {"skip", "update", "fail"}

Outcomes == {"created", "updated", "skipped", "failed"}

Columns ==
  {"key", "category", "strategy", "review", "cap", "floor", "base", "min_qty",
   "unit", "bulk", "threshold", "yield", "size", "sheet", "sheet_price",
   "min_area", "dims", "sanity", "sided", "finishes", "tiers"}

\* What the columns that prices and imports depend on hold.  A base is the
\* number that price_per begins with.
Whole == {"cap", "floor", "min_qty", "unit", "bulk", "threshold",
          "sheet_price", "min_area", "sanity"}

IsTiers(T) ==
  \A t \in DOMAIN T : t = <<t[1], t[2]>> /\ t[2] \in Nat \ {0} /\ T[t] \in Int

Fits(f, v) ==
  CASE f = "key" -> v \in Keys
    [] f = "category" -> v \in Categories
    [] f \in {"review", "dims"} -> v \in BOOLEAN
    [] f \in Whole -> v \in Int \cup {None}
    [] f = "base" -> v \in (Nat \ {0}) \cup {None}
    [] f = "yield" -> v \in Nat \cup {None}
    [] f = "size" -> v = None \/ {v[1], v[2]} \subseteq Int
    [] f = "sheet" -> v = None \/ {v.w, v.h} \subseteq Int
    [] f = "tiers" -> IsTiers(v)
    [] OTHER -> TRUE

IsProduct(p) == DOMAIN p = Columns /\ \A f \in Columns : Fits(f, p[f])

\* A tier as an operator writes it: spec, quantity, price.
IsTier(t) == t[2] \in Nat \ {0} /\ t[3] \in Int

\* A row gives the columns it has a value for.  Rows with a minimum quantity
\* of 0, which a new product takes for 1, are left out.
IsRow(row) ==
  /\ {"key", "category"} \subseteq DOMAIN row
  /\ DOMAIN row \subseteq Columns \ {"finishes"}
  /\ \A f \in DOMAIN row \ {"tiers"} : Fits(f, row[f]) /\ row[f] # None
  /\ "min_qty" \in DOMAIN row => row["min_qty"] # 0
  /\ "tiers" \in DOMAIN row => \A n \in DOMAIN row["tiers"] : IsTier(row["tiers"][n])

IsList(b) == b \in Seq({b[n] : n \in DOMAIN b})

IsPatch(patch) ==
  /\ DOMAIN patch \subseteq Columns \ {"key", "tiers"}
  /\ \A f \in DOMAIN patch : Fits(f, patch[f])

Rules == [amount: Int, kind: {"multiplier", "additive"}, keys: SUBSET Keys,
          category: Categories \cup {None}]

Rates == [rate: Nat, default: BOOLEAN]

IsRequest(q) ==
  /\ q.tool \in Tools /\ q.key \in Keys /\ q.qty \in Int
  /\ {q.w, q.h, q.area} \subseteq Int \cup {None}

IsCatalogue(c) ==
  /\ DOMAIN c = {"products", "categories", "rules", "rates", "taxes", "mult",
                 "artwork", "laydown"}
  /\ DOMAIN c.products = Keys
  /\ \A k \in Keys : c.products[k] # None =>
                     IsProduct(c.products[k]) /\ c.products[k].key = k
  /\ c.categories \subseteq Categories
  /\ c.rules \in [RuleNames -> Rules \cup {None}]
  /\ c.rates \in [RateIds -> Rates \cup {None}]
  /\ c.taxes \in [Categories -> RateIds \cup {None}]
  /\ c.laydown \in [bleed: Int, front: Int, back: Int, side: Int]

ASSUME CAAssumption ==
  /\ IsCatalogue(Start) /\ \A r, s \in DefaultRates(Start) : r = s
  /\ \A row \in Rows : IsRow(row)
  /\ \A b \in Batches : IsList(b) /\ \A n \in DOMAIN b : IsRow(b[n])
  /\ {"double_sided", "soft_touch", "triplicate"} \subseteq RuleNames
  /\ RuleRows \subseteq Rules
  /\ \A b \in RuleBatches : IsList(b) /\ \A n \in DOMAIN b : b[n] \in RuleNames \X Rules
  /\ \A patch \in Patches : IsPatch(patch)
  /\ \A t \in TierEdits : IsTier(t)
  /\ Taxes \subseteq Rates
  /\ \A q \in Requests : IsRequest(q)
  /\ MaxEdits \in Nat

VARIABLES
  cat,     \* the catalogue
  report,  \* history: what the last import said of each row
  used     \* edits so far

vars == <<cat, report, used>>

NoTiers == [t \in {} |-> 0]

\* What a column holds that a request leaves out.
Default ==
  [f \in Columns |->
     CASE f = "strategy" -> "tiered"
       [] f = "min_qty" -> 1
       [] f = "sided" -> TRUE
       [] f \in {"review", "dims"} -> FALSE
       [] f = "finishes" -> {}
       [] OTHER -> None]

NoReport == [rows |-> <<>>, says |-> <<>>, dry |-> FALSE]

Init ==
  /\ cat = Start
  /\ report = NoReport
  /\ used = 0

Save(c) ==
  /\ used < MaxEdits
  /\ cat' = c
  /\ used' = used + 1

Edit(c) == Save(c) /\ report' = NoReport

(***************************************************************************)
(* Categories.                                                             *)
(***************************************************************************)
Ensured(c, category) == [c EXCEPT !.categories = @ \cup {category}]

CreateCategory(g) ==
  /\ g \notin cat.categories
  /\ Edit(Ensured(cat, g))

InCategory(g) == {k \in Keys : cat.products[k] # None /\ cat.products[k].category = g}

\* A category's rate outlives it.
DeleteCategory(g) ==
  /\ g \in cat.categories /\ InCategory(g) = {}
  /\ Edit([cat EXCEPT !.categories = @ \ {g}])

(***************************************************************************)
(* Products and tiers.                                                     *)
(***************************************************************************)
\* The product a row makes.  A row lists its tiers, as triples.
TiersOf(list) ==
  [t \in {<<list[n][1], list[n][2]>> : n \in DOMAIN list} |->
     list[CHOOSE n \in DOMAIN list : <<list[n][1], list[n][2]>> = t][3]]

Made(row) ==
  [f \in Columns |->
     IF f = "tiers" THEN TiersOf(IF f \in DOMAIN row THEN row[f] ELSE <<>>)
     ELSE IF f \in DOMAIN row THEN row[f] ELSE Default[f]]

PutProduct(c, p) == [c EXCEPT !.products[p.key] = p]

CreateProduct(row) ==
  LET p == [Made(row) EXCEPT !.tiers = NoTiers]
  IN  /\ cat.products[p.key] = None
      /\ Edit(PutProduct(Ensured(cat, p.category), p))

\* Any column but the key; a category is not made, nor need it exist.
UpdateProduct(k, patch) ==
  /\ cat.products[k] # None
  /\ Edit(PutProduct(cat, [f \in Columns |->
       IF f \in DOMAIN patch THEN patch[f] ELSE cat.products[k][f]]))

\* Its tiers go with it; the surcharges that name it stay.
DeleteProduct(k) ==
  /\ cat.products[k] # None
  /\ Edit([cat EXCEPT !.products[k] = None])

SetTiers(k, T) == Edit([cat EXCEPT !.products[k].tiers = T])

CreateTier(k, t) ==
  /\ cat.products[k] # None
  /\ <<t[1], t[2]>> \notin DOMAIN cat.products[k].tiers
  /\ LET T == cat.products[k].tiers
     IN  SetTiers(k, [u \in DOMAIN T \cup {<<t[1], t[2]>>} |->
                        IF u = <<t[1], t[2]>> THEN t[3] ELSE T[u]])

\* A tier moves to another quantity or price, unless one is there.
UpdateTier(k, old, t) ==
  LET T == cat.products[k].tiers
      new == <<t[1], t[2]>>
  IN  /\ old \in DOMAIN T
      /\ new \in DOMAIN T => new = old
      /\ SetTiers(k, [u \in (DOMAIN T \ {old}) \cup {new} |->
                        IF u = new THEN t[3] ELSE T[u]])

DeleteTier(k, old) ==
  LET T == cat.products[k].tiers
  IN  old \in DOMAIN T /\ SetTiers(k, [u \in DOMAIN T \ {old} |-> T[u]])

(***************************************************************************)
(* The import of products.                                                 *)
(***************************************************************************)
Repeated(batch, n) == \E m \in DOMAIN batch : m # n /\ batch[m]["key"] = batch[n]["key"]

\* Prices that the strategy of a row cannot do without.
Complete(p) ==
  CASE p.strategy \in {"per_unit", "per_sqm", "per_unit_metric"} -> p.unit # None
    [] p.strategy = "bulk_break" -> None \notin {p.unit, p.bulk, p.threshold}
    [] p.strategy = "per_sheet" -> p.sheet # None /\ p.sheet_price # None
    [] OTHER -> TRUE

\* Two tiers of a row for one quantity break a constraint.
Clash(row) ==
  "tiers" \in DOMAIN row /\ Cardinality(DOMAIN Made(row).tiers) # Len(row["tiers"])

\* The columns an update writes: the tiers, and those that are not null, the
\* request's default for a column that the row leaves out among them.
Written(row) ==
  {"tiers"} \cup {f \in Columns \ {"key", "finishes"} : Made(row)[f] # None}

\* Seeded fault: a row without tiers leaves the old ones.
Bug_Updated(p, row) ==
  [f \in Columns |->
     IF f \in Written(row) /\ (f = "tiers" => f \in DOMAIN row)
     THEN Made(row)[f] ELSE p[f]]

Updated(p, row) ==
  [f \in Columns |-> IF f \in Written(row) THEN Made(row)[f] ELSE p[f]]

Says(c, batch, n, policy) ==
  LET row == batch[n]
      there == c.products[row["key"]] # None
  IN  IF Repeated(batch, n) \/ ~Complete(Made(row)) THEN "failed"
      ELSE IF there /\ policy = "skip" THEN "skipped"
      ELSE IF (there /\ policy = "fail") \/ Clash(row) THEN "failed"
      ELSE IF there THEN "updated" ELSE "created"

Imported(c, row, says) ==
  CASE says = "created" -> PutProduct(c, Made(row))
    [] says = "updated" -> PutProduct(c, Updated(c.products[row["key"]], row))
    [] OTHER -> c

\* The categories of all rows are made, those of rows that fail as well.
WithCategories(c, batch) ==
  [c EXCEPT !.categories = @ \cup {batch[n]["category"] : n \in DOMAIN batch}]

\* Row after row, each in a savepoint of its own.
AllImported(c, batch, policy) ==
  LET after[n \in 0..Len(batch)] ==
        IF n = 0 THEN WithCategories(c, batch)
        ELSE Imported(after[n - 1], batch[n], Says(after[n - 1], batch, n, policy))
  IN  after[Len(batch)]

\* The keys of rows that may still be written differ: what is said of a row
\* does not depend on the rows before it.
ImportProducts(batch, policy, dry) ==
  /\ Save(IF dry THEN cat ELSE AllImported(cat, batch, policy))
  /\ report' = [rows |-> batch, dry |-> dry,
                says |-> [n \in DOMAIN batch |-> Says(cat, batch, n, policy)]]

(***************************************************************************)
(* VAT.                                                                    *)
(***************************************************************************)
\* Seeded fault: the default of old stays one.
Bug_PutRate(c, r, rate) == [c EXCEPT !.rates[r] = rate]

PutRate(c, r, rate) ==
  [c EXCEPT !.rates = [s \in RateIds |->
     IF s = r THEN rate
     ELSE IF @[s] # None /\ rate.default THEN [@[s] EXCEPT !.default = FALSE]
     ELSE @[s]]]

CreateTaxRate(r, rate) ==
  /\ cat.rates[r] = None
  /\ Edit(PutRate(cat, r, rate))

UpdateTaxRate(r, rate) ==
  /\ cat.rates[r] # None
  /\ Edit(PutRate(cat, r, rate))

\* Not the default, and none that a category has (a foreign key).
DeleteTaxRate(r) ==
  /\ cat.rates[r] # None /\ ~cat.rates[r].default
  /\ \A g \in Categories : cat.taxes[g] # r
  /\ Edit([cat EXCEPT !.rates[r] = None])

\* One entry of the map; several are written one after the other.
SetCategoryTax(g, r) ==
  /\ cat.rates[r] # None
  /\ Edit([cat EXCEPT !.taxes[g] = r])

(***************************************************************************)
(* Surcharges and settings.                                                *)
(***************************************************************************)
Known(c, rule) == \A k \in rule.keys : c.products[k] # None

CreateSurcharge(name, rule) ==
  /\ cat.rules[name] = None /\ Known(cat, rule)
  /\ Edit([cat EXCEPT !.rules[name] = rule])

UpdateSurcharge(name, rule) ==
  /\ cat.rules[name] # None /\ Known(cat, rule)
  /\ Edit([cat EXCEPT !.rules[name] = rule])

DeleteSurcharge(name) ==
  /\ cat.rules[name] # None
  /\ Edit([cat EXCEPT !.rules[name] = None])

\* The keys that the dashboard says it just imported count as known.  Of two
\* rows with one name, the first counts.
RuleFails(batch, n, policy, told) ==
  \/ \E m \in 1..(n - 1) : batch[m][1] = batch[n][1]
  \/ \E k \in batch[n][2].keys : cat.products[k] = None /\ k \notin told
  \/ policy = "fail" /\ cat.rules[batch[n][1]] # None

RuleWritten(batch, n, policy, told) ==
  /\ ~RuleFails(batch, n, policy, told)
  /\ policy = "skip" => cat.rules[batch[n][1]] = None

ImportSurcharges(batch, policy, told, dry) ==
  Edit(IF dry THEN cat
       ELSE [cat EXCEPT !.rules = [name \in RuleNames |->
               LET rows == {n \in DOMAIN batch : batch[n][1] = name
                                      /\ RuleWritten(batch, n, policy, told)}
               IN  IF rows = {} THEN @[name] ELSE batch[Min(rows)][2]]])

SetMultiplier(m) == Edit([cat EXCEPT !.mult = m])

Next ==
  \/ \E g \in Categories : CreateCategory(g) \/ DeleteCategory(g)
  \/ \E row \in Rows : CreateProduct(row)
  \/ \E k \in Keys :
       \/ DeleteProduct(k)
       \/ \E patch \in Patches : UpdateProduct(k, patch)
       \/ \E t \in TierEdits : CreateTier(k, t)
       \/ /\ cat.products[k] # None
          /\ \E old \in DOMAIN cat.products[k].tiers :
               DeleteTier(k, old) \/ \E t \in TierEdits : UpdateTier(k, old, t)
  \/ \E batch \in Batches, policy \in Policies, dry \in BOOLEAN :
       ImportProducts(batch, policy, dry)
  \/ \E r \in RateIds :
       \/ DeleteTaxRate(r)
       \/ \E rate \in Taxes : CreateTaxRate(r, rate) \/ UpdateTaxRate(r, rate)
       \/ \E g \in Categories : SetCategoryTax(g, r)
  \/ \E name \in RuleNames :
       \/ DeleteSurcharge(name)
       \/ \E rule \in RuleRows : CreateSurcharge(name, rule) \/ UpdateSurcharge(name, rule)
  \/ \E batch \in RuleBatches, policy \in Policies, told \in {{}, Keys},
        dry \in BOOLEAN : ImportSurcharges(batch, policy, told, dry)
  \/ \E m \in Multipliers : SetMultiplier(m)

Spec == Init /\ [][Next]_vars

(***************************************************************************)
(* Properties.                                                             *)
(***************************************************************************)
TypeOK ==
  /\ IsCatalogue(cat)
  /\ DOMAIN report.rows = DOMAIN report.says
  /\ \A n \in DOMAIN report.says : report.says[n] \in Outcomes
  /\ used \in 0..MaxEdits

\* What the engine is asked and answers in this catalogue.
Answers == {<<q, cat.products[q.key], Quote(cat, q)>> : q \in Requests}

PricedOf(A) == {a \in A : a[3].priced}

\* No catalogue and no client multiplier brings a price below the product's
\* minimum (pricing_engine.py:633, :858: the multiplier cannot dodge it).
MinimumHolds ==
  \A a \in PricedOf(Answers) : Given(a[2].floor) => a[3].ex >= a[2].floor

\* A job priced from tiers is billed for at least what was asked, and for
\* less than one smallest tier more (_stack_tiers, pricing_engine.py:349).
StackCovers ==
  \A a \in PricedOf(Answers) :
    (a[1].tool = "large_format" => a[1].size # None /\ a[2].strategy = "tiered") =>
      LET Q == Ladder(a[2], IF a[1].tool = "small_format" THEN "" ELSE a[1].size)
      IN  a[3].billed >= a[1].qty /\ a[3].billed - a[1].qty < Min(Q)

\* The sheets billed can be cut: some grid of panels, upright or turned,
\* lies within one sheet, bleed and grip respected, and that many sheets
\* hold the panels asked for (pricing_engine.py:300, :1486).
Panels(c, a) ==
  IF a[2].strategy = "per_sheet" THEN <<a[1].w, a[1].h>>
  ELSE <<Bled(c, a[1].w), Bled(c, a[1].h)>>

Sheet(c, a) ==
  IF a[2].strategy = "per_sheet" THEN <<a[2].sheet.w, a[2].sheet.h>>
  ELSE Usable(c, a[2].sheet)

CanCut(panel, sheet, rows, cols) ==
  \/ cols * panel[1] <= sheet[1] /\ rows * panel[2] <= sheet[2]
  \/ cols * panel[2] <= sheet[1] /\ rows * panel[1] <= sheet[2]

SheetsHold ==
  \A a \in PricedOf(Answers) :
    a[3].sheets # None =>
      \E rows, cols \in 0..a[1].qty :
        /\ CanCut(Panels(cat, a), Sheet(cat, a), rows, cols)
        /\ a[3].sheets * rows * cols >= a[1].qty

\* Pieces that vary in size, asked for by a number and without any size.
SizeUnknown(q, p) ==
  /\ q.tool = "large_format" /\ p.dims /\ p.size = None
  /\ ~Given(q.area) /\ ~(Given(q.w) /\ Given(q.h))

ByArea(p) == p.strategy \in {"per_sqm", "per_unit_metric"}

\* What takes a person is never priced: a product under review and a quantity
\* outside its limits, whichever calculation the edits left it to; and, where
\* the price is one of the area, pieces of unknown size, whose area the
\* product's yield must not make up (v34, v38, v41; pricing_engine.py:1024).
NeedsAPerson(q, p) ==
  \/ p.review \/ TooMany(p, q.qty) \/ q.qty <= 0
  \/ ByArea(p) /\ SizeUnknown(q, p)

PeopleArePutFirst ==
  \A a \in Answers :
    a[2] # None /\ NeedsAPerson(a[1], a[2]) => ~a[3].priced

\* test_pricing.py:739 "when dims are missing AND requires_dimensions=True,
\* the engine MUST escalate", said of "any product flagged": pieces of
\* unknown size are priced by no calculation.  It does not hold: only the
\* calculation by area looks at the flag, and a product an edit moved to
\* another one is priced by the piece.
UnsizedNeverPriced ==
  \A a \in Answers :
    a[2] # None /\ SizeUnknown(a[1], a[2]) /\ a[1].size = None => ~a[3].priced

\* There is one default rate at most: create_tax_rate, admin_api.py:1138
\* "ensure only one default".
OneDefault == Cardinality(DefaultRates(cat)) <= 1

\* An import does what it says: a row created or updated is in the catalogue
\* with its columns and exactly its tiers, a row skipped or failed has left
\* nothing, nor has a dry run, and no other product changed.
Touched(r) == {r.rows[n]["key"] : n \in {m \in DOMAIN r.rows :
                                          r.says[m] \in {"created", "updated"}}}

Shows(p, row) ==
  /\ p.tiers = Made(row).tiers
  /\ \A f \in DOMAIN row \ {"tiers"} : p[f] = row[f]

ImportDoesWhatItSays ==
  [][report'.rows # <<>> =>
       IF report'.dry THEN cat' = cat
       ELSE /\ \A k \in Keys \ Touched(report') : cat'.products[k] = cat.products[k]
            /\ \A n \in DOMAIN report'.rows :
                 report'.rows[n]["key"] \in Touched(report') =>
                   Shows(cat'.products[report'.rows[n]["key"]], report'.rows[n])]_vars

\* admin_api.py:982 "Booleans need explicit handling (None means "don't touch",
\* False means "set to false")", and :738 "`update` PATCHes fields": what a
\* row does not mention stays.  It does not hold: an import that updates a
\* product writes the default of a column the row leaves out, if it has one.
BlankCellsStay ==
  [][\A n \in DOMAIN report'.rows :
       report'.says[n] = "updated" /\ ~report'.dry =>
         LET k == report'.rows[n]["key"]
         IN  \A f \in Columns \ (DOMAIN report'.rows[n] \cup {"tiers"}) :
               cat'.products[k][f] = cat.products[k][f]]_vars

\* pricing_engine.py:359 "Build the cheapest combination of available tiers
\* that totals >= requested_qty": no single tier that covers the job costs
\* less than what is billed.  It does not hold: the stack is greedy, and 900
\* of a ladder can cost more than its tier of 1000.
CheapestStack ==
  \A a \in PricedOf(Answers) :
    a[1].tool = "small_format" =>
      \A t \in Ladder(a[2], "") :
        t >= a[1].qty => a[3].base <= TierCost(a[2], "", t, UnitBase(a[2]))
=============================================================================
