------------------------------- MODULE Pricing -------------------------------
(***************************************************************************)
(* The price of a job as an operator on the catalogue                      *)
(* (pricing_engine.py: quote_small_format, quote_large_format and the four *)
(* calculations behind it, quote_booklet).                                 *)
(*                                                                         *)
(* Money is in cents, a rate or multiplier in thousandths or hundredths, a *)
(* length in millimetres and an area in steps of 100 square millimetres,   *)
(* to which the code rounds it.  Where the code rounds a float, Rounded    *)
(* takes the nearest integer; the direction of an exact half, which a      *)
(* float decides, is not modelled.                                         *)
(*                                                                         *)
(* A catalogue c is a record: products, a product or None for each key;    *)
(* rules, rates and taxes, the surcharges, VAT rates and the rates of the  *)
(* categories; mult, artwork and laydown, the settings a price depends on. *)
(* A product holds its columns, and its price tiers as a function of spec  *)
(* and quantity; spec names a size, or pages and cover.  Its sheet is a    *)
(* width and a height, and the spec of the tiers for whole sheets.         *)
(***************************************************************************)
EXTENDS Integers, Sequences, FiniteSetsExt

CONSTANT None   \* a column that is null, an argument not given

Rounded(n, d) == (n + d \div 2) \div d

CeilDiv(n, d) == (n + d - 1) \div d

Given(x) == x \notin {None, 0}

(***************************************************************************)
(* Answers of the engine.  A refusal asks the customer again, or has a     *)
(* person price the job.                                                   *)
(***************************************************************************)
Refused(manual) == [priced |-> FALSE, manual |-> manual]

(***************************************************************************)
(* Settings, surcharges and VAT.                                           *)
(***************************************************************************)
\* A multiplier that does not parse, or is out of range, counts as one.
ClientMultiplier(c) == IF c.mult \in 1..1000 THEN c.mult ELSE 100

NoSurcharge == [amount |-> 0, kind |-> "multiplier"]

\* The product keys of a rule come first, then its category.
InScope(rule, p) ==
  IF rule.keys # {} THEN p.key \in rule.keys
  ELSE rule.category # None => p.category = rule.category

Surcharge(c, name, p) ==
  IF c.rules[name] # None /\ InScope(c.rules[name], p)
  THEN c.rules[name] ELSE NoSurcharge

DefaultRates(c) ==
  {r \in DOMAIN c.rates : c.rates[r] # None /\ c.rates[r].default}

StandardRate == 230

\* The rate of the category, else the default, else the standard one.
VatRate(c, category) ==
  IF c.taxes[category] # None THEN c.rates[c.taxes[category]].rate
  ELSE IF DefaultRates(c) # {} THEN c.rates[CHOOSE r \in DefaultRates(c) : TRUE].rate
  ELSE StandardRate

(***************************************************************************)
(* Bounds and minimum.                                                     *)
(***************************************************************************)
TooMany(p, qty) == Given(p.cap) /\ qty > p.cap

Floored(p, ex) == IF Given(p.floor) /\ ex < p.floor THEN p.floor ELSE ex

\* Seeded fault: the minimum is applied before the client's multiplier.
Bug_Adjusted(c, p, ex) == Rounded(Floored(p, ex) * ClientMultiplier(c), 100)

Adjusted(c, p, ex) == Floored(p, Rounded(ex * ClientMultiplier(c), 100))

\* The end of every calculation: multiplier, minimum, VAT, artwork.
Priced(c, p, q, base, ex, billed, sheets) ==
  LET final == Adjusted(c, p, ex)
      inc == final + Rounded(final * VatRate(c, p.category), 1000)
      art == c.artwork * q.hours
  IN  [priced |-> TRUE, manual |-> FALSE, base |-> base, ex |-> final,
       inc |-> inc, billed |-> billed, sheets |-> sheets,
       total |-> inc + art + Rounded(art * StandardRate, 1000)]

(***************************************************************************)
(* Tiers.                                                                  *)
(***************************************************************************)
Ladder(p, spec) == {t[2] : t \in {u \in DOMAIN p.tiers : u[1] = spec}}

\* A tier's price is for the tier, or for so many pieces (base).
TierCost(p, spec, t, base) ==
  IF base = None THEN p.tiers[<<spec, t>>]
  ELSE Rounded(p.tiers[<<spec, t>>] * t, base)

Plus(a, b) == [qty |-> a.qty + b.qty, cost |-> a.cost + b.cost]

Nothing == [qty |-> 0, cost |-> 0]

One(p, spec, t, base) == [qty |-> t, cost |-> TierCost(p, spec, t, base)]

Fitting(p, spec, n) == {t \in Ladder(p, spec) : t <= n}

\* Greedy, the largest tier first; what no tier fits into takes the smallest.
\* A quantity that is a tier is that tier alone.
Fill(p, spec, want, base) ==
  LET fill[n \in 0..want] ==
        IF n = 0 THEN Nothing
        ELSE IF Fitting(p, spec, n) = {} THEN One(p, spec, Min(Ladder(p, spec)), base)
        ELSE LET t == Max(Fitting(p, spec, n))
             IN  Plus(One(p, spec, t, base), fill[n - t])
  IN  fill[want]

TooFar(p, spec, want) ==
  Ladder(p, spec) = {} \/ want > 5 * Max(Ladder(p, spec))

\* Seeded fault: what is left over is not billed.
Bug_Stacked(p, spec, want, base) ==
  LET least == Min(Ladder(p, spec))
  IN  IF TooFar(p, spec, want) THEN None
      ELSE Fill(p, spec, IF want < least THEN want ELSE want - (want % least), base)

Stacked(p, spec, want, base) ==
  IF TooFar(p, spec, want) THEN None ELSE Fill(p, spec, want, base)

\* A price per batch, from the tiers of one size or one page count.
BatchPrice(c, p, q, spec) ==
  LET s == Stacked(p, spec, q.qty, None)
  IN  IF s = None THEN Refused(FALSE)
      ELSE Priced(c, p, q, s.cost, s.cost, s.qty, None)

(***************************************************************************)
(* Small format.                                                           *)
(***************************************************************************)
NcrKeys == {"ncr_books_a5", "ncr_books_a4"}

FinishFits(p, finish) ==
  CASE finish \in {None, "soft_touch"} -> TRUE
    [] finish = "triplicate" -> p.key \in NcrKeys
    [] OTHER -> p.finishes = {} \/ finish \in p.finishes

\* The surcharges a request attracts.
Surcharges(c, p, q) ==
  <<IF q.sided /\ p.sided = TRUE THEN Surcharge(c, "double_sided", p) ELSE NoSurcharge,
    IF q.finish \in {"soft_touch", "triplicate"}
    THEN Surcharge(c, q.finish, p) ELSE NoSurcharge>>

\* Fractions multiply; flat amounts are added after, and do not scale.
Surcharged(base, s) ==
  LET factor(n) == IF s[n].kind = "additive" THEN 100 ELSE 100 + s[n].amount
      flat(n) == IF s[n].kind = "additive" THEN s[n].amount ELSE 0
  IN  Rounded(base * factor(1) * factor(2), 10000) + flat(1) + flat(2)

\* "100 cards" is a price per 100; without a number it is per piece.
UnitBase(p) == IF p.base = None THEN 1 ELSE p.base

SmallFormat(c, p, q) ==
  LET s == Stacked(p, "", q.qty, UnitBase(p))
  IN  IF s = None \/ ~FinishFits(p, q.finish) THEN Refused(FALSE)
      ELSE Priced(c, p, q, s.cost, Surcharged(s.cost, Surcharges(c, p, q)),
                  s.qty, None)

(***************************************************************************)
(* Large format, by area.                                                  *)
(***************************************************************************)
SquareMetre == 10000

\* Seeded fault: as before v38, the yield stands in for the size of a label
\* that varies.
Bug_Area(p, q) ==
  IF Given(q.area) THEN q.area
  ELSE IF Given(q.w) /\ Given(q.h) THEN Rounded(q.qty * q.w * q.h, 100)
  ELSE IF p.size # None THEN Rounded(q.qty * p.size[1] * p.size[2], 100)
  ELSE IF Given(p.yield) THEN Rounded(q.qty * SquareMetre, p.yield)
  ELSE 0

\* The area given, the pieces' size, their usual size, so many to a metre.
Area(p, q) ==
  IF Given(q.area) THEN q.area
  ELSE IF Given(q.w) /\ Given(q.h) THEN Rounded(q.qty * q.w * q.h, 100)
  ELSE IF p.size # None THEN Rounded(q.qty * p.size[1] * p.size[2], 100)
  ELSE IF Given(p.yield) /\ ~p.dims THEN Rounded(q.qty * SquareMetre, p.yield)
  ELSE 0

BilledArea(p, q) ==
  IF Given(p.min_area) /\ Area(p, q) < p.min_area THEN p.min_area ELSE Area(p, q)

MetrePrice(p, area) ==
  IF /\ Given(p.threshold) /\ area >= p.threshold * SquareMetre
     /\ p.bulk # None
  THEN p.bulk
  ELSE IF p.unit = None THEN 0 ELSE p.unit

PerSqm(c, p, q) ==
  LET area == BilledArea(p, q)
      ex == Rounded(area * MetrePrice(p, area), SquareMetre)
  IN  IF \/ Area(p, q) <= 0 \/ MetrePrice(p, area) <= 0
         \/ Given(p.sanity) /\ ex > p.sanity * q.qty
      THEN Refused(TRUE)
      ELSE Priced(c, p, q, MetrePrice(p, area), ex, q.qty, None)

(***************************************************************************)
(* Large format, by sheets.                                                *)
(***************************************************************************)
UnitsPerSheet(pw, ph, sw, sh) ==
  IF pw <= 0 \/ ph <= 0 \/ sw <= 0 \/ sh <= 0 THEN 0
  ELSE Max({(sw \div pw) * (sh \div ph), (sw \div ph) * (sh \div pw)})

PerSheet(c, p, q) ==
  LET units == UnitsPerSheet(q.w, q.h, p.sheet.w, p.sheet.h)
      sheets == CeilDiv(q.qty, units)
  IN  IF \/ ~(Given(q.w) /\ Given(q.h)) \/ p.sheet = None
         \/ ~Given(p.sheet_price) \/ units = 0
      THEN Refused(TRUE)
      ELSE Priced(c, p, q, p.sheet_price, sheets * p.sheet_price,
                  sheets * units, sheets)

Bled(c, x) == x + 2 * c.laydown.bleed

Usable(c, sheet) ==
  <<sheet.w - 2 * c.laydown.side,
    sheet.h - c.laydown.front - c.laydown.back>>

\* Seeded fault: the last sheet, which is not full, is not counted.
Bug_SheetsFor(c, p, q) ==
  LET s == Usable(c, p.sheet)
      units == UnitsPerSheet(Bled(c, q.w), Bled(c, q.h), s[1], s[2])
  IN  IF units = 0 THEN 0
      ELSE IF q.qty < units THEN 1 ELSE q.qty \div units

\* The sheets a job takes once bleed and grip are off; 0 if none will do.
SheetsFor(c, p, q) ==
  LET s == Usable(c, p.sheet)
      units == UnitsPerSheet(Bled(c, q.w), Bled(c, q.h), s[1], s[2])
  IN  IF units = 0 THEN 0 ELSE CeilDiv(q.qty, units)

Laydown(c, p, q) ==
  IF p.sheet = None \/ SheetsFor(c, p, q) = 0 THEN Refused(FALSE)
  ELSE LET s == Stacked(p, p.sheet.spec, SheetsFor(c, p, q), None)
       IN  IF s = None THEN Refused(FALSE)
           ELSE Priced(c, p, q, s.cost, s.cost, q.qty, s.qty)

Tiered(c, p, q) ==
  IF q.size # None THEN BatchPrice(c, p, q, q.size)
  ELSE IF Given(q.w) /\ Given(q.h) THEN Laydown(c, p, q)
  ELSE Refused(FALSE)

\* By the piece: the bulk price, with no threshold or from it on.
PieceRate(p, qty) ==
  IF p.bulk # None /\ (~Given(p.threshold) \/ qty >= p.threshold)
  THEN p.bulk ELSE p.unit

PerPiece(c, p, q) ==
  LET unit == PieceRate(p, q.qty)
  IN  IF Given(p.min_qty) /\ q.qty < p.min_qty THEN Refused(FALSE)
      ELSE IF unit = None THEN Refused(TRUE)
      ELSE Priced(c, p, q, unit, unit * q.qty, q.qty, None)

LargeFormat(c, p, q) ==
  CASE p.strategy \in {"per_sqm", "per_unit_metric"} -> PerSqm(c, p, q)
    [] p.strategy = "per_sheet" -> PerSheet(c, p, q)
    [] p.strategy = "tiered" -> Tiered(c, p, q)
    [] OTHER -> PerPiece(c, p, q)

(***************************************************************************)
(* The three tools.                                                        *)
(***************************************************************************)
Tools == {"small_format", "large_format", "booklet"}

Quote(c, q) ==
  LET p == c.products[q.key]
  IN  IF p = None THEN Refused(FALSE)
      ELSE IF p.category # q.tool THEN Refused(FALSE)
      ELSE IF p.review THEN Refused(TRUE)
      ELSE IF q.qty <= 0 THEN Refused(FALSE)
      ELSE IF TooMany(p, q.qty) THEN Refused(TRUE)
      ELSE CASE q.tool = "small_format" -> SmallFormat(c, p, q)
             [] q.tool = "large_format" -> LargeFormat(c, p, q)
             [] q.tool = "booklet" -> BatchPrice(c, p, q, q.size)
=============================================================================
