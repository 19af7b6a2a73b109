----------------------------- MODULE MCCatalogue -----------------------------
EXTENDS Catalogue, TLC

CONSTANTS std, low, third

MCKeys == {"flyers_a6", "vinyl_labels", "corri_boards", "booklet_a5"}

MCCategories == {"small_format", "large_format", "booklet"}

\* flyers_a6 of data/small_format.json, prices per 100.
Flyers ==
  [key |-> "flyers_a6", category |-> "small_format", base |-> 100,
   cap |-> 5000, floor |-> 2500,
   tiers |-> <<<<"", 100, 3500>>, <<"", 250, 2500>>, <<"", 500, 1700>>,
               <<"", 1000, 1300>>>>]

Vinyl ==
  [key |-> "vinyl_labels", category |-> "large_format", strategy |-> "per_sqm",
   unit |-> 4500, bulk |-> 3500, threshold |-> 5, yield |-> 400,
   dims |-> TRUE, sanity |-> 1000, floor |-> 4500, min_area |-> 5000,
   review |-> FALSE]

FullSheet == [w |-> 2440, h |-> 1220, spec |-> "2440x1220"]

Boards ==
  [key |-> "corri_boards", category |-> "large_format", strategy |-> "tiered",
   sheet |-> FullSheet, sheet_price |-> 12000, floor |-> 2500,
   tiers |-> <<<<"A3", 5, 7000>>, <<"A3", 10, 12000>>,
               <<"2440x1220", 1, 18000>>, <<"2440x1220", 5, 75000>>>>]

Booklets ==
  [key |-> "booklet_a5", category |-> "booklet", review |-> FALSE,
   tiers |-> <<<<"8pp", 25, 3800>>, <<"8pp", 50, 6400>>, <<"8pp", 100, 11000>>>>]

\* Rows as an operator pastes them: the price only, another strategy, a tier
\* that is there twice, a column missing.
VinylPrice ==
  [key |-> "vinyl_labels", category |-> "large_format", strategy |-> "per_sqm",
   unit |-> 5000]

BoardsBySheet ==
  [key |-> "corri_boards", category |-> "large_format",
   strategy |-> "per_sheet", sheet |-> FullSheet, sheet_price |-> 14000]

FlyersTwice ==
  [key |-> "flyers_a6", category |-> "small_format",
   tiers |-> <<<<"", 100, 3500>>, <<"", 100, 3600>>>>]

NoPrice ==
  [key |-> "vinyl_labels", category |-> "large_format",
   strategy |-> "bulk_break", unit |-> 4500]

MCRows == {Flyers, BoardsBySheet, VinylPrice}

MCBatches ==
  {<<VinylPrice, BoardsBySheet>>, <<Flyers, FlyersTwice>>,
   <<FlyersTwice, Booklets>>, <<NoPrice, Booklets>>}

NoRules == [name \in {"double_sided", "soft_touch", "triplicate"} |-> None]

MCRuleRows ==
  {[amount |-> 20, kind |-> "multiplier", keys |-> {}, category |-> None],
   [amount |-> 1500, kind |-> "additive", keys |-> {"flyers_a6"}, category |-> None]}

MCRuleBatches ==
  {<<<<"double_sided", r>>, <<"soft_touch", r>>, <<"soft_touch", s>>>> :
     r, s \in MCRuleRows}

MCPatches ==
  {[review |-> TRUE], [cap |-> 400], [floor |-> None],
   [strategy |-> "per_sqm"], [strategy |-> "bulk_break"],
   [category |-> "large_format"], [size |-> <<50, 30>>]}

MCTierEdits == {<<"", 250, 3000>>, <<"A3", 10, 9000>>, <<"2440x1220", 2, 30000>>}

MCTaxes == {[rate |-> 230, default |-> TRUE], [rate |-> 135, default |-> FALSE]}

MCStart ==
  [products |-> [k \in MCKeys |->
     CASE k = "flyers_a6" -> Made(Flyers) [] k = "vinyl_labels" -> Made(Vinyl)
       [] k = "corri_boards" -> Made(Boards) [] OTHER -> None],
   categories |-> {"small_format", "large_format"},
   rules |-> [NoRules EXCEPT !["double_sided"] =
     [amount |-> 20, kind |-> "multiplier", keys |-> {}, category |-> None]],
   rates |-> [r \in {std, low, third} |->
     CASE r = std -> [rate |-> 230, default |-> TRUE]
       [] r = low -> [rate |-> 135, default |-> FALSE] [] OTHER -> None],
   taxes |-> [g \in MCCategories |-> IF g = "small_format" THEN low ELSE None],
   mult |-> 100, artwork |-> 6500,
   laydown |-> [bleed |-> 6, front |-> 15, back |-> 5, side |-> 5]]

\* A job; what is not mentioned is not given.
Job(tool, key, qty) ==
  [tool |-> tool, key |-> key, qty |-> qty, sided |-> FALSE, finish |-> None,
   hours |-> 0, w |-> None, h |-> None, area |-> None, size |-> None]

SmallJobs ==
  {[Job("small_format", "flyers_a6", n) EXCEPT !.sided = b, !.finish = f] :
     n \in {0, 40, 100, 530, 900, 5001}, b \in BOOLEAN, f \in {None, "soft_touch"}}

SizedJobs ==
  {[Job("large_format", k, n) EXCEPT !.w = s[1], !.h = s[2]] :
     k \in {"vinyl_labels", "corri_boards"}, n \in {1, 7, 20},
     s \in {<<None, None>>, <<200, 100>>, <<800, 600>>, <<1220, 1220>>}}

MCRequests ==
  SmallJobs \cup SizedJobs
  \cup {[Job("large_format", "corri_boards", n) EXCEPT !.size = "A3", !.hours = 1] :
          n \in {1, 12, 15}}
  \cup {[Job("large_format", "vinyl_labels", 10) EXCEPT !.area = a] :
          a \in {3000, 60000}}
  \cup {[Job("booklet", "booklet_a5", n) EXCEPT !.size = "8pp"] : n \in {20, 75, 501}}
=============================================================================
