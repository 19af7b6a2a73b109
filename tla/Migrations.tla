----------------------------- MODULE Migrations -----------------------------
(***************************************************************************)
(* The boot scripts (scripts/startup.py and the migrations it runs) as     *)
(* operators on the database of one shop.                                  *)
(*                                                                         *)
(* One operator stands for one transaction, what its statements together   *)
(* make of what they read; Startup says what happens if that is edited in  *)
(* between.  A script that first adds columns in a transaction of their    *)
(* own is one operator all the same: adding a column that is there does    *)
(* nothing.  Wording is a value: "seed" is what a script writes, "own"     *)
(* what the operator wrote.                                                *)
(*                                                                         *)
(* A database is a record: cols, the scripts whose columns exist ({}: no   *)
(* tables); val, the settings and the catalogue fields that scripts touch; *)
(* prompt, the sections of system_prompt; secret, printlogic_api_key.      *)
(***************************************************************************)
EXTENDS Integers, Sequences, FiniteSetsExt

Missing == "missing"

\* No key: the text is stored as it is.
Plain == "plain"

ProductItems == {"catalogue", "vinyl_strategy", "vinyl_manual", "vinyl_dims",
                 "board_strategy", "posters", "silk", "ncr", "secretest"}

PricingItems == ProductItems \cup
  {"soft_touch_price", "soft_touch_keys", "soft_touch_category", "pricing"}

Settings ==
  {"business_rules", "widget", "missive", "missive_enabled",
   "missive_from_address", "last_known", "printlogic_dry_run", "multiplier",
   "stripe_enabled", "stripe_secret_key", "auto_draft", "faqs",
   "shop_address", "shipping", "order_status", "auto_send",
   "notifications_enabled", "notify_to", "poa_keywords", "alert_email",
   "threshold", "team_domains", "laydown", "temperature"}

Items == PricingItems \cup Settings \cup {"taxes", "categories", "artwork"}

AllCols == {"v2", "v3", "v12", "v15", "v19", "v20", "v22", "v23", "v24",
            "v25", "v30", "v33", "v34", "v35", "v36", "v37", "v38", "v39",
            "v40", "v41"}

NoData == [x \in Items |-> Missing]

Put(d, x, v) == [d EXCEPT !.val[x] = v]

Seed(d, x, v) == IF d.val[x] = Missing THEN Put(d, x, v) ELSE d

SeedAll(d, X) ==
  [d EXCEPT !.val =
     [x \in Items |-> IF x \in X /\ @[x] = Missing THEN "seed" ELSE @[x]]]

Swap(d, x, from, v) == IF d.val[x] \in from THEN Put(d, x, v) ELSE d

AddCols(d, C) == [d EXCEPT !.cols = @ \cup C]

\* The shops a seeding script finds: those with a system_prompt row.
ForShops(d, e) == IF d.prompt = <<>> THEN d ELSE e

(***************************************************************************)
(* Before the chain.                                                       *)
(***************************************************************************)
\* create_all makes the tables that are not there, never a column of one.
InitDb(d) == IF d.cols = {} THEN AddCols(d, AllCols) ELSE d

\* Seeded fault: the columns of v41 are left to v41.
Bug_PreDdl(d) ==
  AddCols(d, {"v34", "v35", "v36", "v37", "v38", "v39", "v40"})

PreDdl(d) ==
  AddCols(d, {"v34", "v35", "v36", "v37", "v38", "v39", "v40", "v41"})

\* Any product will do, one that a script seeded too.
HasProducts(d) ==
  \E x \in {"catalogue", "posters", "secretest"} : d.val[x] # Missing

\* Posters are in the files too: their key may be there once only.
CanLoad(d) == \A x \in {"catalogue", "posters"} : d.val[x] = Missing

Wipe(d) ==
  [d EXCEPT !.val =
     [x \in Items |-> IF x \in PricingItems THEN Missing ELSE @[x]]]

Loaded == [catalogue |-> "seed", vinyl_strategy |-> "bulk_break",
           vinyl_manual |-> "no", vinyl_dims |-> "no",
           board_strategy |-> "bulk_break", posters |-> "manual",
           silk |-> "yes", ncr |-> "books", soft_touch_price |-> "seed",
           soft_touch_keys |-> "none", soft_touch_category |-> "small_format",
           pricing |-> "seed"]

Load(d) ==
  [d EXCEPT !.val =
     [x \in Items |-> IF x \in DOMAIN Loaded THEN Loaded[x] ELSE @[x]]]

(***************************************************************************)
(* v2 to v9: tenants, prompt and rules.                                    *)
(***************************************************************************)
V2Columns(d) == AddCols(d, {"v2"})

\* Seeded fault: as it was, a strategy equal to the column's default counts
\* as unset.
Bug_V2Strategies(d) ==
  Swap(Swap(d, "vinyl_strategy", {"", "tiered"}, "bulk_break"),
       "board_strategy", {"", "tiered"}, "bulk_break")

V2Strategies(d) ==
  Swap(Swap(d, "vinyl_strategy", {""}, "bulk_break"),
       "board_strategy", {""}, "bulk_break")

V2Taxes(d) == Seed(d, "taxes", "seed")

V2(d) == V2Taxes(V2Strategies(V2Columns(d)))

V3(d) ==
  LET e == AddCols(d, {"v3"})
  IN  IF HasProducts(d) THEN Seed(e, "categories", "seed") ELSE e

\* The sections of a prompt that the scripts know; all else is "own".
Sections == {"intro", "contact", "tone", "legacy", "own"}

CodePrompt == <<"intro", "contact", "tone">>

V4(d) ==
  SeedAll([d EXCEPT !.prompt = IF @ = <<>> THEN CodePrompt ELSE @],
          {"widget"})

\* Where the first of some sections is, or n if none is there.
FirstOf(p, S, n) == Min({i \in DOMAIN p : p[i] \in S} \cup {n})

\* The legacy catalogue and all that follows it go.
V5Prompt(p) == SubSeq(p, 1, FirstOf(p, {"legacy"}, Len(p) + 1) - 1)

V5(d) ==
  ForShops(d, Seed([d EXCEPT !.prompt = V5Prompt(@)],
                   "business_rules", "empty"))

V6(d) == Swap(d, "business_rules", {"empty"}, "default")

\* The contact section goes, up to the next header the script knows.
V7Prompt(p) ==
  LET from == FirstOf(p, {"contact"}, Len(p) + 1)
      rest == {i \in DOMAIN p : i > from /\ p[i] \in {"tone", "legacy"}}
      upto == Min(rest \cup {Len(p) + 1})
  IN  SubSeq(p, 1, from - 1) \o SubSeq(p, upto, Len(p))

V7(d) == [d EXCEPT !.prompt = V7Prompt(@)]

V8(d) == Swap(d, "business_rules", {"v6"}, "default")

V9(d) ==
  ForShops(d, SeedAll(Seed(Seed(d, "missive_enabled", "false"),
                           "missive_from_address", "test"), {"missive"}))

(***************************************************************************)
(* v10 to v21: integrations and secrets.                                   *)
(***************************************************************************)
V10(d) ==
  IF /\ d.val["soft_touch_price"] # Missing
     /\ \/ d.val["soft_touch_price"] # "seed"
        \/ d.val["soft_touch_category"] # "small_format"
  THEN Put(Put(d, "soft_touch_price", "seed"),
           "soft_touch_category", "small_format")
  ELSE d

V11(d) == Swap(d, "silk", {"no"}, "yes")

V12(d) == AddCols(d, {"v12"})

V13(d) == ForShops(d, SeedAll(d, {"printlogic_dry_run"}))

V14(d) == ForShops(d, SeedAll(d, {"multiplier"}))

V15(d) == AddCols(d, {"v15"})

V16(d) == ForShops(d, SeedAll(d, {"stripe_enabled"}))

\* Without a key of the environment nothing is encrypted.
V17(d, ring) ==
  IF ring # <<>> /\ d.secret.text # "" /\ d.secret.key = Plain
  THEN [d EXCEPT !.secret.key = Head(ring)]
  ELSE d

V18(d) == Put(d, "stripe_secret_key", Missing)

V19(d) == SeedAll(AddCols(d, {"v19"}), {"auto_draft"})

V20(d) == AddCols(d, {"v20"})

\* Seeded fault: the product is there, its aliases are added once more.
Bug_V21(d) ==
  Put(d, "secretest", IF d.val["secretest"] = Missing
                      THEN "seed" ELSE "doubled")

\* The demonstration product; its name, notes and price are set right again.
V21(d) == Put(d, "secretest", "seed")

(***************************************************************************)
(* v22 to v31: the funnel, artwork, the rules written anew each time.      *)
(***************************************************************************)
Rules(d, v) == Put(d, "business_rules", v)

V22(d) ==
  Rules(Seed(SeedAll(AddCols(d, {"v22"}), {"faqs"}),
             "shop_address", "placeholder"), "v22")

V23(d) ==
  Rules(SeedAll(Put(AddCols(d, {"v23"}), "shop_address", "seed"),
                {"shipping"}), "v23")

V24(d) == Rules(AddCols(d, {"v24"}), "v24")

\* A single file becomes a list of one, stored as text.
V25Artwork(d) == Swap(AddCols(d, {"v25"}), "artwork", {"single"}, "text")

V25Rules(d) == Rules(d, "v25")

\* Seeded fault: the column is left as text.
Bug_V26(d) == d

V26(d) == Swap(d, "artwork", {"text"}, "list")

V27(d) == Rules(Put(d, "order_status", "seed"), "v27")

V30(d) == AddCols(d, {"v30"})

V31(d) == SeedAll(d, {"auto_send"})

(***************************************************************************)
(* v33 to v38: notices, manual review, strategies, the Missive cutover.    *)
(***************************************************************************)
V33(d) ==
  Rules(SeedAll(Put(AddCols(d, {"v33"}), "notifications_enabled", "true"),
                {"notify_to"}), "v33")

V34Flip(d) ==
  IF d.val["vinyl_strategy"] \notin {"per_sqm", "per_sheet"}
  THEN Swap(AddCols(d, {"v34"}), "vinyl_manual", {"no"}, "yes")
  ELSE AddCols(d, {"v34"})

V34Scope(d) ==
  IF d.val["soft_touch_keys"] = "none"
  THEN Put(Put(d, "soft_touch_keys", "business_cards"),
           "soft_touch_category", "none")
  ELSE d

V34Rules(d) == Rules(SeedAll(V34Scope(d), {"poa_keywords"}), "v34")

V35(d) == SeedAll(AddCols(d, {"v35"}), {"alert_email"})

Moved == {"per_sqm", "per_sheet", "tiered", Missing}

V36Vinyl(d) ==
  IF d.val["vinyl_strategy"] \in Moved
  THEN d
  ELSE Put(Put(d, "vinyl_strategy", "per_sqm"), "vinyl_manual", "no")

V36Board(d) ==
  IF d.val["board_strategy"] \in Moved
  THEN d
  ELSE Put(d, "board_strategy", "per_sheet")

V36Strategies(d) == V36Board(V36Vinyl(AddCols(d, {"v36"})))

V36Rules(d) == Rules(d, "v36")

V37Threshold(d) == SeedAll(AddCols(d, {"v37"}), {"threshold"})

V37Flags(d) ==
  IF d.val["vinyl_strategy"] \in {"per_sqm", "per_sheet"}
  THEN Swap(d, "vinyl_manual", {"yes"}, "no")
  ELSE d

\* Seeded fault: the address is remembered before it is compared.
Bug_V37_7(d) ==
  LET e == SeedAll(d, {"team_domains"})
      from == d.val["missive_from_address"]
  IN  IF from \in {"", Missing} THEN Seed(e, "last_known", "")
      ELSE Put(e, "last_known", from)

V37_7(d) ==
  LET e == SeedAll(d, {"team_domains"})
      from == d.val["missive_from_address"]
      known == d.val["last_known"]
  IN  IF from \in {"", Missing} THEN Seed(e, "last_known", "")
      ELSE IF known \in {"", Missing} THEN Put(e, "last_known", from)
      ELSE IF from = known THEN e
      ELSE Put(Swap(e, "missive_enabled", {"true"}, "false"),
               "last_known", from)

V38Vinyl(d) == Swap(d, "vinyl_dims", {"no"}, "yes")

V38Posters(d) == Seed(d, "posters", "manual")

V38(d) == Rules(V38Posters(V38Vinyl(AddCols(d, {"v38"}))), "v38")

(***************************************************************************)
(* v39 to v44.                                                             *)
(***************************************************************************)
V39(d) == AddCols(d, {"v39"})

V40(d) == AddCols(d, {"v40"})

V41(d) == AddCols(d, {"v41"})

V42(d) == Swap(d, "ncr", {"pads"}, "books")

V43(d) == ForShops(d, SeedAll(d, {"laydown"}))

V44(d) == ForShops(d, SeedAll(d, {"temperature"}))

(***************************************************************************)
(* The chain, as startup.py runs it, and the tables that a step loads      *)
(* whole through the ORM: every column of their model must exist by then.  *)
(***************************************************************************)
Chain ==
  <<"init_db", "pre_ddl", "has_products", "wipe", "load", "v2", "v3", "v4",
    "v5", "v6", "v7", "v8", "v9", "v10", "v11", "v12", "v13", "v14", "v15",
    "v16", "v17", "v18", "v19", "v20", "v21", "v22", "v23", "v24",
    "v25_artwork", "v25_rules", "v26", "v27", "v30", "v31", "v33",
    "v34_flip", "v34_rules", "v35", "v36_strategies", "v36_rules",
    "v37_threshold", "v37_flags", "v37_7", "v38", "v39", "v40", "v41", "v42",
    "v43", "v44">>

\* The steps that change a row in the statement that reads it, or only rows
\* they insert; the others read a row and later write it by its id.
AtOnce == {"wipe", "load", "v34_flip", "v42"}

ProductCols == {"v2", "v3", "v34", "v36", "v38", "v39", "v41"}

Needs(s) ==
  CASE s \in {"has_products", "wipe", "load", "v21", "v38"} -> ProductCols
    [] s \in {"v10", "v34_rules"} -> {"v2", "v34"}
    [] OTHER -> {}

Migrated(s, d, ring) ==
  CASE s = "init_db" -> InitDb(d) [] s = "pre_ddl" -> PreDdl(d)
    [] s = "wipe" -> Wipe(d)      [] s = "load" -> Load(d)
    [] s = "v2" -> V2(d)   [] s = "v3" -> V3(d)   [] s = "v4" -> V4(d)
    [] s = "v5" -> V5(d)   [] s = "v6" -> V6(d)   [] s = "v7" -> V7(d)
    [] s = "v8" -> V8(d)   [] s = "v9" -> V9(d)   [] s = "v10" -> V10(d)
    [] s = "v11" -> V11(d) [] s = "v12" -> V12(d) [] s = "v13" -> V13(d)
    [] s = "v14" -> V14(d) [] s = "v15" -> V15(d) [] s = "v16" -> V16(d)
    [] s = "v17" -> V17(d, ring)
    [] s = "v18" -> V18(d) [] s = "v19" -> V19(d) [] s = "v20" -> V20(d)
    [] s = "v21" -> V21(d) [] s = "v22" -> V22(d) [] s = "v23" -> V23(d)
    [] s = "v24" -> V24(d) [] s = "v26" -> V26(d) [] s = "v27" -> V27(d)
    [] s = "v25_artwork" -> V25Artwork(d) [] s = "v25_rules" -> V25Rules(d)
    [] s = "v30" -> V30(d) [] s = "v31" -> V31(d) [] s = "v33" -> V33(d)
    [] s = "v34_flip" -> V34Flip(d) [] s = "v34_rules" -> V34Rules(d)
    [] s = "v35" -> V35(d)
    [] s = "v36_strategies" -> V36Strategies(d)
    [] s = "v36_rules" -> V36Rules(d)
    [] s = "v37_threshold" -> V37Threshold(d)
    [] s = "v37_flags" -> V37Flags(d) [] s = "v37_7" -> V37_7(d)
    [] s = "v38" -> V38(d) [] s = "v39" -> V39(d) [] s = "v40" -> V40(d)
    [] s = "v41" -> V41(d) [] s = "v42" -> V42(d) [] s = "v43" -> V43(d)
    [] s = "v44" -> V44(d) [] OTHER -> d
=============================================================================
