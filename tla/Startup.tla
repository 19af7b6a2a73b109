------------------------------- MODULE Startup -------------------------------
(***************************************************************************)
(* Instances of the service boot, serve and stop while the operator edits  *)
(* settings and catalogue through the dashboard (scripts/startup.py,       *)
(* admin_api.update_setting and update_product, secrets_crypto.py).        *)
(*                                                                         *)
(* A boot runs the chain of Migrations one step at a time; it may die at   *)
(* any of them, and two boots may overlap.  Two transactions that both     *)
(* insert one row are a boot that dies, too.  An instance that came up     *)
(* serves the dashboard.  A step reads first and writes by id later, with  *)
(* no lock and no version in between: what the operator saves meanwhile is *)
(* written over (UpdateLost).                                              *)
(***************************************************************************)
EXTENDS Migrations

CONSTANTS
  Instances,   \* containers of the service
  Releases,    \* whose database is found: "fresh", or a step of the chain
  KeyRings,    \* values of CRAIG_SECRETS_KEY, a sequence of keys each
  Edits,       \* what the operator may write, pairs of an item and a value
  Prompts,     \* the prompts the operator may save, sequences of sections
  None,        \* nothing edited, nothing recorded
  Lost,        \* the key of a process that is gone
  MaxBoots,    \* bound: boots
  MaxEdits,    \* bound: edits
  MaxMishaps   \* bound: boots that die, or begin during another one

\* What a product may be set to (db/models.py:30); whether it is for manual
\* review is a Boolean (db/models.py:161).
Strategies == {"tiered", "per_unit", "per_unit_metric", "bulk_break", "per_job",
               "per_sqm", "per_sheet"}

(***************************************************************************)
(* A database older than v3 cannot boot.  The dashboard writes no files of *)
(* customers and not what v37_7 remembers, and deletes nothing.  A key is  *)
(* not the mark of a text in the clear.  Bound: a saved prompt opens with  *)
(* the introduction and has the heading that v7 strips at most once, for   *)
(* one boot strips one.                                                    *)
(***************************************************************************)
ASSUME SUAssumption ==
  /\ Releases \subseteq {"fresh"} \cup {Chain[n] : n \in 7..Len(Chain)}
  /\ KeyRings # {}
  /\ \A r \in KeyRings : r # <<>> => Head(r) # Plain
  /\ Plain \notin Instances \cup {Lost}
  /\ \A e \in Edits :
       /\ e[1] \in Items \ {"artwork", "last_known"} /\ e[2] # Missing
       /\ e[1] \in {"vinyl_strategy", "board_strategy"} => e[2] \in Strategies
       /\ e[1] = "vinyl_manual" => e[2] \in {"yes", "no"}
  /\ \A p \in Prompts :
       /\ p \in Seq(Sections) /\ p # <<>> /\ p[1] = "intro"
       /\ \A m, n \in DOMAIN p : p[m] = "contact" /\ p[n] = "contact" => m = n
  /\ MaxBoots \in Nat /\ MaxEdits \in Nat /\ MaxMishaps \in Nat

Down == 0
Up == Len(Chain) + 1

VARIABLES
  db,    \* the database
  at,    \* where each instance is: Down, a step of the chain, or Up
  ring,  \* the keys of each instance
  mine,  \* history: what the operator last wrote
  seen,  \* history: the last address that a boot saw
  log,   \* history: see below
  used   \* counters of the bounds

vars == <<db, at, ring, mine, seen, log, used>>

Booting == {i \in Instances : at[i] \in 1..Len(Chain)}

(***************************************************************************)
(* fix: the database a boot left, if nothing was edited since; torn: a     *)
(* boot died, and no later one ran to its end yet; since: the boots begun  *)
(* after that, and after the last edit; late: a catalogue in use was       *)
(* wiped; over: the edits that a step wrote over as they were saved.       *)
(***************************************************************************)
TypeOK ==
  /\ db.cols \subseteq AllCols \cup {"v0"} /\ DOMAIN db.val = Items
  /\ at \in [Instances -> Down..Up]
  /\ ring \in [Instances -> KeyRings]
  /\ DOMAIN mine \subseteq Items \cup {"secret", "prompt"}
  /\ log.torn \in BOOLEAN /\ log.since \subseteq Instances
  /\ log.late \in BOOLEAN /\ log.over \subseteq DOMAIN mine
  /\ used \in [boots: 0..MaxBoots, edits: 0..MaxEdits, mishaps: 0..MaxMishaps]

(***************************************************************************)
(* The database that a release left: the files loaded as they were once,   *)
(* then the chain up to the release, without a key for secrets, and with   *)
(* the answering of mail switched on.                                      *)
(***************************************************************************)
Empty == [cols |-> {}, val |-> NoData, prompt |-> <<>>,
          secret |-> [text |-> "", key |-> Plain]]

Legacy ==
  LET d == Load([Empty EXCEPT !.cols = {"v0"}])
      old == [posters |-> Missing, silk |-> "no", ncr |-> "pads",
              artwork |-> "single", business_rules |-> "v6",
              stripe_secret_key |-> "own", missive_enabled |-> "true"]
  IN  [d EXCEPT !.prompt = <<"intro", "contact", "tone", "legacy">>,
                !.secret.text = "old",
                !.val = [x \in Items |->
                           IF x \in DOMAIN old THEN old[x] ELSE @[x]]]

Position(s) == CHOOSE n \in DOMAIN Chain : Chain[n] = s

LeftBy[n \in Nat] ==
  IF n < Position("v2") THEN Legacy
  ELSE Migrated(Chain[n], LeftBy[n - 1], <<>>)

Init ==
  /\ \E r \in Releases :
       db = IF r = "fresh" THEN Empty ELSE LeftBy[Position(r)]
  /\ at = [i \in Instances |-> Down]
  /\ ring \in [Instances -> {CHOOSE r \in KeyRings : TRUE}]
  /\ mine = [x \in {"secret"} |-> db.secret.text]
  /\ seen = db.val["last_known"]
  /\ log = [fix |-> None, torn |-> FALSE, since |-> {}, late |-> FALSE,
            over |-> {}]
  /\ used = [boots |-> 0, edits |-> 0, mishaps |-> 0]

(***************************************************************************)
(* Boots.                                                                  *)
(***************************************************************************)
Start(i) ==
  /\ at[i] = Down /\ used.boots < MaxBoots
  /\ at' = [at EXCEPT ![i] = 1]
  /\ \E r \in KeyRings : ring' = [ring EXCEPT ![i] = r]
  /\ log' = [log EXCEPT !.since = @ \cup {i}]
  /\ Booting # {} => used.mishaps < MaxMishaps
  /\ used' = [used EXCEPT !.boots = @ + 1,
                          !.mishaps = IF Booting = {} THEN @ ELSE @ + 1]
  /\ UNCHANGED <<db, mine, seen>>

\* A step dies on a column that is missing or a product that is there.
CanRun(s, d) == Needs(s) \subseteq d.cols /\ (s = "load" => CanLoad(d))

NextStep(n) ==
  IF Chain[n] = "has_products" /\ HasProducts(db) THEN Position("v2") ELSE n + 1

\* The step that boot i is at, from its first read to its commit.
Runs(i) ==
  LET s == Chain[at[i]]
  IN  /\ i \in Booting /\ at[i] < Len(Chain) /\ CanRun(s, db)
      /\ db' = Migrated(s, db, ring[i])
      /\ at' = [at EXCEPT ![i] = NextStep(@)]
      /\ seen' = IF s = "v37_7" /\ db.val["missive_from_address"] # ""
                 THEN db.val["missive_from_address"] ELSE seen
      /\ UNCHANGED ring

Migrate(i) ==
  /\ Runs(i)
  /\ log' = [log EXCEPT !.late = @ \/ (Chain[at[i]] = "wipe" /\ HasProducts(db))]
  /\ UNCHANGED <<mine, used>>

\* The last step; the service starts.
Finish(i) ==
  /\ at[i] = Len(Chain)
  /\ db' = Migrated(Chain[at[i]], db, ring[i])
  /\ at' = [at EXCEPT ![i] = Up]
  /\ log' = LET torn == log.torn /\ i \notin log.since
                alone == Booting = {i} /\ i \in log.since /\ ~torn
            IN  [log EXCEPT !.torn = torn,
                            !.fix = IF alone THEN db' ELSE @]
  /\ UNCHANGED <<ring, mine, seen, used>>

\* A key made for one process goes with it.
Forget(i) == [db EXCEPT !.secret.key = IF @ = i THEN Lost ELSE @]

Dies(i) ==
  /\ at' = [at EXCEPT ![i] = Down]
  /\ db' = Forget(i)
  /\ log' = [log EXCEPT !.torn = TRUE, !.since = {}]
  /\ UNCHANGED <<ring, mine, seen>>

Fails(i) ==
  /\ i \in Booting /\ ~CanRun(Chain[at[i]], db)
  /\ Dies(i)
  /\ UNCHANGED used

Crash(i) ==
  /\ i \in Booting /\ used.mishaps < MaxMishaps
  /\ Dies(i)
  /\ used' = [used EXCEPT !.mishaps = @ + 1]

\* A running instance is stopped, for a deployment or to scale down.
Stop(i) ==
  /\ at[i] = Up
  /\ at' = [at EXCEPT ![i] = Down]
  /\ db' = Forget(i)
  /\ UNCHANGED <<ring, mine, seen, log, used>>

(***************************************************************************)
(* The operator, through an instance that is up.                           *)
(***************************************************************************)
Saves(i) ==
  /\ at[i] = Up /\ used.edits < MaxEdits
  /\ used' = [used EXCEPT !.edits = @ + 1]

Remember(x, v) ==
  mine' = [y \in DOMAIN mine \cup {x} |-> IF y = x THEN v ELSE mine[y]]

Edit(i, x, v) ==
  /\ Saves(i) /\ Remember(x, v)
  /\ log' = [log EXCEPT !.fix = None, !.since = {}, !.over = @ \ {x}]
  /\ UNCHANGED <<at, ring, seen>>

\* A setting is created on writing, a product must be there.
UpdateItem(i) ==
  \E e \in Edits :
    /\ e[1] \in PricingItems => db.val[e[1]] # Missing
    /\ Edit(i, e[1], e[2]) /\ db' = Put(db, e[1], e[2])

\* The prompt is saved whole.
UpdatePrompt(i) ==
  \E p \in Prompts : Edit(i, "prompt", p) /\ db' = [db EXCEPT !.prompt = p]

\* The key a process encrypts with: its own, if the environment has none.
SealingKey(i) == IF ring[i] = <<>> THEN i ELSE Head(ring[i])

UpdateSecret(i) ==
  /\ Edit(i, "secret", "new")
  /\ db' = [db EXCEPT !.secret = [text |-> "new", key |-> SealingKey(i)]]

Mask == "********"

\* Seeded fault: the mask that the dashboard shows is saved as the secret.
Bug_SaveMask(i) ==
  /\ Edit(i, "secret", mine["secret"])
  /\ db' = [db EXCEPT !.secret = [text |-> Mask, key |-> SealingKey(i)]]

\* The form is saved as it was shown: the secret stays.
SaveMask(i) ==
  /\ at[i] = Up
  /\ UNCHANGED vars

(***************************************************************************)
(* The operator saves through j, between the read and the write of the     *)
(* step that boot i is at, something that the step changes: its write goes *)
(* over it.  An edit of anything else, or of what is not there yet, is as  *)
(* if made before or after the step.                                       *)
(***************************************************************************)
Overwritten(x, v) ==
  /\ Remember(x, v)
  /\ log' = [log EXCEPT !.fix = None, !.since = {}, !.over = @ \cup {x}]

UpdateLost(i, j) ==
  /\ Runs(i) /\ Saves(j)
  /\ Chain[at[i]] \notin AtOnce
  /\ \/ \E e \in Edits : /\ db.val[e[1]] \notin {Missing, db'.val[e[1]]}
                         /\ Overwritten(e[1], e[2])
     \/ \E p \in Prompts : /\ db.prompt \notin {<<>>, db'.prompt}
                           /\ Overwritten("prompt", p)
     \/ db'.secret # db.secret /\ Overwritten("secret", "new")

Next ==
  \E i \in Instances :
    \/ Start(i) \/ Migrate(i) \/ Finish(i) \/ Fails(i) \/ Crash(i) \/ Stop(i)
    \/ UpdateItem(i) \/ UpdatePrompt(i) \/ UpdateSecret(i) \/ SaveMask(i)
    \/ \E j \in Instances : UpdateLost(i, j)

Spec == Init /\ [][Next]_vars

(***************************************************************************)
(* Properties.                                                             *)
(***************************************************************************)
\* What the scripts write anew at every boot, or may: the edits that do not
\* last.  v10, v11, v18, v21, v22 to v38, the cutover of v37_7, v42.
Undone(x, v) ==
  \/ x \in {"business_rules", "notifications_enabled", "shop_address",
            "order_status", "soft_touch_price", "soft_touch_category", "silk",
            "secretest", "vinyl_dims", "vinyl_manual", "missive_enabled",
            "stripe_secret_key"}
  \/ /\ x \in {"vinyl_strategy", "board_strategy"}
     /\ v \notin {"per_sqm", "per_sheet", "tiered"}
  \/ <<x, v>> \in {<<"soft_touch_keys", "none">>, <<"ncr", "pads">>}

EditedItems == DOMAIN mine \cap Items

\* Where the first section is that v5 or v7 strips from a prompt.
Stripped(p) == FirstOf(p, {"contact", "legacy"}, Len(p) + 1)

\* Whatever boots run, die or overlap, all else the operator wrote, a
\* product's strategy among it, is not changed by a script, not even for a
\* moment, unless a script wrote over it as it was saved; and of a prompt
\* all that stands above the first heading which v5 and v7 know, the whole
\* of it if there is none (v2_multitenancy_pricing.py:131, the comments at
\* v36_per_sqm_per_sheet_pricing.py:313 and v38_widget_fixes.py:272).
EditsStand ==
  ~log.late =>
    /\ \A x \in EditedItems \ log.over :
         ~Undone(x, mine[x]) => db.val[x] = mine[x]
    /\ "prompt" \in DOMAIN mine \ log.over =>
         /\ Stripped(mine["prompt"]) > Len(mine["prompt"])
              => db.prompt = mine["prompt"]
         /\ \A n \in 1..(Stripped(mine["prompt"]) - 1) :
              n \in DOMAIN db.prompt /\ db.prompt[n] = mine["prompt"][n]

\* v7_patch_contact_contradiction.py:11 "anything else the user has edited in
\* the prompt is preserved": a section the operator wrote stands.  It does
\* not hold: below the contact section, a heading that v7 does not know goes
\* with it (v7_patch_contact_contradiction.py:51-57).
OwnTextStands ==
  "prompt" \in DOMAIN mine \ log.over =>
    ((\E n \in DOMAIN mine["prompt"] : mine["prompt"][n] = "own")
       => \E n \in DOMAIN db.prompt : db.prompt[n] = "own")

\* README.md:151 "Re-running is safe. Each migration checks for the specific
\* state it's applying and skips if already present": with no boot in
\* flight, everything the operator wrote is as written.  It does not hold,
\* see the run su_edits; EditsStand is what does hold.
EditsSurvive ==
  Booting = {} /\ ~log.torn /\ ~log.late =>
    \A x \in EditedItems \ log.over : db.val[x] = mine[x]

\* The columns that a script loads through the ORM exist when it runs, from
\* whatever release the database is (startup.py:39-113: the DDL of v34 to
\* v41 goes first).
SelectsFindTheirColumns ==
  \A i \in Booting : Needs(Chain[at[i]]) \subseteq db.cols

\* Once a boot has run through, and no other one died half way since, the
\* database is what the code expects: columns, settings, the latest rules,
\* no contact section in the prompt, artwork as lists, products with a
\* formula not on manual review, no key of the old Stripe flow.
Serviceable(d) ==
  /\ AllCols \subseteq d.cols
  /\ \A x \in (Settings \ {"stripe_secret_key"}) \cup ProductItems :
       d.val[x] # Missing
  /\ d.val["stripe_secret_key"] = Missing
  /\ d.val["business_rules"] = "v38"
  /\ d.val["artwork"] \in {Missing, "list"}
  /\ d.val["vinyl_strategy"] = "per_sqm" => d.val["vinyl_manual"] = "no"
  /\ \A n \in DOMAIN d.prompt : d.prompt[n] \notin {"contact", "legacy"}

BootServes == log.fix # None /\ ~log.late => Serviceable(log.fix)

\* The chain is idempotent, over crashes and overlaps too: until the next
\* edit every boot leaves what the one before it left (startup.py:7).  The
\* category of soft touch is left out: v10 sets it again once v34 has
\* cleared it, so that it takes two boots to settle.
Converges ==
  [][log.fix # None /\ log'.fix # None =>
       \A x \in Items \ {"soft_touch_category"} :
         log'.fix.val[x] = log.fix.val[x]]_vars

\* A boot that finds another from-address than the last boot that saw one
\* leaves Missive switched off (v37_7_cutover_safety.py:6-18).
CutoverIsDormant ==
  [][\A i \in Instances :
       /\ i \in Booting /\ at[i] = Position("v37_7") /\ at'[i] = at[i] + 1
       /\ {seen, db.val["missive_from_address"]} \cap {"", Missing} = {}
       /\ db.val["missive_from_address"] # seen
       => db'.val["missive_enabled"] # "true"]_vars

\* The secret is the one last saved, whatever boots encrypt and forms save,
\* unless v17 wrote the one it had read over it as it was saved; and no
\* instance with a key serves while it lies in the clear
\* (settings_security.py:56, v17_encrypt_existing_secrets.py:41).
SecretStands ==
  /\ "secret" \notin log.over => db.secret.text = mine["secret"]
  /\ \A i \in Instances :
       at[i] = Up /\ ring[i] # <<>> /\ db.secret.text # ""
       => db.secret.key # Plain

\* v17_encrypt_existing_secrets.py:52 "Without one, an in-process key would
\* encrypt rows that NO future process can decrypt -- catastrophic data loss.
\* Skip with a loud warning instead": an instance can read the secret.  It
\* does not hold: update_setting on an instance without a key encrypts with
\* the key of the process (secrets_crypto.py:103).
SecretReadable ==
  \A i \in Instances :
    at[i] = Up => db.secret.key \in {Plain, i} \cup {ring[i][n] : n \in DOMAIN ring[i]}
=============================================================================
