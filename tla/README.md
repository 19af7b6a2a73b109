# A TLA+ verification of Craig Pricing

Craig is the quoting agent of a print shop: customers chat with it in a web
widget or by email (Missive), it prices print jobs and leaves quotes in a
database, and the shop's staff work on those quotes in a dashboard - price the
difficult ones, approve, send a Stripe payment link, push the job to PrintLogic
(the shop's order system). This directory models the parts of it in which
several requests, restarts and unreliable services meet, and the parts whose
correctness is a matter of many cases: the engine that prices, the gates that
rewrite the language model's answers, and the chain of migrations that runs at
every boot.

## 1. Inventory

The service is one FastAPI application on Cloud Run, with SQLAlchemy sessions on
Postgres. Three facts about it shape every model:

* A synchronous handler runs in a thread of its own, an `async def` handler on
  the event loop; several of them, in one or in several containers, work on the
  same row at the same time.
* A session (`src/db/__init__.py:87`, `autoflush=False`) reads a row once and
  keeps a private copy. An UPDATE happens at `flush` or `commit` and writes *the
  columns whose value changed in that copy*, whatever the row holds by then.
  Checks made on the copy are therefore checks of the past. A JSON column
  (messages, artwork files, classification, attribution) is one column: whoever
  writes it writes all of it.
* Calls to Stripe, Missive, PrintLogic, Resend and the language model happen
  between the read and the commit. They may fail, or succeed without the answer
  arriving.

| component | state | operations | hard part | what makes it correct |
|---|---|---|---|---|
| quotes: approval and payment (`admin_api.py`, `stripe_push.py`, `stripe_client.py`, `missive_outbound.py`, `notifications.py`) | the row of a quote: status, price, link, payment status, email and notice markers; links at Stripe | set status, approve, manual price, create / cancel a link, bulk actions, delete, webhook, connect / disconnect | two handlers on one row; webhooks late, twice, out of order; lost answers | rows claim only payments that happened; one link and one email per quote; a paid row stays paid; no link is forgotten |
| rate limiter (`rate_limiter.py`) | a deque of times per client and route | one dependency | boundaries of the window, truncation, what may be forgotten | exactly the sliding window; an honest Retry-After |
| PrintLogic push (`printlogic_push.py`, `printlogic.py`) | order id of the row (real, `DRY-`, none), dry-run Setting; orders at PrintLogic | push, dry run, promotion, cancel | two clicks, timeouts after success, ambiguous 200s, switching the Setting | one open order per quote, recorded on its row |
| Missive inbound and engagement (`app.py`, `missive.py`, `llm/inbound_classifier.py`, `admin_api.py`) | handled messages (memory of each container), conversation status, classification JSON | webhook, triage, park, approve / reject, replay, notice | acknowledged before processed; duplicates; double clicks; rejection during a model run | every customer mail is answered at most once per container that takes it up, and not without release or approval |
| chat agent (`llm/craig_agent.py`) | messages, artwork answer, conversation status, pending quotes | chat turn, price, manual review, save info, confirm order, escalate; eight gates on the reply | overlapping turns; reuse and superseding of quotes; gates that undo each other | no exchange lost; one live quote per product; totals made of their parts; no PDF card before its time |
| widget API (`widget_api.py`, `static/widget.js`) | customer data, artwork files, issue reports | form, upload, delete a file, report | read - await - write; index into a changed list | every file uploaded is listed |
| attribution (`attribution.py`) | first and last touch | merge | write-once under concurrency | the first touch never changes |
| pricing engine (`pricing_engine.py`) | reads the catalogue tables | three tools with five calculations, surcharges, multiplier, minimum, VAT, shipping | tiers and their gaps, sheets, thresholds, which calculation applies | enough is billed, minimum respected, what takes a person is not priced |
| catalogue administration (`admin_api.py`) | categories, products, tiers, tax rates, surcharges | create, update, delete, two bulk imports | one bad row among many, a key twice, dry run | an import does what its report says |
| startup and migrations (`scripts/startup.py`, `scripts/v*.py`) | schema, catalogue, Setting rows, prompts, secrets | the chain at every boot | restart in the middle, two instances, old databases | it converges, and edits survive it |
| tenant settings and secrets (`admin_api.py`, `settings_security.py`, `secrets_crypto.py`) | Setting rows, a key per instance | update, mask, encrypt | masked values coming back, instances without a key | a mask never replaces a secret |
| notifications (`notifications.py`) | markers on rows | approval, manual-review, engagement, issue notices | check - send - mark | a notice is sent |
| sessions and pool (`db/__init__.py`) | 5+2 connections | acquire, release | event loop and threads waiting for each other | every request ends |
| authentication (`auth/jwt_auth.py`), documents (`pdf_generator.py`), payload (`printlogic_payload.py`), prototype (`main.py`, `extractor.py`) | none that changes | - | - | not modelled, see section 9 |

`PROJECT.json` lists every hazard with its line and the property that would
catch it going wrong, and for each definition the lines it translates.

## 2. The modules and how they fit

| module | role | extends / instantiates |
|---|---|---|
| `QuoteApproval` | approval and payment of quotes | |
| `PrintLogicPush` | orders at PrintLogic | |
| `RateLimiter` | the limiter | `SlidingWindow` (abstract), as `Promise` |
| `Engagement` | mail: webhook, triage, parking, approval | `Mailbox` (abstract), as `Box`, with the mishaps of the implementation as a sum of its counters |
| `ReplyGates` | the gates on the model's reply, as operators | |
| `Conversation` | turns, form, uploads, decisions on one conversation | extends `ReplyGates` |
| `Pricing` | the engine, as operators | |
| `Catalogue` | the administration of what the engine reads | extends `Pricing` |
| `Migrations` | every script of the chain, as operators on a database | |
| `Startup` | instances that boot, serve, and die | extends `Migrations` |
| `...Proofs` | theorems (`QuoteApproval`, `RateLimiter`, `PrintLogicPush`, `Engagement`, `Conversation` with `ReplyGates`, `Catalogue` with `Pricing`, `Startup`) | extend their module and `TLAPS` |
| `MailboxProofs` | `Engagement` implements `Mailbox` | extends `EngagementProofs` |
| `MC...` | instances for TLC | extend their module |

A quote meets `Conversation` first (priced, reused, superseded, decided) and
`QuoteApproval` after that; the two share the status values, and
`Conversation` abstracts the operator's handler to its decision. `Engagement`
treats a turn as one step that may or may not leave a quote; what such a turn
does is `Conversation`. The total of a quote in `Conversation` is symbolic
(which charges it is made of); `Pricing` computes the number.

## 3. State and actions

### QuoteApproval

`rows[q]` is the committed row, `present` the quotes that exist. `lock[q]` is
the handler whose uncommitted UPDATE keeps others from writing the row. `req[w]`
is the request worker `w` runs: where it is (`pc`), the row it loaded (`snap`)
and its private copy (`obj`). `plink` is what Stripe knows: for each link the
quote in its metadata, the amount, whether it is open, and the customer's money.
`known` holds the links somebody can open - shown in the dashboard after a
commit, or mailed. `sent` and `acked` are Stripe's events and those answered
with 200.

| action | code |
|---|---|
| `SetStatus`, `Approve` | `update_quote` and `bulk_quotes`: the gate, the status, whether it is the first transition |
| `NoNewLink`, `NewLink`, `LostLink` | `create_link_for_quote`: no link made, made and recorded, made without the answer arriving |
| `Flush`, `NotMailed`, `Mailed`, `MailedUnnoticed` | the `db.flush()` of an approval and `send_quote_draft` |
| `ManualPrice`, then `ReadForNotice`, `SendNotice`, `NoticeFails` | `manual_price_quote` and the notice it triggers |
| `RequestNotice` | the widget form asks for the same notice |
| `CreatePaymentLink`, `CancelPaymentLink`, `Deactivated`, `NotDeactivated` | the two payment-link handlers |
| `CommitNothing`, `CommitRow`, `StaleRow` | `db.commit()`: nothing changed, the changed columns are merged into the row, the row is gone |
| `DeleteQuote` | `delete_quote`; nothing outside is cleaned up |
| `Receive`, `AckUnknown` | the Stripe webhook |
| `Connect`, `Disconnect` | the account Setting |
| `Pay`, `FailToPay`, `Refund`, `Crash` | Stripe's customers and the container |

The merge is the heart of the model: `Merge(row, snap, obj)` takes a column from
the copy if the copy changed it and from the current row otherwise. A handler is
cut at each external call and at its commit, and nowhere else: between those it
touches only its copy.

Abstractions: `price` stands for `total` and `final_price_inc_vat`, `link` for
the id with its url, the two markers for their columns. Columns nothing here
depends on (notes, approver, timestamps, last errors) are left out; a request
that would write only those is one that changes nothing, so its wait for the row
lock is left out as well. Errors of an integration are choices that keep the
copy as it is. The webhook handler runs on the event loop and loads and commits
without awaiting, but in another container nothing keeps a handler from coming
in between, so it is two steps like the others. Bulk actions are one request per quote,
as each has its own commit.

### RateLimiter and SlidingWindow

`buckets[k]` is the deque of a client and route; `log[k]` the history of all its
admissions, `answer[k]` and `told[k]` the last answer and the time Retry-After
named. Time is counted in ticks, `Second` of them in a second, because the
header is in whole seconds and the clock is not. One request is one action: the
dependency does not await. `Restart` empties everything: the guarantee is per
process, and several containers each have their own.

`SlidingWindow` is the promise: a request is admitted exactly if fewer than
`Limit` admissions lie in the window that ends now. It knows the whole history
and no deque. `RateLimiter!Promise` instantiates it with the history as its
state.

### PrintLogicPush

`rows[q]` is the order id column: `None`, `Dry` (any `DRY-` id) or an order.
`req[w].id` is the id the handler read, later the one it will write, or `Keep`.
`order` is what PrintLogic knows. `PushDry` and `PushReal` are the two branches
of `push_quote` after its idempotency check; `Created`, `CreatedUnnoticed` and
`NotCreated` the outcomes of the call (the second also stands for a 200 without
an order id); `CancelDry`, `CancelReal`, `Cancelled`, `CancelledUnnoticed`,
`NotCancelled` those of a cancellation. Flush and commit follow each other
without a call in between and are one step, `Commit`. The docstring of
`push_quote` names the agent's order confirmation as a second caller; there is
no such call in the source, so the dashboard is the only one.

### Engagement and Mailbox

`rows[c]` is a conversation row: its thread, whether the gate holds it
(`pending`), cleared or rejected it, and `cls`, the one JSON column the parked
reply and all time stamps share. `pend` are the rows with a quote in the
operator's queue. `req[w].copy` is the row as the session loaded it. `seen` and
`order` are the set and the list of handled message ids. They are globals of a
process (`app.py:536`), bounded, and `cloudbuild.yaml` does not limit the service
to one instance: so there is one of each per container, and `HomeOf[w]` is the
container in which the task or handler `w` runs.

| action | code |
|---|---|
| `Deliver` | `missive_webhook`: acknowledged at once, work left to a background task |
| `CheckMark`, `AddMark`, `Evict` | `_mark_drafted`, three steps since two tasks run in two threads; all look at the memory of their own container, so a mail that another one handled passes (`used.strays`) |
| `Ignore`, `Triage`, `Verdict` | what is not answered; find or create the row; the classifier, and the statuses that drop a mail |
| `Talk`, `Turn`, `Park`, `Post` | the model's turn; the reply parked; the reply posted |
| `Notice`, `NoticeSent` | `trigger_engagement_approval_notification` |
| `Click`, `StampApproval`, `Flip`, `Send`, `Record`, `RecordFails`, `Replay`, `Resend` | `approve_engagement` and `_replay_craig_on_engagement_approval`, with the case that the post succeeded and its record did not |
| `ClickReject`, `Reject` | `reject_engagement` |
| `Crash` | a container ends: its tasks and its memory are gone, those of the others stay |

`Mailbox` is what the shop expects: a mail is taken up once, answered only if
released by the assistant or cleared by the operator, and answered once - or a
mishap explains it. `Box` maps `mishaps` to the sum of overlaps, restarts,
forgotten ids, successes not recorded, and second deliveries to a container that
did not see the first.

### ReplyGates and Conversation

After the last tool call `chat_with_craig` passes the model's text through eight
gates, each of which may replace the text, take markers out of it or put some
in. A reply is a record: its `marks` (artwork choice, upload, form, PDF card)
and whether it names a price, asks for a spec, and so on - what the gates look
at. `Contexts` is everything a gate reads. `Gated` is their composition, in the
order of the code; what the model writes is any reply.

`Conversation` runs turns against a row `conv` and its `quotes`. A session
`req[w]` loads copies (`Load`), changes them (`Put`) and writes the changed
columns back (`Write`); a query filters the rows as they are but hands out
copies already loaded as they were (`Status`, `All`), as the identity map does;
a row changed but not committed is held (`Holds`, `Free`).

| action | code |
|---|---|
| `TurnBegin` | attribution, sniffers (contact, artwork answer, artwork later), the queries at the head of the turn |
| `PriceTool` | a pricing tool that succeeds: the design-charge guard, reuse of a pending quote, or a new one that supersedes older ones |
| `ManualReview` | an escalation that leaves a quote for the operator |
| `SaveInfo`, `Escalate`, `ConfirmOrder` | the other tools |
| `FinishTurn` | the gates, the transcript, the status transition, the commit |
| `FormBegin`, `FormCommit` | `submit_customer_info` |
| `FetchFiles`, `Upload` | `upload_artwork`, cut where it awaits the body |
| `Remove` | `delete_artwork_file`: it pops from the list it loaded (`parse_artwork_files` returns that list itself) and assigns the same object back, which SQLAlchemy does not take for a change; so the list on the row stays, and only the columns that mirror its first file are written |
| `ReportIssue` | `report_issue` |
| `DecideBegin`, `Decide` | the operator's approval or rejection |
| `Fail` | an exception: the session is rolled back |

`conv.said` abstracts the messages column to what later turns read from it: how
many exchanges it holds, which markers were shown, and what the last one asked.

### Pricing and Catalogue

`Quote(c, q)` is the answer of the engine to a request `q` in a catalogue `c`:
`SmallFormat`, `LargeFormat` (by area, by sheet, by tiers of a size, by sheets
laid out with bleed and grip, by the piece) or the booklet tiers; then `Priced`
applies multiplier, minimum, VAT and artwork. Money is in cents, rates in
thousandths; where the code rounds a float the model takes the nearest integer,
and leaves open what a float makes of an exact half. `Catalogue` has one action
per administration call, single and in bulk; an import is one action, as it is
one transaction, with a report (`says`) per row. `Rows`, `Patches` and the other
constants are what an operator may enter, and `CAAssumption` is what the request
models of `admin_api.py` and the columns' types let in: whole cents and
thousandths, tiers of a positive quantity, a `price_per` that begins with a
positive number, rows that leave out what they have no value for. A row with a
minimum quantity of 0 is not modelled. `NeedsAPerson` says what no calculation
may price; a piece of unknown size is part of it only where the price is one of
the area, since the other calculations do not look at `requires_dimensions`.
`Fill` is the greedy loop of
`_stack_tiers` as a function of what is still wanted.

### Migrations and Startup

A database `d` has the columns that exist (`cols`), a value for each of the
settings and product columns the scripts read or write (`val`), the sections of
the stored prompts, and a secret with the key it is encrypted with. Each script
is an operator from a database to the next one; a script with two transactions
is two. `Chain` is the order of `startup.py`, the DDL it runs first included.
`Startup` runs the chain in several instances, one transaction at a time: they
may die at any of them and overlap, and two transactions that insert the same
row make one boot die. Meanwhile an instance that is up serves
`update_setting`, with masks and keys; a prompt is saved whole, with whatever
sections the operator gave it. A script reads a row, works on what it read and
writes at its commit, without a lock or a version: `UpdateLost` is a step of the
chain with a save of the row between its read and its write, which writes over
what was saved. `log.over` names what was lost in this way and not saved since.
Every script that writes a row which is there can do it, v5, v7 and v34 to the
prompt, v17 to the secret, v36 to a strategy; not those of `AtOnce`, which change
a row in the statement that reads it, or only insert.

## 4. Runs

| run | shows |
|---|---|
| `qa_race` | two handlers, two quotes, payments and refunds in any order, a restart: what rows claim about Stripe is true; a link stays with its quote; a quote on which no two staff requests met has no forgotten link and stays paid |
| `qa_sequential` | every operation, one handler at a time, a lost answer: one link, one email, paid stays paid |
| `qa_live` | two handlers that approve, cancel, link again and delete, in any overlap, two links, a restart: an approval owns its row while it mails; every request ends; a payment of the link on the row gets onto the row unless the link is taken off it, or other news of the quote crosses it |
| `rl_window` | the limiter implements the window; Retry-After is close |
| `pl_race` | two handlers, two quotes: a real id is that of an order of this quote; each mishap costs at most one order; real ids are kept |
| `en_mail` | two containers, one of which may end, two mails of one thread, delivered twice to either, parked, approved, rejected: `Engagement` implements `Mailbox`, where a second delivery to the other container is a mishap of its own; a rejection stands and leaves no quote behind |
| `cv_turns` | one request after another, any text and any tools: the PDF card is earned, one live quote per product, totals follow their parts, decided quotes stand, no design charge nobody asked for |
| `cv_race` | two requests at once: each overlap costs at most one exchange and one file, and no file is listed that was not uploaded; the first touch stands |
| `su_boot` | two instances, a fresh database or one of release v9, deaths, overlaps, edits: the chain finds its columns, converges, leaves a database that serves, keeps edits and secrets, and switches Missive off when its address changed |
| `ca_quotes` | two edits of a catalogue, all jobs priced after each: minimum, tiers and sheets hold, products under review, quantities outside their limits and areas of unknown pieces are not priced, one default rate, imports do what they say |

Two runs show where the program does not do what is said of it; they are the
`findings` of `PROJECT.json`, and section 8 has more that were met on the way:

| run | disagreement |
|---|---|
| `cv_size` | a pending quote is reused for a job of another size |
| `su_edits` | a boot overwrites the operator's business rules |

Type invariants (`TypeOK`) are stated in every module with variables and proved
for `QuoteApproval`, `RateLimiter`, `PrintLogicPush`, `Engagement`,
`Conversation`, `Catalogue` and `Startup`; they are left out of the runs, whose
properties would all break with them.

## 5. Bounds

Two workers are what every race needs; a second quote is there where a mix-up of
quotes is the question. Two links (three orders) let a quote get one more than
it should. `MaxRequests` counts the requests begun (2 to 5): enough for approve -
cancel - approve again, or for a stale copy to be committed after two others.
One restart, one lost answer: each hits any step. Stripe's redelivery of an
unacknowledged event costs no request, a delivery after the acknowledgement
does. `Offered` limits a run to the operations its question concerns;
`qa_sequential` offers all of them. In `rl_window` the clock passes almost two
windows and two routes have different limits. `CHECK_DEADLOCK FALSE` is set
where the bounds or a quiet environment let the model stop; the PrintLogic run
checks deadlock.

In `qa_live` two links and three requests make a link that is paid while an
overlapping handler, or a cancellation and a new link, take its place.

In `en_mail` both mails belong to one thread, since what goes wrong goes wrong
between them; the memory of handled ids holds one (`Cap`), so that the eviction
of 1024 happens. Two workers are in one container and one is in the other, so
that mails meet in one memory and pass in two; three deliveries or clicks make
approve - second mail, or mail - mail - reject, or a third delivery possible. In
`cv_turns` three requests with one tool each make two quotes and a decision on
one of them; two products, one above the threshold of free shipping, and two
variants tell reuse from superseding. The drafts of the model are the two the
gates treat most differently; *all* replies are covered by the theorems of
`ConversationProofs`. In `cv_race` up to two pairs of requests overlap, and one
fails. In `su_boot` three boots and one edit are what it takes for a boot to
undo an edit made after another one; the edits are one of each kind (seeded
once, written at every boot, a strategy, what the cutover looks at), one mishap
is a death at any of the 50 steps or an overlap at any two of them. The prompts
have a section of the operator's own, with and without a heading that v7 strips
above it. In `ca_quotes` the catalogue is one product for each calculation, with
the tiers of `src/data`, the imports contain a repeated key, an incomplete row
and a dry run, and about fifty jobs lie on, between, below and above tiers,
thresholds and limits.

**One handler at a time.** `qa_sequential` and `cv_turns` have one worker. They
say that the checks in the code are right as long as requests do not overlap -
every sequence of legal calls is explored.

**Mishaps.** What the code cannot prevent is counted instead of excluded.
`OneLiveLink` and `MailedOnce` allow one more for each lost answer and each
restart, `NoForgottenLink` one for each restart between mail and commit. They
and `PaidUntilRelinked` leave out the quotes on which two staff requests were at
work at once (`used.crowded`), the last one also those on which an event of
Stripe met another request (`used.crossed`); no other overlap is left out, so
the two histories are empty in `qa_sequential` and tell races from the rest in
`qa_race`. In `PrintLogicPush`, `Conversation` and `Engagement` `used.overlaps`
counts the requests begun while another one on the same row ran; the properties
say that each costs at most one order, exchange, file or quote, and `Mailbox`
that a mishap (an overlap, a restart, a forgotten id, a success not recorded, a
second delivery to another container) explains at most two extra answers, one by
the assistant itself and one by the operator. A property with a counter is exact
when the counter is zero.

**What holds only under a condition.** `PaymentIsRecorded` is a promise about
the link that is on the row. A link taken off it, by a cancellation or by the
commit of a handler that overlapped, takes a recorded payment with it: the new
link comes with `unpaid` (`stripe_push.py:178`). Other events of the quote that
met a request may hide the payment, too: an event is applied to the row as
committed, where an approval that has mailed its link has not written it yet,
and a failed attempt is written over a payment that came meanwhile. And it is
said of behaviours in which the account stays connected. With a disconnection it
is false: the links stay valid (the docstring of `oauth_stripe_disconnect` says
so), the webhook answers events of an account no tenant has with 200, and a
payment made meanwhile is never recorded, even after reconnecting. `EditsStand`
names the edits that a boot is known to undo (`Undone`) and says that all others
last, at every moment of every boot. Of a prompt it says so for what stands
above the first heading that v5 or v7 strips (`Stripped`), all of it if there is
none; below such a heading a boot may cut the operator's own text. Left out are
the values that a script wrote over as they were saved (`log.over`), which
`SecretStands` leaves out as well, and a catalogue wiped by two first boots that
overlap (`log.late`). `FirstTouchStands`, `RealIdIsKept`, `RejectionStands`,
`DecidedStands` and their like say nothing once requests of the same row have
overlapped: they are about the order of calls, not about races. `Converges`
leaves out the category of the soft-touch surcharge, which takes two boots to
settle.

## 6. Fairness

Only `qa_live` assumes any. External calls have timeouts (`httpx.Timeout` in
every client), so a handler that waits for one goes on: weak fairness of
`External(w)`. A writing step waits for the row lock, which Postgres grants in
the order of arrival, so others cannot overtake it for ever: strong fairness of
`Write(w)`. Stripe retries an unacknowledged event: weak fairness of its
delivery. Staff and customers are never obliged to act, and containers may
restart at any time within the bound. The run uses no symmetry. The other
modules state no liveness: the mail webhook promises none (a restart loses the
mail), and a boot that dies is begun again by Cloud Run, not by this code.

## 7. Proofs

All theorems are about every value of the constants, so any number of quotes,
handlers, links, requests and failures. They assume only the named assumption of
each module (`QAAssumption`, `RLAssumption`, `PLAssumption`, `ENAssumption`,
`CVAssumption`, `CAAssumption`, `SUAssumption`); `ENAssumption` has finitely
many workers and conversations, the others need no such bound, and `ReplyGates`
has no constants. `SUAssumption` says which databases are found (a fresh one, or
one of a release from v3 on), that a key is not the mark of a text in the clear,
and what the dashboard cannot write: the files of customers, the address v37.7
remembers, no value at all, a strategy outside the list of `db/models.py`, a
mark for manual review that is no Boolean (the column is one,
`db/models.py:161`).

* **QuoteApprovalProofs.** `TypeCorrect`: the invariant is `TypeOK`, which
  includes that a running request has a quote and a cancellation a link.
  `StripeClaimsAreTrue`: `BackedInv` is the strengthening that makes
  `NoPhantomPayment` and `LinkIsForItsQuote` inductive. What is on a row today
  was in some handler's copy before, and the copy came from an event or from
  Stripe's answer; so the claim must hold of rows, copies and events alike. Each
  step either writes a true claim, merges two true ones column by column, or
  lets Stripe's state grow (a link's quote never changes, money never goes
  back to none). `PaymentsAreReal` and `LinksBelong` follow. `MailUnderLock`
  shows that an approval holds its row while it mails: nobody deletes it,
  nobody else takes the lock.

  `OneLinkOpen`, `OneMail`, `LinksAreFound` and `PaidStays` say what the race
  run can only sample: on a quote where no two staff requests met, each mishap
  costs at most one link, mail or forgotten link, however many requests there
  were, and a paid row stays paid. Three layers carry them. `WorkInv` says what
  a handler may have made of its copy by the step it is at: the link column
  changes only from empty, or after the old link was switched off, and the draft
  only after the mail. `FreshInv` says that where no two staff requests met,
  the link and the draft that the one at work loaded are still on the row, and
  where no event crossed it either, the payment status, too; hence its commit
  writes what it meant to. On these rest the counts: an open link is the one
  the row or the request at work holds (`Held`), or it is astray, which takes a
  lost answer or a restart each; an email that went out is noted, on the row or
  in the copy (`Noted`), unless a mishap kept it from that. The bounds alone are
  not inductive, since they do not say when one more link or mail may come.
* **RateLimiterProofs.** The invariant relates, key by key, the deque to the
  history: it is the history's tail, ascending, no longer than the limit, and
  what came before is older than the window. From it follow `LimitHolds`,
  `DequeIsEnough`, `RetryAfterHolds` and, since then the deque's length *is* the
  number of recent admissions, the refinement `KeepsThePromise`.
* **PrintLogicPushProofs.** `TypeCorrect` and `IdsAreTrue`: once issued an order
  belongs to its quote for good, so a claim survives every step that does not
  write it; the commit moves a handler's claim to the row of the same quote.
  `OrdersAreFew` and `FewAreForgotten` count: the open orders a row does not name
  and the live requests of the quote, which may each still lose one, are
  together at most one more than the mishaps (`Covered`), and not even one more
  once a live request is no longer harmless, that is, may overwrite or miss an
  open order because another one committed meanwhile. On a deleted quote nothing
  begins any more, so its open orders and the requests about to create one are
  counted instead (`Bounded`). `RealIdStays`: as long as no two requests of a
  quote overlapped, each is alone and harmless (`Sole`), so no dry-run id is
  written over a real one.
* **EngagementProofs.** `TypeCorrect`. `Belongs` says that rows and workers keep
  to their thread, in any number of containers. As long as no two requests
  overlapped (`Alone`), a thread has one worker and one row, the row a task
  judged is as it was, and whoever goes on to write or to answer does so on a
  row that is not rejected; from this follow `RejectionClearsQuotes` and the
  action property `RejectionHolds`.
* **MailboxProofs.** `KeepsMailbox`: `Engagement` implements `Mailbox`, in its
  initial states and every step. The abstract guards bound numbers of answers,
  so the proof counts four times: a mail is taken up at most once more than
  there were mishaps (`TakenInv`): once a container has marked it, whoever
  passes does so in another container, as a mishap, or after an eviction or the
  end of a container, which are mishaps as well, and who checked before the mark
  overlapped; released at most as often as it was taken up,
  and once less when its reply was held back (`ReleasedInv`); answers given or
  on their way were released or cleared (`AnsweredInv`); and for a mail with a
  prepared reply all that was or may still be answered is paid for by the
  release, the first row of its thread and the mishaps (`BudgetInv`).
* **ConversationProofs, the gates.** Four theorems about `Gated` for every
  context and every text the model may write. `CardsAreEarned`: with the PDF
  card come a quote, an address and a complete funnel; PREMATURE takes the card
  away otherwise and no later gate brings it back without them.
  `PricesAreComputed`: no invented figure passes. `UploadsComeFirst`: a price
  computed while the promised file is missing is held back for the upload.
  `PromptsAreFitting`: what the gates add (an upload, a form, a card) fits the
  conversation; additions compose (`AddsCompose`), so it is enough to look at
  one gate at a time.
* **ConversationProofs, the rows.** `TypeCorrect`, and six properties from one
  invariant. A session works on copies, so the invariant is mostly about what
  may be said of copies that are out of date. Some things never become false
  (`Sound`): an address, a delivery method or a card once given is on the row
  for good, a quote that was no longer pending when loaded is not priced again
  by anybody, a design charge comes from a turn of a customer without artwork.
  `CardsStayEarned` follows with `CardsAreEarned`: what the gates were told when
  they let the card pass is still true when the answer is committed, over
  whatever others wrote meanwhile. As long as nothing overlapped the copies
  *are* the rows (`Alone`), which gives `TotalsAddUp`, `FirstTouchHolds`,
  `DecidedHolds` and `DesignsAreAsked`. `TurnsAreKept` counts: the exchanges the
  messages lack, or would lack after a session at work wrote them, and the other
  sessions at work are together no more than the overlaps (`TurnsInv`; that
  finitely many are at work is part of it). Every action is of one of five
  kinds, it begins a request, changes its session, commits it, drops it or is
  the issue report, so that the invariant is carried through five cases and not
  through each tool.
* **ConversationProofs, the files.** `FilesAreKept`. A request that overlapped
  another may overwrite the list of files of a quote, so what is counted is how
  far the lists of a conversation are from what it accepted. The rows alone are
  not enough: `FilesInv` says that whichever version of each list is put in, the
  row's own or one that a session at work has loaded, the files still differ
  from those accepted by no more than the overlaps that the sessions at work do
  not account for (`Near`, `Spare`). A commit chooses among the versions that
  were there, an upload adds one file to one of them. The sum over the quotes is
  a fold; a removal changes no list, so it counts for nothing here. The module
  proves what the argument needs of sums over finite sets, by an induction on a
  table of sums of subsets. TLC checked `FilesInv` with the bounds of `cv_race`
  first.
* **ConversationProofs, the pending quotes.** `OneStaysLive`: of each product
  there is one pending quote, and one more at most for every "also" and every
  overlap. A session that supersedes an older quote may still fail, and then the
  older one stays; one that adds a quote may have superseded only what it saw. So
  the rows alone are again not enough, and the invariant (`LiveInv`) is about any
  set of the sessions at work: should those commit, in whatever order, then the
  pending quotes they leave on the rows (`Left`) and those they bring (`Coming`)
  are together within the bound. A pricing tool without "also" leaves nothing
  pending of its product in its own session (`NoneBesides`), so with that session
  in the set nothing is left on the rows and each of the others brings one at
  most (`AsOne`), or was told "also" (`Wanted`); and the sessions at work are no
  more than the overlaps and one (`TurnsInv`). A commit turns what a session
  brings into rows one for one, so it is the same count with one session fewer.
  TLC checked `LiveInv` with two workers first.
* **CatalogueProofs.** `TypeCorrect`, the five invariants and the action property
  of `ca_quotes`, over any shop, any ladder of tiers, any panels, sheets, rates and
  requests, and imports of any length. Two arguments meet. One is about the
  engine, in any catalogue of the right shape: whatever a calculation prices is
  `Sound`. A price is a whole number of cents, multiplied and then floored
  (`Sums`), so the minimum holds; the stack covers the job with less than one
  smallest tier over (`Covers`, lemma `Filling`); the panels on a sheet are a
  grid that lies within it, and the sheets billed hold the job (`Cutting`). The
  other is about the handlers: each keeps the shape and at most one default rate
  (`Inv`), one lemma per kind of edit. The greedy stack and the import are
  recursive functions; for each the module proves that a table with its equation
  exists for every length, and then argues by induction on the length (`Filling`,
  `ImportDoes`). For imports the induction says that rows already written stand,
  and that what is said of a row does not depend on the rows before it: rows
  that share a key are all refused. What the sheets need of integer division are
  lemmas too (`Division`, `Ceiling`, `Capped`).
* **StartupProofs.** `TypeCorrect`, and six properties from two invariants, over
  the databases of every release, any edits, keys, crashes and any number of
  boots that overlap. What a script does is proved first, of any database: all
  but seven keep every value they have no business with, the prompt, the secret
  and the columns that are there (`Keeps`); the wipe, the load, v4, v5, v7, v17
  and v37.7 have lemmas of their own. So every step of the chain has an
  `Outcome`, and the invariant speaks of what holds *past* a step, whoever else
  runs behind it: past v4 there is a prompt, and past v5 and v7, unless one was
  saved since, it has lost the sections they cut; of a prompt the operator saved
  all that stands above the first such section is there, since a cut begins at
  one (`PromptInv`); past v17 an instance with a key has seen the secret
  encrypted (`SecretInv`); a value saved between the read and the write of a
  step leaves the database as the step alone would have, so `UpdateLost` is one
  more way for an instance to advance; past the first two steps the columns are
  there (`ColsInv`); the address remembered is the one last seen (`SeenInv`);
  and products come with a catalogue (`Sane`), so that a wipe or a load that may
  run finds nothing of the operator's to change. `EditsStandAlways`,
  `SecretStandsAlways`, `SelectsFind` and the action property `CutoverDormant`
  follow. The databases that releases left are a recursive function; the module
  proves, without the operators of the library's theorem, that a function with
  that equation exists.

  `BootServesAlways` and `ConvergesAlways` need not only what a script leaves
  alone but all that the scripts before it have done, so they have a second
  invariant, `DoneInvs`. `Fact(s, d)` says that script `s` has nothing left to do
  in database `d`: its columns are there (`Lays`), its items have a value
  (`Brings`), and what it rewrites is as it would leave it (`Settles`). For each of
  the 48 scripts but the wipe and the load, `StepWorks` shows that where its fact
  holds it changes nothing but the items written anew at every boot (`Restless`:
  the business rules and the category of soft touch), that it makes its own fact
  true once the earlier scripts it leans on ran (`Ready`), and that it undoes no
  other script's (`Works`). The wipe and the load do, but the instance that runs
  them has all those scripts still before it. The invariant says of every step
  that an instance has passed, since the last edit and since a boot last died,
  that its fact holds or another instance that boots has the step
  still before it (`DoneInv`): overlapping boots redo each other's work, so the
  fact may fail for a while, but never once the last of them is through. A boot
  that ends alone therefore leaves every fact true (`FixInv`), and the next
  changes nothing. The rules, which several scripts write, are those of the last
  writer (`LastRules`). That a catalogue in use brings all that a load makes
  (`StockInv`) holds of every release by induction over the chain
  (`ReleaseStock`), and with the facts gives `Serviceable`.

Only model-checked: liveness (`PaymentIsRecorded`, `RequestsEnd`; fairness is
out of the prover's reach). Every invariant and action property of the passing
runs is a theorem.

## 8. Where the code does not do what is said

Two with a run are in section 4. The following were met while modelling;
their properties are stated in the modules and do not hold, which adding the
property to the named configuration shows.

| property | configuration | what happens |
|---|---|---|
| `ApprovedHasPrice` | `qa_sequential` | `needs_revision` to `pending_approval` to `approved` avoids the gate for unpriced quotes (`admin_api.py:1927`) |
| `LinkChargesThePrice` | `qa_sequential` | a manual price does not touch an open link with the old amount (`admin_api.py:2127`) |
| `PaidIsKept` | `qa_sequential` | cancelling the link of a paid quote and making a new one sets it to unpaid (`admin_api.py:3644`), and so does the commit of a handler that overlapped and made a link of its own (`stripe_push.py:178`, in `qa_race`) |
| `RefundIsFinal` | `qa_sequential` | a late payment event turns refunded into paid (`db/models.py:476`) |
| `NeverMailedTwice` | `qa_race` | two approvals at once: two emails, and two links in the same way (`admin_api.py:1952`) |
| `RetryAfterIsEnough` | `rl_window` | waiting exactly as long as told is not enough (`rate_limiter.py:91`) |
| `NoDuplicatePush` | `pl_race` | two pushes at once: two orders (`db/models.py:468`) |
| `DuplicateRecognised` | `en_mail` | a mail that Missive delivers a second time, to another container, is taken up and perhaps answered again, without any overlap, restart or forgotten id: the set of handled mails is a global of the process, though the docstring of `_mark_drafted` says "returns False on a duplicate webhook delivery" (`app.py:536-546`) |
| `RemovalTakes` | `cv_turns` | a file removed from a quote stays on it: the list is popped in place and assigned back, so no shorter list is written, and Missive still gets the file (`widget_api.py:633-651`) |
| `UnsizedNeverPriced` | `ca_quotes` | a product that requires dimensions, patched to a calculation by the piece, is priced without a size, where the tests say that the engine must escalate (`pricing_engine.py:1797`, `test_pricing.py:739`) |
| `OwnTextStands` | `su_boot` | a boot cuts a section of the operator's own that stands below the contact heading, though v7 says that all else is preserved (`v7_patch_contact_contradiction.py:11`, `:51`) |
| `PendingIsAnswerable` | `en_mail` | a second mail parked on a thread already answered is taken for a repeated click, so approving it posts nothing (`admin_api.py:2765`) |
| `BlankCellsStay` | `ca_quotes` | an import that updates a product writes the default of a column its row leaves out, if it has one (`admin_api.py:982`) |
| `CheapestStack` | `ca_quotes` | tiers are stacked greedily: 900 A6 flyers are billed 217.50 while the tier of 1000 costs 130 (`pricing_engine.py:359`) |
| `SecretReadable` | `su_boot` | an instance without a key encrypts a saved secret with the key of its process (`secrets_crypto.py:103`) |

The edits `Undone` names, with the script that undoes them at the next boot: the
business rules (v22 to v38), `notifications_enabled` (v33), `shop_address`
(v23), `order_status` (v27), any other price of soft touch, or another category
(v10), its list of products when emptied (v34), the silk finish (v11), a row
`stripe_secret_key` (v18), the secret test product (v21), `requires_dimensions`
of vinyl labels (v38), their manual review (v34, v37), a strategy set to
anything v36 does not know (`bulk_break`, `per_unit`, `per_unit_metric`,
`per_job`), an NCR product named pads again (v42), and `missive_enabled` when
the address changed (v37.7, as intended). Of a prompt, v5 cuts the old catalogue
section and all below it, v7 the contact section and all below it up to the next
heading it knows. What is saved between the read and the write of a script is
overwritten (`UpdateLost`). Also: a database older than v3 cannot boot, since a
script loads whole rows before their columns exist; and two first boots that
overlap can wipe a catalogue that is already in use.

Deleting a quote deactivates no link: one that was open stays payable, and no
code deactivates it later (`NoForgottenLink` is about the quotes that exist).

Also seen in `Conversation`: AUTO-RELEASE adds the PDF card without asking for
artwork if the contact was saved in this turn and a quote is there from an
earlier one, which is why `CardIsEarned` allows that case.

## 9. Not modelled

* Authentication: a library verifies the token, a role check is one guard at the
  head of a handler.
* PDF layout (`pdf_generator.py`), the PrintLogic payload and the wording of
  mails and prompts: formatting without state.
* The prototype `main.py` and the offline `extractor.py`: not part of the
  service.
* What the language model answers and which tools it calls: arbitrary in every
  model.
* Sandbox conversations (`is_test`), the read-only tools of the agent and the
  status page, the OAuth exchange with Stripe (its result is `Connect`), the
  manual-review and issue notices, the cascade that deletes a conversation.
* The pool of connections: its queue and timeout are SQLAlchemy's; a model of it
  would be a model of the library.
* Storage of uploaded bytes and the JavaScript of the widget.

## 10. What could come next

That `QuoteApproval` implements an abstract ledger of payments.
