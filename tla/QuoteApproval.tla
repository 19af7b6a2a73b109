--------------------------- MODULE QuoteApproval ---------------------------
(***************************************************************************)
(* The life of a quote between the dashboard, Stripe and the customer's    *)
(* mailbox: the staff handlers of admin_api.py (change status, approve,    *)
(* save a manual price, create or cancel a payment link, delete), the      *)
(* approval notice of notifications.py, the Stripe webhook and the two     *)
(* integrations an approval fires (stripe_push.py, missive_outbound.py).   *)
(*                                                                         *)
(* Every handler runs in a thread of its own with a database session of    *)
(* its own.  It reads the row once, changes its private copy, calls the    *)
(* outside world on the way, and its UPDATE writes the columns it changed. *)
(* The handlers are therefore cut at each external call and each commit.   *)
(***************************************************************************)
EXTENDS Naturals, FiniteSets

CONSTANTS
  Quotes,       \* ids of the rows of the quotes table
  Workers,      \* handlers that can be in flight at the same time
  Links,        \* Stripe payment link ids ("plink_...")
  Prices,       \* positive totals a quote can have
  Targets,      \* statuses the staff PATCH a quote to
  Offered,      \* what staff, customers and Stripe do in this instance
  None,         \* no link, no quote, no event, no lock holder (SQL NULL)
  MaxRequests,  \* bound: requests started
  MaxCrashes,   \* bound: container restarts
  MaxLost       \* bound: answers of Stripe or Missive lost after they acted

Statuses == {"pending_approval", "approved", "sent", "accepted", "rejected",
             "needs_revision"}

Operations == {"status", "approve", "price", "link", "cancel", "notice",
               "delete", "connect", "fail", "refund"}

ASSUME QAAssumption ==
  /\ Prices \subseteq Nat \ {0}
  /\ Targets \subseteq Statuses
  /\ Offered \subseteq Operations
  /\ None \notin Quotes /\ None \notin Workers /\ None \notin Links
  /\ None \notin Links \X {"paid", "failed", "refunded"}
  /\ MaxRequests \in Nat /\ MaxCrashes \in Nat /\ MaxLost \in Nat

PayStatuses == {"none", "unpaid", "paid", "refunded", "failed"}

(***************************************************************************)
(* The columns of a quote the handlers of this module read or write.       *)
(* price stands for total and final_price_inc_vat (0 is NULL), link for    *)
(* the link id and its url (always written together), draft and notified   *)
(* for missive_draft_id and notification_sent_at being set.                *)
(***************************************************************************)
Row == [status: Statuses, price: Prices \cup {0}, link: Links \cup {None},
        pay: PayStatuses, draft: BOOLEAN, notified: BOOLEAN]

NewRow(s, p) == [status |-> s, price |-> p, link |-> None, pay |-> "none",
                 draft |-> FALSE, notified |-> FALSE]

Event == Links \X {"paid", "failed", "refunded"}

Request ==
  [pc: {"idle", "stripe", "deactivate", "flush", "mail", "commit",
        "notify", "notice"},
   op: {"none", "status", "approve", "price", "link", "cancel", "notice",
        "webhook"},
   quote: Quotes \cup {None}, event: Event \cup {None},
   snap: Row, obj: Row]

Idle == [pc |-> "idle", op |-> "none", quote |-> None, event |-> None,
         snap |-> NewRow("rejected", 0), obj |-> NewRow("rejected", 0)]

PaymentLink == [quote: Quotes \cup {None}, amount: Nat,
                state: {"unissued", "active", "inactive"},
                money: {"none", "paid", "refunded"}]

VARIABLES
  present,   \* quotes whose row exists
  rows,      \* the committed rows
  lock,      \* holder of the lock an uncommitted UPDATE keeps on a row
  req,       \* the handler each worker runs, with its session's copy
  account,   \* the tenant's stripe_account_id Setting is filled in
  plink,     \* payment links as Stripe knows them
  known,     \* links somebody outside can open: recorded on a row or mailed
  sent,      \* events Stripe has to report
  acked,     \* events answered with 200
  mails,     \* emails the customer of a quote received
  notices,   \* "ready for approval" emails the approver received
  used       \* bounded resources consumed so far; and the quotes on which two
             \* staff requests were at work at once (crowded), and those on
             \* which a Stripe event met another request (crossed)

db   == <<present, rows, lock>>
ext  == <<plink, known, mails, notices>>
vars == <<present, rows, lock, req, account, plink, known, sent, acked,
          mails, notices, used>>

\* A running request concerns a quote, one that cancels a link has one.
RequestOK(r) ==
  /\ r.pc # "idle" => r.quote \in Quotes
  /\ r.pc = "deactivate" => r.obj.link \in Links

TypeOK ==
  /\ present \subseteq Quotes
  /\ rows \in [Quotes -> Row]
  /\ lock \in [Quotes -> Workers \cup {None}]
  /\ req \in [Workers -> Request]
  /\ \A w \in Workers : RequestOK(req[w])
  /\ account \in BOOLEAN
  /\ plink \in [Links -> PaymentLink]
  /\ known \subseteq Links
  /\ sent \subseteq Event /\ acked \subseteq Event
  /\ mails \in [Quotes -> Nat] /\ notices \in [Quotes -> Nat]
  /\ used \in [requests: Nat, crashes: Nat, lost: Nat,
               crowded: SUBSET Quotes, crossed: SUBSET Quotes]

(***************************************************************************)
(* Craig hands a quote over either priced, or unpriced for the staff; a    *)
(* smoke-test (sentinel) quote is born approved.                           *)
(***************************************************************************)
Init ==
  /\ present = Quotes
  /\ rows \in [Quotes -> {NewRow(s, p) : s \in {"pending_approval", "approved"},
                                         p \in Prices}
                           \cup {NewRow("needs_revision", 0)}]
  /\ lock = [q \in Quotes |-> None]
  /\ req = [w \in Workers |-> Idle]
  /\ account = TRUE
  /\ plink = [l \in Links |-> [quote |-> None, amount |-> 0,
                               state |-> "unissued", money |-> "none"]]
  /\ known = {} /\ sent = {} /\ acked = {}
  /\ mails = [q \in Quotes |-> 0] /\ notices = [q \in Quotes |-> 0]
  /\ used = [requests |-> 0, crashes |-> 0, lost |-> 0,
             crowded |-> {}, crossed |-> {}]

-----------------------------------------------------------------------------
(***************************************************************************)
(* Sessions.  An UPDATE sets the columns whose value differs from the one  *)
(* the session loaded and leaves the others to whoever wrote them last.    *)
(***************************************************************************)
Changed(loaded, mine, current) == IF mine # loaded THEN mine ELSE current

Merge(row, snap, obj) ==
  [status   |-> Changed(snap.status, obj.status, row.status),
   price    |-> Changed(snap.price, obj.price, row.price),
   link     |-> Changed(snap.link, obj.link, row.link),
   pay      |-> Changed(snap.pay, obj.pay, row.pay),
   draft    |-> Changed(snap.draft, obj.draft, row.draft),
   notified |-> Changed(snap.notified, obj.notified, row.notified)]

Goto(w, pc) == req' = [req EXCEPT ![w].pc = pc]

\* The handler continues at pc with its copy of the row changed to obj.
Continue(w, pc, obj) == req' = [req EXCEPT ![w].pc = pc, ![w].obj = obj]

Finish(w) == req' = [req EXCEPT ![w] = Idle]

\* The staff, or Stripe, has a request at work on q.
Staffed(q) == \E v \in Workers : req[v].quote = q /\ req[v].op # "webhook"
Hooked(q)  == \E v \in Workers : req[v].quote = q /\ req[v].op = "webhook"

\* A free worker loads the row of q and begins op with its copy set to obj.
Load(w, op, pc, q, obj) ==
  /\ op \in Offered
  /\ req[w].pc = "idle"
  /\ q \in present
  /\ used.requests < MaxRequests
  /\ used' = [used EXCEPT !.requests = @ + 1,
                          !.crowded = @ \cup {p \in {q} : Staffed(p)},
                          !.crossed = @ \cup {p \in {q} : Hooked(p)}]
  /\ req' = [req EXCEPT ![w] = [pc |-> pc, op |-> op, quote |-> q,
                                event |-> None, snap |-> rows[q], obj |-> obj]]
  /\ UNCHANGED <<db, ext, account, sent, acked>>

(***************************************************************************)
(* Dashboard requests.                                                     *)
(***************************************************************************)
\* PATCH of the status to anything that fires no integration, bulk reject,
\* and a repeated "approved" on an approved quote.
SetStatus(w, q, s) ==
  /\ s = "approved" => rows[q].status = "approved"
  /\ Load(w, "status", "commit", q, [rows[q] EXCEPT !.status = s])

\* PATCH or bulk action to "approved", refused while a price is missing.
Approve(w, q) ==
  /\ rows[q].status \notin {"needs_revision", "approved"}
  /\ Load(w, "approve", "stripe", q, [rows[q] EXCEPT !.status = "approved"])

ManualPrice(w, q, p) ==
  /\ rows[q].status = "needs_revision"
  /\ Load(w, "price", "commit", q,
          [rows[q] EXCEPT !.price = p, !.notified = FALSE,
                          !.status = "pending_approval"])

CreatePaymentLink(w, q) == Load(w, "link", "stripe", q, rows[q])

CancelPaymentLink(w, q) ==
  /\ rows[q].link # None
  /\ Load(w, "cancel", "deactivate", q, rows[q])

\* The widget form (or an approved engagement) asks for the approval notice.
RequestNotice(w, q) == Load(w, "notice", "notify", q, rows[q])

\* Nothing outside the database is cleaned up.
DeleteQuote(q) ==
  /\ "delete" \in Offered
  /\ q \in present
  /\ lock[q] = None
  /\ present' = present \ {q}
  /\ UNCHANGED <<rows, lock, req, account, ext, sent, acked, used>>

(***************************************************************************)
(* create_link_for_quote.  Without a new link the copy keeps its columns:  *)
(* Stripe is disabled or refuses, no account, nothing to charge, or the    *)
(* idempotency guard found a link.                                         *)
(***************************************************************************)
AfterStripe(w) == IF req[w].op = "approve" THEN "flush" ELSE "commit"

NoNewLink(w) ==
  /\ req[w].pc = "stripe"
  /\ Goto(w, AfterStripe(w))
  /\ UNCHANGED <<db, ext, account, sent, acked, used>>

\* Seeded fault: the idempotency guard is missing.
Bug_LinkWanted(w) ==
  /\ req[w].pc = "stripe"
  /\ account
  /\ req[w].obj.price > 0

LinkWanted(w) ==
  /\ req[w].pc = "stripe"
  /\ account
  /\ req[w].obj.link = None
  /\ req[w].obj.price > 0

\* Seeded fault: the link is issued without metadata.craig_quote_id.
Bug_Issue(w, l) ==
  /\ plink[l].state = "unissued"
  /\ plink' = [plink EXCEPT ![l] = [quote |-> None,
                                    amount |-> req[w].obj.price,
                                    state |-> "active", money |-> "none"]]

Issue(w, l) ==
  /\ plink[l].state = "unissued"
  /\ plink' = [plink EXCEPT ![l] = [quote |-> req[w].quote,
                                    amount |-> req[w].obj.price,
                                    state |-> "active", money |-> "none"]]

\* Seeded fault: a new link counts as paid.
Bug_NewLink(w, l) ==
  /\ LinkWanted(w)
  /\ Issue(w, l)
  /\ Continue(w, AfterStripe(w),
              [req[w].obj EXCEPT !.link = l, !.pay = "paid"])
  /\ UNCHANGED <<db, account, known, sent, acked, mails, notices, used>>

NewLink(w, l) ==
  /\ LinkWanted(w)
  /\ Issue(w, l)
  /\ Continue(w, AfterStripe(w),
              [req[w].obj EXCEPT !.link = l, !.pay = "unpaid"])
  /\ UNCHANGED <<db, account, known, sent, acked, mails, notices, used>>

\* Timeout after Stripe acted: the link lives, the handler records an error.
LostLink(w, l) ==
  /\ LinkWanted(w)
  /\ used.lost < MaxLost
  /\ Issue(w, l)
  /\ Goto(w, AfterStripe(w))
  /\ used' = [used EXCEPT !.lost = @ + 1]
  /\ UNCHANGED <<db, account, known, sent, acked, mails, notices>>

\* Seeded fault: the payment status is cleared whatever it is.
Bug_Unlinked(row) == [row EXCEPT !.link = None, !.pay = "none"]

(***************************************************************************)
(* Deactivation of a link at Stripe.                                       *)
(***************************************************************************)
Unlinked(row) ==
  [row EXCEPT !.link = None, !.pay = IF @ = "unpaid" THEN "none" ELSE @]

Deactivated(w) ==
  /\ req[w].pc = "deactivate"
  /\ account
  /\ plink' = [plink EXCEPT ![req[w].obj.link].state = "inactive"]
  /\ \/ Continue(w, "commit", Unlinked(req[w].obj)) /\ UNCHANGED used
     \/ /\ used.lost < MaxLost
        /\ Goto(w, "commit")
        /\ used' = [used EXCEPT !.lost = @ + 1]
  /\ UNCHANGED <<db, account, known, sent, acked, mails, notices>>

\* Seeded fault: the link is cleared though Stripe refused.
Bug_NotDeactivated(w) ==
  /\ req[w].pc = "deactivate"
  /\ Continue(w, "commit", Unlinked(req[w].obj))
  /\ UNCHANGED <<db, ext, account, sent, acked, used>>

NotDeactivated(w) ==
  /\ req[w].pc = "deactivate"
  /\ Goto(w, "commit")
  /\ UNCHANGED <<db, ext, account, sent, acked, used>>

\* Seeded fault: the flush before the email is missing.
Bug_Flush(w) ==
  /\ req[w].pc = "flush"
  /\ req[w].quote \in present
  /\ Goto(w, "mail")
  /\ UNCHANGED <<present, rows, lock, account, ext, sent, acked, used>>

(***************************************************************************)
(* The flush before the email takes the row lock and keeps it until the    *)
(* commit; a row deleted meanwhile fails the request.                      *)
(***************************************************************************)
Flush(w) ==
  LET q == req[w].quote IN
  /\ req[w].pc = "flush"
  /\ q \in present
  /\ lock[q] = None
  /\ lock' = [lock EXCEPT ![q] = w]
  /\ Goto(w, "mail")
  /\ UNCHANGED <<present, rows, account, ext, sent, acked, used>>

(***************************************************************************)
(* send_quote_draft.  No email leaves when Missive is disabled, refuses,   *)
(* the customer has no address, or the copy already carries a draft id.    *)
(***************************************************************************)
NotMailed(w) ==
  /\ req[w].pc = "mail"
  /\ Goto(w, "commit")
  /\ UNCHANGED <<db, ext, account, sent, acked, used>>

\* Seeded fault: missive_draft_id is not looked at.
Bug_SendMail(w) ==
  /\ req[w].pc = "mail"
  /\ mails' = [mails EXCEPT ![req[w].quote] = @ + 1]
  /\ known' = known \cup ({req[w].obj.link} \ {None})

SendMail(w) ==
  /\ req[w].pc = "mail"
  /\ ~req[w].obj.draft
  /\ mails' = [mails EXCEPT ![req[w].quote] = @ + 1]
  /\ known' = known \cup ({req[w].obj.link} \ {None})

Mailed(w) ==
  /\ SendMail(w)
  /\ Continue(w, "commit", [req[w].obj EXCEPT !.draft = TRUE])
  /\ UNCHANGED <<db, account, plink, sent, acked, notices, used>>

\* Missive sent the email, the answer was lost or named no draft id.
MailedUnnoticed(w) ==
  /\ SendMail(w)
  /\ used.lost < MaxLost
  /\ Goto(w, "commit")
  /\ used' = [used EXCEPT !.lost = @ + 1]
  /\ UNCHANGED <<db, account, plink, sent, acked, notices>>

(***************************************************************************)
(* Commit.  A request that changed nothing writes nothing; one that did    *)
(* waits for the row lock; an UPDATE of a deleted row is an error.         *)
(***************************************************************************)
Committed(w) ==
  /\ IF req[w].op = "price" THEN Goto(w, "notify") ELSE Finish(w)
  /\ acked' = acked \cup ({req[w].event} \ {None})

CommitNothing(w) ==
  /\ req[w].pc = "commit"
  /\ req[w].obj = req[w].snap
  /\ Committed(w)
  /\ UNCHANGED <<db, account, ext, sent, used>>

\* Seeded fault: the row lock outlives the commit.
Bug_CommitRow(w) ==
  LET q == req[w].quote IN
  /\ req[w].pc = "commit"
  /\ req[w].obj # req[w].snap
  /\ q \in present
  /\ lock[q] \in {None, w}
  /\ rows' = [rows EXCEPT ![q] = Merge(@, req[w].snap, req[w].obj)]
  /\ known' = known \cup ({rows'[q].link} \ {None})
  /\ Committed(w)
  /\ UNCHANGED <<present, lock, account, plink, sent, mails, notices, used>>

CommitRow(w) ==
  LET q == req[w].quote IN
  /\ req[w].pc = "commit"
  /\ req[w].obj # req[w].snap
  /\ q \in present
  /\ lock[q] \in {None, w}
  /\ rows' = [rows EXCEPT ![q] = Merge(@, req[w].snap, req[w].obj)]
  /\ lock' = [lock EXCEPT ![q] = None]
  /\ known' = known \cup ({rows'[q].link} \ {None})
  /\ Committed(w)
  /\ UNCHANGED <<present, account, plink, sent, mails, notices, used>>

StaleRow(w) ==
  /\ req[w].pc \in {"flush", "commit"}
  /\ req[w].obj # req[w].snap
  /\ req[w].quote \notin present
  /\ Finish(w)
  /\ UNCHANGED <<db, account, ext, sent, acked, used>>

(***************************************************************************)
(* trigger_approval_notification: read the row, send unless the marker is  *)
(* set, then persist the marker.  It also ends a manual pricing.           *)
(***************************************************************************)
ReadForNotice(w) ==
  LET q == req[w].quote IN
  /\ req[w].pc = "notify"
  /\ IF q \in present /\ ~rows[q].notified
     THEN req' = [req EXCEPT ![w].pc = "notice", ![w].op = "notice",
                             ![w].snap = rows[q], ![w].obj = rows[q]]
     ELSE Finish(w)
  /\ UNCHANGED <<db, account, ext, sent, acked, used>>

SendNotice(w) ==
  /\ req[w].pc = "notice"
  /\ notices' = [notices EXCEPT ![req[w].quote] = @ + 1]
  /\ Continue(w, "commit", [req[w].obj EXCEPT !.notified = TRUE])
  /\ UNCHANGED <<db, account, plink, known, sent, acked, mails, used>>

NoticeFails(w) ==
  /\ req[w].pc = "notice"
  /\ Finish(w)
  /\ UNCHANGED <<db, account, ext, sent, acked, used>>

\* Seeded faults: paid regresses; events are kept only for rows without a
\* link.
Bug_Regress(row, status) == [row EXCEPT !.pay = status]

Bug_OnlyFresh(row, status) ==
  IF row.pay # "none" THEN row ELSE [row EXCEPT !.pay = status]

(***************************************************************************)
(* The Stripe webhook.  Stripe delivers an event until it gets a 200, and  *)
(* may deliver it again afterwards; the order of events is arbitrary.      *)
(***************************************************************************)
Apply(row, status) ==
  IF row.pay = "paid" /\ status # "refunded" THEN row
  ELSE [row EXCEPT !.pay = status]

Receive(w, e) ==
  LET q == plink[e[1]].quote IN
  /\ req[w].pc = "idle"
  /\ e \in sent
  /\ account
  /\ q \in present
  /\ e \in acked => used.requests < MaxRequests
  /\ used' = [used EXCEPT !.requests = IF e \in acked THEN @ + 1 ELSE @,
                          !.crossed = @ \cup {p \in {q} : Staffed(p) \/ Hooked(p)}]
  /\ req' = [req EXCEPT ![w] = [pc |-> "commit", op |-> "webhook", quote |-> q,
                                event |-> e, snap |-> rows[q],
                                obj |-> Apply(rows[q], e[2])]]
  /\ UNCHANGED <<db, ext, account, sent, acked>>

\* No tenant has this account, or no such quote: 200 and nothing is kept.
AckUnknown(e) ==
  /\ e \in sent \ acked
  /\ ~account \/ plink[e[1]].quote \notin present
  /\ acked' = acked \cup {e}
  /\ UNCHANGED <<db, ext, req, account, sent, used>>

(***************************************************************************)
(* The tenant's Stripe account: disconnected (the links stay valid) or     *)
(* connected again.                                                        *)
(***************************************************************************)
Disconnect ==
  /\ "connect" \in Offered
  /\ account
  /\ account' = FALSE
  /\ UNCHANGED <<db, ext, req, sent, acked, used>>

Connect ==
  /\ ~account
  /\ account' = TRUE
  /\ UNCHANGED <<db, ext, req, sent, acked, used>>

(***************************************************************************)
(* Stripe's side: customers pay, fail to pay and are refunded.             *)
(***************************************************************************)
Report(l, type) == sent' = sent \cup {<<l, type>>}

Pay(l) ==
  /\ l \in known
  /\ plink[l].state = "active" /\ plink[l].money = "none"
  /\ plink' = [plink EXCEPT ![l].money = "paid"]
  /\ Report(l, "paid")
  /\ UNCHANGED <<db, req, account, known, acked, mails, notices, used>>

FailToPay(l) ==
  /\ "fail" \in Offered
  /\ l \in known
  /\ plink[l].state = "active" /\ plink[l].money = "none"
  /\ Report(l, "failed")
  /\ UNCHANGED <<db, ext, req, account, acked, used>>

Refund(l) ==
  /\ "refund" \in Offered
  /\ plink[l].money = "paid"
  /\ plink' = [plink EXCEPT ![l].money = "refunded"]
  /\ Report(l, "refunded")
  /\ UNCHANGED <<db, req, account, known, acked, mails, notices, used>>

(***************************************************************************)
(* The container restarts: requests die, their row locks with them.        *)
(***************************************************************************)
Crash ==
  /\ used.crashes < MaxCrashes
  /\ used' = [used EXCEPT !.crashes = @ + 1]
  /\ req' = [w \in Workers |-> Idle]
  /\ lock' = [q \in Quotes |-> None]
  /\ UNCHANGED <<present, rows, account, ext, sent, acked>>

-----------------------------------------------------------------------------
External(w) ==
  \/ NoNewLink(w) \/ \E l \in Links : NewLink(w, l) \/ LostLink(w, l)
  \/ Deactivated(w) \/ NotDeactivated(w)
  \/ NotMailed(w) \/ Mailed(w) \/ MailedUnnoticed(w)
  \/ ReadForNotice(w) \/ SendNotice(w) \/ NoticeFails(w)

Write(w) == Flush(w) \/ CommitNothing(w) \/ CommitRow(w) \/ StaleRow(w)

Dashboard(w, q) ==
  \/ \E s \in Targets : SetStatus(w, q, s)
  \/ Approve(w, q)
  \/ \E p \in Prices : ManualPrice(w, q, p)
  \/ CreatePaymentLink(w, q) \/ CancelPaymentLink(w, q)
  \/ RequestNotice(w, q)

Next ==
  \/ \E w \in Workers : \/ External(w) \/ Write(w)
                        \/ \E q \in Quotes : Dashboard(w, q)
                        \/ \E e \in sent : Receive(w, e)
  \/ \E q \in Quotes : DeleteQuote(q)
  \/ \E e \in sent : AckUnknown(e)
  \/ \E l \in Links : Pay(l) \/ FailToPay(l) \/ Refund(l)
  \/ Connect \/ Disconnect \/ Crash

Spec == Init /\ [][Next]_vars

(***************************************************************************)
(* HTTP calls have timeouts, so a handler goes on; a row lock is granted   *)
(* in the order it was asked for, so a waiting UPDATE is not overtaken for *)
(* ever; Stripe retries an event until it is answered.  Nothing obliges    *)
(* the staff or the customers to act.                                      *)
(***************************************************************************)
Fairness ==
  /\ \A w \in Workers : WF_vars(External(w)) /\ SF_vars(Write(w))
  /\ \A e \in Event : WF_vars(e \notin acked /\ \E w \in Workers : Receive(w, e))

FairSpec == Spec /\ Fairness

-----------------------------------------------------------------------------
(***************************************************************************)
(* A payment link on a row is one Stripe issued for that very quote, so    *)
(* its events and its cancellation concern the quote it is shown on.       *)
(***************************************************************************)
LinkIsForItsQuote ==
  \A q \in present : rows[q].link # None =>
    /\ plink[rows[q].link].quote = q
    /\ plink[rows[q].link].state # "unissued"

(***************************************************************************)
(* stripe_push.apply_webhook_event: a row says paid (or refunded) only if  *)
(* the customer really paid (was refunded) on a link of that quote,        *)
(* however late, often or disordered the events arrive.                    *)
(***************************************************************************)
MoneyOf(q) == {plink[l].money : l \in {k \in Links : plink[k].quote = q}}

NoPhantomPayment ==
  \A q \in present :
    /\ rows[q].pay = "paid" => MoneyOf(q) \cap {"paid", "refunded"} # {}
    /\ rows[q].pay = "refunded" => "refunded" \in MoneyOf(q)

(***************************************************************************)
(* The induction behind the two: not only the committed rows but also the  *)
(* copies of the running handlers, which are written later, tell the truth *)
(* about Stripe, and so does every event, however late it arrives.         *)
(***************************************************************************)
Backed(pl, q, row) ==
  /\ row.link # None => /\ pl[row.link].quote = q
                        /\ pl[row.link].state # "unissued"
  /\ row.pay = "paid" =>
       \E l \in Links : pl[l].quote = q /\ pl[l].money \in {"paid", "refunded"}
  /\ row.pay = "refunded" =>
       \E l \in Links : pl[l].quote = q /\ pl[l].money = "refunded"

EventIsTrue(pl, e) ==
  /\ e[2] = "paid" => pl[e[1]].money \in {"paid", "refunded"}
  /\ e[2] = "refunded" => pl[e[1]].money = "refunded"

MoneyNeedsLink(pl) ==
  \A l \in Links : pl[l].state = "unissued" => pl[l].money = "none"

BackedInv ==
  /\ \A q \in Quotes : Backed(plink, q, rows[q])
  /\ \A w \in Workers :
       req[w].pc # "idle" => Backed(plink, req[w].quote, req[w].obj)
  /\ \A e \in sent : EventIsTrue(plink, e)
  /\ MoneyNeedsLink(plink)

(***************************************************************************)
(* The UPDATEs of an approval: while it talks to Missive it alone holds    *)
(* the row, so what it flushed cannot be overwritten before its commit.    *)
(***************************************************************************)
LockProtectsMail ==
  \A w \in Workers : req[w].pc = "mail" =>
    /\ lock[req[w].quote] = w
    /\ req[w].quote \in present

(***************************************************************************)
(* What may go wrong: an answer of Stripe or Missive is lost after they    *)
(* acted, or the container restarts.                                       *)
(***************************************************************************)
Mishaps == used.lost + used.crashes

(***************************************************************************)
(* create_link_for_quote: never two links of one quote open for payment,   *)
(* up to one more for every mishap, if no two staff requests were at work  *)
(* on it at once.  Events of Stripe may come at any time.                  *)
(***************************************************************************)
LiveLinks(q) == {l \in Links : plink[l].quote = q /\ plink[l].state = "active"}

OneLiveLink ==
  \A q \in Quotes \ used.crowded : Cardinality(LiveLinks(q)) <= 1 + Mishaps

(***************************************************************************)
(* update_quote, bulk_quotes: however often a quote is approved, its       *)
(* customer gets the payment email once, up to one more for every mishap,  *)
(* if no two staff requests were at work on it at once.                    *)
(***************************************************************************)
MailedOnce == \A q \in Quotes \ used.crowded : mails[q] <= 1 + Mishaps

(***************************************************************************)
(* admin_api.py:1950, the integrations fire "on the FIRST transition into  *)
(* approved", which "shouldn't double-charge / double-email": the same for *)
(* every quote.  It does not hold: two approvals at once read the old      *)
(* status both, and each mails.                                            *)
(***************************************************************************)
NeverMailedTwice == \A q \in Quotes : mails[q] <= 1 + Mishaps

(***************************************************************************)
(* cancel-payment-link and approve: an open link that was mailed or shown  *)
(* is the one on the row, so cancelling it from the dashboard stays        *)
(* possible.  A restart between mail and commit hides at most one; deleted *)
(* rows and those with a request at work are excepted, and quotes on which *)
(* two staff requests met.                                                 *)
(***************************************************************************)
ForgottenLinks(q) ==
  {l \in known \cap LiveLinks(q) :
     rows[q].link # l /\ \A w \in Workers : req[w].quote # q}

NoForgottenLink ==
  \A q \in present \ used.crowded :
    Cardinality(ForgottenLinks(q)) <= used.crashes

(***************************************************************************)
(* The approval gate, admin_api.py:1927 "guarantees final_price_inc_vat is *)
(* non-null before Stripe payment-link creation runs": a quote that says   *)
(* approved has a price. It does not hold: from needs_revision a PATCH to  *)
(* pending_approval and one to approved pass the gate.                     *)
(***************************************************************************)
ApprovedHasPrice ==
  \A q \in present : rows[q].status = "approved" => rows[q].price > 0

(***************************************************************************)
(* manual_price_quote: the open link of a row charges the price the row    *)
(* (and with it the PDF and the dashboard) shows. It does not hold: a      *)
(* price set after the link was made leaves the link as it is, and the     *)
(* next approval keeps it (stripe_push.py:134).                            *)
(***************************************************************************)
LinkChargesThePrice ==
  \A q \in present : rows[q].link # None =>
    plink[rows[q].link].amount = rows[q].price

(***************************************************************************)
(* The webhook against the other handlers: a row that says paid stops      *)
(* saying so only by the refund, or by a new link made after the paid one  *)
(* was taken off the row; as long as no request met another on the quote.  *)
(***************************************************************************)
PaidUntilRelinked ==
  [][\A q \in (present \cap present') \ (used.crowded \cup used.crossed) :
       rows[q].pay = "paid" =>
         \/ rows'[q].pay \in {"paid", "refunded"}
         \/ rows[q].link = None /\ rows'[q].link # None]_vars

(***************************************************************************)
(* cancel_stripe_payment_link, create_link_for_quote: a row that says paid *)
(* goes on saying so until it is refunded. It does not hold: a link made   *)
(* after the paid one was cancelled makes the row unpaid.                  *)
(* PaidUntilRelinked is what does hold.                                    *)
(***************************************************************************)
PaidIsKept ==
  [][\A q \in present \cap present' :
       rows[q].pay = "paid" => rows'[q].pay \in {"paid", "refunded"}]_vars

(***************************************************************************)
(* apply_webhook_event: refunded is the end of a payment; a row never      *)
(* returns from it to paid while no further payment was made. It does not  *)
(* hold: a paid event delivered late is applied, for only paid is          *)
(* protected (stripe_push.py:273).                                         *)
(***************************************************************************)
RefundIsFinal ==
  [][\A q \in present \cap present' :
       (rows[q].pay = "refunded" /\ rows'[q].pay = "paid")
          => "paid" \in MoneyOf(q)]_vars

(***************************************************************************)
(* Every request ends: no handler waits for ever on a row another one      *)
(* locked, whatever Stripe and Missive answer.                             *)
(***************************************************************************)
RequestsEnd == \A w \in Workers : req[w].pc # "idle" ~> req[w].pc = "idle"

(***************************************************************************)
(* The webhook and Stripe's retries: a payment of the link on the row gets *)
(* onto the row, unless the row is deleted or the link taken off it (an    *)
(* overlapping request or a cancellation may do that and write unpaid over *)
(* what was recorded, stripe_push.py:178).  Stripe's other news of the     *)
(* quote may still hide it: an event is applied to the row as committed,   *)
(* where an approval that has mailed its link has not yet written it, and  *)
(* a failed attempt is written over a payment that came meanwhile.  What   *)
(* is paid while the account is disconnected is answered 200 and lost.     *)
(***************************************************************************)
OtherNews(l) ==
  \E e \in sent \ {<<l, "paid">>} : plink[e[1]].quote = plink[l].quote

PaidOnTheRow(l) ==
  /\ plink[l].money = "paid" /\ plink[l].quote \in present
  /\ rows[plink[l].quote].link = l

PaymentIsRecorded ==
  []account =>
    \A l \in Links :
      PaidOnTheRow(l) ~>
        \/ ~PaidOnTheRow(l)
        \/ rows[plink[l].quote].pay \in {"paid", "refunded"}
        \/ plink[l].quote \in used.crossed /\ OtherNews(l)
=============================================================================
