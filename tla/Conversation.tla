---------------------------- MODULE Conversation ----------------------------
(***************************************************************************)
(* One web conversation: the turns of chat_with_craig and their tools      *)
(* (llm/craig_agent.py), the widget's form, uploads and issue report       *)
(* (widget_api.py), attribution (attribution.py), and the operator's       *)
(* decisions, as several requests at once make them.                       *)
(*                                                                         *)
(* A request works on the copies its session loaded.  A commit writes the  *)
(* columns it changed and leaves the others alone; a query filters on the  *)
(* rows as they are but hands out copies already loaded as they were.      *)
(* Whoever changed a row holds it until its commit.                        *)
(*                                                                         *)
(* Left out: sandbox conversations, the customer's columns beyond "there   *)
(* is an address to write to", and the prompt.  Quotes are numbered in the *)
(* order of their commits.                                                 *)
(***************************************************************************)
EXTENDS ReplyGates, Integers, Sequences, FiniteSets, FiniteSetsExt

CONSTANTS
  Products, Variants, Sizes, \* what a pricing tool can be asked for
  Dear,         \* products above the threshold for free shipping
  Touches,      \* marketing touches
  None,         \* no touch, no quote
  Workers,      \* requests in flight at once
  Messages,     \* what the customer may write, see Message
  Drafts,       \* what the model may write, see Replies
  MaxFiles,     \* MAX_ARTWORK_FILES_PER_QUOTE
  MaxTools,     \* bound: tools in one turn
  MaxQuotes,    \* bound: quotes on the conversation
  MaxRequests,  \* bound: requests
  MaxOverlaps,  \* bound: those begun while another one is at work
  MaxFaults     \* bound: requests that end in an exception

(***************************************************************************)
(* What the sniffers see in a message: an answer about artwork, which may  *)
(* be a bare yes or no, an address, and whether it adds or replaces.       *)
(***************************************************************************)
Message == [says: {"nothing", "yes", "no", "own", "design", "later"},
            adds: {"nothing", "also", "actually"}, contact: BOOLEAN]

ASSUME CVAssumption ==
  /\ Dear \subseteq Products /\ None \notin Touches
  /\ Messages \subseteq Message /\ Messages # {} /\ Drafts \subseteq Replies
  /\ MaxFiles \in Nat /\ MaxTools \in Nat /\ MaxQuotes \in Nat
  /\ MaxRequests \in Nat /\ MaxOverlaps \in Nat /\ MaxFaults \in Nat

(***************************************************************************)
(* said is the messages column: how many exchanges it holds, the markers   *)
(* shown in them, those of the last one and whether that one asks about    *)
(* artwork.                                                                *)
(***************************************************************************)
Said == [n: Nat, shown: SUBSET Marks, last: SUBSET Marks, asks: BOOLEAN]

Conv == [art: {"none", "own", "design"}, later: BOOLEAN, contact: BOOLEAN,
         method: {"none", "delivery", "collect"}, first: Touches \cup {None},
         status: {"open", "quoted", "escalated", "placed"}, said: Said]

NewConv == [art |-> "none", later |-> FALSE, contact |-> FALSE,
            method |-> "none", first |-> None, status |-> "open",
            said |-> [n |-> 0, shown |-> {}, last |-> {}, asks |-> FALSE]]

\* total: what the column adds to the price of the goods.
Quote == [product: Products, variant: Variants, size: Sizes,
          design: BOOLEAN, ship: BOOLEAN, total: SUBSET {"design", "shipping"},
          status: {"pending", "superseded", "needs_revision", "approved",
                   "rejected"},
          files: 0..MaxFiles, confirmed: BOOLEAN]

Parts(design, ship) ==
  (IF design THEN {"design"} ELSE {}) \cup (IF ship THEN {"shipping"} ELSE {})

NewQuote(p, v, z, design, status) ==
  [product |-> p, variant |-> v, size |-> z, design |-> design,
   ship |-> FALSE, total |-> Parts(design, FALSE), status |-> status,
   files |-> 0, confirmed |-> FALSE]

(***************************************************************************)
(* A session: the rows as loaded (base, qbase), as changed (conv, q), and  *)
(* the quotes it added (new).  did: what the tools of a turn did; prior:   *)
(* there were quotes when it began; at: the quote a handler works on.      *)
(***************************************************************************)
Session ==
  [op: {"idle", "turn", "form", "upload", "remove", "decide"}, msg: Message,
   base: Conv, conv: Conv, qbase: Seq(Quote), q: Seq(Quote), new: Seq(Quote),
   did: SUBSET {"priced", "escalated", "confirmed", "saved"}, prior: BOOLEAN,
   tools: 0..MaxTools, at: Nat \cup {None}]

Idle == [op |-> "idle",
         msg |-> [says |-> "nothing", adds |-> "nothing", contact |-> FALSE],
         base |-> NewConv, conv |-> NewConv, qbase |-> <<>>, q |-> <<>>,
         new |-> <<>>, did |-> {}, prior |-> FALSE, tools |-> 0, at |-> None]

VARIABLES
  conv,    \* the row of the conversation
  quotes,  \* its quotes
  req,     \* the session of each worker
  log,     \* history: exchanges and files accepted, quotes wanted besides
           \* others of their product
  used     \* counters of the bounds

vars == <<conv, quotes, req, log, used>>

TypeOK ==
  /\ conv \in Conv
  /\ quotes \in Seq(Quote)
  /\ req \in [Workers -> Session]
  /\ log \in [turns: Nat, files: Nat, adds: Nat]
  /\ used \in [requests: Nat, overlaps: Nat, faults: Nat]

Init ==
  /\ conv = NewConv
  /\ quotes = <<>>
  /\ req = [w \in Workers |-> Idle]
  /\ log = [turns |-> 0, files |-> 0, adds |-> 0]
  /\ used = [requests |-> 0, overlaps |-> 0, faults |-> 0]

-----------------------------------------------------------------------------
(***************************************************************************)
(* Sessions.                                                               *)
(***************************************************************************)
\* Rows the session has not seen yet are loaded by its next query.
Load(s) ==
  LET fresh == SubSeq(quotes, Len(s.q) + 1, Len(quotes))
  IN [s EXCEPT !.qbase = @ \o fresh, !.q = @ \o fresh]

All(s) == s.q \o s.new

Put(s, i, quote) ==
  IF i <= Len(s.q) THEN [s EXCEPT !.q[i] = quote]
  ELSE [s EXCEPT !.new[i - Len(s.q)] = quote]

\* The status a WHERE clause sees.
Status(s, i) ==
  IF i <= Len(s.q) /\ s.q[i].status = s.qbase[i].status
  THEN quotes[i].status ELSE All(s)[i].status

Pending(s) == {i \in DOMAIN All(s) : Status(s, i) = "pending"}

Holds(s) ==
  {i \in DOMAIN s.q : s.q[i] # s.qbase[i]}
    \cup (IF s.conv # s.base THEN {0} ELSE {})

Free(w, s) == \A v \in Workers \ {w} : Holds(s) \cap Holds(req[v]) = {}

Merge(row, base, mine) ==
  [c \in DOMAIN row |-> IF mine[c] # base[c] THEN mine[c] ELSE row[c]]

Write(s) ==
  /\ conv' = Merge(conv, s.base, s.conv)
  /\ quotes' = [i \in DOMAIN quotes |->
                  IF i \in DOMAIN s.q THEN Merge(quotes[i], s.qbase[i], s.q[i])
                  ELSE quotes[i]] \o s.new

Fresh(s, c, qs) ==
  [s EXCEPT !.base = c, !.conv = c, !.qbase = qs, !.q = qs, !.new = <<>>]

Active == {w \in Workers : req[w].op # "idle"}

\* A free worker takes on a request.
Begin(w) ==
  /\ w \notin Active
  /\ used.requests < MaxRequests
  /\ Active # {} => used.overlaps < MaxOverlaps
  /\ used' = [used EXCEPT !.requests = @ + 1,
                          !.overlaps = IF Active # {} THEN @ + 1 ELSE @]

Step(w, s) == Free(w, s) /\ req' = [req EXCEPT ![w] = s]

Done(w, s) == Free(w, s) /\ Write(s) /\ req' = [req EXCEPT ![w] = Idle]

\* An exception, a deadlock or a restart: the session is rolled back.
Fail(w) ==
  /\ w \in Active
  /\ used.faults < MaxFaults
  /\ used' = [used EXCEPT !.faults = @ + 1]
  /\ req' = [req EXCEPT ![w] = Idle]
  /\ UNCHANGED <<conv, quotes, log>>

-----------------------------------------------------------------------------
(***************************************************************************)
(* A turn begins: attribution (first touch only once), then what the       *)
(* sniffers read in the message.  A phrase about artwork overrides an      *)
(* earlier answer; a bare yes or no counts only as the first one.          *)
(***************************************************************************)
\* Seeded fault: the latest touch wins.
Bug_Attributed(c, t) == [c EXCEPT !.first = IF t = None THEN @ ELSE t]

Attributed(c, t) == [c EXCEPT !.first = IF @ = None THEN t ELSE @]

SniffedArt(c, m) ==
  CASE m.says = "design"                                        -> "design"
    [] m.says \in {"own", "later"}                              -> "own"
    [] m.says = "yes" /\ c.said.asks /\ c.art = "none"          -> "own"
    [] m.says = "no" /\ c.said.asks /\ c.art = "none"           -> "design"
    [] OTHER                                                    -> c.art

Sniffed(c, m) ==
  [c EXCEPT !.contact = @ \/ m.contact, !.art = SniffedArt(c, m),
            !.later = @ \/ m.says = "later"]

TurnBegin(w, m, t) ==
  /\ Begin(w)
  /\ Step(w, [Fresh(Idle, conv, quotes) EXCEPT
                !.op = "turn", !.msg = m, !.prior = quotes # <<>>,
                !.conv = Sniffed(Attributed(conv, t), m)])
  /\ UNCHANGED <<conv, quotes, log>>

\* The session of a turn that may still call a tool.
Tool(w) ==
  /\ req[w].op = "turn"
  /\ req[w].tools < MaxTools

Used(w) == [Load(req[w]) EXCEPT !.tools = @ + 1]

(***************************************************************************)
(* A pricing tool succeeds.  Design is not charged to a customer who has   *)
(* artwork.  A pending quote with the same product and price-driving specs *)
(* (the size is not among them) takes the new price; otherwise a new quote *)
(* may supersede older ones, see _supersede_older_pending_quotes.          *)
(***************************************************************************)
Room(s) == Len(quotes) + Len(s.new) < MaxQuotes

\* Seeded fault: only the latest quote of the product is superseded, and
\* that only when the message says "actually".
Bug_Outdated(s, p) ==
  LET pending == Pending(s)
  IN IF s.msg.adds = "actually" /\ pending # {} THEN {Max(pending)} ELSE {}

Outdated(s, p) ==
  LET pending == Pending(s)
      same    == {i \in pending : All(s)[i].product = p}
  IN CASE s.msg.adds # "also" /\ same # {} -> same
       [] s.msg.adds = "actually" /\ same = {} /\ pending # {} -> {Max(pending)}
       [] OTHER -> {}

Superseded(s, gone) ==
  [s EXCEPT
     !.q   = [i \in DOMAIN @ |->
                IF i \in gone THEN [@[i] EXCEPT !.status = "superseded"]
                ELSE @[i]],
     !.new = [i \in DOMAIN @ |->
                IF i + Len(s.q) \in gone
                THEN [@[i] EXCEPT !.status = "superseded"] ELSE @[i]]]

\* Seeded fault: the guard on the design charge is missing.
Bug_Charged(s, design) == design

Charged(s, design) == design /\ s.conv.art # "own"

\* Seeded fault: quotes are reused whatever their status.
Bug_Reusable(s, p, v) ==
  {i \in DOMAIN All(s) : All(s)[i].product = p /\ All(s)[i].variant = v}

Reusable(s, p, v) ==
  {i \in Pending(s) : All(s)[i].product = p /\ All(s)[i].variant = v}

PriceTool(w, p, v, z, design) ==
  LET s == [Used(w) EXCEPT !.did = @ \cup {"priced"}]
      d == Charged(s, design)
      one == NewQuote(p, v, z, d, "pending")
  IN /\ Tool(w)
     /\ \/ \E i \in Reusable(s, p, v) :
             /\ Step(w, Put(s, i, [All(s)[i] EXCEPT
                              !.size = z, !.design = d, !.total = one.total]))
             /\ UNCHANGED log
        \/ /\ Reusable(s, p, v) = {}
           /\ Room(s)
           /\ Step(w, [Superseded(s, Outdated(s, p)) EXCEPT
                         !.new = Append(@, one)])
           /\ log' = [log EXCEPT !.adds =
                        IF s.msg.adds = "also" THEN @ + 1 ELSE @]
     /\ UNCHANGED <<conv, quotes, used>>

\* The engine refuses: a quote without a price, committed at once together
\* with whatever the turn did so far.
ManualReview(w, p, v, z) ==
  LET s == [Used(w) EXCEPT
              !.new = Append(@, NewQuote(p, v, z, FALSE, "needs_revision"))]
  IN /\ Tool(w)
     /\ Room(Used(w))
     /\ Free(w, s)
     /\ Write(s)
     /\ req' = [req EXCEPT ![w] = Fresh(s, conv', quotes')]
     /\ UNCHANGED <<log, used>>

(***************************************************************************)
(* apply_shipping_to_quote on the latest pending quote: the total is       *)
(* computed anew from goods, design and shipping.                          *)
(***************************************************************************)
\* Seeded fault: the design charge is forgotten.
Bug_Shipped(quote, method) ==
  LET ship == method = "delivery" /\ quote.product \notin Dear
  IN [quote EXCEPT !.ship = ship, !.total = Parts(FALSE, ship)]

Shipped(quote, method) ==
  LET ship == method = "delivery" /\ quote.product \notin Dear
  IN [quote EXCEPT !.ship = ship, !.total = Parts(quote.design, ship)]

WithShipping(s) ==
  LET i == Max(Pending(s))
  IN IF s.conv.method = "none" \/ Pending(s) = {} THEN s
     ELSE Put(s, i, Shipped(All(s)[i], s.conv.method))

\* save_customer_info: what is given overwrites, what is not stays.
SaveInfo(w, contact, method) ==
  LET s == Used(w)
      c == [s.conv EXCEPT !.contact = @ \/ contact,
                          !.method = IF method = "none" THEN @ ELSE method]
  IN /\ Tool(w)
     /\ Step(w, WithShipping([s EXCEPT !.conv = c, !.did = @ \cup {"saved"}]))
     /\ UNCHANGED <<conv, quotes, log, used>>

\* escalate_to_justin is refused without an address.
Escalate(w) ==
  /\ Tool(w)
  /\ req[w].conv.contact
  /\ Step(w, [Used(w) EXCEPT !.did = @ \cup {"escalated"}])
  /\ UNCHANGED <<conv, quotes, log, used>>

\* confirm_order takes any quote of the conversation, whatever its status.
ConfirmOrder(w) ==
  LET s == [Used(w) EXCEPT !.did = @ \cup {"confirmed"},
                           !.conv.status = "placed"]
  IN /\ Tool(w)
     /\ \E i \in DOMAIN All(s) :
          Step(w, Put(s, i, [All(s)[i] EXCEPT !.confirmed = TRUE]))
     /\ UNCHANGED <<conv, quotes, log, used>>

(***************************************************************************)
(* The reply passes the gates, and the turn is appended to the history as  *)
(* the session loaded it.                                                  *)
(***************************************************************************)
Context(s) ==
  [web |-> TRUE, art |-> s.conv.art, later |-> s.conv.later,
   contact |-> s.conv.contact, funnel |-> s.conv.method # "none",
   prior |-> s.prior, priced |-> "priced" \in s.did,
   escalated |-> "escalated" \in s.did, confirmed |-> "confirmed" \in s.did,
   saved |-> "saved" \in s.did, yes |-> s.msg.says = "yes",
   files |-> \E i \in DOMAIN All(s) : All(s)[i].files > 0,
   shown |-> s.conv.said.shown, last |-> s.conv.said.last]

Heard(said, marks, asks) ==
  [n |-> said.n + 1, shown |-> said.shown \cup marks, last |-> marks,
   asks |-> asks]

NextStatus(s) ==
  IF "confirmed" \in s.did THEN "placed"
  ELSE IF "escalated" \in s.did /\ s.conv.contact THEN "escalated"
  ELSE IF "priced" \in s.did THEN "quoted"
  ELSE s.conv.status

FinishTurn(w, draft) ==
  LET s == Load(req[w])
      reply == Gated(Context(s), draft)
  IN /\ req[w].op = "turn"
     /\ Done(w, [s EXCEPT
                   !.conv.status = NextStatus(s),
                   !.conv.said = Heard(@, reply.marks, reply.art = "upsell")])
     /\ log' = [log EXCEPT !.turns = @ + 1]
     /\ UNCHANGED used

-----------------------------------------------------------------------------
(***************************************************************************)
(* The widget's form.  It is refused while a promised file is missing, and *)
(* then nothing of it stays; else the PDF card follows.                    *)
(***************************************************************************)
FormBegin(w, method, t) ==
  /\ Begin(w)
  /\ Step(w, [Fresh(Idle, conv, <<>>) EXCEPT
                !.op = "form",
                !.conv = [Attributed(conv, t) EXCEPT
                            !.contact = TRUE, !.method = method]])
  /\ UNCHANGED <<conv, quotes, log>>

FormCommit(w) ==
  LET s == Load(req[w])
      quote == s.q[Max(Pending(s))]
      owed == /\ ~quote.design /\ ~s.conv.later
              /\ \A i \in DOMAIN s.q : s.q[i].files = 0
              /\ "upload" \in s.conv.said.shown
  IN /\ req[w].op = "form"
     /\ \/ Pending(s) = {} /\ Done(w, s) /\ UNCHANGED log
        \/ /\ Pending(s) # {} /\ owed
           /\ req' = [req EXCEPT ![w] = Idle]
           /\ UNCHANGED <<conv, quotes, log>>
        \/ /\ Pending(s) # {} /\ ~owed
           /\ Done(w, [WithShipping(s) EXCEPT
                         !.conv.said = Heard(@, {"ready"}, FALSE)])
           /\ log' = [log EXCEPT !.turns = @ + 1]
     /\ UNCHANGED used

(***************************************************************************)
(* Files of the latest pending quote.  The list is read, the body of an    *)
(* upload awaited, and the list written back.                              *)
(***************************************************************************)
FetchFiles(w, op) ==
  LET s == Fresh(Idle, conv, quotes)
      i == Max(Pending(s))
  IN /\ Begin(w)
     /\ Pending(s) # {}
     /\ IF op = "upload" THEN quotes[i].files < MaxFiles ELSE quotes[i].files > 0
     /\ Step(w, [s EXCEPT !.op = op, !.at = i])
     /\ UNCHANGED <<conv, quotes, log>>

\* Seeded fault: the list is made anew.
Bug_Upload(w) ==
  LET s == req[w]
  IN /\ s.op = "upload"
     /\ Done(w, [s EXCEPT !.q[s.at].files = 1, !.conv.art = "own"])
     /\ log' = [log EXCEPT !.files = @ + 1]
     /\ UNCHANGED used

\* An upload answers the artwork question, also against an earlier answer.
Upload(w) ==
  LET s == req[w]
  IN /\ s.op = "upload"
     /\ Done(w, [s EXCEPT !.q[s.at].files = @ + 1, !.conv.art = "own"])
     /\ log' = [log EXCEPT !.files = @ + 1]
     /\ UNCHANGED used

\* A removal pops from the list that was loaded and assigns the same object,
\* so the mapper sees no change and the column keeps its list: the row stays.
\* (The three columns that mirror the first file are written; whoever reads
\* them reads the list too.)
Remove(w) ==
  /\ req[w].op = "remove"
  /\ Done(w, req[w])
  /\ UNCHANGED <<log, used>>

\* Seeded fault: the exchange takes the place of the history.
Bug_ReportIssue ==
  /\ used.requests < MaxRequests
  /\ Active # {} => used.overlaps < MaxOverlaps
  /\ \A w \in Workers : 0 \notin Holds(req[w])
  /\ conv' = [conv EXCEPT !.said = Heard(NewConv.said, {}, FALSE)]
  /\ log' = [log EXCEPT !.turns = @ + 1]
  /\ used' = [used EXCEPT !.requests = @ + 1,
                          !.overlaps = IF Active # {} THEN @ + 1 ELSE @]
  /\ UNCHANGED <<quotes, req>>

\* report_issue loads the conversation anew before it appends.
ReportIssue ==
  /\ used.requests < MaxRequests
  /\ Active # {} => used.overlaps < MaxOverlaps
  /\ \A w \in Workers : 0 \notin Holds(req[w])
  /\ conv' = [conv EXCEPT !.said = Heard(@, {}, FALSE)]
  /\ log' = [log EXCEPT !.turns = @ + 1]
  /\ used' = [used EXCEPT !.requests = @ + 1,
                          !.overlaps = IF Active # {} THEN @ + 1 ELSE @]
  /\ UNCHANGED <<quotes, req>>

\* The operator approves or rejects a pending quote, as loaded (the rest of
\* that handler is QuoteApproval).
DecideBegin(w, i) ==
  /\ Begin(w)
  /\ i \in DOMAIN quotes /\ quotes[i].status = "pending"
  /\ Step(w, [Fresh(Idle, conv, quotes) EXCEPT !.op = "decide", !.at = i])
  /\ UNCHANGED <<conv, quotes, log>>

Decide(w, status) ==
  LET s == req[w]
  IN /\ s.op = "decide"
     /\ Done(w, [s EXCEPT !.q[s.at].status = status])
     /\ UNCHANGED <<log, used>>

-----------------------------------------------------------------------------
Turn(w) ==
  \/ \E m \in Messages, t \in Touches \cup {None} : TurnBegin(w, m, t)
  \/ \E p \in Products, v \in Variants, z \in Sizes :
       \/ \E design \in BOOLEAN : PriceTool(w, p, v, z, design)
       \/ ManualReview(w, p, v, z)
  \/ \E contact \in BOOLEAN, method \in {"none", "delivery", "collect"} :
       SaveInfo(w, contact, method)
  \/ Escalate(w) \/ ConfirmOrder(w)
  \/ \E draft \in Drafts : FinishTurn(w, draft)

Handler(w) ==
  \/ \E method \in {"delivery", "collect"}, t \in Touches \cup {None} :
       FormBegin(w, method, t)
  \/ FormCommit(w)
  \/ \E op \in {"upload", "remove"} : FetchFiles(w, op)
  \/ Upload(w) \/ Remove(w)
  \/ \E i \in 1..MaxQuotes : DecideBegin(w, i)
  \/ \E status \in {"approved", "rejected"} : Decide(w, status)

Next ==
  \/ ReportIssue
  \/ \E w \in Workers : Turn(w) \/ Handler(w) \/ Fail(w)

Spec == Init /\ [][Next]_vars

-----------------------------------------------------------------------------
(***************************************************************************)
(* Properties.                                                             *)
(***************************************************************************)
\* No exchange of the transcript is lost, unless a request began while
\* another one was at work: each such pair costs at most one (chat_with_craig
\* and the form append to the messages as loaded and write the column back).
TurnsKept ==
  /\ conv.said.n <= log.turns
  /\ log.turns - conv.said.n <= used.overlaps

\* The same for the files of a quote (upload_artwork reads the list before it
\* awaits the body and writes the whole list back): none is there that was not
\* uploaded, and each overlap loses at most one.
FilesKept ==
  LET kept == MapThenSumSet(LAMBDA i : quotes[i].files, DOMAIN quotes)
  IN kept <= log.files /\ log.files - kept <= used.overlaps

\* widget_api.py:633 "remove a single file from the artwork_files list ...
\* so it won't show in the form / get attached to Missive": a removal takes a
\* file off the quote.  It does not hold, not even alone: the
\* list is changed in place, so it is not written (widget_api.py:651).
RemovalTakes ==
  [][\A w \in Workers :
       Remove(w) /\ used.overlaps = 0 =>
         quotes'[req[w].at].files < quotes[req[w].at].files]_vars

\* Whoever was shown the PDF card left an address and a delivery method and
\* has a quote (PREMATURE gate, AUTO-RELEASE, submit_customer_info), also
\* when requests overlap.
CardWasEarned ==
  "ready" \in conv.said.shown =>
    conv.contact /\ conv.method # "none" /\ quotes # <<>>

\* The released PDF adds up the pending quotes, so a product is among them
\* once, plus once for every "also" and for every overlap
\* (_supersede_older_pending_quotes: "an inflated total in front of the
\* customer").
OneLivePerProduct ==
  \A p \in Products :
    Cardinality({i \in DOMAIN quotes : /\ quotes[i].product = p
                                       /\ quotes[i].status = "pending"})
      <= 1 + log.adds + used.overlaps

\* The first touch is written once (merge_attribution), unless a request
\* began before it was there.
FirstTouchStands ==
  [][conv.first # None /\ conv'.first # conv.first => used.overlaps > 0]_vars

\* What the operator decided on is not priced again, resized or superseded
\* by a later turn (the tools look for pending quotes only).
DecidedStands ==
  [][used'.overlaps = 0 =>
       \A i \in DOMAIN quotes :
         quotes[i].status \in {"approved", "rejected"} =>
           quotes'[i] = [quotes[i] EXCEPT !.confirmed = quotes'[i].confirmed]]_vars

\* The total charges the design exactly when the quote does, and shipping
\* only with a shipping cost on the quote (apply_shipping_to_quote).
TotalFollowsParts ==
  used.overlaps = 0 =>
    \A i \in DOMAIN quotes :
      quotes[i].total \in {Parts(quotes[i].design, FALSE),
                           Parts(quotes[i].design, quotes[i].ship)}

\* A design charge appears only while the customer has not said that the
\* artwork exists (v41.7: "a 65 euro design line billed that was never asked for").
DesignIsAsked ==
  [][used'.overlaps = 0 =>
       \A i \in DOMAIN quotes' :
         quotes'[i].design => \/ i \in DOMAIN quotes /\ quotes[i].design
                              \/ conv'.art # "own"]_vars

\* "DeepSeek often re-calls the pricing tool ... with IDENTICAL specs.  If a
\* pending Quote already exists ... with the same product_key + specs, reuse
\* it": a quote keeps the size it was priced for.  It does not hold, see the
\* run cv_size.
ReusedOnlyIfIdentical ==
  [][\A i \in DOMAIN quotes : quotes'[i].size = quotes[i].size]_vars
=============================================================================
