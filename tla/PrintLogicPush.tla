-------------------------- MODULE PrintLogicPush --------------------------
(***************************************************************************)
(* printlogic_push.py behind its two dashboard handlers: a quote is pushed *)
(* to PrintLogic as an order, or the order is cancelled there.  The row's  *)
(* printlogic_order_id is both the record of the order and the idempotency *)
(* signal; with the tenant's dry-run Setting it holds a made-up DRY- id.   *)
(*                                                                         *)
(* A handler reads the row and the Setting, makes its call and commits.    *)
(* The columns counting attempts and keeping the last error decide nothing *)
(* and are left out, and so is the lookup of the customer.                 *)
(***************************************************************************)
EXTENDS Naturals, FiniteSets

CONSTANTS
  Quotes,       \* ids of the rows of the quotes table
  Workers,      \* handlers that can be in flight at the same time
  Orders,       \* order ids PrintLogic hands out
  Dry,          \* any DRY- id
  None,         \* no order id (NULL), no quote
  Keep,         \* a request that leaves the column alone
  MaxRequests,  \* bound: requests started
  MaxCrashes,   \* bound: container restarts
  MaxLost       \* bound: calls PrintLogic carried out without a usable answer

ASSUME PLAssumption ==
  /\ None \notin Quotes
  /\ {Dry, None, Keep} \cap Orders = {}
  /\ Dry # None /\ Keep \notin {Dry, None}
  /\ MaxRequests \in Nat /\ MaxCrashes \in Nat /\ MaxLost \in Nat

OrderId == Orders \cup {Dry, None}

Request == [pc: {"idle", "create", "cancel", "commit"},
            quote: Quotes \cup {None}, id: OrderId \cup {Keep}]

Idle == [pc |-> "idle", quote |-> None, id |-> Keep]

VARIABLES
  present,  \* quotes whose row exists
  rows,     \* printlogic_order_id, committed
  dryRun,   \* the printlogic_dry_run Setting
  req,      \* per worker: where it is, and the id it read or will write
  order,    \* orders as PrintLogic knows them
  used      \* counters: requests, those begun while another one on the same
            \* quote ran, restarts, lost answers

vars == <<present, rows, dryRun, req, order, used>>

TypeOK ==
  /\ present \subseteq Quotes
  /\ rows \in [Quotes -> OrderId]
  /\ dryRun \in BOOLEAN
  /\ req \in [Workers -> Request]
  /\ \A w \in Workers : req[w].pc # "idle" => req[w].quote \in Quotes
  /\ \A w \in Workers : req[w].pc = "cancel" => req[w].id \in Orders
  /\ order \in [Orders -> [quote: Quotes \cup {None},
                           state: {"unissued", "open", "cancelled"}]]
  /\ used \in [requests: Nat, overlaps: Nat, crashes: Nat, lost: Nat]

Init ==
  /\ present = Quotes
  /\ rows = [q \in Quotes |-> None]
  /\ dryRun \in BOOLEAN
  /\ req = [w \in Workers |-> Idle]
  /\ order = [o \in Orders |-> [quote |-> None, state |-> "unissued"]]
  /\ used = [requests |-> 0, overlaps |-> 0, crashes |-> 0, lost |-> 0]

-----------------------------------------------------------------------------
Busy(q) == \E w \in Workers : req[w].quote = q

Start(w, q, pc, id) ==
  /\ req[w].pc = "idle"
  /\ q \in present
  /\ used.requests < MaxRequests
  /\ used' = [used EXCEPT !.requests = @ + 1,
                          !.overlaps = IF Busy(q) THEN @ + 1 ELSE @]
  /\ req' = [req EXCEPT ![w] = [pc |-> pc, quote |-> q, id |-> id]]
  /\ UNCHANGED <<present, rows, dryRun, order>>

\* The handler goes on to its commit, where it writes id.
Outcome(w, id) ==
  req' = [req EXCEPT ![w] = [pc |-> "commit", quote |-> @.quote, id |-> id]]

Lose == used.lost < MaxLost /\ used' = [used EXCEPT !.lost = @ + 1]

(***************************************************************************)
(* push_quote.  A real id ends the request at once; a DRY- id may be       *)
(* replaced.  Two dry runs within a second make up the same id.            *)
(***************************************************************************)
\* Seeded fault: a dry run does not look at the id it replaces.
Bug_PushDry(w, q) ==
  /\ dryRun
  /\ Start(w, q, "commit", Dry)

PushDry(w, q) ==
  /\ dryRun
  /\ rows[q] \notin Orders
  /\ \E id \in {Dry} \cup (IF rows[q] = Dry THEN {Keep} ELSE {}) :
       Start(w, q, "commit", id)

\* Seeded fault: any id can be promoted to a real one.
Bug_PushReal(w, q) ==
  /\ ~dryRun
  /\ Start(w, q, "create", rows[q])

PushReal(w, q) ==
  /\ ~dryRun
  /\ rows[q] \notin Orders
  /\ Start(w, q, "create", rows[q])

Create(w, o) ==
  /\ req[w].pc = "create"
  /\ order[o].state = "unissued"
  /\ order' = [order EXCEPT ![o] = [quote |-> req[w].quote, state |-> "open"]]

Created(w, o) ==
  /\ Create(w, o)
  /\ Outcome(w, o)
  /\ UNCHANGED <<present, rows, dryRun, used>>

\* A timeout, or a 200 without an order id, after the order was made.
CreatedUnnoticed(w, o) ==
  /\ Create(w, o)
  /\ Outcome(w, Keep)
  /\ Lose
  /\ UNCHANGED <<present, rows, dryRun>>

\* Seeded fault: an ambiguous 200 is taken for a success.
Bug_NotCreated(w) ==
  /\ req[w].pc = "create"
  /\ \E o \in Orders : Outcome(w, o)
  /\ UNCHANGED <<present, rows, dryRun, order, used>>

\* An error, or an ambiguous 200, and no order: the row keeps what it has.
NotCreated(w) ==
  /\ req[w].pc = "create"
  /\ Outcome(w, Keep)
  /\ UNCHANGED <<present, rows, dryRun, order, used>>

(***************************************************************************)
(* cancel_pushed_order.  A DRY- id is only cleared; a real one is cleared  *)
(* after PrintLogic said the order is cancelled.                           *)
(***************************************************************************)
CancelDry(w, q) ==
  /\ rows[q] = Dry
  /\ Start(w, q, "commit", None)

CancelReal(w, q) ==
  /\ rows[q] \in Orders
  /\ Start(w, q, "cancel", rows[q])

CancelOrder(w) ==
  /\ req[w].pc = "cancel"
  /\ order' = [order EXCEPT ![req[w].id].state = "cancelled"]

Cancelled(w) ==
  /\ CancelOrder(w)
  /\ Outcome(w, None)
  /\ UNCHANGED <<present, rows, dryRun, used>>

CancelledUnnoticed(w) ==
  /\ CancelOrder(w)
  /\ Outcome(w, Keep)
  /\ Lose
  /\ UNCHANGED <<present, rows, dryRun>>

\* Seeded fault: the row is cleared although PrintLogic refused.
Bug_NotCancelled(w) ==
  /\ req[w].pc = "cancel"
  /\ Outcome(w, None)
  /\ UNCHANGED <<present, rows, dryRun, order, used>>

NotCancelled(w) ==
  /\ req[w].pc = "cancel"
  /\ Outcome(w, Keep)
  /\ UNCHANGED <<present, rows, dryRun, order, used>>

\* The handler commits; on a row deleted meanwhile that is an error.
Commit(w) ==
  /\ req[w].pc = "commit"
  /\ rows' = IF req[w].id = Keep \/ req[w].quote \notin present THEN rows
             ELSE [rows EXCEPT ![req[w].quote] = req[w].id]
  /\ req' = [req EXCEPT ![w] = Idle]
  /\ UNCHANGED <<present, dryRun, order, used>>

(***************************************************************************)
(* The surroundings: deleting a quote cancels nothing in PrintLogic; the   *)
(* tenant goes live or back to dry runs; the container restarts.           *)
(***************************************************************************)
DeleteQuote(q) ==
  /\ q \in present
  /\ present' = present \ {q}
  /\ UNCHANGED <<rows, dryRun, req, order, used>>

SetDryRun ==
  /\ dryRun' = ~dryRun
  /\ UNCHANGED <<present, rows, req, order, used>>

Crash ==
  /\ used.crashes < MaxCrashes
  /\ used' = [used EXCEPT !.crashes = @ + 1]
  /\ req' = [w \in Workers |-> Idle]
  /\ UNCHANGED <<present, rows, dryRun, order>>

Push(w) ==
  \/ \E q \in Quotes : PushDry(w, q) \/ PushReal(w, q)
  \/ \E o \in Orders : Created(w, o) \/ CreatedUnnoticed(w, o)
  \/ NotCreated(w)

Cancel(w) ==
  \/ \E q \in Quotes : CancelDry(w, q) \/ CancelReal(w, q)
  \/ Cancelled(w) \/ CancelledUnnoticed(w) \/ NotCancelled(w)

Next ==
  \/ \E w \in Workers : Push(w) \/ Cancel(w) \/ Commit(w)
  \/ \E q \in Quotes : DeleteQuote(q)
  \/ SetDryRun \/ Crash

Spec == Init /\ [][Next]_vars

-----------------------------------------------------------------------------
(***************************************************************************)
(* create_order, push_quote: a real id on a row, or about to be written to *)
(* one, is that of an order PrintLogic made for this very quote, so        *)
(* cancelling from the dashboard never cancels somebody else's print job.  *)
(***************************************************************************)
IsOrderOf(t, o, q) == t[o].quote = q /\ t[o].state # "unissued"

RealIdsAreTrue ==
  /\ \A q \in Quotes : rows[q] \in Orders => IsOrderOf(order, rows[q], q)
  /\ \A w \in Workers :
       (req[w].pc # "idle" /\ req[w].id \in Orders)
         => IsOrderOf(order, req[w].id, req[w].quote)

(***************************************************************************)
(* What may go wrong: every request that overlaps another one on the same  *)
(* quote, every restart and every lost answer is a mishap.                 *)
(***************************************************************************)
Mishaps == used.overlaps + used.crashes + used.lost

(***************************************************************************)
(* push_quote is idempotent: of one quote PrintLogic has one order to      *)
(* print, whatever the sequence of calls; a mishap costs at most one more. *)
(***************************************************************************)
OpenOrders(q) == {o \in Orders : order[o].quote = q /\ order[o].state = "open"}

OneOpenOrder == \A q \in Quotes : Cardinality(OpenOrders(q)) <= 1 + Mishaps

(***************************************************************************)
(* push_quote, cancel_printlogic_order: the open order of a quote is on    *)
(* its row, where the dashboard can cancel it; a mishap hides at most one. *)
(* Orders of deleted quotes and of running requests are excepted.          *)
(***************************************************************************)
InFlight(q) == {req[w].id : w \in {v \in Workers : req[v].quote = q}}

Forgotten(q) == OpenOrders(q) \ ({rows[q]} \cup InFlight(q))

FewForgotten == \A q \in present : Cardinality(Forgotten(q)) <= Mishaps

(***************************************************************************)
(* "Already pushed for real - never duplicate": as long as no two requests *)
(* overlapped, a real id leaves the row only after its order is cancelled, *)
(* whatever the dry-run Setting says by then.                              *)
(***************************************************************************)
RealIdIsKept ==
  [][used.overlaps = 0 =>
       \A q \in Quotes :
         (rows[q] \in Orders /\ rows'[q] # rows[q])
           => order[rows[q]].state = "cancelled"]_vars

(***************************************************************************)
(* The comment on printlogic_order_id, "non-null is the idempotency signal *)
(* that prevents duplicate pushes": no quote has two open orders unless an *)
(* answer was lost or the container restarted. It does not hold: two       *)
(* clicks at once both read an empty id. OneOpenOrder is what does hold.   *)
(***************************************************************************)
NoDuplicatePush ==
  \A q \in Quotes : Cardinality(OpenOrders(q)) <= 1 + used.crashes + used.lost
=============================================================================
