------------------------ MODULE QuoteApprovalProofs ------------------------
(***************************************************************************)
(* Theorems about QuoteApproval for every set of quotes, workers, links    *)
(* and prices.                                                             *)
(***************************************************************************)
EXTENDS QuoteApproval, FiniteSetTheorems, TLAPS

\* Rows are closed under everything a handler does to its copy.
LEMMA MergeType ==
  ASSUME NEW row \in Row, NEW snap \in Row, NEW obj \in Row
  PROVE  Merge(row, snap, obj) \in Row
BY DEF Merge, Changed, Row

LEMMA UnlinkedType ==
  ASSUME NEW row \in Row
  PROVE  Unlinked(row) \in Row
BY DEF Unlinked, Row, PayStatuses

LEMMA ApplyType ==
  ASSUME NEW row \in Row, NEW type \in {"paid", "failed", "refunded"}
  PROVE  Apply(row, type) \in Row
BY DEF Apply, Row, PayStatuses

LEMMA IdleType == Idle \in Request
BY DEF Idle, Request, NewRow, Row, Statuses, PayStatuses

-----------------------------------------------------------------------------
\* The type of used.
Counters == [requests: Nat, crashes: Nat, lost: Nat,
             crowded: SUBSET Quotes, crossed: SUBSET Quotes]

LEMMA CountersType ==
  ASSUME TypeOK, NEW n \in Nat, NEW A \in SUBSET Quotes, NEW B \in SUBSET Quotes
  PROVE  /\ [used EXCEPT !.requests = n, !.crowded = @ \cup A,
                         !.crossed = @ \cup B] \in Counters
         /\ [used EXCEPT !.requests = n, !.crossed = @ \cup B] \in Counters
BY DEF TypeOK, Counters

\* The table of requests stays well typed when one entry is replaced.
ReqType(table) ==
  /\ table \in [Workers -> Request]
  /\ \A w \in Workers : RequestOK(table[w])

LEMMA StepType ==
  ASSUME ReqType(req), NEW w \in Workers, NEW r \in Request, RequestOK(r),
         req' = [req EXCEPT ![w] = r]
  PROVE  ReqType(req')
BY DEF ReqType

LEMMA GotoType ==
  ASSUME ReqType(req), NEW w \in Workers, req[w].pc # "idle",
         NEW pc \in {"flush", "mail", "commit", "notify"}, Goto(w, pc)
  PROVE  ReqType(req')
<1>1. [req[w] EXCEPT !.pc = pc] \in Request
  BY DEF ReqType, Request
<1>2. RequestOK([req[w] EXCEPT !.pc = pc])
  BY DEF ReqType, RequestOK, Request
<1> QED
  BY <1>1, <1>2, StepType DEF Goto

LEMMA ContinueType ==
  ASSUME ReqType(req), NEW w \in Workers, req[w].pc # "idle",
         NEW pc \in {"flush", "commit"}, NEW obj \in Row, Continue(w, pc, obj)
  PROVE  ReqType(req')
<1> DEFINE r == [[req[w] EXCEPT !.pc = pc] EXCEPT !.obj = obj]
<1>1. r \in Request
  BY DEF ReqType, Request
<1>2. RequestOK(r)
  BY DEF ReqType, RequestOK, Request
<1>3. req' = [req EXCEPT ![w] = r]
  BY DEF Continue, ReqType
<1> QED
  BY <1>1, <1>2, <1>3, StepType

LEMMA FinishType ==
  ASSUME ReqType(req), NEW w \in Workers, Finish(w)
  PROVE  ReqType(req')
<1>1. RequestOK(Idle)
  BY DEF RequestOK, Idle
<1> QED
  BY <1>1, IdleType, StepType DEF Finish

LEMMA LoadType ==
  ASSUME TypeOK, NEW w \in Workers, NEW q \in Quotes,
         NEW op \in {"status", "approve", "price", "link", "cancel", "notice"},
         NEW pc \in {"stripe", "deactivate", "commit", "notify"},
         NEW obj \in Row, pc = "deactivate" => obj.link \in Links,
         Load(w, op, pc, q, obj)
  PROVE  TypeOK'
<1> DEFINE r == [pc |-> pc, op |-> op, quote |-> q, event |-> None,
                 snap |-> rows[q], obj |-> obj]
<1>1. r \in Request /\ RequestOK(r)
  BY DEF TypeOK, Request, RequestOK
<1>2. req' = [req EXCEPT ![w] = r] /\ ReqType(req)
  BY DEF Load, TypeOK, ReqType
<1>3. ReqType(req')
  BY <1>1, <1>2, StepType
<1>4. used' \in Counters
  <2>1. used.requests + 1 \in Nat BY DEF TypeOK
  <2> DEFINE A == {p \in {q} : Staffed(p)}
             B == {p \in {q} : Hooked(p)}
  <2>2. A \in SUBSET Quotes /\ B \in SUBSET Quotes OBVIOUS
  <2>3. used' = [used EXCEPT !.requests = used.requests + 1,
                             !.crowded = @ \cup A, !.crossed = @ \cup B]
    BY DEF Load
  <2> HIDE DEF A, B
  <2> QED BY <2>1, <2>2, <2>3, CountersType
<1> QED
  BY <1>3, <1>4 DEF TypeOK, Load, ReqType, db, ext, Counters

LEMMA DashboardType ==
  ASSUME TypeOK, NEW w \in Workers, NEW q \in Quotes, Dashboard(w, q)
  PROVE  TypeOK'
<1>1. rows[q] \in Row
  BY DEF TypeOK
<1>2. ASSUME NEW s \in Targets, SetStatus(w, q, s)
      PROVE  TypeOK'
  <2>1. [rows[q] EXCEPT !.status = s] \in Row
    BY <1>1, QAAssumption DEF QAAssumption, Row
  <2> QED
    BY <1>2, <2>1, LoadType DEF SetStatus
<1>3. CASE Approve(w, q)
  <2>1. [rows[q] EXCEPT !.status = "approved"] \in Row
    BY <1>1 DEF Row, Statuses
  <2> QED
    BY <1>3, <2>1, LoadType DEF Approve
<1>4. ASSUME NEW p \in Prices, ManualPrice(w, q, p)
      PROVE  TypeOK'
  <2>1. [rows[q] EXCEPT !.price = p, !.notified = FALSE,
                        !.status = "pending_approval"] \in Row
    BY <1>1, QAAssumption DEF QAAssumption, Row, Statuses
  <2> QED
    BY <1>4, <2>1, LoadType DEF ManualPrice
<1>5. CASE CreatePaymentLink(w, q)
  BY <1>1, <1>5, LoadType DEF CreatePaymentLink
<1>6. CASE CancelPaymentLink(w, q)
  <2>1. rows[q].link \in Links
    BY <1>1, <1>6 DEF CancelPaymentLink, Row
  <2> QED
    BY <1>1, <1>6, <2>1, LoadType DEF CancelPaymentLink
<1>7. CASE RequestNotice(w, q)
  BY <1>1, <1>7, LoadType DEF RequestNotice
<1> QED
  BY <1>2, <1>3, <1>4, <1>5, <1>6, <1>7 DEF Dashboard

LEMMA ExternalType ==
  ASSUME TypeOK, NEW w \in Workers, External(w)
  PROVE  TypeOK'
<1> DEFINE obj == req[w].obj
           quote == req[w].quote
<1>1. /\ ReqType(req) /\ obj \in Row
      /\ AfterStripe(w) \in {"flush", "commit"}
      /\ req[w].pc # "idle" => quote \in Quotes
  BY DEF TypeOK, ReqType, Request, RequestOK, AfterStripe
<1>2. CASE NoNewLink(w)
  <2>1. ReqType(req')
    BY <1>1, <1>2, GotoType DEF NoNewLink
  <2> QED
    BY <1>2, <2>1 DEF TypeOK, ReqType, NoNewLink, db, ext
<1>3. ASSUME NEW l \in Links, Issue(w, l), req[w].pc = "stripe"
      PROVE  plink' \in [Links -> PaymentLink]
  <2>1. [quote |-> quote, amount |-> obj.price, state |-> "active",
         money |-> "none"] \in PaymentLink
    <3>1. obj.price \in Prices \cup {0}
      BY <1>1 DEF Row
    <3>2. obj.price \in Nat
      BY <3>1, QAAssumption DEF QAAssumption
    <3> QED
      BY <1>1, <1>3, <3>2 DEF PaymentLink
  <2> QED
    BY <1>3, <2>1 DEF TypeOK, Issue
<1>4. ASSUME NEW l \in Links, NewLink(w, l)
      PROVE  TypeOK'
  <2>1. [obj EXCEPT !.link = l, !.pay = "unpaid"] \in Row
    BY <1>1 DEF Row, PayStatuses
  <2>2. ReqType(req')
    BY <1>1, <1>4, <2>1, ContinueType DEF NewLink, LinkWanted
  <2>3. plink' \in [Links -> PaymentLink]
    BY <1>3, <1>4 DEF NewLink, LinkWanted
  <2> QED
    BY <1>4, <2>2, <2>3 DEF TypeOK, ReqType, NewLink, db
<1>5. ASSUME NEW l \in Links, LostLink(w, l)
      PROVE  TypeOK'
  <2>1. ReqType(req')
    BY <1>1, <1>5, GotoType DEF LostLink, LinkWanted
  <2>2. plink' \in [Links -> PaymentLink]
    BY <1>3, <1>5 DEF LostLink, LinkWanted
  <2> QED
    BY <1>5, <2>1, <2>2 DEF TypeOK, ReqType, LostLink, db
<1>6. CASE Deactivated(w)
  <2>1. obj.link \in Links
    BY <1>6 DEF TypeOK, RequestOK, Deactivated
  <2>2. [plink[obj.link] EXCEPT !.state = "inactive"] \in PaymentLink
    BY <2>1 DEF TypeOK, PaymentLink
  <2>3. plink' \in [Links -> PaymentLink]
    BY <1>6, <2>1, <2>2 DEF TypeOK, Deactivated
  <2>4. ReqType(req')
    BY <1>1, <1>6, UnlinkedType, ContinueType, GotoType DEF Deactivated
  <2>5. used' \in Counters
    BY <1>6 DEF TypeOK, Deactivated, Counters
  <2> QED
    BY <1>6, <2>3, <2>4, <2>5 DEF TypeOK, ReqType, Deactivated, db, Counters
<1>7. CASE NotDeactivated(w) \/ NotMailed(w)
  <2>1. ReqType(req')
    BY <1>1, <1>7, GotoType DEF NotDeactivated, NotMailed
  <2> QED
    BY <1>7, <2>1 DEF TypeOK, ReqType, NotDeactivated, NotMailed, db, ext
<1>8. ASSUME SendMail(w)
      PROVE  mails' \in [Quotes -> Nat] /\ known' \subseteq Links
  <2>1. quote \in Quotes
    BY <1>1, <1>8 DEF SendMail
  <2> QED
    BY <1>1, <1>8, <2>1 DEF TypeOK, SendMail, Row
<1>9. CASE Mailed(w)
  <2>1. [obj EXCEPT !.draft = TRUE] \in Row
    BY <1>1 DEF Row
  <2>2. ReqType(req')
    BY <1>1, <1>9, <2>1, ContinueType DEF Mailed, SendMail
  <2> QED
    BY <1>8, <1>9, <2>2 DEF TypeOK, ReqType, Mailed, db
<1>10. CASE MailedUnnoticed(w)
  <2>1. ReqType(req')
    BY <1>1, <1>10, GotoType DEF MailedUnnoticed, SendMail
  <2> QED
    BY <1>8, <1>10, <2>1 DEF TypeOK, ReqType, MailedUnnoticed, db
<1>11. CASE ReadForNotice(w)
  <2>1. CASE quote \in present /\ ~rows[quote].notified
    <3> DEFINE r == [req[w] EXCEPT !.pc = "notice", !.op = "notice",
                                   !.snap = rows[quote], !.obj = rows[quote]]
    <3>1. quote \in Quotes /\ rows[quote] \in Row
      BY <2>1 DEF TypeOK
    <3>2. r \in Request /\ RequestOK(r)
      BY <1>1, <3>1 DEF ReqType, Request, RequestOK
    <3>3. req' = [req EXCEPT ![w] = r]
      BY <1>1, <1>11, <2>1 DEF ReadForNotice, ReqType
    <3>4. ReqType(req')
      BY <1>1, <3>2, <3>3, StepType
    <3> QED
      BY <1>11, <3>4 DEF TypeOK, ReqType, ReadForNotice, db, ext
  <2>2. CASE ~(quote \in present /\ ~rows[quote].notified)
    BY <1>1, <1>11, <2>2, FinishType
    DEF TypeOK, ReqType, ReadForNotice, db, ext
  <2> QED
    BY <2>1, <2>2
<1>12. CASE SendNotice(w)
  <2>1. [obj EXCEPT !.notified = TRUE] \in Row
    BY <1>1 DEF Row
  <2>2. ReqType(req')
    BY <1>1, <1>12, <2>1, ContinueType DEF SendNotice
  <2>3. notices' \in [Quotes -> Nat]
    BY <1>1, <1>12 DEF TypeOK, SendNotice
  <2> QED
    BY <1>12, <2>2, <2>3 DEF TypeOK, ReqType, SendNotice, db
<1>13. CASE NoticeFails(w)
  BY <1>1, <1>13, FinishType DEF TypeOK, ReqType, NoticeFails, db, ext
<1> QED
  BY <1>2, <1>4, <1>5, <1>6, <1>7, <1>9, <1>10, <1>11, <1>12, <1>13
  DEF External

LEMMA WriteType ==
  ASSUME TypeOK, NEW w \in Workers, Write(w)
  PROVE  TypeOK'
<1> DEFINE q == req[w].quote
<1>1. /\ ReqType(req)
      /\ req[w].pc # "idle" => q \in Quotes
      /\ req[w].snap \in Row /\ req[w].obj \in Row
      /\ {req[w].event} \ {None} \subseteq Event
  BY DEF TypeOK, ReqType, Request, RequestOK
<1>2. ASSUME Committed(w), req[w].pc = "commit"
      PROVE  ReqType(req') /\ acked' \subseteq Event
  <2>1. ReqType(req')
    BY <1>1, <1>2, GotoType, FinishType DEF Committed
  <2> QED
    BY <1>1, <1>2, <2>1 DEF Committed, TypeOK
<1>3. CASE Flush(w)
  <2>1. ReqType(req')
    BY <1>1, <1>3, GotoType DEF Flush
  <2>2. lock' \in [Quotes -> Workers \cup {None}]
    BY <1>1, <1>3 DEF TypeOK, Flush
  <2> QED
    BY <1>3, <2>1, <2>2 DEF TypeOK, ReqType, Flush, ext
<1>4. CASE CommitNothing(w)
  BY <1>2, <1>4 DEF TypeOK, ReqType, CommitNothing, db, ext
<1>5. CASE CommitRow(w)
  <2>1. q \in Quotes
    BY <1>1, <1>5 DEF CommitRow
  <2>2. Merge(rows[q], req[w].snap, req[w].obj) \in Row
    BY <1>1, <2>1, MergeType DEF TypeOK
  <2>3. rows' \in [Quotes -> Row]
    BY <1>5, <2>1, <2>2 DEF TypeOK, CommitRow
  <2>4. lock' \in [Quotes -> Workers \cup {None}]
    BY <1>5, <2>1 DEF TypeOK, CommitRow
  <2>5. known' \subseteq Links
    BY <1>5, <2>1, <2>3 DEF TypeOK, CommitRow, Row
  <2> QED
    BY <1>2, <1>5, <2>3, <2>4, <2>5 DEF TypeOK, ReqType, CommitRow
<1>6. CASE StaleRow(w)
  BY <1>1, <1>6, FinishType DEF TypeOK, ReqType, StaleRow, db, ext
<1> QED
  BY <1>3, <1>4, <1>5, <1>6 DEF Write

LEMMA ReceiveType ==
  ASSUME TypeOK, NEW w \in Workers, NEW e \in sent, Receive(w, e)
  PROVE  TypeOK'
<1> DEFINE q == plink[e[1]].quote
           r == [pc |-> "commit", op |-> "webhook", quote |-> q, event |-> e,
                 snap |-> rows[q], obj |-> Apply(rows[q], e[2])]
<1>1. /\ q \in Quotes /\ rows[q] \in Row
      /\ e \in Event /\ e[2] \in {"paid", "failed", "refunded"}
  BY DEF TypeOK, Receive, Event
<1>2. r \in Request /\ RequestOK(r)
  BY <1>1, ApplyType DEF Request, RequestOK
<1>3. ReqType(req')
  BY <1>2, StepType DEF TypeOK, ReqType, Receive
<1>4. used' \in Counters
  <2> DEFINE n == IF e \in acked THEN used.requests + 1 ELSE used.requests
             B == {p \in {q} : Staffed(p) \/ Hooked(p)}
  <2>1. n \in Nat BY DEF TypeOK
  <2>2. B \in SUBSET Quotes BY <1>1
  <2>3. used' = [used EXCEPT !.requests = n, !.crossed = @ \cup B]
    BY DEF Receive
  <2>4. {} \in SUBSET Quotes OBVIOUS
  <2> HIDE DEF n, B
  <2> QED BY <2>1, <2>2, <2>3, <2>4, CountersType
<1> QED
  BY <1>3, <1>4 DEF TypeOK, ReqType, Receive, db, ext, Counters

LEMMA CrashType ==
  ASSUME TypeOK, Crash
  PROVE  TypeOK'
<1>1. ReqType(req')
  BY IdleType DEF Crash, ReqType, RequestOK, Idle
<1>2. lock' \in [Quotes -> Workers \cup {None}]
  BY DEF Crash
<1> QED
  BY <1>1, <1>2 DEF TypeOK, Crash, ReqType, ext

\* The customer's steps at Stripe and the ones that touch one flag only.
LEMMA OutsideType ==
  ASSUME TypeOK,
         \/ \E q \in Quotes : DeleteQuote(q)
         \/ \E e \in sent : AckUnknown(e)
         \/ \E l \in Links : Pay(l) \/ FailToPay(l) \/ Refund(l)
         \/ Connect \/ Disconnect
  PROVE  TypeOK'
<1>1. ASSUME NEW l \in Links, Pay(l) \/ FailToPay(l) \/ Refund(l)
      PROVE  TypeOK'
  <2>1. sent' \subseteq Event
    BY <1>1 DEF TypeOK, Pay, FailToPay, Refund, Report, Event
  <2>2. /\ [plink[l] EXCEPT !.money = "paid"] \in PaymentLink
        /\ [plink[l] EXCEPT !.money = "refunded"] \in PaymentLink
    BY DEF TypeOK, PaymentLink
  <2>3. plink' \in [Links -> PaymentLink]
    BY <1>1, <2>2 DEF TypeOK, Pay, FailToPay, Refund, ext
  <2> QED
    BY <1>1, <2>1, <2>3 DEF TypeOK, Pay, FailToPay, Refund, db, ext
<1>2. CASE \E q \in Quotes : DeleteQuote(q)
  BY <1>2 DEF TypeOK, DeleteQuote, ext
<1>3. CASE \E e \in sent : AckUnknown(e)
  BY <1>3 DEF TypeOK, AckUnknown, db, ext
<1>4. CASE Connect \/ Disconnect
  BY <1>4 DEF TypeOK, Connect, Disconnect, db, ext
<1> QED
  BY <1>1, <1>2, <1>3, <1>4

LEMMA InitType == Init => TypeOK
<1> SUFFICES ASSUME Init PROVE TypeOK
  OBVIOUS
<1>1. /\ \A p \in Prices, s \in {"pending_approval", "approved"} :
            NewRow(s, p) \in Row
      /\ NewRow("needs_revision", 0) \in Row
  BY DEF NewRow, Row, Statuses, PayStatuses
<1>2. rows \in [Quotes -> Row]
  BY <1>1 DEF Init
<1>3. req \in [Workers -> Request] /\ \A w \in Workers : RequestOK(req[w])
  BY IdleType DEF Init, RequestOK, Idle
<1>4. plink \in [Links -> PaymentLink]
  BY DEF Init, PaymentLink
<1> QED
  BY <1>2, <1>3, <1>4 DEF Init, TypeOK

LEMMA NextType == TypeOK /\ [Next]_vars => TypeOK'
<1> SUFFICES ASSUME TypeOK, [Next]_vars PROVE TypeOK'
  OBVIOUS
<1>1. CASE UNCHANGED vars
  BY <1>1 DEF TypeOK, vars
<1> QED
  BY <1>1, ExternalType, WriteType, DashboardType, ReceiveType, CrashType,
     OutsideType DEF Next

(***************************************************************************)
(* Rows, requests and Stripe's links keep their shape, for every instance. *)
(***************************************************************************)
THEOREM TypeCorrect == Spec => []TypeOK
BY InitType, NextType, PTL DEF Spec

-----------------------------------------------------------------------------
\* Stripe never takes back that it issued a link, took or returned money.
Monotone(pl, pl2) ==
  \A l \in Links : pl[l].state # "unissued" =>
    /\ pl2[l].quote = pl[l].quote
    /\ pl2[l].state # "unissued"
    /\ pl[l].money \in {"paid", "refunded"} => pl2[l].money \in {"paid", "refunded"}
    /\ pl[l].money = "refunded" => pl2[l].money = "refunded"

LEMMA StripeMonotone ==
  ASSUME TypeOK, MoneyNeedsLink(plink), [Next]_vars
  PROVE  Monotone(plink, plink') /\ MoneyNeedsLink(plink')
<1>1. ASSUME NEW l \in Links, NEW w \in Workers, NewLink(w, l) \/ LostLink(w, l)
      PROVE  Monotone(plink, plink') /\ MoneyNeedsLink(plink')
  BY <1>1 DEF TypeOK, NewLink, LostLink, Issue, Monotone, MoneyNeedsLink,
              PaymentLink
<1>2. ASSUME NEW w \in Workers, Deactivated(w)
      PROVE  Monotone(plink, plink') /\ MoneyNeedsLink(plink')
  <2>1. req[w].obj.link \in Links
    BY <1>2 DEF TypeOK, RequestOK, Deactivated
  <2> QED
    BY <1>2, <2>1 DEF TypeOK, Deactivated, Monotone, MoneyNeedsLink, PaymentLink
<1>3. ASSUME NEW l \in Links, Pay(l) \/ FailToPay(l) \/ Refund(l)
      PROVE  Monotone(plink, plink') /\ MoneyNeedsLink(plink')
  BY <1>3 DEF TypeOK, Pay, FailToPay, Refund, Monotone, MoneyNeedsLink,
              PaymentLink, ext
<1>4. ASSUME plink' = plink
      PROVE  Monotone(plink, plink') /\ MoneyNeedsLink(plink')
  BY <1>4 DEF Monotone, MoneyNeedsLink
<1>5. ASSUME NEW w \in Workers, External(w)
      PROVE  Monotone(plink, plink') /\ MoneyNeedsLink(plink')
  <2>1. \/ \E l \in Links : NewLink(w, l) \/ LostLink(w, l)
        \/ Deactivated(w)
        \/ plink' = plink
    BY <1>5 DEF External, NoNewLink, NotDeactivated, NotMailed, Mailed,
                MailedUnnoticed, ReadForNotice, SendNotice, NoticeFails, ext
  <2> QED
    BY <1>1, <1>2, <1>4, <2>1
<1>6. ASSUME NEW w \in Workers, Write(w)
      PROVE  plink' = plink
  BY <1>6 DEF Write, Flush, CommitNothing, CommitRow, StaleRow, ext
<1>7. ASSUME NEW w \in Workers, NEW q \in Quotes, Dashboard(w, q)
      PROVE  plink' = plink
  BY <1>7 DEF Dashboard, SetStatus, Approve, ManualPrice, CreatePaymentLink,
              CancelPaymentLink, RequestNotice, Load, ext
<1>8. ASSUME NEW w \in Workers, NEW e \in sent, Receive(w, e)
      PROVE  plink' = plink
  BY <1>8 DEF Receive, ext
<1>9. ASSUME \/ \E q \in Quotes : DeleteQuote(q)
             \/ \E e \in sent : AckUnknown(e)
             \/ Connect \/ Disconnect \/ Crash
      PROVE  plink' = plink
  BY <1>9 DEF DeleteQuote, AckUnknown, Connect, Disconnect, Crash, ext
<1>10. CASE UNCHANGED vars
  BY <1>4, <1>10 DEF vars
<1> QED
  BY <1>3, <1>4, <1>5, <1>6, <1>7, <1>8, <1>9, <1>10 DEF Next

LEMMA BackedMonotone ==
  ASSUME NEW pl \in [Links -> PaymentLink], NEW pl2, NEW q, NEW row \in Row,
         Monotone(pl, pl2), MoneyNeedsLink(pl), Backed(pl, q, row)
  PROVE  Backed(pl2, q, row)
<1>1. row.link # None => row.link \in Links
  BY DEF Row
<1>2. \A l \in Links : pl[l].money # "none" => pl[l].state # "unissued"
  BY DEF MoneyNeedsLink
<1>3. row.link # None => pl2[row.link].quote = q /\ pl2[row.link].state # "unissued"
  BY <1>1 DEF Backed, Monotone
<1>4. row.pay = "paid" =>
        \E l \in Links : pl2[l].quote = q /\ pl2[l].money \in {"paid", "refunded"}
  BY <1>2 DEF Backed, Monotone
<1>5. row.pay = "refunded" =>
        \E l \in Links : pl2[l].quote = q /\ pl2[l].money = "refunded"
  BY <1>2 DEF Backed, Monotone
<1> QED
  BY <1>3, <1>4, <1>5 DEF Backed

\* Only the link and the payment status of a row are claims about Stripe.
LEMMA BackedSame ==
  ASSUME NEW pl, NEW q, NEW row, NEW row2, Backed(pl, q, row),
         row2.link = row.link, row2.pay = row.pay
  PROVE  Backed(pl, q, row2)
BY DEF Backed

LEMMA BackedMerge ==
  ASSUME NEW pl, NEW q, NEW row, NEW snap, NEW obj,
         Backed(pl, q, row), Backed(pl, q, obj)
  PROVE  Backed(pl, q, Merge(row, snap, obj))
BY DEF Backed, Merge, Changed

\* What a request claims about the quote it runs for.
ReqBacked(pl, r) == r.pc # "idle" => Backed(pl, r.quote, r.obj)

\* A step of one worker: its own claim must be checked, the others' stand.
LEMMA OneWorkerBacked ==
  ASSUME TypeOK, TypeOK', BackedInv, [Next]_vars, NEW w \in Workers, NEW r,
         req' = [req EXCEPT ![w] = r], ReqBacked(plink', r)
  PROVE  \A v \in Workers : ReqBacked(plink', req'[v])
<1>1. Monotone(plink, plink') /\ MoneyNeedsLink(plink)
  BY StripeMonotone DEF BackedInv
<1> SUFFICES ASSUME NEW v \in Workers PROVE ReqBacked(plink', req'[v])
  OBVIOUS
<1>2. CASE v = w
  BY <1>2 DEF TypeOK
<1>3. CASE v # w
  <2>1. req'[v] = req[v] /\ req[v].obj \in Row
    BY <1>3 DEF TypeOK, Request
  <2> QED
    BY <1>1, <2>1, BackedMonotone DEF TypeOK, BackedInv, ReqBacked
<1> QED
  BY <1>2, <1>3

\* A worker whose copy still says the same about Stripe.
LEMMA SameClaim ==
  ASSUME TypeOK, BackedInv, [Next]_vars, NEW w \in Workers,
         req[w].pc # "idle", NEW obj, obj.link = req[w].obj.link,
         obj.pay = req[w].obj.pay
  PROVE  Backed(plink', req[w].quote, obj)
<1>1. Monotone(plink, plink') /\ MoneyNeedsLink(plink)
  BY StripeMonotone DEF BackedInv
<1>2. req[w].obj \in Row
  BY DEF TypeOK, Request
<1>3. Backed(plink', req[w].quote, req[w].obj)
  BY <1>1, <1>2, BackedMonotone DEF TypeOK, BackedInv
<1> QED
  BY <1>3, BackedSame

ClaimsHold == \A v \in Workers : ReqBacked(plink', req'[v])

LEMMA GotoBacked ==
  ASSUME TypeOK, TypeOK', BackedInv, [Next]_vars, NEW w \in Workers,
         req[w].pc # "idle", NEW pc, Goto(w, pc)
  PROVE  ClaimsHold
<1> DEFINE r == [req[w] EXCEPT !.pc = pc]
<1>1. r.quote = req[w].quote /\ r.obj = req[w].obj
  BY DEF TypeOK, Request
<1>2. ReqBacked(plink', r)
  BY <1>1, SameClaim DEF ReqBacked
<1>3. req' = [req EXCEPT ![w] = r]
  BY DEF Goto, TypeOK
<1> QED
  BY <1>2, <1>3, OneWorkerBacked DEF ClaimsHold

LEMMA ContinueBacked ==
  ASSUME TypeOK, TypeOK', BackedInv, [Next]_vars, NEW w \in Workers,
         NEW pc, NEW obj, Continue(w, pc, obj),
         Backed(plink', req[w].quote, obj)
  PROVE  ClaimsHold
<1> DEFINE r == [[req[w] EXCEPT !.pc = pc] EXCEPT !.obj = obj]
<1>1. r.quote = req[w].quote /\ r.obj = obj
  BY DEF TypeOK, Request
<1>2. req' = [req EXCEPT ![w] = r]
  BY DEF Continue, TypeOK
<1> QED
  BY <1>1, <1>2, OneWorkerBacked DEF ClaimsHold, ReqBacked

LEMMA FinishBacked ==
  ASSUME TypeOK, TypeOK', BackedInv, [Next]_vars, NEW w \in Workers, Finish(w)
  PROVE  ClaimsHold
<1>1. ReqBacked(plink', Idle)
  BY DEF ReqBacked, Idle
<1> QED
  BY <1>1, OneWorkerBacked DEF ClaimsHold, Finish

LEMMA LoadBacked ==
  ASSUME TypeOK, TypeOK', BackedInv, [Next]_vars, NEW w \in Workers,
         NEW q \in Quotes, NEW op, NEW pc, NEW obj, Load(w, op, pc, q, obj),
         obj.link = rows[q].link, obj.pay = rows[q].pay
  PROVE  ClaimsHold
<1> DEFINE r == [pc |-> pc, op |-> op, quote |-> q, event |-> None,
                 snap |-> rows[q], obj |-> obj]
<1>1. plink' = plink /\ req' = [req EXCEPT ![w] = r]
  BY DEF Load, ext
<1>2. Backed(plink', q, obj)
  BY <1>1, BackedSame DEF BackedInv
<1>3. ReqBacked(plink', r)
  BY <1>2 DEF ReqBacked
<1> QED
  BY <1>1, <1>3, OneWorkerBacked DEF ClaimsHold

LEMMA DashboardBacked ==
  ASSUME TypeOK, TypeOK', BackedInv, [Next]_vars, NEW w \in Workers,
         NEW q \in Quotes, Dashboard(w, q)
  PROVE  ClaimsHold
<1>1. rows[q] \in Row
  BY DEF TypeOK
<1>2. ASSUME NEW s \in Targets, SetStatus(w, q, s)
      PROVE  ClaimsHold
  <2> DEFINE obj == [rows[q] EXCEPT !.status = s]
  <2>1. obj.link = rows[q].link /\ obj.pay = rows[q].pay
    BY <1>1 DEF Row
  <2> QED
    BY <1>2, <2>1, LoadBacked DEF SetStatus
<1>3. CASE Approve(w, q)
  <2> DEFINE obj == [rows[q] EXCEPT !.status = "approved"]
  <2>1. obj.link = rows[q].link /\ obj.pay = rows[q].pay
    BY <1>1 DEF Row
  <2> QED
    BY <1>3, <2>1, LoadBacked DEF Approve
<1>4. ASSUME NEW p \in Prices, ManualPrice(w, q, p)
      PROVE  ClaimsHold
  <2> DEFINE obj == [rows[q] EXCEPT !.price = p, !.notified = FALSE,
                                    !.status = "pending_approval"]
  <2>1. obj.link = rows[q].link /\ obj.pay = rows[q].pay
    BY <1>1 DEF Row
  <2> QED
    BY <1>4, <2>1, LoadBacked DEF ManualPrice
<1>5. CASE CreatePaymentLink(w, q) \/ CancelPaymentLink(w, q)
           \/ RequestNotice(w, q)
  BY <1>5, LoadBacked DEF CreatePaymentLink, CancelPaymentLink, RequestNotice
<1> QED
  BY <1>2, <1>3, <1>4, <1>5 DEF Dashboard

LEMMA ExternalBacked ==
  ASSUME TypeOK, TypeOK', BackedInv, [Next]_vars, NEW w \in Workers, External(w)
  PROVE  ClaimsHold
<1> DEFINE obj == req[w].obj
           quote == req[w].quote
<1>1. obj \in Row
  BY DEF TypeOK, Request
<1>2. ASSUME NEW l \in Links, NewLink(w, l)
      PROVE  ClaimsHold
  <2> DEFINE linked == [obj EXCEPT !.link = l, !.pay = "unpaid"]
  <2>1. linked.link = l /\ linked.pay = "unpaid"
    BY <1>1 DEF Row
  <2>2. plink'[l].quote = quote /\ plink'[l].state = "active"
    BY <1>2 DEF TypeOK, NewLink, Issue
  <2>3. Backed(plink', quote, linked)
    BY <2>1, <2>2 DEF Backed
  <2> QED
    BY <1>2, <2>3, ContinueBacked DEF NewLink
<1>3. CASE Deactivated(w)
  <2>1. Backed(plink', quote, obj)
    BY <1>3, SameClaim DEF Deactivated
  <2>2. Backed(plink', quote, Unlinked(obj))
    BY <1>1, <2>1 DEF Backed, Unlinked, Row
  <2> QED
    BY <1>3, <2>2, ContinueBacked, GotoBacked DEF Deactivated
<1>4. CASE Mailed(w)
  <2>1. Backed(plink', quote, [obj EXCEPT !.draft = TRUE])
    BY <1>1, <1>4, SameClaim DEF Mailed, SendMail, Row
  <2> QED
    BY <1>4, <2>1, ContinueBacked DEF Mailed
<1>5. CASE SendNotice(w)
  <2>1. Backed(plink', quote, [obj EXCEPT !.notified = TRUE])
    BY <1>1, <1>5, SameClaim DEF SendNotice, Row
  <2> QED
    BY <1>5, <2>1, ContinueBacked DEF SendNotice
<1>6. CASE ReadForNotice(w)
  <2>1. CASE quote \in present /\ ~rows[quote].notified
    <3> DEFINE r == [req[w] EXCEPT !.pc = "notice", !.op = "notice",
                                   !.snap = rows[quote], !.obj = rows[quote]]
    <3>1. r.quote = quote /\ r.obj = rows[quote]
      BY DEF TypeOK, Request
    <3>2. req' = [req EXCEPT ![w] = r]
      BY <1>6, <2>1 DEF ReadForNotice, TypeOK
    <3>3. plink' = plink /\ quote \in Quotes
      BY <1>6, <2>1 DEF ReadForNotice, ext, TypeOK
    <3>4. ReqBacked(plink', r)
      BY <3>1, <3>3 DEF ReqBacked, BackedInv
    <3> QED
      BY <3>4, <3>2, OneWorkerBacked DEF ClaimsHold
  <2>2. CASE ~(quote \in present /\ ~rows[quote].notified)
    BY <1>6, <2>2, FinishBacked DEF ReadForNotice
  <2> QED
    BY <2>1, <2>2
<1>7. CASE NoticeFails(w)
  BY <1>7, FinishBacked DEF NoticeFails
<1>8. CASE \/ NoNewLink(w) \/ NotDeactivated(w) \/ NotMailed(w)
           \/ MailedUnnoticed(w) \/ \E l \in Links : LostLink(w, l)
  BY <1>8, GotoBacked DEF NoNewLink, NotDeactivated, NotMailed,
                          MailedUnnoticed, SendMail, LostLink, LinkWanted
<1> QED
  BY <1>2, <1>3, <1>4, <1>5, <1>6, <1>7, <1>8 DEF External

LEMMA WriteBacked ==
  ASSUME TypeOK, TypeOK', BackedInv, [Next]_vars, NEW w \in Workers, Write(w)
  PROVE  ClaimsHold
BY GotoBacked, FinishBacked
DEF Write, Flush, CommitNothing, CommitRow, Committed, StaleRow

\* A true event makes a true row: paid follows money, refunded a refund.
LEMMA ReceiveBacked ==
  ASSUME TypeOK, TypeOK', BackedInv, [Next]_vars, NEW w \in Workers,
         NEW e \in sent, Receive(w, e)
  PROVE  ClaimsHold
<1> DEFINE q == plink[e[1]].quote
           r == [pc |-> "commit", op |-> "webhook", quote |-> q, event |-> e,
                 snap |-> rows[q], obj |-> Apply(rows[q], e[2])]
<1>1. /\ q \in Quotes /\ rows[q] \in Row
      /\ e[1] \in Links /\ e[2] \in {"paid", "failed", "refunded"}
      /\ plink' = plink /\ req' = [req EXCEPT ![w] = r]
  BY DEF TypeOK, Receive, Event, ext
<1>2. Backed(plink, q, rows[q]) /\ EventIsTrue(plink, e)
  BY <1>1 DEF BackedInv
<1>3. Backed(plink, q, Apply(rows[q], e[2]))
  BY <1>1, <1>2 DEF Backed, EventIsTrue, Apply, Row
<1>4. ReqBacked(plink', r)
  BY <1>1, <1>3 DEF ReqBacked
<1> QED
  BY <1>1, <1>4, OneWorkerBacked DEF ClaimsHold

\* Rows are written by commits only.
LEMMA RowsMove ==
  ASSUME [Next]_vars
  PROVE  (\E w \in Workers : CommitRow(w)) \/ rows' = rows
<1>1. ASSUME NEW w \in Workers, External(w)
      PROVE  rows' = rows
  BY <1>1 DEF External, NoNewLink, NewLink, LostLink, Deactivated,
     NotDeactivated, NotMailed, Mailed, MailedUnnoticed, ReadForNotice,
     SendNotice, NoticeFails, db
<1>2. ASSUME NEW w \in Workers, Write(w)
      PROVE  CommitRow(w) \/ rows' = rows
  BY <1>2 DEF Write, Flush, CommitNothing, StaleRow, db
<1>3. ASSUME NEW w \in Workers, NEW k \in Quotes, Dashboard(w, k)
      PROVE  rows' = rows
  BY <1>3 DEF Dashboard, SetStatus, Approve, ManualPrice, CreatePaymentLink,
     CancelPaymentLink, RequestNotice, Load, db
<1>4. ASSUME NEW w \in Workers, NEW e \in sent, Receive(w, e)
      PROVE  rows' = rows
  BY <1>4 DEF Receive, db
<1>5. ASSUME \/ \E k \in Quotes : DeleteQuote(k)
             \/ \E e \in sent : AckUnknown(e)
             \/ \E l \in Links : Pay(l) \/ FailToPay(l) \/ Refund(l)
             \/ Connect \/ Disconnect \/ Crash
      PROVE  rows' = rows
  BY <1>5 DEF DeleteQuote, AckUnknown, Pay, FailToPay, Refund, Connect,
     Disconnect, Crash, db
<1>6. CASE UNCHANGED vars
  BY <1>6 DEF vars
<1> QED
  BY <1>1, <1>2, <1>3, <1>4, <1>5, <1>6 DEF Next

LEMMA RowsBacked ==
  ASSUME TypeOK, BackedInv, [Next]_vars
  PROVE  \A q \in Quotes : Backed(plink', q, rows'[q])
<1> SUFFICES ASSUME NEW q \in Quotes PROVE Backed(plink', q, rows'[q])
  OBVIOUS
<1>1. Monotone(plink, plink') /\ MoneyNeedsLink(plink)
  BY StripeMonotone DEF BackedInv
<1>2. CASE rows' = rows
  <2>1. rows[q] \in Row /\ Backed(plink, q, rows[q])
    BY DEF TypeOK, BackedInv
  <2> QED
    BY <1>1, <1>2, <2>1, BackedMonotone DEF TypeOK
<1>3. ASSUME NEW w \in Workers, CommitRow(w)
      PROVE  Backed(plink', q, rows'[q])
  <2>1. plink' = plink
    BY <1>3 DEF CommitRow
  <2>2. Backed(plink, q, rows[q])
    BY DEF BackedInv
  <2>3. CASE req[w].quote = q
    <3>1. Backed(plink, q, req[w].obj)
      BY <1>3, <2>3 DEF BackedInv, CommitRow
    <3>2. rows'[q] = Merge(rows[q], req[w].snap, req[w].obj)
      BY <1>3, <2>3 DEF CommitRow, TypeOK
    <3> QED
      BY <2>1, <2>2, <3>1, <3>2, BackedMerge
  <2>4. CASE req[w].quote # q
    <3>1. rows'[q] = rows[q]
      BY <1>3, <2>4 DEF CommitRow, TypeOK
    <3> QED
      BY <2>1, <2>2, <3>1
  <2> QED
    BY <2>3, <2>4
<1> QED
  BY <1>2, <1>3, RowsMove

LEMMA RequestsBacked ==
  ASSUME TypeOK, TypeOK', BackedInv, [Next]_vars
  PROVE  ClaimsHold
<1>1. CASE Crash
  BY <1>1 DEF Crash, ClaimsHold, ReqBacked, Idle
<1>2. CASE req' = req
  <2>1. Monotone(plink, plink') /\ MoneyNeedsLink(plink)
    BY StripeMonotone DEF BackedInv
  <2>2. ASSUME NEW v \in Workers
        PROVE  ReqBacked(plink', req[v])
    <3>1. req[v].obj \in Row
      BY DEF TypeOK, Request
    <3> QED
      BY <2>1, <3>1, BackedMonotone DEF TypeOK, BackedInv, ReqBacked
  <2> QED
    BY <1>2, <2>2 DEF ClaimsHold
<1>3. CASE \/ \E q \in Quotes : DeleteQuote(q)
           \/ \E e \in sent : AckUnknown(e)
           \/ \E l \in Links : Pay(l) \/ FailToPay(l) \/ Refund(l)
           \/ Connect \/ Disconnect \/ UNCHANGED vars
  BY <1>2, <1>3 DEF DeleteQuote, AckUnknown, Pay, FailToPay, Refund, Connect,
     Disconnect, vars
<1> QED
  BY <1>1, <1>3, ExternalBacked, WriteBacked, DashboardBacked, ReceiveBacked
  DEF Next

\* Stripe reports only what happened, and it stays happened.
LEMMA EventsBacked ==
  ASSUME TypeOK, BackedInv, [Next]_vars
  PROVE  \A e \in sent' : EventIsTrue(plink', e)
<1> SUFFICES ASSUME NEW e \in sent' PROVE EventIsTrue(plink', e)
  OBVIOUS
<1>1. Monotone(plink, plink') /\ MoneyNeedsLink(plink)
  BY StripeMonotone DEF BackedInv
<1>2. CASE e \in sent
  <2>1. e[1] \in Links /\ EventIsTrue(plink, e)
    BY <1>2 DEF TypeOK, Event, BackedInv
  <2> QED
    BY <1>1, <2>1 DEF EventIsTrue, Monotone, MoneyNeedsLink
<1>3. ASSUME NEW l \in Links, e \notin sent,
             Pay(l) \/ FailToPay(l) \/ Refund(l)
      PROVE  EventIsTrue(plink', e)
  BY <1>3 DEF TypeOK, Pay, FailToPay, Refund, Report, EventIsTrue, PaymentLink
<1>4. (\E l \in Links : Pay(l) \/ FailToPay(l) \/ Refund(l)) \/ sent' = sent
  <2>1. ASSUME NEW w \in Workers, External(w)
        PROVE  sent' = sent
    BY <2>1 DEF External, NoNewLink, NewLink, LostLink, Deactivated,
       NotDeactivated, NotMailed, Mailed, MailedUnnoticed, ReadForNotice,
       SendNotice, NoticeFails
  <2>2. ASSUME NEW w \in Workers, Write(w)
        PROVE  sent' = sent
    BY <2>2 DEF Write, Flush, CommitNothing, CommitRow, StaleRow
  <2>3. ASSUME NEW w \in Workers, NEW q \in Quotes, Dashboard(w, q)
        PROVE  sent' = sent
    BY <2>3 DEF Dashboard, SetStatus, Approve, ManualPrice, CreatePaymentLink,
       CancelPaymentLink, RequestNotice, Load
  <2>4. ASSUME \/ \E w \in Workers, k \in sent : Receive(w, k)
               \/ \E q \in Quotes : DeleteQuote(q)
               \/ \E k \in sent : AckUnknown(k)
               \/ Connect \/ Disconnect \/ Crash
        PROVE  sent' = sent
    BY <2>4 DEF Receive, DeleteQuote, AckUnknown, Connect, Disconnect, Crash
  <2>5. CASE UNCHANGED vars
    BY <2>5 DEF vars
  <2> QED
    BY <2>1, <2>2, <2>3, <2>4, <2>5 DEF Next
<1> QED
  BY <1>2, <1>3, <1>4

LEMMA InitBacked == Init => BackedInv
<1> SUFFICES ASSUME Init PROVE BackedInv
  OBVIOUS
<1>1. \A s, p : NewRow(s, p).link = None /\ NewRow(s, p).pay = "none"
  BY DEF NewRow
<1>2. \A q \in Quotes : rows[q].link = None /\ rows[q].pay = "none"
  BY <1>1 DEF Init
<1> QED
  BY <1>2 DEF Init, BackedInv, Backed, Idle, MoneyNeedsLink

(***************************************************************************)
(* stripe_push.py, create_payment_link: what a row, a running handler or   *)
(* an event in flight says about Stripe is true there, for any number of   *)
(* handlers, quotes and links, in any interleaving and across restarts.    *)
(***************************************************************************)
THEOREM StripeClaimsAreTrue == Spec => []BackedInv
<1>1. TypeOK /\ TypeOK' /\ BackedInv /\ [Next]_vars => BackedInv'
  BY RowsBacked, RequestsBacked, EventsBacked, StripeMonotone
  DEF BackedInv, ClaimsHold, ReqBacked
<1> QED
  BY <1>1, InitBacked, TypeCorrect, PTL DEF Spec

(***************************************************************************)
(* create_link_for_quote: the link on a row was issued for that quote.     *)
(***************************************************************************)
THEOREM LinksBelong == Spec => []LinkIsForItsQuote
<1>1. TypeOK /\ BackedInv => LinkIsForItsQuote
  BY DEF TypeOK, BackedInv, Backed, LinkIsForItsQuote
<1> QED
  BY <1>1, TypeCorrect, StripeClaimsAreTrue, PTL

(***************************************************************************)
(* apply_webhook_event: no row says paid, or refunded, unless the customer *)
(* paid, or was refunded, on a link of that quote.                         *)
(***************************************************************************)
THEOREM PaymentsAreReal == Spec => []NoPhantomPayment
<1>1. TypeOK /\ BackedInv => NoPhantomPayment
  <2> SUFFICES ASSUME TypeOK, BackedInv, NEW q \in present
               PROVE  /\ rows[q].pay = "paid" =>
                           MoneyOf(q) \cap {"paid", "refunded"} # {}
                      /\ rows[q].pay = "refunded" => "refunded" \in MoneyOf(q)
    BY DEF NoPhantomPayment
  <2>1. Backed(plink, q, rows[q])
    BY DEF TypeOK, BackedInv
  <2>2. \A l \in Links : plink[l].quote = q => plink[l].money \in MoneyOf(q)
    BY DEF MoneyOf
  <2> QED
    BY <2>1, <2>2 DEF Backed
<1> QED
  BY <1>1, TypeCorrect, StripeClaimsAreTrue, PTL

-----------------------------------------------------------------------------
\* A step of w that leaves the others alone and does not begin an email.
QuietStep(w) ==
  /\ \A v \in Workers \ {w} : req'[v] = req[v]
  /\ req'[w].pc # "mail"

LEMMA QuietSteps ==
  ASSUME TypeOK, NEW w \in Workers
  PROVE  /\ \A pc \in {"flush", "commit", "notify"} : Goto(w, pc) => QuietStep(w)
         /\ \A pc \in {"flush", "commit"} : \A obj : Continue(w, pc, obj) => QuietStep(w)
         /\ Finish(w) => QuietStep(w)
<1>1. ASSUME NEW pc \in {"flush", "commit", "notify"}, Goto(w, pc)
      PROVE  QuietStep(w)
  BY <1>1 DEF TypeOK, Request, Goto, QuietStep
<1>2. ASSUME NEW pc \in {"flush", "commit"}, NEW obj, Continue(w, pc, obj)
      PROVE  QuietStep(w)
  BY <1>2 DEF TypeOK, Request, Continue, QuietStep
<1>3. ASSUME Finish(w)
      PROVE  QuietStep(w)
  BY <1>3 DEF TypeOK, Finish, Idle, QuietStep
<1> QED
  BY <1>1, <1>2, <1>3

LEMMA LoadQuiet ==
  ASSUME TypeOK, NEW w \in Workers, NEW op, NEW q, NEW obj,
         NEW pc \in {"stripe", "deactivate", "commit", "notify"},
         Load(w, op, pc, q, obj)
  PROVE  QuietStep(w) /\ lock' = lock /\ present' = present
BY DEF TypeOK, Load, QuietStep, db

LEMMA LockStep ==
  ASSUME TypeOK, LockProtectsMail, [Next]_vars
  PROVE  LockProtectsMail'
<1> DEFINE Safe(v) == req'[v].pc = "mail" => /\ lock'[req'[v].quote] = v
                                             /\ req'[v].quote \in present'
<1> SUFFICES ASSUME NEW v \in Workers PROVE Safe(v)
  BY DEF LockProtectsMail
<1>1. req[v].pc = "mail" => /\ lock[req[v].quote] = v
                            /\ req[v].quote \in present
                            /\ req[v].quote \in Quotes
  BY DEF LockProtectsMail, TypeOK
<1>2. ASSUME NEW w \in Workers, QuietStep(w), lock' = lock, present' = present
      PROVE  Safe(v)
  BY <1>1, <1>2 DEF QuietStep
<1>3. ASSUME NEW w \in Workers, External(w)
      PROVE  Safe(v)
  <2>1. lock' = lock /\ present' = present
    BY <1>3 DEF External, NoNewLink, NewLink, LostLink, Deactivated,
       NotDeactivated, NotMailed, Mailed, MailedUnnoticed, ReadForNotice,
       SendNotice, NoticeFails, db
  <2>2. CASE ReadForNotice(w)
    <3>1. QuietStep(w)
      BY <2>2, QuietSteps DEF ReadForNotice, QuietStep, TypeOK, Request
    <3> QED
      BY <1>2, <2>1, <3>1
  <2>3. CASE External(w) /\ ~ReadForNotice(w)
    <3>1. AfterStripe(w) \in {"flush", "commit"}
      BY DEF AfterStripe
    <3>2. QuietStep(w)
      BY <2>3, <3>1, QuietSteps
      DEF External, NoNewLink, NewLink, LostLink, Deactivated, NotDeactivated,
          NotMailed, Mailed, MailedUnnoticed, SendNotice, NoticeFails
    <3> QED
      BY <1>2, <2>1, <3>2
  <2> QED
    BY <1>3, <2>2, <2>3
<1>4. ASSUME NEW w \in Workers, Flush(w)
      PROVE  Safe(v)
  <2> DEFINE q == req[w].quote
  <2>1. /\ q \in Quotes /\ q \in present /\ lock[q] = None /\ v # None
        /\ lock' = [lock EXCEPT ![q] = w] /\ present' = present
        /\ req' = [req EXCEPT ![w].pc = "mail"]
    BY <1>4, QAAssumption DEF Flush, Goto, TypeOK, QAAssumption
  <2>2. CASE v = w
    BY <2>1, <2>2 DEF TypeOK, Request
  <2>3. CASE v # w
    BY <1>1, <2>1, <2>3 DEF TypeOK
  <2> QED
    BY <2>2, <2>3
<1>5. ASSUME NEW w \in Workers, CommitRow(w)
      PROVE  Safe(v)
  <2> DEFINE q == req[w].quote
  <2>1. /\ lock[q] \in {None, w} /\ v # None
        /\ lock' = [lock EXCEPT ![q] = None] /\ present' = present
    BY <1>5, QAAssumption DEF CommitRow, QAAssumption
  <2>2. QuietStep(w)
    BY <1>5, QuietSteps DEF CommitRow, Committed
  <2> QED
    BY <1>1, <2>1, <2>2 DEF QuietStep, TypeOK
<1>6. ASSUME NEW w \in Workers, CommitNothing(w) \/ StaleRow(w)
      PROVE  Safe(v)
  BY <1>2, <1>6, QuietSteps DEF CommitNothing, StaleRow, Committed, db
<1>7. ASSUME NEW w \in Workers, NEW q \in Quotes, Dashboard(w, q)
      PROVE  Safe(v)
  BY <1>2, <1>7, LoadQuiet
  DEF Dashboard, SetStatus, Approve, ManualPrice, CreatePaymentLink,
      CancelPaymentLink, RequestNotice
<1>8. ASSUME NEW w \in Workers, NEW e \in sent, Receive(w, e)
      PROVE  Safe(v)
  <2>1. QuietStep(w) /\ lock' = lock /\ present' = present
    BY <1>8 DEF Receive, TypeOK, QuietStep, db
  <2> QED
    BY <1>2, <2>1
<1>9. ASSUME NEW q \in Quotes, DeleteQuote(q)
      PROVE  Safe(v)
  BY <1>1, <1>9, QAAssumption DEF DeleteQuote, QAAssumption
<1>10. CASE Crash
  BY <1>10 DEF Crash, Idle
<1>11. CASE \/ \E e \in sent : AckUnknown(e)
            \/ \E l \in Links : Pay(l) \/ FailToPay(l) \/ Refund(l)
            \/ Connect \/ Disconnect \/ UNCHANGED vars
  BY <1>1, <1>11 DEF AckUnknown, Pay, FailToPay, Refund, Connect, Disconnect,
     vars, db
<1> QED
  BY <1>3, <1>4, <1>5, <1>6, <1>7, <1>8, <1>9, <1>10, <1>11 DEF Next, Write

(***************************************************************************)
(* The flush of update_quote before send_quote_draft: a handler talking to *)
(* Missive holds its row, and the row cannot be deleted under it.          *)
(***************************************************************************)
THEOREM MailUnderLock == Spec => []LockProtectsMail
<1>1. Init => LockProtectsMail
  BY DEF Init, LockProtectsMail, Idle
<1> QED
  BY <1>1, LockStep, TypeCorrect, PTL DEF Spec
-----------------------------------------------------------------------------
(***************************************************************************)
(* The steps of a handler, seen on its request: it goes on to pc with the  *)
(* copy obj, it ends, or it begins with a row just loaded.                 *)
(***************************************************************************)
Others(w) == \A v \in Workers \ {w} : req'[v] = req[v]

Goes(w, pc, obj) ==
  /\ req'[w].pc = pc /\ req'[w].obj = obj
  /\ req'[w].op = req[w].op /\ req'[w].quote = req[w].quote
  /\ req'[w].snap = req[w].snap
  /\ Others(w)

Ends(w) == req'[w] = Idle /\ Others(w)

Begins(w, op, pc, q, obj) ==
  /\ req'[w].pc = pc /\ req'[w].obj = obj
  /\ req'[w].op = op /\ req'[w].quote = q
  /\ req'[w].snap = rows[q]
  /\ Others(w)

LEMMA GotoDoes ==
  ASSUME TypeOK, NEW w \in Workers, NEW pc, Goto(w, pc)
  PROVE  Goes(w, pc, req[w].obj)
BY DEF TypeOK, Request, Goto, Goes, Others

LEMMA ContinueDoes ==
  ASSUME TypeOK, NEW w \in Workers, NEW pc, NEW obj, Continue(w, pc, obj)
  PROVE  Goes(w, pc, obj)
BY DEF TypeOK, Request, Continue, Goes, Others

LEMMA FinishDoes ==
  ASSUME TypeOK, NEW w \in Workers, Finish(w)
  PROVE  Ends(w)
BY DEF TypeOK, Finish, Ends, Others

LEMMA LoadDoes ==
  ASSUME TypeOK, NEW w \in Workers, NEW op, NEW pc, NEW q, NEW obj,
         Load(w, op, pc, q, obj)
  PROVE  Begins(w, op, pc, q, obj)
BY DEF TypeOK, Load, Begins, Others

LEMMA ReceiveDoes ==
  ASSUME TypeOK, NEW w \in Workers, NEW e \in sent, Receive(w, e)
  PROVE  Begins(w, "webhook", "commit", plink[e[1]].quote,
                Apply(rows[plink[e[1]].quote], e[2]))
BY DEF TypeOK, Receive, Begins, Others

\* The reading of the row for the notice: a new request on the same quote.
LEMMA ReadDoes ==
  ASSUME TypeOK, NEW w \in Workers, ReadForNotice(w)
  PROVE  \/ Begins(w, "notice", "notice", req[w].quote, rows[req[w].quote])
            /\ req[w].quote \in present
         \/ Ends(w)
<1> DEFINE q == req[w].quote
<1>1. CASE q \in present /\ ~rows[q].notified
  BY <1>1 DEF TypeOK, Request, ReadForNotice, Begins, Others
<1>2. CASE ~(q \in present /\ ~rows[q].notified)
  BY <1>2, FinishDoes DEF ReadForNotice
<1> QED BY <1>1, <1>2

-----------------------------------------------------------------------------
(***************************************************************************)
(* What a handler made of its copy.  A copy's link differs from the loaded *)
(* one only because a link was made where none was, or because the loaded  *)
(* one was switched off; its draft id only because the email went out.     *)
(***************************************************************************)
Route(r) ==
  /\ r.pc = "idle" => r = Idle
  /\ r.pc = "stripe" => r.op \in {"approve", "link"}
  /\ r.pc = "deactivate" => r.op = "cancel"
  /\ r.pc \in {"flush", "mail"} => r.op = "approve"
  /\ r.pc = "notify" => r.op \in {"price", "notice"}
  /\ r.pc = "notice" => r.op = "notice"

Relinked(r) == r.snap.link = None /\ r.obj.link # None

Work(pl, r) ==
  /\ r.obj.link # r.snap.link =>
       /\ r.op \in {"approve", "link", "cancel"}
       /\ r.pc \in {"flush", "mail", "commit"}
       /\ \/ r.snap.link = None
          \/ r.obj.link = None /\ pl[r.snap.link].state = "inactive"
  /\ r.obj.draft # r.snap.draft =>
       r.obj.draft /\ r.op = "approve" /\ r.pc = "commit"
  /\ r.obj.pay # r.snap.pay => r.op \in {"approve", "link", "cancel", "webhook"}
  /\ r.snap.pay = "paid" => r.obj.pay \in {"paid", "refunded"} \/ Relinked(r)

Works(pl, r) == Route(r) /\ Work(pl, r)

WorkInv == \A w \in Workers : Works(plink, req[w])

LEMMA IdleWorks == \A pl : Works(pl, Idle)
BY DEF Works, Route, Work, Idle, NewRow

\* A link that was switched off is never switched on again.
LEMMA OffStaysOff ==
  ASSUME TypeOK, [Next]_vars, NEW l \in Links, plink[l].state = "inactive"
  PROVE  plink'[l].state = "inactive"
<1>1. ASSUME NEW k \in Links, NEW w \in Workers, NewLink(w, k) \/ LostLink(w, k)
      PROVE  plink'[l].state = "inactive"
  BY <1>1 DEF TypeOK, NewLink, LostLink, Issue, PaymentLink
<1>2. ASSUME NEW w \in Workers, Deactivated(w)
      PROVE  plink'[l].state = "inactive"
  <2>1. req[w].obj.link \in Links
    BY <1>2 DEF TypeOK, RequestOK, Deactivated
  <2> QED
    BY <1>2, <2>1 DEF TypeOK, Deactivated, PaymentLink
<1>3. ASSUME NEW k \in Links, Pay(k) \/ FailToPay(k) \/ Refund(k)
      PROVE  plink'[l].state = "inactive"
  BY <1>3 DEF TypeOK, Pay, FailToPay, Refund, PaymentLink, ext
<1>4. ASSUME NEW w \in Workers, External(w)
      PROVE  plink'[l].state = "inactive"
  <2>1. \/ \E k \in Links : NewLink(w, k) \/ LostLink(w, k)
        \/ Deactivated(w)
        \/ plink' = plink
    BY <1>4 DEF External, NoNewLink, NotDeactivated, NotMailed, Mailed,
                MailedUnnoticed, ReadForNotice, SendNotice, NoticeFails, ext
  <2> QED
    BY <1>1, <1>2, <2>1
<1>5. ASSUME NEW w \in Workers, Write(w)
      PROVE  plink' = plink
  BY <1>5 DEF Write, Flush, CommitNothing, CommitRow, StaleRow, ext
<1>6. ASSUME NEW w \in Workers, NEW q \in Quotes, Dashboard(w, q)
      PROVE  plink' = plink
  BY <1>6 DEF Dashboard, SetStatus, Approve, ManualPrice, CreatePaymentLink,
              CancelPaymentLink, RequestNotice, Load, ext
<1>7. ASSUME NEW w \in Workers, NEW e \in sent, Receive(w, e)
      PROVE  plink' = plink
  BY <1>7 DEF Receive, ext
<1>8. ASSUME \/ \E q \in Quotes : DeleteQuote(q)
             \/ \E e \in sent : AckUnknown(e)
             \/ Connect \/ Disconnect \/ Crash
      PROVE  plink' = plink
  BY <1>8 DEF DeleteQuote, AckUnknown, Connect, Disconnect, Crash, ext
<1>9. CASE UNCHANGED vars
  BY <1>9 DEF vars
<1> QED
  BY <1>3, <1>4, <1>5, <1>6, <1>7, <1>8, <1>9 DEF Next

\* The others' claims about their links stand.
LEMMA OthersWork ==
  ASSUME TypeOK, [Next]_vars, WorkInv, NEW v \in Workers, req'[v] = req[v]
  PROVE  Works(plink', req'[v])
<1>1. Works(plink, req[v]) /\ req[v].snap \in Row /\ req[v].obj \in Row
  BY DEF WorkInv, TypeOK, Request
<1>2. req[v].snap.link \in Links \cup {None}
  BY <1>1 DEF Row
<1>3. req[v].snap.link \in Links /\ plink[req[v].snap.link].state = "inactive"
        => plink'[req[v].snap.link].state = "inactive"
  BY OffStaysOff
<1> QED
  BY <1>1, <1>2, <1>3 DEF Works, Work

LEMMA WorkOfOne ==
  ASSUME TypeOK, [Next]_vars, WorkInv, NEW w \in Workers, Others(w),
         Works(plink', req'[w])
  PROVE  WorkInv'
<1> SUFFICES ASSUME NEW v \in Workers PROVE Works(plink', req'[v])
  BY DEF WorkInv
<1>1. CASE v = w BY <1>1
<1>2. CASE v # w
  <2>1. req'[v] = req[v] BY <1>2 DEF Others
  <2> QED BY <2>1, OthersWork
<1> QED BY <1>1, <1>2

LEMMA WorkExternal ==
  ASSUME TypeOK, TypeOK', [Next]_vars, WorkInv, NEW w \in Workers, External(w)
  PROVE  WorkInv'
<1> DEFINE r == req[w]
<1>1. /\ Works(plink, r) /\ r.snap \in Row /\ r.obj \in Row
      /\ r.snap.link \in Links \cup {None}
  BY DEF WorkInv, TypeOK, Request, Row
<1>2. /\ AfterStripe(w) \in {"flush", "commit"}
      /\ AfterStripe(w) = "flush" => r.op = "approve"
  BY DEF AfterStripe
<1>3. r.snap.link \in Links /\ plink[r.snap.link].state = "inactive"
        => plink'[r.snap.link].state = "inactive"
  BY OffStaysOff
\* The copy is as it was, and an answer of the outside world is in.
<1>4. ASSUME NEW pc \in {"flush", "commit"}, Goes(w, pc, r.obj),
             r.pc \in {"stripe", "deactivate", "mail"},
             pc = "flush" => r.op = "approve"
      PROVE  WorkInv'
  <2>1. Works(plink', req'[w])
    BY <1>1, <1>3, <1>4 DEF Works, Route, Work, Goes, Relinked
  <2> QED BY <1>4, <2>1, WorkOfOne DEF Goes
<1>5. CASE NoNewLink(w)
  BY <1>2, <1>4, <1>5, GotoDoes DEF NoNewLink
<1>6. ASSUME NEW l \in Links, NewLink(w, l)
      PROVE  WorkInv'
  <2> DEFINE obj == [r.obj EXCEPT !.link = l, !.pay = "unpaid"]
  <2>1. obj.link = l /\ obj.pay = "unpaid" /\ obj.draft = r.obj.draft
    BY <1>1 DEF Row
  <2>2. Goes(w, AfterStripe(w), obj) /\ r.pc = "stripe" /\ r.obj.link = None
        /\ l # None
    BY <1>6, ContinueDoes, QAAssumption DEF NewLink, LinkWanted, QAAssumption
  <2> HIDE DEF obj
  <2>3. Works(plink', req'[w])
    BY <1>1, <1>2, <2>1, <2>2 DEF Works, Route, Work, Goes, Relinked
  <2> QED BY <2>2, <2>3, WorkOfOne DEF Goes
<1>7. ASSUME NEW l \in Links, LostLink(w, l)
      PROVE  WorkInv'
  BY <1>2, <1>4, <1>7, GotoDoes DEF LostLink, LinkWanted
<1>8. CASE Deactivated(w)
  <2>1. CASE Goto(w, "commit")
    BY <1>4, <1>8, <2>1, GotoDoes DEF Deactivated
  <2>2. CASE Continue(w, "commit", Unlinked(r.obj))
    <3> DEFINE obj == Unlinked(r.obj)
    <3>1. /\ obj.link = None /\ obj.draft = r.obj.draft
          /\ r.obj.pay \in {"paid", "refunded"} => obj.pay = r.obj.pay
      BY <1>1 DEF Row, Unlinked
    <3>2. Goes(w, "commit", obj) /\ r.pc = "deactivate" /\ r.obj.link \in Links
      BY <1>8, <2>2, ContinueDoes DEF Deactivated, TypeOK, RequestOK
    <3>3. plink'[r.obj.link].state = "inactive"
      BY <1>8, <3>2 DEF Deactivated, TypeOK, PaymentLink
    <3> HIDE DEF obj
    <3>4. Works(plink', req'[w])
      BY <1>1, <3>1, <3>2, <3>3, QAAssumption
      DEF Works, Route, Work, Goes, Relinked, QAAssumption
    <3> QED BY <3>2, <3>4, WorkOfOne DEF Goes
  <2> QED BY <1>8, <2>1, <2>2 DEF Deactivated
<1>9. CASE NotDeactivated(w)
  BY <1>4, <1>9, GotoDoes DEF NotDeactivated
<1>10. CASE NotMailed(w)
  BY <1>4, <1>10, GotoDoes DEF NotMailed
<1>11. CASE Mailed(w)
  <2> DEFINE obj == [r.obj EXCEPT !.draft = TRUE]
  <2>1. obj.link = r.obj.link /\ obj.pay = r.obj.pay /\ obj.draft = TRUE
    BY <1>1 DEF Row
  <2>2. Goes(w, "commit", obj) /\ r.pc = "mail"
    BY <1>11, ContinueDoes DEF Mailed, SendMail
  <2> HIDE DEF obj
  <2>3. Works(plink', req'[w])
    BY <1>1, <1>3, <2>1, <2>2 DEF Works, Route, Work, Goes, Relinked
  <2> QED BY <2>2, <2>3, WorkOfOne DEF Goes
<1>12. CASE MailedUnnoticed(w)
  BY <1>4, <1>12, GotoDoes DEF MailedUnnoticed, SendMail
<1>13. ASSUME Ends(w)
       PROVE  WorkInv'
  BY <1>13, IdleWorks, WorkOfOne DEF Ends
<1>14. CASE ReadForNotice(w)
  <2>1. CASE Ends(w) BY <1>13, <2>1
  <2>2. CASE Begins(w, "notice", "notice", r.quote, rows[r.quote])
    <3>1. Works(plink', req'[w])
      BY <2>2 DEF Works, Route, Work, Begins, Relinked
    <3> QED BY <2>2, <3>1, WorkOfOne DEF Begins
  <2> QED BY <1>14, <2>1, <2>2, ReadDoes
<1>15. CASE SendNotice(w)
  <2> DEFINE obj == [r.obj EXCEPT !.notified = TRUE]
  <2>1. obj.link = r.obj.link /\ obj.pay = r.obj.pay /\ obj.draft = r.obj.draft
    BY <1>1 DEF Row
  <2>2. Goes(w, "commit", obj) /\ r.pc = "notice"
    BY <1>15, ContinueDoes DEF SendNotice
  <2> HIDE DEF obj
  <2>3. Works(plink', req'[w])
    BY <1>1, <1>3, <2>1, <2>2 DEF Works, Route, Work, Goes, Relinked
  <2> QED BY <2>2, <2>3, WorkOfOne DEF Goes
<1>16. CASE NoticeFails(w)
  BY <1>13, <1>16, FinishDoes DEF NoticeFails
<1> QED
  BY <1>5, <1>6, <1>7, <1>8, <1>9, <1>10, <1>11, <1>12, <1>14, <1>15, <1>16
  DEF External

LEMMA WorkWrite ==
  ASSUME TypeOK, TypeOK', [Next]_vars, WorkInv, NEW w \in Workers, Write(w)
  PROVE  WorkInv'
<1> DEFINE r == req[w]
<1>1. Works(plink, r) /\ r.snap.link \in Links \cup {None}
  BY DEF WorkInv, TypeOK, Request, Row
<1>2. r.snap.link \in Links /\ plink[r.snap.link].state = "inactive"
        => plink'[r.snap.link].state = "inactive"
  BY OffStaysOff
<1>3. ASSUME Ends(w)
      PROVE  WorkInv'
  BY <1>3, IdleWorks, WorkOfOne DEF Ends
<1>4. CASE Flush(w)
  <2>1. Goes(w, "mail", r.obj) /\ r.pc = "flush"
    BY <1>4, GotoDoes DEF Flush
  <2>2. Works(plink', req'[w])
    BY <1>1, <1>2, <2>1 DEF Works, Route, Work, Goes, Relinked
  <2> QED BY <2>1, <2>2, WorkOfOne DEF Goes
<1>5. ASSUME Committed(w), r.pc = "commit"
      PROVE  WorkInv'
  <2>1. CASE r.op = "price"
    <3>1. Goes(w, "notify", r.obj)
      BY <1>5, <2>1, GotoDoes DEF Committed
    <3>2. Works(plink', req'[w])
      BY <1>1, <2>1, <3>1 DEF Works, Route, Work, Goes, Relinked
    <3> QED BY <3>1, <3>2, WorkOfOne DEF Goes
  <2>2. CASE r.op # "price"
    BY <1>3, <1>5, <2>2, FinishDoes DEF Committed
  <2> QED BY <2>1, <2>2
<1>6. CASE CommitNothing(w) \/ CommitRow(w)
  BY <1>5, <1>6 DEF CommitNothing, CommitRow
<1>7. CASE StaleRow(w)
  BY <1>3, <1>7, FinishDoes DEF StaleRow
<1> QED BY <1>4, <1>6, <1>7 DEF Write

\* A request begins with a copy that has the row's link, draft and payment.
LEMMA WorkLoad ==
  ASSUME TypeOK, TypeOK', [Next]_vars, WorkInv, NEW w \in Workers,
         NEW op, NEW pc, NEW q \in Quotes, NEW obj, Load(w, op, pc, q, obj),
         obj.link = rows[q].link, obj.draft = rows[q].draft,
         obj.pay = rows[q].pay, pc # "idle",
         pc = "stripe" => op \in {"approve", "link"},
         pc = "deactivate" => op = "cancel",
         pc \notin {"flush", "mail", "notice"},
         pc = "notify" => op \in {"price", "notice"}
  PROVE  WorkInv'
<1>1. Begins(w, op, pc, q, obj)
  BY LoadDoes
<1>2. Works(plink', req'[w])
  BY <1>1 DEF Works, Route, Work, Begins, Relinked
<1> QED BY <1>1, <1>2, WorkOfOne DEF Begins

LEMMA WorkDashboard ==
  ASSUME TypeOK, TypeOK', [Next]_vars, WorkInv, NEW w \in Workers,
         NEW q \in Quotes, Dashboard(w, q)
  PROVE  WorkInv'
<1>1. rows[q] \in Row
  BY DEF TypeOK
<1>2. ASSUME NEW s \in Targets, SetStatus(w, q, s)
      PROVE  WorkInv'
  <2> DEFINE obj == [rows[q] EXCEPT !.status = s]
  <2>1. /\ obj.link = rows[q].link /\ obj.draft = rows[q].draft
        /\ obj.pay = rows[q].pay
    BY <1>1 DEF Row
  <2>2. Load(w, "status", "commit", q, obj)
    BY <1>2 DEF SetStatus
  <2> HIDE DEF obj
  <2> QED BY <2>1, <2>2, WorkLoad
<1>3. CASE Approve(w, q)
  <2> DEFINE obj == [rows[q] EXCEPT !.status = "approved"]
  <2>1. /\ obj.link = rows[q].link /\ obj.draft = rows[q].draft
        /\ obj.pay = rows[q].pay
    BY <1>1 DEF Row
  <2>2. Load(w, "approve", "stripe", q, obj)
    BY <1>3 DEF Approve
  <2> HIDE DEF obj
  <2> QED BY <2>1, <2>2, WorkLoad
<1>4. ASSUME NEW p \in Prices, ManualPrice(w, q, p)
      PROVE  WorkInv'
  <2> DEFINE obj == [rows[q] EXCEPT !.price = p, !.notified = FALSE,
                                    !.status = "pending_approval"]
  <2>1. /\ obj.link = rows[q].link /\ obj.draft = rows[q].draft
        /\ obj.pay = rows[q].pay
    BY <1>1 DEF Row
  <2>2. Load(w, "price", "commit", q, obj)
    BY <1>4 DEF ManualPrice
  <2> HIDE DEF obj
  <2> QED BY <2>1, <2>2, WorkLoad
<1>5. CASE CreatePaymentLink(w, q) \/ CancelPaymentLink(w, q)
           \/ RequestNotice(w, q)
  BY <1>5, WorkLoad DEF CreatePaymentLink, CancelPaymentLink, RequestNotice
<1> QED
  BY <1>2, <1>3, <1>4, <1>5 DEF Dashboard

LEMMA ApplyKeeps ==
  ASSUME NEW row \in Row, NEW type \in {"paid", "failed", "refunded"}
  PROVE  /\ Apply(row, type).link = row.link
         /\ Apply(row, type).draft = row.draft
         /\ row.pay = "paid" => Apply(row, type).pay \in {"paid", "refunded"}
BY DEF Apply, Row

LEMMA WorkReceive ==
  ASSUME TypeOK, TypeOK', [Next]_vars, WorkInv, NEW w \in Workers,
         NEW e \in sent, Receive(w, e)
  PROVE  WorkInv'
<1> DEFINE q == plink[e[1]].quote
           obj == Apply(rows[q], e[2])
<1>1. rows[q] \in Row /\ e[2] \in {"paid", "failed", "refunded"}
  BY DEF TypeOK, Receive, Event
<1>2. /\ obj.link = rows[q].link /\ obj.draft = rows[q].draft
      /\ rows[q].pay = "paid" => obj.pay \in {"paid", "refunded"}
  BY <1>1, ApplyKeeps
<1>3. Begins(w, "webhook", "commit", q, obj)
  BY ReceiveDoes
<1> HIDE DEF q, obj
<1>4. Works(plink', req'[w])
  BY <1>2, <1>3 DEF Works, Route, Work, Begins, Relinked
<1> QED BY <1>3, <1>4, WorkOfOne DEF Begins

LEMMA WorkStep ==
  ASSUME TypeOK, TypeOK', [Next]_vars, WorkInv
  PROVE  WorkInv'
<1>1. CASE Crash
  BY <1>1, IdleWorks DEF Crash, WorkInv
<1>2. ASSUME req' = req
      PROVE  WorkInv'
  <2>1. \A v \in Workers : req'[v] = req[v] BY <1>2
  <2> QED BY <2>1, OthersWork DEF WorkInv
<1>3. CASE \/ \E q \in Quotes : DeleteQuote(q)
           \/ \E e \in sent : AckUnknown(e)
           \/ \E l \in Links : Pay(l) \/ FailToPay(l) \/ Refund(l)
           \/ Connect \/ Disconnect \/ UNCHANGED vars
  BY <1>2, <1>3 DEF DeleteQuote, AckUnknown, Pay, FailToPay, Refund, Connect,
     Disconnect, vars
<1> QED
  BY <1>1, <1>3, WorkExternal, WorkWrite, WorkDashboard, WorkReceive DEF Next
-----------------------------------------------------------------------------
(***************************************************************************)
(* One staff request at a time: what it loaded is still on the row, for    *)
(* events of Stripe write the payment status only.  If no event came       *)
(* between either, the payment status it loaded is on the row, too.        *)
(***************************************************************************)
Staff(w, q) == req[w].quote = q /\ req[w].op # "webhook"

Fresh(q) ==
  /\ \A v, w \in Workers : Staff(v, q) /\ Staff(w, q) => v = w
  /\ \A w \in Workers : Staff(w, q) => /\ req[w].snap.link = rows[q].link
                                       /\ req[w].snap.draft = rows[q].draft

Only(q) ==
  /\ \A v, w \in Workers : req[v].quote = q /\ req[w].quote = q => v = w
  /\ \A w \in Workers : req[w].quote = q => req[w].snap.pay = rows[q].pay

FreshInv ==
  /\ \A q \in Quotes \ used.crowded : Fresh(q)
  /\ \A q \in Quotes \ (used.crowded \cup used.crossed) : Only(q)

Crowds == used'.crowded = used.crowded /\ used'.crossed = used.crossed

LEMMA CrowdsStay ==
  ASSUME TypeOK,
         \/ \E w \in Workers : External(w) \/ Write(w)
         \/ \E q \in Quotes : DeleteQuote(q)
         \/ \E e \in sent : AckUnknown(e)
         \/ \E l \in Links : Pay(l) \/ FailToPay(l) \/ Refund(l)
         \/ Connect \/ Disconnect \/ Crash \/ UNCHANGED vars
  PROVE  Crowds
<1>1. ASSUME NEW w \in Workers, External(w)
      PROVE  Crowds
  <2>1. used' = used \/ \E n \in Nat : used' = [used EXCEPT !.lost = n]
    <3>1. used.lost + 1 \in Nat BY DEF TypeOK
    <3> QED
      BY <1>1, <3>1 DEF External, NoNewLink, NewLink, LostLink, Deactivated,
         NotDeactivated, NotMailed, Mailed, MailedUnnoticed, ReadForNotice,
         SendNotice, NoticeFails
  <2> QED BY <2>1 DEF TypeOK, Crowds
<1>2. ASSUME NEW w \in Workers, Write(w)
      PROVE  Crowds
  BY <1>2 DEF Write, Flush, CommitNothing, CommitRow, StaleRow, Crowds
<1>3. ASSUME \/ \E q \in Quotes : DeleteQuote(q)
             \/ \E e \in sent : AckUnknown(e)
             \/ \E l \in Links : Pay(l) \/ FailToPay(l) \/ Refund(l)
             \/ Connect \/ Disconnect \/ UNCHANGED vars
      PROVE  Crowds
  BY <1>3 DEF DeleteQuote, AckUnknown, Pay, FailToPay, Refund, Connect,
     Disconnect, vars, Crowds
<1>4. CASE Crash
  BY <1>4 DEF Crash, TypeOK, Crowds
<1> QED BY <1>1, <1>2, <1>3, <1>4

\* A request begins: it crowds, or crosses, the one that is there.
LEMMA LoadCrowds ==
  ASSUME TypeOK, NEW w \in Workers, NEW op, NEW pc, NEW q, NEW obj,
         Load(w, op, pc, q, obj)
  PROVE  /\ used'.crowded = used.crowded \cup {p \in {q} : Staffed(p)}
         /\ used'.crossed = used.crossed \cup {p \in {q} : Hooked(p)}
         /\ used'.lost = used.lost /\ used'.crashes = used.crashes
BY DEF TypeOK, Load

LEMMA ReceiveCrowds ==
  ASSUME TypeOK, NEW w \in Workers, NEW e \in sent, Receive(w, e)
  PROVE  LET q == plink[e[1]].quote IN
         /\ used'.crowded = used.crowded
         /\ used'.crossed
              = used.crossed \cup {p \in {q} : Staffed(p) \/ Hooked(p)}
         /\ used'.lost = used.lost /\ used'.crashes = used.crashes
BY DEF TypeOK, Receive

\* The columns a commit leaves on the row.
LEMMA RowWritten ==
  ASSUME TypeOK, WorkInv, NEW w \in Workers, CommitRow(w)
  PROVE  LET r == req[w]
             q == req[w].quote
         IN /\ q \in Quotes /\ q \in present
            /\ \A p \in Quotes \ {q} : rows'[p] = rows[p]
            /\ rows'[q].link = Changed(r.snap.link, r.obj.link, rows[q].link)
            /\ rows'[q].draft = Changed(r.snap.draft, r.obj.draft, rows[q].draft)
            /\ rows'[q].pay = Changed(r.snap.pay, r.obj.pay, rows[q].pay)
<1> DEFINE q == req[w].quote
<1>1. q \in Quotes /\ q \in present
  BY DEF TypeOK, CommitRow
<1>2. rows'[q] = Merge(rows[q], req[w].snap, req[w].obj)
      /\ \A p \in Quotes \ {q} : rows'[p] = rows[p]
  BY <1>1 DEF CommitRow, TypeOK
<1> HIDE DEF q
<1>3. /\ rows'[q].link = Changed(req[w].snap.link, req[w].obj.link, rows[q].link)
      /\ rows'[q].draft = Changed(req[w].snap.draft, req[w].obj.draft, rows[q].draft)
      /\ rows'[q].pay = Changed(req[w].snap.pay, req[w].obj.pay, rows[q].pay)
  BY <1>2 DEF Merge
<1> QED BY <1>1, <1>2, <1>3 DEF q

\* A handler goes on, or ends, and the row keeps its link, draft and payment.
LEMMA FreshCalm ==
  ASSUME TypeOK, NEW q \in Quotes, Fresh(q), NEW w \in Workers,
         Ends(w) \/ (\E pc, obj : Goes(w, pc, obj)),
         rows'[q].link = rows[q].link, rows'[q].draft = rows[q].draft
  PROVE  Fresh(q)'
<1>1. \A v \in Workers : Staff(v, q)' => Staff(v, q) /\ req'[v].snap = req[v].snap
  BY QAAssumption DEF Ends, Goes, Others, Staff, Idle, QAAssumption
<1> QED BY <1>1 DEF Fresh

LEMMA OnlyCalm ==
  ASSUME TypeOK, NEW q \in Quotes, Only(q), NEW w \in Workers,
         Ends(w) \/ (\E pc, obj : Goes(w, pc, obj)),
         rows'[q].pay = rows[q].pay
  PROVE  Only(q)'
<1>1. \A v \in Workers : req'[v].quote = q => /\ req[v].quote = q
                                              /\ req'[v].snap = req[v].snap
  BY QAAssumption DEF Ends, Goes, Others, Idle, QAAssumption
<1> QED BY <1>1 DEF Only

\* What a step that begins no request leaves true.
FreshBoth(q) ==
  /\ q \notin used.crowded => Fresh(q)
  /\ q \notin used.crowded \cup used.crossed => Only(q)

LEMMA FreshExternal ==
  ASSUME TypeOK, WorkInv, FreshInv, NEW w \in Workers, External(w),
         NEW q \in Quotes
  PROVE  FreshBoth(q)'
<1>1. Crowds /\ rows' = rows
  <2>1. Crowds BY CrowdsStay
  <2>2. rows' = rows
    BY DEF External, NoNewLink, NewLink, LostLink, Deactivated, NotDeactivated,
       NotMailed, Mailed, MailedUnnoticed, ReadForNotice, SendNotice,
       NoticeFails, db
  <2> QED BY <2>1, <2>2
<1>2. ASSUME Ends(w) \/ \E pc, obj : Goes(w, pc, obj)
      PROVE  FreshBoth(q)'
  BY <1>1, <1>2, FreshCalm, OnlyCalm DEF FreshBoth, FreshInv, Crowds
<1>3. CASE ReadForNotice(w)
  <2>1. CASE Ends(w) BY <1>2, <2>1
  <2>2. CASE Begins(w, "notice", "notice", req[w].quote, rows[req[w].quote])
    <3>1. req[w].pc = "notify" /\ req[w].op # "webhook"
      BY <1>3 DEF ReadForNotice, WorkInv, Works, Route
    <3>2. \A v \in Workers : /\ Staff(v, q)' => Staff(v, q)
                             /\ req'[v].quote = req[v].quote
                             /\ v # w => req'[v] = req[v]
      BY <2>2, <3>1 DEF Begins, Others, Staff
    <3>3. req[w].quote = q => req'[w].snap = rows[q]
      BY <2>2 DEF Begins
    <3>4. Fresh(q) => Fresh(q)'
      BY <1>1, <3>2, <3>3 DEF Fresh, Staff
    <3>5. Only(q) => Only(q)'
      BY <1>1, <3>2, <3>3 DEF Only
    <3> QED BY <1>1, <3>4, <3>5 DEF FreshBoth, FreshInv, Crowds
  <2> QED BY <1>3, <2>1, <2>2, ReadDoes
<1> QED
  BY <1>2, <1>3, GotoDoes, ContinueDoes, FinishDoes
  DEF External, NoNewLink, NewLink, LostLink, Deactivated, NotDeactivated,
      NotMailed, Mailed, MailedUnnoticed, SendNotice, NoticeFails

LEMMA FreshCommit ==
  ASSUME TypeOK, WorkInv, FreshInv, NEW w \in Workers, CommitRow(w),
         NEW q \in Quotes
  PROVE  FreshBoth(q)'
<1> DEFINE r == req[w]
<1>1. Crowds
  BY CrowdsStay DEF Write
<1>2. IF r.op = "price" THEN Goes(w, "notify", r.obj) ELSE Ends(w)
  BY GotoDoes, FinishDoes DEF CommitRow, Committed
<1>3. Works(plink, r) /\ r.pc = "commit"
  BY DEF WorkInv, CommitRow
<1>4. q \notin used.crowded => Fresh(q)'
  <2>1. CASE rows'[q].link = rows[q].link /\ rows'[q].draft = rows[q].draft
    BY <1>2, <2>1, FreshCalm DEF FreshInv
  <2>2. CASE ~(rows'[q].link = rows[q].link /\ rows'[q].draft = rows[q].draft)
    <3>1. r.quote = q /\ r.op \notin {"price", "webhook"}
      BY <1>3, <2>2, RowWritten DEF Works, Work, Changed
    <3>2. ASSUME q \notin used.crowded
          PROVE  \A v \in Workers : ~Staff(v, q)'
      BY <1>2, <3>1, <3>2, QAAssumption
      DEF FreshInv, Fresh, Staff, Ends, Others, Idle, QAAssumption
    <3> QED BY <3>2 DEF Fresh
  <2> QED BY <2>1, <2>2
<1>5. q \notin used.crowded \cup used.crossed => Only(q)'
  <2>1. CASE rows'[q].pay = rows[q].pay
    BY <1>2, <2>1, OnlyCalm DEF FreshInv
  <2>2. CASE rows'[q].pay # rows[q].pay
    <3>1. r.quote = q /\ r.op # "price"
      BY <1>3, <2>2, RowWritten DEF Works, Work, Changed
    <3>2. ASSUME q \notin used.crowded \cup used.crossed
          PROVE  \A v \in Workers : req'[v].quote # q
      BY <1>2, <3>1, <3>2, QAAssumption
      DEF FreshInv, Only, Ends, Others, Idle, QAAssumption
    <3> QED BY <3>2 DEF Only
  <2> QED BY <2>1, <2>2
<1> QED BY <1>1, <1>4, <1>5 DEF FreshBoth, Crowds

LEMMA FreshWrite ==
  ASSUME TypeOK, WorkInv, FreshInv, NEW w \in Workers, Write(w),
         NEW q \in Quotes
  PROVE  FreshBoth(q)'
<1>1. CASE CommitRow(w)
  BY <1>1, FreshCommit
<1>2. CASE Flush(w) \/ CommitNothing(w) \/ StaleRow(w)
  <2>1. rows' = rows
    BY <1>2 DEF Flush, CommitNothing, StaleRow, db
  <2>2. Crowds BY CrowdsStay
  <2>3. Ends(w) \/ \E pc, obj : Goes(w, pc, obj)
    BY <1>2, GotoDoes, FinishDoes DEF Flush, CommitNothing, StaleRow, Committed
  <2> QED
    BY <2>1, <2>2, <2>3, FreshCalm, OnlyCalm DEF FreshBoth, FreshInv, Crowds
<1> QED BY <1>1, <1>2 DEF Write

LEMMA FreshLoad ==
  ASSUME TypeOK, FreshInv, NEW w \in Workers, NEW op, NEW pc, NEW k, NEW obj,
         Load(w, op, pc, k, obj), NEW q \in Quotes
  PROVE  FreshBoth(q)'
<1>1. Begins(w, op, pc, k, obj) /\ rows' = rows
  BY LoadDoes DEF Load, db
<1>2. q = k => /\ Staffed(q) => q \in used'.crowded
               /\ Hooked(q) => q \in used'.crossed
  BY LoadCrowds
<1>3. /\ q \in used.crowded => q \in used'.crowded
      /\ q \in used.crossed => q \in used'.crossed
  BY LoadCrowds
<1>4. \A v \in Workers : req[v].quote = q => Staffed(q) \/ Hooked(q)
  BY DEF Staffed, Hooked
<1>5. \A v \in Workers : Staff(v, q) => Staffed(q)
  BY DEF Staff, Staffed
<1>6. q \notin used'.crowded => Fresh(q)'
  BY <1>1, <1>2, <1>3, <1>5 DEF FreshInv, Fresh, Begins, Others, Staff
<1>7. q \notin used'.crowded \cup used'.crossed => Only(q)'
  BY <1>1, <1>2, <1>3, <1>4 DEF FreshInv, Only, Begins, Others
<1> QED BY <1>6, <1>7 DEF FreshBoth

LEMMA FreshReceive ==
  ASSUME TypeOK, FreshInv, NEW w \in Workers, NEW e \in sent, Receive(w, e),
         NEW q \in Quotes
  PROVE  FreshBoth(q)'
<1> DEFINE k == plink[e[1]].quote
<1>1. Begins(w, "webhook", "commit", k, Apply(rows[k], e[2])) /\ rows' = rows
  BY ReceiveDoes DEF Receive, db
<1>2. q = k => (Staffed(q) \/ Hooked(q) => q \in used'.crossed)
  BY ReceiveCrowds
<1>3. /\ q \in used.crowded => q \in used'.crowded
      /\ q \in used.crossed => q \in used'.crossed
  BY ReceiveCrowds
<1>4. \A v \in Workers : req[v].quote = q => Staffed(q) \/ Hooked(q)
  BY DEF Staffed, Hooked
<1> HIDE DEF k
<1>5. \A v \in Workers : Staff(v, q)' => Staff(v, q) /\ req'[v] = req[v]
  BY <1>1 DEF Begins, Others, Staff
<1>6. q \notin used'.crowded => Fresh(q)'
  BY <1>1, <1>3, <1>5 DEF FreshInv, Fresh
<1>7. q \notin used'.crowded \cup used'.crossed => Only(q)'
  BY <1>1, <1>2, <1>3, <1>4 DEF FreshInv, Only, Begins, Others
<1> QED BY <1>6, <1>7 DEF FreshBoth

LEMMA FreshStep ==
  ASSUME TypeOK, [Next]_vars, WorkInv, FreshInv
  PROVE  FreshInv'
<1> SUFFICES ASSUME NEW q \in Quotes PROVE FreshBoth(q)'
  BY DEF FreshInv, FreshBoth
<1>1. ASSUME NEW w \in Workers, NEW k \in Quotes, Dashboard(w, k)
      PROVE  FreshBoth(q)'
  BY <1>1, FreshLoad DEF Dashboard, SetStatus, Approve, ManualPrice,
     CreatePaymentLink, CancelPaymentLink, RequestNotice
<1>2. CASE Crash
  <2>1. \A v \in Workers : req'[v] = Idle
    BY <1>2 DEF Crash
  <2>2. Fresh(q)' /\ Only(q)'
    BY <2>1, QAAssumption DEF Fresh, Only, Staff, Idle, QAAssumption
  <2> QED BY <2>2 DEF FreshBoth
<1>3. CASE \/ \E k \in Quotes : DeleteQuote(k)
           \/ \E e \in sent : AckUnknown(e)
           \/ \E l \in Links : Pay(l) \/ FailToPay(l) \/ Refund(l)
           \/ Connect \/ Disconnect \/ UNCHANGED vars
  <2>1. req' = req /\ rows' = rows
    BY <1>3 DEF DeleteQuote, AckUnknown, Pay, FailToPay, Refund, Connect,
       Disconnect, vars, db
  <2>2. Crowds BY <1>3, CrowdsStay
  <2> QED
    BY <2>1, <2>2 DEF FreshBoth, FreshInv, Fresh, Only, Staff, Crowds
<1> QED
  BY <1>1, <1>2, <1>3, FreshExternal, FreshWrite, FreshReceive DEF Next
-----------------------------------------------------------------------------
LEMMA PaidStep ==
  ASSUME TypeOK, WorkInv, FreshInv, [Next]_vars,
         NEW q \in (present \cap present') \ (used.crowded \cup used.crossed),
         rows[q].pay = "paid"
  PROVE  \/ rows'[q].pay \in {"paid", "refunded"}
         \/ rows[q].link = None /\ rows'[q].link # None
<1>1. q \in Quotes /\ Fresh(q) /\ Only(q)
  BY DEF FreshInv, TypeOK
<1>2. CASE rows' = rows
  BY <1>2
<1>3. ASSUME NEW w \in Workers, CommitRow(w), req[w].quote = q
      PROVE  \/ rows'[q].pay \in {"paid", "refunded"}
             \/ rows[q].link = None /\ rows'[q].link # None
  <2> DEFINE r == req[w]
  <2>1. /\ rows'[q].link = Changed(r.snap.link, r.obj.link, rows[q].link)
        /\ rows'[q].pay = Changed(r.snap.pay, r.obj.pay, rows[q].pay)
    BY <1>3, RowWritten
  <2>2. r.snap.pay = "paid" /\ Work(plink, r)
    BY <1>1, <1>3 DEF Only, WorkInv, Works
  <2>3. CASE r.obj.pay \in {"paid", "refunded"}
    BY <2>1, <2>2, <2>3 DEF Changed
  <2>4. CASE Relinked(r)
    <3>1. r.op # "webhook"
      BY <2>2, <2>4 DEF Work, Relinked
    <3>2. rows[q].link = r.snap.link
      BY <1>1, <1>3, <3>1 DEF Fresh, Staff
    <3> QED BY <2>1, <2>4, <3>2 DEF Relinked, Changed
  <2> QED BY <2>2, <2>3, <2>4 DEF Work
<1>4. ASSUME NEW w \in Workers, CommitRow(w), req[w].quote # q
      PROVE  rows'[q] = rows[q]
  BY <1>1, <1>4, RowWritten
<1> QED
  BY <1>2, <1>3, <1>4, RowsMove

-----------------------------------------------------------------------------
(***************************************************************************)
(* An email that went out is noted, on the row or in the copy of the one   *)
(* staff request at work on the quote, unless a mishap kept it from that.  *)
(***************************************************************************)
Noted(q) ==
  rows[q].draft \/ \E w \in Workers : Staff(w, q) /\ req[w].obj.draft

MailBound(q) ==
  /\ mails[q] <= 1 + Mishaps
  /\ q \in present /\ ~Noted(q) => mails[q] <= Mishaps

MailInv == \A q \in Quotes \ used.crowded : MailBound(q)

LEMMA MishapsType == TypeOK => Mishaps \in Nat
BY DEF TypeOK, Mishaps

\* Mishaps are never forgotten.
LEMMA MishapsGrow ==
  ASSUME TypeOK, [Next]_vars
  PROVE  /\ Mishaps' \in Nat /\ Mishaps' >= Mishaps
         /\ used'.crashes >= used.crashes
         /\ used.crowded \subseteq used'.crowded
<1> DEFINE Good == /\ Mishaps' \in Nat /\ Mishaps' >= Mishaps
                   /\ used'.crashes >= used.crashes
                   /\ used.crowded \subseteq used'.crowded
<1>0. used.lost \in Nat /\ used.crashes \in Nat
  BY DEF TypeOK
<1>1. ASSUME used' = used
      PROVE  Good
  BY <1>0, <1>1 DEF Mishaps
<1>2. ASSUME NEW w \in Workers, External(w)
      PROVE  Good
  <2>1. used' = used \/ used' = [used EXCEPT !.lost = @ + 1]
    BY <1>2 DEF External, NoNewLink, NewLink, LostLink, Deactivated,
       NotDeactivated, NotMailed, Mailed, MailedUnnoticed, ReadForNotice,
       SendNotice, NoticeFails
  <2>2. CASE used' = [used EXCEPT !.lost = @ + 1]
    <3>1. used'.lost = used.lost + 1 /\ used'.crashes = used.crashes
          /\ used'.crowded = used.crowded
      BY <2>2 DEF TypeOK
    <3> QED BY <1>0, <3>1 DEF Mishaps
  <2> QED BY <1>1, <2>1, <2>2
<1>3. CASE Crash
  <2>1. used'.lost = used.lost /\ used'.crashes = used.crashes + 1
        /\ used'.crowded = used.crowded
    BY <1>3 DEF Crash, TypeOK
  <2> QED BY <1>0, <2>1 DEF Mishaps
<1>4. ASSUME NEW w \in Workers, NEW q \in Quotes, Dashboard(w, q)
      PROVE  Good
  <2>1. \E op, pc, obj : Load(w, op, pc, q, obj)
    BY <1>4 DEF Dashboard, SetStatus, Approve, ManualPrice, CreatePaymentLink,
       CancelPaymentLink, RequestNotice
  <2>2. used'.lost = used.lost /\ used'.crashes = used.crashes
        /\ used.crowded \subseteq used'.crowded
    BY <2>1, LoadCrowds
  <2> QED BY <1>0, <2>2 DEF Mishaps
<1>5. ASSUME NEW w \in Workers, NEW e \in sent, Receive(w, e)
      PROVE  Good
  <2>1. used'.lost = used.lost /\ used'.crashes = used.crashes
        /\ used'.crowded = used.crowded
    BY <1>5, ReceiveCrowds
  <2> QED BY <1>0, <2>1 DEF Mishaps
<1>6. ASSUME NEW w \in Workers, Write(w)
      PROVE  used' = used
  BY <1>6 DEF Write, Flush, CommitNothing, CommitRow, StaleRow
<1>7. ASSUME \/ \E q \in Quotes : DeleteQuote(q)
             \/ \E e \in sent : AckUnknown(e)
             \/ \E l \in Links : Pay(l) \/ FailToPay(l) \/ Refund(l)
             \/ Connect \/ Disconnect \/ UNCHANGED vars
      PROVE  used' = used
  BY <1>7 DEF DeleteQuote, AckUnknown, Pay, FailToPay, Refund, Connect,
     Disconnect, vars
<1> QED
  BY <1>1, <1>2, <1>3, <1>4, <1>5, <1>6, <1>7 DEF Next

LEMMA NotedStays ==
  ASSUME TypeOK, NEW q \in Quotes, NEW w \in Workers, Others(w),
         rows'[q].draft = rows[q].draft,
         Staff(w, q) /\ req[w].obj.draft =>
           rows[q].draft \/ (Staff(w, q)' /\ req'[w].obj.draft),
         Noted(q)
  PROVE  Noted(q)'
<1>1. CASE rows[q].draft
  BY <1>1 DEF Noted
<1>2. ASSUME NEW v \in Workers, Staff(v, q), req[v].obj.draft
      PROVE  Noted(q)'
  <2>1. CASE v = w
    BY <1>2, <2>1 DEF Noted
  <2>2. CASE v # w
    <3>1. req'[v] = req[v] BY <2>2 DEF Others
    <3>2. Staff(v, q)' /\ req'[v].obj.draft
      BY <1>2, <3>1 DEF Staff
    <3> QED BY <3>2 DEF Noted
  <2> QED BY <2>1, <2>2
<1> QED BY <1>1, <1>2 DEF Noted

LEMMA MailCalm ==
  ASSUME TypeOK, [Next]_vars, NEW q \in Quotes, MailBound(q),
         mails'[q] = mails[q], present' \subseteq present, Noted(q) => Noted(q)'
  PROVE  MailBound(q)'
BY MishapsType, MishapsGrow DEF MailBound, TypeOK

\* A request that is not past its email has noted nothing the row does not.
LEMMA NothingNoted ==
  ASSUME TypeOK, WorkInv, NEW q \in Quotes, Fresh(q), NEW w \in Workers,
         Staff(w, q), req[w].op # "approve" \/ req[w].pc # "commit"
  PROVE  req[w].obj.draft = rows[q].draft
BY DEF WorkInv, Works, Work, Fresh

\* The request goes on with the draft id it had.
LEMMA MailGoes ==
  ASSUME TypeOK, [Next]_vars, NEW q \in Quotes, MailBound(q),
         NEW w \in Workers, NEW pc, NEW obj, Goes(w, pc, obj),
         obj.draft = req[w].obj.draft, rows' = rows, present' = present,
         mails'[q] = mails[q]
  PROVE  MailBound(q)'
<1>1. Staff(w, q) /\ req[w].obj.draft => Staff(w, q)' /\ req'[w].obj.draft
  BY DEF Goes, Staff
<1>2. Noted(q) => Noted(q)'
  BY <1>1, NotedStays DEF Goes
<1> QED BY <1>2, MailCalm

\* The request is over, or another one takes its place.
LEMMA MailEnds ==
  ASSUME TypeOK, [Next]_vars, WorkInv, NEW q \in Quotes, Fresh(q), MailBound(q),
         NEW w \in Workers, Others(w), rows' = rows, present' = present,
         mails' = mails, req[w].op # "approve" \/ req[w].pc # "commit"
  PROVE  MailBound(q)'
<1>1. Staff(w, q) /\ req[w].obj.draft => rows[q].draft
  BY NothingNoted
<1>2. Noted(q) => Noted(q)'
  BY <1>1, NotedStays
<1> QED BY <1>2, MailCalm

LEMMA MailMailed ==
  ASSUME TypeOK, TypeOK', [Next]_vars, WorkInv, LockProtectsMail,
         NEW q \in Quotes, Fresh(q), MailBound(q),
         NEW w \in Workers, Mailed(w)
  PROVE  MailBound(q)'
<1> DEFINE obj == [req[w].obj EXCEPT !.draft = TRUE]
<1>1. Goes(w, "commit", obj) /\ obj.draft = TRUE
  BY ContinueDoes DEF Mailed, TypeOK, Request, Row
<1>2. rows' = rows /\ present' = present /\ used' = used /\ req[w].pc = "mail"
      /\ ~req[w].obj.draft /\ mails' = [mails EXCEPT ![req[w].quote] = @ + 1]
  BY DEF Mailed, SendMail, db
<1> HIDE DEF obj
<1>3. CASE req[w].quote = q
  <2>1. Staff(w, q)
    BY <1>2, <1>3 DEF Staff, WorkInv, Works, Route
  <2>2. ~rows[q].draft /\ \A v \in Workers : Staff(v, q) => v = w
    BY <1>2, <2>1, NothingNoted DEF Fresh
  <2>3. ~Noted(q) /\ q \in present
    BY <1>2, <1>3, <2>2 DEF Noted, LockProtectsMail
  <2>4. mails'[q] = mails[q] + 1 /\ mails[q] <= Mishaps /\ mails[q] \in Nat
    BY <1>2, <1>3, <2>3 DEF TypeOK, MailBound
  <2>5. Noted(q)'
    BY <1>1, <1>3, <2>1 DEF Noted, Staff, Goes
  <2>6. Mishaps' = Mishaps
    BY <1>2 DEF Mishaps
  <2> QED BY <2>4, <2>5, <2>6, MishapsType DEF MailBound
<1>4. CASE req[w].quote # q
  <2>1. mails'[q] = mails[q]
    BY <1>2, <1>4 DEF TypeOK
  <2>2. ~(Staff(w, q) /\ req[w].obj.draft)
    BY <1>4 DEF Staff
  <2>3. Noted(q) => Noted(q)'
    BY <1>1, <1>2, <2>2, NotedStays DEF Goes
  <2> QED BY <1>2, <2>1, <2>3, MailCalm
<1> QED BY <1>3, <1>4

LEMMA MailUnnoticed ==
  ASSUME TypeOK, TypeOK', [Next]_vars, WorkInv, LockProtectsMail,
         NEW q \in Quotes, Fresh(q), MailBound(q),
         NEW w \in Workers, MailedUnnoticed(w)
  PROVE  MailBound(q)'
<1>1. Goes(w, "commit", req[w].obj)
  BY GotoDoes DEF MailedUnnoticed
<1>2. rows' = rows /\ present' = present /\ req[w].pc = "mail"
      /\ used' = [used EXCEPT !.lost = @ + 1]
      /\ ~req[w].obj.draft /\ mails' = [mails EXCEPT ![req[w].quote] = @ + 1]
  BY DEF MailedUnnoticed, SendMail, db
<1>3. CASE req[w].quote = q
  <2>1. Staff(w, q)
    BY <1>2, <1>3 DEF Staff, WorkInv, Works, Route
  <2>2. ~rows[q].draft /\ \A v \in Workers : Staff(v, q) => v = w
    BY <1>2, <2>1, NothingNoted DEF Fresh
  <2>3. ~Noted(q) /\ q \in present
    BY <1>2, <1>3, <2>2 DEF Noted, LockProtectsMail
  <2>4. mails'[q] = mails[q] + 1 /\ mails[q] <= Mishaps /\ mails[q] \in Nat
    BY <1>2, <1>3, <2>3 DEF TypeOK, MailBound
  <2>5. Mishaps' = Mishaps + 1
    BY <1>2 DEF Mishaps, TypeOK
  <2> QED BY <2>4, <2>5, MishapsType DEF MailBound
<1>4. CASE req[w].quote # q
  <2>1. mails'[q] = mails[q]
    BY <1>2, <1>4 DEF TypeOK
  <2> QED BY <1>1, <1>2, <2>1, MailGoes
<1> QED BY <1>3, <1>4

LEMMA MailExternal ==
  ASSUME TypeOK, TypeOK', [Next]_vars, WorkInv, LockProtectsMail,
         NEW q \in Quotes, Fresh(q), MailBound(q), NEW w \in Workers, External(w)
  PROVE  MailBound(q)'
<1>1. rows' = rows /\ present' = present
  BY DEF External, NoNewLink, NewLink, LostLink, Deactivated, NotDeactivated,
     NotMailed, Mailed, MailedUnnoticed, ReadForNotice, SendNotice,
     NoticeFails, db
<1>2. req[w].obj \in Row
  BY DEF TypeOK, Request
<1>3. CASE Mailed(w)
  BY <1>3, MailMailed
<1>4. CASE MailedUnnoticed(w)
  BY <1>4, MailUnnoticed
<1>5. CASE \/ NoNewLink(w) \/ (\E l \in Links : NewLink(w, l) \/ LostLink(w, l))
           \/ Deactivated(w) \/ NotDeactivated(w) \/ NotMailed(w) \/ SendNotice(w)
  <2>1. mails' = mails
    BY <1>5 DEF NoNewLink, NewLink, LostLink, Deactivated, NotDeactivated,
       NotMailed, SendNotice, ext
  <2>2. /\ \A l : [req[w].obj EXCEPT !.link = l, !.pay = "unpaid"].draft
                    = req[w].obj.draft
        /\ Unlinked(req[w].obj).draft = req[w].obj.draft
        /\ [req[w].obj EXCEPT !.notified = TRUE].draft = req[w].obj.draft
    BY <1>2 DEF Row, Unlinked
  <2>3. \E pc, obj : Goes(w, pc, obj) /\ obj.draft = req[w].obj.draft
    <3>1. CASE NoNewLink(w) \/ NotDeactivated(w) \/ NotMailed(w)
      BY <3>1, GotoDoes DEF NoNewLink, NotDeactivated, NotMailed
    <3>2. ASSUME NEW l \in Links, NewLink(w, l)
          PROVE  \E pc, obj : Goes(w, pc, obj) /\ obj.draft = req[w].obj.draft
      BY <2>2, <3>2, ContinueDoes DEF NewLink
    <3>3. ASSUME NEW l \in Links, LostLink(w, l)
          PROVE  \E pc, obj : Goes(w, pc, obj) /\ obj.draft = req[w].obj.draft
      BY <3>3, GotoDoes DEF LostLink
    <3>4. CASE Deactivated(w)
      BY <2>2, <3>4, GotoDoes, ContinueDoes DEF Deactivated
    <3>5. CASE SendNotice(w)
      BY <2>2, <3>5, ContinueDoes DEF SendNotice
    <3> QED BY <1>5, <3>1, <3>2, <3>3, <3>4, <3>5
  <2> QED BY <1>1, <2>1, <2>3, MailGoes
<1>6. CASE ReadForNotice(w) \/ NoticeFails(w)
  <2>1. mails' = mails /\ req[w].pc # "commit"
    BY <1>6 DEF ReadForNotice, NoticeFails, ext
  <2>2. Others(w)
    BY <1>6, ReadDoes, FinishDoes DEF NoticeFails, Ends, Begins
  <2> QED BY <1>1, <2>1, <2>2, MailEnds
<1> QED BY <1>3, <1>4, <1>5, <1>6 DEF External

LEMMA MailWrite ==
  ASSUME TypeOK, TypeOK', [Next]_vars, WorkInv, NEW q \in Quotes, Fresh(q),
         MailBound(q), NEW w \in Workers, Write(w)
  PROVE  MailBound(q)'
<1> DEFINE r == req[w]
<1>1. present' = present /\ mails' = mails
  BY DEF Write, Flush, CommitNothing, CommitRow, StaleRow, db, ext
<1>2. CASE Flush(w)
  BY <1>1, <1>2, MailGoes, GotoDoes DEF Flush
<1>3. ASSUME Committed(w)
      PROVE  Others(w) /\ (r.op = "price" => Goes(w, "notify", r.obj))
  BY <1>3, GotoDoes, FinishDoes DEF Committed, Goes, Ends
<1>4. CASE CommitNothing(w)
  <2>1. Others(w) /\ rows' = rows /\ r.obj = r.snap
    BY <1>3, <1>4 DEF CommitNothing, db
  <2>2. Staff(w, q) /\ r.obj.draft => rows[q].draft
    BY <2>1 DEF Fresh
  <2>3. Noted(q) => Noted(q)'
    BY <2>1, <2>2, NotedStays
  <2> QED BY <1>1, <2>3, MailCalm
<1>5. CASE CommitRow(w)
  <2>1. Others(w)
    BY <1>3, <1>5 DEF CommitRow
  <2>2. Work(plink, r)
    BY DEF WorkInv, Works
  <2>3. CASE ~Staff(w, q)
    <3>1. rows'[q].draft = rows[q].draft
      <4>1. CASE r.quote # q BY <1>5, <4>1, RowWritten
      <4>2. CASE r.quote = q /\ r.op = "webhook"
        BY <1>5, <2>2, <4>2, RowWritten DEF Work, Changed
      <4> QED BY <2>3, <4>1, <4>2 DEF Staff
    <3>2. Noted(q) => Noted(q)'
      BY <2>1, <2>3, <3>1, NotedStays
    <3> QED BY <1>1, <3>2, MailCalm
  <2>4. CASE Staff(w, q)
    <3>1. rows'[q].draft = Changed(r.snap.draft, r.obj.draft, rows[q].draft)
      BY <1>5, <2>4, RowWritten DEF Staff
    <3>2. r.snap.draft = rows[q].draft /\ \A v \in Workers : Staff(v, q) => v = w
      BY <2>4 DEF Fresh
    <3>3. Noted(q) => rows'[q].draft
      BY <2>2, <3>1, <3>2 DEF Noted, Work, Changed
    <3> QED BY <1>1, <3>3, MailCalm DEF Noted
  <2> QED BY <2>3, <2>4
<1>6. CASE StaleRow(w)
  <2>1. r.quote \notin present /\ Others(w) /\ rows' = rows
    BY <1>6, FinishDoes DEF StaleRow, Ends, db
  <2>2. CASE r.quote = q
    BY <1>1, <2>1, <2>2, MishapsType, MishapsGrow DEF MailBound, TypeOK
  <2>3. CASE r.quote # q
    <3>1. Noted(q) => Noted(q)'
      BY <2>1, <2>3, NotedStays DEF Staff
    <3> QED BY <1>1, <3>1, MailCalm
  <2> QED BY <2>2, <2>3
<1> QED BY <1>2, <1>4, <1>5, <1>6 DEF Write

LEMMA MailStep ==
  ASSUME TypeOK, TypeOK', [Next]_vars, WorkInv, LockProtectsMail, FreshInv,
         MailInv
  PROVE  MailInv'
<1> SUFFICES ASSUME NEW q \in Quotes, q \notin used'.crowded
             PROVE  MailBound(q)'
  BY DEF MailInv
<1>1. MailBound(q) /\ Fresh(q)
  BY MishapsGrow DEF MailInv, FreshInv
<1>2. ASSUME NEW w \in Workers, req[w].pc = "idle", Others(w), rows' = rows,
             present' = present, mails' = mails
      PROVE  MailBound(q)'
  BY <1>1, <1>2, MailEnds
<1>3. ASSUME NEW w \in Workers, NEW k \in Quotes, Dashboard(w, k)
      PROVE  MailBound(q)'
  <2>1. \E op, pc, obj : Load(w, op, pc, k, obj)
    BY <1>3 DEF Dashboard, SetStatus, Approve, ManualPrice, CreatePaymentLink,
       CancelPaymentLink, RequestNotice
  <2>2. req[w].pc = "idle" /\ rows' = rows /\ present' = present /\ mails' = mails
    BY <2>1 DEF Load, db, ext
  <2>3. Others(w)
    BY <2>1, LoadDoes DEF Begins
  <2> QED BY <1>2, <2>2, <2>3
<1>4. ASSUME NEW w \in Workers, NEW e \in sent, Receive(w, e)
      PROVE  MailBound(q)'
  <2>1. req[w].pc = "idle" /\ rows' = rows /\ present' = present /\ mails' = mails
    BY <1>4 DEF Receive, db, ext
  <2>2. Others(w)
    BY <1>4, ReceiveDoes DEF Begins
  <2> QED BY <1>2, <2>1, <2>2
<1>5. CASE Crash
  <2>1. Mishaps' = Mishaps + 1 /\ mails' = mails
    BY <1>5 DEF Crash, Mishaps, TypeOK, ext
  <2> QED BY <1>1, <2>1, MishapsType DEF MailBound, TypeOK
<1>6. CASE \/ \E k \in Quotes : DeleteQuote(k)
           \/ \E e \in sent : AckUnknown(e)
           \/ \E l \in Links : Pay(l) \/ FailToPay(l) \/ Refund(l)
           \/ Connect \/ Disconnect \/ UNCHANGED vars
  <2>1. req' = req /\ rows' = rows /\ mails' = mails /\ present' \subseteq present
    BY <1>6 DEF DeleteQuote, AckUnknown, Pay, FailToPay, Refund, Connect,
       Disconnect, vars, db, ext
  <2>2. Noted(q) => Noted(q)'
    BY <2>1 DEF Noted, Staff
  <2> QED BY <1>1, <2>1, <2>2, MailCalm
<1> QED
  BY <1>1, <1>3, <1>4, <1>5, <1>6, MailExternal, MailWrite DEF Next
-----------------------------------------------------------------------------
\* What the theorems about links use of cardinalities.
LEMMA Fewer ==
  ASSUME NEW S, IsFiniteSet(S), NEW T, T \subseteq S
  PROVE  /\ IsFiniteSet(T)
         /\ Cardinality(S) \in Nat /\ Cardinality(T) \in Nat
         /\ Cardinality(T) <= Cardinality(S)
<1>1. IsFiniteSet(T) /\ Cardinality(T) <= Cardinality(S)
  BY FS_Subset
<1>2. Cardinality(S) \in Nat /\ Cardinality(T) \in Nat
  BY <1>1, FS_CardinalityType
<1> QED BY <1>1, <1>2

LEMMA OneMore ==
  ASSUME NEW S, IsFiniteSet(S), NEW x, NEW T, T \subseteq S \cup {x}
  PROVE  /\ IsFiniteSet(T)
         /\ Cardinality(S) \in Nat /\ Cardinality(T) \in Nat
         /\ Cardinality(T) <= Cardinality(S) + 1
<1>1. IsFiniteSet(S \cup {x}) /\ Cardinality(S) \in Nat
      /\ Cardinality(S \cup {x}) <= Cardinality(S) + 1
  <2>1. Cardinality(S) \in Nat BY FS_CardinalityType
  <2> QED BY <2>1, FS_AddElement
<1>2. IsFiniteSet(T) /\ Cardinality(T) \in Nat
      /\ Cardinality(T) <= Cardinality(S \cup {x})
      /\ Cardinality(S \cup {x}) \in Nat
  BY <1>1, Fewer
<1> QED BY <1>1, <1>2

-----------------------------------------------------------------------------
(***************************************************************************)
(* Only issued links are mailed or written on rows.                        *)
(***************************************************************************)
KnownInv == \A l \in known : plink[l].state # "unissued"

LEMMA KnownStep ==
  ASSUME TypeOK, TypeOK', BackedInv, BackedInv', [Next]_vars, KnownInv
  PROVE  KnownInv'
<1>1. Monotone(plink, plink')
  BY StripeMonotone DEF BackedInv
<1>2. \A l \in known : plink'[l].state # "unissued"
  BY <1>1 DEF KnownInv, Monotone, TypeOK
<1>3. CASE known' = known
  BY <1>2, <1>3 DEF KnownInv
<1>4. ASSUME NEW w \in Workers, SendMail(w)
      PROVE  KnownInv'
  <2>1. known' = known \cup ({req[w].obj.link} \ {None}) /\ req[w].pc # "idle"
    BY <1>4 DEF SendMail
  <2>2. req[w].obj.link \in Links \cup {None}
    BY DEF TypeOK, Request, Row
  <2>3. req[w].obj.link # None => plink[req[w].obj.link].state # "unissued"
    BY <2>1 DEF BackedInv, Backed
  <2> QED BY <1>1, <1>2, <2>1, <2>2, <2>3 DEF KnownInv, Monotone
<1>5. ASSUME NEW w \in Workers, CommitRow(w)
      PROVE  KnownInv'
  <2> DEFINE q == req[w].quote
  <2>1. q \in Quotes /\ known' = known \cup ({rows'[q].link} \ {None})
    BY <1>5, RowWritten DEF CommitRow, WorkInv, TypeOK
  <2>2. rows'[q].link # None => plink'[rows'[q].link].state # "unissued"
    BY <2>1 DEF BackedInv, Backed
  <2> QED BY <1>2, <2>1, <2>2 DEF KnownInv
<1>6. \/ \E w \in Workers : SendMail(w) \/ CommitRow(w)
      \/ known' = known
  <2>1. ASSUME NEW w \in Workers, External(w)
        PROVE  SendMail(w) \/ known' = known
    BY <2>1 DEF External, NoNewLink, NewLink, LostLink, Deactivated,
       NotDeactivated, NotMailed, Mailed, MailedUnnoticed, ReadForNotice,
       SendNotice, NoticeFails, ext
  <2>2. ASSUME NEW w \in Workers, Write(w)
        PROVE  CommitRow(w) \/ known' = known
    BY <2>2 DEF Write, Flush, CommitNothing, StaleRow, ext
  <2>3. ASSUME NEW w \in Workers, NEW k \in Quotes, Dashboard(w, k)
        PROVE  known' = known
    BY <2>3 DEF Dashboard, SetStatus, Approve, ManualPrice, CreatePaymentLink,
       CancelPaymentLink, RequestNotice, Load, ext
  <2>4. ASSUME NEW w \in Workers, NEW e \in sent, Receive(w, e)
        PROVE  known' = known
    BY <2>4 DEF Receive, ext
  <2>5. ASSUME \/ \E k \in Quotes : DeleteQuote(k)
               \/ \E e \in sent : AckUnknown(e)
               \/ \E l \in Links : Pay(l) \/ FailToPay(l) \/ Refund(l)
               \/ Connect \/ Disconnect \/ Crash
        PROVE  known' = known
    BY <2>5 DEF DeleteQuote, AckUnknown, Pay, FailToPay, Refund, Connect,
       Disconnect, Crash, ext
  <2>6. CASE UNCHANGED vars
    BY <2>6 DEF vars
  <2> QED
    BY <2>1, <2>2, <2>3, <2>4, <2>5, <2>6 DEF Next
<1> QED BY <1>3, <1>4, <1>5, <1>6

-----------------------------------------------------------------------------
(***************************************************************************)
(* An open link is held by the row, or by the copy of the one staff        *)
(* request at work on the quote; the others are astray, one for every      *)
(* mishap at most.  Of those somebody outside can open, one for every      *)
(* restart at most, for a link whose creation was not noticed reached      *)
(* nobody.                                                                 *)
(***************************************************************************)
Held(l, q) ==
  \/ rows[q].link = l
  \/ \E w \in Workers : Staff(w, q) /\ req[w].obj.link = l

Astray(q) == {l \in LiveLinks(q) : ~Held(l, q)}

AtWork(q) == q \in present \/ \E w \in Workers : Staff(w, q)

LinkBound(q) ==
  /\ IsFiniteSet(LiveLinks(q))
  /\ Cardinality(LiveLinks(q)) <= 1 + Mishaps
  /\ AtWork(q) => Cardinality(Astray(q)) <= Mishaps
  /\ q \in present => Cardinality(Astray(q) \cap known) <= used.crashes

LinkInv == \A q \in Quotes \ used.crowded : LinkBound(q)

LEMMA LinkSizes ==
  ASSUME TypeOK, NEW q, IsFiniteSet(LiveLinks(q))
  PROVE  /\ IsFiniteSet(Astray(q)) /\ IsFiniteSet(Astray(q) \cap known)
         /\ Cardinality(LiveLinks(q)) \in Nat /\ Cardinality(Astray(q)) \in Nat
         /\ Cardinality(Astray(q) \cap known) \in Nat
         /\ Cardinality(Astray(q)) <= Cardinality(LiveLinks(q))
         /\ Mishaps \in Nat /\ used.crashes \in Nat
<1>1. Astray(q) \subseteq LiveLinks(q) /\ Astray(q) \cap known \subseteq LiveLinks(q)
  BY DEF Astray
<1>2. Mishaps \in Nat /\ used.crashes \in Nat
  BY DEF TypeOK, Mishaps
<1> QED BY <1>1, <1>2, Fewer

\* Nothing goes astray and nobody learns of a link that is astray.
LEMMA LinkCalm ==
  ASSUME TypeOK, [Next]_vars, NEW q \in Quotes, LinkBound(q),
         LiveLinks(q)' \subseteq LiveLinks(q), present' \subseteq present,
         AtWork(q)' => /\ AtWork(q)
                       /\ Astray(q)' \subseteq Astray(q)
                       /\ Astray(q)' \cap known' \subseteq known
  PROVE  LinkBound(q)'
<1>1. /\ Mishaps' \in Nat /\ Mishaps' >= Mishaps
      /\ used'.crashes >= used.crashes
  BY MishapsGrow
<1>2. /\ IsFiniteSet(Astray(q)) /\ IsFiniteSet(Astray(q) \cap known)
      /\ Mishaps \in Nat /\ used.crashes \in Nat
  BY LinkSizes DEF LinkBound
<1>3. IsFiniteSet(LiveLinks(q)') /\ Cardinality(LiveLinks(q)') <= 1 + Mishaps'
  BY <1>1, <1>2, Fewer DEF LinkBound
<1>4. AtWork(q)' => Cardinality(Astray(q)') <= Mishaps'
  BY <1>1, <1>2, Fewer DEF LinkBound
<1>5. q \in present' => Cardinality(Astray(q)' \cap known') <= used'.crashes
  <2> SUFFICES ASSUME q \in present'
               PROVE  Cardinality(Astray(q)' \cap known') <= used'.crashes
    OBVIOUS
  <2>1. AtWork(q)' BY DEF AtWork
  <2>2. Astray(q)' \cap known' \subseteq Astray(q) \cap known
    BY <2>1
  <2>3. Cardinality(Astray(q)' \cap known') <= Cardinality(Astray(q) \cap known)
        /\ Cardinality(Astray(q)' \cap known') \in Nat
        /\ Cardinality(Astray(q) \cap known) \in Nat
    BY <1>2, <2>2, Fewer
  <2>4. used'.crashes \in Int BY NextType DEF TypeOK
  <2> QED BY <1>1, <1>2, <2>3, <2>4 DEF LinkBound
<1> QED BY <1>3, <1>4, <1>5 DEF LinkBound

\* A step of w that lets go of nothing.
LEMMA HeldStays ==
  ASSUME TypeOK, NEW q \in Quotes, NEW w \in Workers, Others(w), NEW l,
         rows'[q].link = rows[q].link,
         Staff(w, q) /\ req[w].obj.link = l =>
           rows[q].link = l \/ (Staff(w, q)' /\ req'[w].obj.link = l),
         Held(l, q)
  PROVE  Held(l, q)'
<1>1. CASE rows[q].link = l
  BY <1>1 DEF Held
<1>2. ASSUME NEW v \in Workers, Staff(v, q), req[v].obj.link = l
      PROVE  Held(l, q)'
  <2>1. CASE v = w
    BY <1>2, <2>1 DEF Held
  <2>2. CASE v # w
    <3>1. req'[v] = req[v] BY <2>2 DEF Others
    <3>2. Staff(v, q)' /\ req'[v].obj.link = l
      BY <1>2, <3>1 DEF Staff
    <3> QED BY <3>2 DEF Held
  <2> QED BY <2>1, <2>2
<1> QED BY <1>1, <1>2 DEF Held

LEMMA AtWorkStays ==
  ASSUME NEW q, NEW w \in Workers, Others(w), present' = present,
         Staff(w, q)' => Staff(w, q) \/ q \in present, AtWork(q)'
  PROVE  AtWork(q)
BY DEF AtWork, Others, Staff

\* The same links are open.
LEMMA LiveSame ==
  ASSUME NEW q, \A l \in Links : /\ plink'[l].quote = plink[l].quote
                                 /\ plink'[l].state = plink[l].state
  PROVE  LiveLinks(q)' = LiveLinks(q)
BY DEF LiveLinks

\* A step of w that opens no link, writes no link on the row of q, and lets
\* an outsider learn of no open link of q but one still held.
LEMMA LinkStays ==
  ASSUME TypeOK, [Next]_vars, NEW q \in Quotes, LinkBound(q),
         NEW w \in Workers, Others(w), present' = present,
         rows'[q].link = rows[q].link,
         LiveLinks(q)' \subseteq LiveLinks(q),
         Staff(w, q)' => Staff(w, q) \/ q \in present,
         \A l \in LiveLinks(q)' :
           /\ Staff(w, q) /\ req[w].obj.link = l =>
                rows[q].link = l \/ (Staff(w, q)' /\ req'[w].obj.link = l)
           /\ l \in known' => l \in known \/ Held(l, q)'
  PROVE  LinkBound(q)'
<1>1. AtWork(q)' => AtWork(q)
  BY AtWorkStays
<1>2. \A l \in LiveLinks(q)' : Held(l, q) => Held(l, q)'
  BY HeldStays
<1>3. Astray(q)' \subseteq Astray(q)
  BY <1>2 DEF Astray
<1>4. Astray(q)' \cap known' \subseteq known
  BY DEF Astray
<1> QED BY <1>1, <1>3, <1>4, LinkCalm

\* What a request loaded of the link is on the row, if it did not change it.
LEMMA SameLink ==
  ASSUME TypeOK, WorkInv, NEW q \in Quotes, Fresh(q), NEW w \in Workers,
         Staff(w, q), req[w].pc \notin {"flush", "mail", "commit"}
  PROVE  req[w].obj.link = rows[q].link
BY DEF WorkInv, Works, Work, Fresh

\* Before a link is made none is held, so each open one is astray.
LEMMA NothingHeld ==
  ASSUME TypeOK, WorkInv, NEW q \in Quotes, Fresh(q), LinkBound(q),
         NEW w \in Workers, LinkWanted(w), req[w].quote = q
  PROVE  /\ Staff(w, q) /\ rows[q].link = None
         /\ Astray(q) = LiveLinks(q) /\ AtWork(q)
         /\ Cardinality(LiveLinks(q)) <= Mishaps
<1>1. req[w].pc = "stripe" /\ req[w].obj.link = None
  BY DEF LinkWanted
<1>2. Staff(w, q)
  BY <1>1 DEF WorkInv, Works, Route, Staff
<1>3. rows[q].link = None /\ \A v \in Workers : Staff(v, q) => v = w
  BY <1>1, <1>2, SameLink DEF Fresh
<1>4. \A l \in LiveLinks(q) : ~Held(l, q)
  BY <1>1, <1>3, QAAssumption DEF Held, LiveLinks, QAAssumption
<1> QED BY <1>2, <1>3, <1>4 DEF Astray, AtWork, LinkBound

\* The link a request makes is a new one, of its own quote.
LEMMA IssueDoes ==
  ASSUME TypeOK, NEW w \in Workers, NEW l \in Links, Issue(w, l), NEW q
  PROVE  /\ q = req[w].quote => LiveLinks(q)' = LiveLinks(q) \cup {l}
         /\ q # req[w].quote => LiveLinks(q)' = LiveLinks(q)
BY DEF TypeOK, Issue, LiveLinks, PaymentLink

LEMMA LinkNew ==
  ASSUME TypeOK, TypeOK', [Next]_vars, WorkInv, NEW q \in Quotes, Fresh(q),
         LinkBound(q), NEW w \in Workers, NEW l \in Links, NewLink(w, l)
  PROVE  LinkBound(q)'
<1> DEFINE obj == [req[w].obj EXCEPT !.link = l, !.pay = "unpaid"]
<1>1. Goes(w, AfterStripe(w), obj) /\ obj.link = l
  BY ContinueDoes DEF NewLink, TypeOK, Request, Row
<1>2. rows' = rows /\ present' = present /\ known' = known /\ used' = used
      /\ Others(w) /\ Issue(w, l) /\ LinkWanted(w)
  BY <1>1 DEF NewLink, db, Goes
<1> HIDE DEF obj
<1>3. CASE req[w].quote # q
  <2>1. LiveLinks(q)' = LiveLinks(q) BY <1>2, <1>3, IssueDoes
  <2>2. ~Staff(w, q) /\ ~Staff(w, q)'
    BY <1>1, <1>3 DEF Staff, Goes
  <2> QED BY <1>2, <2>1, <2>2, LinkStays
<1>4. CASE req[w].quote = q
  <2>1. /\ Staff(w, q) /\ rows[q].link = None
        /\ Astray(q) = LiveLinks(q) /\ AtWork(q)
        /\ Cardinality(LiveLinks(q)) <= Mishaps
    BY <1>2, <1>4, NothingHeld
  <2>2. LiveLinks(q)' = LiveLinks(q) \cup {l}
    BY <1>2, <1>4, IssueDoes
  <2>3. Held(l, q)'
    BY <1>1, <2>1 DEF Held, Staff, Goes
  <2>4. Astray(q)' \subseteq Astray(q)
    BY <2>1, <2>2, <2>3 DEF Astray
  <2>5. Mishaps' = Mishaps /\ used'.crashes = used.crashes
    BY <1>2 DEF Mishaps
  <2>6. /\ IsFiniteSet(LiveLinks(q)')
        /\ Cardinality(LiveLinks(q)') <= Cardinality(LiveLinks(q)) + 1
        /\ Cardinality(LiveLinks(q)') \in Nat /\ Cardinality(LiveLinks(q)) \in Nat
    BY <2>2, OneMore DEF LinkBound
  <2>7. /\ IsFiniteSet(Astray(q)) /\ IsFiniteSet(Astray(q) \cap known)
        /\ Mishaps \in Nat /\ used.crashes \in Nat
    BY LinkSizes DEF LinkBound
  <2>8. Cardinality(Astray(q)') <= Mishaps'
    <3>1. /\ Cardinality(Astray(q)') <= Cardinality(Astray(q))
          /\ Cardinality(Astray(q)') \in Nat /\ Cardinality(Astray(q)) \in Nat
      BY <2>4, <2>7, Fewer
    <3> QED BY <2>1, <2>5, <2>7, <3>1
  <2>9. q \in present' => Cardinality(Astray(q)' \cap known') <= used'.crashes
    <3>1. Astray(q)' \cap known' \subseteq Astray(q) \cap known
      BY <1>2, <2>4
    <3>2. /\ Cardinality(Astray(q)' \cap known') <= Cardinality(Astray(q) \cap known)
          /\ Cardinality(Astray(q)' \cap known') \in Nat
          /\ Cardinality(Astray(q) \cap known) \in Nat
      BY <2>7, <3>1, Fewer
    <3> QED BY <1>2, <2>5, <2>7, <3>2 DEF LinkBound
  <2>10. Cardinality(LiveLinks(q)') <= 1 + Mishaps'
    BY <2>1, <2>5, <2>6, <2>7
  <2> QED BY <2>6, <2>8, <2>9, <2>10 DEF LinkBound
<1> QED BY <1>3, <1>4

LEMMA LinkLost ==
  ASSUME TypeOK, TypeOK', [Next]_vars, WorkInv, KnownInv, NEW q \in Quotes,
         Fresh(q), LinkBound(q), NEW w \in Workers, NEW l \in Links,
         LostLink(w, l)
  PROVE  LinkBound(q)'
<1>1. Goes(w, AfterStripe(w), req[w].obj)
  BY GotoDoes DEF LostLink
<1>2. rows' = rows /\ present' = present /\ known' = known
      /\ used' = [used EXCEPT !.lost = @ + 1]
      /\ Others(w) /\ Issue(w, l) /\ LinkWanted(w)
  BY <1>1 DEF LostLink, db, Goes
<1>3. CASE req[w].quote # q
  <2>1. LiveLinks(q)' = LiveLinks(q) BY <1>2, <1>3, IssueDoes
  <2>2. ~Staff(w, q) /\ ~Staff(w, q)'
    BY <1>1, <1>3 DEF Staff, Goes
  <2> QED BY <1>2, <2>1, <2>2, LinkStays
<1>4. CASE req[w].quote = q
  <2>1. /\ Astray(q) = LiveLinks(q)
        /\ Cardinality(LiveLinks(q)) <= Mishaps
    BY <1>2, <1>4, NothingHeld
  <2>2. LiveLinks(q)' = LiveLinks(q) \cup {l}
    BY <1>2, <1>4, IssueDoes
  <2>3. Mishaps' = Mishaps + 1 /\ used'.crashes = used.crashes
    BY <1>2 DEF Mishaps, TypeOK
  <2>4. l \notin known
    BY <1>2 DEF KnownInv, Issue
  <2>5. /\ IsFiniteSet(LiveLinks(q)')
        /\ Cardinality(LiveLinks(q)') <= Cardinality(LiveLinks(q)) + 1
        /\ Cardinality(LiveLinks(q)') \in Nat /\ Cardinality(LiveLinks(q)) \in Nat
    BY <2>2, OneMore DEF LinkBound
  <2>6. /\ IsFiniteSet(Astray(q) \cap known)
        /\ Mishaps \in Nat /\ used.crashes \in Nat
    BY LinkSizes DEF LinkBound
  <2>7. Cardinality(LiveLinks(q)') <= Mishaps'
    BY <2>1, <2>3, <2>5, <2>6
  <2>8. Cardinality(Astray(q)') <= Mishaps'
    <3>1. Astray(q)' \subseteq LiveLinks(q)' BY DEF Astray
    <3>2. /\ Cardinality(Astray(q)') <= Cardinality(LiveLinks(q)')
          /\ Cardinality(Astray(q)') \in Nat
      BY <2>5, <3>1, Fewer
    <3> QED BY <2>3, <2>5, <2>6, <2>7, <3>2
  <2>9. q \in present' => Cardinality(Astray(q)' \cap known') <= used'.crashes
    <3>1. Astray(q)' \cap known' \subseteq Astray(q) \cap known
      BY <1>2, <2>1, <2>2, <2>4 DEF Astray
    <3>2. /\ Cardinality(Astray(q)' \cap known') <= Cardinality(Astray(q) \cap known)
          /\ Cardinality(Astray(q)' \cap known') \in Nat
          /\ Cardinality(Astray(q) \cap known) \in Nat
      BY <2>6, <3>1, Fewer
    <3> QED BY <1>2, <2>3, <2>6, <3>2 DEF LinkBound
  <2>10. Cardinality(LiveLinks(q)') <= 1 + Mishaps'
    BY <2>3, <2>5, <2>6, <2>7
  <2> QED BY <2>5, <2>8, <2>9, <2>10 DEF LinkBound
<1> QED BY <1>3, <1>4

LEMMA LinkDeactivated ==
  ASSUME TypeOK, TypeOK', [Next]_vars, WorkInv, NEW q \in Quotes, Fresh(q),
         LinkBound(q), NEW w \in Workers, Deactivated(w)
  PROVE  LinkBound(q)'
<1> DEFINE k == req[w].obj.link
<1>1. k \in Links /\ rows' = rows /\ present' = present /\ known' = known
      /\ plink' = [plink EXCEPT ![k].state = "inactive"]
  BY DEF Deactivated, TypeOK, RequestOK, db
<1>2. LiveLinks(q)' \subseteq LiveLinks(q) \ {k}
  BY <1>1 DEF TypeOK, LiveLinks, PaymentLink
<1>3. \E obj : Goes(w, "commit", obj)
  BY GotoDoes, ContinueDoes DEF Deactivated
<1>4. Others(w) /\ (Staff(w, q)' => Staff(w, q))
  BY <1>3 DEF Goes, Staff
<1> QED BY <1>1, <1>2, <1>4, LinkStays

\* The request goes on with the link it had.
LEMMA LinkGoes ==
  ASSUME TypeOK, [Next]_vars, NEW q \in Quotes, LinkBound(q),
         NEW w \in Workers, NEW pc, NEW obj, Goes(w, pc, obj),
         obj.link = req[w].obj.link, rows' = rows, present' = present,
         plink' = plink,
         \A l \in LiveLinks(q) : l \in known' =>
           l \in known \/ (Staff(w, q) /\ req[w].obj.link = l)
  PROVE  LinkBound(q)'
<1>1. Others(w) /\ (Staff(w, q)' <=> Staff(w, q))
      /\ req'[w].obj.link = req[w].obj.link
  BY DEF Goes, Staff
<1>2. LiveLinks(q)' = LiveLinks(q)
  BY DEF LiveLinks
<1>3. \A l : Staff(w, q) /\ req[w].obj.link = l => Held(l, q)'
  BY <1>1 DEF Held
<1> QED BY <1>1, <1>2, <1>3, LinkStays

\* The request is over, or another one takes its place.
LEMMA LinkEnds ==
  ASSUME TypeOK, [Next]_vars, NEW q \in Quotes, LinkBound(q),
         NEW w \in Workers, Others(w), rows' = rows, present' = present,
         plink' = plink, known' = known,
         Staff(w, q) => req[w].obj.link = rows[q].link,
         Staff(w, q)' => Staff(w, q) \/ q \in present
  PROVE  LinkBound(q)'
<1>1. LiveLinks(q)' = LiveLinks(q)
  BY DEF LiveLinks
<1> QED BY <1>1, LinkStays

LEMMA LinkMailed ==
  ASSUME TypeOK, [Next]_vars, WorkInv, BackedInv, NEW q \in Quotes,
         LinkBound(q), NEW w \in Workers, Mailed(w) \/ MailedUnnoticed(w)
  PROVE  LinkBound(q)'
<1> DEFINE obj == [req[w].obj EXCEPT !.draft = TRUE]
<1>1. obj.link = req[w].obj.link
  BY DEF TypeOK, Request, Row
<1>2. \/ Goes(w, "commit", obj) \/ Goes(w, "commit", req[w].obj)
  BY GotoDoes, ContinueDoes DEF Mailed, MailedUnnoticed
<1>3. rows' = rows /\ present' = present /\ plink' = plink /\ req[w].pc = "mail"
      /\ known' = known \cup ({req[w].obj.link} \ {None})
  BY DEF Mailed, MailedUnnoticed, SendMail, db
<1>4. ASSUME NEW l \in LiveLinks(q), l = req[w].obj.link
      PROVE  Staff(w, q)
  <2>1. plink[l].quote = req[w].quote
    BY <1>3, <1>4, QAAssumption DEF BackedInv, Backed, LiveLinks, QAAssumption
  <2> QED BY <1>3, <1>4, <2>1 DEF LiveLinks, WorkInv, Works, Route, Staff
<1>5. \A l \in LiveLinks(q) : l \in known' =>
        l \in known \/ (Staff(w, q) /\ req[w].obj.link = l)
  BY <1>3, <1>4
<1> HIDE DEF obj
<1> QED BY <1>1, <1>2, <1>3, <1>5, LinkGoes

LEMMA LinkExternal ==
  ASSUME TypeOK, TypeOK', [Next]_vars, WorkInv, BackedInv, KnownInv,
         NEW q \in Quotes, Fresh(q), LinkBound(q), NEW w \in Workers, External(w)
  PROVE  LinkBound(q)'
<1>1. ASSUME NEW l \in Links, NewLink(w, l)
      PROVE  LinkBound(q)'
  BY <1>1, LinkNew
<1>2. ASSUME NEW l \in Links, LostLink(w, l)
      PROVE  LinkBound(q)'
  BY <1>2, LinkLost
<1>3. CASE Deactivated(w)
  BY <1>3, LinkDeactivated
<1>4. CASE Mailed(w) \/ MailedUnnoticed(w)
  BY <1>4, LinkMailed
<1>5. CASE NoNewLink(w) \/ NotDeactivated(w) \/ NotMailed(w) \/ SendNotice(w)
  <2>1. rows' = rows /\ present' = present /\ plink' = plink /\ known' = known
    BY <1>5 DEF NoNewLink, NotDeactivated, NotMailed, SendNotice, db, ext
  <2>2. \E pc, obj : Goes(w, pc, obj) /\ obj.link = req[w].obj.link
    <3>1. CASE NoNewLink(w) \/ NotDeactivated(w) \/ NotMailed(w)
      BY <3>1, GotoDoes DEF NoNewLink, NotDeactivated, NotMailed
    <3>2. CASE SendNotice(w)
      <4>1. [req[w].obj EXCEPT !.notified = TRUE].link = req[w].obj.link
        BY DEF TypeOK, Request, Row
      <4> QED BY <3>2, <4>1, ContinueDoes DEF SendNotice
    <3> QED BY <1>5, <3>1, <3>2
  <2> QED BY <2>1, <2>2, LinkGoes
<1>6. CASE ReadForNotice(w) \/ NoticeFails(w)
  <2>1. rows' = rows /\ present' = present /\ plink' = plink /\ known' = known
        /\ req[w].pc \in {"notify", "notice"}
    BY <1>6 DEF ReadForNotice, NoticeFails, db, ext
  <2>2. req[w].op # "webhook"
    BY <2>1 DEF WorkInv, Works, Route
  <2>3. Others(w) /\ (Staff(w, q)' => Staff(w, q))
    BY <1>6, <2>2, ReadDoes, FinishDoes, QAAssumption
    DEF NoticeFails, Ends, Begins, Staff, Idle, QAAssumption
  <2>4. Staff(w, q) => req[w].obj.link = rows[q].link
    BY <2>1, SameLink
  <2> QED BY <2>1, <2>3, <2>4, LinkEnds
<1> QED BY <1>1, <1>2, <1>3, <1>4, <1>5, <1>6 DEF External

\* A commit takes a link off the row only when it is switched off.
LEMMA LinkCommit ==
  ASSUME TypeOK, TypeOK', [Next]_vars, WorkInv, BackedInv', NEW q \in Quotes,
         Fresh(q), LinkBound(q), NEW w \in Workers, CommitRow(w)
  PROVE  LinkBound(q)'
<1> DEFINE r == req[w]
           p == req[w].quote
<1>1. /\ present' = present /\ plink' = plink
      /\ known' = known \cup ({rows'[p].link} \ {None})
  BY DEF CommitRow
<1>2. LiveLinks(q)' = LiveLinks(q)
  BY <1>1 DEF LiveLinks
<1>3. Others(w) /\ (Staff(w, q)' => Staff(w, q))
      /\ (req'[w] = Idle \/ (r.op = "price" /\ req'[w].obj = r.obj))
  BY GotoDoes, FinishDoes, QAAssumption
  DEF CommitRow, Committed, Goes, Ends, Staff, Idle, QAAssumption
<1>4. Work(plink, r) /\ p \in Quotes
  BY RowWritten DEF WorkInv, Works
<1>5. \A l \in LiveLinks(q)' : l \in known' => l \in known \/ Held(l, q)'
  <2>1. ASSUME NEW l \in LiveLinks(q)', l = rows'[p].link
        PROVE  p = q
    BY <1>4, <2>1, QAAssumption
    DEF BackedInv, Backed, LiveLinks, QAAssumption
  <2> QED BY <1>1, <2>1 DEF Held
<1>6. CASE ~Staff(w, q)
  <2>1. rows'[q].link = rows[q].link
    <3>1. CASE p # q BY <3>1, RowWritten
    <3>2. CASE p = q /\ r.op = "webhook"
      BY <1>4, <3>2, RowWritten DEF Work, Changed
    <3> QED BY <1>6, <3>1, <3>2 DEF Staff
  <2> QED BY <1>1, <1>2, <1>3, <1>5, <1>6, <2>1, LinkStays
<1>7. CASE Staff(w, q)
  <2>1. rows'[q].link = Changed(r.snap.link, r.obj.link, rows[q].link)
    BY <1>7, RowWritten DEF Staff
  <2>2. r.snap.link = rows[q].link /\ \A v \in Workers : Staff(v, q) => v = w
    BY <1>7 DEF Fresh
  <2>3. rows'[q].link = r.obj.link
    BY <2>1, <2>2 DEF Changed
  <2>4. ASSUME NEW l \in LiveLinks(q), Held(l, q)
        PROVE  Held(l, q)'
    <3>1. l \in Links /\ l # None /\ plink[l].state = "active"
      BY QAAssumption DEF LiveLinks, QAAssumption
    <3>2. l = r.snap.link \/ l = r.obj.link
      BY <2>2, <2>4 DEF Held
    <3>3. l = r.obj.link
      BY <1>4, <3>1, <3>2 DEF Work
    <3> QED BY <2>3, <3>3 DEF Held
  <2>5. AtWork(q)' => AtWork(q)
    BY <1>7 DEF AtWork
  <2>6. Astray(q)' \subseteq Astray(q)
    BY <1>2, <2>4 DEF Astray
  <2>7. Astray(q)' \cap known' \subseteq known
    BY <1>5 DEF Astray
  <2> QED BY <1>1, <1>2, <2>5, <2>6, <2>7, LinkCalm
<1> QED BY <1>6, <1>7

LEMMA LinkWrite ==
  ASSUME TypeOK, TypeOK', [Next]_vars, WorkInv, BackedInv', NEW q \in Quotes,
         Fresh(q), LinkBound(q), NEW w \in Workers, Write(w)
  PROVE  LinkBound(q)'
<1> DEFINE r == req[w]
<1>1. CASE CommitRow(w) BY <1>1, LinkCommit
<1>2. CASE Flush(w)
  <2>1. rows' = rows /\ present' = present /\ plink' = plink /\ known' = known
    BY <1>2 DEF Flush, ext
  <2> QED BY <1>2, <2>1, LinkGoes, GotoDoes DEF Flush
<1>3. CASE CommitNothing(w)
  <2>1. rows' = rows /\ present' = present /\ plink' = plink /\ known' = known
        /\ r.obj = r.snap
    BY <1>3 DEF CommitNothing, db, ext
  <2>2. Others(w) /\ (Staff(w, q)' => Staff(w, q))
    BY <1>3, GotoDoes, FinishDoes, QAAssumption
    DEF CommitNothing, Committed, Goes, Ends, Staff, Idle, QAAssumption
  <2>3. Staff(w, q) => r.obj.link = rows[q].link
    BY <2>1 DEF Fresh
  <2> QED BY <2>1, <2>2, <2>3, LinkEnds
<1>4. CASE StaleRow(w)
  <2>1. rows' = rows /\ present' = present /\ plink' = plink /\ known' = known
        /\ r.quote \notin present
    BY <1>4 DEF StaleRow, db, ext
  <2>2. Others(w) /\ ~Staff(w, q)'
    BY <1>4, FinishDoes, QAAssumption
    DEF StaleRow, Ends, Staff, Idle, QAAssumption
  <2>3. CASE ~Staff(w, q)
    BY <2>1, <2>2, <2>3, LinkEnds
  <2>4. CASE Staff(w, q)
    <3>1. \A v \in Workers : Staff(v, q)' => Staff(v, q) /\ v # w
      BY <2>2 DEF Others, Staff
    <3>2. ~AtWork(q)'
      BY <2>1, <2>4, <3>1 DEF AtWork, Fresh, Staff
    <3>3. LiveLinks(q)' = LiveLinks(q)
      BY <2>1 DEF LiveLinks
    <3> QED BY <2>1, <3>2, <3>3, LinkCalm
  <2> QED BY <2>3, <2>4
<1> QED BY <1>1, <1>2, <1>3, <1>4 DEF Write

\* A restart lets go of one open link at most, the one a handler just made.
LEMMA LinkCrash ==
  ASSUME TypeOK, TypeOK', [Next]_vars, NEW q \in Quotes, Fresh(q),
         LinkBound(q), Crash
  PROVE  LinkBound(q)'
<1>1. /\ rows' = rows /\ present' = present /\ plink' = plink /\ known' = known
      /\ \A v \in Workers : req'[v] = Idle
  BY DEF Crash, ext
<1>2. Mishaps' = Mishaps + 1 /\ used'.crashes = used.crashes + 1
  BY DEF Crash, Mishaps, TypeOK
<1>3. LiveLinks(q)' = LiveLinks(q)
  BY <1>1 DEF LiveLinks
<1>4. /\ IsFiniteSet(LiveLinks(q)) /\ IsFiniteSet(Astray(q) \cap known)
      /\ Mishaps \in Nat /\ used.crashes \in Nat
      /\ Cardinality(LiveLinks(q)) \in Nat
  BY LinkSizes DEF LinkBound
<1>5. Cardinality(Astray(q)') <= Mishaps'
  <2>1. Astray(q)' \subseteq LiveLinks(q) BY <1>3 DEF Astray
  <2>2. /\ Cardinality(Astray(q)') <= Cardinality(LiveLinks(q))
        /\ Cardinality(Astray(q)') \in Nat
    BY <1>4, <2>1, Fewer
  <2> QED BY <1>2, <1>4, <2>2 DEF LinkBound
<1>6. \E x : Astray(q)' \subseteq Astray(q) \cup {x}
  <2>1. CASE \E w \in Workers : Staff(w, q)
    <3>1. PICK w \in Workers : Staff(w, q) BY <2>1
    <3>2. \A v \in Workers : Staff(v, q) => v = w
      BY <3>1 DEF Fresh
    <3>3. \A l : Held(l, q) /\ l # req[w].obj.link => Held(l, q)'
      BY <1>1, <3>2 DEF Held
    <3>4. Astray(q)' \subseteq Astray(q) \cup {req[w].obj.link}
      BY <1>3, <3>3 DEF Astray
    <3> QED BY <3>4
  <2>2. CASE ~\E w \in Workers : Staff(w, q)
    <3>1. \A l : Held(l, q) => Held(l, q)'
      BY <1>1, <2>2 DEF Held
    <3>2. Astray(q)' \subseteq Astray(q) \cup {None}
      BY <1>3, <3>1 DEF Astray
    <3> QED BY <3>2
  <2> QED BY <2>1, <2>2
<1>7. q \in present' => Cardinality(Astray(q)' \cap known') <= used'.crashes
  <2>1. PICK x : Astray(q)' \subseteq Astray(q) \cup {x} BY <1>6
  <2>2. Astray(q)' \cap known' \subseteq (Astray(q) \cap known) \cup {x}
    BY <1>1, <2>1
  <2>3. /\ Cardinality(Astray(q)' \cap known')
             <= Cardinality(Astray(q) \cap known) + 1
        /\ Cardinality(Astray(q)' \cap known') \in Nat
        /\ Cardinality(Astray(q) \cap known) \in Nat
    BY <1>4, <2>2, OneMore
  <2> QED BY <1>1, <1>2, <1>4, <2>3 DEF LinkBound
<1>8. IsFiniteSet(LiveLinks(q)') /\ Cardinality(LiveLinks(q)') <= 1 + Mishaps'
  BY <1>2, <1>3, <1>4 DEF LinkBound
<1> QED BY <1>5, <1>7, <1>8 DEF LinkBound

LEMMA LinkStep ==
  ASSUME TypeOK, TypeOK', [Next]_vars, WorkInv, BackedInv, BackedInv',
         KnownInv, FreshInv, LinkInv
  PROVE  LinkInv'
<1> SUFFICES ASSUME NEW q \in Quotes, q \notin used'.crowded
             PROVE  LinkBound(q)'
  BY DEF LinkInv
<1>1. LinkBound(q) /\ Fresh(q)
  BY MishapsGrow DEF LinkInv, FreshInv
<1>2. ASSUME NEW w \in Workers, req[w].pc = "idle", Others(w), rows' = rows,
             present' = present, plink' = plink, known' = known,
             Staff(w, q)' => q \in present
      PROVE  LinkBound(q)'
  <2>1. ~Staff(w, q)
    BY <1>2, QAAssumption
    DEF WorkInv, Works, Route, Staff, Idle, QAAssumption
  <2> QED BY <1>1, <1>2, <2>1, LinkEnds
<1>3. ASSUME NEW w \in Workers, NEW k \in Quotes, Dashboard(w, k)
      PROVE  LinkBound(q)'
  <2>1. PICK op, pc, obj : Load(w, op, pc, k, obj)
    BY <1>3 DEF Dashboard, SetStatus, Approve, ManualPrice, CreatePaymentLink,
       CancelPaymentLink, RequestNotice
  <2>2. req[w].pc = "idle" /\ rows' = rows /\ present' = present
        /\ plink' = plink /\ known' = known /\ k \in present
    BY <2>1 DEF Load, db, ext
  <2>3. Others(w) /\ (Staff(w, q)' => q = k)
    BY <2>1, LoadDoes DEF Begins, Staff
  <2> QED BY <1>2, <2>2, <2>3
<1>4. ASSUME NEW w \in Workers, NEW e \in sent, Receive(w, e)
      PROVE  LinkBound(q)'
  <2>1. req[w].pc = "idle" /\ rows' = rows /\ present' = present
        /\ plink' = plink /\ known' = known
    BY <1>4 DEF Receive, db, ext
  <2>2. Others(w) /\ ~Staff(w, q)'
    BY <1>4, ReceiveDoes DEF Begins, Staff
  <2> QED BY <1>2, <2>1, <2>2
<1>5. CASE Crash
  BY <1>1, <1>5, LinkCrash
<1>6. CASE \/ \E k \in Quotes : DeleteQuote(k)
           \/ \E e \in sent : AckUnknown(e)
           \/ \E l \in Links : Pay(l) \/ FailToPay(l) \/ Refund(l)
           \/ Connect \/ Disconnect \/ UNCHANGED vars
  <2>1. req' = req /\ rows' = rows /\ known' = known /\ present' \subseteq present
    BY <1>6 DEF DeleteQuote, AckUnknown, Pay, FailToPay, Refund, Connect,
       Disconnect, vars, db, ext
  <2>2. LiveLinks(q)' = LiveLinks(q)
    <3>1. plink' = plink \/ \E l \in Links, m \in {"paid", "refunded"} :
                              plink' = [plink EXCEPT ![l].money = m]
      BY <1>6 DEF DeleteQuote, AckUnknown, Pay, FailToPay, Refund, Connect,
         Disconnect, vars, ext
    <3>2. \A l \in Links : /\ plink'[l].quote = plink[l].quote
                           /\ plink'[l].state = plink[l].state
      BY <3>1 DEF TypeOK, PaymentLink
    <3> QED BY <3>2, LiveSame
  <2>3. AtWork(q)' => AtWork(q)
    BY <2>1 DEF AtWork, Staff
  <2>4. Astray(q)' = Astray(q)
    BY <2>1, <2>2 DEF Astray, Held, Staff
  <2> QED BY <1>1, <2>1, <2>2, <2>3, <2>4, LinkCalm
<1> QED
  BY <1>1, <1>3, <1>4, <1>5, <1>6, LinkExternal, LinkWrite DEF Next

-----------------------------------------------------------------------------
(***************************************************************************)
(* All of it together.                                                     *)
(***************************************************************************)
QuoteInv == WorkInv /\ FreshInv /\ MailInv /\ KnownInv /\ LinkInv

LEMMA InitQuote == Init => QuoteInv
<1> SUFFICES ASSUME Init PROVE QuoteInv
  OBVIOUS
<1>1. \A w \in Workers : req[w] = Idle /\ req[w].quote = None
  BY DEF Init, Idle
<1>2. WorkInv
  BY <1>1, IdleWorks DEF WorkInv
<1>3. FreshInv
  BY <1>1, QAAssumption DEF FreshInv, Fresh, Only, Staff, QAAssumption
<1>4. Mishaps = 0 /\ used.crashes = 0
  BY DEF Init, Mishaps
<1>5. MailInv
  BY <1>4 DEF Init, MailInv, MailBound
<1>6. KnownInv
  BY DEF Init, KnownInv
<1>7. ASSUME NEW q \in Quotes
      PROVE  LinkBound(q)
  <2>1. LiveLinks(q) = {} /\ Astray(q) = {} /\ Astray(q) \cap known = {}
    BY DEF Init, LiveLinks, Astray
  <2>2. IsFiniteSet({}) /\ Cardinality({}) = 0
    BY FS_EmptySet
  <2> QED BY <1>4, <2>1, <2>2 DEF LinkBound
<1> QED
  BY <1>2, <1>3, <1>5, <1>6, <1>7 DEF QuoteInv, LinkInv

LEMMA QuoteCorrect ==
  Spec => [](TypeOK /\ BackedInv /\ LockProtectsMail /\ QuoteInv)
<1>1. TypeOK /\ TypeOK' /\ BackedInv /\ BackedInv' /\ LockProtectsMail
        /\ QuoteInv /\ [Next]_vars
      => QuoteInv'
  <2> SUFFICES ASSUME TypeOK, TypeOK', BackedInv, BackedInv', LockProtectsMail,
                      QuoteInv, [Next]_vars
               PROVE  QuoteInv'
    OBVIOUS
  <2>1. WorkInv /\ FreshInv /\ MailInv /\ KnownInv /\ LinkInv
    BY DEF QuoteInv
  <2>2. WorkInv' BY <2>1, WorkStep
  <2>3. FreshInv' BY <2>1, FreshStep
  <2>4. MailInv' BY <2>1, MailStep
  <2>5. KnownInv' BY <2>1, KnownStep
  <2>6. LinkInv' BY <2>1, LinkStep
  <2> QED BY <2>2, <2>3, <2>4, <2>5, <2>6 DEF QuoteInv
<1> QED
  BY <1>1, InitQuote, TypeCorrect, StripeClaimsAreTrue, MailUnderLock, PTL
  DEF Spec

(***************************************************************************)
(* create_link_for_quote: two links of one quote are open at once only     *)
(* after a mishap, if no two staff requests met on the quote; whatever     *)
(* Stripe reports meanwhile.                                               *)
(***************************************************************************)
THEOREM OneLinkOpen == Spec => []OneLiveLink
<1>1. QuoteInv => OneLiveLink
  BY DEF QuoteInv, LinkInv, LinkBound, OneLiveLink
<1> QED BY <1>1, QuoteCorrect, PTL

(***************************************************************************)
(* send_quote_draft: the customer gets the payment email twice only after  *)
(* a mishap, if no two staff requests met on the quote.                    *)
(***************************************************************************)
THEOREM OneMail == Spec => []MailedOnce
<1>1. QuoteInv => MailedOnce
  BY DEF QuoteInv, MailInv, MailBound, MailedOnce
<1> QED BY <1>1, QuoteCorrect, PTL

(***************************************************************************)
(* cancel_stripe_payment_link: an open link somebody can pay on and the    *)
(* row does not show is one a restart cut off from its row.                *)
(***************************************************************************)
THEOREM LinksAreFound == Spec => []NoForgottenLink
<1>1. TypeOK /\ QuoteInv => NoForgottenLink
  <2> SUFFICES ASSUME TypeOK, QuoteInv, NEW q \in present \ used.crowded
               PROVE  Cardinality(ForgottenLinks(q)) <= used.crashes
    BY DEF NoForgottenLink
  <2>1. LinkBound(q)
    BY DEF TypeOK, QuoteInv, LinkInv
  <2>2. ForgottenLinks(q) \subseteq Astray(q) \cap known
    BY DEF ForgottenLinks, Astray, Held, Staff
  <2>3. /\ IsFiniteSet(Astray(q) \cap known) /\ used.crashes \in Nat
    BY <2>1, LinkSizes DEF LinkBound
  <2>4. /\ Cardinality(ForgottenLinks(q)) <= Cardinality(Astray(q) \cap known)
        /\ Cardinality(ForgottenLinks(q)) \in Nat
        /\ Cardinality(Astray(q) \cap known) \in Nat
    BY <2>2, <2>3, Fewer
  <2> QED BY <2>1, <2>3, <2>4 DEF LinkBound
<1> QED BY <1>1, QuoteCorrect, PTL

(***************************************************************************)
(* apply_webhook_event, create_link_for_quote: a paid row stays paid until *)
(* it is refunded or gets a new link, if no request met another one on it. *)
(***************************************************************************)
THEOREM PaidStays == Spec => PaidUntilRelinked
<1> DEFINE Step(q) == rows[q].pay = "paid" =>
                        \/ rows'[q].pay \in {"paid", "refunded"}
                        \/ rows[q].link = None /\ rows'[q].link # None
           Kept == \A q \in (present \cap present')
                              \ (used.crowded \cup used.crossed) : Step(q)
<1>1. TypeOK /\ QuoteInv /\ [Next]_vars => Kept
  BY PaidStep DEF QuoteInv
<1>2. Spec => [][Kept]_vars
  BY <1>1, QuoteCorrect, PTL DEF Spec
<1> QED BY <1>2 DEF PaidUntilRelinked
=============================================================================
