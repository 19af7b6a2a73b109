----------------------- MODULE PrintLogicPushProofs -----------------------
(***************************************************************************)
(* Proofs about PrintLogicPush, for any number of quotes, concurrent       *)
(* handlers, orders, lost answers and restarts: the types, the truth of    *)
(* order ids, and how many orders can be open or forgotten.                *)
(***************************************************************************)
EXTENDS PrintLogicPush, FiniteSetTheorems, TLAPS

(***************************************************************************)
(* Type correctness: the handlers keep every variable in its type; in      *)
(* particular a cancellation under way names a real order.                 *)
(***************************************************************************)
LEMMA TypeInit == Init => TypeOK
BY PLAssumption DEF Init, TypeOK, Request, Idle, OrderId

\* What a request just begun does to the worker's state and the counters.
LEMMA TypeStart ==
  ASSUME TypeOK, NEW w \in Workers, NEW q \in Quotes,
         NEW pc \in {"create", "cancel", "commit"},
         NEW id \in OrderId \cup {Keep},
         pc = "cancel" => id \in Orders,
         Start(w, q, pc, id)
  PROVE  TypeOK'
<1>1. req' \in [Workers -> Request]
  BY DEF Start, TypeOK, Request
<1>2. \A v \in Workers : req'[v] = IF v = w THEN [pc |-> pc, quote |-> q, id |-> id]
                                    ELSE req[v]
  BY DEF Start, TypeOK
<1>3. used' \in [requests: Nat, overlaps: Nat, crashes: Nat, lost: Nat]
  <2>1. used.requests + 1 \in Nat BY DEF TypeOK
  <2>2. (IF Busy(q) THEN used.overlaps + 1 ELSE used.overlaps) \in Nat
    BY DEF TypeOK
  <2> QED BY <2>1, <2>2 DEF Start, TypeOK
<1>4. \A v \in Workers : req'[v].pc # "idle" => req'[v].quote \in Quotes
  BY <1>2 DEF TypeOK
<1>5. \A v \in Workers : req'[v].pc = "cancel" => req'[v].id \in Orders
  BY <1>2 DEF TypeOK
<1>6. UNCHANGED <<present, rows, dryRun, order>>
  BY DEF Start
<1> QED BY <1>1, <1>3, <1>4, <1>5, <1>6 DEF TypeOK

\* What the answer of PrintLogic does to the worker's state.
LEMMA TypeOutcome ==
  ASSUME TypeOK, NEW w \in Workers, NEW id \in OrderId \cup {Keep},
         req[w].pc # "idle", Outcome(w, id)
  PROVE  /\ req' \in [Workers -> Request]
         /\ \A v \in Workers : req'[v].pc # "idle" => req'[v].quote \in Quotes
         /\ \A v \in Workers : req'[v].pc = "cancel" => req'[v].id \in Orders
BY DEF Outcome, TypeOK, Request

LEMMA TypeStep == TypeOK /\ [Next]_vars => TypeOK'
<1> SUFFICES ASSUME TypeOK, [Next]_vars PROVE TypeOK'
  OBVIOUS
<1> USE DEF OrderId
<1>1. ASSUME NEW w \in Workers, NEW q \in Quotes, PushDry(w, q) PROVE TypeOK'
  <2>1. PICK id \in {Dry, Keep} : Start(w, q, "commit", id)
    BY <1>1 DEF PushDry
  <2> QED BY <2>1, TypeStart
<1>2. ASSUME NEW w \in Workers, NEW q \in Quotes, PushReal(w, q) PROVE TypeOK'
  <2>1. rows[q] \in OrderId BY DEF TypeOK
  <2> QED BY <1>2, <2>1, TypeStart DEF PushReal
<1>3. ASSUME NEW w \in Workers, NEW o \in Orders, Created(w, o) PROVE TypeOK'
  <2>1. req[w].quote \in Quotes BY <1>3 DEF Created, Create, TypeOK
  <2> QED BY <1>3, <2>1, TypeOutcome DEF Created, Create, TypeOK
<1>4. ASSUME NEW w \in Workers, NEW o \in Orders, CreatedUnnoticed(w, o)
      PROVE TypeOK'
  <2>1. req[w].quote \in Quotes BY <1>4 DEF CreatedUnnoticed, Create, TypeOK
  <2> QED BY <1>4, <2>1, TypeOutcome
          DEF CreatedUnnoticed, Create, Lose, TypeOK
<1>5. ASSUME NEW w \in Workers, NotCreated(w) PROVE TypeOK'
  BY <1>5, TypeOutcome DEF NotCreated, TypeOK
<1>6. ASSUME NEW w \in Workers, NEW q \in Quotes, CancelDry(w, q) PROVE TypeOK'
  BY <1>6, TypeStart DEF CancelDry
<1>7. ASSUME NEW w \in Workers, NEW q \in Quotes, CancelReal(w, q) PROVE TypeOK'
  BY <1>7, TypeStart DEF CancelReal
<1>8. ASSUME NEW w \in Workers, Cancelled(w) PROVE TypeOK'
  BY <1>8, TypeOutcome DEF Cancelled, CancelOrder, TypeOK
<1>9. ASSUME NEW w \in Workers, CancelledUnnoticed(w) PROVE TypeOK'
  BY <1>9, TypeOutcome DEF CancelledUnnoticed, CancelOrder, Lose, TypeOK
<1>10. ASSUME NEW w \in Workers, NotCancelled(w) PROVE TypeOK'
  BY <1>10, TypeOutcome DEF NotCancelled, TypeOK
<1>11. ASSUME NEW w \in Workers, Commit(w) PROVE TypeOK'
  BY <1>11 DEF Commit, TypeOK, Request, Idle
<1>12. CASE \E q \in Quotes : DeleteQuote(q)
  BY <1>12 DEF DeleteQuote, TypeOK
<1>13. CASE SetDryRun
  BY <1>13 DEF SetDryRun, TypeOK
<1>14. CASE Crash
  BY <1>14 DEF Crash, TypeOK, Request, Idle
<1>15. CASE UNCHANGED vars
  BY <1>15 DEF vars, TypeOK
<1> QED
  BY <1>1, <1>2, <1>3, <1>4, <1>5, <1>6, <1>7, <1>8, <1>9, <1>10, <1>11,
     <1>12, <1>13, <1>14, <1>15 DEF Next, Push, Cancel

\* The handlers keep rows, requests, orders and counters well-formed.
THEOREM TypeCorrect == Spec => []TypeOK
BY TypeInit, TypeStep, PTL DEF Spec

-----------------------------------------------------------------------------
(***************************************************************************)
(* The ids are true.  Once issued an order belongs to its quote for good,  *)
(* so the claims on rows and in requests survive any step that does not    *)
(* write them; the lemma covers the steps that only talk to PrintLogic.    *)
(***************************************************************************)
Settled == \A o \in Orders, q \in Quotes : 
    IsOrderOf(order, o, q) => IsOrderOf(order', o, q)

LEMMA OrdersSettle == TypeOK /\ [Next]_vars => Settled
<1> SUFFICES ASSUME TypeOK, [Next]_vars,
                    NEW o \in Orders, NEW q \in Quotes, IsOrderOf(order, o, q)
             PROVE  IsOrderOf(order', o, q)
  BY DEF Settled
<1>1. ASSUME NEW w \in Workers, NEW n \in Orders, Create(w, n)
      PROVE  IsOrderOf(order', o, q)
  BY <1>1 DEF Create, TypeOK, IsOrderOf
<1>2. ASSUME NEW w \in Workers, CancelOrder(w) PROVE IsOrderOf(order', o, q)
  BY <1>2 DEF CancelOrder, TypeOK, IsOrderOf
<1>3. CASE UNCHANGED order
  BY <1>3 DEF IsOrderOf
<1> QED
  BY <1>1, <1>2, <1>3
  DEF Next, Push, Cancel, PushDry, PushReal, Created, CreatedUnnoticed,
      NotCreated, CancelDry, CancelReal, Cancelled, CancelledUnnoticed,
      NotCancelled, Commit, DeleteQuote, SetDryRun, Crash, Start, vars

\* A step that leaves the rows alone and gives one worker a true claim.
LEMMA OneClaim ==
  ASSUME TypeOK, RealIdsAreTrue, Settled, UNCHANGED rows,
         NEW w \in Workers,
         \A v \in Workers \ {w} : req'[v] = req[v],
         req'[w].quote \in Quotes,
         req'[w].id \in Orders => IsOrderOf(order', req'[w].id, req'[w].quote)
  PROVE  RealIdsAreTrue'
<1>1. ASSUME NEW q \in Quotes, rows'[q] \in Orders
      PROVE  IsOrderOf(order', rows'[q], q)
  <2>1. rows[q] = rows'[q] OBVIOUS
  <2>2. IsOrderOf(order, rows[q], q) BY <1>1, <2>1 DEF RealIdsAreTrue
  <2> QED BY <1>1, <2>1, <2>2 DEF Settled, IsOrderOf
<1>2. ASSUME NEW v \in Workers, req'[v].pc # "idle", req'[v].id \in Orders
      PROVE  IsOrderOf(order', req'[v].id, req'[v].quote)
  <2>1. CASE v = w BY <1>2, <2>1 DEF IsOrderOf
  <2>2. CASE v # w
    <3>1. req'[v] = req[v] BY <2>2
    <3>2. IsOrderOf(order, req[v].id, req[v].quote) /\ req[v].quote \in Quotes
      BY <1>2, <3>1 DEF RealIdsAreTrue, TypeOK
    <3> QED BY <1>2, <3>1, <3>2 DEF Settled, IsOrderOf
  <2> QED BY <2>1, <2>2
<1> QED BY <1>1, <1>2 DEF RealIdsAreTrue, IsOrderOf

LEMMA TrueStep == TypeOK /\ RealIdsAreTrue /\ [Next]_vars => RealIdsAreTrue'
<1> SUFFICES ASSUME TypeOK, RealIdsAreTrue, [Next]_vars PROVE RealIdsAreTrue'
  OBVIOUS
<1>s. Settled BY OrdersSettle
<1>m. Dry \notin Orders /\ None \notin Orders /\ Keep \notin Orders
  BY PLAssumption
\* A request begins with an id the row has, or with none.
<1>1. ASSUME NEW w \in Workers, NEW q \in Quotes, NEW pc, NEW id,
             Start(w, q, pc, id), id \in Orders => id = rows[q]
      PROVE  RealIdsAreTrue'
  <2>1. req'[w].quote = q /\ req'[w].id = id /\ UNCHANGED <<rows, order>>
    BY <1>1 DEF Start, TypeOK
  <2>2. \A v \in Workers \ {w} : req'[v] = req[v]
    BY <1>1 DEF Start, TypeOK
  <2>3. id \in Orders => IsOrderOf(order', id, q)
    BY <1>1, <2>1 DEF RealIdsAreTrue, IsOrderOf
  <2> QED BY <1>s, <2>1, <2>2, <2>3, OneClaim DEF IsOrderOf
\* An answer leaves the worker without a claim on an order.
<1>2. ASSUME NEW w \in Workers, req[w].pc # "idle", NEW id \in {None, Keep},
             Outcome(w, id), UNCHANGED rows
      PROVE  RealIdsAreTrue'
  <2>1. req'[w].quote = req[w].quote /\ req'[w].id = id
    BY <1>2 DEF Outcome, TypeOK, Request
  <2>2. \A v \in Workers \ {w} : req'[v] = req[v]
    BY <1>2 DEF Outcome, TypeOK
  <2>3. req[w].quote \in Quotes BY <1>2 DEF TypeOK
  <2> QED BY <1>s, <1>m, <1>2, <2>1, <2>2, <2>3, OneClaim
\* The worker that created an order claims it, for the quote it is of.
<1>3. ASSUME NEW w \in Workers, NEW o \in Orders, Created(w, o)
      PROVE  RealIdsAreTrue'
  <2>1. req'[w].quote = req[w].quote /\ req'[w].id = o
    BY <1>3 DEF Created, Create, Outcome, TypeOK, Request
  <2>2. \A v \in Workers \ {w} : req'[v] = req[v]
    BY <1>3 DEF Created, Outcome, TypeOK
  <2>3. req[w].quote \in Quotes BY <1>3 DEF Created, Create, TypeOK
  <2>4. order'[o].quote = req[w].quote /\ order'[o].state = "open"
    BY <1>3 DEF Created, Create, TypeOK
  <2>5. UNCHANGED rows BY <1>3 DEF Created
  <2> QED BY <1>s, <2>1, <2>2, <2>3, <2>4, <2>5, OneClaim DEF IsOrderOf
\* A commit moves the worker's claim to the row of the same quote.
<1>4. ASSUME NEW w \in Workers, Commit(w) PROVE RealIdsAreTrue'
  <2>1. ASSUME NEW q \in Quotes, rows'[q] \in Orders
        PROVE  IsOrderOf(order, rows'[q], q)
    BY <1>4, <2>1 DEF Commit, RealIdsAreTrue, TypeOK
  <2>2. ASSUME NEW v \in Workers, req'[v].pc # "idle", req'[v].id \in Orders
        PROVE  IsOrderOf(order, req'[v].id, req'[v].quote)
    BY <1>4, <2>2 DEF Commit, RealIdsAreTrue, TypeOK, Idle
  <2>3. UNCHANGED order BY <1>4 DEF Commit
  <2> QED BY <2>1, <2>2, <2>3 DEF RealIdsAreTrue, IsOrderOf
<1>5. ASSUME NEW w \in Workers, Push(w) PROVE RealIdsAreTrue'
  <2>1. ASSUME NEW q \in Quotes, PushDry(w, q) PROVE RealIdsAreTrue'
    BY <1>1, <1>m, <2>1 DEF PushDry
  <2>2. ASSUME NEW q \in Quotes, PushReal(w, q) PROVE RealIdsAreTrue'
    BY <1>1, <2>2 DEF PushReal
  <2>3. ASSUME NEW o \in Orders, CreatedUnnoticed(w, o) PROVE RealIdsAreTrue'
    BY <1>2, <2>3 DEF CreatedUnnoticed, Create
  <2>4. CASE NotCreated(w)
    BY <1>2, <2>4 DEF NotCreated
  <2> QED BY <1>3, <1>5, <2>1, <2>2, <2>3, <2>4 DEF Push
<1>6. ASSUME NEW w \in Workers, Cancel(w) PROVE RealIdsAreTrue'
  <2>1. ASSUME NEW q \in Quotes, CancelDry(w, q) PROVE RealIdsAreTrue'
    BY <1>1, <1>m, <2>1 DEF CancelDry
  <2>2. ASSUME NEW q \in Quotes, CancelReal(w, q) PROVE RealIdsAreTrue'
    BY <1>1, <2>2 DEF CancelReal
  <2>3. CASE Cancelled(w)
    BY <1>2, <2>3 DEF Cancelled, CancelOrder
  <2>4. CASE CancelledUnnoticed(w)
    BY <1>2, <2>4 DEF CancelledUnnoticed, CancelOrder
  <2>5. CASE NotCancelled(w)
    BY <1>2, <2>5 DEF NotCancelled
  <2> QED BY <1>6, <2>1, <2>2, <2>3, <2>4, <2>5 DEF Cancel
<1>7. CASE UNCHANGED <<rows, req, order>>
  BY <1>7 DEF RealIdsAreTrue, IsOrderOf
<1>8. CASE Crash
  BY <1>8 DEF Crash, RealIdsAreTrue, IsOrderOf, Idle
<1> QED
  BY <1>4, <1>5, <1>6, <1>7, <1>8 DEF Next, DeleteQuote, SetDryRun, vars

\* A real id on a row is that of an order made for this very quote.
THEOREM IdsAreTrue == Spec => []RealIdsAreTrue
<1>1. Init => RealIdsAreTrue
  BY PLAssumption DEF Init, RealIdsAreTrue, Idle
<1> QED BY <1>1, TrueStep, TypeCorrect, PTL DEF Spec

(***************************************************************************)
(* Counting.                                                               *)
(***************************************************************************)
\* A subset of a finite set, with at most one element more.
LEMMA Fewer ==
  ASSUME NEW S, IsFiniteSet(S), NEW T, T \subseteq S
  PROVE  /\ IsFiniteSet(T)
         /\ Cardinality(S) \in Nat /\ Cardinality(T) \in Nat
         /\ Cardinality(T) <= Cardinality(S)
         /\ S # {} => Cardinality(S) >= 1
         /\ T = {} => Cardinality(T) = 0
<1>1. IsFiniteSet(T) /\ Cardinality(T) <= Cardinality(S)
  BY FS_Subset
<1>2. Cardinality(S) \in Nat /\ Cardinality(T) \in Nat
  BY <1>1, FS_CardinalityType
<1>3. S # {} => Cardinality(S) # 0
  BY FS_EmptySet
<1>4. T = {} => Cardinality(T) = 0
  BY FS_EmptySet
<1> QED BY <1>1, <1>2, <1>3, <1>4

LEMMA OneMore ==
  ASSUME NEW S, IsFiniteSet(S), NEW x, NEW T, T \subseteq S \cup {x}
  PROVE  /\ IsFiniteSet(T)
         /\ Cardinality(S) \in Nat /\ Cardinality(T) \in Nat
         /\ Cardinality(T) <= Cardinality(S) + 1
<1>1. IsFiniteSet(S \cup {x}) /\ Cardinality(S) \in Nat
      /\ Cardinality(S \cup {x}) <= Cardinality(S) + 1
  <2>1. Cardinality(S) \in Nat BY FS_CardinalityType
  <2> QED BY <2>1, FS_AddElement
<1>2. IsFiniteSet(T) /\ Cardinality(T) \in Nat
      /\ Cardinality(T) <= Cardinality(S \cup {x})
      /\ Cardinality(S \cup {x}) \in Nat
  BY <1>1, Fewer
<1> QED BY <1>1, <1>2

LEMMA OneLess ==
  ASSUME NEW S, IsFiniteSet(S), NEW x \in S, NEW T, T \subseteq S \ {x}
  PROVE  /\ IsFiniteSet(T)
         /\ Cardinality(S) \in Nat /\ Cardinality(T) \in Nat
         /\ Cardinality(T) + 1 <= Cardinality(S)
<1>1. IsFiniteSet(S \ {x}) /\ Cardinality(S) \in Nat
      /\ Cardinality(S \ {x}) = Cardinality(S) - 1
  BY FS_RemoveElement, FS_CardinalityType
<1>2. IsFiniteSet(T) /\ Cardinality(T) \in Nat
      /\ Cardinality(T) <= Cardinality(S \ {x})
  BY <1>1, Fewer
<1> QED BY <1>1, <1>2

LEMMA Both ==
  ASSUME NEW S, IsFiniteSet(S), NEW T, IsFiniteSet(T), NEW U,
         U \subseteq S \cup T
  PROVE  /\ IsFiniteSet(U) /\ Cardinality(U) \in Nat
         /\ Cardinality(S) \in Nat /\ Cardinality(T) \in Nat
         /\ Cardinality(U) <= Cardinality(S) + Cardinality(T)
<1>1. Cardinality(S) \in Nat /\ Cardinality(T) \in Nat
  BY FS_CardinalityType
<1>2. IsFiniteSet(S \cap T) /\ Cardinality(S \cap T) \in Nat
  BY Fewer
<1>3. IsFiniteSet(S \cup T)
      /\ Cardinality(S \cup T) <= Cardinality(S) + Cardinality(T)
  <2>1. /\ IsFiniteSet(S \cup T)
        /\ Cardinality(S \cup T)
             = Cardinality(S) + Cardinality(T) - Cardinality(S \cap T)
    BY FS_Union
  <2> QED BY <1>1, <1>2, <2>1
<1>4. IsFiniteSet(U) /\ Cardinality(U) \in Nat
      /\ Cardinality(U) <= Cardinality(S \cup T)
      /\ Cardinality(S \cup T) \in Nat
  BY <1>3, Fewer
<1> QED BY <1>1, <1>3, <1>4

-----------------------------------------------------------------------------
(***************************************************************************)
(* Begun: idle workers hold nothing, and who is about to create an order   *)
(* holds none yet.                                                         *)
(***************************************************************************)
Begun ==
  \A w \in Workers : /\ req[w].pc = "idle" => req[w] = Idle
                     /\ req[w].pc = "create" => req[w].id \notin Orders

LEMMA BegunStep == TypeOK /\ Begun /\ [Next]_vars => Begun'
<1> SUFFICES ASSUME TypeOK, Begun, [Next]_vars PROVE Begun'
  OBVIOUS
<1>m. Dry \notin Orders /\ None \notin Orders /\ Keep \notin Orders
  BY PLAssumption
<1>1. ASSUME NEW w \in Workers, NEW q \in Quotes, NEW pc, NEW id,
             Start(w, q, pc, id), pc # "idle", pc = "create" => id \notin Orders
      PROVE  Begun'
  BY <1>1 DEF Start, Begun, TypeOK
<1>2. ASSUME NEW w \in Workers, NEW id, Outcome(w, id) PROVE Begun'
  BY <1>2 DEF Outcome, Begun, TypeOK
<1>3. ASSUME NEW w \in Workers, Commit(w) PROVE Begun'
  BY <1>3 DEF Commit, Begun, TypeOK, Idle
<1>4. ASSUME NEW w \in Workers, Push(w) PROVE Begun'
  <2>1. ASSUME NEW q \in Quotes, PushDry(w, q) PROVE Begun'
    BY <1>1, <2>1 DEF PushDry
  <2>2. ASSUME NEW q \in Quotes, PushReal(w, q) PROVE Begun'
    BY <1>1, <2>2 DEF PushReal
  <2> QED BY <1>2, <1>4, <2>1, <2>2 DEF Push, Created, CreatedUnnoticed, NotCreated
<1>5. ASSUME NEW w \in Workers, Cancel(w) PROVE Begun'
  <2>1. ASSUME NEW q \in Quotes, CancelDry(w, q) PROVE Begun'
    BY <1>1, <2>1 DEF CancelDry
  <2>2. ASSUME NEW q \in Quotes, CancelReal(w, q) PROVE Begun'
    BY <1>1, <2>2 DEF CancelReal
  <2> QED BY <1>2, <1>5, <2>1, <2>2
          DEF Cancel, Cancelled, CancelledUnnoticed, NotCancelled
<1>6. CASE UNCHANGED req
  BY <1>6 DEF Begun
<1>7. CASE Crash
  BY <1>7 DEF Crash, Begun, Idle
<1> QED
  BY <1>3, <1>4, <1>5, <1>6, <1>7 DEF Next, DeleteQuote, SetDryRun, vars

-----------------------------------------------------------------------------
(***************************************************************************)
(* What an order may be forgotten for.  Live are the requests of a quote   *)
(* that may still write its row or lose an id.  A request is harmless as   *)
(* long as it loses no open order: whatever it writes, the row has none,   *)
(* or the one it holds itself.  Only a commit by another request on the    *)
(* quote takes that away.                                                  *)
(***************************************************************************)
Live(q) == {w \in Workers : /\ req[w].quote = q
                            /\ ~(req[w].pc = "commit" /\ req[w].id = Keep)}

Harmless(w, q) ==
  \/ req[w].pc # "cancel" /\ rows[q] \notin OpenOrders(q)
  \/ req[w].pc # "create" /\ req[w].id = rows[q]

Spoiled(q) == \E w \in Live(q) : ~Harmless(w, q)

(***************************************************************************)
(* Every request but the first of those that overlap was counted, and each *)
(* can cost one order: so the forgotten orders and the live requests are   *)
(* together at most one more than the mishaps, and not even one more if a  *)
(* request is no longer harmless, or none is there.                        *)
(***************************************************************************)
Covered(q) ==
  /\ IsFiniteSet(OpenOrders(q)) /\ IsFiniteSet(Live(q))
  /\ Cardinality(Forgotten(q)) + Cardinality(Live(q)) <= Mishaps + 1
  /\ Spoiled(q) \/ Live(q) = {} =>
       Cardinality(Forgotten(q)) + Cardinality(Live(q)) <= Mishaps

\* On the quotes deleted meanwhile nothing begins; an order may still come.
Creators(q) == {w \in Workers : req[w].quote = q /\ req[w].pc = "create"}

Bounded(q) ==
  /\ IsFiniteSet(OpenOrders(q)) /\ IsFiniteSet(Creators(q))
  /\ Cardinality(OpenOrders(q)) + Cardinality(Creators(q)) <= Mishaps + 1

OrdersInv ==
  /\ Begun
  /\ \A q \in present : Covered(q)
  /\ \A q \in Quotes \ present : Bounded(q)

LEMMA MishapsType ==
  /\ TypeOK => Mishaps \in Nat
  /\ TypeOK' => Mishaps' \in Nat
BY DEF TypeOK, Mishaps

LEMMA Sizes ==
  ASSUME NEW q, Covered(q)
  PROVE  /\ IsFiniteSet(Forgotten(q))
         /\ Cardinality(Forgotten(q)) \in Nat
         /\ Cardinality(OpenOrders(q)) \in Nat
         /\ Cardinality(Live(q)) \in Nat
         /\ Live(q) # {} => Cardinality(Live(q)) >= 1
         /\ Live(q) = {} => Cardinality(Live(q)) = 0
<1>1. Forgotten(q) \subseteq OpenOrders(q) BY DEF Forgotten
<1>2. IsFiniteSet(OpenOrders(q)) /\ IsFiniteSet(Live(q)) BY DEF Covered
<1> QED BY <1>1, <1>2, Fewer

\* Only worker w moves.
OnlyReq(w) == \A v \in Workers \ {w} : req'[v] = req[v]

\* What can become forgotten when one worker moves: the order on the row,
\* if the row changes, and the one the worker itself held.
LEMMA ForgottenMoves ==
  ASSUME NEW w \in Workers, OnlyReq(w), NEW q, NEW o \in Forgotten(q)',
         o \in OpenOrders(q)
  PROVE  \/ o \in Forgotten(q)
         \/ (o = rows[q] /\ rows'[q] # rows[q])
         \/ /\ req[w].quote = q /\ req[w].id = o
            /\ ~(req'[w].quote = q /\ req'[w].id = o)
BY DEF OnlyReq, Forgotten, InFlight

\* Nobody but the worker that moves ceases to be harmless, unless the row
\* is written.
LEMMA SpoiledMoves ==
  ASSUME NEW w \in Workers, OnlyReq(w), NEW q, rows'[q] = rows[q],
         rows[q] \in OpenOrders(q)' => rows[q] \in OpenOrders(q),
         Spoiled(q)'
  PROVE  Spoiled(q) \/ (w \in Live(q)' /\ ~Harmless(w, q)')
<1>1. PICK v \in Workers : v \in Live(q)' /\ ~Harmless(v, q)'
  BY DEF Spoiled, Live
<1>2. CASE v # w
  <2>1. req'[v] = req[v] BY <1>2 DEF OnlyReq
  <2>2. v \in Live(q) /\ ~Harmless(v, q)
    BY <1>1, <2>1 DEF Live, Harmless
  <2> QED BY <2>2 DEF Spoiled
<1> QED BY <1>1, <1>2

LEMMA LiveMoves ==
  ASSUME NEW w \in Workers, OnlyReq(w), NEW q
  PROVE  /\ Live(q)' \subseteq Live(q) \cup {w}
         /\ Live(q)' \subseteq Live(q) \/ w \in Live(q)'
         /\ w \notin Live(q)' => Live(q)' \subseteq Live(q) \ {w}
         /\ Creators(q)' \subseteq Creators(q) \cup {w}
         /\ w \in Creators(q) \/ w \notin Creators(q)' =>
              Creators(q)' \subseteq Creators(q)
         /\ w \notin Creators(q)' => Creators(q)' \subseteq Creators(q) \ {w}
BY DEF OnlyReq, Live, Creators

\* A step that forgets nothing and spoils nothing.
LEMMA CoveredCalm ==
  ASSUME TypeOK, TypeOK', NEW q, Covered(q), Mishaps' >= Mishaps,
         IsFiniteSet(OpenOrders(q)'),
         Forgotten(q)' \subseteq Forgotten(q), Live(q)' \subseteq Live(q),
         Spoiled(q)' => Spoiled(q)
  PROVE  Covered(q)'
<1>1. /\ IsFiniteSet(Forgotten(q)) /\ Cardinality(Forgotten(q)) \in Nat
      /\ Cardinality(Live(q)) \in Nat
      /\ Live(q) # {} => Cardinality(Live(q)) >= 1
  BY Sizes
<1>2. IsFiniteSet(Live(q)) BY DEF Covered
<1>3. /\ Cardinality(Forgotten(q)') \in Nat
      /\ Cardinality(Forgotten(q)') <= Cardinality(Forgotten(q))
  BY <1>1, Fewer
<1>4. /\ IsFiniteSet(Live(q)') /\ Cardinality(Live(q)') \in Nat
      /\ Cardinality(Live(q)') <= Cardinality(Live(q))
      /\ Live(q)' = {} => Cardinality(Live(q)') = 0
  BY <1>2, Fewer
<1>5. Mishaps \in Nat /\ Mishaps' \in Nat BY MishapsType
<1>6. Cardinality(Forgotten(q)') + Cardinality(Live(q)') <= Mishaps' + 1
  BY <1>1, <1>3, <1>4, <1>5 DEF Covered
<1>7. ASSUME Spoiled(q)'
      PROVE  Cardinality(Forgotten(q)') + Cardinality(Live(q)') <= Mishaps'
  BY <1>1, <1>3, <1>4, <1>5, <1>7 DEF Covered
<1>8. ASSUME Live(q)' = {}
      PROVE  Cardinality(Forgotten(q)') + Cardinality(Live(q)') <= Mishaps'
  <2>1. Cardinality(Forgotten(q)) <= Mishaps
    <3>1. CASE Live(q) = {} BY <1>1, <1>5, <3>1 DEF Covered
    <3>2. CASE Live(q) # {} BY <1>1, <1>5, <3>2 DEF Covered
    <3> QED BY <3>1, <3>2
  <2> QED BY <1>1, <1>3, <1>4, <1>5, <1>8, <2>1
<1> QED BY <1>4, <1>6, <1>7, <1>8 DEF Covered

\* A step that may forget one order and settles for it: a live request ends
\* that was not harmless, or a mishap is counted; or the request that ends
\* forgets nothing.
LEMMA CoveredEnd ==
  ASSUME TypeOK, TypeOK', NEW q, Covered(q), IsFiniteSet(OpenOrders(q)'),
         NEW w \in Live(q), Live(q)' \subseteq Live(q) \ {w}, NEW o,
         Forgotten(q)' \subseteq Forgotten(q) \cup {o},
         \/ (Mishaps' >= Mishaps + 1 /\ (Spoiled(q)' => Spoiled(q)))
         \/ (Mishaps' >= Mishaps /\ ~Harmless(w, q))
         \/ (Mishaps' >= Mishaps /\ Forgotten(q)' \subseteq Forgotten(q))
  PROVE  Covered(q)'
<1>1. /\ IsFiniteSet(Forgotten(q)) /\ Cardinality(Forgotten(q)) \in Nat
  BY Sizes
<1>2. IsFiniteSet(Live(q)) BY DEF Covered
<1>3. /\ Cardinality(Forgotten(q)') \in Nat
      /\ Cardinality(Forgotten(q)') <= Cardinality(Forgotten(q)) + 1
  BY <1>1, OneMore
<1>4. /\ IsFiniteSet(Live(q)') /\ Cardinality(Live(q)') \in Nat
      /\ Cardinality(Live(q)) \in Nat
      /\ Cardinality(Live(q)') + 1 <= Cardinality(Live(q))
  BY <1>2, OneLess
<1>5. Mishaps \in Nat /\ Mishaps' \in Nat BY MishapsType
<1>e. Live(q)' = {} => Cardinality(Live(q)') = 0
  BY FS_EmptySet
<1>6. CASE Mishaps' >= Mishaps + 1 /\ (Spoiled(q)' => Spoiled(q))
  <2>1. Cardinality(Forgotten(q)') + Cardinality(Live(q)') <= Mishaps' + 1
    BY <1>1, <1>3, <1>4, <1>5, <1>6 DEF Covered
  <2>2. Cardinality(Forgotten(q)') + Cardinality(Live(q)') <= Mishaps'
    BY <1>1, <1>3, <1>4, <1>5, <1>6 DEF Covered
  <2> QED BY <1>4, <2>1, <2>2 DEF Covered
<1>7. CASE Mishaps' >= Mishaps /\ ~Harmless(w, q)
  <2>0. Spoiled(q) BY <1>7 DEF Spoiled
  <2>2. Cardinality(Forgotten(q)') + Cardinality(Live(q)') <= Mishaps'
    BY <1>1, <1>3, <1>4, <1>5, <1>7, <2>0 DEF Covered
  <2>1. Cardinality(Forgotten(q)') + Cardinality(Live(q)') <= Mishaps' + 1
    BY <2>2, <1>3, <1>4, <1>5
  <2> QED BY <1>4, <2>1, <2>2 DEF Covered
<1>8. CASE Mishaps' >= Mishaps /\ Forgotten(q)' \subseteq Forgotten(q)
  <2>1. Cardinality(Forgotten(q)') <= Cardinality(Forgotten(q))
    BY <1>1, <1>8, Fewer
  <2>2. Cardinality(Forgotten(q)') + Cardinality(Live(q)') <= Mishaps'
    BY <1>1, <1>3, <1>4, <1>5, <1>8, <2>1 DEF Covered
  <2>3. Cardinality(Forgotten(q)') + Cardinality(Live(q)') <= Mishaps' + 1
    BY <2>2, <1>3, <1>4, <1>5
  <2> QED BY <1>4, <2>3, <2>2 DEF Covered
<1> QED BY <1>6, <1>7, <1>8

\* On a row nobody works on nothing is held but by the row.
LEMMA NobodyThere ==
  ASSUME Begun, NEW q \in Quotes, ~Busy(q)
  PROVE  Live(q) = {}
BY DEF Busy, Live

LEMMA CoveredStart ==
  ASSUME TypeOK, TypeOK', NEW q \in Quotes, Covered(q), Begun,
         NEW w \in Workers, NEW pc \in {"create", "cancel", "commit"}, NEW id,
         Start(w, q, pc, id),
         pc = "create" => rows[q] \notin Orders,
         pc = "cancel" => id = rows[q],
         pc = "commit" => rows[q] \notin Orders
  PROVE  Covered(q)'
<1>1. /\ OnlyReq(w) /\ req'[w] = [pc |-> pc, quote |-> q, id |-> id]
      /\ UNCHANGED <<present, rows, order>>
      /\ req[w] = Idle
  BY DEF Start, TypeOK, OnlyReq, Begun
<1>2. OpenOrders(q)' = OpenOrders(q)
  BY <1>1 DEF OpenOrders
<1>3. Forgotten(q)' \subseteq Forgotten(q)
  <2>1. ASSUME NEW o \in Forgotten(q)' PROVE o \in Forgotten(q)
    <3>1. o \in OpenOrders(q) BY <1>2 DEF Forgotten
    <3>2. req[w].quote # q BY <1>1, PLAssumption DEF Idle
    <3> QED BY <1>1, <3>1, <3>2, ForgottenMoves
  <2> QED BY <2>1
<1>4. rows[q] \in OpenOrders(q) => rows[q] \in Orders
  BY DEF OpenOrders
<1>5. Harmless(w, q)'
  BY <1>1, <1>2, <1>4 DEF Harmless
<1>6. Spoiled(q)' => Spoiled(q)
  BY <1>1, <1>2, <1>5, SpoiledMoves
<1>7. Live(q)' \subseteq Live(q) \cup {w}
  BY <1>1, LiveMoves
<1>8. /\ IsFiniteSet(OpenOrders(q)) /\ IsFiniteSet(Live(q))
      /\ IsFiniteSet(Forgotten(q))
  BY Sizes DEF Covered
<1>9. /\ Cardinality(Forgotten(q)) \in Nat /\ Cardinality(Forgotten(q)') \in Nat
      /\ Cardinality(Forgotten(q)') <= Cardinality(Forgotten(q))
  BY <1>3, <1>8, Fewer
<1>10. /\ IsFiniteSet(Live(q)') /\ Cardinality(Live(q)) \in Nat
       /\ Cardinality(Live(q)') \in Nat
       /\ Cardinality(Live(q)') <= Cardinality(Live(q)) + 1
  BY <1>7, <1>8, OneMore
<1>11. Mishaps \in Nat /\ Mishaps' \in Nat BY MishapsType
<1>12. Live(q)' = {} => Cardinality(Live(q)') = 0
  BY FS_EmptySet
<1>13. CASE Busy(q)
  <2>1. Mishaps' = Mishaps + 1
    BY <1>13 DEF Start, Mishaps, TypeOK
  <2>2. Cardinality(Forgotten(q)') + Cardinality(Live(q)') <= Mishaps' + 1
    BY <1>9, <1>10, <1>11, <2>1 DEF Covered
  <2>3. Spoiled(q)' => Cardinality(Forgotten(q)') + Cardinality(Live(q)') <= Mishaps'
    BY <1>6, <1>9, <1>10, <1>11, <2>1 DEF Covered
  <2>4. Live(q)' = {} => Cardinality(Forgotten(q)') + Cardinality(Live(q)') <= Mishaps'
    BY <1>9, <1>10, <1>11, <1>12, <2>1 DEF Covered
  <2> QED BY <1>2, <1>8, <1>10, <2>2, <2>3, <2>4 DEF Covered
<1>14. CASE ~Busy(q)
  <2>0. Live(q) = {} BY <1>14, NobodyThere
  <2>1. Mishaps' = Mishaps
    BY <1>14 DEF Start, Mishaps, TypeOK
  <2>2. Cardinality(Live(q)) = 0 BY <2>0, FS_EmptySet
  <2>3. Cardinality(Forgotten(q)) <= Mishaps
    BY <1>9, <1>11, <2>0, <2>2 DEF Covered
  <2>4. ~Spoiled(q)' BY <1>6, <2>0 DEF Spoiled
  <2>5. Cardinality(Forgotten(q)') + Cardinality(Live(q)') <= Mishaps' + 1
    BY <1>9, <1>10, <1>11, <2>1, <2>2, <2>3
  <2>6. Live(q)' = {} => Cardinality(Forgotten(q)') + Cardinality(Live(q)') <= Mishaps'
    BY <1>9, <1>10, <1>11, <1>12, <2>1, <2>3
  <2> QED BY <1>2, <1>8, <1>10, <2>4, <2>5, <2>6 DEF Covered
<1> QED BY <1>13, <1>14

\* What a call does to the open orders.
LEMMA OpenMoves ==
  ASSUME TypeOK, NEW w \in Workers, NEW q \in Quotes
  PROVE  /\ \A o \in Orders : Create(w, o) =>
              /\ OpenOrders(q)' \subseteq OpenOrders(q) \cup {o}
              /\ req[w].quote # q => OpenOrders(q)' \subseteq OpenOrders(q)
         /\ CancelOrder(w) => /\ OpenOrders(q)' \subseteq OpenOrders(q)
                              /\ req[w].id \notin OpenOrders(q)'
         /\ order' = order => OpenOrders(q)' = OpenOrders(q)
<1>1. ASSUME NEW o \in Orders, Create(w, o)
      PROVE  /\ OpenOrders(q)' \subseteq OpenOrders(q) \cup {o}
             /\ req[w].quote # q => OpenOrders(q)' \subseteq OpenOrders(q)
  BY <1>1 DEF Create, OpenOrders, TypeOK
<1>2. ASSUME CancelOrder(w)
      PROVE  /\ OpenOrders(q)' \subseteq OpenOrders(q)
             /\ req[w].id \notin OpenOrders(q)'
  BY <1>2 DEF CancelOrder, OpenOrders, TypeOK
<1> QED BY <1>1, <1>2 DEF OpenOrders

\* Requests for other quotes do not matter.
LEMMA ForgottenElsewhere ==
  ASSUME NEW w \in Workers, OnlyReq(w), NEW q, req[w].quote # q,
         rows'[q] = rows[q], OpenOrders(q)' \subseteq OpenOrders(q)
  PROVE  Forgotten(q)' \subseteq Forgotten(q)
<1> SUFFICES ASSUME NEW o \in Forgotten(q)' PROVE o \in Forgotten(q)
  OBVIOUS
<1>1. o \in OpenOrders(q)' BY DEF Forgotten
<1> QED BY <1>1, ForgottenMoves

LEMMA CoveredElsewhere ==
  ASSUME TypeOK, TypeOK', NEW q, Covered(q), NEW w \in Workers, OnlyReq(w),
         req[w].quote # q, req'[w].quote # q, rows'[q] = rows[q],
         OpenOrders(q)' \subseteq OpenOrders(q), Mishaps' >= Mishaps
  PROVE  Covered(q)'
<1>1. Forgotten(q)' \subseteq Forgotten(q)
  BY ForgottenElsewhere
<1>2. w \notin Live(q)' /\ Live(q)' \subseteq Live(q)
  <2>1. w \notin Live(q)' BY DEF Live
  <2> QED BY <2>1, LiveMoves
<1>3. Spoiled(q)' => Spoiled(q)
  BY <1>2, SpoiledMoves
<1>4. IsFiniteSet(OpenOrders(q)')
  BY FS_Subset DEF Covered
<1> QED BY <1>1, <1>2, <1>3, <1>4, CoveredCalm

\* The order came and the worker has its id.
LEMMA CoveredCreated ==
  ASSUME TypeOK, TypeOK', Begun, RealIdsAreTrue, NEW q \in Quotes,
         Covered(q), NEW w \in Workers, NEW o \in Orders, Created(w, o)
  PROVE  Covered(q)'
<1>1. /\ OnlyReq(w) /\ req'[w].quote = req[w].quote /\ req'[w].id = o
      /\ req'[w].pc = "commit" /\ req[w].pc = "create" /\ req[w].id \notin Orders
      /\ rows' = rows /\ Create(w, o)
  BY DEF Created, Create, Outcome, TypeOK, Request, OnlyReq, Begun
<1>2. Mishaps' = Mishaps
  BY DEF Created, Mishaps
<1>i. Mishaps \in Nat BY MishapsType
<1>3. CASE req[w].quote # q
  BY <1>1, <1>2, <1>i, <1>3, OpenMoves, CoveredElsewhere
<1>4. CASE req[w].quote = q
  <2>1. OpenOrders(q)' \subseteq OpenOrders(q) \cup {o}
    BY <1>1, OpenMoves
  <2>2. o \in InFlight(q)'
    BY <1>1, <1>4 DEF InFlight
  <2>3. ASSUME NEW n \in Forgotten(q)' PROVE n \in Forgotten(q)
    <3>1. n \in OpenOrders(q) /\ n \in Orders
      BY <2>1, <2>2, <2>3 DEF Forgotten, OpenOrders
    <3> QED BY <1>1, <2>3, <3>1, ForgottenMoves
  <2>4. w \in Live(q) BY <1>1, <1>4 DEF Live
  <2>5. Live(q)' \subseteq Live(q)
    BY <1>1, <2>4, LiveMoves
  <2>6. Spoiled(q)' => Spoiled(q)
    <3>1. order[o].state = "unissued" BY <1>1 DEF Create
    <3>2. rows[q] # o
      BY <3>1 DEF RealIdsAreTrue, IsOrderOf
    <3>3. rows[q] \in OpenOrders(q)' => rows[q] \in OpenOrders(q)
      BY <2>1, <3>2
    <3>4. ASSUME ~Harmless(w, q)' PROVE ~Harmless(w, q)
      BY <1>1, <3>3, <3>4 DEF Harmless
    <3> QED BY <1>1, <2>4, <3>3, <3>4, SpoiledMoves DEF Spoiled
  <2>7. IsFiniteSet(OpenOrders(q)')
    BY <2>1, OneMore DEF Covered
  <2> QED BY <1>2, <1>i, <2>3, <2>5, <2>6, <2>7, CoveredCalm
<1> QED BY <1>3, <1>4

LEMMA CoveredUnnoticed ==
  ASSUME TypeOK, TypeOK', Begun, RealIdsAreTrue, NEW q \in Quotes,
         Covered(q), NEW w \in Workers, NEW o \in Orders,
         CreatedUnnoticed(w, o)
  PROVE  Covered(q)'
<1>1. /\ OnlyReq(w) /\ req'[w].quote = req[w].quote /\ req'[w].id = Keep
      /\ req'[w].pc = "commit" /\ req[w].pc = "create" /\ req[w].id \notin Orders
      /\ rows' = rows /\ Create(w, o)
  BY DEF CreatedUnnoticed, Create, Outcome, TypeOK, Request, OnlyReq, Begun
<1>2. Mishaps \in Nat /\ Mishaps' = Mishaps + 1
  BY MishapsType DEF CreatedUnnoticed, Lose, Mishaps, TypeOK
<1>3. CASE req[w].quote # q
  BY <1>1, <1>2, <1>3, OpenMoves, CoveredElsewhere
<1>4. CASE req[w].quote = q
  <2>1. OpenOrders(q)' \subseteq OpenOrders(q) \cup {o}
    BY <1>1, OpenMoves
  <2>3. ASSUME NEW n \in Forgotten(q)' PROVE n \in Forgotten(q) \cup {o}
    <3>1. n \in OpenOrders(q) \cup {o} /\ n \in Orders
      BY <2>1, <2>3 DEF Forgotten, OpenOrders
    <3> QED BY <1>1, <2>3, <3>1, ForgottenMoves
  <2>4. w \in Live(q) /\ w \notin Live(q)' BY <1>1, <1>4 DEF Live
  <2>5. Live(q)' \subseteq Live(q) \ {w}
    BY <1>1, <2>4, LiveMoves
  <2>6. Spoiled(q)' => Spoiled(q)
    <3>1. order[o].state = "unissued" BY <1>1 DEF Create
    <3>2. rows[q] # o
      BY <3>1 DEF RealIdsAreTrue, IsOrderOf
    <3>3. rows[q] \in OpenOrders(q)' => rows[q] \in OpenOrders(q)
      BY <2>1, <3>2
    <3> QED BY <1>1, <2>4, <3>3, SpoiledMoves
  <2>7. IsFiniteSet(OpenOrders(q)')
    BY <2>1, OneMore DEF Covered
  <2>8. Forgotten(q)' \subseteq Forgotten(q) \cup {o}
    BY <2>3
  <2> QED BY <1>2, <2>4, <2>5, <2>6, <2>7, <2>8, CoveredEnd
<1> QED BY <1>3, <1>4

\* What a worker held and an answer took from it is no open order any more.
LEMMA CoveredAnswer ==
  ASSUME TypeOK, TypeOK', Begun, NEW q \in Quotes, Covered(q),
         NEW w \in Workers,
         NotCreated(w) \/ Cancelled(w) \/ CancelledUnnoticed(w)
  PROVE  Covered(q)'
<1>1. /\ OnlyReq(w) /\ req'[w].quote = req[w].quote
      /\ req'[w].id \in {None, Keep} /\ req'[w].pc = "commit"
      /\ req[w].pc \in {"create", "cancel"} /\ rows' = rows
  BY DEF NotCreated, Cancelled, CancelledUnnoticed, CancelOrder,
         Outcome, TypeOK, Request, OnlyReq
<1>2. Mishaps \in Nat /\ Mishaps' \in Nat /\ Mishaps' >= Mishaps
  <2>1. Mishaps \in Nat /\ Mishaps' \in Nat BY MishapsType
  <2> QED BY <2>1 DEF NotCreated, Cancelled, CancelledUnnoticed, Lose,
                   Mishaps, TypeOK
<1>o. /\ OpenOrders(q)' \subseteq OpenOrders(q)
      /\ req[w].id \notin OpenOrders(q)'
  <2>1. CASE NotCreated(w)
    <3>1. req[w].id \notin Orders BY <2>1 DEF NotCreated, Begun
    <3>2. OpenOrders(q)' = OpenOrders(q) BY <2>1, OpenMoves DEF NotCreated
    <3> QED BY <3>1, <3>2 DEF OpenOrders
  <2>2. CASE ~NotCreated(w)
    BY <2>2, OpenMoves DEF Cancelled, CancelledUnnoticed
  <2> QED BY <2>1, <2>2
<1>f. IsFiniteSet(OpenOrders(q)') BY <1>o, FS_Subset DEF Covered
<1>3. CASE req[w].quote # q
  BY <1>1, <1>2, <1>o, <1>3, CoveredElsewhere
<1>4. CASE req[w].quote = q
  <2>1. w \in Live(q) BY <1>1, <1>4 DEF Live
  <2>2. Live(q)' \subseteq Live(q) BY <1>1, <2>1, LiveMoves
  <2>3. ASSUME NEW n \in Forgotten(q)' PROVE n \in Forgotten(q)
    <3>1. n \in OpenOrders(q) /\ n # req[w].id
      BY <1>o, <2>3 DEF Forgotten
    <3> QED BY <1>1, <2>3, <3>1, ForgottenMoves
  <2>4. ASSUME ~Harmless(w, q)' PROVE Spoiled(q)
    <3>1. rows[q] \in OpenOrders(q)' /\ rows[q] \in OpenOrders(q)
      BY <1>1, <1>o, <2>4 DEF Harmless
    <3>2. ~Harmless(w, q) BY <1>1, <1>o, <3>1 DEF Harmless
    <3> QED BY <2>1, <3>2 DEF Spoiled
  <2>5. Spoiled(q)' => Spoiled(q)
    BY <1>1, <1>o, <2>4, SpoiledMoves
  <2> QED BY <1>2, <1>f, <2>2, <2>3, <2>5, CoveredCalm
<1> QED BY <1>3, <1>4

\* PrintLogic refused: the worker lets go of the id it wanted to cancel.
LEMMA CoveredRefusal ==
  ASSUME TypeOK, TypeOK', Begun, NEW q \in Quotes, Covered(q),
         NEW w \in Workers, NotCancelled(w)
  PROVE  Covered(q)'
<1>1. /\ OnlyReq(w) /\ req'[w].quote = req[w].quote
      /\ req'[w].id = Keep /\ req'[w].pc = "commit"
      /\ req[w].pc = "cancel" /\ rows' = rows
  BY DEF NotCancelled, Outcome, TypeOK, Request, OnlyReq
<1>2. Mishaps \in Nat /\ Mishaps' = Mishaps
  BY MishapsType DEF NotCancelled, Mishaps
<1>o. OpenOrders(q)' = OpenOrders(q)
  BY OpenMoves DEF NotCancelled
<1>f. IsFiniteSet(OpenOrders(q)') BY <1>o DEF Covered
<1>3. CASE req[w].quote # q
  BY <1>1, <1>2, <1>o, <1>3, CoveredElsewhere
<1>4. CASE req[w].quote = q
  <2>1. w \in Live(q) /\ w \notin Live(q)' BY <1>1, <1>4 DEF Live
  <2>2. Live(q)' \subseteq Live(q) \ {w} BY <1>1, <2>1, LiveMoves
  <2>3. ASSUME NEW n \in Forgotten(q)'
        PROVE  n \in Forgotten(q) \/ (n = req[w].id /\ n # rows[q])
    <3>1. n \in OpenOrders(q) /\ n # rows[q]
      BY <1>1, <1>o, <2>3 DEF Forgotten
    <3> QED BY <1>1, <2>3, <3>1, ForgottenMoves
  <2>4. CASE Harmless(w, q)
    <3>1. Forgotten(q)' \subseteq Forgotten(q)
      BY <1>1, <2>3, <2>4 DEF Harmless
    <3>2. Forgotten(q)' \subseteq Forgotten(q) \cup {w} BY <3>1
    <3> QED BY <1>2, <1>f, <2>1, <2>2, <3>1, <3>2, CoveredEnd
  <2>5. CASE ~Harmless(w, q)
    <3>1. Forgotten(q)' \subseteq Forgotten(q) \cup {req[w].id} BY <2>3
    <3> QED BY <1>2, <1>f, <2>1, <2>2, <2>5, <3>1, CoveredEnd
  <2> QED BY <2>4, <2>5
<1> QED BY <1>3, <1>4

\* A commit may overwrite an order, and leaves the others behind with what
\* they read.
LEMMA CoveredCommit ==
  ASSUME TypeOK, TypeOK', Begun, NEW q \in present, Covered(q),
         NEW w \in Workers, Commit(w)
  PROVE  Covered(q)'
<1>0. q \in Quotes BY DEF TypeOK
<1>1. /\ OnlyReq(w) /\ req'[w] = Idle /\ req[w].pc = "commit"
      /\ w \notin Live(q)' /\ req'[w].quote # q
  BY <1>0, PLAssumption DEF Commit, TypeOK, OnlyReq, Idle, Live
<1>2. Mishaps \in Nat /\ Mishaps' = Mishaps
  BY MishapsType DEF Commit, Mishaps
<1>o. OpenOrders(q)' = OpenOrders(q)
  BY <1>0, OpenMoves DEF Commit
<1>f. IsFiniteSet(OpenOrders(q)') BY <1>o DEF Covered
<1>l. Live(q)' \subseteq Live(q) \ {w} BY <1>1, LiveMoves
<1>3. CASE req[w].quote # q
  <2>1. rows'[q] = rows[q] BY <1>0, <1>3 DEF Commit, TypeOK
  <2> QED BY <1>1, <1>2, <1>o, <1>3, <2>1, CoveredElsewhere
<1>4. CASE req[w].quote = q /\ req[w].id = Keep
  <2>1. rows' = rows BY <1>4 DEF Commit
  <2>2. ASSUME NEW n \in Forgotten(q)' PROVE n \in Forgotten(q)
    <3>1. n \in OpenOrders(q) /\ n # Keep
      BY <1>o, <2>2, PLAssumption DEF Forgotten, OpenOrders
    <3> QED BY <1>1, <1>4, <2>1, <2>2, <3>1, ForgottenMoves
  <2>3. Spoiled(q)' => Spoiled(q)
    BY <1>1, <1>o, <2>1, SpoiledMoves
  <2> QED BY <1>2, <1>f, <1>l, <2>2, <2>3, CoveredCalm
<1>5. CASE req[w].quote = q /\ req[w].id # Keep
  <2>1. rows'[q] = req[w].id BY <1>0, <1>5 DEF Commit, TypeOK
  <2>2. w \in Live(q) BY <1>5 DEF Live
  <2>3. ASSUME NEW n \in Forgotten(q)'
        PROVE  n \in Forgotten(q) \/ (n = rows[q] /\ n # req[w].id)
    <3>1. n \in OpenOrders(q) /\ n # req[w].id
      BY <1>o, <2>1, <2>3 DEF Forgotten
    <3> QED BY <1>1, <2>1, <2>3, <3>1, ForgottenMoves
  <2>4. CASE Harmless(w, q)
    <3>1. Forgotten(q)' \subseteq Forgotten(q)
      <4>1. ASSUME NEW n \in Forgotten(q)' PROVE n \in Forgotten(q)
        <5>1. n \in OpenOrders(q) BY <1>o, <4>1 DEF Forgotten
        <5> QED BY <1>1, <2>3, <2>4, <5>1 DEF Harmless
      <4> QED BY <4>1
    <3>2. Forgotten(q)' \subseteq Forgotten(q) \cup {w} BY <3>1
    <3> QED BY <1>2, <1>f, <1>l, <2>2, <3>1, <3>2, CoveredEnd
  <2>5. CASE ~Harmless(w, q)
    <3>1. Forgotten(q)' \subseteq Forgotten(q) \cup {rows[q]} BY <2>3
    <3> QED BY <1>2, <1>f, <1>l, <2>2, <2>5, <3>1, CoveredEnd
  <2> QED BY <2>4, <2>5
<1> QED BY <1>3, <1>4, <1>5

\* At a restart every live request forgets what it held, and one mishap pays
\* for the one that was never counted.
LEMMA CoveredCrash ==
  ASSUME TypeOK, TypeOK', NEW q \in Quotes, Covered(q), Crash
  PROVE  Covered(q)'
<1> DEFINE Held == {req[v].id : v \in Live(q)}
<1>1. Live(q)' = {} /\ InFlight(q)' = {} /\ rows' = rows /\ order' = order
  <2>1. \A v \in Workers : req'[v].quote # q
    BY PLAssumption DEF Crash, Idle
  <2>2. rows' = rows /\ order' = order BY DEF Crash
  <2> QED BY <2>1, <2>2 DEF Live, InFlight
<1>2. Mishaps \in Nat /\ Mishaps' = Mishaps + 1
  <2>1. Mishaps \in Nat BY MishapsType
  <2>2. used' = [used EXCEPT !.crashes = used.crashes + 1] BY DEF Crash
  <2>3. used \in [requests: Nat, overlaps: Nat, crashes: Nat, lost: Nat]
    BY DEF TypeOK
  <2> QED BY ONLY <2>1, <2>2, <2>3 DEF Mishaps
<1>3. OpenOrders(q)' = OpenOrders(q)
  BY <1>1 DEF OpenOrders
<1>4. Forgotten(q)' \subseteq Forgotten(q) \cup Held
  <2> SUFFICES ASSUME NEW o \in Forgotten(q)', o \notin Forgotten(q)
               PROVE  o \in Held
    OBVIOUS
  <2>1. o \in OpenOrders(q) /\ o # rows[q] /\ o # Keep
    BY <1>1, <1>3, PLAssumption DEF Forgotten, OpenOrders
  <2>2. PICK v \in Workers : req[v].quote = q /\ req[v].id = o
    BY <2>1 DEF Forgotten, InFlight
  <2> QED BY <2>1, <2>2 DEF Live
<1>5. /\ IsFiniteSet(Live(q)) /\ IsFiniteSet(OpenOrders(q))
      /\ IsFiniteSet(Forgotten(q))
  BY Sizes DEF Covered
<1>6. IsFiniteSet(Held) /\ Cardinality(Held) <= Cardinality(Live(q))
  <2>1. [v \in Live(q) |-> req[v].id] \in Surjection(Live(q), Held)
    BY DEF Surjection
  <2> QED BY <1>5, <2>1, FS_Surjection
<1> HIDE DEF Held
<1>7. /\ Cardinality(Forgotten(q)') \in Nat /\ Cardinality(Held) \in Nat
      /\ Cardinality(Forgotten(q)') <= Cardinality(Forgotten(q)) + Cardinality(Held)
  BY <1>4, <1>5, <1>6, Both
<1>8. Cardinality(Forgotten(q)) \in Nat /\ Cardinality(Live(q)) \in Nat
  BY Sizes
<1>9. Cardinality(Forgotten(q)') <= Mishaps'
  BY <1>2, <1>6, <1>7, <1>8 DEF Covered
<1>10. IsFiniteSet(Live(q)') /\ Cardinality(Live(q)') = 0
  BY <1>1, FS_EmptySet
<1>11. /\ Cardinality(Forgotten(q)') + Cardinality(Live(q)') <= Mishaps'
       /\ Cardinality(Forgotten(q)') + Cardinality(Live(q)') <= Mishaps' + 1
  BY <1>2, <1>7, <1>9, <1>10
<1> QED BY <1>3, <1>5, <1>10, <1>11 DEF Covered

LEMMA CoveredStep ==
  ASSUME TypeOK, TypeOK', Begun, RealIdsAreTrue, [Next]_vars,
         NEW q \in present, q \in present', Covered(q)
  PROVE  Covered(q)'
<1>q. q \in Quotes BY DEF TypeOK
<1>m. Dry \notin Orders /\ None \notin Orders /\ Keep \notin Orders
  BY PLAssumption
<1>1. ASSUME NEW w \in Workers, NEW p \in Quotes,
             NEW pc \in {"create", "cancel", "commit"}, NEW id,
             Start(w, p, pc, id),
             pc = "create" => rows[p] \notin Orders,
             pc = "cancel" => id = rows[p],
             pc = "commit" => rows[p] \notin Orders
      PROVE  Covered(q)'
  <2>1. CASE p = q BY <1>1, <2>1, CoveredStart
  <2>2. CASE p # q
    <3>1. /\ OnlyReq(w) /\ req'[w].quote = p /\ req[w] = Idle
          /\ UNCHANGED <<rows, order>>
      BY <1>1 DEF Start, TypeOK, OnlyReq, Begun
    <3>2. req[w].quote # q BY <1>q, <3>1, PLAssumption DEF Idle
    <3>3. OpenOrders(q)' = OpenOrders(q) BY <3>1 DEF OpenOrders
    <3>4. Mishaps' >= Mishaps
      BY <1>1 DEF Start, Mishaps, TypeOK
    <3> QED BY <2>2, <3>1, <3>2, <3>3, <3>4, CoveredElsewhere
  <2> QED BY <2>1, <2>2
<1>2. ASSUME NEW w \in Workers, Push(w) PROVE Covered(q)'
  <2>1. ASSUME NEW p \in Quotes, PushDry(w, p) PROVE Covered(q)'
    BY <1>1, <2>1 DEF PushDry
  <2>2. ASSUME NEW p \in Quotes, PushReal(w, p) PROVE Covered(q)'
    BY <1>1, <2>2 DEF PushReal
  <2> QED BY <1>q, <1>2, <2>1, <2>2, CoveredCreated, CoveredUnnoticed,
             CoveredAnswer DEF Push
<1>3. ASSUME NEW w \in Workers, Cancel(w) PROVE Covered(q)'
  <2>1. ASSUME NEW p \in Quotes, CancelDry(w, p) PROVE Covered(q)'
    BY <1>1, <1>m, <2>1 DEF CancelDry
  <2>2. ASSUME NEW p \in Quotes, CancelReal(w, p) PROVE Covered(q)'
    BY <1>1, <2>2 DEF CancelReal
  <2> QED BY <1>q, <1>3, <2>1, <2>2, CoveredAnswer, CoveredRefusal DEF Cancel
<1>4. CASE UNCHANGED <<rows, req, order, used>>
  <2>1. /\ Forgotten(q)' = Forgotten(q) /\ Live(q)' = Live(q)
        /\ Spoiled(q)' = Spoiled(q) /\ OpenOrders(q)' = OpenOrders(q)
        /\ Mishaps' = Mishaps
    BY <1>4 DEF Forgotten, InFlight, Live, Spoiled, Harmless, OpenOrders, Mishaps
  <2> QED BY <2>1 DEF Covered
<1> QED
  BY <1>q, <1>2, <1>3, <1>4, CoveredCommit, CoveredCrash
  DEF Next, DeleteQuote, SetDryRun, vars

-----------------------------------------------------------------------------
(***************************************************************************)
(* Of one quote there are few open orders: what is not forgotten is on the *)
(* row or held by a live request, and a harmless request that holds an     *)
(* open order next to one on the row holds the same one.                   *)
(***************************************************************************)
LEMMA CoveredIsBounded ==
  ASSUME TypeOK, Begun, NEW q \in Quotes, Covered(q)
  PROVE  Bounded(q)
<1> DEFINE Holders == Live(q) \ Creators(q)
           Held == {req[v].id : v \in Holders}
<1>1. /\ IsFiniteSet(Live(q)) /\ IsFiniteSet(OpenOrders(q))
      /\ IsFiniteSet(Forgotten(q)) /\ Mishaps \in Nat
      /\ Cardinality(Forgotten(q)) \in Nat /\ Cardinality(Live(q)) \in Nat
      /\ Live(q) # {} => Cardinality(Live(q)) >= 1
      /\ Cardinality(OpenOrders(q)) \in Nat
  BY Sizes, MishapsType DEF Covered
<1>2. Creators(q) \subseteq Live(q)
  BY DEF Creators, Live
<1>3. /\ IsFiniteSet(Creators(q)) /\ Cardinality(Creators(q)) \in Nat
      /\ IsFiniteSet(Holders) /\ Cardinality(Holders) \in Nat
      /\ Cardinality(Holders) = Cardinality(Live(q)) - Cardinality(Creators(q))
  <2>1. IsFiniteSet(Creators(q)) /\ Cardinality(Creators(q)) \in Nat
    BY <1>1, <1>2, Fewer
  <2>2. Holders \subseteq Live(q) OBVIOUS
  <2>3. IsFiniteSet(Holders) /\ Cardinality(Holders) \in Nat
    BY <1>1, <2>2, Fewer
  <2>4. Live(q) \cap Creators(q) = Creators(q) BY <1>2
  <2>5. Cardinality(Holders) = Cardinality(Live(q)) - Cardinality(Creators(q))
    BY <1>1, <2>4, FS_Difference
  <2> QED BY <2>1, <2>3, <2>5
<1>4. IsFiniteSet(Held) /\ Cardinality(Held) \in Nat
      /\ Cardinality(Held) <= Cardinality(Holders)
  <2>1. [v \in Holders |-> req[v].id] \in Surjection(Holders, Held)
    BY DEF Surjection
  <2>2. IsFiniteSet(Held) /\ Cardinality(Held) <= Cardinality(Holders)
    BY <1>3, <2>1, FS_Surjection
  <2> QED BY <2>2, FS_CardinalityType
<1>5. ASSUME NEW o \in OpenOrders(q), o \notin Forgotten(q), o # rows[q]
      PROVE  o \in Held
  <2>1. PICK v \in Workers : req[v].quote = q /\ req[v].id = o
    BY <1>5 DEF Forgotten, InFlight
  <2>2. o \in Orders /\ o # Keep BY PLAssumption DEF OpenOrders
  <2>3. v \in Holders
    BY <2>1, <2>2 DEF Live, Creators, Begun
  <2> QED BY <2>1, <2>3
<1> HIDE DEF Held
<1>6. CASE Spoiled(q)
  <2>1. Cardinality(Forgotten(q)) + Cardinality(Live(q)) <= Mishaps
    BY <1>6 DEF Covered
  <2>2. OpenOrders(q) \subseteq (Forgotten(q) \cup {rows[q]}) \cup Held
    BY <1>5
  <2>3. /\ IsFiniteSet(Forgotten(q) \cup {rows[q]})
        /\ Cardinality(Forgotten(q) \cup {rows[q]}) \in Nat
        /\ Cardinality(Forgotten(q) \cup {rows[q]}) <= Cardinality(Forgotten(q)) + 1
    BY <1>1, OneMore
  <2>4. Cardinality(OpenOrders(q))
          <= Cardinality(Forgotten(q) \cup {rows[q]}) + Cardinality(Held)
    BY <1>4, <2>2, <2>3, Both
  <2> HIDE DEF Holders
  <2> QED BY <1>1, <1>3, <1>4, <2>1, <2>3, <2>4 DEF Bounded
<1>7. CASE ~Spoiled(q) /\ rows[q] \notin OpenOrders(q)
  <2>1. OpenOrders(q) \subseteq Forgotten(q) \cup Held
    BY <1>5, <1>7
  <2>2. Cardinality(OpenOrders(q)) <= Cardinality(Forgotten(q)) + Cardinality(Held)
    BY <1>1, <1>4, <2>1, Both
  <2>3. Cardinality(Forgotten(q)) + Cardinality(Live(q)) <= Mishaps + 1
    BY DEF Covered
  <2> HIDE DEF Holders
  <2> QED BY <1>1, <1>3, <1>4, <2>2, <2>3 DEF Bounded
<1>8. CASE ~Spoiled(q) /\ rows[q] \in OpenOrders(q)
  <2>1. \A v \in Live(q) : req[v].pc # "create" /\ req[v].id = rows[q]
    BY <1>8 DEF Spoiled, Harmless
  <2>2. Creators(q) = {} BY <1>2, <2>1 DEF Creators
  <2>3. Cardinality(Creators(q)) = 0 BY <2>2, FS_EmptySet
  <2>4. Held \subseteq {rows[q]} BY <2>1 DEF Held
  <2>5. OpenOrders(q) \subseteq Forgotten(q) \cup {rows[q]}
    BY <1>5, <2>4
  <2>6. Cardinality(OpenOrders(q)) <= Cardinality(Forgotten(q)) + 1
    BY <1>1, <2>5, OneMore
  <2>7. Cardinality(Forgotten(q)) <= Mishaps
    <3>1. CASE Live(q) = {} BY <1>1, <3>1 DEF Covered
    <3>2. CASE Live(q) # {} BY <1>1, <3>2 DEF Covered
    <3> QED BY <3>1, <3>2
  <2> HIDE DEF Holders
  <2> QED BY <1>1, <1>3, <2>3, <2>6, <2>7 DEF Bounded
<1> QED BY <1>6, <1>7, <1>8

LEMMA BoundedCalm ==
  ASSUME TypeOK, TypeOK', NEW q, Bounded(q), Mishaps' >= Mishaps,
         OpenOrders(q)' \subseteq OpenOrders(q),
         Creators(q)' \subseteq Creators(q)
  PROVE  Bounded(q)'
<1>1. IsFiniteSet(OpenOrders(q)) /\ IsFiniteSet(Creators(q))
  BY DEF Bounded
<1>2. /\ IsFiniteSet(OpenOrders(q)') /\ Cardinality(OpenOrders(q)') \in Nat
      /\ Cardinality(OpenOrders(q)) \in Nat
      /\ Cardinality(OpenOrders(q)') <= Cardinality(OpenOrders(q))
  BY <1>1, Fewer
<1>3. /\ IsFiniteSet(Creators(q)') /\ Cardinality(Creators(q)') \in Nat
      /\ Cardinality(Creators(q)) \in Nat
      /\ Cardinality(Creators(q)') <= Cardinality(Creators(q))
  BY <1>1, Fewer
<1>4. Mishaps \in Nat /\ Mishaps' \in Nat BY MishapsType
<1> QED BY <1>2, <1>3, <1>4 DEF Bounded

LEMMA BoundedCreate ==
  ASSUME TypeOK, TypeOK', NEW q \in Quotes, Bounded(q), Mishaps' >= Mishaps,
         NEW w \in Workers, NEW o \in Orders, Create(w, o), OnlyReq(w),
         req'[w].pc = "commit"
  PROVE  Bounded(q)'
<1>0. w \notin Creators(q)' BY DEF Creators
<1>1. CASE req[w].quote # q
  BY <1>0, <1>1, OpenMoves, LiveMoves, BoundedCalm
<1>2. CASE req[w].quote = q
  <2>1. w \in Creators(q) BY <1>2 DEF Creators, Create
  <2>2. Creators(q)' \subseteq Creators(q) \ {w} BY <1>0, LiveMoves
  <2>3. OpenOrders(q)' \subseteq OpenOrders(q) \cup {o} BY OpenMoves
  <2>4. /\ IsFiniteSet(Creators(q)') /\ Cardinality(Creators(q)') \in Nat
        /\ Cardinality(Creators(q)) \in Nat
        /\ Cardinality(Creators(q)') + 1 <= Cardinality(Creators(q))
    BY <2>1, <2>2, OneLess DEF Bounded
  <2>5. /\ IsFiniteSet(OpenOrders(q)') /\ Cardinality(OpenOrders(q)') \in Nat
        /\ Cardinality(OpenOrders(q)) \in Nat
        /\ Cardinality(OpenOrders(q)') <= Cardinality(OpenOrders(q)) + 1
    BY <2>3, OneMore DEF Bounded
  <2>6. Mishaps \in Nat /\ Mishaps' \in Nat BY MishapsType
  <2> QED BY <2>4, <2>5, <2>6 DEF Bounded
<1> QED BY <1>1, <1>2

LEMMA BoundedStep ==
  ASSUME TypeOK, TypeOK', Begun, [Next]_vars,
         NEW q \in Quotes \ present, Bounded(q)
  PROVE  Bounded(q)'
<1>i. Mishaps \in Nat /\ Mishaps' \in Nat BY MishapsType
<1>1. ASSUME NEW w \in Workers, NEW p \in Quotes, NEW pc, NEW id,
             Start(w, p, pc, id)
      PROVE  Bounded(q)'
  <2>1. /\ OnlyReq(w) /\ req'[w].quote # q /\ order' = order
    BY <1>1 DEF Start, TypeOK, OnlyReq
  <2>2. Mishaps' >= Mishaps BY <1>1 DEF Start, Mishaps, TypeOK
  <2>3. w \notin Creators(q)' BY <2>1 DEF Creators
  <2> QED BY <2>1, <2>2, <2>3, OpenMoves, LiveMoves, BoundedCalm
<1>2. ASSUME NEW w \in Workers, NEW o \in Orders,
             Created(w, o) \/ CreatedUnnoticed(w, o)
      PROVE  Bounded(q)'
  <2>1. Create(w, o) /\ OnlyReq(w) /\ req'[w].pc = "commit"
    BY <1>2 DEF Created, CreatedUnnoticed, Create, Outcome, TypeOK, OnlyReq
  <2>2. Mishaps' >= Mishaps
    BY <1>2, <1>i DEF Created, CreatedUnnoticed, Lose, Mishaps, TypeOK
  <2> QED BY <2>1, <2>2, BoundedCreate
<1>3. ASSUME NEW w \in Workers,
             NotCreated(w) \/ Cancelled(w) \/ CancelledUnnoticed(w)
               \/ NotCancelled(w) \/ Commit(w)
      PROVE  Bounded(q)'
  <2>1. OnlyReq(w) /\ req'[w].pc \in {"commit", "idle"}
    BY <1>3 DEF NotCreated, Cancelled, CancelledUnnoticed, NotCancelled,
                Commit, Outcome, TypeOK, OnlyReq, Idle
  <2>2. w \notin Creators(q)' BY <2>1 DEF Creators
  <2>3. OpenOrders(q)' \subseteq OpenOrders(q)
    BY <1>3, OpenMoves
    DEF NotCreated, Cancelled, CancelledUnnoticed, NotCancelled, Commit
  <2>4. Mishaps' >= Mishaps
    BY <1>3, <1>i DEF NotCreated, Cancelled, CancelledUnnoticed, NotCancelled,
                Commit, Lose, Mishaps, TypeOK
  <2> QED BY <2>1, <2>2, <2>3, <2>4, LiveMoves, BoundedCalm
<1>4. CASE UNCHANGED <<req, order, used>>
  <2>1. Creators(q)' = Creators(q) /\ OpenOrders(q)' = OpenOrders(q)
        /\ Mishaps' = Mishaps
    BY <1>4 DEF Creators, OpenOrders, Mishaps
  <2> QED BY <2>1 DEF Bounded
<1>5. CASE Crash
  <2>1. Creators(q)' = {}
    BY <1>5 DEF Crash, Creators, Idle
  <2>2. OpenOrders(q)' = OpenOrders(q)
    BY <1>5 DEF Crash, OpenOrders
  <2>3. Mishaps' >= Mishaps BY <1>5 DEF Crash, Mishaps, TypeOK
  <2> QED BY <2>1, <2>2, <2>3, BoundedCalm
<1> QED
  BY <1>1, <1>2, <1>3, <1>4, <1>5
  DEF Next, Push, Cancel, PushDry, PushReal, CancelDry, CancelReal,
      DeleteQuote, SetDryRun, vars

-----------------------------------------------------------------------------
LEMMA OrdersInit == Init => OrdersInv
<1> SUFFICES ASSUME Init PROVE OrdersInv
  OBVIOUS
<1>1. Begun BY PLAssumption DEF Init, Begun, Idle
<1>2. ASSUME NEW q \in Quotes PROVE Covered(q)
  <2>1. \A w \in Workers : req[w].quote # q
    BY PLAssumption DEF Init, Idle
  <2>2. Live(q) = {} BY <2>1 DEF Live
  <2>3. OpenOrders(q) = {} BY DEF Init, OpenOrders
  <2>4. Forgotten(q) = {} BY <2>3 DEF Forgotten
  <2>5. Mishaps = 0 BY DEF Init, Mishaps
  <2> QED BY <2>2, <2>3, <2>4, <2>5, FS_EmptySet DEF Covered
<1> QED BY <1>1, <1>2 DEF Init, OrdersInv

LEMMA OrdersStep ==
  TypeOK /\ TypeOK' /\ RealIdsAreTrue /\ OrdersInv /\ [Next]_vars => OrdersInv'
<1> SUFFICES ASSUME TypeOK, TypeOK', RealIdsAreTrue, OrdersInv, [Next]_vars
             PROVE  OrdersInv'
  OBVIOUS
<1>1. Begun /\ Begun' BY BegunStep DEF OrdersInv
<1>2. present' \subseteq present
  BY DEF Next, Push, Cancel, PushDry, PushReal, CancelDry, CancelReal, Start,
         Created, CreatedUnnoticed, NotCreated, Cancelled, CancelledUnnoticed,
         NotCancelled, Commit, DeleteQuote, SetDryRun, Crash, vars
<1>3. ASSUME NEW q \in present' PROVE Covered(q)'
  BY <1>1, <1>2, CoveredStep DEF OrdersInv
<1>4. ASSUME NEW q \in Quotes \ present' PROVE Bounded(q)'
  <2>1. Bounded(q)
    BY <1>1, CoveredIsBounded DEF OrdersInv
  <2>2. CASE q \notin present
    BY <1>1, <2>1, <2>2, BoundedStep
  <2>3. CASE q \in present
    <3>1. UNCHANGED <<rows, req, order, used>>
      BY <2>3 DEF Next, Push, Cancel, PushDry, PushReal, CancelDry, CancelReal,
         Start, Created, CreatedUnnoticed, NotCreated, Cancelled,
         CancelledUnnoticed, NotCancelled, Commit, DeleteQuote, SetDryRun,
         Crash, vars
    <3>2. Creators(q)' = Creators(q) /\ OpenOrders(q)' = OpenOrders(q)
          /\ Mishaps' = Mishaps
      BY <3>1 DEF Creators, OpenOrders, Mishaps
    <3> QED BY <2>1, <3>2 DEF Bounded
  <2> QED BY <2>2, <2>3
<1> QED BY <1>1, <1>3, <1>4 DEF OrdersInv

LEMMA OrdersCorrect == Spec => [](TypeOK /\ RealIdsAreTrue /\ OrdersInv)
BY OrdersInit, OrdersStep, TypeCorrect, IdsAreTrue, PTL DEF Spec

(***************************************************************************)
(* push_quote is idempotent but for mishaps: of one quote PrintLogic has   *)
(* one order to print, and one more at most for each request that          *)
(* overlapped another one, each restart and each lost answer; of deleted   *)
(* quotes too.                                                             *)
(***************************************************************************)
THEOREM OrdersAreFew == Spec => []OneOpenOrder
<1>1. TypeOK /\ OrdersInv => OneOpenOrder
  <2> SUFFICES ASSUME TypeOK, OrdersInv, NEW q \in Quotes
               PROVE  Cardinality(OpenOrders(q)) <= 1 + Mishaps
    BY DEF OneOpenOrder
  <2>1. Bounded(q)
    BY CoveredIsBounded DEF OrdersInv
  <2>2. Cardinality(OpenOrders(q)) \in Nat /\ Cardinality(Creators(q)) \in Nat
    BY <2>1, FS_CardinalityType DEF Bounded
  <2> QED BY <2>1, <2>2, MishapsType DEF Bounded
<1> QED BY <1>1, OrdersCorrect, PTL

(***************************************************************************)
(* The dashboard knows what is being printed: an open order of a quote is  *)
(* on its row or with a request at work on it, but for one at most per     *)
(* mishap.                                                                 *)
(***************************************************************************)
THEOREM FewAreForgotten == Spec => []FewForgotten
<1>1. TypeOK /\ OrdersInv => FewForgotten
  <2> SUFFICES ASSUME TypeOK, OrdersInv, NEW q \in present
               PROVE  Cardinality(Forgotten(q)) <= Mishaps
    BY DEF FewForgotten
  <2>1. Covered(q) BY DEF OrdersInv
  <2>2. /\ Cardinality(Forgotten(q)) \in Nat /\ Cardinality(Live(q)) \in Nat
        /\ Live(q) # {} => Cardinality(Live(q)) >= 1
    BY <2>1, Sizes
  <2>3. CASE Live(q) = {} BY <2>1, <2>2, <2>3, MishapsType DEF Covered
  <2>4. CASE Live(q) # {} BY <2>1, <2>2, <2>4, MishapsType DEF Covered
  <2> QED BY <2>3, <2>4
<1> QED BY <1>1, OrdersCorrect, PTL

(***************************************************************************)
(* As long as no two requests overlapped, each works alone on its quote    *)
(* and nothing it read has changed under it.                               *)
(***************************************************************************)
Alone(q) ==
  /\ \A v, w \in Workers : req[v].quote = q /\ req[w].quote = q => v = w
  /\ ~Spoiled(q)

Sole == used.overlaps = 0 => \A q \in Quotes : Alone(q)

\* A worker that goes on with the quote it has, without touching its row.
LEMMA AloneGoesOn ==
  ASSUME NEW w \in Workers, NEW q, Alone(q), OnlyReq(w),
         req'[w].quote = q => req[w].quote = q,
         rows'[q] = rows[q],
         rows[q] \in OpenOrders(q)' => rows[q] \in OpenOrders(q),
         w \in Live(q)' => Harmless(w, q)'
  PROVE  Alone(q)'
<1>1. ~Spoiled(q)' BY SpoiledMoves DEF Alone
<1>2. ASSUME NEW v \in Workers, req'[v].quote = q PROVE req[v].quote = q
  BY <1>2 DEF OnlyReq
<1> QED BY <1>1, <1>2 DEF Alone

LEMMA AloneStart ==
  ASSUME TypeOK, Begun, Sole, NEW w \in Workers, NEW p \in Quotes,
         NEW pc \in {"create", "cancel", "commit"}, NEW id,
         Start(w, p, pc, id), used'.overlaps = 0,
         pc = "create" => rows[p] \notin Orders,
         pc = "cancel" => id = rows[p],
         pc = "commit" => rows[p] \notin Orders,
         NEW q \in Quotes
  PROVE  Alone(q)'
<1>1. /\ OnlyReq(w) /\ req'[w] = [pc |-> pc, quote |-> p, id |-> id]
      /\ UNCHANGED <<rows, order>>
  BY DEF Start, TypeOK, OnlyReq
<1>2. ~Busy(p) /\ used.overlaps = 0
  BY DEF Start, TypeOK
<1>3. OpenOrders(q)' = OpenOrders(q) BY <1>1 DEF OpenOrders
<1>4. Alone(q) BY <1>2 DEF Sole
<1>5. CASE p # q
  <2>1. req'[w].quote # q /\ w \notin Live(q)' BY <1>1, <1>5 DEF Live
  <2> QED BY <1>1, <1>3, <1>4, <2>1, AloneGoesOn
<1>6. CASE p = q
  <2>1. rows[q] \in OpenOrders(q) => rows[q] \in Orders BY DEF OpenOrders
  <2>2. Harmless(w, q)' BY <1>1, <1>3, <1>6, <2>1 DEF Harmless
  <2>3. ~Spoiled(q)' BY <1>1, <1>3, <1>4, <2>2, SpoiledMoves DEF Alone
  <2>4. \A v \in Workers : req'[v].quote = q => v = w
    BY <1>1, <1>2, <1>6 DEF Busy, OnlyReq
  <2> QED BY <2>3, <2>4 DEF Alone
<1> QED BY <1>5, <1>6

LEMMA SoleStep ==
  TypeOK /\ Begun /\ RealIdsAreTrue /\ Sole /\ [Next]_vars => Sole'
<1> SUFFICES ASSUME TypeOK, Begun, RealIdsAreTrue, Sole, [Next]_vars,
                    used'.overlaps = 0, NEW q \in Quotes
             PROVE  Alone(q)'
  BY DEF Sole
<1>m. Dry \notin Orders /\ None \notin Orders /\ Keep \notin Orders
  BY PLAssumption
<1>0. used.overlaps = 0
  <2>1. ASSUME NEW w, NEW p, NEW pc, NEW id, Start(w, p, pc, id)
        PROVE  used.overlaps = 0
    BY <2>1 DEF Start, TypeOK
  <2>2. CASE used' = used BY <2>2
  <2>3. CASE Lose BY <2>3 DEF Lose, TypeOK
  <2>4. CASE Crash BY <2>4 DEF Crash, TypeOK
  <2> QED
    BY <2>1, <2>2, <2>3, <2>4
    DEF Next, Push, Cancel, PushDry, PushReal, CancelDry, CancelReal,
        Created, CreatedUnnoticed, NotCreated, Cancelled, CancelledUnnoticed,
        NotCancelled, Commit, DeleteQuote, SetDryRun, vars
<1>a. Alone(q) BY <1>0 DEF Sole
<1>1. ASSUME NEW w \in Workers, NEW o \in Orders,
             Created(w, o) \/ CreatedUnnoticed(w, o)
      PROVE  Alone(q)'
  <2>1. /\ OnlyReq(w) /\ req'[w].quote = req[w].quote /\ req'[w].pc = "commit"
        /\ req[w].pc = "create" /\ rows' = rows /\ Create(w, o)
    BY <1>1 DEF Created, CreatedUnnoticed, Create, Outcome, TypeOK, Request, OnlyReq
  <2>2. order[o].state = "unissued" BY <2>1 DEF Create
  <2>3. rows[q] # o BY <2>2 DEF RealIdsAreTrue, IsOrderOf
  <2>4. rows[q] \in OpenOrders(q)' => rows[q] \in OpenOrders(q)
    BY <2>1, <2>3, OpenMoves
  <2>5. ASSUME w \in Live(q)' PROVE Harmless(w, q)'
    <3>1. w \in Live(q) BY <2>1, <2>5 DEF Live
    <3>2. rows[q] \notin OpenOrders(q)
      BY <1>a, <2>1, <3>1 DEF Alone, Spoiled, Harmless
    <3> QED BY <2>1, <2>4, <3>2 DEF Harmless
  <2> QED BY <1>a, <2>1, <2>4, <2>5, AloneGoesOn
<1>2. ASSUME NEW w \in Workers,
             NotCreated(w) \/ Cancelled(w) \/ CancelledUnnoticed(w)
               \/ NotCancelled(w)
      PROVE  Alone(q)'
  <2>1. /\ OnlyReq(w) /\ req'[w].quote = req[w].quote /\ req'[w].pc = "commit"
        /\ req'[w].id = Keep \/ (req'[w].id = None /\ CancelOrder(w))
        /\ req[w].pc \in {"create", "cancel"} /\ rows' = rows
    BY <1>2 DEF NotCreated, Cancelled, CancelledUnnoticed, NotCancelled,
                CancelOrder, Outcome, TypeOK, Request, OnlyReq
  <2>2. OpenOrders(q)' \subseteq OpenOrders(q)
    BY <1>2, OpenMoves
    DEF NotCreated, Cancelled, CancelledUnnoticed, NotCancelled
  <2>3. ASSUME w \in Live(q)' PROVE Harmless(w, q)'
    <3>1. CancelOrder(w) BY <2>1, <2>3 DEF Live
    <3>2. w \in Live(q) /\ req[w].pc = "cancel"
      BY <2>1, <2>3, <3>1 DEF Live, CancelOrder
    <3>3. req[w].id = rows[q] BY <1>a, <3>2 DEF Alone, Spoiled, Harmless
    <3>4. rows[q] \notin OpenOrders(q)' BY <3>1, <3>3, OpenMoves
    <3> QED BY <2>1, <3>4 DEF Harmless
  <2> QED BY <1>a, <2>1, <2>2, <2>3, AloneGoesOn
<1>3. ASSUME NEW w \in Workers, Commit(w) PROVE Alone(q)'
  <2>1. OnlyReq(w) /\ req'[w].quote # q /\ order' = order /\ w \notin Live(q)'
    BY <1>3, PLAssumption DEF Commit, TypeOK, OnlyReq, Idle, Live
  <2>2. CASE req[w].quote = q
    <3>1. \A v \in Workers : req'[v].quote # q
      BY <1>a, <2>1, <2>2 DEF Alone, OnlyReq
    <3> QED BY <3>1 DEF Alone, Spoiled, Live
  <2>3. CASE req[w].quote # q
    <3>1. rows'[q] = rows[q] BY <1>3, <2>3 DEF Commit, TypeOK
    <3>2. OpenOrders(q)' = OpenOrders(q) BY <2>1, OpenMoves
    <3> QED BY <1>a, <2>1, <3>1, <3>2, AloneGoesOn
  <2> QED BY <2>2, <2>3
<1>4. ASSUME NEW w \in Workers, NEW p \in Quotes,
             PushDry(w, p) \/ PushReal(w, p) \/ CancelDry(w, p)
               \/ CancelReal(w, p)
      PROVE  Alone(q)'
  <2>1. CASE PushDry(w, p) BY <2>1, AloneStart DEF PushDry
  <2>2. CASE PushReal(w, p) BY <2>2, AloneStart DEF PushReal
  <2>3. CASE CancelDry(w, p) BY <1>m, <2>3, AloneStart DEF CancelDry
  <2>4. CASE CancelReal(w, p) BY <2>4, AloneStart DEF CancelReal
  <2> QED BY <1>4, <2>1, <2>2, <2>3, <2>4
<1>5. CASE UNCHANGED <<rows, req, order>>
  <2>1. Spoiled(q)' = Spoiled(q)
    BY <1>5 DEF Live, Spoiled, Harmless, OpenOrders
  <2> QED BY <1>a, <1>5, <2>1 DEF Alone
<1>6. CASE Crash
  <2>1. \A v \in Workers : req'[v].quote # q
    BY <1>6, PLAssumption DEF Crash, Idle
  <2> QED BY <2>1 DEF Alone, Spoiled, Live
<1> QED
  BY <1>1, <1>2, <1>3, <1>4, <1>5, <1>6
  DEF Next, Push, Cancel, DeleteQuote, SetDryRun, vars

(***************************************************************************)
(* "Already pushed for real - never duplicate": as long as no two requests *)
(* overlapped, a real id leaves the row only after its order is cancelled. *)
(***************************************************************************)
THEOREM RealIdStays == Spec => RealIdIsKept
<1> DEFINE Kept == used.overlaps = 0 =>
             \A q \in Quotes : (rows[q] \in Orders /\ rows'[q] # rows[q])
                                 => order[rows[q]].state = "cancelled"
<1>1. Init => Sole
  <2> SUFFICES ASSUME Init, NEW q \in Quotes PROVE Alone(q)
    BY DEF Sole
  <2>1. \A w \in Workers : req[w].quote # q BY PLAssumption DEF Init, Idle
  <2> QED BY <2>1 DEF Alone, Spoiled, Live
<1>2. TypeOK /\ RealIdsAreTrue /\ Sole /\ [Next]_vars => [Kept]_vars
  <2> SUFFICES ASSUME TypeOK, RealIdsAreTrue, Sole, [Next]_vars,
                      used.overlaps = 0, NEW q \in Quotes,
                      rows[q] \in Orders, rows'[q] # rows[q]
               PROVE  order[rows[q]].state = "cancelled"
    OBVIOUS
  <2>1. PICK w \in Workers : Commit(w)
    BY DEF Next, Push, Cancel, PushDry, PushReal, CancelDry, CancelReal, Start,
         Created, CreatedUnnoticed, NotCreated, Cancelled, CancelledUnnoticed,
         NotCancelled, DeleteQuote, SetDryRun, Crash, vars
  <2>2. req[w].quote = q /\ req[w].id # Keep /\ req[w].id # rows[q]
        /\ req[w].pc = "commit"
    BY <2>1 DEF Commit, TypeOK
  <2>3. w \in Live(q) BY <2>2 DEF Live
  <2>4. rows[q] \notin OpenOrders(q)
    BY <2>2, <2>3 DEF Sole, Alone, Spoiled, Harmless
  <2>5. order[rows[q]].quote = q /\ order[rows[q]].state # "unissued"
    BY DEF RealIdsAreTrue, IsOrderOf
  <2>6. order[rows[q]].state \in {"unissued", "open", "cancelled"}
    BY DEF TypeOK
  <2> QED BY <2>4, <2>5, <2>6 DEF OpenOrders
<1>3. TypeOK /\ RealIdsAreTrue /\ OrdersInv /\ Sole /\ [Next]_vars => Sole'
  BY SoleStep DEF OrdersInv
<1>4. Spec => [][Kept]_vars
  BY <1>1, <1>2, <1>3, OrdersCorrect, PTL DEF Spec
<1> QED BY <1>4 DEF RealIdIsKept
=============================================================================
