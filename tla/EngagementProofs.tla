-------------------------- MODULE EngagementProofs --------------------------
(***************************************************************************)
(* Proofs about Engagement, for any number of mails, threads, conversation *)
(* rows, containers, requests, restarts, forgotten ids and lost answers:   *)
(* type correctness, and that a rejection stands.  MailboxProofs goes on.  *)
(***************************************************************************)
EXTENDS Engagement, FiniteSetTheorems, TLAPS

-----------------------------------------------------------------------------
(***************************************************************************)
(* Type correctness.  It takes what the place in the code says about the   *)
(* mail and the row a worker holds.                                        *)
(***************************************************************************)
TaskPcs == {"check", "add", "evict", "triage", "verdict", "turn", "park",
            "notice", "mailed", "post"}
OpPcs   == {"click", "flip", "send", "record", "replay", "resend", "reject"}

HoldsOK(r) ==
  /\ r.pc = "idle" => r = Idle
  /\ r.pc \in TaskPcs => r.msg \in Messages
  /\ r.pc \in {"check", "add", "evict", "triage"} => r.conv = None
  /\ r.pc \in {"park", "notice", "mailed", "post"} \cup OpPcs => r.conv # None
  /\ r.conv = None => r.copy = NoRow

Typed == TypeOK /\ \A w \in Workers : HoldsOK(req[w])

Log == [taken: Nat, released: Nat, cleared: Nat, answered: Nat]

Counters == [requests: Nat, overlaps: Nat, crashes: Nat, evicted: Nat, lost: Nat,
             strays: Nat]

\* A step of worker w.
Only(w) == \A v \in Workers \ {w} : req'[v] = req[v]

LEMMA RowTypes ==
  /\ NoCls \in Cls /\ NoRow \in Row /\ Idle \in Request /\ HoldsOK(Idle)
  /\ \A row, copy, new \in Row : Update(row, copy, new) \in Row
BY DEF NoCls, Cls, NoRow, Row, Idle, Request, Update, Statuses, HoldsOK, TaskPcs,
       OpPcs

LEMMA TypedInit == Init => Typed
<1> SUFFICES ASSUME Init PROVE Typed
  OBVIOUS
<1>1. log \in [Messages -> Log]
  BY DEF Init, Box!Fresh, Log
<1> QED BY <1>1, RowTypes DEF Init, Typed, TypeOK, Log

\* What noting a mail's progress does to the history: one counter of one mail.
LEMMA NoteOne ==
  ASSUME Typed, NEW m, NEW field \in {"taken", "released", "cleared", "answered"},
         Note(m, field)
  PROVE  /\ log' \in [Messages -> Log] /\ rewrites' = rewrites
         /\ m \notin Messages => log' = log
         /\ \A n \in Messages \ {m} : log'[n] = log[n]
         /\ m \in Messages =>
              /\ log'[m].taken = log[m].taken + (IF field = "taken" THEN 1 ELSE 0)
              /\ log'[m].released =
                   log[m].released + (IF field = "released" THEN 1 ELSE 0)
              /\ log'[m].cleared =
                   log[m].cleared + (IF field = "cleared" THEN 1 ELSE 0)
              /\ log'[m].answered =
                   log[m].answered + (IF field = "answered" THEN 1 ELSE 0)
<1>1. log \in [Messages -> Log]
  BY DEF Typed, TypeOK, Log
<1>2. /\ log' = [log EXCEPT ![m] = [log[m] EXCEPT ![field] = log[m][field] + 1]]
      /\ rewrites' = rewrites
  BY DEF Note
<1>3. m \notin Messages => log' = log
  BY <1>1, <1>2
<1>4. CASE field = "taken"
  <2>1. log' = [log EXCEPT ![m] = [log[m] EXCEPT !.taken = log[m].taken + 1]]
    BY <1>2, <1>4
  <2>2. m \in Messages =>
          LET r == [log[m] EXCEPT !.taken = log[m].taken + 1]
          IN /\ r \in Log
             /\ r.taken = log[m].taken + 1
             /\ r.released = log[m].released
             /\ r.cleared = log[m].cleared
             /\ r.answered = log[m].answered
    BY <1>1 DEF Log
  <2>3. log' \in [Messages -> Log] /\ \A n \in Messages \ {m} : log'[n] = log[n]
    BY <1>1, <2>1, <2>2
  <2>4. m \in Messages => log'[m] = [log[m] EXCEPT !.taken = log[m].taken + 1]
    BY <1>1, <2>1
  <2>5. m \in Messages => log[m] \in Log
    BY <1>1
  <2> QED BY <1>2, <1>3, <1>4, <2>2, <2>3, <2>4, <2>5 DEF Log
<1>5. CASE field = "released"
  <2>1. log' = [log EXCEPT ![m] = [log[m] EXCEPT !.released = log[m].released + 1]]
    BY <1>2, <1>5
  <2>2. m \in Messages =>
          LET r == [log[m] EXCEPT !.released = log[m].released + 1]
          IN /\ r \in Log
             /\ r.taken = log[m].taken
             /\ r.released = log[m].released + 1
             /\ r.cleared = log[m].cleared
             /\ r.answered = log[m].answered
    BY <1>1 DEF Log
  <2>3. log' \in [Messages -> Log] /\ \A n \in Messages \ {m} : log'[n] = log[n]
    BY <1>1, <2>1, <2>2
  <2>4. m \in Messages => log'[m] = [log[m] EXCEPT !.released = log[m].released + 1]
    BY <1>1, <2>1
  <2>5. m \in Messages => log[m] \in Log
    BY <1>1
  <2> QED BY <1>2, <1>3, <1>5, <2>2, <2>3, <2>4, <2>5 DEF Log
<1>6. CASE field = "cleared"
  <2>1. log' = [log EXCEPT ![m] = [log[m] EXCEPT !.cleared = log[m].cleared + 1]]
    BY <1>2, <1>6
  <2>2. m \in Messages =>
          LET r == [log[m] EXCEPT !.cleared = log[m].cleared + 1]
          IN /\ r \in Log
             /\ r.taken = log[m].taken
             /\ r.released = log[m].released
             /\ r.cleared = log[m].cleared + 1
             /\ r.answered = log[m].answered
    BY <1>1 DEF Log
  <2>3. log' \in [Messages -> Log] /\ \A n \in Messages \ {m} : log'[n] = log[n]
    BY <1>1, <2>1, <2>2
  <2>4. m \in Messages => log'[m] = [log[m] EXCEPT !.cleared = log[m].cleared + 1]
    BY <1>1, <2>1
  <2>5. m \in Messages => log[m] \in Log
    BY <1>1
  <2> QED BY <1>2, <1>3, <1>6, <2>2, <2>3, <2>4, <2>5 DEF Log
<1>7. CASE field = "answered"
  <2>1. log' = [log EXCEPT ![m] = [log[m] EXCEPT !.answered = log[m].answered + 1]]
    BY <1>2, <1>7
  <2>2. m \in Messages =>
          LET r == [log[m] EXCEPT !.answered = log[m].answered + 1]
          IN /\ r \in Log
             /\ r.taken = log[m].taken
             /\ r.released = log[m].released
             /\ r.cleared = log[m].cleared
             /\ r.answered = log[m].answered + 1
    BY <1>1 DEF Log
  <2>3. log' \in [Messages -> Log] /\ \A n \in Messages \ {m} : log'[n] = log[n]
    BY <1>1, <2>1, <2>2
  <2>4. m \in Messages => log'[m] = [log[m] EXCEPT !.answered = log[m].answered + 1]
    BY <1>1, <2>1
  <2>5. m \in Messages => log[m] \in Log
    BY <1>1
  <2> QED BY <1>2, <1>3, <1>7, <2>2, <2>3, <2>4, <2>5 DEF Log
<1> QED BY <1>4, <1>5, <1>6, <1>7

\* One more request begins.
LEMMA BeginOne ==
  ASSUME Typed, NEW w \in Workers, NEW t, NEW r \in Request, HoldsOK(r),
         Begin(w, t, r)
  PROVE  /\ req' \in [Workers -> Request] /\ Only(w) /\ req'[w] = r
         /\ req[w] = Idle /\ req[w].pc = "idle"
         /\ used' \in Counters
         /\ Mishaps \in Nat
         /\ Mishaps' = Mishaps + (IF Works(t) THEN 1 ELSE 0)
         /\ used'.overlaps = used.overlaps + (IF Works(t) THEN 1 ELSE 0)
         /\ \A v \in Workers : HoldsOK(req'[v])
<1>1. used \in Counters /\ req \in [Workers -> Request]
  BY DEF Typed, TypeOK, Counters
<1>2. used' = [[used EXCEPT !.requests = used.requests + 1] EXCEPT !.overlaps =
                 IF Works(t) THEN used.overlaps + 1 ELSE used.overlaps]
  BY <1>1 DEF Begin, Counters
<1>3. used.requests \in Nat /\ used.overlaps \in Nat /\ used.crashes \in Nat
      /\ used.evicted \in Nat /\ used.lost \in Nat /\ used.strays \in Nat
  BY <1>1 DEF Counters
<1>4. used'.overlaps = used.overlaps + (IF Works(t) THEN 1 ELSE 0)
      /\ used'.crashes = used.crashes /\ used'.evicted = used.evicted
      /\ used'.lost = used.lost /\ used'.strays = used.strays
  BY <1>1, <1>2, <1>3 DEF Counters
<1>5. Mishaps \in Nat /\ Mishaps' = Mishaps + (IF Works(t) THEN 1 ELSE 0)
  BY <1>3, <1>4 DEF Mishaps
<1>6. used' \in Counters
  <2> DEFINE one == [used EXCEPT !.requests = used.requests + 1]
             n == IF Works(t) THEN used.overlaps + 1 ELSE used.overlaps
  <2>1. one \in Counters
    BY <1>1, <1>3 DEF Counters
  <2>2. n \in Nat
    BY <1>3
  <2>3. used' = [one EXCEPT !.overlaps = n]
    BY <1>2
  <2> HIDE DEF one, n
  <2> QED BY <2>1, <2>2, <2>3 DEF Counters
<1>7. req' \in [Workers -> Request] /\ Only(w) /\ req'[w] = r
  BY <1>1 DEF Begin, Only
<1>8. req[w] = Idle /\ req[w].pc = "idle"
  BY DEF Begin, At, Typed, HoldsOK
<1> QED BY <1>4, <1>5, <1>6, <1>7, <1>8 DEF Typed, Only

\* A worker ends its request, or goes on without touching what it holds.
LEMMA FinishOne ==
  ASSUME Typed, NEW w \in Workers, Finish(w)
  PROVE  /\ req' \in [Workers -> Request] /\ Only(w) /\ req'[w] = Idle
         /\ \A v \in Workers : HoldsOK(req'[v])
BY RowTypes DEF Typed, TypeOK, Finish, Only

LEMMA GotoOne ==
  ASSUME Typed, NEW w \in Workers,
         NEW pc \in {"add", "evict", "triage", "flip", "record", "notice"},
         Goto(w, pc)
  PROVE  /\ req' \in [Workers -> Request] /\ Only(w)
         /\ req'[w].pc = pc /\ req'[w].msg = req[w].msg
         /\ req'[w].conv = req[w].conv /\ req'[w].copy = req[w].copy
         /\ req'[w].gate = req[w].gate
<1> DEFINE r == [req[w] EXCEPT !.pc = pc]
<1>1. req[w] \in Request /\ req \in [Workers -> Request]
  BY DEF Typed, TypeOK
<1>2. /\ r \in Request
      /\ r.pc = pc /\ r.msg = req[w].msg /\ r.conv = req[w].conv
      /\ r.copy = req[w].copy /\ r.gate = req[w].gate
  BY <1>1 DEF Request
<1>3. req' = [req EXCEPT ![w] = r]
  BY DEF Goto
<1> HIDE DEF r
<1> QED BY <1>1, <1>2, <1>3 DEF Only

\* A turn of the model writes the whole of one row, its classification as it
\* was, and the worker goes on with what it wrote.
LEMMA TalkOne ==
  ASSUME Typed, NEW w \in Workers, NEW c \in Convs,
         NEW t \in Threads \cup {None}, NEW quoted \in BOOLEAN,
         NEW s \in Statuses, NEW pc \in {"idle", "park", "post", "resend"},
         Talk(w, c, t, quoted, s, pc)
  PROVE  /\ rows' \in [Convs -> Row] /\ pend' \subseteq Convs
         /\ req' \in [Workers -> Request] /\ Only(w)
         /\ \A d \in Convs \ {c} : rows'[d] = rows[d]
         /\ rows'[c].thread = (IF req[w].conv = None THEN t ELSE rows[c].thread)
         /\ rows'[c].cls = (IF req[w].conv = None THEN NoCls ELSE rows[c].cls)
         /\ rows'[c].status =
              (IF s # req[w].copy.status THEN s
               ELSE IF req[w].conv = None THEN "open" ELSE rows[c].status)
         /\ pc = "idle" => req'[w] = Idle
         /\ pc # "idle" =>
              /\ req'[w].pc = pc /\ req'[w].msg = req[w].msg
              /\ req'[w].gate = req[w].gate
              /\ req'[w].conv = c /\ req'[w].copy = rows'[c]
         /\ \A v \in Workers \ {w} : HoldsOK(req'[v])
<1> DEFINE copy == req[w].copy
           turned == [[copy EXCEPT !.status = s] EXCEPT !.talked = TRUE]
           row == IF req[w].conv = None THEN [NoRow EXCEPT !.thread = t] ELSE rows[c]
           new == Update(row, copy, turned)
           r == [[[req[w] EXCEPT !.pc = pc] EXCEPT !.conv = c] EXCEPT !.copy = new]
<1>1. /\ req[w] \in Request /\ req \in [Workers -> Request]
      /\ rows \in [Convs -> Row] /\ pend \subseteq Convs /\ rows[c] \in Row
      /\ copy \in Row
  BY DEF Typed, TypeOK, Request
<1>2. /\ turned \in Row /\ turned.cls = copy.cls /\ turned.status = s
      /\ turned.talked = TRUE
  BY <1>1 DEF Row
<1>3. /\ row \in Row
      /\ row.thread = (IF req[w].conv = None THEN t ELSE rows[c].thread)
      /\ row.cls = (IF req[w].conv = None THEN NoCls ELSE rows[c].cls)
      /\ row.status = (IF req[w].conv = None THEN "open" ELSE rows[c].status)
  BY <1>1, RowTypes DEF NoRow, Row
<1> HIDE DEF turned, row, copy
<1>4. /\ new \in Row /\ new.thread = row.thread /\ new.cls = row.cls
      /\ new.status = (IF s # copy.status THEN s ELSE row.status)
  BY <1>1, <1>2, <1>3, RowTypes DEF Update
<1> HIDE DEF new
<1>5. /\ r \in Request /\ r.pc = pc /\ r.msg = req[w].msg /\ r.gate = req[w].gate
      /\ r.conv = c /\ r.copy = new
  BY <1>1, <1>4 DEF Request
<1>6. /\ rows' = [rows EXCEPT ![c] = new]
      /\ pend' = IF quoted THEN pend \cup {c} ELSE pend
      /\ req' = [req EXCEPT ![w] = IF pc = "idle" THEN Idle ELSE r]
  BY DEF Talk, new, row, turned, copy
<1> HIDE DEF r
<1>7. /\ rows' \in [Convs -> Row] /\ pend' \subseteq Convs /\ rows'[c] = new
      /\ \A d \in Convs \ {c} : rows'[d] = rows[d]
  BY <1>1, <1>4, <1>6
<1>8. /\ req' \in [Workers -> Request] /\ Only(w)
      /\ req'[w] = IF pc = "idle" THEN Idle ELSE r
  BY <1>1, <1>5, <1>6, RowTypes DEF Only
<1>9. \A v \in Workers \ {w} : HoldsOK(req'[v])
  BY <1>8 DEF Only, Typed
<1> QED BY <1>3, <1>4, <1>5, <1>7, <1>8, <1>9 DEF copy

-----------------------------------------------------------------------------
(***************************************************************************)
(* What each step does, field by field: the form in which the invariants   *)
(* below use the actions.                                                  *)
(***************************************************************************)
\* Worker w goes on with what it holds.
Keeps(w) ==
  /\ req'[w].msg = req[w].msg /\ req'[w].conv = req[w].conv
  /\ req'[w].copy = req[w].copy /\ req'[w].gate = req[w].gate

Calm == used' = used /\ Mishaps' = Mishaps

LEMMA MishapsType ==
  ASSUME Typed
  PROVE  /\ Mishaps \in Nat /\ used.overlaps \in Nat
         /\ used' = used => Calm
         /\ (Mishaps = 0) => used.overlaps = 0
BY DEF Typed, TypeOK, Mishaps, Calm

LEMMA MishapsTypeNext ==
  ASSUME Typed' PROVE Mishaps' \in Nat
<1>1. used' \in Counters
  BY DEF Typed, TypeOK, Counters
<1>2. /\ used'.overlaps \in Nat /\ used'.crashes \in Nat
      /\ used'.evicted \in Nat /\ used'.lost \in Nat /\ used'.strays \in Nat
  BY <1>1 DEF Counters
<1> QED BY <1>2 DEF Mishaps

LEMMA CountOne ==
  ASSUME Typed, NEW field \in {"crashes", "evicted", "lost", "strays"},
         used' = [used EXCEPT ![field] = used[field] + 1]
  PROVE  /\ used' \in Counters /\ Mishaps' = Mishaps + 1
         /\ used'.overlaps = used.overlaps
<1>1. used \in Counters
  BY DEF Typed, TypeOK, Counters
<1>2. /\ used.requests \in Nat /\ used.overlaps \in Nat /\ used.crashes \in Nat
      /\ used.evicted \in Nat /\ used.lost \in Nat /\ used.strays \in Nat
  BY <1>1 DEF Counters
<1>3. CASE field = "crashes"
  <2>1. used' = [used EXCEPT !.crashes = used.crashes + 1]
    BY <1>3
  <2>2. /\ used' \in Counters /\ used'.overlaps = used.overlaps
        /\ used'.crashes = used.crashes + 1 /\ used'.evicted = used.evicted
        /\ used'.lost = used.lost /\ used'.strays = used.strays
    BY <1>1, <1>2, <2>1 DEF Counters
  <2>3. Mishaps' = used.overlaps + (used.crashes + 1) + used.evicted + used.lost + used.strays
    BY <2>2 DEF Mishaps
  <2> QED BY <1>2, <2>2, <2>3 DEF Mishaps
<1>4. CASE field = "evicted"
  <2>1. used' = [used EXCEPT !.evicted = used.evicted + 1]
    BY <1>4
  <2>2. /\ used' \in Counters /\ used'.overlaps = used.overlaps
        /\ used'.crashes = used.crashes /\ used'.evicted = used.evicted + 1
        /\ used'.lost = used.lost /\ used'.strays = used.strays
    BY <1>1, <1>2, <2>1 DEF Counters
  <2>3. Mishaps' = used.overlaps + used.crashes + (used.evicted + 1) + used.lost + used.strays
    BY <2>2 DEF Mishaps
  <2> QED BY <1>2, <2>2, <2>3 DEF Mishaps
<1>5. CASE field = "lost"
  <2>1. used' = [used EXCEPT !.lost = used.lost + 1]
    BY <1>5
  <2>2. /\ used' \in Counters /\ used'.overlaps = used.overlaps
        /\ used'.crashes = used.crashes /\ used'.evicted = used.evicted
        /\ used'.lost = used.lost + 1 /\ used'.strays = used.strays
    BY <1>1, <1>2, <2>1 DEF Counters
  <2>3. Mishaps' = used.overlaps + used.crashes + used.evicted + (used.lost + 1) + used.strays
    BY <2>2 DEF Mishaps
  <2> QED BY <1>2, <2>2, <2>3 DEF Mishaps
<1>6. CASE field = "strays"
  <2>1. used' = [used EXCEPT !.strays = used.strays + 1]
    BY <1>6
  <2>2. /\ used' \in Counters /\ used'.overlaps = used.overlaps
        /\ used'.crashes = used.crashes /\ used'.evicted = used.evicted
        /\ used'.lost = used.lost /\ used'.strays = used.strays + 1
    BY <1>1, <1>2, <2>1 DEF Counters
  <2>3. Mishaps' = used.overlaps + used.crashes + used.evicted + used.lost + (used.strays + 1)
    BY <2>2 DEF Mishaps
  <2> QED BY <1>2, <2>2, <2>3 DEF Mishaps
<1> QED BY <1>3, <1>4, <1>5, <1>6

LEMMA CheckMarkDoes ==
  ASSUME Typed, NEW w \in Workers, CheckMark(w)
  PROVE  /\ Typed' /\ Only(w) /\ UNCHANGED <<rows, pend, seen, hist>>
         /\ req[w].pc = "check" /\ req[w].msg \in Messages
         /\ req[w].conv = None /\ req[w].copy = NoRow
         /\ Mishaps' = Mishaps \/ Mishaps' = Mishaps + 1
         /\ used'.overlaps = used.overlaps
         /\ \/ req'[w] = Idle
            \/ /\ req'[w].pc = "add" /\ Keeps(w)
               /\ Mishaps' = Mishaps => ~Known(req[w].msg)
<1>1. /\ req[w].pc = "check" /\ req[w].msg \in Messages
      /\ req[w].conv = None /\ req[w].copy = NoRow
      /\ UNCHANGED <<rows, pend, seen, order, hist>>
  BY DEF CheckMark, At, memory, Typed, HoldsOK, TaskPcs
<1>2. ASSUME used' = used
      PROVE  used' \in Counters /\ Mishaps' = Mishaps /\ used'.overlaps = used.overlaps
  BY <1>2, MishapsType DEF Calm, Typed, TypeOK, Counters
<1>3. ASSUME used' = [used EXCEPT !.strays = used.strays + 1]
      PROVE  /\ used' \in Counters /\ Mishaps' = Mishaps + 1
             /\ used'.overlaps = used.overlaps
  BY <1>3, CountOne
<1>4. Mishaps \in Nat
  BY MishapsType
<1>5. CASE Finish(w) /\ used' = used
  BY <1>1, <1>2, <1>5, FinishOne DEF Typed, TypeOK, hist, Counters
<1>6. CASE /\ Goto(w, "add")
           /\ used' = IF Known(req[w].msg) THEN [used EXCEPT !.strays = used.strays + 1]
                      ELSE used
  <2>1. /\ req' \in [Workers -> Request] /\ Only(w)
        /\ req'[w].pc = "add" /\ Keeps(w)
    BY <1>6, GotoOne DEF Keeps
  <2>2. \A v \in Workers : HoldsOK(req'[v])
    BY <1>1, <2>1 DEF Typed, HoldsOK, TaskPcs, OpPcs, Only, Keeps
  <2>3. CASE Known(req[w].msg)
    <3>1. Mishaps' # Mishaps
      BY <1>3, <1>4, <1>6, <2>3
    <3> QED BY <1>1, <1>3, <1>6, <2>1, <2>2, <2>3, <3>1
            DEF Typed, TypeOK, hist, Counters
  <2>4. CASE ~Known(req[w].msg)
    BY <1>1, <1>2, <1>6, <2>1, <2>2, <2>4 DEF Typed, TypeOK, hist, Counters
  <2> QED BY <2>3, <2>4
<1> QED BY <1>5, <1>6 DEF CheckMark

LEMMA AddMarkDoes ==
  ASSUME Typed, NEW w \in Workers, AddMark(w)
  PROVE  /\ Typed' /\ Only(w) /\ Calm /\ UNCHANGED <<rows, pend, rewrites>>
         /\ req[w].pc = "add" /\ req[w].msg \in Messages
         /\ req[w].conv = None /\ req[w].copy = NoRow
         /\ \A m \in Messages : Known(m)' <=> Known(m) \/ m = req[w].msg
         /\ Note(req[w].msg, "taken")
         /\ req'[w].pc = "evict" /\ Keeps(w)
<1> DEFINE k == HomeOf[w]
<1>1. /\ req[w].pc = "add" /\ req[w].msg \in Messages
      /\ req[w].conv = None /\ req[w].copy = NoRow
      /\ UNCHANGED <<rows, pend, used>> /\ Note(req[w].msg, "taken")
      /\ seen' = [seen EXCEPT ![k] = seen[k] \cup {req[w].msg}]
      /\ order' = [order EXCEPT ![k] = Append(order[k], req[w].msg)]
      /\ Goto(w, "evict")
  BY DEF AddMark, At, Typed, HoldsOK, TaskPcs
<1>2. Calm
  BY <1>1, MishapsType
<1>3. log' \in [Messages -> Log] /\ rewrites' = rewrites
  BY <1>1, NoteOne
<1>4. /\ req' \in [Workers -> Request] /\ Only(w)
      /\ req'[w].pc = "evict" /\ Keeps(w)
  BY <1>1, GotoOne DEF Keeps
<1>5. \A v \in Workers : HoldsOK(req'[v])
  BY <1>1, <1>4 DEF Typed, HoldsOK, TaskPcs, OpPcs, Only, Keeps
<1>6. /\ k \in Containers /\ seen \in [Containers -> SUBSET Messages]
      /\ order \in [Containers -> Seq(Messages)]
  BY ENAssumption DEF Typed, TypeOK
<1> HIDE DEF k
<1>7. /\ seen' \in [Containers -> SUBSET Messages]
      /\ order' \in [Containers -> Seq(Messages)]
  <2>1. Append(order[k], req[w].msg) \in Seq(Messages)
    BY <1>1, <1>6
  <2> QED BY <1>1, <1>6, <2>1
<1>8. \A m \in Messages : Known(m)' <=> Known(m) \/ m = req[w].msg
  BY <1>1, <1>6 DEF Known
<1> QED BY <1>1, <1>2, <1>3, <1>4, <1>5, <1>7, <1>8 DEF Typed, TypeOK, Log

LEMMA EvictDoes ==
  ASSUME Typed, NEW w \in Workers, Evict(w)
  PROVE  /\ Typed' /\ Only(w) /\ UNCHANGED <<rows, pend, hist>>
         /\ req[w].pc = "evict" /\ req[w].msg \in Messages
         /\ req[w].conv = None /\ req[w].copy = NoRow
         /\ \/ /\ req'[w] = req[w] /\ \A m \in Messages : Known(m)' => Known(m)
               /\ Mishaps' = Mishaps + 1 /\ used'.overlaps = used.overlaps
            \/ /\ req'[w].pc = "triage" /\ Keeps(w) /\ seen' = seen /\ Calm
<1> DEFINE k == HomeOf[w]
<1>1. /\ req[w].pc = "evict" /\ req[w].msg \in Messages
      /\ req[w].conv = None /\ req[w].copy = NoRow
      /\ UNCHANGED <<rows, pend, log, rewrites>>
  BY DEF Evict, At, Typed, HoldsOK, TaskPcs, hist
<1>2. CASE Len(order[k]) > Cap
  <2>1. /\ order' = [order EXCEPT ![k] = Tail(order[k])]
        /\ seen' = [seen EXCEPT ![k] = seen[k] \ {Head(order[k])}] /\ req' = req
        /\ used' = [used EXCEPT !.evicted = used.evicted + 1]
    BY <1>2 DEF Evict
  <2>2. /\ k \in Containers /\ seen \in [Containers -> SUBSET Messages]
        /\ order \in [Containers -> Seq(Messages)]
    BY ENAssumption DEF Typed, TypeOK
  <2>3. Tail(order[k]) \in Seq(Messages)
    <3>1. order[k] \in Seq(Messages) /\ order[k] # <<>>
      BY <1>2, <2>2, ENAssumption
    <3> QED BY <3>1
  <2>4. /\ seen' \in [Containers -> SUBSET Messages]
        /\ order' \in [Containers -> Seq(Messages)]
    <3> HIDE DEF k
    <3> QED BY <2>1, <2>2, <2>3
  <2>5. \A m \in Messages : Known(m)' => Known(m)
    <3> HIDE DEF k
    <3> QED BY <2>1, <2>2 DEF Known
  <2>6. /\ used' \in Counters /\ Mishaps' = Mishaps + 1
        /\ used'.overlaps = used.overlaps
    BY <2>1, CountOne
  <2> QED BY <1>1, <2>1, <2>4, <2>5, <2>6 DEF Typed, TypeOK, Only, hist, Counters
<1>3. CASE ~(Len(order[k]) > Cap)
  <2>1. Goto(w, "triage") /\ UNCHANGED <<seen, order, used>>
    BY <1>3 DEF Evict, memory
  <2>2. /\ req' \in [Workers -> Request] /\ Only(w)
        /\ req'[w].pc = "triage" /\ Keeps(w)
    BY <2>1, GotoOne DEF Keeps
  <2>3. \A v \in Workers : HoldsOK(req'[v])
    BY <1>1, <2>2 DEF Typed, HoldsOK, TaskPcs, OpPcs, Only, Keeps
  <2>4. Calm
    BY <2>1, MishapsType
  <2> QED BY <1>1, <2>1, <2>2, <2>3, <2>4 DEF Typed, TypeOK, hist
<1> QED BY <1>2, <1>3

LEMMA IgnoreDoes ==
  ASSUME Typed, NEW w \in Workers, Ignore(w)
  PROVE  /\ Typed' /\ Only(w) /\ Calm /\ UNCHANGED <<rows, pend, seen, hist>>
         /\ req[w].pc = "triage" /\ req[w].msg \in Messages
         /\ req[w].conv = None /\ req[w].copy = NoRow
         /\ req'[w] = Idle
<1>1. /\ req[w].pc = "triage" /\ req[w].msg \in Messages
      /\ req[w].conv = None /\ req[w].copy = NoRow
      /\ Finish(w) /\ UNCHANGED <<rows, pend, seen, order, log, rewrites, used>>
  BY DEF Ignore, At, Typed, HoldsOK, TaskPcs, memory, hist
<1>2. Calm
  BY <1>1, MishapsType
<1> QED BY <1>1, <1>2, FinishOne DEF Typed, TypeOK, hist

LEMMA TriageDoes ==
  ASSUME Typed, NEW w \in Workers, Triage(w)
  PROVE  /\ Typed' /\ Only(w) /\ Calm /\ UNCHANGED <<rows, pend, seen, hist>>
         /\ req[w].pc = "triage" /\ req[w].msg \in Messages
         /\ req[w].conv = None /\ req[w].copy = NoRow
         /\ req'[w].pc = "verdict" /\ req'[w].msg = req[w].msg
         /\ \/ Of(ThreadOf[req[w].msg]) = {} /\ req'[w].conv = None /\ req'[w].copy = NoRow
            \/ /\ req'[w].conv \in Of(ThreadOf[req[w].msg])
               /\ req'[w].copy = rows[req'[w].conv]
<1> DEFINE mine == Of(ThreadOf[req[w].msg])
<1>1. /\ req[w].pc = "triage" /\ req[w].msg \in Messages
      /\ req[w].conv = None /\ req[w].copy = NoRow
      /\ UNCHANGED <<rows, pend, seen, order, hist, used>>
  BY DEF Triage, At, Typed, HoldsOK, TaskPcs, memory
<1>2. PICK c \in IF mine = {} THEN {None} ELSE mine :
        req' = [req EXCEPT ![w].pc = "verdict", ![w].conv = c,
                           ![w].copy = IF c = None THEN NoRow ELSE rows[c]]
  BY DEF Triage
<1> DEFINE row == IF c = None THEN NoRow ELSE rows[c]
           r == [[[req[w] EXCEPT !.pc = "verdict"] EXCEPT !.conv = c] EXCEPT !.copy = row]
<1>3. /\ c \in Convs \cup {None} /\ row \in Row
      /\ \/ mine = {} /\ c = None /\ row = NoRow
         \/ c \in mine /\ c # None /\ row = rows[c]
  BY <1>2, RowTypes, ENAssumption DEF Of, Typed, TypeOK
<1>4. req[w] \in Request /\ req \in [Workers -> Request]
  BY DEF Typed, TypeOK
<1> HIDE DEF row, mine
<1>5. /\ r \in Request /\ r.pc = "verdict" /\ r.msg = req[w].msg /\ r.conv = c
      /\ r.copy = row
  BY <1>3, <1>4 DEF Request
<1>6. req' = [req EXCEPT ![w] = r]
  BY <1>2, <1>4 DEF row
<1> HIDE DEF r
<1>7. req' \in [Workers -> Request] /\ Only(w) /\ req'[w] = r
  BY <1>4, <1>5, <1>6 DEF Only
<1>8. \A v \in Workers : HoldsOK(req'[v])
  BY <1>1, <1>3, <1>5, <1>7 DEF Typed, HoldsOK, TaskPcs, OpPcs, Only
<1>9. Calm
  BY <1>1, MishapsType
<1> QED BY <1>1, <1>3, <1>5, <1>7, <1>8, <1>9 DEF Typed, TypeOK, hist, mine

LEMMA VerdictDoes ==
  ASSUME Typed, NEW w \in Workers, Verdict(w)
  PROVE  /\ Typed' /\ Only(w) /\ Calm /\ UNCHANGED <<rows, pend, seen, rewrites>>
         /\ req[w].pc = "verdict" /\ req[w].msg \in Messages
         /\ \/ req'[w] = Idle /\ UNCHANGED hist
            \/ /\ req'[w].pc = "turn" /\ req'[w].msg = req[w].msg
               /\ req'[w].conv = req[w].conv /\ req'[w].copy = req[w].copy
               /\ req[w].copy.status # "rejected"
               /\ \/ req'[w].gate /\ UNCHANGED hist
                  \/ ~req'[w].gate /\ Note(req[w].msg, "released")
<1>1. /\ req[w].pc = "verdict" /\ req[w].msg \in Messages
      /\ UNCHANGED <<rows, pend, seen, order, used>>
  BY DEF Verdict, At, Typed, HoldsOK, TaskPcs, memory
<1>2. Calm
  BY <1>1, MishapsType
<1>3. req[w] \in Request /\ req \in [Workers -> Request]
  BY DEF Typed, TypeOK
<1>4. PICK conf \in {"low", "mid", "high"}, quote \in BOOLEAN :
        \/ Finish(w) /\ UNCHANGED hist
        \/ /\ ~Dropped(w, conf, quote)
           /\ req' = [req EXCEPT ![w].pc = "turn", ![w].gate = Gated(w, conf, quote)]
           /\ IF Gated(w, conf, quote) THEN UNCHANGED hist
              ELSE Note(req[w].msg, "released")
  BY DEF Verdict
<1>5. CASE Finish(w) /\ UNCHANGED hist
  BY <1>1, <1>2, <1>5, FinishOne DEF Typed, TypeOK, hist
<1>6. CASE /\ ~Dropped(w, conf, quote)
           /\ req' = [req EXCEPT ![w].pc = "turn", ![w].gate = Gated(w, conf, quote)]
           /\ IF Gated(w, conf, quote) THEN UNCHANGED hist
              ELSE Note(req[w].msg, "released")
  <2> DEFINE g == Gated(w, conf, quote)
             r == [[req[w] EXCEPT !.pc = "turn"] EXCEPT !.gate = g]
  <2>1. g \in BOOLEAN
    BY DEF Gated
  <2>2. req' = [req EXCEPT ![w] = r]
    BY <1>3, <1>6
  <2>3. req[w].copy.status # "rejected"
    BY <1>6 DEF Dropped
  <2>4. IF g THEN UNCHANGED hist ELSE Note(req[w].msg, "released")
    BY <1>6
  <2> HIDE DEF g
  <2>5. /\ r \in Request /\ r.pc = "turn" /\ r.msg = req[w].msg
        /\ r.conv = req[w].conv /\ r.copy = req[w].copy /\ r.gate = g
    BY <1>3, <2>1 DEF Request
  <2> HIDE DEF r
  <2>6. req' \in [Workers -> Request] /\ Only(w) /\ req'[w] = r
    BY <1>3, <2>2, <2>5 DEF Only
  <2>7. \A v \in Workers : HoldsOK(req'[v])
    BY <1>1, <2>5, <2>6 DEF Typed, HoldsOK, TaskPcs, OpPcs, Only
  <2>8. log' \in [Messages -> Log] /\ rewrites' = rewrites
    BY <2>4, NoteOne DEF hist, Typed, TypeOK, Log
  <2>9. Typed'
    BY <1>1, <2>6, <2>7, <2>8 DEF Typed, TypeOK, Log
  <2> QED BY <1>1, <1>2, <2>1, <2>3, <2>4, <2>5, <2>6, <2>8, <2>9
<1> QED BY <1>4, <1>5, <1>6

\* The turn of a task works on its row, or adds one where there was none.
LEMMA TurnDoes ==
  ASSUME Typed, NEW w \in Workers, Turn(w)
  PROVE  /\ Typed' /\ Only(w) /\ Calm /\ UNCHANGED <<seen, hist>>
         /\ req[w].pc = "turn" /\ req[w].msg \in Messages
         /\ \E c \in Convs :
              /\ IF req[w].conv = None THEN rows[c] = NoRow ELSE c = req[w].conv
              /\ \A d \in Convs \ {c} : rows'[d] = rows[d]
              /\ rows'[c].thread = (IF req[w].conv = None THEN ThreadOf[req[w].msg]
                                    ELSE rows[c].thread)
              /\ rows'[c].cls = rows[c].cls
              /\ rows'[c].status \in {"open", rows[c].status}
              /\ pend' = pend \/ pend' = pend \cup {c}
              /\ \/ req'[w] = Idle
                 \/ /\ req'[w].pc = (IF req[w].gate THEN "park" ELSE "post")
                    /\ req'[w].msg = req[w].msg /\ req'[w].conv = c
                    /\ req'[w].copy = rows'[c]
<1>1. /\ req[w].pc = "turn" /\ req[w].msg \in Messages
      /\ UNCHANGED <<seen, order, hist, used>>
  BY DEF Turn, At, Typed, HoldsOK, TaskPcs, memory
<1>2. Calm
  BY <1>1, MishapsType
<1>3. PICK c \in Convs, quoted \in BOOLEAN, s \in {"open", req[w].copy.status},
           pc \in {"idle", IF req[w].gate THEN "park" ELSE "post"} :
        /\ IF req[w].conv = None THEN rows[c] = NoRow ELSE c = req[w].conv
        /\ Talk(w, c, ThreadOf[req[w].msg], quoted, s, pc)
  BY DEF Turn
<1>4. /\ ThreadOf[req[w].msg] \in Threads \cup {None}
      /\ s \in Statuses /\ pc \in {"idle", "park", "post", "resend"}
      /\ req[w].conv = None => req[w].copy.status = "open"
  BY <1>1, <1>3, ENAssumption DEF Typed, TypeOK, Request, Row, Statuses, HoldsOK, NoRow
<1>5. /\ rows' \in [Convs -> Row] /\ pend' \subseteq Convs
      /\ req' \in [Workers -> Request] /\ Only(w)
      /\ \A d \in Convs \ {c} : rows'[d] = rows[d]
      /\ rows'[c].thread = (IF req[w].conv = None THEN ThreadOf[req[w].msg]
                            ELSE rows[c].thread)
      /\ rows'[c].cls = (IF req[w].conv = None THEN NoCls ELSE rows[c].cls)
      /\ rows'[c].status = (IF s # req[w].copy.status THEN s
                            ELSE IF req[w].conv = None THEN "open" ELSE rows[c].status)
      /\ pc = "idle" => req'[w] = Idle
      /\ pc # "idle" =>
           /\ req'[w].pc = pc /\ req'[w].msg = req[w].msg
           /\ req'[w].gate = req[w].gate
           /\ req'[w].conv = c /\ req'[w].copy = rows'[c]
      /\ \A v \in Workers \ {w} : HoldsOK(req'[v])
  BY <1>3, <1>4, TalkOne
<1>6. pend' = pend \/ pend' = pend \cup {c}
  BY <1>3 DEF Talk
<1>7. /\ rows'[c].cls = rows[c].cls
      /\ rows'[c].status \in {"open", rows[c].status}
  BY <1>3, <1>4, <1>5 DEF NoRow
<1>8. HoldsOK(req'[w])
  <2>1. CASE pc = "idle"
    BY <1>5, <2>1, RowTypes
  <2>2. CASE pc # "idle"
    <3>1. pc = "park" \/ pc = "post"
      BY <1>3, <2>2
    <3> QED BY <1>1, <1>5, <2>2, <3>1, ENAssumption DEF HoldsOK, TaskPcs, OpPcs
  <2> QED BY <2>1, <2>2
<1>9. Typed'
  BY <1>1, <1>5, <1>8 DEF Typed, TypeOK, hist
<1>10. \/ req'[w] = Idle
       \/ /\ req'[w].pc = (IF req[w].gate THEN "park" ELSE "post")
          /\ req'[w].msg = req[w].msg /\ req'[w].conv = c
          /\ req'[w].copy = rows'[c]
  BY <1>3, <1>5
<1> QED BY <1>1, <1>2, <1>3, <1>5, <1>6, <1>7, <1>9, <1>10

\* A classification that says of its parked reply what another one says.
Like(cls, src) ==
  cls.parked = src.parked /\ cls.blank = src.blank /\ cls.drafted = src.drafted

\* Only row c is written, and its thread stays.
Writes(c) ==
  /\ \A d \in Convs \ {c} : rows'[d] = rows[d]
  /\ rows'[c].thread = rows[c].thread

\* The classification is written back with one of its flags changed.
LEMMA ClsTypes ==
  ASSUME NEW cls \in Cls
  PROVE  /\ \A b \in BOOLEAN : LET new == [cls EXCEPT !.noticed = b]
                               IN new \in Cls /\ Like(new, cls)
         /\ LET new == [cls EXCEPT !.approved = TRUE] IN new \in Cls /\ Like(new, cls)
         /\ LET new == [cls EXCEPT !.rejected = TRUE] IN new \in Cls /\ Like(new, cls)
         /\ LET new == [cls EXCEPT !.drafted = TRUE]
            IN /\ new \in Cls /\ new.drafted /\ new.parked = cls.parked
               /\ new.blank = cls.blank
BY DEF Cls, Like

LEMMA ClsWritten ==
  ASSUME Typed, NEW c \in Convs, NEW cls \in Cls,
         rows' = [rows EXCEPT ![c].cls = cls]
  PROVE  /\ rows' \in [Convs -> Row] /\ Writes(c)
         /\ rows'[c].cls = cls /\ rows'[c].status = rows[c].status
<1> DEFINE row == [rows[c] EXCEPT !.cls = cls]
<1>1. rows \in [Convs -> Row]
  BY DEF Typed, TypeOK
<1>2. /\ row \in Row /\ row.thread = rows[c].thread /\ row.cls = cls
      /\ row.status = rows[c].status
  BY <1>1 DEF Row
<1>3. rows' = [rows EXCEPT ![c] = row]
  BY <1>1
<1> HIDE DEF row
<1> QED BY <1>1, <1>2, <1>3 DEF Writes

LEMMA ParkDoes ==
  ASSUME Typed, NEW w \in Workers, Park(w)
  PROVE  /\ Typed' /\ Only(w) /\ Calm /\ UNCHANGED <<pend, seen, log>>
         /\ req[w].pc = "park" /\ req[w].msg \in Messages /\ req[w].conv \in Convs
         /\ Writes(req[w].conv)
         /\ LET c == req[w].conv
                m == req[w].msg
            IN /\ rows'[c].cls.parked = m
               /\ rows'[c].cls.drafted \in {req[w].copy.cls.drafted, rows[c].cls.drafted}
               /\ rows'[c].status \in {"pending", rows[c].status}
               /\ rewrites' = rewrites \/ rewrites' = rewrites \cup {m}
               /\ rows'[c].cls.blank => m \in rewrites'
         /\ req'[w].pc = "notice" /\ Keeps(w)
<1> DEFINE c == req[w].conv
           m == req[w].msg
<1>1. /\ req[w].pc = "park" /\ m \in Messages /\ c \in Convs
      /\ UNCHANGED <<pend, seen, order, log, used>> /\ Goto(w, "notice")
  BY DEF Park, At, Typed, TypeOK, Request, HoldsOK, TaskPcs, memory
<1>2. Calm
  BY <1>1, MishapsType
<1>3. PICK copy \in {req[w].copy, rows[c]}, blank \in BOOLEAN :
        /\ rows' = [rows EXCEPT ![c] =
             [Update(rows[c], copy, [copy EXCEPT !.status = "pending"])
                EXCEPT !.cls = [copy.cls EXCEPT !.parked = m, !.blank = blank]]]
        /\ rewrites' = IF blank THEN rewrites \cup {m} ELSE rewrites
  BY DEF Park
<1> DEFINE new == [copy EXCEPT !.status = "pending"]
           up == Update(rows[c], copy, new)
           cls == [[copy.cls EXCEPT !.parked = m] EXCEPT !.blank = blank]
           row == [up EXCEPT !.cls = cls]
<1>4. /\ rows[c] \in Row /\ copy \in Row /\ rows \in [Convs -> Row]
      /\ req \in [Workers -> Request]
  BY <1>1 DEF Typed, TypeOK, Request
<1>5. new \in Row /\ new.status = "pending"
  BY <1>4 DEF Row, Statuses
<1> HIDE DEF new
<1>6. up \in Row /\ up.thread = rows[c].thread /\ up.status \in {"pending", rows[c].status}
  BY <1>4, <1>5, RowTypes DEF Update
<1>7. /\ cls \in Cls /\ cls.parked = m /\ cls.blank = blank
      /\ cls.drafted = copy.cls.drafted
  <2>1. copy.cls \in Cls
    BY <1>4 DEF Row
  <2> HIDE DEF c
  <2> QED BY <1>1, <2>1 DEF Cls
<1> HIDE DEF up, cls
<1>8. /\ row \in Row /\ row.thread = rows[c].thread /\ row.cls = cls
      /\ row.status \in {"pending", rows[c].status}
  BY <1>6, <1>7 DEF Row
<1>9. rows' = [rows EXCEPT ![c] = row]
  BY <1>3, <1>4 DEF up, cls, new
<1> HIDE DEF row
<1>10. /\ rows' \in [Convs -> Row] /\ Writes(c) /\ rows'[c] = row
  BY <1>1, <1>4, <1>8, <1>9 DEF Writes
<1>11. /\ req' \in [Workers -> Request] /\ Only(w)
       /\ req'[w].pc = "notice" /\ Keeps(w)
  BY <1>1, GotoOne DEF Keeps
<1>12. \A v \in Workers : HoldsOK(req'[v])
  BY <1>1, <1>11, ENAssumption DEF Typed, HoldsOK, TaskPcs, OpPcs, Only, Keeps
<1>13. /\ rewrites' \subseteq Messages
       /\ rewrites' = rewrites \/ rewrites' = rewrites \cup {m}
       /\ blank => m \in rewrites'
  BY <1>1, <1>3 DEF Typed, TypeOK
<1>14. Typed'
  BY <1>1, <1>10, <1>11, <1>12, <1>13 DEF Typed, TypeOK
<1>15. rows'[c].cls.drafted \in {req[w].copy.cls.drafted, rows[c].cls.drafted}
  BY <1>3, <1>7, <1>8, <1>10
<1>16. /\ rows'[c].cls.parked = m /\ rows'[c].status \in {"pending", rows[c].status}
       /\ rows'[c].cls.blank => m \in rewrites'
  BY <1>7, <1>8, <1>10, <1>13
<1> QED BY <1>1, <1>2, <1>10, <1>11, <1>13, <1>14, <1>15, <1>16

LEMMA NoticeDoes ==
  ASSUME Typed, NEW w \in Workers, Notice(w)
  PROVE  /\ Typed' /\ Only(w) /\ Calm /\ UNCHANGED <<rows, pend, seen, hist>>
         /\ req[w].pc = "notice" /\ req[w].msg \in Messages /\ req[w].conv \in Convs
         /\ \/ req'[w] = Idle
            \/ /\ req'[w].pc = "mailed" /\ req'[w].msg = req[w].msg
               /\ req'[w].conv = req[w].conv /\ req'[w].copy = rows[req[w].conv]
<1> DEFINE row == rows[req[w].conv]
           r == [[req[w] EXCEPT !.pc = "mailed"] EXCEPT !.copy = row]
<1>1. /\ req[w].pc = "notice" /\ req[w].msg \in Messages /\ req[w].conv \in Convs
      /\ UNCHANGED <<rows, pend, seen, order, log, rewrites, used>>
  BY DEF Notice, At, Typed, TypeOK, Request, HoldsOK, TaskPcs, memory, hist
<1>2. Calm
  BY <1>1, MishapsType
<1>3. Finish(w) \/ req' = [req EXCEPT ![w] = r]
  BY DEF Notice, Typed, TypeOK
<1>4. CASE Finish(w)
  BY <1>1, <1>2, <1>4, FinishOne DEF Typed, TypeOK, hist
<1>5. CASE req' = [req EXCEPT ![w] = r]
  <2>1. req[w] \in Request /\ req \in [Workers -> Request] /\ row \in Row
    BY <1>1 DEF Typed, TypeOK
  <2> HIDE DEF row
  <2>2. /\ r \in Request /\ r.pc = "mailed" /\ r.msg = req[w].msg
        /\ r.conv = req[w].conv /\ r.copy = row
    BY <2>1 DEF Request
  <2> HIDE DEF r
  <2>3. req' \in [Workers -> Request] /\ Only(w) /\ req'[w] = r
    BY <1>5, <2>1, <2>2 DEF Only
  <2>4. \A v \in Workers : HoldsOK(req'[v])
    BY <1>1, <2>2, <2>3, ENAssumption DEF Typed, HoldsOK, TaskPcs, OpPcs, Only
  <2> QED BY <1>1, <1>2, <2>2, <2>3, <2>4 DEF Typed, TypeOK, row, hist
<1> QED BY <1>3, <1>4, <1>5

LEMMA NoticeSentDoes ==
  ASSUME Typed, NEW w \in Workers, NoticeSent(w)
  PROVE  /\ Typed' /\ Only(w) /\ Calm /\ UNCHANGED <<pend, seen, hist>>
         /\ req[w].pc = "mailed" /\ req[w].msg \in Messages /\ req[w].conv \in Convs
         /\ Writes(req[w].conv)
         /\ Like(rows'[req[w].conv].cls, req[w].copy.cls)
         /\ rows'[req[w].conv].status = rows[req[w].conv].status
         /\ req'[w] = Idle
<1>1. /\ req[w].pc = "mailed" /\ req[w].msg \in Messages /\ req[w].conv \in Convs
      /\ UNCHANGED <<pend, seen, order, log, rewrites, used>> /\ Finish(w)
  BY DEF NoticeSent, At, Typed, TypeOK, Request, HoldsOK, TaskPcs, memory, hist
<1>2. Calm
  BY <1>1, MishapsType
<1>3. PICK ok \in BOOLEAN :
        rows' = [rows EXCEPT ![req[w].conv].cls = [req[w].copy.cls EXCEPT !.noticed = ok]]
  BY DEF NoticeSent
<1>4. req[w].copy.cls \in Cls
  BY DEF Typed, TypeOK, Request, Row
<1> DEFINE cls == [req[w].copy.cls EXCEPT !.noticed = ok]
<1>5. cls \in Cls /\ Like(cls, req[w].copy.cls)
  BY <1>4, ClsTypes
<1> HIDE DEF cls
<1>6. /\ rows' \in [Convs -> Row] /\ Writes(req[w].conv)
      /\ rows'[req[w].conv].cls = cls
      /\ rows'[req[w].conv].status = rows[req[w].conv].status
  BY <1>1, <1>3, <1>5, ClsWritten DEF cls
<1> QED BY <1>1, <1>2, <1>5, <1>6, FinishOne DEF Typed, TypeOK, hist

\* A commit of one row: the classification is written when it was changed.
LEMMA UpdateWritten ==
  ASSUME Typed, NEW c \in Convs, NEW copy \in Row, NEW new \in Row,
         rows' = [rows EXCEPT ![c] = Update(rows[c], copy, new)]
  PROVE  /\ rows' \in [Convs -> Row] /\ Writes(c)
         /\ rows'[c].cls = (IF new.cls # copy.cls THEN new.cls ELSE rows[c].cls)
         /\ rows'[c].status = (IF new.status # copy.status THEN new.status
                               ELSE rows[c].status)
<1> DEFINE row == Update(rows[c], copy, new)
<1>1. rows \in [Convs -> Row] /\ rows[c] \in Row
  BY DEF Typed, TypeOK
<1>2. /\ row \in Row /\ row.thread = rows[c].thread
      /\ row.cls = (IF new.cls # copy.cls THEN new.cls ELSE rows[c].cls)
      /\ row.status = (IF new.status # copy.status THEN new.status
                       ELSE rows[c].status)
  BY <1>1, RowTypes DEF Update
<1>3. rows' = [rows EXCEPT ![c] = row]
  OBVIOUS
<1> HIDE DEF row
<1> QED BY <1>1, <1>2, <1>3 DEF Writes

LEMMA PostDoes ==
  ASSUME Typed, NEW w \in Workers, Post(w) \/ Resend(w)
  PROVE  /\ Typed' /\ Only(w) /\ Calm /\ UNCHANGED <<rows, pend, seen, rewrites>>
         /\ Post(w) => req[w].pc = "post" /\ req[w].msg \in Messages
         /\ Resend(w) => req[w].pc = "resend"
         /\ Note(req[w].msg, "answered") \/ UNCHANGED hist
         /\ req'[w] = Idle
<1>1. /\ Post(w) => req[w].pc = "post" /\ req[w].msg \in Messages
      /\ Resend(w) => req[w].pc = "resend"
      /\ UNCHANGED <<rows, pend, seen, order, used>> /\ Finish(w)
      /\ Note(req[w].msg, "answered") \/ UNCHANGED hist
  BY DEF Post, Resend, At, Typed, HoldsOK, TaskPcs, memory
<1>2. Calm
  BY <1>1, MishapsType
<1>3. log' \in [Messages -> Log] /\ rewrites' = rewrites
  BY <1>1, NoteOne DEF hist, Typed, TypeOK, Log
<1> QED BY <1>1, <1>2, <1>3, FinishOne DEF Typed, TypeOK, Log

LEMMA StampDoes ==
  ASSUME Typed, NEW w \in Workers, StampApproval(w)
  PROVE  /\ Typed' /\ Only(w) /\ Calm /\ UNCHANGED <<pend, seen, hist>>
         /\ req[w].pc = "click" /\ req[w].conv \in Convs
         /\ Writes(req[w].conv)
         /\ rows'[req[w].conv].status = rows[req[w].conv].status
         /\ req'[w].pc = "flip" /\ req'[w].msg = req[w].msg
         /\ req'[w].conv = req[w].conv
         /\ \/ req'[w].copy = req[w].copy /\ rows' = rows
            \/ /\ req'[w].copy = rows'[req[w].conv]
               /\ Like(rows'[req[w].conv].cls, req[w].copy.cls)
<1> DEFINE c == req[w].conv
           copy == req[w].copy
<1>1. /\ req[w].pc = "click" /\ c \in Convs
      /\ UNCHANGED <<pend, seen, order, log, rewrites, used>>
  BY DEF StampApproval, At, Typed, TypeOK, Request, HoldsOK, OpPcs, memory, hist
<1>2. Calm
  BY <1>1, MishapsType
<1>3. CASE Goto(w, "flip") /\ UNCHANGED rows
  <2>1. /\ req' \in [Workers -> Request] /\ Only(w)
        /\ req'[w].pc = "flip" /\ Keeps(w)
    BY <1>3, GotoOne DEF Keeps
  <2>2. \A v \in Workers : HoldsOK(req'[v])
    BY <1>1, <2>1, ENAssumption DEF Typed, HoldsOK, TaskPcs, OpPcs, Only, Keeps
  <2> QED BY <1>1, <1>2, <1>3, <2>1, <2>2 DEF Typed, TypeOK, hist, Writes, Keeps
<1>4. CASE ~(Goto(w, "flip") /\ UNCHANGED rows)
  <2> DEFINE cls == [copy.cls EXCEPT !.approved = TRUE]
             new == [copy EXCEPT !.cls = cls]
             row == Update(rows[c], copy, new)
             r == [[req[w] EXCEPT !.pc = "flip"] EXCEPT !.copy = row]
  <2>1. /\ ~copy.cls.approved
        /\ rows' = [rows EXCEPT ![c] = Update(rows[c], copy, [copy EXCEPT !.cls.approved = TRUE])]
        /\ req' = [req EXCEPT ![w].pc = "flip", ![w].copy =
                     Update(rows[c], copy, [copy EXCEPT !.cls.approved = TRUE])]
    BY <1>4 DEF StampApproval
  <2>2. /\ req[w] \in Request /\ req \in [Workers -> Request]
        /\ copy \in Row /\ copy.cls \in Cls /\ rows[c] \in Row
        /\ rows \in [Convs -> Row]
    BY <1>1 DEF Typed, TypeOK, Request, Row
  <2>3. /\ cls \in Cls /\ Like(cls, copy.cls) /\ cls.approved
    BY <2>2, ClsTypes DEF Cls
  <2>4. rows' = [rows EXCEPT ![c] = row]
    BY <2>1, <2>2
  <2>13. req' = [req EXCEPT ![w] = r]
    BY <2>1, <2>2
  <2> HIDE DEF cls
  <2>5. new \in Row /\ new.cls = cls /\ new.status = copy.status
    BY <2>2, <2>3 DEF Row
  <2> HIDE DEF new
  <2>6. cls # copy.cls
    BY <2>1, <2>3
  <2>7. row \in Row
    BY <2>2, <2>5, RowTypes
  <2>14. /\ rows' \in [Convs -> Row] /\ Writes(c)
         /\ rows'[c].cls = (IF new.cls # copy.cls THEN new.cls ELSE rows[c].cls)
         /\ rows'[c].status = (IF new.status # copy.status THEN new.status
                               ELSE rows[c].status)
    <3>1. c \in Convs /\ copy \in Row /\ new \in Row
      BY <1>1, <2>2, <2>5
    <3>2. rows' = [rows EXCEPT ![c] = Update(rows[c], copy, new)]
      BY <2>4
    <3> HIDE DEF c, copy
    <3> QED BY <3>1, <3>2, UpdateWritten
  <2>8. /\ rows' \in [Convs -> Row] /\ Writes(c) /\ rows'[c].cls = cls
        /\ rows'[c].status = rows[c].status
    BY <2>5, <2>6, <2>14
  <2>9. rows'[c] = row
    BY <1>1, <2>2, <2>4
  <2> HIDE DEF row, c, copy
  <2>10. /\ r \in Request /\ r.pc = "flip" /\ r.msg = req[w].msg
         /\ r.conv = req[w].conv /\ r.copy = row
    BY <2>2, <2>7 DEF Request
  <2> HIDE DEF r
  <2>11. req' \in [Workers -> Request] /\ Only(w) /\ req'[w] = r
    BY <2>2, <2>13, <2>10 DEF Only
  <2>12. \A v \in Workers : HoldsOK(req'[v])
    BY <1>1, <2>10, <2>11, ENAssumption DEF Typed, HoldsOK, TaskPcs, OpPcs, Only, c
  <2> QED BY <1>1, <1>2, <2>3, <2>8, <2>9, <2>10, <2>11, <2>12
          DEF Typed, TypeOK, hist, c, copy
<1> QED BY <1>3, <1>4

LEMMA FlipDoes ==
  ASSUME Typed, NEW w \in Workers, Flip(w)
  PROVE  /\ Typed' /\ Only(w) /\ Calm /\ UNCHANGED <<pend, seen, rewrites>>
         /\ req[w].pc = "flip" /\ req[w].conv \in Convs
         /\ Note(req[w].copy.cls.parked, "cleared")
         /\ Writes(req[w].conv)
         /\ rows'[req[w].conv].cls = rows[req[w].conv].cls
         /\ rows'[req[w].conv].status \in {"approved", rows[req[w].conv].status}
         /\ req'[w].pc = (IF req[w].copy.cls.blank THEN "replay" ELSE "send")
         /\ req[w].copy.cls.blank => rows' = rows
         /\ req'[w].msg = req[w].copy.cls.parked
         /\ req'[w].conv = req[w].conv /\ req'[w].copy = req[w].copy
<1> DEFINE c == req[w].conv
           copy == req[w].copy
           new == [copy EXCEPT !.status = "approved"]
           pc == IF copy.cls.blank THEN "replay" ELSE "send"
           r == [[req[w] EXCEPT !.msg = copy.cls.parked] EXCEPT !.pc = pc]
<1>1. /\ req[w].pc = "flip" /\ c \in Convs
      /\ UNCHANGED <<pend, seen, order, used>> /\ Note(copy.cls.parked, "cleared")
      /\ copy.cls.blank => rows' = rows
      /\ ~copy.cls.blank => rows' = [rows EXCEPT ![c] = Update(rows[c], copy, new)]
      /\ req' = [req EXCEPT ![w].msg = copy.cls.parked, ![w].pc = pc]
  BY DEF Flip, At, Typed, TypeOK, Request, HoldsOK, OpPcs, memory
<1>2. Calm
  BY <1>1, MishapsType
<1>3. log' \in [Messages -> Log] /\ rewrites' = rewrites
  BY <1>1, NoteOne
<1>4. /\ req[w] \in Request /\ req \in [Workers -> Request]
      /\ copy \in Row /\ copy.cls \in Cls /\ rows \in [Convs -> Row]
      /\ copy.cls.parked \in Messages \cup {None}
  BY DEF Typed, TypeOK, Request, Row, Cls
<1>5. new \in Row /\ new.status = "approved" /\ new.cls = copy.cls
  BY <1>4 DEF Row, Statuses
<1>6. /\ rows' \in [Convs -> Row] /\ Writes(c) /\ rows'[c].cls = rows[c].cls
      /\ rows'[c].status \in {"approved", rows[c].status}
  <2>1. CASE copy.cls.blank
    BY <1>1, <1>4, <2>1 DEF Writes
  <2>2. CASE ~copy.cls.blank
    <3> HIDE DEF new
    <3> QED BY <1>1, <1>4, <1>5, <2>2, UpdateWritten
  <2> QED BY <2>1, <2>2
<1>7. req' = [req EXCEPT ![w] = r]
  BY <1>1, <1>4
<1> HIDE DEF copy
<1>8. /\ r \in Request /\ r.pc = pc /\ r.msg = copy.cls.parked
      /\ r.conv = req[w].conv /\ r.copy = req[w].copy
  BY <1>4 DEF Request
<1> HIDE DEF r
<1>9. req' \in [Workers -> Request] /\ Only(w) /\ req'[w] = r
  BY <1>4, <1>7, <1>8 DEF Only
<1>10. \A v \in Workers : HoldsOK(req'[v])
  BY <1>1, <1>8, <1>9, ENAssumption DEF Typed, HoldsOK, TaskPcs, OpPcs, Only, pc
<1> QED BY <1>1, <1>2, <1>3, <1>6, <1>8, <1>9, <1>10 DEF Typed, TypeOK, Log, copy

LEMMA SendDoes ==
  ASSUME Typed, NEW w \in Workers, Send(w)
  PROVE  /\ Typed' /\ Only(w) /\ Calm /\ UNCHANGED <<rows, pend, seen, rewrites>>
         /\ req[w].pc = "send" /\ req[w].conv \in Convs
         /\ \/ /\ Note(req[w].msg, "answered")
               /\ req'[w].pc = "record" /\ Keeps(w)
            \/ UNCHANGED hist /\ req'[w] = Idle
<1>1. /\ req[w].pc = "send" /\ req[w].conv \in Convs
      /\ UNCHANGED <<rows, pend, seen, order, used>>
      /\ \/ Note(req[w].msg, "answered") /\ Goto(w, "record")
         \/ UNCHANGED hist /\ Finish(w)
  BY DEF Send, At, Typed, TypeOK, Request, HoldsOK, OpPcs, memory
<1>2. Calm
  BY <1>1, MishapsType
<1>3. CASE Note(req[w].msg, "answered") /\ Goto(w, "record")
  <2>1. log' \in [Messages -> Log] /\ rewrites' = rewrites
    BY <1>3, NoteOne
  <2>2. /\ req' \in [Workers -> Request] /\ Only(w)
        /\ req'[w].pc = "record" /\ Keeps(w)
    BY <1>3, GotoOne DEF Keeps
  <2>3. \A v \in Workers : HoldsOK(req'[v])
    BY <1>1, <2>2, ENAssumption DEF Typed, HoldsOK, TaskPcs, OpPcs, Only, Keeps
  <2> QED BY <1>1, <1>2, <1>3, <2>1, <2>2, <2>3 DEF Typed, TypeOK, Log
<1>4. CASE UNCHANGED hist /\ Finish(w)
  BY <1>1, <1>2, <1>4, FinishOne DEF Typed, TypeOK, hist
<1> QED BY <1>1, <1>3, <1>4

LEMMA RecordDoes ==
  ASSUME Typed, NEW w \in Workers, Record(w)
  PROVE  /\ Typed' /\ Only(w) /\ Calm /\ UNCHANGED <<pend, seen, hist>>
         /\ req[w].pc = "record" /\ req[w].conv \in Convs
         /\ Writes(req[w].conv)
         /\ rows'[req[w].conv].cls.drafted
         /\ rows'[req[w].conv].cls.parked = req[w].copy.cls.parked
         /\ rows'[req[w].conv].cls.blank = req[w].copy.cls.blank
         /\ rows'[req[w].conv].status = rows[req[w].conv].status
         /\ req'[w] = Idle
<1> DEFINE cls == [req[w].copy.cls EXCEPT !.drafted = TRUE]
<1>1. /\ req[w].pc = "record" /\ req[w].conv \in Convs
      /\ UNCHANGED <<pend, seen, order, log, rewrites, used>> /\ Finish(w)
      /\ rows' = [rows EXCEPT ![req[w].conv].cls = cls]
  BY DEF Record, At, Typed, TypeOK, Request, HoldsOK, OpPcs, memory, hist
<1>2. Calm
  BY <1>1, MishapsType
<1>3. req[w].copy.cls \in Cls
  BY DEF Typed, TypeOK, Request, Row
<1>4. /\ cls \in Cls /\ cls.drafted /\ cls.parked = req[w].copy.cls.parked
      /\ cls.blank = req[w].copy.cls.blank
  BY <1>3, ClsTypes
<1> HIDE DEF cls
<1>5. /\ rows' \in [Convs -> Row] /\ Writes(req[w].conv)
      /\ rows'[req[w].conv].cls = cls
      /\ rows'[req[w].conv].status = rows[req[w].conv].status
  BY <1>1, <1>4, ClsWritten
<1> QED BY <1>1, <1>2, <1>4, <1>5, FinishOne DEF Typed, TypeOK, hist

LEMMA RecordFailsDoes ==
  ASSUME Typed, NEW w \in Workers, RecordFails(w)
  PROVE  /\ Typed' /\ Only(w) /\ UNCHANGED <<rows, pend, seen, hist>>
         /\ Mishaps' = Mishaps + 1 /\ used'.overlaps = used.overlaps
         /\ req[w].pc = "record" /\ req[w].conv \in Convs /\ req'[w] = Idle
<1>1. /\ req[w].pc = "record" /\ req[w].conv \in Convs
      /\ UNCHANGED <<rows, pend, seen, order, log, rewrites>> /\ Finish(w)
      /\ used' = [used EXCEPT !.lost = used.lost + 1]
  BY DEF RecordFails, At, Typed, TypeOK, Request, HoldsOK, OpPcs, memory, hist
<1>2. /\ used' \in Counters /\ Mishaps' = Mishaps + 1
      /\ used'.overlaps = used.overlaps
  BY <1>1, CountOne
<1> QED BY <1>1, <1>2, FinishOne DEF Typed, TypeOK, hist, Counters

LEMMA ReplayDoes ==
  ASSUME Typed, NEW w \in Workers, Replay(w)
  PROVE  /\ Typed' /\ Only(w) /\ Calm /\ UNCHANGED <<seen, hist>>
         /\ req[w].pc = "replay" /\ req[w].conv \in Convs
         /\ Writes(req[w].conv)
         /\ rows'[req[w].conv].cls = rows[req[w].conv].cls
         /\ rows'[req[w].conv].status \in {"open", "approved", rows[req[w].conv].status}
         /\ pend' = pend \/ pend' = pend \cup {req[w].conv}
         /\ \/ req'[w] = Idle
            \/ /\ req'[w].pc = "resend" /\ req'[w].msg = req[w].msg
               /\ req'[w].conv = req[w].conv
               /\ req'[w].copy = rows'[req[w].conv]
<1> DEFINE c == req[w].conv
<1>1. /\ req[w].pc = "replay" /\ c \in Convs /\ c # None
      /\ UNCHANGED <<seen, order, hist, used>>
  BY ENAssumption DEF Replay, At, Typed, TypeOK, Request, HoldsOK, OpPcs, memory
<1>2. Calm
  BY <1>1, MishapsType
<1>3. PICK quoted \in BOOLEAN, s \in {"open", "approved"}, pc \in {"idle", "resend"} :
        Talk(w, c, None, quoted, s, pc)
  BY DEF Replay
<1> HIDE DEF c
<1>4. s \in Statuses /\ pc \in {"idle", "park", "post", "resend"}
  BY DEF Statuses
<1>5. /\ rows' \in [Convs -> Row] /\ pend' \subseteq Convs
      /\ req' \in [Workers -> Request] /\ Only(w)
      /\ \A d \in Convs \ {c} : rows'[d] = rows[d]
      /\ rows'[c].thread = (IF req[w].conv = None THEN None ELSE rows[c].thread)
      /\ rows'[c].cls = (IF req[w].conv = None THEN NoCls ELSE rows[c].cls)
      /\ rows'[c].status =
           (IF s # req[w].copy.status THEN s
            ELSE IF req[w].conv = None THEN "open" ELSE rows[c].status)
      /\ pc = "idle" => req'[w] = Idle
      /\ pc # "idle" =>
           /\ req'[w].pc = pc /\ req'[w].msg = req[w].msg
           /\ req'[w].gate = req[w].gate
           /\ req'[w].conv = c /\ req'[w].copy = rows'[c]
      /\ \A v \in Workers \ {w} : HoldsOK(req'[v])
  BY <1>1, <1>3, <1>4, TalkOne
<1>6. pend' = pend \/ pend' = pend \cup {c}
  BY <1>3 DEF Talk
<1>7. HoldsOK(req'[w])
  <2>1. CASE pc = "idle"
    BY <1>5, <2>1, RowTypes
  <2>2. CASE pc # "idle"
    BY <1>1, <1>3, <1>5, <2>2 DEF HoldsOK, TaskPcs, OpPcs, c
  <2> QED BY <2>1, <2>2
<1>8. Typed'
  BY <1>1, <1>5, <1>7 DEF Typed, TypeOK, hist
<1>9. pc # "idle" => pc = "resend"
  BY <1>3
<1>10. /\ rows'[c].status \in {"open", "approved", rows[c].status}
       /\ rows'[c].thread = rows[c].thread /\ rows'[c].cls = rows[c].cls
  BY <1>1, <1>3, <1>5 DEF c
<1>11. Writes(c)
  BY <1>5, <1>10 DEF Writes
<1>12. \/ req'[w] = Idle
       \/ /\ req'[w].pc = "resend" /\ req'[w].msg = req[w].msg
          /\ req'[w].conv = c /\ req'[w].copy = rows'[c]
  BY <1>5, <1>9
<1> QED BY <1>1, <1>2, <1>5, <1>6, <1>8, <1>10, <1>11, <1>12 DEF c

LEMMA RejectDoes ==
  ASSUME Typed, NEW w \in Workers, Reject(w)
  PROVE  /\ Typed' /\ Only(w) /\ Calm /\ UNCHANGED <<seen, hist>>
         /\ req[w].pc = "reject" /\ req[w].conv \in Convs
         /\ Writes(req[w].conv)
         /\ \/ Like(rows'[req[w].conv].cls, req[w].copy.cls)
            \/ rows'[req[w].conv].cls = rows[req[w].conv].cls
         /\ rows'[req[w].conv].status \in {"rejected", rows[req[w].conv].status}
         /\ pend' = pend \ {req[w].conv}
         /\ req'[w] = Idle
<1> DEFINE c == req[w].conv
           copy == req[w].copy
           cls == [copy.cls EXCEPT !.rejected = TRUE]
           new == [[copy EXCEPT !.status = "rejected"] EXCEPT !.cls = cls]
<1>1. /\ req[w].pc = "reject" /\ c \in Convs
      /\ UNCHANGED <<seen, order, log, rewrites, used>> /\ Finish(w)
      /\ pend' = pend \ {c}
  BY DEF Reject, At, Typed, TypeOK, Request, HoldsOK, OpPcs, memory, hist
<1>2. Calm
  BY <1>1, MishapsType
<1>3. copy \in Row /\ copy.cls \in Cls
  BY DEF Typed, TypeOK, Request, Row
<1>4. cls \in Cls /\ Like(cls, copy.cls)
  BY <1>3, ClsTypes
<1>5. rows' = [rows EXCEPT ![c] = Update(rows[c], copy, new)]
  <2>1. rows' = [rows EXCEPT ![c] = Update(rows[c], copy,
                   [copy EXCEPT !.status = "rejected", !.cls.rejected = TRUE])]
    BY <1>1 DEF Reject, Typed, TypeOK
  <2> QED BY <1>3, <2>1 DEF Row
<1> HIDE DEF cls
<1>6. new \in Row /\ new.status = "rejected" /\ new.cls = cls
  BY <1>3, <1>4 DEF Row, Statuses
<1> HIDE DEF new
<1>7. /\ rows' \in [Convs -> Row] /\ Writes(c)
      /\ rows'[c].cls = (IF new.cls # copy.cls THEN new.cls ELSE rows[c].cls)
      /\ rows'[c].status = (IF new.status # copy.status THEN new.status
                            ELSE rows[c].status)
  BY <1>1, <1>3, <1>5, <1>6, UpdateWritten
<1>8. /\ Like(rows'[c].cls, copy.cls) \/ rows'[c].cls = rows[c].cls
      /\ rows'[c].status \in {"rejected", rows[c].status}
  BY <1>4, <1>6, <1>7
<1> HIDE DEF c, copy
<1> QED BY <1>1, <1>2, <1>7, <1>8, FinishOne DEF Typed, TypeOK, hist, c, copy

LEMMA CrashDoes ==
  ASSUME Typed, NEW k \in Containers, Crash(k)
  PROVE  /\ Typed' /\ UNCHANGED <<rows, pend, hist>>
         /\ \A m \in Messages : Known(m)' => Known(m)
         /\ Mishaps' = Mishaps + 1 /\ used'.overlaps = used.overlaps
         /\ \A w \in Workers : req'[w] = Idle \/ req'[w] = req[w]
<1>1. /\ UNCHANGED <<rows, pend, log, rewrites>>
      /\ seen' = [seen EXCEPT ![k] = {}] /\ order' = [order EXCEPT ![k] = <<>>]
      /\ used' = [used EXCEPT !.crashes = used.crashes + 1]
      /\ req' = [w \in Workers |-> IF HomeOf[w] = k THEN Idle ELSE req[w]]
  BY DEF Crash, hist
<1>2. /\ used' \in Counters /\ Mishaps' = Mishaps + 1
      /\ used'.overlaps = used.overlaps
  BY <1>1, CountOne
<1>3. /\ seen \in [Containers -> SUBSET Messages]
      /\ order \in [Containers -> Seq(Messages)]
  BY DEF Typed, TypeOK
<1>4. /\ seen' \in [Containers -> SUBSET Messages]
      /\ order' \in [Containers -> Seq(Messages)]
      /\ \A m \in Messages : Known(m)' => Known(m)
  <2>1. <<>> \in Seq(Messages)
    OBVIOUS
  <2> QED BY <1>1, <1>3, <2>1 DEF Known
<1>5. /\ \A w \in Workers : req'[w] = Idle \/ req'[w] = req[w]
      /\ req' \in [Workers -> Request] /\ \A w \in Workers : HoldsOK(req'[w])
  BY <1>1, RowTypes DEF Typed, TypeOK
<1> QED BY <1>1, <1>2, <1>4, <1>5 DEF Typed, TypeOK, hist, Counters

LEMMA DeliverDoes ==
  ASSUME Typed, NEW w \in Workers, NEW m \in Messages, Deliver(w, m)
  PROVE  /\ Typed' /\ Only(w) /\ UNCHANGED <<rows, pend, seen, hist>>
         /\ req[w] = Idle /\ req'[w].pc = "check" /\ req'[w].msg = m
         /\ req'[w].conv = None /\ req'[w].copy = NoRow
         /\ Mishaps' = Mishaps + (IF Works(ThreadOf[m]) THEN 1 ELSE 0)
         /\ used'.overlaps = used.overlaps + (IF Works(ThreadOf[m]) THEN 1 ELSE 0)
<1> DEFINE r == [[Idle EXCEPT !.pc = "check"] EXCEPT !.msg = m]
<1>1. /\ r \in Request /\ r.pc = "check" /\ r.msg = m /\ r.conv = None
      /\ r.copy = NoRow
  BY RowTypes DEF Request, Idle
<1>2. Begin(w, ThreadOf[m], r) /\ UNCHANGED <<rows, pend, seen, order, log, rewrites>>
  BY DEF Deliver, Idle, memory, hist
<1> HIDE DEF r
<1>3. HoldsOK(r)
  BY <1>1 DEF HoldsOK, TaskPcs, OpPcs
<1>4. /\ req' \in [Workers -> Request] /\ Only(w) /\ req'[w] = r /\ req[w] = Idle
      /\ used' \in Counters
      /\ Mishaps' = Mishaps + (IF Works(ThreadOf[m]) THEN 1 ELSE 0)
      /\ used'.overlaps = used.overlaps + (IF Works(ThreadOf[m]) THEN 1 ELSE 0)
      /\ \A v \in Workers : HoldsOK(req'[v])
  BY <1>1, <1>2, <1>3, BeginOne
<1> QED BY <1>1, <1>2, <1>4 DEF Typed, TypeOK, hist, Counters

\* Both clicks begin with the row as it is.
LEMMA ClickDoes ==
  ASSUME Typed, NEW w \in Workers, NEW c \in Convs,
         Click(w, c) \/ ClickReject(w, c)
  PROVE  /\ Typed' /\ Only(w) /\ UNCHANGED <<rows, pend, seen, hist>>
         /\ req[w] = Idle
         /\ Click(w, c) => /\ req'[w].pc = "click" /\ ~rows[c].cls.drafted
                           /\ rows[c].status \in {"pending", "approved"}
         /\ ClickReject(w, c) =>
              req'[w].pc = "reject" /\ rows[c].status \in {"pending", "rejected"}
         /\ req'[w].msg = None /\ req'[w].conv = c /\ req'[w].copy = rows[c]
         /\ Mishaps' = Mishaps + (IF Works(rows[c].thread) THEN 1 ELSE 0)
         /\ used'.overlaps = used.overlaps + (IF Works(rows[c].thread) THEN 1 ELSE 0)
<1> DEFINE row == rows[c]
           r(pc) == [[[Idle EXCEPT !.pc = pc] EXCEPT !.conv = c] EXCEPT !.copy = row]
<1>1. row \in Row /\ c # None
  BY ENAssumption DEF Typed, TypeOK
<1>2. /\ Click(w, c) => /\ Begin(w, rows[c].thread, r("click")) /\ ~rows[c].cls.drafted
                        /\ rows[c].status \in {"pending", "approved"}
      /\ ClickReject(w, c) => /\ Begin(w, rows[c].thread, r("reject"))
                              /\ rows[c].status \in {"pending", "rejected"}
      /\ UNCHANGED <<rows, pend, seen, order, log, rewrites>>
  BY DEF Click, ClickReject, Idle, memory, hist
<1> HIDE DEF row
<1>3. ASSUME NEW pc \in {"click", "reject"}
      PROVE  /\ r(pc) \in Request /\ r(pc).pc = pc /\ r(pc).msg = None
             /\ r(pc).conv = c /\ r(pc).copy = row
  BY <1>1, RowTypes DEF Request, Idle
<1> HIDE DEF r
<1>4. \A pc \in {"click", "reject"} : HoldsOK(r(pc))
  BY <1>1, <1>3 DEF HoldsOK, TaskPcs, OpPcs
<1>5. ASSUME NEW pc \in {"click", "reject"}, Begin(w, rows[c].thread, r(pc))
      PROVE  /\ req' \in [Workers -> Request] /\ Only(w) /\ req'[w] = r(pc)
             /\ req[w] = Idle /\ used' \in Counters
             /\ Mishaps' = Mishaps + (IF Works(rows[c].thread) THEN 1 ELSE 0)
             /\ used'.overlaps = used.overlaps + (IF Works(rows[c].thread) THEN 1 ELSE 0)
             /\ \A v \in Workers : HoldsOK(req'[v])
  BY <1>3, <1>4, <1>5, BeginOne
<1>6. CASE Click(w, c)
  <2>1. req'[w].pc = "click" /\ Typed' /\ Only(w) /\ req[w] = Idle
    BY <1>2, <1>3, <1>5, <1>6 DEF Typed, TypeOK, Counters
  <2>2. ~ClickReject(w, c)
    <3>1. req'[w] = r("click")
      BY <1>2, <1>5, <1>6
    <3>2. ClickReject(w, c) => req'[w] = r("reject")
      BY <1>2, <1>5
    <3> QED BY <1>3, <3>1, <3>2
  <2> QED BY <1>2, <1>3, <1>5, <1>6, <2>1, <2>2 DEF row, hist
<1>7. CASE ClickReject(w, c)
  <2>1. req'[w].pc = "reject" /\ Typed' /\ Only(w) /\ req[w] = Idle
    BY <1>2, <1>3, <1>5, <1>7 DEF Typed, TypeOK, Counters
  <2>2. ~Click(w, c)
    <3>1. req'[w] = r("reject")
      BY <1>2, <1>5, <1>7
    <3>2. Click(w, c) => req'[w] = r("click")
      BY <1>2, <1>5
    <3> QED BY <1>3, <3>1, <3>2
  <2> QED BY <1>2, <1>3, <1>5, <1>7, <2>1, <2>2 DEF row, hist
<1> QED BY <1>6, <1>7

LEMMA TypedStep == Typed /\ [Next]_vars => Typed'
<1> SUFFICES ASSUME Typed, [Next]_vars PROVE Typed'
  OBVIOUS
<1>1. ASSUME NEW k \in Containers, Crash(k) PROVE Typed'
  BY <1>1, CrashDoes
<1>2. ASSUME NEW w \in Workers, Task(w) PROVE Typed'
  <2>1. CASE Ignore(w)
    BY <2>1, IgnoreDoes
  <2> QED BY <1>2, <2>1, CheckMarkDoes, AddMarkDoes, EvictDoes, TriageDoes,
             VerdictDoes, TurnDoes, ParkDoes, NoticeDoes, NoticeSentDoes, PostDoes
          DEF Task
<1>3. ASSUME NEW w \in Workers, Operator(w) PROVE Typed'
  BY <1>3, StampDoes, FlipDoes, SendDoes, RecordDoes, RecordFailsDoes,
     ReplayDoes, PostDoes, RejectDoes DEF Operator
<1>4. ASSUME NEW w \in Workers, NEW m \in Messages, Deliver(w, m) PROVE Typed'
  BY <1>4, DeliverDoes
<1>5. ASSUME NEW w \in Workers, NEW c \in Convs, Click(w, c) \/ ClickReject(w, c)
      PROVE  Typed'
  BY <1>5, ClickDoes
<1>6. CASE UNCHANGED vars
  BY <1>6 DEF vars, Typed, TypeOK
<1> QED BY <1>1, <1>2, <1>3, <1>4, <1>5, <1>6 DEF Next

\* The state of the mailbox, its workers and its history has the shape the
\* code gives it, whatever is delivered, clicked, lost or restarted.
THEOREM TypeCorrect == Spec => []TypeOK
<1>1. Typed => TypeOK
  BY DEF Typed
<1> QED BY <1>1, TypedInit, TypedStep, PTL DEF Spec

\* A worker that works on thread t.
Mine(w, t) == \/ req[w].msg \in {m \in Messages : ThreadOf[m] = t}
              \/ req[w].conv \in Of(t)

\* No row is added and none changes its thread.
Settled == \A c \in Convs : rows'[c].thread = rows[c].thread

LEMMA SettledSame == ASSUME rows' = rows PROVE Settled
BY DEF Settled

LEMMA SettledWrites == ASSUME NEW c \in Convs, Writes(c) PROVE Settled
BY DEF Settled, Writes

LEMMA NoteSame ==
  ASSUME Typed, NEW m, NEW field \in {"taken", "released", "cleared", "answered"},
         Note(m, field), NEW n \in Messages
  PROVE  /\ field # "taken" => log'[n].taken = log[n].taken
         /\ field # "released" => log'[n].released = log[n].released
         /\ field # "cleared" => log'[n].cleared = log[n].cleared
         /\ field # "answered" => log'[n].answered = log[n].answered
<1>1. log[n].taken \in Nat /\ log[n].released \in Nat /\ log[n].cleared \in Nat
      /\ log[n].answered \in Nat
  BY DEF Typed, TypeOK
<1>2. CASE n = m
  BY <1>1, <1>2, NoteOne
<1>3. CASE n # m
  BY <1>3, NoteOne
<1> QED BY <1>2, <1>3

LEMMA MineIdle ==
  ASSUME NEW w \in Workers, NEW t, req'[w] = Idle
  PROVE  ~Mine(w, t)'
BY ENAssumption DEF Mine, Idle, Of

-----------------------------------------------------------------------------
(***************************************************************************)
(* What is parked on a row, or in a worker's copy of it, is a mail of the  *)
(* row's thread, and an empty reply is one of the mails to be written anew.*)
(***************************************************************************)
ClsOK(cls, t) ==
  /\ cls.parked # None => ThreadOf[cls.parked] = t
  /\ cls.blank => cls.parked \in rewrites

RowOK(c) ==
  /\ rows[c].thread = None => rows[c] = NoRow
  /\ ClsOK(rows[c].cls, rows[c].thread)

WorkerOK(w) ==
  /\ req[w].conv # None =>
       /\ rows[req[w].conv].thread # None
       /\ ClsOK(req[w].copy.cls, rows[req[w].conv].thread)
       /\ req[w].pc \in TaskPcs => rows[req[w].conv].thread = ThreadOf[req[w].msg]
  /\ req[w].pc \in {"click", "flip", "send", "record"} => ~req[w].copy.cls.drafted
  /\ req[w].pc \in {"send", "record"} => req[w].msg = req[w].copy.cls.parked
  /\ req[w].pc \in {"replay", "resend"} => req[w].msg \in rewrites

Belongs ==
  /\ \A c \in Convs : RowOK(c)
  /\ \A w \in Workers : WorkerOK(w)

LEMMA LikeOK ==
  ASSUME NEW cls, NEW src, Like(cls, src), NEW t, ClsOK(src, t)
  PROVE  ClsOK(cls, t)
BY DEF Like, ClsOK

LEMMA IdleOK == ASSUME NEW w \in Workers, req[w] = Idle PROVE WorkerOK(w)
BY DEF WorkerOK, Idle

LEMMA BelongsInit == Init => Belongs
<1> SUFFICES ASSUME Init PROVE Belongs
  OBVIOUS
<1>1. \A c \in Convs : RowOK(c)
  BY DEF Init, RowOK, NoRow, ClsOK, NoCls
<1>2. \A w \in Workers : WorkerOK(w)
  BY IdleOK DEF Init
<1> QED BY <1>1, <1>2 DEF Belongs

\* A step concerns the worker that takes it and the row it writes.
LEMMA BelongsLocal ==
  ASSUME Typed, Belongs, NEW w \in Workers, Only(w), rewrites \subseteq rewrites',
         \A c \in Convs : rows[c].thread # None => rows'[c].thread = rows[c].thread,
         \A c \in Convs : rows'[c] = rows[c] \/ RowOK(c)',
         WorkerOK(w)'
  PROVE  Belongs'
<1>1. ASSUME NEW c \in Convs PROVE RowOK(c)'
  <2>1. CASE rows'[c] = rows[c]
    <3>1. RowOK(c)
      BY DEF Belongs
    <3> QED BY <2>1, <3>1 DEF RowOK, ClsOK
  <2> QED BY <2>1
<1>2. ASSUME NEW v \in Workers \ {w} PROVE WorkerOK(v)'
  <2>1. req'[v] = req[v] /\ WorkerOK(v)
    BY DEF Only, Belongs
  <2>2. CASE req[v].conv = None
    BY <2>1, <2>2 DEF WorkerOK
  <2>3. CASE req[v].conv # None
    <3>1. req[v].conv \in Convs
      BY <2>3 DEF Typed, TypeOK, Request
    <3>2. /\ rows'[req[v].conv].thread = rows[req[v].conv].thread
          /\ rows[req[v].conv].thread # None
      BY <2>1, <2>3, <3>1 DEF WorkerOK
    <3> QED BY <2>1, <2>3, <3>2 DEF WorkerOK, ClsOK
  <2> QED BY <2>2, <2>3
<1> QED BY <1>1, <1>2 DEF Belongs

\* The rows are left alone, and the worker ends.
LEMMA BelongsIdle ==
  ASSUME Typed, Belongs, NEW w \in Workers, Only(w), rewrites' = rewrites,
         rows' = rows, req'[w] = Idle
  PROVE  Belongs'
<1>1. WorkerOK(w)'
  BY DEF WorkerOK, Idle
<1> QED BY <1>1, BelongsLocal

\* One row is written, and it is in order; so is the worker.
LEMMA BelongsWrite ==
  ASSUME Typed, Belongs, NEW w \in Workers, Only(w), rewrites \subseteq rewrites',
         NEW c \in Convs, Writes(c), rows[c].thread # None,
         ClsOK(rows'[c].cls, rows[c].thread)
           \/ /\ rows'[c].cls.parked # None => ThreadOf[rows'[c].cls.parked] = rows[c].thread
              /\ rows'[c].cls.blank => rows'[c].cls.parked \in rewrites',
         WorkerOK(w)'
  PROVE  Belongs'
<1>1. RowOK(c)'
  BY DEF RowOK, ClsOK, Writes
<1>2. \A d \in Convs : rows[d].thread # None => rows'[d].thread = rows[d].thread
  BY DEF Writes
<1>3. \A d \in Convs : rows'[d] = rows[d] \/ RowOK(d)'
  <2> TAKE d \in Convs
  <2> QED BY <1>1 DEF Writes
<1> QED BY <1>2, <1>3, BelongsLocal

LEMMA BelongsTask ==
  ASSUME Typed, Belongs, NEW w \in Workers, Task(w)
  PROVE  Belongs'
<1> WorkerOK(w) /\ \A c \in Convs : RowOK(c)
  BY DEF Belongs
<1>1. CASE CheckMark(w)
  <2>1. CASE req'[w] = Idle
    BY <1>1, <2>1, CheckMarkDoes, BelongsIdle DEF hist
  <2>2. CASE req'[w] # Idle
    <3>1. /\ req'[w].pc = "add" /\ req'[w].conv = None /\ Only(w)
          /\ rows' = rows /\ rewrites' = rewrites
      BY <1>1, <2>2, CheckMarkDoes DEF Keeps, hist
    <3>2. WorkerOK(w)'
      BY <3>1 DEF WorkerOK
    <3> QED BY <3>1, <3>2, BelongsLocal
  <2> QED BY <2>1, <2>2
<1>2. CASE AddMark(w)
  <2>1. /\ req'[w].pc = "evict" /\ req'[w].conv = None /\ Only(w)
        /\ rows' = rows /\ rewrites' = rewrites
    BY <1>2, AddMarkDoes DEF Keeps
  <2>2. WorkerOK(w)'
    BY <2>1 DEF WorkerOK
  <2> QED BY <2>1, <2>2, BelongsLocal
<1>3. CASE Evict(w)
  <2>1. /\ req'[w].pc \in {"evict", "triage"} /\ req'[w].conv = None /\ Only(w)
        /\ rows' = rows /\ rewrites' = rewrites
    BY <1>3, EvictDoes DEF Keeps, hist
  <2>2. WorkerOK(w)'
    BY <2>1 DEF WorkerOK
  <2> QED BY <2>1, <2>2, BelongsLocal
<1>4. CASE Ignore(w)
  BY <1>4, IgnoreDoes, BelongsIdle DEF hist
<1>5. CASE Triage(w)
  <2>1. /\ req'[w].pc = "verdict" /\ req'[w].msg = req[w].msg /\ Only(w)
        /\ rows' = rows /\ rewrites' = rewrites
        /\ ThreadOf[req[w].msg] # None
    BY <1>5, TriageDoes, ENAssumption DEF hist
  <2>2. WorkerOK(w)'
    <3>1. CASE req'[w].conv = None
      BY <2>1, <3>1 DEF WorkerOK
    <3>2. CASE req'[w].conv # None
      <4>1. /\ req'[w].conv \in Convs
            /\ rows[req'[w].conv].thread = ThreadOf[req[w].msg]
            /\ req'[w].copy = rows[req'[w].conv]
        BY <1>5, <3>2, TriageDoes DEF Of
      <4>2. RowOK(req'[w].conv)
        BY <4>1
      <4> QED BY <2>1, <4>1, <4>2 DEF WorkerOK, RowOK, ClsOK
    <3> QED BY <3>1, <3>2
  <2> QED BY <2>1, <2>2, BelongsLocal
<1>6. CASE Verdict(w)
  <2>1. CASE req'[w] = Idle
    BY <1>6, <2>1, VerdictDoes, BelongsIdle
  <2>2. CASE req'[w] # Idle
    <3>1. /\ req[w].pc = "verdict" /\ req'[w].pc = "turn" /\ req'[w].msg = req[w].msg
          /\ req'[w].conv = req[w].conv /\ req'[w].copy = req[w].copy
          /\ Only(w) /\ rows' = rows /\ rewrites' = rewrites
      BY <1>6, <2>2, VerdictDoes
    <3>2. WorkerOK(w)'
      BY <3>1 DEF WorkerOK, ClsOK, TaskPcs
    <3> QED BY <3>1, <3>2, BelongsLocal
  <2> QED BY <2>1, <2>2
<1>7. CASE Turn(w)
  <2>1. PICK c \in Convs :
          /\ IF req[w].conv = None THEN rows[c] = NoRow ELSE c = req[w].conv
          /\ \A d \in Convs \ {c} : rows'[d] = rows[d]
          /\ rows'[c].thread = (IF req[w].conv = None THEN ThreadOf[req[w].msg]
                                ELSE rows[c].thread)
          /\ rows'[c].cls = rows[c].cls
          /\ \/ req'[w] = Idle
             \/ /\ req'[w].pc = (IF req[w].gate THEN "park" ELSE "post")
                /\ req'[w].msg = req[w].msg /\ req'[w].conv = c
                /\ req'[w].copy = rows'[c]
    BY <1>7, TurnDoes
  <2>2. /\ Only(w) /\ rewrites' = rewrites /\ req[w].pc = "turn"
        /\ ThreadOf[req[w].msg] # None
    BY <1>7, TurnDoes, ENAssumption DEF hist
  <2>3. rows'[c].thread = ThreadOf[req[w].msg]
    BY <2>1, <2>2 DEF WorkerOK, TaskPcs
  <2>4. rows[c].thread # None => rows'[c].thread = rows[c].thread
    BY <2>1 DEF NoRow
  <2>5. ClsOK(rows'[c].cls, rows'[c].thread)
    <3>1. CASE req[w].conv = None
      BY <2>1, <3>1 DEF NoRow, NoCls, ClsOK
    <3>2. CASE req[w].conv # None
      <4>1. RowOK(c)
        OBVIOUS
      <4> QED BY <2>1, <2>2, <3>2, <4>1 DEF RowOK, ClsOK
    <3> QED BY <3>1, <3>2
  <2>6. RowOK(c)'
    BY <2>2, <2>3, <2>5 DEF RowOK, ClsOK
  <2>7. WorkerOK(w)'
    <3>1. CASE req'[w] = Idle
      BY <3>1 DEF WorkerOK, Idle
    <3>2. CASE req'[w] # Idle
      BY <2>1, <2>2, <2>3, <2>5, <3>2 DEF WorkerOK, ClsOK, TaskPcs
    <3> QED BY <3>1, <3>2
  <2> QED BY <2>1, <2>2, <2>4, <2>6, <2>7, BelongsLocal
<1>8. CASE Park(w)
  <2> DEFINE c == req[w].conv
             m == req[w].msg
  <2>1. /\ Only(w) /\ req[w].pc = "park" /\ m \in Messages /\ c \in Convs /\ c # None
        /\ Writes(c) /\ rows'[c].cls.parked = m /\ rewrites \subseteq rewrites'
        /\ rows'[c].cls.blank => m \in rewrites'
        /\ req'[w].pc = "notice" /\ Keeps(w)
    BY <1>8, ParkDoes, ENAssumption
  <2>2. rows[c].thread = ThreadOf[m] /\ rows'[c].thread = rows[c].thread
        /\ rows[c].thread # None
    BY <2>1 DEF WorkerOK, TaskPcs, Writes
  <2>3. WorkerOK(w)'
    <3>1. /\ req'[w].conv = c /\ req'[w].copy = req[w].copy /\ req'[w].msg = m
          /\ ClsOK(req[w].copy.cls, rows[c].thread)
      BY <2>1, <2>2 DEF WorkerOK, Keeps
    <3> QED BY <2>1, <2>2, <3>1 DEF WorkerOK, ClsOK
  <2> HIDE DEF c, m
  <2> QED BY <2>1, <2>2, <2>3, BelongsWrite
<1>9. CASE Notice(w)
  <2>1. CASE req'[w] = Idle
    BY <1>9, <2>1, NoticeDoes, BelongsIdle DEF hist
  <2>2. CASE req'[w] # Idle
    <3>1. /\ req[w].pc = "notice" /\ req'[w].pc = "mailed" /\ req'[w].msg = req[w].msg
          /\ req'[w].conv = req[w].conv /\ req'[w].copy = rows[req[w].conv]
          /\ Only(w) /\ rows' = rows /\ rewrites' = rewrites
          /\ req[w].conv \in Convs
      BY <1>9, <2>2, NoticeDoes DEF hist
    <3>2. RowOK(req[w].conv)
      BY <3>1
    <3>3. WorkerOK(w)'
      BY <3>1, <3>2 DEF WorkerOK, RowOK, ClsOK, TaskPcs
    <3> QED BY <3>1, <3>3, BelongsLocal
  <2> QED BY <2>1, <2>2
<1>10. CASE NoticeSent(w)
  <2> DEFINE c == req[w].conv
  <2>1. /\ Only(w) /\ req[w].pc = "mailed" /\ c \in Convs /\ c # None
        /\ Writes(c) /\ Like(rows'[c].cls, req[w].copy.cls) /\ rewrites' = rewrites
        /\ req'[w] = Idle
    BY <1>10, NoticeSentDoes, ENAssumption DEF hist
  <2>2. ClsOK(req[w].copy.cls, rows[c].thread) /\ rows[c].thread # None
    BY <2>1 DEF WorkerOK
  <2>3. WorkerOK(w)'
    BY <2>1 DEF WorkerOK, Idle
  <2>4. ClsOK(rows'[c].cls, rows[c].thread)
    BY <2>1, <2>2, LikeOK
  <2> HIDE DEF c
  <2> QED BY <2>1, <2>2, <2>3, <2>4, BelongsWrite
<1>11. CASE Post(w)
  BY <1>11, PostDoes, BelongsIdle
<1> QED BY <1>1, <1>2, <1>3, <1>4, <1>5, <1>6, <1>7, <1>8, <1>9, <1>10, <1>11
        DEF Task

LEMMA BelongsOperator ==
  ASSUME Typed, Belongs, NEW w \in Workers, Operator(w)
  PROVE  Belongs'
<1> DEFINE c == req[w].conv
<1>0. /\ WorkerOK(w) /\ \A d \in Convs : RowOK(d)
      /\ c \in Convs => c # None
  BY ENAssumption DEF Belongs
<1>1. CASE StampApproval(w)
  <2>1. /\ Only(w) /\ req[w].pc = "click" /\ c \in Convs /\ c # None
        /\ Writes(c) /\ rewrites' = rewrites /\ req'[w].pc = "flip"
        /\ req'[w].conv = c
        /\ \/ req'[w].copy = req[w].copy /\ rows' = rows
           \/ /\ req'[w].copy = rows'[c]
              /\ Like(rows'[c].cls, req[w].copy.cls)
    BY <1>0, <1>1, StampDoes DEF hist
  <2>2. /\ ClsOK(req[w].copy.cls, rows[c].thread) /\ rows[c].thread # None
        /\ ~req[w].copy.cls.drafted
    BY <1>0, <2>1 DEF WorkerOK
  <2>3. ClsOK(rows'[c].cls, rows[c].thread)
    <3>1. CASE rows' = rows
      BY <1>0, <2>1, <3>1 DEF RowOK
    <3>2. CASE Like(rows'[c].cls, req[w].copy.cls)
      BY <2>2, <3>2, LikeOK
    <3> QED BY <2>1, <3>1, <3>2
  <2>4. /\ ClsOK(req'[w].copy.cls, rows[c].thread)
        /\ ~req'[w].copy.cls.drafted
    BY <2>1, <2>2, <2>3 DEF Like
  <2>5. WorkerOK(w)'
    BY <2>1, <2>2, <2>4 DEF WorkerOK, ClsOK, Writes, TaskPcs
  <2> HIDE DEF c
  <2> QED BY <2>1, <2>2, <2>3, <2>5, BelongsWrite
<1>2. CASE Flip(w)
  <2>1. /\ Only(w) /\ req[w].pc = "flip" /\ c \in Convs /\ c # None
        /\ Writes(c) /\ rows'[c].cls = rows[c].cls /\ rewrites' = rewrites
        /\ req'[w].pc = (IF req[w].copy.cls.blank THEN "replay" ELSE "send")
        /\ req'[w].msg = req[w].copy.cls.parked
        /\ req'[w].conv = c /\ req'[w].copy = req[w].copy
    BY <1>0, <1>2, FlipDoes
  <2>2. /\ ClsOK(req[w].copy.cls, rows[c].thread) /\ rows[c].thread # None
        /\ ~req[w].copy.cls.drafted
    BY <1>0, <2>1 DEF WorkerOK
  <2>3. ClsOK(rows'[c].cls, rows[c].thread)
    BY <1>0, <2>1 DEF RowOK
  <2>4. WorkerOK(w)'
    BY <2>1, <2>2 DEF WorkerOK, ClsOK, Writes, TaskPcs
  <2> HIDE DEF c
  <2> QED BY <2>1, <2>2, <2>3, <2>4, BelongsWrite
<1>3. CASE Send(w)
  <2>1. CASE req'[w] = Idle
    BY <1>3, <2>1, SendDoes, BelongsIdle
  <2>2. CASE req'[w] # Idle
    <3>1. /\ Only(w) /\ req[w].pc = "send" /\ req'[w].pc = "record" /\ Keeps(w)
          /\ rows' = rows /\ rewrites' = rewrites
      BY <1>3, <2>2, SendDoes
    <3>2. WorkerOK(w)'
      BY <1>0, <3>1 DEF WorkerOK, ClsOK, Keeps, TaskPcs
    <3> QED BY <3>1, <3>2, BelongsLocal
  <2> QED BY <2>1, <2>2
<1>4. CASE Record(w)
  <2>1. /\ Only(w) /\ req[w].pc = "record" /\ c \in Convs /\ c # None
        /\ Writes(c) /\ rows'[c].cls.parked = req[w].copy.cls.parked
        /\ rows'[c].cls.blank = req[w].copy.cls.blank
        /\ rewrites' = rewrites /\ req'[w] = Idle
    BY <1>0, <1>4, RecordDoes DEF hist
  <2>2. /\ ClsOK(req[w].copy.cls, rows[c].thread) /\ rows[c].thread # None
    BY <1>0, <2>1 DEF WorkerOK
  <2>3. ClsOK(rows'[c].cls, rows[c].thread)
    BY <2>1, <2>2 DEF ClsOK
  <2>4. WorkerOK(w)'
    BY <2>1 DEF WorkerOK, Idle
  <2> HIDE DEF c
  <2> QED BY <2>1, <2>2, <2>3, <2>4, BelongsWrite
<1>5. CASE RecordFails(w)
  BY <1>5, RecordFailsDoes, BelongsIdle DEF hist
<1>6. CASE Replay(w)
  <2>1. /\ Only(w) /\ req[w].pc = "replay" /\ c \in Convs /\ c # None
        /\ Writes(c) /\ rows'[c].cls = rows[c].cls /\ rewrites' = rewrites
        /\ \/ req'[w] = Idle
           \/ /\ req'[w].pc = "resend" /\ req'[w].msg = req[w].msg
              /\ req'[w].conv = c /\ req'[w].copy = rows'[c]
    BY <1>0, <1>6, ReplayDoes DEF hist
  <2>2. rows[c].thread # None /\ req[w].msg \in rewrites
    BY <1>0, <2>1 DEF WorkerOK
  <2>3. ClsOK(rows'[c].cls, rows[c].thread)
    BY <1>0, <2>1 DEF RowOK
  <2>4. WorkerOK(w)'
    <3>1. CASE req'[w] = Idle
      BY <3>1 DEF WorkerOK, Idle
    <3>2. CASE req'[w] # Idle
      BY <2>1, <2>2, <2>3, <3>2 DEF WorkerOK, ClsOK, Writes, TaskPcs
    <3> QED BY <3>1, <3>2
  <2> HIDE DEF c
  <2> QED BY <2>1, <2>2, <2>3, <2>4, BelongsWrite
<1>7. CASE Resend(w)
  BY <1>7, PostDoes, BelongsIdle
<1>8. CASE Reject(w)
  <2>1. /\ Only(w) /\ req[w].pc = "reject" /\ c \in Convs /\ c # None
        /\ Writes(c) /\ rewrites' = rewrites /\ req'[w] = Idle
        /\ \/ Like(rows'[c].cls, req[w].copy.cls)
           \/ rows'[c].cls = rows[c].cls
    BY <1>0, <1>8, RejectDoes DEF hist
  <2>2. ClsOK(req[w].copy.cls, rows[c].thread) /\ rows[c].thread # None
    BY <1>0, <2>1 DEF WorkerOK
  <2>3. ClsOK(rows'[c].cls, rows[c].thread)
    <3>1. CASE rows'[c].cls = rows[c].cls
      BY <1>0, <2>1, <3>1 DEF RowOK
    <3>2. CASE Like(rows'[c].cls, req[w].copy.cls)
      BY <2>2, <3>2, LikeOK
    <3> QED BY <2>1, <3>1, <3>2
  <2>4. WorkerOK(w)'
    BY <2>1 DEF WorkerOK, Idle
  <2> HIDE DEF c
  <2> QED BY <2>1, <2>2, <2>3, <2>4, BelongsWrite
<1> QED BY <1>1, <1>2, <1>3, <1>4, <1>5, <1>6, <1>7, <1>8 DEF Operator

LEMMA BelongsStep == Typed /\ Belongs /\ [Next]_vars => Belongs'
<1> SUFFICES ASSUME Typed, Belongs, [Next]_vars PROVE Belongs'
  OBVIOUS
<1>1. ASSUME NEW k \in Containers, Crash(k) PROVE Belongs'
  <2>1. /\ rows' = rows /\ rewrites' = rewrites
        /\ \A w \in Workers : req'[w] = Idle \/ req'[w] = req[w]
    BY <1>1, CrashDoes DEF hist
  <2>2. \A w \in Workers : WorkerOK(w)'
    <3> SUFFICES ASSUME NEW w \in Workers PROVE WorkerOK(w)'
      OBVIOUS
    <3>1. CASE req'[w] = Idle
      BY <3>1 DEF WorkerOK, Idle
    <3>2. CASE req'[w] = req[w]
      BY <2>1, <3>2 DEF Belongs, WorkerOK, ClsOK
    <3> QED BY <2>1, <3>1, <3>2
  <2>3. \A c \in Convs : RowOK(c)'
    BY <2>1 DEF Belongs, RowOK, ClsOK
  <2> QED BY <2>2, <2>3 DEF Belongs
<1>2. ASSUME NEW w \in Workers, NEW m \in Messages, Deliver(w, m) PROVE Belongs'
  <2>1. /\ Only(w) /\ rows' = rows /\ rewrites' = rewrites
        /\ req'[w].pc = "check" /\ req'[w].conv = None
    BY <1>2, DeliverDoes DEF hist
  <2>2. WorkerOK(w)'
    BY <2>1 DEF WorkerOK
  <2> QED BY <2>1, <2>2, BelongsLocal
<1>3. ASSUME NEW w \in Workers, NEW c \in Convs, Click(w, c) \/ ClickReject(w, c)
      PROVE  Belongs'
  <2>1. /\ Only(w) /\ rows' = rows /\ rewrites' = rewrites
        /\ req'[w].pc \in {"click", "reject"} /\ req'[w].conv = c
        /\ req'[w].copy = rows[c]
        /\ req'[w].pc = "click" => ~rows[c].cls.drafted
        /\ rows[c].status # "open"
    BY <1>3, ClickDoes DEF hist
  <2>2. RowOK(c) /\ rows[c].thread # None
    BY <2>1 DEF Belongs, RowOK, NoRow
  <2>3. WorkerOK(w)'
    BY <2>1, <2>2 DEF WorkerOK, RowOK, ClsOK, TaskPcs
  <2> QED BY <2>1, <2>3, BelongsLocal
<1>4. CASE UNCHANGED vars
  BY <1>4 DEF vars, Belongs, RowOK, WorkerOK, ClsOK
<1> QED BY <1>1, <1>2, <1>3, <1>4, BelongsTask, BelongsOperator DEF Next

-----------------------------------------------------------------------------
(***************************************************************************)
(* A rejection stands.  As long as no two requests overlap on a thread, a  *)
(* thread has one worker and one row, the row a task judged is as it was,  *)
(* and whoever goes on to write or to answer does so on a row that is not  *)
(* rejected.                                                               *)
(***************************************************************************)
OneEach == \A t \in Threads : \A w, v \in Workers : Mine(w, t) /\ Mine(v, t) => w = v

OneRow ==
  \A c, d \in Convs : rows[c].thread # None /\ rows[c].thread = rows[d].thread => c = d

Willing == {"turn", "park", "notice", "mailed", "post", "click", "flip", "send",
            "record", "replay", "resend"}

Current(w) ==
  /\ req[w].pc \in {"verdict", "turn"} /\ req[w].conv = None =>
       Of(ThreadOf[req[w].msg]) = {}
  /\ req[w].pc = "verdict" /\ req[w].conv # None =>
       req[w].copy.status = rows[req[w].conv].status
  /\ req[w].pc \in Willing /\ req[w].conv # None =>
       rows[req[w].conv].status # "rejected"
  /\ req[w].pc \in {"replay", "resend"} =>
       ThreadOf[req[w].msg] = rows[req[w].conv].thread

Unquoted == \A c \in Convs : rows[c].status = "rejected" => c \notin pend

Alone == OneEach /\ OneRow /\ (\A w \in Workers : Current(w)) /\ Unquoted

AloneInv == used.overlaps = 0 => Alone

\* A step that adds no row writes only the row its worker holds, and nobody
\* else holds a row of that thread.
LEMMA AloneKept ==
  ASSUME Typed, Belongs, Alone, NEW w \in Workers, Only(w), Settled,
         \A c \in Convs : rows'[c] = rows[c] \/ c = req[w].conv,
         \A t \in Threads : Mine(w, t)' => Mine(w, t),
         Current(w)', Unquoted'
  PROVE  Alone'
<1>1. \A t : Of(t)' = Of(t)
  BY DEF Of, Settled
<1>2. \A v \in Workers \ {w} : req'[v] = req[v]
  BY DEF Only
<1>3. OneEach'
  <2> SUFFICES ASSUME NEW t \in Threads, NEW u \in Workers, NEW v \in Workers,
                      Mine(u, t)', Mine(v, t)'
               PROVE  u = v
    BY DEF OneEach
  <2>1. \A x \in Workers : Mine(x, t)' => Mine(x, t)
    BY <1>1, <1>2 DEF Mine
  <2> QED BY <2>1 DEF Alone, OneEach
<1>4. OneRow'
  BY DEF OneRow, Alone, Settled
<1>5. ASSUME NEW v \in Workers, v # w PROVE Current(v)'
  <2>1. req'[v] = req[v] /\ Current(v)
    BY <1>2, <1>5 DEF Alone
  <2>2. CASE req[v].conv = None
    <3>1. req[v].pc \notin {"replay", "resend"}
      BY <2>2 DEF Typed, HoldsOK, OpPcs
    <3> QED BY <1>1, <2>1, <2>2, <3>1 DEF Current
  <2>3. CASE req[v].conv # None
    <3>1. PICK c \in Convs : c = req[v].conv
      BY <2>3 DEF Typed, TypeOK, Request
    <3>2. PICK t \in Threads : t = rows[c].thread
      <4>1. rows[c].thread # None
        BY <2>3, <3>1 DEF Belongs, WorkerOK
      <4> QED BY <4>1 DEF Typed, TypeOK, Row
    <3>3. Mine(v, t)
      BY <3>1, <3>2 DEF Mine, Of
    <3>4. rows'[c] = rows[c]
      <4>1. SUFFICES ASSUME c = req[w].conv PROVE FALSE
        OBVIOUS
      <4>2. Mine(w, t)
        BY <3>2, <4>1 DEF Mine, Of
      <4> QED BY <1>5, <3>3, <4>2 DEF Alone, OneEach
    <3> QED BY <2>1, <2>3, <3>1, <3>4 DEF Current
  <2> QED BY <2>2, <2>3
<1> QED BY <1>3, <1>4, <1>5 DEF Alone

LEMMA CurrentIdle == ASSUME NEW w \in Workers, req[w] = Idle PROVE Current(w)
BY DEF Current, Idle, Willing

\* A step that writes nothing and keeps what it holds, or ends.
LEMMA AloneQuiet ==
  ASSUME Typed, Belongs, Alone, NEW w \in Workers, Only(w), rows' = rows, pend' = pend,
         (req'[w].msg = req[w].msg /\ req'[w].conv = req[w].conv) \/ req'[w] = Idle,
         Current(w)'
  PROVE  Alone'
<1>1. Settled /\ Unquoted'
  BY SettledSame DEF Alone, Unquoted
<1>2. \A t \in Threads : Mine(w, t)' => Mine(w, t)
  <2>1. CASE req'[w] = Idle
    BY <2>1, MineIdle
  <2>2. CASE req'[w].msg = req[w].msg /\ req'[w].conv = req[w].conv
    BY <2>2 DEF Mine, Of
  <2> QED BY <2>1, <2>2
<1> QED BY <1>1, <1>2, AloneKept

LEMMA AloneEnds ==
  ASSUME Typed, Belongs, Alone, NEW w \in Workers, Only(w), rows' = rows, pend' = pend,
         req'[w] = Idle
  PROVE  Alone'
<1>1. Current(w)'
  BY DEF Current, Idle, Willing
<1> QED BY <1>1, AloneQuiet

\* The worker writes its row.
LEMMA AloneWrites ==
  ASSUME Typed, Belongs, Alone, NEW w \in Workers, Only(w),
         NEW c \in Convs, c = req[w].conv, Writes(c), Current(w)',
         \/ /\ rows[c].status # "rejected" /\ rows'[c].status # "rejected"
            /\ (pend' = pend \/ pend' = pend \cup {c})
         \/ rows'[c].status = rows[c].status /\ pend' = pend
         \/ pend' = pend \ {c},
         (req'[w].msg = req[w].msg /\ req'[w].conv = req[w].conv) \/ req'[w] = Idle
  PROVE  Alone'
<1>1. Settled
  BY SettledWrites
<1>2. \A t \in Threads : Mine(w, t)' => Mine(w, t)
  <2>1. CASE req'[w] = Idle
    BY <2>1, MineIdle
  <2>2. CASE req'[w].msg = req[w].msg /\ req'[w].conv = req[w].conv
    <3>1. \A t : Of(t)' = Of(t)
      BY <1>1 DEF Of, Settled
    <3> QED BY <2>2, <3>1 DEF Mine
  <2> QED BY <2>1, <2>2
<1>3. \A d \in Convs : rows'[d] = rows[d] \/ d = c
  BY DEF Writes
<1>4. Unquoted'
  <2> SUFFICES ASSUME NEW d \in Convs, rows'[d].status = "rejected"
               PROVE  d \notin pend'
    BY DEF Unquoted
  <2>1. rows[d].status = "rejected" => d \notin pend
    BY DEF Alone, Unquoted
  <2>2. d # c => rows'[d] = rows[d]
    BY <1>3
  <2> QED BY <2>1, <2>2
<1> QED BY <1>1, <1>2, <1>3, <1>4, AloneKept

\* A task that saw no row adds the first one of its thread.
LEMMA AloneNewRow ==
  ASSUME Typed, Belongs, Alone, NEW w \in Workers, Turn(w), req[w].conv = None
  PROVE  Alone'
<1>1. /\ Only(w) /\ req[w].pc = "turn" /\ req[w].msg \in Messages
  BY TurnDoes
<1>2. PICK m \in Messages, s \in Threads : m = req[w].msg /\ s = ThreadOf[m]
  BY <1>1, ENAssumption
<1>3. PICK c \in Convs :
        /\ rows[c] = NoRow
        /\ \A d \in Convs \ {c} : rows'[d] = rows[d]
        /\ rows'[c].thread = s
        /\ rows'[c].status \in {"open", rows[c].status}
        /\ pend' = pend \/ pend' = pend \cup {c}
        /\ \/ req'[w] = Idle
           \/ /\ req'[w].pc = (IF req[w].gate THEN "park" ELSE "post")
              /\ req'[w].msg = m /\ req'[w].conv = c /\ req'[w].copy = rows'[c]
  BY <1>2, TurnDoes
<1>4. rows[c].thread = None /\ rows[c].status = "open" /\ rows'[c].status = "open"
  BY <1>3 DEF NoRow
<1>5. Of(s) = {}
  BY <1>1, <1>2 DEF Alone, Current
<1>6. \A v \in Workers : req[v].conv # c
  <2> SUFFICES ASSUME NEW v \in Workers, req[v].conv = c PROVE FALSE
    OBVIOUS
  <2>1. WorkerOK(v) /\ c # None
    BY ENAssumption DEF Belongs
  <2> QED BY <1>4, <2>1 DEF WorkerOK
<1>7. \A v \in Workers \ {w} : req'[v] = req[v]
  BY <1>1 DEF Only
<1>8. \A t \in Threads : /\ t # s => Of(t)' = Of(t)
                         /\ c \notin Of(t) /\ None \notin Of(t)
  <2> SUFFICES ASSUME NEW t \in Threads
               PROVE  /\ t # s => Of(t)' = Of(t)
                      /\ c \notin Of(t) /\ None \notin Of(t)
    OBVIOUS
  <2>1. t # None
    BY ENAssumption
  <2>2. t # s => Of(t)' = Of(t)
    BY <1>3, <1>4, <2>1 DEF Of
  <2>3. c \notin Of(t) /\ None \notin Of(t)
    BY <1>4, <2>1, ENAssumption DEF Of
  <2> QED BY <2>2, <2>3
<1>9. Of(s)' = {c}
  BY <1>3, <1>5 DEF Of
<1>10. Mine(w, s)
  BY <1>2 DEF Mine
<1>11. \A t \in Threads : Mine(w, t)' => t = s
  <2> SUFFICES ASSUME NEW t \in Threads, t # s PROVE ~Mine(w, t)'
    OBVIOUS
  <2>1. CASE req'[w] = Idle
    BY <2>1, MineIdle
  <2>2. CASE req'[w].msg = m /\ req'[w].conv = c
    BY <1>2, <1>8, <2>2 DEF Mine
  <2> QED BY <1>3, <2>1, <2>2
<1>12. \A t \in Threads : \A v \in Workers \ {w} : Mine(v, t)' => Mine(v, t)
  BY <1>6, <1>7, <1>8, <1>9 DEF Mine
<1>13. OneEach'
  <2> SUFFICES ASSUME NEW t \in Threads, NEW u \in Workers, NEW v \in Workers,
                      Mine(u, t)', Mine(v, t)'
               PROVE  u = v
    BY DEF OneEach
  <2>1. \A x \in Workers : Mine(x, t)' => Mine(x, t)
    BY <1>10, <1>11, <1>12
  <2> QED BY <2>1 DEF Alone, OneEach
<1>14. OneRow'
  <2> SUFFICES ASSUME NEW d \in Convs, NEW e \in Convs, rows'[d].thread # None,
                      rows'[d].thread = rows'[e].thread
               PROVE  d = e
    BY DEF OneRow
  <2>1. CASE rows'[d].thread = s
    <3>1. d \in Of(s)' /\ e \in Of(s)'
      BY <2>1 DEF Of
    <3> QED BY <1>9, <3>1
  <2>2. CASE rows'[d].thread # s
    <3>1. d # c /\ e # c
      BY <1>3, <2>2
    <3>2. rows'[d] = rows[d] /\ rows'[e] = rows[e]
      BY <1>3, <3>1
    <3> QED BY <3>2 DEF Alone, OneRow
  <2> QED BY <2>1, <2>2
<1>15. ASSUME NEW v \in Workers PROVE Current(v)'
  <2>1. CASE v = w
    <3>1. CASE req'[w] = Idle
      BY <2>1, <3>1 DEF Current, Idle, Willing
    <3>2. CASE req'[w] # Idle
      <4>1. req'[w].pc \in {"park", "post"} /\ req'[w].conv = c
        BY <1>3, <3>2
      <4> QED BY <1>4, <2>1, <4>1 DEF Current
    <3> QED BY <3>1, <3>2
  <2>2. CASE v # w
    <3>1. req'[v] = req[v] /\ Current(v) /\ req[v].conv # c
      BY <1>6, <1>7, <2>2 DEF Alone
    <3>2. CASE req[v].conv = None
      <4>1. req[v].pc \notin {"replay", "resend"} /\ (req[v].pc \in TaskPcs => req[v].msg \in Messages)
        BY <3>2 DEF Typed, HoldsOK, OpPcs
      <4>2. CASE req[v].pc \in {"verdict", "turn"}
        <5>1. PICK n \in Messages : n = req[v].msg
          BY <4>1, <4>2 DEF TaskPcs
        <5>2. ThreadOf[n] \in Threads /\ Mine(v, ThreadOf[n]) /\ Of(ThreadOf[n]) = {}
          BY <3>1, <3>2, <4>2, <5>1, ENAssumption DEF Mine, Current
        <5>3. ThreadOf[n] # s
          BY <1>10, <2>2, <5>2 DEF Alone, OneEach
        <5>4. Of(ThreadOf[n])' = {}
          BY <1>8, <5>2, <5>3
        <5> QED BY <3>1, <3>2, <4>1, <5>1, <5>4 DEF Current
      <4>3. CASE req[v].pc \notin {"verdict", "turn"}
        BY <3>1, <3>2, <4>1, <4>3 DEF Current
      <4> QED BY <4>2, <4>3
    <3>3. CASE req[v].conv # None
      <4>1. PICK d \in Convs : d = req[v].conv /\ d # c
        BY <3>1, <3>3 DEF Typed, TypeOK, Request
      <4>2. rows'[d] = rows[d]
        BY <1>3, <4>1
      <4> QED BY <3>1, <3>3, <4>1, <4>2 DEF Current
    <3> QED BY <3>2, <3>3
  <2> QED BY <2>1, <2>2
<1>16. Unquoted'
  <2> SUFFICES ASSUME NEW d \in Convs, rows'[d].status = "rejected" PROVE d \notin pend'
    BY DEF Unquoted
  <2>1. d # c /\ rows'[d] = rows[d]
    BY <1>3, <1>4
  <2> QED BY <1>3, <2>1 DEF Alone, Unquoted
<1> QED BY <1>13, <1>14, <1>15, <1>16 DEF Alone

LEMMA AloneTask ==
  ASSUME Typed, Belongs, Alone, NEW w \in Workers, Task(w)
  PROVE  Alone'
<1>0. Current(w) /\ WorkerOK(w)
  BY DEF Alone, Belongs
<1>1. CASE CheckMark(w)
  <2>1. /\ Only(w) /\ rows' = rows /\ pend' = pend /\ req[w].conv = None
        /\ \/ req'[w] = Idle
           \/ req'[w].pc = "add" /\ req'[w].msg = req[w].msg /\ req'[w].conv = req[w].conv
    BY <1>1, CheckMarkDoes DEF Keeps
  <2>2. CASE req'[w] = Idle
    BY <2>1, <2>2, AloneEnds
  <2>3. CASE req'[w].pc = "add" /\ req'[w].msg = req[w].msg /\ req'[w].conv = req[w].conv
    <3>1. Current(w)'
      BY <2>3 DEF Current, Willing
    <3> QED BY <2>1, <2>3, <3>1, AloneQuiet
  <2> QED BY <2>1, <2>2, <2>3
<1>2. CASE AddMark(w) \/ Evict(w)
  <2>1. /\ Only(w) /\ rows' = rows /\ pend' = pend
        /\ req'[w].pc \in {"evict", "triage"} /\ req'[w].msg = req[w].msg
        /\ req'[w].conv = req[w].conv
    BY <1>2, AddMarkDoes, EvictDoes DEF Keeps
  <2>2. Current(w)'
    BY <2>1 DEF Current, Willing
  <2> QED BY <2>1, <2>2, AloneQuiet
<1>3. CASE Ignore(w) \/ Post(w)
  <2>1. Only(w) /\ rows' = rows /\ pend' = pend /\ req'[w] = Idle
    BY <1>3, IgnoreDoes, PostDoes
  <2> QED BY <2>1, AloneEnds
<1>4. CASE Triage(w)
  <2>1. /\ Only(w) /\ rows' = rows /\ pend' = pend
        /\ req[w].pc = "triage" /\ req[w].msg \in Messages
        /\ req'[w].pc = "verdict" /\ req'[w].msg = req[w].msg
        /\ \/ Of(ThreadOf[req[w].msg]) = {} /\ req'[w].conv = None
           \/ /\ req'[w].conv \in Of(ThreadOf[req[w].msg])
              /\ req'[w].copy = rows[req'[w].conv]
    BY <1>4, TriageDoes
  <2>2. PICK m \in Messages : m = req[w].msg
    BY <2>1
  <2>3. Settled /\ Unquoted' /\ \A t : Of(t)' = Of(t)
    BY <2>1, SettledSame DEF Alone, Unquoted, Of
  <2>4. \A t \in Threads : Mine(w, t)' => Mine(w, t)
    <3> TAKE t \in Threads
    <3>1. None \notin Of(t)
      BY ENAssumption DEF Of
    <3>2. CASE req'[w].conv = None
      BY <2>1, <2>3, <3>1, <3>2 DEF Mine
    <3>3. CASE req'[w].conv # None
      BY <2>1, <3>3 DEF Mine, Of
    <3> QED BY <3>2, <3>3
  <2>5. Current(w)'
    <3>1. CASE req'[w].conv = None
      <4>1. Of(ThreadOf[m])' = {}
        BY <2>1, <2>2, <2>3, <3>1, ENAssumption DEF Of
      <4> QED BY <2>1, <2>2, <3>1, <4>1 DEF Current, Willing
    <3>2. CASE req'[w].conv # None
      BY <2>1, <3>2 DEF Current, Willing
    <3> QED BY <3>1, <3>2
  <2> QED BY <2>1, <2>3, <2>4, <2>5, AloneKept
<1>5. CASE Verdict(w)
  <2>1. /\ Only(w) /\ rows' = rows /\ pend' = pend /\ req[w].pc = "verdict"
        /\ req[w].msg \in Messages
        /\ \/ req'[w] = Idle
           \/ /\ req'[w].pc = "turn" /\ req'[w].msg = req[w].msg
              /\ req'[w].conv = req[w].conv /\ req[w].copy.status # "rejected"
    BY <1>5, VerdictDoes
  <2>2. CASE req'[w] = Idle
    BY <2>1, <2>2, AloneEnds
  <2>3. CASE req'[w] # Idle
    <3>1. PICK m \in Messages : m = req[w].msg
      BY <2>1
    <3>2. Of(ThreadOf[m])' = Of(ThreadOf[m])
      BY <2>1 DEF Of
    <3>3. Current(w)'
      BY <1>0, <2>1, <2>3, <3>1, <3>2 DEF Current, Willing
    <3> QED BY <2>1, <2>3, <3>3, AloneQuiet
  <2> QED BY <2>2, <2>3
<1>6. CASE Turn(w) /\ req[w].conv # None
  <2>1. PICK c \in Convs : c = req[w].conv
    BY <1>6 DEF Typed, TypeOK, Request
  <2>2. /\ Only(w) /\ req[w].pc = "turn" /\ Writes(c)
        /\ rows'[c].status \in {"open", rows[c].status}
        /\ pend' = pend \/ pend' = pend \cup {c}
        /\ \/ req'[w] = Idle
           \/ /\ req'[w].pc = (IF req[w].gate THEN "park" ELSE "post")
              /\ req'[w].msg = req[w].msg /\ req'[w].conv = c
    BY <1>6, <2>1, TurnDoes DEF Writes
  <2>3. rows[c].status # "rejected" /\ rows'[c].status # "rejected"
    BY <1>0, <1>6, <2>1, <2>2 DEF Current, Willing
  <2>4. Current(w)'
    <3>1. CASE req'[w] = Idle
      BY <3>1 DEF Current, Idle, Willing
    <3>2. CASE req'[w] # Idle
      <4>1. req'[w].pc \in {"park", "post"} /\ req'[w].conv = c
        BY <2>2, <3>2
      <4> QED BY <2>3, <4>1 DEF Current
    <3> QED BY <3>1, <3>2
  <2> QED BY <2>1, <2>2, <2>3, <2>4, AloneWrites
<1>7. CASE Park(w)
  <2>1. PICK c \in Convs : c = req[w].conv
    BY <1>7, ParkDoes
  <2>2. /\ Only(w) /\ req[w].pc = "park" /\ Writes(c) /\ pend' = pend
        /\ rows'[c].status \in {"pending", rows[c].status}
        /\ req'[w].pc = "notice" /\ req'[w].msg = req[w].msg /\ req'[w].conv = req[w].conv
    BY <1>7, <2>1, ParkDoes DEF Keeps
  <2>3. rows[c].status # "rejected" /\ rows'[c].status # "rejected"
    BY <1>0, <2>1, <2>2, ENAssumption DEF Current, Willing
  <2>4. Current(w)'
    BY <2>1, <2>2, <2>3 DEF Current
  <2> QED BY <2>1, <2>2, <2>3, <2>4, AloneWrites
<1>8. CASE Notice(w)
  <2>1. /\ Only(w) /\ rows' = rows /\ pend' = pend /\ req[w].pc = "notice"
        /\ \/ req'[w] = Idle
           \/ /\ req'[w].pc = "mailed" /\ req'[w].msg = req[w].msg
              /\ req'[w].conv = req[w].conv
    BY <1>8, NoticeDoes
  <2>2. CASE req'[w] = Idle
    BY <2>1, <2>2, AloneEnds
  <2>3. CASE req'[w] # Idle
    <3>1. Current(w)'
      BY <1>0, <2>1, <2>3 DEF Current, Willing
    <3> QED BY <2>1, <2>3, <3>1, AloneQuiet
  <2> QED BY <2>2, <2>3
<1>9. CASE NoticeSent(w)
  <2>1. PICK c \in Convs : c = req[w].conv
    BY <1>9, NoticeSentDoes
  <2>2. /\ Only(w) /\ Writes(c) /\ pend' = pend
        /\ rows'[c].status = rows[c].status /\ req'[w] = Idle
    BY <1>9, <2>1, NoticeSentDoes
  <2>3. Current(w)'
    BY <2>2 DEF Current, Idle, Willing
  <2> QED BY <2>1, <2>2, <2>3, AloneWrites
<1> QED BY <1>1, <1>2, <1>3, <1>4, <1>5, <1>6, <1>7, <1>8, <1>9, AloneNewRow DEF Task

LEMMA AloneOperator ==
  ASSUME Typed, Belongs, Alone, NEW w \in Workers, Operator(w)
  PROVE  Alone'
<1>0. Current(w) /\ WorkerOK(w)
  BY DEF Alone, Belongs
<1>1. PICK c \in Convs : c = req[w].conv
  BY StampDoes, FlipDoes, SendDoes, RecordDoes, RecordFailsDoes, ReplayDoes, RejectDoes
     DEF Operator, Resend, At, Typed, TypeOK, Request, HoldsOK, OpPcs
<1>2. c # None
  BY ENAssumption
<1>3. CASE StampApproval(w)
  <2>1. /\ Only(w) /\ req[w].pc = "click" /\ Writes(c) /\ pend' = pend
        /\ rows'[c].status = rows[c].status
        /\ req'[w].pc = "flip" /\ req'[w].msg = req[w].msg /\ req'[w].conv = req[w].conv
    BY <1>1, <1>3, StampDoes
  <2>2. Current(w)'
    BY <1>0, <1>1, <1>2, <2>1 DEF Current, Willing
  <2> QED BY <1>1, <2>1, <2>2, AloneWrites
<1>4. CASE Flip(w)
  <2>1. /\ Only(w) /\ req[w].pc = "flip" /\ Writes(c) /\ pend' = pend
        /\ rows'[c].status \in {"approved", rows[c].status}
        /\ req'[w].pc = (IF req[w].copy.cls.blank THEN "replay" ELSE "send")
        /\ req'[w].msg = req[w].copy.cls.parked /\ req'[w].conv = c
    BY <1>1, <1>4, FlipDoes
  <2>2. rows[c].status # "rejected" /\ rows'[c].status # "rejected"
    BY <1>0, <1>1, <1>2, <2>1 DEF Current, Willing
  <2>3. Settled /\ rows'[c].thread = rows[c].thread
    BY <2>1, SettledWrites DEF Writes
  <2>4. /\ req[w].copy.cls.parked # None => ThreadOf[req[w].copy.cls.parked] = rows[c].thread
        /\ req[w].copy.cls.blank => req[w].copy.cls.parked \in Messages
    BY <1>0, <1>1, <1>2 DEF WorkerOK, ClsOK, Typed, TypeOK
  <2>5. Current(w)'
    <3>1. req'[w].pc = "replay" => ThreadOf[req'[w].msg] = rows'[c].thread
      BY <2>1, <2>3, <2>4, ENAssumption
    <3> QED BY <2>1, <2>2, <3>1 DEF Current
  <2>6. \A d \in Convs : rows'[d] = rows[d] \/ d = req[w].conv
    BY <1>1, <2>1 DEF Writes
  <2>7. Unquoted'
    BY <2>1, <2>2, <2>6, <1>1 DEF Alone, Unquoted
  <2>8. \A t \in Threads : Mine(w, t)' => Mine(w, t)
    <3> SUFFICES ASSUME NEW t \in Threads, Mine(w, t)' PROVE c \in Of(t)
      BY <1>1 DEF Mine
    <3>1. Of(t)' = Of(t)
      BY <2>3 DEF Of, Settled
    <3>2. CASE req'[w].conv \in Of(t)'
      BY <2>1, <3>1, <3>2
    <3>3. CASE req'[w].msg \in {m \in Messages : ThreadOf[m] = t}
      BY <2>1, <2>4, <3>3, ENAssumption DEF Of
    <3> QED BY <3>2, <3>3 DEF Mine
  <2> QED BY <2>1, <2>3, <2>5, <2>6, <2>7, <2>8, AloneKept
<1>5. CASE Send(w)
  <2>1. /\ Only(w) /\ rows' = rows /\ pend' = pend /\ req[w].pc = "send"
        /\ \/ req'[w].pc = "record" /\ req'[w].msg = req[w].msg /\ req'[w].conv = req[w].conv
           \/ req'[w] = Idle
    BY <1>5, SendDoes DEF Keeps
  <2>2. CASE req'[w] = Idle
    BY <2>1, <2>2, AloneEnds
  <2>3. CASE req'[w] # Idle
    <3>1. Current(w)'
      BY <1>0, <2>1, <2>3 DEF Current, Willing
    <3> QED BY <2>1, <2>3, <3>1, AloneQuiet
  <2> QED BY <2>2, <2>3
<1>6. CASE Record(w)
  <2>1. /\ Only(w) /\ Writes(c) /\ pend' = pend
        /\ rows'[c].status = rows[c].status /\ req'[w] = Idle
    BY <1>1, <1>6, RecordDoes
  <2>2. Current(w)'
    BY <2>1 DEF Current, Idle, Willing
  <2> QED BY <1>1, <2>1, <2>2, AloneWrites
<1>7. CASE RecordFails(w) \/ Resend(w)
  <2>1. Only(w) /\ rows' = rows /\ pend' = pend /\ req'[w] = Idle
    BY <1>7, RecordFailsDoes, PostDoes
  <2> QED BY <2>1, AloneEnds
<1>8. CASE Replay(w)
  <2>1. /\ Only(w) /\ req[w].pc = "replay" /\ Writes(c)
        /\ rows'[c].status \in {"open", "approved", rows[c].status}
        /\ pend' = pend \/ pend' = pend \cup {c}
        /\ \/ req'[w] = Idle
           \/ /\ req'[w].pc = "resend" /\ req'[w].msg = req[w].msg
              /\ req'[w].conv = req[w].conv
    BY <1>1, <1>8, ReplayDoes
  <2>2. rows[c].status # "rejected" /\ rows'[c].status # "rejected"
    BY <1>0, <1>1, <1>2, <2>1 DEF Current, Willing
  <2>3. Current(w)'
    <3>1. CASE req'[w] = Idle
      BY <3>1 DEF Current, Idle, Willing
    <3>2. CASE req'[w] # Idle
      <4>1. rows'[c].thread = rows[c].thread /\ ThreadOf[req[w].msg] = rows[c].thread
        BY <1>0, <1>1, <2>1 DEF Current, Writes
      <4> QED BY <1>1, <2>1, <2>2, <3>2, <4>1 DEF Current
    <3> QED BY <3>1, <3>2
  <2> QED BY <1>1, <2>1, <2>2, <2>3, AloneWrites
<1>9. CASE Reject(w)
  <2>1. /\ Only(w) /\ Writes(c) /\ pend' = pend \ {c} /\ req'[w] = Idle
    BY <1>1, <1>9, RejectDoes
  <2>2. Current(w)'
    BY <2>1 DEF Current, Idle, Willing
  <2> QED BY <1>1, <2>1, <2>2, AloneWrites
<1> QED BY <1>3, <1>4, <1>5, <1>6, <1>7, <1>8, <1>9 DEF Operator

\* A request for an idle thread begins.
LEMMA AloneBegin ==
  ASSUME Typed, Belongs, Alone, NEW w \in Workers, Only(w), rows' = rows, pend' = pend,
         NEW s, ~Works(s), \A t \in Threads : Mine(w, t)' => t = s, Current(w)'
  PROVE  Alone'
<1>1. \A t : Of(t)' = Of(t)
  BY DEF Of
<1>2. \A v \in Workers \ {w} : req'[v] = req[v]
  BY DEF Only
<1>3. \A v \in Workers : ~Mine(v, s)
  BY DEF Works, Mine
<1>4. OneEach'
  <2> SUFFICES ASSUME NEW t \in Threads, NEW u \in Workers, NEW v \in Workers,
                      Mine(u, t)', Mine(v, t)'
               PROVE  u = v
    BY DEF OneEach
  <2>1. \A x \in Workers \ {w} : Mine(x, t)' => Mine(x, t)
    BY <1>1, <1>2 DEF Mine
  <2>2. CASE t = s
    BY <1>3, <2>1, <2>2
  <2>3. CASE t # s
    BY <2>1, <2>3 DEF Alone, OneEach
  <2> QED BY <2>2, <2>3
<1>5. ASSUME NEW v \in Workers, v # w PROVE Current(v)'
  <2>1. req'[v] = req[v] /\ Current(v)
    BY <1>2, <1>5 DEF Alone
  <2> QED BY <2>1, <1>1 DEF Current
<1>6. OneRow' /\ Unquoted'
  BY DEF Alone, OneRow, Unquoted
<1> QED BY <1>4, <1>5, <1>6 DEF Alone

LEMMA AloneInit == Init => Alone
<1> SUFFICES ASSUME Init PROVE Alone
  OBVIOUS
<1>1. \A t \in Threads : \A w \in Workers : ~Mine(w, t)
  BY ENAssumption DEF Init, Mine, Idle, Of
<1>2. \A w \in Workers : Current(w)
  BY CurrentIdle DEF Init
<1> QED BY <1>1, <1>2 DEF Init, Alone, OneEach, OneRow, Unquoted, NoRow

\* Overlaps are counted, and never forgotten.
LEMMA OverlapsStay ==
  ASSUME Typed, [Next]_vars, used'.overlaps = 0
  PROVE  /\ used.overlaps = 0
         /\ \A w \in Workers, m \in Messages : Deliver(w, m) => ~Works(ThreadOf[m])
         /\ \A w \in Workers, c \in Convs :
              Click(w, c) \/ ClickReject(w, c) => ~Works(rows[c].thread)
<1>0. used.overlaps \in Nat
  BY MishapsType
<1>1. ASSUME NEW w \in Workers, NEW m \in Messages, Deliver(w, m)
      PROVE  used.overlaps = 0 /\ ~Works(ThreadOf[m])
  BY <1>0, <1>1, DeliverDoes
<1>2. ASSUME NEW w \in Workers, NEW c \in Convs, Click(w, c) \/ ClickReject(w, c)
      PROVE  used.overlaps = 0 /\ ~Works(rows[c].thread)
  BY <1>0, <1>2, ClickDoes
<1>3. ASSUME NEW k \in Containers, Crash(k) PROVE used.overlaps = 0
  BY <1>3, CrashDoes
<1>4. ASSUME NEW w \in Workers, Task(w) PROVE used.overlaps = 0
  BY <1>4, CheckMarkDoes, AddMarkDoes, EvictDoes, IgnoreDoes, TriageDoes, VerdictDoes,
     TurnDoes, ParkDoes, NoticeDoes, NoticeSentDoes, PostDoes DEF Task, Calm
<1>5. ASSUME NEW w \in Workers, Operator(w) PROVE used.overlaps = 0
  BY <1>5, StampDoes, FlipDoes, SendDoes, RecordDoes, RecordFailsDoes, ReplayDoes,
     PostDoes, RejectDoes DEF Operator, Calm
<1>6. ASSUME UNCHANGED vars PROVE used.overlaps = 0
  BY <1>6 DEF vars
<1>7. used.overlaps = 0
  BY <1>1, <1>2, <1>3, <1>4, <1>5, <1>6 DEF Next
<1> QED BY <1>1, <1>2, <1>7

LEMMA AloneStep == Typed /\ Belongs /\ AloneInv /\ [Next]_vars => AloneInv'
<1> SUFFICES ASSUME Typed, Belongs, AloneInv, [Next]_vars, used'.overlaps = 0
             PROVE  Alone'
  BY DEF AloneInv
<1>0. Alone
  BY OverlapsStay DEF AloneInv
<1>1. ASSUME NEW k \in Containers, Crash(k) PROVE Alone'
  <2>1. /\ rows' = rows /\ pend' = pend
        /\ \A w \in Workers : req'[w] = Idle \/ req'[w] = req[w]
    BY <1>1, CrashDoes
  <2>2. OneEach'
    <3>1. \A w \in Workers, t \in Threads : Mine(w, t)' => Mine(w, t)
      BY <2>1, MineIdle DEF Mine, Of
    <3> QED BY <1>0, <3>1 DEF Alone, OneEach
  <2>3. \A w \in Workers : Current(w)'
    <3> SUFFICES ASSUME NEW w \in Workers PROVE Current(w)'
      OBVIOUS
    <3>1. CASE req'[w] = Idle
      BY <3>1 DEF Current, Idle, Willing
    <3>2. CASE req'[w] = req[w]
      BY <1>0, <2>1, <3>2 DEF Alone, Current, Of
    <3> QED BY <2>1, <3>1, <3>2
  <2> QED BY <1>0, <2>1, <2>2, <2>3 DEF Alone, OneRow, Unquoted
<1>2. ASSUME NEW w \in Workers, NEW m \in Messages, Deliver(w, m) PROVE Alone'
  <2>1. /\ Only(w) /\ rows' = rows /\ pend' = pend
        /\ req'[w].pc = "check" /\ req'[w].msg = m /\ req'[w].conv = None
    BY <1>2, DeliverDoes
  <2>2. \A t \in Threads : Mine(w, t)' => t = ThreadOf[m]
    BY <2>1, ENAssumption DEF Mine, Of
  <2>3. Current(w)'
    BY <2>1 DEF Current, Willing
  <2>4. ~Works(ThreadOf[m])
    BY <1>2, OverlapsStay
  <2> QED BY <1>0, <2>1, <2>2, <2>3, <2>4, AloneBegin
<1>3. ASSUME NEW w \in Workers, NEW c \in Convs, Click(w, c) \/ ClickReject(w, c)
      PROVE  Alone'
  <2>1. /\ Only(w) /\ rows' = rows /\ pend' = pend
        /\ req'[w].pc \in {"click", "reject"} /\ req'[w].msg = None /\ req'[w].conv = c
        /\ req'[w].pc = "click" => rows[c].status # "rejected"
    BY <1>3, ClickDoes
  <2>2. PICK s : s = rows[c].thread
    OBVIOUS
  <2>3. \A t \in Threads : Mine(w, t)' => t = s
    BY <2>1, <2>2, ENAssumption DEF Mine, Of
  <2>4. Current(w)'
    BY <2>1, ENAssumption DEF Current, Willing
  <2>5. ~Works(s)
    BY <1>3, <2>2, OverlapsStay
  <2> QED BY <1>0, <2>1, <2>3, <2>4, <2>5, AloneBegin
<1>4. CASE UNCHANGED vars
  <2>1. rows' = rows /\ pend' = pend /\ req' = req
    BY <1>4 DEF vars
  <2>2. \A w \in Workers, t \in Threads : Mine(w, t)' <=> Mine(w, t)
    BY <2>1 DEF Mine, Of
  <2>3. \A w \in Workers : Current(w) => Current(w)'
    BY <2>1 DEF Current, Of
  <2> QED BY <1>0, <2>1, <2>2, <2>3 DEF Alone, OneEach, OneRow, Unquoted
<1> QED BY <1>0, <1>1, <1>2, <1>3, <1>4, AloneTask, AloneOperator DEF Next

LEMMA AloneCorrect == Spec => [](Typed /\ Belongs /\ AloneInv)
<1>1. Init => Typed /\ Belongs /\ AloneInv
  BY TypedInit, BelongsInit, AloneInit DEF AloneInv
<1>2. Typed /\ Belongs /\ AloneInv /\ [Next]_vars => (Typed /\ Belongs /\ AloneInv)'
  BY TypedStep, BelongsStep, AloneStep
<1> QED BY <1>1, <1>2, PTL DEF Spec

\* No quote of a rejected conversation stays in the operator's queue: the
\* rejection takes them out, and no turn of the model that is under way can
\* add one, unless two requests overlapped on a thread.
THEOREM RejectionClearsQuotes == Spec => []RejectedHasNoQuote
<1>1. Typed /\ Belongs /\ AloneInv => RejectedHasNoQuote
  BY DEF AloneInv, Alone, Unquoted, RejectedHasNoQuote
<1> QED BY <1>1, AloneCorrect, PTL

\* Whoever answers a mail answers it on the row of its thread.
LEMMA AnswersHere ==
  ASSUME Typed, Belongs, Alone, NEW w \in Workers,
         req[w].pc \in {"post", "send", "resend"},
         NEW c \in Convs, rows[c].status = "rejected", NEW m \in Messages,
         ThreadOf[m] = rows[c].thread
  PROVE  req[w].msg # m
<1> SUFFICES ASSUME req[w].msg = m PROVE FALSE
  OBVIOUS
<1>1. PICK d \in Convs : d = req[w].conv /\ d # None
  BY ENAssumption DEF Typed, TypeOK, Request, HoldsOK, OpPcs
<1>2. WorkerOK(w) /\ Current(w)
  BY DEF Belongs, Alone
<1>3. rows[d].thread = ThreadOf[m] /\ rows[d].thread # None
  BY <1>1, <1>2, ENAssumption DEF WorkerOK, ClsOK, TaskPcs, Current
<1>4. d = c
  BY <1>3 DEF Alone, OneRow
<1>5. rows[d].status # "rejected"
  BY <1>1, <1>2 DEF Current, Willing
<1> QED BY <1>4, <1>5

\* The status of a rejected row: nobody who writes it works on a rejected one.
LEMMA StatusStays ==
  ASSUME Typed, Belongs, Alone, [Next]_vars, NEW c \in Convs,
         rows[c].status = "rejected"
  PROVE  rows'[c].status = "rejected"
<1>1. rows[c] # NoRow
  BY DEF NoRow
<1>2. ASSUME NEW w \in Workers, Turn(w) PROVE rows'[c].status = "rejected"
  <2>1. req[w].pc = "turn" /\ Current(w)
    BY <1>2, TurnDoes DEF Alone
  <2>2. PICK d \in Convs : /\ IF req[w].conv = None THEN rows[d] = NoRow ELSE d = req[w].conv
                           /\ \A e \in Convs \ {d} : rows'[e] = rows[e]
    BY <1>2, TurnDoes
  <2>3. d # c
    BY <1>1, <2>1, <2>2 DEF Current, Willing
  <2> QED BY <2>2, <2>3
<1>3. ASSUME NEW w \in Workers, Park(w) \/ Flip(w) \/ Replay(w)
      PROVE  rows'[c].status = "rejected"
  <2>1. /\ req[w].pc \in {"park", "flip", "replay"} /\ req[w].conv \in Convs
        /\ Writes(req[w].conv) /\ Current(w)
    BY <1>3, ParkDoes, FlipDoes, ReplayDoes DEF Alone
  <2>2. req[w].conv # c
    BY <2>1, ENAssumption DEF Current, Willing
  <2> QED BY <2>1, <2>2 DEF Writes
<1>4. ASSUME NEW w \in Workers, NoticeSent(w) \/ StampApproval(w) \/ Record(w) \/ Reject(w)
      PROVE  rows'[c].status = "rejected"
  <2>1. /\ req[w].conv \in Convs /\ Writes(req[w].conv)
        /\ rows'[req[w].conv].status \in {"rejected", rows[req[w].conv].status}
    BY <1>4, NoticeSentDoes, StampDoes, RecordDoes, RejectDoes
  <2> QED BY <2>1 DEF Writes
<1>5. ASSUME NEW w \in Workers,
             \/ CheckMark(w) \/ AddMark(w) \/ Evict(w) \/ Ignore(w) \/ Triage(w)
             \/ Verdict(w) \/ Notice(w) \/ Post(w) \/ Send(w) \/ RecordFails(w)
             \/ Resend(w)
      PROVE  rows' = rows
  BY <1>5 DEF CheckMark, AddMark, Evict, Ignore, Triage, Verdict, Notice, Post, Send,
              RecordFails, Resend
<1>6. (\E k \in Containers : Crash(k)) \/ UNCHANGED vars
        \/ (\E w \in Workers, m \in Messages : Deliver(w, m))
        \/ (\E w \in Workers, d \in Convs : Click(w, d) \/ ClickReject(w, d))
      => rows' = rows
  BY DEF Crash, vars, Deliver, Click, ClickReject
<1> QED BY <1>2, <1>3, <1>4, <1>5, <1>6 DEF Next, Task, Operator

\* A rejected thread is silent.
LEMMA RejectedSilent ==
  ASSUME Typed, Belongs, Alone, [Next]_vars, NEW c \in Convs,
         rows[c].status = "rejected", NEW m \in Messages,
         ThreadOf[m] = rows[c].thread
  PROVE  log'[m].answered = log[m].answered
<1>1. ASSUME NEW w \in Workers, Post(w) \/ Resend(w) \/ Send(w)
      PROVE  log'[m].answered = log[m].answered
  <2>1. /\ req[w].pc \in {"post", "send", "resend"}
        /\ Note(req[w].msg, "answered") \/ hist' = hist
    BY <1>1, PostDoes, SendDoes
  <2>2. req[w].msg # m
    BY <2>1, AnswersHere
  <2>3. CASE Note(req[w].msg, "answered")
    BY <2>2, <2>3, NoteOne
  <2> QED BY <2>1, <2>3 DEF hist
<1>2. ASSUME NEW n, NEW field \in {"taken", "released", "cleared"}, Note(n, field)
      PROVE  log'[m].answered = log[m].answered
  BY <1>2, NoteSame
<1>3. ASSUME NEW w \in Workers, AddMark(w) \/ Verdict(w) \/ Flip(w)
      PROVE  log'[m].answered = log[m].answered
  <2>1. \/ Note(req[w].msg, "taken") \/ Note(req[w].msg, "released")
        \/ Note(req[w].copy.cls.parked, "cleared") \/ hist' = hist
    BY <1>3, AddMarkDoes, VerdictDoes, FlipDoes
  <2> QED BY <1>2, <2>1 DEF hist
<1>4. ASSUME NEW w \in Workers,
             \/ CheckMark(w) \/ Evict(w) \/ Ignore(w) \/ Triage(w) \/ Turn(w) \/ Park(w)
             \/ Notice(w) \/ NoticeSent(w) \/ StampApproval(w) \/ Record(w)
             \/ RecordFails(w) \/ Replay(w) \/ Reject(w)
      PROVE  log' = log
  BY <1>4 DEF CheckMark, Evict, Ignore, Triage, Turn, Park, Notice, NoticeSent,
              StampApproval, Record, RecordFails, Replay, Reject, hist
<1>5. (\E k \in Containers : Crash(k)) \/ UNCHANGED vars
        \/ (\E w \in Workers, n \in Messages : Deliver(w, n))
        \/ (\E w \in Workers, d \in Convs : Click(w, d) \/ ClickReject(w, d))
      => log' = log
  BY DEF Crash, vars, Deliver, Click, ClickReject, hist
<1> QED BY <1>1, <1>3, <1>4, <1>5 DEF Next, Task, Operator

\* A rejected thread stays rejected and silent, whatever mails, clicks and
\* restarts follow, as long as no two requests overlap on a thread.
THEOREM RejectionHolds == Spec => RejectionStands
<1> DEFINE Stands ==
      used'.overlaps = 0 =>
        \A c \in Convs : rows[c].status = "rejected" =>
          /\ rows'[c].status = "rejected"
          /\ \A m \in Messages : ThreadOf[m] = rows[c].thread =>
               log'[m].answered = log[m].answered
<1>1. Typed /\ Belongs /\ AloneInv /\ [Next]_vars => [Stands]_vars
  <2> SUFFICES ASSUME Typed, Belongs, AloneInv, [Next]_vars, used'.overlaps = 0
               PROVE  Stands
    OBVIOUS
  <2>1. Alone
    BY OverlapsStay DEF AloneInv
  <2> QED BY <2>1, StatusStays, RejectedSilent
<1> QED BY <1>1, AloneCorrect, PTL DEF Spec, RejectionStands
=============================================================================
