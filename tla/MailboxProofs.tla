---------------------------- MODULE MailboxProofs ----------------------------
(***************************************************************************)
(* Engagement implements Mailbox, for any number of mails, threads,        *)
(* conversation rows, containers, concurrent requests, restarts, forgotten *)
(* ids and lost answers.                                                   *)
(***************************************************************************)
EXTENDS EngagementProofs

-----------------------------------------------------------------------------
(***************************************************************************)
(* Counting: a step moves one worker in or out of a set of workers.        *)
(***************************************************************************)
LEMMA Moved ==
  ASSUME NEW S, IsFiniteSet(S), NEW T, NEW w, S \ {w} = T \ {w}
  PROVE  /\ IsFiniteSet(T)
         /\ Cardinality(S) \in Nat /\ Cardinality(T) \in Nat
         /\ (w \in S <=> w \in T) => Cardinality(T) = Cardinality(S)
         /\ w \notin S /\ w \in T => Cardinality(T) = Cardinality(S) + 1
         /\ w \in S /\ w \notin T => Cardinality(T) + 1 = Cardinality(S)
<1>1. IsFiniteSet(S \ {w})
  BY FS_Subset
<1>2. CASE w \notin T
  <2>1. T = S \ {w}
    BY <1>2
  <2>2. w \in S => Cardinality(T) = Cardinality(S) - 1
    BY <2>1, FS_RemoveElement
  <2>3. w \notin S => T = S
    BY <2>1
  <2>4. Cardinality(S) \in Nat /\ Cardinality(T) \in Nat /\ IsFiniteSet(T)
    BY <1>1, <2>1, FS_CardinalityType
  <2> QED BY <1>2, <2>2, <2>3, <2>4
<1>3. CASE w \in T
  <2>1. T = (S \ {w}) \cup {w}
    BY <1>3
  <2>2. IsFiniteSet(T)
    BY <1>1, <2>1, FS_AddElement
  <2>3. w \notin S => Cardinality(T) = Cardinality(S) + 1
    <3>1. w \notin S => S \ {w} = S
      OBVIOUS
    <3> QED BY <2>1, <3>1, FS_AddElement
  <2>4. w \in S => T = S
    BY <2>1
  <2>5. Cardinality(S) \in Nat /\ Cardinality(T) \in Nat
    BY <2>2, FS_CardinalityType
  <2> QED BY <1>3, <2>2, <2>3, <2>4, <2>5
<1> QED BY <1>2, <1>3

LEMMA Counts ==
  ASSUME NEW S \in SUBSET Workers
  PROVE  /\ IsFiniteSet(S) /\ Cardinality(S) \in Nat
         /\ S = {} => Cardinality(S) = 0
         /\ \A x \in S : Cardinality(S) >= 1
         /\ \A T \in SUBSET S : Cardinality(T) <= Cardinality(S)
<1>1. IsFiniteSet(S) /\ Cardinality(S) \in Nat
  BY ENAssumption, FS_Subset, FS_CardinalityType
<1>2. S = {} => Cardinality(S) = 0
  BY FS_EmptySet
<1>3. ASSUME NEW x \in S PROVE Cardinality(S) >= 1
  <2>1. Cardinality(S) # 0
    BY <1>1, FS_EmptySet
  <2> QED BY <1>1, <2>1
<1>4. \A T \in SUBSET S : Cardinality(T) <= Cardinality(S)
  BY <1>1, FS_Subset
<1> QED BY <1>1, <1>2, <1>3, <1>4

-----------------------------------------------------------------------------
(***************************************************************************)
(* A mail is taken up at most once more than there were mishaps, counting  *)
(* the tasks that are about to: the one that added the id to a memory made *)
(* it known, whoever tested before that is an overlap, and whoever tests   *)
(* later passes only in another container, which is a mishap.              *)
(***************************************************************************)
Takers(m) == {w \in Workers : req[w].msg = m /\ req[w].pc \in {"check", "add"}}
Adders(m) == {w \in Workers : req[w].msg = m /\ req[w].pc = "add"}

TakenOK(m) ==
  IF Known(m)
  THEN /\ log[m].taken + Cardinality(Adders(m)) <= Mishaps + 1
       /\ log[m].taken + Cardinality(Takers(m)) <= Mishaps + 2
  ELSE /\ log[m].taken <= Mishaps
       /\ log[m].taken + Cardinality(Takers(m)) <= Mishaps + 1

TakenInv == \A m \in Messages : TakenOK(m)

LEMMA TakenTypes ==
  ASSUME Typed, NEW m \in Messages
  PROVE  /\ log[m].taken \in Nat /\ Mishaps \in Nat
         /\ IsFiniteSet(Takers(m)) /\ IsFiniteSet(Adders(m))
         /\ Cardinality(Takers(m)) \in Nat /\ Cardinality(Adders(m)) \in Nat
         /\ Cardinality(Adders(m)) <= Cardinality(Takers(m))
<1>1. Takers(m) \in SUBSET Workers /\ Adders(m) \in SUBSET Takers(m)
  BY DEF Takers, Adders
<1>2. log[m].taken \in Nat
  BY DEF Typed, TypeOK
<1>3. Adders(m) \in SUBSET Workers
  BY <1>1
<1> QED BY <1>1, <1>2, <1>3, Counts, MishapsType

LEMMA TakersMoved ==
  ASSUME Typed, NEW w \in Workers, Only(w), NEW m \in Messages
  PROVE  /\ Takers(m) \ {w} = Takers(m)' \ {w}
         /\ Adders(m) \ {w} = Adders(m)' \ {w}
         /\ w \in Takers(m) <=> req[w].msg = m /\ req[w].pc \in {"check", "add"}
         /\ w \in Takers(m)' <=> req'[w].msg = m /\ req'[w].pc \in {"check", "add"}
         /\ w \in Adders(m) <=> req[w].msg = m /\ req[w].pc = "add"
         /\ w \in Adders(m)' <=> req'[w].msg = m /\ req'[w].pc = "add"
BY DEF Takers, Adders, Only

LEMMA TakenInit == Init => TakenInv
<1> SUFFICES ASSUME Init, NEW m \in Messages PROVE TakenOK(m)
  BY DEF TakenInv
<1>1. Takers(m) = {}
  BY DEF Init, Takers, Idle
<1>2. Cardinality(Takers(m)) = 0
  BY <1>1, FS_EmptySet
<1>3. log[m].taken = 0 /\ ~Known(m) /\ Mishaps = 0
  BY DEF Init, Box!Fresh, Mishaps, Known
<1> QED BY <1>2, <1>3 DEF TakenOK

\* A step that takes nothing up and adds nothing to the memory: it leaves
\* the memory alone, or something is forgotten and that is a mishap.
LEMMA TakenKept ==
  ASSUME Typed, Typed', TakenInv,
         \A m \in Messages : /\ Takers(m)' \in SUBSET Takers(m)
                             /\ Adders(m)' \in SUBSET Adders(m)
                             /\ log'[m].taken = log[m].taken,
         \/ seen' = seen /\ Mishaps' >= Mishaps
         \/ /\ \A m \in Messages : Known(m)' => Known(m)
            /\ Mishaps' = Mishaps + 1
  PROVE  TakenInv'
<1> SUFFICES ASSUME NEW m \in Messages PROVE TakenOK(m)'
  BY DEF TakenInv
<1>1. TakenOK(m)
  BY DEF TakenInv
<1>2. /\ Cardinality(Takers(m)') <= Cardinality(Takers(m))
      /\ Cardinality(Adders(m)') <= Cardinality(Adders(m))
  <2>1. Takers(m) \in SUBSET Workers /\ Adders(m) \in SUBSET Workers
    BY DEF Takers, Adders
  <2> QED BY <2>1, Counts
<1>3. /\ log[m].taken \in Nat /\ Mishaps \in Nat /\ Mishaps' \in Nat
      /\ Cardinality(Takers(m)) \in Nat /\ Cardinality(Adders(m)) \in Nat
      /\ Cardinality(Takers(m)') \in Nat /\ Cardinality(Adders(m)') \in Nat
      /\ Cardinality(Adders(m)) <= Cardinality(Takers(m))
  <2>1. Cardinality(Takers(m)') \in Nat /\ Cardinality(Adders(m)') \in Nat
    <3>1. Takers(m)' \in SUBSET Workers /\ Adders(m)' \in SUBSET Workers
      BY DEF Takers, Adders
    <3> QED BY <3>1, Counts
  <2> QED BY <2>1, TakenTypes, MishapsTypeNext
<1>4. CASE seen' = seen /\ Mishaps' >= Mishaps
  <2>1. Known(m)' <=> Known(m)
    BY <1>4 DEF Known
  <2> QED BY <1>1, <1>2, <1>3, <1>4, <2>1 DEF TakenOK
<1>5. CASE (Known(m)' => Known(m)) /\ Mishaps' = Mishaps + 1
  BY <1>1, <1>2, <1>3, <1>5 DEF TakenOK
<1> QED BY <1>4, <1>5

\* A worker that is not about to take anything up.
LEMMA TakenAside ==
  ASSUME Typed, NEW w \in Workers, Only(w), req'[w].pc \notin {"check", "add"},
         NEW m \in Messages
  PROVE  Takers(m)' \in SUBSET Takers(m) /\ Adders(m)' \in SUBSET Adders(m)
BY TakersMoved

LEMMA TakenStep == Typed /\ TakenInv /\ [Next]_vars => TakenInv'
<1> SUFFICES ASSUME Typed, TakenInv, [Next]_vars PROVE TakenInv'
  OBVIOUS
<1>0. Typed' /\ Mishaps \in Nat
  BY TypedStep, MishapsType
<1>1. ASSUME NEW w \in Workers, CheckMark(w) PROVE TakenInv'
  <2>1. CASE req'[w] = Idle
    <3>1. /\ Only(w) /\ seen' = seen /\ Mishaps' >= Mishaps /\ log' = log
          /\ req'[w].pc \notin {"check", "add"}
      BY <1>0, <1>1, <2>1, CheckMarkDoes DEF Idle, hist
    <3> QED BY <1>0, <3>1, TakenAside, TakenKept
  <2>2. CASE req'[w] # Idle
    <3>1. /\ Only(w) /\ seen' = seen /\ log' = log
          /\ req[w].pc = "check" /\ req'[w].pc = "add" /\ req'[w].msg = req[w].msg
          /\ Mishaps' = Mishaps \/ Mishaps' = Mishaps + 1
          /\ Mishaps' = Mishaps => ~Known(req[w].msg)
      BY <1>1, <2>2, CheckMarkDoes DEF hist, Keeps
    <3> SUFFICES ASSUME NEW m \in Messages PROVE TakenOK(m)'
      BY DEF TakenInv
    <3>2. TakenOK(m) /\ (Known(m)' <=> Known(m))
      BY <3>1 DEF TakenInv, Known
    <3>3. /\ Cardinality(Takers(m)') = Cardinality(Takers(m))
          /\ m # req[w].msg => Cardinality(Adders(m)') = Cardinality(Adders(m))
          /\ m = req[w].msg => Cardinality(Adders(m)') = Cardinality(Adders(m)) + 1
      <4>1. w \in Takers(m)' <=> w \in Takers(m)
        BY <3>1, TakersMoved
      <4>2. m # req[w].msg => (w \in Adders(m)' <=> w \in Adders(m))
        BY <3>1, TakersMoved
      <4>3. m = req[w].msg => w \in Adders(m)' /\ w \notin Adders(m)
        BY <3>1, TakersMoved
      <4> QED BY <3>1, <4>1, <4>2, <4>3, TakersMoved, TakenTypes, Moved
    <3> QED BY <1>0, <3>1, <3>2, <3>3, TakenTypes DEF TakenOK
  <2> QED BY <2>1, <2>2
<1>2. ASSUME NEW w \in Workers, AddMark(w) PROVE TakenInv'
  <2> DEFINE n == req[w].msg
  <2>1. /\ Only(w) /\ Mishaps' = Mishaps /\ n \in Messages
        /\ req[w].pc = "add" /\ req'[w].pc = "evict" /\ req'[w].msg = n
        /\ (\A m \in Messages : Known(m)' <=> Known(m) \/ m = n) /\ Note(n, "taken")
    BY <1>2, AddMarkDoes DEF Calm, Keeps
  <2>2. /\ \A m \in Messages \ {n} : log'[m] = log[m]
        /\ log'[n].taken = log[n].taken + 1
    BY <2>1, NoteOne
  <2> SUFFICES ASSUME NEW m \in Messages PROVE TakenOK(m)'
    BY DEF TakenInv
  <2>3. TakenOK(m)
    BY DEF TakenInv
  <2>4. CASE m = n
    <3>1. /\ Cardinality(Takers(m)') + 1 = Cardinality(Takers(m))
          /\ Cardinality(Adders(m)') + 1 = Cardinality(Adders(m))
          /\ Cardinality(Takers(m)') \in Nat /\ Cardinality(Adders(m)') \in Nat
      <4>1. /\ w \in Takers(m) /\ w \notin Takers(m)'
            /\ w \in Adders(m) /\ w \notin Adders(m)'
        BY <2>1, <2>4, TakersMoved
      <4> QED BY <2>1, <4>1, TakersMoved, TakenTypes, Moved
    <3>2. Known(m)'
      BY <2>1, <2>4
    <3> HIDE DEF n
    <3> QED BY <1>0, <2>1, <2>2, <2>3, <2>4, <3>1, <3>2, TakenTypes DEF TakenOK
  <2>5. CASE m # n
    <3>1. /\ Cardinality(Takers(m)') = Cardinality(Takers(m))
          /\ Cardinality(Adders(m)') = Cardinality(Adders(m))
      <4>1. /\ w \notin Takers(m) /\ w \notin Takers(m)'
            /\ w \notin Adders(m) /\ w \notin Adders(m)'
        BY <2>1, <2>5, TakersMoved
      <4> QED BY <2>1, <4>1, TakersMoved, TakenTypes, Moved
    <3>2. Known(m)' <=> Known(m)
      BY <2>1, <2>5
    <3> QED BY <2>1, <2>2, <2>3, <2>5, <3>1, <3>2 DEF TakenOK
  <2> QED BY <2>4, <2>5
<1>3. ASSUME NEW w \in Workers, Evict(w) PROVE TakenInv'
  <2>1. /\ Only(w) /\ log' = log /\ req[w].pc = "evict"
        /\ req'[w].pc \notin {"check", "add"}
        /\ \/ seen' = seen /\ Mishaps' = Mishaps
           \/ /\ \A m \in Messages : Known(m)' => Known(m)
              /\ Mishaps' = Mishaps + 1
    BY <1>3, EvictDoes DEF Calm, hist
  <2> QED BY <1>0, <2>1, TakenAside, TakenKept
<1>4. ASSUME NEW w \in Workers, NEW n \in Messages, Deliver(w, n) PROVE TakenInv'
  <2>1. /\ Only(w) /\ log' = log /\ seen' = seen /\ req[w] = Idle
        /\ req'[w].pc = "check" /\ req'[w].msg = n
        /\ Mishaps' = Mishaps + (IF Works(ThreadOf[n]) THEN 1 ELSE 0)
    BY <1>4, DeliverDoes DEF hist
  <2> SUFFICES ASSUME NEW m \in Messages PROVE TakenOK(m)'
    BY DEF TakenInv
  <2>2. TakenOK(m) /\ (Known(m)' <=> Known(m))
    BY <2>1 DEF TakenInv, Known
  <2>3. /\ Cardinality(Adders(m)') = Cardinality(Adders(m))
        /\ m # n => Cardinality(Takers(m)') = Cardinality(Takers(m))
        /\ m = n => Cardinality(Takers(m)') = Cardinality(Takers(m)) + 1
    <3>1. /\ w \notin Adders(m) /\ w \notin Adders(m)' /\ w \notin Takers(m)
          /\ w \in Takers(m)' <=> m = n
      BY <2>1, TakersMoved DEF Idle
    <3> QED BY <2>1, <3>1, TakersMoved, TakenTypes, Moved
  <2>4. CASE Works(ThreadOf[n])
    <3>1. Mishaps' = Mishaps + 1
      BY <2>1, <2>4
    <3> QED BY <1>0, <2>1, <2>2, <2>3, <3>1, TakenTypes DEF TakenOK
  <2>5. CASE ~Works(ThreadOf[n])
    <3>1. Mishaps' = Mishaps
      BY <1>0, <2>1, <2>5
    <3>2. m = n => Cardinality(Takers(m)) = 0 /\ Cardinality(Adders(m)) = 0
      <4>1. m = n => Takers(m) = {} /\ Adders(m) = {}
        BY <2>5 DEF Takers, Adders, Works
      <4> QED BY <4>1, FS_EmptySet
    <3> QED BY <1>0, <2>1, <2>2, <2>3, <3>1, <3>2, TakenTypes DEF TakenOK
  <2> QED BY <2>4, <2>5
<1>5. ASSUME NEW k \in Containers, Crash(k) PROVE TakenInv'
  <2>1. /\ log' = log /\ Mishaps' = Mishaps + 1
        /\ \A m \in Messages : Known(m)' => Known(m)
        /\ \A w \in Workers : req'[w] = Idle \/ req'[w] = req[w]
    BY <1>5, CrashDoes DEF hist
  <2>2. \A m \in Messages :
          Takers(m)' \in SUBSET Takers(m) /\ Adders(m)' \in SUBSET Adders(m)
    BY <2>1 DEF Takers, Adders, Idle
  <2> QED BY <1>0, <2>1, <2>2, TakenKept
<1>6. CASE UNCHANGED vars
  BY <1>6 DEF vars, TakenInv, TakenOK, Takers, Adders, Mishaps, Known
<1>7. ASSUME NEW w \in Workers,
             \/ Ignore(w) \/ Triage(w) \/ Verdict(w) \/ Turn(w)
             \/ Park(w) \/ Notice(w) \/ NoticeSent(w) \/ Post(w)
      PROVE  TakenInv'
  <2>1. Only(w) /\ seen' = seen /\ Mishaps' = Mishaps
    BY <1>7, IgnoreDoes, TriageDoes, VerdictDoes, TurnDoes, ParkDoes, NoticeDoes,
       NoticeSentDoes, PostDoes DEF Calm
  <2>2. req'[w].pc \notin {"check", "add"}
    BY <1>7, IgnoreDoes, TriageDoes, VerdictDoes, TurnDoes, ParkDoes, NoticeDoes,
       NoticeSentDoes, PostDoes DEF Idle
  <2>3. log' = log \/ \E field \in {"released", "answered"} : Note(req[w].msg, field)
    BY <1>7, IgnoreDoes, TriageDoes, VerdictDoes, TurnDoes, ParkDoes, NoticeDoes,
       NoticeSentDoes, PostDoes DEF hist
  <2>4. \A m \in Messages : log'[m].taken = log[m].taken
    BY <2>3, NoteSame
  <2> QED BY <1>0, <2>1, <2>2, <2>4, TakenAside, TakenKept
<1>8. ASSUME NEW w \in Workers, Operator(w) PROVE TakenInv'
  <2>5. /\ Only(w) /\ seen' = seen
        /\ Mishaps' = Mishaps \/ Mishaps' = Mishaps + 1
    BY <1>8, StampDoes, FlipDoes, SendDoes, RecordDoes, RecordFailsDoes,
       ReplayDoes, PostDoes, RejectDoes DEF Operator, Calm
  <2>1. Only(w) /\ seen' = seen /\ Mishaps' >= Mishaps
    BY <1>0, <2>5
  <2>2. req'[w].pc \notin {"check", "add"}
    BY <1>8, StampDoes, FlipDoes, SendDoes, RecordDoes, RecordFailsDoes,
       ReplayDoes, PostDoes, RejectDoes DEF Operator, Idle
  <2>3. \/ log' = log \/ Note(req[w].msg, "answered")
        \/ Note(req[w].copy.cls.parked, "cleared")
    BY <1>8, StampDoes, FlipDoes, SendDoes, RecordDoes, RecordFailsDoes,
       ReplayDoes, PostDoes, RejectDoes DEF Operator, hist
  <2>4. \A m \in Messages : log'[m].taken = log[m].taken
    BY <2>3, NoteSame
  <2> QED BY <1>0, <2>1, <2>2, <2>4, TakenAside, TakenKept
<1>9. ASSUME NEW w \in Workers, NEW c \in Convs, Click(w, c) \/ ClickReject(w, c)
      PROVE  TakenInv'
  <2>1. /\ Only(w) /\ seen' = seen /\ Mishaps' >= Mishaps /\ log' = log
        /\ req'[w].pc \notin {"check", "add"}
    BY <1>0, <1>9, ClickDoes DEF hist
  <2> QED BY <1>0, <2>1, TakenAside, TakenKept
<1> QED BY <1>1, <1>2, <1>3, <1>4, <1>5, <1>6, <1>7, <1>8, <1>9 DEF Next, Task

-----------------------------------------------------------------------------
(***************************************************************************)
(* The assistant releases a mail at most as often as it was taken up, and  *)
(* once less when a reply to it was held back for the operator: each       *)
(* taking up is judged once.                                               *)
(***************************************************************************)
Judging(m) ==
  {w \in Workers : req[w].msg = m /\ req[w].pc \in {"evict", "triage", "verdict"}}

Gating(w) == (req[w].pc = "turn" /\ req[w].gate) \/ req[w].pc = "park"

Kept(m) ==
  \/ log[m].cleared > 0
  \/ \E c \in Convs : rows[c].cls.parked = m
  \/ \E w \in Workers : req[w].copy.cls.parked = m \/ (req[w].msg = m /\ Gating(w))

ReleasedOK(m) ==
  /\ log[m].released + Cardinality(Judging(m)) <= log[m].taken
  /\ Kept(m) => log[m].released + Cardinality(Judging(m)) + 1 <= log[m].taken

ReleasedInv == \A m \in Messages : ReleasedOK(m)

LEMMA JudgingMoved ==
  ASSUME Typed, NEW w \in Workers, Only(w), NEW m \in Messages
  PROVE  /\ Judging(m) \ {w} = Judging(m)' \ {w} /\ IsFiniteSet(Judging(m))
         /\ Cardinality(Judging(m)) \in Nat /\ Cardinality(Judging(m)') \in Nat
         /\ w \in Judging(m) <=>
              req[w].msg = m /\ req[w].pc \in {"evict", "triage", "verdict"}
         /\ w \in Judging(m)' <=>
              req'[w].msg = m /\ req'[w].pc \in {"evict", "triage", "verdict"}
<1>1. Judging(m) \in SUBSET Workers /\ Judging(m)' \in SUBSET Workers
  BY DEF Judging
<1>2. Judging(m) \ {w} = Judging(m)' \ {w}
  BY DEF Judging, Only
<1> QED BY <1>1, <1>2, Counts DEF Judging

LEMMA LogTypes ==
  ASSUME Typed, NEW m \in Messages
  PROVE  /\ log[m].taken \in Nat /\ log[m].released \in Nat
         /\ log[m].cleared \in Nat /\ log[m].answered \in Nat
BY DEF Typed, TypeOK

\* What is parked was parked before, on a row or in the worker's copy.
Hands(w) ==
  /\ \A c \in Convs :
       \/ rows'[c].cls.parked \in {rows[c].cls.parked, req[w].copy.cls.parked}
       \/ req[w].pc = "park" /\ rows'[c].cls.parked = req[w].msg
  /\ \/ req'[w].copy.cls.parked \in {req[w].copy.cls.parked, None}
     \/ \E c \in Convs :
          req'[w].copy.cls.parked \in {rows[c].cls.parked, rows'[c].cls.parked}
  /\ Gating(w)' => req'[w].msg = req[w].msg /\ Gating(w)

LEMMA KeptBefore ==
  ASSUME Typed, NEW w \in Workers, Only(w), Hands(w), NEW m \in Messages,
         log'[m].cleared = log[m].cleared \/ m = req[w].copy.cls.parked,
         Kept(m)'
  PROVE  Kept(m)
<1>1. \A c \in Convs : rows'[c].cls.parked = m => Kept(m)
  BY DEF Hands, Kept, Gating
<1>2. req'[w].copy.cls.parked = m => Kept(m)
  <2>1. m # None
    BY ENAssumption
  <2>2. req[w].copy.cls.parked = m => Kept(m)
    BY DEF Kept
  <2>3. \A c \in Convs : rows[c].cls.parked = m => Kept(m)
    BY DEF Kept
  <2> QED BY <1>1, <2>1, <2>2, <2>3 DEF Hands
<1>3. \A v \in Workers \ {w} :
        (req'[v].copy.cls.parked = m \/ (req'[v].msg = m /\ Gating(v)')) => Kept(m)
  BY DEF Only, Kept, Gating
<1>4. req'[w].msg = m /\ Gating(w)' => Kept(m)
  BY DEF Hands, Kept
<1>5. log'[m].cleared > 0 => Kept(m)
  BY DEF Kept
<1> QED BY <1>1, <1>2, <1>3, <1>4, <1>5 DEF Kept

LEMMA ReleasedKept ==
  ASSUME Typed, ReleasedInv, NEW w \in Workers, Only(w), Hands(w),
         \A m \in Messages :
           /\ log'[m].taken = log[m].taken /\ log'[m].released = log[m].released
           /\ log'[m].cleared = log[m].cleared \/ m = req[w].copy.cls.parked,
         req'[w].pc \in {"evict", "triage", "verdict"} =>
           /\ req[w].pc \in {"evict", "triage", "verdict"}
           /\ req'[w].msg = req[w].msg
  PROVE  ReleasedInv'
<1> SUFFICES ASSUME NEW m \in Messages PROVE ReleasedOK(m)'
  BY DEF ReleasedInv
<1>1. ReleasedOK(m)
  BY DEF ReleasedInv
<1>2. Cardinality(Judging(m)') <= Cardinality(Judging(m))
  BY JudgingMoved, Moved
<1>3. Kept(m)' => Kept(m)
  BY KeptBefore
<1> QED BY <1>1, <1>2, <1>3, LogTypes, JudgingMoved DEF ReleasedOK

LEMMA HandsSame ==
  ASSUME NEW w \in Workers, rows' = rows,
         req'[w].copy.cls.parked \in {req[w].copy.cls.parked, None},
         ~Gating(w)'
  PROVE  Hands(w)
BY DEF Hands

LEMMA HandsIdle ==
  ASSUME NEW w \in Workers, req'[w] = Idle,
         rows' = rows \/ \E c \in Convs :
           /\ Writes(c)
           /\ rows'[c].cls.parked \in {rows[c].cls.parked, req[w].copy.cls.parked}
  PROVE  Hands(w)
<1>1. req'[w].copy.cls.parked = None /\ ~Gating(w)'
  BY DEF Idle, NoRow, NoCls, Gating
<1>2. \A c \in Convs :
        rows'[c].cls.parked \in {rows[c].cls.parked, req[w].copy.cls.parked}
  BY DEF Writes
<1> QED BY <1>1, <1>2 DEF Hands

LEMMA HandsWrite ==
  ASSUME NEW w \in Workers, NEW c \in Convs, Writes(c),
         \/ rows'[c].cls.parked \in {rows[c].cls.parked, req[w].copy.cls.parked}
         \/ req[w].pc = "park" /\ rows'[c].cls.parked = req[w].msg,
         req'[w].copy \in {req[w].copy, rows[c], rows'[c]}, ~Gating(w)'
  PROVE  Hands(w)
<1>1. \A d \in Convs :
        \/ rows'[d].cls.parked \in {rows[d].cls.parked, req[w].copy.cls.parked}
        \/ req[w].pc = "park" /\ rows'[d].cls.parked = req[w].msg
  BY DEF Writes
<1>2. \/ req'[w].copy.cls.parked \in {req[w].copy.cls.parked, None}
      \/ \E d \in Convs :
           req'[w].copy.cls.parked \in {rows[d].cls.parked, rows'[d].cls.parked}
  <2>1. CASE req'[w].copy = req[w].copy
    BY <2>1
  <2>2. CASE req'[w].copy \in {rows[c], rows'[c]}
    BY <2>2
  <2> QED BY <2>1, <2>2
<1> QED BY <1>1, <1>2 DEF Hands

LEMMA ReleasedInit == Init => ReleasedInv
<1> SUFFICES ASSUME Init, NEW m \in Messages PROVE ReleasedOK(m)
  BY DEF ReleasedInv
<1>1. Judging(m) = {}
  BY DEF Init, Judging, Idle
<1>2. Cardinality(Judging(m)) = 0
  BY <1>1, FS_EmptySet
<1>3. log[m].taken = 0 /\ log[m].released = 0 /\ log[m].cleared = 0
  BY DEF Init, Box!Fresh
<1>4. ~Kept(m)
  BY <1>3, ENAssumption DEF Kept, Init, Idle, NoRow, NoCls, Gating
<1> QED BY <1>2, <1>3, <1>4 DEF ReleasedOK

LEMMA ReleasedAdd ==
  ASSUME Typed, ReleasedInv, NEW w \in Workers, AddMark(w)
  PROVE  ReleasedInv'
<1> DEFINE n == req[w].msg
<1>1. /\ Only(w) /\ rows' = rows /\ n \in Messages /\ req[w].pc = "add"
      /\ req'[w].pc = "evict" /\ req'[w].msg = n /\ req'[w].copy = req[w].copy
      /\ Note(n, "taken")
  BY AddMarkDoes DEF Keeps
<1>2. /\ \A m \in Messages \ {n} : log'[m] = log[m]
      /\ log'[n].taken = log[n].taken + 1 /\ log'[n].released = log[n].released
      /\ \A m \in Messages : log'[m].cleared = log[m].cleared
  BY <1>1, NoteOne, NoteSame
<1>3. Hands(w)
  BY <1>1, HandsSame DEF Gating
<1> HIDE DEF n
<1> SUFFICES ASSUME NEW m \in Messages PROVE ReleasedOK(m)'
  BY DEF ReleasedInv
<1>4. ReleasedOK(m) /\ (Kept(m)' => Kept(m))
  BY <1>1, <1>2, <1>3, KeptBefore DEF ReleasedInv
<1>5. /\ m # n => Cardinality(Judging(m)') = Cardinality(Judging(m))
      /\ m = n => Cardinality(Judging(m)') = Cardinality(Judging(m)) + 1
  <2>1. w \notin Judging(m) /\ (w \in Judging(m)' <=> m = n)
    BY <1>1, JudgingMoved DEF n
  <2> QED BY <1>1, <2>1, JudgingMoved, Moved
<1> QED BY <1>1, <1>2, <1>4, <1>5, LogTypes, JudgingMoved DEF ReleasedOK

LEMMA ReleasedVerdict ==
  ASSUME Typed, ReleasedInv, NEW w \in Workers, Verdict(w)
  PROVE  ReleasedInv'
<1> DEFINE n == req[w].msg
<1>1. /\ Only(w) /\ rows' = rows /\ req[w].pc = "verdict" /\ n \in Messages
      /\ \/ req'[w] = Idle /\ UNCHANGED hist
         \/ /\ req'[w].pc = "turn" /\ req'[w].msg = n /\ req'[w].copy = req[w].copy
            /\ \/ req'[w].gate /\ UNCHANGED hist
               \/ ~req'[w].gate /\ Note(n, "released")
  BY VerdictDoes
<1>2. CASE ~Gating(w)'
  <2>1. Hands(w)
    <3>1. req'[w].copy.cls.parked \in {req[w].copy.cls.parked, None}
      BY <1>1 DEF Idle, NoRow, NoCls
    <3> QED BY <1>1, <1>2, <3>1, HandsSame
  <2>2. /\ \A m \in Messages \ {n} : log'[m] = log[m]
        /\ log'[n].taken = log[n].taken
        /\ log'[n].released \in {log[n].released, log[n].released + 1}
        /\ \A m \in Messages : log'[m].cleared = log[m].cleared
    <3>1. CASE UNCHANGED hist
      BY <1>1, <3>1 DEF hist
    <3>2. CASE Note(n, "released")
      BY <1>1, <3>2, NoteOne, NoteSame
    <3> QED BY <1>1, <1>2, <3>1, <3>2 DEF Gating
  <2> HIDE DEF n
  <2> SUFFICES ASSUME NEW m \in Messages PROVE ReleasedOK(m)'
    BY DEF ReleasedInv
  <2>3. ReleasedOK(m) /\ (Kept(m)' => Kept(m))
    BY <1>1, <2>1, <2>2, KeptBefore DEF ReleasedInv
  <2>4. /\ m # n => Cardinality(Judging(m)') = Cardinality(Judging(m))
        /\ m = n => Cardinality(Judging(m)') + 1 = Cardinality(Judging(m))
    <3>1. w \notin Judging(m)' /\ (w \in Judging(m) <=> m = n)
      BY <1>1, JudgingMoved DEF n, Idle
    <3> QED BY <1>1, <3>1, JudgingMoved, Moved
  <2> QED BY <1>1, <2>2, <2>3, <2>4, LogTypes, JudgingMoved DEF ReleasedOK
<1>3. CASE Gating(w)'
  <2>1. /\ req'[w].pc = "turn" /\ req'[w].msg = n /\ req'[w].copy = req[w].copy
        /\ log' = log
    BY <1>1, <1>3 DEF Gating, Idle, hist
  <2> SUFFICES ASSUME NEW m \in Messages PROVE ReleasedOK(m)'
    BY DEF ReleasedInv
  <2>2. ReleasedOK(m)
    BY DEF ReleasedInv
  <2>3. /\ m # n => Cardinality(Judging(m)') = Cardinality(Judging(m))
        /\ m = n => Cardinality(Judging(m)') + 1 = Cardinality(Judging(m))
    <3>1. w \notin Judging(m)' /\ (w \in Judging(m) <=> m = n)
      BY <1>1, <2>1, JudgingMoved
    <3> QED BY <1>1, <3>1, JudgingMoved, Moved
  <2>4. m # n => (Kept(m)' => Kept(m))
    <3>1. \A v \in Workers :
            (req'[v].copy.cls.parked = m \/ (req'[v].msg = m /\ Gating(v)')) =>
              \/ v = w /\ (req[w].copy.cls.parked = m \/ n = m)
              \/ req[v].copy.cls.parked = m
              \/ req[v].msg = m /\ Gating(v)
      BY <1>1, <2>1 DEF Only, Gating
    <3> QED BY <1>1, <2>1, <3>1 DEF Kept
  <2> HIDE DEF n
  <2> QED BY <1>1, <2>1, <2>2, <2>3, <2>4, LogTypes, JudgingMoved DEF ReleasedOK
<1> QED BY <1>2, <1>3

LEMMA ReleasedTask ==
  ASSUME Typed, ReleasedInv, NEW w \in Workers, Task(w)
  PROVE  ReleasedInv'
<1>1. CASE CheckMark(w)
  <2>1. /\ Only(w) /\ rows' = rows /\ log' = log
        /\ req'[w].copy = NoRow /\ req'[w].pc \in {"idle", "add"}
    BY <1>1, CheckMarkDoes DEF hist, Keeps, Idle
  <2>2. Hands(w)
    BY <2>1, HandsSame DEF Gating, NoRow, NoCls
  <2> QED BY <2>1, <2>2, ReleasedKept
<1>2. CASE AddMark(w)
  BY <1>2, ReleasedAdd
<1>3. CASE Evict(w)
  <2>1. /\ Only(w) /\ rows' = rows /\ log' = log /\ req[w].pc = "evict"
        /\ req'[w].copy = req[w].copy /\ req'[w].pc \in {"evict", "triage"}
        /\ req'[w].msg = req[w].msg
    BY <1>3, EvictDoes DEF hist, Keeps
  <2>2. Hands(w)
    BY <2>1, HandsSame DEF Gating
  <2> QED BY <2>1, <2>2, ReleasedKept
<1>4. CASE Ignore(w)
  <2>1. /\ Only(w) /\ rows' = rows /\ log' = log /\ req'[w] = Idle
    BY <1>4, IgnoreDoes DEF hist
  <2>2. Hands(w)
    BY <2>1, HandsIdle
  <2> QED BY <2>1, <2>2, ReleasedKept DEF Idle
<1>5. CASE Triage(w)
  <2>1. /\ Only(w) /\ rows' = rows /\ log' = log /\ req[w].pc = "triage"
        /\ req'[w].pc = "verdict" /\ req'[w].msg = req[w].msg
        /\ \/ req'[w].copy = NoRow
           \/ req'[w].conv \in Convs /\ req'[w].copy = rows[req'[w].conv]
    BY <1>5, TriageDoes DEF hist, Of
  <2>2. Hands(w)
    BY <2>1 DEF Hands, Gating, NoRow, NoCls
  <2> QED BY <2>1, <2>2, ReleasedKept
<1>6. CASE Verdict(w)
  BY <1>6, ReleasedVerdict
<1>7. CASE Turn(w)
  <2>1. PICK c \in Convs :
          /\ \A d \in Convs \ {c} : rows'[d] = rows[d]
          /\ rows'[c].cls = rows[c].cls
          /\ \/ req'[w] = Idle
             \/ /\ req'[w].pc = (IF req[w].gate THEN "park" ELSE "post")
                /\ req'[w].msg = req[w].msg /\ req'[w].copy = rows'[c]
    BY <1>7, TurnDoes
  <2>2. Only(w) /\ log' = log /\ req[w].pc = "turn"
    BY <1>7, TurnDoes DEF hist
  <2>3. \A d \in Convs : rows'[d].cls.parked = rows[d].cls.parked
    BY <2>1
  <2>4. Hands(w)
    <3>1. CASE req'[w] = Idle
      BY <2>3, <3>1 DEF Hands, Gating, Idle, NoRow, NoCls
    <3>2. CASE req'[w] # Idle
      BY <2>1, <2>2, <2>3, <3>2 DEF Hands, Gating
    <3> QED BY <3>1, <3>2
  <2>5. req'[w].pc \notin {"evict", "triage", "verdict"}
    BY <2>1 DEF Idle
  <2> QED BY <2>2, <2>4, <2>5, ReleasedKept
<1>8. CASE Park(w)
  <2> DEFINE c == req[w].conv
  <2>1. /\ Only(w) /\ log' = log /\ req[w].pc = "park" /\ c \in Convs /\ Writes(c)
        /\ rows'[c].cls.parked = req[w].msg
        /\ req'[w].pc = "notice" /\ req'[w].copy = req[w].copy
    BY <1>8, ParkDoes DEF Keeps
  <2> HIDE DEF c
  <2>2. Hands(w)
    BY <2>1, HandsWrite DEF Gating
  <2> QED BY <2>1, <2>2, ReleasedKept
<1>9. CASE Notice(w)
  <2>1. CASE req'[w] = Idle
    <3>1. /\ Only(w) /\ rows' = rows /\ log' = log
      BY <1>9, NoticeDoes DEF hist
    <3>2. Hands(w)
      BY <2>1, <3>1, HandsIdle
    <3> QED BY <2>1, <3>1, <3>2, ReleasedKept DEF Idle
  <2>2. CASE req'[w] # Idle
    <3>1. /\ Only(w) /\ rows' = rows /\ log' = log /\ req'[w].pc = "mailed"
          /\ req[w].conv \in Convs /\ req'[w].copy = rows[req[w].conv]
      BY <1>9, <2>2, NoticeDoes DEF hist
    <3>2. Hands(w)
      BY <3>1 DEF Hands, Gating
    <3> QED BY <3>1, <3>2, ReleasedKept
  <2> QED BY <2>1, <2>2
<1>10. CASE NoticeSent(w)
  <2> DEFINE c == req[w].conv
  <2>1. /\ Only(w) /\ log' = log /\ c \in Convs /\ Writes(c)
        /\ rows'[c].cls.parked = req[w].copy.cls.parked /\ req'[w] = Idle
    BY <1>10, NoticeSentDoes DEF Like, hist
  <2> HIDE DEF c
  <2>2. Hands(w)
    BY <2>1, HandsIdle
  <2> QED BY <2>1, <2>2, ReleasedKept DEF Idle
<1>11. CASE Post(w)
  <2>1. /\ Only(w) /\ rows' = rows /\ req'[w] = Idle
        /\ log' = log \/ Note(req[w].msg, "answered")
    BY <1>11, PostDoes DEF hist
  <2>2. Hands(w)
    BY <2>1, HandsIdle
  <2>3. \A m \in Messages : /\ log'[m].taken = log[m].taken
                            /\ log'[m].released = log[m].released
                            /\ log'[m].cleared = log[m].cleared
    BY <2>1, NoteSame
  <2> QED BY <2>1, <2>2, <2>3, ReleasedKept DEF Idle
<1> QED BY <1>1, <1>2, <1>3, <1>4, <1>5, <1>6, <1>7, <1>8, <1>9, <1>10, <1>11
        DEF Task

LEMMA ReleasedOperator ==
  ASSUME Typed, ReleasedInv, NEW w \in Workers, Operator(w)
  PROVE  ReleasedInv'
<1> DEFINE c == req[w].conv
<1>1. CASE StampApproval(w)
  <2>1. /\ Only(w) /\ log' = log /\ c \in Convs /\ Writes(c) /\ req'[w].pc = "flip"
        /\ \/ req'[w].copy = req[w].copy /\ rows' = rows
           \/ /\ req'[w].copy = rows'[c]
              /\ rows'[c].cls.parked = req[w].copy.cls.parked
    BY <1>1, StampDoes DEF hist, Like
  <2> HIDE DEF c
  <2>2. Hands(w)
    BY <2>1, HandsWrite DEF Gating
  <2> QED BY <2>1, <2>2, ReleasedKept
<1>2. CASE Flip(w)
  <2>1. /\ Only(w) /\ c \in Convs /\ Writes(c) /\ req'[w].pc \in {"replay", "send"}
        /\ req'[w].copy = req[w].copy /\ rows'[c].cls = rows[c].cls
        /\ Note(req[w].copy.cls.parked, "cleared")
    BY <1>2, FlipDoes
  <2> HIDE DEF c
  <2>2. Hands(w)
    BY <2>1, HandsWrite DEF Gating
  <2>3. \A m \in Messages :
          /\ log'[m].taken = log[m].taken /\ log'[m].released = log[m].released
          /\ log'[m].cleared = log[m].cleared \/ m = req[w].copy.cls.parked
    <3>1. \A m \in Messages : m # req[w].copy.cls.parked => log'[m] = log[m]
      BY <2>1, NoteOne
    <3> QED BY <2>1, <3>1, NoteSame
  <2> QED BY <2>1, <2>2, <2>3, ReleasedKept
<1>3. CASE Send(w)
  <2>1. /\ Only(w) /\ rows' = rows
        /\ log' = log \/ Note(req[w].msg, "answered")
        /\ req'[w].pc \in {"record", "idle"}
        /\ req'[w].copy \in {req[w].copy, NoRow}
    BY <1>3, SendDoes DEF hist, Keeps, Idle
  <2>2. Hands(w)
    BY <2>1, HandsSame DEF Gating, NoRow, NoCls
  <2>3. \A m \in Messages : /\ log'[m].taken = log[m].taken
                            /\ log'[m].released = log[m].released
                            /\ log'[m].cleared = log[m].cleared
    BY <2>1, NoteSame
  <2> QED BY <2>1, <2>2, <2>3, ReleasedKept
<1>4. CASE Record(w)
  <2>1. /\ Only(w) /\ log' = log /\ c \in Convs /\ Writes(c)
        /\ rows'[c].cls.parked = req[w].copy.cls.parked /\ req'[w] = Idle
    BY <1>4, RecordDoes DEF hist
  <2> HIDE DEF c
  <2>2. Hands(w)
    BY <2>1, HandsIdle
  <2> QED BY <2>1, <2>2, ReleasedKept DEF Idle
<1>5. CASE RecordFails(w)
  <2>1. /\ Only(w) /\ rows' = rows /\ log' = log /\ req'[w] = Idle
    BY <1>5, RecordFailsDoes DEF hist
  <2>2. Hands(w)
    BY <2>1, HandsIdle
  <2> QED BY <2>1, <2>2, ReleasedKept DEF Idle
<1>6. CASE Replay(w)
  <2>1. /\ Only(w) /\ log' = log /\ c \in Convs /\ Writes(c)
        /\ rows'[c].cls = rows[c].cls
        /\ req'[w] = Idle \/ (req'[w].pc = "resend" /\ req'[w].copy = rows'[c])
    BY <1>6, ReplayDoes DEF hist
  <2> HIDE DEF c
  <2>2. Hands(w)
    <3>1. CASE req'[w] = Idle
      BY <2>1, <3>1, HandsIdle
    <3>2. CASE req'[w] # Idle
      BY <2>1, <3>2, HandsWrite DEF Gating
    <3> QED BY <3>1, <3>2
  <2> QED BY <2>1, <2>2, ReleasedKept DEF Idle
<1>7. CASE Resend(w)
  <2>1. /\ Only(w) /\ rows' = rows /\ req'[w] = Idle
        /\ log' = log \/ Note(req[w].msg, "answered")
    BY <1>7, PostDoes DEF hist
  <2>2. Hands(w)
    BY <2>1, HandsIdle
  <2>3. \A m \in Messages : /\ log'[m].taken = log[m].taken
                            /\ log'[m].released = log[m].released
                            /\ log'[m].cleared = log[m].cleared
    BY <2>1, NoteSame
  <2> QED BY <2>1, <2>2, <2>3, ReleasedKept DEF Idle
<1>8. CASE Reject(w)
  <2>1. /\ Only(w) /\ log' = log /\ c \in Convs /\ Writes(c) /\ req'[w] = Idle
        /\ rows'[c].cls.parked \in {rows[c].cls.parked, req[w].copy.cls.parked}
    BY <1>8, RejectDoes DEF hist, Like
  <2> HIDE DEF c
  <2>2. Hands(w)
    BY <2>1, HandsIdle
  <2> QED BY <2>1, <2>2, ReleasedKept DEF Idle
<1> QED BY <1>1, <1>2, <1>3, <1>4, <1>5, <1>6, <1>7, <1>8 DEF Operator

LEMMA ReleasedStep == Typed /\ ReleasedInv /\ [Next]_vars => ReleasedInv'
<1> SUFFICES ASSUME Typed, ReleasedInv, [Next]_vars PROVE ReleasedInv'
  OBVIOUS
<1>1. ASSUME NEW k \in Containers, Crash(k) PROVE ReleasedInv'
  <2>1. /\ rows' = rows /\ log' = log
        /\ \A w \in Workers : req'[w] = Idle \/ req'[w] = req[w]
    BY <1>1, CrashDoes DEF hist
  <2> SUFFICES ASSUME NEW m \in Messages PROVE ReleasedOK(m)'
    BY DEF ReleasedInv
  <2>2. ReleasedOK(m)
    BY DEF ReleasedInv
  <2>3. /\ Cardinality(Judging(m)') <= Cardinality(Judging(m))
        /\ Cardinality(Judging(m)) \in Nat /\ Cardinality(Judging(m)') \in Nat
    <3>1. Judging(m)' \in SUBSET Judging(m) /\ Judging(m) \in SUBSET Workers
      BY <2>1 DEF Judging, Idle
    <3>2. Judging(m)' \in SUBSET Workers
      BY <3>1
    <3> QED BY <3>1, <3>2, Counts
  <2>4. Kept(m)' => Kept(m)
    BY <2>1, ENAssumption DEF Kept, Idle, Gating, NoRow, NoCls
  <2> QED BY <2>1, <2>2, <2>3, <2>4, LogTypes DEF ReleasedOK
<1>2. ASSUME NEW w \in Workers, NEW m \in Messages, Deliver(w, m) PROVE ReleasedInv'
  <2>1. /\ Only(w) /\ rows' = rows /\ log' = log
        /\ req'[w].pc = "check" /\ req'[w].copy = NoRow
    BY <1>2, DeliverDoes DEF hist
  <2>2. Hands(w)
    BY <2>1, HandsSame DEF Gating, NoRow, NoCls
  <2> QED BY <2>1, <2>2, ReleasedKept
<1>3. ASSUME NEW w \in Workers, NEW c \in Convs, Click(w, c) \/ ClickReject(w, c)
      PROVE  ReleasedInv'
  <2>1. /\ Only(w) /\ rows' = rows /\ log' = log
        /\ req'[w].pc \in {"click", "reject"} /\ req'[w].copy = rows[c]
    BY <1>3, ClickDoes DEF hist
  <2>2. Hands(w)
    BY <2>1 DEF Hands, Gating
  <2> QED BY <2>1, <2>2, ReleasedKept
<1>4. CASE UNCHANGED vars
  BY <1>4 DEF vars, ReleasedInv, ReleasedOK, Judging, Kept, Gating
<1> QED BY <1>1, <1>2, <1>3, <1>4, ReleasedTask, ReleasedOperator DEF Next

-----------------------------------------------------------------------------
(***************************************************************************)
(* Every answer that was given or is on its way was released or cleared.   *)
(***************************************************************************)
Direct(m) ==
  {w \in Workers : /\ req[w].msg = m
                   /\ req[w].pc = "post" \/ (req[w].pc = "turn" /\ ~req[w].gate)}

Answering(m) ==
  {w \in Workers : /\ req[w].msg = m
                   /\ \/ req[w].pc = "post" \/ (req[w].pc = "turn" /\ ~req[w].gate)
                      \/ req[w].pc \in {"send", "replay", "resend"}}

AnsweredOK(m) ==
  log[m].answered + Cardinality(Answering(m)) <= log[m].released + log[m].cleared

AnsweredInv == \A m \in Messages : AnsweredOK(m)

LEMMA AnsweringMoved ==
  ASSUME Typed, NEW w \in Workers, Only(w), NEW m \in Messages
  PROVE  /\ Answering(m) \ {w} = Answering(m)' \ {w} /\ IsFiniteSet(Answering(m))
         /\ Cardinality(Answering(m)) \in Nat /\ Cardinality(Answering(m)') \in Nat
         /\ w \in Answering(m) <=>
              /\ req[w].msg = m
              /\ \/ req[w].pc = "post" \/ (req[w].pc = "turn" /\ ~req[w].gate)
                 \/ req[w].pc \in {"send", "replay", "resend"}
         /\ w \in Answering(m)' <=>
              /\ req'[w].msg = m
              /\ \/ req'[w].pc = "post" \/ (req'[w].pc = "turn" /\ ~req'[w].gate)
                 \/ req'[w].pc \in {"send", "replay", "resend"}
<1>1. Answering(m) \in SUBSET Workers /\ Answering(m)' \in SUBSET Workers
  BY DEF Answering
<1>2. Answering(m) \ {w} = Answering(m)' \ {w}
  BY DEF Answering, Only
<1> QED BY <1>1, <1>2, Counts DEF Answering

LEMMA AnsweredInit == Init => AnsweredInv
<1> SUFFICES ASSUME Init, NEW m \in Messages PROVE AnsweredOK(m)
  BY DEF AnsweredInv
<1>1. Answering(m) = {}
  BY DEF Init, Answering, Idle
<1>2. Cardinality(Answering(m)) = 0
  BY <1>1, FS_EmptySet
<1>3. log[m].answered = 0 /\ log[m].released = 0 /\ log[m].cleared = 0
  BY DEF Init, Box!Fresh
<1> QED BY <1>2, <1>3 DEF AnsweredOK

\* A step that answers nothing and sets no answer on its way.
LEMMA AnsweredKept ==
  ASSUME Typed, AnsweredInv, NEW w \in Workers, Only(w),
         \A m \in Messages :
           /\ log'[m].answered = log[m].answered
           /\ log'[m].released = log[m].released
           /\ log'[m].cleared = log[m].cleared
           /\ w \in Answering(m)' => w \in Answering(m)
  PROVE  AnsweredInv'
<1> SUFFICES ASSUME NEW m \in Messages PROVE AnsweredOK(m)'
  BY DEF AnsweredInv
<1>1. AnsweredOK(m)
  BY DEF AnsweredInv
<1>2. Cardinality(Answering(m)') <= Cardinality(Answering(m))
  BY AnsweringMoved, Moved
<1> QED BY <1>1, <1>2, LogTypes, AnsweringMoved DEF AnsweredOK

\* One that gives an answer on its way, or gives it up.
LEMMA AnsweredGiven ==
  ASSUME Typed, AnsweredInv, NEW w \in Workers, Only(w),
         UNCHANGED hist \/ Note(req[w].msg, "answered"),
         req[w].pc \in {"post", "send", "resend"},
         req'[w] = Idle \/ req'[w].pc = "record"
  PROVE  AnsweredInv'
<1> DEFINE n == req[w].msg
<1>1. /\ \A m \in Messages \ {n} : log'[m] = log[m]
      /\ \A m \in Messages :
           log'[m].released = log[m].released /\ log'[m].cleared = log[m].cleared
      /\ n \in Messages =>
           log'[n].answered \in {log[n].answered, log[n].answered + 1}
  <2>1. CASE UNCHANGED hist
    BY <2>1 DEF hist
  <2>2. CASE Note(n, "answered")
    BY <2>2, NoteOne, NoteSame
  <2> QED BY <2>1, <2>2
<1> SUFFICES ASSUME NEW m \in Messages PROVE AnsweredOK(m)'
  BY DEF AnsweredInv
<1>2. AnsweredOK(m)
  BY DEF AnsweredInv
<1>3. /\ m # n => Cardinality(Answering(m)') = Cardinality(Answering(m))
      /\ m = n => Cardinality(Answering(m)') + 1 = Cardinality(Answering(m))
  <2>1. w \notin Answering(m)' /\ (w \in Answering(m) <=> m = n)
    BY AnsweringMoved DEF Idle
  <2> QED BY <2>1, AnsweringMoved, Moved
<1> HIDE DEF n
<1> QED BY <1>1, <1>2, <1>3, LogTypes, AnsweringMoved DEF AnsweredOK

\* One that releases or clears a mail and sets out to answer it.
LEMMA AnsweredCharge ==
  ASSUME Typed, AnsweredInv, NEW w \in Workers, Only(w), NEW n,
         NEW field \in {"released", "cleared"}, Note(n, field),
         \A m \in Messages : w \notin Answering(m),
         req'[w].msg = n
  PROVE  AnsweredInv'
<1> SUFFICES ASSUME NEW m \in Messages PROVE AnsweredOK(m)'
  BY DEF AnsweredInv
<1>1. AnsweredOK(m)
  BY DEF AnsweredInv
<1>2. CASE m # n
  <2>1. w \notin Answering(m)'
    BY <1>2, AnsweringMoved
  <2>2. Cardinality(Answering(m)') = Cardinality(Answering(m))
    BY <2>1, AnsweringMoved, Moved
  <2> QED BY <1>1, <1>2, <2>2, NoteOne DEF AnsweredOK
<1>3. CASE m = n
  <2>1. Cardinality(Answering(m)') <= Cardinality(Answering(m)) + 1
    BY AnsweringMoved, Moved
  <2>2. /\ log'[m].answered = log[m].answered
        /\ \/ /\ log'[m].released = log[m].released + 1
              /\ log'[m].cleared = log[m].cleared
           \/ /\ log'[m].released = log[m].released
              /\ log'[m].cleared = log[m].cleared + 1
    BY <1>3, NoteOne, NoteSame
  <2> QED BY <1>1, <2>1, <2>2, LogTypes, AnsweringMoved DEF AnsweredOK
<1> QED BY <1>2, <1>3

LEMMA AnsweredStep == Typed /\ AnsweredInv /\ [Next]_vars => AnsweredInv'
<1> SUFFICES ASSUME Typed, AnsweredInv, [Next]_vars PROVE AnsweredInv'
  OBVIOUS
<1>1. ASSUME NEW k \in Containers, Crash(k) PROVE AnsweredInv'
  <2>1. log' = log /\ \A w \in Workers : req'[w] = Idle \/ req'[w] = req[w]
    BY <1>1, CrashDoes DEF hist
  <2> SUFFICES ASSUME NEW m \in Messages PROVE AnsweredOK(m)'
    BY DEF AnsweredInv
  <2>2. AnsweredOK(m)
    BY DEF AnsweredInv
  <2>3. /\ Cardinality(Answering(m)') <= Cardinality(Answering(m))
        /\ Cardinality(Answering(m)) \in Nat /\ Cardinality(Answering(m)') \in Nat
    <3>1. Answering(m)' \in SUBSET Answering(m) /\ Answering(m) \in SUBSET Workers
      BY <2>1 DEF Answering, Idle
    <3>2. Answering(m)' \in SUBSET Workers
      BY <3>1
    <3> QED BY <3>1, <3>2, Counts
  <2> QED BY <2>1, <2>2, <2>3, LogTypes DEF AnsweredOK
<1>2. ASSUME NEW w \in Workers, Post(w) \/ Resend(w) PROVE AnsweredInv'
  <2>1. /\ Only(w) /\ req[w].pc \in {"post", "send", "resend"} /\ req'[w] = Idle
        /\ UNCHANGED hist \/ Note(req[w].msg, "answered")
    BY <1>2, PostDoes
  <2> QED BY <2>1, AnsweredGiven
<1>3. ASSUME NEW w \in Workers, Send(w) PROVE AnsweredInv'
  BY <1>3, SendDoes, AnsweredGiven
<1>4. ASSUME NEW w \in Workers, Verdict(w) PROVE AnsweredInv'
  <2>1. /\ Only(w) /\ req[w].pc = "verdict"
        /\ \/ UNCHANGED hist /\ req'[w] = Idle
           \/ UNCHANGED hist /\ req'[w].pc = "turn" /\ req'[w].gate
           \/ Note(req[w].msg, "released") /\ req'[w].msg = req[w].msg
    BY <1>4, VerdictDoes
  <2>2. \A m \in Messages : w \notin Answering(m)
    BY <2>1, AnsweringMoved
  <2>3. CASE UNCHANGED hist /\ (req'[w] = Idle \/ (req'[w].pc = "turn" /\ req'[w].gate))
    <3>1. \A m \in Messages : w \notin Answering(m)'
      BY <2>1, <2>3, AnsweringMoved DEF Idle
    <3> QED BY <2>1, <2>3, <3>1, AnsweredKept DEF hist
  <2>4. CASE Note(req[w].msg, "released") /\ req'[w].msg = req[w].msg
    BY <2>1, <2>2, <2>4, AnsweredCharge
  <2> QED BY <2>1, <2>3, <2>4
<1>5. ASSUME NEW w \in Workers, Flip(w) PROVE AnsweredInv'
  <2>1. /\ Only(w) /\ req[w].pc = "flip"
        /\ Note(req[w].copy.cls.parked, "cleared")
        /\ req'[w].msg = req[w].copy.cls.parked
    BY <1>5, FlipDoes
  <2>2. \A m \in Messages : w \notin Answering(m)
    BY <2>1, AnsweringMoved
  <2> QED BY <2>1, <2>2, AnsweredCharge
<1>6. ASSUME NEW w \in Workers, Turn(w) PROVE AnsweredInv'
  <2>1. /\ Only(w) /\ req[w].pc = "turn" /\ log' = log
        /\ \/ req'[w] = Idle
           \/ /\ req'[w].pc = (IF req[w].gate THEN "park" ELSE "post")
              /\ req'[w].msg = req[w].msg
    BY <1>6, TurnDoes DEF hist
  <2>2. \A m \in Messages : w \in Answering(m)' => w \in Answering(m)
    BY <2>1, AnsweringMoved DEF Idle
  <2> QED BY <2>1, <2>2, AnsweredKept
<1>7. ASSUME NEW w \in Workers, Replay(w) PROVE AnsweredInv'
  <2>1. /\ Only(w) /\ req[w].pc = "replay" /\ log' = log
        /\ \/ req'[w] = Idle
           \/ req'[w].pc = "resend" /\ req'[w].msg = req[w].msg
    BY <1>7, ReplayDoes DEF hist
  <2>2. \A m \in Messages : w \in Answering(m)' => w \in Answering(m)
    BY <2>1, AnsweringMoved DEF Idle
  <2> QED BY <2>1, <2>2, AnsweredKept
<1>8. ASSUME NEW w \in Workers, Only(w),
             \A m \in Messages : /\ log'[m].answered = log[m].answered
                                 /\ log'[m].released = log[m].released
                                 /\ log'[m].cleared = log[m].cleared,
             req'[w].pc \notin {"post", "turn", "send", "replay", "resend"}
      PROVE  AnsweredInv'
  <2>1. \A m \in Messages : w \notin Answering(m)'
    BY <1>8, AnsweringMoved
  <2> QED BY <1>8, <2>1, AnsweredKept
<1>9. ASSUME NEW w \in Workers,
             \/ CheckMark(w) \/ AddMark(w) \/ Evict(w) \/ Ignore(w) \/ Triage(w)
             \/ Park(w) \/ Notice(w) \/ NoticeSent(w)
             \/ StampApproval(w) \/ Record(w) \/ RecordFails(w) \/ Reject(w)
             \/ \E m \in Messages : Deliver(w, m)
             \/ \E c \in Convs : Click(w, c) \/ ClickReject(w, c)
      PROVE  AnsweredInv'
  <2>1. /\ Only(w)
        /\ req'[w].pc \notin {"post", "turn", "send", "replay", "resend"}
    BY <1>9, CheckMarkDoes, AddMarkDoes, EvictDoes, IgnoreDoes, TriageDoes,
       ParkDoes, NoticeDoes, NoticeSentDoes, StampDoes, RecordDoes,
       RecordFailsDoes, RejectDoes, DeliverDoes, ClickDoes DEF Idle
  <2>2. log' = log \/ Note(req[w].msg, "taken")
    BY <1>9, CheckMarkDoes, AddMarkDoes, EvictDoes, IgnoreDoes, TriageDoes,
       ParkDoes, NoticeDoes, NoticeSentDoes, StampDoes, RecordDoes,
       RecordFailsDoes, RejectDoes, DeliverDoes, ClickDoes DEF hist
  <2>3. \A m \in Messages : /\ log'[m].answered = log[m].answered
                            /\ log'[m].released = log[m].released
                            /\ log'[m].cleared = log[m].cleared
    BY <2>2, NoteSame
  <2> QED BY <1>8, <2>1, <2>3
<1>10. CASE UNCHANGED vars
  BY <1>10 DEF vars, AnsweredInv, AnsweredOK, Answering
<1> QED BY <1>1, <1>2, <1>3, <1>4, <1>5, <1>6, <1>7, <1>9, <1>10
        DEF Next, Task, Operator

-----------------------------------------------------------------------------
(***************************************************************************)
(* The budget of a mail that has a prepared reply.  What it was answered,  *)
(* the answers on their way, one for each row of its thread that does not  *)
(* record a posted reply (or that a worker may still write back so) and    *)
(* one for each approval at work are all paid for: by the release, by one  *)
(* for the first row of the thread and by one for each mishap.  A request  *)
(* that finds the thread idle is lent one more until the thread is idle    *)
(* again, because it ends before the next one begins.                      *)
(***************************************************************************)
Ops(t) == {w \in Workers : req[w].pc \in {"click", "flip", "send"} /\ Mine(w, t)}

Others(t) ==
  {w \in Workers : /\ Mine(w, t)
                   /\ req[w].pc \notin {"click", "flip", "send", "record"}}

\* Tasks that saw no row for their thread and may add one.
Strays(t) ==
  {w \in Workers : /\ req[w].msg \in {m \in Messages : ThreadOf[m] = t}
                   /\ req[w].pc \in {"verdict", "turn"} /\ req[w].conv = None}

Holds(w, c) == req[w].conv = c /\ ~req[w].copy.cls.drafted

Undrafted(t) ==
  {c \in Of(t) : ~rows[c].cls.drafted \/ \E w \in Workers : Holds(w, c)}

Spent(m) ==
  log[m].answered + Cardinality(Direct(m))
    + Cardinality(Undrafted(ThreadOf[m])) + Cardinality(Ops(ThreadOf[m]))

Charged(m) ==
  /\ Of(ThreadOf[m]) = {} =>
       /\ Spent(m) + 1 <= Mishaps + 1 + log[m].released
       /\ Spent(m) + Cardinality(Others(ThreadOf[m])) <= Mishaps + 1 + log[m].released
  /\ Of(ThreadOf[m]) # {} =>
       Spent(m) + Cardinality(Strays(ThreadOf[m])) <= Mishaps + 1 + log[m].released

Lent(m) ==
  /\ Of(ThreadOf[m]) # {} /\ Strays(ThreadOf[m]) = {} /\ Works(ThreadOf[m])
  /\ Spent(m) + Cardinality(Others(ThreadOf[m])) <= Mishaps + 2 + log[m].released

BudgetInv == \A m \in Messages \ rewrites : Charged(m) \/ Lent(m)

LEMMA BudgetTypes ==
  ASSUME NEW t
  PROVE  /\ Of(t) \in SUBSET Convs /\ IsFiniteSet(Undrafted(t))
         /\ Cardinality(Undrafted(t)) \in Nat
         /\ IsFiniteSet(Ops(t)) /\ Cardinality(Ops(t)) \in Nat
         /\ IsFiniteSet(Others(t)) /\ Cardinality(Others(t)) \in Nat
         /\ IsFiniteSet(Strays(t)) /\ Cardinality(Strays(t)) \in Nat
<1>1. /\ Ops(t) \in SUBSET Workers /\ Others(t) \in SUBSET Workers
      /\ Strays(t) \in SUBSET Workers
  BY DEF Ops, Others, Strays
<1>2. Of(t) \in SUBSET Convs /\ Undrafted(t) \in SUBSET Convs
  BY DEF Of, Undrafted
<1> QED BY <1>1, <1>2, Counts, ENAssumption, FS_Subset, FS_CardinalityType

LEMMA BudgetTypesNext ==
  ASSUME NEW t
  PROVE  /\ Cardinality(Undrafted(t)') \in Nat
         /\ Cardinality(Ops(t)') \in Nat
         /\ Cardinality(Others(t)') \in Nat
         /\ Cardinality(Strays(t)') \in Nat
<1>1. /\ Ops(t)' \in SUBSET Workers /\ Others(t)' \in SUBSET Workers
      /\ Strays(t)' \in SUBSET Workers
  BY DEF Ops, Others, Strays
<1>2. Undrafted(t)' \in SUBSET Convs
  BY DEF Undrafted, Of
<1> QED BY <1>1, <1>2, Counts, ENAssumption, FS_Subset, FS_CardinalityType

LEMMA DirectTypes ==
  ASSUME NEW m
  PROVE  /\ IsFiniteSet(Direct(m)) /\ Cardinality(Direct(m)) \in Nat
         /\ Cardinality(Direct(m)') \in Nat
<1>1. Direct(m) \in SUBSET Workers /\ Direct(m)' \in SUBSET Workers
  BY DEF Direct
<1> QED BY <1>1, Counts

\* A step of worker w moves at most w between the sets of workers.
LEMMA BudgetMoved ==
  ASSUME NEW w \in Workers, Only(w), Settled, NEW t
  PROVE  /\ Of(t)' = Of(t)
         /\ Ops(t) \ {w} = Ops(t)' \ {w}
         /\ Others(t) \ {w} = Others(t)' \ {w}
         /\ Strays(t) \ {w} = Strays(t)' \ {w}
         /\ \A m : Direct(m) \ {w} = Direct(m)' \ {w}
         /\ Works(t) /\ ~Works(t)' => Mine(w, t) /\ ~Mine(w, t)'
         /\ Mine(w, t)' <=> \/ req'[w].msg \in {m \in Messages : ThreadOf[m] = t}
                            \/ req'[w].conv \in Of(t)
<1>1. Of(t)' = Of(t)
  BY DEF Of, Settled
<1>2. \A v \in Workers \ {w} : Mine(v, t)' <=> Mine(v, t)
  BY <1>1 DEF Mine, Only
<1>3. Ops(t) \ {w} = Ops(t)' \ {w}
  BY <1>2 DEF Ops, Only
<1>4. Others(t) \ {w} = Others(t)' \ {w}
  BY <1>2 DEF Others, Only
<1>5. Strays(t) \ {w} = Strays(t)' \ {w}
  BY DEF Strays, Only
<1>6. \A m : Direct(m) \ {w} = Direct(m)' \ {w}
  BY DEF Direct, Only
<1>7. Works(t) /\ ~Works(t)' => Mine(w, t) /\ ~Mine(w, t)'
  <2>1. Works(t) <=> \E v \in Workers : Mine(v, t)
    BY DEF Works, Mine
  <2>2. Works(t)' <=> \E v \in Workers : Mine(v, t)'
    BY DEF Works, Mine
  <2> QED BY <1>2, <2>1, <2>2
<1>8. Mine(w, t)' <=> \/ req'[w].msg \in {m \in Messages : ThreadOf[m] = t}
                      \/ req'[w].conv \in Of(t)
  BY <1>1 DEF Mine
<1> QED BY <1>1, <1>3, <1>4, <1>5, <1>6, <1>7, <1>8

\* No row forgets a posted reply that nobody was about to forget.
Remembers(w) ==
  \A c \in Convs :
    /\ ~rows'[c].cls.drafted => ~rows[c].cls.drafted \/ Holds(w, c)
    /\ Holds(w, c)' => ~rows[c].cls.drafted \/ ~rows'[c].cls.drafted \/ Holds(w, c)

LEMMA UndraftedShrinks ==
  ASSUME NEW w \in Workers, Only(w), Settled, Remembers(w), NEW t
  PROVE  /\ Undrafted(t)' \in SUBSET Undrafted(t)
         /\ Cardinality(Undrafted(t)') <= Cardinality(Undrafted(t))
<1>1. Of(t)' = Of(t)
  BY DEF Of, Settled
<1>2. ASSUME NEW c \in Undrafted(t)' PROVE c \in Undrafted(t)
  <2>1. c \in Of(t) /\ c \in Convs
    BY <1>1, <1>2 DEF Undrafted, Of
  <2>2. ~rows'[c].cls.drafted \/ \E v \in Workers : Holds(v, c)'
    BY <1>2 DEF Undrafted
  <2>3. \A v \in Workers \ {w} : Holds(v, c)' => Holds(v, c)
    BY DEF Holds, Only
  <2>4. ~rows[c].cls.drafted \/ \E v \in Workers : Holds(v, c)
    BY <2>1, <2>2, <2>3 DEF Remembers
  <2> QED BY <2>1, <2>4 DEF Undrafted
<1>3. Undrafted(t)' \in SUBSET Undrafted(t)
  BY <1>2
<1> QED BY <1>3, BudgetTypes, FS_Subset

\* The arithmetic of a step: what it spends is released or a mishap, and it
\* gains one when the thread falls idle.
LEMMA BudgetArith ==
  ASSUME Typed, Typed', NEW m \in Messages, Charged(m) \/ Lent(m),
         Of(ThreadOf[m])' = Of(ThreadOf[m]),
         Mishaps' >= Mishaps, log'[m].released >= log[m].released,
         Spent(m)' <= Spent(m) + (log'[m].released - log[m].released)
                        + (Mishaps' - Mishaps),
         Of(ThreadOf[m]) # {} => Strays(ThreadOf[m])' \in SUBSET Strays(ThreadOf[m]),
         Spent(m)' + Cardinality(Others(ThreadOf[m])')
           <= Spent(m) + Cardinality(Others(ThreadOf[m]))
                + (log'[m].released - log[m].released) + (Mishaps' - Mishaps),
         Works(ThreadOf[m]) /\ ~Works(ThreadOf[m])' =>
           Spent(m)' + 1 <= Spent(m) + Cardinality(Others(ThreadOf[m]))
                + (log'[m].released - log[m].released) + (Mishaps' - Mishaps)
  PROVE  Charged(m)' \/ Lent(m)'
<1> DEFINE t == ThreadOf[m]
<1>1. /\ Mishaps \in Nat /\ Mishaps' \in Nat
      /\ log[m].released \in Nat /\ log'[m].released \in Nat
      /\ log[m].answered \in Nat /\ log'[m].answered \in Nat
  BY MishapsType, MishapsTypeNext, LogTypes DEF Typed, TypeOK
<1>2. /\ Cardinality(Others(t)) \in Nat /\ Cardinality(Others(t)') \in Nat
      /\ Cardinality(Strays(t)) \in Nat /\ Cardinality(Strays(t)') \in Nat
      /\ Cardinality(Ops(t)) \in Nat /\ Cardinality(Ops(t)') \in Nat
      /\ Cardinality(Undrafted(t)) \in Nat /\ Cardinality(Undrafted(t)') \in Nat
      /\ Cardinality(Direct(m)) \in Nat /\ Cardinality(Direct(m)') \in Nat
  BY BudgetTypes, BudgetTypesNext, DirectTypes
<1>3. Spent(m) \in Nat /\ Spent(m)' \in Nat
  BY <1>1, <1>2 DEF Spent
<1>4. Of(t) # {} => Cardinality(Strays(t)') <= Cardinality(Strays(t))
  BY BudgetTypes, FS_Subset
<1>5. CASE Charged(m)
  BY <1>1, <1>2, <1>3, <1>4, <1>5 DEF Charged
<1>6. CASE Lent(m)
  <2>1. Strays(t)' = {} /\ Cardinality(Strays(t)') = 0
    BY <1>6, FS_EmptySet DEF Lent
  <2>2. CASE Works(t)'
    BY <1>1, <1>2, <1>3, <1>6, <2>1, <2>2 DEF Lent
  <2>3. CASE ~Works(t)'
    BY <1>1, <1>2, <1>3, <1>6, <2>1, <2>3 DEF Lent, Charged
  <2> QED BY <2>2, <2>3
<1> QED BY <1>5, <1>6

\* Outside of an approval a step spends what it releases.
LEMMA BudgetPlain ==
  ASSUME Typed, Typed', BudgetInv, NEW w \in Workers, Only(w), Settled,
         Remembers(w), rewrites \subseteq rewrites', Mishaps' >= Mishaps,
         req[w].pc \notin {"click", "flip", "send", "record"},
         req'[w].pc \notin {"click", "flip", "send", "record"},
         \A t : Mine(w, t)' => Mine(w, t),
         \A t : Of(t) # {} /\ w \in Strays(t)' => w \in Strays(t),
         \A m \in Messages \ rewrites :
           \/ /\ log'[m].answered = log[m].answered
              /\ log'[m].released = log[m].released
              /\ w \in Direct(m)' => w \in Direct(m)
           \/ /\ log'[m].answered = log[m].answered
              /\ log'[m].released = log[m].released + 1
           \/ /\ log'[m].answered = log[m].answered + 1
              /\ log'[m].released = log[m].released
              /\ w \in Direct(m) /\ w \notin Direct(m)'
  PROVE  BudgetInv'
<1> SUFFICES ASSUME NEW m \in Messages \ rewrites PROVE Charged(m)' \/ Lent(m)'
  BY DEF BudgetInv
<1> DEFINE t == ThreadOf[m]
<1>1. Charged(m) \/ Lent(m)
  BY DEF BudgetInv
<1>2. /\ Mishaps \in Nat /\ Mishaps' \in Nat
      /\ log[m].released \in Nat /\ log[m].answered \in Nat
  BY MishapsType, MishapsTypeNext, LogTypes
<1>3. Of(t)' = Of(t)
  BY BudgetMoved
<1>4. Cardinality(Ops(t)') = Cardinality(Ops(t))
  <2>1. w \notin Ops(t) /\ w \notin Ops(t)'
    BY DEF Ops
  <2> QED BY <2>1, BudgetMoved, BudgetTypes, Moved
<1>5. Cardinality(Undrafted(t)') <= Cardinality(Undrafted(t))
  BY UndraftedShrinks
<1>6. /\ Cardinality(Others(t)') <= Cardinality(Others(t))
      /\ Mine(w, t) /\ ~Mine(w, t)' =>
           Cardinality(Others(t)') + 1 = Cardinality(Others(t))
  <2>1. (w \in Others(t) <=> Mine(w, t)) /\ (w \in Others(t)' <=> Mine(w, t)')
    BY DEF Others
  <2>2. w \in Others(t)' => w \in Others(t)
    BY <2>1
  <2> QED BY <2>1, <2>2, BudgetMoved, BudgetTypes, BudgetTypesNext, Moved
<1>7. /\ Cardinality(Direct(m)') <= Cardinality(Direct(m)) + 1
      /\ (w \in Direct(m)' => w \in Direct(m)) =>
           Cardinality(Direct(m)') <= Cardinality(Direct(m))
      /\ w \in Direct(m) /\ w \notin Direct(m)' =>
           Cardinality(Direct(m)') + 1 = Cardinality(Direct(m))
  <2>1. Direct(m) \ {w} = Direct(m)' \ {w}
    BY BudgetMoved
  <2> QED BY <2>1, DirectTypes, Moved
<1>8. /\ Cardinality(Others(t)) \in Nat /\ Cardinality(Others(t)') \in Nat
      /\ Cardinality(Ops(t)) \in Nat
      /\ Cardinality(Undrafted(t)) \in Nat /\ Cardinality(Undrafted(t)') \in Nat
      /\ Cardinality(Direct(m)) \in Nat /\ Cardinality(Direct(m)') \in Nat
  BY BudgetTypes, BudgetTypesNext, DirectTypes
<1>9. /\ log'[m].released >= log[m].released
      /\ Spent(m)' <= Spent(m) + (log'[m].released - log[m].released)
      /\ Spent(m) \in Nat /\ Spent(m)' \in Nat /\ log'[m].released \in Nat
  <2>1. /\ log'[m].released \in Nat /\ log'[m].answered \in Nat
        /\ log'[m].released >= log[m].released
        /\ log'[m].answered + Cardinality(Direct(m)') + log[m].released
             <= log[m].answered + Cardinality(Direct(m)) + log'[m].released
    BY <1>2, <1>7, <1>8
  <2> QED BY <1>2, <1>4, <1>5, <1>8, <2>1 DEF Spent
<1>10. Of(t) # {} => Strays(t)' \in SUBSET Strays(t)
  BY BudgetMoved
<1>11. Works(t) /\ ~Works(t)' =>
         Spent(m)' + 1 <= Spent(m) + Cardinality(Others(t))
                            + (log'[m].released - log[m].released)
  <2>1. Works(t) /\ ~Works(t)' => Mine(w, t) /\ ~Mine(w, t)'
    BY BudgetMoved
  <2> QED BY <1>2, <1>6, <1>8, <1>9, <2>1
<1> HIDE DEF t
<1>12. /\ Spent(m)' <= Spent(m) + (log'[m].released - log[m].released)
                          + (Mishaps' - Mishaps)
       /\ Spent(m)' + Cardinality(Others(t)')
            <= Spent(m) + Cardinality(Others(t))
                 + (log'[m].released - log[m].released) + (Mishaps' - Mishaps)
       /\ Works(t) /\ ~Works(t)' =>
            Spent(m)' + 1 <= Spent(m) + Cardinality(Others(t))
                 + (log'[m].released - log[m].released) + (Mishaps' - Mishaps)
  BY <1>2, <1>6, <1>8, <1>9, <1>11
<1> QED BY <1>1, <1>3, <1>9, <1>10, <1>12, BudgetArith DEF t

LEMMA RemembersWrites ==
  ASSUME NEW w \in Workers, NEW c \in Convs, Writes(c), req[w].conv = c,
         ~rows'[c].cls.drafted => ~rows[c].cls.drafted \/ ~req[w].copy.cls.drafted,
         \/ req'[w].conv = None
         \/ req'[w].conv = c /\ req'[w].copy \in {req[w].copy, rows[c], rows'[c]}
  PROVE  Remembers(w)
<1> SUFFICES ASSUME NEW d \in Convs
    PROVE /\ ~rows'[d].cls.drafted => ~rows[d].cls.drafted \/ Holds(w, d)
          /\ Holds(w, d)' => ~rows[d].cls.drafted \/ ~rows'[d].cls.drafted \/ Holds(w, d)
  BY DEF Remembers
<1>1. d # c => rows'[d] = rows[d]
  BY DEF Writes
<1>2. CASE d = c
  BY <1>2, ENAssumption DEF Holds
<1>3. CASE d # c
  BY <1>1, <1>3, ENAssumption DEF Holds
<1> QED BY <1>2, <1>3

LEMMA RemembersSame ==
  ASSUME NEW w \in Workers, rows' = rows,
         \/ req'[w].conv = None
         \/ req'[w].conv = req[w].conv /\ req'[w].copy = req[w].copy
         \/ req'[w].conv \in Convs /\ req'[w].copy = rows[req'[w].conv]
  PROVE  Remembers(w)
BY ENAssumption DEF Remembers, Holds

LEMMA IdleLeaves ==
  ASSUME NEW w \in Workers, NEW t, req'[w] = Idle
  PROVE  ~Mine(w, t)' /\ w \notin Strays(t)' /\ \A m \in Messages : w \notin Direct(m)'
BY ENAssumption DEF Mine, Idle, Of, Strays, Direct

\* A worker that ends without writing.
LEMMA BudgetEnds ==
  ASSUME Typed, Typed', BudgetInv, NEW w \in Workers, Only(w), rows' = rows,
         hist' = hist, Mishaps' >= Mishaps, req'[w] = Idle,
         req[w].pc \notin {"click", "flip", "send", "record"}
  PROVE  BudgetInv'
<1>1. Settled /\ Remembers(w)
  BY SettledSame, RemembersSame DEF Idle
<1>2. /\ \A t : Mine(w, t)' => Mine(w, t)
      /\ \A t : w \in Strays(t)' => w \in Strays(t)
      /\ \A m \in Messages : w \in Direct(m)' => w \in Direct(m)
  BY IdleLeaves
<1>3. req'[w].pc \notin {"click", "flip", "send", "record"}
  BY DEF Idle
<1> QED BY <1>1, <1>2, <1>3, BudgetPlain DEF hist

LEMMA BudgetTask ==
  ASSUME Typed, Typed', Belongs, BudgetInv, NEW w \in Workers, Task(w),
         ~(Turn(w) /\ req[w].conv = None)
  PROVE  BudgetInv'
<1>0. Mishaps \in Nat /\ WorkerOK(w)
  BY MishapsType DEF Belongs
<1>1. CASE CheckMark(w)
  <2>1. /\ Only(w) /\ rows' = rows /\ hist' = hist /\ Mishaps' >= Mishaps
        /\ req[w].pc = "check" /\ req[w].conv = None
    BY <1>0, <1>1, CheckMarkDoes
  <2>2. CASE req'[w] = Idle
    BY <2>1, <2>2, BudgetEnds
  <2>3. CASE req'[w] # Idle
    <3>1. req'[w].pc = "add" /\ req'[w].msg = req[w].msg /\ req'[w].conv = None
      BY <1>1, <2>1, <2>3, CheckMarkDoes DEF Keeps
    <3>2. Settled /\ Remembers(w)
      BY <2>1, <3>1, SettledSame, RemembersSame
    <3>3. /\ \A t : Mine(w, t)' => Mine(w, t)
          /\ \A t : w \notin Strays(t)'
          /\ \A m \in Messages : w \notin Direct(m)'
      BY <2>1, <3>1, ENAssumption DEF Mine, Of, Strays, Direct
    <3> QED BY <2>1, <3>1, <3>2, <3>3, BudgetPlain DEF hist
  <2> QED BY <2>2, <2>3
<1>2. CASE AddMark(w)
  <2>1. /\ Only(w) /\ rows' = rows /\ rewrites' = rewrites /\ Mishaps' >= Mishaps
        /\ req[w].pc = "add" /\ req[w].conv = None /\ Note(req[w].msg, "taken")
        /\ req'[w].pc = "evict" /\ req'[w].msg = req[w].msg /\ req'[w].conv = None
    BY <1>0, <1>2, AddMarkDoes DEF Calm, Keeps
  <2>2. Settled /\ Remembers(w)
    BY <2>1, SettledSame, RemembersSame
  <2>3. /\ \A t : Mine(w, t)' => Mine(w, t)
        /\ \A t : w \notin Strays(t)'
        /\ \A m \in Messages : w \notin Direct(m)'
    BY <2>1, ENAssumption DEF Mine, Of, Strays, Direct
  <2>4. \A m \in Messages : /\ log'[m].answered = log[m].answered
                            /\ log'[m].released = log[m].released
    BY <2>1, NoteSame
  <2> QED BY <2>1, <2>2, <2>3, <2>4, BudgetPlain
<1>3. CASE Evict(w)
  <2>1. /\ Only(w) /\ rows' = rows /\ hist' = hist /\ req[w].pc = "evict"
        /\ Mishaps' = Mishaps \/ Mishaps' = Mishaps + 1
        /\ req[w].conv = None /\ req'[w].pc \in {"evict", "triage"}
        /\ req'[w].msg = req[w].msg /\ req'[w].conv = None
    BY <1>3, EvictDoes DEF Calm, Keeps
  <2>2. Mishaps' >= Mishaps
    BY <1>0, <2>1
  <2>3. Settled /\ Remembers(w)
    BY <2>1, SettledSame, RemembersSame
  <2>4. /\ \A t : Mine(w, t)' => Mine(w, t)
        /\ \A t : w \notin Strays(t)'
        /\ \A m \in Messages : w \notin Direct(m)'
    BY <2>1, ENAssumption DEF Mine, Of, Strays, Direct
  <2> QED BY <2>1, <2>2, <2>3, <2>4, BudgetPlain DEF hist
<1>4. CASE Ignore(w)
  <2>1. /\ Only(w) /\ rows' = rows /\ hist' = hist /\ Mishaps' >= Mishaps
        /\ req[w].pc = "triage" /\ req'[w] = Idle
    BY <1>0, <1>4, IgnoreDoes DEF Calm
  <2> QED BY <2>1, BudgetEnds
<1>5. CASE Triage(w)
  <2>1. /\ Only(w) /\ rows' = rows /\ hist' = hist /\ Mishaps' >= Mishaps
        /\ req[w].pc = "triage" /\ req[w].msg \in Messages
        /\ req'[w].pc = "verdict" /\ req'[w].msg = req[w].msg
        /\ \/ Of(ThreadOf[req[w].msg]) = {} /\ req'[w].conv = None
           \/ /\ req'[w].conv \in Of(ThreadOf[req[w].msg])
              /\ req'[w].copy = rows[req'[w].conv]
    BY <1>0, <1>5, TriageDoes DEF Calm
  <2>2. Settled
    BY <2>1, SettledSame
  <2>3. Remembers(w)
    BY <2>1, RemembersSame DEF Of
  <2>4. \A t : Mine(w, t)' => Mine(w, t)
    <3> TAKE t
    <3>1. CASE req'[w].conv = None
      BY <2>1, <3>1, ENAssumption DEF Mine, Of
    <3>2. CASE req'[w].conv # None
      BY <2>1, <3>2 DEF Mine, Of
    <3> QED BY <3>1, <3>2
  <2>5. \A t : Of(t) # {} => w \notin Strays(t)'
    <3> TAKE t
    <3>1. CASE req'[w].conv = None
      BY <2>1, <3>1, ENAssumption DEF Strays, Of
    <3>2. CASE req'[w].conv # None
      BY <3>2 DEF Strays
    <3> QED BY <3>1, <3>2
  <2>6. \A m \in Messages : w \notin Direct(m)'
    BY <2>1 DEF Direct
  <2> QED BY <2>1, <2>2, <2>3, <2>4, <2>5, <2>6, BudgetPlain DEF hist
<1>6. CASE Verdict(w)
  <2>1. /\ Only(w) /\ rows' = rows /\ rewrites' = rewrites /\ Mishaps' >= Mishaps
        /\ req[w].pc = "verdict" /\ req[w].msg \in Messages
        /\ \/ req'[w] = Idle /\ UNCHANGED hist
           \/ /\ req'[w].pc = "turn" /\ req'[w].msg = req[w].msg
              /\ req'[w].conv = req[w].conv /\ req'[w].copy = req[w].copy
              /\ \/ req'[w].gate /\ UNCHANGED hist
                 \/ ~req'[w].gate /\ Note(req[w].msg, "released")
    BY <1>0, <1>6, VerdictDoes DEF Calm
  <2>2. CASE req'[w] = Idle
    <3>1. req'[w].pc # "turn"
      BY <2>2 DEF Idle
    <3>2. hist' = hist
      BY <2>1, <3>1
    <3> QED BY <2>1, <2>2, <3>2, BudgetEnds
  <2>3. CASE req'[w] # Idle
    <3>1. Settled /\ Remembers(w)
      BY <2>1, <2>3, SettledSame, RemembersSame
    <3>2. /\ \A t : Mine(w, t)' => Mine(w, t)
          /\ \A t : w \in Strays(t)' => w \in Strays(t)
      BY <2>1, <2>3 DEF Mine, Of, Strays
    <3>3. \A m \in Messages :
            \/ /\ log'[m].answered = log[m].answered
               /\ log'[m].released = log[m].released
               /\ w \notin Direct(m)'
            \/ /\ log'[m].answered = log[m].answered
               /\ log'[m].released = log[m].released + 1
      <4> TAKE m \in Messages
      <4>1. CASE req'[w].gate /\ UNCHANGED hist
        BY <2>1, <2>3, <4>1 DEF Direct, hist
      <4>2. CASE Note(req[w].msg, "released")
        <5>1. CASE m = req[w].msg
          BY <4>2, <5>1, NoteOne, NoteSame
        <5>2. CASE m # req[w].msg
          <6>1. log'[m] = log[m]
            BY <4>2, <5>2, NoteOne
          <6> QED BY <2>1, <2>3, <5>2, <6>1 DEF Direct
        <5> QED BY <5>1, <5>2
      <4> QED BY <2>1, <2>3, <4>1, <4>2
    <3>4. req'[w].pc = "turn"
      BY <2>1, <2>3
    <3> QED BY <2>1, <3>1, <3>2, <3>3, <3>4, BudgetPlain
  <2> QED BY <2>2, <2>3
<1>7. CASE Turn(w)
  <2>1. /\ Only(w) /\ hist' = hist /\ Mishaps' >= Mishaps /\ req[w].conv \in Convs
        /\ req[w].pc = "turn" /\ req[w].msg \in Messages /\ req[w].conv # None
    <3>1. Only(w) /\ hist' = hist /\ Calm /\ req[w].pc = "turn" /\ req[w].msg \in Messages
      BY <1>7, TurnDoes
    <3>2. Mishaps' >= Mishaps
      BY <1>0, <3>1 DEF Calm
    <3>3. req[w].conv # None /\ req[w].conv \in Convs
      BY <1>7 DEF Typed, TypeOK, Request
    <3> QED BY <3>1, <3>2, <3>3
  <2> DEFINE c == req[w].conv
  <2>2. /\ Writes(c) /\ rows'[c].cls = rows[c].cls
        /\ \/ req'[w] = Idle
           \/ /\ req'[w].pc = (IF req[w].gate THEN "park" ELSE "post")
              /\ req'[w].msg = req[w].msg /\ req'[w].conv = c
              /\ req'[w].copy = rows'[c]
    BY <1>7, <2>1, TurnDoes DEF Writes
  <2>3. Settled
    BY <2>1, <2>2, SettledWrites
  <2>4. Remembers(w)
    <3>1. \/ req'[w].conv = None
          \/ req'[w].conv = c /\ req'[w].copy = rows'[c]
      BY <2>2 DEF Idle
    <3> HIDE DEF c
    <3>2. c \in Convs /\ c = req[w].conv
      BY <2>1 DEF c
    <3> QED BY <2>2, <3>1, <3>2, RemembersWrites
  <2>5. /\ \A t : Mine(w, t)' => Mine(w, t)
        /\ \A t : w \notin Strays(t)'
        /\ \A m \in Messages : w \in Direct(m)' => w \in Direct(m)
    <3>1. CASE req'[w] = Idle
      BY <3>1, IdleLeaves
    <3>2. CASE req'[w] # Idle
      <4>1. \A t : Of(t)' = Of(t)
        BY <2>3 DEF Of, Settled
      <4>2. \A t : Mine(w, t)' => Mine(w, t)
        BY <2>2, <3>2, <4>1 DEF Mine
      <4> QED BY <2>1, <2>2, <3>2, <4>2 DEF Strays, Direct
    <3> QED BY <3>1, <3>2
  <2>6. req'[w].pc \notin {"click", "flip", "send", "record"}
    BY <2>2 DEF Idle
  <2> HIDE DEF c
  <2> QED BY <2>1, <2>3, <2>4, <2>5, <2>6, BudgetPlain DEF hist
<1>8. CASE Park(w)
  <2> DEFINE c == req[w].conv
  <2>1. /\ Only(w) /\ log' = log /\ Mishaps' >= Mishaps /\ req[w].pc = "park"
        /\ c \in Convs /\ Writes(c) /\ rewrites \subseteq rewrites'
        /\ rows'[c].cls.drafted \in {req[w].copy.cls.drafted, rows[c].cls.drafted}
        /\ req'[w].pc = "notice" /\ Keeps(w)
    BY <1>0, <1>8, ParkDoes DEF Calm
  <2>2. Settled
    BY <2>1, SettledWrites
  <2>3. Remembers(w)
    <3>1. c = req[w].conv /\ req'[w].conv = c /\ req'[w].copy = req[w].copy
      BY <2>1 DEF Keeps
    <3> HIDE DEF c
    <3> QED BY <2>1, <3>1, RemembersWrites
  <2>4. /\ \A t : Mine(w, t)' => Mine(w, t)
        /\ \A t : w \notin Strays(t)'
        /\ \A m \in Messages : w \notin Direct(m)'
    <3>1. \A t : Of(t)' = Of(t)
      BY <2>2 DEF Of, Settled
    <3> QED BY <2>1, <3>1 DEF Mine, Strays, Direct, Keeps
  <2> HIDE DEF c
  <2> QED BY <2>1, <2>2, <2>3, <2>4, BudgetPlain
<1>9. CASE Notice(w)
  <2>1. /\ Only(w) /\ rows' = rows /\ hist' = hist /\ Mishaps' >= Mishaps
        /\ req[w].pc = "notice" /\ req[w].conv \in Convs
    BY <1>0, <1>9, NoticeDoes DEF Calm
  <2>2. CASE req'[w] = Idle
    BY <2>1, <2>2, BudgetEnds
  <2>3. CASE req'[w] # Idle
    <3>1. /\ req'[w].pc = "mailed" /\ req'[w].msg = req[w].msg
          /\ req'[w].conv = req[w].conv /\ req'[w].copy = rows[req[w].conv]
      BY <1>9, <2>3, NoticeDoes
    <3>2. Settled /\ Remembers(w)
      BY <2>1, <3>1, SettledSame, RemembersSame
    <3>3. /\ \A t : Mine(w, t)' => Mine(w, t)
          /\ \A t : w \notin Strays(t)'
          /\ \A m \in Messages : w \notin Direct(m)'
      BY <2>1, <3>1 DEF Mine, Of, Strays, Direct
    <3> QED BY <2>1, <3>1, <3>2, <3>3, BudgetPlain DEF hist
  <2> QED BY <2>2, <2>3
<1>10. CASE NoticeSent(w)
  <2> DEFINE c == req[w].conv
  <2>1. /\ Only(w) /\ hist' = hist /\ Mishaps' >= Mishaps /\ req[w].pc = "mailed"
        /\ c \in Convs /\ Writes(c) /\ rows'[c].cls.drafted = req[w].copy.cls.drafted
        /\ req'[w] = Idle
    BY <1>0, <1>10, NoticeSentDoes DEF Calm, Like
  <2>2. Settled
    BY <2>1, SettledWrites
  <2>3. Remembers(w)
    <3>1. c = req[w].conv /\ req'[w].conv = None
      BY <2>1 DEF Idle
    <3> HIDE DEF c
    <3> QED BY <2>1, <3>1, RemembersWrites
  <2>4. /\ \A t : Mine(w, t)' => Mine(w, t)
        /\ \A t : w \in Strays(t)' => w \in Strays(t)
        /\ \A m \in Messages : w \in Direct(m)' => w \in Direct(m)
        /\ req'[w].pc \notin {"click", "flip", "send", "record"}
    <3>1. req'[w] = Idle
      BY <2>1
    <3>2. req'[w].pc = "idle"
      BY <3>1 DEF Idle
    <3> QED BY <3>1, <3>2, IdleLeaves
  <2> HIDE DEF c
  <2> QED BY <2>1, <2>2, <2>3, <2>4, BudgetPlain DEF hist
<1>11. CASE Post(w)
  <2>1. /\ Only(w) /\ rows' = rows /\ rewrites' = rewrites /\ Mishaps' >= Mishaps
        /\ req[w].pc = "post" /\ req'[w] = Idle
        /\ Note(req[w].msg, "answered") \/ UNCHANGED hist
    BY <1>0, <1>11, PostDoes DEF Calm
  <2>2. Settled /\ Remembers(w)
    BY <2>1, SettledSame, RemembersSame DEF Idle
  <2>3. /\ \A t : Mine(w, t)' => Mine(w, t)
        /\ \A t : w \in Strays(t)' => w \in Strays(t)
        /\ \A m \in Messages : w \notin Direct(m)'
        /\ req'[w].pc \notin {"click", "flip", "send", "record"}
    <3>1. req'[w] = Idle
      BY <2>1
    <3>2. req'[w].pc = "idle"
      BY <3>1 DEF Idle
    <3> QED BY <3>1, <3>2, IdleLeaves
  <2>4. \A m \in Messages :
          \/ /\ log'[m].answered = log[m].answered
             /\ log'[m].released = log[m].released
          \/ /\ log'[m].answered = log[m].answered + 1
             /\ log'[m].released = log[m].released
             /\ w \in Direct(m)
    <3> TAKE m \in Messages
    <3>1. CASE UNCHANGED hist
      BY <3>1 DEF hist
    <3>2. CASE Note(req[w].msg, "answered")
      <4>1. CASE m = req[w].msg
        <5>1. w \in Direct(m)
          BY <2>1, <4>1 DEF Direct
        <5> QED BY <3>2, <4>1, <5>1, NoteOne, NoteSame
      <4>2. CASE m # req[w].msg
        BY <3>2, <4>2, NoteOne
      <4> QED BY <4>1, <4>2
    <3> QED BY <2>1, <3>1, <3>2
  <2> QED BY <2>1, <2>2, <2>3, <2>4, BudgetPlain
<1> QED BY <1>1, <1>2, <1>3, <1>4, <1>5, <1>6, <1>7, <1>8, <1>9, <1>10, <1>11
        DEF Task

\* A task that saw no row for its thread adds one: it pays with its own place
\* among the strays.
LEMMA BudgetNewRow ==
  ASSUME Typed, Typed', Belongs, BudgetInv, NEW w \in Workers, Turn(w),
         req[w].conv = None
  PROVE  BudgetInv'
<1> DEFINE m0 == req[w].msg
           s == ThreadOf[m0]
<1>1. /\ Only(w) /\ hist' = hist /\ Calm /\ req[w].pc = "turn" /\ m0 \in Messages
      /\ s \in Threads /\ s # None
  BY TurnDoes, ENAssumption
<1>2. PICK c \in Convs :
        /\ rows[c] = NoRow
        /\ \A d \in Convs \ {c} : rows'[d] = rows[d]
        /\ rows'[c].thread = s /\ rows'[c].cls = rows[c].cls
        /\ \/ req'[w] = Idle
           \/ /\ req'[w].pc = (IF req[w].gate THEN "park" ELSE "post")
              /\ req'[w].msg = m0 /\ req'[w].conv = c /\ req'[w].copy = rows'[c]
  BY TurnDoes
<1>3. rows[c].thread = None
  BY <1>2 DEF NoRow
<1>4. \A v \in Workers : req[v].conv # c
  <2> SUFFICES ASSUME NEW v \in Workers, req[v].conv = c PROVE FALSE
    OBVIOUS
  <2>1. WorkerOK(v) /\ c # None
    BY ENAssumption DEF Belongs
  <2> QED BY <1>3, <2>1 DEF WorkerOK
<1>5. /\ req'[w].pc \in {"idle", "park", "post"}
      /\ req'[w].msg \in {m0, None} /\ req'[w].conv \in {c, None}
      /\ req'[w].pc = "post" => ~req[w].gate
      /\ req'[w].conv = None => req'[w] = Idle
  BY <1>2, ENAssumption DEF Idle
<1>6. /\ \A t \in Threads : t # s => Of(t)' = Of(t)
      /\ \A t \in Threads : t = s => Of(t)' = Of(t) \cup {c}
      /\ \A t : None \notin Of(t) /\ (t # None => c \notin Of(t))
  <2>1. ASSUME NEW t \in Threads PROVE t # s => Of(t)' = Of(t)
    BY <1>2, <1>3, ENAssumption DEF Of
  <2>2. ASSUME NEW t \in Threads PROVE t = s => Of(t)' = Of(t) \cup {c}
    BY <1>2 DEF Of
  <2>3. \A t : None \notin Of(t) /\ (t # None => c \notin Of(t))
    BY <1>3, ENAssumption DEF Of
  <2> QED BY <2>1, <2>2, <2>3
<1>7. \A v \in Workers \ {w} : req'[v] = req[v]
  BY <1>1 DEF Only
<1>8. Mishaps' = Mishaps /\ log' = log /\ rewrites' = rewrites
  BY <1>1 DEF Calm, hist
<1> HIDE DEF m0
<1> SUFFICES ASSUME NEW m \in Messages \ rewrites PROVE Charged(m)' \/ Lent(m)'
  BY <1>8 DEF BudgetInv
<1> DEFINE t == ThreadOf[m]
<1>9. t \in Threads /\ t # None /\ (Charged(m) \/ Lent(m))
  BY ENAssumption DEF BudgetInv
<1>10. \A v \in Workers \ {w} : Mine(v, t)' <=> Mine(v, t)
  BY <1>4, <1>6, <1>7, <1>9 DEF Mine
<1>11. w \notin Ops(t) /\ w \notin Ops(t)' /\ w \notin Strays(t)'
  BY <1>1, <1>5 DEF Ops, Strays
<1>12. Ops(t)' = Ops(t)
  BY <1>7, <1>10, <1>11 DEF Ops
<1>13. Strays(t) \ {w} = Strays(t)' \ {w} /\ Direct(m) \ {w} = Direct(m)' \ {w}
  BY <1>7 DEF Strays, Direct
<1>14. w \in Direct(m)' => w \in Direct(m)
  BY <1>1, <1>5, ENAssumption DEF Direct, m0
<1>15. Cardinality(Direct(m)') <= Cardinality(Direct(m))
  BY <1>13, <1>14, DirectTypes, Moved
<1>16. Undrafted(t)' \in SUBSET (Undrafted(t) \cup {c})
  <2> SUFFICES ASSUME NEW d \in Undrafted(t)', d # c PROVE d \in Undrafted(t)
    OBVIOUS
  <2>1. d \in Of(t)' /\ d \in Convs
    BY DEF Undrafted, Of
  <2>2. d \in Of(t) /\ rows'[d] = rows[d]
    BY <1>2, <1>6, <1>9, <2>1
  <2>3. \A v \in Workers : Holds(v, d)' => Holds(v, d)
    BY <1>5, <1>7, <2>1, ENAssumption DEF Holds
  <2> QED BY <2>2, <2>3 DEF Undrafted
<1>17. /\ Cardinality(Others(t)) \in Nat /\ Cardinality(Others(t)') \in Nat
       /\ Cardinality(Strays(t)) \in Nat /\ Cardinality(Strays(t)') \in Nat
       /\ Cardinality(Ops(t)) \in Nat
       /\ Cardinality(Undrafted(t)) \in Nat /\ Cardinality(Undrafted(t)') \in Nat
       /\ Cardinality(Direct(m)) \in Nat /\ Cardinality(Direct(m)') \in Nat
       /\ Mishaps \in Nat /\ log[m].released \in Nat /\ log[m].answered \in Nat
  BY BudgetTypes, BudgetTypesNext, DirectTypes, MishapsType, LogTypes
<1>18. CASE t = s
  <2>1. w \in Strays(t) /\ w \in Others(t)
    BY <1>1, <1>18 DEF Strays, Others, Mine, m0
  <2>2. Charged(m)
    BY <1>9, <2>1 DEF Lent
  <2>3. Cardinality(Undrafted(t)') <= Cardinality(Undrafted(t)) + 1
    <3>1. IsFiniteSet(Undrafted(t)) /\ IsFiniteSet(Undrafted(t) \cup {c})
      BY BudgetTypes, FS_AddElement
    <3>2. Cardinality(Undrafted(t) \cup {c}) \in {Cardinality(Undrafted(t)), Cardinality(Undrafted(t)) + 1}
      BY <3>1, FS_AddElement
    <3>3. Cardinality(Undrafted(t)') <= Cardinality(Undrafted(t) \cup {c})
      BY <1>16, <3>1, FS_Subset
    <3> QED BY <1>17, <3>2, <3>3
  <2>4. Cardinality(Strays(t)') + 1 = Cardinality(Strays(t))
    BY <1>11, <1>13, <2>1, BudgetTypes, Moved
  <2>5. Cardinality(Strays(t)) <= Cardinality(Others(t))
    <3>1. Strays(t) \in SUBSET Others(t)
      BY DEF Strays, Others, Mine
    <3> QED BY <3>1, BudgetTypes, FS_Subset
  <2>6. Spent(m)' <= Spent(m) + 1 /\ Spent(m) \in Nat /\ Spent(m)' \in Nat
    BY <1>8, <1>12, <1>15, <1>17, <2>3 DEF Spent
  <2>7. Of(t)' # {}
    BY <1>6, <1>9, <1>18
  <2>8. Spent(m)' + Cardinality(Strays(t)') <= Mishaps + 1 + log[m].released
    BY <1>17, <2>2, <2>4, <2>5, <2>6 DEF Charged
  <2> QED BY <1>8, <2>7, <2>8 DEF Charged
<1>19. CASE t # s
  <2>1. Of(t)' = Of(t) /\ c \notin Undrafted(t)'
    BY <1>6, <1>9, <1>19 DEF Undrafted
  <2>2. ~Mine(w, t) /\ ~Mine(w, t)'
    <3>1. req[w].msg \notin {n \in Messages : ThreadOf[n] = t}
      BY <1>19 DEF m0
    <3>2. req'[w].msg \notin {n \in Messages : ThreadOf[n] = t}
      BY <1>5, <1>19, ENAssumption
    <3> QED BY <1>5, <1>6, <1>9, <2>1, <3>1, <3>2 DEF Mine
  <2>3. /\ Others(t)' = Others(t)
        /\ Works(t)' = Works(t)
    <3>1. Others(t)' = Others(t)
      BY <1>7, <1>10, <2>2 DEF Others
    <3>2. (Works(t) <=> \E v \in Workers : Mine(v, t)) /\ (Works(t)' <=> \E v \in Workers : Mine(v, t)')
      BY DEF Works, Mine
    <3>3. Works(t)' <=> Works(t)
      BY <1>10, <2>2, <3>2
    <3> QED BY <3>1, <3>3 DEF Works
  <2>4. Strays(t)' = Strays(t)
    BY <1>11, <1>13, <1>19 DEF Strays, m0
  <2>5. Cardinality(Undrafted(t)') <= Cardinality(Undrafted(t))
    <3>1. Undrafted(t)' \in SUBSET Undrafted(t)
      BY <1>16, <2>1
    <3> QED BY <3>1, BudgetTypes, FS_Subset
  <2>6. Spent(m)' <= Spent(m) /\ Spent(m) \in Nat /\ Spent(m)' \in Nat
    BY <1>8, <1>12, <1>15, <1>17, <2>5 DEF Spent
  <2>7. CASE Charged(m)
    BY <1>8, <1>17, <2>1, <2>3, <2>4, <2>6, <2>7 DEF Charged
  <2>8. CASE Lent(m)
    BY <1>8, <1>17, <2>1, <2>3, <2>4, <2>6, <2>8 DEF Lent
  <2> QED BY <1>9, <2>7, <2>8
<1> QED BY <1>18, <1>19

\* A step of an approval: what it answers, or hands over to a reply that is
\* written anew, it gives up itself.
LEMMA BudgetApproval ==
  ASSUME Typed, Typed', BudgetInv, NEW w \in Workers, Only(w), Settled,
         Remembers(w), rewrites' = rewrites, Mishaps' >= Mishaps,
         req[w].pc \in {"click", "flip", "send", "record"},
         req'[w].pc \in {"flip", "send", "record", "replay", "idle"},
         \A m \in Messages \ rewrites :
           /\ log'[m].released = log[m].released
           /\ w \in Ops(ThreadOf[m])' => w \in Ops(ThreadOf[m])
           /\ \/ /\ log'[m].answered = log[m].answered
                 /\ w \in Others(ThreadOf[m])' => w \in Ops(ThreadOf[m])
              \/ /\ log'[m].answered = log[m].answered + 1
                 /\ w \in Ops(ThreadOf[m]) /\ req'[w].pc = "record"
           /\ Works(ThreadOf[m]) /\ ~Works(ThreadOf[m])' =>
                \/ /\ w \in Ops(ThreadOf[m]) /\ w \notin Ops(ThreadOf[m])'
                   /\ log'[m].answered = log[m].answered
                \/ Mishaps' >= Mishaps + 1
                \/ Undrafted(ThreadOf[m])' # Undrafted(ThreadOf[m])
  PROVE  BudgetInv'
<1> SUFFICES ASSUME NEW m \in Messages \ rewrites PROVE Charged(m)' \/ Lent(m)'
  BY DEF BudgetInv
<1> DEFINE t == ThreadOf[m]
<1>1. Charged(m) \/ Lent(m)
  BY DEF BudgetInv
<1>2. /\ Mishaps \in Nat /\ Mishaps' \in Nat
      /\ log[m].released \in Nat /\ log[m].answered \in Nat
  BY MishapsType, MishapsTypeNext, LogTypes
<1>3. Of(t)' = Of(t)
  BY BudgetMoved
<1>4. w \notin Direct(m) /\ w \notin Direct(m)'
  BY DEF Direct
<1>5. Cardinality(Direct(m)') = Cardinality(Direct(m))
  <2>1. Direct(m) \ {w} = Direct(m)' \ {w}
    BY BudgetMoved
  <2> QED BY <1>4, <2>1, DirectTypes, Moved
<1>6. w \notin Others(t) /\ w \notin Strays(t) /\ w \notin Strays(t)'
  BY DEF Others, Strays
<1>7. /\ w \notin Others(t)' => Cardinality(Others(t)') = Cardinality(Others(t))
      /\ Cardinality(Others(t)') <= Cardinality(Others(t)) + 1
  <2>1. Others(t) \ {w} = Others(t)' \ {w}
    BY BudgetMoved
  <2> QED BY <1>6, <2>1, BudgetTypes, BudgetTypesNext, Moved
<1>8. /\ w \in Ops(t) /\ w \notin Ops(t)' =>
           Cardinality(Ops(t)') + 1 = Cardinality(Ops(t))
      /\ Cardinality(Ops(t)') <= Cardinality(Ops(t))
  <2>1. Ops(t) \ {w} = Ops(t)' \ {w}
    BY BudgetMoved
  <2> QED BY <2>1, BudgetTypes, BudgetTypesNext, Moved
<1>9. /\ w \in Others(t)' => w \notin Ops(t)'
      /\ req'[w].pc = "record" => w \notin Ops(t)' /\ w \notin Others(t)'
  BY DEF Ops, Others
<1>10. /\ Cardinality(Undrafted(t)') <= Cardinality(Undrafted(t))
       /\ Undrafted(t)' # Undrafted(t) =>
            Cardinality(Undrafted(t)') < Cardinality(Undrafted(t))
  <2>1. /\ Undrafted(t)' \in SUBSET Undrafted(t)
        /\ Cardinality(Undrafted(t)') <= Cardinality(Undrafted(t))
    BY UndraftedShrinks
  <2>2. /\ IsFiniteSet(Undrafted(t))
        /\ Cardinality(Undrafted(t)) \in Nat /\ Cardinality(Undrafted(t)') \in Nat
    BY BudgetTypes, BudgetTypesNext
  <2>3. Cardinality(Undrafted(t)') = Cardinality(Undrafted(t)) => Undrafted(t)' = Undrafted(t)
    BY <2>1, <2>2, FS_Subset
  <2> QED BY <2>1, <2>2, <2>3
<1>11. /\ Cardinality(Others(t)) \in Nat /\ Cardinality(Others(t)') \in Nat
       /\ Cardinality(Ops(t)) \in Nat /\ Cardinality(Ops(t)') \in Nat
       /\ Cardinality(Undrafted(t)) \in Nat /\ Cardinality(Undrafted(t)') \in Nat
       /\ Cardinality(Direct(m)) \in Nat
  BY BudgetTypes, BudgetTypesNext, DirectTypes
<1>12. Of(t) # {} => Strays(t)' \in SUBSET Strays(t)
  BY <1>6, BudgetMoved
<1> HIDE DEF t
<1>13. /\ log'[m].released = log[m].released
       /\ w \in Ops(t)' => w \in Ops(t)
       /\ \/ /\ log'[m].answered = log[m].answered
             /\ w \in Others(t)' => w \in Ops(t)
          \/ /\ log'[m].answered = log[m].answered + 1
             /\ w \in Ops(t) /\ req'[w].pc = "record"
       /\ Works(t) /\ ~Works(t)' =>
            \/ /\ w \in Ops(t) /\ w \notin Ops(t)'
               /\ log'[m].answered = log[m].answered
            \/ Mishaps' >= Mishaps + 1
            \/ Undrafted(t)' # Undrafted(t)
  BY DEF t
<1>14. /\ log'[m].answered \in Nat
       /\ log'[m].answered + Cardinality(Ops(t)') <= log[m].answered + Cardinality(Ops(t))
       /\ log'[m].answered + Cardinality(Ops(t)') + Cardinality(Others(t)')
            <= log[m].answered + Cardinality(Ops(t)) + Cardinality(Others(t))
       /\ w \in Ops(t) /\ w \notin Ops(t)' /\ log'[m].answered = log[m].answered =>
            log'[m].answered + Cardinality(Ops(t)') + 1
              = log[m].answered + Cardinality(Ops(t))
  BY <1>2, <1>7, <1>8, <1>9, <1>11, <1>13
<1>15. /\ Spent(m) \in Nat /\ Spent(m)' \in Nat /\ Spent(m)' <= Spent(m)
       /\ Spent(m)' + Cardinality(Others(t)') <= Spent(m) + Cardinality(Others(t))
       /\ \/ w \in Ops(t) /\ w \notin Ops(t)' /\ log'[m].answered = log[m].answered
          \/ Undrafted(t)' # Undrafted(t)
          => Spent(m)' + 1 <= Spent(m)
  BY <1>2, <1>5, <1>10, <1>11, <1>14 DEF Spent, t
<1>16. /\ Spent(m)' <= Spent(m) + (log'[m].released - log[m].released)
                          + (Mishaps' - Mishaps)
       /\ Spent(m)' + Cardinality(Others(t)')
            <= Spent(m) + Cardinality(Others(t))
                 + (log'[m].released - log[m].released) + (Mishaps' - Mishaps)
       /\ Works(t) /\ ~Works(t)' =>
            Spent(m)' + 1 <= Spent(m) + Cardinality(Others(t))
                 + (log'[m].released - log[m].released) + (Mishaps' - Mishaps)
  BY <1>2, <1>11, <1>13, <1>15
<1>17. log'[m].released >= log[m].released
  BY <1>2, <1>13
<1> QED BY <1>1, <1>3, <1>12, <1>16, <1>17, BudgetArith DEF t

LEMMA BudgetOperator ==
  ASSUME Typed, Typed', Belongs, BudgetInv, NEW w \in Workers, Operator(w)
  PROVE  BudgetInv'
<1> DEFINE c == req[w].conv
<1>0. Mishaps \in Nat /\ WorkerOK(w)
  BY MishapsType DEF Belongs
<1>1. CASE StampApproval(w)
  <2>1. /\ Only(w) /\ hist' = hist /\ Mishaps' >= Mishaps
        /\ req[w].pc = "click" /\ c \in Convs /\ Writes(c)
        /\ req'[w].pc = "flip" /\ req'[w].msg = req[w].msg /\ req'[w].conv = c
        /\ \/ req'[w].copy = req[w].copy /\ rows' = rows
           \/ /\ req'[w].copy = rows'[c]
              /\ rows'[c].cls.drafted = req[w].copy.cls.drafted
    BY <1>0, <1>1, StampDoes DEF Calm, Like
  <2>2. Settled
    BY <2>1, SettledWrites
  <2>3. Remembers(w)
    <3>1. c = req[w].conv
      OBVIOUS
    <3> HIDE DEF c
    <3> QED BY <2>1, <3>1, RemembersWrites
  <2>4. \A t : Of(t)' = Of(t)
    BY <2>2 DEF Of, Settled
  <2>5. \A t : /\ w \in Ops(t)' => w \in Ops(t)
               /\ w \notin Others(t)'
               /\ Mine(w, t) => Mine(w, t)'
    BY <2>1, <2>4 DEF Ops, Others, Mine
  <2>6. \A t : ~(Works(t) /\ ~Works(t)')
    BY <2>1, <2>2, <2>5, BudgetMoved
  <2> QED BY <2>1, <2>2, <2>3, <2>5, <2>6, BudgetApproval DEF hist
<1>2. CASE Flip(w)
  <2>1. /\ Only(w) /\ rewrites' = rewrites /\ Mishaps' >= Mishaps
        /\ req[w].pc = "flip" /\ c \in Convs /\ Writes(c)
        /\ rows'[c].cls = rows[c].cls
        /\ Note(req[w].copy.cls.parked, "cleared")
        /\ req'[w].pc \in {"replay", "send"} /\ req'[w].msg = req[w].copy.cls.parked
        /\ req'[w].conv = c /\ req'[w].copy = req[w].copy
    BY <1>0, <1>2, FlipDoes DEF Calm
  <2>2. Settled
    BY <2>1, SettledWrites
  <2>3. Remembers(w)
    <3>1. c = req[w].conv
      OBVIOUS
    <3> HIDE DEF c
    <3> QED BY <2>1, <3>1, RemembersWrites
  <2>4. \A m \in Messages : /\ log'[m].answered = log[m].answered
                            /\ log'[m].released = log[m].released
    BY <2>1, NoteSame
  <2>5. \A t : Of(t)' = Of(t)
    BY <2>2 DEF Of, Settled
  <2>6. c # None /\ rows[c].thread # None /\
        (req[w].copy.cls.parked # None => ThreadOf[req[w].copy.cls.parked] = rows[c].thread)
    BY <1>0, <2>1, ENAssumption DEF WorkerOK, ClsOK
  <2>7. \A t : Mine(w, t)' => Mine(w, t)
    <3> SUFFICES ASSUME NEW t, Mine(w, t)' PROVE Mine(w, t)
      OBVIOUS
    <3>1. CASE req'[w].conv \in Of(t)'
      BY <2>1, <2>5, <3>1 DEF Mine
    <3>2. CASE req'[w].msg \in {m \in Messages : ThreadOf[m] = t}
      <4>1. req[w].copy.cls.parked # None /\ ThreadOf[req[w].copy.cls.parked] = t
        BY <2>1, <3>2, ENAssumption
      <4>2. c \in Of(t)
        BY <2>1, <2>6, <4>1 DEF Of
      <4> QED BY <4>2 DEF Mine
    <3> QED BY <3>1, <3>2 DEF Mine
  <2>8. \A t : /\ w \in Ops(t)' => w \in Ops(t)
               /\ w \in Others(t)' => w \in Ops(t)
               /\ Mine(w, t) => w \in Ops(t)
               /\ ~Mine(w, t)' => w \notin Ops(t)'
    BY <2>1, <2>7 DEF Ops, Others
  <2>9. \A t : Works(t) /\ ~Works(t)' => w \in Ops(t) /\ w \notin Ops(t)'
    BY <2>2, <2>1, <2>8, BudgetMoved
  <2> QED BY <2>1, <2>2, <2>3, <2>4, <2>8, <2>9, BudgetApproval
<1>3. CASE Send(w)
  <2>1. /\ Only(w) /\ rewrites' = rewrites /\ rows' = rows /\ Mishaps' >= Mishaps
        /\ req[w].pc = "send" /\ c \in Convs
        /\ \/ /\ Note(req[w].msg, "answered") /\ req'[w].pc = "record"
              /\ req'[w].msg = req[w].msg /\ req'[w].conv = c
              /\ req'[w].copy = req[w].copy
           \/ UNCHANGED hist /\ req'[w] = Idle
    BY <1>0, <1>3, SendDoes DEF Calm, hist, Keeps
  <2>2. Settled /\ Remembers(w)
    BY <2>1, SettledSame, RemembersSame DEF Idle
  <2>3. \A t : Mine(w, t) => w \in Ops(t)
    BY <2>1 DEF Ops
  <2>4. CASE UNCHANGED hist /\ req'[w] = Idle
    <3>1. req'[w].pc = "idle"
      BY <2>4 DEF Idle
    <3>2. \A t : w \notin Ops(t)' /\ w \notin Others(t)'
      BY <2>4, IdleLeaves DEF Ops, Others
    <3>3. \A t : Works(t) /\ ~Works(t)' => w \in Ops(t)
      BY <2>1, <2>2, <2>3, BudgetMoved
    <3> QED BY <2>1, <2>2, <2>4, <3>1, <3>2, <3>3, BudgetApproval DEF hist
  <2>5. CASE Note(req[w].msg, "answered") /\ req'[w].pc = "record"
    <3>1. req'[w].msg = req[w].msg /\ req'[w].conv = c
      BY <2>1, <2>5 DEF Idle
    <3>2. \A t : w \notin Ops(t)' /\ w \notin Others(t)'
      BY <2>5 DEF Ops, Others
    <3>3. \A t : Mine(w, t) => Mine(w, t)'
      BY <2>1, <3>1 DEF Mine, Of
    <3>4. \A t : ~(Works(t) /\ ~Works(t)')
      BY <2>1, <2>2, <3>3, BudgetMoved
    <3>5. \A m \in Messages :
            /\ log'[m].released = log[m].released
            /\ \/ log'[m].answered = log[m].answered
               \/ log'[m].answered = log[m].answered + 1 /\ w \in Ops(ThreadOf[m])
      <4> TAKE m \in Messages
      <4>1. CASE m = req[w].msg
        <5>1. w \in Ops(ThreadOf[m])
          BY <2>3, <4>1 DEF Mine
        <5> QED BY <2>5, <4>1, <5>1, NoteOne, NoteSame
      <4>2. CASE m # req[w].msg
        BY <2>5, <4>2, NoteOne
      <4> QED BY <4>1, <4>2
    <3> QED BY <2>1, <2>2, <2>5, <3>2, <3>4, <3>5, BudgetApproval
  <2> QED BY <2>1, <2>4, <2>5
<1>4. CASE Record(w)
  <2>1. /\ Only(w) /\ hist' = hist /\ Mishaps' >= Mishaps
        /\ req[w].pc = "record" /\ c \in Convs /\ Writes(c)
        /\ rows'[c].cls.drafted /\ req'[w] = Idle
        /\ ~req[w].copy.cls.drafted
    BY <1>0, <1>4, RecordDoes DEF Calm, WorkerOK
  <2>2. Settled
    BY <2>1, SettledWrites
  <2>3. Remembers(w)
    <3>1. c = req[w].conv /\ req'[w].conv = None
      BY <2>1 DEF Idle
    <3> HIDE DEF c
    <3> QED BY <2>1, <3>1, RemembersWrites
  <2>4. req'[w].pc = "idle"
    BY <2>1 DEF Idle
  <2>5. \A t : w \notin Ops(t)' /\ w \notin Others(t)'
    BY <2>1, IdleLeaves DEF Ops, Others
  <2>6. c # None /\ rows[c].thread # None /\
        (req[w].msg # None => ThreadOf[req[w].msg] = rows[c].thread)
    BY <1>0, <2>1, ENAssumption DEF WorkerOK, ClsOK
  <2>7. \A t : Works(t) /\ ~Works(t)' => Undrafted(t)' # Undrafted(t)
    <3> SUFFICES ASSUME NEW t, Works(t), ~Works(t)'
          PROVE Undrafted(t)' # Undrafted(t)
      OBVIOUS
    <3>1. Mine(w, t)
      BY <2>1, <2>2, BudgetMoved
    <3>2. PICK d \in Convs : d = c
      BY <2>1
    <3>3. d \in Of(t)
      <4>1. CASE req[w].msg \in {m \in Messages : ThreadOf[m] = t}
        BY <2>1, <2>6, <3>2, <4>1, ENAssumption DEF Of
      <4> QED BY <3>1, <3>2, <4>1 DEF Mine
    <3>4. d \in Undrafted(t)
      BY <2>1, <3>2, <3>3 DEF Undrafted, Holds
    <3>5. Of(t)' = Of(t)
      BY <2>2 DEF Of, Settled
    <3>6. \A v \in Workers : ~Holds(v, d)'
      BY <3>3, <3>5 DEF Works, Holds
    <3>7. d \notin Undrafted(t)'
      BY <2>1, <3>2, <3>6 DEF Undrafted
    <3> QED BY <3>4, <3>7
  <2> QED BY <2>1, <2>2, <2>3, <2>4, <2>5, <2>7, BudgetApproval DEF hist
<1>5. CASE RecordFails(w)
  <2>1. /\ Only(w) /\ hist' = hist /\ Mishaps' = Mishaps + 1 /\ rows' = rows
        /\ req[w].pc = "record" /\ req'[w] = Idle
    BY <1>5, RecordFailsDoes
  <2>2. Mishaps' >= Mishaps /\ Mishaps' >= Mishaps + 1
    BY <1>0, <2>1
  <2>3. Settled /\ Remembers(w)
    BY <2>1, SettledSame, RemembersSame DEF Idle
  <2>4. req'[w].pc = "idle"
    BY <2>1 DEF Idle
  <2>5. \A t : w \notin Ops(t)' /\ w \notin Others(t)'
    BY <2>1, IdleLeaves DEF Ops, Others
  <2> QED BY <2>1, <2>2, <2>3, <2>4, <2>5, BudgetApproval DEF hist
<1>6. CASE Replay(w)
  <2>1. /\ Only(w) /\ hist' = hist /\ Mishaps' >= Mishaps
        /\ req[w].pc = "replay" /\ c \in Convs /\ Writes(c)
        /\ rows'[c].cls = rows[c].cls
        /\ \/ req'[w] = Idle
           \/ /\ req'[w].pc = "resend" /\ req'[w].msg = req[w].msg
              /\ req'[w].conv = c /\ req'[w].copy = rows'[c]
    BY <1>0, <1>6, ReplayDoes DEF Calm
  <2>2. Settled
    BY <2>1, SettledWrites
  <2>3. Remembers(w)
    <3>1. \/ req'[w].conv = None
          \/ req'[w].conv = c /\ req'[w].copy = rows'[c]
      BY <2>1 DEF Idle
    <3>2. c = req[w].conv
      OBVIOUS
    <3> HIDE DEF c
    <3> QED BY <2>1, <3>1, <3>2, RemembersWrites
  <2>4. /\ \A t : Mine(w, t)' => Mine(w, t)
        /\ \A t : w \notin Strays(t)'
        /\ \A m \in Messages : w \notin Direct(m)'
    <3>1. CASE req'[w] = Idle
      BY <3>1, IdleLeaves
    <3>2. CASE req'[w] # Idle
      <4>1. \A t : Of(t)' = Of(t)
        BY <2>2 DEF Of, Settled
      <4> QED BY <2>1, <3>2, <4>1 DEF Mine, Strays, Direct
    <3> QED BY <3>1, <3>2
  <2>5. req'[w].pc \notin {"click", "flip", "send", "record"}
    BY <2>1 DEF Idle
  <2> HIDE DEF c
  <2> QED BY <2>1, <2>2, <2>3, <2>4, <2>5, BudgetPlain DEF hist
<1>7. CASE Resend(w)
  <2>1. /\ Only(w) /\ rows' = rows /\ rewrites' = rewrites /\ Mishaps' >= Mishaps
        /\ req[w].pc = "resend" /\ req'[w] = Idle /\ req[w].msg \in rewrites
        /\ Note(req[w].msg, "answered") \/ UNCHANGED hist
    BY <1>0, <1>7, PostDoes DEF Calm, WorkerOK
  <2>2. Settled /\ Remembers(w)
    BY <2>1, SettledSame, RemembersSame DEF Idle
  <2>3. req'[w].pc = "idle"
    BY <2>1 DEF Idle
  <2>4. /\ \A t : Mine(w, t)' => Mine(w, t)
        /\ \A t : w \in Strays(t)' => w \in Strays(t)
        /\ \A m \in Messages : w \notin Direct(m)'
    BY <2>1, IdleLeaves
  <2>5. \A m \in Messages \ rewrites :
          log'[m].answered = log[m].answered /\ log'[m].released = log[m].released
    <3> SUFFICES ASSUME NEW m \in Messages \ rewrites PROVE log'[m] = log[m]
      OBVIOUS
    <3>1. CASE UNCHANGED hist
      BY <3>1 DEF hist
    <3>2. CASE Note(req[w].msg, "answered")
      BY <2>1, <3>2, NoteOne
    <3> QED BY <2>1, <3>1, <3>2
  <2> QED BY <2>1, <2>2, <2>3, <2>4, <2>5, BudgetPlain
<1>8. CASE Reject(w)
  <2>1. /\ Only(w) /\ hist' = hist /\ Mishaps' >= Mishaps
        /\ req[w].pc = "reject" /\ c \in Convs /\ Writes(c)
        /\ rows'[c].cls.drafted \in {req[w].copy.cls.drafted, rows[c].cls.drafted}
        /\ req'[w] = Idle
    BY <1>0, <1>8, RejectDoes DEF Calm, Like
  <2>2. Settled
    BY <2>1, SettledWrites
  <2>3. Remembers(w)
    <3>1. c = req[w].conv /\ req'[w].conv = None
      BY <2>1 DEF Idle
    <3> HIDE DEF c
    <3> QED BY <2>1, <3>1, RemembersWrites
  <2>4. req'[w].pc = "idle"
    BY <2>1 DEF Idle
  <2>5. /\ \A t : Mine(w, t)' => Mine(w, t)
        /\ \A t : w \in Strays(t)' => w \in Strays(t)
        /\ \A m \in Messages : w \notin Direct(m)'
    BY <2>1, IdleLeaves
  <2> HIDE DEF c
  <2> QED BY <2>1, <2>2, <2>3, <2>4, <2>5, BudgetPlain DEF hist
<1> QED BY <1>1, <1>2, <1>3, <1>4, <1>5, <1>6, <1>7, <1>8 DEF Operator

\* A request begins.  One that overlaps another is paid for by the mishap; an
\* approval that finds the thread idle is lent its place.
LEMMA BudgetBegin ==
  ASSUME Typed, Typed', BudgetInv, NEW w \in Workers, Only(w), rows' = rows,
         hist' = hist, req[w] = Idle, req'[w].pc \in {"check", "click", "reject"},
         Remembers(w), NEW s,
         \A t \in Threads : Mine(w, t)' <=> t = s,
         Mishaps' = Mishaps + (IF Works(s) THEN 1 ELSE 0),
         req'[w].pc = "click" => Of(s) # {}
  PROVE  BudgetInv'
<1>1. log' = log /\ rewrites' = rewrites /\ Settled
  BY SettledSame DEF hist
<1> SUFFICES ASSUME NEW m \in Messages \ rewrites PROVE Charged(m)' \/ Lent(m)'
  BY <1>1 DEF BudgetInv
<1> DEFINE t == ThreadOf[m]
<1>2. Charged(m) \/ Lent(m)
  BY DEF BudgetInv
<1>3. /\ Mishaps \in Nat /\ log[m].released \in Nat /\ log[m].answered \in Nat
      /\ t \in Threads /\ Mishaps' \in Nat
  BY MishapsType, MishapsTypeNext, LogTypes, ENAssumption
<1>4. Of(t)' = Of(t)
  BY <1>1, BudgetMoved
<1>5. /\ ~Mine(w, t) /\ w \notin Ops(t) /\ w \notin Others(t) /\ w \notin Strays(t)
      /\ w \notin Strays(t)' /\ w \notin Direct(m) /\ w \notin Direct(m)'
  BY ENAssumption DEF Idle, Mine, Of, Ops, Others, Strays, Direct
<1>6. /\ Strays(t)' = Strays(t)
      /\ Cardinality(Direct(m)') = Cardinality(Direct(m))
  <2>1. /\ Strays(t)' \ {w} = Strays(t) \ {w}
        /\ Direct(m) \ {w} = Direct(m)' \ {w}
    BY <1>1, BudgetMoved
  <2>2. Strays(t)' = Strays(t)
    BY <1>5, <2>1
  <2>3. Cardinality(Direct(m)') = Cardinality(Direct(m))
    BY <1>5, <2>1, DirectTypes, Moved
  <2> QED BY <2>2, <2>3
<1>7. Cardinality(Undrafted(t)') <= Cardinality(Undrafted(t))
  BY <1>1, UndraftedShrinks
<1>8. /\ w \in Ops(t)' <=> t = s /\ req'[w].pc = "click"
      /\ w \in Others(t)' <=> t = s /\ req'[w].pc # "click"
  BY <1>3 DEF Ops, Others
<1>9. /\ Cardinality(Ops(t)') =
           Cardinality(Ops(t)) + (IF t = s /\ req'[w].pc = "click" THEN 1 ELSE 0)
      /\ Cardinality(Others(t)') =
           Cardinality(Others(t)) + (IF t = s /\ req'[w].pc # "click" THEN 1 ELSE 0)
  <2>1. Ops(t) \ {w} = Ops(t)' \ {w} /\ Others(t) \ {w} = Others(t)' \ {w}
    BY <1>1, BudgetMoved
  <2>2. Cardinality(Ops(t)') =
          Cardinality(Ops(t)) + (IF t = s /\ req'[w].pc = "click" THEN 1 ELSE 0)
    <3>1. CASE w \in Ops(t)'
      BY <1>5, <1>8, <2>1, <3>1, BudgetTypes, Moved
    <3>2. CASE w \notin Ops(t)'
      <4>1. Cardinality(Ops(t)') = Cardinality(Ops(t)) /\ Cardinality(Ops(t)) \in Nat
        BY <1>5, <2>1, <3>2, BudgetTypes, Moved
      <4> QED BY <1>8, <3>2, <4>1
    <3> QED BY <3>1, <3>2
  <2>3. Cardinality(Others(t)') =
          Cardinality(Others(t)) + (IF t = s /\ req'[w].pc # "click" THEN 1 ELSE 0)
    <3>1. CASE w \in Others(t)'
      BY <1>5, <1>8, <2>1, <3>1, BudgetTypes, Moved
    <3>2. CASE w \notin Others(t)'
      <4>1. Cardinality(Others(t)') = Cardinality(Others(t)) /\ Cardinality(Others(t)) \in Nat
        BY <1>5, <2>1, <3>2, BudgetTypes, Moved
      <4> QED BY <1>8, <3>2, <4>1
    <3> QED BY <3>1, <3>2
  <2> QED BY <2>2, <2>3
<1>10. /\ Cardinality(Others(t)) \in Nat /\ Cardinality(Others(t)') \in Nat
       /\ Cardinality(Strays(t)) \in Nat
       /\ Cardinality(Ops(t)) \in Nat /\ Cardinality(Ops(t)') \in Nat
       /\ Cardinality(Undrafted(t)) \in Nat /\ Cardinality(Undrafted(t)') \in Nat
       /\ Cardinality(Direct(m)) \in Nat
  BY BudgetTypes, BudgetTypesNext, DirectTypes
<1>11. /\ Spent(m) \in Nat /\ Spent(m)' \in Nat
       /\ Spent(m)' <= Spent(m) + (IF t = s /\ req'[w].pc = "click" THEN 1 ELSE 0)
  BY <1>1, <1>3, <1>6, <1>7, <1>9, <1>10 DEF Spent
<1>12. /\ (Works(t) <=> \E v \in Workers : Mine(v, t))
       /\ (Works(t)' <=> \E v \in Workers : Mine(v, t)')
  BY DEF Works, Mine
<1>13. Works(t) => Works(t)'
  BY <1>1, <1>5, BudgetMoved
<1>14. CASE t # s \/ Works(s)
  <2>1. /\ Spent(m)' <= Spent(m) + (Mishaps' - Mishaps)
        /\ Spent(m)' + Cardinality(Others(t)')
             <= Spent(m) + Cardinality(Others(t)) + (Mishaps' - Mishaps)
        /\ Mishaps' >= Mishaps
    BY <1>3, <1>9, <1>10, <1>11, <1>14
  <2>2. log'[m].released = log[m].released
    BY <1>1
  <2>3. Of(t) # {} => Strays(t)' \in SUBSET Strays(t)
    BY <1>6
  <2> HIDE DEF t
  <2>4. /\ log'[m].released >= log[m].released
        /\ Spent(m)' <= Spent(m) + (log'[m].released - log[m].released)
                          + (Mishaps' - Mishaps)
        /\ Spent(m)' + Cardinality(Others(t)')
             <= Spent(m) + Cardinality(Others(t))
                  + (log'[m].released - log[m].released) + (Mishaps' - Mishaps)
    BY <1>3, <1>10, <1>11, <2>1, <2>2
  <2> QED BY <1>2, <1>4, <1>13, <2>1, <2>3, <2>4, BudgetArith DEF t
<1>15. CASE t = s /\ ~Works(s)
  <2>1. Others(t) = {} /\ Strays(t) = {}
    BY <1>12, <1>15 DEF Others, Strays, Mine
  <2>2. Cardinality(Others(t)) = 0 /\ Cardinality(Strays(t)) = 0
    BY <2>1, FS_EmptySet
  <2>3. Charged(m)
    BY <1>2, <1>15 DEF Lent
  <2>4. Mishaps' = Mishaps /\ log'[m].released = log[m].released
    BY <1>1, <1>3, <1>15
  <2>5. Works(t)'
    BY <1>3, <1>12, <1>15
  <2>6. CASE req'[w].pc = "click"
    <3>1. Of(t) # {} /\ Spent(m) <= Mishaps + 1 + log[m].released
      BY <1>3, <1>11, <1>15, <2>2, <2>3, <2>6 DEF Charged
    <3>2. Spent(m)' + Cardinality(Others(t)') <= Mishaps + 2 + log[m].released
      BY <1>3, <1>9, <1>10, <1>11, <2>2, <2>6, <3>1
    <3> QED BY <1>4, <1>6, <2>1, <2>4, <2>5, <3>1, <3>2 DEF Lent
  <2>7. CASE req'[w].pc # "click"
    <3>1. Spent(m)' <= Spent(m) /\ Cardinality(Others(t)') = 1
      BY <1>9, <1>11, <1>15, <2>2, <2>7
    <3> QED BY <1>3, <1>4, <1>6, <1>11, <2>2, <2>3, <2>4, <3>1 DEF Charged
  <2> QED BY <2>6, <2>7
<1> QED BY <1>14, <1>15

LEMMA BudgetRequest ==
  ASSUME Typed, Typed', Belongs, BudgetInv, NEW w \in Workers,
         \/ \E m \in Messages : Deliver(w, m)
         \/ \E c \in Convs : Click(w, c) \/ ClickReject(w, c)
  PROVE  BudgetInv'
<1>1. ASSUME NEW m \in Messages, Deliver(w, m) PROVE BudgetInv'
  <2>1. /\ Only(w) /\ rows' = rows /\ hist' = hist /\ req[w] = Idle
        /\ req'[w].pc = "check" /\ req'[w].msg = m /\ req'[w].conv = None
        /\ Mishaps' = Mishaps + (IF Works(ThreadOf[m]) THEN 1 ELSE 0)
    BY <1>1, DeliverDoes
  <2>2. Remembers(w)
    BY <2>1, RemembersSame
  <2>3. \A t \in Threads : Mine(w, t)' <=> t = ThreadOf[m]
    BY <2>1, ENAssumption DEF Mine, Of
  <2> QED BY <2>1, <2>2, <2>3, BudgetBegin
<1>2. ASSUME NEW c \in Convs, Click(w, c) \/ ClickReject(w, c) PROVE BudgetInv'
  <2>1. /\ Only(w) /\ rows' = rows /\ hist' = hist /\ req[w] = Idle
        /\ req'[w].pc \in {"click", "reject"} /\ req'[w].msg = None /\ req'[w].conv = c
        /\ req'[w].copy = rows[c]
        /\ Mishaps' = Mishaps + (IF Works(rows[c].thread) THEN 1 ELSE 0)
    BY <1>2, ClickDoes
  <2>2. Remembers(w)
    BY <2>1, RemembersSame
  <2>3. PICK s : s = rows[c].thread
    OBVIOUS
  <2>4. \A t \in Threads : Mine(w, t)' <=> t = s
    BY <2>1, <2>3, ENAssumption DEF Mine, Of
  <2>5. Of(s) # {}
    BY <2>3 DEF Of
  <2>6. Mishaps' = Mishaps + (IF Works(s) THEN 1 ELSE 0)
    BY <2>1, <2>3
  <2> QED BY <2>1, <2>2, <2>4, <2>5, <2>6, BudgetBegin
<1> QED BY <1>1, <1>2

\* A restart ends some of the requests; the mishap returns what was lent.
LEMMA BudgetCrash ==
  ASSUME Typed, Typed', BudgetInv, NEW k \in Containers, Crash(k)
  PROVE  BudgetInv'
<1>1. /\ rows' = rows /\ log' = log /\ rewrites' = rewrites
      /\ Mishaps' = Mishaps + 1
      /\ \A w \in Workers : req'[w] = Idle \/ req'[w] = req[w]
  BY CrashDoes DEF hist
<1> SUFFICES ASSUME NEW m \in Messages \ rewrites PROVE Charged(m)' \/ Lent(m)'
  BY <1>1 DEF BudgetInv
<1> DEFINE t == ThreadOf[m]
<1>2. Charged(m) \/ Lent(m)
  BY DEF BudgetInv
<1>3. /\ Mishaps \in Nat /\ log[m].released \in Nat /\ log[m].answered \in Nat
  BY MishapsType, LogTypes
<1>4. Of(t)' = Of(t)
  BY <1>1 DEF Of
<1>5. /\ Ops(t)' \in SUBSET Ops(t) /\ Others(t)' \in SUBSET Others(t)
      /\ Strays(t)' \in SUBSET Strays(t) /\ Direct(m)' \in SUBSET Direct(m)
      /\ Undrafted(t)' \in SUBSET Undrafted(t)
  <2>1. ASSUME NEW w \in Workers
        PROVE  \/ req'[w] = req[w] /\ (Mine(w, t)' <=> Mine(w, t))
               \/ /\ req'[w].pc = "idle" /\ req'[w].conv = None
                  /\ ~Mine(w, t)' /\ w \notin Strays(t)' /\ w \notin Direct(m)'
    <3>1. CASE req'[w] = Idle
      <4>1. req'[w].pc = "idle" /\ req'[w].conv = None
        BY <3>1 DEF Idle
      <4> QED BY <3>1, <4>1, IdleLeaves
    <3>2. CASE req'[w] = req[w]
      BY <1>4, <3>2 DEF Mine
    <3> QED BY <1>1, <3>1, <3>2
  <2>2. Ops(t)' \in SUBSET Ops(t) /\ Others(t)' \in SUBSET Others(t)
    BY <2>1 DEF Ops, Others
  <2>3. Strays(t)' \in SUBSET Strays(t) /\ Direct(m)' \in SUBSET Direct(m)
    BY <2>1 DEF Strays, Direct
  <2>4. \A w \in Workers, c \in Convs : Holds(w, c)' => Holds(w, c)
    BY <2>1, ENAssumption DEF Holds
  <2>5. Undrafted(t)' \in SUBSET Undrafted(t)
    BY <1>1, <1>4, <2>4 DEF Undrafted, Of
  <2> QED BY <2>2, <2>3, <2>5
<1>6. /\ Cardinality(Others(t)) \in Nat /\ Cardinality(Others(t)') \in Nat
      /\ Cardinality(Ops(t)) \in Nat /\ Cardinality(Ops(t)') \in Nat
      /\ Cardinality(Direct(m)) \in Nat /\ Cardinality(Direct(m)') \in Nat
      /\ Cardinality(Undrafted(t)) \in Nat /\ Cardinality(Undrafted(t)') \in Nat
  BY BudgetTypes, BudgetTypesNext, DirectTypes
<1>7. /\ Cardinality(Ops(t)') <= Cardinality(Ops(t))
      /\ Cardinality(Others(t)') <= Cardinality(Others(t))
      /\ Cardinality(Direct(m)') <= Cardinality(Direct(m))
      /\ Cardinality(Undrafted(t)') <= Cardinality(Undrafted(t))
  BY <1>5, BudgetTypes, DirectTypes, FS_Subset
<1>8. Spent(m) \in Nat /\ Spent(m)' \in Nat /\ Spent(m)' <= Spent(m)
  BY <1>1, <1>3, <1>6, <1>7 DEF Spent
<1> QED BY <1>1, <1>2, <1>3, <1>4, <1>5, <1>6, <1>7, <1>8, BudgetArith

LEMMA BudgetInit == Init => BudgetInv
<1> SUFFICES ASSUME Init, NEW m \in Messages PROVE Charged(m)
  BY DEF BudgetInv
<1> DEFINE t == ThreadOf[m]
<1>1. t \in Threads /\ t # None
  BY ENAssumption
<1>2. Of(t) = {} /\ Undrafted(t) = {}
  BY <1>1 DEF Init, Of, NoRow, Undrafted
<1>3. Ops(t) = {} /\ Others(t) = {} /\ Direct(m) = {}
  BY <1>2, ENAssumption DEF Init, Idle, Ops, Others, Direct, Mine
<1>4. /\ Cardinality(Ops(t)) = 0 /\ Cardinality(Others(t)) = 0
      /\ Cardinality(Direct(m)) = 0 /\ Cardinality(Undrafted(t)) = 0
  BY <1>2, <1>3, FS_EmptySet
<1>5. log[m].answered = 0 /\ log[m].released = 0 /\ Mishaps = 0
  BY DEF Init, Mishaps, Box!Fresh
<1>6. Spent(m) = 0
  BY <1>4, <1>5 DEF Spent
<1> QED BY <1>2, <1>4, <1>5, <1>6 DEF Charged

LEMMA BudgetStep ==
  Typed /\ Typed' /\ Belongs /\ BudgetInv /\ [Next]_vars => BudgetInv'
<1> SUFFICES ASSUME Typed, Typed', Belongs, BudgetInv, [Next]_vars PROVE BudgetInv'
  OBVIOUS
<1>1. ASSUME NEW k \in Containers, Crash(k) PROVE BudgetInv'
  BY <1>1, BudgetCrash
<1>2. ASSUME NEW w \in Workers, Task(w) PROVE BudgetInv'
  BY <1>2, BudgetTask, BudgetNewRow
<1>3. ASSUME NEW w \in Workers, Operator(w) PROVE BudgetInv'
  BY <1>3, BudgetOperator
<1>4. ASSUME NEW w \in Workers, NEW m \in Messages, Deliver(w, m) PROVE BudgetInv'
  BY <1>4, BudgetRequest
<1>5. ASSUME NEW w \in Workers, NEW c \in Convs, Click(w, c) \/ ClickReject(w, c)
      PROVE  BudgetInv'
  BY <1>5, BudgetRequest
<1>6. CASE UNCHANGED vars
  <2>1. rows' = rows /\ req' = req /\ log' = log /\ rewrites' = rewrites /\ used' = used
    BY <1>6 DEF vars
  <2>2. Mishaps' = Mishaps
    BY <2>1 DEF Mishaps
  <2>3. \A t : /\ Of(t)' = Of(t) /\ Works(t)' = Works(t) /\ Ops(t)' = Ops(t)
               /\ Others(t)' = Others(t) /\ Strays(t)' = Strays(t)
               /\ Undrafted(t)' = Undrafted(t)
    BY <2>1 DEF Of, Works, Ops, Others, Strays, Undrafted, Holds, Mine
  <2>4. \A m \in Messages : Direct(m)' = Direct(m)
    BY <2>1 DEF Direct
  <2>5. \A m \in Messages : Spent(m)' = Spent(m)
    BY <2>1, <2>3, <2>4 DEF Spent
  <2>6. \A m \in Messages : (Charged(m) => Charged(m)') /\ (Lent(m) => Lent(m)')
    BY <2>1, <2>2, <2>3, <2>5 DEF Charged, Lent
  <2> QED BY <2>1, <2>6 DEF BudgetInv
<1> QED BY <1>1, <1>2, <1>3, <1>4, <1>5, <1>6 DEF Next

-----------------------------------------------------------------------------
(***************************************************************************)
(* The refinement: each step of the code is a step of the mailbox, or one  *)
(* it does not see.                                                        *)
(***************************************************************************)
IInv == /\ Typed /\ Belongs
        /\ TakenInv /\ ReleasedInv /\ AnsweredInv /\ BudgetInv

BoxStep == [Box!Next]_(Box!mailbox)

LEMMA IInvCorrect == Spec => []IInv
<1>1. Init => IInv
  BY TypedInit, BelongsInit, TakenInit, ReleasedInit, AnsweredInit, BudgetInit DEF IInv
<1>2. IInv /\ [Next]_vars => IInv'
  <2> SUFFICES ASSUME IInv, [Next]_vars PROVE IInv'
    OBVIOUS
  <2>1. Typed /\ Belongs /\ TakenInv /\ ReleasedInv /\ AnsweredInv /\ BudgetInv
    BY DEF IInv
  <2>2. Typed'
    BY <2>1, TypedStep
  <2>3. Belongs' /\ TakenInv' /\ ReleasedInv'
    BY <2>1, BelongsStep, TakenStep, ReleasedStep
  <2>4. AnsweredInv' /\ BudgetInv'
    BY <2>1, <2>2, AnsweredStep, BudgetStep
  <2> QED BY <2>2, <2>3, <2>4 DEF IInv
<1> QED BY <1>1, <1>2, PTL DEF Spec

\* The history stands still, but for a mishap.
LEMMA BoxQuiet ==
  ASSUME hist' = hist, Mishaps' = Mishaps \/ Mishaps' = Mishaps + 1
  PROVE  BoxStep
BY DEF BoxStep, Box!Next, Box!Mishap, Box!mailbox, hist

\* What was taken up, and what the assistant released, within the mishaps.
LEMMA BoxBounds ==
  ASSUME IInv, NEW m \in Messages
  PROVE  /\ log[m].taken <= Mishaps + 1 /\ log[m].released <= log[m].taken
         /\ Kept(m) => log[m].released + 1 <= log[m].taken
         /\ \A w \in Workers : w \in Judging(m) => log[m].released + 1 <= log[m].taken
<1>1. /\ TakenOK(m) /\ ReleasedOK(m) /\ Mishaps \in Nat
      /\ log[m].taken \in Nat /\ log[m].released \in Nat
  BY LogTypes, MishapsType DEF IInv, TakenInv, ReleasedInv
<1>2. log[m].taken <= Mishaps + 1
  <2>1. Cardinality(Adders(m)) \in Nat
    BY TakenTypes DEF IInv
  <2> QED BY <1>1, <2>1 DEF TakenOK
<1>3. /\ Cardinality(Judging(m)) \in Nat
      /\ \A w \in Judging(m) : Cardinality(Judging(m)) >= 1
  <2>1. Judging(m) \in SUBSET Workers
    BY DEF Judging
  <2> QED BY <2>1, Counts
<1>4. \A w \in Judging(m) : log[m].released + 1 <= log[m].taken
  BY <1>1, <1>3 DEF ReleasedOK
<1> QED BY <1>1, <1>2, <1>3, <1>4 DEF ReleasedOK

\* An answer on its way was released or cleared and not given.
LEMMA BoxOwed ==
  ASSUME IInv, NEW m \in Messages, NEW w \in Answering(m)
  PROVE  /\ log[m].answered < log[m].released + log[m].cleared
         /\ ~Kept(m) => log[m].answered < log[m].released
<1>1. /\ AnsweredOK(m)
      /\ log[m].released \in Nat /\ log[m].cleared \in Nat /\ log[m].answered \in Nat
  BY LogTypes DEF IInv, AnsweredInv
<1>2. Cardinality(Answering(m)) \in Nat /\ Cardinality(Answering(m)) >= 1
  <2>1. Answering(m) \in SUBSET Workers
    BY DEF Answering
  <2> QED BY <2>1, Counts
<1>3. ~Kept(m) => log[m].cleared = 0
  BY <1>1 DEF Kept
<1> QED BY <1>1, <1>2, <1>3 DEF AnsweredOK

\* What the budget leaves for the answer of an approval, and of a task.
LEMMA BoxSend ==
  ASSUME IInv, NEW w \in Workers, req[w].pc = "send", req[w].msg \in Messages \ rewrites
  PROVE  log[req[w].msg].answered <= 2 * Mishaps
<1> PICK m \in Messages \ rewrites : m = req[w].msg
  OBVIOUS
<1> DEFINE t == ThreadOf[m]
<1>1. /\ Mishaps \in Nat /\ log[m].released \in Nat /\ log[m].answered \in Nat
      /\ log[m].taken \in Nat
  BY LogTypes, MishapsType DEF IInv
<1>2. PICK c \in Convs : c = req[w].conv
  BY DEF IInv, Typed, TypeOK, Request, HoldsOK, OpPcs
<1>3. /\ ~req[w].copy.cls.drafted /\ req[w].copy.cls.parked = m
      /\ rows[c].thread = t
  <2>1. WorkerOK(w) /\ c # None
    BY ENAssumption DEF IInv, Belongs
  <2>2. ~req[w].copy.cls.drafted /\ req[w].copy.cls.parked = m
    BY <2>1 DEF WorkerOK
  <2> QED BY <1>2, <2>1, <2>2, ENAssumption DEF WorkerOK, ClsOK
<1>4. c \in Of(t) /\ c \in Undrafted(t)
  BY <1>2, <1>3 DEF Of, Undrafted, Holds
<1>5. w \in Ops(t)
  BY DEF Ops, Mine
<1>6. Kept(m)
  BY <1>3 DEF Kept
<1>7. Cardinality(Undrafted(t)) >= 1 /\ Cardinality(Ops(t)) >= 1
  <2>1. IsFiniteSet(Undrafted(t)) /\ Cardinality(Undrafted(t)) # 0
    BY <1>4, BudgetTypes, FS_EmptySet
  <2>2. Ops(t) \in SUBSET Workers
    BY DEF Ops
  <2> QED BY <1>5, <2>1, <2>2, BudgetTypes, Counts
<1>8. /\ Cardinality(Undrafted(t)) \in Nat /\ Cardinality(Ops(t)) \in Nat
      /\ Cardinality(Others(t)) \in Nat /\ Cardinality(Strays(t)) \in Nat
      /\ Cardinality(Direct(m)) \in Nat
  BY BudgetTypes, DirectTypes
<1>9. Spent(m) \in Nat /\ Spent(m) >= log[m].answered + 2
  BY <1>1, <1>7, <1>8 DEF Spent
<1>10. Charged(m) \/ Lent(m)
  BY DEF IInv, BudgetInv
<1>11. Spent(m) <= Mishaps + 2 + log[m].released
  BY <1>1, <1>4, <1>8, <1>9, <1>10 DEF Charged, Lent
<1>12. log[m].released <= Mishaps
  BY <1>1, <1>6, BoxBounds
<1> QED BY <1>1, <1>9, <1>11, <1>12

LEMMA BoxPost ==
  ASSUME IInv, NEW w \in Workers, req[w].pc = "post", req[w].msg \in Messages \ rewrites
  PROVE  log[req[w].msg].answered <= 2 * Mishaps
<1> PICK m \in Messages \ rewrites : m = req[w].msg
  OBVIOUS
<1> DEFINE t == ThreadOf[m]
<1>1. /\ Mishaps \in Nat /\ log[m].released \in Nat /\ log[m].answered \in Nat
      /\ log[m].taken \in Nat
  BY LogTypes, MishapsType DEF IInv
<1>2. PICK c \in Convs : c = req[w].conv
  BY DEF IInv, Typed, TypeOK, Request, HoldsOK
<1>3. c \in Of(t)
  BY <1>2, ENAssumption DEF IInv, Belongs, WorkerOK, TaskPcs, Of
<1>4. w \in Direct(m) /\ w \in Others(t) /\ w \in Answering(m)
  BY DEF Direct, Others, Mine, Answering
<1>5. CASE ~Kept(m)
  BY <1>1, <1>4, <1>5, BoxBounds, BoxOwed
<1>6. CASE Kept(m)
  <2>1. Cardinality(Direct(m)) >= 1 /\ Cardinality(Others(t)) >= 1
    <3>1. Direct(m) \in SUBSET Workers /\ Others(t) \in SUBSET Workers
      BY DEF Direct, Others
    <3> QED BY <1>4, <3>1, Counts
  <2>2. /\ Cardinality(Undrafted(t)) \in Nat /\ Cardinality(Ops(t)) \in Nat
        /\ Cardinality(Others(t)) \in Nat /\ Cardinality(Strays(t)) \in Nat
        /\ Cardinality(Direct(m)) \in Nat
    BY BudgetTypes, DirectTypes
  <2>3. Spent(m) \in Nat /\ Spent(m) >= log[m].answered + 1
    BY <1>1, <2>1, <2>2 DEF Spent
  <2>4. Charged(m) \/ Lent(m)
    BY DEF IInv, BudgetInv
  <2>5. Spent(m) <= Mishaps + 1 + log[m].released
    BY <1>1, <1>3, <2>1, <2>2, <2>3, <2>4 DEF Charged, Lent
  <2>6. log[m].released <= Mishaps
    BY <1>1, <1>6, BoxBounds
  <2> QED BY <1>1, <2>3, <2>5, <2>6
<1> QED BY <1>5, <1>6

\* An answer is one of the mailbox, or concerns no mail at all.
LEMMA BoxAnswer ==
  ASSUME IInv, NEW w \in Workers, Note(req[w].msg, "answered"), Mishaps' = Mishaps,
         req[w].pc \in {"send", "post", "resend"}
  PROVE  BoxStep
<1> PICK m : m = req[w].msg
  OBVIOUS
<1>1. CASE m \notin Messages
  <2>1. log' = log /\ rewrites' = rewrites
    BY <1>1, NoteOne DEF IInv
  <2> QED BY <2>1, BoxQuiet DEF hist
<1>2. CASE m \in Messages
  <2>1. w \in Answering(m)
    BY DEF Answering
  <2>2. log[m].answered < log[m].released + log[m].cleared
    BY <1>2, <2>1, BoxOwed
  <2>3. m \in rewrites \/ log[m].answered <= 2 * Mishaps
    <3>1. req[w].pc = "resend" => m \in rewrites
      BY DEF IInv, Belongs, WorkerOK
    <3> QED BY <1>2, <3>1, BoxSend, BoxPost
  <2>4. log' = [log EXCEPT ![m].answered = @ + 1] /\ rewrites' = rewrites
    BY DEF Note
  <2>5. Box!Answer(m)
    BY <2>2, <2>3, <2>4 DEF Box!Answer
  <2> QED BY <1>2, <2>5 DEF BoxStep, Box!Next
<1> QED BY <1>1, <1>2

LEMMA BoxTask ==
  ASSUME IInv, NEW w \in Workers, Task(w)
  PROVE  BoxStep
<1>0. Typed /\ Mishaps \in Nat
  BY MishapsType DEF IInv
<1>1. CASE CheckMark(w) \/ Ignore(w) \/ Triage(w) \/ Turn(w) \/ Notice(w) \/ NoticeSent(w)
  <2>1. hist' = hist /\ (Mishaps' = Mishaps \/ Mishaps' = Mishaps + 1)
    BY <1>0, <1>1, CheckMarkDoes, IgnoreDoes, TriageDoes, TurnDoes, NoticeDoes,
       NoticeSentDoes DEF Calm
  <2> QED BY <2>1, BoxQuiet
<1>2. CASE AddMark(w)
  <2>1. /\ Note(req[w].msg, "taken") /\ Mishaps' = Mishaps
        /\ req[w].pc = "add" /\ req[w].msg \in Messages
    BY <1>0, <1>2, AddMarkDoes DEF Calm
  <2>2. PICK m \in Messages : m = req[w].msg
    BY <2>1
  <2>3. TakenOK(m) /\ log[m].taken \in Nat
    BY LogTypes DEF IInv, TakenInv
  <2>4. Cardinality(Adders(m)) \in Nat /\ Cardinality(Adders(m)) >= 1
    <3>1. w \in Adders(m) /\ Adders(m) \in SUBSET Workers
      BY <2>1, <2>2 DEF Adders
    <3> QED BY <3>1, Counts
  <2>5. log[m].taken <= Mishaps
    BY <1>0, <2>3, <2>4 DEF TakenOK
  <2>6. log' = [log EXCEPT ![m].taken = @ + 1] /\ rewrites' = rewrites
    BY <2>1, <2>2 DEF Note
  <2>7. Box!TakeUp(m)
    BY <2>1, <2>5, <2>6 DEF Box!TakeUp
  <2> QED BY <2>7 DEF BoxStep, Box!Next
<1>3. CASE Evict(w)
  <2>1. hist' = hist /\ (Mishaps' = Mishaps \/ Mishaps' = Mishaps + 1)
    BY <1>0, <1>3, EvictDoes DEF Calm
  <2> QED BY <2>1, BoxQuiet
<1>4. CASE Verdict(w)
  <2>1. /\ Mishaps' = Mishaps /\ req[w].pc = "verdict" /\ req[w].msg \in Messages
        /\ hist' = hist \/ Note(req[w].msg, "released")
    BY <1>0, <1>4, VerdictDoes DEF Calm
  <2>2. CASE hist' = hist
    BY <2>1, <2>2, BoxQuiet
  <2>3. CASE Note(req[w].msg, "released")
    <3>1. PICK m \in Messages : m = req[w].msg
      BY <2>1
    <3>2. w \in Judging(m) /\ log[m].taken \in Nat /\ log[m].released \in Nat
      BY <1>0, <2>1, <3>1, LogTypes DEF Judging
    <3>3. log[m].released < log[m].taken
      BY <3>2, BoxBounds
    <3>4. log' = [log EXCEPT ![m].released = @ + 1] /\ rewrites' = rewrites
      BY <2>3, <3>1 DEF Note
    <3>5. Box!Release(m)
      BY <2>1, <3>3, <3>4 DEF Box!Release
    <3> QED BY <3>5 DEF BoxStep, Box!Next
  <2> QED BY <2>1, <2>2, <2>3
<1>5. CASE Park(w)
  <2>1. /\ Mishaps' = Mishaps /\ req[w].pc = "park" /\ req[w].msg \in Messages
        /\ log' = log
        /\ rewrites' = rewrites \/ rewrites' = rewrites \cup {req[w].msg}
    BY <1>0, <1>5, ParkDoes DEF Calm
  <2>2. CASE rewrites' = rewrites
    BY <2>1, <2>2, BoxQuiet DEF hist
  <2>3. CASE rewrites' = rewrites \cup {req[w].msg}
    <3>1. PICK m \in Messages : m = req[w].msg
      BY <2>1
    <3>2. Kept(m)
      BY <2>1, <3>1 DEF Kept, Gating
    <3>3. log[m].taken > 0
      <4>1. log[m].taken \in Nat /\ log[m].released \in Nat
        BY <1>0, LogTypes
      <4> QED BY <3>2, <4>1, BoxBounds
    <3>4. Box!Rewrite(m)
      BY <2>1, <2>3, <3>1, <3>3 DEF Box!Rewrite
    <3> QED BY <3>4 DEF BoxStep, Box!Next
  <2> QED BY <2>1, <2>2, <2>3
<1>6. CASE Post(w)
  <2>1. /\ Mishaps' = Mishaps /\ req[w].pc = "post"
        /\ Note(req[w].msg, "answered") \/ hist' = hist
    BY <1>0, <1>6, PostDoes DEF Calm
  <2> QED BY <2>1, BoxQuiet, BoxAnswer
<1> QED BY <1>1, <1>2, <1>3, <1>4, <1>5, <1>6 DEF Task

LEMMA BoxOperator ==
  ASSUME IInv, NEW w \in Workers, Operator(w)
  PROVE  BoxStep
<1>0. Typed /\ Mishaps \in Nat
  BY MishapsType DEF IInv
<1>1. CASE StampApproval(w) \/ Record(w) \/ Replay(w) \/ Reject(w)
  <2>1. hist' = hist /\ Mishaps' = Mishaps
    BY <1>0, <1>1, StampDoes, RecordDoes, ReplayDoes, RejectDoes DEF Calm
  <2> QED BY <2>1, BoxQuiet
<1>2. CASE RecordFails(w)
  <2>1. hist' = hist /\ Mishaps' = Mishaps + 1
    BY <1>0, <1>2, RecordFailsDoes
  <2> QED BY <2>1, BoxQuiet
<1>3. CASE Flip(w)
  <2>1. Note(req[w].copy.cls.parked, "cleared") /\ Mishaps' = Mishaps
    BY <1>0, <1>3, FlipDoes DEF Calm
  <2>2. PICK m : m = req[w].copy.cls.parked
    OBVIOUS
  <2>3. CASE m \notin Messages
    <3>1. log' = log /\ rewrites' = rewrites
      BY <1>0, <2>1, <2>2, <2>3, NoteOne
    <3> QED BY <2>1, <3>1, BoxQuiet DEF hist
  <2>4. CASE m \in Messages
    <3>1. Kept(m)
      BY <2>2 DEF Kept
    <3>2. log[m].taken > 0
      <4>1. log[m].taken \in Nat /\ log[m].released \in Nat
        BY <1>0, <2>4, LogTypes
      <4> QED BY <2>4, <3>1, <4>1, BoxBounds
    <3>3. log' = [log EXCEPT ![m].cleared = @ + 1] /\ rewrites' = rewrites
      BY <2>1, <2>2 DEF Note
    <3>4. Box!Clear(m)
      BY <2>1, <3>2, <3>3 DEF Box!Clear
    <3> QED BY <2>4, <3>4 DEF BoxStep, Box!Next
  <2> QED BY <2>3, <2>4
<1>4. CASE Send(w)
  <2>1. /\ Mishaps' = Mishaps /\ req[w].pc = "send"
        /\ Note(req[w].msg, "answered") \/ hist' = hist
    BY <1>0, <1>4, SendDoes DEF Calm
  <2> QED BY <2>1, BoxQuiet, BoxAnswer
<1>5. CASE Resend(w)
  <2>1. /\ Mishaps' = Mishaps /\ req[w].pc = "resend"
        /\ Note(req[w].msg, "answered") \/ hist' = hist
    BY <1>0, <1>5, PostDoes DEF Calm
  <2> QED BY <2>1, BoxQuiet, BoxAnswer
<1> QED BY <1>1, <1>2, <1>3, <1>4, <1>5 DEF Operator

\* The code keeps what the mailbox promises: nothing is answered that was
\* neither released nor cleared, and what a mail with a prepared reply is
\* answered more than once takes mishaps, one for at most two.
THEOREM KeepsMailbox == Spec => AnswersAccounted
<1>1. Init => Box!Init
  BY DEF Init, Box!Init, Mishaps
<1>2. IInv /\ [Next]_vars => BoxStep
  <2> SUFFICES ASSUME IInv, [Next]_vars PROVE BoxStep
    OBVIOUS
  <2>0. Typed /\ Mishaps \in Nat
    BY MishapsType DEF IInv
  <2>1. ASSUME NEW k \in Containers, Crash(k) PROVE BoxStep
    <3>1. hist' = hist /\ Mishaps' = Mishaps + 1
      BY <2>0, <2>1, CrashDoes
    <3> QED BY <3>1, BoxQuiet
  <2>2. ASSUME NEW w \in Workers, NEW m \in Messages, Deliver(w, m) PROVE BoxStep
    <3>1. hist' = hist /\ (Mishaps' = Mishaps \/ Mishaps' = Mishaps + 1)
      BY <2>0, <2>2, DeliverDoes
    <3> QED BY <3>1, BoxQuiet
  <2>3. ASSUME NEW w \in Workers, NEW c \in Convs, Click(w, c) \/ ClickReject(w, c)
        PROVE  BoxStep
    <3>1. hist' = hist /\ (Mishaps' = Mishaps \/ Mishaps' = Mishaps + 1)
      BY <2>0, <2>3, ClickDoes
    <3> QED BY <3>1, BoxQuiet
  <2>4. CASE UNCHANGED vars
    BY <2>4, BoxQuiet DEF vars, hist, Mishaps
  <2> QED BY <2>1, <2>2, <2>3, <2>4, BoxTask, BoxOperator DEF Next
<1> QED BY <1>1, <1>2, IInvCorrect, PTL DEF Spec, AnswersAccounted, Box!Spec, BoxStep
=============================================================================
