---------------------------- MODULE Engagement ----------------------------
(***************************************************************************)
(* Missive mail: the webhook and its background task (app.py), the triage  *)
(* of the classifier, the engagement gate that parks a reply until the     *)
(* operator approves or rejects the thread (admin_api.py), and the notice  *)
(* that asks the operator (notifications.py).                              *)
(*                                                                         *)
(* A conversation row is read into a session's private copy and written    *)
(* back column by column; engagement_classification is ONE JSON column, so *)
(* whoever writes it writes all of it.  Tasks and handlers are cut at each *)
(* call of the model, Missive or the notifier and at each commit.  They    *)
(* run in one or several containers, which share the database and nothing  *)
(* else.                                                                   *)
(*                                                                         *)
(* Left out: which products are quoted and for how much, customer columns, *)
(* attachments, labels, and the deletion of conversations.                 *)
(***************************************************************************)
EXTENDS Naturals, Sequences, FiniteSets

CONSTANTS
  Messages,     \* ids of inbound mails
  Threads,      \* Missive conversation ids
  ThreadOf,     \* the thread of each mail
  Convs,        \* ids of conversation rows
  Containers,   \* containers of the service, each with a memory of its own
  Workers,      \* background tasks and handlers in flight at once
  HomeOf,       \* the container each of them runs in
  None,         \* no row, no mail
  Cap,          \* _DRAFTED_FOR_MESSAGES_CAP
  MaxRequests,  \* bound: webhook deliveries and clicks
  MaxOverlaps,  \* bound: those begun while another one works on the thread
  MaxFaults     \* bound: restarts and replies sent but not recorded

ASSUME ENAssumption ==
  /\ ThreadOf \in [Messages -> Threads]
  /\ HomeOf \in [Workers -> Containers]
  /\ None \notin Messages /\ None \notin Convs /\ None \notin Threads
  /\ IsFiniteSet(Workers) /\ IsFiniteSet(Convs)
  /\ Cap \in Nat \ {0}
  /\ MaxRequests \in Nat /\ MaxOverlaps \in Nat /\ MaxFaults \in Nat

(***************************************************************************)
(* engagement_classification: the mail whose reply is parked, whether that *)
(* reply is empty once the markers are stripped, and its time stamps.      *)
(***************************************************************************)
Cls == [parked: Messages \cup {None}, blank: BOOLEAN, noticed: BOOLEAN,
        approved: BOOLEAN, drafted: BOOLEAN, rejected: BOOLEAN]

NoCls == [parked |-> None, blank |-> FALSE, noticed |-> FALSE,
          approved |-> FALSE, drafted |-> FALSE, rejected |-> FALSE]

\* "open" stands for every status that has nothing to do with the gate
\* (open, quoted, escalated, awaiting_contact, order_placed).
Statuses == {"open", "pending", "approved", "rejected"}

\* talked: messages holds a turn of the assistant (is_thread_reply).
Row == [thread: Threads \cup {None}, status: Statuses, talked: BOOLEAN,
        cls: Cls]

NoRow == [thread |-> None, status |-> "open", talked |-> FALSE, cls |-> NoCls]

\* copy is the row as the session last loaded it.
Request ==
  [pc: {"idle", "check", "add", "evict", "triage", "verdict", "turn", "park",
        "notice", "mailed", "post", "click", "flip", "send", "record",
        "replay", "resend", "reject"},
   msg: Messages \cup {None}, conv: Convs \cup {None}, gate: BOOLEAN,
   copy: Row]

Idle == [pc |-> "idle", msg |-> None, conv |-> None, gate |-> FALSE,
         copy |-> NoRow]

VARIABLES
  rows,      \* conversation rows, NoRow where there is none
  pend,      \* rows that have a quote in pending_approval or needs_revision
  seen,      \* _DRAFTED_FOR_MESSAGES of each container
  order,     \* _DRAFTED_FOR_MESSAGES_ORDER of each container
  req,       \* what each worker runs, with its session's copy of the row
  log,       \* history per mail, see Mailbox
  rewrites,  \* mails parked with a reply that is empty without its markers
  used       \* counters: requests, those begun while another one worked on
             \* the thread, restarts, ids forgotten, successes not recorded,
             \* mails that only another container remembers

vars == <<rows, pend, seen, order, req, log, rewrites, used>>

Mishaps ==
  used.overlaps + used.crashes + used.evicted + used.lost + used.strays

Box == INSTANCE Mailbox WITH mishaps <- Mishaps

TypeOK ==
  /\ rows \in [Convs -> Row]
  /\ pend \subseteq Convs
  /\ seen \in [Containers -> SUBSET Messages]
  /\ order \in [Containers -> Seq(Messages)]
  /\ req \in [Workers -> Request]
  /\ log \in [Messages -> [taken: Nat, released: Nat, cleared: Nat,
                           answered: Nat]]
  /\ rewrites \subseteq Messages
  /\ used \in [requests: Nat, overlaps: Nat, crashes: Nat, evicted: Nat,
               lost: Nat, strays: Nat]

Init ==
  /\ rows = [c \in Convs |-> NoRow]
  /\ pend = {}
  /\ seen = [k \in Containers |-> {}]
  /\ order = [k \in Containers |-> <<>>]
  /\ req = [w \in Workers |-> Idle]
  /\ log = [m \in Messages |-> Box!Fresh]
  /\ rewrites = {}
  /\ used = [requests |-> 0, overlaps |-> 0, crashes |-> 0, evicted |-> 0,
             lost |-> 0, strays |-> 0]

memory == <<seen, order>>
hist   == <<log, rewrites>>

-----------------------------------------------------------------------------
At(w, pc) == req[w].pc = pc

Of(t) == {c \in Convs : rows[c].thread = t}

Works(t) ==
  \E w \in Workers : \/ req[w].msg \in {m \in Messages : ThreadOf[m] = t}
                     \/ req[w].conv \in Of(t)

\* A free worker takes on a request for thread t.
Begin(w, t, r) ==
  /\ At(w, "idle")
  /\ used.requests < MaxRequests
  /\ Works(t) => used.overlaps < MaxOverlaps
  /\ used' = [used EXCEPT !.requests = @ + 1,
                          !.overlaps = IF Works(t) THEN @ + 1 ELSE @]
  /\ req' = [req EXCEPT ![w] = r]

Goto(w, pc) == req' = [req EXCEPT ![w].pc = pc]

Finish(w) == req' = [req EXCEPT ![w] = Idle]

\* The UPDATE of a commit leaves a column alone whose value the session did
\* not change.
Update(row, copy, new) ==
  [thread |-> row.thread,
   status |-> IF new.status # copy.status THEN new.status ELSE row.status,
   talked |-> row.talked \/ new.talked,
   cls    |-> IF new.cls # copy.cls THEN new.cls ELSE row.cls]

Note(m, field) ==
  /\ log' = [log EXCEPT ![m][field] = @ + 1]
  /\ UNCHANGED rewrites

-----------------------------------------------------------------------------
(***************************************************************************)
(* The webhook verifies the signature, answers 200 and leaves the mail to  *)
(* a background task.  Missive may deliver a mail again at any time.       *)
(***************************************************************************)
Deliver(w, m) ==
  /\ Begin(w, ThreadOf[m], [Idle EXCEPT !.pc = "check", !.msg = m])
  /\ UNCHANGED <<rows, pend, memory, hist>>

(***************************************************************************)
(* _mark_drafted: test, then add, then evict, in a thread beside others.   *)
(* The memory is a global of the process: a mail that came to another      *)
(* container before is not recognised.                                     *)
(***************************************************************************)
Known(m) == \E k \in Containers : m \in seen[k]

\* Seeded fault: the test is left out.
Bug_CheckMark(w) ==
  /\ At(w, "check")
  /\ Goto(w, "add")
  /\ UNCHANGED <<rows, pend, memory, hist, used>>

CheckMark(w) ==
  LET m == req[w].msg
  IN /\ At(w, "check")
     /\ \/ m \in seen[HomeOf[w]] /\ Finish(w) /\ UNCHANGED used
        \/ /\ m \notin seen[HomeOf[w]] /\ Goto(w, "add")
           /\ used' = IF Known(m) THEN [used EXCEPT !.strays = @ + 1] ELSE used
     /\ UNCHANGED <<rows, pend, memory, hist>>

AddMark(w) ==
  LET k == HomeOf[w]
      m == req[w].msg
  IN /\ At(w, "add")
     /\ seen' = [seen EXCEPT ![k] = @ \cup {m}]
     /\ order' = [order EXCEPT ![k] = Append(@, m)]
     /\ Note(m, "taken")
     /\ Goto(w, "evict")
     /\ UNCHANGED <<rows, pend, used>>

Evict(w) ==
  LET k == HomeOf[w]
  IN /\ At(w, "evict")
     /\ IF Len(order[k]) > Cap
        THEN /\ order' = [order EXCEPT ![k] = Tail(@)]
             /\ seen' = [seen EXCEPT ![k] = @ \ {Head(order[k])}]
             /\ used' = [used EXCEPT !.evicted = @ + 1]
             /\ UNCHANGED req
        ELSE Goto(w, "triage") /\ UNCHANGED <<memory, used>>
     /\ UNCHANGED <<rows, pend, hist>>

(***************************************************************************)
(* Dropped without a trace: the channel is off, the mail is the shop's own *)
(* or obvious junk, or it is empty.                                        *)
(***************************************************************************)
Ignore(w) ==
  /\ At(w, "triage")
  /\ Finish(w)
  /\ UNCHANGED <<rows, pend, memory, hist, used>>

\* The thread's conversation, any of them when there are several.
Triage(w) ==
  LET mine == Of(ThreadOf[req[w].msg])
  IN /\ At(w, "triage")
     /\ \E c \in IF mine = {} THEN {None} ELSE mine :
          req' = [req EXCEPT ![w].pc = "verdict", ![w].conv = c,
                             ![w].copy = IF c = None THEN NoRow ELSE rows[c]]
     /\ UNCHANGED <<rows, pend, memory, hist, used>>

(***************************************************************************)
(* The classifier's confidence lies below LOW_CONFIDENCE_FLOOR, below the  *)
(* tenant's threshold or at least at it; a classifier that fails is sure   *)
(* that it saw a quote inquiry.                                            *)
(***************************************************************************)
Gated(w, conf, quote) == conf = "mid" \/ (req[w].copy.talked /\ ~quote)

\* Seeded fault: the status of the thread is not looked at.
Bug_Dropped(w, conf, quote) ==
  \/ conf = "low"
  \/ ~Gated(w, conf, quote) /\ ~quote

Dropped(w, conf, quote) ==
  \/ req[w].copy.status = "rejected"
  \/ conf = "low"
  \/ ~Gated(w, conf, quote) /\ ~quote

Verdict(w) ==
  /\ At(w, "verdict")
  /\ \E conf \in {"low", "mid", "high"}, quote \in BOOLEAN :
       \/ /\ Dropped(w, conf, quote)
          /\ Finish(w)
          /\ UNCHANGED hist
       \/ /\ ~Dropped(w, conf, quote)
          /\ req' = [req EXCEPT ![w].pc = "turn",
                                ![w].gate = Gated(w, conf, quote)]
          /\ IF Gated(w, conf, quote) THEN UNCHANGED hist
             ELSE Note(req[w].msg, "released")
  /\ UNCHANGED <<rows, pend, memory, used>>

(***************************************************************************)
(* One turn of chat_with_craig.  Without an existing row it adds one; it   *)
(* may hand over a quote, and sets the status when it does, escalates or   *)
(* takes an order.                                                         *)
(***************************************************************************)
Talk(w, c, t, quoted, s, pc) ==
  LET copy == req[w].copy
      row == IF req[w].conv = None THEN [NoRow EXCEPT !.thread = t] ELSE rows[c]
      new == Update(row, copy, [copy EXCEPT !.status = s, !.talked = TRUE])
  IN /\ quoted => s = "open"
     /\ rows' = [rows EXCEPT ![c] = new]
     /\ pend' = IF quoted THEN pend \cup {c} ELSE pend
     /\ req' = [req EXCEPT ![w] = IF pc = "idle" THEN Idle
                  ELSE [@ EXCEPT !.pc = pc, !.conv = c, !.copy = new]]

\* An empty reply ends the task, whatever the gate says.
Turn(w) ==
  /\ At(w, "turn")
  /\ \E c \in Convs, quoted \in BOOLEAN, s \in {"open", req[w].copy.status} :
       /\ IF req[w].conv = None THEN rows[c] = NoRow ELSE c = req[w].conv
       /\ \E pc \in {"idle", IF req[w].gate THEN "park" ELSE "post"} :
            Talk(w, c, ThreadOf[req[w].msg], quoted, s, pc)
  /\ UNCHANGED <<memory, hist, used>>

(***************************************************************************)
(* A gated reply is parked; the copy dates from the turn's commit or from  *)
(* a later one of the same task (the sender's address).                    *)
(***************************************************************************)
Park(w) ==
  LET c == req[w].conv
      m == req[w].msg
  IN /\ At(w, "park")
     /\ \E copy \in {req[w].copy, rows[c]}, blank \in BOOLEAN :
          /\ rows' = [rows EXCEPT ![c] =
               [Update(@, copy, [copy EXCEPT !.status = "pending"])
                  EXCEPT !.cls = [copy.cls EXCEPT !.parked = m,
                                                  !.blank = blank]]]
          /\ rewrites' = IF blank THEN rewrites \cup {m} ELSE rewrites
     /\ Goto(w, "notice")
     /\ UNCHANGED <<pend, memory, log, used>>

\* trigger_engagement_approval_notification: reads the row, sends an email,
\* and writes the whole classification back, also when the email failed.
Notice(w) ==
  LET row == rows[req[w].conv]
  IN /\ At(w, "notice")
     /\ IF row.cls.noticed THEN Finish(w)
        ELSE req' = [req EXCEPT ![w].pc = "mailed", ![w].copy = row]
     /\ UNCHANGED <<rows, pend, memory, hist, used>>

NoticeSent(w) ==
  /\ At(w, "mailed")
  /\ \E ok \in BOOLEAN :
       rows' = [rows EXCEPT ![req[w].conv].cls =
                  [req[w].copy.cls EXCEPT !.noticed = ok]]
  /\ Finish(w)
  /\ UNCHANGED <<pend, memory, hist, used>>

\* create_draft: the reply reaches the thread, or the call fails for good.
Post(w) ==
  /\ At(w, "post")
  /\ Note(req[w].msg, "answered") \/ UNCHANGED hist
  /\ Finish(w)
  /\ UNCHANGED <<rows, pend, memory, used>>

-----------------------------------------------------------------------------
(***************************************************************************)
(* approve_engagement.  A thread whose reply was posted is left alone.     *)
(***************************************************************************)
Click(w, c) ==
  /\ rows[c].status \in {"pending", "approved"}
  /\ ~rows[c].cls.drafted
  /\ Begin(w, rows[c].thread,
           [Idle EXCEPT !.pc = "click", !.conv = c, !.copy = rows[c]])
  /\ UNCHANGED <<rows, pend, memory, hist>>

StampApproval(w) ==
  LET copy == req[w].copy
      new == Update(rows[req[w].conv], copy, [copy EXCEPT !.cls.approved = TRUE])
  IN /\ At(w, "click")
     /\ IF copy.cls.approved THEN Goto(w, "flip") /\ UNCHANGED rows
        ELSE /\ rows' = [rows EXCEPT ![req[w].conv] = new]
             /\ req' = [req EXCEPT ![w].pc = "flip", ![w].copy = new]
     /\ UNCHANGED <<pend, memory, hist, used>>

(***************************************************************************)
(* _replay_craig_on_engagement_approval: a prepared reply is posted as it  *)
(* is, after the status is committed; an empty one is written anew (its    *)
(* flush of the status is seen by others at the commit of the turn).       *)
(***************************************************************************)
Flip(w) ==
  LET c == req[w].conv
      copy == req[w].copy
  IN /\ At(w, "flip")
     /\ Note(copy.cls.parked, "cleared")
     /\ req' = [req EXCEPT ![w].msg = copy.cls.parked,
                           ![w].pc = IF copy.cls.blank THEN "replay" ELSE "send"]
     /\ IF copy.cls.blank THEN UNCHANGED rows
        ELSE rows' = [rows EXCEPT ![c] =
                        Update(@, copy, [copy EXCEPT !.status = "approved"])]
     /\ UNCHANGED <<pend, memory, used>>

Send(w) ==
  /\ At(w, "send")
  /\ \/ Note(req[w].msg, "answered") /\ Goto(w, "record")
     \/ UNCHANGED hist /\ Finish(w)
  /\ UNCHANGED <<rows, pend, memory, used>>

Record(w) ==
  /\ At(w, "record")
  /\ rows' = [rows EXCEPT ![req[w].conv].cls =
                [req[w].copy.cls EXCEPT !.drafted = TRUE]]
  /\ Finish(w)
  /\ UNCHANGED <<pend, memory, hist, used>>

\* The answer of Missive got lost, or the commit failed.
RecordFails(w) ==
  /\ At(w, "record")
  /\ used.crashes + used.lost < MaxFaults
  /\ used' = [used EXCEPT !.lost = @ + 1]
  /\ Finish(w)
  /\ UNCHANGED <<rows, pend, memory, hist>>

Replay(w) ==
  /\ At(w, "replay")
  /\ \E quoted \in BOOLEAN, s \in {"open", "approved"}, pc \in {"idle", "resend"} :
       Talk(w, req[w].conv, None, quoted, s, pc)
  /\ UNCHANGED <<memory, hist, used>>

\* Nothing records that this reply was posted.
Resend(w) ==
  /\ At(w, "resend")
  /\ Note(req[w].msg, "answered") \/ UNCHANGED hist
  /\ Finish(w)
  /\ UNCHANGED <<rows, pend, memory, used>>

(***************************************************************************)
(* reject_engagement, which also rejects the quotes of the conversation.   *)
(***************************************************************************)
ClickReject(w, c) ==
  /\ rows[c].status \in {"pending", "rejected"}
  /\ Begin(w, rows[c].thread,
           [Idle EXCEPT !.pc = "reject", !.conv = c, !.copy = rows[c]])
  /\ UNCHANGED <<rows, pend, memory, hist>>

\* Seeded fault: the quotes stay in the operator's queue.
Bug_Reject(w) ==
  LET copy == req[w].copy
  IN /\ At(w, "reject")
     /\ rows' = [rows EXCEPT ![req[w].conv] =
          Update(@, copy, [copy EXCEPT !.status = "rejected",
                                       !.cls.rejected = TRUE])]
     /\ Finish(w)
     /\ UNCHANGED <<pend, memory, hist, used>>

Reject(w) ==
  LET copy == req[w].copy
  IN /\ At(w, "reject")
     /\ rows' = [rows EXCEPT ![req[w].conv] =
          Update(@, copy, [copy EXCEPT !.status = "rejected",
                                       !.cls.rejected = TRUE])]
     /\ pend' = pend \ {req[w].conv}
     /\ Finish(w)
     /\ UNCHANGED <<memory, hist, used>>

\* A container's end ends its tasks and handlers, and its memory is lost.
Crash(k) ==
  /\ used.crashes + used.lost < MaxFaults
  /\ used' = [used EXCEPT !.crashes = @ + 1]
  /\ req' = [w \in Workers |-> IF HomeOf[w] = k THEN Idle ELSE req[w]]
  /\ seen' = [seen EXCEPT ![k] = {}]
  /\ order' = [order EXCEPT ![k] = <<>>]
  /\ UNCHANGED <<rows, pend, hist>>

-----------------------------------------------------------------------------
Task(w) ==
  \/ CheckMark(w) \/ AddMark(w) \/ Evict(w)
  \/ Ignore(w) \/ Triage(w) \/ Verdict(w) \/ Turn(w)
  \/ Park(w) \/ Notice(w) \/ NoticeSent(w) \/ Post(w)

Operator(w) ==
  \/ StampApproval(w) \/ Flip(w) \/ Send(w) \/ Record(w) \/ RecordFails(w)
  \/ Replay(w) \/ Resend(w) \/ Reject(w)

Next ==
  \/ \E k \in Containers : Crash(k)
  \/ \E w \in Workers :
       \/ Task(w)
       \/ Operator(w)
       \/ \E m \in Messages : Deliver(w, m)
       \/ \E c \in Convs : Click(w, c) \/ ClickReject(w, c)

Spec == Init /\ [][Next]_vars

-----------------------------------------------------------------------------
(***************************************************************************)
(* Properties.                                                             *)
(***************************************************************************)
\* Every future mail of a thread maps back to one conversation row (app.py:
\* find-or-create on external_id).  A second row takes a second request that
\* began while the first one was still at work.
OneConversation ==
  \A t \in Threads : Cardinality(Of(t)) <= 1 + used.overlaps

\* A rejected thread stays rejected and silent, across mails, clicks and
\* restarts, as long as no two requests for the thread overlap
\* (reject_engagement: "Future inbound is silently dropped").
RejectionStands ==
  [][used'.overlaps = 0 =>
       \A c \in Convs : rows[c].status = "rejected" =>
         /\ rows'[c].status = "rejected"
         /\ \A m \in Messages : ThreadOf[m] = rows[c].thread =>
              log'[m].answered = log[m].answered]_vars

\* A rejected thread leaves no quote behind in the operator's queue, unless
\* a request overlapped the rejection (reject_engagement, v37.1).
RejectedHasNoQuote ==
  used.overlaps = 0 =>
    \A c \in Convs : rows[c].status = "rejected" => c \notin pend

\* The mailbox as a customer sees it: nothing is answered that was neither
\* released nor cleared, and a second answer to a mail takes a mishap, or a
\* reply that was never prepared (refinement of Mailbox).
AnswersAccounted == Box!Spec

\* A duplicate delivery of a mail is recognised while its id is remembered
\* (app.py, _mark_drafted: "Returns False on a duplicate webhook delivery").
\* It does not hold: the memory is each process's own, and a second delivery
\* that lands in another container is taken up again.
DuplicateRecognised ==
  used.overlaps + used.crashes + used.evicted = 0 =>
    \A m \in Messages : log[m].taken <= 1

\* The operator decides on every parked reply (app.py: "Tier 2: notify
\* Justin ... Justin gets to decide"): approving a pending thread posts.
\* It does not hold: a second mail parked on a thread that was answered is
\* taken for a repeated click, and stays pending.
PendingIsAnswerable ==
  \A c \in Convs : rows[c].status = "pending" => ~rows[c].cls.drafted
=============================================================================
