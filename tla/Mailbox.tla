------------------------------ MODULE Mailbox ------------------------------
(***************************************************************************)
(* What the shop expects of the assistant that answers its mailbox: a      *)
(* customer's mail is taken up once and answered at most once, on the      *)
(* assistant's own judgement or after the operator cleared it.  Anything   *)
(* beyond that needs a mishap (two requests on one thread at once, a       *)
(* restart, a forgotten message id, a second delivery to a container that  *)
(* did not see the first, a success that was not recorded), and a mishap   *)
(* accounts for two extra answers at most, one by the assistant itself and *)
(* one by the operator.                                                    *)
(***************************************************************************)
EXTENDS Naturals

CONSTANTS Messages   \* ids of the customers' mails

VARIABLES
  log,      \* per mail: how often it was taken up, released for an answer by
            \* the assistant itself, cleared by the operator, and answered
  rewrites, \* mails without a prepared reply: every clearance writes one
  mishaps   \* number of mishaps so far

mailbox == <<log, rewrites, mishaps>>

Fresh == [taken |-> 0, released |-> 0, cleared |-> 0, answered |-> 0]

Init ==
  /\ log = [m \in Messages |-> Fresh]
  /\ rewrites = {}
  /\ mishaps = 0

TakeUp(m) ==
  /\ log[m].taken <= mishaps
  /\ log' = [log EXCEPT ![m].taken = @ + 1]
  /\ UNCHANGED <<rewrites, mishaps>>

Release(m) ==
  /\ log[m].released < log[m].taken
  /\ log' = [log EXCEPT ![m].released = @ + 1]
  /\ UNCHANGED <<rewrites, mishaps>>

Clear(m) ==
  /\ log[m].taken > 0
  /\ log' = [log EXCEPT ![m].cleared = @ + 1]
  /\ UNCHANGED <<rewrites, mishaps>>

Rewrite(m) ==
  /\ log[m].taken > 0
  /\ rewrites' = rewrites \cup {m}
  /\ UNCHANGED <<log, mishaps>>

\* Released or cleared, and not answered before - or a mishap explains it.
Answer(m) ==
  /\ log[m].answered < log[m].released + log[m].cleared
  /\ m \in rewrites \/ log[m].answered <= 2 * mishaps
  /\ log' = [log EXCEPT ![m].answered = @ + 1]
  /\ UNCHANGED <<rewrites, mishaps>>

Mishap ==
  /\ mishaps' = mishaps + 1
  /\ UNCHANGED <<log, rewrites>>

Next ==
  \/ Mishap
  \/ \E m \in Messages :
       TakeUp(m) \/ Release(m) \/ Clear(m) \/ Rewrite(m) \/ Answer(m)

Spec == Init /\ [][Next]_mailbox
=============================================================================
