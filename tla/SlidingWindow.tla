--------------------------- MODULE SlidingWindow ---------------------------
(***************************************************************************)
(* What rate_limiter.py promises its routes ("strict per-window            *)
(* guarantees"): a request is admitted exactly when fewer than Limit       *)
(* requests of the same client for the same route were admitted in the     *)
(* Window that ends now.  Nothing is said of how that is remembered.       *)
(***************************************************************************)
EXTENDS Naturals, Sequences, FiniteSets

CONSTANTS Keys, Limit, Window

VARIABLES
  now,     \* the clock
  log,     \* per key, the times of all admissions of this process
  answer   \* per key, the last answer

vars == <<now, log, answer>>

Recent(k) == {i \in DOMAIN log[k] : now - log[k][i] <= Window}

Init ==
  /\ now \in Nat
  /\ log = [k \in Keys |-> <<>>]
  /\ answer = [k \in Keys |-> "none"]

Tick == now' > now /\ UNCHANGED <<log, answer>>

Admit(k) ==
  /\ Cardinality(Recent(k)) < Limit[k]
  /\ log' = [log EXCEPT ![k] = Append(@, now)]
  /\ answer' = [answer EXCEPT ![k] = "ok"]
  /\ UNCHANGED now

Refuse(k) ==
  /\ Cardinality(Recent(k)) >= Limit[k]
  /\ answer' = [answer EXCEPT ![k] = "429"]
  /\ UNCHANGED <<now, log>>

\* The process restarts and forgets.
Restart ==
  /\ now' \in Nat
  /\ log' = [k \in Keys |-> <<>>]
  /\ answer' = [k \in Keys |-> "none"]

Next == Tick \/ Restart \/ \E k \in Keys : Admit(k) \/ Refuse(k)

Spec == Init /\ [][Next]_vars
=============================================================================
