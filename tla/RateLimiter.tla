---------------------------- MODULE RateLimiter ----------------------------
(***************************************************************************)
(* rate_limiter.py: the in-memory limiter in front of the public routes.   *)
(* A key is a client address and a route; a route has one limit.  The      *)
(* dependency runs on the event loop without awaiting, so one request is   *)
(* one step.  Time is the monotonic clock in ticks: it is finer than the   *)
(* whole seconds of the Retry-After header.                                *)
(***************************************************************************)
EXTENDS Naturals, Sequences

CONSTANTS
  Keys,     \* (client ip, route) pairs
  Limit,    \* per key, the limit of its route
  Window,   \* WINDOW_SECONDS, in ticks
  Second,   \* ticks per second
  MaxTime   \* bound on the clock

ASSUME RLAssumption ==
  /\ Limit \in [Keys -> Nat \ {0}]
  /\ Window \in Nat /\ Second \in Nat \ {0}
  /\ MaxTime \in Nat

VARIABLES
  now,      \* monotonic()
  buckets,  \* per key, the deque of admission times still remembered
  told,     \* per key, when Retry-After said to return; 0 once admitted
  log,      \* history: every admission of this process
  answer    \* history: the last answer

vars == <<now, buckets, told, log, answer>>

TypeOK ==
  /\ now \in Nat
  /\ buckets \in [Keys -> Seq(Nat)] /\ log \in [Keys -> Seq(Nat)]
  /\ told \in [Keys -> Nat]
  /\ answer \in [Keys -> {"none", "ok", "429"}]

Init ==
  /\ now = 0
  /\ buckets = [k \in Keys |-> <<>>]
  /\ told = [k \in Keys |-> 0]
  /\ log = [k \in Keys |-> <<>>]
  /\ answer = [k \in Keys |-> "none"]

Tick ==
  /\ now < MaxTime
  /\ now' = now + 1
  /\ UNCHANGED <<buckets, told, log, answer>>

\* Seeded fault: an entry leaves when it is just as old as the window.
Bug_Expired(q, d) ==
  /\ d \in 0..Len(q)
  /\ \A i \in 1..d : now - q[i] >= Window
  /\ d < Len(q) => now - q[d + 1] < Window

(***************************************************************************)
(* The while loop: d entries leave the front of the deque, each older than *)
(* the window, up to the first that is not.                                *)
(***************************************************************************)
Expired(q, d) ==
  /\ d \in 0..Len(q)
  /\ \A i \in 1..d : now - q[i] > Window
  /\ d < Len(q) => now - q[d + 1] <= Window

Kept(q, d) == SubSeq(q, d + 1, Len(q))

\* Seeded fault: min for max.
Bug_RetryAfter(q) ==
  LET whole == (Window - (now - q[1])) \div Second
  IN  IF whole > 1 THEN 1 ELSE whole

RetryAfter(q) ==
  LET whole == (Window - (now - q[1])) \div Second
  IN  IF whole > 1 THEN whole ELSE 1

Admit(k) ==
  \E d \in 0..Len(buckets[k]) :
    /\ Expired(buckets[k], d)
    /\ Len(Kept(buckets[k], d)) < Limit[k]
    /\ buckets' = [buckets EXCEPT ![k] = Append(Kept(@, d), now)]
    /\ told' = [told EXCEPT ![k] = 0]
    /\ log' = [log EXCEPT ![k] = Append(@, now)]
    /\ answer' = [answer EXCEPT ![k] = "ok"]
    /\ UNCHANGED now

\* Seeded fault: a refused request occupies the window too.
Bug_RefusedCounts(k) ==
  \E d \in 0..Len(buckets[k]) :
    LET q == Kept(buckets[k], d) IN
    /\ Expired(buckets[k], d)
    /\ Len(q) >= Limit[k]
    /\ buckets' = [buckets EXCEPT ![k] = Append(q, now)]
    /\ told' = [told EXCEPT ![k] = now + Second * RetryAfter(q)]
    /\ answer' = [answer EXCEPT ![k] = "429"]
    /\ UNCHANGED <<now, log>>

Refuse(k) ==
  \E d \in 0..Len(buckets[k]) :
    LET q == Kept(buckets[k], d) IN
    /\ Expired(buckets[k], d)
    /\ Len(q) >= Limit[k]
    /\ buckets' = [buckets EXCEPT ![k] = q]
    /\ told' = [told EXCEPT ![k] = now + Second * RetryAfter(q)]
    /\ answer' = [answer EXCEPT ![k] = "429"]
    /\ UNCHANGED <<now, log>>

\* A container restart: the buckets are in memory only.
Restart ==
  /\ now' = 0
  /\ buckets' = [k \in Keys |-> <<>>]
  /\ told' = [k \in Keys |-> 0]
  /\ log' = [k \in Keys |-> <<>>]
  /\ answer' = [k \in Keys |-> "none"]

Next == Tick \/ Restart \/ \E k \in Keys : Admit(k) \/ Refuse(k)

Spec == Init /\ [][Next]_vars

-----------------------------------------------------------------------------
(***************************************************************************)
(* rate_limit: in no window whatsoever, wherever it begins, does one key   *)
(* get more than its limit.                                                *)
(***************************************************************************)
AtMostLimit ==
  \A k \in Keys : \A i \in DOMAIN log[k] :
    i + Limit[k] <= Len(log[k]) => log[k][i + Limit[k]] - log[k][i] > Window

(***************************************************************************)
(* The deque is enough to decide: it is the tail of the whole history, and *)
(* what it forgot is out of every window to come.  No deque outgrows its   *)
(* limit, and the clock never runs behind it.                              *)
(***************************************************************************)
Ascending(s) == \A i, j \in DOMAIN s : i <= j => s[i] <= s[j]

RemembersEnough ==
  \A k \in Keys :
    LET gone == Len(log[k]) - Len(buckets[k]) IN
    /\ Len(buckets[k]) <= Limit[k]
    /\ Len(buckets[k]) <= Len(log[k])
    /\ buckets[k] = SubSeq(log[k], gone + 1, Len(log[k]))
    /\ \A i \in 1..gone : now - log[k][i] > Window
    /\ Ascending(log[k]) /\ \A i \in DOMAIN log[k] : log[k][i] <= now

(***************************************************************************)
(* The Retry-After header: a client that waits as long as it was told, and *)
(* one second more, is not refused again unless it was admitted meanwhile. *)
(***************************************************************************)
RefusedAgain(k) == told[k] # 0 /\ told'[k] # 0 /\ told'[k] # told[k]

RetryAfterIsClose ==
  [][\A k \in Keys : RefusedAgain(k) => now < told[k] + Second]_vars

(***************************************************************************)
(* The comment on the header, "time until the oldest request ages out":    *)
(* whoever waits as long as it was told is not refused again. It does not  *)
(* hold: the header is cut to whole seconds, and an entry just as old as   *)
(* the window still counts. RetryAfterIsClose is what does hold.           *)
(***************************************************************************)
RetryAfterIsEnough ==
  [][\A k \in Keys : RefusedAgain(k) => now < told[k]]_vars

\* The promise the limiter implements, with the history as its state.
Promise == INSTANCE SlidingWindow
ImplementsPromise == Promise!Spec
=============================================================================
