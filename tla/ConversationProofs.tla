-------------------------- MODULE ConversationProofs --------------------------
(***************************************************************************)
(* Conversation, for any number of requests, workers, messages and quotes. *)
(*                                                                         *)
(* The gates of a reply come first, on their own.  The properties of the   *)
(* conversation then compare the rows with what sessions loaded some steps *)
(* ago.  The invariant says what a session may rely on all the same: some  *)
(* things about its copies never become false, whatever others commit      *)
(* (Sound), and as long as no two requests overlapped its copies are the   *)
(* rows (Alone).  A second part counts how many exchanges the sessions at  *)
(* work may still cost (TurnsInv), a third what the files on the rows and  *)
(* those the sessions loaded may add up to (FilesInv), and a fourth the    *)
(* pending quotes on the rows and those on their way there (LiveInv).      *)
(*                                                                         *)
(* Every action is then of one of five kinds: it begins a request, changes *)
(* its session, writes it, drops it, or is the issue report.               *)
(***************************************************************************)
EXTENDS Conversation, FiniteSetTheorems, TLAPS

(***************************************************************************)
(* What the gates guarantee in every context and for every draft.  The     *)
(* gates are a composition of eight; each step names the reply after one   *)
(* of them, and says what is known of it.                                  *)
(***************************************************************************)

\* The reply after each gate.
G1(x, r) == PriceGate(x, r)
G2(x, r) == IsolationGuard(x, G1(x, r))
G3(x, r) == ChoiceGate(x, G2(x, r))
G4(x, r) == HallucinationGate(x, G3(x, r))
G5(x, r) == PrematureGate(x, G4(x, r))
G6(x, r) == AutoRelease(x, G5(x, r))
G7(x, r) == UploadFirst(x, G6(x, r))

\* The gates one after the other are Gated.
LEMMA Composed ==
  ASSUME NEW x, NEW r
  PROVE  Gated(x, r) = YesGate(x, G7(x, r))
BY DEF Gated, G1, G2, G3, G4, G5, G6, G7

\* Every gate makes a reply of a reply.
LEMMA GatesReply ==
  ASSUME NEW x \in Contexts, NEW r \in Replies
  PROVE  /\ PriceGate(x, r) \in Replies
         /\ IsolationGuard(x, r) \in Replies
         /\ ChoiceGate(x, r) \in Replies
         /\ HallucinationGate(x, r) \in Replies
         /\ PrematureGate(x, r) \in Replies
         /\ AutoRelease(x, r) \in Replies
         /\ UploadFirst(x, r) \in Replies
         /\ YesGate(x, r) \in Replies
<1>1. \A m \in SUBSET Marks : Plain(m) \in Replies
  BY DEF Plain, Replies
<1>2. \A m \in Marks, q \in Replies : Without(q, m) \in Replies /\ With(q, m) \in Replies
  BY DEF Without, With, Replies
<1>3. PriceGate(x, r) \in Replies
  BY <1>1 DEF PriceGate, Replies, Plain
<1>4. IsolationGuard(x, r) \in Replies
  BY DEF IsolationGuard, Replies
<1>5. ChoiceGate(x, r) \in Replies
  <2>1. Neutral \in Replies
    BY DEF Neutral, Plain, Replies, Marks
  <2>2. \A q \in Replies : [q EXCEPT !.art = "upsell"] \in Replies
    BY DEF Replies
  <2> DEFINE bare  == Without(r, "upload")
             asked == IF r.art = "none" /\ "upload" \notin r.marks
                      THEN [bare EXCEPT !.art = "upsell"] ELSE bare
  <2>3. bare \in Replies
    BY <1>2 DEF Marks
  <2>4. asked \in Replies
    BY <2>2, <2>3
  <2>5. ChoiceGate(x, r) \in {r, With(asked, "choice"), Neutral, bare}
    BY DEF ChoiceGate
  <2> HIDE DEF bare, asked
  <2> QED
    BY <1>2, <2>1, <2>3, <2>4, <2>5 DEF Marks
<1>6. HallucinationGate(x, r) \in Replies
  BY <1>2 DEF HallucinationGate, Marks
<1>7. PrematureGate(x, r) \in Replies
  <2>1. [r EXCEPT !.price = "figure"] \in Replies
    BY DEF Replies
  <2>2. \A q \in Replies : [q EXCEPT !.art = "upsell"] \in Replies
    BY DEF Replies
  <2> DEFINE kept == Without(IF x.priced /\ ~HasPrice(r)
                             THEN [r EXCEPT !.price = "figure"] ELSE r, "ready")
  <2>3. kept \in Replies
    BY <1>2, <2>1 DEF Marks
  <2> HIDE DEF kept
  <2>4. PrematureGate(x, r) \in {r, [kept EXCEPT !.art = "upsell"],
                                 With(kept, "upload"), kept, With(kept, "form")}
    BY DEF PrematureGate, kept
  <2> QED
    BY <1>2, <2>2, <2>3, <2>4 DEF Marks
<1>8. AutoRelease(x, r) \in Replies
  BY <1>2 DEF AutoRelease, Marks
<1>9. UploadFirst(x, r) \in Replies
  BY <1>1 DEF UploadFirst, Marks
<1>10. YesGate(x, r) \in Replies
  BY <1>1 DEF YesGate, FormDue, UploadDue, Marks
<1> QED
  BY <1>3, <1>4, <1>5, <1>6, <1>7, <1>8, <1>9, <1>10

\* A draft stays a reply to the end.
LEMMA Typing ==
  ASSUME NEW x \in Contexts, NEW r \in Replies
  PROVE  /\ G1(x, r) \in Replies /\ G2(x, r) \in Replies /\ G3(x, r) \in Replies
         /\ G4(x, r) \in Replies /\ G5(x, r) \in Replies /\ G6(x, r) \in Replies
         /\ G7(x, r) \in Replies /\ Gated(x, r) \in Replies
<1>1. G1(x, r) \in Replies
  BY GatesReply DEF G1
<1>2. G2(x, r) \in Replies
  BY <1>1, GatesReply DEF G2
<1>3. G3(x, r) \in Replies
  BY <1>2, GatesReply DEF G3
<1>4. G4(x, r) \in Replies
  BY <1>3, GatesReply DEF G4
<1>5. G5(x, r) \in Replies
  BY <1>4, GatesReply DEF G5
<1>6. G6(x, r) \in Replies
  BY <1>5, GatesReply DEF G6
<1>7. G7(x, r) \in Replies
  BY <1>6, GatesReply DEF G7
<1>8. Gated(x, r) \in Replies
  BY <1>7, GatesReply, Composed
<1> QED
  BY <1>1, <1>2, <1>3, <1>4, <1>5, <1>6, <1>7, <1>8

(***************************************************************************)
(* The card.                                                               *)
(***************************************************************************)
\* The PDF card is shown on the web only to a customer with a quote, an
\* address and a delivery method; PREMATURE takes the draft's card away
\* otherwise, AUTO-RELEASE adds one under the same conditions.
THEOREM CardsAreEarned ==
  \A x \in Contexts, d \in Replies : CardIsEarned(x, Gated(x, d))
<1> SUFFICES ASSUME NEW x \in Contexts, NEW d \in Replies
             PROVE  CardIsEarned(x, Gated(x, d))
  OBVIOUS
<1>1. G4(x, d) \in Replies /\ G5(x, d) \in Replies /\ G6(x, d) \in Replies
      /\ G7(x, d) \in Replies /\ G3(x, d) \in Replies
  BY Typing
<1>2. "ready" \in G4(x, d).marks => Quoted(x)
  BY <1>1 DEF G4, HallucinationGate, Without, Replies
<1>3. x.web /\ "ready" \in G5(x, d).marks =>
        Quoted(x) /\ x.contact /\ x.funnel /\ x.art # "none"
  <2>1. CASE Premature(x, G4(x, d))
    <3>1. "ready" \notin G5(x, d).marks
      BY <1>1, <2>1 DEF G5, PrematureGate, Without, With, Replies
    <3> QED
      BY <3>1
  <2>2. CASE ~Premature(x, G4(x, d))
    <3>1. G5(x, d) = G4(x, d)
      BY <2>2 DEF G5, PrematureGate
    <3> QED
      BY <2>2, <3>1, <1>2 DEF Premature, Contexts
  <2> QED
    BY <2>1, <2>2
<1>4. x.web /\ "ready" \in G6(x, d).marks => CardIsEarned(x, G6(x, d))
  BY <1>1, <1>3 DEF G6, AutoRelease, Released, CardIsEarned, Quoted
<1>5. CardIsEarned(x, G7(x, d))
  BY <1>4 DEF G7, UploadFirst, Plain, CardIsEarned
<1>6. CardIsEarned(x, YesGate(x, G7(x, d)))
  BY <1>5 DEF YesGate, Plain, CardIsEarned
<1> QED
  BY <1>6, Composed

(***************************************************************************)
(* The price.                                                              *)
(***************************************************************************)
\* A figure that no tool computed does not reach the customer; the gates
\* after PriceGate write one only if this turn priced something.
THEOREM PricesAreComputed ==
  \A x \in Contexts, d \in Replies : PriceIsComputed(x, Gated(x, d))
<1> SUFFICES ASSUME NEW x \in Contexts, NEW d \in Replies
             PROVE  PriceIsComputed(x, Gated(x, d))
  OBVIOUS
<1>0. /\ G1(x, d) \in Replies /\ G2(x, d) \in Replies /\ G3(x, d) \in Replies
      /\ G4(x, d) \in Replies /\ G5(x, d) \in Replies /\ G6(x, d) \in Replies
  BY Typing
<1>1. PriceIsComputed(x, G1(x, d))
  BY DEF G1, PriceGate, Plain, PriceIsComputed
<1>2. PriceIsComputed(x, G2(x, d))
  BY <1>0, <1>1 DEF G2, IsolationGuard, PriceIsComputed, Replies
<1>3. PriceIsComputed(x, G3(x, d))
  BY <1>0, <1>2 DEF G3, ChoiceGate, Neutral, Plain, With, Without, PriceIsComputed, Replies
<1>4. PriceIsComputed(x, G4(x, d))
  BY <1>0, <1>3 DEF G4, HallucinationGate, Without, PriceIsComputed, Replies
<1>5. PriceIsComputed(x, G5(x, d))
  <2>1. CASE x.priced
    BY <2>1 DEF PriceIsComputed, Quoted
  <2>2. CASE ~x.priced
    <3>1. G5(x, d).price = G4(x, d).price
      BY <1>0, <2>2 DEF G5, PrematureGate, Without, With, Replies
    <3> QED
      BY <1>4, <3>1 DEF PriceIsComputed
  <2> QED
    BY <2>1, <2>2
<1>6. PriceIsComputed(x, G6(x, d))
  BY <1>0, <1>5 DEF G6, AutoRelease, With, PriceIsComputed, Replies
<1>7. PriceIsComputed(x, G7(x, d))
  BY <1>6 DEF G7, UploadFirst, Plain, PriceIsComputed
<1>8. PriceIsComputed(x, YesGate(x, G7(x, d)))
  BY <1>7 DEF YesGate, Plain, PriceIsComputed
<1> QED
  BY <1>8, Composed

(***************************************************************************)
(* The upload.                                                             *)
(***************************************************************************)
\* Once a price is computed while a promised file is missing, the reply is
\* the upload and nothing else; the last gate leaves it alone.
THEOREM UploadsComeFirst ==
  \A x \in Contexts, d \in Replies : UploadComesFirst(x, Gated(x, d))
<1> SUFFICES ASSUME NEW x \in Contexts, NEW d \in Replies,
                    x.web /\ x.priced /\ NeedsUpload(x)
             PROVE  Gated(x, d) = Plain({"upload"})
  BY DEF UploadComesFirst
<1>1. G7(x, d) = Plain({"upload"})
  BY DEF G7, UploadFirst
<1>2. YesGate(x, Plain({"upload"})) = Plain({"upload"})
  BY DEF YesGate, FormDue, UploadDue, Plain
<1> QED
  BY <1>1, <1>2, Composed

(***************************************************************************)
(* The prompts.                                                            *)
(***************************************************************************)
\* Fitting additions compose.
LEMMA AddsCompose ==
  ASSUME NEW x, NEW d, NEW q, NEW r, AddsFitting(x, d, q), AddsFitting(x, q, r)
  PROVE  AddsFitting(x, d, r)
BY DEF AddsFitting

\* No gate adds a marker that does not fit.
LEMMA GatesFit ==
  ASSUME NEW x \in Contexts, NEW r \in Replies, x.web
  PROVE  /\ AddsFitting(x, r, PriceGate(x, r))
         /\ AddsFitting(x, r, IsolationGuard(x, r))
         /\ AddsFitting(x, r, ChoiceGate(x, r))
         /\ AddsFitting(x, r, HallucinationGate(x, r))
         /\ AddsFitting(x, r, PrematureGate(x, r))
         /\ AddsFitting(x, r, AutoRelease(x, r))
         /\ AddsFitting(x, r, UploadFirst(x, r))
         /\ AddsFitting(x, r, YesGate(x, r))
<1>1. AddsFitting(x, r, PriceGate(x, r))
  BY DEF PriceGate, Plain, AddsFitting
<1>2. AddsFitting(x, r, IsolationGuard(x, r))
  BY DEF IsolationGuard, Replies, AddsFitting
<1>3. AddsFitting(x, r, ChoiceGate(x, r))
  BY DEF ChoiceGate, Neutral, Plain, With, Without, Replies, AddsFitting
<1>4. AddsFitting(x, r, HallucinationGate(x, r))
  BY DEF HallucinationGate, Without, Replies, AddsFitting
<1>5. AddsFitting(x, r, PrematureGate(x, r))
  BY DEF PrematureGate, With, Without, Replies, AddsFitting
<1>6. AddsFitting(x, r, AutoRelease(x, r))
  BY DEF AutoRelease, Released, With, Replies, AddsFitting
<1>7. AddsFitting(x, r, UploadFirst(x, r))
  BY DEF UploadFirst, Plain, AddsFitting
<1>8. AddsFitting(x, r, YesGate(x, r))
  BY DEF YesGate, FormDue, UploadDue, Plain, AddsFitting
<1> QED
  BY <1>1, <1>2, <1>3, <1>4, <1>5, <1>6, <1>7, <1>8

\* The gates add an upload, a form or a card only where the conversation has
\* room for it; ChoiceGate takes an early upload away, and the gates after it
\* add one only for a file that is due.
THEOREM PromptsAreFitting ==
  \A x \in Contexts, d \in Replies : PromptsFit(x, d, Gated(x, d))
<1> SUFFICES ASSUME NEW x \in Contexts, NEW d \in Replies, x.web
             PROVE  PromptsFit(x, d, Gated(x, d))
  BY DEF PromptsFit
<1>0. /\ G1(x, d) \in Replies /\ G2(x, d) \in Replies /\ G3(x, d) \in Replies
      /\ G4(x, d) \in Replies /\ G5(x, d) \in Replies /\ G6(x, d) \in Replies
      /\ G7(x, d) \in Replies
  BY Typing
<1>1. AddsFitting(x, d, G2(x, d))
  <2>1. AddsFitting(x, d, G1(x, d))
    BY GatesFit DEF G1
  <2>2. AddsFitting(x, G1(x, d), G2(x, d))
    BY <1>0, GatesFit DEF G2
  <2> QED
    BY <2>1, <2>2, AddsCompose
<1>2. AddsFitting(x, G2(x, d), G3(x, d))
  BY <1>0, GatesFit DEF G3
<1>3. AddsFitting(x, G3(x, d), Gated(x, d))
  <2>1. AddsFitting(x, G3(x, d), G4(x, d))
    BY <1>0, GatesFit DEF G4
  <2>2. AddsFitting(x, G4(x, d), G5(x, d))
    BY <1>0, GatesFit DEF G5
  <2>3. AddsFitting(x, G5(x, d), G6(x, d))
    BY <1>0, GatesFit DEF G6
  <2>4. AddsFitting(x, G6(x, d), G7(x, d))
    BY <1>0, GatesFit DEF G7
  <2>5. AddsFitting(x, G7(x, d), Gated(x, d))
    BY <1>0, GatesFit, Composed
  <2>6. AddsFitting(x, G3(x, d), G5(x, d))
    BY <2>1, <2>2, AddsCompose
  <2>7. AddsFitting(x, G3(x, d), G7(x, d))
    <3>1. AddsFitting(x, G3(x, d), G6(x, d))
      BY <2>6, <2>3, AddsCompose
    <3> QED
      BY <3>1, <2>4, AddsCompose
  <2> QED
    BY <2>7, <2>5, AddsCompose
<1>4. AddsFitting(x, d, Gated(x, d))
  <2>1. AddsFitting(x, d, G3(x, d))
    BY <1>1, <1>2, AddsCompose
  <2> QED
    BY <2>1, <1>3, AddsCompose
<1>5. ASSUME x.art = "none", "choice" \notin d.marks
      PROVE  "upload" \notin Gated(x, d).marks
  <2>1. "choice" \notin G2(x, d).marks
    <3>1. G1(x, d).marks \subseteq d.marks
      BY DEF G1, PriceGate, Plain
    <3>2. G2(x, d).marks \subseteq G1(x, d).marks
      BY <1>0 DEF G2, IsolationGuard, Replies
    <3> QED
      BY <3>1, <3>2, <1>5
  <2>2. "upload" \notin G3(x, d).marks
    BY <1>0, <1>5, <2>1
       DEF G3, ChoiceGate, Neutral, Plain, With, Without, Replies
  <2>3. ~NeedsUpload(x)
    BY <1>5 DEF NeedsUpload
  <2> QED
    BY <1>3, <2>2, <2>3 DEF AddsFitting
<1> QED
  BY <1>4, <1>5 DEF PromptsFit


(***************************************************************************)
(* A non-empty finite set of integers has a largest member: of the sets of *)
(* members above one of it, which are finite, one has no smaller one among *)
(* them, and is empty.                                                     *)
(***************************************************************************)
LEMMA MaxIsMember ==
  ASSUME NEW S \in SUBSET Int, IsFiniteSet(S), S # {}
  PROVE  Max(S) \in S
<1> DEFINE Above(x) == {y \in S : y > x}
           T == {Above(x) : x \in S}
           R == StrictSubsetOrdering(S)
           F == FiniteSubsetsOf(S)
<1>1. T \subseteq F /\ T # {}
  <2>1. \A x \in S : IsFiniteSet(Above(x))
    BY FS_Subset
  <2> QED BY <2>1 DEF FiniteSubsetsOf
<1>2. IsWellFoundedOn(R, F)
  BY FS_StrictSubsetOrderingWellFounded
<1>3. PICK U \in T : \A V \in T : ~ (<<V, U>> \in R)
  <2> HIDE DEF T, R, F
  <2> QED BY <1>1, <1>2, WFMin
<1>4. PICK x \in S : U = Above(x)
  <2>1. U \in T
    BY <1>3
  <2> HIDE DEF Above
  <2> QED BY <2>1
<1>5. ASSUME NEW y \in S, y > x PROVE FALSE
  <2>0. x \in Int /\ y \in Int /\ \A z \in S : z \in Int
    OBVIOUS
  <2>1. /\ \A z \in S : z > y => z > x
        /\ ~(y > y)
    BY <1>5, <2>0
  <2>2. Above(y) \subseteq Above(x) /\ y \in Above(x) /\ y \notin Above(y)
    BY <1>5, <2>1
  <2>3. <<Above(y), Above(x)>> \in R
    <3>1. Above(y) \in SUBSET S /\ Above(x) \in SUBSET S
      OBVIOUS
    <3> HIDE DEF Above
    <3> QED BY <2>2, <3>1 DEF StrictSubsetOrdering
  <2> QED BY <1>3, <1>4, <2>3
<1>6. \A y \in S : x >= y
  BY <1>5
<1> QED BY <1>6 DEF Max

-----------------------------------------------------------------------------
(***************************************************************************)
(* A commit takes each column from the session if the session changed it.  *)
(***************************************************************************)
LEMMA MergedQuote ==
  ASSUME NEW row \in Quote, NEW base \in Quote, NEW mine \in Quote
  PROVE  LET m == Merge(row, base, mine)
         IN /\ m \in Quote
            /\ m.product = IF mine.product # base.product THEN mine.product ELSE row.product
            /\ m.design = IF mine.design # base.design THEN mine.design ELSE row.design
            /\ m.status = IF mine.status # base.status THEN mine.status ELSE row.status
            /\ m.files = IF mine.files # base.files THEN mine.files ELSE row.files
            /\ mine = [base EXCEPT !.confirmed = mine.confirmed] =>
                 m = [row EXCEPT !.confirmed = m.confirmed]
            /\ row = base => m = mine
<1> DEFINE m == Merge(row, base, mine)
<1>1. /\ DOMAIN row = {"product", "variant", "size", "design", "ship", "total",
                       "status", "files", "confirmed"}
      /\ DOMAIN mine = DOMAIN row
      /\ DOMAIN m = DOMAIN row
  BY DEF Merge, Quote
<1>2. \A c \in DOMAIN row : m[c] = IF mine[c] # base[c] THEN mine[c] ELSE row[c]
  BY DEF Merge
<1>3. m \in Quote
  BY <1>1, <1>2 DEF Merge, Quote
<1>4. mine = [base EXCEPT !.confirmed = mine.confirmed] =>
        m = [row EXCEPT !.confirmed = m.confirmed]
  BY <1>1, <1>2 DEF Merge, Quote
<1>5. row = base => m = mine
  BY <1>1, <1>2 DEF Merge, Quote
<1> QED BY <1>1, <1>2, <1>3, <1>4, <1>5

\* The same for the row of the conversation.
LEMMA MergedConv ==
  ASSUME NEW row \in Conv, NEW base \in Conv, NEW mine \in Conv
  PROVE  LET m == Merge(row, base, mine)
         IN /\ m \in Conv
            /\ m.art = IF mine.art # base.art THEN mine.art ELSE row.art
            /\ m.contact = IF mine.contact # base.contact THEN mine.contact ELSE row.contact
            /\ m.method = IF mine.method # base.method THEN mine.method ELSE row.method
            /\ m.first = IF mine.first # base.first THEN mine.first ELSE row.first
            /\ m.said = IF mine.said # base.said THEN mine.said ELSE row.said
            /\ row = base => m = mine
<1> DEFINE m == Merge(row, base, mine)
<1>1. /\ DOMAIN row = {"art", "later", "contact", "method", "first", "status", "said"}
      /\ DOMAIN mine = DOMAIN row
      /\ DOMAIN m = DOMAIN row
  BY DEF Merge, Conv
<1>2. \A c \in DOMAIN row : m[c] = IF mine[c] # base[c] THEN mine[c] ELSE row[c]
  BY DEF Merge
<1>3. m \in Conv
  BY <1>1, <1>2 DEF Merge, Conv
<1>5. row = base => m = mine
  BY <1>1, <1>2 DEF Merge, Conv
<1> QED BY <1>1, <1>2, <1>3, <1>5
-----------------------------------------------------------------------------
(***************************************************************************)
(* What holds of a session s while the rows are c and qs, whatever the     *)
(* others do.  A quote that was not pending when loaded is not pending now *)
(* and was only confirmed; nothing becomes pending again; a design charge  *)
(* is on the row or new, and then from a turn whose customer has no        *)
(* artwork.  Nothing takes back the address, the delivery method or the    *)
(* first touch.  The PDF card was earned when the session began.           *)
(***************************************************************************)
Shape(s, qs) ==
  /\ s \in Session
  /\ Len(s.qbase) = Len(s.q) /\ Len(s.q) <= Len(qs)
  /\ s.op # "turn" => s.new = <<>>

Sells(s) == s.op = "turn" /\ s.conv.art # "own"

Deals(s, qs) ==
  /\ \A i \in DOMAIN s.q :
       /\ s.qbase[i].status # "pending" =>
            /\ qs[i].status # "pending"
            /\ s.q[i] = [s.qbase[i] EXCEPT !.confirmed = s.q[i].confirmed]
       /\ s.q[i].status # s.qbase[i].status => s.q[i].status # "pending"
       /\ s.q[i].design => s.qbase[i].design \/ Sells(s)
  /\ \A j \in DOMAIN s.new : s.new[j].design => Sells(s)

\* c has at least what b has.
Gives(b, c) ==
  /\ b.contact => c.contact
  /\ b.method # "none" => c.method # "none"

Earned(c, some) ==
  "ready" \in c.said.shown => c.contact /\ c.method # "none" /\ some

Some(s, qs) == qs # <<>> \/ s.new # <<>>

Knows(s, c, qs) ==
  /\ Gives(s.base, s.conv) /\ Gives(s.base, c)
  /\ s.base.first # None => s.conv.first = s.base.first
  /\ Earned(s.base, qs # <<>>)
  /\ s.prior => qs # <<>>
  /\ "priced" \in s.did => Some(s, qs)

\* The quote a handler of the widget or the operator is about to change,
\* and what the form put into the session.
Aimed(s) ==
  /\ s.op = "form" => s.conv.contact /\ s.conv.method # "none"
  /\ s.op \in {"upload", "remove", "decide"} =>
       /\ s.at \in DOMAIN s.q /\ s.q[s.at].status = "pending"
       /\ s.op = "upload" => s.q[s.at].files < MaxFiles
       /\ s.op = "remove" => s.q[s.at].files > 0

Quiet(s) == s.conv.said = s.base.said

\* The session has not changed a list of files, and its new quotes have none.
Untouched(s) ==
  /\ \A i \in DOMAIN s.q : s.q[i].files = s.qbase[i].files
  /\ \A j \in DOMAIN s.new : s.new[j].files = 0

\* A pending quote of product p, as the customer sees one.
Live(quote, p) == quote.product = p /\ quote.status = "pending"

\* The quotes whose status the session has changed.
Ended(s) == {i \in DOMAIN s.q : s.q[i].status # s.qbase[i].status}

\* No session changes what is sold.
Named(s, qs) ==
  \A i \in DOMAIN s.q :
    s.q[i].product = s.qbase[i].product /\ s.q[i].product = qs[i].product

Sound(s, c, qs) == Shape(s, qs) /\ Deals(s, qs) /\ Knows(s, c, qs)

Ready(w) == Sound(req[w], conv, quotes) /\ Aimed(req[w]) /\ Quiet(req[w])

(***************************************************************************)
(* As long as no two requests overlapped, the one at work has loaded what  *)
(* is on the rows, and every total adds up.                                *)
(***************************************************************************)
AddsUp(quote) ==
  quote.total \in {Parts(quote.design, FALSE), Parts(quote.design, quote.ship)}

Alone(s, c, qs) ==
  /\ s.base = c
  /\ \A i \in DOMAIN s.q : s.qbase[i] = qs[i] /\ AddsUp(s.q[i])
  /\ \A j \in DOMAIN s.new : AddsUp(s.new[j])

Sole ==
  /\ \A v, w \in Active : v = w
  /\ \A w \in Active : Alone(req[w], conv, quotes)
  /\ \A i \in DOMAIN quotes : AddsUp(quotes[i])

SessionsInv ==
  /\ Earned(conv, quotes # <<>>)
  /\ \A w \in Active : Ready(w)
  /\ used.overlaps = 0 => Sole

(***************************************************************************)
(* Every exchange lost took an overlap: what the messages lack and what a  *)
(* session at work would lose are together with the other sessions at work *)
(* no more than the overlaps.                                              *)
(***************************************************************************)
TurnsInv ==
  /\ IsFiniteSet(Active)
  /\ TurnsKept
  /\ \A w \in Active :
       /\ req[w].base.said.n <= log.turns
       /\ log.turns - req[w].base.said.n + Cardinality(Active) - 1 <= used.overlaps
       /\ log.turns - conv.said.n + Cardinality(Active) - 1 <= used.overlaps
-----------------------------------------------------------------------------
(***************************************************************************)
(* The parts of a session.                                                 *)
(***************************************************************************)
LEMMA SessionType ==
  ASSUME NEW s \in Session
  PROVE  /\ s.msg \in Message /\ s.base \in Conv /\ s.conv \in Conv
         /\ s.qbase \in Seq(Quote) /\ s.q \in Seq(Quote) /\ s.new \in Seq(Quote)
         /\ s.did \in SUBSET {"priced", "escalated", "confirmed", "saved"}
         /\ s.prior \in BOOLEAN /\ s.tools \in 0..MaxTools
         /\ s.at \in Nat \cup {None}
         /\ s.op \in {"idle", "turn", "form", "upload", "remove", "decide"}
BY DEF Session

\* What concatenation does.
LEMMA SeqParts ==
  ASSUME NEW T, NEW a \in Seq(T), NEW b \in Seq(T)
  PROVE  /\ a \o b \in Seq(T) /\ Len(a) \in Nat /\ Len(a \o b) = Len(a) + Len(b)
         /\ DOMAIN a = 1..Len(a)
         /\ \A i \in 1..Len(a \o b) :
              (a \o b)[i] = IF i <= Len(a) THEN a[i] ELSE b[i - Len(a)]
         /\ \A i \in DOMAIN a : a[i] \in T
OBVIOUS

(***************************************************************************)
(* Loading adds what the session has not seen, as it is.                   *)
(***************************************************************************)
LEMMA Extended ==
  ASSUME NEW T, NEW q \in Seq(T), NEW qs \in Seq(T), Len(q) <= Len(qs)
  PROVE  /\ q \o SubSeq(qs, Len(q) + 1, Len(qs)) \in Seq(T)
         /\ Len(q \o SubSeq(qs, Len(q) + 1, Len(qs))) = Len(qs)
         /\ \A i \in 1..Len(qs) :
              (q \o SubSeq(qs, Len(q) + 1, Len(qs)))[i] = IF i <= Len(q) THEN q[i] ELSE qs[i]
<1> DEFINE e == SubSeq(qs, Len(q) + 1, Len(qs))
<1>0. Len(q) \in Nat /\ Len(qs) \in Nat
  OBVIOUS
<1>1. /\ e \in Seq(T) /\ Len(e) = Len(qs) - Len(q)
      /\ \A i \in 1..(Len(qs) - Len(q)) : e[i] = qs[Len(q) + i]
  BY <1>0
<1>2. /\ q \o e \in Seq(T) /\ Len(q \o e) = Len(q) + Len(e)
      /\ \A i \in 1..Len(q \o e) :
           (q \o e)[i] = IF i <= Len(q) THEN q[i] ELSE e[i - Len(q)]
  BY <1>1, SeqParts
<1>3. ASSUME NEW i \in 1..Len(qs), ~(i <= Len(q)) PROVE e[i - Len(q)] = qs[i]
  <2>1. i - Len(q) \in 1..(Len(qs) - Len(q)) /\ Len(q) + (i - Len(q)) = i
    BY <1>0, <1>3
  <2> QED BY <1>1, <2>1
<1> HIDE DEF e
<1> QED BY <1>0, <1>1, <1>2, <1>3 DEF e

\* Everything but the two copies stays.
LEMMA LoadDoes ==
  ASSUME quotes \in Seq(Quote), NEW s \in Session,
         Len(s.qbase) = Len(s.q), Len(s.q) <= Len(quotes)
  PROVE  LET t == Load(s)
         IN /\ t \in Session
            /\ t.op = s.op /\ t.msg = s.msg /\ t.base = s.base /\ t.conv = s.conv
            /\ t.new = s.new /\ t.did = s.did /\ t.prior = s.prior
            /\ t.tools = s.tools /\ t.at = s.at
            /\ Len(t.q) = Len(quotes) /\ Len(t.qbase) = Len(quotes)
            /\ \A i \in 1..Len(quotes) :
                 /\ t.q[i] = IF i <= Len(s.q) THEN s.q[i] ELSE quotes[i]
                 /\ t.qbase[i] = IF i <= Len(s.q) THEN s.qbase[i] ELSE quotes[i]
<1> DEFINE a == s.q \o SubSeq(quotes, Len(s.q) + 1, Len(quotes))
           b == s.qbase \o SubSeq(quotes, Len(s.q) + 1, Len(quotes))
<1>0. \A q \in Seq(Quote) : Len(q) <= Len(quotes) =>
        /\ q \o SubSeq(quotes, Len(q) + 1, Len(quotes)) \in Seq(Quote)
        /\ Len(q \o SubSeq(quotes, Len(q) + 1, Len(quotes))) = Len(quotes)
        /\ \A i \in 1..Len(quotes) :
             (q \o SubSeq(quotes, Len(q) + 1, Len(quotes)))[i]
               = IF i <= Len(q) THEN q[i] ELSE quotes[i]
  BY Extended
<1>1. s.q \in Seq(Quote) /\ s.qbase \in Seq(Quote)
  BY SessionType
<1>2. /\ a \in Seq(Quote) /\ Len(a) = Len(quotes)
      /\ \A i \in 1..Len(quotes) : a[i] = IF i <= Len(s.q) THEN s.q[i] ELSE quotes[i]
  BY <1>0, <1>1, Zenon
<1>3. /\ b \in Seq(Quote) /\ Len(b) = Len(quotes)
      /\ \A i \in 1..Len(quotes) : b[i] = IF i <= Len(s.q) THEN s.qbase[i] ELSE quotes[i]
  <2>1. /\ Len(s.qbase) <= Len(quotes) /\ Len(s.qbase) = Len(s.q)
        /\ b = s.qbase \o SubSeq(quotes, Len(s.qbase) + 1, Len(quotes))
    OBVIOUS
  <2> HIDE DEF b
  <2> QED BY <1>0, <1>1, <2>1, Zenon
<1>4. Load(s) = [s EXCEPT !.qbase = b, !.q = a]
  BY DEF Load
<1> HIDE DEF a, b
<1> QED BY <1>2, <1>3, <1>4 DEF Session

\* A session that loads what it has not seen stays sound.
LEMMA LoadSound ==
  ASSUME quotes \in Seq(Quote), NEW s, Sound(s, conv, quotes), s.op # "idle"
  PROVE  /\ Sound(Load(s), conv, quotes)
         /\ Len(Load(s).q) = Len(quotes)
         /\ Quiet(s) => Quiet(Load(s))
<1> DEFINE t == Load(s)
<1>1. /\ t \in Session
      /\ t.op = s.op /\ t.base = s.base /\ t.conv = s.conv
      /\ t.new = s.new /\ t.did = s.did /\ t.prior = s.prior
      /\ Len(t.q) = Len(quotes) /\ Len(t.qbase) = Len(quotes)
      /\ \A i \in 1..Len(quotes) :
           /\ t.q[i] = IF i <= Len(s.q) THEN s.q[i] ELSE quotes[i]
           /\ t.qbase[i] = IF i <= Len(s.q) THEN s.qbase[i] ELSE quotes[i]
  BY LoadDoes DEF Sound, Shape
<1> HIDE DEF t
<1>2. Shape(t, quotes) /\ (Quiet(s) => Quiet(t))
  BY <1>1 DEF Sound, Shape, Quiet
<1>3. Knows(t, conv, quotes)
  BY <1>1 DEF Sound, Knows, Some
<1>4. t.q \in Seq(Quote) /\ DOMAIN t.q = 1..Len(quotes) /\ DOMAIN s.q = 1..Len(s.q)
      /\ t.qbase \in Seq(Quote) /\ Len(s.q) \in Nat
  BY <1>1, SessionType DEF Sound, Shape
<1>5. ASSUME NEW i \in DOMAIN t.q, i \notin DOMAIN s.q
      PROVE  t.q[i] = quotes[i] /\ t.qbase[i] = quotes[i] /\ quotes[i] \in Quote
  BY <1>1, <1>4, <1>5
<1>6. ASSUME NEW i \in DOMAIN t.q, i \in DOMAIN s.q
      PROVE  t.q[i] = s.q[i] /\ t.qbase[i] = s.qbase[i]
  BY <1>1, <1>4, <1>6
<1>7. \A quote \in Quote : quote = [quote EXCEPT !.confirmed = quote.confirmed]
  BY DEF Quote
<1>8. Sells(t) <=> Sells(s)
  BY <1>1 DEF Sells
<1>9. Deals(t, quotes)
  <2>1. ASSUME NEW i \in DOMAIN t.q
        PROVE  /\ t.qbase[i].status # "pending" =>
                  /\ quotes[i].status # "pending"
                  /\ t.q[i] = [t.qbase[i] EXCEPT !.confirmed = t.q[i].confirmed]
               /\ t.q[i].status # t.qbase[i].status => t.q[i].status # "pending"
               /\ t.q[i].design => t.qbase[i].design \/ Sells(t)
    <3>1. CASE i \in DOMAIN s.q
      BY <1>6, <1>8, <3>1 DEF Sound, Deals
    <3>2. CASE i \notin DOMAIN s.q
      BY <1>5, <1>7, <3>2
    <3> QED BY <3>1, <3>2
  <2> QED BY <1>1, <1>8, <2>1 DEF Deals, Sound
<1> QED BY <1>1, <1>2, <1>3, <1>9 DEF Sound, t

\* Nor does loading set apart the copies of one that is alone.
LEMMA LoadAlone ==
  ASSUME quotes \in Seq(Quote), NEW s, Sound(s, conv, quotes), s.op # "idle",
         Alone(s, conv, quotes), \A i \in DOMAIN quotes : AddsUp(quotes[i])
  PROVE  Alone(Load(s), conv, quotes)
<1> DEFINE t == Load(s)
<1>1. /\ t \in Session
      /\ t.base = s.base /\ t.new = s.new
      /\ Len(t.q) = Len(quotes)
      /\ \A i \in 1..Len(quotes) :
           /\ t.q[i] = IF i <= Len(s.q) THEN s.q[i] ELSE quotes[i]
           /\ t.qbase[i] = IF i <= Len(s.q) THEN s.qbase[i] ELSE quotes[i]
  BY LoadDoes DEF Sound, Shape
<1> HIDE DEF t
<1>2. t.q \in Seq(Quote) /\ DOMAIN t.q = 1..Len(quotes) /\ DOMAIN s.q = 1..Len(s.q)
      /\ Len(s.q) \in Nat
  BY <1>1, SessionType DEF Sound, Shape
<1>3. ASSUME NEW i \in DOMAIN t.q PROVE t.qbase[i] = quotes[i] /\ AddsUp(t.q[i])
  <2>1. CASE i <= Len(s.q)
    <3>1. i \in DOMAIN s.q
      BY <1>2, <2>1
    <3> QED BY <1>1, <1>2, <2>1, <3>1 DEF Alone
  <2>2. CASE ~(i <= Len(s.q))
    BY <1>1, <1>2, <2>2
  <2> QED BY <2>1, <2>2
<1> QED BY <1>1, <1>3 DEF Alone, t
-----------------------------------------------------------------------------
(***************************************************************************)
(* What a step makes of its session: s before, t after.  A quote that is   *)
(* not pending is at most confirmed.                                       *)
(***************************************************************************)
Redo(a, b, sells) ==
  /\ b \in Quote /\ b.product = a.product
  /\ a.status = "pending" \/ b = [a EXCEPT !.confirmed = b.confirmed]
  /\ b.status # a.status => b.status # "pending"
  /\ b.design => a.design \/ sells
  /\ AddsUp(a) => AddsUp(b)

Edit(a, b, sells) == Redo(a, b, sells) /\ b.files = a.files

Change(s, t) ==
  /\ t \in Session
  /\ t.op = s.op /\ t.prior = s.prior /\ t.base = s.base /\ t.qbase = s.qbase
  /\ t.conv.first = s.conv.first /\ Gives(s.conv, t.conv)
  /\ t.conv.art = s.conv.art \/ t.op # "turn"
  /\ Len(t.q) = Len(s.q) /\ Len(t.new) >= Len(s.new)
  /\ t.op # "turn" => t.new = <<>>
  /\ \A i \in 1..Len(s.q) :
       \/ Edit(s.q[i], t.q[i], Sells(s))
       \/ t.op \in {"upload", "remove"} /\ Redo(s.q[i], t.q[i], Sells(s))
  /\ \A j \in 1..Len(t.new) :
       \/ j <= Len(s.new) /\ Edit(s.new[j], t.new[j], Sells(s))
       \/ /\ j > Len(s.new) /\ AddsUp(t.new[j]) /\ t.new[j].files = 0
          /\ t.new[j].design => Sells(s)

\* What was priced is there.
Priced(s, t) ==
  "priced" \in t.did => "priced" \in s.did \/ s.q # <<>> \/ t.new # <<>>

\* Confirming twice is confirming.
LEMMA ConfirmedTwice ==
  ASSUME NEW a \in Quote, NEW b \in Quote, NEW c \in Quote,
         b = [a EXCEPT !.confirmed = b.confirmed],
         c = [b EXCEPT !.confirmed = c.confirmed]
  PROVE  c = [a EXCEPT !.confirmed = c.confirmed]
BY DEF Quote

\* Leaving a quote alone is an edit.
LEMMA EditSame == ASSUME NEW a \in Quote, NEW sells PROVE Edit(a, a, sells)
BY DEF Edit, Redo, Quote

\* A change as described keeps the session sound.
LEMMA ChangeSound ==
  ASSUME NEW s, NEW t, NEW c, NEW qs \in Seq(Quote), Sound(s, c, qs), Change(s, t)
  PROVE  /\ Shape(t, qs) /\ Deals(t, qs)
         /\ Priced(s, t) => Sound(t, c, qs)
         /\ Alone(s, c, qs) => Alone(t, c, qs)
<1>1. /\ s \in Session /\ t \in Session
      /\ s.q \in Seq(Quote) /\ t.q \in Seq(Quote) /\ s.new \in Seq(Quote)
      /\ t.new \in Seq(Quote) /\ s.qbase \in Seq(Quote)
      /\ Len(s.qbase) = Len(s.q) /\ Len(t.q) = Len(s.q) /\ t.qbase = s.qbase
      /\ Len(t.new) >= Len(s.new) /\ t.op = s.op
  BY SessionType DEF Sound, Shape, Change
<1>2. /\ DOMAIN s.q = 1..Len(s.q) /\ DOMAIN t.q = 1..Len(s.q)
      /\ DOMAIN t.new = 1..Len(t.new) /\ DOMAIN s.new = 1..Len(s.new)
      /\ Len(s.q) \in Nat /\ Len(s.new) \in Nat /\ Len(t.new) \in Nat
      /\ \A i \in 1..Len(s.q) : s.q[i] \in Quote /\ t.q[i] \in Quote /\ s.qbase[i] \in Quote
  BY <1>1
<1>3. Shape(t, qs)
  BY <1>1 DEF Sound, Shape, Change
<1>4. ASSUME Priced(s, t) PROVE Knows(t, c, qs)
  <2>1. Gives(s.base, t.conv)
    BY DEF Sound, Knows, Change, Gives
  <2>2. "priced" \in t.did => Some(t, qs)
    <3>1. s.new # <<>> => t.new # <<>>
      BY <1>1
    <3>2. s.q # <<>> => qs # <<>>
      BY <1>1 DEF Sound, Shape
    <3> QED BY <1>4, <3>1, <3>2 DEF Sound, Knows, Priced, Some
  <2> QED BY <2>1, <2>2 DEF Sound, Knows, Change
<1>5. Sells(s) => Sells(t)
  BY <1>1 DEF Change, Sells
<1>6. ASSUME NEW i \in 1..Len(s.q)
      PROVE  /\ t.qbase[i].status # "pending" =>
                  /\ qs[i].status # "pending"
                  /\ t.q[i] = [t.qbase[i] EXCEPT !.confirmed = t.q[i].confirmed]
             /\ t.q[i].status # t.qbase[i].status => t.q[i].status # "pending"
             /\ t.q[i].design => t.qbase[i].design \/ Sells(t)
  <2>1. Redo(s.q[i], t.q[i], Sells(s))
    BY DEF Change, Edit
  <2>2. /\ s.qbase[i].status # "pending" =>
             /\ qs[i].status # "pending"
             /\ s.q[i] = [s.qbase[i] EXCEPT !.confirmed = s.q[i].confirmed]
        /\ s.q[i].status # s.qbase[i].status => s.q[i].status # "pending"
        /\ s.q[i].design => s.qbase[i].design \/ Sells(s)
    BY <1>2 DEF Sound, Deals
  <2>3. s.qbase[i].status # "pending" => s.q[i].status # "pending"
    BY <1>2, <2>2
  <2>4. s.qbase[i].status # "pending" =>
           t.q[i] = [s.qbase[i] EXCEPT !.confirmed = t.q[i].confirmed]
    BY <1>2, <2>1, <2>2, <2>3, ConfirmedTwice DEF Edit, Redo
  <2> QED BY <1>1, <1>5, <2>1, <2>2, <2>4 DEF Edit, Redo
<1>7. ASSUME NEW j \in 1..Len(t.new) PROVE t.new[j].design => Sells(t)
  <2>1. \/ j <= Len(s.new) /\ (t.new[j].design => s.new[j].design \/ Sells(s))
        \/ t.new[j].design => Sells(s)
    BY DEF Change, Edit, Redo
  <2>2. j <= Len(s.new) => j \in DOMAIN s.new
    BY <1>2
  <2>3. \A k \in DOMAIN s.new : s.new[k].design => Sells(s)
    BY DEF Sound, Deals
  <2> QED BY <1>5, <2>1, <2>2, <2>3
<1>8. Deals(t, qs)
  BY <1>2, <1>6, <1>7 DEF Deals
<1>9. ASSUME Alone(s, c, qs) PROVE Alone(t, c, qs)
  <2>1. ASSUME NEW i \in 1..Len(s.q) PROVE t.qbase[i] = qs[i] /\ AddsUp(t.q[i])
    <3>1. s.qbase[i] = qs[i] /\ AddsUp(s.q[i])
      BY <1>2, <1>9 DEF Alone
    <3>2. Redo(s.q[i], t.q[i], Sells(s))
      BY DEF Change, Edit
    <3> QED BY <1>1, <3>1, <3>2 DEF Edit, Redo
  <2>2. ASSUME NEW j \in 1..Len(t.new) PROVE AddsUp(t.new[j])
    <3>1. \/ j <= Len(s.new) /\ (AddsUp(s.new[j]) => AddsUp(t.new[j]))
          \/ AddsUp(t.new[j])
      BY DEF Change, Edit, Redo
    <3>2. j <= Len(s.new) => j \in DOMAIN s.new
      BY <1>2
    <3>3. \A k \in DOMAIN s.new : AddsUp(s.new[k])
      BY <1>9 DEF Alone
    <3> QED BY <3>1, <3>2, <3>3
  <2> QED BY <1>2, <1>9, <2>1, <2>2 DEF Alone, Change
<1> QED BY <1>3, <1>4, <1>8, <1>9 DEF Sound

-----------------------------------------------------------------------------
(***************************************************************************)
(* The quotes a session sees.                                              *)
(***************************************************************************)
LEMMA AllDoes ==
  ASSUME NEW s \in Session
  PROVE  /\ All(s) \in Seq(Quote) /\ Len(s.q) \in Nat /\ Len(s.new) \in Nat
         /\ Len(All(s)) = Len(s.q) + Len(s.new)
         /\ DOMAIN All(s) = 1..(Len(s.q) + Len(s.new))
         /\ \A i \in DOMAIN All(s) :
              /\ All(s)[i] \in Quote
              /\ i <= Len(s.q) => All(s)[i] = s.q[i]
              /\ ~(i <= Len(s.q)) => All(s)[i] = s.new[i - Len(s.q)]
<1>1. s.q \in Seq(Quote) /\ s.new \in Seq(Quote)
  BY SessionType
<1>2. Len(s.q) \in Nat /\ Len(s.new) \in Nat
  BY <1>1
<1>3. /\ All(s) \in Seq(Quote) /\ Len(All(s)) = Len(s.q) + Len(s.new)
      /\ \A i \in 1..(Len(s.q) + Len(s.new)) :
           All(s)[i] = IF i <= Len(s.q) THEN s.q[i] ELSE s.new[i - Len(s.q)]
  <2>1. PICK a \in Seq(Quote), b \in Seq(Quote) : a = s.q /\ b = s.new
    BY <1>1
  <2>2. /\ a \o b \in Seq(Quote) /\ Len(a \o b) = Len(a) + Len(b)
        /\ \A i \in 1..(Len(a) + Len(b)) :
             (a \o b)[i] = IF i <= Len(a) THEN a[i] ELSE b[i - Len(a)]
    OBVIOUS
  <2> QED BY <2>1, <2>2 DEF All
<1> HIDE DEF All
<1>4. DOMAIN All(s) = 1..(Len(s.q) + Len(s.new))
  BY <1>3
<1>5. \A i \in DOMAIN All(s) : All(s)[i] \in Quote
  <2>1. PICK r \in Seq(Quote) : r = All(s)
    BY <1>3
  <2>2. \A i \in DOMAIN r : r[i] \in Quote
    OBVIOUS
  <2> QED BY <2>1, <2>2
<1> QED BY <1>2, <1>3, <1>4, <1>5

\* Put replaces one of the quotes, wherever it is.
LEMMA PutDoes ==
  ASSUME NEW s \in Session, NEW i \in DOMAIN All(s), NEW quote \in Quote
  PROVE  LET t == Put(s, i, quote)
         IN /\ t \in Session
            /\ t.op = s.op /\ t.msg = s.msg /\ t.prior = s.prior /\ t.base = s.base
            /\ t.qbase = s.qbase /\ t.conv = s.conv /\ t.did = s.did
            /\ Len(t.q) = Len(s.q) /\ Len(t.new) = Len(s.new)
            /\ \A k \in 1..Len(s.q) : t.q[k] = IF k = i THEN quote ELSE s.q[k]
            /\ \A j \in 1..Len(s.new) :
                 t.new[j] = IF j + Len(s.q) = i THEN quote ELSE s.new[j]
<1>1. s.q \in Seq(Quote) /\ s.new \in Seq(Quote)
  BY SessionType
<1>2. i \in 1..(Len(s.q) + Len(s.new)) /\ Len(s.q) \in Nat /\ Len(s.new) \in Nat
  BY AllDoes
<1>3. CASE i <= Len(s.q)
  <2>1. PICK q : q = [s.q EXCEPT ![i] = quote]
    OBVIOUS
  <2>2. /\ q \in Seq(Quote) /\ Len(q) = Len(s.q)
        /\ \A k \in 1..Len(s.q) : q[k] = IF k = i THEN quote ELSE s.q[k]
    BY <1>1, <1>2, <1>3, <2>1
  <2>3. Put(s, i, quote) = [s EXCEPT !.q = q]
    BY <1>3, <2>1 DEF Put, Session
  <2>4. \A j \in 1..Len(s.new) : j + Len(s.q) # i
    BY <1>2, <1>3
  <2> QED BY <2>2, <2>3, <2>4 DEF Session
<1>4. CASE ~(i <= Len(s.q))
  <2>0. PICK p : p = i - Len(s.q)
    OBVIOUS
  <2>1. PICK new : new = [s.new EXCEPT ![p] = quote]
    OBVIOUS
  <2>2. /\ new \in Seq(Quote) /\ Len(new) = Len(s.new)
        /\ \A j \in 1..Len(s.new) : new[j] = IF j + Len(s.q) = i THEN quote ELSE s.new[j]
    <3>1. p \in 1..Len(s.new)
      <4>1. PICK m \in Nat, n \in Nat : m = Len(s.q) /\ n = Len(s.new)
        BY <1>2
      <4>2. i \in 1..(m + n) /\ ~(i <= m) /\ p = i - m
        BY <1>2, <1>4, <2>0, <4>1
      <4>3. p \in 1..n
        BY <4>2
      <4> QED BY <4>1, <4>3
    <3>3. \A j \in 1..Len(s.new) : j = p <=> j + Len(s.q) = i
      BY <1>2, <1>4, <2>0
    <3>2. /\ new \in Seq(Quote) /\ Len(new) = Len(s.new)
          /\ \A j \in 1..Len(s.new) : new[j] = IF j = p THEN quote ELSE s.new[j]
      <4>1. PICK a \in Seq(Quote) : a = s.new
        BY <1>1
      <4> QED BY <2>1, <3>1, <4>1
    <3> QED BY <3>3, <3>2
  <2>3. Put(s, i, quote) = [s EXCEPT !.new = new]
    BY <1>4, <2>0, <2>1 DEF Put, Session
  <2>4. \A k \in 1..Len(s.q) : k # i
    BY <1>2, <1>4
  <2> QED BY <2>2, <2>3, <2>4 DEF Session
<1> QED BY <1>3, <1>4

\* What a query for pending quotes finds is pending in the session, too.
LEMMA PendingIs ==
  ASSUME quotes \in Seq(Quote), NEW s, Shape(s, quotes), Deals(s, quotes)
  PROVE  /\ Pending(s) \subseteq DOMAIN All(s)
         /\ Pending(s) \in SUBSET Int /\ IsFiniteSet(Pending(s))
         /\ \A i \in Pending(s) : All(s)[i].status = "pending"
         /\ Pending(s) # {} => Max(Pending(s)) \in Pending(s)
<1>1. s \in Session
  BY DEF Shape
<1>2. Pending(s) \subseteq 1..Len(All(s)) /\ Len(All(s)) \in Nat
  BY <1>1, AllDoes DEF Pending
<1>3. IsFiniteSet(Pending(s))
  <2>1. IsFiniteSet(1..Len(All(s)))
    BY <1>2, FS_Interval
  <2> QED BY <1>2, <2>1, FS_Subset
<1>4. ASSUME NEW i \in Pending(s) PROVE All(s)[i].status = "pending"
  <2>1. Status(s, i) = "pending" /\ i \in DOMAIN All(s)
    BY DEF Pending
  <2>2. CASE i <= Len(s.q)
    <3>1. i \in DOMAIN s.q /\ All(s)[i] = s.q[i]
      <4>1. s.q \in Seq(Quote) /\ i \in 1..Len(All(s))
        BY <1>1, <1>2, SessionType
      <4>2. All(s)[i] = s.q[i]
        BY <1>1, <2>1, <2>2, AllDoes
      <4> QED BY <1>2, <2>2, <4>1, <4>2
    <3>2. CASE s.q[i].status = s.qbase[i].status
      BY <2>1, <2>2, <3>1, <3>2 DEF Status, Deals
    <3>3. CASE s.q[i].status # s.qbase[i].status
      BY <2>1, <2>2, <3>1, <3>3 DEF Status
    <3> QED BY <3>2, <3>3
  <2>3. CASE ~(i <= Len(s.q))
    BY <2>1, <2>3 DEF Status
  <2> QED BY <2>2, <2>3
<1>5. Pending(s) \in SUBSET Int
  BY <1>2
<1>6. Pending(s) # {} => Max(Pending(s)) \in Pending(s)
  BY <1>3, <1>5, MaxIsMember
<1> QED BY <1>2, <1>3, <1>4, <1>5, <1>6, AllDoes, <1>1

\* Changing one quote of the session as it may be changed.
LEMMA PutChange ==
  ASSUME NEW s, NEW u, NEW i \in DOMAIN All(u), NEW quote,
         Change(s, u), Edit(All(u)[i], quote, Sells(s))
  PROVE  u.q = s.q /\ u.new = s.new => Change(s, Put(u, i, quote))
<1> SUFFICES ASSUME u.q = s.q, u.new = s.new PROVE Change(s, Put(u, i, quote))
  OBVIOUS
<1> DEFINE t == Put(u, i, quote)
<1>0. u \in Session /\ quote \in Quote
  BY DEF Change, Edit, Redo
<1>1. /\ t \in Session
      /\ t.op = u.op /\ t.msg = u.msg /\ t.prior = u.prior /\ t.base = u.base
      /\ t.qbase = u.qbase /\ t.conv = u.conv /\ t.did = u.did
      /\ Len(t.q) = Len(u.q) /\ Len(t.new) = Len(u.new)
      /\ \A k \in 1..Len(u.q) : t.q[k] = IF k = i THEN quote ELSE u.q[k]
      /\ \A j \in 1..Len(u.new) :
           t.new[j] = IF j + Len(u.q) = i THEN quote ELSE u.new[j]
  BY <1>0, PutDoes
<1> HIDE DEF t
<1>2. /\ u.q \in Seq(Quote) /\ u.new \in Seq(Quote) /\ Len(u.q) \in Nat /\ Len(u.new) \in Nat
      /\ t.new \in Seq(Quote)
  BY <1>0, <1>1, SessionType
<1>3. ASSUME NEW k \in 1..Len(s.q) PROVE Edit(s.q[k], t.q[k], Sells(s))
  <2>1. k = i => All(u)[i] = u.q[k]
    <3>1. k = i => i <= Len(u.q)
      BY <1>2
    <3> QED BY <1>0, <3>1, AllDoes
  <2> QED BY <1>1, <1>2, <2>1, EditSame
<1>4. ASSUME NEW j \in 1..Len(t.new) PROVE Edit(s.new[j], t.new[j], Sells(s))
  <2>0. j \in 1..Len(u.new)
    BY <1>1
  <2>1. j + Len(u.q) = i => All(u)[i] = u.new[j]
    <3>1. j + Len(u.q) = i => ~(i <= Len(u.q)) /\ i - Len(u.q) = j
      BY <1>2, <2>0
    <3> QED BY <1>0, <3>1, AllDoes
  <2>2. u.new[j] \in Quote
    BY <1>2, <2>0
  <2>3. t.new[j] = IF j + Len(u.q) = i THEN quote ELSE u.new[j]
    BY <1>1, <2>0
  <2> QED BY <2>1, <2>2, <2>3, EditSame
<1>5. t.new = <<>> <=> u.new = <<>>
  BY <1>1, <1>2
<1> QED BY <1>0, <1>1, <1>2, <1>3, <1>4, <1>5 DEF Change, t
-----------------------------------------------------------------------------
(***************************************************************************)
(* What each step makes of the session it loaded.                          *)
(***************************************************************************)
LEMMA GivesSame == ASSUME NEW c PROVE Gives(c, c)
BY DEF Gives

\* A step that leaves the quotes alone.
LEMMA ChangeNote ==
  ASSUME NEW s \in Session, s.op # "turn" => s.new = <<>>,
         NEW u \in Session, u.q = s.q, u.new = s.new, u.op = s.op,
         u.prior = s.prior, u.base = s.base, u.qbase = s.qbase,
         u.conv.first = s.conv.first, Gives(s.conv, u.conv),
         u.conv.art = s.conv.art \/ s.op # "turn"
  PROVE  Change(s, u)
<1>1. s.q \in Seq(Quote) /\ s.new \in Seq(Quote)
  BY SessionType
<1>2. \A i \in 1..Len(s.q) : Edit(s.q[i], u.q[i], Sells(s))
  BY <1>1, EditSame
<1>3. Len(s.new) \in Nat /\ \A j \in 1..Len(u.new) : s.new[j] \in Quote
  BY <1>1
<1>4. \A j \in 1..Len(u.new) : j <= Len(s.new) /\ Edit(s.new[j], u.new[j], Sells(s))
  BY <1>3, EditSame
<1> QED BY <1>2, <1>3, <1>4 DEF Change

\* Where there is a quote to take, the session has quotes.
LEMMA NotEmpty ==
  ASSUME NEW s \in Session, NEW i \in DOMAIN All(s)
  PROVE  s.q # <<>> \/ s.new # <<>>
<1>1. i \in 1..(Len(s.q) + Len(s.new)) /\ Len(s.q) \in Nat /\ Len(s.new) \in Nat
  BY AllDoes
<1>2. Len(s.q) # 0 \/ Len(s.new) # 0
  <2>1. PICK m \in Nat, n \in Nat : m = Len(s.q) /\ n = Len(s.new)
    BY <1>1
  <2>2. i \in 1..(m + n)
    BY <1>1, <2>1
  <2>3. m # 0 \/ n # 0
    BY <2>2
  <2> QED BY <2>1, <2>3
<1>3. Len(<<>>) = 0
  OBVIOUS
<1> QED BY <1>2, <1>3, Zenon

\* The session a tool begins with.
LEMMA UsedDoes ==
  ASSUME TypeOK, NEW w \in Workers, Ready(w), Tool(w)
  PROVE  /\ req[w].op # "idle" /\ Sound(Load(req[w]), conv, quotes)
         /\ Load(req[w]) \in Session /\ Used(w) \in Session
         /\ Load(req[w]).op = "turn"
         /\ LET s == Load(req[w]) u == Used(w)
            IN /\ u.op = s.op /\ u.msg = s.msg /\ u.base = s.base /\ u.conv = s.conv
               /\ u.qbase = s.qbase /\ u.q = s.q /\ u.new = s.new /\ u.did = s.did
               /\ u.prior = s.prior /\ u.at = s.at
               /\ s.conv = req[w].conv /\ s.base = req[w].base
               /\ s.msg = req[w].msg /\ s.new = req[w].new /\ Len(s.q) = Len(quotes)
<1>1. req[w].op = "turn" /\ req[w].tools < MaxTools /\ req[w] \in Session
  BY DEF Tool, Ready, Sound, Shape
<1>2. Sound(Load(req[w]), conv, quotes) /\ Load(req[w]) \in Session
  BY <1>1, LoadSound DEF Ready, Sound, Shape, TypeOK
<1>3. /\ Load(req[w]).op = "turn" /\ Load(req[w]).tools = req[w].tools
      /\ Load(req[w]).conv = req[w].conv /\ Load(req[w]).base = req[w].base
      /\ Load(req[w]).msg = req[w].msg /\ Load(req[w]).new = req[w].new
      /\ Len(Load(req[w]).q) = Len(quotes)
  BY <1>1, LoadDoes DEF Ready, Sound, Shape, TypeOK
<1>4. PICK s \in Session : s = Load(req[w])
  BY <1>2
<1>5. s.tools + 1 \in 0..MaxTools
  BY <1>1, <1>3, <1>4, SessionType, CVAssumption
<1>6. Used(w) = [s EXCEPT !.tools = @ + 1]
  BY <1>4 DEF Used
<1>7. [s EXCEPT !.tools = @ + 1] \in Session
  BY <1>5 DEF Session
<1>8. LET u == Used(w)
      IN /\ u.op = s.op /\ u.msg = s.msg /\ u.base = s.base /\ u.conv = s.conv
         /\ u.qbase = s.qbase /\ u.q = s.q /\ u.new = s.new /\ u.did = s.did
         /\ u.prior = s.prior /\ u.at = s.at
  BY <1>6 DEF Session
<1> QED BY <1>1, <1>2, <1>3, <1>4, <1>6, <1>7, <1>8

(***************************************************************************)
(* The session t of w has one quote more.  It was wanted besides the       *)
(* others of its product, or these are pending no longer: neither those    *)
(* the session added nor those on the rows, once it commits.               *)
(***************************************************************************)
Adds(w, t) ==
  LET s == req[w]
  IN /\ Len(t.new) = Len(s.new) + 1
     /\ log'.adds = IF s.msg.adds = "also" THEN log.adds + 1 ELSE log.adds
     /\ s.msg.adds # "also" /\ Named(s, quotes) =>
          \A p \in Products : Live(t.new[Len(t.new)], p) =>
            /\ \A j \in 1..Len(s.new) : ~Live(t.new[j], p)
            /\ \A i \in DOMAIN quotes : Live(quotes[i], p) => i \in Ended(t)

\* The step leaves a changed session behind, and the rows alone.
Stays(w, t) ==
  /\ t.msg = req[w].msg
  /\ \/ Len(t.new) = Len(req[w].new) /\ log'.adds = log.adds
     \/ Adds(w, t)
  /\ Change(Load(req[w]), t) /\ Priced(Load(req[w]), t)
  /\ t.conv.said = req[w].conv.said
  /\ req' = [req EXCEPT ![w] = t]
  /\ conv' = conv /\ quotes' = quotes /\ used' = used
  /\ log'.turns = log.turns /\ log'.files = log.files
  /\ log' \in [turns: Nat, files: Nat, adds: Nat]

\* Escalation is only noted.
LEMMA EscalateDoes ==
  ASSUME TypeOK, NEW w \in Workers, Ready(w), Escalate(w)
  PROVE  \E t : Stays(w, t)
<1>0. Tool(w)
  BY DEF Escalate
<1>1. PICK s \in Session, u \in Session :
        /\ s = Load(req[w]) /\ u = Used(w) /\ s.op = "turn"
        /\ u.op = s.op /\ u.msg = s.msg /\ u.base = s.base /\ u.conv = s.conv
        /\ u.qbase = s.qbase /\ u.q = s.q /\ u.new = s.new /\ u.did = s.did
        /\ u.prior = s.prior /\ u.at = s.at /\ s.conv = req[w].conv
        /\ s.msg = req[w].msg /\ s.new = req[w].new
  BY <1>0, UsedDoes
<1>2. PICK t : t = [u EXCEPT !.did = @ \cup {"escalated"}]
  OBVIOUS
<1>3. /\ t \in Session /\ t.op = u.op /\ t.base = u.base /\ t.conv = u.conv
      /\ t.qbase = u.qbase /\ t.q = u.q /\ t.new = u.new /\ t.prior = u.prior
      /\ t.did = u.did \cup {"escalated"} /\ t.msg = u.msg
  BY <1>2 DEF Session
<1>4. Change(s, t) /\ Priced(s, t)
  <2>1. Change(s, t)
    BY <1>1, <1>3, ChangeNote, GivesSame
  <2> QED BY <1>1, <1>3, <2>1 DEF Priced
<1>5. req' = [req EXCEPT ![w] = t] /\ UNCHANGED <<conv, quotes, log, used>>
  BY <1>1, <1>2 DEF Escalate, Step
<1> QED BY <1>1, <1>3, <1>4, <1>5 DEF Stays, TypeOK

\* Confirming changes one quote, of whatever status.
LEMMA ConfirmOrderDoes ==
  ASSUME TypeOK, NEW w \in Workers, Ready(w), ConfirmOrder(w)
  PROVE  \E t : Stays(w, t)
<1>0. Tool(w)
  BY DEF ConfirmOrder
<1>1. PICK s \in Session, u \in Session :
        /\ s = Load(req[w]) /\ u = Used(w) /\ s.op = "turn"
        /\ u.op = s.op /\ u.msg = s.msg /\ u.base = s.base /\ u.conv = s.conv
        /\ u.qbase = s.qbase /\ u.q = s.q /\ u.new = s.new /\ u.did = s.did
        /\ u.prior = s.prior /\ u.at = s.at /\ s.conv = req[w].conv
        /\ s.msg = req[w].msg /\ s.new = req[w].new
  BY <1>0, UsedDoes
<1>2. PICK c : c = [u.conv EXCEPT !.status = "placed"]
  OBVIOUS
<1>3. u.conv \in Conv /\ u.did \in SUBSET {"priced", "escalated", "confirmed", "saved"}
  BY SessionType
<1>4. /\ c \in Conv /\ Gives(u.conv, c) /\ c.first = u.conv.first
      /\ c.art = u.conv.art /\ c.said = u.conv.said
  BY <1>2, <1>3 DEF Conv, Gives
<1>5. PICK v : v = [u EXCEPT !.did = @ \cup {"confirmed"}, !.conv = c]
  OBVIOUS
<1>13. v = [u EXCEPT !.did = @ \cup {"confirmed"}, !.conv.status = "placed"]
  BY <1>2, <1>5 DEF Session
<1>14. /\ v \in Session /\ v.op = u.op /\ v.base = u.base /\ v.conv = c
       /\ v.qbase = u.qbase /\ v.q = u.q /\ v.new = u.new /\ v.prior = u.prior
       /\ v.did = u.did \cup {"confirmed"} /\ v.msg = u.msg
  BY <1>3, <1>4, <1>5 DEF Session
<1>6. Change(s, v)
  BY <1>1, <1>4, <1>14, ChangeNote
<1>7. PICK i \in DOMAIN All(v) :
         /\ req' = [req EXCEPT ![w] = Put(v, i, [All(v)[i] EXCEPT !.confirmed = TRUE])]
         /\ UNCHANGED <<conv, quotes, log, used>>
  BY <1>1, <1>13 DEF ConfirmOrder, Step
<1>8. All(v)[i] \in Quote
  BY <1>14, AllDoes
<1>9. Edit(All(v)[i], [All(v)[i] EXCEPT !.confirmed = TRUE], Sells(s))
  BY <1>8 DEF Edit, Redo, Quote, AddsUp
<1>10. PICK t : t = Put(v, i, [All(v)[i] EXCEPT !.confirmed = TRUE])
  OBVIOUS
<1>11. Change(s, t)
  BY <1>1, <1>6, <1>9, <1>10, <1>14, PutChange
<1>12. t.conv = v.conv /\ t.did = v.did /\ t.msg = v.msg /\ Len(t.new) = Len(v.new)
  <2>1. PICK quote \in Quote : quote = [All(v)[i] EXCEPT !.confirmed = TRUE]
    BY <1>9 DEF Edit, Redo
  <2>2. t = Put(v, i, quote) /\ v \in Session
    BY <1>10, <1>14, <2>1
  <2> QED BY <2>2, PutDoes
<1>15. Priced(s, t)
  BY <1>1, <1>12, <1>14 DEF Priced
<1> QED BY <1>1, <1>4, <1>7, <1>10, <1>11, <1>12, <1>14, <1>15 DEF Stays, TypeOK

\* Shipping for the latest pending quote.
LEMMA ShippedEdit ==
  ASSUME NEW a \in Quote, a.status = "pending", NEW method, NEW sells
  PROVE  Edit(a, Shipped(a, method), sells)
<1>1. PICK ship \in BOOLEAN : ship = (method = "delivery" /\ a.product \notin Dear)
  OBVIOUS
<1>2. Shipped(a, method) = [a EXCEPT !.ship = ship, !.total = Parts(a.design, ship)]
  BY <1>1 DEF Shipped
<1>3. Parts(a.design, ship) \in SUBSET {"design", "shipping"}
  BY DEF Parts
<1> QED BY <1>2, <1>3 DEF Edit, Redo, Quote, AddsUp

\* It is a change of the session.
LEMMA ShippingChange ==
  ASSUME quotes \in Seq(Quote), NEW s, NEW u, Shape(u, quotes), Deals(u, quotes),
         Change(s, u), u.q = s.q, u.new = s.new
  PROVE  /\ Change(s, WithShipping(u)) /\ WithShipping(u) \in Session
         /\ WithShipping(u).conv = u.conv /\ WithShipping(u).did = u.did
         /\ WithShipping(u).msg = u.msg /\ Len(WithShipping(u).new) = Len(u.new)
<1>0. u \in Session
  BY DEF Change
<1>1. CASE u.conv.method = "none" \/ Pending(u) = {}
  BY <1>0, <1>1 DEF WithShipping
<1>2. CASE ~(u.conv.method = "none" \/ Pending(u) = {})
  <2>1. PICK i \in Pending(u) : i = Max(Pending(u))
    BY <1>2, PendingIs
  <2>2. i \in DOMAIN All(u) /\ All(u)[i].status = "pending" /\ All(u)[i] \in Quote
    BY <1>0, <2>1, PendingIs, AllDoes
  <2>3. Edit(All(u)[i], Shipped(All(u)[i], u.conv.method), Sells(s))
    BY <2>2, ShippedEdit
  <2>4. WithShipping(u) = Put(u, i, Shipped(All(u)[i], u.conv.method))
    BY <1>2, <2>1 DEF WithShipping
  <2>5. Change(s, WithShipping(u))
    BY <2>2, <2>3, <2>4, PutChange
  <2>6. WithShipping(u) \in Session /\ WithShipping(u).conv = u.conv
        /\ WithShipping(u).did = u.did /\ WithShipping(u).msg = u.msg
        /\ Len(WithShipping(u).new) = Len(u.new)
    BY <1>0, <2>2, <2>3, <2>4, PutDoes DEF Edit, Redo
  <2> QED BY <2>5, <2>6
<1> QED BY <1>1, <1>2

\* The customer's details, then the shipping.
LEMMA SaveInfoDoes ==
  ASSUME TypeOK, NEW w \in Workers, Ready(w), NEW contact \in BOOLEAN,
         NEW method \in {"none", "delivery", "collect"}, SaveInfo(w, contact, method)
  PROVE  \E t : Stays(w, t)
<1>0. Tool(w)
  BY DEF SaveInfo
<1>1. PICK s \in Session, u \in Session :
        /\ s = Load(req[w]) /\ u = Used(w) /\ s.op = "turn" /\ Sound(s, conv, quotes)
        /\ u.op = s.op /\ u.msg = s.msg /\ u.base = s.base /\ u.conv = s.conv
        /\ u.qbase = s.qbase /\ u.q = s.q /\ u.new = s.new /\ u.did = s.did
        /\ u.prior = s.prior /\ u.at = s.at /\ s.conv = req[w].conv
        /\ s.msg = req[w].msg /\ s.new = req[w].new
  BY <1>0, UsedDoes
<1>2. PICK c : c = [u.conv EXCEPT !.contact = @ \/ contact,
                                  !.method = IF method = "none" THEN @ ELSE method]
  OBVIOUS
<1>3. u.conv \in Conv /\ u.did \in SUBSET {"priced", "escalated", "confirmed", "saved"}
  BY SessionType
<1>4. /\ c \in Conv /\ Gives(u.conv, c) /\ c.first = u.conv.first
      /\ c.art = u.conv.art /\ c.said = u.conv.said
  BY <1>2, <1>3 DEF Conv, Gives
<1>5. PICK v : v = [u EXCEPT !.conv = c, !.did = @ \cup {"saved"}]
  OBVIOUS
<1>6. /\ v \in Session /\ v.op = u.op /\ v.base = u.base /\ v.conv = c
      /\ v.qbase = u.qbase /\ v.q = u.q /\ v.new = u.new /\ v.prior = u.prior
      /\ v.did = u.did \cup {"saved"} /\ v.msg = u.msg
  BY <1>3, <1>4, <1>5 DEF Session
<1>7. Change(s, v)
  BY <1>1, <1>4, <1>6, ChangeNote
<1>8. Shape(v, quotes) /\ Deals(v, quotes)
  BY <1>1, <1>7, ChangeSound DEF TypeOK
<1>9. /\ req' = [req EXCEPT ![w] = WithShipping(v)]
      /\ UNCHANGED <<conv, quotes, log, used>>
  BY <1>1, <1>2, <1>5 DEF SaveInfo, Step
<1>10. /\ Change(s, WithShipping(v)) /\ WithShipping(v).conv = c
       /\ WithShipping(v).did = v.did /\ WithShipping(v).msg = v.msg
       /\ Len(WithShipping(v).new) = Len(v.new)
  <2>1. quotes \in Seq(Quote) /\ v.q = s.q /\ v.new = s.new
    BY <1>1, <1>6 DEF TypeOK
  <2> QED BY <1>6, <1>7, <1>8, <2>1, ShippingChange
<1>11. Priced(s, WithShipping(v))
  BY <1>1, <1>6, <1>10 DEF Priced
<1>12. /\ WithShipping(v).msg = req[w].msg
       /\ Len(WithShipping(v).new) = Len(req[w].new)
       /\ WithShipping(v).conv.said = req[w].conv.said
  BY <1>1, <1>4, <1>6, <1>10
<1>13. log' = log /\ log \in [turns: Nat, files: Nat, adds: Nat]
  BY <1>9 DEF TypeOK
<1> QED BY <1>1, <1>9, <1>10, <1>11, <1>12, <1>13 DEF Stays

\* A price for the quote it was asked for before, or a new quote that may
\* supersede older pending ones.
LEMMA RepricedEdit ==
  ASSUME NEW a \in Quote, a.status = "pending", NEW z \in Sizes, NEW d \in BOOLEAN,
         NEW sells, d => sells
  PROVE  Edit(a, [a EXCEPT !.size = z, !.design = d, !.total = Parts(d, FALSE)], sells)
<1>1. PICK b : b = [a EXCEPT !.size = z, !.design = d, !.total = Parts(d, FALSE)]
  OBVIOUS
<1>2. Parts(d, FALSE) \in SUBSET {"design", "shipping"}
  BY DEF Parts
<1>3. b \in Quote /\ b.status = a.status /\ b.design = d /\ b.total = Parts(d, FALSE)
  BY <1>1, <1>2 DEF Quote
<1> QED BY <1>1, <1>3 DEF Edit, Redo, AddsUp

\* A new quote adds up.
LEMMA NewQuoteIs ==
  ASSUME NEW p \in Products, NEW v \in Variants, NEW z \in Sizes, NEW d \in BOOLEAN,
         NEW status \in {"pending", "needs_revision"},
         NEW one, one = NewQuote(p, v, z, d, status)
  PROVE  /\ one \in Quote /\ one.design = d /\ AddsUp(one)
         /\ one.total = Parts(d, FALSE) /\ one.status = status /\ one.product = p
BY CVAssumption DEF NewQuote, Quote, AddsUp, Parts

\* Superseding takes a pending quote.
LEMMA SupersededEdit ==
  ASSUME NEW a \in Quote, NEW sells
  PROVE  a.status = "pending" => Edit(a, [a EXCEPT !.status = "superseded"], sells)
BY DEF Edit, Redo, Quote, AddsUp

\* The new quote comes last.
LEMMA AppendDoes ==
  ASSUME NEW u \in Session, NEW one \in Quote
  PROVE  LET t == [u EXCEPT !.new = Append(@, one)]
         IN /\ t \in Session
            /\ t.op = u.op /\ t.msg = u.msg /\ t.prior = u.prior /\ t.base = u.base
            /\ t.qbase = u.qbase /\ t.conv = u.conv /\ t.did = u.did /\ t.q = u.q
            /\ Len(t.new) = Len(u.new) + 1
            /\ \A j \in 1..Len(u.new) : t.new[j] = u.new[j]
            /\ t.new[Len(u.new) + 1] = one
<1>0. PICK a \in Seq(Quote) : a = u.new
  BY SessionType
<1>1. PICK b : b = Append(a, one)
  OBVIOUS
<1>2. /\ b \in Seq(Quote) /\ Len(b) = Len(a) + 1
      /\ \A j \in 1..Len(a) : b[j] = a[j]
      /\ b[Len(a) + 1] = one
  BY <1>1
<1>3. [u EXCEPT !.new = Append(@, one)] = [u EXCEPT !.new = b]
  BY <1>0, <1>1 DEF Session
<1> QED BY <1>0, <1>2, <1>3 DEF Session

\* Adding it is a change of the session.
LEMMA AppendChange ==
  ASSUME NEW s \in Session, NEW u, Change(s, u), u.op = "turn", NEW one \in Quote,
         AddsUp(one), one.design => Sells(s), one.files = 0
  PROVE  Change(s, [u EXCEPT !.new = Append(@, one)])
<1>1. PICK t : t = [u EXCEPT !.new = Append(@, one)]
  OBVIOUS
<1>2. /\ t \in Session
      /\ t.op = u.op /\ t.prior = u.prior /\ t.base = u.base
      /\ t.qbase = u.qbase /\ t.conv = u.conv /\ t.did = u.did /\ t.q = u.q
      /\ Len(t.new) = Len(u.new) + 1
      /\ \A j \in 1..Len(u.new) : t.new[j] = u.new[j]
      /\ t.new[Len(u.new) + 1] = one
  <2>1. u \in Session
    BY DEF Change
  <2> QED BY <1>1, <2>1, AppendDoes
<1>3. u.new \in Seq(Quote) /\ s.new \in Seq(Quote) /\ t.new \in Seq(Quote)
  BY <1>2, SessionType DEF Change
<1>4. Len(u.new) \in Nat /\ Len(s.new) \in Nat /\ Len(t.new) \in Nat
  BY <1>3
<1>5. ASSUME NEW j \in 1..Len(t.new)
      PROVE  \/ j <= Len(s.new) /\ Edit(s.new[j], t.new[j], Sells(s))
             \/ /\ j > Len(s.new) /\ AddsUp(t.new[j]) /\ t.new[j].files = 0
                /\ t.new[j].design => Sells(s)
  <2>1. CASE j \in 1..Len(u.new)
    BY <1>2, <2>1 DEF Change
  <2>2. CASE j \notin 1..Len(u.new)
    <3>1. j = Len(u.new) + 1
      BY <1>2, <1>4, <2>2
    <3>2. Len(u.new) >= Len(s.new)
      BY DEF Change
    <3>3. j > Len(s.new)
      BY <1>4, <3>1, <3>2
    <3> QED BY <1>2, <3>1, <3>3
  <2> QED BY <2>1, <2>2
<1>6. t.new # <<>> /\ Len(t.new) >= Len(s.new)
  <2>1. Len(t.new) # 0 /\ Len(t.new) >= Len(s.new)
    BY <1>2, <1>4 DEF Change
  <2> QED BY <2>1
<1>7. Change(s, t)
  BY <1>2, <1>5, <1>6 DEF Change
<1> QED BY <1>1, <1>7

\* y is u, with the quotes gone superseded.
Supersedes(u, gone, y) ==
  /\ y.conv = u.conv /\ y.op = u.op /\ y.msg = u.msg /\ y.qbase = u.qbase
  /\ Len(y.q) = Len(u.q) /\ Len(y.new) = Len(u.new)
  /\ \A i \in 1..Len(u.q) :
       y.q[i].status = IF i \in gone THEN "superseded" ELSE u.q[i].status
  /\ \A j \in 1..Len(u.new) :
       y.new[j].status = IF j + Len(u.q) \in gone THEN "superseded" ELSE u.new[j].status

\* Superseding pending quotes.
LEMMA SupersededChange ==
  ASSUME quotes \in Seq(Quote), NEW s \in Session, NEW u, Change(s, u), u.q = s.q,
         u.new = s.new, Shape(u, quotes), Deals(u, quotes), NEW gone, gone \subseteq Pending(u),
         NEW y, y = Superseded(u, gone)
  PROVE  /\ Change(s, y)
         /\ Supersedes(u, gone, y)
<1>0. /\ u \in Session /\ u.q \in Seq(Quote) /\ u.new \in Seq(Quote)
      /\ DOMAIN u.q = 1..Len(u.q) /\ DOMAIN u.new = 1..Len(u.new)
      /\ Len(u.q) \in Nat /\ Len(u.new) \in Nat
  BY SessionType DEF Change
<1>1. PICK a, b :
        /\ a = [i \in DOMAIN u.q |-> IF i \in gone THEN [u.q[i] EXCEPT !.status = "superseded"]
                                     ELSE u.q[i]]
        /\ b = [i \in DOMAIN u.new |->
                  IF i + Len(u.q) \in gone THEN [u.new[i] EXCEPT !.status = "superseded"]
                  ELSE u.new[i]]
  OBVIOUS
<1>2. Superseded(u, gone) = [u EXCEPT !.q = a, !.new = b]
  BY <1>1 DEF Superseded
<1>3. \A i \in gone : i \in DOMAIN All(u) /\ All(u)[i].status = "pending"
  BY PendingIs
<1>4. ASSUME NEW i \in 1..Len(u.q) PROVE a[i] \in Quote /\ Edit(u.q[i], a[i], Sells(s))
  <2>1. u.q[i] \in Quote /\ a[i] = IF i \in gone THEN [u.q[i] EXCEPT !.status = "superseded"]
                                   ELSE u.q[i]
    BY <1>0, <1>1
  <2>2. i \in gone => u.q[i].status = "pending"
    <3>0. i <= Len(u.q)
      BY <1>0
    <3>1. i \in gone => All(u)[i] = u.q[i]
      BY <1>0, <1>3, <3>0, AllDoes
    <3> QED BY <1>3, <3>1
  <2> QED BY <2>1, <2>2, SupersededEdit, EditSame DEF Edit, Redo
<1>5. ASSUME NEW j \in 1..Len(u.new)
      PROVE  b[j] \in Quote /\ Edit(u.new[j], b[j], Sells(s))
  <2>1. u.new[j] \in Quote
        /\ b[j] = IF j + Len(u.q) \in gone THEN [u.new[j] EXCEPT !.status = "superseded"]
                  ELSE u.new[j]
    BY <1>0, <1>1
  <2>2. j + Len(u.q) \in gone => u.new[j].status = "pending"
    <3>1. ~(j + Len(u.q) <= Len(u.q)) /\ (j + Len(u.q)) - Len(u.q) = j
      BY <1>0
    <3>2. j + Len(u.q) \in gone => All(u)[j + Len(u.q)] = u.new[j]
      BY <1>0, <1>3, <3>1, AllDoes
    <3> QED BY <1>3, <3>2
  <2> QED BY <2>1, <2>2, SupersededEdit, EditSame DEF Edit, Redo
<1>6. /\ a \in Seq(Quote) /\ Len(a) = Len(u.q)
      /\ b \in Seq(Quote) /\ Len(b) = Len(u.new)
  <2>1. a \in [1..Len(u.q) -> Quote] /\ b \in [1..Len(u.new) -> Quote]
    BY <1>0, <1>1, <1>4, <1>5
  <2>2. PICK m \in Nat, n \in Nat : m = Len(u.q) /\ n = Len(u.new)
    BY <1>0
  <2>3. a \in [1..m -> Quote] /\ b \in [1..n -> Quote]
    BY <2>1, <2>2
  <2>4. a \in Seq(Quote) /\ Len(a) = m /\ b \in Seq(Quote) /\ Len(b) = n
    BY <2>3
  <2> QED BY <2>2, <2>4
<1>7. PICK t : t = [u EXCEPT !.q = a, !.new = b]
  OBVIOUS
<1>8. /\ t \in Session /\ t.op = u.op /\ t.prior = u.prior /\ t.base = u.base
      /\ t.qbase = u.qbase /\ t.conv = u.conv /\ t.did = u.did /\ t.q = a /\ t.new = b
      /\ t.msg = u.msg
  BY <1>0, <1>6, <1>7 DEF Session
<1>9. b = <<>> <=> u.new = <<>>
  BY <1>0, <1>6
<1>10. Change(s, t)
  <2>1. Len(a) = Len(s.q) /\ Len(b) >= Len(s.new)
    BY <1>0, <1>6
  <2>2. \A i \in 1..Len(s.q) : Edit(s.q[i], t.q[i], Sells(s))
    BY <1>4, <1>8
  <2>3. \A j \in 1..Len(t.new) : j <= Len(s.new) /\ Edit(s.new[j], t.new[j], Sells(s))
    BY <1>0, <1>5, <1>6, <1>8
  <2> QED BY <1>8, <1>9, <2>1, <2>2, <2>3 DEF Change
<1>11. ASSUME NEW i \in 1..Len(u.q)
       PROVE  a[i].status = IF i \in gone THEN "superseded" ELSE u.q[i].status
  <2>1. u.q[i] \in Quote /\ i \in DOMAIN u.q
    BY <1>0
  <2> QED BY <1>1, <2>1 DEF Quote
<1>12. ASSUME NEW j \in 1..Len(u.new)
       PROVE  b[j].status = IF j + Len(u.q) \in gone THEN "superseded" ELSE u.new[j].status
  <2>1. u.new[j] \in Quote /\ j \in DOMAIN u.new
    BY <1>0
  <2> QED BY <1>1, <2>1 DEF Quote
<1>13. Supersedes(u, gone, t)
  BY <1>6, <1>8, <1>11, <1>12 DEF Supersedes
<1> QED BY <1>2, <1>7, <1>10, <1>13

\* What the rule supersedes is pending.
LEMMA OutdatedIs ==
  ASSUME quotes \in Seq(Quote), NEW u, Shape(u, quotes), Deals(u, quotes), NEW p
  PROVE  Outdated(u, p) \subseteq Pending(u)
<1> DEFINE same == {i \in Pending(u) : All(u)[i].product = p}
<1>1. same \subseteq Pending(u)
  OBVIOUS
<1>2. Pending(u) # {} => {Max(Pending(u))} \subseteq Pending(u)
  BY PendingIs
<1> HIDE DEF same
<1>3. Outdated(u, p) = CASE u.msg.adds # "also" /\ same # {} -> same
                         [] /\ u.msg.adds = "actually" /\ same = {}
                            /\ Pending(u) # {} -> {Max(Pending(u))}
                         [] OTHER -> {}
  BY DEF Outdated, same
<1>4. Outdated(u, p) \in {{}, same} \/ (Pending(u) # {} /\ Outdated(u, p) = {Max(Pending(u))})
  BY <1>3
<1> QED BY <1>1, <1>2, <1>4

\* What the session loads is named as on the rows.
LEMMA NamedLoad ==
  ASSUME quotes \in Seq(Quote), NEW s, Shape(s, quotes), Named(s, quotes)
  PROVE  Named(Load(s), quotes)
<1>1. s \in Session /\ Len(s.qbase) = Len(s.q) /\ Len(s.q) <= Len(quotes)
  BY DEF Shape
<1>2. PICK t \in Session :
        /\ t = Load(s) /\ Len(t.q) = Len(quotes)
        /\ \A i \in 1..Len(quotes) :
             /\ t.q[i] = IF i <= Len(s.q) THEN s.q[i] ELSE quotes[i]
             /\ t.qbase[i] = IF i <= Len(s.q) THEN s.qbase[i] ELSE quotes[i]
  BY <1>1, LoadDoes
<1>3. DOMAIN t.q = 1..Len(quotes) /\ DOMAIN s.q = 1..Len(s.q) /\ Len(s.q) \in Nat
  <2>1. t.q \in Seq(Quote) /\ s.q \in Seq(Quote)
    BY <1>1, SessionType
  <2> QED BY <1>2, <2>1
<1>4. ASSUME NEW i \in 1..Len(quotes)
      PROVE  t.q[i].product = t.qbase[i].product /\ t.q[i].product = quotes[i].product
  <2>1. i <= Len(s.q) => i \in DOMAIN s.q
    BY <1>3
  <2> QED BY <1>2, <2>1 DEF Named
<1> QED BY <1>2, <1>3, <1>4 DEF Named

\* No change names another product.
LEMMA NamedChange ==
  ASSUME NEW s, s \in Session, NEW t, Change(s, t), NEW qs, Named(s, qs)
  PROVE  Named(t, qs)
<1>1. t.q \in Seq(Quote) /\ s.q \in Seq(Quote)
  BY SessionType DEF Change
<1>2. DOMAIN t.q = 1..Len(s.q) /\ DOMAIN s.q = 1..Len(s.q) /\ t.qbase = s.qbase
  BY <1>1 DEF Change
<1>3. ASSUME NEW i \in 1..Len(s.q) PROVE t.q[i].product = s.q[i].product
  BY DEF Change, Edit, Redo
<1> QED BY <1>2, <1>3 DEF Named

(***************************************************************************)
(* After the rule has superseded what is outdated, no quote of the product *)
(* is pending, neither in the session nor, once it commits, on the rows.   *)
(***************************************************************************)
LEMMA NoneBesides ==
  ASSUME quotes \in Seq(Quote), NEW x, Shape(x, quotes), Deals(x, quotes), x.op = "turn",
         Len(x.q) = Len(quotes), Named(x, quotes), x.msg.adds # "also", NEW p,
         NEW y, y = Superseded(x, Outdated(x, p))
  PROVE  /\ \A j \in 1..Len(x.new) : ~Live(y.new[j], p)
         /\ \A i \in DOMAIN quotes : Live(quotes[i], p) => i \in Ended(y)
<1> DEFINE gone == Outdated(x, p)
           same == {i \in Pending(x) : All(x)[i].product = p}
<1>1. x \in Session
  BY DEF Shape
<1>2. Change(x, y) /\ Supersedes(x, gone, y)
  <2>1. Change(x, x)
    BY <1>1, ChangeNote, GivesSame
  <2>2. gone \subseteq Pending(x)
    BY OutdatedIs
  <2>3. y = Superseded(x, gone)
    OBVIOUS
  <2> HIDE DEF gone
  <2> QED BY <1>1, <2>1, <2>2, <2>3, SupersededChange
<1> HIDE DEF same
<1>3. same # {} => gone = same
  <2>1. gone = CASE x.msg.adds # "also" /\ same # {} -> same
                 [] /\ x.msg.adds = "actually" /\ same = {}
                    /\ Pending(x) # {} -> {Max(Pending(x))}
                 [] OTHER -> {}
    BY DEF Outdated, same
  <2> HIDE DEF gone
  <2> QED BY <2>1
<1> HIDE DEF gone
<1>9. /\ y.qbase = x.qbase /\ Len(y.q) = Len(x.q) /\ Len(y.new) = Len(x.new)
      /\ \A i \in 1..Len(x.q) :
           y.q[i].status = IF i \in gone THEN "superseded" ELSE x.q[i].status
      /\ \A j \in 1..Len(x.new) :
           y.new[j].status = IF j + Len(x.q) \in gone THEN "superseded" ELSE x.new[j].status
  BY <1>2 DEF Supersedes
<1>4. /\ DOMAIN All(x) = 1..(Len(x.q) + Len(x.new)) /\ Len(x.q) \in Nat /\ Len(x.new) \in Nat
      /\ \A i \in DOMAIN All(x) :
           /\ i <= Len(x.q) => All(x)[i] = x.q[i]
           /\ ~(i <= Len(x.q)) => All(x)[i] = x.new[i - Len(x.q)]
  BY <1>1, AllDoes
<1>5. ASSUME NEW j \in 1..Len(x.new), Live(y.new[j], p) PROVE FALSE
  <2>1. PICK k : k = j + Len(x.q)
    OBVIOUS
  <2>2. k \in DOMAIN All(x) /\ ~(k <= Len(x.q)) /\ k - Len(x.q) = j
    BY <1>4, <2>1
  <2>3. All(x)[k] = x.new[j]
    BY <1>4, <2>2
  <2>4. k \notin gone /\ x.new[j].status = "pending"
    BY <1>5, <1>9, <2>1 DEF Live
  <2>5. x.new[j].product = p
    <3>1. j \in 1..Len(y.new) /\ ~(j > Len(x.new))
      BY <1>4, <1>9
    <3>2. Edit(x.new[j], y.new[j], Sells(x))
      BY <1>2, <3>1 DEF Change
    <3> QED BY <1>5, <3>2 DEF Edit, Redo, Live
  <2>6. k \in Pending(x)
    BY <2>2, <2>3, <2>4 DEF Pending, Status
  <2>7. k \in same
    BY <2>3, <2>5, <2>6 DEF same
  <2> QED BY <1>3, <2>4, <2>7
<1>6. ASSUME NEW i \in DOMAIN quotes, Live(quotes[i], p) PROVE i \in Ended(y)
  <2>1. /\ x.q \in Seq(Quote) /\ y.q \in Seq(Quote)
    BY <1>1, <1>2, SessionType DEF Change
  <2>2. i \in 1..Len(x.q) /\ i \in DOMAIN x.q /\ i \in DOMAIN y.q /\ i <= Len(x.q)
    BY <1>9, <2>1
  <2>3. i \in DOMAIN All(x) /\ All(x)[i] = x.q[i]
    BY <1>4, <2>2
  <2>4. x.q[i].product = p
    BY <1>6, <2>2 DEF Named, Live
  <2>5. CASE x.q[i].status = x.qbase[i].status
    <3>1. i \in Pending(x)
      BY <1>6, <2>2, <2>3, <2>5 DEF Pending, Status, Live
    <3>2. i \in gone
      BY <1>3, <2>3, <2>4, <3>1 DEF same
    <3>3. x.q[i].status = "pending"
      BY <2>3, <3>1, PendingIs
    <3> QED BY <1>9, <2>2, <2>5, <3>2, <3>3 DEF Ended
  <2>6. CASE x.q[i].status # x.qbase[i].status
    <3>1. x.q[i].status # "pending"
      BY <2>2, <2>6 DEF Deals
    <3>2. i \notin gone
      <4>1. i \in gone => i \in Pending(x)
        BY OutdatedIs DEF gone
      <4> QED BY <2>3, <3>1, <4>1, PendingIs
    <3> QED BY <1>9, <2>2, <2>6, <3>2 DEF Ended
  <2> QED BY <2>5, <2>6
<1> QED BY <1>5, <1>6

\* A pricing tool: one quote repriced, or one added.
LEMMA PriceToolDoes ==
  ASSUME TypeOK, NEW w \in Workers, Ready(w), NEW p \in Products, NEW v \in Variants,
         NEW z \in Sizes, NEW design \in BOOLEAN, PriceTool(w, p, v, z, design)
  PROVE  \E t : Stays(w, t)
<1>0. Tool(w) /\ quotes \in Seq(Quote)
  BY DEF PriceTool, TypeOK
<1>1. PICK s \in Session, u \in Session :
        /\ s = Load(req[w]) /\ u = Used(w) /\ s.op = "turn" /\ Sound(s, conv, quotes)
        /\ u.op = s.op /\ u.msg = s.msg /\ u.base = s.base /\ u.conv = s.conv
        /\ u.qbase = s.qbase /\ u.q = s.q /\ u.new = s.new /\ u.did = s.did
        /\ u.prior = s.prior /\ u.at = s.at /\ s.conv = req[w].conv
        /\ s.msg = req[w].msg /\ s.new = req[w].new
  BY <1>0, UsedDoes
<1>2. PICK x : x = [u EXCEPT !.did = @ \cup {"priced"}]
  OBVIOUS
<1>3. /\ x \in Session /\ x.op = u.op /\ x.base = u.base /\ x.conv = u.conv
      /\ x.qbase = u.qbase /\ x.q = u.q /\ x.new = u.new /\ x.prior = u.prior
      /\ x.msg = u.msg /\ x.did = u.did \cup {"priced"}
  BY <1>2 DEF Session
<1>4. PICK d \in BOOLEAN : d = Charged(x, design)
  BY DEF Charged
<1>5. d => Sells(s)
  BY <1>1, <1>3, <1>4 DEF Charged, Sells
<1>6. PICK one \in Quote :
        /\ one = NewQuote(p, v, z, d, "pending") /\ one.design = d
        /\ AddsUp(one) /\ one.total = Parts(d, FALSE) /\ one.files = 0
        /\ one.product = p
  <2>1. PICK one : one = NewQuote(p, v, z, d, "pending")
    OBVIOUS
  <2>2. one \in Quote /\ one.design = d /\ AddsUp(one) /\ one.total = Parts(d, FALSE)
        /\ one.files = 0 /\ one.product = p
    BY <2>1, CVAssumption DEF NewQuote, Quote, AddsUp, Parts
  <2> QED BY <2>1, <2>2
<1>7. \/ \E i \in Reusable(x, p, v) :
           /\ Step(w, Put(x, i, [All(x)[i] EXCEPT !.size = z, !.design = d, !.total = one.total]))
           /\ UNCHANGED log
      \/ /\ Step(w, [Superseded(x, Outdated(x, p)) EXCEPT !.new = Append(@, one)])
         /\ log' = [log EXCEPT !.adds = IF x.msg.adds = "also" THEN @ + 1 ELSE @]
  BY <1>1, <1>2, <1>4, <1>6 DEF PriceTool
<1>8. UNCHANGED <<conv, quotes, used>>
  BY DEF PriceTool
<1>9. Change(s, x) /\ Shape(x, quotes) /\ Deals(x, quotes)
  <2>1. Change(s, x)
    BY <1>1, <1>3, ChangeNote, GivesSame
  <2> QED BY <1>0, <1>1, <2>1, ChangeSound
<1>10. CASE \E i \in Reusable(x, p, v) :
              /\ Step(w, Put(x, i, [All(x)[i] EXCEPT !.size = z, !.design = d, !.total = one.total]))
              /\ UNCHANGED log
  <2>1. PICK i \in Reusable(x, p, v) :
              /\ Step(w, Put(x, i, [All(x)[i] EXCEPT !.size = z, !.design = d, !.total = one.total]))
              /\ UNCHANGED log
    BY <1>10
  <2>2. i \in Pending(x)
    BY <2>1 DEF Reusable
  <2>3. i \in DOMAIN All(x) /\ All(x)[i].status = "pending" /\ All(x)[i] \in Quote
    BY <1>0, <1>3, <1>9, <2>2, PendingIs, AllDoes
  <2>4. s.q # <<>> \/ s.new # <<>>
    BY <1>1, <1>3, <2>3, NotEmpty
  <2>5. PICK quote : quote = [All(x)[i] EXCEPT !.size = z, !.design = d, !.total = one.total]
    OBVIOUS
  <2>6. Edit(All(x)[i], quote, Sells(s))
    BY <1>5, <1>6, <2>3, <2>5, RepricedEdit
  <2>7. PICK t : t = Put(x, i, quote)
    OBVIOUS
  <2>8. Change(s, t)
    BY <1>1, <1>3, <1>9, <2>3, <2>6, <2>7, PutChange
  <2>9. t.conv = x.conv /\ Len(t.new) = Len(x.new) /\ t.msg = x.msg
    BY <1>3, <2>3, <2>6, <2>7, PutDoes DEF Edit, Redo
  <2>10. Priced(s, t)
    <3>1. s.new \in Seq(Quote) /\ t.new \in Seq(Quote)
      BY <2>8, SessionType DEF Change
    <3>2. s.new # <<>> => t.new # <<>>
      BY <1>1, <1>3, <2>9, <3>1
    <3> QED BY <2>4, <3>2 DEF Priced
  <2> QED BY <1>1, <1>3, <1>8, <2>1, <2>5, <2>7, <2>8, <2>9, <2>10 DEF Stays, Step, TypeOK
<1>11. CASE /\ Step(w, [Superseded(x, Outdated(x, p)) EXCEPT !.new = Append(@, one)])
            /\ log' = [log EXCEPT !.adds = IF x.msg.adds = "also" THEN @ + 1 ELSE @]
  <2>1. /\ log'.turns = log.turns /\ log'.files = log.files
        /\ log' \in [turns: Nat, files: Nat, adds: Nat]
    BY <1>11 DEF TypeOK
  <2>2. PICK y : y = Superseded(x, Outdated(x, p))
    OBVIOUS
  <2>3. /\ Change(s, y) /\ y.conv = x.conv /\ y.op = x.op
        /\ y.msg = x.msg /\ Len(y.new) = Len(x.new)
    <3>1. Outdated(x, p) \subseteq Pending(x)
      BY <1>0, <1>9, OutdatedIs
    <3>2. Change(s, y) /\ Supersedes(x, Outdated(x, p), y)
      BY <1>0, <1>1, <1>3, <1>9, <2>2, <3>1, SupersededChange
    <3> QED BY <3>2 DEF Supersedes
  <2>4. PICK t : t = [y EXCEPT !.new = Append(@, one)]
    OBVIOUS
  <2>5. Change(s, t)
    BY <1>1, <1>3, <1>5, <1>6, <2>3, <2>4, AppendChange
  <2>6. /\ t.conv = y.conv /\ t.new # <<>> /\ t.msg = y.msg /\ t.qbase = y.qbase /\ t.q = y.q
        /\ Len(t.new) = Len(y.new) + 1 /\ t.new[Len(y.new) + 1] = one
        /\ \A j \in 1..Len(y.new) : t.new[j] = y.new[j]
    <3>1. y \in Session
      BY <2>3 DEF Change
    <3>2. /\ t.conv = y.conv /\ Len(t.new) = Len(y.new) + 1 /\ y.new \in Seq(Quote)
          /\ t.msg = y.msg /\ t.qbase = y.qbase /\ t.q = y.q
          /\ t.new[Len(y.new) + 1] = one
          /\ \A j \in 1..Len(y.new) : t.new[j] = y.new[j]
      BY <2>4, <3>1, AppendDoes, SessionType
    <3>3. Len(t.new) # 0
      BY <3>2
    <3> QED BY <3>2, <3>3
  <2>7. Priced(s, t) /\ t.conv.said = req[w].conv.said
    BY <1>1, <1>3, <2>3, <2>6 DEF Priced
  <2>8. req' = [req EXCEPT ![w] = t]
    BY <1>11, <2>2, <2>4 DEF Step
  <2>9. Adds(w, t)
    <3>1. s.msg.adds = "also" => log'.adds = log.adds + 1
      BY <1>1, <1>3, <1>11 DEF TypeOK
    <3>2. s.msg.adds # "also" => log'.adds = log.adds
      BY <1>1, <1>3, <1>11 DEF TypeOK
    <3>3. ASSUME s.msg.adds # "also", Named(req[w], quotes), NEW o \in Products, Live(one, o)
          PROVE  /\ \A j \in 1..Len(x.new) : ~Live(y.new[j], o)
                 /\ \A i \in DOMAIN quotes : Live(quotes[i], o) => i \in Ended(y)
      <4>1. Named(x, quotes)
        <5>1. Shape(req[w], quotes)
          BY DEF Ready, Sound
        <5>2. Named(s, quotes)
          BY <1>0, <1>1, <3>3, <5>1, NamedLoad
        <5> QED BY <1>1, <1>9, <5>2, NamedChange
      <4>2. o = p
        BY <1>6, <3>3 DEF Live
      <4>3. Len(x.q) = Len(quotes) /\ x.msg.adds # "also" /\ x.op = "turn"
        BY <1>0, <1>1, <1>3, <3>3, UsedDoes
      <4> QED BY <1>0, <1>9, <2>2, <4>1, <4>2, <4>3, NoneBesides
    <3>4. Ended(t) = Ended(y)
      BY <2>6 DEF Ended
    <3>5. Len(x.new) = Len(req[w].new) /\ Len(t.new) = Len(x.new) + 1
      BY <1>1, <1>3, <2>3, <2>6
    <3> QED BY <1>1, <1>3, <2>3, <2>6, <3>1, <3>2, <3>3, <3>4, <3>5 DEF Adds
  <2>10. t.msg = req[w].msg
    BY <1>1, <1>3, <2>3, <2>6
  <2> QED BY <1>1, <1>8, <2>1, <2>5, <2>7, <2>8, <2>9, <2>10 DEF Stays
<1> QED BY <1>7, <1>10, <1>11
-----------------------------------------------------------------------------
(***************************************************************************)
(* What a commit leaves on the rows.                                       *)
(***************************************************************************)
Grows(c, qs, c2, qs2) ==
  /\ Gives(c, c2) /\ Len(qs2) >= Len(qs)
  /\ \A i \in 1..Len(qs) : qs[i].status # "pending" => qs2[i].status # "pending"

\* A session at work stays sound while the rows grow.
LEMMA GrowsSound ==
  ASSUME NEW s, NEW c, NEW c2, NEW qs \in Seq(Quote), NEW qs2 \in Seq(Quote),
         Sound(s, c, qs), Grows(c, qs, c2, qs2)
  PROVE  Sound(s, c2, qs2)
<1>0. Len(qs) \in Nat /\ Len(qs2) \in Nat /\ Len(qs2) >= Len(qs)
      /\ s \in Session /\ Len(s.q) <= Len(qs)
  BY DEF Grows, Sound, Shape
<1>1. Shape(s, qs2)
  <2>1. s.q \in Seq(Quote) /\ Len(s.q) \in Nat
    BY <1>0, SessionType
  <2> QED BY <1>0, <2>1 DEF Sound, Shape
<1>2. qs # <<>> => qs2 # <<>>
  <2>1. qs # <<>> => Len(qs) # 0
    OBVIOUS
  <2>2. qs2 = <<>> => Len(qs2) = 0
    OBVIOUS
  <2> QED BY <1>0, <2>1, <2>2
<1>3. Knows(s, c2, qs2)
  BY <1>2 DEF Sound, Knows, Earned, Some, Grows, Gives
<1>4. \A i \in DOMAIN s.q : qs[i].status # "pending" => qs2[i].status # "pending"
  <2>1. s.q \in Seq(Quote)
    BY <1>0, SessionType
  <2>2. DOMAIN s.q = 1..Len(s.q) /\ Len(s.q) \in Nat
    BY <2>1
  <2>3. \A i \in DOMAIN s.q : i \in 1..Len(qs)
    BY <1>0, <2>2
  <2> QED BY <2>3 DEF Grows
<1>5. Deals(s, qs2)
  BY <1>4 DEF Sound, Deals
<1> QED BY <1>1, <1>3, <1>5 DEF Sound

\* The quotes after a commit, one by one.
LEMMA MergedSeq ==
  ASSUME quotes \in Seq(Quote), NEW t \in Session, Len(t.qbase) = Len(t.q),
         Len(t.q) <= Len(quotes), Write(t)
  PROVE  /\ quotes' \in Seq(Quote) /\ Len(quotes') = Len(quotes) + Len(t.new)
         /\ \A i \in 1..Len(quotes) :
              quotes'[i] = IF i <= Len(t.q) THEN Merge(quotes[i], t.qbase[i], t.q[i])
                           ELSE quotes[i]
         /\ \A j \in 1..Len(t.new) : quotes'[Len(quotes) + j] = t.new[j]
<1>0. /\ t.q \in Seq(Quote) /\ t.qbase \in Seq(Quote) /\ t.new \in Seq(Quote)
      /\ Len(quotes) \in Nat /\ Len(t.q) \in Nat /\ Len(t.new) \in Nat
      /\ DOMAIN t.q = 1..Len(t.q) /\ DOMAIN quotes = 1..Len(quotes)
  BY SessionType
<1>1. PICK m : m = [i \in DOMAIN quotes |->
                      IF i \in DOMAIN t.q THEN Merge(quotes[i], t.qbase[i], t.q[i])
                      ELSE quotes[i]]
  OBVIOUS
<1>2. quotes' = m \o t.new
  BY <1>1 DEF Write
<1>3. ASSUME NEW i \in 1..Len(quotes)
      PROVE  /\ m[i] \in Quote
             /\ m[i] = IF i <= Len(t.q) THEN Merge(quotes[i], t.qbase[i], t.q[i])
                       ELSE quotes[i]
  <2>1. m[i] = IF i <= Len(t.q) THEN Merge(quotes[i], t.qbase[i], t.q[i])
               ELSE quotes[i]
    BY <1>0, <1>1
  <2>2. quotes[i] \in Quote
    BY <1>0
  <2>3. i <= Len(t.q) => t.qbase[i] \in Quote /\ t.q[i] \in Quote
    BY <1>0
  <2>4. i <= Len(t.q) => Merge(quotes[i], t.qbase[i], t.q[i]) \in Quote
    BY <2>2, <2>3, MergedQuote
  <2> QED BY <2>1, <2>2, <2>4
<1>4. PICK n \in Nat : n = Len(quotes)
  BY <1>0
<1>5. m \in Seq(Quote) /\ Len(m) = n
  <2>1. m \in [1..n -> Quote]
    BY <1>0, <1>1, <1>3, <1>4
  <2> QED BY <2>1
<1>6. PICK b \in Seq(Quote) : b = t.new
  BY <1>0
<1>7. /\ m \o b \in Seq(Quote) /\ Len(m \o b) = n + Len(b)
      /\ \A i \in 1..n : (m \o b)[i] = m[i]
      /\ \A j \in 1..Len(b) : (m \o b)[n + j] = b[j]
  BY <1>5
<1> QED BY <1>2, <1>3, <1>4, <1>6, <1>7

\* A commit lets the rows grow.
LEMMA Written ==
  ASSUME TypeOK, NEW t, Sound(t, conv, quotes), Write(t)
  PROVE  /\ conv' \in Conv /\ quotes' \in Seq(Quote)
         /\ Len(quotes') = Len(quotes) + Len(t.new)
         /\ Grows(conv, quotes, conv', quotes') /\ Gives(t.conv, conv')
         /\ conv'.said = IF t.conv.said # t.base.said THEN t.conv.said ELSE conv.said
<1>0. /\ t \in Session /\ t.base \in Conv /\ t.conv \in Conv /\ conv \in Conv
      /\ quotes \in Seq(Quote) /\ Len(t.qbase) = Len(t.q) /\ Len(t.q) <= Len(quotes)
  BY SessionType DEF Sound, Shape, TypeOK
<1>1. conv' = Merge(conv, t.base, t.conv)
  BY DEF Write
<1>2. /\ conv' \in Conv
      /\ conv'.contact = IF t.conv.contact # t.base.contact THEN t.conv.contact ELSE conv.contact
      /\ conv'.method = IF t.conv.method # t.base.method THEN t.conv.method ELSE conv.method
      /\ conv'.said = IF t.conv.said # t.base.said THEN t.conv.said ELSE conv.said
  BY <1>0, <1>1, MergedConv
<1>3. Gives(conv, conv') /\ Gives(t.conv, conv')
  <2>1. Gives(t.base, t.conv) /\ Gives(t.base, conv)
    BY DEF Sound, Knows
  <2>2. /\ t.base.contact \in BOOLEAN /\ t.conv.contact \in BOOLEAN
        /\ conv.contact \in BOOLEAN /\ conv'.contact \in BOOLEAN
    BY <1>0, <1>2 DEF Conv
  <2> QED BY <1>2, <2>1, <2>2 DEF Gives
<1>4. /\ quotes' \in Seq(Quote) /\ Len(quotes') = Len(quotes) + Len(t.new)
      /\ \A i \in 1..Len(quotes) :
           quotes'[i] = IF i <= Len(t.q) THEN Merge(quotes[i], t.qbase[i], t.q[i])
                        ELSE quotes[i]
  BY <1>0, MergedSeq
<1>5. /\ t.q \in Seq(Quote) /\ t.qbase \in Seq(Quote) /\ t.new \in Seq(Quote)
      /\ Len(t.q) \in Nat /\ DOMAIN t.q = 1..Len(t.q) /\ Len(t.new) \in Nat
      /\ Len(quotes) \in Nat
  BY <1>0, SessionType
<1>6. ASSUME NEW i \in 1..Len(quotes), quotes[i].status # "pending"
      PROVE  quotes'[i].status # "pending"
  <2>1. CASE i <= Len(t.q)
    <3>1. /\ i \in DOMAIN t.q /\ t.q[i] \in Quote /\ t.qbase[i] \in Quote
          /\ quotes[i] \in Quote
      BY <1>0, <1>5, <2>1
    <3>2. quotes'[i].status = IF t.q[i].status # t.qbase[i].status THEN t.q[i].status
                              ELSE quotes[i].status
      BY <1>4, <2>1, <3>1, MergedQuote
    <3> QED BY <1>6, <3>1, <3>2 DEF Sound, Deals
  <2>2. CASE ~(i <= Len(t.q))
    BY <1>4, <1>6, <2>2
  <2> QED BY <2>1, <2>2
<1>7. Grows(conv, quotes, conv', quotes')
  BY <1>3, <1>4, <1>5, <1>6 DEF Grows
<1> QED BY <1>2, <1>3, <1>4, <1>7

\* What a session that is alone commits is what it holds.
LEMMA WrittenAlone ==
  ASSUME TypeOK, NEW t, Sound(t, conv, quotes), Write(t),
         Alone(t, conv, quotes), \A i \in DOMAIN quotes : AddsUp(quotes[i])
  PROVE  /\ conv' = t.conv
         /\ \A i \in DOMAIN quotes' : AddsUp(quotes'[i])
         /\ \A i \in DOMAIN quotes : quotes[i].status # "pending" =>
              quotes'[i] = [quotes[i] EXCEPT !.confirmed = quotes'[i].confirmed]
         /\ \A i \in DOMAIN quotes' :
              quotes'[i].design => \/ i \in DOMAIN quotes /\ quotes[i].design
                                   \/ conv'.art # "own"
<1>0. /\ t \in Session /\ t.base \in Conv /\ t.conv \in Conv /\ conv \in Conv
      /\ quotes \in Seq(Quote) /\ Len(t.qbase) = Len(t.q) /\ Len(t.q) <= Len(quotes)
  BY SessionType DEF Sound, Shape, TypeOK
<1>1. conv' = t.conv
  BY <1>0, MergedConv DEF Write, Alone
<1>2. /\ quotes' \in Seq(Quote) /\ Len(quotes') = Len(quotes) + Len(t.new)
      /\ \A i \in 1..Len(quotes) :
           quotes'[i] = IF i <= Len(t.q) THEN Merge(quotes[i], t.qbase[i], t.q[i])
                        ELSE quotes[i]
      /\ \A j \in 1..Len(t.new) : quotes'[Len(quotes) + j] = t.new[j]
  BY <1>0, MergedSeq
<1>3. /\ t.q \in Seq(Quote) /\ t.qbase \in Seq(Quote) /\ t.new \in Seq(Quote)
      /\ Len(t.q) \in Nat /\ DOMAIN t.q = 1..Len(t.q) /\ Len(t.new) \in Nat
      /\ DOMAIN t.new = 1..Len(t.new)
      /\ Len(quotes) \in Nat /\ DOMAIN quotes = 1..Len(quotes)
      /\ DOMAIN quotes' = 1..(Len(quotes) + Len(t.new))
  BY <1>0, <1>2, SessionType
<1>4. ASSUME NEW i \in 1..Len(quotes), i <= Len(t.q)
      PROVE  /\ i \in DOMAIN t.q /\ quotes'[i] = t.q[i] /\ t.qbase[i] = quotes[i]
             /\ quotes[i] \in Quote /\ t.q[i] \in Quote
  <2>1. i \in DOMAIN t.q /\ t.q[i] \in Quote /\ t.qbase[i] \in Quote /\ quotes[i] \in Quote
    BY <1>0, <1>3, <1>4
  <2>2. t.qbase[i] = quotes[i]
    BY <2>1 DEF Alone
  <2>3. Merge(quotes[i], t.qbase[i], t.q[i]) = t.q[i]
    BY <2>1, <2>2, MergedQuote
  <2> QED BY <1>2, <1>4, <2>1, <2>2, <2>3
<1>5. ASSUME NEW i \in 1..Len(quotes), ~(i <= Len(t.q))
      PROVE  quotes'[i] = quotes[i] /\ quotes[i] \in Quote
  BY <1>0, <1>2, <1>5
<1>6. ASSUME NEW i \in DOMAIN quotes', i \notin 1..Len(quotes)
      PROVE  \E j \in DOMAIN t.new : quotes'[i] = t.new[j]
  <2>1. PICK j : j = i - Len(quotes)
    OBVIOUS
  <2>2. j \in 1..Len(t.new) /\ Len(quotes) + j = i
    BY <1>3, <1>6, <2>1
  <2> QED BY <1>2, <1>3, <2>2
<1>7. ASSUME NEW i \in DOMAIN quotes' PROVE AddsUp(quotes'[i])
  BY <1>3, <1>4, <1>5, <1>6 DEF Alone
<1>8. ASSUME NEW i \in DOMAIN quotes, quotes[i].status # "pending"
      PROVE  quotes'[i] = [quotes[i] EXCEPT !.confirmed = quotes'[i].confirmed]
  <2>1. CASE i <= Len(t.q)
    BY <1>3, <1>4, <1>8, <2>1 DEF Sound, Deals
  <2>2. CASE ~(i <= Len(t.q))
    BY <1>3, <1>5, <2>2 DEF Quote
  <2> QED BY <2>1, <2>2
<1>9. Sells(t) => conv'.art # "own"
  BY <1>1 DEF Sells
<1>10. ASSUME NEW i \in DOMAIN quotes', quotes'[i].design
       PROVE  (i \in DOMAIN quotes /\ quotes[i].design) \/ conv'.art # "own"
  <2>1. CASE i \in DOMAIN quotes /\ i <= Len(t.q)
    BY <1>3, <1>4, <1>9, <1>10, <2>1 DEF Sound, Deals
  <2>2. CASE i \in DOMAIN quotes /\ ~(i <= Len(t.q))
    BY <1>3, <1>5, <1>10, <2>2
  <2>3. CASE i \notin DOMAIN quotes
    BY <1>3, <1>6, <1>9, <1>10, <2>3 DEF Sound, Deals
  <2> QED BY <2>1, <2>2, <2>3
<1> QED BY <1>1, <1>7, <1>8, <1>10
-----------------------------------------------------------------------------
(***************************************************************************)
(* The kinds of steps, and what each of them leaves of the invariants.     *)
(***************************************************************************)
LogType == [turns: Nat, files: Nat, adds: Nat]

UsedType == [requests: Nat, overlaps: Nat, faults: Nat]

IInv == TypeOK /\ SessionsInv /\ TurnsInv

\* What a session about to be written says besides what it loaded.
Speaks(t) ==
  \/ t.conv.said = t.base.said /\ log'.turns = log.turns
  \/ /\ t.conv.said.n = t.base.said.n + 1 /\ log'.turns = log.turns + 1
     /\ "ready" \in t.conv.said.shown =>
          \/ "ready" \in t.base.said.shown
          \/ t.conv.contact /\ t.conv.method # "none" /\ Some(t, quotes)

\* The session t of w adds a file to a quote.
FileWrite(w, t) ==
  LET s == req[w]
  IN /\ s.at \in DOMAIN s.q /\ t.qbase = s.qbase /\ t.new = <<>>
     /\ Len(t.q) = Len(s.q)
     /\ \A i \in DOMAIN s.q :
          t.q[i].files = IF i = s.at THEN s.q[i].files + 1 ELSE s.q[i].files
     /\ log'.files = log.files + 1
     /\ req' = [req EXCEPT ![w] = Idle]

(***************************************************************************)
(* What session s did to the rows, t still does, and nothing that was not  *)
(* pending in s is pending in t.                                           *)
(***************************************************************************)
Follows(s, t) ==
  /\ Ended(s) \subseteq Ended(t) /\ Len(t.new) >= Len(s.new)
  /\ Named(s, quotes) => Named(t, quotes)
  /\ \A p \in Products : \A j \in 1..Len(s.new) :
       Live(t.new[j], p) => Live(s.new[j], p)

\* The last query of w adds no pending quote.
AddsNone(w, t) ==
  \A j \in 1..Len(t.new) : j > Len(req[w].new) => t.new[j].status # "pending"

\* The session t of w is written; w is done with it or goes on.
Commits(w, t) ==
  /\ Follows(req[w], t) /\ AddsNone(w, t) /\ log'.adds = log.adds
  /\ \/ log'.files = log.files /\ (Untouched(req[w]) => Untouched(t))
     \/ FileWrite(w, t)
  /\ Sound(t, conv, quotes) /\ t.base = req[w].base
  /\ Sole => Alone(t, conv, quotes)
  /\ Write(t) /\ Speaks(t) /\ used' = used /\ log' \in LogType
  /\ \/ req' = [req EXCEPT ![w] = Idle]
     \/ /\ t.op = "turn" /\ t.conv.said = t.base.said /\ t.new # <<>>
        /\ req' = [req EXCEPT ![w] = Fresh(t, conv', quotes')]

\* A worker that was free has loaded the rows.
Begins(w, s) ==
  /\ w \notin Active /\ s.op # "idle"
  /\ Sound(s, conv, quotes) /\ Aimed(s) /\ Quiet(s) /\ s.base = conv
  /\ Sole => Alone(s, conv, quotes)
  /\ s.q = s.qbase /\ s.new = <<>> /\ (s.qbase = quotes \/ s.qbase = <<>>)
  /\ req' = [req EXCEPT ![w] = s]
  /\ conv' = conv /\ quotes' = quotes /\ log' = log
  /\ used' \in UsedType
  /\ used'.overlaps = IF Active # {} THEN used.overlaps + 1 ELSE used.overlaps

\* The session is dropped.
Drops(w) ==
  /\ req' = [req EXCEPT ![w] = Idle]
  /\ conv' = conv /\ quotes' = quotes /\ log' = log
  /\ used' \in UsedType /\ used'.overlaps = used.overlaps

\* The idle session is one.
LEMMA IdleType == CVAssumption => Idle \in Session /\ Idle.op = "idle"
<1> SUFFICES ASSUME CVAssumption PROVE Idle \in Session /\ Idle.op = "idle"
  OBVIOUS
<1>1. NewConv \in Conv
  BY DEF NewConv, Conv, Said
<1>2. <<>> \in Seq(Quote) /\ 0 \in 0..MaxTools
  BY DEF CVAssumption
<1> HIDE DEF NewConv
<1> QED BY <1>1, <1>2 DEF Idle, Session, Message

\* A step changes the session of one worker.
LEMMA OneRequest ==
  ASSUME NEW w \in Workers, NEW s \in Session, req \in [Workers -> Session],
         req' = [req EXCEPT ![w] = s]
  PROVE  /\ req' \in [Workers -> Session] /\ req'[w] = s
         /\ \A v \in Workers : v # w => req'[v] = req[v]
         /\ s.op = "idle" => Active' = Active \ {w}
         /\ s.op # "idle" => Active' = Active \cup {w}
<1>1. req' \in [Workers -> Session] /\ req'[w] = s
      /\ \A v \in Workers : v # w => req'[v] = req[v]
  OBVIOUS
<1>2. Active' = {v \in Workers : req'[v].op # "idle"}
  BY DEF Active
<1> QED BY <1>1, <1>2 DEF Active

\* How many are at work, with one more or one less.
LEMMA Counted ==
  ASSUME IsFiniteSet(Active), NEW w
  PROVE  /\ Cardinality(Active) \in Nat
         /\ IsFiniteSet(Active \ {w}) /\ IsFiniteSet(Active \cup {w})
         /\ w \in Active => Cardinality(Active \ {w}) = Cardinality(Active) - 1
         /\ w \notin Active => Cardinality(Active \ {w}) = Cardinality(Active)
         /\ w \notin Active => Cardinality(Active \cup {w}) = Cardinality(Active) + 1
         /\ w \in Active => Active \cup {w} = Active
<1>1. Cardinality(Active) \in Nat
  BY FS_CardinalityType
<1>2. /\ IsFiniteSet(Active \ {w})
      /\ Cardinality(Active \ {w}) = IF w \in Active THEN Cardinality(Active) - 1
                                     ELSE Cardinality(Active)
  BY FS_RemoveElement
<1>3. /\ IsFiniteSet(Active \cup {w})
      /\ Cardinality(Active \cup {w}) = IF w \in Active THEN Cardinality(Active)
                                        ELSE Cardinality(Active) + 1
  BY FS_AddElement
<1> QED BY <1>1, <1>2, <1>3

\* A step within a session.
LEMMA StaysKeeps ==
  ASSUME IInv, NEW w \in Workers, req[w].op = "turn", NEW t, Stays(w, t)
  PROVE  IInv'
<1>0. TypeOK /\ SessionsInv /\ TurnsInv
  BY DEF IInv
<1>1. w \in Active /\ Ready(w) /\ req[w] \in Session
  BY <1>0 DEF Active, SessionsInv, TypeOK
<1>2. /\ Sound(Load(req[w]), conv, quotes) /\ Quiet(Load(req[w]))
      /\ Load(req[w]).base = req[w].base /\ Load(req[w]).op = "turn"
  BY <1>0, <1>1, LoadSound, LoadDoes DEF Ready, TypeOK, Sound, Shape
<1>3. PICK s : s = Load(req[w])
  OBVIOUS
<1>4. Change(s, t) /\ Priced(s, t)
  BY <1>3 DEF Stays
<1>5. /\ Sound(t, conv, quotes) /\ t \in Session
      /\ Alone(s, conv, quotes) => Alone(t, conv, quotes)
  BY <1>0, <1>2, <1>3, <1>4, ChangeSound DEF TypeOK, Change
<1>6. t.op = "turn" /\ t.base = req[w].base /\ Aimed(t) /\ Quiet(t)
  <2>1. t.op = "turn" /\ t.base = req[w].base
    BY <1>2, <1>3, <1>4 DEF Change
  <2>2. req[w].conv.said = req[w].base.said
    BY <1>1 DEF Ready, Quiet
  <2> QED BY <2>1, <2>2 DEF Aimed, Quiet, Stays
<1>7. /\ req' \in [Workers -> Session] /\ req'[w] = t
      /\ \A v \in Workers : v # w => req'[v] = req[v]
      /\ Active' = Active
  <2>1. req \in [Workers -> Session] /\ req' = [req EXCEPT ![w] = t]
    BY <1>0 DEF TypeOK, Stays
  <2>2. Active' = Active \cup {w}
    BY <1>5, <1>6, <2>1, OneRequest
  <2> QED BY <1>1, <1>5, <2>1, <2>2, OneRequest
<1>8. /\ conv' = conv /\ quotes' = quotes /\ used' = used
      /\ log'.turns = log.turns /\ log' \in LogType
  BY DEF Stays, LogType
<1>9. TypeOK'
  BY <1>0, <1>7, <1>8 DEF TypeOK, LogType
<1>10. SessionsInv'
  <2>1. Earned(conv, quotes # <<>>)'
    BY <1>0, <1>8 DEF SessionsInv, Earned
  <2>2. ASSUME NEW v \in Active' PROVE Ready(v)'
    <3>1. v \in Workers
      BY <1>7 DEF Active
    <3>2. CASE v = w
      BY <1>5, <1>6, <1>7, <1>8, <3>2 DEF Ready
    <3>3. CASE v # w
      <4>1. Ready(v)
        BY <1>0, <1>7 DEF SessionsInv
      <4> QED BY <1>7, <1>8, <3>1, <3>3, <4>1 DEF Ready
    <3> QED BY <3>2, <3>3
  <2>3. ASSUME used'.overlaps = 0 PROVE Sole'
    <3>1. Sole
      BY <1>0, <1>8, <2>3 DEF SessionsInv
    <3>2. Alone(t, conv, quotes)
      <4>1. Alone(req[w], conv, quotes) /\ \A i \in DOMAIN quotes : AddsUp(quotes[i])
        BY <1>1, <3>1 DEF Sole
      <4>2. Alone(s, conv, quotes)
        BY <1>0, <1>1, <1>3, <4>1, LoadAlone DEF Ready, TypeOK, Active
      <4> QED BY <1>5, <4>2
    <3>3. \A v \in Active' : v = w
      BY <1>1, <1>7, <3>1 DEF Sole
    <3>4. \A i \in DOMAIN quotes' : AddsUp(quotes'[i])
      BY <1>8, <3>1 DEF Sole
    <3> QED BY <1>7, <1>8, <3>2, <3>3, <3>4 DEF Sole
  <2> QED BY <2>1, <2>2, <2>3 DEF SessionsInv
<1>11. TurnsInv'
  <2>1. \A v \in Active' : v \in Workers /\ req'[v].base = req[v].base
    BY <1>6, <1>7 DEF Active
  <2> QED BY <1>0, <1>7, <1>8, <2>1 DEF TurnsInv, TurnsKept
<1> QED BY <1>9, <1>10, <1>11 DEF IInv

\* What the other sessions keep while the rows grow.
LEMMA OthersKeep ==
  ASSUME IInv, NEW w \in Workers, NEW s \in Session, req' = [req EXCEPT ![w] = s],
         conv' \in Conv, quotes' \in Seq(Quote), Grows(conv, quotes, conv', quotes')
  PROVE  /\ \A v \in Active' : v # w => Ready(v)' /\ v \in Active /\ req'[v] = req[v]
         /\ Sole => \A v \in Active' : v = w \/ w \notin Active
<1>0. TypeOK /\ SessionsInv /\ TurnsInv
  BY DEF IInv
<1>1. /\ req' \in [Workers -> Session] /\ req'[w] = s
      /\ \A v \in Workers : v # w => req'[v] = req[v]
      /\ s.op = "idle" => Active' = Active \ {w}
      /\ s.op # "idle" => Active' = Active \cup {w}
  <2>1. req \in [Workers -> Session]
    BY <1>0 DEF TypeOK
  <2> QED BY <2>1, OneRequest
<1>2. ASSUME NEW v \in Active', v # w PROVE v \in Active /\ v \in Workers /\ req'[v] = req[v]
  <2>1. v \in Workers /\ v \in Active
    BY <1>1, <1>2 DEF Active
  <2> QED BY <1>1, <1>2, <2>1
<1>3. ASSUME NEW v \in Active', v # w PROVE Ready(v)'
  <2>1. Ready(v)
    BY <1>0, <1>2, <1>3 DEF SessionsInv
  <2>2. quotes \in Seq(Quote)
    BY <1>0 DEF TypeOK
  <2>3. Sound(req[v], conv', quotes')
    BY <2>1, <2>2, GrowsSound DEF Ready
  <2> QED BY <1>2, <1>3, <2>1, <2>3 DEF Ready
<1>4. ASSUME Sole, NEW v \in Active', w \in Active PROVE v = w
  BY <1>2, <1>4 DEF Sole
<1> QED BY <1>2, <1>3, <1>4

\* The session after its own commit.
LEMMA FreshDoes ==
  ASSUME NEW t \in Session, NEW c \in Conv, NEW qs \in Seq(Quote)
  PROVE  LET r == Fresh(t, c, qs)
         IN /\ r \in Session /\ r.op = t.op /\ r.base = c /\ r.conv = c
            /\ r.qbase = qs /\ r.q = qs /\ r.new = <<>> /\ r.did = t.did
            /\ r.prior = t.prior
<1>1. <<>> \in Seq(Quote)
  OBVIOUS
<1> QED BY <1>1 DEF Fresh, Session

\* A session that has loaded the rows as they are and changed nothing.
LEMMA FreshSound ==
  ASSUME NEW c \in Conv, NEW qs \in Seq(Quote), NEW r \in Session,
         r.base = c, Gives(c, r.conv), c.first # None => r.conv.first = c.first,
         r.q = r.qbase, r.qbase = qs \/ r.qbase = <<>>, r.new = <<>>,
         Earned(c, qs # <<>>), r.prior => qs # <<>>, "priced" \in r.did => qs # <<>>
  PROVE  /\ Sound(r, c, qs)
         /\ (\A i \in DOMAIN qs : AddsUp(qs[i])) => Alone(r, c, qs)
<1>1. DOMAIN <<>> = {} /\ Len(<<>>) = 0 /\ Len(qs) \in Nat
  OBVIOUS
<1>2. \A quote \in Quote : quote = [quote EXCEPT !.confirmed = quote.confirmed]
  BY DEF Quote
<1>3. \A i \in DOMAIN qs : qs[i] \in Quote
  OBVIOUS
<1>4. Shape(r, qs)
  BY <1>1 DEF Shape
<1>5. Deals(r, qs)
  <2>1. ASSUME NEW i \in DOMAIN r.q
        PROVE  r.qbase[i] = qs[i] /\ r.q[i] = qs[i] /\ qs[i] \in Quote
    BY <1>1, <1>3
  <2>2. \A j \in DOMAIN r.new : FALSE
    BY <1>1
  <2> QED BY <1>2, <2>1, <2>2 DEF Deals
<1>6. Knows(r, c, qs)
  BY DEF Knows, Gives, Some
<1>7. ASSUME \A i \in DOMAIN qs : AddsUp(qs[i]) PROVE Alone(r, c, qs)
  BY <1>1, <1>7 DEF Alone
<1> QED BY <1>4, <1>5, <1>6, <1>7 DEF Sound

\* The card on the row was earned, now or before.
LEMMA CommitEarned ==
  ASSUME IInv, NEW w \in Workers, NEW t, Commits(w, t)
  PROVE  Earned(conv', quotes' # <<>>)
<1>0. TypeOK /\ Earned(conv, quotes # <<>>)
  BY DEF IInv, SessionsInv
<1>1. /\ Sound(t, conv, quotes) /\ Write(t) /\ Speaks(t)
  BY DEF Commits
<1>2. /\ conv' \in Conv /\ quotes' \in Seq(Quote)
      /\ Len(quotes') = Len(quotes) + Len(t.new)
      /\ Grows(conv, quotes, conv', quotes') /\ Gives(t.conv, conv')
      /\ conv'.said = IF t.conv.said # t.base.said THEN t.conv.said ELSE conv.said
  BY <1>0, <1>1, Written
<1>3. quotes # <<>> \/ t.new # <<>> => quotes' # <<>>
  <2>1. quotes \in Seq(Quote) /\ t.new \in Seq(Quote)
    BY <1>0, <1>1, SessionType DEF TypeOK, Sound, Shape
  <2>2. /\ Len(quotes) \in Nat /\ Len(t.new) \in Nat
        /\ quotes # <<>> => Len(quotes) # 0
        /\ t.new # <<>> => Len(t.new) # 0
        /\ quotes' = <<>> => Len(quotes') = 0
    BY <2>1
  <2> QED BY <1>2, <2>2
<1>4. ASSUME "ready" \in conv'.said.shown
      PROVE  conv'.contact /\ conv'.method # "none" /\ quotes' # <<>>
  <2>1. CASE t.conv.said = t.base.said
    BY <1>0, <1>2, <1>3, <1>4, <2>1 DEF Earned, Grows, Gives
  <2>2. CASE t.conv.said # t.base.said
    <3>1. "ready" \in t.conv.said.shown
      BY <1>2, <1>4, <2>2
    <3>2. CASE "ready" \in t.base.said.shown
      <4>1. Earned(t.base, quotes # <<>>) /\ Gives(t.base, t.conv)
        BY <1>1 DEF Sound, Knows
      <4> QED BY <1>2, <1>3, <3>2, <4>1 DEF Earned, Gives
    <3>3. CASE t.conv.contact /\ t.conv.method # "none" /\ Some(t, quotes)
      BY <1>2, <1>3, <3>3 DEF Gives, Some
    <3> QED BY <1>1, <2>2, <3>1, <3>2, <3>3 DEF Speaks
  <2> QED BY <2>1, <2>2
<1> QED BY <1>4 DEF Earned

\* The messages lose at most what the session missed.
LEMMA CommitTurns ==
  ASSUME IInv, NEW w \in Workers, w \in Active, NEW t, Commits(w, t), CVAssumption
  PROVE  TurnsInv'
<1>0. TypeOK /\ TurnsInv
  BY DEF IInv
<1>1. /\ Sound(t, conv, quotes) /\ Write(t) /\ Speaks(t) /\ used' = used
      /\ log' \in LogType /\ t.base = req[w].base /\ t \in Session
  BY DEF Commits, Sound, Shape
<1>2. /\ conv' \in Conv /\ quotes' \in Seq(Quote)
      /\ conv'.said = IF t.conv.said # t.base.said THEN t.conv.said ELSE conv.said
  BY <1>0, <1>1, Written
<1>3. PICK s \in Session :
        /\ req' = [req EXCEPT ![w] = s]
        /\ \/ s.op = "idle"
           \/ s.op # "idle" /\ s.base = conv' /\ t.conv.said = t.base.said
  <2>1. CASE req' = [req EXCEPT ![w] = Idle]
    BY <2>1, IdleType
  <2>2. CASE /\ t.op = "turn" /\ t.conv.said = t.base.said /\ t.new # <<>>
             /\ req' = [req EXCEPT ![w] = Fresh(t, conv', quotes')]
    BY <1>1, <1>2, <2>2, FreshDoes
  <2> QED BY <2>1, <2>2 DEF Commits
<1>4. /\ req' \in [Workers -> Session] /\ req'[w] = s
      /\ \A v \in Workers : v # w => req'[v] = req[v]
      /\ s.op = "idle" => Active' = Active \ {w}
      /\ s.op # "idle" => Active' = Active
  <2>1. req \in [Workers -> Session] /\ Active \cup {w} = Active
    BY <1>0 DEF TypeOK
  <2> QED BY <1>3, <2>1, OneRequest
<1>5. PICK k \in Nat : k = Cardinality(Active)
  BY <1>0, Counted DEF TurnsInv
<1>6. /\ IsFiniteSet(Active') /\ Cardinality(Active') \in Nat
      /\ s.op = "idle" => Cardinality(Active') = k - 1
      /\ s.op # "idle" => Cardinality(Active') = k
  <2>1. CASE s.op = "idle"
    <3>1. /\ IsFiniteSet(Active \ {w}) /\ Cardinality(Active \ {w}) = k - 1
      BY <1>0, <1>5, Counted DEF TurnsInv
    <3> QED BY <1>4, <2>1, <3>1, FS_CardinalityType
  <2>2. CASE s.op # "idle"
    BY <1>0, <1>4, <1>5, <2>2 DEF TurnsInv
  <2> QED BY <2>1, <2>2
<1>7. PICK j \in Nat : j = Cardinality(Active')
  BY <1>6
<1>8. PICK o \in Nat, n \in Nat, l \in Nat, b \in Nat :
        o = used.overlaps /\ n = conv.said.n /\ l = log.turns /\ b = t.base.said.n
  <2>1. used.overlaps \in Nat /\ conv.said.n \in Nat /\ log.turns \in Nat
    BY <1>0 DEF TypeOK, Conv, Said
  <2>2. t.base \in Conv
    BY <1>1, SessionType
  <2>3. t.base.said.n \in Nat
    BY <2>2 DEF Conv, Said
  <2> QED BY <2>1, <2>3
<1>9. n <= l /\ l - n <= o /\ b <= l /\ l - b + k - 1 <= o /\ l - n + k - 1 <= o
  BY <1>0, <1>1, <1>5, <1>8 DEF TurnsInv, TurnsKept
<1>10. ASSUME NEW v \in Active', v # w
       PROVE  /\ v \in Active /\ req'[v].base = req[v].base /\ req[v].base.said.n \in Nat
              /\ req[v].base.said.n <= l /\ l - req[v].base.said.n + k - 1 <= o
  <2>1. v \in Workers /\ v \in Active
    BY <1>4, <1>10 DEF Active
  <2>2. req[v].base \in Conv
    BY <1>0, <2>1, SessionType DEF TypeOK
  <2>3. req[v].base.said.n \in Nat
    BY <2>2 DEF Conv, Said
  <2> QED BY <1>0, <1>4, <1>5, <1>8, <1>10, <2>1, <2>3 DEF TurnsInv
<1>11. CASE t.conv.said = t.base.said /\ log'.turns = log.turns
  <2>1. conv'.said.n = n /\ log'.turns = l /\ used'.overlaps = o /\ j <= k
    BY <1>1, <1>2, <1>3, <1>6, <1>7, <1>8, <1>11
  <2>2. TurnsKept'
    BY <1>9, <2>1 DEF TurnsKept
  <2>3. ASSUME NEW v \in Active'
        PROVE  /\ req'[v].base.said.n <= l /\ l - req'[v].base.said.n + j - 1 <= o
               /\ l - n + j - 1 <= o
    <3>1. CASE v # w
      BY <1>9, <1>10, <2>1, <3>1
    <3>2. CASE v = w
      <4>1. req'[v].base.said.n = n
        BY <1>3, <1>4, <2>1, <2>3, <3>2
      <4> QED BY <1>9, <2>1, <4>1
    <3> QED BY <3>1, <3>2
  <2> QED BY <1>6, <1>7, <2>1, <2>2, <2>3 DEF TurnsInv
<1>12. CASE /\ t.conv.said.n = t.base.said.n + 1 /\ log'.turns = log.turns + 1
  <2>0. t.conv.said # t.base.said
    BY <1>8, <1>12
  <2>1. /\ conv'.said.n = b + 1 /\ log'.turns = l + 1 /\ used'.overlaps = o
        /\ j = k - 1 /\ s.op = "idle"
    BY <1>1, <1>2, <1>3, <1>6, <1>7, <1>8, <1>12, <2>0
  <2>2. TurnsKept'
    BY <1>9, <2>1 DEF TurnsKept
  <2>3. ASSUME NEW v \in Active'
        PROVE  /\ req'[v].base.said.n <= l + 1 /\ l + 1 - req'[v].base.said.n + j - 1 <= o
               /\ l + 1 - (b + 1) + j - 1 <= o
    <3>1. v # w
      BY <1>4, <2>1, <2>3
    <3> QED BY <1>9, <1>10, <2>1, <3>1
  <2>4. ASSUME NEW v \in Active'
        PROVE  /\ req'[v].base.said.n <= log'.turns
               /\ log'.turns - req'[v].base.said.n + j - 1 <= used'.overlaps
               /\ log'.turns - conv'.said.n + j - 1 <= used'.overlaps
    <3>1. PICK m \in Nat : m = req'[v].base.said.n
      <4>1. v # w
        BY <1>4, <2>1, <2>4
      <4> QED BY <1>10, <4>1
    <3>2. m <= l + 1 /\ l + 1 - m + j - 1 <= o /\ l + 1 - (b + 1) + j - 1 <= o
      BY <2>3, <3>1
    <3> QED BY <2>1, <3>1, <3>2
  <2> QED BY <1>6, <1>7, <2>2, <2>4 DEF TurnsInv
<1> QED BY <1>1, <1>11, <1>12 DEF Speaks

\* A commit.
LEMMA CommitsKeeps ==
  ASSUME CVAssumption, IInv, NEW w \in Workers, w \in Active, NEW t, Commits(w, t)
  PROVE  IInv'
<1>0. TypeOK /\ SessionsInv
  BY DEF IInv
<1>1. /\ Sound(t, conv, quotes) /\ Write(t) /\ used' = used
      /\ log' \in LogType /\ t \in Session
  BY DEF Commits, Sound, Shape
<1>2. /\ conv' \in Conv /\ quotes' \in Seq(Quote)
      /\ Len(quotes') = Len(quotes) + Len(t.new)
      /\ Grows(conv, quotes, conv', quotes')
  BY <1>0, <1>1, Written
<1>3. Earned(conv', quotes' # <<>>)
  BY CommitEarned
<1>4. t.new # <<>> => quotes' # <<>>
  <2>1. quotes \in Seq(Quote) /\ t.new \in Seq(Quote)
    BY <1>0, <1>1, SessionType DEF TypeOK
  <2>2. /\ Len(quotes) \in Nat /\ Len(t.new) \in Nat
        /\ t.new # <<>> => Len(t.new) # 0
        /\ quotes' = <<>> => Len(quotes') = 0
    BY <2>1
  <2> QED BY <1>2, <2>2
<1>5. PICK s \in Session :
        /\ req' = [req EXCEPT ![w] = s]
        /\ \/ s.op = "idle"
           \/ /\ s.op = "turn" /\ Sound(s, conv', quotes') /\ Quiet(s)
              /\ (\A i \in DOMAIN quotes' : AddsUp(quotes'[i])) => Alone(s, conv', quotes')
  <2>1. CASE req' = [req EXCEPT ![w] = Idle]
    BY <2>1, IdleType
  <2>2. CASE /\ t.op = "turn" /\ t.new # <<>>
             /\ req' = [req EXCEPT ![w] = Fresh(t, conv', quotes')]
    <3>1. PICK r \in Session :
            /\ r = Fresh(t, conv', quotes')
            /\ r.op = t.op /\ r.base = conv' /\ r.conv = conv'
            /\ r.qbase = quotes' /\ r.q = quotes' /\ r.new = <<>>
      BY <1>1, <1>2, FreshDoes
    <3>2. quotes' # <<>>
      BY <1>4, <2>2
    <3>3. /\ Sound(r, conv', quotes')
          /\ (\A i \in DOMAIN quotes' : AddsUp(quotes'[i])) => Alone(r, conv', quotes')
      BY <1>2, <1>3, <3>1, <3>2, FreshSound, GivesSame
    <3> QED BY <2>2, <3>1, <3>3 DEF Quiet
  <2> QED BY <2>1, <2>2 DEF Commits
<1>6. /\ req' \in [Workers -> Session] /\ req'[w] = s
      /\ s.op = "idle" => Active' = Active \ {w}
  <2>1. req \in [Workers -> Session]
    BY <1>0 DEF TypeOK
  <2> QED BY <1>5, <2>1, OneRequest
<1>7. /\ \A v \in Active' : v # w => Ready(v)' /\ v \in Active /\ req'[v] = req[v]
      /\ Sole => \A v \in Active' : v = w
  BY <1>2, <1>5, OthersKeep
<1>8. TypeOK'
  BY <1>0, <1>1, <1>2, <1>6 DEF TypeOK, LogType
<1>9. ASSUME NEW v \in Active' PROVE Ready(v)'
  <2>1. CASE v = w
    BY <1>5, <1>6, <1>9, <2>1 DEF Ready, Aimed
  <2> QED BY <1>7, <2>1
<1>10. ASSUME used'.overlaps = 0 PROVE Sole'
  <2>1. Sole
    BY <1>0, <1>1, <1>10 DEF SessionsInv
  <2>2. Alone(t, conv, quotes) /\ \A i \in DOMAIN quotes : AddsUp(quotes[i])
    BY <2>1 DEF Commits, Sole
  <2>3. \A i \in DOMAIN quotes' : AddsUp(quotes'[i])
    BY <1>0, <1>1, <2>2, WrittenAlone
  <2>4. \A v \in Active' : v = w
    BY <1>7, <2>1
  <2>5. ASSUME NEW v \in Active' PROVE Alone(req[v], conv, quotes)'
    BY <1>5, <1>6, <2>3, <2>4, <2>5
  <2> QED BY <2>3, <2>4, <2>5 DEF Sole
<1>11. SessionsInv'
  BY <1>3, <1>9, <1>10 DEF SessionsInv
<1>12. TurnsInv'
  BY CommitTurns
<1> QED BY <1>8, <1>11, <1>12 DEF IInv

\* Rows left alone have grown.
LEMMA GrowsSame ==
  ASSUME NEW c, NEW qs \in Seq(Quote)
  PROVE  Grows(c, qs, c, qs)
<1>1. Len(qs) \in Nat
  OBVIOUS
<1> QED BY <1>1, GivesSame DEF Grows

\* A request that begins: an overlap if others are at work.
LEMMA BeginsKeeps ==
  ASSUME CVAssumption, IInv, NEW w \in Workers, NEW s, Begins(w, s)
  PROVE  IInv'
<1>0. TypeOK /\ SessionsInv /\ TurnsInv /\ quotes \in Seq(Quote)
  BY DEF IInv, TypeOK
<1>1. /\ w \notin Active /\ s.op # "idle" /\ s \in Session
      /\ req' = [req EXCEPT ![w] = s] /\ s.base = conv
      /\ conv' = conv /\ quotes' = quotes /\ log' = log /\ used' \in UsedType
      /\ used'.overlaps = IF Active # {} THEN used.overlaps + 1 ELSE used.overlaps
  BY DEF Begins, Sound, Shape
<1>2. /\ req' \in [Workers -> Session] /\ req'[w] = s
      /\ \A v \in Workers : v # w => req'[v] = req[v]
      /\ Active' = Active \cup {w}
  <2>1. req \in [Workers -> Session]
    BY <1>0 DEF TypeOK
  <2> QED BY <1>1, <2>1, OneRequest
<1>3. TypeOK'
  BY <1>0, <1>1, <1>2 DEF TypeOK, UsedType
<1>4. \A v \in Active' : v # w => Ready(v)' /\ v \in Active /\ req'[v] = req[v]
  <2>1. conv' \in Conv /\ quotes' \in Seq(Quote) /\ Grows(conv, quotes, conv', quotes')
    BY <1>0, <1>1, GrowsSame DEF TypeOK
  <2> QED BY <1>1, <2>1, OthersKeep
<1>5. Ready(w)'
  BY <1>1, <1>2 DEF Begins, Ready
<1>6. ASSUME used'.overlaps = 0 PROVE Sole'
  <2>1. Active = {} /\ used.overlaps = 0
    BY <1>0, <1>1, <1>6 DEF TypeOK
  <2>2. Sole
    BY <1>0, <2>1 DEF SessionsInv
  <2>3. Alone(s, conv, quotes) /\ \A i \in DOMAIN quotes : AddsUp(quotes[i])
    BY <2>2 DEF Begins, Sole
  <2>4. Active' = {w}
    BY <1>2, <2>1
  <2> QED BY <1>1, <1>2, <2>3, <2>4 DEF Sole
<1>7. SessionsInv'
  <2>1. Earned(conv, quotes # <<>>)'
    BY <1>0, <1>1 DEF SessionsInv, Earned
  <2> QED BY <1>4, <1>5, <1>6, <2>1 DEF SessionsInv
<1>8. TurnsInv'
  <2>1. PICK k \in Nat : k = Cardinality(Active)
    BY <1>0, Counted DEF TurnsInv
  <2>2. IsFiniteSet(Active') /\ Cardinality(Active') = k + 1
    <3>1. IsFiniteSet(Active \cup {w}) /\ Cardinality(Active \cup {w}) = k + 1
      BY <1>0, <1>1, <2>1, Counted DEF TurnsInv
    <3> QED BY <1>2, <3>1
  <2>3. PICK o \in Nat, n \in Nat, l \in Nat :
          o = used.overlaps /\ n = conv.said.n /\ l = log.turns
    BY <1>0 DEF TypeOK, Conv, Said
  <2>4. n <= l /\ l - n <= o
    BY <1>0, <2>3 DEF TurnsInv, TurnsKept
  <2>5. /\ conv'.said.n = n /\ log'.turns = l
        /\ used'.overlaps = IF Active # {} THEN o + 1 ELSE o
    BY <1>1, <2>3
  <2>6. TurnsKept'
    BY <2>3, <2>4, <2>5 DEF TurnsKept
  <2>7. ASSUME NEW v \in Active' PROVE
            /\ req'[v].base.said.n \in Nat
            /\ req'[v].base.said.n <= l
            /\ l - req'[v].base.said.n + (k + 1) - 1 <= used'.overlaps
            /\ l - n + (k + 1) - 1 <= used'.overlaps
    <3>0. v \in Workers /\ req'[v] \in Session
      BY <1>2 DEF Active
    <3>1. req'[v].base \in Conv
      BY <3>0, SessionType
    <3>2. PICK m \in Nat : m = req'[v].base.said.n
      BY <3>1 DEF Conv, Said
    <3>3. CASE Active = {}
      <4>1. v = w /\ k = 0
        BY <1>2, <2>1, <3>3, FS_EmptySet
      <4>2. m = n
        BY <1>1, <1>2, <2>3, <3>2, <4>1
      <4> QED BY <2>4, <2>5, <3>2, <3>3, <4>1, <4>2
    <3>4. CASE Active # {}
      <4>1. PICK u : u \in Active
        BY <3>4
      <4>2. l - n + k - 1 <= o
        BY <1>0, <2>1, <2>3, <4>1 DEF TurnsInv
      <4>3. m <= l /\ l - m + k - 1 <= o
        <5>1. CASE v = w
          <6>1. m = n
            BY <1>1, <1>2, <2>3, <3>2, <5>1
          <6> QED BY <2>4, <4>2, <6>1
        <5>2. CASE v # w
          <6>1. v \in Active /\ m = req[v].base.said.n
            BY <1>4, <2>7, <3>2, <5>2
          <6> QED BY <1>0, <2>1, <2>3, <6>1 DEF TurnsInv
        <5> QED BY <5>1, <5>2
      <4>4. used'.overlaps = o + 1
        BY <2>5, <3>4
      <4> QED BY <2>4, <3>2, <4>2, <4>3, <4>4
    <3> QED BY <3>3, <3>4
  <2> QED BY <2>2, <2>5, <2>6, <2>7 DEF TurnsInv
<1> QED BY <1>3, <1>7, <1>8 DEF IInv

\* A session dropped.
LEMMA DropsKeeps ==
  ASSUME CVAssumption, IInv, NEW w \in Workers, w \in Active, Drops(w)
  PROVE  IInv'
<1>0. TypeOK /\ SessionsInv /\ TurnsInv /\ quotes \in Seq(Quote)
  BY DEF IInv, TypeOK
<1>1. /\ req' = [req EXCEPT ![w] = Idle] /\ Idle \in Session /\ Idle.op = "idle"
      /\ conv' = conv /\ quotes' = quotes /\ log' = log /\ used' \in UsedType
      /\ used'.overlaps = used.overlaps
  BY IdleType DEF Drops
<1>2. /\ req' \in [Workers -> Session]
      /\ \A v \in Workers : v # w => req'[v] = req[v]
      /\ Active' = Active \ {w}
  <2>1. req \in [Workers -> Session]
    BY <1>0 DEF TypeOK
  <2> QED BY <1>1, <2>1, OneRequest
<1>3. TypeOK'
  BY <1>0, <1>1, <1>2 DEF TypeOK, UsedType
<1>4. \A v \in Active' : v # w /\ Ready(v)' /\ v \in Active /\ req'[v] = req[v]
  <2>1. conv' \in Conv /\ quotes' \in Seq(Quote) /\ Grows(conv, quotes, conv', quotes')
    BY <1>0, <1>1, GrowsSame DEF TypeOK
  <2> QED BY <1>1, <1>2, <2>1, OthersKeep
<1>5. SessionsInv'
  <2>1. Earned(conv, quotes # <<>>)'
    BY <1>0, <1>1 DEF SessionsInv, Earned
  <2>2. ASSUME used'.overlaps = 0 PROVE Sole'
    <3>1. Sole
      BY <1>0, <1>1, <2>2 DEF SessionsInv
    <3> QED BY <1>1, <1>4, <3>1 DEF Sole
  <2> QED BY <1>4, <2>1, <2>2 DEF SessionsInv
<1>6. TurnsInv'
  <2>1. PICK k \in Nat : k = Cardinality(Active)
    BY <1>0, Counted DEF TurnsInv
  <2>2. IsFiniteSet(Active') /\ Cardinality(Active') = k - 1
    <3>1. IsFiniteSet(Active \ {w}) /\ Cardinality(Active \ {w}) = k - 1
      BY <1>0, <2>1, Counted DEF TurnsInv
    <3> QED BY <1>2, <3>1
  <2>3. PICK o \in Nat, n \in Nat, l \in Nat :
          o = used.overlaps /\ n = conv.said.n /\ l = log.turns
    BY <1>0 DEF TypeOK, Conv, Said
  <2>4. conv'.said.n = n /\ log'.turns = l /\ used'.overlaps = o
    BY <1>1, <2>3
  <2>5. TurnsKept'
    BY <1>0, <2>3, <2>4 DEF TurnsInv, TurnsKept
  <2>6. ASSUME NEW v \in Active' PROVE
            /\ req'[v].base.said.n <= l
            /\ l - req'[v].base.said.n + (k - 1) - 1 <= o
            /\ l - n + (k - 1) - 1 <= o
    <3>0. v \in Active /\ v \in Workers /\ req'[v] = req[v] /\ req[v] \in Session
      BY <1>0, <1>4 DEF Active, TypeOK
    <3>1. req[v].base \in Conv
      BY <3>0, SessionType
    <3>2. PICK m \in Nat : m = req[v].base.said.n
      BY <3>1 DEF Conv, Said
    <3>3. m <= l /\ l - m + k - 1 <= o /\ l - n + k - 1 <= o
      BY <1>0, <2>1, <2>3, <3>0, <3>2 DEF TurnsInv
    <3> QED BY <3>0, <3>2, <3>3
  <2> QED BY <2>2, <2>4, <2>5, <2>6 DEF TurnsInv
<1> QED BY <1>3, <1>5, <1>6 DEF IInv

\* The issue report reads and writes the row in one step.
LEMMA ReportDoes ==
  ASSUME TypeOK, ReportIssue
  PROVE  /\ conv' \in Conv /\ quotes' = quotes /\ req' = req /\ used' \in UsedType
         /\ conv'.contact = conv.contact /\ conv'.method = conv.method
         /\ conv'.first = conv.first /\ conv'.art = conv.art
         /\ conv'.said.n = conv.said.n + 1 /\ conv'.said.shown = conv.said.shown
         /\ log' \in LogType /\ log'.turns = log.turns + 1
         /\ used'.overlaps = IF Active # {} THEN used.overlaps + 1 ELSE used.overlaps
<1>1. PICK said \in Said :
        said = Heard(conv.said, {}, FALSE) /\ said.n = conv.said.n + 1
        /\ said.shown = conv.said.shown
  <2>1. conv.said \in Said
    BY DEF TypeOK, Conv
  <2>2. PICK said : said = Heard(conv.said, {}, FALSE)
    OBVIOUS
  <2>3. said \in Said /\ said.n = conv.said.n + 1 /\ said.shown = conv.said.shown \cup {}
    BY <2>1, <2>2 DEF Heard, Said
  <2> QED BY <2>2, <2>3
<1>2. conv' = [conv EXCEPT !.said = said]
  BY <1>1 DEF ReportIssue
<1>3. /\ conv' \in Conv
      /\ conv'.contact = conv.contact /\ conv'.method = conv.method
      /\ conv'.first = conv.first /\ conv'.art = conv.art /\ conv'.said = said
  BY <1>2 DEF TypeOK, Conv
<1>4. log' \in LogType /\ log'.turns = log.turns + 1
  BY DEF ReportIssue, TypeOK, LogType
<1>5. /\ used' \in UsedType
      /\ used'.overlaps = IF Active # {} THEN used.overlaps + 1 ELSE used.overlaps
  <2>1. PICK o \in Nat : o = IF Active # {} THEN used.overlaps + 1 ELSE used.overlaps
    BY DEF TypeOK
  <2>2. PICK r \in Nat : r = used.requests + 1
    BY DEF TypeOK
  <2>3. used' = [used EXCEPT !.requests = r, !.overlaps = o]
    BY <2>1, <2>2 DEF ReportIssue
  <2>4. used \in UsedType
    BY DEF TypeOK, UsedType
  <2>5. used' \in UsedType /\ used'.overlaps = o
    BY <2>3, <2>4 DEF UsedType
  <2> QED BY <2>1, <2>5
<1>6. quotes' = quotes /\ req' = req
  BY DEF ReportIssue
<1> QED BY <1>1, <1>3, <1>4, <1>5, <1>6

\* The issue report overlaps whatever is at work.
LEMMA ReportKeeps ==
  ASSUME IInv, ReportIssue
  PROVE  IInv'
<1>0. TypeOK /\ SessionsInv /\ TurnsInv /\ quotes \in Seq(Quote)
  BY DEF IInv, TypeOK
<1>1. /\ conv' \in Conv /\ quotes' = quotes /\ req' = req /\ used' \in UsedType
      /\ conv'.contact = conv.contact /\ conv'.method = conv.method
      /\ conv'.said.n = conv.said.n + 1 /\ conv'.said.shown = conv.said.shown
      /\ log' \in LogType /\ log'.turns = log.turns + 1
      /\ used'.overlaps = IF Active # {} THEN used.overlaps + 1 ELSE used.overlaps
      /\ Active' = Active
  BY <1>0, ReportDoes DEF Active
<1>2. TypeOK'
  BY <1>0, <1>1 DEF TypeOK, LogType, UsedType
<1>3. SessionsInv'
  <2>1. Earned(conv, quotes # <<>>)'
    BY <1>0, <1>1 DEF SessionsInv, Earned
  <2>2. ASSUME NEW v \in Active' PROVE Ready(v)'
    <3>1. Grows(conv, quotes, conv', quotes')
      BY <1>0, <1>1, GrowsSame DEF Grows, Gives
    <3>2. Ready(v)
      BY <1>0, <1>1, <2>2 DEF SessionsInv
    <3>3. Sound(req[v], conv', quotes')
      BY <1>0, <1>1, <3>1, <3>2, GrowsSound DEF Ready
    <3> QED BY <1>1, <3>2, <3>3 DEF Ready
  <2>3. ASSUME used'.overlaps = 0 PROVE Sole'
    <3>1. Active = {} /\ used.overlaps = 0
      BY <1>0, <1>1, <2>3 DEF TypeOK
    <3>2. Sole
      BY <1>0, <3>1 DEF SessionsInv
    <3> QED BY <1>1, <3>1, <3>2 DEF Sole
  <2> QED BY <2>1, <2>2, <2>3 DEF SessionsInv
<1>4. TurnsInv'
  <2>1. PICK k \in Nat : k = Cardinality(Active)
    BY <1>0, Counted DEF TurnsInv
  <2>3. PICK o \in Nat, n \in Nat, l \in Nat :
          o = used.overlaps /\ n = conv.said.n /\ l = log.turns
    BY <1>0 DEF TypeOK, Conv, Said
  <2>4. /\ conv'.said.n = n + 1 /\ log'.turns = l + 1
        /\ used'.overlaps = IF Active # {} THEN o + 1 ELSE o
    BY <1>1, <2>3
  <2>5. TurnsKept'
    <3>1. n <= l /\ l - n <= o
      BY <1>0, <2>3 DEF TurnsInv, TurnsKept
    <3>2. n + 1 <= l + 1 /\ (l + 1) - (n + 1) <= o /\ (l + 1) - (n + 1) <= o + 1
      BY <3>1
    <3> QED BY <2>4, <3>2 DEF TurnsKept
  <2>6. ASSUME NEW v \in Active' PROVE
            /\ v \in Active /\ req'[v].base.said.n \in Nat
            /\ req'[v].base.said.n <= l + 1
            /\ l + 1 - req'[v].base.said.n + k - 1 <= o + 1
            /\ l + 1 - (n + 1) + k - 1 <= o + 1
    <3>0. v \in Active /\ v \in Workers /\ req'[v] = req[v] /\ req[v] \in Session
      BY <1>0, <1>1 DEF Active, TypeOK
    <3>1. req[v].base \in Conv
      BY <3>0, SessionType
    <3>2. PICK m \in Nat : m = req[v].base.said.n
      BY <3>1 DEF Conv, Said
    <3>3. m <= l /\ l - m + k - 1 <= o /\ l - n + k - 1 <= o
      BY <1>0, <2>1, <2>3, <3>0, <3>2 DEF TurnsInv
    <3>4. m <= l + 1 /\ l + 1 - m + k - 1 <= o + 1 /\ l + 1 - (n + 1) + k - 1 <= o + 1
      BY <3>3
    <3> QED BY <3>0, <3>2, <3>4
  <2>7. \A v \in Active' :
            /\ req'[v].base.said.n <= log'.turns
            /\ log'.turns - req'[v].base.said.n + Cardinality(Active') - 1 <= used'.overlaps
            /\ log'.turns - conv'.said.n + Cardinality(Active') - 1 <= used'.overlaps
    <3>1. TAKE v \in Active'
    <3>2. PICK m \in Nat : m = req'[v].base.said.n
      BY <2>6
    <3>3. used'.overlaps = o + 1 /\ Cardinality(Active') = k
      BY <1>1, <2>1, <2>4, <2>6
    <3>4. m <= l + 1 /\ l + 1 - m + k - 1 <= o + 1 /\ l + 1 - (n + 1) + k - 1 <= o + 1
      BY <2>6, <3>2
    <3> QED BY <2>4, <3>2, <3>3, <3>4
  <2> QED BY <1>0, <1>1, <2>5, <2>7 DEF TurnsInv
<1> QED BY <1>2, <1>3, <1>4 DEF IInv
-----------------------------------------------------------------------------
(***************************************************************************)
(* Of which kind each action is: those that begin a request.               *)
(***************************************************************************)
LEMMA BeginDoes ==
  ASSUME TypeOK, NEW w, Begin(w)
  PROVE  /\ w \notin Active /\ used' \in UsedType
         /\ used'.overlaps = IF Active # {} THEN used.overlaps + 1 ELSE used.overlaps
<1>1. PICK o \in Nat : o = IF Active # {} THEN used.overlaps + 1 ELSE used.overlaps
  BY DEF TypeOK
<1>2. PICK r \in Nat : r = used.requests + 1
  BY DEF TypeOK
<1>3. used' = [used EXCEPT !.requests = r, !.overlaps = o]
  BY <1>1, <1>2 DEF Begin
<1>4. used \in UsedType
  BY DEF TypeOK, UsedType
<1>5. used' \in UsedType /\ used'.overlaps = o
  BY <1>3, <1>4 DEF UsedType
<1>6. w \notin Active
  BY DEF Begin
<1> QED BY <1>1, <1>5, <1>6

\* A session that just loaded the rows.
LEMMA IdleFresh ==
  ASSUME CVAssumption, TypeOK, NEW qs \in Seq(Quote)
  PROVE  LET f == Fresh(Idle, conv, qs)
         IN /\ f \in Session /\ f.base = conv /\ f.conv = conv /\ f.qbase = qs
            /\ f.q = qs /\ f.new = <<>> /\ f.did = {} /\ f.prior = FALSE
<1>1. Idle \in Session /\ conv \in Conv
  BY IdleType DEF TypeOK
<1>2. Idle.did = {} /\ Idle.prior = FALSE
  BY DEF Idle
<1> QED BY <1>1, <1>2, FreshDoes

\* A session begun from the rows is a beginning.
LEMMA BeginsFrom ==
  ASSUME TypeOK, SessionsInv, NEW w, Begin(w), NEW s \in Session, s.op # "idle",
         s.base = conv, Gives(conv, s.conv), s.conv.said = conv.said,
         conv.first # None => s.conv.first = conv.first,
         s.q = s.qbase, s.qbase = quotes \/ s.qbase = <<>>, s.new = <<>>, s.did = {},
         s.prior => quotes # <<>>, Aimed(s),
         req' = [req EXCEPT ![w] = s], UNCHANGED <<conv, quotes, log>>
  PROVE  Begins(w, s)
<1>1. conv \in Conv /\ quotes \in Seq(Quote) /\ Earned(conv, quotes # <<>>)
  BY DEF TypeOK, SessionsInv
<1>2. /\ Sound(s, conv, quotes)
      /\ (\A i \in DOMAIN quotes : AddsUp(quotes[i])) => Alone(s, conv, quotes)
  BY <1>1, FreshSound
<1>3. Sole => Alone(s, conv, quotes)
  BY <1>2 DEF Sole
<1> QED BY <1>2, <1>3, BeginDoes DEF Begins, Quiet

\* A turn begins with attribution and what the sniffers read.
LEMMA TurnBegins ==
  ASSUME CVAssumption, TypeOK, SessionsInv, NEW w, NEW m \in Messages,
         NEW t \in Touches \cup {None}, TurnBegin(w, m, t)
  PROVE  \E s : Begins(w, s)
<1>0. Begin(w) /\ m \in Message /\ conv \in Conv
  BY DEF TurnBegin, TypeOK, CVAssumption
<1>1. PICK f \in Session :
        /\ f = Fresh(Idle, conv, quotes)
        /\ f.base = conv /\ f.conv = conv /\ f.qbase = quotes
        /\ f.q = quotes /\ f.new = <<>> /\ f.did = {} /\ f.prior = FALSE
  BY IdleFresh DEF TypeOK
<1>2. PICK a \in Conv :
        /\ a = Attributed(conv, t) /\ a.contact = conv.contact /\ a.method = conv.method
        /\ a.said = conv.said /\ a.art = conv.art
        /\ conv.first # None => a.first = conv.first
  <2>1. PICK a : a = Attributed(conv, t)
    OBVIOUS
  <2>2. /\ a \in Conv /\ a.contact = conv.contact /\ a.method = conv.method
        /\ a.said = conv.said /\ a.art = conv.art
        /\ conv.first # None => a.first = conv.first
    BY <1>0, <2>1 DEF Attributed, Conv
  <2> QED BY <2>1, <2>2
<1>3. PICK c \in Conv :
        /\ c = Sniffed(a, m) /\ Gives(a, c) /\ c.said = a.said /\ c.first = a.first
  <2>1. PICK art \in {"none", "own", "design"} : art = SniffedArt(a, m)
    BY DEF SniffedArt, Conv
  <2>5. PICK contact \in BOOLEAN, later \in BOOLEAN :
          /\ contact = (a.contact \/ m.contact)
          /\ later = (a.later \/ m.says = "later")
    OBVIOUS
  <2>2. PICK c : c = [a EXCEPT !.contact = contact, !.art = art, !.later = later]
    OBVIOUS
  <2>3. c = Sniffed(a, m)
    BY <2>1, <2>2, <2>5 DEF Sniffed
  <2>4. c \in Conv /\ c.said = a.said /\ c.first = a.first /\ c.method = a.method
        /\ (a.contact => c.contact)
    BY <1>0, <2>2, <2>5 DEF Conv, Message
  <2> QED BY <2>3, <2>4 DEF Gives
<1>4. PICK p \in BOOLEAN : p = (quotes # <<>>)
  OBVIOUS
<1>5. PICK s : s = [f EXCEPT !.op = "turn", !.msg = m, !.prior = p, !.conv = c]
  OBVIOUS
<1>6. /\ s \in Session /\ s.op = "turn" /\ s.base = conv /\ s.conv = c
      /\ s.q = quotes /\ s.qbase = quotes /\ s.new = <<>> /\ s.did = {} /\ s.prior = p
  BY <1>0, <1>1, <1>5 DEF Session
<1>7. req' = [req EXCEPT ![w] = s] /\ UNCHANGED <<conv, quotes, log>>
  BY <1>1, <1>2, <1>3, <1>4, <1>5 DEF TurnBegin, Step
<1>8. Gives(conv, c) /\ c.said = conv.said /\ (conv.first # None => c.first = conv.first)
  BY <1>2, <1>3 DEF Gives
<1>9. Aimed(s)
  BY <1>6 DEF Aimed
<1> QED BY <1>0, <1>4, <1>6, <1>7, <1>8, <1>9, BeginsFrom

\* The form brings an address and a method.
LEMMA FormBegins ==
  ASSUME CVAssumption, TypeOK, SessionsInv, NEW w, NEW method \in {"delivery", "collect"},
         NEW t \in Touches \cup {None}, FormBegin(w, method, t)
  PROVE  \E s : Begins(w, s)
<1>0. Begin(w) /\ conv \in Conv /\ <<>> \in Seq(Quote)
  BY DEF FormBegin, TypeOK
<1>1. PICK f \in Session :
        /\ f = Fresh(Idle, conv, <<>>)
        /\ f.base = conv /\ f.conv = conv /\ f.qbase = <<>>
        /\ f.q = <<>> /\ f.new = <<>> /\ f.did = {} /\ f.prior = FALSE
  BY <1>0, IdleFresh
<1>2. PICK a \in Conv :
        /\ a = Attributed(conv, t) /\ a.said = conv.said
        /\ conv.first # None => a.first = conv.first
  <2>1. PICK a : a = Attributed(conv, t)
    OBVIOUS
  <2>2. /\ a \in Conv /\ a.said = conv.said
        /\ conv.first # None => a.first = conv.first
    BY <1>0, <2>1 DEF Attributed, Conv
  <2> QED BY <2>1, <2>2
<1>3. PICK c : c = [a EXCEPT !.contact = TRUE, !.method = method]
  OBVIOUS
<1>4. /\ c \in Conv /\ c.said = conv.said /\ c.contact /\ c.method # "none"
      /\ conv.first # None => c.first = conv.first
  BY <1>2, <1>3 DEF Conv
<1>5. PICK s : s = [f EXCEPT !.op = "form", !.conv = c]
  OBVIOUS
<1>6. /\ s \in Session /\ s.op = "form" /\ s.base = conv /\ s.conv = c
      /\ s.q = <<>> /\ s.qbase = <<>> /\ s.new = <<>> /\ s.did = {} /\ s.prior = FALSE
  BY <1>1, <1>4, <1>5 DEF Session
<1>7. req' = [req EXCEPT ![w] = s] /\ UNCHANGED <<conv, quotes, log>>
  BY <1>1, <1>2, <1>3, <1>5 DEF FormBegin, Step
<1>8. Gives(conv, c) /\ Aimed(s)
  BY <1>4, <1>6 DEF Gives, Aimed
<1> QED BY <1>0, <1>4, <1>6, <1>7, <1>8, BeginsFrom

\* An upload or a removal aims at the latest pending quote.
LEMMA FileBegins ==
  ASSUME CVAssumption, TypeOK, SessionsInv, NEW w, NEW op \in {"upload", "remove"},
         FetchFiles(w, op)
  PROVE  \E s : Begins(w, s)
<1>0. Begin(w) /\ quotes \in Seq(Quote) /\ conv \in Conv
  BY DEF FetchFiles, TypeOK
<1>1. PICK f \in Session :
        /\ f = Fresh(Idle, conv, quotes)
        /\ f.base = conv /\ f.conv = conv /\ f.qbase = quotes
        /\ f.q = quotes /\ f.new = <<>> /\ f.did = {} /\ f.prior = FALSE
  BY <1>0, IdleFresh
<1>2. Shape(f, quotes) /\ Deals(f, quotes)
  <2>1. Earned(conv, quotes # <<>>)
    BY DEF SessionsInv
  <2>2. Sound(f, conv, quotes)
    BY <1>0, <1>1, <2>1, FreshSound, GivesSame
  <2> QED BY <2>2 DEF Sound
<1>3. PICK i \in Pending(f) :
        /\ i = Max(Pending(f))
        /\ IF op = "upload" THEN quotes[i].files < MaxFiles ELSE quotes[i].files > 0
        /\ req' = [req EXCEPT ![w] = [f EXCEPT !.op = op, !.at = i]]
        /\ UNCHANGED <<conv, quotes, log>>
  <2>1. Pending(f) # {}
    BY <1>1 DEF FetchFiles
  <2>2. Max(Pending(f)) \in Pending(f)
    BY <1>0, <1>2, <2>1, PendingIs
  <2> QED BY <1>1, <2>2 DEF FetchFiles, Step
<1>4. i \in DOMAIN quotes /\ i \in Nat /\ quotes[i].status = "pending"
  <2>1. i \in DOMAIN All(f) /\ All(f)[i].status = "pending"
    BY <1>0, <1>2, PendingIs
  <2>2. i \in 1..(Len(f.q) + Len(f.new)) /\ (i <= Len(f.q) => All(f)[i] = f.q[i])
    BY <2>1, AllDoes
  <2>3. Len(f.new) = 0 /\ Len(f.q) \in Nat /\ DOMAIN quotes = 1..Len(f.q)
    BY <1>0, <1>1
  <2> QED BY <1>1, <2>1, <2>2, <2>3
<1>5. PICK s : s = [f EXCEPT !.op = op, !.at = i]
  OBVIOUS
<1>6. /\ s \in Session /\ s.op = op /\ s.base = conv /\ s.conv = conv /\ s.at = i
      /\ s.q = quotes /\ s.qbase = quotes /\ s.new = <<>> /\ s.did = {} /\ s.prior = FALSE
  BY <1>1, <1>4, <1>5 DEF Session
<1>7. Aimed(s)
  BY <1>3, <1>4, <1>6 DEF Aimed
<1> QED BY <1>0, <1>3, <1>5, <1>6, <1>7, BeginsFrom, GivesSame

\* The operator aims at a pending quote.
LEMMA DecideBegins ==
  ASSUME CVAssumption, TypeOK, SessionsInv, NEW w, NEW i \in 1..MaxQuotes,
         DecideBegin(w, i)
  PROVE  \E s : Begins(w, s)
<1>0. Begin(w) /\ quotes \in Seq(Quote) /\ conv \in Conv /\ i \in Nat
  BY DEF DecideBegin, TypeOK, CVAssumption
<1>1. PICK f \in Session :
        /\ f = Fresh(Idle, conv, quotes)
        /\ f.base = conv /\ f.conv = conv /\ f.qbase = quotes
        /\ f.q = quotes /\ f.new = <<>> /\ f.did = {} /\ f.prior = FALSE
  BY <1>0, IdleFresh
<1>2. PICK s : s = [f EXCEPT !.op = "decide", !.at = i]
  OBVIOUS
<1>3. /\ s \in Session /\ s.op = "decide" /\ s.base = conv /\ s.conv = conv /\ s.at = i
      /\ s.q = quotes /\ s.qbase = quotes /\ s.new = <<>> /\ s.did = {} /\ s.prior = FALSE
  BY <1>0, <1>1, <1>2 DEF Session
<1>4. Aimed(s)
  BY <1>3 DEF Aimed, DecideBegin
<1>5. req' = [req EXCEPT ![w] = s] /\ UNCHANGED <<conv, quotes, log>>
  BY <1>1, <1>2 DEF DecideBegin, Step
<1> QED BY <1>0, <1>3, <1>4, <1>5, BeginsFrom, GivesSame
-----------------------------------------------------------------------------
(***************************************************************************)
(* Those that end one, and the refused tool.                               *)
(***************************************************************************)
\* The session as it stands, and as its next query would make it.
LEMMA Standing ==
  ASSUME TypeOK, SessionsInv, NEW w \in Workers, w \in Active,
         NEW s, s = req[w] \/ s = Load(req[w])
  PROVE  /\ s \in Session /\ Sound(s, conv, quotes) /\ Quiet(s)
         /\ s.base = req[w].base /\ s.op = req[w].op /\ s.conv = req[w].conv
         /\ s.prior = req[w].prior /\ s.did = req[w].did /\ s.at = req[w].at
         /\ s.new = req[w].new
         /\ Sole => Alone(s, conv, quotes)
<1>1. /\ req[w] \in Session /\ Sound(req[w], conv, quotes) /\ Quiet(req[w])
      /\ req[w].op # "idle" /\ quotes \in Seq(Quote)
  BY DEF TypeOK, SessionsInv, Ready, Active
<1>2. CASE s = req[w]
  BY <1>1, <1>2 DEF Sole
<1>3. CASE s = Load(req[w])
  <2>1. /\ s \in Session
        /\ s.base = req[w].base /\ s.op = req[w].op /\ s.conv = req[w].conv
        /\ s.prior = req[w].prior /\ s.did = req[w].did /\ s.at = req[w].at
        /\ s.new = req[w].new
    BY <1>1, <1>3, LoadDoes DEF Sound, Shape
  <2>2. Sound(s, conv, quotes) /\ Quiet(s)
    BY <1>1, <1>3, LoadSound
  <2>3. Sole => Alone(s, conv, quotes)
    BY <1>1, <1>3, LoadAlone DEF Sole
  <2> QED BY <2>1, <2>2, <2>3
<1> QED BY <1>2, <1>3

\* What the session loads is untouched.
LEMMA UntouchedLoad ==
  ASSUME quotes \in Seq(Quote), NEW s, Shape(s, quotes), Untouched(s)
  PROVE  Untouched(Load(s))
<1>1. s \in Session /\ Len(s.qbase) = Len(s.q) /\ Len(s.q) <= Len(quotes)
  BY DEF Shape
<1>2. PICK t \in Session :
        /\ t = Load(s) /\ t.new = s.new /\ Len(t.q) = Len(quotes)
        /\ \A i \in 1..Len(quotes) :
             /\ t.q[i] = IF i <= Len(s.q) THEN s.q[i] ELSE quotes[i]
             /\ t.qbase[i] = IF i <= Len(s.q) THEN s.qbase[i] ELSE quotes[i]
  BY <1>1, LoadDoes
<1>3. /\ DOMAIN t.q = 1..Len(quotes) /\ DOMAIN s.q = 1..Len(s.q)
      /\ Len(s.q) \in Nat /\ Len(quotes) \in Nat
  <2>1. t.q \in Seq(Quote) /\ s.q \in Seq(Quote)
    BY <1>1, SessionType
  <2> QED BY <1>2, <2>1
<1>4. ASSUME NEW i \in 1..Len(quotes) PROVE t.q[i].files = t.qbase[i].files
  <2>1. i <= Len(s.q) => i \in DOMAIN s.q
    BY <1>3
  <2> QED BY <1>2, <2>1 DEF Untouched
<1> QED BY <1>2, <1>3, <1>4 DEF Untouched

\* A change other than an upload or a removal leaves the files alone.
LEMMA UntouchedChange ==
  ASSUME NEW s \in Session, NEW t, Change(s, t), t.op \notin {"upload", "remove"},
         Untouched(s)
  PROVE  Untouched(t)
<1>1. /\ t.q \in Seq(Quote) /\ s.q \in Seq(Quote) /\ t.new \in Seq(Quote)
      /\ s.new \in Seq(Quote)
  BY SessionType DEF Change
<1>2. /\ DOMAIN t.q = 1..Len(s.q) /\ DOMAIN s.q = 1..Len(s.q) /\ t.qbase = s.qbase
      /\ DOMAIN t.new = 1..Len(t.new) /\ DOMAIN s.new = 1..Len(s.new)
      /\ Len(s.new) \in Nat /\ Len(t.new) \in Nat
  BY <1>1 DEF Change
<1>3. ASSUME NEW i \in 1..Len(s.q) PROVE t.q[i].files = t.qbase[i].files
  <2>1. Edit(s.q[i], t.q[i], Sells(s))
    BY DEF Change
  <2> QED BY <1>2, <2>1 DEF Edit, Untouched
<1>4. ASSUME NEW j \in 1..Len(t.new) PROVE t.new[j].files = 0
  <2>1. \/ j <= Len(s.new) /\ t.new[j].files = s.new[j].files
        \/ t.new[j].files = 0
    BY DEF Change, Edit
  <2>2. j <= Len(s.new) => j \in DOMAIN s.new
    BY <1>2
  <2> QED BY <2>1, <2>2 DEF Untouched
<1> QED BY <1>2, <1>3, <1>4 DEF Untouched

\* A session that loads what it has not seen does to the rows what it did.
LEMMA FollowsLoad ==
  ASSUME quotes \in Seq(Quote), NEW s, Shape(s, quotes)
  PROVE  Follows(s, Load(s))
<1>1. s \in Session /\ Len(s.qbase) = Len(s.q) /\ Len(s.q) <= Len(quotes)
  BY DEF Shape
<1>2. PICK t \in Session :
        /\ t = Load(s) /\ Len(t.q) = Len(quotes) /\ t.new = s.new
        /\ \A i \in 1..Len(quotes) :
             /\ t.q[i] = IF i <= Len(s.q) THEN s.q[i] ELSE quotes[i]
             /\ t.qbase[i] = IF i <= Len(s.q) THEN s.qbase[i] ELSE quotes[i]
  BY <1>1, LoadDoes
<1>3. /\ DOMAIN t.q = 1..Len(quotes) /\ DOMAIN s.q = 1..Len(s.q) /\ Len(s.q) \in Nat
      /\ Len(quotes) \in Nat /\ Len(s.new) \in Nat
  <2>1. t.q \in Seq(Quote) /\ s.q \in Seq(Quote) /\ s.new \in Seq(Quote)
    BY <1>1, SessionType
  <2> QED BY <1>2, <2>1
<1>4. ASSUME NEW i \in DOMAIN s.q
      PROVE  i \in DOMAIN t.q /\ t.q[i] = s.q[i] /\ t.qbase[i] = s.qbase[i]
  <2>1. i \in 1..Len(quotes) /\ i <= Len(s.q)
    BY <1>1, <1>3
  <2> QED BY <1>2, <1>3, <2>1
<1>5. Ended(s) \subseteq Ended(t)
  BY <1>4 DEF Ended
<1> QED BY <1>2, <1>3, <1>5, NamedLoad DEF Follows

\* So does a changed one.
LEMMA FollowsChange ==
  ASSUME NEW s, Shape(s, quotes), Deals(s, quotes), NEW t, Change(s, t)
  PROVE  Follows(s, t)
<1>1. /\ s.q \in Seq(Quote) /\ t.q \in Seq(Quote) /\ s.new \in Seq(Quote)
      /\ t.new \in Seq(Quote) /\ s \in Session
  BY SessionType DEF Shape, Change
<1>2. /\ DOMAIN t.q = 1..Len(s.q) /\ DOMAIN s.q = 1..Len(s.q) /\ t.qbase = s.qbase
      /\ Len(s.new) \in Nat /\ Len(t.new) \in Nat /\ Len(t.new) >= Len(s.new)
      /\ \A i \in 1..Len(s.q) : s.q[i] \in Quote /\ t.q[i] \in Quote
  BY <1>1 DEF Change
<1>3. ASSUME NEW i \in Ended(s) PROVE i \in Ended(t)
  <2>1. i \in 1..Len(s.q) /\ s.q[i].status # s.qbase[i].status
    BY <1>2 DEF Ended
  <2>2. s.q[i].status # "pending"
    BY <1>2, <2>1 DEF Deals
  <2>3. t.q[i] = [s.q[i] EXCEPT !.confirmed = t.q[i].confirmed]
    BY <2>1, <2>2 DEF Change, Edit, Redo
  <2>4. t.q[i].status = s.q[i].status
    BY <1>2, <2>1, <2>3 DEF Quote
  <2> QED BY <1>2, <2>1, <2>4 DEF Ended
<1>4. ASSUME NEW p \in Products, NEW j \in 1..Len(s.new), Live(t.new[j], p)
      PROVE  Live(s.new[j], p)
  <2>1. j \in 1..Len(t.new) /\ ~(j > Len(s.new))
    BY <1>2
  <2>2. Edit(s.new[j], t.new[j], Sells(s))
    BY <2>1 DEF Change
  <2> QED BY <1>4, <2>2 DEF Edit, Redo, Live
<1> QED BY <1>1, <1>2, <1>3, <1>4, NamedChange DEF Follows

\* One thing after the other.
LEMMA FollowsTwice ==
  ASSUME NEW a \in Session, NEW b \in Session, NEW c \in Session,
         Follows(a, b), Follows(b, c)
  PROVE  Follows(a, c)
<1>1. a.new \in Seq(Quote) /\ b.new \in Seq(Quote) /\ c.new \in Seq(Quote)
  BY SessionType
<1>2. Len(a.new) \in Nat /\ Len(b.new) \in Nat /\ Len(c.new) \in Nat
  BY <1>1
<1>3. Len(b.new) >= Len(a.new) /\ Len(c.new) >= Len(b.new)
  BY DEF Follows
<1>4. \A j \in 1..Len(a.new) : j \in 1..Len(b.new)
  BY <1>2, <1>3
<1>5. Len(c.new) >= Len(a.new)
  BY <1>2, <1>3
<1> QED BY <1>4, <1>5 DEF Follows

\* A sound session, changed and written, is a commit.
LEMMA CommitsFrom ==
  ASSUME TypeOK, SessionsInv, NEW w \in Workers, w \in Active,
         NEW s, s = req[w] \/ s = Load(req[w]), NEW t,
         Change(s, t), Priced(s, t), Write(t), Speaks(t), used' = used, log' \in LogType,
         log'.adds = log.adds, t.op = "turn" => AddsNone(w, t),
         \/ log'.files = log.files /\ (t.op \notin {"upload", "remove"} \/ t = req[w])
         \/ FileWrite(w, t),
         \/ req' = [req EXCEPT ![w] = Idle]
         \/ /\ t.op = "turn" /\ t.conv.said = t.base.said /\ t.new # <<>>
            /\ req' = [req EXCEPT ![w] = Fresh(t, conv', quotes')]
  PROVE  Commits(w, t)
<1>1. /\ Sound(s, conv, quotes) /\ s.base = req[w].base
      /\ Sole => Alone(s, conv, quotes)
  BY Standing
<1>2. Sound(t, conv, quotes) /\ (Sole => Alone(t, conv, quotes))
  BY <1>1, ChangeSound DEF TypeOK
<1>3. t.base = s.base
  BY DEF Change
<1>4. ASSUME t.op \notin {"upload", "remove"} \/ t = req[w], Untouched(req[w])
      PROVE  Untouched(t)
  <2> SUFFICES ASSUME t.op \notin {"upload", "remove"} PROVE Untouched(t)
    BY <1>4
  <2>1. s \in Session /\ Untouched(s)
    <3>1. Shape(req[w], quotes) /\ quotes \in Seq(Quote)
      BY DEF TypeOK, SessionsInv, Ready, Sound
    <3> QED BY <1>4, <3>1, UntouchedLoad, Standing
  <2> QED BY <1>4, <2>1, UntouchedChange
<1>5. Follows(req[w], t)
  <2>1. /\ Shape(req[w], quotes) /\ quotes \in Seq(Quote) /\ req[w] \in Session
        /\ s \in Session /\ t \in Session
    BY Standing DEF TypeOK, SessionsInv, Ready, Sound, Change
  <2>2. Follows(s, t)
    BY <1>1, FollowsChange DEF Sound
  <2>3. CASE s = req[w]
    BY <2>2, <2>3
  <2>4. CASE s = Load(req[w])
    <3>1. Follows(req[w], s)
      BY <2>1, <2>4, FollowsLoad
    <3> QED BY <2>1, <2>2, <3>1, FollowsTwice
  <2> QED BY <2>3, <2>4
<1>6. AddsNone(w, t)
  <2>1. CASE t.op = "turn"
    BY <2>1
  <2>2. CASE t.op # "turn"
    <3>1. t.new = <<>> /\ Len(<<>>) = 0
      BY <2>2 DEF Change
    <3> QED BY <3>1 DEF AddsNone
  <2> QED BY <2>1, <2>2
<1> QED BY <1>1, <1>2, <1>3, <1>4, <1>5, <1>6 DEF Commits

\* The quote a handler aimed at, changed as it may be.
Amended(s, quote, art) == [s EXCEPT !.q[s.at] = quote, !.conv.art = art]

Handled(a, b) ==
  /\ b \in Quote /\ b.design = a.design /\ b.product = a.product
  /\ b.status # a.status => b.status # "pending"
  /\ AddsUp(a) => AddsUp(b)

\* It is a change of the session.
LEMMA AimedChange ==
  ASSUME NEW s, NEW qs \in Seq(Quote), Sound(s, conv, qs), Aimed(s),
         s.op \in {"upload", "remove", "decide"},
         NEW quote, Handled(s.q[s.at], quote),
         s.op = "decide" => quote.files = s.q[s.at].files,
         NEW art \in {"none", "own", "design"},
         NEW t, t = Amended(s, quote, art)
  PROVE  /\ Change(s, t) /\ Priced(s, t)
         /\ t.conv.said = s.conv.said /\ t.base = s.base
<1>1. s \in Session /\ s.q \in Seq(Quote) /\ s.conv \in Conv /\ s.at \in DOMAIN s.q
      /\ s.new = <<>> /\ s.new \in Seq(Quote) /\ quote \in Quote
      /\ s.q[s.at].status = "pending"
  BY SessionType DEF Sound, Shape, Aimed, Handled
<1>2. PICK i : i = s.at
  OBVIOUS
<1>3. PICK q : q = [s.q EXCEPT ![i] = quote]
  OBVIOUS
<1>4. /\ q \in Seq(Quote) /\ Len(q) = Len(s.q)
      /\ \A k \in 1..Len(s.q) : q[k] = IF k = i THEN quote ELSE s.q[k]
  BY <1>1, <1>2, <1>3
<1>5. PICK c : c = [s.conv EXCEPT !.art = art]
  OBVIOUS
<1>6. c \in Conv /\ c.said = s.conv.said /\ c.first = s.conv.first /\ Gives(s.conv, c)
  BY <1>1, <1>5 DEF Conv, Gives
<1>9. t = [s EXCEPT !.q = q, !.conv = c]
  BY <1>1, <1>2, <1>3, <1>5 DEF Session, Amended
<1>8. /\ t \in Session /\ t.q = q /\ t.conv = c /\ t.op = s.op /\ t.prior = s.prior
      /\ t.base = s.base /\ t.qbase = s.qbase /\ t.new = s.new /\ t.did = s.did
  BY <1>1, <1>4, <1>6, <1>9 DEF Session
<1>10. ASSUME NEW k \in 1..Len(s.q)
       PROVE  \/ Edit(s.q[k], t.q[k], Sells(s))
              \/ t.op \in {"upload", "remove"} /\ Redo(s.q[k], t.q[k], Sells(s))
  <2>1. s.q[k] \in Quote /\ t.q[k] = IF k = i THEN quote ELSE s.q[k]
    BY <1>1, <1>4, <1>8
  <2>2. Redo(s.q[i], quote, Sells(s))
    BY <1>1, <1>2 DEF Redo, Handled
  <2>3. s.op = "decide" => Edit(s.q[i], quote, Sells(s))
    BY <1>2, <2>2 DEF Edit
  <2> QED BY <1>8, <2>1, <2>2, <2>3, EditSame
<1>11. Len(<<>>) = 0 /\ \A j \in 1..Len(<<>>) : FALSE
  OBVIOUS
<1>12. Change(s, t)
  BY <1>1, <1>4, <1>6, <1>8, <1>10, <1>11 DEF Change
<1>13. Priced(s, t)
  BY <1>8 DEF Priced
<1> QED BY <1>6, <1>8, <1>12, <1>13

\* Another number of files.
LEMMA FileEdit ==
  ASSUME NEW a \in Quote, a.status = "pending", NEW n \in 0..MaxFiles
  PROVE  Handled(a, [a EXCEPT !.files = n])
BY DEF Handled, Quote, AddsUp

\* The operator's decision.
LEMMA StatusEdit ==
  ASSUME NEW a \in Quote, a.status = "pending", NEW status \in {"approved", "rejected"}
  PROVE  /\ Handled(a, [a EXCEPT !.status = status])
         /\ [a EXCEPT !.status = status].files = a.files
BY DEF Handled, Quote, AddsUp

\* What a handler of the widget or the operator may rely on.
LEMMA AimedIs ==
  ASSUME TypeOK, SessionsInv, NEW w \in Workers, req[w].op \in {"upload", "remove", "decide"}
  PROVE  /\ w \in Active /\ req[w] \in Session /\ Sound(req[w], conv, quotes)
         /\ Aimed(req[w]) /\ Quiet(req[w]) /\ req[w].conv \in Conv
         /\ req[w].at \in DOMAIN req[w].q
         /\ req[w].q[req[w].at] \in Quote /\ req[w].q[req[w].at].status = "pending"
<1>1. w \in Active
  BY DEF Active
<1>2. req[w] \in Session /\ Sound(req[w], conv, quotes) /\ Aimed(req[w]) /\ Quiet(req[w])
  BY <1>1 DEF TypeOK, SessionsInv, Ready
<1>3. req[w].conv \in Conv /\ req[w].q \in Seq(Quote)
  BY <1>2, SessionType
<1>4. req[w].at \in DOMAIN req[w].q /\ req[w].q[req[w].at].status = "pending"
  BY <1>2 DEF Aimed
<1> QED BY <1>1, <1>2, <1>3, <1>4

\* An upload.
LEMMA UploadCommits ==
  ASSUME CVAssumption, TypeOK, SessionsInv, NEW w \in Workers, Upload(w)
  PROVE  w \in Active /\ \E t : Commits(w, t)
<1>0. PICK s \in Session : s = req[w]
  BY DEF TypeOK
<1>1. s.op = "upload"
  BY <1>0 DEF Upload
<1>2. /\ w \in Active /\ Sound(s, conv, quotes)
      /\ Aimed(s) /\ Quiet(s) /\ s.conv \in Conv /\ s.at \in DOMAIN s.q
      /\ s.q[s.at] \in Quote /\ s.q[s.at].status = "pending"
  BY <1>0, <1>1, AimedIs
<1>3. PICK a \in Quote : a = s.q[s.at]
  BY <1>2
<1>4. PICK n \in 0..MaxFiles : n = a.files + 1
  <2>1. a.files < MaxFiles /\ a.files \in 0..MaxFiles
    BY <1>1, <1>2, <1>3 DEF Aimed, Quote
  <2> QED BY <2>1 DEF CVAssumption
<1>5. PICK quote : quote = [a EXCEPT !.files = n] /\ Handled(s.q[s.at], quote)
  BY <1>2, <1>3, FileEdit
<1>6. PICK t : t = [s EXCEPT !.q[s.at] = quote, !.conv.art = "own"]
  OBVIOUS
<1>7. t = [s EXCEPT !.q[s.at].files = @ + 1, !.conv.art = "own"]
  BY <1>2, <1>3, <1>4, <1>5, <1>6
<1>8. /\ Write(t) /\ req' = [req EXCEPT ![w] = Idle] /\ used' = used
      /\ log' = [log EXCEPT !.files = @ + 1]
  BY <1>0, <1>7 DEF Upload, Done
<1>9. log' \in LogType /\ log'.turns = log.turns /\ log'.adds = log.adds
  <2>1. PICK f \in Nat : f = log.files + 1
    BY DEF TypeOK
  <2>2. log \in LogType /\ log' = [log EXCEPT !.files = f]
    BY <1>8, <2>1 DEF TypeOK, LogType
  <2> QED BY <2>2 DEF LogType
<1>10. Change(s, t) /\ Priced(s, t) /\ t.conv.said = s.conv.said /\ t.base = s.base
  <2>1. quotes \in Seq(Quote) /\ s.op \in {"upload", "remove", "decide"}
    BY <1>1 DEF TypeOK
  <2>2. PICK art2 : art2 = "own" /\ art2 \in {"none", "own", "design"}
    OBVIOUS
  <2>3. t = Amended(s, quote, art2)
    BY <1>6, <2>2 DEF Amended
  <2>4. s.op # "decide"
    BY <1>1
  <2> QED BY <1>2, <1>5, <2>1, <2>2, <2>3, <2>4, AimedChange
<1>11. Speaks(t)
  BY <1>2, <1>9, <1>10 DEF Speaks, Quiet
<1>13. FileWrite(w, t)
  <2>2. s.q \in Seq(Quote) /\ s.new = <<>>
    BY <1>1, <1>2, SessionType DEF Sound, Shape
  <2>3. t.q = [s.q EXCEPT ![s.at] = quote] /\ t.new = s.new /\ t.qbase = s.qbase
    BY <1>6 DEF Session
  <2>4. quote.files = a.files + 1 /\ a.files = s.q[s.at].files
    <3>1. quote.files = n
      BY <1>3, <1>5 DEF Quote
    <3>2. n = a.files + 1 /\ a.files \in Nat
      BY <1>3, <1>4 DEF Quote
    <3> QED BY <1>3, <3>1, <3>2
  <2>5. /\ Len(t.q) = Len(s.q)
        /\ \A i \in DOMAIN s.q : t.q[i] = IF i = s.at THEN quote ELSE s.q[i]
    BY <1>2, <1>5, <2>2, <2>3
  <2>6. log'.files = log.files + 1
    BY <1>8 DEF TypeOK
  <2> QED BY <1>0, <1>2, <1>8, <2>2, <2>3, <2>4, <2>5, <2>6 DEF FileWrite
<1>14. t.op # "turn"
  BY <1>1, <1>10 DEF Change
<1> QED BY <1>0, <1>2, <1>8, <1>9, <1>10, <1>11, <1>13, <1>14, CommitsFrom

\* A removal.
LEMMA RemoveCommits ==
  ASSUME CVAssumption, TypeOK, SessionsInv, NEW w \in Workers, Remove(w)
  PROVE  w \in Active /\ \E t : Commits(w, t)
<1>0. PICK s \in Session : s = req[w]
  BY DEF TypeOK
<1>1. s.op = "remove"
  BY <1>0 DEF Remove
<1>2. w \in Active /\ Sound(s, conv, quotes) /\ Quiet(s)
  BY <1>0, <1>1, AimedIs
<1>3. Write(s) /\ req' = [req EXCEPT ![w] = Idle] /\ used' = used /\ log' = log
  BY <1>0 DEF Remove, Done
<1>4. Change(s, s)
  BY <1>1, <1>2, ChangeNote, GivesSame DEF Sound, Shape
<1>5. Priced(s, s)
  BY DEF Priced
<1>6. log' \in LogType /\ log'.turns = log.turns /\ log'.adds = log.adds
  BY <1>3 DEF TypeOK, LogType
<1>7. Speaks(s)
  BY <1>2, <1>6 DEF Speaks, Quiet
<1>8. log'.files = log.files /\ s.op # "turn"
  BY <1>1, <1>3
<1> QED BY <1>0, <1>2, <1>3, <1>4, <1>5, <1>6, <1>7, <1>8, CommitsFrom

\* A decision.
LEMMA DecideCommits ==
  ASSUME CVAssumption, TypeOK, SessionsInv, NEW w \in Workers,
         NEW status \in {"approved", "rejected"}, Decide(w, status)
  PROVE  w \in Active /\ \E t : Commits(w, t)
<1>0. PICK s \in Session : s = req[w]
  BY DEF TypeOK
<1>1. s.op = "decide"
  BY <1>0 DEF Decide
<1>2. /\ w \in Active /\ Sound(s, conv, quotes)
      /\ Aimed(s) /\ Quiet(s) /\ s.conv \in Conv /\ s.at \in DOMAIN s.q
      /\ s.q[s.at] \in Quote /\ s.q[s.at].status = "pending"
  BY <1>0, <1>1, AimedIs
<1>3. PICK a \in Quote : a = s.q[s.at]
  BY <1>2
<1>5. PICK quote : /\ quote = [a EXCEPT !.status = status] /\ Handled(s.q[s.at], quote)
                   /\ quote.files = s.q[s.at].files
  BY <1>2, <1>3, StatusEdit
<1>12. PICK art \in {"none", "own", "design"} : art = s.conv.art
  BY <1>2 DEF Conv
<1>6. PICK t : t = [s EXCEPT !.q[s.at] = quote, !.conv.art = art]
  OBVIOUS
<1>7. t = [s EXCEPT !.q[s.at].status = status]
  BY <1>2, <1>3, <1>5, <1>6, <1>12 DEF Session, Conv
<1>8. Write(t) /\ req' = [req EXCEPT ![w] = Idle] /\ used' = used /\ log' = log
  BY <1>0, <1>7 DEF Decide, Done
<1>9. log' \in LogType /\ log'.turns = log.turns /\ log'.adds = log.adds
  BY <1>8 DEF TypeOK, LogType
<1>10. Change(s, t) /\ Priced(s, t) /\ t.conv.said = s.conv.said /\ t.base = s.base
  <2>1. quotes \in Seq(Quote) /\ s.op \in {"upload", "remove", "decide"}
    BY <1>1 DEF TypeOK
  <2>3. t = Amended(s, quote, art)
    BY <1>6 DEF Amended
  <2>4. Handled(s.q[s.at], quote)
    BY <1>5
  <2>5. s.op = "decide" => quote.files = s.q[s.at].files
    BY <1>5
  <2> QED BY <1>2, <2>1, <2>3, <2>4, <2>5, AimedChange
<1>11. Speaks(t)
  BY <1>2, <1>9, <1>10 DEF Speaks, Quiet
<1>13. log'.files = log.files /\ t.op \notin {"upload", "remove"}
  BY <1>1, <1>8, <1>10 DEF Change
<1>14. t.op # "turn"
  BY <1>1, <1>10 DEF Change
<1> QED BY <1>0, <1>2, <1>8, <1>9, <1>10, <1>11, <1>13, <1>14, CommitsFrom

\* What the gates are told is a context.
LEMMA ContextIs ==
  ASSUME NEW s \in Session, NEW x, x = Context(s)
  PROVE  /\ x \in Contexts /\ x.web /\ x.shown = s.conv.said.shown
         /\ x.contact => s.conv.contact
         /\ x.funnel => s.conv.method # "none"
         /\ x.prior => s.prior
         /\ x.priced => "priced" \in s.did
<1>1. s.conv \in Conv /\ s.did \in SUBSET {"priced", "escalated", "confirmed", "saved"}
      /\ s.prior \in BOOLEAN
  BY SessionType
<1>2. PICK files \in BOOLEAN : files = (\E i \in DOMAIN All(s) : All(s)[i].files > 0)
  OBVIOUS
<1>3. PICK funnel \in BOOLEAN, yes \in BOOLEAN :
        funnel = (s.conv.method # "none") /\ yes = (s.msg.says = "yes")
  OBVIOUS
<1>10. PICK priced \in BOOLEAN : priced <=> "priced" \in s.did
  OBVIOUS
<1>11. PICK escalated \in BOOLEAN : escalated <=> "escalated" \in s.did
  OBVIOUS
<1>12. PICK confirmed \in BOOLEAN : confirmed <=> "confirmed" \in s.did
  OBVIOUS
<1>13. PICK saved \in BOOLEAN : saved <=> "saved" \in s.did
  OBVIOUS
<1>5. /\ s.conv.art \in {"none", "own", "design"} /\ s.conv.later \in BOOLEAN
      /\ s.conv.contact \in BOOLEAN
      /\ s.conv.said.shown \in SUBSET Marks /\ s.conv.said.last \in SUBSET Marks
  BY <1>1 DEF Conv, Said
<1>6. x = [web |-> TRUE, art |-> s.conv.art, later |-> s.conv.later,
           contact |-> s.conv.contact, funnel |-> funnel,
           prior |-> s.prior, priced |-> priced,
           escalated |-> escalated, confirmed |-> confirmed,
           saved |-> saved, yes |-> yes, files |-> files,
           shown |-> s.conv.said.shown, last |-> s.conv.said.last]
  BY <1>2, <1>3, <1>10, <1>11, <1>12, <1>13 DEF Context
<1>7. x \in Contexts
  BY <1>1, <1>5, <1>6 DEF Contexts
<1>8. x.web /\ x.shown = s.conv.said.shown
      /\ x.contact = s.conv.contact /\ x.funnel = funnel
      /\ x.prior = s.prior /\ x.priced = priced
  BY <1>6
<1> QED BY <1>3, <1>10, <1>7, <1>8

\* One exchange more.
LEMMA HeardIs ==
  ASSUME NEW said \in Said, NEW marks \in SUBSET Marks, NEW asks \in BOOLEAN,
         NEW h, h = Heard(said, marks, asks)
  PROVE  h \in Said /\ h.n = said.n + 1 /\ h.shown = said.shown \cup marks
BY DEF Heard, Said

\* The session with another status and transcript.
Spoken(s, status, said) == [s EXCEPT !.conv.status = status, !.conv.said = said]

\* It is a change of the session.
LEMMA SpokenIs ==
  ASSUME NEW s \in Session, s.op # "turn" => s.new = <<>>,
         NEW status \in {"open", "quoted", "escalated", "placed"}, NEW said \in Said,
         NEW t, t = Spoken(s, status, said)
  PROVE  /\ Change(s, t) /\ Priced(s, t) /\ t.op = s.op /\ t.new = s.new
         /\ t.conv.said = said /\ t.conv.contact = s.conv.contact
         /\ t.conv.method = s.conv.method /\ t.base = s.base
<1>1. s.conv \in Conv
  BY SessionType
<1>2. PICK c : c = [s.conv EXCEPT !.status = status, !.said = said]
  OBVIOUS
<1>3. /\ c \in Conv /\ c.said = said /\ c.contact = s.conv.contact
      /\ c.method = s.conv.method /\ c.first = s.conv.first /\ c.art = s.conv.art
  BY <1>1, <1>2 DEF Conv
<1>4. t = [s EXCEPT !.conv = c]
  BY <1>1, <1>2 DEF Spoken, Session
<1>5. /\ t \in Session /\ t.conv = c /\ t.op = s.op /\ t.prior = s.prior
      /\ t.base = s.base /\ t.qbase = s.qbase /\ t.q = s.q /\ t.new = s.new
      /\ t.did = s.did
  BY <1>3, <1>4 DEF Session
<1>6. Gives(s.conv, t.conv)
  BY <1>3, <1>5 DEF Gives
<1>7. Change(s, t)
  BY <1>3, <1>5, <1>6, ChangeNote
<1>8. Priced(s, t)
  BY <1>5 DEF Priced
<1> QED BY <1>3, <1>5, <1>7, <1>8

\* The end of a turn; the gates let the card through only if earned.
LEMMA FinishCommits ==
  ASSUME CVAssumption, TypeOK, SessionsInv, NEW w \in Workers, NEW draft \in Drafts,
         FinishTurn(w, draft)
  PROVE  w \in Active /\ \E t : Commits(w, t)
<1>0. req[w].op = "turn" /\ w \in Active /\ draft \in Replies
  BY DEF FinishTurn, Active, CVAssumption
<1>1. PICK s \in Session : s = Load(req[w])
  BY <1>0, Standing
<1>2. /\ Sound(s, conv, quotes) /\ Quiet(s) /\ s.op = "turn"
  BY <1>0, <1>1, Standing
<1>3. PICK x \in Contexts : x = Context(s)
  BY ContextIs
<1>4. PICK r \in Replies : r = Gated(x, draft)
  BY <1>0, <1>3, Typing
<1>5. s.conv \in Conv /\ s.conv.said \in Said
  <2>1. s.conv \in Conv
    BY SessionType
  <2> QED BY <2>1 DEF Conv
<1>6. r.marks \in SUBSET Marks
  BY <1>4 DEF Replies
<1>7. PICK asks \in BOOLEAN : asks = (r.art = "upsell")
  OBVIOUS
<1>8. PICK said \in Said :
         /\ said = Heard(s.conv.said, r.marks, asks) /\ said.n = s.conv.said.n + 1
         /\ said.shown = s.conv.said.shown \cup r.marks
  BY <1>5, <1>6, HeardIs
<1>9. PICK status \in {"open", "quoted", "escalated", "placed"} : status = NextStatus(s)
  BY <1>5 DEF NextStatus, Conv
<1>10. PICK t : t = Spoken(s, status, said)
  OBVIOUS
<1>11. /\ Change(s, t) /\ Priced(s, t)
       /\ t.conv.said = said /\ t.conv.contact = s.conv.contact
       /\ t.conv.method = s.conv.method /\ t.base = s.base /\ t.new = s.new
  BY <1>2, <1>10, SpokenIs
<1>12. /\ Write(t) /\ req' = [req EXCEPT ![w] = Idle] /\ used' = used
       /\ log' = [log EXCEPT !.turns = @ + 1]
  <2>1. t = [s EXCEPT !.conv.status = NextStatus(s),
                      !.conv.said = Heard(@, r.marks, r.art = "upsell")]
    BY <1>5, <1>7, <1>8, <1>9, <1>10 DEF Spoken, Session, Conv
  <2> QED BY <1>1, <1>3, <1>4, <2>1 DEF FinishTurn, Done
<1>13. log' \in LogType /\ log'.turns = log.turns + 1 /\ log'.adds = log.adds
  <2>1. PICK n \in Nat : n = log.turns + 1
    BY DEF TypeOK
  <2>2. log \in LogType /\ log' = [log EXCEPT !.turns = n]
    BY <1>12, <2>1 DEF TypeOK, LogType
  <2> QED BY <2>1, <2>2 DEF LogType
<1>14. s.conv.said = s.base.said
  BY <1>2 DEF Quiet
<1>15. ASSUME "ready" \in said.shown, "ready" \notin s.base.said.shown
       PROVE  s.conv.contact /\ s.conv.method # "none" /\ Some(s, quotes)
  <2>1. "ready" \in r.marks
    BY <1>8, <1>14, <1>15
  <2>2. CardIsEarned(x, r)
    BY <1>0, <1>4, CardsAreEarned
  <2>3. x.web /\ (x.contact => s.conv.contact) /\ (x.funnel => s.conv.method # "none")
        /\ (x.prior => s.prior) /\ (x.priced => "priced" \in s.did)
    BY <1>3, ContextIs
  <2>4. (x.prior \/ x.priced) /\ x.contact /\ x.funnel
    BY <2>1, <2>2, <2>3 DEF CardIsEarned, Quoted
  <2>5. Some(s, quotes)
    BY <1>2, <2>3, <2>4 DEF Sound, Knows, Some
  <2> QED BY <2>3, <2>4, <2>5
<1>16. Some(s, quotes) => Some(t, quotes)
  BY <1>11 DEF Some
<1>17. Speaks(t)
  BY <1>8, <1>11, <1>13, <1>14, <1>15, <1>16 DEF Speaks
<1>18. log'.files = log.files /\ t.op \notin {"upload", "remove"}
  <2>1. t.op = "turn"
    BY <1>2, <1>11 DEF Change
  <2> QED BY <1>12, <2>1 DEF TypeOK
<1>19. AddsNone(w, t)
  <2>1. t.new = req[w].new /\ t.new \in Seq(Quote)
    BY <1>0, <1>1, <1>11, Standing, SessionType
  <2>2. Len(t.new) \in Nat
    BY <2>1
  <2>3. \A j \in 1..Len(t.new) : ~(j > Len(t.new))
    BY <2>2
  <2> QED BY <2>1, <2>3 DEF AddsNone
<1> QED BY <1>0, <1>1, <1>11, <1>12, <1>13, <1>17, <1>18, <1>19, CommitsFrom

\* The form shows the card, after the shipping was added.
LEMMA FormCommits ==
  ASSUME CVAssumption, TypeOK, SessionsInv, NEW w \in Workers, FormCommit(w)
  PROVE  w \in Active /\ (Drops(w) \/ \E t : Commits(w, t))
<1>0. req[w].op = "form" /\ w \in Active /\ quotes \in Seq(Quote)
  BY DEF FormCommit, Active, TypeOK
<1>1. PICK s \in Session : s = Load(req[w])
  BY <1>0, Standing
<1>2. /\ Sound(s, conv, quotes) /\ Quiet(s) /\ s.op = "form"
      /\ s.conv.contact /\ s.conv.method # "none" /\ s.new = <<>>
  <2>1. Sound(s, conv, quotes) /\ Quiet(s) /\ s.op = "form" /\ s.conv = req[w].conv
    BY <1>0, <1>1, Standing
  <2>2. Aimed(req[w])
    BY <1>0 DEF SessionsInv, Ready
  <2> QED BY <1>0, <2>1, <2>2 DEF Aimed, Sound, Shape
<1>3. used' = used
  BY DEF FormCommit
<1>4. \/ Pending(s) = {} /\ Done(w, s) /\ UNCHANGED log
      \/ /\ req' = [req EXCEPT ![w] = Idle]
         /\ UNCHANGED <<conv, quotes, log>>
      \/ /\ Pending(s) # {}
         /\ Done(w, [WithShipping(s) EXCEPT !.conv.said = Heard(@, {"ready"}, FALSE)])
         /\ log' = [log EXCEPT !.turns = @ + 1]
  BY <1>1 DEF FormCommit
<1>5. Change(s, s)
  BY <1>2, ChangeNote, GivesSame
<1>6. CASE Pending(s) = {} /\ Done(w, s) /\ UNCHANGED log
  <2>1. Write(s) /\ req' = [req EXCEPT ![w] = Idle]
    BY <1>6 DEF Done
  <2>2. Priced(s, s)
    BY DEF Priced
  <2>3. log' \in LogType /\ log'.turns = log.turns /\ log'.adds = log.adds
    BY <1>6 DEF TypeOK, LogType
  <2>4. Speaks(s)
    BY <1>2, <2>3 DEF Speaks, Quiet
  <2>5. log'.files = log.files /\ s.op \notin {"upload", "remove", "turn"}
    BY <1>2, <1>6
  <2> QED BY <1>0, <1>1, <1>3, <1>5, <2>1, <2>2, <2>3, <2>4, <2>5, CommitsFrom
<1>7. CASE req' = [req EXCEPT ![w] = Idle] /\ UNCHANGED <<conv, quotes, log>>
  BY <1>0, <1>3, <1>7 DEF Drops, TypeOK, UsedType
<1>8. CASE /\ Pending(s) # {}
           /\ Done(w, [WithShipping(s) EXCEPT !.conv.said = Heard(@, {"ready"}, FALSE)])
           /\ log' = [log EXCEPT !.turns = @ + 1]
  <2>0. Shape(s, quotes) /\ Deals(s, quotes)
    BY <1>2 DEF Sound
  <2>1. PICK u \in Session :
          /\ u = WithShipping(s) /\ Change(s, u) /\ u.conv = s.conv /\ u.did = s.did
    BY <1>0, <1>5, <2>0, ShippingChange
  <2>2. s.conv \in Conv /\ s.conv.said \in Said
    <3>1. s.conv \in Conv
      BY SessionType
    <3> QED BY <3>1 DEF Conv
  <2>3. PICK said \in Said :
          /\ said = Heard(s.conv.said, {"ready"}, FALSE) /\ said.n = s.conv.said.n + 1
    <3>1. PICK marks \in SUBSET Marks, asks \in BOOLEAN :
            marks = {"ready"} /\ asks = FALSE
      BY DEF Marks
    <3>2. PICK h : h = Heard(s.conv.said, marks, asks)
      OBVIOUS
    <3>3. h \in Said /\ h.n = s.conv.said.n + 1
      BY <2>2, <3>2, HeardIs
    <3> QED BY <3>1, <3>2, <3>3
  <2>4. PICK status \in {"open", "quoted", "escalated", "placed"} : status = s.conv.status
    BY <2>2 DEF Conv
  <2>5. PICK t : t = Spoken(u, status, said)
    OBVIOUS
  <2>6. t = [u EXCEPT !.conv.said = Heard(@, {"ready"}, FALSE)]
    <3>1. u.conv = [u.conv EXCEPT !.status = status]
      BY <2>1, <2>2, <2>4 DEF Conv
    <3>2. t = [u EXCEPT !.conv.said = said]
      BY <2>5, <3>1 DEF Spoken, Session
    <3> QED BY <2>1, <2>3, <3>2
  <2>7. /\ Write(t) /\ req' = [req EXCEPT ![w] = Idle]
    BY <1>8, <2>1, <2>6 DEF Done
  <2>8. log' \in LogType /\ log'.turns = log.turns + 1
    <3>1. PICK n \in Nat : n = log.turns + 1
      BY DEF TypeOK
    <3>2. log \in LogType /\ log' = [log EXCEPT !.turns = n]
      BY <1>8, <3>1 DEF TypeOK, LogType
    <3> QED BY <3>1, <3>2 DEF LogType
  <2>9. u.op = "form" /\ u.new = <<>> /\ u.base = s.base
    BY <1>2, <2>1 DEF Change
  <2>10. /\ Change(u, t) /\ t.conv.said = said /\ t.conv.contact = s.conv.contact
         /\ t.conv.method = s.conv.method /\ t.base = s.base
    BY <2>1, <2>5, <2>9, SpokenIs
  <2>11. Sound(t, conv, quotes) /\ (Sole => Alone(t, conv, quotes))
    <3>1. Priced(s, u) /\ Priced(u, t)
      BY <2>1, <2>5, <2>9, SpokenIs DEF Priced
    <3>2. Sound(u, conv, quotes) /\ (Alone(s, conv, quotes) => Alone(u, conv, quotes))
      BY <1>0, <1>2, <2>1, <3>1, ChangeSound
    <3>3. Sound(t, conv, quotes) /\ (Alone(u, conv, quotes) => Alone(t, conv, quotes))
      BY <1>0, <2>10, <3>1, <3>2, ChangeSound
    <3>4. Sole => Alone(s, conv, quotes)
      BY <1>0, <1>1, Standing
    <3> QED BY <3>2, <3>3, <3>4
  <2>12. Some(t, quotes)
    <3>1. PICK i : i \in Pending(s)
      BY <1>8
    <3>2. i \in DOMAIN All(s)
      BY <1>0, <2>0, <3>1, PendingIs
    <3>3. s.q # <<>>
      BY <1>2, <3>2, NotEmpty
    <3>4. quotes # <<>>
      <4>1. s.q \in Seq(Quote) /\ Len(s.q) <= Len(quotes)
        BY <2>0, SessionType DEF Shape
      <4> QED BY <1>0, <3>3, <4>1
    <3> QED BY <3>4 DEF Some
  <2>13. Speaks(t)
    BY <1>2, <2>3, <2>8, <2>10, <2>12 DEF Speaks, Quiet
  <2>14. s.base = req[w].base
    BY <1>0, <1>1, Standing
  <2>15. log'.files = log.files /\ log'.adds = log.adds
    BY <1>8 DEF TypeOK
  <2>16. ASSUME Untouched(req[w]) PROVE Untouched(t)
    <3>1. Shape(req[w], quotes) /\ quotes \in Seq(Quote)
      BY <1>0, <1>3 DEF TypeOK, SessionsInv, Ready, Sound
    <3>2. Untouched(s)
      BY <1>1, <2>16, <3>1, UntouchedLoad
    <3>3. t.op = "form" /\ u \in Session /\ s \in Session
      BY <2>1, <2>9, <2>10 DEF Change
    <3>4. Untouched(u)
      BY <2>1, <2>9, <3>2, UntouchedChange
    <3> QED BY <2>10, <3>3, <3>4, UntouchedChange
  <2>17. Follows(req[w], t)
    <3>1. Shape(req[w], quotes) /\ req[w] \in Session /\ t \in Session
      BY <1>0, <2>10 DEF TypeOK, SessionsInv, Ready, Sound, Change
    <3>2. Follows(req[w], s)
      BY <1>0, <1>1, <3>1, FollowsLoad
    <3>3. Follows(s, u)
      BY <2>0, <2>1, FollowsChange
    <3>4. Shape(u, quotes) /\ Deals(u, quotes)
      BY <1>0, <1>2, <2>1, ChangeSound
    <3>5. Follows(u, t)
      BY <2>10, <3>4, FollowsChange
    <3>6. Follows(req[w], u)
      BY <3>1, <3>2, <3>3, FollowsTwice
    <3> QED BY <3>1, <3>5, <3>6, FollowsTwice
  <2>18. AddsNone(w, t)
    <3>1. t.new = <<>> /\ Len(<<>>) = 0
      BY <2>9, <2>10 DEF Change
    <3> QED BY <3>1 DEF AddsNone
  <2> QED BY <1>0, <1>3, <2>7, <2>8, <2>10, <2>11, <2>13, <2>14, <2>15, <2>16, <2>17, <2>18
      DEF Commits
<1> QED BY <1>4, <1>6, <1>7, <1>8

\* A refused tool commits what the turn did so far and goes on.
LEMMA ReviewCommits ==
  ASSUME CVAssumption, TypeOK, SessionsInv, NEW w \in Workers, NEW p \in Products,
         NEW v \in Variants, NEW z \in Sizes, ManualReview(w, p, v, z)
  PROVE  w \in Active /\ \E t : Commits(w, t)
<1>0. Tool(w) /\ w \in Active /\ Ready(w)
  BY DEF ManualReview, Tool, Active, SessionsInv
<1>1. PICK s \in Session, u \in Session :
        /\ s = Load(req[w]) /\ u = Used(w) /\ s.op = "turn" /\ Sound(s, conv, quotes)
        /\ u.op = s.op /\ u.base = s.base /\ u.conv = s.conv
        /\ u.qbase = s.qbase /\ u.q = s.q /\ u.new = s.new /\ u.did = s.did
        /\ u.prior = s.prior /\ s.base = req[w].base /\ s.new = req[w].new
  BY <1>0, UsedDoes
<1>2. PICK one \in Quote :
        /\ one = NewQuote(p, v, z, FALSE, "needs_revision") /\ ~one.design /\ AddsUp(one)
        /\ one.files = 0 /\ one.status = "needs_revision"
  <2>1. PICK one : one = NewQuote(p, v, z, FALSE, "needs_revision")
    OBVIOUS
  <2>2. one \in Quote /\ ~one.design /\ AddsUp(one) /\ one.files = 0
        /\ one.status = "needs_revision"
    BY <2>1, CVAssumption DEF NewQuote, Quote, AddsUp, Parts
  <2> QED BY <2>1, <2>2
<1>3. Change(s, u)
  BY <1>1, ChangeNote, GivesSame
<1>4. PICK t : t = [u EXCEPT !.new = Append(@, one)]
  OBVIOUS
<1>5. Change(s, t)
  BY <1>1, <1>2, <1>3, <1>4, AppendChange
<1>6. /\ t.op = "turn" /\ t.base = s.base /\ t.conv = s.conv /\ t.did = s.did
      /\ Len(t.new) = Len(u.new) + 1 /\ t.new \in Seq(Quote) /\ t \in Session
      /\ t.new[Len(u.new) + 1] = one
  <2>1. /\ t \in Session /\ t.op = u.op /\ t.base = u.base /\ t.conv = u.conv
        /\ t.did = u.did /\ Len(t.new) = Len(u.new) + 1 /\ t.new[Len(u.new) + 1] = one
    BY <1>4, AppendDoes
  <2> QED BY <1>1, <2>1, SessionType
<1>7. t.new # <<>>
  <2>1. u.new \in Seq(Quote)
    BY SessionType
  <2>2. Len(u.new) \in Nat /\ Len(<<>>) = 0
    BY <2>1
  <2> QED BY <1>6, <2>2
<1>8. Priced(s, t)
  BY <1>6 DEF Priced
<1>9. /\ Write(t) /\ req' = [req EXCEPT ![w] = Fresh(t, conv', quotes')]
      /\ log' = log /\ used' = used
  BY <1>1, <1>2, <1>4 DEF ManualReview
<1>10. t.conv.said = t.base.said
  <2>1. Quiet(s)
    BY <1>0, <1>1, Standing
  <2> QED BY <1>6, <2>1 DEF Quiet
<1>11. log' \in LogType /\ Speaks(t)
  BY <1>9, <1>10 DEF TypeOK, LogType, Speaks
<1>12. AddsNone(w, t)
  <2>1. u.new \in Seq(Quote) /\ u.new = req[w].new
    BY <1>1, SessionType
  <2>2. Len(u.new) \in Nat
    BY <2>1
  <2>3. ASSUME NEW j \in 1..Len(t.new), j > Len(req[w].new) PROVE t.new[j] = one
    <3>1. j = Len(u.new) + 1
      BY <1>6, <2>1, <2>2, <2>3
    <3> QED BY <1>6, <3>1
  <2> QED BY <1>2, <2>3 DEF AddsNone
<1>13. log'.files = log.files /\ log'.adds = log.adds /\ t.op \notin {"upload", "remove"}
  BY <1>6, <1>9, <1>1
<1> QED BY <1>0, <1>1, <1>5, <1>6, <1>7, <1>8, <1>9, <1>10, <1>11, <1>12, <1>13, CommitsFrom

\* A request that ends in an exception leaves only its session.
LEMMA FailDrops ==
  ASSUME TypeOK, NEW w, Fail(w)
  PROVE  w \in Active /\ Drops(w)
<1>1. PICK n \in Nat : n = used.faults + 1
  BY DEF TypeOK
<1>2. used \in UsedType /\ used' = [used EXCEPT !.faults = n]
  BY <1>1 DEF Fail, TypeOK, UsedType
<1>3. used' \in UsedType /\ used'.overlaps = used.overlaps
  BY <1>2 DEF UsedType
<1> QED BY <1>3 DEF Fail, Drops

Kinds(w) ==
  \/ \E s : Begins(w, s)
  \/ w \in Active /\ Drops(w)
  \/ w \in Active /\ \E t : Commits(w, t)
  \/ req[w].op = "turn" /\ \E t : Stays(w, t)

\* A step of a turn is of one of these kinds.
LEMMA TurnKinds ==
  ASSUME CVAssumption, TypeOK, SessionsInv, NEW w \in Workers, Turn(w)
  PROVE  Kinds(w)
<1>0. Tool(w) => req[w].op = "turn" /\ Ready(w)
  BY DEF Tool, SessionsInv, Active
<1>1. CASE \E m \in Messages, t \in Touches \cup {None} : TurnBegin(w, m, t)
  BY <1>1, TurnBegins DEF Kinds
<1>2. CASE \E p \in Products, v \in Variants, z \in Sizes :
             \E design \in BOOLEAN : PriceTool(w, p, v, z, design)
  <2>1. PICK p \in Products, v \in Variants, z \in Sizes, design \in BOOLEAN :
          PriceTool(w, p, v, z, design)
    BY <1>2
  <2>2. Tool(w)
    BY <2>1 DEF PriceTool
  <2> QED BY <1>0, <2>1, <2>2, PriceToolDoes DEF Kinds
<1>3. CASE \E p \in Products, v \in Variants, z \in Sizes : ManualReview(w, p, v, z)
  BY <1>3, ReviewCommits DEF Kinds
<1>4. CASE \E contact \in BOOLEAN, method \in {"none", "delivery", "collect"} :
             SaveInfo(w, contact, method)
  <2>1. PICK contact \in BOOLEAN, method \in {"none", "delivery", "collect"} :
          SaveInfo(w, contact, method)
    BY <1>4
  <2>2. Tool(w)
    BY <2>1 DEF SaveInfo
  <2> QED BY <1>0, <2>1, <2>2, SaveInfoDoes DEF Kinds
<1>5. CASE Escalate(w)
  <2>1. Tool(w)
    BY <1>5 DEF Escalate
  <2> QED BY <1>0, <1>5, <2>1, EscalateDoes DEF Kinds
<1>6. CASE ConfirmOrder(w)
  <2>1. Tool(w)
    BY <1>6 DEF ConfirmOrder
  <2> QED BY <1>0, <1>6, <2>1, ConfirmOrderDoes DEF Kinds
<1>7. CASE \E draft \in Drafts : FinishTurn(w, draft)
  BY <1>7, FinishCommits DEF Kinds
<1> QED BY <1>1, <1>2, <1>3, <1>4, <1>5, <1>6, <1>7 DEF Turn

\* So is a step of a handler.
LEMMA HandlerKinds ==
  ASSUME CVAssumption, TypeOK, SessionsInv, NEW w \in Workers, Handler(w)
  PROVE  Kinds(w)
<1>1. CASE \E method \in {"delivery", "collect"}, t \in Touches \cup {None} :
             FormBegin(w, method, t)
  BY <1>1, FormBegins DEF Kinds
<1>2. CASE FormCommit(w)
  BY <1>2, FormCommits DEF Kinds
<1>3. CASE \E op \in {"upload", "remove"} : FetchFiles(w, op)
  BY <1>3, FileBegins DEF Kinds
<1>4. CASE Upload(w)
  BY <1>4, UploadCommits DEF Kinds
<1>5. CASE Remove(w)
  BY <1>5, RemoveCommits DEF Kinds
<1>6. CASE \E i \in 1..MaxQuotes : DecideBegin(w, i)
  BY <1>6, DecideBegins DEF Kinds
<1>7. CASE \E status \in {"approved", "rejected"} : Decide(w, status)
  BY <1>7, DecideCommits DEF Kinds
<1> QED BY <1>1, <1>2, <1>3, <1>4, <1>5, <1>6, <1>7 DEF Handler

\* So is every step but the issue report.
LEMMA NextKinds ==
  ASSUME CVAssumption, TypeOK, SessionsInv, Next
  PROVE  ReportIssue \/ \E w \in Workers : Kinds(w)
<1>1. \A w \in Workers : Turn(w) \/ Handler(w) \/ Fail(w) => Kinds(w)
  BY TurnKinds, HandlerKinds, FailDrops DEF Kinds
<1> QED BY <1>1 DEF Next

-----------------------------------------------------------------------------
(***************************************************************************)
(* The invariant.                                                          *)
(***************************************************************************)
LEMMA InitHolds == ASSUME CVAssumption, Init PROVE IInv
<1>1. /\ conv = NewConv /\ quotes = <<>> /\ req = [w \in Workers |-> Idle]
      /\ log = [turns |-> 0, files |-> 0, adds |-> 0]
      /\ used = [requests |-> 0, overlaps |-> 0, faults |-> 0]
  BY DEF Init
<1>2. NewConv \in Conv /\ NewConv.said.n = 0 /\ NewConv.said.shown = {}
  BY DEF NewConv, Conv, Said
<1>3. req \in [Workers -> Session] /\ Active = {}
  BY <1>1, IdleType DEF Active
<1>4. TypeOK
  <2>1. quotes \in Seq(Quote)
    BY <1>1
  <2> QED BY <1>1, <1>2, <1>3, <2>1 DEF TypeOK
<1>5. SessionsInv
  <2>1. DOMAIN quotes = {}
    BY <1>1
  <2> QED BY <1>1, <1>2, <1>3, <2>1 DEF SessionsInv, Sole, Earned
<1>6. TurnsInv
  <2>1. TurnsKept
    BY <1>1, <1>2 DEF TurnsKept
  <2> QED BY <1>3, <2>1, FS_EmptySet DEF TurnsInv
<1> QED BY <1>4, <1>5, <1>6 DEF IInv

\* Every step keeps it.
LEMMA NextHolds == ASSUME CVAssumption, IInv, [Next]_vars PROVE IInv'
<1>1. CASE UNCHANGED vars
  <2>1. Active' = Active
    BY <1>1 DEF vars, Active
  <2>2. TypeOK'
    BY <1>1 DEF vars, TypeOK, IInv
  <2>3. SessionsInv'
    BY <1>1, <2>1 DEF vars, IInv, SessionsInv, Sole, Ready
  <2>4. TurnsInv'
    BY <1>1, <2>1 DEF vars, IInv, TurnsInv, TurnsKept
  <2> QED BY <2>2, <2>3, <2>4 DEF IInv
<1>2. CASE ReportIssue
  BY <1>2, ReportKeeps
<1>3. ASSUME NEW w \in Workers, Kinds(w) PROVE IInv'
  BY <1>3, BeginsKeeps, DropsKeeps, CommitsKeeps, StaysKeeps DEF Kinds
<1> QED BY <1>1, <1>2, <1>3, NextKinds DEF IInv

\* It holds always.
LEMMA Invariance == Spec => []IInv
<1>1. Init => IInv
  BY InitHolds, CVAssumption
<1>2. IInv /\ [Next]_vars => IInv'
  BY NextHolds, CVAssumption
<1> QED BY <1>1, <1>2, PTL DEF Spec

\* Every value a request reads or writes has its type.
THEOREM TypeCorrect == Spec => []TypeOK
<1>1. IInv => TypeOK
  BY DEF IInv
<1> QED BY <1>1, Invariance, PTL

\* Whoever was shown the PDF card had earned it, whatever the requests in
\* flight read and wrote meanwhile (PREMATURE, AUTO-RELEASE and the form).
THEOREM CardsStayEarned == Spec => []CardWasEarned
<1>1. IInv => CardWasEarned
  BY DEF IInv, SessionsInv, Earned, CardWasEarned
<1> QED BY <1>1, Invariance, PTL

\* No exchange is lost without an overlap, and each overlap costs one.
THEOREM TurnsAreKept == Spec => []TurnsKept
<1>1. IInv => TurnsKept
  BY DEF IInv, TurnsInv
<1> QED BY <1>1, Invariance, PTL

\* As long as no requests overlap, the totals are those of the parts.
THEOREM TotalsAddUp == Spec => []TotalFollowsParts
<1>1. IInv => TotalFollowsParts
  BY DEF IInv, SessionsInv, Sole, AddsUp, TotalFollowsParts
<1> QED BY <1>1, Invariance, PTL

-----------------------------------------------------------------------------
(***************************************************************************)
(* What a step may not do, from the same invariant.  Only a commit and the *)
(* issue report change the rows.                                           *)
(***************************************************************************)
LEMMA RowsChange ==
  ASSUME CVAssumption, IInv, [Next]_vars
  PROVE  \/ conv' = conv /\ quotes' = quotes
         \/ conv'.first = conv.first /\ quotes' = quotes
         \/ used' = used /\ \E w \in Active : \E t : Commits(w, t)
<1>0. TypeOK /\ SessionsInv
  BY DEF IInv
<1>1. CASE UNCHANGED vars
  BY <1>1 DEF vars
<1>2. CASE ReportIssue
  BY <1>0, <1>2, ReportDoes
<1>3. ASSUME NEW w \in Workers, Kinds(w)
      PROVE  \/ conv' = conv /\ quotes' = quotes
             \/ used' = used /\ w \in Active /\ \E t : Commits(w, t)
  BY <1>3 DEF Kinds, Begins, Drops, Stays, Commits
<1> QED BY <1>0, <1>1, <1>2, <1>3, NextKinds

\* A commit of the one request at work.
LEMMA SoleCommit ==
  ASSUME CVAssumption, IInv, used.overlaps = 0, NEW w, NEW t, Commits(w, t)
  PROVE  /\ conv.first # None => conv'.first = conv.first
         /\ \A i \in DOMAIN quotes : quotes[i].status # "pending" =>
              quotes'[i] = [quotes[i] EXCEPT !.confirmed = quotes'[i].confirmed]
         /\ \A i \in DOMAIN quotes' :
              quotes'[i].design => \/ i \in DOMAIN quotes /\ quotes[i].design
                                   \/ conv'.art # "own"
<1>0. TypeOK /\ Sole
  BY DEF IInv, SessionsInv
<1>1. /\ Sound(t, conv, quotes) /\ Write(t) /\ Alone(t, conv, quotes)
      /\ \A i \in DOMAIN quotes : AddsUp(quotes[i])
  BY <1>0 DEF Commits, Sole
<1>2. /\ conv' = t.conv
      /\ \A i \in DOMAIN quotes : quotes[i].status # "pending" =>
           quotes'[i] = [quotes[i] EXCEPT !.confirmed = quotes'[i].confirmed]
      /\ \A i \in DOMAIN quotes' :
           quotes'[i].design => \/ i \in DOMAIN quotes /\ quotes[i].design
                                \/ conv'.art # "own"
  BY <1>0, <1>1, WrittenAlone
<1>3. conv.first # None => conv'.first = conv.first
  BY <1>1, <1>2 DEF Sound, Knows, Alone
<1> QED BY <1>2, <1>3

\* Only an overlap can replace the first touch.
THEOREM FirstTouchHolds == Spec => FirstTouchStands
<1>1. ASSUME CVAssumption, IInv, [Next]_vars, conv.first # None, conv'.first # conv.first
      PROVE  used.overlaps > 0
  <2>1. used.overlaps \in Nat
    BY <1>1 DEF IInv, TypeOK
  <2>2. used.overlaps # 0
    BY <1>1, RowsChange, SoleCommit
  <2> QED BY <2>1, <2>2
<1>2. IInv /\ [Next]_vars =>
        [conv.first # None /\ conv'.first # conv.first => used.overlaps > 0]_vars
  BY <1>1, CVAssumption
<1> QED BY <1>2, Invariance, PTL DEF Spec, FirstTouchStands

\* Without an overlap, only the commit of the one at work counts.
LEMMA NoOverlapBefore ==
  ASSUME CVAssumption, IInv, [Next]_vars, used'.overlaps = 0
  PROVE  \/ quotes' = quotes
         \/ used.overlaps = 0 /\ \E w \in Active : \E t : Commits(w, t)
BY RowsChange

\* A later turn leaves alone what the operator decided on.
THEOREM DecidedHolds == Spec => DecidedStands
<1>1. ASSUME CVAssumption, IInv, [Next]_vars, used'.overlaps = 0, NEW i \in DOMAIN quotes,
             quotes[i].status \in {"approved", "rejected"}
      PROVE  quotes'[i] = [quotes[i] EXCEPT !.confirmed = quotes'[i].confirmed]
  <2>1. quotes[i] \in Quote
    BY <1>1 DEF IInv, TypeOK
  <2>2. CASE quotes' = quotes
    BY <2>1, <2>2 DEF Quote
  <2>3. CASE used.overlaps = 0 /\ \E w \in Active : \E t : Commits(w, t)
    BY <1>1, <2>3, SoleCommit
  <2> QED BY <1>1, <2>2, <2>3, NoOverlapBefore
<1>2. IInv /\ [Next]_vars =>
        [used'.overlaps = 0 =>
           \A i \in DOMAIN quotes :
             quotes[i].status \in {"approved", "rejected"} =>
               quotes'[i] = [quotes[i] EXCEPT !.confirmed = quotes'[i].confirmed]]_vars
  BY <1>1, CVAssumption
<1> QED BY <1>2, Invariance, PTL DEF Spec, DecidedStands

\* No design is charged to a customer who has artwork.
THEOREM DesignsAreAsked == Spec => DesignIsAsked
<1>1. ASSUME CVAssumption, IInv, [Next]_vars, used'.overlaps = 0, NEW i \in DOMAIN quotes',
             quotes'[i].design
      PROVE  (i \in DOMAIN quotes /\ quotes[i].design) \/ conv'.art # "own"
  <2>1. CASE quotes' = quotes
    BY <1>1, <2>1
  <2>2. CASE used.overlaps = 0 /\ \E w \in Active : \E t : Commits(w, t)
    BY <1>1, <2>2, SoleCommit
  <2> QED BY <1>1, <2>1, <2>2, NoOverlapBefore
<1>2. IInv /\ [Next]_vars =>
        [used'.overlaps = 0 =>
           \A i \in DOMAIN quotes' :
             quotes'[i].design => \/ i \in DOMAIN quotes /\ quotes[i].design
                                  \/ conv'.art # "own"]_vars
  BY <1>1, CVAssumption
<1> QED BY <1>2, Invariance, PTL DEF Spec, DesignIsAsked
-----------------------------------------------------------------------------
\* A set of natural numbers has a least member.
LEMMA Least ==
  ASSUME NEW S \in SUBSET Nat, S # {}
  PROVE  \E n \in S : \A m \in S : n <= m
<1> DEFINE Upto(n) == 0..n
           T == {Upto(n) : n \in S}
           F == FiniteSubsetsOf(Nat)
           R == StrictSubsetOrdering(Nat)
<1>1. T \subseteq F /\ T # {}
  <2>1. \A n \in S : Upto(n) \in SUBSET Nat /\ IsFiniteSet(Upto(n))
    BY FS_Interval
  <2> HIDE DEF Upto
  <2> QED BY <2>1 DEF FiniteSubsetsOf
<1>2. IsWellFoundedOn(R, F)
  BY FS_StrictSubsetOrderingWellFounded
<1>3. PICK U \in T : \A V \in T : ~ (<<V, U>> \in R)
  <2> HIDE DEF T, R, F
  <2> QED BY <1>1, <1>2, WFMin
<1>4. PICK n \in S : U = Upto(n)
  OBVIOUS
<1>5. ASSUME NEW m \in S, m < n PROVE FALSE
  <2>1. Upto(m) \subseteq Upto(n) /\ n \in Upto(n) /\ n \notin Upto(m)
    BY <1>5
  <2>2. Upto(m) \in SUBSET Nat /\ Upto(n) \in SUBSET Nat
    OBVIOUS
  <2>3. <<Upto(m), Upto(n)>> \in R
    <3> HIDE DEF Upto
    <3> QED BY <2>1, <2>2 DEF StrictSubsetOrdering
  <2> QED BY <1>3, <1>4, <2>3
<1> QED BY <1>5

\* Induction over the natural numbers, for a set that is closed.
LEMMA ByInduction ==
  ASSUME NEW S \in SUBSET Nat, 0 \in S, \A n \in S : n + 1 \in S
  PROVE  S = Nat
<1>1. SUFFICES ASSUME Nat \ S # {} PROVE FALSE
  OBVIOUS
<1>2. PICK n \in Nat \ S : \A m \in Nat \ S : n <= m
  BY <1>1, Least
<1>3. n # 0 /\ n - 1 \in Nat /\ n - 1 \in S
  BY <1>2
<1> QED BY <1>2, <1>3

(***************************************************************************)
(* Sums over a finite set: the operator of the library is a fold, and what *)
(* follows is what the proofs need of it.                                  *)
(***************************************************************************)
Sum(g, S) == MapThenSumSet(LAMBDA i : g[i], S)

Ints(g, S) == \A x \in S : g[x] \in Int

First(s) == CHOOSE x \in s : TRUE

\* it[s] is the sum over s, for the subsets of S of at most k members.
Sums(g, S, k, it) ==
  \A s \in SUBSET S : Cardinality(s) <= k =>
    it[s] = IF s = {} THEN 0 ELSE g[First(s)] + it[s \ {First(s)}]

\* The same for all the subsets.
AllSums(g, S, it) ==
  it = [s \in SUBSET S |-> IF s = {} THEN 0 ELSE g[First(s)] + it[s \ {First(s)}]]

\* The members of a set, and the set without one of them.
LEMMA Without1 ==
  ASSUME NEW S, IsFiniteSet(S), NEW s \in SUBSET S
  PROVE  /\ IsFiniteSet(s) /\ Cardinality(s) \in Nat
         /\ Cardinality(s) <= Cardinality(S)
         /\ s # {} => First(s) \in s
         /\ s = {} <=> Cardinality(s) = 0
         /\ \A x \in s : Cardinality(s \ {x}) = Cardinality(s) - 1
<1>1. IsFiniteSet(s) /\ Cardinality(s) <= Cardinality(S)
  BY FS_Subset
<1>2. Cardinality(s) \in Nat /\ (s = {} <=> Cardinality(s) = 0)
  BY <1>1, FS_CardinalityType, FS_EmptySet
<1>3. \A x \in s : Cardinality(s \ {x}) = Cardinality(s) - 1
  BY <1>1, FS_RemoveElement
<1> QED BY <1>1, <1>2, <1>3 DEF First

\* There is a table of the sums over the subsets.
LEMMA SumsExist ==
  ASSUME NEW S, IsFiniteSet(S), NEW g
  PROVE  \E it : AllSums(g, S, it)
<1> DEFINE N == {k \in Nat : \E it : Sums(g, S, k, it)}
<1>1. 0 \in N
  <2>1. Sums(g, S, 0, [s \in SUBSET S |-> 0])
    BY Without1 DEF Sums
  <2> QED BY <2>1
<1>2. ASSUME NEW k \in N PROVE k + 1 \in N
  <2>1. PICK it : Sums(g, S, k, it)
    OBVIOUS
  <2> DEFINE next(s) == IF s = {} THEN 0 ELSE g[First(s)] + it[s \ {First(s)}]
             h == [s \in SUBSET S |-> next(s)]
  <2>2. ASSUME NEW s \in SUBSET S, Cardinality(s) <= k PROVE h[s] = it[s]
    BY <2>1, <2>2 DEF Sums
  <2>3. ASSUME NEW s \in SUBSET S, Cardinality(s) <= k + 1, s # {}
        PROVE  h[s \ {First(s)}] = it[s \ {First(s)}]
    <3>1. /\ s \ {First(s)} \in SUBSET S
          /\ Cardinality(s \ {First(s)}) = Cardinality(s) - 1 /\ Cardinality(s) \in Nat
      BY <2>3, Without1
    <3>2. Cardinality(s \ {First(s)}) <= k
      BY <2>3, <3>1
    <3> QED BY <2>2, <3>1, <3>2
  <2>4. \A s \in SUBSET S : h[s] = next(s)
    OBVIOUS
  <2>5. Sums(g, S, k + 1, h)
    <3> HIDE DEF h
    <3> QED BY <2>3, <2>4 DEF Sums
  <2> HIDE DEF h
  <2> QED BY <2>5
<1>3. Cardinality(S) \in N
  <2>1. N \in SUBSET Nat
    OBVIOUS
  <2> HIDE DEF N
  <2>2. N = Nat
    BY <1>1, <1>2, <2>1, ByInduction
  <2> QED BY <2>2, FS_CardinalityType
<1>4. PICK it : Sums(g, S, Cardinality(S), it)
  BY <1>3
<1> DEFINE next(s, f) == IF s = {} THEN 0 ELSE g[First(s)] + f[s \ {First(s)}]
           h == [s \in SUBSET S |-> it[s]]
<1>5. \A s \in SUBSET S : Cardinality(s) <= Cardinality(S)
  BY Without1
<1>6. ASSUME NEW s \in SUBSET S PROVE it[s] = next(s, h)
  <2>1. it[s] = next(s, it)
    BY <1>4, <1>5 DEF Sums
  <2>2. s \ {First(s)} \in SUBSET S
    OBVIOUS
  <2>3. h[s \ {First(s)}] = it[s \ {First(s)}]
    BY <2>2
  <2> HIDE DEF h
  <2> QED BY <2>1, <2>3
<1>7. h = [s \in SUBSET S |-> next(s, h)]
  BY <1>6
<1> HIDE DEF h
<1> QED BY <1>7 DEF AllSums

\* The sum is read from such a table.
LEMMA SumIs ==
  ASSUME NEW S, IsFiniteSet(S), NEW g
  PROVE  \E it : AllSums(g, S, it) /\ Sum(g, S) = it[S]
<1>1. Sum(g, S) = (CHOOSE it : AllSums(g, S, it))[S]
  BY DEF Sum, MapThenSumSet, MapThenFoldSet, AllSums, First
<1> QED BY <1>1, SumsExist

\* Tables over two sets say the same of a subset of both, if what is summed
\* is the same there.
LEMMA SumsAgree ==
  ASSUME NEW S, IsFiniteSet(S), NEW T, IsFiniteSet(T), NEW g, NEW h,
         NEW it, AllSums(g, S, it), NEW jt, AllSums(h, T, jt),
         NEW s, s \subseteq S, s \subseteq T, \A x \in s : g[x] = h[x]
  PROVE  it[s] = jt[s]
<1> DEFINE Agree(u) == it[u] = jt[u]
           N == {k \in Nat : \A u \in SUBSET s : Cardinality(u) = k => Agree(u)}
<1>0. ASSUME NEW u \in SUBSET s
      PROVE  /\ u \in SUBSET S /\ u \in SUBSET T
             /\ it[u] = IF u = {} THEN 0 ELSE g[First(u)] + it[u \ {First(u)}]
             /\ jt[u] = IF u = {} THEN 0 ELSE h[First(u)] + jt[u \ {First(u)}]
  BY DEF AllSums
<1>1. 0 \in N
  <2>1. ASSUME NEW u \in SUBSET s, Cardinality(u) = 0 PROVE Agree(u)
    <3>1. u = {}
      BY <2>1, Without1
    <3> QED BY <1>0, <3>1
  <2> HIDE DEF Agree
  <2> QED BY <2>1
<1>2. ASSUME NEW k \in N PROVE k + 1 \in N
  <2>1. ASSUME NEW u \in SUBSET s, Cardinality(u) = k + 1 PROVE Agree(u)
    <3>1. u # {} /\ First(u) \in u /\ Cardinality(u \ {First(u)}) = k
      BY <2>1, Without1
    <3>2. u \ {First(u)} \in SUBSET s
      OBVIOUS
    <3>3. Agree(u \ {First(u)})
      <4> HIDE DEF Agree
      <4> QED BY <3>1, <3>2
    <3>4. g[First(u)] = h[First(u)]
      BY <3>1
    <3> QED BY <1>0, <3>1, <3>3, <3>4
  <2> HIDE DEF Agree
  <2> QED BY <2>1
<1>3. Cardinality(s) \in N
  <2>1. N \in SUBSET Nat
    OBVIOUS
  <2> HIDE DEF N
  <2>2. N = Nat
    BY <1>1, <1>2, <2>1, ByInduction
  <2> QED BY <2>2, Without1
<1> HIDE DEF Agree
<1>4. Agree(s)
  BY <1>3
<1> QED BY <1>4 DEF Agree

\* In such a table any member may be taken out first.
LEMMA SumsSplit ==
  ASSUME NEW S, IsFiniteSet(S), NEW g, Ints(g, S), NEW it, AllSums(g, S, it)
  PROVE  /\ it[S] \in Int
         /\ \A x \in S : it[S] = g[x] + it[S \ {x}]
<1> DEFINE Fine(u) == it[u] \in Int /\ \A x \in u : it[u] = g[x] + it[u \ {x}]
           N == {k \in Nat : \A u \in SUBSET S : Cardinality(u) <= k => Fine(u)}
<1>0. ASSUME NEW u \in SUBSET S
      PROVE  it[u] = IF u = {} THEN 0 ELSE g[First(u)] + it[u \ {First(u)}]
  BY DEF AllSums
<1>00. ASSUME NEW u \in SUBSET S, u = {} PROVE Fine(u)
  <2>1. it[u] = 0
    <3> HIDE DEF Fine, N
    <3> QED BY <1>0, <1>00
  <2>2. \A x \in u : FALSE
    BY <1>00
  <2> QED BY <2>1, <2>2
<1>1. 0 \in N
  <2>1. ASSUME NEW u \in SUBSET S, Cardinality(u) <= 0 PROVE Fine(u)
    <3>0. Cardinality(u) \in Nat /\ (u = {} <=> Cardinality(u) = 0)
      BY Without1
    <3>1. u = {}
      BY <2>1, <3>0
    <3> HIDE DEF Fine
    <3> QED BY <1>00, <3>1
  <2> HIDE DEF Fine
  <2> QED BY <2>1
<1>2. ASSUME NEW k \in N PROVE k + 1 \in N
  <2>1. \A u \in SUBSET S : Cardinality(u) <= k => Fine(u)
    <3> HIDE DEF Fine
    <3> QED OBVIOUS
  <2>2. ASSUME NEW u \in SUBSET S, Cardinality(u) <= k + 1, u # {} PROVE Fine(u)
    <3>1. /\ First(u) \in u
          /\ \A x \in u : u \ {x} \in SUBSET S /\ Cardinality(u \ {x}) <= k
          /\ \A x \in u, y \in u : x # y =>
               /\ (u \ {x}) \ {y} \in SUBSET S
               /\ Cardinality((u \ {x}) \ {y}) <= k
      <4>1. /\ First(u) \in u /\ Cardinality(u) \in Nat
            /\ \A x \in u : Cardinality(u \ {x}) = Cardinality(u) - 1
        BY <2>2, Without1
      <4>2. ASSUME NEW x \in u, NEW y \in u, x # y
            PROVE  Cardinality((u \ {x}) \ {y}) = Cardinality(u \ {x}) - 1
        <5>1. u \ {x} \in SUBSET S /\ y \in u \ {x}
          BY <4>2
        <5> QED BY <5>1, Without1
      <4>3. ASSUME NEW x \in u PROVE Cardinality(u \ {x}) <= k
        BY <2>2, <4>1
      <4>4. ASSUME NEW x \in u, NEW y \in u, x # y
            PROVE  Cardinality((u \ {x}) \ {y}) <= k
        <5>1. Cardinality(u \ {x}) = Cardinality(u) - 1
          BY <4>1
        <5>2. Cardinality((u \ {x}) \ {y}) = Cardinality(u \ {x}) - 1
          BY <4>2, <4>4
        <5> QED BY <2>2, <4>1, <5>1, <5>2
      <4> QED BY <4>1, <4>3, <4>4
    <3>2. PICK c \in u : c = First(u)
      BY <3>1
    <3>3. /\ \A x \in u : Fine(u \ {x})
          /\ \A x \in u, y \in u : x # y => Fine((u \ {x}) \ {y})
      <4> HIDE DEF Fine
      <4> QED BY <2>1, <3>1
    <3>4. g[c] \in Int /\ it[u \ {c}] \in Int /\ it[u] = g[c] + it[u \ {c}]
      BY <1>0, <2>2, <3>2, <3>3 DEF Ints
    <3>5. ASSUME NEW x \in u, x # c PROVE it[u] = g[x] + it[u \ {x}]
      <4>1. (u \ {c}) \ {x} = (u \ {x}) \ {c} /\ x \in u \ {c} /\ c \in u \ {x}
        BY <3>5
      <4>2. it[u \ {c}] = g[x] + it[(u \ {c}) \ {x}]
        BY <3>3, <4>1
      <4>3. it[u \ {x}] = g[c] + it[(u \ {x}) \ {c}]
        BY <3>3, <4>1
      <4>4. it[(u \ {x}) \ {c}] \in Int
        BY <3>3, <3>5
      <4>5. g[x] \in Int
        <5> HIDE DEF Fine, N
        <5> QED BY DEF Ints
      <4>6. it[(u \ {c}) \ {x}] = it[(u \ {x}) \ {c}]
        BY <4>1
      <4> HIDE DEF Fine, N
      <4> QED BY <3>4, <4>2, <4>3, <4>4, <4>5, <4>6
    <3>6. \A x \in u : it[u] = g[x] + it[u \ {x}]
      <4> HIDE DEF Fine, N
      <4> QED BY <3>4, <3>5
    <3>7. it[u] \in Int
      BY <3>4
    <3> QED BY <3>6, <3>7
  <2> HIDE DEF Fine
  <2> QED BY <1>00, <2>2
<1>3. Cardinality(S) \in N
  <2>1. N \in SUBSET Nat
    OBVIOUS
  <2> HIDE DEF N
  <2>2. N = Nat
    BY <1>1, <1>2, <2>1, ByInduction
  <2> QED BY <2>2, FS_CardinalityType
<1> HIDE DEF Fine
<1>4. Fine(S)
  BY <1>3
<1> QED BY <1>4 DEF Fine

\* The sum: of nothing, of a member and the rest, and that it is a number.
LEMMA SumSplit ==
  ASSUME NEW S, IsFiniteSet(S), NEW g, Ints(g, S)
  PROVE  /\ Sum(g, S) \in Int
         /\ S = {} => Sum(g, S) = 0
         /\ \A x \in S : Sum(g, S) = g[x] + Sum(g, S \ {x})
<1>1. PICK it : AllSums(g, S, it) /\ Sum(g, S) = it[S]
  BY SumIs
<1>2. it[S] \in Int /\ \A x \in S : it[S] = g[x] + it[S \ {x}]
  BY <1>1, SumsSplit
<1>3. S = {} => it[S] = 0
  BY <1>1 DEF AllSums
<1>4. ASSUME NEW x \in S PROVE it[S \ {x}] = Sum(g, S \ {x})
  <2>1. IsFiniteSet(S \ {x})
    BY FS_RemoveElement
  <2>2. PICK jt : AllSums(g, S \ {x}, jt) /\ Sum(g, S \ {x}) = jt[S \ {x}]
    BY <2>1, SumIs
  <2>3. it[S \ {x}] = jt[S \ {x}]
    BY <1>1, <2>1, <2>2, SumsAgree
  <2> QED BY <2>2, <2>3
<1> QED BY <1>1, <1>2, <1>3, <1>4

\* The sum depends on what is summed only.
LEMMA SumSame ==
  ASSUME NEW S, IsFiniteSet(S), NEW g, NEW h, \A x \in S : g[x] = h[x]
  PROVE  Sum(g, S) = Sum(h, S)
<1>1. PICK it : AllSums(g, S, it) /\ Sum(g, S) = it[S]
  BY SumIs
<1>2. PICK jt : AllSums(h, S, jt) /\ Sum(h, S) = jt[S]
  BY SumIs
<1> QED BY <1>1, <1>2, SumsAgree

\* One of the summands changes.
LEMMA SumChanged ==
  ASSUME NEW S, IsFiniteSet(S), NEW g, NEW h, Ints(g, S), Ints(h, S),
         NEW x \in S, \A y \in S : y # x => g[y] = h[y]
  PROVE  Sum(h, S) = Sum(g, S) - g[x] + h[x]
<1>1. IsFiniteSet(S \ {x}) /\ Ints(g, S \ {x})
  BY FS_RemoveElement DEF Ints
<1>2. Sum(g, S \ {x}) = Sum(h, S \ {x}) /\ Sum(g, S \ {x}) \in Int
  BY <1>1, SumSame, SumSplit
<1>3. Sum(g, S) = g[x] + Sum(g, S \ {x}) /\ Sum(h, S) = h[x] + Sum(h, S \ {x})
  BY SumSplit
<1>4. g[x] \in Int /\ h[x] \in Int
  BY DEF Ints
<1> QED BY <1>2, <1>3, <1>4

\* What is added is zero.
LEMMA SumLonger ==
  ASSUME NEW n \in Nat, NEW g, Ints(g, 1..n), NEW m \in Nat,
         \A i \in (n + 1)..(n + m) : g[i] = 0
  PROVE  Sum(g, 1..(n + m)) = Sum(g, 1..n)
<1> DEFINE N == {k \in Nat : k <= m => Sum(g, 1..(n + k)) = Sum(g, 1..n)}
<1>1. 0 \in N
  <2>1. n + 0 = n
    OBVIOUS
  <2> QED BY <2>1
<1>2. ASSUME NEW k \in N PROVE k + 1 \in N
  <2>1. SUFFICES ASSUME k + 1 <= m PROVE Sum(g, 1..(n + (k + 1))) = Sum(g, 1..n)
    OBVIOUS
  <2>2. Sum(g, 1..(n + k)) = Sum(g, 1..n)
    BY <2>1
  <2>3. g[n + (k + 1)] = 0
    BY <2>1
  <2>4. Ints(g, 1..(n + (k + 1)))
    BY <2>1 DEF Ints
  <2>5. IsFiniteSet(1..(n + (k + 1)))
    BY FS_Interval
  <2>6. n + (k + 1) \in 1..(n + (k + 1)) /\ 1..(n + (k + 1)) \ {n + (k + 1)} = 1..(n + k)
    OBVIOUS
  <2>7. Sum(g, 1..(n + (k + 1))) = g[n + (k + 1)] + Sum(g, 1..(n + k))
    BY <2>4, <2>5, <2>6, SumSplit
  <2>8. IsFiniteSet(1..n) /\ Sum(g, 1..n) \in Int
    BY FS_Interval, SumSplit
  <2> HIDE DEF N
  <2> QED BY <2>2, <2>3, <2>7, <2>8
<1>3. m \in N
  <2>1. N \in SUBSET Nat
    OBVIOUS
  <2> HIDE DEF N
  <2> QED BY <1>1, <1>2, <2>1, ByInduction
<1> QED BY <1>3

-----------------------------------------------------------------------------
(***************************************************************************)
(* The files.  A session at work may write back a list as it loaded it, so *)
(* what counts is not only the lists on the rows: put any version of each  *)
(* list, of the row or of a session, and the files are among those         *)
(* accepted, short of them by no more than what the overlaps left over.    *)
(***************************************************************************)
Held(i, n) ==
  \/ n = quotes[i].files
  \/ \E w \in Active : i \in DOMAIN req[w].qbase /\ n = req[w].qbase[i].files

Tables == {g \in [1..Len(quotes) -> 0..MaxFiles] : \A i \in 1..Len(quotes) : Held(i, g[i])}

\* Overlaps that no session at work accounts for.
Spare ==
  IF Active = {} THEN used.overlaps ELSE used.overlaps - Cardinality(Active) + 1

Near(n) == n <= log.files /\ log.files - n <= Spare

FilesInv ==
  /\ \A w \in Active : Untouched(req[w])
  /\ \A g \in Tables : Near(Sum(g, 1..Len(quotes)))

\* A session that ends gives back its overlap, if others are at work.
LEMMA SpareFreed ==
  ASSUME TypeOK, TypeOK', IsFiniteSet(Active), NEW w \in Active, Active' = Active \ {w},
         used'.overlaps = used.overlaps
  PROVE  /\ Spare \in Int /\ Spare' \in Int /\ Spare' >= Spare
         /\ Active' # {} => Spare' = Spare + 1
<1>1. PICK k \in Nat : k = Cardinality(Active)
  BY FS_CardinalityType
<1>2. IsFiniteSet(Active') /\ Cardinality(Active') = k - 1
  BY <1>1, Counted
<1>3. PICK o \in Nat : o = used.overlaps
  BY DEF TypeOK
<1>4. Spare = o - k + 1
  BY <1>1, <1>3 DEF Spare
<1>5. Active' = {} => Cardinality(Active') = 0
  BY FS_EmptySet
<1>6. Spare' = IF Active' = {} THEN o ELSE o - (k - 1) + 1
  BY <1>2, <1>3 DEF Spare
<1> QED BY <1>2, <1>4, <1>5, <1>6

\* A session that begins while others are at work has brought its own.
LEMMA SpareTaken ==
  ASSUME TypeOK, IsFiniteSet(Active), NEW w, w \notin Active, Active' = Active \cup {w},
         used'.overlaps = IF Active # {} THEN used.overlaps + 1 ELSE used.overlaps
  PROVE  Spare \in Int /\ Spare' \in Int /\ Spare' >= Spare
<1>1. PICK k \in Nat : k = Cardinality(Active)
  BY FS_CardinalityType
<1>2. Cardinality(Active') = k + 1
  <2>1. Cardinality(Active \cup {w}) = k + 1
    BY <1>1, Counted
  <2> QED BY <2>1
<1>3. PICK o \in Nat : o = used.overlaps
  BY DEF TypeOK
<1>4. Active = {} => k = 0
  BY <1>1, FS_EmptySet
<1>5. Spare = IF Active = {} THEN o ELSE o - k + 1
  BY <1>1, <1>3 DEF Spare
<1>6. Spare' = IF Active = {} THEN o - (k + 1) + 1 ELSE (o + 1) - (k + 1) + 1
  <2>1. Active' # {}
    OBVIOUS
  <2>2. Spare' = used'.overlaps - (k + 1) + 1
    BY <1>2, <2>1 DEF Spare
  <2> QED BY <1>3, <2>2
<1> QED BY <1>4, <1>5, <1>6

\* The issue report may bring one too.
LEMMA SpareSame ==
  ASSUME TypeOK, IsFiniteSet(Active), Active' = Active,
         \/ used'.overlaps = used.overlaps
         \/ used'.overlaps = used.overlaps + 1
  PROVE  Spare \in Int /\ Spare' \in Int /\ Spare' >= Spare
<1>1. PICK k \in Nat : k = Cardinality(Active)
  BY FS_CardinalityType
<1>2. PICK o \in Nat : o = used.overlaps
  BY DEF TypeOK
<1>3. Spare = IF Active = {} THEN o ELSE o - k + 1
  BY <1>1, <1>2 DEF Spare
<1>4. \/ Spare' = IF Active = {} THEN o ELSE o - k + 1
      \/ Spare' = IF Active = {} THEN o + 1 ELSE (o + 1) - k + 1
  BY <1>1, <1>2 DEF Spare
<1> QED BY <1>3, <1>4

(***************************************************************************)
(* A step that leaves the lists alone, and adds quotes without files.      *)
(***************************************************************************)
LEMMA FilesSame ==
  ASSUME TypeOK, TypeOK', FilesInv,
         Len(quotes') >= Len(quotes),
         \A i \in 1..Len(quotes) : quotes'[i].files = quotes[i].files,
         \A i \in (Len(quotes) + 1)..Len(quotes') : quotes'[i].files = 0,
         log'.files = log.files, Spare \in Int, Spare' \in Int, Spare' >= Spare,
         \A v \in Active' : Untouched(req'[v]),
         \A v \in Active' : \A i \in DOMAIN req'[v].qbase :
           IF i \in 1..Len(quotes) THEN Held(i, req'[v].qbase[i].files)
           ELSE req'[v].qbase[i].files = 0
  PROVE  FilesInv'
<1>0. /\ Len(quotes) \in Nat /\ Len(quotes') \in Nat /\ log.files \in Int
      /\ MaxFiles \in Nat
  BY CVAssumption DEF TypeOK
<1>1. ASSUME NEW i, NEW n, Held(i, n)', i \in 1..Len(quotes')
      PROVE  IF i \in 1..Len(quotes) THEN Held(i, n) ELSE n = 0
  <2>1. CASE n = quotes'[i].files
    <3>1. CASE i \in 1..Len(quotes)
      BY <2>1, <3>1 DEF Held
    <3>2. CASE i \notin 1..Len(quotes)
      <4>1. i \in (Len(quotes) + 1)..Len(quotes')
        BY <1>0, <1>1, <3>2
      <4> QED BY <2>1, <3>2, <4>1
    <3> QED BY <3>1, <3>2
  <2>2. CASE \E v \in Active' : i \in DOMAIN req'[v].qbase /\ n = req'[v].qbase[i].files
    BY <2>2
  <2> QED BY <1>1, <2>1, <2>2 DEF Held
<1>2. ASSUME NEW g \in Tables' PROVE Near(Sum(g, 1..Len(quotes)))'
  <2>1. /\ g \in [1..Len(quotes') -> 0..MaxFiles]
        /\ \A i \in 1..Len(quotes') : Held(i, g[i])'
    BY DEF Tables
  <2>2. PICK h : h = [i \in 1..Len(quotes) |-> g[i]]
    OBVIOUS
  <2>3. \A i \in 1..Len(quotes) : i \in 1..Len(quotes') /\ h[i] = g[i]
    BY <1>0, <2>2
  <2>4. h \in Tables
    <3>1. h \in [1..Len(quotes) -> 0..MaxFiles]
      BY <2>1, <2>2, <2>3
    <3>2. \A i \in 1..Len(quotes) : Held(i, h[i])
      BY <1>1, <2>1, <2>3
    <3> QED BY <3>1, <3>2 DEF Tables
  <2>5. Near(Sum(h, 1..Len(quotes)))
    BY <2>4 DEF FilesInv
  <2>6. Ints(g, 1..Len(quotes))
    BY <1>0, <2>1, <2>3 DEF Ints
  <2>7. IsFiniteSet(1..Len(quotes))
    BY <1>0, FS_Interval
  <2>8. Sum(g, 1..Len(quotes)) = Sum(h, 1..Len(quotes)) /\ Sum(g, 1..Len(quotes)) \in Int
    BY <2>3, <2>6, <2>7, SumSame, SumSplit
  <2>9. PICK m \in Nat : Len(quotes') = Len(quotes) + m
    <3>1. PICK k \in Nat, l \in Nat : k = Len(quotes) /\ l = Len(quotes') /\ k <= l
      BY <1>0
    <3>2. l - k \in Nat /\ l = k + (l - k)
      BY <3>1
    <3> QED BY <3>1, <3>2
  <2>10. \A i \in (Len(quotes) + 1)..(Len(quotes) + m) : g[i] = 0
    <3>1. ASSUME NEW i \in (Len(quotes) + 1)..(Len(quotes) + m) PROVE g[i] = 0
      <4>1. i \in 1..Len(quotes') /\ i \notin 1..Len(quotes)
        BY <1>0, <2>9
      <4> QED BY <1>1, <2>1, <4>1
    <3> QED BY <3>1
  <2>11. Sum(g, 1..Len(quotes')) = Sum(g, 1..Len(quotes))
    <3>1. PICK n \in Nat : n = Len(quotes)
      BY <1>0
    <3>2. Sum(g, 1..(n + m)) = Sum(g, 1..n)
      BY <2>6, <2>10, <3>1, SumLonger
    <3> QED BY <2>9, <3>1, <3>2
  <2> QED BY <1>0, <2>5, <2>8, <2>11 DEF Near
<1> QED BY <1>2 DEF FilesInv

(***************************************************************************)
(* An upload: one list, as the session had it, and one file more.          *)
(***************************************************************************)
LEMMA FilesWritten ==
  ASSUME TypeOK, TypeOK', FilesInv, NEW w \in Active, Active' = Active \ {w},
         \A v \in Active' : req'[v] = req[v],
         Spare \in Int, Spare' \in Int, Spare' >= Spare, Active' # {} => Spare' = Spare + 1,
         Len(quotes') = Len(quotes), NEW x \in 1..Len(quotes), x \in DOMAIN req[w].qbase,
         quotes'[x].files = req[w].qbase[x].files + 1,
         req[w].qbase[x].files \in 0..MaxFiles,
         \A i \in 1..Len(quotes) : i # x => quotes'[i].files = quotes[i].files,
         log'.files = log.files + 1
  PROVE  FilesInv'
<1>0. /\ Len(quotes) \in Nat /\ log.files \in Int /\ MaxFiles \in Nat
      /\ IsFiniteSet(1..Len(quotes))
  BY CVAssumption, FS_Interval DEF TypeOK
<1>1. \A v \in Active' : Untouched(req'[v])
  BY DEF FilesInv
<1>2. PICK b \in 0..MaxFiles : b = req[w].qbase[x].files
  OBVIOUS
<1>3. ASSUME NEW i \in 1..Len(quotes), i # x, NEW n, Held(i, n)'
      PROVE  Held(i, n)
  BY <1>3 DEF Held
<1>4. ASSUME NEW n, Held(x, n)'
      PROVE  n = b + 1 \/ (Active' # {} /\ Held(x, n))
  BY <1>2, <1>4 DEF Held
<1>5. ASSUME NEW g \in Tables' PROVE Near(Sum(g, 1..Len(quotes)))'
  <2>1. /\ g \in [1..Len(quotes) -> 0..MaxFiles]
        /\ \A i \in 1..Len(quotes) : Held(i, g[i])'
    BY DEF Tables
  <2>2. Ints(g, 1..Len(quotes))
    BY <1>0, <2>1 DEF Ints
  <2>3. Sum(g, 1..Len(quotes)) \in Int
    BY <1>0, <2>2, SumSplit
  <2>4. CASE g[x] = b + 1
    <3>1. PICK h : h = [g EXCEPT ![x] = b]
      OBVIOUS
    <3>2. /\ h \in [1..Len(quotes) -> 0..MaxFiles] /\ h[x] = b
          /\ \A i \in 1..Len(quotes) : i # x => h[i] = g[i]
      BY <2>1, <3>1
    <3>3. h \in Tables
      <4>1. Held(x, h[x])
        BY <1>2, <3>2 DEF Held
      <4>2. \A i \in 1..Len(quotes) : Held(i, h[i])
        BY <1>3, <2>1, <3>2, <4>1
      <4> QED BY <3>2, <4>2 DEF Tables
    <3>4. Near(Sum(h, 1..Len(quotes)))
      BY <3>3 DEF FilesInv
    <3>5. Ints(h, 1..Len(quotes))
      BY <1>0, <3>2 DEF Ints
    <3>6. Sum(h, 1..Len(quotes)) \in Int
      BY <1>0, <3>5, SumSplit
    <3>7. Sum(g, 1..Len(quotes)) = Sum(h, 1..Len(quotes)) - h[x] + g[x]
      <4>1. PICK S : S = 1..Len(quotes)
        OBVIOUS
      <4>2. /\ IsFiniteSet(S) /\ Ints(h, S) /\ Ints(g, S) /\ x \in S
            /\ \A y \in S : y # x => h[y] = g[y]
        BY <1>0, <2>2, <3>2, <3>5, <4>1
      <4>3. Sum(g, S) = Sum(h, S) - h[x] + g[x]
        BY <4>2, SumChanged
      <4> QED BY <4>1, <4>3
    <3>8. Sum(g, 1..Len(quotes)) = Sum(h, 1..Len(quotes)) + 1
      BY <2>4, <3>2, <3>6, <3>7
    <3> QED BY <1>0, <3>4, <3>6, <3>8 DEF Near
  <2>5. CASE Active' # {} /\ Held(x, g[x])
    <3>1. \A i \in 1..Len(quotes) : Held(i, g[i])
      BY <1>3, <2>1, <2>5
    <3>2. g \in Tables
      BY <2>1, <3>1 DEF Tables
    <3>3. Near(Sum(g, 1..Len(quotes)))
      BY <3>2 DEF FilesInv
    <3> QED BY <1>0, <2>3, <2>5, <3>3 DEF Near
  <2> QED BY <1>4, <2>1, <2>4, <2>5
<1> QED BY <1>1, <1>5 DEF FilesInv

\* What is known of a session at work.
LEMMA AtWork ==
  ASSUME IInv, FilesInv, NEW w \in Active
  PROVE  /\ w \in Workers /\ req[w] \in Session /\ Shape(req[w], quotes)
         /\ Untouched(req[w]) /\ quotes \in Seq(Quote) /\ IsFiniteSet(Active)
         /\ req[w].qbase \in Seq(Quote) /\ DOMAIN req[w].qbase = DOMAIN req[w].q
         /\ DOMAIN req[w].q = 1..Len(req[w].q) /\ Len(req[w].q) \in Nat
         /\ \A i \in DOMAIN req[w].qbase : i \in 1..Len(quotes)
<1>1. /\ w \in Workers /\ req[w] \in Session /\ Shape(req[w], quotes)
      /\ Untouched(req[w]) /\ quotes \in Seq(Quote) /\ IsFiniteSet(Active)
  BY DEF Active, IInv, TypeOK, SessionsInv, TurnsInv, Ready, Sound, FilesInv
<1>2. req[w].q \in Seq(Quote) /\ req[w].qbase \in Seq(Quote)
  BY <1>1, SessionType
<1>3. Len(req[w].qbase) = Len(req[w].q) /\ Len(req[w].q) <= Len(quotes)
  BY <1>1 DEF Shape
<1> QED BY <1>1, <1>2, <1>3

\* What the sessions at work hold, the others still hold.
LEMMA OthersHold ==
  ASSUME IInv, FilesInv, NEW v \in Active, req'[v] = req[v]
  PROVE  /\ Untouched(req'[v])
         /\ \A i \in DOMAIN req'[v].qbase :
              IF i \in 1..Len(quotes) THEN Held(i, req'[v].qbase[i].files)
              ELSE req'[v].qbase[i].files = 0
<1>1. Untouched(req[v]) /\ \A i \in DOMAIN req[v].qbase : i \in 1..Len(quotes)
  BY AtWork
<1>2. \A i \in DOMAIN req[v].qbase : Held(i, req[v].qbase[i].files)
  BY DEF Held
<1> QED BY <1>1, <1>2

\* Rows that stay have the files they had.
LEMMA SameRows ==
  ASSUME TypeOK, quotes' = quotes
  PROVE  /\ Len(quotes') >= Len(quotes)
         /\ \A i \in 1..Len(quotes) : quotes'[i].files = quotes[i].files
         /\ \A i \in (Len(quotes) + 1)..Len(quotes') : quotes'[i].files = 0
<1>1. Len(quotes) \in Nat
  BY DEF TypeOK
<1> QED BY <1>1

\* A request that begins has the lists as they are.
LEMMA BeginsFiles ==
  ASSUME CVAssumption, IInv, IInv', FilesInv, NEW w \in Workers, NEW s, Begins(w, s)
  PROVE  FilesInv'
<1>0. TypeOK /\ TypeOK' /\ IsFiniteSet(Active)
  BY DEF IInv, TurnsInv
<1>1. /\ w \notin Active /\ s \in Session /\ s.op # "idle"
      /\ req' = [req EXCEPT ![w] = s] /\ quotes' = quotes /\ log' = log
      /\ used'.overlaps = IF Active # {} THEN used.overlaps + 1 ELSE used.overlaps
      /\ s.q = s.qbase /\ s.new = <<>> /\ (s.qbase = quotes \/ s.qbase = <<>>)
  BY DEF Begins, Sound, Shape
<1>2. /\ req'[w] = s /\ Active' = Active \cup {w}
      /\ \A v \in Workers : v # w => req'[v] = req[v]
  <2>1. req \in [Workers -> Session]
    BY <1>0 DEF TypeOK
  <2> QED BY <1>1, <2>1, OneRequest
<1>3. Spare \in Int /\ Spare' \in Int /\ Spare' >= Spare
  BY <1>0, <1>1, <1>2, SpareTaken
<1>4. /\ Untouched(s)
      /\ \A i \in DOMAIN s.qbase : i \in 1..Len(quotes) /\ Held(i, s.qbase[i].files)
  <2>1. DOMAIN <<>> = {} /\ DOMAIN quotes = 1..Len(quotes)
    BY <1>0 DEF TypeOK
  <2> QED BY <1>1, <2>1 DEF Untouched, Held
<1>5. ASSUME NEW v \in Active'
      PROVE  /\ Untouched(req'[v])
             /\ \A i \in DOMAIN req'[v].qbase :
                  IF i \in 1..Len(quotes) THEN Held(i, req'[v].qbase[i].files)
                  ELSE req'[v].qbase[i].files = 0
  <2>1. CASE v = w
    BY <1>2, <1>4, <2>1
  <2>2. CASE v # w
    <3>1. v \in Active /\ req'[v] = req[v]
      BY <1>2, <2>2 DEF Active
    <3> QED BY <3>1, OthersHold
  <2> QED BY <2>1, <2>2
<1>6. log'.files = log.files
  BY <1>1
<1> QED BY <1>0, <1>1, <1>3, <1>5, <1>6, SameRows, FilesSame

\* A session dropped takes only its versions with it.
LEMMA DropsFiles ==
  ASSUME CVAssumption, IInv, IInv', FilesInv, NEW w \in Workers, w \in Active, Drops(w)
  PROVE  FilesInv'
<1>0. TypeOK /\ TypeOK' /\ IsFiniteSet(Active)
  BY DEF IInv, TurnsInv
<1>1. /\ req' = [req EXCEPT ![w] = Idle] /\ Idle \in Session /\ Idle.op = "idle"
      /\ quotes' = quotes /\ log' = log /\ used'.overlaps = used.overlaps
  BY IdleType DEF Drops
<1>2. /\ Active' = Active \ {w}
      /\ \A v \in Workers : v # w => req'[v] = req[v]
  <2>1. req \in [Workers -> Session]
    BY <1>0 DEF TypeOK
  <2> QED BY <1>1, <2>1, OneRequest
<1>3. Spare \in Int /\ Spare' \in Int /\ Spare' >= Spare
  BY <1>0, <1>1, <1>2, SpareFreed
<1>5. ASSUME NEW v \in Active'
      PROVE  /\ Untouched(req'[v])
             /\ \A i \in DOMAIN req'[v].qbase :
                  IF i \in 1..Len(quotes) THEN Held(i, req'[v].qbase[i].files)
                  ELSE req'[v].qbase[i].files = 0
  <2>1. v \in Active /\ req'[v] = req[v]
    BY <1>2 DEF Active
  <2> QED BY <2>1, OthersHold
<1>6. log'.files = log.files
  BY <1>1
<1> QED BY <1>0, <1>1, <1>3, <1>5, <1>6, SameRows, FilesSame

\* A step within a session loads the lists it has not seen as they are.
LEMMA StaysFiles ==
  ASSUME IInv, IInv', FilesInv, NEW w \in Workers, req[w].op = "turn", NEW t, Stays(w, t)
  PROVE  FilesInv'
<1>0. TypeOK /\ TypeOK' /\ IsFiniteSet(Active) /\ w \in Active /\ quotes \in Seq(Quote)
  BY DEF IInv, TurnsInv, Active, TypeOK
<1>1. /\ req[w] \in Session /\ Shape(req[w], quotes) /\ Untouched(req[w])
      /\ \A i \in DOMAIN req[w].qbase : i \in 1..Len(quotes)
      /\ DOMAIN req[w].qbase = 1..Len(req[w].q) /\ Len(req[w].q) \in Nat
  BY <1>0, AtWork
<1>2. PICK s \in Session :
        /\ s = Load(req[w]) /\ s.op = "turn" /\ Len(s.qbase) = Len(quotes)
        /\ \A i \in 1..Len(quotes) :
             s.qbase[i] = IF i <= Len(req[w].q) THEN req[w].qbase[i] ELSE quotes[i]
  BY <1>0, <1>1, LoadDoes DEF Shape
<1>3. /\ Change(s, t) /\ req' = [req EXCEPT ![w] = t] /\ quotes' = quotes
      /\ used' = used /\ log'.files = log.files
  BY <1>2 DEF Stays
<1>4. t \in Session /\ t.op = "turn" /\ t.qbase = s.qbase
  BY <1>2, <1>3 DEF Change
<1>5. Untouched(t)
  <2>1. Untouched(s)
    BY <1>0, <1>1, <1>2, UntouchedLoad
  <2>2. t.op \notin {"upload", "remove"}
    BY <1>4
  <2> QED BY <1>3, <2>1, <2>2, UntouchedChange
<1>6. ASSUME NEW i \in DOMAIN t.qbase PROVE i \in 1..Len(quotes) /\ Held(i, t.qbase[i].files)
  <2>1. i \in 1..Len(quotes)
    <3>1. s.qbase \in Seq(Quote)
      BY SessionType
    <3> QED BY <1>2, <1>4, <3>1
  <2>2. CASE i <= Len(req[w].q)
    <3>1. i \in DOMAIN req[w].qbase /\ t.qbase[i] = req[w].qbase[i]
      BY <1>1, <1>2, <1>4, <2>1, <2>2
    <3> QED BY <1>0, <2>1, <3>1 DEF Held
  <2>3. CASE ~(i <= Len(req[w].q))
    BY <1>2, <1>4, <2>1, <2>3 DEF Held
  <2> QED BY <2>1, <2>2, <2>3
<1>7. /\ req'[w] = t /\ Active' = Active
      /\ \A v \in Workers : v # w => req'[v] = req[v]
  <2>1. req \in [Workers -> Session]
    BY <1>0 DEF TypeOK
  <2>2. t.op # "idle" /\ req' = [req EXCEPT ![w] = t] /\ t \in Session
    BY <1>3, <1>4
  <2>3. Active \cup {w} = Active
    BY <1>0
  <2>4. /\ req'[w] = t /\ Active' = Active \cup {w}
        /\ \A v \in Workers : v # w => req'[v] = req[v]
    BY <2>1, <2>2, OneRequest
  <2> QED BY <2>3, <2>4
<1>8. Spare \in Int /\ Spare' \in Int /\ Spare' >= Spare
  BY <1>0, <1>3, <1>7, SpareSame
<1>9. ASSUME NEW v \in Active'
      PROVE  /\ Untouched(req'[v])
             /\ \A i \in DOMAIN req'[v].qbase :
                  IF i \in 1..Len(quotes) THEN Held(i, req'[v].qbase[i].files)
                  ELSE req'[v].qbase[i].files = 0
  <2>1. CASE v = w
    BY <1>5, <1>6, <1>7, <2>1
  <2>2. CASE v # w
    <3>1. v \in Active /\ req'[v] = req[v]
      BY <1>7, <2>2 DEF Active
    <3> QED BY <3>1, OthersHold
  <2> QED BY <2>1, <2>2
<1> QED BY <1>0, <1>3, <1>8, <1>9, SameRows, FilesSame

\* The issue report leaves the lists alone.
LEMMA ReportFiles ==
  ASSUME IInv, IInv', FilesInv, ReportIssue
  PROVE  FilesInv'
<1>0. TypeOK /\ TypeOK' /\ IsFiniteSet(Active)
  BY DEF IInv, TurnsInv
<1>1. /\ quotes' = quotes /\ req' = req /\ log'.files = log.files /\ Active' = Active
      /\ used'.overlaps = IF Active # {} THEN used.overlaps + 1 ELSE used.overlaps
  BY <1>0, ReportDoes DEF Active, ReportIssue, TypeOK
<1>2. Spare \in Int /\ Spare' \in Int /\ Spare' >= Spare
  BY <1>0, <1>1, SpareSame
<1>3. ASSUME NEW v \in Active'
      PROVE  /\ Untouched(req'[v])
             /\ \A i \in DOMAIN req'[v].qbase :
                  IF i \in 1..Len(quotes) THEN Held(i, req'[v].qbase[i].files)
                  ELSE req'[v].qbase[i].files = 0
  BY <1>1, OthersHold
<1> QED BY <1>0, <1>1, <1>2, <1>3, SameRows, FilesSame

\* A commit of a session that has not changed a list.
LEMMA UntouchedWritten ==
  ASSUME TypeOK, NEW t \in Session, Shape(t, quotes), Untouched(t), Write(t)
  PROVE  /\ quotes' \in Seq(Quote) /\ Len(quotes') >= Len(quotes)
         /\ \A i \in 1..Len(quotes) : quotes'[i].files = quotes[i].files
         /\ \A i \in (Len(quotes) + 1)..Len(quotes') : quotes'[i].files = 0
<1>0. /\ t.q \in Seq(Quote) /\ t.qbase \in Seq(Quote) /\ t.new \in Seq(Quote)
      /\ quotes \in Seq(Quote) /\ Len(t.qbase) = Len(t.q) /\ Len(t.q) <= Len(quotes)
  BY SessionType DEF TypeOK, Shape
<1>1. /\ Len(t.q) \in Nat /\ Len(quotes) \in Nat /\ Len(t.new) \in Nat
      /\ DOMAIN t.q = 1..Len(t.q) /\ DOMAIN t.new = 1..Len(t.new)
  BY <1>0
<1>2. /\ quotes' \in Seq(Quote) /\ Len(quotes') = Len(quotes) + Len(t.new)
      /\ \A i \in 1..Len(quotes) :
           quotes'[i] = IF i <= Len(t.q) THEN Merge(quotes[i], t.qbase[i], t.q[i])
                        ELSE quotes[i]
      /\ \A j \in 1..Len(t.new) : quotes'[Len(quotes) + j] = t.new[j]
  BY <1>0, MergedSeq
<1>3. ASSUME NEW i \in 1..Len(quotes) PROVE quotes'[i].files = quotes[i].files
  <2>1. CASE i <= Len(t.q)
    <3>1. /\ i \in DOMAIN t.q /\ quotes[i] \in Quote /\ t.q[i] \in Quote
          /\ t.qbase[i] \in Quote
      BY <1>0, <1>1, <2>1
    <3>2. t.q[i].files = t.qbase[i].files
      BY <3>1 DEF Untouched
    <3>3. Merge(quotes[i], t.qbase[i], t.q[i]).files = quotes[i].files
      BY <3>1, <3>2, MergedQuote
    <3> QED BY <1>2, <2>1, <3>3
  <2>2. CASE ~(i <= Len(t.q))
    BY <1>2, <2>2
  <2> QED BY <2>1, <2>2
<1>4. ASSUME NEW i \in (Len(quotes) + 1)..Len(quotes') PROVE quotes'[i].files = 0
  <2>1. PICK j \in 1..Len(t.new) : i = Len(quotes) + j
    <3>1. i - Len(quotes) \in 1..Len(t.new) /\ i = Len(quotes) + (i - Len(quotes))
      BY <1>1, <1>2
    <3> QED BY <3>1
  <2>2. t.new[j].files = 0
    BY <1>1 DEF Untouched
  <2> QED BY <1>2, <2>1, <2>2
<1> QED BY <1>1, <1>2, <1>3, <1>4

\* Any commit but an upload.
LEMMA CommitsFiles ==
  ASSUME CVAssumption, IInv, IInv', FilesInv, NEW w \in Workers, w \in Active, NEW t,
         Commits(w, t), log'.files = log.files, Untouched(t)
  PROVE  FilesInv'
<1>0. TypeOK /\ TypeOK' /\ IsFiniteSet(Active)
  BY DEF IInv, TurnsInv
<1>1. /\ t \in Session /\ Shape(t, quotes) /\ Write(t) /\ used' = used
      /\ conv' \in Conv
  BY <1>0 DEF Commits, Sound, Shape, TypeOK
<1>2. /\ quotes' \in Seq(Quote) /\ Len(quotes') >= Len(quotes)
      /\ \A i \in 1..Len(quotes) : quotes'[i].files = quotes[i].files
      /\ \A i \in (Len(quotes) + 1)..Len(quotes') : quotes'[i].files = 0
  BY <1>0, <1>1, UntouchedWritten
<1>3. PICK s \in Session :
        /\ req' = [req EXCEPT ![w] = s]
        /\ \/ s.op = "idle"
           \/ s.op = "turn" /\ s.q = quotes' /\ s.qbase = quotes' /\ s.new = <<>>
  <2>1. CASE req' = [req EXCEPT ![w] = Idle]
    BY <2>1, IdleType
  <2>2. CASE t.op = "turn" /\ req' = [req EXCEPT ![w] = Fresh(t, conv', quotes')]
    <3>1. PICK r \in Session :
            /\ r = Fresh(t, conv', quotes')
            /\ r.op = t.op /\ r.qbase = quotes' /\ r.q = quotes' /\ r.new = <<>>
      BY <1>1, <1>2, FreshDoes
    <3> QED BY <2>2, <3>1
  <2> QED BY <2>1, <2>2 DEF Commits
<1>4. /\ req'[w] = s /\ \A v \in Workers : v # w => req'[v] = req[v]
      /\ s.op = "idle" => Active' = Active \ {w}
      /\ s.op # "idle" => Active' = Active
  <2>1. req \in [Workers -> Session]
    BY <1>0 DEF TypeOK
  <2>2. Active \cup {w} = Active
    OBVIOUS
  <2> QED BY <1>3, <2>1, <2>2, OneRequest
<1>5. Spare \in Int /\ Spare' \in Int /\ Spare' >= Spare
  <2>1. used'.overlaps = used.overlaps
    BY <1>1
  <2> QED BY <1>0, <1>4, <2>1, SpareFreed, SpareSame
<1>6. ASSUME NEW v \in Active'
      PROVE  /\ Untouched(req'[v])
             /\ \A i \in DOMAIN req'[v].qbase :
                  IF i \in 1..Len(quotes) THEN Held(i, req'[v].qbase[i].files)
                  ELSE req'[v].qbase[i].files = 0
  <2>1. CASE v = w
    <3>1. s.q = quotes' /\ s.qbase = quotes' /\ s.new = <<>>
      BY <1>3, <1>4, <1>6, <2>1
    <3>2. Untouched(s)
      <4>1. DOMAIN <<>> = {}
        OBVIOUS
      <4> QED BY <3>1, <4>1 DEF Untouched
    <3>3. ASSUME NEW i \in 1..Len(quotes') PROVE
            IF i \in 1..Len(quotes) THEN Held(i, quotes'[i].files) ELSE quotes'[i].files = 0
      <4>1. CASE i \in 1..Len(quotes)
        BY <1>2, <4>1 DEF Held
      <4>2. CASE i \notin 1..Len(quotes)
        <5>1. Len(quotes) \in Nat /\ Len(quotes') \in Nat
          BY <1>0 DEF TypeOK
        <5>2. i \in (Len(quotes) + 1)..Len(quotes')
          BY <4>2, <5>1
        <5> QED BY <1>2, <4>2, <5>2
      <4> QED BY <4>1, <4>2
    <3>4. DOMAIN quotes' = 1..Len(quotes')
      BY <1>2
    <3> QED BY <1>4, <2>1, <3>1, <3>2, <3>3, <3>4
  <2>2. CASE v # w
    <3>1. v \in Active /\ req'[v] = req[v]
      BY <1>4, <2>2 DEF Active
    <3> QED BY <3>1, OthersHold
  <2> QED BY <2>1, <2>2
<1> QED BY <1>0, <1>2, <1>5, <1>6, FilesSame

\* An upload.
LEMMA WritesFiles ==
  ASSUME CVAssumption, IInv, IInv', FilesInv, NEW w \in Workers, w \in Active, NEW t,
         Commits(w, t), FileWrite(w, t)
  PROVE  FilesInv'
<1>0. TypeOK /\ TypeOK' /\ IsFiniteSet(Active)
  BY DEF IInv, TurnsInv
<1>1. PICK s \in Session : s = req[w]
  BY <1>0 DEF TypeOK
<1>2. /\ Shape(s, quotes) /\ Untouched(s) /\ quotes \in Seq(Quote)
      /\ s.qbase \in Seq(Quote) /\ s.q \in Seq(Quote) /\ DOMAIN s.qbase = DOMAIN s.q
      /\ DOMAIN s.q = 1..Len(s.q) /\ Len(s.q) \in Nat
      /\ \A i \in DOMAIN s.qbase : i \in 1..Len(quotes)
  BY <1>1, AtWork, SessionType
<1>3. /\ s.at \in DOMAIN s.q /\ t.qbase = s.qbase /\ t.new = <<>> /\ Len(t.q) = Len(s.q)
      /\ \A i \in DOMAIN s.q :
           t.q[i].files = IF i = s.at THEN s.q[i].files + 1 ELSE s.q[i].files
      /\ log'.files = log.files + 1
      /\ req' = [req EXCEPT ![w] = Idle]
  BY <1>1 DEF FileWrite
<1>4. PICK x \in DOMAIN s.q : x = s.at
  BY <1>3
<1>5. /\ Active' = Active \ {w} /\ \A v \in Active' : req'[v] = req[v]
  <2>1. req \in [Workers -> Session] /\ Idle \in Session /\ Idle.op = "idle"
    BY <1>0, IdleType DEF TypeOK
  <2>2. Active' = Active \ {w} /\ \A v \in Workers : v # w => req'[v] = req[v]
    BY <1>3, <2>1, OneRequest
  <2> QED BY <2>2 DEF Active
<1>6. /\ Spare \in Int /\ Spare' \in Int /\ Spare' >= Spare
      /\ Active' # {} => Spare' = Spare + 1
  <2>1. used'.overlaps = used.overlaps
    BY DEF Commits
  <2> QED BY <1>0, <1>5, <2>1, SpareFreed
<1>7. /\ t \in Session /\ Shape(t, quotes) /\ Write(t)
  BY DEF Commits, Sound, Shape
<1>8. /\ Len(quotes') = Len(quotes)
      /\ \A i \in 1..Len(quotes) :
           quotes'[i] = IF i <= Len(s.q) THEN Merge(quotes[i], s.qbase[i], t.q[i])
                        ELSE quotes[i]
  <2>1. Len(t.qbase) = Len(t.q) /\ Len(t.q) <= Len(quotes) /\ Len(t.new) = 0
    BY <1>3, <1>7 DEF Shape
  <2>2. /\ Len(quotes') = Len(quotes) + Len(t.new)
        /\ \A i \in 1..Len(quotes) :
             quotes'[i] = IF i <= Len(t.q) THEN Merge(quotes[i], t.qbase[i], t.q[i])
                          ELSE quotes[i]
    BY <1>2, <1>7, <2>1, MergedSeq
  <2>3. Len(quotes) \in Nat
    BY <1>2
  <2> QED BY <1>3, <2>1, <2>2, <2>3
<1>9. ASSUME NEW i \in DOMAIN s.q
      PROVE  /\ quotes'[i].files = IF t.q[i].files # s.qbase[i].files THEN t.q[i].files
                                   ELSE quotes[i].files
             /\ s.q[i].files = s.qbase[i].files /\ s.qbase[i].files \in 0..MaxFiles
  <2>1. /\ i \in 1..Len(quotes) /\ i <= Len(s.q) /\ quotes[i] \in Quote
        /\ s.qbase[i] \in Quote
    BY <1>2
  <2>2. t.q[i] \in Quote
    <3>1. t.q \in Seq(Quote)
      BY <1>7, SessionType
    <3> QED BY <1>2, <1>3, <3>1
  <2>3. Merge(quotes[i], s.qbase[i], t.q[i]).files
          = IF t.q[i].files # s.qbase[i].files THEN t.q[i].files ELSE quotes[i].files
    BY <2>1, <2>2, MergedQuote
  <2>4. s.q[i].files = s.qbase[i].files
    BY <1>2 DEF Untouched
  <2>5. s.qbase[i].files \in 0..MaxFiles
    BY <2>1 DEF Quote
  <2> QED BY <1>8, <2>1, <2>3, <2>4, <2>5
<1>10. quotes'[x].files = s.qbase[x].files + 1
  <2>1. PICK n \in Nat : n = s.qbase[x].files
    BY <1>9, CVAssumption
  <2>2. t.q[x].files = n + 1
    BY <1>3, <1>4, <1>9, <2>1
  <2>3. n + 1 # n
    OBVIOUS
  <2> QED BY <1>9, <2>1, <2>2, <2>3
<1>11. ASSUME NEW i \in 1..Len(quotes), i # x PROVE quotes'[i].files = quotes[i].files
  <2>1. CASE i \in DOMAIN s.q
    BY <1>3, <1>4, <1>9, <1>11, <2>1
  <2>2. CASE i \notin DOMAIN s.q
    <3>1. ~(i <= Len(s.q))
      BY <1>2, <2>2
    <3> QED BY <1>8, <3>1
  <2> QED BY <2>1, <2>2
<1>12. x \in 1..Len(quotes) /\ x \in DOMAIN s.qbase /\ s.qbase[x].files \in 0..MaxFiles
  BY <1>2, <1>9
<1>13. /\ x \in DOMAIN req[w].qbase /\ quotes'[x].files = req[w].qbase[x].files + 1
       /\ req[w].qbase[x].files \in 0..MaxFiles /\ log'.files = log.files + 1
       /\ Len(quotes') = Len(quotes)
  BY <1>1, <1>3, <1>8, <1>10, <1>12
<1> QED BY <1>0, <1>5, <1>6, <1>11, <1>12, <1>13, FilesWritten

\* At the start there is nothing to lose.
LEMMA InitFiles == ASSUME CVAssumption, Init PROVE FilesInv
<1>1. /\ quotes = <<>> /\ log.files = 0 /\ used.overlaps = 0 /\ Active = {}
  BY IdleType DEF Init, Active
<1>2. 1..Len(quotes) = {} /\ IsFiniteSet({})
  BY <1>1, FS_EmptySet
<1>3. ASSUME NEW g \in Tables PROVE Near(Sum(g, 1..Len(quotes)))
  <2>1. Ints(g, 1..Len(quotes))
    BY <1>2 DEF Ints
  <2>2. Sum(g, 1..Len(quotes)) = 0
    BY <1>2, <2>1, SumSplit
  <2> QED BY <1>1, <2>2 DEF Near, Spare
<1> QED BY <1>1, <1>3 DEF FilesInv

\* Every step keeps it.
LEMMA NextFiles ==
  ASSUME CVAssumption, IInv, IInv', FilesInv, [Next]_vars
  PROVE  FilesInv'
<1>1. CASE UNCHANGED vars
  <2>1. Active' = Active
    BY <1>1 DEF vars, Active
  <2> QED BY <1>1, <2>1 DEF vars, FilesInv, Tables, Held, Near, Spare
<1>2. CASE ReportIssue
  BY <1>2, ReportFiles
<1>3. ASSUME NEW w \in Workers, w \in Active, NEW t, Commits(w, t) PROVE FilesInv'
  <2>1. Untouched(req[w])
    BY <1>3, AtWork
  <2>2. (log'.files = log.files /\ Untouched(t)) \/ FileWrite(w, t)
    BY <1>3, <2>1 DEF Commits
  <2> QED BY <1>3, <2>2, CommitsFiles, WritesFiles
<1>4. ASSUME NEW w \in Workers, Kinds(w) PROVE FilesInv'
  BY <1>3, <1>4, BeginsFiles, DropsFiles, StaysFiles DEF Kinds
<1> QED BY <1>1, <1>2, <1>4, NextKinds DEF IInv

\* The table of sums that FilesKept is read from.
Rows(it) ==
  it = [s \in SUBSET (DOMAIN quotes) |->
          IF s = {} THEN 0 ELSE quotes[First(s)].files + it[s \ {First(s)}]]

\* The rows are one choice of versions.
LEMMA FilesHold ==
  ASSUME IInv, FilesInv
  PROVE  FilesKept
<1>0. TypeOK /\ IsFiniteSet(Active) /\ Len(quotes) \in Nat
  BY DEF IInv, TurnsInv, TypeOK
<1>1. PICK g : g = [i \in 1..Len(quotes) |-> quotes[i].files]
  OBVIOUS
<1>2. g \in Tables
  <2>1. \A i \in 1..Len(quotes) : quotes[i].files \in 0..MaxFiles
    <3>1. \A i \in 1..Len(quotes) : quotes[i] \in Quote
      BY <1>0 DEF TypeOK
    <3> QED BY <3>1 DEF Quote
  <2> QED BY <1>1, <2>1 DEF Tables, Held
<1>3. Near(Sum(g, 1..Len(quotes)))
  BY <1>2 DEF FilesInv
<1>5. Sum(g, 1..Len(quotes)) \in Int
  <2>1. IsFiniteSet(1..Len(quotes))
    BY <1>0, FS_Interval
  <2>2. g \in [1..Len(quotes) -> 0..MaxFiles] /\ MaxFiles \in Nat
    BY <1>2, CVAssumption DEF Tables
  <2>3. Ints(g, 1..Len(quotes))
    BY <2>2 DEF Ints
  <2> QED BY <2>1, <2>3, SumSplit
<1>6. MapThenSumSet(LAMBDA i : quotes[i].files, DOMAIN quotes) = Sum(g, 1..Len(quotes))
  <2>1. DOMAIN quotes = 1..Len(quotes)
    BY <1>0 DEF TypeOK
  <2>2. ASSUME NEW it PROVE Rows(it) <=> AllSums(g, 1..Len(quotes), it)
    <3> DEFINE S == 1..Len(quotes)
    <3>1. ASSUME NEW s \in SUBSET S, s # {} PROVE g[First(s)] = quotes[First(s)].files
      <4>1. First(s) \in S
        BY <3>1 DEF First
      <4> QED BY <1>1, <4>1
    <3>2. [s \in SUBSET S |-> IF s = {} THEN 0
                              ELSE quotes[First(s)].files + it[s \ {First(s)}]]
          = [s \in SUBSET S |-> IF s = {} THEN 0 ELSE g[First(s)] + it[s \ {First(s)}]]
      <4> HIDE DEF S
      <4> QED BY <3>1
    <3> QED BY <2>1, <3>2 DEF Rows, AllSums
  <2>3. (CHOOSE it : Rows(it)) = CHOOSE it : AllSums(g, 1..Len(quotes), it)
    BY <2>2, Zenon
  <2>4. MapThenSumSet(LAMBDA i : quotes[i].files, DOMAIN quotes)
          = (CHOOSE it : Rows(it))[DOMAIN quotes]
    BY DEF MapThenSumSet, MapThenFoldSet, Rows, First
  <2>5. Sum(g, 1..Len(quotes)) = (CHOOSE it : AllSums(g, 1..Len(quotes), it))[1..Len(quotes)]
    BY DEF Sum, MapThenSumSet, MapThenFoldSet, AllSums, First
  <2> QED BY <2>1, <2>3, <2>4, <2>5
<1>7. Spare \in Int /\ Spare <= used.overlaps
  <2>1. PICK k \in Nat : k = Cardinality(Active)
    BY <1>0, FS_CardinalityType
  <2>2. k = 0 => Active = {}
    BY <1>0, <2>1, FS_EmptySet
  <2>3. used.overlaps \in Nat
    BY <1>0 DEF TypeOK
  <2> QED BY <2>1, <2>2, <2>3 DEF Spare
<1>8. log.files \in Int /\ used.overlaps \in Nat
  BY <1>0 DEF TypeOK
<1> QED BY <1>3, <1>5, <1>6, <1>7, <1>8 DEF FilesKept, Near

\* Every file on a quote was uploaded, and none is lost without an overlap,
\* each of which costs one (upload_artwork).
THEOREM FilesAreKept == Spec => []FilesKept
<1>1. Init => FilesInv
  BY InitFiles, CVAssumption
<1>2. IInv /\ IInv' /\ FilesInv /\ [Next]_vars => FilesInv'
  BY NextFiles, CVAssumption
<1>3. IInv /\ FilesInv => FilesKept
  BY FilesHold
<1> QED BY <1>1, <1>2, <1>3, Invariance, PTL DEF Spec

-----------------------------------------------------------------------------
(***************************************************************************)
(* Pending quotes of one product.  Whichever sessions F at work commit     *)
(* next, what they leave pending on the rows and what they bring are       *)
(* together one quote, and one more for every "also" and every overlap.  A *)
(* session that brings one without "also" leaves nothing on the rows, so   *)
(* that what F brings is one quote for each of its members at most, and    *)
(* those wanted besides.                                                   *)
(***************************************************************************)
Left(F, p) ==
  {i \in 1..Len(quotes) : Live(quotes[i], p) /\ \A v \in F : i \notin Ended(req[v])}

Coming(F, p) ==
  {x \in F \X Nat : x[2] \in 1..Len(req[x[1]].new) /\ Live(req[x[1]].new[x[2]], p)}

Besides(F, p) == {x \in Coming(F, p) : req[x[1]].msg.adds = "also"}

AsOne(w) ==
  req[w].msg.adds # "also" =>
    \A p \in Products : \A j, k \in 1..Len(req[w].new) :
      Live(req[w].new[j], p) /\ Live(req[w].new[k], p) => j = k

Few(F, p) ==
  /\ IsFiniteSet(Left(F, p)) /\ IsFiniteSet(Coming(F, p))
  /\ Cardinality(Left(F, p)) + Cardinality(Coming(F, p)) <= 1 + log.adds + used.overlaps

Wanted(p) == Cardinality(Besides(Active, p)) <= log.adds

LiveInv ==
  /\ \A w \in Active : Named(req[w], quotes) /\ AsOne(w)
  /\ \A p \in Products : Wanted(p) /\ \A F \in SUBSET Active : Few(F, p)

\* A set is no larger than one it is mapped into one to one.
LEMMA OneToOne ==
  ASSUME NEW S, NEW T, IsFiniteSet(T), NEW f, f \in [S -> T],
         \A x, y \in S : f[x] = f[y] => x = y
  PROVE  IsFiniteSet(S) /\ Cardinality(S) <= Cardinality(T)
<1>1. f \in Injection(S, T)
  BY DEF Injection, IsInjective
<1> QED BY <1>1, FS_Injection

\* Fewer quotes, and no fewer overlaps.
LEMMA FewLess ==
  ASSUME TypeOK, TypeOK', NEW p, NEW F, NEW G, Few(G, p),
         Left(F, p)' \subseteq Left(G, p), Coming(F, p)' \subseteq Coming(G, p),
         log'.adds >= log.adds, used'.overlaps >= used.overlaps
  PROVE  Few(F, p)'
<1>1. PICK A, B, C, D :
        A = Left(G, p) /\ B = Coming(G, p) /\ C = Left(F, p)' /\ D = Coming(F, p)'
  OBVIOUS
<1>2. PICK m, n : m = Cardinality(A) /\ n = Cardinality(B)
  OBVIOUS
<1>3. IsFiniteSet(A) /\ IsFiniteSet(B) /\ m + n <= 1 + log.adds + used.overlaps
  BY <1>1, <1>2 DEF Few
<1>4. IsFiniteSet(C) /\ IsFiniteSet(D) /\ Cardinality(C) <= m /\ Cardinality(D) <= n
  BY <1>1, <1>2, <1>3, FS_Subset
<1>5. m \in Nat /\ n \in Nat /\ Cardinality(C) \in Nat /\ Cardinality(D) \in Nat
  BY <1>2, <1>3, <1>4, FS_CardinalityType
<1>6. /\ log.adds \in Nat /\ used.overlaps \in Nat
      /\ log'.adds \in Nat /\ used'.overlaps \in Nat
  BY DEF TypeOK
<1>7. Cardinality(C) + Cardinality(D) <= 1 + log'.adds + used'.overlaps
  BY <1>3, <1>4, <1>5, <1>6
<1> QED BY <1>1, <1>4, <1>7 DEF Few

\* Those wanted besides are counted by the log.
LEMMA WantedLess ==
  ASSUME TypeOK, TypeOK', NEW p, Wanted(p), IsFiniteSet(Coming(Active, p)),
         Besides(Active, p)' \subseteq Besides(Active, p), log'.adds >= log.adds
  PROVE  Wanted(p)'
<1>1. PICK A, C : A = Besides(Active, p) /\ C = Besides(Active, p)'
  OBVIOUS
<1>2. IsFiniteSet(A)
  BY <1>1, FS_Subset DEF Besides
<1>3. Cardinality(C) <= Cardinality(A) /\ IsFiniteSet(C)
  BY <1>1, <1>2, FS_Subset
<1>4. Cardinality(C) \in Nat /\ Cardinality(A) \in Nat
  BY <1>2, <1>3, FS_CardinalityType
<1>5. log.adds \in Nat /\ log'.adds \in Nat
  BY DEF TypeOK
<1>6. Cardinality(A) <= log.adds
  BY <1>1 DEF Wanted
<1>7. Cardinality(C) <= log'.adds
  BY <1>3, <1>4, <1>5, <1>6
<1> QED BY <1>1, <1>7 DEF Wanted

\* A product's quotes with one more.
LEMMA OneMore ==
  ASSUME NEW B, IsFiniteSet(B), NEW D, NEW e, D \subseteq B \cup {e}
  PROVE  /\ IsFiniteSet(D) /\ Cardinality(D) \in Nat /\ Cardinality(B) \in Nat
         /\ Cardinality(D) <= Cardinality(B) + 1
<1>1. /\ IsFiniteSet(B \cup {e})
      /\ Cardinality(B \cup {e}) = IF e \in B THEN Cardinality(B) ELSE Cardinality(B) + 1
  BY FS_AddElement
<1>2. IsFiniteSet(D) /\ Cardinality(D) <= Cardinality(B \cup {e})
  BY <1>1, FS_Subset
<1>3. Cardinality(D) \in Nat /\ Cardinality(B) \in Nat
  BY <1>2, FS_CardinalityType
<1> QED BY <1>1, <1>2, <1>3

\* The sessions that are not written by a step.
LEMMA OthersLive ==
  ASSUME LiveInv, NEW v \in Active, req'[v] = req[v], quotes' = quotes
  PROVE  Named(req[v], quotes)' /\ AsOne(v)'
BY DEF LiveInv, Named, AsOne

\* Nothing changes but that sessions are gone.
LEMMA SameLive ==
  ASSUME TypeOK, TypeOK', LiveInv, quotes' = quotes,
         \A v \in Active' : v \in Active /\ req'[v] = req[v],
         log'.adds = log.adds, used'.overlaps >= used.overlaps
  PROVE  LiveInv'
<1>1. \A v \in Active' : Named(req[v], quotes)' /\ AsOne(v)'
  BY OthersLive
<1>2. log'.adds >= log.adds
  BY DEF TypeOK
<1>3. ASSUME NEW p, NEW F \in SUBSET (Active')
      PROVE  Left(F, p)' \subseteq Left(F, p) /\ Coming(F, p)' \subseteq Coming(F, p)
  <2>1. \A v \in F : req'[v] = req[v]
    OBVIOUS
  <2> QED BY <2>1 DEF Left, Coming, Ended
<1>4. ASSUME NEW p \in Products, NEW F \in SUBSET (Active') PROVE Few(F, p)'
  <2>1. Few(F, p)
    BY DEF LiveInv
  <2> QED BY <1>2, <1>3, <2>1, FewLess
<1>5. ASSUME NEW p \in Products PROVE Wanted(p)'
  <2>1. Wanted(p) /\ IsFiniteSet(Coming(Active, p))
    BY DEF LiveInv, Few
  <2>2. Besides(Active, p)' \subseteq Besides(Active, p)
    BY DEF Besides, Coming
  <2> QED BY <1>2, <2>1, <2>2, WantedLess
<1> QED BY <1>1, <1>4, <1>5 DEF LiveInv

\* A request that begins has changed nothing and brings nothing.
LEMMA BeginsLive ==
  ASSUME CVAssumption, IInv, IInv', LiveInv, NEW w \in Workers, NEW s, Begins(w, s)
  PROVE  LiveInv'
<1>0. TypeOK /\ TypeOK'
  BY DEF IInv
<1>1. /\ w \notin Active /\ s \in Session /\ s.op # "idle"
      /\ req' = [req EXCEPT ![w] = s] /\ quotes' = quotes /\ log' = log
      /\ used'.overlaps = IF Active # {} THEN used.overlaps + 1 ELSE used.overlaps
      /\ s.q = s.qbase /\ s.new = <<>> /\ (s.qbase = quotes \/ s.qbase = <<>>)
  BY DEF Begins, Sound, Shape
<1>2. /\ req'[w] = s /\ Active' = Active \cup {w}
      /\ \A v \in Workers : v # w => req'[v] = req[v]
  <2>1. req \in [Workers -> Session]
    BY <1>0 DEF TypeOK
  <2> QED BY <1>1, <2>1, OneRequest
<1>3. \A v \in Active : v \in Workers /\ v # w /\ req'[v] = req[v]
  BY <1>1, <1>2 DEF Active
<1>4. Named(s, quotes) /\ Ended(s) = {} /\ Len(s.new) = 0
  <2>1. DOMAIN <<>> = {} /\ Len(<<>>) = 0
    OBVIOUS
  <2> QED BY <1>1, <2>1 DEF Named, Ended
<1>5. ASSUME NEW v \in Active' PROVE Named(req[v], quotes)' /\ AsOne(v)'
  <2>1. CASE v = w
    <3>1. \A j : j \notin 1..0
      OBVIOUS
    <3> QED BY <1>1, <1>2, <1>4, <2>1, <3>1 DEF AsOne, Named
  <2>2. CASE v # w
    BY <1>1, <1>2, <1>3, <2>2, OthersLive
  <2> QED BY <2>1, <2>2
<1>6. ASSUME NEW p, NEW F, F \subseteq Active \cup {w}
      PROVE  /\ Left(F, p)' \subseteq Left(F \ {w}, p)
             /\ Coming(F, p)' \subseteq Coming(F \ {w}, p)
  <2>1. \A v \in F \ {w} : req'[v] = req[v]
    BY <1>3, <1>6
  <2>2. Left(F, p)' \subseteq Left(F \ {w}, p)
    BY <1>1, <2>1 DEF Left, Ended
  <2>3. ASSUME NEW x \in Coming(F, p)' PROVE x \in Coming(F \ {w}, p)
    <3>1. /\ x \in F \X Nat /\ x[1] \in F /\ x[2] \in 1..Len(req'[x[1]].new)
          /\ Live(req'[x[1]].new[x[2]], p)
      BY DEF Coming, Live
    <3>2. x[1] # w
      BY <1>2, <1>4, <3>1
    <3>3. x \in (F \ {w}) \X Nat
      BY <3>1, <3>2
    <3> QED BY <2>1, <3>1, <3>2, <3>3 DEF Coming
  <2> QED BY <2>2, <2>3
<1>7. used'.overlaps >= used.overlaps /\ log'.adds >= log.adds
  BY <1>0, <1>1 DEF TypeOK
<1>8. ASSUME NEW p \in Products, NEW F \in SUBSET (Active') PROVE Few(F, p)'
  <2>1. Few(F \ {w}, p)
    BY <1>2 DEF LiveInv
  <2> QED BY <1>0, <1>2, <1>6, <1>7, <2>1, FewLess
<1>9. ASSUME NEW p \in Products PROVE Wanted(p)'
  <2>1. Wanted(p) /\ IsFiniteSet(Coming(Active, p))
    BY DEF LiveInv, Few
  <2>2. Coming(Active, p)' \subseteq Coming(Active, p)
    <3>1. (Active \cup {w}) \ {w} = Active
      BY <1>1
    <3>2. \A F : F \subseteq Active \cup {w} => Coming(F, p)' \subseteq Coming(F \ {w}, p)
      BY <1>6
    <3> QED BY <1>2, <3>1, <3>2
  <2>3. Besides(Active, p)' \subseteq Besides(Active, p)
    <3>1. \A x \in Coming(Active, p) : x[1] \in Active
      BY DEF Coming
    <3> QED BY <1>3, <2>2, <3>1 DEF Besides
  <2> QED BY <1>0, <1>7, <2>1, <2>3, WantedLess
<1> QED BY <1>5, <1>8, <1>9 DEF LiveInv

\* A session dropped takes with it what it did and would have brought.
LEMMA DropsLive ==
  ASSUME CVAssumption, IInv, IInv', LiveInv, NEW w \in Workers, w \in Active, Drops(w)
  PROVE  LiveInv'
<1>0. TypeOK /\ TypeOK'
  BY DEF IInv
<1>1. /\ req' = [req EXCEPT ![w] = Idle] /\ Idle \in Session /\ Idle.op = "idle"
      /\ quotes' = quotes /\ log' = log /\ used'.overlaps = used.overlaps
  BY IdleType DEF Drops
<1>2. /\ Active' = Active \ {w}
      /\ \A v \in Workers : v # w => req'[v] = req[v]
  <2>1. req \in [Workers -> Session]
    BY <1>0 DEF TypeOK
  <2> QED BY <1>1, <2>1, OneRequest
<1>3. \A v \in Active' : v \in Active /\ req'[v] = req[v]
  BY <1>2 DEF Active
<1>4. log'.adds = log.adds /\ used'.overlaps >= used.overlaps
  BY <1>0, <1>1 DEF TypeOK
<1> QED BY <1>0, <1>1, <1>3, <1>4, SameLive

\* The issue report leaves the quotes alone.
LEMMA ReportLive ==
  ASSUME IInv, IInv', LiveInv, ReportIssue
  PROVE  LiveInv'
<1>0. TypeOK /\ TypeOK'
  BY DEF IInv
<1>1. /\ quotes' = quotes /\ req' = req /\ log'.adds = log.adds /\ Active' = Active
      /\ used'.overlaps >= used.overlaps
  <2>1. used'.overlaps = IF Active # {} THEN used.overlaps + 1 ELSE used.overlaps
    BY <1>0, ReportDoes
  <2>2. used.overlaps \in Nat
    BY <1>0 DEF TypeOK
  <2>3. used'.overlaps >= used.overlaps
    BY <2>1, <2>2
  <2> QED BY <1>0, <2>3, ReportDoes DEF Active, ReportIssue, TypeOK
<1>2. log'.adds >= log.adds
  BY <1>0, <1>1 DEF TypeOK
<1> QED BY <1>0, <1>1, <1>2, SameLive

\* What a step within a session adds to what the session brings.
LEMMA StaysBrings ==
  ASSUME IInv, IInv', LiveInv, NEW w \in Workers, req[w].op = "turn", NEW t, Stays(w, t)
  PROVE  /\ w \in Active /\ Active' = Active /\ req'[w] = t /\ t \in Session
         /\ \A v \in Workers : v # w => req'[v] = req[v]
         /\ t.msg = req[w].msg /\ Follows(req[w], t)
         /\ Len(req[w].new) \in Nat /\ log'.adds >= log.adds
         /\ \/ Len(t.new) = Len(req[w].new)
            \/ Adds(w, t)
<1>0. TypeOK /\ TypeOK' /\ w \in Active /\ Ready(w) /\ quotes \in Seq(Quote)
  BY DEF IInv, Active, TypeOK, SessionsInv
<1>1. /\ req[w] \in Session /\ Shape(req[w], quotes) /\ Sound(req[w], conv, quotes)
  BY <1>0 DEF Ready, Sound, Shape
<1>2. PICK s \in Session : s = Load(req[w]) /\ Sound(s, conv, quotes) /\ s.op = "turn"
  BY <1>0, <1>1, Standing DEF IInv
<1>3. Change(s, t) /\ t \in Session /\ t.op = "turn"
  BY <1>2 DEF Stays, Change
<1>4. Follows(req[w], t)
  <2>1. Follows(req[w], s)
    BY <1>0, <1>1, <1>2, FollowsLoad
  <2>2. Follows(s, t)
    BY <1>2, <1>3, FollowsChange DEF Sound
  <2> QED BY <1>1, <1>3, <2>1, <2>2, FollowsTwice
<1>5. /\ req'[w] = t /\ Active' = Active
      /\ \A v \in Workers : v # w => req'[v] = req[v]
  <2>1. req \in [Workers -> Session] /\ t.op # "idle" /\ req' = [req EXCEPT ![w] = t]
    BY <1>0, <1>3 DEF TypeOK, Stays
  <2>2. Active \cup {w} = Active
    BY <1>0
  <2>3. /\ req'[w] = t /\ Active' = Active \cup {w}
        /\ \A v \in Workers : v # w => req'[v] = req[v]
    BY <1>3, <2>1, OneRequest
  <2> QED BY <2>2, <2>3
<1>6. Len(req[w].new) \in Nat
  <2>1. req[w].new \in Seq(Quote)
    BY <1>1, SessionType
  <2> QED BY <2>1
<1>7. log'.adds >= log.adds
  BY <1>0 DEF Stays, Adds, TypeOK
<1>8. t.msg = req[w].msg /\ (Len(t.new) = Len(req[w].new) \/ Adds(w, t))
  BY DEF Stays
<1> QED BY <1>0, <1>3, <1>4, <1>5, <1>6, <1>7, <1>8

\* A step within a session leaves it one quote of each product at most, but
\* for those wanted besides.
LEMMA StaysAsOne ==
  ASSUME IInv, IInv', LiveInv, NEW w \in Workers, req[w].op = "turn", NEW t, Stays(w, t)
  PROVE  \A v \in Active : Named(req[v], quotes)' /\ AsOne(v)'
<1>1. /\ w \in Active /\ req'[w] = t
      /\ \A v \in Workers : v # w => req'[v] = req[v]
      /\ t.msg = req[w].msg /\ Follows(req[w], t) /\ Len(req[w].new) \in Nat
      /\ Len(t.new) = Len(req[w].new) \/ Adds(w, t)
  BY StaysBrings
<1>2. quotes' = quotes /\ Named(req[w], quotes) /\ AsOne(w)
  BY <1>1 DEF Stays, LiveInv
<1>3. Named(t, quotes)
  BY <1>1, <1>2 DEF Follows
<1>4. PICK n \in Nat : n = Len(req[w].new)
  BY <1>1
<1>5. ASSUME t.msg.adds # "also", NEW p \in Products,
             NEW j \in 1..Len(t.new), NEW k \in 1..Len(t.new),
             Live(t.new[j], p), Live(t.new[k], p)
      PROVE  j = k
  <2>1. CASE j \in 1..n /\ k \in 1..n
    <3>1. Live(req[w].new[j], p) /\ Live(req[w].new[k], p)
      BY <1>1, <1>4, <1>5, <2>1 DEF Follows
    <3> QED BY <1>1, <1>2, <1>4, <1>5, <2>1, <3>1 DEF AsOne
  <2>2. CASE ~(j \in 1..n /\ k \in 1..n)
    <3>1. Adds(w, t) /\ Len(t.new) = n + 1
      BY <1>1, <1>4, <2>2 DEF Adds
    <3>2. Live(t.new[n + 1], p) => \A i \in 1..n : ~Live(t.new[i], p)
      BY <1>1, <1>2, <1>4, <1>5, <3>1 DEF Adds
    <3>3. j \in 1..n \/ j = n + 1
      BY <3>1
    <3>4. k \in 1..n \/ k = n + 1
      BY <3>1
    <3> QED BY <1>5, <2>2, <3>2, <3>3, <3>4
  <2> QED BY <2>1, <2>2
<1>6. AsOne(w)'
  BY <1>1, <1>5 DEF AsOne
<1>7. Named(req[w], quotes)'
  BY <1>1, <1>2, <1>3 DEF Named
<1>8. \A v \in Active : v \in Workers
  BY DEF Active
<1> QED BY <1>1, <1>2, <1>6, <1>7, <1>8, OthersLive

\* What any sessions bring after the step: what they did, and perhaps the
\* quote w just added.
LEMMA StaysComing ==
  ASSUME IInv, IInv', LiveInv, NEW w \in Workers, req[w].op = "turn", NEW t, Stays(w, t),
         NEW p \in Products, NEW F \in SUBSET Active
  PROVE  /\ Left(F, p)' \subseteq Left(F, p)
         /\ Coming(F, p)' \subseteq Coming(F, p) \cup {<<w, Len(t.new)>>}
         /\ ~(w \in F /\ Adds(w, t) /\ Live(t.new[Len(t.new)], p)) =>
              Coming(F, p)' \subseteq Coming(F, p)
<1>1. /\ w \in Active /\ req'[w] = t
      /\ \A v \in Workers : v # w => req'[v] = req[v]
      /\ Follows(req[w], t) /\ Len(req[w].new) \in Nat
      /\ Len(t.new) = Len(req[w].new) \/ Adds(w, t)
  BY StaysBrings
<1>2. quotes' = quotes /\ \A v \in F : v \in Workers
  BY DEF Stays, Active
<1>3. Left(F, p)' \subseteq Left(F, p)
  <2>1. \A v \in F : Ended(req[v]) \subseteq Ended(req'[v])
    BY <1>1, <1>2 DEF Follows
  <2>2. ASSUME NEW i \in Left(F, p)' PROVE i \in Left(F, p)
    <3>1. /\ i \in 1..Len(quotes) /\ Live(quotes[i], p)
          /\ \A v \in F : i \notin Ended(req'[v])
      BY <1>2 DEF Left, Live, Ended
    <3> QED BY <2>1, <3>1 DEF Left
  <2> QED BY <2>2
<1>4. ASSUME NEW x \in Coming(F, p)', x \notin Coming(F, p)
      PROVE  /\ x = <<w, Len(t.new)>> /\ w \in F /\ Adds(w, t)
             /\ Live(t.new[Len(t.new)], p)
  <2>1. /\ x \in F \X Nat /\ x[2] \in 1..Len(req'[x[1]].new)
        /\ Live(req'[x[1]].new[x[2]], p)
    BY DEF Coming, Live
  <2>2. PICK v \in F, j \in Nat : x = <<v, j>>
    BY <2>1
  <2>3. j \in 1..Len(req'[v].new) /\ Live(req'[v].new[j], p)
    BY <2>1, <2>2
  <2>4. ~(j \in 1..Len(req[v].new) /\ Live(req[v].new[j], p))
    BY <1>4, <2>1, <2>2 DEF Coming
  <2>5. v = w
    BY <1>1, <1>2, <2>3, <2>4
  <2>6. j \notin 1..Len(req[w].new)
    BY <1>1, <2>3, <2>4, <2>5 DEF Follows
  <2>7. Adds(w, t) /\ j = Len(t.new)
    BY <1>1, <2>3, <2>5, <2>6 DEF Adds
  <2> QED BY <1>1, <2>2, <2>3, <2>5, <2>7
<1> QED BY <1>3, <1>4

\* A quote wanted besides the others is counted.
LEMMA StaysWanted ==
  ASSUME IInv, IInv', LiveInv, NEW w \in Workers, req[w].op = "turn", NEW t, Stays(w, t),
         NEW p \in Products
  PROVE  Wanted(p)'
<1>0. TypeOK /\ TypeOK' /\ Wanted(p) /\ IsFiniteSet(Coming(Active, p))
  BY DEF IInv, LiveInv, Few
<1>1. /\ w \in Active /\ Active' = Active /\ req'[w] = t /\ t.msg = req[w].msg
      /\ \A v \in Workers : v # w => req'[v] = req[v]
      /\ log'.adds >= log.adds
  BY StaysBrings
<1>2. \A v \in Active : req'[v].msg = req[v].msg
  BY <1>1 DEF Active
<1>3. /\ Coming(Active, p)' \subseteq Coming(Active, p) \cup {<<w, Len(t.new)>>}
      /\ ~(Adds(w, t) /\ Live(t.new[Len(t.new)], p)) =>
           Coming(Active, p)' \subseteq Coming(Active, p)
  <2>1. \A F \in SUBSET Active :
          /\ Coming(F, p)' \subseteq Coming(F, p) \cup {<<w, Len(t.new)>>}
          /\ ~(w \in F /\ Adds(w, t) /\ Live(t.new[Len(t.new)], p)) =>
               Coming(F, p)' \subseteq Coming(F, p)
    BY StaysComing
  <2> QED BY <1>1, <2>1
<1>4. \A x \in Coming(Active, p)' : x[1] \in Active
  BY <1>1 DEF Coming
<1>5. CASE Besides(Active, p)' \subseteq Besides(Active, p)
  BY <1>0, <1>1, <1>5, WantedLess
<1>6. CASE ~(Besides(Active, p)' \subseteq Besides(Active, p))
  <2>1. PICK x \in Besides(Active, p)' : x \notin Besides(Active, p)
    BY <1>6
  <2>2. x \in Coming(Active, p)' /\ req'[x[1]].msg.adds = "also"
    BY <2>1 DEF Besides
  <2>3. x \notin Coming(Active, p)
    BY <1>2, <1>4, <2>1, <2>2 DEF Besides
  <2>4. x = <<w, Len(t.new)>> /\ Adds(w, t)
    BY <1>3, <2>2, <2>3
  <2>5. req[w].msg.adds = "also"
    BY <1>1, <2>2, <2>4
  <2>6. log'.adds = log.adds + 1
    BY <2>4, <2>5 DEF Adds
  <2>7. PICK B, D : B = Besides(Active, p) /\ D = Besides(Active, p)'
    OBVIOUS
  <2>8. D \subseteq B \cup {<<w, Len(t.new)>>}
    BY <1>2, <1>3, <1>4, <2>7 DEF Besides
  <2>9. IsFiniteSet(B)
    BY <1>0, <2>7, FS_Subset DEF Besides
  <2>10. Cardinality(D) <= Cardinality(B) + 1 /\ Cardinality(D) \in Nat /\ Cardinality(B) \in Nat
    BY <2>8, <2>9, OneMore
  <2>11. Cardinality(B) <= log.adds /\ log.adds \in Nat
    BY <1>0, <2>7 DEF Wanted, TypeOK
  <2>12. Cardinality(D) <= log'.adds
    BY <2>6, <2>10, <2>11
  <2> QED BY <2>7, <2>12 DEF Wanted
<1> QED BY <1>5, <1>6

\* Pairs with one second part to each first, besides those of a set B.
LEMMA PairsCounted ==
  ASSUME NEW K, IsFiniteSet(K), NEW B, IsFiniteSet(B), NEW D,
         \A x \in D : x \in K \X Nat,
         \A x, y \in D : x \notin B /\ y \notin B /\ x[1] = y[1] => x = y
  PROVE  IsFiniteSet(D) /\ Cardinality(D) <= Cardinality(B) + Cardinality(K)
<1>1. PICK R : R = D \ B
  OBVIOUS
<1>2. IsFiniteSet(R) /\ Cardinality(R) <= Cardinality(K)
  <2>1. PICK f : f = [x \in R |-> x[1]]
    OBVIOUS
  <2>2. f \in [R -> K] /\ \A x, y \in R : f[x] = f[y] => x = y
    BY <1>1, <2>1
  <2> QED BY <2>2, OneToOne
<1>3. /\ IsFiniteSet(B \cup R)
      /\ Cardinality(B \cup R) = Cardinality(B) + Cardinality(R) - Cardinality(B \cap R)
  BY <1>2, FS_Union
<1>4. IsFiniteSet(B \cap R) /\ IsFiniteSet(D) /\ Cardinality(D) <= Cardinality(B \cup R)
  <2>1. D \subseteq B \cup R
    BY <1>1
  <2> QED BY <1>3, <2>1, FS_Subset
<1>5. /\ Cardinality(B) \in Nat /\ Cardinality(R) \in Nat /\ Cardinality(B \cap R) \in Nat
      /\ Cardinality(K) \in Nat /\ Cardinality(D) \in Nat
  BY <1>2, <1>4, FS_CardinalityType
<1> QED BY <1>2, <1>3, <1>4, <1>5

\* A step within a session keeps the quotes few.
LEMMA StaysFew ==
  ASSUME IInv, IInv', LiveInv, NEW w \in Workers, req[w].op = "turn", NEW t, Stays(w, t),
         NEW p \in Products, NEW F \in SUBSET Active
  PROVE  Few(F, p)'
<1>0. TypeOK /\ TypeOK' /\ Few(F, p) /\ IsFiniteSet(Coming(Active, p))
  BY DEF IInv, LiveInv, Few
<1>1. /\ w \in Active /\ Active' = Active /\ req'[w] = t /\ t.msg = req[w].msg
      /\ log'.adds >= log.adds
  BY StaysBrings
<1>2. used' = used /\ quotes' = quotes
  BY DEF Stays
<1>3. /\ Left(F, p)' \subseteq Left(F, p)
      /\ Coming(F, p)' \subseteq Coming(F, p) \cup {<<w, Len(t.new)>>}
      /\ ~(w \in F /\ Adds(w, t) /\ Live(t.new[Len(t.new)], p)) =>
           Coming(F, p)' \subseteq Coming(F, p)
  BY StaysComing
<1>4. PICK o \in Nat : o = used.overlaps /\ o = used'.overlaps
  BY <1>0, <1>2 DEF TypeOK
<1>5. CASE Coming(F, p)' \subseteq Coming(F, p)
  BY <1>0, <1>1, <1>3, <1>4, <1>5, FewLess
<1>6. CASE w \in F /\ Adds(w, t) /\ Live(t.new[Len(t.new)], p) /\ req[w].msg.adds = "also"
  <2>1. PICK A, B, C, D :
          A = Left(F, p) /\ B = Coming(F, p) /\ C = Left(F, p)' /\ D = Coming(F, p)'
    OBVIOUS
  <2>2. /\ IsFiniteSet(A) /\ IsFiniteSet(B)
        /\ Cardinality(A) + Cardinality(B) <= 1 + log.adds + o
    BY <1>0, <1>4, <2>1 DEF Few
  <2>3. IsFiniteSet(C) /\ Cardinality(C) <= Cardinality(A)
    BY <1>3, <2>1, <2>2, FS_Subset
  <2>4. /\ IsFiniteSet(D) /\ Cardinality(D) <= Cardinality(B) + 1
        /\ Cardinality(D) \in Nat /\ Cardinality(B) \in Nat
    BY <1>3, <2>1, <2>2, OneMore
  <2>5. Cardinality(A) \in Nat /\ Cardinality(C) \in Nat
    BY <2>2, <2>3, FS_CardinalityType
  <2>6. log'.adds = log.adds + 1 /\ log.adds \in Nat
    BY <1>0, <1>6 DEF Adds, TypeOK
  <2>7. Cardinality(C) + Cardinality(D) <= 1 + log'.adds + o
    BY <2>2, <2>3, <2>4, <2>5, <2>6
  <2> QED BY <1>4, <2>1, <2>3, <2>4, <2>7 DEF Few
<1>7. CASE w \in F /\ Adds(w, t) /\ Live(t.new[Len(t.new)], p) /\ req[w].msg.adds # "also"
  <2>1. Left(F, p)' = {}
    <3>1. Named(req[w], quotes)
      BY <1>1 DEF LiveInv
    <3>2. \A i \in DOMAIN quotes : Live(quotes[i], p) => i \in Ended(t)
      BY <1>7, <3>1 DEF Adds
    <3>3. DOMAIN quotes = 1..Len(quotes)
      BY <1>0 DEF TypeOK
    <3>4. ASSUME NEW i \in Left(F, p)' PROVE FALSE
      <4>1. /\ i \in 1..Len(quotes) /\ Live(quotes[i], p)
            /\ \A v \in F : i \notin Ended(req'[v])
        BY <1>2 DEF Left, Live, Ended
      <4> QED BY <1>1, <1>7, <3>2, <3>3, <4>1
    <3> QED BY <3>4
  <2>2. PICK B, D : B = Besides(Active, p)' /\ D = Coming(F, p)'
    OBVIOUS
  <2>9. IsFiniteSet(B) /\ Cardinality(B) <= log'.adds
    <3>1. \A G \in SUBSET Active :
            Coming(G, p)' \subseteq Coming(G, p) \cup {<<w, Len(t.new)>>}
      BY StaysComing
    <3>2. Coming(Active, p)' \subseteq Coming(Active, p) \cup {<<w, Len(t.new)>>}
      BY <1>1, <3>1
    <3>3. B \subseteq Coming(Active, p) \cup {<<w, Len(t.new)>>}
      BY <2>2, <3>2 DEF Besides
    <3> QED BY <1>0, <2>2, <3>3, OneMore, StaysWanted DEF Wanted
  <2>10. \A x \in D : x \in Active \X Nat
    BY <2>2 DEF Coming
  <2>11. ASSUME NEW x \in D, NEW y \in D, x \notin B, y \notin B, x[1] = y[1]
         PROVE  x = y
    <3>1. PICK v \in Active, j \in Nat, k \in Nat : x = <<v, j>> /\ y = <<v, k>>
      BY <2>10, <2>11
    <3>2. /\ j \in 1..Len(req'[v].new) /\ Live(req'[v].new[j], p)
          /\ k \in 1..Len(req'[v].new) /\ Live(req'[v].new[k], p)
      BY <2>2, <3>1 DEF Coming, Live
    <3>3. x \in Coming(Active, p)'
      BY <1>1, <2>2, <3>1 DEF Coming
    <3>4. req'[v].msg.adds # "also"
      BY <2>2, <2>11, <3>1, <3>3 DEF Besides
    <3>5. AsOne(v)'
      BY StaysAsOne
    <3> QED BY <3>1, <3>2, <3>4, <3>5 DEF AsOne, Live
  <2>3. Cardinality(Active) \in Nat /\ Cardinality(Active) <= o + 1
    <3>1. PICK k \in Nat : k = Cardinality(Active)
      BY FS_CardinalityType DEF IInv, TurnsInv
    <3>2. PICK n \in Nat, l \in Nat : n = conv.said.n /\ l = log.turns
      BY <1>0 DEF TypeOK, Conv, Said
    <3>3. n <= l /\ l - n + k - 1 <= o
      BY <1>1, <1>4, <3>1, <3>2 DEF IInv, TurnsInv, TurnsKept
    <3> QED BY <3>1, <3>3
  <2>4. IsFiniteSet({}) /\ Cardinality({}) = 0
    BY FS_EmptySet
  <2>5. IsFiniteSet(D) /\ Cardinality(D) <= Cardinality(B) + Cardinality(Active)
    <3>1. IsFiniteSet(Active)
      BY DEF IInv, TurnsInv
    <3> QED BY <2>9, <2>10, <2>11, <3>1, PairsCounted
  <2>6. Cardinality(D) \in Nat /\ Cardinality(B) \in Nat /\ log'.adds \in Nat
    BY <1>0, <2>5, <2>9, FS_CardinalityType DEF TypeOK
  <2>7. 0 + Cardinality(D) <= 1 + log'.adds + o
    BY <2>3, <2>5, <2>6, <2>9
  <2> QED BY <1>4, <2>1, <2>2, <2>4, <2>5, <2>7 DEF Few
<1> QED BY <1>3, <1>5, <1>6, <1>7

\* A step within a session.
LEMMA StaysLive ==
  ASSUME IInv, IInv', LiveInv, NEW w \in Workers, req[w].op = "turn", NEW t, Stays(w, t)
  PROVE  LiveInv'
<1>1. Active' = Active
  BY StaysBrings
<1>2. \A v \in Active : Named(req[v], quotes)' /\ AsOne(v)'
  BY StaysAsOne
<1>3. \A p \in Products : Wanted(p)' /\ \A F \in SUBSET Active : Few(F, p)'
  BY StaysWanted, StaysFew
<1> QED BY <1>1, <1>2, <1>3 DEF LiveInv

\* A commit takes from the rows what the session ended, and adds what it
\* brings; no row changes its product.
LEMMA CommitsRows ==
  ASSUME TypeOK, NEW t, Sound(t, conv, quotes), Named(t, quotes), Write(t)
  PROVE  /\ quotes' \in Seq(Quote) /\ Len(quotes') = Len(quotes) + Len(t.new)
         /\ \A i \in 1..Len(quotes) :
              /\ quotes'[i].product = quotes[i].product
              /\ quotes'[i].status = "pending" =>
                   quotes[i].status = "pending" /\ i \notin Ended(t)
         /\ \A j \in 1..Len(t.new) : quotes'[Len(quotes) + j] = t.new[j]
<1>0. /\ t \in Session /\ quotes \in Seq(Quote) /\ Len(t.qbase) = Len(t.q)
      /\ Len(t.q) <= Len(quotes)
  BY DEF TypeOK, Sound, Shape
<1>1. /\ t.q \in Seq(Quote) /\ t.qbase \in Seq(Quote)
      /\ DOMAIN t.q = 1..Len(t.q) /\ Len(t.q) \in Nat
  BY <1>0, SessionType
<1>2. /\ quotes' \in Seq(Quote) /\ Len(quotes') = Len(quotes) + Len(t.new)
      /\ \A i \in 1..Len(quotes) :
           quotes'[i] = IF i <= Len(t.q) THEN Merge(quotes[i], t.qbase[i], t.q[i])
                        ELSE quotes[i]
      /\ \A j \in 1..Len(t.new) : quotes'[Len(quotes) + j] = t.new[j]
  BY <1>0, MergedSeq
<1>3. ASSUME NEW i \in 1..Len(quotes)
      PROVE  /\ quotes'[i].product = quotes[i].product
             /\ quotes'[i].status = "pending" =>
                  quotes[i].status = "pending" /\ i \notin Ended(t)
  <2>1. CASE i <= Len(t.q)
    <3>1. /\ i \in DOMAIN t.q /\ quotes[i] \in Quote /\ t.q[i] \in Quote
          /\ t.qbase[i] \in Quote
      BY <1>0, <1>1, <2>1
    <3>2. PICK m : m = Merge(quotes[i], t.qbase[i], t.q[i])
      OBVIOUS
    <3>3. /\ m.product = IF t.q[i].product # t.qbase[i].product THEN t.q[i].product
                         ELSE quotes[i].product
          /\ m.status = IF t.q[i].status # t.qbase[i].status THEN t.q[i].status
                        ELSE quotes[i].status
      BY <3>1, <3>2, MergedQuote
    <3>4. t.q[i].status # t.qbase[i].status => t.q[i].status # "pending"
      BY <3>1 DEF Sound, Deals
    <3> QED BY <1>2, <2>1, <3>1, <3>2, <3>3, <3>4 DEF Named, Ended
  <2>2. CASE ~(i <= Len(t.q))
    <3>1. i \notin DOMAIN t.q
      BY <1>1, <2>2
    <3> QED BY <1>2, <2>2, <3>1 DEF Ended
  <2> QED BY <2>1, <2>2
<1> QED BY <1>2, <1>3

\* Who is at work after a commit.
LEMMA CommitsLeave ==
  ASSUME CVAssumption, TypeOK, TypeOK', NEW w \in Workers, w \in Active, NEW t, Commits(w, t)
  PROVE  /\ \A v \in Active' : v \in Active /\ (v # w => req'[v] = req[v])
         /\ w \in Active' => /\ req'[w].q = quotes' /\ req'[w].qbase = quotes'
                             /\ req'[w].new = <<>>
<1>1. t \in Session
  BY DEF Commits, Sound, Shape
<1>2. PICK s \in Session :
        /\ req' = [req EXCEPT ![w] = s]
        /\ s.op = "idle" \/ (s.q = quotes' /\ s.qbase = quotes' /\ s.new = <<>>)
  <2>1. CASE req' = [req EXCEPT ![w] = Idle]
    BY <2>1, IdleType
  <2>2. CASE t.op = "turn" /\ req' = [req EXCEPT ![w] = Fresh(t, conv', quotes')]
    <3>1. PICK r \in Session :
            /\ r = Fresh(t, conv', quotes')
            /\ r.qbase = quotes' /\ r.q = quotes' /\ r.new = <<>>
      BY <1>1, FreshDoes DEF TypeOK
    <3> QED BY <2>2, <3>1
  <2> QED BY <2>1, <2>2 DEF Commits
<1>3. /\ req'[w] = s /\ \A v \in Workers : v # w => req'[v] = req[v]
      /\ s.op = "idle" => Active' = Active \ {w}
      /\ s.op # "idle" => Active' = Active \cup {w}
  <2>1. req \in [Workers -> Session]
    BY DEF TypeOK
  <2> QED BY <1>2, <2>1, OneRequest
<1>4. \A v \in Active : v \in Workers
  BY DEF Active
<1> QED BY <1>2, <1>3, <1>4

\* Each session still calls what is sold by its name.
LEMMA CommitsAsOne ==
  ASSUME CVAssumption, IInv, IInv', LiveInv, NEW w \in Workers, w \in Active, NEW t,
         Commits(w, t)
  PROVE  \A v \in Active' : Named(req[v], quotes)' /\ AsOne(v)'
<1>0. TypeOK /\ TypeOK' /\ quotes \in Seq(Quote)
  BY DEF IInv, TypeOK
<1>1. Sound(t, conv, quotes) /\ Write(t) /\ Named(t, quotes)
  BY DEF Commits, Follows, LiveInv
<1>2. /\ \A v \in Active' : v \in Active /\ (v # w => req'[v] = req[v])
      /\ w \in Active' => /\ req'[w].q = quotes' /\ req'[w].qbase = quotes'
                          /\ req'[w].new = <<>>
  BY <1>0, CommitsLeave
<1>3. \A i \in 1..Len(quotes) : quotes'[i].product = quotes[i].product
  BY <1>0, <1>1, CommitsRows
<1>4. ASSUME NEW v \in Active', v # w PROVE Named(req[v], quotes)' /\ AsOne(v)'
  <2>1. v \in Active /\ req'[v] = req[v]
    BY <1>2, <1>4
  <2>2. Named(req[v], quotes) /\ AsOne(v) /\ Shape(req[v], quotes)
    BY <2>1 DEF LiveInv, IInv, SessionsInv, Ready, Sound
  <2>3. \A i \in DOMAIN req[v].q : i \in 1..Len(quotes)
    <3>1. req[v].q \in Seq(Quote) /\ Len(req[v].q) <= Len(quotes)
      BY <2>2, SessionType DEF Shape
    <3> QED BY <1>0, <3>1
  <2> QED BY <1>3, <2>1, <2>2, <2>3 DEF Named, AsOne
<1>5. ASSUME w \in Active' PROVE Named(req[w], quotes)' /\ AsOne(w)'
  <2>1. \A j : j \notin 1..Len(<<>>)
    OBVIOUS
  <2> QED BY <1>2, <1>5, <2>1 DEF Named, AsOne
<1> QED BY <1>4, <1>5

(***************************************************************************)
(* A commit of w turns what w brings into rows, one for one, and what is   *)
(* then left and comes is counted before it with w among the sessions.     *)
(***************************************************************************)
LEMMA CommitsFew ==
  ASSUME CVAssumption, IInv, IInv', LiveInv, NEW w \in Workers, w \in Active, NEW t,
         Commits(w, t), NEW p \in Products, NEW F \in SUBSET (Active')
  PROVE  Few(F, p)' /\ Coming(F, p)' \subseteq Coming(F \ {w}, p)
<1>0. TypeOK /\ TypeOK' /\ quotes \in Seq(Quote) /\ Len(quotes) \in Nat
  BY DEF IInv, TypeOK
<1>1. /\ Sound(t, conv, quotes) /\ Write(t) /\ t \in Session /\ Named(t, quotes)
      /\ Ended(req[w]) \subseteq Ended(t) /\ AddsNone(w, t)
      /\ \A j \in 1..Len(req[w].new) : Live(t.new[j], p) => Live(req[w].new[j], p)
      /\ used' = used /\ log'.adds = log.adds
  BY DEF Commits, Follows, LiveInv, Sound, Shape
<1>2. /\ \A v \in Active' : v \in Active /\ (v # w => req'[v] = req[v])
      /\ w \in Active' => /\ req'[w].q = quotes' /\ req'[w].qbase = quotes'
                          /\ req'[w].new = <<>>
  BY <1>0, CommitsLeave
<1>3. /\ Len(quotes') = Len(quotes) + Len(t.new)
      /\ \A i \in 1..Len(quotes) :
           /\ quotes'[i].product = quotes[i].product
           /\ quotes'[i].status = "pending" =>
                quotes[i].status = "pending" /\ i \notin Ended(t)
      /\ \A j \in 1..Len(t.new) : quotes'[Len(quotes) + j] = t.new[j]
  BY <1>0, <1>1, CommitsRows
<1>4. Len(t.new) \in Nat /\ Len(req[w].new) \in Nat
  <2>1. t.new \in Seq(Quote) /\ req[w].new \in Seq(Quote)
    BY <1>0, <1>1, SessionType DEF TypeOK
  <2> QED BY <2>1
<1>5. PICK n \in Nat, m \in Nat : n = Len(quotes) /\ m = Len(t.new)
  BY <1>0, <1>4
<1>6. PICK G : G = F \cup {w} /\ G \in SUBSET Active
  BY <1>2
<1>7. PICK A, B, C, D, Y, Z :
        /\ A = Left(G, p) /\ B = Coming(G, p) /\ C = Left(F, p)' /\ D = Coming(F, p)'
        /\ Y = {x \in B : x[1] = w}
        /\ Z = {i \in (n + 1)..(n + m) : Live(quotes'[i], p)}
  OBVIOUS
<1>8. D \subseteq Coming(F \ {w}, p) /\ D \subseteq B \ Y
  <2>1. ASSUME NEW x \in D PROVE x \in Coming(F \ {w}, p) /\ x \in B \ Y
    <3>1. /\ x \in F \X Nat /\ x[1] \in F /\ x[2] \in 1..Len(req'[x[1]].new)
          /\ Live(req'[x[1]].new[x[2]], p)
      BY <1>7 DEF Coming, Live
    <3>2. x[1] # w
      <4>1. \A j : j \notin 1..Len(<<>>)
        OBVIOUS
      <4> QED BY <1>2, <3>1, <4>1
    <3>3. req'[x[1]] = req[x[1]]
      BY <1>2, <3>1, <3>2
    <3>4. x \in (F \ {w}) \X Nat /\ x \in G \X Nat
      BY <1>6, <3>1, <3>2
    <3> QED BY <1>7, <3>1, <3>2, <3>3, <3>4 DEF Coming
  <2> QED BY <2>1
<1>9. C \subseteq A \cup Z
  <2>1. ASSUME NEW i \in C, i \notin Z PROVE i \in A
    <3>1. /\ i \in 1..Len(quotes') /\ Live(quotes'[i], p)
          /\ \A v \in F : i \notin Ended(req'[v])
      BY <1>7 DEF Left, Live, Ended
    <3>2. i \in 1..n
      BY <1>3, <1>5, <1>7, <2>1, <3>1
    <3>3. Live(quotes[i], p) /\ i \notin Ended(t)
      BY <1>3, <1>5, <3>1, <3>2 DEF Live
    <3>4. i \notin Ended(req[w])
      BY <1>1, <3>3
    <3>5. \A v \in F : v # w => i \notin Ended(req[v])
      BY <1>2, <3>1
    <3> QED BY <1>5, <1>6, <1>7, <3>2, <3>3, <3>4, <3>5 DEF Left
  <2> QED BY <2>1
<1>10. /\ IsFiniteSet(A) /\ IsFiniteSet(B)
       /\ Cardinality(A) + Cardinality(B) <= 1 + log.adds + used.overlaps
  BY <1>6, <1>7 DEF LiveInv, Few
<1>11. IsFiniteSet(Y)
  BY <1>7, <1>10, FS_Subset
<1>12. IsFiniteSet(Z) /\ Cardinality(Z) <= Cardinality(Y)
  <2>1. PICK f : f = [i \in Z |-> <<w, i - n>>]
    OBVIOUS
  <2>2. ASSUME NEW i \in Z PROVE f[i] \in Y /\ i \in Int
    <3>1. PICK j \in 1..m : i = n + j /\ j = i - n /\ j \in Nat
      <4>1. i - n \in 1..m /\ i = n + (i - n) /\ i - n \in Nat
        BY <1>7
      <4> QED BY <4>1
    <3>2. Live(t.new[j], p)
      BY <1>3, <1>5, <1>7, <3>1
    <3>3. j \in 1..Len(req[w].new)
      BY <1>1, <1>4, <1>5, <3>1, <3>2 DEF AddsNone, Live
    <3>4. Live(req[w].new[j], p)
      BY <1>1, <3>2, <3>3
    <3>5. f[i] = <<w, j>> /\ <<w, j>> \in G \X Nat
      BY <1>6, <2>1, <3>1
    <3> QED BY <1>7, <3>1, <3>3, <3>4, <3>5 DEF Coming
  <2>3. ASSUME NEW x \in Z, NEW y \in Z, f[x] = f[y] PROVE x = y
    <3>1. x \in Int /\ y \in Int
      BY <2>2
    <3>2. x - n = y - n
      BY <2>1, <2>3
    <3> QED BY <3>1, <3>2
  <2>4. f \in [Z -> Y]
    BY <2>1, <2>2
  <2> QED BY <1>11, <2>3, <2>4, OneToOne
<1>13. /\ IsFiniteSet(A \cup Z) /\ IsFiniteSet(A \cap Z)
       /\ Cardinality(A \cup Z) = Cardinality(A) + Cardinality(Z) - Cardinality(A \cap Z)
  BY <1>10, <1>12, FS_Union, FS_Subset
<1>14. IsFiniteSet(C) /\ Cardinality(C) <= Cardinality(A \cup Z)
  BY <1>9, <1>13, FS_Subset
<1>15. IsFiniteSet(B \ Y) /\ Cardinality(B \ Y) = Cardinality(B) - Cardinality(Y)
  <2>1. PICK X : X = B \cap Y
    OBVIOUS
  <2>2. IsFiniteSet(B \ Y) /\ Cardinality(B \ Y) = Cardinality(B) - Cardinality(X)
    BY <1>10, <2>1, FS_Difference
  <2>3. X = Y
    BY <1>7, <2>1
  <2> QED BY <2>2, <2>3
<1>16. IsFiniteSet(D) /\ Cardinality(D) <= Cardinality(B \ Y)
  BY <1>8, <1>15, FS_Subset
<1>17. /\ Cardinality(A) \in Nat /\ Cardinality(B) \in Nat /\ Cardinality(C) \in Nat
       /\ Cardinality(D) \in Nat /\ Cardinality(Y) \in Nat /\ Cardinality(Z) \in Nat
       /\ Cardinality(A \cap Z) \in Nat /\ Cardinality(A \cup Z) \in Nat
       /\ Cardinality(B \ Y) \in Nat
  BY <1>10, <1>11, <1>12, <1>13, <1>14, <1>15, <1>16, FS_CardinalityType
<1>18. Cardinality(C) <= Cardinality(A) + Cardinality(Z)
  BY <1>13, <1>14, <1>17
<1>19. Cardinality(D) + Cardinality(Y) <= Cardinality(B)
  BY <1>15, <1>16, <1>17
<1>20. Cardinality(C) + Cardinality(D) <= Cardinality(A) + Cardinality(B)
  BY <1>12, <1>17, <1>18, <1>19
<1>21. Cardinality(C) + Cardinality(D) <= 1 + log'.adds + used'.overlaps
  <2>1. log.adds \in Nat /\ used.overlaps \in Nat
    BY <1>0 DEF TypeOK
  <2> QED BY <1>1, <1>10, <1>17, <1>20, <2>1
<1>22. Few(F, p)'
  BY <1>7, <1>14, <1>16, <1>21 DEF Few
<1> QED BY <1>7, <1>8, <1>22

\* A commit.
LEMMA CommitsLive ==
  ASSUME CVAssumption, IInv, IInv', LiveInv, NEW w \in Workers, w \in Active, NEW t,
         Commits(w, t)
  PROVE  LiveInv'
<1>0. TypeOK /\ TypeOK'
  BY DEF IInv
<1>1. \A v \in Active' : Named(req[v], quotes)' /\ AsOne(v)'
  BY CommitsAsOne
<1>2. \A v \in Active' : v \in Active /\ (v # w => req'[v] = req[v])
  BY <1>0, CommitsLeave
<1>3. ASSUME NEW p \in Products PROVE Wanted(p)'
  <2>1. Wanted(p) /\ IsFiniteSet(Coming(Active, p))
    BY DEF LiveInv, Few
  <2>2. \A F \in SUBSET (Active') : Coming(F, p)' \subseteq Coming(F \ {w}, p)
    BY CommitsFew
  <2>3. Coming(Active, p)' \subseteq Coming(Active' \ {w}, p)
    BY <2>2
  <2>4. ASSUME NEW x \in Besides(Active, p)' PROVE x \in Besides(Active, p)
    <3>1. x \in Coming(Active, p)' /\ req'[x[1]].msg.adds = "also"
      BY DEF Besides
    <3>2. /\ x \in (Active' \ {w}) \X Nat /\ x[2] \in 1..Len(req[x[1]].new)
          /\ Live(req[x[1]].new[x[2]], p)
      BY <2>3, <3>1 DEF Coming
    <3>3. x \in Active \X Nat /\ req'[x[1]] = req[x[1]]
      BY <1>2, <3>2
    <3> QED BY <3>1, <3>2, <3>3 DEF Besides, Coming
  <2>5. log'.adds >= log.adds
    BY <1>0 DEF Commits, TypeOK
  <2> QED BY <1>0, <2>1, <2>4, <2>5, WantedLess
<1>4. \A p \in Products : \A F \in SUBSET (Active') : Few(F, p)'
  BY CommitsFew
<1> QED BY <1>1, <1>3, <1>4 DEF LiveInv

\* At the start there are no quotes.
LEMMA InitLive == ASSUME CVAssumption, Init PROVE LiveInv
<1>1. /\ quotes = <<>> /\ log.adds = 0 /\ used.overlaps = 0 /\ Active = {}
  BY IdleType DEF Init, Active
<1>2. 1..Len(quotes) = {} /\ IsFiniteSet({}) /\ Cardinality({}) = 0
  BY <1>1, FS_EmptySet
<1>3. \A p : \A F \in SUBSET Active : Left(F, p) = {} /\ Coming(F, p) = {}
  BY <1>1, <1>2 DEF Left, Coming
<1>4. \A p : Besides(Active, p) = {}
  BY <1>3 DEF Besides
<1>5. \A p : Wanted(p) /\ \A F \in SUBSET Active : Few(F, p)
  <2>1. 0 + 0 <= 1 + log.adds + used.overlaps /\ 0 <= log.adds
    BY <1>1
  <2> QED BY <1>2, <1>3, <1>4, <2>1 DEF Few, Wanted
<1> QED BY <1>1, <1>5 DEF LiveInv

\* Every step keeps it.
LEMMA NextLive ==
  ASSUME CVAssumption, IInv, IInv', LiveInv, [Next]_vars
  PROVE  LiveInv'
<1>0. TypeOK /\ TypeOK'
  BY DEF IInv
<1>1. CASE UNCHANGED vars
  <2>1. /\ quotes' = quotes /\ \A v \in Active' : v \in Active /\ req'[v] = req[v]
        /\ log'.adds = log.adds
    BY <1>1 DEF vars, Active
  <2>2. used'.overlaps >= used.overlaps
    BY <1>0, <1>1 DEF vars, TypeOK
  <2> QED BY <1>0, <2>1, <2>2, SameLive
<1>2. CASE ReportIssue
  BY <1>2, ReportLive
<1>3. ASSUME NEW w \in Workers, Kinds(w) PROVE LiveInv'
  BY <1>3, BeginsLive, DropsLive, CommitsLive, StaysLive DEF Kinds
<1> QED BY <1>1, <1>2, <1>3, NextKinds DEF IInv

\* With no session taken into account, it is the rows that are few.
LEMMA LiveHold ==
  ASSUME IInv, LiveInv
  PROVE  OneLivePerProduct
<1>1. ASSUME NEW p \in Products
      PROVE  Cardinality({i \in DOMAIN quotes : /\ quotes[i].product = p
                                                /\ quotes[i].status = "pending"})
               <= 1 + log.adds + used.overlaps
  <2>1. Few({}, p)
    BY DEF LiveInv
  <2>2. PICK A, B : A = Left({}, p) /\ B = Coming({}, p)
    OBVIOUS
  <2>3. Cardinality(A) \in Nat /\ Cardinality(B) \in Nat
    BY <2>1, <2>2, FS_CardinalityType DEF Few
  <2>4. {i \in DOMAIN quotes : /\ quotes[i].product = p
                               /\ quotes[i].status = "pending"} = A
    <3>1. DOMAIN quotes = 1..Len(quotes)
      BY DEF IInv, TypeOK
    <3> QED BY <2>2, <3>1 DEF Left, Live
  <2>5. log.adds \in Nat /\ used.overlaps \in Nat
    BY DEF IInv, TypeOK
  <2> QED BY <2>1, <2>2, <2>3, <2>4, <2>5 DEF Few
<1> QED BY <1>1 DEF OneLivePerProduct

\* The rows never hold more than one pending quote of a product, but for one
\* after every "also" and one for every overlap, so that the released PDF
\* does not add up the same thing twice (_supersede_older_pending_quotes).
THEOREM OneStaysLive == Spec => []OneLivePerProduct
<1>1. Init => LiveInv
  BY InitLive, CVAssumption
<1>2. IInv /\ IInv' /\ LiveInv /\ [Next]_vars => LiveInv'
  BY NextLive, CVAssumption
<1>3. IInv /\ LiveInv => OneLivePerProduct
  BY LiveHold
<1> QED BY <1>1, <1>2, <1>3, Invariance, PTL DEF Spec
=============================================================================
