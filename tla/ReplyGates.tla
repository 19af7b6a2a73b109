----------------------------- MODULE ReplyGates -----------------------------
(***************************************************************************)
(* What chat_with_craig makes of the model's draft before the customer     *)
(* sees it (llm/craig_agent.py).  A reply is the set of markers in it (the *)
(* widget turns each into buttons, an upload card, a form or the PDF card) *)
(* and what the gates read in its text.  The gates run in a fixed order,   *)
(* each on the result of the one before.                                   *)
(*                                                                         *)
(* Left out: the wording, the scrubbing of markdown, the sentence that     *)
(* promises a follow-up, and two branches no context reaches (FUNNEL GATE  *)
(* after PREMATURE, AUTO-EMIT after UPLOAD-FIRST).                         *)
(***************************************************************************)

Marks == {"choice", "upload", "form", "ready"}

(***************************************************************************)
(* price: no euro amount, one of the fixed figures in its own context, or  *)
(* any other figure.  art: what is said about artwork.  spec: asks the     *)
(* customer for a specification.  fused: the artwork question stands next  *)
(* to a recap or an offer of the full quote.                               *)
(***************************************************************************)
Replies == [marks: SUBSET Marks, price: {"none", "fixed", "figure"},
            art: {"none", "mention", "upsell"}, spec: BOOLEAN, fused: BOOLEAN]

Plain(marks) == [marks |-> marks, price |-> "none", art |-> "none",
                 spec |-> FALSE, fused |-> FALSE]

(***************************************************************************)
(* What the gates know: the channel, the columns of the conversation, the  *)
(* quotes of earlier turns (prior), what the tools did in this turn        *)
(* (priced, escalated, confirmed, saved), whether the customer's message   *)
(* is a short "yes", whether any quote has a file, and the markers of the  *)
(* earlier turns and of the last one.                                      *)
(***************************************************************************)
Contexts ==
  [web: BOOLEAN, art: {"none", "own", "design"}, later: BOOLEAN,
   contact: BOOLEAN, funnel: BOOLEAN, prior: BOOLEAN, priced: BOOLEAN,
   escalated: BOOLEAN, confirmed: BOOLEAN, saved: BOOLEAN, yes: BOOLEAN,
   files: BOOLEAN, shown: SUBSET Marks, last: SUBSET Marks]

Without(r, m) == [r EXCEPT !.marks = @ \ {m}]
With(r, m)    == [r EXCEPT !.marks = @ \cup {m}]

HasPrice(r) == r.price # "none"

Quoted(x) == x.prior \/ x.priced

\* The customer has artwork, promised it for now, and no file is there.
NeedsUpload(x) == x.art = "own" /\ ~x.files /\ ~x.later

-----------------------------------------------------------------------------
(***************************************************************************)
(* A figure although nothing was ever priced: after one retry the draft is *)
(* dropped for a fixed text that asks for the specification.               *)
(***************************************************************************)
\* Seeded fault: a draft is believed as long as it carries a marker.
Bug_PriceGate(x, r) ==
  IF r.price = "figure" /\ ~Quoted(x) /\ ~x.escalated /\ r.marks = {}
  THEN [Plain({}) EXCEPT !.spec = TRUE]
  ELSE r

PriceGate(x, r) ==
  IF r.price = "figure" /\ ~Quoted(x) /\ ~x.escalated
  THEN [Plain({}) EXCEPT !.spec = TRUE]
  ELSE r

\* Only the paragraph with the artwork question is kept; markers stand in
\* paragraphs of their own.
IsolationGuard(x, r) ==
  IF x.art = "none" /\ r.art # "none" /\ r.fused /\ ~HasPrice(r)
  THEN [r EXCEPT !.marks = {}, !.spec = FALSE, !.fused = FALSE]
  ELSE r

(***************************************************************************)
(* The three buttons for the artwork question, while it is unanswered.     *)
(***************************************************************************)
Neutral == [Plain({"choice"}) EXCEPT !.art = "upsell"]

ChoiceGate(x, r) ==
  LET bare  == Without(r, "upload")
      asked == IF r.art = "none" /\ "upload" \notin r.marks
               THEN [bare EXCEPT !.art = "upsell"] ELSE bare
  IN IF ~x.web \/ x.art # "none" \/ "choice" \in r.marks THEN r
     ELSE IF Quoted(x) /\ HasPrice(r) THEN With(asked, "choice")
     ELSE IF IF Quoted(x)
             THEN ~(r.spec /\ r.art # "upsell" /\ "choice" \in x.last)
             ELSE r.art = "upsell"
          THEN Neutral
     ELSE bare

\* A quote nobody computed is not announced.
HallucinationGate(x, r) ==
  IF ~Quoted(x) THEN Without(r, "ready") ELSE r

(***************************************************************************)
(* The PDF card came too early: the price stays (or is put in, if the      *)
(* quote is of this turn) and the next step takes the card's place.        *)
(***************************************************************************)
\* Seeded fault: the delivery method is forgotten.
Bug_Premature(x, r) ==
  /\ x.web
  /\ "ready" \in r.marks
  /\ ~x.contact \/ x.art = "none"

Premature(x, r) ==
  /\ x.web
  /\ "ready" \in r.marks
  /\ ~x.contact \/ ~x.funnel \/ x.art = "none"

PrematureGate(x, r) ==
  LET kept == Without(IF x.priced /\ ~HasPrice(r)
                      THEN [r EXCEPT !.price = "figure"] ELSE r, "ready")
  IN IF ~Premature(x, r)                 THEN r
     ELSE IF x.art = "none"              THEN [kept EXCEPT !.art = "upsell"]
     ELSE IF x.priced /\ NeedsUpload(x)  THEN With(kept, "upload")
     ELSE IF "form" \in x.shown          THEN kept
     ELSE With(kept, "form")

\* The details were just saved and the model forgot the card.
Released(x, r) ==
  /\ x.web /\ ~x.confirmed /\ x.saved
  /\ x.contact /\ x.funnel /\ x.prior
  /\ "ready" \notin r.marks \cup x.shown

AutoRelease(x, r) == IF Released(x, r) THEN With(r, "ready") ELSE r

\* Artwork first: the whole reply, its price too, gives way to the upload.
\* Seeded fault: the customer's "I'll send it later" is not respected.
Bug_UploadFirst(x, r) ==
  IF x.web /\ x.priced /\ x.art = "own" /\ ~x.files
  THEN Plain({"upload"}) ELSE r

UploadFirst(x, r) ==
  IF x.web /\ x.priced /\ NeedsUpload(x) THEN Plain({"upload"}) ELSE r

(***************************************************************************)
(* A short "yes" is taken for "yes, the full quote": the form, or the      *)
(* upload if that is still missing.                                        *)
(***************************************************************************)
FormDue(x, r) ==
  /\ ~x.funnel /\ x.art # "none" /\ ~x.confirmed /\ ~NeedsUpload(x)
  /\ "form" \notin r.marks \cup x.shown

UploadDue(x, r) == NeedsUpload(x) /\ "upload" \notin r.marks \cup x.shown

\* Seeded fault: the form is shown again although it was shown before.
Bug_YesGate(x, r) ==
  IF ~(x.web /\ x.yes /\ Quoted(x)) THEN r
  ELSE IF ~x.funnel /\ x.art # "none" /\ ~x.confirmed /\ ~NeedsUpload(x)
            /\ "form" \notin r.marks THEN Plain({"form"})
  ELSE IF UploadDue(x, r) THEN Plain({"upload"})
  ELSE r

YesGate(x, r) ==
  IF ~(x.web /\ x.yes /\ Quoted(x)) THEN r
  ELSE IF FormDue(x, r) THEN Plain({"form"})
  ELSE IF UploadDue(x, r) THEN Plain({"upload"})
  ELSE r

(***************************************************************************)
(* The reply the customer gets.                                            *)
(***************************************************************************)
Gated(x, r) ==
  YesGate(x, UploadFirst(x, AutoRelease(x, PrematureGate(x,
    HallucinationGate(x, ChoiceGate(x, IsolationGuard(x, PriceGate(x, r))))))))

(***************************************************************************)
(* Properties of the reply r that leaves the gates in a context x, for a   *)
(* draft d.                                                                *)
(***************************************************************************)
\* On the web the PDF card appears only with a quote that exists, contact
\* and delivery on file, and the artwork question answered; the one way past
\* an open artwork question is AUTO-RELEASE, which puts the card back in the
\* turn that saved the details (PREMATURE, HALLUCINATED-QUOTE, AUTO-RELEASE).
CardIsEarned(x, r) ==
  x.web /\ "ready" \in r.marks =>
    /\ Quoted(x) /\ x.contact /\ x.funnel
    /\ x.art # "none" \/ (x.saved /\ x.prior)

\* No gate lets a figure through that no pricing tool computed (v41.6).
PriceIsComputed(x, r) == r.price = "figure" => Quoted(x) \/ x.escalated

\* The markers a gate may add to a draft d: an upload only for a file that is
\* due, a form or a card only once, a form only when its turn has come.
AddsFitting(x, d, r) ==
  \A m \in r.marks \ d.marks :
    /\ m = "upload" => NeedsUpload(x)
    /\ m \in {"form", "ready"} => m \notin x.shown
    /\ m = "form" => x.art # "none" /\ ~(x.priced /\ NeedsUpload(x))

\* What the eight gates add together fits the conversation, and no upload is
\* offered before the artwork answer unless the buttons stand beside it.
PromptsFit(x, d, r) ==
  x.web =>
    /\ AddsFitting(x, d, r)
    /\ x.art = "none" /\ "choice" \notin d.marks => "upload" \notin r.marks

\* A price computed while the customer's file is missing is held back: the
\* upload comes before the price, and comes alone (v26).
UploadComesFirst(x, r) ==
  x.web /\ x.priced /\ NeedsUpload(x) => r = Plain({"upload"})
=============================================================================
