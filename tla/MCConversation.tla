--------------------------- MODULE MCConversation ---------------------------
EXTENDS Conversation, TLC

Says(says, adds, contact) == [says |-> says, adds |-> adds, contact |-> contact]

\* A bare yes with an address, answers about artwork, and orders that add to
\* or replace an earlier one.
SomeMessages ==
  {Says("yes", "nothing", TRUE), Says("design", "also", FALSE),
   Says("later", "actually", FALSE)}

FewMessages ==
  {Says("nothing", "nothing", FALSE), Says("own", "nothing", TRUE)}

\* A price with the card, the artwork question.
SomeDrafts ==
  {[Plain({"ready"}) EXCEPT !.price = "figure"],
   [Plain({}) EXCEPT !.art = "upsell"]}

FewDrafts == {Plain({}), Plain({"ready"})}

Sym == Permutations(Workers)
=============================================================================
