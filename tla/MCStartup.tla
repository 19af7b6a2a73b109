------------------------------ MODULE MCStartup ------------------------------
EXTENDS Startup, TLC

CONSTANTS key

Rings == {<<>>, <<key>>}

\* One edit of each kind: seeded once, written at every boot, a strategy, and
\* what the cutover looks at.
SomeEdits ==
  {<<"multiplier", "own">>, <<"business_rules", "own">>,
   <<"vinyl_strategy", "tiered">>,
   <<"missive_from_address", "shop">>, <<"missive_from_address", "">>,
   <<"missive_enabled", "true">>}

\* Prompts with and without the section that v7 strips.
SomePrompts == {<<"intro", "own">>, <<"intro", "contact", "own", "tone">>}

SomeReleases == {"fresh", "v9"}

Sym == Permutations(Instances)
=============================================================================
