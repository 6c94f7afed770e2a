------------------------------ MODULE MCDiamond ------------------------------
(***************************************************************************)
(* Cuts and releases for checking Diamond with TLC.                        *)
(***************************************************************************)
EXTENDS Diamond

CONSTANTS Movable,   \* selectors that cuts by hand name
          Hosts,     \* where cuts by hand put a selector
          A, B, C, F1, F2, Codeless

\* Cuts by hand: one batch of at most two selectors, equal ones included, or
\* two batches, one of which removes.
Batches(lengths) ==
  [facet : Hosts \cup {None}, action : {"Add", "Replace", "Remove"},
   selectors : UNION {[1 .. k -> Movable] : k \in lengths}]
MCCuts ==
  {<<b>> : b \in Batches(0 .. 2)}
    \cup {<<[facet |-> None, action |-> "Remove", selectors |-> <<s>>], b>> :
          s \in Movable, b \in Batches({1})}

MCLoupe == <<"facets", "facetAddress">>
MCOwnership == <<"transferOwnership">>
MCSelectors == {CutSelector} \cup ToSet(MCLoupe) \cup ToSet(MCOwnership) \cup {A, B, C}

\* A release in two facets, one that moves functions between them and drops
\* one, and one that needs a single facet.
MCReleases ==
  {<<[facet |-> F1, selectors |-> <<A, B>>], [facet |-> F2, selectors |-> <<C>>]>>,
   <<[facet |-> F1, selectors |-> <<C>>], [facet |-> F2, selectors |-> <<A>>]>>,
   <<[facet |-> F2, selectors |-> <<B, A, C>>]>>}
=============================================================================
