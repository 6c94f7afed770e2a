---------------------------- MODULE SelectorTable ----------------------------
(***************************************************************************)
(* What a diamond promises of diamondCut: a table from selectors to facets *)
(* that a cut changes as a whole or not at all.  It keeps no arrays and no *)
(* positions; module Diamond shows that LibDiamond's do the same.          *)
(***************************************************************************)
EXTENDS Naturals, Sequences, SequencesExt

CONSTANTS
  Selectors,  \* function selectors
  Facets,     \* addresses a selector may be given to
  HasCode,    \* the facets that are contracts
  Self,       \* the address of the diamond
  None,       \* address(0); no transaction that reverts ends in a table
  DefaultTable,  \* the table the constructor installs, None where it has nothing
  CutInputs,  \* the arrays of FacetCut callers pass
  Releases    \* sequences of [facet, selectors] that are deployed

VARIABLE table

\* The facets that serve some selector.
Serving(t) == {t[s] : s \in Selectors} \ {None}

\* Whether one FacetCut may be applied: it names selectors, each once, that
\* are all free (Add), all served by others (Replace) or all served (Remove).
BatchAllowed(t, cut) ==
  LET old == {t[s] : s \in ToSet(cut.selectors)} IN
  /\ cut.selectors # <<>>
  /\ IsInjective(cut.selectors)
  /\ \/ cut.action = "Add" /\ cut.facet # None /\ old = {None}
     \/ cut.action = "Replace" /\ cut.facet # None
        /\ old \cap {None, Self, cut.facet} = {}
     \/ cut.action = "Remove" /\ cut.facet = None /\ old \cap {None, Self} = {}
  /\ cut.facet \in Serving(t) \cup HasCode \cup {None}

AfterBatch(t, cut) ==
  [s \in Selectors |-> IF s \in ToSet(cut.selectors) THEN cut.facet ELSE t[s]]

AfterCuts(t, cuts) ==
  LET after[i \in 0 .. Len(cuts)] ==
        IF i = 0 THEN t
        ELSE IF after[i - 1] # None /\ BatchAllowed(after[i - 1], cuts[i])
        THEN AfterBatch(after[i - 1], cuts[i])
        ELSE None
  IN  after[Len(cuts)]

Init == table = DefaultTable

Cut == \E cuts \in CutInputs :
         /\ AfterCuts(table, cuts) # None
         /\ table' = AfterCuts(table, cuts)

\* After a release the table has its selectors, what the diamond itself needs,
\* and nothing else.
Upgrade ==
  \E release \in Releases :
    table' = [s \in Selectors |->
      LET hosts == {i \in DOMAIN release : s \in ToSet(release[i].selectors)} IN
      IF hosts # {} THEN release[CHOOSE i \in hosts : TRUE].facet
      ELSE IF DefaultTable[s] # None THEN table[s] ELSE None]

Spec == Init /\ [][Cut \/ Upgrade]_table
=============================================================================
