------------------------------- MODULE Diamond -------------------------------
(***************************************************************************)
(* The EIP-2535 diamond that routes every call of the protocol: LibDiamond *)
(* with its two cross-referencing indices and swap-and-pop removal, the    *)
(* three facets the constructor installs, and the deployment script that   *)
(* works out the cuts of a new release from what facets() returns.         *)
(*                                                                         *)
(* A transaction that reverts changes nothing: it is not enabled.  Inside  *)
(* one, None also stands for the storage of a transaction that reverted.   *)
(* uint16 positions are kept as naturals: 2^16 selectors or facets exceed  *)
(* what a diamond can be given.                                            *)
(***************************************************************************)
EXTENDS Naturals, Sequences, SequencesExt

CONSTANTS
  Selectors,       \* function selectors
  Facets,          \* addresses a selector may be given to
  HasCode,         \* the facets that are contracts
  Self,            \* address(this)
  None,            \* address(0)
  Accounts,        \* who may own the diamond
  CutFacet,        \* DiamondCutFacet
  LoupeFacet,      \* DiamondLoupeFacet
  OwnershipFacet,  \* OwnershipFacet
  CutSelector,     \* diamondCut
  LoupeSelectors,  \* the sequence of loupe selectors, facets() first
  OwnershipSelectors, \* the sequence of ownership selectors, transferOwnership first
  CutInputs,       \* the arrays of FacetCut callers pass by hand
  Initialisers,    \* the _init addresses callers pass, None among them
  Releases         \* sequences of [facet, selectors] the script deploys

\* IDiamondCut.FacetCut, and a facet of a release with its functions.
FacetCut ==
  [facet : Facets \cup {None}, action : {"Add", "Replace", "Remove"},
   selectors : Seq(Selectors)]
Facet == [facet : Facets, selectors : Seq(Selectors)]

VARIABLES
  ds,     \* LibDiamond.DiamondStorage
  owner   \* DiamondStorage.contractOwner

vars == <<ds, owner>>

DiamondStorage ==
  [facetOf : [Selectors -> Facets \cup {None}],  \* selectorToFacetAndPosition
   position : [Selectors -> Nat],
   selectorsOf : [Facets -> Seq(Selectors)],     \* facetFunctionSelectors
   facetPosition : [Facets -> Nat],
   facetAddresses : Seq(HasCode)]

\* None, of a transaction that reverted, is no storage and no table.
ASSUME DiamondAssumption ==
  /\ CutInputs \subseteq Seq(FacetCut)
  /\ Releases \subseteq Seq(Facet)
  /\ CutSelector \in Selectors
  /\ LoupeSelectors \in Seq(Selectors)
  /\ OwnershipSelectors \in Seq(Selectors)
  /\ Initialisers \subseteq Facets \cup {None}
  /\ {CutFacet, LoupeFacet, OwnershipFacet, Self} \subseteq HasCode
  /\ HasCode \subseteq Facets
  /\ None \notin Facets
  /\ None \notin DiamondStorage \cup [Selectors -> Facets \cup {None}]

\* The script has deployed the facets it cuts in (deployFacets); a contract has a
\* function once, and mergeABIs refuses a function of two facets.
ASSUME ReleaseAssumption ==
  \A release \in Releases :
    /\ \A i \in DOMAIN release :
         release[i].facet \in HasCode /\ IsInjective(release[i].selectors)
    /\ \A i, j \in DOMAIN release :
         i # j => ToSet(release[i].selectors) \cap ToSet(release[j].selectors) = {}

EmptyStorage ==
  [facetOf |-> [s \in Selectors |-> None], position |-> [s \in Selectors |-> 0],
   selectorsOf |-> [f \in Facets |-> <<>>],
   facetPosition |-> [f \in Facets |-> 0], facetAddresses |-> <<>>]

(***************************************************************************)
(* One selector.                                                           *)
(***************************************************************************)
\* (Fault) A facet is entered without a look at its code.
Registered_Unchecked(d, f) ==
  IF d.selectorsOf[f] # <<>> THEN d
  ELSE [d EXCEPT !.facetPosition[f] = Len(d.facetAddresses),
                 !.facetAddresses = Append(@, f)]

\* A facet without selectors is entered in the list of facets.
Registered(d, f) ==
  IF d.selectorsOf[f] # <<>> THEN d
  ELSE IF f \notin HasCode THEN None
  ELSE [d EXCEPT !.facetPosition[f] = Len(d.facetAddresses),
                 !.facetAddresses = Append(@, f)]

Pushed(d, f, s) ==
  [d EXCEPT !.facetOf[s] = f,
            !.position[s] = Len(d.selectorsOf[f]),
            !.selectorsOf[f] = Append(@, s)]

\* The last member of a list takes the place at p (from 0) and leaves the end.
SwapPopped(list, p) == Front([list EXCEPT ![p + 1] = Last(list)])

\* (Fault) The facet that moved keeps its old position.
Unlisted_StalePosition(d, f) ==
  [d EXCEPT !.facetAddresses = SwapPopped(@, d.facetPosition[f]),
            !.facetPosition[f] = 0]

\* The last facet of the list takes the place of f.
Unlisted(d, f) ==
  LET p == d.facetPosition[f] IN
  [d EXCEPT !.facetAddresses = SwapPopped(@, p),
            !.facetPosition = [@ EXCEPT ![Last(d.facetAddresses)] = p, ![f] = 0]]

\* (Fault) The selector that moved keeps its old position.
Popped_StalePosition(d, f, s) ==
  [d EXCEPT !.selectorsOf[f] = SwapPopped(@, d.position[s]),
            !.position[s] = 0,
            !.facetOf[s] = None]

\* The last selector of f takes the place of s.
Popped(d, f, s) ==
  LET p == d.position[s] IN
  [d EXCEPT !.selectorsOf[f] = SwapPopped(@, p),
            !.position = [@ EXCEPT ![Last(d.selectorsOf[f])] = p, ![s] = 0],
            !.facetOf[s] = None]

\* (Fault) Immutable functions are not told apart.
RemoveFunction_Mutable(d, f, s) ==
  IF f = None THEN None
  ELSE IF Len(d.selectorsOf[f]) = 1 THEN Unlisted(Popped(d, f, s), f)
  ELSE Popped(d, f, s)

RemoveFunction(d, f, s) ==
  IF f \in {None, Self} THEN None
  ELSE IF Len(d.selectorsOf[f]) = 1 THEN Unlisted(Popped(d, f, s), f)
  ELSE Popped(d, f, s)

AddFunction(d, f, s) ==
  IF d.facetOf[s] # None THEN None ELSE Pushed(d, f, s)

ReplaceFunction(d, f, s) ==
  LET old == d.facetOf[s]
      removed == RemoveFunction(d, old, s) IN
  IF old = f \/ removed = None THEN None ELSE Pushed(removed, f, s)

(***************************************************************************)
(* Whole cuts.                                                             *)
(***************************************************************************)
\* What a cut does with one of its selectors.
ApplySelector(d, cut, s) ==
  CASE cut.action = "Add" -> AddFunction(d, cut.facet, s)
    [] cut.action = "Replace" -> ReplaceFunction(d, cut.facet, s)
    [] cut.action = "Remove" -> RemoveFunction(d, d.facetOf[s], s)

\* A loop stops at the first revert.
AfterSelectors(d, cut) ==
  LET storage[i \in 0 .. Len(cut.selectors)] ==
        IF i = 0 THEN d
        ELSE IF storage[i - 1] = None THEN None
        ELSE ApplySelector(storage[i - 1], cut, cut.selectors[i])
  IN  storage[Len(cut.selectors)]

ApplyCut(d, cut) ==
  IF cut.selectors = <<>> \/ ((cut.facet = None) # (cut.action = "Remove"))
  THEN None
  ELSE AfterSelectors(IF cut.action = "Remove" THEN d ELSE Registered(d, cut.facet), cut)

AfterCuts(d, cuts) ==
  LET storage[i \in 0 .. Len(cuts)] ==
        IF i = 0 THEN d
        ELSE IF storage[i - 1] = None THEN None
        ELSE ApplyCut(storage[i - 1], cuts[i])
  IN  storage[Len(cuts)]

\* addDiamondFunctions: what the constructor installs.
DefaultCuts ==
  <<[facet |-> CutFacet, action |-> "Add", selectors |-> <<CutSelector>>],
    [facet |-> LoupeFacet, action |-> "Add", selectors |-> LoupeSelectors],
    [facet |-> OwnershipFacet, action |-> "Add",
     selectors |-> OwnershipSelectors]>>

DefaultSelectors ==
  {CutSelector} \cup ToSet(LoupeSelectors) \cup ToSet(OwnershipSelectors)

(***************************************************************************)
(* What facets() returns, and the script that diffs a release with it.     *)
(***************************************************************************)
LoupeFacets(d) ==
  [i \in DOMAIN d.facetAddresses |->
     [facet |-> d.facetAddresses[i],
      selectors |-> d.selectorsOf[d.facetAddresses[i]]]]

\* selectorFacetMap of the script, with None for a selector not yet there.
LoupeTable(d) ==
  [s \in Selectors |->
     LET hosts == {f \in ToSet(LoupeFacets(d)) : s \in ToSet(f.selectors)} IN
     IF hosts = {} THEN None ELSE (CHOOSE f \in hosts : TRUE).facet]

\* The members of a sequence that are in a set, in their order: SelectSeq,
\* written as a recursive function.
Those(seq, S) ==
  LET taken[i \in 0 .. Len(seq)] ==
        IF i = 0 THEN <<>>
        ELSE IF seq[i] \in S THEN Append(taken[i - 1], seq[i])
        ELSE taken[i - 1]
  IN  taken[Len(seq)]

\* A FacetCut, or nothing when it would name no selector.
CutOf(f, action, selectors) ==
  IF selectors = <<>> THEN <<>>
  ELSE <<[facet |-> f, action |-> action, selectors |-> selectors]>>

\* (Fault) Every selector that exists is replaced, in the same facet or not.
FacetCuts_ReplacesUnchanged(host, r) ==
  CutOf(r.facet, "Replace", Those(r.selectors, {s \in Selectors : host[s] # None}))
  \o CutOf(r.facet, "Add", Those(r.selectors, {s \in Selectors : host[s] = None}))

\* The cuts for one facet: what others host moves to it, what is new is added.
FacetCuts(host, r) ==
  CutOf(r.facet, "Replace",
        Those(r.selectors, {s \in Selectors : host[s] \notin {None, r.facet}}))
  \o CutOf(r.facet, "Add", Those(r.selectors, {s \in Selectors : host[s] = None}))

\* (Fault) Selectors that are no longer released stay.
RemovedSelectors_None(d, release) == <<>>

\* The selectors that exist, are not released any more and not the diamond's.
RemovedSelectors(d, release) ==
  LET existing == FlattenSeq([i \in DOMAIN LoupeFacets(d) |-> LoupeFacets(d)[i].selectors])
      released == UNION {ToSet(release[i].selectors) : i \in DOMAIN release}
  IN  Those(existing, Selectors \ (DefaultSelectors \cup released))

DeployCuts(d, release) ==
  LET host == LoupeTable(d)
      cuts[i \in 0 .. Len(release)] ==
        IF i = 0 THEN CutOf(None, "Remove", RemovedSelectors(d, release))
        ELSE cuts[i - 1] \o FacetCuts(host, release[i])
  IN  cuts[Len(release)]

(***************************************************************************)
(* Transactions.  A call reaches a facet through the fallback function,    *)
(* which looks its selector up in facetOf.                                 *)
(***************************************************************************)
\* A constructor that reverts leaves no diamond.
Init ==
  /\ AfterCuts(EmptyStorage, DefaultCuts) # None
  /\ ds = AfterCuts(EmptyStorage, DefaultCuts)
  /\ owner \in Accounts

\* initializeDiamondCut: init code goes with init data, and has to be a
\* contract.  What the initialiser does is not modelled: it changes storage of the
\* application, not this one.
InitialiserRuns(init, hasData) ==
  /\ (init = None) = ~hasData
  /\ init \in HasCode \cup {None}

DiamondCut(caller, cuts, init, hasData) ==
  /\ ds.facetOf[CutSelector] = CutFacet
  /\ caller = owner
  /\ InitialiserRuns(init, hasData)
  /\ AfterCuts(ds, cuts) # None
  /\ ds' = AfterCuts(ds, cuts)
  /\ UNCHANGED owner

\* deploy/007_facets.ts, run by the owner; nothing is sent without changes.
Deploy(caller, release, init) ==
  /\ ds.facetOf[Head(LoupeSelectors)] = LoupeFacet
  /\ DeployCuts(ds, release) # <<>>
  /\ DiamondCut(caller, DeployCuts(ds, release), init, TRUE)

TransferOwnership(caller, newOwner) ==
  /\ ds.facetOf[Head(OwnershipSelectors)] = OwnershipFacet
  /\ caller = owner
  /\ owner' = newOwner
  /\ UNCHANGED ds

Next ==
  \E caller \in Accounts :
    \/ \E cuts \in CutInputs, init \in Initialisers, hasData \in BOOLEAN :
         DiamondCut(caller, cuts, init, hasData)
    \/ \E release \in Releases, init \in Initialisers : Deploy(caller, release, init)
    \/ \E newOwner \in Accounts \cup {None} : TransferOwnership(caller, newOwner)

Spec == Init /\ [][Next]_vars

-----------------------------------------------------------------------------
(***************************************************************************)
(* Properties.                                                             *)
(***************************************************************************)
\* The storage is well formed, and every facet in use is a contract although
\* its code is looked at only when it enters the list (LibDiamond:178, :231).
TypeOK == ds \in DiamondStorage /\ owner \in Accounts \cup {None}

\* Routing and the facets' selector arrays are inverse to each other: after
\* any sequence of pushes and swap-and-pop removals (LibDiamond:315-328) the
\* position kept for a selector is where it is.
RoutesIndexed ==
  /\ \A f \in Facets : \A i \in DOMAIN ds.selectorsOf[f] :
       LET s == ds.selectorsOf[f][i] IN
       ds.facetOf[s] = f /\ ds.position[s] = i - 1
  /\ \A s \in Selectors :
       ds.facetOf[s] # None => s \in ToSet(ds.selectorsOf[ds.facetOf[s]])

\* The list that facets() walks has each facet that serves a selector once,
\* at the position kept for it (LibDiamond:331-350): a facet that loses its
\* last selector in the middle of a cut leaves, and may come back.
FacetsListed ==
  /\ ToSet(ds.facetAddresses) = {f \in Facets : ds.selectorsOf[f] # <<>>}
  /\ \A i \in DOMAIN ds.facetAddresses :
       ds.facetPosition[ds.facetAddresses[i]] = i - 1

\* Both together: each of the four arrays is the inverse of another.
IndicesInverse == RoutesIndexed /\ FacetsListed

\* A function defined in the diamond itself is never removed or replaced
\* (LibDiamond:301), whichever kind of cut names it.
ImmutableStays ==
  [][\A s \in Selectors : ds.facetOf[s] = Self => ds'.facetOf[s] = Self]_vars

\* The owner can always deploy a release: whatever was cut before, the cuts
\* the script works out from facets() do not revert, unless an immutable
\* function is in the way (007_facets.ts:89-150).
UpgradeNeverBlocked ==
  Self \notin ToSet(ds.facetAddresses)
    => \A release \in Releases : AfterCuts(ds, DeployCuts(ds, release)) # None

\* Seen through facets(), a cut is one change of a table of selectors, and a
\* deployment leaves exactly the release and the diamond's own functions.
Table == INSTANCE SelectorTable
           WITH table <- LoupeTable(ds),
                DefaultTable <- LoupeTable(AfterCuts(EmptyStorage, DefaultCuts))
ImplementsTable == Table!Spec

=============================================================================
