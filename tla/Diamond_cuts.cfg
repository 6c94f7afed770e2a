SPECIFICATION Spec
CONSTANTS
  A = "a"
  B = "b"
  C = "c"
  Movable = {"a", "b", "transferOwnership"}
  Selectors <- MCSelectors
  CutSelector = "diamondCut"
  LoupeSelectors <- MCLoupe
  OwnershipSelectors <- MCOwnership
  None = None
  Self = Self
  CutFacet = CutFacet
  LoupeFacet = LoupeFacet
  OwnershipFacet = OwnershipFacet
  F1 = F1
  F2 = F2
  Codeless = Codeless
  Facets = {Self, CutFacet, LoupeFacet, OwnershipFacet, F1, F2, Codeless}
  HasCode = {Self, CutFacet, LoupeFacet, OwnershipFacet, F1, F2}
  Hosts = {Self, OwnershipFacet, F1, Codeless}
  Initialisers = {None, F1, Codeless}
  Accounts = {o1}
  CutInputs <- MCCuts
  Releases <- MCReleases
CHECK_DEADLOCK FALSE
INVARIANT TypeOK
INVARIANT IndicesInverse
INVARIANT UpgradeNeverBlocked
PROPERTY ImmutableStays
PROPERTY ImplementsTable
