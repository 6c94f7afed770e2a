SPECIFICATION FairSpec
CONSTANTS
  None = None
  Settings <- MCSettings
  Releases <- MCReleases
  Tags = {"Facets", "Vault", "Paymaster"}
  MaxReleases = 1
  MaxCrashes = 2
  MaxExtras = 1
CHECK_DEADLOCK FALSE
INVARIANT DeploymentConsistent
INVARIANT CompletedRunConfigures
PROPERTY PauseOutlivesRuns
PROPERTY RetriesComplete
