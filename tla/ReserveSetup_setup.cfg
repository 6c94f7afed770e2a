SPECIFICATION FairSpec
CONSTANTS
  None = None
  Crab = Crab
  Fixed = Fixed
  Collections = {Crab, Fixed}
  Targets = {Crab, Fixed}
  Tasks = {"initialize-reserve", "configurator-initialize-reserve", "bootstrap"}
  Manual <- MCManual
  Selections <- MCSelections
  Mining = {"auto", "interval"}
  Junior = 1
  Senior = 2
  MaxCrashes = 2
  MaxRuns = 2
CHECK_DEADLOCK FALSE
INVARIANT ReservesConsistent
INVARIANT FinishedRunSetsUp
INVARIANT ScriptsInOrder
PROPERTY RetriesComplete
