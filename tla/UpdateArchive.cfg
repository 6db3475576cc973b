CONSTANTS
  Scenes <- MCScenes
  MaxRuns = 2
  Faults = TRUE
  Crashes = TRUE
SPECIFICATION Spec
INVARIANTS SuccessMeansUpdated NothingIsLost ErrorKeepsArchive
