CONSTANTS
  Scenes <- MCScenes
  MaxRuns = 1
  Faults = FALSE
  Crashes = FALSE
SPECIFICATION Spec
INVARIANT DeletesArchivedFiles
