CONSTANTS
  Archives <- MCArchives
  BindInfos = {"a", "b", "c"}
  RefusedBinds = {"c"}
  NoCoderBinds = {"b"}
  Faults = TRUE
SPECIFICATION Spec
INVARIANTS ResultsFollowRequest ResultsAreHonest MixerIsForFolder
