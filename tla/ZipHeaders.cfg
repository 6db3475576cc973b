CONSTANTS
  Big16 = 240
  Big32 = 1000
  Soon32 = 960
  NoEpoch = 4095
  FieldLen <- MCFieldLen
  Archives <- MCArchives
  Options <- MCOptions
  Files <- MCFiles
  NewName = 7
  MaxUpdates = 2
SPECIFICATION Spec
INVARIANTS ReadsBack
PROPERTIES FailsOnlyIfTooLarge StaysOpen FieldsStay
