SPECIFICATION AdaptationSpec
CONSTANTS
  InitialStructures <- MCRoomyStructures
  Objective <- MCRoomyObjective
  SignalSets <- MCSignals
  Precision = 1
  Utilities <- MCLowUtilities
  EnableMutation = TRUE
  EnableLearning = TRUE
  ChurnAfter = 2
  LearningWindow = 3
  NoAssessment = NoAssessment
  MaxCycles = 12
INVARIANT
  ExecutedIsAuthorized
CHECK_DEADLOCK FALSE
