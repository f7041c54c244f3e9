SPECIFICATION Spec
CONSTANTS
  None = None
  S1 = S1
  S2 = S2
  MinReal = 1
  MinPositive = 1
  MaxP95 = 150
  MinRuns = 3
  MaxFirst = 300
  MaxSilence = 150
  Sources <- PhysicalSources
  Decisions <- MCDecisions
  VoiceRuns <- MCVoiceRuns
  Sessions <- MCSessions
  MaxRuns = 2
  MaxChanges = 1
CHECK_DEADLOCK FALSE
INVARIANTS
    RunInv
PROPERTIES
    VerdictEarned
    RunConcludes
