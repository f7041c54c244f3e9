SPECIFICATION Spec
CONSTANTS
  None = None
  S1 = S1
  S2 = S2
  MinReal = 1
  MinPositive = 3
  MaxP95 = 150
  MinRuns = 3
  MaxFirst = 300
  MaxSilence = 150
  Sources <- MCSources
  Decisions <- MCDecisions
  VoiceRuns <- MCVoiceRuns
  Sessions <- MCSessions
  MaxRuns = 3
  MaxChanges = 2
CHECK_DEADLOCK FALSE
PROPERTIES
    CorpusKept
