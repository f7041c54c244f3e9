\* Two connections over two ids, two overlapping iterations of the stream
\* adapter, two processors on one conductor.
SPECIFICATION Spec
CONSTANTS
  Conns = {"c1", "c2"}
  Ids = {"s1", "s2"}
  Silence = 2
  MinSpeech = 2
  MaxMessages = 6
  Nobody = Nobody
  MaxIterations = 2
  MaxCalls = 2
  MaxFrames = 2
  Processors = {"p1", "p2"}
  LegacyStates <- MCLegacyStates
  MaxLegacyTurns = 3
  NoProcessor = NoProcessor
CHECK_DEADLOCK FALSE
INVARIANTS
    GatewayInv
    AdapterInv
    ProcessorInv
PROPERTIES
    EndLosesNothing
    ComesToRest
    ChangeAnnounced
