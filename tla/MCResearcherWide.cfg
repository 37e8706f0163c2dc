\* Up to two sections, two papers, a cap of one hand-off, three turns of up to two
\* tool calls, a budget one response can exceed, with fairness.
SPECIFICATION FairSpec
CONSTANTS
  Ids = {"S1", "S2"}
  Outlines <- SmallOutlines
  Papers = {p, q}
  NoCategory = NoCategory
  MaxTurns = 3
  MaxHandoff = 1
  Budget = 1
  MaxUsage = 2
  MaxCalls = 2
INVARIANTS
  HandoffBound
  OverrunByOneResponse
  ForcedExitKeepsSeen
  Delivers
PROPERTY
  Terminates
