\* Three invocations over two keys: two racers and a bystander, or three racers,
\* with fairness.  Symmetry would be unsound with InvocationEnds.
SPECIFICATION FairSpec
CONSTANTS
  Procs = {p1, p2, p3}
  Keys = {k1, k2}
  Categories = {"context_overflow"}
  NoRun = NoRun
  NoCategory = NoCategory
INVARIANTS
  OneRunPerKey
  ConflictNamesWinner
  ExitTellsTruth
PROPERTY
  StageOrder
  ImplementsContract
  InvocationEnds
