\* One invocation suffices for the disagreement about cancellation.
SPECIFICATION FairSpec
CONSTANTS
  Procs = {p1}
  Keys = {k1}
  Categories = {"context_overflow"}
  NoRun = NoRun
  NoCategory = NoCategory
PROPERTY
  CancelHonoured
