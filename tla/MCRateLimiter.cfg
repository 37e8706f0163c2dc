\* Two threads, two roles of one provider, a bucket of two tokens that a tick
\* fills by two thirds of a token, four requests, with fairness.
SPECIFICATION FairSpec
CONSTANTS
  Threads = {t1, t2}
  Roles = {"wide", "deep"}
  Providers = {"v1"}
  ProviderOf <- OneProvider
  NoOne = NoOne
  Burst = 2
  Unit = 3
  Refill = 2
  MaxTime = 2
  MaxCalls = 4
INVARIANTS
  OneBucketPerProvider
  WindowBound
PROPERTY
  EveryRequestPasses
