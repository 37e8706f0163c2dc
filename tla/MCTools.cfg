\* A paper of each kind for Deep; two tool calls in a turn of Wide.
SPECIFICATION FairSpec
CONSTANTS
  Papers = {"arxiv", "s2", "web"}
  Web = {"web"}
  Arxiv = {"arxiv"}
  RetryAfters = {0, 5}
  Tokens <- AllTokens
  Contents <- SmallContents
  Tags <- SmallTags
  MaxCalls = 2
  None = None
INVARIANTS
  DeepSeesContract
  OnlyThrottledRetried
  WaitsAsTold
  UntrustedStaysInside
  EveryCallAnswered
PROPERTY
  Terminates
