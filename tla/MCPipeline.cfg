\* Outlines of three sections over two ids, two papers to read and one from the
\* web, another run with evidence about one of them; routing tables and prompts,
\* good and flawed.
SPECIFICATION Spec
CONSTANTS
  Ids = {"S1", "S2"}
  Outlines <- SomeOutlines
  Papers = {"p", "q", "w"}
  Web = {"w"}
  AgentRoles <- AllRoles
  Routings <- SomeRoutings
  Shared <- SharedFiles
  Supplied = {"topic"}
  Files <- SomeFiles
  Foreign <- SomeForeign
  None = None
INVARIANTS
  SetUpBeforeWork
  DraftsGrounded
  SuccessIsComplete
PROPERTY
  ImplementsLifecycle
