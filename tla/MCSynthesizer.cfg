\* Grounding in sections that share a paper, answers that cite rows of another
\* section or rows that do not exist; packing with a base of 100 tokens and a
\* header of 9, and 41 tokens left for blocks of 18 to 100.
SPECIFICATION Spec
CONSTANTS
  Sections = {"S1", "S2", "S3"}
  Outlines <- SmallOutlines
  Papers = {"p", "q", "t", "u", "v"}
  EvidenceIds = {1, 2, 3, 4, 5, 6, 7}
  Stores <- AllStores
  Lists <- AllLists
  NoExtract = NoExtract
  NoCategory = NoCategory
  BaseChars = 403
  Budget = 150
INVARIANTS
  ExtractsGrounded
  SynthesisBacked
  DropsNeeded
  OverrunByRounding
  Delivers
