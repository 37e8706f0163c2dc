\* Papers two sections noted, one of them a web: paper.
SPECIFICATION Spec
CONSTANTS
  Sections = {s1, s2}
  Papers = {"arxiv", "s2", "web"}
  Web = {"web"}
  Arxiv = {"arxiv"}
  Claims = {"c1"}
  NoCategory = NoCategory
  MaxPasses = 1
  MaxRestarts = 0
INVARIANT
  BrokenSectionsKeepPapers
