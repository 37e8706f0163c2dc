\* Two sections that may share papers, two papers to fetch, one re-entry and one
\* crash.  Symmetry would be unsound with Terminates.
SPECIFICATION FairSpec
CONSTANTS
  Sections = {s1, s2}
  Papers = {"arxiv", "s2"}
  Web = {}
  Arxiv = {"arxiv"}
  Claims = {"c1"}
  NoCategory = NoCategory
  MaxPasses = 2
  MaxRestarts = 1
INVARIANTS
  LeavesOnlyAnswered
  EvidenceGrounded
  OnePassPerSection
  CollidesOnlyOnRerun
  Delivers
PROPERTY
  Terminates
