\* Two connections, one cached and one uncached tool, two releases, three
\* calls; a cached row is servable in the tick it was created in.
SPECIFICATION Spec
CONSTANTS
  Conns = {c1, c2}
  Tools = {"s2_lookup", "evidence_store_write"}
  Args = {a}
  Versions = {1, 2}
  Categories = {"schema_invalid"}
  NoCategory = NoCategory
  Cached = {"s2_lookup"}
  TTL = 0
  MaxTime = 1
  MaxCalls = 3
SYMMETRY Symmetry
INVARIANTS
  HitHasSource
  AuditFollowsTransaction
