\* A chain of two hits outlives the TTL of the first call.
SPECIFICATION Spec
CONSTANTS
  Conns = {c1}
  Tools = {"s2_lookup", "evidence_store_write"}
  Args = {a}
  Versions = {1, 2}
  Categories = {"schema_invalid"}
  NoCategory = NoCategory
  Cached = {"s2_lookup"}
  TTL = 1
  MaxTime = 2
  MaxCalls = 3
INVARIANTS
  HitWithinTTL
