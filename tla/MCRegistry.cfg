\* Three workers under READ COMMITTED row locks, four version rows.
CONSTANTS
  NoVersion = NoVersion
  Versions = {v1, v2, v3, v4}
  Requests = {r1, r2, r3}
  Database = "postgres"
SYMMETRY RegistrySymmetry
SPECIFICATION Spec
INVARIANTS TypeOK SlotConsistent StatusFollowsFlag
PROPERTY ImplementsSlot
