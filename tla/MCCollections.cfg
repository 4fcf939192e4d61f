SPECIFICATION Spec
CONSTANTS
  Users = {alice, bob}
  Nobody = Nobody
  Creator = alice
  Docs = {d1, d2, d3}
  NoDoc = NoDoc
  Uploads = {h1, h2}
  Limit = 1
  MaxStops = 1
  MaxFaults = 1
  MaxStuck = 2
SYMMETRY Symmetry
INVARIANTS TypeOK RowsHaveFiles LeaksHaveCauses QuotaByConcurrency GoneForAll
PROPERTIES OrphansStayListed
CHECK_DEADLOCK FALSE
