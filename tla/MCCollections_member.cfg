SPECIFICATION Spec
CONSTANTS
  Users = {alice, bob}
  Nobody = Nobody
  Creator = alice
  Docs = {d1}
  NoDoc = NoDoc
  Uploads = {h1}
  Limit = 1
  MaxStops = 0
  MaxFaults = 0
  MaxStuck = 0
INVARIANTS SharedReachesOwner
CHECK_DEADLOCK FALSE
