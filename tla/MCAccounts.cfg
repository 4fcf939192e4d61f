SPECIFICATION Spec
CONSTANTS
  Users = {root, ann}
  Browsers = {b1, b2}
  Bootstrapped = root
  NoUser = NoUser
  NoSession = NoSession
  MaxLogins = 2
  MaxInFlight = 2
  MaxOutages = 1
  MaxCommands = 1
SYMMETRY Symmetry
INVARIANTS AdminRemains
PROPERTIES ActiveAdminsDecide ActsAsShown
CHECK_DEADLOCK FALSE
