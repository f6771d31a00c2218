SPECIFICATION Spec
CONSTANTS
  Sessions = {s1, s2}
  Calls = {c1, c2, c3}
  Configs <- MCConfigs
  Cold <- MCCold
  Models <- MCModels
  Profiles <- MCProfiles
  Accounts <- MCAccounts
  Builtin <- MCBuiltin
  Requested = Requested
  None = None
  Absent = Absent
  here = here
  there = there
  opus = opus
  sonnet = sonnet
  nova = nova
  titan = titan
  usOpus = usOpus
  globalOpus = globalOpus
  otherOpus = otherOpus
SYMMETRY Symmetry
INVARIANTS
  CacheIsThePlaces
  OwnModel
  RaisesOnlyIfClosed
  RefusedForCause
CHECK_DEADLOCK FALSE
