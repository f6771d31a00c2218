SPECIFICATION Spec
CONSTANTS
  Sessions = {s1}
  Calls = {c1, c2, c3}
  Configs <- MCOneConfig
  Cold <- MCCold
  Models <- MCModels
  Profiles <- MCProfiles
  Accounts <- MCAccounts
  Builtin <- MCBuiltin
  Requested = Requested
  None = None
  Absent = Absent
  here = here
  there = there
  opus = opus
  sonnet = sonnet
  nova = nova
  titan = titan
  usOpus = usOpus
  globalOpus = globalOpus
  otherOpus = otherOpus
INVARIANTS
  StaysOnLastUsed
CHECK_DEADLOCK FALSE
