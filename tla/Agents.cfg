SPECIFICATION AgentsSpec
CONSTANTS
  a1 = a1
  a2 = a2
  a3 = a3
  Human = Human
  Agents = {a1, a2, a3}
  MaxAuthority = 20
  ProposeMin = 16
  VoteMin = 12
  ProbationBelow = 6
  BootstrapAuthority = 13
  BootstrapTop = 2
  LearningRate = 6
  Decay = 3
  JoinAuthorities <- MCJoin
  OverrideAuthorities <- MCOverride
SYMMETRY Symmetry
INVARIANT AgentsTypeOK
PROPERTIES EarnedAuthority HealthyAfterAction NoSilentReturn ProbationLedgered
