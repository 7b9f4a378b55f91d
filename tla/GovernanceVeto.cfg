SPECIFICATION Spec
CONSTANTS
  a1 = a1
  a2 = a2
  Human = Human
  p1 = p1
  Agents = {a1, a2}
  Proposals = {p1}
  MaxAuthority = 3
  ProposeMin = 3
  VoteMin = 2
  ProbationBelow = 1
  BootstrapAuthority = 2
  BootstrapTop = 3
  LearningRate = 3
  Decay = 3
  JoinAuthorities <- MCJoin
  OverrideAuthorities <- MCOverride
  Cooldown = 1
  MaxTime = 1
SYMMETRY Symmetry
VIEW NoLog
PROPERTY VetoStands
