SPECIFICATION Spec
CONSTANTS
  a1 = a1
  a2 = a2
  p1 = p1
  p2 = p2
  Agents = {a1, a2}
  Proposals = {p1, p2}
  Parameters <- MCParameters
  Category <- MCCategory
  Values = {0, 1}
  Bounds <- MCBounds
  Default <- MCDefault
  MaxAuthority = 3
  EvolveMin = 3
  EligibleMin = 2
  Standings <- MCStandings
  Cooldown = 1
  MaxTime = 1
SYMMETRY Symmetry
PROPERTY RollbackRestores
