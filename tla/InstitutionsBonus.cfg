SPECIFICATION Spec
CONSTANTS
  a1 = a1  a2 = a2  a3 = a3  a4 = a4
  i1 = i1  i2 = i2
  Agents = {a1, a2, a3, a4}
  Founders = {a1, a2}
  Levels = {50, 95}
  Endowment = 10000
  RoleNames = {"clerk"}
  Markets = {i1, i2}
  Stakes = {5000}
  Beliefs = {5, 60}
  LearningRate = 5
  Decay = 2
  SpawnMin = 60
  MergeMin = 50
  SpawnShare = 30
  CreditShare = 20
  Ratios = {30}
  Histories <- McHistories
  AssignmentIds = {i1, i2}
  Definitions <- McDefinitions
  CriticalMin = 70
  AmendmentIds = {i1, i2}
  NewIds = {"INV-3"}
  Words = {i1, i2, "kill"}
  Foundation <- McFoundation
  Texts = {{}}
  AmendMin = 90
  EligibleMin = 60
  ApprovalRatio = 80
  Quorum = 60
  MinVoters = 2
  Peers = {i1, i2}
  Secondments = {i1, i2}
  FederateMin = 70
  SendMin = 50
  SecondMin = 80
  Attestations = {i1, i2}
  Attested = {90}
  Trusts = {30, 50}
  ImportMin = 40
  Boost = 30
  DecaySteps = 2
  Entries = {i1, i2}
  Tags = {"cost", "risk"}
INVARIANT BonusEarned
SYMMETRY Symmetry
CHECK_DEADLOCK FALSE
