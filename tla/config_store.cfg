SPECIFICATION Spec
CONSTANTS
  Blank = Blank
  x1 = x1
  x2 = x2
  x3 = x3
  Configs = {x1, x2, x3}
  SavingModes = {"portal", "normal"}
  MaxGeneration = 4
SYMMETRY Symmetry
INVARIANTS
  TypeOK
  NoMixture
  ProvisionedAgrees
  AcknowledgedSurvives
