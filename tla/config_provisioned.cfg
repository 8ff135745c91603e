\* Expected to be violated: the first save, cut between its last data write and the
\* pointer, leaves a complete valid slot that is_provisioned does not see.
SPECIFICATION Spec
CONSTANTS
  Blank = Blank
  x1 = x1
  x2 = x2
  x3 = x3
  Configs = {x1}
  SavingModes = {"portal"}
  MaxGeneration = 2
INVARIANTS
  ProvisionedWhenComplete
