SPECIFICATION Spec
CONSTANTS
  Users = {alice}
  PM = PM
  Router = Router
  NoUser = NoUser
  MaxAmount = 1
  MaxSteps = 2
INVARIANTS FillsAddUp
CHECK_DEADLOCK FALSE
