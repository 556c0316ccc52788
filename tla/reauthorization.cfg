SPECIFICATION ControlSpec
CONSTANTS
  Offers <- MCOffers
  Budgets = {0, 3}
  Grants = {{"tool"}}
  Permitted <- MCPermitted
  MaxActions = 1
INVARIANT
  AuthorizationRepeatable
CHECK_DEADLOCK FALSE
