SPECIFICATION Spec
CONSTANTS
  MaxClients = 2
  Backlog = 2
  MayFail = FALSE
INVARIANT DisabledServesNobody
