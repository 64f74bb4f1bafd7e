CONSTANTS
  anna = anna
  boris = boris
  NoUser = NoUser
  Users <- MCUsers
  Sellers <- MCUsers
  MaxCalls = 2
  MaxWaits = 2
  Disturbances = {"fail", "revoke", "cover", "restart"}
SPECIFICATION Spec
INVARIANTS HomeTypeOK LoginComes CellsOfOneUser
SYMMETRY Symmetry
