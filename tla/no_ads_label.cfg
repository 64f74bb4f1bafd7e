CONSTANTS
  anna = anna
  boris = boris
  NoUser = NoUser
  Users <- MCUsers
  Sellers <- MCUsers
  MaxCalls = 1
  MaxWaits = 2
  Disturbances = {}
SPECIFICATION Spec
INVARIANT NoAdsLabelTrue
