SPECIFICATION Spec
CONSTANTS
  u1 = u1
  u2 = u2
  Users = {u1, u2}
  NoUser = NoUser
  MaxForms = 1
  MaxTaps = 1
  Disturbances = {}
INVARIANT HiddenStaysHidden
