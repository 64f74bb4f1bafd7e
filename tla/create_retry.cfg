SPECIFICATION FairSpec
CONSTANTS
  u1 = u1
  u2 = u2
  Users = {u1, u2}
  NoUser = NoUser
  MaxForms = 1
  MaxTaps = 2
  Disturbances = {"reject", "revoke", "restart"}
INVARIANT OncePerTap
PROPERTY PublicationsDrain
