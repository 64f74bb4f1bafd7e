SPECIFICATION Spec
CONSTANTS
  u1 = u1
  u2 = u2
  Users = {u1, u2}
  NoUser = NoUser
  MaxForms = 2
  MaxTaps = 1
  Disturbances = {"reject", "revoke", "restart"}
INVARIANTS TypeOK AuthorIsPublisher PicturesExist StreetHasPlace
