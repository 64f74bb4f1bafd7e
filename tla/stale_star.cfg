SPECIFICATION Spec
CONSTANTS
  d1 = d1
  d2 = d2
  u1 = u1
  u2 = u2
  vase = vase
  velo = velo
  s1 = s1
  s2 = s2
  NoUser = NoUser
  NoScreen = NoScreen
  NoAd = NoAd
  Login = Login
  Docs <- OneDoc
  Users = {u1}
  Titles = {vase}
  TitleOf <- SingleTitle
  AuthorOf <- SingleAuthor
  Screens = {s1, s2}
  KindsOf <- OnlyDetails
  Disturbances = {}
  MaxOutstanding = 1
INVARIANT StarSettles

CHECK_DEADLOCK FALSE
