SPECIFICATION Spec
CONSTANTS
  d1 = d1
  d2 = d2
  u1 = u1
  u2 = u2
  vase = vase
  velo = velo
  s1 = s1
  s2 = s2
  NoUser = NoUser
  NoScreen = NoScreen
  NoAd = NoAd
  Login = Login
  Docs <- TwoDocs
  Users = {u1, u2}
  Titles = {vase, velo}
  TitleOf <- OneTitle
  AuthorOf <- TwoAuthors
  Screens = {s1}
  KindsOf <- OnlyDetails
  Disturbances = {}
  MaxOutstanding = 2
PROPERTY DeletionsByAuthors
CHECK_DEADLOCK FALSE
