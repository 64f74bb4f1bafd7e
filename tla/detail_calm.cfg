SPECIFICATION FairSpec
CONSTANTS
  d1 = d1
  d2 = d2
  u1 = u1
  u2 = u2
  vase = vase
  velo = velo
  s1 = s1
  s2 = s2
  NoUser = NoUser
  NoScreen = NoScreen
  NoAd = NoAd
  Login = Login
  Docs <- TwoDocs
  Users = {u1, u2}
  Titles = {vase}
  TitleOf <- OneTitle
  AuthorOf <- OneAuthor
  Screens = {s1}
  KindsOf <- OnlyDetails
  Disturbances = {"restart"}
  MaxOutstanding = 3
INVARIANT StarSettles
PROPERTIES EverythingDrains DeletionsByAuthors
