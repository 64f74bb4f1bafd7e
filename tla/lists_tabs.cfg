SPECIFICATION ListsSpec
CONSTANTS
  d1 = d1
  d2 = d2
  u1 = u1
  u2 = u2
  vase = vase
  velo = velo
  Search = Search
  Favorites = Favorites
  SearchDetail = SearchDetail
  FavoritesDetail = FavoritesDetail
  NoUser = NoUser
  NoScreen = NoScreen
  NoAd = NoAd
  Login = Login
  Docs <- OneDoc
  Users = {u1}
  Titles = {vase}
  TitleOf <- OneTitle
  AuthorOf <- OneAuthor
  Screens <- FourScreens
  KindsOf <- ByScreen
  Disturbances = {"switch", "restart"}
  MaxOutstanding = 2
INVARIANTS ListsTypeOK CopiesBounded DeletedStaysOffLists FavouritesReachTheirList
CONSTRAINT SortWhileIdle
