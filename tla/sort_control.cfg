SPECIFICATION ListsSpec
CONSTANTS
  d1 = d1
  d2 = d2
  u1 = u1
  u2 = u2
  vase = vase
  velo = velo
  Search = Search
  Favorites = Favorites
  SearchDetail = SearchDetail
  FavoritesDetail = FavoritesDetail
  NoUser = NoUser
  NoScreen = NoScreen
  NoAd = NoAd
  Login = Login
  Docs <- TwoDocs
  Users = {u1}
  Titles = {vase, velo}
  TitleOf <- OwnTitle
  AuthorOf <- SameAuthor
  Screens <- FourScreens
  KindsOf <- ByScreen
  Disturbances = {}
  MaxOutstanding = 1
INVARIANT SortFollowsControl
