SPECIFICATION SerialSpec
CONSTANTS
  food = food
  books = books
  inn = inn
  shop = shop
  tea = tea
  m1 = m1
  w1 = w1
  w2 = w2
  nothing = nothing
  Categories = {food, books}
  Stores = {inn, shop}
  Products = {tea}
  Menus = {m1}
  Requests = {w1, w2}
  Nothing = nothing
SYMMETRY Symmetric
INVARIANTS
  StoreFollowsCategory
  ProductFollowsStore
  MenusResolve
PROPERTIES
  MisfitsHidden
