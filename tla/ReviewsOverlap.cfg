SPECIFICATION Spec
CONSTANTS
  ann = ann
  bob = bob
  eve = eve
  tea = tea
  cup = cup
  book = book
  inn = inn
  shop = shop
  o1 = o1
  o2 = o2
  o3 = o3
  x1 = x1
  x2 = x2
  w1 = w1
  w2 = w2
  nothing = nothing
  Users = {ann, bob, eve}
  Products = {tea, cup, book}
  Stores = {inn, shop}
  Orders = {o1, o2, o3}
  Reviews = {x1, x2}
  Requests = {w1, w2}
  StoreOf <- StoreOfEach
  Buyer <- BuyerOfEach
  Items <- ItemsOfEach
  StoreOfOrder <- StoreOfEachOrder
  Nothing = nothing
SYMMETRY Symmetric
INVARIANTS
  FiguresExact
PROPERTIES
  OnlyOwnMark
