SPECIFICATION SerialSpec
CONSTANTS
  ann = ann
  bob = bob
  clerk = clerk
  a1 = a1
  a2 = a2
  food = food
  w1 = w1
  w2 = w2
  nothing = nothing
  Users = {ann, bob}
  CustomRoles = {clerk}
  Applications = {a1, a2}
  Categories = {food}
  Requests = {w1, w2}
  Nothing = nothing
SYMMETRY Symmetric
INVARIANTS
  SellersHaveStores
  OneApplication
  AccessRoleFits
  ToldIsTrue
