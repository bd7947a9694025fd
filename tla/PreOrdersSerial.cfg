SPECIFICATION SerialSpec
CONSTANTS
  ann = ann
  sam = sam
  cake = cake
  w1 = w1
  w2 = w2
  p1 = p1
  p2 = p2
  s1 = s1
  s2 = s2
  nothing = nothing
  Users = {ann, sam}
  Admins = {ann}
  Products = {cake}
  SellerOf <- MCSellerOf
  Offers <- MCOffers
  Sent <- MCSent
  Quantities = {2}
  Goals = {"confirmed", "fulfilled", "cancelled"}
  PreOrderIds = {p1, p2}
  ProofIds = {s1, s2}
  Requests = {w1, w2}
  MaxDeaths = 1
  Nothing = nothing
SYMMETRY Symmetric
INVARIANTS
  AwaitingHasProof
  SalesExact
  DepositDecides
PROPERTIES
  ReservedAsOffered
  OverIsOver
