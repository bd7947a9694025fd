CONSTANTS
  ann = ann
  sam = sam
  root = root
  pen = pen
  NoTerms = NoTerms
  Users <- MCUsers
  Admins <- MCAdmins
  SellerOf <- MCSellerOf
  InitialStock <- MCStock
  Products = {pen}
  Baskets <- OnePen
  Goals <- AllGoals
  OrderIds = {o1}
  Requests = {r1, r2}
SPECIFICATION Spec
SYMMETRY Symmetry
INVARIANT NoUnitInvented
