CONSTANTS
  ann = ann
  sam = sam
  root = root
  NoTerms = NoTerms
  NoProof = NoProof
  Users <- MCUsers
  Admins <- MCAdmins
  Products = {pen}
  SellerOf <- MCSellerOf
  Baskets <- OneUnit
  InitialStock <- MCStock
  Goals <- FewGoals
  OrderIds = {o1, o2}
  Requests = {r1}
  ProofIds = {s1, s2}
  Keys = {k1}
  Clerks = {c1, c2}
  MaxFailures = 1
SPECIFICATION PaySerialSpec
SYMMETRY Symmetry
INVARIANT KeyUsedOnce
