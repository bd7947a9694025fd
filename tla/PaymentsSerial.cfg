CONSTANTS
  ann = ann
  sam = sam
  root = root
  NoTerms = NoTerms
  NoProof = NoProof
  Users <- MCUsers
  Admins <- MCAdmins
  Products = {pen}
  SellerOf <- MCSellerOf
  Baskets <- OneUnit
  InitialStock <- MCStock
  Goals <- AllGoals
  OrderIds = {o1}
  Requests = {r1, r2}
  ProofIds = {s1, s2}
  Keys = {k1, k2}
  Clerks = {c1, c2}
  MaxFailures = 1
SPECIFICATION PaySerialSpec
SYMMETRY Symmetry
INVARIANTS
  UnderReviewHasProof
  OnePendingProof
  VerifiedIffPaid
  CancelledNotUnderReview
PROPERTIES
  ImplementsBook
