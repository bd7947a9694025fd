CONSTANTS
  ann = ann
  sam = sam
  root = root
  Nothing = Nothing
  Users <- MCUsers
  Admins <- MCAdmins
  Talkers <- MCTalkers
  Donors <- MCDonors
  Targets <- MCTargets
  Contexts <- MCContexts
  Rank <- MCRank
  Requests = {r1, r2}
  MaxRequests = 4
  ConversationIds = {c1, c2}
  MessageIds = {m1, m2}
  ComplaintIds = {x1}
  FeedbackIds = {f1}
  UploadIds = {u1}
  Owners <- MCOwners
  Picks <- MCPicks
  Files = {k1}
  DonationIds = {d1}
  ProofIds = {s1, s2}
  Methods = {m}
  TxIds = {t1, t2}
SPECIFICATION SerialSpec
SYMMETRY Symmetry
CHECK_DEADLOCK FALSE
INVARIANTS
  OneConversation
  NobodyForgotten
  LastWordTold
  Acknowledged
  FilesOpen
  DonationDecided
