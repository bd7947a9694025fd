------------------------------ MODULE MCSupport ------------------------------
(* Instances of Support for TLC.                                            *)
EXTENDS Support, TLC

CONSTANTS ann, sam, root

MCUsers  == {ann, sam, root}
MCAdmins == {root}
MCTalkers == {ann, root}
MCDonors == {ann}
MCOwners == {ann}

MCPicks == {{"finance.manage"}, {"seller_applications.review"}}

\* An order of ann's in sam's store.
MCTargets == {[type |-> "order", buyer |-> ann, seller |-> sam]}

MCContexts == {Nothing}
MCRank == ann :> 1 @@ sam :> 2 @@ root :> 3

Symmetry ==
  Permutations(Requests) \cup Permutations(ConversationIds) \cup
  Permutations(MessageIds) \cup Permutations(ProofIds) \cup Permutations(TxIds)
=============================================================================
