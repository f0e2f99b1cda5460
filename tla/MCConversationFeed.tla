------------------------- MODULE MCConversationFeed -------------------------
(* ConversationFeed on a small instance.                                   *)
EXTENDS ConversationFeed, TLC

Symmetry == Permutations(Device) \cup Permutations(Turn)
=============================================================================
