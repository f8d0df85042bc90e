------------------------ MODULE MCConversationStore --------------------------
(* Instances of ConversationStore for TLC.                                 *)
EXTENDS ConversationStore, TLC
Symmetry == Permutations(Messages) \cup Permutations(Updates)
=============================================================================
