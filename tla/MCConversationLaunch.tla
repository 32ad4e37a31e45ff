------------------------- MODULE MCConversationLaunch -------------------------
(* Instances of ConversationLaunch for TLC. *)
EXTENDS ConversationLaunch, TLC

(* Requests, conversations, handles and scenarios are interchangeable. *)
Symmetry ==
  Permutations(Callers) \cup Permutations(Conversations)
    \cup Permutations(Handles) \cup Permutations(Scenarios)

=============================================================================
