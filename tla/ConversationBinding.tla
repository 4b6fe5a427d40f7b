------------------------ MODULE ConversationBinding ------------------------
(***************************************************************************)
(* What a runtime adapter promises about the provider conversations it      *)
(* keeps: a conversation that has been given a turn of one communication    *)
(* session is never given a turn of another.  ClaudeSession and             *)
(* CodexSession are shown to implement it.                                  *)
(***************************************************************************)
CONSTANTS Conversations, Grants
VARIABLE owners

Init == owners \in [Conversations -> {{}} \cup {{g} : g \in Grants}]

\* The first turn of a conversation settles whose it is.
Bind(id, g) ==
    /\ owners[id] = {}
    /\ owners' = [owners EXCEPT ![id] = {g}]

Next == \E id \in Conversations, g \in Grants : Bind(id, g)

Spec == Init /\ [][Next]_owners
=============================================================================
