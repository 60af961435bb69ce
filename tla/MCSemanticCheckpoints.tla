----------------------- MODULE MCSemanticCheckpoints -----------------------
(* A chat that is edited: prompts that branch off one another at every      *)
(* distance from a message start.                                           *)
EXTENDS SemanticCheckpoints

CONSTANTS h, a, b

MCWord == {a, b}
MCSampled == {b}

Chat(tokens) == [tokens |-> tokens, cache_prompt |-> TRUE]

MCTasks ==
    {Chat(<<h, a, a, a, h>>), Chat(<<h, a, a, b, b, h>>), Chat(<<h, b, b, b, b, h>>),
     Chat(<<h, b, h, a>>), [tokens |-> <<h, b, h>>, cache_prompt |-> FALSE]}
=============================================================================
