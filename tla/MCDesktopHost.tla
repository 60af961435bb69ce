---------------------------- MODULE MCDesktopHost ----------------------------
(* Instances of the desktop control plane: two request threads, and the    *)
(* kinds of request each run sends.                                        *)
EXTENDS DesktopHost, TLC
CONSTANTS h1, h2, m1, m2, c1, c2

TwoHandlers == {h1, h2}
TwoModels == {m1, m2}
TwoConversations == {c1, c2}
Symmetry == Permutations(TwoHandlers) \union Permutations(TwoModels)
            \union Permutations(TwoConversations)
EngineRequests == {"load", "unload", "cancel", "shutdown"}
ChatRequests == {"load", "unload", "chat", "switch", "select", "patch", "configure"}
SettingsRequests == {"load", "chat", "select", "patch", "configure"}
=============================================================================
