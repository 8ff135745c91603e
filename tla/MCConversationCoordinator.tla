-------------------- MODULE MCConversationCoordinator --------------------
\* Instances of ConversationCoordinator for TLC.
EXTENDS ConversationCoordinator, TLC

\* Start attempts are interchangeable: sound for the safety run.
Symmetry == Permutations(Attempts)
=============================================================================
