------------------------ MODULE MCCommandLifecycle ------------------------
\* An instance of CommandLifecycle for TLC.
EXTENDS CommandLifecycle
=============================================================================
