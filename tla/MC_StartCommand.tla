--------------------------- MODULE MC_StartCommand ---------------------------
EXTENDS StartCommand

\* `start` for a new network, and `start --join <id>`.
MCJoins == {"", "id"}
=============================================================================
