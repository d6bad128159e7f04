--------------------------- MODULE MC_JoinCommand ---------------------------
EXTENDS JoinCommand

CONSTANTS j1, j2

\* Two `bitcoinx join` processes for the same chain ID.
MCCmd == {j1, j2}
=============================================================================
