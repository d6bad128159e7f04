--------------------------- MODULE MC_ConsoleLine ---------------------------
EXTENDS ConsoleLine

\* Console widths from the narrowest usable one up to one the messages
\* overflow by several runes.
MCWidthAscii == 3..6

\* Messages of ASCII runes only.
MCRuneAscii == {1}

=============================================================================
