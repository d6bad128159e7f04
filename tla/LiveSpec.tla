------------------------------ MODULE LiveSpec ------------------------------
(***************************************************************************)
(* What ui.Live (src/pkg/ui/ui.go) does for an ASCII message, as one step: *)
(* it prints the formatted message fitted to the console, whole and padded *)
(* with spaces when it fits, else cut to a prefix followed by "…" and      *)
(* spaces.  The prefix is the longer of the message less four bytes (one   *)
(* cut) and the width less one rune: each further cut removes the three    *)
(* bytes of "…" and one ASCII byte, and appends "…" again.  Bytes are      *)
(* their UTF-8 class, as in ConsoleLine: 1 for ASCII, w for the lead byte  *)
(* of a rune of w bytes, 0 for a continuation byte.                        *)
(***************************************************************************)
EXTENDS Integers, Sequences

CONSTANT Width   \* the widths ConsoleWidth can return

VARIABLES
    line,     \* the formatted message "<spinner> <msg>"
    width,    \* the console width
    printed,  \* Live has printed
    out       \* what it printed

vars == <<line, width, printed, out>>

ASCII == 1

Ellipsis == <<3, 0, 0>>

Spaces(k) == [i \in 1..k |-> ASCII]

Shorter(a, b) == IF a < b THEN a ELSE b

\* The line of exactly w runes that Live prints for the ASCII line s.
Fitted(s, w) ==
    IF Len(s) <= w
      THEN s \o Spaces(w - Len(s))
      ELSE LET m == Shorter(Len(s) - 4, w - 1)
           IN  SubSeq(s, 1, m) \o Ellipsis \o Spaces(w - m - 1)

Init ==
    /\ line \in Seq({ASCII})
    /\ width \in Width
    /\ printed = FALSE
    /\ out = <<>>

Show ==
    /\ ~printed
    /\ printed' = TRUE
    /\ out' = Fitted(line, width)
    /\ UNCHANGED <<line, width>>

Spec == Init /\ [][Show]_vars /\ WF_vars(Show)

=============================================================================
