--------------------------- MODULE MC_Lifecycle ---------------------------
(* Two processes over one root, two bootstrap peers, up to two Start calls *)
(* per Server so that a restart after Stop is explored.                    *)
EXTENDS Lifecycle

CONSTANTS p1, p2

MCProc == {p1, p2}

=============================================================================
