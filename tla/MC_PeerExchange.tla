------------------------- MODULE MC_PeerExchange -------------------------
(* Three nodes, one of them searching, and a provider limit of two, so   *)
(* that the search can find itself and other providers and hit the limit.*)
EXTENDS PeerExchange

CONSTANTS n1, n2, n3

MCNode == {n1, n2, n3}

MCSearchers == {n1}

=============================================================================
