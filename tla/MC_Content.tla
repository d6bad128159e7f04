---------------------------- MODULE MC_Content ----------------------------
(* Two file contents, so that a swap of two artifacts is visible; foreign *)
(* directories without genesis, without image, and with every file; two   *)
(* Publish sandboxes.                                                     *)
EXTENDS Content

CONSTANTS v1, v2

MCVal == {v1, v2}

MCForeign ==
    { [n \in {"chainkit.yml", "image.tgz"} |-> v1],
      [n \in {"chainkit.yml", "genesis.json"} |-> v2],
      [n \in FileName |-> v2] }

=============================================================================
