----------------------------- MODULE MCImagePull -----------------------------
(***************************************************************************)
(* Values for model checking ImagePull: the sets of faults of its runs.    *)
(* Two versions are enough to tell what is stale or mixed; a folder and an *)
(* LXD that are behind the tag are initial states.                         *)
(***************************************************************************)
EXTENDS ImagePull

(* What the pull is written to survive. *)
Survived == {"http", "disk", "lxd", "crash", "retag"}
NoFaults == {}
OnlyRace == {"http", "race"}
OnlyErrorBody == {"errorbody"}
=============================================================================
