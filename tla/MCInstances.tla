----------------------------- MODULE MCInstances -----------------------------
(***************************************************************************)
(* Values for model checking Instances: two pods and their instances, of   *)
(* which the name of pod b contains the name of instance a too.            *)
(***************************************************************************)
EXTENDS Instances

CONSTANTS a, b

OneName == {a}
TwoNames == {a, b}
Own == {<<a, a>>}
Overlapping == {<<a, a>>, <<b, b>>, <<b, a>>}
OnlyA == {a}
OnlyB == {b}
Nobody == {}

(* What the launcher and the collector are written to survive. *)
Survived == {"lxd", "network", "proxy", "kill", "podconf"}
NoFaults == {}
OnlyPodlist == {"podlist"}
=============================================================================
