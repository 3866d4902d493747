------------------------------ MODULE MCServing ------------------------------
(***************************************************************************)
(* Values for model checking Serving: two ports, three probes in a row     *)
(* that may fail of which LXD may miss two, and the faults of Instances    *)
(* that meet a serving launcher.                                           *)
(***************************************************************************)
EXTENDS Serving

Met == {"lxd", "proxy", "kill"}
Itself == {Self}
=============================================================================
