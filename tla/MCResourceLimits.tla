--------------------------- MODULE MCResourceLimits ---------------------------
(***************************************************************************)
(* Values for model checking ResourceLimits: launches with a share of a    *)
(* core, with whole cores and with a percentage beyond one, that remove an *)
(* existing instance or not; one with an environment variable that has no  *)
(* value; one that is not valid; and one whose device the profiles do not  *)
(* have.                                                                   *)
(***************************************************************************)
EXTENDS ResourceLimits

V(n, unit) == [num |-> n, unit |-> unit]

Plain ==
  [egress |-> NoValue, ingress |-> NoValue, root |-> V(10, <<"Gi", "B">>), memory |-> NoValue,
   cpu |-> NoValue, container |-> TRUE, processes |-> V(50, <<>>), device |-> "eth0",
   additional |-> NoOptions, envs |-> NoOptions, envsGiven |-> TRUE, remove |-> FALSE]

Share == [Plain EXCEPT !.cpu = V(505, <<"core">>), !.egress = V(5, <<"M">>),
                       !.memory = V(1, <<"Gi">>), !.envs = Only("environment.A", Word("a"))]
Cores == [Plain EXCEPT !.cpu = V(2500, <<"core">>), !.ingress = V(7, <<"M", "bit">>),
                       !.remove = TRUE]
Part == [Plain EXCEPT !.cpu = V(150, <<"%">>), !.root = V(20, <<"Mi">>), !.container = FALSE,
                      !.memory = V(1, <<"Gi", "B">>),
                      !.additional = Only("limits.memory", V(2, <<"G", "B">>))]
NoEnv == [Plain EXCEPT !.envsGiven = FALSE]
NoCpu == [Plain EXCEPT !.cpu = V(0, <<"core">>)]
Elsewhere == [Plain EXCEPT !.device = "eth1", !.egress = V(5, <<"k", "bit">>)]


Words ==
  {"none", "edited", "disk", "nic", "a", "core", "%", "k", "M", "G", "Mi", "Gi", "bit", "B"}
Launches == {Share, Cores, Part, NoEnv, NoCpu, Elsewhere}
Nic == Over(Only("eth0", Only("type", Word("nic"))), Only("root", Only("type", Word("disk"))))
Options == {"limits.memory", "user.note"}
NicLimit == {<<"eth0", "limits.egress">>}
=============================================================================
