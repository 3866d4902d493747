-------------------------- MODULE MCRegistryClient --------------------------
(***************************************************************************)
(* Values for model checking RegistryClient.  Two tags of one repository   *)
(* share a token, an image of another repository does not; the third name  *)
(* says nothing about its registry, and one cannot be read at all.         *)
(***************************************************************************)
EXTENDS RegistryClient, TLC

CONSTANTS w1, w2, a1, a2, b, bad, manage, load

Pair == {w1, w2}
OneEach == (w1 :> manage) @@ (w2 :> load)
BothManage == (w1 :> manage) @@ (w2 :> manage)
JustLoad == {w2}
NoLoaders == {}

Three == {a1, b, bad}
Tags == {a1, a2, b}
KindOf == (a1 :> "swr") @@ (a2 :> "swr") @@ (b :> "plain") @@ (bad :> "malformed")
RepoOf == (a1 :> "a") @@ (a2 :> "a") @@ (b :> "b") @@ (bad :> "b")
ThreeKinds == [i \in Three |-> KindOf[i]]
TagKinds == [i \in Tags |-> KindOf[i]]

AllFaults == {"http", "errorbody", "retag"}
NoFaults == {}
=============================================================================
