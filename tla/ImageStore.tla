----------------------------- MODULE ImageStore -----------------------------
(***************************************************************************)
(* What the pulls of one image promise to the launchers, who know the      *)
(* image only by its alias: without folder, registry, requests or faults.  *)
(*                                                                         *)
(* ImagePull with one puller implements it (ImagePull!StoreContract).  The *)
(* contract has four parts that the code spreads over several requests:    *)
(*   - what the alias names is there, and stays as long as it is named;    *)
(*   - an image that is to take over is there before the one in use has to *)
(*     make way, is another one, and stays until it has taken over or is   *)
(*     given up;                                                           *)
(*   - nobody but such an heir makes the image in use give way, and nobody *)
(*     but an heir is named;                                               *)
(*   - a name is given to one image at a time.                             *)
(***************************************************************************)
CONSTANTS
  Images,    \* the images there may be
  None       \* names no image

VARIABLES
  images,    \* the images that are there
  alias,     \* the one that is named, or None
  heir       \* the one that is to be named, or None

vars == <<images, alias, heir>>

Init ==
  /\ images \subseteq Images
  /\ alias \in images \union {None}
  /\ heir = None

(* An image comes when none is about to be named. *)
Import(i) ==
  /\ heir = None
  /\ images' = images \union {i}
  /\ UNCHANGED <<alias, heir>>

(* One that is there and not in use is to be named. *)
Choose(i) ==
  /\ heir = None
  /\ i # alias
  /\ heir' = i
  /\ UNCHANGED <<images, alias>>

(* The image in use gives way. *)
GiveWay ==
  /\ heir # None
  /\ alias' = None
  /\ UNCHANGED <<images, heir>>

Succeed ==
  /\ heir # None
  /\ alias = None
  /\ alias' = heir
  /\ heir' = None
  /\ UNCHANGED images

(* The pull fails; the image may be named by another. *)
GiveUp ==
  /\ heir' = None
  /\ UNCHANGED <<images, alias>>

(* An image that nobody uses goes. *)
Delete(i) ==
  /\ i \notin {alias, heir}
  /\ images' = images \ {i}
  /\ UNCHANGED <<alias, heir>>

Next ==
  \/ \E i \in Images : Import(i)
  \/ \E i \in images : Choose(i) \/ Delete(i)
  \/ GiveWay
  \/ Succeed
  \/ GiveUp

Spec == Init /\ [][Next]_vars

=============================================================================
