--------------------------- MODULE MCImageHandler ---------------------------
(***************************************************************************)
(* Values for model checking ImageHandler: two images, and the answers of  *)
(* the metadata endpoint.  With two workers of one slot each the channel   *)
(* holds two images: the answers are empty, shorter than the channel, as   *)
(* long as it, and too long for it, and name an image twice.               *)
(***************************************************************************)
EXTENDS ImageHandler

CONSTANTS a, b

TwoImages == {a, b}
MixedLists == {<<>>, <<a>>, <<a, b>>, <<a, a>>, <<b, a, b>>}
=============================================================================
