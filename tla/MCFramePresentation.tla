------------------------ MODULE MCFramePresentation -------------------------
(***************************************************************************)
(* A small atlas and a few frames of FramePresentation for TLC.            *)
(***************************************************************************)
EXTENDS FramePresentation, TLC

CONSTANTS a, b, c, i

ImageOfTexture == [t \in Texture \ Surface |-> i]
=============================================================================
