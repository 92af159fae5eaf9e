----------------------------- MODULE MCCsClient -----------------------------
(* Two pictures whose answers have different lengths, the longer one first *)
(* for one file and last for the other.                                    *)
EXTENDS CsClient, TLC

CONSTANTS p1, p2

MCPictures == {p1, p2}
MCBlocks == [skia  |-> (p1 :> 1 @@ p2 :> 3), sharp |-> (p1 :> 2 @@ p2 :> 1)]
=============================================================================
