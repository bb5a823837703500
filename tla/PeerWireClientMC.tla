------------------------- MODULE PeerWireClientMC --------------------------
(* The connection on a small instance: the blocks the peer may ask for are *)
(* interchangeable.                                                        *)
EXTENDS PeerWireClient, TLC

CONSTANTS x, y

MCUploads == {x, y}

Symmetry == Permutations(MCUploads)
=============================================================================
