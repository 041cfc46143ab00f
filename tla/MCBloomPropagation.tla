------------------------- MODULE MCBloomPropagation -------------------------
(* Small meshes for BloomPropagation. *)
EXTENDS BloomPropagation

Star == [n \in Node |-> IF n = 0 THEN <<0>> ELSE <<n, 0>>]
Triangle == {{0, 1}, {0, 2}, {1, 2}}
=============================================================================
