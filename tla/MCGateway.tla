----------------------------- MODULE MCGateway -----------------------------
(* Gateway with two worker threads and the nonce model values' symmetry. *)
EXTENDS Gateway, TLC

CONSTANTS n1, n2

MCNonces == {n1, n2}

NonceSymmetry == Permutations(MCNonces)

=============================================================================
