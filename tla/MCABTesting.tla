----------------------------- MODULE MCABTesting -----------------------------
(* The model values of the runs: two fetches, a layer, two users, one experiment. *)
EXTENDS ABTesting

CONSTANTS f, g, layer, A, B, one

=============================================================================
