------------------------------ MODULE MCDeepLink ------------------------------
(* The model values of the runs: links that are opened, and links of the app. *)
EXTENDS DeepLink

CONSTANTS s, m, c, n, p, o, f

=============================================================================
