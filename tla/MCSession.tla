------------------------------ MODULE MCSession ------------------------------
EXTENDS Session

CONSTANTS A, B, a1, b1

MCUser == {A, B}
(* One key for each user. *)
MCKeyOf == [u \in MCUser |-> IF u = A THEN {a1} ELSE {b1}]

=============================================================================
