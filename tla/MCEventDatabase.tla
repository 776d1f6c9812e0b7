--------------------------- MODULE MCEventDatabase ---------------------------
(* Model values and data of the EventDatabase runs. *)
EXTENDS EventDatabase, TLC

CONSTANTS e1, e2, e3

(* e2 is the large event, e3 the one that may only travel over WiFi. *)
MCEvent  == {e1, e2, e3}
MCPolicy == (e1 :> {"Instant"}) @@ (e2 :> {"MobileData"}) @@ (e3 :> {"MobileData", "WiFi"})
MCLength == (e1 :> 1) @@ (e2 :> 3) @@ (e3 :> 1)

=============================================================================
