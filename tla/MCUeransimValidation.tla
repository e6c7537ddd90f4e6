----------------------- MODULE MCUeransimValidation -----------------------
(* Instances of UeransimValidation for TLC. *)
EXTENDS UeransimValidation

First == [enabled |-> TRUE, ueransim |-> TRUE, hash |-> 1]

(* Two triggers, the simulator switched off, the validation switched off. *)
AllSpecs ==
    {First, [First EXCEPT !.hash = 2], [First EXCEPT !.ueransim = FALSE],
     [First EXCEPT !.enabled = FALSE]}

TwoTriggers == {First, [First EXCEPT !.hash = 2]}
=============================================================================
