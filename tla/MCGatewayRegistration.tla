----------------------- MODULE MCGatewayRegistration -----------------------
(* Small instances of GatewayRegistration. *)
EXTENDS GatewayRegistration, TLC

(* The names of Jobs and Secrets: each object its own, or one for all. *)
Distinct == [a \in Agws |-> a]
Shared   == [a \in Agws |-> "shared"]

Base == [net |-> "n1", gw |-> "g1", import |-> "none", rotate |-> FALSE,
         enabled |-> TRUE, deleteOnRemoval |-> FALSE, deleteSecret |-> FALSE]

(* The defaults, and nothing to edit. *)
DefaultSpecs == {Base}

(* A Secret that goes with its object, and a registration switched off. *)
SecretSpecs == {[Base EXCEPT !.deleteSecret = TRUE], [Base EXCEPT !.enabled = FALSE]}

(* Two networks, and a registration that is switched off and on again. *)
NetworkSpecs == {[Base EXCEPT !.rotate = TRUE], [Base EXCEPT !.net = "n2"],
                 [Base EXCEPT !.net = "n2", !.enabled = FALSE]}

(* A record that goes with its object. *)
RemovalSpecs == {[Base EXCEPT !.deleteOnRemoval = TRUE]}

(* An imported key, which may meet a Secret with another one; record and   *)
(* Secret go with the object.                                              *)
ImportSpecs == {[Base EXCEPT !.import = "k1", !.deleteOnRemoval = TRUE, !.deleteSecret = TRUE]}

(* Generated keys are interchangeable, nothing orders or chooses among     *)
(* them; and so are the objects, whose names all have the same pattern.     *)
Symmetry == Permutations(Keys) \cup Permutations(Agws)
=============================================================================
