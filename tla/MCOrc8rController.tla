------------------------- MODULE MCOrc8rController -------------------------
(* Instances of Orc8rController for TLC. *)
EXTENDS Orc8rController

(* Two specs that differ in everything the controller branches on. *)
TwoSpecs ==
    {[domain |-> 1, nodePort |-> TRUE,  template |-> 1],
     [domain |-> 2, nodePort |-> FALSE, template |-> 2]}
=============================================================================
