--------------------------- MODULE MCAgwReconcile ---------------------------
(* Instances of AgwReconcile for TLC. *)
EXTENDS AgwReconcile

(* The defaults of MagmaAGWSpec, with the fields a scenario changes. *)
Default ==
    [datapath |-> TRUE, selector |-> TRUE, registration |-> FALSE,
     ueransim |-> "Off", validation |-> FALSE, deleteOnRemoval |-> FALSE,
     deletePVC |-> FALSE, deleteIdentitySecret |-> FALSE]

Bare == [Default EXCEPT !.datapath = FALSE, !.selector = FALSE]

(* The datapath gate with a gated simulator; and a first attempt without a *)
(* simulator, which lacks the selector the datapath gate asks for.         *)
GateSpecs ==
    {[Default EXCEPT !.ueransim = "AfterAGWReady"],
     [Default EXCEPT !.selector = FALSE]}

(* A gateway that is not registered, and one that is and deregisters, with *)
(* both deletion policies and a validated simulator: an edit leads from    *)
(* each to each.                                                           *)
SafetySpecs ==
    {[Bare EXCEPT !.deleteOnRemoval = TRUE],
     [Bare EXCEPT !.registration = TRUE, !.deleteOnRemoval = TRUE,
                  !.deletePVC = TRUE, !.deleteIdentitySecret = TRUE,
                  !.ueransim = "Immediate", !.validation = TRUE]}

(* The defaults, and nothing to edit. *)
DefaultSpecs == {Default}
=============================================================================
