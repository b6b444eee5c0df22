------------------------------- MODULE KlbMC -------------------------------
(***************************************************************************)
(* Instances of KlbFabric for TLC: the routes of small fabrics.            *)
(***************************************************************************)
EXTENDS KlbFabric, TLC

(* Flows are alike: no definition singles one out.                         *)
FlowSymmetry == Permutations(Flows)

(* One port per path, shared by all flows: a core link.                    *)
CorePorts == {<<"core", p>> : p \in Paths}
CoreRoute == [f \in Flows |-> [p \in Paths |-> << <<"core", p>> >>]]
=============================================================================
