---------------------------- MODULE MCRbAugment ----------------------------
(***************************************************************************)
(* Instances for TLC: the nodes are numbers, and those above Keyed share   *)
(* the keys of 2, 4, ...                                                   *)
(***************************************************************************)
EXTENDS RbAugment

CONSTANT Keyed

MCKey == [n \in Nodes |-> IF n > Keyed THEN 2 * (n - Keyed) ELSE n]
=============================================================================
