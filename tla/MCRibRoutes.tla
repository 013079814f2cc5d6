----------------------------- MODULE MCRibRoutes -----------------------------
(* Instances of RibRoutes: no distance is configured, and next hops are    *)
(* interchangeable.                                                        *)
EXTENDS RibRoutes
NotConfigured == [k \in Protocols |-> -1]
HopSymmetry == Permutations(Hops)
=============================================================================
