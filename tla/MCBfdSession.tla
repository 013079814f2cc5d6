---------------------------- MODULE MCBfdSession ----------------------------
(* Instances of BfdSession for TLC.                                        *)
EXTENDS BfdSession, TLC

Symmetry == Permutations(Node)
=============================================================================
