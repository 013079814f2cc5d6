---------------------------- MODULE MCVrrpRouter ----------------------------
(* Instances of VrrpRouter for TLC: the virtual routers are model values.   *)
EXTENDS VrrpRouter

CONSTANTS k1, k2
=============================================================================
