------------------------------ MODULE MCBgpFsm ------------------------------
(* Instances of BgpFsm for TLC.                                             *)
EXTENDS BgpFsm, TLC
=============================================================================
