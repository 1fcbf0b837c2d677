---------------------------- MODULE MCDeviceBoot ----------------------------
(***************************************************************************)
(* Model values for DeviceBoot: a first key, and the one drawn after a     *)
(* reset or a wipe.                                                        *)
(***************************************************************************)
EXTENDS DeviceBoot, TLC

CONSTANTS k1, k2    \* private keys

Keys == Permutations(Identity)

=============================================================================
