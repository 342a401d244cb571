---------------------------- MODULE MCSupervisor ----------------------------
(***************************************************************************)
(* Instances of Supervisor for TLC.                                        *)
(***************************************************************************)
EXTENDS Supervisor, TLC

CONSTANTS s1, s2, s3

SupervisorSymmetry == Permutations({s1, s2, s3})
=============================================================================
