---------------------------- MODULE MCUploadLocks ----------------------------
(***************************************************************************)
(* Instances of UploadLocks for TLC.                                       *)
(***************************************************************************)
EXTENDS UploadLocks

CONSTANTS r1, r2, r3, r4, e1, e2, e3, i1, i2
=============================================================================
