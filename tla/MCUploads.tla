------------------------------ MODULE MCUploads ------------------------------
(***************************************************************************)
(* Instances of Uploads for TLC: u1 goes to another file system and may    *)
(* not overwrite, u2 stays on its own and may.                             *)
(***************************************************************************)
EXTENDS Uploads, TLC

CONSTANTS u1, u2, p1, p2, r1, r2, Long, Short

MCLength == u1 :> Long @@ u2 :> Short
MCTarget == u1 :> p1 @@ u2 :> p2
=============================================================================
