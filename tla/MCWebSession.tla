----------------------------- MODULE MCWebSession ----------------------------
(***************************************************************************)
(* An instance of WebSession for TLC: two private locations, and as many   *)
(* sessions as the bound of the run issues.                                *)
(***************************************************************************)
EXTENDS WebSession

CONSTANTS s1, s2, s3, g1, g2, p1, p2
=============================================================================
