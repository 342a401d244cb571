--------------------------- MODULE MCPluginUpdate ---------------------------
(***************************************************************************)
(* Instances of PluginUpdate for TLC.                                      *)
(***************************************************************************)
EXTENDS PluginUpdate
=============================================================================
