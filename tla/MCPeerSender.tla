---------------------------- MODULE MCPeerSender ----------------------------
(***************************************************************************)
(* Instances of PeerSender for TLC.                                        *)
(***************************************************************************)
EXTENDS PeerSender

CONSTANTS j1, j2
=============================================================================
