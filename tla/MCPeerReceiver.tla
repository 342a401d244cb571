--------------------------- MODULE MCPeerReceiver ---------------------------
(***************************************************************************)
(* Instances of PeerReceiver for TLC: a folder of two files, which is      *)
(* published in one step, or a single file, which is not, with two         *)
(* concurrent requests; and both, with one request, competing for the slot *)
(* and for one destination.                                                *)
(***************************************************************************)
EXTENDS PeerReceiver, TLC

CONSTANTS o1, o2, f1, f2, r1, r2

TwoFiles   == [o \in {o1} |-> {f1, f2}]
Mixed      == [o \in {o1, o2} |-> IF o = o1 THEN {f1, f2} ELSE {f1}]
FolderFile == [o \in {o1, o2} |-> {f1}]

\* The process was restarted when one of the two was offered, and the other one
\* comes.  (Two offers in turn, with two requests each, are too many states.)
Restarted ==
  \E o \in Offers : InitWith([p \in Offers |-> IF p = o THEN "lost" ELSE "new"])
AfterRestart == Restarted /\ [][Next]_vars

RequestSymmetry == Permutations({r1, r2})
=============================================================================
