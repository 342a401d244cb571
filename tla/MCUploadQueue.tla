--------------------------- MODULE MCUploadQueue ---------------------------
(***************************************************************************)
(* An instance of UploadQueue for TLC: a folder with a large file dropped  *)
(* beside a small one, then a large file for the path of the small one.    *)
(***************************************************************************)
EXTENDS UploadQueue

CONSTANTS b1, b2, f1, f2, f3

TheBatchOf == f1 :> b1 @@ f2 :> b1 @@ f3 :> b2
ThePathOf == f1 :> <<"d", "x">> @@ f2 :> <<"y">> @@ f3 :> <<"y">>
TheEmptyDirs == b1 :> {<<"d", "e">>} @@ b2 :> {}
TheContested == {<<"y">>}
TheSize == f1 :> 1 @@ f2 :> 0 @@ f3 :> 1
=============================================================================
