------------------------- MODULE MCAsyncQueryServer -------------------------
(***************************************************************************)
(* AsyncQueryServer for TLC: two callers poll the first job, nobody polls  *)
(* the second.                                                             *)
(***************************************************************************)
EXTENDS AsyncQueryServer, TLC

CONSTANTS j1, c1, c2

MCJobOf == c1 :> j1 @@ c2 :> j1
=============================================================================
