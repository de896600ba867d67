---------------------------- MODULE MCLogWriter ----------------------------
(***************************************************************************)
(* LogWriter on a small instance: a directory that holds a file of an      *)
(* earlier process, and one over its quota with a file of somebody else.   *)
(***************************************************************************)
EXTENDS LogWriter

MCFound == {<<1, 2>>, 0 :> 2 @@ 2 :> 1 @@ 3 :> 2}
=============================================================================
