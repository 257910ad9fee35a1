--------------------------- MODULE MCExecutorList ---------------------------
(***************************************************************************)
(* A default server and another, both offered by the list servers.         *)
(***************************************************************************)
EXTENDS ExecutorList

=============================================================================
