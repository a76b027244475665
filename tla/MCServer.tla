------------------------------ MODULE MCServer ------------------------------
(***************************************************************************)
(* Model checking Server, and that it implements ResponseLedger.           *)
(***************************************************************************)
EXTENDS Server

MCRoute(x) ==
  CASE x = "/echo" -> "answers" [] x = "/status" -> "status"
    [] x = "/none" -> "NULL"

(* A request that the parser refuses, one that has no handler, and one for *)
(* the status page, with and without a body; and those that are well       *)
(* formed.                                                                 *)
MCRequests == [target : {NoTarget, "/none"}, body : {FALSE}]
                \cup [target : {"/status"}, body : BOOLEAN]
MCWellFormed == {r \in Request : r.target # NoTarget}
=============================================================================
