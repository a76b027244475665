---------------------------- MODULE MCParseCalls ----------------------------
(***************************************************************************)
(* Model checking ParseCalls: methods of one or two characters are verbs   *)
(* (so that the tail of a verb can be a verb), three are not.              *)
(***************************************************************************)
EXTENDS ParseCalls

MCVerbLengths == {1, 2}
=============================================================================
