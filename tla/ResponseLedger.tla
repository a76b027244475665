--------------------------- MODULE ResponseLedger ---------------------------
(***************************************************************************)
(* What the server promises of its log of requests: a response is recorded *)
(* exactly once, after it was begun, and the record is never behind by     *)
(* more than Lag responses.                                                *)
(***************************************************************************)
EXTENDS Naturals

CONSTANT Lag

VARIABLES answered, recorded

Init == answered = 0 /\ recorded = 0

Answer ==
  /\ answered < recorded + Lag
  /\ answered' = answered + 1
  /\ UNCHANGED recorded

Record ==
  /\ recorded < answered
  /\ recorded' = recorded + 1
  /\ UNCHANGED answered

Next == Answer \/ Record

Spec == Init /\ [][Next]_<<answered, recorded>>
=============================================================================
