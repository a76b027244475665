-------------------------- MODULE ParseCallsProofs --------------------------
(***************************************************************************)
(* Proofs about ParseCalls, for methods, targets and headers of any length *)
(* and any number of calls of parse().                                     *)
(*                                                                         *)
(* The core is ConsumeAligned of RequestParserProofs, which takes the      *)
(* parser that was fed in several calls and the one fed in a single call   *)
(* through the same character, state by state.                             *)
(***************************************************************************)
EXTENDS ParseCalls, RequestParserProofs

(* The invariant holds initially. *)
LEMMA InitIInv == Init => IInv
<1> SUFFICES ASSUME Init PROVE IInv
  OBVIOUS
<1>1. NoRequest \in ParserRequest
  BY EmptySeq DEF NoRequest, ParserRequest
<1>2. Aligned("method_start", NoRequest, NoRequest)
  BY EmptySeq
  DEF Aligned, NoRequest, InHeaderLine, BeforeUri, BeforeVersion
<1>3. "method_start" \in State /\ "indeterminate" \in Result
  BY DEF State, Result
<1> QED
  BY <1>1, <1>2, <1>3
  DEF Init, IInv, TypeOK, Parser, NewParser, OneCallIsDefined, CutsNeverAcceptMore,
      AcceptedLostOnlyMethod, IsComplete

(* Every step preserves it. *)
LEMMA NextIInv == IInv /\ [Next]_vars => IInv'
<1> SUFFICES ASSUME IInv, [Next]_vars PROVE IInv'
  OBVIOUS
<1>t. TypeOK
  BY DEF IInv
<1>1. ASSUME NEW c \in Char, Consume(c) PROVE IInv'
  <2> DEFINE p == [state_ |-> state_, req |-> req_, result |-> result]
             q == parse(p, c)
             v == parse(whole, c)
  <2>1. p \in Parser /\ whole \in Parser
    BY <1>t DEF TypeOK, Parser
  <2>2. /\ result = "indeterminate"
        /\ state_' = q.state_ /\ req_' = q.req /\ result' = q.result
        /\ whole' = v /\ calls' = calls
    BY <1>1 DEF Consume
  <2>3. /\ p.state_ = whole.state_
        /\ p.result = "indeterminate" /\ whole.result = "indeterminate"
        /\ Aligned(p.state_, p.req, whole.req)
    BY <2>2 DEF IInv, CutsNeverAcceptMore
  <2>4. calls = 1 => whole = p
    BY DEF IInv
  <2>5. calls = 1 => v = q
    BY <2>4
  <2> HIDE DEF p, q, v
  <2>6. /\ q \in Parser /\ v \in Parser
        /\ v.result # "crash"
        /\ q.result = "indeterminate" =>
             /\ v.result = "indeterminate" /\ v.state_ = q.state_
             /\ Aligned(q.state_, q.req, v.req)
        /\ IsComplete(q.result) => IsComplete(v.result)
        /\ IsComplete(v.result) => v.req.version = "set" /\ v.req.method > 0
        /\ q.result = "true" => /\ q.req.uri = v.req.uri
                               /\ q.req.version = v.req.version
                               /\ q.req.headers = v.req.headers
    BY <2>1, <2>3, ParseAligned DEF q, v
  <2>7. TypeOK'
    BY <1>t, <2>2, <2>6 DEF TypeOK, Parser
  <2>8. OneCallIsDefined'
    BY <2>2, <2>5, <2>6 DEF OneCallIsDefined
  <2>9. CutsNeverAcceptMore'
    BY <2>2, <2>6 DEF CutsNeverAcceptMore
  <2>10. AcceptedLostOnlyMethod'
    BY <2>2, <2>6 DEF AcceptedLostOnlyMethod, Parser, ParserRequest
  <2>11. (result = "indeterminate" => Aligned(state_, req_, whole.req))'
    BY <2>2, <2>6
  <2>12. (calls = 1 =>
           whole = [state_ |-> state_, req |-> req_, result |-> result])'
    BY <2>2, <2>5, <2>6 DEF Parser
  <2> QED
    BY <2>7, <2>8, <2>9, <2>10, <2>11, <2>12 DEF IInv
<1>2. CASE ParseNextChunk
  <2>1. /\ result = "indeterminate" /\ result' = "indeterminate"
        /\ req_' = NoRequest /\ state_' = state_ /\ whole' = whole
        /\ calls' = calls + 1 /\ calls' # 1
    BY <1>2, <1>t DEF ParseNextChunk, TypeOK
  <2>2. NoRequest \in ParserRequest
    BY EmptySeq DEF NoRequest, ParserRequest
  <2>3. TypeOK'
    BY <1>t, <2>1, <2>2 DEF TypeOK
  <2>4. Aligned(state_, req_, whole.req)
    BY <2>1 DEF IInv
  <2>5. Aligned(state_, NoRequest, whole.req)
    BY <2>4 DEF Aligned, NoRequest
  <2>6. CutsNeverAcceptMore'
    BY <2>1 DEF IInv, CutsNeverAcceptMore, IsComplete
  <2> QED
    BY <2>1, <2>3, <2>5, <2>6
    DEF IInv, OneCallIsDefined, AcceptedLostOnlyMethod, IsComplete
<1>3. CASE Reset
  <2>1. Init'
    BY <1>3 DEF Reset, Init
  <2> QED
    BY <2>1, InitIInv, PTL
<1>4. CASE UNCHANGED vars
  BY <1>4 DEF vars, IInv, TypeOK, OneCallIsDefined, CutsNeverAcceptMore,
              AcceptedLostOnlyMethod
<1> QED
  BY <1>1, <1>2, <1>3, <1>4 DEF Next

(* The invariant holds throughout. *)
THEOREM Invariance == Spec => []IInv
  BY InitIInv, NextIInv, PTL DEF Spec

(* The parser's state, its request and its result are always what the      *)
(* declarations of request_parser.h say.                                   *)
THEOREM TypeCorrect == Spec => []TypeOK
<1>1. IInv => TypeOK
  BY DEF IInv
<1> QED
  BY <1>1, Invariance, PTL

(* parse() of a whole header reaches no undefined behaviour: no            *)
(* headers.back() of an empty vector, no read of an unset version number.  *)
THEOREM OneCallDefined == Spec => []OneCallIsDefined
<1>1. IInv => OneCallIsDefined
  BY DEF IInv
<1> QED
  BY <1>1, Invariance, PTL

(* Whatever cuts the header came in, parse() accepts none that it would    *)
(* not accept whole, and keeps its automaton in the right state.           *)
THEOREM CutsAcceptNoMore == Spec => []CutsNeverAcceptMore
<1>1. IInv => CutsNeverAcceptMore
  BY DEF IInv
<1> QED
  BY <1>1, Invariance, PTL

(* Whatever cuts the header came in, a request that parse() hands to the   *)
(* session has the target, version and headers that were sent.             *)
THEOREM AcceptedIsIntact == Spec => []AcceptedLostOnlyMethod
<1>1. IInv => AcceptedLostOnlyMethod
  BY DEF IInv
<1> QED
  BY <1>1, Invariance, PTL
=============================================================================
