----------------------------- MODULE ParseCalls -----------------------------
(***************************************************************************)
(* A request header that reaches request_parser::parse() in several calls, *)
(* one for every chunk that async_read_some delivers to session.cc.        *)
(*                                                                         *)
(* whole is a history variable: the same parser fed the same characters in *)
(* a single call of parse().                                               *)
(***************************************************************************)
EXTENDS RequestParser

CONSTANTS
  MaxField,     \* bound: characters in a method, a uri, a name or a value
  MaxHeaders,   \* bound: header lines
  MaxCalls      \* bound: calls of parse() for one header

ASSUME CallsAssumption ==
  /\ MaxField \in Nat \ {0}
  /\ MaxHeaders \in Nat
  /\ MaxCalls \in Nat \ {0}

VARIABLES
  state_,  \* request_parser::state_
  req_,    \* the parser_request of the current call of parse()
  result,  \* how the current call of parse() stands
  calls,   \* calls of parse() for the current header
  whole    \* history: state, request and result of a single call

vars == <<state_, req_, result, calls, whole>>
-----------------------------------------------------------------------------
Init ==
  /\ state_ = "method_start"
  /\ req_ = NoRequest
  /\ result = "indeterminate"
  /\ calls = 1
  /\ whole = NewParser

InBounds(q) ==
  /\ q.method <= MaxField
  /\ q.uri <= MaxField
  /\ Len(q.headers) <= MaxHeaders
  /\ \A i \in DOMAIN q.headers :
        q.headers[i].name <= MaxField /\ q.headers[i].value <= MaxField

(* parse() takes the next character of its chunk. *)
Consume(c) ==
  LET p == parse([state_ |-> state_, req |-> req_, result |-> result], c)
      w == parse(whole, c)
  IN  /\ result = "indeterminate"
      /\ InBounds(w.req)
      /\ state_' = p.state_
      /\ req_' = p.req
      /\ result' = p.result
      /\ whole' = w
      /\ UNCHANGED calls

(* Mutant: every call of parse() starts the automaton anew. *)
ParseNextChunk_Restarts ==
  /\ result = "indeterminate"
  /\ whole # NewParser
  /\ calls < MaxCalls
  /\ state_' = "method_start"
  /\ req_' = NoRequest
  /\ calls' = calls + 1
  /\ UNCHANGED <<result, whole>>

(* The chunk is used up, parse() returned indeterminate, and the session   *)
(* calls it again with the next chunk: state_ is kept, req_ is a new local.*)
ParseNextChunk ==
  /\ result = "indeterminate"
  /\ whole # NewParser
  /\ calls < MaxCalls
  /\ req_' = NoRequest
  /\ calls' = calls + 1
  /\ UNCHANGED <<state_, result, whole>>

(* The request has been answered: reset(), then parse() of the next one.   *)
Reset ==
  /\ result \in {"true", "false"}
  /\ state_' = "method_start"
  /\ req_' = NoRequest
  /\ result' = "indeterminate"
  /\ calls' = 1
  /\ whole' = NewParser

Next ==
  \/ \E c \in Char : Consume(c)
  \/ ParseNextChunk
  \/ Reset

Spec == Init /\ [][Next]_vars
-----------------------------------------------------------------------------
(* Type invariant. *)
TypeOK ==
  /\ state_ \in State
  /\ req_ \in ParserRequest
  /\ result \in Result
  /\ calls \in Nat \ {0}
  /\ whole \in Parser

(* A header that arrives in one chunk is parsed without undefined          *)
(* behaviour: headers.back() is never taken of an empty vector, and the    *)
(* version numbers have been set when translate() reads them.              *)
OneCallIsDefined ==
  calls = 1 => /\ result # "crash"
               /\ IsComplete(result) => req_.version = "set" /\ req_.method > 0

(* Cutting a header into chunks never turns an incomplete or malformed     *)
(* header into a complete one, and while more data is wanted the automaton *)
(* is where it would be without the cuts.                                  *)
CutsNeverAcceptMore ==
  /\ IsComplete(result) => IsComplete(whole.result)
  /\ result = "indeterminate" => /\ whole.result = "indeterminate"
                                 /\ whole.state_ = state_

(* A request that parse() accepts has lost at most leading letters of its  *)
(* method to earlier chunks: had it lost anything after the method, its    *)
(* method text would be empty, and translate() throws.                     *)
AcceptedLostOnlyMethod ==
  result = "true" => [req_ EXCEPT !.method = 0]
                       = [whole.req EXCEPT !.method = 0]

(* The inductive invariant behind the properties above. *)
IInv ==
  /\ TypeOK
  /\ OneCallIsDefined
  /\ CutsNeverAcceptMore
  /\ AcceptedLostOnlyMethod
  /\ result = "indeterminate" => Aligned(state_, req_, whole.req)
  /\ calls = 1 => whole = [state_ |-> state_, req |-> req_, result |-> result]

(* include/request_parser.h: "Parse some data. The tribool return value is *)
(* true when a complete request has been parsed, false if the data is      *)
(* invalid, indeterminate when more data is required."  A request fed in   *)
(* several calls must then get the verdict of the same request in one.     *)
VerdictIgnoresCuts == result = "indeterminate" \/ result = whole.result
=============================================================================
