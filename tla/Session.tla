------------------------------ MODULE Session ------------------------------
(***************************************************************************)
(* One connection: session.cc with the request parser, over the bytes that *)
(* its client sends.  The session has one asynchronous operation (op)      *)
(* outstanding at a time; an action is the completion handler of that      *)
(* operation, run to its end, or a step of the client.                     *)
(*                                                                         *)
(* The client sends a stream of requests and TCP cuts it anywhere.  A byte *)
(* is its character class, a target or a header value is its length, and   *)
(* the text of a body is the places in the stream that its bytes were at:  *)
(* two bodies are equal only if they are the same bytes.                   *)
(***************************************************************************)
EXTENDS RequestParser, Integers, FiniteSets

CONSTANTS
  Streams,        \* the streams of requests that a client may send
  MaxLength,      \* max_length, the size of data_
  Hasty,          \* the streams whose client does not wait for its answers
  ContentLength,  \* the header name length that stands for Content-Length
  Stoi(_),        \* content_length for a Content-Length of that many characters
  Route(_),       \* get_request_handler for a target of that many characters
  Handlers,       \* the request handlers
  Throwing,       \* those whose handle_request throws
  NULL            \* the null RequestHandler pointer

(* The text of a target or of a header value comes from one call of        *)
(* parse(), so it is no longer than data_.                                 *)
ASSUME SessionAssumption ==
  /\ MaxLength \in Nat \ {0}
  /\ Hasty \subseteq Streams
  /\ \A s \in Streams : s \in Seq([text : Seq(Char), body : Nat])
  /\ \A v \in 0 .. MaxLength : Stoi(v) \in Int
  /\ \A u \in 0 .. MaxLength : Route(u) \in Handlers \cup {NULL}
  /\ Throwing \subseteq Handlers
  /\ NULL \notin Handlers

VARIABLES
  stream,           \* the requests this client has to send, as text and body
  sent,             \* how many of them it has sent
  conn,             \* "open", "eof" (the client closed) or "reset"
  taken,            \* bytes taken off the socket
  op,               \* the outstanding operation, "none" when the session is over
  need,             \* bytes that the outstanding read_body waits for
  body_data,        \* the streambuf that read_body reads into
  state_,           \* request_parser_.state_
  request_,         \* verb, target and Content-Length (as lengths), and body
  request_handler_, \* the handler found for the request; not initialised
  cut,              \* history: the last call of parse() began inside a verb
  answers,          \* history: what has been answered to which request
  requests_,        \* the pairs <<target, status>> given to log_request
  terminated        \* an exception has left io_service::run

client == <<stream, sent, conn>>
vars == <<client, taken, op, need, body_data, state_, request_,
          request_handler_, cut, answers, requests_, terminated>>
-----------------------------------------------------------------------------
(* A request is [text |-> the characters of its header, body |-> length].  *)
Bytes(r) == r.text \o [i \in 1 .. r.body |-> "tok"]

(* The first i requests of a stream on the wire, and what can be read of   *)
(* those that were sent.                                                   *)
Wire(s, i) ==
  LET prefix[j \in 0 .. i] ==
        IF j = 0 THEN <<>> ELSE prefix[j - 1] \o Bytes(s[j])
  IN  prefix[i]

Available == Len(Wire(stream, sent)) - taken

(* An http::request before anything was parsed into it. *)
NewRequest == [verb |-> 0, target |-> 0, content_length |-> 0, body |-> <<>>]

(* translate() into request_: a Content-Length that the header does not    *)
(* have stays what it was.                                                 *)
Translate(parsed) ==
  LET t == translate(parsed)
  IN  [request_ EXCEPT
         !.verb = t.verb,
         !.target = t.target,
         !.content_length = IF ContentLength \in DOMAIN t.fields
                            THEN t.fields[ContentLength] ELSE @]

(* content_length: stoi of the header value, and 0 if there is none. *)
Length(v) == IF v = 0 THEN 0 ELSE Stoi(v)

(* What handle_read_header makes of the next k bytes: the verdict of the   *)
(* parser, request_ after it, and the bytes that follow the header.        *)
Header(k) ==
  LET out == ParseChunk(state_, SubSeq(Wire(stream, sent), taken + 1, taken + k))
      req == IF out.parser.result = "true"
             THEN Translate(out.parser.req) ELSE request_
  IN  [result         |-> out.parser.result,
       state_         |-> out.parser.state_,
       request        |-> req,
       content_length |-> Length(req.content_length),
       handler        |-> Route(req.target),
       at             |-> taken + out.read,
       rest           |-> k - out.read]

(* The places of n bytes of the stream, from the one after at. *)
Slice(at, n) == [i \in 1 .. n |-> at + i]

(* The part of the body that data_ holds behind the header. *)
BodyInBuffer(h) ==
  Slice(h.at, IF h.rest >= h.content_length THEN h.content_length ELSE h.rest)

(* Mutants: the operands swapped; the bytes in data_ forgotten. *)
Missing_Swapped(h) == h.rest - h.content_length
Missing_WholeBody(h) == h.content_length

(* The bytes of the body that are still to be read. *)
Missing(h) == h.content_length - h.rest

(* Mutants: the body, or the header fields, left as they are. *)
Cleared_KeepsBody(req) == [req EXCEPT !.content_length = 0]
Cleared_KeepsFields(req) == [req EXCEPT !.body = <<>>]

(* request_.clear(), which clears the header fields and neither the verb   *)
(* nor the target, and request_.body() = "".                               *)
Cleared(req) == [req EXCEPT !.content_length = 0, !.body = <<>>]

(* Mutant: the bytes of the body stay in the streambuf. *)
Consumed_Nothing(data) == data

(* body_data.consume(body_data.size()). *)
Consumed(data) == <<>>

(* The sizes that read_some may complete with. *)
ReadSizes == 1 .. (IF Available < MaxLength THEN Available ELSE MaxLength)
-----------------------------------------------------------------------------
Init ==
  /\ stream \in Streams
  /\ sent = 0
  /\ conn = "open"
  /\ taken = 0
  /\ op = "read_header"
  /\ need = 0
  /\ body_data = <<>>
  /\ state_ = "method_start"
  /\ request_ = NewRequest
  /\ request_handler_ \in Handlers \cup {NULL}
  /\ cut = FALSE
  /\ answers = <<>>
  /\ requests_ = {}
  /\ terminated = FALSE

(* May the client send before it has been answered? *)
Pipelined == stream \in Hasty

(* The client sends its next request: unless it pipelines, only when all   *)
(* the earlier ones have been answered.                                    *)
Send ==
  /\ ~terminated
  /\ conn = "open"
  /\ sent < Len(stream)
  /\ Pipelined \/ Len(answers) >= sent
  /\ sent' = sent + 1
  /\ UNCHANGED <<stream, conn, taken, op, need, body_data, state_, request_,
                 request_handler_, cut, answers, requests_, terminated>>

(* The client closes its end: what it sent can still be read. *)
Close ==
  /\ ~terminated
  /\ conn = "open"
  /\ conn' = "eof"
  /\ UNCHANGED <<stream, sent, taken, op, need, body_data, state_, request_,
                 request_handler_, cut, answers, requests_, terminated>>

(* The connection breaks: what was sent is gone. *)
Break ==
  /\ ~terminated
  /\ conn # "reset"
  /\ conn' = "reset"
  /\ UNCHANGED <<stream, sent, taken, op, need, body_data, state_, request_,
                 request_handler_, cut, answers, requests_, terminated>>
-----------------------------------------------------------------------------
Running(o) == ~terminated /\ op = o

(* write(): the response goes out, then (target, status) is logged.  asked *)
(* is the target that the request itself named, if it could be parsed.     *)
write(req, asked, status, at) ==
  /\ op' = "write"
  /\ request_' = req
  /\ requests_' = requests_ \cup {<<req.target, status>>}
  /\ answers' = Append(answers,
       [asked |-> asked, status |-> status, at |-> at, cut |-> cut',
        verb |-> req.verb, content_length |-> req.content_length,
        body |-> req.body])

(* handle_request, and then write() of its response or, when it throws,    *)
(* the end of the process.                                                 *)
Respond(handler, req, at) ==
  \/ /\ handler \notin Throwing
     /\ write(req, {req.target}, "ok", at)
     /\ UNCHANGED terminated
  \/ /\ handler \in Throwing
     /\ terminated' = TRUE
     /\ request_' = req
     /\ UNCHANGED <<op, requests_, answers>>

(* handle_read_header, the header did not end in this chunk. *)
ReadRemainingHeader(h) ==
  /\ h.result = "indeterminate"
  /\ h.content_length >= 0
  /\ state_' = h.state_
  /\ UNCHANGED <<op, need, request_, request_handler_, answers, requests_,
                 terminated>>

(* handle_read_header, the parser took headers.back() of an empty vector   *)
(* or translate() threw.                                                   *)
ParserThrows(h) ==
  /\ h.result \in {"throw", "crash"}
  /\ terminated' = TRUE
  /\ state_' = h.state_
  /\ UNCHANGED <<op, need, request_, request_handler_, answers, requests_>>

(* handle_read_header, 400: invalid header or Content-Length. *)
BadHeader(h) ==
  /\ h.result = "false" \/ (h.result # "throw" /\ h.result # "crash"
                             /\ h.content_length < 0)
  /\ state_' = h.state_
  /\ write(h.request, IF h.result = "true" THEN {h.request.target} ELSE {},
           "bad_request", h.at)
  /\ UNCHANGED <<need, request_handler_, terminated>>

(* handle_read_header, 400: there is no handler for the target. *)
NoHandler(h) ==
  /\ h.result = "true" /\ h.content_length >= 0
  /\ h.handler = NULL
  /\ state_' = h.state_
  /\ request_handler_' = NULL
  /\ write(h.request, {h.request.target}, "bad_request", h.at)
  /\ UNCHANGED <<need, terminated>>

(* handle_read_header, the request is complete: it has no body, or data_   *)
(* holds all of it.  What follows it in data_ is never looked at again.    *)
Complete(h) ==
  /\ h.result = "true" /\ h.content_length >= 0
  /\ h.handler # NULL
  /\ h.rest >= h.content_length
  /\ state_' = h.state_
  /\ request_handler_' = h.handler
  /\ Respond(h.handler,
             [h.request EXCEPT !.body = @ \o BodyInBuffer(h)], h.at)
  /\ UNCHANGED need

(* handle_read_header, the rest of the body is still to come. *)
NeedsBody(h) ==
  /\ h.result = "true" /\ h.content_length >= 0
  /\ h.handler # NULL
  /\ h.rest < h.content_length
  /\ state_' = h.state_
  /\ request_handler_' = h.handler
  /\ request_' = [h.request EXCEPT !.body = @ \o BodyInBuffer(h)]
  /\ op' = "read_body"
  /\ need' = Missing(h)
  /\ UNCHANGED <<answers, requests_, terminated>>

handle_read_header ==
  /\ Running("read_header")
  /\ conn # "reset"
  /\ cut' = (state_ = "method")
  /\ \E k \in ReadSizes :
       /\ taken' = taken + k
       /\ \E h \in {Header(k)} :
            \/ ReadRemainingHeader(h)
            \/ ParserThrows(h)
            \/ BadHeader(h)
            \/ NoHandler(h)
            \/ Complete(h)
            \/ NeedsBody(h)
  /\ UNCHANGED <<client, body_data>>

(* handle_read_body: async_read has added exactly need bytes to body_data, *)
(* and all that body_data holds is appended to the body.                   *)
handle_read_body ==
  /\ Running("read_body")
  /\ conn # "reset"
  /\ Available >= need
  /\ taken' = taken + need
  /\ body_data' = body_data \o Slice(taken, need)
  /\ cut' = cut
  /\ LET req == [request_ EXCEPT !.body = @ \o body_data']
         at  == taken - Len(request_.body)
     IN  IF request_handler_ # NULL
         THEN Respond(request_handler_, req, at)
         ELSE /\ write(req, {req.target}, "bad_request", at)
              /\ UNCHANGED terminated
  /\ need' = 0
  /\ UNCHANGED <<client, state_, request_handler_>>

(* handle_write: ready for the next request. *)
handle_write ==
  /\ Running("write")
  /\ conn # "reset"
  /\ state_' = "method_start"
  /\ request_' = Cleared(request_)
  /\ body_data' = Consumed(body_data)
  /\ op' = "read_header"
  /\ UNCHANGED <<client, taken, need, request_handler_, cut, answers,
                 requests_, terminated>>

(* A read completes with end of file: the handler logs it and starts no    *)
(* other operation, and the session is freed.                              *)
ReadEof ==
  /\ ~terminated
  /\ conn = "eof"
  /\ \/ op = "read_header" /\ Available = 0
     \/ op = "read_body" /\ Available < need
  /\ op' = "none"
  /\ taken' = taken + Available
  /\ body_data' = body_data \o Slice(taken, Available)
  /\ UNCHANGED <<client, need, state_, request_, request_handler_, cut,
                 answers, requests_, terminated>>

(* Any completion on a broken connection: get_endpoint_address, which the  *)
(* handlers' first log line calls, throws.                                 *)
EndpointThrows ==
  /\ ~terminated
  /\ op # "none"
  /\ conn = "reset"
  /\ terminated' = TRUE
  /\ UNCHANGED <<client, taken, op, need, body_data, state_, request_,
                 request_handler_, cut, answers, requests_>>

ServerStep ==
  handle_read_header \/ handle_read_body \/ handle_write
    \/ ReadEof \/ EndpointThrows

Next == Send \/ Close \/ Break \/ ServerStep

Spec == Init /\ [][Next]_vars

(* io_service runs every completion handler that is due: the pool has at   *)
(* least one thread.  Nothing is assumed of the client.                    *)
FairSpec == Spec /\ WF_vars(ServerStep)
-----------------------------------------------------------------------------
Answer == [asked : SUBSET Nat, status : {"ok", "bad_request"}, at : Nat,
           cut : BOOLEAN, verb : Nat, content_length : Nat, body : Seq(Nat)]

(* Type invariant. *)
TypeOK ==
  /\ stream \in Streams
  /\ sent \in 0 .. Len(stream)
  /\ conn \in {"open", "eof", "reset"}
  /\ taken \in Nat
  /\ op \in {"read_header", "read_body", "write", "none"}
  /\ need \in Nat
  /\ body_data \in Seq(Nat)
  /\ state_ \in State
  /\ request_ \in [verb : Nat, target : 0 .. MaxLength,
                   content_length : 0 .. MaxLength, body : Seq(Nat)]
  /\ request_handler_ \in Handlers \cup {NULL}
  /\ cut \in BOOLEAN
  /\ answers \in Seq(Answer)
  /\ requests_ \in SUBSET (Nat \X {"ok", "bad_request"})
  /\ terminated \in BOOLEAN

(* However the stream is cut and pipelined, a request that a handler has   *)
(* answered had as its body exactly the Content-Length bytes that follow   *)
(* its header in the stream, in order: nothing of another request, nothing *)
(* left over in body_data or in request_.body() from the one before.       *)
BodyFollowsHeader ==
  \A i \in DOMAIN answers :
    answers[i].status = "ok" =>
      answers[i].body
        = Slice(answers[i].at, Length(answers[i].content_length))

(* While the body is being read, the handler that will be given it is the  *)
(* one found for this request's target, never one of an earlier request or *)
(* the value the pointer was born with; and the bytes collected and the    *)
(* bytes waited for make up the Content-Length.                            *)
BodyHandlerIsCurrent ==
  Running("read_body") =>
    /\ request_handler_ = Route(request_.target)
    /\ request_handler_ # NULL
    /\ need > 0
    /\ Len(request_.body) + need = Stoi(request_.content_length)

(* What request_.body() holds: nothing while a header is read, and while   *)
(* the body is read the bytes that end where the session has read to.  No  *)
(* byte of an earlier body is in body_data then.                           *)
BodySoFar ==
  /\ Running("read_header") \/ Running("read_body") => body_data = <<>>
  /\ Running("read_header") => request_.body = <<>>
  /\ Running("read_body") =>
       LET n == Len(request_.body)
       IN  /\ n <= taken /\ request_.body = Slice(taken - n, n)
           /\ request_.content_length # 0

(* The inductive invariant behind the properties above. *)
IInv ==
  /\ TypeOK
  /\ BodyFollowsHeader
  /\ BodyHandlerIsCurrent
  /\ BodySoFar

(* What becomes of request i of a stream as the only chunk of a new        *)
(* connection: the verdict of parse(), and for a complete header the verb  *)
(* and the answer, which it gets unless result is "throw" (the verb is not *)
(* known, and translate() ends the process).                               *)
Alone(s, i) ==
  LET out == ParseChunk("method_start", s[i].text)
      ok  == out.parser.result \in {"true", "throw"}
      t   == translate(out.parser.req)
      v   == IF ContentLength \in DOMAIN t.fields
             THEN t.fields[ContentLength] ELSE 0
  IN  [result |-> out.parser.result,
       verb   |-> t.verb,
       asked  |-> IF ok THEN {t.target} ELSE {},
       status |-> IF ok /\ Route(t.target) # NULL /\ Length(v) >= 0
                  THEN "ok" ELSE "bad_request",
       length |-> Length(v),
       body   |-> Slice(Len(Wire(s, i - 1)) + Len(s[i].text), s[i].body)]

(* The client and the parser see the same requests in the stream: every    *)
(* text is a whole header, good or not, up to the byte at which the parser *)
(* makes up its mind, no header line is folded (a cut before the fold      *)
(* makes parse() refuse it), and a request has a body only if it is        *)
(* answered by a handler, of the length that its header says.  Otherwise   *)
(* handle_read_header takes what is left for the next request.             *)
Framed(s) ==
  \A i \in DOMAIN s :
    LET text == s[i].text
        out  == ParseChunk("method_start", text)
    IN  /\ out.parser.result # "indeterminate"
        /\ out.read = Len(text)
        /\ Unfolded(text)
        /\ s[i].body = IF Alone(s, i).status = "ok"
                       THEN Alone(s, i).length ELSE 0

(* The verb that the handler is given is the one that was sent, unless a   *)
(* read ended inside it.  Then it is its last letters only, and a request  *)
(* may be answered whose whole verb parse() would not have taken.          *)
VerbSeen(alone, split, verb) ==
  IF split THEN verb \in 1 .. alone.verb - 1
  ELSE verb = alone.verb /\ alone.result = "true"

(* Answer a is the one that request i of s would get alone: the same       *)
(* verdict for the same target, the same body, and the verb but for what   *)
(* a cut leaves of it.                                                     *)
AsAlone(s, i, a) ==
  LET alone == Alone(s, i)
  IN  /\ a.asked = alone.asked
      /\ a.status = alone.status
      /\ a.status = "ok" => a.body = alone.body
      /\ a.asked # {} => VerbSeen(alone, a.cut, a.verb)

(* A client that waits for each answer gets the answers of its requests,   *)
(* in their order, whatever was sent before and wherever the stream is     *)
(* cut: each has the status, the target and the body that the request      *)
(* would be answered with on a connection of its own in one chunk.  The    *)
(* verb that the handler is given is the one sent if no read ended inside  *)
(* it, and its last letters otherwise.                                     *)
AnswersInOrder ==
  ~Pipelined /\ Framed(stream) =>
    /\ Len(answers) <= sent
    /\ \A i \in DOMAIN answers : AsAlone(stream, i, answers[i])

(* A client that waits for each answer and keeps the connection open gets  *)
(* one, unless the process ends: the session never stops reading, and      *)
(* never waits for bytes that are not to come.                             *)
EveryRequestAnswered ==
  \A i \in 1 .. 3 :
    (sent >= i /\ ~Pipelined) ~>
      (Len(answers) >= i \/ conn # "open" \/ terminated)

(* src/handlers/status_handler.cc: "display table of served requests and   *)
(* response codes".  A row names a target and a status that some request   *)
(* really had; a request whose header was no good has the empty target.    *)
RowsWereServed ==
  \A row \in requests_ : \E i \in DOMAIN answers :
    /\ row[2] = answers[i].status
    /\ row[1] \in answers[i].asked
         \/ (answers[i].asked = {} /\ row[1] = 0)
=============================================================================
