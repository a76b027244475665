--------------------------- MODULE SessionProofs ---------------------------
(***************************************************************************)
(* Proofs about Session, for every stream of requests, every way in which  *)
(* it is cut and pipelined, and every size of data_.                       *)
(*                                                                         *)
(* HeaderIs is the core: what handle_read_header makes of a chunk, from    *)
(* what RequestParserProofs says of a call of parse().  The header ends    *)
(* inside the chunk and what follows it, up to the end of the chunk, is    *)
(* the first part of the body; BodySoFar carries that to handle_read_body. *)
(*                                                                         *)
(* The last part, from Follows on, is about a client that waits for each   *)
(* answer.  HeaderOfRequest compares the chunk that ends a header with the *)
(* header parsed alone, and InStep says that between two steps the session *)
(* has taken whole requests, one for each answer, and a part of the next.  *)
(***************************************************************************)
EXTENDS Session, RequestParserProofs

(* The bytes of a request are characters. *)
LEMMA BytesType ==
  ASSUME NEW r \in [text : Seq(Char), body : Nat]
  PROVE  Bytes(r) \in Seq(Char)
<1> DEFINE b == [i \in 1 .. r.body |-> "tok"]
<1>1. r.text \in Seq(Char) /\ r.body \in Nat
  OBVIOUS
<1>2. b \in Seq(Char)
  <2>1. \A i \in 1 .. r.body : "tok" \in Char
    BY DEF Char
  <2> QED
    BY <1>1, <2>1, IsASeq
<1> HIDE DEF b
<1>3. r.text \o b \in Seq(Char)
  BY <1>1, <1>2, ConcatProperties
<1> QED
  BY <1>3 DEF Bytes, b

(* The stream on the wire is put together request by request. *)
LEMMA WireTurns ==
  ASSUME NEW s \in Streams, NEW i \in 0 .. Len(s)
  PROVE  /\ \A j \in 1 .. i : Bytes(s[j]) \in Seq(Char)
         /\ \E b : /\ b[0] = <<>> /\ Wire(s, i) = b[i]
                  /\ \A j \in 1 .. i : b[j] = b[j - 1] \o Bytes(s[j])
<1> DEFINE D == Seq(Char)
           Loop(a) == a = [j \in 0 .. i |->
                             IF j = 0 THEN <<>> ELSE a[j - 1] \o Bytes(s[j])]
           Step == [j \in 1 .. i |-> [u \in D |-> u \o Bytes(s[j])]]
<1>0. PICK R : R = [text : Seq(Char), body : Nat]
  OBVIOUS
<1>1. s \in Seq(R) /\ Len(s) \in Nat /\ i \in Nat
  <2>1. s \in Seq(R)
    BY <1>0, SessionAssumption
  <2>2. Len(s) \in Nat
    BY <2>1, LenProperties
  <2> QED
    BY <2>1, <2>2
<1>2. ASSUME NEW j \in 1 .. i PROVE Bytes(s[j]) \in D
  <2>1. s[j] \in R
    BY <1>1, ElementOfSeq
  <2> QED
    BY <1>0, <2>1, BytesType
<1>3. ASSUME NEW u \in D, NEW j \in 1 .. i PROVE u \o Bytes(s[j]) \in D
  BY <1>2, ConcatProperties
<1>4. Wire(s, i) = (CHOOSE a : Loop(a))[i]
  BY DEF Wire
<1>5. <<>> \in D
  BY EmptySeq
<1> HIDE DEF D
<1>6. Step \in [1 .. i -> [D -> D]]
  BY <1>3
<1>7. \A u \in D, j \in 1 .. i : Step[j][u] = u \o Bytes(s[j])
  OBVIOUS
<1> HIDE DEF Step
<1>8. PICK a : Unfolds(a, i, D, <<>>, Step)
  BY <1>1, <1>5, <1>6, RecursionExists
<1>9. Loop(a)
  <2>1. ASSUME NEW j \in 1 .. i
        PROVE  a[j] = a[j - 1] \o Bytes(s[j])
    <3>1. a[j - 1] \in D
      BY <1>1, <1>8 DEF Unfolds
    <3> QED
      BY <1>7, <1>8, <3>1 DEF Unfolds
  <2>2. \A j \in 0 .. i : a[j] = IF j = 0 THEN <<>>
                                 ELSE a[j - 1] \o Bytes(s[j])
    <3>1. a[0] = <<>>
      BY <1>8 DEF Unfolds
    <3>2. \A j \in 0 .. i : j = 0 \/ j \in 1 .. i
      BY <1>1
    <3> QED
      BY <2>1, <3>1, <3>2
  <2> QED
    BY <1>8, <2>2 DEF Unfolds
<1>10. PICK b : Loop(b) /\ Wire(s, i) = b[i]
  <2> HIDE DEF Loop
  <2> QED
    BY <1>4, <1>9
<1>11. b[0] = <<>> /\ \A j \in 1 .. i : b[j] = b[j - 1] \o Bytes(s[j])
  BY <1>1, <1>10
<1> HIDE DEF Loop
<1> QED
  BY <1>2, <1>10, <1>11 DEF D

(* It is a sequence of characters: nothing, and then each request behind   *)
(* the ones before it.                                                     *)
LEMMA WireIs ==
  ASSUME NEW s \in Streams, NEW i \in 0 .. Len(s)
  PROVE  /\ Wire(s, i) \in Seq(Char)
         /\ i = 0 => Wire(s, i) = <<>>
         /\ i # 0 => Wire(s, i) = Wire(s, i - 1) \o Bytes(s[i])
<1>1. i \in Nat /\ Len(s) \in Nat
  <2>1. \E R : s \in Seq(R)
    BY SessionAssumption
  <2> QED
    BY <2>1, LenProperties
<1>2. PICK b : /\ b[0] = <<>> /\ Wire(s, i) = b[i]
               /\ \A j \in 1 .. i : b[j] = b[j - 1] \o Bytes(s[j])
  BY WireTurns
<1>3. \A j \in 1 .. i : Bytes(s[j]) \in Seq(Char)
  BY WireTurns
<1>4. Wire(s, i) \in Seq(Char)
  <2> DEFINE D == Seq(Char)
  <2>1. b[0] \in D /\ \A j \in 1 .. i : b[j - 1] \in D => b[j] \in D
    <3>1. b[0] \in D
      BY <1>2, EmptySeq
    <3>2. ASSUME NEW j \in 1 .. i, b[j - 1] \in D PROVE b[j] \in D
      <4>1. PICK u, v : u = b[j - 1] /\ v = Bytes(s[j])
        OBVIOUS
      <4>2. b[j] = u \o v /\ u \in Seq(Char) /\ v \in Seq(Char)
        BY <1>2, <1>3, <3>2, <4>1
      <4>3. u \o v \in Seq(Char)
        BY <4>2, ConcatProperties
      <4> QED
        BY <4>2, <4>3
    <3> QED
      BY <3>1, <3>2
  <2> HIDE DEF D
  <2>2. \A j \in 0 .. i : b[j] \in D
    BY <1>1, <2>1, LoopInvariant
  <2> QED
    BY <1>1, <1>2, <2>2 DEF D
<1>5. ASSUME i # 0 PROVE Wire(s, i) = Wire(s, i - 1) \o Bytes(s[i])
  <2>1. PICK n : n = i - 1
    OBVIOUS
  <2>2. n \in Nat /\ n \in 0 .. Len(s) /\ n < i /\ i \in 1 .. i
    BY <1>1, <1>5, <2>1
  <2>3. PICK c : /\ c[0] = <<>> /\ Wire(s, n) = c[n]
                 /\ \A j \in 1 .. n : c[j] = c[j - 1] \o Bytes(s[j])
    BY <2>2, WireTurns
  <2> DEFINE G == {j \in Nat : j <= n => b[j] = c[j]}
  <2>4. 0 \in G
    BY <1>2, <2>3
  <2>5. ASSUME NEW j \in Nat, j \in G PROVE j + 1 \in G
    <3> SUFFICES ASSUME j + 1 <= n PROVE b[j + 1] = c[j + 1]
      OBVIOUS
    <3>1. b[j] = c[j]
      BY <2>2, <2>5
    <3>2. j + 1 \in 1 .. n /\ j + 1 \in 1 .. i /\ (j + 1) - 1 = j
      BY <1>1, <2>2
    <3>3. /\ b[j + 1] = b[(j + 1) - 1] \o Bytes(s[j + 1])
          /\ c[j + 1] = c[(j + 1) - 1] \o Bytes(s[j + 1])
      BY <1>2, <2>3, <3>2
    <3> QED
      BY <3>1, <3>2, <3>3
  <2>6. Nat \subseteq G
    <3> HIDE DEF G
    <3> QED
      BY <2>4, <2>5, NumberInduction
  <2>7. b[n] = c[n]
    BY <2>2, <2>6
  <2> QED
    BY <1>2, <2>1, <2>2, <2>3, <2>7
<1> QED
  BY <1>1, <1>2, <1>4, <1>5

(* The places of bytes in the stream, and two runs of them in a row. *)
LEMMA SliceIs ==
  ASSUME NEW at \in Nat, NEW m \in Nat, NEW n \in Nat
  PROVE  /\ Slice(at, m) \in Seq(Nat) /\ Len(Slice(at, m)) = m
         /\ Slice(at, 0) = <<>>
         /\ Slice(at, m) \o Slice(at + m, n) = Slice(at, m + n)
<1>1. ASSUME NEW b \in Nat, NEW k \in Nat
      PROVE  /\ Slice(b, k) \in Seq(Nat) /\ Len(Slice(b, k)) = k
             /\ \A i \in 1 .. k : Slice(b, k)[i] = b + i
  <2>1. \A i \in 1 .. k : b + i \in Nat
    OBVIOUS
  <2>2. [i \in 1 .. k |-> b + i] \in Seq(Nat)
    BY <2>1, IsASeq
  <2>3. Len([i \in 1 .. k |-> b + i]) = k
    BY <2>2, LenProperties
  <2> QED
    BY <2>2, <2>3 DEF Slice
<1>2. Slice(at, 0) = <<>>
  BY <1>1, EmptySeq
<1> DEFINE u == Slice(at, m)
           v == Slice(at + m, n)
           w == Slice(at, m + n)
<1>3. /\ u \in Seq(Nat) /\ Len(u) = m /\ \A i \in 1 .. m : u[i] = at + i
      /\ v \in Seq(Nat) /\ Len(v) = n /\ \A i \in 1 .. n : v[i] = at + m + i
      /\ w \in Seq(Nat) /\ Len(w) = m + n
      /\ \A i \in 1 .. m + n : w[i] = at + i
  <2>1. at + m \in Nat /\ m + n \in Nat
    OBVIOUS
  <2> QED
    BY <1>1, <2>1
<1> HIDE DEF u, v, w
<1>4. PICK c : c = u \o v
  OBVIOUS
<1>5. /\ c \in Seq(Nat) /\ Len(c) = m + n
      /\ \A i \in 1 .. m + n : c[i] = IF i <= m THEN u[i] ELSE v[i - m]
  BY <1>3, <1>4, ConcatProperties
<1>6. ASSUME NEW i \in 1 .. m + n PROVE c[i] = w[i]
  <2>1. CASE i <= m
    BY <1>3, <1>5, <2>1
  <2>2. CASE i > m
    <3>1. i - m \in 1 .. n
      BY <2>2
    <3>2. v[i - m] = at + m + (i - m)
      BY <1>3, <3>1
    <3> QED
      BY <1>3, <1>5, <2>2, <3>2
  <2> QED
    BY <2>1, <2>2
<1>7. c = w
  BY <1>3, <1>5, <1>6, SeqEqual
<1> QED
  BY <1>1, <1>2, <1>4, <1>7 DEF u, v, w
-----------------------------------------------------------------------------
(* The type of request_. *)
Request == [verb : Nat, target : 0 .. MaxLength,
            content_length : 0 .. MaxLength, body : Seq(Nat)]

(* What handle_read_header makes of a chunk. *)
LEMMA HeaderIs ==
  ASSUME TypeOK, NEW k \in ReadSizes
  PROVE  LET h == Header(k)
         IN  /\ h.result \in Result /\ h.state_ \in State
             /\ h.request \in Request /\ h.request.body = request_.body
             /\ h.result # "true" => h.request = request_
             /\ h.content_length = Length(h.request.content_length)
             /\ h.content_length \in Int
             /\ h.handler = Route(h.request.target)
             /\ h.handler \in Handlers \cup {NULL}
             /\ h.at \in Nat /\ h.rest \in Nat /\ h.at + h.rest = taken + k
             /\ k \in Nat
<1> DEFINE wire == Wire(stream, sent)
           chunk == SubSeq(wire, taken + 1, taken + k)
<1>1. /\ stream \in Streams /\ sent \in 0 .. Len(stream) /\ taken \in Nat
      /\ state_ \in State /\ request_ \in Request
      /\ request_.body \in Seq(Nat) /\ MaxLength \in Nat
  BY SessionAssumption DEF TypeOK, Request
<1>2. wire \in Seq(Char) /\ Len(wire) \in Nat
  BY <1>1, WireIs, LenProperties
<1>3. k \in Nat /\ k >= 1 /\ k <= MaxLength /\ taken + k <= Len(wire)
  BY <1>1, <1>2 DEF ReadSizes, Available
<1>4. chunk \in Seq(Char) /\ Len(chunk) = k
  <2> HIDE DEF wire
  <2>1. /\ taken + 1 \in 1 .. Len(wire) + 1
        /\ taken + k \in taken + 1 - 1 .. Len(wire)
        /\ taken + k - (taken + 1) + 1 = k
    BY <1>1, <1>2, <1>3
  <2> QED
    BY <1>1, <1>2, <1>3, <2>1, SubSeqProperties
<1>5. PICK out : out = ParseChunk(state_, chunk)
  OBVIOUS
<1>6. out.read \in 0 .. k /\ Bounded(out.parser, out.read)
  <2> HIDE DEF chunk
  <2> QED
    BY <1>1, <1>4, <1>5, ParseChunkIs
<1>7. /\ out.parser \in Parser /\ out.parser.result \in Result
      /\ out.parser.state_ \in State /\ out.parser.req \in ParserRequest
      /\ Within(out.parser.req, MaxLength)
  <2>1. Bounded(out.parser, MaxLength)
    BY <1>1, <1>3, <1>6, BoundedByMore
  <2> QED
    BY <2>1, ParserParts DEF Bounded
<1>8. PICK req : req = IF out.parser.result = "true"
                       THEN Translate(out.parser.req) ELSE request_
  OBVIOUS
<1>9. /\ req \in Request /\ req.body = request_.body
      /\ out.parser.result # "true" => req = request_
  <2>1. PICK t : t = translate(out.parser.req)
    OBVIOUS
  <2>2. /\ t.verb \in Nat /\ t.target \in 0 .. MaxLength
        /\ \A name \in DOMAIN t.fields : t.fields[name] \in 0 .. MaxLength
    BY <1>1, <1>7, <2>1, TranslateIs
  <2>3. Translate(out.parser.req)
          = [request_ EXCEPT
               !.verb = t.verb, !.target = t.target,
               !.content_length = IF ContentLength \in DOMAIN t.fields
                                  THEN t.fields[ContentLength] ELSE @]
    BY <2>1 DEF Translate
  <2>4. PICK v : v = IF ContentLength \in DOMAIN t.fields
                     THEN t.fields[ContentLength] ELSE request_.content_length
    OBVIOUS
  <2>5. v \in 0 .. MaxLength
    BY <1>1, <2>2, <2>4 DEF Request
  <2>6. Translate(out.parser.req)
          = [request_ EXCEPT !.verb = t.verb, !.target = t.target,
                             !.content_length = v]
    BY <1>1, <2>3, <2>4 DEF Request
  <2> QED
    BY <1>1, <1>8, <2>2, <2>5, <2>6 DEF Request
<1>10. Header(k) =
         [result         |-> out.parser.result,
          state_         |-> out.parser.state_,
          request        |-> req,
          content_length |-> Length(req.content_length),
          handler        |-> Route(req.target),
          at             |-> taken + out.read,
          rest           |-> k - out.read]
  BY <1>5, <1>8 DEF Header
<1>11. /\ req.target \in 0 .. MaxLength /\ req.content_length \in 0 .. MaxLength
       /\ Route(req.target) \in Handlers \cup {NULL}
       /\ Length(req.content_length) \in Int
  BY <1>9, SessionAssumption DEF Request, Length
<1>12. /\ taken + out.read \in Nat /\ k - out.read \in Nat
       /\ taken + out.read + (k - out.read) = taken + k
  BY <1>1, <1>3, <1>6
<1> HIDE DEF wire, chunk
<1> QED
  BY <1>3, <1>7, <1>9, <1>10, <1>11, <1>12 DEF Length
-----------------------------------------------------------------------------
(* What write() and handle_request leave: the answers and the log have     *)
(* their types, the answers had the right bodies, and the session waits    *)
(* for its response to go out or the process is over.                      *)
Answered ==
  /\ answers' \in Seq(Answer)
  /\ BodyFollowsHeader'
  /\ requests_' \in SUBSET (Nat \X {"ok", "bad_request"})
  /\ request_' \in Request
  /\ op' \in {"read_header", "read_body", "write", "none"}
  /\ terminated' \in BOOLEAN
  /\ terminated' \/ op' = "write"

(* write(): the response of a request that is rejected, or whose body is   *)
(* the one that follows its header.                                        *)
LEMMA WriteAnswers ==
  ASSUME TypeOK, BodyFollowsHeader, NEW req \in Request,
         NEW asked \in SUBSET Nat, NEW status \in {"ok", "bad_request"},
         NEW at \in Nat, write(req, asked, status, at), UNCHANGED terminated,
         status = "ok" => req.body = Slice(at, Length(req.content_length)),
         cut' \in BOOLEAN
  PROVE  Answered
<1>1. PICK a : a = [asked |-> asked, status |-> status, at |-> at,
                    cut |-> cut', verb |-> req.verb,
                    content_length |-> req.content_length, body |-> req.body]
  OBVIOUS
<1>2. /\ req.verb \in Nat /\ req.target \in Nat /\ req.content_length \in Nat
      /\ req.body \in Seq(Nat)
  BY SessionAssumption DEF Request
<1>3. /\ a \in Answer
      /\ a.status = "ok" => a.body = Slice(a.at, Length(a.content_length))
  BY <1>1, <1>2 DEF Answer
<1>4. /\ answers' = Append(answers, a) /\ op' = "write" /\ request_' = req
      /\ requests_' = requests_ \cup {<<req.target, status>>}
  BY <1>1 DEF write
<1>5. /\ answers \in Seq(Answer) /\ terminated \in BOOLEAN
      /\ requests_ \in SUBSET (Nat \X {"ok", "bad_request"})
  BY DEF TypeOK
<1>6. /\ answers' \in Seq(Answer) /\ Len(answers') = Len(answers) + 1
      /\ \A i \in 1 .. Len(answers) : answers'[i] = answers[i]
      /\ answers'[Len(answers) + 1] = a
      /\ Len(answers) \in Nat /\ DOMAIN answers = 1 .. Len(answers)
      /\ DOMAIN answers' = 1 .. Len(answers) + 1
  BY <1>3, <1>4, <1>5, AppendProperties, LenProperties
<1>7. BodyFollowsHeader'
  <2> SUFFICES ASSUME NEW i \in DOMAIN answers', answers'[i].status = "ok"
               PROVE  answers'[i].body
                        = Slice(answers'[i].at,
                                Length(answers'[i].content_length))
    BY DEF BodyFollowsHeader, Length
  <2>1. CASE i = Len(answers) + 1
    BY <1>3, <1>6, <2>1
  <2>2. CASE i # Len(answers) + 1
    <3>1. i \in DOMAIN answers /\ answers'[i] = answers[i]
      BY <1>6, <2>2
    <3> QED
      BY <3>1 DEF BodyFollowsHeader, Length
  <2> QED
    BY <2>1, <2>2
<1>8. requests_' \in SUBSET (Nat \X {"ok", "bad_request"})
  BY <1>2, <1>4, <1>5
<1> QED
  BY <1>4, <1>5, <1>6, <1>7, <1>8 DEF Answered

(* handle_request, which may throw. *)
LEMMA RespondAnswers ==
  ASSUME TypeOK, BodyFollowsHeader, NEW req \in Request, NEW handler,
         NEW at \in Nat, Respond(handler, req, at), cut' \in BOOLEAN,
         req.body = Slice(at, Length(req.content_length))
  PROVE  Answered
<1>1. CASE write(req, {req.target}, "ok", at) /\ UNCHANGED terminated
  <2>1. {req.target} \in SUBSET Nat
    BY SessionAssumption DEF Request
  <2> QED
    BY <1>1, <2>1, WriteAnswers
<1>2. CASE /\ terminated' = TRUE /\ request_' = req
           /\ UNCHANGED <<op, requests_, answers>>
  BY <1>2 DEF Answered, TypeOK, BodyFollowsHeader
<1> QED
  BY <1>1, <1>2 DEF Respond

(* After an answer the session reads neither a header nor a body. *)
LEMMA AnsweredIInv ==
  ASSUME IInv, Answered, UNCHANGED client, taken' \in Nat, need' \in Nat,
         state_' \in State, request_handler_' \in Handlers \cup {NULL},
         body_data' \in Seq(Nat), cut' \in BOOLEAN
  PROVE  IInv'
<1>1. TypeOK'
  BY DEF IInv, TypeOK, Answered, client, Request
<1>2. BodyHandlerIsCurrent' /\ BodySoFar'
  BY DEF Answered, BodyHandlerIsCurrent, BodySoFar, Running
<1> QED
  BY <1>1, <1>2 DEF IInv, Answered

(* A step that leaves what the session holds, or ends it. *)
LEMMA QuietIInv ==
  ASSUME IInv, stream' = stream, sent' \in 0 .. Len(stream),
         conn' \in {"open", "eof", "reset"}, taken' \in Nat,
         UNCHANGED <<need, request_, request_handler_, answers, requests_>>,
         state_' \in State, terminated' \in BOOLEAN, cut' \in BOOLEAN,
         body_data' \in Seq(Nat), body_data' = body_data \/ op' = "none",
         op' = op \/ op' = "none",
         Running("read_header")' \/ Running("read_body")' => ~terminated,
         Running("read_body")' => taken' = taken
  PROVE  IInv'
<1>1. TypeOK'
  BY DEF IInv, TypeOK
<1>2. BodyFollowsHeader'
  BY DEF IInv, BodyFollowsHeader
<1>3. BodyHandlerIsCurrent'
  BY DEF IInv, BodyHandlerIsCurrent, Running
<1>4. BodySoFar'
  BY DEF IInv, BodySoFar, Running
<1> QED
  BY <1>1, <1>2, <1>3, <1>4 DEF IInv
-----------------------------------------------------------------------------
(* A new session has read nothing. *)
LEMMA InitIInv == Init => IInv
<1> SUFFICES ASSUME Init PROVE IInv
  OBVIOUS
<1>1. TypeOK
  <2>1. \E R : stream \in Seq(R)
    BY SessionAssumption DEF Init
  <2>2. Len(stream) \in Nat
    BY <2>1, LenProperties
  <2>3. "method_start" \in State /\ <<>> \in Seq(Nat) /\ <<>> \in Seq(Answer)
    BY EmptySeq DEF State
  <2>4. PICK e \in Seq(Nat) : e = <<>>
    BY <2>3
  <2>5. [verb |-> 0, target |-> 0, content_length |-> 0, body |-> e] \in Request
    BY SessionAssumption DEF Request
  <2>6. request_ \in Request
    BY <2>4, <2>5 DEF Init, NewRequest
  <2>7. /\ answers \in Seq(Answer) /\ state_ \in State
        /\ sent \in 0 .. Len(stream)
        /\ requests_ \in SUBSET (Nat \X {"ok", "bad_request"})
    BY <2>2, <2>3 DEF Init
  <2>8. /\ stream \in Streams /\ conn = "open" /\ taken = 0
        /\ op = "read_header" /\ need = 0 /\ terminated = FALSE
        /\ cut = FALSE /\ body_data = e
        /\ request_handler_ \in Handlers \cup {NULL}
    BY <2>4 DEF Init
  <2> QED
    BY <2>6, <2>7, <2>8 DEF TypeOK, Request
<1>2. BodyFollowsHeader
  BY DEF Init, BodyFollowsHeader
<1>3. BodyHandlerIsCurrent /\ BodySoFar
  BY DEF Init, BodyHandlerIsCurrent, BodySoFar, Running, NewRequest
<1> QED
  BY <1>1, <1>2, <1>3 DEF IInv

(* handle_read_header preserves the invariant. *)
LEMMA ReadHeaderIInv ==
  ASSUME IInv, handle_read_header PROVE IInv'
<1>1. PICK k \in ReadSizes :
        /\ taken' = taken + k
        /\ \E h \in {Header(k)} :
             \/ ReadRemainingHeader(h) \/ ParserThrows(h) \/ BadHeader(h)
             \/ NoHandler(h) \/ Complete(h) \/ NeedsBody(h)
  BY DEF handle_read_header
<1>2. PICK h : h = Header(k)
  OBVIOUS
<1>3. /\ h.result \in Result /\ h.state_ \in State
      /\ h.request \in Request /\ h.request.body = request_.body
      /\ h.result # "true" => h.request = request_
      /\ h.content_length = Length(h.request.content_length)
      /\ h.content_length \in Int
      /\ h.handler = Route(h.request.target)
      /\ h.handler \in Handlers \cup {NULL}
      /\ h.at \in Nat /\ h.rest \in Nat /\ h.at + h.rest = taken + k
      /\ k \in Nat
  BY <1>2, HeaderIs DEF IInv
<1>4. /\ UNCHANGED client /\ Running("read_header") /\ request_.body = <<>>
      /\ taken \in Nat /\ taken' \in Nat /\ cut' \in BOOLEAN
      /\ body_data' = body_data /\ body_data \in Seq(Nat)
      /\ body_data = <<>>
  BY <1>1, <1>3 DEF handle_read_header, IInv, BodySoFar, TypeOK
<1>t. TypeOK /\ BodyFollowsHeader
  BY DEF IInv
<1>5. ASSUME ReadRemainingHeader(h) \/ ParserThrows(h) PROVE IInv'
  <2>1. /\ UNCHANGED <<op, need, request_, request_handler_, answers,
                       requests_>>
        /\ state_' = h.state_
        /\ terminated' = terminated \/ terminated' = TRUE
    BY <1>5 DEF ReadRemainingHeader, ParserThrows
  <2>2. op = "read_header" /\ ~terminated
    BY <1>4 DEF Running
  <2>3. /\ stream' = stream /\ sent' \in 0 .. Len(stream)
        /\ conn' \in {"open", "eof", "reset"} /\ terminated' \in BOOLEAN
    BY <1>4, <1>t, <2>1 DEF client, TypeOK
  <2> QED
    BY <1>3, <1>4, <2>1, <2>2, <2>3, QuietIInv DEF Running
<1>6. ASSUME BadHeader(h) \/ NoHandler(h) PROVE IInv'
  <2>1. PICK asked \in SUBSET Nat :
          write(h.request, asked, "bad_request", h.at)
    <3>1. h.request.target \in Nat
      BY <1>3, SessionAssumption DEF Request
    <3>2. {h.request.target} \in SUBSET Nat /\ {} \in SUBSET Nat
      BY <3>1
    <3> QED
      BY <1>6, <3>2 DEF BadHeader, NoHandler
  <2>2. /\ UNCHANGED <<need, terminated>> /\ state_' = h.state_
        /\ request_handler_' = request_handler_ \/ request_handler_' = NULL
    BY <1>6 DEF BadHeader, NoHandler
  <2>3. Answered
    BY <1>3, <1>4, <1>t, <2>1, <2>2, WriteAnswers
  <2>4. need' \in Nat /\ request_handler_' \in Handlers \cup {NULL}
    BY <1>t, <2>2 DEF TypeOK
  <2> QED
    BY <1>3, <1>4, <2>2, <2>3, <2>4, AnsweredIInv
<1>7. ASSUME h.content_length >= 0
      PROVE  LET body == BodyInBuffer(h)
                 req  == [h.request EXCEPT !.body = @ \o body]
                 n    == IF h.rest >= h.content_length
                         THEN h.content_length ELSE h.rest
             IN  /\ n \in Nat
                 /\ req \in Request /\ req.body = Slice(h.at, n)
                 /\ req.target = h.request.target
                 /\ req.content_length = h.request.content_length
  <2>1. PICK n : n = IF h.rest >= h.content_length
                     THEN h.content_length ELSE h.rest
    OBVIOUS
  <2>2. n \in Nat
    BY <1>3, <1>7, <2>1
  <2>3. BodyInBuffer(h) = Slice(h.at, n) /\ Slice(h.at, n) \in Seq(Nat)
    BY <1>3, <2>1, <2>2, SliceIs DEF BodyInBuffer
  <2>4. h.request.body \o BodyInBuffer(h) = Slice(h.at, n)
    BY <1>3, <1>4, <2>3, ConcatEmptySeq
  <2>5. PICK b : b = h.request.body \o BodyInBuffer(h)
    OBVIOUS
  <2>6. b = Slice(h.at, n) /\ b \in Seq(Nat)
    BY <2>3, <2>4, <2>5
  <2>7. /\ [h.request EXCEPT !.body = b] \in Request
        /\ [h.request EXCEPT !.body = b].body = b
        /\ [h.request EXCEPT !.body = b].target = h.request.target
        /\ [h.request EXCEPT !.body = b].content_length
             = h.request.content_length
    BY <1>3, <2>6 DEF Request
  <2> QED
    BY <2>1, <2>2, <2>5, <2>6, <2>7
<1>8. ASSUME Complete(h) PROVE IInv'
  <2>1. PICK req : req = [h.request EXCEPT !.body = @ \o BodyInBuffer(h)]
    OBVIOUS
  <2>2. /\ h.content_length >= 0 /\ h.rest >= h.content_length
        /\ Respond(h.handler, req, h.at) /\ need' = need
        /\ state_' = h.state_ /\ request_handler_' = h.handler
    BY <1>8, <2>1 DEF Complete
  <2>3. /\ req \in Request
        /\ req.body = Slice(h.at, Length(req.content_length))
    BY <1>3, <1>7, <2>1, <2>2
  <2>4. Answered
    BY <1>3, <1>4, <1>t, <2>2, <2>3, RespondAnswers
  <2>5. need' \in Nat
    BY <1>t, <2>2 DEF TypeOK
  <2> QED
    BY <1>3, <1>4, <2>2, <2>4, <2>5, AnsweredIInv
<1>9. ASSUME NeedsBody(h) PROVE IInv'
  <2>1. PICK req : req = [h.request EXCEPT !.body = @ \o BodyInBuffer(h)]
    OBVIOUS
  <2>2. /\ h.content_length >= 0 /\ h.rest < h.content_length
        /\ request_' = req /\ need' = h.content_length - h.rest
        /\ op' = "read_body" /\ state_' = h.state_
        /\ request_handler_' = h.handler /\ h.handler # NULL
        /\ UNCHANGED <<answers, requests_, terminated>>
    BY <1>9, <2>1 DEF NeedsBody, Missing
  <2>3. /\ req \in Request /\ req.body = Slice(h.at, h.rest)
        /\ req.target = h.request.target
        /\ req.content_length = h.request.content_length
    BY <1>3, <1>7, <2>1, <2>2
  <2>4. Len(req.body) = h.rest
    <3>1. PICK at \in Nat, rest \in Nat : at = h.at /\ rest = h.rest
      BY <1>3
    <3>2. Len(Slice(at, rest)) = rest
      BY SliceIs
    <3> QED
      BY <2>3, <3>1, <3>2
  <2>5. need' \in Nat /\ need' > 0 /\ h.rest + need' = h.content_length
    BY <1>3, <2>2
  <2>6. /\ h.content_length = Stoi(req.content_length)
        /\ req.content_length # 0
    BY <1>3, <2>2, <2>3 DEF Length
  <2>7. TypeOK'
    BY <1>3, <1>4, <1>t, <2>2, <2>3, <2>5 DEF TypeOK, client, Request
  <2>8. BodyFollowsHeader'
    BY <1>t, <2>2 DEF BodyFollowsHeader
  <2>9. BodyHandlerIsCurrent'
    BY <1>3, <2>2, <2>3, <2>4, <2>5, <2>6 DEF BodyHandlerIsCurrent
  <2>10. BodySoFar'
    <3>1. taken' - h.rest = h.at /\ h.rest <= taken'
      BY <1>1, <1>3, <1>4
    <3> QED
      BY <1>4, <2>2, <2>3, <2>4, <2>6, <3>1 DEF BodySoFar, Running
  <2> QED
    BY <2>7, <2>8, <2>9, <2>10 DEF IInv
<1> QED
  BY <1>1, <1>2, <1>5, <1>6, <1>8, <1>9

(* handle_read_body preserves the invariant: the bytes it appends are the  *)
(* ones behind those that it has.                                          *)
LEMMA ReadBodyIInv ==
  ASSUME IInv, handle_read_body PROVE IInv'
<1>t. TypeOK /\ BodyFollowsHeader
  BY DEF IInv
<1>1. PICK n, m : n = Len(request_.body) /\ m = need
  OBVIOUS
<1>2. /\ n <= taken /\ request_.body = Slice(taken - n, n)
      /\ request_.content_length # 0
      /\ request_handler_ = Route(request_.target) /\ request_handler_ # NULL
      /\ n + m = Stoi(request_.content_length)
      /\ taken' = taken + m
  BY <1>1 DEF IInv, BodySoFar, BodyHandlerIsCurrent, handle_read_body
<1>3. /\ request_ \in Request /\ request_.body \in Seq(Nat)
      /\ n \in Nat /\ m \in Nat /\ taken \in Nat
      /\ request_.content_length \in 0 .. MaxLength
  <2>1. request_ \in Request /\ m \in Nat /\ taken \in Nat
    BY <1>1, <1>t DEF TypeOK, Request
  <2>2. /\ request_.body \in Seq(Nat)
        /\ request_.content_length \in 0 .. MaxLength
    BY <2>1 DEF Request
  <2> QED
    BY <1>1, <2>1, <2>2, LenProperties
<1>4. PICK b : b = request_.body \o Slice(taken, m)
  OBVIOUS
<1>5. b = Slice(taken - n, n + m) /\ b \in Seq(Nat) /\ taken - n \in Nat
  <2>1. taken - n \in Nat /\ taken - n + n = taken /\ n + m \in Nat
    BY <1>2, <1>3
  <2>2. PICK at \in Nat : at = taken - n
    BY <2>1
  <2>3. Slice(at, n) \o Slice(at + n, m) = Slice(at, n + m)
    BY <1>3, SliceIs
  <2>4. Slice(at, n + m) \in Seq(Nat)
    BY <2>1, SliceIs
  <2> QED
    BY <1>2, <1>4, <2>1, <2>2, <2>3, <2>4
<1>b. body_data' = Slice(taken, need) /\ body_data' \in Seq(Nat)
  <2>1. PICK u : u = Slice(taken, need)
    OBVIOUS
  <2>2. u \in Seq(Nat)
    BY <1>1, <1>3, <2>1, SliceIs
  <2>3. body_data = <<>> /\ body_data' = body_data \o u
    BY <2>1 DEF IInv, BodySoFar, handle_read_body
  <2> QED
    BY <2>1, <2>2, <2>3, ConcatEmptySeq
<1>6. PICK req : req = [request_ EXCEPT !.body = @ \o Slice(taken, need)]
  OBVIOUS
<1>7. /\ req \in Request /\ req.body = b
      /\ req.content_length = request_.content_length
  <2>1. req = [request_ EXCEPT !.body = b]
    BY <1>1, <1>4, <1>6
  <2> QED
    BY <1>3, <1>5, <2>1 DEF Request
<1>8. Respond(request_handler_, req, taken - n) /\ cut' \in BOOLEAN
  BY <1>1, <1>2, <1>6, <1>b, <1>t DEF handle_read_body, TypeOK
<1>9. Answered
  <2>1. Length(req.content_length) = n + m
    BY <1>2, <1>7 DEF Length
  <2> QED
    BY <1>5, <1>7, <1>8, <1>t, <2>1, RespondAnswers
<1>10. /\ UNCHANGED client /\ taken' \in Nat /\ need' \in Nat
       /\ state_' \in State /\ request_handler_' \in Handlers \cup {NULL}
  <2>1. /\ UNCHANGED client /\ need' = 0 /\ state_' = state_
        /\ request_handler_' = request_handler_
    BY DEF handle_read_body
  <2> QED
    BY <1>2, <1>3, <1>t, <2>1 DEF TypeOK
<1> QED
  BY <1>8, <1>9, <1>10, <1>b, AnsweredIInv

(* Every step preserves the invariant. *)
LEMMA NextIInv == IInv /\ [Next]_vars => IInv'
<1> SUFFICES ASSUME IInv, [Next]_vars PROVE IInv'
  OBVIOUS
<1>t. TypeOK /\ Len(stream) \in Nat
  <2>1. TypeOK
    BY DEF IInv
  <2>2. \E R : stream \in Seq(R)
    BY <2>1, SessionAssumption DEF TypeOK
  <2> QED
    BY <2>1, <2>2, LenProperties
<1>1. CASE Send
  <2>1. /\ sent' \in 0 .. Len(stream)
        /\ UNCHANGED <<stream, conn, taken, op, need, body_data, state_,
                       request_, request_handler_, cut, answers, requests_,
                       terminated>>
    BY <1>1, <1>t DEF Send, TypeOK
  <2> QED
    BY <1>t, <2>1, QuietIInv DEF TypeOK, Running
<1>2. CASE Close \/ Break
  <2>1. /\ conn' \in {"open", "eof", "reset"}
        /\ UNCHANGED <<stream, sent, taken, op, need, body_data, state_,
                       request_, request_handler_, cut, answers, requests_,
                       terminated>>
    BY <1>2 DEF Close, Break
  <2> QED
    BY <1>t, <2>1, QuietIInv DEF TypeOK, Running
<1>3. CASE handle_read_header
  BY <1>3, ReadHeaderIInv
<1>4. CASE handle_read_body
  BY <1>4, ReadBodyIInv
<1>5. CASE handle_write
  <2>1. /\ state_' = "method_start" /\ request_' = Cleared(request_)
        /\ op' = "read_header" /\ UNCHANGED <<stream, sent, conn>>
        /\ UNCHANGED <<taken, need, request_handler_, cut, answers, requests_,
                       terminated>>
        /\ body_data' = <<>>
    BY <1>5 DEF handle_write, client, Consumed
  <2>2. Cleared(request_) \in Request /\ Cleared(request_).body = <<>>
    <3>1. PICK e \in Seq(Nat) : e = <<>>
      BY EmptySeq
    <3>2. Cleared(request_) = [request_ EXCEPT !.content_length = 0, !.body = e]
      BY <3>1 DEF Cleared
    <3>3. request_ \in Request /\ 0 \in 0 .. MaxLength
      BY <1>t, SessionAssumption DEF TypeOK, Request
    <3> QED
      BY <3>1, <3>2, <3>3 DEF Request
  <2>e. <<>> \in Seq(Nat)
    BY EmptySeq
  <2>3. TypeOK'
    BY <1>t, <2>1, <2>2, <2>e DEF TypeOK, Request, State
  <2>4. BodyFollowsHeader'
    BY <2>1 DEF IInv, BodyFollowsHeader
  <2>5. BodyHandlerIsCurrent' /\ BodySoFar'
    BY <2>1, <2>2 DEF BodyHandlerIsCurrent, BodySoFar, Running
  <2> QED
    BY <2>3, <2>4, <2>5 DEF IInv
<1>6. CASE ReadEof
  <2>1. /\ op' = "none" /\ taken' = taken + Available
        /\ UNCHANGED <<stream, sent, conn>>
        /\ UNCHANGED <<need, state_, request_, request_handler_, cut, answers,
                       requests_, terminated>>
        /\ body_data' = body_data \o Slice(taken, Available)
    BY <1>6 DEF ReadEof, client
  <2>2. taken' \in Nat
    <3>1. Wire(stream, sent) \in Seq(Char)
      BY <1>t, WireIs DEF TypeOK
    <3>2. Len(Wire(stream, sent)) \in Nat
      BY <3>1, LenProperties
    <3> QED
      BY <1>t, <2>1, <3>2 DEF TypeOK, Available
  <2>3. body_data' \in Seq(Nat)
    <3>1. PICK x, u : x = Available /\ u = Slice(taken, x)
      OBVIOUS
    <3>2. x \in Int
      <4>1. Wire(stream, sent) \in Seq(Char)
        BY <1>t, WireIs DEF TypeOK
      <4> QED
        BY <1>t, <3>1, <4>1, LenProperties DEF TypeOK, Available
    <3>3. taken \in Nat /\ body_data \in Seq(Nat)
      BY <1>t DEF TypeOK
    <3>4. u \in Seq(Nat)
      <4>1. CASE x >= 0
        BY <3>1, <3>2, <3>3, <4>1, SliceIs
      <4>2. CASE x < 0
        <5>1. 1 .. x = 1 .. 0
          BY <3>2, <4>2
        <5>2. u = Slice(taken, 0)
          BY <3>1, <5>1 DEF Slice
        <5> QED
          BY <3>3, <5>2, SliceIs
      <4> QED
        BY <3>2, <4>1, <4>2
    <3> QED
      BY <2>1, <3>1, <3>3, <3>4, ConcatProperties
  <2> QED
    BY <1>t, <2>1, <2>2, <2>3, QuietIInv DEF TypeOK, Running
<1>7. CASE EndpointThrows
  <2>1. /\ terminated' = TRUE /\ UNCHANGED <<stream, sent, conn>>
        /\ UNCHANGED <<taken, op, need, body_data, state_, request_,
                       request_handler_, cut, answers, requests_>>
    BY <1>7 DEF EndpointThrows, client
  <2> QED
    BY <1>t, <2>1, QuietIInv DEF TypeOK, Running
<1>8. CASE UNCHANGED vars
  <2>1. UNCHANGED <<stream, sent, conn, taken, op, need, body_data, state_,
                    request_, request_handler_, cut, answers, requests_,
                    terminated>>
    BY <1>8 DEF vars, client
  <2> QED
    BY <1>t, <2>1, QuietIInv DEF TypeOK, Running
<1> QED
  BY <1>1, <1>2, <1>3, <1>4, <1>5, <1>6, <1>7, <1>8 DEF Next, ServerStep

(* The invariant holds throughout. *)
THEOREM Invariance == Spec => []IInv
  BY InitIInv, NextIInv, PTL DEF Spec

(* What a session holds has its type: above all the target and the         *)
(* Content-Length never have more characters than data_, and the place     *)
(* that a body begins at is never negative.                                *)
THEOREM TypeCorrect == Spec => []TypeOK
<1>1. IInv => TypeOK
  BY DEF IInv
<1> QED
  BY <1>1, Invariance, PTL

(* However the stream is cut and pipelined, a request that is handled had  *)
(* as its body the Content-Length bytes that follow its header.            *)
THEOREM BodyIsOwn == Spec => []BodyFollowsHeader
<1>1. IInv => BodyFollowsHeader
  BY DEF IInv
<1> QED
  BY <1>1, Invariance, PTL

(* The handler that handle_read_body gives the request to is the one found *)
(* for its target, and the read that is outstanding completes the body.    *)
THEOREM HandlerIsOwn == Spec => []BodyHandlerIsCurrent
<1>1. IInv => BodyHandlerIsCurrent
  BY DEF IInv
<1> QED
  BY <1>1, Invariance, PTL

-----------------------------------------------------------------------------
(* Request r follows the first n of s on the wire. *)
Follows(s, n, r) ==
  /\ r.text \in Seq(Char) /\ r.body \in Nat /\ n + 1 \in DOMAIN s
  /\ Wire(s, n) \in Seq(Char) /\ Wire(s, n + 1) \in Seq(Char)
  /\ Len(r.text) \in Nat /\ Len(Wire(s, n)) \in Nat
  /\ Len(Wire(s, n + 1)) = Len(Wire(s, n)) + Len(r.text) + r.body
  /\ \A j \in 1 .. Len(r.text) :
       Wire(s, n + 1)[Len(Wire(s, n)) + j] = r.text[j]

(* The next request of the stream does. *)
LEMMA NextFollows ==
  ASSUME NEW s \in Streams, NEW n \in Nat, n + 1 \in 0 .. Len(s),
         NEW r, r = s[n + 1]
  PROVE  Follows(s, n, r)
<1> DEFINE R == [text : Seq(Char), body : Nat]
           t == r.text
           b == [i \in 1 .. r.body |-> "tok"]
           w == Wire(s, n)
<1>1. s \in Seq(R)
  BY SessionAssumption
<1>2. Len(s) \in Nat /\ DOMAIN s = 1 .. Len(s)
  BY <1>1, LenProperties
<1>3. n + 1 \in 1 .. Len(s) /\ n \in 0 .. Len(s) /\ (n + 1) - 1 = n /\ n + 1 # 0
  BY <1>2
<1>4. r \in R
  <2> HIDE DEF R
  <2> QED
    BY <1>1, <1>3, ElementOfSeq
<1>5. t \in Seq(Char) /\ r.body \in Nat
  BY <1>4
<1>6. b \in Seq(Char) /\ Len(b) = r.body
  <2>1. \A i \in 1 .. r.body : "tok" \in Char
    BY DEF Char
  <2>2. b \in Seq(Char)
    BY <1>5, <2>1, IsASeq
  <2>3. Len(b) = r.body
    BY <1>5, <2>2, LenProperties
  <2> QED
    BY <2>2, <2>3
<1>7. w \in Seq(Char) /\ Wire(s, n + 1) = w \o Bytes(r)
  BY <1>3, WireIs
<1>8. PICK u : u = Bytes(r)
  OBVIOUS
<1>9. u = t \o b
  BY <1>8 DEF Bytes
<1> HIDE DEF R, b, w, t
<1>10. /\ u \in Seq(Char) /\ Len(u) = Len(t) + Len(b)
       /\ \A i \in 1 .. Len(t) : u[i] = t[i]
       /\ Len(t) \in Nat /\ Len(b) \in Nat /\ Len(w) \in Nat
  <2>1. Len(t) \in Nat /\ Len(b) \in Nat /\ Len(w) \in Nat
    BY <1>5, <1>6, <1>7, LenProperties
  <2>2. /\ u \in Seq(Char) /\ Len(u) = Len(t) + Len(b)
        /\ \A i \in 1 .. Len(t) + Len(b) :
             u[i] = IF i <= Len(t) THEN t[i] ELSE b[i - Len(t)]
    BY <1>5, <1>6, <1>9, ConcatProperties
  <2>3. \A i \in 1 .. Len(t) : i \in 1 .. Len(t) + Len(b) /\ i <= Len(t)
    BY <2>1
  <2> QED
    BY <2>1, <2>2, <2>3
<1>11. PICK x : x = w \o u
  OBVIOUS
<1>12. /\ x \in Seq(Char) /\ Len(x) = Len(w) + Len(u)
       /\ \A i \in 1 .. Len(w) + Len(u) :
            x[i] = IF i <= Len(w) THEN w[i] ELSE u[i - Len(w)]
  <2>1. w \in Seq(Char) /\ u \in Seq(Char)
    BY <1>7, <1>10
  <2> QED
    BY <1>11, <2>1, ConcatProperties
<1>13. ASSUME NEW j \in 1 .. Len(t) PROVE x[Len(w) + j] = t[j]
  <2>1. /\ Len(w) + j \in 1 .. Len(w) + Len(u) /\ ~(Len(w) + j <= Len(w))
        /\ (Len(w) + j) - Len(w) = j
    BY <1>10
  <2> QED
    BY <1>10, <1>12, <2>1
<1>14. Len(x) = Len(w) + Len(t) + r.body
  <2>1. Len(x) = Len(w) + Len(u) /\ Len(u) = Len(t) + r.body
    BY <1>6, <1>10, <1>12
  <2>2. Len(w) \in Nat /\ Len(t) \in Nat /\ r.body \in Nat
    BY <1>5, <1>10
  <2> QED
    BY <2>1, <2>2
<1>15. x = Wire(s, n + 1)
  BY <1>7, <1>8, <1>11
<1> QED
  BY <1>2, <1>3, <1>5, <1>7, <1>10, <1>12, <1>13, <1>14, <1>15 DEF w, t, Follows

(* translate() of two headers with the same target and lines. *)
LEMMA TranslateSame ==
  ASSUME NEW a, NEW b, a.uri = b.uri, a.headers = b.headers
  PROVE  /\ translate(a).verb = a.method /\ translate(b).verb = b.method
         /\ translate(a).target = translate(b).target
         /\ translate(a).fields = translate(b).fields
<1>1. PICK hs : hs = a.headers
  OBVIOUS
<1> QED
  BY <1>1 DEF translate

(* The session reads the header of request n + 1, has taken m characters   *)
(* of it and waits for more, and its automaton is where it would be after  *)
(* them without a cut.                                                     *)
AtCharacter(n, m) ==
  /\ n \in Nat /\ sent = n + 1
  /\ m \in 0 .. Len(stream[n + 1].text) - 1
  /\ taken = Len(Wire(stream, n)) + m
  /\ state_ = Turns("method_start", stream[n + 1].text)[m].parser.state_
  /\ request_.content_length = 0

(* What handle_read_header makes of a chunk then: either the request has   *)
(* more characters than the chunk, or the verdict is that of the request   *)
(* alone.                                                                  *)
LEMMA HeaderOfRequest ==
  ASSUME TypeOK, Framed(stream), NEW n, NEW m, AtCharacter(n, m),
         NEW k \in ReadSizes, NEW r, r = stream[n + 1],
         NEW base, base = Len(Wire(stream, n))
  PROVE  LET h  == Header(k)
             al == Alone(stream, n + 1)
         IN  /\ m + k <= Len(r.text) + r.body
             /\ r.body = IF al.status = "ok" THEN al.length ELSE 0
             /\ h.result = "indeterminate" =>
                  /\ m + k < Len(r.text)
                  /\ h.state_
                       = Turns("method_start", r.text)[m + k].parser.state_
             /\ h.result \in {"true", "false"} => h.at = base + Len(r.text)
             /\ h.result = "false" =>
                  al.asked = {} /\ al.status = "bad_request"
             /\ h.result = "true" =>
                  /\ al.asked = {h.request.target}
                  /\ al.status = IF h.handler # NULL /\ h.content_length >= 0
                                 THEN "ok" ELSE "bad_request"
                  /\ al.length = h.content_length
                  /\ VerbSeen(al, state_ = "method", h.request.verb)
             /\ h.result # "true" => h.content_length = 0
<1>1. /\ stream \in Streams /\ n \in Nat /\ n + 1 \in 0 .. Len(stream)
      /\ taken \in Nat /\ MaxLength \in Nat /\ state_ \in State
      /\ request_ \in Request /\ sent = n + 1
  BY SessionAssumption DEF TypeOK, AtCharacter, Request
<1>len. PICK text, body, len, wire, all :
          /\ text = r.text /\ body = r.body /\ len = Len(text)
          /\ wire = Wire(stream, n + 1) /\ all = Len(wire)
  OBVIOUS
<1> DEFINE chunk == SubSeq(wire, taken + 1, taken + k)
           a == Turns("method_start", text)
           whole == a[Len(text)].parser
           al == Alone(stream, n + 1)
<1>2. /\ text \in Seq(Char) /\ body \in Nat /\ n + 1 \in DOMAIN stream
      /\ wire \in Seq(Char) /\ len \in Nat /\ base \in Nat
      /\ all = base + len + body
      /\ \A j \in 1 .. len : wire[base + j] = text[j]
  <2>1. /\ r.text \in Seq(Char) /\ r.body \in Nat /\ n + 1 \in DOMAIN stream
        /\ Wire(stream, n + 1) \in Seq(Char)
        /\ Len(r.text) \in Nat /\ Len(Wire(stream, n)) \in Nat
        /\ Len(Wire(stream, n + 1))
             = Len(Wire(stream, n)) + Len(r.text) + r.body
        /\ \A j \in 1 .. Len(r.text) :
             Wire(stream, n + 1)[Len(Wire(stream, n)) + j] = r.text[j]
    <3>1. Follows(stream, n, r)
      BY <1>1, NextFollows
    <3> QED
      BY <3>1 DEF Follows
  <2> QED
    BY <1>len, <2>1
<1>m. /\ m \in Nat /\ m < len /\ taken = base + m
      /\ state_ = a[m].parser.state_ /\ request_.content_length = 0
  BY <1>2, <1>len DEF AtCharacter
<1> HIDE DEF a, al, whole
<1>3. k \in Nat /\ k >= 1 /\ taken + k <= all
  <2>1. ReadSizes = 1 .. (IF all - taken < MaxLength
                          THEN all - taken ELSE MaxLength)
    BY <1>1, <1>len DEF ReadSizes, Available
  <2>2. all \in Nat
    BY <1>2
  <2> QED
    BY <1>1, <2>1, <2>2
<1>4. m + k <= len + body
  BY <1>2, <1>3, <1>m
<1>5. chunk \in Seq(Char) /\ Len(chunk) = k
      /\ \A j \in 1 .. k : chunk[j] = wire[taken + j]
  <2>1. PICK x, y : x = taken + 1 /\ y = taken + k
    OBVIOUS
  <2>2. /\ x \in Int /\ y \in Int /\ x <= y /\ y - x + 1 = k
        /\ x >= 1 /\ y <= all
        /\ \A j \in 1 .. k : x + j - 1 = taken + j
    BY <1>1, <1>3, <2>1
  <2>3. \A i \in x .. y : wire[i] \in Char
    <3>1. \A i \in x .. y : i \in 1 .. Len(wire)
      BY <1>2, <1>len, <2>2
    <3> QED
      BY <1>2, <3>1, ElementOfSeq
  <2>4. /\ SubSeq(wire, x, y) \in Seq(Char)
        /\ Len(SubSeq(wire, x, y)) = IF x <= y THEN y - x + 1 ELSE 0
        /\ \A j \in 1 .. y - x + 1 : SubSeq(wire, x, y)[j] = wire[x + j - 1]
    BY <2>2, <2>3, SubSeqProperties
  <2> QED
    BY <2>1, <2>2, <2>4
<1>c. PICK ch : ch = chunk
  OBVIOUS
<1>6. \A j \in 1 .. Len(ch) : m + j <= Len(text) => ch[j] = text[m + j]
  <2> SUFFICES ASSUME NEW j \in 1 .. k, m + j <= len PROVE ch[j] = text[m + j]
    BY <1>5, <1>c, <1>len
  <2>1. m + j \in 1 .. len /\ taken + j = base + (m + j)
    BY <1>2, <1>3, <1>m
  <2>2. ch[j] = wire[base + (m + j)]
    BY <1>5, <1>c, <2>1
  <2>3. wire[base + (m + j)] = text[m + j]
    BY <1>2, <2>1
  <2> QED
    BY <2>2, <2>3
<1>7. /\ WholeHeader(text, a)
      /\ body = IF al.status = "ok" THEN al.length ELSE 0
  <2>1. /\ ParseChunk("method_start", text).parser.result # "indeterminate"
        /\ ParseChunk("method_start", text).read = Len(text)
        /\ Unfolded(text)
        /\ body = IF al.status = "ok" THEN al.length ELSE 0
    BY <1>2, <1>len DEF Framed, al
  <2> QED
    BY <1>2, <2>1 DEF WholeHeader, ParseChunk, a
<1>8. PICK out : out = ParseChunk(state_, ch)
  OBVIOUS
<1>9. PICK p, w : p = out.parser /\ w = whole
  OBVIOUS
<1>10. /\ w \in Parser
       /\ p.result = "indeterminate" =>
            m + k < len /\ p.state_ = a[m + k].parser.state_
       /\ p.result \in {"true", "false"} => m + out.read = len
       /\ p.result = "true" => /\ IsComplete(w.result)
                               /\ p.req.uri = w.req.uri
                               /\ p.req.headers = w.req.headers
                               /\ VerbKept(state_, p.req.method, w)
       /\ p.result = "false" => w.result = "false"
  <2>1. ch \in Seq(Char) /\ Len(ch) = k
    BY <1>5, <1>c
  <2>2. m \in 0 .. Len(text) - 1
    BY <1>2, <1>m, <1>len
  <2>3. out = ParseChunk(a[m].parser.state_, ch)
    BY <1>8, <1>m
  <2>4. /\ whole \in Parser
        /\ out.parser.result = "indeterminate" =>
             /\ m + Len(ch) < Len(text)
             /\ out.parser.state_ = a[m + Len(ch)].parser.state_
        /\ out.parser.result \in {"true", "false"} => m + out.read = Len(text)
        /\ out.parser.result = "true" =>
             /\ IsComplete(whole.result)
             /\ out.parser.req.uri = whole.req.uri
             /\ out.parser.req.headers = whole.req.headers
             /\ VerbKept(a[m].parser.state_, out.parser.req.method, whole)
        /\ out.parser.result = "false" => whole.result = "false"
    <3>1. WholeHeader(text, a) /\ ch \in Seq(Char)
      BY <1>7, <2>1
    <3>2. AsWhole(out, m + Len(ch), m, text, a)
      BY <1>6, <2>2, <2>3, <3>1, ParseOfPart
    <3> QED
      BY <3>2 DEF whole, AsWhole
  <2> QED
    BY <1>9, <1>len, <1>m, <2>1, <2>4
<1>11. out.read \in Nat
  <2>1. ch \in Seq(Char) /\ out.read \in 0 .. Len(ch)
    BY <1>1, <1>5, <1>8, <1>c, ParseChunkIs
  <2> QED
    BY <2>1
<1>12. PICK t, v : /\ t = translate(w.req)
                   /\ v = IF ContentLength \in DOMAIN t.fields
                          THEN t.fields[ContentLength] ELSE 0
  OBVIOUS
<1>13. /\ al.asked = IF IsComplete(w.result) THEN {t.target} ELSE {}
       /\ al.status = IF IsComplete(w.result) /\ Route(t.target) # NULL
                           /\ Length(v) >= 0
                      THEN "ok" ELSE "bad_request"
       /\ al.length = Length(v)
       /\ al.verb = t.verb /\ al.result = w.result
  <2>1. w = ParseChunk("method_start", stream[n + 1].text).parser
    BY <1>9, <1>len DEF ParseChunk, whole, a
  <2> QED
    BY <1>12, <2>1 DEF Alone, IsComplete, al
<1>14. PICK req : req = IF p.result = "true" THEN Translate(p.req) ELSE request_
  OBVIOUS
<1>15. PICK h : h = Header(k)
  OBVIOUS
<1>16. /\ h.result = p.result /\ h.state_ = p.state_ /\ h.request = req
       /\ h.content_length = Length(req.content_length)
       /\ h.handler = Route(req.target) /\ h.at = taken + out.read
  <2>1. Header(k) =
         [result         |-> p.result,
          state_         |-> p.state_,
          request        |-> req,
          content_length |-> Length(req.content_length),
          handler        |-> Route(req.target),
          at             |-> taken + out.read,
          rest           |-> k - out.read]
    BY <1>1, <1>8, <1>9, <1>14, <1>c, <1>len DEF Header
  <2> QED
    BY <1>15, <2>1
<1>17. ASSUME p.result = "true"
       PROVE  /\ req.target = t.target /\ req.content_length = v
              /\ req.verb = p.req.method /\ t.verb = w.req.method
              /\ IsComplete(w.result)
  <2>1. PICK f : f = translate(p.req)
    OBVIOUS
  <2>2. /\ f.target = t.target /\ f.fields = t.fields
        /\ f.verb = p.req.method /\ t.verb = w.req.method
    BY <1>10, <1>12, <1>17, <2>1, TranslateSame
  <2>3. v = IF ContentLength \in DOMAIN f.fields
            THEN f.fields[ContentLength] ELSE request_.content_length
    BY <1>12, <1>m, <2>2
  <2>4. request_ \in Request
    BY <1>1
  <2>5. req = [request_ EXCEPT
                 !.verb = f.verb, !.target = f.target,
                 !.content_length = IF ContentLength \in DOMAIN f.fields
                                    THEN f.fields[ContentLength] ELSE @]
    BY <1>14, <1>17, <2>1 DEF Translate
  <2>6. req = [request_ EXCEPT !.verb = f.verb, !.target = f.target,
                               !.content_length = v]
    BY <2>3, <2>4, <2>5 DEF Request
  <2>7. req.verb = f.verb /\ req.target = f.target /\ req.content_length = v
    BY <2>4, <2>6 DEF Request
  <2> QED
    BY <1>10, <1>17, <2>2, <2>7
<1>18. h.result \in {"true", "false"} => h.at = base + len
  <2>1. PICK x \in Nat : x = out.read
    BY <1>11
  <2>2. m + x = len => taken + x = base + len
    BY <1>2, <1>m
  <2> QED
    BY <1>10, <1>16, <2>1, <2>2
<1>19. h.result = "false" => al.asked = {} /\ al.status = "bad_request"
  BY <1>10, <1>13, <1>16 DEF IsComplete
<1>20. h.result = "true" =>
         /\ al.asked = {h.request.target}
         /\ al.status = IF h.handler # NULL /\ h.content_length >= 0
                        THEN "ok" ELSE "bad_request"
         /\ al.length = h.content_length
  BY <1>13, <1>16, <1>17
<1>23. h.result = "true" => VerbSeen(al, state_ = "method", h.request.verb)
  <2> SUFFICES ASSUME p.result = "true"
               PROVE  VerbSeen(al, state_ = "method", h.request.verb)
    BY <1>16
  <2>1. /\ h.request.verb = p.req.method /\ al.verb = w.req.method
        /\ al.result = w.result
    BY <1>13, <1>16, <1>17
  <2>2. VerbKept(state_, p.req.method, w)
    BY <1>10
  <2> QED
    BY <2>1, <2>2 DEF VerbKept, VerbSeen, BeforeUri
<1>21. h.result # "true" => h.content_length = 0
  BY <1>14, <1>16, <1>m DEF Length
<1>22. h.result = "indeterminate" =>
         m + k < len /\ h.state_ = a[m + k].parser.state_
  BY <1>10, <1>16
<1> QED
  BY <1>4, <1>7, <1>15, <1>18, <1>19, <1>20, <1>21, <1>22, <1>23, <1>len
  DEF a, al

(* The session reads the body of request n + 1, whose header would have    *)
(* been answered by a handler, and waits for all that is left of it.       *)
AtBody(n) ==
  /\ n \in Nat /\ sent = n + 1
  /\ taken + need = Len(Wire(stream, n + 1))
  /\ taken - Len(request_.body)
       = Len(Wire(stream, n)) + Len(stream[n + 1].text)
  /\ Alone(stream, n + 1).status = "ok"
  /\ Alone(stream, n + 1).asked = {request_.target}
  /\ VerbSeen(Alone(stream, n + 1), cut, request_.verb)

(* Between two requests: all that was sent has been taken. *)
AtEnd(n) ==
  /\ sent = n /\ taken = Len(Wire(stream, n))
  /\ state_ = "method_start" /\ request_.content_length = 0

(* The session after n answers: it has taken the first n requests and a    *)
(* part of the next one.                                                   *)
StandsAt(n) ==
  /\ n <= sent /\ sent <= n + 1
  /\ \A i \in 1 .. n : AsAlone(stream, i, answers[i])
  /\ Running("read_header") => AtEnd(n) \/ \E m : AtCharacter(n, m)
  /\ Running("write") => taken = Len(Wire(stream, n))
  /\ Running("read_body") => AtBody(n)

(* The inductive invariant behind AnswersInOrder. *)
InStep == ~Pipelined /\ Framed(stream) => StandsAt(Len(answers))

(* A request that has not been read yet. *)
LEMMA AtItsStart ==
  ASSUME NEW s \in Streams, Framed(s), NEW n \in Nat, n + 1 \in 0 .. Len(s),
         NEW t, t = s[n + 1].text
  PROVE  /\ 0 \in 0 .. Len(t) - 1
         /\ Turns("method_start", t)[0].parser.state_ = "method_start"
<1>1. PICK a : a = Turns("method_start", t)
  OBVIOUS
<1>2. PICK r : r = s[n + 1]
  OBVIOUS
<1>3. Follows(s, n, r)
  BY <1>2, NextFollows
<1>4. t \in Seq(Char) /\ n + 1 \in DOMAIN s
  BY <1>2, <1>3 DEF Follows
<1>5. /\ ParseChunk("method_start", t).parser.result # "indeterminate"
      /\ ParseChunk("method_start", t).read = Len(t)
      /\ Unfolded(t)
  BY <1>4 DEF Framed
<1>6. WholeHeader(t, a)
  BY <1>1, <1>4, <1>5 DEF WholeHeader, ParseChunk
<1>7. Len(t) \in Nat \ {0}
  BY <1>6, WholeTurns
<1>8. a[0] = FirstTurn("method_start")
  BY <1>1, <1>4, TurnsAre
<1>9. a[0].parser.state_ = "method_start"
  BY <1>8 DEF FirstTurn, NewParser
<1> QED
  BY <1>1, <1>7, <1>9

(* write() of an answer that is the one that the request would get alone,  *)
(* after the last byte of the request has been taken.                      *)
LEMMA WriteInStep ==
  ASSUME IInv, IInv', NEW n, n = Len(answers), StandsAt(n), sent = n + 1,
         NEW req, NEW asked, NEW status, NEW at, write(req, asked, status, at),
         UNCHANGED <<stream, sent>>,
         NEW r, r = stream[n + 1],
         asked = Alone(stream, n + 1).asked,
         status = Alone(stream, n + 1).status,
         status = "ok" =>
           /\ at = Len(Wire(stream, n)) + Len(r.text)
           /\ Length(req.content_length) = r.body,
         asked # {} => VerbSeen(Alone(stream, n + 1), cut', req.verb),
         taken' = Len(Wire(stream, n + 1))
  PROVE  InStep'
<1>1. PICK a : a = [asked |-> asked, status |-> status, at |-> at,
                    cut |-> cut', verb |-> req.verb,
                    content_length |-> req.content_length, body |-> req.body]
  OBVIOUS
<1>2. answers' = Append(answers, a) /\ op' = "write"
  BY <1>1 DEF write
<1>3. answers \in Seq(Answer) /\ answers' \in Seq(Answer)
  BY DEF IInv, TypeOK
<1>4. PICK S : answers \in Seq(S) /\ a \in S
  <2>1. answers \in Seq(Answer \cup {a})
    BY <1>3, LenProperties, SeqDef
  <2> QED
    BY <2>1
<1>5. /\ Len(answers') = n + 1 /\ answers'[n + 1] = a /\ n \in Nat
      /\ \A i \in 1 .. n : answers'[i] = answers[i]
  BY <1>2, <1>4, AppendProperties, LenProperties
<1>6. AsAlone(stream, n + 1, a)
  <2>1. a.asked = asked /\ a.status = status /\ a.at = at
        /\ a.content_length = req.content_length
        /\ a.cut = cut' /\ a.verb = req.verb
    BY <1>1
  <2>2. status = "ok" => a.body = Alone(stream, n + 1).body
    <3> SUFFICES ASSUME status = "ok" PROVE a.body = Alone(stream, n + 1).body
      OBVIOUS
    <3>1. n + 1 \in DOMAIN answers'
      BY <1>3, <1>5, LenProperties
    <3>2. a.body = Slice(at, Length(req.content_length))
      BY <1>5, <2>1, <3>1 DEF IInv, BodyFollowsHeader
    <3>3. a.body = Slice(Len(Wire(stream, n)) + Len(r.text), r.body)
      BY <3>2
    <3>4. (n + 1) - 1 = n
      BY <1>5
    <3>5. Alone(stream, n + 1).body
            = Slice(Len(Wire(stream, (n + 1) - 1)) + Len(stream[n + 1].text),
                    stream[n + 1].body)
      BY DEF Alone
    <3> QED
      BY <3>3, <3>4, <3>5
  <2> QED
    BY <2>1, <2>2 DEF AsAlone
<1>7. \A i \in 1 .. n + 1 : AsAlone(stream, i, answers'[i])
  <2>1. \A i \in 1 .. n + 1 : i = n + 1 \/ i \in 1 .. n
    BY <1>5
  <2>2. \A i \in 1 .. n : AsAlone(stream, i, answers[i])
    BY DEF StandsAt
  <2> QED
    BY <1>5, <1>6, <2>1, <2>2
<1>8. StandsAt(n + 1)'
  <2>1. n + 1 <= sent' /\ sent' <= n + 1 + 1
    BY <1>5
  <2> QED
    BY <1>2, <1>7, <2>1 DEF StandsAt, Running
<1>9. InStep'
  BY <1>5, <1>8 DEF InStep
<1> QED
  BY <1>9

(* A new session has nothing to read. *)
LEMMA InitInStep == Init => InStep
<1> SUFFICES ASSUME Init PROVE InStep
  OBVIOUS
<1>1. /\ stream \in Streams /\ sent = 0 /\ taken = 0 /\ op = "read_header"
      /\ state_ = "method_start" /\ request_.content_length = 0
      /\ answers = <<>>
  BY DEF Init, NewRequest
<1>2. Len(stream) \in Nat
  <2>1. \E R : stream \in Seq(R)
    BY <1>1, SessionAssumption
  <2> QED
    BY <2>1, LenProperties
<1>3. Wire(stream, 0) = <<>>
  <2>1. 0 \in 0 .. Len(stream)
    BY <1>2
  <2> QED
    BY <1>1, <2>1, WireIs
<1>4. PICK n : n = Len(answers)
  OBVIOUS
<1>5. n = 0 /\ Len(Wire(stream, n)) = 0
  BY <1>1, <1>3, <1>4, EmptySeq
<1>6. AtEnd(n)
  BY <1>1, <1>5 DEF AtEnd
<1>7. StandsAt(n)
  BY <1>1, <1>5, <1>6 DEF StandsAt, Running
<1> QED
  BY <1>4, <1>7 DEF InStep

(* handle_read_header keeps in step. *)
LEMMA ReadHeaderInStep ==
  ASSUME IInv, IInv', InStep, handle_read_header PROVE InStep'
<1> SUFFICES ASSUME ~Pipelined, Framed(stream) PROVE InStep'
  BY DEF handle_read_header, client, InStep, Pipelined
<1>t. TypeOK
  BY DEF IInv
<1>1. PICK k \in ReadSizes :
        /\ taken' = taken + k
        /\ \E h \in {Header(k)} :
             \/ ReadRemainingHeader(h) \/ ParserThrows(h) \/ BadHeader(h)
             \/ NoHandler(h) \/ Complete(h) \/ NeedsBody(h)
  BY DEF handle_read_header
<1>2. PICK h : h = Header(k)
  OBVIOUS
<1>3. PICK n : n = Len(answers)
  OBVIOUS
<1>4. /\ StandsAt(n) /\ Running("read_header")
      /\ stream' = stream /\ sent' = sent /\ n \in Nat
      /\ cut' = (state_ = "method")
      /\ \A i \in 1 .. n : AsAlone(stream, i, answers[i])
  <2>1. answers \in Seq(Answer)
    BY <1>t DEF TypeOK
  <2>2. n \in Nat
    BY <1>3, <2>1, LenProperties
  <2>3. StandsAt(n)
    BY <1>3 DEF InStep
  <2>4. \A i \in 1 .. n : AsAlone(stream, i, answers[i])
    BY <2>3 DEF StandsAt
  <2> QED
    BY <2>2, <2>3, <2>4 DEF handle_read_header, client
<1>5. \E m : AtCharacter(n, m)
  <2>1. AtEnd(n) \/ \E m : AtCharacter(n, m)
    BY <1>4 DEF StandsAt
  <2>2. ~AtEnd(n)
    <3> SUFFICES ASSUME AtEnd(n) PROVE FALSE
      OBVIOUS
    <3>1. Available = taken - taken
      BY DEF AtEnd, Available
    <3>2. taken \in Nat /\ MaxLength \in Nat \ {0}
      BY <1>t, SessionAssumption DEF TypeOK
    <3>3. ReadSizes = 1 .. 0
      BY <3>1, <3>2 DEF ReadSizes
    <3> QED
      BY <3>3
  <2> QED
    BY <2>1, <2>2
<1>6. PICK m : AtCharacter(n, m)
  BY <1>5
<1>7. PICK r, base, al, len :
        /\ r = stream[n + 1] /\ base = Len(Wire(stream, n))
        /\ al = Alone(stream, n + 1) /\ len = Len(r.text)
  OBVIOUS
<1>v. h.result = "true" => VerbSeen(al, cut', h.request.verb)
  <2>1. h.result = "true" => VerbSeen(al, state_ = "method", h.request.verb)
    BY <1>2, <1>6, <1>7, <1>t, HeaderOfRequest
  <2> QED
    BY <1>4, <2>1 DEF VerbSeen
<1>8. /\ m + k <= len + r.body
      /\ r.body = IF al.status = "ok" THEN al.length ELSE 0
      /\ h.result = "indeterminate" =>
           /\ m + k < len
           /\ h.state_ = Turns("method_start", r.text)[m + k].parser.state_
      /\ h.result \in {"true", "false"} => h.at = base + len
      /\ h.result = "false" => al.asked = {} /\ al.status = "bad_request"
      /\ h.result = "true" =>
           /\ al.asked = {h.request.target}
           /\ al.status = IF h.handler # NULL /\ h.content_length >= 0
                          THEN "ok" ELSE "bad_request"
           /\ al.length = h.content_length
           /\ VerbSeen(al, cut', h.request.verb)
      /\ h.result # "true" => h.content_length = 0
  <2>1. LET hh == Header(k)
            aa == Alone(stream, n + 1)
        IN  /\ m + k <= Len(r.text) + r.body
            /\ r.body = IF aa.status = "ok" THEN aa.length ELSE 0
            /\ hh.result = "indeterminate" =>
                 /\ m + k < Len(r.text)
                 /\ hh.state_
                      = Turns("method_start", r.text)[m + k].parser.state_
            /\ hh.result \in {"true", "false"} => hh.at = base + Len(r.text)
            /\ hh.result = "false" =>
                 aa.asked = {} /\ aa.status = "bad_request"
            /\ hh.result = "true" =>
                 /\ aa.asked = {hh.request.target}
                 /\ aa.status = IF hh.handler # NULL /\ hh.content_length >= 0
                                THEN "ok" ELSE "bad_request"
                 /\ aa.length = hh.content_length
            /\ hh.result # "true" => hh.content_length = 0
    BY <1>6, <1>7, <1>t, HeaderOfRequest
  <2> QED
    BY <1>2, <1>7, <1>v, <2>1
<1>9. /\ h.request.body = request_.body /\ h.request \in Request
      /\ h.content_length = Length(h.request.content_length)
      /\ h.content_length \in Int /\ h.result \in Result
      /\ h.at \in Nat /\ h.rest \in Nat /\ h.at + h.rest = taken + k
      /\ k \in Nat
  BY <1>2, <1>t, HeaderIs
<1>10. /\ sent = n + 1 /\ n + 1 \in 0 .. Len(stream) /\ stream \in Streams
       /\ m \in Nat /\ taken = base + m /\ request_.content_length = 0
       /\ base \in Nat /\ len \in Nat /\ r.body \in Nat
       /\ Len(Wire(stream, n + 1)) = base + len + r.body
  <2>1. sent = n + 1 /\ n + 1 \in 0 .. Len(stream) /\ stream \in Streams
    BY <1>6, <1>t DEF AtCharacter, TypeOK
  <2>2. Follows(stream, n, r)
    BY <1>4, <1>7, <2>1, NextFollows
  <2>3. /\ base \in Nat /\ len \in Nat /\ r.body \in Nat
        /\ Len(Wire(stream, n + 1)) = base + len + r.body
    BY <1>7, <2>2 DEF Follows
  <2>4. m \in Nat /\ taken = base + m /\ request_.content_length = 0
    BY <1>6, <1>7, <2>3 DEF AtCharacter
  <2> QED
    BY <2>1, <2>3, <2>4
<1>11. (h.result \in {"true", "false"} /\ h.rest >= r.body) =>
         taken' = Len(Wire(stream, n + 1))
  <2> SUFFICES ASSUME h.at = base + len, h.rest >= r.body
               PROVE  taken' = base + len + r.body
    BY <1>8, <1>10
  <2>1. taken + k = base + len + h.rest
    BY <1>9
  <2>2. base + m + k = base + len + h.rest /\ m + k <= len + r.body
    BY <1>8, <1>10, <2>1
  <2>3. ASSUME NEW b \in Nat, NEW i \in Nat, NEW j \in Nat, NEW l \in Nat,
               NEW x \in Nat, NEW y \in Nat,
               b + i + j = b + l + x, i + j <= l + y, x >= y
        PROVE  x = y
    BY <2>3
  <2>4. h.rest = r.body
    BY <1>9, <1>10, <2>2, <2>3
  <2> QED
    BY <1>1, <2>1, <2>4
<1>12. CASE ReadRemainingHeader(h)
  <2>1. /\ h.result = "indeterminate" /\ state_' = h.state_
        /\ UNCHANGED <<op, need, request_, answers, terminated>>
    BY <1>12 DEF ReadRemainingHeader
  <2>2. m + k \in 0 .. len - 1 /\ taken' = base + (m + k)
    <3>1. m + k < len
      BY <1>8, <2>1
    <3>2. taken' = base + m + k
      BY <1>1, <1>10
    <3> QED
      BY <1>9, <1>10, <3>1, <3>2
  <2>3. AtCharacter(n, m + k)'
    BY <1>4, <1>7, <1>8, <1>10, <2>1, <2>2 DEF AtCharacter
  <2>4. op = "read_header"
    BY <1>4 DEF Running
  <2>5. StandsAt(n)'
    BY <1>4, <1>10, <2>1, <2>3, <2>4 DEF StandsAt, Running
  <2> QED
    BY <1>3, <2>1, <2>5 DEF InStep
<1>13. CASE ParserThrows(h)
  <2>1. terminated' = TRUE /\ answers' = answers
    BY <1>13 DEF ParserThrows
  <2>2. StandsAt(n)'
    BY <1>4, <1>10, <2>1 DEF StandsAt, Running
  <2> QED
    BY <1>3, <2>1, <2>2 DEF InStep
<1>14. ASSUME NEW asked,
              write(h.request, asked, "bad_request", h.at),
              h.result \in {"true", "false"}, al.status = "bad_request",
              asked = al.asked,
              asked # {} => VerbSeen(al, cut', h.request.verb)
       PROVE  InStep'
  <2>1. r.body = 0 /\ h.rest >= 0
    BY <1>8, <1>9, <1>14
  <2>2. taken' = Len(Wire(stream, n + 1))
    BY <1>11, <1>14, <2>1
  <2>3. "bad_request" # "ok"
    OBVIOUS
  <2> QED
    BY <1>3, <1>4, <1>7, <1>10, <1>14, <2>2, <2>3, WriteInStep
<1>15. CASE BadHeader(h)
  <2>1. /\ h.result = "false" \/ (h.result # "throw" /\ h.result # "crash"
                                   /\ h.content_length < 0)
        /\ write(h.request, IF h.result = "true" THEN {h.request.target} ELSE {},
                 "bad_request", h.at)
    BY <1>15 DEF BadHeader
  <2>2. \/ h.result = "false"
        \/ h.result = "true" /\ ~(h.content_length >= 0)
    <3>1. h.result # "true" => ~(h.content_length < 0)
      BY <1>8
    <3>2. h.content_length < 0 => ~(h.content_length >= 0)
      BY <1>9
    <3> QED
      BY <2>1, <3>1, <3>2
  <2>3. /\ h.result \in {"true", "false"} /\ al.status = "bad_request"
        /\ al.asked = IF h.result = "true" THEN {h.request.target} ELSE {}
        /\ al.asked # {} => VerbSeen(al, cut', h.request.verb)
    BY <1>8, <2>2
  <2> QED
    BY <1>14, <2>1, <2>3
<1>16. CASE NoHandler(h)
  <2>1. /\ h.result = "true" /\ h.handler = NULL
        /\ write(h.request, {h.request.target}, "bad_request", h.at)
    BY <1>16 DEF NoHandler
  <2>2. /\ al.status = "bad_request" /\ al.asked = {h.request.target}
        /\ VerbSeen(al, cut', h.request.verb)
    BY <1>8, <2>1
  <2> QED
    BY <1>14, <2>1, <2>2
<1>17. ASSUME h.result = "true", h.content_length >= 0, h.handler # NULL
       PROVE  /\ al.status = "ok" /\ al.asked = {h.request.target}
              /\ r.body = h.content_length /\ h.at = base + len
              /\ VerbSeen(al, cut', h.request.verb)
  BY <1>8, <1>17
<1>18. ASSUME NEW b
       PROVE  /\ [h.request EXCEPT !.body = b].target = h.request.target
              /\ [h.request EXCEPT !.body = b].verb = h.request.verb
              /\ [h.request EXCEPT !.body = b].content_length
                   = h.request.content_length
              /\ [h.request EXCEPT !.body = b].body = b
  BY <1>9 DEF Request
<1>19. CASE Complete(h)
  <2>1. PICK b : b = h.request.body \o BodyInBuffer(h)
    OBVIOUS
  <2>2. PICK req : req = [h.request EXCEPT !.body = b]
    OBVIOUS
  <2>3. req = [h.request EXCEPT !.body = @ \o BodyInBuffer(h)]
    BY <1>9, <2>1, <2>2 DEF Request
  <2>4. /\ h.result = "true" /\ h.content_length >= 0 /\ h.handler # NULL
        /\ h.rest >= h.content_length
        /\ Respond(h.handler, req, h.at)
    BY <1>19, <2>3 DEF Complete
  <2>5. /\ al.status = "ok" /\ al.asked = {req.target}
        /\ r.body = Length(req.content_length) /\ h.at = base + len
        /\ h.rest >= r.body /\ VerbSeen(al, cut', req.verb)
    BY <1>9, <1>17, <1>18, <2>2, <2>4
  <2>6. CASE terminated' = TRUE /\ answers' = answers
    <3>1. StandsAt(n)'
      BY <1>4, <1>10, <2>6 DEF StandsAt, Running
    <3> QED
      BY <1>3, <2>6, <3>1 DEF InStep
  <2>7. CASE write(req, {req.target}, "ok", h.at)
    <3>1. taken' = Len(Wire(stream, n + 1))
      BY <1>11, <2>4, <2>5
    <3>2. /\ {req.target} = Alone(stream, n + 1).asked
          /\ "ok" = Alone(stream, n + 1).status
          /\ h.at = Len(Wire(stream, n)) + Len(r.text)
          /\ Length(req.content_length) = r.body
          /\ VerbSeen(Alone(stream, n + 1), cut', req.verb)
      BY <1>7, <2>5
    <3>3. r = stream[n + 1] /\ sent = n + 1
      BY <1>7, <1>10
    <3>4. StandsAt(n) /\ UNCHANGED <<stream, sent>> /\ n = Len(answers)
      BY <1>3, <1>4
    <3>5. PICK at, asked, status :
            at = h.at /\ asked = {req.target} /\ status = "ok"
      OBVIOUS
    <3>6. /\ write(req, asked, status, at)
          /\ asked = Alone(stream, n + 1).asked
          /\ status = Alone(stream, n + 1).status
          /\ at = Len(Wire(stream, n)) + Len(r.text)
      BY <2>7, <3>2, <3>5
    <3> QED
      BY <3>1, <3>2, <3>3, <3>4, <3>6, WriteInStep
  <2> QED
    BY <2>4, <2>6, <2>7 DEF Respond
<1>20. CASE NeedsBody(h)
  <2>1. PICK b : b = h.request.body \o BodyInBuffer(h)
    OBVIOUS
  <2>2. PICK req : req = [h.request EXCEPT !.body = b]
    OBVIOUS
  <2>3. req = [h.request EXCEPT !.body = @ \o BodyInBuffer(h)]
    BY <1>9, <2>1, <2>2 DEF Request
  <2>4. /\ h.result = "true" /\ h.content_length >= 0 /\ h.handler # NULL
        /\ h.rest < h.content_length
        /\ request_' = req /\ need' = h.content_length - h.rest
        /\ op' = "read_body" /\ answers' = answers
        /\ terminated' = terminated
    BY <1>20, <2>3 DEF NeedsBody, Missing
  <2>5. /\ al.status = "ok" /\ al.asked = {req.target}
        /\ r.body = h.content_length /\ h.at = base + len
        /\ VerbSeen(al, cut', req.verb)
    BY <1>17, <1>18, <2>2, <2>4
  <2>6. taken' = base + len + h.rest
    BY <1>1, <1>9, <2>5
  <2>7. taken' + need' = Len(Wire(stream, n + 1))
    <3>1. PICK x, y, z : x = h.rest /\ y = h.content_length /\ z = base + len
      OBVIOUS
    <3>2. x \in Nat /\ y \in Int /\ z \in Nat
      BY <1>9, <1>10, <3>1
    <3>3. taken' = z + x /\ need' = y - x
      BY <2>4, <2>6, <3>1
    <3>4. Len(Wire(stream, n + 1)) = z + y
      BY <1>10, <2>5, <3>1
    <3> QED
      BY <3>2, <3>3, <3>4
  <2>8. taken' - Len(request_'.body) = base + len
    <3>1. /\ Len(request_'.body) + need' = Stoi(request_'.content_length)
          /\ request_'.content_length # 0
      BY <1>4, <2>4 DEF IInv, BodyHandlerIsCurrent, BodySoFar, Running
    <3>2. request_'.content_length = h.request.content_length
      BY <1>18, <2>2, <2>4
    <3>3. Len(request_'.body) + need' = h.content_length
      BY <1>9, <3>1, <3>2 DEF Length
    <3>4. PICK x : x = Len(request_'.body)
      OBVIOUS
    <3>5. x \in Nat
      <4>1. request_'.body \in Seq(Nat)
        BY DEF IInv, TypeOK
      <4> QED
        BY <3>4, <4>1, LenProperties
    <3>6. x = h.rest
      BY <1>9, <2>4, <3>3, <3>4, <3>5
    <3> QED
      BY <1>9, <1>10, <2>6, <3>4, <3>6
  <2>9. AtBody(n)'
    BY <1>4, <1>7, <1>10, <2>4, <2>5, <2>7, <2>8 DEF AtBody
  <2>10. StandsAt(n)'
    BY <1>4, <1>10, <2>4, <2>9 DEF StandsAt, Running
  <2> QED
    BY <1>3, <2>4, <2>10 DEF InStep
<1> QED
  BY <1>1, <1>2, <1>12, <1>13, <1>15, <1>16, <1>19, <1>20

(* handle_read_body keeps in step. *)
LEMMA ReadBodyInStep ==
  ASSUME IInv, IInv', InStep, handle_read_body PROVE InStep'
<1> SUFFICES ASSUME ~Pipelined, Framed(stream) PROVE InStep'
  BY DEF handle_read_body, client, InStep, Pipelined
<1>t. TypeOK
  BY DEF IInv
<1>1. PICK n : n = Len(answers)
  OBVIOUS
<1>2. /\ StandsAt(n) /\ Running("read_body") /\ AtBody(n)
      /\ stream' = stream /\ sent' = sent /\ sent = n + 1
      /\ n \in Nat /\ taken' = taken + need
      /\ \A i \in 1 .. n : AsAlone(stream, i, answers[i])
  BY <1>1 DEF InStep, StandsAt, AtBody, handle_read_body, client
<1>3. /\ n + 1 \in 0 .. Len(stream) /\ stream \in Streams
      /\ request_ \in Request /\ taken \in Nat /\ need \in Nat
  BY <1>2, <1>t DEF TypeOK, Request
<1>4. PICK r, base, len, x :
        /\ r = stream[n + 1] /\ base = Len(Wire(stream, n))
        /\ len = Len(r.text) /\ x = Len(request_.body)
  OBVIOUS
<1>5. /\ base \in Nat /\ len \in Nat /\ r.body \in Nat /\ x \in Nat
      /\ Len(Wire(stream, n + 1)) = base + len + r.body
  <2>1. Follows(stream, n, r)
    BY <1>2, <1>3, <1>4, NextFollows
  <2>2. request_.body \in Seq(Nat)
    BY <1>3 DEF Request
  <2> QED
    BY <1>4, <2>1, <2>2, LenProperties DEF Follows
<1>6. /\ taken + need = base + len + r.body /\ taken - x = base + len
      /\ Alone(stream, n + 1).status = "ok"
      /\ Alone(stream, n + 1).asked = {request_.target}
      /\ VerbSeen(Alone(stream, n + 1), cut, request_.verb) /\ cut' = cut
  BY <1>2, <1>4, <1>5 DEF AtBody, handle_read_body
<1>7. /\ request_handler_ # NULL /\ x + need = Stoi(request_.content_length)
      /\ request_.content_length # 0
  BY <1>2, <1>4 DEF IInv, BodyHandlerIsCurrent, BodySoFar
<1>8. r.body = Length(request_.content_length)
  <2>1. x + need = r.body
    <3>1. taken + need = base + len + r.body /\ taken - x = base + len
      BY <1>6
    <3> QED
      BY <1>3, <1>5, <3>1
  <2> QED
    BY <1>7, <2>1 DEF Length
<1>9. PICK req : req = [request_ EXCEPT !.body = @ \o Slice(taken, need)]
  OBVIOUS
<1>10. /\ req.target = request_.target /\ req.verb = request_.verb
       /\ req.content_length = request_.content_length
  <2>1. PICK b : b = request_.body \o Slice(taken, need)
    OBVIOUS
  <2>2. req = [request_ EXCEPT !.body = b]
    BY <1>3, <1>9, <2>1 DEF Request
  <2> QED
    BY <1>3, <2>2 DEF Request
<1>b. body_data' = Slice(taken, need)
  <2>1. PICK u : u = Slice(taken, need)
    OBVIOUS
  <2>2. u \in Seq(Nat)
    BY <1>3, <2>1, SliceIs
  <2>3. body_data = <<>> /\ body_data' = body_data \o u
    BY <2>1 DEF IInv, BodySoFar, handle_read_body
  <2> QED
    BY <2>1, <2>2, <2>3, ConcatEmptySeq
<1>11. Respond(request_handler_, req, taken - x)
  BY <1>4, <1>7, <1>9, <1>b DEF handle_read_body
<1>12. CASE terminated' = TRUE /\ answers' = answers
  <2>1. StandsAt(n)'
    BY <1>2, <1>12 DEF StandsAt, Running
  <2> QED
    BY <1>1, <1>12, <2>1 DEF InStep
<1>13. CASE write(req, {req.target}, "ok", taken - x)
  <2>1. taken' = Len(Wire(stream, n + 1))
    BY <1>2, <1>5, <1>6
  <2>2. Length(req.content_length) = r.body
    BY <1>8, <1>10
  <2>3. /\ {req.target} = Alone(stream, n + 1).asked
        /\ VerbSeen(Alone(stream, n + 1), cut', req.verb)
    BY <1>6, <1>10
  <2>4. /\ taken - x = Len(Wire(stream, n)) + Len(r.text)
        /\ "ok" = Alone(stream, n + 1).status /\ r = stream[n + 1]
    BY <1>4, <1>6
  <2> QED
    BY <1>1, <1>2, <1>13, <2>1, <2>2, <2>3, <2>4, WriteInStep
<1> QED
  BY <1>11, <1>12, <1>13 DEF Respond

(* Every step keeps in step. *)
LEMMA NextInStep == IInv /\ IInv' /\ InStep /\ [Next]_vars => InStep'
<1> SUFFICES ASSUME IInv, IInv', InStep, [Next]_vars PROVE InStep'
  OBVIOUS
<1>t. TypeOK /\ TypeOK'
  BY DEF IInv
<1>1. PICK n : n = Len(answers)
  OBVIOUS
<1>2. n \in Nat
  <2>1. answers \in Seq(Answer)
    BY <1>t DEF TypeOK
  <2> QED
    BY <1>1, <2>1, LenProperties
<1>3. ASSUME UNCHANGED <<stream, sent, answers>>,
             terminated' \/ op' = "none"
                 \/ UNCHANGED <<taken, op, need, state_, request_, cut,
                                terminated>>
      PROVE  InStep'
  <2> SUFFICES ASSUME ~Pipelined, Framed(stream) PROVE StandsAt(n)'
    BY <1>1, <1>3 DEF InStep, Pipelined
  <2>1. StandsAt(n)
    BY <1>1 DEF InStep
  <2>2. CASE terminated' \/ op' = "none"
    BY <1>3, <2>1, <2>2 DEF StandsAt, Running
  <2>3. CASE UNCHANGED <<taken, op, need, state_, request_, cut, terminated>>
    BY <1>3, <2>1, <2>3 DEF StandsAt, Running, AtEnd, AtCharacter, AtBody
  <2> QED
    BY <1>3, <2>2, <2>3
<1>b. ASSUME Framed(stream), stream' = stream, sent' = n \/ sent' = n + 1,
             taken' = Len(Wire(stream, n)), state_' = "method_start",
             request_'.content_length = 0
      PROVE  (AtEnd(n) \/ \E m : AtCharacter(n, m))'
  <2>1. CASE sent' = n
    BY <1>b, <2>1 DEF AtEnd
  <2>2. CASE sent' = n + 1
    <3>1. PICK r : r = stream[n + 1]
      OBVIOUS
    <3>2. stream \in Streams /\ n + 1 \in 0 .. Len(stream)
      BY <1>b, <1>t, <2>2 DEF TypeOK
    <3>3. /\ 0 \in 0 .. Len(r.text) - 1
          /\ Turns("method_start", r.text)[0].parser.state_ = "method_start"
      BY <1>2, <1>b, <3>1, <3>2, AtItsStart
    <3>4. Follows(stream, n, r)
      BY <1>2, <3>1, <3>2, NextFollows
    <3>5. taken' = Len(Wire(stream, n)) + 0
      BY <1>b, <3>4 DEF Follows
    <3>6. AtCharacter(n, 0)'
      BY <1>2, <1>b, <2>2, <3>1, <3>3, <3>5 DEF AtCharacter
    <3> QED
      BY <3>6
  <2> QED
    BY <1>b, <2>1, <2>2
<1>4. CASE Send
  <2> SUFFICES ASSUME ~Pipelined, Framed(stream) PROVE StandsAt(n)'
    BY <1>1, <1>4 DEF Send, InStep, Pipelined
  <2>1. /\ sent <= n /\ sent' = sent + 1
        /\ UNCHANGED <<stream, taken, op, need, state_, request_, answers,
                       terminated>>
    BY <1>1, <1>2, <1>4, <1>t DEF Send, TypeOK
  <2>2. /\ n <= sent /\ \A i \in 1 .. n : AsAlone(stream, i, answers[i])
        /\ Running("read_header") => AtEnd(n) \/ \E m : AtCharacter(n, m)
        /\ Running("write") => taken = Len(Wire(stream, n))
        /\ Running("read_body") => AtBody(n)
    BY <1>1 DEF InStep, StandsAt
  <2>3. sent = n /\ sent' = n + 1 /\ n # n + 1
    BY <1>2, <1>t, <2>1, <2>2 DEF TypeOK
  <2>4. Running("read_header") => AtEnd(n)
    BY <2>2, <2>3 DEF AtCharacter
  <2>5. ~Running("read_body")
    BY <2>2, <2>3 DEF AtBody
  <2>6. Running("read_header")' => (AtEnd(n) \/ \E m : AtCharacter(n, m))'
    <3> SUFFICES ASSUME Running("read_header")'
                 PROVE  (AtEnd(n) \/ \E m : AtCharacter(n, m))'
      OBVIOUS
    <3>1. AtEnd(n)
      BY <2>1, <2>4 DEF Running
    <3>2. /\ taken' = Len(Wire(stream, n)) /\ state_' = "method_start"
          /\ request_'.content_length = 0
      BY <2>1, <3>1 DEF AtEnd
    <3> QED
      BY <1>b, <2>1, <2>3, <3>2
  <2> QED
    BY <1>2, <2>1, <2>2, <2>3, <2>5, <2>6 DEF StandsAt, Running
<1>5. CASE Close \/ Break
  BY <1>3, <1>5 DEF Close, Break
<1>6. CASE handle_read_header
  BY <1>6, ReadHeaderInStep
<1>7. CASE handle_read_body
  BY <1>7, ReadBodyInStep
<1>8. CASE handle_write
  <2> SUFFICES ASSUME ~Pipelined, Framed(stream) PROVE StandsAt(n)'
    BY <1>1, <1>8 DEF handle_write, client, InStep, Pipelined
  <2>1. /\ Running("write") /\ state_' = "method_start"
        /\ request_' = Cleared(request_) /\ op' = "read_header"
        /\ UNCHANGED <<stream, sent, taken, answers>>
    BY <1>8 DEF handle_write, client
  <2>2. /\ n <= sent /\ sent <= n + 1
        /\ \A i \in 1 .. n : AsAlone(stream, i, answers[i])
        /\ taken = Len(Wire(stream, n))
    BY <1>1, <2>1 DEF InStep, StandsAt
  <2>3. request_'.content_length = 0
    <3>1. request_ \in Request
      BY <1>t DEF TypeOK, Request
    <3> QED
      BY <2>1, <3>1 DEF Cleared, Request
  <2>4. sent = n \/ sent = n + 1
    BY <1>2, <1>t, <2>2 DEF TypeOK
  <2>5. (AtEnd(n) \/ \E m : AtCharacter(n, m))'
    BY <1>b, <2>1, <2>2, <2>3, <2>4
  <2> QED
    BY <2>1, <2>2, <2>5 DEF StandsAt, Running
<1>9. CASE ReadEof
  BY <1>3, <1>9 DEF ReadEof, client
<1>10. CASE EndpointThrows
  BY <1>3, <1>10 DEF EndpointThrows, client
<1>11. CASE UNCHANGED vars
  BY <1>3, <1>11 DEF vars, client
<1> QED
  BY <1>4, <1>5, <1>6, <1>7, <1>8, <1>9, <1>10, <1>11 DEF Next, ServerStep

(* A client that waits for each answer and whose requests the parser can   *)
(* tell apart gets the answers of its requests, in their order: the        *)
(* status, the target and the body are those of the request alone in one   *)
(* chunk, and the verb is the one sent or, cut, its last letters.          *)
THEOREM AnsweredInOrder == Spec => []AnswersInOrder
<1>1. IInv /\ InStep => AnswersInOrder
  <2> SUFFICES ASSUME IInv, InStep, ~Pipelined, Framed(stream)
               PROVE  /\ Len(answers) <= sent
                      /\ \A i \in DOMAIN answers :
                           AsAlone(stream, i, answers[i])
    BY DEF AnswersInOrder
  <2>1. StandsAt(Len(answers))
    BY DEF InStep
  <2>2. DOMAIN answers = 1 .. Len(answers)
    <3>1. answers \in Seq(Answer)
      BY DEF IInv, TypeOK
    <3> QED
      BY <3>1, LenProperties
  <2> QED
    BY <2>1, <2>2 DEF StandsAt
<1> QED
  BY <1>1, Invariance, InitInStep, NextInStep, PTL DEF Spec
=============================================================================
