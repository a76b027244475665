------------------------- MODULE RequestParserProofs -------------------------
(***************************************************************************)
(* What the operators of RequestParser do to a parser.  The first lemmas   *)
(* say it of the helpers of consume(), so that those which follow need not *)
(* look inside records; then come what a call of parse() leaves (a parser, *)
(* with no more text in it than the call has read) and what a cut between  *)
(* two calls changes: ConsumeAligned takes the parser that was fed in      *)
(* several calls and the one fed in a single call through the same         *)
(* character, and ParseOfPart says that a header without folded lines gets *)
(* the same verdict, at the same character, however it is cut.             *)
(***************************************************************************)
EXTENDS RequestParser, DataInduction, SequenceTheorems

(* The parts of a parser have their types. *)
LEMMA ParserParts ==
  ASSUME NEW p \in Parser
  PROVE  /\ p.state_ \in State /\ p.result \in Result
         /\ p.req \in ParserRequest
         /\ p.req.method \in Nat /\ p.req.uri \in Nat
         /\ p.req.version \in {"unset", "set"}
         /\ p.req.headers \in Seq(HeaderField)
  BY DEF Parser, ParserRequest

(* Goto changes the state only. *)
LEMMA GotoIs ==
  ASSUME NEW p \in Parser, NEW s \in State
  PROVE  /\ Goto(p, s) \in Parser
         /\ Goto(p, s).state_ = s
         /\ Goto(p, s).req = p.req
         /\ Goto(p, s).result = p.result
  BY DEF Goto, Parser

(* Returns changes the result only. *)
LEMMA ReturnsIs ==
  ASSUME NEW p \in Parser, NEW r \in Result
  PROVE  /\ Returns(p, r) \in Parser
         /\ Returns(p, r).state_ = p.state_
         /\ Returns(p, r).req = p.req
         /\ Returns(p, r).result = r
  BY DEF Returns, Parser

(* AddMethod adds a character to the method. *)
LEMMA AddMethodIs ==
  ASSUME NEW p \in Parser
  PROVE  /\ AddMethod(p) \in Parser
         /\ AddMethod(p).state_ = p.state_
         /\ AddMethod(p).result = p.result
         /\ AddMethod(p).req.method = p.req.method + 1
         /\ AddMethod(p).req.uri = p.req.uri
         /\ AddMethod(p).req.version = p.req.version
         /\ AddMethod(p).req.headers = p.req.headers
  BY DEF AddMethod, Parser, ParserRequest

(* AddUri adds a character to the target. *)
LEMMA AddUriIs ==
  ASSUME NEW p \in Parser
  PROVE  /\ AddUri(p) \in Parser
         /\ AddUri(p).state_ = p.state_
         /\ AddUri(p).result = p.result
         /\ AddUri(p).req.method = p.req.method
         /\ AddUri(p).req.uri = p.req.uri + 1
         /\ AddUri(p).req.version = p.req.version
         /\ AddUri(p).req.headers = p.req.headers
  BY DEF AddUri, Parser, ParserRequest

(* ZeroVersion gives the version numbers a value. *)
LEMMA ZeroVersionIs ==
  ASSUME NEW p \in Parser
  PROVE  /\ ZeroVersion(p) \in Parser
         /\ ZeroVersion(p).state_ = p.state_
         /\ ZeroVersion(p).result = p.result
         /\ ZeroVersion(p).req.method = p.req.method
         /\ ZeroVersion(p).req.uri = p.req.uri
         /\ ZeroVersion(p).req.version = "set"
         /\ ZeroVersion(p).req.headers = p.req.headers
  BY DEF ZeroVersion, Parser, ParserRequest

(* SetHeaders changes the headers only. *)
LEMMA SetHeadersIs ==
  ASSUME NEW p \in Parser, NEW hs \in Seq(HeaderField)
  PROVE  /\ SetHeaders(p, hs) \in Parser
         /\ SetHeaders(p, hs).state_ = p.state_
         /\ SetHeaders(p, hs).result = p.result
         /\ SetHeaders(p, hs).req.method = p.req.method
         /\ SetHeaders(p, hs).req.uri = p.req.uri
         /\ SetHeaders(p, hs).req.version = p.req.version
         /\ SetHeaders(p, hs).req.headers = hs
  BY DEF SetHeaders, Parser, ParserRequest

(* The three ways in which consume() changes the headers make headers of   *)
(* headers, and leave none empty.                                          *)
LEMMA HeadersStayHeaders ==
  ASSUME NEW hs \in Seq(HeaderField)
  PROVE  /\ Append(hs, [name |-> 1, value |-> 0]) \in Seq(HeaderField)
         /\ Append(hs, [name |-> 1, value |-> 0]) # <<>>
         /\ hs # <<>> => /\ LongerName(hs) \in Seq(HeaderField)
                         /\ LongerName(hs) # <<>>
                         /\ LongerValue(hs) \in Seq(HeaderField)
                         /\ LongerValue(hs) # <<>>
<1>1. [name |-> 1, value |-> 0] \in HeaderField
  BY DEF HeaderField
<1>2. /\ Append(hs, [name |-> 1, value |-> 0]) \in Seq(HeaderField)
      /\ Append(hs, [name |-> 1, value |-> 0]) # <<>>
  BY <1>1, AppendProperties
<1>3. ASSUME hs # <<>>
      PROVE  /\ LongerName(hs) \in Seq(HeaderField) /\ LongerName(hs) # <<>>
             /\ LongerValue(hs) \in Seq(HeaderField) /\ LongerValue(hs) # <<>>
  <2> DEFINE n == Len(hs)
  <2>1. n \in 1 .. Len(hs) /\ hs[n] \in HeaderField
    <3>1. Len(hs) \in Nat /\ Len(hs) # 0
      BY <1>3, LenProperties, EmptySeq
    <3> QED
      BY <3>1, ElementOfSeq
  <2>2. /\ [hs[n] EXCEPT !.name = @ + 1] \in HeaderField
        /\ [hs[n] EXCEPT !.value = @ + 1] \in HeaderField
    <3>1. ASSUME NEW h \in HeaderField
          PROVE  /\ [h EXCEPT !.name = @ + 1] \in HeaderField
                 /\ [h EXCEPT !.value = @ + 1] \in HeaderField
      BY DEF HeaderField
    <3> QED
      BY <2>1, <3>1
  <2>3. /\ LongerName(hs) = [hs EXCEPT ![n] = [hs[n] EXCEPT !.name = @ + 1]]
        /\ LongerValue(hs) = [hs EXCEPT ![n] = [hs[n] EXCEPT !.value = @ + 1]]
    BY <2>1 DEF LongerName, LongerValue
  <2>4. ASSUME NEW h \in HeaderField
        PROVE  [hs EXCEPT ![n] = h] \in Seq(HeaderField) /\ [hs EXCEPT ![n] = h] # <<>>
    <3>1. /\ [hs EXCEPT ![n] = h] \in Seq(HeaderField)
          /\ Len([hs EXCEPT ![n] = h]) = n
      BY <2>1, ExceptSeq
    <3> QED
      BY <2>1, <3>1, EmptySeq
  <2> QED
    BY <2>2, <2>3, <2>4
<1> QED
  BY <1>2, <1>3
-----------------------------------------------------------------------------
(* A request whose target and header values have at most n characters.     *)
Within(req, n) ==
  /\ req.uri <= n
  /\ \A i \in 1 .. Len(req.headers) : req.headers[i].value <= n

(* A longer last header line. *)
LEMMA LongerWithin ==
  ASSUME NEW hs \in Seq(HeaderField), NEW n \in Nat,
         \A i \in 1 .. Len(hs) : hs[i].value <= n
  PROVE  LET h  == [name |-> 1, value |-> 0]
             As(gs) == \A i \in 1 .. Len(gs) : gs[i].value <= n + 1
         IN  /\ As(hs) /\ As(Append(hs, h))
             /\ hs # <<>> => As(LongerName(hs)) /\ As(LongerValue(hs))
<1> DEFINE h  == [name |-> 1, value |-> 0]
           l  == Len(hs)
           As(gs) == \A i \in 1 .. Len(gs) : gs[i].value <= n + 1
<1>1. ASSUME NEW i \in 1 .. l
      PROVE  hs[i] \in HeaderField /\ hs[i].value \in Nat
  <2>1. hs[i] \in HeaderField
    BY ElementOfSeq
  <2> QED
    BY <2>1 DEF HeaderField
<1>2. As(hs) /\ l \in Nat
  BY <1>1, LenProperties
<1>3. As(Append(hs, h))
  <2>1. h \in HeaderField /\ h.value = 0
    BY DEF HeaderField
  <2> HIDE DEF h
  <2>2. /\ Len(Append(hs, h)) = l + 1 /\ Append(hs, h)[l + 1] = h
        /\ \A i \in 1 .. l : Append(hs, h)[i] = hs[i]
    BY <2>1, AppendProperties
  <2>3. PICK gs : gs = Append(hs, h)
    OBVIOUS
  <2>4. \A i \in 1 .. l + 1 : gs[i].value <= n + 1
    BY <1>2, <2>1, <2>2, <2>3
  <2> QED
    BY <2>2, <2>3, <2>4
<1>4. ASSUME hs # <<>> PROVE As(LongerName(hs)) /\ As(LongerValue(hs))
  <2>1. l \in 1 .. l /\ hs[l] \in HeaderField /\ hs[l].value <= n
    BY <1>1, <1>2, <1>4, EmptySeq
  <2>2. PICK a, b : /\ a = [hs[l] EXCEPT !.name = @ + 1]
                    /\ b = [hs[l] EXCEPT !.value = @ + 1]
    OBVIOUS
  <2>3. /\ a \in HeaderField /\ a.value = hs[l].value
        /\ b \in HeaderField /\ b.value = hs[l].value + 1
        /\ hs[l].value \in Nat
    BY <2>1, <2>2 DEF HeaderField
  <2>4. /\ LongerName(hs) = [hs EXCEPT ![l] = a]
        /\ LongerValue(hs) = [hs EXCEPT ![l] = b]
    BY <2>1, <2>2 DEF LongerName, LongerValue
  <2>5. ASSUME NEW c \in HeaderField, c.value <= n + 1
        PROVE  As([hs EXCEPT ![l] = c])
    <3>1. PICK gs : gs = [hs EXCEPT ![l] = c]
      OBVIOUS
    <3>2. /\ Len(gs) = l
          /\ \A i \in 1 .. l : gs[i] = IF i = l THEN c ELSE hs[i]
      BY <2>1, <3>1, ExceptSeq
    <3>3. \A i \in 1 .. l : gs[i].value <= n + 1
      BY <1>2, <2>5, <3>2
    <3> QED
      BY <3>1, <3>2, <3>3
  <2>6. a.value <= n + 1 /\ b.value <= n + 1
    BY <2>1, <2>3
  <2> QED
    BY <2>3, <2>4, <2>5, <2>6
<1> QED
  BY <1>2, <1>3, <1>4

(* What a character may make of a parser with at most n characters. *)
Bounded(q, n) == q \in Parser /\ Within(q.req, n)

(* The bound may be larger. *)
LEMMA BoundedByMore ==
  ASSUME NEW p, NEW m \in Nat, NEW n \in Nat, m <= n, Bounded(p, m)
  PROVE  Bounded(p, n)
<1> DEFINE hs == p.req.headers
<1>1. /\ p \in Parser /\ p.req.uri \in Nat /\ hs \in Seq(HeaderField)
      /\ p.req.uri <= m /\ \A i \in 1 .. Len(hs) : hs[i].value <= m
  BY ParserParts DEF Bounded, Within
<1>2. ASSUME NEW i \in 1 .. Len(hs) PROVE hs[i].value <= n
  <2>1. hs[i] \in HeaderField
    BY <1>1, ElementOfSeq
  <2>2. hs[i].value \in Nat /\ hs[i].value <= m
    BY <1>1, <2>1 DEF HeaderField
  <2> QED
    BY <2>2
<1>3. p.req.uri <= n
  BY <1>1
<1> QED
  BY <1>1, <1>2, <1>3 DEF Bounded, Within

(* Every way in which consume() changes a parser adds at most a character. *)
LEMMA ChangesAreBounded ==
  ASSUME NEW p, NEW n \in Nat, Bounded(p, n)
  PROVE  /\ Bounded(p, n + 1)
         /\ \A s \in State : Bounded(Goto(p, s), n)
         /\ \A r \in Result : Bounded(Returns(p, r), n + 1)
         /\ Bounded(AddMethod(p), n + 1) /\ Bounded(AddUri(p), n + 1)
         /\ Bounded(ZeroVersion(p), n + 1) /\ Bounded(NewHeader(p), n + 1)
         /\ Bounded(AddName(p), n + 1) /\ Bounded(AddValue(p), n + 1)
<1> DEFINE h  == [name |-> 1, value |-> 0]
           hs == p.req.headers
           As(gs) == \A i \in 1 .. Len(gs) : gs[i].value <= n + 1
<1>1. /\ p \in Parser /\ Within(p.req, n) /\ p.req.uri \in Nat
      /\ p.req.uri <= n /\ hs \in Seq(HeaderField)
      /\ \A i \in 1 .. Len(hs) : hs[i].value <= n
  BY ParserParts DEF Bounded, Within
<1>2. /\ As(hs) /\ As(Append(hs, h))
      /\ hs # <<>> => As(LongerName(hs)) /\ As(LongerValue(hs))
  BY <1>1, LongerWithin
<1>3. /\ Append(hs, h) \in Seq(HeaderField)
      /\ hs # <<>> => /\ LongerName(hs) \in Seq(HeaderField)
                      /\ LongerValue(hs) \in Seq(HeaderField)
  BY <1>1, HeadersStayHeaders
<1>4. Bounded(p, n + 1)
  BY <1>1, <1>2 DEF Bounded, Within
<1>5. \A s \in State : Bounded(Goto(p, s), n)
  BY <1>1, GotoIs DEF Bounded
<1>6. \A r \in Result : Bounded(Returns(p, r), n + 1)
  BY <1>1, <1>4, ReturnsIs DEF Bounded
<1>7. Bounded(AddMethod(p), n + 1)
  BY <1>1, <1>2, AddMethodIs DEF Bounded, Within
<1>8. Bounded(AddUri(p), n + 1)
  BY <1>1, <1>2, AddUriIs DEF Bounded, Within
<1>9. Bounded(ZeroVersion(p), n + 1)
  BY <1>1, <1>2, ZeroVersionIs DEF Bounded, Within
<1>10. ASSUME NEW gs \in Seq(HeaderField), As(gs)
       PROVE  Bounded(SetHeaders(p, gs), n + 1)
  BY <1>1, <1>10, SetHeadersIs DEF Bounded, Within
<1>11. Bounded(NewHeader(p), n + 1)
  BY <1>2, <1>3, <1>10 DEF NewHeader
<1>12. Bounded(AddName(p), n + 1) /\ Bounded(AddValue(p), n + 1)
  <2>1. CASE hs = <<>>
    <3>1. /\ "crash" \in Result /\ AddName(p) = Returns(p, "crash")
          /\ AddValue(p) = Returns(p, "crash")
      BY <2>1 DEF AddName, AddValue, Result
    <3> QED
      BY <1>6, <3>1
  <2>2. CASE hs # <<>>
    BY <1>2, <1>3, <1>10, <2>2 DEF AddName, AddValue
  <2> QED
    BY <2>1, <2>2
<1> QED
  BY <1>4, <1>5, <1>6, <1>7, <1>8, <1>9, <1>11, <1>12

(* One turn of the loop of parse(), whatever the character is. *)
LEMMA ParseIsBounded ==
  ASSUME NEW p, NEW n \in Nat, Bounded(p, n), NEW c
  PROVE  Bounded(parse(p, c), n + 1)
<1> DEFINE q == consume(p, c)
           Goes(b) == \E s \in State : q = Goto(b, s)
<1>1. \/ Goes(p) \/ Goes(ZeroVersion(p)) \/ Goes(AddMethod(p))
      \/ Goes(NewHeader(p))
      \/ q \in {p, AddMethod(p), AddUri(p), AddName(p), AddValue(p)}
      \/ \E s \in State : q = AddValue(Goto(p, s))
      \/ \E r \in Result : q = Returns(p, r)
  <2>1. /\ \A s \in LiteralState : LiteralNext(s) \in State
        /\ {"method", "uri", "http_version_h", "http_version_major",
            "http_version_minor_start", "http_version_minor",
            "expecting_newline_1", "expecting_newline_2",
            "expecting_newline_3", "header_lws", "header_name",
            "header_value", "space_before_header_value"} \subseteq State
        /\ {"true", "false"} \subseteq Result
        /\ "http_version_slash" \in LiteralState
    BY DEF LiteralState, LiteralNext, State, Result
  <2> DEFINE l == LiteralNext(p.state_)
  <2>2. \/ q = Goto(ZeroVersion(p), l) /\ p.state_ = "http_version_slash"
        \/ q = Goto(p, l) /\ p.state_ \in LiteralState
        \/ q = Goto(p, "uri") \/ q = Goto(p, "http_version_h")
        \/ q = Goto(p, "http_version_major")
        \/ q = Goto(p, "http_version_minor_start")
        \/ q = Goto(p, "http_version_minor")
        \/ q = Goto(p, "expecting_newline_1")
        \/ q = Goto(p, "expecting_newline_2")
        \/ q = Goto(p, "expecting_newline_3")
        \/ q = Goto(p, "header_lws") \/ q = Goto(p, "space_before_header_value")
        \/ q = Goto(AddMethod(p), "method")
        \/ q = Goto(NewHeader(p), "header_name")
        \/ q = AddValue(Goto(p, "header_value"))
        \/ q = p \/ q = AddMethod(p) \/ q = AddUri(p)
        \/ q = AddName(p) \/ q = AddValue(p)
        \/ q = Returns(p, "true") \/ q = Returns(p, "false")
    <3>1. CASE p.state_ = "http_version_slash"
      BY <3>1 DEF consume, LiteralState
    <3>2. CASE p.state_ \in LiteralState \ {"http_version_slash"}
      <4>1. q = Goto(p, l) \/ q = Returns(p, "false")
        BY <3>2 DEF consume, LiteralState
      <4> QED
        BY <3>2, <4>1
    <3>3. CASE p.state_ = "method_start"
      BY <3>3 DEF consume, LiteralState
    <3>4. CASE p.state_ = "method"
      BY <3>4 DEF consume, LiteralState
    <3>5. CASE p.state_ = "uri"
      BY <3>5 DEF consume, LiteralState
    <3>6. CASE p.state_ = "http_version_major_start"
      BY <3>6 DEF consume, LiteralState
    <3>7. CASE p.state_ = "http_version_major"
      BY <3>7 DEF consume, LiteralState
    <3>8. CASE p.state_ = "http_version_minor_start"
      BY <3>8 DEF consume, LiteralState
    <3>9. CASE p.state_ = "http_version_minor"
      BY <3>9 DEF consume, LiteralState
    <3>10. CASE p.state_ = "header_line_start"
      BY <3>10 DEF consume, LiteralState
    <3>11. CASE p.state_ = "header_lws"
      BY <3>11 DEF consume, LiteralState
    <3>12. CASE p.state_ = "header_name"
      BY <3>12 DEF consume, LiteralState
    <3>13. CASE p.state_ = "header_value"
      BY <3>13 DEF consume, LiteralState
    <3>14. CASE p.state_ = "expecting_newline_3"
      BY <3>14 DEF consume, LiteralState
    <3>15. p.state_ \in State
      BY DEF Bounded, Parser
    <3> QED
      BY <3>1, <3>2, <3>3, <3>4, <3>5, <3>6, <3>7, <3>8,
         <3>9, <3>10, <3>11, <3>12, <3>13, <3>14, <3>15 DEF State
  <2> HIDE DEF q, l
  <2>3. p.state_ \in LiteralState => l \in State
    BY <2>1 DEF l
  <2> QED
    BY <2>1, <2>2, <2>3
<1> HIDE DEF q
<1>2. Bounded(q, n + 1)
  <2>1. ASSUME NEW b, Bounded(b, n + 1) \/ Bounded(b, n), Goes(b)
        PROVE  Bounded(q, n + 1)
    <3>1. PICK s \in State : q = Goto(b, s)
      BY <2>1
    <3>2. Bounded(b, n + 1) /\ n + 1 \in Nat
      BY <2>1, ChangesAreBounded
    <3> QED
      BY <3>1, <3>2, ChangesAreBounded
  <2>2. ASSUME NEW s \in State PROVE Bounded(AddValue(Goto(p, s)), n + 1)
    BY ChangesAreBounded
  <2> QED
    BY <1>1, <2>1, <2>2, ChangesAreBounded
<1>3. \/ parse(p, c) = q
      \/ parse(p, c) = Returns(q, "throw")
  BY DEF parse, q
<1>4. Bounded(Returns(q, "throw"), n + 1)
  <2>1. "throw" \in Result /\ q \in Parser
    BY <1>2 DEF Result, Bounded
  <2> QED
    BY <1>2, <2>1, ReturnsIs DEF Bounded
<1> QED
  BY <1>2, <1>3, <1>4

(* One turn of the loop of parse(): character i, unless parse() is done. *)
Turn(b, c, i) ==
  IF b.parser.result # "indeterminate" THEN b
  ELSE [parser |-> parse(b.parser, c), read |-> i]

FirstTurn(s) == [parser |-> [NewParser EXCEPT !.state_ = s], read |-> 0]

(* The loop of parse() is its turns in a row. *)
LEMMA TurnsAre ==
  ASSUME NEW s, NEW S, NEW chunk \in Seq(S), NEW a, a = Turns(s, chunk)
  PROVE  /\ a[0] = FirstTurn(s)
         /\ \A i \in 0 .. Len(chunk) - 1 : a[i + 1] = Turn(a[i], chunk[i + 1], i + 1)
<1> DEFINE First == FirstTurn(s)
           Next1(b, i) == Turn(b, chunk[i], i)
           Loop(x, n) == x = [i \in 0 .. n |->
                                IF i = 0 THEN First ELSE Next1(x[i - 1], i)]
           T == {n \in Nat : \E x : Loop(x, n)}
           len == Len(chunk)
<1>1. len \in Nat
  BY LenProperties
<1>2. a = (CHOOSE x : Loop(x, len))
  BY DEF Turns, FirstTurn, Turn
<1> HIDE DEF First, Next1
<1>3. 0 \in T
  <2>1. Loop([i \in 0 .. 0 |-> First], 0)
    OBVIOUS
  <2> QED
    BY <2>1
<1>4. ASSUME NEW n \in Nat, n \in T PROVE n + 1 \in T
  <2>1. PICK x : Loop(x, n)
    BY <1>4
  <2> DEFINE b == [i \in 0 .. n + 1 |-> IF i = n + 1 THEN Next1(x[n], n + 1)
                                       ELSE x[i]]
  <2>2. \A i \in 0 .. n : b[i] = x[i]
    OBVIOUS
  <2>3. ASSUME NEW i \in 0 .. n + 1
        PROVE  b[i] = IF i = 0 THEN First ELSE Next1(b[i - 1], i)
    <3>1. CASE i = n + 1
      BY <2>2, <3>1
    <3>2. CASE i # n + 1
      <4>1. i \in 0 .. n /\ (i # 0 => i - 1 \in 0 .. n)
        BY <3>2
      <4>2. x[i] = IF i = 0 THEN First ELSE Next1(x[i - 1], i)
        BY <2>1, <4>1
      <4> QED
        BY <2>2, <4>1, <4>2
    <3> QED
      BY <3>1, <3>2
  <2>4. Loop(b, n + 1)
    BY <2>3
  <2>5. \E c : Loop(c, n + 1)
    <3> HIDE DEF b, Loop
    <3> QED
      BY <2>4
  <2> QED
    BY <2>5
<1>5. Nat \subseteq T
  <2> HIDE DEF T
  <2> QED
    BY <1>3, <1>4, NumberInduction
<1>6. Loop(a, len)
  <2>1. \E x : Loop(x, len)
    BY <1>1, <1>5
  <2> HIDE DEF Loop
  <2> QED
    BY <1>2, <2>1
<1>7. /\ a[0] = First
      /\ \A i \in 1 .. len : a[i] = Next1(a[i - 1], i)
  BY <1>1, <1>6
<1>8. \A i \in 0 .. len - 1 : i + 1 \in 1 .. len /\ i + 1 - 1 = i
  BY <1>1
<1> HIDE DEF Loop
<1> QED
  BY <1>7, <1>8 DEF First, Next1

(* After every turn there is a parser that has read no more than there     *)
(* was, and has collected no more than it has read.                        *)
LEMMA TurnsAreBounded ==
  ASSUME NEW s \in State, NEW S, NEW chunk \in Seq(S),
         NEW a, a = Turns(s, chunk)
  PROVE  \A i \in 0 .. Len(chunk) :
           /\ a[i].read \in 0 .. i /\ Bounded(a[i].parser, a[i].read)
           /\ a[i].parser.result = "indeterminate" => a[i].read = i
<1> DEFINE len == Len(chunk)
           Fine(b, n) == /\ b.read \in 0 .. n /\ Bounded(b.parser, b.read)
                         /\ b.parser.result = "indeterminate" => b.read = n
           G == {n \in Nat : n <= len => Fine(a[n], n)}
<1>1. len \in Nat
  BY LenProperties
<1>2. /\ a[0] = FirstTurn(s)
      /\ \A i \in 0 .. len - 1 : a[i + 1] = Turn(a[i], chunk[i + 1], i + 1)
  BY TurnsAre
<1>3. 0 \in G
  <2>1. [NewParser EXCEPT !.state_ = s] \in Parser
    <3>1. NoRequest \in ParserRequest
      BY EmptySeq DEF NoRequest, ParserRequest
    <3> QED
      BY <3>1 DEF NewParser, Parser, Result
  <2>2. Within([NewParser EXCEPT !.state_ = s].req, 0)
    BY DEF NewParser, NoRequest, Within
  <2>3. Fine(FirstTurn(s), 0)
    <3>1. /\ FirstTurn(s).parser = [NewParser EXCEPT !.state_ = s]
          /\ FirstTurn(s).read = 0
      BY DEF FirstTurn
    <3> QED
      BY <2>1, <2>2, <3>1 DEF Bounded
  <2> QED
    BY <1>2, <2>3
<1>4. ASSUME NEW n \in Nat, n \in G PROVE n + 1 \in G
  <2> SUFFICES ASSUME n + 1 <= len PROVE Fine(a[n + 1], n + 1)
    OBVIOUS
  <2>1. Fine(a[n], n) /\ n \in 0 .. len - 1
    BY <1>1, <1>4
  <2>2. PICK b : b = a[n]
    OBVIOUS
  <2>3. a[n + 1] = Turn(b, chunk[n + 1], n + 1)
    BY <1>2, <2>1, <2>2
  <2>4. CASE b.parser.result # "indeterminate"
    BY <2>1, <2>2, <2>3, <2>4 DEF Turn
  <2>5. CASE b.parser.result = "indeterminate"
    <3> DEFINE q == parse(b.parser, chunk[n + 1])
    <3>1. a[n + 1] = [parser |-> q, read |-> n + 1]
      BY <2>3, <2>5 DEF Turn
    <3>2. Bounded(b.parser, n)
      BY <2>1, <2>2, BoundedByMore
    <3>3. Bounded(q, n + 1)
      BY <3>2, ParseIsBounded
    <3> HIDE DEF q
    <3> QED
      BY <3>1, <3>3
  <2> QED
    BY <2>4, <2>5
<1>5. Nat \subseteq G
  <2> HIDE DEF G
  <2> QED
    BY <1>3, <1>4, NumberInduction
<1> QED
  BY <1>1, <1>5

(* A call of parse() over a chunk: what it leaves is a parser, it has read *)
(* no more than the chunk, and has collected no more than it has read.     *)
LEMMA ParseChunkIs ==
  ASSUME NEW s \in State, NEW S, NEW chunk \in Seq(S)
  PROVE  LET out == ParseChunk(s, chunk)
         IN  /\ out.read \in 0 .. Len(chunk)
             /\ Bounded(out.parser, out.read)
<1>1. PICK a : a = Turns(s, chunk)
  OBVIOUS
<1>2. ParseChunk(s, chunk) = a[Len(chunk)] /\ Len(chunk) \in 0 .. Len(chunk)
  BY <1>1, LenProperties DEF ParseChunk
<1> QED
  BY <1>1, <1>2, TurnsAreBounded

(* translate(): the target and the fields are those of the parsed header,  *)
(* and as long.                                                            *)
LEMMA TranslateIs ==
  ASSUME NEW parsed \in ParserRequest, NEW n \in Nat, Within(parsed, n)
  PROVE  LET t == translate(parsed)
         IN  /\ t.verb \in Nat
             /\ t.target = parsed.uri /\ t.target \in 0 .. n
             /\ \A name \in DOMAIN t.fields : t.fields[name] \in 0 .. n
<1> DEFINE hs == parsed.headers
           named(m) == {i \in DOMAIN hs : hs[i].name = m}
           last(m)  == CHOOSE i \in named(m) : \A j \in named(m) : j <= i
           t == translate(parsed)
           names == {hs[i].name : i \in DOMAIN hs}
<1>1. /\ parsed.uri \in Nat /\ hs \in Seq(HeaderField) /\ parsed.uri <= n
      /\ \A i \in 1 .. Len(hs) : hs[i].value <= n
      /\ parsed.method \in Nat
  BY DEF ParserRequest, Within
<1>2. DOMAIN hs = 1 .. Len(hs) /\ Len(hs) \in Nat
  BY <1>1, LenProperties
<1>3. /\ t.verb = parsed.method /\ t.target = parsed.uri
      /\ t.fields = [m \in names |-> hs[last(m)].value]
  BY DEF translate
<1>4. ASSUME NEW m \in names PROVE hs[last(m)].value \in 0 .. n
  <2> DEFINE S == named(m)
  <2>1. S \in SUBSET (0 .. Len(hs)) /\ S # {}
    BY <1>2
  <2>2. \E x \in S : \A y \in S : y <= x
    <3> HIDE DEF S
    <3> QED
      BY <1>2, <2>1, GreatestNumber
  <2>3. last(m) \in 1 .. Len(hs)
    BY <1>2, <2>2
  <2>4. hs[last(m)] \in HeaderField
    BY <1>1, <2>3, ElementOfSeq
  <2> HIDE DEF last
  <2>5. hs[last(m)].value \in Nat
    BY <2>4 DEF HeaderField
  <2> QED
    BY <1>1, <2>3, <2>5
<1> HIDE DEF last, t, hs, names
<1> QED
  BY <1>1, <1>3, <1>4 DEF t
-----------------------------------------------------------------------------
(* What holds of the two parsers after the same character: q in several    *)
(* calls, v in one.                                                        *)
Agree(q, v) ==
  /\ q \in Parser /\ v \in Parser
  /\ v.result # "crash"
  /\ q.result = "indeterminate" =>
       /\ v.result = "indeterminate" /\ v.state_ = q.state_
       /\ Aligned(q.state_, q.req, v.req)
  /\ q.result = "true" => v.result = "true"
  /\ v.result = "true" => v.req.version = "set" /\ v.req.method > 0
  /\ q.result = "true" /\ q.req.method > 0 =>
       /\ q.req.uri = v.req.uri
       /\ q.req.version = v.req.version
       /\ q.req.headers = v.req.headers
  /\ q.result # "throw" /\ v.result # "throw"
  /\ q.result = "false" => v.result = "false" \/ v.state_ = "header_lws"

(* Two parsers that go on, in the same state and aligned, agree. *)
LEMMA GoOnAgree ==
  ASSUME NEW q \in Parser, NEW v \in Parser, q.state_ = v.state_,
         q.result = "indeterminate", v.result = "indeterminate",
         Aligned(q.state_, q.req, v.req)
  PROVE  Agree(q, v)
  BY DEF Agree

(* A parser of several calls that has given up agrees with a whole one     *)
(* that gave up or goes on.                                                *)
LEMMA StopAgree ==
  ASSUME NEW q \in Parser, NEW v \in Parser,
         q.result \in {"false", "crash"}, v.result \in {"indeterminate", "false"},
         q.result = "false" => v.result = "false" \/ v.state_ = "header_lws"
  PROVE  Agree(q, v)
  BY DEF Agree

(* The same when both reject the character. *)
LEMMA FalseAgree ==
  ASSUME NEW p \in Parser, NEW w \in Parser
  PROVE  Agree(Returns(p, "false"), Returns(w, "false"))
<1>1. "false" \in Result
  BY DEF Result
<1>2. /\ Returns(p, "false") \in Parser /\ Returns(p, "false").result = "false"
      /\ Returns(w, "false") \in Parser /\ Returns(w, "false").result = "false"
  BY <1>1, ReturnsIs
<1> QED
  BY <1>2, StopAgree

(* The same when both go on to another state of the automaton. *)
LEMMA GotoAgree ==
  ASSUME NEW p \in Parser, NEW w \in Parser, NEW s \in State,
         p.result = "indeterminate", w.result = "indeterminate",
         Aligned(s, p.req, w.req)
  PROVE  Agree(Goto(p, s), Goto(w, s))
<1>1. /\ Goto(p, s) \in Parser /\ Goto(p, s).state_ = s
      /\ Goto(p, s).req = p.req /\ Goto(p, s).result = "indeterminate"
  BY GotoIs
<1>2. /\ Goto(w, s) \in Parser /\ Goto(w, s).state_ = s
      /\ Goto(w, s).req = w.req /\ Goto(w, s).result = "indeterminate"
  BY GotoIs
<1> QED
  BY <1>1, <1>2, GoOnAgree

(* What each change to the request does to the alignment. *)
LEMMA AlignedMethod ==
  ASSUME NEW p \in Parser, NEW w \in Parser, NEW s \in BeforeUri,
         Aligned(s, p.req, w.req)
  PROVE  Aligned("method", AddMethod(p).req, AddMethod(w).req)
  BY ParserParts, AddMethodIs
  DEF Aligned, InHeaderLine, BeforeUri, BeforeVersion

(* A character of the uri. *)
LEMMA AlignedUri ==
  ASSUME NEW p \in Parser, NEW w \in Parser, Aligned("uri", p.req, w.req)
  PROVE  Aligned("uri", AddUri(p).req, AddUri(w).req)
  BY ParserParts, AddUriIs DEF Aligned, InHeaderLine, BeforeUri, BeforeVersion

(* The '/' of HTTP/. *)
LEMMA AlignedVersion ==
  ASSUME NEW p \in Parser, NEW w \in Parser,
         Aligned("http_version_slash", p.req, w.req)
  PROVE  Aligned("http_version_major_start",
                 ZeroVersion(p).req, ZeroVersion(w).req)
  BY ParserParts, ZeroVersionIs
  DEF Aligned, InHeaderLine, BeforeUri, BeforeVersion

(* New contents of the headers, equal if the headers were equal. *)
LEMMA AlignedHeaders ==
  ASSUME NEW p \in Parser, NEW w \in Parser, NEW s \in State, NEW r \in State,
         NEW hs \in Seq(HeaderField), NEW gs \in Seq(HeaderField),
         Aligned(s, p.req, w.req), s \notin BeforeVersion, r \notin BeforeVersion,
         gs # <<>>, p.req.headers = w.req.headers => hs = gs
  PROVE  Aligned(r, SetHeaders(p, hs).req, SetHeaders(w, gs).req)
<1>1. /\ SetHeaders(p, hs).req.method = p.req.method
      /\ SetHeaders(p, hs).req.uri = p.req.uri
      /\ SetHeaders(p, hs).req.version = p.req.version
      /\ SetHeaders(p, hs).req.headers = hs
  BY SetHeadersIs
<1>2. /\ SetHeaders(w, gs).req.method = w.req.method
      /\ SetHeaders(w, gs).req.uri = w.req.uri
      /\ SetHeaders(w, gs).req.version = w.req.version
      /\ SetHeaders(w, gs).req.headers = gs
  BY SetHeadersIs
<1>3. r \notin BeforeUri /\ s # "method_start" /\ r # "method_start"
  BY DEF BeforeUri, BeforeVersion
<1> QED
  BY <1>1, <1>2, <1>3 DEF Aligned

(* Adding to the last header: the parser of several calls may have none,   *)
(* and then it crashes.                                                    *)
LEMMA AddValueAgree ==
  ASSUME NEW p \in Parser, NEW w \in Parser,
         p.state_ = "header_value", w.state_ = "header_value",
         p.result = "indeterminate", w.result = "indeterminate",
         Aligned("header_value", p.req, w.req)
  PROVE  Agree(AddValue(p), AddValue(w))
<1> DEFINE hs == LongerValue(p.req.headers)
           gs == LongerValue(w.req.headers)
<1>1. w.req.headers # <<>>
  BY DEF Aligned, InHeaderLine
<1>2. gs \in Seq(HeaderField) /\ gs # <<>> /\ AddValue(w) = SetHeaders(w, gs)
  BY <1>1, ParserParts, HeadersStayHeaders DEF AddValue
<1>3. /\ AddValue(w) \in Parser /\ AddValue(w).state_ = "header_value"
      /\ AddValue(w).result = "indeterminate"
  BY <1>2, SetHeadersIs
<1>4. CASE p.req.headers = <<>>
  <2>1. "crash" \in Result
    BY DEF Result
  <2>2. AddValue(p) = Returns(p, "crash")
    BY <1>4 DEF AddValue
  <2>3. AddValue(p) \in Parser /\ AddValue(p).result = "crash"
    BY <2>1, <2>2, ReturnsIs
  <2> QED
    BY <1>3, <2>3, StopAgree
<1>5. CASE p.req.headers # <<>>
  <2>1. hs \in Seq(HeaderField) /\ AddValue(p) = SetHeaders(p, hs)
    BY <1>5, ParserParts, HeadersStayHeaders DEF AddValue
  <2>2. /\ AddValue(p) \in Parser /\ AddValue(p).state_ = "header_value"
        /\ AddValue(p).result = "indeterminate"
    BY <2>1, SetHeadersIs
  <2>3. "header_value" \in State /\ "header_value" \notin BeforeVersion
    BY DEF State, BeforeVersion, BeforeUri
  <2>4. p.req.headers = w.req.headers => hs = gs
    OBVIOUS
  <2> HIDE DEF hs, gs
  <2>5. Aligned("header_value", AddValue(p).req, AddValue(w).req)
    BY <1>2, <2>1, <2>3, <2>4, AlignedHeaders
  <2> QED
    BY <1>3, <2>2, <2>5, GoOnAgree
<1> QED
  BY <1>4, <1>5

(* The same for a character of a header name. *)
LEMMA AddNameAgree ==
  ASSUME NEW p \in Parser, NEW w \in Parser,
         p.state_ = "header_name", w.state_ = "header_name",
         p.result = "indeterminate", w.result = "indeterminate",
         Aligned("header_name", p.req, w.req)
  PROVE  Agree(AddName(p), AddName(w))
<1> DEFINE hs == LongerName(p.req.headers)
           gs == LongerName(w.req.headers)
<1>1. w.req.headers # <<>>
  BY DEF Aligned, InHeaderLine
<1>2. gs \in Seq(HeaderField) /\ gs # <<>> /\ AddName(w) = SetHeaders(w, gs)
  BY <1>1, ParserParts, HeadersStayHeaders DEF AddName
<1>3. /\ AddName(w) \in Parser /\ AddName(w).state_ = "header_name"
      /\ AddName(w).result = "indeterminate"
  BY <1>2, SetHeadersIs
<1>4. CASE p.req.headers = <<>>
  <2>1. "crash" \in Result
    BY DEF Result
  <2>2. AddName(p) = Returns(p, "crash")
    BY <1>4 DEF AddName
  <2>3. AddName(p) \in Parser /\ AddName(p).result = "crash"
    BY <2>1, <2>2, ReturnsIs
  <2> QED
    BY <1>3, <2>3, StopAgree
<1>5. CASE p.req.headers # <<>>
  <2>1. hs \in Seq(HeaderField) /\ AddName(p) = SetHeaders(p, hs)
    BY <1>5, ParserParts, HeadersStayHeaders DEF AddName
  <2>2. /\ AddName(p) \in Parser /\ AddName(p).state_ = "header_name"
        /\ AddName(p).result = "indeterminate"
    BY <2>1, SetHeadersIs
  <2>3. "header_name" \in State /\ "header_name" \notin BeforeVersion
    BY DEF State, BeforeVersion, BeforeUri
  <2>4. p.req.headers = w.req.headers => hs = gs
    OBVIOUS
  <2> HIDE DEF hs, gs
  <2>5. Aligned("header_name", AddName(p).req, AddName(w).req)
    BY <1>2, <2>1, <2>3, <2>4, AlignedHeaders
  <2> QED
    BY <1>3, <2>2, <2>5, GoOnAgree
<1> QED
  BY <1>4, <1>5

(* Reading one character keeps the two parsers in step: one case for every *)
(* state of the automaton.                                                 *)
LEMMA ConsumeAligned ==
  ASSUME NEW p \in Parser, NEW w \in Parser, NEW c \in Char,
         p.state_ = w.state_,
         p.result = "indeterminate", w.result = "indeterminate",
         Aligned(p.state_, p.req, w.req)
  PROVE  Agree(consume(p, c), consume(w, c))
<1> DEFINE q == consume(p, c)
           v == consume(w, c)
<1>1. p.state_ \in State
  BY ParserParts
<1>2. CASE p.state_ = "method_start"
  <2>1. \/ q = Goto(AddMethod(p), "method") /\ v = Goto(AddMethod(w), "method")
        \/ q = Returns(p, "false") /\ v = Returns(w, "false")
    BY <1>2 DEF consume, LiteralState
  <2>2. Agree(Goto(AddMethod(p), "method"), Goto(AddMethod(w), "method"))
    <3>1. "method" \in State /\ p.state_ \in BeforeUri
      BY <1>2 DEF State, BeforeUri
    <3> QED
      BY <3>1, AddMethodIs, AlignedMethod, GotoAgree
  <2> QED
    BY <2>1, <2>2, FalseAgree
<1>3. CASE p.state_ = "method"
  <2>1. \/ q = AddMethod(p) /\ v = AddMethod(w)
        \/ q = Goto(p, "uri") /\ v = Goto(w, "uri")
        \/ q = Returns(p, "false") /\ v = Returns(w, "false")
    BY <1>3 DEF consume, LiteralState
  <2>2. Agree(AddMethod(p), AddMethod(w))
    <3>1. p.state_ \in BeforeUri
      BY <1>3 DEF BeforeUri
    <3>2. Aligned("method", AddMethod(p).req, AddMethod(w).req)
      BY <3>1, AlignedMethod
    <3>3. /\ AddMethod(p) \in Parser /\ AddMethod(w) \in Parser
          /\ AddMethod(p).state_ = "method" /\ AddMethod(w).state_ = "method"
          /\ AddMethod(p).result = "indeterminate"
          /\ AddMethod(w).result = "indeterminate"
      BY <1>3, AddMethodIs
    <3> QED
      BY <3>2, <3>3, GoOnAgree
  <2>3. Agree(Goto(p, "uri"), Goto(w, "uri"))
    <3>1. "uri" \in State
      BY DEF State
    <3>2. Aligned("uri", p.req, w.req)
      BY <1>3 DEF Aligned, InHeaderLine, BeforeUri, BeforeVersion
    <3> QED
      BY <3>1, <3>2, GotoAgree
  <2> QED
    BY <2>1, <2>2, <2>3, FalseAgree
<1>4. CASE p.state_ = "uri"
  <2>1. \/ q = AddUri(p) /\ v = AddUri(w)
        \/ q = Goto(p, "http_version_h") /\ v = Goto(w, "http_version_h")
        \/ q = Returns(p, "false") /\ v = Returns(w, "false")
    BY <1>4 DEF consume, LiteralState
  <2>2. Agree(AddUri(p), AddUri(w))
    <3>1. Aligned("uri", AddUri(p).req, AddUri(w).req)
      BY <1>4, AlignedUri
    <3>2. /\ AddUri(p) \in Parser /\ AddUri(w) \in Parser
          /\ AddUri(p).state_ = "uri" /\ AddUri(w).state_ = "uri"
          /\ AddUri(p).result = "indeterminate"
          /\ AddUri(w).result = "indeterminate"
      BY <1>4, AddUriIs
    <3> QED
      BY <3>1, <3>2, GoOnAgree
  <2>3. Agree(Goto(p, "http_version_h"), Goto(w, "http_version_h"))
    <3>1. "http_version_h" \in State
      BY DEF State, LiteralState
    <3>2. Aligned("http_version_h", p.req, w.req)
      BY <1>4 DEF Aligned, InHeaderLine, BeforeUri, BeforeVersion
    <3> QED
      BY <3>1, <3>2, GotoAgree
  <2> QED
    BY <2>1, <2>2, <2>3, FalseAgree
<1>5. CASE p.state_ = "http_version_slash"
  <2>1. \/ /\ q = Goto(ZeroVersion(p), "http_version_major_start")
           /\ v = Goto(ZeroVersion(w), "http_version_major_start")
        \/ q = Returns(p, "false") /\ v = Returns(w, "false")
    BY <1>5 DEF consume, LiteralState, LiteralChar, LiteralNext
  <2>2. Agree(Goto(ZeroVersion(p), "http_version_major_start"),
              Goto(ZeroVersion(w), "http_version_major_start"))
    <3>1. "http_version_major_start" \in State
      BY DEF State
    <3> QED
      BY <1>5, <3>1, ZeroVersionIs, AlignedVersion, GotoAgree
  <2> QED
    BY <2>1, <2>2, FalseAgree
<1>6. CASE p.state_ \in LiteralState \ {"http_version_slash"}
  <2> DEFINE s == LiteralNext(p.state_)
  <2>1. \/ q = Goto(p, s) /\ v = Goto(w, s)
        \/ q = Returns(p, "false") /\ v = Returns(w, "false")
    BY <1>6 DEF consume, LiteralState
  <2>2. s \in State
    BY <1>6 DEF LiteralNext, LiteralState, State
  <2>3. Aligned(s, p.req, w.req)
    BY <1>6 DEF LiteralNext, LiteralState, Aligned, InHeaderLine, BeforeUri,
                BeforeVersion
  <2>4. Agree(Goto(p, s), Goto(w, s))
    BY <2>2, <2>3, GotoAgree
  <2> QED
    BY <2>1, <2>4, FalseAgree
<1>7. CASE p.state_ \in {"http_version_major_start", "http_version_major",
                       "http_version_minor_start", "http_version_minor"}
  <2> DEFINE S == {"http_version_major", "http_version_minor_start",
                   "http_version_minor", "expecting_newline_1"}
  <2>1. \/ \E s \in S : q = Goto(p, s) /\ v = Goto(w, s)
        \/ q = Returns(p, "false") /\ v = Returns(w, "false")
    <3>1. CASE p.state_ = "http_version_major_start"
      BY <3>1 DEF consume, LiteralState
    <3>2. CASE p.state_ = "http_version_major"
      BY <3>2 DEF consume, LiteralState
    <3>3. CASE p.state_ = "http_version_minor_start"
      BY <3>3 DEF consume, LiteralState
    <3>4. CASE p.state_ = "http_version_minor"
      BY <3>4 DEF consume, LiteralState
    <3> QED
      BY <1>7, <3>1, <3>2, <3>3, <3>4
  <2>2. ASSUME NEW s \in S PROVE Agree(Goto(p, s), Goto(w, s))
    <3>1. s \in State
      BY DEF State, LiteralState
    <3>2. Aligned(s, p.req, w.req)
      BY <1>7 DEF Aligned, InHeaderLine, BeforeUri, BeforeVersion
    <3> QED
      BY <3>1, <3>2, GotoAgree
  <2> QED
    BY <2>1, <2>2, FalseAgree
<1>8. CASE p.state_ = "header_line_start"
  <2>0. p.req.headers # <<>> => w.req.headers # <<>>
    BY DEF Aligned
  <2>1. \/ /\ q = Goto(p, "expecting_newline_3")
           /\ v = Goto(w, "expecting_newline_3")
        \/ /\ q = Goto(NewHeader(p), "header_name")
           /\ v = Goto(NewHeader(w), "header_name")
        \/ /\ p.req.headers # <<>>
           /\ q = Goto(p, "header_lws") /\ v = Goto(w, "header_lws")
        \/ q = Returns(p, "false") /\ v = Goto(w, "header_lws")
        \/ q = Returns(p, "false") /\ v = Returns(w, "false")
    BY <1>8, <2>0 DEF consume, LiteralState
  <2>2. /\ "expecting_newline_3" \in State /\ "header_name" \in State
        /\ "header_lws" \in State /\ "false" \in Result
    BY DEF State, Result
  <2>3. Agree(Goto(p, "expecting_newline_3"), Goto(w, "expecting_newline_3"))
    <3>1. Aligned("expecting_newline_3", p.req, w.req)
      BY <1>8 DEF Aligned, InHeaderLine, BeforeUri, BeforeVersion
    <3> QED
      BY <2>2, <3>1, GotoAgree
  <2>4. Agree(Goto(NewHeader(p), "header_name"), Goto(NewHeader(w), "header_name"))
    <3> DEFINE h  == [name |-> 1, value |-> 0]
               hs == Append(p.req.headers, h)
               gs == Append(w.req.headers, h)
    <3>1. hs \in Seq(HeaderField) /\ gs \in Seq(HeaderField) /\ gs # <<>>
      BY ParserParts, HeadersStayHeaders
    <3>2. p.state_ \notin BeforeVersion /\ "header_name" \notin BeforeVersion
      BY <1>8 DEF BeforeVersion, BeforeUri
    <3>3. NewHeader(p) = SetHeaders(p, hs) /\ NewHeader(w) = SetHeaders(w, gs)
      BY DEF NewHeader
    <3>4. p.req.headers = w.req.headers => hs = gs
      OBVIOUS
    <3> HIDE DEF hs, gs
    <3>5. Aligned("header_name", NewHeader(p).req, NewHeader(w).req)
      BY <1>1, <2>2, <3>1, <3>2, <3>3, <3>4, AlignedHeaders
    <3>6. /\ NewHeader(p) \in Parser /\ NewHeader(p).result = "indeterminate"
          /\ NewHeader(w) \in Parser /\ NewHeader(w).result = "indeterminate"
      BY <3>1, <3>3, SetHeadersIs
    <3> QED
      BY <2>2, <3>5, <3>6, GotoAgree
  <2>5. p.req.headers # <<>> => Agree(Goto(p, "header_lws"), Goto(w, "header_lws"))
    <3>1. p.req.headers # <<>> => Aligned("header_lws", p.req, w.req)
      BY <1>8, <2>0 DEF Aligned, InHeaderLine, BeforeUri, BeforeVersion
    <3> QED
      BY <2>2, <3>1, GotoAgree
  <2>6. Agree(Returns(p, "false"), Goto(w, "header_lws"))
    <3>1. Returns(p, "false") \in Parser /\ Returns(p, "false").result = "false"
      BY <2>2, ReturnsIs
    <3>2. /\ Goto(w, "header_lws") \in Parser
          /\ Goto(w, "header_lws").result = "indeterminate"
          /\ Goto(w, "header_lws").state_ = "header_lws"
      BY <2>2, GotoIs
    <3> QED
      BY <3>1, <3>2, StopAgree
  <2> QED
    BY <2>1, <2>3, <2>4, <2>5, <2>6, FalseAgree
<1>9. CASE p.state_ = "header_lws"
  <2> DEFINE a == Goto(p, "header_value")
             b == Goto(w, "header_value")
  <2>1. \/ /\ q = Goto(p, "expecting_newline_2")
           /\ v = Goto(w, "expecting_newline_2")
        \/ q = p /\ v = w
        \/ q = AddValue(a) /\ v = AddValue(b)
        \/ q = Returns(p, "false") /\ v = Returns(w, "false")
    BY <1>9 DEF consume, LiteralState
  <2>2. "expecting_newline_2" \in State /\ "header_value" \in State
    BY DEF State, LiteralState
  <2>3. /\ Aligned("expecting_newline_2", p.req, w.req)
        /\ Aligned("header_value", p.req, w.req)
    BY <1>9 DEF Aligned, InHeaderLine, BeforeUri, BeforeVersion
  <2>4. Agree(Goto(p, "expecting_newline_2"), Goto(w, "expecting_newline_2"))
    BY <2>2, <2>3, GotoAgree
  <2>5. Agree(p, w)
    BY <1>9, GoOnAgree
  <2>6. Agree(AddValue(a), AddValue(b))
    <3>1. /\ a \in Parser /\ a.state_ = "header_value"
          /\ a.result = "indeterminate" /\ a.req = p.req
      BY <2>2, GotoIs
    <3>2. /\ b \in Parser /\ b.state_ = "header_value"
          /\ b.result = "indeterminate" /\ b.req = w.req
      BY <2>2, GotoIs
    <3> HIDE DEF a, b
    <3> QED
      BY <2>3, <3>1, <3>2, AddValueAgree
  <2> QED
    BY <2>1, <2>4, <2>5, <2>6, FalseAgree
<1>10. CASE p.state_ = "header_name"
  <2>1. \/ /\ q = Goto(p, "space_before_header_value")
           /\ v = Goto(w, "space_before_header_value")
        \/ q = AddName(p) /\ v = AddName(w)
        \/ q = Returns(p, "false") /\ v = Returns(w, "false")
    BY <1>10 DEF consume, LiteralState
  <2>2. "space_before_header_value" \in State
    BY DEF State, LiteralState
  <2>3. Aligned("space_before_header_value", p.req, w.req)
    BY <1>10 DEF Aligned, InHeaderLine, BeforeUri, BeforeVersion
  <2>4. Agree(Goto(p, "space_before_header_value"),
              Goto(w, "space_before_header_value"))
    BY <2>2, <2>3, GotoAgree
  <2>5. Agree(AddName(p), AddName(w))
    BY <1>10, AddNameAgree
  <2> QED
    BY <2>1, <2>4, <2>5, FalseAgree
<1>11. CASE p.state_ = "header_value"
  <2>1. \/ /\ q = Goto(p, "expecting_newline_2")
           /\ v = Goto(w, "expecting_newline_2")
        \/ q = AddValue(p) /\ v = AddValue(w)
        \/ q = Returns(p, "false") /\ v = Returns(w, "false")
    BY <1>11 DEF consume, LiteralState
  <2>2. "expecting_newline_2" \in State
    BY DEF State, LiteralState
  <2>3. Aligned("expecting_newline_2", p.req, w.req)
    BY <1>11 DEF Aligned, InHeaderLine, BeforeUri, BeforeVersion
  <2>4. Agree(Goto(p, "expecting_newline_2"), Goto(w, "expecting_newline_2"))
    BY <2>2, <2>3, GotoAgree
  <2>5. Agree(AddValue(p), AddValue(w))
    BY <1>11, AddValueAgree
  <2> QED
    BY <2>1, <2>4, <2>5, FalseAgree
<1>12. CASE p.state_ = "expecting_newline_3"
  <2>1. \/ q = Returns(p, "true") /\ v = Returns(w, "true")
        \/ q = Returns(p, "false") /\ v = Returns(w, "false")
    BY <1>12 DEF consume, LiteralState
  <2>2. Agree(Returns(p, "true"), Returns(w, "true"))
    <3> DEFINE a == Returns(p, "true")
               b == Returns(w, "true")
    <3>1. "true" \in Result
      BY DEF Result
    <3>2. /\ a \in Parser /\ a.req = p.req /\ a.result = "true"
          /\ b \in Parser /\ b.req = w.req /\ b.result = "true"
      BY <3>1, ReturnsIs
    <3>3. w.req.version = "set" /\ w.req.method > 0
      BY <1>12, ParserParts DEF Aligned, BeforeVersion, BeforeUri
    <3>4. p.req.method > 0 => /\ p.req.uri = w.req.uri
                              /\ p.req.version = w.req.version
                              /\ p.req.headers = w.req.headers
      BY DEF Aligned
    <3> HIDE DEF a, b
    <3>5. Agree(a, b)
      BY <3>2, <3>3, <3>4 DEF Agree
    <3> QED
      BY <3>5 DEF a, b
  <2> QED
    BY <2>1, <2>2, FalseAgree
<1> QED
  BY <1>1, <1>2, <1>3, <1>4, <1>5, <1>6, <1>7, <1>8, <1>9, <1>10,
     <1>11, <1>12
  DEF State, LiteralState

(* The same for one turn of the loop of parse(), where translate() may     *)
(* throw.                                                                  *)
LEMMA ParseAligned ==
  ASSUME NEW p \in Parser, NEW w \in Parser, NEW c \in Char,
         p.state_ = w.state_,
         p.result = "indeterminate", w.result = "indeterminate",
         Aligned(p.state_, p.req, w.req),
         NEW q, q = parse(p, c), NEW v, v = parse(w, c)
  PROVE  /\ q \in Parser /\ v \in Parser
         /\ v.result # "crash"
         /\ q.result = "indeterminate" =>
              /\ v.result = "indeterminate" /\ v.state_ = q.state_
              /\ Aligned(q.state_, q.req, v.req)
         /\ IsComplete(q.result) => IsComplete(v.result)
         /\ q.result = "true" => q.req.method \in VerbLengths
         /\ v.result = "throw" => v.req.method \notin VerbLengths
         /\ IsComplete(v.result) => v.req.version = "set" /\ v.req.method > 0
         /\ q.result = "true" => /\ q.req.uri = v.req.uri
                                /\ q.req.version = v.req.version
                                /\ q.req.headers = v.req.headers
         /\ q.result = "false" => v.result = "false" \/ v.state_ = "header_lws"
<1> DEFINE a == consume(p, c)
           b == consume(w, c)
<1>1. Agree(a, b)
  BY ConsumeAligned
<1>2. a \in Parser /\ b \in Parser
  BY <1>1 DEF Agree
<1>3. a.req.method \in Nat
  BY <1>2, ParserParts
<1>4. "throw" \in Result
  BY DEF Result
<1>5. IF a.result = "true" /\ a.req.method \notin VerbLengths
      THEN q = Returns(a, "throw") ELSE q = a
  BY DEF parse
<1>6. IF b.result = "true" /\ b.req.method \notin VerbLengths
      THEN v = Returns(b, "throw") ELSE v = b
  BY DEF parse
<1> HIDE DEF a, b
<1>7. /\ q \in Parser /\ q.state_ = a.state_ /\ q.req = a.req
      /\ q.result = a.result \/ (a.result = "true" /\ q.result = "throw")
      /\ q.result = "true" => a.result = "true" /\ a.req.method \in VerbLengths
  BY <1>2, <1>4, <1>5, ReturnsIs
<1>8. /\ v \in Parser /\ v.state_ = b.state_ /\ v.req = b.req
      /\ \/ v.result = b.result
         \/ b.result = "true" /\ v.result = "throw"
              /\ b.req.method \notin VerbLengths
  BY <1>2, <1>4, <1>6, ReturnsIs
<1>9. q.result = "true" => a.result = "true" /\ a.req.method > 0
  BY <1>3, <1>7, VerbAssumption
<1> QED
  BY <1>1, <1>7, <1>8, <1>9 DEF Agree, IsComplete
-----------------------------------------------------------------------------
(* Where a header line begins there has been a line feed, and a line that  *)
(* is not folded never gets the automaton to header_lws.                   *)
LEMMA ParseUnfolded ==
  ASSUME NEW w \in Parser, NEW c \in Char, w.result = "indeterminate",
         w.state_ # "header_lws",
         w.state_ = "header_line_start" => c \notin {"sp", "ht"},
         NEW v, v = parse(w, c)
  PROVE  /\ v.state_ # "header_lws"
         /\ v.result = "indeterminate" /\ v.state_ = "header_line_start" =>
              c = "lf"
<1> DEFINE a == consume(w, c)
           Fine(q) == /\ q \in Parser /\ q.state_ # "header_lws"
                      /\ q.result = "indeterminate"
                           /\ q.state_ = "header_line_start" => c = "lf"
           Others == State \ {"header_lws", "header_line_start"}
<1>1. ASSUME NEW b \in Parser, NEW s \in Others PROVE Fine(Goto(b, s))
  BY GotoIs
<1>2. Fine(Returns(w, "false")) /\ Fine(Returns(w, "true"))
  BY ReturnsIs DEF Result
<1>3. /\ AddMethod(w) \in Parser /\ AddMethod(w).state_ = w.state_
      /\ AddUri(w) \in Parser /\ AddUri(w).state_ = w.state_
      /\ ZeroVersion(w) \in Parser
      /\ NewHeader(w) \in Parser
      /\ AddName(w) \in Parser /\ AddName(w).state_ = w.state_
      /\ AddValue(w) \in Parser /\ AddValue(w).state_ = w.state_
  <2>1. w.req.headers \in Seq(HeaderField) /\ "crash" \in Result
    BY ParserParts DEF Result
  <2>2. /\ NewHeader(w) \in Parser
        /\ AddName(w) \in Parser /\ AddName(w).state_ = w.state_
        /\ AddValue(w) \in Parser /\ AddValue(w).state_ = w.state_
    BY <2>1, HeadersStayHeaders, SetHeadersIs, ReturnsIs
    DEF NewHeader, AddName, AddValue
  <2> QED
    BY <2>2, AddMethodIs, AddUriIs, ZeroVersionIs
<1>s. {"method", "uri", "http_version_h", "http_version_major",
       "http_version_minor_start", "http_version_minor",
       "expecting_newline_1", "expecting_newline_2",
       "expecting_newline_3", "header_name", "http_version_major_start",
       "space_before_header_value"} \subseteq Others
  BY DEF State, LiteralState
<1> HIDE DEF Others
<1>4. Fine(a)
  <2>1. CASE w.state_ = "http_version_slash"
    <3>1. \/ a = Goto(ZeroVersion(w), "http_version_major_start")
          \/ a = Returns(w, "false")
      BY <2>1 DEF consume, LiteralState, LiteralNext
    <3> QED
      BY <1>1, <1>2, <1>3, <1>s, <3>1
  <2>2. CASE w.state_ \in LiteralState \ {"http_version_slash"}
    <3> DEFINE l == LiteralNext(w.state_)
    <3>1. \/ a = Goto(w, l) /\ c = LiteralChar(w.state_)
          \/ a = Returns(w, "false")
      BY <2>2 DEF consume, LiteralState
    <3>2. /\ l \in State /\ l # "header_lws"
          /\ l = "header_line_start" => LiteralChar(w.state_) = "lf"
      BY <2>2 DEF LiteralState, LiteralNext, LiteralChar, State
    <3> HIDE DEF l
    <3> QED
      BY <1>2, <3>1, <3>2, GotoIs
  <2>3. CASE w.state_ = "method_start"
    <3>1. a = Goto(AddMethod(w), "method") \/ a = Returns(w, "false")
      BY <2>3 DEF consume, LiteralState
    <3> QED
      BY <1>1, <1>2, <1>3, <1>s, <3>1
  <2>4. CASE w.state_ = "method"
    <3>1. a = Goto(w, "uri") \/ a = AddMethod(w) \/ a = Returns(w, "false")
      BY <2>4 DEF consume, LiteralState
    <3> QED
      BY <1>1, <1>2, <1>3, <1>s, <2>4, <3>1
  <2>5. CASE w.state_ = "uri"
    <3>1. a = Goto(w, "http_version_h") \/ a = AddUri(w)
          \/ a = Returns(w, "false")
      BY <2>5 DEF consume, LiteralState
    <3> QED
      BY <1>1, <1>2, <1>3, <1>s, <2>5, <3>1
  <2>6. CASE w.state_ \in {"http_version_major_start", "http_version_major"}
    <3>1. \/ a = Goto(w, "http_version_major")
          \/ a = Goto(w, "http_version_minor_start") \/ a = Returns(w, "false")
      <4>1. CASE w.state_ = "http_version_major_start"
        BY <4>1 DEF consume, LiteralState
      <4>2. CASE w.state_ = "http_version_major"
        BY <4>2 DEF consume, LiteralState
      <4> QED
        BY <2>6, <4>1, <4>2
    <3> QED
      BY <1>1, <1>2, <1>s, <3>1
  <2>12. CASE w.state_ \in {"http_version_minor_start", "http_version_minor"}
    <3>1. \/ a = Goto(w, "http_version_minor")
          \/ a = Goto(w, "expecting_newline_1") \/ a = Returns(w, "false")
      <4>1. CASE w.state_ = "http_version_minor_start"
        BY <4>1 DEF consume, LiteralState
      <4>2. CASE w.state_ = "http_version_minor"
        BY <4>2 DEF consume, LiteralState
      <4> QED
        BY <2>12, <4>1, <4>2
    <3> QED
      BY <1>1, <1>2, <1>s, <3>1
  <2>7. CASE w.state_ = "header_line_start"
    <3>1. \/ a = Goto(w, "expecting_newline_3")
          \/ a = Goto(NewHeader(w), "header_name") \/ a = Returns(w, "false")
      BY <2>7 DEF consume, LiteralState
    <3> QED
      BY <1>1, <1>2, <1>3, <1>s, <3>1
  <2>8. CASE w.state_ = "header_name"
    <3>1. \/ a = Goto(w, "space_before_header_value") \/ a = AddName(w)
          \/ a = Returns(w, "false")
      BY <2>8 DEF consume, LiteralState
    <3> QED
      BY <1>1, <1>2, <1>3, <1>s, <2>8, <3>1
  <2>9. CASE w.state_ = "header_value"
    <3>1. \/ a = Goto(w, "expecting_newline_2") \/ a = AddValue(w)
          \/ a = Returns(w, "false")
      BY <2>9 DEF consume, LiteralState
    <3> QED
      BY <1>1, <1>2, <1>3, <1>s, <2>9, <3>1
  <2>10. CASE w.state_ = "expecting_newline_3"
    <3>1. a = Returns(w, "true") \/ a = Returns(w, "false")
      BY <2>10 DEF consume, LiteralState
    <3> QED
      BY <1>2, <3>1
  <2>11. w.state_ \in State
    BY ParserParts
  <2> QED
    BY <2>1, <2>2, <2>3, <2>4, <2>5, <2>6, <2>7, <2>8, <2>9, <2>10, <2>11,
       <2>12
    DEF State
<1> HIDE DEF a
<1>6. v = a \/ v = Returns(a, "throw")
  BY DEF parse, a
<1>7. Fine(Returns(a, "throw"))
  BY <1>4, ReturnsIs DEF Result
<1> QED
  BY <1>4, <1>6, <1>7

(* Two lengths to which a character is added or not keep their order. *)
LEMMA BothGrow ==
  ASSUME NEW x \in Nat, NEW y \in Nat, NEW X, NEW Y,
         (X = x /\ Y = y) \/ (X = x + 1 /\ Y = y + 1)
  PROVE  (x = y => X = Y) /\ (x < y => X < Y)
OBVIOUS

(* A character is added to the method in the states before the uri only,   *)
(* to which the automaton does not come back, and whether it is depends on *)
(* nothing else that the parser holds.                                     *)
LEMMA ParseMethod ==
  ASSUME NEW w \in Parser, NEW c \in Char, NEW v, v = parse(w, c)
  PROVE  /\ v.req.method = IF w.state_ \in BeforeUri /\ IsToken(c)
                           THEN w.req.method + 1 ELSE w.req.method
         /\ w.state_ \notin BeforeUri => v.state_ \notin BeforeUri
<1> DEFINE a == consume(w, c)
           Kept(q) == /\ q \in Parser /\ q.req.method = w.req.method
                      /\ q.state_ \notin BeforeUri
           Others == State \ BeforeUri
<1>1. ASSUME NEW b \in Parser, NEW s \in Others, b.req.method = w.req.method
      PROVE  Kept(Goto(b, s))
  BY <1>1, GotoIs
<1>2. ASSUME NEW r \in Result
      PROVE  /\ Returns(w, r) \in Parser
             /\ Returns(w, r).req.method = w.req.method
             /\ Returns(w, r).state_ = w.state_
  BY ReturnsIs
<1>3. /\ AddUri(w) \in Parser /\ AddUri(w).state_ = w.state_
      /\ AddUri(w).req.method = w.req.method
      /\ ZeroVersion(w) \in Parser /\ ZeroVersion(w).req.method = w.req.method
  BY AddUriIs, ZeroVersionIs
<1>4. ASSUME NEW b \in Parser
      PROVE  /\ NewHeader(b) \in Parser /\ NewHeader(b).req.method = b.req.method
             /\ AddName(b) \in Parser /\ AddName(b).state_ = b.state_
             /\ AddName(b).req.method = b.req.method
             /\ AddValue(b) \in Parser /\ AddValue(b).state_ = b.state_
             /\ AddValue(b).req.method = b.req.method
  <2>1. b.req.headers \in Seq(HeaderField) /\ "crash" \in Result
    BY ParserParts DEF Result
  <2> QED
    BY <2>1, HeadersStayHeaders, SetHeadersIs, ReturnsIs
    DEF NewHeader, AddName, AddValue
<1>r. {"true", "false", "crash", "throw"} \subseteq Result
  BY DEF Result
<1>s. {"uri", "http_version_h", "http_version_major",
       "http_version_minor_start", "http_version_minor",
       "expecting_newline_1", "expecting_newline_2",
       "expecting_newline_3", "header_name", "header_value",
       "header_lws", "http_version_major_start",
       "space_before_header_value"} \subseteq Others
  BY DEF State, LiteralState, BeforeUri
<1>l. \A s \in LiteralState : LiteralNext(s) \in Others
  BY DEF State, LiteralState, LiteralNext, BeforeUri
<1>5. CASE w.state_ \in BeforeUri
  <2>1. CASE w.state_ = "method_start"
    <3>1. IF IsToken(c) THEN a = Goto(AddMethod(w), "method")
          ELSE a = Returns(w, "false")
      BY <2>1 DEF consume, LiteralState
    <3>2. "method" \in State /\ "false" \in Result
      BY DEF State, Result
    <3>3. /\ Goto(AddMethod(w), "method").req.method = w.req.method + 1
          /\ Goto(AddMethod(w), "method").result = w.result
      BY <3>2, AddMethodIs, GotoIs
    <3>4. a.req.method = IF IsToken(c) THEN w.req.method + 1 ELSE w.req.method
      BY <1>2, <3>1, <3>2, <3>3
    <3>5. a \in Parser
      BY <1>2, <3>1, <3>2, AddMethodIs, GotoIs
    <3> HIDE DEF a
    <3>6. v = a \/ v = Returns(a, "throw")
      BY DEF parse, a
    <3>7. Returns(a, "throw").req = a.req
      BY <1>r, <3>5, ReturnsIs
    <3> QED
      BY <1>5, <3>4, <3>6, <3>7
  <2>2. CASE w.state_ = "method"
    <3>0. ~IsToken("sp")
      BY DEF IsToken, is_tspecial
    <3>1. IF IsToken(c) THEN a = AddMethod(w)
          ELSE a = Goto(w, "uri") \/ a = Returns(w, "false")
      BY <2>2, <3>0 DEF consume, LiteralState
    <3>2. "uri" \in State /\ "false" \in Result
      BY DEF State, Result
    <3>4. a.req.method = IF IsToken(c) THEN w.req.method + 1 ELSE w.req.method
      BY <1>2, <3>1, <3>2, GotoIs, AddMethodIs
    <3>5. a \in Parser
      BY <1>2, <3>1, <3>2, AddMethodIs, GotoIs
    <3> HIDE DEF a
    <3>6. v = a \/ v = Returns(a, "throw")
      BY DEF parse, a
    <3>7. Returns(a, "throw").req = a.req
      BY <1>r, <3>5, ReturnsIs
    <3> QED
      BY <1>5, <3>4, <3>6, <3>7
  <2> QED
    BY <1>5, <2>1, <2>2 DEF BeforeUri
<1>6. CASE w.state_ \notin BeforeUri
  <2> HIDE DEF Others
  <2>f. /\ Kept(w) /\ Kept(Returns(w, "false")) /\ Kept(Returns(w, "true"))
        /\ Kept(AddUri(w)) /\ Kept(AddName(w)) /\ Kept(AddValue(w))
    BY <1>2, <1>3, <1>4, <1>6, <1>r
  <2>g. \A s \in Others : Kept(Goto(w, s))
    BY <1>1
  <2>h. /\ Kept(Goto(ZeroVersion(w), "http_version_major_start"))
        /\ Kept(Goto(NewHeader(w), "header_name"))
    <3>1. "http_version_major_start" \in Others /\ "header_name" \in Others
      BY <1>s
    <3> QED
      BY <1>1, <1>3, <1>4, <3>1
  <2>i. Kept(AddValue(Goto(w, "header_value")))
    <3>1. PICK b : b = Goto(w, "header_value")
      OBVIOUS
    <3>2. Kept(b)
      BY <1>s, <2>g, <3>1
    <3>3. Kept(AddValue(b))
      BY <1>4, <3>2
    <3> QED
      BY <3>1, <3>3
  <2>e. PICK e : e = a
    OBVIOUS
  <2> HIDE DEF Kept
  <2>1. Kept(e)
    <3>1. CASE w.state_ = "http_version_slash"
      <4>1. \/ e = Goto(ZeroVersion(w), "http_version_major_start")
            \/ e = Returns(w, "false")
        BY <2>e, <3>1 DEF consume, LiteralState, LiteralNext
      <4> QED
        BY <2>f, <2>h, <4>1
    <3>2. CASE w.state_ \in LiteralState \ {"http_version_slash"}
      <4>1. PICK l \in Others : l = LiteralNext(w.state_)
        BY <1>l, <3>2
      <4>2. e = Goto(w, l) \/ e = Returns(w, "false")
        BY <2>e, <3>2, <4>1 DEF consume, LiteralState
      <4> QED
        BY <2>f, <2>g, <4>2
    <3>3. CASE w.state_ = "uri"
      <4>1. e = Goto(w, "http_version_h") \/ e = AddUri(w)
            \/ e = Returns(w, "false")
        BY <2>e, <3>3 DEF consume, LiteralState
      <4> QED
        BY <1>s, <2>f, <2>g, <4>1
    <3>4. CASE w.state_ \in {"http_version_major_start", "http_version_major",
                             "http_version_minor_start", "http_version_minor"}
      <4>1. \/ e = Goto(w, "http_version_major")
            \/ e = Goto(w, "http_version_minor_start")
            \/ e = Goto(w, "http_version_minor")
            \/ e = Goto(w, "expecting_newline_1") \/ e = Returns(w, "false")
        <5>1. CASE w.state_ = "http_version_major_start"
          BY <2>e, <5>1 DEF consume, LiteralState
        <5>2. CASE w.state_ = "http_version_major"
          BY <2>e, <5>2 DEF consume, LiteralState
        <5>3. CASE w.state_ = "http_version_minor_start"
          BY <2>e, <5>3 DEF consume, LiteralState
        <5>4. CASE w.state_ = "http_version_minor"
          BY <2>e, <5>4 DEF consume, LiteralState
        <5> QED
          BY <3>4, <5>1, <5>2, <5>3, <5>4
      <4> QED
        BY <1>s, <2>f, <2>g, <4>1
    <3>5. CASE w.state_ = "header_line_start"
      <4>1. \/ e = Goto(w, "expecting_newline_3") \/ e = Goto(w, "header_lws")
            \/ e = Goto(NewHeader(w), "header_name") \/ e = Returns(w, "false")
        BY <2>e, <3>5 DEF consume, LiteralState
      <4> QED
        BY <1>s, <2>f, <2>g, <2>h, <4>1
    <3>6. CASE w.state_ = "header_lws"
      <4>1. \/ e = Goto(w, "expecting_newline_2") \/ e = w
            \/ e = AddValue(Goto(w, "header_value")) \/ e = Returns(w, "false")
        BY <2>e, <3>6 DEF consume, LiteralState
      <4> QED
        BY <1>s, <2>f, <2>g, <2>i, <4>1
    <3>7. CASE w.state_ = "header_name"
      <4>1. \/ e = Goto(w, "space_before_header_value") \/ e = AddName(w)
            \/ e = Returns(w, "false")
        BY <2>e, <3>7 DEF consume, LiteralState
      <4> QED
        BY <1>s, <2>f, <2>g, <4>1
    <3>8. CASE w.state_ = "header_value"
      <4>1. \/ e = Goto(w, "expecting_newline_2") \/ e = AddValue(w)
            \/ e = Returns(w, "false")
        BY <2>e, <3>8 DEF consume, LiteralState
      <4> QED
        BY <1>s, <2>f, <2>g, <4>1
    <3>9. CASE w.state_ = "expecting_newline_3"
      <4>1. e = Returns(w, "true") \/ e = Returns(w, "false")
        BY <2>e, <3>9 DEF consume, LiteralState
      <4> QED
        BY <2>f, <4>1
    <3>10. w.state_ \in State
      BY ParserParts
    <3> QED
      BY <1>6, <3>1, <3>2, <3>3, <3>4, <3>5, <3>6, <3>7, <3>8, <3>9, <3>10
      DEF State, BeforeUri
  <2>2. v = e \/ v = Returns(e, "throw")
    BY <2>e DEF parse
  <2>3. /\ e \in Parser /\ e.req.method = w.req.method
        /\ e.state_ \notin BeforeUri
    BY <2>1 DEF Kept
  <2>4. Returns(e, "throw").req = e.req /\ Returns(e, "throw").state_ = e.state_
    BY <1>r, <2>3, ReturnsIs
  <2> QED
    BY <1>6, <2>2, <2>3, <2>4
<1> QED
  BY <1>5, <1>6

(* a are the turns of parse() over a whole header, at whose last character *)
(* it makes up its mind.                                                   *)
WholeHeader(text, a) ==
  /\ text \in Seq(Char) /\ Unfolded(text)
  /\ a = Turns("method_start", text)
  /\ a[Len(text)].parser.result # "indeterminate"
  /\ a[Len(text)].read = Len(text)

(* Until then, every character is consumed, the request is aligned with    *)
(* itself, and no line is found folded.                                    *)
LEMMA WholeTurns ==
  ASSUME NEW text, NEW a, WholeHeader(text, a)
  PROVE  /\ Len(text) \in Nat \ {0}
         /\ \A i \in 0 .. Len(text) - 1 :
              LET w == a[i].parser
              IN  /\ w \in Parser /\ w.result = "indeterminate"
                  /\ a[i + 1].parser = parse(w, text[i + 1])
                  /\ text[i + 1] \in Char
                  /\ Aligned(w.state_, w.req, w.req)
                  /\ w.state_ # "header_lws"
                  /\ w.state_ = "header_line_start" =>
                       text[i + 1] \notin {"sp", "ht"}
<1> DEFINE len == Len(text)
<1>1. len \in Nat /\ text \in Seq(Char) /\ a = Turns("method_start", text)
      /\ a[len].parser.result # "indeterminate" /\ a[len].read = len
  BY LenProperties DEF WholeHeader
<1>2. "method_start" \in State
  BY DEF State
<1>3. /\ a[0] = FirstTurn("method_start")
      /\ \A i \in 0 .. len - 1 : a[i + 1] = Turn(a[i], text[i + 1], i + 1)
  BY <1>1, TurnsAre
<1>4. \A i \in 0 .. len :
        /\ a[i].read \in 0 .. i /\ Bounded(a[i].parser, a[i].read)
        /\ a[i].parser.result = "indeterminate" => a[i].read = i
  BY <1>1, <1>2, TurnsAreBounded
<1>5. PICK first : /\ first = a[0].parser /\ first.state_ = "method_start"
                   /\ first.req = NoRequest /\ first.result = "indeterminate"
  BY <1>3 DEF FirstTurn, NewParser
<1>6. len # 0
  BY <1>1, <1>5
<1>7. ASSUME NEW i \in 0 .. len - 1 PROVE a[i].parser.result = "indeterminate"
  <2> SUFFICES ASSUME a[i].parser.result # "indeterminate" PROVE FALSE
    OBVIOUS
  <2> DEFINE G == {j \in Nat : i + j <= len => a[i + j] = a[i]}
  <2>1. 0 \in G
    OBVIOUS
  <2>2. ASSUME NEW j \in Nat, j \in G PROVE j + 1 \in G
    <3> SUFFICES ASSUME i + (j + 1) <= len PROVE a[i + (j + 1)] = a[i]
      OBVIOUS
    <3>1. /\ a[i + j] = a[i] /\ i + j \in 0 .. len - 1
          /\ i + (j + 1) = (i + j) + 1
      BY <1>1, <2>2
    <3>2. a[(i + j) + 1] = Turn(a[i + j], text[(i + j) + 1], (i + j) + 1)
      BY <1>3, <3>1
    <3>3. a[(i + j) + 1] = a[i + j]
      BY <3>1, <3>2 DEF Turn
    <3> QED
      BY <3>1, <3>3
  <2>3. Nat \subseteq G
    <3> HIDE DEF G
    <3> QED
      BY <2>1, <2>2, NumberInduction
  <2>4. a[i + (len - i)] = a[i]
    <3>1. len - i \in Nat /\ i + (len - i) <= len
      BY <1>1
    <3> QED
      BY <2>3, <3>1
  <2>5. i + (len - i) = len /\ i \in 0 .. len /\ i < len
    BY <1>1
  <2>6. a[i].read = len /\ a[i].read \in 0 .. i
    BY <1>1, <1>4, <2>4, <2>5
  <2> QED
    BY <1>1, <2>5, <2>6
<1>8. ASSUME NEW i \in 0 .. len - 1
      PROVE  /\ a[i].parser \in Parser /\ text[i + 1] \in Char
             /\ a[i + 1].parser = parse(a[i].parser, text[i + 1])
  <2>1. i \in 0 .. len /\ i + 1 \in 1 .. Len(text)
    BY <1>1
  <2>2. a[i].parser \in Parser
    BY <1>4, <2>1 DEF Bounded
  <2>3. text[i + 1] \in Char
    BY <1>1, <2>1, ElementOfSeq
  <2>4. a[i + 1] = Turn(a[i], text[i + 1], i + 1)
    BY <1>3
  <2>5. a[i + 1] = [parser |-> parse(a[i].parser, text[i + 1]), read |-> i + 1]
    BY <1>7, <2>4 DEF Turn
  <2> QED
    BY <2>2, <2>3, <2>5
<1> DEFINE Good(w, i) == /\ Aligned(w.state_, w.req, w.req)
                         /\ w.state_ # "header_lws"
                         /\ w.state_ = "header_line_start" =>
                              text[i + 1] \notin {"sp", "ht"}
           G == {i \in Nat : i < len => Good(a[i].parser, i)}
<1>9. 0 \in G
  <2>1. Aligned("method_start", NoRequest, NoRequest)
    BY EmptySeq
    DEF Aligned, NoRequest, InHeaderLine, BeforeUri, BeforeVersion
  <2> QED
    BY <1>5, <2>1
<1>10. ASSUME NEW i \in Nat, i \in G PROVE i + 1 \in G
  <2> SUFFICES ASSUME i + 1 < len PROVE Good(a[i + 1].parser, i + 1)
    OBVIOUS
  <2>1. i \in 0 .. len - 1 /\ i + 1 \in 0 .. len - 1 /\ i + 1 \in 1 .. len - 1
    BY <1>1
  <2>2. PICK w, v, c : w = a[i].parser /\ v = a[i + 1].parser /\ c = text[i + 1]
    OBVIOUS
  <2>3. /\ w \in Parser /\ c \in Char /\ v = parse(w, c)
        /\ w.result = "indeterminate" /\ v.result = "indeterminate"
    BY <1>7, <1>8, <2>1, <2>2
  <2>4. Good(w, i)
    BY <1>1, <1>10, <2>1, <2>2
  <2>5. Aligned(v.state_, v.req, v.req)
    BY <2>3, <2>4, ParseAligned
  <2>6. v.state_ # "header_lws" /\ (v.state_ = "header_line_start" => c = "lf")
    BY <2>2, <2>3, <2>4, ParseUnfolded
  <2>7. c = "lf" => text[(i + 1) + 1] \notin {"sp", "ht"}
    BY <2>1, <2>2 DEF WholeHeader, Unfolded
  <2> QED
    BY <2>2, <2>5, <2>6, <2>7
<1>11. Nat \subseteq G
  <2> HIDE DEF G
  <2> QED
    BY <1>9, <1>10, NumberInduction
<1>12. ASSUME NEW i \in 0 .. len - 1 PROVE Good(a[i].parser, i)
  <2>1. i \in Nat /\ i < len
    BY <1>1
  <2> QED
    BY <1>11, <2>1
<1> HIDE DEF G
<1> QED
  BY <1>1, <1>6, <1>7, <1>8, <1>12

(* What is left of the verb in a call of parse() that began in state s: all *)
(* of it if the call began with it, and only its last letters if it began  *)
(* inside.                                                                 *)
VerbKept(s, method, w) ==
  /\ s \in BeforeUri
  /\ s = "method_start" => method = w.req.method /\ w.result = "true"
  /\ s = "method" => method \in 1 .. w.req.method - 1

(* How a call of parse() stands that began after m characters of a header  *)
(* and was given those up to l, and perhaps what follows the header: it    *)
(* goes on as long as the header does, and makes up its mind at its end    *)
(* and as it would have on the whole of it, unless it crashes or throws.   *)
AsWhole(out, l, m, text, a) ==
  LET p == out.parser
      w == a[Len(text)].parser
  IN  /\ w \in Parser
      /\ p.result = "indeterminate" =>
           l < Len(text) /\ p.state_ = a[l].parser.state_
      /\ p.result \in {"true", "false"} => m + out.read = Len(text)
      /\ p.result = "true" => /\ IsComplete(w.result)
                              /\ p.req.uri = w.req.uri
                              /\ p.req.headers = w.req.headers
                              /\ VerbKept(a[m].parser.state_, p.req.method, w)
      /\ p.result = "false" => w.result = "false"

(* This is so if it began in the state that the automaton is in there. *)
LEMMA ParseOfPart ==
  ASSUME NEW text, NEW a, WholeHeader(text, a), NEW m \in 0 .. Len(text) - 1,
         NEW chunk \in Seq(Char),
         \A j \in 1 .. Len(chunk) : m + j <= Len(text) => chunk[j] = text[m + j],
         NEW out, out = ParseChunk(a[m].parser.state_, chunk)
  PROVE  AsWhole(out, m + Len(chunk), m, text, a)
<1> DEFINE len == Len(text)
           k == Len(chunk)
           s == a[m].parser.state_
           b == Turns(s, chunk)
<1>1. len \in Nat \ {0} /\ k \in Nat /\ m \in Nat /\ m < len
  BY WholeTurns, LenProperties
<1>2. \A i \in 0 .. len - 1 :
        LET w == a[i].parser
        IN  /\ w \in Parser /\ w.result = "indeterminate"
            /\ a[i + 1].parser = parse(w, text[i + 1])
            /\ text[i + 1] \in Char
            /\ Aligned(w.state_, w.req, w.req)
            /\ w.state_ # "header_lws"
            /\ w.state_ = "header_line_start" => text[i + 1] \notin {"sp", "ht"}
  BY WholeTurns
<1>3. s \in State
  BY <1>2, ParserParts
<1>4. /\ b[0] = FirstTurn(s)
      /\ \A i \in 0 .. k - 1 : b[i + 1] = Turn(b[i], chunk[i + 1], i + 1)
  BY TurnsAre
<1>5. \A i \in 0 .. k :
        /\ b[i].read \in 0 .. i /\ Bounded(b[i].parser, b[i].read)
        /\ b[i].parser.result = "indeterminate" => b[i].read = i
  BY <1>3, TurnsAreBounded
<1>6. out = b[k]
  BY DEF ParseChunk
<1>7. a[len].parser \in Parser /\ a[len].parser.result # "indeterminate"
  <2>1. "method_start" \in State /\ len \in 0 .. len
    BY <1>1 DEF State
  <2> QED
    BY <2>1, TurnsAreBounded DEF WholeHeader, Bounded
<1> HIDE DEF b, s
<1> DEFINE Left(p, w) ==
             /\ s = "method_start" => p.req.method = w.req.method
             /\ s # "method_start" => p.req.method < w.req.method
             /\ s \notin BeforeUri =>
                  p.req.method = 0 /\ p.state_ \notin BeforeUri
           Goes(x, i) ==
             x.parser.result = "indeterminate" =>
               /\ m + i < len
               /\ x.parser.state_ = a[m + i].parser.state_
               /\ Aligned(x.parser.state_, x.parser.req, a[m + i].parser.req)
               /\ Left(x.parser, a[m + i].parser)
           Ends(p, r, w) ==
             /\ p.result \in {"true", "false"} => m + r = len
             /\ p.result = "true" => /\ IsComplete(w.result)
                                     /\ p.req.uri = w.req.uri
                                     /\ p.req.headers = w.req.headers
                                     /\ VerbKept(s, p.req.method, w)
             /\ p.result = "false" => w.result = "false"
           Fine(x, i) == Goes(x, i) /\ Ends(x.parser, x.read, a[len].parser)
           G == {i \in Nat : i <= k => Fine(b[i], i)}
<1>8. 0 \in G
  <2>1. /\ b[0].parser.result = "indeterminate" /\ b[0].parser.state_ = s
        /\ b[0].parser.req = NoRequest
    BY <1>4 DEF FirstTurn, NewParser
  <2>2. PICK w : w = a[m].parser
    OBVIOUS
  <2>3. w \in Parser /\ Aligned(w.state_, w.req, w.req) /\ s = w.state_
    BY <1>2, <2>2 DEF s
  <2>4. Aligned(w.state_, NoRequest, w.req)
    BY <2>3 DEF Aligned, NoRequest
  <2>5. Left(b[0].parser, w)
    <3>1. b[0].parser.req.method = 0
      BY <2>1 DEF NoRequest
    <3>2. w.req.method \in Nat /\ (s = "method_start" <=> w.req.method = 0)
      BY <2>3, ParserParts DEF Aligned
    <3> QED
      BY <2>1, <3>1, <3>2
  <2>7. Goes(b[0], 0)
    BY <1>1, <2>1, <2>2, <2>3, <2>4, <2>5
  <2>6. Ends(b[0].parser, b[0].read, a[len].parser)
    BY <2>1
  <2> QED
    BY <2>6, <2>7
<1>9. ASSUME NEW i \in Nat, i \in G PROVE i + 1 \in G
  <2> SUFFICES ASSUME i + 1 <= k PROVE Fine(b[i + 1], i + 1)
    OBVIOUS
  <2>1. Fine(b[i], i) /\ i \in 0 .. k - 1 /\ i \in 0 .. k /\ i + 1 \in 1 .. k
    BY <1>1, <1>9
  <2>2. b[i + 1] = Turn(b[i], chunk[i + 1], i + 1)
    BY <1>4, <2>1
  <2>3. CASE b[i].parser.result # "indeterminate"
    <3>1. b[i + 1] = b[i]
      BY <2>2, <2>3 DEF Turn
    <3> QED
      BY <2>1, <2>3, <3>1
  <2>4. CASE b[i].parser.result = "indeterminate"
    <3>1. PICK p, w, q, v : /\ p = b[i].parser /\ w = a[m + i].parser
                            /\ q = b[i + 1].parser
                            /\ v = a[m + i + 1].parser
      OBVIOUS
    <3>2. /\ m + i < len /\ m + i \in 0 .. len - 1 /\ m + (i + 1) <= len
          /\ m + i + 1 = m + (i + 1)
          /\ p.state_ = w.state_ /\ Aligned(p.state_, p.req, w.req)
          /\ Left(p, w)
      <4>1. /\ m + i < len
            /\ p.state_ = w.state_ /\ Aligned(p.state_, p.req, w.req)
            /\ Left(p, w)
        BY <2>1, <2>4, <3>1
      <4>2. m + i \in 0 .. len - 1 /\ m + (i + 1) <= len
            /\ m + i + 1 = m + (i + 1)
        BY <1>1, <4>1
      <4> QED
        BY <4>1, <4>2
    <3>3. PICK c : c = text[m + i + 1]
      OBVIOUS
    <3>4. chunk[i + 1] = c
      <4>1. i + 1 \in 1 .. Len(chunk)
        BY <2>1
      <4>2. m + (i + 1) <= Len(text) /\ m + i + 1 = m + (i + 1)
        BY <3>2
      <4>3. PICK j : j = i + 1
        OBVIOUS
      <4>4. chunk[j] = text[m + j]
        BY <4>1, <4>2, <4>3
      <4> QED
        BY <3>3, <4>2, <4>3, <4>4
    <3>5. /\ b[i + 1] = [parser |-> parse(p, c), read |-> i + 1]
          /\ q = parse(p, c) /\ b[i + 1].read = i + 1
      BY <2>2, <2>4, <3>1, <3>4 DEF Turn
    <3>6. /\ w \in Parser /\ w.result = "indeterminate" /\ c \in Char
          /\ v = parse(w, c) /\ w.state_ # "header_lws"
          /\ w.state_ = "header_line_start" => c \notin {"sp", "ht"}
      BY <1>2, <3>1, <3>2, <3>3
    <3>7. p \in Parser /\ p.result = "indeterminate"
      BY <1>5, <2>1, <2>4, <3>1 DEF Bounded
    <3>8. /\ q \in Parser /\ v \in Parser
          /\ q.result = "indeterminate" =>
               /\ v.result = "indeterminate" /\ v.state_ = q.state_
               /\ Aligned(q.state_, q.req, v.req)
          /\ IsComplete(q.result) => IsComplete(v.result)
          /\ q.result = "true" => q.req.method \in VerbLengths
          /\ v.result = "throw" => v.req.method \notin VerbLengths
          /\ q.result = "true" => /\ q.req.uri = v.req.uri
                                  /\ q.req.headers = v.req.headers
          /\ q.result = "false" =>
               v.result = "false" \/ v.state_ = "header_lws"
      <4>1. p.state_ = w.state_ /\ Aligned(p.state_, p.req, w.req)
        BY <3>2
      <4> QED
        BY <3>5, <3>6, <3>7, <4>1, ParseAligned
    <3>l. Left(q, v)
      <4>1. /\ q.req.method = IF p.state_ \in BeforeUri /\ IsToken(c)
                              THEN p.req.method + 1 ELSE p.req.method
            /\ p.state_ \notin BeforeUri => q.state_ \notin BeforeUri
        BY <3>5, <3>6, <3>7, ParseMethod
      <4>2. v.req.method = IF w.state_ \in BeforeUri /\ IsToken(c)
                           THEN w.req.method + 1 ELSE w.req.method
        BY <3>6, ParseMethod
      <4>3. p.req.method \in Nat /\ w.req.method \in Nat
        BY <3>6, <3>7, ParserParts
      <4>4. PICK x, y, X, Y : /\ x = p.req.method /\ y = w.req.method
                              /\ X = q.req.method /\ Y = v.req.method
        OBVIOUS
      <4>5. /\ s = "method_start" => x = y
            /\ s # "method_start" => x < y
            /\ s \notin BeforeUri => x = 0 /\ p.state_ \notin BeforeUri
        BY <3>2, <4>4
      <4>6. \/ X = x /\ Y = y
            \/ p.state_ \in BeforeUri /\ X = x + 1 /\ Y = y + 1
        BY <3>2, <4>1, <4>2, <4>4
      <4>7. /\ s = "method_start" => X = Y
            /\ s # "method_start" => X < Y
            /\ s \notin BeforeUri => X = 0
        <5>1. x \in Nat /\ y \in Nat
          BY <4>3, <4>4
        <5>2. (x = y => X = Y) /\ (x < y => X < Y)
          BY <4>6, <5>1, BothGrow
        <5>3. s \notin BeforeUri => X = 0
          BY <4>5, <4>6
        <5> QED
          BY <4>5, <5>2, <5>3
      <4>8. s \notin BeforeUri => q.state_ \notin BeforeUri
        BY <4>1, <4>5
      <4> QED
        BY <4>4, <4>7, <4>8
    <3>k. q.result = "true" => VerbKept(s, q.req.method, v)
      <4> SUFFICES ASSUME q.result = "true" PROVE VerbKept(s, q.req.method, v)
        OBVIOUS
      <4>1. PICK x, y : x = q.req.method /\ y = v.req.method
        OBVIOUS
      <4>2. x \in Nat \ {0} /\ y \in Nat /\ x \in VerbLengths
        BY <3>8, <4>1, ParserParts, VerbAssumption
      <4>3. /\ s \in BeforeUri
            /\ s = "method_start" => x = y
            /\ s # "method_start" => x < y
        BY <3>l, <4>1, <4>2
      <4>4. x = y => v.result = "true"
        BY <3>8, <4>1, <4>2 DEF IsComplete
      <4>5. x < y => x \in 1 .. y - 1
        BY <4>2
      <4> QED
        BY <4>1, <4>3, <4>4, <4>5 DEF VerbKept
    <3>9. v.state_ # "header_lws"
      BY <3>6, ParseUnfolded
    <3>10. v.result = "indeterminate" <=> m + i + 1 < len
      <4>1. CASE m + i + 1 < len
        <5>1. m + i + 1 \in 0 .. len - 1
          BY <1>1, <3>2, <4>1
        <5> QED
          BY <1>2, <3>1, <4>1, <5>1
      <4>2. CASE ~(m + i + 1 < len)
        <5>1. m + i + 1 = len
          BY <1>1, <3>2, <4>2
        <5> QED
          BY <1>7, <3>1, <4>2, <5>1
      <4> QED
        BY <4>1, <4>2
    <3>11. v.result # "indeterminate" => m + i + 1 = len /\ v = a[len].parser
      BY <1>1, <3>1, <3>2, <3>10
    <3>12. Goes(b[i + 1], i + 1)
      BY <3>1, <3>2, <3>8, <3>10, <3>l
    <3>13. Ends(q, i + 1, a[len].parser)
      <4>1. q.result \in {"true", "false"} => v.result # "indeterminate"
        BY <3>8, <3>9 DEF IsComplete
      <4> QED
        BY <3>2, <3>8, <3>9, <3>11, <3>k, <4>1 DEF IsComplete
    <3> QED
      BY <3>1, <3>5, <3>12, <3>13
  <2> QED
    BY <2>3, <2>4
<1>10. Nat \subseteq G
  <2> HIDE DEF G
  <2> QED
    BY <1>8, <1>9, NumberInduction
<1>11. Fine(b[k], k)
  BY <1>1, <1>10
<1> HIDE DEF G
<1> QED
  BY <1>1, <1>6, <1>7, <1>11 DEF AsWhole, s
=============================================================================
