--------------------------- MODULE RequestParser ---------------------------
(***************************************************************************)
(* The HTTP request header parser, src/request_parser.cc, as operators: a  *)
(* character at a time automaton (consume), the loop of parse() over one   *)
(* chunk of input, and translate().  The parser keeps state_ between two   *)
(* calls of parse(); the text it has collected lives in the parser_request *)
(* that is local to ONE call.                                              *)
(*                                                                         *)
(* A character is its class, and a piece of text is its length: nothing    *)
(* the parser decides depends on more.                                     *)
(***************************************************************************)
EXTENDS Naturals, Sequences

CONSTANT VerbLengths  \* the method lengths that stand for a verb Beast knows

ASSUME VerbAssumption == VerbLengths \subseteq Nat \ {0}
-----------------------------------------------------------------------------
(* "tok" is any other token character, "tsp" any other tspecial, "ctl" any *)
(* other control character, "high" a byte above 127 (a negative char).     *)
Char == {"H", "T", "P", "digit", ".", "tok", "/", ":", "sp", "tsp",
         "ht", "cr", "lf", "ctl", "high"}

is_char(c) == c # "high"

is_ctl(c) == c \in {"ht", "cr", "lf", "ctl"}

is_tspecial(c) == c \in {"/", ":", "sp", "ht", "tsp"}

is_digit(c) == c = "digit"

(* The test consume() makes for a character of a method or a header name.  *)
IsToken(c) == is_char(c) /\ ~is_ctl(c) /\ ~is_tspecial(c)

(* The states that accept exactly one character. *)
LiteralState == {"http_version_h", "http_version_t_1", "http_version_t_2",
                 "http_version_p", "http_version_slash",
                 "expecting_newline_1", "space_before_header_value",
                 "expecting_newline_2"}

(* That character, and the state that follows it. *)
LiteralChar(s) ==
  CASE s = "http_version_h" -> "H"
    [] s \in {"http_version_t_1", "http_version_t_2"} -> "T"
    [] s = "http_version_p" -> "P"
    [] s = "http_version_slash" -> "/"
    [] s = "space_before_header_value" -> "sp"
    [] s \in {"expecting_newline_1", "expecting_newline_2"} -> "lf"

LiteralNext(s) ==
  CASE s = "http_version_h" -> "http_version_t_1"
    [] s = "http_version_t_1" -> "http_version_t_2"
    [] s = "http_version_t_2" -> "http_version_p"
    [] s = "http_version_p" -> "http_version_slash"
    [] s = "http_version_slash" -> "http_version_major_start"
    [] s = "space_before_header_value" -> "header_value"
    [] s \in {"expecting_newline_1", "expecting_newline_2"} ->
         "header_line_start"

State == LiteralState \cup
  {"method_start", "method", "uri", "http_version_major_start",
   "http_version_major", "http_version_minor_start", "http_version_minor",
   "header_line_start", "header_lws", "header_name", "header_value",
   "expecting_newline_3"}

(* A new parser_request: empty text, no headers, and version numbers that  *)
(* hold no value (they are "unset") until the '/' of HTTP/ zeroes them.     *)
NoRequest == [method |-> 0, uri |-> 0, version |-> "unset",
              headers |-> <<>>]

(* indeterminate, true and false are the values of the tribool.  "crash"   *)
(* is headers.back() on an empty vector; "throw" is the invalid_argument   *)
(* of http::request::method for a verb it does not know.                   *)
Result == {"indeterminate", "true", "false", "crash", "throw"}

NewParser == [state_ |-> "method_start", req |-> NoRequest,
              result |-> "indeterminate"]
-----------------------------------------------------------------------------
Goto(p, s) == [p EXCEPT !.state_ = s]

Returns(p, r) == [p EXCEPT !.result = r]

AddMethod(p) == [p EXCEPT !.req.method = @ + 1]

AddUri(p) == [p EXCEPT !.req.uri = @ + 1]

SetHeaders(p, hs) == [p EXCEPT !.req.headers = hs]

NewHeader(p) ==
  SetHeaders(p, Append(p.req.headers, [name |-> 1, value |-> 0]))

(* headers.back().name.push_back and headers.back().value.push_back: on an *)
(* empty vector they write through a null pointer.                         *)
LongerName(hs) == [hs EXCEPT ![Len(hs)].name = @ + 1]

AddName(p) ==
  IF p.req.headers = <<>> THEN Returns(p, "crash")
  ELSE SetHeaders(p, LongerName(p.req.headers))

LongerValue(hs) == [hs EXCEPT ![Len(hs)].value = @ + 1]

(* Mutant: the value is written where the first header would be. *)
AddValue_NoHeader(p) ==
  IF p.req.headers = <<>> THEN SetHeaders(p, <<[value |-> 1]>>)
  ELSE SetHeaders(p, LongerValue(p.req.headers))

AddValue(p) ==
  IF p.req.headers = <<>> THEN Returns(p, "crash")
  ELSE SetHeaders(p, LongerValue(p.req.headers))

(* Mutant: the version numbers are not zeroed. *)
ZeroVersion_Missing(p) == p

ZeroVersion(p) == [p EXCEPT !.req.version = "set"]

(* consume: the next character of input. *)
consume(p, c) ==
  LET s == p.state_ IN
  CASE s = "http_version_slash" /\ c = LiteralChar(s) ->
         Goto(ZeroVersion(p), LiteralNext(s))
    [] s \in LiteralState \ {"http_version_slash"} /\ c = LiteralChar(s) ->
         Goto(p, LiteralNext(s))
    [] s = "method_start" /\ IsToken(c) -> Goto(AddMethod(p), "method")
    [] s = "method" /\ c = "sp" -> Goto(p, "uri")
    [] s = "method" /\ IsToken(c) -> AddMethod(p)
    [] s = "uri" /\ c = "sp" -> Goto(p, "http_version_h")
    [] s = "uri" /\ c # "sp" /\ ~is_ctl(c) -> AddUri(p)
    [] s \in {"http_version_major_start", "http_version_major"}
         /\ is_digit(c) -> Goto(p, "http_version_major")
    [] s = "http_version_major" /\ c = "." ->
         Goto(p, "http_version_minor_start")
    [] s \in {"http_version_minor_start", "http_version_minor"}
         /\ is_digit(c) -> Goto(p, "http_version_minor")
    [] s = "http_version_minor" /\ c = "cr" -> Goto(p, "expecting_newline_1")
    [] s = "header_line_start" /\ c = "cr" -> Goto(p, "expecting_newline_3")
    [] s = "header_line_start" /\ c \in {"sp", "ht"}
         /\ p.req.headers # <<>> -> Goto(p, "header_lws")
    [] s = "header_line_start" /\ IsToken(c) ->
         Goto(NewHeader(p), "header_name")
    [] s \in {"header_lws", "header_value"} /\ c = "cr" ->
         Goto(p, "expecting_newline_2")
    [] s = "header_lws" /\ c \in {"sp", "ht"} -> p
    [] s = "header_lws" /\ c # "sp" /\ ~is_ctl(c) ->
         AddValue(Goto(p, "header_value"))
    [] s = "header_name" /\ c = ":" -> Goto(p, "space_before_header_value")
    [] s = "header_name" /\ IsToken(c) -> AddName(p)
    [] s = "header_value" /\ ~is_ctl(c) -> AddValue(p)
    [] s = "expecting_newline_3" /\ c = "lf" -> Returns(p, "true")
    [] OTHER -> Returns(p, "false")

(* translate: the http::request made of a parsed header.  A later header   *)
(* of the same name replaces an earlier one (http::request::set).          *)
translate(parsed) ==
  LET hs    == parsed.headers
      named(n) == {i \in DOMAIN hs : hs[i].name = n}
      last(n)  == CHOOSE i \in named(n) : \A j \in named(n) : j <= i
  IN  [verb |-> parsed.method, target |-> parsed.uri,
       version |-> parsed.version,
       fields |-> [n \in {hs[i].name : i \in DOMAIN hs} |->
                     hs[last(n)].value]]

(* Mutant: translate() takes any text for a verb. *)
parse_AnyVerb(p, c) == consume(p, c)

(* One turn of the loop of parse(): consume a character and, on a complete *)
(* header, translate it, which throws for a method that is not a verb.     *)
parse(p, c) ==
  LET q == consume(p, c)
  IN  IF q.result = "true" /\ q.req.method \notin VerbLengths
      THEN Returns(q, "throw")
      ELSE q

(* The loop of parse() over a chunk, from the state that the previous call *)
(* left: the parser after each character, and how far it has read.         *)
Turns(s, chunk) ==
  LET after[i \in 0 .. Len(chunk)] ==
        IF i = 0
        THEN [parser |-> [NewParser EXCEPT !.state_ = s], read |-> 0]
        ELSE LET b == after[i - 1]
             IN  IF b.parser.result # "indeterminate"
                 THEN b
                 ELSE [parser |-> parse(b.parser, chunk[i]), read |-> i]
  IN  after

(* One call of parse().  read is header_read_end, as an offset. *)
ParseChunk(s, chunk) == Turns(s, chunk)[Len(chunk)]
-----------------------------------------------------------------------------
(* The types of request_parser.h: header, parser_request, and the parser   *)
(* during a call of parse().                                               *)
HeaderField == [name : Nat, value : Nat]

ParserRequest == [method : Nat, uri : Nat, version : {"unset", "set"},
                  headers : Seq(HeaderField)]

Parser == [state_ : State, req : ParserRequest, result : Result]
-----------------------------------------------------------------------------
(* The states inside a header line, and those before the uri and before    *)
(* the version number.                                                     *)
InHeaderLine == {"header_lws", "header_name", "space_before_header_value",
                 "header_value", "expecting_newline_2"}

BeforeUri == {"method_start", "method"}

BeforeVersion == BeforeUri \cup
  {"uri", "http_version_h", "http_version_t_1", "http_version_t_2",
   "http_version_p", "http_version_slash"}

(* How the request p of the last call and the request w of a single call   *)
(* are related in the middle of a header, the automaton being in state s.  *)
Aligned(s, p, w) ==
  /\ s \in InHeaderLine => w.headers # <<>>
  /\ s \notin BeforeVersion => w.version = "set"
  /\ s = "method_start" <=> w.method = 0
  /\ s \in BeforeUri => /\ p.uri = 0 /\ p.version = "unset" /\ p.headers = <<>>
                        /\ w.uri = 0 /\ w.version = "unset" /\ w.headers = <<>>
  /\ p.method > 0 => /\ p.uri = w.uri
                     /\ p.version = w.version
                     /\ p.headers = w.headers
  /\ p.headers # <<>> => w.headers # <<>>

(* The header was complete, whatever its verb. *)
IsComplete(r) == r \in {"true", "throw"}

(* No line of a header goes on in the next one. *)
Unfolded(text) ==
  \A m \in 1 .. Len(text) - 1 :
    text[m] = "lf" => text[m + 1] \notin {"sp", "ht"}
=============================================================================
