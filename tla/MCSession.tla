----------------------------- MODULE MCSession -----------------------------
(***************************************************************************)
(* Model checking Session.  Header names: one character is Content-Length, *)
(* two any other.  Its values: one character is 0, two is a number, three  *)
(* is no number.  Targets of up to two characters have a handler, those of *)
(* three have none, and the handler of longer ones throws.                 *)
(***************************************************************************)
EXTENDS Session

MCVerbLengths == {1, 2}

MCStoi(v) == CASE v = 1 -> 0 [] v = 2 -> 2 [] OTHER -> -1

MCRoute(u) ==
  CASE u <= 2 -> "echo" [] u = 3 -> "NULL" [] OTHER -> "proxy"

Repeat(c, n) == [i \in 1 .. n |-> c]

Line(name, value) ==
  Repeat("tok", name) \o <<":", "sp">> \o Repeat("digit", value)
    \o <<"cr", "lf">>

Text(method, uri, lines) ==
  Repeat("tok", method) \o <<"sp">> \o Repeat("/", uri) \o <<"sp">>
    \o <<"H", "T", "T", "P", "/", "digit", ".", "digit", "cr", "lf">>
    \o lines \o <<"cr", "lf">>

Get(uri) == [text |-> Text(1, uri, <<>>), body |-> 0]
Post(uri) == [text |-> Text(2, uri, Line(1, 2)), body |-> 2]
BadLength == [text |-> Text(1, 1, Line(1, 3)), body |-> 0]
Malformed == [text |-> <<"tok", "ctl">>, body |-> 0]
UnknownVerb == [text |-> Text(3, 1, <<>>), body |-> 0]

(* Every pair of requests that is answered, and a few longer streams. *)
Answered == {Get(1), Get(3), Post(2), BadLength, Malformed}

MCSerial ==
  {<<a, b>> : a \in Answered, b \in Answered}
    \cup {<<Post(2), Post(1), Get(1)>>, <<Post(1), Malformed, Post(2)>>,
          <<UnknownVerb>>, <<Get(4)>>, <<Post(4)>>}

(* A stream for a client that does not wait, and all streams. *)
MCHasty == {<<Post(1), Get(1)>>}

MCStreams == MCSerial \cup MCHasty
=============================================================================
