----------------------------- MODULE MCRouting -----------------------------
(***************************************************************************)
(* Model checking Routing and Handlers: every configuration of up to three *)
(* blocks over a few locations (one of them twice, one relative, one       *)
(* unknown type), and every target of up to three components; a few        *)
(* configurations with static files and proxies.                           *)
(***************************************************************************)
EXTENDS Handlers

Abs(comps) == [absolute |-> TRUE, comps |-> comps]
Rel(comps) == [absolute |-> FALSE, comps |-> comps]

Locations == {Abs(<<>>), Abs(<<"a">>), Abs(<<"a", "b", "">>),
              Abs(<<"b", "..", "a">>), Rel(<<".">>), Abs(<<"a", "..", "..">>)}

Block(type, location) ==
  [type |-> type, location |-> location, values |-> 0, root |-> Abs(<<>>),
   directory |-> FALSE]

Blocks == {Block(t, l) : t \in {"EchoHandler", "StatusHandler"}, l \in Locations}
            \cup {Block("FooHandler", Abs(<<"a">>))}

SeqsUpTo(S, n) == UNION {[1 .. k -> S] : k \in 0 .. n}

Proxy(location) ==
  [Block("ReverseProxyHandler", location) EXCEPT !.values = 1]
Static(location, root, directory) ==
  [Block("StaticHandler", location) EXCEPT
     !.values = 1, !.root = root, !.directory = directory]

FilesAndProxies ==
  {<<Proxy(Abs(<<>>))>>,
   <<Proxy(Abs(<<"a">>)), Proxy(Rel(<<"b">>))>>,
   <<Proxy(Abs(<<"b">>)), Static(Abs(<<"a">>), Rel(<<"r", "..", "s">>), TRUE)>>,
   <<Proxy(Abs(<<"b", "">>)), Block("EchoHandler", Abs(<<"b", "a">>))>>,
   <<Static(Abs(<<"a">>), Abs(<<"r">>), FALSE)>>,
   <<Static(Abs(<<>>), Abs(<<>>), TRUE), Static(Abs(<<"b">>), Abs(<<"r">>), TRUE)>>,
   <<Static(Abs(<<>>), Abs(<<"r">>), TRUE)>>,
   <<Static(Abs(<<>>), Abs(<<"..">>), TRUE)>>,
   <<Block("MemeHandler", Abs(<<"a">>))>>,
   <<Block("ReverseProxyHandler", Abs(<<"a">>))>>}

MCConfigs == SeqsUpTo(Blocks, 2)
               \cup [1 .. 3 -> {b \in Blocks : b.type = "EchoHandler"}]
               \cup FilesAndProxies

MCUris ==
  {[absolute |-> f, comps |-> s] :
     f \in BOOLEAN, s \in SeqsUpTo({"a", "b", "..", "."}, 3)}
    \cup {Abs(<<"a", "", "b">>), Abs(<<"a", "b", "">>), Abs(<<"", "b">>),
          Abs(<<"", "">>), Abs(<<"", "a", "b">>), Abs(<<"", "", "a">>),
          Abs(<<"ab">>), Abs(<<"ab", "..", "a">>)}

MCCwd == <<"a">>

MCNames == {"", ".", "..", "a", "b", "ab", "r", "s"}

MCChars == [dir \in MCNames |->
              CASE dir = "" -> <<>> [] dir = ".." -> <<".", ".">>
                [] dir = "ab" -> <<"a", "b">> [] OTHER -> <<dir>>]

(* Pieces of a page. *)
Pieces == {<<"href", "/", "x">>, <<"src", "/", "/", "x">>, <<"quote", "/">>,
           <<"url(", "quote", "/", "x">>, <<"url(", "2f">>, <<"url(", "/">>}
Bodies == SeqsUpTo({"href", "src", "url(", "quote", "2f", "/"}, 3)
            \cup {p \o q : p \in Pieces, q \in Pieces}

MCResponses ==
  [redirect : {FALSE}, location : {NoHeader}, body : Bodies]
    \cup [redirect : BOOLEAN, body : {<<>>},
          location : {NoHeader, Abs(<<"">>), Abs(<<"a">>), Abs(<<"b", "..">>),
                      Abs(<<"", "b">>), Rel(<<"a">>)}]
=============================================================================
