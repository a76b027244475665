------------------------------ MODULE Handlers ------------------------------
(***************************************************************************)
(* What becomes of a request once module Routing has found its handler:    *)
(* the static file handler (static_file_handler.cc) names a file, and the  *)
(* reverse proxy (reverse_proxy_handler.cc, with http_client.cc) forwards  *)
(* the request and rewrites what comes back.  Both were given the normal   *)
(* path of their location, and both read the target as the client sent it. *)
(*                                                                         *)
(* A text is a sequence of characters.  In the body of a response the      *)
(* texts that the proxy looks for are one character each: "href" and "src" *)
(* with = and the quote, "url(" , the quote, and "2f" for the escaped      *)
(* slash.  Of files only their paths are left; no path of the file system  *)
(* that has the name of a target is a symbolic link, or begins with the    *)
(* name behind two slashes.                                                *)
(***************************************************************************)
EXTENDS Routing

SE == INSTANCE SequencesExt

CONSTANTS
  Chars,      \* the characters of each component of a path
  Responses,  \* what the upstream server answers
  NoHeader    \* no Location header

(* The text of a path is put together from that of its components. *)
ASSUME CharsAssumption ==
  /\ Chars \in [Names -> Seq(STRING)]
  /\ Chars[""] = <<>> /\ Chars["."] = <<".">> /\ Chars[".."] = <<".", ".">>

ASSUME ResponsesAssumption ==
  \A resp \in Responses :
    /\ resp.location = NoHeader \/ resp.location \in Path
    /\ resp.body \in Seq(STRING)

VARIABLE exchange  \* the request that a handler is at work on

allvars == <<config, next, location_to_handler_, type_to_handler_,
             handler_to_prefixes_, freed, phase, exchange>>

None == [step |-> "none"]
-----------------------------------------------------------------------------
(* The text of a path: its components, each with a slash in front of it,   *)
(* the first one of a relative path without.                               *)
Slashed(comps) ==
  SE!FlattenSeq([i \in DOMAIN comps |-> <<"/">> \o Chars[comps[i]]])

Text(path) ==
  CASE path.comps = <<>> -> IF path.absolute THEN <<"/">> ELSE <<>>
    [] path.comps # <<>> /\ path.absolute -> Slashed(path.comps)
    [] OTHER -> Tail(Slashed(path.comps))

(* The location of a handler: what convertToAbsolutePath made of it. *)
Location(h) == convertToAbsolutePath(config[h].location)
LocationText(h) == Slashed(Location(h))

Type(h) == config[h].type
IsHandler(h, type) == h \in DOMAIN config /\ Type(h) = type
-----------------------------------------------------------------------------
(* Mutant: the other way round. *)
relative_Swapped(p, loc) ==
  LET common == {n \in 0 .. Len(p) : IsPrefix(SubSeq(p, 1, n), loc)}
      k      == CHOOSE n \in common : \A m \in common : m <= n
  IN  IF loc = <<>> THEN <<>>
      ELSE [i \in 1 .. Len(p) - k |-> ".."] \o SubSeq(loc, k + 1, Len(loc))

(* boost::filesystem::relative of two normal paths: out of loc up to where *)
(* they part, and down again to p.  The location "/" has become the empty  *)
(* path, which has not even its first element in common with p: then the   *)
(* result is empty.                                                        *)
relative(p, loc) ==
  LET common == {n \in 0 .. Len(p) : IsPrefix(SubSeq(p, 1, n), loc)}
      k      == CHOOSE n \in common : \A m \in common : m <= n
  IN  IF loc = <<>> THEN <<>>
      ELSE [i \in 1 .. Len(loc) - k |-> ".."] \o SubSeq(p, k + 1, Len(p))

(* A target with a root-name has nothing in common with the location       *)
(* either.  A relative one is completed when it exists in the working      *)
(* directory, and has not otherwise.                                       *)
Remainders(uri, h) ==
  (IF HasRootName(uri) THEN {}
   ELSE {relative(convertToAbsolutePath(uri), Location(h))})
    \cup (IF uri.absolute /\ ~HasRootName(uri) THEN {} ELSE {<<>>})

(* set_root_path: a slash is put behind the root when it is a directory at *)
(* the time of the constructor.  The root directory itself is the empty    *)
(* path, which is none.                                                    *)
Root(h) == convertToAbsolutePath(config[h].root)
RootIsDirectory(h) == config[h].directory /\ Root(h) # <<>>

(* parse_path_from_uri: the root and the rest of the target.  Without the  *)
(* slash between them the last component of the one and the first of the   *)
(* other are one name (glued); an empty root leaves a relative path.       *)
File(h, rest) ==
  [glued |-> ~RootIsDirectory(h) /\ Root(h) # <<>>,
   path  |-> (IF Root(h) = <<>> THEN Cwd ELSE Root(h)) \o rest]

(* StaticFileRequestHandler::handle_request: 200 or 404, as the file is    *)
(* there or not.                                                           *)
ServeFile(request_uri) ==
  LET h == get_request_handler(request_uri)
  IN  /\ IsHandler(h, "StaticHandler")
      /\ \E rest \in Remainders(request_uri, h) :
           exchange' = [step |-> "file", handler |-> h, uri |-> request_uri,
                        file |-> File(h, rest)]
      /\ UNCHANGED vars
-----------------------------------------------------------------------------
(* Mutant: the location stays in front. *)
proxied_target_Whole(target, location) == target

(* "Remove proxy base path from request path": as many characters as the   *)
(* location has; "/" when nothing is left.                                 *)
proxied_target(target, location) ==
  LET rest == SubSeq(target, Len(location) + 1, Len(target))
  IN  IF rest = <<>> THEN <<"/">> ELSE rest

(* ReverseProxyRequestHandler::handle_request up to perform_request. *)
Forward(request_uri) ==
  LET h == get_request_handler(request_uri)
  IN  /\ IsHandler(h, "ReverseProxyHandler")
      /\ Len(Text(request_uri)) >= Len(LocationText(h))
      /\ exchange' = [step |-> "forwarded", handler |-> h, uri |-> request_uri,
                      target |-> proxied_target(Text(request_uri),
                                                LocationText(h))]
      /\ UNCHANGED vars

(* An exception leaves io_service::run. *)
Crash ==
  /\ phase' = "crashed"
  /\ exchange' = None
  /\ UNCHANGED <<config, next, location_to_handler_, type_to_handler_,
                 handler_to_prefixes_, freed>>

(* substr: the target is shorter than the location. *)
SubstrThrows(request_uri) ==
  LET h == get_request_handler(request_uri)
  IN  /\ IsHandler(h, "ReverseProxyHandler")
      /\ Len(Text(request_uri)) < Len(LocationText(h))
      /\ Crash

(* The handler is looked up with a target that leads above the root. *)
BadTarget(request_uri) ==
  /\ get_request_handler(request_uri) = UB
  /\ Crash

(* perform_request: no such host, no connection, a broken one, or an error *)
(* when it is closed.                                                      *)
UpstreamFails == exchange.step = "forwarded" /\ Crash

(* Mutant: double slashes are not skipped. *)
SkipsDoubleSlash_Not(body, suffix) == FALSE

(* "Skip double-slashes" *)
SkipsDoubleSlash(body, suffix) == suffix <= Len(body) /\ body[suffix] = "/"

(* std::string::find compares: does body have text from pos on? *)
IsAt(body, pos, text) ==
  \A k \in DOMAIN text :
    pos + k - 1 \in DOMAIN body /\ body[pos + k - 1] = text[k]

(* The search comes to the next character: where from is found the         *)
(* location is put in, in front of the separator, unless a second slash    *)
(* follows, and the search goes on behind it.                              *)
Search(at, body, prefix, separator, location) ==
  LET from   == prefix \o separator
      suffix == at.pos + Len(from)
  IN  CASE at.pos > Len(body) -> at
        [] at.pos <= Len(body) /\ ~IsAt(body, at.pos, from) ->
             [pos |-> at.pos + 1,
              new_body |-> Append(at.new_body, body[at.pos])]
        [] OTHER ->
             [pos |-> suffix,
              new_body |-> at.new_body
                             \o IF SkipsDoubleSlash(body, suffix) THEN from
                                ELSE prefix \o location \o separator]

(* The whole loop: as many turns as body has characters are enough. *)
replaced_absolute_paths(body, prefix, separator, location) ==
  LET search[i \in 0 .. Len(body)] ==
        IF i = 0 THEN [pos |-> 1, new_body |-> <<>>]
        ELSE Search(search[i - 1], body, prefix, separator, location)
  IN  search[Len(body)].new_body

prepare_proxied_resp(body, location) ==
  LET hrefs == replaced_absolute_paths(body, <<"href">>, <<"/">>, location)
      srcs  == replaced_absolute_paths(hrefs, <<"src">>, <<"/">>, location)
      urls  == replaced_absolute_paths(srcs, <<"url(", "quote">>, <<"/">>,
                                       location)
  IN  replaced_absolute_paths(urls, <<"url(">>, <<"2f">>, location)

(* The Location header of a redirect, when it begins with a slash. *)
redirect(resp, h) ==
  IF resp.redirect /\ resp.location # NoHeader /\ resp.location.absolute
  THEN [resp.location EXCEPT !.comps = Location(h) \o @]
  ELSE resp.location

(* perform_request returns; the response is rewritten. *)
Reply(resp) ==
  LET h == exchange.handler
  IN  /\ exchange.step = "forwarded"
      /\ exchange' = [step |-> "replied", handler |-> h, upstream |-> resp,
                      location |-> redirect(resp, h),
                      body |-> prepare_proxied_resp(resp.body, LocationText(h))]
      /\ UNCHANGED vars

(* The session takes the response. *)
Respond ==
  /\ exchange.step \in {"file", "replied"}
  /\ exchange' = None
  /\ UNCHANGED vars
-----------------------------------------------------------------------------
HandlersInit == Init /\ exchange = None

HandlersNext ==
  \/ exchange = None /\ Next /\ UNCHANGED exchange
  \/ /\ phase = "serving" /\ exchange = None
     /\ \E request_uri \in Uris :
          \/ ServeFile(request_uri) \/ Forward(request_uri)
          \/ SubstrThrows(request_uri) \/ BadTarget(request_uri)
  \/ UpstreamFails
  \/ \E resp \in Responses : Reply(resp)
  \/ Respond

HandlersSpec == HandlersInit /\ [][HandlersNext]_allvars
-----------------------------------------------------------------------------
(* A static handler serves what is below its root: whatever dots and       *)
(* slashes the target has, the file is the root followed by what the       *)
(* normal target has behind the location.  The location "/" is served the  *)
(* root itself for every target, and so may be a target that is relative   *)
(* or has a root-name.  (For a root that is a directory when the server    *)
(* starts; otherwise names are glued.)                                     *)
StaticStaysBelowRoot ==
  exchange.step = "file" /\ RootIsDirectory(exchange.handler) =>
    LET h      == exchange.handler
        file   == exchange.file
        normal == convertToAbsolutePath(exchange.uri)
    IN  /\ ~file.glued
        /\ \/ /\ Location(h) # <<>>
              /\ file.path = Root(h) \o SubSeq(normal, Len(Location(h)) + 1,
                                               Len(normal))
           \/ /\ \/ Location(h) = <<>>
                 \/ ~exchange.uri.absolute \/ HasRootName(exchange.uri)
              /\ file.path = Root(h)

(* A Location that begins with two slashes names another host. *)
NamesHost(path) == Len(path.comps) >= 2 /\ path.comps[1] = ""

(* Removing the location from a target and putting it in front of a        *)
(* redirect are inverses.  A target that is spelled with the location in   *)
(* front (one that only normalises to a path below it, as /ab/../a for /a, *)
(* loses other characters) is forwarded as a path, and the location in     *)
(* front of it gives the target back.  A redirect to a path of the         *)
(* upstream server stays below the location, and what this handler         *)
(* forwards if it is asked for it is the path that the upstream server     *)
(* named; a Location that is no path is left alone.  (One that names       *)
(* another host with two slashes is not: the location is put in front.)    *)
ProxyIsTransparent ==
  LET h        == exchange.handler
      location == LocationText(h)
      target   == Text(exchange.uri)
      named    == exchange.upstream.location
      followed == exchange.location
  IN
  /\ exchange.step = "forwarded" /\ exchange.uri.absolute
                                 /\ IsPrefix(Location(h), exchange.uri.comps) =>
       /\ exchange.target[1] = "/"
       /\ \/ location \o exchange.target = target
          \/ location = target /\ exchange.target = <<"/">>
  /\ exchange.step = "replied" =>
       IF exchange.upstream.redirect /\ named # NoHeader /\ named.absolute
       THEN NamesHost(named) \/
            /\ IsPrefix(location, Text(followed))
            /\ proxied_target(Text(followed), location) = Text(named)
       ELSE followed = named

(* The places of a body where a link to an absolute path begins: a slash   *)
(* behind href=", src=" or url(", or an escaped one behind url(, with no   *)
(* second slash after it.                                                  *)
LinksBehind(body, prefix, slash) ==
  {i \in DOMAIN body : /\ i > Len(prefix)
                       /\ IsAt(body, i - Len(prefix), prefix)
                       /\ body[i] = slash
                       /\ i < Len(body) => body[i + 1] # "/"}

Links(body) ==
  LinksBehind(body, <<"href">>, "/") \cup LinksBehind(body, <<"src">>, "/")
    \cup LinksBehind(body, <<"url(", "quote">>, "/")
    \cup LinksBehind(body, <<"url(">>, "2f")

(* body with the location put in at some places. *)
Inserted(body, places, location) ==
  SE!FlattenSeq([i \in DOMAIN body |->
    IF i \in places THEN Append(location, body[i]) ELSE <<body[i]>>])

(* "Rewrite common absolute paths in body to work with proxy": after the   *)
(* four passes every such link has the location in front of it once, and   *)
(* nothing else is changed, a link to another host least of all.  (If the  *)
(* location has none of the texts that are looked for in it: what an       *)
(* earlier pass put in would be rewritten by a later one.)                 *)
LinksRewrittenOnce ==
  exchange.step = "replied" =>
    LET body     == exchange.upstream.body
        location == LocationText(exchange.handler)
    IN  (\A i \in DOMAIN location : location[i] \notin {"href", "src", "url("})
          => exchange.body = Inserted(body, Links(body), location)
-----------------------------------------------------------------------------
(* What the proofs of module RoutingProofs need besides: requests are      *)
(* handled only while the server serves, by handlers of the registry.      *)
ExchangeIsServed ==
  /\ exchange.step \in {"none", "file", "forwarded", "replied"}
  /\ exchange.step = "none" => exchange = None
  /\ exchange.step # "none" => /\ phase = "serving"
                               /\ exchange.handler \in DOMAIN config
                               /\ Location(exchange.handler) \in Seq(Names)
  /\ exchange.step \in {"file", "forwarded"} => exchange.uri \in Path

(* The inductive invariant of the handlers. *)
HandlersIInv ==
  /\ IInv
  /\ ExchangeIsServed
  /\ StaticStaysBelowRoot
  /\ ProxyIsTransparent
  /\ LinksRewrittenOnce
=============================================================================
