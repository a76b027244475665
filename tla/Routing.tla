------------------------------ MODULE Routing ------------------------------
(***************************************************************************)
(* How a request finds its handler: getHandlers and create_and_add_handler *)
(* of server.cc fill the registry from the location blocks of the config,  *)
(* get_request_handler looks a target up, and ~server frees the handlers.  *)
(* Both sides normalise their path with convertToAbsolutePath (utils.cc).  *)
(*                                                                         *)
(* A path is the sequence of its components, as they stand between the     *)
(* slashes ("" where two slashes meet); a handler is the number of the     *)
(* location block that created it.  A block has a location, a type, and    *)
(* the number of values that its handler's constructor finds in it (root;  *)
(* or host and port, the smaller number), with the root, and whether that  *)
(* is a directory.  Enclosing quotes are left out.                         *)
(***************************************************************************)
EXTENDS Naturals, Sequences, FiniteSets

CONSTANTS
  Names,          \* the components of paths
  Configs,        \* the configurations: sequences of location blocks
  handler_types,  \* the handler types the server knows
  Uris,           \* the request targets
  Cwd,            \* the working directory, as components
  NULL, UB        \* the null pointer, and undefined behaviour

(* A path, and a location block. *)
Path == [absolute : BOOLEAN, comps : Seq(Names)]

LocationBlock == [type : STRING, location : Path, values : Nat, root : Path,
                  directory : BOOLEAN]

ASSUME RoutingAssumption ==
  /\ Configs \subseteq Seq(LocationBlock) /\ Uris \subseteq Path
  /\ Cwd \in Seq(Names)
  /\ NULL \notin Nat /\ UB \notin Nat \cup Seq(Names) /\ NULL # UB
  /\ "Bad" \notin handler_types /\ "Unknown" \notin handler_types

VARIABLES
  config,                \* the location blocks
  next,                  \* the block that getHandlers looks at next
  location_to_handler_,  \* from normal path to handler
  type_to_handler_,      \* the handlers of each type
  handler_to_prefixes_,  \* the locations of each type, as configured
  freed,                 \* history: how often each handler was deleted
  phase                  \* "loading", "serving", "destroyed" or "crashed"

vars == <<config, next, location_to_handler_, type_to_handler_,
          handler_to_prefixes_, freed, phase>>
-----------------------------------------------------------------------------
(* Boost takes //name for a root-name, and // alone: what follows it is    *)
(* the root-directory, if anything does.                                   *)
HasRootName(path) ==
  /\ path.absolute /\ Len(path.comps) >= 2
  /\ path.comps[1] = ""
  /\ path.comps[2] # "" \/ Len(path.comps) = 2

HasRootDirectory(path) ==
  path.absolute /\ ~(HasRootName(path) /\ Len(path.comps) = 2)

(* boost::filesystem::system_complete: a path without a root-directory is  *)
(* one under the working directory, but the empty path stays empty.        *)
system_complete(path) ==
  IF HasRootDirectory(path) \/ path.comps = <<>> THEN path.comps
  ELSE Cwd \o path.comps

(* Mutant: empty components are kept. *)
Simplify_KeepsEmpty(path_comps, dir) ==
  CASE path_comps = UB -> UB
    [] path_comps # UB /\ dir = ".." ->
         IF path_comps = <<>> THEN UB
         ELSE SubSeq(path_comps, 1, Len(path_comps) - 1)
    [] path_comps # UB /\ dir = "." -> path_comps
    [] OTHER -> Append(path_comps, dir)

(* One turn of the loop over the components.  pop_back of an empty vector  *)
(* is undefined.                                                           *)
Simplify(path_comps, dir) ==
  CASE path_comps = UB -> UB
    [] path_comps # UB /\ dir = ".." ->
         IF path_comps = <<>> THEN UB
         ELSE SubSeq(path_comps, 1, Len(path_comps) - 1)
    [] path_comps # UB /\ dir \in {".", ""} -> path_comps
    [] OTHER -> Append(path_comps, dir)

convertToAbsolutePath(path) ==
  LET full == system_complete(path)
      after[i \in 0 .. Len(full)] ==
        IF i = 0 THEN <<>> ELSE Simplify(after[i - 1], full[i])
  IN  after[Len(full)]

(* Mutant: the shortest prefix is taken. *)
get_request_handler_Shortest(request_uri) ==
  LET uri == convertToAbsolutePath(request_uri)
      found == {n \in 0 .. Len(uri) :
                  SubSeq(uri, 1, n) \in DOMAIN location_to_handler_}
  IN  IF uri = UB THEN UB
      ELSE IF found = {} THEN NULL
      ELSE location_to_handler_[
             SubSeq(uri, 1, CHOOSE n \in found : \A m \in found : n <= m)]

(* get_request_handler: try the path, then each of its parents; the root   *)
(* directory itself is the key "", here <<>>.                              *)
get_request_handler(request_uri) ==
  LET uri == convertToAbsolutePath(request_uri)
      from[n \in 0 .. Len(uri)] ==
        LET path == SubSeq(uri, 1, n)
        IN  IF path \in DOMAIN location_to_handler_
            THEN location_to_handler_[path]
            ELSE IF n = 0 THEN NULL ELSE from[n - 1]
  IN  IF uri = UB THEN UB ELSE from[Len(uri)]

(* Mutant: only the first handler of a type is known. *)
get_handler_type_First(ptr) ==
  LET types == {t \in handler_types : /\ type_to_handler_[t] # <<>>
                                      /\ type_to_handler_[t][1] = ptr}
  IN  IF ptr = NULL THEN "Bad"
      ELSE IF types = {} THEN "Unknown"
      ELSE CHOOSE t \in types : TRUE

(* get_handler_type: the type that a handler is registered under. *)
get_handler_type(ptr) ==
  LET types == {t \in handler_types :
                  \E i \in DOMAIN type_to_handler_[t] :
                     type_to_handler_[t][i] = ptr}
  IN  IF ptr = NULL THEN "Bad"
      ELSE IF types = {} THEN "Unknown"
      ELSE CHOOSE t \in types : TRUE
-----------------------------------------------------------------------------
Init ==
  /\ config \in Configs
  /\ next = 1
  /\ location_to_handler_ = <<>>
  /\ type_to_handler_ = [t \in handler_types |-> <<>>]
  /\ handler_to_prefixes_ = [t \in handler_types |-> <<>>]
  /\ freed = [h \in DOMAIN config |-> 0]
  /\ phase = "loading"

(* The constructors that look for a value in their block.  When there is   *)
(* none they log that, and take values[0].  The static handler normalises  *)
(* its root.                                                               *)
NeedsValue == {"StaticHandler", "ReverseProxyHandler", "MemeHandler"}
Constructs(block) ==
  /\ block.type \in NeedsValue => block.values > 0
  /\ block.type = "StaticHandler" => convertToAbsolutePath(block.root) # UB

(* getHandlers meets a block of a type it knows. *)
create_and_add_handler ==
  /\ phase = "loading" /\ next \in DOMAIN config
  /\ LET block == config[next]
         loc   == convertToAbsolutePath(block.location)
     IN  /\ block.type \in handler_types
         /\ loc # UB
         /\ Constructs(block)
         /\ handler_to_prefixes_' =
              [handler_to_prefixes_ EXCEPT
                 ![block.type] = Append(@, block.location)]
         /\ location_to_handler_' =
              [p \in DOMAIN location_to_handler_ \cup {loc} |->
                 IF p = loc THEN next ELSE location_to_handler_[p]]
         /\ type_to_handler_' =
              [type_to_handler_ EXCEPT ![block.type] = Append(@, next)]
  /\ next' = next + 1
  /\ UNCHANGED <<config, freed, phase>>

(* Mutant: the block after it is skipped too. *)
SkipBlock_Two ==
  /\ phase = "loading" /\ next \in DOMAIN config
  /\ config[next].type \notin handler_types
  /\ next' = next + 2
  /\ UNCHANGED <<config, location_to_handler_, type_to_handler_,
                 handler_to_prefixes_, freed, phase>>

(* getHandlers meets a block of a type that does not exist: it is logged. *)
SkipBlock ==
  /\ phase = "loading" /\ next \in DOMAIN config
  /\ config[next].type \notin handler_types
  /\ next' = next + 1
  /\ UNCHANGED <<config, location_to_handler_, type_to_handler_,
                 handler_to_prefixes_, freed, phase>>

(* A location that leads above the root directory. *)
BadLocation ==
  /\ phase = "loading" /\ next \in DOMAIN config
  /\ config[next].type \in handler_types
  /\ convertToAbsolutePath(config[next].location) = UB
  /\ phase' = "crashed"
  /\ UNCHANGED <<config, next, location_to_handler_, type_to_handler_,
                 handler_to_prefixes_, freed>>

(* values[0] of no values, or a root that leads above the root directory. *)
MissingValue ==
  /\ phase = "loading" /\ next \in DOMAIN config
  /\ config[next].type \in handler_types
  /\ convertToAbsolutePath(config[next].location) # UB
  /\ ~Constructs(config[next])
  /\ phase' = "crashed"
  /\ UNCHANGED <<config, next, location_to_handler_, type_to_handler_,
                 handler_to_prefixes_, freed>>

Serve ==
  /\ phase = "loading" /\ next \notin DOMAIN config
  /\ phase' = "serving"
  /\ UNCHANGED <<config, next, location_to_handler_, type_to_handler_,
                 handler_to_prefixes_, freed>>

(* Mutant: the handlers of type_to_handler_ are deleted as well. *)
Destroy_ByTypeToo ==
  /\ phase = "serving"
  /\ phase' = "destroyed"
  /\ freed' = [h \in DOMAIN freed |->
                 freed[h] + 1
                   + Cardinality({p \in DOMAIN location_to_handler_ :
                                    location_to_handler_[p] = h})]
  /\ UNCHANGED <<config, next, location_to_handler_, type_to_handler_,
                 handler_to_prefixes_>>

(* ~server: delete the handler of every entry of location_to_handler_. *)
Destroy ==
  /\ phase = "serving"
  /\ phase' = "destroyed"
  /\ freed' = [h \in DOMAIN freed |->
                 freed[h] + Cardinality({p \in DOMAIN location_to_handler_ :
                                           location_to_handler_[p] = h})]
  /\ UNCHANGED <<config, next, location_to_handler_, type_to_handler_,
                 handler_to_prefixes_>>

Next ==
  \/ create_and_add_handler \/ SkipBlock \/ BadLocation \/ MissingValue
  \/ Serve \/ Destroy

Spec == Init /\ [][Next]_vars
-----------------------------------------------------------------------------
(* Type invariant. *)
TypeOK ==
  /\ config \in Configs
  /\ next \in 1 .. Len(config) + 1
  /\ \A p \in DOMAIN location_to_handler_ :
       location_to_handler_[p] \in DOMAIN config
  /\ type_to_handler_ \in [handler_types -> Seq(DOMAIN config)]
  /\ handler_to_prefixes_ \in [handler_types -> Seq(Path)]
  /\ \A t \in handler_types : Len(handler_to_prefixes_[t])
                                = Len(type_to_handler_[t])
  /\ freed \in [DOMAIN config -> Nat]
  /\ phase \in {"loading", "serving", "destroyed", "crashed"}

(* What a normal path is: a component of the full path is in it when it is *)
(* a name that no later ".." takes back, which is so when up to every      *)
(* later place the names from it on outnumber the ".."s.                   *)
IsName(dir) == dir \notin {"..", ".", ""}

Kept(full) ==
  {i \in DOMAIN full :
     /\ IsName(full[i])
     /\ \A j \in i .. Len(full) :
          Cardinality({k \in i .. j : IsName(full[k])})
            > Cardinality({k \in i .. j : full[k] = ".."})}

(* For every configured location and every target, convertToAbsolutePath   *)
(* keeps exactly those components, in their order, and goes wrong exactly  *)
(* on a path that leads above the root directory.                          *)
NormalisedRight ==
  next = 1 =>
  \A path \in Uris \cup {config[i].location : i \in DOMAIN config} :
    LET full   == system_complete(path)
        normal == convertToAbsolutePath(path)
    IN  IF \E j \in DOMAIN full :
             Cardinality({k \in 1 .. j : IsName(full[k])})
               < Cardinality({k \in 1 .. j : full[k] = ".."})
        THEN normal = UB
        ELSE
          /\ Len(normal) = Cardinality(Kept(full))
          /\ \A i \in Kept(full) :
               normal[Cardinality({k \in Kept(full) : k <= i})] = full[i]

IsPrefix(p, q) == Len(p) <= Len(q) /\ p = SubSeq(q, 1, Len(p))

(* The blocks that a target lies under, by their normal paths. *)
Matches(uri) ==
  {i \in DOMAIN config :
     /\ config[i].type \in handler_types
     /\ IsPrefix(convertToAbsolutePath(config[i].location), uri)}

(* server.cc, get_request_handler: "prioritizing longest path prefix".  A  *)
(* request goes to the deepest location it lies under, to the last of the  *)
(* blocks that name that location, and to no handler when it lies under    *)
(* none.                                                                   *)
LongestPrefixWins ==
  phase = "serving" =>
    \A request_uri \in Uris :
      LET uri == convertToAbsolutePath(request_uri)
          depth(i) == Len(convertToAbsolutePath(config[i].location))
          h   == get_request_handler(request_uri)
      IN  uri # UB =>
            IF Matches(uri) = {} THEN h = NULL
            ELSE /\ h \in Matches(uri)
                 /\ \A i \in Matches(uri) :
                      depth(i) < depth(h) \/ (depth(i) = depth(h) /\ i <= h)

(* get_handler_type finds every handler that get_request_handler can       *)
(* answer with, under the type of the block that created it, however many  *)
(* blocks share a type or a location.  (Not so for the pointer that a      *)
(* session has before its first request is routed.)                        *)
TypeIsConfigured ==
  \A p \in DOMAIN location_to_handler_ :
    LET h == location_to_handler_[p]
    IN  get_handler_type(h) = config[h].type

(* However often a location is configured, ~server deletes no handler      *)
(* twice, and one that requests were routed to exactly once.               *)
FreedOnce ==
  /\ \A h \in DOMAIN freed : freed[h] <= 1
  /\ phase = "destroyed" =>
       \A p \in DOMAIN location_to_handler_ : freed[location_to_handler_[p]] = 1

(* server.cc, get_request_handler: "If neither valid echo nor valid static *)
(* file roots are found, return null."  Every target gets a handler of the *)
(* registry or null.                                                       *)
RouteIsDefined ==
  phase = "serving" =>
    \A request_uri \in Uris :
      get_request_handler(request_uri) \in DOMAIN config \cup {NULL}
-----------------------------------------------------------------------------
(* What the proofs of module RoutingProofs need besides.                   *)

(* A block that create_and_add_handler has been given is found under its   *)
(* location, unless a later one of the same location is, and under its     *)
(* type, and its constructor found what it looks for.                      *)
BlocksAreRegistered ==
  \A i \in 1 .. next - 1 :
    LET block == config[i]
        loc   == convertToAbsolutePath(block.location)
    IN  block.type \in handler_types =>
          /\ loc # UB /\ Constructs(block)
          /\ loc \in DOMAIN location_to_handler_
          /\ i <= location_to_handler_[loc]
          /\ \E k \in DOMAIN type_to_handler_[block.type] :
               type_to_handler_[block.type][k] = i

(* The registry has nothing else: every handler in it stands for a block,  *)
(* and no two paths lead to the same handler.                              *)
RegistryIsOfBlocks ==
  /\ \A p \in DOMAIN location_to_handler_ :
       LET h == location_to_handler_[p]
       IN  /\ h \in 1 .. next - 1
           /\ config[h].type \in handler_types
           /\ p = convertToAbsolutePath(config[h].location)
           /\ p # UB
  /\ \A t \in handler_types : \A k \in DOMAIN type_to_handler_[t] :
       config[type_to_handler_[t][k]].type = t

(* Requests are served when all blocks have been met, and handlers deleted *)
(* only at the end.                                                        *)
InOrder ==
  /\ phase \in {"serving", "destroyed"} => next = Len(config) + 1
  /\ phase # "destroyed" => \A h \in DOMAIN freed : freed[h] = 0

(* The inductive invariant of the registry. *)
IInv ==
  /\ TypeOK
  /\ BlocksAreRegistered
  /\ RegistryIsOfBlocks
  /\ InOrder
  /\ FreedOnce
=============================================================================
