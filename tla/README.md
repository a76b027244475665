# A verification project for the aite web server

TLA+ modules of the server's core, the TLC configurations that check them on
small instances, and theorems that TLAPS proves for every instance. Paths are
relative to the repository (`src/session.cc` is the repository's file).

## The system

`server_main.cc` parses a config file and runs a `server`: a pool of threads,
all in `io_service::run`, that accept connections, read HTTP requests, find
the handler whose location is the longest prefix of the target, and write its
response. The connection is kept open for the next request.

| component | state | operations | interacts with |
|---|---|---|---|
| request parser (`request_parser.cc`) | `state_`; the request text is local to one call | `parse`, `consume`, `translate`, `reset` | called by the session for every chunk |
| session (`session.cc`, `tcp_socket_wrapper.h`) | `request_`, `response_`, `request_handler_`, `data_`, `body_data` | `start`, `read_header`, `handle_read_header`, `read_body`, `handle_read_body`, `write`, `handle_write` | parser, registry, handlers, `log_request` under `mtx_` |
| server and pool (`server.cc`, `server_main.cc`) | threads, `mtx_`, `requests_`, the acceptor | `run`, `start_accept`, `handle_accept`, `log_request`, `get_requests`, `handle_stop`, `~server` | every session |
| registry and routing (`server.cc`, `utils.cc`) | `location_to_handler_`, `type_to_handler_`, `handler_to_prefixes_` | `getHandlers`, `create_and_add_handler`, `get_request_handler`, `get_handler_type`, `convertToAbsolutePath` | filled from the config, read by sessions |
| config parser (`config_parser.cc`, `utils.cc`) | the stack of blocks, the last token type, the bracket counter | `ParseToken`, `Parse`, `configLookup`, `getPortNumber` | its tree goes to the server and the handlers |
| meme handler (`handlers/meme_handler.cc`) | the server's `memes_`, the files in `./memes/imgs` | `generate_meme` with `parse`, `browse_memes`, `create_meme`; `log_meme`, `get_memes`, `~server` | every thread, and the process before and after |
| reverse proxy (`handlers/reverse_proxy_handler.cc`, `http_client.cc`) | location, host, port | `handle_request`, `replaced_absolute_paths`, `prepare_proxied_resp`, `perform_request` | registry, upstream server |
| static files (`handlers/static_file_handler.cc`) | location, root | `set_root_path`, `parse_path_from_uri`, `handle_request` | registry, file system |
| other handlers (`handlers/`) | none; status reads `requests_` | `handle_request` | the server's maps |

What is hard here: the threads interleave the handlers of all sessions without
strands, and one piece of `write()` runs after the operation that lets another
thread continue the session; TCP cuts headers and bodies anywhere; exceptions
in a handler leave `io_service::run` and end the process; connections break
and SIGINT arrives at any moment; files outlive the process and the map that
names them does not; two pieces of code normalise the same target in two ways.
`PROJECT.json` lists the hazards by line.

What makes each component correct:

- parser: the verdict and the parsed request do not depend on how the header
  was cut; no undefined behaviour.
- session: every request of a waiting client is answered, in order, as if it
  were alone, but for letters of its verb; a handler gets exactly the body that
  follows the header.
- pool: one thread at a time per session; every response logged once; one
  accept outstanding; a signal ends the process after all threads have left.
- routing: the deepest location wins; every handler is freed once.
- config parser: statements are kept apart, brackets balance, the parser ends.
- meme form: accepted exactly when it has four parts, and each part is kept to
  the byte. Meme store: files and entries agree, through races and crashes.
- static files: no target leaves the root. Proxy: what it takes from targets
  it gives to redirects and links, once.

## Modules

| module | models | runs |
|---|---|---|
| `RequestParser` | the parser as operators: `consume`, `parse` (one turn of the loop), `ParseChunk` (one call), `translate` | – |
| `ParseCalls` | one header delivered in several calls of `parse()`, beside the same header in one call (`whole`) | `parser_*` |
| `RequestParserProofs` | what one call of `parse()` does, and what a cut changes in it: lemmas for `ParseCallsProofs` and `SessionProofs` | – |
| `ParseCallsProofs` | theorems about `ParseCalls` | – |
| `Session` | one connection, byte by byte; extends `RequestParser` | `session_*` |
| `SessionProofs` | theorems about `Session` | – |
| `Server` | threads, sessions, log, accept chain, shutdown | `server_*` |
| `ResponseLedger` | what the log promises: abstract specification implemented by `Server` (`IsLedger`) | `server_pool` |
| `ServerProofs` | theorems about `Server` | – |
| `Routing` | registry, lookup, path normalisation, destruction | `routing*` |
| `Handlers` | what static handler and proxy do with the requests that `Routing` gives them; extends `Routing` | `routing*` |
| `RoutingProofs` | theorems about `Routing` and `Handlers` | – |
| `ConfigParser` | tokeniser, parser, lookups | `config_*` |
| `ConfigParserProofs` | theorems about `ConfigParser` | – |
| `MemeForm` | the checks of an upload and its multipart parser, line by line | `meme_form` |
| `MemeStore` | image files, `memes_` and the pages, over starts and ends of the process | `meme_store` |
| `MemeHandlerProofs` | theorems about `MemeForm` and `MemeStore` | – |
| `DataInduction` | induction over numbers and finite sets, and sums, for the proofs | – |
| `MC*` | values for the constants | – |

An operator with a suffix (`Exit_Unjoined`) is a mutant: a wrong version of
the definition that follows it. No specification uses it; it shows that a
property notices the mistake.

### ParseCalls and RequestParser

A character is its class (15 classes, those that `consume` tells apart) and a
text its length. `state_` survives from call to call, `req_` does not: in the
code it is a local of `parse()`. The version numbers are "unset" until the `/`
of `HTTP/` zeroes them. `translate` throws for a method that is not a verb:
`VerbLengths` says which lengths are verbs, and 0 never is. `crash` is
`headers.back()` of an empty vector. `ParseNextChunk` is the session's next
call; `Reset` what `handle_write` does before the next request.

### Session

`op` is the asynchronous operation outstanding: an action is its completion
handler from start to end. `handle_read_header` is the disjunction of its paths
(`ReadRemainingHeader`, `ParserThrows`, `BadHeader`, `NoHandler`, `Complete`,
`NeedsBody`), for every size that `read_some` may deliver. The bytes of a body
are their places in the stream, so that equality of bodies is equality of
bytes. `body_data` is the streambuf of `read_body`: all that it holds is
appended to the body, and `handle_write` consumes it. A verb is its length.
`request_handler_` starts with any value, as it is not initialised.
`request_.clear()` leaves the target. `cut` is history: the call of `parse()`
that completed the header began inside the verb. `EndpointThrows` is
`remote_endpoint()` throwing in the log line that begins a completion handler.
The client of a `Hasty` stream does not wait for its answers.

`AnswersInOrder` compares every answer with that of the request alone, in one
chunk (`Alone`). It is said of streams in which client and parser see the same
requests (`Framed`): a header line that is folded is refused when a cut comes
before the fold; the bytes that follow a header refused half-way, or a body
whose request has no handler, are taken for the next request. A cut inside the
verb loses the letters in front of it. What is left may be no verb: then
`parse()` throws, and there is no answer. Or it is one, as LOCK is of UNLOCK and
GET of XGET: then the handler is given that verb, and what it answers (the echo
handler repeats the verb, the meme handler asks for POST) is not what the
request would get alone, even if alone it would get nothing. So `VerbSeen` has
the verb apart from the rest: it is the one sent if no read ended inside it, and
otherwise a proper ending of it.

### Server

Requests arrive whole here. A thread is idle (in `io_service::run`), parsing,
handling, in the tail of `write()` (the asynchronous write is started, `mtx_`
not yet locked), logging (inside `log_request`), or exited. The handlers are
cut exactly where two threads can meet; what touches only the session that the
thread owns is one action. `Lock` reads `request_` and `response_` as they
are then; when another thread is parsing into `request_` the read is a data
race, and the outcome any target or the end of the process (`TargetFreed`).
`RequestFails` covers a handler that throws and the status handler's unlocked
copy of `requests_` while another thread logs. `EndpointThrows` is a log line at
the begin of a completion handler, `WriteThrows` that of `write()`, on a
connection that has broken meanwhile. `Terminate` ends everything.

`asking` is what a client has sent and not been answered; `begun` and `served`
are history.

### Routing

A path is the sequence of the components between its slashes, a handler the
number of the location block that created it. `convertToAbsolutePath` folds
`Simplify` over the components; `UB` is `pop_back` of an empty vector. Two
slashes and a name are a root-name for Boost: with nothing behind it such a
path has no root-directory, and `system_complete` puts it under the working
directory. The enclosing quotes that it strips are left out. A block says how
many values its constructor finds: with none, `values[0]` ends the process
(`MissingValue`).

### Handlers

`Handlers` adds one variable, `exchange`: the request that a handler is at
work on. The actions are the handlers' `handle_request`, cut where the proxy
waits for the upstream server: `ServeFile`; `Forward`, then `Reply` or
`UpstreamFails` (`perform_request` throws and nobody catches); `Respond`.
Here the text of a path matters: the proxy cuts as many characters from the
target as its normal location has, whatever the client wrote. In a body the
words that the proxy looks for are one character each, so `url(` followed by a
quote is two. `Search` is one turn of the loop in `replaced_absolute_paths`:
it copies a character, or the text that was found with the location or
without. `Links` and `Inserted` say independently where the links of a body
are and what the body looks like with the location put in there.

`File` has the three things that `root + relative(...)` may be: a path below
the root; the root's last name and the next one glued together, when the root
was no directory at the start; a path in the working directory, when the root
is `/`, whose normal form is empty. `relative` answers with the empty path where
target and location have no first element in common: always for the location
`/`, which is passed on as the empty text, and possibly for relative targets and
those with a root-name. Then the root itself is opened. Symbolic links are left out.

### MemeForm

A line is its kind (seven kinds, those that `parse()` and the two regular
expressions tell apart) and a text the places of its lines in the body, so
that equal texts are equal bytes. `Getline` is what every turn of the loop in
`parse()` does; `HeaderLine`, `HeaderEnds`, `BodyLine` and `Boundary` are its
branches; `NextPart` the return of one call and the begin of the next.

### MemeStore

A thread is at one of the places where another thread, a crash or an error can
come between: in front of the file, with the file open, behind it, inside
`log_meme`, behind it, inside the copy that `get_memes` makes, rendering. Two
threads inside `log_meme` at once make the map corrupt; a copy beside a write
is tainted; then entries may be lost, the process may die (`MapFails`) or the
thread run in circles (`MapHangs`). `OpenFails` and `WriteFails` are the errors
that `ofstream` keeps to itself. An upload is named by its uuid, which is part
of the key in `memes_`; `file` says which file its name leads to. That is one
of its own, or, because the name ends in the client's text behind `image/`,
that of any other upload or one of `Outside`, outside `./memes/imgs` (`Paths`).
The constructor has three ends (`Start`, `StartThrows`, `StartWithoutPort`),
the process two (`Destroy` after the join, or `Crash`). `used`, `failed`,
`accepted`, `promised` and `leftover` are history.

### ConfigParser

`ParseToken` takes one character per action, with `ungot` for `unget()`; the
actions `ParseNormal`, `ParseQuoted`, `ParseStatementEnd`, `ParseStartBlock`,
`ParseEndBlock` and `Eof` are the branches of `Parse`. A token is a word (its
length matters only at the end of the file, where one character is no token)
or a quoted string. The tree is kept flat: every statement has the number of
the block it is in, and `live` becomes false when its block is freed.
`group`, `seen` and `stray` are history. `AcceptedIsComplete` counts the tokens
of the statements that are live, so that a block freed again is noticed too.

## Runs

| run | instance | shows |
|---|---|---|
| `parser_split` | texts of up to 3, 2 header lines, 3 calls | types; one call meets no undefined behaviour; cuts accept nothing more; an accepted request has lost at most letters of its method |
| `session_stream` | 30 streams of a client that waits, one of a client that does not, every cut | types; a body is exactly the bytes behind its header, with nothing left over from the one before; the handler and length of a body being read are those of this request; answers in order, as for the request alone but for the verb; every request answered |
| `server_pool` | 2 threads, 2 connections, 2 requests: refused, without handler, status with and without a body | types; one owner per session; the log loses nothing and is complete at the end; accept chain; refinement of `ResponseLedger`; a client is answered, also beside handlers that hang; SIGINT ends the process if the handlers return; every response is logged |
| `config_parse` | every file of 10 characters | types; the stack is a path of the tree; words are kept apart; accepted files are complete; the port is that of the server block; the parser ends |
| `routing` | 399 configurations of up to 3 blocks and 10 with files and proxies, targets of 3 components, some 300 responses | types; normalisation against a counting definition; longest prefix; handler types; freed once; files below the root; forwarding and redirects are inverses; links rewritten once, against a definition by places |
| `meme_form` | 7 776 forms of four parts, those of them that break off, requests that have no form | types (`FormTypeOK`); a form is accepted exactly when it has four parts and an image, and its parts are the lines between the boundaries |
| `meme_store` | 2 threads, 2 images, a file outside, 3 starts | types; what is shown is on disk; a file without an entry has a known cause; what was accepted is shown |

Five runs end in a violation of what the repository says of itself:

| run | what the code does |
|---|---|
| `parser_cuts_verdict` | a valid header that arrives in two chunks is not accepted: the text of the first call is lost |
| `session_stale_target` | a malformed request is logged under the target of the request before it |
| `server_log_race` | the end of `write()` logs a row made of two requests |
| `routing_defined` | `..` at the root pops from an empty vector |
| `config_valid` | a file that ends in a one-character word is accepted |

More disagreements are visible in the models and have no run of their own:

- an unknown verb makes `parse()` throw instead of returning one of its three
  values (`parse`, result "throw");
- a quoted string that begins a statement joins the statement before it, or,
  first in a block, takes `back()` of an empty vector (`ParseQuoted`; hence the
  `~stray` in `WordsAreApart`);
- `reverse_proxy_handler.cc:37` says "Remove proxy base path from request
  path", but for a target that is another spelling of the location (`/./a/x`,
  `//a/x`) other characters are removed (hence the `IsPrefix` in
  `ProxyIsTransparent`); a `Location` that begins with two slashes names
  another host and gets the location in front all the same (`redirect`);
- a static handler at the location `/` opens its root directory for every target
  (`relative`, `File`);
- the repository's README has `root "/"; # root of directory`, but the normal
  form of `/` is empty, and files are taken from the working directory
  (`File`);
- `meme_handler.cc:82` speaks of "no content outside of the boundaries", but a
  closing boundary in the middle of a form is taken for an opening one
  (`is_boundary`);
- an upload whose style is a number other than 1, 2 and 3 is answered with 400
  and stays in `memes_`, so that every later page is answered with 400 too; one
  whose style is no number ends the process (`AnswerBad`, `Rendered`,
  `StyleThrows`);
- with `/..` behind `image/` an upload writes over the image of another one, or
  outside of `./memes/imgs`, where `~server` does not remove it (`Paths`, hence
  `Shared` in `ShownIsOnDisk`);
- the metric line of a connection whose first header is malformed asks for the
  type of a `request_handler_` that was never set (`Session!Init`; the line
  itself is left out);
- a start without a port removes the images of other processes
  (`StartWithoutPort`).

### Bounds

- `MaxField = 3` in `parser_split`: a verb of two letters, its one-letter
  tail, and a word that is no verb. Two header lines are needed for a cut
  between lines, three calls for two cuts.
- `MaxLength = 30` in `Session` stands for `max_length` (1024): it holds the
  longest request with its body and a few bytes of the next one, so that a body
  can be in the buffer, split, or followed by a pipelined request. Requests of
  one connection: up to three, to see a state left by the first survive the
  second.
- `Server`: two threads and two connections are the least in which two threads
  meet on one session while a third actor, the client, goes on; two requests
  make one connection serve twice. `AlwaysAccepting` stops at the bound
  `Sessions`. A handler that throws ends the process in the same step as the
  status handler's copy that goes wrong (`RequestFails`); the instance has the
  latter.
- `ConfigParser`: ten characters hold two nested blocks, an escape at the end
  of the file, a block followed by a string, or `server{port x;}` (a word is
  two characters).
- `Routing`: three blocks give a location, its prefix, and a second spelling.
  The working directory is `/a`, so that relative targets can lie under a
  location. `Handlers`: every body of three words, and every pair of six
  pieces of a page, so that a pass meets what an earlier one left.
- `MemeForm`: parts of up to five lines hold a header, an empty line, and text
  that looks like a header or an empty line.
- `MemeStore`: two threads are the least that race; two images are the least
  that share a file, or a map that is raced for; three starts let a process
  meet the files of one that died and of one that ended in order. Threads and
  images are interchangeable, hence the symmetry.

`CHECK_DEADLOCK FALSE` in every cfg: the parsers stop at a verdict, a session
when the client is gone, the server when the process ends, and the bounds stop
the clients.

### Fairness

- `Session!FairSpec`: weak fairness of the server's step. `io_service` runs
  each completion handler that is due, as long as a thread is in `run()`.
  Nothing is assumed of the client.
- `Server!FairSpec`: weak fairness of each thread inside a completion handler,
  except while it is in `handle_request`: the proxy reads from its upstream
  server without a timeout, and a thread may be caught in a corrupt `memes_`,
  so that nothing says that it returns. Also of each session's next completion
  being taken by some thread (the queue of `io_service` is first in, first
  out), of the stop handler, of each thread's return, and of the join. Weak
  fairness for `mtx_` is enough because `log_request` is never blocked and
  requests are finite. `EventuallyLogged` is said of one thread, as the threads
  are alike. `ClientIsAnswered` has as a premise that one thread comes back
  from its handlers again and again, and excepts the client whose own request
  hangs; `SignalEnds` that all of them do, since `run()` joins every thread:
  without it the process does not end, and the model has these behaviours.
- `ConfigParser!FairSpec`: the loop runs on, and the file is finite.

## Proofs

Every theorem is `Spec => []P` for the property `P` that a run checks, and
holds for every value of the constants; `IsLedger` is a refinement.

| module | theorems (property) |
|---|---|
| `ParseCallsProofs` | `TypeCorrect` (`TypeOK`), `OneCallDefined` (`OneCallIsDefined`), `CutsAcceptNoMore` (`CutsNeverAcceptMore`), `AcceptedIsIntact` (`AcceptedLostOnlyMethod`) |
| `SessionProofs` | `TypeCorrect` (`TypeOK`), `BodyIsOwn` (`BodyFollowsHeader`), `HandlerIsOwn` (`BodyHandlerIsCurrent`), `AnsweredInOrder` (`AnswersInOrder`) |
| `ServerProofs` | `TypeCorrect` (`TypeOK`), `SessionIsStrand` (`OneOwner`), `NoLostUpdate` (`CountIsCurrent`), `AcceptChain` (`AlwaysAccepting`), `LogComplete` (`LogIsComplete`), `ServerIsLedger` (`IsLedger`) |
| `ConfigParserProofs` | `TypeCorrect` (`TypeOK`), `StackIsSound` (`StackIsPath`), `StatementsArePartedRight` (`WordsAreApart`), `NothingIsDropped` (`AcceptedIsComplete`), `PortIsRight` (`PortIsTheServers`) |
| `RoutingProofs` | `TypeCorrect` (`TypeOK`), `PathsAreNormalised` (`NormalisedRight`), `RoutesToLongestPrefix` (`LongestPrefixWins`), `StatusNamesTheTypes` (`TypeIsConfigured`), `EachHandlerFreedOnce` (`FreedOnce`), `StaticServesBelowRoot` (`StaticStaysBelowRoot`), `ProxyUndoesItself` (`ProxyIsTransparent`), `LinksAreRewritten` (`LinksRewrittenOnce`) |
| `MemeHandlerProofs` | `FormTypeCorrect` (`FormTypeOK`), `FormIsSplitRight` (`FormIsSplit`); `TypeCorrect` (`TypeOK`), `ShownHasItsImage` (`ShownIsOnDisk`), `NoOrphanWithoutCause` (`OrphanHasCause`), `AcceptedMemesAreShown` (`AcceptedIsShown`) |

### Assumptions

The proofs use the `ASSUME`s of the modules and nothing else; TLC evaluates
them in every run.

- `VerbAssumption`, `CallsAssumption`: no verb has length 0; the bounds are
  arbitrary numbers.
- `SessionAssumption`: the types of streams, `Stoi` and `Route`; a buffer that
  holds a byte. Nothing is said of the requests: they may be malformed,
  pipelined, or have bodies that do not fit their Content-Length.
- `ServerAssumption`, `RequestAssumption`: any finite pool that is not empty,
  any connections; the targets are a finite set (the status page is a sum over
  its rows), and the special values are no threads, sessions or targets.
- `ConfigAssumption`: the two tokens without a text are no words.
- `RoutingAssumption`, `CharsAssumption`, `ResponsesAssumption`: the types of
  configurations, targets and responses, whose bodies are sequences of
  strings; the special values are no handlers, and `UB` is no path; the names
  `""`, `.` and `..` are spelled with no, one and two dots.
- `UploadAssumption`, `StoreAssumption`: the types of uploads, of any number of
  lines; no image is the value that stands for none, and no file outside is one
  of those inside.

### Induction over data

`DataInduction` states induction with the property given as a set: the set of
the numbers (or finite sets) of which it holds. Such a lemma is used by
instantiating a variable, not an operator, which the provers can do. From the
library's well-foundedness of `<` follow `LeastNumber`, `NumberInduction`,
`RecursionExists` (a function defined by recursion exists and unfolds),
`LoopInvariant` (what each turn of a loop preserves holds at its end) and
`FiniteInduction`. The second half is about `SumFunction` of the library: it is
defined by a choice of the order in which the elements are taken, and
`AnyOrder` and `SumsAgree` show that the order does not matter. `SumIncrement`
(one entry grows by one) is what `Total` needs, `SumLonger` (one more entry)
what `Kept` needs.

### The arguments

`ParseCalls!IInv` adds to the properties how the request of the last call and
that of a single call are related in the middle of a header (`Aligned`, in
`RequestParser`, as the session needs it too): inside a header line the whole
request has a header; behind the version it is set; as long as the method of
the last call is not empty nothing behind the method was lost. An accepted
request is intact because a cut behind the method leaves the method empty, and
that throws. `ConsumeAligned` has one case for every state of the automaton.

`Session!IInv` adds `BodySoFar`: a header is read with an empty body, a body
being read is, so far, the bytes that the session took last, and `body_data` is
empty whenever a read is outstanding. `HeaderIs`
tells what `handle_read_header` makes of a chunk: it rests on `ParseChunkIs` of
`RequestParserProofs`, a loop invariant of `parse()`, for where the header ends
and that no text is longer than the chunk. Then the bytes behind the header in
the buffer and those read later are one slice of the stream.

`AnswersInOrder` is proved beside it, with `InStep`: while a header is read,
the automaton of the session is in the state, and `Aligned` with the request,
that one call on the bytes read so far of the current request would have
reached, and all answers so far are right. `ParseOfPart` says that a call on a
part of a header stops where the single call was after those bytes
(`WholeTurns`), or at the verdict; `Wire` that for a client that waits the
bytes not yet taken are those of the current request. When the verdict comes,
`HeaderOfRequest` gives the target, the Content-Length and the end of the
header, which are those of the request alone: a header that survived the cuts
has lost nothing but letters of its verb. `VerbKept` adds which: none, if the
last call began before the verb, and the first ones if it began inside.
`BodyFollowsHeader` does the rest.

`Server!IInv` adds `WellPlaced` to the properties: a thread inside a handler
has a session, one that parses has a request, one that logs has found a row.
`OneOwner` is inductive only in both halves: no two threads, because while one
is inside, no operation of the session is outstanding that could bring a
second. `CountIsCurrent` needs that the thread that logs is the holder of
`mtx_`.

`LogIsComplete` and the refinement rest on `StepKinds`: a step leaves the log
alone, or brings a thread to the end of `write()` with one more response, or
takes one away from there with one row grown by one; the last because of
`CountIsCurrent`. So `begun = Total + Cardinality(InTail)` is kept, and as
`InTail` is a set of threads the log is never behind by more than the pool:
that is the guard of `ResponseLedger!Answer`. `ServerIsLedger` maps the initial
state to the initial state and every step to `Answer`, `Record` or a stutter.
The fairness of `FairSpec` plays no part: `ResponseLedger` has none.

`ConfigParser!IInv`: `StackIsPath` needs `BlocksComeFirst` (a statement comes
behind the block it is in), so that the statement that `{` makes a block is not
on the stack yet. `WordsAreApart` needs `GroupIsCurrent` (the statement written
to is the last one, and the only one of the current group), which needs
`NothingFreed`. `AcceptedIsComplete` needs `AllKept`: what was seen is what was
kept, and the token being read. `PortIsTheServers` is no part of the induction:
it holds of every tree that has the types.

`Routing!IInv` says that the maps hold exactly what the blocks read so far put
there (`BlocksAreRegistered`, `RegistryIsOfBlocks`), and that nothing is freed
before the end (`InOrder`). `LongestPrefixWins` then follows from `LookupIs`,
the loop of `get_request_handler` as it takes components away one by one.
`NormalisedRight` compares a stack with a definition that counts. `Stack` is
its loop invariant: the components that the loop has are those of increasing
places, the one at place `i` has as many names less `..`s behind it as there
are components from it to the top (`Height`), and they are exactly those that no
later `..` takes back (`KeptTo`). `StackOneMore` is one turn, `ConvertIs` the
whole loop, with the pop from an empty vector where the count falls below zero.
`Handlers!HandlersIInv` adds that only handlers of the registry are at work
(`ExchangeIsServed`). A static file is below the root because the normal form
of the target begins with the location (`RoutedUnderLocation`) and `relative`
removes just that (`RelativeIs`); the proxy cuts the right characters because
the text of a path is the text of its parts, put together (`SlashedConcat`).

`LinksRewrittenOnce` is about four passes, each over the result of the one
before, while `Links` looks at the body as it came. `PassIs` says that a pass
over a body with the location put in at the places `S` gives the body with the
location put in at `S` and at the links of the pass. `Layout` has the place of
every character of the original; `FoundAlike` says that a text is found in the
one exactly where it is in the other, because it does not begin inside of the
location and the slash behind the location is not in front of one of its
characters (`Apart`). `InPlace` is the invariant of the loop: the search stands
at a character of the original, or inside a location, everything in front of it
is as it should be, and no text that was found reaches over it (`Clear`). Each
pass is `Apart` from those before it, as the four texts end in different
characters in front of the slash. The location must have none of `href="`,
`src="` and `url(` in it: a later pass would rewrite what an earlier one put in.

`FormIInv` (in `MemeHandlerProofs`): `PartsSoFar` says that every part before
the current one is all that two neighbouring boundaries enclose (`IsFound`), and
that the current one is that so far (`IsOpen`). `FormIsSplit` numbers the
boundaries by counting those before them, so the invariant counts along.

`MemeStore!IInv`: `ShownIsOnDisk` needs that a thread on its way to `log_meme`
has written its file or failed to (`UploadSoFar`), that no second thread has
the image (`OneUploader`), and that a new uuid is in no map and on no page and
leads to no file that a name has (`Fresh`); `NewNameFacts` says that a name
that leads to the file of another upload makes both `Shared`. `AcceptedIsShown`
needs that a map that is not corrupt keeps its entries (`MapIsWhole`).

### Only model-checked

- Liveness (`EveryRequestAnswered`, `ClientIsAnswered`, `SignalEnds`,
  `EventuallyLogged`, `ParseEnds`): out of the prover's reach.

Every invariant that a passing run checks is proved, and the refinement.

## Not modelled

- Echo, health, sleep, not-found and dummy handlers: a response computed from
  the request, without state. In `Server` they are handlers that answer.
- `create_meme` and the content of static files: a file is read and sent. The
  table of content types; HTML pages, log lines, the logger.
- `parse_host_from_http_url` and `parse_target_from_http_url`: called by
  nobody. The `Host` and `Accept-Encoding` headers that the proxy sets.
- Memory that is never freed (`response_buffer` in `write()`).
- The text of tokens, names and header values; the value of the version.
- Symbolic links, and other programs that change the files.
- The test doubles `mock_socket.h`, `mock_http_client.h`.

## Plan

1. Done: parser, session, server, routing, config parser; the proofs above.
2. Done: meme form and meme store, static files and reverse proxy on top of
   the registry, the constructors' `values[0]`.
3. Done: the proofs about the session, the log and its refinement, the config
   parser, the registry with its handlers, and the meme store.
4. Done: the properties that compare a loop with a definition of another shape:
   `FormIsSplit`, `NormalisedRight`, `AnswersInOrder`, `LinksRewrittenOnce`.
