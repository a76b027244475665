------------------------------- MODULE Server -------------------------------
(***************************************************************************)
(* The server with its thread pool: server.cc (run, the accept chain, the  *)
(* stop signal, the log of requests) and the sessions of session.cc as the *)
(* threads interleave them.  Every thread of the pool runs                 *)
(* io_service::run: it takes a completed asynchronous operation, runs its  *)
(* handler, and takes the next.                                            *)
(*                                                                         *)
(* A request arrives whole, with its body or not (module Session has the   *)
(* bytes).  A handler is one action where it touches only what its thread  *)
(* owns, and several where two threads can meet: parsing, handling,        *)
(* write() up to the start of the asynchronous write, and the rest of      *)
(* write(), which waits for mtx_ and then reads request_ and response_     *)
(* although the session may already be serving its next request.           *)
(***************************************************************************)
EXTENDS Naturals, FiniteSets, Functions

CONSTANTS
  Threads,      \* the pool
  Sessions,     \* bound: the connections of a run
  Targets,      \* the request targets: as data_ has a size, finitely many
  Requests,     \* the requests that clients send
  Route(_),     \* get_request_handler: the kind of handler of a target
  MaxRequests,  \* bound: the requests of a run
  NoTarget,     \* no target: of a malformed request and of a new request_
  Nobody        \* no thread, no session, no request

ASSUME ServerAssumption ==
  /\ Threads # {} /\ IsFiniteSet(Threads)
  /\ Sessions # {}
  /\ MaxRequests \in Nat
  /\ NoTarget \notin Targets /\ IsFiniteSet(Targets)
  /\ Nobody \notin Threads \cup Sessions
  /\ \A x \in Targets : Route(x) \in {"answers", "status", "throws", "NULL"}

(* A request names a target, or has a header that the parser does not      *)
(* accept; it may have a body.                                             *)
Request == [target : Targets \cup {NoTarget}, body : BOOLEAN]

ASSUME RequestAssumption == Requests \subseteq Request /\ Nobody \notin Request

Status == {"ok", "bad_request"}
Row == (Targets \cup {NoTarget}) \X Status

VARIABLES
  phase,      \* running, stopped (io_service), destroyed (~server), terminated
  signalled,  \* SIGINT has arrived
  peer,       \* the client of each connection: away, connected, eof, reset
  asking,     \* the request that the client is waiting to be answered
  op,         \* the asynchronous operation outstanding on each session
  request_,   \* session::request_, its target
  response_,  \* session::response_, its status
  pc, at,     \* where each thread is, and on which session
  mtx_,       \* the thread that holds server::mtx_
  found,      \* log_request's row and the count it found, per thread
  requests_,  \* server::requests_: how often each row was logged
  sent,       \* requests sent, for the bound
  begun,      \* history: the number of responses begun
  served      \* history: the pairs <<target, status>> truly served

client == <<peer, asking, sent>>
log == <<mtx_, found, requests_>>
history == <<begun, served>>
vars == <<phase, signalled, peer, asking, op, request_, response_, pc, at,
          mtx_, found, requests_, sent, begun, served>>
-----------------------------------------------------------------------------
(* The session object that the constructor's start_accept makes: any one.  *)
FirstSession == CHOOSE s \in Sessions : TRUE

Init ==
  /\ phase = "running"
  /\ signalled = FALSE
  /\ peer = [s \in Sessions |-> "away"]
  /\ asking = [s \in Sessions |-> Nobody]
  /\ op = [s \in Sessions |->
              IF s = FirstSession THEN "accept" ELSE "unborn"]
  /\ request_ = [s \in Sessions |-> NoTarget]
  /\ response_ = [s \in Sessions |-> "ok"]
  /\ pc = [t \in Threads |-> "idle"]
  /\ at = [t \in Threads |-> Nobody]
  /\ mtx_ = Nobody
  /\ found = [t \in Threads |-> Nobody]
  /\ requests_ = [r \in Row |-> 0]
  /\ sent = 0
  /\ begun = 0
  /\ served = {}

Alive == phase \in {"running", "stopped"}

(* std::terminate: an exception has left io_service::run in a thread, or   *)
(* undefined behaviour has ended the process.                              *)
Terminate ==
  /\ phase' = "terminated"
  /\ UNCHANGED <<signalled, client, op, request_, response_, pc, at, log,
                 history>>
-----------------------------------------------------------------------------
(* The clients.  A client waits for its answer before it asks again; what  *)
(* it sends before the connection is accepted waits in the socket.         *)
Connect(s) ==
  /\ Alive
  /\ op[s] = "accept" /\ peer[s] = "away"
  /\ peer' = [peer EXCEPT ![s] = "connected"]
  /\ UNCHANGED <<phase, signalled, asking, sent, op, request_, response_, pc,
                 at, log, history>>

Send(s, r) ==
  /\ Alive
  /\ peer[s] = "connected"
  /\ asking[s] = Nobody
  /\ sent < MaxRequests
  /\ sent' = sent + 1
  /\ asking' = [asking EXCEPT ![s] = r]
  /\ UNCHANGED <<phase, signalled, peer, op, request_, response_, pc, at, log,
                 history>>

(* The client closes ("eof") or the connection breaks ("reset"). *)
Leave(s, how) ==
  /\ Alive
  /\ peer[s] \in {"connected", "eof"} \ {how}
  /\ peer' = [peer EXCEPT ![s] = how]
  /\ UNCHANGED <<phase, signalled, asking, sent, op, request_, response_, pc,
                 at, log, history>>

Signal ==
  /\ Alive /\ ~signalled
  /\ signalled' = TRUE
  /\ UNCHANGED <<phase, client, op, request_, response_, pc, at, log, history>>
-----------------------------------------------------------------------------
(* Mutant: no handler is run while another is inside handle_request. *)
Free_Strand(t) ==
  pc[t] = "idle" /\ phase = "running" /\ \A u \in Threads : pc[u] # "handling"

(* A thread in io_service::run that may take the next completed operation. *)
Free(t) == pc[t] = "idle" /\ phase = "running"

(* Mutant: no further accept is started. *)
start_accept_Once(ops, new) == op' = ops

(* op after start_accept(): a new session waits for a connection (as long  *)
(* as the bound has one).                                                  *)
start_accept(ops, new) ==
  LET unborn == {s \in Sessions : op[s] = "unborn"}
  IN  IF unborn = {} THEN op' = ops
      ELSE \E s \in unborn : op' = [ops EXCEPT ![s] = new]

(* handle_accept without an error: start() reads the first header, and the *)
(* next accept begins.                                                     *)
handle_accept(t, s) ==
  /\ Free(t)
  /\ op[s] = "accept" /\ peer[s] \in {"connected", "eof"}
  /\ start_accept([op EXCEPT ![s] = "read_header"], "accept")
  /\ UNCHANGED <<phase, signalled, client, request_, response_, pc, at, log,
                 history>>

(* handle_accept with an error: the session is dropped. *)
handle_accept_error(t, s) ==
  /\ Free(t)
  /\ op[s] = "accept"
  /\ start_accept([op EXCEPT ![s] = "none"], "accept")
  /\ UNCHANGED <<phase, signalled, client, request_, response_, pc, at, log,
                 history>>

(* Mutant: the next read of the session is started before this one is      *)
(* handled.                                                                *)
handle_read_header_Rearmed(t, s) ==
  /\ Free(t)
  /\ op[s] = "read_header"
  /\ asking[s] # Nobody
  /\ peer[s] # "reset"
  /\ pc' = [pc EXCEPT ![t] = "parsing"]
  /\ at' = [at EXCEPT ![t] = s]
  /\ UNCHANGED <<phase, signalled, client, op, request_, response_, log,
                 history>>

(* handle_read_header begins: parse() is about to write request_. *)
handle_read_header(t, s) ==
  /\ Free(t)
  /\ op[s] = "read_header"
  /\ asking[s] # Nobody
  /\ peer[s] # "reset"
  /\ op' = [op EXCEPT ![s] = "none"]
  /\ pc' = [pc EXCEPT ![t] = "parsing"]
  /\ at' = [at EXCEPT ![t] = s]
  /\ UNCHANGED <<phase, signalled, client, request_, response_, log, history>>

(* write() up to the call of socket_.write: from here on the client can    *)
(* have its answer and handle_write can run.                               *)
StartWrite(t, s, target, status) ==
  /\ response_' = [response_ EXCEPT ![s] = status]
  /\ op' = [op EXCEPT ![s] = "write"]
  /\ asking' = [asking EXCEPT ![s] = Nobody]
  /\ pc' = [pc EXCEPT ![t] = "tail"]
  /\ begun' = begun + 1
  /\ served' = served \cup {<<target, status>>}

(* A malformed request: 400, and request_ keeps the target it had. *)
BadRequest(t) ==
  LET s == at[t] IN
  /\ Alive
  /\ pc[t] = "parsing"
  /\ peer[s] # "reset"
  /\ asking[s].target = NoTarget
  /\ StartWrite(t, s, NoTarget, "bad_request")
  /\ UNCHANGED <<phase, signalled, peer, sent, request_, at, log>>

(* The header makes translate() throw: the verb is unknown, or the header  *)
(* came in several chunks.                                                 *)
ParserThrows(t) ==
  /\ Alive
  /\ pc[t] = "parsing"
  /\ asking[at[t]].target = NoTarget
  /\ Terminate

(* A target without a handler, or a target and a Content-Length that is no *)
(* number: 400.                                                            *)
BadUri(t) ==
  LET s == at[t]
      x == asking[s].target
  IN
  /\ Alive
  /\ pc[t] = "parsing"
  /\ peer[s] # "reset"
  /\ x # NoTarget /\ Route(x) = "NULL"
  /\ request_' = [request_ EXCEPT ![s] = x]
  /\ StartWrite(t, s, x, "bad_request")
  /\ UNCHANGED <<phase, signalled, peer, sent, at, log>>

(* A request for a handler: read its body first, or handle it now. *)
Dispatch(t) ==
  LET s == at[t]
      x == asking[s].target
  IN
  /\ Alive
  /\ pc[t] = "parsing"
  /\ peer[s] # "reset"
  /\ x # NoTarget /\ Route(x) # "NULL"
  /\ request_' = [request_ EXCEPT ![s] = x]
  /\ \/ /\ asking[s].body
        /\ op' = [op EXCEPT ![s] = "read_body"]
        /\ pc' = [pc EXCEPT ![t] = "idle"]
        /\ at' = [at EXCEPT ![t] = Nobody]
     \/ /\ ~asking[s].body
        /\ pc' = [pc EXCEPT ![t] = "handling"]
        /\ UNCHANGED <<op, at>>
  /\ UNCHANGED <<phase, signalled, client, response_, log, history>>

(* handle_read_body: the body has arrived. *)
handle_read_body(t, s) ==
  /\ Free(t)
  /\ op[s] = "read_body"
  /\ peer[s] # "reset"
  /\ op' = [op EXCEPT ![s] = "none"]
  /\ pc' = [pc EXCEPT ![t] = "handling"]
  /\ at' = [at EXCEPT ![t] = s]
  /\ UNCHANGED <<phase, signalled, client, request_, response_, log, history>>

(* handle_request returns, and its response is written. *)
handle_request(t) ==
  LET s == at[t] IN
  /\ Alive
  /\ pc[t] = "handling"
  /\ peer[s] # "reset"
  /\ Route(request_[s]) # "throws"
  /\ StartWrite(t, s, request_[s], "ok")
  /\ UNCHANGED <<phase, signalled, peer, sent, request_, at, log>>

(* handle_request throws; or StatusRequestHandler copies requests_, which  *)
(* get_requests does not lock, while another thread changes it, and the    *)
(* copy runs off the map's nodes.                                          *)
RequestFails(t) ==
  /\ Alive
  /\ pc[t] = "handling"
  /\ \/ Route(request_[at[t]]) = "throws"
     \/ /\ Route(request_[at[t]]) = "status"
        /\ \E u \in Threads : pc[u] = "logging"
  /\ Terminate

(* Mutant: the guard is not taken. *)
Unlocked_Always == TRUE

(* The lock_guard at the end of write() can proceed. *)
Unlocked == mtx_ = Nobody

(* The end of write(), first half: lock mtx_, read request_ and response_  *)
(* for the row, and find it in requests_.  If another thread is parsing    *)
(* into request_ at that moment, the target is whatever the memory holds.  *)
Lock(t) ==
  LET s == at[t]
      raced == \E u \in Threads \ {t} : pc[u] = "parsing" /\ at[u] = s
  IN
  /\ Alive
  /\ pc[t] = "tail"
  /\ Unlocked
  /\ mtx_' = t
  /\ pc' = [pc EXCEPT ![t] = "logging"]
  /\ \E x \in IF raced THEN Targets \cup {NoTarget} ELSE {request_[s]} :
       LET row == <<x, response_[s]>>
       IN  found' = [found EXCEPT ![t] = [row |-> row,
                                          count |-> requests_[row]]]
  /\ UNCHANGED <<phase, signalled, client, op, request_, response_, at,
                 requests_, history>>

(* The same race, when the string is freed under the reader. *)
TargetFreed(t) ==
  /\ Alive
  /\ pc[t] = "tail"
  /\ Unlocked
  /\ \E u \in Threads \ {t} : pc[u] = "parsing" /\ at[u] = at[t]
  /\ Terminate

(* Mutants: counted down; counted twice. *)
Counted_Down(n) == n - 1
Counted_Twice(n) == n + 2

(* log_request: the count that replaces the one found (0 for a new row). *)
Counted(n) == n + 1

(* Mutant: the guard is never released. *)
log_request_KeepsLock(t) ==
  /\ Alive
  /\ pc[t] = "logging"
  /\ requests_' = [requests_ EXCEPT ![found[t].row] = Counted(found[t].count)]
  /\ pc' = [pc EXCEPT ![t] = "idle"]
  /\ at' = [at EXCEPT ![t] = Nobody]
  /\ found' = [found EXCEPT ![t] = Nobody]
  /\ UNCHANGED <<phase, signalled, client, op, request_, response_, mtx_,
                 history>>

(* The end of write(), second half: log_request stores the new count, the  *)
(* guard unlocks, and the thread is back in io_service::run.               *)
log_request(t) ==
  /\ Alive
  /\ pc[t] = "logging"
  /\ requests_' = [requests_ EXCEPT ![found[t].row] = Counted(found[t].count)]
  /\ mtx_' = Nobody
  /\ pc' = [pc EXCEPT ![t] = "idle"]
  /\ at' = [at EXCEPT ![t] = Nobody]
  /\ found' = [found EXCEPT ![t] = Nobody]
  /\ UNCHANGED <<phase, signalled, client, op, request_, response_, history>>

(* handle_write: the session reads its next request. *)
handle_write(t, s) ==
  /\ Free(t)
  /\ op[s] = "write"
  /\ peer[s] # "reset"
  /\ op' = [op EXCEPT ![s] = "read_header"]
  /\ UNCHANGED <<phase, signalled, client, request_, response_, pc, at, log,
                 history>>

(* A read ends with end of file: no further operation, the session ends. *)
ReadEof(t, s) ==
  /\ Free(t)
  /\ peer[s] = "eof"
  /\ op[s] = "read_body" \/ (op[s] = "read_header" /\ asking[s] = Nobody)
  /\ op' = [op EXCEPT ![s] = "none"]
  /\ UNCHANGED <<phase, signalled, client, request_, response_, pc, at, log,
                 history>>

(* A handler of a broken connection begins: get_endpoint_address throws. *)
EndpointThrows(t, s) ==
  /\ Free(t)
  /\ peer[s] = "reset"
  /\ op[s] \in {"accept", "read_header", "read_body", "write"}
  /\ Terminate

(* The connection has broken since the handler began: write() throws.  *)
WriteThrows(t) ==
  /\ Alive
  /\ pc[t] \in {"parsing", "handling"}
  /\ peer[at[t]] = "reset"
  /\ Terminate

(* Mutant: the signal is taken and nothing is stopped. *)
handle_stop_Nothing(t) == Free(t) /\ signalled /\ UNCHANGED vars

(* handle_stop: io_service::stop.  Handlers that run go on to their end.   *)
handle_stop(t) ==
  /\ Free(t)
  /\ signalled
  /\ phase' = "stopped"
  /\ UNCHANGED <<signalled, client, op, request_, response_, pc, at, log,
                 history>>

(* io_service::run returns in a thread. *)
ThreadExit(t) ==
  /\ phase = "stopped"
  /\ pc[t] = "idle"
  /\ pc' = [pc EXCEPT ![t] = "exited"]
  /\ UNCHANGED <<phase, signalled, client, op, request_, response_, at, log,
                 history>>

(* Mutant: the threads are not joined. *)
Exit_Unjoined ==
  /\ phase = "stopped"
  /\ phase' = "destroyed"
  /\ UNCHANGED <<signalled, client, op, request_, response_, pc, at, log,
                 history>>

(* server::run has joined every thread; main returns, and ~server deletes  *)
(* the request handlers.                                                   *)
Exit ==
  /\ phase = "stopped"
  /\ \A t \in Threads : pc[t] = "exited"
  /\ phase' = "destroyed"
  /\ UNCHANGED <<signalled, client, op, request_, response_, pc, at, log,
                 history>>

(* The steps that handle one connection, and those of a thread alone. *)
Take(t, s) ==
  \/ handle_accept(t, s)
  \/ handle_read_header(t, s)
  \/ handle_read_body(t, s)
  \/ handle_write(t, s)
  \/ ReadEof(t, s)
  \/ EndpointThrows(t, s)

(* A thread inside a handler, and the end of a handle_request. *)
Continue(t) ==
  \/ BadRequest(t)
  \/ ParserThrows(t)
  \/ BadUri(t)
  \/ Dispatch(t)
  \/ handle_request(t)
  \/ RequestFails(t)
  \/ WriteThrows(t)
  \/ Lock(t)
  \/ TargetFreed(t)
  \/ log_request(t)

Next ==
  \/ \E s \in Sessions :
       \/ Connect(s)
       \/ \E r \in Requests : Send(s, r)
       \/ Leave(s, "eof")
       \/ Leave(s, "reset")
  \/ Signal
  \/ \E t \in Threads, s \in Sessions :
       Take(t, s) \/ handle_accept_error(t, s)
  \/ \E t \in Threads : Continue(t) \/ handle_stop(t) \/ ThreadExit(t)
  \/ Exit

Spec == Init /\ [][Next]_vars

(* A thread that runs a completion handler gets on with it, except that    *)
(* handle_request may never return: a proxy or a map read has no timeout.  *)
(* A completed operation of a session, and the signal, are taken by some   *)
(* thread that stays free; main goes on when the threads are gone.         *)
Fairness ==
  /\ \A t \in Threads : /\ WF_vars(pc[t] # "handling" /\ Continue(t))
                        /\ WF_vars(ThreadExit(t))
  /\ \A s \in Sessions : WF_vars(\E t \in Threads : Take(t, s))
  /\ WF_vars(\E t \in Threads : handle_stop(t))
  /\ WF_vars(Exit)

FairSpec == Spec /\ Fairness
-----------------------------------------------------------------------------
(* Type invariant. *)
TypeOK ==
  /\ phase \in {"running", "stopped", "destroyed", "terminated"}
  /\ signalled \in BOOLEAN
  /\ peer \in [Sessions -> {"away", "connected", "eof", "reset"}]
  /\ asking \in [Sessions -> Requests \cup {Nobody}]
  /\ op \in [Sessions -> {"unborn", "accept", "read_header", "read_body",
                          "write", "none"}]
  /\ request_ \in [Sessions -> Targets \cup {NoTarget}]
  /\ response_ \in [Sessions -> Status]
  /\ pc \in [Threads -> {"idle", "parsing", "handling", "tail", "logging",
                         "exited"}]
  /\ at \in [Threads -> Sessions \cup {Nobody}]
  /\ mtx_ \in Threads \cup {Nobody}
  /\ found \in [Threads -> [row : Row, count : Nat] \cup {Nobody}]
  /\ requests_ \in [Row -> Nat]
  /\ sent \in Nat
  /\ begun \in Nat
  /\ served \in SUBSET Row

(* A thread that runs the part of a handler that writes its session. *)
Busy(t) == pc[t] \in {"parsing", "handling"}

(* A session is an implicit strand.  Two threads never run handlers of the *)
(* same session at once, apart from the end of write(), and while one runs *)
(* no operation of that session is outstanding that could start a second.  *)
OneOwner ==
  /\ \A t, u \in Threads : Busy(t) /\ Busy(u) /\ at[t] = at[u] => t = u
  /\ \A t \in Threads : Busy(t) => op[at[t]] = "none"

(* mtx_ is held by exactly the thread that is inside log_request, and the  *)
(* count that it found is still the one in requests_: no update of another *)
(* thread is lost when it stores the new one.                              *)
CountIsCurrent ==
  /\ \A t \in Threads : pc[t] = "logging" <=> mtx_ = t
  /\ \A t \in Threads :
       pc[t] = "logging" => found[t].count = requests_[found[t].row]

(* A thread inside a handler knows its session, one that parses has a      *)
(* request to parse, and one inside log_request has found its row.         *)
WellPlaced ==
  \A t \in Threads :
    /\ pc[t] \in {"parsing", "handling", "tail", "logging"} =>
         at[t] \in Sessions
    /\ pc[t] = "parsing" => asking[at[t]] # Nobody
    /\ pc[t] = "logging" => found[t] \in [row : Row, count : Nat]

(* Rows of the status page, added up: "Total Number of Requests Served". *)
Total == SumFunction(requests_)

InTail == {t \in Threads : pc[t] \in {"tail", "logging"}}

(* Every response that was begun is logged once, or its thread is still on *)
(* its way through the end of write(): so the status page is never behind  *)
(* by more than the other threads, and when ~server runs it is complete    *)
(* and no thread is left that could use a deleted handler.                 *)
LogIsComplete ==
  /\ begun = Total + Cardinality(InTail)
  /\ phase = "destroyed" => /\ Total = begun
                            /\ \A t \in Threads : pc[t] = "exited"

(* While the server runs, exactly one session waits in async_accept, until *)
(* the connections of the bound are used up: neither a failed accept nor a *)
(* client that left at once ends the chain.                                *)
AlwaysAccepting ==
  /\ \A s, u \in Sessions : op[s] = "accept" /\ op[u] = "accept" => s = u
  /\ (\E s \in Sessions : op[s] = "unborn") =>
       \E s \in Sessions : op[s] = "accept"

(* The inductive invariant behind the safety properties proved. *)
IInv == TypeOK /\ WellPlaced /\ OneOwner /\ CountIsCurrent /\ AlwaysAccepting

(* src/handlers/status_handler.cc: "display table of served requests and   *)
(* response codes".  Every row is a target and the status it was served.   *)
RowsWereServed == \A row \in Row : requests_[row] > 0 => row \in served

(* Every handle_request that thread t calls returns or throws. *)
HandlersReturn(t) == []<>(pc[t] # "handling")

(* The client of session s waits for an answer on an accepted connection. *)
Waits(s) ==
  asking[s] # Nobody /\ op[s] \in {"read_header", "read_body", "write"}

(* It has its answer, or has left, or the server was stopped or died. *)
Served(s) ==
  asking[s] = Nobody \/ peer[s] # "connected" \/ phase # "running"

(* The request of session s is inside handle_request. *)
Handled(s) == \E t \in Threads : pc[t] = "handling" /\ at[t] = s

(* As long as one thread of the pool comes back from its handlers, a       *)
(* client whose connection was accepted is answered what it asks, unless   *)
(* it left, the server was stopped or died, or its own handle_request      *)
(* never returns: a connection goes from one operation to the next without *)
(* ever losing the thread, and a handler that hangs holds up no other      *)
(* client.                                                                 *)
ClientIsAnswered ==
  (\E t \in Threads : HandlersReturn(t)) =>
    \A s \in Sessions : (Waits(s) ~> Served(s)) \/ <>[]Handled(s)

(* SIGINT ends the process if every handle_request returns, whatever else  *)
(* the threads are doing.  (One that does not return is never joined.)     *)
SignalEnds ==
  (\A t \in Threads : HandlersReturn(t)) =>
    (signalled ~> phase \in {"destroyed", "terminated"})

(* Every response that was begun gets logged, unless the process dies.     *)
(* (The threads are alike: it is said of one of them.)                     *)
EventuallyLogged ==
  LET t == CHOOSE u \in Threads : TRUE
  IN  pc[t] = "tail" ~> (pc[t] = "idle" \/ phase = "terminated")

Ledger == INSTANCE ResponseLedger
            WITH Lag <- Cardinality(Threads),
                 answered <- begun, recorded <- Total

(* The log that log_request keeps is a ledger of the responses: each is    *)
(* recorded once, none is lost to a race, and at most one per thread waits.*)
IsLedger == Ledger!Spec
=============================================================================
