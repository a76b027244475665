---------------------------- MODULE ServerProofs ----------------------------
(***************************************************************************)
(* The safety of the thread pool, for any number of threads, connections,  *)
(* targets and requests.  IInv is inductive: OneOwner needs WellPlaced (a  *)
(* thread inside a handler has a session), CountIsCurrent needs that the   *)
(* holder of mtx_ has found a row, and both need TypeOK.                   *)
(***************************************************************************)
EXTENDS Server, DataInduction

(* The pool starts with one accept outstanding and every thread idle. *)
LEMMA InitIInv == Init => IInv
<1> SUFFICES ASSUME Init PROVE IInv
  OBVIOUS
<1> USE ServerAssumption, RequestAssumption
<1>1. FirstSession \in Sessions
  BY DEF FirstSession
<1>2. TypeOK
  BY <1>1 DEF Init, TypeOK, Status
<1>3. WellPlaced /\ OneOwner
  BY DEF Init, WellPlaced, OneOwner, Busy
<1>4. CountIsCurrent
  BY DEF Init, CountIsCurrent
<1>5. AlwaysAccepting
  BY <1>1 DEF Init, AlwaysAccepting
<1> QED
  BY <1>2, <1>3, <1>4, <1>5 DEF IInv

(* Every step of a client, of a thread or of main preserves IInv. *)
LEMMA NextIInv == IInv /\ [Next]_vars => IInv'
<1> SUFFICES ASSUME IInv, [Next]_vars PROVE IInv'
  OBVIOUS
<1> USE ServerAssumption, RequestAssumption DEF client, log, history
<1>i. TypeOK /\ WellPlaced /\ OneOwner /\ CountIsCurrent /\ AlwaysAccepting
  BY DEF IInv
<1>1. ASSUME NEW s \in Sessions, Connect(s) PROVE IInv'
  BY <1>1
  DEF Connect, IInv, TypeOK, WellPlaced, OneOwner, Busy, CountIsCurrent,
      AlwaysAccepting
<1>2. ASSUME NEW s \in Sessions, NEW r \in Requests, Send(s, r) PROVE IInv'
  <2>1. TypeOK'
    BY <1>2, <1>i DEF Send, TypeOK, WellPlaced, Row, Request, Status
  <2>2. WellPlaced'
    BY <1>2, <1>i DEF Send, TypeOK, WellPlaced, OneOwner, Busy
  <2>3. OneOwner'
    BY <1>2, <1>i DEF Send, TypeOK, WellPlaced, OneOwner, Busy
  <2>4. CountIsCurrent'
    BY <1>2, <1>i DEF Send, TypeOK, WellPlaced, CountIsCurrent
  <2>5. AlwaysAccepting'
    BY <1>2, <1>i
    DEF Send, TypeOK, WellPlaced, OneOwner, Busy, AlwaysAccepting
  <2> QED
    BY <2>1, <2>2, <2>3, <2>4, <2>5 DEF IInv
<1>3. ASSUME NEW s \in Sessions, NEW how \in {"eof", "reset"}, Leave(s, how)
      PROVE IInv'
  BY <1>3
  DEF Leave, IInv, TypeOK, WellPlaced, OneOwner, Busy, CountIsCurrent,
      AlwaysAccepting
<1>4. CASE Signal
  BY <1>4
  DEF Signal, IInv, TypeOK, WellPlaced, OneOwner, Busy, CountIsCurrent,
      AlwaysAccepting
<1>5. ASSUME NEW t \in Threads, NEW s \in Sessions, handle_accept(t, s)
      PROVE IInv'
  <2>1. TypeOK'
    BY <1>5, <1>i
    DEF handle_accept, start_accept, TypeOK, WellPlaced, Row, Request, Status
  <2>2. WellPlaced'
    BY <1>5, <1>i
    DEF handle_accept, start_accept, TypeOK, WellPlaced, OneOwner, Busy
  <2>3. OneOwner'
    BY <1>5, <1>i
    DEF handle_accept, start_accept, TypeOK, WellPlaced, OneOwner, Busy
  <2>4. CountIsCurrent'
    BY <1>5, <1>i
    DEF handle_accept, start_accept, TypeOK, WellPlaced, CountIsCurrent
  <2>5. AlwaysAccepting'
    <3> DEFINE ops == [op EXCEPT ![s] = "read_header"]
    <3>1. op[s] = "accept" /\ s \in Sessions
      BY <1>5 DEF handle_accept
    <3>2. \/ op' = ops /\ \A u \in Sessions : op[u] # "unborn"
          \/ \E n \in Sessions : /\ op[n] = "unborn"
                                /\ op' = [ops EXCEPT ![n] = "accept"]
      BY <1>5 DEF handle_accept, start_accept
    <3> QED
      BY <1>i, <3>1, <3>2 DEF TypeOK, AlwaysAccepting
  <2> QED
    BY <2>1, <2>2, <2>3, <2>4, <2>5 DEF IInv
<1>6. ASSUME NEW t \in Threads, NEW s \in Sessions, handle_accept_error(t, s)
      PROVE IInv'
  <2>1. TypeOK'
    BY <1>6, <1>i
    DEF handle_accept_error, start_accept, TypeOK, WellPlaced, Row, Request,
        Status
  <2>2. WellPlaced'
    BY <1>6, <1>i
    DEF handle_accept_error, start_accept, TypeOK, WellPlaced, OneOwner, Busy
  <2>3. OneOwner'
    BY <1>6, <1>i
    DEF handle_accept_error, start_accept, TypeOK, WellPlaced, OneOwner, Busy
  <2>4. CountIsCurrent'
    BY <1>6, <1>i
    DEF handle_accept_error, start_accept, TypeOK, WellPlaced, CountIsCurrent
  <2>5. AlwaysAccepting'
    BY <1>6, <1>i
    DEF handle_accept_error, start_accept, TypeOK, WellPlaced, OneOwner, Busy,
        AlwaysAccepting
  <2> QED
    BY <2>1, <2>2, <2>3, <2>4, <2>5 DEF IInv
<1>7. ASSUME NEW t \in Threads, NEW s \in Sessions, handle_read_header(t, s)
      PROVE IInv'
  <2>1. TypeOK'
    BY <1>7, <1>i
    DEF handle_read_header, Free, TypeOK, WellPlaced, Row, Request, Status
  <2>2. WellPlaced'
    BY <1>7, <1>i
    DEF handle_read_header, Free, TypeOK, WellPlaced, OneOwner, Busy
  <2>3. OneOwner'
    BY <1>7, <1>i
    DEF handle_read_header, Free, TypeOK, WellPlaced, OneOwner, Busy
  <2>4. CountIsCurrent'
    BY <1>7, <1>i
    DEF handle_read_header, Free, TypeOK, WellPlaced, CountIsCurrent
  <2>5. AlwaysAccepting'
    BY <1>7, <1>i
    DEF handle_read_header, Free, TypeOK, WellPlaced, OneOwner, Busy,
        AlwaysAccepting
  <2> QED
    BY <2>1, <2>2, <2>3, <2>4, <2>5 DEF IInv
<1>8. ASSUME NEW t \in Threads, NEW s \in Sessions, handle_read_body(t, s)
      PROVE IInv'
  <2>1. TypeOK'
    BY <1>8, <1>i
    DEF handle_read_body, Free, TypeOK, WellPlaced, Row, Request, Status
  <2>2. WellPlaced'
    BY <1>8, <1>i
    DEF handle_read_body, Free, TypeOK, WellPlaced, OneOwner, Busy
  <2>3. OneOwner'
    BY <1>8, <1>i
    DEF handle_read_body, Free, TypeOK, WellPlaced, OneOwner, Busy
  <2>4. CountIsCurrent'
    BY <1>8, <1>i
    DEF handle_read_body, Free, TypeOK, WellPlaced, CountIsCurrent
  <2>5. AlwaysAccepting'
    BY <1>8, <1>i
    DEF handle_read_body, Free, TypeOK, WellPlaced, OneOwner, Busy,
        AlwaysAccepting
  <2> QED
    BY <2>1, <2>2, <2>3, <2>4, <2>5 DEF IInv
<1>9. ASSUME NEW t \in Threads, NEW s \in Sessions, handle_write(t, s)
      PROVE IInv'
  <2>1. TypeOK'
    BY <1>9, <1>i DEF handle_write, TypeOK, WellPlaced, Row, Request, Status
  <2>2. WellPlaced'
    BY <1>9, <1>i DEF handle_write, TypeOK, WellPlaced, OneOwner, Busy
  <2>3. OneOwner'
    BY <1>9, <1>i DEF handle_write, TypeOK, WellPlaced, OneOwner, Busy
  <2>4. CountIsCurrent'
    BY <1>9, <1>i DEF handle_write, TypeOK, WellPlaced, CountIsCurrent
  <2>5. AlwaysAccepting'
    BY <1>9, <1>i
    DEF handle_write, TypeOK, WellPlaced, OneOwner, Busy, AlwaysAccepting
  <2> QED
    BY <2>1, <2>2, <2>3, <2>4, <2>5 DEF IInv
<1>10. ASSUME NEW t \in Threads, NEW s \in Sessions, ReadEof(t, s) PROVE IInv'
  <2>1. TypeOK'
    BY <1>10, <1>i DEF ReadEof, TypeOK, WellPlaced, Row, Request, Status
  <2>2. WellPlaced'
    BY <1>10, <1>i DEF ReadEof, TypeOK, WellPlaced, OneOwner, Busy
  <2>3. OneOwner'
    BY <1>10, <1>i DEF ReadEof, TypeOK, WellPlaced, OneOwner, Busy
  <2>4. CountIsCurrent'
    BY <1>10, <1>i DEF ReadEof, TypeOK, WellPlaced, CountIsCurrent
  <2>5. AlwaysAccepting'
    BY <1>10, <1>i
    DEF ReadEof, TypeOK, WellPlaced, OneOwner, Busy, AlwaysAccepting
  <2> QED
    BY <2>1, <2>2, <2>3, <2>4, <2>5 DEF IInv
<1>11. ASSUME NEW t \in Threads, BadRequest(t) PROVE IInv'
  <2>1. TypeOK'
    BY <1>11, <1>i
    DEF BadRequest, StartWrite, TypeOK, WellPlaced, Row, Request, Status
  <2>2. WellPlaced'
    BY <1>11, <1>i
    DEF BadRequest, StartWrite, TypeOK, WellPlaced, OneOwner, Busy
  <2>3. OneOwner'
    BY <1>11, <1>i
    DEF BadRequest, StartWrite, TypeOK, WellPlaced, OneOwner, Busy
  <2>4. CountIsCurrent'
    BY <1>11, <1>i
    DEF BadRequest, StartWrite, TypeOK, WellPlaced, CountIsCurrent
  <2>5. AlwaysAccepting'
    BY <1>11, <1>i
    DEF BadRequest, StartWrite, TypeOK, WellPlaced, OneOwner, Busy,
        AlwaysAccepting
  <2> QED
    BY <2>1, <2>2, <2>3, <2>4, <2>5 DEF IInv
<1>12. ASSUME NEW t \in Threads, BadUri(t) PROVE IInv'
  <2>1. TypeOK'
    BY <1>12, <1>i
    DEF BadUri, StartWrite, TypeOK, WellPlaced, Row, Request, Status
  <2>2. WellPlaced'
    BY <1>12, <1>i DEF BadUri, StartWrite, TypeOK, WellPlaced, OneOwner, Busy
  <2>3. OneOwner'
    BY <1>12, <1>i DEF BadUri, StartWrite, TypeOK, WellPlaced, OneOwner, Busy
  <2>4. CountIsCurrent'
    BY <1>12, <1>i DEF BadUri, StartWrite, TypeOK, WellPlaced, CountIsCurrent
  <2>5. AlwaysAccepting'
    BY <1>12, <1>i
    DEF BadUri, StartWrite, TypeOK, WellPlaced, OneOwner, Busy,
        AlwaysAccepting
  <2> QED
    BY <2>1, <2>2, <2>3, <2>4, <2>5 DEF IInv
<1>13. ASSUME NEW t \in Threads, Dispatch(t) PROVE IInv'
  <2>1. TypeOK'
    <3>1. at[t] \in Sessions /\ asking[at[t]] \in Request
      BY <1>13, <1>i DEF Dispatch, TypeOK, WellPlaced
    <3>2. asking[at[t]].target # NoTarget => asking[at[t]].target \in Targets
      BY <3>1 DEF Request
    <3>3. request_' \in [Sessions -> Targets \cup {NoTarget}]
      BY <1>13, <1>i, <3>1, <3>2 DEF Dispatch, TypeOK
    <3>4. /\ op' \in [Sessions -> {"unborn", "accept", "read_header",
                                  "read_body", "write", "none"}]
          /\ pc' \in [Threads -> {"idle", "parsing", "handling", "tail",
                                 "logging", "exited"}]
          /\ at' \in [Threads -> Sessions \cup {Nobody}]
      BY <1>13, <1>i, <3>1 DEF Dispatch, TypeOK
    <3> QED
      BY <1>13, <1>i, <3>3, <3>4 DEF Dispatch, TypeOK
  <2>2. WellPlaced'
    BY <1>13, <1>i DEF Dispatch, TypeOK, WellPlaced, OneOwner, Busy
  <2>3. OneOwner'
    <3>1. /\ at[t] \in Sessions /\ Busy(t) /\ op[at[t]] = "none"
          /\ \A u \in Threads : Busy(u) /\ at[u] = at[t] => u = t
      BY <1>13, <1>i DEF Dispatch, WellPlaced, OneOwner, Busy
    <3>2. CASE asking[at[t]].body
      <4>1. /\ pc' = [pc EXCEPT ![t] = "idle"]
            /\ at' = [at EXCEPT ![t] = Nobody]
            /\ op' = [op EXCEPT ![at[t]] = "read_body"]
        BY <1>13, <3>2 DEF Dispatch
      <4> QED
        BY <1>i, <3>1, <4>1 DEF TypeOK, WellPlaced, OneOwner, Busy
    <3>3. CASE ~asking[at[t]].body
      <4>1. pc' = [pc EXCEPT ![t] = "handling"] /\ at' = at /\ op' = op
        BY <1>13, <3>3 DEF Dispatch
      <4> QED
        BY <1>i, <3>1, <4>1 DEF TypeOK, WellPlaced, OneOwner, Busy
    <3> QED
      BY <3>2, <3>3
  <2>4. CountIsCurrent'
    BY <1>13, <1>i DEF Dispatch, TypeOK, WellPlaced, CountIsCurrent
  <2>5. AlwaysAccepting'
    BY <1>13, <1>i
    DEF Dispatch, TypeOK, WellPlaced, OneOwner, Busy, AlwaysAccepting
  <2> QED
    BY <2>1, <2>2, <2>3, <2>4, <2>5 DEF IInv
<1>14. ASSUME NEW t \in Threads, handle_request(t) PROVE IInv'
  <2>1. TypeOK'
    BY <1>14, <1>i
    DEF handle_request, StartWrite, TypeOK, WellPlaced, Row, Request, Status
  <2>2. WellPlaced'
    BY <1>14, <1>i
    DEF handle_request, StartWrite, TypeOK, WellPlaced, OneOwner, Busy
  <2>3. OneOwner'
    BY <1>14, <1>i
    DEF handle_request, StartWrite, TypeOK, WellPlaced, OneOwner, Busy
  <2>4. CountIsCurrent'
    BY <1>14, <1>i
    DEF handle_request, StartWrite, TypeOK, WellPlaced, CountIsCurrent
  <2>5. AlwaysAccepting'
    BY <1>14, <1>i
    DEF handle_request, StartWrite, TypeOK, WellPlaced, OneOwner, Busy,
        AlwaysAccepting
  <2> QED
    BY <2>1, <2>2, <2>3, <2>4, <2>5 DEF IInv
<1>15. ASSUME NEW t \in Threads, Lock(t) PROVE IInv'
  <2>1. TypeOK'
    BY <1>15, <1>i
    DEF Lock, Unlocked, TypeOK, WellPlaced, Row, Request, Status
  <2>2. WellPlaced'
    <3>1. /\ pc' = [pc EXCEPT ![t] = "logging"] /\ pc[t] = "tail"
          /\ at' = at /\ asking' = asking
      BY <1>15 DEF Lock
    <3>2. /\ at[t] \in Sessions
          /\ request_[at[t]] \in Targets \cup {NoTarget}
          /\ response_[at[t]] \in Status
      BY <1>i, <3>1 DEF TypeOK, WellPlaced
    <3>3. PICK x \in Targets \cup {NoTarget} :
            found' = [found EXCEPT ![t] =
                        [row |-> <<x, response_[at[t]]>>,
                         count |-> requests_[<<x, response_[at[t]]>>]]]
      BY <1>15, <3>2 DEF Lock
    <3>4. <<x, response_[at[t]]>> \in Row
      BY <3>2 DEF Row
    <3>5. /\ found'[t] \in [row : Row, count : Nat]
          /\ \A u \in Threads : u # t => found'[u] = found[u]
      BY <1>i, <3>3, <3>4 DEF TypeOK
    <3> QED
      BY <1>i, <3>1, <3>5 DEF TypeOK, WellPlaced
  <2>3. OneOwner'
    BY <1>15, <1>i DEF Lock, Unlocked, TypeOK, WellPlaced, OneOwner, Busy
  <2>4. CountIsCurrent'
    BY <1>15, <1>i DEF Lock, Unlocked, TypeOK, WellPlaced, CountIsCurrent
  <2>5. AlwaysAccepting'
    BY <1>15, <1>i
    DEF Lock, Unlocked, TypeOK, WellPlaced, OneOwner, Busy, AlwaysAccepting
  <2> QED
    BY <2>1, <2>2, <2>3, <2>4, <2>5 DEF IInv
<1>16. ASSUME NEW t \in Threads, log_request(t) PROVE IInv'
  <2>1. TypeOK'
    BY <1>16, <1>i
    DEF log_request, Counted, TypeOK, WellPlaced, Row, Request, Status
  <2>2. WellPlaced'
    BY <1>16, <1>i
    DEF log_request, Counted, TypeOK, WellPlaced, OneOwner, Busy
  <2>3. OneOwner'
    BY <1>16, <1>i
    DEF log_request, Counted, TypeOK, WellPlaced, OneOwner, Busy
  <2>4. CountIsCurrent'
    BY <1>16, <1>i
    DEF log_request, Counted, TypeOK, WellPlaced, CountIsCurrent
  <2>5. AlwaysAccepting'
    BY <1>16, <1>i
    DEF log_request, Counted, TypeOK, WellPlaced, OneOwner, Busy,
        AlwaysAccepting
  <2> QED
    BY <2>1, <2>2, <2>3, <2>4, <2>5 DEF IInv
<1>17. ASSUME NEW t \in Threads, handle_stop(t) PROVE IInv'
  BY <1>17
  DEF handle_stop, IInv, TypeOK, WellPlaced, OneOwner, Busy, CountIsCurrent,
      AlwaysAccepting
<1>18. ASSUME NEW t \in Threads, ThreadExit(t) PROVE IInv'
  <2>1. TypeOK'
    BY <1>18, <1>i DEF ThreadExit, TypeOK, WellPlaced, Row, Request, Status
  <2>2. WellPlaced'
    BY <1>18, <1>i DEF ThreadExit, TypeOK, WellPlaced, OneOwner, Busy
  <2>3. OneOwner'
    BY <1>18, <1>i DEF ThreadExit, TypeOK, WellPlaced, OneOwner, Busy
  <2>4. CountIsCurrent'
    BY <1>18, <1>i DEF ThreadExit, TypeOK, WellPlaced, CountIsCurrent
  <2>5. AlwaysAccepting'
    BY <1>18, <1>i
    DEF ThreadExit, TypeOK, WellPlaced, OneOwner, Busy, AlwaysAccepting
  <2> QED
    BY <2>1, <2>2, <2>3, <2>4, <2>5 DEF IInv
<1>19. CASE Exit
  BY <1>19
  DEF Exit, IInv, TypeOK, WellPlaced, OneOwner, Busy, CountIsCurrent,
      AlwaysAccepting
<1>20. CASE Terminate
  BY <1>20
  DEF Terminate, IInv, TypeOK, WellPlaced, OneOwner, Busy, CountIsCurrent,
      AlwaysAccepting
<1>21. CASE UNCHANGED vars
  BY <1>21
  DEF vars, IInv, TypeOK, WellPlaced, OneOwner, Busy, CountIsCurrent,
      AlwaysAccepting
<1> QED
  BY <1>1, <1>2, <1>3, <1>4, <1>5, <1>6, <1>7, <1>8, <1>9, <1>10, <1>11,
     <1>12, <1>13, <1>14, <1>15, <1>16, <1>17, <1>18, <1>19, <1>20, <1>21
  DEF Next, Take, Continue, EndpointThrows, WriteThrows, ParserThrows,
      RequestFails, TargetFreed

(* The inductive invariant holds in every reachable state of the server. *)
THEOREM Invariance == Spec => []IInv
<1>1. Init => IInv
  BY InitIInv
<1>2. IInv /\ [Next]_vars => IInv'
  BY NextIInv
<1> QED
  BY <1>1, <1>2, PTL DEF Spec

(* Type correctness of the server, its sessions and its threads. *)
THEOREM TypeCorrect == Spec => []TypeOK
<1>1. IInv => TypeOK
  BY DEF IInv
<1> QED
  BY <1>1, Invariance, PTL

(* session.cc takes no lock and uses no strand: the chain read, handle,    *)
(* write, read is one.  No two threads of a pool of any size run handlers  *)
(* of one session at once, up to the end of write().                       *)
THEOREM SessionIsStrand == Spec => []OneOwner
<1>1. IInv => OneOwner
  BY DEF IInv
<1> QED
  BY <1>1, Invariance, PTL

(* mtx_ makes log_request's find and insert one step: no thread of a pool  *)
(* of any size overwrites a count that another has changed.                *)
THEOREM NoLostUpdate == Spec => []CountIsCurrent
<1>1. IInv => CountIsCurrent
  BY DEF IInv
<1> QED
  BY <1>1, Invariance, PTL

(* start_accept and handle_accept keep exactly one accept outstanding.     *)
THEOREM AcceptChain == Spec => []AlwaysAccepting
<1>1. IInv => AlwaysAccepting
  BY DEF IInv
<1> QED
  BY <1>1, Invariance, PTL
-----------------------------------------------------------------------------
(* The status page has finitely many rows. *)
LEMMA RowsAreFinite == IsFiniteSet(Row)
<1>1. IsFiniteSet(Targets \cup {NoTarget})
  BY ServerAssumption, FS_AddElement
<1>2. IsFiniteSet(Status)
  <2>1. IsFiniteSet({"ok"})
    BY FS_Singleton
  <2>2. Status = {"ok"} \cup {"bad_request"}
    BY DEF Status
  <2> QED
    BY <2>1, <2>2, FS_AddElement
<1> QED
  BY <1>1, <1>2, FS_Product DEF Row

(* What a step does to the log: nothing, or a thread enters the end of     *)
(* write() with a response that it has begun, or it leaves with one logged.*)
Quiet == UNCHANGED <<begun, requests_, InTail>>
Begins(t) ==
  /\ t \in Threads \ InTail
  /\ begun' = begun + 1 /\ requests_' = requests_
  /\ InTail' = InTail \cup {t}
Logs(t) ==
  /\ t \in InTail
  /\ begun' = begun
  /\ InTail' = InTail \ {t}
  /\ \E r \in Row : requests_' = [requests_ EXCEPT ![r] = requests_[r] + 1]

(* There are no other steps; that a thread which stores a count adds one   *)
(* to the count in requests_ is where CountIsCurrent is needed.            *)
LEMMA StepKinds ==
  ASSUME IInv, [Next]_vars
  PROVE  Quiet \/ \E t \in Threads : Begins(t) \/ Logs(t)
<1> USE DEF client, log, history
<1>i. TypeOK /\ WellPlaced /\ CountIsCurrent
  BY DEF IInv
<1>1. ASSUME NEW s \in Sessions, Connect(s) PROVE Quiet
  BY <1>1 DEF Connect, Quiet, InTail
<1>2. ASSUME NEW s \in Sessions, NEW r \in Requests, Send(s, r) PROVE Quiet
  BY <1>2 DEF Send, Quiet, InTail
<1>3. ASSUME NEW s \in Sessions, NEW how \in {"eof", "reset"}, Leave(s, how)
      PROVE  Quiet
  BY <1>3 DEF Leave, Quiet, InTail
<1>4. CASE Signal \/ Exit \/ Terminate \/ UNCHANGED vars
  BY <1>4 DEF Signal, Exit, Terminate, vars, Quiet, InTail
<1>5. ASSUME NEW t \in Threads, NEW s \in Sessions,
             \/ handle_accept(t, s) \/ handle_accept_error(t, s)
             \/ handle_write(t, s) \/ ReadEof(t, s)
      PROVE  Quiet
  BY <1>5 DEF handle_accept, handle_accept_error, handle_write, ReadEof,
              Quiet, InTail
<1>6. ASSUME NEW t \in Threads, NEW s \in Sessions,
             handle_read_header(t, s) \/ handle_read_body(t, s)
      PROVE  Quiet
  BY <1>6, <1>i DEF handle_read_header, handle_read_body, Free, TypeOK, Quiet,
                    InTail
<1>7. ASSUME NEW t \in Threads, BadRequest(t) \/ BadUri(t) \/ handle_request(t)
      PROVE  Begins(t)
  <2>1. /\ pc[t] \in {"parsing", "handling"}
        /\ pc' = [pc EXCEPT ![t] = "tail"]
        /\ begun' = begun + 1 /\ requests_' = requests_
    BY <1>7 DEF BadRequest, BadUri, handle_request, StartWrite
  <2> QED
    BY <1>i, <2>1 DEF TypeOK, Begins, InTail
<1>8. ASSUME NEW t \in Threads, Dispatch(t) PROVE Quiet
  <2>1. /\ pc[t] = "parsing"
        /\ \/ pc' = [pc EXCEPT ![t] = "idle"]
           \/ pc' = [pc EXCEPT ![t] = "handling"]
        /\ begun' = begun /\ requests_' = requests_
    BY <1>8 DEF Dispatch
  <2> QED
    BY <1>i, <2>1 DEF TypeOK, Quiet, InTail
<1>9. ASSUME NEW t \in Threads, Lock(t) PROVE Quiet
  <2>1. /\ pc[t] = "tail" /\ pc' = [pc EXCEPT ![t] = "logging"]
        /\ begun' = begun /\ requests_' = requests_
    BY <1>9 DEF Lock
  <2> QED
    BY <1>i, <2>1 DEF TypeOK, Quiet, InTail
<1>10. ASSUME NEW t \in Threads, log_request(t) PROVE Logs(t)
  <2>1. /\ pc[t] = "logging" /\ pc' = [pc EXCEPT ![t] = "idle"]
        /\ begun' = begun
        /\ requests_' = [requests_ EXCEPT ![found[t].row]
                                            = found[t].count + 1]
    BY <1>10 DEF log_request, Counted
  <2>2. /\ found[t].row \in Row
        /\ found[t].count = requests_[found[t].row]
    BY <1>i, <2>1 DEF WellPlaced, CountIsCurrent
  <2>3. t \in InTail /\ InTail' = InTail \ {t}
    BY <1>i, <2>1 DEF TypeOK, InTail
  <2> QED
    BY <2>1, <2>2, <2>3 DEF Logs
<1>11. ASSUME NEW t \in Threads, handle_stop(t) PROVE Quiet
  BY <1>11 DEF handle_stop, Quiet, InTail
<1>12. ASSUME NEW t \in Threads, ThreadExit(t) PROVE Quiet
  BY <1>12, <1>i DEF ThreadExit, TypeOK, Quiet, InTail
<1> QED
  BY <1>1, <1>2, <1>3, <1>4, <1>5, <1>6, <1>7, <1>8, <1>9, <1>10, <1>11, <1>12
  DEF Next, Take, Continue, EndpointThrows, WriteThrows, ParserThrows,
      RequestFails, TargetFreed

(* What the step does to the total and to the number of threads that are   *)
(* at the end of write().                                                  *)
LEMMA StepOfTotal ==
  ASSUME IInv, [Next]_vars
  PROVE  /\ Total \in Nat /\ Cardinality(InTail) \in Nat
         /\ \/ /\ begun' = begun /\ Total' = Total
               /\ Cardinality(InTail)' = Cardinality(InTail)
            \/ /\ begun' = begun + 1 /\ Total' = Total
               /\ Cardinality(InTail)' = Cardinality(InTail) + 1
               /\ Cardinality(InTail) < Cardinality(Threads)
            \/ /\ begun' = begun /\ Total' = Total + 1
               /\ Cardinality(InTail)' = Cardinality(InTail) - 1
               /\ Cardinality(InTail) > 0
<1>1. requests_ \in [Row -> Nat]
  BY DEF IInv, TypeOK
<1>2. \A r \in Row : /\ SumFunction(requests_) \in Nat
                     /\ SumFunction([requests_ EXCEPT ![r] = requests_[r] + 1])
                          = SumFunction(requests_) + 1
  BY <1>1, RowsAreFinite, SumIncrement
<1>3. Total \in Nat
  <2>1. <<NoTarget, "ok">> \in Row
    BY DEF Row, Status
  <2> QED
    BY <1>2, <2>1 DEF Total
<1>4. /\ InTail \in SUBSET Threads /\ IsFiniteSet(InTail)
      /\ Cardinality(InTail) \in Nat /\ Cardinality(Threads) \in Nat
      /\ Cardinality(InTail) <= Cardinality(Threads)
      /\ Cardinality(Threads) = Cardinality(InTail) => Threads = InTail
      /\ Cardinality(InTail) = 0 => InTail = {}
  <2>1. InTail \in SUBSET Threads
    BY DEF InTail
  <2>2. IsFiniteSet(Threads)
    BY ServerAssumption
  <2> QED
    BY <2>1, <2>2, FS_Subset, FS_CardinalityType, FS_EmptySet
<1>5. CASE Quiet
  BY <1>3, <1>4, <1>5 DEF Quiet, Total
<1>6. ASSUME NEW t \in Threads, Begins(t)
      PROVE  /\ begun' = begun + 1 /\ Total' = Total
             /\ Cardinality(InTail)' = Cardinality(InTail) + 1
             /\ Cardinality(InTail) < Cardinality(Threads)
  <2>1. /\ t \in Threads \ InTail /\ begun' = begun + 1
        /\ requests_' = requests_ /\ InTail' = InTail \cup {t}
    BY <1>6 DEF Begins
  <2>2. Total' = Total
    BY <2>1 DEF Total
  <2>3. Cardinality(InTail \cup {t}) = Cardinality(InTail) + 1
    BY <1>4, <2>1, FS_AddElement
  <2> QED
    BY <1>4, <2>1, <2>2, <2>3
<1>7. ASSUME NEW t \in Threads, Logs(t)
      PROVE  /\ begun' = begun /\ Total' = Total + 1
             /\ Cardinality(InTail)' = Cardinality(InTail) - 1
             /\ Cardinality(InTail) > 0
  <2>1. t \in InTail /\ begun' = begun /\ InTail' = InTail \ {t}
    BY <1>7 DEF Logs
  <2>2. PICK r \in Row :
          requests_' = [requests_ EXCEPT ![r] = requests_[r] + 1]
    BY <1>7 DEF Logs
  <2>3. Total' = Total + 1
    BY <1>2, <2>2 DEF Total
  <2>4. Cardinality(InTail \ {t}) = Cardinality(InTail) - 1
    BY <1>4, <2>1, FS_RemoveElement
  <2> QED
    BY <1>4, <2>1, <2>3, <2>4
<1> QED
  BY <1>3, <1>4, <1>5, <1>6, <1>7, StepKinds

(* server::run joins every thread before ~server runs. *)
Joined == phase = "destroyed" => \A t \in Threads : pc[t] = "exited"

(* LogIsComplete is preserved by every step: only Exit destroys the server,*)
(* and it waits for every thread.                                          *)
LEMMA JoinedNext == Joined /\ [Next]_vars => Joined'
  BY DEF Joined, Next, vars, Alive, Free, Terminate, Connect, Send, Leave,
         Signal, Take, Continue, handle_accept, handle_accept_error,
         handle_read_header, handle_read_body, handle_write, ReadEof,
         EndpointThrows, WriteThrows, BadRequest, ParserThrows, BadUri, Dispatch,
         handle_request, RequestFails, Lock, TargetFreed, log_request,
         handle_stop, ThreadExit, Exit

(* What there is to say of the log, in the part that steps preserve. *)
Balanced == Joined /\ begun = Total + Cardinality(InTail)

LEMMA InitBalanced == Init => Balanced
<1> SUFFICES ASSUME Init PROVE Balanced
  OBVIOUS
<1>1. Total = 0
  BY RowsAreFinite, SumOfNone DEF Init, Total
<1>2. InTail = {} /\ Cardinality(InTail) = 0
  BY FS_EmptySet DEF Init, InTail
<1> QED
  BY <1>1, <1>2 DEF Init, Balanced, Joined

LEMMA NextBalanced == IInv /\ Balanced /\ [Next]_vars => Balanced'
<1> SUFFICES ASSUME IInv, Balanced, [Next]_vars PROVE Balanced'
  OBVIOUS
<1>1. Joined'
  BY JoinedNext DEF Balanced
<1>2. begun' = Total' + Cardinality(InTail)'
  BY StepOfTotal DEF Balanced
<1> QED
  BY <1>1, <1>2 DEF Balanced

LEMMA BalancedIsComplete == IInv /\ Balanced => LogIsComplete
<1> SUFFICES ASSUME IInv, Balanced PROVE LogIsComplete
  OBVIOUS
<1>1. phase = "destroyed" => \A t \in Threads : pc[t] = "exited"
  BY DEF Balanced, Joined
<1>2. phase = "destroyed" => InTail = {}
  BY <1>1 DEF InTail
<1>3. begun = Total + Cardinality(InTail)
  BY DEF Balanced
<1>4. Total \in Nat
  <2>1. requests_ \in [Row -> Nat] /\ <<NoTarget, "ok">> \in Row
    BY DEF IInv, TypeOK, Row, Status
  <2> QED
    BY <2>1, RowsAreFinite, SumIncrement DEF Total
<1>5. Cardinality({}) = 0
  BY FS_EmptySet
<1> QED
  BY <1>1, <1>2, <1>3, <1>4, <1>5 DEF LogIsComplete

(* "Total Number of Requests Served" of the status page: the responses     *)
(* begun by a pool of any size are those logged and those whose thread is  *)
(* at the end of write(), and none is missing when ~server runs.           *)
THEOREM LogComplete == Spec => []LogIsComplete
<1>1. Init => Balanced
  BY InitBalanced
<1>2. IInv /\ Balanced /\ [Next]_vars => Balanced'
  BY NextBalanced
<1>3. IInv /\ Balanced => LogIsComplete
  BY BalancedIsComplete
<1> QED
  BY <1>1, <1>2, <1>3, Invariance, PTL DEF Spec

(* The server, with its threads, locks and rows, implements ResponseLedger:*)
(* what log_request keeps is a record of the responses in which each is    *)
(* entered once and which is never behind by more than the pool.           *)
THEOREM ServerIsLedger == Spec => IsLedger
<1>1. Init => Ledger!Init
  BY RowsAreFinite, SumOfNone DEF Init, Ledger!Init, Total
<1>2. IInv /\ Balanced /\ [Next]_vars => [Ledger!Next]_<<begun, Total>>
  <2> SUFFICES ASSUME IInv, Balanced, [Next]_vars
               PROVE  Ledger!Next \/ UNCHANGED <<begun, Total>>
    OBVIOUS
  <2>1. begun = Total + Cardinality(InTail) /\ Cardinality(Threads) \in Nat
    BY ServerAssumption, FS_CardinalityType DEF Balanced
  <2> QED
    BY <2>1, StepOfTotal DEF Ledger!Next, Ledger!Answer, Ledger!Record
<1>3. Init => Balanced
  BY InitBalanced
<1>4. IInv /\ Balanced /\ [Next]_vars => Balanced'
  BY NextBalanced
<1> QED
  BY <1>1, <1>2, <1>3, <1>4, Invariance, PTL DEF Spec, IsLedger, Ledger!Spec
=============================================================================
