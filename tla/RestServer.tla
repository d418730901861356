----------------------------- MODULE RestServer -----------------------------
(***************************************************************************)
(* Server.Listen of src/rest/server.go.  Listen starts an outer goroutine, *)
(* which starts an inner one and then waits for the context:               *)
(*                                                                         *)
(*   inner   srv.ListenAndServe(); a failure is sent on errCh              *)
(*   outer   <-ctx.Done(); onShutdown hook; srv.Shutdown under a deadline; *)
(*           a failure is sent on errCh; errCh is closed                   *)
(*                                                                         *)
(* errCh has room for one error.  http.Server is the library's: it tracks  *)
(* its listener and the connections it accepted, and Shutdown returns when *)
(* the accept loop has ended and no connection is active, or with an error *)
(* once its context has expired.  The application cancels the context when *)
(* it likes and reads errCh.                                               *)
(***************************************************************************)
EXTENDS Naturals, Sequences

CONSTANTS Requests, \* requests that clients may send
          HasHook   \* WithOnShutdown was given

ASSUME ServerAssumption == HasHook \in BOOLEAN

VARIABLES
  cancelled,   \* ctx.Done() is closed
  inner,       \* program counter of the inner goroutine
  outer,       \* program counter of the outer goroutine
  deadline,    \* shutdownCtx: not made yet, running, expired
  inShutdown,  \* http.Server.inShutdown; its listeners are closed
  request,     \* what each request is doing
  errCh,       \* the buffer of errCh
  closed,      \* errCh has been closed
  received,    \* what the application has received from errCh
  sent,        \* history: the errors the goroutines have put on errCh
  crashed      \* a goroutine sent on the closed errCh: the process is dead

vars == <<cancelled, inner, outer, deadline, inShutdown, request, errCh,
          closed, received, sent, crashed>>

Errors == {"serve", "shutdown"}
ErrChCap == 1

TypeOK ==
  /\ cancelled \in BOOLEAN
  /\ inner \in {"start", "bind", "serving", "failed", "exited"}
  /\ outer \in {"wait", "hook", "shutdown", "drain", "report", "close", "exited"}
  /\ deadline \in {"none", "running", "expired"}
  /\ inShutdown \in BOOLEAN
  /\ request \in [Requests -> {"new", "active", "done"}]
  /\ errCh \in Seq(Errors) /\ Len(errCh) <= ErrChCap
  /\ closed \in BOOLEAN
  /\ received \subseteq Errors \cup {"closed"}
  /\ sent \subseteq Errors
  /\ crashed \in BOOLEAN

Init ==
  /\ cancelled = FALSE
  /\ inner = "start" /\ outer = "wait"
  /\ deadline = "none"
  /\ inShutdown = FALSE
  /\ request = [r \in Requests |-> "new"]
  /\ errCh = <<>> /\ closed = FALSE
  /\ received = {} /\ sent = {}
  /\ crashed = FALSE

Active == {r \in Requests : request[r] = "active"}

channel == <<errCh, closed, sent, received>>
server == <<inShutdown, request>>

(* A step of one goroutine that touches nothing but its program counter.   *)
InnerMove(from, to) ==
  /\ ~crashed /\ inner = from /\ inner' = to
  /\ UNCHANGED <<cancelled, outer, deadline, server, channel, crashed>>
OuterMove(from, to) ==
  /\ ~crashed /\ outer = from /\ outer' = to
  /\ UNCHANGED <<cancelled, inner, server, crashed>>

(* errCh <- e: blocks while the buffer is full.  (An operator whose name   *)
(* says how it is wrong is a plausible mistake, for the mutation checks.)  *)
SendUnbounded(e) ==
  /\ ~closed
  /\ errCh' = Append(errCh, e)
  /\ sent' = sent \cup {e}
  /\ UNCHANGED <<closed, received>>
Send(e) ==
  /\ ~closed /\ Len(errCh) < ErrChCap
  /\ errCh' = Append(errCh, e)
  /\ sent' = sent \cup {e}
  /\ UNCHANGED <<closed, received>>

-----------------------------------------------------------------------------
(* The inner goroutine: srv.ListenAndServe().                              *)

(* ListenAndServe refuses to start on a server being shut down.            *)
ServeStart == InnerMove("start", IF inShutdown THEN "exited" ELSE "bind")

(* net.Listen succeeds.  Serve registers the listener unless Shutdown has  *)
(* begun, in which case it closes it and returns ErrServerClosed.          *)
BindOk == InnerMove("bind", IF inShutdown THEN "exited" ELSE "serving")

(* net.Listen fails: the error is not ErrServerClosed whatever the outer   *)
(* goroutine is doing.                                                     *)
BindFail == InnerMove("bind", "failed")

(* Accept fails for good on a server that is not being shut down.          *)
AcceptFail == ~inShutdown /\ InnerMove("serving", "failed")

(* Accept fails because Shutdown closed the listener: ErrServerClosed.     *)
ServeClosed == inShutdown /\ InnerMove("serving", "exited")

(* errCh <- failed to start HTTP server; a send on a closed channel, or    *)
(* one that is blocked when the channel is closed, panics.                 *)
ReportServeLost == InnerMove("failed", "exited")
ReportServe ==
  /\ ~crashed /\ inner = "failed"
  /\ \/ Send("serve") /\ inner' = "exited" /\ UNCHANGED crashed
     \/ closed /\ crashed' = TRUE /\ UNCHANGED <<inner, channel>>
  /\ UNCHANGED <<cancelled, outer, deadline, server>>

-----------------------------------------------------------------------------
(* The outer goroutine, from <-ctx.Done() on.                              *)

CtxDone ==
  /\ cancelled
  /\ OuterMove("wait", IF HasHook THEN "hook" ELSE "shutdown")
  /\ deadline' = "running"
  /\ UNCHANGED channel

(* s.onShutdown(shutdownCtx) returns.                                      *)
HookReturn == OuterMove("hook", "shutdown") /\ UNCHANGED <<deadline, channel>>

(* srv.Shutdown begins: it marks the server and closes its listeners.      *)
ShutdownBegin ==
  /\ ~crashed /\ outer = "shutdown" /\ outer' = "drain"
  /\ inShutdown' = TRUE
  /\ UNCHANGED <<cancelled, inner, deadline, request, channel, crashed>>

(* srv.Shutdown returns: nil when the accept loop has ended and no         *)
(* connection is active, the context's error when it has expired first.    *)
ShutdownReturnEager ==
  /\ inner # "serving" /\ (Active = {} \/ deadline = "expired")
  /\ OuterMove("drain", "close")
  /\ UNCHANGED <<deadline, channel>>
ShutdownReturn ==
  /\ inner # "serving"
  /\ \/ Active = {} /\ OuterMove("drain", "close")
     \/ Active # {} /\ deadline = "expired" /\ OuterMove("drain", "report")
  /\ UNCHANGED <<deadline, channel>>

(* errCh <- failed to gracefully shutdown HTTP server.                     *)
ReportShutdownDropsOld ==
  /\ OuterMove("report", "close")
  /\ errCh' = <<"shutdown">> /\ sent' = sent \cup {"shutdown"}
  /\ UNCHANGED <<deadline, closed, received>>
ReportShutdown == OuterMove("report", "close") /\ Send("shutdown") /\ UNCHANGED deadline

(* defer close(errCh)                                                      *)
CloseErrCh ==
  /\ OuterMove("close", "exited")
  /\ closed' = TRUE
  /\ UNCHANGED <<deadline, errCh, sent, received>>

(* The timer of context.WithTimeout.                                       *)
ExpireNever == FALSE /\ UNCHANGED vars
Expire ==
  /\ ~crashed /\ deadline = "running" /\ outer # "exited"
  /\ deadline' = "expired"
  /\ UNCHANGED <<cancelled, inner, outer, server, channel, crashed>>

-----------------------------------------------------------------------------
(* Clients and the application.                                            *)

RequestMove(r, from, to) ==
  /\ ~crashed /\ request[r] = from
  /\ request' = [request EXCEPT ![r] = to]
  /\ UNCHANGED <<cancelled, inner, outer, deadline, inShutdown, channel, crashed>>

(* A connection is accepted, possibly one that arrived just before the     *)
(* listener was closed, and its handler starts.                            *)
Accept(r) == inner = "serving" /\ RequestMove(r, "new", "active")

(* The handler ends, by returning or by a panic that net/http recovers.    *)
Finish(r) == RequestMove(r, "active", "done")

Cancel ==
  /\ ~crashed /\ ~cancelled /\ cancelled' = TRUE
  /\ UNCHANGED <<inner, outer, deadline, server, channel, crashed>>

(* err := <-errc: a buffered error first, nil once errCh is closed.        *)
Receive ==
  /\ ~crashed
  /\ \/ errCh # <<>> /\ errCh' = Tail(errCh) /\ received' = received \cup {Head(errCh)}
     \/ /\ errCh = <<>> /\ closed /\ "closed" \notin received
        /\ received' = received \cup {"closed"} /\ UNCHANGED errCh
  /\ UNCHANGED <<cancelled, inner, outer, deadline, server, closed, sent, crashed>>

-----------------------------------------------------------------------------

Inner == ServeStart \/ BindOk \/ BindFail \/ AcceptFail \/ ServeClosed \/ ReportServe

OuterShutdown ==
  CtxDone \/ ShutdownBegin \/ ShutdownReturn \/ ReportShutdown \/ CloseErrCh

Next ==
  \/ Inner \/ OuterShutdown \/ HookReturn \/ Expire \/ Cancel \/ Receive
  \/ \E r \in Requests : Accept(r) \/ Finish(r)

Spec == Init /\ [][Next]_vars

-----------------------------------------------------------------------------
(* The inductive invariant: once srv.Shutdown has begun the listener stays *)
(* closed, past it the accept loop has ended, and past its report no       *)
(* request is active unless an error says so.                              *)
ServerInv ==
  /\ TypeOK
  /\ closed => outer = "exited"
  /\ outer \in {"drain", "report", "close", "exited"} => inShutdown
  /\ outer \in {"report", "close", "exited"} => inner # "serving"
  /\ outer \in {"close", "exited"} /\ sent = {} => Active = {}

-----------------------------------------------------------------------------
(* Properties *)

(* TestListen_drainsInflightRequests, for every schedule: errCh closed     *)
(* with no error on it means that the accept loop has stopped and every    *)
(* request that was ever accepted has completed.                           *)
CleanCloseMeansDrained ==
  closed /\ sent = {} => inner # "serving" /\ Active = {}

(* The context's cancellation ends in a closed errCh.                      *)
CancelClosesErrCh == cancelled ~> closed \/ crashed

(* A server that could not start or stopped accepting says so: the         *)
(* application receives the error of ListenAndServe.                       *)
ServeErrorReported == inner = "failed" ~> "serve" \in received \/ crashed

(* server.go: "When the context is cancelled, it performs a graceful       *)
(* shutdown": no goroutine of Listen kills the process.                    *)
NoSendOnClosed == ~crashed
=============================================================================
