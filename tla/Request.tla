------------------------------- MODULE Request -------------------------------
(***************************************************************************)
(* A request's way through a garlic service: the middleware chain          *)
(* (src/middleware), the route wrapper and the handlers for unrouted       *)
(* requests (src/rest), parsing and validation of its input (src/request,  *)
(* src/validator), the errors a handler builds and propagates              *)
(* (src/errors), and the answer.  Several requests run at once; they share *)
(* the lazily built logger, the active-requests instrument and a           *)
(* package-level error of the application.                                 *)
(*                                                                         *)
(* An error's Details is a map on the heap: newErrorT makes one, wrap      *)
(* shares the cause's, and options write into whatever map the error       *)
(* holds.  The map a request allocates is named after the request; Shared  *)
(* is the one of the package-level error.                                  *)
(***************************************************************************)
EXTENDS Naturals, Sequences, FiniteSets

CONSTANTS
  Requests,   \* requests, each served by its own goroutine
  Stacks,     \* the middleware chains considered: sequences of names
  MaxDepth    \* bound on the propagations of one error

Middlewares == {"ContextCancel", "Logging", "Tracing", "PropagateTracing",
                "MetricsMonitor", "ContentTypeJson", "Cors"}

ASSUME RequestAssumption ==
  /\ \A s \in Stacks : s \in Seq(Middlewares)
  /\ Requests \cap {"none", "main", "shared"} = {}
  /\ MaxDepth \in Nat

Shared == "shared"

(* Where a request goes: a route, no route, a route of another method, the *)
(* health route, or a router without routes, which skips the chain.        *)
Targets == {"route", "missing", "method", "health", "bare"}

Keys == {"hint", "validation"}
Nobody == [by |-> "none", n |-> 0]
NoDetails == [k \in Keys |-> Nobody]
NoError == [class |-> "none", status |-> 0, map |-> "none", origin |-> FALSE, from |-> "none", depth |-> 0]
NoAnswer == [status |-> 0, class |-> "none", details |-> NoDetails, origin |-> FALSE]

VARIABLES
  main,      \* the application's start; with or without a logger, it serves
  stack,     \* the middleware chain
  global,    \* the logger: "none", "main" when there is one before the first
             \* request, or the request that built it
  pc,        \* where a request is
  glob,      \* where it is inside Global()
  target,    \* what it asks for
  frames,    \* the middleware calls on its stack
  ctx,       \* its context: cancellable and not yet cancelled, the logger
  writer,    \* the ResponseWriter: what was sent, and what the recorders hold
  err,       \* the error its handler is about to return
  details,   \* the heap of Details maps
  hints,     \* history: hints written for a request, and the number of the last
  answer,    \* the error answer its handler wrote
  panicking, \* a panic unwinds its stack
  active,    \* requests counted by active_requests
  lines      \* the log line and the traffic count of a request

vars == <<main, stack, global, pc, glob, target, frames, ctx, writer, err,
          details, hints, answer, panicking, active, lines>>

Init ==
  /\ main = "starting"
  /\ stack \in Stacks
  /\ global = "none"
  /\ pc = [r \in Requests |-> "new"]
  /\ glob = [r \in Requests |-> "idle"]
  /\ target = [r \in Requests |-> "none"]
  /\ frames = [r \in Requests |-> << >>]
  /\ ctx = [r \in Requests |-> [live |-> FALSE, logger |-> "none"]]
  /\ writer = [r \in Requests |-> [sent |-> 0, recorded |-> 200, calls |-> 0]]
  /\ err = [r \in Requests |-> NoError]
  /\ details = [m \in Requests \cup {Shared} |-> NoDetails]
  /\ hints = [r \in Requests |-> 0]
  /\ answer = [r \in Requests |-> NoAnswer]
  /\ panicking = [r \in Requests |-> FALSE]
  /\ active = {}
  /\ lines = [r \in Requests |-> [logged |-> 0, counted |-> 0]]

Goto(r, l) == pc' = [pc EXCEPT ![r] = l]

-----------------------------------------------------------------------------
(* The application's start: logging.Init, fatal when Init or Global was    *)
(* called before it.                                                       *)
InitLogger ==
  /\ main \in {"starting", "initialised"}
  /\ \/ global = "none" /\ global' = "main" /\ main' = "initialised"
     \/ global # "none" /\ main' = "fatal" /\ UNCHANGED global
  /\ UNCHANGED <<stack, pc, glob, target, frames, ctx, writer, err, details,
                 hints, answer, panicking, active, lines>>

Serve ==
  /\ \/ main = "starting" /\ main' = "unconfigured"
     \/ main = "initialised" /\ main' = "configured"
  /\ UNCHANGED <<stack, global, pc, glob, target, frames, ctx, writer, err,
                 details, hints, answer, panicking, active, lines>>

-----------------------------------------------------------------------------
(* logging.Global: test, build and read are three steps, and nothing locks *)
(* them (validator.Global has the same shape).                             *)

Asking(r) == pc[r] = "Logging" \/ (pc[r] = "unrouted" /\ ctx[r].logger = "none")

GlobalTest(r) ==
  /\ Asking(r) /\ glob[r] = "idle"
  /\ glob' = [glob EXCEPT ![r] = IF global = "none" THEN "build" ELSE "read"]
  /\ UNCHANGED <<main, stack, global, pc, target, frames, ctx, writer, err,
                 details, hints, answer, panicking, active, lines>>

GlobalBuild(r) ==
  /\ Asking(r) /\ glob[r] = "build"
  /\ global' = r
  /\ glob' = [glob EXCEPT ![r] = "read"]
  /\ UNCHANGED <<main, stack, pc, target, frames, ctx, writer, err, details,
                 hints, answer, panicking, active, lines>>

HasGlobal(r) == glob[r] = "read"
Release(r) == glob' = [glob EXCEPT ![r] = "idle"]

-----------------------------------------------------------------------------
(* The response writer, under the recorders of Logging and MetricsMonitor. *)

(* Wrong: the recorders keep what they started with.                       *)
WriteHeaderUnrecorded(w, status) ==
  [sent |-> IF w.sent = 0 THEN status ELSE w.sent, recorded |-> w.recorded,
   calls |-> IF w.calls < 2 THEN w.calls + 1 ELSE 2]

(* Both recorders note every call; the wire carries the first.             *)
WriteHeader(w, status) ==
  [sent |-> IF w.sent = 0 THEN status ELSE w.sent, recorded |-> status,
   calls |-> IF w.calls < 2 THEN w.calls + 1 ELSE 2]

(* Response.Must: when encoding fails http.Error writes a second header.   *)
Must(w, status, encodes) ==
  LET once == WriteHeader(w, status)
  IN  IF encodes THEN once ELSE WriteHeader(once, 500)

-----------------------------------------------------------------------------
(* The chain.  A middleware calls the next one; what it does afterwards is *)
(* in Leave.                                                               *)

Chain(r) == IF target[r] = "bare" THEN << >> ELSE stack

(* The middleware after the ones on the stack, or the router.              *)
NextOf(r, k) == IF k < Len(Chain(r)) THEN Chain(r)[k + 1] ELSE "route"

Call(r) ==
  /\ frames' = [frames EXCEPT ![r] = Append(@, pc[r])]
  /\ Goto(r, NextOf(r, Len(frames[r]) + 1))

Panic(r) ==
  /\ panicking' = [panicking EXCEPT ![r] = TRUE]
  /\ Goto(r, "leave")

(* net/http starts the handler's goroutine.                                *)
Arrive(r, t) ==
  /\ main \in {"configured", "unconfigured"} /\ pc[r] = "new"
  /\ target' = [target EXCEPT ![r] = t]
  /\ pc' = [pc EXCEPT ![r] = IF t = "bare" \/ stack = << >> THEN "route" ELSE stack[1]]
  /\ UNCHANGED <<main, stack, global, glob, frames, ctx, writer, err, details,
                 hints, answer, panicking, active, lines>>

(* ContextCancel: the request goes on with a context of its own, cancelled *)
(* when next returns.                                                      *)
ContextCancel(r) ==
  /\ pc[r] = "ContextCancel"
  /\ ctx' = [ctx EXCEPT ![r].live = TRUE]
  /\ Call(r)
  /\ UNCHANGED <<main, stack, global, glob, target, writer, err, details, hints,
                 answer, panicking, active, lines>>

(* ContentTypeJson sets a header of the response.                          *)
ContentTypeJson(r) ==
  /\ pc[r] = "ContentTypeJson"
  /\ Call(r)
  /\ UNCHANGED <<main, stack, global, glob, target, ctx, writer, err, details, hints,
                 answer, panicking, active, lines>>

Logging(r) ==
  /\ pc[r] = "Logging" /\ HasGlobal(r)
  /\ ctx' = [ctx EXCEPT ![r].logger = global]
  /\ Release(r) /\ Call(r)
  /\ UNCHANGED <<main, stack, global, target, writer, err, details, hints,
                 answer, panicking, active, lines>>

NoLogger(r) == ctx[r].logger = "none"

(* Tracing invents a request id, PropagateTracing takes the caller's when  *)
(* it parses and goes on without one when it does not; either puts it into *)
(* the response, the context and the logger it finds there.                *)
Tracing(r) ==
  /\ pc[r] \in {"Tracing", "PropagateTracing"}
  /\ \/ NoLogger(r) /\ Panic(r) /\ UNCHANGED frames
     \/ ~NoLogger(r) /\ Call(r) /\ UNCHANGED panicking
  /\ UNCHANGED <<main, stack, global, glob, target, ctx, writer, err, details, hints,
                 answer, active, lines>>

(* Neither MetricsMonitor nor Logging reports the health route.            *)
Ignored(r) == target[r] = "health"

MetricsMonitor(r) ==
  /\ pc[r] = "MetricsMonitor"
  /\ active' = IF Ignored(r) THEN active ELSE active \cup {r}
  /\ Call(r)
  /\ UNCHANGED <<main, stack, global, glob, target, ctx, writer, err,
                 details, hints, answer, panicking, lines>>

(* Cors answers a preflight itself.                                        *)
Cors(r) ==
  /\ pc[r] = "Cors"
  /\ \/ Goto(r, "leave") /\ frames' = [frames EXCEPT ![r] = Append(@, pc[r])]
     \/ Call(r)
  /\ UNCHANGED <<main, stack, global, glob, target, ctx, writer, err,
                 details, hints, answer, panicking, active, lines>>

-----------------------------------------------------------------------------
(* After next.ServeHTTP, innermost first.  A panic runs the deferred parts *)
(* only: Logging's line is not one of them.                                *)

(* Wrong: MetricsMonitor records after the call, not in a defer.           *)
CountsUndeferred(r, m) == m = "MetricsMonitor" /\ ~Ignored(r) /\ ~panicking[r]

Counts(r, m) == m = "MetricsMonitor" /\ ~Ignored(r)
Logs(r, m) == m = "Logging" /\ ~Ignored(r) /\ ~panicking[r]

(* What only the handler reached is garbage once it returned.              *)
Collect(r) ==
  /\ err' = [err EXCEPT ![r] = NoError]
  /\ details' = [details EXCEPT ![r] = NoDetails]
  /\ hints' = [hints EXCEPT ![r] = 0]
  /\ answer' = [answer EXCEPT ![r] = NoAnswer]

Leave(r) ==
  /\ pc[r] = "leave" /\ frames[r] # << >>
  /\ LET m == frames[r][Len(frames[r])]
     IN  /\ active' = IF Counts(r, m) THEN active \ {r} ELSE active
         /\ lines' = [lines EXCEPT ![r].counted = IF Counts(r, m) THEN writer[r].recorded ELSE @,
                                   ![r].logged = IF Logs(r, m) THEN writer[r].recorded ELSE @]
         /\ ctx' = [ctx EXCEPT ![r].live = IF m = "ContextCancel" THEN FALSE ELSE @]
  /\ frames' = [frames EXCEPT ![r] = SubSeq(@, 1, Len(@) - 1)]
  /\ Collect(r)
  /\ UNCHANGED <<main, stack, global, pc, glob, target, writer, panicking>>

(* net/http: 200 when nothing was written; after a panic it closes the     *)
(* connection.  The request's own state is gone.                           *)
Done(r) ==
  /\ pc[r] = "leave" /\ frames[r] = << >>
  /\ writer' = [writer EXCEPT ![r].sent = IF @ = 0 /\ ~panicking[r] THEN 200 ELSE @]
  /\ Goto(r, "done")
  /\ Collect(r)
  /\ target' = [target EXCEPT ![r] = "none"]
  /\ ctx' = [ctx EXCEPT ![r].logger = "none"]
  /\ UNCHANGED <<main, stack, global, glob, frames, panicking, active, lines>>

-----------------------------------------------------------------------------
(* The router.  The handler of the health route reads no input.           *)
Route(r) ==
  /\ pc[r] = "route"
  /\ Goto(r, CASE target[r] = "route" -> "handler"
               [] target[r] = "health" -> "business"
               [] OTHER -> "unrouted")
  /\ UNCHANGED <<main, stack, global, glob, target, frames, ctx, writer, err,
                 details, hints, answer, panicking, active, lines>>

-----------------------------------------------------------------------------
(* Errors.                                                                 *)

(* Wrong: errors without details start from one common map.                *)
newDetailsCommon(r) == Shared

(* newErrorT: a map of its own.                                            *)
newDetails(r) == r

(* wrap: the cause's map, when the cause is a garlic error.                *)
wrapDetails(r, e) == IF e.map = "none" THEN newDetails(r) ELSE e.map

Status(class) == IF class = "user" THEN 400 ELSE 500

(* The n-th hint of a request, written into the map it holds.              *)
WithHint(m, r, n) == [details EXCEPT ![m]["hint"] = [by |-> r, n |-> n]]

Fresh(r, class, from) ==
  [class |-> class, status |-> Status(class), map |-> newDetails(r),
   origin |-> from = "override", from |-> from, depth |-> 0]

(* How an application's handler comes by an error: New (or a template's),  *)
(* Override, a package-level error, an error of another package.           *)
NewErrors(r) ==
  {Fresh(r, "user", "new"), Fresh(r, "system", "new"), Fresh(r, "user", "override"),
   [Fresh(r, "user", "shared") EXCEPT !.map = Shared],
   [Fresh(r, "system", "new") EXCEPT !.map = "none"]}

(* A bad parameter or body: InvalidRequest with a hint, propagated once by *)
(* the caller.                                                             *)
InvalidRequest(r, depth) ==
  /\ err' = [err EXCEPT ![r] = [Fresh(r, "user", "new") EXCEPT !.depth = depth]]
  /\ details' = WithHint(newDetails(r), r, 1)
  /\ hints' = [hints EXCEPT ![r] = 1]
  /\ Goto(r, "propagate")

-----------------------------------------------------------------------------
(* The handler.                                                            *)

(* ParseResource*: a parameter of the path.                                *)
ParseResource(r) ==
  /\ pc[r] = "handler"
  /\ \/ Goto(r, "params") /\ UNCHANGED <<err, details, hints>>
     \/ InvalidRequest(r, 0)
  /\ UNCHANGED <<main, stack, global, glob, target, frames, ctx, writer, answer,
                 panicking, active, lines>>

(* ParseParam*, ParseOptionalParam*: a parameter of the query.  The ones   *)
(* for booleans and pages ask for the logger first.                        *)
ParseParam(r) ==
  /\ pc[r] = "params"
  /\ \/ /\ \E next \in {"decode", "business"} : Goto(r, next)
        /\ UNCHANGED <<err, details, hints, panicking>>
     \/ InvalidRequest(r, 0) /\ UNCHANGED panicking
     \/ NoLogger(r) /\ Panic(r) /\ UNCHANGED <<err, details, hints>>
  /\ UNCHANGED <<main, stack, global, glob, target, frames, ctx, writer, answer,
                 active, lines>>

(* DecodeRequestBody: an empty body is not decoded but still validated.    *)
DecodeRequestBody(r) ==
  /\ pc[r] = "decode"
  /\ \/ NoLogger(r) /\ Panic(r) /\ UNCHANGED <<err, details, hints>>
     \/ ~NoLogger(r) /\ InvalidRequest(r, 1) /\ UNCHANGED panicking
     \/ ~NoLogger(r) /\ Goto(r, "validate") /\ UNCHANGED <<err, details, hints, panicking>>
  /\ UNCHANGED <<main, stack, global, glob, target, frames, ctx, writer,
                 answer, active, lines>>

(* What validator.ValidationErrors adds: a message for each bad field.     *)
ValidationErrors(r) == [by |-> r, n |-> 1]

(* ParseValidationErrors: a new error with a hint and those messages.      *)
ParseValidationErrors(r) ==
  [WithHint(newDetails(r), r, 1) EXCEPT ![newDetails(r)]["validation"] = ValidationErrors(r)]

(* ValidateForm hints again, over the first one; DecodeRequestBody and     *)
(* ParseForm propagate what comes out.                                     *)
ValidateForm(r) ==
  /\ pc[r] = "validate"
  /\ \/ Goto(r, "business") /\ UNCHANGED <<err, details, hints>>
     \/ /\ err' = [err EXCEPT ![r] = [Fresh(r, "user", "new") EXCEPT !.depth = 3]]
        /\ details' = [ParseValidationErrors(r) EXCEPT ![newDetails(r)]["hint"] = [by |-> r, n |-> 2]]
        /\ hints' = [hints EXCEPT ![r] = 2]
        /\ Goto(r, "propagate")
  /\ UNCHANGED <<main, stack, global, glob, target, frames, ctx, writer, answer,
                 panicking, active, lines>>

(* The application's part: it answers, fails, answers and then fails, or   *)
(* panics; a health check returns no error.                                *)
Business(r) ==
  /\ pc[r] = "business"
  /\ \/ /\ \E w \in {writer[r]} \cup {Must(writer[r], 201, ok) : ok \in BOOLEAN} :
            writer' = [writer EXCEPT ![r] = w]
        /\ Goto(r, "leave") /\ UNCHANGED <<err, panicking>>
     \/ /\ target[r] # "health"
        /\ \E e \in NewErrors(r) : err' = [err EXCEPT ![r] = e]
        /\ Goto(r, "propagate") /\ UNCHANGED <<writer, panicking>>
     \/ /\ writer' = [writer EXCEPT ![r] = WriteHeader(@, 201)]
        /\ target[r] # "health"
        /\ err' = [err EXCEPT ![r] = Fresh(r, "system", "new")]
        /\ Goto(r, "propagate") /\ UNCHANGED panicking
     \/ /\ \E w \in {writer[r], WriteHeader(writer[r], 201)} :
            writer' = [writer EXCEPT ![r] = w]
        /\ Panic(r) /\ UNCHANGED err
  /\ UNCHANGED <<main, stack, global, glob, target, frames, ctx, details,
                 hints, answer, active, lines>>

(* Propagate and PropagateAs on the way up, with or without a hint.        *)
Propagate(r) ==
  /\ pc[r] = "propagate" /\ err[r].depth < MaxDepth
  /\ LET m == wrapDetails(r, err[r])
     IN  /\ \E class \in {"user", "system"} :
              err' = [err EXCEPT ![r] = [class |-> class, status |-> Status(class), map |-> m,
                                         origin |-> FALSE, from |-> @.from,
                                         depth |-> @.depth + 1]]
         /\ \/ UNCHANGED <<details, hints>>
            \/ /\ details' = WithHint(m, r, hints[r] + 1)
               /\ hints' = [hints EXCEPT ![r] = @ + 1]
  /\ UNCHANGED <<main, stack, global, pc, glob, target, frames, ctx, writer,
                 answer, panicking, active, lines>>

-----------------------------------------------------------------------------
(* The answer.                                                             *)

Suppressed == [NoDetails EXCEPT !["hint"] = [by |-> "rest", n |-> 0]]

(* WriteError and protectErrorDTO: a user error in full, with the origin   *)
(* of the outermost error only; anything else as its status's generic      *)
(* kind, the error itself as origin.                                       *)
WriteError(e) ==
  IF e.class = "user"
  THEN [status |-> e.status, class |-> "user", details |-> details[e.map], origin |-> e.origin]
  ELSE [status |-> e.status, class |-> "system", details |-> Suppressed, origin |-> TRUE]

(* What Must leaves of an answer: http.Error replaces the body of one that *)
(* does not encode by a fixed one, under the status already written.       *)
Body(a, encodes) ==
  IF encodes THEN a
  ELSE [status |-> a.status, class |-> "system", details |-> NoDetails, origin |-> FALSE]

Reply(r, a) ==
  \E encodes \in BOOLEAN :
    /\ answer' = [answer EXCEPT ![r] = Body(a, encodes)]
    /\ writer' = [writer EXCEPT ![r] = Must(@, a.status, encodes)]

(* Route.Handler: without a logger in the context it panics before it      *)
(* answers.                                                                *)
Answer(r) ==
  /\ pc[r] = "propagate"
  /\ \/ NoLogger(r) /\ Panic(r) /\ UNCHANGED <<writer, answer>>
     \/ /\ ~NoLogger(r)
        /\ Reply(r, WriteError(err[r]))
        /\ Goto(r, "leave") /\ UNCHANGED panicking
  /\ UNCHANGED <<main, stack, global, glob, target, frames, ctx, err, details,
                 hints, active, lines>>

(* notFoundHandler and methodNotAllowedHandler: a logger is always found.  *)
Unrouted(r) ==
  /\ pc[r] = "unrouted" /\ (NoLogger(r) => HasGlobal(r))
  /\ Release(r)
  /\ LET status == IF target[r] = "method" THEN 405 ELSE 404
         e == [Fresh(r, "user", "new") EXCEPT !.status = status]
         heap == WithHint(newDetails(r), r, 1)
         a == [status |-> status, class |-> "user", details |-> heap[e.map], origin |-> FALSE]
     IN  /\ err' = [err EXCEPT ![r] = e]
         /\ details' = heap
         /\ Reply(r, a)
  /\ hints' = [hints EXCEPT ![r] = 1]
  /\ Goto(r, "leave")
  /\ UNCHANGED <<main, stack, global, target, frames, ctx, panicking, active, lines>>

-----------------------------------------------------------------------------

Step(r) ==
  \/ GlobalTest(r) \/ GlobalBuild(r)
  \/ ContextCancel(r) \/ ContentTypeJson(r) \/ Logging(r) \/ Tracing(r) \/ MetricsMonitor(r) \/ Cors(r)
  \/ Route(r) \/ ParseResource(r) \/ ParseParam(r) \/ DecodeRequestBody(r) \/ ValidateForm(r) \/ Business(r)
  \/ Propagate(r) \/ Answer(r) \/ Unrouted(r)
  \/ Leave(r) \/ Done(r)

Over == (main = "fatal" \/ \A r \in Requests : pc[r] = "done") /\ UNCHANGED vars

Next ==
  \/ InitLogger
  \/ Serve
  \/ \E r \in Requests, t \in Targets : Arrive(r, t)
  \/ \E r \in Requests : Step(r)
  \/ Over

Spec == Init /\ [][Next]_vars

(* A request's goroutine is scheduled and its handler returns.             *)
FairSpec == Spec /\ \A r \in Requests : WF_vars(Step(r))

-----------------------------------------------------------------------------
(* Properties.                                                             *)

Places ==
  Middlewares \cup {"new", "route", "handler", "params", "decode", "validate", "business",
                    "propagate", "unrouted", "leave", "done"}
Writers == [sent : Nat, recorded : Nat, calls : 0 .. 2]
Errors == [class : {"none", "user", "system"}, status : Nat, map : {"none", Shared} \cup Requests,
           origin : BOOLEAN, from : {"none", "new", "override", "shared"}, depth : Nat]
Details == [Keys -> [by : {"none"} \cup Requests, n : Nat]]
Answers == [status : Nat, class : {"none", "user", "system"},
            details : [Keys -> [by : {"none", "rest"} \cup Requests, n : Nat]], origin : BOOLEAN]

TypeOK ==
  /\ main \in {"starting", "initialised", "configured", "unconfigured", "fatal"}
  /\ stack \in Stacks
  /\ global \in {"none", "main"} \cup Requests
  /\ pc \in [Requests -> Places]
  /\ glob \in [Requests -> {"idle", "build", "read"}]
  /\ target \in [Requests -> Targets \cup {"none"}]
  /\ frames \in [Requests -> Seq(Middlewares)]
  /\ ctx \in [Requests -> [live : BOOLEAN, logger : {"none", "main"} \cup Requests]]
  /\ writer \in [Requests -> Writers]
  /\ err \in [Requests -> Errors]
  /\ details \in [Requests \cup {Shared} -> Details]
  /\ hints \in [Requests -> Nat]
  /\ answer \in [Requests -> Answers]
  /\ panicking \in [Requests -> BOOLEAN]
  /\ active \subseteq Requests
  /\ lines \in [Requests -> [logged : Nat, counted : Nat]]

(* An Init that was not fatal is final: no request comes before it, none   *)
(* builds a logger after it, and none ever logs with another.              *)
LoggerIsFinal ==
  /\ main \in {"starting", "initialised", "fatal"} => \A r \in Requests : pc[r] = "new"
  /\ main = "starting" => global = "none"
  /\ main \in {"initialised", "configured"} => global = "main"
  /\ \A r \in Requests :
       /\ pc[r] = "new" => glob[r] = "idle" /\ ctx[r].logger = "none"
       /\ main = "configured" => glob[r] # "build" /\ ctx[r].logger \in {"none", "main"}

(* A finished request was logged and counted under the status the client   *)
(* saw, unless the header was written twice (a handler that answered and   *)
(* failed, or an answer that did not encode) or a panic left nothing to    *)
(* see; until then the recorders hold what was sent.                       *)
StatusOf(r) ==
  /\ pc[r] # "done" /\ writer[r].calls = 0 => writer[r].sent = 0 /\ writer[r].recorded = 200
  /\ writer[r].calls = 1 => writer[r].sent = writer[r].recorded /\ writer[r].sent # 0
  /\ pc[r] \notin {"leave", "done"} => lines[r].logged = 0 /\ lines[r].counted = 0
  /\ pc[r] = "leave" => /\ lines[r].logged \in {0, writer[r].recorded}
                        /\ lines[r].counted \in {0, writer[r].recorded}
  /\ pc[r] = "done" /\ writer[r].calls < 2 /\ ~(panicking[r] /\ writer[r].sent = 0) =>
       /\ lines[r].logged \in {0, writer[r].sent}
       /\ lines[r].counted \in {0, writer[r].sent}
StatusRecorded == \A r \in Requests : StatusOf(r)

(* The map a request allocates is written by that request alone; unless    *)
(* its error wraps the package-level one, that is the map the error holds, *)
(* with the last hint in it.                                               *)
ErrorOf(r) ==
  /\ \A k \in Keys : details[r][k].by \in {"none", r}
  /\ pc[r] \notin {"propagate", "leave", "done"} => details[r] = NoDetails /\ hints[r] = 0
  /\ pc[r] = "propagate" =>
       /\ err[r].class \in {"user", "system"} /\ err[r].status = Status(err[r].class)
       /\ err[r].from # "shared" => /\ err[r].map \in {r, "none"}
                                    /\ details[r]["hint"].n = hints[r]
       /\ err[r].from = "shared" => err[r].map = Shared
       /\ err[r].map = "none" => err[r].class = "system"
       /\ err[r].origin <=> err[r].from = "override" /\ err[r].depth = 0
  /\ pc[r] # "leave" => answer[r] = NoAnswer
ErrorIsOwn == \A r \in Requests : ErrorOf(r)

(* Types and what the layers agree on about the logger, the status and the *)
(* error of a request (logging.Global, middleware Logging, MetricsMonitor, *)
(* errors newErrorT and wrap).                                             *)
RequestInv == TypeOK /\ LoggerIsFinal /\ StatusRecorded /\ ErrorIsOwn

(* What a user's error answer says, against the error of its request.     *)
AnswerOf(r) ==
  answer[r].class = "user" =>
    /\ err[r].from # "shared" =>
         /\ \A k \in Keys : answer[r].details[k].by \in {"none", r}
         /\ answer[r].details["hint"].n = hints[r]
    /\ answer[r].origin <=> err[r].from = "override" /\ err[r].depth = 0

(* An error answer is about its own request.  Unless the handler wrapped a *)
(* package-level error, every detail in it was put there for this request, *)
(* and the hint is the last one given on the way up; the origin of an      *)
(* overridden error is in it only when the error was not propagated since  *)
(* (errors newErrorT, wrap, Hint, ErrorDTO; rest WriteError).              *)
AnswerIsOwn == \A r \in Requests : AnswerOf(r)

(* A request that arrived is over some day, and leaves nothing behind even *)
(* when it panics: its context is cancelled, it is no longer counted as    *)
(* active, and the client has an answer unless there was a panic           *)
(* (middleware ContextCancel, MetricsMonitor; rest Route.Handler).         *)
RequestsSettle ==
  \A r \in Requests :
    pc[r] # "new" ~> /\ pc[r] = "done" /\ ~ctx[r].live /\ r \notin active
                     /\ writer[r].sent # 0 \/ panicking[r]
=============================================================================
