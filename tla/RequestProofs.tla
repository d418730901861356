---------------------------- MODULE RequestProofs ----------------------------
(***************************************************************************)
(* Requests for any set of requests, any chain of middlewares and any      *)
(* number of propagations: RequestInv is inductive, and AnswerIsOwn is     *)
(* inductive relative to it.  The steps of a request are classed by what   *)
(* they leave alone (the logger, the writer, the errors), so that each     *)
(* part of the invariant looks at the few actions that matter to it.       *)
(***************************************************************************)
EXTENDS Request, TLAPS

\* What comes after a middleware is another one or the router, whatever the
\* chain and however many calls are on the stack.
LEMMA NextIsAPlace ==
  ASSUME RequestInv, NEW r \in Requests, NEW k \in Nat
  PROVE  NextOf(r, k) \in Middlewares \cup {"route"}
<1>1. Chain(r) \in Seq(Middlewares)
  BY RequestAssumption DEF RequestInv, TypeOK, Chain
<1> QED
  BY <1>1 DEF NextOf

\* A chain that is not empty starts with a middleware.
LEMMA FirstIsAPlace ==
  ASSUME RequestInv, stack # << >>
  PROVE  stack[1] \in Middlewares
BY RequestAssumption DEF RequestInv, TypeOK

\* Calling next moves the request to a middleware or to the router, and leaves
\* the caller on its stack.
LEMMA CallMoves ==
  ASSUME RequestInv, NEW r \in Requests, Call(r), pc[r] \in Middlewares
  PROVE  /\ pc'[r] \in Middlewares \cup {"route"}
         /\ pc' = [pc EXCEPT ![r] = pc'[r]]
         /\ frames' \in [Requests -> Seq(Middlewares)]
<1>0. pc \in [Requests -> Places] /\ frames \in [Requests -> Seq(Middlewares)]
  BY DEF RequestInv, TypeOK
<1>1. Len(frames[r]) + 1 \in Nat
  BY <1>0
<1>2. NextOf(r, Len(frames[r]) + 1) \in Middlewares \cup {"route"}
  BY <1>1, NextIsAPlace
<1> HIDE DEF Middlewares
<1>3. pc' = [pc EXCEPT ![r] = NextOf(r, Len(frames[r]) + 1)]
  BY DEF Call, Goto
<1>4. frames' = [frames EXCEPT ![r] = Append(frames[r], pc[r])]
  BY DEF Call
<1> QED
  BY <1>0, <1>2, <1>3, <1>4

\* How a step of a request moves it: never back to its start, out of "leave"
\* only by unwinding, and to "done" only by Done.
Moves(r) ==
  /\ pc[r] \notin {"new", "done"}
  /\ pc' = [pc EXCEPT ![r] = pc'[r]] /\ pc'[r] \in Places \ {"new"}
  /\ pc[r] = "leave" => Leave(r) \/ Done(r)
  /\ pc'[r] = "done" => Done(r)

\* Every step of a request moves it so, and moves no other request.
LEMMA StepMoves ==
  ASSUME RequestInv, NEW r \in Requests, Step(r)
  PROVE  Moves(r)
<1>0. pc \in [Requests -> Places]
  BY DEF RequestInv, TypeOK
<1>1. CASE GlobalTest(r)
  BY <1>0, <1>1 DEF GlobalTest, Asking, Moves, Places
<1>2. CASE GlobalBuild(r)
  BY <1>0, <1>2 DEF GlobalBuild, Asking, Moves, Places
<1>3. CASE ContextCancel(r)
  <2>1. pc[r] \in Middlewares
    BY <1>0, <1>3 DEF ContextCancel, Middlewares
  <2> QED
    BY <1>0, <1>3, <2>1, CallMoves DEF ContextCancel, Moves, Places, Middlewares
<1>4. CASE ContentTypeJson(r)
  <2>1. pc[r] \in Middlewares
    BY <1>0, <1>4 DEF ContentTypeJson, Middlewares
  <2> QED
    BY <1>0, <1>4, <2>1, CallMoves DEF ContentTypeJson, Moves, Places, Middlewares
<1>5. CASE Logging(r)
  <2>1. pc[r] \in Middlewares
    BY <1>0, <1>5 DEF Logging, Middlewares
  <2> QED
    BY <1>0, <1>5, <2>1, CallMoves DEF Logging, Moves, Places, Middlewares
<1>6. CASE Tracing(r)
  <2>1. pc[r] \in Middlewares
    BY <1>0, <1>6 DEF Tracing, Middlewares
  <2> QED
    BY <1>0, <1>6, <2>1, CallMoves DEF Tracing, Moves, Places, Middlewares, Panic, Goto
<1>7. CASE MetricsMonitor(r)
  <2>1. pc[r] \in Middlewares
    BY <1>0, <1>7 DEF MetricsMonitor, Middlewares
  <2> QED
    BY <1>0, <1>7, <2>1, CallMoves DEF MetricsMonitor, Moves, Places, Middlewares
<1>8. CASE Cors(r)
  <2>1. pc[r] \in Middlewares
    BY <1>0, <1>8 DEF Cors, Middlewares
  <2> QED
    BY <1>0, <1>8, <2>1, CallMoves DEF Cors, Moves, Places, Middlewares, Goto
<1>9. CASE Route(r)
  BY <1>0, <1>9 DEF Route, Goto, Moves, Places
<1>10. CASE ParseResource(r)
  BY <1>0, <1>10 DEF ParseResource, InvalidRequest, Goto, Moves, Places
<1>11. CASE ParseParam(r)
  BY <1>0, <1>11 DEF ParseParam, InvalidRequest, NoLogger, Panic, Goto, Moves, Places
<1>12. CASE DecodeRequestBody(r)
  BY <1>0, <1>12 DEF DecodeRequestBody, InvalidRequest, NoLogger, Panic, Goto, Moves, Places
<1>13. CASE ValidateForm(r)
  BY <1>0, <1>13 DEF ValidateForm, Goto, Moves, Places
<1>14. CASE Business(r)
  BY <1>0, <1>14 DEF Business, Panic, Goto, Moves, Places
<1>15. CASE Propagate(r)
  BY <1>0, <1>15 DEF Propagate, Moves, Places
<1>16. CASE Answer(r)
  BY <1>0, <1>16 DEF Answer, NoLogger, Panic, Goto, Moves, Places
<1>17. CASE Unrouted(r)
  BY <1>0, <1>17 DEF Unrouted, Release, NoLogger, HasGlobal, Goto, Moves, Places
<1>18. CASE Leave(r)
  BY <1>0, <1>18 DEF Leave, Collect, Moves, Places
<1>19. CASE Done(r)
  BY <1>0, <1>19 DEF Done, Collect, Goto, Moves, Places
<1> QED
  BY <1>0, <1>1, <1>2, <1>3, <1>4, <1>5, <1>6, <1>7, <1>8, <1>9, <1>10, <1>11, <1>12, <1>13, <1>14,
     <1>15, <1>16, <1>17, <1>18, <1>19 DEF Step

\* Only Global, Logging, the handlers of unrouted requests and the end of a
\* request touch a logger, global or in a context.
LEMMA LoggerUntouched ==
  ASSUME RequestInv, NEW r \in Requests, Step(r),
         ~(GlobalTest(r) \/ GlobalBuild(r) \/ Logging(r) \/ Unrouted(r) \/ Done(r))
  PROVE  UNCHANGED <<global, glob>> /\ \A q \in Requests : ctx'[q].logger = ctx[q].logger
<1>1. ctx \in [Requests -> [live : BOOLEAN, logger : {"none", "main"} \cup Requests]]
  BY DEF RequestInv, TypeOK
<1>2. CASE ContextCancel(r)
  BY <1>1, <1>2 DEF ContextCancel
<1>3. CASE Leave(r)
  <2>1. UNCHANGED <<global, glob>>
    BY <1>3 DEF Leave
  <2>2. ctx' = [ctx EXCEPT ![r].live = IF frames[r][Len(frames[r])] = "ContextCancel" THEN FALSE ELSE @]
    BY <1>3 DEF Leave
  <2> QED
    BY <1>1, <2>1, <2>2
<1>4. CASE ~ContextCancel(r) /\ ~Leave(r)
  BY <1>4 DEF Step, ContentTypeJson, Tracing, MetricsMonitor, Cors, Route, ParseResource, ParseParam,
              DecodeRequestBody, ValidateForm, Business, Propagate, Answer
<1> QED
  BY <1>2, <1>3, <1>4

\* A request changes neither the application's start nor the chain.
LEMMA MainRests == ASSUME NEW r \in Requests, Step(r) PROVE UNCHANGED <<main, stack>>
BY DEF Step, GlobalTest, GlobalBuild, ContextCancel, ContentTypeJson, Logging, Tracing, MetricsMonitor,
   Cors, Route, ParseResource, ParseParam, DecodeRequestBody, ValidateForm, Business, Propagate, Answer,
   Unrouted, Leave, Done

\* An Init that returned is final: after it Global never finds the variable
\* empty, so no request builds a logger or takes another one into its context.
LEMMA LoggerStep == RequestInv /\ [Next]_vars => LoggerIsFinal'
<1> SUFFICES ASSUME RequestInv, [Next]_vars PROVE LoggerIsFinal'
  OBVIOUS
<1>0. /\ pc \in [Requests -> Places] /\ glob \in [Requests -> {"idle", "build", "read"}]
      /\ ctx \in [Requests -> [live : BOOLEAN, logger : {"none", "main"} \cup Requests]]
      /\ LoggerIsFinal
  BY DEF RequestInv, TypeOK
<1>1. CASE InitLogger
  BY <1>0, <1>1 DEF InitLogger, LoggerIsFinal
<1>2. CASE Serve
  BY <1>0, <1>2 DEF Serve, LoggerIsFinal
<1>3. ASSUME NEW r \in Requests, NEW t \in Targets, Arrive(r, t) PROVE LoggerIsFinal'
  <2>1. pc' = [pc EXCEPT ![r] = pc'[r]] /\ main \in {"configured", "unconfigured"}
    BY <1>0, <1>3 DEF Arrive
  <2>2. UNCHANGED <<main, global, glob, ctx>>
    BY <1>3 DEF Arrive
  <2>3. pc[r] = "new"
    BY <1>3 DEF Arrive
  <2> QED
    BY <1>0, <2>1, <2>2, <2>3 DEF LoggerIsFinal
<1>4. ASSUME NEW r \in Requests, Step(r) PROVE LoggerIsFinal'
  <2>1. /\ pc[r] # "new" /\ pc' = [pc EXCEPT ![r] = pc'[r]] /\ pc'[r] # "new"
        /\ UNCHANGED main
    BY <1>4, StepMoves, MainRests DEF Moves
  <2>2. main \in {"configured", "unconfigured"}
    BY <1>0, <2>1 DEF RequestInv, TypeOK, LoggerIsFinal
  <2>3. CASE GlobalTest(r)
    BY <1>0, <2>1, <2>2, <2>3 DEF GlobalTest, LoggerIsFinal
  <2>4. CASE GlobalBuild(r)
    BY <1>0, <2>1, <2>2, <2>4 DEF GlobalBuild, LoggerIsFinal
  <2>5. CASE Logging(r)
    BY <1>0, <2>1, <2>2, <2>5 DEF Logging, Release, LoggerIsFinal
  <2>6. CASE Unrouted(r)
    BY <1>0, <2>1, <2>2, <2>6 DEF Unrouted, Release, LoggerIsFinal
  <2>7. CASE Done(r)
    BY <1>0, <2>1, <2>2, <2>7 DEF Done, LoggerIsFinal
  <2>8. CASE UNCHANGED <<global, glob>> /\ \A q \in Requests : ctx'[q].logger = ctx[q].logger
    BY <1>0, <2>1, <2>2, <2>8 DEF LoggerIsFinal
  <2> QED
    BY <1>4, <2>3, <2>4, <2>5, <2>6, <2>7, <2>8, LoggerUntouched
<1>5. CASE UNCHANGED vars
  BY <1>0, <1>5 DEF vars, LoggerIsFinal
<1> QED
  BY <1>1, <1>2, <1>3, <1>4, <1>5 DEF Next, Over

\* Only the handler, the answers and the unwinding touch what is written and
\* what is reported.
LEMMA WriterUntouched ==
  ASSUME RequestInv, NEW r \in Requests, Step(r),
         ~(Business(r) \/ Answer(r) \/ Unrouted(r) \/ Leave(r) \/ Done(r))
  PROVE  UNCHANGED <<writer, lines>>
BY DEF Step, Collect, GlobalTest, GlobalBuild, ContextCancel, ContentTypeJson, Logging, Tracing,
   MetricsMonitor, Cors, Route, ParseResource, ParseParam, DecodeRequestBody, ValidateForm, Propagate

\* A panic is its own request's.
LEMMA OthersKeepPanic ==
  ASSUME RequestInv, NEW r \in Requests, Step(r)
  PROVE  \A q \in Requests : q # r => panicking'[q] = panicking[q]
<1>1. panicking \in [Requests -> BOOLEAN]
  BY DEF RequestInv, TypeOK
<1> QED
  BY <1>1 DEF Step, Panic, Collect, GlobalTest, GlobalBuild, ContextCancel, ContentTypeJson, Logging,
     Tracing, MetricsMonitor, Cors, Route, ParseResource, ParseParam, DecodeRequestBody, ValidateForm,
     Business, Propagate, Answer, Unrouted, Leave, Done

\* A writer whose recorders agree with the wire as long as one header was
\* written at most.
Sound(w) ==
  /\ w.calls = 0 => w.sent = 0 /\ w.recorded = 200
  /\ w.calls = 1 => w.sent = w.recorded /\ w.sent # 0

\* WriteHeader keeps the agreement: both note the first status.
LEMMA WriteHeaderSound ==
  ASSUME NEW w \in Writers, NEW status \in Nat \ {0}, Sound(w)
  PROVE  WriteHeader(w, status) \in Writers /\ Sound(WriteHeader(w, status))
BY DEF Writers, Sound, WriteHeader

\* So does Must, also when the encoding fails and it writes twice.
LEMMA MustSound ==
  ASSUME NEW w \in Writers, NEW status \in Nat \ {0}, NEW encodes \in BOOLEAN, Sound(w)
  PROVE  Must(w, status, encodes) \in Writers /\ Sound(Must(w, status, encodes))
<1>1. WriteHeader(w, status) \in Writers /\ Sound(WriteHeader(w, status))
  BY WriteHeaderSound
<1>2. 500 \in Nat \ {0}
  OBVIOUS
<1>3. WriteHeader(WriteHeader(w, status), 500) \in Writers /\ Sound(WriteHeader(WriteHeader(w, status), 500))
  BY <1>1, <1>2, WriteHeaderSound
<1> HIDE DEF WriteHeader
<1> QED
  BY <1>1, <1>3 DEF Must

\* A reply encodes or it does not: what it leaves in the answer and the header.
LEMMA ReplyEncodes ==
  ASSUME NEW r \in Requests, NEW a, Reply(r, a)
  PROVE  /\ \E ok \in BOOLEAN : answer' = [answer EXCEPT ![r] = Body(a, ok)]
         /\ \E ok \in BOOLEAN : writer' = [writer EXCEPT ![r] = Must(writer[r], a.status, ok)]
BY DEF Reply

\* The handler and the answers leave an agreeing writer, before anything is
\* reported about the request.
LEMMA AnswersWriteOnce ==
  ASSUME RequestInv, NEW r \in Requests, Business(r) \/ Answer(r) \/ Unrouted(r)
  PROVE  /\ writer' = [writer EXCEPT ![r] = writer'[r]]
         /\ writer'[r] \in Writers /\ Sound(writer'[r])
         /\ UNCHANGED lines /\ pc[r] \notin {"leave", "done"} /\ pc'[r] # "done"
<1>0. writer \in [Requests -> Writers] /\ pc \in [Requests -> Places]
  BY DEF RequestInv, TypeOK
<1>1. pc[r] \in {"business", "propagate", "unrouted"}
  BY DEF Business, Answer, Unrouted
<1>2. writer[r] \in Writers /\ Sound(writer[r])
  BY <1>0, <1>1 DEF RequestInv, StatusRecorded, StatusOf, Sound
<1>3. pc'[r] # "done"
  BY <1>1, StepMoves DEF Moves, Step, Done
<1>4. CASE Business(r)
  <2>1. 201 \in Nat \ {0}
    OBVIOUS
  <2>2. \A ok \in BOOLEAN : Must(writer[r], 201, ok) \in Writers /\ Sound(Must(writer[r], 201, ok))
    BY <1>2, <2>1, MustSound
  <2>3. WriteHeader(writer[r], 201) \in Writers /\ Sound(WriteHeader(writer[r], 201))
    BY <1>2, <2>1, WriteHeaderSound
  <2>4. PICK w \in Writers : Sound(w) /\ writer' = [writer EXCEPT ![r] = w]
    BY <1>0, <1>2, <1>4, <2>2, <2>3 DEF Business
  <2> QED
    BY <1>0, <1>1, <1>3, <1>4, <2>4 DEF Business
<1>5. CASE Answer(r)
  <2>1. err[r].status \in Nat \ {0}
    BY <1>5 DEF Answer, RequestInv, ErrorIsOwn, ErrorOf, Status
  <2>2. \A ok \in BOOLEAN : /\ Must(writer[r], err[r].status, ok) \in Writers
                            /\ Sound(Must(writer[r], err[r].status, ok))
    BY <1>2, <2>1, MustSound
  <2>3. PICK w \in Writers : Sound(w) /\ writer' = [writer EXCEPT ![r] = w]
    BY <1>0, <1>2, <1>5, <2>2 DEF Answer, Reply, WriteError
  <2> QED
    BY <1>0, <1>1, <1>3, <1>5, <2>3 DEF Answer
<1>6. CASE Unrouted(r)
  <2> DEFINE status == IF target[r] = "method" THEN 405 ELSE 404
  <2>1. status \in Nat \ {0}
    OBVIOUS
  <2> DEFINE
           a == [status |-> status, class |-> "user",
                 details |-> WithHint(newDetails(r), r, 1)[
                               [Fresh(r, "user", "new") EXCEPT !.status = status].map],
                 origin |-> FALSE]
  <2>5. Reply(r, a)
    BY <1>6 DEF Unrouted
  <2>6. a.status = status
    OBVIOUS
  <2> HIDE DEF a
  <2>2. PICK ok \in BOOLEAN : writer' = [writer EXCEPT ![r] = Must(writer[r], status, ok)]
    BY <2>5, <2>6, ReplyEncodes
  <2> HIDE DEF status
  <2>3. Must(writer[r], status, ok) \in Writers /\ Sound(Must(writer[r], status, ok))
    BY <1>2, <2>1, MustSound
  <2>4. UNCHANGED lines
    BY <1>6 DEF Unrouted
  <2> QED
    BY <1>0, <1>1, <1>3, <2>2, <2>3, <2>4
<1> QED
  BY <1>4, <1>5, <1>6

\* A request whose own state a step leaves alone keeps its status.
LEMMA StatusOfOthers ==
  ASSUME RequestInv, NEW q \in Requests, pc'[q] = pc[q], writer'[q] = writer[q],
         lines'[q] = lines[q], panicking'[q] = panicking[q]
  PROVE  StatusOf(q)'
BY DEF RequestInv, StatusRecorded, StatusOf

\* Every step keeps the agreement of wire, recorders, log line and count: what
\* Leave reports is what the recorders hold, and Done fills in the 200 the
\* recorders started with.
LEMMA StatusStep == RequestInv /\ [Next]_vars => StatusRecorded'
<1> SUFFICES ASSUME RequestInv, [Next]_vars PROVE StatusRecorded'
  OBVIOUS
<1>0. /\ pc \in [Requests -> Places] /\ writer \in [Requests -> Writers]
      /\ lines \in [Requests -> [logged : Nat, counted : Nat]]
      /\ panicking \in [Requests -> BOOLEAN]
      /\ \A q \in Requests : StatusOf(q)
  BY DEF RequestInv, TypeOK, StatusRecorded
<1>1. CASE InitLogger \/ Serve \/ UNCHANGED vars
  BY <1>0, <1>1, StatusOfOthers DEF InitLogger, Serve, vars, StatusRecorded
<1>2. ASSUME NEW r \in Requests, NEW t \in Targets, Arrive(r, t) PROVE StatusRecorded'
  <2>1. UNCHANGED <<writer, lines, panicking>> /\ pc[r] = "new" /\ \A q \in Requests : q # r => pc'[q] = pc[q]
    BY <1>0, <1>2 DEF Arrive
  <2>2. pc'[r] \notin {"leave", "done"}
    BY <1>0, <1>2, FirstIsAPlace DEF Arrive, Middlewares
  <2>3. StatusOf(r)'
    BY <1>0, <2>1, <2>2 DEF StatusOf
  <2> QED
    BY <2>1, <2>3, StatusOfOthers DEF StatusRecorded
<1>3. ASSUME NEW r \in Requests, Step(r) PROVE StatusRecorded'
  <2>1. /\ pc[r] \notin {"new", "done"} /\ \A q \in Requests : q # r => pc'[q] = pc[q]
        /\ \A q \in Requests : q # r => panicking'[q] = panicking[q]
    BY <1>0, <1>3, StepMoves, OthersKeepPanic DEF Moves
  <2>2. CASE Business(r) \/ Answer(r) \/ Unrouted(r)
    <3>1. /\ Sound(writer'[r]) /\ UNCHANGED lines /\ pc[r] \notin {"leave", "done"} /\ pc'[r] # "done"
          /\ \A q \in Requests : q # r => writer'[q] = writer[q]
      BY <1>0, <2>2, AnswersWriteOnce
    <3>2. StatusOf(r)'
      BY <1>0, <3>1 DEF StatusOf, Sound
    <3> QED
      BY <2>1, <3>1, <3>2, StatusOfOthers DEF StatusRecorded
  <2>3. CASE Leave(r)
    <3>1. UNCHANGED <<writer, panicking, pc>> /\ pc[r] = "leave"
      BY <2>3 DEF Leave
    <3>2. /\ lines'[r].logged \in {lines[r].logged, writer[r].recorded}
          /\ lines'[r].counted \in {lines[r].counted, writer[r].recorded}
          /\ \A q \in Requests : q # r => lines'[q] = lines[q]
      BY <1>0, <2>3 DEF Leave
    <3>3. StatusOf(r)'
      BY <1>0, <3>1, <3>2 DEF StatusOf
    <3> QED
      BY <3>1, <3>2, <3>3, StatusOfOthers DEF StatusRecorded
  <2>4. CASE Done(r)
    <3>1. /\ pc[r] = "leave" /\ pc'[r] = "done" /\ UNCHANGED <<lines, panicking>>
          /\ writer'[r] = [writer[r] EXCEPT !.sent = IF @ = 0 /\ ~panicking[r] THEN 200 ELSE @]
          /\ \A q \in Requests : q # r => writer'[q] = writer[q]
      BY <1>0, <2>4 DEF Done, Goto
    <3>2. /\ writer'[r].recorded = writer[r].recorded /\ writer'[r].calls = writer[r].calls
          /\ writer'[r].sent = IF writer[r].sent = 0 /\ ~panicking[r] THEN 200 ELSE writer[r].sent
          /\ writer[r].calls \in 0 .. 2
      BY <1>0, <3>1 DEF Writers
    <3>3. StatusOf(r)'
      BY <1>0, <3>1, <3>2 DEF StatusOf
    <3> QED
      BY <2>1, <3>1, <3>3, StatusOfOthers DEF StatusRecorded
  <2>5. CASE UNCHANGED <<writer, lines>> /\ ~Leave(r) /\ ~Done(r)
    <3>1. pc[r] # "leave" /\ pc'[r] # "done"
      BY <1>3, <2>5, StepMoves DEF Moves
    <3>2. StatusOf(r)'
      BY <1>0, <2>1, <2>5, <3>1 DEF StatusOf
    <3> QED
      BY <2>1, <2>5, <3>2, StatusOfOthers DEF StatusRecorded
  <2> QED
    BY <1>3, <2>2, <2>3, <2>4, <2>5, WriterUntouched
<1> QED
  BY <1>1, <1>2, <1>3 DEF Next, Over

\* What newErrorT builds: a map of its own, the status of its class, and an
\* origin only for an override.
LEMMA FreshFacts ==
  ASSUME NEW r \in Requests, NEW class \in {"user", "system"}, NEW from \in {"new", "override", "shared"}
  PROVE  /\ Fresh(r, class, from) \in Errors
         /\ Fresh(r, class, from).class = class /\ Fresh(r, class, from).status = Status(class)
         /\ Fresh(r, class, from).map = r /\ Fresh(r, class, from).from = from
         /\ Fresh(r, class, from).depth = 0
         /\ Fresh(r, class, from).origin <=> from = "override"
<1> DEFINE overridden == from = "override"
<1>1. overridden \in BOOLEAN
  OBVIOUS
<1>2. Status(class) \in Nat
  BY DEF Status
<1>3. Fresh(r, class, from) = [class |-> class, status |-> Status(class), map |-> r,
                               origin |-> overridden, from |-> from, depth |-> 0]
  BY DEF Fresh, newDetails
<1>4. overridden <=> from = "override"
  OBVIOUS
<1> HIDE DEF overridden
<1>5. Fresh(r, class, from) \in Errors
  BY <1>1, <1>2, <1>3 DEF Errors
<1>6. Fresh(r, class, from).origin = overridden
  BY <1>3
<1> QED
  BY <1>1, <1>3, <1>4, <1>5, <1>6

\* A hint goes into one map and leaves the other maps, and the other keys of
\* that map, alone.
LEMMA HintFacts ==
  ASSUME RequestInv, NEW r \in Requests, NEW m \in Requests \cup {Shared}, NEW n \in Nat
  PROVE  /\ WithHint(m, r, n) \in [Requests \cup {Shared} -> Details]
         /\ WithHint(m, r, n)[m]["hint"] = [by |-> r, n |-> n]
         /\ WithHint(m, r, n)[m]["validation"] = details[m]["validation"]
         /\ \A x \in Requests \cup {Shared} : x # m => WithHint(m, r, n)[x] = details[x]
<1>1. details \in [Requests \cup {Shared} -> Details]
  BY DEF RequestInv, TypeOK
<1>2. [by |-> r, n |-> n] \in [by : {"none"} \cup Requests, n : Nat]
  OBVIOUS
<1>3. [details[m] EXCEPT !["hint"] = [by |-> r, n |-> n]] \in Details
  BY <1>1, <1>2 DEF Details, Keys
<1>4. WithHint(m, r, n) = [details EXCEPT ![m] = [details[m] EXCEPT !["hint"] = [by |-> r, n |-> n]]]
  BY DEF WithHint
<1> QED
  BY <1>1, <1>3, <1>4 DEF Details, Keys

\* The first hint of a request, in the map it allocated.
LEMMA FirstHint ==
  ASSUME RequestInv, NEW r \in Requests
  PROVE  /\ WithHint(r, r, 1) \in [Requests \cup {Shared} -> Details]
         /\ WithHint(r, r, 1)[r]["hint"] = [by |-> r, n |-> 1]
         /\ WithHint(r, r, 1)[r]["validation"] = details[r]["validation"]
         /\ \A x \in Requests \cup {Shared} : x # r => WithHint(r, r, 1)[x] = details[x]
<1>1. \A m \in Requests \cup {Shared}, n \in Nat :
        /\ WithHint(m, r, n) \in [Requests \cup {Shared} -> Details]
        /\ WithHint(m, r, n)[m]["hint"] = [by |-> r, n |-> n]
        /\ WithHint(m, r, n)[m]["validation"] = details[m]["validation"]
        /\ \A x \in Requests \cup {Shared} : x # m => WithHint(m, r, n)[x] = details[x]
  BY HintFacts
<1>2. r \in Requests \cup {Shared} /\ 1 \in Nat
  OBVIOUS
<1> QED
  BY <1>1, <1>2, Zenon

\* A step that has nothing to do with errors.
ErrorRests == UNCHANGED <<err, details, hints, answer>>

\* The middlewares, the router and the logger have nothing to do with errors,
\* and run before there is one.
LEMMA QuietSteps ==
  ASSUME RequestInv, NEW r \in Requests,
         \/ GlobalTest(r) \/ GlobalBuild(r) \/ ContextCancel(r) \/ ContentTypeJson(r) \/ Logging(r)
         \/ Tracing(r) \/ MetricsMonitor(r) \/ Cors(r) \/ Route(r)
  PROVE  ErrorRests /\ pc[r] \notin {"propagate", "leave", "done"} /\ pc'[r] # "propagate"
<1>0. pc \in [Requests -> Places]
  BY DEF RequestInv, TypeOK
<1>1. ErrorRests
  BY DEF ErrorRests, GlobalTest, GlobalBuild, ContextCancel, ContentTypeJson, Logging, Tracing,
         MetricsMonitor, Cors, Route
<1>2. pc[r] \notin {"propagate", "leave", "done"}
  BY DEF GlobalTest, GlobalBuild, Asking, ContextCancel, ContentTypeJson, Logging, Tracing,
         MetricsMonitor, Cors, Route
<1>3. CASE GlobalTest(r) \/ GlobalBuild(r)
  BY <1>1, <1>2, <1>3 DEF GlobalTest, GlobalBuild
<1>4. CASE Route(r)
  BY <1>0, <1>1, <1>2, <1>4 DEF Route, Goto
<1>5. CASE pc'[r] = "leave"
  BY <1>1, <1>2, <1>5
<1>6. CASE pc[r] \in Middlewares /\ Call(r)
  <2>1. pc'[r] \in Middlewares \cup {"route"}
    BY <1>6, CallMoves
  <2> QED
    BY <1>1, <1>2, <2>1 DEF Middlewares
<1>7. ContextCancel(r) \/ ContentTypeJson(r) \/ Logging(r) \/ MetricsMonitor(r) =>
        pc[r] \in Middlewares /\ Call(r)
  BY DEF ContextCancel, ContentTypeJson, Logging, MetricsMonitor, Middlewares
<1>8. Tracing(r) \/ Cors(r) => pc'[r] = "leave" \/ (pc[r] \in Middlewares /\ Call(r))
  BY <1>0 DEF Tracing, Cors, Panic, Goto, Middlewares
<1> QED
  BY <1>3, <1>4, <1>5, <1>6, <1>7, <1>8

\* What a step of r owes to the errors: types, its own error sound, and the
\* errors, maps and answers of the other requests left alone.
ErrorKept(r) ==
  /\ err' \in [Requests -> Errors]
  /\ details' \in [Requests \cup {Shared} -> Details]
  /\ hints' \in [Requests -> Nat]
  /\ answer' \in [Requests -> Answers]
  /\ ErrorOf(r)'
  /\ \A q \in Requests \ {r} :
       /\ err'[q] = err[q] /\ details'[q] = details[q]
       /\ hints'[q] = hints[q] /\ answer'[q] = answer[q]

\* What the proofs about errors take from the invariant.
LEMMA ErrorsTyped ==
  ASSUME RequestInv
  PROVE  /\ pc \in [Requests -> Places]
         /\ err \in [Requests -> Errors]
         /\ details \in [Requests \cup {Shared} -> Details]
         /\ hints \in [Requests -> Nat]
         /\ answer \in [Requests -> Answers]
         /\ Shared \notin Requests /\ "none" \notin Requests
         /\ \A q \in Requests : ErrorOf(q)
BY RequestAssumption DEF RequestInv, TypeOK, ErrorIsOwn, Shared

\* Before there is an error, a step that builds none owes nothing.
LEMMA QuietKeeps ==
  ASSUME RequestInv, NEW r \in Requests, ErrorRests,
         pc[r] \notin {"propagate", "leave", "done"}, pc'[r] # "propagate"
  PROVE  ErrorKept(r)
BY ErrorsTyped DEF ErrorRests, ErrorKept, ErrorOf

\* InvalidRequest: the hint is in the map of the error it made.
LEMMA InvalidRequestKeeps ==
  ASSUME RequestInv, NEW r \in Requests, NEW depth \in {0, 1}, InvalidRequest(r, depth),
         UNCHANGED answer, pc[r] \notin {"propagate", "leave", "done"}
  PROVE  ErrorKept(r)
<1> USE ErrorsTyped
<1> DEFINE e == [Fresh(r, "user", "new") EXCEPT !.depth = depth]
<1>1. /\ e \in Errors /\ e.class = "user" /\ e.status = Status("user") /\ e.map = r
      /\ e.from = "new" /\ ~e.origin
  BY FreshFacts DEF Errors
<1>2. err' = [err EXCEPT ![r] = e] /\ hints' = [hints EXCEPT ![r] = 1]
  BY DEF InvalidRequest
<1>3. pc' = [pc EXCEPT ![r] = "propagate"]
  BY DEF InvalidRequest, Goto
<1>4. /\ details' \in [Requests \cup {Shared} -> Details]
      /\ details'[r]["hint"] = [by |-> r, n |-> 1]
      /\ details'[r]["validation"] = details[r]["validation"]
      /\ \A x \in Requests \cup {Shared} : x # r => details'[x] = details[x]
  BY FirstHint DEF InvalidRequest, newDetails
<1> HIDE DEF e
<1>5. err'[r] = e /\ hints'[r] = 1 /\ pc'[r] = "propagate" /\ answer'[r] = NoAnswer
  BY <1>2, <1>3 DEF ErrorOf
<1>6. \A k \in Keys : details'[r][k].by \in {"none", r}
  BY <1>4 DEF ErrorOf, Keys
<1>7. ErrorOf(r)'
  BY <1>1, <1>4, <1>5, <1>6 DEF ErrorOf
<1> QED
  BY <1>1, <1>2, <1>4, <1>7 DEF ErrorKept

\* Parsing either builds such an error or none.
LEMMA ParsingKeeps ==
  ASSUME RequestInv, NEW r \in Requests, ParseResource(r) \/ ParseParam(r) \/ DecodeRequestBody(r)
  PROVE  ErrorKept(r)
<1>1. pc[r] \notin {"propagate", "leave", "done"} /\ UNCHANGED answer
  BY DEF ParseResource, ParseParam, DecodeRequestBody
<1>2. CASE InvalidRequest(r, 0) \/ InvalidRequest(r, 1)
  BY <1>1, <1>2, InvalidRequestKeeps
<1>3. CASE ErrorRests /\ pc'[r] # "propagate"
  BY <1>1, <1>3, QuietKeeps
<1>4. ParseResource(r) => InvalidRequest(r, 0) \/ (ErrorRests /\ pc'[r] # "propagate")
  BY ErrorsTyped DEF ParseResource, Goto, ErrorRests
<1>5. ParseParam(r) => InvalidRequest(r, 0) \/ (ErrorRests /\ pc'[r] # "propagate")
  BY ErrorsTyped DEF ParseParam, Panic, Goto, ErrorRests
<1>6. DecodeRequestBody(r) => InvalidRequest(r, 1) \/ (ErrorRests /\ pc'[r] # "propagate")
  BY ErrorsTyped DEF DecodeRequestBody, Panic, Goto, ErrorRests
<1> QED
  BY <1>2, <1>3, <1>4, <1>5, <1>6

\* ValidateForm: the second hint replaces the first, next to the messages of
\* the validator.
LEMMA ValidationKeeps ==
  ASSUME RequestInv, NEW r \in Requests, ValidateForm(r)
  PROVE  ErrorKept(r)
<1> USE ErrorsTyped
<1>0. pc[r] = "validate" /\ UNCHANGED answer
  BY DEF ValidateForm
<1>1. CASE Goto(r, "business") /\ UNCHANGED <<err, details, hints>>
  <2>1. ErrorRests /\ pc'[r] # "propagate"
    BY <1>0, <1>1 DEF ErrorRests, Goto
  <2> QED
    BY <1>0, <2>1, QuietKeeps
<1>2. CASE ~(Goto(r, "business") /\ UNCHANGED <<err, details, hints>>)
  <2> DEFINE e == [Fresh(r, "user", "new") EXCEPT !.depth = 3]
             first == [WithHint(r, r, 1)[r] EXCEPT !["validation"] = ValidationErrors(r)]
             second == [first EXCEPT !["hint"] = [by |-> r, n |-> 2]]
  <2>1. /\ e \in Errors /\ e.class = "user" /\ e.status = Status("user") /\ e.map = r
        /\ e.from = "new" /\ ~e.origin
    BY FreshFacts DEF Errors
  <2>2. err' = [err EXCEPT ![r] = e] /\ hints' = [hints EXCEPT ![r] = 2]
    BY <1>2 DEF ValidateForm
  <2>3. pc' = [pc EXCEPT ![r] = "propagate"]
    BY <1>2 DEF ValidateForm, Goto
  <2>4. /\ WithHint(r, r, 1) \in [Requests \cup {Shared} -> Details]
        /\ \A x \in Requests \cup {Shared} : x # r => WithHint(r, r, 1)[x] = details[x]
    BY FirstHint
  <2>5. details' = [[WithHint(r, r, 1) EXCEPT ![r] = first] EXCEPT ![r]["hint"] = [by |-> r, n |-> 2]]
    BY <1>2 DEF ValidateForm, ParseValidationErrors, newDetails
  <2>6. ValidationErrors(r) \in [by : {"none"} \cup Requests, n : Nat] /\ ValidationErrors(r).by = r
    BY DEF ValidationErrors
  <2>7. [by |-> r, n |-> 2] \in [by : {"none"} \cup Requests, n : Nat]
    OBVIOUS
  <2>8. first \in Details /\ first["validation"] = ValidationErrors(r)
    BY <2>4, <2>6 DEF Details, Keys
  <2> HIDE DEF first
  <2>9. second \in Details /\ second["validation"].by = r /\ second["hint"] = [by |-> r, n |-> 2]
    BY <2>6, <2>7, <2>8 DEF Details, Keys
  <2>10. details' = [WithHint(r, r, 1) EXCEPT ![r] = second]
    BY <2>4, <2>5
  <2> HIDE DEF e, second
  <2>11. /\ details' \in [Requests \cup {Shared} -> Details] /\ details'[r] = second
         /\ \A x \in Requests \ {r} : details'[x] = details[x]
    BY <2>4, <2>9, <2>10
  <2>12. err'[r] = e /\ hints'[r] = 2 /\ pc'[r] = "propagate" /\ answer'[r] = NoAnswer
    BY <1>0, <2>2, <2>3 DEF ErrorOf
  <2>13. ErrorOf(r)'
    BY <2>1, <2>9, <2>11, <2>12 DEF ErrorOf, Keys
  <2> QED
    BY <1>0, <2>1, <2>2, <2>11, <2>13 DEF ErrorKept
<1> QED
  BY <1>1, <1>2

\* The errors an application's handler may come by: all but the package-level
\* one hold the request's map, or none when they are not garlic's.
LEMMA NewErrorFacts ==
  ASSUME NEW r \in Requests, NEW e \in NewErrors(r), "none" \notin Requests
  PROVE  /\ e \in Errors /\ e.class \in {"user", "system"} /\ e.status = Status(e.class)
         /\ e.depth = 0 /\ (e.origin <=> e.from = "override")
         /\ e.from # "shared" => e.map \in {r, "none"}
         /\ e.from = "shared" => e.map = Shared
         /\ e.map = "none" => e.class = "system"
<1>1. CASE e \in {Fresh(r, "user", "new"), Fresh(r, "system", "new"), Fresh(r, "user", "override")}
  BY <1>1, FreshFacts
<1>2. CASE e = [Fresh(r, "user", "shared") EXCEPT !.map = Shared]
  BY <1>2, FreshFacts DEF Errors, Shared
<1>3. CASE e = [Fresh(r, "system", "new") EXCEPT !.map = "none"]
  BY <1>3, FreshFacts DEF Errors
<1> QED
  BY <1>1, <1>2, <1>3 DEF NewErrors

\* The application's part gives the request one of those errors, or none; the
\* map is still empty then.
LEMMA BusinessKeeps ==
  ASSUME RequestInv, NEW r \in Requests, Business(r)
  PROVE  ErrorKept(r)
<1> USE ErrorsTyped
<1>0. pc[r] = "business" /\ UNCHANGED <<details, hints, answer>>
  BY DEF Business
<1>1. CASE UNCHANGED err /\ pc'[r] # "propagate"
  BY <1>0, <1>1, QuietKeeps DEF ErrorRests
<1>2. ASSUME NEW e \in NewErrors(r), err' = [err EXCEPT ![r] = e], pc' = [pc EXCEPT ![r] = "propagate"]
      PROVE  ErrorKept(r)
  <2>1. /\ e \in Errors /\ e.class \in {"user", "system"} /\ e.status = Status(e.class)
        /\ e.depth = 0 /\ (e.origin <=> e.from = "override")
        /\ e.from # "shared" => e.map \in {r, "none"}
        /\ e.from = "shared" => e.map = Shared
        /\ e.map = "none" => e.class = "system"
    BY <1>2, NewErrorFacts
  <2>2. /\ err'[r] = e /\ pc'[r] = "propagate" /\ details'[r] = NoDetails /\ hints'[r] = 0
        /\ answer'[r] = NoAnswer
    BY <1>0, <1>2 DEF ErrorOf
  <2>3. NoDetails["hint"].n = 0 /\ \A k \in Keys : NoDetails[k].by = "none"
    BY DEF NoDetails, Nobody, Keys
  <2>4. ErrorOf(r)'
    BY <2>1, <2>2, <2>3 DEF ErrorOf
  <2> QED
    BY <1>0, <1>2, <2>1, <2>4 DEF ErrorKept
<1>3. Fresh(r, "system", "new") \in NewErrors(r)
  BY DEF NewErrors
<1>4. \/ UNCHANGED err /\ pc'[r] # "propagate"
      \/ \E e \in NewErrors(r) : err' = [err EXCEPT ![r] = e] /\ pc' = [pc EXCEPT ![r] = "propagate"]
  BY <1>3 DEF Business, Panic, Goto
<1> QED
  BY <1>1, <1>2, <1>4

\* wrap keeps the map it finds, so a hint on the way up lands in the request's
\* own map or in the package-level error's, never in another request's.
LEMMA PropagateKeeps ==
  ASSUME RequestInv, NEW r \in Requests, Propagate(r)
  PROVE  ErrorKept(r)
<1> USE ErrorsTyped
<1> DEFINE m == wrapDetails(r, err[r])
<1>0. pc[r] = "propagate" /\ UNCHANGED <<pc, answer>>
  BY DEF Propagate
<1>1. /\ m \in {r, Shared}
      /\ err[r].from # "shared" => m = r
      /\ err[r].from = "shared" => m = Shared
      /\ err[r].from \in {"none", "new", "override", "shared"} /\ err[r].depth \in Nat
  BY <1>0 DEF ErrorOf, wrapDetails, newDetails, Shared, Errors
<1>2. PICK class \in {"user", "system"} :
        err' = [err EXCEPT ![r] = [class |-> class, status |-> Status(class), map |-> m,
                                   origin |-> FALSE, from |-> err[r].from, depth |-> err[r].depth + 1]]
  BY DEF Propagate
<1> DEFINE e == [class |-> class, status |-> Status(class), map |-> m,
                 origin |-> FALSE, from |-> err[r].from, depth |-> err[r].depth + 1]
<1>3. \/ UNCHANGED <<details, hints>>
      \/ details' = WithHint(m, r, hints[r] + 1) /\ hints' = [hints EXCEPT ![r] = hints[r] + 1]
  BY DEF Propagate
<1> HIDE DEF m
<1>4. Status(class) \in Nat
  BY DEF Status
<1>5. /\ e \in Errors /\ e.class \in {"user", "system"} /\ e.status = Status(e.class)
      /\ e.map = m /\ e.origin = FALSE /\ e.from = err[r].from /\ e.depth = err[r].depth + 1
  BY <1>1, <1>4 DEF Errors, Shared
<1> HIDE DEF e
<1>6. err' \in [Requests -> Errors] /\ err'[r] = e /\ \A q \in Requests \ {r} : err'[q] = err[q]
  BY <1>2, <1>5 DEF e
<1>7. /\ details' \in [Requests \cup {Shared} -> Details] /\ hints' \in [Requests -> Nat]
      /\ \A q \in Requests \ {r} : details'[q] = details[q] /\ hints'[q] = hints[q]
      /\ \A k \in Keys : details'[r][k].by \in {"none", r}
      /\ m = r => details'[r]["hint"].n = hints'[r]
  <2>1. CASE UNCHANGED <<details, hints>>
    BY <1>0, <1>1, <2>1 DEF ErrorOf, Shared
  <2>2. CASE details' = WithHint(m, r, hints[r] + 1) /\ hints' = [hints EXCEPT ![r] = hints[r] + 1]
    <3>1. m \in Requests \cup {Shared} /\ hints[r] + 1 \in Nat
      BY <1>1
    <3>2. /\ details' \in [Requests \cup {Shared} -> Details]
          /\ details'[m]["hint"] = [by |-> r, n |-> hints[r] + 1]
          /\ details'[m]["validation"] = details[m]["validation"]
          /\ \A x \in Requests \cup {Shared} : x # m => details'[x] = details[x]
      BY <2>2, <3>1, HintFacts
    <3>3. /\ hints' \in [Requests -> Nat] /\ hints'[r] = hints[r] + 1
          /\ \A q \in Requests \ {r} : hints'[q] = hints[q]
      BY <2>2, <3>1
    <3>4. \A k \in Keys : details'[r][k].by \in {"none", r}
      BY <1>1, <3>2 DEF ErrorOf, Keys
    <3> QED
      BY <1>1, <3>2, <3>3, <3>4
  <2> QED
    BY <1>3, <2>1, <2>2
<1>8. ErrorOf(r)'
  BY <1>0, <1>1, <1>5, <1>6, <1>7 DEF ErrorOf, Shared
<1> QED
  BY <1>0, <1>6, <1>7, <1>8 DEF ErrorKept

\* An answer that does not encode is replaced by one that says nothing.
LEMMA BodyTyped ==
  ASSUME NEW a \in Answers, NEW encodes \in BOOLEAN
  PROVE  /\ Body(a, encodes) \in Answers
         /\ Body(a, encodes) = a \/ Body(a, encodes).class = "system"
<1>1. NoDetails \in [Keys -> [by : {"none", "rest"} \cup Requests, n : Nat]]
  BY DEF NoDetails, Nobody, Keys
<1> QED
  BY <1>1 DEF Body, Answers

\* Answering changes no error; an error in full always has a map.
LEMMA AnswerKeeps ==
  ASSUME RequestInv, NEW r \in Requests, Answer(r)
  PROVE  ErrorKept(r)
<1> USE ErrorsTyped
<1>0. pc[r] = "propagate" /\ UNCHANGED <<err, details, hints>>
  BY DEF Answer
<1>1. UNCHANGED answer
      \/ \E ok \in BOOLEAN : answer' = [answer EXCEPT ![r] = Body(WriteError(err[r]), ok)]
  BY DEF Answer, Reply
<1>2. pc'[r] = "leave"
  BY DEF Answer, Panic, Goto
<1>3. ErrorOf(r)'
  BY <1>0, <1>2 DEF ErrorOf
<1>4. WriteError(err[r]) \in Answers
  <2>1. CASE err[r].class = "user"
    <3>1. err[r].map \in Requests \cup {Shared} /\ err[r].status \in Nat /\ err[r].origin \in BOOLEAN
      BY <1>0, <2>1 DEF ErrorOf, Errors
    <3>2. details[err[r].map] \in [Keys -> [by : {"none", "rest"} \cup Requests, n : Nat]]
      BY <3>1 DEF Details, Keys
    <3> QED
      BY <2>1, <3>1, <3>2 DEF WriteError, Answers
  <2>2. CASE err[r].class # "user"
    <3>1. err[r].status \in Nat
      BY DEF Errors
    <3>2. Suppressed \in [Keys -> [by : {"none", "rest"} \cup Requests, n : Nat]]
      BY DEF Suppressed, NoDetails, Nobody, Keys
    <3> QED
      BY <2>2, <3>1, <3>2 DEF WriteError, Answers
  <2> QED
    BY <2>1, <2>2
<1>5. answer' \in [Requests -> Answers] /\ \A q \in Requests \ {r} : answer'[q] = answer[q]
  BY <1>1, <1>4, BodyTyped
<1> QED
  BY <1>0, <1>3, <1>5 DEF ErrorKept

\* The handlers of unrouted requests answer from a map they just made.
LEMMA UnroutedKeeps ==
  ASSUME RequestInv, NEW r \in Requests, Unrouted(r)
  PROVE  /\ ErrorKept(r) /\ err'[r].from = "new" /\ hints'[r] = 1
         /\ answer'[r].class = "user" =>
              answer'[r].details = details'[r] /\ answer'[r].origin = FALSE
         /\ details'[r]["hint"].n = 1
<1> USE ErrorsTyped
<1> DEFINE status == IF target[r] = "method" THEN 405 ELSE 404
           e == [Fresh(r, "user", "new") EXCEPT !.status = status]
           heap == WithHint(newDetails(r), r, 1)
           a == [status |-> status, class |-> "user", details |-> heap[e.map], origin |-> FALSE]
<1>0. status \in Nat
  OBVIOUS
<1>1. err' = [err EXCEPT ![r] = e] /\ hints' = [hints EXCEPT ![r] = 1] /\ details' = heap
  BY DEF Unrouted
<1>13. Reply(r, a)
  BY DEF Unrouted
<1>2. \E ok \in BOOLEAN : answer' = [answer EXCEPT ![r] = Body(a, ok)]
  BY <1>13, ReplyEncodes
<1>3. pc'[r] = "leave"
  BY DEF Unrouted, Goto
<1>4. /\ details' \in [Requests \cup {Shared} -> Details]
      /\ details'[r]["hint"] = [by |-> r, n |-> 1]
      /\ details'[r]["validation"] = details[r]["validation"]
      /\ \A x \in Requests \cup {Shared} : x # r => details'[x] = details[x]
  <2>1. details' = WithHint(r, r, 1)
    BY DEF Unrouted, newDetails
  <2> QED
    BY <2>1, FirstHint
<1> HIDE DEF status, heap
<1>5. e \in Errors /\ e.map = r /\ e.from = "new"
  BY <1>0, FreshFacts DEF Errors
<1> HIDE DEF e
<1>6. details'[r] \in [Keys -> [by : {"none", "rest"} \cup Requests, n : Nat]]
  BY <1>4 DEF Details, Keys
<1>7. a \in Answers /\ a.details = details'[r] /\ a.origin = FALSE
  BY <1>0, <1>1, <1>5, <1>6 DEF Answers
<1> HIDE DEF a
<1>8. \A k \in Keys : details'[r][k].by \in {"none", r}
  BY <1>4 DEF ErrorOf, Keys
<1>9. ErrorOf(r)'
  BY <1>3, <1>8 DEF ErrorOf
<1>10. /\ err' \in [Requests -> Errors] /\ err'[r] = e /\ \A q \in Requests \ {r} : err'[q] = err[q]
       /\ hints' \in [Requests -> Nat] /\ hints'[r] = 1 /\ \A q \in Requests \ {r} : hints'[q] = hints[q]
  BY <1>1, <1>5
<1>11. /\ answer' \in [Requests -> Answers] /\ \A q \in Requests \ {r} : answer'[q] = answer[q]
       /\ answer'[r] = a \/ answer'[r].class = "system"
  BY <1>2, <1>7, BodyTyped
<1>12. ErrorKept(r)
  BY <1>4, <1>9, <1>10, <1>11 DEF ErrorKept
<1> QED
  BY <1>4, <1>5, <1>7, <1>10, <1>11, <1>12

\* Unwinding forgets the error, its map and the answer.
LEMMA CollectKeeps ==
  ASSUME RequestInv, NEW r \in Requests, Leave(r) \/ Done(r)
  PROVE  ErrorKept(r) /\ answer'[r] = NoAnswer
<1> USE ErrorsTyped
<1>1. Collect(r) /\ pc'[r] \in {"leave", "done"}
  BY DEF Leave, Done, Goto
<1>2. NoError \in Errors /\ NoDetails \in Details /\ NoAnswer \in Answers
  BY DEF NoError, Errors, NoDetails, Nobody, Details, NoAnswer, Answers, Keys
<1>3. \A k \in Keys : NoDetails[k].by = "none"
  BY DEF NoDetails, Nobody, Keys
<1>4. /\ err' \in [Requests -> Errors] /\ details' \in [Requests \cup {Shared} -> Details]
      /\ hints' \in [Requests -> Nat] /\ answer' \in [Requests -> Answers]
      /\ details'[r] = NoDetails /\ answer'[r] = NoAnswer
      /\ \A q \in Requests \ {r} :
           /\ err'[q] = err[q] /\ details'[q] = details[q]
           /\ hints'[q] = hints[q] /\ answer'[q] = answer[q]
  BY <1>1, <1>2 DEF Collect
<1>5. ErrorOf(r)'
  BY <1>1, <1>3, <1>4 DEF ErrorOf
<1> QED
  BY <1>4, <1>5 DEF ErrorKept

\* Every step of a request keeps its error sound and the others' untouched.
LEMMA StepKeepsErrors ==
  ASSUME RequestInv, NEW r \in Requests, Step(r)
  PROVE  ErrorKept(r)
<1>1. CASE \/ GlobalTest(r) \/ GlobalBuild(r) \/ ContextCancel(r) \/ ContentTypeJson(r) \/ Logging(r)
           \/ Tracing(r) \/ MetricsMonitor(r) \/ Cors(r) \/ Route(r)
  BY <1>1, QuietSteps, QuietKeeps
<1> QED
  BY <1>1, ParsingKeeps, ValidationKeeps, BusinessKeeps, PropagateKeeps, AnswerKeeps, UnroutedKeeps,
     CollectKeeps DEF Step

\* A request whose own state a step leaves alone keeps its error.
LEMMA ErrorOfOthers ==
  ASSUME RequestInv, NEW q \in Requests, pc'[q] = pc[q], err'[q] = err[q], details'[q] = details[q],
         hints'[q] = hints[q], answer'[q] = answer[q]
  PROVE  ErrorOf(q)'
BY DEF RequestInv, ErrorIsOwn, ErrorOf

\* No step of any request disturbs whose map is whose.
LEMMA ErrorStep == RequestInv /\ [Next]_vars => ErrorIsOwn'
<1> SUFFICES ASSUME RequestInv, [Next]_vars PROVE ErrorIsOwn'
  OBVIOUS
<1>1. CASE InitLogger \/ Serve \/ UNCHANGED vars
  BY <1>1, ErrorOfOthers DEF InitLogger, Serve, vars, ErrorIsOwn
<1>2. ASSUME NEW r \in Requests, NEW t \in Targets, Arrive(r, t) PROVE ErrorIsOwn'
  <2>1. ErrorRests /\ pc[r] = "new" /\ \A q \in Requests : q # r => pc'[q] = pc[q]
    BY <1>2, ErrorsTyped DEF Arrive, ErrorRests
  <2>2. pc'[r] # "propagate"
    BY <1>2, FirstIsAPlace, ErrorsTyped DEF Arrive, Middlewares
  <2>3. ErrorOf(r)'
    BY <2>1, <2>2, QuietKeeps DEF ErrorKept
  <2> QED
    BY <2>1, <2>3, ErrorOfOthers DEF ErrorIsOwn, ErrorRests
<1>3. ASSUME NEW r \in Requests, Step(r) PROVE ErrorIsOwn'
  <2>1. \A q \in Requests : q # r => pc'[q] = pc[q]
    BY <1>3, StepMoves, ErrorsTyped DEF Moves
  <2>2. ErrorKept(r)
    BY <1>3, StepKeepsErrors
  <2> QED
    BY <2>1, <2>2, ErrorOfOthers DEF ErrorIsOwn, ErrorKept
<1> QED
  BY <1>1, <1>2, <1>3 DEF Next, Over

\* The stack of calls holds middlewares only.
LEMMA FramesTyped ==
  ASSUME RequestInv, NEW r \in Requests, Step(r)
  PROVE  frames' \in [Requests -> Seq(Middlewares)]
<1>0. frames \in [Requests -> Seq(Middlewares)]
  BY DEF RequestInv, TypeOK
<1>1. CASE UNCHANGED frames
  BY <1>0, <1>1
<1>2. CASE Call(r) /\ pc[r] \in Middlewares
  BY <1>2, CallMoves
<1>3. CASE frames' = [frames EXCEPT ![r] = Append(frames[r], pc[r])] /\ pc[r] \in Middlewares
  <2> HIDE DEF Middlewares
  <2> QED
    BY <1>0, <1>3
<1>4. CASE Leave(r)
  <2>1. frames[r] \in Seq(Middlewares) /\ frames[r] # << >>
    BY <1>0, <1>4 DEF Leave
  <2>2. SubSeq(frames[r], 1, Len(frames[r]) - 1) \in Seq(Middlewares)
    BY <2>1
  <2>3. frames' = [frames EXCEPT ![r] = SubSeq(frames[r], 1, Len(frames[r]) - 1)]
    BY <1>4 DEF Leave
  <2> QED
    BY <1>0, <2>2, <2>3
<1>5. ContextCancel(r) \/ ContentTypeJson(r) \/ Logging(r) \/ MetricsMonitor(r) =>
        Call(r) /\ pc[r] \in Middlewares
  BY DEF ContextCancel, ContentTypeJson, Logging, MetricsMonitor, Middlewares
<1>6. Tracing(r) => UNCHANGED frames \/ (Call(r) /\ pc[r] \in Middlewares)
  BY DEF Tracing, Middlewares
<1>7. Cors(r) => frames' = [frames EXCEPT ![r] = Append(frames[r], pc[r])] /\ pc[r] \in Middlewares
  BY DEF Cors, Call, Middlewares
<1>8. CASE \/ GlobalTest(r) \/ GlobalBuild(r) \/ Route(r) \/ ParseResource(r) \/ ParseParam(r)
           \/ DecodeRequestBody(r) \/ ValidateForm(r) \/ Business(r) \/ Propagate(r) \/ Answer(r)
           \/ Unrouted(r) \/ Done(r)
  BY <1>1, <1>8 DEF GlobalTest, GlobalBuild, Route, ParseResource, ParseParam, DecodeRequestBody,
     ValidateForm, Business, Propagate, Answer, Unrouted, Done
<1> QED
  BY <1>1, <1>2, <1>3, <1>4, <1>5, <1>6, <1>7, <1>8 DEF Step

\* A context keeps its type: cancellable or not, with a logger or none.
LEMMA ContextTyped ==
  ASSUME RequestInv, NEW r \in Requests, Step(r)
  PROVE  ctx' \in [Requests -> [live : BOOLEAN, logger : {"none", "main"} \cup Requests]]
<1>0. /\ ctx \in [Requests -> [live : BOOLEAN, logger : {"none", "main"} \cup Requests]]
      /\ global \in {"none", "main"} \cup Requests
  BY DEF RequestInv, TypeOK
<1>1. ASSUME NEW live \in BOOLEAN, ctx' = [ctx EXCEPT ![r].live = live]
      PROVE  ctx' \in [Requests -> [live : BOOLEAN, logger : {"none", "main"} \cup Requests]]
  <2>1. [ctx[r] EXCEPT !.live = live] \in [live : BOOLEAN, logger : {"none", "main"} \cup Requests]
    BY <1>0
  <2> QED
    BY <1>0, <1>1, <2>1
<1>2. CASE Logging(r)
  BY <1>0, <1>2 DEF Logging
<1>3. CASE Leave(r)
  <2> DEFINE live == IF frames[r][Len(frames[r])] = "ContextCancel" THEN FALSE ELSE ctx[r].live
  <2>1. ctx' = [ctx EXCEPT ![r].live = live]
    BY <1>3 DEF Leave
  <2>2. live \in BOOLEAN
    BY <1>0
  <2> QED
    BY <1>1, <2>1, <2>2
<1>4. CASE Done(r)
  BY <1>0, <1>4 DEF Done
<1>5. CASE ContextCancel(r)
  BY <1>1, <1>5 DEF ContextCancel
<1>6. CASE ~(ContextCancel(r) \/ Logging(r) \/ Leave(r) \/ Done(r))
  <2>1. UNCHANGED ctx
    BY <1>6 DEF Step, GlobalTest, GlobalBuild, ContentTypeJson, Tracing, MetricsMonitor, Cors, Route,
       ParseResource, ParseParam, DecodeRequestBody, ValidateForm, Business, Propagate, Answer, Unrouted
  <2> QED
    BY <1>0, <2>1
<1> QED
  BY <1>2, <1>3, <1>4, <1>5, <1>6

\* The global logger and the places inside Global keep their types.
LEMMA LoggerTyped ==
  ASSUME RequestInv, NEW r \in Requests, Step(r)
  PROVE  /\ global' \in {"none", "main"} \cup Requests
         /\ glob' \in [Requests -> {"idle", "build", "read"}]
<1>0. global \in {"none", "main"} \cup Requests /\ glob \in [Requests -> {"idle", "build", "read"}]
  BY DEF RequestInv, TypeOK
<1>1. CASE GlobalTest(r) \/ GlobalBuild(r)
  BY <1>0, <1>1 DEF GlobalTest, GlobalBuild
<1>2. CASE Logging(r) \/ Unrouted(r)
  <2>1. UNCHANGED global /\ glob' = [glob EXCEPT ![r] = "idle"]
    BY <1>2 DEF Logging, Unrouted, Release
  <2> QED
    BY <1>0, <2>1
<1>3. CASE Done(r)
  BY <1>0, <1>3 DEF Done
<1> QED
  BY <1>0, <1>1, <1>2, <1>3, LoggerUntouched

\* The writer, the log line, the traffic count and the active requests keep
\* their types.
LEMMA ReportsTyped ==
  ASSUME RequestInv, NEW r \in Requests, Step(r)
  PROVE  /\ writer' \in [Requests -> Writers]
         /\ lines' \in [Requests -> [logged : Nat, counted : Nat]]
         /\ active' \subseteq Requests
<1>0. /\ writer \in [Requests -> Writers] /\ lines \in [Requests -> [logged : Nat, counted : Nat]]
      /\ active \subseteq Requests
  BY DEF RequestInv, TypeOK
<1>1. active' \subseteq Requests
  BY <1>0 DEF Step, GlobalTest, GlobalBuild, ContextCancel, ContentTypeJson, Logging, Tracing,
     MetricsMonitor, Cors, Route, ParseResource, ParseParam, DecodeRequestBody, ValidateForm, Business,
     Propagate, Answer, Unrouted, Leave, Done
<1>2. CASE Business(r) \/ Answer(r) \/ Unrouted(r)
  BY <1>0, <1>1, <1>2, AnswersWriteOnce
<1>3. CASE Leave(r)
  <2>1. UNCHANGED writer
    BY <1>3 DEF Leave
  <2>2. writer[r].recorded \in Nat
    BY <1>0 DEF Writers
  <2>3. lines' \in [Requests -> [logged : Nat, counted : Nat]]
    BY <1>0, <1>3, <2>2 DEF Leave
  <2> QED
    BY <1>0, <1>1, <2>1, <2>3
<1>4. CASE Done(r)
  <2>1. UNCHANGED lines /\ writer' = [writer EXCEPT ![r].sent = IF @ = 0 /\ ~panicking[r] THEN 200 ELSE @]
    BY <1>4 DEF Done
  <2> QED
    BY <1>0, <1>1, <2>1 DEF Writers
<1> QED
  BY <1>0, <1>1, <1>2, <1>3, <1>4, WriterUntouched

\* The panic flag and the target keep their types.
LEMMA FlagsTyped ==
  ASSUME RequestInv, NEW r \in Requests, Step(r)
  PROVE  panicking' \in [Requests -> BOOLEAN] /\ target' \in [Requests -> Targets \cup {"none"}]
<1>0. panicking \in [Requests -> BOOLEAN] /\ target \in [Requests -> Targets \cup {"none"}]
  BY DEF RequestInv, TypeOK
<1>1. UNCHANGED panicking \/ panicking' = [panicking EXCEPT ![r] = TRUE]
  BY DEF Step, Panic, GlobalTest, GlobalBuild, ContextCancel, ContentTypeJson, Logging, Tracing,
     MetricsMonitor, Cors, Route, ParseResource, ParseParam, DecodeRequestBody, ValidateForm, Business,
     Propagate, Answer, Unrouted, Leave, Done
<1>2. UNCHANGED target \/ target' = [target EXCEPT ![r] = "none"]
  BY DEF Step, GlobalTest, GlobalBuild, ContextCancel, ContentTypeJson, Logging, Tracing,
     MetricsMonitor, Cors, Route, ParseResource, ParseParam, DecodeRequestBody, ValidateForm, Business,
     Propagate, Answer, Unrouted, Leave, Done
<1> QED
  BY <1>0, <1>1, <1>2

\* Every step keeps the types.
LEMMA TypeStep == RequestInv /\ [Next]_vars => TypeOK'
<1> SUFFICES ASSUME RequestInv, [Next]_vars PROVE TypeOK'
  OBVIOUS
<1>0. TypeOK
  BY DEF RequestInv
<1>1. CASE InitLogger
  BY <1>0, <1>1 DEF InitLogger, TypeOK
<1>2. CASE Serve
  BY <1>0, <1>2 DEF Serve, TypeOK
<1>3. ASSUME NEW r \in Requests, NEW t \in Targets, Arrive(r, t) PROVE TypeOK'
  <2>1. /\ target' \in [Requests -> Targets \cup {"none"}]
        /\ UNCHANGED <<main, stack, global, glob, frames, ctx, writer, err, details, hints, answer,
                       panicking, active, lines>>
    BY <1>0, <1>3 DEF Arrive, TypeOK
  <2>2. pc' \in [Requests -> Places]
    BY <1>0, <1>3, FirstIsAPlace DEF Arrive, TypeOK, Places
  <2> QED
    BY <1>0, <2>1, <2>2 DEF TypeOK
<1>4. ASSUME NEW r \in Requests, Step(r) PROVE TypeOK'
  <2>1. UNCHANGED <<main, stack>>
    BY <1>4, MainRests
  <2>2. pc' \in [Requests -> Places]
    BY <1>0, <1>4, StepMoves DEF Moves, TypeOK
  <2>3. /\ err' \in [Requests -> Errors] /\ details' \in [Requests \cup {Shared} -> Details]
        /\ hints' \in [Requests -> Nat] /\ answer' \in [Requests -> Answers]
    BY <1>4, StepKeepsErrors DEF ErrorKept
  <2> QED
    BY <1>0, <1>4, <2>1, <2>2, <2>3, FramesTyped, ContextTyped, LoggerTyped, ReportsTyped,
       FlagsTyped DEF TypeOK
<1>5. CASE UNCHANGED vars
  BY <1>0, <1>5 DEF vars, TypeOK
<1> QED
  BY <1>1, <1>2, <1>3, <1>4, <1>5 DEF Next, Over

\* The invariant holds before the application starts.
LEMMA InitInv == Init => RequestInv
<1> SUFFICES ASSUME Init PROVE RequestInv
  OBVIOUS
<1>1. NoError \in Errors /\ NoDetails \in Details /\ NoAnswer \in Answers
  BY DEF NoError, Errors, NoDetails, Nobody, Details, NoAnswer, Answers, Keys
<1>2. \A k \in Keys : NoDetails[k].by = "none"
  BY DEF NoDetails, Nobody, Keys
<1>3. TypeOK
  BY <1>1 DEF Init, TypeOK, Places, Writers
<1>4. LoggerIsFinal /\ StatusRecorded
  BY DEF Init, LoggerIsFinal, StatusRecorded, StatusOf
<1>5. ErrorIsOwn
  BY <1>2 DEF Init, ErrorIsOwn, ErrorOf
<1> QED
  BY <1>3, <1>4, <1>5 DEF RequestInv

\* RequestInv for any number of requests, any chain of middlewares and any
\* number of propagations: a logger that Init set is final, a finished request
\* was logged and counted under the status its client saw, and an error's own map
\* is written by its request only (logging Init and Global, middleware Logging and
\* MetricsMonitor, errors newErrorT and wrap).
THEOREM RequestInvariant == Spec => []RequestInv
<1>1. RequestInv /\ [Next]_vars => RequestInv'
  BY TypeStep, LoggerStep, StatusStep, ErrorStep DEF RequestInv
<1> QED
  BY <1>1, InitInv, PTL DEF Spec

\* WriteError: a user error in full has a map, the request's own unless the
\* error is the package-level one.
LEMMA AnswerSpeaksForItself ==
  ASSUME RequestInv, NEW r \in Requests, Answer(r)
  PROVE  AnswerOf(r)'
<1> USE ErrorsTyped
<1>0. pc[r] = "propagate" /\ UNCHANGED <<err, details, hints>>
  BY DEF Answer
<1>1. CASE UNCHANGED answer
  BY <1>0, <1>1 DEF AnswerOf, ErrorOf, NoAnswer
<1>2. ASSUME NEW ok \in BOOLEAN, answer' = [answer EXCEPT ![r] = Body(WriteError(err[r]), ok)]
      PROVE  AnswerOf(r)'
  <2>0. CASE ~ok
    BY <1>2, <2>0 DEF Body, AnswerOf
  <2> SUFFICES ASSUME ok PROVE AnswerOf(r)'
    BY <2>0
  <2>1. answer'[r] = WriteError(err[r])
    BY <1>2 DEF Body
  <2>2. CASE err[r].class = "user"
    <3>1. answer'[r].details = details[err[r].map] /\ answer'[r].origin = err[r].origin
      BY <2>1, <2>2 DEF WriteError
    <3>2. err[r].from # "shared" => err[r].map = r /\ details[r]["hint"].n = hints[r]
      BY <1>0, <2>2 DEF ErrorOf
    <3>3. err[r].origin <=> err[r].from = "override" /\ err[r].depth = 0
      BY <1>0 DEF ErrorOf
    <3>4. \A k \in Keys : details[r][k].by \in {"none", r}
      BY DEF ErrorOf
    <3> QED
      BY <1>0, <3>1, <3>2, <3>3, <3>4 DEF AnswerOf
  <2>3. CASE err[r].class # "user"
    <3>1. answer'[r].class = "system"
      BY <2>1, <2>3 DEF WriteError
    <3> QED
      BY <3>1 DEF AnswerOf
  <2> QED
    BY <2>2, <2>3
<1> QED
  BY <1>1, <1>2 DEF Answer, Reply

\* Every step keeps the answers honest: until the handler unwinds, nothing
\* changes the error or the hints an answer was made from.
LEMMA AnswerStep == RequestInv /\ AnswerIsOwn /\ [Next]_vars => AnswerIsOwn'
<1> SUFFICES ASSUME RequestInv, AnswerIsOwn, [Next]_vars PROVE AnswerIsOwn'
  OBVIOUS
<1>0. \A q \in Requests : AnswerOf(q)
  BY DEF AnswerIsOwn
<1>1. SUFFICES \A q \in Requests : AnswerOf(q)'
  BY DEF AnswerIsOwn
<1>2. CASE InitLogger \/ Serve \/ UNCHANGED vars \/ \E r \in Requests, t \in Targets : Arrive(r, t)
  BY <1>0, <1>2 DEF InitLogger, Serve, vars, Arrive, AnswerOf
<1>3. ASSUME NEW r \in Requests, Step(r) PROVE \A q \in Requests : AnswerOf(q)'
  <2>1. \A q \in Requests \ {r} : AnswerOf(q)'
    BY <1>0, <1>3, StepKeepsErrors DEF ErrorKept, AnswerOf
  <2>2. CASE Answer(r)
    BY <2>1, <2>2, AnswerSpeaksForItself
  <2>3. CASE Unrouted(r)
    <3>1. /\ err'[r].from = "new" /\ hints'[r] = 1 /\ details'[r]["hint"].n = 1
          /\ answer'[r].class = "user" =>
               answer'[r].details = details'[r] /\ answer'[r].origin = FALSE
      BY <2>3, UnroutedKeeps
    <3>2. \A k \in Keys : details'[r][k].by \in {"none", r}
      BY <1>3, StepKeepsErrors DEF ErrorKept, ErrorOf
    <3>3. AnswerOf(r)'
      BY <3>1, <3>2 DEF AnswerOf
    <3> QED
      BY <2>1, <3>3
  <2>4. CASE Leave(r) \/ Done(r)
    BY <2>1, <2>4, CollectKeeps DEF AnswerOf, NoAnswer
  <2>5. CASE ~(Answer(r) \/ Unrouted(r) \/ Leave(r) \/ Done(r))
    <3>1. UNCHANGED answer
      BY <1>3, <2>5 DEF Step, InvalidRequest, GlobalTest, GlobalBuild, ContextCancel, ContentTypeJson,
         Logging, Tracing, MetricsMonitor, Cors, Route, ParseResource, ParseParam, DecodeRequestBody,
         ValidateForm, Business, Propagate
    <3>2. pc[r] # "leave"
      BY <1>3, <2>5, StepMoves DEF Moves
    <3>3. answer'[r] = NoAnswer
      BY <3>1, <3>2, ErrorsTyped DEF ErrorOf
    <3> QED
      BY <2>1, <3>3 DEF AnswerOf, NoAnswer
  <2> QED
    BY <2>2, <2>3, <2>4, <2>5
<1> QED
  BY <1>2, <1>3 DEF Next, Over

\* AnswerIsOwn for any number of requests, any chain and any number of
\* propagations: concurrent requests cannot put their hints or their validation
\* messages into each other's answers (errors newErrorT, wrap, Hint; rest
\* WriteError).
THEOREM AnswersAreOwn == Spec => []AnswerIsOwn
<1>1. Init => AnswerIsOwn
  BY DEF Init, AnswerIsOwn, AnswerOf, NoAnswer
<1> QED
  BY <1>1, AnswerStep, RequestInvariant, PTL DEF Spec

=============================================================================
