------------------------------ MODULE HttpSend ------------------------------
(***************************************************************************)
(* One httpclient Request from Send to the caller closing its Response:     *)
(* the body provider, the hooks, the token source read before every         *)
(* attempt, the retry loop with its backoff, the request context with the   *)
(* timeout Send derives from the caller's, and what becomes of the request  *)
(* and response bodies on every way out.                                    *)
(* net/http is external, modelled from how doWithRetry and Response use it: *)
(* Do takes the request body and closes it, the server may have processed   *)
(* a request whose answer never arrives, Do returns once its context is     *)
(* done, and of a response whose context is done only what the connection   *)
(* had already buffered can be read.                                        *)
(***************************************************************************)
EXTENDS Naturals

CONSTANTS MaxRetries,    \* RetryConfig.MaxRetries
          MaxRotations   \* bound: how often the mounted token changes

ASSUME RetryAssumption == MaxRetries \in Nat /\ MaxRotations \in Nat

VARIABLES req,         \* what the setters chose, and the client's defaults
          pc,          \* where Send, then its caller, is
          attempt,     \* the loop's counter
          callerDone,  \* the caller's context is done
          expired,     \* the timeout Send derived has passed
          released,    \* the deferred cancel has run
          version,     \* the token now in the token source
          token,       \* the one the Authorization header carries
          rotatedBy,   \* the version current when the last attempt came back
          reqBody,     \* the request body handed to net/http
          whole,       \* every attempt so far carried the whole body
          applied,     \* attempts the server processed
          answer,      \* what the last Do returned
          body,        \* the body of that response
          dropped,     \* an open response body was overwritten
          result,      \* what Send returned
          read         \* what the caller's own read of the body met

conn == <<callerDone, expired, released>>
auth == <<version, token, rotatedBy>>
sent == <<reqBody, whole, applied>>
got  == <<answer, body, dropped>>
out  == <<result, read>>
vars == <<req, pc, attempt, conn, auth, sent, got, out>>

Answers == {"err", "success", "retryable", "final"}

\* How the setters and the configuration may leave a Request. "derived": Send
\* makes its own timeout context, the caller's having no earlier deadline.
Requests ==
  [idempotent : BOOLEAN, override : {"none", "on", "off"}, enabled : BOOLEAN,
   body : {"none", "memory", "stream"}, source : BOOLEAN, derived : BOOLEAN,
   parse : BOOLEAN]

TypeOK ==
  /\ req \in Requests
  /\ pc \in {"new", "before", "auth", "do", "inflight", "check", "sleep", "rewind",
             "handle", "after", "returned", "closing", "over"}
  /\ attempt \in 0 .. MaxRetries
  /\ callerDone \in BOOLEAN /\ expired \in BOOLEAN /\ released \in BOOLEAN
  /\ version \in 0 .. MaxRotations /\ token \in 0 .. version /\ rotatedBy \in 0 .. version
  /\ reqBody \in {"unset", "none", "fresh", "closed"} /\ whole \in BOOLEAN
  /\ applied \in 0 .. MaxRetries + 1
  /\ answer \in Answers \cup {"none"} /\ body \in {"none", "open", "closed"}
  /\ dropped \in BOOLEAN
  /\ result \in {"none", "err", "resp", "resp_err"} /\ read \in {"none", "ok", "cancelled"}

Init ==
  /\ req \in Requests /\ pc = "new" /\ attempt = 0
  /\ callerDone = FALSE /\ expired = FALSE /\ released = FALSE
  /\ version = 0 /\ token = 0 /\ rotatedBy = 0
  /\ reqBody = "unset" /\ whole = TRUE /\ applied = 0
  /\ answer = "none" /\ body = "none" /\ dropped = FALSE
  /\ result = "none" /\ read = "none"

CtxDone == callerDone \/ expired \/ released

Return(res) == pc' = "returned" /\ result' = res /\ released' = req.derived
Goto(l) == pc' = l /\ UNCHANGED <<released, result>>

----------------------------------------------------------------------------
(* Send and execute, up to the first attempt.                               *)

\* The URL, the setters or the method are wrong: no body was opened.
BuildFails ==
  /\ pc = "new"
  /\ pc' = "returned" /\ result' = "err" /\ UNCHANGED released
  /\ UNCHANGED <<req, attempt, callerDone, expired, auth, sent, got, read>>

ApplyBody ==
  /\ pc = "new" /\ Goto("before")
  /\ reqBody' = IF req.body = "none" THEN "none" ELSE "fresh"
  /\ UNCHANGED <<req, attempt, callerDone, expired, auth, whole, applied, got, read>>

\* An early return once the body is live closes it.
AbortLeavesBody == UNCHANGED reqBody
Abort == reqBody' = IF reqBody = "none" THEN "none" ELSE "closed"

RunBefore ==
  /\ pc = "before"
  /\ \/ Goto("auth") /\ UNCHANGED reqBody
     \/ Return("err") /\ Abort
  /\ UNCHANGED <<req, attempt, callerDone, expired, auth, whole, applied, got, read>>

\* injectAuth reads the source unless the request brought its own credentials.
\* Whether it did was settled before the first attempt set the header.
ReadTokenOnce == token' = IF req.source /\ attempt = 0 THEN version ELSE token
ReadToken == token' = IF req.source THEN version ELSE token

InjectAuth ==
  /\ pc = "auth"
  /\ \/ Goto("do") /\ ReadToken /\ UNCHANGED reqBody
     \/ req.source /\ Return("err") /\ Abort /\ UNCHANGED token
  /\ UNCHANGED <<req, attempt, callerDone, expired, version, rotatedBy, whole, applied, got, read>>

----------------------------------------------------------------------------
(* doWithRetry.                                                             *)

Replayable == req.body /= "stream"

CanRetryAnyMethod ==
  /\ MaxRetries > 0
  /\ IF req.override = "none" THEN req.enabled ELSE req.override = "on"
  /\ Replayable

\* Retry is on for the client or this request, and safe to do.
CanRetry ==
  /\ MaxRetries > 0
  /\ IF req.override = "none" THEN req.enabled ELSE req.override = "on"
  /\ Replayable
  /\ req.idempotent \/ req.override = "on"

\* Do takes the body; a second attempt sharing the first one's has none left.
Do ==
  /\ pc = "do" /\ Goto("inflight")
  /\ whole' = (whole /\ reqBody /= "closed")
  /\ reqBody' = IF reqBody = "none" THEN "none" ELSE "closed"
  /\ UNCHANGED <<req, attempt, callerDone, expired, auth, applied, got, read>>

\* A response or a transport error; the server processed the request or not.
DoReturns(a, processed) ==
  /\ pc = "inflight" /\ Goto("check")
  /\ a = "success" => processed
  /\ answer' = a /\ applied' = applied + (IF processed THEN 1 ELSE 0)
  /\ body' = IF a = "err" THEN "none" ELSE "open"
  /\ dropped' = (dropped \/ body = "open")
  /\ rotatedBy' = version
  /\ UNCHANGED <<req, attempt, callerDone, expired, version, token, reqBody, whole, read>>

LastAttemptOffByOne == ~CanRetry \/ attempt > MaxRetries
LastAttempt == ~CanRetry \/ attempt >= MaxRetries

\* CheckRetry looks at the context first. The response is not closed here.
RetryCancelled ==
  /\ pc = "check" /\ ~LastAttempt /\ CtxDone
  /\ Return("err")
  /\ UNCHANGED <<req, attempt, callerDone, expired, auth, sent, got, read>>

\* A transport error or a retryable status: drain the response and back off.
BackOffUndrained ==
  /\ pc = "check" /\ ~LastAttempt /\ ~CtxDone /\ answer \in {"err", "retryable"}
  /\ Goto("sleep")
  /\ UNCHANGED <<req, attempt, callerDone, expired, auth, sent, got, read>>

BackOff ==
  /\ pc = "check" /\ ~LastAttempt /\ ~CtxDone /\ answer \in {"err", "retryable"}
  /\ Goto("sleep")
  /\ body' = IF body = "open" THEN "closed" ELSE body
  /\ UNCHANGED <<req, attempt, callerDone, expired, auth, sent, answer, dropped, read>>

\* Out of the loop: the last error, or the response whatever its status.
LeaveLoop ==
  /\ pc = "check" /\ (LastAttempt \/ (~CtxDone /\ answer \in {"success", "final"}))
  /\ IF answer = "err" THEN Return("err") ELSE Goto("handle")
  /\ UNCHANGED <<req, attempt, callerDone, expired, auth, sent, got, read>>

\* The timer fires; the select may prefer it to a context done by then.
SleepFires ==
  /\ pc = "sleep" /\ Goto("rewind")
  /\ attempt' = attempt + 1
  /\ UNCHANGED <<req, callerDone, expired, auth, sent, got, read>>

SleepDeaf == FALSE /\ UNCHANGED vars
SleepInterrupted ==
  /\ pc = "sleep" /\ CtxDone /\ Return("err")
  /\ UNCHANGED <<req, attempt, callerDone, expired, auth, sent, got, read>>

\* Before another attempt: a fresh reader over the body and a fresh token.
RewindAuthOnly ==
  /\ pc = "rewind"
  /\ \/ Goto("do") /\ ReadToken
     \/ req.source /\ Return("err") /\ UNCHANGED token
  /\ UNCHANGED <<req, attempt, callerDone, expired, version, rotatedBy, sent, got, read>>

Rewind ==
  /\ pc = "rewind"
  /\ reqBody' = IF req.body = "memory" THEN "fresh" ELSE reqBody
  /\ \/ Goto("do") /\ ReadToken
     \/ req.source /\ Return("err") /\ UNCHANGED token
  /\ UNCHANGED <<req, attempt, callerDone, expired, version, rotatedBy, whole, applied, got, read>>

----------------------------------------------------------------------------
(* handleResponse, and the caller after Send.                               *)

\* A 2xx with a result to fill is decoded and closed, the read failing or not.
HandleResponse ==
  /\ pc = "handle"
  /\ \/ ~(answer = "success" /\ req.parse) /\ Goto("after") /\ UNCHANGED body
     \/ answer = "success" /\ req.parse /\ body' = "closed" /\ (Goto("after") \/ Return("resp_err"))
  /\ UNCHANGED <<req, attempt, callerDone, expired, auth, sent, answer, dropped, read>>

RunAfter ==
  /\ pc = "after" /\ (Return("resp") \/ Return("resp_err"))
  /\ UNCHANGED <<req, attempt, callerDone, expired, auth, sent, got, read>>

\* The caller reads what Send left open: all of it, or, its context being
\* done, possibly only what was buffered.
ReadBody ==
  /\ pc = "returned" /\ result = "resp" /\ body = "open"
  /\ \/ read' = "ok"
     \/ CtxDone /\ read' = "cancelled"
  /\ pc' = "closing"
  /\ UNCHANGED <<req, attempt, conn, auth, sent, got, result>>

\* Response.Close, also without reading; a second call finds no body.
Close ==
  /\ pc \in {"returned", "closing"}
  /\ body' = IF result \in {"resp", "resp_err"} /\ body = "open" THEN "closed" ELSE body
  /\ pc' = "over"
  /\ UNCHANGED <<req, attempt, conn, auth, sent, answer, dropped, out>>

----------------------------------------------------------------------------
(* Around it.                                                               *)

Rotate ==
  /\ version < MaxRotations /\ version' = version + 1
  /\ UNCHANGED <<req, pc, attempt, conn, token, rotatedBy, sent, got, out>>

Cancel ==
  /\ ~callerDone /\ callerDone' = TRUE
  /\ UNCHANGED <<req, pc, attempt, expired, released, auth, sent, got, out>>

Expire ==
  /\ ~expired /\ req.derived /\ pc /= "new" /\ expired' = TRUE
  /\ UNCHANGED <<req, pc, attempt, callerDone, released, auth, sent, got, out>>

Over == pc = "over" /\ UNCHANGED vars

Next ==
  \/ BuildFails \/ ApplyBody \/ RunBefore \/ InjectAuth \/ Do
  \/ \E a \in Answers, p \in BOOLEAN : DoReturns(a, p)
  \/ RetryCancelled \/ BackOff \/ LeaveLoop \/ SleepFires \/ SleepInterrupted \/ Rewind
  \/ HandleResponse \/ RunAfter \/ ReadBody \/ Close
  \/ Rotate \/ Cancel \/ Expire \/ Over

Spec == Init /\ [][Next]_vars

\* Send's own steps and its hooks get their turn; a Do whose context is done
\* comes back. The server need never answer and the timer of a backoff may be
\* longer than any wait.
FairSpec ==
  /\ Spec
  /\ WF_vars(ApplyBody) /\ WF_vars(RunBefore) /\ WF_vars(InjectAuth) /\ WF_vars(Do)
  /\ WF_vars(CtxDone /\ DoReturns("err", FALSE))
  /\ WF_vars(RetryCancelled) /\ WF_vars(BackOff) /\ WF_vars(LeaveLoop)
  /\ WF_vars(SleepInterrupted) /\ WF_vars(Rewind) /\ WF_vars(HandleResponse) /\ WF_vars(RunAfter)

----------------------------------------------------------------------------
(* The inductive invariant.                                                 *)

Early == {"new", "before", "auth"}
Gone  == {"returned", "closing", "over"}

\* An attempt is counted before it is made, and only where a retry is allowed;
\* the server has processed at most one request per attempt.
Attempts ==
  /\ attempt > 0 \/ pc \in {"sleep", "rewind"} => CanRetry
  /\ pc = "sleep" => attempt < MaxRetries
  /\ applied <= attempt + 1
  /\ pc \in Early \cup {"do", "inflight", "rewind"} => applied <= attempt

\* The request body is whole until Do takes it, gone afterwards, and whole
\* again when doWithRetry has rewound it.
RequestBody ==
  /\ whole
  /\ pc = "new" => reqBody = "unset"
  /\ pc \in {"before", "auth", "do"} => reqBody = IF req.body = "none" THEN "none" ELSE "fresh"
  /\ pc \in {"inflight", "check", "sleep", "rewind", "handle", "after"} =>
       reqBody = IF req.body = "none" THEN "none" ELSE "closed"
  /\ pc \in Gone /\ req.body = "stream" => reqBody \in {"unset", "closed"}

\* A request on its way carries a token at least as new as the last answer.
Token == pc \in {"do", "inflight"} /\ req.source => token >= rotatedBy

\* A response body is open only where somebody is about to deal with it; the
\* request's own context ends with Send.
ResponseBody ==
  /\ ~dropped
  /\ body = "open" => pc \in {"check", "handle", "after"} \cup Gone /\ answer /= "err"
  /\ pc \in {"handle", "after"} => answer /= "err"
  /\ released => pc \in Gone
  /\ pc = "closing" => result = "resp"
  /\ pc \in Gone /\ body = "open" => (result \in {"resp", "resp_err"} /\ pc /= "over") \/ CtxDone

\* Types, and what Send has in hand at every point (request.go Send, execute,
\* doWithRetry, handleResponse).
SendInv == TypeOK /\ Attempts /\ RequestBody /\ Token /\ ResponseBody

----------------------------------------------------------------------------
(* Properties.                                                              *)

\* "Retry is idempotency-aware": the server processes a request at most once
\* unless its method is idempotent or the caller opted in, and never more than
\* once when the caller opted out or the body is a stream.
AppliedOnceUnlessSafe ==
  applied > 1 => /\ req.idempotent \/ req.override = "on"
                 /\ req.override /= "off" /\ req.body /= "stream"

\* No attempt goes out with a body an earlier one has drained.
BodiesSentWhole == whole

\* "Called fresh on every send (and every retry attempt)": an attempt never
\* carries a token older than the one in the source when the previous attempt
\* came back, however long the backoff and whatever rotated meanwhile.
TokenIsFresh == pc = "inflight" /\ req.source => token >= rotatedBy

\* A response body is never lost: it is closed, or in the hands of the caller,
\* or its context is done and the transport reclaims its connection.
NoOrphanBody ==
  /\ ~dropped
  /\ pc \in {"returned", "closing", "over"} /\ body = "open" =>
       (result \in {"resp", "resp_err"} /\ pc /= "over") \/ CtxDone

\* Once Send returns, a stream it took over is closed: the file behind it is
\* released and a multipart writer is not left blocked on its pipe.
StreamReleased == pc = "returned" /\ req.body = "stream" => reqBody \in {"unset", "closed"}

\* Whatever Send is doing, a backoff included, it returns once its context is
\* done.
DoneContextReturns == CtxDone ~> result /= "none"

\* "The body stays open so callers can decode, stream, or inspect it
\* themselves": reading a response Send returned without an error is cut short
\* only if the caller's own context is done.
BodyStaysReadable == read = "cancelled" => callerDone \/ expired

=============================================================================
