# A verification of garlic

TLA+ models of the parts of garlic in which something can go wrong that a unit
test would hardly reach: goroutines, deadlines, callbacks, transactions and
retries, and of the algorithms whose corner cases are many. Each module is
translated from the Go source; `PROJECT.json` maps every definition to the lines
it stands for.

## The system

garlic is a library for Go services. Its packages, the state they keep and how
they meet:

| Part | State | Operations | Met by |
|---|---|---|---|
| `worker` | goroutines, an unbuffered channel, a `WaitGroup` | `NewPool`, `Submit`, `WaitAll` | application code, and the tasks themselves |
| `rest` server | an `http.Server`, two goroutines, a one-slot error channel; a package map of servers | `Listen`, `GetServer`, `NewServer` | the signal context, the shutdown hook, requests |
| `rest` responses | none | `Route.Handler`, `WriteError`, `Must`, 404/405 handlers | `errors`, the status recorders of `middleware` |
| `observability` | the meter-provider singleton | `Init`, `Shutdown` | the server's hook; `monitoring` through the OpenTelemetry global |
| `monitoring` | instruments built once | `Increment…`, `Decrement…`, `ObserveLatency` | `middleware.MetricsMonitor` |
| `middleware` | per request: logger, identifiers, status | logging, tracing, metrics, CORS, cancellation | `rest` routers |
| `database` | connection pool; a transaction in the context | `Storer.Transaction`, `BeginContext`, CRUD | application code, `database/sql`'s own goroutine |
| `httpclient` | per request: body, token, attempts, response | setters, `Send`, `Response.Decode/DecodeError/Close` | `net/http`, the token source, hooks, `errors` |
| `errors` | registered kinds; details and traces shared along a chain | `New`, `Propagate…`, `Mirror…`, DTO encoding | everything |
| `validator`, `logging` | lazily made singletons | `Init`, `Global` | everything |
| `request`, `tracing`, `crypto`, `utils`, … | none | parsing, clamping, helpers | handlers |
| `garliclint` | none | static analysis of error propagation, build tags and misuse | the build |
| `hack/check-go-release-age` | pins, exceptions, worker goroutines | a dependency audit with an exit code | the build, a module proxy, the clock |

What is hard here: a worker blocked in the pool it serves; goroutines of `Listen`
that outlive each other; a shutdown deadline racing handlers, and a hook that
runs before they are drained; instruments bound to a provider that is replaced;
a transaction ended by `database/sql` behind its owner's back, nested
transactions, commits whose answer is lost; retries of requests already
processed, bodies already consumed, tokens rotated meanwhile, contexts cancelled
under a response that is still read; singletons made without a lock; details
shared between errors; statuses recorded and sent by different layers; panics
that unwind half a chain; exceptions that expire while an audit runs; text cut
in the middle of a character; durations that overflow. `PROJECT.json` lists each under `hazards`, at its line.

What makes each part correct: the pool runs each task once and `WaitAll` is
honest; a closed, silent error channel means a drained server; metrics are
balanced and a successful shutdown exports them; a transaction is all or nothing
and never left open; a request is applied more than once only where that is
safe, with its whole body and a current token, and every body is closed; an
error passed from service to service keeps its status and class, and says on the
wire only what was written for callers; a request is logged and counted under
the status its client saw, its error answer is about itself, and it leaves
nothing behind; the audit's exit code is the truth; a wait stays within its
bounds; a captured text is well formed; what the analyzer accepts joins the
reverse trace.

## The modules

**`TaskGroup`** is what `worker` promises: tasks are submitted, finish once, and
a waiter returns only when all submitted tasks are done. **`WorkerPool`**
(`worker/pool.go`) is the code: per goroutine a program counter, the task it is
sending, the task on its stack; the `WaitGroup` with its counter, its parked
waiters and the two panics the library raises when it is reused too early.
`Submit` is two steps, `Add(1)` and the rendezvous `Handoff`; a worker's loop is
`TaskReturn`, `Done`, and `Release` when its `Done` is the last; `WaitAll` calls
`Wait` (`WaitLoad`, and `WaitWake` once woken). Workers run application code
while a task is on their stack, so tasks submit and wait too. The refinement
maps `waiting` to the goroutines inside `Wait`.

**`RestServer`** (`rest/server.go`) is `Listen`: the inner goroutine
(`ServeStart` … `ReportServe`), the outer one (`CtxDone`, `HookReturn`,
`ShutdownBegin`, `ShutdownReturn`, `ReportShutdown`, `CloseErrCh`), the timer,
clients, and the application that cancels and receives. The error channel is a
buffer of one; a send on the closed channel ends the process (`crashed`).
`http.Server` is external: `Shutdown` returns when the accept loop is over and
no request is active, or when its context has expired. **`Telemetry`** is
`observability.Init`/`Shutdown`, the instruments of `monitoring` that bind once
on first use, and a measurement. **`Service`** composes the two the way the
quick start of garlic's README does: `MetricsMonitor` records when a handler
starts and (deferred) when it ends; the hook runs `observability.Shutdown`;
`Init` may be called again afterwards. Requests to `/health`, which
`MetricsMonitor` does not record, are not among the `Requests`.

**`Transaction`** (`database/storer.go`, `transaction.go`, `database.go`) is one
caller of `Storer.Transaction` at a time: a stack of calls (`depth`), where the
innermost one is (`pc`), the `sql.Tx`, the statements in flight on it and the
rows. A nested call finds the transaction in its context (`BeginNested`) and its
commit and rollback do nothing. A statement is two steps: the function starts one
through the transaction's context and waits (`Write`), or a goroutine it started
does at any time (`TaskWrite`), and whenever the server answers, if ever, it has
taken effect (`Written`), changed nothing (`NothingWritten`: a read, no row
found, no row affected) or failed (`WriteFails`). The function also writes
through the outer context (`WriteOutside`), and returns, fails or panics
(`FnReturn`). An `sql.Tx` is ended in two steps as well, by the first of `Commit`,
the deferred `Rollback` and the goroutine of `database/sql` that watches the
context: that one marks it done (`CommitBegin`, `RollbackBegin`, `AwaitDone`;
`ender` says who), after which it accepts no statement and the others find it
done, and talks to the server when the statements in flight have returned
(`CommitSent`, `RollbackSent`, `AwaitRollback`), because each of them holds the
read side of the lock `Tx.closemu`. `Commit` may also be refused, and its answer
lost. After a nested call returns, the function around it may do anything, which
covers errors passed on, errors absorbed and panics recovered. A second outermost
call begins when the transaction of the first is over at the server.
`runtime.Goexit` out of the function, which skips commit and rollback alike, is
not modelled. **`UnitOfWork`** is what `database/doc.go` promises of it:
rows are put into a unit, the unit is kept or dropped in one step, and the call
returns nil only for one that was kept, an error or a panic only for one that
was dropped, and "unsure" if the answer to its commit was lost. The refinement
maps the `sql.Tx` to the unit, which is dropped once the transaction is marked
done to be rolled back, and, once the stack is empty, the outcome to what was
told.

**`HttpSend`** (`httpclient/request.go`, `retry.go`, `body.go`, `tokensource.go`,
`response.go`) follows one request: the choices of the setters are a record
picked in `Init`; then the body, the before-hooks, the authorization, the
attempts (`Do`, `DoReturns`, `BackOff`, `SleepFires`/`SleepInterrupted`,
`Rewind`), the response, the after-hooks, and the caller reading and closing.
The request's context is done when the caller's is, when the derived timeout
passes, or when `Send` returns and its deferred cancel runs. Statuses are
grouped by what `CheckRetry` and `IsSuccess` tell apart. `net/http` is external.
A stream and a multipart body behave alike here (one-shot, must be closed) and
are one kind.

**`ErrorWire`** (`errors`, `rest/response.go`, `httpclient/response.go`) follows one
failure through a chain of services. `Fail` builds it (`New`, `Mirror`,
`Override`, or a plain Go error); a handler passes it on (`Propagate`,
`PropagateWithHint`), retypes it (`PropagateAs`), wraps it with `fmt.Errorf`
(`WrapForeign`) and returns it (`Answer`: `Route.Handler`, `WriteError`,
`protectErrorDTO`, `Must`). The body may be cut or replaced on the way
(`Truncate`, `ProxyAnswers`), and the calling service decodes it (`DecodeError`)
and is the next handler. A kind is its code and the status pinned on it; a
message is only for whom it was written; details are the keys of the map, nil
or not. An error stands for its outermost `ErrorT`, the only one any of these
operations reads. `given` remembers the status and class somebody last chose
for the failure: at birth, by retyping, or a proxy. What a decoded error keeps
to itself (context, traces, the captured body) is not modelled.

**`Request`** (`middleware`, `rest`, `request`, `validator`, `logging`, `errors`)
follows concurrent requests through a service. A chain of middlewares is a
sequence of names; each is an action that calls the next (`ContextCancel`,
`Logging`, `Tracing`, `MetricsMonitor`, `Cors`, `ContentTypeJson`), and `Leave`
is what it does once the next returned, or, in a panic, what it deferred. A
handler parses the path and the query, decodes and validates a body, does its
business and returns an error that is propagated on the way up; `Answer` and
`Unrouted` write it, and an answer that cannot be encoded or sent is replaced by
a fixed one under the status already written (`Must`). `logging.Global` is three steps, so requests race on it.
A ResponseWriter is the status sent and the status both recorders hold. An
error's Details is a map on a heap: a request's own errors share one map, named
after the request, and `Shared` is the map of a package-level error of the
application, into which every request that propagates it writes its hint.
Identifiers, header values and what is parsed are data and left out; so is the
level a line is logged at. A health check carries no query (`Logging` compares
the whole URL, `MetricsMonitor` the route).

**`ReleaseAudit`** (`hack/check-go-release-age/main.go`) is one run of the tool:
`ParseGoSum`, `LoadAllowlist`, `Filter`, `Spawn`, `Send`, `Close`, `Report` are
main; `FetchFails`, `FetchReturns`, `WorkerEnds` the workers; `Tick` is the
clock, which never goes back. Files are sets of lines, because order and
repetition are not observable; a date is the midnight that begins it.

Four computations keep no state worth sharing and are checked together by
**`Algorithms`**, which starts each behaviour with an input to one of them.
**`Diagnostics`** (`httpclient/response.go`) is what `DecodeError` retains of a
foreign body or an unknown kind: bytes are classes (ASCII, ASCII that is
escaped, leading bytes of runes of two and three bytes, continuation, invalid).
**`RetryDelay`** (`httpclient/retry.go`) is `Backoff`: a Duration is an integer of
`Width` bits, seconds are multiplied modulo 2^Width, and a jittered backoff that
is no Duration converts to the least one or the greatest, as processors differ.
**`Lint`** (`internal/garliclint`) is the propagation analyzer: `Reports` judges the
text of a function, and the function is then executed, its statements in any order
and any number of times and its deferred closures after the return. The
constructors that `isGarlicConstructor` accepts are of two kinds, those that append
a reverse trace entry (`New`, `Propagate`, …) and those that do not (`Raw`, `From`,
`Override`, `Mirror`, `MirrorOverride`, `With`). The package of a foreign interface
is imported by the analyzed one, loaded a second time, or cannot be found. **`BuildTags`** is
`hasUnitBuildTag`, a constraint being its disjunctive normal form.

Each module has an MC module that the configurations instantiate. Operators
placed before the definition they imitate, and named for what is wrong with
them, are plausible mistakes for mutation checks; nothing uses them otherwise.

## The runs

| Run | Asks | Result |
|---|---|---|
| `pool` | inductive invariant, no panic with a single user, refinement of `TaskGroup`, tasks finish, waiters return | holds |
| `service` | inductive invariant, clean close means drained, cancellation closes the channel, failures reported, gauge balanced, successful shutdown exports, no provider forgotten | holds |
| `service_crash` | does `Listen` ever kill the process | yes: the report of a failed listener may come after the shutdown has closed the channel |
| `service_drain` | does a clean shutdown export every served request, as `observability.Shutdown` says | no: the hook runs before the drain |
| `transaction` | inductive invariant, all or nothing, nothing visible early, refinement of `UnitOfWork` (a call returns only when its transaction is settled), cancellation ends the transaction unless a statement of its own hangs | holds |
| `send` | inductive invariant, applied once unless safe, whole bodies, fresh tokens, no orphan response, streams released, a done context ends `Send` | holds |
| `send_body` | can the caller read the body `Send` returned, as `httpclient/doc.go` says | no: the deferred cancel has ended its context |
| `wire` | inductive invariant, status and class kept by relays, only user texts sent, decoding faithful | holds |
| `wire_hint` | may any propagated error be given a hint, as `errors/doc.go` says | no: an error decoded without details has no map |
| `request` | the configured logger is final; the status logged and counted is the one sent; error answers carry their own request's details, the last hint and the origin of an unpropagated override; every request settles, panics included | holds |
| `audit` | no pin is lost between files, workers and report; exit 0 means nothing is too young and exit 1 lists exactly what is; warnings and exceptions disagree only about entries that expire in between; the program ends | holds |
| `algorithms` | captures are the longest well-formed prefix within the limit; waits stay in bounds and honour the peer; accepted functions return nil or a traced error; two samples decide a build tag | holds |

What the properties leave out is part of the result. `RequestInv` excepts a
header written twice: when an answer does not encode, or a handler answers and
then fails, the recorders note a status the client never saw. It says nothing of
two default loggers: without `logging.Init` the first requests may each build
one. `AnswerIsOwn` excepts an error that wraps a package-level one: its hint may
be another request's, because `wrap` shares the map; and it states as the rule
that an override loses its origin when it is propagated. `NoOrphanBody` counts a
response that is returned together with an after-hook's error as in the caller's
hands. `CancelEndsTx` excepts a statement of the transaction that never returns:
statements take no context, and the rollback waits for them. For the same reason
`NoTxLeft` lets `Transaction` return while `database/sql` is still to roll back.
`WaitHonoured` excepts a `MinWait` above `MaxWait`; seconds that do not fit a
Duration are only clamped, and so is an exponential backoff above two thirds of
the greatest Duration, which with its jitter may be too large to convert and then
becomes `MinWait` or `MaxWait`, as the processor has it. `LintSound` excepts three
values that the analyzer lets through: what a variable from outside the body held
when it is assigned on some paths only, what a deferred closure writes over an
explicit return of something else, and what the function itself builds with a
constructor that adds no reverse trace entry. Its exemption of methods is exact
for the interfaces whose package the analyzer could find; the others exempt
nothing. `SystemFailureStaysSystem` is about 5xx statuses, for the reason given
with its proof. `DiagnosticsExact` says when a text is kept only for foreign bodies.
`UnitTagExact` excepts constraints that mix platform tokens of both polarities,
as the comment on `hasUnitBuildTag` does, and takes custom tags as absent.
`AppliedOnceUnlessSafe` is about garlic's own retries, not about a request that
`net/http` itself sends again on a connection that was closed before it was used.

Two limits of the code need no run to be seen and are allowed for in the
properties. `Pool.Submit` does not queue: tasks that submit from every worker
wait for each other (`SubmittedTasksFinish` and `WaitAllReturns` except
`AllWorkersBlocked`). A nested `Transaction` has no-op commit and rollback
functions: its error undoes nothing if the function around it goes on, which
`AtomicOutcome` states as all or nothing for the outermost call.

Bounds. `pool`: two callers, two workers and three tasks, so that two users
race on the `WaitGroup`, tasks nest and a task waits behind busy workers.
`service`: two requests,
one finishing before and one after the deadline, and two providers, one for
`Init` after `Shutdown`. `transaction`: three rows and three nested calls, so
that a row can be in the outer call, in a nested one and in a goroutine.
`send`: two retries, so that there is a first, a middle and a last attempt, and
one rotation of the token. `wire`: three services, so that an error is decoded,
answered again and decoded again, the one in the middle not knowing the
application's kind; standard and non-standard statuses of each class and one
below 400; nothing else is bounded. `request`: two requests, so that they race on
the logger and share an error; the recommended chain (its `ContentTypeJson`, which only
sets a header, is in the next one), one without a logger and one where the logger
comes too late; one propagation by the handler on top of
those of the parsers, so that a hint replaces a hint and an override loses its
origin. `audit`: two modules in two versions, up to two exceptions of every
shape, two workers or a flag of zero, and a clock of three instants around the
expiry dates and the cutoff. `algorithms`: bodies of up to five bytes around a
limit of three, six-bit durations of four units to the second, functions of up
to two statements, constraints of up to two clauses of three literals. Deadlock
is checked in `transaction`, `send`, `request` and `audit`, where the end is a
stuttering step; the pool may block, the service ends and so do a chain of
services and a computation, so not there.

Fairness. Go runs every runnable goroutine, so the library's own steps are
weakly fair. Nothing is assumed of handlers, clients, servers or transactional
functions, nor of the server's answers to statements: `CancelClosesErrCh` holds
because the deadline fires, `CancelEndsTx` because `database/sql` waits on the
context and whoever has marked the transaction done goes on when no statement is
in flight, `DoneContextReturns` although no timer of a backoff is assumed to fire;
it takes for granted that hooks and the token source return.
`ServeErrorReported` assumes that the application keeps reading the channel; the
quick start's `main` reads once and ends. A pool task's own code is assumed to end
unless it blocks in the pool; the shutdown hook's calls take the deadline's
context and return. In `request` a handler's own code is assumed to return, and
in `audit` a lookup to end, by its timeout of 15 seconds at the latest.

## The proofs

TLAPS checks the modules named `…Proofs`, for every value of the constants. Every
safety property of the passing runs, invariant, action property or refinement,
is proved; for each component the run checks the inductive invariant on its
instance, and the proof shows that it starts, that every action keeps it, and
that the properties follow. For each of the four findings a theorem says how far
it reaches: what else has to happen for the documented promise to fail.

*The pool.* `PoolInv` adds to the types: a goroutine holds a task exactly when
its program counter says so (`Held`); a submitted unfinished task is held by
exactly one goroutine (`Ownership`); the counter is the number of held tasks
(`Counted`), from which it is never negative and zero means all done; while a
worker releases waiters the counter stays zero (`Releasing`); a woken waiter
meets a non-zero counter only if the pool has two users (`Usage`). That gives
`SingleUserNeverPanics`, and the step `WaitLoad` or `WaitWake` that leaves `Wait`
maps to `Return` of `TaskGroup` because the counter is zero. It rests on
`PoolAssumption` (finite, disjoint goroutine sets).

*Transactions.* `TxInv` relates things no single property mentions together:
the call has returned only if its transaction has ended or `database/sql` has taken
it (`StackTx`); whoever marked it done is where it does that, and statements are in
flight only on an open transaction, on rows that nobody has written (`Ending`);
COMMIT goes out only for an outermost call whose function returned nil, and a
committed transaction belongs to a call that returned nil or was never told
(`CommitOwner`); the rows written are all pending, all durable or all gone,
depending on the transaction (`Rows`). `AtomicOutcome`, `NothingDurableEarly`
and `NoTxLeft` follow, and `TransactionImplementsUnitOfWork`: statements through the
transaction's context that take effect map to `Put`, a commit that reached the
server to `Keep`, marking the transaction done for a rollback, or a commit that
ends in one, to `Drop`, the return of the outermost call to
`Return`, and the rest shows nothing. It rests on `DepthAssumption` (a positive
bound).

*Errors.* `WireInv` says of the error between two answers, and of the reply
between sending and decoding, what the properties say only of their moment: the
error reports the status `given`, its text fits its class, and the body of a
5xx system failure names no user kind. One lemma per function of the code
(`KindWithStatusFacts`, `InheritFacts`, `ProtectFacts`, `WriteErrorFacts`,
`DecodedFacts`, …) carries the argument. It rests on `HopsAssumption` and on
`KindAssumption`: statuses are positive, and the application registers finitely
many kinds, each with a status or none and with no parent or one made before it.
What walking up such a hierarchy returns is proved (`KindFacts`: a standard
status for its own kind, 500 at the roots, the class of the parent). The walk is
a recursive function; that it exists and satisfies its definition is an
induction on the rank of a kind (`HierarchyRanked`, `WalkUp`, `GatherUp`).
`LocalHintsAreSafe` bounds the finding about `Hint`: an error built in the service
that adds the hint has a map, however it is propagated, retyped or wrapped, so
the panic needs an error that came off the wire. A system error pinned to a
4xx status becomes a user error in the next service, which only sees the generic
kind of that status; `SystemFailureStaysSystem` is therefore about 5xx.

*The service.* `ServerInv` says how far the shutdown of `Listen` has come: once
`srv.Shutdown` has begun the listener stays closed, past it the accept loop has
ended, and past its report no request is active unless an error was sent.
`CleanCloseMeansDrained` follows for the server alone (`ServerInvariant`) and,
because every step of the service is a step of the server or leaves it alone
(`ServiceIsServer`), for the program that also records metrics. `ServiceInv` adds
the other half: what one call of `Shutdown` holds between its steps
(`ShutdownState`), that instruments are bound to providers that were started
(`BoundToStarted`), and that a request being served has its start recorded where
its end will be, as long as that provider is live (`StartsRecorded`). The last
one relates the two components and is why `GaugeNeverNegative` holds although
`Telemetry` alone would not give it. Two theorems bound the findings.
`PanicNeedsUnreportedFailure`: the panic needs a failure of `ListenAndServe` that
was not reported before the cancelled context closed the channel.
`QuietReleaseExportsAll`: if no request is being served once the hook has released
the provider, a clean shutdown has exported every request that was served; its
invariant `DrainInv` holds between two states in which that is so. All rests on `ServiceAssumption`: there is a
hook, and the marks for "no provider" are no providers.

*Sending.* `SendInv` has one part per thing `Send` has in hand: an attempt is
counted before it is made and only where `CanRetry`, and the server has processed
at most one request per attempt (`Attempts`); the body is whole until `Do` takes
it and again when it was rewound (`RequestBody`); a request on its way has a
token at least as new as the last answer (`Token`); a response body is open only
where somebody will deal with it (`ResponseBody`). `ReadableWithoutTimeout` bounds
the finding about bodies: where `Send` derives no timeout of its own, the deferred
cancel does not exist and the body stays readable. It rests on `RetryAssumption`
(the bounds are naturals).

*Requests.* `RequestInv` is proved by classing the steps of a request by what
they leave alone. Only five actions touch a logger (`LoggerUntouched`), five touch
the writer or the reports (`WriterUntouched`), and no action touches the error,
the Details map or the answer of another request (`ErrorKept`): `wrap` keeps the
map it finds, which is the request's own or the package-level error's. The
recorders agree with the wire as long as one header was written (`Sound`), and
what `Leave` reports is what they hold. `AnswerIsOwn` is inductive relative to
that: until the handler unwinds nothing changes the error an answer was made
from. It rests on `RequestAssumption`: chains are sequences of garlic's
middlewares, of any length and with repetitions.

*The audit.* `AuditInv` follows a pin from `go.sum` to the report: it is covered
by an exception, old enough, still to be sent, in one worker's hands, reported
as an error or listed as too young (`NothingLost`), and it is judged once
(`LookedUpOnce`); `FilesRead` fixes which reading of the clock each decision was
made at. `AuditVerdict` and `WarningsMatchExceptions` follow for any files, any
number of workers and any publish times. It rests on `AuditAssumption`: files
are finite sets of well-formed lines, times are integers.

*Algorithms.* `UnitTagsExact`: if the platform tokens of a constraint occur with
one polarity, a clause that holds for some of them holds for all or for none,
which are the two samples `hasUnitBuildTag` takes. `WaitsHonoured`: a number of
seconds that fits a Duration does not wrap, whatever the width, and clamping
never goes below what was asked except at the upper bound; a backoff whose one and
a half fits a Duration is converted as it is (`ConvertedBackoff`). The provers know no
law of exponentiation; `PowerCounts` and `PowerDoubles` get the two that are used
from the library's cardinality of a powerset. It rests on `DelayAssumption`.

`LintsSound` is about functions of any number of statements, executed in any
order and any number of times. `LintInv` relates what each variable holds to
what the analyzer knows of its assignments: in a function that was not reported,
a variable that the analyzer takes for propagated holds nil, a traced error, or
one of the three values the property excepts. `ExemptionExact` compares signatures
across the two ways of loading a package. It rests on `LintAssumption`, which
says what a parsed Go function looks like (fields are a sequence, the statements
and returned expressions are of the modelled forms, a bare return has named
results, a method belongs to its own method set, each interface's package is found
in one of three ways) and that named errors are among
the first two results, for which the model has variables.

`DiagnosticsAreExact` is about bodies of any length. `boundedPrefix` walks the
bytes with a recursive function; `WalkExists` says that such a walk is what its
definition says, `RuneExtends` that it passes over whole runes only, and
`BoundedPrefixExact` that no longer prefix is well formed and fits. It rests on `DiagnosticsAssumption` (the
limits are naturals).

Recursion. The library's induction theorems take an operator and cannot be
instantiated here. `NatInductionOnSets` is the same principle for a set of
naturals, from the library's well-foundedness of `<`; with it a recursive
function is shown to exist by building it for ever larger arguments, and its
definition becomes a fact like any other.

Model-checked only: the liveness properties, `SubmittedTasksFinish`,
`WaitAllReturns`, `CancelClosesErrCh`, `ServeErrorReported`, `CancelEndsTx`,
`DoneContextReturns`, `RequestsSettle` and `AuditEnds`. The prover does not handle
fairness.

## Not modelled, and the plan

Left out for good: SQL text, struct tags and reflection (`database` helpers),
logging output and configuration, header and URL assembly, the analyzers of
`garliclint` that look for one syntactic shape, `crypto`, `utils`, `toolkit`,
`debug`, test doubles. How the database operations classify their errors, and
the `GetServer` multiton, are not modelled; the second has the shape of
`logging.Global`. The reverse trace, which `wrap` shares as it does Details, is
troubleshooting data and left out.

Next, in order:

1. How the database operations classify their errors (no rows, no affected rows,
   a statement that failed), and the row that `Create` inserts and then fails to
   scan outside a transaction.
2. `GetServer` beside `logging.Global`.
