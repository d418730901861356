---------------------------- MODULE Transaction ----------------------------
(***************************************************************************)
(* database.Storer.Transaction over database.BeginContext: one caller whose *)
(* function runs inside a transaction, may call Transaction again (the      *)
(* nested call finds the transaction in its context and gets no-op commit   *)
(* and rollback functions), writes through the transaction's context or     *)
(* through the one it had before, hands the context to goroutines that      *)
(* write at any time, returns, fails or panics.                             *)
(* sql.Tx and the PostgreSQL server are external, modelled from what        *)
(* transaction.go and database.go ask of them. Every statement is executed  *)
(* without a context and is in flight for any time, for ever included. Who  *)
(* first marks the sql.Tx done ends it (ender): Commit, the deferred        *)
(* Rollback, or the goroutine database/sql starts in BeginTxx, once the     *)
(* context it was given is done. From then on no statement starts, and the  *)
(* COMMIT or ROLLBACK goes out only when those in flight have returned      *)
(* (Tx.closemu). A statement that fails aborts the transaction; a COMMIT    *)
(* whose answer is lost may or may not have applied.                        *)
(***************************************************************************)
EXTENDS Naturals

CONSTANTS Keys,      \* the rows written, each written at most once
          MaxDepth   \* bound: Transaction calls on the stack

ASSUME DepthAssumption == MaxDepth \in Nat \ {0}

VARIABLES depth,      \* Transaction calls on the stack
          pc,         \* where the innermost one is
          out,        \* how its function, then the call itself, ended
          unsure,     \* the COMMIT was sent and its answer never came
          tx,         \* the sql.Tx of the outermost call
          ender,      \* who marked it done
          own,        \* the statement fn waits for, by its row
          tasks,      \* the statements goroutines of fn wait for
          cancelled,  \* the caller's context is done
          pending,    \* rows the open transaction holds
          durable,    \* rows every other session sees
          written     \* rows written through the transaction's context

call == <<depth, pc, out, unsure>>
data == <<pending, durable, written>>
flight == <<own, tasks>>
vars == <<call, tx, ender, flight, cancelled, data>>

Open == {"active", "aborted"}
InFlight == own \cup tasks

TypeOK ==
  /\ depth \in 0 .. MaxDepth
  /\ pc \in {"idle", "fn", "commit", "rollback", "leave"}
  /\ out \in {"ok", "err", "panic"}
  /\ unsure \in BOOLEAN /\ cancelled \in BOOLEAN
  /\ tx \in {"none", "committing", "committed", "rolledback"} \cup Open
  /\ ender \in {"none", "commit", "rollback", "await"}
  /\ own \subseteq Keys /\ tasks \subseteq Keys
  /\ pending \subseteq Keys /\ durable \subseteq Keys
  /\ written \subseteq Keys

Init ==
  /\ depth = 0 /\ pc = "idle" /\ out = "ok" /\ unsure = FALSE
  /\ tx = "none" /\ ender = "none" /\ own = {} /\ tasks = {} /\ cancelled = FALSE
  /\ pending = {} /\ durable = {} /\ written = {}

----------------------------------------------------------------------------
(* BeginContext and what it hands back.                                     *)

\* The context BeginTxx watches is the caller's: done when the caller's is.
TxContextBackground(done) == FALSE
TxContext(done) == done

\* The first call opens a transaction, unless its context is already done.
\* Bound: the transaction of an earlier call is over at the server by then.
BeginTx ==
  /\ pc = "idle" /\ tx \notin Open /\ ~cancelled
  /\ depth' = 1 /\ pc' = "fn" /\ unsure' = FALSE
  /\ tx' = "active" /\ ender' = "none" /\ written' = {}
  /\ UNCHANGED <<out, flight, cancelled, pending, durable>>

\* BeginTxx fails: Transaction returns its error and fn never runs.
BeginFails ==
  /\ pc = "idle" /\ tx \notin Open
  /\ out' = "err" /\ unsure' = FALSE /\ tx' = "none" /\ ender' = "none" /\ written' = {}
  /\ UNCHANGED <<depth, pc, flight, cancelled, pending, durable>>

\* A call inside fn finds the transaction: same context, no-op functions.
BeginNested ==
  /\ pc = "fn" /\ own = {} /\ depth > 0 /\ depth < MaxDepth
  /\ depth' = depth + 1
  /\ UNCHANGED <<pc, out, unsure, tx, ender, flight, cancelled, data>>

----------------------------------------------------------------------------
(* Statements.                                                              *)

Fresh(k) == k \notin written \cup durable \cup InFlight

\* Database.Executor: the context's transaction if it has one, else the pool.
ExecutorIgnoresTx(inTx) == "db"
Executor(inTx) == IF inTx THEN "tx" ELSE "db"

\* A statement that succeeds on the transaction is visible when it commits,
\* one on the pool at once.
Apply(k, inTx) ==
  \/ /\ Executor(inTx) = "tx" /\ tx = "active"
     /\ pending' = pending \cup {k} /\ UNCHANGED durable
  \/ /\ Executor(inTx) = "db"
     /\ durable' = durable \cup {k} /\ UNCHANGED pending

\* The sql.Tx takes a statement until it is marked done; ErrTxDone then.
Accepts(k) == tx \in Open /\ ender = "none" /\ Fresh(k)

\* fn executes a statement with the context Transaction gave it, and waits.
Write(k) ==
  /\ pc = "fn" /\ own = {} /\ Accepts(k)
  /\ own' = {k}
  /\ UNCHANGED <<call, tx, ender, tasks, cancelled, data>>

\* A goroutine fn started does, at whatever point the call is.
TaskWrite(k) ==
  /\ Accepts(k)
  /\ tasks' = tasks \cup {k}
  /\ UNCHANGED <<call, tx, ender, own, cancelled, data>>

\* A statement of the transaction returns, whenever the server answers.
Returns(k) ==
  /\ k \in InFlight
  /\ own' = own \ {k} /\ tasks' = tasks \ {k}
  /\ UNCHANGED <<call, ender, cancelled>>

Written(k) ==
  /\ Returns(k) /\ Apply(k, TRUE)
  /\ written' = written \cup {k}
  /\ UNCHANGED tx

\* It read, or there was no row to change.
NothingWritten(k) ==
  /\ Returns(k) /\ tx = "active"
  /\ UNCHANGED <<tx, data>>

\* It fails; the server accepts no other until the transaction ends.
WriteFails(k) ==
  /\ Returns(k) /\ tx' = "aborted"
  /\ UNCHANGED data

\* fn writes through the context it had before.
WriteOutside(k) ==
  /\ pc = "fn" /\ own = {} /\ Fresh(k) /\ Apply(k, FALSE)
  /\ UNCHANGED <<call, tx, ender, flight, cancelled, written>>

----------------------------------------------------------------------------
(* The rest of Transaction.                                                 *)

\* fn returns nil or an error, or panics. The panic runs only the rollback.
FnReturnIgnoringPanic(o) ==
  /\ pc = "fn" /\ own = {} /\ out' = o
  /\ pc' = CASE o = "ok" -> "commit" [] o = "err" -> "rollback" [] o = "panic" -> "leave"
  /\ UNCHANGED <<depth, unsure, tx, ender, flight, cancelled, data>>

FnReturn(o) ==
  /\ pc = "fn" /\ own = {} /\ out' = o
  /\ pc' = IF o = "ok" THEN "commit" ELSE "rollback"
  /\ UNCHANGED <<depth, unsure, tx, ender, flight, cancelled, data>>

\* The commit function of a nested call does nothing.
CommitNopEnds ==
  /\ pc = "commit" /\ depth > 1
  /\ IF tx = "active" THEN tx' = "committed" /\ durable' = durable \cup pending /\ pending' = {}
                      ELSE UNCHANGED <<tx, durable, pending>>
  /\ pc' = "leave"
  /\ UNCHANGED <<depth, out, unsure, ender, flight, cancelled, written>>

CommitNop ==
  /\ pc = "commit" /\ depth > 1
  /\ pc' = "leave"
  /\ UNCHANGED <<depth, out, unsure, tx, ender, flight, cancelled, data>>

\* tx.Commit looks at the context and marks the transaction done.
CommitBegin ==
  /\ pc = "commit" /\ depth = 1 /\ ~cancelled /\ ender = "none"
  /\ ender' = "commit"
  /\ UNCHANGED <<call, tx, flight, cancelled, data>>

\* It refuses: the context is done, or the transaction is.
CommitRefused ==
  /\ pc = "commit" /\ depth = 1 /\ ender /= "commit"
  /\ cancelled \/ ender /= "none"
  /\ out' = "err" /\ pc' = "rollback"
  /\ UNCHANGED <<depth, unsure, tx, ender, flight, cancelled, data>>

\* No statement is left in flight: COMMIT goes out.
CommitSent ==
  /\ pc = "commit" /\ ender = "commit" /\ InFlight = {} /\ tx = "active"
  /\ tx' = "committing"
  /\ UNCHANGED <<call, ender, flight, cancelled, data>>

\* COMMIT of an aborted transaction: the server rolls back and says so.
CommitAborted ==
  /\ pc = "commit" /\ ender = "commit" /\ InFlight = {} /\ tx = "aborted"
  /\ tx' = "rolledback" /\ pending' = {} /\ out' = "err" /\ pc' = "rollback"
  /\ UNCHANGED <<depth, unsure, ender, flight, cancelled, durable, written>>

CommitOk ==
  /\ tx = "committing"
  /\ tx' = "committed" /\ durable' = durable \cup pending /\ pending' = {} /\ pc' = "leave"
  /\ UNCHANGED <<depth, out, unsure, ender, flight, cancelled, written>>

\* The answer is lost, or the context is done while waiting for it. The commit
\* function returns an error whether or not the server applied the COMMIT.
CommitLostIsOk(applied) ==
  /\ tx = "committing"
  /\ tx' = IF applied THEN "committed" ELSE "rolledback"
  /\ durable' = IF applied THEN durable \cup pending ELSE durable
  /\ pending' = {} /\ unsure' = TRUE /\ pc' = "leave"
  /\ UNCHANGED <<depth, out, ender, flight, cancelled, written>>

CommitLost(applied) ==
  /\ tx = "committing"
  /\ tx' = IF applied THEN "committed" ELSE "rolledback"
  /\ durable' = IF applied THEN durable \cup pending ELSE durable
  /\ pending' = {} /\ unsure' = TRUE /\ out' = "err" /\ pc' = "rollback"
  /\ UNCHANGED <<depth, ender, flight, cancelled, written>>

\* tx.Rollback in the deferred functions marks the transaction done.
RollbackBegin ==
  /\ pc = "rollback" /\ depth = 1 /\ ender = "none"
  /\ ender' = "rollback"
  /\ UNCHANGED <<call, tx, flight, cancelled, data>>

\* No statement is left in flight: ROLLBACK goes out, or the connection is
\* closed; the transaction ends and its rows are dropped.
RollbackTx ==
  /\ tx \in Open /\ InFlight = {}
  /\ tx' = "rolledback" /\ pending' = {}
  /\ UNCHANGED <<ender, flight, cancelled, durable, written>>

RollbackSent ==
  /\ pc = "rollback" /\ ender = "rollback" /\ RollbackTx
  /\ pc' = "leave"
  /\ UNCHANGED <<depth, out, unsure>>

\* A nested call's rollback does nothing; on a transaction somebody else marked
\* done it returns at once with an error that is only logged.
RollbackNop ==
  /\ pc = "rollback"
  /\ depth > 1 \/ ender \in {"commit", "await"}
  /\ pc' = "leave"
  /\ UNCHANGED <<depth, out, unsure, tx, ender, flight, cancelled, data>>

\* Transaction returns, or panics again, into the function that called it.
Leave ==
  /\ pc = "leave"
  /\ depth' = depth - 1 /\ pc' = IF depth = 1 THEN "idle" ELSE "fn"
  /\ UNCHANGED <<out, unsure, tx, ender, flight, cancelled, data>>

Cancel ==
  /\ ~cancelled /\ cancelled' = TRUE
  /\ UNCHANGED <<call, tx, ender, flight, data>>

\* database/sql's own goroutine, once the transaction's context is done: it
\* marks the transaction done, unless somebody has, and rolls back like Rollback.
AwaitDone ==
  /\ tx \in Open /\ ender = "none" /\ TxContext(cancelled)
  /\ ender' = "await"
  /\ UNCHANGED <<call, tx, flight, cancelled, data>>

AwaitRollback ==
  /\ ender = "await" /\ RollbackTx
  /\ UNCHANGED call

Next ==
  \/ BeginTx \/ BeginFails \/ BeginNested
  \/ \E k \in Keys : Write(k) \/ TaskWrite(k) \/ WriteOutside(k)
  \/ \E k \in Keys : Written(k) \/ NothingWritten(k) \/ WriteFails(k)
  \/ \E o \in {"ok", "err", "panic"} : FnReturn(o)
  \/ CommitNop \/ CommitBegin \/ CommitRefused \/ CommitSent \/ CommitAborted \/ CommitOk
  \/ \E a \in BOOLEAN : CommitLost(a)
  \/ RollbackBegin \/ RollbackSent \/ RollbackNop \/ Leave
  \/ Cancel \/ AwaitDone \/ AwaitRollback

Spec == Init /\ [][Next]_vars

\* The runtime runs the awaiting goroutine, and whoever marked the transaction
\* done goes on when the statements have returned. Nothing is assumed of fn, of
\* the goroutines it started or of the server's answers to statements.
FairSpec ==
  /\ Spec
  /\ WF_vars(AwaitDone) /\ WF_vars(AwaitRollback)
  /\ WF_vars(CommitSent) /\ WF_vars(CommitAborted) /\ WF_vars(RollbackSent)

----------------------------------------------------------------------------
(* The inductive invariant: how the stack, the transaction and the rows hang *)
(* together at every step.                                                   *)

Ended == {"committed", "rolledback"}

\* The call is over exactly when its stack is empty; before it returns, its
\* transaction has ended or database/sql has taken it to roll it back.
StackTx ==
  /\ pc = "idle" <=> depth = 0
  /\ pc /= "idle" => tx /= "none"
  /\ pc \in {"leave", "idle"} /\ depth <= 1 => tx \in Ended \cup {"none"} \/ ender = "await"

\* COMMIT goes out only for the outermost call whose function returned nil; a
\* committed transaction belongs to a call that returned nil, or one that was
\* never told.
CommitOwner ==
  /\ pc = "commit" => out = "ok"
  /\ pc = "rollback" => out /= "ok"
  /\ tx = "committing" => pc = "commit" /\ depth = 1
  /\ tx = "committed" => depth <= 1 /\ (   (pc \in {"leave", "idle"} /\ out = "ok")
                                        \/ (pc \in {"rollback", "leave", "idle"} /\ out = "err" /\ unsure))
  /\ pc \in {"leave", "idle"} /\ depth <= 1 /\ (tx = "rolledback" \/ ender \in {"await", "rollback"}) =>
       out /= "ok"
  /\ unsure => tx \in Ended

\* Whoever marked the transaction done is at the place where it does so, and a
\* COMMIT is only its own; statements are in flight only on an open transaction,
\* and fn waits for its own.
Ending ==
  /\ tx = "none" => ender = "none"
  /\ tx \notin Open \cup {"none"} => ender /= "none"
  /\ tx \in {"committing", "committed"} => ender = "commit"
  /\ tx \in Open /\ ender = "commit" => pc = "commit" /\ depth = 1
  /\ tx \in Open /\ ender = "rollback" => pc = "rollback" /\ depth = 1
  /\ InFlight /= {} => tx \in Open
  /\ own /= {} => pc = "fn"
  /\ InFlight \cap (written \cup durable) = {}

\* Where the rows written through the context are.
Rows ==
  /\ pending = IF tx \in Open \cup {"committing"} THEN written ELSE {}
  /\ tx = "committed" => written \subseteq durable
  /\ tx /= "committed" => written \cap durable = {}
  /\ tx = "none" => written = {}

\* Storer.Transaction, sql.Tx and the rows agree at every step: the invariant
\* from which the properties below are proved.
TxInv == TypeOK /\ StackTx /\ CommitOwner /\ Ending /\ Rows

----------------------------------------------------------------------------
(* Properties.                                                              *)

\* Storer.Transaction is all or nothing: when the outermost call is over, the
\* rows written through its context are durable if it returned nil, none of
\* them is if it returned an error or panicked, and if the answer to COMMIT was
\* lost they are durable together or not at all.
AtomicOutcome ==
  pc = "idle" =>
    /\ out = "ok" => written \subseteq durable
    /\ out /= "ok" /\ ~unsure => written \cap durable = {}
    /\ unsure => written \subseteq durable \/ written \cap durable = {}

\* No row written through the transaction's context is visible outside before
\* the outermost function has returned nil: a nested call's commit, a goroutine
\* of fn and a panic on the way cannot publish half a transaction.
NothingDurableEarly ==
  written \cap durable /= {} =>
    depth <= 1 /\ pc \in {"rollback", "leave", "idle"} /\ out \in {"ok", "err"}

\* Transaction never returns with its sql.Tx open, a panic and a refused commit
\* included, but for one way out: database/sql, told by the context, has taken
\* the transaction and rolls it back when the statements in flight have returned.
NoTxLeft == pc = "idle" => tx \notin Open \cup {"committing"} \/ (tx \in Open /\ ender = "await")

\* What a caller of Storer.Transaction and the other sessions see of all this: a
\* transaction that is only to be rolled back is dropped.
Dropping == ender \in {"await", "rollback"}
Unit == CASE tx = "none" -> "none"
          [] tx = "committing" \/ (tx \in Open /\ ~Dropping) -> "open"
          [] tx = "committed" -> "kept"
          [] tx = "rolledback" \/ (tx \in Open /\ Dropping) -> "dropped"
Held == IF Unit = "open" THEN pending ELSE {}

Told == CASE pc # "idle" -> "running"
          [] pc = "idle" /\ unsure -> "unsure"
          [] pc = "idle" /\ ~unsure /\ tx = "none" /\ out = "ok" -> "none"
          [] OTHER -> out

U == INSTANCE UnitOfWork WITH visible <- durable, held <- Held, unit <- Unit, told <- Told

\* Storer.Transaction implements UnitOfWork: nested calls, statements still in
\* flight when it ends, panics, refused and lost commits and a context cancelled
\* meanwhile included, its rows become visible in one step or never, and the
\* call returns only after that is settled, with the answer that fits it.
ImplementsUnitOfWork == U!Spec

\* Cancelling the caller's context ends the transaction and frees its rows
\* without the help of a function that hangs, unless a statement of the
\* transaction itself never returns: statements take no context (database.go
\* Exec, NamedQuery, Get, Select), and the rollback waits for them.
CancelEndsTx == (cancelled /\ tx \in Open) ~> (tx \notin Open \/ [](InFlight /= {}))
============================================================================
