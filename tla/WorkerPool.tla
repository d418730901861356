----------------------------- MODULE WorkerPool -----------------------------
(***************************************************************************)
(* src/worker/pool.go: a fixed set of worker goroutines receiving tasks    *)
(* from an unbuffered channel, and a sync.WaitGroup that counts them.      *)
(*                                                                         *)
(* A goroutine is a caller (application code that holds the pool) or one   *)
(* of the workers spawned by NewPool.  Application code runs in callers    *)
(* and, while a task is on its stack, in a worker: both may call Submit    *)
(* and WaitAll, so tasks may submit tasks.  The WaitGroup is the Go        *)
(* library's: a counter and a set of parked waiters, with the two panics   *)
(* it raises when it is reused too early.  A panic of any goroutine ends   *)
(* the program.                                                            *)
(***************************************************************************)
EXTENDS Naturals, FiniteSets

CONSTANTS Callers,  \* goroutines of the application
          Workers,  \* goroutines spawned by NewPool(size); size = |Workers|
          Tasks,    \* the task closures that may be submitted
          NoTask    \* the absence of a task

ASSUME PoolAssumption ==
  /\ IsFiniteSet(Callers) /\ IsFiniteSet(Workers)
  /\ Callers \cap Workers = {}
  /\ NoTask \notin Tasks

VARIABLES
  pc,         \* where each goroutine is
  offer,      \* the task a goroutine is sending on the channel
  running,    \* the task on a worker's stack
  waitGroup,  \* the WaitGroup's counter
  submitted,  \* history: tasks whose Add(1) has happened
  done,       \* history: tasks whose function has returned
  users,      \* history: callers that have used the pool
  panicked    \* the program died in a WaitGroup panic

vars == <<pc, offer, running, waitGroup, submitted, done, users, panicked>>

Goroutines == Callers \cup Workers

CallerPC == {"user", "send", "wait", "parked", "woken"}
WorkerPC == CallerPC \cup {"recv", "returned", "release"}

TypeOK ==
  /\ pc \in [Goroutines -> WorkerPC]
  /\ \A c \in Callers : pc[c] \in CallerPC
  /\ offer \in [Goroutines -> Tasks \cup {NoTask}]
  /\ running \in [Workers -> Tasks \cup {NoTask}]
  /\ waitGroup \in Nat
  /\ submitted \subseteq Tasks
  /\ done \subseteq Tasks
  /\ users \subseteq Callers
  /\ panicked \in BOOLEAN

-----------------------------------------------------------------------------

(* NewPool: every worker starts in `for task := range p.tasks`.            *)
NewPool ==
  /\ pc = [g \in Goroutines |-> IF g \in Workers THEN "recv" ELSE "user"]
  /\ offer = [g \in Goroutines |-> NoTask]
  /\ running = [w \in Workers |-> NoTask]
  /\ waitGroup = 0
  /\ submitted = {} /\ done = {} /\ users = {}
  /\ panicked = FALSE

(* A goroutine of a live program at a given point.                         *)
At(g, l) == ~panicked /\ pc[g] = l

Goto(g, l) == pc' = [pc EXCEPT ![g] = l]

(* The library's waiters: goroutines asleep inside WaitGroup.Wait.         *)
Parked == {g \in Goroutines : pc[g] = "parked"}

UsedBy(g) == users' = users \cup ({g} \cap Callers)

(* The process dies; nothing else is observable afterwards.                *)
Panic ==
  /\ panicked' = TRUE
  /\ UNCHANGED <<pc, offer, running, waitGroup, submitted, done>>

-----------------------------------------------------------------------------
(* Plausible mistakes in the code, for the mutation checks.                *)

(* Submit does not call Add before it sends.                               *)
SubmitWithoutAdd(g, t) ==
  /\ At(g, "user")
  /\ t \notin submitted
  /\ submitted' = submitted \cup {t}
  /\ offer' = [offer EXCEPT ![g] = t]
  /\ Goto(g, "send")
  /\ UsedBy(g)
  /\ UNCHANGED <<running, waitGroup, done, panicked>>

(* The worker runs one task and leaves its loop.                           *)
DoneEndsWorker(w) ==
  /\ At(w, "returned")
  /\ waitGroup' = waitGroup - 1
  /\ running' = [running EXCEPT ![w] = NoTask]
  /\ pc' = [pc EXCEPT ![w] = "exited"]
  /\ UNCHANGED <<offer, submitted, done, users, panicked>>

(* The call of Done is lost.                                               *)
DoneForgotten(w) ==
  /\ At(w, "returned")
  /\ running' = [running EXCEPT ![w] = NoTask]
  /\ pc' = [pc EXCEPT ![w] = "recv"]
  /\ UNCHANGED <<offer, waitGroup, submitted, done, users, panicked>>

(* Done is called twice for one task.                                      *)
DoneTwice(w) ==
  /\ At(w, "returned")
  /\ waitGroup' = waitGroup - 2
  /\ running' = [running EXCEPT ![w] = NoTask]
  /\ pc' = [pc EXCEPT ![w] = IF waitGroup = 2 /\ Parked # {} THEN "release" ELSE "recv"]
  /\ UNCHANGED <<offer, submitted, done, users, panicked>>

-----------------------------------------------------------------------------

(* Submit, first statement: Add(1).  The library panics when the counter   *)
(* leaves zero while waiters are still to be released.  Every submitted    *)
(* closure is its own task value.                                          *)
Submit(g, t) ==
  /\ At(g, "user")
  /\ t \notin submitted
  /\ UsedBy(g)
  /\ \/ /\ waitGroup = 0 /\ Parked # {}
        /\ Panic
     \/ /\ ~(waitGroup = 0 /\ Parked # {})
        /\ waitGroup' = waitGroup + 1
        /\ submitted' = submitted \cup {t}
        /\ offer' = [offer EXCEPT ![g] = t]
        /\ Goto(g, "send")
        /\ UNCHANGED <<running, done, panicked>>

(* Submit, second statement: the rendezvous on the unbuffered channel.     *)
Handoff(g, w) ==
  /\ At(g, "send")
  /\ At(w, "recv")
  /\ running' = [running EXCEPT ![w] = offer[g]]
  /\ offer' = [offer EXCEPT ![g] = NoTask]
  /\ pc' = [pc EXCEPT ![g] = "user", ![w] = "user"]
  /\ UNCHANGED <<waitGroup, submitted, done, users, panicked>>

(* task() returns.                                                         *)
TaskReturn(w) ==
  /\ At(w, "user")
  /\ done' = done \cup {running[w]}
  /\ Goto(w, "returned")
  /\ UNCHANGED <<offer, running, waitGroup, submitted, users, panicked>>

(* waitGroup.Done(): the last one goes on to release the parked waiters.   *)
Done(w) ==
  /\ At(w, "returned")
  /\ waitGroup' = waitGroup - 1
  /\ running' = [running EXCEPT ![w] = NoTask]
  /\ pc' = [pc EXCEPT ![w] = IF waitGroup = 1 /\ Parked # {} THEN "release" ELSE "recv"]
  /\ UNCHANGED <<offer, submitted, done, users, panicked>>

(* The rest of that Done inside the library: the waiters are made runnable *)
(* and the worker receives again.                                          *)
Release(w) ==
  /\ At(w, "release")
  /\ pc' = [g \in Goroutines |-> IF g \in Parked THEN "woken"
                                 ELSE IF g = w THEN "recv" ELSE pc[g]]
  /\ UNCHANGED <<offer, running, waitGroup, submitted, done, users, panicked>>

WaitAll(g) ==
  /\ At(g, "user")
  /\ Goto(g, "wait")
  /\ UsedBy(g)
  /\ UNCHANGED <<offer, running, waitGroup, submitted, done, panicked>>

(* WaitGroup.Wait loads the counter: it returns at zero and parks else.    *)
WaitLoad(g) ==
  /\ At(g, "wait")
  /\ Goto(g, IF waitGroup = 0 THEN "user" ELSE "parked")
  /\ UNCHANGED <<offer, running, waitGroup, submitted, done, users, panicked>>

(* A woken waiter checks that the WaitGroup is still at rest, and panics   *)
(* ("reused before previous Wait has returned") if it is not.              *)
WaitWake(g) ==
  /\ At(g, "woken")
  /\ \/ /\ waitGroup # 0 \/ Parked # {}
        /\ Panic
        /\ UNCHANGED users
     \/ /\ waitGroup = 0 /\ Parked = {}
        /\ Goto(g, "user")
        /\ UNCHANGED <<offer, running, waitGroup, submitted, done, users, panicked>>

-----------------------------------------------------------------------------

Worker(w) == TaskReturn(w) \/ Done(w) \/ Release(w)

Waiter(g) == WaitLoad(g) \/ WaitWake(g)

Next ==
  \/ \E g \in Goroutines, t \in Tasks : Submit(g, t)
  \/ \E g \in Goroutines, w \in Workers : Handoff(g, w)
  \/ \E w \in Workers : Worker(w)
  \/ \E g \in Goroutines : WaitAll(g) \/ Waiter(g)

Spec == NewPool /\ [][Next]_vars

(* The Go scheduler runs every runnable goroutine, a task's own code ends  *)
(* unless it blocks in the pool, and a blocked sender is served when a     *)
(* worker receives.  Nobody is forced to call Submit or WaitAll.           *)
Fairness ==
  /\ \A w \in Workers : WF_vars(Worker(w))
  /\ \A g \in Goroutines : WF_vars(Waiter(g))
  /\ \A g \in Goroutines : WF_vars(\E w \in Workers : Handoff(g, w))

FairSpec == Spec /\ Fairness

-----------------------------------------------------------------------------
(* The inductive invariant *)

Senders == {g \in Goroutines : offer[g] # NoTask}
Busy == {w \in Workers : running[w] # NoTask}

(* A goroutine holds a task exactly while its program counter says so.     *)
Held ==
  /\ \A g \in Goroutines : offer[g] # NoTask <=> pc[g] = "send"
  /\ \A w \in Workers : running[w] # NoTask <=> pc[w] \notin {"recv", "release"}

(* A submitted task that is not done is held by exactly one goroutine.     *)
Ownership ==
  /\ done \subseteq submitted
  /\ \A g \in Senders : offer[g] \in submitted \ done
  /\ \A w \in Busy : running[w] \in submitted
  /\ \A w \in Busy : pc[w] = "returned" <=> running[w] \in done
  /\ \A g, h \in Senders : offer[g] = offer[h] => g = h
  /\ \A v, w \in Busy : running[v] = running[w] => v = w
  /\ \A g \in Senders, w \in Busy : offer[g] # running[w]
  /\ \A t \in submitted \ done : \/ \E g \in Senders : offer[g] = t
                                 \/ \E w \in Busy : running[w] = t

(* The WaitGroup counts the tasks that are held.                           *)
Counted == waitGroup = Cardinality(Senders) + Cardinality(Busy)

(* While a worker releases the waiters the counter stays at zero.          *)
Releasing ==
  /\ \A w \in Workers : pc[w] = "release" => waitGroup = 0 /\ Parked # {}
  /\ \A v, w \in Workers : pc[v] = "release" /\ pc[w] = "release" => v = w

(* Who has touched the pool, and what that means for a woken waiter.       *)
Usage ==
  /\ \A c \in Callers : c \notin users => pc[c] = "user"
  /\ \A w \in Workers : pc[w] # "woken"
  /\ \A c \in Callers : pc[c] = "woken" /\ users \subseteq {c} => waitGroup = 0
  /\ panicked => \E a, b \in users : a # b

(* The bookkeeping that makes WaitAll honest: every unfinished submitted   *)
(* task sits in exactly one place, the WaitGroup counts those places, and  *)
(* nobody is woken while it is non-zero unless the pool has two users.     *)
PoolInv == TypeOK /\ Held /\ Ownership /\ Counted /\ Releasing /\ Usage

-----------------------------------------------------------------------------
(* Properties *)

(* A pool used by one application goroutine, the usage of doc.go, never    *)
(* trips the WaitGroup's reuse checks, even when its tasks submit further  *)
(* tasks and whatever that goroutine does between two WaitAlls.            *)
SingleUserNeverPanics == Cardinality(users) <= 1 => ~panicked

(* The pool keeps TaskGroup's promise: each task runs once, and WaitAll    *)
(* returns (fast path or after parking) only when every task whose Submit  *)
(* had begun has finished.                                                 *)
InWait == {g \in Goroutines : pc[g] \in {"wait", "parked", "woken"}}
TG == INSTANCE TaskGroup WITH waiting <- InWait
ImplementsTaskGroup == TG!Spec

(* Every worker is inside a task that is blocked in the pool itself.       *)
AllWorkersBlocked == \A w \in Workers : pc[w] \in {"send", "parked"}

(* A submitted task finishes, unless the program died, every worker is     *)
(* stuck in a nested Submit or WaitAll, or the task waits for itself.      *)
SubmittedTasksFinish ==
  \A t \in Tasks :
    t \in submitted ~> \/ t \in done \/ panicked \/ AllWorkersBlocked
                       \/ \E w \in Workers : running[w] = t /\ pc[w] = "parked"

(* WaitAll called by the application returns, unless the program died or   *)
(* some task is blocked in the pool for good.                              *)
WaitAllReturns ==
  \A c \in Callers :
    c \in InWait ~> \/ c \notin InWait \/ panicked \/ AllWorkersBlocked
                    \/ \E w \in Workers : pc[w] = "parked"
=============================================================================
