-------------------------- MODULE WorkerPoolProofs --------------------------
(***************************************************************************)
(* Proofs about WorkerPool, for every finite set of callers and workers    *)
(* and every set of tasks.                                                 *)
(***************************************************************************)
EXTENDS WorkerPool, FiniteSetTheorems, TLAPS

USE DEF At, Goto

(* Senders and busy workers are finitely many, so they can be counted.     *)
LEMMA HoldersFinite ==
  ASSUME TypeOK
  PROVE  /\ IsFiniteSet(Senders) /\ Cardinality(Senders) \in Nat
         /\ IsFiniteSet(Busy) /\ Cardinality(Busy) \in Nat
<1>1. IsFiniteSet(Goroutines)
  BY PoolAssumption, FS_Union DEF Goroutines
<1>2. Senders \in SUBSET Goroutines /\ Busy \in SUBSET Workers
  BY DEF Senders, Busy
<1>3. IsFiniteSet(Senders) /\ IsFiniteSet(Busy)
  BY <1>1, <1>2, PoolAssumption, FS_Subset
<1> QED
  BY <1>3, FS_CardinalityType

(* The counter is zero exactly when no goroutine holds a task.             *)
LEMMA ZeroMeansNoHolder ==
  ASSUME TypeOK, Counted
  PROVE  waitGroup = 0 <=> Senders = {} /\ Busy = {}
<1>1. waitGroup = 0 <=> Cardinality(Senders) = 0 /\ Cardinality(Busy) = 0
  BY HoldersFinite DEF Counted
<1> QED
  BY <1>1, HoldersFinite, FS_EmptySet

(* At zero every submitted task has finished and every worker is idle.     *)
LEMMA ZeroMeansFinished ==
  ASSUME TypeOK, Held, Ownership, Counted, waitGroup = 0
  PROVE  /\ submitted \subseteq done
         /\ \A w \in Workers : pc[w] \in {"recv", "release"}
<1>1. Senders = {} /\ Busy = {}
  BY ZeroMeansNoHolder
<1> QED
  BY <1>1 DEF Ownership, Held, Busy

(* Two distinct members make a finite set's cardinality at least two.      *)
LEMMA TwoMembers ==
  ASSUME NEW S, IsFiniteSet(S), NEW a \in S, NEW b \in S, a # b
  PROVE  ~(Cardinality(S) <= 1)
<1>1. {a, b} \in SUBSET S /\ IsFiniteSet({a}) /\ Cardinality({a}) = 1
  BY FS_Singleton
<1>2. Cardinality({a} \cup {b}) = 2 /\ {a} \cup {b} = {a, b}
  BY <1>1, FS_AddElement
<1>3. Cardinality({a, b}) <= Cardinality(S) /\ Cardinality(S) \in Nat
  BY <1>1, FS_Subset, FS_CardinalityType
<1> QED
  BY <1>2, <1>3

-----------------------------------------------------------------------------

\* A pool just made satisfies the invariant.
LEMMA InitPoolInv == NewPool => PoolInv
<1> SUFFICES ASSUME NewPool PROVE PoolInv
  OBVIOUS
<1>1. TypeOK
  BY PoolAssumption DEF NewPool, TypeOK, Goroutines, CallerPC, WorkerPC
<1>2. Held
  BY PoolAssumption DEF NewPool, Held, Goroutines
<1>3. Senders = {} /\ Busy = {}
  BY DEF NewPool, Senders, Busy
<1>4. Ownership
  BY <1>3 DEF NewPool, Ownership
<1>5. Counted
  BY <1>3, FS_EmptySet DEF NewPool, Counted
<1>6. Releasing /\ Usage
  BY PoolAssumption DEF NewPool, Releasing, Usage, Goroutines
<1> QED
  BY <1>1, <1>2, <1>4, <1>5, <1>6 DEF PoolInv

\* Every step keeps the types, the invariant keeping the counter from going negative.
LEMMA TypeStep == TypeOK /\ PoolInv /\ [Next]_vars => TypeOK'
<1> SUFFICES ASSUME TypeOK, PoolInv, [Next]_vars PROVE TypeOK'
  OBVIOUS
<1> USE PoolAssumption DEF TypeOK, Goroutines, CallerPC, WorkerPC
<1>1. ASSUME NEW g \in Goroutines, NEW t \in Tasks, Submit(g, t) PROVE TypeOK'
  <2>1. users' \subseteq Callers
    BY <1>1 DEF Submit, UsedBy
  <2>2. CASE Panic
    BY <2>1, <2>2 DEF Panic
  <2>3. CASE ~Panic
    <3>1. /\ waitGroup' \in Nat /\ submitted' \subseteq Tasks
          /\ UNCHANGED <<running, done, panicked>>
      BY <1>1, <2>3 DEF Submit
    <3>2. /\ pc' = [pc EXCEPT ![g] = "send"]
          /\ offer' = [offer EXCEPT ![g] = t]
      BY <1>1, <2>3 DEF Submit
    <3> QED
      BY <2>1, <3>1, <3>2
  <2> QED
    BY <2>2, <2>3
<1>2. ASSUME NEW g \in Goroutines, NEW w \in Workers, Handoff(g, w) PROVE TypeOK'
  BY <1>2 DEF Handoff
<1>3. ASSUME NEW w \in Workers, TaskReturn(w) PROVE TypeOK'
  BY <1>3 DEF TaskReturn, PoolInv, Held
<1>4. ASSUME NEW w \in Workers, Done(w) PROVE TypeOK'
  <2>1. waitGroup # 0
    BY <1>4, ZeroMeansFinished DEF Done, PoolInv
  <2> QED
    BY <1>4, <2>1 DEF Done
<1>5. ASSUME NEW w \in Workers, Release(w) PROVE TypeOK'
  BY <1>5 DEF Release, PoolInv, Usage, Parked
<1>6. ASSUME NEW g \in Goroutines, WaitAll(g) PROVE TypeOK'
  BY <1>6 DEF WaitAll, UsedBy
<1>7. ASSUME NEW g \in Goroutines, Waiter(g) PROVE TypeOK'
  BY <1>7 DEF Waiter, WaitLoad, WaitWake, Panic
<1>8. CASE UNCHANGED vars
  BY <1>8 DEF vars
<1> QED
  BY <1>1, <1>2, <1>3, <1>4, <1>5, <1>6, <1>7, <1>8 DEF Next, Worker

-----------------------------------------------------------------------------
(* One lemma per action: the step preserves everything but the types.      *)

Rest == Held /\ Ownership /\ Counted /\ Releasing /\ Usage

\* Submit's Add(1) counts the task its goroutine now holds.
LEMMA SubmitStep ==
  ASSUME PoolInv, TypeOK', NEW g \in Goroutines, NEW t \in Tasks, Submit(g, t)
  PROVE  Rest'
<1> USE PoolAssumption DEF PoolInv, TypeOK, Goroutines
<1>1. CASE Panic
  <2>1. waitGroup = 0 /\ Parked # {}
    BY <1>1 DEF Submit, Panic, TypeOK
  <2>2. PICK h \in Parked : TRUE
    BY <2>1
  <2>3. \A w \in Workers : pc[w] \in {"recv", "release"}
    BY <2>1, ZeroMeansFinished
  <2>4. g \in Callers /\ h \in Callers /\ h \in users /\ g # h
    BY <2>2, <2>3 DEF Submit, Parked, Usage
  <2>5. users' = users \cup {g}
    BY <2>4 DEF Submit, UsedBy
  <2>6. Held' /\ Counted' /\ Ownership' /\ Releasing'
    BY <1>1 DEF Panic, Held, Counted, Ownership, Releasing, Senders, Busy, Parked
  <2>7. Usage'
    BY <1>1, <2>4, <2>5 DEF Panic, Usage
  <2> QED
    BY <2>6, <2>7 DEF Rest
<1>2. CASE ~Panic
  <2>1. /\ pc' = [pc EXCEPT ![g] = "send"] /\ offer' = [offer EXCEPT ![g] = t]
        /\ submitted' = submitted \cup {t} /\ waitGroup' = waitGroup + 1
        /\ UNCHANGED <<running, done, panicked>>
        /\ pc[g] = "user" /\ t \notin submitted
        /\ users' = users \cup ({g} \cap Callers)
        /\ ~(waitGroup = 0 /\ Parked # {}) /\ ~panicked
    BY <1>2 DEF Submit, UsedBy
  <2>2. Senders' = Senders \cup {g} /\ g \notin Senders /\ Busy' = Busy
    BY <2>1 DEF Senders, Busy, Held
  <2>3. Held'
    BY <2>1 DEF Held
  <2>4. Counted'
    <3>1. Cardinality(Senders') = Cardinality(Senders) + 1
      BY <2>2, HoldersFinite, FS_AddElement
    <3> QED
      BY <2>1, <2>2, <3>1, HoldersFinite DEF Counted
  <2>5. Ownership'
    <3>1. \A x \in Senders : offer'[x] = offer[x]
      BY <2>1, <2>2 DEF Senders
    <3>2. offer'[g] = t /\ t \notin submitted
      BY <2>1
    <3>3. t \notin done
      BY <3>2 DEF Ownership
    <3> QED
      BY <2>1, <2>2, <3>1, <3>2, <3>3 DEF Ownership, Busy
  <2>6. \A w \in Workers : pc'[w] # "release"
    BY <2>1 DEF Releasing
  <2>7. Releasing'
    BY <2>6 DEF Releasing
  <2>8. Usage'
    <3>1. ASSUME NEW c \in Callers, pc'[c] = "woken", users' \subseteq {c}
          PROVE  waitGroup' = 0
      <4>1. pc[c] = "woken" /\ users \subseteq {c} /\ c # g
        BY <2>1, <3>1
      <4>2. waitGroup = 0
        BY <4>1 DEF Usage
      <4>3. g \in Callers
        BY <2>1, <4>2, ZeroMeansFinished
      <4> QED
        BY <2>1, <3>1, <4>1, <4>3
    <3> QED
      BY <2>1, <3>1 DEF Usage
  <2> QED
    BY <2>3, <2>4, <2>5, <2>7, <2>8 DEF Rest
<1> QED
  BY <1>1, <1>2

\* The rendezvous moves the task from the sender to the worker.
LEMMA HandoffStep ==
  ASSUME PoolInv, NEW g \in Goroutines, NEW w \in Workers, Handoff(g, w)
  PROVE  Rest'
<1> USE PoolAssumption DEF PoolInv, TypeOK, Goroutines
<1>1. /\ pc[g] = "send" /\ pc[w] = "recv" /\ g # w
      /\ pc' = [pc EXCEPT ![g] = "user", ![w] = "user"]
      /\ running' = [running EXCEPT ![w] = offer[g]]
      /\ offer' = [offer EXCEPT ![g] = NoTask]
      /\ UNCHANGED <<waitGroup, submitted, done, users, panicked>>
  BY DEF Handoff
<1>2. g \in Senders /\ w \notin Busy /\ offer[g] \in Tasks
  BY <1>1 DEF Senders, Busy, Held
<1>3. Senders' = Senders \ {g} /\ Busy' = Busy \cup {w}
  BY <1>1, <1>2 DEF Senders, Busy
<1>4. Held'
  BY <1>1, <1>2 DEF Held
<1>5. Counted'
  <2>1. Cardinality(Senders') = Cardinality(Senders) - 1
    BY <1>2, <1>3, HoldersFinite, FS_RemoveElement
  <2>2. Cardinality(Busy') = Cardinality(Busy) + 1
    BY <1>2, <1>3, HoldersFinite, FS_AddElement
  <2> QED
    BY <1>1, <2>1, <2>2, HoldersFinite DEF Counted
<1>6. Ownership'
  <2>1. \A x \in Senders' : x \in Senders /\ x # g /\ offer'[x] = offer[x]
    BY <1>1, <1>3 DEF Senders
  <2>2. \A v \in Busy : v # w /\ running'[v] = running[v]
    BY <1>1, <1>2 DEF Busy
  <2>3. running'[w] = offer[g] /\ pc'[w] = "user"
    BY <1>1
  <2>4. \A v \in Busy : pc'[v] = "returned" <=> pc[v] = "returned"
    BY <1>1, <2>2 DEF Busy
  <2>5. (done \subseteq submitted)' /\ (\A x \in Senders : offer[x] \in submitted \ done)'
    BY <1>1, <2>1 DEF Ownership
  <2>6. (\A v \in Busy : running[v] \in submitted)'
    BY <1>1, <1>2, <1>3, <2>2, <2>3 DEF Ownership
  <2>7. (\A v \in Busy : pc[v] = "returned" <=> running[v] \in done)'
    <3>1. ASSUME NEW v \in Busy
          PROVE  pc'[v] = "returned" <=> running'[v] \in done'
      <4>1. pc[v] = "returned" <=> running[v] \in done
        BY DEF Ownership
      <4>2. running'[v] = running[v] /\ done' = done
        BY <1>1, <2>2
      <4> QED
        BY <2>4, <4>1, <4>2
    <3>2. offer[g] \notin done' /\ pc'[w] # "returned"
      BY <1>1, <1>2, <2>3 DEF Ownership
    <3> QED
      BY <1>3, <2>3, <3>1, <3>2
  <2>8. (\A x, y \in Senders : offer[x] = offer[y] => x = y)'
    BY <2>1 DEF Ownership
  <2>9. (\A u, v \in Busy : running[u] = running[v] => u = v)'
    BY <1>2, <1>3, <2>2, <2>3 DEF Ownership
  <2>10. (\A x \in Senders, v \in Busy : offer[x] # running[v])'
    BY <1>2, <1>3, <2>1, <2>2, <2>3 DEF Ownership
  <2>11. (\A t \in submitted \ done : \/ \E x \in Senders : offer[x] = t
                                      \/ \E v \in Busy : running[v] = t)'
    <3> SUFFICES ASSUME NEW t \in submitted \ done
                 PROVE  \/ \E x \in Senders' : offer'[x] = t
                        \/ \E v \in Busy' : running'[v] = t
      BY <1>1
    <3>1. CASE t = offer[g]
      BY <1>3, <2>3, <3>1
    <3>2. CASE \E x \in Senders : x # g /\ offer[x] = t
      BY <1>3, <2>1, <3>2
    <3>3. CASE \E v \in Busy : running[v] = t
      BY <1>3, <2>2, <3>3
    <3> QED
      BY <3>1, <3>2, <3>3 DEF Ownership
  <2> QED
    BY <2>5, <2>6, <2>7, <2>8, <2>9, <2>10, <2>11 DEF Ownership
<1>7. Releasing' /\ Usage'
  <2>1. Parked' = Parked
    BY <1>1 DEF Parked
  <2> QED
    BY <1>1, <2>1 DEF Releasing, Usage
<1> QED
  BY <1>4, <1>5, <1>6, <1>7 DEF Rest

\* A task that returns is still held until its Done.
LEMMA TaskReturnStep ==
  ASSUME PoolInv, NEW w \in Workers, TaskReturn(w)
  PROVE  Rest'
<1> USE PoolAssumption DEF PoolInv, TypeOK, Goroutines
<1>1. /\ pc[w] = "user" /\ pc' = [pc EXCEPT ![w] = "returned"]
      /\ done' = done \cup {running[w]}
      /\ UNCHANGED <<offer, running, waitGroup, submitted, users, panicked>>
  BY DEF TaskReturn
<1>2. w \in Busy /\ Senders' = Senders /\ Busy' = Busy /\ Parked' = Parked
  BY <1>1 DEF Senders, Busy, Held, Parked
<1>3. Held'
  BY <1>1 DEF Held
<1>4. Counted'
  BY <1>1, <1>2 DEF Counted
<1>5. Ownership'
  <2>1. (done \subseteq submitted)' /\ (\A x \in Senders : offer[x] \in submitted \ done)'
    BY <1>1, <1>2 DEF Ownership
  <2>2. (\A v \in Busy : pc[v] = "returned" <=> running[v] \in done)'
    BY <1>1, <1>2 DEF Ownership, Busy
  <2> QED
    BY <1>1, <1>2, <2>1, <2>2 DEF Ownership
<1>6. Releasing' /\ Usage'
  BY <1>1, <1>2 DEF Releasing, Usage
<1> QED
  BY <1>3, <1>4, <1>5, <1>6 DEF Rest

\* Done gives up the task and its count together.
LEMMA DoneStep ==
  ASSUME PoolInv, NEW w \in Workers, Done(w)
  PROVE  Rest'
<1> USE PoolAssumption DEF PoolInv, TypeOK, Goroutines
<1>1. /\ pc[w] = "returned" /\ waitGroup' = waitGroup - 1
      /\ pc' = [pc EXCEPT ![w] = IF waitGroup = 1 /\ Parked # {} THEN "release" ELSE "recv"]
      /\ running' = [running EXCEPT ![w] = NoTask]
      /\ UNCHANGED <<offer, submitted, done, users, panicked>>
  BY DEF Done
<1>2. w \in Busy /\ Senders' = Senders /\ Busy' = Busy \ {w} /\ Parked' = Parked
  BY <1>1 DEF Senders, Busy, Held, Parked
<1>3. waitGroup # 0
  BY <1>1, ZeroMeansFinished
<1>4. Held'
  BY <1>1 DEF Held
<1>5. Counted'
  <2>1. Cardinality(Busy') = Cardinality(Busy) - 1
    BY <1>2, HoldersFinite, FS_RemoveElement
  <2> QED
    BY <1>1, <1>2, <2>1, HoldersFinite DEF Counted
<1>6. Ownership'
  <2>1. \A v \in Busy' : v \in Busy /\ v # w /\ running'[v] = running[v] /\ pc'[v] = pc[v]
    BY <1>1, <1>2 DEF Busy
  <2>2. running[w] \in done
    BY <1>1, <1>2 DEF Ownership, Busy
  <2> QED
    BY <1>1, <1>2, <2>1, <2>2 DEF Ownership
<1>7. Releasing'
  BY <1>1, <1>2, <1>3 DEF Releasing
<1>8. Usage'
  BY <1>1, <1>2, <1>3 DEF Usage
<1> QED
  BY <1>4, <1>5, <1>6, <1>7, <1>8 DEF Rest

\* Waking the waiters touches no task.
LEMMA ReleaseStep ==
  ASSUME PoolInv, NEW w \in Workers, Release(w)
  PROVE  Rest'
<1> USE PoolAssumption DEF PoolInv, TypeOK, Goroutines
<1>1. /\ pc[w] = "release"
      /\ pc' = [h \in Goroutines |-> IF h \in Parked THEN "woken"
                                     ELSE IF h = w THEN "recv" ELSE pc[h]]
      /\ UNCHANGED <<offer, running, waitGroup, submitted, done, users, panicked>>
  BY DEF Release
<1>2. waitGroup = 0 /\ \A v \in Workers : pc[v] \in {"recv", "release"}
  BY <1>1, ZeroMeansFinished DEF Releasing
<1>3. \A v \in Workers : v \notin Parked /\ pc'[v] = "recv"
  BY <1>1, <1>2 DEF Parked, Releasing
<1>4. Senders' = Senders /\ Busy' = Busy /\ Senders = {} /\ Busy = {}
  BY <1>1, <1>2, ZeroMeansNoHolder DEF Senders, Busy
<1>5. Held'
  <2>1. \A h \in Goroutines : offer[h] = NoTask /\ pc'[h] # "send"
    BY <1>1, <1>2, <1>4 DEF Senders, Held, Parked
  <2> QED
    BY <1>1, <1>3, <1>4, <2>1 DEF Held, Busy
<1>6. Counted' /\ Ownership'
  BY <1>1, <1>4 DEF Counted, Ownership
<1>7. Releasing' /\ Usage'
  <2>1. \A c \in Callers : c \notin users => pc'[c] = "user"
    BY <1>1 DEF Usage, Parked
  <2> QED
    BY <1>1, <1>2, <1>3, <2>1 DEF Releasing, Usage
<1> QED
  BY <1>5, <1>6, <1>7 DEF Rest

\* Entering WaitAll touches no task.
LEMMA WaitAllStep ==
  ASSUME PoolInv, NEW g \in Goroutines, WaitAll(g)
  PROVE  Rest'
<1> USE PoolAssumption DEF PoolInv, TypeOK, Goroutines
<1>1. /\ pc[g] = "user" /\ pc' = [pc EXCEPT ![g] = "wait"]
      /\ users' = users \cup ({g} \cap Callers)
      /\ UNCHANGED <<offer, running, waitGroup, submitted, done, panicked>>
  BY DEF WaitAll, UsedBy
<1>2. Senders' = Senders /\ Busy' = Busy /\ Parked' = Parked
  BY <1>1 DEF Senders, Busy, Parked
<1>3. Held' /\ Counted'
  BY <1>1, <1>2 DEF Held, Counted
<1>4. Ownership'
  BY <1>1, <1>2 DEF Ownership, Busy
<1>5. Releasing' /\ Usage'
  BY <1>1, <1>2 DEF Releasing, Usage
<1> QED
  BY <1>3, <1>4, <1>5 DEF Rest

\* Wait returns at once on a zero counter and parks otherwise.
LEMMA WaitLoadStep ==
  ASSUME PoolInv, NEW g \in Goroutines, WaitLoad(g)
  PROVE  Rest'
<1> USE PoolAssumption DEF PoolInv, TypeOK, Goroutines
<1>1. /\ pc[g] = "wait"
      /\ pc' = [pc EXCEPT ![g] = IF waitGroup = 0 THEN "user" ELSE "parked"]
      /\ UNCHANGED <<offer, running, waitGroup, submitted, done, users, panicked>>
  BY DEF WaitLoad
<1>2. Senders' = Senders /\ Busy' = Busy /\ Parked \subseteq Parked'
  BY <1>1 DEF Senders, Busy, Parked
<1>3. Held' /\ Counted'
  BY <1>1, <1>2 DEF Held, Counted
<1>4. Ownership'
  BY <1>1, <1>2 DEF Ownership, Busy
<1>5. Releasing' /\ Usage'
  BY <1>1, <1>2 DEF Releasing, Usage
<1> QED
  BY <1>3, <1>4, <1>5 DEF Rest

\* A woken waiter returns, or finds the WaitGroup reused.
LEMMA WaitWakeStep ==
  ASSUME PoolInv, NEW g \in Goroutines, WaitWake(g)
  PROVE  Rest'
<1> USE PoolAssumption DEF PoolInv, TypeOK, Goroutines
<1>1. g \in Callers /\ g \in users /\ pc[g] = "woken"
  BY DEF WaitWake, Usage
<1>2. CASE Panic
  <2>1. waitGroup # 0 \/ Parked # {}
    BY <1>2 DEF WaitWake, Panic
  <2>2. UNCHANGED <<pc, offer, running, waitGroup, submitted, done, users>>
    BY <1>2 DEF WaitWake, Panic
  <2>3. ~(users \subseteq {g})
    <3> SUFFICES ASSUME users \subseteq {g} PROVE FALSE
      OBVIOUS
    <3>1. waitGroup = 0
      BY <1>1 DEF Usage
    <3>2. PICK h \in Parked : TRUE
      BY <2>1, <3>1
    <3>3. h \in Callers /\ h # g
      BY <1>1, <3>1, <3>2, ZeroMeansFinished DEF Parked
    <3> QED
      BY <3>2, <3>3 DEF Parked, Usage
  <2>4. Usage'
    BY <1>1, <1>2, <2>2, <2>3 DEF Usage
  <2> QED
    BY <2>2, <2>4 DEF Rest, Held, Ownership, Counted, Releasing, Senders, Busy, Parked
<1>3. CASE ~Panic
  <2>1. /\ pc' = [pc EXCEPT ![g] = "user"] /\ waitGroup = 0
        /\ UNCHANGED <<offer, running, waitGroup, submitted, done, users, panicked>>
    BY <1>3 DEF WaitWake
  <2>2. Senders' = Senders /\ Busy' = Busy /\ Parked' = Parked
    BY <1>1, <2>1 DEF Senders, Busy, Parked
  <2>3. Held' /\ Counted' /\ Ownership' /\ Releasing' /\ Usage'
    BY <1>1, <2>1, <2>2 DEF Held, Counted, Ownership, Busy, Releasing, Usage
  <2> QED
    BY <2>3 DEF Rest
<1> QED
  BY <1>2, <1>3

-----------------------------------------------------------------------------

\* Every step of the pool and its users keeps the invariant.
LEMMA PoolInvStep == PoolInv /\ [Next]_vars => PoolInv'
<1> SUFFICES ASSUME PoolInv, [Next]_vars PROVE PoolInv'
  OBVIOUS
<1>1. TypeOK'
  BY TypeStep DEF PoolInv
<1>2. CASE UNCHANGED vars
  BY <1>2 DEF vars, PoolInv, TypeOK, Held, Ownership, Counted, Releasing, Usage,
              Senders, Busy, Parked
<1>3. CASE Next
  <2>1. Rest'
    BY <1>1, <1>3, SubmitStep, HandoffStep, TaskReturnStep, DoneStep, ReleaseStep,
       WaitAllStep, WaitLoadStep, WaitWakeStep DEF Next, Worker, Waiter
  <2> QED
    BY <1>1, <2>1 DEF Rest, PoolInv
<1> QED
  BY <1>2, <1>3

(* The inductive invariant of pool.go's bookkeeping holds: an unfinished   *)
(* submitted task is held by exactly one goroutine and the WaitGroup's     *)
(* counter is the number of holders.                                       *)
THEOREM PoolInvariant == Spec => []PoolInv
<1>1. NewPool => PoolInv
  BY InitPoolInv
<1>2. PoolInv /\ [Next]_vars => PoolInv'
  BY PoolInvStep
<1> QED
  BY <1>1, <1>2, PTL DEF Spec

(* The variables of the pool keep their types: in particular waitGroup     *)
(* never goes negative, which would be the library's third panic.          *)
THEOREM TypeCorrect == Spec => []TypeOK
<1>1. PoolInv => TypeOK
  BY DEF PoolInv
<1> QED
  BY <1>1, PoolInvariant, PTL

(* Whatever one application goroutine does with a pool, tasks that submit  *)
(* tasks included, the WaitGroup's reuse checks never fire.                *)
THEOREM SingleUserSafe == Spec => []SingleUserNeverPanics
<1>1. PoolInv => SingleUserNeverPanics
  <2> SUFFICES ASSUME PoolInv, panicked PROVE ~(Cardinality(users) <= 1)
    BY DEF SingleUserNeverPanics
  <2>1. PICK a \in users, b \in users : a # b
    BY DEF PoolInv, Usage
  <2>2. IsFiniteSet(users)
    BY PoolAssumption, FS_Subset DEF PoolInv, TypeOK
  <2> QED
    BY <2>1, <2>2, TwoMembers
<1> QED
  BY <1>1, PoolInvariant, PTL

(* pool.go implements TaskGroup: a task runs exactly once, and WaitAll     *)
(* returns only when every task submitted by then has finished.            *)
THEOREM PoolImplementsTaskGroup == Spec => ImplementsTaskGroup
<1> USE PoolAssumption
<1>1. NewPool => TG!Init
  BY DEF NewPool, TG!Init, InWait, Goroutines
<1>2. PoolInv /\ [Next]_vars => [TG!Next]_(TG!vars)
  <2> SUFFICES ASSUME PoolInv, [Next]_vars PROVE TG!Next \/ UNCHANGED TG!vars
    OBVIOUS
  <2> USE DEF PoolInv, TypeOK, TG!vars, InWait, Goroutines
  <2>1. ASSUME NEW g \in Goroutines, NEW t \in Tasks, Submit(g, t)
        PROVE  TG!Next \/ UNCHANGED TG!vars
    <3>1. CASE Panic
      BY <2>1, <3>1 DEF Panic
    <3>2. CASE ~Panic
      <4>1. /\ pc[g] = "user" /\ pc' = [pc EXCEPT ![g] = "send"]
            /\ t \notin submitted /\ submitted' = submitted \cup {t} /\ done' = done
        BY <2>1, <3>2 DEF Submit
      <4>2. InWait' = InWait
        BY <4>1
      <4> QED
        BY <4>1, <4>2 DEF TG!Next, TG!Submit
    <3> QED
      BY <3>1, <3>2
  <2>2. ASSUME NEW g \in Goroutines, NEW w \in Workers, Handoff(g, w)
        PROVE  UNCHANGED TG!vars
    BY <2>2 DEF Handoff
  <2>3. ASSUME NEW w \in Workers, TaskReturn(w) PROVE TG!Next
    <3>1. InWait' = InWait
      BY <2>3 DEF TaskReturn
    <3>2. running[w] \in Tasks /\ running[w] \in submitted \ done
      BY <2>3 DEF TaskReturn, Held, Ownership, Busy
    <3> QED
      BY <2>3, <3>1, <3>2 DEF TaskReturn, TG!Next, TG!Finish
  <2>4. ASSUME NEW w \in Workers, Done(w) PROVE UNCHANGED TG!vars
    BY <2>4 DEF Done
  <2>5. ASSUME NEW w \in Workers, Release(w) PROVE UNCHANGED TG!vars
    BY <2>5 DEF Release, Parked
  <2>6. ASSUME NEW g \in Goroutines, WaitAll(g) PROVE TG!Next
    <3>1. g \notin InWait /\ InWait' = InWait \cup {g}
      BY <2>6 DEF WaitAll
    <3> QED
      BY <2>6, <3>1 DEF WaitAll, TG!Next, TG!Wait
  <2>7. ASSUME NEW g \in Goroutines, waitGroup = 0, g \in InWait,
               pc' = [pc EXCEPT ![g] = "user"], UNCHANGED <<submitted, done>>
        PROVE  TG!Next
    <3>1. submitted \subseteq done
      BY <2>7, ZeroMeansFinished
    <3>2. InWait' = InWait \ {g}
      BY <2>7
    <3> QED
      BY <2>7, <3>1, <3>2 DEF TG!Next, TG!Return
  <2>8. ASSUME NEW g \in Goroutines, WaitLoad(g)
        PROVE  TG!Next \/ UNCHANGED TG!vars
    <3>1. CASE waitGroup = 0
      BY <2>7, <2>8, <3>1 DEF WaitLoad
    <3>2. CASE waitGroup # 0
      BY <2>8, <3>2 DEF WaitLoad
    <3> QED
      BY <3>1, <3>2
  <2>9. ASSUME NEW g \in Goroutines, WaitWake(g)
        PROVE  TG!Next \/ UNCHANGED TG!vars
    <3>1. CASE Panic
      BY <3>1 DEF Panic
    <3>2. CASE ~Panic
      BY <2>7, <2>9, <3>2 DEF WaitWake
    <3> QED
      BY <3>1, <3>2
  <2>10. CASE UNCHANGED vars
    BY <2>10 DEF vars
  <2> QED
    BY <2>1, <2>2, <2>3, <2>4, <2>5, <2>6, <2>8, <2>9, <2>10 DEF Next, Worker, Waiter
<1> QED
  BY <1>1, <1>2, PoolInvariant, PTL DEF Spec, ImplementsTaskGroup, TG!Spec
=============================================================================
