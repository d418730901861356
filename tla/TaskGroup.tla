----------------------------- MODULE TaskGroup -----------------------------
(***************************************************************************)
(* What package worker promises (src/worker/doc.go): a submitted task is   *)
(* run to its end exactly once, and WaitAll returns only at a moment at    *)
(* which every task submitted so far has finished.  There are no workers,  *)
(* no channel and no counter here; WorkerPool is shown to implement this.  *)
(***************************************************************************)
CONSTANTS Goroutines, \* everything that may call WaitAll
          Tasks       \* the task values that are ever submitted

VARIABLES submitted,  \* tasks whose submission has been registered
          done,       \* tasks whose function has returned
          waiting     \* goroutines inside WaitAll

vars == <<submitted, done, waiting>>

Init == submitted = {} /\ done = {} /\ waiting = {}

Submit(t) ==
  /\ t \notin submitted
  /\ submitted' = submitted \cup {t}
  /\ UNCHANGED <<done, waiting>>

Finish(t) ==
  /\ t \in submitted \ done
  /\ done' = done \cup {t}
  /\ UNCHANGED <<submitted, waiting>>

Wait(g) ==
  /\ g \notin waiting
  /\ waiting' = waiting \cup {g}
  /\ UNCHANGED <<submitted, done>>

Return(g) ==
  /\ g \in waiting
  /\ submitted \subseteq done
  /\ waiting' = waiting \ {g}
  /\ UNCHANGED <<submitted, done>>

Next ==
  \/ \E t \in Tasks : Submit(t) \/ Finish(t)
  \/ \E g \in Goroutines : Wait(g) \/ Return(g)

Spec == Init /\ [][Next]_vars
=============================================================================
