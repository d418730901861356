------------------------- MODULE TransactionProofs -------------------------
(***************************************************************************)
(* Storer.Transaction is atomic for any rows and any nesting: the invariant *)
(* that ties the stack, the sql.Tx and the rows together is inductive, and  *)
(* the properties the runs check follow from it.                            *)
(***************************************************************************)
EXTENDS Transaction, TLAPS

\* The invariant holds before any call.
LEMMA InitInv == Init => TxInv
<1> SUFFICES ASSUME Init PROVE TxInv
  OBVIOUS
<1>1. /\ depth = 0 /\ pc = "idle" /\ out = "ok" /\ unsure = FALSE /\ tx = "none" /\ cancelled = FALSE
      /\ ender = "none" /\ own = {} /\ tasks = {}
      /\ pending = {} /\ durable = {} /\ written = {}
  BY Zenon DEF Init
<1>2. TypeOK
  <2>1. depth \in 0 .. MaxDepth
    BY <1>1, DepthAssumption
  <2> QED
    BY <1>1, <2>1 DEF TypeOK, Open
<1> QED
  BY <1>1, <1>2 DEF TxInv, StackTx, CommitOwner, Ending, Rows, InFlight, Open, Ended

\* Types are kept by every step.
LEMMA TypeStep == TxInv /\ [Next]_vars => TypeOK'
<1> SUFFICES ASSUME TxInv, [Next]_vars PROVE TypeOK'
  OBVIOUS
<1> USE DepthAssumption DEF TxInv, TypeOK, Open, call, data, flight
<1>1. CASE BeginTx
  <2>1. /\ depth' = 1 /\ pc' = "fn" /\ unsure' = FALSE /\ tx' = "active" /\ ender' = "none" /\ written' = {}
        /\ UNCHANGED <<out, own, tasks, cancelled, pending, durable>>
    BY <1>1, Zenon DEF BeginTx, flight
  <2>2. depth' \in 0 .. MaxDepth
    BY <2>1
  <2> HIDE DepthAssumption
  <2> QED
    BY <2>1, <2>2
<1>2. CASE BeginFails
  BY <1>2 DEF BeginFails
<1>3. CASE BeginNested
  BY <1>3 DEF BeginNested, StackTx
<1>4. CASE CommitNop
  BY <1>4 DEF CommitNop
<1>5. CASE CommitBegin
  BY <1>5 DEF CommitBegin
<1>6. CASE CommitRefused
  BY <1>6 DEF CommitRefused
<1>7. CASE CommitSent
  BY <1>7 DEF CommitSent
<1>8. CASE CommitAborted
  BY <1>8 DEF CommitAborted
<1>9. CASE CommitOk
  BY <1>9 DEF CommitOk
<1>10. CASE RollbackBegin
  BY <1>10 DEF RollbackBegin
<1>11. CASE RollbackSent
  BY <1>11 DEF RollbackSent, RollbackTx
<1>12. CASE RollbackNop
  BY <1>12 DEF RollbackNop
<1>13. CASE Leave
  BY <1>13 DEF Leave, StackTx
<1>14. CASE Cancel
  BY <1>14 DEF Cancel
<1>15. CASE AwaitDone
  BY <1>15 DEF AwaitDone
<1>16. CASE AwaitRollback
  BY <1>16 DEF AwaitRollback, RollbackTx
<1>17. CASE \E k \in Keys : Write(k)
  BY <1>17 DEF Write, Accepts, Fresh
<1>18. CASE \E k \in Keys : TaskWrite(k)
  BY <1>18 DEF TaskWrite, Accepts, Fresh
<1>19. CASE \E k \in Keys : WriteOutside(k)
  BY <1>19 DEF WriteOutside, Apply, Executor, Fresh
<1>20. CASE \E k \in Keys : Written(k)
  BY <1>20 DEF Written, Returns, Apply, Executor
<1>21. CASE \E k \in Keys : NothingWritten(k)
  BY <1>21 DEF NothingWritten, Returns
<1>22. CASE \E k \in Keys : WriteFails(k)
  BY <1>22 DEF WriteFails, Returns
<1>23. CASE \E o \in {"ok", "err", "panic"} : FnReturn(o)
  BY <1>23 DEF FnReturn
<1>24. CASE \E a \in BOOLEAN : CommitLost(a)
  BY <1>24 DEF CommitLost
<1>25. CASE UNCHANGED vars
  BY <1>25 DEF vars
<1> QED
  BY <1>1, <1>2, <1>3, <1>4, <1>5, <1>6, <1>7, <1>8, <1>9, <1>10, <1>11, <1>12, <1>13, <1>14, <1>15, <1>16, <1>17, <1>18, <1>19, <1>20, <1>21, <1>22, <1>23, <1>24, <1>25 DEF Next

\* The call returns only after its transaction has ended or is being rolled back.
LEMMA StackStep == TxInv /\ [Next]_vars => StackTx'
<1> SUFFICES ASSUME TxInv, [Next]_vars PROVE StackTx'
  OBVIOUS
<1> USE DEF TxInv, TypeOK, StackTx, CommitOwner, Ending, Open, Ended, InFlight, call, data, flight
<1>1. CASE BeginTx
  BY <1>1 DEF BeginTx
<1>2. CASE BeginFails
  BY <1>2 DEF BeginFails
<1>3. CASE BeginNested
  BY <1>3 DEF BeginNested
<1>4. CASE CommitNop
  BY <1>4 DEF CommitNop
<1>5. CASE CommitBegin
  BY <1>5 DEF CommitBegin
<1>6. CASE CommitRefused
  BY <1>6 DEF CommitRefused
<1>7. CASE CommitSent
  BY <1>7 DEF CommitSent
<1>8. CASE CommitAborted
  BY <1>8 DEF CommitAborted
<1>9. CASE CommitOk
  BY <1>9 DEF CommitOk
<1>10. CASE RollbackBegin
  BY <1>10 DEF RollbackBegin
<1>11. CASE RollbackSent
  BY <1>11 DEF RollbackSent, RollbackTx
<1>12. CASE RollbackNop
  BY <1>12 DEF RollbackNop
<1>13. CASE Leave
  BY <1>13 DEF Leave
<1>14. CASE Cancel
  BY <1>14 DEF Cancel
<1>15. CASE AwaitDone
  BY <1>15 DEF AwaitDone
<1>16. CASE AwaitRollback
  BY <1>16 DEF AwaitRollback, RollbackTx
<1>17. CASE \E k \in Keys : Write(k)
  BY <1>17 DEF Write, Accepts, Fresh
<1>18. CASE \E k \in Keys : TaskWrite(k)
  BY <1>18 DEF TaskWrite, Accepts, Fresh
<1>19. CASE \E k \in Keys : WriteOutside(k)
  BY <1>19 DEF WriteOutside, Apply, Executor, Fresh
<1>20. CASE \E k \in Keys : Written(k)
  BY <1>20 DEF Written, Returns, Apply, Executor
<1>21. CASE \E k \in Keys : NothingWritten(k)
  BY <1>21 DEF NothingWritten, Returns
<1>22. CASE \E k \in Keys : WriteFails(k)
  BY <1>22 DEF WriteFails, Returns
<1>23. CASE \E o \in {"ok", "err", "panic"} : FnReturn(o)
  BY <1>23 DEF FnReturn
<1>24. CASE \E a \in BOOLEAN : CommitLost(a)
  BY <1>24 DEF CommitLost
<1>25. CASE UNCHANGED vars
  BY <1>25 DEF vars
<1> QED
  BY <1>1, <1>2, <1>3, <1>4, <1>5, <1>6, <1>7, <1>8, <1>9, <1>10, <1>11, <1>12, <1>13, <1>14, <1>15, <1>16, <1>17, <1>18, <1>19, <1>20, <1>21, <1>22, <1>23, <1>24, <1>25 DEF Next

\* A transaction commits only for a call whose function returned nil.
LEMMA OwnerStep == TxInv /\ [Next]_vars => CommitOwner'
<1> SUFFICES ASSUME TxInv, [Next]_vars PROVE CommitOwner'
  OBVIOUS
<1> USE DEF TxInv, TypeOK, StackTx, CommitOwner, Ending, Open, Ended, InFlight, call, data, flight
<1>1. CASE BeginTx
  BY <1>1 DEF BeginTx
<1>2. CASE BeginFails
  BY <1>2 DEF BeginFails
<1>3. CASE BeginNested
  BY <1>3 DEF BeginNested
<1>4. CASE CommitNop
  BY <1>4 DEF CommitNop
<1>5. CASE CommitBegin
  BY <1>5 DEF CommitBegin
<1>6. CASE CommitRefused
  BY <1>6 DEF CommitRefused
<1>7. CASE CommitSent
  BY <1>7 DEF CommitSent
<1>8. CASE CommitAborted
  BY <1>8 DEF CommitAborted
<1>9. CASE CommitOk
  BY <1>9 DEF CommitOk
<1>10. CASE RollbackBegin
  BY <1>10 DEF RollbackBegin
<1>11. CASE RollbackSent
  BY <1>11 DEF RollbackSent, RollbackTx
<1>12. CASE RollbackNop
  BY <1>12 DEF RollbackNop
<1>13. CASE Leave
  BY <1>13 DEF Leave
<1>14. CASE Cancel
  BY <1>14 DEF Cancel
<1>15. CASE AwaitDone
  BY <1>15 DEF AwaitDone
<1>16. CASE AwaitRollback
  BY <1>16 DEF AwaitRollback, RollbackTx
<1>17. CASE \E k \in Keys : Write(k)
  BY <1>17 DEF Write, Accepts, Fresh
<1>18. CASE \E k \in Keys : TaskWrite(k)
  BY <1>18 DEF TaskWrite, Accepts, Fresh
<1>19. CASE \E k \in Keys : WriteOutside(k)
  BY <1>19 DEF WriteOutside, Apply, Executor, Fresh
<1>20. CASE \E k \in Keys : Written(k)
  BY <1>20 DEF Written, Returns, Apply, Executor
<1>21. CASE \E k \in Keys : NothingWritten(k)
  BY <1>21 DEF NothingWritten, Returns
<1>22. CASE \E k \in Keys : WriteFails(k)
  BY <1>22 DEF WriteFails, Returns
<1>23. CASE \E o \in {"ok", "err", "panic"} : FnReturn(o)
  BY <1>23 DEF FnReturn
<1>24. CASE \E a \in BOOLEAN : CommitLost(a)
  BY <1>24 DEF CommitLost
<1>25. CASE UNCHANGED vars
  BY <1>25 DEF vars
<1> QED
  BY <1>1, <1>2, <1>3, <1>4, <1>5, <1>6, <1>7, <1>8, <1>9, <1>10, <1>11, <1>12, <1>13, <1>14, <1>15, <1>16, <1>17, <1>18, <1>19, <1>20, <1>21, <1>22, <1>23, <1>24, <1>25 DEF Next

\* A transaction is ended by whoever marked it done, after its statements.
LEMMA EndingStep == TxInv /\ [Next]_vars => Ending'
<1> SUFFICES ASSUME TxInv, [Next]_vars PROVE Ending'
  OBVIOUS
<1> USE DEF TxInv, TypeOK, StackTx, CommitOwner, Ending, Rows, Open, Ended, InFlight, call, data, flight
<1>1. CASE BeginTx
  BY <1>1 DEF BeginTx
<1>2. CASE BeginFails
  BY <1>2 DEF BeginFails
<1>3. CASE BeginNested
  BY <1>3 DEF BeginNested
<1>4. CASE CommitNop
  BY <1>4 DEF CommitNop
<1>5. CASE CommitBegin
  BY <1>5 DEF CommitBegin
<1>6. CASE CommitRefused
  BY <1>6 DEF CommitRefused
<1>7. CASE CommitSent
  BY <1>7 DEF CommitSent
<1>8. CASE CommitAborted
  BY <1>8 DEF CommitAborted
<1>9. CASE CommitOk
  BY <1>9 DEF CommitOk
<1>10. CASE RollbackBegin
  BY <1>10 DEF RollbackBegin
<1>11. CASE RollbackSent
  BY <1>11 DEF RollbackSent, RollbackTx
<1>12. CASE RollbackNop
  BY <1>12 DEF RollbackNop
<1>13. CASE Leave
  BY <1>13 DEF Leave
<1>14. CASE Cancel
  BY <1>14 DEF Cancel
<1>15. CASE AwaitDone
  BY <1>15 DEF AwaitDone
<1>16. CASE AwaitRollback
  BY <1>16 DEF AwaitRollback, RollbackTx
<1>17. CASE \E k \in Keys : Write(k)
  BY <1>17 DEF Write, Accepts, Fresh
<1>18. CASE \E k \in Keys : TaskWrite(k)
  BY <1>18 DEF TaskWrite, Accepts, Fresh
<1>19. CASE \E k \in Keys : WriteOutside(k)
  BY <1>19 DEF WriteOutside, Apply, Executor, Fresh
<1>20. CASE \E k \in Keys : Written(k)
  BY <1>20 DEF Written, Returns, Apply, Executor
<1>21. CASE \E k \in Keys : NothingWritten(k)
  BY <1>21 DEF NothingWritten, Returns
<1>22. CASE \E k \in Keys : WriteFails(k)
  BY <1>22 DEF WriteFails, Returns
<1>23. CASE \E o \in {"ok", "err", "panic"} : FnReturn(o)
  BY <1>23 DEF FnReturn
<1>24. CASE \E a \in BOOLEAN : CommitLost(a)
  BY <1>24 DEF CommitLost
<1>25. CASE UNCHANGED vars
  BY <1>25 DEF vars
<1> QED
  BY <1>1, <1>2, <1>3, <1>4, <1>5, <1>6, <1>7, <1>8, <1>9, <1>10, <1>11, <1>12, <1>13, <1>14, <1>15, <1>16, <1>17, <1>18, <1>19, <1>20, <1>21, <1>22, <1>23, <1>24, <1>25 DEF Next

\* The rows are pending, durable or gone, all together.
LEMMA RowsStep == TxInv /\ [Next]_vars => Rows'
<1> SUFFICES ASSUME TxInv, [Next]_vars PROVE Rows'
  OBVIOUS
<1> USE DEF TxInv, TypeOK, StackTx, CommitOwner, Ending, Rows, Open, Ended, InFlight, call, data, flight
<1>1. CASE BeginTx
  BY <1>1 DEF BeginTx
<1>2. CASE BeginFails
  BY <1>2 DEF BeginFails
<1>3. CASE BeginNested
  BY <1>3 DEF BeginNested
<1>4. CASE CommitNop
  BY <1>4 DEF CommitNop
<1>5. CASE CommitBegin
  BY <1>5 DEF CommitBegin
<1>6. CASE CommitRefused
  BY <1>6 DEF CommitRefused
<1>7. CASE CommitSent
  BY <1>7 DEF CommitSent
<1>8. CASE CommitAborted
  BY <1>8 DEF CommitAborted
<1>9. CASE CommitOk
  BY <1>9 DEF CommitOk
<1>10. CASE RollbackBegin
  BY <1>10 DEF RollbackBegin
<1>11. CASE RollbackSent
  BY <1>11 DEF RollbackSent, RollbackTx
<1>12. CASE RollbackNop
  BY <1>12 DEF RollbackNop
<1>13. CASE Leave
  BY <1>13 DEF Leave
<1>14. CASE Cancel
  BY <1>14 DEF Cancel
<1>15. CASE AwaitDone
  BY <1>15 DEF AwaitDone
<1>16. CASE AwaitRollback
  BY <1>16 DEF AwaitRollback, RollbackTx
<1>17. CASE \E k \in Keys : Write(k)
  BY <1>17 DEF Write, Accepts, Fresh
<1>18. CASE \E k \in Keys : TaskWrite(k)
  BY <1>18 DEF TaskWrite, Accepts, Fresh
<1>19. CASE \E k \in Keys : WriteOutside(k)
  BY <1>19 DEF WriteOutside, Apply, Executor, Fresh
<1>20. CASE \E k \in Keys : Written(k)
  BY <1>20 DEF Written, Returns, Apply, Executor
<1>21. CASE \E k \in Keys : NothingWritten(k)
  BY <1>21 DEF NothingWritten, Returns
<1>22. CASE \E k \in Keys : WriteFails(k)
  BY <1>22 DEF WriteFails, Returns
<1>23. CASE \E o \in {"ok", "err", "panic"} : FnReturn(o)
  BY <1>23 DEF FnReturn
<1>24. CASE \E a \in BOOLEAN : CommitLost(a)
  BY <1>24 DEF CommitLost
<1>25. CASE UNCHANGED vars
  BY <1>25 DEF vars
<1> QED
  BY <1>1, <1>2, <1>3, <1>4, <1>5, <1>6, <1>7, <1>8, <1>9, <1>10, <1>11, <1>12, <1>13, <1>14, <1>15, <1>16, <1>17, <1>18, <1>19, <1>20, <1>21, <1>22, <1>23, <1>24, <1>25 DEF Next

\* Stack, transaction and rows hang together in every reachable state.
THEOREM TransactionInvariant == Spec => []TxInv
<1>1. TxInv /\ [Next]_vars => TxInv'
  BY TypeStep, StackStep, OwnerStep, EndingStep, RowsStep DEF TxInv
<1> QED
  BY InitInv, <1>1, PTL DEF Spec

\* Storer.Transaction is all or nothing, whatever its function and the
\* goroutines it started do, wherever they nest, panic or are cancelled.
THEOREM TransactionIsAtomic == Spec => []AtomicOutcome
<1>1. TxInv => AtomicOutcome
  BY DEF TxInv, TypeOK, StackTx, CommitOwner, Ending, Rows, AtomicOutcome, Open, Ended
<1> QED
  BY TransactionInvariant, <1>1, PTL

\* Nothing is visible outside before the outermost function returned nil.
THEOREM NoEarlyPublication == Spec => []NothingDurableEarly
<1>1. TxInv => NothingDurableEarly
  BY DEF TxInv, CommitOwner, Rows, NothingDurableEarly
<1> QED
  BY TransactionInvariant, <1>1, PTL

\* Transaction never returns with its sql.Tx open, unless the context is done
\* and database/sql is rolling it back.
THEOREM TransactionEndsItsTx == Spec => []NoTxLeft
<1>1. TxInv => NoTxLeft
  BY DEF TxInv, TypeOK, StackTx, Ending, NoTxLeft, Ended, Open
<1> QED
  BY TransactionInvariant, <1>1, PTL

\* What the refinement mapping says of a transaction that is open, of one that
\* is only to be rolled back and of one that is over, and of a call that runs.
LEMMA UnitValues ==
  ASSUME TxInv
  PROVE  /\ tx = "none" => Unit = "none" /\ Held = {}
         /\ tx = "committing" => Unit = "open" /\ Held = pending
         /\ tx \in {"active", "aborted"} /\ ender \in {"none", "commit"} => Unit = "open" /\ Held = pending
         /\ tx \in {"active", "aborted"} /\ ender \in {"await", "rollback"} => Unit = "dropped" /\ Held = {}
         /\ tx = "committed" => Unit = "kept" /\ Held = {}
         /\ tx = "rolledback" => Unit = "dropped" /\ Held = {}
         /\ pc # "idle" => Told = "running"
         /\ pc = "idle" => Told = IF unsure THEN "unsure"
                                  ELSE IF tx = "none" /\ out = "ok" THEN "none" ELSE out
BY DEF TxInv, TypeOK, Unit, Held, Dropping, Told, Open

\* The same after a step.
LEMMA UnitValuesNext ==
  ASSUME TxInv'
  PROVE  /\ tx' = "none" => Unit' = "none" /\ Held' = {}
         /\ tx' = "committing" => Unit' = "open" /\ Held' = pending'
         /\ tx' \in {"active", "aborted"} /\ ender' \in {"none", "commit"} => Unit' = "open" /\ Held' = pending'
         /\ tx' \in {"active", "aborted"} /\ ender' \in {"await", "rollback"} => Unit' = "dropped" /\ Held' = {}
         /\ tx' = "committed" => Unit' = "kept" /\ Held' = {}
         /\ tx' = "rolledback" => Unit' = "dropped" /\ Held' = {}
         /\ pc' # "idle" => Told' = "running"
         /\ pc' = "idle" => Told' = IF unsure' THEN "unsure"
                                  ELSE IF tx' = "none" /\ out' = "ok" THEN "none" ELSE out'
BY DEF TxInv, TypeOK, Unit, Held, Dropping, Told, Open

\* Every step of Storer.Transaction, of its function, of a goroutine or of
\* database/sql is a step of a unit of work, or shows nothing.
LEMMA UnitStep == TxInv /\ TxInv' /\ [Next]_vars => U!Next \/ UNCHANGED U!vars
<1> SUFFICES ASSUME TxInv, TxInv', [Next]_vars PROVE U!Next \/ UNCHANGED U!vars
  OBVIOUS
<1> USE UnitValues, UnitValuesNext DEF TxInv, TypeOK, StackTx, CommitOwner, Ending, Rows, Open, Ended, InFlight, call, data, flight
<1> USE DEF U!vars, U!Next
<1>1. CASE BeginTx
  <2>1. U!Begin
    BY <1>1 DEF BeginTx, U!Begin
  <2> QED
    BY <2>1
<1>2. CASE BeginFails
  <2>1. U!Refuse
    BY <1>2 DEF BeginFails, U!Refuse
  <2> QED
    BY <2>1
<1>3. CASE BeginNested
  BY <1>3 DEF BeginNested
<1>4. CASE CommitNop
  BY <1>4 DEF CommitNop
<1>5. CASE CommitBegin
  BY <1>5 DEF CommitBegin
<1>6. CASE CommitRefused
  BY <1>6 DEF CommitRefused
<1>7. CASE CommitSent
  BY <1>7 DEF CommitSent
<1>8. CASE CommitAborted
  <2>1. U!Drop
    BY <1>8 DEF CommitAborted, U!Drop
  <2> QED
    BY <2>1
<1>9. CASE CommitOk
  <2>1. U!Keep
    BY <1>9 DEF CommitOk, U!Keep
  <2> QED
    BY <2>1
<1>10. CASE RollbackBegin
  <2>1. U!Drop
    BY <1>10 DEF RollbackBegin, U!Drop
  <2> QED
    BY <2>1
<1>11. CASE RollbackSent
  BY <1>11 DEF RollbackSent, RollbackTx
<1>12. CASE RollbackNop
  BY <1>12 DEF RollbackNop
<1>13. CASE Leave
  <2>1. CASE depth = 1
    <3>1. Told' \in {"ok", "err", "panic", "unsure"} /\ U!Return(Told')
      BY <1>13, <2>1 DEF Leave, U!Return
    <3> QED
      BY <3>1
  <2>2. CASE depth # 1
    BY <1>13, <2>2 DEF Leave
  <2> QED
    BY <2>1, <2>2
<1>14. CASE Cancel
  BY <1>14 DEF Cancel
<1>15. CASE AwaitDone
  <2>1. U!Drop
    BY <1>15 DEF AwaitDone, U!Drop
  <2> QED
    BY <2>1
<1>16. CASE AwaitRollback
  BY <1>16 DEF AwaitRollback, RollbackTx
<1>17. ASSUME NEW k \in Keys, Write(k) \/ TaskWrite(k) PROVE UNCHANGED U!vars
  BY <1>17 DEF Write, TaskWrite
<1>18. ASSUME NEW k \in Keys, Written(k) PROVE U!Next \/ UNCHANGED U!vars
  <2>1. CASE ender \in {"none", "commit"}
    <3>1. U!Put(k)
      BY <1>18, <2>1 DEF Written, Returns, Apply, Executor, U!Put
    <3> QED
      BY <3>1
  <2>2. CASE ender \in {"await", "rollback"}
    BY <1>18, <2>2 DEF Written, Returns, Apply, Executor
  <2> QED
    BY <2>1, <2>2
<1>19. ASSUME NEW k \in Keys, NothingWritten(k) \/ WriteFails(k) PROVE UNCHANGED U!vars
  BY <1>19 DEF NothingWritten, WriteFails, Returns
<1>20. ASSUME NEW k \in Keys, WriteOutside(k) PROVE U!Next
  <2>1. U!PutOutside(k)
    BY <1>20 DEF WriteOutside, Apply, Executor, Fresh, U!PutOutside
  <2> QED
    BY <2>1
<1>21. CASE \E o \in {"ok", "err", "panic"} : FnReturn(o)
  BY <1>21 DEF FnReturn
<1>22. ASSUME NEW a \in BOOLEAN, CommitLost(a) PROVE U!Next
  <2>1. CASE a = TRUE
    <3>1. U!Keep
      BY <1>22, <2>1 DEF CommitLost, U!Keep
    <3> QED
      BY <3>1
  <2>2. CASE a = FALSE
    <3>1. U!Drop
      BY <1>22, <2>2 DEF CommitLost, U!Drop
    <3> QED
      BY <3>1
  <2> QED
    BY <2>1, <2>2
<1>23. CASE UNCHANGED vars
  BY <1>23 DEF vars, Unit, Held, Dropping, Told
<1> HIDE UnitValues, UnitValuesNext DEF TxInv, U!Next, U!vars
<1> QED
  BY <1>1, <1>2, <1>3, <1>4, <1>5, <1>6, <1>7, <1>8, <1>9, <1>10, <1>11, <1>12, <1>13, <1>14, <1>15, <1>16, <1>17, <1>18, <1>19, <1>20, <1>21, <1>22, <1>23 DEF Next

\* Storer.Transaction implements a unit of work: its rows become visible in one
\* step or never, and what it returns says which.
THEOREM TransactionImplementsUnitOfWork == Spec => ImplementsUnitOfWork
<1>1. Init => U!Init
  BY DEF Init, U!Init, Unit, Held, Told, Open
<1> QED
  BY <1>1, UnitStep, TransactionInvariant, PTL DEF Spec, ImplementsUnitOfWork, U!Spec

============================================================================
