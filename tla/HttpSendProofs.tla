--------------------------- MODULE HttpSendProofs ---------------------------
(***************************************************************************)
(* Send for any number of retries and rotations of the token: SendInv is   *)
(* inductive, and the safety properties of the run follow from it.         *)
(***************************************************************************)
EXTENDS HttpSend, TLAPS

\* The invariant holds before Send is called.
LEMMA InitInv == Init => SendInv
<1> SUFFICES ASSUME Init PROVE SendInv
  OBVIOUS
<1>1. /\ req \in Requests /\ pc = "new" /\ attempt = 0
      /\ callerDone = FALSE /\ expired = FALSE /\ released = FALSE
      /\ version = 0 /\ token = 0 /\ rotatedBy = 0
      /\ reqBody = "unset" /\ whole = TRUE /\ applied = 0
      /\ answer = "none" /\ body = "none" /\ dropped = FALSE
      /\ result = "none" /\ read = "none"
  BY Zenon DEF Init
<1>2. TypeOK
  <2>1. attempt \in 0 .. MaxRetries /\ applied \in 0 .. MaxRetries + 1
    BY <1>1, RetryAssumption
  <2>2. version \in 0 .. MaxRotations /\ token \in 0 .. version /\ rotatedBy \in 0 .. version
    BY <1>1, RetryAssumption
  <2> QED
    BY <1>1, <2>1, <2>2 DEF TypeOK, Answers
<1> QED
  BY <1>1, <1>2 DEF SendInv, Attempts, RequestBody, Token, ResponseBody, Early, Gone

\* Every step keeps the types: the counters stay within their bounds because
\* another attempt is made only where a retry is left.
LEMMA TypeStep == SendInv /\ [Next]_vars => TypeOK'
<1> SUFFICES ASSUME SendInv, [Next]_vars PROVE TypeOK'
  OBVIOUS
<1> USE RetryAssumption DEF SendInv, TypeOK, Requests, Answers, conn, auth, sent, got, out
<1>1. CASE BuildFails
  BY <1>1 DEF BuildFails
<1>2. CASE ApplyBody
  BY <1>2 DEF ApplyBody, Goto
<1>3. CASE RunBefore
  BY <1>3 DEF RunBefore, Goto, Return, Abort
<1>4. CASE InjectAuth
  BY <1>4 DEF InjectAuth, ReadToken, Goto, Return, Abort
<1>5. CASE Do
  BY <1>5 DEF Do, Goto
<1>6. CASE \E a \in Answers, p \in BOOLEAN : DoReturns(a, p)
  BY <1>6 DEF DoReturns, Goto, Answers, Attempts, Early
<1>7. CASE RetryCancelled
  BY <1>7 DEF RetryCancelled, Return, CtxDone, LastAttempt
<1>8. CASE BackOff
  BY <1>8 DEF BackOff, Goto, LastAttempt
<1>9. CASE LeaveLoop
  BY <1>9 DEF LeaveLoop, Goto, Return
<1>10. CASE SleepFires
  BY <1>10 DEF SleepFires, Goto, Attempts, Early
<1>11. CASE SleepInterrupted
  BY <1>11 DEF SleepInterrupted, Return
<1>12. CASE Rewind
  BY <1>12 DEF Rewind, ReadToken, Goto, Return
<1>13. CASE HandleResponse
  BY <1>13 DEF HandleResponse, Goto, Return
<1>14. CASE RunAfter
  BY <1>14 DEF RunAfter, Return
<1>15. CASE ReadBody
  BY <1>15 DEF ReadBody
<1>16. CASE Close
  BY <1>16 DEF Close
<1>17. CASE Rotate
  BY <1>17 DEF Rotate
<1>18. CASE Cancel
  BY <1>18 DEF Cancel
<1>19. CASE Expire
  BY <1>19 DEF Expire
<1>20. CASE UNCHANGED vars
  BY <1>20 DEF vars
<1> QED
  BY <1>1, <1>2, <1>3, <1>4, <1>5, <1>6, <1>7, <1>8, <1>9, <1>10, <1>11, <1>12, <1>13, <1>14, <1>15,
     <1>16, <1>17, <1>18, <1>19, <1>20 DEF Next, Over

\* doWithRetry makes a further attempt only where a retry is allowed, and
\* no attempt is processed twice.
LEMMA AttemptsStep == SendInv /\ [Next]_vars => Attempts'
<1> SUFFICES ASSUME SendInv, [Next]_vars PROVE Attempts'
  OBVIOUS
<1> USE RetryAssumption DEF SendInv, TypeOK, Attempts, CanRetry, Replayable, Early, conn, auth, sent, got, out
<1>1. CASE BuildFails
  BY <1>1 DEF BuildFails
<1>2. CASE ApplyBody
  BY <1>2 DEF ApplyBody, Goto
<1>3. CASE RunBefore
  BY <1>3 DEF RunBefore, Goto, Return, Abort
<1>4. CASE InjectAuth
  BY <1>4 DEF InjectAuth, ReadToken, Goto, Return, Abort
<1>5. CASE Do
  BY <1>5 DEF Do, Goto
<1>6. CASE \E a \in Answers, p \in BOOLEAN : DoReturns(a, p)
  BY <1>6 DEF DoReturns, Goto, Answers
<1>7. CASE RetryCancelled
  BY <1>7 DEF RetryCancelled, Return, CtxDone, LastAttempt
<1>8. CASE BackOff
  BY <1>8 DEF BackOff, Goto, LastAttempt
<1>9. CASE LeaveLoop
  BY <1>9 DEF LeaveLoop, Goto, Return
<1>10. CASE SleepFires
  BY <1>10 DEF SleepFires, Goto
<1>11. CASE SleepInterrupted
  BY <1>11 DEF SleepInterrupted, Return
<1>12. CASE Rewind
  BY <1>12 DEF Rewind, ReadToken, Goto, Return
<1>13. CASE HandleResponse
  BY <1>13 DEF HandleResponse, Goto, Return
<1>14. CASE RunAfter
  BY <1>14 DEF RunAfter, Return
<1>15. CASE ReadBody
  BY <1>15 DEF ReadBody
<1>16. CASE Close
  BY <1>16 DEF Close
<1>17. CASE Rotate
  BY <1>17 DEF Rotate
<1>18. CASE Cancel
  BY <1>18 DEF Cancel
<1>19. CASE Expire
  BY <1>19 DEF Expire
<1>20. CASE UNCHANGED vars
  BY <1>20 DEF vars
<1> QED
  BY <1>1, <1>2, <1>3, <1>4, <1>5, <1>6, <1>7, <1>8, <1>9, <1>10, <1>11, <1>12, <1>13, <1>14, <1>15,
     <1>16, <1>17, <1>18, <1>19, <1>20 DEF Next, Over

\* The request body is handed over whole at every attempt: a body that
\* cannot be rewound is never sent again.
LEMMA RequestBodyStep == SendInv /\ [Next]_vars => RequestBody'
<1> SUFFICES ASSUME SendInv, [Next]_vars PROVE RequestBody'
  OBVIOUS
<1> USE DEF SendInv, TypeOK, RequestBody, Early, Gone, conn, auth, sent, got, out
<1>1. CASE BuildFails
  BY <1>1 DEF BuildFails
<1>2. CASE ApplyBody
  BY <1>2 DEF ApplyBody, Goto
<1>3. CASE RunBefore
  BY <1>3 DEF RunBefore, Goto, Return, Abort
<1>4. CASE InjectAuth
  BY <1>4 DEF InjectAuth, ReadToken, Goto, Return, Abort
<1>5. CASE Do
  BY <1>5 DEF Do, Goto
<1>6. CASE \E a \in Answers, p \in BOOLEAN : DoReturns(a, p)
  BY <1>6 DEF DoReturns, Goto, Answers
<1>7. CASE RetryCancelled
  BY <1>7 DEF RetryCancelled, Return, CtxDone, LastAttempt
<1>8. CASE BackOff
  BY <1>8 DEF BackOff, Goto, LastAttempt
<1>9. CASE LeaveLoop
  BY <1>9 DEF LeaveLoop, Goto, Return
<1>10. CASE SleepFires
  BY <1>10 DEF SleepFires, Goto
<1>11. CASE SleepInterrupted
  BY <1>11 DEF SleepInterrupted, Return
<1>12. CASE Rewind
  BY <1>12 DEF Rewind, ReadToken, Goto, Return, Attempts, CanRetry, Replayable, Requests
<1>13. CASE HandleResponse
  BY <1>13 DEF HandleResponse, Goto, Return
<1>14. CASE RunAfter
  BY <1>14 DEF RunAfter, Return
<1>15. CASE ReadBody
  BY <1>15 DEF ReadBody
<1>16. CASE Close
  BY <1>16 DEF Close
<1>17. CASE Rotate
  BY <1>17 DEF Rotate
<1>18. CASE Cancel
  BY <1>18 DEF Cancel
<1>19. CASE Expire
  BY <1>19 DEF Expire
<1>20. CASE UNCHANGED vars
  BY <1>20 DEF vars
<1> QED
  BY <1>1, <1>2, <1>3, <1>4, <1>5, <1>6, <1>7, <1>8, <1>9, <1>10, <1>11, <1>12, <1>13, <1>14, <1>15,
     <1>16, <1>17, <1>18, <1>19, <1>20 DEF Next, Over

\* The token is read after the last answer came back.
LEMMA TokenStep == SendInv /\ [Next]_vars => Token'
<1> SUFFICES ASSUME SendInv, [Next]_vars PROVE Token'
  OBVIOUS
<1> USE DEF SendInv, TypeOK, Token, conn, auth, sent, got, out
<1>1. CASE BuildFails
  BY <1>1 DEF BuildFails
<1>2. CASE ApplyBody
  BY <1>2 DEF ApplyBody, Goto
<1>3. CASE RunBefore
  BY <1>3 DEF RunBefore, Goto, Return, Abort
<1>4. CASE InjectAuth
  BY <1>4 DEF InjectAuth, ReadToken, Goto, Return, Abort
<1>5. CASE Do
  BY <1>5 DEF Do, Goto
<1>6. CASE \E a \in Answers, p \in BOOLEAN : DoReturns(a, p)
  BY <1>6 DEF DoReturns, Goto, Answers
<1>7. CASE RetryCancelled
  BY <1>7 DEF RetryCancelled, Return, CtxDone, LastAttempt
<1>8. CASE BackOff
  BY <1>8 DEF BackOff, Goto, LastAttempt
<1>9. CASE LeaveLoop
  BY <1>9 DEF LeaveLoop, Goto, Return
<1>10. CASE SleepFires
  BY <1>10 DEF SleepFires, Goto
<1>11. CASE SleepInterrupted
  BY <1>11 DEF SleepInterrupted, Return
<1>12. CASE Rewind
  BY <1>12 DEF Rewind, ReadToken, Goto, Return
<1>13. CASE HandleResponse
  BY <1>13 DEF HandleResponse, Goto, Return
<1>14. CASE RunAfter
  BY <1>14 DEF RunAfter, Return
<1>15. CASE ReadBody
  BY <1>15 DEF ReadBody
<1>16. CASE Close
  BY <1>16 DEF Close
<1>17. CASE Rotate
  BY <1>17 DEF Rotate
<1>18. CASE Cancel
  BY <1>18 DEF Cancel
<1>19. CASE Expire
  BY <1>19 DEF Expire
<1>20. CASE UNCHANGED vars
  BY <1>20 DEF vars
<1> QED
  BY <1>1, <1>2, <1>3, <1>4, <1>5, <1>6, <1>7, <1>8, <1>9, <1>10, <1>11, <1>12, <1>13, <1>14, <1>15,
     <1>16, <1>17, <1>18, <1>19, <1>20 DEF Next, Over

\* A response is closed before the next attempt, and one that is left open
\* is the caller's or belongs to a context that is done.
LEMMA ResponseBodyStep == SendInv /\ [Next]_vars => ResponseBody'
<1> SUFFICES ASSUME SendInv, [Next]_vars PROVE ResponseBody'
  OBVIOUS
<1> USE DEF SendInv, TypeOK, ResponseBody, CtxDone, Gone, conn, auth, sent, got, out
<1>1. CASE BuildFails
  BY <1>1 DEF BuildFails
<1>2. CASE ApplyBody
  BY <1>2 DEF ApplyBody, Goto
<1>3. CASE RunBefore
  BY <1>3 DEF RunBefore, Goto, Return, Abort
<1>4. CASE InjectAuth
  BY <1>4 DEF InjectAuth, ReadToken, Goto, Return, Abort
<1>5. CASE Do
  BY <1>5 DEF Do, Goto
<1>6. CASE \E a \in Answers, p \in BOOLEAN : DoReturns(a, p)
  BY <1>6 DEF DoReturns, Goto, Answers
<1>7. CASE RetryCancelled
  BY <1>7 DEF RetryCancelled, Return, CtxDone, LastAttempt
<1>8. CASE BackOff
  BY <1>8 DEF BackOff, Goto, LastAttempt
<1>9. CASE LeaveLoop
  BY <1>9 DEF LeaveLoop, Goto, Return
<1>10. CASE SleepFires
  BY <1>10 DEF SleepFires, Goto
<1>11. CASE SleepInterrupted
  BY <1>11 DEF SleepInterrupted, Return
<1>12. CASE Rewind
  BY <1>12 DEF Rewind, ReadToken, Goto, Return
<1>13. CASE HandleResponse
  BY <1>13 DEF HandleResponse, Goto, Return
<1>14. CASE RunAfter
  BY <1>14 DEF RunAfter, Return
<1>15. CASE ReadBody
  BY <1>15 DEF ReadBody
<1>16. CASE Close
  BY <1>16 DEF Close
<1>17. CASE Rotate
  BY <1>17 DEF Rotate
<1>18. CASE Cancel
  BY <1>18 DEF Cancel
<1>19. CASE Expire
  BY <1>19 DEF Expire
<1>20. CASE UNCHANGED vars
  BY <1>20 DEF vars
<1> QED
  BY <1>1, <1>2, <1>3, <1>4, <1>5, <1>6, <1>7, <1>8, <1>9, <1>10, <1>11, <1>12, <1>13, <1>14, <1>15,
     <1>16, <1>17, <1>18, <1>19, <1>20 DEF Next, Over

-----------------------------------------------------------------------------

\* SendInv holds in every reachable state, whatever the retry policy: types,
\* attempts, token and both bodies stay consistent (request.go Send and
\* execute, retry.go doWithRetry).
THEOREM SendInvariant == Spec => []SendInv
<1>1. SendInv /\ [Next]_vars => SendInv'
  BY TypeStep, AttemptsStep, RequestBodyStep, TokenStep, ResponseBodyStep DEF SendInv
<1> QED
  BY <1>1, InitInv, PTL DEF Spec

\* doWithRetry never repeats a request the server may have processed unless
\* that is safe: more than one attempt was counted, so a retry was allowed.
THEOREM RetriesAreSafe == Spec => []AppliedOnceUnlessSafe
<1>1. SendInv => AppliedOnceUnlessSafe
  <2> SUFFICES ASSUME SendInv, applied > 1 PROVE CanRetry
    BY DEF AppliedOnceUnlessSafe, CanRetry, Replayable, SendInv, TypeOK, Requests
  <2> QED
    BY DEF SendInv, TypeOK, Attempts
<1> QED
  BY <1>1, SendInvariant, PTL

\* No attempt of doWithRetry goes out with a body that is already drained.
THEOREM EveryBodyWhole == Spec => []BodiesSentWhole
<1>1. SendInv => BodiesSentWhole
  BY DEF SendInv, RequestBody, BodiesSentWhole
<1> QED
  BY <1>1, SendInvariant, PTL

\* injectAuth: no attempt carries a token older than the one in the source
\* when the previous answer came back.
THEOREM TokensAreFresh == Spec => []TokenIsFresh
<1>1. SendInv => TokenIsFresh
  BY DEF SendInv, Token, TokenIsFresh
<1> QED
  BY <1>1, SendInvariant, PTL

\* doWithRetry and handleResponse lose no open response body.
THEOREM NoBodyLost == Spec => []NoOrphanBody
<1>1. SendInv => NoOrphanBody
  BY DEF SendInv, ResponseBody, NoOrphanBody, Gone
<1> QED
  BY <1>1, SendInvariant, PTL

\* execute closes a stream it took over, on every way out of Send.
THEOREM StreamsReleased == Spec => []StreamReleased
<1>1. SendInv => StreamReleased
  BY DEF SendInv, RequestBody, StreamReleased, Gone
<1> QED
  BY <1>1, SendInvariant, PTL

\* The deferred cancel ends a context only where Send derived one, and a read
\* is cut short only by a context that is done.
CancelExtent ==
  /\ released => req.derived
  /\ read = "cancelled" => CtxDone

\* How far the finding about Response's body reaches: a request for which Send
\* derives no timeout of its own, because it has none or the caller's deadline
\* is earlier, returns a body that stays readable.
THEOREM ReadableWithoutTimeout == Spec => [](~req.derived => BodyStaysReadable)
<1>1. Init => CancelExtent
  BY DEF Init, CancelExtent
<1>2. SendInv /\ CancelExtent /\ [Next]_vars => CancelExtent'
  <2> SUFFICES ASSUME SendInv, CancelExtent, [Next]_vars PROVE CancelExtent'
    OBVIOUS
  <2> USE DEF SendInv, TypeOK, Requests, CancelExtent, CtxDone, conn, auth, sent, got, out
  <2>1. CASE BuildFails
    BY <2>1 DEF BuildFails
  <2>2. CASE ApplyBody
    BY <2>2 DEF ApplyBody, Goto
  <2>3. CASE RunBefore
    BY <2>3 DEF RunBefore, Goto, Return
  <2>4. CASE InjectAuth
    BY <2>4 DEF InjectAuth, Goto, Return
  <2>5. CASE Do
    BY <2>5 DEF Do, Goto
  <2>6. CASE \E a \in Answers, p \in BOOLEAN : DoReturns(a, p)
    BY <2>6 DEF DoReturns, Goto
  <2>7. CASE RetryCancelled
    BY <2>7 DEF RetryCancelled, Return
  <2>8. CASE BackOff
    BY <2>8 DEF BackOff, Goto
  <2>9. CASE LeaveLoop
    BY <2>9 DEF LeaveLoop, Goto, Return
  <2>10. CASE SleepFires
    BY <2>10 DEF SleepFires, Goto
  <2>11. CASE SleepInterrupted
    BY <2>11 DEF SleepInterrupted, Return
  <2>12. CASE Rewind
    BY <2>12 DEF Rewind, Goto, Return
  <2>13. CASE HandleResponse
    BY <2>13 DEF HandleResponse, Goto, Return
  <2>14. CASE RunAfter
    BY <2>14 DEF RunAfter, Return
  <2>15. CASE ReadBody
    BY <2>15 DEF ReadBody
  <2>16. CASE Close
    BY <2>16 DEF Close
  <2>17. CASE Rotate
    BY <2>17 DEF Rotate
  <2>18. CASE Cancel
    BY <2>18 DEF Cancel
  <2>19. CASE Expire
    BY <2>19 DEF Expire
  <2>20. CASE UNCHANGED vars
    BY <2>20 DEF vars
  <2> QED
    BY <2>1, <2>2, <2>3, <2>4, <2>5, <2>6, <2>7, <2>8, <2>9, <2>10, <2>11, <2>12, <2>13, <2>14,
       <2>15, <2>16, <2>17, <2>18, <2>19, <2>20 DEF Next, Over
<1>3. CancelExtent => (~req.derived => BodyStaysReadable)
  BY DEF CancelExtent, BodyStaysReadable, CtxDone
<1> QED
  BY <1>1, <1>2, <1>3, SendInvariant, PTL DEF Spec
=============================================================================
