--------------------------- MODULE ServiceProofs ---------------------------
(***************************************************************************)
(* The server and the service for any number of requests and providers.    *)
(* The server's invariant is proved of RestServer's own specification,     *)
(* with or without a hook; the service is shown to implement it, so what   *)
(* holds of the server holds of the service.                               *)
(***************************************************************************)
EXTENDS Service, TLAPS

-----------------------------------------------------------------------------
(* The server.                                                             *)

\* Listen starts with the invariant.
LEMMA ServerInit == Init => ServerInv
<1> SUFFICES ASSUME Init PROVE ServerInv
  OBVIOUS
<1>1. errCh = <<>> /\ errCh \in Seq(Errors) /\ Len(errCh) <= ErrChCap
  BY DEF Init, ErrChCap
<1>2. TypeOK
  BY <1>1 DEF Init, TypeOK, Errors
<1> QED
  BY <1>2 DEF Init, ServerInv

\* Every step of the server keeps the types; errCh never holds more than it
\* has room for.
LEMMA ServerTypeStep == ServerInv /\ [Next]_vars => TypeOK'
<1> SUFFICES ASSUME ServerInv, [Next]_vars PROVE TypeOK'
  OBVIOUS
<1> USE DEF ServerInv, TypeOK, ErrChCap, Errors, channel, server
<1>1. CASE ServeStart
  BY <1>1 DEF ServeStart, InnerMove
<1>2. CASE BindOk
  BY <1>2 DEF BindOk, InnerMove
<1>3. CASE BindFail
  BY <1>3 DEF BindFail, InnerMove
<1>4. CASE AcceptFail
  BY <1>4 DEF AcceptFail, InnerMove
<1>5. CASE ServeClosed
  BY <1>5 DEF ServeClosed, InnerMove
<1>6. CASE ReportServe
  <2>1. CASE Send("serve") /\ inner' = "exited" /\ UNCHANGED crashed
    <3>1. errCh' \in Seq(Errors) /\ Len(errCh') <= ErrChCap
      BY <2>1 DEF Send
    <3> QED
      BY <1>6, <2>1, <3>1 DEF ReportServe, Send
  <2>2. CASE closed /\ crashed' = TRUE /\ UNCHANGED <<inner, channel>>
    BY <1>6, <2>2 DEF ReportServe
  <2> QED
    BY <1>6, <2>1, <2>2 DEF ReportServe
<1>7. CASE CtxDone
  BY <1>7 DEF CtxDone, OuterMove
<1>8. CASE ShutdownBegin
  BY <1>8 DEF ShutdownBegin
<1>9. CASE ShutdownReturn
  BY <1>9 DEF ShutdownReturn, OuterMove
<1>10. CASE ReportShutdown
  BY <1>10 DEF ReportShutdown, OuterMove, Send
<1>11. CASE CloseErrCh
  BY <1>11 DEF CloseErrCh, OuterMove
<1>12. CASE HookReturn
  BY <1>12 DEF HookReturn, OuterMove
<1>13. CASE Expire
  BY <1>13 DEF Expire
<1>14. CASE Cancel
  BY <1>14 DEF Cancel
<1>15. CASE Receive
  <2>1. CASE errCh # <<>> /\ errCh' = Tail(errCh) /\ received' = received \cup {Head(errCh)}
    <3>1. errCh' \in Seq(Errors) /\ Len(errCh') <= ErrChCap /\ Head(errCh) \in Errors
      BY <2>1
    <3> QED
      BY <1>15, <2>1, <3>1 DEF Receive
  <2>2. CASE errCh = <<>> /\ received' = received \cup {"closed"} /\ UNCHANGED errCh
    BY <1>15, <2>2 DEF Receive
  <2> QED
    BY <1>15, <2>1, <2>2 DEF Receive
<1>16. CASE \E r \in Requests : Accept(r)
  BY <1>16 DEF Accept, RequestMove
<1>17. CASE \E r \in Requests : Finish(r)
  BY <1>17 DEF Finish, RequestMove
<1>18. CASE UNCHANGED vars
  BY <1>18 DEF vars
<1> QED
  BY <1>1, <1>2, <1>3, <1>4, <1>5, <1>6, <1>7, <1>8, <1>9, <1>10, <1>11, <1>12, <1>13, <1>14, <1>15,
     <1>16, <1>17, <1>18 DEF Next, Inner, OuterShutdown

\* The shutdown goes forward only: listener closed, accept loop ended,
\* requests drained or an error sent.
LEMMA ServerStep == ServerInv /\ [Next]_vars => ServerInv'
<1> SUFFICES ASSUME ServerInv, [Next]_vars PROVE ServerInv'
  OBVIOUS
<1> USE ServerTypeStep DEF ServerInv, Active, channel, server
<1>1. CASE ServeStart
  BY <1>1 DEF ServeStart, InnerMove, TypeOK
<1>2. CASE BindOk
  BY <1>2 DEF BindOk, InnerMove, TypeOK
<1>3. CASE BindFail
  BY <1>3 DEF BindFail, InnerMove, TypeOK
<1>4. CASE AcceptFail
  BY <1>4 DEF AcceptFail, InnerMove, TypeOK
<1>5. CASE ServeClosed
  BY <1>5 DEF ServeClosed, InnerMove, TypeOK
<1>6. CASE ReportServe
  BY <1>6 DEF ReportServe, Send, TypeOK
<1>7. CASE CtxDone
  BY <1>7 DEF CtxDone, OuterMove, TypeOK
<1>8. CASE ShutdownBegin
  BY <1>8 DEF ShutdownBegin, TypeOK
<1>9. CASE ShutdownReturn
  BY <1>9 DEF ShutdownReturn, OuterMove, TypeOK
<1>10. CASE ReportShutdown
  BY <1>10 DEF ReportShutdown, OuterMove, Send, TypeOK
<1>11. CASE CloseErrCh
  BY <1>11 DEF CloseErrCh, OuterMove, TypeOK
<1>12. CASE HookReturn
  BY <1>12 DEF HookReturn, OuterMove, TypeOK
<1>13. CASE Expire
  BY <1>13 DEF Expire, TypeOK
<1>14. CASE Cancel
  BY <1>14 DEF Cancel, TypeOK
<1>15. CASE Receive
  BY <1>15 DEF Receive, TypeOK
<1>16. CASE \E r \in Requests : Accept(r)
  BY <1>16 DEF Accept, RequestMove, TypeOK
<1>17. CASE \E r \in Requests : Finish(r)
  BY <1>17 DEF Finish, RequestMove, TypeOK
<1>18. CASE UNCHANGED vars
  BY <1>18 DEF vars, TypeOK
<1> QED
  BY <1>1, <1>2, <1>3, <1>4, <1>5, <1>6, <1>7, <1>8, <1>9, <1>10, <1>11, <1>12, <1>13, <1>14, <1>15,
     <1>16, <1>17, <1>18 DEF Next, Inner, OuterShutdown

\* The server's shutdown goes forward only, for any requests, hook or not:
\* ServerInv holds in every reachable state (server.go Listen).
THEOREM ServerInvariant == Spec => []ServerInv
BY ServerInit, ServerStep, PTL DEF Spec

\* What the panic of the finding needs: the context is done and errCh closed,
\* and the error of ListenAndServe, one that is not ErrServerClosed, has not
\* been reported. A server that starts and stops as asked never panics.
PanicExtent == crashed => cancelled /\ closed /\ inner = "failed" /\ "serve" \notin sent

\* It is inductive with how the two goroutines of Listen got there.
PanicInv ==
  /\ PanicExtent
  /\ outer # "wait" => cancelled
  /\ inner # "exited" => "serve" \notin sent

\* The panic of Listen's inner goroutine, a send on the closed errCh, needs a
\* failure of ListenAndServe that nobody was told of.
THEOREM PanicNeedsUnreportedFailure == Spec => []PanicExtent
<1>1. Init => PanicInv
  BY DEF Init, PanicInv, PanicExtent
<1>2. ServerInv /\ PanicInv /\ [Next]_vars => PanicInv'
  <2> SUFFICES ASSUME ServerInv, PanicInv, [Next]_vars PROVE PanicInv'
    OBVIOUS
  <2> USE DEF ServerInv, TypeOK, PanicInv, PanicExtent, channel, server
  <2>1. CASE ServeStart
    BY <2>1 DEF ServeStart, InnerMove
  <2>2. CASE BindOk
    BY <2>2 DEF BindOk, InnerMove
  <2>3. CASE BindFail
    BY <2>3 DEF BindFail, InnerMove
  <2>4. CASE AcceptFail
    BY <2>4 DEF AcceptFail, InnerMove
  <2>5. CASE ServeClosed
    BY <2>5 DEF ServeClosed, InnerMove
  <2>6. CASE ReportServe
    BY <2>6 DEF ReportServe, Send
  <2>7. CASE CtxDone
    BY <2>7 DEF CtxDone, OuterMove
  <2>8. CASE ShutdownBegin
    BY <2>8 DEF ShutdownBegin
  <2>9. CASE ShutdownReturn
    BY <2>9 DEF ShutdownReturn, OuterMove
  <2>10. CASE ReportShutdown
    BY <2>10 DEF ReportShutdown, OuterMove, Send
  <2>11. CASE CloseErrCh
    BY <2>11 DEF CloseErrCh, OuterMove
  <2>12. CASE HookReturn
    BY <2>12 DEF HookReturn, OuterMove
  <2>13. CASE Expire
    BY <2>13 DEF Expire
  <2>14. CASE Cancel
    BY <2>14 DEF Cancel
  <2>15. CASE Receive
    BY <2>15 DEF Receive
  <2>16. CASE \E r \in Requests : Accept(r)
    BY <2>16 DEF Accept, RequestMove
  <2>17. CASE \E r \in Requests : Finish(r)
    BY <2>17 DEF Finish, RequestMove
  <2>18. CASE UNCHANGED vars
    BY <2>18 DEF vars
  <2> QED
    BY <2>1, <2>2, <2>3, <2>4, <2>5, <2>6, <2>7, <2>8, <2>9, <2>10, <2>11, <2>12, <2>13, <2>14,
       <2>15, <2>16, <2>17, <2>18 DEF Next, Inner, OuterShutdown
<1>3. PanicInv => PanicExtent
  BY DEF PanicInv
<1> QED
  BY <1>1, <1>2, <1>3, ServerInvariant, PTL DEF Spec

-----------------------------------------------------------------------------
(* The service.                                                            *)

\* The program of the README implements the server's specification: a step of
\* the service is one of the server or leaves it alone.
THEOREM ServiceIsServer == ServiceSpec => Spec
<1>1. ServiceInit => Init
  BY DEF ServiceInit
<1>2. [ServiceNext]_<<vars, tvars>> => [Next]_vars
  <2> SUFFICES ASSUME ServiceNext \/ UNCHANGED <<vars, tvars>> PROVE [Next]_vars
    OBVIOUS
  <2>1. CASE UNCHANGED <<vars, tvars>>
    BY <2>1
  <2>2. CASE HookStep \/ Background
    BY <2>2 DEF HookStep, Background
  <2>3. CASE HookEnd
    BY <2>3 DEF HookEnd, Next
  <2>4. CASE \E r \in Requests : HandlerStart(r) \/ HandlerEnd(r)
    BY <2>4 DEF HandlerStart, HandlerEnd, Next
  <2> QED
    BY <2>1, <2>2, <2>3, <2>4 DEF ServiceNext, Does, Next, Inner, OuterShutdown
<1> QED
  BY <1>1, <1>2, PTL DEF ServiceSpec, Spec

\* The service keeps the promise TestListen_drainsInflightRequests tests:
\* errCh closed without an error means that every accepted request is done.
THEOREM CleanClose == ServiceSpec => []CleanCloseMeansDrained
<1>1. ServerInv => CleanCloseMeansDrained
  BY DEF ServerInv, CleanCloseMeansDrained
<1> QED
  BY <1>1, ServerInvariant, ServiceIsServer, PTL

\* main starts the service with the invariant.
LEMMA ServiceStarts == ServiceInit => ServiceInv
<1> SUFFICES ASSUME ServiceInit PROVE ServiceInv
  OBVIOUS
<1> USE ServiceAssumption DEF ServiceInit, T!Initialized
<1>1. ServerInv
  BY ServerInit
<1>2. T!TypeOK
  BY DEF T!TypeOK, T!Measurements
<1>3. T!ShutdownState /\ T!BoundToStarted
  BY DEF T!ShutdownState, T!BoundToStarted
<1>4. StartsRecorded
  BY DEF Init, StartsRecorded
<1>5. T!GaugeNeverNegative /\ T!ShutdownExportsAll /\ T!LiveProviderAccounted
  BY DEF T!GaugeNeverNegative, T!ShutdownExportsAll, T!LiveProviderAccounted
<1> QED
  BY <1>1, <1>2, <1>3, <1>4, <1>5 DEF ServiceInv

\* The variables of the metrics keep their types.
LEMMA TelemetryTypeStep == ServiceInv /\ [ServiceNext]_<<vars, tvars>> => T!TypeOK'
<1> SUFFICES ASSUME ServiceInv, [ServiceNext]_<<vars, tvars>> PROVE T!TypeOK'
  OBVIOUS
<1> USE ServiceAssumption DEF ServiceInv, T!TypeOK, T!Measurements, tvars
<1>1. CASE HookStep /\ T!ShutdownCall
  BY <1>1 DEF T!ShutdownCall
<1>2. CASE HookStep /\ T!Flush
  BY <1>2 DEF T!Flush
<1>3. CASE HookStep /\ T!Release
  BY <1>3 DEF T!Release
<1>4. CASE HookEnd
  BY <1>4 DEF HookEnd
<1>5. CASE \E p \in Providers : T!Collect(p)
  BY <1>5 DEF T!Collect
<1>6. CASE \E p \in Providers : T!Init(p)
  BY <1>6 DEF T!Init
<1>7. CASE \E r \in Requests : HandlerStart(r)
  BY <1>7 DEF HandlerStart, T!Record, T!Resolve, T!Measurements
<1>8. CASE \E r \in Requests : HandlerEnd(r)
  BY <1>8 DEF HandlerEnd, T!Record, T!Resolve, T!Measurements
<1>9. CASE UNCHANGED tvars
  BY <1>9 DEF tvars
<1> QED
  BY <1>1, <1>2, <1>3, <1>4, <1>5, <1>6, <1>7, <1>8, <1>9 DEF ServiceNext, HookStep, Background, Does,
     tvars, vars

\* observability.Shutdown knows its provider between its steps.
LEMMA ShutdownStateStep == ServiceInv /\ [ServiceNext]_<<vars, tvars>> => T!ShutdownState'
<1> SUFFICES ASSUME ServiceInv, [ServiceNext]_<<vars, tvars>> PROVE T!ShutdownState'
  OBVIOUS
<1> USE ServiceAssumption DEF ServiceInv, T!TypeOK, T!ShutdownState, tvars
<1>1. CASE HookStep /\ T!ShutdownCall
  BY <1>1 DEF T!ShutdownCall
<1>2. CASE HookStep /\ T!Flush
  BY <1>2 DEF T!Flush
<1>3. CASE HookStep /\ T!Release
  BY <1>3 DEF T!Release
<1>4. CASE HookEnd
  BY <1>4 DEF HookEnd
<1>5. CASE \E p \in Providers : T!Collect(p)
  BY <1>5 DEF T!Collect
<1>6. CASE \E p \in Providers : T!Init(p)
  BY <1>6 DEF T!Init
<1>7. CASE \E r \in Requests : HandlerStart(r)
  BY <1>7 DEF HandlerStart, T!Record, T!Resolve, T!Measurements
<1>8. CASE \E r \in Requests : HandlerEnd(r)
  BY <1>8 DEF HandlerEnd, T!Record, T!Resolve, T!Measurements
<1>9. CASE UNCHANGED tvars
  BY <1>9 DEF tvars
<1> QED
  BY <1>1, <1>2, <1>3, <1>4, <1>5, <1>6, <1>7, <1>8, <1>9 DEF ServiceNext, HookStep, Background, Does,
     tvars, vars

\* Instruments are built from a provider that Init has started.
LEMMA BoundToStartedStep == ServiceInv /\ [ServiceNext]_<<vars, tvars>> => T!BoundToStarted'
<1> SUFFICES ASSUME ServiceInv, [ServiceNext]_<<vars, tvars>> PROVE T!BoundToStarted'
  OBVIOUS
<1> USE ServiceAssumption DEF ServiceInv, T!TypeOK, T!BoundToStarted, T!ShutdownState, tvars
<1>1. CASE HookStep /\ T!ShutdownCall
  BY <1>1 DEF T!ShutdownCall
<1>2. CASE HookStep /\ T!Flush
  BY <1>2 DEF T!Flush
<1>3. CASE HookStep /\ T!Release
  BY <1>3 DEF T!Release
<1>4. CASE HookEnd
  BY <1>4 DEF HookEnd
<1>5. CASE \E p \in Providers : T!Collect(p)
  BY <1>5 DEF T!Collect
<1>6. CASE \E p \in Providers : T!Init(p)
  BY <1>6 DEF T!Init
<1>7. CASE \E r \in Requests : HandlerStart(r)
  BY <1>7 DEF HandlerStart, T!Record, T!Resolve, T!Measurements
<1>8. CASE \E r \in Requests : HandlerEnd(r)
  BY <1>8 DEF HandlerEnd, T!Record, T!Resolve, T!Measurements
<1>9. CASE UNCHANGED tvars
  BY <1>9 DEF tvars
<1> QED
  BY <1>1, <1>2, <1>3, <1>4, <1>5, <1>6, <1>7, <1>8, <1>9 DEF ServiceNext, HookStep, Background, Does,
     tvars, vars

\* Nothing is recorded into a provider after its last export.
LEMMA ShutdownExportsStep == ServiceInv /\ [ServiceNext]_<<vars, tvars>> => T!ShutdownExportsAll'
<1> SUFFICES ASSUME ServiceInv, [ServiceNext]_<<vars, tvars>> PROVE T!ShutdownExportsAll'
  OBVIOUS
<1> USE ServiceAssumption DEF ServiceInv, T!TypeOK, T!ShutdownState, T!ShutdownExportsAll, tvars
<1>1. CASE HookStep /\ T!ShutdownCall
  BY <1>1 DEF T!ShutdownCall
<1>2. CASE HookStep /\ T!Flush
  BY <1>2 DEF T!Flush
<1>3. CASE HookStep /\ T!Release
  BY <1>3 DEF T!Release
<1>4. CASE HookEnd
  BY <1>4 DEF HookEnd
<1>5. CASE \E p \in Providers : T!Collect(p)
  BY <1>5 DEF T!Collect
<1>6. CASE \E p \in Providers : T!Init(p)
  BY <1>6 DEF T!Init
<1>7. CASE \E r \in Requests : HandlerStart(r)
  BY <1>7 DEF HandlerStart, T!Record, T!Resolve, T!Measurements
<1>8. CASE \E r \in Requests : HandlerEnd(r)
  BY <1>8 DEF HandlerEnd, T!Record, T!Resolve, T!Measurements
<1>9. CASE UNCHANGED tvars
  BY <1>9 DEF tvars
<1> QED
  BY <1>1, <1>2, <1>3, <1>4, <1>5, <1>6, <1>7, <1>8, <1>9 DEF ServiceNext, HookStep, Background, Does,
     tvars, vars

\* Shutdown takes the singleton over before it forgets it.
LEMMA LiveProviderStep == ServiceInv /\ [ServiceNext]_<<vars, tvars>> => T!LiveProviderAccounted'
<1> SUFFICES ASSUME ServiceInv, [ServiceNext]_<<vars, tvars>> PROVE T!LiveProviderAccounted'
  OBVIOUS
<1> USE ServiceAssumption DEF ServiceInv, T!TypeOK, T!ShutdownState, T!LiveProviderAccounted, tvars
<1>1. CASE HookStep /\ T!ShutdownCall
  BY <1>1 DEF T!ShutdownCall
<1>2. CASE HookStep /\ T!Flush
  BY <1>2 DEF T!Flush
<1>3. CASE HookStep /\ T!Release
  BY <1>3 DEF T!Release
<1>4. CASE HookEnd
  BY <1>4 DEF HookEnd
<1>5. CASE \E p \in Providers : T!Collect(p)
  BY <1>5 DEF T!Collect
<1>6. CASE \E p \in Providers : T!Init(p)
  BY <1>6 DEF T!Init
<1>7. CASE \E r \in Requests : HandlerStart(r)
  BY <1>7 DEF HandlerStart, T!Record, T!Resolve, T!Measurements
<1>8. CASE \E r \in Requests : HandlerEnd(r)
  BY <1>8 DEF HandlerEnd, T!Record, T!Resolve, T!Measurements
<1>9. CASE UNCHANGED tvars
  BY <1>9 DEF tvars
<1> QED
  BY <1>1, <1>2, <1>3, <1>4, <1>5, <1>6, <1>7, <1>8, <1>9 DEF ServiceNext, HookStep, Background, Does,
     tvars, vars

\* Only a handler that starts or ends moves a request.
LEMMA RequestsMoveOnlyInHandlers ==
  ASSUME ServiceNext \/ UNCHANGED <<vars, tvars>>,
         ~ \E r \in Requests : HandlerStart(r) \/ HandlerEnd(r)
  PROVE  UNCHANGED request
BY DEF ServiceNext, Does, HookStep, HookEnd, Background, vars, server,
       ServeStart, BindOk, BindFail, AcceptFail, ServeClosed, ReportServe, InnerMove,
       CtxDone, ShutdownBegin, ShutdownReturn, ReportShutdown, CloseErrCh, HookReturn, OuterMove,
       Expire, Cancel, Receive

\* A request that starts finds the instruments built, and is recorded by them
\* while their provider lives.
LEMMA StartsRecordedStep == ServiceInv /\ [ServiceNext]_<<vars, tvars>> => StartsRecorded'
<1> SUFFICES ASSUME ServiceInv, [ServiceNext]_<<vars, tvars>> PROVE StartsRecorded'
  OBVIOUS
<1> USE ServiceAssumption DEF ServiceInv, ServerInv, TypeOK, StartsRecorded, T!TypeOK, T!ShutdownState,
        T!BoundToStarted, vars, server, tvars
<1>1. CASE HookStep /\ T!ShutdownCall
  BY <1>1 DEF HookStep, T!ShutdownCall
<1>2. CASE HookStep /\ T!Flush
  BY <1>2 DEF HookStep, T!Flush
<1>3. CASE HookStep /\ T!Release
  BY <1>3 DEF HookStep, T!Release
<1>4. CASE HookEnd
  BY <1>4 DEF HookEnd, HookReturn, OuterMove
<1>5. CASE \E p \in Providers : UNCHANGED vars /\ T!Collect(p)
  BY <1>5 DEF T!Collect
<1>6. CASE \E p \in Providers : UNCHANGED vars /\ T!Init(p)
  BY <1>6 DEF T!Init
<1>7. CASE \E r \in Requests : HandlerStart(r)
  BY <1>7 DEF HandlerStart, Accept, RequestMove, T!Record, T!Resolve, T!Measurements
<1>8. CASE \E r \in Requests : HandlerEnd(r)
  BY <1>8 DEF HandlerEnd, Finish, RequestMove, T!Record, T!Resolve, T!Measurements
<1>9. CASE UNCHANGED <<request, tvars>>
  BY <1>9
<1>10. CASE ~ \E r \in Requests : HandlerStart(r) \/ HandlerEnd(r)
  BY <1>10, RequestsMoveOnlyInHandlers, <1>1, <1>2, <1>3, <1>4, <1>5, <1>6, <1>9 DEF ServiceNext,
     HookStep, Background, Does
<1> QED
  BY <1>10, <1>1, <1>2, <1>3, <1>4, <1>5, <1>6, <1>7, <1>8, <1>9 DEF ServiceNext, HookStep, Background,
     Does, tvars, vars

\* The end of a request is recorded where its start was.
LEMMA GaugeStep == ServiceInv /\ [ServiceNext]_<<vars, tvars>> => T!GaugeNeverNegative'
<1> SUFFICES ASSUME ServiceInv, [ServiceNext]_<<vars, tvars>> PROVE T!GaugeNeverNegative'
  OBVIOUS
<1> USE ServiceAssumption DEF ServiceInv, T!TypeOK, T!GaugeNeverNegative, StartsRecorded,
        T!ShutdownState, tvars
<1>1. CASE HookStep /\ T!ShutdownCall
  BY <1>1 DEF T!ShutdownCall
<1>2. CASE HookStep /\ T!Flush
  BY <1>2 DEF T!Flush
<1>3. CASE HookStep /\ T!Release
  BY <1>3 DEF T!Release
<1>4. CASE HookEnd
  BY <1>4 DEF HookEnd
<1>5. CASE \E p \in Providers : T!Collect(p)
  BY <1>5 DEF T!Collect
<1>6. CASE \E p \in Providers : T!Init(p)
  BY <1>6 DEF T!Init
<1>7. CASE \E r \in Requests : HandlerStart(r)
  BY <1>7 DEF HandlerStart, Accept, RequestMove, T!Record, T!Resolve, T!Measurements
<1>8. CASE \E r \in Requests : HandlerEnd(r)
  BY <1>8 DEF HandlerEnd, Finish, RequestMove, T!Record, T!Resolve, T!Measurements
<1>9. CASE UNCHANGED tvars
  BY <1>9 DEF tvars
<1> QED
  BY <1>1, <1>2, <1>3, <1>4, <1>5, <1>6, <1>7, <1>8, <1>9 DEF ServiceNext, HookStep, Background, Does,
     tvars, vars

-----------------------------------------------------------------------------

\* ServiceInv holds in every reachable state, for any requests and providers:
\* the server, the instruments and Shutdown agree (rest Listen, monitoring
\* resolve, observability Shutdown).
THEOREM ServiceInvariant == ServiceSpec => []ServiceInv
<1>1. ServiceInv /\ [ServiceNext]_<<vars, tvars>> => T!TypeOK' /\ StartsRecorded'
  BY TelemetryTypeStep, StartsRecordedStep
<1>2. ServiceInv /\ [ServiceNext]_<<vars, tvars>> => T!ShutdownState' /\ T!BoundToStarted'
  BY ShutdownStateStep, BoundToStartedStep
<1>3. ServiceInv /\ [ServiceNext]_<<vars, tvars>> =>
        T!GaugeNeverNegative' /\ T!ShutdownExportsAll' /\ T!LiveProviderAccounted'
  BY GaugeStep, ShutdownExportsStep, LiveProviderStep
<1>4. ServiceInv /\ ServerInv' /\ [ServiceNext]_<<vars, tvars>> => ServiceInv'
  BY <1>1, <1>2, <1>3 DEF ServiceInv
<1> QED
  BY <1>4, ServiceStarts, ServerInvariant, ServiceIsServer, PTL DEF ServiceSpec

\* MetricsMonitor's gauge: in no provider is a request's end recorded without
\* its start, through Shutdown and a second Init.
THEOREM GaugeBalanced == ServiceSpec => []GaugeNeverNegative
<1>1. ServiceInv => GaugeNeverNegative
  BY DEF ServiceInv, GaugeNeverNegative
<1> QED
  BY <1>1, ServiceInvariant, PTL

\* observability.Shutdown returning nil has exported all that its provider
\* ever recorded.
THEOREM ShutdownIsComplete == ServiceSpec => []ShutdownExportsAll
<1>1. ServiceInv => ShutdownExportsAll
  BY DEF ServiceInv, ShutdownExportsAll
<1> QED
  BY <1>1, ServiceInvariant, PTL

\* No provider that Init started is left running unknown to the singleton, to
\* Shutdown and to the caller of Shutdown.
THEOREM NoProviderForgotten == ServiceSpec => []LiveProviderAccounted
<1>1. ServiceInv => LiveProviderAccounted
  BY DEF ServiceInv, LiveProviderAccounted
<1> QED
  BY <1>1, ServiceInvariant, PTL

-----------------------------------------------------------------------------
(* How far the finding about late measurements reaches.                    *)

\* No request is being served when, or after, the hook releases the provider
\* that main started.
QuietRelease == phase[FirstProvider] = "released" => Active = {}

\* Until Shutdown fails, the instruments record into main's provider, and the
\* end of every request that is done is among what it recorded.
DrainInv ==
  /\ stage = "idle" => singleton = FirstProvider
  /\ stage # "idle" => target = FirstProvider
  /\ stage # "returned" => global = FirstProvider /\ phase[FirstProvider] = "live"
  /\ stage = "returned" => result \in {"ok", "error"}
  /\ result # "error" => bound \in {Unbound, Broken, FirstProvider}
  /\ result # "error" /\ bound # Broken =>
       \A r \in Requests : request[r] = "done" => <<r, "end">> \in recorded[FirstProvider]

\* A step between two quiet states keeps that.
LEMMA DrainStep ==
  ServiceInv /\ DrainInv /\ QuietRelease /\ QuietRelease' /\ [ServiceNext]_<<vars, tvars>> => DrainInv'
<1> SUFFICES ASSUME ServiceInv, DrainInv, QuietRelease, QuietRelease', [ServiceNext]_<<vars, tvars>>
             PROVE  DrainInv'
  OBVIOUS
<1> USE ServiceAssumption DEF ServiceInv, ServerInv, TypeOK, T!TypeOK, T!ShutdownState, DrainInv, vars,
        server, tvars
<1>0. result = "ok" => phase[FirstProvider] = "released"
  BY DEF T!ShutdownExportsAll
<1>1. CASE HookStep /\ T!ShutdownCall
  BY <1>1 DEF HookStep, T!ShutdownCall
<1>2. CASE HookStep /\ T!Flush
  BY <1>2 DEF HookStep, T!Flush
<1>3. CASE HookStep /\ T!Release
  BY <1>3 DEF HookStep, T!Release
<1>4. CASE HookEnd
  BY <1>4 DEF HookEnd, HookReturn, OuterMove
<1>5. CASE \E p \in Providers : UNCHANGED vars /\ T!Collect(p)
  BY <1>5 DEF T!Collect
<1>6. CASE \E p \in Providers : UNCHANGED vars /\ stage = "returned" /\ T!Init(p)
  BY <1>6 DEF T!Init
<1>7. ASSUME NEW r \in Requests, HandlerStart(r) PROVE DrainInv'
  <2>1. r \in Active'
    BY <1>7 DEF HandlerStart, Accept, RequestMove, Active
  <2>2. result # "ok" /\ (result # "error" => global = FirstProvider)
    BY <1>0, <1>7, <2>1 DEF QuietRelease, HandlerStart, T!Record
  <2> QED
    BY <1>7, <2>2 DEF HandlerStart, Accept, RequestMove, T!Record, T!Resolve
<1>8. ASSUME NEW r \in Requests, HandlerEnd(r) PROVE DrainInv'
  <2>1. r \in Active
    BY <1>8 DEF HandlerEnd, Finish, RequestMove, Active
  <2>2. result # "ok" /\ bound # Unbound
    BY <1>0, <2>1 DEF QuietRelease, StartsRecorded, Active
  <2>3. bound' = bound
    BY <1>8, <2>2 DEF HandlerEnd, T!Record, T!Resolve
  <2>4. result # "error" /\ bound # Broken =>
          recorded'[FirstProvider] = recorded[FirstProvider] \cup {<<r, "end">>}
    BY <1>8, <2>2, <2>3 DEF HandlerEnd, T!Record
  <2> QED
    BY <1>8, <2>2, <2>3, <2>4 DEF HandlerEnd, Finish, RequestMove, T!Record
<1>9. CASE UNCHANGED <<request, tvars>>
  BY <1>9
<1>10. CASE ~ \E r \in Requests : HandlerStart(r) \/ HandlerEnd(r)
  BY <1>10, RequestsMoveOnlyInHandlers, <1>1, <1>2, <1>3, <1>4, <1>5, <1>6, <1>9 DEF ServiceNext,
     HookStep, Background, Does
<1> QED
  BY <1>7, <1>8, <1>10

\* observability.Shutdown called from rest.WithOnShutdown loses the measurements
\* of requests served past its release, and no others: if there are none,
\* every request that was served has been exported.
THEOREM QuietReleaseExportsAll == ServiceSpec /\ []QuietRelease => []DrainedRequestsExported
<1>1. ServiceInit => DrainInv
  BY ServiceAssumption DEF ServiceInit, Init, T!Initialized, DrainInv
<1>2. ServiceInv /\ DrainInv => DrainedRequestsExported
  <2> SUFFICES ASSUME ServiceInv, DrainInv, result = "ok", bound # Broken
               PROVE  \A r \in Requests : request[r] = "done" => <<r, "end">> \in exported[FirstProvider]
    BY DEF DrainedRequestsExported
  <2>1. target = FirstProvider /\ FirstProvider # NoProvider
    BY ServiceAssumption DEF ServiceInv, T!ShutdownState, DrainInv
  <2>2. recorded[FirstProvider] = exported[FirstProvider]
    BY <2>1 DEF ServiceInv, T!ShutdownExportsAll
  <2> QED
    BY <2>2 DEF DrainInv
<1> QED
  BY <1>1, <1>2, DrainStep, ServiceInvariant, PTL DEF ServiceSpec
=============================================================================
