------------------------- MODULE ReleaseAuditProofs -------------------------
(***************************************************************************)
(* The release-age audit for any files, times and number of workers:       *)
(* AuditInv is inductive, and the verdict and the warnings follow from it. *)
(***************************************************************************)
EXTENDS ReleaseAudit, FiniteSetTheorems, TLAPS

-----------------------------------------------------------------------------
(* Workers and the pins in their hands.                                    *)

\* What a worker without a pin holds is not a pin.
LEMMA MarkersAreNoPins == Idle \notin Pins /\ Gone \notin Pins
<1>1. \A p \in Pins : "version" \in DOMAIN p
  BY DEF Pins
<1>2. "version" \notin DOMAIN Idle /\ "version" \notin DOMAIN Gone
  BY DEF Idle, Gone
<1> QED
  BY <1>1, <1>2

\* A lookup that ends puts its pin down.
LEMMA LookupEnds ==
  ASSUME TypeOK, LookedUpOnce, Fetching, NEW w \in DOMAIN worker, worker[w] \in Pins,
         worker' = [worker EXCEPT ![w] = Idle]
  PROVE  /\ DOMAIN worker' = DOMAIN worker
         /\ \A x \in DOMAIN worker : worker'[x] = IF x = w THEN Idle ELSE worker[x]
         /\ Held' = Held \ {worker[w]}
<1>1. /\ DOMAIN worker' = DOMAIN worker
      /\ \A x \in DOMAIN worker : worker'[x] = IF x = w THEN Idle ELSE worker[x]
  OBVIOUS
<1> HIDE DEF Idle
<1> QED
  BY <1>1, MarkersAreNoPins DEF LookedUpOnce, Held

\* An idle worker that receives a pin holds it.
LEMMA PinTaken ==
  ASSUME TypeOK, NEW w \in DOMAIN worker, worker[w] = Idle, NEW p \in Pins,
         worker' = [worker EXCEPT ![w] = p]
  PROVE  /\ DOMAIN worker' = DOMAIN worker
         /\ \A x \in DOMAIN worker : worker'[x] = IF x = w THEN p ELSE worker[x]
         /\ Held' = Held \cup {p}
<1>1. /\ DOMAIN worker' = DOMAIN worker
      /\ \A x \in DOMAIN worker : worker'[x] = IF x = w THEN p ELSE worker[x]
  OBVIOUS
<1> QED
  BY <1>1, MarkersAreNoPins DEF Held

\* A worker that leaves its loop held nothing.
LEMMA WorkerLeaves ==
  ASSUME TypeOK, NEW w \in DOMAIN worker, worker[w] = Idle,
         worker' = [worker EXCEPT ![w] = Gone]
  PROVE  /\ DOMAIN worker' = DOMAIN worker
         /\ \A x \in DOMAIN worker : worker'[x] = IF x = w THEN Gone ELSE worker[x]
         /\ Held' = Held
<1>1. /\ DOMAIN worker' = DOMAIN worker
      /\ \A x \in DOMAIN worker : worker'[x] = IF x = w THEN Gone ELSE worker[x]
  OBVIOUS
<1> QED
  BY <1>1, MarkersAreNoPins DEF Held

-----------------------------------------------------------------------------
(* The files.                                                              *)

\* Exceptions have the fields of an entry.
LEMMA FileEntryTypes == ASSUME TypeOK PROVE \A e \in FileEntries : e \in Entries
BY AuditAssumption DEF TypeOK, FileEntries

\* allowlist.matches decides whether an exception is alive for a pin.
LEMMA MatchesIsCovered ==
  ASSUME TypeOK, NEW p, NEW t \in Int
  PROVE  matches(FileEntries, p, t) <=>
           \E e \in FileEntries : /\ e.module = p.module
                                  /\ e.version = p.version \/ e.version = AnyVersion
                                  /\ e.expires \in Int /\ ~(t > e.expires)
<1>1. \A e \in FileEntries : HasDate(e) <=> e.expires \in Int
  BY FileEntryTypes, AuditAssumption DEF Entries, HasDate
<1> QED
  BY <1>1 DEF matches

\* Idle and gone workers hold no pin.
LEMMA NobodyHolds ==
  ASSUME \A w \in DOMAIN worker : worker[w] \in {Idle, Gone}
  PROVE  Held = {}
BY MarkersAreNoPins DEF Held

\* Every step keeps the types.
LEMMA TypeStep == AuditInv /\ [Next]_vars => TypeOK'
<1> SUFFICES ASSUME AuditInv, [Next]_vars PROVE TypeOK'
  OBVIOUS
<1> USE AuditAssumption DEF AuditInv, TypeOK, input
<1>1. CASE ParseGoSum
  BY <1>1 DEF ParseGoSum, Exit, parseGoSum, PinOf, Lines, Pins
<1>2. CASE LoadAllowlist
  BY <1>2 DEF LoadAllowlist, Exit
<1>3. CASE Filter
  BY <1>3 DEF Filter
<1>4. CASE Spawn
  BY <1>4 DEF Spawn
<1>5. CASE Close
  BY <1>5 DEF Close
<1>6. CASE Report
  BY <1>6 DEF Report, Exit
<1>7. CASE \E w \in DOMAIN worker : FetchFails(w)
  BY <1>7 DEF FetchFails
<1>8. CASE \E w \in DOMAIN worker : FetchReturns(w)
  BY <1>8 DEF FetchReturns
<1>9. CASE \E w \in DOMAIN worker : WorkerEnds(w)
  BY <1>9 DEF WorkerEnds
<1>10. CASE \E w \in DOMAIN worker, p \in pins : Send(w, p)
  BY <1>10 DEF Send
<1>11. CASE Tick
  BY <1>11 DEF Tick
<1>12. CASE UNCHANGED vars
  BY <1>12 DEF vars
<1> QED
  BY <1>1, <1>2, <1>3, <1>4, <1>5, <1>6, <1>7, <1>8, <1>9, <1>10, <1>11, <1>12 DEF Next, Main, Worker,
     Fetch, Exited

\* main reads each file once, and the clock never goes back.
LEMMA FilesStep == AuditInv /\ [Next]_vars => FilesRead'
<1> SUFFICES ASSUME AuditInv, [Next]_vars PROVE FilesRead'
  OBVIOUS
<1> USE AuditAssumption DEF AuditInv, TypeOK, FilesRead, Filtered, Fetching, FileEntries, Audited, input
<1>1. CASE ParseGoSum
  BY <1>1 DEF ParseGoSum, Exit, parseGoSum, PinOf
<1>2. CASE LoadAllowlist
  BY <1>2 DEF LoadAllowlist, Exit
<1>3. CASE Filter
  BY <1>3 DEF Filter
<1>4. CASE Spawn
  BY <1>4 DEF Spawn
<1>5. CASE Close
  BY <1>5 DEF Close
<1>6. CASE Report
  BY <1>6 DEF Report, Exit
<1>7. CASE \E w \in DOMAIN worker : FetchFails(w)
  BY <1>7 DEF FetchFails
<1>8. CASE \E w \in DOMAIN worker : FetchReturns(w)
  BY <1>8 DEF FetchReturns
<1>9. CASE \E w \in DOMAIN worker : WorkerEnds(w)
  BY <1>9 DEF WorkerEnds
<1>10. CASE \E w \in DOMAIN worker, p \in pins : Send(w, p)
  BY <1>10 DEF Send
<1>11. CASE Tick
  BY <1>11 DEF Tick
<1>12. CASE UNCHANGED vars
  BY <1>12 DEF vars
<1> QED
  BY <1>1, <1>2, <1>3, <1>4, <1>5, <1>6, <1>7, <1>8, <1>9, <1>10, <1>11, <1>12 DEF Next, Main, Worker,
     Fetch, Exited

\* A pin moves from the channel to a worker and from there to a result; it is
\* never dropped.
LEMMA NothingLostStep == AuditInv /\ [Next]_vars => NothingLost'
<1> SUFFICES ASSUME AuditInv, [Next]_vars PROVE NothingLost'
  OBVIOUS
<1> USE DEF AuditInv, NothingLost, Filtered, Fetching, FilesRead, TypeOK, Held, Audited, Covered,
            FileEntries, TooYoung, Cutoff, input
<1>1. CASE ParseGoSum
  BY <1>1 DEF ParseGoSum, Exit, parseGoSum, PinOf
<1>2. CASE LoadAllowlist
  BY <1>2 DEF LoadAllowlist, Exit
<1>3. CASE Filter
  <2>1. \A p : Covered(p)' <=> matches(exclude, p, clock)
    <3>1. FileEntries' = FileEntries /\ exclude = FileEntries /\ now' = clock /\ clock \in Int
      BY <1>3 DEF Filter
    <3> HIDE DEF FileEntries, TypeOK
    <3> QED
      BY <3>1, MatchesIsCovered
  <2>2. Held' = Held /\ Held = {} /\ errs' = {} /\ violations' = {} /\ worker' = << >>
    BY <1>3 DEF Filter, NothingLost, Held
  <2> HIDE DEF Covered, Held
  <2> QED
    BY <1>3, <2>1, <2>2 DEF Filter, FilesRead
<1>4. CASE Spawn
  <2>1. \A w \in DOMAIN worker' : worker'[w] \notin Pins
    BY <1>4, MarkersAreNoPins DEF Spawn
  <2>2. Held' = {} /\ Held = {}
    BY <1>4, <2>1 DEF Spawn
  <2> HIDE DEF Held, Covered
  <2>3. UNCHANGED <<Audited, TooYoung, Cutoff>> /\ \A p : Covered(p)' <=> Covered(p)
    BY <1>4 DEF Spawn, Covered
  <2> QED
    BY <1>4, <2>2, <2>3 DEF Spawn
<1>5. CASE Close
  BY <1>5 DEF Close
<1>6. CASE Report
  BY <1>6 DEF Report, Exit
<1>7. CASE \E w \in DOMAIN worker : FetchFails(w)
  <2> SUFFICES ASSUME NEW w \in DOMAIN worker, FetchFails(w) PROVE NothingLost'
    BY <1>7
  <2>1. UNCHANGED <<Audited, TooYoung, Cutoff, phase>> /\ \A p : Covered(p)' <=> Covered(p)
    BY DEF FetchFails
  <2>2. CASE ~Fetching
    BY <2>1, <2>2 DEF FetchFails
  <2>3. CASE Fetching
    <3>1. Held' = Held \ {worker[w]} /\ worker[w] \in Held
      BY <2>3, LookupEnds DEF FetchFails
    <3> HIDE DEF Held, Covered
    <3> QED
      BY <2>1, <2>3, <3>1 DEF FetchFails
  <2> QED
    BY <2>2, <2>3
<1>8. CASE \E w \in DOMAIN worker : FetchReturns(w)
  <2> SUFFICES ASSUME NEW w \in DOMAIN worker, FetchReturns(w) PROVE NothingLost'
    BY <1>8
  <2>1. UNCHANGED <<Audited, TooYoung, Cutoff, phase>> /\ \A p : Covered(p)' <=> Covered(p)
    BY DEF FetchReturns
  <2>2. CASE ~Fetching
    BY <2>1, <2>2 DEF FetchReturns
  <2>3. CASE Fetching
    <3>1. Held' = Held \ {worker[w]} /\ worker[w] \in Held
      BY <2>3, LookupEnds DEF FetchReturns
    <3> HIDE DEF Held, Covered
    <3>2. CASE published[worker[w]] > Cutoff
      <4> DEFINE found == [pin |-> worker[w], age |-> clock - published[worker[w]]]
      <4>1. violations' = violations \cup {found} /\ found.pin = worker[w]
        BY <3>2 DEF FetchReturns
      <4> HIDE DEF found
      <4>2. worker[w] \in TooYoung
        BY <2>3, <3>1, <3>2
      <4>3. UNCHANGED <<pins, errs, published>>
        BY DEF FetchReturns
      <4>4. \A v \in violations : v.pin \in TooYoung
        BY <2>3
      <4> HIDE DEF TooYoung, Audited, Cutoff, TypeOK
      <4> QED
        BY <2>1, <2>3, <3>1, <4>1, <4>2, <4>3, <4>4
    <3>3. CASE ~(published[worker[w]] > Cutoff)
      <4>1. violations' = violations
        BY <3>3 DEF FetchReturns
      <4>2. published[worker[w]] <= Cutoff
        BY <3>3, AuditAssumption DEF FetchReturns
      <4> QED
        BY <2>1, <2>3, <3>1, <4>1, <4>2 DEF FetchReturns
    <3> QED
      BY <3>2, <3>3
  <2> QED
    BY <2>2, <2>3
<1>9. CASE \E w \in DOMAIN worker : WorkerEnds(w)
  <2> SUFFICES ASSUME NEW w \in DOMAIN worker, WorkerEnds(w) PROVE NothingLost'
    BY <1>9
  <2>1. UNCHANGED <<Audited, TooYoung, Cutoff, phase>> /\ \A p : Covered(p)' <=> Covered(p)
    BY DEF WorkerEnds
  <2>2. Held' = Held
    BY WorkerLeaves DEF WorkerEnds
  <2> HIDE DEF Held, Covered
  <2> QED
    BY <2>1, <2>2 DEF WorkerEnds
<1>10. CASE \E w \in DOMAIN worker, p \in pins : Send(w, p)
  <2> SUFFICES ASSUME NEW w \in DOMAIN worker, NEW p \in pins, Send(w, p) PROVE NothingLost'
    BY <1>10
  <2>1. UNCHANGED <<Audited, TooYoung, Cutoff, phase>> /\ \A q : Covered(q)' <=> Covered(q)
    BY DEF Send
  <2>2. Held' = Held \cup {p}
    BY PinTaken DEF Send
  <2> HIDE DEF Held, Covered
  <2> QED
    BY <2>1, <2>2 DEF Send
<1>11. CASE Tick
  BY <1>11 DEF Tick
<1>12. CASE UNCHANGED vars
  BY <1>12 DEF vars
<1> QED
  BY <1>1, <1>2, <1>3, <1>4, <1>5, <1>6, <1>7, <1>8, <1>9, <1>10, <1>11, <1>12 DEF Next, Main, Worker,
     Fetch, Exited

\* A pin is received once and judged once.
LEMMA LookedUpOnceStep == AuditInv /\ [Next]_vars => LookedUpOnce'
<1> SUFFICES ASSUME AuditInv, [Next]_vars PROVE LookedUpOnce'
  OBVIOUS
<1> USE DEF AuditInv, LookedUpOnce, Fetching, TypeOK, Held, input
<1>1. CASE ParseGoSum
  BY <1>1 DEF ParseGoSum, Exit, parseGoSum, PinOf
<1>2. CASE LoadAllowlist
  BY <1>2 DEF LoadAllowlist, Exit
<1>3. CASE Filter
  BY <1>3 DEF Filter
<1>4. CASE Spawn
  <2>1. \A w \in DOMAIN worker' : worker'[w] \notin Pins
    BY <1>4, MarkersAreNoPins DEF Spawn
  <2>2. Held' = {}
    BY <2>1
  <2> HIDE DEF Held
  <2> QED
    BY <1>4, <2>1, <2>2 DEF Spawn, NothingLost
<1>5. CASE Close
  BY <1>5 DEF Close
<1>6. CASE Report
  BY <1>6 DEF Report, Exit
<1>7. CASE \E w \in DOMAIN worker : FetchFails(w)
  <2> SUFFICES ASSUME NEW w \in DOMAIN worker, FetchFails(w), Fetching PROVE LookedUpOnce'
    BY <1>7 DEF FetchFails
  <2>1. /\ Held' = Held \ {worker[w]} /\ worker[w] \in Held
        /\ DOMAIN worker' = DOMAIN worker
        /\ \A x \in DOMAIN worker : worker'[x] = IF x = w THEN Idle ELSE worker[x]
    BY LookupEnds DEF FetchFails
  <2> HIDE DEF Held
  <2> QED
    BY <2>1, MarkersAreNoPins DEF FetchFails
<1>8. CASE \E w \in DOMAIN worker : FetchReturns(w)
  <2> SUFFICES ASSUME NEW w \in DOMAIN worker, FetchReturns(w), Fetching PROVE LookedUpOnce'
    BY <1>8 DEF FetchReturns
  <2>1. /\ Held' = Held \ {worker[w]} /\ worker[w] \in Held
        /\ DOMAIN worker' = DOMAIN worker
        /\ \A x \in DOMAIN worker : worker'[x] = IF x = w THEN Idle ELSE worker[x]
    BY LookupEnds DEF FetchReturns
  <2> HIDE DEF Held
  <2> QED
    BY <2>1, MarkersAreNoPins DEF FetchReturns
<1>9. CASE \E w \in DOMAIN worker : WorkerEnds(w)
  <2> SUFFICES ASSUME NEW w \in DOMAIN worker, WorkerEnds(w) PROVE LookedUpOnce'
    BY <1>9
  <2>1. /\ Held' = Held /\ DOMAIN worker' = DOMAIN worker
        /\ \A x \in DOMAIN worker : worker'[x] = IF x = w THEN Gone ELSE worker[x]
    BY WorkerLeaves DEF WorkerEnds
  <2> HIDE DEF Held
  <2> QED
    BY <2>1, MarkersAreNoPins DEF WorkerEnds
<1>10. CASE \E w \in DOMAIN worker, p \in pins : Send(w, p)
  <2> SUFFICES ASSUME NEW w \in DOMAIN worker, NEW p \in pins, Send(w, p) PROVE LookedUpOnce'
    BY <1>10
  <2>1. /\ Held' = Held \cup {p} /\ DOMAIN worker' = DOMAIN worker
        /\ \A x \in DOMAIN worker : worker'[x] = IF x = w THEN p ELSE worker[x]
    BY PinTaken DEF Send
  <2>2. \A x \in DOMAIN worker : worker[x] # p
    BY DEF Send
  <2> HIDE DEF Held
  <2> QED
    BY <2>1, <2>2 DEF Send
<1>11. CASE Tick
  BY <1>11 DEF Tick
<1>12. CASE UNCHANGED vars
  BY <1>12 DEF vars
<1> QED
  BY <1>1, <1>2, <1>3, <1>4, <1>5, <1>6, <1>7, <1>8, <1>9, <1>10, <1>11, <1>12 DEF Next, Main, Worker,
     Fetch, Exited

\* Only Report sets the verdict, and nothing it is about changes afterwards.
LEMMA VerdictStands ==
  ASSUME AuditInv, AuditVerdict, [Next]_vars, ~Report
  PROVE  AuditVerdict'
<1>1. CASE exit = -1
  <2>1. exit' \in {-1, 2}
    BY <1>1 DEF Next, Main, Worker, Fetch, ParseGoSum, LoadAllowlist, Filter, Spawn, Close,
                FetchFails, FetchReturns, WorkerEnds, Send, Tick, Exited, Exit, vars
  <2> QED
    BY <2>1 DEF AuditVerdict
<1>2. CASE exit # -1
  <2>1. phase = "exited"
    BY <1>2 DEF AuditInv, TypeOK
  <2>2. UNCHANGED <<input, now, table, exit>>
    BY <1>2, <2>1 DEF Next, Main, Worker, Fetch, ParseGoSum, LoadAllowlist, Filter, Spawn, Close,
                FetchFails, FetchReturns, WorkerEnds, Send, Tick, Exited, vars
  <2>3. UNCHANGED <<Audited, FileEntries, Cutoff>>
    BY <2>2 DEF Audited, FileEntries, Cutoff, input
  <2>4. UNCHANGED TooYoung
    BY <2>2, <2>3 DEF TooYoung, Covered, input
  <2> QED
    BY <2>2, <2>4 DEF AuditVerdict
<1> QED
  BY <1>1, <1>2

\* When main comes out of wg.Wait without an error, what the workers found is
\* what is too young.
LEMMA AllJudged ==
  ASSUME AuditInv, phase = "wait", \A w \in DOMAIN worker : worker[w] = Gone, errs = {}
  PROVE  TooYoung = {v.pin : v \in violations}
<1>1. Held = {} /\ pins = {}
  BY NobodyHolds DEF AuditInv, NothingLost
<1>2. /\ \A p \in Audited : \/ Covered(p) \/ published[p] <= Cutoff
                            \/ \E v \in violations : v.pin = p
      /\ \A v \in violations : v.pin \in TooYoung
  BY <1>1 DEF AuditInv, NothingLost, Filtered, Fetching
<1>3. \A p \in Audited : published[p] \in Int /\ Cutoff \in Int
  <2>1. Audited \subseteq Pins
    BY AuditAssumption DEF AuditInv, TypeOK, Audited, PinOf, Lines, Pins
  <2> QED
    BY <2>1, AuditAssumption DEF AuditInv, TypeOK, Cutoff
<1> QED
  BY <1>2, <1>3 DEF TooYoung

\* A go.sum of finitely many lines pins finitely many versions.
LEMMA AuditedFinite == ASSUME TypeOK PROVE IsFiniteSet(TooYoung)
<1> DEFINE whole == {k \in goSum : k.whole}
           pin == [l \in whole |-> PinOf(l)]
<1>1. IsFiniteSet(whole)
  BY FS_Subset, AuditAssumption DEF TypeOK
<1>2. pin \in Surjection(whole, Audited)
  BY DEF Surjection, Audited
<1>3. IsFiniteSet(Audited)
  BY <1>1, <1>2, FS_Surjection
<1> QED
  BY <1>3, FS_Subset DEF TooYoung

\* Every pin that is too young was found once.
LEMMA EachOnce ==
  ASSUME AuditInv, Fetching, TooYoung = {v.pin : v \in violations}
  PROVE  IsFiniteSet(violations) /\ Cardinality(violations) = Cardinality(TooYoung)
<1> DEFINE found == [p \in TooYoung |-> CHOOSE v \in violations : v.pin = p]
<1>1. \A p \in TooYoung : found[p] \in violations /\ found[p].pin = p
  OBVIOUS
<1>2. \A v \in violations : found[v.pin] = v
  BY <1>1 DEF AuditInv, LookedUpOnce
<1>3. found \in [TooYoung -> violations]
  BY <1>1
<1> HIDE DEF found
<1>4. found \in Bijection(TooYoung, violations)
  BY <1>1, <1>2, <1>3 DEF Bijection, Injection, Surjection, IsInjective
<1>5. ExistsBijection(TooYoung, violations)
  BY <1>4 DEF ExistsBijection
<1>6. IsFiniteSet(TooYoung)
  BY AuditedFinite DEF AuditInv
<1> QED
  BY <1>5, <1>6, FS_Bijection

\* run's exit code and the table it prints say what is too young.
LEMMA ReportTellsTruth ==
  ASSUME AuditInv, Report
  PROVE  AuditVerdict'
<1>1. UNCHANGED TooYoung
  BY DEF Report, TooYoung, Audited, FileEntries, Covered, Cutoff, input
<1>2. CASE errs # {}
  BY <1>2 DEF Report, Exit, AuditVerdict
<1>3. CASE errs = {} /\ violations = {}
  BY <1>1, <1>3, AllJudged DEF Report, Exit, AuditVerdict
<1>4. CASE errs = {} /\ violations # {}
  <2>1. exit' = 1 /\ table' \in Sorted(violations)
    BY <1>4 DEF Report, Exit
  <2>2. TooYoung = {v.pin : v \in violations}
    BY <1>4, AllJudged DEF Report
  <2>3. Cardinality(violations) = Cardinality(TooYoung) /\ Cardinality(violations) \in Nat
    BY <2>2, EachOnce, FS_CardinalityType DEF Report, Fetching
  <2>4. DOMAIN table' = 1 .. Cardinality(violations)
    BY <2>1 DEF Sorted
  <2>5. Cardinality(DOMAIN table') = Cardinality(violations)
    BY <2>3, <2>4, FS_Interval
  <2>6. {table'[i].pin : i \in DOMAIN table'} = {v.pin : v \in violations}
    BY <2>1, <2>4 DEF Sorted
  <2>7. TooYoung # {}
    BY <2>2, <1>4
  <2>8. TooYoung' = {table'[i].pin : i \in DOMAIN table'}
    BY <1>1, <2>2, <2>6
  <2>9. Cardinality(DOMAIN table') = Cardinality(TooYoung') /\ TooYoung' # {}
    BY <1>1, <2>3, <2>5, <2>7
  <2> QED
    BY <2>1, <2>8, <2>9 DEF AuditVerdict
<1> QED
  BY <1>2, <1>3, <1>4

\* main starts with the invariant and without a verdict.
LEMMA AuditStarts == Init => AuditInv /\ AuditVerdict
<1> SUFFICES ASSUME Init PROVE AuditInv /\ AuditVerdict
  OBVIOUS
<1> USE AuditAssumption DEF Init
<1>1. TypeOK
  BY DEF TypeOK
<1>2. FilesRead
  BY DEF FilesRead, Filtered, Fetching
<1>3. NothingLost /\ LookedUpOnce
  BY DEF NothingLost, LookedUpOnce, Filtered, Fetching
<1>4. AuditVerdict
  BY DEF AuditVerdict
<1> QED
  BY <1>1, <1>2, <1>3, <1>4 DEF AuditInv
-----------------------------------------------------------------------------

\* For any files, publish times, clock and number of workers, no pin is lost or
\* looked up twice between go.sum and the report (main.go run, loadAllowlist,
\* fetchViolations).
THEOREM AuditInvariant == Spec => []AuditInv
<1>1. AuditInv /\ [Next]_vars => AuditInv'
  BY TypeStep, FilesStep, NothingLostStep, LookedUpOnceStep DEF AuditInv
<1> QED
  BY <1>1, AuditStarts, PTL DEF Spec

\* The exit code of check-go-release-age is the truth about the dependencies, and
\* the table lists exactly the ones that are too young, each once.
THEOREM VerdictIsTrue == Spec => []AuditVerdict
<1>1. AuditInv /\ AuditVerdict /\ [Next]_vars => AuditVerdict'
  BY VerdictStands, ReportTellsTruth
<1> QED
  BY <1>1, AuditStarts, AuditInvariant, PTL DEF Spec

\* The warnings of loadAllowlist flag the entries matches does not honour, up to
\* the time between the two readings of the clock.
THEOREM WarningsAreExceptions == Spec => []WarningsMatchExceptions
<1>1. AuditInv => WarningsMatchExceptions
  <2> SUFFICES ASSUME AuditInv, Filtered PROVE WarningsMatchExceptions
    BY DEF WarningsMatchExceptions, Filtered, Fetching
  <2>1. /\ warned = {e \in FileEntries : Warned(e, loadedAt)}
        /\ loadedAt <= now /\ loadedAt \in Int /\ now \in Int
    BY DEF AuditInv, FilesRead, TypeOK
  <2>2. \A e \in FileEntries : HasDate(e) <=> e.expires \in Int
    BY FileEntryTypes, AuditAssumption DEF AuditInv, Entries, HasDate
  <2> QED
    BY <2>1, <2>2 DEF Warned, WarningsMatchExceptions
<1> QED
  BY <1>1, AuditInvariant, PTL
=============================================================================
