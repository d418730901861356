---------------------------- MODULE ReleaseAudit ----------------------------
(***************************************************************************)
(* src/hack/check-go-release-age/main.go: the CI tool that refuses a       *)
(* dependency younger than the cooldown window.  One run of the program:   *)
(* main reads go.sum and the allowlist, drops the pins an exception        *)
(* covers, hands the others to worker goroutines over an unbuffered        *)
(* channel, waits for them and turns what they found into an exit code.    *)
(*                                                                         *)
(* Time passes between any two steps: the program reads the clock twice,   *)
(* and an exception may expire in between.  The order of the lines of both *)
(* files is not observable, so files are sets.  What the proxy answers is  *)
(* fixed by `published`; a lookup may fail instead (transport, status,     *)
(* decoding, an empty Time, the 15 second timeout).                        *)
(***************************************************************************)
EXTENDS Integers, FiniteSets

CONSTANTS
  Modules, Versions,  \* module paths and versions
  AnyVersion,         \* an entry with an empty version
  NoDate, BadDate,    \* an entry without `expires`, or with one that does not parse
  Missing,            \* there is no allowlist file
  GoSums,             \* the go.sum files considered: sets of lines
  Allowlists,         \* the allowlist files considered: sets of entries
  PublishTimes,       \* when a version may have been published
  MinAge,             \* -min-age
  Concurrency,        \* the values of -concurrency considered
  StartTime, MaxTime  \* when the program starts, and the bound on the clock

Pins == [module : Modules, version : Versions]

(* `whole`: the line has at least two fields; `goMod`: the second ends in  *)
(* "/go.mod".                                                              *)
Lines == [module : Modules, version : Versions, goMod : BOOLEAN, whole : BOOLEAN]

(* An expiry date stands for the midnight that begins it.                  *)
Entries == [module : Modules, version : Versions \cup {AnyVersion},
            expires : Int \cup {NoDate, BadDate}]

ASSUME AuditAssumption ==
  /\ AnyVersion \notin Versions
  /\ NoDate \notin Int /\ BadDate \notin Int
  /\ \A f \in GoSums : IsFiniteSet(f) /\ \A l \in f : l \in Lines
  /\ \A f \in Allowlists : f # Missing /\ \A e \in f : e \in Entries
  /\ PublishTimes \subseteq Int /\ MinAge \in Int /\ StartTime \in Int /\ MaxTime \in Int
  /\ Concurrency \subseteq Int

VARIABLES
  goSum, allowFile, published, concurrency,  \* the input
  clock,       \* the wall clock
  phase,       \* where main is
  pins,        \* run's pins; after the filter, the ones still to be sent
  exclude,     \* allowlist.Exclude
  warned,      \* entries named in allowWarnings
  loadedAt,    \* `now` of loadAllowlist
  now,         \* `now` of run
  worker,      \* each worker: the pin it looks up, "idle" or "gone"
  errs,        \* pins whose lookup failed
  violations,  \* what the workers found: pin and age at that moment
  table,       \* the printed violations
  exit         \* the exit code; -1 while the program runs

input == <<goSum, allowFile, published, concurrency>>
vars == <<input, clock, phase, pins, exclude, warned, loadedAt, now, worker,
          errs, violations, table, exit>>

Idle == [module |-> "idle"]
Gone == [module |-> "gone"]

Init ==
  /\ goSum \in GoSums
  /\ allowFile \in Allowlists \cup {Missing}
  /\ published \in [Pins -> PublishTimes]
  /\ concurrency \in Concurrency
  /\ clock = StartTime /\ loadedAt = StartTime /\ now = StartTime
  /\ phase = "parse"
  /\ pins = {} /\ exclude = {} /\ warned = {}
  /\ worker = << >>
  /\ errs = {} /\ violations = {} /\ table = << >>
  /\ exit = -1

-----------------------------------------------------------------------------
(* Files.                                                                  *)

PinOf(l) == [module |-> l.module, version |-> l.version]

(* parseGoSum: one pin per module and version, "/go.mod" lines included;   *)
(* a line of one field says nothing.                                       *)
parseGoSum(f) == {PinOf(l) : l \in {k \in f : k.whole}}

HasDate(e) == e.expires \notin {NoDate, BadDate}

(* Wrong: an entry without a date is not warned of.                        *)
WarnedDated(e, t) == HasDate(e) /\ t > e.expires

(* loadAllowlist warns of an entry without a date, with an unparseable one *)
(* and with one that has passed.                                           *)
Warned(e, t) == ~HasDate(e) \/ t > e.expires

(* Wrong: an entry whose date has passed still counts.                     *)
matchesExpired(f, p, t) ==
  \E e \in f : /\ e.module = p.module
               /\ e.version \in {AnyVersion, p.version}
               /\ HasDate(e)

(* allowlist.matches.                                                      *)
matches(f, p, t) ==
  \E e \in f : /\ e.module = p.module
               /\ e.version \in {AnyVersion, p.version}
               /\ HasDate(e) /\ t <= e.expires

-----------------------------------------------------------------------------
(* main: its return and os.Exit.                                           *)
Exit(code) == phase' = "exited" /\ exit' = code

ParseGoSum ==
  /\ phase = "parse"
  /\ \/ /\ pins' = parseGoSum(goSum)
        /\ phase' = "load" /\ UNCHANGED exit
     \/ Exit(2) /\ UNCHANGED pins
  /\ UNCHANGED <<input, clock, exclude, warned, loadedAt, now, worker, errs,
                 violations, table>>

(* loadAllowlist.                                                          *)
LoadAllowlist ==
  /\ phase = "load"
  /\ \/ /\ allowFile = Missing
        /\ phase' = "filter"
        /\ UNCHANGED <<exclude, warned, loadedAt, exit>>
     \/ /\ allowFile # Missing
        /\ exclude' = allowFile
        /\ warned' = {e \in allowFile : Warned(e, clock)}
        /\ loadedAt' = clock
        /\ phase' = "filter" /\ UNCHANGED exit
     \/ /\ allowFile # Missing
        /\ Exit(2)
        /\ UNCHANGED <<exclude, warned, loadedAt>>
  /\ UNCHANGED <<input, clock, pins, now, worker, errs, violations, table>>

(* run's second reading of the clock.                                      *)
Filter ==
  /\ phase = "filter"
  /\ now' = clock
  /\ pins' = {p \in pins : ~matches(exclude, p, clock)}
  /\ phase' = "spawn"
  /\ UNCHANGED <<input, clock, exclude, warned, loadedAt, worker, errs,
                 violations, table, exit>>

-----------------------------------------------------------------------------
(* fetchViolations.                                                        *)

(* Wrong: the flag is taken as it is.                                      *)
SpawnUnclamped ==
  /\ phase = "spawn"
  /\ worker' = [w \in 1 .. concurrency |-> Idle]
  /\ phase' = "send"
  /\ UNCHANGED <<input, clock, pins, exclude, warned, loadedAt, now, errs,
                 violations, table, exit>>

Spawn ==
  /\ phase = "spawn"
  /\ worker' = [w \in 1 .. (IF concurrency < 1 THEN 1 ELSE concurrency) |-> Idle]
  /\ phase' = "send"
  /\ UNCHANGED <<input, clock, pins, exclude, warned, loadedAt, now, errs,
                 violations, table, exit>>

(* jobs <- p meets `range jobs` in an idle worker.                         *)
Send(w, p) ==
  /\ phase = "send" /\ p \in pins
  /\ worker[w] = Idle
  /\ worker' = [worker EXCEPT ![w] = p]
  /\ pins' = pins \ {p}
  /\ UNCHANGED <<input, clock, phase, exclude, warned, loadedAt, now, errs,
                 violations, table, exit>>

(* close(jobs), then wg.Wait.                                              *)
Close ==
  /\ phase = "send" /\ pins = {}
  /\ phase' = "wait"
  /\ UNCHANGED <<input, clock, pins, exclude, warned, loadedAt, now, worker,
                 errs, violations, table, exit>>

Cutoff == now - MinAge

(* Wrong: a lookup that fails is forgotten.                                *)
FetchLost(w) ==
  /\ worker[w] \in Pins
  /\ worker' = [worker EXCEPT ![w] = Idle]
  /\ UNCHANGED <<input, clock, phase, pins, exclude, warned, loadedAt, now,
                 errs, violations, table, exit>>

(* fetchInfo returns an error.                                             *)
FetchFails(w) ==
  /\ worker[w] \in Pins
  /\ errs' = errs \cup {worker[w]}
  /\ worker' = [worker EXCEPT ![w] = Idle]
  /\ UNCHANGED <<input, clock, phase, pins, exclude, warned, loadedAt, now,
                 violations, table, exit>>

(* fetchInfo returns the publish time; the age is taken at this moment.    *)
FetchReturns(w) ==
  /\ worker[w] \in Pins
  /\ LET p == worker[w] IN
       violations' = violations \cup
         IF published[p] > Cutoff THEN {[pin |-> p, age |-> clock - published[p]]} ELSE {}
  /\ worker' = [worker EXCEPT ![w] = Idle]
  /\ UNCHANGED <<input, clock, phase, pins, exclude, warned, loadedAt, now,
                 errs, table, exit>>

(* The range loop of a worker ends on the closed channel.                  *)
WorkerEnds(w) ==
  /\ phase = "wait"
  /\ worker[w] = Idle
  /\ worker' = [worker EXCEPT ![w] = Gone]
  /\ UNCHANGED <<input, clock, phase, pins, exclude, warned, loadedAt, now,
                 errs, violations, table, exit>>

(* sort.Slice by AgeDays: some sorted order, ties as they come.            *)
Sorted(vs) ==
  {s \in [1 .. Cardinality(vs) -> vs] :
     /\ \A v \in vs : \E i \in DOMAIN s : s[i] = v
     /\ \A i, j \in DOMAIN s : i < j => s[i].age <= s[j].age}

(* wg.Wait returns and run decides; lookup errors outrank violations.      *)
Report ==
  /\ phase = "wait"
  /\ \A w \in DOMAIN worker : worker[w] = Gone
  /\ \/ errs # {} /\ Exit(2) /\ UNCHANGED table
     \/ errs = {} /\ violations = {} /\ Exit(0) /\ UNCHANGED table
     \/ errs = {} /\ violations # {} /\ Exit(1) /\ table' \in Sorted(violations)
  /\ UNCHANGED <<input, clock, pins, exclude, warned, loadedAt, now, worker,
                 errs, violations>>

-----------------------------------------------------------------------------

Tick ==
  /\ exit = -1 /\ clock < MaxTime
  /\ clock' = clock + 1
  /\ UNCHANGED <<input, phase, pins, exclude, warned, loadedAt, now, worker,
                 errs, violations, table, exit>>

Exited == exit # -1 /\ UNCHANGED vars

Main == ParseGoSum \/ LoadAllowlist \/ Filter \/ Spawn \/ Close \/ Report
Fetch(w) == FetchFails(w) \/ FetchReturns(w)
Worker(w) == Fetch(w) \/ WorkerEnds(w) \/ \E p \in pins : Send(w, p)

Next ==
  \/ Main
  \/ \E w \in DOMAIN worker : Worker(w)
  \/ Tick
  \/ Exited

Spec == Init /\ [][Next]_vars

(* Goroutines are scheduled and every lookup ends, by its timeout at the   *)
(* latest.                                                                 *)
FairSpec == Spec /\ WF_vars(Main) /\ WF_vars(\E w \in DOMAIN worker : Worker(w))

-----------------------------------------------------------------------------
(* Properties.                                                             *)

Held == {worker[w] : w \in DOMAIN worker} \cap Pins

(* What the audit is for, from the files and the clock alone: a line of    *)
(* go.sum pins a version, no live exception covers it, and it was          *)
(* published after the cutoff.                                             *)
FileEntries == IF allowFile = Missing THEN {} ELSE allowFile
Audited == {PinOf(l) : l \in {k \in goSum : k.whole}}
Covered(p) ==
  \E e \in FileEntries : /\ e.module = p.module
                         /\ e.version = p.version \/ e.version = AnyVersion
                         /\ e.expires \in Int /\ ~(now > e.expires)
TooYoung == {p \in Audited : ~Covered(p) /\ published[p] > Cutoff}

TypeOK ==
  /\ goSum \in GoSums /\ allowFile \in Allowlists \cup {Missing}
  /\ published \in [Pins -> PublishTimes] /\ concurrency \in Concurrency
  /\ clock \in Int /\ loadedAt \in Int /\ now \in Int
  /\ phase \in {"parse", "load", "filter", "spawn", "send", "wait", "exited"}
  /\ pins \subseteq Pins /\ errs \subseteq Pins
  /\ violations \subseteq [pin : Pins, age : Int]
  /\ worker \in [DOMAIN worker -> Pins \cup {Idle, Gone}]
  /\ exit \in {-1, 0, 1, 2} /\ (exit = -1 <=> phase # "exited")

(* The workers have begun, and main has not reported.                      *)
Fetching == phase \in {"send", "wait"}
Filtered == phase = "spawn" \/ Fetching

(* What main has read: the pins, the exceptions, and the entries it warned *)
(* of when it read them.                                                   *)
FilesRead ==
  /\ loadedAt <= clock /\ now <= clock
  /\ phase \in {"load", "filter"} => pins = Audited
  /\ phase = "filter" \/ Filtered =>
       /\ exclude = FileEntries
       /\ warned = {e \in FileEntries : Warned(e, loadedAt)}
  /\ phase = "parse" \/ phase = "load" => exclude = {} /\ warned = {}
  /\ Filtered => loadedAt <= now

(* Nothing is lost: every pin no exception covers is still to be sent, in  *)
(* a worker's hands, reported as an error, found too young or old enough.  *)
NothingLost ==
  /\ Filtered =>
       /\ \A p \in Audited : \/ Covered(p) \/ published[p] <= Cutoff
                             \/ p \in pins \cup Held \cup errs
                             \/ \E v \in violations : v.pin = p
       /\ \A v \in violations : v.pin \in TooYoung
       /\ pins \cup Held \cup errs \subseteq {p \in Audited : ~Covered(p)}
  /\ ~Fetching /\ phase # "exited" => worker = << >> /\ errs = {} /\ violations = {}
  /\ phase = "wait" => pins = {}

(* Nothing is looked up twice: a pin is to be sent, with one worker, or    *)
(* judged once.                                                            *)
LookedUpOnce ==
  Fetching =>
    /\ pins \cap Held = {}
    /\ \A w, x \in DOMAIN worker : worker[w] \in Pins /\ worker[w] = worker[x] => w = x
    /\ \A v \in violations : v.pin \notin pins \cup Held
    /\ \A v, u \in violations : v.pin = u.pin => v = u

(* Types, and what main and the workers leave behind at every step         *)
(* (main.go run, loadAllowlist and fetchViolations).                       *)
AuditInv == TypeOK /\ FilesRead /\ NothingLost /\ LookedUpOnce

(* The exit code is the truth about the dependencies: 0 only when no pin   *)
(* is too young, 1 with exactly the pins that are, each once, however the  *)
(* lookups interleave and whenever an exception expires (main.go run,      *)
(* matches, fetchViolations).                                              *)
AuditVerdict ==
  /\ exit = 0 => TooYoung = {}
  /\ exit = 1 => /\ TooYoung = {table[i].pin : i \in DOMAIN table}
                 /\ Cardinality(DOMAIN table) = Cardinality(TooYoung)
                 /\ TooYoung # {}

(* The comment on matches: "The existing loadAllowlist warnings flag the   *)
(* same entries".  They do up to the two readings of the clock: an entry   *)
(* that was warned of is never honoured, and one that is not honoured was  *)
(* warned of unless it expired between them (main.go loadAllowlist,        *)
(* matches).                                                               *)
WarningsMatchExceptions ==
  phase \in {"spawn", "send", "wait"} =>
    /\ \A e \in warned : ~(e.expires \in Int /\ now <= e.expires)
    /\ \A e \in FileEntries \ warned :
         e.expires \in Int /\ (now > e.expires => loadedAt <= e.expires)

(* The program ends: every pin is sent to some worker whatever the         *)
(* -concurrency flag says, and the workers leave their loops (main.go      *)
(* fetchViolations).                                                       *)
AuditEnds == <>(exit # -1)
=============================================================================
