------------------------------ MODULE ErrorWire ------------------------------
(***************************************************************************)
(* One failure on its way through a chain of garlic services: built by the  *)
(* errors package, propagated by handlers, written by rest.WriteError,      *)
(* carried as an HTTP status and a DTO, and rebuilt by httpclient's         *)
(* Response.DecodeError in the service that called, which does the same.    *)
(* Of an error only what can be seen of it is kept: its kind and pinned     *)
(* status, its origin, for whom its message was written, its details.       *)
(* Every read of a chain takes the outermost ErrorT, so causes are left     *)
(* out. Not followed: the log, the troubleshooting data, the private        *)
(* context, none of which is sent.                                          *)
(***************************************************************************)
EXTENDS Naturals, FiniteSets

CONSTANTS Hops,       \* bound: services in the chain
          Standard,   \* the statuses http.StatusText knows
          Odd,        \* further statuses an error may be pinned to
          AppKinds,   \* kinds the application registers: code -> [status, parent]
          Known       \* service -> the codes registered there

Statuses == Standard \cup Odd

-----------------------------------------------------------------------------
(* Kinds                                                                     *)

NoKind == <<"", 0>>
NotDefined == 0

KindError                == <<"P", 0>>
KindUserError            == <<"P", 1>>
KindSystemError          == <<"P", 2>>
KindResponseDecodeError  == <<"C", 10001>>
KindUnknownResponseError == <<"C", 10003>>

Primitive == [c \in {KindError, KindUserError, KindSystemError} |->
  [status |-> CASE c = KindError -> NotDefined [] c = KindUserError -> 400 [] OTHER -> 500,
   parent |-> IF c = KindError THEN NoKind ELSE KindError]]

\* Wrong: every status from 400 up is blamed on the user.
classOpenEnded(status) == IF status >= 400 THEN KindUserError ELSE KindSystemError

classForStatus(status) ==
  IF status >= 400 /\ status < 500 THEN KindUserError ELSE KindSystemError

Secondary == [c \in {<<"S", s>> : s \in Standard} |->
  [status |-> c[2], parent |-> classForStatus(c[2])]]

\* The kinds of common.go below a status, where Standard has it.
ChildOf ==
  [c \in {<<"C", 1>>, <<"C", 3>>, <<"C", 4>>, <<"C", 5>>} |->
     CASE c[2] = 1 -> 400 [] c[2] = 3 -> 401 [] c[2] = 4 -> 403 [] c[2] = 5 -> 404]

Tertiary ==
  [c \in {c \in DOMAIN ChildOf : ChildOf[c] \in Standard}
           \cup {<<"C", 6>>, <<"C", 7>>, KindResponseDecodeError, KindUnknownResponseError} |->
     [status |-> NotDefined,
      parent |-> CASE c \in DOMAIN ChildOf -> <<"S", ChildOf[c]>>
                   [] c = <<"C", 7>>       -> <<"C", 6>>
                   [] OTHER                -> KindSystemError]]

Codes == DOMAIN Primitive \cup DOMAIN Secondary \cup DOMAIN Tertiary \cup DOMAIN AppKinds

Registered(c) ==
  CASE c \in DOMAIN Primitive -> Primitive[c]
    [] c \in DOMAIN Secondary -> Secondary[c]
    [] c \in DOMAIN Tertiary  -> Tertiary[c]
    [] OTHER                  -> AppKinds[c]

\* Kind.StatusCode of a registered kind.
StatusCode[c \in Codes] ==
  LET k == Registered(c)
  IN  IF k.status # NotDefined THEN k.status
      ELSE IF k.parent = NoKind THEN 500 ELSE StatusCode[k.parent]

\* The codes Kind.Is answers true for.
Ancestry[c \in Codes] ==
  LET k == Registered(c)
  IN  {c} \cup IF k.parent = NoKind THEN {} ELSE Ancestry[k.parent]

UserCodes == {c \in Codes : KindUserError \in Ancestry[c]}

KindForStatus(status) ==
  IF status \in Standard THEN <<"S", status>> ELSE classForStatus(status)

\* A kind value: a registered one, or the copy CustomizeStatusCode makes of it.
Kinds == [code : Codes, pin : Statuses \cup {NotDefined}]

KindStatus(k) == IF k.pin # NotDefined THEN k.pin ELSE StatusCode[k.code]

CustomizeStatusCode(k, status) ==
  IF status = NotDefined THEN k ELSE [k EXCEPT !.pin = status]

ASSUME HopsAssumption ==
  /\ Hops \in Nat \ {0}
  /\ Known \in [1 .. Hops -> SUBSET Codes]

\* The application's kinds: finitely many, each with a status or none, and with
\* no parent or one that existed before it (order numbers them as they are
\* made), so that walking up ends.
ASSUME KindAssumption ==
  /\ Statuses \subseteq Nat \ {0} /\ {400, 500} \subseteq Statuses
  /\ IsFiniteSet(DOMAIN AppKinds) /\ NoKind \notin DOMAIN AppKinds
  /\ \A c \in DOMAIN AppKinds : /\ AppKinds[c].status \in Statuses \cup {NotDefined}
                               /\ AppKinds[c].parent \in Codes \cup {NoKind}
  /\ \E order \in [DOMAIN AppKinds -> 1 .. Cardinality(DOMAIN AppKinds)] :
       \A c \in DOMAIN AppKinds :
         AppKinds[c].parent \in DOMAIN AppKinds => order[AppKinds[c].parent] < order[c]

-----------------------------------------------------------------------------
(* Errors                                                                    *)

\* Details: the keys of the map. "odd" stands for a value JSON cannot encode.
Nil == {"<nil>"}
DetailKeys == {"hint", "odd", "metadata"}
DetailMaps == {Nil} \cup SUBSET DetailKeys

\* For whom a message was written: callers of a user-class kind, the log of the
\* service (any other), or anybody (a kind's description and fixed texts).
Texts == {"user", "system", "static"}

\* The outermost ErrorT of an error. foreign: a plain Go error is around it, or
\* (kind.code = NoKind) there is no ErrorT at all.
Errors ==
  [kind : Kinds \cup {[code |-> NoKind, pin |-> NotDefined]},
   origin : Codes \cup {NoKind}, text : Texts, details : DetailMaps, foreign : BOOLEAN]

IsUser(e) == e.kind.code \in UserCodes

newErrorT(kind, text, origin) ==
  [kind |-> kind, origin |-> origin, text |-> text, details |-> {}, foreign |-> FALSE]

\* The message a caller of New or Propagate writes for an error of this kind.
Written(kind) == IF kind.code \in UserCodes THEN "user" ELSE "system"

\* Wrong: a new kind comes with its own status.
inheritNothing(kind, cause) == kind

inheritStatusCustomization(kind, cause) ==
  IF kind.pin # NotDefined THEN kind ELSE CustomizeStatusCode(kind, cause.pin)

wrap(e, other) ==
  IF other.foreign
  THEN e
  ELSE [e EXCEPT !.kind = inheritStatusCustomization(e.kind, other.kind),
                 !.details = other.details]

\* Also PropagateAs, but for its trace entry.
From(kind, cause, text) == wrap(newErrorT(kind, text, NoKind), cause)

DetailsOpt(e, keys) ==
  [e EXCEPT !.details = (IF @ = Nil THEN {} ELSE @) \cup keys]

\* The origin is kept as the code it is sent as.
Override(kind, origin) == newErrorT(kind, Written(kind), origin)

MirrorOverride(kind, origin) == newErrorT(kind, "static", origin)

GoError == [kind |-> [code |-> NoKind, pin |-> NotDefined], origin |-> NoKind,
            text |-> "system", details |-> Nil, foreign |-> TRUE]

\* ErrorT.StatusCode of what errors.As finds; WriteError takes the rest for a 500.
StatusOf(e) == IF e.kind.code = NoKind THEN 500 ELSE KindStatus(e.kind)

-----------------------------------------------------------------------------
(* The wire                                                                  *)

\* A DTO as the receiver parses it. code = NoKind: the body is not a DTO.
DTOs == [code : Codes \cup {NoKind}, text : Texts, origin : Codes \cup {NoKind},
         details : DetailMaps]

NotDTO == [code |-> NoKind, text |-> "static", origin |-> NoKind, details |-> Nil]

\* omitempty leaves an empty map out, and it comes back as nil.
ErrorDTO(e) ==
  [code |-> e.kind.code, text |-> e.text, origin |-> e.origin,
   details |-> IF e.details = {} THEN Nil ELSE e.details]

\* Wrong: the status, not the class, decides what may be said.
protectByStatus(e) ==
  IF KindStatus(e.kind) < 400 \/ KindStatus(e.kind) >= 500
  THEN ErrorDTO(DetailsOpt(MirrorOverride([code |-> KindForStatus(KindStatus(e.kind)),
                                           pin |-> NotDefined], e.kind.code), {"hint"}))
  ELSE ErrorDTO(e)

protectErrorDTO(e) ==
  IF ~IsUser(e)
  THEN ErrorDTO(DetailsOpt(MirrorOverride([code |-> KindForStatus(KindStatus(e.kind)),
                                           pin |-> NotDefined], e.kind.code), {"hint"}))
  ELSE ErrorDTO(e)

\* Must: the header is out when the encoder finds a value it cannot encode, so
\* only the body becomes the fixed one.
Encoded(dto) ==
  IF "odd" \in dto.details THEN [NotDTO EXCEPT !.code = KindSystemError] ELSE dto

WriteError(e) ==
  LET known == IF e.kind.code = NoKind
               THEN newErrorT([code |-> KindSystemError, pin |-> NotDefined], "static", NoKind)
               ELSE e
  IN  [status |-> KindStatus(known.kind), dto |-> Encoded(protectErrorDTO(known)), cut |-> FALSE]

\* Wrong: a status the kind table does not know is left to the kind's class.
kindOfClass(kind, status) == kind

kindWithStatus(kind, status) ==
  IF KindStatus(kind) = status THEN kind ELSE CustomizeStatusCode(kind, status)

statusKind(status) ==
  kindWithStatus([code |-> KindForStatus(status), pin |-> NotDefined], status)

\* Wrong: the origin does not survive decoding.
DecodeHeadless(dto, status) ==
  [newErrorT(kindWithStatus([code |-> dto.code, pin |-> NotDefined], status), dto.text, NoKind)
     EXCEPT !.details = dto.details]

DecodeFor(dto, status) ==
  [newErrorT(kindWithStatus([code |-> dto.code, pin |-> NotDefined], status), dto.text, dto.origin)
     EXCEPT !.details = dto.details]

\* Response.DecodeError of the reply r in service h.
Decoded(r, h) ==
  CASE r.status < 400 ->
         newErrorT([code |-> KindResponseDecodeError, pin |-> NotDefined], "static", NoKind)
    [] r.status >= 400 /\ ~r.cut /\ r.dto.code \in Known[h] ->
         DecodeFor(r.dto, r.status)
    [] r.status >= 400 /\ ~r.cut /\ r.dto.code \notin Known[h] \cup {NoKind} ->
         From(kindWithStatus([code |-> KindUnknownResponseError, pin |-> NotDefined], r.status),
              newErrorT(statusKind(r.status), "static", NoKind), "system")
    [] OTHER ->
         DetailsOpt(newErrorT(statusKind(r.status), "static", NoKind), {"metadata"})

-----------------------------------------------------------------------------
VARIABLES pc,       \* "start", "handling", "answered" or "panicked"
          hop,      \* the service that has the error
          err,      \* the error there
          reply,    \* what it answered
          given     \* status and class some code last chose for the failure

vars == <<pc, hop, err, reply, given>>

NoReply == [status |-> 500, dto |-> NotDTO, cut |-> FALSE]

\* Status and class of an error.
Face(e) == [status |-> StatusOf(e), user |-> IsUser(e)]

Init ==
  /\ pc = "start" /\ hop = 1 /\ err = GoError
  /\ reply = NoReply /\ given = Face(GoError)

Locals(h) == {k \in Kinds : k.code \in Known[h]}

\* The errors a handler starts with. Mirror is MirrorOverride without an origin.
Births(h) ==
  {GoError}
    \cup {DetailsOpt(newErrorT(k, Written(k), NoKind), d) : k \in Locals(h), d \in SUBSET {"hint", "odd"}}
    \cup {Override(k, o) : k \in Locals(h), o \in Codes \cup {NoKind}}
    \cup {MirrorOverride(k, o) : k \in Locals(h), o \in Codes \cup {NoKind}}

Fail ==
  /\ pc = "start"
  /\ \E e \in Births(hop) : err' = e /\ given' = Face(e)
  /\ pc' = "handling"
  /\ UNCHANGED <<hop, reply>>

\* The kind Propagate gives the new error.
PropagatedKind(e) ==
  IF e.foreign THEN [code |-> KindError, pin |-> NotDefined] ELSE e.kind

\* A handler passes the error on under a message of its own, adding details.
Propagate ==
  /\ pc = "handling"
  /\ \E d \in SUBSET {"odd"} :
       LET k == PropagatedKind(err)
           e == From(k, err, Written(k))
       IN  err' = IF d = {} THEN e ELSE DetailsOpt(e, d)
  /\ given' = IF err.foreign THEN Face(err') ELSE given
  /\ UNCHANGED <<pc, hop, reply>>

\* The same with a Hint, whose option writes into the map it finds.
PropagateWithHint ==
  /\ pc = "handling"
  /\ LET k == PropagatedKind(err)
         e == From(k, err, Written(k))
     IN  IF e.details = Nil
         THEN pc' = "panicked" /\ UNCHANGED <<err, given>>
         ELSE /\ err' = [e EXCEPT !.details = @ \cup {"hint"}]
              /\ given' = IF err.foreign THEN Face(err') ELSE given
              /\ UNCHANGED pc
  /\ UNCHANGED <<hop, reply>>

\* A handler gives the error a kind it chose, pinned or not. With a kind that is
\* not, it does not choose the status of an error that was pinned to one.
PropagateAs ==
  /\ pc = "handling"
  /\ \E k \in Locals(hop) :
       /\ err' = From(k, err, Written(k))
       /\ given' = IF ~err.foreign /\ err.kind.pin # NotDefined /\ k.pin = NotDefined
                   THEN [given EXCEPT !.user = IsUser(err')]
                   ELSE Face(err')
  /\ UNCHANGED <<pc, hop, reply>>

\* fmt.Errorf and the like around the error.
WrapForeign ==
  /\ pc = "handling"
  /\ err' = [err EXCEPT !.foreign = TRUE]
  /\ UNCHANGED <<pc, hop, reply, given>>

\* The handler returns the error: Route.Handler writes the response.
Answer ==
  /\ pc = "handling"
  /\ reply' = WriteError(err)
  /\ pc' = "answered"
  /\ UNCHANGED <<hop, err, given>>

\* The connection ends within the body.
Truncate ==
  /\ pc = "answered" /\ ~reply.cut
  /\ reply' = [reply EXCEPT !.cut = TRUE]
  /\ UNCHANGED <<pc, hop, err, given>>

\* Something between the services answers instead, with a page of its own.
ProxyAnswers ==
  /\ pc = "answered"
  /\ \E s \in Statuses : reply' = [status |-> s, dto |-> NotDTO, cut |-> FALSE]
  /\ given' = [status |-> reply'.status, user |-> classForStatus(reply'.status) = KindUserError]
  /\ UNCHANGED <<pc, hop, err>>

\* The calling service decodes the answer and has the error from now on.
DecodeError ==
  /\ pc = "answered" /\ hop < Hops
  /\ err' = Decoded(reply, hop + 1)
  /\ hop' = hop + 1
  /\ pc' = "handling"
  /\ reply' = NoReply
  /\ UNCHANGED given

Next ==
  \/ Fail \/ Propagate \/ PropagateWithHint \/ PropagateAs \/ WrapForeign
  \/ Answer \/ Truncate \/ ProxyAnswers \/ DecodeError

Spec == Init /\ [][Next]_vars

-----------------------------------------------------------------------------
(* Properties                                                                *)

Replies == [status : Statuses, dto : DTOs, cut : BOOLEAN]

\* The variables have their types.
TypeOK ==
  /\ pc \in {"start", "handling", "answered", "panicked"}
  /\ hop \in 1 .. Hops
  /\ err \in Errors /\ (err.kind.code = NoKind => err.foreign)
  /\ reply \in Replies
  /\ given \in [status : Statuses, user : BOOLEAN]

\* A failure keeps the status it was last given, by New, by PropagateAs or by
\* something on the way, in every service that only passes it on (Propagate,
\* or the error returned as it is), and that is what each answers: whatever
\* becomes of the body, whether or not the kind is known downstream, a
\* non-standard 499 or 599 included. A status that was pinned, by code or by
\* DecodeFor, is also kept by PropagateAs to a kind that is not.
RelayKeepsStatus ==
  pc = "answered" /\ given.status >= 400 => reply.status = given.status

\* A system failure with a 5xx status that is passed on is never taken for the
\* caller's own mistake further up (protectErrorDTO, KindForStatus, DecodeFor).
\* One pinned to a 4xx status is: the next service sees only that status's
\* generic kind, which is a user kind.
SystemFailureStaysSystem ==
  pc = "handling" /\ given.status >= 500 /\ ~given.user => ~IsUser(err)

\* protectErrorDTO: a message written for the log of a service is in no body.
OnlyUserTextCrosses == pc = "answered" => reply.dto.text # "system"

\* The inductive invariant: besides the above, what holds of the error between
\* two answers and of the body between sending and decoding.
WireInv ==
  /\ TypeOK
  /\ pc = "handling" /\ given.status >= 400 => StatusOf(err) = given.status
  /\ err.text = "user" => IsUser(err)
  /\ err.text = "system" => ~IsUser(err)
  /\ pc = "answered" /\ given.status >= 500 /\ ~given.user => reply.dto.code \notin UserCodes
  /\ pc = "answered" /\ reply.dto.text = "user" => reply.dto.code \in UserCodes
  /\ RelayKeepsStatus /\ SystemFailureStaysSystem /\ OnlyUserTextCrosses

\* DecodeError reports the status that arrived; and a user error whose body
\* arrives whole where its kind is registered is the one that was sent: kind,
\* message, details and origin.
DecodedAsSent ==
  [][ pc = "answered" /\ pc' = "handling" /\ reply.status >= 400 =>
        /\ StatusOf(err') = reply.status
        /\ IsUser(err) /\ reply = WriteError(err) /\ "odd" \notin err.details
             /\ err.kind.code \in Known[hop'] =>
               /\ err'.kind.code = err.kind.code /\ err'.text = err.text
               /\ err'.origin = err.origin
               /\ err'.details \ Nil = err.details \ Nil ]_vars

\* A hint may be given to any error that is propagated.
HintNeverPanics == pc # "panicked"

=============================================================================
