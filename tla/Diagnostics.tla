----------------------------- MODULE Diagnostics -----------------------------
(***************************************************************************)
(* src/httpclient/response.go, DecodeError once a response turns out not   *)
(* to be a registered garlic error: what of the peer's bytes is kept, and  *)
(* where.  Details cross the wire again; the troubleshooting context and   *)
(* the message stay in the logs.                                           *)
(*                                                                         *)
(* A byte is "a" (printable ASCII), "q" (ASCII that strconv.Quote          *)
(* escapes), "2" or "3" (the first of a rune of that many bytes), "c" (a   *)
(* continuation byte) or "x" (never valid).  In a raw JSON string "e" is a *)
(* two-byte escape that decodes to "q".                                    *)
(***************************************************************************)
EXTENDS Naturals, Sequences, SequencesExt

CONSTANTS
  maxDiagnosticBytes,
  maxMediaTypeComponentBytes,
  MaxBody,   \* bound on the length of a body
  MaxRaw     \* bound on the length of a raw JSON string

ASSUME DiagnosticsAssumption ==
  maxDiagnosticBytes \in Nat /\ maxMediaTypeComponentBytes \in Nat

VARIABLES response, failure

diagVars == <<response, failure>>

Bytes == {"a", "q", "2", "3", "c", "x"}

(* Content-Type, as mime.ParseMediaType sees it: it parses, it has a       *)
(* slash, and the lengths of the two halves.                               *)
Headers == [parses : BOOLEAN, slash : BOOLEAN,
            main : 0 .. maxMediaTypeComponentBytes + 1,
            sub : 0 .. maxMediaTypeComponentBytes + 1]

Absent == <<"absent">>  \* a member that is missing or not a string

None == [is |-> "none"]

(* A body that is no garlic error, or whose reading failed; and a garlic   *)
(* error whose kind is not registered here.                                *)
Unregistered ==
  [is : {"unregistered"}, code : BoundedSeq({"a", "e", "2", "c", "x"}, MaxRaw) \ {<<>>},
   name : {Absent, << >>, <<"e", "a">>, <<"2">>}, message : {Absent, <<"a", "a", "2", "c">>}]

Foreign == [is : {"foreign"}, body : BoundedSeq(Bytes, MaxBody), readErr : BOOLEAN]

-----------------------------------------------------------------------------
(* utf8.DecodeRune at position i: the size of the rune, 0 when invalid.    *)
DecodeRune(v, i) ==
  LET follow(n) == i + n <= Len(v) /\ \A k \in 1 .. n : v[i + k] = "c"
  IN  CASE v[i] \in {"a", "q"} -> 1
        [] v[i] = "2" /\ follow(1) -> 2
        [] v[i] = "3" /\ follow(2) -> 3
        [] OTHER -> 0

Invalid == maxDiagnosticBytes + 1

(* Wrong: the prefix ends at the limit, in the middle of a rune.           *)
boundedPrefixCut(v) ==
  LET stop[end \in 0 .. Len(v)] ==
        IF end >= Len(v) \/ end >= maxDiagnosticBytes THEN end
        ELSE LET size == DecodeRune(v, end + 1)
             IN  IF size = 0 THEN Invalid
                 ELSE IF end + size > maxDiagnosticBytes THEN maxDiagnosticBytes
                 ELSE stop[end + size]
  IN  stop[0]

(* boundedPrefix: how many bytes are kept.                                 *)
boundedPrefix(v) ==
  LET stop[end \in 0 .. Len(v)] ==
        IF end >= Len(v) \/ end >= maxDiagnosticBytes THEN end
        ELSE LET size == DecodeRune(v, end + 1)
             IN  IF size = 0 THEN Invalid
                 ELSE IF end + size > maxDiagnosticBytes THEN end
                 ELSE stop[end + size]
  IN  stop[0]

Dropped(length) == [text |-> << >>, length |-> length,
                    truncated |-> length > maxDiagnosticBytes, readable |-> FALSE]

captureDiagnostic(v) ==
  LET end == boundedPrefix(v)
  IN  IF end = Invalid THEN Dropped(Len(v))
      ELSE [text |-> SubSeq(v, 1, end), length |-> Len(v),
            truncated |-> end < Len(v), readable |-> TRUE]

NoCapture == [text |-> << >>, length |-> 0, truncated |-> FALSE, readable |-> FALSE]

describeBody(body, readErr) ==
  IF ~readErr /\ body = << >> THEN NoCapture ELSE captureDiagnostic(body)

(* The bytes of a raw string between its quotes, and what it decodes to.   *)
RawBytes(raw) == FlattenSeq([i \in DOMAIN raw |-> IF raw[i] = "e" THEN <<"a", "a">> ELSE <<raw[i]>>])
Unescaped(raw) == [i \in DOMAIN raw |-> IF raw[i] = "e" THEN "q" ELSE raw[i]]

utf8Valid(v) ==
  LET ok[i \in 1 .. Len(v) + 1] ==
        i > Len(v) \/ (DecodeRune(v, i) # 0 /\ ok[i + DecodeRune(v, i)])
  IN  ok[1]

(* capturePeerString reports false for a missing or an empty string.       *)
IsPeerString(raw) == raw \notin {Absent, << >>}

capturePeerString(raw) ==
  IF ~IsPeerString(raw) THEN NoCapture
  ELSE IF ~utf8Valid(RawBytes(raw)) THEN Dropped(Len(RawBytes(raw)))
  ELSE captureDiagnostic(Unescaped(raw))

(* strconv.Quote: quotes around, and an escape of two bytes for "q".       *)
Quote(text) ==
  <<"a">> \o FlattenSeq([i \in DOMAIN text |-> IF text[i] = "q" THEN <<"a", "a">> ELSE <<text[i]>>])
          \o <<"a">>

(* renderReceived: an unreadable value is named by its length alone.       *)
renderReceived(c) ==
  IF c.readable THEN captureDiagnostic(Quote(c.text)).text ELSE << >>

mediaTypeComponent(n) == n > 0 /\ n <= maxMediaTypeComponentBytes

(* safeMediaType: the halves kept, or <<>>.                                *)
safeMediaType(h) ==
  IF h.parses /\ h.slash /\ mediaTypeComponent(h.main) /\ mediaTypeComponent(h.sub)
  THEN <<h.main, h.sub>> ELSE << >>

(* capturedFields: three fields, the text only when readable.              *)
capturedFields(name, c) ==
  {[name |-> name, part |-> "bytes", value |-> c.length],
   [name |-> name, part |-> "truncated", value |-> IF c.truncated THEN 1 ELSE 0]}
  \cup IF c.readable THEN {[name |-> name, part |-> "text", value |-> c.text]} ELSE {}

responseMetadata(mediaType, c) ==
  [body_bytes |-> c.length, truncated |-> c.truncated, content_type |-> mediaType]

NoMetadata == [body_bytes |-> 0, truncated |-> FALSE, content_type |-> << >>]

unknownKindFields(r, code) ==
  LET member(name, raw) ==
        IF IsPeerString(raw) THEN capturedFields(name, capturePeerString(raw)) ELSE {}
  IN  capturedFields("received_kind", code)
      \cup member("received_name", r.name) \cup member("received_message", r.message)

-----------------------------------------------------------------------------

DiagInit == response \in Unregistered \cup Foreign /\ failure = None
DiagIdle == response = None /\ failure = None

(* DecodeError, the kind is not registered here.                           *)
DecodeUnknownKind ==
  /\ response.is = "unregistered" /\ failure = None
  /\ LET code == capturePeerString(response.code)
     IN  failure' = [is |-> "unknown_kind", message |-> renderReceived(code),
                     details |-> NoMetadata,
                     context |-> unknownKindFields(response, code)]
  /\ UNCHANGED response

(* DecodeError, the body is no garlic error or did not arrive in full.     *)
DecodeForeignBody ==
  /\ response.is = "foreign" /\ failure = None
  /\ \E h \in Headers :
       LET snippet == describeBody(response.body, response.readErr)
       IN  failure' = [is |-> "fallback", message |-> << >>,
                       details |-> responseMetadata(safeMediaType(h), snippet),
                       context |-> capturedFields("body", snippet)]
  /\ UNCHANGED response

DiagNext == DecodeUnknownKind \/ DecodeForeignBody

-----------------------------------------------------------------------------
(* Well-formed UTF-8, byte by byte.                                        *)
WellFormed(s) ==
  \A i \in DOMAIN s :
    CASE s[i] \in {"a", "q"} -> TRUE
      [] s[i] = "2" -> i + 1 \in DOMAIN s /\ s[i + 1] = "c"
      [] s[i] = "3" -> i + 2 \in DOMAIN s /\ s[i + 1] = "c" /\ s[i + 2] = "c"
      [] s[i] = "c" -> \/ i > 1 /\ s[i - 1] \in {"2", "3"}
                       \/ i > 2 /\ s[i - 1] = "c" /\ s[i - 2] = "3"
      [] s[i] = "x" -> FALSE

(* Every value the capture is made from, by the field it is kept under.    *)
PeerValue(name) ==
  CASE name = "body" -> response.body
    [] name = "received_kind" -> Unescaped(response.code)
    [] name = "received_name" -> Unescaped(response.name)
    [] name = "received_message" -> Unescaped(response.message)

(* What is kept of a peer's bytes is the longest well-formed prefix within *)
(* the limit; it is kept exactly when no ill-formed rune starts within the *)
(* limit, and "truncated" says whether anything is missing.  The message   *)
(* is within the limit too and holds nothing unescaped, and the details,   *)
(* which go back on the wire, hold no text of the peer but a short media   *)
(* type (response.go boundedPrefix, captureDiagnostic, renderReceived).    *)
DiagnosticsExact ==
  failure # None =>
    /\ \A f \in failure.context :
         LET v == PeerValue(f.name)
             fits == {p \in Prefixes(v) : WellFormed(p) /\ Len(p) <= maxDiagnosticBytes}
         IN  /\ f.part = "text" =>
                  /\ f.value \in fits
                  /\ \A p \in fits : Len(p) <= Len(f.value)
                  /\ \E p \in Prefixes(v) :
                       WellFormed(p) /\ (p = v \/ Len(p) >= maxDiagnosticBytes)
                  /\ (f.value # v) <=> ([f EXCEPT !.part = "truncated", !.value = 1] \in failure.context)
    /\ WellFormed(failure.message) /\ Len(failure.message) <= maxDiagnosticBytes
    /\ \A i \in DOMAIN failure.message : failure.message[i] # "q"
    /\ \A i \in DOMAIN failure.details.content_type :
         failure.details.content_type[i] \in 1 .. maxMediaTypeComponentBytes
    /\ response.is = "foreign" =>
         /\ failure.details.body_bytes = Len(response.body)
         /\ (\E p \in Prefixes(response.body) :
               WellFormed(p) /\ (p = response.body \/ Len(p) >= maxDiagnosticBytes))
            => \/ response.body = << >> /\ ~response.readErr
               \/ \E f \in failure.context : f.part = "text"
=============================================================================
