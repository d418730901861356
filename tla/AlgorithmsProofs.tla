-------------------------- MODULE AlgorithmsProofs --------------------------
(***************************************************************************)
(* The four computations for inputs of any size: the build tags of any     *)
(* constraint over any tokens, the waits of the retry loop for durations   *)
(* of any width, the propagation analyzer on functions of any number of    *)
(* statements, and what is kept of a peer's bytes of any length.  The last *)
(* two are defined by recursive functions.  That such a function satisfies *)
(* its definition, and what it computes, is proved by induction on a set   *)
(* of natural numbers.                                                     *)
(***************************************************************************)
EXTENDS Algorithms, FiniteSetTheorems, WellFoundedInduction, TLAPS

-----------------------------------------------------------------------------
(* Induction.                                                              *)

\* A set that holds zero and with a number the next one holds every number:
\* a number it missed would have a least one before it.
LEMMA NatInductionOnSets ==
  ASSUME NEW T, 0 \in T, \A n \in Nat : n \in T => n + 1 \in T
  PROVE  Nat \subseteq T
<1> SUFFICES ASSUME Nat \ T # {} PROVE FALSE
  OBVIOUS
<1> DEFINE R == OpToRel(<, Nat)
<1>1. IsWellFoundedOn(R, Nat)
  BY NatLessThanWellFounded
<1>2. \A y, x \in Nat : y < x => <<y, x>> \in R
  BY DEF OpToRel
<1> HIDE DEF R
<1>3. PICK x \in Nat \ T : \A y \in Nat \ T : ~(<<y, x>> \in R)
  BY <1>1, WFMin
<1>4. x - 1 \in Nat /\ x - 1 < x /\ x = (x - 1) + 1
  BY <1>3
<1> QED
  BY <1>2, <1>3, <1>4

-----------------------------------------------------------------------------
(* hasUnitBuildTag.                                                        *)

\* The platform tokens of a constraint occur with one polarity.
OnePolarity(e) ==
  \A l, k \in {l \in UNION e : l.tag \in Platform} : l.neg = k.neg

\* A clause that holds on some platform holds on all of it or on none of it,
\* when the platform tokens occur with one polarity.
LEMMA SamplesDecide ==
  ASSUME NEW e \in SUBSET (SUBSET Literals), OnePolarity(e),
         NEW with \in SUBSET {"unit"}, NEW p \in SUBSET Platform, Satisfied(e, p \cup with)
  PROVE  Satisfied(e, Platform \cup with) \/ Satisfied(e, with)
<1>1. PICK c \in e : \A l \in c : (l.tag \in p \cup with) # l.neg
  BY DEF Satisfied
<1>2. \A l \in c : l \in Literals /\ l \in UNION e /\ l.neg \in BOOLEAN
  BY DEF Literals
<1>3. \A l \in c : l.tag \notin Platform => (l.tag \in p \cup with <=> l.tag \in with)
  OBVIOUS
<1>4. CASE \E k \in c : k.tag \in Platform /\ k.neg
  <2>1. \A l \in c : l.tag \in Platform => l.neg
    BY <1>2, <1>4 DEF OnePolarity
  <2>2. \A l \in c : l.tag \in Platform => l.tag \notin with
    BY TagsAssumption
  <2>3. \A l \in c : (l.tag \in with) # l.neg
    BY <1>1, <1>2, <1>3, <2>1, <2>2
  <2> QED
    BY <2>3 DEF Satisfied
<1>5. CASE \A k \in c : k.tag \in Platform => ~k.neg
  <2>1. \A l \in c : (l.tag \in Platform \cup with) # l.neg
    BY <1>1, <1>2, <1>3, <1>5
  <2> QED
    BY <2>1 DEF Satisfied
<1> QED
  BY <1>4, <1>5

\* So the two samples of the analyzer decide the question for every platform.
LEMMA SamplesSuffice ==
  ASSUME NEW e \in SUBSET (SUBSET Literals), OnePolarity(e), NEW with \in SUBSET {"unit"}
  PROVE  (\E p \in SUBSET Platform : Satisfied(e, p \cup with))
            <=> Satisfied(e, Platform \cup with) \/ Satisfied(e, with)
<1>1. Platform \in SUBSET Platform /\ {} \in SUBSET Platform /\ {} \cup with = with
  OBVIOUS
<1>2. Satisfied(e, Platform \cup with) => \E p \in SUBSET Platform : Satisfied(e, p \cup with)
  BY <1>1
<1>3. Satisfied(e, with) => \E p \in SUBSET Platform : Satisfied(e, p \cup with)
  BY <1>1, Zenon
<1> QED
  BY <1>2, <1>3, SamplesDecide

\* A judgement is the analyzer's, about a constraint over the known tokens.
Judged ==
  /\ line \in SUBSET (SUBSET Literals)
  /\ judged = "unit" => hasUnitBuildTag(line)
  /\ judged = "reported" => ~hasUnitBuildTag(line)

\* Every constraint that is given is one over the known tokens, and only
\* runUnitTestTag judges it.
LEMMA JudgedStep == (Init => Judged) /\ (Judged /\ [Next]_algorithmVars => Judged')
<1>1. Init => Judged
  BY DEF Init, TagInit, TagIdle, Clauses, Judged
<1>2. ASSUME Judged, [Next]_algorithmVars PROVE Judged'
  <2>1. CASE RunUnitTestTag
    BY <1>2, <2>1 DEF RunUnitTestTag, Judged
  <2>2. CASE UNCHANGED tagVars
    BY <1>2, <2>2 DEF tagVars, Judged
  <2> QED
    BY <1>2, <2>1, <2>2 DEF Next, algorithmVars
<1> QED
  BY <1>1, <1>2

\* UnitTagExact for any tokens and any constraint: two samples of the platform
\* decide whether a file is a unit test on every platform, as long as platform
\* tokens occur with one polarity (unittesttag.go hasUnitBuildTag).
THEOREM UnitTagsExact == Spec => []UnitTagExact
<1>1. Judged => UnitTagExact
  <2> SUFFICES ASSUME Judged, judged \in {"unit", "reported"}, OnePolarity(line)
               PROVE  judged = "unit" <=>
                        /\ \E p \in SUBSET Platform : Satisfied(line, p \cup {"unit"})
                        /\ ~\E p \in SUBSET Platform : Satisfied(line, p \cup {})
    BY DEF UnitTagExact, OnePolarity
  <2>1. (\E p \in SUBSET Platform : Satisfied(line, p \cup {"unit"}))
           <=> Satisfied(line, Platform \cup {"unit"}) \/ Satisfied(line, {"unit"})
    BY SamplesSuffice DEF Judged
  <2>2. (\E p \in SUBSET Platform : Satisfied(line, p \cup {}))
           <=> Satisfied(line, Platform \cup {}) \/ Satisfied(line, {})
    BY SamplesSuffice DEF Judged
  <2>3. Platform \cup {} = Platform
    OBVIOUS
  <2> QED
    BY <2>1, <2>2, <2>3 DEF Judged, hasUnitBuildTag
<1> QED
  BY <1>1, JudgedStep, PTL DEF Spec

-----------------------------------------------------------------------------
(* The retry loop's wait.                                                  *)

\* A power of two counts the subsets of as many elements.
LEMMA PowerCounts ==
  ASSUME NEW n \in Nat
  PROVE  /\ IsFiniteSet(SUBSET (1 .. n)) /\ Cardinality(SUBSET (1 .. n)) = 2 ^ n
         /\ 2 ^ n \in Nat \ {0}
<1>1. IsFiniteSet(1 .. n) /\ Cardinality(1 .. n) = n
  BY FS_Interval
<1>2. IsFiniteSet(SUBSET (1 .. n)) /\ Cardinality(SUBSET (1 .. n)) = 2 ^ n
  BY <1>1, FS_SUBSET
<1>3. Cardinality(SUBSET (1 .. n)) \in Nat
  BY <1>2, FS_CardinalityType
<1>4. SUBSET (1 .. n) # {}
  OBVIOUS
<1>5. Cardinality(SUBSET (1 .. n)) # 0
  BY <1>2, <1>4, FS_EmptySet
<1> QED
  BY <1>2, <1>3, <1>5

\* One more element doubles the subsets: each comes with it and without it.
LEMMA PowerDoubles ==
  ASSUME NEW n \in Nat
  PROVE  2 ^ (n + 1) = 2 * 2 ^ n
<1> DEFINE A == SUBSET (1 .. n)
           B == {s \in SUBSET (1 .. n + 1) : n + 1 \in s}
           f == [s \in A |-> s \cup {n + 1}]
<1>1. SUBSET (1 .. n + 1) = A \cup B
  <2>1. \A s \in SUBSET (1 .. n + 1) : n + 1 \notin s => s \in A
    OBVIOUS
  <2>2. A \subseteq SUBSET (1 .. n + 1)
    OBVIOUS
  <2> QED
    BY <2>1, <2>2
<1>2. A \cap B = {}
  <2>1. n + 1 \notin 1 .. n
    OBVIOUS
  <2> QED
    BY <2>1
<1>3. f \in Bijection(A, B)
  <2>1. n + 1 \notin 1 .. n /\ 1 .. n + 1 = (1 .. n) \cup {n + 1}
    OBVIOUS
  <2>2. f \in [A -> B]
    BY <2>1
  <2>3. \A s, t \in A : f[s] = f[t] => s = t
    <3> TAKE s, t \in A
    <3>1. s = (s \cup {n + 1}) \ {n + 1} /\ t = (t \cup {n + 1}) \ {n + 1}
      BY <2>1
    <3>2. f[s] = s \cup {n + 1} /\ f[t] = t \cup {n + 1}
      OBVIOUS
    <3> QED
      BY <3>1, <3>2
  <2>4. ASSUME NEW s \in B PROVE \E t \in A : f[t] = s
    <3>1. s \ {n + 1} \in A /\ (s \ {n + 1}) \cup {n + 1} = s
      BY <2>1
    <3> QED
      BY <3>1
  <2> HIDE DEF A, B, f
  <2> QED
    BY <2>2, <2>3, <2>4 DEF Bijection, Injection, Surjection, IsInjective
<1> HIDE DEF A, B, f
<1>4. IsFiniteSet(A) /\ Cardinality(A) = 2 ^ n /\ 2 ^ n \in Nat
  BY PowerCounts DEF A
<1>5. ExistsBijection(A, B)
  BY <1>3 DEF ExistsBijection
<1>6. IsFiniteSet(B) /\ Cardinality(B) = 2 ^ n
  BY <1>4, <1>5, FS_Bijection
<1>7. Cardinality(A \cup B) = Cardinality(A) + Cardinality(B) - Cardinality(A \cap B)
  BY <1>4, <1>6, FS_Union
<1>8. Cardinality(A \cup B) = 2 ^ (n + 1)
  <2>1. n + 1 \in Nat
    OBVIOUS
  <2> QED
    BY <1>1, <2>1, PowerCounts
<1> QED
  BY <1>2, <1>4, <1>6, <1>7, <1>8, FS_EmptySet

\* The powers of two the retry wait is computed with.
LEMMA PowersOfTwo ==
  /\ 2 ^ (Width - 1) \in Nat \ {0} /\ 2 ^ Width = 2 * 2 ^ (Width - 1)
  /\ \A n \in 0 .. MaxRetries : 2 ^ n \in Nat \ {0}
<1>1. Width - 1 \in Nat /\ (Width - 1) + 1 = Width /\ MaxRetries \in Nat
  BY DelayAssumption
<1>2. 2 ^ ((Width - 1) + 1) = 2 * 2 ^ (Width - 1) /\ 2 ^ (Width - 1) \in Nat \ {0}
  BY <1>1, PowerCounts, PowerDoubles
<1>3. ASSUME NEW n \in 0 .. MaxRetries PROVE 2 ^ n \in Nat \ {0}
  <2>1. n \in Nat
    BY <1>1
  <2> QED
    BY <2>1, PowerCounts
<1> QED
  BY <1>1, <1>2, <1>3

\* A clamped duration is within the bounds, not below what it clamps as far as
\* the upper bound allows.
LEMMA ClampBounds ==
  ASSUME NEW d \in Int, NEW lo \in Int, NEW hi \in Int, lo <= hi
  PROVE  /\ clampDuration(d, lo, hi) \in lo .. hi
         /\ clampDuration(d, lo, hi) >= IF d > hi THEN hi ELSE d
BY DEF clampDuration

\* A residue of a number below the modulus.
LEMMA SmallResidue ==
  ASSUME NEW a \in Nat, NEW b \in Nat, a < b
  PROVE  a % b = a
OBVIOUS

\* A duration that can be represented does not wrap around.
LEMMA WrapIsIdentity ==
  ASSUME NEW n \in 0 .. MaxDuration
  PROVE  Wrap(n) = n
<1> DEFINE half == 2 ^ (Width - 1)
<1>1. half \in Nat /\ 2 ^ Width = 2 * half /\ n \in 0 .. half - 1
  BY PowersOfTwo DEF MaxDuration
<1>2. Wrap(n) = ((n + half) % (2 ^ Width)) - half
  BY DEF Wrap
<1> HIDE DEF half
<1>3. n + half \in Nat /\ 2 * half \in Nat /\ n + half < 2 * half
  BY <1>1
<1>4. (n + half) % (2 * half) = n + half
  BY <1>3, SmallResidue
<1> QED
  BY <1>1, <1>2, <1>4

\* What parseRetryAfter makes of a header is a duration, wrapped or not.
LEMMA ParsedIsDuration ==
  ASSUME NEW h \in RetryAfters, Parses(h)
  PROVE  /\ parseRetryAfter(h) \in Int
         /\ h.is = "date" => parseRetryAfter(h) >= h.value
         /\ h.is = "seconds" /\ h.value * Second <= MaxDuration => parseRetryAfter(h) = h.value * Second
<1>1. h.is \in {"none", "seconds", "date"} /\ h.value \in Int /\ Second \in Nat \ {0}
  BY DelayAssumption, PowersOfTwo DEF RetryAfters, NoHeader, MaxDuration
<1>2. CASE h.is = "seconds"
  <2>1. h.value * Second \in Nat
    BY <1>1, <1>2 DEF Parses
  <2> DEFINE n == h.value * Second
             half == 2 ^ (Width - 1)
  <2>2. parseRetryAfter(h) = Wrap(n)
    BY <1>2 DEF parseRetryAfter
  <2>3. half \in Nat \ {0} /\ 2 ^ Width = 2 * half /\ Wrap(n) = ((n + half) % (2 ^ Width)) - half
    BY PowersOfTwo DEF Wrap
  <2>4. n <= MaxDuration => Wrap(n) = n
    BY <2>1, <2>3, WrapIsIdentity DEF MaxDuration
  <2> HIDE DEF n, half
  <2>5. n \in Nat
    BY <2>1 DEF n
  <2>6. n + half \in Nat /\ 2 * half \in Nat \ {0}
    BY <2>3, <2>5
  <2>7. (n + half) % (2 * half) \in Int
    BY <2>6
  <2>8. Wrap(n) \in Int
    BY <2>3, <2>7
  <2> QED
    BY <1>2, <2>2, <2>4, <2>8 DEF n
<1>3. CASE h.is = "date"
  BY <1>1, <1>3 DEF parseRetryAfter
<1> QED
  BY <1>2, <1>3 DEF Parses

\* The jittered backoff is at least half of the exponential one and, unless that
\* one is zero, less than one and a half times it.
LEMMA JitterBounds ==
  ASSUME NEW b \in Nat, NEW d \in Jittered(b)
  PROVE  d \in Nat /\ 2 * d + 1 >= b /\ (b = 0 => d = 0) /\ (b # 0 => 2 * d < 3 * b)
BY DEF Jittered

\* A backoff converts to a duration; to itself if one and a half times the
\* exponential one is representable.
LEMMA ConvertedBackoff ==
  ASSUME NEW b \in Nat, NEW d \in Jittered(b), NEW c \in ToDuration(d)
  PROVE  c \in Int /\ (3 * b < 2 * MaxDuration => c = d)
<1>1. MaxDuration \in Int /\ MinDuration \in Int
  BY PowersOfTwo DEF MaxDuration, MinDuration
<1>2. d \in Nat /\ (b = 0 => d = 0) /\ (b # 0 => 2 * d < 3 * b)
  BY JitterBounds
<1>3. c \in Int
  BY <1>1, <1>2 DEF ToDuration
<1>4. ASSUME 3 * b < 2 * MaxDuration PROVE d < MaxDuration
  BY <1>1, <1>2, <1>4
<1> QED
  BY <1>3, <1>4 DEF ToDuration

\* Cutting a wait off at an upper bound that the backoff respects leaves at
\* least half of the backoff.
LEMMA HalfKept ==
  ASSUME NEW b \in Nat, NEW hi \in Nat, NEW d \in Nat, NEW w \in Nat,
         b <= hi, 2 * d + 1 >= b, w >= IF d > hi THEN hi ELSE d
  PROVE  2 * w + 1 >= b
<1>1. CASE d > hi
  BY <1>1
<1>2. CASE ~(d > hi)
  BY <1>2
<1> QED
  BY <1>1, <1>2

\* The bounds are durations, and there are only so many attempts.
DelayTyped ==
  minWait \in 0 .. MaxDuration /\ maxWait \in 0 .. MaxDuration /\ attempt \in 0 .. MaxRetries

\* A retry waits as the peer asked, within the bounds, or as the backoff says.
LEMMA RetryHonours ==
  ASSUME DelayTyped, Retry
  PROVE  WaitHonoured'
<1>0. /\ minWait \in Nat /\ maxWait \in Nat /\ attempt \in 0 .. MaxRetries /\ MaxRetries \in Nat
      /\ 2 ^ attempt \in Nat /\ attempt' = attempt + 1 /\ UNCHANGED <<minWait, maxWait>>
      /\ header' \in RetryAfters /\ wait' \in Backoff(minWait, maxWait, attempt, header')
      /\ Second \in Nat
  BY DelayAssumption, PowersOfTwo DEF DelayTyped, Retry, MaxDuration
<1> DEFINE h == header'
           atMost(x) == IF x > maxWait THEN maxWait ELSE x
           exponential == minWait * 2 ^ attempt
           fits == 3 * atMost(exponential) < 2 * MaxDuration
<1>1. exponential \in Nat
  BY <1>0
<1>2. attempt' - 1 = attempt /\ minWait' * 2 ^ (attempt' - 1) = exponential
  <2>1. attempt' - 1 = attempt
    BY <1>0
  <2> QED
    BY <1>0, <2>1
<1>3. SUFFICES ASSUME minWait <= maxWait
               PROVE  /\ minWait <= wait' /\ wait' <= maxWait
                      /\ h.is = "date" => wait' >= atMost(h.value)
                      /\ h.is = "seconds" /\ h.value * Second <= MaxDuration =>
                           wait' >= atMost(h.value * Second)
                      /\ ~Parses(h) /\ fits => 2 * wait' + 1 >= atMost(exponential)
  <2>1. Parses(header)' <=> Parses(h)
    BY DEF Parses
  <2> QED
    BY <1>0, <1>2, <2>1 DEF WaitHonoured
<1>4. h.is \in {"none", "seconds", "date"} /\ h.value \in Int
  BY <1>0, PowersOfTwo DEF RetryAfters, NoHeader, MaxDuration
<1> HIDE DEF exponential
<1>5. \A x \in Int : /\ clampDuration(x, minWait, maxWait) \in minWait .. maxWait
                     /\ clampDuration(x, minWait, maxWait) >= atMost(x)
  <2>1. minWait \in Int /\ maxWait \in Int
    BY <1>0
  <2> QED
    BY <1>3, <2>1, ClampBounds
<1>6. CASE Parses(h)
  <2>1. wait' = clampDuration(parseRetryAfter(h), minWait, maxWait)
    BY <1>0, <1>6 DEF Backoff
  <2>2. /\ parseRetryAfter(h) \in Int
        /\ h.is = "date" => parseRetryAfter(h) >= h.value
        /\ h.is = "seconds" /\ h.value * Second <= MaxDuration => parseRetryAfter(h) = h.value * Second
    BY <1>0, <1>6, ParsedIsDuration
  <2>3. wait' \in minWait .. maxWait /\ wait' >= atMost(parseRetryAfter(h))
    BY <1>5, <2>1, <2>2
  <2> QED
    BY <1>0, <1>4, <1>6, <2>2, <2>3
<1>7. CASE ~Parses(h)
  <2> DEFINE b == Exponential(minWait, maxWait, attempt)
             asked == h.value * Second
  <2>1. b = atMost(exponential) /\ b \in Nat /\ b <= maxWait
    BY <1>0, <1>1 DEF Exponential, exponential
  <2>0. PICK d \in Jittered(b) : \E c \in ToDuration(d) : wait' = clampDuration(c, minWait, maxWait)
    <3>1. wait' \in {clampDuration(c, minWait, maxWait) : c \in UNION {ToDuration(d) : d \in Jittered(b)}}
      BY <1>0, <1>7 DEF Backoff
    <3> QED
      BY <3>1
  <2>2. PICK c \in ToDuration(d) : wait' = clampDuration(c, minWait, maxWait)
    BY <2>0
  <2>3. h.is # "date" /\ (h.is = "seconds" => h.value < 0)
    BY <1>4, <1>7 DEF Parses
  <2>4. asked \in Int /\ (h.is = "seconds" => asked <= 0)
    BY <1>0, <1>4, <2>3
  <2> HIDE DEF b, asked
  <2>5. d \in Nat /\ 2 * d + 1 >= b /\ c \in Int /\ (3 * b < 2 * MaxDuration => c = d)
    BY <2>1, <2>2, JitterBounds, ConvertedBackoff
  <2>6. wait' \in minWait .. maxWait /\ wait' >= atMost(c)
    BY <1>5, <2>2, <2>5
  <2>7. minWait \in Nat /\ maxWait \in Nat /\ wait' \in Nat
    BY <1>0, <2>6
  <2>8. 3 * b < 2 * MaxDuration => 2 * wait' + 1 >= b
    BY <2>1, <2>5, <2>6, <2>7, HalfKept
  <2>9. h.is = "seconds" => wait' >= atMost(asked)
    BY <2>4, <2>6, <2>7
  <2>10. minWait <= wait' /\ wait' <= maxWait
    BY <2>6, <2>7
  <2> HIDE DEF atMost
  <2>11. fits => 2 * wait' + 1 >= atMost(exponential)
    BY <2>1, <2>8
  <2>12. h.is = "seconds" => wait' >= atMost(h.value * Second)
    BY <2>9 DEF asked
  <2> QED
    BY <2>3, <2>10, <2>11, <2>12
<1> QED
  BY <1>6, <1>7

\* The configuration stays, and the attempts are counted up to the limit.
LEMMA DelayStep == (Init => DelayTyped) /\ (DelayTyped /\ [Next]_algorithmVars => DelayTyped')
<1>1. Init => DelayTyped
  <2>1. MaxDuration \in Nat /\ MaxRetries \in Nat /\ Waits \subseteq 0 .. MaxDuration
    BY DelayAssumption, PowersOfTwo DEF MaxDuration
  <2>2. DelayInit => DelayTyped
    BY <2>1 DEF DelayInit, DelayTyped
  <2>3. DelayIdle => DelayTyped
    BY <2>1 DEF DelayIdle, DelayTyped
  <2> QED
    BY <2>2, <2>3 DEF Init
<1>2. ASSUME DelayTyped, [Next]_algorithmVars PROVE DelayTyped'
  <2>1. CASE Retry
    BY <1>2, <2>1, DelayAssumption DEF Retry, DelayTyped
  <2>2. CASE UNCHANGED delayVars
    BY <1>2, <2>2 DEF delayVars, DelayTyped
  <2> QED
    BY <1>2, <2>1, <2>2 DEF Next, algorithmVars
<1> QED
  BY <1>1, <1>2

\* WaitHonoured for durations of any width, any second and any configuration:
\* neither a Retry-After that wraps around nor a backoff too large to convert
\* leads outside MinWait and MaxWait, and what can be represented is honoured
\* (retry.go Backoff, parseRetryAfter, clampDuration).
THEOREM WaitsHonoured == Spec => []WaitHonoured
<1>1. Init => WaitHonoured
  <2>1. DelayInit => WaitHonoured
    BY DelayAssumption DEF DelayInit, WaitHonoured
  <2>2. DelayIdle => WaitHonoured
    BY DelayAssumption, PowersOfTwo DEF DelayIdle, WaitHonoured, NoHeader, Parses
  <2> QED
    BY <2>1, <2>2 DEF Init
<1>2. DelayTyped /\ WaitHonoured /\ [Next]_algorithmVars => WaitHonoured'
  <2> SUFFICES ASSUME DelayTyped, WaitHonoured, [Next]_algorithmVars PROVE WaitHonoured'
    OBVIOUS
  <2>1. CASE Retry
    BY <2>1, RetryHonours
  <2>2. CASE UNCHANGED delayVars
    BY <2>2 DEF delayVars, WaitHonoured, Parses
  <2> QED
    BY <2>1, <2>2 DEF Next, algorithmVars
<1> QED
  BY <1>1, <1>2, DelayStep, PTL DEF Spec

-----------------------------------------------------------------------------
(* The propagation analyzer.                                              *)

\* Two signatures compare equal exactly when their types do, whether the
\* interface comes from the analyzed program or from a second load of it.
LEMMA SignaturesCompare ==
  ASSUME NEW imported \in BOOLEAN, NEW sig, NEW types, sig = [types |-> sig.types, load |-> 1]
  PROVE  sameSignature(sig, [types |-> types, load |-> IF imported THEN 1 ELSE 2], imported)
            <=> sig.types = types
BY DEF sameSignature, Identical, sameTypeStrings

\* Loading an interface, imported or not, changes neither who implements it nor
\* which of its methods a method is: the method set of *T holds every method, so
\* looking at T as well adds nothing.
LEMMA LoadedCompares ==
  ASSUME NEW f \in Funcs, f.recv.methods # {}, NEW imported \in BOOLEAN, NEW methods
  PROVE  /\ implements(f.recv, Loaded(methods, imported), imported)
              <=> \A m \in methods : \E n \in f.recv.methods : n.name = m.name /\ n.sig.types = m.types
         /\ (\E m \in Loaded(methods, imported) :
                /\ m.name = f.recv.method.name
                /\ sameSignature(f.recv.method.sig, m.sig, imported))
              <=> \E m \in methods : m.name = f.recv.method.name /\ m.types = f.recv.method.sig.types
<1> DEFINE own == f.recv.methods
           loaded(m) == [name |-> m.name,
                         sig |-> [types |-> m.types, load |-> IF imported THEN 1 ELSE 2]]
<1>1. f.recv.method \in own /\ \A n \in own : n.sig = [types |-> n.sig.types, load |-> 1]
  BY LintAssumption
<1>2. \A n \in own : \A m :
        sameSignature(n.sig, loaded(m).sig, imported) <=> n.sig.types = m.types
  <2> TAKE n \in own
  <2> TAKE m
  <2>1. loaded(m).sig = [types |-> m.types, load |-> IF imported THEN 1 ELSE 2]
    OBVIOUS
  <2>2. n.sig = [types |-> n.sig.types, load |-> 1]
    BY <1>1
  <2> QED
    BY <2>1, <2>2, SignaturesCompare
<1>3. Loaded(methods, imported) = {loaded(m) : m \in methods}
  BY DEF Loaded
<1>4. implements(f.recv, Loaded(methods, imported), imported)
        <=> \A m \in methods : \E n \in own : n.name = m.name /\ n.sig.types = m.types
  <2>1. implements(f.recv, Loaded(methods, imported), imported)
          <=> \A m \in Loaded(methods, imported) :
                \E n \in own : n.name = m.name /\ sameSignature(n.sig, m.sig, imported)
    BY DEF implements, methodSets
  <2>2. (\A m \in Loaded(methods, imported) :
           \E n \in own : n.name = m.name /\ sameSignature(n.sig, m.sig, imported))
        <=> \A m \in methods : \E n \in own :
               n.name = loaded(m).name /\ sameSignature(n.sig, loaded(m).sig, imported)
    BY <1>3
  <2>3. \A m : loaded(m).name = m.name
    OBVIOUS
  <2> HIDE DEF loaded, own
  <2> QED
    BY <1>2, <2>1, <2>2, <2>3
<1>5. (\E m \in Loaded(methods, imported) :
         m.name = f.recv.method.name /\ sameSignature(f.recv.method.sig, m.sig, imported))
      <=> \E m \in methods : /\ loaded(m).name = f.recv.method.name
                             /\ sameSignature(f.recv.method.sig, loaded(m).sig, imported)
  BY <1>3
<1>6. \A m : /\ loaded(m).name = m.name
             /\ sameSignature(f.recv.method.sig, loaded(m).sig, imported)
                  <=> m.types = f.recv.method.sig.types
  BY <1>1, <1>2
<1> HIDE DEF loaded, own
<1>7. (\E m \in methods : /\ loaded(m).name = f.recv.method.name
                          /\ sameSignature(f.recv.method.sig, loaded(m).sig, imported))
      <=> \E m \in methods : m.name = f.recv.method.name /\ m.types = f.recv.method.sig.types
  BY <1>6
<1>8. (\E m \in Loaded(methods, imported) :
         m.name = f.recv.method.name /\ sameSignature(f.recv.method.sig, m.sig, imported))
      <=> \E m \in methods : m.name = f.recv.method.name /\ m.types = f.recv.method.sig.types
  BY <1>5, <1>7
<1> USE DEF own
<1> QED
  BY <1>4, <1>8

\* A method is exempt exactly when an interface whose package could be found
\* demands it.
LEMMA ExemptionExact ==
  ASSUME NEW f \in Funcs, f.recv.methods # {}
  PROVE  isForeignInterfaceMethod(f) <=> Demanded(f)
<1> DEFINE imported(i) == f.recv.found[i.pkg] = "imported"
           demands(i) == /\ \A m \in i.methods : \E n \in f.recv.methods : n.name = m.name /\ n.sig.types = m.types
                         /\ \E m \in i.methods : m.name = f.recv.method.name /\ m.types = f.recv.method.sig.types
           matches(i) == /\ implements(f.recv, Loaded(i.methods, imported(i)), imported(i))
                         /\ \E m \in Loaded(i.methods, imported(i)) :
                              /\ m.name = f.recv.method.name
                              /\ sameSignature(f.recv.method.sig, m.sig, imported(i))
<1>1. \A i : matches(i) <=> demands(i)
  <2> TAKE i
  <2>1. imported(i) \in BOOLEAN
    OBVIOUS
  <2> HIDE DEF imported
  <2> QED
    BY <2>1, LoadedCompares
<1>2. isForeignInterfaceMethod(f) <=> \E i \in Interfaces : f.recv.found[i.pkg] # "failed" /\ matches(i)
  BY DEF isForeignInterfaceMethod
<1>3. Demanded(f) <=> \E i \in Interfaces : f.recv.found[i.pkg] # "failed" /\ demands(i)
  BY DEF Demanded
<1> HIDE DEF matches, demands
<1> QED
  BY <1>1, <1>2, <1>3

\* A function the analyzer judges and has nothing to say about.
Accepted(f) == Reports(f) = {} /\ ~isForeignInterfaceMethod(f)

\* What a function may return in error position k.
Fine(f, k, x) ==
  /\ x \in {"nil", "traced", "untraced", "outer", "late"}
  /\ x = "untraced" => ChosePlain(f, k)
  /\ x = "outer" => \E e \in assignedValues(f, "o") : isGarlicConstructor(e)
  /\ x = "late" => f.ret.form = "explicit" /\ f.ret.exprs[k] # Ident(ResultVar(k))

\* What a variable of constructors' errors may hold.
Built(f, v, x) == x \in {"nil", "traced"} \/ (x = "untraced" /\ Plain \in assignedValues(f, v))

\* Before the return: a variable that isPropagatedVar trusts holds nil or a
\* constructor's error, or what it held outside; one never assigned is nil.
BodyHolds ==
  \A v \in Vars :
    /\ isPropagatedVar(fn, v) => Built(fn, v, env[v]) \/ (v = "o" /\ env[v] = "outer")
    /\ neverAssigned(fn, v) /\ v # "o" => env[v] = "nil"

\* The inductive invariant: what the analyzer believes of the variables holds
\* in the body, and after the return whatever the function would report by now
\* is fine.
LintInv ==
  /\ pc = "idle" \/ fn \in Funcs
  /\ pc = "idle" => fn = NoFunction
  /\ pc \in {"idle", "body", "deferred", "returned"}
  /\ env = [v \in Vars |-> env[v]]
  /\ pc = "body" => BodyHolds
  /\ Accepted(fn) =>
       /\ pc = "deferred" =>
            \A k \in ErrorPositions(fn) :
              Fine(fn, k, IF Named(fn) THEN env[ResultVar(k)] ELSE result[k])
       /\ pc = "returned" => \A k \in ErrorPositions(fn) : Fine(fn, k, result[k])

\* Every error a function that passes returns is nil, a constructor call or a
\* variable that isPropagatedVar trusts.
LEMMA AcceptedExpressions ==
  ASSUME NEW f, Accepted(f), returnsError(f), NEW e \in errorReturnExpressions(f)
  PROVE  e \in {Nil, Tracing, Plain} \/ (e.is = "ident" /\ isPropagatedVar(f, e.var))
<1>1. {IF x = Classify THEN "G0.02" ELSE "G0.01" :
          x \in {x \in errorReturnExpressions(f) :
                   /\ x # Nil /\ ~isGarlicConstructor(x)
                   /\ x.is = "ident" => ~isPropagatedVar(f, x.var)}} = {}
  BY DEF Accepted, Reports
<1> QED
  BY <1>1 DEF isGarlicConstructor

\* The forms of an expression.
LEMMA ExpressionForms ==
  ASSUME NEW e \in Expressions
  PROVE  /\ e.is \in {"nil", "tracing", "plain", "call", "classify", "ident"}
         /\ e.is = "nil" <=> e = Nil
         /\ e.is = "tracing" <=> e = Tracing
         /\ e.is = "plain" <=> e = Plain
         /\ e.is = "ident" <=> \E v \in Vars : e = Ident(v)
         /\ e.is = "ident" => e.var \in Vars /\ e = Ident(e.var)
BY DEF Expressions, Nil, Tracing, Plain, Call, Classify, Ident

\* The forms of a statement.
LEMMA StatementForms ==
  ASSUME NEW s \in Statements
  PROVE  /\ s.form \in {"assign", "opaque", "declare"} /\ s.var \in Vars /\ s.late \in BOOLEAN
         /\ s.form = "assign" => s.expr \in Expressions
         /\ s.form = "opaque" => s = Opaque(s.var, s.late)
<1>1. CASE \E v \in Vars, e \in Expressions, late \in BOOLEAN : s = Assign(v, e, late)
  BY <1>1 DEF Assign
<1>2. CASE \E v \in Vars, late \in BOOLEAN : s = Opaque(v, late)
  BY <1>2 DEF Opaque
<1>3. CASE \E v \in Vars : s = Declare(v)
  BY <1>3 DEF Declare
<1> QED
  BY <1>1, <1>2, <1>3 DEF Statements


\* A sum over the elements before a position is what its recursive definition
\* says: a function that satisfies the definition exists.
LEMMA RunningSumExists ==
  ASSUME NEW n \in Nat, NEW w \in [1 .. n -> Nat]
  PROVE  \E b : b = [i \in 1 .. n + 1 |-> IF i = 1 THEN 0 ELSE b[i - 1] + w[i - 1]]
<1> DEFINE Eq(b, m) == b = [i \in 1 .. m + 1 |-> IF i = 1 THEN 0 ELSE b[i - 1] + w[i - 1]]
           T == {m \in Nat : m <= n => \E b : Eq(b, m)}
<1>1. 0 \in T
  <2>1. Eq([i \in 1 .. 0 + 1 |-> 0], 0)
    OBVIOUS
  <2> QED
    BY <2>1
<1>2. ASSUME NEW m \in Nat, m \in T PROVE m + 1 \in T
  <2> SUFFICES ASSUME m + 1 <= n PROVE \E b : Eq(b, m + 1)
    BY <1>2
  <2>1. PICK b : Eq(b, m)
    BY <1>2
  <2> DEFINE c == [i \in 1 .. (m + 1) + 1 |-> IF i = m + 2 THEN b[m + 1] + w[m + 1] ELSE b[i]]
  <2>2. \A i \in 1 .. m + 1 : c[i] = b[i]
    OBVIOUS
  <2>3. c[m + 2] = b[m + 1] + w[m + 1]
    OBVIOUS
  <2>4. \A i \in 1 .. m + 1 : b[i] = IF i = 1 THEN 0 ELSE b[i - 1] + w[i - 1]
    BY <2>1
  <2>5. \A i \in 1 .. (m + 1) + 1 : c[i] = IF i = 1 THEN 0 ELSE c[i - 1] + w[i - 1]
    <3> TAKE i \in 1 .. (m + 1) + 1
    <3>1. CASE i = m + 2
      <4>1. i - 1 = m + 1 /\ i # 1
        BY <3>1
      <4> HIDE DEF c
      <4> QED
        BY <2>2, <2>3, <3>1, <4>1
    <3>2. CASE i # m + 2
      <4>1. i \in 1 .. m + 1 /\ (i # 1 => i - 1 \in 1 .. m + 1)
        BY <3>2
      <4> HIDE DEF c
      <4> QED
        BY <2>2, <2>4, <4>1
    <3> QED
      BY <3>1, <3>2
  <2>6. c = [i \in 1 .. (m + 1) + 1 |-> c[i]]
    OBVIOUS
  <2> HIDE DEF c
  <2>7. Eq(c, m + 1)
    BY <2>5, <2>6
  <2> QED
    BY <2>7
<1> HIDE DEF T
<1>3. n \in T
  BY <1>1, <1>2, NatInductionOnSets
<1> QED
  BY <1>3 DEF T

\* An element of a sequence is one of the set it is a sequence over.
LEMMA ElementOfSequence ==
  ASSUME NEW S, NEW s \in Seq(S), NEW i \in 1 .. Len(s)
  PROVE  s[i] \in S
OBVIOUS

\* flattenedFieldTypes gives every position the type of some field.
LEMMA FlattenedTypesAreFieldTypes ==
  ASSUME NEW fields \in Seq([names : Nat, type : STRING]),
         NEW k \in DOMAIN flattenedFieldTypes(fields)
  PROVE  \E i \in DOMAIN fields : flattenedFieldTypes(fields)[k] = fields[i].type
<1>1. /\ Len(fields) \in Nat /\ DOMAIN fields = 1 .. Len(fields)
      /\ \A i \in 1 .. Len(fields) : fields[i].names \in Nat
  <2>1. Len(fields) \in Nat /\ DOMAIN fields = 1 .. Len(fields)
    OBVIOUS
  <2>2. ASSUME NEW i \in 1 .. Len(fields) PROVE fields[i].names \in Nat
    <3>1. fields[i] \in [names : Nat, type : STRING]
      BY ElementOfSequence
    <3> QED
      BY <3>1
  <2> QED
    BY <2>1, <2>2
<1> DEFINE width(f) == IF f.names = 0 THEN 1 ELSE f.names
           before == CHOOSE before : before = 
              [i \in 1 .. Len(fields) + 1 |-> IF i = 1 THEN 0 ELSE before[i - 1] + width(fields[i - 1])]
           n == Len(fields)
           fieldOf(x) == CHOOSE i \in DOMAIN fields : before[i] < x /\ x <= before[i + 1]
           w == [i \in 1 .. n |-> width(fields[i])]
<1>2. flattenedFieldTypes(fields) = [x \in 1 .. before[n + 1] |-> fields[fieldOf(x)].type]
  BY DEF flattenedFieldTypes
<1>3. w \in [1 .. n -> Nat]
  BY <1>1
<1>4. before = [i \in 1 .. n + 1 |-> IF i = 1 THEN 0 ELSE before[i - 1] + width(fields[i - 1])]
  <2>1. PICK b : b = [i \in 1 .. n + 1 |-> IF i = 1 THEN 0 ELSE b[i - 1] + w[i - 1]]
    BY <1>1, <1>3, RunningSumExists
  <2>2. \A i \in 1 .. n + 1 : i # 1 => w[i - 1] = width(fields[i - 1])
    BY <1>1
  <2>3. b = [i \in 1 .. n + 1 |-> IF i = 1 THEN 0 ELSE b[i - 1] + width(fields[i - 1])]
    <3> HIDE DEF width, w
    <3> QED
      BY <2>1, <2>2
  <2> QED
    BY <2>3
<1> HIDE DEF before, w, width
<1>5. k \in 1 .. before[n + 1] /\ flattenedFieldTypes(fields)[k] = fields[fieldOf(k)].type
  BY <1>2
<1>6. SUFFICES \E i \in 1 .. n : before[i] < k /\ k <= before[i + 1]
  BY <1>1, <1>5
<1> DEFINE T == {i \in Nat : i <= n => before[i + 1] \in Nat /\ before[i + 1] < k}
<1>7. before[1] = 0
  BY <1>1, <1>4
<1>8. 0 \in T
  BY <1>5, <1>7
<1>9. ASSUME \A i \in 1 .. n : ~(before[i] < k /\ k <= before[i + 1]), NEW m \in Nat, m \in T
      PROVE  m + 1 \in T
  <2> SUFFICES ASSUME m + 1 <= n PROVE before[(m + 1) + 1] \in Nat /\ before[(m + 1) + 1] < k
    BY <1>9
  <2>1. before[m + 1] \in Nat /\ before[m + 1] < k /\ m + 1 \in 1 .. n
    BY <1>1, <1>9
  <2>2. before[(m + 1) + 1] = before[m + 1] + width(fields[m + 1])
    <3>1. (m + 1) + 1 \in 1 .. n + 1 /\ (m + 1) + 1 # 1 /\ ((m + 1) + 1) - 1 = m + 1
      BY <1>1, <2>1
    <3> QED
      BY <1>4, <3>1
  <2>3. width(fields[m + 1]) \in Nat
    BY <1>1, <2>1 DEF width
  <2> QED
    BY <1>5, <1>9, <2>1, <2>2, <2>3
<1> SUFFICES ASSUME \A i \in 1 .. n : ~(before[i] < k /\ k <= before[i + 1])
             PROVE  FALSE
  BY <1>6
<1> HIDE DEF T
<1>10. n \in T
  BY <1>1, <1>8, <1>9, NatInductionOnSets
<1> QED
  BY <1>1, <1>5, <1>10 DEF T

\* A function without an error among its results has no error position.
LEMMA NoErrorNoPositions ==
  ASSUME NEW f \in Funcs, ErrorPositions(f) # {}
  PROVE  returnsError(f) /\ f.fields # << >>
<1>1. f.fields \in Seq([names : Nat, type : STRING])
  BY LintAssumption
<1>2. PICK k \in DOMAIN flattenedFieldTypes(f.fields) : flattenedFieldTypes(f.fields)[k] = "error"
  BY DEF ErrorPositions
<1>3. \E i \in DOMAIN f.fields : flattenedFieldTypes(f.fields)[k] = f.fields[i].type
  BY <1>1, FlattenedTypesAreFieldTypes
<1> QED
  BY <1>2, <1>3 DEF returnsError

\* What the return statement yields in a function the analyzer accepts.
LEMMA ReturnsFine ==
  ASSUME NEW f \in Funcs, Accepted(f), fn = f, BodyHolds, NEW k \in ErrorPositions(f),
         NEW x \in {"nil", "traced", "untraced", "raw", "outer"},
         x \in CASE f.ret.form = "bare" -> {env[ResultVar(k)]}
                [] f.ret.form = "explicit" -> Eval(f.ret.exprs[k])
                [] f.ret.form = "tuple" -> Eval(Call)
  PROVE  Fine(f, k, x)
<1>1. returnsError(f) /\ f.fields # << >>
  BY NoErrorNoPositions
<1>2. \A v : isPropagatedVar(f, v) => \E e \in assignedValues(f, v) : isGarlicConstructor(e)
  BY DEF isPropagatedVar
<1>3. CASE f.ret = Bare
  <2>1. Named(f) /\ f.ret.form = "bare"
    BY <1>1, <1>3, LintAssumption DEF Bare, Tuple
  <2>2. ResultVar(k) \in Vars /\ ResultVar(k) # "o" /\ x = env[ResultVar(k)]
    BY <2>1 DEF ResultVar, Vars
  <2>3. neverAssigned(f, ResultVar(k)) \/ Ident(ResultVar(k)) \in errorReturnExpressions(f)
    BY <2>1 DEF errorReturnExpressions
  <2>4. Ident(ResultVar(k)) \in errorReturnExpressions(f) => isPropagatedVar(f, ResultVar(k))
    BY <1>1, AcceptedExpressions DEF Ident, Nil, Tracing, Plain
  <2>5. Built(f, ResultVar(k), x)
    BY <2>2, <2>3, <2>4 DEF BodyHolds, Built
  <2>6. x = "untraced" => ChosePlain(f, k)
    BY <2>1, <2>2, <2>5 DEF Built, ChosePlain
  <2> QED
    BY <2>5, <2>6 DEF Fine, Built
<1>4. CASE f.ret = Tuple
  <2>1. Call \in errorReturnExpressions(f)
    BY <1>4 DEF errorReturnExpressions, Tuple
  <2>2. Call \in {Nil, Tracing, Plain} \/ (Call.is = "ident" /\ isPropagatedVar(f, Call.var))
    BY <1>1, <2>1, AcceptedExpressions
  <2> QED
    BY <2>2 DEF Call, Nil, Tracing, Plain
<1>5. CASE f.ret.form = "explicit" /\ f.ret.exprs[k] \in Expressions
  <2> DEFINE e == f.ret.exprs[k]
  <2>1. e \in errorReturnExpressions(f) /\ x \in Eval(e)
    BY <1>5 DEF errorReturnExpressions
  <2>2. e \in {Nil, Tracing, Plain} \/ (e.is = "ident" /\ isPropagatedVar(f, e.var))
    BY <1>1, <2>1, AcceptedExpressions
  <2>3. CASE e = Nil \/ e = Tracing
    BY <2>1, <2>3 DEF Eval, Nil, Tracing, Fine
  <2>4. CASE e = Plain
    <3>1. x \in {"nil", "traced", "untraced"}
      BY <2>1, <2>4 DEF Eval, Plain
    <3>2. ChosePlain(f, k)
      BY <1>5, <2>4 DEF ChosePlain
    <3> QED
      BY <3>1, <3>2 DEF Fine
  <2>5. CASE e.is = "ident" /\ isPropagatedVar(f, e.var)
    <3>1. e.var \in Vars /\ e = Ident(e.var) /\ x = env[e.var]
      BY <1>5, <2>1, <2>5, ExpressionForms DEF Eval
    <3>2. Built(f, e.var, x) \/ (e.var = "o" /\ x = "outer")
      BY <2>5, <3>1 DEF BodyHolds
    <3>3. Plain \in assignedValues(f, e.var) => ChosePlain(f, k)
      BY <1>5, <3>1 DEF ChosePlain
    <3> QED
      BY <1>2, <2>5, <3>2, <3>3 DEF Fine, Built
  <2> QED
    BY <2>2, <2>3, <2>4, <2>5
<1> QED
  BY <1>3, <1>4, <1>5, LintAssumption

\* The values a statement may give its variable.
Written(s) ==
  CASE s.form = "assign" -> Eval(s.expr)
    [] s.form = "opaque" -> {"nil", "traced", "untraced", "raw"}
    [] s.form = "declare" -> {"nil"}

\* A constructor call is assigned.
BuiltBy(s) == s.form = "assign" /\ isGarlicConstructor(s.expr)

\* A variable the analyzer trusts, or never sees assigned, is only ever given
\* what its analysis says; and what a constructor gives is what it builds.
LEMMA TrustedAssignments ==
  ASSUME NEW f, f.stmts \subseteq Statements, NEW s \in f.stmts, NEW x,
         x \in Written(s)
  PROVE  /\ isPropagatedVar(f, s.var) => BuiltBy(s) \/ x = "nil"
         /\ neverAssigned(f, s.var) => x = "nil"
         /\ BuiltBy(s) => Built(f, s.var, x)
<1>1. /\ s.form \in {"assign", "opaque", "declare"} /\ s.var \in Vars /\ s.late \in BOOLEAN
      /\ s.form = "opaque" => s = Opaque(s.var, s.late)
  BY StatementForms
<1>2. CASE s.form = "assign"
  <2>1. s.expr \in assignedValues(f, s.var)
    BY <1>2 DEF assignedValues
  <2>2. ~neverAssigned(f, s.var)
    BY <2>1 DEF neverAssigned
  <2>3. isPropagatedVar(f, s.var) => BuiltBy(s)
    BY <1>2, <2>1 DEF isPropagatedVar, BuiltBy
  <2>4. ASSUME isGarlicConstructor(s.expr) PROVE Built(f, s.var, x)
    <3>1. s.expr = Tracing => x \in {"nil", "traced"}
      BY <1>2 DEF Eval, Tracing, Written
    <3>2. s.expr = Plain => x \in {"nil", "traced", "untraced"}
      BY <1>2 DEF Eval, Plain, Written
    <3> QED
      BY <2>1, <2>4, <3>1, <3>2 DEF Built, isGarlicConstructor
  <2> QED
    BY <2>2, <2>3, <2>4 DEF BuiltBy
<1>3. CASE s.form = "opaque"
  <2>1. opaque(f, s.var)
    BY <1>1, <1>3 DEF opaque
  <2> QED
    BY <1>3, <2>1 DEF isPropagatedVar, neverAssigned, BuiltBy
<1>4. CASE s.form = "declare"
  BY <1>4 DEF Written, BuiltBy
<1> QED
  BY <1>1, <1>2, <1>3, <1>4

\* A deferred closure writes something else than nil or a constructor's error
\* over a named result only if the return statement is explicit and does not
\* name that result.
LEMMA LateOverExplicit ==
  ASSUME NEW f \in Funcs, Accepted(f), Named(f), NEW k \in ErrorPositions(f),
         ~isPropagatedVar(f, ResultVar(k)), ~neverAssigned(f, ResultVar(k))
  PROVE  f.ret.form = "explicit" /\ f.ret.exprs[k] # Ident(ResultVar(k))
<1> DEFINE v == ResultVar(k)
<1>1. returnsError(f)
  BY NoErrorNoPositions
<1>2. Ident(v) \notin errorReturnExpressions(f)
  BY <1>1, AcceptedExpressions DEF Ident, Nil, Tracing, Plain
<1>3. f.ret # Bare
  BY <1>2 DEF errorReturnExpressions, Bare
<1>4. f.ret # Tuple
  <2>1. f.ret = Tuple => Call \in errorReturnExpressions(f)
    BY DEF errorReturnExpressions, Tuple
  <2>2. Call \notin errorReturnExpressions(f)
    BY <1>1, AcceptedExpressions DEF Call, Nil, Tracing, Plain
  <2> QED
    BY <2>1, <2>2
<1>5. f.ret.form = "explicit"
  BY <1>3, <1>4, LintAssumption
<1> QED
  BY <1>2, <1>5 DEF errorReturnExpressions

\* Statements keep the invariant, before the return and after it.
LEMMA ExecuteKeeps ==
  ASSUME LintInv, NEW s \in fn.stmts, Execute(s)
  PROVE  LintInv'
<1>1. pc \in {"body", "deferred"} /\ fn \in Funcs /\ UNCHANGED <<fn, pc, result>>
  BY DEF Execute, LintInv
<1>2. fn.stmts \subseteq Statements
  BY <1>1, LintAssumption
<1>3. PICK x : /\ x \in Written(s)
               /\ env' = [env EXCEPT ![s.var] = IF s.late /\ x # "nil" /\ ~BuiltBy(s) THEN "late" ELSE x]
  BY DEF Execute, Written, BuiltBy
<1>4. /\ isPropagatedVar(fn, s.var) => BuiltBy(s) \/ x = "nil"
      /\ neverAssigned(fn, s.var) => x = "nil"
      /\ BuiltBy(s) => Built(fn, s.var, x)
  BY <1>2, <1>3, TrustedAssignments
<1>5. s.var \in Vars /\ s.late \in BOOLEAN
  BY <1>2, StatementForms
<1>6. env = [v \in Vars |-> env[v]]
  BY DEF LintInv
<1>7. /\ env' = [v \in Vars |-> env'[v]]
      /\ env'[s.var] = IF s.late /\ x # "nil" /\ ~BuiltBy(s) THEN "late" ELSE x
      /\ \A v \in Vars : v # s.var => env'[v] = env[v]
  BY <1>3, <1>5, <1>6
<1>8. CASE pc = "body"
  <2>1. ~s.late
    BY <1>5, <1>8 DEF Execute
  <2>2. BodyHolds
    BY <1>8 DEF LintInv
  <2>3. \A v \in Vars :
          /\ isPropagatedVar(fn, v) => Built(fn, v, env'[v]) \/ (v = "o" /\ env'[v] = "outer")
          /\ neverAssigned(fn, v) /\ v # "o" => env'[v] = "nil"
    <3>1. Built(fn, s.var, "nil")
      BY DEF Built
    <3> QED
      BY <1>4, <1>7, <2>1, <2>2, <3>1 DEF BodyHolds
  <2>4. BodyHolds'
    BY <1>1, <2>3 DEF BodyHolds, Built, assignedValues
  <2> QED
    BY <1>1, <1>7, <1>8, <2>4 DEF LintInv
<1>9. CASE pc = "deferred"
  <2>1. ASSUME Accepted(fn), NEW k \in ErrorPositions(fn)
        PROVE  Fine(fn, k, IF Named(fn) THEN env'[ResultVar(k)] ELSE result[k])
    <3>1. Fine(fn, k, IF Named(fn) THEN env[ResultVar(k)] ELSE result[k])
      BY <1>9, <2>1 DEF LintInv
    <3>2. CASE ~Named(fn) \/ s.var # ResultVar(k)
      <4>1. ResultVar(k) \in Vars
        BY DEF ResultVar, Vars
      <4> QED
        BY <1>7, <3>1, <3>2, <4>1
    <3>3. CASE Named(fn) /\ s.var = ResultVar(k)
      <4>1. s.late
        BY <1>5, <1>9 DEF Execute
      <4>2. CASE x = "nil" \/ BuiltBy(s)
        <5>1. Built(fn, s.var, x)
          BY <1>4, <4>2 DEF Built
        <5>2. Plain \in assignedValues(fn, s.var) => ChosePlain(fn, k)
          BY <1>5, <3>3 DEF ChosePlain
        <5> QED
          BY <1>7, <3>3, <4>2, <5>1, <5>2 DEF Fine, Built
      <4>3. CASE ~(x = "nil" \/ BuiltBy(s))
        <5>1. fn.ret.form = "explicit" /\ fn.ret.exprs[k] # Ident(ResultVar(k))
          BY <1>1, <1>4, <2>1, <3>3, <4>3, LateOverExplicit
        <5> QED
          BY <1>7, <3>3, <4>1, <4>3, <5>1 DEF Fine
      <4> QED
        BY <4>2, <4>3
    <3> QED
      BY <3>2, <3>3
  <2> HIDE DEF Accepted, Fine, ErrorPositions, Named, ResultVar
  <2>2. \A k : Fine(fn, k, IF Named(fn) THEN env[ResultVar(k)] ELSE result[k])'
                <=> Fine(fn, k, IF Named(fn) THEN env'[ResultVar(k)] ELSE result[k])
    BY <1>1 DEF Fine, ChosePlain, Named, ResultVar, assignedValues, Ident
  <2>3. (Accepted(fn)' <=> Accepted(fn)) /\ ErrorPositions(fn)' = ErrorPositions(fn)
    BY <1>1
  <2> QED
    BY <1>1, <1>7, <1>9, <2>1, <2>2, <2>3 DEF LintInv
<1> QED
  BY <1>1, <1>8, <1>9

\* The return statement keeps it: what it assigns is fine, and a named result
\* holds it.
LEMMA ReturnKeeps ==
  ASSUME LintInv, Return
  PROVE  LintInv'
<1>1. /\ fn \in Funcs /\ pc = "body" /\ pc' = "deferred" /\ fn' = fn /\ BodyHolds
      /\ env = [v \in Vars |-> env[v]]
  BY DEF Return, LintInv
<1>2. PICK vals \in [ErrorPositions(fn) -> {"nil", "traced", "untraced", "raw", "outer"}] :
         /\ \A k \in ErrorPositions(fn) :
              vals[k] \in CASE fn.ret.form = "bare" -> {env[ResultVar(k)]}
                            [] fn.ret.form = "explicit" -> Eval(fn.ret.exprs[k])
                            [] fn.ret.form = "tuple" -> Eval(Call)
         /\ result' = vals
         /\ env' = [v \in Vars |->
                      IF Named(fn) /\ \E k \in ErrorPositions(fn) : ResultVar(k) = v
                      THEN vals[CHOOSE k \in ErrorPositions(fn) : ResultVar(k) = v] ELSE env[v]]
  BY DEF Return
<1>3. ASSUME Accepted(fn), NEW k \in ErrorPositions(fn)
      PROVE  Fine(fn, k, vals[k])
  <2>1. vals[k] \in {"nil", "traced", "untraced", "raw", "outer"}
    BY <1>2
  <2> QED
    BY <1>1, <1>2, <1>3, <2>1, ReturnsFine
<1>4. ASSUME Named(fn), NEW k \in ErrorPositions(fn)
      PROVE  env'[ResultVar(k)] = vals[k]
  <2>1. ErrorPositions(fn) \subseteq 1 .. 2
    BY <1>1, <1>4, LintAssumption
  <2>2. \A j \in ErrorPositions(fn) : ResultVar(j) = ResultVar(k) => j = k
    BY <2>1 DEF ResultVar
  <2>3. (CHOOSE j \in ErrorPositions(fn) : ResultVar(j) = ResultVar(k)) = k
    BY <2>2
  <2>4. ResultVar(k) \in Vars
    BY DEF ResultVar, Vars
  <2> QED
    BY <1>2, <1>4, <2>3, <2>4
<1>5. env' = [v \in Vars |-> env'[v]]
  BY <1>2
<1>6. ASSUME Accepted(fn), NEW k \in ErrorPositions(fn)
      PROVE  Fine(fn, k, IF Named(fn) THEN env'[ResultVar(k)] ELSE result'[k])
  BY <1>2, <1>3, <1>4, <1>6
<1>7. \A k : Fine(fn, k, IF Named(fn) THEN env[ResultVar(k)] ELSE result[k])'
              <=> Fine(fn, k, IF Named(fn) THEN env'[ResultVar(k)] ELSE result'[k])
  BY <1>1 DEF Fine, ChosePlain, Named, ResultVar, assignedValues, Ident
<1>8. (Accepted(fn)' <=> Accepted(fn)) /\ ErrorPositions(fn)' = ErrorPositions(fn)
  BY <1>1
<1> QED
  BY <1>1, <1>5, <1>6, <1>7, <1>8 DEF LintInv

\* Leaving the function reports what the named results hold by then.
LEMMA LeaveKeeps ==
  ASSUME LintInv, Leave
  PROVE  LintInv'
<1>1. /\ fn \in Funcs /\ pc = "deferred" /\ pc' = "returned" /\ UNCHANGED <<fn, env>>
      /\ result' = [k \in ErrorPositions(fn) |-> IF Named(fn) THEN env[ResultVar(k)] ELSE result[k]]
  BY DEF Leave, LintInv
<1>2. ASSUME Accepted(fn), NEW k \in ErrorPositions(fn)
      PROVE  Fine(fn, k, result'[k])
  <2>1. Fine(fn, k, IF Named(fn) THEN env[ResultVar(k)] ELSE result[k])
    BY <1>1, <1>2 DEF LintInv
  <2> QED
    BY <1>1, <2>1
<1>3. \A k : Fine(fn, k, result[k])' <=> Fine(fn, k, result'[k])
  BY <1>1 DEF Fine, ChosePlain, Named, ResultVar, assignedValues, Ident
<1>4. (Accepted(fn)' <=> Accepted(fn)) /\ ErrorPositions(fn)' = ErrorPositions(fn)
  BY <1>1
<1> QED
  BY <1>1, <1>2, <1>3, <1>4 DEF LintInv

\* The invariant holds when a function begins, and every step keeps it.
LEMMA LintStep == (Init => LintInv) /\ (LintInv /\ [Next]_algorithmVars => LintInv')
<1>1. Init => LintInv
  <2>1. LintInit => LintInv
    <3> SUFFICES ASSUME LintInit PROVE LintInv
      OBVIOUS
    <3>1. PICK x \in {"nil", "traced", "outer"} : env = [v \in Vars |-> IF v = "o" THEN x ELSE "nil"]
      BY DEF LintInit
    <3>2. BodyHolds
      BY <3>1 DEF BodyHolds, Built
    <3> QED
      BY <3>1, <3>2 DEF LintInit, LintInv
  <2>2. LintIdle => LintInv
    BY DEF LintIdle, LintInv
  <2> QED
    BY <2>1, <2>2 DEF Init
<1>2. ASSUME LintInv, [Next]_algorithmVars PROVE LintInv'
  <2>1. CASE LintNext
    BY <1>2, <2>1, ExecuteKeeps, ReturnKeeps, LeaveKeeps DEF LintNext
  <2>2. CASE UNCHANGED lintVars
    <3>1. UNCHANGED <<fn, env, pc, result>>
      BY <2>2 DEF lintVars
    <3>2. BodyHolds' <=> BodyHolds
      BY <3>1 DEF BodyHolds
    <3>3. /\ \A k : Fine(fn, k, result[k])' <=> Fine(fn, k, result[k])
          /\ \A k : Fine(fn, k, IF Named(fn) THEN env[ResultVar(k)] ELSE result[k])'
                    <=> Fine(fn, k, IF Named(fn) THEN env[ResultVar(k)] ELSE result[k])
          /\ (Accepted(fn)' <=> Accepted(fn)) /\ ErrorPositions(fn)' = ErrorPositions(fn)
      BY <3>1
    <3> QED
      BY <1>2, <3>1, <3>2, <3>3 DEF LintInv
  <2> QED
    BY <1>2, <2>1, <2>2 DEF Next, algorithmVars
<1> QED
  BY <1>1, <1>2

\* LintSound for functions of any number of statements and interfaces of any
\* number of methods: whatever order the statements run in and whatever the
\* deferred closures do, a function that passes returns nothing it did not
\* join to the reverse trace, but for the three escapes, and methods are exempt
\* exactly when an interface whose package could be found demands them
\* (propagation.go checkPropagationFunction, helpers.go isGarlicConstructor,
\* isPropagatedVar, namedErrorResults, isForeignInterfaceMethod).
THEOREM LintsSound == Spec => []LintSound
<1>1. LintInv => LintSound
  <2> SUFFICES ASSUME LintInv PROVE LintSound
    OBVIOUS
  <2>1. ASSUME pc = "returned", Reports(fn) = {}, ~isForeignInterfaceMethod(fn), NEW k \in ErrorPositions(fn)
        PROVE  /\ result[k] # "raw"
               /\ result[k] = "untraced" => ChosePlain(fn, k)
               /\ result[k] = "outer" => \E e \in assignedValues(fn, "o") : isGarlicConstructor(e)
               /\ result[k] = "late" => /\ fn.ret.form = "explicit"
                                        /\ fn.ret.exprs[k] # Ident(ResultVar(k))
    <3>1. Fine(fn, k, result[k])
      BY <2>1 DEF LintInv, Accepted
    <3> QED
      BY <3>1 DEF Fine
  <2>2. pc = "body" /\ fn.recv.methods # {} => (isForeignInterfaceMethod(fn) <=> Demanded(fn))
    BY ExemptionExact DEF LintInv
  <2> QED
    BY <2>1, <2>2 DEF LintSound
<1> QED
  BY <1>1, LintStep, PTL DEF Spec

-----------------------------------------------------------------------------
(* What is kept of a response.                                             *)

\* The first n bytes of v are whole runes: WellFormed, by position.
WholeRunes(v, n) ==
  \A i \in 1 .. n :
    /\ v[i] = "2" => i + 1 <= n /\ v[i + 1] = "c"
    /\ v[i] = "3" => i + 2 <= n /\ v[i + 1] = "c" /\ v[i + 2] = "c"
    /\ v[i] = "c" => \/ i > 1 /\ v[i - 1] \in {"2", "3"}
                     \/ i > 2 /\ v[i - 1] = "c" /\ v[i - 2] = "3"
    /\ v[i] # "x"

\* A prefix, by its length.
LEMMA PrefixFacts ==
  ASSUME NEW S, NEW v \in Seq(S), NEW n \in 0 .. Len(v)
  PROVE  /\ SubSeq(v, 1, n) \in Seq(S) /\ Len(SubSeq(v, 1, n)) = n
         /\ \A i \in 1 .. n : SubSeq(v, 1, n)[i] = v[i]
         /\ SubSeq(v, 1, n) = v <=> n = Len(v)
OBVIOUS

\* The two ways of saying that a prefix is well formed agree.
LEMMA WellFormedPrefix ==
  ASSUME NEW v \in Seq(Bytes), NEW n \in 0 .. Len(v)
  PROVE  WellFormed(SubSeq(v, 1, n)) <=> WholeRunes(v, n)
<1> DEFINE s == SubSeq(v, 1, n)
           Byte(i) == CASE s[i] \in {"a", "q"} -> TRUE
                        [] s[i] = "2" -> i + 1 \in DOMAIN s /\ s[i + 1] = "c"
                        [] s[i] = "3" -> i + 2 \in DOMAIN s /\ s[i + 1] = "c" /\ s[i + 2] = "c"
                        [] s[i] = "c" -> \/ i > 1 /\ s[i - 1] \in {"2", "3"}
                                         \/ i > 2 /\ s[i - 1] = "c" /\ s[i - 2] = "3"
                        [] s[i] = "x" -> FALSE
           Rune(i) == /\ v[i] = "2" => i + 1 <= n /\ v[i + 1] = "c"
                      /\ v[i] = "3" => i + 2 <= n /\ v[i + 1] = "c" /\ v[i + 2] = "c"
                      /\ v[i] = "c" => \/ i > 1 /\ v[i - 1] \in {"2", "3"}
                                       \/ i > 2 /\ v[i - 1] = "c" /\ v[i - 2] = "3"
                      /\ v[i] # "x"
<1>1. n \in Nat /\ DOMAIN s = 1 .. n /\ \A i \in 1 .. n : s[i] = v[i] /\ v[i] \in Bytes
  BY PrefixFacts
<1>2. WellFormed(s) <=> \A i \in DOMAIN s : Byte(i)
  BY DEF WellFormed
<1> HIDE DEF s
<1>3. ASSUME NEW i \in 1 .. n PROVE Byte(i) <=> Rune(i)
  <2>1. s[i] = v[i] /\ v[i] \in {"a", "q", "2", "3", "c", "x"} /\ i \in Nat
    BY <1>1 DEF Bytes
  <2>2. CASE v[i] \in {"a", "q"}
    BY <2>1, <2>2
  <2>3. CASE v[i] = "2"
    BY <1>1, <2>1, <2>3
  <2>4. CASE v[i] = "3"
    BY <1>1, <2>1, <2>4
  <2>5. CASE v[i] = "c"
    <3>1. /\ i > 1 => s[i - 1] = v[i - 1]
          /\ i > 2 => s[i - 2] = v[i - 2]
      BY <1>1
    <3> QED
      BY <2>1, <2>5, <3>1
  <2>6. CASE v[i] = "x"
    BY <2>1, <2>6
  <2> QED
    BY <2>1, <2>2, <2>3, <2>4, <2>5, <2>6
<1>4. WholeRunes(v, n) <=> \A i \in 1 .. n : Rune(i)
  BY DEF WholeRunes
<1> HIDE DEF Byte, Rune
<1> QED
  BY <1>1, <1>2, <1>3, <1>4 DEF s

\* A walk that moves forward until a position tells it to stop is what its
\* recursive definition says.
LEMMA WalkExists ==
  ASSUME NEW last \in Nat, NEW done \in [0 .. last -> BOOLEAN],
         NEW value \in [0 .. last -> Int], NEW move \in [0 .. last -> Int],
         \A e \in 0 .. last : ~done[e] => move[e] \in e + 1 .. last
  PROVE  \E f : /\ f = [e \in 0 .. last |-> f[e]]
                /\ \A e \in 0 .. last : f[e] = IF done[e] THEN value[e] ELSE f[move[e]]
<1> DEFINE Eq(f, m) == f = [e \in last - m .. last |-> IF done[e] THEN value[e] ELSE f[move[e]]]
           T == {m \in Nat : m <= last => \E f : Eq(f, m)}
<1>1. 0 \in T
  <2>1. last - 0 .. last = {last} /\ done[last]
    OBVIOUS
  <2> DEFINE f == [e \in last - 0 .. last |-> value[e]]
  <2>2. Eq(f, 0)
    BY <2>1
  <2> QED
    BY <2>2
<1>2. ASSUME NEW m \in Nat, m \in T PROVE m + 1 \in T
  <2> SUFFICES ASSUME m + 1 <= last PROVE \E f : Eq(f, m + 1)
    BY <1>2
  <2>1. PICK f : Eq(f, m)
    BY <1>2
  <2> DEFINE d == last - (m + 1)
             g == [e \in d .. last |-> IF e = d THEN IF done[d] THEN value[d] ELSE f[move[d]] ELSE f[e]]
  <2>2. d \in Nat /\ last - m = d + 1
    OBVIOUS
  <2>3. \A e \in d + 1 .. last : g[e] = f[e] /\ f[e] = IF done[e] THEN value[e] ELSE f[move[e]]
    <3>1. \A e \in d + 1 .. last : f[e] = IF done[e] THEN value[e] ELSE f[move[e]]
      <4> HIDE DEF d
      <4> QED
        BY <2>1, <2>2
    <3>2. \A e \in d + 1 .. last : g[e] = f[e]
      BY <2>2
    <3> QED
      BY <3>1, <3>2
  <2>4. g[d] = IF done[d] THEN value[d] ELSE f[move[d]]
    BY <2>2
  <2>5. g = [e \in d .. last |-> g[e]]
    OBVIOUS
  <2>6. d \in 0 .. last /\ \A e \in d .. last : ~done[e] => move[e] \in d + 1 .. last
    BY <2>2
  <2> HIDE DEF g, d
  <2>7. \A e \in d .. last : g[e] = IF done[e] THEN value[e] ELSE g[move[e]]
    <3> TAKE e \in d .. last
    <3>1. CASE e = d
      BY <2>3, <2>4, <2>6, <3>1
    <3>2. CASE e # d
      <4>1. e \in d + 1 .. last
        BY <2>2, <3>2
      <4> QED
        BY <2>3, <2>6, <4>1
    <3> QED
      BY <3>1, <3>2
  <2>8. Eq(g, m + 1)
    BY <2>5, <2>7 DEF d
  <2> QED
    BY <2>8
<1> HIDE DEF T
<1>3. last \in T
  BY <1>1, <1>2, NatInductionOnSets
<1>4. last - last .. last = 0 .. last
  OBVIOUS
<1>5. PICK f : Eq(f, last)
  <2> HIDE DEF Eq
  <2> QED
    BY <1>3 DEF T
<1> QED
  BY <1>4, <1>5

\* DecodeRune gives the size of the rune that starts at a position, or 0.
LEMMA RuneSizes ==
  ASSUME NEW v \in Seq(Bytes), NEW i \in 1 .. Len(v)
  PROVE  LET size == DecodeRune(v, i) IN
         /\ size \in 0 .. 3 /\ (size # 0 => i + size - 1 <= Len(v))
         /\ size = 1 <=> v[i] \in {"a", "q"}
         /\ size = 2 <=> v[i] = "2" /\ i + 1 <= Len(v) /\ v[i + 1] = "c"
         /\ size = 3 <=> v[i] = "3" /\ i + 2 <= Len(v) /\ v[i + 1] = "c" /\ v[i + 2] = "c"
<1>1. v[i] \in {"a", "q", "2", "3", "c", "x"} /\ i \in Nat /\ Len(v) \in Nat
  BY DEF Bytes
<1>2. CASE v[i] \in {"a", "q"}
  BY <1>1, <1>2 DEF DecodeRune
<1>3. CASE v[i] = "2"
  <2>1. (i + 1 <= Len(v) /\ \A k \in 1 .. 1 : v[i + k] = "c") <=> (i + 1 <= Len(v) /\ v[i + 1] = "c")
    OBVIOUS
  <2> QED
    BY <1>1, <1>3, <2>1 DEF DecodeRune
<1>4. CASE v[i] = "3"
  <2>1. 1 .. 2 = {1, 2}
    OBVIOUS
  <2>2. (\A k \in 1 .. 2 : v[i + k] = "c") <=> (v[i + 1] = "c" /\ v[i + 2] = "c")
    BY <2>1
  <2> QED
    BY <1>1, <1>4, <2>2 DEF DecodeRune
<1>5. CASE v[i] \in {"c", "x"}
  BY <1>1, <1>5 DEF DecodeRune
<1> QED
  BY <1>1, <1>2, <1>3, <1>4, <1>5

\* A rune after whole runes makes whole runes.
LEMMA RuneExtends ==
  ASSUME NEW v \in Seq(Bytes), NEW end \in Nat, end < Len(v), WholeRunes(v, end),
         DecodeRune(v, end + 1) # 0
  PROVE  WholeRunes(v, end + DecodeRune(v, end + 1)) /\ end + DecodeRune(v, end + 1) <= Len(v)
<1> DEFINE size == DecodeRune(v, end + 1)
<1>1. end + 1 \in 1 .. Len(v)
  OBVIOUS
<1>2. /\ size \in 1 .. 3 /\ end + size <= Len(v)
      /\ size = 1 => v[end + 1] \in {"a", "q"}
      /\ size = 2 => v[end + 1] = "2" /\ v[end + 2] = "c"
      /\ size = 3 => v[end + 1] = "3" /\ v[end + 2] = "c" /\ v[end + 3] = "c"
  BY <1>1, RuneSizes
<1> HIDE DEF size
<1>3. ASSUME NEW i \in 1 .. end + size
      PROVE  /\ v[i] = "2" => i + 1 <= end + size /\ v[i + 1] = "c"
             /\ v[i] = "3" => i + 2 <= end + size /\ v[i + 1] = "c" /\ v[i + 2] = "c"
             /\ v[i] = "c" => \/ i > 1 /\ v[i - 1] \in {"2", "3"}
                              \/ i > 2 /\ v[i - 1] = "c" /\ v[i - 2] = "3"
             /\ v[i] # "x"
  <2>1. CASE i <= end
    BY <1>2, <2>1 DEF WholeRunes
  <2>2. CASE i = end + 1
    BY <1>2, <2>2
  <2>3. CASE i = end + 2
    <3>1. i - 1 = end + 1 /\ i > 1 /\ size \in {2, 3}
      BY <1>2, <2>3
    <3> QED
      BY <1>2, <2>3, <3>1
  <2>4. CASE i = end + 3
    <3>1. i - 2 = end + 1 /\ i - 1 = end + 2 /\ i > 2 /\ size = 3
      BY <1>2, <2>4
    <3> QED
      BY <1>2, <2>4, <3>1
  <2> QED
    BY <1>2, <2>1, <2>2, <2>3, <2>4
<1> QED
  BY <1>2, <1>3 DEF WholeRunes, size

\* Whole runes that go on past a rune boundary take the next rune in.
LEMMA RuneNeeded ==
  ASSUME NEW v \in Seq(Bytes), NEW end \in Nat, NEW n \in Nat, end < n, n <= Len(v),
         WholeRunes(v, end), WholeRunes(v, n)
  PROVE  DecodeRune(v, end + 1) # 0 /\ end + DecodeRune(v, end + 1) <= n
<1> DEFINE size == DecodeRune(v, end + 1)
           i == end + 1
<1>1. i \in 1 .. Len(v) /\ i \in 1 .. n /\ v[i] \in {"a", "q", "2", "3", "c", "x"}
  BY DEF Bytes
<1>2. /\ size \in 0 .. 3
      /\ v[i] \in {"a", "q"} => size = 1
      /\ v[i] = "2" /\ i + 1 <= Len(v) /\ v[i + 1] = "c" => size = 2
      /\ v[i] = "3" /\ i + 2 <= Len(v) /\ v[i + 1] = "c" /\ v[i + 2] = "c" => size = 3
  BY <1>1, RuneSizes
<1> HIDE DEF size
<1>3. /\ v[i] = "2" => i + 1 <= n /\ v[i + 1] = "c"
      /\ v[i] = "3" => i + 2 <= n /\ v[i + 1] = "c" /\ v[i + 2] = "c"
      /\ v[i] = "c" => \/ i > 1 /\ v[i - 1] \in {"2", "3"}
                       \/ i > 2 /\ v[i - 1] = "c" /\ v[i - 2] = "3"
      /\ v[i] # "x"
  BY <1>1 DEF WholeRunes
<1>4. v[i] # "c"
  <2>1. end >= 1 => v[end] \notin {"2", "3"}
    BY DEF WholeRunes
  <2>2. end >= 2 => v[end - 1] # "3"
    <3> SUFFICES ASSUME end >= 2, v[end - 1] = "3" PROVE FALSE
      OBVIOUS
    <3>1. end - 1 \in 1 .. end /\ (end - 1) + 2 > end
      OBVIOUS
    <3> QED
      BY <3>1 DEF WholeRunes
  <2>3. i - 1 = end /\ i - 2 = end - 1
    OBVIOUS
  <2> QED
    BY <1>3, <2>1, <2>2, <2>3
<1>5. size # 0 /\ end + size <= n
  BY <1>1, <1>2, <1>3, <1>4
<1> QED
  BY <1>5 DEF size

\* boundedPrefix finds the longest prefix of whole runes within the limit, and
\* gives up exactly when no prefix of whole runes gets to the limit or the end.
\* At every position the walk visits, the bytes before it are whole runes.
LEMMA BoundedPrefixExact ==
  ASSUME NEW v \in Seq(Bytes)
  PROVE  LET end == boundedPrefix(v)
             reaches(n) == WholeRunes(v, n) /\ (n = Len(v) \/ n >= maxDiagnosticBytes)
         IN  /\ end = Invalid => \A n \in 0 .. Len(v) : ~reaches(n)
             /\ end # Invalid =>
                  /\ end \in 0 .. Len(v) /\ end <= maxDiagnosticBytes /\ WholeRunes(v, end)
                  /\ \A n \in 0 .. Len(v) : WholeRunes(v, n) /\ n <= maxDiagnosticBytes => n <= end
                  /\ \E n \in 0 .. Len(v) : reaches(n)
<1> DEFINE L == Len(v)
           max == maxDiagnosticBytes
           Size(e) == DecodeRune(v, e + 1)
           reaches(n) == WholeRunes(v, n) /\ (n = L \/ n >= max)
           stop == CHOOSE stop : stop = [end \in 0 .. Len(v) |->
                     IF end >= Len(v) \/ end >= maxDiagnosticBytes THEN end
                     ELSE LET size == DecodeRune(v, end + 1)
                          IN  IF size = 0 THEN Invalid
                              ELSE IF end + size > maxDiagnosticBytes THEN end
                              ELSE stop[end + size]]
           Exact(end) ==
             /\ end = Invalid => \A n \in 0 .. L : ~reaches(n)
             /\ end # Invalid =>
                  /\ end \in 0 .. L /\ end <= max /\ WholeRunes(v, end)
                  /\ \A n \in 0 .. L : WholeRunes(v, n) /\ n <= max => n <= end
                  /\ \E n \in 0 .. L : reaches(n)
<1>1. boundedPrefix(v) = stop[0]
  BY DEF boundedPrefix
<1>2. L \in Nat /\ max \in Nat
  BY DiagnosticsAssumption
<1>3. stop = [end \in 0 .. L |->
                 IF end >= L \/ end >= max THEN end
                 ELSE IF Size(end) = 0 THEN Invalid
                 ELSE IF end + Size(end) > max THEN end
                 ELSE stop[end + Size(end)]]
  <2> DEFINE last(e) == e >= L \/ e >= max \/ Size(e) = 0 \/ e + Size(e) > max
             done == [e \in 0 .. L |-> last(e)]
             value == [e \in 0 .. L |-> IF e >= L \/ e >= max \/ Size(e) # 0 THEN e ELSE Invalid]
             move == [e \in 0 .. L |-> IF last(e) THEN 0 ELSE e + Size(e)]
  <2>1. ASSUME NEW e \in 0 .. L, ~done[e] PROVE move[e] \in e + 1 .. L
    <3> HIDE DEF Size
    <3>1. e + 1 \in 1 .. L /\ Size(e) # 0 /\ move[e] = e + Size(e)
      <4>1. ~last(e)
        BY <2>1
      <4> QED
        BY <1>2, <4>1
    <3>2. Size(e) \in 0 .. 3 /\ (e + 1) + Size(e) - 1 <= L
      BY <3>1, RuneSizes DEF Size
    <3> QED
      BY <1>2, <3>1, <3>2
  <2>2. PICK f : /\ f = [e \in 0 .. L |-> f[e]]
                 /\ \A e \in 0 .. L : f[e] = IF done[e] THEN value[e] ELSE f[move[e]]
    <3>1. \A e \in 0 .. L : ~last(e) => Size(e) \in Int
      BY <1>2, RuneSizes
    <3> HIDE DEF Size
    <3>2. done \in [0 .. L -> BOOLEAN] /\ value \in [0 .. L -> Int] /\ move \in [0 .. L -> Int]
      BY <1>2, <3>1 DEF Invalid
    <3> HIDE DEF done, value, move, L
    <3>3. \A e \in 0 .. L : ~done[e] => move[e] \in e + 1 .. L
      BY <2>1
    <3> QED
      BY <1>2, <3>2, <3>3, WalkExists
  <2>3. f = [end \in 0 .. L |->
                 IF end >= L \/ end >= max THEN end
                 ELSE IF Size(end) = 0 THEN Invalid
                 ELSE IF end + Size(end) > max THEN end
                 ELSE f[end + Size(end)]]
    <3> HIDE DEF Size
    <3> QED
      BY <2>2
  <2> QED
    BY <2>3
<1> HIDE DEF stop
<1> DEFINE T == {m \in Nat : \A e \in 0 .. L : L - e <= m /\ e <= max /\ WholeRunes(v, e) => Exact(stop[e])}
<1>4. ASSUME NEW e \in 0 .. L, e <= max, WholeRunes(v, e),
             \A d \in 0 .. L : d > e /\ d <= max /\ WholeRunes(v, d) => Exact(stop[d])
      PROVE  Exact(stop[e])
  <2>0. Invalid = max + 1
    BY DEF Invalid
  <2>1. CASE e >= L \/ e >= max
    <3>1. stop[e] = e /\ reaches(e) /\ e # Invalid
      BY <1>2, <1>3, <1>4, <2>0, <2>1
    <3> HIDE DEF reaches
    <3>2. \A n \in 0 .. L : n <= max => n <= e
      BY <1>2, <1>4, <2>1
    <3> QED
      BY <1>4, <3>1, <3>2
  <2>2. CASE ~(e >= L \/ e >= max)
    <3>1. e \in Nat /\ e < L /\ e < max
      BY <1>2, <2>2
    <3>2. \A n \in 0 .. L : WholeRunes(v, n) /\ n > e => Size(e) # 0 /\ e + Size(e) <= n
      BY <1>4, <3>1, RuneNeeded
    <3>3. Size(e) # 0 => WholeRunes(v, e + Size(e)) /\ e + Size(e) <= L
      BY <1>4, <3>1, RuneExtends
    <3>4. Size(e) \in 0 .. 3
      BY <1>2, <3>1, RuneSizes
    <3> HIDE DEF Size
    <3>5. CASE Size(e) = 0
      <4>1. stop[e] = Invalid
        BY <1>3, <1>4, <2>2, <3>5
      <4>2. \A n \in 0 .. L : ~reaches(n)
        BY <1>2, <3>1, <3>2, <3>5
      <4> QED
        BY <4>1, <4>2
    <3>6. CASE Size(e) # 0 /\ e + Size(e) > max
      <4>1. stop[e] = e
        BY <1>3, <1>4, <2>2, <3>6
      <4>2. e + Size(e) \in 0 .. L /\ reaches(e + Size(e))
        BY <1>2, <3>1, <3>3, <3>4, <3>6
      <4>3. \A n \in 0 .. L : WholeRunes(v, n) /\ n <= max => n <= e
        BY <1>2, <3>1, <3>2, <3>4, <3>6
      <4>4. e # Invalid
        BY <1>2, <2>0, <3>1
      <4> HIDE DEF reaches
      <4> QED
        BY <1>4, <4>1, <4>2, <4>3, <4>4
    <3>7. CASE Size(e) # 0 /\ ~(e + Size(e) > max)
      <4>1. stop[e] = stop[e + Size(e)]
        BY <1>3, <1>4, <2>2, <3>7
      <4>2. e + Size(e) \in 0 .. L /\ e + Size(e) > e /\ e + Size(e) <= max
        BY <1>2, <3>1, <3>3, <3>4, <3>7
      <4>3. Exact(stop[e + Size(e)])
        BY <1>4, <3>3, <3>7, <4>2
      <4> QED
        BY <4>1, <4>3
    <3> QED
      BY <3>5, <3>6, <3>7
  <2> QED
    BY <2>1, <2>2
<1> HIDE DEF Exact
<1>5. 0 \in T
  <2>1. \A e \in 0 .. L : L - e <= 0 => \A d \in 0 .. L : ~(d > e)
    BY <1>2
  <2> QED
    BY <1>4, <2>1
<1>6. ASSUME NEW m \in Nat, m \in T PROVE m + 1 \in T
  <2> SUFFICES ASSUME NEW e \in 0 .. L, L - e <= m + 1, e <= max, WholeRunes(v, e)
               PROVE  Exact(stop[e])
    OBVIOUS
  <2>1. \A d \in 0 .. L : d > e => L - d <= m
    BY <1>2
  <2> QED
    BY <1>4, <1>6, <2>1
<1> HIDE DEF T
<1>7. L \in T
  BY <1>2, <1>5, <1>6, NatInductionOnSets
<1>8. WholeRunes(v, 0) /\ 0 \in 0 .. L /\ L - 0 <= L
  BY <1>2 DEF WholeRunes
<1>9. Exact(stop[0])
  BY <1>2, <1>7, <1>8 DEF T
<1> QED
  BY <1>1, <1>9 DEF Exact

\* Flattening sequences over a set gives a sequence over it.
LEMMA FlattenedElements ==
  ASSUME NEW S, NEW ss \in Seq(Seq(S))
  PROVE  FlattenSeq(ss) \in Seq(S)
<1> DEFINE L == Len(ss)
           flatten == CHOOSE flatten : flatten = [i \in 1 .. Len(ss) |->
                        IF i = 1 THEN ss[i] ELSE flatten[i - 1] \o ss[i]]
           Eq(b, m) == b = [i \in 1 .. m |-> IF i = 1 THEN ss[i] ELSE b[i - 1] \o ss[i]]
           T == {m \in Nat : m <= L => \E b : Eq(b, m)}
<1>1. FlattenSeq(ss) = IF L = 0 THEN ss ELSE flatten[L]
  BY DEF FlattenSeq
<1>2. L \in Nat /\ \A i \in 1 .. L : ss[i] \in Seq(S)
  OBVIOUS
<1>3. CASE L = 0
  <2>1. ss = << >>
    BY <1>3
  <2> QED
    BY <1>1, <1>3, <2>1
<1>4. CASE L # 0
  <2>1. 0 \in T
    <3>1. Eq([i \in 1 .. 0 |-> ss[i]], 0)
      OBVIOUS
    <3> QED
      BY <3>1
  <2> HIDE DEF Eq
  <2>2. ASSUME NEW m \in Nat, m \in T PROVE m + 1 \in T
    <3> SUFFICES ASSUME m + 1 <= L PROVE \E b : Eq(b, m + 1)
      BY <2>2
    <3>1. PICK b : Eq(b, m)
      BY <1>2, <2>2
    <3> DEFINE c == [i \in 1 .. m + 1 |-> IF i = m + 1 THEN IF i = 1 THEN ss[i] ELSE b[i - 1] \o ss[i]
                                          ELSE b[i]]
    <3>2. \A i \in 1 .. m : c[i] = b[i]
      OBVIOUS
    <3>3. c[m + 1] = IF m + 1 = 1 THEN ss[m + 1] ELSE b[(m + 1) - 1] \o ss[m + 1]
      OBVIOUS
    <3>4. c = [i \in 1 .. m + 1 |-> c[i]]
      OBVIOUS
    <3>5. \A i \in 1 .. m : b[i] = IF i = 1 THEN ss[i] ELSE b[i - 1] \o ss[i]
      BY <3>1 DEF Eq
    <3> HIDE DEF c
    <3>6. \A i \in 1 .. m + 1 : c[i] = IF i = 1 THEN ss[i] ELSE c[i - 1] \o ss[i]
      <4> TAKE i \in 1 .. m + 1
      <4>1. CASE i = m + 1
        <5>1. i # 1 => (m + 1) - 1 \in 1 .. m
          BY <4>1
        <5> QED
          BY <3>2, <3>3, <4>1, <5>1
      <4>2. CASE i # m + 1
        <5>1. i \in 1 .. m /\ (i # 1 => i - 1 \in 1 .. m)
          BY <4>2
        <5> QED
          BY <3>2, <3>5, <5>1
      <4> QED
        BY <4>1, <4>2
    <3>7. Eq(c, m + 1)
      BY <3>4, <3>6 DEF Eq
    <3> QED
      BY <3>7
  <2> HIDE DEF T
  <2>3. L \in T
    BY <1>2, <2>1, <2>2, NatInductionOnSets
  <2>4. \E b : Eq(b, L)
    BY <2>3 DEF T
  <2>5. flatten = [i \in 1 .. L |-> IF i = 1 THEN ss[i] ELSE flatten[i - 1] \o ss[i]]
    BY <2>4 DEF Eq
  <2> DEFINE U == {m \in Nat : m + 1 <= L => flatten[m + 1] \in Seq(S)}
  <2> HIDE DEF flatten
  <2>6. 0 \in U
    <3>1. flatten[1] = ss[1] /\ 1 \in 1 .. L
      BY <1>2, <1>4, <2>5
    <3> QED
      BY <1>2, <3>1
  <2>7. ASSUME NEW m \in Nat, m \in U PROVE m + 1 \in U
    <3> SUFFICES ASSUME (m + 1) + 1 <= L PROVE flatten[(m + 1) + 1] \in Seq(S)
      BY <2>7
    <3>1. (m + 1) + 1 \in 1 .. L /\ (m + 1) + 1 # 1 /\ ((m + 1) + 1) - 1 = m + 1 /\ m + 1 <= L
      BY <1>2
    <3>2. flatten[(m + 1) + 1] = flatten[m + 1] \o ss[(m + 1) + 1]
      BY <2>5, <3>1
    <3>3. flatten[m + 1] \in Seq(S) /\ ss[(m + 1) + 1] \in Seq(S)
      BY <1>2, <2>7, <3>1
    <3> HIDE DEF L
    <3> QED
      BY <3>2, <3>3
  <2> HIDE DEF U
  <2>8. L - 1 \in U
    <3>1. L - 1 \in Nat
      BY <1>2, <1>4
    <3> HIDE DEF L
    <3> QED
      BY <2>6, <2>7, <3>1, NatInductionOnSets
  <2>9. flatten[L] \in Seq(S)
    BY <1>2, <1>4, <2>8 DEF U
  <2> QED
    BY <1>1, <1>4, <2>9
<1> QED
  BY <1>3, <1>4

\* strconv.Quote leaves no byte that it would have to escape.
LEMMA QuotedBytes ==
  ASSUME NEW text \in Seq(Bytes)
  PROVE  Quote(text) \in Seq(Bytes \ {"q"})
<1> DEFINE S == Bytes \ {"q"}
           parts == [i \in DOMAIN text |-> IF text[i] = "q" THEN <<"a", "a">> ELSE <<text[i]>>]
<1>1. DOMAIN text = 1 .. Len(text) /\ Len(text) \in Nat
  OBVIOUS
<1>2. \A i \in 1 .. Len(text) : text[i] \in Bytes
  OBVIOUS
<1>3. "a" \in S
  BY DEF Bytes
<1> HIDE DEF S
<1>4. <<"a">> \in Seq(S) /\ <<"a", "a">> \in Seq(S)
  BY <1>3
<1>5. \A i \in 1 .. Len(text) : text[i] # "q" => <<text[i]>> \in Seq(S)
  BY <1>2 DEF S
<1>6. parts \in Seq(Seq(S))
  BY <1>1, <1>4, <1>5
<1> HIDE DEF parts
<1>7. FlattenSeq(parts) \in Seq(S)
  BY <1>6, FlattenedElements
<1>8. Quote(text) = <<"a">> \o FlattenSeq(parts) \o <<"a">>
  BY DEF Quote, parts
<1> QED
  BY <1>4, <1>7, <1>8 DEF S

\* The well-formed prefixes within the limit.
Fits(v) == {p \in Prefixes(v) : WellFormed(p) /\ Len(p) <= maxDiagnosticBytes}

\* Some well-formed prefix gets to the limit or to the end.
Reaches(v) == \E p \in Prefixes(v) : WellFormed(p) /\ (p = v \/ Len(p) >= maxDiagnosticBytes)

\* The capture c is what ought to be kept of v.
CapturedExactly(v, c) ==
  /\ c.readable \in BOOLEAN /\ c.truncated \in BOOLEAN
  /\ c.readable =>
       /\ c.text \in Fits(v) /\ Reaches(v)
       /\ \A p \in Fits(v) : Len(p) <= Len(c.text)
       /\ c.text # v <=> c.truncated

\* captureDiagnostic keeps that, under the length of the whole.
LEMMA CaptureExact ==
  ASSUME NEW v \in Seq(Bytes)
  PROVE  /\ CapturedExactly(v, captureDiagnostic(v))
         /\ captureDiagnostic(v).length = Len(v)
         /\ Reaches(v) => captureDiagnostic(v).readable
         /\ ~captureDiagnostic(v).readable => captureDiagnostic(v).text = << >>
<1> DEFINE end == boundedPrefix(v)
           c == captureDiagnostic(v)
           L == Len(v)
           max == maxDiagnosticBytes
           reaches(n) == WholeRunes(v, n) /\ (n = L \/ n >= max)
<1>1. L \in Nat /\ max \in Nat
  BY DiagnosticsAssumption
<1>2. /\ end = Invalid => \A n \in 0 .. L : ~reaches(n)
      /\ end # Invalid =>
           /\ end \in 0 .. L /\ end <= max /\ WholeRunes(v, end)
           /\ \A n \in 0 .. L : WholeRunes(v, n) /\ n <= max => n <= end
           /\ \E n \in 0 .. L : reaches(n)
  BY BoundedPrefixExact
<1>3. \A n \in 0 .. L : /\ Len(SubSeq(v, 1, n)) = n /\ (SubSeq(v, 1, n) = v <=> n = L)
                        /\ WellFormed(SubSeq(v, 1, n)) <=> WholeRunes(v, n)
  BY PrefixFacts, WellFormedPrefix
<1>4. Prefixes(v) = {SubSeq(v, 1, n) : n \in 0 .. L}
  BY DEF Prefixes
<1>5. Reaches(v) <=> \E n \in 0 .. L : reaches(n)
  BY <1>3, <1>4 DEF Reaches
<1>6. CASE end = Invalid
  <2>1. c = Dropped(L)
    BY <1>6 DEF captureDiagnostic
  <2> HIDE DEF c
  <2>2. c.text = << >> /\ c.readable = FALSE /\ c.length = L /\ c.truncated \in BOOLEAN
    BY <2>1 DEF Dropped
  <2> QED
    BY <1>2, <1>5, <1>6, <2>2 DEF CapturedExactly, c
<1>7. CASE end # Invalid
  <2>1. c = [text |-> SubSeq(v, 1, end), length |-> L, truncated |-> end < L, readable |-> TRUE]
    BY <1>7 DEF captureDiagnostic
  <2> HIDE DEF c, end
  <2>2. /\ c.text = SubSeq(v, 1, end) /\ c.readable = TRUE /\ c.length = L
        /\ c.truncated \in BOOLEAN /\ (c.truncated <=> end < L)
    <3>1. c.text = SubSeq(v, 1, end) /\ c.readable = TRUE /\ c.length = L
      BY <2>1
    <3>2. c.truncated \in BOOLEAN /\ (c.truncated <=> end < L)
      <4>1. CASE end < L
        <5>1. c = [text |-> SubSeq(v, 1, end), length |-> L, truncated |-> TRUE, readable |-> TRUE]
          BY <2>1, <4>1
        <5> QED
          BY <4>1, <5>1
      <4>2. CASE ~(end < L)
        <5>1. c = [text |-> SubSeq(v, 1, end), length |-> L, truncated |-> FALSE, readable |-> TRUE]
          <6>1. (end < L) = FALSE
            BY <1>1, <1>2, <1>7, <4>2, SMT
          <6> QED
            BY <2>1, <6>1, Zenon
        <5> QED
          BY <4>2, <5>1
      <4> QED
        BY <4>1, <4>2
    <3> QED
      BY <3>1, <3>2
  <2>3. Len(c.text) = end /\ c.text \in Fits(v)
    BY <1>2, <1>3, <1>4, <1>7, <2>2 DEF Fits
  <2>4. \A p \in Fits(v) : Len(p) <= Len(c.text)
    BY <1>2, <1>3, <1>4, <1>7, <2>3 DEF Fits
  <2>5. c.text # v <=> c.truncated
    BY <1>1, <1>2, <1>3, <1>7, <2>2
  <2>6. Reaches(v)
    BY <1>2, <1>5, <1>7
  <2> QED
    BY <2>2, <2>3, <2>4, <2>5, <2>6 DEF CapturedExactly, c
<1> QED
  BY <1>6, <1>7

\* A body is a string of bytes, and so is what a raw string decodes to.
LEMMA PeerBytes ==
  /\ \A r \in Foreign : r.body \in Seq(Bytes) /\ r.readErr \in BOOLEAN /\ r.is = "foreign"
  /\ \A r \in Unregistered : /\ r.is = "unregistered"
                             /\ Unescaped(r.code) \in Seq(Bytes)
                             /\ IsPeerString(r.name) => Unescaped(r.name) \in Seq(Bytes)
                             /\ IsPeerString(r.message) => Unescaped(r.message) \in Seq(Bytes)
<1> DEFINE Raw == {"a", "e", "2", "c", "x"}
<1>1. \A S, n : \A s \in BoundedSeq(S, n) : s \in Seq(S)
  BY DEF BoundedSeq, SeqOf
<1>2. ASSUME NEW s \in Seq(Raw) PROVE Unescaped(s) \in Seq(Bytes)
  <2>1. DOMAIN s = 1 .. Len(s) /\ Len(s) \in Nat /\ \A i \in 1 .. Len(s) : s[i] \in Raw
    OBVIOUS
  <2>2. \A i \in 1 .. Len(s) : (IF s[i] = "e" THEN "q" ELSE s[i]) \in Bytes
    BY <2>1 DEF Bytes
  <2>3. Unescaped(s) = [i \in 1 .. Len(s) |-> IF s[i] = "e" THEN "q" ELSE s[i]]
    BY <2>1 DEF Unescaped
  <2> HIDE DEF Raw
  <2> QED
    BY <2>1, <2>2, <2>3
<1>3. \A r \in Foreign : r.body \in Seq(Bytes) /\ r.readErr \in BOOLEAN /\ r.is = "foreign"
  BY <1>1 DEF Foreign
<1>4. ASSUME NEW r \in Unregistered
      PROVE  /\ r.is = "unregistered" /\ r.code \in Seq(Raw)
             /\ IsPeerString(r.name) => r.name \in Seq(Raw)
             /\ IsPeerString(r.message) => r.message \in Seq(Raw)
  <2>1. /\ r.is = "unregistered" /\ r.code \in BoundedSeq(Raw, MaxRaw)
        /\ r.name \in {Absent, << >>, <<"e", "a">>, <<"2">>}
        /\ r.message \in {Absent, <<"a", "a", "2", "c">>}
    BY DEF Unregistered
  <2>2. <<"e", "a">> \in Seq(Raw) /\ <<"2">> \in Seq(Raw) /\ <<"a", "a", "2", "c">> \in Seq(Raw)
    OBVIOUS
  <2> QED
    BY <1>1, <2>1, <2>2 DEF IsPeerString
<1> QED
  BY <1>2, <1>3, <1>4

\* What DiagnosticsExact says of the text that is kept of v.
TextExact(v, f, context) ==
  /\ f.value \in Fits(v) /\ \A p \in Fits(v) : Len(p) <= Len(f.value)
  /\ Reaches(v)
  /\ (f.value # v) <=> ([f EXCEPT !.part = "truncated", !.value = 1] \in context)

\* The text field of an exact capture is exact, and stands beside a "truncated"
\* field that says whether it is all.
LEMMA FieldExact ==
  ASSUME NEW v, NEW c, CapturedExactly(v, c), NEW name, NEW context,
         \A g : g \in context /\ g.name = name <=> g \in capturedFields(name, c),
         NEW f \in context, f.name = name, f.part = "text"
  PROVE  TextExact(v, f, context)
<1> DEFINE text == [name |-> name, part |-> "text", value |-> c.text]
           bytes == [name |-> name, part |-> "bytes", value |-> c.length]
           flag(b) == [name |-> name, part |-> "truncated", value |-> b]
<1>1. capturedFields(name, c) = {bytes, flag(IF c.truncated THEN 1 ELSE 0)}
                                  \cup IF c.readable THEN {text} ELSE {}
  BY DEF capturedFields
<1>2. c.readable /\ f = text
  BY <1>1
<1>3. f.value = c.text /\ [f EXCEPT !.part = "truncated", !.value = 1] = flag(1)
  <2>1. text.value = c.text
    OBVIOUS
  <2>2. [text EXCEPT !.part = "truncated"] = [name |-> name, part |-> "truncated", value |-> c.text]
    OBVIOUS
  <2>3. [text EXCEPT !.part = "truncated", !.value = 1] = [[text EXCEPT !.part = "truncated"] EXCEPT !.value = 1]
    OBVIOUS
  <2>4. [[name |-> name, part |-> "truncated", value |-> c.text] EXCEPT !.value = 1] = flag(1)
    OBVIOUS
  <2> HIDE DEF text, flag
  <2> QED
    BY <1>2, <2>1, <2>2, <2>3, <2>4
<1>4. flag(1) \in context <=> flag(1) \in capturedFields(name, c)
  OBVIOUS
<1>5. flag(1) \in capturedFields(name, c) <=> c.truncated
  <2>1. flag(1) # bytes /\ flag(1) # text /\ flag(1) # flag(0)
    OBVIOUS
  <2> HIDE DEF flag, bytes, text
  <2> QED
    BY <1>1, <2>1 DEF CapturedExactly
<1> QED
  BY <1>2, <1>3, <1>4, <1>5 DEF CapturedExactly, TextExact

\* capturePeerString captures exactly what the string decodes to, or nothing.
LEMMA PeerStringExact ==
  ASSUME NEW raw, IsPeerString(raw), Unescaped(raw) \in Seq(Bytes)
  PROVE  /\ CapturedExactly(Unescaped(raw), capturePeerString(raw))
         /\ capturePeerString(raw).readable =>
              capturePeerString(raw).text \in Seq(Bytes)
<1>1. CASE ~utf8Valid(RawBytes(raw))
  <2>1. capturePeerString(raw) = Dropped(Len(RawBytes(raw)))
    BY <1>1 DEF capturePeerString
  <2>2. \A n : Dropped(n).readable = FALSE /\ Dropped(n).truncated \in BOOLEAN
    BY DEF Dropped
  <2> QED
    BY <2>1, <2>2 DEF CapturedExactly
<1>2. CASE utf8Valid(RawBytes(raw))
  <2>1. capturePeerString(raw) = captureDiagnostic(Unescaped(raw))
    BY <1>2 DEF capturePeerString
  <2>2. CapturedExactly(Unescaped(raw), capturePeerString(raw))
    BY <2>1, CaptureExact
  <2>3. \A p \in Fits(Unescaped(raw)) : p \in Seq(Bytes)
    BY PrefixFacts DEF Fits, Prefixes
  <2> QED
    BY <2>2, <2>3 DEF CapturedExactly
<1> QED
  BY <1>1, <1>2

\* The message is well formed, within the limit and escaped.
LEMMA MessageSafe ==
  ASSUME NEW c, c.readable => c.text \in Seq(Bytes)
  PROVE  LET m == renderReceived(c) IN
         /\ WellFormed(m) /\ Len(m) <= maxDiagnosticBytes
         /\ \A i \in DOMAIN m : m[i] # "q"
<1> DEFINE m == renderReceived(c)
           v == Quote(c.text)
<1>1. CASE m = << >>
  <2>1. DOMAIN m = {} /\ Len(m) = 0
    BY <1>1
  <2> HIDE DEF m
  <2> QED
    BY <2>1, DiagnosticsAssumption DEF WellFormed, m
<1>2. CASE m # << >>
  <2>1. c.readable /\ m = captureDiagnostic(v).text
    BY <1>2 DEF renderReceived
  <2>2. v \in Seq(Bytes \ {"q"})
    BY <2>1, QuotedBytes
  <2> HIDE DEF v, m
  <2>3. v \in Seq(Bytes)
    BY <2>2
  <2>4. captureDiagnostic(v).readable /\ CapturedExactly(v, captureDiagnostic(v))
    BY <1>2, <2>1, <2>3, CaptureExact
  <2>5. m \in Fits(v)
    BY <2>1, <2>4 DEF CapturedExactly
  <2>6. m \in Seq(Bytes \ {"q"}) /\ WellFormed(m) /\ Len(m) <= maxDiagnosticBytes
    BY <2>2, <2>5, PrefixFacts DEF Fits, Prefixes
  <2>7. \A i \in DOMAIN m : m[i] # "q"
    BY <2>6
  <2> QED
    BY <2>6, <2>7 DEF m
<1> QED
  BY <1>1, <1>2

\* DecodeError on a body that is no garlic error.
LEMMA ForeignExact ==
  ASSUME response \in Foreign, DecodeForeignBody
  PROVE  DiagnosticsExact'
<1> DEFINE body == response.body
           c == describeBody(body, response.readErr)
<1>1. PICK h \in Headers :
        failure' = [is |-> "fallback", message |-> << >>,
                    details |-> responseMetadata(safeMediaType(h), c),
                    context |-> capturedFields("body", c)]
  BY DEF DecodeForeignBody
<1>2. response' = response /\ body \in Seq(Bytes) /\ response.is = "foreign"
  BY PeerBytes DEF DecodeForeignBody
<1>3. /\ CapturedExactly(body, c) /\ c.length = Len(body)
      /\ Reaches(body) => (body = << >> /\ ~response.readErr) \/ c.readable
  <2>1. CASE ~response.readErr /\ body = << >>
    <3>1. c = NoCapture
      BY <2>1 DEF describeBody
    <3>2. NoCapture.readable = FALSE /\ NoCapture.truncated = FALSE /\ NoCapture.length = 0
      BY DEF NoCapture
    <3> HIDE DEF c, body
    <3> QED
      BY <2>1, <3>1, <3>2 DEF CapturedExactly
  <2>2. CASE ~(~response.readErr /\ body = << >>)
    <3>1. c = captureDiagnostic(body)
      BY <2>2 DEF describeBody
    <3> QED
      BY <1>2, <3>1, CaptureExact
  <2> QED
    BY <2>1, <2>2
<1> HIDE DEF c, body
<1>4. /\ failure'.message = << >> /\ failure'.context = capturedFields("body", c)
      /\ failure'.details.content_type = safeMediaType(h) /\ failure'.details.body_bytes = c.length
  BY <1>1 DEF responseMetadata
<1>5. \A f \in failure'.context : f.name = "body"
  BY <1>4 DEF capturedFields
<1>6. \A g : g \in failure'.context /\ g.name = "body" <=> g \in capturedFields("body", c)
  BY <1>4, <1>5
<1>7. ASSUME NEW f \in failure'.context, f.part = "text"
      PROVE  TextExact(body, f, failure'.context)
  BY <1>3, <1>5, <1>6, <1>7, FieldExact
<1>8. \A f \in failure'.context : PeerValue(f.name)' = body
  BY <1>2, <1>5 DEF PeerValue, body
<1>9. WellFormed(<< >>) /\ Len(<< >>) <= maxDiagnosticBytes /\ DOMAIN << >> = {}
  BY DiagnosticsAssumption DEF WellFormed
<1>10. \A i \in DOMAIN safeMediaType(h) : safeMediaType(h)[i] \in 1 .. maxMediaTypeComponentBytes
  <2>1. h.main \in Int /\ h.sub \in Int /\ maxMediaTypeComponentBytes \in Nat
    BY DiagnosticsAssumption DEF Headers
  <2>2. CASE safeMediaType(h) = << >>
    BY <2>2
  <2>3. CASE safeMediaType(h) # << >>
    <3>1. /\ safeMediaType(h) = <<h.main, h.sub>>
          /\ mediaTypeComponent(h.main) /\ mediaTypeComponent(h.sub)
      BY <2>3 DEF safeMediaType
    <3> QED
      BY <2>1, <3>1 DEF mediaTypeComponent
  <2> QED
    BY <2>2, <2>3
<1>11. c.readable => \E f \in failure'.context : f.part = "text"
  <2>1. c.readable => [name |-> "body", part |-> "text", value |-> c.text] \in failure'.context
    BY <1>4 DEF capturedFields
  <2> QED
    BY <2>1
<1> QED
  BY <1>2, <1>3, <1>4, <1>7, <1>8, <1>9, <1>10, <1>11
     DEF DiagnosticsExact, TextExact, Fits, Reaches, body

\* DecodeError on a garlic error of an unknown kind.
LEMMA UnknownKindExact ==
  ASSUME response \in Unregistered, DecodeUnknownKind
  PROVE  DiagnosticsExact'
<1> DEFINE r == response
           code == capturePeerString(r.code)
           member(name, raw) ==
             IF IsPeerString(raw) THEN capturedFields(name, capturePeerString(raw)) ELSE {}
           raw(name) == CASE name = "received_kind" -> r.code
                          [] name = "received_name" -> r.name
                          [] name = "received_message" -> r.message
           Names == {"received_kind", "received_name", "received_message"}
<1>1. /\ r' = r /\ r.is = "unregistered" /\ IsPeerString(r.code)
      /\ \A name \in Names : IsPeerString(raw(name)) => Unescaped(raw(name)) \in Seq(Bytes)
  <2>1. r.code \in BoundedSeq({"a", "e", "2", "c", "x"}, MaxRaw) /\ r.code # << >>
    BY DEF Unregistered
  <2>2. \A i \in DOMAIN r.code : r.code[i] \in {"a", "e", "2", "c", "x"}
    BY <2>1 DEF BoundedSeq, SeqOf
  <2>3. r.code # Absent
    BY <2>2 DEF Absent
  <2> QED
    BY <2>1, <2>3, PeerBytes DEF DecodeUnknownKind, IsPeerString
<1>2. failure' = [is |-> "unknown_kind", message |-> renderReceived(code), details |-> NoMetadata,
                  context |-> unknownKindFields(r, code)]
  BY DEF DecodeUnknownKind
<1>3. /\ failure'.message = renderReceived(code)
      /\ failure'.details.content_type = << >>
      /\ failure'.context = unknownKindFields(r, code)
  BY <1>2 DEF NoMetadata
<1>4. unknownKindFields(r, code) = UNION {member(name, raw(name)) : name \in Names}
  BY <1>1 DEF unknownKindFields
<1>5. \A name, x : \A f \in member(name, x) : f.name = name
  BY DEF capturedFields
<1>6. ASSUME NEW name \in Names, IsPeerString(raw(name))
      PROVE  CapturedExactly(Unescaped(raw(name)), capturePeerString(raw(name)))
  BY <1>1, <1>6, PeerStringExact
<1>7. \A f \in failure'.context : f.name \in Names /\ f \in member(f.name, raw(f.name))
  BY <1>3, <1>4, <1>5
<1>8. \A name \in Names : \A g :
        g \in failure'.context /\ g.name = name <=> g \in member(name, raw(name))
  BY <1>3, <1>4, <1>5, <1>7
<1>9. \A f \in failure'.context : PeerValue(f.name)' = Unescaped(raw(f.name))
  BY <1>1, <1>7 DEF PeerValue
<1> HIDE DEF raw, code
<1>10. ASSUME NEW f \in failure'.context, f.part = "text"
       PROVE  TextExact(PeerValue(f.name)', f, failure'.context)
  <2> DEFINE name == f.name
  <2>1. name \in Names /\ IsPeerString(raw(name))
    BY <1>7
  <2>2. \A g : g \in failure'.context /\ g.name = name
               <=> g \in capturedFields(name, capturePeerString(raw(name)))
    BY <1>8, <2>1
  <2> QED
    BY <1>6, <1>9, <1>10, <2>1, <2>2, FieldExact
<1>11. /\ WellFormed(failure'.message) /\ Len(failure'.message) <= maxDiagnosticBytes
       /\ \A i \in DOMAIN failure'.message : failure'.message[i] # "q"
  <2>1. code.readable => code.text \in Seq(Bytes)
    BY <1>1, PeerStringExact DEF code, raw
  <2> QED
    BY <1>3, <2>1, MessageSafe
<1>12. DOMAIN failure'.details.content_type = {}
  BY <1>3
<1> QED
  BY <1>1, <1>10, <1>11, <1>12 DEF DiagnosticsExact, TextExact, Fits, Reaches

\* A response is decoded at most once, and the failure made of it is exact.
LEMMA DiagStep ==
  /\ Init => (response \in Unregistered \cup Foreign \cup {None}) /\ DiagnosticsExact
  /\ (response \in Unregistered \cup Foreign \cup {None}) /\ DiagnosticsExact /\ [Next]_algorithmVars
       => (response \in Unregistered \cup Foreign \cup {None})' /\ DiagnosticsExact'
<1> DEFINE Peers == Unregistered \cup Foreign \cup {None}
<1>1. Init => response \in Peers /\ DiagnosticsExact
  BY DEF Init, DiagInit, DiagIdle, DiagnosticsExact
<1>2. ASSUME response \in Peers, DiagnosticsExact, [Next]_algorithmVars
      PROVE  response' \in Peers /\ DiagnosticsExact'
  <2>1. CASE DecodeForeignBody
    <3>1. response.is = "foreign" /\ response' = response
      BY <2>1 DEF DecodeForeignBody
    <3>2. response \in Foreign
      BY <1>2, <3>1 DEF Unregistered, None
    <3> QED
      BY <2>1, <3>1, <3>2, ForeignExact
  <2>2. CASE DecodeUnknownKind
    <3>1. response.is = "unregistered" /\ response' = response
      BY <2>2 DEF DecodeUnknownKind
    <3>2. response \in Unregistered
      BY <1>2, <3>1 DEF Foreign, None
    <3> QED
      BY <2>2, <3>1, <3>2, UnknownKindExact
  <2>3. CASE UNCHANGED diagVars
    <3>1. UNCHANGED <<response, failure>>
      BY <2>3 DEF diagVars
    <3>2. \A name : PeerValue(name)' = PeerValue(name)
      BY <3>1 DEF PeerValue
    <3> QED
      BY <1>2, <3>1, <3>2 DEF DiagnosticsExact
  <2> QED
    BY <1>2, <2>1, <2>2, <2>3 DEF Next, DiagNext, algorithmVars
<1> QED
  BY <1>1, <1>2

\* DiagnosticsExact for bodies and strings of any length and any limits: the
\* text kept of a peer's bytes is the longest run of whole runes within the
\* limit, the message is escaped, and the details that cross the wire again hold
\* no text but a short media type (response.go boundedPrefix, captureDiagnostic,
\* renderReceived, safeMediaType).
THEOREM DiagnosticsAreExact == Spec => []DiagnosticsExact
BY DiagStep, PTL DEF Spec

=============================================================================
