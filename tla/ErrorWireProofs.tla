--------------------------- MODULE ErrorWireProofs ---------------------------
(***************************************************************************)
(* What ErrorWire's runs check on three services, for every chain of        *)
(* services and every finite hierarchy of kinds (KindAssumption): the        *)
(* relayed status, the class of a relayed system failure, and that no text  *)
(* written for a service's log is sent. WireInv is the inductive invariant; *)
(* KindFacts is what walking up the hierarchy returns.                      *)
(***************************************************************************)
EXTENDS ErrorWire, FiniteSetTheorems, WellFoundedInduction, TLAPS

\* The framework's kinds are registered whatever the constants are.
LEMMA FrameworkCodes ==
  /\ {KindError, KindUserError, KindSystemError, KindResponseDecodeError,
      KindUnknownResponseError} \subseteq Codes
  /\ \A s \in Standard : <<"S", s>> \in Codes
  BY DEF Codes, Primitive, Secondary, Tertiary

\* A set that holds zero and with a number the next one holds every number.
LEMMA NatInductionOnSets ==
  ASSUME NEW T, 0 \in T, \A n \in Nat : n \in T => n + 1 \in T
  PROVE  Nat \subseteq T
  <1> SUFFICES ASSUME Nat \ T # {} PROVE FALSE
    OBVIOUS
  <1> DEFINE R == OpToRel(<, Nat)
  <1>1. IsWellFoundedOn(R, Nat)
    BY NatLessThanWellFounded
  <1>2. \A y, x \in Nat : y < x => <<y, x>> \in R
    BY DEF OpToRel
  <1> HIDE DEF R
  <1>3. PICK x \in Nat \ T : \A y \in Nat \ T : ~(<<y, x>> \in R)
    BY <1>1, WFMin
  <1>4. x - 1 \in Nat /\ x - 1 < x /\ x = (x - 1) + 1
    BY <1>3
  <1>5. QED BY <1>2, <1>3, <1>4

\* A way up from every element of S, on which ranks fall until it is done.
Climbs(S, done, up) ==
  /\ done \in [S -> BOOLEAN] /\ up \in [S -> S]
  /\ \E top \in Nat : \E rank \in [S -> 0 .. top] :
       \A c \in S : ~done[c] => rank[up[c]] < rank[c]

\* f answers at the end of the way, and passes that answer down.
Walks(f, S, done, value, up) == \A c \in S : f[c] = IF done[c] THEN value[c] ELSE f[up[c]]

\* Such a function exists, and is well typed.
LEMMA WalkUp ==
  ASSUME NEW S, NEW V, NEW done, NEW value, NEW up,
         Climbs(S, done, up), value \in [S -> V]
  PROVE  /\ \E f \in [S -> V] : Walks(f, S, done, value, up)
         /\ \A f : Walks(f, S, done, value, up) => \A c \in S : f[c] \in V
  <1>1. /\ done \in [S -> BOOLEAN] /\ up \in [S -> S] /\ value \in [S -> V]
        /\ \E top \in Nat : \E rank \in [S -> 0 .. top] :
             \A c \in S : ~done[c] => rank[up[c]] < rank[c]
    BY DEF Climbs
  <1>2. PICK top \in Nat : \E rank \in [S -> 0 .. top] : \A c \in S : ~done[c] => rank[up[c]] < rank[c]
    BY <1>1
  <1>3. PICK rank \in [S -> 0 .. top] : \A c \in S : ~done[c] => rank[up[c]] < rank[c]
    BY <1>2
  <1> DEFINE Below(n) == {c \in S : rank[c] < n}
             Eq(f, D) == \A c \in D : f[c] = IF done[c] THEN value[c] ELSE f[up[c]]
             T == {n \in Nat : \E f \in [Below(n) -> V] : Eq(f, Below(n))}
  <1>4. 0 \in T
    <2>1. Below(0) = {}
      OBVIOUS
    <2>2. [c \in Below(0) |-> value[c]] \in [Below(0) -> V] /\ Eq([c \in Below(0) |-> value[c]], Below(0))
      BY <2>1
    <2>3. QED BY <2>2
  <1>5. ASSUME NEW n \in Nat, n \in T PROVE n + 1 \in T
    <2>1. PICK f \in [Below(n) -> V] : Eq(f, Below(n))
      BY <1>5
    <2>2. \A c \in Below(n + 1) : ~done[c] => up[c] \in Below(n)
      BY <1>1, <1>3
    <2>3. \A c \in Below(n) : c \in Below(n + 1) /\ c \in S
      OBVIOUS
    <2> DEFINE g == [c \in Below(n + 1) |-> IF done[c] THEN value[c] ELSE f[up[c]]]
    <2>4. \A c \in Below(n) : g[c] = f[c]
      BY <2>1, <2>3
    <2>5. g \in [Below(n + 1) -> V]
      BY <1>1, <2>1, <2>2
    <2>6. \A c \in Below(n + 1) : g[c] = IF done[c] THEN value[c] ELSE f[up[c]]
      OBVIOUS
    <2> HIDE DEF g, Below
    <2>7. Eq(g, Below(n + 1))
      BY <2>2, <2>4, <2>6
    <2>8. QED BY <2>5, <2>7
  <1> HIDE DEF T
  <1>6. Nat \subseteq T
    BY <1>4, <1>5, NatInductionOnSets
  <1>7. top + 1 \in T /\ Below(top + 1) = S
    BY <1>6
  <1>8. \E f \in [S -> V] : Eq(f, S)
    <2> HIDE DEF Eq, Below
    <2>1. QED BY <1>7 DEF T
  <1>9. ASSUME NEW f, Eq(f, S), NEW c \in S PROVE f[c] \in V
    <2> DEFINE U == {n \in Nat : \A d \in Below(n) : f[d] \in V}
    <2>1. 0 \in U
      OBVIOUS
    <2>2. ASSUME NEW n \in Nat, n \in U PROVE n + 1 \in U
      <3> SUFFICES ASSUME NEW d \in Below(n + 1) PROVE f[d] \in V
        OBVIOUS
      <3>1. d \in S /\ (~done[d] => up[d] \in Below(n))
        BY <1>1, <1>3
      <3>2. f[d] = IF done[d] THEN value[d] ELSE f[up[d]]
        BY <1>9, <3>1
      <3>3. ~done[d] => f[up[d]] \in V
        BY <2>2, <3>1
      <3>4. QED BY <1>1, <3>1, <3>2, <3>3
    <2> HIDE DEF U
    <2>3. top + 1 \in U
      BY <2>1, <2>2, NatInductionOnSets
    <2>4. QED BY <1>7, <1>9, <2>3 DEF U
  <1>10. QED BY <1>8, <1>9 DEF Walks

\* A function that collects what lies on the way exists too.
LEMMA GatherUp ==
  ASSUME NEW S, NEW done, NEW up, Climbs(S, done, up)
  PROVE  \E f : /\ f = [c \in S |-> f[c]]
                /\ \A c \in S : f[c] = {c} \cup (IF done[c] THEN {} ELSE f[up[c]])
  <1>0. /\ done \in [S -> BOOLEAN] /\ up \in [S -> S]
        /\ \E top \in Nat : \E rank \in [S -> 0 .. top] :
             \A c \in S : ~done[c] => rank[up[c]] < rank[c]
    BY DEF Climbs
  <1>1. PICK top \in Nat : \E rank \in [S -> 0 .. top] : \A c \in S : ~done[c] => rank[up[c]] < rank[c]
    BY <1>0
  <1>2. PICK rank \in [S -> 0 .. top] : \A c \in S : ~done[c] => rank[up[c]] < rank[c]
    BY <1>1
  <1> DEFINE Below(n) == {c \in S : rank[c] < n}
             Eq(f, D) == /\ f = [c \in D |-> f[c]]
                         /\ \A c \in D : f[c] = {c} \cup (IF done[c] THEN {} ELSE f[up[c]])
             T == {n \in Nat : \E f : Eq(f, Below(n))}
  <1>3. 0 \in T
    <2>1. Below(0) = {}
      OBVIOUS
    <2>2. Eq([c \in Below(0) |-> {}], Below(0))
      BY <2>1
    <2>3. QED BY <2>2
  <1>4. ASSUME NEW n \in Nat, n \in T PROVE n + 1 \in T
    <2>1. PICK f : Eq(f, Below(n))
      BY <1>4
    <2>2. \A c \in Below(n + 1) : ~done[c] => up[c] \in Below(n)
      BY <1>0, <1>2
    <2>3. \A c \in Below(n) : c \in Below(n + 1) /\ c \in S
      OBVIOUS
    <2> DEFINE g == [c \in Below(n + 1) |-> {c} \cup (IF done[c] THEN {} ELSE f[up[c]])]
    <2>4. \A c \in Below(n) : g[c] = f[c]
      BY <2>1, <2>3
    <2>5. g = [c \in Below(n + 1) |-> g[c]]
      OBVIOUS
    <2>6. \A c \in Below(n + 1) : g[c] = {c} \cup (IF done[c] THEN {} ELSE f[up[c]])
      OBVIOUS
    <2> HIDE DEF g, Below
    <2>7. Eq(g, Below(n + 1))
      BY <2>2, <2>4, <2>5, <2>6
    <2>8. QED BY <2>7
  <1> HIDE DEF T
  <1>5. Nat \subseteq T
    BY <1>3, <1>4, NatInductionOnSets
  <1>6. top + 1 \in T /\ Below(top + 1) = S
    BY <1>5
  <1>7. \E f : Eq(f, S)
    <2> HIDE DEF Eq, Below
    <2>1. QED BY <1>6 DEF T
  <1>8. QED BY <1>7

\* A kind's place in the hierarchy: the roots, the statuses, the framework's
\* kinds below them, the application's in the order they were made.
FrameworkRank(c) ==
  CASE c = KindError -> 0
    [] c \in {KindUserError, KindSystemError} -> 1
    [] c \in DOMAIN Secondary -> 2
    [] c = <<"C", 7>> -> 4
    [] OTHER -> 3

Framework == DOMAIN Primitive \cup DOMAIN Secondary \cup DOMAIN Tertiary

\* What is registered of a framework kind.
LEMMA FrameworkKinds ==
  /\ Registered(KindError) = [status |-> NotDefined, parent |-> NoKind]
  /\ Registered(KindUserError) = [status |-> 400, parent |-> KindError]
  /\ Registered(KindSystemError) = [status |-> 500, parent |-> KindError]
  /\ \A s \in Standard : Registered(<<"S", s>>) = [status |-> s, parent |-> classForStatus(s)]
  /\ \A c \in DOMAIN Tertiary : Registered(c) = Tertiary[c]
  /\ \A c \in Codes \ Framework : Registered(c) = AppKinds[c] /\ c \in DOMAIN AppKinds
  <1>1. DOMAIN Primitive = {<<"P", 0>>, <<"P", 1>>, <<"P", 2>>}
    BY DEF Primitive, KindError, KindUserError, KindSystemError
  <1>2. DOMAIN Secondary = {<<"S", s>> : s \in Standard}
    BY DEF Secondary
  <1>3. \A c \in DOMAIN Tertiary : c[1] = "C"
    BY DEF Tertiary, ChildOf, KindResponseDecodeError, KindUnknownResponseError
  <1>4. Registered(KindError) = Primitive[KindError] /\ Registered(KindUserError) = Primitive[KindUserError]
        /\ Registered(KindSystemError) = Primitive[KindSystemError]
    BY <1>1, <1>2, <1>3 DEF Registered, KindError, KindUserError, KindSystemError
  <1>5. /\ Primitive[KindError] = [status |-> NotDefined, parent |-> NoKind]
        /\ Primitive[KindUserError] = [status |-> 400, parent |-> KindError]
        /\ Primitive[KindSystemError] = [status |-> 500, parent |-> KindError]
    BY DEF Primitive, KindError, KindUserError, KindSystemError
  <1>6. ASSUME NEW s \in Standard
        PROVE  Registered(<<"S", s>>) = [status |-> s, parent |-> classForStatus(s)]
    <2>1. <<"S", s>> \in DOMAIN Secondary /\ <<"S", s>> \notin DOMAIN Primitive
      BY <1>1, <1>2
    <2>2. <<"S", s>> \notin DOMAIN Tertiary
      BY <1>3
    <2>3. Registered(<<"S", s>>) = Secondary[<<"S", s>>]
      BY <2>1, <2>2 DEF Registered
    <2>4. QED BY <2>1, <2>3 DEF Secondary
  <1>7. ASSUME NEW c \in DOMAIN Tertiary PROVE Registered(c) = Tertiary[c]
    <2>1. c \notin DOMAIN Primitive /\ c \notin DOMAIN Secondary
      BY <1>1, <1>2, <1>3
    <2>2. QED BY <2>1 DEF Registered
  <1>8. \A c \in Codes \ Framework : Registered(c) = AppKinds[c] /\ c \in DOMAIN AppKinds
    BY DEF Codes, Framework, Registered
  <1>9. QED BY <1>4, <1>5, <1>6, <1>7, <1>8

\* The registered hierarchy has no cycle, and knows every parent and status.
LEMMA HierarchyRanked ==
  /\ NoKind \notin Codes
  /\ \A c \in Codes : /\ Registered(c).status \in Statuses \cup {NotDefined}
                      /\ Registered(c).parent \in Codes \cup {NoKind}
  /\ \E top \in Nat : \E rank \in [Codes -> 0 .. top] : \A c \in Codes :
       Registered(c).parent # NoKind => rank[Registered(c).parent] < rank[c]
  <1> DEFINE n == Cardinality(DOMAIN AppKinds)
  <1>1. n \in Nat
    BY KindAssumption, FS_CardinalityType
  <1> HIDE DEF n
  <1>2. PICK order \in [DOMAIN AppKinds -> 1 .. n] :
          \A c \in DOMAIN AppKinds :
            AppKinds[c].parent \in DOMAIN AppKinds => order[AppKinds[c].parent] < order[c]
    BY KindAssumption DEF n
  <1> DEFINE rank == [c \in Codes |-> IF c \in Framework THEN FrameworkRank(c) ELSE 4 + order[c]]
  <1>3. \A c : FrameworkRank(c) \in 0 .. 4
    BY DEF FrameworkRank
  <1>4. rank \in [Codes -> 0 .. 4 + n]
    BY <1>1, <1>2, <1>3, FrameworkKinds
  <1>5. Framework = {KindError, KindUserError, KindSystemError} \cup {<<"S", s>> : s \in Standard}
                      \cup DOMAIN Tertiary
    BY DEF Framework, Primitive, Secondary
  <1>6. \A c \in DOMAIN Tertiary : /\ c[1] = "C" /\ Tertiary[c].status = NotDefined
                                   /\ \/ \E s \in Standard : Tertiary[c].parent = <<"S", s>>
                                      \/ c = <<"C", 7>> /\ Tertiary[c].parent = <<"C", 6>>
                                      \/ Tertiary[c].parent = KindSystemError
    <2> TAKE c \in DOMAIN Tertiary
    <2>1. CASE c \in DOMAIN ChildOf
      <3>1. ChildOf[c] \in Standard /\ Tertiary[c] = [status |-> NotDefined, parent |-> <<"S", ChildOf[c]>>]
        BY <2>1 DEF Tertiary, ChildOf, KindResponseDecodeError, KindUnknownResponseError
      <3>2. c[1] = "C"
        BY <2>1 DEF ChildOf
      <3>3. QED BY <3>1, <3>2
    <2>2. CASE c \notin DOMAIN ChildOf
      <3>1. c \in {<<"C", 6>>, <<"C", 7>>, KindResponseDecodeError, KindUnknownResponseError}
        BY <2>2 DEF Tertiary
      <3>2. Tertiary[c] = [status |-> NotDefined,
                           parent |-> IF c = <<"C", 7>> THEN <<"C", 6>> ELSE KindSystemError]
        BY <2>2 DEF Tertiary
      <3>3. QED BY <3>1, <3>2 DEF KindResponseDecodeError, KindUnknownResponseError
    <2>3. QED BY <2>1, <2>2
  <1>7. /\ <<"C", 6>> \in DOMAIN Tertiary
        /\ KindError \in Codes /\ KindUserError \in Codes /\ KindSystemError \in Codes
        /\ \A s \in Standard : <<"S", s>> \in Codes
        /\ Framework \subseteq Codes
    BY FrameworkCodes DEF Tertiary, Framework, Codes
  <1>8. /\ FrameworkRank(KindError) = 0
        /\ FrameworkRank(KindUserError) = 1 /\ FrameworkRank(KindSystemError) = 1
        /\ \A s \in Standard : FrameworkRank(<<"S", s>>) = 2
        /\ \A c \in DOMAIN Tertiary : FrameworkRank(c) = IF c = <<"C", 7>> THEN 4 ELSE 3
    <2>1. DOMAIN Secondary = {<<"S", s>> : s \in Standard}
      BY DEF Secondary
    <2>2. /\ FrameworkRank(KindError) = 0
          /\ FrameworkRank(KindUserError) = 1 /\ FrameworkRank(KindSystemError) = 1
      BY <2>1 DEF FrameworkRank, KindError, KindUserError, KindSystemError
    <2>3. \A s \in Standard : FrameworkRank(<<"S", s>>) = 2
      BY <2>1 DEF FrameworkRank, KindError, KindUserError, KindSystemError
    <2>4. \A c \in DOMAIN Tertiary : FrameworkRank(c) = IF c = <<"C", 7>> THEN 4 ELSE 3
      BY <1>6, <2>1 DEF FrameworkRank, KindError, KindUserError, KindSystemError
    <2>5. QED BY <2>2, <2>3, <2>4
  <1>9. NoKind \notin Codes
    <2>1. NoKind \notin Framework
      BY <1>5, <1>6 DEF NoKind, KindError, KindUserError, KindSystemError
    <2>2. QED BY <2>1, KindAssumption DEF Codes, Framework
  <1>10. \A s : classForStatus(s) \in {KindUserError, KindSystemError}
    BY DEF classForStatus
  <1> DEFINE Placed(c) == /\ Registered(c).status \in Statuses \cup {NotDefined}
                          /\ Registered(c).parent \in Codes \cup {NoKind}
                          /\ Registered(c).parent # NoKind => rank[Registered(c).parent] < rank[c]
  <1>11. \A c \in Framework : rank[c] = FrameworkRank(c)
    BY <1>7
  <1>12. Placed(KindError) /\ Placed(KindUserError) /\ Placed(KindSystemError)
    <2>1. KindError \in Framework /\ KindUserError \in Framework /\ KindSystemError \in Framework
      BY <1>5
    <2> HIDE DEF rank
    <2>2. QED BY <1>7, <1>8, <1>11, <2>1, FrameworkKinds, KindAssumption
  <1>13. ASSUME NEW s \in Standard PROVE Placed(<<"S", s>>)
    <2>1. <<"S", s>> \in Framework /\ KindUserError \in Framework /\ KindSystemError \in Framework
      BY <1>5
    <2>2. s \in Statuses
      BY DEF Statuses
    <2> HIDE DEF rank
    <2>3. /\ Registered(<<"S", s>>).status = s
          /\ Registered(<<"S", s>>).parent \in {KindUserError, KindSystemError}
      <3>1. Registered(<<"S", s>>) = [status |-> s, parent |-> classForStatus(s)]
        BY FrameworkKinds
      <3>2. QED BY <1>10, <3>1
    <2>4. QED BY <1>7, <1>8, <1>11, <2>1, <2>2, <2>3
  <1>14. ASSUME NEW c \in DOMAIN Tertiary PROVE Placed(c)
    <2>1. /\ c \in Framework /\ KindSystemError \in Framework /\ <<"C", 6>> \in Framework
          /\ \A s \in Standard : <<"S", s>> \in Framework
      BY <1>5, <1>7
    <2>2. Registered(c) = Tertiary[c] /\ <<"C", 6>> # <<"C", 7>>
      BY FrameworkKinds
    <2> HIDE DEF rank
    <2>3. QED BY <1>6, <1>7, <1>8, <1>11, <2>1, <2>2
  <1>15. ASSUME NEW c \in Codes \ Framework PROVE Placed(c)
    <2> DEFINE p == AppKinds[c].parent
    <2>1. Registered(c) = AppKinds[c] /\ c \in DOMAIN AppKinds
      BY FrameworkKinds
    <2>2. AppKinds[c].status \in Statuses \cup {NotDefined} /\ p \in Codes \cup {NoKind}
      BY <2>1, KindAssumption
    <2>3. rank[c] = 4 + order[c] /\ order[c] \in 1 .. n
      BY <1>2, <2>1
    <2>4. ASSUME p # NoKind PROVE rank[p] < rank[c]
      <3>1. CASE p \in Framework
        <4>1. rank[p] \in 0 .. 4
          BY <1>3, <1>11, <3>1
        <4> HIDE DEF rank
        <4>2. QED BY <1>1, <2>3, <4>1
      <3>2. CASE p \notin Framework
        <4>1. p \in Codes \ Framework
          BY <2>2, <2>4, <3>2
        <4>2. p \in DOMAIN AppKinds
          BY <4>1, FrameworkKinds
        <4>3. rank[p] = 4 + order[p] /\ order[p] \in 1 .. n /\ order[p] < order[c]
          BY <1>2, <2>1, <4>1, <4>2
        <4> HIDE DEF rank
        <4>4. QED BY <1>1, <2>3, <4>3
      <3>3. QED BY <3>1, <3>2
    <2> HIDE DEF rank
    <2>5. QED BY <2>1, <2>2, <2>4
  <1> HIDE DEF Placed
  <1>16. \A c \in Codes : Placed(c)
    BY <1>5, <1>12, <1>13, <1>14, <1>15
  <1> HIDE DEF rank
  <1>17. 4 + n \in Nat
    BY <1>1
  <1>18. QED BY <1>4, <1>9, <1>16, <1>17 DEF Placed

\* StatusCode is what its definition says, and always a status.
LEMMA StatusCodeWalk ==
  \A c \in Codes :
    /\ StatusCode[c] = LET k == Registered(c)
                       IN  IF k.status # NotDefined THEN k.status
                           ELSE IF k.parent = NoKind THEN 500 ELSE StatusCode[k.parent]
    /\ StatusCode[c] \in Statuses
  <1> DEFINE k(c) == Registered(c)
             ends(c) == k(c).status # NotDefined \/ k(c).parent = NoKind
             done == [c \in Codes |-> ends(c)]
             value == [c \in Codes |-> IF k(c).status # NotDefined THEN k(c).status ELSE 500]
             up == [c \in Codes |-> IF ends(c) THEN c ELSE k(c).parent]
             Body(f, c) == IF k(c).status # NotDefined THEN k(c).status
                           ELSE IF k(c).parent = NoKind THEN 500 ELSE f[k(c).parent]
  <1>1. PICK top \in Nat : \E rank \in [Codes -> 0 .. top] : \A c \in Codes :
          k(c).parent # NoKind => rank[k(c).parent] < rank[c]
    BY HierarchyRanked
  <1>2. PICK rank \in [Codes -> 0 .. top] : \A c \in Codes :
          k(c).parent # NoKind => rank[k(c).parent] < rank[c]
    BY <1>1
  <1>3. \A c \in Codes : k(c).status \in Statuses \cup {NotDefined} /\ k(c).parent \in Codes \cup {NoKind}
    BY HierarchyRanked
  <1>4. 500 \in Statuses
    BY KindAssumption
  <1> HIDE DEF k
  <1>5. /\ done \in [Codes -> BOOLEAN] /\ value \in [Codes -> Statuses]
        /\ up \in [Codes -> Codes]
    BY <1>3, <1>4
  <1>6. Climbs(Codes, done, up)
    <2>1. \A c \in Codes : ~done[c] => rank[up[c]] < rank[c]
      BY <1>2
    <2> HIDE DEF done, up
    <2>2. QED BY <1>5, <2>1 DEF Climbs
  <1> HIDE DEF done, value, up
  <1>7. /\ \E f \in [Codes -> Statuses] : Walks(f, Codes, done, value, up)
        /\ \A f : Walks(f, Codes, done, value, up) => \A c \in Codes : f[c] \in Statuses
    BY <1>5, <1>6, WalkUp
  <1>8. ASSUME NEW f, NEW c \in Codes
        PROVE  (IF done[c] THEN value[c] ELSE f[up[c]]) = Body(f, c)
    <2> USE DEF done, value, up
    <2>1. CASE k(c).status # NotDefined
      BY <2>1
    <2>2. CASE k(c).status = NotDefined /\ k(c).parent = NoKind
      BY <2>2
    <2>3. CASE k(c).status = NotDefined /\ k(c).parent # NoKind
      BY <2>3
    <2>4. QED BY <2>1, <2>2, <2>3
  <1> HIDE DEF Body
  <1>9. PICK f \in [Codes -> Statuses] : f = [c \in Codes |-> Body(f, c)]
    BY <1>7, <1>8 DEF Walks
  <1>10. StatusCode = [c \in Codes |-> Body(StatusCode, c)]
    BY <1>9 DEF StatusCode, k, Body
  <1>11. Walks(StatusCode, Codes, done, value, up)
    BY <1>8, <1>10 DEF Walks
  <1>12. QED BY <1>7, <1>10, <1>11 DEF k, Body

\* Ancestry is what its definition says.
LEMMA AncestryWalk ==
  \A c \in Codes : Ancestry[c] = LET k == Registered(c)
                                IN  {c} \cup IF k.parent = NoKind THEN {} ELSE Ancestry[k.parent]
  <1> DEFINE k(c) == Registered(c)
             done == [c \in Codes |-> k(c).parent = NoKind]
             up == [c \in Codes |-> IF k(c).parent = NoKind THEN c ELSE k(c).parent]
             Body(f, c) == {c} \cup IF k(c).parent = NoKind THEN {} ELSE f[k(c).parent]
  <1>1. PICK top \in Nat : \E rank \in [Codes -> 0 .. top] : \A c \in Codes :
          k(c).parent # NoKind => rank[k(c).parent] < rank[c]
    BY HierarchyRanked
  <1>2. PICK rank \in [Codes -> 0 .. top] : \A c \in Codes :
          k(c).parent # NoKind => rank[k(c).parent] < rank[c]
    BY <1>1
  <1>3. \A c \in Codes : k(c).parent \in Codes \cup {NoKind}
    BY HierarchyRanked
  <1> HIDE DEF k
  <1>4. Climbs(Codes, done, up)
    <2>1. done \in [Codes -> BOOLEAN] /\ up \in [Codes -> Codes]
      BY <1>3
    <2>2. \A c \in Codes : ~done[c] => rank[up[c]] < rank[c]
      BY <1>2
    <2> HIDE DEF done, up
    <2>3. QED BY <2>1, <2>2 DEF Climbs
  <1>5. ASSUME NEW f, NEW c \in Codes
        PROVE  {c} \cup (IF done[c] THEN {} ELSE f[up[c]]) = Body(f, c)
    <2>1. CASE k(c).parent = NoKind
      BY <2>1
    <2>2. CASE k(c).parent # NoKind
      BY <2>2
    <2>3. QED BY <2>1, <2>2
  <1> HIDE DEF done, up, Body
  <1>6. PICK f : /\ f = [c \in Codes |-> f[c]]
                 /\ \A c \in Codes : f[c] = {c} \cup (IF done[c] THEN {} ELSE f[up[c]])
    BY <1>4, GatherUp
  <1>7. f = [c \in Codes |-> Body(f, c)]
    BY <1>5, <1>6
  <1>8. Ancestry = [c \in Codes |-> Body(Ancestry, c)]
    BY <1>7 DEF Ancestry, k, Body
  <1>9. QED BY <1>8 DEF k, Body

\* What walking up the registered kinds returns: a status, the kind's own where
\* it has one, and a class that is the parent's.
LEMMA KindFacts ==
  /\ Statuses \subseteq Nat \ {0}
  /\ NoKind \notin Codes
  /\ \A c \in Codes : StatusCode[c] \in Statuses
  /\ \A s \in Standard : StatusCode[<<"S", s>>] = s
  /\ StatusCode[KindError] = 500 /\ StatusCode[KindSystemError] = 500
  /\ KindUserError \in UserCodes
  /\ \A c \in {KindError, KindSystemError, KindResponseDecodeError, KindUnknownResponseError} :
       c \notin UserCodes
  /\ \A s \in Standard : <<"S", s>> \in UserCodes <=> classForStatus(s) = KindUserError
  <1>1. Statuses \subseteq Nat \ {0} /\ NoKind \notin Codes /\ \A c \in Codes : StatusCode[c] \in Statuses
    BY KindAssumption, HierarchyRanked, StatusCodeWalk
  <1>2. /\ Registered(KindError) = [status |-> NotDefined, parent |-> NoKind]
        /\ Registered(KindUserError) = [status |-> 400, parent |-> KindError]
        /\ Registered(KindSystemError) = [status |-> 500, parent |-> KindError]
        /\ \A s \in Standard : Registered(<<"S", s>>) = [status |-> s, parent |-> classForStatus(s)]
    BY FrameworkKinds
  <1>3. ASSUME NEW s \in Standard PROVE StatusCode[<<"S", s>>] = s
    <2>1. <<"S", s>> \in Codes
      BY FrameworkCodes
    <2>2. Registered(<<"S", s>>) = [status |-> s, parent |-> classForStatus(s)]
      BY <1>2
    <2>3. Registered(<<"S", s>>).status = s
      BY <2>2
    <2>4. s # NotDefined
      BY <1>1 DEF Statuses, NotDefined
    <2>5. QED BY <2>1, <2>3, <2>4, StatusCodeWalk
  <1>4. StatusCode[KindError] = 500 /\ StatusCode[KindSystemError] = 500
    BY <1>2, FrameworkCodes, StatusCodeWalk DEF NotDefined
  <1>5. /\ KindError # NoKind /\ KindUserError # NoKind /\ KindSystemError # NoKind
        /\ KindError # KindUserError /\ KindSystemError # KindUserError
        /\ KindResponseDecodeError # KindUserError /\ KindUnknownResponseError # KindUserError
        /\ \A s : <<"S", s>> # KindUserError
    BY DEF NoKind, KindError, KindUserError, KindSystemError, KindResponseDecodeError, KindUnknownResponseError
  <1>6. /\ Ancestry[KindError] = {KindError}
        /\ Ancestry[KindUserError] = {KindUserError, KindError}
        /\ Ancestry[KindSystemError] = {KindSystemError, KindError}
    <2>1. Ancestry[KindError] = {KindError}
      BY <1>2, FrameworkCodes, AncestryWalk
    <2>2. Ancestry[KindUserError] = {KindUserError} \cup Ancestry[KindError]
      BY <1>2, <1>5, FrameworkCodes, AncestryWalk
    <2>3. Ancestry[KindSystemError] = {KindSystemError} \cup Ancestry[KindError]
      BY <1>2, <1>5, FrameworkCodes, AncestryWalk
    <2>4. QED BY <2>1, <2>2, <2>3
  <1>7. \A c \in {KindResponseDecodeError, KindUnknownResponseError} :
          Ancestry[c] = {c} \cup Ancestry[KindSystemError]
    <2>1. \A c \in {KindResponseDecodeError, KindUnknownResponseError} :
            c \in DOMAIN Tertiary /\ Tertiary[c].parent = KindSystemError
      BY DEF Tertiary, ChildOf, KindResponseDecodeError, KindUnknownResponseError
    <2>2. QED BY <1>5, <2>1, FrameworkCodes, FrameworkKinds, AncestryWalk
  <1>8. ASSUME NEW s \in Standard
        PROVE  Ancestry[<<"S", s>>] = {<<"S", s>>} \cup Ancestry[classForStatus(s)]
    <2>1. <<"S", s>> \in Codes
      BY FrameworkCodes
    <2>2. Registered(<<"S", s>>) = [status |-> s, parent |-> classForStatus(s)]
      BY <1>2
    <2>3. Registered(<<"S", s>>).parent = classForStatus(s)
      BY <2>2
    <2>4. classForStatus(s) # NoKind
      BY <1>5 DEF classForStatus
    <2>5. QED BY <2>1, <2>3, <2>4, AncestryWalk
  <1>9. \A s \in Standard : <<"S", s>> \in UserCodes <=> classForStatus(s) = KindUserError
    <2> TAKE s \in Standard
    <2>1. classForStatus(s) \in {KindUserError, KindSystemError}
      BY DEF classForStatus
    <2>2. KindUserError \in Ancestry[<<"S", s>>] <=> classForStatus(s) = KindUserError
      BY <1>5, <1>6, <1>8, <2>1
    <2>3. QED BY <2>2, FrameworkCodes DEF UserCodes
  <1>10. KindUserError \in UserCodes /\
         \A c \in {KindError, KindSystemError, KindResponseDecodeError, KindUnknownResponseError} :
           c \notin UserCodes
    BY <1>5, <1>6, <1>7, FrameworkCodes DEF UserCodes
  <1>11. QED BY <1>1, <1>3, <1>4, <1>9, <1>10

\* NotDefined and NoKind are no status and no code anybody uses.
LEMMA StatusNat == Statuses \subseteq Nat /\ NotDefined \notin Statuses
  BY KindFacts DEF NotDefined

\* KindForStatus: a registered kind, of the user's class exactly for 4xx.
LEMMA KindForStatusFacts ==
  ASSUME NEW s \in Statuses
  PROVE  /\ KindForStatus(s) \in Codes
         /\ KindForStatus(s) \in UserCodes <=> (s >= 400 /\ s < 500)
  <1>1. CASE s \in Standard
    BY <1>1, FrameworkCodes, KindFacts DEF KindForStatus, classForStatus, KindUserError, KindSystemError
  <1>2. CASE s \notin Standard
    BY <1>2, FrameworkCodes, KindFacts DEF KindForStatus, classForStatus
  <1>3. QED BY <1>1, <1>2

\* KindStatus of any kind is a status.
LEMMA KindStatusType ==
  ASSUME NEW k \in Kinds
  PROVE  KindStatus(k) \in Statuses
  BY KindFacts DEF Kinds, KindStatus

\* kindWithStatus keeps the code and reports exactly the status.
LEMMA KindWithStatusFacts ==
  ASSUME NEW k \in Kinds, NEW s \in Statuses
  PROVE  /\ kindWithStatus(k, s) \in Kinds
         /\ kindWithStatus(k, s).code = k.code
         /\ KindStatus(kindWithStatus(k, s)) = s
  <1>1. s # NotDefined
    BY StatusNat
  <1>2. CASE KindStatus(k) = s
    BY <1>2 DEF kindWithStatus
  <1>3. CASE KindStatus(k) # s
    <2>1. kindWithStatus(k, s) = [k EXCEPT !.pin = s]
      BY <1>1, <1>3 DEF kindWithStatus, CustomizeStatusCode
    <2>2. [k EXCEPT !.pin = s] \in Kinds /\ [k EXCEPT !.pin = s].code = k.code
          /\ [k EXCEPT !.pin = s].pin = s
      BY DEF Kinds
    <2>3. QED BY <1>1, <2>1, <2>2 DEF KindStatus
  <1>4. QED BY <1>2, <1>3

\* inheritStatusCustomization keeps the code, and the status of a pinned cause
\* unless the kind was pinned itself.
LEMMA InheritFacts ==
  ASSUME NEW k \in Kinds, NEW c \in Kinds
  PROVE  /\ inheritStatusCustomization(k, c) \in Kinds
         /\ inheritStatusCustomization(k, c).code = k.code
         /\ k.pin # NotDefined => inheritStatusCustomization(k, c) = k
         /\ c.pin = NotDefined => inheritStatusCustomization(k, c) = k
         /\ k.pin = NotDefined /\ c.pin # NotDefined =>
              KindStatus(inheritStatusCustomization(k, c)) = c.pin
  <1>1. [k EXCEPT !.pin = c.pin] \in Kinds /\ [k EXCEPT !.pin = c.pin].code = k.code
        /\ [k EXCEPT !.pin = c.pin].pin = c.pin
    BY DEF Kinds
  <1>2. CASE k.pin # NotDefined
    BY <1>2 DEF inheritStatusCustomization
  <1>3. CASE k.pin = NotDefined
    BY <1>1, <1>3 DEF inheritStatusCustomization, CustomizeStatusCode, KindStatus
  <1>4. QED BY <1>2, <1>3
-----------------------------------------------------------------------------
(* Errors                                                                    *)

\* An error with a kind: what every builder returns.
Built(e) == e \in Errors /\ e.kind \in Kinds

\* What is said of an error fits its class.
TextFits(e) == (e.text = "user" => IsUser(e)) /\ (e.text = "system" => ~IsUser(e))

\* An error with a kind has a registered code, and its status is the kind's.
LEMMA BuiltHasCode ==
  ASSUME NEW e, Built(e)
  PROVE  e.kind.code \in Codes /\ e.kind.code # NoKind /\ StatusOf(e) = KindStatus(e.kind)
         /\ StatusOf(e) \in Statuses
  BY KindFacts, KindStatusType DEF Built, Kinds, StatusOf

\* An error that is an ErrorT itself has a kind.
LEMMA NotForeignIsBuilt ==
  ASSUME NEW e \in Errors, e.kind.code = NoKind => e.foreign, ~e.foreign
  PROVE  Built(e)
  BY DEF Built, Errors

\* newErrorT returns what it was given.
LEMMA NewErrorFacts ==
  ASSUME NEW k \in Kinds, NEW t \in Texts, NEW o \in Codes \cup {NoKind}
  PROVE  /\ Built(newErrorT(k, t, o))
         /\ newErrorT(k, t, o).kind = k /\ newErrorT(k, t, o).text = t
         /\ ~newErrorT(k, t, o).foreign
  BY DEF Built, Errors, newErrorT, DetailMaps

\* The message written for a kind fits its class.
LEMMA WrittenFits ==
  ASSUME NEW k
  PROVE  /\ Written(k) \in Texts
         /\ Written(k) = "user" => k.code \in UserCodes
         /\ Written(k) = "system" => k.code \notin UserCodes
  BY DEF Written, Texts

\* The Details option changes nothing but the details.
LEMMA DetailsOptFacts ==
  ASSUME NEW e, Built(e), NEW d \in SUBSET DetailKeys
  PROVE  /\ Built(DetailsOpt(e, d))
         /\ DetailsOpt(e, d).kind = e.kind /\ DetailsOpt(e, d).text = e.text
         /\ DetailsOpt(e, d).foreign = e.foreign
  <1>1. ((IF e.details = Nil THEN {} ELSE e.details) \cup d) \in DetailMaps
    BY DEF Built, Errors, DetailMaps
  <1>2. QED BY <1>1 DEF Built, Errors, DetailsOpt

\* From: the kind asked for, with the status of a pinned ErrorT cause.
LEMMA FromFacts ==
  ASSUME NEW k \in Kinds, NEW e \in Errors, e.kind.code = NoKind => e.foreign, NEW t \in Texts
  PROVE  /\ Built(From(k, e, t))
         /\ From(k, e, t).kind.code = k.code /\ From(k, e, t).text = t
         /\ ~From(k, e, t).foreign
         /\ e.foreign => From(k, e, t).kind = k
         /\ ~e.foreign => From(k, e, t).kind = inheritStatusCustomization(k, e.kind)
  <1>1. CASE e.foreign
    <2>1. From(k, e, t) = newErrorT(k, t, NoKind)
      BY <1>1 DEF From, wrap
    <2>2. /\ Built(newErrorT(k, t, NoKind))
          /\ newErrorT(k, t, NoKind).kind = k /\ newErrorT(k, t, NoKind).text = t
          /\ ~newErrorT(k, t, NoKind).foreign
      BY NewErrorFacts
    <2>3. QED BY <1>1, <2>1, <2>2
  <1>2. CASE ~e.foreign
    <2>1. e.kind \in Kinds /\ e.details \in DetailMaps
      BY <1>2 DEF Errors
    <2> DEFINE i == inheritStatusCustomization(k, e.kind)
    <2>2. i \in Kinds /\ i.code = k.code
      BY <2>1, InheritFacts
    <2>3. From(k, e, t) = [kind |-> i, origin |-> NoKind, text |-> t,
                           details |-> e.details, foreign |-> FALSE]
      BY <1>2 DEF From, wrap, newErrorT
    <2> HIDE DEF i
    <2>4. QED BY <1>2, <2>1, <2>2, <2>3 DEF Built, Errors, i
  <1>3. QED BY <1>1, <1>2 DEF Errors

-----------------------------------------------------------------------------
(* The wire                                                                  *)

\* ErrorDTO keeps the code and the message.
LEMMA ErrorDTOFacts ==
  ASSUME NEW e, Built(e)
  PROVE  ErrorDTO(e) \in DTOs /\ ErrorDTO(e).code = e.kind.code /\ ErrorDTO(e).text = e.text
  BY DEF Built, Errors, Kinds, ErrorDTO, DTOs, DetailMaps, Nil

\* protectErrorDTO: the body of a user error says what the error says; any
\* other is the generic kind of its status.
LEMMA ProtectFacts ==
  ASSUME NEW e, Built(e), TextFits(e)
  PROVE  /\ protectErrorDTO(e) \in DTOs
         /\ protectErrorDTO(e).text # "system"
         /\ protectErrorDTO(e).text = "user" => protectErrorDTO(e).code \in UserCodes
         /\ StatusOf(e) >= 500 /\ ~IsUser(e) => protectErrorDTO(e).code \notin UserCodes
  <1>1. CASE IsUser(e)
    BY <1>1, ErrorDTOFacts DEF protectErrorDTO, IsUser, TextFits
  <1>2. CASE ~IsUser(e)
    <2> DEFINE g == KindForStatus(KindStatus(e.kind))
               k == [code |-> g, pin |-> NotDefined]
               m == MirrorOverride(k, e.kind.code)
    <2>1. g \in Codes /\ (StatusOf(e) >= 500 => g \notin UserCodes)
      <3>1. StatusOf(e) = KindStatus(e.kind) /\ KindStatus(e.kind) \in Statuses
        BY BuiltHasCode
      <3>2. /\ g \in Codes
            /\ g \in UserCodes <=> (KindStatus(e.kind) >= 400 /\ KindStatus(e.kind) < 500)
        BY <3>1, KindForStatusFacts
      <3>3. KindStatus(e.kind) \in Nat
        BY <3>1, StatusNat
      <3> HIDE DEF g
      <3>4. QED BY <3>1, <3>2, <3>3
    <2>2. k \in Kinds
      BY <2>1 DEF Kinds
    <2>3. Built(m) /\ m.kind = k /\ m.text = "static"
      <3>1. e.kind.code \in Codes \cup {NoKind} /\ "static" \in Texts
        BY BuiltHasCode DEF Texts
      <3> HIDE DEF k
      <3>2. QED BY <2>2, <3>1, NewErrorFacts DEF MirrorOverride
    <2> HIDE DEF g, m
    <2>4. Built(DetailsOpt(m, {"hint"})) /\ DetailsOpt(m, {"hint"}).kind = k
          /\ DetailsOpt(m, {"hint"}).text = "static"
      BY <2>3, DetailsOptFacts DEF DetailKeys
    <2>5. protectErrorDTO(e) = ErrorDTO(DetailsOpt(m, {"hint"}))
      BY <1>2 DEF protectErrorDTO, m, g
    <2>6. k.code = g
      OBVIOUS
    <2> HIDE DEF k
    <2>7. QED BY <2>1, <2>4, <2>5, <2>6, ErrorDTOFacts
  <1>3. QED BY <1>1, <1>2

\* The body Must writes, encodable or not.
LEMMA EncodedFacts ==
  ASSUME NEW d \in DTOs
  PROVE  /\ Encoded(d) \in DTOs
         /\ Encoded(d) = d \/ (Encoded(d).text = "static" /\ Encoded(d).code = KindSystemError)
  BY FrameworkCodes DEF Encoded, NotDTO, DTOs, Texts, DetailMaps

\* WriteError: the error's status, and a body as above.
LEMMA WriteErrorFacts ==
  ASSUME NEW e \in Errors, e.kind.code = NoKind => e.foreign, TextFits(e)
  PROVE  /\ WriteError(e) \in Replies
         /\ WriteError(e).status = StatusOf(e)
         /\ WriteError(e).dto.text # "system"
         /\ WriteError(e).dto.text = "user" => WriteError(e).dto.code \in UserCodes
         /\ StatusOf(e) >= 500 /\ ~IsUser(e) => WriteError(e).dto.code \notin UserCodes
  <1> DEFINE sys == [code |-> KindSystemError, pin |-> NotDefined]
             n   == IF e.kind.code = NoKind THEN newErrorT(sys, "static", NoKind) ELSE e
             p   == protectErrorDTO(n)
  <1>0. sys \in Kinds /\ KindStatus(sys) = 500
    BY FrameworkCodes, KindFacts DEF Kinds, KindStatus
  <1>1. Built(n) /\ TextFits(n) /\ StatusOf(n) = StatusOf(e) /\ (~IsUser(e) => ~IsUser(n))
    <2>1. CASE e.kind.code = NoKind
      <3>1. Built(n) /\ n.kind = sys /\ n.text = "static"
        <4>1. n = newErrorT(sys, "static", NoKind)
          BY <2>1
        <4> HIDE DEF n, sys
        <4>2. "static" \in Texts /\ NoKind \in Codes \cup {NoKind}
          BY DEF Texts
        <4>3. QED BY <1>0, <4>1, <4>2, NewErrorFacts
      <3>2. StatusOf(n) = 500
        BY <1>0, <3>1, BuiltHasCode
      <3>3. n.kind.code = KindSystemError
        BY <3>1
      <3> HIDE DEF n
      <3>4. QED BY <2>1, <3>1, <3>2, <3>3, KindFacts DEF TextFits, IsUser, StatusOf
    <2>2. CASE e.kind.code # NoKind
      BY <2>2 DEF Built, Errors
    <2>3. QED BY <2>1, <2>2
  <1> HIDE DEF n
  <1>2. /\ p \in DTOs /\ p.text # "system"
        /\ p.text = "user" => p.code \in UserCodes
        /\ StatusOf(n) >= 500 /\ ~IsUser(n) => p.code \notin UserCodes
    BY <1>1, ProtectFacts
  <1>3. WriteError(e) = [status |-> KindStatus(n.kind), dto |-> Encoded(p), cut |-> FALSE]
    BY DEF WriteError, n
  <1> HIDE DEF p
  <1>4. KindStatus(n.kind) = StatusOf(e) /\ StatusOf(e) \in Statuses
    BY <1>1, BuiltHasCode
  <1>5. Encoded(p) \in DTOs /\ (Encoded(p) = p \/ (Encoded(p).text = "static" /\ Encoded(p).code = KindSystemError))
    BY <1>2, EncodedFacts
  <1>6. WriteError(e) \in Replies /\ WriteError(e).status = StatusOf(e) /\ WriteError(e).dto = Encoded(p)
    BY <1>3, <1>4, <1>5 DEF Replies
  <1>7. QED BY <1>1, <1>2, <1>5, <1>6, KindFacts

\* The kind for a status, pinned where it must be.
LEMMA StatusKindFacts ==
  ASSUME NEW s \in Statuses
  PROVE  /\ statusKind(s) \in Kinds /\ KindStatus(statusKind(s)) = s
         /\ statusKind(s).code = KindForStatus(s)
  <1> DEFINE k == [code |-> KindForStatus(s), pin |-> NotDefined]
  <1>1. k \in Kinds /\ k.code = KindForStatus(s)
    BY KindForStatusFacts DEF Kinds
  <1>2. statusKind(s) = kindWithStatus(k, s)
    BY DEF statusKind
  <1> HIDE DEF k
  <1>3. QED BY <1>1, <1>2, KindWithStatusFacts

\* DecodeError: the status that arrived, a text that fits, and no user error
\* out of the body of a system one.
LEMMA DecodedFacts ==
  ASSUME NEW r \in Replies, NEW h \in 1 .. Hops,
         r.dto.text # "system", r.dto.text = "user" => r.dto.code \in UserCodes
  PROVE  /\ Built(Decoded(r, h)) /\ TextFits(Decoded(r, h)) /\ ~Decoded(r, h).foreign
         /\ r.status >= 400 => StatusOf(Decoded(r, h)) = r.status
         /\ r.status >= 500 /\ r.dto.code \notin UserCodes => ~IsUser(Decoded(r, h))
  <1> DEFINE s == r.status
  <1>1. s \in Statuses /\ s \in Nat /\ r.dto \in DTOs
    BY StatusNat DEF Replies
  <1> HIDE DEF s
  <1>2. "static" \in Texts /\ "system" \in Texts /\ NoKind \in Codes \cup {NoKind}
    BY DEF Texts
  <1>3. \A c \in Codes : [code |-> c, pin |-> NotDefined] \in Kinds
                         /\ [code |-> c, pin |-> NotDefined].code = c
    BY DEF Kinds
  <1>4. CASE s < 400
    <2> DEFINE k == [code |-> KindResponseDecodeError, pin |-> NotDefined]
               d == newErrorT(k, "static", NoKind)
    <2>1. k \in Kinds /\ k.code = KindResponseDecodeError
      BY <1>3, FrameworkCodes
    <2> HIDE DEF k
    <2>2. Built(d) /\ d.kind = k /\ d.text = "static" /\ ~d.foreign
      BY <1>2, <2>1, NewErrorFacts
    <2>3. Decoded(r, h) = d
      BY <1>1, <1>4 DEF Decoded, s, k
    <2> HIDE DEF d
    <2>4. QED BY <1>1, <1>4, <2>1, <2>2, <2>3, KindFacts DEF TextFits, IsUser, s
  <1>5. CASE s >= 400 /\ ~r.cut /\ r.dto.code \in Known[h]
    <2>1. r.dto.code \in Codes
      BY <1>5, HopsAssumption
    <2> DEFINE k == [code |-> r.dto.code, pin |-> NotDefined]
               w == kindWithStatus(k, s)
               d == DecodeFor(r.dto, s)
    <2>2. k \in Kinds /\ k.code = r.dto.code
      BY <1>3, <2>1
    <2> HIDE DEF k
    <2>3. w \in Kinds /\ w.code = r.dto.code /\ KindStatus(w) = s
      BY <1>1, <2>2, KindWithStatusFacts
    <2> HIDE DEF w
    <2>4. d = [kind |-> w, origin |-> r.dto.origin, text |-> r.dto.text,
               details |-> r.dto.details, foreign |-> FALSE]
      <3>1. d = [newErrorT(w, r.dto.text, r.dto.origin) EXCEPT !.details = r.dto.details]
        BY Zenon DEF DecodeFor, w, k
      <3> HIDE DEF d
      <3>2. QED BY <3>1 DEF newErrorT
    <2>5. Decoded(r, h) = d
      BY <1>1, <1>5 DEF Decoded, s
    <2> HIDE DEF d
    <2>6. Built(d)
      BY <1>1, <2>3, <2>4 DEF Built, Errors, DTOs
    <2>7. StatusOf(d) = s
      BY <2>3, <2>4, <2>6, BuiltHasCode
    <2>8. QED BY <1>1, <2>3, <2>4, <2>5, <2>6, <2>7 DEF TextFits, IsUser, s
  <1>6. CASE s >= 400 /\ ~r.cut /\ r.dto.code \notin Known[h] \cup {NoKind}
    <2> DEFINE k == [code |-> KindUnknownResponseError, pin |-> NotDefined]
               w == kindWithStatus(k, s)
               c == newErrorT(statusKind(s), "static", NoKind)
               d == From(w, c, "system")
    <2>1. k \in Kinds /\ k.code = KindUnknownResponseError
      BY <1>3, FrameworkCodes
    <2>0. k.pin = NotDefined
      OBVIOUS
    <2> HIDE DEF k
    <2>2. w \in Kinds /\ w.code = KindUnknownResponseError /\ KindStatus(w) = s
      BY <1>1, <2>1, KindWithStatusFacts
    <2>3. statusKind(s) \in Kinds /\ KindStatus(statusKind(s)) = s
      BY <1>1, StatusKindFacts
    <2>4. Built(c) /\ c.kind = statusKind(s) /\ ~c.foreign
      BY <1>2, <2>3, NewErrorFacts
    <2>5. Decoded(r, h) = d
      BY <1>1, <1>6 DEF Decoded, s, k
    <2> HIDE DEF w, c
    <2>6. c \in Errors /\ (c.kind.code = NoKind => c.foreign)
      BY <2>4, BuiltHasCode DEF Built
    <2>7. Built(d) /\ d.kind.code = KindUnknownResponseError /\ d.text = "system" /\ ~d.foreign
          /\ d.kind = inheritStatusCustomization(w, statusKind(s))
      BY <1>2, <2>2, <2>4, <2>6, FromFacts
    <2> HIDE DEF d
    <2>8. KindStatus(d.kind) = s
      <3>1. CASE w.pin # NotDefined \/ statusKind(s).pin = NotDefined
        BY <2>2, <2>3, <2>7, <3>1, InheritFacts
      <3>2. CASE w.pin = NotDefined /\ statusKind(s).pin # NotDefined
        <4>1. statusKind(s).pin = s
          BY <2>3, <3>2 DEF KindStatus
        <4>2. KindStatus(inheritStatusCustomization(w, statusKind(s))) = statusKind(s).pin
          BY <2>2, <2>3, <3>2, InheritFacts
        <4>3. QED BY <2>7, <4>1, <4>2
      <3>3. QED BY <3>1, <3>2
    <2>9. StatusOf(d) = s
      BY <2>7, <2>8, BuiltHasCode
    <2>10. QED BY <1>1, <2>5, <2>7, <2>9, KindFacts DEF TextFits, IsUser, s
  <1>7. CASE s >= 400 /\ (r.cut \/ r.dto.code = NoKind)
    <2> DEFINE c == newErrorT(statusKind(s), "static", NoKind)
               d == DetailsOpt(c, {"metadata"})
    <2>1. /\ statusKind(s) \in Kinds /\ KindStatus(statusKind(s)) = s
          /\ statusKind(s).code = KindForStatus(s)
      BY <1>1, StatusKindFacts
    <2>2. Built(c) /\ c.kind = statusKind(s) /\ ~c.foreign /\ c.text = "static"
      BY <1>2, <2>1, NewErrorFacts
    <2> HIDE DEF c
    <2>3. Built(d) /\ d.kind = statusKind(s) /\ ~d.foreign /\ d.text = "static"
      BY <2>2, DetailsOptFacts DEF DetailKeys
    <2>4. Decoded(r, h) = d
      <3>1. r.dto.code = NoKind => r.dto.code \notin Known[h]
        BY HopsAssumption, KindFacts
      <3>2. QED BY <1>1, <1>7, <3>1 DEF Decoded, s, c
    <2> HIDE DEF d
    <2>5. StatusOf(d) = s
      BY <2>1, <2>3, BuiltHasCode
    <2>6. s >= 500 => KindForStatus(s) \notin UserCodes
      BY <1>1, KindForStatusFacts
    <2>7. QED BY <1>1, <2>1, <2>3, <2>4, <2>5, <2>6 DEF TextFits, IsUser, s
  <1>8. s < 400 \/ s >= 400
    BY <1>1
  <1>9. QED BY <1>4, <1>5, <1>6, <1>7, <1>8

-----------------------------------------------------------------------------
(* The chain of services                                                     *)

\* An error some service has.
Held(e) == e \in Errors /\ (e.kind.code = NoKind => e.foreign)

\* From with the text its kind calls for.
LEMMA WrittenFrom ==
  ASSUME NEW e, Held(e), NEW k \in Kinds
  PROVE  /\ Built(From(k, e, Written(k))) /\ TextFits(From(k, e, Written(k)))
         /\ ~From(k, e, Written(k)).foreign
         /\ Held(From(k, e, Written(k)))
  <1> DEFINE t == Written(k)
             f == From(k, e, t)
  <1>1. t \in Texts /\ (t = "user" => k.code \in UserCodes) /\ (t = "system" => k.code \notin UserCodes)
    BY WrittenFits
  <1> HIDE DEF t
  <1>2. Built(f) /\ f.kind.code = k.code /\ f.text = t /\ ~f.foreign
    BY <1>1, FromFacts DEF Held
  <1> HIDE DEF f
  <1>3. Held(f) /\ TextFits(f)
    BY <1>1, <1>2, BuiltHasCode DEF Held, Built, TextFits, IsUser
  <1>4. QED BY <1>2, <1>3 DEF f, t

\* Propagate keeps the status and class of an ErrorT.
LEMMA PropagateKeeps ==
  ASSUME NEW e, Held(e)
  PROVE  /\ PropagatedKind(e) \in Kinds
         /\ ~e.foreign =>
              From(PropagatedKind(e), e, Written(PropagatedKind(e))).kind = e.kind
  <1>1. CASE e.foreign
    BY <1>1, FrameworkCodes DEF PropagatedKind, Kinds
  <1>2. CASE ~e.foreign
    <2>1. e.kind \in Kinds /\ PropagatedKind(e) = e.kind
      BY <1>2 DEF PropagatedKind, Held, Errors
    <2>2. From(e.kind, e, Written(e.kind)).kind = inheritStatusCustomization(e.kind, e.kind)
      BY <1>2, <2>1, FromFacts, WrittenFits DEF Held
    <2>3. inheritStatusCustomization(e.kind, e.kind) = e.kind
      BY <2>1, InheritFacts
    <2>4. QED BY <2>1, <2>2, <2>3
  <1>3. QED BY <1>1, <1>2 DEF Held, Errors

\* WireInv, in the words of the lemmas.
LEMMA WireInvParts ==
  WireInv <=>
    /\ pc \in {"start", "handling", "answered", "panicked"} /\ hop \in 1 .. Hops
    /\ Held(err) /\ TextFits(err) /\ reply \in Replies
    /\ given \in [status : Statuses, user : BOOLEAN]
    /\ pc = "handling" =>
         /\ given.status >= 400 => StatusOf(err) = given.status
         /\ given.status >= 500 /\ ~given.user => ~IsUser(err)
    /\ pc = "answered" =>
         /\ reply.dto.text # "system"
         /\ reply.dto.text = "user" => reply.dto.code \in UserCodes
         /\ given.status >= 400 => reply.status = given.status
         /\ given.status >= 500 /\ ~given.user => reply.dto.code \notin UserCodes
  BY DEF WireInv, TypeOK, Held, TextFits, RelayKeepsStatus, SystemFailureStaysSystem,
         OnlyUserTextCrosses

\* Face of an error that is built is what given may hold.
LEMMA FaceFacts ==
  ASSUME NEW e, Held(e)
  PROVE  /\ Face(e) \in [status : Statuses, user : BOOLEAN]
         /\ Face(e).status = StatusOf(e) /\ Face(e).user = IsUser(e)
  <1>1. StatusOf(e) \in Statuses
    <2>1. CASE e.kind.code = NoKind
      BY <2>1, FrameworkCodes, KindFacts DEF StatusOf
    <2>2. CASE e.kind.code # NoKind
      BY <2>2, BuiltHasCode DEF Held, Built, Errors
    <2>3. QED BY <2>1, <2>2
  <1>2. IsUser(e) \in BOOLEAN
    BY DEF IsUser
  <1>3. QED BY <1>1, <1>2 DEF Face

\* A plain Go error is of no class.
LEMMA GoErrorHeld == Held(GoError) /\ TextFits(GoError) /\ ~IsUser(GoError)
  <1>1. NoKind \notin UserCodes
    BY KindFacts DEF UserCodes
  <1>2. QED BY <1>1 DEF Held, GoError, Errors, Texts, DetailMaps, TextFits, IsUser

\* The empty reply is a reply.
LEMMA NoReplyTyped == NoReply \in Replies
  <1>1. 500 \in Statuses
    BY FrameworkCodes, KindFacts
  <1>2. QED BY <1>1 DEF NoReply, Replies, NotDTO, DTOs, Texts, DetailMaps

\* The chain starts within the invariant.
LEMMA InitWire == Init => WireInv
  <1> SUFFICES ASSUME Init PROVE WireInv OBVIOUS
  <1>1. 1 \in 1 .. Hops
    BY HopsAssumption
  <1>2. Face(GoError) \in [status : Statuses, user : BOOLEAN]
    BY GoErrorHeld, FaceFacts
  <1>3. QED BY <1>1, <1>2, GoErrorHeld, NoReplyTyped, WireInvParts DEF Init

\* Every error a handler starts with.
LEMMA BirthFacts ==
  ASSUME NEW h \in 1 .. Hops, NEW e \in Births(h)
  PROVE  Held(e) /\ TextFits(e)
  <1>0. \A x : Built(x) => Held(x)
    BY BuiltHasCode DEF Held, Built
  <1>1. CASE e = GoError
    BY <1>1, GoErrorHeld
  <1>2. ASSUME NEW k \in Locals(h), NEW d \in SUBSET {"hint", "odd"},
               e = DetailsOpt(newErrorT(k, Written(k), NoKind), d)
        PROVE  Held(e) /\ TextFits(e)
    <2>1. k \in Kinds
      BY DEF Locals
    <2> DEFINE n == newErrorT(k, Written(k), NoKind)
    <2>2. Built(n) /\ n.kind = k /\ n.text = Written(k) /\ ~n.foreign
      BY <2>1, NewErrorFacts, WrittenFits
    <2> HIDE DEF n
    <2>3. d \in SUBSET DetailKeys
      BY DEF DetailKeys
    <2>4. Built(DetailsOpt(n, d)) /\ DetailsOpt(n, d).kind = k /\ DetailsOpt(n, d).text = Written(k)
      BY <2>2, <2>3, DetailsOptFacts
    <2>5. e = DetailsOpt(n, d)
      BY <1>2 DEF n
    <2>6. QED BY <1>0, <2>4, <2>5, WrittenFits DEF TextFits, IsUser
  <1>3. ASSUME NEW k \in Locals(h), NEW o \in Codes \cup {NoKind},
               e = Override(k, o) \/ e = MirrorOverride(k, o)
        PROVE  Held(e) /\ TextFits(e)
    <2>1. k \in Kinds /\ "static" \in Texts
      BY DEF Locals, Texts
    <2>2. PICK t \in {Written(k), "static"} : e = newErrorT(k, t, o)
      BY <1>3 DEF Override, MirrorOverride
    <2>3. t \in Texts /\ (t = "user" => k.code \in UserCodes) /\ (t = "system" => k.code \notin UserCodes)
      BY <2>1, <2>2, WrittenFits
    <2>4. Built(e) /\ e.kind = k /\ e.text = t
      BY <2>1, <2>2, <2>3, NewErrorFacts
    <2>5. QED BY <1>0, <2>3, <2>4 DEF TextFits, IsUser
  <1>4. QED BY <1>1, <1>2, <1>3 DEF Births

\* Every step of a service, of the network or of a decoding keeps WireInv.
LEMMA NextWire == WireInv /\ [Next]_vars => WireInv'
  <1> SUFFICES ASSUME WireInv, [Next]_vars PROVE WireInv'
    OBVIOUS
  <1>0. /\ pc \in {"start", "handling", "answered", "panicked"} /\ hop \in 1 .. Hops
        /\ Held(err) /\ TextFits(err) /\ reply \in Replies
        /\ given \in [status : Statuses, user : BOOLEAN]
        /\ pc = "handling" =>
             /\ given.status >= 400 => StatusOf(err) = given.status
             /\ given.status >= 500 /\ ~given.user => ~IsUser(err)
        /\ pc = "answered" =>
             /\ reply.dto.text # "system"
             /\ reply.dto.text = "user" => reply.dto.code \in UserCodes
             /\ given.status >= 400 => reply.status = given.status
             /\ given.status >= 500 /\ ~given.user => reply.dto.code \notin UserCodes
    BY WireInvParts
  <1> DEFINE Parts ==
        /\ pc' \in {"start", "handling", "answered", "panicked"} /\ hop' \in 1 .. Hops
        /\ Held(err') /\ TextFits(err') /\ reply' \in Replies
        /\ given' \in [status : Statuses, user : BOOLEAN]
        /\ pc' = "handling" =>
             /\ given'.status >= 400 => StatusOf(err') = given'.status
             /\ given'.status >= 500 /\ ~given'.user => ~IsUser(err')
        /\ pc' = "answered" =>
             /\ reply'.dto.text # "system"
             /\ reply'.dto.text = "user" => reply'.dto.code \in UserCodes
             /\ given'.status >= 400 => reply'.status = given'.status
             /\ given'.status >= 500 /\ ~given'.user => reply'.dto.code \notin UserCodes
  <1> SUFFICES Parts
    BY DEF WireInv, TypeOK, Held, TextFits, RelayKeepsStatus, SystemFailureStaysSystem,
           OnlyUserTextCrosses, IsUser, StatusOf, KindStatus, Errors, Replies
  \* A handler that holds e, given the face of e.
  <1>1. ASSUME NEW e, Held(e), TextFits(e), err' = e, given' = Face(e),
               pc' = "handling", UNCHANGED <<hop, reply>>
        PROVE  Parts
    <2>1. /\ Face(e) \in [status : Statuses, user : BOOLEAN]
          /\ Face(e).status = StatusOf(e) /\ Face(e).user = IsUser(e)
      BY <1>1, FaceFacts
    <2>2. QED BY <1>0, <1>1, <2>1
  \* A handler that holds e, of the same status and class as before.
  <1>2. ASSUME NEW e, Held(e), TextFits(e), err' = e, pc = "handling",
               StatusOf(e) = StatusOf(err), IsUser(e) <=> IsUser(err),
               UNCHANGED <<pc, hop, reply, given>>
        PROVE  Parts
    BY <1>0, <1>2
  <1>3. CASE Fail
    <2>1. PICK e \in Births(hop) : err' = e /\ given' = Face(e)
      BY <1>3 DEF Fail
    <2>2. Held(e) /\ TextFits(e)
      BY <1>0, BirthFacts
    <2>3. QED BY <1>1, <1>3, <2>1, <2>2 DEF Fail
  <1> DEFINE k == PropagatedKind(err)
             f == From(k, err, Written(k))
  <1>4. /\ Built(f) /\ Held(f) /\ TextFits(f) /\ ~f.foreign
        /\ ~err.foreign => StatusOf(f) = StatusOf(err) /\ (IsUser(f) <=> IsUser(err))
    <2>1. k \in Kinds /\ (~err.foreign => f.kind = err.kind)
      BY <1>0, PropagateKeeps
    <2>2. QED BY <1>0, <2>1, WrittenFrom DEF IsUser, StatusOf
  \* Both forms of Propagate.
  <1>5. ASSUME NEW e, Built(e), e.kind = f.kind, e.text = f.text, err' = e, pc = "handling",
               given' = (IF err.foreign THEN Face(err') ELSE given), UNCHANGED <<pc, hop, reply>>
        PROVE  Parts
    <2>1. Held(e) /\ TextFits(e) /\ StatusOf(e) = StatusOf(f) /\ (IsUser(e) <=> IsUser(f))
      BY <1>4, <1>5, BuiltHasCode DEF Held, Built, TextFits, IsUser, StatusOf
    <2>2. CASE err.foreign
      BY <1>1, <1>5, <2>1, <2>2
    <2>3. CASE ~err.foreign
      BY <1>2, <1>4, <1>5, <2>1, <2>3
    <2>4. QED BY <2>2, <2>3
  <1>6. CASE Propagate
    <2>1. PICK d \in SUBSET {"odd"} : err' = IF d = {} THEN f ELSE DetailsOpt(f, d)
      BY <1>6 DEF Propagate
    <2> HIDE DEF f
    <2>2. d \in SUBSET DetailKeys
      BY DEF DetailKeys
    <2>3. Built(err') /\ err'.kind = f.kind /\ err'.text = f.text
      BY <1>4, <2>1, <2>2, DetailsOptFacts
    <2>4. QED BY <1>5, <1>6, <2>3 DEF Propagate
  <1>7. CASE PropagateWithHint
    <2>1. CASE f.details = Nil
      BY <1>0, <1>7, <2>1 DEF PropagateWithHint
    <2>2. CASE f.details # Nil
      <3>1. err' = [f EXCEPT !.details = @ \cup {"hint"}]
        BY <1>7, <2>2 DEF PropagateWithHint
      <3>2. /\ pc = "handling" /\ UNCHANGED <<pc, hop, reply>>
            /\ given' = IF err.foreign THEN Face(err') ELSE given
        BY <1>7, <2>2 DEF PropagateWithHint
      <3> HIDE DEF f
      <3>3. (f.details \cup {"hint"}) \in DetailMaps
        BY <1>4, <2>2 DEF Built, Errors, DetailMaps, DetailKeys
      <3>4. Built(err') /\ err'.kind = f.kind /\ err'.text = f.text
        BY <1>4, <3>1, <3>3 DEF Built, Errors
      <3>5. QED BY <1>5, <3>2, <3>4
    <2>3. QED BY <2>1, <2>2
  <1>8. CASE PropagateAs
    <2>1. PICK q \in Locals(hop) :
            /\ err' = From(q, err, Written(q))
            /\ given' = IF ~err.foreign /\ err.kind.pin # NotDefined /\ q.pin = NotDefined
                        THEN [given EXCEPT !.user = IsUser(err')] ELSE Face(err')
      BY <1>8 DEF PropagateAs
    <2> DEFINE e == From(q, err, Written(q))
    <2>2. q \in Kinds
      BY DEF Locals
    <2>3. Built(e) /\ Held(e) /\ TextFits(e)
      BY <1>0, <2>2, WrittenFrom
    <2>4. CASE ~err.foreign /\ err.kind.pin # NotDefined /\ q.pin = NotDefined
      <3>1. err.kind \in Kinds /\ StatusOf(err) = err.kind.pin
        BY <1>0, <2>4, NotForeignIsBuilt, BuiltHasCode DEF Held, Built, KindStatus
      <3>2. e.kind = inheritStatusCustomization(q, err.kind)
        BY <1>0, <2>2, <2>4, FromFacts, WrittenFits DEF Held
      <3>3. KindStatus(inheritStatusCustomization(q, err.kind)) = err.kind.pin
        BY <2>2, <2>4, <3>1, InheritFacts
      <3> HIDE DEF e
      <3>4. StatusOf(e) = StatusOf(err)
        BY <2>3, <3>1, <3>2, <3>3, BuiltHasCode
      <3>5. err' = e /\ given' = [given EXCEPT !.user = IsUser(e)]
        BY <2>1, <2>4 DEF e
      <3>6. IsUser(e) \in BOOLEAN
        BY DEF IsUser
      <3>7. given' \in [status : Statuses, user : BOOLEAN] /\ given'.status = given.status
            /\ given'.user = IsUser(e)
        BY <1>0, <3>5, <3>6
      <3>8. QED BY <1>0, <1>8, <2>3, <3>4, <3>5, <3>7 DEF PropagateAs
    <2>5. CASE ~(~err.foreign /\ err.kind.pin # NotDefined /\ q.pin = NotDefined)
      BY <1>1, <1>8, <2>1, <2>3, <2>5 DEF PropagateAs
    <2>6. QED BY <2>4, <2>5
  <1>9. CASE WrapForeign
    <2>1. err' = [err EXCEPT !.foreign = TRUE] /\ pc = "handling" /\ UNCHANGED <<pc, hop, reply, given>>
      BY <1>9 DEF WrapForeign
    <2>2. err' \in Errors /\ err'.kind = err.kind /\ err'.text = err.text /\ err'.foreign
      BY <1>0, <2>1 DEF Held, Errors
    <2>3. Held(err') /\ TextFits(err') /\ StatusOf(err') = StatusOf(err) /\ (IsUser(err') <=> IsUser(err))
      BY <1>0, <2>2 DEF Held, TextFits, IsUser, StatusOf
    <2>4. QED BY <1>2, <2>1, <2>3
  <1>10. CASE Answer
    <2>1. /\ WriteError(err) \in Replies
          /\ WriteError(err).status = StatusOf(err)
          /\ WriteError(err).dto.text # "system"
          /\ WriteError(err).dto.text = "user" => WriteError(err).dto.code \in UserCodes
          /\ StatusOf(err) >= 500 /\ ~IsUser(err) => WriteError(err).dto.code \notin UserCodes
      BY <1>0, WriteErrorFacts DEF Held
    <2>2. given.status \in Nat
      BY <1>0, StatusNat
    <2>3. QED BY <1>0, <1>10, <2>1, <2>2 DEF Answer
  <1>11. CASE Truncate
    <2>1. reply' = [reply EXCEPT !.cut = TRUE] /\ UNCHANGED <<pc, hop, err, given>> /\ pc = "answered"
      BY <1>11 DEF Truncate
    <2>2. reply' \in Replies /\ reply'.status = reply.status /\ reply'.dto = reply.dto
      BY <1>0, <2>1 DEF Replies
    <2>3. QED BY <1>0, <2>1, <2>2
  <1>12. CASE ProxyAnswers
    <2>1. PICK s \in Statuses : reply' = [status |-> s, dto |-> NotDTO, cut |-> FALSE]
      BY <1>12 DEF ProxyAnswers
    <2>2. NotDTO \in DTOs /\ NotDTO.code = NoKind /\ NotDTO.text = "static" /\ NoKind \notin UserCodes
      BY KindFacts DEF NotDTO, DTOs, Texts, DetailMaps, UserCodes
    <2>3. given' \in [status : Statuses, user : BOOLEAN] /\ given'.status = s
      BY <1>12, <2>1 DEF ProxyAnswers
    <2>4. reply' \in Replies /\ reply'.status = s /\ reply'.dto = NotDTO
      BY <2>1, <2>2 DEF Replies
    <2>5. QED BY <1>0, <1>12, <2>2, <2>3, <2>4 DEF ProxyAnswers
  <1>13. CASE DecodeError
    <2> DEFINE e == Decoded(reply, hop + 1)
    <2>1. hop + 1 \in 1 .. Hops
      BY <1>0, <1>13, HopsAssumption DEF DecodeError
    <2>2. /\ Built(e) /\ TextFits(e) /\ ~e.foreign
          /\ reply.status >= 400 => StatusOf(e) = reply.status
          /\ reply.status >= 500 /\ reply.dto.code \notin UserCodes => ~IsUser(e)
      BY <1>0, <1>13, <2>1, DecodedFacts DEF DecodeError
    <2>3. err' = e /\ pc = "answered" /\ pc' = "handling" /\ hop' = hop + 1
          /\ reply' = NoReply /\ given' = given
      BY <1>13 DEF DecodeError
    <2> HIDE DEF e
    <2>4. Held(e)
      BY <2>2, BuiltHasCode DEF Held, Built
    <2>5. given.status \in Nat
      BY <1>0, StatusNat
    <2>6. QED BY <1>0, <2>1, <2>2, <2>3, <2>4, <2>5, NoReplyTyped
  <1>14. CASE UNCHANGED vars
    BY <1>0, <1>14 DEF vars
  <1>15. QED
    BY <1>3, <1>6, <1>7, <1>8, <1>9, <1>10, <1>11, <1>12, <1>13, <1>14 DEF Next

\* The inductive invariant of the chain of services holds throughout.
THEOREM WireInvariant == Spec => []WireInv
  BY InitWire, NextWire, PTL DEF Spec

\* RelayKeepsStatus: what Kind.CustomizeStatusCode, inheritStatusCustomization,
\* WriteError and DecodeError do to a status adds up to keeping it, through any
\* number of services.
THEOREM StatusSurvivesRelay == Spec => []RelayKeepsStatus
  <1>1. WireInv => RelayKeepsStatus
    BY DEF WireInv
  <1>2. QED BY <1>1, WireInvariant, PTL

\* SystemFailureStaysSystem: protectErrorDTO's generic kind and DecodeError's
\* fallbacks never turn a relayed 5xx system failure into a user error.
THEOREM ClassSurvivesRelay == Spec => []SystemFailureStaysSystem
  <1>1. WireInv => SystemFailureStaysSystem
    BY DEF WireInv
  <1>2. QED BY <1>1, WireInvariant, PTL

\* OnlyUserTextCrosses: no body WriteError produces, in any service of the
\* chain, carries a message written for a log.
THEOREM LogTextStays == Spec => []OnlyUserTextCrosses
  <1>1. WireInv => OnlyUserTextCrosses
    BY DEF WireInv
  <1>2. QED BY <1>1, WireInvariant, PTL

\* DecodedAsSent: DecodeError reports the status that arrived, and rebuilds a
\* user error whose whole body arrives where its kind is registered.
THEOREM DecodingIsFaithful == Spec => DecodedAsSent
  <1> DEFINE A == pc = "answered" /\ pc' = "handling" /\ reply.status >= 400 =>
        /\ StatusOf(err') = reply.status
        /\ IsUser(err) /\ reply = WriteError(err) /\ "odd" \notin err.details
             /\ err.kind.code \in Known[hop'] =>
               /\ err'.kind.code = err.kind.code /\ err'.text = err.text
               /\ err'.origin = err.origin
               /\ err'.details \ Nil = err.details \ Nil
  <1>1. WireInv /\ [Next]_vars => [A]_vars
    <2> SUFFICES ASSUME WireInv, Next, pc = "answered", pc' = "handling", reply.status >= 400
                 PROVE  /\ StatusOf(err') = reply.status
                        /\ IsUser(err) /\ reply = WriteError(err) /\ "odd" \notin err.details
                             /\ err.kind.code \in Known[hop'] =>
                               /\ err'.kind.code = err.kind.code /\ err'.text = err.text
                               /\ err'.origin = err.origin
                               /\ err'.details \ Nil = err.details \ Nil
      BY DEF vars
    <2>1. DecodeError
      BY DEF Next, Fail, Propagate, PropagateWithHint, PropagateAs, WrapForeign, Answer,
             Truncate, ProxyAnswers
    <2>2. err' = Decoded(reply, hop + 1) /\ hop' = hop + 1 /\ hop + 1 \in 1 .. Hops
      BY <2>1, HopsAssumption DEF DecodeError, WireInv, TypeOK
    <2>3. reply \in Replies /\ reply.status \in Nat
      BY StatusNat DEF WireInv, TypeOK, Replies
    <2>4. StatusOf(err') = reply.status
      BY <2>2, <2>3, DecodedFacts, WireInvParts
    <2>5. ASSUME IsUser(err), reply = WriteError(err), "odd" \notin err.details,
                 err.kind.code \in Known[hop']
          PROVE  /\ err'.kind.code = err.kind.code /\ err'.text = err.text
                 /\ err'.origin = err.origin
                 /\ err'.details \ Nil = err.details \ Nil
      <3>1. err.kind.code \in Codes /\ err.kind.code # NoKind
        BY <2>5, KindFacts DEF IsUser, UserCodes
      <3> DEFINE d == ErrorDTO(err)
      <3>2. /\ d.code = err.kind.code /\ d.text = err.text /\ d.origin = err.origin
            /\ d.details \ Nil = err.details \ Nil /\ "odd" \notin d.details
        BY <2>5 DEF ErrorDTO, Nil
      <3>3. protectErrorDTO(err) = d
        BY <2>5 DEF protectErrorDTO
      <3> HIDE DEF d
      <3>4. reply.dto = d /\ ~reply.cut
        BY <2>5, <3>1, <3>2, <3>3 DEF WriteError, Encoded
      <3>5. err' = DecodeFor(d, reply.status)
        BY <2>2, <2>3, <2>5, <3>2, <3>4 DEF Decoded
      <3> DEFINE q == [code |-> d.code, pin |-> NotDefined]
                 w == kindWithStatus(q, reply.status)
      <3>6. q \in Kinds /\ q.code = d.code
        BY <3>1, <3>2 DEF Kinds
      <3> HIDE DEF q
      <3>7. w.code = d.code
        BY <2>3, <3>6, KindWithStatusFacts DEF Replies
      <3>8. err' = [newErrorT(w, d.text, d.origin) EXCEPT !.details = d.details]
        BY <3>5, Zenon DEF DecodeFor, w, q
      <3> HIDE DEF w
      <3>9. err'.kind = w /\ err'.text = d.text /\ err'.origin = d.origin /\ err'.details = d.details
        BY <3>8 DEF newErrorT
      <3>10. QED BY <3>2, <3>7, <3>9
    <2>6. QED BY <2>4, <2>5
  <1>2. QED BY <1>1, WireInvariant, PTL DEF Spec, DecodedAsSent

\* How far the finding about Hint reaches: the option meets a nil map only in
\* an error that came off the wire.
HintExtent == pc = "panicked" => hop > 1

\* New, Propagate, Override and a foreign error around them leave no nil map.
NilExtent == HintExtent /\ (err.details = Nil /\ ~err.foreign => hop > 1)

\* An error made by the service that adds the hint never makes hint.Opt panic,
\* however often it is propagated and whatever wraps it on the way.
THEOREM LocalHintsAreSafe == Spec => []HintExtent
  <1>1. Init => NilExtent
    BY DEF Init, NilExtent, HintExtent, GoError
  <1>2. WireInv /\ NilExtent /\ [Next]_vars => NilExtent'
    <2> SUFFICES ASSUME WireInv, NilExtent, [Next]_vars PROVE NilExtent'
      OBVIOUS
    <2>0. err \in Errors /\ hop \in 1 .. Hops
      BY DEF WireInv, TypeOK
    <2>1. {} # Nil
      BY DEF Nil
    <2>2. \A k, t : LET e == From(k, err, t) IN e.details = Nil => ~err.foreign /\ err.details = Nil
      BY <2>0, <2>1 DEF From, wrap, newErrorT, Errors
    <2>3. \A e \in Births(hop) : e.details = Nil => e.foreign
      <3>1. GoError.foreign
        BY DEF GoError
      <3>2. \A k, t, o : newErrorT(k, t, o).details = {}
        BY DEF newErrorT
      <3>3. \A k, d : d \subseteq {"hint", "odd"} =>
              DetailsOpt(newErrorT(k, Written(k), NoKind), d).details # Nil
        BY <2>1, <3>2 DEF DetailsOpt, newErrorT, Nil
      <3>4. \A k, o : Override(k, o).details = {} /\ MirrorOverride(k, o).details = {}
        BY <3>2 DEF Override, MirrorOverride
      <3> TAKE e \in Births(hop)
      <3>5. \/ e = GoError
            \/ \E k \in Locals(hop), d \in SUBSET {"hint", "odd"} :
                 e = DetailsOpt(newErrorT(k, Written(k), NoKind), d)
            \/ \E k \in Locals(hop), o \in Codes \cup {NoKind} : e = Override(k, o) \/ e = MirrorOverride(k, o)
        BY DEF Births
      <3>6. QED BY <2>1, <3>1, <3>3, <3>4, <3>5
    <2>4. CASE Fail
      BY <2>3, <2>4 DEF Fail, NilExtent, HintExtent
    <2>5. CASE Propagate
      BY <2>1, <2>2, <2>5 DEF Propagate, DetailsOpt, NilExtent, HintExtent, Nil
    <2>6. CASE PropagateWithHint
      <3> DEFINE k == PropagatedKind(err)
                 e == From(k, err, Written(k))
      <3>1. e.details = Nil => ~err.foreign /\ err.details = Nil
        BY <2>2
      <3>2. hop' = hop /\ IF e.details = Nil THEN pc' = "panicked" /\ err' = err
                         ELSE err' = [e EXCEPT !.details = @ \cup {"hint"}] /\ pc' = pc
        BY <2>6 DEF PropagateWithHint
      <3> HIDE DEF k
      <3>3. "hint" \notin Nil /\ DOMAIN e = DOMAIN [e EXCEPT !.details = @ \cup {"hint"}]
        BY DEF Nil
      <3>4. "details" \in DOMAIN e
        BY <2>0 DEF From, wrap, newErrorT, Errors
      <3> HIDE DEF e
      <3>5. CASE e.details = Nil
        BY <3>1, <3>2, <3>5 DEF NilExtent, HintExtent
      <3>6. CASE e.details # Nil
        BY <3>2, <3>3, <3>4, <3>6 DEF NilExtent, HintExtent
      <3>7. QED BY <3>5, <3>6
    <2>7. CASE PropagateAs
      BY <2>2, <2>7 DEF PropagateAs, NilExtent, HintExtent
    <2>8. CASE WrapForeign
      BY <2>0, <2>8 DEF WrapForeign, NilExtent, HintExtent, Errors
    <2>9. CASE DecodeError
      BY <2>0, <2>9, HopsAssumption DEF DecodeError, NilExtent, HintExtent
    <2>10. CASE Answer \/ Truncate \/ ProxyAnswers \/ UNCHANGED vars
      BY <2>10 DEF Answer, Truncate, ProxyAnswers, vars, NilExtent, HintExtent
    <2>11. QED BY <2>4, <2>5, <2>6, <2>7, <2>8, <2>9, <2>10 DEF Next
  <1>3. NilExtent => HintExtent
    BY DEF NilExtent
  <1>4. QED BY <1>1, <1>2, <1>3, WireInvariant, PTL DEF Spec
=============================================================================
