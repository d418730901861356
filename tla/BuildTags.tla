------------------------------ MODULE BuildTags ------------------------------
(***************************************************************************)
(* src/internal/garliclint/unittesttag.go: does a //go:build line make a   *)
(* test file a unit test?  A constraint stands for its disjunctive normal  *)
(* form: a set of clauses, each a set of literals.  The analyzer evaluates *)
(* it under two assignments of the platform tokens, all and none.          *)
(***************************************************************************)
EXTENDS Naturals, FiniteSets

CONSTANTS
  Platform,     \* tokens the toolchain sets: GOOS, GOARCH, go1.N, unix, cgo
  Custom,       \* other tokens, set with -tags
  ClauseBound   \* bound on the literals of a clause

ASSUME TagsAssumption == "unit" \notin Platform \cup Custom /\ Platform \cap Custom = {}

VARIABLES line, judged

tagVars == <<line, judged>>

Literals == [tag : Platform \cup Custom \cup {"unit"}, neg : BOOLEAN]
Clauses == {c \in SUBSET Literals : Cardinality(c) <= ClauseBound}

(* constraint.Expr.Eval with the tokens of `set` true.                     *)
Satisfied(e, set) == \E c \in e : \A l \in c : (l.tag \in set) # l.neg

(* Wrong: only the all-true platform is sampled.                           *)
hasUnitBuildTagOnce(e) ==
  Satisfied(e, Platform \cup {"unit"}) /\ ~Satisfied(e, Platform)

(* hasUnitBuildTag.                                                        *)
hasUnitBuildTag(e) ==
  LET withUnit == Satisfied(e, Platform \cup {"unit"}) \/ Satisfied(e, {"unit"})
      withoutUnit == Satisfied(e, Platform) \/ Satisfied(e, {})
  IN  withUnit /\ ~withoutUnit

-----------------------------------------------------------------------------
(* Constraints of one or two clauses.                                      *)
TagInit ==
  /\ line \in {{c, d} : c \in Clauses, d \in Clauses}
  /\ judged = "no"
TagIdle == line = {} /\ judged = "idle"

(* runUnitTestTag on a test file: G8.01 unless the line is a unit tag.     *)
RunUnitTestTag ==
  /\ judged = "no"
  /\ judged' = IF hasUnitBuildTag(line) THEN "unit" ELSE "reported"
  /\ UNCHANGED line

-----------------------------------------------------------------------------
(* The comment on hasUnitBuildTag: a file counts "when its constraint is   *)
(* satisfiable under -tags=unit and unsatisfiable without it".  The two    *)
(* samples decide that for every assignment of the platform tokens as long *)
(* as those occur with one polarity; the mixed case is the one the comment *)
(* concedes (unittesttag.go hasUnitBuildTag).                              *)
UnitTagExact ==
  LET onPlatform == {l \in UNION line : l.tag \in Platform}
      onePolarity == \A l, k \in onPlatform : l.neg = k.neg
      runs(with) == \E p \in SUBSET Platform : Satisfied(line, p \cup with)
  IN  judged \in {"unit", "reported"} /\ onePolarity =>
        (judged = "unit" <=> runs({"unit"}) /\ ~runs({}))
=============================================================================
