-------------------------------- MODULE Lint --------------------------------
(***************************************************************************)
(* src/internal/garliclint: the propagation analyzer, run against the      *)
(* functions it judges.  A function is a record: its result list, the      *)
(* statements of its body that touch error variables, and its return       *)
(* statement.  The analyzer looks at the text once; the function is then   *)
(* executed, its statements in any order and any number of times (every    *)
(* branch and loop), its deferred closures after the return.               *)
(*                                                                         *)
(* Variables: "r1", "r2" named results, "l" a local, "o" one that is       *)
(* declared outside the body (a parameter, or captured by a literal).      *)
(* Values: "nil", "traced" (an error with this function on its reverse     *)
(* trace), "untraced" (built by a constructor of garlic/errors that adds   *)
(* no entry), "raw" (any other error); "outer" is what "o" held when the   *)
(* function began, "late" an error that a deferred closure took over.      *)
(***************************************************************************)
EXTENDS Naturals, Sequences, FiniteSets

CONSTANTS
  Funcs,       \* the functions considered
  Interfaces   \* foreignInterfaces: a package and a set of methods each

VARIABLES fn, env, pc, result

lintVars == <<fn, env, pc, result>>

Vars == {"r1", "r2", "l", "o"}

(* Expressions; "classify" is a call with an error among its arguments.    *)
Nil == [is |-> "nil"]

(* isGarlicConstructor accepts two groups: New, Propagate, PropagateAs and *)
(* TemplateT's New and Propagate append a reverse trace entry; Raw, From,  *)
(* Override, Mirror, MirrorOverride and ErrorT.With leave that to options. *)
Tracing == [is |-> "tracing"]
Plain == [is |-> "plain"]
isGarlicConstructor(e) == e \in {Tracing, Plain}

Call == [is |-> "call"]
Classify == [is |-> "classify"]
Ident(v) == [is |-> "ident", var |-> v]

(* Statements, in the body or in a deferred closure: v = e (also in a      *)
(* declaration); a form whose value cannot be tracked (v, w = f(), &v,     *)
(* range); and a declaration without a value.                              *)
Assign(v, e, late) == [form |-> "assign", var |-> v, expr |-> e, late |-> late]
Opaque(v, late) == [form |-> "opaque", var |-> v, late |-> late]
Declare(v) == [form |-> "declare", var |-> v, late |-> FALSE]

(* Returns: bare, one expression per result, or one call with a tuple.     *)
Bare == [form |-> "bare"]
Explicit(es) == [form |-> "explicit", exprs |-> es]
Tuple == [form |-> "tuple"]

-----------------------------------------------------------------------------
(* Types: a field of the result list has a type and a number of names.     *)

(* flattenedFieldTypes: one type per name, one for an unnamed field.       *)
flattenedFieldTypes(fields) ==
  LET width(f) == IF f.names = 0 THEN 1 ELSE f.names
      before[i \in 1 .. Len(fields) + 1] == IF i = 1 THEN 0 ELSE before[i - 1] + width(fields[i - 1])
      fieldOf(k) == CHOOSE i \in DOMAIN fields : before[i] < k /\ k <= before[i + 1]
  IN  [k \in 1 .. before[Len(fields) + 1] |-> fields[fieldOf(k)].type]

returnsError(f) == \E i \in DOMAIN f.fields : f.fields[i].type = "error"

ErrorPositions(f) ==
  {k \in DOMAIN flattenedFieldTypes(f.fields) : flattenedFieldTypes(f.fields)[k] = "error"}

Named(f) == \E i \in DOMAIN f.fields : f.fields[i].names > 0
ResultVar(k) == IF k = 1 THEN "r1" ELSE "r2"

(* The functions are ones the compiler accepts: a bare return names its    *)
(* results, of which there are at most two, and the methods belong to the  *)
(* analyzed program.                                                       *)
Expressions == {Nil, Tracing, Plain, Call, Classify} \cup {Ident(v) : v \in Vars}
Statements ==
  {Assign(v, e, late) : v \in Vars, e \in Expressions, late \in BOOLEAN}
  \cup {Opaque(v, late) : v \in Vars, late \in BOOLEAN} \cup {Declare(v) : v \in Vars}

(* How the package of a foreign interface is found: among the imports of   *)
(* the analyzed one, by the default importer, or not at all.               *)
Findings == {"imported", "loaded", "failed"}

ASSUME LintAssumption ==
  \A f \in Funcs :
    /\ f.fields \in Seq([names : Nat, type : STRING]) /\ f.stmts \subseteq Statements
    /\ \/ f.ret = Bare /\ (f.fields # << >> => Named(f))
       \/ f.ret = Tuple
       \/ f.ret.form = "explicit" /\ \A k \in ErrorPositions(f) : f.ret.exprs[k] \in Expressions
    /\ Named(f) => ErrorPositions(f) \subseteq 1 .. 2
    /\ f.recv.methods # {} => /\ f.recv.method \in f.recv.methods
                              /\ \A i \in Interfaces : f.recv.found[i.pkg] \in Findings
    /\ \A n \in f.recv.methods : n.sig = [types |-> n.sig.types, load |-> 1]

-----------------------------------------------------------------------------
(* What the analyzer knows of a variable.                                  *)

(* Wrong: closures are not looked into.                                    *)
assignedValuesShallow(f, v) ==
  {s.expr : s \in {t \in f.stmts : t.form = "assign" /\ t.var = v /\ ~t.late}}

(* assignedValues: nested function literals included.                      *)
assignedValues(f, v) ==
  {s.expr : s \in {t \in f.stmts : t.form = "assign" /\ t.var = v}}
opaque(f, v) == \E late \in BOOLEAN : Opaque(v, late) \in f.stmts

neverAssigned(f, v) == assignedValues(f, v) = {} /\ ~opaque(f, v)

isPropagatedVar(f, v) ==
  /\ ~opaque(f, v) /\ assignedValues(f, v) # {}
  /\ \A e \in assignedValues(f, v) : isGarlicConstructor(e)

(* namedErrorResults, explicitErrorReturnExpressions and                   *)
(* tupleErrorReturnExpression.                                             *)
errorReturnExpressions(f) ==
  CASE f.ret.form = "bare" ->
         {Ident(ResultVar(k)) : k \in {j \in ErrorPositions(f) :
                                         Named(f) /\ ~neverAssigned(f, ResultVar(j))}}
    [] f.ret.form = "explicit" -> {f.ret.exprs[k] : k \in ErrorPositions(f)}
    [] f.ret.form = "tuple" -> {Call : k \in ErrorPositions(f)}

-----------------------------------------------------------------------------
(* Methods demanded by an interface of another package are not judged.  A  *)
(* type in a signature comes from the analyzed program or, when the        *)
(* interface's package is not imported, from a second load of it: the same *)
(* type is then another object, and only its path and name compare equal.  *)
(* An interface whose package cannot be loaded is passed over.             *)

Identical(sig1, sig2) == sig1 = sig2
sameTypeStrings(sig1, sig2) == sig1.types = sig2.types

(* The interface as the analyzer finds it.                                 *)
Loaded(methods, imported) ==
  {[name |-> m.name, sig |-> [types |-> m.types, load |-> IF imported THEN 1 ELSE 2]] : m \in methods}

sameSignature(sig1, sig2, imported) ==
  IF imported THEN Identical(sig1, sig2) ELSE sameTypeStrings(sig1, sig2)

(* receiverTypes: T and *T; the method set of *T holds every method.       *)
methodSets(recv) == {{m \in recv.methods : ~m.pointer}, recv.methods}

implements(recv, iface, imported) ==
  \E ms \in methodSets(recv) : \A m \in iface :
    \E n \in ms : n.name = m.name /\ sameSignature(n.sig, m.sig, imported)

isForeignInterfaceMethod(f) ==
  /\ f.recv.methods # {}
  /\ \E i \in Interfaces :
       LET imported == f.recv.found[i.pkg] = "imported"
           iface == Loaded(i.methods, imported)
       IN  /\ f.recv.found[i.pkg] # "failed"
           /\ implements(f.recv, iface, imported)
           /\ \E m \in iface : /\ m.name = f.recv.method.name
                               /\ sameSignature(f.recv.method.sig, m.sig, imported)

-----------------------------------------------------------------------------
(* checkPropagationFunction, without its log-then-return rule: the ids it  *)
(* reports.                                                                *)
Reports(f) ==
  IF ~returnsError(f) \/ isForeignInterfaceMethod(f) THEN {}
  ELSE {IF e = Classify THEN "G0.02" ELSE "G0.01" :
          e \in {x \in errorReturnExpressions(f) :
                   /\ x # Nil /\ ~isGarlicConstructor(x)
                   /\ x.is = "ident" => ~isPropagatedVar(f, x.var)}}

-----------------------------------------------------------------------------
(* Execution of the function: external, the Go language.                   *)

NoFunction == [stmts |-> {}, ret |-> Bare, fields |-> << >>, recv |-> [methods |-> {}]]

LintInit ==
  /\ fn \in Funcs
  /\ env \in {[v \in Vars |-> IF v = "o" THEN x ELSE "nil"] : x \in {"nil", "traced", "outer"}}
  /\ pc = "body" /\ result = << >>

LintIdle ==
  /\ fn = NoFunction /\ env = [v \in Vars |-> "nil"]
  /\ pc = "idle" /\ result = << >>

(* Propagate and From of a nil error are nil; an option of the call, or an *)
(* entry of the error it wraps, may have traced a plain one.               *)
Eval(e) ==
  CASE e.is = "nil" -> {"nil"}
    [] e.is = "tracing" -> {"nil", "traced"}
    [] e.is = "plain" -> {"nil", "traced", "untraced"}
    [] e.is \in {"call", "classify"} -> {"nil", "raw"}
    [] e.is = "ident" -> {env[e.var]}

Execute(s) ==
  /\ s \in fn.stmts /\ pc = IF s.late THEN "deferred" ELSE "body"
  /\ \E x \in CASE s.form = "assign" -> Eval(s.expr)
                [] s.form = "opaque" -> {"nil", "traced", "untraced", "raw"}
                [] s.form = "declare" -> {"nil"} :
       LET built == s.form = "assign" /\ isGarlicConstructor(s.expr)
       IN  env' = [env EXCEPT ![s.var] = IF s.late /\ x # "nil" /\ ~built THEN "late" ELSE x]
  /\ UNCHANGED <<fn, pc, result>>

(* The return statement assigns the results; named ones are variables that *)
(* deferred closures still change.                                         *)
Return ==
  /\ pc = "body"
  /\ \E vals \in [ErrorPositions(fn) -> {"nil", "traced", "untraced", "raw", "outer"}] :
       /\ \A k \in ErrorPositions(fn) :
            vals[k] \in CASE fn.ret.form = "bare" -> {env[ResultVar(k)]}
                          [] fn.ret.form = "explicit" -> Eval(fn.ret.exprs[k])
                          [] fn.ret.form = "tuple" -> Eval(Call)
       /\ result' = vals
       /\ env' = [v \in Vars |->
                    IF Named(fn) /\ \E k \in ErrorPositions(fn) : ResultVar(k) = v
                    THEN vals[CHOOSE k \in ErrorPositions(fn) : ResultVar(k) = v] ELSE env[v]]
  /\ pc' = "deferred"
  /\ UNCHANGED fn

Leave ==
  /\ pc = "deferred"
  /\ result' = [k \in ErrorPositions(fn) |-> IF Named(fn) THEN env[ResultVar(k)] ELSE result[k]]
  /\ pc' = "returned"
  /\ UNCHANGED <<fn, env>>

LintNext == (\E s \in fn.stmts : Execute(s)) \/ Return \/ Leave

-----------------------------------------------------------------------------
(* A method that an interface outside the module demands, if its package   *)
(* could be found, whichever way its types were loaded.                    *)
Demanded(f) ==
  \E i \in {j \in Interfaces : f.recv.found[j.pkg] # "failed"} :
    /\ \A m \in i.methods : \E n \in f.recv.methods : n.name = m.name /\ n.sig.types = m.types
    /\ \E m \in i.methods : m.name = f.recv.method.name /\ m.types = f.recv.method.sig.types

(* The function itself builds what it returns in position k with a         *)
(* constructor that adds no entry to the reverse trace.                    *)
ChosePlain(f, k) ==
  LET expr == IF f.ret.form = "explicit" THEN f.ret.exprs[k] ELSE Nil
  IN  \/ expr = Plain
      \/ \E v \in Vars : /\ expr = Ident(v) \/ (Named(f) /\ v = ResultVar(k))
                        /\ Plain \in assignedValues(f, v)

(* A function that passes the analyzer returns, in every error position,   *)
(* nil or an error it joined to the reverse trace.  Three values escape    *)
(* it: what a variable from outside the body held before ("o" assigned on  *)
(* some paths only), what a deferred closure writes over an explicit       *)
(* return of something else, and what the function itself built with Raw,  *)
(* From, Override, Mirror, MirrorOverride or With, which the analyzer takes *)
(* for propagation although they add no entry.  Methods are exempt exactly *)
(* when an interface whose package could be found demands them, imported   *)
(* or not (propagation.go checkPropagationFunction, helpers.go             *)
(* isGarlicConstructor, isPropagatedVar, namedErrorResults,                *)
(* isForeignInterfaceMethod).                                              *)
LintSound ==
  /\ pc = "returned" /\ Reports(fn) = {} /\ ~isForeignInterfaceMethod(fn) =>
       \A k \in ErrorPositions(fn) :
         /\ result[k] # "raw"
         /\ result[k] = "untraced" => ChosePlain(fn, k)
         /\ result[k] = "outer" => \E e \in assignedValues(fn, "o") : isGarlicConstructor(e)
         /\ result[k] = "late" => /\ fn.ret.form = "explicit"
                                  /\ fn.ret.exprs[k] # Ident(ResultVar(k))
  /\ pc = "body" /\ fn.recv.methods # {} => (isForeignInterfaceMethod(fn) <=> Demanded(fn))
=============================================================================
