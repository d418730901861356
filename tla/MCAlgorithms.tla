---------------------------- MODULE MCAlgorithms ----------------------------
(* Bounded inputs for the four computations.                               *)
EXTENDS Algorithms

(* io.Closer, io.ReadCloser and sql.Scanner.                               *)
MCInterfaces ==
  {[pkg |-> "io", methods |-> {[name |-> "Close", types |-> <<"error">>]}],
   [pkg |-> "io", methods |-> {[name |-> "Read", types |-> <<"bytes", "error">>],
                               [name |-> "Close", types |-> <<"error">>]}],
   [pkg |-> "sql", methods |-> {[name |-> "Scan", types |-> <<"any", "error">>]}]}

NoRecv == [methods |-> {}]
Method(n, t, p) == [name |-> n, sig |-> [types |-> t, load |-> 1], pointer |-> p]

(* Receivers with some of four methods, one of them under judgement.       *)
Methods ==
  {Method("Close", <<"error">>, TRUE), Method("Close", <<"int", "error">>, FALSE),
   Method("Read", <<"bytes", "error">>, FALSE), Method("Scan", <<"any", "error">>, TRUE)}
Receivers ==
  UNION {[methods : {ms}, method : ms, found : [{"io", "sql"} -> Findings]] :
           ms \in {s \in SUBSET Methods : s # {} /\ \A a, b \in s : a.name = b.name => a = b}}

Exprs(vs) == {Nil, Tracing, Plain, Call} \cup {Ident(v) : v \in vs}
Stmts(vs) == {Assign(v, e, late) : v \in vs, e \in Exprs(vs), late \in BOOLEAN}
             \cup {Opaque(v, late) : v \in vs, late \in BOOLEAN} \cup {Declare("l")}

Field(n, t) == [names |-> n, type |-> t]
UpToTwo(S) == {{}} \cup {{a, b} : a \in S, b \in S}
Bodies(fields, vs, rets) ==
  [fields : {fields}, stmts : UpToTwo(Stmts(vs)), ret : rets, recv : {NoRecv}]

(* error; (err error); (T, error), methods included; (a, b error).         *)
MCFuncs ==
  Bodies(<<Field(0, "error")>>, {"l", "o"},
         {Explicit(<<e>>) : e \in Exprs({"l", "o"}) \cup {Classify}})
  \cup Bodies(<<Field(1, "error")>>, {"r1", "l", "o"},
              {Bare} \cup {Explicit(<<e>>) : e \in Exprs({"r1", "l", "o"})})
  \cup [fields : {<<Field(0, "value"), Field(0, "error")>>}, stmts : {{}, {Opaque("l", FALSE)}},
        ret : {Tuple, Explicit(<<Nil, Tracing>>), Explicit(<<Nil, Ident("l")>>)},
        recv : Receivers \cup {NoRecv}]
  \cup Bodies(<<Field(2, "error")>>, {"r1", "r2"}, {Bare, Explicit(<<Tracing, Ident("r1")>>)})
=============================================================================
