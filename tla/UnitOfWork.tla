----------------------------- MODULE UnitOfWork -----------------------------
(***************************************************************************)
(* What package database promises of Storer.Transaction (src/database/     *)
(* doc.go): "The transaction is committed on success and rolled back on    *)
(* error or panic."  There is no stack, no sql.Tx and no context here: the *)
(* rows put into a unit become visible in one step or never, and what the  *)
(* call returns says which.  Transaction is shown to implement this.       *)
(***************************************************************************)
CONSTANT Keys

VARIABLES visible,  \* rows everybody sees
          held,     \* rows of the unit that nobody else sees
          unit,     \* "none", "open", "kept" or "dropped"
          told      \* what the last call returned, "none" or "running"

vars == <<visible, held, unit, told>>

Init == visible = {} /\ held = {} /\ unit = "none" /\ told = "none"

Begin ==
  /\ told # "running"
  /\ unit' = "open" /\ told' = "running"
  /\ UNCHANGED <<visible, held>>

\* No unit could be opened, and nothing was run.
Refuse ==
  /\ told # "running"
  /\ unit' = "none" /\ told' = "err"
  /\ UNCHANGED <<visible, held>>

Put(k) ==
  /\ unit = "open" /\ k \notin visible \cup held
  /\ held' = held \cup {k}
  /\ UNCHANGED <<visible, unit, told>>

\* A row of nobody's unit.
PutOutside(k) ==
  /\ k \notin visible \cup held
  /\ visible' = visible \cup {k}
  /\ UNCHANGED <<held, unit, told>>

Keep ==
  /\ unit = "open" /\ unit' = "kept"
  /\ visible' = visible \cup held /\ held' = {}
  /\ UNCHANGED told

Drop ==
  /\ unit = "open" /\ unit' = "dropped"
  /\ held' = {}
  /\ UNCHANGED <<visible, told>>

\* nil only for a unit that was kept, an error or a panic only for one that was
\* dropped. "unsure" is the error of a commit that was never answered.
Return(o) ==
  /\ told = "running" /\ unit \in {"kept", "dropped"}
  /\ o = "ok" => unit = "kept"
  /\ o \in {"err", "panic"} => unit = "dropped"
  /\ told' = o
  /\ UNCHANGED <<visible, held, unit>>

Next ==
  \/ Begin \/ Refuse \/ Keep \/ Drop
  \/ \E k \in Keys : Put(k) \/ PutOutside(k)
  \/ \E o \in {"ok", "err", "panic", "unsure"} : Return(o)

Spec == Init /\ [][Next]_vars
=============================================================================
