----------------------------- MODULE MCErrorWire -----------------------------
(* Three services; the second does not know the application's kind.          *)
EXTENDS ErrorWire

MCAppKinds == [c \in {<<"A", 1>>} |-> [status |-> NotDefined, parent |-> <<"C", 5>>]]

MCKnown == [h \in 1 .. Hops |-> IF h = 2 THEN Codes \ {<<"A", 1>>} ELSE Codes]
=============================================================================
