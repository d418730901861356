--------------------------- MODULE MCReleaseAudit ---------------------------
(* Two modules in two versions; exceptions of every shape.                 *)
EXTENDS ReleaseAudit

Line(m, v, mod, whole) == [module |-> m, version |-> v, goMod |-> mod, whole |-> whole]
Entry(m, v, exp) == [module |-> m, version |-> v, expires |-> exp]

MCGoSums ==
  {{Line("m1", "v1", FALSE, TRUE), Line("m1", "v1", TRUE, TRUE), Line("m2", "v1", TRUE, TRUE)},
   {Line("m1", "v1", FALSE, TRUE), Line("m1", "v2", FALSE, TRUE), Line("m2", "v1", FALSE, FALSE)},
   {}}

MCEntries == {Entry("m1", "v1", 1), Entry("m1", AnyVersion, 2), Entry("m2", "v2", 2),
              Entry("m2", "v1", NoDate), Entry("m1", "v2", BadDate)}

MCAllowlists == {f \in SUBSET MCEntries : Cardinality(f) <= 2}
=============================================================================
