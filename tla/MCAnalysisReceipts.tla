------------------------- MODULE MCAnalysisReceipts -------------------------
(* An instance of AnalysisReceipts for TLC, and its reductions tried on samples. *)
EXTENDS AnalysisReceipts, TLC

CONSTANTS p1, p2, fa, fb, ba, bb, s1, s2, a, b, d1, d2, t1, t2

\* Both bodies have the same measurements; their attempts differ.
Bodies == fa :> ba @@ fb :> bb
Measured == ba :> <<2, 1, 2, 3, 1, 2, 3>> @@ bb :> <<1, 2, 3, 3, 1, 2, 2>>
Attempt(place, verdict, ecid, latest) ==
  [run |-> 1, place |-> place, verdict |-> verdict, ecid |-> ecid, latest |-> latest]
Tested ==
  ba :> <<Attempt(t1, "fail", d1, "false"), Attempt(t2, "unknown", NoDevice, "unresolved"),
          Attempt(t1, "pass", d1, "true")>>
  @@ bb :> <<Attempt(t1, "pass", d1, "true"), Attempt(t2, "fail", d2, "true")>>

\* s1 is complete, its rows in another order; s2 has the row 1 once where a has it twice.
CatalogRows(f, rows) == [file |-> f, rows |-> rows]
Snapshots ==
  s1 :> [complete |-> TRUE, sources |->
     a :> CatalogRows(fa, <<1, 1, 2, 2, 2, 3, 3>>) @@ b :> CatalogRows(fb, <<1, 1, 2, 2, 2, 3, 3>>)]
  @@ s2 :> [complete |-> FALSE, sources |-> a :> CatalogRows(fa, <<1, 2, 2, 2, 2, 3, 3>>)]

Id(source, f, body) == [snapshot |-> s1, source |-> source, file |-> f, body |-> body]
IdA == Id(a, fa, ba)
IdB == Id(b, fb, bb)
Bundles == {{IdB}}

NoScope == [places |-> {}, runs |-> {}]
Ask(op, ids, population, scope, exclude, partial) ==
  [op |-> op, snapshot |-> s1, ids |-> ids, population |-> population, scope |-> scope,
   exclude |-> exclude, allow_partial |-> partial]
Requests ==
  {Ask("retest", <<IdA, IdB>>, "latest_device", NoScope, {}, FALSE),
   Ask("groups", <<IdB>>, "all_attempts", NoScope, {<<b, 1>>}, TRUE)}

SampleAttempts ==
  {[run |-> 1, place |-> place, verdict |-> verdict, ecid |-> ecid, latest |-> latest] :
     place \in {t1, t2}, verdict \in {"pass", "fail"}, ecid \in {d1, NoDevice},
     latest \in {"true", "false"}}
  \cup {Attempt(t1, "unknown", d2, "true")}
Samples == BoundedSeq(SampleAttempts, 3)
SampleAsks ==
  {Ask(op, <<>>, population, scope, exclude, FALSE) :
     op \in {"yield", "groups", "retest"}, population \in {"all_attempts", "latest_device"},
     scope \in {NoScope, [places |-> {t1}, runs |-> {<<a, 1>>}]}, exclude \in {{<<a, 2>>}}}

Trial(rows) ==
  INSTANCE EvidenceArchive
    WITH Evidence <- EvidenceId, Bound <- {}, RowsIn <- rows,
         SourcesOf <- CatalogSources, published <- {}, answers <- {}

\* Each reduction, one attempt after the other, gives the numbers that the attempts have
\* as a set, whatever their order, identities, latest flags, scope and exclusions.  It says
\* nothing of steps and is looked at in the initial states.
SummariesAgree ==
  LET sample == CHOOSE id \in EvidenceId : TRUE
  IN (\A kind \in DOMAIN spent : spent[kind] = 0) =>
       \A rows \in Samples : \A r \in SampleAsks :
         Reduce(rows, sample.source, [r EXCEPT !.ids = <<sample>>])
           = Trial([id \in {sample} |-> rows])!Numbers([r EXCEPT !.ids = <<sample>>])

BothSnapshots == {<<s1, a>>, <<s2, a>>}
EvidenceBudget == [start |-> 2, rewrite |-> 2, kill |-> 1, damage |-> 1, trouble |-> 2]
=============================================================================
