---------------------------- MODULE DatasetReuse ----------------------------
(***************************************************************************)
(* A prepared file that shows the rows of a converted dataset instead of   *)
(* its own copy (viewer/ingest.rs, reuse_dataset).  A row is compared by   *)
(* its digest, a number; rows that are equal are told apart by their order *)
(* only.  A fragment takes one unit of disk per row.                       *)
(***************************************************************************)
EXTENDS Naturals, Sequences, FiniteSets, SequencesExt

NotReused == [ok |-> FALSE]

\* Rows in the order of their digests, equal ones as pushed; the addresses stay with them.
DigestBefore(a, b) == a.digest < b.digest \/ (a.digest = b.digest /\ a.sequence < b.sequence)

RowIndex(rows) ==
  LET place(i) == Cardinality({j \in DOMAIN rows : DigestBefore(rows[j], rows[i])})
  IN [n \in DOMAIN rows |-> rows[CHOOSE i \in DOMAIN rows : place(i) = n - 1]]

Expected(digests) ==
  RowIndex([i \in DOMAIN digests |-> [digest |-> digests[i], sequence |-> i, at |-> i]])

Actual(fragments) ==
  LET before(f) == SumFunction([g \in 1..f - 1 |-> Len(fragments[g])])
      pushed(f) == [r \in DOMAIN fragments[f] |->
                      [digest |-> fragments[f][r], sequence |-> before(f) + r, at |-> <<f, r - 1>>]]
  IN RowIndex(FlattenSeq([f \in DOMAIN fragments |-> pushed(f)]))

\* The two lists are walked together and must end together.
Mapping(expected, actual) ==
  IF \/ Len(expected) # Len(actual)
     \/ \E i \in DOMAIN expected : expected[i].digest # actual[i].digest
  THEN NotReused
  ELSE [ok |-> TRUE,
        at |-> [id \in DOMAIN expected |->
                  actual[CHOOSE i \in DOMAIN expected : expected[i].at = id].at]]

\* The fragments are copied one by one, each if it still fits half of the limit.
Copied(fragments, used, disk) ==
  FoldLeft(LAMBDA acc, rows : IF ~acc.ok \/ acc.used + Len(rows) > disk \div 2 THEN NotReused
                              ELSE [ok |-> TRUE, used |-> acc.used + Len(rows)],
           [ok |-> TRUE, used |-> used], fragments)

reuse_dataset(digests, fragments, used, disk) ==
  LET mapped == Mapping(Expected(digests), Actual(fragments))
  IN IF ~mapped.ok \/ ~Copied(fragments, used, disk).ok THEN NotReused ELSE mapped
=============================================================================
