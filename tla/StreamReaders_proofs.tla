------------------------ MODULE StreamReaders_proofs ------------------------
(***************************************************************************)
(* The invariants of StreamReaders, for every alphabet of records, every   *)
(* file over it and every limit.  In the order of the module:              *)
(*                                                                         *)
(* PartsCharged and the limits of BatchLimits, about EavParts alone.       *)
(* PartsCharged is not inductive: a PIR at a site starts a part with no    *)
(* tests, and says nothing of origins left there by an earlier part.  The  *)
(* invariant EInv adds that only pending parts have origins, and that what *)
(* is charged to a part is never negative, so that releasing it never      *)
(* lifts the totals over a limit.  Every file is read by the converter's   *)
(* actions, so EInv holds in StreamReaders too.                            *)
(*                                                                         *)
(* ChargesBalance and NoRowLost: sums over the open parts, which change    *)
(* where one part does (SumPut, SumWithout).                               *)
(*                                                                         *)
(* AttemptsAgree, WafersAgree: readers that go on do the same to what they *)
(* keep.  ValidatorAgrees, CleanFileIsReadable: what one judge finds wrong *)
(* with a record the other does, or the reader stops at.                   *)
(*                                                                         *)
(* RowsNameTheirAttempt, LookupFindsRows: the index of the viewer's first  *)
(* pass says whose the rows of a part are while the part is still open;    *)
(* and the table its second pass builds, fold by fold.  With what          *)
(* FileChecks_proofs says of fragments they are RowsStoredOnce             *)
(* (ReportChecks_proofs).                                                  *)
(***************************************************************************)
EXTENDS StreamReaders, DataFacts, SequenceTheorems

Charged ==
  /\ DOMAIN pending = DOMAIN active_parts
  /\ DOMAIN provenance \subseteq DOMAIN pending
  /\ \A p \in DOMAIN pending :
       /\ pending[p].tests \in Nat /\ pending[p].bytes \in Nat
       /\ "tests" \in DOMAIN active_parts[p]
       /\ active_parts[p].tests = pending[p].tests
       /\ Get(provenance, p, <<>>) \in Seq(Nat \X Nat)
       /\ Len(Get(provenance, p, <<>>)) = pending[p].tests

Limited ==
  /\ tests \in Int /\ bytes \in Int
  /\ tests <= MaxPendingTests /\ bytes <= MaxMemory

EInv ==
  /\ record_sequence \in Nat
  /\ eavStatus = "reading" => Charged /\ Limited

LEMMA FeeType == \A pos : PartFee(pos) \in {0, 2}
BY DEF PartFee, PartCharge

\* What a test record says of its length.
LEMMA TestFields ==
  ASSUME NEW r \in Record, r.kind \in TestKind
  PROVE  /\ r.declared \in Nat /\ r.carried \in Nat
         /\ r.kind # "MPR" => r.declared = 0 /\ r.carried = 0
<1>1. r \in TestRecord
  BY DEF Record, RunRecord, SiteRecord, WaferRecord, PartRecord, MalformedRecord,
         RunKind, PartKind, TestKind
<1> DEFINE Shapes == [kind : TestKind, head : HeadNum, site : SiteNum, unexecuted : BOOLEAN,
                     declared : Values \cup {0}, carried : Values \cup {0}]
<1>2. r \in Shapes /\ (r.kind # "MPR" => r.declared = 0 /\ r.carried = 0)
  BY <1>1, Zenon DEF TestRecord
<1>3. r.declared \in Values \cup {0} /\ r.carried \in Values \cup {0}
  BY <1>2
<1>4. Values \cup {0} \subseteq Nat
  BY ValuesAssumption
<1>5. r.declared \in Nat /\ r.carried \in Nat
  BY <1>3, <1>4, Zenon
<1> QED
  BY <1>2, <1>5, Zenon

\* The rows reserved for an acceptable record are the rows it expands to.
LEMMA ReservedIsRows ==
  ASSUME NEW r \in Record, r.kind \in TestKind, r.carried = r.declared
  PROVE  Reserved(r) \in Nat \ {0} /\ Reserved(r) = RowsOf(r)
BY TestFields DEF Reserved, RowsOf

LEMMA OriginsLength ==
  ASSUME NEW r \in Record, Reserved(r) \in Nat \ {0}, record_sequence \in Nat
  PROVE  Origins(r) \in Seq(Nat \X Nat) /\ Len(Origins(r)) = Reserved(r)
<1>1. \A i \in 1..Reserved(r) : <<record_sequence + 1, i - 1>> \in Nat \X Nat
  OBVIOUS
<1>2. Origins(r) \in [1..Reserved(r) -> Nat \X Nat]
  BY <1>1 DEF Origins
<1> QED
  BY <1>2

\* A charge that fits keeps the totals within the limits.
LEMMA RetainKeepsLimits ==
  ASSUME Limited, NEW pos, NEW count \in Nat, Fits(pos, count), retain(pos, count)
  PROVE  Limited'
<1>1. PartFee(pos) \in Nat
  BY FeeType
<1>2. /\ tests' = tests + count
      /\ bytes' = bytes + (count * TestCharge + PartFee(pos))
  BY DEF retain
<1>3. count * TestCharge \in Nat
  BY DEF TestCharge
<1> QED
  BY <1>1, <1>2, <1>3, LimitAssumption DEF Limited, Fits

\* New metadata that fits does too.
LEMMA MetadataKeepsLimits ==
  ASSUME Limited, NEW keys, IsFiniteSet(keys), MetadataFits(keys), metadata(keys)
  PROVE  Limited'
<1>1. Cardinality(NewKeys(keys)) \in Nat
  BY FS_Difference, FS_CardinalityType DEF NewKeys
<1> QED
  BY <1>1, LimitAssumption DEF Limited, MetadataFits, metadata, MetadataCharge

LEMMA InitEstablishes == EavInit => EInv
BY LimitAssumption DEF EavInit, EInv, Charged, Limited, EmptyMap, Reserve

\* Records that start, end or describe something else leave all parts as they are.
LEMMA ContextKeeps ==
  ASSUME EInv, eavStatus = "reading", NEW r \in Record,
         EavMir(r) \/ EavMrr(r) \/ EavWrr(r)
  PROVE  EInv'
BY DEF EInv, Charged, Limited, Get, EavMir, EavMrr, EavWrr, EavAccept, context, charges

LEMMA SdrKeeps ==
  ASSUME EInv, eavStatus = "reading", NEW r \in Record, EavSdr(r)
  PROVE  EInv'
<1> DEFINE keys == {<<1, r.head, s>> : s \in r.sites}
<1>1. r \in SiteRecord
  BY DEF EavSdr, Record, RunRecord, TestRecord, WaferRecord, PartRecord, MalformedRecord,
         RunKind, PartKind, TestKind
<1>2. IsFiniteSet(r.sites)
  BY <1>1, SiteAssumption, FS_Subset DEF SiteRecord
<1>3. IsFiniteSet(keys)
  <2> DEFINE f == [s \in r.sites |-> <<1, r.head, s>>]
  <2>1. f \in Surjection(r.sites, keys)
    BY DEF Surjection
  <2> QED
    BY <1>2, <2>1, FS_Surjection, Zenon
<1>4. CASE EavRefuse("limit")
  BY <1>4 DEF EInv, EavRefuse, EavFail, Discard
<1>5. CASE MetadataFits(keys) /\ EavAccept /\ metadata(keys)
           /\ UNCHANGED <<wafer_ids, active_parts, part_seq, provenance, batches>>
  <2>1. Limited'
    BY <1>3, <1>5, MetadataKeepsLimits DEF EInv
  <2> QED
    BY <1>5, <2>1 DEF EInv, Charged, Get, metadata, EavAccept
<1> QED
  BY <1>4, <1>5 DEF EavSdr

LEMMA WirKeeps ==
  ASSUME EInv, eavStatus = "reading", NEW r \in Record, EavWir(r)
  PROVE  EInv'
<1> DEFINE keys == {<<0, r.head, r.group>>}
<1>1. IsFiniteSet(keys)
  BY FS_Singleton
<1>2. CASE EavRefuse("limit")
  BY <1>2 DEF EInv, EavRefuse, EavFail, Discard
<1>3. CASE MetadataFits(keys) /\ EavAccept /\ metadata(keys)
           /\ UNCHANGED <<site_groups, active_parts, part_seq, provenance, batches>>
  <2>1. Limited'
    BY <1>1, <1>3, MetadataKeepsLimits DEF EInv
  <2> QED
    BY <1>3, <2>1 DEF EInv, Charged, Get, metadata, EavAccept
<1> QED
  BY <1>2, <1>3 DEF EavWir

\* A new part starts with nothing, and nothing of an earlier one is left.
LEMMA PirKeeps ==
  ASSUME EInv, eavStatus = "reading", NEW r \in Record, EavPir(r)
  PROVE  EInv'
<1> DEFINE pos == At(r)
<1>1. CASE EavRefuse("pairing") \/ EavRefuse("limit")
  BY <1>1 DEF EInv, EavRefuse, EavFail, Discard
<1>2. CASE /\ pos \notin DOMAIN pending /\ Fits(pos, 0) /\ EavAccept /\ retain(pos, 0)
           /\ active_parts' = Put(active_parts, pos, NewPart(pos))
           /\ UNCHANGED <<wafer_ids, site_groups, provenance, batches>>
  <2>1. Limited'
    BY <1>2, RetainKeepsLimits DEF EInv
  <2>2. /\ pending' = Put(pending, pos, [tests |-> 0, bytes |-> PartCharge])
        /\ provenance' = provenance
    BY <1>2 DEF retain, Get, PartFee, TestCharge, PartCharge
  <2>3. Get(provenance, pos, <<>>) = <<>>
    BY <1>2 DEF EInv, Charged, Get
  <2>4. Charged'
    BY <1>2, <2>2, <2>3 DEF EInv, Charged, Put, Get, NewPart, PartCharge
  <2> QED
    BY <1>2, <2>1, <2>4 DEF EInv, EavAccept
<1> QED
  BY <1>1, <1>2 DEF EavPir

\* A test adds to the charge, the part and its origins the same number of rows.
LEMMA TestKeeps ==
  ASSUME EInv, eavStatus = "reading", NEW r \in Record, EavTest(r)
  PROVE  EInv'
<1> DEFINE pos == At(r)
           part == Get(active_parts, pos, NewPart(pos))
           entry == Get(pending, pos, [tests |-> 0, bytes |-> 0])
           origins == Get(provenance, pos, <<>>)
<1>1. CASE EavRefuse("limit") \/ EavRefuse("expansion")
  BY <1>1 DEF EInv, EavRefuse, EavFail, Discard
<1>2. CASE /\ r.carried = r.declared /\ Fits(pos, Reserved(r)) /\ EavAccept
           /\ retain(pos, Reserved(r))
           /\ active_parts' = Put(active_parts, pos, [part EXCEPT !.tests = @ + RowsOf(r)])
           /\ provenance' = Put(provenance, pos, origins \o Origins(r))
  <2>1. r.kind \in TestKind
    BY DEF EavTest
  <2>2. Reserved(r) \in Nat \ {0} /\ Reserved(r) = RowsOf(r)
    BY <1>2, <2>1, ReservedIsRows
  <2>3. Origins(r) \in Seq(Nat \X Nat) /\ Len(Origins(r)) = Reserved(r)
    BY <2>2, OriginsLength DEF EInv
  <2>4. Limited'
    BY <1>2, <2>2, RetainKeepsLimits DEF EInv
  <2>5. /\ entry.tests \in Nat /\ entry.bytes \in Nat
        /\ "tests" \in DOMAIN part /\ part.tests = entry.tests
        /\ origins \in Seq(Nat \X Nat) /\ Len(origins) = entry.tests
    BY DEF EInv, Charged, Get, NewPart
  <2>6. pending' = Put(pending, pos,
                       [tests |-> entry.tests + Reserved(r),
                        bytes |-> entry.bytes + (Reserved(r) * TestCharge + PartFee(pos))])
    BY <1>2 DEF retain
  <2>7. Reserved(r) * TestCharge + PartFee(pos) \in Nat
    BY <2>2, FeeType DEF TestCharge
  <2>8. /\ origins \o Origins(r) \in Seq(Nat \X Nat)
        /\ Len(origins \o Origins(r)) = entry.tests + Reserved(r)
    <3>1. \A s, t \in Seq(Nat \X Nat) :
            s \o t \in Seq(Nat \X Nat) /\ Len(s \o t) = Len(s) + Len(t)
      BY ConcatProperties
    <3>2. Len(origins \o Origins(r)) = Len(origins) + Len(Origins(r))
      BY <2>3, <2>5, <3>1, Zenon
    <3> QED
      BY <2>3, <2>5, <3>1, <3>2, Zenon
  <2>9. /\ "tests" \in DOMAIN [part EXCEPT !.tests = @ + RowsOf(r)]
        /\ [part EXCEPT !.tests = @ + RowsOf(r)].tests = entry.tests + Reserved(r)
    BY <2>2, <2>5
  <2> HIDE DEF pos, part, entry, origins
  <2>10. Charged'
    BY <1>2, <2>2, <2>5, <2>6, <2>7, <2>8, <2>9, SMTT(30) DEF EInv, Charged, Put, Get
  <2> QED
    BY <1>2, <2>4, <2>10 DEF EInv, EavAccept
<1> QED
  BY <1>1, <1>2 DEF EavTest

\* PRR takes the part, its origins and its charge away together.
LEMMA PrrKeeps ==
  ASSUME EInv, eavStatus = "reading", NEW r \in Record, EavPrr(r)
  PROVE  EInv'
<1> DEFINE pos == At(r)
           charge == Get(pending, pos, [tests |-> 0, bytes |-> 0])
<1>1. charge.tests \in Nat /\ charge.bytes \in Nat
  BY DEF EInv, Charged, Get
<1>2. /\ EavAccept
      /\ active_parts' = Without(active_parts, pos)
      /\ provenance' = Without(provenance, pos)
      /\ pending' = Without(pending, pos)
      /\ tests' = tests - charge.tests
      /\ bytes' = bytes - charge.bytes
  BY DEF EavPrr
<1>3. Limited'
  BY <1>1, <1>2, LimitAssumption DEF EInv, Limited
<1>4. Charged'
  BY <1>2 DEF EInv, Charged, Without, Get
<1> QED
  BY <1>2, <1>3, <1>4 DEF EInv, EavAccept

LEMMA MalformedKeeps ==
  ASSUME EInv, eavStatus = "reading", NEW r \in Record, EavMalformed(r)
  PROVE  EInv'
<1>1. CASE EavRefuse("malformed")
  BY <1>1 DEF EInv, EavRefuse, EavFail, Discard
<1>2. CASE EavAccept /\ UNCHANGED <<context, charges, provenance, batches>>
  BY <1>2 DEF EInv, Charged, Limited, Get, EavAccept, context, charges
<1> QED
  BY <1>1, <1>2 DEF EavMalformed

LEMMA StepKeeps == EInv /\ [EavNext]_eavVars => EInv'
<1> SUFFICES ASSUME EInv, [EavNext]_eavVars PROVE EInv'
  OBVIOUS
<1>1. CASE UNCHANGED eavVars
  BY <1>1 DEF EInv, Charged, Limited, Get, eavVars, context, charges
<1>2. CASE \E r \in Record : EavRead(r)
  <2>1. PICK r \in Record : EavRead(r)
    BY <1>2
  <2>2. CASE EavStopped
    BY <1>1, <2>2 DEF EavStopped
  <2>3. CASE eavStatus = "reading" /\ ~EavStopped
    BY <2>1, <2>3, ContextKeeps, SdrKeeps, WirKeeps, PirKeeps, TestKeeps, PrrKeeps,
       MalformedKeeps DEF EavRead
  <2> QED
    BY <2>1, <2>2, <2>3 DEF EavRead
<1>3. CASE EavEnd
  BY <1>1, <1>3 DEF EInv, EavEnd, EavStopped, EavFail, Discard
<1>4. CASE EavCut
  BY <1>1, <1>4 DEF EInv, EavCut, EavStopped, EavFail, Discard
<1> QED
  BY <1>1, <1>2, <1>3, <1>4 DEF EavNext

\* The inductive invariant of the converter.
THEOREM EavInvariant == EavSpec => []EInv
BY InitEstablishes, StepKeeps, PTL DEF EavSpec

\* Of every file, well-formed or not: the charges, the open parts and the origins of
\* their rows are those of the same tests (BoundedRecordBatchIter and StdfContext).
THEOREM ChargesFollowParts == EavSpec => []PartsCharged
<1>1. EInv => PartsCharged
  BY DEF EInv, Charged, PartsCharged
<1> QED
  BY <1>1, EavInvariant, PTL

\* Nothing is retained beyond BatchLimits, however many parts were opened and closed
\* before: check precedes every charge, and releases never take more than was charged.
THEOREM LimitsHold ==
  EavSpec => [](eavStatus = "reading" => tests <= MaxPendingTests /\ bytes <= MaxMemory)
<1>1. EInv => (eavStatus = "reading" => tests <= MaxPendingTests /\ bytes <= MaxMemory)
  BY DEF EInv, Limited
<1> QED
  BY <1>1, EavInvariant, PTL

-----------------------------------------------------------------------------
(***************************************************************************)
(* The converter as one of the readers of a file.                          *)
(***************************************************************************)
LEMMA ReaderStep == [Next]_vars => [EavNext]_eavVars
<1> SUFFICES ASSUME [Next]_vars PROVE [EavNext]_eavVars
  OBVIOUS
<1>1. CASE UNCHANGED vars
  BY <1>1 DEF vars
<1>2. ASSUME NEW r \in Alphabet, Deliver(r) PROVE EavNext
  BY <1>2, AlphabetAssumption DEF Deliver, EavNext
<1>3. CASE EndOfFile \/ CutOff
  BY <1>3 DEF EndOfFile, CutOff, EavNext
<1> QED
  BY <1>1, <1>2, <1>3 DEF Next

\* What is shown of the converter alone holds of it in every file read by all.
LEMMA ConverterReads == Spec => EavSpec
<1>1. Init => EavInit
  BY DEF Init
<1> QED
  BY <1>1, ReaderStep, PTL DEF Spec, EavSpec

\* The same, of a file that the five others read too (StreamReaders).
THEOREM ChargesFollowPartsInFiles == Spec => []PartsCharged
BY ConverterReads, ChargesFollowParts, PTL

LEMMA InvariantOfConverter == Spec => []EInv
BY ConverterReads, EavInvariant, PTL
-----------------------------------------------------------------------------
(***************************************************************************)
(* Sums over maps (Put, Without and Append).                               *)
(***************************************************************************)
Natural(f) == IsFiniteSet(DOMAIN f) /\ \A x \in DOMAIN f : f[x] \in Nat

LEMMA SumIsNat ==
  ASSUME NEW f, Natural(f)
  PROVE  SumFunction(f) \in Nat
BY SumNat DEF SumFunction, Natural

LEMMA SumOfEmpty ==
  ASSUME NEW f, DOMAIN f = {}
  PROVE  Natural(f) /\ SumFunction(f) = 0
BY SumEmpty, FS_EmptySet DEF SumFunction, Natural

LEMMA SumWithout ==
  ASSUME NEW f, Natural(f), NEW k
  PROVE  /\ Natural(Without(f, k))
         /\ SumFunction(Without(f, k)) + Get(f, k, 0) = SumFunction(f)
<1> DEFINE g == Without(f, k)
           rest == DOMAIN f \ {k}
<1>1. DOMAIN g = rest /\ \A x \in rest : g[x] = f[x] /\ f[x] \in Nat
  BY DEF Without, Natural
<1>2. IsFiniteSet(DOMAIN f) /\ IsFiniteSet(rest)
  BY FS_Subset DEF Natural
<1>3. Natural(g)
  BY <1>1, <1>2 DEF Natural
<1>4. SumFunctionOnSet(g, rest) = SumFunctionOnSet(f, rest)
  BY <1>1, <1>2, SumSame
<1>5. SumFunctionOnSet(f, rest) \in Nat
  BY <1>1, <1>2, SumNat
<1>6. CASE k \in DOMAIN f
  <2>1. SumFunctionOnSet(f, DOMAIN f) = f[k] + SumFunctionOnSet(f, rest)
    BY <1>6, <1>2, SumTake DEF Natural
  <2>2. f[k] \in Nat /\ Get(f, k, 0) = f[k]
    BY <1>6 DEF Natural, Get
  <2> HIDE DEF g, rest
  <2> QED
    BY <1>1, <1>3, <1>4, <1>5, <2>1, <2>2 DEF SumFunction, g
<1>7. CASE k \notin DOMAIN f
  <2>1. rest = DOMAIN f /\ Get(f, k, 0) = 0
    BY <1>7 DEF Get
  <2>2. SumFunction(g) = SumFunctionOnSet(f, rest) /\ SumFunction(f) = SumFunctionOnSet(f, rest)
    BY <1>1, <1>4, <2>1 DEF SumFunction
  <2> HIDE DEF g, rest
  <2> QED
    BY <1>3, <1>5, <2>1, <2>2 DEF g
<1> QED
  BY <1>6, <1>7

LEMMA SumPut ==
  ASSUME NEW f, Natural(f), NEW k, NEW v \in Nat
  PROVE  /\ Natural(Put(f, k, v))
         /\ SumFunction(Put(f, k, v)) + Get(f, k, 0) = SumFunction(f) + v
<1> DEFINE g == Put(f, k, v)
           h == Without(f, k)
           rest == DOMAIN f \ {k}
<1>1. DOMAIN g = rest \cup {k} /\ g[k] = v /\ DOMAIN h = rest
  BY DEF Put, Without
<1>2. \A x \in rest : g[x] = h[x] /\ h[x] \in Nat
  BY DEF Put, Without, Natural
<1>3. Natural(h) /\ SumFunction(h) + Get(f, k, 0) = SumFunction(f)
  BY SumWithout
<1>4. IsFiniteSet(rest) /\ k \notin rest
  BY FS_Subset DEF Natural
<1>5. /\ IsFiniteSet(rest \cup {k})
      /\ SumFunctionOnSet(g, rest \cup {k}) = SumFunctionOnSet(h, rest) + g[k]
  <2> HIDE DEF g, h, rest
  <2> QED
    BY <1>1, <1>2, <1>4, SumAdd
<1>6. Natural(g)
  BY <1>1, <1>2, <1>5 DEF Natural
<1>7. SumFunction(g) = SumFunction(h) + v
  BY <1>1, <1>5, Zenon DEF SumFunction
<1>8. SumFunction(h) \in Nat /\ Get(f, k, 0) \in Nat
  BY <1>3, SumIsNat DEF Natural, Get
<1> HIDE DEF g, h, rest
<1>9. SumFunction(g) + Get(f, k, 0) = SumFunction(f) + v
  BY <1>3, <1>7, <1>8
<1> QED
  BY <1>6, <1>9 DEF g

-----------------------------------------------------------------------------
(***************************************************************************)
(* ChargesBalance: the totals are sums over what is held.                  *)
(***************************************************************************)
PendingTests == [p \in DOMAIN pending |-> pending[p].tests]
PendingBytes == [p \in DOMAIN pending |-> pending[p].bytes]

Balanced ==
  eavStatus = "reading" =>
    /\ IsFiniteSet(DOMAIN pending) /\ IsFiniteSet(metadata_keys)
    /\ tests = SumFunction(PendingTests)
    /\ bytes = Reserve + MetadataCharge * Cardinality(metadata_keys) + SumFunction(PendingBytes)

\* What is charged to parts is never negative.
LEMMA ChargesNatural ==
  ASSUME EInv, Balanced, eavStatus = "reading"
  PROVE  Natural(PendingTests) /\ Natural(PendingBytes)
BY DEF EInv, Charged, Balanced, Natural, PendingTests, PendingBytes

\* A charge adds the same to the part and to the totals, whether the part is new or not.
LEMMA RetainBalances ==
  ASSUME EInv, Balanced, eavStatus = "reading", NEW pos, NEW count \in Nat, retain(pos, count)
  PROVE  Balanced'
<1> DEFINE charge == count * TestCharge + PartFee(pos)
           entry == Get(pending, pos, [tests |-> 0, bytes |-> 0])
           put == [tests |-> entry.tests + count, bytes |-> entry.bytes + charge]
<1>1. /\ pending' = Put(pending, pos, put) /\ tests' = tests + count /\ bytes' = bytes + charge
      /\ metadata_keys' = metadata_keys
  BY DEF retain
<1>2. charge \in Nat /\ entry.tests \in Nat /\ entry.bytes \in Nat
  BY FeeType DEF TestCharge, EInv, Charged, Get
<1>3. Get(PendingTests, pos, 0) = entry.tests /\ Get(PendingBytes, pos, 0) = entry.bytes
  BY DEF Get, PendingTests, PendingBytes
<1> PICK fee : fee = charge
  OBVIOUS
<1> PICK held : held = entry
  OBVIOUS
<1>4. put.tests = held.tests + count /\ put.bytes = held.bytes + fee
  OBVIOUS
<1>5. PendingTests' = Put(PendingTests, pos, held.tests + count)
  BY <1>1, <1>4 DEF PendingTests, Put
<1>6. PendingBytes' = Put(PendingBytes, pos, held.bytes + fee)
  BY <1>1, <1>4 DEF PendingBytes, Put
<1>7. held.tests + count \in Nat /\ held.bytes + fee \in Nat
  BY <1>2
<1>8. SumFunction(PendingTests') + held.tests = SumFunction(PendingTests) + (held.tests + count)
  BY <1>3, <1>5, <1>7, ChargesNatural, SumPut
<1>9. SumFunction(PendingBytes') + held.bytes = SumFunction(PendingBytes) + (held.bytes + fee)
  BY <1>3, <1>6, <1>7, ChargesNatural, SumPut
<1>10. Natural(PendingTests') /\ Natural(PendingBytes')
  BY <1>5, <1>6, <1>7, ChargesNatural, SumPut
<1>11. /\ SumFunction(PendingTests) \in Nat /\ SumFunction(PendingBytes) \in Nat
       /\ SumFunction(PendingTests') \in Nat /\ SumFunction(PendingBytes') \in Nat
  BY <1>10, ChargesNatural, SumIsNat
<1>12. IsFiniteSet(DOMAIN pending')
  BY <1>10 DEF Natural, PendingTests
<1>13. Cardinality(metadata_keys) \in Nat
  BY FS_CardinalityType DEF Balanced
<1>14. tests' = SumFunction(PendingTests')
  BY <1>1, <1>2, <1>8, <1>11 DEF Balanced
<1>15. bytes' = Reserve + MetadataCharge * Cardinality(metadata_keys') + SumFunction(PendingBytes')
  BY <1>1, <1>2, <1>9, <1>11, <1>13 DEF Balanced, Reserve, MetadataCharge
<1> QED
  BY <1>1, <1>12, <1>14, <1>15 DEF Balanced

\* Metadata is charged for the keys that are new.
LEMMA MetadataBalances ==
  ASSUME EInv, Balanced, eavStatus = "reading", NEW keys, IsFiniteSet(keys), metadata(keys)
  PROVE  Balanced'
<1>1. IsFiniteSet(metadata_keys) /\ IsFiniteSet(NewKeys(keys))
  BY FS_Difference DEF Balanced, NewKeys
<1>2. metadata_keys' = metadata_keys \cup NewKeys(keys) /\ metadata_keys \cap NewKeys(keys) = {}
  BY DEF metadata, NewKeys
<1>3. /\ IsFiniteSet(metadata_keys')
      /\ Cardinality(metadata_keys') = Cardinality(metadata_keys) + Cardinality(NewKeys(keys))
  <2>1. Cardinality(metadata_keys \cap NewKeys(keys)) = 0
    BY <1>2, FS_EmptySet
  <2>2. Cardinality(metadata_keys) \in Nat /\ Cardinality(NewKeys(keys)) \in Nat
    BY <1>1, FS_CardinalityType
  <2>3. /\ IsFiniteSet(metadata_keys \cup NewKeys(keys))
        /\ Cardinality(metadata_keys \cup NewKeys(keys))
             = Cardinality(metadata_keys) + Cardinality(NewKeys(keys))
                 - Cardinality(metadata_keys \cap NewKeys(keys))
    BY <1>1, FS_Union
  <2>4. Cardinality(metadata_keys \cup NewKeys(keys))
          = Cardinality(metadata_keys) + Cardinality(NewKeys(keys))
    BY <2>1, <2>2, <2>3
  <2> QED
    BY <1>2, <2>3, <2>4, Zenon
<1>4. Cardinality(metadata_keys) \in Nat /\ Cardinality(NewKeys(keys)) \in Nat
  BY <1>1, FS_CardinalityType
<1>5. PendingTests' = PendingTests /\ PendingBytes' = PendingBytes /\ tests' = tests
  BY DEF metadata, PendingTests, PendingBytes
<1>6. bytes' = bytes + MetadataCharge * Cardinality(NewKeys(keys))
  BY DEF metadata
<1>7. SumFunction(PendingBytes) \in Nat
  BY ChargesNatural, SumIsNat
<1> QED
  BY <1>3, <1>4, <1>5, <1>6, <1>7 DEF Balanced, Reserve, MetadataCharge, metadata

\* PRR gives back what was charged to the part, and no more.
LEMMA PrrBalances ==
  ASSUME EInv, Balanced, eavStatus = "reading", NEW r, EavPrr(r)
  PROVE  Balanced'
<1> DEFINE pos == At(r)
           charge == Get(pending, pos, [tests |-> 0, bytes |-> 0])
<1>1. /\ pending' = Without(pending, pos)
      /\ tests' = tests - charge.tests /\ bytes' = bytes - charge.bytes
      /\ metadata_keys' = metadata_keys
  BY DEF EavPrr
<1>2. charge.tests \in Nat /\ charge.bytes \in Nat
  BY DEF EInv, Charged, Get
<1>3. Get(PendingTests, pos, 0) = charge.tests /\ Get(PendingBytes, pos, 0) = charge.bytes
  BY DEF Get, PendingTests, PendingBytes
<1>4. /\ PendingTests' = Without(PendingTests, pos)
      /\ PendingBytes' = Without(PendingBytes, pos)
  BY <1>1 DEF PendingTests, PendingBytes, Without
<1>5. /\ SumFunction(PendingTests') + charge.tests = SumFunction(PendingTests)
      /\ SumFunction(PendingBytes') + charge.bytes = SumFunction(PendingBytes)
      /\ Natural(PendingTests') /\ Natural(PendingBytes')
  BY <1>3, <1>4, ChargesNatural, SumWithout
<1>6. /\ SumFunction(PendingTests) \in Nat /\ SumFunction(PendingBytes) \in Nat
      /\ SumFunction(PendingTests') \in Nat /\ SumFunction(PendingBytes') \in Nat
  BY <1>5, ChargesNatural, SumIsNat
<1>7. IsFiniteSet(DOMAIN pending')
  BY <1>5 DEF Natural, PendingTests
<1>8. Cardinality(metadata_keys) \in Nat
  BY FS_CardinalityType DEF Balanced
<1>9. tests' = SumFunction(PendingTests')
  BY <1>1, <1>2, <1>5, <1>6 DEF Balanced
<1> PICK given : given = charge.bytes
  OBVIOUS
<1>a. /\ given \in Nat /\ bytes' = bytes - given
      /\ SumFunction(PendingBytes') + given = SumFunction(PendingBytes)
  BY <1>1, <1>2, <1>5
<1>b. Cardinality(metadata_keys') = Cardinality(metadata_keys)
  BY <1>1, Zenon
<1> HIDE DEF charge
<1>10. bytes' = Reserve + MetadataCharge * Cardinality(metadata_keys') + SumFunction(PendingBytes')
  BY <1>6, <1>8, <1>a, <1>b DEF Balanced, Reserve, MetadataCharge
<1> QED
  BY <1>1, <1>7, <1>9, <1>10 DEF Balanced

\* An error of any kind leaves nothing to be summed.
LEMMA FailureBalances ==
  ASSUME eavStatus' # "reading"
  PROVE  Balanced'
BY DEF Balanced

LEMMA ReadBalances ==
  ASSUME EInv, Balanced, eavStatus = "reading", eavStatus' = "reading",
         NEW r \in Record, EavRead(r)
  PROVE  Balanced'
<1>1. CASE EavMir(r) \/ EavMrr(r) \/ EavWrr(r) \/ EavMalformed(r)
  <2>1. UNCHANGED charges
    BY <1>1 DEF EavMir, EavMrr, EavWrr, EavMalformed, EavRefuse, EavFail
  <2> QED
    BY <2>1 DEF Balanced, charges, PendingTests, PendingBytes
<1>2. CASE EavSdr(r)
  <2> DEFINE keys == {<<1, r.head, s>> : s \in r.sites}
  <2>1. metadata(keys)
    BY <1>2 DEF EavSdr, EavRefuse, EavFail
  <2>2. IsFiniteSet(keys)
    <3>1. r \in SiteRecord
      BY <1>2 DEF EavSdr, Record, RunRecord, TestRecord, WaferRecord, PartRecord,
                  MalformedRecord, RunKind, PartKind, TestKind
    <3>2. IsFiniteSet(r.sites)
      BY <3>1, SiteAssumption, FS_Subset DEF SiteRecord
    <3> DEFINE f == [s \in r.sites |-> <<1, r.head, s>>]
    <3>3. f \in Surjection(r.sites, keys)
      BY DEF Surjection
    <3> QED
      BY <3>2, <3>3, FS_Surjection, Zenon
  <2> HIDE DEF keys
  <2> QED
    BY <2>1, <2>2, MetadataBalances
<1>3. CASE EavWir(r)
  <2> DEFINE keys == {<<0, r.head, r.group>>}
  <2>1. metadata(keys)
    BY <1>3 DEF EavWir, EavRefuse, EavFail
  <2>2. IsFiniteSet(keys)
    BY FS_Singleton
  <2> HIDE DEF keys
  <2> QED
    BY <2>1, <2>2, MetadataBalances
<1>4. CASE EavPir(r)
  BY <1>4, RetainBalances DEF EavPir, EavRefuse, EavFail
<1>5. CASE EavTest(r)
  <2>1. r.kind \in TestKind /\ r.carried = r.declared /\ retain(At(r), Reserved(r))
    BY <1>5 DEF EavTest, EavRefuse, EavFail
  <2> QED
    BY <2>1, ReservedIsRows, RetainBalances
<1>6. CASE EavPrr(r)
  BY <1>6, PrrBalances
<1> QED
  BY <1>1, <1>2, <1>3, <1>4, <1>5, <1>6 DEF EavRead, EavStopped

LEMMA StepBalances == EInv /\ Balanced /\ [EavNext]_eavVars => Balanced'
<1> SUFFICES ASSUME EInv, Balanced, [EavNext]_eavVars, eavStatus' = "reading" PROVE Balanced'
  BY FailureBalances
<1>1. CASE UNCHANGED eavVars
  BY <1>1 DEF Balanced, PendingTests, PendingBytes, eavVars, charges
<1>2. ASSUME NEW r \in Record, EavRead(r) PROVE Balanced'
  <2>1. eavStatus = "reading"
    BY <1>2 DEF EavRead, EavStopped, eavVars
  <2> QED
    BY <1>2, <2>1, ReadBalances
<1>3. CASE EavEnd \/ EavCut
  BY <1>1, <1>3 DEF EavEnd, EavCut, EavStopped, EavFail
<1> QED
  BY <1>1, <1>2, <1>3 DEF EavNext

LEMMA InitBalances == EavInit => Balanced
<1> SUFFICES ASSUME EavInit PROVE Balanced
  OBVIOUS
<1>1. DOMAIN PendingTests = {} /\ DOMAIN PendingBytes = {} /\ DOMAIN pending = {}
  BY DEF EavInit, EmptyMap, PendingTests, PendingBytes
<1>2. SumFunction(PendingTests) = 0 /\ SumFunction(PendingBytes) = 0
  BY <1>1, SumOfEmpty
<1>3. IsFiniteSet({}) /\ Cardinality({}) = 0
  BY FS_EmptySet
<1> QED
  BY <1>1, <1>2, <1>3 DEF Balanced, EavInit, Reserve, MetadataCharge

\* Over any file and within any limits, the totals of BoundedRecordBatchIter are the sums
\* of what the parts it holds and the metadata were charged, and stay within the limits.
THEOREM TotalsBalance == Spec => []ChargesBalance
<1>1. EInv /\ Balanced => ChargesBalance
  BY DEF EInv, Limited, Balanced, ChargesBalance, PendingTests, PendingBytes
<1>2. EavSpec => []Balanced
  BY EavInvariant, InitBalances, StepBalances, PTL DEF EavSpec
<1> QED
  BY <1>1, <1>2, ConverterReads, InvariantOfConverter, PTL

-----------------------------------------------------------------------------
(***************************************************************************)
(* Records and wafer maps.                                                 *)
(***************************************************************************)
Position == HeadNum \X SiteNum

LEMMA RecordTypes ==
  ASSUME NEW r \in Record
  PROVE  /\ r.kind \in Kind \cup {"Malformed"}
         /\ r.kind \in PartKind \cup TestKind => At(r) \in Position
         /\ r.kind \in {"WIR", "WRR"} => GroupOf(r) \in GroupKey /\ r.wafer \in WaferOrNone
         /\ r.kind \in TestKind => RowsOf(r) \in Nat \ {0}
         /\ r.kind \notin TestKind => RowsOf(r) = 0
<1>1. CASE r \in RunRecord \cup SiteRecord \cup MalformedRecord
  BY <1>1 DEF RunRecord, SiteRecord, MalformedRecord, Kind, RunKind, PartKind, TestKind, RowsOf
<1>2. CASE r \in WaferRecord
  BY <1>2 DEF WaferRecord, Kind, PartKind, TestKind, GroupOf, GroupKey, RowsOf
<1>3. CASE r \in PartRecord
  BY <1>3 DEF PartRecord, Kind, PartKind, TestKind, At, Position, RowsOf
<1>4. CASE r \in TestRecord
  <2>1. r.kind \in TestKind /\ At(r) \in Position
    BY <1>4 DEF TestRecord, At, Position
  <2>2. RowsOf(r) \in Nat \ {0}
    BY <2>1, TestFields DEF RowsOf
  <2> QED
    BY <2>1, <2>2 DEF Kind, TestKind
<1> QED
  BY <1>1, <1>2, <1>3, <1>4 DEF Record

\* What a wafer map answers is in it, or is the answer for none.
LEMMA WaferAtType ==
  ASSUME NEW map, NEW open, NEW pos, NEW none, NEW S,
         \A k \in DOMAIN open : open[k] \in S, none \in S
  PROVE  WaferAt(map, open, pos, none) \in S
<1> DEFINE keys == OpenOn(open, pos[1])
           only == CHOOSE k \in keys : TRUE
<1>1. Cardinality(keys) = 1 => keys # {}
  BY FS_EmptySet
<1>2. keys # {} => only \in DOMAIN open
  BY DEF OpenOn
<1> HIDE DEF keys, only
<1> QED
  BY <1>1, <1>2 DEF WaferAt, keys, only
-----------------------------------------------------------------------------
(***************************************************************************)
(* NoRowLost.  The batches and the open parts are typed, whatever became   *)
(* of the conversion; a test adds its rows to its part and to `delivered`, *)
(* PRR moves them to a batch, and only the end of a file without open      *)
(* parts finishes it.                                                      *)
(***************************************************************************)
Part == [part_seq : Nat, wafer_id : WaferOrNone, tests : Nat]
Batch == [position : Position, part_sequence : Nat, wafer_id : WaferOrNone, rows : Nat,
          origins : Seq(Nat \X Nat)]

EavTypes ==
  /\ \A k \in DOMAIN wafer_ids : wafer_ids[k] \in WaferOrNone
  /\ part_seq \in Nat
  /\ \A p \in DOMAIN active_parts : active_parts[p] \in Part
  /\ batches \in Seq(Batch)

LEMMA NewPartType ==
  ASSUME EavTypes, NEW pos
  PROVE  NewPart(pos) \in Part
<1>1. wafer_for(pos) \in WaferOrNone
  <2>1. NoWafer \in WaferOrNone /\ \A k \in DOMAIN wafer_ids : wafer_ids[k] \in WaferOrNone
    BY DEF EavTypes, WaferOrNone
  <2> QED
    BY <2>1, WaferAtType, Zenon DEF wafer_for
<1> QED
  BY <1>1 DEF NewPart, Part, EavTypes

LEMMA EmitType ==
  ASSUME EavTypes, NEW batch \in Batch
  PROVE  /\ Emit(batch) \in Seq(Batch)
         /\ batch.rows > 0 => /\ Len(Emit(batch)) = Len(batches) + 1
                              /\ Emit(batch)[Len(batches) + 1] = batch
                              /\ \A i \in 1 .. Len(batches) : Emit(batch)[i] = batches[i]
BY AppendProperties DEF Emit, EavTypes

\* The batch that a PRR gives.
LEMMA PrrBatch ==
  ASSUME EInv, EavTypes, eavStatus = "reading", NEW r \in Record, EavPrr(r)
  PROVE  \E batch \in Batch :
           /\ batch.rows = Get([p \in DOMAIN active_parts |-> active_parts[p].tests], At(r), 0)
           /\ batch.position = At(r)
           /\ batch.part_sequence = Get(active_parts, At(r), NewPart(At(r))).part_seq
           /\ batch.wafer_id = Get(active_parts, At(r), NewPart(At(r))).wafer_id
           /\ batch.origins = Get(provenance, At(r), <<>>)
           /\ batches' = Emit(batch)
<1> DEFINE pos == At(r)
           part == Get(active_parts, pos, NewPart(pos))
<1>1. part \in Part
  BY NewPartType DEF Get, EavTypes
<1>2. pos \in Position
  BY RecordTypes DEF EavPrr, PartKind
<1>3. Get(provenance, pos, <<>>) \in Seq(Nat \X Nat)
  BY DEF EInv, Charged, Get
<1>4. part.tests = Get([p \in DOMAIN active_parts |-> active_parts[p].tests], pos, 0)
  BY DEF Get, NewPart
<1>5. part.part_seq \in Nat /\ part.wafer_id \in WaferOrNone /\ part.tests \in Nat
  BY <1>1 DEF Part
<1>6. PICK batch : batch = [position |-> pos, part_sequence |-> part.part_seq,
                            wafer_id |-> part.wafer_id, rows |-> part.tests,
                            origins |-> Get(provenance, pos, <<>>)]
  OBVIOUS
<1>7. batches' = Emit(batch)
  BY <1>6 DEF EavPrr
<1> HIDE DEF pos, part
<1>8. batch \in Batch
  BY <1>2, <1>3, <1>5, <1>6 DEF Batch
<1>9. /\ batch.rows = part.tests /\ batch.position = pos /\ batch.part_sequence = part.part_seq
      /\ batch.wafer_id = part.wafer_id /\ batch.origins = Get(provenance, pos, <<>>)
  BY <1>6
<1> QED
  BY <1>4, <1>7, <1>8, <1>9 DEF pos, part

LEMMA ReadTypes ==
  ASSUME EInv, EavTypes, eavStatus = "reading", NEW r \in Record, EavRead(r)
  PROVE  EavTypes'
<1> USE DEF EavTypes
<1>1. CASE \E reason : EavRefuse(reason)
  BY <1>1 DEF EavRefuse, EavFail, Discard, EmptyMap
<1>2. CASE eavStatus' = "reading" /\ (EavMir(r) \/ EavMrr(r) \/ EavMalformed(r))
  BY <1>2 DEF EavMir, EavMrr, EavMalformed, context, EavRefuse, EavFail
<1>3. CASE eavStatus' = "reading" /\ EavSdr(r)
  BY <1>3 DEF EavSdr, EavRefuse, EavFail
<1>4. CASE eavStatus' = "reading" /\ EavWir(r)
  <2>1. r.wafer \in WaferOrNone
    BY <1>4, RecordTypes DEF EavWir
  <2> QED
    BY <1>4, <2>1 DEF EavWir, EavRefuse, EavFail, Put
<1>5. CASE EavWrr(r)
  BY <1>5 DEF EavWrr, Without
<1>6. CASE eavStatus' = "reading" /\ EavPir(r)
  <2>1. /\ active_parts' = Put(active_parts, At(r), NewPart(At(r)))
        /\ part_seq' = part_seq + 1 /\ UNCHANGED <<wafer_ids, batches>>
    BY <1>6 DEF EavPir, EavRefuse, EavFail
  <2> QED
    BY <2>1, NewPartType DEF Put
<1>7. CASE eavStatus' = "reading" /\ EavTest(r)
  <2> DEFINE pos == At(r)
             part == Get(active_parts, pos, NewPart(pos))
  <2>1. /\ active_parts' = Put(active_parts, pos, [part EXCEPT !.tests = @ + RowsOf(r)])
        /\ part_seq' \in {part_seq, part_seq + 1} /\ UNCHANGED <<wafer_ids, batches>>
        /\ r.kind \in TestKind
    BY <1>7 DEF EavTest, EavRefuse, EavFail
  <2>2. part \in Part
    BY NewPartType DEF Get
  <2>3. RowsOf(r) \in Nat
    BY <2>1, RecordTypes
  <2>4. [part EXCEPT !.tests = @ + RowsOf(r)] \in Part
    BY <2>2, <2>3 DEF Part
  <2> HIDE DEF part
  <2> QED
    BY <2>1, <2>4 DEF Put
<1>8. CASE EavPrr(r)
  <2>1. batches' \in Seq(Batch)
    BY <1>8, PrrBatch, EmitType
  <2>2. part_seq' \in {part_seq, part_seq + 1}
    BY <1>8 DEF EavPrr
  <2>3. /\ active_parts' = Without(active_parts, At(r))
        /\ UNCHANGED wafer_ids
    BY <1>8 DEF EavPrr
  <2> QED
    BY <2>1, <2>2, <2>3 DEF Without
<1>9. eavStatus' = "reading" \/ (\E reason : EavRefuse(reason))
  BY DEF EavRead, EavStopped, EavMir, EavMrr, EavSdr, EavWir, EavWrr, EavPir, EavTest, EavPrr,
         EavMalformed, EavAccept
<1> QED
  BY <1>1, <1>2, <1>3, <1>4, <1>5, <1>6, <1>7, <1>8, <1>9 DEF EavRead, EavStopped

LEMMA StepTypes == EInv /\ EavTypes /\ [EavNext]_eavVars => EavTypes'
<1> SUFFICES ASSUME EInv, EavTypes, [EavNext]_eavVars PROVE EavTypes'
  OBVIOUS
<1>1. CASE UNCHANGED eavVars
  BY <1>1 DEF EavTypes, eavVars, context
<1>2. ASSUME NEW r \in Record, EavRead(r) PROVE EavTypes'
  BY <1>1, <1>2, ReadTypes DEF EavRead, EavStopped
<1>3. CASE EavEnd \/ EavCut
  BY <1>1, <1>3 DEF EavTypes, EavEnd, EavCut, EavStopped, EavFail, Discard, EmptyMap
<1> QED
  BY <1>1, <1>2, <1>3 DEF EavNext

LEMMA TypesOfConverter == EavSpec => []EavTypes
<1>1. EavInit => EavTypes
  BY DEF EavInit, EavTypes, EmptyMap
<1> QED
  BY <1>1, EavInvariant, StepTypes, PTL DEF EavSpec

HeldRows == [p \in DOMAIN active_parts |-> active_parts[p].tests]
WrittenRows == [i \in DOMAIN batches |-> batches[i].rows]

RowsKept ==
  /\ delivered \in Nat
  /\ eavStatus \in {"reading", "finished"} =>
       /\ IsFiniteSet(DOMAIN active_parts)
       /\ SumFunction(WrittenRows) + SumFunction(HeldRows) = delivered
  /\ eavStatus = "finished" => ended

LEMMA RowsNatural ==
  ASSUME EavTypes, IsFiniteSet(DOMAIN active_parts)
  PROVE  /\ Natural(HeldRows) /\ Natural(WrittenRows)
         /\ SumFunction(HeldRows) \in Nat /\ SumFunction(WrittenRows) \in Nat
<1>1. Natural(HeldRows)
  BY DEF EavTypes, Natural, HeldRows, Part
<1>2. Natural(WrittenRows)
  <2>1. IsFiniteSet(1 .. Len(batches))
    BY FS_Interval DEF EavTypes
  <2>2. DOMAIN batches = 1 .. Len(batches) /\ \A i \in 1 .. Len(batches) : batches[i] \in Batch
    BY DEF EavTypes
  <2> QED
    BY <2>1, <2>2 DEF Natural, WrittenRows, Batch
<1> QED
  BY <1>1, <1>2, SumIsNat

\* Rows of a part without rows are no batch; the rows of any other are one.
LEMMA EmitAddsRows ==
  ASSUME EavTypes, IsFiniteSet(DOMAIN active_parts), NEW batch \in Batch, batches' = Emit(batch)
  PROVE  SumFunction(WrittenRows') = SumFunction(WrittenRows) + batch.rows
<1>1. batch.rows \in Nat
  BY DEF Batch
<1>2. Natural(WrittenRows) /\ SumFunction(WrittenRows) \in Nat
  BY RowsNatural
<1>3. CASE batch.rows = 0
  <2>1. batches' = batches
    BY <1>3 DEF Emit
  <2>2. WrittenRows' = WrittenRows
    BY <2>1 DEF WrittenRows
  <2> QED
    BY <1>2, <1>3, <2>2
<1>4. CASE batch.rows > 0
  <2> DEFINE n == Len(batches) + 1
  <2>1. /\ batches' \in Seq(Batch) /\ Len(batches') = n /\ batches'[n] = batch
        /\ \A i \in 1 .. Len(batches) : batches'[i] = batches[i]
    BY <1>4, EmitType
  <2>2. DOMAIN batches = 1 .. Len(batches) /\ DOMAIN batches' = 1 .. n /\ Len(batches) \in Nat
    BY <2>1 DEF EavTypes
  <2>3. 1 .. n = 1 .. Len(batches) \cup {n} /\ n \notin 1 .. Len(batches)
    BY <2>2
  <2> PICK last : last = n
    OBVIOUS
  <2>4. WrittenRows' = Put(WrittenRows, last, batch.rows)
    BY <2>1, <2>2, <2>3 DEF WrittenRows, Put
  <2>5. SumFunction(WrittenRows') + Get(WrittenRows, last, 0) = SumFunction(WrittenRows) + batch.rows
    BY <1>1, <1>2, <2>4, SumPut
  <2>6. Natural(WrittenRows')
    BY <1>1, <1>2, <2>4, SumPut
  <2>7. Get(WrittenRows, last, 0) = 0
    BY <2>2, <2>3 DEF Get, WrittenRows
  <2>8. SumFunction(WrittenRows') \in Nat
    BY <2>6, SumIsNat
  <2> QED
    BY <1>1, <1>2, <2>5, <2>7, <2>8
<1> QED
  BY <1>1, <1>3, <1>4

LEMMA ReadKeepsRows ==
  ASSUME EInv, EavTypes, RowsKept, eavStatus = "reading", eavStatus' = "reading",
         NEW r \in Record, EavRead(r), delivered' = delivered + RowsOf(r)
  PROVE  RowsKept'
<1>1. RowsOf(r) \in Nat /\ delivered' \in Nat
  BY RecordTypes DEF RowsKept
<1> USE RowsNatural DEF RowsKept
<1>2. CASE r.kind \notin PartKind \cup TestKind
  <2>1. UNCHANGED <<active_parts, batches>>
    BY <1>2 DEF EavRead, EavStopped, EavMir, EavMrr, EavSdr, EavWir, EavWrr, EavPir, EavTest, EavPrr,
           EavMalformed, EavRefuse, EavFail, context, PartKind, eavVars
  <2>2. HeldRows' = HeldRows /\ WrittenRows' = WrittenRows
    BY <2>1 DEF HeldRows, WrittenRows
  <2>3. RowsOf(r) = 0
    BY <1>2, RecordTypes
  <2> QED
    BY <1>1, <2>1, <2>2, <2>3
<1>3. CASE EavPir(r)
  <2>1. /\ At(r) \notin DOMAIN active_parts
        /\ active_parts' = Put(active_parts, At(r), NewPart(At(r))) /\ UNCHANGED batches
        /\ RowsOf(r) = 0
    BY <1>3 DEF EavPir, EavRefuse, EavFail, EInv, Charged, RowsOf, TestKind
  <2>2. HeldRows' = Put(HeldRows, At(r), 0) /\ WrittenRows' = WrittenRows
    BY <2>1 DEF HeldRows, WrittenRows, Put, NewPart
  <2>3. /\ Natural(HeldRows')
        /\ SumFunction(HeldRows') + Get(HeldRows, At(r), 0) = SumFunction(HeldRows) + 0
    BY <2>2, SumPut
  <2>4. Get(HeldRows, At(r), 0) = 0
    BY <2>1 DEF Get, HeldRows
  <2>5. SumFunction(HeldRows') \in Nat /\ IsFiniteSet(DOMAIN active_parts')
    BY <2>3, SumIsNat DEF Natural, HeldRows
  <2> QED
    BY <1>1, <2>1, <2>2, <2>3, <2>4, <2>5
<1>4. CASE EavTest(r)
  <2> DEFINE pos == At(r)
             part == Get(active_parts, pos, NewPart(pos))
  <2>1. active_parts' = Put(active_parts, pos, [part EXCEPT !.tests = @ + RowsOf(r)])
        /\ UNCHANGED batches
    BY <1>4 DEF EavTest, EavRefuse, EavFail
  <2>2. part \in Part /\ part.tests = Get(HeldRows, pos, 0)
    BY NewPartType DEF Get, HeldRows, NewPart, EavTypes
  <2>3. [part EXCEPT !.tests = @ + RowsOf(r)].tests = Get(HeldRows, pos, 0) + RowsOf(r)
    BY <2>2 DEF Part
  <2> PICK had : had = Get(HeldRows, pos, 0)
    OBVIOUS
  <2>4. HeldRows' = Put(HeldRows, pos, had + RowsOf(r)) /\ WrittenRows' = WrittenRows
    <3> HIDE DEF part
    <3>1. \A p : p \in DOMAIN active_parts' <=> p \in DOMAIN active_parts \cup {pos}
      BY <2>1 DEF Put
    <3>2. active_parts'[pos].tests = had + RowsOf(r)
      BY <2>1, <2>3 DEF Put
    <3>3. \A p \in DOMAIN active_parts : p # pos => active_parts'[p] = active_parts[p]
      BY <2>1 DEF Put
    <3> HIDE DEF pos
    <3> QED
      BY <2>1, <3>1, <3>2, <3>3 DEF HeldRows, WrittenRows, Put
  <2>5. had \in Nat /\ had + RowsOf(r) \in Nat
    BY <1>1, <2>2 DEF Part
  <2>6. /\ Natural(HeldRows')
        /\ SumFunction(HeldRows') + had = SumFunction(HeldRows) + (had + RowsOf(r))
    BY <2>4, <2>5, SumPut
  <2>7. SumFunction(HeldRows') \in Nat /\ IsFiniteSet(DOMAIN active_parts')
    BY <2>6, SumIsNat DEF Natural, HeldRows
  <2>8. SumFunction(HeldRows) \in Nat /\ SumFunction(WrittenRows) \in Nat
    OBVIOUS
  <2>9. SumFunction(HeldRows') = SumFunction(HeldRows) + RowsOf(r)
    <3> HIDE DEF RowsKept, part, pos
    <3> QED
      BY <1>1, <2>5, <2>6, <2>7, <2>8
  <2>10. SumFunction(WrittenRows') = SumFunction(WrittenRows)
    BY <2>4
  <2>11. SumFunction(WrittenRows') + SumFunction(HeldRows') = delivered'
    <3> HIDE DEF part, pos
    <3> QED
      BY <1>1, <2>8, <2>9, <2>10
  <2> QED
    BY <1>1, <2>7, <2>11
<1>5. CASE EavPrr(r)
  <2>1. PICK batch \in Batch : batch.rows = Get(HeldRows, At(r), 0) /\ batches' = Emit(batch)
    BY <1>5, PrrBatch DEF HeldRows
  <2>2. active_parts' = Without(active_parts, At(r)) /\ RowsOf(r) = 0
    BY <1>5 DEF EavPrr, RowsOf, TestKind
  <2>3. HeldRows' = Without(HeldRows, At(r))
    BY <2>2 DEF HeldRows, Without
  <2>4. /\ Natural(HeldRows')
        /\ SumFunction(HeldRows') + Get(HeldRows, At(r), 0) = SumFunction(HeldRows)
    BY <2>3, SumWithout
  <2>5. SumFunction(HeldRows') \in Nat /\ IsFiniteSet(DOMAIN active_parts')
    BY <2>4, SumIsNat DEF Natural, HeldRows
  <2>6. SumFunction(WrittenRows') = SumFunction(WrittenRows) + batch.rows
    BY <2>1, EmitAddsRows
  <2>7. batch.rows \in Nat
    BY DEF Batch
  <2> QED
    BY <1>1, <2>1, <2>2, <2>4, <2>5, <2>6, <2>7
<1>6. r.kind \in PartKind \cup TestKind => EavPir(r) \/ EavTest(r) \/ EavPrr(r)
  BY DEF EavRead, EavStopped, EavMir, EavMrr, EavSdr, EavWir, EavWrr, EavMalformed, PartKind, TestKind
<1> QED
  BY <1>2, <1>3, <1>4, <1>5, <1>6

LEMMA StepKeepsRows == EInv /\ EavTypes /\ RowsKept /\ [Next]_vars => RowsKept'
<1> SUFFICES ASSUME EInv, EavTypes, RowsKept, [Next]_vars PROVE RowsKept'
  OBVIOUS
<1> USE DEF RowsKept
<1>1. CASE UNCHANGED vars
  BY <1>1 DEF vars, eavVars, context, HeldRows, WrittenRows
<1>2. ASSUME NEW r \in Alphabet, Deliver(r) PROVE RowsKept'
  <2>1. /\ r \in Record /\ ~ended /\ ended' = ended
        /\ delivered' = delivered + RowsOf(r) /\ EavRead(r)
    BY <1>2, AlphabetAssumption DEF Deliver
  <2>2. delivered' \in Nat
    BY <2>1, RecordTypes
  <2>3. eavStatus' # "finished"
    BY <2>1 DEF EavRead, EavStopped, eavVars, EavMir, EavMrr, EavSdr, EavWir, EavWrr, EavPir, EavTest,
           EavPrr, EavMalformed, EavRefuse, EavFail, EavAccept
  <2>4. CASE eavStatus' = "reading"
    <3>1. eavStatus = "reading"
      BY <2>1, <2>4 DEF EavRead, EavStopped, eavVars
    <3> QED
      BY <2>1, <2>4, <3>1, ReadKeepsRows
  <2> QED
    BY <2>2, <2>3, <2>4
<1>3. CASE EndOfFile
  <2>1. /\ ended' /\ delivered' = delivered /\ EavEnd /\ ~ended
    BY <1>3 DEF EndOfFile
  <2>2. eavStatus' \in {"reading", "finished"} =>
          /\ eavStatus = "reading" /\ DOMAIN active_parts = {} /\ DOMAIN active_parts' = {}
          /\ UNCHANGED batches
    BY <2>1 DEF EavEnd, EavStopped, EavFail, Discard, eavVars, EInv, Charged, EmptyMap
  <2>3. eavStatus' \in {"reading", "finished"} =>
          SumFunction(HeldRows) = 0 /\ SumFunction(HeldRows') = 0 /\ WrittenRows' = WrittenRows
    <3>1. DOMAIN HeldRows = DOMAIN active_parts /\ DOMAIN HeldRows' = DOMAIN active_parts'
      BY DEF HeldRows
    <3>2. DOMAIN active_parts = {} => SumFunction(HeldRows) = 0
      BY <3>1, SumOfEmpty
    <3>3. DOMAIN active_parts' = {} => SumFunction(HeldRows') = 0
      BY <3>1, SumOfEmpty
    <3> QED
      BY <2>2, <3>2, <3>3 DEF WrittenRows
  <2>4. IsFiniteSet({})
    BY FS_EmptySet
  <2> QED
    BY <2>1, <2>2, <2>3, <2>4
<1>4. CASE CutOff
  <2>1. ended' /\ delivered' = delivered /\ EavCut /\ ~ended
    BY <1>4 DEF CutOff
  <2>2. eavStatus' \notin {"reading", "finished"}
    BY <2>1 DEF EavCut, EavStopped, EavFail, eavVars
  <2> QED
    BY <2>1, <2>2
<1> QED
  BY <1>1, <1>2, <1>3, <1>4 DEF Next

LEMMA InitKeepsRows == Init => RowsKept
<1> SUFFICES ASSUME Init PROVE RowsKept
  OBVIOUS
<1>1. /\ active_parts = EmptyMap /\ batches = <<>> /\ delivered = 0 /\ eavStatus = "reading"
  BY DEF Init, EavInit
<1>2. DOMAIN active_parts = {} /\ DOMAIN HeldRows = {} /\ DOMAIN WrittenRows = {}
  BY <1>1 DEF HeldRows, WrittenRows, EmptyMap
<1>3. SumFunction(HeldRows) = 0 /\ SumFunction(WrittenRows) = 0
  BY <1>2, SumOfEmpty
<1>4. IsFiniteSet({})
  BY FS_EmptySet
<1> QED
  BY <1>1, <1>2, <1>3, <1>4 DEF RowsKept

LEMMA EveryRowKept == Spec => []RowsKept
BY InvariantOfConverter, TypesOfConverter, ConverterReads, InitKeepsRows, StepKeepsRows, PTL DEF Spec

\* Of every file the rows handed out and those pending are the test results read, and a
\* conversion that ends without an error handed out all of them.
THEOREM EveryRowWritten == Spec => []NoRowLost
<1>1. EInv /\ RowsKept => NoRowLost
  BY DEF RowsKept, NoRowLost, HeldRows, WrittenRows
<1> QED
  BY <1>1, EveryRowKept, InvariantOfConverter, PTL

-----------------------------------------------------------------------------
(***************************************************************************)
(* AttemptsAgree, between the readers that number an attempt where it      *)
(* opens.  NextNumbers and NextCount say what a record does to the numbers *)
(* of the open attempts and to the last one given; every reader that goes  *)
(* on does that, so readers that agreed before a record agree after it.    *)
(* The sanity report never stops, and does it when traceability goes on.   *)
(***************************************************************************)
NextNumbers(r, numbers, last) ==
  IF r.kind = "PRR" THEN Without(numbers, At(r))
  ELSE IF r.kind \in PartKind \cup TestKind /\ At(r) \notin DOMAIN numbers
       THEN Put(numbers, At(r), last + 1)
       ELSE numbers
NextCount(r, numbers, last) ==
  IF r.kind \in PartKind \cup TestKind /\ At(r) \notin DOMAIN numbers THEN last + 1 ELSE last

EavNumbers == [p \in DOMAIN active_parts |-> active_parts[p].part_seq]
ScanNumbers == [p \in DOMAIN active |-> active[p].id]
TraceNumbers == [p \in DOMAIN open_parts |-> open_parts[p].sequence]

LEMMA EavCounts ==
  ASSUME EInv, EavTypes, eavStatus' = "reading", NEW r \in Record, EavRead(r)
  PROVE  /\ eavStatus = "reading"
         /\ EavNumbers' = NextNumbers(r, EavNumbers, part_seq)
         /\ part_seq' = NextCount(r, EavNumbers, part_seq)
<1>1. eavStatus = "reading" /\ ~EavStopped
  BY DEF EavRead, EavStopped, eavVars
<1>2. DOMAIN EavNumbers = DOMAIN active_parts
  BY DEF EavNumbers
<1>3. CASE EavMir(r) \/ EavMrr(r) \/ EavSdr(r) \/ EavWir(r) \/ EavWrr(r) \/ EavMalformed(r)
  <2>1. UNCHANGED <<active_parts, part_seq>> /\ r.kind \notin PartKind \cup TestKind
    BY <1>3 DEF EavMir, EavMrr, EavSdr, EavWir, EavWrr, EavMalformed, EavRefuse, EavFail, context,
           PartKind, TestKind
  <2> QED
    BY <1>1, <2>1 DEF EavNumbers, NextNumbers, NextCount, PartKind
<1>4. CASE EavPir(r)
  <2>1. /\ At(r) \notin DOMAIN active_parts /\ part_seq' = part_seq + 1 /\ r.kind = "PIR"
        /\ active_parts' = Put(active_parts, At(r), NewPart(At(r)))
    BY <1>1, <1>4 DEF EavPir, EavRefuse, EavFail, EInv, Charged
  <2>2. EavNumbers' = Put(EavNumbers, At(r), part_seq + 1)
    BY <2>1 DEF EavNumbers, Put, NewPart
  <2> QED
    BY <1>1, <1>2, <2>1, <2>2 DEF NextNumbers, NextCount, PartKind
<1>5. CASE EavTest(r)
  <2> DEFINE pos == At(r)
             part == Get(active_parts, pos, NewPart(pos))
  <2>1. /\ active_parts' = Put(active_parts, pos, [part EXCEPT !.tests = @ + RowsOf(r)])
        /\ part_seq' = IF pos \in DOMAIN active_parts THEN part_seq ELSE part_seq + 1
        /\ r.kind \in TestKind
    BY <1>5 DEF EavTest, EavRefuse, EavFail
  <2>2. part \in Part
    BY NewPartType DEF Get, EavTypes
  <2>3. [part EXCEPT !.tests = @ + RowsOf(r)].part_seq = part.part_seq
    BY <2>2 DEF Part
  <2>4. part.part_seq = IF pos \in DOMAIN active_parts THEN EavNumbers[pos] ELSE part_seq + 1
    BY DEF Get, EavNumbers, NewPart
  <2> PICK number : number = part.part_seq
    OBVIOUS
  <2> HIDE DEF part
  <2>5. EavNumbers' = Put(EavNumbers, pos, number)
    BY <2>1, <2>3 DEF EavNumbers, Put
  <2>6. pos \in DOMAIN active_parts => Put(EavNumbers, pos, EavNumbers[pos]) = EavNumbers
    BY DEF EavNumbers, Put
  <2>7. EavNumbers' = IF pos \in DOMAIN active_parts THEN EavNumbers ELSE Put(EavNumbers, pos, part_seq + 1)
    BY <2>4, <2>5, <2>6
  <2>8. r.kind \in PartKind \cup TestKind /\ r.kind # "PRR"
    BY <2>1 DEF TestKind
  <2> QED
    BY <1>1, <1>2, <2>1, <2>7, <2>8 DEF NextNumbers, NextCount
<1>6. CASE EavPrr(r)
  <2>1. /\ active_parts' = Without(active_parts, At(r)) /\ r.kind = "PRR"
        /\ part_seq' = IF At(r) \in DOMAIN active_parts THEN part_seq ELSE part_seq + 1
    BY <1>6 DEF EavPrr
  <2>2. EavNumbers' = Without(EavNumbers, At(r))
    BY <2>1 DEF EavNumbers, Without
  <2> QED
    BY <1>1, <1>2, <2>1, <2>2 DEF NextNumbers, NextCount, PartKind
<1> QED
  BY <1>1, <1>3, <1>4, <1>5, <1>6 DEF EavRead

LEMMA ScanCounts ==
  ASSUME scanStatus' = "reading", NEW r \in Record, ScanRead(r)
  PROVE  /\ scanStatus = "reading"
         /\ ScanNumbers' = NextNumbers(r, ScanNumbers, next_id)
         /\ next_id' = NextCount(r, ScanNumbers, next_id)
<1>1. scanStatus = "reading" /\ ~ScanStopped
  BY DEF ScanRead, ScanStopped, scanVars
<1>2. DOMAIN ScanNumbers = DOMAIN active
  BY DEF ScanNumbers
<1>3. CASE ScanMir(r) \/ ScanMrr(r) \/ ScanSdr(r) \/ ScanWir(r) \/ ScanWrr(r) \/ ScanMalformed(r)
  <2>1. UNCHANGED <<active, next_id>> /\ r.kind \notin PartKind \cup TestKind
    BY <1>3 DEF ScanMir, ScanMrr, ScanSdr, ScanWir, ScanWrr, ScanMalformed, ScanFail, PartKind, TestKind
  <2> QED
    BY <1>1, <2>1 DEF ScanNumbers, NextNumbers, NextCount, PartKind
<1>4. CASE ScanSide(r)
  <2> DEFINE pos == At(r)
             attempt == Get(active, pos, [id |-> next_id + 1, run |-> run,
                                          slot |-> slot(SlotsFor(pos), pos)])
  <2>1. /\ r.kind \in PartKind \cup TestKind
        /\ ~(r.kind = "PIR" /\ pos \in DOMAIN active)
        /\ next_id' = IF pos \in DOMAIN active THEN next_id ELSE next_id + 1
        /\ active' = IF r.kind = "PRR" THEN Without(active, pos) ELSE Put(active, pos, attempt)
    BY <1>4, Zenon DEF ScanSide, ScanFail
  <2>2. attempt.id = IF pos \in DOMAIN active THEN ScanNumbers[pos] ELSE next_id + 1
    BY DEF Get, ScanNumbers
  <2> PICK number : number = attempt.id
    OBVIOUS
  <2> HIDE DEF attempt
  <2>3. ScanNumbers' = IF r.kind = "PRR" THEN Without(ScanNumbers, pos) ELSE Put(ScanNumbers, pos, number)
    BY <2>1 DEF ScanNumbers, Put, Without
  <2>4. pos \in DOMAIN active => Put(ScanNumbers, pos, ScanNumbers[pos]) = ScanNumbers
    BY DEF ScanNumbers, Put
  <2> QED
    BY <1>1, <1>2, <2>1, <2>2, <2>3, <2>4 DEF NextNumbers, NextCount
<1> QED
  BY <1>1, <1>3, <1>4 DEF ScanRead

LEMMA TraceCounts ==
  ASSUME traceStatus' = "reading", NEW r \in Record, TraceReadRecord(r)
  PROVE  /\ traceStatus = "reading"
         /\ TraceNumbers' = NextNumbers(r, TraceNumbers, sequence)
         /\ sequence' = NextCount(r, TraceNumbers, sequence)
<1>1. traceStatus = "reading" /\ ~TraceStopped
  BY DEF TraceReadRecord, TraceStopped, traceVars
<1>2. DOMAIN TraceNumbers = DOMAIN open_parts
  BY DEF TraceNumbers
<1>3. CASE TraceMir(r) \/ TraceMrr(r) \/ TraceSdr(r) \/ TraceWir(r) \/ TraceWrr(r) \/ TraceMalformed(r)
  <2>1. UNCHANGED <<open_parts, sequence>> /\ r.kind \notin PartKind \cup TestKind
    BY <1>3 DEF TraceMir, TraceMrr, TraceSdr, TraceWir, TraceWrr, TraceMalformed, TraceFail, PartKind, TestKind
  <2> QED
    BY <1>1, <2>1 DEF TraceNumbers, NextNumbers, NextCount, PartKind
<1>4. CASE TracePir(r)
  <2>1. /\ At(r) \notin DOMAIN open_parts /\ sequence' = sequence + 1 /\ r.kind = "PIR"
        /\ open_parts' = Put(open_parts, At(r), OpenPart(At(r)))
    BY <1>4 DEF TracePir, TraceFail
  <2>2. TraceNumbers' = Put(TraceNumbers, At(r), sequence + 1)
    BY <2>1 DEF TraceNumbers, Put, OpenPart
  <2> QED
    BY <1>1, <1>2, <2>1, <2>2 DEF NextNumbers, NextCount, PartKind
<1>5. CASE TraceTest(r)
  <2>1. At(r) \in DOMAIN open_parts /\ UNCHANGED <<open_parts, sequence>> /\ r.kind \in TestKind
    BY <1>5 DEF TraceTest, TraceFail, traceVars
  <2> QED
    BY <1>1, <1>2, <2>1 DEF TraceNumbers, NextNumbers, NextCount, TestKind
<1>6. CASE TracePrr(r)
  <2>1. /\ open_parts' = Without(open_parts, At(r)) /\ r.kind = "PRR"
        /\ sequence' = IF At(r) \in DOMAIN open_parts THEN sequence ELSE sequence + 1
    BY <1>6 DEF TracePrr, TraceFail
  <2>2. TraceNumbers' = Without(TraceNumbers, At(r))
    BY <2>1 DEF TraceNumbers, Without
  <2> QED
    BY <1>1, <1>2, <2>1, <2>2 DEF NextNumbers, NextCount, PartKind
<1> QED
  BY <1>1, <1>3, <1>4, <1>5, <1>6 DEF TraceReadRecord

Unit == [position : Position, wafer : WaferOrNone, closed : BOOLEAN]

SanityTypes ==
  /\ \A k \in DOMAIN wafer_map : wafer_map[k] \in WaferOrNone
  /\ units \in Seq(Unit)
  /\ \A p \in DOMAIN in_progress : in_progress[p] \in 1 .. Len(units)

LEMMA NewUnitType ==
  ASSUME SanityTypes, NEW pos \in Position, NEW closed \in BOOLEAN
  PROVE  NewUnit(pos, closed) \in Unit
<1>1. UnitWafer(pos) \in WaferOrNone
  BY DEF SanityTypes, UnitWafer, Get, WaferOrNone
<1> QED
  BY <1>1 DEF NewUnit, Unit

\* What a PIR and a PRR do to the list of units.
LEMMA UnitAppended ==
  ASSUME SanityTypes, NEW pos \in Position, NEW closed \in BOOLEAN
  PROVE  /\ Append(units, NewUnit(pos, closed)) \in Seq(Unit)
         /\ Len(Append(units, NewUnit(pos, closed))) = Len(units) + 1
  BY NewUnitType, AppendProperties DEF SanityTypes

LEMMA UnitClosed ==
  ASSUME SanityTypes, NEW i \in 1 .. Len(units)
  PROVE  /\ [units EXCEPT ![i].closed = TRUE] \in Seq(Unit)
         /\ Len([units EXCEPT ![i].closed = TRUE]) = Len(units)
         /\ \A j \in 1 .. Len(units) : [units EXCEPT ![i].closed = TRUE][j].wafer = units[j].wafer
<1> DEFINE closed == [units EXCEPT ![i].closed = TRUE]
<1>1. units[i] \in Unit /\ units \in [1 .. Len(units) -> Unit] /\ Len(units) \in Nat
  BY DEF SanityTypes
<1>2. [units[i] EXCEPT !.closed = TRUE] \in Unit
  BY <1>1 DEF Unit
<1>3. [units[i] EXCEPT !.closed = TRUE].wafer = units[i].wafer
  BY <1>1 DEF Unit
<1>4. closed = [units EXCEPT ![i] = [units[i] EXCEPT !.closed = TRUE]]
  OBVIOUS
<1>5. closed \in [1 .. Len(units) -> Unit]
  BY <1>1, <1>2, <1>4
<1>6. closed \in Seq(Unit) /\ Len(closed) = Len(units)
  BY <1>1, <1>5
<1>7. \A j \in 1 .. Len(units) : closed[j].wafer = units[j].wafer
  BY <1>1, <1>3, <1>4
<1> QED
  BY <1>6, <1>7

LEMMA PirUnit ==
  ASSUME SanityTypes, NEW r \in Record, SanityPir(r)
  PROVE  /\ units' \in Seq(Unit) /\ Len(units') = Len(units) + 1
         /\ in_progress' = Put(in_progress, At(r), Len(units) + 1)
         /\ wafer_map' = wafer_map
<1>1. At(r) \in Position
  BY RecordTypes DEF SanityPir, PartKind
<1> QED
  BY <1>1, UnitAppended DEF SanityPir

LEMMA PrrUnit ==
  ASSUME SanityTypes, NEW r \in Record, SanityPrr(r)
  PROVE  /\ units' \in Seq(Unit)
         /\ Len(units') = IF At(r) \in DOMAIN in_progress THEN Len(units) ELSE Len(units) + 1
         /\ in_progress' = Without(in_progress, At(r))
         /\ wafer_map' = wafer_map
<1>1. At(r) \in Position
  BY RecordTypes DEF SanityPrr, PartKind
<1>2. in_progress' = Without(in_progress, At(r)) /\ wafer_map' = wafer_map
  BY DEF SanityPrr
<1>3. CASE At(r) \in DOMAIN in_progress
  <2>1. units' = [units EXCEPT ![in_progress[At(r)]].closed = TRUE]
    BY <1>3 DEF SanityPrr
  <2>2. in_progress[At(r)] \in 1 .. Len(units)
    BY <1>3 DEF SanityTypes
  <2> QED
    BY <1>2, <1>3, <2>1, <2>2, UnitClosed
<1>4. CASE At(r) \notin DOMAIN in_progress
  <2>1. units' = Append(units, NewUnit(At(r), TRUE))
    BY <1>4 DEF SanityPrr
  <2> QED
    BY <1>1, <1>2, <1>4, <2>1, UnitAppended
<1> QED
  BY <1>3, <1>4

LEMMA SanityReadTypes ==
  ASSUME SanityTypes, NEW r \in Record, SanityRead(r)
  PROVE  SanityTypes'
<1>0. Len(units) \in Nat
  BY DEF SanityTypes
<1> USE DEF SanityTypes
<1>1. CASE UNCHANGED <<wafer_map, units, in_progress>>
  BY <1>1
<1>2. CASE \E found : OpenRun(found) \/ CloseRun(found)
  BY <1>2 DEF OpenRun, CloseRun, EmptyMap
<1>3. CASE SanityWir(r)
  <2>1. r.wafer \in WaferOrNone
    BY <1>3, RecordTypes DEF SanityWir
  <2> QED
    BY <1>3, <2>1 DEF SanityWir, Put
<1>4. CASE SanityWrr(r)
  BY <1>4 DEF SanityWrr, Without
<1>5. CASE SanityPir(r)
  <2>1. /\ units' \in Seq(Unit) /\ Len(units') = Len(units) + 1
        /\ in_progress' = Put(in_progress, At(r), Len(units) + 1)
        /\ wafer_map' = wafer_map
    BY <1>5, PirUnit
  <2> QED
    BY <1>0, <2>1 DEF Put
<1>6. CASE SanityPrr(r)
  <2>1. /\ units' \in Seq(Unit)
        /\ Len(units') = IF At(r) \in DOMAIN in_progress THEN Len(units) ELSE Len(units) + 1
        /\ in_progress' = Without(in_progress, At(r))
        /\ wafer_map' = wafer_map
    BY <1>6, PrrUnit
  <2> QED
    BY <1>0, <2>1 DEF Without
<1>7. \/ UNCHANGED <<wafer_map, units, in_progress>>
      \/ \E found : OpenRun(found) \/ CloseRun(found)
      \/ SanityWir(r) \/ SanityWrr(r) \/ SanityPir(r) \/ SanityPrr(r)
  BY DEF SanityRead, SanityMir, SanityMrr, SanitySdr, OutsidePartContext, SanityTest, SanityMalformed
<1> QED
  BY <1>1, <1>2, <1>3, <1>4, <1>5, <1>6, <1>7

LEMMA StepSanityTypes == SanityTypes /\ [Next]_vars => SanityTypes'
<1> SUFFICES ASSUME SanityTypes, [Next]_vars PROVE SanityTypes'
  OBVIOUS
<1>1. CASE UNCHANGED <<wafer_map, units, in_progress>>
  BY <1>1 DEF SanityTypes
<1>2. ASSUME NEW r \in Alphabet, Deliver(r) PROVE SanityTypes'
  BY <1>2, AlphabetAssumption, SanityReadTypes DEF Deliver
<1>3. UNCHANGED vars => UNCHANGED <<wafer_map, units, in_progress>>
  BY DEF vars, sanityVars
<1>4. EndOfFile \/ CutOff => UNCHANGED <<wafer_map, units, in_progress>>
  BY DEF EndOfFile, CutOff, SanityEnd, SanityCut, Closing
<1> QED
  BY <1>1, <1>2, <1>3, <1>4 DEF Next

LEMMA TypesOfSanity == Spec => []SanityTypes
<1>1. Init => SanityTypes
  BY DEF Init, SanityInit, SanityTypes, EmptyMap
<1> QED
  BY <1>1, StepSanityTypes, PTL DEF Spec

\* Traceability and the sanity report have the same run open and the same units.
SameUnits ==
  traceStatus = "reading" =>
    run_open = run_key /\ in_progress = TraceNumbers /\ Len(units) = sequence

LEMMA SanityCounts ==
  ASSUME SanityTypes, SameUnits, traceStatus' = "reading", NEW r \in Record,
         TraceReadRecord(r), SanityRead(r)
  PROVE  SameUnits'
<1>1. traceStatus = "reading" /\ ~TraceStopped
  BY DEF TraceReadRecord, TraceStopped, traceVars
<1>2. /\ TraceNumbers' = NextNumbers(r, TraceNumbers, sequence)
      /\ sequence' = NextCount(r, TraceNumbers, sequence)
  BY TraceCounts
<1>3. run_open = run_key /\ in_progress = TraceNumbers /\ Len(units) = sequence
      /\ DOMAIN TraceNumbers = DOMAIN open_parts
  BY <1>1 DEF SameUnits, TraceNumbers
<1>4. r.kind # "Malformed"
  BY <1>1 DEF TraceReadRecord, TraceMir, TraceMrr, TraceSdr, TraceWir, TraceWrr, TracePir, TraceTest,
         TracePrr, TraceMalformed, TraceFail, TestKind
<1>5. r.kind = "MIR" \/ r.kind = "MRR" => DOMAIN open_parts = {} /\ in_progress' = EmptyMap
                                          /\ run_open' = run_key'
                                          /\ UNCHANGED <<open_parts, sequence, units>>
  BY <1>1, <1>4 DEF TraceReadRecord, TraceMir, TraceMrr, TraceSdr, TraceWir, TraceWrr, TracePir, TraceTest,
         TracePrr, TraceMalformed, TraceFail, TestKind, SanityRead, SanityMir, SanityMrr, SanitySdr,
         SanityWir, SanityWrr, OutsidePartContext, SanityPir, SanityPrr, SanityTest, SanityMalformed,
         OpenRun, CloseRun, PartKind
<1>6. CASE r.kind \in {"MIR", "MRR"}
  <2>1. TraceNumbers' = EmptyMap
    BY <1>5, <1>6 DEF TraceNumbers, EmptyMap
  <2> QED
    BY <1>3, <1>5, <1>6, <2>1 DEF SameUnits
<1>7. CASE r.kind \in {"SDR", "WIR", "WRR"}
  <2>1. UNCHANGED <<run_open, run_key, in_progress, units>>
    BY <1>1, <1>4, <1>7 DEF TraceReadRecord, TraceMir, TraceMrr, TraceSdr, TraceWir, TraceWrr, TracePir,
         TraceTest, TracePrr, TraceMalformed, TraceFail, TestKind, PartKind, SanityRead, SanityMir, SanityMrr,
         SanitySdr, SanityWir, SanityWrr, OutsidePartContext, SanityPir, SanityPrr, SanityTest,
         SanityMalformed, OpenRun, CloseRun
  <2>2. TraceNumbers' = TraceNumbers /\ sequence' = sequence
    BY <1>2, <1>7 DEF NextNumbers, NextCount, PartKind, TestKind
  <2> QED
    BY <1>3, <2>1, <2>2 DEF SameUnits
<1>8. CASE r.kind \in TestKind
  <2>1. UNCHANGED <<run_open, run_key, in_progress, units, open_parts, sequence>>
    BY <1>1, <1>4, <1>8 DEF TraceReadRecord, TraceMir, TraceMrr, TraceSdr, TraceWir, TraceWrr, TracePir,
         TraceTest, TracePrr, TraceMalformed, TraceFail, TestKind, PartKind, SanityRead, SanityMir, SanityMrr,
         SanitySdr, SanityWir, SanityWrr, OutsidePartContext, SanityPir, SanityPrr, SanityTest,
         SanityMalformed, OpenRun, CloseRun, traceVars
  <2> QED
    BY <1>3, <2>1 DEF SameUnits, TraceNumbers
<1>9. CASE r.kind = "PIR"
  <2>1. run_key /\ run_key' = run_key /\ At(r) \notin DOMAIN open_parts
    BY <1>1, <1>9 DEF TraceReadRecord, TraceMir, TraceMrr, TraceSdr, TraceWir, TraceWrr, TracePir,
         TraceTest, TracePrr, TraceMalformed, TraceFail, TestKind
  <2>2. SanityPir(r)
    BY <1>3, <1>9, <2>1 DEF SanityRead, SanityMir, SanityMrr,
         SanitySdr, SanityWir, SanityWrr, OutsidePartContext, SanityPrr, SanityTest, SanityMalformed, TestKind
  <2>3. run_open' = run_open
    BY <2>2 DEF SanityPir
  <2> QED
    BY <1>2, <1>3, <1>9, <2>1, <2>2, <2>3, PirUnit DEF SameUnits, NextNumbers, NextCount, PartKind
<1>10. CASE r.kind = "PRR"
  <2>1. run_key /\ run_key' = run_key
    BY <1>1, <1>10 DEF TraceReadRecord, TraceMir, TraceMrr, TraceSdr, TraceWir, TraceWrr, TracePir,
         TraceTest, TracePrr, TraceMalformed, TraceFail, TestKind
  <2>2. SanityPrr(r)
    BY <1>3, <1>10, <2>1 DEF SanityRead, SanityMir, SanityMrr,
         SanitySdr, SanityWir, SanityWrr, OutsidePartContext, SanityPir, SanityTest, SanityMalformed, TestKind
  <2>3. run_open' = run_open
    BY <2>2 DEF SanityPrr
  <2> QED
    BY <1>2, <1>3, <1>10, <2>1, <2>2, <2>3, PrrUnit DEF SameUnits, NextNumbers, NextCount, PartKind
<1> QED
  BY <1>4, <1>6, <1>7, <1>8, <1>9, <1>10, RecordTypes DEF Kind, RunKind, PartKind

\* The numbers of three readers, and the units of the fourth.
Numbered ==
  /\ eavStatus = "reading" /\ scanStatus = "reading" =>
       EavNumbers = ScanNumbers /\ part_seq = next_id
  /\ scanStatus = "reading" /\ traceStatus = "reading" =>
       ScanNumbers = TraceNumbers /\ next_id = sequence

LEMMA EndStopsReading ==
  ASSUME EndOfFile \/ CutOff
  PROVE  eavStatus' # "reading" /\ scanStatus' # "reading" /\ traceStatus' # "reading"
<1>1. eavStatus' # "reading"
  BY DEF EndOfFile, CutOff, EavEnd, EavCut, EavStopped, EavFail, eavVars
<1>2. scanStatus' # "reading"
  BY DEF EndOfFile, CutOff, ScanEnd, ScanCut, ScanStopped, ScanFail, scanVars
<1>3. traceStatus' # "reading"
  BY DEF EndOfFile, CutOff, TraceEnd, TraceCut, TraceStopped, TraceFail, traceVars
<1> QED
  BY <1>1, <1>2, <1>3

LEMMA StepNumbers ==
  EInv /\ EavTypes /\ SanityTypes /\ SameUnits /\ Numbered /\ [Next]_vars => SameUnits' /\ Numbered'
<1> SUFFICES ASSUME EInv, EavTypes, SanityTypes, SameUnits, Numbered, [Next]_vars
             PROVE  SameUnits' /\ Numbered'
  OBVIOUS
<1>1. CASE UNCHANGED vars
  BY <1>1 DEF vars, eavVars, context, scanVars, traceVars, sanityVars, SameUnits, Numbered, EavNumbers,
         ScanNumbers, TraceNumbers
<1>2. ASSUME NEW r \in Alphabet, Deliver(r) PROVE SameUnits' /\ Numbered'
  <2>1. r \in Record /\ EavRead(r) /\ ScanRead(r) /\ TraceReadRecord(r) /\ SanityRead(r)
    BY <1>2, AlphabetAssumption DEF Deliver
  <2>2. SameUnits'
    BY <2>1, SanityCounts DEF SameUnits
  <2>3. Numbered'
    BY <2>1, EavCounts, ScanCounts, TraceCounts DEF Numbered
  <2> QED
    BY <2>2, <2>3
<1>3. CASE EndOfFile \/ CutOff
  BY <1>3, EndStopsReading DEF SameUnits, Numbered
<1> QED
  BY <1>1, <1>2, <1>3 DEF Next

LEMMA NumbersAgree == Spec => [](SameUnits /\ Numbered)
<1>1. Init => SameUnits /\ Numbered
  BY DEF Init, EavInit, ScanInit, TraceInit, SanityInit, EmptyMap, SameUnits, Numbered, EavNumbers,
         ScanNumbers, TraceNumbers
<1> QED
  BY <1>1, InvariantOfConverter, TypesOfConverter, ConverterReads, TypesOfSanity, StepNumbers, PTL
     DEF Spec

-----------------------------------------------------------------------------
(***************************************************************************)
(* The viewer's first pass: an attempt's number is new when it is given,   *)
(* belongs to one open position or to one closed attempt, and its slot is  *)
(* a wafer of the manifest or none.                                        *)
(***************************************************************************)
OpenAttempt == [id : Nat \ {0}, run : Nat, slot : Nat]
ClosedAttempt == [run : Nat, slot : Nat, record : Nat]

SlotsNamed ==
  /\ manifest_wafers \in Seq(WaferOrNone)
  /\ \A k \in DOMAIN slots : slots[k] \in 1 .. Len(manifest_wafers)
  /\ \A p \in DOMAIN active : active[p].slot <= Len(manifest_wafers)
  /\ \A id \in DOMAIN raw_attempts : raw_attempts[id].slot <= Len(manifest_wafers)

IdsNew ==
  /\ \A p \in DOMAIN active : active[p].id <= next_id /\ active[p].id \notin DOMAIN raw_attempts
  /\ \A p, q \in DOMAIN active : active[p].id = active[q].id => p = q
  /\ \A id \in DOMAIN raw_attempts : id \in 1 .. next_id

ScanTypes ==
  /\ run \in Nat /\ next_id \in Nat
  /\ evidence \in Seq(Nat)
  /\ \A p \in DOMAIN active : active[p] \in OpenAttempt
  /\ \A id \in DOMAIN raw_attempts : raw_attempts[id] \in ClosedAttempt
  /\ SlotsNamed /\ IdsNew

\* The attempt that a record of a position belongs to, and what it does to the slots.
AttemptOf(pos) ==
  Get(active, pos, [id |-> next_id + 1, run |-> run, slot |-> slot(SlotsFor(pos), pos)])
ManifestFor(pos) ==
  IF NeedsSlot(pos) THEN Append(manifest_wafers, NoWafer) ELSE manifest_wafers

LEMMA SlotsForType ==
  ASSUME ScanTypes, NEW pos
  PROVE  /\ ManifestFor(pos) \in Seq(WaferOrNone) /\ Len(manifest_wafers) <= Len(ManifestFor(pos))
         /\ \A i \in 1 .. Len(manifest_wafers) : ManifestFor(pos)[i] = manifest_wafers[i]
         /\ \A k \in DOMAIN SlotsFor(pos) : SlotsFor(pos)[k] \in 1 .. Len(ManifestFor(pos))
         /\ slot(SlotsFor(pos), pos) \in 0 .. Len(ManifestFor(pos))
<1>1. manifest_wafers \in Seq(WaferOrNone) /\ Len(manifest_wafers) \in Nat /\ NoWafer \in WaferOrNone
  BY DEF ScanTypes, SlotsNamed, WaferOrNone
<1>2. /\ ManifestFor(pos) \in Seq(WaferOrNone)
      /\ Len(ManifestFor(pos)) = IF NeedsSlot(pos) THEN Len(manifest_wafers) + 1 ELSE Len(manifest_wafers)
      /\ \A i \in 1 .. Len(manifest_wafers) : ManifestFor(pos)[i] = manifest_wafers[i]
  BY <1>1, AppendProperties DEF ManifestFor
<1>3. \A k \in DOMAIN slots : slots[k] \in 1 .. Len(manifest_wafers)
  BY DEF ScanTypes, SlotsNamed
<1>4. \A k \in DOMAIN SlotsFor(pos) : SlotsFor(pos)[k] \in 1 .. Len(ManifestFor(pos))
  <2> PICK n : n = Len(ManifestFor(pos))
    OBVIOUS
  <2>1. CASE NeedsSlot(pos)
    BY <1>1, <1>2, <1>3, <2>1 DEF SlotsFor, Put
  <2>2. CASE ~NeedsSlot(pos)
    BY <1>2, <1>3, <2>2 DEF SlotsFor
  <2> QED
    BY <2>1, <2>2
<1>5. slot(SlotsFor(pos), pos) \in 0 .. Len(ManifestFor(pos))
  <2> DEFINE S == 0 .. Len(ManifestFor(pos))
  <2>1. Len(ManifestFor(pos)) \in Nat
    BY <1>2
  <2>2. 0 \in S /\ \A k \in DOMAIN SlotsFor(pos) : SlotsFor(pos)[k] \in S
    BY <1>4, <2>1
  <2> HIDE DEF S
  <2>3. WaferAt(groups, SlotsFor(pos), pos, 0) \in S
    BY <2>2, WaferAtType, Zenon
  <2> QED
    BY <2>3 DEF slot, S
<1>6. Len(manifest_wafers) <= Len(ManifestFor(pos))
  BY <1>1, <1>2
<1> QED
  BY <1>2, <1>4, <1>5, <1>6

LEMMA AttemptOfType ==
  ASSUME ScanTypes, NEW pos
  PROVE  /\ AttemptOf(pos) \in OpenAttempt
         /\ AttemptOf(pos).slot <= Len(ManifestFor(pos))
         /\ pos \in DOMAIN active => AttemptOf(pos) = active[pos]
         /\ pos \notin DOMAIN active => AttemptOf(pos).id = next_id + 1
<1> DEFINE new == [id |-> next_id + 1, run |-> run, slot |-> slot(SlotsFor(pos), pos)]
<1>1. slot(SlotsFor(pos), pos) \in Nat /\ slot(SlotsFor(pos), pos) <= Len(ManifestFor(pos))
      /\ Len(manifest_wafers) <= Len(ManifestFor(pos)) /\ Len(ManifestFor(pos)) \in Nat
      /\ Len(manifest_wafers) \in Nat
  BY SlotsForType DEF ScanTypes, SlotsNamed
<1>2. CASE pos \in DOMAIN active
  BY <1>1, <1>2 DEF AttemptOf, Get, ScanTypes, SlotsNamed, OpenAttempt
<1>3. CASE pos \notin DOMAIN active
  <2>1. AttemptOf(pos) = new
    BY <1>3 DEF AttemptOf, Get
  <2>2. next_id + 1 \in Nat \ {0} /\ run \in Nat
    BY DEF ScanTypes
  <2>3. new \in OpenAttempt /\ new.slot = slot(SlotsFor(pos), pos) /\ new.id = next_id + 1
    BY <1>1, <2>2 DEF OpenAttempt
  <2> QED
    BY <1>1, <1>3, <2>1, <2>3
<1> QED
  BY <1>2, <1>3

\* A record of a position, in terms of the attempt it belongs to.
SideStep(r) ==
  LET pos == At(r)
  IN /\ slots' = SlotsFor(pos) /\ manifest_wafers' = ManifestFor(pos)
     /\ next_id' = IF pos \in DOMAIN active THEN next_id ELSE next_id + 1
     /\ active' = IF r.kind = "PRR" THEN Without(active, pos) ELSE Put(active, pos, AttemptOf(pos))
     /\ raw_attempts' = IF r.kind = "PRR"
                        THEN Put(raw_attempts, AttemptOf(pos).id,
                                 [run |-> AttemptOf(pos).run, slot |-> AttemptOf(pos).slot,
                                  record |-> Len(evidence) + 1])
                        ELSE raw_attempts
     /\ evidence' = Append(evidence, AttemptOf(pos).id)
     /\ UNCHANGED <<scanStatus, run, groups>>

LEMMA SideOrFail ==
  ASSUME NEW r, ScanSide(r)
  PROVE  ScanFail \/ SideStep(r)
BY Zenon DEF ScanSide, SideStep, AttemptOf, ManifestFor, Index

LEMMA SideKeepsSlots ==
  ASSUME ScanTypes, NEW r, SideStep(r)
  PROVE  SlotsNamed'
<1> DEFINE pos == At(r)
<1>1. /\ ManifestFor(pos) \in Seq(WaferOrNone) /\ Len(manifest_wafers) <= Len(ManifestFor(pos))
      /\ \A k \in DOMAIN SlotsFor(pos) : SlotsFor(pos)[k] \in 1 .. Len(ManifestFor(pos))
  BY SlotsForType
<1>2. AttemptOf(pos) \in OpenAttempt /\ AttemptOf(pos).slot <= Len(ManifestFor(pos))
  BY AttemptOfType
<1>3. /\ slots' = SlotsFor(pos) /\ manifest_wafers' = ManifestFor(pos)
      /\ active' = IF r.kind = "PRR" THEN Without(active, pos) ELSE Put(active, pos, AttemptOf(pos))
      /\ \/ raw_attempts' = raw_attempts
         \/ \E record : raw_attempts' = Put(raw_attempts, AttemptOf(pos).id,
                                            [run |-> AttemptOf(pos).run, slot |-> AttemptOf(pos).slot,
                                             record |-> record])
  BY DEF SideStep
<1>4. /\ \A p \in DOMAIN active : active[p].slot <= Len(manifest_wafers) /\ active[p].slot \in Nat
      /\ \A id \in DOMAIN raw_attempts :
           raw_attempts[id].slot <= Len(manifest_wafers) /\ raw_attempts[id].slot \in Nat
      /\ Len(manifest_wafers) \in Nat /\ Len(ManifestFor(pos)) \in Nat
  BY <1>1 DEF ScanTypes, SlotsNamed, OpenAttempt, ClosedAttempt
<1> PICK m : m = ManifestFor(pos)
  OBVIOUS
<1> PICK at : at = AttemptOf(pos)
  OBVIOUS
<1>5. \A p \in DOMAIN active' : active'[p].slot <= Len(m)
  BY <1>1, <1>2, <1>3, <1>4 DEF Put, Without
<1>6. \A id \in DOMAIN raw_attempts' : raw_attempts'[id].slot <= Len(m)
  <2>1. CASE raw_attempts' = raw_attempts
    BY <1>1, <1>4, <2>1
  <2>2. ASSUME NEW record, raw_attempts' = Put(raw_attempts, at.id, [run |-> at.run, slot |-> at.slot,
                                                                    record |-> record])
        PROVE  \A id \in DOMAIN raw_attempts' : raw_attempts'[id].slot <= Len(m)
    BY <1>1, <1>2, <1>4, <2>2 DEF Put
  <2> QED
    BY <1>3, <2>1, <2>2
<1> QED
  BY <1>1, <1>3, <1>5, <1>6 DEF SlotsNamed

LEMMA SideKeepsIds ==
  ASSUME ScanTypes, NEW r, SideStep(r)
  PROVE  IdsNew'
<1> DEFINE pos == At(r)
<1> PICK at : at = AttemptOf(pos)
  OBVIOUS
<1>1. /\ at.id \in Nat \ {0}
      /\ pos \in DOMAIN active => at.id = active[pos].id
      /\ pos \notin DOMAIN active => at.id = next_id + 1
  BY AttemptOfType DEF OpenAttempt
<1>2. /\ next_id' = IF pos \in DOMAIN active THEN next_id ELSE next_id + 1
      /\ next_id \in Nat
      /\ \A p \in DOMAIN active : active[p].id \in Nat \ {0}
  BY DEF SideStep, ScanTypes, OpenAttempt
<1>3. IdsNew
  BY DEF ScanTypes
<1>4. CASE r.kind = "PRR"
  <2>1. /\ active' = Without(active, pos)
        /\ \A id : id \in DOMAIN raw_attempts' <=> id \in DOMAIN raw_attempts \cup {at.id}
    BY <1>4 DEF SideStep, Put
  <2>2. /\ \A p : p \in DOMAIN active' <=> p \in DOMAIN active /\ p # pos
        /\ \A p \in DOMAIN active' : active'[p] = active[p]
    BY <2>1 DEF Without
  <2>3. \A id \in DOMAIN raw_attempts' : id \in 1 .. next_id'
    BY <1>1, <1>2, <1>3, <2>1 DEF IdsNew
  <2>4. \A p \in DOMAIN active' : active'[p].id <= next_id' /\ active'[p].id \notin DOMAIN raw_attempts'
    BY <1>1, <1>2, <1>3, <2>1, <2>2 DEF IdsNew
  <2>5. \A p, q \in DOMAIN active' : active'[p].id = active'[q].id => p = q
    BY <1>3, <2>2 DEF IdsNew
  <2> QED
    BY <2>3, <2>4, <2>5 DEF IdsNew
<1>5. CASE r.kind # "PRR"
  <2>1. active' = Put(active, pos, at) /\ raw_attempts' = raw_attempts
    BY <1>5 DEF SideStep
  <2>2. /\ \A p : p \in DOMAIN active' <=> p \in DOMAIN active \/ p = pos
        /\ \A p \in DOMAIN active' : active'[p] = IF p = pos THEN at ELSE active[p]
    BY <2>1 DEF Put
  <2>3. \A id \in DOMAIN raw_attempts' : id \in 1 .. next_id'
    BY <1>2, <1>3, <2>1 DEF IdsNew
  <2>4. \A p \in DOMAIN active' : active'[p].id <= next_id' /\ active'[p].id \notin DOMAIN raw_attempts'
    BY <1>1, <1>2, <1>3, <2>1, <2>2 DEF IdsNew
  <2>5. \A p, q \in DOMAIN active' : active'[p].id = active'[q].id => p = q
    BY <1>1, <1>2, <1>3, <2>2 DEF IdsNew
  <2> QED
    BY <2>3, <2>4, <2>5 DEF IdsNew
<1> QED
  BY <1>4, <1>5

LEMMA SideKeepsTypes ==
  ASSUME ScanTypes, NEW r, SideStep(r)
  PROVE  ScanTypes'
<1> DEFINE pos == At(r)
<1> PICK at : at = AttemptOf(pos)
  OBVIOUS
<1>1. at \in OpenAttempt
  BY AttemptOfType
<1>2. run' \in Nat /\ next_id' \in Nat
  BY DEF SideStep, ScanTypes
<1>3. evidence' \in Seq(Nat) /\ Len(evidence) \in Nat
  <2>1. evidence' = Append(evidence, at.id) /\ at.id \in Nat
    BY <1>1 DEF SideStep, OpenAttempt
  <2> QED
    BY <2>1, AppendProperties DEF ScanTypes
<1>4. \A p \in DOMAIN active' : active'[p] \in OpenAttempt
  <2>1. active' = IF r.kind = "PRR" THEN Without(active, pos) ELSE Put(active, pos, at)
    BY DEF SideStep
  <2> QED
    BY <1>1, <2>1 DEF ScanTypes, Put, Without
<1>5. \A id \in DOMAIN raw_attempts' : raw_attempts'[id] \in ClosedAttempt
  <2>1. [run |-> at.run, slot |-> at.slot, record |-> Len(evidence) + 1] \in ClosedAttempt
    BY <1>1, <1>3 DEF OpenAttempt, ClosedAttempt
  <2>2. \/ raw_attempts' = raw_attempts
        \/ raw_attempts' = Put(raw_attempts, at.id, [run |-> at.run, slot |-> at.slot,
                                                     record |-> Len(evidence) + 1])
    BY DEF SideStep
  <2> QED
    BY <2>1, <2>2 DEF ScanTypes, Put
<1> QED
  BY <1>2, <1>3, <1>4, <1>5, SideKeepsSlots, SideKeepsIds DEF ScanTypes

LEMMA ScanReadTypes ==
  ASSUME ScanTypes, NEW r \in Record, ScanRead(r)
  PROVE  ScanTypes'
<1>0. /\ manifest_wafers \in Seq(WaferOrNone) /\ Len(manifest_wafers) \in Nat
      /\ evidence \in Seq(Nat)
  BY DEF ScanTypes, SlotsNamed
<1>1. CASE ScanFail
  BY <1>1 DEF ScanFail, ScanTypes, SlotsNamed, IdsNew, EmptyMap
<1>2. CASE UNCHANGED scanVars
  BY <1>2 DEF scanVars, ScanTypes, SlotsNamed, IdsNew
<1>3. ASSUME Index(0), UNCHANGED <<next_id, active, raw_attempts>>, run' \in Nat, SlotsNamed'
      PROVE  ScanTypes'
  <2>1. evidence' \in Seq(Nat)
    BY <1>0, <1>3, AppendProperties DEF Index
  <2> QED
    BY <1>3, <2>1 DEF ScanTypes, IdsNew
<1>4. CASE ScanMir(r) /\ ~ScanFail
  BY <1>3, <1>4 DEF ScanMir, ScanTypes, SlotsNamed, EmptyMap
<1>5. CASE (ScanMrr(r) \/ ScanSdr(r)) /\ ~ScanFail
  BY <1>3, <1>5 DEF ScanMrr, ScanSdr, ScanTypes, SlotsNamed
<1>6. CASE ScanWir(r)
  <2>1. r.wafer \in WaferOrNone
    BY <1>6, RecordTypes DEF ScanWir
  <2>2. /\ manifest_wafers' \in Seq(WaferOrNone)
        /\ Len(manifest_wafers') = Len(manifest_wafers) + 1
    BY <1>0, <1>6, <2>1, AppendProperties DEF ScanWir
  <2>3. SlotsNamed'
    <3>1. \A k \in DOMAIN slots' : slots'[k] \in 1 .. Len(manifest_wafers')
      BY <1>0, <1>6, <2>2 DEF ScanWir, ScanTypes, SlotsNamed, Put
    <3>2. UNCHANGED <<active, raw_attempts>>
      BY <1>6 DEF ScanWir
    <3>3. /\ \A p \in DOMAIN active : active[p].slot \in Nat
          /\ \A id \in DOMAIN raw_attempts : raw_attempts[id].slot \in Nat
      BY DEF ScanTypes, OpenAttempt, ClosedAttempt
    <3>4. /\ \A p \in DOMAIN active : active[p].slot <= Len(manifest_wafers')
          /\ \A id \in DOMAIN raw_attempts : raw_attempts[id].slot <= Len(manifest_wafers')
      BY <1>0, <2>2, <3>3 DEF ScanTypes, SlotsNamed
    <3> QED
      BY <2>2, <3>1, <3>2, <3>4 DEF SlotsNamed
  <2> QED
    BY <1>3, <1>6, <2>3 DEF ScanWir, ScanTypes
<1>7. CASE ScanWrr(r)
  <2>1. r.wafer \in WaferOrNone
    BY <1>7, RecordTypes DEF ScanWrr
  <2>2. manifest_wafers' \in Seq(WaferOrNone) /\ Len(manifest_wafers') = Len(manifest_wafers)
    <3>1. CASE Closed(r) \in DOMAIN slots /\ r.wafer # NoWafer
      <4> PICK i : i = slots[Closed(r)]
        OBVIOUS
      <4>1. manifest_wafers' = [manifest_wafers EXCEPT ![i] = r.wafer]
        BY <1>7, <3>1 DEF ScanWrr
      <4>2. i \in 1 .. Len(manifest_wafers)
        BY <3>1 DEF ScanTypes, SlotsNamed
      <4> QED
        BY <1>0, <2>1, <4>1, <4>2
    <3>2. CASE ~(Closed(r) \in DOMAIN slots /\ r.wafer # NoWafer)
      BY <1>0, <1>7, <3>2 DEF ScanWrr
    <3> QED
      BY <3>1, <3>2
  <2>3. SlotsNamed'
    BY <1>7, <2>2 DEF ScanWrr, ScanTypes, SlotsNamed, Without
  <2> QED
    BY <1>3, <1>7, <2>3 DEF ScanWrr, ScanTypes
<1>8. CASE ScanSide(r)
  BY <1>1, <1>8, SideOrFail, SideKeepsTypes
<1> QED
  BY <1>1, <1>2, <1>4, <1>5, <1>6, <1>7, <1>8 DEF ScanRead, ScanStopped, ScanMalformed

LEMMA StepScanTypes == ScanTypes /\ [Next]_vars => ScanTypes'
<1> SUFFICES ASSUME ScanTypes, [Next]_vars PROVE ScanTypes'
  OBVIOUS
<1>1. CASE UNCHANGED scanVars
  BY <1>1 DEF scanVars, ScanTypes, SlotsNamed, IdsNew
<1>2. ASSUME NEW r \in Alphabet, Deliver(r) PROVE ScanTypes'
  BY <1>2, AlphabetAssumption, ScanReadTypes DEF Deliver
<1>3. CASE EndOfFile \/ CutOff
  <2>1. \/ UNCHANGED scanVars \/ ScanFail
        \/ UNCHANGED <<run, next_id, groups, slots, active, manifest_wafers, evidence, raw_attempts>>
    BY <1>3 DEF EndOfFile, CutOff, ScanEnd, ScanCut, ScanStopped
  <2>2. CASE ScanFail
    BY <2>2 DEF ScanFail, ScanTypes, SlotsNamed, IdsNew, EmptyMap
  <2>3. CASE UNCHANGED <<run, next_id, groups, slots, active, manifest_wafers, evidence, raw_attempts>>
    BY <2>3 DEF ScanTypes, SlotsNamed, IdsNew
  <2> QED
    BY <1>1, <2>1, <2>2, <2>3
<1>4. UNCHANGED vars => UNCHANGED scanVars
  BY DEF vars
<1> QED
  BY <1>1, <1>2, <1>3, <1>4 DEF Next

LEMMA TypesOfScan == Spec => []ScanTypes
<1>1. Init => ScanTypes
  BY DEF Init, ScanInit, ScanTypes, SlotsNamed, IdsNew, EmptyMap
<1> QED
  BY <1>1, StepScanTypes, PTL DEF Spec
-----------------------------------------------------------------------------
(***************************************************************************)
(* AttemptsAgree, between the viewer and the Pareto report: until the      *)
(* report fails the two passes are the same pass, except that it keeps its *)
(* attempts in a list and gives them no number.                            *)
(***************************************************************************)
Listing == [p \in DOMAIN active |-> [run |-> active[p].run, slot |-> active[p].slot]]

SamePass ==
  paretoStatus # "failed" =>
    /\ scanStatus = paretoStatus
    /\ run = paretoRun /\ groups = paretoGroups /\ slots = paretoSlots
    /\ manifest_wafers = paretoWafers
    /\ Len(evidence) = paretoRead
    /\ Listing = paretoActive
    /\ paretoAttempts \in Seq(ClosedAttempt)
    /\ Range(raw_attempts) = ToSet(paretoAttempts)
    /\ IsFiniteSet(DOMAIN raw_attempts)
    /\ Len(paretoAttempts) = Cardinality(DOMAIN raw_attempts)

\* An attempt closed: a number not used before and a place at the end of the list.
LEMMA OneMoreListed ==
  ASSUME NEW map, NEW list, NEW S, list \in Seq(S), Range(map) = ToSet(list),
         IsFiniteSet(DOMAIN map), Len(list) = Cardinality(DOMAIN map),
         NEW id, id \notin DOMAIN map, NEW e \in S
  PROVE  /\ Append(list, e) \in Seq(S)
         /\ Range(Put(map, id, e)) = ToSet(Append(list, e))
         /\ IsFiniteSet(DOMAIN Put(map, id, e))
         /\ Len(Append(list, e)) = Cardinality(DOMAIN Put(map, id, e))
<1>1. /\ Append(list, e) \in Seq(S) /\ Len(Append(list, e)) = Len(list) + 1
      /\ \A i \in 1 .. Len(list) : Append(list, e)[i] = list[i]
      /\ Append(list, e)[Len(list) + 1] = e
  BY AppendProperties
<1>2. /\ DOMAIN list = 1 .. Len(list) /\ DOMAIN Append(list, e) = 1 .. Len(list) + 1
      /\ Len(list) \in Nat
  BY <1>1
<1>3. ToSet(Append(list, e)) = ToSet(list) \cup {e}
  <2>1. 1 .. Len(list) + 1 = 1 .. Len(list) \cup {Len(list) + 1}
    BY <1>2
  <2> QED
    BY <1>1, <1>2, <2>1 DEF ToSet
<1>4. DOMAIN Put(map, id, e) = DOMAIN map \cup {id}
  BY DEF Put
<1>5. Range(Put(map, id, e)) = Range(map) \cup {e}
  BY DEF Put, Range
<1>6. /\ IsFiniteSet(DOMAIN map \cup {id})
      /\ Cardinality(DOMAIN map \cup {id}) = Cardinality(DOMAIN map) + 1
  BY FS_AddElement
<1> QED
  BY <1>1, <1>3, <1>4, <1>5, <1>6

LEMMA ParetoSideSame ==
  ASSUME ScanTypes, SamePass, paretoStatus = "reading", NEW r \in Record, SideStep(r), ParetoSide(r),
         paretoRead' = paretoRead + 1, paretoStatus' = paretoStatus
  PROVE  SamePass'
<1> DEFINE pos == At(r)
<1>1. /\ scanStatus = paretoStatus /\ run = paretoRun /\ groups = paretoGroups /\ slots = paretoSlots
      /\ manifest_wafers = paretoWafers /\ Len(evidence) = paretoRead /\ Listing = paretoActive
      /\ paretoAttempts \in Seq(ClosedAttempt) /\ Range(raw_attempts) = ToSet(paretoAttempts)
      /\ IsFiniteSet(DOMAIN raw_attempts)
      /\ Len(paretoAttempts) = Cardinality(DOMAIN raw_attempts)
  BY DEF SamePass
<1>2. Nameless(pos) <=> NeedsSlot(pos)
  BY <1>1 DEF Nameless, NeedsSlot, selected_slot, slot
<1> PICK at : at = AttemptOf(pos)
  OBVIOUS
<1>3. DOMAIN paretoActive = DOMAIN active
  BY <1>1 DEF Listing
<1> DEFINE open == IF Nameless(pos)
                   THEN Put(paretoSlots, <<pos[1], Get(paretoGroups, pos, AllSites)>>,
                            Len(paretoWafers) + 1)
                   ELSE paretoSlots
           part == Get(paretoActive, pos, [run |-> paretoRun, slot |-> selected_slot(open, pos)])
<1>4. open = SlotsFor(pos)
  BY <1>1, <1>2 DEF SlotsFor
<1>5. part = [run |-> at.run, slot |-> at.slot]
  <2>1. CASE pos \in DOMAIN active
    BY <1>1, <1>3, <2>1 DEF Get, Listing, AttemptOf
  <2>2. CASE pos \notin DOMAIN active
    <3>1. part = [run |-> run, slot |-> slot(SlotsFor(pos), pos)]
      BY <1>1, <1>3, <1>4, <2>2 DEF Get, selected_slot, slot
    <3>2. at.run = run /\ at.slot = slot(SlotsFor(pos), pos)
      BY <2>2 DEF AttemptOf, Get
    <3> QED
      BY <3>1, <3>2
  <2> QED
    BY <2>1, <2>2
<1>6. /\ paretoSlots' = open
      /\ paretoWafers' = IF Nameless(pos) THEN Append(paretoWafers, NoWafer) ELSE paretoWafers
      /\ UNCHANGED <<paretoRun, paretoGroups>>
      /\ \/ /\ r.kind = "PRR"
            /\ paretoActive' = Without(paretoActive, pos)
            /\ paretoAttempts' = Append(paretoAttempts, [run |-> part.run, slot |-> part.slot,
                                                         record |-> paretoRead + 1])
         \/ /\ r.kind # "PRR"
            /\ paretoActive' = Put(paretoActive, pos, part)
            /\ UNCHANGED paretoAttempts
  BY Zenon DEF ParetoSide
<1>7. /\ slots' = SlotsFor(pos) /\ manifest_wafers' = ManifestFor(pos)
      /\ active' = IF r.kind = "PRR" THEN Without(active, pos) ELSE Put(active, pos, at)
      /\ raw_attempts' = IF r.kind = "PRR"
                         THEN Put(raw_attempts, at.id, [run |-> at.run, slot |-> at.slot,
                                                        record |-> Len(evidence) + 1])
                         ELSE raw_attempts
      /\ evidence' = Append(evidence, at.id)
      /\ UNCHANGED <<scanStatus, run, groups>>
  BY DEF SideStep
<1>8. slots' = paretoSlots' /\ manifest_wafers' = paretoWafers' /\ run' = paretoRun'
      /\ groups' = paretoGroups' /\ scanStatus' = paretoStatus'
  BY <1>1, <1>2, <1>4, <1>6, <1>7 DEF ManifestFor
<1>9. at \in OpenAttempt
  BY AttemptOfType
<1>10. Len(evidence') = paretoRead'
  BY <1>1, <1>7, <1>9, AppendProperties DEF ScanTypes, OpenAttempt
<1> HIDE DEF open, part
<1>11. CASE r.kind = "PRR"
  <2>1. Listing' = Without(Listing, pos)
    BY <1>7, <1>11 DEF Listing, Without
  <2>2. at.id \notin DOMAIN raw_attempts
    BY AttemptOfType DEF ScanTypes, IdsNew
  <2> PICK e : e = [run |-> at.run, slot |-> at.slot, record |-> Len(evidence) + 1]
    OBVIOUS
  <2>3. e \in ClosedAttempt
    BY <1>9 DEF OpenAttempt, ClosedAttempt, ScanTypes
  <2>4. raw_attempts' = Put(raw_attempts, at.id, e)
    BY <1>7, <1>11
  <2>5. paretoAttempts' = Append(paretoAttempts, e) /\ paretoActive' = Without(paretoActive, pos)
    BY <1>1, <1>5, <1>6, <1>11
  <2>6. /\ paretoAttempts' \in Seq(ClosedAttempt)
        /\ Range(raw_attempts') = ToSet(paretoAttempts')
        /\ IsFiniteSet(DOMAIN raw_attempts')
        /\ Len(paretoAttempts') = Cardinality(DOMAIN raw_attempts')
    BY <1>1, <2>2, <2>3, <2>4, <2>5, OneMoreListed
  <2> QED
    BY <1>1, <1>8, <1>10, <2>1, <2>5, <2>6 DEF SamePass
<1>12. CASE r.kind # "PRR"
  <2>1. /\ active' = Put(active, pos, at) /\ raw_attempts' = raw_attempts
        /\ paretoActive' = Put(paretoActive, pos, part) /\ paretoAttempts' = paretoAttempts
    BY <1>6, <1>7, <1>12
  <2>2. Listing' = Put(Listing, pos, [run |-> at.run, slot |-> at.slot])
    BY <2>1 DEF Listing, Put
  <2>3. Listing' = paretoActive'
    BY <1>1, <1>5, <2>1, <2>2
  <2> QED
    BY <1>1, <1>8, <1>10, <2>1, <2>3 DEF SamePass
<1> QED
  BY <1>11, <1>12

LEMMA ParetoReadSame ==
  ASSUME ScanTypes, SamePass, paretoStatus = "reading", NEW r \in Record, ScanRead(r), ParetoRead(r)
  PROVE  SamePass'
<1> SUFFICES ASSUME paretoStatus' # "failed" PROVE SamePass'
  BY DEF SamePass
<1>1. /\ scanStatus = "reading" /\ run = paretoRun /\ groups = paretoGroups /\ slots = paretoSlots
      /\ manifest_wafers = paretoWafers /\ Len(evidence) = paretoRead /\ Listing = paretoActive
      /\ evidence \in Seq(Nat) /\ paretoRead \in Nat
  BY DEF SamePass, ScanTypes
<1>2. DOMAIN paretoActive = DOMAIN active
  BY <1>1 DEF Listing
<1>3. /\ ~Refuses(r) /\ paretoStatus' = paretoStatus /\ paretoRead' = paretoRead + 1
      /\ \/ ParetoMir(r) \/ ParetoMrr(r) \/ ParetoSdr(r) \/ ParetoWir(r) \/ ParetoWrr(r)
         \/ ParetoSide(r)
  BY DEF ParetoRead, ParetoStopped, ParetoFail, Blank, paretoVars
<1>4. /\ r.kind # "Malformed" /\ (r.kind \in RunKind => DOMAIN active = {})
      /\ (r.kind = "PIR" => At(r) \notin DOMAIN active)
  BY <1>2, <1>3 DEF Refuses
<1>5. \/ ScanMir(r) \/ ScanMrr(r) \/ ScanSdr(r) \/ ScanWir(r) \/ ScanWrr(r) \/ ScanSide(r)
  BY <1>1, <1>4 DEF ScanRead, ScanStopped, ScanMalformed
<1>6. ASSUME Index(0), UNCHANGED <<active, raw_attempts, paretoActive, paretoAttempts>>,
             run' = paretoRun', groups' = paretoGroups', slots' = paretoSlots',
             manifest_wafers' = paretoWafers'
      PROVE  SamePass'
  <2>1. Len(evidence') = paretoRead' /\ scanStatus' = paretoStatus'
    BY <1>1, <1>3, <1>6, AppendProperties DEF Index
  <2>2. Listing' = paretoActive'
    BY <1>1, <1>6 DEF Listing
  <2> QED
    BY <1>6, <2>1, <2>2 DEF SamePass
<1>7. CASE r.kind \in RunKind
  <2>1. /\ Index(0) /\ UNCHANGED <<active, raw_attempts, paretoActive, paretoAttempts>>
        /\ run' = paretoRun' /\ groups' = paretoGroups' /\ slots' = paretoSlots'
        /\ manifest_wafers' = paretoWafers'
    BY <1>1, <1>3, <1>4, <1>5, <1>7 DEF RunKind, PartKind, TestKind, ScanMir, ScanMrr, ScanSdr, ScanWir,
       ScanWrr, ScanSide, ParetoMir, ParetoMrr, ParetoSdr, ParetoWir, ParetoWrr, ParetoSide
  <2> QED
    BY <1>6, <2>1
<1>8. CASE r.kind \in {"SDR", "WIR"}
  <2>1. /\ Index(0) /\ UNCHANGED <<active, raw_attempts, paretoActive, paretoAttempts>>
        /\ run' = paretoRun' /\ groups' = paretoGroups' /\ slots' = paretoSlots'
        /\ manifest_wafers' = paretoWafers'
    BY <1>1, <1>3, <1>4, <1>5, <1>8 DEF RunKind, PartKind, TestKind, ScanMir, ScanMrr, ScanSdr, ScanWir,
       ScanWrr, ScanSide, ParetoMir, ParetoMrr, ParetoSdr, ParetoWir, ParetoWrr, ParetoSide
  <2> QED
    BY <1>6, <2>1
<1>9. CASE r.kind = "WRR"
  <2>1. ScanWrr(r) /\ ParetoWrr(r)
    BY <1>3, <1>5, <1>9 DEF RunKind, PartKind, TestKind, ScanMir, ScanMrr, ScanSdr, ScanWir,
       ScanSide, ParetoMir, ParetoMrr, ParetoSdr, ParetoWir, ParetoSide
  <2>2. /\ Index(0) /\ UNCHANGED <<active, raw_attempts, paretoActive, paretoAttempts>>
        /\ run' = paretoRun' /\ groups' = paretoGroups' /\ slots' = paretoSlots'
        /\ manifest_wafers' = paretoWafers'
    BY <1>1, <2>1 DEF ScanWrr, ParetoWrr, Closed
  <2> QED
    BY <1>6, <2>2
<1>10. CASE r.kind \in PartKind \cup TestKind
  <2>1. ScanSide(r) /\ ParetoSide(r)
    BY <1>3, <1>5, <1>10 DEF RunKind, PartKind, TestKind, ScanMir, ScanMrr, ScanSdr, ScanWir, ScanWrr,
       ParetoMir, ParetoMrr, ParetoSdr, ParetoWir, ParetoWrr
  <2>2. ~(r.kind = "PIR" /\ At(r) \in DOMAIN active)
    BY <1>4
  <2>3. SideStep(r)
    BY <2>1, <2>2, Zenon DEF ScanSide, SideStep, AttemptOf, ManifestFor, Index
  <2> QED
    BY <1>3, <2>1, <2>3, ParetoSideSame
<1> QED
  BY <1>4, <1>7, <1>8, <1>9, <1>10, RecordTypes DEF Kind

LEMMA StepSamePass == ScanTypes /\ SamePass /\ [Next]_vars => SamePass'
<1> SUFFICES ASSUME ScanTypes, SamePass, [Next]_vars PROVE SamePass'
  OBVIOUS
<1>1. CASE UNCHANGED <<scanVars, paretoVars>>
  BY <1>1 DEF scanVars, paretoVars, SamePass, Listing
<1>2. ASSUME NEW r \in Alphabet, Deliver(r) PROVE SamePass'
  <2>1. r \in Record /\ ScanRead(r) /\ ParetoRead(r)
    BY <1>2, AlphabetAssumption DEF Deliver
  <2>2. CASE paretoStatus = "reading"
    BY <2>1, <2>2, ParetoReadSame
  <2>3. CASE paretoStatus # "reading"
    <3>1. UNCHANGED paretoVars
      BY <2>1, <2>3 DEF ParetoRead, ParetoStopped
    <3>2. paretoStatus # "failed" => UNCHANGED scanVars
      BY <2>1, <2>3 DEF ScanRead, ScanStopped, SamePass
    <3> QED
      BY <1>1, <3>1, <3>2 DEF SamePass, paretoVars
  <2> QED
    BY <2>2, <2>3
<1>3. CASE EndOfFile \/ CutOff
  <2> SUFFICES ASSUME paretoStatus' # "failed" PROVE SamePass'
    BY DEF SamePass
  <2>1. paretoStatus # "failed"
    BY <1>3 DEF EndOfFile, CutOff, ParetoEnd, ParetoCut, ParetoStopped, paretoVars
  <2>2. scanStatus = paretoStatus /\ Listing = paretoActive
    BY <2>1 DEF SamePass
  <2>3. DOMAIN active = DOMAIN paretoActive
    BY <2>2 DEF Listing
  <2>4. CASE paretoStatus = "reading"
    <3>1. /\ UNCHANGED <<paretoUsed, paretoRead, paretoRun, paretoGroups, paretoSlots, paretoActive,
                         paretoWafers, paretoAttempts>>
          /\ UNCHANGED <<run, next_id, groups, slots, active, manifest_wafers, evidence, raw_attempts>>
          /\ paretoStatus' = scanStatus'
      BY <1>3, <2>2, <2>3, <2>4 DEF EndOfFile, CutOff, ParetoEnd, ParetoCut, ParetoStopped, ParetoFail,
         Blank, ScanEnd, ScanCut, ScanStopped
    <3> QED
      BY <2>1, <3>1 DEF SamePass, Listing
  <2>5. CASE paretoStatus # "reading"
    BY <1>1, <1>3, <2>2, <2>5 DEF EndOfFile, CutOff, ParetoEnd, ParetoCut, ParetoStopped, ScanEnd,
       ScanCut, ScanStopped
  <2> QED
    BY <2>4, <2>5
<1>4. UNCHANGED vars => UNCHANGED <<scanVars, paretoVars>>
  BY DEF vars
<1> QED
  BY <1>1, <1>2, <1>3, <1>4 DEF Next

LEMMA PassesAgree == Spec => []SamePass
<1>1. Init => SamePass
  <2> SUFFICES ASSUME Init PROVE SamePass
    OBVIOUS
  <2>1. IsFiniteSet({}) /\ Cardinality({}) = 0
    BY FS_EmptySet
  <2>2. DOMAIN raw_attempts = {} /\ paretoAttempts = <<>>
    BY DEF Init, ScanInit, ParetoInit, EmptyMap
  <2>3. Range(raw_attempts) = {} /\ ToSet(paretoAttempts) = {} /\ Len(paretoAttempts) = 0
    BY <2>2 DEF Range, ToSet
  <2>4. /\ scanStatus = paretoStatus /\ run = paretoRun /\ groups = paretoGroups
        /\ slots = paretoSlots /\ manifest_wafers = paretoWafers /\ evidence = <<>> /\ paretoRead = 0
        /\ active = EmptyMap /\ paretoActive = EmptyMap
    BY DEF Init, ScanInit, ParetoInit
  <2>5. Listing = paretoActive
    BY <2>4 DEF Listing, EmptyMap
  <2>6. Len(evidence) = paretoRead /\ paretoAttempts \in Seq(ClosedAttempt)
    BY <2>2, <2>4
  <2>7. /\ IsFiniteSet(DOMAIN raw_attempts) /\ Range(raw_attempts) = ToSet(paretoAttempts)
        /\ Len(paretoAttempts) = Cardinality(DOMAIN raw_attempts)
    BY <2>1, <2>2, <2>3, Zenon
  <2> QED
    BY <2>4, <2>5, <2>6, <2>7 DEF SamePass
<1> QED
  BY <1>1, TypesOfScan, StepSamePass, PTL DEF Spec

\* In every file, as long as each of them goes on, the readers number attempts alike and
\* agree on which are open (StdfContext, viewer scan, traceability read, sanity scan); and
\* the Pareto report closes the viewer's attempts, with the viewer's slots, for as long as
\* it does not fail: it never finishes a file that the viewer gives up.
THEOREM ReadersAgree == Spec => []AttemptsAgree
<1>1. SameUnits /\ Numbered /\ SamePass => AttemptsAgree
  <2> SUFFICES ASSUME SameUnits, Numbered, SamePass PROVE AttemptsAgree
    OBVIOUS
  <2>1. eavStatus = "reading" /\ scanStatus = "reading" =>
          /\ part_seq = next_id
          /\ DOMAIN active_parts = DOMAIN active
          /\ \A p \in DOMAIN active : active_parts[p].part_seq = active[p].id
    BY DEF Numbered, EavNumbers, ScanNumbers
  <2>2. scanStatus = "reading" /\ traceStatus = "reading" =>
          /\ next_id = sequence
          /\ DOMAIN active = DOMAIN open_parts
          /\ \A p \in DOMAIN active : active[p].id = open_parts[p].sequence
    BY DEF Numbered, TraceNumbers, ScanNumbers
  <2>3. traceStatus = "reading" =>
          /\ sequence = Len(units)
          /\ DOMAIN open_parts = DOMAIN in_progress
          /\ \A p \in DOMAIN in_progress : open_parts[p].sequence = in_progress[p]
    BY DEF SameUnits, TraceNumbers
  <2>4. scanStatus # "failed" /\ paretoStatus # "failed" =>
          /\ [p \in DOMAIN active |-> active[p].slot] = [p \in DOMAIN paretoActive |-> paretoActive[p].slot]
          /\ Range(raw_attempts) = ToSet(paretoAttempts)
          /\ Len(paretoAttempts) = Cardinality(DOMAIN raw_attempts)
    <3> SUFFICES ASSUME paretoStatus # "failed"
                 PROVE  [p \in DOMAIN active |-> active[p].slot]
                          = [p \in DOMAIN paretoActive |-> paretoActive[p].slot]
      BY DEF SamePass
    <3>1. Listing = paretoActive
      BY DEF SamePass
    <3>2. DOMAIN paretoActive = DOMAIN active
      BY <3>1 DEF Listing
    <3>3. \A p \in DOMAIN active : paretoActive[p].slot = active[p].slot
      BY <3>1 DEF Listing
    <3> QED
      BY <3>2, <3>3
  <2>5. paretoStatus = "finished" => scanStatus = "finished"
    BY DEF SamePass
  <2> QED
    BY <2>1, <2>2, <2>3, <2>4, <2>5 DEF AttemptsAgree
<1> QED
  BY <1>1, NumbersAgree, PassesAgree, PTL

-----------------------------------------------------------------------------
(***************************************************************************)
(* WafersAgree.  Traceability is the strictest reader: while it goes on so *)
(* does the viewer, and its maps of sites and wafers are those of the      *)
(* sanity report and, within one run, those of the converter.  The         *)
(* viewer's slots are its open wafers and some without a name.  A part is  *)
(* given its wafer when it opens, and what traceability recorded then is   *)
(* never changed: TracedWafers only grows.                                 *)
(***************************************************************************)
OpenedPart == [sequence : Nat, wafer : WaferOrNone]
TracedAttempt == [position : Position, sequence : Nat, wafer : WaferOrNone, run : Nat]

TraceTypes ==
  /\ sequence \in Nat /\ run_number \in Nat
  /\ \A k \in DOMAIN wafers : wafers[k] \in WaferOrNone
  /\ \A p \in DOMAIN open_parts : open_parts[p] \in OpenedPart
  /\ attempts \in Seq(TracedAttempt)

LEMMA OpenPartType ==
  ASSUME TraceTypes, NEW pos
  PROVE  OpenPart(pos) \in OpenedPart
<1>1. NoWafer \in WaferOrNone /\ \A k \in DOMAIN wafers : wafers[k] \in WaferOrNone
  BY DEF TraceTypes, WaferOrNone
<1>2. wafer(pos) \in WaferOrNone
  BY <1>1, WaferAtType, Zenon DEF wafer
<1> QED
  BY <1>2 DEF OpenPart, OpenedPart, TraceTypes

\* The attempt that a PRR closes.
LEMMA ClosedPart ==
  ASSUME TraceTypes, NEW r \in Record, TracePrr(r), traceStatus' # "failed"
  PROVE  \E part \in OpenedPart, e \in TracedAttempt :
           /\ part = Get(open_parts, At(r), OpenPart(At(r)))
           /\ e.sequence = part.sequence /\ e.wafer = part.wafer
           /\ attempts' = Append(attempts, e)
           /\ Len(attempts') = Len(attempts) + 1
           /\ attempts' \in Seq(TracedAttempt)
           /\ attempts'[Len(attempts) + 1] = e
           /\ \A i \in 1 .. Len(attempts) : attempts'[i] = attempts[i]
           /\ open_parts' = Without(open_parts, At(r))
           /\ run_key /\ UNCHANGED <<sites, wafers, run_number, run_key>>
<1>1. PICK part : part = Get(open_parts, At(r), OpenPart(At(r)))
  OBVIOUS
<1>2. part \in OpenedPart
  BY <1>1, OpenPartType DEF Get, TraceTypes
<1>3. PICK e : e = [position |-> At(r), sequence |-> part.sequence, wafer |-> part.wafer,
                    run |-> run_number]
  OBVIOUS
<1>4. /\ run_key /\ attempts' = Append(attempts, e)
      /\ open_parts' = Without(open_parts, At(r)) /\ UNCHANGED <<sites, wafers, run_number, run_key>>
  BY <1>1, <1>3 DEF TracePrr, TraceFail
<1>5. At(r) \in Position
  BY RecordTypes DEF TracePrr, PartKind
<1>6. e \in TracedAttempt
  BY <1>2, <1>3, <1>5 DEF OpenedPart, TracedAttempt, TraceTypes
<1>7. e.sequence = part.sequence /\ e.wafer = part.wafer
  BY <1>3
<1>8. /\ Len(attempts') = Len(attempts) + 1 /\ attempts' \in Seq(TracedAttempt)
      /\ attempts'[Len(attempts) + 1] = e
      /\ \A i \in 1 .. Len(attempts) : attempts'[i] = attempts[i]
  BY <1>4, <1>6, AppendProperties DEF TraceTypes
<1> QED
  BY <1>1, <1>2, <1>4, <1>6, <1>7, <1>8

LEMMA TraceReadTypes ==
  ASSUME TraceTypes, NEW r \in Record, TraceReadRecord(r)
  PROVE  TraceTypes'
<1>1. CASE TraceFail
  BY <1>1 DEF TraceFail, TraceTypes, EmptyMap
<1>2. CASE UNCHANGED traceVars
  BY <1>2 DEF traceVars, TraceTypes
<1>3. CASE (TraceMir(r) \/ TraceMrr(r) \/ TraceSdr(r)) /\ ~TraceFail
  BY <1>3 DEF TraceMir, TraceMrr, TraceSdr, TraceTypes, EmptyMap
<1>4. CASE TraceWir(r)
  <2>1. r.wafer \in WaferOrNone
    BY <1>4, RecordTypes DEF TraceWir
  <2> QED
    BY <1>4, <2>1 DEF TraceWir, TraceTypes, Put
<1>5. CASE TraceWrr(r)
  BY <1>5 DEF TraceWrr, TraceTypes, Without
<1>6. CASE TracePir(r) /\ ~TraceFail
  <2>1. /\ sequence' = sequence + 1 /\ open_parts' = Put(open_parts, At(r), OpenPart(At(r)))
        /\ UNCHANGED <<wafers, run_number, attempts>>
    BY <1>6 DEF TracePir
  <2> QED
    BY <2>1, OpenPartType DEF TraceTypes, Put
<1>7. CASE TracePrr(r) /\ ~TraceFail
  <2>1. traceStatus' = traceStatus /\ sequence' \in {sequence, sequence + 1}
    BY <1>7 DEF TracePrr
  <2>2. CASE traceStatus' # "failed"
    <3>1. /\ attempts' \in Seq(TracedAttempt) /\ open_parts' = Without(open_parts, At(r))
          /\ UNCHANGED <<wafers, run_number>>
      BY <1>7, <2>2, ClosedPart
    <3> QED
      BY <2>1, <3>1 DEF TraceTypes, Without
  <2>3. CASE traceStatus' = "failed"
    BY <1>2, <2>1, <2>3 DEF TraceReadRecord, TraceStopped
  <2> QED
    BY <2>2, <2>3
<1>8. TraceTest(r) => TraceFail \/ UNCHANGED traceVars
  BY DEF TraceTest
<1> QED
  BY <1>1, <1>2, <1>3, <1>4, <1>5, <1>6, <1>7, <1>8 DEF TraceReadRecord, TraceStopped, TraceMalformed

LEMMA StepTraceTypes == TraceTypes /\ [Next]_vars => TraceTypes'
<1> SUFFICES ASSUME TraceTypes, [Next]_vars PROVE TraceTypes'
  OBVIOUS
<1>1. CASE UNCHANGED <<sites, wafers, open_parts, sequence, run_number, run_key, attempts>>
  BY <1>1 DEF TraceTypes
<1>2. ASSUME NEW r \in Alphabet, Deliver(r) PROVE TraceTypes'
  BY <1>2, AlphabetAssumption, TraceReadTypes DEF Deliver
<1>3. CASE TraceFail
  BY <1>3 DEF TraceFail, TraceTypes, EmptyMap
<1>4. EndOfFile \/ CutOff =>
        TraceFail \/ UNCHANGED <<sites, wafers, open_parts, sequence, run_number, run_key, attempts>>
  BY DEF EndOfFile, CutOff, TraceEnd, TraceCut, TraceStopped, traceVars
<1>5. UNCHANGED vars => UNCHANGED <<sites, wafers, open_parts, sequence, run_number, run_key, attempts>>
  BY DEF vars, traceVars
<1> QED
  BY <1>1, <1>2, <1>3, <1>4, <1>5 DEF Next

LEMMA TypesOfTrace == Spec => []TraceTypes
<1>1. Init => TraceTypes
  BY DEF Init, TraceInit, TraceTypes, EmptyMap
<1> QED
  BY <1>1, StepTraceTypes, PTL DEF Spec
-----------------------------------------------------------------------------
\* Each action is of one kind of record.
LEMMA KindsOfActions ==
  ASSUME NEW r
  PROVE  /\ (TraceMir(r) \/ ScanMir(r) \/ SanityMir(r) \/ EavMir(r) => r.kind = "MIR")
         /\ (TraceMrr(r) \/ ScanMrr(r) \/ SanityMrr(r) \/ EavMrr(r) => r.kind = "MRR")
         /\ (TraceSdr(r) \/ ScanSdr(r) \/ SanitySdr(r) \/ EavSdr(r) => r.kind = "SDR")
         /\ (TraceWir(r) \/ ScanWir(r) \/ SanityWir(r) \/ EavWir(r) => r.kind = "WIR")
         /\ (TraceWrr(r) \/ ScanWrr(r) \/ SanityWrr(r) \/ EavWrr(r) => r.kind = "WRR")
         /\ (TracePir(r) \/ SanityPir(r) \/ EavPir(r) => r.kind = "PIR")
         /\ (TracePrr(r) \/ SanityPrr(r) \/ EavPrr(r) => r.kind = "PRR")
         /\ (TraceTest(r) \/ SanityTest(r) \/ EavTest(r) => r.kind \in TestKind)
         /\ (ScanSide(r) => r.kind \in PartKind \cup TestKind)
         /\ (OutsidePartContext(r) => r.kind \in PartKind /\ ~run_open)
         /\ (SanityPir(r) \/ SanityPrr(r) => run_open)
         /\ (TraceMalformed(r) \/ ScanMalformed(r) \/ SanityMalformed(r) \/ EavMalformed(r)
               => r.kind = "Malformed")
BY DEF TraceMir, TraceMrr, TraceSdr, TraceWir, TraceWrr, TracePir, TracePrr, TraceTest, TraceMalformed,
   ScanMir, ScanMrr, ScanSdr, ScanWir, ScanWrr, ScanSide, ScanMalformed,
   SanityMir, SanityMrr, SanitySdr, SanityWir, SanityWrr, SanityPir, SanityPrr, SanityTest,
   SanityMalformed, OutsidePartContext,
   EavMir, EavMrr, EavSdr, EavWir, EavWrr, EavPir, EavTest, EavPrr, EavMalformed

\* While traceability goes on, so does the viewer; and both finish at the end of the file.
ScanFollows ==
  /\ traceStatus \in {"reading", "finished", "failed"}
  /\ traceStatus # "failed" => scanStatus = traceStatus
  /\ traceStatus = "finished" => ended

LEMMA StepScanFollows ==
  SameUnits /\ Numbered /\ ScanFollows /\ [Next]_vars => ScanFollows'
<1> SUFFICES ASSUME SameUnits, Numbered, ScanFollows, [Next]_vars PROVE ScanFollows'
  OBVIOUS
<1> USE DEF ScanFollows
<1>1. CASE UNCHANGED vars
  BY <1>1 DEF vars, scanVars, traceVars
<1>0. traceStatus = "reading" => DOMAIN active = DOMAIN open_parts
  BY DEF Numbered, ScanNumbers, TraceNumbers
<1>2. ASSUME NEW r \in Alphabet, Deliver(r) PROVE ScanFollows'
  <2>1. r \in Record /\ ~ended /\ ScanRead(r) /\ TraceReadRecord(r) /\ ended' = ended
    BY <1>2, AlphabetAssumption DEF Deliver
  <2>2. CASE traceStatus = "failed"
    BY <2>1, <2>2, KindsOfActions DEF TraceReadRecord, TraceStopped, traceVars
  <2>3. CASE traceStatus = "reading" /\ traceStatus' # "failed"
    <3>1. traceStatus' = "reading"
      BY <2>1, <2>3 DEF TraceReadRecord, TraceStopped, TraceMir, TraceMrr, TraceSdr, TraceWir, TraceWrr,
         TracePir, TracePrr, TraceTest, TraceMalformed, TraceFail, traceVars
    <3>2. /\ r.kind # "Malformed" /\ (r.kind \in RunKind => DOMAIN active = {})
          /\ (r.kind = "PIR" => At(r) \notin DOMAIN active)
      BY <1>0, <2>1, <2>3 DEF TraceReadRecord, TraceStopped, TraceMir, TraceMrr, TraceSdr, TraceWir,
         TraceWrr, TracePir, TracePrr, TraceTest, TraceMalformed, TraceFail, RunKind, TestKind
    <3>3. scanStatus' = scanStatus
      BY <2>1, <2>3, <3>2 DEF ScanRead, ScanStopped, ScanMir, ScanMrr, ScanSdr, ScanWir, ScanWrr, ScanSide,
         ScanMalformed, Index, RunKind
    <3> QED
      BY <2>1, <2>3, <3>1, <3>3
  <2>4. traceStatus' \in {"reading", "failed"}
    BY <2>1 DEF TraceReadRecord, TraceStopped, TraceMir, TraceMrr, TraceSdr, TraceWir, TraceWrr,
       TracePir, TracePrr, TraceTest, TraceMalformed, TraceFail, traceVars
  <2> QED
    BY <2>1, <2>2, <2>3, <2>4
<1>3. CASE EndOfFile \/ CutOff
  <2>1. ended' = TRUE /\ ~ended
    BY <1>3 DEF EndOfFile, CutOff
  <2>2. traceStatus' # "failed" => traceStatus = "reading" /\ EndOfFile /\ traceStatus' = "finished"
                                   /\ DOMAIN open_parts = {}
    <3>1. CASE EndOfFile
      BY <2>1, <3>1, Zenon DEF EndOfFile, TraceEnd, TraceStopped, TraceFail, traceVars
    <3>2. CASE CutOff
      BY <2>1, <3>2 DEF CutOff, TraceCut, TraceStopped, TraceFail, traceVars
    <3> QED
      BY <1>3, <3>1, <3>2, Zenon
  <2>3. traceStatus' # "failed" => scanStatus' = "finished"
    BY <1>0, <2>2 DEF EndOfFile, ScanEnd, ScanStopped, ScanFail
  <2>4. traceStatus' \in {"reading", "finished", "failed"}
    BY <1>3 DEF EndOfFile, CutOff, TraceEnd, TraceCut, TraceStopped, TraceFail, traceVars
  <2> QED
    BY <2>1, <2>2, <2>3, <2>4
<1> QED
  BY <1>1, <1>2, <1>3 DEF Next

LEMMA ScanFollowsTrace == Spec => []ScanFollows
<1>1. Init => ScanFollows
  BY DEF Init, ScanInit, TraceInit, ScanFollows
<1> QED
  BY <1>1, NumbersAgree, StepScanFollows, PTL DEF Spec

\* A record that traceability accepts is read by the viewer and the sanity report, and by
\* the converter if that goes on.
LEMMA ReadTogether ==
  ASSUME SameUnits, ScanFollows, ScanFollows', NEW r \in Record,
         EavRead(r), ScanRead(r), TraceReadRecord(r), SanityRead(r), traceStatus' = "reading"
  PROVE  /\ traceStatus = "reading" /\ scanStatus = "reading" /\ scanStatus' = "reading"
         /\ eavStatus' = "reading" => eavStatus = "reading"
         /\ \/ r.kind = "MIR" /\ TraceMir(r) /\ ScanMir(r) /\ SanityMir(r)
                 /\ (eavStatus' = "reading" => EavMir(r))
            \/ r.kind = "MRR" /\ TraceMrr(r) /\ ScanMrr(r) /\ SanityMrr(r)
                 /\ (eavStatus' = "reading" => EavMrr(r))
            \/ r.kind = "SDR" /\ TraceSdr(r) /\ ScanSdr(r) /\ SanitySdr(r)
                 /\ (eavStatus' = "reading" => EavSdr(r))
            \/ r.kind = "WIR" /\ TraceWir(r) /\ ScanWir(r) /\ SanityWir(r)
                 /\ (eavStatus' = "reading" => EavWir(r))
            \/ r.kind = "WRR" /\ TraceWrr(r) /\ ScanWrr(r) /\ SanityWrr(r)
                 /\ (eavStatus' = "reading" => EavWrr(r))
            \/ r.kind = "PIR" /\ TracePir(r) /\ ScanSide(r) /\ SanityPir(r)
                 /\ (eavStatus' = "reading" => EavPir(r))
            \/ r.kind = "PRR" /\ TracePrr(r) /\ ScanSide(r) /\ SanityPrr(r)
                 /\ (eavStatus' = "reading" => EavPrr(r))
            \/ r.kind \in TestKind /\ TraceTest(r) /\ ScanSide(r) /\ SanityTest(r)
                 /\ (eavStatus' = "reading" => EavTest(r))
<1>1. traceStatus = "reading"
  BY DEF TraceReadRecord, TraceStopped, traceVars
<1>2. scanStatus = "reading" /\ scanStatus' = "reading"
  BY <1>1 DEF ScanFollows
<1>3. eavStatus' = "reading" => eavStatus = "reading"
  BY DEF EavRead, EavStopped, eavVars
<1>4. \/ TraceMir(r) \/ TraceMrr(r) \/ TraceSdr(r) \/ TraceWir(r) \/ TraceWrr(r)
      \/ TracePir(r) \/ TraceTest(r) \/ TracePrr(r) \/ TraceMalformed(r)
  BY <1>1 DEF TraceReadRecord, TraceStopped
<1>5. \/ ScanMir(r) \/ ScanMrr(r) \/ ScanSdr(r) \/ ScanWir(r) \/ ScanWrr(r)
      \/ ScanSide(r) \/ ScanMalformed(r)
  BY <1>2 DEF ScanRead, ScanStopped
<1>6. eavStatus' = "reading" =>
        \/ EavMir(r) \/ EavMrr(r) \/ EavSdr(r) \/ EavWir(r) \/ EavWrr(r)
        \/ EavPir(r) \/ EavTest(r) \/ EavPrr(r) \/ EavMalformed(r)
  BY <1>3 DEF EavRead, EavStopped
<1>7. r.kind # "Malformed"
  BY <1>4, KindsOfActions DEF TraceMalformed, TraceFail, TestKind
<1>8. r.kind \in PartKind => run_open
  <2>1. run_open = run_key
    BY <1>1 DEF SameUnits
  <2>2. r.kind \in PartKind => TracePir(r) \/ TracePrr(r)
    BY <1>4, KindsOfActions DEF PartKind, TestKind
  <2> QED
    BY <2>1, <2>2 DEF TracePir, TracePrr, TraceFail
<1>9. \/ SanityMir(r) \/ SanityMrr(r) \/ SanitySdr(r) \/ SanityWir(r) \/ SanityWrr(r)
      \/ SanityPir(r) \/ SanityPrr(r) \/ SanityTest(r)
  BY <1>7, <1>8, KindsOfActions DEF SanityRead
<1> QED
  BY <1>1, <1>2, <1>3, <1>4, <1>5, <1>6, <1>7, <1>9, KindsOfActions, Zenon DEF PartKind, TestKind

\* The end of a file that traceability accepts changes nothing but what is reported.
LEMMA TracedEnd ==
  ASSUME ScanFollows, ScanFollows', EndOfFile \/ CutOff, traceStatus' # "failed"
  PROVE  /\ traceStatus = "reading" /\ scanStatus = "reading" /\ EndOfFile
         /\ UNCHANGED <<sites, wafers, open_parts, sequence, run_number, run_key, attempts>>
         /\ UNCHANGED <<run, next_id, groups, slots, active, manifest_wafers, evidence, raw_attempts>>
         /\ UNCHANGED <<run_open, site_map, wafer_map, in_progress, units, renamed>>
         /\ issues \subseteq issues'
         /\ DOMAIN open_parts = {} /\ ~run_key
<1>1. ~ended
  BY DEF EndOfFile, CutOff
<1>2. traceStatus = "reading" \/ TraceStopped
  BY DEF EndOfFile, CutOff, TraceEnd, TraceCut
<1>3. TraceStopped => traceStatus' = traceStatus
  BY DEF TraceStopped, traceVars
<1>4. traceStatus = "reading"
  BY <1>1, <1>2, <1>3 DEF ScanFollows, TraceStopped
<1>5. EndOfFile
  BY <1>4 DEF CutOff, TraceCut, TraceStopped, TraceFail
<1>6. /\ UNCHANGED <<sites, wafers, open_parts, sequence, run_number, run_key, attempts>>
      /\ DOMAIN open_parts = {} /\ ~run_key
  <2>1. TraceEnd
    BY <1>5 DEF EndOfFile
  <2> QED
    BY <1>4, <2>1 DEF TraceEnd, TraceStopped, TraceFail
<1>7. UNCHANGED <<run, next_id, groups, slots, active, manifest_wafers, evidence, raw_attempts>>
  <2>1. ScanEnd /\ scanStatus = "reading"
    BY <1>4, <1>5 DEF EndOfFile, ScanFollows
  <2>2. ~ScanFail
    BY DEF ScanFail, ScanFollows
  <2> QED
    BY <2>1, <2>2 DEF ScanEnd, ScanStopped
<1> QED
  BY <1>4, <1>5, <1>6, <1>7 DEF EndOfFile, SanityEnd, Closing, ScanFollows

Traced == traceStatus # "failed"
InRun == "run_context" \notin issues

SameMaps ==
  /\ Traced => site_map = sites /\ wafer_map = wafers /\ groups = sites
  /\ Traced /\ run_number = 0 => ~run_key /\ (InRun => sites = EmptyMap /\ wafers = EmptyMap)
  /\ Traced /\ InRun /\ eavStatus = "reading" /\ run_number <= 1 =>
       site_groups = sites /\ wafer_ids = wafers

LEMMA IssuesStay ==
  ASSUME NEW r, SanityRead(r)
  PROVE  issues \subseteq issues'
BY DEF SanityRead, SanityMir, SanityMrr, SanitySdr, SanityWir, SanityWrr, OutsidePartContext,
   SanityPir, SanityPrr, SanityTest, SanityMalformed, OpenRun, CloseRun

LEMMA ReadSameMaps ==
  ASSUME SameUnits, ScanFollows, ScanFollows', TraceTypes, SameMaps, NEW r \in Record,
         EavRead(r), ScanRead(r), TraceReadRecord(r), SanityRead(r), traceStatus' = "reading"
  PROVE  SameMaps'
<1>1. /\ traceStatus = "reading" /\ scanStatus = "reading" /\ scanStatus' = "reading"
      /\ (eavStatus' = "reading" => eavStatus = "reading")
  BY ReadTogether
<1>2. site_map = sites /\ wafer_map = wafers /\ groups = sites /\ run_open = run_key
      /\ run_number \in Nat
  BY <1>1 DEF SameMaps, Traced, SameUnits, TraceTypes
<1>3. InRun' => InRun
  BY IssuesStay DEF InRun
<1>4. CASE r.kind = "MIR"
  <2>1. TraceMir(r) /\ ScanMir(r) /\ SanityMir(r) /\ (eavStatus' = "reading" => EavMir(r))
    BY <1>4, ReadTogether DEF TestKind
  <2>2. /\ sites' = EmptyMap /\ wafers' = EmptyMap /\ run_number' = run_number + 1
        /\ site_map' = EmptyMap /\ wafer_map' = EmptyMap /\ groups' = EmptyMap
    BY <1>1, <2>1 DEF TraceMir, TraceFail, SanityMir, OpenRun, ScanMir, ScanFail
  <2>3. eavStatus' = "reading" => UNCHANGED <<site_groups, wafer_ids>>
    BY <2>1 DEF EavMir, context
  <2>4. InRun' /\ eavStatus' = "reading" /\ run_number' <= 1 =>
          site_groups' = EmptyMap /\ wafer_ids' = EmptyMap
    BY <1>1, <1>2, <1>3, <2>2, <2>3 DEF SameMaps, Traced
  <2> QED
    BY <1>2, <2>2, <2>4 DEF SameMaps
<1>5. CASE r.kind = "MRR"
  <2>1. TraceMrr(r) /\ ScanMrr(r) /\ SanityMrr(r) /\ (eavStatus' = "reading" => EavMrr(r))
    BY <1>5, ReadTogether DEF TestKind
  <2>2. /\ run_key /\ UNCHANGED <<sites, wafers, run_number, groups, site_map, wafer_map>>
        /\ (eavStatus' = "reading" => UNCHANGED <<site_groups, wafer_ids>>)
    BY <1>1, <2>1 DEF TraceMrr, TraceFail, ScanMrr, ScanFail, SanityMrr, CloseRun, EavMrr, context
  <2> QED
    BY <1>1, <1>2, <1>3, <2>2 DEF SameMaps, Traced
<1>6. CASE r.kind \in {"SDR", "WIR", "WRR"}
  <2>1. \/ TraceSdr(r) /\ ScanSdr(r) /\ SanitySdr(r) /\ (eavStatus' = "reading" => EavSdr(r))
        \/ TraceWir(r) /\ ScanWir(r) /\ SanityWir(r) /\ (eavStatus' = "reading" => EavWir(r))
        \/ TraceWrr(r) /\ ScanWrr(r) /\ SanityWrr(r) /\ (eavStatus' = "reading" => EavWrr(r))
    BY <1>6, ReadTogether DEF TestKind
  <2>2. UNCHANGED <<run_number, run_key>> /\ (InRun' => run_key)
    BY <1>2, <2>1 DEF TraceSdr, TraceWir, TraceWrr, SanitySdr, SanityWir, SanityWrr, OutsideRun, Found,
       InRun
  <2>3. site_map' = sites' /\ wafer_map' = wafers' /\ groups' = sites'
    BY <1>2, <2>1 DEF TraceSdr, TraceWir, TraceWrr, SanitySdr, SanityWir, SanityWrr, ScanSdr, ScanWir,
       ScanWrr
  <2>4. eavStatus' = "reading" /\ site_groups = sites /\ wafer_ids = wafers =>
          site_groups' = sites' /\ wafer_ids' = wafers'
    BY <2>1 DEF TraceSdr, TraceWir, TraceWrr, EavSdr, EavWir, EavWrr, EavRefuse, EavFail
  <2> QED
    BY <1>1, <1>2, <1>3, <2>2, <2>3, <2>4 DEF SameMaps, Traced
<1>7. CASE r.kind \in PartKind \cup TestKind
  <2>1. /\ TracePir(r) \/ TracePrr(r) \/ TraceTest(r)
        /\ ScanSide(r)
        /\ SanityPir(r) \/ SanityPrr(r) \/ SanityTest(r)
        /\ eavStatus' = "reading" => EavPir(r) \/ EavPrr(r) \/ EavTest(r)
    BY <1>7, ReadTogether DEF TestKind, PartKind
  <2>2. UNCHANGED <<sites, wafers, run_number, run_key, site_map, wafer_map>>
    BY <1>1, <2>1 DEF TracePir, TracePrr, TraceTest, TraceFail, traceVars, SanityPir, SanityPrr, SanityTest
  <2>3. groups' = groups
    BY <1>1, <2>1, SideOrFail DEF ScanFail, SideStep
  <2>4. eavStatus' = "reading" => UNCHANGED <<site_groups, wafer_ids>>
    BY <2>1 DEF EavPir, EavPrr, EavTest, EavRefuse, EavFail
  <2> QED
    BY <1>1, <1>2, <1>3, <2>2, <2>3, <2>4 DEF SameMaps, Traced
<1>8. r.kind \in {"MIR", "MRR", "SDR", "WIR", "WRR"} \cup PartKind \cup TestKind
  BY ReadTogether DEF PartKind
<1> QED
  BY <1>4, <1>5, <1>6, <1>7, <1>8

LEMMA StepSameMaps ==
  SameUnits /\ ScanFollows /\ ScanFollows' /\ TraceTypes /\ SameMaps /\ [Next]_vars => SameMaps'
<1> SUFFICES ASSUME SameUnits, ScanFollows, ScanFollows', TraceTypes, SameMaps, [Next]_vars,
                    traceStatus' # "failed"
             PROVE  SameMaps'
  BY DEF SameMaps, Traced
<1>1. CASE UNCHANGED vars
  BY <1>1 DEF vars, eavVars, context, scanVars, traceVars, sanityVars, SameMaps, Traced, InRun
<1>2. ASSUME NEW r \in Alphabet, Deliver(r) PROVE SameMaps'
  <2>1. /\ r \in Record /\ ~ended /\ ended' = ended /\ EavRead(r) /\ ScanRead(r) /\ TraceReadRecord(r)
        /\ SanityRead(r)
    BY <1>2, AlphabetAssumption DEF Deliver
  <2>2. traceStatus' = "reading"
    BY <2>1 DEF ScanFollows
  <2> QED
    BY <2>1, <2>2, ReadSameMaps
<1>3. CASE EndOfFile \/ CutOff
  <2>1. /\ UNCHANGED <<sites, wafers, run_number, run_key, groups, site_map, wafer_map>>
        /\ (InRun' => InRun) /\ traceStatus = "reading"
    BY <1>3, TracedEnd DEF InRun
  <2>3. eavStatus' # "reading"
    BY <1>3, EndStopsReading
  <2> QED
    BY <2>1, <2>3 DEF SameMaps, Traced
<1> QED
  BY <1>1, <1>2, <1>3 DEF Next

LEMMA MapsAgree == Spec => []SameMaps
<1>1. Init => SameMaps
  BY DEF Init, EavInit, ScanInit, TraceInit, SanityInit, SameMaps
<1> QED
  BY <1>1, NumbersAgree, TypesOfTrace, ScanFollowsTrace, StepSameMaps, PTL DEF Spec

\* Nothing that traceability recorded is changed, and a part that opens is recorded.
LEMMA TracedGrows ==
  ASSUME TraceTypes, NEW r \in Record, TraceReadRecord(r), traceStatus' = "reading"
  PROVE  /\ TracedWafers \subseteq TracedWafers'
         /\ r.kind \in PartKind /\ At(r) \notin DOMAIN open_parts =>
              <<sequence + 1, wafer(At(r))>> \in TracedWafers'
<1>0. traceStatus = "reading"
  BY DEF TraceReadRecord, TraceStopped, traceVars
<1>1. CASE r.kind \notin PartKind
  <2>1. UNCHANGED <<open_parts, attempts>>
    BY <1>0, <1>1 DEF TraceReadRecord, TraceStopped, TraceMir, TraceMrr, TraceSdr, TraceWir, TraceWrr,
       TracePir, TracePrr, TraceTest, TraceMalformed, TraceFail, traceVars, PartKind
  <2> QED
    BY <1>1, <2>1 DEF TracedWafers
<1>2. CASE r.kind = "PIR"
  <2>1. TracePir(r)
    BY <1>0, <1>2, KindsOfActions DEF TraceReadRecord, TraceStopped, TestKind
  <2>2. /\ open_parts' = Put(open_parts, At(r), OpenPart(At(r))) /\ attempts' = attempts
        /\ At(r) \notin DOMAIN open_parts
    BY <2>1 DEF TracePir, TraceFail
  <2>3. /\ At(r) \in DOMAIN open_parts' /\ open_parts'[At(r)] = OpenPart(At(r))
        /\ \A p \in DOMAIN open_parts : p \in DOMAIN open_parts' /\ open_parts'[p] = open_parts[p]
    BY <2>2 DEF Put
  <2>4. OpenPart(At(r)).sequence = sequence + 1 /\ OpenPart(At(r)).wafer = wafer(At(r))
    BY DEF OpenPart
  <2>5. TracedWafers \subseteq TracedWafers'
    BY <2>2, <2>3 DEF TracedWafers
  <2>6. <<open_parts'[At(r)].sequence, open_parts'[At(r)].wafer>> \in TracedWafers'
    BY <2>3 DEF TracedWafers
  <2> QED
    BY <2>3, <2>4, <2>5, <2>6
<1>3. CASE r.kind = "PRR"
  <2>1. TracePrr(r)
    BY <1>0, <1>3, KindsOfActions DEF TraceReadRecord, TraceStopped, TestKind
  <2>2. PICK part \in OpenedPart, e \in TracedAttempt :
           /\ part = Get(open_parts, At(r), OpenPart(At(r)))
           /\ e.sequence = part.sequence /\ e.wafer = part.wafer
           /\ Len(attempts') = Len(attempts) + 1
           /\ attempts' \in Seq(TracedAttempt)
           /\ attempts'[Len(attempts) + 1] = e
           /\ \A i \in 1 .. Len(attempts) : attempts'[i] = attempts[i]
           /\ open_parts' = Without(open_parts, At(r))
    BY <2>1, ClosedPart
  <2>3. /\ Len(attempts) \in Nat /\ DOMAIN attempts = 1 .. Len(attempts)
        /\ DOMAIN attempts' = 1 .. Len(attempts) + 1
    BY <2>2 DEF TraceTypes
  <2>4. Len(attempts) + 1 \in DOMAIN attempts'
    BY <2>3
  <2>5. <<part.sequence, part.wafer>> \in TracedWafers'
    <3>1. <<attempts'[Len(attempts) + 1].sequence, attempts'[Len(attempts) + 1].wafer>> \in TracedWafers'
      BY <2>4 DEF TracedWafers
    <3> QED
      BY <2>2, <3>1
  <2>6. \A p \in DOMAIN open_parts : <<open_parts[p].sequence, open_parts[p].wafer>> \in TracedWafers'
    <3> SUFFICES ASSUME NEW p \in DOMAIN open_parts
                 PROVE  <<open_parts[p].sequence, open_parts[p].wafer>> \in TracedWafers'
      OBVIOUS
    <3>1. CASE p = At(r)
      BY <2>2, <2>5, <3>1 DEF Get
    <3>2. CASE p # At(r)
      <4>1. p \in DOMAIN open_parts' /\ open_parts'[p] = open_parts[p]
        BY <2>2, <3>2 DEF Without
      <4> QED
        BY <4>1 DEF TracedWafers
    <3> QED
      BY <3>1, <3>2
  <2>7. \A i \in DOMAIN attempts : <<attempts[i].sequence, attempts[i].wafer>> \in TracedWafers'
    <3> SUFFICES ASSUME NEW i \in DOMAIN attempts
                 PROVE  <<attempts[i].sequence, attempts[i].wafer>> \in TracedWafers'
      OBVIOUS
    <3>1. i \in DOMAIN attempts' /\ attempts'[i] = attempts[i]
      BY <2>2, <2>3
    <3> QED
      BY <3>1 DEF TracedWafers
  <2>8. TracedWafers \subseteq TracedWafers'
    BY <2>6, <2>7 DEF TracedWafers
  <2>9. At(r) \notin DOMAIN open_parts => part.sequence = sequence + 1 /\ part.wafer = wafer(At(r))
    BY <2>2 DEF Get, OpenPart
  <2> QED
    BY <2>5, <2>8, <2>9
<1> QED
  BY <1>1, <1>2, <1>3 DEF PartKind

\* Traceability accepts a test in an open part only.
LEMMA TestInPart ==
  ASSUME SameUnits, ScanFollows, ScanFollows', NEW r \in Record, r.kind \in TestKind,
         EavRead(r), ScanRead(r), TraceReadRecord(r), SanityRead(r), traceStatus' = "reading"
  PROVE  At(r) \in DOMAIN open_parts
<1>1. TraceTest(r)
  BY ReadTogether DEF TestKind
<1> QED
  BY <1>1 DEF TraceTest, TraceFail

\* The converter's parts and batches have the wafers that traceability recorded for them.
EavTraced ==
  Traced /\ InRun /\ eavStatus \in {"reading", "finished"} /\ run_number <= 1 =>
    /\ \A p \in DOMAIN active_parts :
         <<active_parts[p].part_seq, active_parts[p].wafer_id>> \in TracedWafers
    /\ \A i \in DOMAIN batches :
         <<batches[i].part_sequence, batches[i].wafer_id>> \in TracedWafers

LEMMA ReadEavTraced ==
  ASSUME EInv, EavTypes, SameUnits, Numbered, ScanFollows, ScanFollows', TraceTypes, SameMaps, EavTraced,
         NEW r \in Record, EavRead(r), ScanRead(r), TraceReadRecord(r), SanityRead(r),
         traceStatus' = "reading", eavStatus' = "reading", InRun', run_number' <= 1
  PROVE  EavTraced'
<1>1. /\ traceStatus = "reading" /\ scanStatus = "reading" /\ eavStatus = "reading"
  BY ReadTogether
<1>2. InRun
  BY IssuesStay DEF InRun
<1>3. run_number <= 1
  BY <1>1 DEF TraceReadRecord, TraceStopped, TraceMir, TraceMrr, TraceSdr, TraceWir, TraceWrr,
     TracePir, TracePrr, TraceTest, TraceMalformed, TraceFail, traceVars, TraceTypes
<1>4. /\ TracedWafers \subseteq TracedWafers'
      /\ r.kind \in PartKind /\ At(r) \notin DOMAIN open_parts =>
           <<sequence + 1, wafer(At(r))>> \in TracedWafers'
  BY TracedGrows
<1>5. /\ \A p \in DOMAIN active_parts :
           <<active_parts[p].part_seq, active_parts[p].wafer_id>> \in TracedWafers'
      /\ \A i \in DOMAIN batches :
           <<batches[i].part_sequence, batches[i].wafer_id>> \in TracedWafers'
  BY <1>1, <1>2, <1>3, <1>4 DEF EavTraced, Traced
<1>6. site_groups = sites /\ wafer_ids = wafers
  BY <1>1, <1>2, <1>3 DEF SameMaps, Traced
<1>7. part_seq = sequence /\ DOMAIN active_parts = DOMAIN open_parts
  BY <1>1 DEF Numbered, EavNumbers, ScanNumbers, TraceNumbers
<1>8. NewPart(At(r)).part_seq = sequence + 1 /\ NewPart(At(r)).wafer_id = wafer(At(r))
  BY <1>6, <1>7 DEF NewPart, wafer_for, wafer
<1>9. CASE r.kind \notin PartKind \cup TestKind
  <2>1. UNCHANGED <<active_parts, batches>>
    BY <1>9, ReadTogether DEF EavMir, EavMrr, EavSdr, EavWir, EavWrr, EavRefuse, EavFail, context, PartKind
  <2> QED
    BY <1>5, <2>1 DEF EavTraced
<1>10. CASE r.kind = "PIR"
  <2>1. EavPir(r)
    BY <1>10, ReadTogether DEF TestKind
  <2>2. /\ active_parts' = Put(active_parts, At(r), NewPart(At(r))) /\ batches' = batches
        /\ At(r) \notin DOMAIN active_parts
    BY <1>1, <2>1 DEF EavPir, EavRefuse, EavFail, EInv, Charged
  <2>3. \A p \in DOMAIN active_parts' :
          <<active_parts'[p].part_seq, active_parts'[p].wafer_id>> \in TracedWafers'
    BY <1>4, <1>5, <1>7, <1>8, <1>10, <2>2 DEF Put, PartKind
  <2> QED
    BY <1>5, <2>2, <2>3 DEF EavTraced
<1>11. CASE r.kind \in TestKind
  <2>1. EavTest(r) /\ At(r) \in DOMAIN active_parts
    BY <1>7, <1>11, ReadTogether, TestInPart DEF TestKind
  <2> PICK part : part = active_parts[At(r)]
    OBVIOUS
  <2>2. /\ active_parts' = Put(active_parts, At(r), [part EXCEPT !.tests = @ + RowsOf(r)])
        /\ batches' = batches
    BY <2>1 DEF EavTest, EavRefuse, EavFail, Get
  <2>3. part \in Part
    BY <2>1 DEF EavTypes
  <2>4. /\ [part EXCEPT !.tests = @ + RowsOf(r)].part_seq = part.part_seq
        /\ [part EXCEPT !.tests = @ + RowsOf(r)].wafer_id = part.wafer_id
    BY <2>3 DEF Part
  <2>5. \A p \in DOMAIN active_parts' :
          <<active_parts'[p].part_seq, active_parts'[p].wafer_id>> \in TracedWafers'
    BY <1>5, <2>1, <2>2, <2>4 DEF Put
  <2> QED
    BY <1>5, <2>2, <2>5 DEF EavTraced
<1>12. CASE r.kind = "PRR"
  <2>1. EavPrr(r)
    BY <1>12, ReadTogether DEF TestKind
  <2>2. active_parts' = Without(active_parts, At(r))
    BY <2>1 DEF EavPrr
  <2>3. PICK batch \in Batch :
           /\ batch.part_sequence = Get(active_parts, At(r), NewPart(At(r))).part_seq
           /\ batch.wafer_id = Get(active_parts, At(r), NewPart(At(r))).wafer_id
           /\ batches' = Emit(batch)
    BY <1>1, <2>1, PrrBatch
  <2>4. <<batch.part_sequence, batch.wafer_id>> \in TracedWafers'
    BY <1>4, <1>5, <1>7, <1>8, <1>12, <2>3 DEF Get, PartKind
  <2>5. \A i \in DOMAIN batches' :
           <<batches'[i].part_sequence, batches'[i].wafer_id>> \in TracedWafers'
    <3>1. batch.rows = 0 \/ batch.rows > 0
      BY DEF Batch
    <3>2. CASE batch.rows = 0
      BY <1>5, <2>3, <3>2 DEF Emit
    <3>3. ASSUME batch.rows > 0
          PROVE  \A i \in DOMAIN batches' :
                   <<batches'[i].part_sequence, batches'[i].wafer_id>> \in TracedWafers'
      <4>1. /\ batches' \in Seq(Batch) /\ Len(batches') = Len(batches) + 1
            /\ batches'[Len(batches) + 1] = batch
            /\ \A i \in 1 .. Len(batches) : batches'[i] = batches[i]
        BY <2>3, <3>3, EmitType
      <4>2. /\ Len(batches) \in Nat /\ DOMAIN batches = 1 .. Len(batches)
            /\ DOMAIN batches' = 1 .. Len(batches) + 1
        BY <4>1 DEF EavTypes
      <4>3. \A i \in DOMAIN batches' : i \in 1 .. Len(batches) \/ i = Len(batches) + 1
        BY <4>2
      <4> QED
        BY <1>5, <2>4, <4>1, <4>2, <4>3
    <3> QED
      BY <3>1, <3>2, <3>3, Zenon
  <2>6. \A p \in DOMAIN active_parts' :
          <<active_parts'[p].part_seq, active_parts'[p].wafer_id>> \in TracedWafers'
    BY <1>5, <2>2 DEF Without
  <2> QED
    BY <2>5, <2>6 DEF EavTraced
<1> QED
  BY <1>9, <1>10, <1>11, <1>12 DEF PartKind

LEMMA StepEavTraced ==
  EInv /\ EavTypes /\ RowsKept /\ SameUnits /\ Numbered /\ ScanFollows /\ ScanFollows' /\ TraceTypes
    /\ SameMaps /\ EavTraced /\ [Next]_vars => EavTraced'
<1> SUFFICES ASSUME EInv, EavTypes, RowsKept, SameUnits, Numbered, ScanFollows, ScanFollows', TraceTypes,
                    SameMaps, EavTraced, [Next]_vars,
                    traceStatus' # "failed", InRun', eavStatus' \in {"reading", "finished"},
                    run_number' <= 1
             PROVE  EavTraced'
  BY DEF EavTraced, Traced
<1>1. CASE UNCHANGED vars
  BY <1>1 DEF vars, eavVars, context, traceVars, sanityVars, EavTraced, Traced, InRun, TracedWafers
<1>2. ASSUME NEW r \in Alphabet, Deliver(r) PROVE EavTraced'
  <2>1. /\ r \in Record /\ ~ended /\ ended' = ended /\ EavRead(r) /\ ScanRead(r) /\ TraceReadRecord(r)
        /\ SanityRead(r)
    BY <1>2, AlphabetAssumption DEF Deliver
  <2>2. traceStatus' = "reading"
    BY <2>1 DEF ScanFollows
  <2>3. eavStatus' = "reading"
    BY <2>1 DEF EavRead, EavStopped, eavVars, EavMir, EavMrr, EavSdr, EavWir, EavWrr, EavPir, EavTest,
           EavPrr, EavMalformed, EavRefuse, EavFail, EavAccept, RowsKept
  <2> QED
    BY <2>1, <2>2, <2>3, ReadEavTraced
<1>3. CASE EndOfFile \/ CutOff
  <2>1. /\ UNCHANGED <<open_parts, attempts, run_number>>
        /\ (InRun' => InRun) /\ traceStatus = "reading" /\ EndOfFile
    BY <1>3, TracedEnd DEF InRun
  <2>2. UNCHANGED batches /\ active_parts' = EmptyMap /\ eavStatus = "reading"
    BY <2>1 DEF EndOfFile, EavEnd, EavStopped, EavFail, Discard, RowsKept, eavVars
  <2> QED
    BY <2>1, <2>2 DEF EavTraced, Traced, TracedWafers, EmptyMap
<1> QED
  BY <1>1, <1>2, <1>3 DEF Next

\* A unit with a wafer has the one that traceability recorded for it.
UnitsTraced ==
  Traced => \A i \in 1 .. Len(units) : units[i].wafer # NoWafer => <<i, units[i].wafer>> \in TracedWafers

LEMMA UnitWaferAgrees ==
  ASSUME Traced, SameMaps, NEW pos, UnitWafer(pos) # NoWafer
  PROVE  UnitWafer(pos) = wafer(pos)
BY DEF SameMaps, UnitWafer, wafer, WaferAt, Get

LEMMA ReadUnitsTraced ==
  ASSUME SanityTypes, SameUnits, ScanFollows, ScanFollows', TraceTypes, SameMaps, UnitsTraced,
         NEW r \in Record, EavRead(r), ScanRead(r), TraceReadRecord(r), SanityRead(r),
         traceStatus' = "reading"
  PROVE  UnitsTraced'
<1>1. traceStatus = "reading" /\ Traced
  BY ReadTogether DEF Traced
<1>2. /\ TracedWafers \subseteq TracedWafers'
      /\ r.kind \in PartKind /\ At(r) \notin DOMAIN open_parts =>
           <<sequence + 1, wafer(At(r))>> \in TracedWafers'
  BY TracedGrows
<1>3. \A i \in 1 .. Len(units) :
        units[i].wafer # NoWafer => <<i, units[i].wafer>> \in TracedWafers'
  BY <1>1, <1>2 DEF UnitsTraced
<1>4. /\ Len(units) = sequence /\ Len(units) \in Nat /\ units \in Seq(Unit)
      /\ DOMAIN in_progress = DOMAIN open_parts
  BY <1>1 DEF SameUnits, TraceNumbers, SanityTypes
<1>5. CASE r.kind \notin PartKind
  <2>1. units' = units
    BY <1>5, ReadTogether DEF SanityMir, SanityMrr, SanitySdr, SanityWir, SanityWrr, SanityTest, OpenRun,
       CloseRun, PartKind
  <2> QED
    BY <1>3, <2>1 DEF UnitsTraced
<1>6. ASSUME r.kind \in PartKind, At(r) \notin DOMAIN open_parts, NEW closed \in BOOLEAN,
             units' = Append(units, NewUnit(At(r), closed))
      PROVE  UnitsTraced'
  <2>1. At(r) \in Position
    BY <1>6, RecordTypes
  <2>2. NewUnit(At(r), closed) \in Unit
    BY <2>1, NewUnitType
  <2>3. /\ Len(units') = Len(units) + 1 /\ units'[Len(units) + 1] = NewUnit(At(r), closed)
        /\ \A i \in 1 .. Len(units) : units'[i] = units[i]
    BY <1>4, <1>6, <2>2, AppendProperties
  <2>4. NewUnit(At(r), closed).wafer = UnitWafer(At(r))
    BY DEF NewUnit
  <2>5. UnitWafer(At(r)) # NoWafer => <<Len(units) + 1, UnitWafer(At(r))>> \in TracedWafers'
    BY <1>1, <1>2, <1>4, <1>6, UnitWaferAgrees
  <2>6. \A i \in 1 .. Len(units') : i \in 1 .. Len(units) \/ i = Len(units) + 1
    BY <1>4, <2>3
  <2> QED
    BY <1>3, <2>3, <2>4, <2>5, <2>6 DEF UnitsTraced
<1>7. CASE r.kind = "PIR"
  <2>1. TracePir(r) /\ SanityPir(r)
    BY <1>7, ReadTogether DEF TestKind
  <2>2. At(r) \notin DOMAIN open_parts
    BY <2>1 DEF TracePir, TraceFail
  <2>3. units' = Append(units, NewUnit(At(r), FALSE))
    BY <2>1 DEF SanityPir
  <2> QED
    BY <1>6, <1>7, <2>2, <2>3 DEF PartKind
<1>8. CASE r.kind = "PRR"
  <2>1. SanityPrr(r)
    BY <1>8, ReadTogether DEF TestKind
  <2>2. CASE At(r) \notin DOMAIN open_parts
    <3>1. units' = Append(units, NewUnit(At(r), TRUE))
      BY <1>4, <2>1, <2>2 DEF SanityPrr
    <3> QED
      BY <1>6, <1>8, <2>2, <3>1 DEF PartKind
  <2>3. CASE At(r) \in DOMAIN open_parts
    <3>1. units' = [units EXCEPT ![in_progress[At(r)]].closed = TRUE]
      BY <1>4, <2>1, <2>3 DEF SanityPrr
    <3>2. in_progress[At(r)] \in 1 .. Len(units)
      BY <1>4, <2>3 DEF SanityTypes
    <3>3. Len(units') = Len(units) /\ \A i \in 1 .. Len(units) : units'[i].wafer = units[i].wafer
      BY <3>1, <3>2, UnitClosed
    <3> QED
      BY <1>3, <3>3 DEF UnitsTraced
  <2> QED
    BY <2>2, <2>3
<1> QED
  BY <1>5, <1>7, <1>8 DEF PartKind

LEMMA StepUnitsTraced ==
  SanityTypes /\ SameUnits /\ ScanFollows /\ ScanFollows' /\ TraceTypes /\ SameMaps /\ UnitsTraced
    /\ [Next]_vars => UnitsTraced'
<1> SUFFICES ASSUME SanityTypes, SameUnits, ScanFollows, ScanFollows', TraceTypes, SameMaps, UnitsTraced,
                    [Next]_vars, traceStatus' # "failed"
             PROVE  UnitsTraced'
  BY DEF UnitsTraced, Traced
<1>1. CASE UNCHANGED vars
  BY <1>1 DEF vars, traceVars, sanityVars, UnitsTraced, Traced, TracedWafers
<1>2. ASSUME NEW r \in Alphabet, Deliver(r) PROVE UnitsTraced'
  <2>1. /\ r \in Record /\ ~ended /\ ended' = ended /\ EavRead(r) /\ ScanRead(r) /\ TraceReadRecord(r)
        /\ SanityRead(r)
    BY <1>2, AlphabetAssumption DEF Deliver
  <2>2. traceStatus' = "reading"
    BY <2>1 DEF ScanFollows
  <2> QED
    BY <2>1, <2>2, ReadUnitsTraced
<1>3. CASE EndOfFile \/ CutOff
  <2>1. UNCHANGED <<open_parts, attempts, units>> /\ traceStatus = "reading"
    BY <1>3, TracedEnd
  <2> QED
    BY <2>1 DEF UnitsTraced, Traced, TracedWafers
<1> QED
  BY <1>1, <1>2, <1>3 DEF Next

\* While traceability goes on, no wafer was renamed and every WRR had its WIR, a slot
\* is a wafer still open, or has no name.
Unrenamed == Traced /\ ~renamed /\ "wafer_pair" \notin issues

SlotsFinite == IsFiniteSet(DOMAIN slots)

SlotsMatch ==
  Unrenamed =>
    /\ DOMAIN wafers \subseteq DOMAIN slots
    /\ \A k \in DOMAIN slots : manifest_wafers[slots[k]] = Get(wafers, k, NoWafer)

LEMMA StepSlotsFinite == SlotsFinite /\ [Next]_vars => SlotsFinite'
<1> SUFFICES ASSUME SlotsFinite, [Next]_vars PROVE SlotsFinite'
  OBVIOUS
<1>1. IsFiniteSet({}) /\ DOMAIN EmptyMap = {} /\ IsFiniteSet(DOMAIN slots)
  BY FS_EmptySet DEF EmptyMap, SlotsFinite
<1>2. ASSUME NEW k, NEW v PROVE DOMAIN Put(slots, k, v) = DOMAIN slots \cup {k}
  BY DEF Put
<1>3. ASSUME NEW k PROVE DOMAIN Without(slots, k) = DOMAIN slots \ {k}
  BY DEF Without
<1>4. \/ slots' = EmptyMap \/ slots' = slots
      \/ \E k : slots' = Without(slots, k)
      \/ \E k, v : slots' = Put(slots, k, v)
  <2>1. CASE UNCHANGED vars
    BY <2>1 DEF vars, scanVars
  <2>2. CASE EndOfFile \/ CutOff
    BY <2>2 DEF EndOfFile, CutOff, ScanEnd, ScanCut, ScanStopped, ScanFail, scanVars
  <2>3. ASSUME NEW r \in Alphabet, Deliver(r)
        PROVE  \/ slots' = EmptyMap \/ slots' = slots
               \/ \E k : slots' = Without(slots, k)
               \/ \E k, v : slots' = Put(slots, k, v)
    <3>1. ScanRead(r)
      BY <2>3 DEF Deliver
    <3>2. ScanFail => slots' = EmptyMap
      BY DEF ScanFail
    <3>3. ScanMir(r) \/ ScanMrr(r) \/ ScanSdr(r) \/ ScanMalformed(r) \/ ScanStopped
            => slots' = EmptyMap \/ slots' = slots
      BY <3>2 DEF ScanMir, ScanMrr, ScanSdr, ScanMalformed, ScanStopped, scanVars
    <3>4. ScanWir(r) => \E k, v : slots' = Put(slots, k, v)
      BY DEF ScanWir
    <3>5. ScanWrr(r) => \E k : slots' = Without(slots, k)
      BY DEF ScanWrr
    <3>6. ScanSide(r) => \/ slots' = EmptyMap \/ slots' = slots
                         \/ \E k, v : slots' = Put(slots, k, v)
      BY <3>2 DEF ScanSide, SlotsFor
    <3> QED
      BY <3>1, <3>3, <3>4, <3>5, <3>6 DEF ScanRead
  <2> QED
    BY <2>1, <2>2, <2>3 DEF Next
<1>5. ASSUME NEW k, NEW v, slots' = Put(slots, k, v) PROVE IsFiniteSet(DOMAIN slots')
  <2>1. IsFiniteSet(DOMAIN slots \cup {k})
    BY <1>1, FS_AddElement
  <2> QED
    BY <1>2, <1>5, <2>1
<1>6. ASSUME NEW k, slots' = Without(slots, k) PROVE IsFiniteSet(DOMAIN slots')
  <2>1. IsFiniteSet(DOMAIN slots \ {k})
    BY <1>1, FS_RemoveElement
  <2> QED
    BY <1>3, <1>6, <2>1
<1> QED
  BY <1>1, <1>4, <1>5, <1>6, Zenon DEF SlotsFinite

\* The name of the slot that a part gets is the part's wafer, or it has no name.
LEMMA SlotIsWafer ==
  ASSUME ScanTypes, SlotsFinite, SameMaps, SlotsMatch, Unrenamed, NEW pos, NEW i,
         i = slot(SlotsFor(pos), pos), i # 0, ManifestFor(pos)[i] # NoWafer
  PROVE  ManifestFor(pos)[i] = wafer(pos)
<1> DEFINE own == <<pos[1], Get(groups, pos, AllSites)>>
           all == <<pos[1], AllSites>>
<1>1. groups = sites
  BY DEF SameMaps, Unrenamed
<1>2. /\ DOMAIN wafers \subseteq DOMAIN slots
      /\ \A k \in DOMAIN slots : /\ manifest_wafers[slots[k]] = Get(wafers, k, NoWafer)
                                 /\ slots[k] \in 1 .. Len(manifest_wafers)
      /\ manifest_wafers \in Seq(WaferOrNone)
  BY DEF SlotsMatch, ScanTypes, SlotsNamed
<1>3. ~NeedsSlot(pos)
  <2> SUFFICES ASSUME NeedsSlot(pos) PROVE FALSE
    OBVIOUS
  <2>1. /\ SlotsFor(pos) = Put(slots, own, Len(manifest_wafers) + 1)
        /\ ManifestFor(pos) = Append(manifest_wafers, NoWafer)
    BY DEF SlotsFor, ManifestFor
  <2>2. SlotsFor(pos)[own] = Len(manifest_wafers) + 1 /\ own \in DOMAIN SlotsFor(pos)
    BY <2>1 DEF Put
  <2>3. i = Len(manifest_wafers) + 1
    BY <2>2 DEF slot, WaferAt
  <2>4. NoWafer \in WaferOrNone
    BY DEF WaferOrNone
  <2> QED
    BY <1>2, <2>1, <2>3, <2>4, AppendProperties
<1>4. i = WaferAt(groups, slots, pos, 0) /\ ManifestFor(pos) = manifest_wafers
  BY <1>3 DEF SlotsFor, ManifestFor, slot
<1>5. wafer(pos) = WaferAt(groups, wafers, pos, NoWafer)
  BY <1>1 DEF wafer
<1>6. \A k \in DOMAIN slots : i = slots[k] => k \in DOMAIN wafers /\ ManifestFor(pos)[i] = wafers[k]
  BY <1>2, <1>4 DEF Get
<1>7. CASE own \in DOMAIN slots
  BY <1>4, <1>5, <1>6, <1>7 DEF WaferAt
<1>8. CASE own \notin DOMAIN slots /\ all \in DOMAIN slots
  BY <1>2, <1>4, <1>5, <1>6, <1>8 DEF WaferAt
<1>9. CASE own \notin DOMAIN slots /\ all \notin DOMAIN slots
  <2>1. /\ pos \notin DOMAIN groups /\ Cardinality(OpenOn(slots, pos[1])) = 1
        /\ i = slots[CHOOSE k \in OpenOn(slots, pos[1]) : TRUE]
    BY <1>4, <1>9 DEF WaferAt
  <2>2. OpenOn(slots, pos[1]) \subseteq DOMAIN slots
    BY DEF OpenOn
  <2>3. IsFiniteSet(OpenOn(slots, pos[1]))
    BY <2>2, FS_Subset DEF SlotsFinite
  <2>4. PICK only : OpenOn(slots, pos[1]) = {only}
    BY <2>1, <2>3, FS_Singleton
  <2>5. i = slots[only] /\ only \in DOMAIN slots /\ only[1] = pos[1]
    BY <2>1, <2>4 DEF OpenOn
  <2>6. only \in DOMAIN wafers /\ ManifestFor(pos)[i] = wafers[only]
    BY <1>6, <2>5
  <2>7. OpenOn(wafers, pos[1]) = {only}
    BY <1>2, <2>4, <2>5, <2>6 DEF OpenOn
  <2>8. Cardinality(OpenOn(wafers, pos[1])) = 1 /\ (CHOOSE k \in OpenOn(wafers, pos[1]) : TRUE) = only
    BY <2>7, FS_Singleton
  <2>9. own \notin DOMAIN wafers /\ all \notin DOMAIN wafers
    BY <1>2, <1>9
  <2>10. WaferAt(groups, wafers, pos, NoWafer) = wafers[only]
    BY <2>1, <2>8, <2>9 DEF WaferAt
  <2> QED
    BY <1>5, <2>6, <2>10
<1> QED
  BY <1>7, <1>8, <1>9

\* What a record that traceability accepts does to the slots: names are added, and
\* unless a WRR gives one, none is changed.
LEMMA SlotStep ==
  ASSUME ScanTypes, SameUnits, SameMaps, SlotsMatch, ScanFollows, ScanFollows',
         NEW r \in Record, EavRead(r), ScanRead(r), TraceReadRecord(r), SanityRead(r),
         traceStatus' = "reading", Unrenamed,
         renamed' = (renamed \/ (r.kind = "WRR" /\ r.wafer # NoWafer)), ~renamed',
         "wafer_pair" \notin issues'
  PROVE  SlotsMatch' /\ \A i \in 1 .. Len(manifest_wafers) : manifest_wafers'[i] = manifest_wafers[i]
<1>1. /\ DOMAIN wafers \subseteq DOMAIN slots
      /\ \A k \in DOMAIN slots : /\ manifest_wafers[slots[k]] = Get(wafers, k, NoWafer)
                                 /\ slots[k] \in 1 .. Len(manifest_wafers)
      /\ manifest_wafers \in Seq(WaferOrNone) /\ Len(manifest_wafers) \in Nat
  BY DEF SlotsMatch, ScanTypes, SlotsNamed
<1>2. CASE r.kind = "MIR"
  <2>1. slots' = EmptyMap /\ wafers' = EmptyMap /\ manifest_wafers' = manifest_wafers
    BY <1>2, ReadTogether DEF TraceMir, TraceFail, ScanMir, ScanFail, TestKind
  <2> QED
    BY <2>1 DEF SlotsMatch, EmptyMap
<1>3. CASE r.kind \in {"MRR", "SDR"}
  <2>1. slots' = slots /\ wafers' = wafers /\ manifest_wafers' = manifest_wafers
    BY <1>3, ReadTogether DEF TraceMrr, TraceSdr, TraceFail, ScanMrr, ScanSdr, ScanFail, TestKind
  <2> QED
    BY <1>1, <2>1 DEF SlotsMatch
<1>4. CASE r.kind = "WIR"
  <2>1. /\ wafers' = Put(wafers, GroupOf(r), r.wafer)
        /\ slots' = Put(slots, GroupOf(r), Len(manifest_wafers) + 1)
        /\ manifest_wafers' = Append(manifest_wafers, r.wafer)
    BY <1>4, ReadTogether DEF TraceWir, ScanWir, TestKind
  <2>2. r.wafer \in WaferOrNone
    BY <1>4, RecordTypes
  <2>3. /\ manifest_wafers'[Len(manifest_wafers) + 1] = r.wafer
        /\ \A i \in 1 .. Len(manifest_wafers) : manifest_wafers'[i] = manifest_wafers[i]
    BY <1>1, <2>1, <2>2, AppendProperties
  <2>4. DOMAIN wafers' \subseteq DOMAIN slots'
    BY <1>1, <2>1 DEF Put
  <2>5. ASSUME NEW k \in DOMAIN slots' PROVE manifest_wafers'[slots'[k]] = Get(wafers', k, NoWafer)
    <3>1. CASE k = GroupOf(r)
      BY <2>1, <2>3, <3>1 DEF Put, Get
    <3>2. CASE k # GroupOf(r)
      <4>1. k \in DOMAIN slots /\ slots'[k] = slots[k]
        BY <2>1, <2>5, <3>2 DEF Put
      <4>2. Get(wafers', k, NoWafer) = Get(wafers, k, NoWafer)
        BY <2>1, <3>2 DEF Put, Get
      <4> QED
        BY <1>1, <2>3, <4>1, <4>2
    <3> QED
      BY <3>1, <3>2
  <2> QED
    BY <2>3, <2>4, <2>5 DEF SlotsMatch
<1>5. CASE r.kind = "WRR"
  <2>1. /\ TraceWrr(r) /\ ScanWrr(r) /\ SanityWrr(r)
        /\ wafer_map = wafers
    BY <1>5, ReadTogether DEF SameMaps, Unrenamed, TestKind
  <2>2. GroupOf(r) \in DOMAIN wafers
    BY <2>1 DEF SanityWrr, Found
  <2>3. Closed(r) = GroupOf(r) /\ r.wafer = NoWafer
    BY <1>1, <1>5, <2>2 DEF Closed
  <2>4. /\ wafers' = Without(wafers, GroupOf(r)) /\ slots' = Without(slots, GroupOf(r))
        /\ manifest_wafers' = manifest_wafers
    BY <2>1, <2>3 DEF TraceWrr, ScanWrr
  <2> QED
    BY <1>1, <2>4 DEF SlotsMatch, Without, Get
<1>6. CASE r.kind \in PartKind \cup TestKind
  <2> DEFINE pos == At(r)
             own == <<pos[1], Get(groups, pos, AllSites)>>
  <2>1. /\ slots' = SlotsFor(pos) /\ manifest_wafers' = ManifestFor(pos) /\ wafers' = wafers
    <3>1. ScanSide(r) /\ scanStatus' = "reading" /\ (TracePir(r) \/ TracePrr(r) \/ TraceTest(r))
      BY <1>6, ReadTogether DEF PartKind, TestKind
    <3>2. wafers' = wafers
      BY <3>1 DEF TracePir, TracePrr, TraceTest, TraceFail, traceVars
    <3> QED
      BY <3>1, <3>2, SideOrFail DEF ScanFail, SideStep
  <2>2. \A i \in 1 .. Len(manifest_wafers) : manifest_wafers'[i] = manifest_wafers[i]
    BY <2>1, SlotsForType
  <2>3. CASE ~NeedsSlot(pos)
    BY <1>1, <2>1, <2>3 DEF SlotsFor, ManifestFor, SlotsMatch
  <2>4. CASE NeedsSlot(pos)
    <3>1. own \notin DOMAIN slots
      <4>1. WaferAt(groups, slots, pos, 0) = 0
        BY <2>4 DEF NeedsSlot, slot
      <4>2. own \in DOMAIN slots => slots[own] = 0
        BY <4>1 DEF WaferAt
      <4> QED
        BY <1>1, <4>2
    <3>2. /\ slots' = Put(slots, own, Len(manifest_wafers) + 1)
          /\ manifest_wafers' = Append(manifest_wafers, NoWafer)
      BY <2>1, <2>4 DEF SlotsFor, ManifestFor
    <3>3. manifest_wafers'[Len(manifest_wafers) + 1] = NoWafer
      BY <1>1, <3>2, AppendProperties DEF WaferOrNone
    <3>4. own \notin DOMAIN wafers
      BY <1>1, <3>1
    <3> HIDE DEF own
    <3>5. DOMAIN wafers \subseteq DOMAIN slots'
      BY <1>1, <3>2 DEF Put
    <3>6. ASSUME NEW k \in DOMAIN slots' PROVE manifest_wafers'[slots'[k]] = Get(wafers, k, NoWafer)
      <4>1. CASE k = own
        BY <3>2, <3>3, <3>4, <4>1 DEF Put, Get
      <4>2. CASE k # own
        <5>1. k \in DOMAIN slots /\ slots'[k] = slots[k]
          BY <3>2, <3>6, <4>2 DEF Put
        <5> QED
          BY <1>1, <2>2, <5>1
      <4> QED
        BY <4>1, <4>2
    <3> QED
      BY <2>1, <2>2, <3>5, <3>6 DEF SlotsMatch
  <2> QED
    BY <2>3, <2>4
<1> QED
  BY <1>2, <1>3, <1>4, <1>5, <1>6, ReadTogether DEF PartKind

LEMMA StepSlotsMatch ==
  ScanTypes /\ SameUnits /\ SameMaps /\ ScanFollows /\ ScanFollows' /\ SlotsMatch /\ [Next]_vars
    => SlotsMatch'
<1> SUFFICES ASSUME ScanTypes, SameUnits, SameMaps, ScanFollows, ScanFollows', SlotsMatch, [Next]_vars,
                    Unrenamed'
             PROVE  SlotsMatch'
  BY DEF SlotsMatch
<1>0. traceStatus' # "failed" /\ ~renamed' /\ "wafer_pair" \notin issues'
  BY DEF Unrenamed, Traced
<1>1. CASE UNCHANGED vars
  BY <1>1 DEF vars, scanVars, traceVars, sanityVars, SlotsMatch, Unrenamed, Traced
<1>2. ASSUME NEW r \in Alphabet, Deliver(r) PROVE SlotsMatch'
  <2>1. /\ r \in Record /\ ~ended /\ ended' = ended /\ EavRead(r) /\ ScanRead(r) /\ TraceReadRecord(r)
        /\ SanityRead(r)
        /\ renamed' = (renamed \/ (r.kind = "WRR" /\ r.wafer # NoWafer))
    BY <1>2, AlphabetAssumption DEF Deliver
  <2>2. traceStatus' = "reading"
    BY <1>0, <2>1 DEF ScanFollows
  <2>3. traceStatus = "reading"
    BY <2>1, <2>2, ReadTogether
  <2>4. Unrenamed
    BY <1>0, <2>1, <2>3, IssuesStay DEF Unrenamed, Traced
  <2> QED
    BY <1>0, <2>1, <2>2, <2>4, SlotStep
<1>3. CASE EndOfFile \/ CutOff
  <2>1. /\ UNCHANGED <<wafers, slots, manifest_wafers, renamed>> /\ traceStatus = "reading"
        /\ issues \subseteq issues'
    BY <1>0, <1>3, TracedEnd
  <2> QED
    BY <1>0, <2>1 DEF SlotsMatch, Unrenamed, Traced
<1> QED
  BY <1>1, <1>2, <1>3 DEF Next

LEMMA SlotsAgree == Spec => [](SlotsFinite /\ SlotsMatch)
<1>1. Init => SlotsFinite /\ SlotsMatch
  BY FS_EmptySet DEF Init, ScanInit, TraceInit, EmptyMap, SlotsFinite, SlotsMatch
<1> QED
  BY <1>1, NumbersAgree, TypesOfScan, ScanFollowsTrace, MapsAgree, StepSlotsFinite, StepSlotsMatch, PTL
     DEF Spec

\* An attempt of the viewer whose slot has a name has the wafer that was recorded for it.
NamedRight(id, i) == DeviceWafer(i) # NoWafer => <<id, DeviceWafer(i)>> \in TracedWafers

DevicesTraced ==
  Unrenamed =>
    /\ \A p \in DOMAIN active : NamedRight(active[p].id, active[p].slot)
    /\ \A id \in DOMAIN raw_attempts : NamedRight(id, raw_attempts[id].slot)

LEMMA ReadDevices ==
  ASSUME ScanTypes, SlotsFinite, SameUnits, Numbered, SameMaps, SlotsMatch, DevicesTraced, TraceTypes,
         ScanFollows, ScanFollows',
         NEW r \in Record, EavRead(r), ScanRead(r), TraceReadRecord(r), SanityRead(r),
         traceStatus' = "reading", Unrenamed,
         renamed' = (renamed \/ (r.kind = "WRR" /\ r.wafer # NoWafer)), ~renamed',
         "wafer_pair" \notin issues'
  PROVE  DevicesTraced'
<1>1. /\ \A i \in 1 .. Len(manifest_wafers) : manifest_wafers'[i] = manifest_wafers[i]
      /\ TracedWafers \subseteq TracedWafers'
      /\ r.kind \in PartKind /\ At(r) \notin DOMAIN open_parts =>
           <<sequence + 1, wafer(At(r))>> \in TracedWafers'
  BY SlotStep, TracedGrows
<1>2. /\ traceStatus = "reading" /\ scanStatus = "reading"
      /\ next_id = sequence /\ DOMAIN active = DOMAIN open_parts
  BY ReadTogether DEF Numbered, ScanNumbers, TraceNumbers
<1>3. ASSUME NEW id, NEW i \in Nat, i <= Len(manifest_wafers), NamedRight(id, i)
      PROVE  NamedRight(id, i)'
  <2>1. Len(manifest_wafers) \in Nat
    BY DEF ScanTypes, SlotsNamed
  <2>2. i = 0 \/ i \in 1 .. Len(manifest_wafers)
    BY <1>3, <2>1
  <2>3. i # 0 => manifest_wafers'[i] = manifest_wafers[i]
    BY <1>1, <2>2
  <2> QED
    BY <1>1, <1>3, <2>3 DEF NamedRight, DeviceWafer
<1>4. \A p \in DOMAIN active : \A id, i : id = active[p].id /\ i = active[p].slot => NamedRight(id, i)'
  <2> SUFFICES ASSUME NEW p \in DOMAIN active, NEW id, NEW i, id = active[p].id, i = active[p].slot
               PROVE  NamedRight(id, i)'
    OBVIOUS
  <2>1. i \in Nat /\ i <= Len(manifest_wafers)
    BY DEF ScanTypes, SlotsNamed, OpenAttempt
  <2>2. NamedRight(id, i)
    BY DEF DevicesTraced
  <2> QED
    BY <1>3, <2>1, <2>2
<1>5. \A id \in DOMAIN raw_attempts : \A i : i = raw_attempts[id].slot => NamedRight(id, i)'
  <2> SUFFICES ASSUME NEW id \in DOMAIN raw_attempts, NEW i, i = raw_attempts[id].slot
               PROVE  NamedRight(id, i)'
    OBVIOUS
  <2>1. i \in Nat /\ i <= Len(manifest_wafers)
    BY DEF ScanTypes, SlotsNamed, ClosedAttempt
  <2>2. NamedRight(id, i)
    BY DEF DevicesTraced
  <2> QED
    BY <1>3, <2>1, <2>2
<1>6. CASE r.kind \notin PartKind \cup TestKind
  <2>1. active' = active /\ raw_attempts' = raw_attempts
    BY <1>6, ReadTogether DEF ScanMir, ScanMrr, ScanSdr, ScanWir, ScanWrr, ScanFail, PartKind
  <2> QED
    BY <1>4, <1>5, <2>1 DEF DevicesTraced
<1>7. CASE r.kind \in PartKind \cup TestKind
  <2> PICK pos : pos = At(r)
    OBVIOUS
  <2> PICK at : at = AttemptOf(pos)
    OBVIOUS
  <2> PICK id : id = at.id
    OBVIOUS
  <2> PICK i : i = at.slot
    OBVIOUS
  <2>1. SideStep(r)
    <3>1. ScanSide(r) /\ scanStatus' = "reading"
      BY <1>7, ReadTogether DEF PartKind, TestKind
    <3> QED
      BY <3>1, SideOrFail DEF ScanFail
  <2>2. /\ manifest_wafers' = ManifestFor(pos)
        /\ active' = IF r.kind = "PRR" THEN Without(active, pos) ELSE Put(active, pos, at)
        /\ \/ raw_attempts' = raw_attempts
           \/ \E a : raw_attempts' = Put(raw_attempts, id, a) /\ a.slot = i
    BY <2>1 DEF SideStep
  <2>3. /\ at \in OpenAttempt
        /\ pos \in DOMAIN active => at = active[pos]
        /\ pos \notin DOMAIN active => id = next_id + 1
    BY AttemptOfType
  <2>4. NamedRight(id, i)'
    <3>1. CASE pos \in DOMAIN active
      BY <1>4, <2>3, <3>1
    <3>2. CASE pos \notin DOMAIN active
      <4>1. r.kind \in PartKind
        BY <1>2, <1>7, <3>2, TestInPart
      <4>2. <<id, wafer(pos)>> \in TracedWafers'
        BY <1>1, <1>2, <2>3, <3>2, <4>1
      <4>3. i = slot(SlotsFor(pos), pos)
        BY <3>2 DEF AttemptOf, Get
      <4>4. i # 0 /\ ManifestFor(pos)[i] # NoWafer => ManifestFor(pos)[i] = wafer(pos)
        BY <4>3, SlotIsWafer
      <4> QED
        BY <2>2, <4>2, <4>4 DEF NamedRight, DeviceWafer
    <3> QED
      BY <3>1, <3>2
  <2>5. \A p \in DOMAIN active' : NamedRight(active[p].id, active[p].slot)'
    BY <1>4, <2>2, <2>4 DEF Put, Without
  <2>6. \A n \in DOMAIN raw_attempts' : NamedRight(n, raw_attempts[n].slot)'
    BY <1>5, <2>2, <2>4 DEF Put
  <2> QED
    BY <2>5, <2>6 DEF DevicesTraced
<1> QED
  BY <1>6, <1>7

LEMMA StepDevicesTraced ==
  ScanTypes /\ SlotsFinite /\ SameUnits /\ Numbered /\ SameMaps /\ SlotsMatch /\ DevicesTraced
    /\ TraceTypes /\ ScanFollows /\ ScanFollows' /\ [Next]_vars => DevicesTraced'
<1> SUFFICES ASSUME ScanTypes, SlotsFinite, SameUnits, Numbered, SameMaps, SlotsMatch, DevicesTraced,
                    TraceTypes, ScanFollows, ScanFollows', [Next]_vars, Unrenamed'
             PROVE  DevicesTraced'
  BY DEF DevicesTraced
<1>0. traceStatus' # "failed" /\ ~renamed' /\ "wafer_pair" \notin issues'
  BY DEF Unrenamed, Traced
<1>1. CASE UNCHANGED vars
  BY <1>1 DEF vars, scanVars, traceVars, sanityVars, DevicesTraced, Unrenamed, Traced, NamedRight,
     DeviceWafer, TracedWafers
<1>2. ASSUME NEW r \in Alphabet, Deliver(r) PROVE DevicesTraced'
  <2>1. /\ r \in Record /\ ~ended /\ ended' = ended /\ EavRead(r) /\ ScanRead(r) /\ TraceReadRecord(r)
        /\ SanityRead(r)
        /\ renamed' = (renamed \/ (r.kind = "WRR" /\ r.wafer # NoWafer))
    BY <1>2, AlphabetAssumption DEF Deliver
  <2>2. traceStatus' = "reading"
    BY <1>0, <2>1 DEF ScanFollows
  <2>3. traceStatus = "reading"
    BY <2>1, <2>2, ReadTogether
  <2>4. Unrenamed
    BY <1>0, <2>1, <2>3, IssuesStay DEF Unrenamed, Traced
  <2> QED
    BY <1>0, <2>1, <2>2, <2>4, ReadDevices
<1>3. CASE EndOfFile \/ CutOff
  <2>1. /\ UNCHANGED <<open_parts, attempts, active, raw_attempts, manifest_wafers, renamed>>
        /\ traceStatus = "reading" /\ issues \subseteq issues'
    BY <1>0, <1>3, TracedEnd
  <2> QED
    BY <1>0, <2>1 DEF DevicesTraced, Unrenamed, Traced, NamedRight, DeviceWafer, TracedWafers
<1> QED
  BY <1>1, <1>2, <1>3 DEF Next

LEMMA WafersTraced == Spec => [](EavTraced /\ UnitsTraced /\ DevicesTraced)
<1>1. Init => EavTraced /\ UnitsTraced /\ DevicesTraced
  BY DEF Init, EavInit, ScanInit, SanityInit, EmptyMap, EavTraced, UnitsTraced, DevicesTraced
<1> QED
  BY <1>1, InvariantOfConverter, ConverterReads, TypesOfConverter, EveryRowKept, NumbersAgree, TypesOfScan,
     TypesOfSanity, TypesOfTrace, ScanFollowsTrace, MapsAgree, SlotsAgree,
     StepEavTraced, StepUnitsTraced, StepDevicesTraced, PTL DEF Spec

\* A part has the wafer that was open for it when it started, in the converter, in
\* traceability, and, when it has a name there, in the viewer and the sanity report.
THEOREM WafersStayTraced == Spec => []WafersAgree
<1>1. SanityTypes /\ EavTraced /\ UnitsTraced /\ DevicesTraced => WafersAgree
  <2> SUFFICES ASSUME SanityTypes, EavTraced, UnitsTraced, DevicesTraced, Traced, InRun
               PROVE  WafersAgree
    BY DEF WafersAgree, Traced, InRun
  <2>1. eavStatus \in {"reading", "finished"} /\ run_number <= 1 =>
          /\ \A p \in DOMAIN active_parts :
               <<active_parts[p].part_seq, active_parts[p].wafer_id>> \in TracedWafers
          /\ \A i \in DOMAIN batches :
               <<batches[i].part_sequence, batches[i].wafer_id>> \in TracedWafers
    BY DEF EavTraced
  <2>2. \A i \in DOMAIN units : units[i].wafer # NoWafer => <<i, units[i].wafer>> \in TracedWafers
    BY DEF UnitsTraced, SanityTypes
  <2>3. scanStatus # "failed" /\ ~renamed /\ "wafer_pair" \notin issues =>
          \A id \in DOMAIN raw_attempts :
            LET name == DeviceWafer(raw_attempts[id].slot)
            IN name # NoWafer => <<id, name>> \in TracedWafers
    BY DEF DevicesTraced, Unrenamed, NamedRight
  <2> QED
    BY <2>1, <2>2, <2>3 DEF WafersAgree
<1> QED
  BY <1>1, TypesOfSanity, WafersTraced, PTL

-----------------------------------------------------------------------------
(***************************************************************************)
(* ValidatorAgrees.  A file starts with a MIR, so until the sanity report  *)
(* counts a run nothing was read, and while it counts one the validator,   *)
(* which knows nothing of runs, remembers the same.  They part at the MRR: *)
(* it makes the sanity report forget the open units, and report them; the  *)
(* validator keeps them to the end, since no part is read outside a run.   *)
(***************************************************************************)
OneRun == runs <= 1 /\ issues \cap {"decode", "part_context"} = {}

Fresh ==
  /\ budget = RecordBudget /\ issues = {} /\ findings = {}
  /\ ~run_open /\ ~mrrs /\ ~mrr_seen /\ mir_count = 0
  /\ open_pirs = {} /\ open_wirs = {} /\ open_wir_count = 0
  /\ DOMAIN wafer_map = {} /\ DOMAIN in_progress = {}

RunAgrees == mir_count = runs /\ (mrr_seen <=> mrrs) /\ (run_open <=> runs = 1 /\ ~mrrs)

SameWafers ==
  /\ open_wirs = DOMAIN wafer_map /\ IsFiniteSet(open_wirs)
  /\ open_wir_count \in Nat
  /\ findings = {} => open_wir_count = Cardinality(open_wirs)

SameParts ==
  IF "unclosed_unit" \in issues THEN open_pirs # {} /\ ~run_open ELSE open_pirs = DOMAIN in_progress

SamePairs ==
  /\ findings \subseteq {"PIR_PRR_PAIR", "WIR_WRR_PAIR"}
  /\ findings # {} <=> issues \cap {"part_pair", "wafer_overlap", "wafer_pair"} # {}
  /\ issues \cap {"framing", "wafer_closure", "run_closure"} = {}

SameJudgement ==
  /\ runs \in Nat
  /\ runs = 0 => Fresh
  /\ OneRun => RunAgrees /\ SameWafers /\ SameParts /\ SamePairs

LEMMA NothingSpent ==
  ASSUME budget = RecordBudget
  PROVE  Spent = 0
<1> DEFINE f == [c \in DOMAIN budget |-> RecordBudget[c] - budget[c]]
<1>1. /\ DOMAIN budget = {"run", "context", "part", "test", "malformed"}
      /\ \A c \in DOMAIN budget : RecordBudget[c] \in Nat
  BY BudgetAssumption
<1>2. IsFiniteSet({"run", "context", "part", "test", "malformed"})
  <2>1. /\ IsFiniteSet({"run"}) /\ {"run"} \cup {"context"} = {"run", "context"}
        /\ {"run", "context"} \cup {"part"} = {"run", "context", "part"}
        /\ {"run", "context", "part"} \cup {"test"} = {"run", "context", "part", "test"}
        /\ {"run", "context", "part", "test"} \cup {"malformed"}
             = {"run", "context", "part", "test", "malformed"}
    BY FS_Singleton
  <2>2. IsFiniteSet({"run", "context"})
    BY <2>1, FS_AddElement
  <2>3. IsFiniteSet({"run", "context", "part"})
    BY <2>1, <2>2, FS_AddElement
  <2>4. IsFiniteSet({"run", "context", "part", "test"})
    BY <2>1, <2>3, FS_AddElement
  <2> QED
    BY <2>1, <2>4, FS_AddElement
<1>3. DOMAIN f = DOMAIN budget /\ \A c \in DOMAIN f : f[c] = 0
  BY <1>1
<1>4. IsFiniteSet(DOMAIN f)
  BY <1>1, <1>2, <1>3
<1> HIDE DEF f
<1>5. SumFunction(f) = 0
  BY <1>3, <1>4, SumZero DEF SumFunction
<1> QED
  BY <1>5 DEF Spent, f

\* Which of the sanity report's and the validator's actions a record takes.
LEMMA JudgesRead ==
  ASSUME NEW r \in Record, SanityRead(r), ValidateRecord(r), OneRun'
  PROVE  /\ \/ r.kind = "MIR" /\ SanityMir(r) /\ ValidateMir(r)
            \/ r.kind = "MRR" /\ SanityMrr(r) /\ ValidateMrr(r)
            \/ r.kind = "SDR" /\ SanitySdr(r) /\ ValidateOther(r)
            \/ r.kind = "WIR" /\ SanityWir(r) /\ ValidateWir(r)
            \/ r.kind = "WRR" /\ SanityWrr(r) /\ ValidateWrr(r)
            \/ r.kind = "PIR" /\ SanityPir(r) /\ ValidatePir(r)
            \/ r.kind = "PRR" /\ SanityPrr(r) /\ ValidatePrr(r)
            \/ r.kind \in TestKind /\ SanityTest(r) /\ ValidateOther(r)
         /\ issues \subseteq issues'
<1>1. issues \subseteq issues'
  BY IssuesStay
<1>2. "decode" \notin issues' /\ "part_context" \notin issues'
  BY DEF OneRun
<1>3. ~SanityMalformed(r) /\ ~OutsidePartContext(r)
  BY <1>2 DEF SanityMalformed, OutsidePartContext, OpenRun, CloseRun
<1>4. \/ SanityMir(r) \/ SanityMrr(r) \/ SanitySdr(r) \/ SanityWir(r) \/ SanityWrr(r)
      \/ SanityPir(r) \/ SanityPrr(r) \/ SanityTest(r)
  BY <1>3 DEF SanityRead
<1>5. /\ ValidateMir(r) => r.kind = "MIR"
      /\ ValidateMrr(r) => r.kind = "MRR"
      /\ ValidateWir(r) => r.kind = "WIR"
      /\ ValidateWrr(r) => r.kind = "WRR"
      /\ ValidatePir(r) => r.kind = "PIR"
      /\ ValidatePrr(r) => r.kind = "PRR"
      /\ ValidateOther(r) => r.kind \in TestKind \cup {"SDR", "Malformed"}
  BY DEF ValidateMir, ValidateMrr, ValidateWir, ValidateWrr, ValidatePir, ValidatePrr, ValidateOther
<1> QED
  BY <1>1, <1>4, <1>5, KindsOfActions DEF ValidateRecord, TestKind

\* The first record of a file opens the only run.
LEMMA FirstJudged ==
  ASSUME Fresh, runs = 0, NEW r, SanityMir(r), ValidateMir(r)
  PROVE  SameJudgement'
<1>1. /\ runs' = 1 /\ run_open' /\ ~mrrs' /\ DOMAIN wafer_map' = {} /\ DOMAIN in_progress' = {}
      /\ issues' = {}
  BY DEF SanityMir, OpenRun, Found, Fresh, EmptyMap
<1>2. /\ mir_count' = 1 /\ findings' = {} /\ ~mrr_seen' /\ open_pirs' = {} /\ open_wirs' = {}
      /\ open_wir_count' = 0
  BY DEF ValidateMir, Report, Fresh
<1>3. RunAgrees'
  BY <1>1, <1>2 DEF RunAgrees
<1>4. SameWafers'
  BY <1>1, <1>2, FS_EmptySet DEF SameWafers
<1>5. SameParts' /\ SamePairs'
  BY <1>1, <1>2 DEF SameParts, SamePairs
<1> QED
  BY <1>1, <1>3, <1>4, <1>5 DEF SameJudgement

\* A later record is judged alike by both.
LEMMA RecordJudged ==
  ASSUME SameJudgement, runs = 1, OneRun, OneRun',
         NEW r \in Record, SanityRead(r), ValidateRecord(r)
  PROVE  SameJudgement'
<1>1. RunAgrees /\ SameWafers /\ SameParts /\ SamePairs
  BY DEF SameJudgement
<1>2. r.kind # "MIR" /\ runs' = 1
  <2>1. ~SanityMir(r)
    BY DEF SanityMir, OpenRun, OneRun
  <2> QED
    BY <2>1, JudgesRead DEF SanityMrr, CloseRun, SanitySdr, SanityWir, SanityWrr, SanityPir, SanityPrr,
       SanityTest, TestKind
<1>3. CASE r.kind = "MRR"
  <2>1. SanityMrr(r) /\ ValidateMrr(r)
    BY <1>3, JudgesRead DEF TestKind
  <2>2. /\ issues' = issues \cup OutsideRun \cup Unfinished
        /\ ~run_open' /\ mrrs' /\ DOMAIN in_progress' = {}
        /\ UNCHANGED <<runs, wafer_map>>
    BY <2>1 DEF SanityMrr, CloseRun, EmptyMap
  <2>3. mrr_seen' /\ UNCHANGED <<open_pirs, open_wirs, open_wir_count, mir_count, findings>>
    BY <2>1 DEF ValidateMrr
  <2>4. RunAgrees'
    BY <1>1, <2>2, <2>3 DEF RunAgrees
  <2>5. SameWafers'
    BY <1>1, <2>2, <2>3 DEF SameWafers
  <2>6. SameParts'
    BY <1>1, <2>2, <2>3 DEF SameParts, OutsideRun, Unfinished, Found
  <2>7. SamePairs'
    BY <1>1, <2>2, <2>3 DEF SamePairs, OutsideRun, Unfinished, Found
  <2> QED
    BY <1>2, <2>4, <2>5, <2>6, <2>7 DEF SameJudgement
<1>4. CASE r.kind \in TestKind \cup {"SDR"}
  <2>1. /\ SanitySdr(r) \/ SanityTest(r)
        /\ ValidateOther(r)
    BY <1>4, JudgesRead DEF TestKind
  <2>2. /\ \/ issues' = issues \/ issues' = issues \cup {"run_context"}
           \/ issues' = issues \cup {"record_ownership"}
        /\ UNCHANGED <<runs, run_open, mrrs, wafer_map, in_progress>>
    BY <2>1 DEF SanitySdr, SanityTest, OutsideRun, Found
  <2>3. UNCHANGED <<mrr_seen, open_pirs, open_wirs, open_wir_count, mir_count, findings>>
    BY <2>1 DEF ValidateOther, validatorVars
  <2>4. RunAgrees' /\ SameWafers'
    BY <1>1, <2>2, <2>3 DEF RunAgrees, SameWafers
  <2>5. SameParts' /\ SamePairs'
    BY <1>1, <2>2, <2>3 DEF SameParts, SamePairs
  <2> QED
    BY <1>2, <2>4, <2>5 DEF SameJudgement
<1>5. CASE r.kind = "WIR"
  <2>1. SanityWir(r) /\ ValidateWir(r)
    BY <1>5, JudgesRead DEF TestKind
  <2>2. /\ issues' = issues \cup OutsideRun
                       \cup Found("wafer_overlap", GroupOf(r) \in DOMAIN wafer_map)
        /\ DOMAIN wafer_map' = DOMAIN wafer_map \cup {GroupOf(r)}
        /\ UNCHANGED <<runs, run_open, mrrs, in_progress>>
    BY <2>1 DEF SanityWir, Put
  <2>3. /\ open_wirs' = open_wirs \cup {GroupOf(r)} /\ open_wir_count' = open_wir_count + 1
        /\ findings' = findings \cup (IF GroupOf(r) \in open_wirs THEN {"WIR_WRR_PAIR"} ELSE {})
        /\ UNCHANGED <<open_pirs, mrr_seen, mir_count>>
    BY <2>1 DEF ValidateWir, Report
  <2>4. RunAgrees' /\ SameParts'
    BY <1>1, <2>2, <2>3 DEF RunAgrees, SameParts, OutsideRun, Found
  <2>5. SamePairs'
    BY <1>1, <2>2, <2>3 DEF SamePairs, SameWafers, OutsideRun, Found
  <2>6. SameWafers'
    <3>1. /\ IsFiniteSet(open_wirs')
          /\ GroupOf(r) \notin open_wirs => Cardinality(open_wirs') = Cardinality(open_wirs) + 1
      BY <1>1, <2>3, FS_AddElement DEF SameWafers
    <3>2. findings' = {} => findings = {} /\ GroupOf(r) \notin open_wirs
      BY <2>3
    <3>3. open_wirs' = DOMAIN wafer_map' /\ open_wir_count' \in Nat
      BY <1>1, <2>2, <2>3 DEF SameWafers
    <3> QED
      BY <1>1, <2>3, <3>1, <3>2, <3>3 DEF SameWafers
  <2> QED
    BY <1>2, <2>4, <2>5, <2>6 DEF SameJudgement
<1>6. CASE r.kind = "WRR"
  <2>1. SanityWrr(r) /\ ValidateWrr(r)
    BY <1>6, JudgesRead DEF TestKind
  <2>2. /\ issues' = issues \cup OutsideRun
                       \cup Found("wafer_pair", GroupOf(r) \notin DOMAIN wafer_map)
        /\ DOMAIN wafer_map' = DOMAIN wafer_map \ {GroupOf(r)}
        /\ UNCHANGED <<runs, run_open, mrrs, in_progress>>
    BY <2>1 DEF SanityWrr, Without
  <2>3. /\ open_wirs' = open_wirs \ {GroupOf(r)}
        /\ open_wir_count' = IF open_wir_count = 0 THEN 0 ELSE open_wir_count - 1
        /\ findings' = findings \cup (IF GroupOf(r) \notin open_wirs THEN {"WIR_WRR_PAIR"} ELSE {})
        /\ UNCHANGED <<open_pirs, mrr_seen, mir_count>>
    BY <2>1 DEF ValidateWrr, Report
  <2>4. RunAgrees' /\ SameParts'
    BY <1>1, <2>2, <2>3 DEF RunAgrees, SameParts, OutsideRun, Found
  <2>5. SamePairs'
    BY <1>1, <2>2, <2>3 DEF SamePairs, SameWafers, OutsideRun, Found
  <2>6. SameWafers'
    <3>1. /\ IsFiniteSet(open_wirs')
          /\ GroupOf(r) \in open_wirs => Cardinality(open_wirs') = Cardinality(open_wirs) - 1
          /\ GroupOf(r) \in open_wirs => Cardinality(open_wirs) # 0
      BY <1>1, <2>3, FS_RemoveElement, FS_EmptySet DEF SameWafers
    <3>2. findings' = {} => findings = {} /\ GroupOf(r) \in open_wirs
      BY <2>3
    <3>3. open_wirs' = DOMAIN wafer_map' /\ open_wir_count' \in Nat
      BY <1>1, <2>2, <2>3 DEF SameWafers
    <3> QED
      BY <1>1, <2>3, <3>1, <3>2, <3>3 DEF SameWafers
  <2> QED
    BY <1>2, <2>4, <2>5, <2>6 DEF SameJudgement
<1>7. CASE r.kind \in PartKind
  <2>1. \/ SanityPir(r) /\ ValidatePir(r)
        \/ SanityPrr(r) /\ ValidatePrr(r)
    BY <1>7, JudgesRead DEF PartKind, TestKind
  <2>2. run_open /\ UNCHANGED <<runs, run_open, mrrs, wafer_map>>
    BY <2>1 DEF SanityPir, SanityPrr
  <2>3. UNCHANGED <<mrr_seen, open_wirs, open_wir_count, mir_count>>
    BY <2>1 DEF ValidatePir, ValidatePrr
  <2>4. "unclosed_unit" \notin issues /\ open_pirs = DOMAIN in_progress
    BY <1>1, <2>2 DEF SameParts
  <2>5. /\ issues' = issues \/ issues' = issues \cup {"part_pair"}
        /\ findings' = findings \/ findings' = findings \cup {"PIR_PRR_PAIR"}
        /\ "part_pair" \in issues' \ issues => findings' # {}
        /\ findings' # findings => "part_pair" \in issues'
        /\ open_pirs' = DOMAIN in_progress'
    BY <2>1, <2>4 DEF SanityPir, SanityPrr, ValidatePir, ValidatePrr, Found, Report, Put, Without
  <2>6. RunAgrees' /\ SameParts'
    BY <1>1, <2>2, <2>3, <2>4, <2>5 DEF RunAgrees, SameParts
  <2>7. SamePairs'
    BY <1>1, <2>5 DEF SamePairs
  <2>8. SameWafers'
    BY <1>1, <2>2, <2>3, <2>5 DEF SameWafers
  <2> QED
    BY <1>2, <2>6, <2>7, <2>8 DEF SameJudgement
<1> QED
  BY <1>2, <1>3, <1>4, <1>5, <1>6, <1>7, JudgesRead DEF PartKind, TestKind

\* What the end of the file adds to both.
LEMMA EndJudged ==
  ASSUME SameJudgement, EndOfFile \/ CutOff
  PROVE  ValidatorAgrees'
<1> SUFFICES ASSUME OneRun'
             PROVE  /\ HasErrors' <=> issues' \cap PairRules # {}
                    /\ "NO_MRR" \in findings' <=> "run_closure" \in issues'
  BY DEF ValidatorAgrees, OneRun
<1>1. PICK cut \in BOOLEAN : FinishReport(cut) /\ Closing(IF cut THEN {"framing"} ELSE {})
  BY DEF EndOfFile, CutOff, ValidateEnd, ValidateCut, SanityEnd, SanityCut
<1>2. /\ issues' = issues \cup (IF cut THEN {"framing"} ELSE {})
                     \cup Found("run_closure", runs = 0 \/ ~mrrs \/ run_open)
                     \cup Unfinished
                     \cup Found("wafer_closure", DOMAIN wafer_map # {})
      /\ runs' = runs
  BY <1>1 DEF Closing
<1>3. OneRun
  BY <1>2 DEF OneRun
<1>4. RunAgrees /\ SameWafers /\ SameParts /\ SamePairs
  BY <1>3 DEF SameJudgement
<1>5. /\ decode_errors' = cut
      /\ findings' = findings
           \cup (IF open_pirs # {} THEN {"PIR_PRR_PAIR", "OPEN_PIR"} ELSE {})
           \cup (IF open_wirs # {} THEN {"WIR_WRR_PAIR"} ELSE {})
           \cup (IF open_wir_count > 0 THEN {"OPEN_WIR"} ELSE {})
           \cup (IF mrr_seen THEN {} ELSE {"NO_MRR"})
  BY <1>1 DEF FinishReport
<1>6. "NO_MRR" \in findings' <=> ~mrr_seen
  BY <1>4, <1>5 DEF SamePairs
<1>7. "run_closure" \in issues' <=> runs = 0 \/ ~mrrs \/ run_open
  BY <1>2, <1>4 DEF SamePairs, Found, Unfinished
<1>8. runs = 0 \/ ~mrrs \/ run_open <=> ~mrr_seen
  BY <1>4 DEF RunAgrees, SameJudgement, Fresh
<1>9. HasErrors' <=> cut \/ findings # {} \/ open_pirs # {} \/ open_wirs # {} \/ open_wir_count > 0
  BY <1>4, <1>5 DEF HasErrors, SamePairs
<1>10. findings = {} /\ open_wirs = {} => open_wir_count = 0
  BY <1>4, FS_EmptySet DEF SameWafers
<1>11. issues' \cap PairRules # {} <=>
         \/ cut \/ DOMAIN wafer_map # {} \/ DOMAIN in_progress # {} \/ "unclosed_unit" \in issues
         \/ issues \cap {"part_pair", "wafer_overlap", "wafer_pair"} # {}
  <2> DEFINE added == (IF cut THEN {"framing"} ELSE {})
                        \cup (IF runs = 0 \/ ~mrrs \/ run_open THEN {"run_closure"} ELSE {})
                        \cup (IF DOMAIN in_progress # {} THEN {"unclosed_unit"} ELSE {})
                        \cup (IF DOMAIN wafer_map # {} THEN {"wafer_closure"} ELSE {})
  <2>1. issues' = issues \cup added
    BY <1>2 DEF Found, Unfinished
  <2>2. added \cap PairRules # {} <=> cut \/ DOMAIN wafer_map # {} \/ DOMAIN in_progress # {}
    BY DEF PairRules
  <2>3. issues \cap PairRules # {} <=>
          "unclosed_unit" \in issues \/ issues \cap {"part_pair", "wafer_overlap", "wafer_pair"} # {}
    BY <1>4 DEF PairRules, SamePairs
  <2> QED
    BY <2>1, <2>2, <2>3
<1>12. open_pirs # {} <=> DOMAIN in_progress # {} \/ "unclosed_unit" \in issues
  BY <1>4 DEF SameParts
<1>13. "NO_MRR" \in findings' <=> "run_closure" \in issues'
  BY <1>6, <1>7, <1>8
<1>14. findings # {} <=> issues \cap {"part_pair", "wafer_overlap", "wafer_pair"} # {}
  BY <1>4 DEF SamePairs
<1>15. open_wirs # {} <=> DOMAIN wafer_map # {}
  BY <1>4 DEF SameWafers
<1>16. open_wir_count > 0 => findings # {} \/ open_wirs # {}
  BY <1>10
<1>17. HasErrors' <=> issues' \cap PairRules # {}
  BY <1>9, <1>11, <1>12, <1>14, <1>15, <1>16
<1> QED
  BY <1>13, <1>17

LEMMA RunsCounted ==
  ASSUME NEW r, SanityRead(r)
  PROVE  runs' \in {runs, runs + 1}
BY DEF SanityRead, SanityMir, SanityMrr, SanitySdr, SanityWir, SanityWrr, OutsidePartContext,
   SanityPir, SanityPrr, SanityTest, SanityMalformed, OpenRun, CloseRun

Judged == (~ended => SameJudgement) /\ ValidatorAgrees

LEMMA StepJudged == Judged /\ [Next]_vars => Judged'
<1> SUFFICES ASSUME Judged, [Next]_vars PROVE Judged'
  OBVIOUS
<1>1. CASE UNCHANGED vars
  BY <1>1 DEF vars, sanityVars, validatorVars, Judged, SameJudgement, Fresh, OneRun, RunAgrees, SameWafers,
     SameParts, SamePairs, ValidatorAgrees, HasErrors
<1>2. ASSUME NEW r \in Alphabet, Deliver(r) PROVE Judged'
  <2>1. /\ r \in Record /\ ~ended /\ ~ended' /\ SanityRead(r) /\ ValidateRecord(r)
        /\ Spent = 0 => r.kind = "MIR"
        /\ SameJudgement
    BY <1>2, AlphabetAssumption DEF Deliver, Judged
  <2>2. CASE runs = 0
    <3>1. Fresh
      BY <2>1, <2>2 DEF SameJudgement
    <3>2. r.kind = "MIR"
      BY <2>1, <3>1, NothingSpent DEF Fresh
    <3>3. SanityMir(r)
      BY <2>1, <3>2, KindsOfActions DEF SanityRead, PartKind, TestKind
    <3>4. ValidateMir(r)
      BY <2>1, <3>2 DEF ValidateRecord, ValidateMrr, ValidateWir, ValidateWrr, ValidatePir, ValidatePrr,
         ValidateOther, TestKind
    <3>5. SameJudgement'
      BY <2>2, <3>1, <3>3, <3>4, FirstJudged
    <3> QED
      BY <2>1, <3>5 DEF Judged, ValidatorAgrees
  <2>3. CASE runs # 0
    <3>1. runs' \in Nat /\ runs' # 0 /\ (runs' <= 1 => runs = 1)
      BY <2>1, <2>3, RunsCounted DEF SameJudgement
    <3>2. OneRun' => OneRun /\ runs = 1
      BY <2>1, <3>1, IssuesStay DEF OneRun
    <3>3. SameJudgement'
      <4>1. CASE OneRun'
        BY <2>1, <3>2, <4>1, RecordJudged
      <4>2. CASE ~OneRun'
        BY <3>1, <4>2 DEF SameJudgement
      <4> QED
        BY <4>1, <4>2
    <3> QED
      BY <2>1, <3>3 DEF Judged, ValidatorAgrees
  <2> QED
    BY <2>2, <2>3
<1>3. CASE EndOfFile \/ CutOff
  <2>1. ~ended /\ ended'
    BY <1>3 DEF EndOfFile, CutOff
  <2>2. SameJudgement
    BY <2>1 DEF Judged
  <2> QED
    BY <1>3, <2>1, <2>2, EndJudged DEF Judged
<1> QED
  BY <1>1, <1>2, <1>3 DEF Next

\* Where the sanity report sees one run and each part in it, it and the validator find
\* the same: a broken pair, or a missing end of the run.
THEOREM JudgesAgree == Spec => []ValidatorAgrees
<1>1. Init => Judged
  <2> SUFFICES ASSUME Init PROVE Judged
    OBVIOUS
  <2>1. ~ended /\ runs = 0 /\ Fresh
    BY DEF Init, SanityInit, ValidatorInit, EmptyMap, Fresh
  <2>2. RunAgrees
    BY <2>1 DEF Init, SanityInit, ValidatorInit, RunAgrees
  <2>3. SameWafers
    BY <2>1, FS_EmptySet DEF Fresh, SameWafers
  <2>4. SameParts /\ SamePairs
    BY <2>1 DEF Fresh, SameParts, SamePairs
  <2> QED
    BY <2>1, <2>2, <2>3, <2>4 DEF Judged, SameJudgement, ValidatorAgrees
<1>2. Judged => ValidatorAgrees
  BY DEF Judged
<1> QED
  BY <1>1, <1>2, StepJudged, PTL DEF Spec

-----------------------------------------------------------------------------
(***************************************************************************)
(* CleanFileIsReadable.  As long as the sanity report has found nothing,   *)
(* traceability reads on, and the converter does unless a limit or an MPR  *)
(* stopped it: each of their errors about the order of records is found    *)
(* by the sanity report at the same record.                                *)
(***************************************************************************)
CleanSoFar == issues = {} /\ ~definitions

ReadSoFar ==
  CleanSoFar =>
    /\ traceStatus = "reading" /\ run_number = runs /\ runs \in Nat
    /\ eavStatus \in {"reading", "limit", "expansion"}

Readable == (~ended => ReadSoFar) /\ CleanFileIsReadable

LEMMA StaysClean ==
  ASSUME NEW r \in Record, SanityRead(r), CleanSoFar'
  PROVE  /\ CleanSoFar
         /\ \/ r.kind = "MIR" /\ SanityMir(r) /\ ~run_open /\ DOMAIN in_progress = {}
            \/ r.kind = "MRR" /\ SanityMrr(r) /\ run_open /\ DOMAIN in_progress = {}
            \/ r.kind = "SDR" /\ SanitySdr(r)
            \/ r.kind = "WIR" /\ SanityWir(r)
            \/ r.kind = "WRR" /\ SanityWrr(r)
            \/ r.kind = "PIR" /\ SanityPir(r) /\ run_open /\ At(r) \notin DOMAIN in_progress
            \/ r.kind = "PRR" /\ SanityPrr(r) /\ run_open /\ At(r) \in DOMAIN in_progress
            \/ r.kind \in TestKind /\ SanityTest(r) /\ At(r) \in DOMAIN in_progress
<1>1. issues = {} /\ issues' = {} /\ ~definitions'
  BY IssuesStay DEF CleanSoFar
<1>2. ~SanityMalformed(r) /\ ~OutsidePartContext(r)
  BY <1>1 DEF SanityMalformed, OutsidePartContext, OpenRun, CloseRun
<1>3. \/ SanityMir(r) \/ SanityMrr(r) \/ SanitySdr(r) \/ SanityWir(r) \/ SanityWrr(r)
      \/ SanityPir(r) \/ SanityPrr(r) \/ SanityTest(r)
  BY <1>2 DEF SanityRead
<1>4. ~definitions
  BY <1>1, <1>3 DEF SanityMir, SanityMrr, SanitySdr, SanityWir, SanityWrr, SanityPir, SanityPrr,
     SanityTest, OpenRun, CloseRun
<1>5. /\ SanityMir(r) => ~run_open /\ DOMAIN in_progress = {}
      /\ SanityMrr(r) => run_open /\ DOMAIN in_progress = {}
      /\ SanityPir(r) => run_open /\ At(r) \notin DOMAIN in_progress
      /\ SanityPrr(r) => run_open /\ At(r) \in DOMAIN in_progress
  BY <1>1 DEF SanityMir, SanityMrr, SanityPir, SanityPrr, OpenRun, CloseRun, OutsideRun, Unfinished, Found
<1>6. SanityTest(r) => At(r) \in DOMAIN in_progress
  BY <1>1 DEF SanityTest, Found
<1> QED
  BY <1>1, <1>3, <1>4, <1>5, <1>6, KindsOfActions DEF CleanSoFar

LEMMA RecordRead ==
  ASSUME EInv, SameUnits, Numbered, ScanFollows, ReadSoFar, CleanSoFar', NEW r \in Record,
         EavRead(r), ScanRead(r), TraceReadRecord(r), SanityRead(r)
  PROVE  ReadSoFar'
<1>1. /\ CleanSoFar /\ traceStatus = "reading" /\ run_number = runs /\ runs \in Nat
      /\ eavStatus \in {"reading", "limit", "expansion"} /\ scanStatus = "reading"
  BY StaysClean DEF ReadSoFar, ScanFollows
<1>2. /\ run_open = run_key /\ DOMAIN in_progress = DOMAIN open_parts
      /\ eavStatus = "reading" => DOMAIN pending = DOMAIN in_progress
  <2>1. run_open = run_key /\ DOMAIN in_progress = DOMAIN open_parts
    BY <1>1 DEF SameUnits, TraceNumbers
  <2>2. eavStatus = "reading" => DOMAIN active_parts = DOMAIN open_parts
    BY <1>1 DEF Numbered, EavNumbers, ScanNumbers, TraceNumbers
  <2>3. eavStatus = "reading" => DOMAIN pending = DOMAIN active_parts
    BY DEF EInv, Charged
  <2> QED
    BY <2>1, <2>2, <2>3
<1>3. /\ r.kind # "Malformed"
      /\ r.kind = "MIR" => SanityMir(r) /\ ~run_key /\ DOMAIN open_parts = {}
      /\ r.kind = "MRR" => SanityMrr(r) /\ run_key /\ DOMAIN open_parts = {}
      /\ r.kind = "PIR" => SanityPir(r) /\ run_key /\ At(r) \notin DOMAIN open_parts
      /\ r.kind = "PRR" => SanityPrr(r) /\ run_key
      /\ r.kind \in TestKind => SanityTest(r) /\ At(r) \in DOMAIN open_parts
      /\ r.kind \in {"SDR", "WIR", "WRR"} => SanitySdr(r) \/ SanityWir(r) \/ SanityWrr(r)
  BY <1>2, StaysClean DEF TestKind
<1>4. /\ traceStatus' = "reading"
      /\ run_number' = IF r.kind = "MIR" THEN run_number + 1 ELSE run_number
  BY <1>1, <1>3 DEF TraceReadRecord, TraceStopped, TraceMir, TraceMrr, TraceSdr, TraceWir, TraceWrr,
     TracePir, TraceTest, TracePrr, TraceMalformed, traceVars
<1>5. runs' = IF r.kind = "MIR" THEN runs + 1 ELSE runs
  <2>1. CASE r.kind = "MIR"
    BY <1>3, <2>1 DEF SanityMir, OpenRun
  <2>2. CASE r.kind # "MIR"
    BY <2>2, StaysClean DEF SanityMrr, SanitySdr, SanityWir, SanityWrr, SanityPir, SanityPrr, SanityTest,
       CloseRun
  <2> QED
    BY <2>1, <2>2
<1>6. eavStatus' \in {"reading", "limit", "expansion"}
  <2>1. CASE eavStatus # "reading"
    BY <1>1, <2>1 DEF EavRead, EavStopped, eavVars
  <2>2. CASE eavStatus = "reading"
    <3>1. r.kind = "PIR" => At(r) \notin DOMAIN pending
      BY <1>2, <1>3, <2>2
    <3> QED
      BY <1>3, <2>2, <3>1 DEF EavRead, EavStopped, EavMir, EavMrr, EavSdr, EavWir, EavWrr, EavPir,
         EavTest, EavPrr, EavMalformed, EavRefuse, EavFail, EavAccept
  <2> QED
    BY <2>1, <2>2
<1> QED
  BY <1>1, <1>4, <1>5, <1>6 DEF ReadSoFar

LEMMA EndRead ==
  ASSUME EInv, SameUnits, Numbered, ScanFollows, ScanFollows', ReadSoFar, EndOfFile \/ CutOff
  PROVE  CleanFileIsReadable'
<1> SUFFICES ASSUME issues' = {}, ~definitions'
             PROVE  /\ traceStatus' = "finished" /\ scanStatus' = "finished"
                    /\ eavStatus' \in {"finished", "limit", "expansion"}
  BY DEF CleanFileIsReadable, Clean
<1>1. EndOfFile
  BY DEF CutOff, SanityCut, Closing
<1>2. /\ issues = {} /\ ~definitions
      /\ runs # 0 /\ ~run_open /\ DOMAIN in_progress = {}
  BY <1>1 DEF EndOfFile, SanityEnd, Closing, Found, Unfinished
<1>3. /\ traceStatus = "reading" /\ run_number = runs /\ runs \in Nat
      /\ eavStatus \in {"reading", "limit", "expansion"} /\ scanStatus = "reading"
  BY <1>2 DEF ReadSoFar, CleanSoFar, ScanFollows
<1>4. ~run_key /\ DOMAIN open_parts = {} /\ run_number > 0
  BY <1>2, <1>3 DEF SameUnits, TraceNumbers
<1>5. traceStatus' = "finished"
  BY <1>1, <1>3, <1>4 DEF EndOfFile, TraceEnd, TraceStopped
<1>6. scanStatus' = "finished"
  BY <1>5 DEF ScanFollows
<1>7. eavStatus = "reading" => DOMAIN pending = {}
  <2>1. eavStatus = "reading" => DOMAIN active_parts = DOMAIN open_parts
    BY <1>3 DEF Numbered, EavNumbers, ScanNumbers, TraceNumbers
  <2> QED
    BY <1>4, <2>1 DEF EInv, Charged
<1>8. eavStatus' \in {"finished", "limit", "expansion"}
  BY <1>1, <1>3, <1>7 DEF EndOfFile, EavEnd, EavStopped, EavFail, eavVars
<1> QED
  BY <1>5, <1>6, <1>8

LEMMA StepReadable ==
  EInv /\ SameUnits /\ Numbered /\ ScanFollows /\ ScanFollows' /\ Readable /\ [Next]_vars => Readable'
<1> SUFFICES ASSUME EInv, SameUnits, Numbered, ScanFollows, ScanFollows', Readable, [Next]_vars
             PROVE  Readable'
  OBVIOUS
<1>1. CASE UNCHANGED vars
  BY <1>1 DEF vars, eavVars, scanVars, traceVars, sanityVars, Readable, ReadSoFar, CleanSoFar,
     CleanFileIsReadable, Clean
<1>2. ASSUME NEW r \in Alphabet, Deliver(r) PROVE Readable'
  <2>1. /\ r \in Record /\ ~ended /\ ~ended' /\ EavRead(r) /\ ScanRead(r) /\ TraceReadRecord(r)
        /\ SanityRead(r) /\ ReadSoFar
    BY <1>2, AlphabetAssumption DEF Deliver, Readable
  <2>2. CleanSoFar' => ReadSoFar'
    BY <2>1, RecordRead
  <2>3. ReadSoFar'
    BY <2>2 DEF ReadSoFar
  <2> QED
    BY <2>1, <2>3 DEF Readable, CleanFileIsReadable
<1>3. CASE EndOfFile \/ CutOff
  <2>1. ~ended /\ ended'
    BY <1>3 DEF EndOfFile, CutOff
  <2>2. ReadSoFar
    BY <2>1 DEF Readable
  <2> QED
    BY <1>3, <2>1, <2>2, EndRead DEF Readable
<1> QED
  BY <1>1, <1>2, <1>3 DEF Next

\* A file that the sanity report finds nothing wrong with is read to its end by every
\* other reader, but for a limit or an MPR without its arrays.
THEOREM CleanFilesReadable == Spec => []CleanFileIsReadable
<1>1. Init => Readable
  BY DEF Init, EavInit, TraceInit, SanityInit, Readable, ReadSoFar, CleanFileIsReadable
<1>2. Readable => CleanFileIsReadable
  BY DEF Readable
<1> QED
  BY <1>1, <1>2, InvariantOfConverter, ConverterReads, NumbersAgree, ScanFollowsTrace, StepReadable, PTL
     DEF Spec

-----------------------------------------------------------------------------
(***************************************************************************)
(* RowsNameTheirAttempt.  While both passes read, the number of the record *)
(* is its place in the index, and what the index says of the records that  *)
(* an open part's rows come from is the number of the part; PRR moves the  *)
(* rows to a batch and closes the attempt.  The index only grows, and so   *)
(* do the closed attempts, until the first pass fails.                     *)
(***************************************************************************)
Names(index, origins, number) ==
  \A j \in DOMAIN origins : origins[j][1] \in DOMAIN index /\ index[origins[j][1]] = number

BatchIn(index, attempt, b) ==
  /\ Len(b.origins) = b.rows
  /\ Names(index, b.origins, b.part_sequence)
  /\ b.part_sequence \in DOMAIN attempt

PartsLocated ==
  /\ record_sequence = Len(evidence)
  /\ \A p \in DOMAIN active_parts : Names(evidence, Get(provenance, p, <<>>), EavNumbers[p])

Located ==
  /\ scanStatus \notin {"reading", "failed"} => ended
  /\ scanStatus # "failed" => \A i \in DOMAIN batches : BatchIn(evidence, raw_attempts, batches[i])
  /\ scanStatus = "reading" /\ eavStatus = "reading" => PartsLocated

\* What the first pass writes for a record.
Indexes(r) ==
  /\ evidence' \in Seq(Nat) /\ Len(evidence') = Len(evidence) + 1
  /\ \A i \in 1 .. Len(evidence) : evidence'[i] = evidence[i]
  /\ DOMAIN raw_attempts \subseteq DOMAIN raw_attempts'
  /\ r.kind \in PartKind \cup TestKind => evidence'[Len(evidence) + 1] = AttemptOf(At(r)).id
  /\ r.kind = "PRR" => AttemptOf(At(r)).id \in DOMAIN raw_attempts'

LEMMA ReadIndexes ==
  ASSUME ScanTypes, scanStatus = "reading", NEW r \in Record, ScanRead(r), scanStatus' # "failed"
  PROVE  scanStatus' = "reading" /\ Indexes(r)
<1>1. evidence \in Seq(Nat)
  BY DEF ScanTypes
<1>2. ~ScanFail /\ ~ScanStopped
  BY DEF ScanFail, ScanStopped
<1>3. CASE ScanMir(r) \/ ScanMrr(r) \/ ScanSdr(r) \/ ScanWir(r) \/ ScanWrr(r)
  <2>1. Index(0) /\ raw_attempts' = raw_attempts /\ r.kind \notin PartKind \cup TestKind
    BY <1>2, <1>3 DEF ScanMir, ScanMrr, ScanSdr, ScanWir, ScanWrr, PartKind, TestKind
  <2>2. r.kind # "PRR"
    BY <2>1 DEF PartKind
  <2> QED
    BY <1>1, <2>1, <2>2, AppendProperties DEF Index, Indexes
<1>4. CASE ScanSide(r)
  <2>1. SideStep(r)
    BY <1>2, <1>4, SideOrFail
  <2> PICK at : at = AttemptOf(At(r))
    OBVIOUS
  <2>2. at.id \in Nat
    BY AttemptOfType DEF OpenAttempt
  <2>3. /\ evidence' = Append(evidence, at.id) /\ scanStatus' = scanStatus
        /\ raw_attempts' = raw_attempts \/ (\E a : raw_attempts' = Put(raw_attempts, at.id, a))
        /\ r.kind = "PRR" => at.id \in DOMAIN raw_attempts'
    BY <2>1 DEF SideStep, Put
  <2>4. DOMAIN raw_attempts \subseteq DOMAIN raw_attempts'
    BY <2>3 DEF Put
  <2> QED
    BY <1>1, <2>2, <2>3, <2>4, AppendProperties DEF Indexes
<1> QED
  BY <1>2, <1>3, <1>4 DEF ScanRead, ScanMalformed

\* A record's attempt in the index has the number of the part it is converted in.
LEMMA SameNumber ==
  ASSUME ScanTypes, Numbered, eavStatus = "reading", scanStatus = "reading", NEW pos
  PROVE  Get(active_parts, pos, NewPart(pos)).part_seq = AttemptOf(pos).id
<1>1. EavNumbers = ScanNumbers /\ part_seq = next_id
  BY DEF Numbered
<1>2. DOMAIN active_parts = DOMAIN active
  BY <1>1 DEF EavNumbers, ScanNumbers
<1>3. CASE pos \in DOMAIN active
  <2>1. EavNumbers[pos] = active_parts[pos].part_seq /\ ScanNumbers[pos] = active[pos].id
    BY <1>2, <1>3 DEF EavNumbers, ScanNumbers
  <2> QED
    BY <1>1, <1>2, <1>3, <2>1, AttemptOfType DEF Get
<1>4. CASE pos \notin DOMAIN active
  BY <1>1, <1>2, <1>4, AttemptOfType DEF Get, NewPart
<1> QED
  BY <1>3, <1>4

\* What an index names it goes on naming as it grows.
LEMMA NamesStay ==
  ASSUME ScanTypes, NEW r, Indexes(r), NEW origins, NEW number, Names(evidence, origins, number)
  PROVE  Names(evidence', origins, number)
<1>1. /\ DOMAIN evidence = 1 .. Len(evidence) /\ DOMAIN evidence' = 1 .. Len(evidence')
      /\ Len(evidence) \in Nat /\ Len(evidence') = Len(evidence) + 1
      /\ \A i \in 1 .. Len(evidence) : evidence'[i] = evidence[i]
  BY DEF ScanTypes, Indexes
<1> QED
  BY <1>1 DEF Names

LEMMA BatchStays ==
  ASSUME ScanTypes, NEW r, Indexes(r), NEW b, BatchIn(evidence, raw_attempts, b)
  PROVE  BatchIn(evidence', raw_attempts', b)
BY NamesStay DEF BatchIn, Indexes

\* The rows of a test record are put down to the record that is being read.
LEMMA OriginsNamed ==
  ASSUME EInv, ScanTypes, record_sequence = Len(evidence), NEW r \in Record, Indexes(r),
         r.kind \in TestKind, NEW had \in Seq(Nat \X Nat), NEW number,
         Names(evidence, had, number), AttemptOf(At(r)).id = number,
         Reserved(r) \in Nat \ {0}
  PROVE  Names(evidence', had \o Origins(r), number)
<1>1. Names(evidence', had, number)
  BY NamesStay
<1>2. /\ Origins(r) \in Seq(Nat \X Nat) /\ record_sequence \in Nat
      /\ \A j \in DOMAIN Origins(r) : Origins(r)[j][1] = record_sequence + 1
  BY OriginsLength DEF EInv, Origins
<1>3. record_sequence + 1 \in DOMAIN evidence' /\ evidence'[record_sequence + 1] = number
  BY <1>2 DEF Indexes
<1>4. PICK new \in Seq(Nat \X Nat) : new = Origins(r)
  BY <1>2
<1>5. Names(evidence', new, number)
  BY <1>2, <1>3, <1>4 DEF Names
<1>6. \A j \in DOMAIN (had \o new) :
        \/ j \in DOMAIN had /\ (had \o new)[j] = had[j]
        \/ j - Len(had) \in DOMAIN new /\ (had \o new)[j] = new[j - Len(had)]
  BY ConcatProperties
<1>7. Names(evidence', had \o new, number)
  <2> SUFFICES ASSUME NEW j \in DOMAIN (had \o new)
               PROVE  /\ (had \o new)[j][1] \in DOMAIN evidence'
                      /\ evidence'[(had \o new)[j][1]] = number
    BY Zenon DEF Names
  <2>1. CASE j \in DOMAIN had /\ (had \o new)[j] = had[j]
    BY <1>1, <2>1, Zenon DEF Names
  <2>2. CASE j - Len(had) \in DOMAIN new /\ (had \o new)[j] = new[j - Len(had)]
    BY <1>5, <2>2, Zenon DEF Names
  <2> QED
    BY <1>6, <2>1, <2>2
<1> QED
  BY <1>4, <1>7

\* The batch of a part, and the parts that stay open.
LEMMA PrrLocates ==
  ASSUME EInv, EavTypes, ScanTypes, Numbered, Located, eavStatus = "reading", scanStatus = "reading",
         NEW r \in Record, Indexes(r), EavPrr(r)
  PROVE  (\A i \in DOMAIN batches' : BatchIn(evidence', raw_attempts', batches'[i])) /\ PartsLocated'
<1> DEFINE pos == At(r)
<1>1. r.kind = "PRR"
  BY DEF EavPrr
<1>2. PICK batch \in Batch :
        /\ batch.rows = Get(HeldRows, pos, 0)
        /\ batch.part_sequence = Get(active_parts, pos, NewPart(pos)).part_seq
        /\ batch.origins = Get(provenance, pos, <<>>)
        /\ batches' = Emit(batch)
  BY PrrBatch DEF HeldRows
<1>3. BatchIn(evidence', raw_attempts', batch)
  <2>1. batch.part_sequence = AttemptOf(pos).id
    BY <1>2, SameNumber
  <2>2. batch.part_sequence \in DOMAIN raw_attempts'
    BY <1>1, <2>1 DEF Indexes
  <2>3. Len(batch.origins) = batch.rows
    BY <1>2 DEF EInv, Charged, Get, HeldRows
  <2>4. Names(evidence, batch.origins, batch.part_sequence)
    <3>1. CASE pos \in DOMAIN active_parts
      <4>1. Names(evidence, Get(provenance, pos, <<>>), EavNumbers[pos])
        BY <3>1 DEF Located, PartsLocated
      <4>2. EavNumbers[pos] = batch.part_sequence
        BY <1>2, <3>1 DEF EavNumbers, Get
      <4> QED
        BY <1>2, <4>1, <4>2
    <3>2. CASE pos \notin DOMAIN active_parts
      BY <1>2, <3>2 DEF EInv, Charged, Get, Names
    <3> QED
      BY <3>1, <3>2
  <2>5. Names(evidence', batch.origins, batch.part_sequence)
    BY <2>4, NamesStay
  <2> QED
    BY <2>2, <2>3, <2>5 DEF BatchIn
<1>4. \A i \in DOMAIN batches : BatchIn(evidence', raw_attempts', batches[i])
  BY BatchStays DEF Located
<1>5. \A i \in DOMAIN batches' : BatchIn(evidence', raw_attempts', batches'[i])
  <2>1. CASE batch.rows > 0
    <3>1. /\ Len(batches') = Len(batches) + 1 /\ batches' \in Seq(Batch)
          /\ batches'[Len(batches) + 1] = batch
          /\ \A i \in 1 .. Len(batches) : batches'[i] = batches[i]
      BY <1>2, <2>1, EmitType
    <3>2. /\ DOMAIN batches = 1 .. Len(batches) /\ DOMAIN batches' = 1 .. Len(batches')
          /\ Len(batches) \in Nat
      BY <3>1 DEF EavTypes
    <3> QED
      BY <1>3, <1>4, <3>1, <3>2
  <2>2. CASE ~(batch.rows > 0)
    BY <1>2, <1>4, <2>2 DEF Emit
  <2> QED
    BY <2>1, <2>2
<1>6. PartsLocated'
  <2>1. /\ active_parts' = Without(active_parts, pos) /\ provenance' = Without(provenance, pos)
        /\ record_sequence' = record_sequence + 1
    BY DEF EavPrr, EavAccept
  <2>2. record_sequence' = Len(evidence')
    BY <2>1 DEF Located, PartsLocated, Indexes
  <2>3. ASSUME NEW p \in DOMAIN active_parts'
        PROVE  Names(evidence', Get(provenance', p, <<>>), EavNumbers'[p])
    <3>1. /\ p \in DOMAIN active_parts /\ active_parts'[p] = active_parts[p]
          /\ Get(provenance', p, <<>>) = Get(provenance, p, <<>>)
      BY <2>1 DEF Without, Get
    <3>2. EavNumbers'[p] = EavNumbers[p]
      BY <3>1 DEF EavNumbers
    <3>3. Names(evidence, Get(provenance, p, <<>>), EavNumbers[p])
      BY <3>1 DEF Located, PartsLocated
    <3> QED
      BY <3>1, <3>2, <3>3, NamesStay
  <2> QED
    BY <2>2, <2>3 DEF PartsLocated
<1> QED
  BY <1>5, <1>6

\* A record that closes no part leaves the rows of every part where they were, or, if it is a
\* test, adds rows that are put down to it.
LEMMA PartsStay ==
  ASSUME EInv, EavTypes, ScanTypes, Numbered, PartsLocated,
         eavStatus = "reading", eavStatus' = "reading", scanStatus = "reading",
         NEW r \in Record, Indexes(r), EavRead(r), r.kind # "PRR"
  PROVE  PartsLocated'
<1>1. record_sequence' = record_sequence + 1
  BY DEF EavRead, EavStopped, EavMir, EavMrr, EavSdr, EavWir, EavWrr, EavPir, EavTest, EavPrr,
         EavMalformed, EavRefuse, EavAccept
<1>2. record_sequence' = Len(evidence')
  BY <1>1 DEF PartsLocated, Indexes
<1>3. \A p \in DOMAIN active_parts : Names(evidence', Get(provenance, p, <<>>), EavNumbers[p])
  BY NamesStay DEF PartsLocated
<1>4. CASE EavMir(r) \/ EavMrr(r) \/ EavSdr(r) \/ EavWir(r) \/ EavWrr(r) \/ EavMalformed(r)
  <2>1. UNCHANGED <<active_parts, provenance>>
    BY <1>4 DEF EavMir, EavMrr, EavSdr, EavWir, EavWrr, EavMalformed, EavRefuse, EavFail, context
  <2>2. EavNumbers' = EavNumbers
    BY <2>1 DEF EavNumbers
  <2> QED
    BY <1>2, <1>3, <2>1, <2>2 DEF PartsLocated
<1> DEFINE pos == At(r)
<1>5. CASE EavPir(r)
  <2>1. /\ pos \notin DOMAIN active_parts /\ provenance' = provenance
        /\ active_parts' = Put(active_parts, pos, NewPart(pos))
    BY <1>5 DEF EavPir, EavRefuse, EavFail, EInv, Charged
  <2>2. pos \notin DOMAIN provenance
    BY <2>1 DEF EInv, Charged
  <2> SUFFICES ASSUME NEW p \in DOMAIN active_parts'
               PROVE  Names(evidence', Get(provenance', p, <<>>), EavNumbers'[p])
    BY <1>2 DEF PartsLocated
  <2>3. CASE p = pos
    BY <2>1, <2>2, <2>3 DEF Get, Names
  <2>4. CASE p # pos
    <3>1. p \in DOMAIN active_parts /\ active_parts'[p] = active_parts[p]
      BY <2>1, <2>4 DEF Put
    <3>2. EavNumbers'[p] = EavNumbers[p]
      BY <3>1 DEF EavNumbers
    <3> QED
      BY <1>3, <2>1, <3>1, <3>2
  <2> QED
    BY <2>3, <2>4
<1>6. CASE EavTest(r)
  <2> DEFINE part == Get(active_parts, pos, NewPart(pos))
             had == Get(provenance, pos, <<>>)
  <2>1. /\ r.kind \in TestKind /\ r.carried = r.declared
        /\ active_parts' = Put(active_parts, pos, [part EXCEPT !.tests = @ + RowsOf(r)])
        /\ provenance' = Put(provenance, pos, had \o Origins(r))
    BY <1>6 DEF EavTest, EavRefuse, EavFail
  <2>2. part \in Part
    BY NewPartType DEF Get, EavTypes
  <2>3. [part EXCEPT !.tests = @ + RowsOf(r)].part_seq = part.part_seq
    BY <2>2 DEF Part
  <2>4. AttemptOf(pos).id = part.part_seq
    BY SameNumber
  <2>5. had \in Seq(Nat \X Nat)
    BY DEF EInv, Charged, Get
  <2>6. Names(evidence, had, part.part_seq)
    <3>1. CASE pos \in DOMAIN active_parts
      <4>1. EavNumbers[pos] = part.part_seq
        BY <3>1 DEF EavNumbers, Get
      <4> QED
        BY <3>1, <4>1 DEF PartsLocated
    <3>2. CASE pos \notin DOMAIN active_parts
      BY <3>2 DEF EInv, Charged, Get, Names
    <3> QED
      BY <3>1, <3>2
  <2>7. Names(evidence', had \o Origins(r), part.part_seq)
    <3>1. Reserved(r) \in Nat \ {0}
      BY <2>1, ReservedIsRows
    <3>2. record_sequence = Len(evidence)
      BY DEF PartsLocated
    <3> HIDE DEF had, part, pos
    <3> QED
      BY <2>1, <2>4, <2>5, <2>6, <3>1, <3>2, OriginsNamed DEF pos
  <2> HIDE DEF part, had
  <2> SUFFICES ASSUME NEW p \in DOMAIN active_parts'
               PROVE  Names(evidence', Get(provenance', p, <<>>), EavNumbers'[p])
    BY <1>2 DEF PartsLocated
  <2>8. CASE p = pos
    <3>1. EavNumbers'[p] = part.part_seq
      BY <2>1, <2>3, <2>8 DEF EavNumbers, Put
    <3>2. Get(provenance', p, <<>>) = had \o Origins(r)
      BY <2>1, <2>8 DEF Get, Put
    <3> QED
      BY <2>7, <3>1, <3>2
  <2>9. CASE p # pos
    <3>1. /\ p \in DOMAIN active_parts /\ active_parts'[p] = active_parts[p]
          /\ Get(provenance', p, <<>>) = Get(provenance, p, <<>>)
      BY <2>1, <2>9 DEF Put, Get
    <3>2. EavNumbers'[p] = EavNumbers[p]
      BY <3>1 DEF EavNumbers
    <3> QED
      BY <1>3, <3>1, <3>2
  <2> QED
    BY <2>8, <2>9
<1> QED
  BY <1>4, <1>5, <1>6 DEF EavRead, EavStopped, EavPrr

LEMMA StepLocates ==
  EInv /\ EavTypes /\ ScanTypes /\ Numbered /\ Located /\ [Next]_vars => Located'
<1> SUFFICES ASSUME EInv, EavTypes, ScanTypes, Numbered, Located, [Next]_vars PROVE Located'
  OBVIOUS
<1>1. CASE UNCHANGED vars
  <2>1. UNCHANGED <<ended, scanStatus, eavStatus, batches, evidence, raw_attempts, record_sequence,
                    active_parts, provenance>>
    BY <1>1 DEF vars, eavVars, context, scanVars
  <2>2. EavNumbers' = EavNumbers
    BY <2>1 DEF EavNumbers
  <2> QED
    BY <2>1, <2>2 DEF Located, PartsLocated
<1>2. ASSUME NEW r \in Alphabet, Deliver(r) PROVE Located'
  <2>1. r \in Record /\ EavRead(r) /\ ScanRead(r)
    BY <1>2, AlphabetAssumption DEF Deliver
  <2>2. CASE scanStatus' = "failed"
    BY <2>2 DEF Located
  <2>3. scanStatus' # "failed" => scanStatus = "reading"
    BY <1>2, <2>1 DEF Located, Deliver, ScanRead, ScanStopped, scanVars
  <2>4. CASE scanStatus' # "failed" /\ scanStatus = "reading"
    <3>1. scanStatus' = "reading" /\ Indexes(r)
      BY <2>1, <2>4, ReadIndexes
    <3>2. \A i \in DOMAIN batches : BatchIn(evidence', raw_attempts', batches[i])
      BY <2>4, <3>1, BatchStays DEF Located
    <3>3. CASE eavStatus = "reading" /\ EavPrr(r)
      BY <2>1, <2>4, <3>1, <3>3, PrrLocates DEF Located
    <3>4. CASE ~(eavStatus = "reading" /\ EavPrr(r))
      <4>1. batches' = batches
        BY <2>1, <3>4 DEF EavRead, EavStopped, eavVars, EavMir, EavMrr, EavSdr, EavWir, EavWrr, EavPir,
               EavTest, EavMalformed, EavRefuse, EavFail, Discard
      <4>2. eavStatus' = "reading" => eavStatus = "reading" /\ r.kind # "PRR"
        BY <2>1, <3>4 DEF EavRead, EavStopped, eavVars, EavMir, EavMrr, EavSdr, EavWir, EavWrr, EavPir,
               EavTest, EavMalformed, TestKind
      <4>3. eavStatus' = "reading" => PartsLocated'
        BY <2>1, <2>4, <3>1, <4>2, PartsStay DEF Located
      <4> QED
        BY <3>1, <3>2, <4>1, <4>3 DEF Located
    <3> QED
      BY <3>3, <3>4
  <2> QED
    BY <2>2, <2>3, <2>4
<1>3. CASE EndOfFile \/ CutOff
  <2>1. scanStatus' # "reading" /\ eavStatus' # "reading" /\ ended'
    BY <1>3, EndStopsReading DEF EndOfFile, CutOff
  <2>2. batches' = batches
    BY <1>3 DEF EndOfFile, CutOff, EavEnd, EavCut, EavStopped, EavFail, Discard, eavVars
  <2>3. scanStatus' # "failed" => scanStatus # "failed" /\ UNCHANGED <<evidence, raw_attempts>>
    BY <1>3 DEF EndOfFile, CutOff, ScanEnd, ScanCut, ScanStopped, ScanFail, scanVars
  <2> QED
    BY <2>1, <2>2, <2>3 DEF Located
<1> QED
  BY <1>1, <1>2, <1>3 DEF Next

\* The second pass of the viewer finds the record of every row in the index of the first,
\* with the attempt that the row is of.
THEOREM RowsFoundInIndex == Spec => []RowsNameTheirAttempt
<1>1. Init => Located
  BY DEF Init, EavInit, ScanInit, EmptyMap, Located, PartsLocated
<1>2. Located => RowsNameTheirAttempt
  BY DEF Located, BatchIn, Names, RowsNameTheirAttempt
<1> QED
  BY <1>1, <1>2, InvariantOfConverter, ConverterReads, TypesOfConverter, TypesOfScan, NumbersAgree,
     StepLocates, PTL DEF Spec

-----------------------------------------------------------------------------
(***************************************************************************)
(* LookupFindsRows.  The table is built row by row: its index is complete  *)
(* for every attempt but the one whose rows are being written, and for     *)
(* that one lookup_fragments is.  An entry of the index is replaced when   *)
(* the next attempt begins, so that it stays right only because no two     *)
(* batches are of the same attempt.                                        *)
(***************************************************************************)
Row == [id : Nat, attempt : Nat, record : Nat]
Lookups == UNION {[D -> SUBSET Nat] : D \in SUBSET Nat}
Table == [rows : Seq(Row), fragments : Seq(Seq(Row)), lookup_attempt : Nat,
          lookup_fragments : SUBSET Nat, lookup : Lookups]

Of(rows, a) == \E j \in DOMAIN rows : rows[j].attempt = a
FragmentsOf(t, a) == {i \in DOMAIN t.fragments : Of(t.fragments[i], a)}

\* The fragments that hold the attempt's rows, the one that is being filled included.
Holding(t, a) == FragmentsOf(t, a) \cup (IF Of(t.rows, a) THEN {Len(t.fragments) + 1} ELSE {})

RowsIn(t) == FlattenSeq(t.fragments) \o t.rows

Numbering(rows, n) == Len(rows) = n /\ \A i \in 1 .. n : rows[i].id = i

\* The table after n rows of the attempts in seen.
TableFilled(t, n, seen) ==
  /\ t \in Table
  /\ t.lookup_attempt \in seen \cup {0} /\ DOMAIN t.lookup \subseteq seen
  /\ \A a \in Nat \ {0} :
       /\ Holding(t, a) = IF a = t.lookup_attempt THEN t.lookup_fragments ELSE Get(t.lookup, a, {})
       /\ a \notin seen => Holding(t, a) = {}
  /\ Numbering(RowsIn(t), n)

LEMMA LookupPut ==
  ASSUME NEW f \in Lookups, NEW k \in Nat, NEW v \in SUBSET Nat
  PROVE  Put(f, k, v) \in Lookups
<1>1. PICK D \in SUBSET Nat : f \in [D -> SUBSET Nat]
  BY DEF Lookups
<1>2. Put(f, k, v) \in [D \cup {k} -> SUBSET Nat] /\ D \cup {k} \in SUBSET Nat
  BY <1>1 DEF Put
<1> QED
  BY <1>2 DEF Lookups

LEMMA IndexedType ==
  ASSUME NEW t \in Table
  PROVE  /\ Indexed(t) \in Table
         /\ Indexed(t).rows = t.rows /\ Indexed(t).fragments = t.fragments
         /\ Indexed(t).lookup_attempt = t.lookup_attempt
         /\ Indexed(t).lookup_fragments = t.lookup_fragments
         /\ Indexed(t).lookup = IF t.lookup_attempt = 0 THEN t.lookup
                                ELSE Put(t.lookup, t.lookup_attempt, t.lookup_fragments)
<1>1. Put(t.lookup, t.lookup_attempt, t.lookup_fragments) \in Lookups
  BY LookupPut DEF Table
<1> QED
  BY <1>1 DEF Indexed, Table

LEMMA IndexedFilled ==
  ASSUME NEW t, NEW n, NEW seen, TableFilled(t, n, seen)
  PROVE  /\ TableFilled(Indexed(t), n, seen)
         /\ \A a \in Nat \ {0} : Get(Indexed(t).lookup, a, {}) = Holding(t, a)
<1> DEFINE u == Indexed(t)
<1>1. /\ t \in Table /\ u \in Table /\ u.rows = t.rows /\ u.fragments = t.fragments
      /\ u.lookup_attempt = t.lookup_attempt /\ u.lookup_fragments = t.lookup_fragments
      /\ u.lookup = IF t.lookup_attempt = 0 THEN t.lookup
                    ELSE Put(t.lookup, t.lookup_attempt, t.lookup_fragments)
  BY IndexedType DEF TableFilled
<1> HIDE DEF u
<1>2. RowsIn(u) = RowsIn(t) /\ \A a : Holding(u, a) = Holding(t, a)
  BY <1>1 DEF RowsIn, Holding, FragmentsOf
<1>3. \A a \in Nat \ {0} :
        Get(u.lookup, a, {}) = IF a = t.lookup_attempt THEN t.lookup_fragments
                               ELSE Get(t.lookup, a, {})
  BY <1>1 DEF Get, Put
<1>4. \A a \in Nat \ {0} : Get(u.lookup, a, {}) = Holding(t, a)
  BY <1>3 DEF TableFilled
<1>5. DOMAIN u.lookup \subseteq seen
  BY <1>1 DEF TableFilled, Put
<1>6. TableFilled(u, n, seen)
  BY <1>1, <1>2, <1>4, <1>5 DEF TableFilled
<1> QED
  BY <1>4, <1>6 DEF u

\* The rows that were being collected become a fragment, and are in it.
LEMMA FlushFilled ==
  ASSUME NEW t, NEW n, NEW seen, TableFilled(t, n, seen)
  PROVE  /\ TableFilled(Flush(t), n, seen)
         /\ Flush(t).lookup_attempt = t.lookup_attempt /\ Flush(t).rows = <<>>
         /\ \A a \in Nat \ {0} : Get(Flush(t).lookup, a, {}) = FragmentsOf(Flush(t), a)
<1> PICK u : u = Indexed(t)
  OBVIOUS
<1>1. /\ TableFilled(u, n, seen) /\ u \in Table /\ u.rows = t.rows /\ u.lookup_attempt = t.lookup_attempt
      /\ \A a \in Nat \ {0} : Get(u.lookup, a, {}) = Holding(t, a)
      /\ u.fragments = t.fragments
  BY IndexedFilled, IndexedType DEF TableFilled
<1>2. \A a : Holding(u, a) = Holding(t, a)
  BY <1>1 DEF Holding, FragmentsOf
<1>3. CASE t.rows = <<>>
  <2>1. Flush(t) = u
    BY <1>3 DEF Flush
  <2>2. \A a : Holding(t, a) = FragmentsOf(t, a) /\ FragmentsOf(u, a) = FragmentsOf(t, a)
    BY <1>1, <1>3 DEF Holding, Of, FragmentsOf
  <2> QED
    BY <1>1, <1>3, <2>1, <2>2
<1>4. CASE t.rows # <<>>
  <2> PICK v : v = Flush(t)
    OBVIOUS
  <2>1. v = [u EXCEPT !.fragments = Append(@, u.rows), !.rows = <<>>]
    BY <1>1, <1>4 DEF Flush
  <2>2. /\ u.fragments \in Seq(Seq(Row)) /\ u.rows \in Seq(Row)
    BY <1>1 DEF Table
  <2>3. /\ v \in Table /\ v.fragments = Append(u.fragments, u.rows) /\ v.rows = <<>>
        /\ v.lookup_attempt = u.lookup_attempt /\ v.lookup_fragments = u.lookup_fragments
        /\ v.lookup = u.lookup
    <3>1. <<>> \in Seq(Row) /\ Append(u.fragments, u.rows) \in Seq(Seq(Row))
      BY <2>2
    <3> PICK longer : longer = Append(u.fragments, u.rows)
      OBVIOUS
    <3>2. v = [u EXCEPT !.fragments = longer, !.rows = <<>>]
      BY <2>1
    <3> QED
      BY <1>1, <3>1, <3>2 DEF Table
  <2>4. /\ DOMAIN v.fragments = DOMAIN u.fragments \cup {Len(u.fragments) + 1}
        /\ v.fragments[Len(u.fragments) + 1] = u.rows
        /\ \A i \in DOMAIN u.fragments : v.fragments[i] = u.fragments[i]
    BY <2>2, <2>3
  <2>5. \A a : FragmentsOf(v, a) = Holding(u, a) /\ Holding(v, a) = FragmentsOf(v, a)
    <3>1. \A a : FragmentsOf(v, a) = Holding(u, a)
      BY <2>4 DEF FragmentsOf, Holding
    <3>2. \A a : ~Of(v.rows, a)
      BY <2>3 DEF Of
    <3> QED
      BY <3>1, <3>2 DEF Holding
  <2>6. RowsIn(v) = RowsIn(u)
    <3>1. FlattenSeq(u.fragments) \in Seq(Row)
      BY <2>2, FlattenType
    <3>2. FlattenSeq(v.fragments) = FlattenSeq(u.fragments) \o u.rows
      BY <2>2, <2>3, FlattenAppend, ZenonT(40)
    <3>3. FlattenSeq(u.fragments) \o u.rows \in Seq(Row)
      BY <2>2, <3>1
    <3> QED
      BY <2>3, <3>2, <3>3, ConcatEmptySeq DEF RowsIn
  <2>7. TableFilled(v, n, seen)
    BY <1>1, <2>3, <2>5, <2>6 DEF TableFilled
  <2> QED
    BY <1>1, <1>2, <2>3, <2>5, <2>7
<1> QED
  BY <1>3, <1>4

\* PushRow in its two parts: the row's attempt begins, unless it has, and the row is added.
Begun(t, a) ==
  IF t.lookup_attempt = a THEN t
  ELSE [Indexed(t) EXCEPT !.lookup_attempt = a, !.lookup_fragments = {}]
Added(t, u, row) ==
  [u EXCEPT !.lookup_fragments = @ \cup {Len(t.fragments) + 1}, !.rows = Append(@, row)]

LEMMA PushInParts ==
  ASSUME NEW t, NEW row
  PROVE  LET v == Added(t, Begun(t, row.attempt), row)
         IN PushRow(t, row) = IF Len(v.rows) >= FragmentRows THEN Flush(v) ELSE v
BY DEF PushRow, Begun, Added

\* v is u with one more row, in the fragment that t is filling.
OneMore(t, u, v, row) ==
  /\ v \in Table /\ v.rows = Append(u.rows, row) /\ v.fragments = u.fragments
  /\ v.lookup = u.lookup /\ v.lookup_attempt = u.lookup_attempt
  /\ v.lookup_fragments = u.lookup_fragments \cup {Len(t.fragments) + 1}

LEMMA AddedType ==
  ASSUME NEW t \in Table, NEW u \in Table, NEW row \in Row
  PROVE  OneMore(t, u, Added(t, u, row), row)
<1> PICK v : v = Added(t, u, row)
  OBVIOUS
<1>1. u.rows \in Seq(Row) /\ t.fragments \in Seq(Seq(Row)) /\ u.lookup_fragments \in SUBSET Nat
  BY DEF Table
<1> PICK longer, more : /\ longer = Append(u.rows, row)
                        /\ more = u.lookup_fragments \cup {Len(t.fragments) + 1}
  OBVIOUS
<1>2. longer \in Seq(Row) /\ more \in SUBSET Nat
  BY <1>1
<1>3. v = [u EXCEPT !.lookup_fragments = more, !.rows = longer]
  BY DEF Added, Table
<1>4. /\ v \in Table /\ v.rows = longer /\ v.fragments = u.fragments /\ v.lookup = u.lookup
      /\ v.lookup_attempt = u.lookup_attempt /\ v.lookup_fragments = more
  BY <1>2, <1>3 DEF Table
<1> QED
  BY <1>4 DEF OneMore

LEMMA FlushType ==
  ASSUME NEW t \in Table
  PROVE  Flush(t) \in Table
<1> PICK s : s = Indexed(t)
  OBVIOUS
<1>1. s \in Table /\ s.rows = t.rows
  BY IndexedType
<1>2. Flush(t) = IF t.rows = <<>> THEN s
                 ELSE [s EXCEPT !.fragments = Append(@, t.rows), !.rows = <<>>]
  BY DEF Flush
<1>3. s.fragments \in Seq(Seq(Row)) /\ t.rows \in Seq(Row)
  BY <1>1 DEF Table
<1> PICK longer : longer = Append(s.fragments, t.rows)
  OBVIOUS
<1>4. longer \in Seq(Seq(Row)) /\ <<>> \in Seq(Row)
  BY <1>3
<1>5. Flush(t) = IF t.rows = <<>> THEN s ELSE [s EXCEPT !.fragments = longer, !.rows = <<>>]
  BY <1>2
<1> QED
  BY <1>1, <1>4, <1>5 DEF Table

LEMMA BegunType ==
  ASSUME NEW t \in Table, NEW a \in Nat
  PROVE  Begun(t, a) \in Table
BY IndexedType DEF Begun, Table

LEMMA PushType ==
  ASSUME NEW t \in Table, NEW row \in Row
  PROVE  PushRow(t, row) \in Table
<1>1. row.attempt \in Nat
  BY DEF Row
<1>2. Added(t, Begun(t, row.attempt), row) \in Table
  BY <1>1, BegunType, AddedType DEF OneMore
<1> QED
  BY <1>2, PushInParts, FlushType

LEMMA NumberingGrows ==
  ASSUME NEW n \in Nat, NEW r \in Seq(Row), NEW s \in Seq(Row), NEW row \in Row, row.id = n + 1,
         Numbering(r \o s, n)
  PROVE  Numbering(r \o Append(s, row), n + 1)
<1>1. r \o Append(s, row) = Append(r \o s, row) /\ r \o s \in Seq(Row)
  BY ConcatAppend, Zenon
<1> PICK all : all = r \o s
  OBVIOUS
<1>2. all \in Seq(Row) /\ Numbering(all, n)
  BY <1>1
<1>3. Numbering(Append(all, row), n + 1)
  <2>1. Len(all) = n /\ \A i \in 1 .. n : all[i].id = i
    BY <1>2 DEF Numbering
  <2> PICK more : more = Append(all, row)
    OBVIOUS
  <2>2. Len(more) = n + 1 /\ more[n + 1] = row /\ \A i \in 1 .. n : more[i] = all[i]
    BY <1>2, <2>1
  <2>3. ASSUME NEW i \in 1 .. n + 1 PROVE more[i].id = i
    <3>1. i \in 1 .. n \/ i = n + 1
      OBVIOUS
    <3> QED
      BY <2>1, <2>2, <3>1
  <2> QED
    BY <2>2, <2>3 DEF Numbering
<1> QED
  BY <1>1, <1>3, Zenon

\* A row of the attempt that is being written, or the first one of another.
LEMMA PushFilled ==
  ASSUME NEW t, NEW n \in Nat, NEW seen, TableFilled(t, n, seen), NEW row \in Row,
         row.id = n + 1, row.attempt # 0,
         row.attempt \in seen => row.attempt = t.lookup_attempt
  PROVE  /\ TableFilled(PushRow(t, row), n + 1, seen \cup {row.attempt})
         /\ PushRow(t, row).lookup_attempt = row.attempt
<1> PICK a : a = row.attempt
  OBVIOUS
<1>0. a \in Nat \ {0}
  BY DEF Row
<1> PICK u : u = Begun(t, a)
  OBVIOUS
<1>1. TableFilled(u, n, seen \cup {a}) /\ u.lookup_attempt = a /\ u.fragments = t.fragments
  <2>1. CASE t.lookup_attempt = a
    BY <2>1 DEF TableFilled, Begun
  <2>2. CASE t.lookup_attempt # a
    <3> PICK s : s = Indexed(t)
      OBVIOUS
    <3>1. TableFilled(s, n, seen) /\ s.fragments = t.fragments /\ s \in Table
      <4>1. TableFilled(s, n, seen)
        BY IndexedFilled
      <4> QED
        BY <4>1, IndexedType DEF TableFilled
    <3>2. \A b \in Nat \ {0} : Get(s.lookup, b, {}) = Holding(s, b)
      <4>1. \A b : Holding(s, b) = Holding(t, b)
        BY IndexedType DEF Holding, FragmentsOf, TableFilled
      <4> QED
        BY <4>1, IndexedFilled
    <3>3. u = [s EXCEPT !.lookup_attempt = a, !.lookup_fragments = {}]
      BY <2>2 DEF Begun
    <3>4. /\ u \in Table /\ u.rows = s.rows /\ u.fragments = s.fragments /\ u.lookup = s.lookup
          /\ u.lookup_attempt = a /\ u.lookup_fragments = {}
      BY <1>0, <3>1, <3>3 DEF Table
    <3>5. RowsIn(u) = RowsIn(s) /\ \A b : Holding(u, b) = Holding(s, b)
      BY <3>4 DEF RowsIn, Holding, FragmentsOf
    <3>6. a \notin seen
      BY <2>2
    <3>7. Holding(u, a) = {}
      BY <1>0, <3>1, <3>5, <3>6 DEF TableFilled
    <3>8. \A b \in Nat \ {0} : Holding(u, b) =
            IF b = u.lookup_attempt THEN u.lookup_fragments ELSE Get(u.lookup, b, {})
      BY <3>2, <3>4, <3>5, <3>7
    <3>9. \A b \in Nat \ {0} : b \notin seen \cup {a} => Holding(u, b) = {}
      BY <3>1, <3>5 DEF TableFilled
    <3>10. /\ u.lookup_attempt \in seen \cup {a} \cup {0} /\ DOMAIN u.lookup \subseteq seen \cup {a}
           /\ Numbering(RowsIn(u), n)
      BY <3>1, <3>4, <3>5 DEF TableFilled
    <3> QED
      BY <3>1, <3>4, <3>8, <3>9, <3>10 DEF TableFilled
  <2> QED
    BY <2>1, <2>2
<1> PICK v : v = Added(t, u, row)
  OBVIOUS
<1>2. u.rows \in Seq(Row) /\ u.fragments \in Seq(Seq(Row)) /\ u \in Table
  BY <1>1 DEF TableFilled, Table
<1>3. /\ v \in Table /\ v.rows = Append(u.rows, row) /\ v.fragments = u.fragments
      /\ v.lookup = u.lookup /\ v.lookup_attempt = a
      /\ v.lookup_fragments = u.lookup_fragments \cup {Len(u.fragments) + 1}
  <2>1. t \in Table
    BY DEF TableFilled
  <2>2. OneMore(t, u, v, row)
    BY <1>2, <2>1, AddedType
  <2> QED
    BY <1>1, <2>2 DEF OneMore
<1>4. \A b : Of(v.rows, b) <=> Of(u.rows, b) \/ b = a
  <2>1. /\ DOMAIN v.rows = DOMAIN u.rows \cup {Len(u.rows) + 1} /\ v.rows[Len(u.rows) + 1] = row
        /\ \A i \in DOMAIN u.rows : v.rows[i] = u.rows[i]
    BY <1>2, <1>3
  <2> QED
    BY <2>1 DEF Of
<1>5. \A b \in Nat \ {0} :
        /\ Holding(v, b) = IF b = v.lookup_attempt THEN v.lookup_fragments ELSE Get(v.lookup, b, {})
        /\ b \notin seen \cup {a} => Holding(v, b) = {}
  <2> TAKE b \in Nat \ {0}
  <2>1. FragmentsOf(v, b) = FragmentsOf(u, b)
    BY <1>3 DEF FragmentsOf
  <2>2. /\ Holding(u, b) = IF b = u.lookup_attempt THEN u.lookup_fragments ELSE Get(u.lookup, b, {})
        /\ b \notin seen \cup {a} => Holding(u, b) = {}
    BY <1>1 DEF TableFilled
  <2>3. CASE b = a
    <3>1. Holding(v, b) = FragmentsOf(u, b) \cup {Len(u.fragments) + 1}
      BY <1>3, <1>4, <2>1, <2>3 DEF Holding
    <3>2. Holding(u, b) \cup {Len(u.fragments) + 1} = FragmentsOf(u, b) \cup {Len(u.fragments) + 1}
      BY DEF Holding
    <3> QED
      BY <1>1, <1>3, <2>2, <2>3, <3>1, <3>2
  <2>4. CASE b # a
    <3>1. Holding(v, b) = Holding(u, b)
      BY <1>3, <1>4, <2>1, <2>4 DEF Holding
    <3> QED
      BY <1>1, <1>3, <2>2, <2>4, <3>1
  <2> QED
    BY <2>3, <2>4
<1>6. Numbering(RowsIn(v), n + 1)
  <2> PICK flat, old : flat = FlattenSeq(u.fragments) /\ old = u.rows
    OBVIOUS
  <2>1. flat \in Seq(Row) /\ old \in Seq(Row)
    BY <1>2, FlattenType
  <2>2. RowsIn(u) = flat \o old /\ RowsIn(v) = flat \o Append(old, row)
    BY <1>3 DEF RowsIn
  <2>3. Numbering(flat \o old, n)
    BY <1>1, <2>2, Zenon DEF TableFilled
  <2>4. Numbering(flat \o Append(old, row), n + 1)
    BY <2>1, <2>3, NumberingGrows, Zenon
  <2> QED
    BY <2>2, <2>4, Zenon
<1>7. TableFilled(v, n + 1, seen \cup {a})
  <2>1. v.lookup_attempt \in seen \cup {a} \cup {0} /\ DOMAIN v.lookup \subseteq seen \cup {a}
    BY <1>1, <1>3 DEF TableFilled
  <2> QED
    BY <1>3, <1>5, <1>6, <2>1 DEF TableFilled
<1>8. PushRow(t, row) = IF Len(v.rows) >= FragmentRows THEN Flush(v) ELSE v
  BY PushInParts
<1> QED
  BY <1>3, <1>7, <1>8, FlushFilled

\* The table after a batch, row by row.
Pushes(rows, base) ==
  CHOOSE f : f = [s \in SUBSET DOMAIN rows |->
                    IF s = {} THEN base ELSE PushRow(f[s \ {Max(s)}], rows[Max(s)])]

LEMMA PushesFold ==
  ASSUME NEW rows, NEW base
  PROVE  FoldLeft(PushRow, base, rows) = Pushes(rows, base)[DOMAIN rows]
BY Zenon DEF FoldLeft, MapThenFoldSet, Pushes

LEMMA PushesStep ==
  ASSUME NEW rows \in Seq(Row), NEW base \in Table
  PROVE  /\ Pushes(rows, base)[{}] = base
         /\ \A n \in 1 .. Len(rows) :
              Pushes(rows, base)[1 .. n] = PushRow(Pushes(rows, base)[1 .. n - 1], rows[n])
<1> DEFINE N == Len(rows)
           step == [x \in Table \X (1 .. N) |-> PushRow(x[1], rows[x[2]])]
<1>1. N \in Nat /\ DOMAIN rows = 1 .. N /\ \A i \in 1 .. N : rows[i] \in Row
  OBVIOUS
<1>2. step \in [Table \X (1 .. N) -> Table]
  BY <1>1, PushType
<1>3. \A t \in Table, n \in 1 .. N : step[<<t, n>>] = PushRow(t, rows[n])
  OBVIOUS
<1> HIDE DEF step, N
<1>4. PICK g \in [SUBSET (1 .. N) -> Table] : Folding(g, base, step, 1 .. N)
  BY <1>1, <1>2, FoldingExists
<1>5. g = [s \in SUBSET DOMAIN rows |->
             IF s = {} THEN base ELSE PushRow(g[s \ {Max(s)}], rows[Max(s)])]
  <2>1. ASSUME NEW s \in SUBSET (1 .. N), s # {} PROVE g[s] = PushRow(g[s \ {Max(s)}], rows[Max(s)])
    <3>1. Max(s) \in 1 .. N /\ s \ {Max(s)} \in SUBSET (1 .. N)
      BY <1>1, <2>1, MaxIsElement
    <3>2. g[s \ {Max(s)}] \in Table
      BY <3>1
    <3>3. g[s] = step[<<g[s \ {Max(s)}], Max(s)>>]
      BY <1>4, <2>1 DEF Folding
    <3> QED
      BY <1>3, <3>1, <3>2, <3>3
  <2>2. g[{}] = base
    BY <1>4 DEF Folding
  <2> QED
    BY <1>1, <2>1, <2>2
<1> PICK h : h = Pushes(rows, base)
  OBVIOUS
<1>6. h = [s \in SUBSET DOMAIN rows |->
             IF s = {} THEN base ELSE PushRow(h[s \ {Max(s)}], rows[Max(s)])]
  <2>1. \E f : f = [s \in SUBSET DOMAIN rows |->
                      IF s = {} THEN base ELSE PushRow(f[s \ {Max(s)}], rows[Max(s)])]
    BY <1>5
  <2> QED
    BY <2>1, Zenon DEF Pushes
<1>7. h[{}] = base
  BY <1>6
<1>8. ASSUME NEW n \in 1 .. N PROVE h[1 .. n] = PushRow(h[1 .. n - 1], rows[n])
  <2>1. n \in Nat \ {0} /\ n \in 1 .. n /\ \A x \in 1 .. n : x \in 1 .. N
    BY <1>1
  <2>2. Max(1 .. n) = n /\ (1 .. n) \ {n} = 1 .. n - 1
    BY <2>1, MaxOfPrefix
  <2>3. 1 .. n \in SUBSET DOMAIN rows /\ 1 .. n # {}
    BY <1>1, <2>1
  <2> QED
    BY <1>6, <2>2, <2>3
<1> QED
  BY <1>7, <1>8 DEF N

LEMMA PushesType ==
  ASSUME NEW rows \in Seq(Row), NEW base \in Table
  PROVE  \A n \in 0 .. Len(rows) : Pushes(rows, base)[1 .. n] \in Table
<1> PICK h : h = Pushes(rows, base)
  OBVIOUS
<1>1. /\ h[{}] = base /\ \A n \in 1 .. Len(rows) : h[1 .. n] = PushRow(h[1 .. n - 1], rows[n])
      /\ \A n \in 1 .. Len(rows) : rows[n] \in Row
  BY PushesStep
<1> DEFINE T == {n \in Nat : n \in 0 .. Len(rows) => h[1 .. n] \in Table}
<1>2. 0 \in T
  <2>1. 1 .. 0 = {}
    OBVIOUS
  <2> QED
    BY <1>1, <2>1
<1>3. ASSUME NEW n \in T PROVE n + 1 \in T
  <2> SUFFICES ASSUME n + 1 \in 0 .. Len(rows) PROVE h[1 .. n + 1] \in Table
    OBVIOUS
  <2>1. n \in 0 .. Len(rows) /\ n + 1 \in 1 .. Len(rows) /\ (n + 1) - 1 = n
    OBVIOUS
  <2>2. h[1 .. n] \in Table /\ rows[n + 1] \in Row
    BY <1>1, <2>1
  <2>3. h[1 .. n + 1] = PushRow(h[1 .. n], rows[n + 1])
    BY <1>1, <2>1
  <2> QED
    BY <2>2, <2>3, PushType
<1>4. T = Nat
  <2> HIDE DEF T
  <2>1. T \in SUBSET Nat
    BY DEF T
  <2> QED
    BY <1>2, <1>3, <2>1, NatSetInduction
<1>5. \A n \in 0 .. Len(rows) : h[1 .. n] \in Table
  BY <1>4
<1> QED
  BY <1>5

LEMMA FoldType ==
  ASSUME NEW rows \in Seq(Row), NEW base \in Table
  PROVE  FoldLeft(PushRow, base, rows) \in Table
<1>1. DOMAIN rows = 1 .. Len(rows) /\ Len(rows) \in 0 .. Len(rows)
  OBVIOUS
<1>2. Pushes(rows, base)[1 .. Len(rows)] \in Table
  BY <1>1, PushesType
<1> QED
  BY <1>1, <1>2, PushesFold, Zenon

LEMMA SeenGrows ==
  ASSUME NEW t, NEW n, NEW seen, NEW more, TableFilled(t, n, seen)
  PROVE  TableFilled(t, n, seen \cup more)
BY DEF TableFilled

\* u is t after one more row of attempt a.
Grown(t, u, n, seen, a) == TableFilled(u, n + 1, seen \cup {a}) /\ u.lookup_attempt = a

LEMMA PushGrown ==
  ASSUME NEW t, NEW n \in Nat, NEW seen, TableFilled(t, n, seen), NEW row \in Row,
         row.id = n + 1, row.attempt # 0,
         row.attempt \in seen => row.attempt = t.lookup_attempt
  PROVE  Grown(t, PushRow(t, row), n, seen, row.attempt)
BY PushFilled DEF Grown

\* The rows of one batch, all of an attempt that has no rows yet.
LEMMA BatchFilled ==
  ASSUME NEW base, NEW n \in Nat, NEW seen, TableFilled(base, n, seen), NEW rows \in Seq(Row),
         NEW a \in Nat \ {0}, a \notin seen,
         \A j \in 1 .. Len(rows) : rows[j].id = n + j /\ rows[j].attempt = a
  PROVE  TableFilled(FoldLeft(PushRow, base, rows), n + Len(rows), seen \cup {a})
<1> PICK h : h = Pushes(rows, base)
  OBVIOUS
<1>0. base \in Table
  BY DEF TableFilled
<1>1. /\ h[{}] = base /\ \A m \in 1 .. Len(rows) : h[1 .. m] = PushRow(h[1 .. m - 1], rows[m])
      /\ \A m \in 1 .. Len(rows) : rows[m] \in Row
  BY <1>0, PushesStep
<1> DEFINE With(m) == TableFilled(h[1 .. m], n + m, seen \cup {a}) /\ h[1 .. m].lookup_attempt = a
           T == {m \in Nat : m \in 1 .. Len(rows) => With(m)}
<1>2. 1 .. 0 = {}
  OBVIOUS
<1>3. ASSUME 1 \in 1 .. Len(rows) PROVE With(1)
  <2>1. h[1 .. 1] = PushRow(base, rows[1]) /\ rows[1].id = n + 1 /\ rows[1].attempt = a
        /\ rows[1] \in Row
    <3>1. 1 .. 1 - 1 = {}
      OBVIOUS
    <3>2. h[1 .. 1] = PushRow(h[1 .. 1 - 1], rows[1])
      BY <1>1, <1>3
    <3> QED
      BY <1>1, <1>3, <3>1, <3>2
  <2> PICK row : row = rows[1]
    OBVIOUS
  <2>2. /\ TableFilled(PushRow(base, row), n + 1, seen \cup {row.attempt})
        /\ PushRow(base, row).lookup_attempt = row.attempt
    BY <2>1, PushFilled
  <2> QED
    BY <2>1, <2>2
<1>4. 0 \in T
  OBVIOUS
<1>5. ASSUME NEW m \in T PROVE m + 1 \in T
  <2> SUFFICES ASSUME m + 1 \in 1 .. Len(rows) PROVE With(m + 1)
    OBVIOUS
  <2>1. CASE m = 0
    BY <1>3, <2>1
  <2>2. CASE m # 0
    <3>1. m \in 1 .. Len(rows) /\ (m + 1) - 1 = m /\ m \in Nat /\ n + m \in Nat
          /\ n + (m + 1) = (n + m) + 1
      BY <2>2
    <3> PICK row, t : row = rows[m + 1] /\ t = h[1 .. m]
      OBVIOUS
    <3>2. /\ TableFilled(t, n + m, seen \cup {a}) /\ t.lookup_attempt = a
          /\ h[1 .. m + 1] = PushRow(t, row)
          /\ row \in Row /\ row.id = (n + m) + 1 /\ row.attempt = a
      BY <1>1, <3>1
    <3> PICK k, all : k = n + m /\ all = seen \cup {a}
      OBVIOUS
    <3>3. Grown(t, PushRow(t, row), k, all, row.attempt)
      <4>1. /\ k \in Nat /\ TableFilled(t, k, all) /\ row \in Row /\ row.id = k + 1 /\ row.attempt # 0
            /\ row.attempt \in all => row.attempt = t.lookup_attempt
        BY <3>1, <3>2
      <4> QED
        BY <4>1, PushGrown
    <3>4. all \cup {a} = all
      OBVIOUS
    <3>5. TableFilled(PushRow(t, row), k + 1, all) /\ PushRow(t, row).lookup_attempt = a
      BY <3>2, <3>3, <3>4 DEF Grown
    <3> QED
      BY <3>1, <3>2, <3>5
  <2> QED
    BY <2>1, <2>2
<1>6. T = Nat
  <2> HIDE DEF T
  <2>1. T \in SUBSET Nat
    BY DEF T
  <2> QED
    BY <1>4, <1>5, <2>1, NatSetInduction
<1>7. TableFilled(h[1 .. Len(rows)], n + Len(rows), seen \cup {a})
  <2>1. CASE Len(rows) = 0
    <3>1. h[1 .. Len(rows)] = base /\ n + Len(rows) = n
      BY <1>1, <1>2, <2>1
    <3> QED
      BY <3>1, SeenGrows
  <2>2. CASE Len(rows) # 0
    <3>1. Len(rows) \in 1 .. Len(rows)
      BY <2>2
    <3>2. Len(rows) \in T
      <4>1. Len(rows) \in Nat
        OBVIOUS
      <4> HIDE DEF T
      <4> QED
        BY <1>6, <4>1
    <3>3. With(Len(rows))
      BY <3>1, <3>2
    <3> QED
      BY <3>3
  <2> QED
    BY <2>1, <2>2
<1>8. DOMAIN rows = 1 .. Len(rows)
  OBVIOUS
<1> QED
  BY <1>7, <1>8, PushesFold, Zenon

\* The table after every batch.
Stored == [measurements : Nat, table : Table]
Store(acc, b) ==
  LET rows == RowsOfBatch(b, acc.measurements)
  IN [measurements |-> acc.measurements + Len(rows),
      table |-> FoldLeft(PushRow, acc.table, rows)]
NothingStored == [measurements |-> 0, table |-> NewTable]
Stores(list) ==
  CHOOSE f : f = [s \in SUBSET DOMAIN list |->
                    IF s = {} THEN NothingStored ELSE Store(f[s \ {Max(s)}], list[Max(s)])]

LEMMA ConvertedFold ==
  ASSUME NEW list
  PROVE  Converted(list) = [Stores(list)[DOMAIN list] EXCEPT !.table = Flush(@)]
BY Zenon DEF Converted, FoldLeft, MapThenFoldSet, Stores, Store, NothingStored

LEMMA RowsOfBatchType ==
  ASSUME NEW b \in Batch, NEW n \in Nat
  PROVE  /\ RowsOfBatch(b, n) \in Seq(Row) /\ Len(RowsOfBatch(b, n)) = Len(b.origins)
         /\ \A j \in 1 .. Len(b.origins) :
              RowsOfBatch(b, n)[j].id = n + j /\ RowsOfBatch(b, n)[j].attempt = b.part_sequence
<1>1. b.origins \in Seq(Nat \X Nat) /\ b.part_sequence \in Nat
  BY DEF Batch
<1> PICK origins, a : origins = b.origins /\ a = b.part_sequence
  OBVIOUS
<1> DEFINE rows == [j \in DOMAIN origins |-> [id |-> n + j, attempt |-> a, record |-> origins[j][1]]]
<1>2. DOMAIN origins = 1 .. Len(origins) /\ Len(origins) \in Nat /\ a \in Nat
      /\ \A j \in DOMAIN origins : origins[j][1] \in Nat
  BY <1>1
<1>3. \A j \in 1 .. Len(origins) : [id |-> n + j, attempt |-> a, record |-> origins[j][1]] \in Row
  BY <1>2 DEF Row
<1>4. rows \in [1 .. Len(origins) -> Row]
  BY <1>2, <1>3
<1>5. rows \in Seq(Row) /\ Len(rows) = Len(origins)
  <2> HIDE DEF rows
  <2> QED
    BY <1>2, <1>4
<1>6. \A j \in 1 .. Len(origins) : rows[j].id = n + j /\ rows[j].attempt = a
  BY <1>2
<1>7. rows = RowsOfBatch(b, n)
  BY DEF RowsOfBatch
<1> QED
  BY <1>5, <1>6, <1>7

LEMMA StoreType ==
  ASSUME NEW acc \in Stored, NEW b \in Batch
  PROVE  Store(acc, b) \in Stored
<1>1. acc.measurements \in Nat /\ acc.table \in Table
  BY DEF Stored
<1> PICK rows : rows = RowsOfBatch(b, acc.measurements)
  OBVIOUS
<1>2. rows \in Seq(Row) /\ Len(rows) \in Nat
  BY <1>1, RowsOfBatchType
<1>3. FoldLeft(PushRow, acc.table, rows) \in Table
  BY <1>1, <1>2, FoldType
<1>4. Store(acc, b) = [measurements |-> acc.measurements + Len(rows),
                       table |-> FoldLeft(PushRow, acc.table, rows)]
  BY Zenon DEF Store
<1> PICK t : t = FoldLeft(PushRow, acc.table, rows)
  OBVIOUS
<1>5. Store(acc, b) = [measurements |-> acc.measurements + Len(rows), table |-> t]
  BY <1>4, Zenon
<1>6. t \in Table
  BY <1>3, Zenon
<1> QED
  BY <1>1, <1>2, <1>5, <1>6 DEF Stored

LEMMA NothingType == NothingStored \in Stored /\ TableFilled(NewTable, 0, {})
<1>1. NewTable \in Table
  <2>1. EmptyMap \in [{} -> SUBSET Nat] /\ {} \in SUBSET Nat
    BY DEF EmptyMap
  <2>2. EmptyMap \in Lookups
    BY <2>1 DEF Lookups
  <2> QED
    BY <2>2 DEF NewTable, Table
<1>2. /\ NewTable.rows = <<>> /\ NewTable.fragments = <<>> /\ NewTable.lookup_attempt = 0
      /\ NewTable.lookup_fragments = {} /\ NewTable.lookup = EmptyMap
  BY DEF NewTable
<1>3. DOMAIN NewTable.lookup = {} /\ \A a : Get(NewTable.lookup, a, {}) = {}
  BY <1>2 DEF EmptyMap, Get
<1>4. \A a : Holding(NewTable, a) = {}
  BY <1>2 DEF Holding, FragmentsOf, Of
<1>5. Numbering(RowsIn(NewTable), 0)
  <2>1. FlattenSeq(<<>>) = <<>>
    BY DEF FlattenSeq
  <2>2. RowsIn(NewTable) = <<>> \o <<>>
    BY <1>2, <2>1, Zenon DEF RowsIn
  <2>3. RowsIn(NewTable) = <<>>
    BY <2>2
  <2> QED
    BY <2>3 DEF Numbering
<1> QED
  BY <1>1, <1>2, <1>3, <1>4, <1>5 DEF NothingStored, Stored, TableFilled

LEMMA StoresStep ==
  ASSUME NEW list \in Seq(Batch)
  PROVE  /\ Stores(list)[{}] = NothingStored
         /\ \A n \in 1 .. Len(list) : Stores(list)[1 .. n] = Store(Stores(list)[1 .. n - 1], list[n])
<1> DEFINE N == Len(list)
           step == [x \in Stored \X (1 .. N) |-> Store(x[1], list[x[2]])]
<1>1. N \in Nat /\ DOMAIN list = 1 .. N /\ \A i \in 1 .. N : list[i] \in Batch
  OBVIOUS
<1>2. step \in [Stored \X (1 .. N) -> Stored]
  BY <1>1, StoreType
<1>3. \A acc \in Stored, n \in 1 .. N : step[<<acc, n>>] = Store(acc, list[n])
  OBVIOUS
<1> HIDE DEF step, N
<1>4. PICK g \in [SUBSET (1 .. N) -> Stored] : Folding(g, NothingStored, step, 1 .. N)
  BY <1>1, <1>2, NothingType, FoldingExists
<1>5. g = [s \in SUBSET DOMAIN list |->
             IF s = {} THEN NothingStored ELSE Store(g[s \ {Max(s)}], list[Max(s)])]
  <2>1. ASSUME NEW s \in SUBSET (1 .. N), s # {} PROVE g[s] = Store(g[s \ {Max(s)}], list[Max(s)])
    <3>1. Max(s) \in 1 .. N /\ s \ {Max(s)} \in SUBSET (1 .. N)
      BY <1>1, <2>1, MaxIsElement
    <3>2. g[s \ {Max(s)}] \in Stored
      BY <3>1
    <3>3. g[s] = step[<<g[s \ {Max(s)}], Max(s)>>]
      BY <1>4, <2>1 DEF Folding
    <3> QED
      BY <1>3, <3>1, <3>2, <3>3
  <2>2. g[{}] = NothingStored
    BY <1>4 DEF Folding
  <2> QED
    BY <1>1, <2>1, <2>2
<1> PICK h : h = Stores(list)
  OBVIOUS
<1>6. h = [s \in SUBSET DOMAIN list |->
             IF s = {} THEN NothingStored ELSE Store(h[s \ {Max(s)}], list[Max(s)])]
  <2>1. \E f : f = [s \in SUBSET DOMAIN list |->
                      IF s = {} THEN NothingStored ELSE Store(f[s \ {Max(s)}], list[Max(s)])]
    BY <1>5
  <2> QED
    BY <2>1, Zenon DEF Stores
<1>7. h[{}] = NothingStored
  BY <1>6
<1>8. ASSUME NEW n \in 1 .. N PROVE h[1 .. n] = Store(h[1 .. n - 1], list[n])
  <2>1. n \in Nat \ {0} /\ n \in 1 .. n /\ \A x \in 1 .. n : x \in 1 .. N
    BY <1>1
  <2>2. Max(1 .. n) = n /\ (1 .. n) \ {n} = 1 .. n - 1
    BY <2>1, MaxOfPrefix
  <2>3. 1 .. n \in SUBSET DOMAIN list /\ 1 .. n # {}
    BY <1>1, <2>1
  <2> QED
    BY <1>6, <2>2, <2>3
<1> QED
  BY <1>7, <1>8 DEF N

\* What is stored after some of the batches, if no two of them are of one attempt.
LEMMA BatchesFilled ==
  ASSUME NEW list \in Seq(Batch),
         \A i \in 1 .. Len(list) : list[i].part_sequence # 0 /\ list[i].rows = Len(list[i].origins),
         \A i, j \in 1 .. Len(list) : list[i].part_sequence = list[j].part_sequence => i = j
  PROVE  LET acc == Stores(list)[DOMAIN list]
         IN /\ acc \in Stored
            /\ acc.measurements = SumFunction([i \in DOMAIN list |-> list[i].rows])
            /\ TableFilled(acc.table, acc.measurements, {list[i].part_sequence : i \in 1 .. Len(list)})
<1> PICK h, w, N : h = Stores(list) /\ w = [i \in DOMAIN list |-> list[i].rows] /\ N = Len(list)
  OBVIOUS
<1> DEFINE seen(m) == {list[i].part_sequence : i \in 1 .. m}
           Sound(m) == /\ h[1 .. m] \in Stored
                       /\ h[1 .. m].measurements = SumFunctionOnSet(w, 1 .. m)
                       /\ TableFilled(h[1 .. m].table, h[1 .. m].measurements, seen(m))
           T == {m \in Nat : m \in 0 .. N => Sound(m)}
<1>1. /\ h[{}] = NothingStored
      /\ \A n \in 1 .. N : h[1 .. n] = Store(h[1 .. n - 1], list[n])
  BY StoresStep
<1>2. /\ N \in Nat /\ DOMAIN list = 1 .. N
      /\ \A i \in 1 .. N : list[i] \in Batch /\ w[i] = Len(list[i].origins) /\ w[i] \in Nat
  <2>1. N \in Nat /\ DOMAIN list = 1 .. N
    OBVIOUS
  <2>2. ASSUME NEW i \in 1 .. N
        PROVE  list[i] \in Batch /\ w[i] = Len(list[i].origins) /\ w[i] \in Nat
    <3>1. list[i] \in Batch
      BY <2>1
    <3>2. w[i] = list[i].rows /\ list[i].rows = Len(list[i].origins)
      BY <2>1
    <3>3. Len(list[i].origins) \in Nat
      BY <3>1 DEF Batch
    <3> QED
      BY <3>1, <3>2, <3>3
  <2> QED
    BY <2>1, <2>2
<1>3. 0 \in T
  <2>1. 1 .. 0 = {}
    OBVIOUS
  <2>2. /\ NothingStored \in Stored /\ NothingStored.measurements = 0
        /\ NothingStored.table = NewTable /\ TableFilled(NewTable, 0, {})
    BY NothingType DEF NothingStored
  <2>3. SumFunctionOnSet(w, {}) = 0
    BY SumEmpty
  <2>4. seen(0) = {}
    BY <2>1
  <2> HIDE DEF seen
  <2>5. Sound(0)
    BY <1>1, <2>1, <2>2, <2>3, <2>4
  <2> QED
    BY <2>5
<1>4. ASSUME NEW m \in T PROVE m + 1 \in T
  <2> SUFFICES ASSUME m + 1 \in 0 .. N PROVE Sound(m + 1)
    OBVIOUS
  <2>1. m \in 0 .. N /\ m + 1 \in 1 .. N /\ (m + 1) - 1 = m /\ m \in Nat
    BY <1>2
  <2> PICK acc, b : acc = h[1 .. m] /\ b = list[m + 1]
    OBVIOUS
  <2> PICK n, before, a : n = acc.measurements /\ before = seen(m) /\ a = b.part_sequence
    OBVIOUS
  <2>2. /\ acc \in Stored /\ n = SumFunctionOnSet(w, 1 .. m) /\ TableFilled(acc.table, n, before)
        /\ h[1 .. m + 1] = Store(acc, b) /\ b \in Batch
    BY <1>1, <1>2, <2>1
  <2>3. n \in Nat /\ a \in Nat \ {0} /\ w[m + 1] = Len(b.origins) /\ w[m + 1] \in Nat
    BY <1>2, <2>1, <2>2 DEF Stored, Batch
  <2>4. a \notin before
    <3>1. \A i \in 1 .. m : i \in 1 .. Len(list) /\ m + 1 \in 1 .. Len(list) /\ i # m + 1
      BY <2>1
    <3> QED
      BY <2>1, <3>1
  <2> PICK rows : rows = RowsOfBatch(b, n)
    OBVIOUS
  <2>5. /\ rows \in Seq(Row) /\ Len(rows) = w[m + 1]
        /\ \A j \in 1 .. Len(rows) : rows[j].id = n + j /\ rows[j].attempt = a
    <3>1. /\ rows \in Seq(Row) /\ Len(rows) = Len(b.origins)
          /\ \A j \in 1 .. Len(b.origins) :
                rows[j].id = n + j /\ rows[j].attempt = b.part_sequence
      BY <2>2, <2>3, RowsOfBatchType, ZenonT(40)
    <3> QED
      BY <2>3, <3>1
  <2>6. TableFilled(FoldLeft(PushRow, acc.table, rows), n + Len(rows), before \cup {a})
    BY <2>2, <2>3, <2>4, <2>5, BatchFilled, ZenonT(40)
  <2>7. /\ Store(acc, b).measurements = n + Len(rows)
        /\ Store(acc, b).table = FoldLeft(PushRow, acc.table, rows)
    <3>1. Store(acc, b) = [measurements |-> n + Len(rows), table |-> FoldLeft(PushRow, acc.table, rows)]
      BY Zenon DEF Store
    <3> QED
      BY <3>1
  <2>8. n + Len(rows) = SumFunctionOnSet(w, 1 .. m + 1)
    <3>1. \A i \in 1 .. m : w[i] \in Nat
      BY <1>2, <2>1
    <3>2. SumFunctionOnSet(w, 1 .. m + 1) = SumFunctionOnSet(w, 1 .. m) + w[m + 1]
      BY <2>1, <2>3, <3>1, SumNext
    <3> QED
      BY <2>2, <2>5, <3>2
  <2>9. before \cup {a} = seen(m + 1)
    <3>1. 1 .. m + 1 = (1 .. m) \cup {m + 1}
      BY <2>1
    <3> QED
      BY <3>1
  <2>10. Store(acc, b) \in Stored
    BY <2>2, StoreType
  <2> HIDE DEF seen
  <2> QED
    BY <2>2, <2>6, <2>7, <2>8, <2>9, <2>10
<1>5. T = Nat
  <2> HIDE DEF T
  <2>1. T \in SUBSET Nat
    BY DEF T
  <2> QED
    BY <1>3, <1>4, <2>1, NatSetInduction
<1>6. N \in T /\ N \in 0 .. N
  <2> HIDE DEF T
  <2> QED
    BY <1>2, <1>5
<1>7. Sound(N)
  BY <1>6
<1>8. SumFunctionOnSet(w, 1 .. N) = SumFunction([i \in DOMAIN list |-> list[i].rows])
  BY <1>2, Zenon DEF SumFunction
<1> QED
  BY <1>2, <1>7, <1>8

\* Batches are of different attempts, because the index of the first pass says of an attempt
\* that it is closed once its batch is given, and gives no attempt a closed one's number.
OneBatchEach ==
  scanStatus # "failed" =>
    \A i, j \in DOMAIN batches : batches[i].part_sequence = batches[j].part_sequence => i = j

Emptied == eavStatus # "reading" => DOMAIN active_parts = {}

LEMMA PrrClosesOnce ==
  ASSUME EInv, EavTypes, ScanTypes, Numbered, Located, OneBatchEach,
         eavStatus = "reading", scanStatus = "reading", NEW r \in Record, EavPrr(r)
  PROVE  \A i, j \in DOMAIN batches' : batches'[i].part_sequence = batches'[j].part_sequence => i = j
<1>1. PICK batch \in Batch :
        /\ batch.part_sequence = Get(active_parts, At(r), NewPart(At(r))).part_seq
        /\ batches' = Emit(batch)
  BY PrrBatch
<1>2. batch.part_sequence \notin DOMAIN raw_attempts
  <2>1. batch.part_sequence = AttemptOf(At(r)).id
    BY <1>1, SameNumber
  <2>2. At(r) \in DOMAIN active => AttemptOf(At(r)).id \notin DOMAIN raw_attempts
    BY AttemptOfType DEF ScanTypes, IdsNew
  <2>3. At(r) \notin DOMAIN active => AttemptOf(At(r)).id \notin DOMAIN raw_attempts
    BY AttemptOfType DEF ScanTypes, IdsNew
  <2> QED
    BY <2>1, <2>2, <2>3
<1>3. \A i \in DOMAIN batches : batches[i].part_sequence \in DOMAIN raw_attempts
  BY DEF Located, BatchIn
<1>4. CASE batch.rows > 0
  <2>1. /\ Len(batches') = Len(batches) + 1 /\ batches' \in Seq(Batch)
        /\ batches'[Len(batches) + 1] = batch
        /\ \A i \in 1 .. Len(batches) : batches'[i] = batches[i]
    BY <1>1, <1>4, EmitType
  <2>2. /\ DOMAIN batches = 1 .. Len(batches) /\ DOMAIN batches' = 1 .. Len(batches')
        /\ Len(batches) \in Nat
    BY <2>1 DEF EavTypes
  <2> QED
    BY <1>2, <1>3, <2>1, <2>2 DEF OneBatchEach
<1>5. CASE ~(batch.rows > 0)
  BY <1>1, <1>5 DEF Emit, OneBatchEach
<1> QED
  BY <1>4, <1>5

LEMMA StepClosesOnce ==
  EInv /\ EavTypes /\ ScanTypes /\ Numbered /\ Located /\ OneBatchEach /\ Emptied /\ [Next]_vars
    => OneBatchEach' /\ Emptied'
<1> SUFFICES ASSUME EInv, EavTypes, ScanTypes, Numbered, Located, OneBatchEach, Emptied, [Next]_vars
             PROVE  OneBatchEach' /\ Emptied'
  OBVIOUS
<1>1. CASE UNCHANGED vars
  BY <1>1 DEF vars, eavVars, context, scanVars, OneBatchEach, Emptied
<1>2. ASSUME NEW r \in Alphabet, Deliver(r) PROVE OneBatchEach' /\ Emptied'
  <2>1. r \in Record /\ EavRead(r) /\ ScanRead(r) /\ ~ended
    BY <1>2, AlphabetAssumption DEF Deliver
  <2>2. Emptied'
    BY <2>1 DEF EavRead, EavStopped, eavVars, context, EavMir, EavMrr, EavSdr, EavWir, EavWrr, EavPir,
           EavTest, EavPrr, EavMalformed, EavRefuse, EavFail, EavAccept, Discard, EmptyMap, Emptied
  <2>3. scanStatus' # "failed" => scanStatus = "reading"
    BY <2>1 DEF Located, ScanRead, ScanStopped, scanVars
  <2>4. CASE eavStatus = "reading" /\ EavPrr(r)
    BY <2>1, <2>2, <2>3, <2>4, PrrClosesOnce DEF OneBatchEach
  <2>5. CASE ~(eavStatus = "reading" /\ EavPrr(r))
    <3>1. batches' = batches
      BY <2>1, <2>5 DEF EavRead, EavStopped, eavVars, EavMir, EavMrr, EavSdr, EavWir, EavWrr, EavPir,
             EavTest, EavMalformed, EavRefuse, EavFail, Discard
    <3> QED
      BY <2>2, <2>3, <3>1 DEF OneBatchEach
  <2> QED
    BY <2>4, <2>5
<1>3. CASE EndOfFile \/ CutOff
  <2>1. batches' = batches /\ (eavStatus = "reading" => active_parts' = EmptyMap)
        /\ (eavStatus # "reading" => UNCHANGED eavVars)
    BY <1>3 DEF EndOfFile, CutOff, EavEnd, EavCut, EavStopped, EavFail, Discard, eavVars
  <2>2. scanStatus' # "failed" => scanStatus # "failed"
    BY <1>3 DEF EndOfFile, CutOff, ScanEnd, ScanCut, ScanStopped, ScanFail, scanVars
  <2> QED
    BY <2>1, <2>2 DEF OneBatchEach, Emptied, EmptyMap, eavVars, context
<1> QED
  BY <1>1, <1>2, <1>3 DEF Next

\* What the store holds when both passes ended well.
LEMMA LookupsFind ==
  ASSUME EavTypes, ScanTypes, Located, OneBatchEach, Emptied, RowsKept,
         scanStatus = "finished", eavStatus = "finished"
  PROVE  LookupFindsRows
<1>1. /\ batches \in Seq(Batch) /\ DOMAIN batches = 1 .. Len(batches)
      /\ \A i \in 1 .. Len(batches) :
           /\ batches[i].part_sequence \in DOMAIN raw_attempts
           /\ batches[i].rows = Len(batches[i].origins)
      /\ \A id \in DOMAIN raw_attempts : id \in Nat \ {0}
  <2>1. batches \in Seq(Batch)
    BY DEF EavTypes
  <2>2. DOMAIN batches = 1 .. Len(batches)
    BY <2>1
  <2>3. \A i \in DOMAIN batches : BatchIn(evidence, raw_attempts, batches[i])
    BY DEF Located
  <2>4. \A id \in DOMAIN raw_attempts : id \in Nat \ {0}
    BY DEF ScanTypes, IdsNew
  <2> QED
    BY <2>1, <2>2, <2>3, <2>4 DEF BatchIn
<1> DEFINE seen == {batches[i].part_sequence : i \in 1 .. Len(batches)}
<1> PICK acc, n : acc = Stores(batches)[DOMAIN batches] /\ n = acc.measurements
  OBVIOUS
<1>2. /\ acc \in Stored /\ n = SumFunction([i \in DOMAIN batches |-> batches[i].rows])
      /\ TableFilled(acc.table, n, seen)
  <2>1. /\ \A i \in 1 .. Len(batches) :
             batches[i].part_sequence # 0 /\ batches[i].rows = Len(batches[i].origins)
        /\ \A i, j \in 1 .. Len(batches) : batches[i].part_sequence = batches[j].part_sequence => i = j
    BY <1>1 DEF OneBatchEach
  <2> QED
    BY <1>1, <2>1, BatchesFilled
<1> PICK base, t : base = acc.table /\ t = Flush(base)
  OBVIOUS
<1>3. /\ TableFilled(t, n, seen) /\ t.rows = <<>>
      /\ \A a \in Nat \ {0} : Get(t.lookup, a, {}) = FragmentsOf(t, a)
  BY <1>2, FlushFilled
<1> PICK all : all = FlattenSeq(t.fragments)
  OBVIOUS
<1>4. all \in Seq(Row) /\ Numbering(all, n)
  <2>1. t.fragments \in Seq(Seq(Row))
    BY <1>3 DEF TableFilled, Table
  <2>2. all \in Seq(Row)
    BY <2>1, FlattenType
  <2>3. RowsIn(t) = all \o <<>>
    BY <1>3, Zenon DEF RowsIn
  <2>4. RowsIn(t) = all
    BY <2>2, <2>3, ConcatEmptySeq
  <2>5. Numbering(RowsIn(t), n)
    BY <1>3, Zenon DEF TableFilled
  <2> QED
    BY <2>2, <2>4, <2>5
<1> PICK stored : stored = Converted(batches)
  OBVIOUS
<1>5. stored.table = t /\ stored.measurements = n
  <2>1. stored = [acc EXCEPT !.table = Flush(@)]
    BY ConvertedFold, Zenon
  <2>2. stored = [acc EXCEPT !.table = t]
    BY <2>1
  <2> QED
    BY <1>2, <2>2 DEF Stored
<1>6. n = delivered
  <2>1. SumFunction(HeldRows) = 0
    <3>1. DOMAIN HeldRows = {}
      BY DEF Emptied, HeldRows
    <3> QED
      BY <3>1, SumOfEmpty
  <2>2. n = SumFunction(WrittenRows)
    BY <1>2, Zenon DEF WrittenRows
  <2>3. n \in Nat
    BY <1>2 DEF Stored
  <2>4. n + 0 = delivered
    BY <2>1, <2>2, Zenon DEF RowsKept
  <2> QED
    BY <2>3, <2>4
<1>7. \A a \in DOMAIN raw_attempts :
        Get(t.lookup, a, {}) =
          {i \in DOMAIN t.fragments : \E j \in DOMAIN t.fragments[i] : t.fragments[i][j].attempt = a}
  BY <1>1, <1>3 DEF FragmentsOf, Of
<1>8. DOMAIN t.lookup \subseteq DOMAIN raw_attempts
  BY <1>1, <1>3 DEF TableFilled
<1>9. [i \in DOMAIN all |-> all[i].id] = [i \in 1 .. n |-> i]
  <2>1. DOMAIN all = 1 .. n /\ \A i \in 1 .. n : all[i].id = i
    BY <1>4 DEF Numbering
  <2> QED
    BY <2>1
<1> QED
  BY <1>5, <1>6, <1>7, <1>8, <1>9, SMTT(30) DEF LookupFindsRows

\* A query for an attempt opens the fragments with the attempt's rows and no others, and the
\* rows are numbered on over the whole table, in every file that both passes of the viewer
\* read to its end.
THEOREM LookupsFindRows == Spec => []LookupFindsRows
<1>1. Init => Located /\ OneBatchEach /\ Emptied
  BY DEF Init, EavInit, ScanInit, EmptyMap, Located, PartsLocated, OneBatchEach, Emptied
<1>2. EavTypes /\ ScanTypes /\ Located /\ OneBatchEach /\ Emptied /\ RowsKept => LookupFindsRows
  BY LookupsFind DEF LookupFindsRows
<1> QED
  BY <1>1, <1>2, InvariantOfConverter, ConverterReads, TypesOfConverter, TypesOfScan, NumbersAgree,
     EveryRowKept, StepLocates, StepClosesOnce, PTL DEF Spec
=============================================================================
