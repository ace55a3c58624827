----------------------------- MODULE StdfStream -----------------------------
(***************************************************************************)
(* The records of an STDF file, as far as they decide which test attempt   *)
(* and which wafer a measurement belongs to, and the helpers shared by the *)
(* four programs that read them: the Parquet converter (EavParts), the     *)
(* viewer's index (ViewerScan), traceability (TraceRead) and the sanity    *)
(* report (SanityScan).                                                    *)
(*                                                                         *)
(* A record keeps the fields those programs branch on; names, results,     *)
(* limits, bins and coordinates are left out.                              *)
(***************************************************************************)
EXTENDS Naturals, Sequences, FiniteSets

CONSTANTS
  HeadNum,     \* HEAD_NUM values
  SiteNum,     \* SITE_NUM values
  SiteGrp,     \* SITE_GRP values, AllSites among them
  AllSites,    \* the site group 255: every site of the head
  Wafer,       \* WAFER_ID values
  NoWafer,     \* an absent WAFER_ID, and the answer "no wafer known"
  Values       \* lengths of an MPR's result array

ASSUME GroupAssumption == AllSites \in SiteGrp
ASSUME SiteAssumption == IsFiniteSet(SiteNum)
ASSUME WaferAssumption == NoWafer \notin Wafer
ASSUME ValuesAssumption == Values \subseteq Nat

GroupKey == HeadNum \X SiteGrp
WaferOrNone == Wafer \cup {NoWafer}

RunKind == {"MIR", "MRR"}
PartKind == {"PIR", "PRR"}
TestKind == {"PTR", "MPR", "FTR"}
Kind == RunKind \cup PartKind \cup TestKind \cup {"SDR", "WIR", "WRR"}

RunRecord == [kind : RunKind]
SiteRecord == [kind : {"SDR"}, head : HeadNum, group : SiteGrp, sites : SUBSET SiteNum \ {{}}]
WaferRecord == [kind : {"WIR", "WRR"}, head : HeadNum, group : SiteGrp, wafer : WaferOrNone]
PartRecord == [kind : PartKind, head : HeadNum, site : SiteNum]
\* unexecuted: TEST_FLG says the test was not executed and PARM_FLG is 0.
\* declared is RSLT_CNT and carried the values present; both are 0 but in an MPR.
TestRecord ==
  {r \in [kind : TestKind, head : HeadNum, site : SiteNum, unexecuted : BOOLEAN,
          declared : Values \cup {0}, carried : Values \cup {0}] :
     r.kind # "MPR" => r.declared = 0 /\ r.carried = 0}
\* A record of a known type whose body cannot be decoded: it ends in its first field.
MalformedRecord == [kind : {"Malformed"}, of : Kind]

Record ==
  RunRecord \cup SiteRecord \cup WaferRecord \cup PartRecord \cup TestRecord
    \cup MalformedRecord

At(r) == <<r.head, r.site>>
GroupOf(r) == <<r.head, r.group>>

\* Result rows of a test record: an MPR has its verdict and one per value.
RowsOf(r) == IF r.kind \in TestKind THEN r.carried + 1 ELSE 0

(***************************************************************************)
(* Maps: insertion, removal, and look-up with a default.                   *)
(***************************************************************************)
EmptyMap == [k \in {} |-> {}]
Put(f, k, v) == [x \in DOMAIN f \cup {k} |-> IF x = k THEN v ELSE f[x]]
PutAll(f, K, v) == [x \in DOMAIN f \cup K |-> IF x \in K THEN v ELSE f[x]]
Without(f, k) == [x \in DOMAIN f \ {k} |-> f[x]]
Get(f, k, default) == IF k \in DOMAIN f THEN f[k] ELSE default

(***************************************************************************)
(* What an open wafer map says of a head and site: a site of a group has   *)
(* the group's wafer, or the head's; another site has the head's, or the   *)
(* only one open on that head.  The same rule is written three times in    *)
(* the code.                                                               *)
(***************************************************************************)
OpenOn(open, head) == {k \in DOMAIN open : k[1] = head}

WaferAt(groups, open, pos, none) ==
  LET head == pos[1]
      all == <<head, AllSites>>
      own == <<head, Get(groups, pos, AllSites)>>
      only == CHOOSE k \in OpenOn(open, head) : TRUE
  IN IF own \in DOMAIN open THEN open[own]
     ELSE IF all \in DOMAIN open THEN open[all]
     ELSE IF pos \notin DOMAIN groups /\ Cardinality(OpenOn(open, head)) = 1
          THEN open[only]
     ELSE none
=============================================================================
