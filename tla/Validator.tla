------------------------------ MODULE Validator -----------------------------
(***************************************************************************)
(* Structural validation (stdf-validate/src/lib.rs): independent rules,    *)
(* each with its own memory of what is open, fed one record after another  *)
(* and asked once more at the end.  It knows nothing of runs: a MIR resets *)
(* no rule.  Of the findings the rules are kept, not how often.            *)
(*                                                                         *)
(* Program sections, limits, test names and lot identifiers are left out   *)
(* with the records and fields they are about; the bin totals, which are   *)
(* compared once at the end, are the operators of the last section.        *)
(***************************************************************************)
EXTENDS StdfStream, FiniteSetsExt

VARIABLES
  open_pirs,        \* PirPrrPairRule.open, and AbortDetectionRule.open_pir
  open_wirs,        \* WirWrrPairRule.open
  open_wir_count,   \* AbortDetectionRule: WIRs less WRRs, whatever their group
  mrr_seen,
  mir_count,        \* MirSingletonRule.count
  findings,         \* the rules with a finding in the report
  decode_errors     \* whether reading stopped at an error

validatorVars ==
  <<open_pirs, open_wirs, open_wir_count, mrr_seen, mir_count, findings, decode_errors>>

ValidatorInit ==
  /\ open_pirs = {} /\ open_wirs = {} /\ open_wir_count = 0
  /\ mrr_seen = FALSE /\ mir_count = 0
  /\ findings = {} /\ decode_errors = FALSE

Report(rule, condition) == findings' = findings \cup (IF condition THEN {rule} ELSE {})

ValidateMir(r) ==
  /\ r.kind = "MIR"
  /\ mir_count' = mir_count + 1
  /\ Report("MIR_SINGLETON", mir_count >= 1)
  /\ UNCHANGED <<open_pirs, open_wirs, open_wir_count, mrr_seen, decode_errors>>

ValidateMrr(r) ==
  /\ r.kind = "MRR"
  /\ mrr_seen' = TRUE
  /\ UNCHANGED <<open_pirs, open_wirs, open_wir_count, mir_count, findings, decode_errors>>

ValidateWir(r) ==
  /\ r.kind = "WIR"
  /\ open_wirs' = open_wirs \cup {GroupOf(r)}
  /\ open_wir_count' = open_wir_count + 1
  /\ Report("WIR_WRR_PAIR", GroupOf(r) \in open_wirs)
  /\ UNCHANGED <<open_pirs, mrr_seen, mir_count, decode_errors>>

\* Mutant: a WRR closes the wafer of its head, whatever the group.
ValidateWrrOfHead(r) ==
  /\ r.kind = "WRR"
  /\ open_wirs' = {k \in open_wirs : k[1] # r.head}
  /\ open_wir_count' = IF open_wir_count = 0 THEN 0 ELSE open_wir_count - 1
  /\ Report("WIR_WRR_PAIR", \A k \in open_wirs : k[1] # r.head)
  /\ UNCHANGED <<open_pirs, mrr_seen, mir_count, decode_errors>>

ValidateWrr(r) ==
  /\ r.kind = "WRR"
  /\ open_wirs' = open_wirs \ {GroupOf(r)}
  /\ open_wir_count' = IF open_wir_count = 0 THEN 0 ELSE open_wir_count - 1
  /\ Report("WIR_WRR_PAIR", GroupOf(r) \notin open_wirs)
  /\ UNCHANGED <<open_pirs, mrr_seen, mir_count, decode_errors>>

ValidatePir(r) ==
  /\ r.kind = "PIR"
  /\ open_pirs' = open_pirs \cup {At(r)}
  /\ Report("PIR_PRR_PAIR", At(r) \in open_pirs)
  /\ UNCHANGED <<open_wirs, open_wir_count, mrr_seen, mir_count, decode_errors>>

ValidatePrr(r) ==
  /\ r.kind = "PRR"
  /\ open_pirs' = open_pirs \ {At(r)}
  /\ Report("PIR_PRR_PAIR", At(r) \notin open_pirs)
  /\ UNCHANGED <<open_wirs, open_wir_count, mrr_seen, mir_count, decode_errors>>

\* A record that cannot be decoded is fed as an unknown one: no rule looks at it.
ValidateOther(r) ==
  /\ r.kind \in TestKind \cup {"SDR", "Malformed"}
  /\ UNCHANGED validatorVars

ValidateRecord(r) ==
  \/ ValidateMir(r) \/ ValidateMrr(r) \/ ValidateWir(r) \/ ValidateWrr(r)
  \/ ValidatePir(r) \/ ValidatePrr(r) \/ ValidateOther(r)

\* finish: every rule adds what it finds missing at the end.
FinishReport(cut) ==
  /\ decode_errors' = cut
  /\ findings' = findings
       \cup (IF open_pirs # {} THEN {"PIR_PRR_PAIR", "OPEN_PIR"} ELSE {})
       \cup (IF open_wirs # {} THEN {"WIR_WRR_PAIR"} ELSE {})
       \cup (IF open_wir_count > 0 THEN {"OPEN_WIR"} ELSE {})
       \cup (IF mrr_seen THEN {} ELSE {"NO_MRR"})
  /\ UNCHANGED <<open_pirs, open_wirs, open_wir_count, mrr_seen, mir_count>>

ValidateEnd == FinishReport(FALSE)

\* Bytes that are no record end the loop; what was fed is still judged.
ValidateCut == FinishReport(TRUE)

\* has_errors: a missing MRR is the only warning among these findings.
HasErrors == decode_errors \/ findings \ {"NO_MRR"} # {}

ValidatorNext == (\E r \in Record : ValidateRecord(r)) \/ ValidateEnd \/ ValidateCut

ValidatorSpec == ValidatorInit /\ [][ValidatorNext]_validatorVars

-----------------------------------------------------------------------------
(***************************************************************************)
(* Hard bin totals.  prr maps a bin to the number of PRRs that have it;    *)
(* hbr maps <<head, site, bin>> to the sum of the counts of those HBRs.    *)
(* wide is the number 255: every head, or every site.                      *)
(***************************************************************************)
AggregateKeys(hbr, wide) == {k \in DOMAIN hbr : k[1] = wide \/ k[2] = wide}

\* The total an HBR stream states for a bin: the sum over sites where there are any,
\* and otherwise the largest aggregate.
HbrTotal(hbr, bin, wide) ==
  LET ofBin == {k \in DOMAIN hbr : k[3] = bin}
      granular == ofBin \ AggregateKeys(hbr, wide)
  IN IF granular # {} THEN MapThenSumSet(LAMBDA k : hbr[k], granular)
     ELSE Max({hbr[k] : k \in ofBin})

\* The bins with a warning at the end of the file.
BinWarnings(prr, hbr, wide) ==
  LET stated == {k[3] : k \in DOMAIN hbr}
  IN {bin \in stated : HbrTotal(hbr, bin, wide) # Get(prr, bin, 0)}
       \cup (DOMAIN prr \ stated)
=============================================================================
