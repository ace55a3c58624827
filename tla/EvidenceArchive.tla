--------------------------- MODULE EvidenceArchive --------------------------
(***************************************************************************)
(* What retained evidence and its analyses promise: evidence is added and  *)
(* never changed or removed, each piece bound to the file its snapshot     *)
(* names; and a request is answered by numbers counted over all the        *)
(* attempts of the evidence it names, with the sources that are missing.   *)
(***************************************************************************)
EXTENDS AnalysisOps

CONSTANTS
  Evidence,   \* pieces of evidence that may ever be retained, with their source
  Bound,      \* those that hold the file that their snapshot names
  RowsIn,     \* piece -> its attempts
  SourcesOf,  \* snapshot -> sources of its catalog
  Request

VARIABLES published, answers

Named(request) == {request.ids[i] : i \in DOMAIN request.ids}
MissingFrom(request) == SourcesOf[request.snapshot] \ {id.source : id \in Named(request)}
\* The pieces come from the snapshot, one for each source unless parts may be left out.
Answerable(request) ==
  /\ \A id \in Named(request) : id.snapshot = request.snapshot
  /\ \A x, y \in Named(request) : x.source = y.source => x = y
  /\ MissingFrom(request) # {} => request.allow_partial

\* An attempt is cited as a pair of piece and number.
Row(c) == RowsIn[c[1]][c[2]]
Attempts(request) == UNION {{id} \X DOMAIN RowsIn[id] : id \in Named(request)}
Counted(c, request) == <<c[1].source, c[2]>> \notin request.exclude

CountOf(request, chosen) ==
  LET kept == {c \in chosen : Counted(c, request)}
  IN [n \in Count |->
        CASE n = "scoped" -> Cardinality(chosen)
          [] n = "excluded" -> Cardinality(chosen \ kept)
          [] n = "eligible" -> Cardinality(kept)
          [] n = "unresolved" -> Cardinality({c \in kept : Row(c).ecid = NoDevice})
          [] OTHER -> Cardinality({c \in kept : Row(c).verdict = n})]

Cited(request) ==
  {c \in Attempts(request) :
     InScope(Row(c), c[1].source, request.scope) /\ InPopulation(Row(c), request.population)}

\* A history is the attempts of one device in one piece; it counts when it is not empty
\* and, for latest devices, has the attempt that was selected.
History(request, id, device) ==
  {c \in Attempts(request) :
     /\ c[1] = id /\ Row(c).ecid = device
     /\ InScope(Row(c), id.source, request.scope) /\ Counted(c, request)}
Histories(request) ==
  {h \in {History(request, id, d) : id \in Named(request), d \in Device} :
     \E c \in h : InPopulation(Row(c), request.population)}

RetestOf(request) ==
  LET first(h) == Row(CHOOSE c \in h : \A d \in h : c[2] <= d[2]).verdict
      last(h) == Row(CHOOSE c \in h : \A d \in h : c[2] >= d[2]).verdict
      verdicts(h) == {Row(c).verdict : c \in h}
      chosen(P(_)) == Cardinality({h \in Histories(request) : P(h)})
  IN [n \in RetestCount |->
        CASE n = "unresolved" ->
               Cardinality(UNION {History(request, id, NoDevice) : id \in Named(request)})
          [] n = "devices" -> Cardinality(Histories(request))
          [] n = "retested" -> chosen(LAMBDA h : Cardinality(h) # 1)
          [] n = "extra" -> Cardinality(UNION Histories(request)) - Cardinality(Histories(request))
          [] n = "changed" -> chosen(LAMBDA h : {"pass", "fail"} \subseteq verdicts(h))
          [] n = "first_fail" -> chosen(LAMBDA h : first(h) = "fail")
          [] n = "recovered" -> chosen(LAMBDA h : <<first(h), last(h)>> = <<"fail", "pass">>)
          [] n = "first_pass" -> chosen(LAMBDA h : first(h) = "pass")
          [] n = "degraded" -> chosen(LAMBDA h : <<first(h), last(h)>> = <<"pass", "fail">>)
          [] n = "latest_pass" -> chosen(LAMBDA h : last(h) = "pass")
          [] n = "latest_fail" -> chosen(LAMBDA h : last(h) = "fail")]

Numbers(request) ==
  CASE request.op = "yield" -> CountOf(request, Cited(request))
    [] request.op = "groups" ->
         [k \in {Row(c).place : c \in Cited(request)} |->
            CountOf(request, {c \in Cited(request) : Row(c).place = k})]
    [] request.op = "retest" -> RetestOf(request)

Answer(request) == [numbers |-> Numbers(request), missing |-> MissingFrom(request)]

ArchiveInit == published \subseteq Evidence /\ answers = {}

Retain(id) ==
  /\ id \in Bound
  /\ published' = published \cup {id} /\ UNCHANGED answers

Report(request) ==
  /\ Named(request) \subseteq published /\ Answerable(request)
  /\ answers' = answers \cup {[request |-> request, result |-> Answer(request)]}
  /\ UNCHANGED published

ArchiveNext ==
  \/ published' # published /\ \E id \in Evidence : Retain(id)
  \/ answers' # answers /\ \E request \in Request : Report(request)
ArchiveSpec == ArchiveInit /\ [][ArchiveNext]_<<published, answers>>
=============================================================================
