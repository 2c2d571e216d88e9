--------------------------- MODULE MCAuditPackage ---------------------------
(* Instance of AuditPackage for TLC.  Version v2 has another baseline and  *)
(* one case and one vector more.                                           *)
EXTENDS AuditPackage

CONSTANTS v1, v2

MCPositives == <<"replay-0003", "baseline">>
MCExample(p, v) == <<"example", v>>

MCCaseNames == <<"NEG-001", "NEG-002", "NEG-003">>
MCCases(v)  == IF v = v1 THEN <<"NEG-001", "NEG-002">> ELSE MCCaseNames
MCBare      == {"NEG-002"}
\* NEG-003 replaces text that a torn baseline has lost.
MCMutable(n, b) == ~ (n = "NEG-003" /\ b = Torn)

MCVectorNames == <<"TV-104", "TV-201">>
MCVectors(v)  == IF v = v1 THEN <<"TV-104">> ELSE MCVectorNames
MCKind(t)     == IF t = "TV-104" THEN "canonical_record" ELSE "non_canonical"
MCVectorBytes(t, src) ==
  IF t = "TV-104" THEN src["replay-0003"] ELSE <<"bom", src["baseline"]>>

\* NEG-001 is a defect of the format, NEG-002 has no sidecar, NEG-003 differs from
\* the baseline in one section.
MCCanonical(b) ==
  IF b \in {Absent, Torn} THEN FALSE
  ELSE b[1] = "example" \/ (b[1] = "mutated" /\ b[2] = "NEG-003")

MCAsExpected(n, r, s, ref) ==
  \E v \in Versions :
    /\ r = CaseRecord(n, <<"example", v>>) /\ s = CaseSidecar(n, <<"example", v>>)
    /\ n = "NEG-003" => ref = <<"example", v>>
=============================================================================
