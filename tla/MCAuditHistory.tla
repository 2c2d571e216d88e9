--------------------------- MODULE MCAuditHistory ---------------------------
(* Instance of AuditHistory for TLC, with the contents of MCAudit.                *)
EXTENDS AuditHistory, MCAudit, TLC

\* No definition tells one path from the other.
PathSymmetry == Permutations(Paths)
=============================================================================
