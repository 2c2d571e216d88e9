------------------------------ MODULE MCAudit ------------------------------
(* Instance of Audit for TLC: contents are model values.                          *)
EXTENDS Audit

CONSTANTS p1, p2, v1, v2, bad, deep

\* v1 and v2 are canonical, bad is not, deep exhausts the scanner's stack.
MCFormatCode(b) ==
  IF b \in {v1, v2} THEN Accepted
  ELSE IF b = deep THEN Uncaught
  ELSE "INVALID_JSON"

MCSha256(b) == <<"sha256", b>>

\* v2 against v1 is a modification; v1 against v2 meets the difference that
\* compare_to_baseline does not classify.
MCCompareCode(a, b) ==
  IF a = b THEN Accepted ELSE IF a = v1 THEN Uncaught ELSE "EVENT_MODIFIED"
===========================================================================
