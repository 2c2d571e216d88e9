--------------------------- MODULE AuditContract ---------------------------
(***************************************************************************)
(* What audit_record promises, without its steps.  A call looks at its     *)
(* record once, when it begins, and gives one answer some time later.  The *)
(* files may change in between.  Every answer has its reason in what the   *)
(* files held at an instant of the call, a record and its sidecar taken    *)
(* together; this is promised while only the generator writes.             *)
(***************************************************************************)
EXTENDS RejectionReasons

CONSTANTS Paths, Bytes, Absent, Malformed, NoBaseline,
          FormatCode(_), Sha256(_), CompareCode(_, _)

VARIABLES
  record, sidecar,     \* the files
  status,              \* of the call: "idle", "running" or "done"
  target, baseline,    \* its arguments
  first,               \* the record as it was when the call began
  pairs,               \* what record and sidecar of each path have held since
  disturbed,           \* somebody else than the generator has written since
  answer

vars == <<record, sidecar, status, target, baseline, first, pairs, disturbed, answer>>

BaselineError == "BASELINE_ERROR"
Aborted       == "ABORTED"

Init ==
  /\ status = "idle"
  /\ pairs = [p \in Paths |-> {<<record[p], sidecar[p]>>}]
  /\ disturbed = FALSE
  /\ answer = Aborted

---------------------------------------------------------------------------
(* Reasons.                                                                *)

HashCode(pair) ==
  IF pair[2] = Absent THEN "HASH_FILE_MISSING"
  ELSE IF pair[2] = Malformed THEN "HASH_FORMAT_INVALID"
  ELSE IF pair[2] # Sha256(pair[1]) THEN "HASH_MISMATCH"
  ELSE Accepted

\* The contents that p has held as a canonical record with its own digest.
Sound(p) == {b \in Bytes : FormatCode(b) = Accepted /\ <<b, Sha256(b)>> \in pairs[p]}

Defective(pair) ==
  \/ HashCode(pair) # Accepted
  \/ pair[1] # Absent /\ FormatCode(pair[1]) \in FormatCodes

Unreadable(pair) == pair[1] = Absent \/ FormatCode(pair[1]) = Uncaught

\* A digest may be held against the record it was read with only if the two
\* lay on disk like that, or the record was rewritten during the call.
HashReason(code) ==
  \E pair \in pairs[target] :
    \/ HashCode(pair) = code
    \/ code = "HASH_MISMATCH" /\ pair[1] # first

\* What a comparison of the record with a sound baseline would answer.
ComparedTo(b) == CompareCode(first, b)

Justified(v) ==
  \/ v \in FormatCodes /\ FormatCode(first) = v
  \/ v = Aborted /\ FormatCode(first) = Uncaught
  \/ /\ FormatCode(first) = Accepted
     /\ \/ /\ v \in HashCodes
           /\ HashReason(v)
           /\ baseline # NoBaseline => Sound(baseline) # {}
        \/ /\ baseline # NoBaseline
           /\ \/ v = BaselineError /\ \E pair \in pairs[baseline] : Defective(pair)
              \/ v = Aborted /\ \E pair \in pairs[baseline] : Unreadable(pair)
              \/ v = Aborted /\ \E b \in Sound(baseline) : ComparedTo(b) = Uncaught
              \/ /\ v \in BaselineCodes \cup {Accepted}
                 /\ first \in Sound(target)
                 /\ \E b \in Sound(baseline) : ComparedTo(b) = v
        \/ v = Accepted /\ baseline = NoBaseline /\ first \in Sound(target)

\* What holds of an answer whoever has written: it judges the bytes the call
\* began with, and a format code comes before every other finding.
JudgesFirst(v) ==
  /\ v \in FormatCodes \cup {Accepted} => v = FormatCode(first)
  /\ FormatCode(first) \in FormatCodes => v \in {FormatCode(first), Aborted}
  /\ v \in BaselineCodes \cup {BaselineError} => baseline # NoBaseline

---------------------------------------------------------------------------

\* Without a record there is nothing to judge.
Call(p, b) ==
  /\ status # "running"
  /\ status' = IF record[p] = Absent THEN "done" ELSE "running"
  /\ record[p] # Absent => first' = record[p]
  /\ target' = p
  /\ baseline' = b
  /\ pairs' = [q \in Paths |-> {<<record[q], sidecar[q]>>}]
  /\ disturbed' = FALSE
  /\ answer' = Aborted
  /\ UNCHANGED <<record, sidecar>>

Return(v) ==
  /\ status = "running"
  /\ JudgesFirst(v)
  /\ disturbed \/ Justified(v)
  /\ status' = "done"
  /\ answer' = v
  /\ UNCHANGED <<record, sidecar, target, baseline, first, pairs, disturbed>>

Change ==
  /\ pairs' = [p \in Paths |-> pairs[p] \cup {<<record'[p], sidecar'[p]>>}]
  /\ disturbed => disturbed'
  /\ UNCHANGED <<status, target, baseline, first, answer>>

Next ==
  \/ \E p \in Paths, b \in Paths \cup {NoBaseline} : Call(p, b)
  \/ \E v \in ActiveCodes \cup {Accepted, BaselineError, Aborted} : Return(v)
  \/ Change

Safety == Init /\ [][Next]_vars
===========================================================================
