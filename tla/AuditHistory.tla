---------------------------- MODULE AuditHistory ----------------------------
(***************************************************************************)
(* Audit with a history variable, and its refinement of AuditContract.     *)
(***************************************************************************)
EXTENDS Audit

VARIABLE pairs    \* history: what record and sidecar of each path have held
                  \*   since the call began

historyVars == <<vars, pairs>>

HistoryInit == Init /\ pairs = [p \in Paths |-> {<<record[p], sidecar[p]>>}]

HistoryNext ==
  \/ /\ \E p \in Paths, b \in Paths \cup {NoBaseline} : StartAudit(p, b)
     /\ pairs' = [p \in Paths |-> {<<record[p], sidecar[p]>>}]
  \/ AuditStep /\ UNCHANGED pairs
  \/ /\ DiskStep
     /\ pairs' = [p \in Paths |-> pairs[p] \cup {<<record'[p], sidecar'[p]>>}]

\* Only safety is asked of the history: that a call ends is a property of Audit.
HistorySpec == HistoryInit /\ [][HistoryNext]_historyVars

\* The steps between the first and the last one of a call are one state of the
\* contract; the verdict means nothing before the last.
Contract == INSTANCE AuditContract WITH
  status <- IF pc \in {"idle", "done"} THEN pc ELSE "running",
  first  <- data,
  answer <- verdict

\* The stepwise audit, in any interleaving with the generator and the outside
\* world, keeps the contract of audit_record: no answer without a reason that
\* lay on disk during the call.
KeepsContract == Contract!Safety

---------------------------------------------------------------------------
(* The inductive invariant behind the refinement.                          *)

\* The reasons of the answers to come are among the pairs: a sidecar read
\* later than its record is held against the record as it was, and whatever
\* came of that was, or is, wrong on disk as well.
ReasonInv ==
  /\ \A p \in Paths : <<record[p], sidecar[p]>> \in pairs[p]
  /\ \A p \in Paths : \A b \in matched[p] : <<b, Sha256(b)>> \in pairs[p]
  /\ ~disturbed =>
       /\ pc = "read_sidecar" => sidecar[target] # Absent
       /\ pc = "read_reference_sidecar" => sidecar[baseline] # Absent
       /\ pc \in BaselinePCs \cup {"stages", "conclude"} /\ hashAnswer # Accepted
            => Contract!HashReason(hashAnswer)
       /\ pc \in {"stat_reference_sidecar", "read_reference_sidecar"}
            => record[baseline] = reference \/ \E pair \in pairs[baseline] : Contract!Defective(pair)
       /\ pc = "conclude" /\ ~ Uncompared => reference \in matched[baseline]

HistoryInv == IInv /\ FindingsInv /\ ReasonInv
===========================================================================
