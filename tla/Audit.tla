------------------------------- MODULE Audit -------------------------------
(***************************************************************************)
(* audit_record: one record is audited while its files, and those of the   *)
(* baseline it is compared with, are on a disk that the generator and the  *)
(* outside world go on changing.  Every file access is a step of its own,  *)
(* so each piece of state is used after the disk may have moved on.        *)
(***************************************************************************)
EXTENDS Store

CONSTANTS
  NoBaseline,          \* audit_record was called without a baseline
  CompareCode(_, _)    \* what compare_to_baseline answers for two records

ASSUME CompareAssumption ==
  /\ NoBaseline \notin Paths
  /\ \A a, b \in Canonical :
        CompareCode(a, b) \in BaselineCodes \cup {Accepted, Uncaught}
  /\ \A a, b \in Canonical : CompareCode(a, b) = Accepted <=> a = b

VARIABLES
  pc,             \* next step of audit_record
  target,         \* record_path
  baseline,       \* baseline_path
  data,           \* bytes read from the record
  seen,           \* the sidecar as read (Absent: None)
  reference,      \* bytes read from the baseline
  findings,       \* codes found so far
  verdict,        \* how the call ended
  matched,        \* history: contents each path held together with their digest
                  \*   at some instant since the call began
  disturbed,      \* history: a change from outside since the call began
  quiet           \* history: no file has changed since the call began

callVars == <<target, baseline, data, seen, reference, findings, verdict>>
history  == <<matched, disturbed, quiet>>
vars     == <<storeVars, pc, callVars, history>>

\* Two ways a call ends without a verdict on the record.
BaselineError == "BASELINE_ERROR"    \* the exception of that name
Aborted       == "ABORTED"           \* any other exception leaves the call
Verdicts == ActiveCodes \cup {Accepted, BaselineError, Aborted}

AuditPCs == {"idle", "stat_sidecar", "read_sidecar", "stages",
             "read_reference", "stat_reference_sidecar",
             "read_reference_sidecar", "compare", "conclude", "done"}

\* The contents that p holds together with their own digest.
MatchingPair(rec, sc, p) == {b \in Bytes : rec[p] = b /\ sc[p] = Sha256(b)}

TypeOK ==
  /\ StoreTypeOK
  /\ pc \in AuditPCs
  /\ target \in Paths
  /\ baseline \in Paths \cup {NoBaseline}
  /\ data \in Bytes
  /\ seen \in Sidecars
  /\ reference \in Bytes
  /\ findings \in SUBSET ActiveCodes
  /\ verdict \in Verdicts
  /\ matched \in [Paths -> SUBSET Bytes]
  /\ disturbed \in BOOLEAN
  /\ quiet \in BOOLEAN

Init ==
  /\ StoreInit
  /\ pc = "idle"
  /\ target \in Paths
  /\ baseline = NoBaseline
  /\ data = Empty
  /\ seen = Absent
  /\ reference = Empty
  /\ findings = {}
  /\ verdict = Aborted
  /\ matched = [p \in Paths |-> MatchingPair(record, sidecar, p)]
  /\ disturbed = FALSE
  /\ quiet = TRUE

---------------------------------------------------------------------------
(* Steps of audit_record.                                                  *)

Finish(v) == pc' = "done" /\ verdict' = v

\* The call begins by reading the record; without one it raises.
StartAudit(p, b) ==
  /\ pc \in {"idle", "done"}
  /\ target' = p
  /\ baseline' = b
  /\ seen' = Absent
  /\ reference' = Empty
  /\ findings' = {}
  /\ matched' = [q \in Paths |-> MatchingPair(record, sidecar, q)]
  /\ disturbed' = FALSE
  /\ quiet' = TRUE
  /\ \/ /\ record[p] = Absent
        /\ data' = Empty
        /\ Finish(Aborted)
     \/ /\ record[p] # Absent
        /\ data' = record[p]
        /\ pc' = "stat_sidecar"
        /\ verdict' = Aborted
  /\ UNCHANGED storeVars

\* is_file and read_bytes are two accesses: the file may vanish in between.
StatSidecar ==
  /\ pc = "stat_sidecar"
  /\ pc' = IF sidecar[target] = Absent THEN "stages" ELSE "read_sidecar"
  /\ UNCHANGED <<storeVars, callVars, history>>

\* Mutant: a sidecar that has vanished is read again until it is there.
ReadSidecarRetrying ==
  /\ pc = "read_sidecar"
  /\ \/ sidecar[target] = Absent /\ UNCHANGED <<pc, seen, verdict>>
     \/ /\ sidecar[target] # Absent
        /\ seen' = sidecar[target]
        /\ pc' = "stages"
        /\ UNCHANGED verdict
  /\ UNCHANGED <<storeVars, history, target, baseline, data, reference, findings>>

ReadSidecar ==
  /\ pc = "read_sidecar"
  /\ \/ /\ sidecar[target] = Absent
        /\ Finish(Aborted)
        /\ UNCHANGED seen
     \/ /\ sidecar[target] # Absent
        /\ seen' = sidecar[target]
        /\ pc' = "stages"
        /\ UNCHANGED verdict
  /\ UNCHANGED <<storeVars, history, target, baseline, data, reference, findings>>

\* Mutant: a stage that raises nothing leaves its answer among the findings.
RunStagesKeepingAccepted ==
  /\ pc = "stages"
  /\ FormatCode(data) # Uncaught
  /\ findings' = {FormatCode(data), verify_hash_pair(data, seen)}
  /\ pc' = IF baseline # NoBaseline /\ FormatCode(data) = Accepted
           THEN "read_reference" ELSE "conclude"
  /\ UNCHANGED <<storeVars, history, target, baseline, data, seen, reference, verdict>>

\* The format and the hash stage both run; neither stops the other.
RunStages ==
  /\ pc = "stages"
  /\ \/ /\ FormatCode(data) = Uncaught
        /\ Finish(Aborted)
        /\ UNCHANGED findings
     \/ /\ FormatCode(data) # Uncaught
        /\ findings' = {FormatCode(data), verify_hash_pair(data, seen)} \ {Accepted}
        /\ pc' = IF baseline # NoBaseline /\ FormatCode(data) = Accepted
                 THEN "read_reference" ELSE "conclude"
        /\ UNCHANGED verdict
  /\ UNCHANGED <<storeVars, history, target, baseline, data, seen, reference>>

\* The baseline is read outside the try; its format is checked inside.
ReadReference ==
  /\ pc = "read_reference"
  /\ \/ /\ record[baseline] = Absent
        /\ Finish(Aborted)
        /\ UNCHANGED reference
     \/ /\ record[baseline] # Absent
        /\ reference' = record[baseline]
        /\ \/ /\ FormatCode(record[baseline]) = Accepted
              /\ pc' = "stat_reference_sidecar"
              /\ UNCHANGED verdict
           \/ /\ FormatCode(record[baseline]) = Uncaught
              /\ Finish(Aborted)
           \/ /\ FormatCode(record[baseline]) \in FormatCodes
              /\ Finish(BaselineError)
  /\ UNCHANGED <<storeVars, history, target, baseline, data, seen, findings>>

\* Mutant: the sidecar that is looked for is that of the record.
StatReferenceSidecarOfRecord ==
  /\ pc = "stat_reference_sidecar"
  /\ IF sidecar[target] = Absent THEN Finish(BaselineError)
     ELSE pc' = "read_reference_sidecar" /\ UNCHANGED verdict
  /\ UNCHANGED <<storeVars, history, target, baseline, data, seen, reference, findings>>

StatReferenceSidecar ==
  /\ pc = "stat_reference_sidecar"
  /\ \/ /\ sidecar[baseline] = Absent
        /\ Finish(BaselineError)
     \/ /\ sidecar[baseline] # Absent
        /\ pc' = "read_reference_sidecar"
        /\ UNCHANGED verdict
  /\ UNCHANGED <<storeVars, history, target, baseline, data, seen, reference, findings>>

\* Mutant: the baseline is checked against the sidecar of the record.
ReadReferenceSidecarOfRecord ==
  /\ pc = "read_reference_sidecar"
  /\ IF verify_hash_pair(reference, sidecar[target]) = Accepted
     THEN pc' = "compare" /\ UNCHANGED verdict
     ELSE Finish(BaselineError)
  /\ UNCHANGED <<storeVars, history, target, baseline, data, seen, reference, findings>>

ReadReferenceSidecar ==
  /\ pc = "read_reference_sidecar"
  /\ \/ /\ sidecar[baseline] = Absent
        /\ Finish(Aborted)
     \/ /\ sidecar[baseline] # Absent
        /\ verify_hash_pair(reference, sidecar[baseline]) = Accepted
        /\ pc' = "compare"
        /\ UNCHANGED verdict
     \/ /\ sidecar[baseline] # Absent
        /\ verify_hash_pair(reference, sidecar[baseline]) # Accepted
        /\ Finish(BaselineError)
  /\ UNCHANGED <<storeVars, history, target, baseline, data, seen, reference, findings>>

Compare ==
  /\ pc = "compare"
  /\ \/ /\ CompareCode(data, reference) = Uncaught
        /\ Finish(Aborted)
        /\ UNCHANGED findings
     \/ /\ CompareCode(data, reference) # Uncaught
        /\ findings' = findings \cup ({CompareCode(data, reference)} \ {Accepted})
        /\ pc' = "conclude"
        /\ UNCHANGED verdict
  /\ UNCHANGED <<storeVars, history, target, baseline, data, seen, reference>>

Conclude ==
  /\ pc = "conclude"
  /\ Finish(primary(findings))
  /\ UNCHANGED <<storeVars, history, target, baseline, data, seen, reference, findings>>

AuditStep ==
  \/ StatSidecar
  \/ ReadSidecar
  \/ RunStages
  \/ ReadReference
  \/ StatReferenceSidecar
  \/ ReadReferenceSidecar
  \/ Compare
  \/ Conclude

\* A step of the generator or of the outside world, and what history keeps of it.
DiskStep ==
  /\ \/ Writer /\ UNCHANGED disturbed
     \/ Outside /\ disturbed' = TRUE
  /\ matched' = [p \in Paths |-> matched[p] \cup MatchingPair(record', sidecar', p)]
  /\ quiet' = (quiet /\ UNCHANGED disk)
  /\ UNCHANGED <<pc, callVars>>

Next ==
  \/ \E p \in Paths, b \in Paths \cup {NoBaseline} : StartAudit(p, b)
  \/ AuditStep
  \/ DiskStep

\* A call runs on: nothing in audit_record waits for anyone.
Fairness == WF_vars(AuditStep)
Spec == Init /\ [][Next]_vars /\ Fairness

---------------------------------------------------------------------------
(* Properties.                                                             *)

\* A record is accepted only when the generator published exactly these bytes
\* at this path (and at the baseline's path, when there is one), whatever was
\* done to the files from outside and wherever the generator was killed.
OnlyPublishedAccepted ==
  pc = "done" /\ verdict = Accepted =>
    /\ data \in published[target]
    /\ baseline # NoBaseline => data \in published[baseline]

\* The record and its sidecar are read at two instants, yet an accepted pair
\* was on disk as a pair at one instant of the call, as long as only the
\* generator was writing; the same for the pair of the baseline.
AcceptedPairWasOnDisk ==
  pc = "done" /\ verdict = Accepted /\ ~disturbed =>
    /\ data \in matched[target]
    /\ baseline # NoBaseline => data \in matched[baseline]

\* What is wrong with the files of path p, as one snapshot of the disk.
PairDefects(p) ==
  {c \in FormatCodes : FormatCode(record[p]) = c}
    \cup {c \in HashCodes :
            \/ c = "HASH_FILE_MISSING" /\ sidecar[p] = Absent
            \/ c = "HASH_FORMAT_INVALID" /\ sidecar[p] = Malformed
            \/ /\ c = "HASH_MISMATCH"
               /\ sidecar[p] \in Digests \cup {Stray}
               /\ sidecar[p] # Sha256(record[p])}

Readable(p) == record[p] # Absent /\ FormatCode(record[p]) # Uncaught

\* The verdict the registry and audit-model.md promise for that snapshot: a
\* code that applies and that no other applicable code precedes.
SnapshotVerdict(v) ==
  LET compared == baseline # NoBaseline /\ FormatCode(record[target]) = Accepted
      difference == {c \in BaselineCodes :
                       compared /\ CompareCode(record[target], record[baseline]) = c}
      defects == PairDefects(target) \cup difference
  IN  IF ~Readable(target) \/ (compared /\ ~Readable(baseline)) THEN v = Aborted
      ELSE IF compared /\ PairDefects(baseline) # {} THEN v = BaselineError
      ELSE IF compared /\ CompareCode(record[target], record[baseline]) = Uncaught
           THEN v = Aborted
      ELSE IF defects = {} THEN v = Accepted
      ELSE v \in defects /\ \A d \in defects : PRECEDENCE[v] <= PRECEDENCE[d]

\* On files that do not change during the call the stepwise audit gives the
\* verdict of the snapshot.
QuietAuditIsExact == pc = "done" /\ quiet => SnapshotVerdict(verdict)

\* Every call of audit_record ends.
AuditEnds == (pc # "idle") ~> (pc = "done")

---------------------------------------------------------------------------
(* The inductive invariants behind the safety properties.                  *)

\* Steps that only a call with a baseline reaches, after both stages passed
\* on the format of the record.
BaselinePCs == {"read_reference", "stat_reference_sidecar",
                "read_reference_sidecar", "compare"}

\* The call has found nothing wrong with a record that has a baseline.
Compared ==
  \/ pc = "compare"
  \/ pc = "conclude" /\ findings = {} /\ baseline # NoBaseline
  \/ pc = "done" /\ verdict = Accepted /\ baseline # NoBaseline

\* What the steps taken so far have established about the bytes that were read.
CallInv ==
  /\ pc \in BaselinePCs => baseline \in Paths /\ data \in Canonical
  /\ pc \in BaselinePCs \ {"read_reference"} => reference \in Canonical
  /\ pc \in BaselinePCs \cup {"conclude"} /\ findings = {} => seen = Sha256(data)
  /\ pc = "done" /\ verdict = Accepted => seen = Sha256(data)
  /\ pc # "compare" /\ Compared => data = reference

hashAnswer == verify_hash_pair(data, seen)

\* The baseline stage does not run.
Uncompared == baseline = NoBaseline \/ FormatCode(data) # Accepted

\* What has been found is what the stages answered, and nothing else.
FindingsInv ==
  /\ pc \in {"stat_sidecar", "read_sidecar"} => seen = Absent
  /\ pc \in BaselinePCs => findings = {hashAnswer} \ {Accepted}
  /\ pc = "conclude" =>
       /\ FormatCode(data) # Uncaught
       /\ Uncompared => findings = {FormatCode(data), hashAnswer} \ {Accepted}
       /\ ~ Uncompared =>
            /\ reference \in Canonical
            /\ CompareCode(data, reference) # Uncaught
            /\ findings = {hashAnswer, CompareCode(data, reference)} \ {Accepted}

\* Digests come from write_pair only.
PublishedInv ==
  /\ \A p \in Paths, b \in Bytes : sidecar[p] = Sha256(b) => b \in published[p]
  /\ \A b \in Bytes : seen = Sha256(b) => b \in published[target]
  /\ Compared => reference \in published[baseline]

\* Bytes b were read from p and its sidecar is still to be read: if that
\* sidecar vouches for b, or the generator is about to let it, then b and its
\* digest have been, or will be, together on disk.
Pending(p, b) ==
  /\ sidecar[p] = Sha256(b) => b \in matched[p]
  /\ wpc \in {"open_sidecar", "write_sidecar"} /\ wpath = p /\ wdata = b
        => record[p] = b

MatchedInv ==
  /\ \A p \in Paths : MatchingPair(record, sidecar, p) \subseteq matched[p]
  /\ ~disturbed =>
       /\ pc \in {"stat_sidecar", "read_sidecar"} => Pending(target, data)
       /\ seen = Sha256(data) => data \in matched[target]
       /\ pc \in {"stat_reference_sidecar", "read_reference_sidecar"}
             => Pending(baseline, reference)
       /\ Compared => reference \in matched[baseline]

\* What the call has read is still what the files hold.
QuietInv ==
  quiet =>
    /\ pc \notin {"idle", "done"} => record[target] = data
    /\ pc = "read_sidecar" => sidecar[target] # Absent
    /\ pc \in BaselinePCs \cup {"stages", "conclude"} => seen = sidecar[target]
    /\ pc \in BaselinePCs \ {"read_reference"} => record[baseline] = reference
    /\ pc = "read_reference_sidecar" => sidecar[baseline] # Absent
    /\ pc = "compare" \/ (pc = "conclude" /\ ~ Uncompared) =>
         record[baseline] = reference /\ sidecar[baseline] = Sha256(reference)
    /\ QuietAuditIsExact

IInv == TypeOK /\ CallInv /\ PublishedInv /\ MatchedInv
===========================================================================
