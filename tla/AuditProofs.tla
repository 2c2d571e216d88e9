---------------------------- MODULE AuditProofs ----------------------------
(***************************************************************************)
(* Proofs about Audit, and that it implements AuditContract, for every set *)
(* of paths, contents and bounds.                                          *)
(***************************************************************************)
EXTENDS AuditHistory, StoreProofs, WellFoundedInduction

(***************************************************************************)
(* The registry.                                                           *)
(***************************************************************************)

\* "ACCEPTED", "UNCAUGHT" and the two ways a call fails are no rejection reason.
LEMMA OutcomesAreNoCodes ==
  {Accepted, Uncaught, BaselineError, Aborted} \cap ActiveCodes = {}
BY DEF Accepted, Uncaught, BaselineError, Aborted, ActiveCodes, FormatCodes,
       HashCodes, BaselineCodes, FormatPrecedence, HashPrecedence, BaselinePrecedence

\* Every active code has a precedence number (errors.PRECEDENCE).
LEMMA PrecedenceIsNat == \A c \in ActiveCodes : PRECEDENCE[c] \in Nat
<1>1. \A c \in FormatCodes : FormatPrecedence[c] \in Nat
  BY DEF FormatCodes, FormatPrecedence
<1>2. \A c \in HashCodes : HashPrecedence[c] \in Nat
  BY DEF HashCodes, HashPrecedence
<1>3. \A c \in BaselineCodes : BaselinePrecedence[c] \in Nat
  BY DEF BaselineCodes, BaselinePrecedence
<1>4. QED
  BY <1>1, <1>2, <1>3 DEF PRECEDENCE, ActiveCodes

\* errors.primary picks one of the codes it is given.
LEMMA PrimaryIsACode ==
  ASSUME NEW codes \in SUBSET ActiveCodes, codes # {}
  PROVE  /\ primary(codes) \in codes
         /\ \A d \in codes : PRECEDENCE[primary(codes)] <= PRECEDENCE[d]
<1> DEFINE numbers == {PRECEDENCE[c] : c \in codes}
           less    == OpToRel(<, Nat)
<1>1. numbers \subseteq Nat /\ numbers # {}
  BY PrecedenceIsNat
<1>2. IsWellFoundedOn(less, Nat)
  BY NatLessThanWellFounded
<1>3. \A m, k \in Nat : m < k => <<m, k>> \in less
  BY DEF OpToRel
<1> HIDE DEF numbers, less
<1>4. PICK n \in numbers : \A m \in numbers : ~ (<<m, n>> \in less)
  BY <1>1, <1>2, WFMin
<1>5. ASSUME NEW m \in numbers
      PROVE  n <= m
  <2>1. m \in Nat /\ n \in Nat
    BY <1>1
  <2>2. ~ (m < n)
    BY <2>1, <1>3, <1>4
  <2>3. QED
    BY <2>1, <2>2
<1>6. \E c \in codes : \A d \in codes : PRECEDENCE[c] <= PRECEDENCE[d]
  BY <1>5 DEF numbers
<1>7. QED
  BY <1>6 DEF primary

(***************************************************************************)
(* Types.                                                                  *)
(***************************************************************************)

\* The initial state is well typed.
LEMMA InitTypeOK == Init => TypeOK
<1> SUFFICES ASSUME Init PROVE TypeOK
  OBVIOUS
<1> USE DEF Init, StoreInit
<1>1. StoreTypeOK
  BY FileAssumption, BoundAssumption DEF StoreTypeOK, Sidecars, Digests, Canonical
<1>2. QED
  BY <1>1, FileAssumption
     DEF TypeOK, AuditPCs, Sidecars, Verdicts, MatchingPair

\* Every step of the system keeps it well typed.
LEMMA NextTypeOK == TypeOK /\ CallInv /\ [Next]_vars => TypeOK'
<1> SUFFICES ASSUME TypeOK, CallInv, [Next]_vars PROVE TypeOK'
  OBVIOUS
<1> USE DEF TypeOK
<1>s. ASSUME UNCHANGED storeVars PROVE StoreTypeOK'
  BY <1>s DEF storeVars, StoreTypeOK
<1>1. ASSUME NEW p \in Paths, NEW b \in Paths \cup {NoBaseline}, StartAudit(p, b)
      PROVE  TypeOK'
  BY <1>1, <1>s, FileAssumption
     DEF StartAudit, Finish, AuditPCs, Verdicts, Sidecars, MatchingPair, StoreTypeOK
<1>2. CASE StatSidecar
  BY <1>2, <1>s DEF StatSidecar, callVars, history, AuditPCs
<1>3. CASE ReadSidecar
  BY <1>3, <1>s DEF ReadSidecar, history, Finish, AuditPCs, Verdicts, StoreTypeOK
<1>4. CASE RunStages
  <2>1. FormatCode(data) # Uncaught
          => {FormatCode(data), verify_hash_pair(data, seen)} \ {Accepted} \subseteq ActiveCodes
    BY FileAssumption, HashAnswers DEF ActiveCodes
  <2>2. findings' \in SUBSET ActiveCodes
    BY <1>4, <2>1 DEF RunStages
  <2>3. pc' \in AuditPCs /\ verdict' \in Verdicts
    BY <1>4 DEF RunStages, Finish, AuditPCs, Verdicts
  <2>4. QED
    BY <1>4, <1>s, <2>2, <2>3 DEF RunStages, history
<1>5. CASE ReadReference
  BY <1>5, <1>s
     DEF ReadReference, history, Finish, AuditPCs, Verdicts, StoreTypeOK, CallInv,
         BaselinePCs
<1>6. CASE StatReferenceSidecar
  BY <1>6, <1>s DEF StatReferenceSidecar, history, Finish, AuditPCs, Verdicts
<1>7. CASE ReadReferenceSidecar
  BY <1>7, <1>s DEF ReadReferenceSidecar, history, Finish, AuditPCs, Verdicts
<1>8. CASE Compare
  <2>1. CompareCode(data, reference) \in BaselineCodes \cup {Accepted, Uncaught}
    BY <1>8, CompareAssumption DEF Compare, CallInv, BaselinePCs
  <2>2. QED
    BY <1>8, <1>s, <2>1
       DEF Compare, history, Finish, AuditPCs, Verdicts, ActiveCodes
<1>9. CASE Conclude
  BY <1>9, <1>s, PrimaryIsACode
     DEF Conclude, history, Finish, AuditPCs, Verdicts, primary
<1>10. CASE DiskStep
  BY <1>10, DiskTypeOK DEF DiskStep, callVars, MatchingPair
<1>11. CASE UNCHANGED vars
  BY <1>11, <1>s DEF vars, callVars, history
<1>12. QED
  BY <1>1, <1>2, <1>3, <1>4, <1>5, <1>6, <1>7, <1>8, <1>9, <1>10, <1>11
     DEF Next, AuditStep

(***************************************************************************)
(* What the steps of a call establish about the bytes it read.             *)
(***************************************************************************)

\* primary answers Accepted only when no stage found anything.
LEMMA PrimaryAccepts ==
  ASSUME NEW codes \in SUBSET ActiveCodes, primary(codes) = Accepted
  PROVE  codes = {}
BY PrimaryIsACode, OutcomesAreNoCodes

\* No step of the audit answers Accepted other than through primary.
LEMMA FailuresAreNotAccepted ==
  Aborted # Accepted /\ BaselineError # Accepted /\ Uncaught # Accepted
BY DEF Aborted, BaselineError, Accepted, Uncaught

\* Every step of audit_record, and every step of the disk under it, keeps what
\* is known of the bytes that were read.
LEMMA NextCallInv == TypeOK /\ CallInv /\ [Next]_vars => CallInv'
<1> SUFFICES ASSUME TypeOK, CallInv, [Next]_vars PROVE CallInv'
  OBVIOUS
<1> USE FailuresAreNotAccepted DEF CallInv, Compared, BaselinePCs, Finish
<1>1. ASSUME NEW p \in Paths, NEW b \in Paths \cup {NoBaseline}, StartAudit(p, b)
      PROVE  CallInv'
  BY <1>1 DEF StartAudit
<1>2. CASE StatSidecar
  BY <1>2 DEF StatSidecar, callVars
<1>3. CASE ReadSidecar
  BY <1>3 DEF ReadSidecar
<1>4. CASE RunStages
  <2>1. CASE FormatCode(data) = Uncaught
    BY <1>4, <2>1 DEF RunStages
  <2>2. CASE FormatCode(data) # Uncaught
    <3>1. findings' = {} => FormatCode(data) = Accepted /\ seen = Sha256(data)
      BY <1>4, <2>2, HashAccepts DEF RunStages
    <3>2. pc' = "read_reference" => baseline \in Paths /\ data \in Canonical
      BY <1>4, <2>2 DEF RunStages, TypeOK, Canonical
    <3>3. pc' = "conclude" /\ findings' = {} => baseline = NoBaseline
      BY <1>4, <2>2, <3>1 DEF RunStages
    <3>4. pc' \in {"read_reference", "conclude"}
      BY <1>4, <2>2 DEF RunStages
    <3>5. QED
      BY <1>4, <2>2, <3>1, <3>2, <3>3, <3>4 DEF RunStages
  <2>3. QED
    BY <2>1, <2>2
<1>5. CASE ReadReference
  BY <1>5 DEF ReadReference, TypeOK, StoreTypeOK, Canonical
<1>6. CASE StatReferenceSidecar
  BY <1>6 DEF StatReferenceSidecar
<1>7. CASE ReadReferenceSidecar
  BY <1>7 DEF ReadReferenceSidecar
<1>8. CASE Compare
  BY <1>8, CompareAssumption DEF Compare
<1>9. CASE Conclude
  BY <1>9, PrimaryAccepts DEF Conclude, TypeOK
<1>10. CASE DiskStep
  BY <1>10 DEF DiskStep, callVars
<1>11. CASE UNCHANGED vars
  BY <1>11 DEF vars, callVars
<1>12. QED
  BY <1>1, <1>2, <1>3, <1>4, <1>5, <1>6, <1>7, <1>8, <1>9, <1>10, <1>11
     DEF Next, AuditStep

\* Init establishes what the later steps rely on.
LEMMA InitCallInv == Init => CallInv
BY FailuresAreNotAccepted DEF Init, CallInv, Compared, BaselinePCs

\* The variables of the audit have their types in every reachable state.
THEOREM TypeCorrect == Spec => []TypeOK
<1>1. Init => TypeOK /\ CallInv
  BY InitTypeOK, InitCallInv
<1>2. TypeOK /\ CallInv /\ [Next]_vars => (TypeOK /\ CallInv)'
  BY NextTypeOK, NextCallInv
<1>3. QED
  BY <1>1, <1>2, PTL DEF Spec

(***************************************************************************)
(* Only published bytes are accepted.                                      *)
(***************************************************************************)

\* The committed pairs of the initial disk count as published.
LEMMA InitPublishedInv == Init => PublishedInv
<1> SUFFICES ASSUME Init PROVE PublishedInv
  OBVIOUS
<1>1. ASSUME NEW p \in Paths, NEW b \in Bytes, sidecar[p] = Sha256(b)
      PROVE  b \in published[p]
  BY <1>1, DigestAssumption, FileAssumption DEF Init, StoreInit, Canonical
<1>2. seen \notin Digests
  BY DigestAssumption DEF Init, Digests
<1>3. QED
  BY <1>1, <1>2 DEF Init, PublishedInv, Compared, Digests

\* A step that touches files brings in a digest only with its publication.
LEMMA DiskPublishedInv ==
  TypeOK /\ CallInv /\ PublishedInv /\ DiskStep => PublishedInv'
<1> SUFFICES ASSUME TypeOK, CallInv, PublishedInv, DiskStep PROVE PublishedInv'
  OBVIOUS
<1>1. /\ \A p \in Paths : published[p] \subseteq published'[p]
      /\ \A p \in Paths, b \in Bytes : sidecar'[p] = Sha256(b) => b \in published'[p]
  BY DigestsArePublished DEF DiskStep, TypeOK, PublishedInv
<1>2. ASSUME NEW b \in Bytes, seen' = Sha256(b)
      PROVE  b \in published'[target']
  BY <1>1, <1>2 DEF DiskStep, callVars, PublishedInv, TypeOK
<1>3. Compared' => reference' \in published'[baseline']
  <2>1. Compared' => Compared
    BY DEF DiskStep, callVars, Compared
  <2>2. Compared => baseline \in Paths
    BY DEF TypeOK, Compared, CallInv, BaselinePCs
  <2>3. QED
    BY <1>1, <2>1, <2>2 DEF DiskStep, callVars, PublishedInv
<1>4. QED
  BY <1>1, <1>2, <1>3 DEF PublishedInv

\* A call with a baseline does not conclude from the first two stages alone
\* unless they found something.
LEMMA StagesDoNotCompare == RunStages => ~ Compared'
<1> SUFFICES ASSUME RunStages PROVE ~ Compared'
  OBVIOUS
<1> USE FailuresAreNotAccepted DEF RunStages, Compared, Finish
<1>1. CASE FormatCode(data) = Uncaught
  BY <1>1
<1>2. CASE FormatCode(data) # Uncaught
  <2>1. findings' = {} => FormatCode(data) = Accepted
    BY <1>2
  <2>2. FormatCode(data) = Accepted /\ baseline # NoBaseline => pc' = "read_reference"
    BY <1>2
  <2>3. pc' \in {"read_reference", "conclude"} /\ baseline' = baseline
    BY <1>2
  <2>4. QED
    BY <2>1, <2>2, <2>3
<1>3. QED
  BY <1>1, <1>2

\* Every step keeps it: audit_record only copies digests that are on disk.
LEMMA NextPublishedInv ==
  TypeOK /\ CallInv /\ PublishedInv /\ [Next]_vars => PublishedInv'
<1> SUFFICES ASSUME TypeOK, CallInv, PublishedInv, [Next]_vars PROVE PublishedInv'
  OBVIOUS
<1> USE FailuresAreNotAccepted DEF PublishedInv, Compared, Finish, storeVars
<1>1. ASSUME NEW p \in Paths, NEW b \in Paths \cup {NoBaseline}, StartAudit(p, b)
      PROVE  PublishedInv'
  BY <1>1, DigestAssumption DEF StartAudit
<1>2. CASE StatSidecar
  BY <1>2 DEF StatSidecar, callVars
<1>3. CASE ReadSidecar
  BY <1>3 DEF ReadSidecar, TypeOK
<1>4. CASE RunStages
  BY <1>4, StagesDoNotCompare DEF RunStages
<1>5. CASE ReadReference
  BY <1>5 DEF ReadReference
<1>6. CASE StatReferenceSidecar
  BY <1>6 DEF StatReferenceSidecar
<1>7. CASE ReadReferenceSidecar
  BY <1>7, HashAccepts DEF ReadReferenceSidecar, CallInv, BaselinePCs, Canonical
<1>8. CASE Compare
  BY <1>8 DEF Compare
<1>9. CASE Conclude
  BY <1>9, PrimaryAccepts DEF Conclude, TypeOK
<1>10. CASE DiskStep
  BY <1>10, DiskPublishedInv
<1>11. CASE UNCHANGED vars
  BY <1>11 DEF vars, callVars
<1>12. QED
  BY <1>1, <1>2, <1>3, <1>4, <1>5, <1>6, <1>7, <1>8, <1>9, <1>10, <1>11
     DEF Next, AuditStep

\* What the invariants say of a call that has accepted.
LEMMA PublishedIsAccepted ==
  TypeOK /\ CallInv /\ PublishedInv => OnlyPublishedAccepted
BY DEF TypeOK, CallInv, PublishedInv, OnlyPublishedAccepted, Compared

\* Whatever happens to the files and wherever the generator is killed, only
\* bytes that it published at that very path are accepted.
THEOREM PublishedOnly == Spec => []OnlyPublishedAccepted
<1> DEFINE Inv == TypeOK /\ CallInv /\ PublishedInv
<1>1. Init => Inv
  BY InitTypeOK, InitCallInv, InitPublishedInv
<1>2. Inv /\ [Next]_vars => Inv'
  BY NextTypeOK, NextCallInv, NextPublishedInv
<1>3. Inv => OnlyPublishedAccepted
  BY PublishedIsAccepted
<1>4. QED
  BY <1>1, <1>2, <1>3, PTL DEF Spec

(***************************************************************************)
(* An accepted pair was on disk as a pair.                                 *)
(***************************************************************************)

\* A step that touches files keeps what the call relies on about pairs on disk.
LEMMA DiskMatchedInv ==
  TypeOK /\ CallInv /\ MatchedInv /\ DiskStep => MatchedInv'
<1> SUFFICES ASSUME TypeOK, CallInv, MatchedInv, DiskStep PROVE MatchedInv'
  OBVIOUS
<1>1. ASSUME NEW p \in Paths
      PROVE  /\ MatchingPair(record', sidecar', p) \subseteq matched'[p]
             /\ matched[p] \subseteq matched'[p]
  BY DEF DiskStep
<1>2. MatchingPair(record, sidecar, target)' = MatchingPair(record', sidecar', target')
  BY DEF MatchingPair
<1>3. ASSUME ~ disturbed'
      PROVE  ~ disturbed /\ Writer
  BY <1>3 DEF DiskStep
<1>4. UNCHANGED <<pc, callVars>> /\ Compared' = Compared
  BY DEF DiskStep, callVars, Compared
<1>5. ASSUME ~ disturbed', pc' \in {"stat_sidecar", "read_sidecar"}
      PROVE  Pending(target, data)'
  <2>1. target \in Paths /\ data \in Bytes /\ Pending(target, data)
    BY <1>3, <1>4, <1>5 DEF TypeOK, MatchedInv
  <2>2. QED
    BY <1>1, <1>3, <1>4, <1>5, <2>1, PendingKept
       DEF Pending, callVars, TypeOK, MatchingPair
<1>6. ASSUME ~ disturbed', pc' \in {"stat_reference_sidecar", "read_reference_sidecar"}
      PROVE  Pending(baseline, reference)'
  <2>1. baseline \in Paths /\ reference \in Bytes /\ Pending(baseline, reference)
    BY <1>3, <1>4, <1>6 DEF TypeOK, MatchedInv, CallInv, BaselinePCs
  <2>2. QED
    BY <1>1, <1>3, <1>4, <1>6, <2>1, PendingKept
       DEF Pending, callVars, TypeOK, MatchingPair
<1>7. ASSUME ~ disturbed', seen' = Sha256(data')
      PROVE  data' \in matched'[target']
  BY <1>1, <1>3, <1>4, <1>7 DEF TypeOK, MatchedInv, callVars
<1>8. ASSUME ~ disturbed', Compared'
      PROVE  reference' \in matched'[baseline']
  <2>1. baseline \in Paths
    BY <1>4, <1>8 DEF TypeOK, Compared, CallInv, BaselinePCs
  <2>2. QED
    BY <1>1, <1>3, <1>4, <1>8, <2>1 DEF MatchedInv, callVars
<1>9. \A p \in Paths : MatchingPair(record, sidecar, p)' \subseteq matched'[p]
  BY <1>1 DEF MatchingPair
<1>10. QED
  BY <1>5, <1>6, <1>7, <1>8, <1>9 DEF MatchedInv

\* Every step of the audit keeps it: a sidecar is read after its record.
LEMMA NextMatchedInv ==
  TypeOK /\ CallInv /\ MatchedInv /\ [Next]_vars => MatchedInv'
<1> SUFFICES ASSUME TypeOK, CallInv, MatchedInv, [Next]_vars PROVE MatchedInv'
  OBVIOUS
<1> USE FailuresAreNotAccepted
    DEF MatchedInv, Compared, Finish, storeVars, history, MatchingPair, Pending
<1>1. ASSUME NEW p \in Paths, NEW b \in Paths \cup {NoBaseline}, StartAudit(p, b)
      PROVE  MatchedInv'
  <2>1. \A q \in Paths : matched'[q] = MatchingPair(record, sidecar, q)
    BY <1>1 DEF StartAudit
  <2>2. ~ Compared' /\ target' = p /\ seen' = Absent /\ data' \in Bytes
    BY <1>1, FileAssumption DEF StartAudit, TypeOK, StoreTypeOK
  <2>3. pc' = "stat_sidecar" => data' = record[p]
    BY <1>1 DEF StartAudit
  <2>4. pc' \in {"stat_sidecar", "done"} /\ UNCHANGED storeVars
    BY <1>1 DEF StartAudit
  <2>5. QED
    BY <2>1, <2>2, <2>3, <2>4, DigestAssumption
<1>2. CASE StatSidecar
  BY <1>2 DEF StatSidecar, callVars
<1>3. CASE ReadSidecar
  BY <1>3 DEF ReadSidecar
<1>4. CASE RunStages
  BY <1>4, StagesDoNotCompare DEF RunStages
<1>5. CASE ReadReference
  BY <1>5 DEF ReadReference, TypeOK, StoreTypeOK, CallInv, BaselinePCs
<1>6. CASE StatReferenceSidecar
  BY <1>6 DEF StatReferenceSidecar
<1>7. CASE ReadReferenceSidecar
  BY <1>7, HashAccepts DEF ReadReferenceSidecar
<1>8. CASE Compare
  BY <1>8 DEF Compare
<1>9. CASE Conclude
  BY <1>9, PrimaryAccepts DEF Conclude, TypeOK
<1>10. CASE DiskStep
  BY <1>10, DiskMatchedInv
<1>11. CASE UNCHANGED vars
  BY <1>11 DEF vars, callVars
<1>12. QED
  BY <1>1, <1>2, <1>3, <1>4, <1>5, <1>6, <1>7, <1>8, <1>9, <1>10, <1>11
     DEF Next, AuditStep

\* No call is under way in the initial state.
LEMMA InitMatchedInv == Init => MatchedInv
<1> SUFFICES ASSUME Init PROVE MatchedInv
  OBVIOUS
<1>1. pc = "idle" /\ seen = Absent /\ data \in Bytes
  BY FileAssumption DEF Init
<1>2. \A p \in Paths : matched[p] = MatchingPair(record, sidecar, p)
  BY DEF Init
<1>3. QED
  BY <1>1, <1>2, DigestAssumption DEF MatchedInv, Compared

\* What that says of a call that has accepted while only the generator wrote.
LEMMA MatchedIsAccepted ==
  TypeOK /\ CallInv /\ MatchedInv => AcceptedPairWasOnDisk
BY DEF TypeOK, CallInv, MatchedInv, AcceptedPairWasOnDisk, Compared

\* Record and sidecar are read at two instants, yet while only the generator
\* writes, an accepted record and its digest were on disk together at one.
THEOREM PairOnDisk == Spec => []AcceptedPairWasOnDisk
<1> DEFINE Inv == TypeOK /\ CallInv /\ MatchedInv
<1>1. Init => Inv
  BY InitTypeOK, InitCallInv, InitMatchedInv
<1>2. Inv /\ [Next]_vars => Inv'
  BY NextTypeOK, NextCallInv, NextMatchedInv
<1>3. Inv => AcceptedPairWasOnDisk
  BY MatchedIsAccepted
<1>4. QED
  BY <1>1, <1>2, <1>3, PTL DEF Spec

(***************************************************************************)
(* On files that stand still, the verdict is that of the snapshot.         *)
(***************************************************************************)

\* Acceptance by a stage is not a failure of it.
LEMMA OutcomesDiffer == Accepted # Uncaught
BY DEF Accepted, Uncaught

\* Nothing but the stages adds to the findings.
LEMMA NextFindingsInv ==
  TypeOK /\ CallInv /\ FindingsInv /\ [Next]_vars => FindingsInv'
<1> SUFFICES ASSUME TypeOK, CallInv, FindingsInv, [Next]_vars PROVE FindingsInv'
  OBVIOUS
<1> USE DEF FindingsInv, hashAnswer, Uncompared, BaselinePCs, Finish
<1>1. ASSUME NEW p \in Paths, NEW b \in Paths \cup {NoBaseline}, StartAudit(p, b)
      PROVE  FindingsInv'
  <2>1. pc' \in {"stat_sidecar", "done"} /\ seen' = Absent
    BY <1>1 DEF StartAudit
  <2>2. QED
    BY <2>1
<1>2. CASE StatSidecar
  BY <1>2 DEF StatSidecar, callVars
<1>3. CASE ReadSidecar
  BY <1>3 DEF ReadSidecar
<1>4. CASE RunStages
  <2>1. /\ UNCHANGED <<data, seen, reference, baseline>>
        /\ pc' \in {"done", "read_reference", "conclude"}
    BY <1>4 DEF RunStages
  <2>2. pc' # "done" =>
          /\ FormatCode(data) # Uncaught
          /\ findings' = {FormatCode(data), hashAnswer} \ {Accepted}
          /\ pc' = "read_reference" <=> ~ Uncompared
    BY <1>4 DEF RunStages
  <2>3. FormatCode(data) = Accepted
          => {FormatCode(data), hashAnswer} \ {Accepted} = {hashAnswer} \ {Accepted}
    OBVIOUS
  <2>4. QED
    BY <2>1, <2>2, <2>3
<1>5. CASE ReadReference
  BY <1>5 DEF ReadReference
<1>6. CASE StatReferenceSidecar
  BY <1>6 DEF StatReferenceSidecar
<1>7. CASE ReadReferenceSidecar
  BY <1>7 DEF ReadReferenceSidecar
<1>8. CASE Compare
  <2>1. reference \in Canonical /\ FormatCode(data) = Accepted /\ baseline # NoBaseline
    BY <1>8, CompareAssumption DEF Compare, CallInv, Canonical
  <2>2. UNCHANGED <<data, seen, reference, baseline>> /\ pc' \in {"done", "conclude"}
    BY <1>8 DEF Compare
  <2>3. pc' # "done" =>
          /\ CompareCode(data, reference) # Uncaught
          /\ findings' = ({hashAnswer} \ {Accepted})
                             \cup ({CompareCode(data, reference)} \ {Accepted})
    BY <1>8 DEF Compare
  <2>4. FormatCode(data) # Uncaught
    BY <2>1, OutcomesDiffer
  <2>5. QED
    BY <2>1, <2>2, <2>3, <2>4
<1>9. CASE Conclude
  BY <1>9 DEF Conclude
<1>10. CASE DiskStep
  BY <1>10 DEF DiskStep, callVars
<1>11. CASE UNCHANGED vars
  BY <1>11 DEF vars, callVars
<1>12. QED
  BY <1>1, <1>2, <1>3, <1>4, <1>5, <1>6, <1>7, <1>8, <1>9, <1>10, <1>11
     DEF Next, AuditStep

\* The defects of a readable pair are what the first two stages answer on it.
LEMMA DefectsAreAnswers ==
  ASSUME TypeOK, NEW p \in Paths, Readable(p)
  PROVE  PairDefects(p) = {FormatCode(record[p]), verify_hash_pair(record[p], sidecar[p])}
                             \ {Accepted}
<1>1. FormatCode(record[p]) \in FormatCodes \cup {Accepted}
  BY FileAssumption DEF Readable, TypeOK, StoreTypeOK
<1>2. {c \in FormatCodes : FormatCode(record[p]) = c} = {FormatCode(record[p])} \ {Accepted}
  BY <1>1, OutcomesAreNoCodes DEF ActiveCodes
<1>3. sidecar[p] \in Digests \cup {Absent, Malformed, Stray}
  BY DEF TypeOK, StoreTypeOK, Sidecars
<1>4. {"HASH_FILE_MISSING", "HASH_FORMAT_INVALID", "HASH_MISMATCH"} \subseteq HashCodes
  BY DEF HashCodes, HashPrecedence
<1>5. Absent \notin Digests /\ Malformed \notin Digests
  BY DigestAssumption DEF Digests
<1>6. record[p] \in Bytes
  BY DEF Readable, TypeOK, StoreTypeOK
<1>7. {c \in HashCodes :
         \/ c = "HASH_FILE_MISSING" /\ sidecar[p] = Absent
         \/ c = "HASH_FORMAT_INVALID" /\ sidecar[p] = Malformed
         \/ /\ c = "HASH_MISMATCH"
            /\ sidecar[p] \in Digests \cup {Stray}
            /\ sidecar[p] # Sha256(record[p])}
      = {verify_hash_pair(record[p], sidecar[p])} \ {Accepted}
  BY <1>3, <1>4, <1>5, <1>6, DigestAssumption DEF verify_hash_pair, Accepted
<1>8. QED
  BY <1>2, <1>7 DEF PairDefects

\* However a call on files that stand still ends, it ends as the snapshot says.
LEMMA EndIsExact ==
  ASSUME TypeOK, CallInv, FindingsInv, QuietInv, quiet, AuditStep, pc' = "done"
  PROVE  SnapshotVerdict(verdict')
<1> DEFINE compared   == baseline # NoBaseline /\ FormatCode(record[target]) = Accepted
           difference == {c \in BaselineCodes :
                            compared /\ CompareCode(record[target], record[baseline]) = c}
           defects    == PairDefects(target) \cup difference
<1>1. record[target] = data /\ data \in Bytes /\ record[target] # Absent
  BY FileAssumption
     DEF QuietInv, TypeOK, AuditStep, StatSidecar, ReadSidecar, RunStages, ReadReference,
         StatReferenceSidecar, ReadReferenceSidecar, Compare, Conclude
<1>2. ASSUME FormatCode(data) = Accepted
      PROVE  Readable(target)
  BY <1>1, <1>2, OutcomesDiffer DEF Readable
<1>3. ASSUME baseline \in Paths, data \in Canonical, Readable(baseline),
             PairDefects(baseline) # {}, verdict' = BaselineError
      PROVE  SnapshotVerdict(verdict')
  BY <1>1, <1>2, <1>3, CompareAssumption DEF SnapshotVerdict, Canonical
<1>4. CASE ReadSidecar
  BY <1>4 DEF ReadSidecar, QuietInv, Finish
<1>5. CASE RunStages
  BY <1>1, <1>5 DEF RunStages, Finish, SnapshotVerdict, Readable
<1>6. CASE ReadReference
  <2>1. baseline \in Paths /\ data \in Canonical /\ baseline # NoBaseline
    BY <1>6, CompareAssumption DEF ReadReference, CallInv, BaselinePCs
  <2>2. CASE record[baseline] = Absent \/ FormatCode(record[baseline]) = Uncaught
    <3>1. verdict' = Aborted
      BY <1>6, <2>2, OutcomesAreNoCodes, OutcomesDiffer DEF ReadReference, Finish, ActiveCodes
    <3>2. QED
      BY <1>1, <2>1, <2>2, <3>1 DEF SnapshotVerdict, Readable, Canonical
  <2>3. CASE record[baseline] # Absent /\ FormatCode(record[baseline]) # Uncaught
    <3>1. verdict' = BaselineError /\ FormatCode(record[baseline]) \in FormatCodes
      BY <1>6, <2>3 DEF ReadReference, Finish
    <3>2. Readable(baseline) /\ PairDefects(baseline) # {}
      BY <2>3, <3>1 DEF Readable, PairDefects
    <3>3. QED
      BY <1>3, <2>1, <3>1, <3>2
  <2>4. QED
    BY <2>2, <2>3
<1>7. CASE StatReferenceSidecar \/ ReadReferenceSidecar
  <2>1. /\ baseline \in Paths /\ data \in Canonical
        /\ reference \in Canonical /\ record[baseline] = reference
    BY <1>7 DEF StatReferenceSidecar, ReadReferenceSidecar, CallInv, QuietInv, BaselinePCs
  <2>2. Readable(baseline)
    BY <2>1, FileAssumption, OutcomesDiffer DEF Readable, Canonical
  <2>3. verify_hash_pair(reference, sidecar[baseline]) # Accepted
    BY <1>7, FailuresAreNotAccepted
       DEF StatReferenceSidecar, ReadReferenceSidecar, Finish, verify_hash_pair, Accepted,
           QuietInv
  <2>4. verdict' = BaselineError
    BY <1>7 DEF StatReferenceSidecar, ReadReferenceSidecar, Finish, QuietInv
  <2>5. PairDefects(baseline) # {}
    BY <2>1, <2>2, <2>3, DefectsAreAnswers
  <2>6. QED
    BY <1>3, <2>1, <2>2, <2>4, <2>5
<1>8. ASSUME ~ Uncompared, pc \in {"compare", "conclude"}
      PROVE  /\ baseline \in Paths /\ baseline # NoBaseline /\ data \in Canonical
             /\ record[baseline] = reference /\ Readable(baseline)
             /\ PairDefects(baseline) = {}
  <2>1. /\ baseline \in Paths /\ baseline # NoBaseline /\ data \in Canonical
        /\ reference \in Canonical
        /\ record[baseline] = reference /\ sidecar[baseline] = Sha256(reference)
    BY <1>8, <1>1 DEF TypeOK, FindingsInv, CallInv, QuietInv, Uncompared, BaselinePCs, Canonical
  <2>2. Readable(baseline)
    BY <2>1, FileAssumption, OutcomesDiffer DEF Readable, Canonical
  <2>3. verify_hash_pair(reference, sidecar[baseline]) = Accepted
    BY <2>1, DigestAssumption DEF verify_hash_pair, Canonical
  <2>4. QED
    BY <2>1, <2>2, <2>3, DefectsAreAnswers DEF Canonical
<1>9. CASE Compare
  <2>1. ~ Uncompared
    BY <1>9, CompareAssumption DEF Compare, CallInv, BaselinePCs, Uncompared, Canonical
  <2>2. CompareCode(data, reference) = Uncaught /\ verdict' = Aborted /\ pc = "compare"
    BY <1>9 DEF Compare, Finish
  <2>3. QED
    BY <1>1, <1>2, <1>8, <2>1, <2>2 DEF SnapshotVerdict, Canonical
<1>10. CASE Conclude
  <2>1. /\ pc = "conclude" /\ verdict' = primary(findings)
        /\ FormatCode(data) # Uncaught /\ Readable(target) /\ seen = sidecar[target]
    BY <1>1, <1>10 DEF Conclude, Finish, FindingsInv, QuietInv, Readable
  <2>2. PairDefects(target) = {FormatCode(data), hashAnswer} \ {Accepted}
    BY <1>1, <2>1, DefectsAreAnswers DEF TypeOK, hashAnswer
  <2>3. defects = findings
    <3>1. CASE Uncompared
      BY <1>1, <2>1, <2>2, <3>1 DEF FindingsInv, Uncompared
    <3>2. CASE ~ Uncompared
      <4>1. /\ compared /\ record[baseline] = reference /\ data \in Canonical
            /\ reference \in Canonical /\ CompareCode(data, reference) # Uncaught
            /\ findings = {hashAnswer, CompareCode(data, reference)} \ {Accepted}
        BY <1>1, <1>8, <2>1, <3>2 DEF FindingsInv, Canonical
      <4>2. difference = {CompareCode(data, reference)} \ {Accepted}
        BY <1>1, <4>1, CompareAssumption, OutcomesAreNoCodes DEF ActiveCodes
      <4>3. QED
        BY <2>2, <4>1, <4>2 DEF Canonical
    <3>3. QED
      BY <3>1, <3>2
  <2>4. IF defects = {} THEN verdict' = Accepted
        ELSE verdict' \in defects /\ \A d \in defects : PRECEDENCE[verdict'] <= PRECEDENCE[d]
    BY <2>1, <2>3, PrimaryIsACode DEF TypeOK, primary
  <2>5. compared =>
          /\ Readable(baseline) /\ PairDefects(baseline) = {}
          /\ CompareCode(record[target], record[baseline]) # Uncaught
    BY <1>1, <1>8, <2>1 DEF FindingsInv, Uncompared
  <2>6. QED
    BY <2>1, <2>4, <2>5 DEF SnapshotVerdict
<1>11. CASE StatSidecar
  BY <1>11 DEF StatSidecar
<1>12. QED
  BY <1>4, <1>5, <1>6, <1>7, <1>9, <1>10, <1>11 DEF AuditStep

\* What the call has read stays what the files hold.
LEMMA NextQuietInv ==
  TypeOK /\ CallInv /\ FindingsInv /\ QuietInv /\ [Next]_vars => QuietInv'
<1> SUFFICES ASSUME TypeOK, CallInv, FindingsInv, QuietInv, [Next]_vars, quiet'
             PROVE  QuietInv'
  BY DEF QuietInv
<1>1. ASSUME NEW p \in Paths, NEW b \in Paths \cup {NoBaseline}, StartAudit(p, b)
      PROVE  QuietInv'
  <2>1. pc' = "done" => ~ Readable(target)' /\ verdict' = Aborted
    BY <1>1 DEF StartAudit, Finish, Readable, storeVars
  <2>2. QuietAuditIsExact'
    BY <2>1 DEF QuietAuditIsExact, SnapshotVerdict
  <2>3. /\ pc' \in {"stat_sidecar", "done"} /\ target' = p /\ record' = record
        /\ (pc' = "stat_sidecar" => data' = record[p])
    BY <1>1 DEF StartAudit, Finish, storeVars
  <2>4. QED
    BY <2>2, <2>3 DEF QuietInv, BaselinePCs
<1>2. CASE AuditStep
  <2>1. UNCHANGED <<record, sidecar, target, baseline, data, quiet>>
    BY <1>2
       DEF AuditStep, StatSidecar, ReadSidecar, RunStages, ReadReference,
           StatReferenceSidecar, ReadReferenceSidecar, Compare, Conclude, storeVars,
           callVars, history
  <2>2. pc' = "done" => SnapshotVerdict(verdict')
    BY <1>2, <2>1, EndIsExact
  <2>3. QuietAuditIsExact'
    BY <2>1, <2>2 DEF QuietAuditIsExact, SnapshotVerdict, PairDefects, Readable
  <2>4. QED
    <3> USE <2>1, <2>3 DEF QuietInv, Uncompared, BaselinePCs, Finish
    <3>1. CASE StatSidecar
      BY <3>1 DEF StatSidecar, callVars, FindingsInv
    <3>2. CASE ReadSidecar
      BY <3>2 DEF ReadSidecar
    <3>3. CASE RunStages
      BY <3>3, OutcomesDiffer DEF RunStages
    <3>4. CASE ReadReference
      BY <3>4 DEF ReadReference
    <3>5. CASE StatReferenceSidecar
      BY <3>5 DEF StatReferenceSidecar
    <3>6. CASE ReadReferenceSidecar
      BY <3>6, HashAccepts DEF ReadReferenceSidecar
    <3>7. CASE Compare
      BY <3>7 DEF Compare
    <3>8. CASE Conclude
      BY <3>8 DEF Conclude
    <3>9. QED
      BY <1>2, <3>1, <3>2, <3>3, <3>4, <3>5, <3>6, <3>7, <3>8 DEF AuditStep
<1>3. CASE DiskStep
  <2>1. UNCHANGED <<record, sidecar, pc, callVars>> /\ quiet
    BY <1>3 DEF DiskStep, disk
  <2>2. QuietAuditIsExact'
    BY <2>1
       DEF QuietInv, QuietAuditIsExact, SnapshotVerdict, PairDefects, Readable, callVars
  <2>3. QED
    BY <2>1, <2>2 DEF QuietInv, Uncompared, callVars
<1>4. CASE UNCHANGED vars
  BY <1>4
     DEF vars, storeVars, callVars, history, QuietInv, Uncompared, QuietAuditIsExact,
         SnapshotVerdict, PairDefects, Readable
<1>5. QED
  BY <1>1, <1>2, <1>3, <1>4 DEF Next

\* On files that do not change during the call, the verdict of the audit, made
\* file by file and stage by stage, is the one the registry and audit-model.md
\* give for the files as they are.
THEOREM QuietIsExact == Spec => []QuietAuditIsExact
<1> DEFINE Inv == TypeOK /\ CallInv /\ FindingsInv /\ QuietInv
<1>1. Init => Inv
  BY InitTypeOK, InitCallInv
     DEF Init, FindingsInv, QuietInv, QuietAuditIsExact, BaselinePCs
<1>2. Inv /\ [Next]_vars => Inv'
  BY NextTypeOK, NextCallInv, NextFindingsInv, NextQuietInv
<1>3. Inv => QuietAuditIsExact
  BY DEF QuietInv, QuietAuditIsExact
<1>4. QED
  BY <1>1, <1>2, <1>3, PTL DEF Spec

(***************************************************************************)
(* The registry, as the contract sees it.                                  *)
(***************************************************************************)

\* The contract has the codes and outcomes of the audit.
LEMMA SameRegistry ==
  /\ Contract!FormatCodes = FormatCodes
  /\ Contract!HashCodes = HashCodes
  /\ Contract!BaselineCodes = BaselineCodes
  /\ Contract!ActiveCodes = ActiveCodes
  /\ Contract!Accepted = Accepted /\ Contract!Uncaught = Uncaught
  /\ Contract!BaselineError = BaselineError /\ Contract!Aborted = Aborted
BY DEF Contract!FormatCodes, Contract!HashCodes, Contract!BaselineCodes, Contract!ActiveCodes,
       Contract!FormatPrecedence, Contract!HashPrecedence, Contract!BaselinePrecedence,
       FormatCodes, HashCodes, BaselineCodes, ActiveCodes,
       FormatPrecedence, HashPrecedence, BaselinePrecedence,
       Contract!Accepted, Contract!Uncaught, Contract!BaselineError, Contract!Aborted,
       Accepted, Uncaught, BaselineError, Aborted

\* The contract reads a pair as the hash stage does.
LEMMA SameHashStage ==
  ASSUME NEW b, NEW s
  PROVE  Contract!HashCode(<<b, s>>) = verify_hash_pair(b, s)
BY SameRegistry DEF Contract!HashCode, verify_hash_pair

\* The three stages share no code.
LEMMA StagesAreDisjoint ==
  /\ FormatCodes \cap HashCodes = {}
  /\ FormatCodes \cap BaselineCodes = {}
  /\ HashCodes \cap BaselineCodes = {}
BY DEF FormatCodes, HashCodes, BaselineCodes, FormatPrecedence, HashPrecedence,
       BaselinePrecedence

\* A code of an earlier stage precedes every code of a later one.
LEMMA StagesPrecede ==
  /\ \A f \in FormatCodes, h \in HashCodes : PRECEDENCE[f] < PRECEDENCE[h]
  /\ \A h \in HashCodes, b \in BaselineCodes : PRECEDENCE[h] < PRECEDENCE[b]
<1>1. \A f \in FormatCodes : PRECEDENCE[f] = FormatPrecedence[f]
  BY DEF PRECEDENCE, ActiveCodes
<1>2. \A h \in HashCodes : PRECEDENCE[h] = HashPrecedence[h]
  BY StagesAreDisjoint DEF PRECEDENCE, ActiveCodes
<1>3. \A b \in BaselineCodes : PRECEDENCE[b] = BaselinePrecedence[b]
  BY StagesAreDisjoint DEF PRECEDENCE, ActiveCodes
<1>4. \A f \in FormatCodes : FormatPrecedence[f] \in Nat /\ FormatPrecedence[f] < 13
  BY DEF FormatCodes, FormatPrecedence
<1>5. \A h \in HashCodes :
        HashPrecedence[h] \in Nat /\ 12 < HashPrecedence[h] /\ HashPrecedence[h] < 16
  BY DEF HashCodes, HashPrecedence
<1>6. \A b \in BaselineCodes : BaselinePrecedence[b] \in Nat /\ 15 < BaselinePrecedence[b]
  BY DEF BaselineCodes, BaselinePrecedence
<1>7. \A f \in FormatCodes, h \in HashCodes : PRECEDENCE[f] < PRECEDENCE[h]
  BY <1>1, <1>2, <1>4, <1>5
<1>8. \A h \in HashCodes, b \in BaselineCodes : PRECEDENCE[h] < PRECEDENCE[b]
  BY <1>2, <1>3, <1>5, <1>6
<1>9. QED
  BY <1>7, <1>8

\* errors.primary picks the one code that precedes all others.
LEMMA PrimaryIsFirst ==
  ASSUME NEW codes \in SUBSET ActiveCodes, NEW c \in codes,
         \A d \in codes \ {c} : PRECEDENCE[c] < PRECEDENCE[d]
  PROVE  primary(codes) = c
<1>1. primary(codes) \in codes /\ PRECEDENCE[primary(codes)] <= PRECEDENCE[c]
  BY PrimaryIsACode
<1>2. primary(codes) # c => PRECEDENCE[c] < PRECEDENCE[primary(codes)]
  BY <1>1
<1>3. PRECEDENCE[c] \in Nat /\ PRECEDENCE[primary(codes)] \in Nat
  BY <1>1, PrecedenceIsNat
<1>4. QED
  BY <1>1, <1>2, <1>3

(***************************************************************************)
(* The inductive invariant.                                                *)
(***************************************************************************)

\* Two contents cannot both go with one digest: when a record changes next to
\* its sidecar, the pair before or the pair after the change is defective.
LEMMA ChangeIsDefect ==
  ASSUME NEW a \in Bytes, NEW b \in Bytes, a # b, NEW s
  PROVE  Contract!Defective(<<a, s>>) \/ Contract!Defective(<<b, s>>)
<1>1. ~ (s = Sha256(a) /\ s = Sha256(b))
  BY DigestAssumption
<1>2. verify_hash_pair(a, s) # Accepted \/ verify_hash_pair(b, s) # Accepted
  BY <1>1 DEF verify_hash_pair, Accepted
<1>3. QED
  BY <1>2, SameHashStage, SameRegistry DEF Contract!Defective

\* The generator removes no file, and it changes a record or a sidecar, never
\* both in one step.
LEMMA WriterSteps ==
  ASSUME TypeOK, Writer, NEW p \in Paths
  PROVE  /\ sidecar[p] # Absent => sidecar'[p] # Absent
         /\ record'[p] # record[p] => record'[p] \in Bytes /\ sidecar'[p] = sidecar[p]
BY FileAssumption, DigestAssumption
   DEF TypeOK, StoreTypeOK, Writer, OpenRecord, WriteRecord, OpenSidecar, WriteSidecar, Crash

\* What the hash stage says of the bytes that were read and of a sidecar read
\* later has a reason, whatever record lay next to that sidecar.
LEMMA LateSidecar ==
  ASSUME NEW r, NEW s, <<r, s>> \in pairs[target], verify_hash_pair(data, s) # Accepted
  PROVE  Contract!HashReason(verify_hash_pair(data, s))
<1>1. CASE verify_hash_pair(r, s) = verify_hash_pair(data, s)
  BY <1>1, SameHashStage DEF Contract!HashReason
<1>2. CASE verify_hash_pair(r, s) # verify_hash_pair(data, s)
  <2>1. r # data
    BY <1>2
  <2>2. verify_hash_pair(data, s) = "HASH_MISMATCH"
    BY <1>2 DEF verify_hash_pair
  <2>3. QED
    BY <2>1, <2>2 DEF Contract!HashReason
<1>3. QED
  BY <1>1, <1>2

\* A call that begins finds each pair as it is.
LEMMA StartReasonInv ==
  ASSUME NEW p \in Paths, NEW b \in Paths \cup {NoBaseline}, StartAudit(p, b),
         pairs' = [q \in Paths |-> {<<record[q], sidecar[q]>>}]
  PROVE  ReasonInv'
<1>1. UNCHANGED <<record, sidecar>> /\ pc' \in {"stat_sidecar", "done"}
  BY DEF StartAudit, Finish, storeVars
<1>2. \A q \in Paths : matched'[q] = MatchingPair(record, sidecar, q)
  BY DEF StartAudit
<1>3. \A q \in Paths : \A c \in matched'[q] : <<c, Sha256(c)>> = <<record[q], sidecar[q]>>
  BY <1>2 DEF MatchingPair
<1>4. QED
  BY <1>1, <1>3 DEF ReasonInv, BaselinePCs

\* A step of the audit looks at one pair, which is among the pairs.
LEMMA AuditReasonInv ==
  ASSUME TypeOK, CallInv, MatchedInv, FindingsInv, ReasonInv, AuditStep, UNCHANGED pairs
  PROVE  ReasonInv'
<1> USE DEF ReasonInv, hashAnswer, Uncompared, BaselinePCs, Finish, storeVars, history
<1>t. target \in Paths
  BY DEF TypeOK
<1>1. CASE StatSidecar
  <2>1. CASE sidecar[target] = Absent
    <3>1. verify_hash_pair(data, Absent) # Accepted
      BY DEF verify_hash_pair, Accepted
    <3>2. Contract!HashReason(verify_hash_pair(data, Absent))
      BY <1>t, <2>1, <3>1, LateSidecar
    <3>3. seen = Absent
      BY <1>1 DEF StatSidecar, FindingsInv
    <3>4. QED
      BY <1>1, <2>1, <3>2, <3>3 DEF StatSidecar, callVars, Contract!HashReason
  <2>2. CASE sidecar[target] # Absent
    BY <1>1, <2>2 DEF StatSidecar, callVars
  <2>3. QED
    BY <2>1, <2>2
<1>2. CASE ReadSidecar
  <2>1. verify_hash_pair(data, sidecar[target]) # Accepted
          => Contract!HashReason(verify_hash_pair(data, sidecar[target]))
    BY <1>t, LateSidecar
  <2>2. QED
    BY <1>2, <2>1 DEF ReadSidecar, Contract!HashReason
<1>3. CASE RunStages
  BY <1>3 DEF RunStages, Contract!HashReason
<1>4. CASE ReadReference
  BY <1>4 DEF ReadReference, Contract!HashReason
<1>5. CASE StatReferenceSidecar
  BY <1>5 DEF StatReferenceSidecar, Contract!HashReason, Contract!Defective
<1>6. CASE ReadReferenceSidecar
  BY <1>6 DEF ReadReferenceSidecar, Contract!HashReason
<1>7. CASE Compare
  BY <1>7 DEF Compare, Contract!HashReason, MatchedInv, Compared
<1>8. CASE Conclude
  BY <1>8 DEF Conclude
<1>9. QED
  BY <1>1, <1>2, <1>3, <1>4, <1>5, <1>6, <1>7, <1>8 DEF AuditStep

\* A change on disk adds pairs; when it takes the baseline away under the
\* call, one of them is defective.
LEMMA DiskReasonInv ==
  ASSUME TypeOK, CallInv, ReasonInv, DiskStep,
         pairs' = [p \in Paths |-> pairs[p] \cup {<<record'[p], sidecar'[p]>>}]
  PROVE  ReasonInv'
<1>1. \A p \in Paths : <<record'[p], sidecar'[p]>> \in pairs'[p] /\ pairs[p] \subseteq pairs'[p]
  OBVIOUS
<1>2. UNCHANGED <<pc, target, baseline, data, seen, reference>>
  BY DEF DiskStep, callVars
<1>3. target \in Paths /\ reference \in Bytes
  BY DEF TypeOK
<1>4. pc \in BaselinePCs => baseline \in Paths
  BY DEF CallInv
<1>5. \A p \in Paths : \A b \in matched'[p] : <<b, Sha256(b)>> \in pairs'[p]
  <2>1. \A p \in Paths : matched'[p] = matched[p] \cup MatchingPair(record', sidecar', p)
    BY DEF DiskStep
  <2>2. \A p \in Paths : \A b \in MatchingPair(record', sidecar', p) :
          <<b, Sha256(b)>> = <<record'[p], sidecar'[p]>>
    BY DEF MatchingPair
  <2>3. QED
    BY <1>1, <2>1, <2>2 DEF ReasonInv
<1>6. CASE disturbed'
  BY <1>1, <1>5, <1>6 DEF ReasonInv
<1>7. CASE ~ disturbed'
  <2>1. Writer /\ ~ disturbed
    BY <1>7 DEF DiskStep
  <2>2. pc = "read_sidecar" => sidecar'[target] # Absent
    BY <1>3, <2>1, WriterSteps DEF ReasonInv
  <2>3. pc = "read_reference_sidecar" => sidecar'[baseline] # Absent
    BY <1>4, <2>1, WriterSteps DEF ReasonInv, BaselinePCs
  <2>4. ASSUME pc \in BaselinePCs \cup {"stages", "conclude"}, hashAnswer # Accepted
        PROVE  Contract!HashReason(hashAnswer)'
    <3>1. Contract!HashReason(hashAnswer)
      BY <2>1, <2>4 DEF ReasonInv
    <3>2. QED
      BY <1>1, <1>2, <1>3, <3>1 DEF Contract!HashReason, hashAnswer
  <2>5. ASSUME pc \in {"stat_reference_sidecar", "read_reference_sidecar"},
               record'[baseline] # reference
        PROVE  \E pair \in pairs'[baseline] : Contract!Defective(pair)
    <3>1. baseline \in Paths
      BY <1>4, <2>5 DEF BaselinePCs
    <3>2. CASE record[baseline] = reference
      <4>1. /\ record'[baseline] \in Bytes
            /\ sidecar'[baseline] = sidecar[baseline]
        BY <2>1, <2>5, <3>1, <3>2, WriterSteps
      <4>2. \/ Contract!Defective(<<reference, sidecar[baseline]>>)
            \/ Contract!Defective(<<record'[baseline], sidecar[baseline]>>)
        BY <1>3, <2>5, <4>1, ChangeIsDefect
      <4>3. <<reference, sidecar[baseline]>> \in pairs'[baseline]
        BY <1>1, <3>1, <3>2 DEF ReasonInv
      <4>4. <<record'[baseline], sidecar[baseline]>> \in pairs'[baseline]
        BY <1>1, <3>1, <4>1
      <4>5. QED
        BY <4>2, <4>3, <4>4
    <3>3. CASE record[baseline] # reference
      BY <1>1, <2>1, <2>5, <3>1, <3>3 DEF ReasonInv
    <3>4. QED
      BY <3>2, <3>3
  <2>6. ASSUME pc = "conclude", ~ Uncompared
        PROVE  reference \in matched'[baseline]
    <3>1. baseline \in Paths
      BY <2>6 DEF Uncompared, TypeOK
    <3>2. QED
      BY <2>1, <2>6, <3>1 DEF ReasonInv, DiskStep
  <2>7. hashAnswer' = hashAnswer /\ Uncompared' = Uncompared
    BY <1>2 DEF hashAnswer, Uncompared
  <2>8. QED
    BY <1>1, <1>2, <1>5, <2>2, <2>3, <2>4, <2>5, <2>6, <2>7
       DEF ReasonInv, Contract!Defective, Contract!HashReason
<1>8. QED
  BY <1>6, <1>7

\* Every step of the history specification keeps the invariant.
LEMMA NextHistoryInv == HistoryInv /\ [HistoryNext]_historyVars => HistoryInv'
<1> SUFFICES ASSUME HistoryInv, [HistoryNext]_historyVars PROVE HistoryInv'
  OBVIOUS
<1> USE DEF HistoryInv, IInv
<1>1. [Next]_vars
  BY DEF HistoryNext, historyVars, Next
<1>2. IInv' /\ FindingsInv'
  BY <1>1, NextTypeOK, NextCallInv, NextPublishedInv, NextMatchedInv, NextFindingsInv
<1>3. ReasonInv'
  <2>1. ASSUME NEW p \in Paths, NEW b \in Paths \cup {NoBaseline}, StartAudit(p, b),
               pairs' = [q \in Paths |-> {<<record[q], sidecar[q]>>}]
        PROVE  ReasonInv'
    BY <2>1, StartReasonInv
  <2>2. CASE AuditStep /\ UNCHANGED pairs
    BY <2>2, AuditReasonInv
  <2>3. CASE DiskStep /\ pairs' = [p \in Paths |-> pairs[p] \cup {<<record'[p], sidecar'[p]>>}]
    BY <2>3, DiskReasonInv
  <2>4. CASE UNCHANGED historyVars
    BY <2>4 DEF ReasonInv, historyVars, vars, storeVars, callVars, history, hashAnswer,
                Uncompared, Contract!HashReason, Contract!Defective
  <2>5. QED
    BY <2>1, <2>2, <2>3, <2>4 DEF HistoryNext
<1>4. QED
  BY <1>2, <1>3

\* The pairs begin as they are on disk.
LEMMA InitHistoryInv == HistoryInit => HistoryInv
<1> SUFFICES ASSUME HistoryInit PROVE HistoryInv
  OBVIOUS
<1>1. Init /\ pc = "idle"
  BY DEF HistoryInit, Init
<1>2. IInv
  BY <1>1, InitTypeOK, InitCallInv, InitPublishedInv, InitMatchedInv DEF IInv
<1>3. \A p \in Paths : pairs[p] = {<<record[p], sidecar[p]>>}
  BY DEF HistoryInit
<1>4. \A p \in Paths : \A b \in matched[p] : <<b, Sha256(b)>> = <<record[p], sidecar[p]>>
  BY <1>1 DEF Init, MatchingPair
<1>5. ReasonInv /\ FindingsInv
  BY <1>1, <1>3, <1>4 DEF ReasonInv, FindingsInv, BaselinePCs
<1>6. QED
  BY <1>2, <1>5 DEF HistoryInv

(***************************************************************************)
(* The refinement.                                                         *)
(***************************************************************************)

\* A call begins in one step of the contract.
LEMMA StartIsCall ==
  ASSUME NEW p \in Paths, NEW b \in Paths \cup {NoBaseline}, StartAudit(p, b),
         pairs' = [q \in Paths |-> {<<record[q], sidecar[q]>>}]
  PROVE  Contract!Call(p, b)
BY DEF StartAudit, Finish, storeVars, Contract!Call, Contract!Aborted, Aborted

\* What happens to the files is a change of the contract's files.
LEMMA DiskIsChange ==
  ASSUME DiskStep,
         pairs' = [p \in Paths |-> pairs[p] \cup {<<record'[p], sidecar'[p]>>}]
  PROVE  Contract!Change
BY DEF DiskStep, callVars, Contract!Change

\* A step that does not end the call shows nothing of itself.
LEMMA MiddleStutters ==
  ASSUME AuditStep, UNCHANGED pairs, pc' # "done"
  PROVE  UNCHANGED Contract!vars
<1>1. /\ pc \notin {"idle", "done"} /\ pc' \notin {"idle", "done"}
      /\ UNCHANGED <<record, sidecar, target, baseline, data, disturbed, verdict>>
  BY DEF AuditStep, StatSidecar, ReadSidecar, RunStages, ReadReference, StatReferenceSidecar,
         ReadReferenceSidecar, Compare, Conclude, Finish, callVars, history, storeVars
<1>2. QED
  BY <1>1 DEF Contract!vars

\* A last step with a justified verdict is an answer of the contract.
LEMMA EndIsReturn ==
  ASSUME TypeOK', AuditStep, UNCHANGED pairs, pc' = "done",
         Contract!JudgesFirst(verdict'), disturbed \/ Contract!Justified(verdict')
  PROVE  Contract!Next
<1>1. /\ pc \notin {"idle", "done"}
      /\ UNCHANGED <<record, sidecar, target, baseline, data, disturbed>>
  BY DEF AuditStep, StatSidecar, ReadSidecar, RunStages, ReadReference, StatReferenceSidecar,
         ReadReferenceSidecar, Compare, Conclude, Finish, callVars, history, storeVars
<1>2. Contract!Return(verdict')
  BY <1>1 DEF Contract!Return
<1>3. verdict' \in Contract!ActiveCodes
                     \cup {Contract!Accepted, Contract!BaselineError, Contract!Aborted}
  BY SameRegistry DEF TypeOK, Verdicts
<1>4. QED
  BY <1>2, <1>3 DEF Contract!Next

\* Giving up judges nothing, and a bad baseline judges no record.
LEMMA FailuresJudgeFirst ==
  /\ Contract!JudgesFirst(Aborted)
  /\ baseline # NoBaseline /\ FormatCode(data) = Accepted => Contract!JudgesFirst(BaselineError)
<1>1. Accepted \notin FormatCodes /\ Aborted # Accepted /\ BaselineError # Accepted
  BY OutcomesAreNoCodes DEF ActiveCodes, Aborted, BaselineError, Accepted
<1>2. {Aborted, BaselineError} \cap (FormatCodes \cup BaselineCodes) = {} /\ Aborted # BaselineError
  BY OutcomesAreNoCodes DEF ActiveCodes, Aborted, BaselineError
<1>3. QED
  BY <1>1, <1>2, SameRegistry DEF Contract!JudgesFirst

\* What was matched is sound.
LEMMA MatchedIsSound ==
  ASSUME ReasonInv, NEW p \in Paths, NEW b \in Canonical, b \in matched[p]
  PROVE  b \in Contract!Sound(p)
BY SameRegistry DEF ReasonInv, Contract!Sound, Canonical

\* A call without a comparison answers with its one finding, or with the
\* format code when the hash stage found something as well.
LEMMA ConcludeUncompared ==
  ASSUME HistoryInv, Conclude, Uncompared
  PROVE  Contract!JudgesFirst(verdict') /\ (disturbed \/ Contract!Justified(verdict'))
<1>1. /\ findings = {FormatCode(data), hashAnswer} \ {Accepted}
      /\ FormatCode(data) # Uncaught
      /\ findings \in SUBSET ActiveCodes
      /\ target \in Paths /\ data \in Bytes
      /\ verdict' = primary(findings)
  BY DEF HistoryInv, IInv, FindingsInv, TypeOK, Conclude, Finish
<1>2. FormatCode(data) \in FormatCodes \cup {Accepted}
  BY <1>1, FileAssumption
<1>3. hashAnswer \in HashCodes \cup {Accepted}
  BY HashAnswers DEF hashAnswer
<1>4. Accepted \notin ActiveCodes
  BY OutcomesAreNoCodes
<1>5. CASE FormatCode(data) \in FormatCodes
  <2>1. FormatCode(data) \in findings
    BY <1>1, <1>4, <1>5 DEF ActiveCodes
  <2>2. \A d \in findings \ {FormatCode(data)} : PRECEDENCE[FormatCode(data)] < PRECEDENCE[d]
    BY <1>1, <1>3, <1>5, StagesPrecede
  <2>3. verdict' = FormatCode(data)
    BY <1>1, <2>1, <2>2, PrimaryIsFirst
  <2>4. FormatCode(data) \notin BaselineCodes \cup {BaselineError}
    BY <1>5, StagesAreDisjoint, OutcomesAreNoCodes DEF ActiveCodes
  <2>5. QED
    BY <1>5, <2>3, <2>4, SameRegistry DEF Contract!JudgesFirst, Contract!Justified
<1>6. CASE FormatCode(data) = Accepted
  <2>1. baseline = NoBaseline /\ findings = {hashAnswer} \ {Accepted}
    BY <1>1, <1>6 DEF Uncompared
  <2>2. CASE hashAnswer = Accepted
    <3>1. verdict' = Accepted
      BY <1>1, <2>1, <2>2 DEF primary
    <3>2. seen = Sha256(data)
      BY <2>2, HashAccepts DEF hashAnswer
    <3>3. ~ disturbed => data \in Contract!Sound(target)
      BY <1>1, <1>6, <3>2, MatchedIsSound DEF HistoryInv, IInv, MatchedInv, Canonical
    <3>4. Accepted \notin FormatCodes \cup BaselineCodes /\ Accepted # BaselineError
      BY <1>4 DEF ActiveCodes, Accepted, BaselineError
    <3>5. QED
      BY <1>6, <2>1, <3>1, <3>3, <3>4, SameRegistry
         DEF Contract!JudgesFirst, Contract!Justified
  <2>3. CASE hashAnswer \in HashCodes
    <3>1. findings = {hashAnswer}
      BY <1>4, <2>1, <2>3 DEF ActiveCodes
    <3>2. verdict' = hashAnswer
      BY <1>1, <3>1, PrimaryIsFirst
    <3>3. ~ disturbed => Contract!HashReason(hashAnswer)
      BY <1>4, <2>3 DEF HistoryInv, ReasonInv, Conclude, ActiveCodes
    <3>4. hashAnswer \notin FormatCodes \cup BaselineCodes \cup {Accepted, BaselineError}
      BY <2>3, StagesAreDisjoint, OutcomesAreNoCodes DEF ActiveCodes
    <3>5. Accepted \notin FormatCodes
      BY <1>4 DEF ActiveCodes
    <3>6. QED
      BY <1>6, <2>1, <2>3, <3>2, <3>3, <3>4, <3>5, SameRegistry
         DEF Contract!JudgesFirst, Contract!Justified
  <2>4. QED
    BY <1>3, <2>2, <2>3
<1>7. QED
  BY <1>2, <1>5, <1>6

\* After a comparison a finding of the hash stage comes before the difference.
LEMMA ConcludeCompared ==
  ASSUME HistoryInv, Conclude, ~ Uncompared
  PROVE  Contract!JudgesFirst(verdict') /\ (disturbed \/ Contract!Justified(verdict'))
<1> DEFINE difference == CompareCode(data, reference)
<1>1. /\ findings = {hashAnswer, difference} \ {Accepted}
      /\ difference # Uncaught
      /\ reference \in Canonical
      /\ findings \in SUBSET ActiveCodes
      /\ target \in Paths /\ data \in Bytes /\ baseline \in Paths \cup {NoBaseline}
      /\ verdict' = primary(findings)
  BY DEF HistoryInv, IInv, FindingsInv, TypeOK, Conclude, Finish
<1>2. FormatCode(data) = Accepted /\ baseline # NoBaseline /\ baseline \in Paths
  BY <1>1 DEF Uncompared
<1>3. difference \in BaselineCodes \cup {Accepted}
  BY <1>1, <1>2, CompareAssumption DEF Canonical
<1>4. hashAnswer \in HashCodes \cup {Accepted}
  BY HashAnswers DEF hashAnswer
<1>5. Accepted \notin ActiveCodes
  BY OutcomesAreNoCodes
<1>6. ~ disturbed => reference \in Contract!Sound(baseline)
  BY <1>1, <1>2, MatchedIsSound DEF HistoryInv, ReasonInv, Conclude
<1> HIDE DEF difference
<1>7. CASE hashAnswer \in HashCodes
  <2>1. hashAnswer \in findings
    BY <1>1, <1>5, <1>7 DEF ActiveCodes
  <2>2. \A d \in findings \ {hashAnswer} : PRECEDENCE[hashAnswer] < PRECEDENCE[d]
    BY <1>1, <1>3, <1>7, StagesPrecede
  <2>3. verdict' = hashAnswer
    BY <1>1, <2>1, <2>2, PrimaryIsFirst
  <2>4. ~ disturbed => Contract!HashReason(hashAnswer)
    BY <1>5, <1>7 DEF HistoryInv, ReasonInv, Conclude, ActiveCodes
  <2>5. hashAnswer \notin FormatCodes \cup BaselineCodes \cup {Accepted, BaselineError}
    BY <1>7, StagesAreDisjoint, OutcomesAreNoCodes DEF ActiveCodes
  <2>6. Accepted \notin FormatCodes
    BY <1>5 DEF ActiveCodes
  <2>7. QED
    BY <1>2, <1>6, <1>7, <2>3, <2>4, <2>5, <2>6, SameRegistry
       DEF Contract!JudgesFirst, Contract!Justified
<1>8. CASE hashAnswer = Accepted
  <2>1. verdict' = difference
    <3>1. CASE difference = Accepted
      BY <1>1, <1>8, <3>1 DEF primary
    <3>2. CASE difference \in BaselineCodes
      <4>1. findings = {difference}
        BY <1>1, <1>5, <1>8, <3>2 DEF ActiveCodes
      <4>2. QED
        BY <1>1, <4>1, PrimaryIsFirst
    <3>3. QED
      BY <1>3, <3>1, <3>2
  <2>2. seen = Sha256(data)
    BY <1>8, HashAccepts DEF hashAnswer
  <2>3. ~ disturbed => data \in Contract!Sound(target)
    BY <1>1, <1>2, <2>2, MatchedIsSound DEF HistoryInv, IInv, MatchedInv, Canonical
  <2>4. difference \notin FormatCodes /\ difference # BaselineError /\ Accepted \notin FormatCodes
    BY <1>3, <1>5, StagesAreDisjoint, OutcomesAreNoCodes DEF ActiveCodes, Accepted, BaselineError
  <2>5. ~ disturbed =>
          \E b \in Contract!Sound(baseline) : Contract!ComparedTo(b) = difference
    BY <1>6 DEF Contract!ComparedTo, difference
  <2>6. QED
    BY <1>2, <1>3, <2>1, <2>3, <2>4, <2>5, SameRegistry
       DEF Contract!JudgesFirst, Contract!Justified
<1>9. QED
  BY <1>4, <1>7, <1>8

\* However a call ends, its verdict has a reason.
LEMMA EndIsJustified ==
  ASSUME HistoryInv, AuditStep, pc' = "done"
  PROVE  Contract!JudgesFirst(verdict') /\ (disturbed \/ Contract!Justified(verdict'))
<1> USE FailuresJudgeFirst DEF HistoryInv, IInv
<1>b. pc \in BaselinePCs =>
        FormatCode(data) = Accepted /\ baseline \in Paths /\ baseline # NoBaseline
  BY CompareAssumption DEF CallInv, Canonical
<1>1. CASE StatSidecar
  BY <1>1 DEF StatSidecar
<1>2. CASE ReadSidecar
  BY <1>2 DEF ReadSidecar, Finish, ReasonInv
<1>3. CASE RunStages
  BY <1>3, SameRegistry DEF RunStages, Finish, Contract!Justified
<1>4. CASE ReadReference
  <2>1. pc \in BaselinePCs /\ <<record[baseline], sidecar[baseline]>> \in pairs[baseline]
    BY <1>4, <1>b DEF ReadReference, BaselinePCs, ReasonInv
  <2>2. \/ /\ verdict' = Aborted
           /\ Contract!Unreadable(<<record[baseline], sidecar[baseline]>>)
        \/ /\ verdict' = BaselineError
           /\ Contract!Defective(<<record[baseline], sidecar[baseline]>>)
    BY <1>4, SameRegistry
       DEF ReadReference, Finish, Contract!Unreadable, Contract!Defective
  <2>3. QED
    BY <1>b, <2>1, <2>2, SameRegistry DEF Contract!Justified
<1>5. CASE StatReferenceSidecar
  <2>1. /\ pc \in BaselinePCs /\ <<record[baseline], sidecar[baseline]>> \in pairs[baseline]
        /\ sidecar[baseline] = Absent /\ verdict' = BaselineError
    BY <1>5, <1>b DEF StatReferenceSidecar, Finish, BaselinePCs, ReasonInv
  <2>2. Contract!Defective(<<record[baseline], sidecar[baseline]>>)
    BY <2>1, SameRegistry DEF Contract!Defective, Contract!HashCode, Accepted
  <2>3. QED
    BY <1>b, <2>1, <2>2, SameRegistry DEF Contract!Justified
<1>6. CASE ReadReferenceSidecar
  <2>1. pc \in BaselinePCs /\ <<record[baseline], sidecar[baseline]>> \in pairs[baseline]
    BY <1>6, <1>b DEF ReadReferenceSidecar, BaselinePCs, ReasonInv
  <2>2. CASE sidecar[baseline] = Absent
    BY <1>6, <1>b, <2>2 DEF ReadReferenceSidecar, Finish, ReasonInv
  <2>3. CASE sidecar[baseline] # Absent
    <3>1. /\ verdict' = BaselineError
          /\ verify_hash_pair(reference, sidecar[baseline]) # Accepted
      BY <1>6, <2>3 DEF ReadReferenceSidecar, Finish
    <3>2. record[baseline] = reference
            => Contract!Defective(<<record[baseline], sidecar[baseline]>>)
      BY <3>1, SameHashStage, SameRegistry DEF Contract!Defective
    <3>3. ~ disturbed => \E pair \in pairs[baseline] : Contract!Defective(pair)
      BY <1>6, <2>1, <3>2 DEF ReadReferenceSidecar, ReasonInv
    <3>4. QED
      BY <1>b, <2>1, <3>1, <3>3, SameRegistry DEF Contract!Justified
  <2>4. QED
    BY <2>2, <2>3
<1>7. CASE Compare
  <2>1. /\ pc \in BaselinePCs /\ verdict' = Aborted
        /\ CompareCode(data, reference) = Uncaught
    BY <1>7 DEF Compare, Finish, BaselinePCs
  <2>2. ~ disturbed => reference \in Contract!Sound(baseline)
    BY <1>7, <1>b, <2>1, MatchedIsSound DEF Compare, CallInv, MatchedInv, Compared, BaselinePCs
  <2>3. QED
    BY <1>b, <2>1, <2>2, SameRegistry DEF Contract!Justified, Contract!ComparedTo
<1>8. CASE Conclude
  BY <1>8, ConcludeCompared, ConcludeUncompared
<1>9. QED
  BY <1>1, <1>2, <1>3, <1>4, <1>5, <1>6, <1>7, <1>8 DEF AuditStep

\* In every state of every call the steps still to come have their reasons: the
\* files as they are now are among those the call has seen, the pairs it
\* matched were once on disk together, and a digest that was found missing or
\* wrong was so, while only the generator writes.
THEOREM ReasonsAreKept == HistorySpec => []HistoryInv
BY InitHistoryInv, NextHistoryInv, PTL DEF HistorySpec

\* audit_record, file access by file access, implements its contract: while
\* only the generator writes, every verdict and every exception has its reason
\* in what one path held as a pair at one instant of the call, and whoever
\* writes, the verdict is about the bytes the call began with.
THEOREM ContractKept == HistorySpec => KeepsContract
<1>1. HistoryInit => Contract!Init
  BY DEF HistoryInit, Init, Contract!Init, Contract!Aborted, Aborted
<1>2. HistoryInv /\ [HistoryNext]_historyVars => [Contract!Next]_Contract!vars
  <2> SUFFICES ASSUME HistoryInv, [HistoryNext]_historyVars
               PROVE  [Contract!Next]_Contract!vars
    OBVIOUS
  <2>1. ASSUME NEW p \in Paths, NEW b \in Paths \cup {NoBaseline}, StartAudit(p, b),
               pairs' = [q \in Paths |-> {<<record[q], sidecar[q]>>}]
        PROVE  Contract!Next
    BY <2>1, StartIsCall DEF Contract!Next
  <2>2. CASE AuditStep /\ UNCHANGED pairs
    <3>1. TypeOK'
      BY <2>2, NextTypeOK DEF HistoryInv, IInv, Next
    <3>2. CASE pc' = "done"
      BY <2>2, <3>1, <3>2, EndIsJustified, EndIsReturn
    <3>3. CASE pc' # "done"
      BY <2>2, <3>3, MiddleStutters
    <3>4. QED
      BY <3>2, <3>3
  <2>3. CASE DiskStep /\ pairs' = [p \in Paths |-> pairs[p] \cup {<<record'[p], sidecar'[p]>>}]
    BY <2>3, DiskIsChange DEF Contract!Next
  <2>4. CASE UNCHANGED historyVars
    BY <2>4 DEF historyVars, vars, storeVars, callVars, history, Contract!vars
  <2>5. QED
    BY <2>1, <2>2, <2>3, <2>4 DEF HistoryNext
<1>3. QED
  BY <1>1, <1>2, ReasonsAreKept, PTL DEF HistorySpec, KeepsContract, Contract!Safety
===========================================================================
