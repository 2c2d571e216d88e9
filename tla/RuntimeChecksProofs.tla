------------------------ MODULE RuntimeChecksProofs ------------------------
(***************************************************************************)
(* Proofs about check_example, for streams of any length, and about        *)
(* run_checks over a whole repository, whatever its contract lists.        *)
(***************************************************************************)
EXTENDS RuntimeChecks, SequenceTheorems, TLAPS

Clean(n) == RecordErrors(records[n], n) = {}

\* What check_example knows of the records before a failure is recorded.
RecordsInv ==
  errors = {} =>
    /\ phase = "records" => \A n \in 1..(i - 1) : Clean(n)
    /\ phase \in {"ordering", "ids", "lengths", "passthrough", "done"} =>
         \A n \in 1..Len(records) : Clean(n)

\* The neighbours compared so far are in order, and so are all pairs of them.
OrderingInv ==
  errors = {} =>
    /\ phase = "ordering" =>
         \A m \in 1..(i - 1) : \A j \in 1..(m - 1) : InOrder(j, m)
    /\ phase \in {"ids", "lengths", "passthrough", "done"} /\ doc.stream =>
         \A m \in 1..Len(records) : \A j \in 1..(m - 1) : InOrder(j, m)
    /\ phase \in {"lengths", "passthrough", "done"} /\ doc.stream =>
         \A j, m \in 1..Len(records) : j # m => records[j].id # records[m].id

\* The submissions compared so far are those of the records beside them.
PassthroughInv ==
  errors = {} =>
    /\ phase \in {"passthrough", "done"} /\ submissions # <<>> =>
         Len(submissions) = Len(records)
    /\ phase = "passthrough" =>
         \A n \in 1..(i - 1) : Zipped(n) =>
           PassthroughErrors(submissions[n], records[n], n) = {}
    /\ phase = "done" =>
         \A n \in 1..Len(records) : Zipped(n) =>
           PassthroughErrors(submissions[n], records[n], n) = {}

\* The index stays on the records, and only a single record skips to its submission.
IndexInv ==
  /\ doc \in Docs
  /\ phase \in {"envelope", "records", "ordering", "ids", "lengths", "passthrough", "done"}
  /\ i \in 1..(Len(records) + 1)
  /\ phase = "envelope" => errors = {}
  /\ phase \in {"ordering", "ids", "lengths"} => doc.stream
  /\ phase = "ordering" => i >= 2

(***************************************************************************)
(* Lemmas on the operators.                                                *)
(***************************************************************************)

\* What DocsAssumption says of the example that is being checked.
LEMMA DocFacts ==
  ASSUME doc \in Docs
  PROVE  /\ records \in Seq(Record) /\ Len(records) \in Nat /\ Len(records) >= 1
         /\ submissions \in Seq(Submission) /\ Len(submissions) \in Nat
         /\ ~ doc.stream => Len(records) = 1 /\ Len(submissions) <= 1
         /\ \A n \in 1..Len(records) : records[n] \in Record
         /\ doc.stream \in BOOLEAN /\ doc.envelope \in BOOLEAN
BY DocsAssumption DEF records, submissions

\* A record without errors has three instants in the order event, observation,
\* record: the timestamp comparisons of check_ordering are defined on it.
LEMMA CleanRecord ==
  ASSUME NEW r \in Record, NEW n, RecordErrors(r, n) = {}
  PROVE  /\ Unparsable \notin {r.occurred, r.observed, r.timestamp}
         /\ r.occurred \in Int /\ r.observed \in Int /\ r.timestamp \in Int
         /\ r.occurred <= r.observed /\ r.observed <= r.timestamp
<1>1. r.schema
  BY DEF RecordErrors
<1>2. Unparsable \notin {r.occurred, r.observed, r.timestamp}
  BY <1>1 DEF RecordErrors
<1>3. r.occurred <= r.observed
  BY <1>1, <1>2 DEF RecordErrors
<1>4. r.observed <= r.timestamp
  BY <1>1, <1>2 DEF RecordErrors
<1>5. QED
  BY <1>2, <1>3, <1>4 DEF Record

\* check_ordering finds nothing between two neighbours.
LEMMA PairInOrder ==
  ASSUME NEW a \in Record, NEW b \in Record, NEW n,
         a.occurred \in Int, b.occurred \in Int,
         a.timestamp \in Int, b.timestamp \in Int,
         PairErrors(a, b, n) = {}
  PROVE  a.sequence < b.sequence /\ a.occurred <= b.occurred /\ a.timestamp <= b.timestamp
<1>1. b.sequence > a.sequence
  BY DEF PairErrors
<1>2. ~ (b.occurred < a.occurred)
  BY DEF PairErrors
<1>3. ~ (b.timestamp < a.timestamp)
  BY DEF PairErrors
<1>4. a.sequence \in Int /\ b.sequence \in Int
  BY DEF Record
<1>5. QED
  BY <1>1, <1>2, <1>3, <1>4

\* Each step of check_example works on the example it was called with.
LEMMA DocStays ==
  [ValidatorNext]_validatorVars => doc' = doc
BY DEF ValidatorNext, validatorVars, CheckEnvelope, CheckRecord, RecordsChecked, CheckPair,
       PairsChecked, CheckIds, CheckLengths, CheckPassthrough, PassthroughChecked, Goto

(***************************************************************************)
(* The inductive invariant.                                                *)
(***************************************************************************)

ValidatorInv == IndexInv /\ RecordsInv /\ OrderingInv /\ PassthroughInv

\* check_example starts before its first check.
LEMMA InitValidatorInv == ValidatorInit => ValidatorInv
<1> SUFFICES ASSUME ValidatorInit PROVE ValidatorInv
  OBVIOUS
<1>1. IndexInv
  BY DocFacts DEF ValidatorInit, IndexInv
<1>2. phase = "envelope"
  BY DEF ValidatorInit
<1>3. QED
  BY <1>1, <1>2 DEF ValidatorInv, RecordsInv, OrderingInv, PassthroughInv

\* The index stays on the records whatever part of check_example runs.
LEMMA NextIndexInv == IndexInv /\ [ValidatorNext]_validatorVars => IndexInv'
<1> SUFFICES ASSUME IndexInv, [ValidatorNext]_validatorVars PROVE IndexInv'
  OBVIOUS
<1>1. doc' = doc /\ records' = records /\ submissions' = submissions
  BY DocStays DEF records, submissions
<1>2. doc \in Docs /\ Len(records) \in Nat /\ Len(records) >= 1
  BY DocFacts DEF IndexInv
<1> USE <1>1, <1>2
<1>3. CASE CheckEnvelope
  BY <1>3 DEF CheckEnvelope, Goto, IndexInv
<1>4. CASE CheckRecord
  BY <1>4 DEF CheckRecord, Goto, IndexInv
<1>5. CASE RecordsChecked
  BY <1>5 DEF RecordsChecked, Goto, IndexInv
<1>6. CASE CheckPair
  BY <1>6 DEF CheckPair, Goto, IndexInv
<1>7. CASE PairsChecked
  BY <1>7 DEF PairsChecked, Goto, IndexInv
<1>8. CASE CheckIds
  BY <1>8 DEF CheckIds, Goto, IndexInv
<1>9. CASE CheckLengths
  BY <1>9 DEF CheckLengths, Goto, IndexInv
<1>10. CASE CheckPassthrough
  BY <1>10 DEF CheckPassthrough, Zipped, Goto, IndexInv
<1>11. CASE PassthroughChecked
  BY <1>11 DEF PassthroughChecked, Goto, IndexInv
<1>12. CASE UNCHANGED validatorVars
  BY <1>12 DEF validatorVars, IndexInv
<1>13. QED
  BY <1>3, <1>4, <1>5, <1>6, <1>7, <1>8, <1>9, <1>10, <1>11, <1>12 DEF ValidatorNext

\* The errors grow and are never dropped: none now means none before.
LEMMA ErrorsGrow ==
  ASSUME [ValidatorNext]_validatorVars, phase # "envelope", errors' = {}
  PROVE  errors = {}
BY DEF ValidatorNext, validatorVars, CheckEnvelope, CheckRecord, RecordsChecked, CheckPair,
       PairsChecked, CheckIds, CheckLengths, CheckPassthrough, PassthroughChecked, Goto

\* Every record compared with a neighbour or a submission has passed check_record.
LEMMA NextRecordsInv ==
  IndexInv /\ RecordsInv /\ [ValidatorNext]_validatorVars => RecordsInv'
<1> SUFFICES ASSUME IndexInv, RecordsInv, [ValidatorNext]_validatorVars
             PROVE  RecordsInv'
  OBVIOUS
<1>a. doc' = doc /\ records' = records
  BY DocStays DEF records
<1>b. \A n : Clean(n)' <=> Clean(n)
  BY <1>a DEF Clean
<1> SUFFICES ASSUME errors' = {}
             PROVE  /\ phase' = "records" => \A n \in 1..(i' - 1) : Clean(n)
                    /\ phase' \in {"ordering", "ids", "lengths", "passthrough", "done"} =>
                         \A n \in 1..Len(records) : Clean(n)
  BY <1>a, <1>b DEF RecordsInv
<1>1. errors = {}
  BY ErrorsGrow DEF IndexInv
<1>2. Len(records) \in Nat /\ i \in Nat
  BY DocFacts DEF IndexInv
<1>3. CASE CheckEnvelope
  <2>1. phase' = "records" /\ i' = 1
    BY <1>3 DEF CheckEnvelope, Goto
  <2>2. \A n \in 1..(i' - 1) : FALSE
    BY <2>1
  <2>3. QED
    BY <2>1, <2>2
<1>4. CASE CheckRecord
  <2>1. phase' = "records" /\ i' = i + 1 /\ phase = "records"
    BY <1>4 DEF CheckRecord, Goto
  <2>2. Clean(i)
    BY <1>4 DEF CheckRecord, Clean
  <2>3. \A n \in 1..(i - 1) : Clean(n)
    BY <1>1, <2>1 DEF RecordsInv
  <2>4. \A n \in 1..(i' - 1) : n = i \/ n \in 1..(i - 1)
    BY <2>1, <1>2
  <2>5. QED
    BY <2>1, <2>2, <2>3, <2>4
<1>5. CASE RecordsChecked
  <2>1. phase = "records" /\ i > Len(records) /\ phase' # "records"
    BY <1>5 DEF RecordsChecked, Goto
  <2>2. \A n \in 1..Len(records) : n \in 1..(i - 1)
    BY <2>1, <1>2
  <2>3. QED
    BY <1>1, <2>1, <2>2 DEF RecordsInv
<1>6. CASE CheckPair
  BY <1>1, <1>6 DEF CheckPair, Goto, RecordsInv
<1>7. CASE PairsChecked
  BY <1>1, <1>7 DEF PairsChecked, Goto, RecordsInv
<1>8. CASE CheckIds
  BY <1>1, <1>8 DEF CheckIds, Goto, RecordsInv
<1>9. CASE CheckLengths
  BY <1>1, <1>9 DEF CheckLengths, Goto, RecordsInv
<1>10. CASE CheckPassthrough
  BY <1>1, <1>10 DEF CheckPassthrough, Goto, RecordsInv
<1>11. CASE PassthroughChecked
  BY <1>1, <1>11 DEF PassthroughChecked, Goto, RecordsInv
<1>12. CASE UNCHANGED validatorVars
  BY <1>1, <1>12 DEF validatorVars, RecordsInv
<1>13. QED
  BY <1>3, <1>4, <1>5, <1>6, <1>7, <1>8, <1>9, <1>10, <1>11, <1>12 DEF ValidatorNext

\* Comparing one more neighbour puts it in order with all records before it.
LEMMA NextOrderingInv ==
  IndexInv /\ RecordsInv /\ OrderingInv /\ [ValidatorNext]_validatorVars => OrderingInv'
<1> SUFFICES ASSUME IndexInv, RecordsInv, OrderingInv, [ValidatorNext]_validatorVars
             PROVE  OrderingInv'
  OBVIOUS
<1>a. doc' = doc /\ records' = records
  BY DocStays DEF records
<1>b. \A j, m : InOrder(j, m)' <=> InOrder(j, m)
  BY <1>a DEF InOrder, Ordered
<1> SUFFICES ASSUME errors' = {}
             PROVE  /\ phase' = "ordering" =>
                         \A m \in 1..(i' - 1) : \A j \in 1..(m - 1) : InOrder(j, m)
                    /\ phase' \in {"ids", "lengths", "passthrough", "done"} /\ doc.stream =>
                         \A m \in 1..Len(records) : \A j \in 1..(m - 1) : InOrder(j, m)
                    /\ phase' \in {"lengths", "passthrough", "done"} /\ doc.stream =>
                         \A j, m \in 1..Len(records) :
                           j # m => records[j].id # records[m].id
  BY <1>a, <1>b DEF OrderingInv
<1>1. errors = {}
  BY ErrorsGrow DEF IndexInv
<1>2. Len(records) \in Nat /\ i \in Nat /\ \A n \in 1..Len(records) : records[n] \in Record
  BY DocFacts DEF IndexInv
<1>3. CASE CheckEnvelope
  BY <1>3 DEF CheckEnvelope, Goto
<1>4. CASE CheckRecord
  BY <1>4 DEF CheckRecord, Goto
<1>5. CASE RecordsChecked
  <2>1. CASE phase' = "ordering" /\ i' = 2
    <3>1. \A m \in 1..(i' - 1) : \A j \in 1..(m - 1) : FALSE
      BY <2>1
    <3>2. QED
      BY <2>1, <3>1
  <2>2. CASE phase' = "passthrough" /\ ~ doc.stream
    BY <2>2
  <2>3. QED
    BY <1>1, <1>5, <2>1, <2>2 DEF RecordsChecked, Goto
<1>6. CASE CheckPair
  <2>1. /\ phase = "ordering" /\ i <= Len(records) /\ phase' = "ordering" /\ i' = i + 1
        /\ PairErrors(records[i - 1], records[i], i) = {}
    BY <1>6 DEF CheckPair, Goto
  <2>2. i >= 2
    BY <2>1 DEF IndexInv
  <2>3. \A n \in 1..Len(records) :
          /\ records[n] \in Record /\ records[n].sequence \in Int
          /\ records[n].occurred \in Int /\ records[n].timestamp \in Int
    <3>1. \A n \in 1..Len(records) : Clean(n)
      BY <1>1, <2>1 DEF RecordsInv
    <3>2. QED
      BY <1>2, <3>1, CleanRecord DEF Clean, Record
  <2>4. i \in 1..Len(records) /\ i - 1 \in 1..Len(records)
    BY <1>2, <2>1, <2>2
  <2>5. InOrder(i - 1, i)
    BY <2>1, <2>3, <2>4, PairInOrder DEF InOrder, Ordered
  <2>6. ASSUME NEW m \in 1..(i' - 1), NEW j \in 1..(m - 1)
        PROVE  InOrder(j, m)
    <3>1. CASE m <= i - 1
      BY <1>1, <1>2, <2>1, <3>1 DEF OrderingInv
    <3>2. CASE m = i /\ j = i - 1
      BY <2>5, <3>2
    <3>3. CASE m = i /\ j < i - 1
      <4>1. i - 1 \in 1..(i - 1) /\ j \in 1..((i - 1) - 1) /\ j \in 1..Len(records)
        BY <1>2, <2>1, <2>2, <3>3
      <4>2. InOrder(j, i - 1)
        BY <1>1, <2>1, <4>1 DEF OrderingInv
      <4>3. QED
        <5>1. /\ records[j].sequence \in Int /\ records[j].occurred \in Int
              /\ records[j].timestamp \in Int
          BY <2>3, <4>1
        <5>2. /\ records[i].sequence \in Int /\ records[i].occurred \in Int
              /\ records[i].timestamp \in Int
          BY <2>3, <2>4
        <5>3. /\ records[i - 1].sequence \in Int /\ records[i - 1].occurred \in Int
              /\ records[i - 1].timestamp \in Int
          BY <2>3, <2>4
        <5>4. InOrder(j, i)
          BY <2>5, <4>2, <5>1, <5>2, <5>3 DEF InOrder, Ordered
        <5>5. QED
          BY <3>3, <5>4
    <3>4. QED
      BY <1>2, <2>1, <2>2, <3>1, <3>2, <3>3
  <2>7. QED
    BY <2>1, <2>6
<1>7. CASE PairsChecked
  <2>1. phase = "ordering" /\ i > Len(records) /\ phase' = "ids"
    BY <1>7 DEF PairsChecked, Goto
  <2>2. \A m \in 1..Len(records) : m \in 1..(i - 1)
    BY <2>1, <1>2
  <2>3. QED
    BY <1>1, <2>1, <2>2 DEF OrderingInv
<1>8. CASE CheckIds
  <2>1. phase = "ids" /\ phase' = "lengths"
    BY <1>8 DEF CheckIds, Goto
  <2>2. \A j, m \in 1..Len(records) : j # m => records[j].id # records[m].id
    BY <1>8 DEF CheckIds
  <2>3. QED
    BY <1>1, <2>1, <2>2 DEF OrderingInv
<1>9. CASE CheckLengths
  BY <1>1, <1>9 DEF CheckLengths, Goto, OrderingInv
<1>10. CASE CheckPassthrough
  BY <1>1, <1>10 DEF CheckPassthrough, Goto, OrderingInv
<1>11. CASE PassthroughChecked
  BY <1>1, <1>11 DEF PassthroughChecked, Goto, OrderingInv
<1>12. CASE UNCHANGED validatorVars
  BY <1>1, <1>12 DEF validatorVars, OrderingInv
<1>13. QED
  BY <1>3, <1>4, <1>5, <1>6, <1>7, <1>8, <1>9, <1>10, <1>11, <1>12 DEF ValidatorNext

\* Once the lengths agree, zip reaches every record.
LEMMA NextPassthroughInv ==
  IndexInv /\ PassthroughInv /\ [ValidatorNext]_validatorVars => PassthroughInv'
<1> SUFFICES ASSUME IndexInv, PassthroughInv, [ValidatorNext]_validatorVars
             PROVE  PassthroughInv'
  OBVIOUS
<1>a. doc' = doc /\ records' = records /\ submissions' = submissions
  BY DocStays DEF records, submissions
<1>b. \A n : Zipped(n)' <=> Zipped(n)
  BY <1>a DEF Zipped
<1> SUFFICES ASSUME errors' = {}
             PROVE  /\ phase' \in {"passthrough", "done"} /\ submissions # <<>> =>
                         Len(submissions) = Len(records)
                    /\ phase' = "passthrough" =>
                         \A n \in 1..(i' - 1) : Zipped(n) =>
                           PassthroughErrors(submissions[n], records[n], n) = {}
                    /\ phase' = "done" =>
                         \A n \in 1..Len(records) : Zipped(n) =>
                           PassthroughErrors(submissions[n], records[n], n) = {}
  BY <1>a, <1>b DEF PassthroughInv
<1>1. errors = {}
  BY ErrorsGrow DEF IndexInv
<1>2. /\ Len(records) \in Nat /\ Len(submissions) \in Nat /\ i \in Nat
      /\ submissions \in Seq(Submission)
      /\ ~ doc.stream => Len(records) = 1 /\ Len(submissions) <= 1
  <2>1. doc \in Docs /\ i \in 1..(Len(records) + 1)
    BY DEF IndexInv
  <2>2. i \in Nat
    BY <2>1
  <2>3. QED
    BY <2>1, <2>2, DocFacts
<1>3. CASE CheckEnvelope
  BY <1>3 DEF CheckEnvelope, Goto
<1>4. CASE CheckRecord
  BY <1>4 DEF CheckRecord, Goto
<1>5. CASE RecordsChecked
  <2>1. \/ phase' = "ordering"
        \/ phase' = "passthrough" /\ i' = 1 /\ ~ doc.stream
    BY <1>1, <1>5 DEF RecordsChecked, Goto
  <2>2. ASSUME ~ doc.stream, submissions # <<>>
        PROVE  Len(submissions) = Len(records)
    <3>1. Len(submissions) # 0
      BY <1>2, <2>2, EmptySeq
    <3>2. Len(submissions) <= 1 /\ Len(records) = 1 /\ Len(submissions) \in Nat
      BY <1>2, <2>2
    <3>3. QED
      BY <3>1, <3>2
  <2>3. i' = 1 => 1..(i' - 1) = {}
    BY SMT
  <2>4. QED
    BY <2>1, <2>2, <2>3
<1>6. CASE CheckPair
  BY <1>6 DEF CheckPair, Goto
<1>7. CASE PairsChecked
  BY <1>7 DEF PairsChecked, Goto
<1>8. CASE CheckIds
  BY <1>8 DEF CheckIds, Goto
<1>9. CASE CheckLengths
  <2>1. phase' = "passthrough" /\ i' = 1
    BY <1>9 DEF CheckLengths, Goto
  <2>2. submissions # <<>> => Len(submissions) = Len(records)
    BY <1>9 DEF CheckLengths
  <2>3. 1..(i' - 1) = {}
    BY <2>1
  <2>4. QED
    BY <2>1, <2>2, <2>3
<1>10. CASE CheckPassthrough
  <2>1. /\ phase = "passthrough" /\ phase' = "passthrough" /\ i' = i + 1
        /\ PassthroughErrors(submissions[i], records[i], i) = {}
    BY <1>10 DEF CheckPassthrough, Goto
  <2>2. \A n \in 1..(i' - 1) : n = i \/ n \in 1..(i - 1)
    BY <1>2, <2>1
  <2>3. QED
    BY <1>1, <2>1, <2>2 DEF PassthroughInv
<1>11. CASE PassthroughChecked
  <2>1. phase = "passthrough" /\ phase' = "done" /\ ~ Zipped(i)
    BY <1>11 DEF PassthroughChecked, Goto
  <2>2. \A n \in 1..Len(records) : Zipped(n) => n \in 1..(i - 1)
    BY <1>2, <2>1 DEF Zipped
  <2>3. QED
    BY <1>1, <2>1, <2>2 DEF PassthroughInv
<1>12. CASE UNCHANGED validatorVars
  BY <1>1, <1>12 DEF validatorVars, PassthroughInv
<1>13. QED
  BY <1>3, <1>4, <1>5, <1>6, <1>7, <1>8, <1>9, <1>10, <1>11, <1>12 DEF ValidatorNext

\* An accepted stream is in order as a whole.
LEMMA InvGivesOrder == ValidatorInv => PassedStreamIsOrdered
<1> SUFFICES ASSUME ValidatorInv, Passed, doc.stream
             PROVE  /\ \A j, m \in 1..Len(records) :
                         j < m => InOrder(j, m) /\ records[j].id # records[m].id
                    /\ \A j, m \in 1..Len(records) :
                         j <= m => records[j].occurred <= records[m].timestamp
  BY DEF PassedStreamIsOrdered
<1>1. Len(records) \in Nat /\ \A n \in 1..Len(records) : records[n] \in Record
  BY DocFacts DEF ValidatorInv, IndexInv
<1>2. \A n \in 1..Len(records) :
        /\ records[n].occurred \in Int /\ records[n].timestamp \in Int
        /\ records[n].occurred <= records[n].timestamp
  <2>1. \A n \in 1..Len(records) : Clean(n)
    BY DEF ValidatorInv, RecordsInv, Passed
  <2>2. ASSUME NEW n \in 1..Len(records)
        PROVE  /\ records[n].occurred \in Int /\ records[n].timestamp \in Int
               /\ records[n].occurred <= records[n].timestamp
    <3>1. records[n] \in Record /\ RecordErrors(records[n], n) = {}
      BY <1>1, <2>1 DEF Clean
    <3>2. /\ records[n].occurred \in Int /\ records[n].observed \in Int
          /\ records[n].timestamp \in Int
          /\ records[n].occurred <= records[n].observed
          /\ records[n].observed <= records[n].timestamp
      BY <3>1, CleanRecord
    <3>3. QED
      BY <3>2
  <2>3. QED
    BY <2>2
<1>3. ASSUME NEW j \in 1..Len(records), NEW m \in 1..Len(records), j < m
      PROVE  InOrder(j, m) /\ records[j].id # records[m].id
  <2>1. j \in 1..(m - 1) /\ j # m
    BY <1>1, <1>3
  <2>2. QED
    BY <2>1 DEF ValidatorInv, OrderingInv, Passed
<1>4. ASSUME NEW j \in 1..Len(records), NEW m \in 1..Len(records), j <= m
      PROVE  records[j].occurred <= records[m].timestamp
  <2>1. CASE j = m
    BY <1>2, <2>1
  <2>2. CASE j < m
    BY <1>2, <1>3, <2>2 DEF InOrder, Ordered
  <2>3. QED
    BY <1>1, <1>4, <2>1, <2>2
<1>5. QED
  BY <1>3, <1>4

\* An accepted example repeats every submission.
LEMMA InvGivesPreserved == ValidatorInv => PassedIsPreserved
<1> SUFFICES ASSUME ValidatorInv, Passed, submissions # <<>>
             PROVE  /\ Len(submissions) = Len(records)
                    /\ \A n \in 1..Len(records) :
                         /\ submissions[n].id = records[n].id
                         /\ same_value(submissions[n].invariant, records[n].invariant)
                         /\ same_value(submissions[n].intent, records[n].intent)
  BY DEF PassedIsPreserved
<1>1. Len(submissions) = Len(records)
  BY DEF ValidatorInv, PassthroughInv, Passed
<1>2. Len(records) \in Nat
  BY DocFacts DEF ValidatorInv, IndexInv
<1>3. ASSUME NEW n \in 1..Len(records)
      PROVE  PassthroughErrors(submissions[n], records[n], n) = {}
  <2>1. Zipped(n)
    BY <1>1, <1>2 DEF Zipped
  <2>2. QED
    BY <2>1 DEF ValidatorInv, PassthroughInv, Passed
<1>4. ASSUME NEW n \in 1..Len(records)
      PROVE  /\ submissions[n].id = records[n].id
             /\ same_value(submissions[n].invariant, records[n].invariant)
             /\ same_value(submissions[n].intent, records[n].intent)
  <2>1. submissions[n].id = records[n].id
    BY <1>3 DEF PassthroughErrors
  <2>2. same_value(submissions[n].invariant, records[n].invariant)
    BY <1>3, <2>1 DEF PassthroughErrors
  <2>3. same_value(submissions[n].intent, records[n].intent)
    BY <1>3, <2>1 DEF PassthroughErrors
  <2>4. QED
    BY <2>1, <2>2, <2>3
<1>5. QED
  BY <1>1, <1>4

(***************************************************************************)
(* Every error is a rule that the example breaks.                          *)
(***************************************************************************)

\* A record with errors breaks a rule.
LEMMA RecordBroken ==
  ASSUME NEW n \in 1..Len(records), ~ Clean(n)
  PROVE  Broken(doc)
<1>1. \/ ~ records[n].schema
      \/ ~ records[n].refs
      \/ Unparsable \in {records[n].occurred, records[n].observed, records[n].timestamp}
      \/ ~ (records[n].occurred <= records[n].observed)
      \/ ~ (records[n].observed <= records[n].timestamp)
  BY DEF Clean, RecordErrors
<1>2. QED
  BY <1>1 DEF Broken, records

\* Two neighbours of a stream that are out of order break a rule.
LEMMA PairBroken ==
  ASSUME doc \in Docs, doc.stream, NEW n \in 2..Len(records),
         records[n - 1].occurred \in Int, records[n].occurred \in Int,
         records[n - 1].timestamp \in Int, records[n].timestamp \in Int,
         PairErrors(records[n - 1], records[n], n) # {}
  PROVE  Broken(doc)
<1>1. /\ n \in 1..Len(records) /\ n - 1 \in 1..Len(records) /\ n - 1 < n
      /\ records[n - 1].sequence \in Int /\ records[n].sequence \in Int
  <2>1. n \in 1..Len(records) /\ n - 1 \in 1..Len(records) /\ n - 1 < n
    BY DocFacts
  <2>2. records[n - 1] \in Record /\ records[n] \in Record
    BY <2>1, DocFacts
  <2>3. QED
    BY <2>1, <2>2 DEF Record
<1>2. \/ ~ (records[n].sequence > records[n - 1].sequence)
      \/ records[n].occurred < records[n - 1].occurred
      \/ records[n].timestamp < records[n - 1].timestamp
  BY DEF PairErrors
<1>3. ~ Ordered(records[n - 1], records[n])
  BY <1>1, <1>2 DEF Ordered
<1>4. QED
  BY <1>1, <1>3 DEF Broken, records

\* Two records of a stream with one id break a rule, in whichever order they come.
LEMMA IdsBroken ==
  ASSUME doc \in Docs, doc.stream, NEW j \in 1..Len(records), NEW m \in 1..Len(records), j # m,
         records[j].id = records[m].id
  PROVE  Broken(doc)
<1>1. j < m \/ m < j
  BY DocFacts
<1>2. QED
  BY <1>1 DEF Broken, records

\* A submission and a record that differ break a rule.
LEMMA SubmissionBroken ==
  ASSUME doc \in Docs, NEW n \in Nat \ {0}, Zipped(n),
         PassthroughErrors(submissions[n], records[n], n) # {}
  PROVE  Broken(doc)
<1>1. n \in 1..Len(records) /\ n <= Len(submissions)
  BY DocFacts DEF Zipped
<1>2. \/ submissions[n].id # records[n].id
      \/ ~ same_value(submissions[n].invariant, records[n].invariant)
      \/ ~ same_value(submissions[n].intent, records[n].intent)
  BY DEF PassthroughErrors
<1>3. QED
  BY <1>1, <1>2 DEF Broken, records, submissions

\* What has been found so far is broken, and the envelope was looked at first.
ErrorsInv ==
  /\ errors # {} => Broken(doc)
  /\ phase # "envelope" /\ errors = {} => doc.envelope

\* No step reports an error for which no rule is broken.
LEMMA NextErrorsInv ==
  ValidatorInv /\ ErrorsInv /\ [ValidatorNext]_validatorVars => ErrorsInv'
<1> SUFFICES ASSUME ValidatorInv, ErrorsInv, [ValidatorNext]_validatorVars
             PROVE  ErrorsInv'
  OBVIOUS
<1>a. doc' = doc
  BY DocStays
<1>b. doc \in Docs /\ Len(records) \in Nat /\ i \in Nat \ {0}
  BY DocFacts DEF ValidatorInv, IndexInv
<1>1. CASE errors' = errors /\ phase # "envelope"
  BY <1>a, <1>1 DEF ErrorsInv
<1>2. CASE CheckEnvelope
  BY <1>a, <1>2 DEF CheckEnvelope, Goto, ErrorsInv, Broken, ValidatorInv, IndexInv
<1>3. ASSUME phase # "envelope", NEW found, errors' = errors \cup found,
             errors = {} /\ found # {} => Broken(doc)
      PROVE  ErrorsInv'
  BY <1>a, <1>3 DEF ErrorsInv
<1>4. CASE CheckRecord
  <2>1. i \in 1..Len(records) /\ phase # "envelope"
        /\ errors' = errors \cup RecordErrors(records[i], i)
    BY <1>b, <1>4 DEF CheckRecord
  <2>2. RecordErrors(records[i], i) # {} => Broken(doc)
    BY <2>1, RecordBroken DEF Clean
  <2>3. QED
    BY <1>3, <2>1, <2>2
<1>5. CASE CheckPair
  <2>1. /\ phase = "ordering" /\ i <= Len(records)
        /\ errors' = errors \cup PairErrors(records[i - 1], records[i], i)
    BY <1>5 DEF CheckPair
  <2>2. i \in 2..Len(records) /\ doc.stream
    BY <1>b, <2>1 DEF ValidatorInv, IndexInv
  <2>3. ASSUME errors = {}, PairErrors(records[i - 1], records[i], i) # {}
        PROVE  Broken(doc)
    <3>1. \A n \in 1..Len(records) : records[n].occurred \in Int /\ records[n].timestamp \in Int
      <4>1. \A n \in 1..Len(records) : Clean(n) /\ records[n] \in Record
        BY <1>b, <2>1, <2>3, DocFacts DEF ValidatorInv, RecordsInv
      <4>2. QED
        BY <4>1, CleanRecord DEF Clean
    <3>2. i - 1 \in 1..Len(records) /\ i \in 1..Len(records)
      BY <1>b, <2>2
    <3>3. QED
      BY <1>b, <2>2, <2>3, <3>1, <3>2, PairBroken
  <2>4. QED
    BY <1>3, <2>1, <2>3
<1>6. CASE CheckIds
  <2>1. phase = "ids" /\ doc.stream
    BY <1>6 DEF CheckIds, ValidatorInv, IndexInv
  <2>2. CASE \E j, m \in 1..Len(records) : j # m /\ records[j].id = records[m].id
    <3>1. Broken(doc)
      BY <1>b, <2>1, <2>2, IdsBroken
    <3>2. errors' # {}
      BY <1>6, <2>2 DEF CheckIds
    <3>3. QED
      BY <1>a, <3>1, <3>2 DEF ErrorsInv
  <2>3. CASE ~ \E j, m \in 1..Len(records) : j # m /\ records[j].id = records[m].id
    BY <1>1, <1>6, <2>1, <2>3 DEF CheckIds
  <2>4. QED
    BY <2>2, <2>3
<1>7. CASE CheckLengths
  <2>1. submissions # <<>> /\ Len(submissions) # Len(records) => Broken(doc)
    BY DEF Broken, records, submissions
  <2>2. phase # "envelope"
    BY <1>7 DEF CheckLengths
  <2>3. CASE submissions # <<>> /\ Len(submissions) # Len(records)
    <3>1. errors' # {}
      BY <1>7, <2>3 DEF CheckLengths
    <3>2. QED
      BY <1>a, <2>1, <2>3, <3>1 DEF ErrorsInv
  <2>4. CASE ~ (submissions # <<>> /\ Len(submissions) # Len(records))
    BY <1>1, <1>7, <2>2, <2>4 DEF CheckLengths
  <2>5. QED
    BY <2>3, <2>4
<1>8. CASE CheckPassthrough
  <2>1. /\ phase # "envelope" /\ Zipped(i)
        /\ errors' = errors \cup PassthroughErrors(submissions[i], records[i], i)
    BY <1>8 DEF CheckPassthrough
  <2>2. QED
    BY <1>b, <1>3, <2>1, SubmissionBroken
<1>9. CASE RecordsChecked \/ PairsChecked \/ PassthroughChecked
  BY <1>1, <1>9 DEF RecordsChecked, PairsChecked, PassthroughChecked
<1>10. CASE UNCHANGED validatorVars
  BY <1>10 DEF validatorVars, ErrorsInv
<1>11. QED
  BY <1>2, <1>4, <1>5, <1>6, <1>7, <1>8, <1>9, <1>10 DEF ValidatorNext

\* An example in which nothing was found breaks no rule.
LEMMA InvGivesExact == ValidatorInv /\ ErrorsInv => RejectsExactlyBroken
<1> SUFFICES ASSUME ValidatorInv, ErrorsInv, phase = "done", errors = {}
             PROVE  ~ Broken(doc)
  BY DEF RejectsExactlyBroken, ErrorsInv
<1>1. doc.envelope /\ Passed
  BY DEF ErrorsInv, Passed
<1>2. /\ doc \in Docs /\ Len(records) \in Nat /\ Len(submissions) \in Nat
      /\ \A n \in 1..Len(records) : records[n] \in Record
  BY DocFacts DEF ValidatorInv, IndexInv
<1>3. ASSUME NEW n \in 1..Len(records)
      PROVE  /\ records[n].schema /\ records[n].refs
             /\ Unparsable \notin {records[n].occurred, records[n].observed, records[n].timestamp}
             /\ records[n].occurred <= records[n].observed
             /\ records[n].observed <= records[n].timestamp
  <2>1. Clean(n)
    BY DEF ValidatorInv, RecordsInv
  <2>2. records[n].schema /\ records[n].refs
    BY <2>1 DEF Clean, RecordErrors
  <2>3. QED
    BY <1>2, <2>1, <2>2, CleanRecord DEF Clean
<1>4. doc.stream => \A j, m \in 1..Len(records) :
        j < m => Ordered(records[j], records[m]) /\ records[j].id # records[m].id
  BY <1>1, InvGivesOrder DEF PassedStreamIsOrdered, InOrder
<1>5. submissions # <<>> => Len(submissions) = Len(records)
  BY <1>1, InvGivesPreserved DEF PassedIsPreserved
<1>6. ASSUME NEW n \in 1..Len(records), n <= Len(submissions)
      PROVE  /\ submissions[n].id = records[n].id
             /\ same_value(submissions[n].invariant, records[n].invariant)
             /\ same_value(submissions[n].intent, records[n].intent)
  <2>1. submissions # <<>>
    BY <1>2, <1>6
  <2>2. QED
    BY <1>1, <2>1, InvGivesPreserved DEF PassedIsPreserved
<1>7. QED
  BY <1>1, <1>3, <1>4, <1>5, <1>6 DEF Broken, records, submissions

\* Every step of check_example keeps the inductive invariant.
LEMMA NextValidatorInv ==
  ValidatorInv /\ [ValidatorNext]_validatorVars => ValidatorInv'
BY NextIndexInv, NextRecordsInv, NextOrderingInv, NextPassthroughInv DEF ValidatorInv

(***************************************************************************)
(* Theorems.                                                               *)
(***************************************************************************)

\* Although check_ordering compares neighbours only, any two records of an
\* accepted stream are in order and no record precedes an earlier event.
THEOREM StreamIsOrdered == ValidatorSpec => []PassedStreamIsOrdered
<1>1. ValidatorSpec => []ValidatorInv
  BY InitValidatorInv, NextValidatorInv, PTL DEF ValidatorSpec
<1>2. QED
  BY <1>1, InvGivesOrder, PTL

\* Although zip stops at the shorter list, every record of an accepted example
\* was compared with the submission it was made from.
THEOREM StreamIsPreserved == ValidatorSpec => []PassedIsPreserved
<1>1. ValidatorSpec => []ValidatorInv
  BY InitValidatorInv, NextValidatorInv, PTL DEF ValidatorSpec
<1>2. QED
  BY <1>1, InvGivesPreserved, PTL

\* An example of any length is rejected exactly when it breaks a rule: no early
\* return of check_example lets a broken one through, no check invents an error.
THEOREM RejectionIsExact == ValidatorSpec => []RejectsExactlyBroken
<1>1. ValidatorInit => ErrorsInv
  BY DEF ValidatorInit, ErrorsInv
<1>2. ValidatorSpec => [](ValidatorInv /\ ErrorsInv)
  BY <1>1, InitValidatorInv, NextValidatorInv, NextErrorsInv, PTL DEF ValidatorSpec
<1>3. QED
  BY <1>2, InvGivesExact, PTL

---------------------------------------------------------------------------
(***************************************************************************)
(* What run_checks looks for, part by part.                                *)
(***************************************************************************)

FilesPresent  == \A p \in REQUIRED_FILES : IsFile(p) /\ repo[p] \notin {Blank, Binary}
SchemasValid  == \A s \in SchemaFiles : repo[s] = "valid"
ContractHolds == contract # NotJson /\ ContractErrors(contract) = {} /\ contract.examples # None
Passes(p)     == Loadable(p) /\ ~ Broken(repo[p])

\* The parts make up a sound repository.
LEMMA SoundParts ==
  Sound <=> /\ FilesPresent /\ SchemasValid /\ ContractHolds
            /\ \A p \in ToSet(contract.examples) : Passes(p)
BY Zenon DEF Sound, FilesPresent, SchemasValid, ContractHolds, Passes

\* The contract and the schemas are among the required files.
LEMMA RequiredFiles == CONTRACT \in REQUIRED_FILES /\ SchemaFiles \subseteq REQUIRED_FILES
BY Zenon DEF REQUIRED_FILES

\* None of the parts changes while the repository stays.
LEMMA RepoStays ==
  ASSUME repo' = repo
  PROVE  /\ FilesPresent' <=> FilesPresent
         /\ SchemasValid' <=> SchemasValid
         /\ Sound' <=> Sound
         /\ Missing' = Missing
         /\ contract' = contract
         /\ ContractErrors(contract)' = ContractErrors(contract)
         /\ \A p : Loadable(p)' <=> Loadable(p)
         /\ \A p : Passes(p)' <=> Passes(p)
<1>1. \A p : (IsFile(p)' <=> IsFile(p)) /\ (Loadable(p)' <=> Loadable(p)) /\ (Passes(p)' <=> Passes(p))
  BY Zenon DEF IsFile, Loadable, Passes
<1>2. contract' = contract
  BY Zenon DEF contract
<1>3. ContractErrors(contract)' = ContractErrors(contract)
  <2>1. \A paths : Lacking(paths)' = Lacking(paths)
    BY <1>1 DEF Lacking
  <2>2. \A c : ContractErrors(c)' = ContractErrors(c)
    BY <2>1, Zenon DEF ContractErrors
  <2>3. QED
    BY <1>2, <2>2
<1>4. (FilesPresent' <=> FilesPresent) /\ (SchemasValid' <=> SchemasValid)
  BY <1>1, Zenon DEF FilesPresent, SchemasValid
<1>5. Sound' <=> Sound
  BY <1>1, <1>2, <1>3, Zenon DEF Sound, Loadable
<1>6. Missing' = Missing
  BY <1>1, Zenon DEF Missing
<1>7. QED
  BY <1>1, <1>2, <1>3, <1>4, <1>5, <1>6

\* Nothing is missing where all files are present.
LEMMA NoneMissing == FilesPresent => Missing = {}
BY Zenon DEF FilesPresent, Missing

(***************************************************************************)
(* The inductive invariant.                                                *)
(***************************************************************************)

\* The example that check_example has been called with, and what it has found.
ExampleOpen ==
  /\ k <= Len(contract.examples)
  /\ Loadable(contract.examples[k]) /\ doc = repo[contract.examples[k]]
  /\ ValidatorInv /\ ErrorsInv

\* The loop over the examples: those behind it could be loaded, and were found
\* to pass unless something failed.
LoopInv ==
  /\ Loadable(CONTRACT) /\ contract.examples # None
  /\ k \in Nat \ {0}
  /\ k <= Len(contract.examples) + 1
  /\ failures = {} =>
       /\ ContractErrors(contract) = {}
       /\ \A j \in 1..(k - 1) : Passes(contract.examples[j])
  /\ phase = "idle" \/ ExampleOpen

\* What run_checks has established at each of its steps.
RunInv ==
  /\ step \in {"files", "load", "schemas", "contract", "examples", "ended", "raised"}
  /\ failures # {} \/ step = "raised" => ~ Sound
  /\ step \in {"load", "schemas", "contract", "examples"} => FilesPresent
  /\ step \in {"contract", "examples"} /\ failures = {} => SchemasValid
  /\ step \in {"files", "load", "schemas", "contract"} => k = 1
  /\ step = "examples" => LoopInv
  /\ step \notin {"examples", "raised"} => phase = "idle"
  /\ step = "ended" /\ failures = {} => Sound
  /\ step = "files" => failures = {}
  /\ step = "ended" /\ Missing # {} => failures = Missing
  /\ step = "raised" => Missing = {} \/ \E p \in REQUIRED_FILES : repo[p] = Binary

\* The repository is one of those that are checked.
RepoInv == \E run \in Runs : repo = run[1] /\ mode = run[2]

ChecksInv == RepoInv /\ (mode = "run" => RunInv)

(***************************************************************************)
(* Every step preserves it.                                                *)
(***************************************************************************)

\* Each step works on the repository that the program was started in.
LEMMA RepoIsKept == [ChecksNext]_checksVars => repo' = repo /\ mode' = mode
<1>1. CASE UNCHANGED checksVars
  BY <1>1 DEF checksVars
<1>2. CASE CheckFiles
  BY <1>2, Zenon DEF CheckFiles, Raise, Step
<1>3. CASE LoadSchemas \/ CheckSchemas \/ EndOfRun \/ Validate \/ SchemaRaises
  BY <1>3, Zenon DEF LoadSchemas, CheckSchemas, EndOfRun, Validate, SchemaRaises, Raise, Step
<1>4. CASE CheckContract
  BY <1>4, Zenon DEF CheckContract, Raise, Step
<1>5. CASE OpenExample \/ CloseExample
  BY <1>5, Zenon DEF OpenExample, CloseExample, Close, Raise, Step
<1>6. CASE LoadSelfTest
  BY <1>6, Zenon DEF LoadSelfTest, Raise, Step
<1>7. CASE OpenCase \/ CloseCase
  BY <1>7, Zenon DEF OpenCase, CloseCase, Close, Step
<1>8. CASE BadContract
  BY <1>8, Zenon DEF BadContract, Raise, Step
<1>9. CASE OpenUnmutated \/ CloseUnmutated \/ EndOfSelfTest
  BY <1>9, Zenon DEF OpenUnmutated, CloseUnmutated, EndOfSelfTest, Close, Step
<1>10. QED
  BY <1>1, <1>2, <1>3, <1>4, <1>5, <1>6, <1>7, <1>8, <1>9, Zenon DEF ChecksNext

\* What RunsAssumption says of a contract that lists examples, and of an example
\* that it lists and that could be loaded.
LEMMA ListedExamples ==
  ASSUME RepoInv, Loadable(CONTRACT), contract.examples # None
  PROVE  /\ contract.examples \in Seq(STRING)
         /\ \A j \in 1..Len(contract.examples) :
              Loadable(contract.examples[j]) => repo[contract.examples[j]] \in Docs
<1>1. PICK run \in Runs : repo = run[1]
  BY Zenon DEF RepoInv
<1>2. repo[CONTRACT] \notin Unreadable /\ Listed(repo[CONTRACT]) = contract.examples
  BY Zenon DEF Loadable, Listed, contract
<1>3. contract.examples \in Seq(STRING)
  BY <1>1, <1>2, RunsAssumption, Zenon
<1>4. ASSUME NEW j \in 1..Len(contract.examples), Loadable(contract.examples[j])
      PROVE  repo[contract.examples[j]] \in Docs
  <2>1. contract.examples[j] \in ToSet(contract.examples)
    <3>1. \A s \in Seq(STRING) : \A n \in 1..Len(s) : s[n] \in ToSet(s)
      BY DEF ToSet
    <3>2. QED
      BY <1>3, <1>4, <3>1, Zenon
  <2>2. contract.examples[j] \in Paths
    BY <1>4, Zenon DEF Loadable, IsFile
  <2>3. repo[contract.examples[j]] \in ExampleContents(repo)
    BY <1>2, <2>1, <2>2, Zenon DEF ExampleContents
  <2>4. repo[contract.examples[j]] \in Docs \cup Unreadable
    BY <1>1, <2>3, RunsAssumption, Zenon
  <2>5. QED
    BY <1>4, <2>4, Zenon DEF Loadable
<1>5. QED
  BY <1>3, <1>4

\* A check of the files ends a run that lacks one of them, and reports it.
LEMMA CheckFilesInv ==
  ASSUME RunInv, CheckFiles, repo' = repo
  PROVE  RunInv'
<1>1. step = "files" /\ failures = {} /\ phase = "idle" /\ k = 1
  BY Zenon DEF CheckFiles, RunInv
<1>2. CASE \E p \in REQUIRED_FILES : repo[p] = Binary
  <2>1. step' = "raised" /\ failures' = {}
    BY <1>1, <1>2, Zenon DEF CheckFiles, Raise, Step
  <2>2. ~ Sound
    BY <1>2, SoundParts, Zenon DEF FilesPresent
  <2>3. \E p \in REQUIRED_FILES : repo'[p] = Binary
    BY <1>2, Zenon
  <2>4. QED
    BY <2>1, <2>2, <2>3, RepoStays DEF RunInv
<1>3. CASE ~ \E p \in REQUIRED_FILES : repo[p] = Binary
  <2>1. /\ step' = IF Missing = {} THEN "load" ELSE "ended"
        /\ failures' = Missing /\ phase' = "idle" /\ k' = 1
    <3>1. Step(IF Missing = {} THEN "load" ELSE "ended", Missing) /\ phase' = phase /\ k' = k
      BY <1>3, Zenon DEF CheckFiles, validatorVars
    <3>2. QED
      BY <1>1, <3>1 DEF Step
  <2>2. Missing = {} <=> FilesPresent
    BY <1>3, Zenon DEF Missing, FilesPresent
  <2>3. QED
    BY <2>1, <2>2, SoundParts, RepoStays DEF RunInv
<1>4. QED
  BY <1>2, <1>3

\* A schema that cannot be loaded ends a run with a traceback.
LEMMA LoadSchemasInv ==
  ASSUME RunInv, LoadSchemas, repo' = repo
  PROVE  RunInv'
<1>1. step = "load" /\ phase = "idle" /\ k = 1 /\ FilesPresent /\ (failures # {} => ~ Sound)
  BY DEF LoadSchemas, RunInv
<1>2. CASE \A s \in SchemaFiles : Loadable(s)
  <2>1. step' = "schemas" /\ failures' = failures /\ phase' = phase /\ k' = k
    BY <1>2 DEF LoadSchemas, Step, validatorVars
  <2>2. QED
    BY <1>1, <2>1, RepoStays DEF RunInv
<1>3. CASE ~ \A s \in SchemaFiles : Loadable(s)
  <2>1. step' = "raised" /\ failures' = failures
    BY <1>3 DEF LoadSchemas, Raise, Step
  <2>2. ~ Sound
    <3>1. PICK s \in SchemaFiles : ~ Loadable(s)
      BY <1>3
    <3>2. FilesPresent => IsFile(s)
      BY RequiredFiles, Zenon DEF FilesPresent
    <3>3. FilesPresent => repo[s] \in Unreadable
      BY <3>1, <3>2, Zenon DEF Loadable
    <3>4. FilesPresent => repo[s] # "valid"
      BY <3>3, RunsAssumption, Zenon
    <3>5. QED
      BY <3>4, SoundParts, Zenon DEF SchemasValid
  <2>3. QED
    BY <1>1, <2>1, <2>2, NoneMissing, RepoStays DEF RunInv
<1>4. QED
  BY <1>2, <1>3

\* A schema that is no valid one is reported.
LEMMA CheckSchemasInv ==
  ASSUME RunInv, CheckSchemas, repo' = repo
  PROVE  RunInv'
<1>1. step = "schemas" /\ phase = "idle" /\ k = 1 /\ FilesPresent /\ (failures # {} => ~ Sound)
  BY DEF CheckSchemas, RunInv
<1>2. /\ step' = "contract" /\ phase' = phase /\ k' = k
      /\ failures' = failures \cup {s \in SchemaFiles : repo[s] # "valid"}
  BY DEF CheckSchemas, Step, validatorVars
<1>3. failures' = {} => failures = {} /\ SchemasValid
  BY <1>2 DEF SchemasValid
<1>4. failures' # {} => failures # {} \/ ~ SchemasValid
  BY <1>2 DEF SchemasValid
<1>5. QED
  BY <1>1, <1>2, <1>3, <1>4, SoundParts, RepoStays DEF RunInv

\* The contract is checked as a whole before its examples are.
LEMMA CheckContractInv ==
  ASSUME RepoInv, RunInv, CheckContract, repo' = repo
  PROVE  RunInv'
<1>1. /\ step = "contract" /\ phase = "idle" /\ k = 1 /\ FilesPresent
      /\ failures # {} => ~ Sound
      /\ failures = {} => SchemasValid
  BY DEF CheckContract, RunInv
<1>2. CASE ~ Loadable(CONTRACT)
  <2>1. step' = "raised" /\ failures' = failures
    BY <1>2 DEF CheckContract, Raise, Step
  <2>2. ~ Sound
    <3>1. FilesPresent => IsFile(CONTRACT) /\ contract \notin {Absent, Blank, Binary}
      BY RequiredFiles, Zenon DEF FilesPresent, IsFile, contract
    <3>2. FilesPresent => contract = NotJson
      BY <1>2, <3>1, Zenon DEF Loadable, Unreadable, contract
    <3>3. QED
      BY <3>2, SoundParts, Zenon DEF ContractHolds
  <2>3. QED
    BY <1>1, <2>1, <2>2, NoneMissing, RepoStays DEF RunInv
<1>3. CASE Loadable(CONTRACT)
  <2>1. /\ step' = IF contract.examples = None THEN "raised" ELSE "examples"
        /\ failures' = failures \cup (IF ContractErrors(contract) = {} THEN {} ELSE {CONTRACT})
        /\ phase' = phase /\ k' = k
    BY <1>3, Zenon DEF CheckContract, Step, validatorVars
  <2>2. failures' # {} => failures # {} \/ ContractErrors(contract) # {}
    BY <2>1
  <2>3. failures' = {} => failures = {} /\ ContractErrors(contract) = {}
    BY <2>1, Zenon
  <2>4. failures' # {} => ~ Sound
    BY <1>1, <2>2, SoundParts, Zenon DEF ContractHolds
  <2>5. CASE contract.examples = None
    <3>1. step' = "raised" /\ ~ Sound
      BY <2>1, <2>5, SoundParts, Zenon DEF ContractHolds
    <3>2. QED
      BY <1>1, <3>1, NoneMissing, RepoStays DEF RunInv
  <2>6. CASE contract.examples # None
    <3>1. step' = "examples" /\ phase' = "idle" /\ k' = 1
      BY <1>1, <2>1, <2>6
    <3>2. Len(contract.examples) \in Nat
      <4>1. \A s \in Seq(STRING) : Len(s) \in Nat
        OBVIOUS
      <4>2. QED
        BY <1>3, <2>6, <4>1, ListedExamples, Zenon
    <3>3. 1..(k' - 1) = {}
      BY <3>1
    <3>4. LoopInv'
      BY <1>3, <2>3, <2>6, <3>1, <3>2, <3>3, RepoStays DEF LoopInv
    <3>5. QED
      BY <1>1, <2>3, <2>4, <3>1, <3>4, RepoStays DEF RunInv
  <2>7. QED
    BY <2>5, <2>6
<1>4. QED
  BY <1>2, <1>3

\* An example that cannot be loaded ends a run with a traceback; another one is
\* handed to check_example.
LEMMA OpenExampleInv ==
  ASSUME RepoInv, RunInv, OpenExample, repo' = repo
  PROVE  RunInv'
<1>1. /\ step = "examples" /\ phase = "idle" /\ k <= Len(contract.examples)
      /\ LoopInv /\ FilesPresent
      /\ failures # {} => ~ Sound
      /\ failures = {} => SchemasValid
  BY DEF OpenExample, RunInv
<1>2. /\ Loadable(CONTRACT) /\ contract.examples # None /\ k \in 1..Len(contract.examples)
      /\ contract.examples \in Seq(STRING)
  <2>1. Loadable(CONTRACT) /\ contract.examples # None /\ k \in Nat \ {0}
    BY <1>1 DEF LoopInv
  <2>2. contract.examples \in Seq(STRING)
    BY <2>1, ListedExamples, Zenon
  <2>3. \A s \in Seq(STRING) : Len(s) \in Nat
    OBVIOUS
  <2>4. QED
    BY <1>1, <2>1, <2>2, <2>3
<1>3. CASE ~ Loadable(contract.examples[k])
  <2>1. step' = "raised" /\ failures' = failures
    BY <1>3 DEF OpenExample, Raise, Step
  <2>2. contract.examples[k] \in ToSet(contract.examples)
    BY <1>2 DEF ToSet
  <2>3. ~ Sound
    BY <1>3, <2>2, SoundParts, Zenon DEF Passes
  <2>4. QED
    BY <1>1, <2>1, <2>3, NoneMissing, RepoStays DEF RunInv
<1>4. CASE Loadable(contract.examples[k])
  <2>1. Begin(repo[contract.examples[k]]) /\ Step(step, {}) /\ k' = k
    BY <1>4, Zenon DEF OpenExample
  <2>2. step' = "examples" /\ failures' = failures /\ k' = k
    BY <1>1, <2>1 DEF Step
  <2>3. ValidatorInit' /\ phase' = "envelope" /\ errors' = {} /\ doc' = repo[contract.examples[k]]
    <3>1. repo[contract.examples[k]] \in Docs
      BY <1>2, <1>4, ListedExamples, Zenon
    <3>2. QED
      BY <2>1, <3>1, Zenon DEF Begin, ValidatorInit
  <2>4. ValidatorInv'
    <3>1. (ValidatorInit => ValidatorInv)'
      BY InitValidatorInv, PTL
    <3>2. QED
      BY <2>3, <3>1
  <2>5. ErrorsInv'
    BY <2>3 DEF ErrorsInv
  <2>6. LoopInv'
    <3>1. ExampleOpen'
      BY <1>1, <1>4, <2>2, <2>3, <2>4, <2>5, RepoStays, Zenon DEF ExampleOpen
    <3>2. QED
      BY <1>1, <2>2, <3>1, RepoStays DEF LoopInv
  <2>7. QED
    BY <1>1, <2>2, <2>6, RepoStays DEF RunInv
<1>5. QED
  BY <1>3, <1>4

\* An example is reported exactly when it is broken.
LEMMA CloseExampleInv ==
  ASSUME RepoInv, RunInv, CloseExample, repo' = repo
  PROVE  RunInv'
<1>1. /\ step = "examples" /\ phase = "done" /\ LoopInv /\ FilesPresent
      /\ failures # {} => ~ Sound
      /\ failures = {} => SchemasValid
  BY DEF CloseExample, Close, RunInv
<1>2. /\ Loadable(CONTRACT) /\ contract.examples # None /\ k \in 1..Len(contract.examples)
      /\ contract.examples \in Seq(STRING) /\ Len(contract.examples) \in Nat /\ ExampleOpen
  <2>1. /\ Loadable(CONTRACT) /\ contract.examples # None /\ k \in Nat \ {0} /\ ExampleOpen
        /\ k <= Len(contract.examples)
    BY <1>1 DEF LoopInv, ExampleOpen
  <2>2. contract.examples \in Seq(STRING)
    BY <2>1, ListedExamples, Zenon
  <2>3. \A s \in Seq(STRING) : Len(s) \in Nat
    OBVIOUS
  <2>4. QED
    BY <2>1, <2>2, <2>3
<1>3. errors = {} <=> Passes(contract.examples[k])
  <2>1. errors # {} <=> Broken(doc)
    BY <1>1, <1>2, InvGivesExact DEF ExampleOpen, RejectsExactlyBroken
  <2>2. Loadable(contract.examples[k]) /\ doc = repo[contract.examples[k]]
    BY <1>2 DEF ExampleOpen
  <2>3. QED
    BY <2>1, <2>2, Zenon DEF Passes
<1>4. /\ step' = "examples" /\ phase' = "idle" /\ k' = k + 1
      /\ failures' = failures \cup (IF errors = {} THEN {} ELSE {contract.examples[k]})
  <2>1. Close(IF errors = {} THEN {} ELSE {contract.examples[k]})
    BY Zenon DEF CloseExample
  <2>2. QED
    BY <1>1, <2>1, Zenon DEF Close, Step
<1>5. failures' # {} => ~ Sound
  <2>1. contract.examples[k] \in ToSet(contract.examples)
    BY <1>2 DEF ToSet
  <2>2. Sound => Passes(contract.examples[k])
    BY <2>1, SoundParts, Zenon
  <2>3. QED
    BY <1>1, <1>3, <1>4, <2>2
<1>6. LoopInv'
  <2>1. failures' = {} => failures = {} /\ errors = {}
    BY <1>4
  <2>2. \A j \in 1..(k' - 1) : j = k \/ j \in 1..(k - 1)
    BY <1>2, <1>4
  <2>3. failures' = {} => ContractErrors(contract) = {}
    BY <1>1, <2>1 DEF LoopInv
  <2>4. failures' = {} => \A j \in 1..(k' - 1) : Passes(contract.examples[j])
    BY <1>1, <1>3, <2>1, <2>2, Zenon DEF LoopInv
  <2>5. k' \in Nat \ {0} /\ k' <= Len(contract.examples) + 1
    BY <1>2, <1>4
  <2>6. QED
    BY <1>2, <1>4, <2>3, <2>4, <2>5, RepoStays DEF LoopInv
<1>7. QED
  BY <1>1, <1>4, <1>5, <1>6, RepoStays DEF RunInv

\* A run that reports nothing has seen every example.
LEMMA EndOfRunInv ==
  ASSUME RepoInv, RunInv, EndOfRun, repo' = repo
  PROVE  RunInv'
<1>1. /\ step = "examples" /\ phase = "idle" /\ k > Len(contract.examples)
      /\ LoopInv /\ FilesPresent
      /\ failures # {} => ~ Sound
      /\ failures = {} => SchemasValid
  BY DEF EndOfRun, RunInv
<1>2. step' = "ended" /\ failures' = failures /\ phase' = phase
  BY DEF EndOfRun, Step, validatorVars
<1>3. ASSUME failures = {}
      PROVE  Sound
  <2>1. Loadable(CONTRACT) /\ contract.examples # None /\ k \in Nat
    BY <1>1 DEF LoopInv
  <2>2. contract.examples \in Seq(STRING)
    BY <2>1, ListedExamples, Zenon
  <2>3. ContractErrors(contract) = {} /\ \A j \in 1..(k - 1) : Passes(contract.examples[j])
    BY <1>1, <1>3 DEF LoopInv
  <2>4. ASSUME NEW p \in ToSet(contract.examples)
        PROVE  Passes(p)
    <3>1. PICK j \in 1..Len(contract.examples) : p = contract.examples[j]
      <4>1. \A s \in Seq(STRING) : \A x \in ToSet(s) : \E n \in 1..Len(s) : x = s[n]
        BY DEF ToSet
      <4>2. QED
        BY <2>2, <2>4, <4>1, Zenon
    <3>2. j \in 1..(k - 1)
      <4>1. \A s \in Seq(STRING) : Len(s) \in Nat
        OBVIOUS
      <4>2. Len(contract.examples) \in Nat
        BY <2>2, <4>1, Zenon
      <4>3. QED
        BY <1>1, <2>1, <4>2
    <3>3. QED
      BY <2>3, <3>1, <3>2, Zenon
  <2>5. ContractHolds
    BY <2>1, <2>3, Zenon DEF ContractHolds, Loadable, Unreadable, contract
  <2>6. QED
    BY <1>1, <1>3, <2>4, <2>5, SoundParts
<1>4. QED
  BY <1>1, <1>2, <1>3, NoneMissing, RepoStays DEF RunInv

\* A step of check_example leaves the loop where it is.
LEMMA ValidateInv ==
  ASSUME RunInv, Validate, repo' = repo
  PROVE  RunInv'
<1>1. ValidatorNext /\ step' = step /\ k' = k /\ failures' = failures
  BY DEF Validate
<1>2. phase # "idle"
  BY <1>1, Zenon DEF ValidatorNext, CheckEnvelope, CheckRecord, RecordsChecked, CheckPair,
       PairsChecked, CheckIds, CheckLengths, CheckPassthrough, PassthroughChecked
<1>3. CASE step = "examples"
  <2>1. LoopInv /\ ExampleOpen
    BY <1>2, <1>3 DEF RunInv, LoopInv
  <2>2. ValidatorInv' /\ ErrorsInv' /\ doc' = doc
    BY <1>1, <2>1, NextValidatorInv, NextErrorsInv, DocStays DEF ExampleOpen
  <2>3. ExampleOpen'
    BY <1>1, <2>1, <2>2, RepoStays, Zenon DEF ExampleOpen
  <2>4. LoopInv'
    BY <1>1, <2>1, <2>3, RepoStays DEF LoopInv
  <2>5. QED
    BY <1>1, <1>3, <2>4, RepoStays DEF RunInv
<1>4. step = "examples"
  BY <1>2 DEF Validate, RunInv
<1>5. QED
  BY <1>3, <1>4

\* A schema that is none may end a run with a traceback.
LEMMA SchemaRaisesInv ==
  ASSUME RunInv, SchemaRaises, repo' = repo
  PROVE  RunInv'
<1>1. step' = "raised" /\ failures' = failures /\ phase = "records" /\ InvalidSchema
  BY DEF SchemaRaises, Raise, Step
<1>2. ~ Sound
  BY <1>1, SoundParts, Zenon DEF InvalidSchema, SchemasValid
<1>3. step = "examples" /\ Missing = {}
  BY <1>1, NoneMissing DEF SchemaRaises, RunInv
<1>4. QED
  BY <1>1, <1>2, <1>3, RepoStays DEF RunInv

\* The program starts with nothing read and nothing reported.
LEMMA InitChecksInv == ChecksInit => ChecksInv
<1> SUFFICES ASSUME ChecksInit
             PROVE  ChecksInv
  OBVIOUS
<1>1. RepoInv /\ phase = "idle" /\ k = 1 /\ failures = {} /\ (mode = "run" => step = "files")
  BY DEF ChecksInit, RepoInv
<1>2. QED
  BY <1>1 DEF ChecksInv, RunInv

\* What the run has established stays true whatever it does next; the steps of
\* the self test belong to the other mode.
LEMMA NextChecksInv == ChecksInv /\ [ChecksNext]_checksVars => ChecksInv'
<1> SUFFICES ASSUME ChecksInv, [ChecksNext]_checksVars
             PROVE  ChecksInv'
  OBVIOUS
<1>1. repo' = repo /\ mode' = mode
  BY RepoIsKept
<1>2. RepoInv'
  BY <1>1, Zenon DEF ChecksInv, RepoInv
<1>3. ASSUME mode = "run"
      PROVE  RunInv'
  <2>1. RunInv /\ RepoInv
    BY <1>3 DEF ChecksInv
  <2>2. step \notin {"cases", "unmutated"}
    BY <2>1 DEF RunInv
  <2>3. CASE CheckFiles \/ LoadSchemas \/ CheckSchemas \/ CheckContract
    BY <1>1, <2>1, <2>3, CheckFilesInv, LoadSchemasInv, CheckSchemasInv, CheckContractInv, Zenon
  <2>4. CASE OpenExample \/ CloseExample \/ EndOfRun
    BY <1>1, <2>1, <2>4, OpenExampleInv, CloseExampleInv, EndOfRunInv, Zenon
  <2>5. CASE Validate \/ SchemaRaises
    BY <1>1, <2>1, <2>5, ValidateInv, SchemaRaisesInv, Zenon
  <2>6. ~ LoadSelfTest
    BY <1>3, Zenon DEF LoadSelfTest
  <2>7. ~ (OpenCase \/ CloseCase \/ BadContract)
    BY <2>2, Zenon DEF OpenCase, CloseCase, BadContract
  <2>8. ~ (OpenUnmutated \/ CloseUnmutated \/ EndOfSelfTest)
    BY <2>2, Zenon DEF OpenUnmutated, CloseUnmutated, EndOfSelfTest
  <2>9. CASE UNCHANGED checksVars
    <3>1. UNCHANGED validatorVars /\ step' = step /\ k' = k /\ failures' = failures
      BY <2>9 DEF checksVars
    <3>2. /\ doc' = doc /\ phase' = phase /\ i' = i /\ errors' = errors
      BY <3>1 DEF validatorVars
    <3>3. ExampleOpen => ValidatorInv' /\ ErrorsInv'
      BY <3>1, NextValidatorInv, NextErrorsInv DEF ExampleOpen
    <3>4. ExampleOpen => ExampleOpen'
      BY <3>1, <3>2, <3>3, <1>1, RepoStays, Zenon DEF ExampleOpen
    <3>5. LoopInv => LoopInv'
      BY <3>1, <3>2, <3>4, <1>1, RepoStays DEF LoopInv
    <3>6. QED
      BY <2>1, <3>1, <3>2, <3>5, <1>1, RepoStays DEF RunInv
  <2>10. QED
    BY <2>3, <2>4, <2>5, <2>6, <2>7, <2>8, <2>9, Zenon DEF ChecksNext
<1>4. QED
  BY <1>1, <1>2, <1>3 DEF ChecksInv

\* The invariant says which runs report nothing when they end.
LEMMA InvGivesPass == ChecksInv => PassIsExact
<1> SUFFICES ASSUME ChecksInv, Ended("run")
             PROVE  ExitStatus = 0 <=> Sound
  BY DEF PassIsExact
<1>1. RunInv /\ step \in {"ended", "raised"}
  BY DEF ChecksInv, Ended
<1>2. QED
  BY <1>1 DEF RunInv, ExitStatus

\* It also says what they report where a file is missing.
LEMMA InvGivesMissing == ChecksInv => MissingIsReported
<1> SUFFICES ASSUME ChecksInv, Ended("run"), Missing # {},
                    \A p \in REQUIRED_FILES : repo[p] # Binary
             PROVE  step = "ended" /\ failures = Missing
  BY Zenon DEF MissingIsReported
<1>1. RunInv /\ step \in {"ended", "raised"}
  BY DEF ChecksInv, Ended
<1>2. QED
  BY <1>1 DEF RunInv

(***************************************************************************)
(* Theorems.                                                               *)
(***************************************************************************)

\* run_checks exits with status 0 exactly for a sound repository, whatever its
\* contract lists and however long the examples are.
THEOREM PassExact == ChecksSpec => []PassIsExact
<1>1. ChecksSpec => []ChecksInv
  BY InitChecksInv, NextChecksInv, PTL DEF ChecksSpec
<1>2. QED
  BY <1>1, InvGivesPass, PTL

\* A required file that is missing or empty is always reported by its name.
THEOREM MissingReported == ChecksSpec => []MissingIsReported
<1>1. ChecksSpec => []ChecksInv
  BY InitChecksInv, NextChecksInv, PTL DEF ChecksSpec
<1>2. QED
  BY <1>1, InvGivesMissing, PTL
===========================================================================
