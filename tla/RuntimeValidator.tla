-------------------------- MODULE RuntimeValidator --------------------------
(***************************************************************************)
(* validate_runtime.check_example: the F.1 validator on one example, which *)
(* is a single record or a stream of records, with or without the          *)
(* submissions they were made from.  Streams are checked record by record, *)
(* then neighbour by neighbour, then against the submissions; several      *)
(* early returns lie in between.                                           *)
(***************************************************************************)
EXTENDS Integers, Sequences

CONSTANTS
  Docs,          \* the examples that are checked
  Ids,           \* record ids
  Values,        \* JSON values as they are spelled in a file
  Unparsable,    \* a timestamp that datetime.fromisoformat refuses
  Rewritten(_)   \* external: json.dumps of what json.load makes of a value

\* What check_record and its callers look at.  Timestamps are the instants
\* they parse to: the schema asks for the suffix "Z", so all have an offset.
Record ==
  [ schema    : BOOLEAN,   \* it satisfies canonical-record.schema.json
    refs      : BOOLEAN,   \* event.intent_ref and observe.event_ref name the
                           \*   intent and the event of the record itself
    occurred  : Int \cup {Unparsable},
    observed  : Int \cup {Unparsable},
    timestamp : Int \cup {Unparsable},
    sequence  : Int,
    id        : Ids,
    invariant : Values,
    intent    : Values ]

Submission == [id : Ids, invariant : Values, intent : Values]

\* A single record is a stream of one that skips the checks on streams; no
\* submissions and an empty list of them are the same to the code.
ASSUME DocsAssumption ==
  \A d \in Docs :
    /\ d.envelope \in BOOLEAN /\ d.stream \in BOOLEAN
    /\ d.records \in Seq(Record) /\ d.records # <<>>
    /\ d.submissions \in Seq(Submission)
    /\ ~ d.stream => Len(d.records) = 1 /\ Len(d.submissions) <= 1

VARIABLES
  doc,
  phase,     \* the part of check_example that is running
  i,         \* index of its loop
  errors     \* the errors so far, each a rule and the index of a record

validatorVars == <<doc, phase, i, errors>>

records     == doc.records
submissions == doc.submissions

ValidatorInit ==
  /\ doc \in Docs
  /\ phase = "envelope"
  /\ i = 1
  /\ errors = {}

Goto(p, n) == phase' = p /\ i' = n /\ UNCHANGED doc

---------------------------------------------------------------------------

CheckEnvelope ==
  /\ phase = "envelope"
  /\ \/ ~ doc.envelope /\ errors' = {<<"envelope", 0>>} /\ Goto("done", i)
     \/ doc.envelope /\ errors' = errors /\ Goto("records", 1)

\* check_record: the schema first; a timestamp that does not parse ends it.
RecordErrors(r, n) ==
  IF ~ r.schema THEN {<<"schema", n>>}
  ELSE (IF r.refs THEN {} ELSE {<<"refs", n>>})
         \cup (IF Unparsable \in {r.occurred, r.observed, r.timestamp}
               THEN {<<"unparsable", n>>}
               ELSE (IF r.occurred <= r.observed THEN {} ELSE {<<"observed_at", n>>})
                      \cup (IF r.observed <= r.timestamp THEN {} ELSE {<<"timestamp", n>>}))

CheckRecord ==
  /\ phase = "records" /\ i <= Len(records)
  /\ errors' = errors \cup RecordErrors(records[i], i)
  /\ Goto("records", i + 1)

\* The comparisons that follow rely on records without errors.
RecordsChecked ==
  /\ phase = "records" /\ i > Len(records)
  /\ UNCHANGED errors
  /\ \/ errors # {} /\ Goto("done", i)
     \/ errors = {} /\ doc.stream /\ Goto("ordering", 2)
     \/ errors = {} /\ ~ doc.stream /\ Goto("passthrough", 1)

\* Mutant: equal sequence numbers are in order.
PairErrorsNotStrict(prev, cur, n) ==
  (IF cur.sequence >= prev.sequence THEN {} ELSE {<<"sequence", n>>})
    \cup (IF cur.occurred < prev.occurred THEN {<<"occurred_at decreases", n>>} ELSE {})
    \cup (IF cur.timestamp < prev.timestamp THEN {<<"timestamp decreases", n>>} ELSE {})

\* check_ordering on two neighbours.
PairErrors(prev, cur, n) ==
  (IF cur.sequence > prev.sequence THEN {} ELSE {<<"sequence", n>>})
    \cup (IF cur.occurred < prev.occurred THEN {<<"occurred_at decreases", n>>} ELSE {})
    \cup (IF cur.timestamp < prev.timestamp THEN {<<"timestamp decreases", n>>} ELSE {})

CheckPair ==
  /\ phase = "ordering" /\ i <= Len(records)
  /\ errors' = errors \cup PairErrors(records[i - 1], records[i], i)
  /\ Goto("ordering", i + 1)

PairsChecked ==
  /\ phase = "ordering" /\ i > Len(records)
  /\ UNCHANGED errors
  /\ Goto("ids", i)

CheckIds ==
  /\ phase = "ids"
  /\ errors' = IF \E j, k \in 1..Len(records) : j # k /\ records[j].id = records[k].id
               THEN errors \cup {<<"record_id", 0>>} ELSE errors
  /\ Goto("lengths", i)

\* Mutant: zip takes care of the lengths.
CheckLengthsByZip ==
  /\ phase = "lengths"
  /\ UNCHANGED errors
  /\ Goto("passthrough", 1)

CheckLengths ==
  /\ phase = "lengths"
  /\ errors' = IF submissions # <<>> /\ Len(submissions) # Len(records)
               THEN errors \cup {<<"lengths", 0>>} ELSE errors
  /\ Goto("passthrough", 1)

same_value(a, b) == Rewritten(a) = Rewritten(b)

\* check_passthrough: values are compared only between records of the same id.
PassthroughErrors(s, r, n) ==
  IF s.id # r.id THEN {<<"record_id", n>>}
  ELSE (IF same_value(s.invariant, r.invariant) THEN {} ELSE {<<"invariant", n>>})
         \cup (IF same_value(s.intent, r.intent) THEN {} ELSE {<<"intent", n>>})

\* zip(subs, records) ends with the shorter of the two.
Zipped(n) == n <= Len(submissions) /\ n <= Len(records)

CheckPassthrough ==
  /\ phase = "passthrough" /\ Zipped(i)
  /\ errors' = errors \cup PassthroughErrors(submissions[i], records[i], i)
  /\ Goto("passthrough", i + 1)

\* Mutant: a stream is accepted once its last check finds nothing.
PassthroughCheckedAlone ==
  /\ phase = "passthrough" /\ ~ Zipped(i)
  /\ errors' = {e \in errors : e[1] \in {"invariant", "intent", "record_id"}}
  /\ Goto("done", i)

PassthroughChecked ==
  /\ phase = "passthrough" /\ ~ Zipped(i)
  /\ UNCHANGED errors
  /\ Goto("done", i)

ValidatorNext ==
  \/ CheckEnvelope
  \/ CheckRecord
  \/ RecordsChecked
  \/ CheckPair
  \/ PairsChecked
  \/ CheckIds
  \/ CheckLengths
  \/ CheckPassthrough
  \/ PassthroughChecked

ValidatorSpec == ValidatorInit /\ [][ValidatorNext]_validatorVars

---------------------------------------------------------------------------

Passed == phase = "done" /\ errors = {}

\* Record a lies before record b in a stream.
Ordered(a, b) ==
  /\ a.sequence < b.sequence
  /\ a.occurred <= b.occurred
  /\ a.timestamp <= b.timestamp

InOrder(j, k) == Ordered(records[j], records[k])

\* G1 over the whole stream, from comparisons of neighbours: any two records are
\* in order, their ids differ, and no record was persisted before an event of
\* an earlier record occurred.
PassedStreamIsOrdered ==
  Passed /\ doc.stream =>
    /\ \A j, k \in 1..Len(records) :
         j < k => InOrder(j, k) /\ records[j].id # records[k].id
    /\ \A j, k \in 1..Len(records) :
         j <= k => records[j].occurred <= records[k].timestamp

\* G3 as the code understands it: with submissions, each record has one of its
\* own and repeats its invariant and its intent, up to a rewriting of both.
PassedIsPreserved ==
  Passed /\ submissions # <<>> =>
    /\ Len(submissions) = Len(records)
    /\ \A n \in 1..Len(records) :
         /\ submissions[n].id = records[n].id
         /\ same_value(submissions[n].invariant, records[n].invariant)
         /\ same_value(submissions[n].intent, records[n].intent)

\* The rules that an example can break, each of the whole example.
Broken(d) ==
  LET rs == d.records
      ss == d.submissions
  IN  \/ ~ d.envelope
      \/ \E n \in 1..Len(rs) :
           \/ ~ rs[n].schema
           \/ ~ rs[n].refs
           \/ Unparsable \in {rs[n].occurred, rs[n].observed, rs[n].timestamp}
           \/ ~ (rs[n].occurred <= rs[n].observed)
           \/ ~ (rs[n].observed <= rs[n].timestamp)
      \/ d.stream /\ \E j, k \in 1..Len(rs) :
           j < k /\ (~ Ordered(rs[j], rs[k]) \/ rs[j].id = rs[k].id)
      \/ ss # <<>> /\ Len(ss) # Len(rs)
      \/ \E n \in 1..Len(rs) :
           /\ n <= Len(ss)
           /\ \/ ss[n].id # rs[n].id
              \/ ~ same_value(ss[n].invariant, rs[n].invariant)
              \/ ~ same_value(ss[n].intent, rs[n].intent)

\* An example is rejected exactly when it breaks a rule, although an early
\* return hides the rules that come after it.
RejectsExactlyBroken == phase = "done" => (errors # {} <=> Broken(doc))

\* G3 as audit-model.md states it: the numeric representation is kept too.
NumericFormIsKept ==
  Passed /\ submissions # <<>> =>
    \A n \in 1..Len(records) : submissions[n].invariant = records[n].invariant
===========================================================================
