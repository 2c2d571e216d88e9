--------------------------- MODULE RuntimeChecks ---------------------------
(***************************************************************************)
(* validate_runtime.main: run_checks over a whole repository, and the      *)
(* self test, which feeds mutated examples to the same check_example       *)
(* (module RuntimeValidator).  Nothing is caught around either: an         *)
(* exception ends the program with a traceback and exit status 1.          *)
(***************************************************************************)
EXTENDS RuntimeValidator, SequencesExt

CONSTANTS
  Paths,     \* files
  Runs,      \* a repository, which is a content for each of Paths, and a mode
  Absent,    \* contents: no such file
  Blank,     \*   a file of nothing but whitespace
  Binary,    \*   bytes that are not UTF-8
  NotJson,   \*   a text that is not the JSON document its reader takes it for
  None,      \* a member that is missing
  Altered    \* a value no example holds

CONTRACT == "contracts/runtime-contract-v1.json"

Unreadable == {Absent, Blank, Binary, NotJson}

\* The examples that the contract of repository r lists.
Listed(c)   == IF c.examples = None THEN <<>> ELSE c.examples
ExampleContents(r) ==
  IF r[CONTRACT] \in Unreadable THEN {}
  ELSE {r[p] : p \in Paths \cap ToSet(Listed(r[CONTRACT]))}

\* A file is what its reader makes of it: a schema is valid, of another dialect
\* or invalid, and what a contract lists as an example is one of Docs.
ASSUME RunsAssumption ==
  /\ "valid" \notin Unreadable
  /\ \A run \in Runs :
       run[1][CONTRACT] \notin Unreadable => Listed(run[1][CONTRACT]) \in Seq(STRING)
  /\ UNION {ExampleContents(run[1]) : run \in Runs} \subseteq Docs \cup Unreadable

VARIABLES
  repo,
  mode,       \* "run" or "self_test"
  step,       \* the part of the program; "ended" or "raised" at its end
  k,          \* index of the loop over examples or cases
  failures    \* the reports that began with FAIL

checksVars == <<validatorVars, repo, mode, step, k, failures>>

SCHEMA_NAMES == <<"intent", "event", "observe", "meta", "invariant", "canonical-record">>
RECORD_FIELDS == <<"intent", "event", "observe", "meta", "invariant">>

SchemaFile(n) == "schemas/" \o n \o ".schema.json"
SchemaFiles   == {SchemaFile(n) : n \in ToSet(SCHEMA_NAMES)}

ExampleFiles ==
  {"examples/verify-success.json", "examples/verify-fail.json", "examples/replay.json"}

REQUIRED_FILES ==
  {"README.md", "GOVERNANCE.md", "LICENSE", CONTRACT, "docs/runtime-model.md",
   "docs/audit-model.md", "releases/runtime-contract-v1.0.md",
   "tools/validate_runtime.py", ".github/workflows/runtime-check.yml"}
    \cup SchemaFiles \cup ExampleFiles

IsFile(p)   == p \in Paths /\ repo[p] # Absent
Loadable(p) == IsFile(p) /\ repo[p] \notin Unreadable
contract    == repo[CONTRACT]

\* A schema is "valid", "other dialect", or "invalid" as a schema.
InvalidSchema == \E s \in SchemaFiles : repo[s] = "invalid"

ChecksInit ==
  /\ doc = CHOOSE d \in Docs : TRUE
  /\ phase = "idle" /\ i = 1 /\ errors = {}
  /\ \E run \in Runs : repo = run[1] /\ mode = run[2]
  /\ step = IF mode = "run" THEN "files" ELSE "load"
  /\ k = 1
  /\ failures = {}

Step(s, failed) ==
  /\ step' = s
  /\ failures' = failures \cup failed
  /\ UNCHANGED <<repo, mode>>

Raise == Step("raised", {}) /\ k' = k /\ UNCHANGED validatorVars

---------------------------------------------------------------------------
(* run_checks, up to the examples.                                         *)

Missing == {p \in REQUIRED_FILES : ~ IsFile(p) \/ repo[p] = Blank}

\* Mutant: what is missing is reported, and the checks go on.
CheckFilesGoOn ==
  /\ step = "files"
  /\ IF \E p \in REQUIRED_FILES : repo[p] = Binary THEN Raise
     ELSE Step("load", Missing) /\ UNCHANGED <<validatorVars, k>>

CheckFiles ==
  /\ step = "files"
  /\ IF \E p \in REQUIRED_FILES : repo[p] = Binary THEN Raise
     ELSE /\ Step(IF Missing = {} THEN "load" ELSE "ended", Missing)
          /\ UNCHANGED <<validatorVars, k>>

LoadSchemas ==
  /\ mode = "run" /\ step = "load"
  /\ IF \A s \in SchemaFiles : Loadable(s)
     THEN Step("schemas", {}) /\ UNCHANGED <<validatorVars, k>>
     ELSE Raise

CheckSchemas ==
  /\ step = "schemas"
  /\ Step("contract", {s \in SchemaFiles : repo[s] # "valid"})
  /\ UNCHANGED <<validatorVars, k>>

Lacking(paths) == {p \in paths : ~ IsFile(p)}

\* check_contract.
ContractErrors(c) ==
  LET paths == {c.schema} \cup {l.schema : l \in ToSet(c.layers)} \cup ToSet(Listed(c))
  IN  {<<"referenced file missing", p>> : p \in Lacking(paths)}
        \cup (IF [n \in DOMAIN c.layers |-> c.layers[n].field] = RECORD_FIELDS
              THEN {} ELSE {<<"layer fields">>})
        \cup (IF c.fields = RECORD_FIELDS THEN {} ELSE {<<"canonical_record.fields">>})
        \cup (IF c.spec THEN {} ELSE {<<"spec_reference">>})
        \cup (IF c.reserved THEN {} ELSE {<<"invariant_rules">>})
        \cup (IF c.guarantees = <<"G1", "G2", "G3", "G4">> THEN {} ELSE {<<"guarantees">>})

\* The list of examples may be missing for check_contract, but not for the loop.
CheckContract ==
  /\ step = "contract"
  /\ IF ~ Loadable(CONTRACT) THEN Raise
     ELSE /\ Step(IF contract.examples = None THEN "raised" ELSE "examples",
                  IF ContractErrors(contract) = {} THEN {} ELSE {CONTRACT})
          /\ UNCHANGED <<validatorVars, k>>

---------------------------------------------------------------------------
(* check_example, as a part of either loop.                                *)

Begin(d) == doc' = d /\ phase' = "envelope" /\ i' = 1 /\ errors' = {}

Validate ==
  /\ step # "raised"
  /\ ValidatorNext
  /\ UNCHANGED <<repo, mode, step, k, failures>>

\* The validator of jsonschema may fail on a schema that is none.
SchemaRaises ==
  /\ step # "raised" /\ phase = "records" /\ i <= Len(records)
  /\ InvalidSchema
  /\ Raise

\* Back in the loop, with failed for what the errors of the example mean there.
Close(failed) ==
  /\ phase = "done"
  /\ phase' = "idle" /\ UNCHANGED <<doc, i, errors>>
  /\ Step(step, failed)
  /\ k' = k + 1

OpenExample ==
  /\ step = "examples" /\ phase = "idle" /\ k <= Len(contract.examples)
  /\ LET path == contract.examples[k]
     IN  IF Loadable(path)
         THEN Begin(repo[path]) /\ Step(step, {}) /\ k' = k
         ELSE Raise

\* Mutant: each report replaces the one before.
CloseExampleLast ==
  /\ step = "examples" /\ phase = "done"
  /\ phase' = "idle" /\ k' = k + 1
  /\ failures' = IF errors = {} THEN {} ELSE {contract.examples[k]}
  /\ UNCHANGED <<doc, i, errors, repo, mode, step>>

CloseExample ==
  /\ step = "examples"
  /\ Close(IF errors = {} THEN {} ELSE {contract.examples[k]})

EndOfRun ==
  /\ step = "examples" /\ phase = "idle" /\ k > Len(contract.examples)
  /\ Step("ended", {})
  /\ UNCHANGED <<validatorVars, k>>

---------------------------------------------------------------------------
(* self_test.                                                              *)

\* The examples of the repository.
ExampleRecord(n, invariant) ==
  [ schema |-> TRUE, refs |-> TRUE, occurred |-> 10 * n - 10, observed |-> 10 * n - 9,
    timestamp |-> 10 * n - 8, sequence |-> n, id |-> n, invariant |-> invariant,
    intent |-> "intent-" \o ToString(n) ]
ExampleDoc(stream, rs) ==
  [envelope |-> TRUE, stream |-> stream, records |-> rs,
   submissions |-> [n \in DOMAIN rs |-> [id |-> rs[n].id, invariant |-> rs[n].invariant,
                                         intent |-> rs[n].intent]]]
VerifySuccess == ExampleDoc(FALSE, <<ExampleRecord(1, "A")>>)
ReplayStream  ==
  ExampleDoc(TRUE, <<ExampleRecord(1, "A"), ExampleRecord(2, "null"), ExampleRecord(3, "B")>>)

success == repo["examples/verify-success.json"]
replay  == repo["examples/replay.json"]

\* Mutant: only the records are reversed.
OutOfOrderRecords == [replay EXCEPT !.records = Reverse(@)]

\* records.reverse() returns None, so that the submissions are reversed as well.
OutOfOrder == [replay EXCEPT !.records = Reverse(@), !.submissions = Reverse(@)]

\* Each mutation and the rules that its label speaks of.  Instants are seconds
\* of 2026-01-01; -1 is the last second of the day before.
cases ==
  << <<[replay EXCEPT !.records[2].sequence = replay.records[1].sequence], {"sequence"}>>,
     <<OutOfOrder, {"sequence", "occurred_at decreases", "timestamp decreases"}>>,
     <<[replay EXCEPT !.records[3].occurred = 5, !.records[3].observed = 6,
                      !.records[3].timestamp = 7],
       {"occurred_at decreases", "timestamp decreases"}>>,
     <<[replay EXCEPT !.records[3].timestamp = -1], {"timestamp"}>>,
     <<[replay EXCEPT !.records[3].invariant = Altered], {"invariant"}>>,
     <<[success EXCEPT !.records[1].invariant = Altered], {"invariant"}>>,
     <<[success EXCEPT !.records[1].invariant = "null"], {"invariant"}>>,
     <<[success EXCEPT !.records[1].schema = FALSE], {"schema"}>>,  \* invariant removed
     <<[success EXCEPT !.records[1].schema = FALSE], {"schema"}>>,  \* explanation added
     <<[success EXCEPT !.records[1].schema = FALSE], {"schema"}>>,  \* extra field
     <<[success EXCEPT !.records[1].schema = FALSE], {"schema"}>>,  \* meta removed
     <<[success EXCEPT !.records[1].refs = FALSE], {"refs"}>>,
     <<[success EXCEPT !.records[1].intent = Altered], {"intent"}>>,
     <<[success EXCEPT !.envelope = FALSE], {"envelope"}>>,
     <<[success EXCEPT !.records[1].schema = FALSE], {"schema"}>> >> \* contract tag

\* The mutations reach into the examples, and raise where nothing is there.
HasShape == replay.stream /\ Len(replay.records) >= 3 /\ ~ success.stream
MayLack(d) ==
  \/ ~ d.envelope
  \/ d.stream /\ d.submissions = <<>>
  \/ \E n \in 1..Len(d.records) : ~ d.records[n].schema

LoadSelfTest ==
  /\ mode = "self_test" /\ step = "load"
  /\ LET read == \A p \in SchemaFiles \cup {CONTRACT, "examples/verify-success.json",
                                             "examples/replay.json"} : Loadable(p)
     IN  \/ read /\ HasShape
            /\ Step("cases", {}) /\ UNCHANGED <<validatorVars, k>>
         \/ ~ read /\ Raise
         \/ read /\ (~ HasShape \/ MayLack(success) \/ MayLack(replay)) /\ Raise

OpenCase ==
  /\ step = "cases" /\ phase = "idle" /\ k <= Len(cases)
  /\ Begin(cases[k][1])
  /\ Step(step, {}) /\ k' = k

CloseCase ==
  /\ step = "cases"
  /\ Close(IF errors # {} THEN {} ELSE {<<step, k>>})

\* The contract that names a missing schema.
BadContract ==
  /\ step = "cases" /\ phase = "idle" /\ k > Len(cases)
  /\ IF contract.layers = <<>> THEN Raise
     ELSE /\ LET bad == [contract EXCEPT !.layers[1].schema = "schemas/missing.schema.json"]
             IN  Step("unmutated", IF ContractErrors(bad) # {} THEN {} ELSE {<<step, 0>>})
          /\ k' = 1
          /\ UNCHANGED validatorVars

Unmutated == <<success, replay>>

OpenUnmutated ==
  /\ step = "unmutated" /\ phase = "idle" /\ k <= Len(Unmutated)
  /\ Begin(Unmutated[k])
  /\ Step(step, {}) /\ k' = k

CloseUnmutated ==
  /\ step = "unmutated"
  /\ Close(IF errors = {} THEN {} ELSE {<<step, k>>})

EndOfSelfTest ==
  /\ step = "unmutated" /\ phase = "idle" /\ k > Len(Unmutated)
  /\ Step("ended", {})
  /\ UNCHANGED <<validatorVars, k>>

---------------------------------------------------------------------------

ChecksNext ==
  \/ CheckFiles
  \/ LoadSchemas
  \/ CheckSchemas
  \/ CheckContract
  \/ OpenExample
  \/ CloseExample
  \/ EndOfRun
  \/ LoadSelfTest
  \/ OpenCase
  \/ CloseCase
  \/ BadContract
  \/ OpenUnmutated
  \/ CloseUnmutated
  \/ EndOfSelfTest
  \/ Validate
  \/ SchemaRaises

ChecksSpec == ChecksInit /\ [][ChecksNext]_checksVars /\ WF_checksVars(ChecksNext)

ExitStatus == IF step = "raised" \/ failures # {} THEN 1 ELSE 0

---------------------------------------------------------------------------

Ended(m) == mode = m /\ step \in {"ended", "raised"}

\* A repository in which nothing is wrong that run_checks looks for.
Sound ==
  /\ \A p \in REQUIRED_FILES : IsFile(p) /\ repo[p] \notin {Blank, Binary}
  /\ \A s \in SchemaFiles : repo[s] = "valid"
  /\ contract # NotJson
  /\ ContractErrors(contract) = {}
  /\ contract.examples # None
  /\ \A p \in ToSet(contract.examples) : Loadable(p) /\ ~ Broken(repo[p])

\* The exit status is 0 exactly for a sound repository, whichever of the early
\* returns and exceptions ends the run.
PassIsExact == Ended("run") => (ExitStatus = 0 <=> Sound)

\* What is missing is reported by name before anything is read that needs it:
\* a traceback never stands for a required file that is missing or empty.
MissingIsReported ==
  Ended("run") /\ Missing # {} /\ (\A p \in REQUIRED_FILES : repo[p] # Binary) =>
    step = "ended" /\ failures = Missing

\* With the examples of the repository every mutation is rejected for the rule
\* that its label names and for no other, so that no case passes because of
\* something else that is wrong with it.
CasesNameTheirRule ==
  step = "cases" /\ phase = "done"
    /\ success = VerifySuccess /\ replay = ReplayStream =>
      {e[1] : e \in errors} = cases[k][2]

\* "Every example validates": those that have to be there.
EveryExampleIsChecked ==
  Ended("run") /\ ExitStatus = 0 =>
    \A p \in ExampleFiles : Loadable(p) /\ ~ Broken(repo[p])
===========================================================================
