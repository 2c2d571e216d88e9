# Specifications of pi3xi-runtime

TLA+ modules for the audit package of pi3xi-runtime (`audit-package/`): what its
tools decide about a record, its hash sidecar and its baseline, what they may decide when
files change while they run, how its generators derive what they write, what a chain
of runs leaves on disk; and for the F.1 runtime validator (`tools/validate_runtime.py`).
TLC checks each module on small instances; TLAPS proves the main theorems about the
audit, its contract, replay, the scanner with its grammar and its lexemes, the format
stage, the fixture tree with its tools, and the validator for every instance.

    tlc -workers 2 -config MCAuditWrites.cfg MCAuditHistory     # one run
    tlapm AuditProofs.tla     # one module of proofs

`PROJECT.json` lists the components, the runs with their properties, the source
lines each definition stands for, the hazards and the theorems.

## 1. The system

A *record* is one line of JSON with five sections (`intent`, `event`, `observe`,
`meta`, `invariant`) and a final LF. Its identity is the SHA-256 of its exact
bytes, kept in a *sidecar* file `<record>.sha256`. The package never
re-serializes a record: it reads the bytes with a scanner of its own.

| Component | State | Operations | Talks to |
|---|---|---|---|
| reason registry (`spec/rejection-reasons.json`, `errors.py`) | none | `ValidationError`, `primary` | every stage |
| record store (`generate_success_fixtures.py`) | record and sidecar files | `write_pair`: record first, then sidecar | the disk |
| `audit_record` (`verify.py`) | one call: bytes read, findings | format, hash and baseline stage, primary code | the disk, the three stages |
| `replay_compare` (`verify.py`) | one call: two readings, a temporary copy | copy, read back, compare with the sidecar | the disk |
| scanner (`canonical.py`) | position, recursion, first whitespace, first duplicate | `_ws`, `_value`, `_object`, `_array`, `_string`, `_number` | called by the format stage |
| format stage (`check_format`) | one call | decode, scan, checks in order of precedence | scanner, F.1 schema |
| baseline comparison (`compare_to_baseline`) | one call | section by section, numeric differences | format stage |
| negative fixtures (`generate_negative_cases.py`, `fixtures.py`) | `fixtures/failure/` | remove all, regenerate from the baseline, `materialize` | `audit_record` |
| test vectors (`generate_test_vectors.py`) | `fixtures/vectors/`, index | remove all, regenerate, write the index last | format stage, comparison |
| audit tool (`audit.py`), hash sweep (`verify_hashes.py`) | counters, logs, reports | sweep over all fixtures, write reports at the end | everything above |
| package builder (`build_audit_package.py`) | none | sorted files into a ZIP | the disk |
| F.1 validator (`tools/validate_runtime.py`) | error lists, failures | `check_example` with its parts, `check_contract`, `run_checks`, `self_test` | required files, schemas, contract, examples |

The tools are separate processes that share the files and nothing else: no locks,
no temporary names, no renames. What is hard about them:

- *Files are read at different instants.* `audit_record` reads the record, looks
  for the sidecar, reads it, and does the same for the baseline after both
  stages have run; `replay_compare` reads the record twice and the sidecar last.
  Another process may write in between.
- *Writes are not atomic.* `write_pair` truncates, writes the record, truncates,
  writes the sidecar, and can be killed after each of them.
- *Regeneration is destructive.* The case and vector generators remove what is
  there before they know that they can write anything; a failure or a kill leaves
  the tree with less than it had, or with half of a case.
- *Reports outlive the run that wrote them.* `audit.py` writes them at the very end
  and the package takes whatever lies there.
- *Exceptions of three kinds.* A `ValidationError` is a finding, a
  `BaselineError` is a usage error, anything else leaves the tool.
- *Order decides.* The reported code depends on the order of a dozen checks, on
  numbers in a file, and on which stage ran at all.
- *Offsets.* The scanner's recursion, its offsets and the decoded names carry
  everything the later stages know of the text; the generators cut and splice by them.
- *Three readers of one text.* `minify` follows strings by itself, the edits of the
  negative cases search for bytes wherever these begin and end, the scanner does neither.
- *A test of tests.* The self test counts a mutation as caught whatever rule rejects
  it, and `run_checks` takes the list of examples from a file that it checks.

What makes each part correct:

- registry: the primary code is the applicable code of lowest precedence number;
- store and audit: a record is accepted only if a generator published those
  bytes at that path, and, while only the generator writes, only if record and
  digest were on disk together. More generally every answer, a rejection too, then
  has its reason in what the files held at some instant of the call;
- replay: "ok" means the same, and agrees with the hash stage on a quiet disk;
- scanner: RFC 8259 exactly, and node offsets, duplicates and whitespace exactly;
- format stage: one code, the right one, for every text; always an end;
- comparison: identity accepts, every other pair of canonical records gets the
  documented code of its first difference, and an exception never hides a difference
  that comes first;
- derivation: what is cut out of an example is canonical, each edit fails the stage
  and only the stage it is meant for, vectors have the kind they are listed with;
- generators: three runs that succeed one after the other leave exactly what the
  sources derive, whatever was there before;
- sweeps: what is half written is never judged as if it were whole, and a
  regenerated tree passes;
- package: its logs speak of the fixtures in it;
- F.1 validator: comparisons of neighbours, record by record and submission by
  submission, amount to the rules for the whole stream; the exit status is 0 exactly
  for a sound repository; each case of the self test is rejected for its own rule.

## 2. Modules

| Module | Models | Composed of |
|---|---|---|
| `RejectionReasons` | the registry and `primary` | |
| `Store` | record and sidecar files, `write_pair`, the outside world, the hash stage | `RejectionReasons` |
| `Audit` | `audit_record` on that disk | `Store` |
| `AuditContract` | what `audit_record` promises: one look at the record, one answer | `RejectionReasons` |
| `AuditHistory` | `Audit` with a history of the disk, refining `AuditContract` | `Audit`, `AuditContract` |
| `StoreProofs` | lemmas about steps of the disk | `Store` |
| `AuditProofs` | theorems about `Audit`, and the refinement as a theorem | `AuditHistory`, `StoreProofs` |
| `Replay` | `replay_compare` on that disk | `Store` |
| `ReplayProofs` | theorems about `Replay` | `Replay`, `StoreProofs` |
| `Scanner` | the scanner over lexemes | |
| `JsonGrammar` | the grammar the scanner is to recognise | `Scanner` |
| `Lexemes` | strings, numbers and literals, and `minify`, over characters | |
| `LexemesProofs` | theorems about `Lexemes` | `Lexemes` |
| `FormatStage` | `check_format` | `Scanner`, `RejectionReasons` |
| `FormatRules` | when each format code applies | `FormatStage`, `JsonGrammar` |
| `FormatProofs` | theorems about the scanner and its stack in `FormatStage`, what an accepted text is, the scanner against the grammar, and the reported code against the rules | `FormatRules` |
| `Derivation` | how the generators derive records, cases and vectors from texts | `FormatRules` |
| `Compare` | `compare_to_baseline` | `RejectionReasons` |
| `CompareProofs` | theorems about `Compare` | `Compare` |
| `Fixtures` | the fixture tree, the three generators as tasks of file operations | |
| `AuditPackage` | generators, sweeps, package builder and workflow over that tree | `Fixtures` |
| `AuditPackageProofs` | theorems about `AuditPackage` | `AuditPackage` |
| `RuntimeValidator` | `check_example` of the F.1 validator | |
| `RuntimeChecks` | `run_checks`, `check_contract`, the self test and `main` around it | `RuntimeValidator` |
| `RuntimeChecksProofs` | theorems about `RuntimeValidator` and `RuntimeChecks` | `RuntimeChecks` |
| `MC...` | the instance TLC runs | the module it is named for |

### Store

`record` and `sidecar` map each path to the contents of its two files. Contents
are opaque: all that matters of them is what `check_format` says (`FormatCode`)
and their digest (`Sha256`), both constants with named assumptions. A sidecar is a
digest, `Absent`, or `Malformed` (anything `SIDECAR_RE` rejects). The generator is
`OpenRecord`, `WriteRecord`, `OpenSidecar`, `WriteSidecar` (`open(..., "wb")`
truncates, so the empty file is a state of its own) and `Crash` after each of
them. `ChangeRecord` and `ChangeSidecar` are the outside world: a hand edit, a
checkout, a disk error. From outside a sidecar is lost or corrupted, never
replaced by the digest of other contents: who writes a matching pair publishes it.
`published` remembers the contents whose sidecar the generator wrote to a path.

### Audit

One action per file access of `audit_record`: `StartAudit` (reads the record),
`StatSidecar` and `ReadSidecar` (`is_file`, then `read_bytes`), `RunStages`,
`ReadReference`, `StatReferenceSidecar`, `ReadReferenceSidecar`, `Compare`,
`Conclude`. A file that vanishes between `is_file` and `read_bytes` ends the call
with `Aborted`, as does a `RecursionError` of the format stage; an invalid
baseline ends it with `BaselineError`. The generator's and the outside world's
steps interleave freely (`DiskStep`). Three history variables serve the properties
alone: `matched` (contents that were on disk together with their digest at some
instant since the call began), `disturbed` and `quiet`.

### AuditContract, AuditHistory

`AuditContract` is the audit without its steps: `Call` looks at the record (`first`),
`Return` gives an answer some time later, `Change` is anybody's write in between.
`Justified` lists the answers a call may give: a format code is that of `first`; a hash
code has a pair in `pairs[target]`, the pairs of record and sidecar that were on disk
together since the call began, that deserves it; a `BaselineError` has a defective pair
of the baseline; an acceptance and a baseline code have `first` and a baseline each on
disk with its digest, and a comparison that gives that answer. Once somebody else than
the generator has written (`disturbed`) only `JudgesFirst` is promised. The one
concession: a `HASH_MISMATCH` needs no mismatch on disk when the record was rewritten
during the call, since its new digest was then held against its old bytes.

`AuditHistory` adds `pairs` to `Audit` and instantiates the contract: `first` is `data`,
`answer` is `verdict`, `status` is "running" at every step between the first and the
last, so that a call of up to nine steps is two steps of the contract. `KeepsContract`
says that every step of the audit, of the generator and of the outside world is a step
of the contract or leaves its variables alone.

### Replay

The same disk under `replay_compare`: `StartReplay`, `CopyFile` (reads the record
again), `ReadCopy`, `StatSidecar`, `ReadSidecar`, `Conclude`. `DamageCopy` is the
transfer error that replay exists to find. The steps of the call are weakly fair. An absent sidecar is `b""` in the code,
which equals no digest: `Malformed` stands for both.

### Scanner, JsonGrammar, Lexemes

The text is a sequence of lexemes, `pos` the next one. The mutual recursion of
`_value`, `_object` and `_array` is a stack of frames with the locals of each
activation (`start`, `seen`, the pending key, `members`), and `ctl` is the program
point. `RecursionLimit` is the depth at which the interpreter gives up.
`JsonGrammar` states the same things of the whole text without a scanner: which
prefixes are JSON values, which names are repeated, what the top-level names are. Its
recursion is one function per text, `Lists`, over the spans of lexemes: whether a span
is the items of an object or array with the bracket that closes it. The other rules
are operators that take such a function.
`Lexemes` reads one lexeme over code points, escapes and digits included. `minified` is
the loop of `minify` as a recursive function of the index: what it keeps, whether it is
in a string, whether the last character was a backslash; `MinifyKeepsLexemes` holds it
against the scanner.

### FormatStage, FormatRules

`Decode`, `Scan` (every step of the scanner), `ScanFailed` and `CheckNode`. The
twelve checks are the sequence `Checks`, in the code's order. The JSON Schema of
a section is the constant `SchemaAccepts`. `FormatRules` restates
`spec/rejection-reasons.md` one code at a time on the text, so that
`ReportsPrimary` compares the order of the code with the numbers of the registry.

### Derivation

The functions of the generators on texts of lexemes: `locate`, `element` and `minify`
of `generate_success_fixtures.py`; `replace`, `insert_after`, `section_bytes`,
`delete_section`, `swap_sections` and the 23 edits of the record in
`generate_negative_cases.py`; `splice_invariant`, `swap_intent_event` and the edits of
the baseline in `generate_test_vectors.py`. `Refused` is an edit whose anchor does not
occur exactly once: the generator ends. The code counts anchors in bytes, and an anchor
need not stop where a lexeme does: `"sequence":3` is found in `"sequence":30`, and
`"exit_code":0` in `"exit_code":0.5`. So the constant `Pieces` cuts a lexeme where an
anchor can begin or end within it, `Occurrences` and the edits work on the pieces of the
whole text (`Bytes`), and `Lexed` reads the result as the scanner would, by the longest
lexeme at each point: `40` after the edit of `30`, but `"string 3"0` is no JSON. Bytes
that are no lexeme become `?`.

The anchor `"illustrative` ends within a string; its edit inserts a byte that is no text
at all (`utf8` is false then). A CR is whitespace here. Members that no edit names are
left out of the records. The derived texts go through the whole of `FormatStage` (they
are among its `Texts`), so `CasesAsExpected` speaks of what the format stage does with an
edited baseline. It also asks that exactly the section an edit is meant for has changed
when the record stays canonical, which is what the baseline stage reports by (run
`compare`). Where the anchor ends within a longer number it allows `INVALID_JSON` besides,
which is what the code gives there, and nothing else. Outside the property are an edit
that is applied once, but in another section than its own (`InItsSection`), and one whose
anchor begins within a string, at an escaped quote (`Begins`).

### Compare

Canonical texts have no whitespace, so a section and the tree of its lexemes
determine each other and "raw texts equal" is equality of trees. The loop over
the sections is one action per outcome of an iteration. `numeric_only_difference` has
three values, the third being the exception of a number whose exponent `Decimal` does
not take (`InRange`); `all` stops at the first result that is not true, as the code does.

The files and their nodes are constants. `NodesAssumption` says that a member nests less
deep than the node it is a member of (`Nesting`): a text is finite. Recursion over nodes is
a recursive function (`numeric_only_difference`, `Parts`), so that it can be proved about.

The properties do not look at the trees the way the code does. `Parts` flattens a node
into its lexemes, each with its place (the index of the member it is in, of the member in
that, and so on) and the name it has there, and two nodes differ only in their numbers
when at each place both have the same lexeme under the same name, or equal numbers.

### Fixtures, AuditPackage

`Store` and `Audit` look at one call while files change under it. These two modules
look at the other scale: whole runs, one at a time, each of which may fail, be
killed, or meet what the run before it left.

A generator is a sequence of *tasks* (`SuccessTasks`, `NegativeTasks`, `VectorTasks`),
most of them one iteration of a loop of its `main`: a pair, the removal of a case, a
case, a vector. A task is a sequence of file operations (`PairOps`, `RemoveOps`,
`CaseOps`, `VectorOps`, and so on): writes, removals and, where the code raises or exits
with status 1, `Fail`. The code reads the baseline and the records once and keeps them;
the model computes the operations of a task from the files as they are, which is the
same, since nothing that a tool reads is written by it while it runs (`TasksStay` below
proves it). `rmtree` removes the files of a case in any order and its directory last.

`AuditPackage` runs the tasks: `Launch`, then one operation after the other
(`WriteFile`; `RemoveFile` for each file of a removal and `EndRemoval` after them),
`NextTask`, and `Finish` or `FailTool`. `task` and `done` are the place in the program.
`Kill` ends the run between two operations or in the middle of a write, which leaves the
file `Torn`. Between runs, `Edit` moves the
working tree to another version of the sources (examples, case table, vector table),
and `Damage` loses or tears one file. The sweeps of `verify_hashes.py` and `audit.py`
only read, and nothing else runs meanwhile, so each is a predicate of the tree
(`HashesPass`, `AuditRaises`, `AuditFails`); `audit.py` with other processes beside it
is the matter of `Audit`. The outcome of `audit_record` on a case enters as
`AsExpected`, the bytes of the cases and vectors as `CaseRecord` and `VectorBytes`.

`Derived(v)` is the specification: the tree that the sources of version `v` stand for.
`stage` (how much of `Workflow` has just succeeded) and `current` (which logs were
computed from the fixtures as they are now) are history variables. The workflow's
comparison with git and its test suite are left out: they can only end it early.

The list of positives is the same in all versions. `generate_success_fixtures.py`
removes nothing, so a record whose source was renamed stays for ever; the model has
no such rename and its properties do not speak of one. A sweep over fewer cases than
the table has passes, in the code and in the model: no property counts them.

### RuntimeValidator

`check_example` on one document: `CheckEnvelope`, `CheckRecord` for each record,
`RecordsChecked` (the early return), `CheckPair` for neighbours, `CheckIds`,
`CheckLengths`, `CheckPassthrough` for each pair that `zip` yields, and
`PassthroughChecked`. A single record is a stream of one that skips the checks on
streams. Errors are a set of rules with the index of the record. The schema check is a
field of the record; timestamps are the instants they parse to, or `Unparsable`;
`Rewritten` is what `json.dumps` makes of a parsed value.

### RuntimeChecks

The program around `check_example`. A repository is a content for each path: absent,
blank, not UTF-8, not JSON, a schema (valid, of another dialect, invalid), a contract or
an example. `CheckFiles`, `LoadSchemas`, `CheckSchemas`, `CheckContract`, then for each
listed example `OpenExample`, the steps of `RuntimeValidator` (`Validate`) and
`CloseExample`. The self test is `LoadSelfTest`, `OpenCase`, `CloseCase`, `BadContract`,
`OpenUnmutated`, `CloseUnmutated`: each case a mutation of the example in the repository,
with the rules its label names beside it. Where the code raises (a file that cannot be
parsed, a contract without `examples`, a validator that meets an invalid schema) the
program ends in "raised" with status 1. `ContractErrors` is `check_contract`. What a
schema says of a record stays a field of the record.

## 3. Runs

| Run | Instance | Shows |
|---|---|---|
| `audit_writes` | 2 paths (symmetric), 2 valid contents, 2 writes, no outside change | `HistoryInv` is an invariant; an accepted pair was on disk as a pair; the audit refines its contract |
| `audit_changes` | 2 paths, 5 contents (empty, two valid, invalid, too deep), 1 write, 1 change | types; only published bytes accepted; exact verdict on a quiet disk; every call ends |
| `replay` | 1 path, 4 contents, 2 writes, 2 changes | the properties of replay, and that it ends |
| `format` | every text of at most 4 lexemes; every one-lexeme edit of two nested texts; records with members dropped, swapped, renamed, repeated, replaced, and lexemes inserted, cut and appended; what is derived from 9 baselines and 12 examples; depth 4 | the scanner against the grammar; the reported code against the rules; derived texts as expected |
| `lexemes` | every text of at most 5 characters; edits of longer spellings | strings and numbers against RFC 8259; `minify` against the scanner |
| `compare` | records over small trees, numbers beyond `Decimal`'s range | documented codes; no exception in place of an earlier difference |
| `compare_names` | names inside a section spelled with an escape | violated: finding 2 |
| `compare_sections` | top-level names spelled with an escape | violated: finding 1 |
| `package` | 2 positives, 3 cases, 2 vectors, 2 versions; 1 edit; 1 kill, or 1 lost or torn file | regeneration heals, and a regenerated tree passes both sweeps; no half case is judged, no vectors of mixed sources pass; the package's logs are about its tree |
| `validator` | repositories with one file lost, blank, undecodable or no JSON, schemas and contracts broken in each way, lists of 0 to 4 examples; streams of 1 to 3 records, 2 fields changed in streams of 2, submissions missing, doubled, swapped | order and preservation of whole streams; exactly the broken ones are rejected; exit status; cases of the self test |
| `examples_listed` | the same | violated: finding 4 |
| `numeric_form` | the same | violated: finding 3 |

Why these bounds suffice for what is asked:

- *Writes.* An audit reads at most four files. Two pairs are enough to replace the
  target and its baseline during one call, to replace one of them by v2 and restore
  v1 (the start is any state of the disk), and to kill the writer of either; three did
  not show more and make the refinement check too long. The theorems have no bound.
- *Changes.* Each outside change can hit any of the four files with any contents;
  with a crash of the generator this already reaches every combination of defects
  that the precedence has to order.
- *Texts.* Four lexemes reach every point of the grammar with every lexeme; the
  edits of long texts add nesting, members after members and errors deep inside.
  Depth 4 stands for the interpreter's thousand.
- *Baselines.* One like the repository's, and others in which an anchor occurs twice,
  nowhere, or in another section, the invariant repeats the sections' texts, or a
  section's name is spelled with an escape; and others yet with numbers and strings that
  an anchor ends or begins within (30, 40, 0.5, 0e5, `"illustrative text"`, a name with
  an escaped quote before `target`). Examples carry a record in an array, before
  or after another, with a line break after every comma, colon and brace.
- *Characters.* Five characters cover every pair of neighbouring constructs; the
  long spellings add complete `\u` escapes and a full number.
- *Fixtures.* The cases are one of each way the generator treats them: a mutation the
  format stage finds, a case without sidecar, and one that reaches the baseline
  stage. The vectors are one canonical and one not. The second version has another
  baseline, a case and a vector more, so leftovers of either direction exist. On a
  torn baseline one case finds no anchor, so a generator fails halfway. One kill may
  hit each operation of each tool and tools run any number of times in any order;
  what a kill leaves is met by every later run, an edit before or after it. Instead
  of a kill, any one file of the tree may be lost or torn.
- *Streams.* Order is a matter of neighbours, so three records are the first length
  at which it does not follow from one comparison; two changed fields are the fewest
  that can compensate each other. The theorems below drop these bounds.

`CHECK_DEADLOCK FALSE` appears where the modelled call really is over at its end
(format stage, lexemes, comparison, validator). The audit, replay and package
modules start new calls and are checked for deadlock.

Fairness is `WF` on the steps of the call alone: the process runs on and waits for
nobody, be it `audit_record`, `replay_compare`, `check_format` or the validator. Nothing is assumed of the generator or of the outside world.

Every property of a passing run has a mutant in `PROJECT.json`: a plausible bug in
one definition (named after it, directly above it) that violates the property.

## 4. Proofs

`AuditProofs` proves, for any paths, contents, digests and bounds that satisfy the
named assumptions of `Store` and `Audit`:

- `TypeCorrect`: `Spec => []TypeOK`;
- `PublishedOnly`: `Spec => []OnlyPublishedAccepted`;
- `PairOnDisk`: `Spec => []AcceptedPairWasOnDisk`;
- `QuietIsExact`: `Spec => []QuietAuditIsExact`.

The assumptions are that digests identify contents (`DigestAssumption`), that the
empty file is not canonical (`FileAssumption`), and that the comparison accepts
identical records only (`CompareAssumption`; `IdentityAccepted` below proves that of the code).

None of them is inductive. For the first three, `IInv` is
`TypeOK /\ CallInv /\ PublishedInv /\ MatchedInv`:

- `CallInv` is what the steps so far have established of the bytes that were
  read: in the baseline steps the record is canonical; with no findings the
  sidecar that was read holds the digest of the bytes; after the comparison
  `data = reference`.
- `PublishedInv`: a digest on disk, or one that was read, belongs to published
  contents. Only `WriteSidecar` creates a digest, and it publishes.
- `MatchedInv` is the heart of the third theorem. After the record was read as
  `b` and before its sidecar is read, `Pending` holds: if the sidecar has the
  digest of `b` now, `b` has been on disk with it; and if the generator is
  between record and sidecar with `b`, the record still is `b`. The order
  "record first, then sidecar" in `write_pair` and "record first, then
  sidecar" in `audit_record` are both needed for it. Without `~disturbed` it is
  false: an outside edit undone by hand can pair stale bytes with a digest.

`IInv` is a part of `HistoryInv`, an invariant of run `audit_writes`. `TypeOK` uses `CallInv` and
the other way round, so the two are carried through together.

The fourth needs `FindingsInv` (the findings are exactly what the stages answered for
the bytes that were read) and `QuietInv` (those bytes, and the sidecars, are still what
the files hold). `DefectsAreAnswers` shows that what is wrong with a pair as a snapshot
is what the first two stages answer on it; so, however the call ends, the findings are
the defects of the snapshot (`EndIsExact`), and `primary` picks the first.

`ReplayProofs` proves the three invariants of `Replay` with the same argument and the
same lemmas of `StoreProofs` about the disk:

- `OkOnlyPublished`: `Spec => []OkIsPublished`;
- `OkPairOnDisk`: `Spec => []OkPairWasOnDisk`; the second reading of the record and the
  damaged copy do not matter, as the bytes of the first reading must come back;
- `QuietReplayIsExact`: `Spec => []QuietReplayIsHashStage`.

`AuditProofs` also proves, from the same assumptions,

- `ReasonsAreKept`: `HistorySpec => []HistoryInv`, the invariant that it takes;
- `ContractKept`: `HistorySpec => KeepsContract`, the refinement of `AuditContract`.

Initial states map to initial states; every step of the audit between its first and
its last maps to a stutter, the last to `Return`, steps of the disk to `Change`. What is
to be shown is that the answer of the last step is `Justified`, and that needs
`HistoryInv == IInv /\ FindingsInv /\ ReasonInv`:

- `FindingsInv`, as above: the code that `primary` picks is the answer of a stage;
- `ReasonInv`: as long as nobody but the generator writes, whatever is wrong with the
  hash of what was read is, or was, wrong on disk. It covers the readings to come: a
  sidecar that `is_file` has seen is still there (the generator never removes one), and
  a baseline that was replaced after it was read has been on disk defective in between,
  since `write_pair` truncates before it writes.

`RuntimeChecksProofs` begins with `check_example` and proves, for any set of examples with
streams of any length
(`DocsAssumption` gives their types and says that a single record is a stream of one):

- `StreamIsOrdered`: `ValidatorSpec => []PassedStreamIsOrdered`;
- `StreamIsPreserved`: `ValidatorSpec => []PassedIsPreserved`;
- `RejectionIsExact`: `ValidatorSpec => []RejectsExactlyBroken`.

The inductive invariant `ValidatorInv` has a part for each loop, all under the
hypothesis that no error has been found so far. `RecordsInv`: the records before the
index are clean, and all are once the loop is over. `OrderingInv`: *all pairs* before
the index are in order. Extending it by one record is transitivity, for which the
instants must be numbers, and that is what the records' own checks have established;
so the early return between the two loops is part of the argument. `PassthroughInv`:
the submissions before the index agree with the records beside them, and, since the
lengths are equal, `zip` leaves none out. `IndexInv` types the index and ties a
skipped ordering phase to single records. `ErrorsInv`, for the third theorem, is the
other direction: whatever was found is a rule that the whole example breaks. For a pair
out of order that takes `RecordsInv` again, since "not smaller" is "larger or equal" only
between numbers.

`FormatProofs` proves of the scanner inside the format stage, for texts of any length
and any `RecursionLimit`, from `LexemeAssumption` (the kinds of lexemes do not overlap):

- `ScanTypes`: `FormatSpec => []ScanTypeOK`;
- `SpansAlwaysNest`: `FormatSpec => []SpansNest`;
- `WhitespaceExact`: `FormatSpec => []WhitespaceIsExact`;
- `AcceptanceIsCanonical`: `FormatSpec => []AcceptedIsCanonical`.

The invariant is `ScanInv == Position /\ Structure /\ Reports`. `SpansNest` speaks of what the stack holds; it is not inductive, as it
does not say that the next member will lie behind the last:

- `Nested`: frames lie inside one another, the finished members of each between its
  bracket and the frame above it, with at least one lexeme left in between;
- `Ready`: at every point of the grammar where a value or a name may come next, the
  innermost frame's last member ends before `pos`. Only the comma makes a frame ready
  again, so it is the grammar, not a comparison of positions, that keeps members apart;
- `Innermost`: a point inside an object has an object on top of the stack, and likewise
  for arrays. `Close` needs it to know that the bracket it reads is its frame's.

When a frame is closed, the frames below it are ready at the position where it began,
which is where its node becomes a member (`NestedClose`, `NestedMember`). Sequences need
SMT and strings such as `"{"` need Zenon, so the two never meet in one leaf.

The fourth theorem is about an accepted text as a whole, while each of the twelve checks
looks at one thing: whitespace, the last character, the names, the top-level node. What
joins them is that the scanner leaves nothing out between two members, and that is
`Dense`, an invariant of its own under the hypothesis that no whitespace was skipped:

- `Packed`: in the outermost object each member starts where the one before ended, with
  a comma unless it is the first, then its name, a colon and its value;
- `Progress`: how much of the next member has been read at each point of the grammar; a
  deeper frame stands for "its value has begun" (`Outermost`);
- `Closed`: the object ends right behind its last member.

Two of these are needed before one can be kept: that a member is packed when it is
finished follows from what was pending while its value was read, at whatever depth.
`FirstOfEleven` says which check is the first to fail, `ChecksPassed` what has passed
when none does, and `PassedIsCanonical` puts the two together with `Dense`.

`LexemesProofs` proves of the lexemes, for texts of any length (`CharsAssumption` says
that they are sequences of code points),

- `StringExact`: `LexSpec => []StringIsExact`;
- `NumberExact`: `LexSpec => []NumberIsExact`;
- `DecodingExact`: `LexSpec => []DecodesUnits`;
- `MinifyKeeps`: `LexSpec => []MinifyKeepsLexemes`.

The scanner knows of the past what its mode says, the properties look at the whole text.
Between them stands what has been read so far:

- `StringSoFar`: nothing before `at` closes the string, all escapes are valid, and `at`
  itself is neither escaped nor among the digits of an escape. `Escaped` counts a run of
  backslashes back to its start and looks at its parity; `EscapedNext` shows that this is
  "the character before is an unescaped backslash", which is how the scanner steps. It
  needs that every position has exactly one such run (`OneRun`), by a least element.
- `IntegerSoFar`, `MantissaSoFar`: what has been read is a number without its exponent,
  and *every* prefix that is one ends here or earlier, where a digit or a point follows it.
  This is why the scanner need not go back: an exponent can begin only at `at`
  (`ExponentStep`), and where reading fails a shorter number is only one that continues.
- `Decoded`: one unit for each start of a character or escape before `at`; a step adds one
  start, the rest of what it reads holds none (`Rest`, `StartsGrow`), and one unit
  (`OneUnitMore`).

For the fourth, `minifying` must first be what its recursive definition says. The prover
has no induction over data; what it has is that a non-empty set of naturals has a least
element (`Least`), and so does the least number of characters for which no such function
exists: one less has one, and that can be extended (`LoopEnds`). `Contained` is what a
lexeme needs in order to be kept: where `minify` takes itself to be inside a string, or
behind a backslash, as a function of the characters before. `LexemeKept` carries the loop
through such a lexeme and `WhitespaceDropped` through what surrounds it. A string is
contained because `minify` counts a backslash exactly where `Escaped` does
(`StringContained`); of the other lexemes all that matters is that they have neither
quotes nor whitespace (`LexemeInv`, `PlainContained`).

`FormatProofs` also proves of the scanner and the format stage, for texts of any length and any
`RecursionLimit`, from `LexemeAssumption`,

- `AcceptsExactlyJson`: `FormatSpec => []AcceptsJson`;
- `DuplicatesExact`: `FormatSpec => []DuplicateIsExact`;
- `PrimaryReported`: `FormatSpec => []ReportsPrimary`.

`Lists(t)` exists for every text for the same reason as `minifying`: its rules go from a
position to later ones, so a function can be made to obey them from the end of the text
back (`Obeys`, `ListsDefined`). From then on only its rule (`ListRule`) is used.

- `Foretold`: at every point of the scan the prefixes of the text that are values are
  those that the *rest* of the text completes. `Rest` reads the grammar from left to right,
  from the scanner's point in the innermost frame on; `Chain` says that each frame ends
  where what follows the frame above it completes it. One lexeme more is one rule of the
  grammar at one frame (`ElementThen`, `NamedThen`, `MemberThen`, `ListReads`), so no step
  looks at what was read before. When no rule applies nothing completes the text any more,
  at any level (`NothingEnds`): that is why a failure means that *no* prefix is a value,
  and why the value that was read is the only one.
- `Levels`: the depth at each bracket is the number of frames (`LevelKeeps`, `LevelOpens`),
  hence an exhausted stack is a text nested too deep, and the innermost frame is what
  `Enclosing` finds by counting brackets (`EnclosingHere`).
- `NamesKept`: the `seen` of each frame is the set of names of that object so far, though
  the frame was covered by others in between, and `first_duplicate` the first name that
  repeats another of its own object. `IsName` looks ahead, for a colon; the scanner has
  read it by then (`NamesRead`). No name enters an object that has been closed
  (`NamesStay`).
- `Sections`, without whitespace in the text: the names at depth one are those of the
  members of the outermost object, and within a member no lexeme is a comma at depth one
  or a brace at depth zero. With `Dense`, from the first part of the module, the n-th name that one finds
  by counting (`Nth`) is that of the n-th member (`NamesAreKeys`), and the lexemes up to
  the next such comma are its `raw` (`SectionIsRaw`). `NthStart` needs that counting the
  members before a position is monotonic and skips no number (`MembersClimb`).

`ReportsPrimary` then compares two lists: what each of the twelve checks sees in the
finished scan, and when each code applies to the text. The first says nothing of later
checks: a code applies to a text whether or not an earlier one does. `CodeDecides` and
`ChecksAre` reduce the claim to this: a check that fails does so because its code
applies, and when a check passes the codes that it stands for do not apply, given that the
checks before it have passed (`TextChecks`, `NameChecks`). This proviso is what makes the
order matter: only a text without whitespace has sections that are where the rules look
for them, and only distinct names, all required and none missing, are five
(`FiveKeys`). `TYPE_MISMATCH` is the answer of two checks, the first of them before checks
whose codes have smaller numbers; these apply to objects only, and it fails on anything else.
`FirstToFail` and `CodesRanked` compare the order of the checks with
the numbers in the registry. `NoValueAtMark` is needed for a text that starts with a
byte order mark: the stage has looked no further, and no other code may come first.

`CompareProofs` proves of the comparison, for files and nodes that satisfy the two
assumptions of `Compare`,

- `CompareInvariant`: `CompareSpec => []CompareInv`, the inductive invariant;
- `IdentityAccepted`: `CompareSpec => []AcceptsIdentityOnly`;
- `DocumentedCodes`: `CompareSpec => [](NamesSpelledAlike => ClassifiesAsDocumented)`;
- `RaisesBeforeDifference`: `CompareSpec => [](NamesSpelledAlike => RaisesOnlyBeforeDifference)`;
- `EndUnreached`: `CompareSpec => [](SectionsSpelledAlike => EndIsUnreachable)`.

The two conditions are about the pair of files, not about the course of the comparison,
and set aside what findings 1 and 2 are about: `NamesSpelledAlike` says that where the two
files have equal member names at one place of a section, they spell them in one way, and
`SectionsSpelledAlike` says it of the names of the sections. Every file of run `compare`
satisfies the first; without it the code does report another code (run `compare_names`).

`CompareInv` says that past the first check the files are different and canonical and
that their sections before the current one are equal, and, once there is an answer, what
differs at the section it was given at (`AnswerHasReason`). Since the decoded names of a
canonical file are `TOP_LEVEL_ORDER`, looking a section up by its name is taking it by its
position (`CanonicalSections`), and the section of an answer is the first difference.

What is left is about one pair of nodes, and is proved by choosing, among the pairs for
which it fails, one whose first node nests least deep (`LeastNested`): the members of that
pair are then answered right. `DifferenceDefined` and `PartsDefined` first show that there is a
function that satisfies each recursive definition: for each depth some function does
(`ObeysExists`), any two agree up to the depth both reach (`ObeysAlike`), and so they can
be put together. `OnlyNumbersMembers` takes `OnlyNumbersDiffer` apart by members, as the code
goes, though it is defined by places: a lexeme of x inside its i-th member can only have
its like inside the i-th member of y (`MemberPlace`). With that, `DifferenceRight` says that
the answer is right whichever of the three it is. For the exception, the members before
the one that raised it answered "yes" and are alike, and what precedes the number inside
the member has its like by the choice of the pair (`AlikeBeforeInMember`, `PrecedesInMember`);
this is where it matters that `all` stops early (`AllCases`).

`RuntimeChecksProofs` goes on to the whole validator program and proves, for any repository, any
contract and examples of any length,

- `PassExact`: `ChecksSpec => []PassIsExact`;
- `MissingReported`: `ChecksSpec => []MissingIsReported`.

`RunsAssumption` says how a repository enters the model: a file is what its reader makes
of it, so that what a contract lists as an example and can be read is one of `Docs`. Neither
property is inductive: they speak of the end. `ChecksInv` says what each step of
`run_checks` has established when the next one begins (`FilesPresent`, then `SchemasValid`,
then `ContractErrors`), that whatever was reported, or raised an exception, makes the
repository unsound, and, in the loop, that the examples behind the index pass (`LoopInv`).
While an example is open, `ValidatorInv` and `ErrorsInv` hold of it
(`ExampleOpen`), and `InvGivesExact` turns the end of `check_example` into "reported
exactly when broken". The other direction is why an exception needs care: an unreadable
schema, contract or example, and a schema that is none, must each be something that
`Sound` excludes.

`AuditPackageProofs` proves of the fixture tree, for any versions, tables of examples,
cases and vectors, and any number of edits, kills and damages,

- `PackageInvariant`: `Spec => []PackageInv`, the inductive invariant;
- `WorkflowHeals`: `Spec => []RegenerationHeals`;
- `SweepsAcceptTheRegenerated`: `Spec => []RegeneratedTreePasses`;
- `JudgedCaseIsWhole`: `Spec => []SweptCaseIsWhole`;
- `PassedHashesAreOneSource`: `Spec => []HashPassIsOneSource`;
- `PackageIsOfItsTree`: `Spec => []PackageReportsItsTree`.

It assumes that no name occurs twice in a table (`NamesAssumption`), and that what the
generators write is not the absence of a file nor, where a sweep can tell, a torn one
(`ContentsAssumption`, `LogsAssumption`). No property is inductive: each speaks of the
time between two runs, and what is true then was brought about operation by operation.
The parts of `PackageInv`, which TLC has found invariant on the instance of run
`package` as well:

- `EffectsInv`: every write that the running tool has executed is still in its file, and
  what it has removed is away unless it has written it anew. Two facts about the
  programs make it inductive: no tool writes a path twice (`WrittenOnce`), and it
  removes a path only in an earlier task than the one that writes it (`RemovedBefore`).
  Both rest on the tables without repetition. A third, that the operations of a task
  stay what they were while the tool writes (`TasksStay`), is where one would notice a
  generator that reads its own output.
- `WholeInv` (with `PositivesInv`: a positive is what some version derives, torn or absent) is for `SweptCaseIsWhole`: a case with a whole
  `meta.json` has no file but of one baseline. It needs that all cases are removed
  before the first is written (`CasesAreRemoved`), so that whatever is there of a case
  was written by the running tool (`CaseSoFar`), and that `meta.json` is written last
  (`MetaIsLast`). A file that a user damages breaks it, hence `damages = 0`.
- `LadderInv`: what each tool of the workflow adds to what the ones before it have left.
  A tool that runs at its place keeps the lower rungs, since it reaches other areas of
  the tree (`StaysDerived`); one that succeeds has executed all operations of all its
  tasks (`EndedIsWhole`), and with `EffectsInv` that is the next rung
  (`SuccessDerives`, `NegativeDerives`, `VectorsDerive`, `AuditReports`).
- `VectorsInv` is for `HashPassIsOneSource`: the whole vectors on disk are made of the same
  positives, and `vectors.json` is that of some run, perhaps an earlier one. Each run
  removes all vectors before it writes the first (`VectorSoFar`), and the positives stay
  what they are while it writes. That index and vectors go together is what the digests
  add: the index of one run over the vectors of another passes only where the bytes are
  the same. The tree need not be the output of one run: a run killed before it wrote its
  index can leave vectors that the old index does not name, and the sweep, which asks of
  those no more than their sidecars, passes them. What the theorem says is that there are
  positives which give the index and every vector on disk, the unnamed ones included. One
  of these positives may have been torn when the vectors were made of it:
  `verify_hashes.py` cannot tell, and `Sources` says so; `audit.py` refuses its pair.
- `LogsInv`: the logs that the running audit has written are about the fixtures as they
  are; only then can a package claim that its logs speak of it.

Only model-checked:

- the properties of `Derivation` and `CasesNameTheirRule`: they speak of the repository's
  own baseline, examples, edits and cases, which the runs have all of, and are true of
  these rather than of all;
- liveness (`AuditEnds`, `ReplayEnds`, `FormatEnds`), which the prover does not reach.

## 5. Findings

1. `compare_to_baseline` ends with `AssertionError` on two canonical records that
   differ in the spelling of a top-level name only (`verify.py:68`, "unreachable
   for canonical input").
2. A member name whose spelling changes inside a section is reported as
   `NUMERIC_REPRESENTATION_CHANGE` (`canonical.py:241`); `rejection-reasons.md:62`
   says a change of escaping is not a numeric change.
3. `same_value` compares parsed values, so an invariant submitted as `1e0` and
   recorded as `1.0` passes (`validate_runtime.py:165`); `docs/audit-model.md:27`
   asks for the numeric representation to be kept.
4. `run_checks` validates the examples that the contract lists; one that lists fewer
   than the required files, or none, passes with an example that breaks a rule
   (`validate_runtime.py:264`); `validate_runtime.py:9` says every example validates.

The models behave like the code in three more places that a reader of the documents
may not expect; no run is spent on them:

- A pair of surrogate escapes decodes to two code units (`canonical.py:171`;
  `DecodesUnits` holds), so it is not the same name as the character it spells;
  `canonical-serialization-v1.md:56` compares names after unescaping.
- Deep nesting (`RecursionError`) and very long integers (`ValueError`) leave
  `check_format` as they are: the outcome `Uncaught` of `FormatStage`.
  `RFC-AUDIT-001.md:61` promises a primary code for a failing input.
- A baseline whose own sidecar is missing or stale ends `audit.py` with a
  `BaselineError` before any report is written (`audit.py:67`, `AuditRaises`); the
  reports of an earlier run stay.

## 6. Not modelled

- The four edits of the sidecar among the negative cases, the hex form in which one
  case is stored, the eight payloads of identity-only vectors and the list of
  comparisons in the index: data. In `Fixtures` and `AuditPackage` the bytes of a
  positive, a case and a vector are `Example`, `CaseRecord` and `VectorBytes`.
- JSON Schema: what a section's schema, or a record's, says of a value is a parameter;
  so is what `jsonschema` does with a schema that is none.
- The instants: timestamps are integers, `fromisoformat` either parses or refuses. So the
  `TypeError` of comparing a timestamp that names its zone with one that does not is not
  in the model; the schema's `date-time` format, where it is checked, asks for a zone.
- The exact call at which the interpreter's stack ends: `Overflow` raises when a bracket
  is opened, the code may raise one call earlier, at a string or scalar inside the last
  bracket that it entered. The outcome is `Uncaught` in both cases.
- A file cut short by its final LF alone: `meta.json`, `vectors.json` and the baseline can
  still be parsed then; `Torn` in `Fixtures` is a file that cannot.
- In the sweep of `audit.py`, exceptions of the record's content other than
  `BaselineError`: the `AssertionError` of finding 1, `Decimal`'s and the `RecursionError`
  (modules `Compare` and `FormatStage` have them), and a stored hex form that is no hex.
  The index and verdict comparisons of its vectors are part of `AuditFails`, not steps.
- The order and attributes of ZIP entries; command-line options; the F.1 workflow,
  which runs one tool; the text of messages and reports.

## 7. Plan

Done, in this order: the registry, the store and `audit_record` with their proofs;
replay; scanner, lexemes and format stage; comparison; the F.1 validator with its
proofs; fixtures, sweeps and package; the contract of the audit and its refinement,
as a run and as a theorem; `Decimal`'s range; the whole validator program; the
derivations; the proofs about replay and the quiet audit; the proofs about the
scanner; the proofs about accepted texts, about the validator program, about the
fixture tree and about lexemes; the proofs that the scanner reads the grammar, finds the
duplicates and that the format stage reports the primary code; the proofs about the
comparison. Next: the self test (`CasesNameTheirRule`) for any document that the mutations
apply to.
