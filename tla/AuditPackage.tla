---------------------------- MODULE AuditPackage ----------------------------
(***************************************************************************)
(* The tools of the audit package run one at a time over the tree of       *)
(* Fixtures, in any order: the generators, verify_hashes.py, audit.py and  *)
(* build_audit_package.py.  Between two runs the sources are edited and    *)
(* files are damaged; a run can be killed anywhere.                        *)
(***************************************************************************)
EXTENDS Fixtures

CONSTANTS
  MaxFaults,  \* bound on runs that are killed and files that are damaged, together
  MaxEdits    \* bound on edits of the sources

Idle  == "idle"
Tools == {"success", "negative", "vectors", "hashes", "audit", "build"}

\* Mutant: the cases are derived before the baseline is.
WorkflowNegativeFirst == <<"negative", "success", "vectors", "hashes", "audit", "build">>

\* Mutant: the package is built before the audit has run.
WorkflowPackageEarly == <<"success", "negative", "vectors", "hashes", "build", "audit">>

\* The order of the workflow.  Its comparison with git and its test suite can only
\* end it early.
Workflow == <<"success", "negative", "vectors", "hashes", "audit", "build">>

HashLog     == <<"report", "hash", "log">>
ReplayLog   == <<"report", "replay", "log">>
AuditLog    == <<"report", "audit", "log">>
Logs        == {HashLog, ReplayLog, AuditLog}
PackagePath == <<"package", "audit", "zip">>

\* A torn log is not a whole one.
ASSUME LogsAssumption == Torn \notin {<<"PASS">>, <<"FAIL">>}

Paths       == FixturePaths \cup Logs \cup {PackagePath}

VARIABLES
  version,   \* the sources in the working tree
  files,     \* [Paths -> contents]
  tool,      \* the tool that is running
  task,      \* the number of its task
  done,      \* how many operations of the task have been executed
  \* history, for the properties:
  current,   \* the logs that were computed from the fixtures as they are now
  stage,     \* length of the part of Workflow that has just succeeded
  kills, edits, damages

vars == <<version, files, tool, task, done, current, stage, kills, edits, damages>>

(***************************************************************************)
(* The sweeps.  Nothing else runs while they read, so each is a function   *)
(* of the tree.                                                            *)
(***************************************************************************)

IsFile(path) == files[path] # Absent

ValidPositive(p) == ValidPair(files, "positive", p) /\ Canonical(files[<<"positive", p, "record">>])

\* An unreadable vectors.json raises an exception; so does a missing vector in audit.py.
IndexReadable == files[IndexPath] \notin {Absent, Torn}
Indexed       == files[IndexPath][2]

\* Mutant: the digests of the index are not checked.
HashesPassPairsOnly ==
  /\ IndexReadable
  /\ \A area \in {"positive", "vector"} :
       \A name \in ToSet(IF area = "positive" THEN Positives ELSE VectorNames) :
         IsFile(<<area, name, "record">>) => ValidPair(files, area, name)

\* verify_hashes: every pair there is, and every entry of the index.
HashesPass ==
  /\ IndexReadable
  /\ \A area \in {"positive", "vector"} :
       \A name \in ToSet(IF area = "positive" THEN Positives ELSE VectorNames) :
         IsFile(<<area, name, "record">>) => ValidPair(files, area, name)
  /\ \A t \in DOMAIN Indexed : Sha256(files[<<"vector", t, "record">>]) = Indexed[t]

SweptCases == {n \in ToSet(CaseNames) : IsFile(<<"case", n, "dir">>)}

\* load_meta and materialize can open and read all they need of a case.
CaseReadable(n) ==
  /\ files[<<"case", n, "meta">>] \notin {Absent, Torn}
  /\ IsFile(<<"case", n, "record">>)
  /\ n \notin Bare => IsFile(<<"case", n, "sidecar">>)

\* Exceptions that end audit.py: unreadable files, and a BaselineError as soon as a
\* record that passes the format stage is to be compared with an invalid baseline.
\* What audit_record and the comparisons can raise on records by themselves is left
\* to Compare and FormatStage; what a hex record or an index entry can hold, out.
AuditRaises ==
  \/ ~ IsFile(<<"positive", Baseline, "record">>)
  \/ Canonical(files[<<"positive", Baseline, "record">>]) /\ ~ ValidPositive(Baseline)
  \/ \E n \in SweptCases :
       \/ ~ CaseReadable(n)
       \/ Canonical(files[<<"case", n, "record">>]) /\ ~ ValidPositive(Baseline)
  \/ ~ IndexReadable
  \/ \E t \in DOMAIN Indexed : ~ IsFile(<<"vector", t, "record">>)

\* The checks that count as failures and are reported.  The verdicts and comparisons
\* that the index lists are functions of the bytes whose digests it lists, too.
AuditFails ==
  \/ \E p \in ToSet(Positives) : IsFile(<<"positive", p, "record">>) /\ ~ ValidPositive(p)
  \/ \E n \in SweptCases :
       ~ AsExpected(n, files[<<"case", n, "record">>], files[<<"case", n, "sidecar">>],
                    files[<<"positive", Baseline, "record">>])
  \/ \E t \in DOMAIN Indexed : Sha256(files[<<"vector", t, "record">>]) # Indexed[t]

AuditOps ==
  LET log(result) ==
        <<Write(HashLog, result), Write(ReplayLog, result), Write(AuditLog, result)>>
  IN  IF AuditRaises THEN <<Fail>>
      ELSE IF AuditFails THEN Append(log(<<"FAIL">>), Fail)
      ELSE log(<<"PASS">>)

\* A package holds the tree and the logs; what the properties ask of it is what its
\* logs say, whether they speak of its tree, and whether its tree is the derived one.
Package(logs, fresh, derived) == <<"zip", logs, fresh, derived>>

FixturesDerived == \A p \in FixturePaths : files[p] = Derived(version)[p]

BuildOps ==
  <<Write(PackagePath, Package({files[l] : l \in Logs}, current = Logs, FixturesDerived))>>

(***************************************************************************)
(* The tools as tasks.                                                     *)
(***************************************************************************)

Tasks(t) ==
  CASE t = "success"  -> SuccessTasks
    [] t = "negative" -> NegativeTasks(version)
    [] t = "vectors"  -> VectorTasks(version)
    [] OTHER          -> <<<<t>>>>

Ops(job) ==
  CASE job[1] = "pair"     -> PairOps(job[2], version)
    [] job[1] = "baseline" -> BaselineOps(files)
    [] job[1] = "remove"   -> RemoveOps(job[2])
    [] job[1] = "case"     -> CaseOps(files, job[2])
    [] job[1] = "verdict"  -> VerdictOps(files, version)
    [] job[1] = "clear"    -> ClearOps(files)
    [] job[1] = "vector"   -> VectorOps(files, job[2])
    [] job[1] = "index"    -> IndexOps(files, version)
    [] job[1] = "hashes"   -> IF HashesPass THEN <<>> ELSE <<Fail>>
    [] job[1] = "audit"    -> AuditOps
    [] job[1] = "build"    -> BuildOps

\* The next operation of the running tool, if its task has one left.
operations == Ops(Tasks(tool)[task])
Upcoming ==
  IF tool = Idle THEN {}
  ELSE LET ops == operations IN {ops[n] : n \in {done + 1} \cap DOMAIN ops}

(***************************************************************************)
(* Running a tool.                                                         *)
(***************************************************************************)

\* Sources that the generators accept as they are.
Derivable(v) == \A n \in ToSet(Cases(v)) : Mutable(n, Example(Baseline, v))

\* The fixtures as such a version derives them, no reports, no package.
Init ==
  /\ version \in {v \in Versions : Derivable(v)}
  /\ files = [p \in Paths |-> IF p \in FixturePaths THEN Derived(version)[p] ELSE Absent]
  /\ tool = Idle /\ task = 0 /\ done = 0
  /\ current = {} /\ stage = 0
  /\ kills = 0 /\ edits = 0 /\ damages = 0

\* A file gets other contents: the logs are about the tree before.
Put(path, bytes) ==
  /\ files' = [files EXCEPT ![path] = bytes]
  /\ current' = IF path \in Logs THEN (IF bytes = Torn THEN current \ {path} ELSE current \cup {path})
                ELSE IF path = PackagePath THEN current ELSE {}

Launch(t) ==
  /\ tool = Idle
  /\ tool' = t /\ task' = 1 /\ done' = 0
  /\ UNCHANGED <<version, files, current, stage, kills, edits, damages>>

WriteFile(o) ==
  /\ o.op = "write"
  /\ Put(o.path, o.bytes)
  /\ done' = done + 1
  /\ UNCHANGED <<version, tool, task, stage, kills, edits, damages>>

RemoveFile(o) ==
  /\ o.op = "remove"
  /\ \E path \in o.paths : IsFile(path) /\ Put(path, Absent)
  /\ UNCHANGED <<version, tool, task, done, stage, kills, edits, damages>>

EndRemoval(o) ==
  /\ o.op = "remove"
  /\ \A path \in o.paths : ~ IsFile(path)
  /\ done' = done + 1
  /\ UNCHANGED <<version, files, tool, task, current, stage, kills, edits, damages>>

NextTask ==
  /\ tool # Idle /\ Upcoming = {} /\ task < Len(Tasks(tool))
  /\ task' = task + 1 /\ done' = 0
  /\ UNCHANGED <<version, files, tool, current, stage, kills, edits, damages>>

End(n) == tool' = Idle /\ task' = 0 /\ done' = 0 /\ stage' = n

Finish ==
  /\ tool # Idle /\ Upcoming = {} /\ task = Len(Tasks(tool))
  /\ End(IF stage < Len(Workflow) /\ tool = Workflow[stage + 1] THEN stage + 1
         ELSE IF tool = Workflow[1] THEN 1 ELSE 0)
  /\ UNCHANGED <<version, files, current, kills, edits, damages>>

FailTool(o) ==
  /\ o.op = "fail"
  /\ End(0)
  /\ UNCHANGED <<version, files, current, kills, edits, damages>>

\* Killed between two operations, or while it writes.
Kill ==
  /\ tool # Idle /\ kills + damages < MaxFaults
  /\ End(0) /\ kills' = kills + 1
  /\ \/ UNCHANGED <<files, current>>
     \/ \E o \in Upcoming : o.op = "write" /\ Put(o.path, Torn)
  /\ UNCHANGED <<version, edits, damages>>

(***************************************************************************)
(* Between two runs.                                                       *)
(***************************************************************************)

\* The examples or the tables of the generators are edited.
Edit ==
  /\ tool = Idle /\ edits < MaxEdits
  /\ version' \in Versions \ {version}
  /\ stage' = 0 /\ edits' = edits + 1
  /\ UNCHANGED <<files, tool, task, done, current, kills, damages>>

\* A file of the tree is lost or cut short.
Damage ==
  /\ tool = Idle /\ kills + damages < MaxFaults
  /\ \E path \in FixturePaths, bytes \in {Absent, Torn} :
       files[path] # Absent /\ path[3] # "dir" /\ Put(path, bytes)
  /\ stage' = 0 /\ damages' = damages + 1
  /\ UNCHANGED <<version, tool, task, done, kills, edits>>

Next ==
  \/ \E t \in Tools : Launch(t)
  \/ \E o \in Upcoming : WriteFile(o) \/ RemoveFile(o) \/ EndRemoval(o) \/ FailTool(o)
  \/ NextTask \/ Finish \/ Kill
  \/ Edit \/ Damage

Spec == Init /\ [][Next]_vars

(***************************************************************************)
(* Properties.                                                             *)
(***************************************************************************)

\* Whatever was killed, damaged or left from another version: once the three
\* generators have succeeded in the order of the workflow, every fixture is the
\* one the sources derive, and none is left over.
RegenerationHeals == tool = Idle /\ stage >= 3 => FixturesDerived

\* The sweeps accept every regenerated tree.
RegeneratedTreePasses ==
  tool = Idle /\ stage >= 3 => HashesPass /\ ~ AuditRaises /\ ~ AuditFails

\* A case that audit.py judges is a whole one, of a single baseline: what a killed
\* generator leaves half written or half removed ends the sweep instead.
SweptCaseIsWhole ==
  tool = Idle /\ damages = 0 =>
    \A n \in SweptCases : CaseReadable(n) =>
      \E b \in Baselines : \A part \in CaseFiles :
        files[<<"case", n, part>>] = CaseFile(n, b)[part]

\* verify_hashes passes only on an index with all the vectors that it names, and
\* there are positives of which this index and every vector on disk, named or not, is
\* what the generator makes.  A run killed before it wrote its index can leave vectors
\* that the old index does not name, and the sweep passes them with their sidecars;
\* but never vectors of two sources, nor an index that another source would give.
HashPassIsOneSource ==
  tool = Idle /\ HashesPass =>
    \E v \in Versions, src \in Sources :
      /\ files[IndexPath] = Index(Vectors(v), src)
      /\ \A t \in ToSet(Vectors(v)) : IsFile(<<"vector", t, "record">>)
      /\ \A t \in ToSet(VectorNames) :
           IsFile(<<"vector", t, "record">>) =>
             files[<<"vector", t, "record">>] = VectorBytes(t, src)

\* A package that the workflow builds holds the fixtures of its sources and logs that
\* passed on exactly these fixtures, whatever reports lay there before.
PackageReportsItsTree ==
  stage = Len(Workflow) => files[PackagePath] = Package({<<"PASS">>}, TRUE, TRUE)
---------------------------------------------------------------------------
(* The inductive invariant behind them.                                    *)

TypeInv ==
  /\ version \in Versions
  /\ DOMAIN files = Paths
  /\ tool \in Tools \cup {Idle}
  /\ tool # Idle => task \in 1..Len(Tasks(tool))
  /\ done \in Nat /\ stage \in 0..Len(Workflow) /\ damages \in Nat
  /\ IndexReadable => DOMAIN Indexed \subseteq ToSet(VectorNames)

\* What the running tool has executed so far.
Begun(j) == Ops(Tasks(tool)[j])
Executed ==
  UNION {{Begun(j)[k] : k \in {k \in DOMAIN Begun(j) : j < task \/ k <= done}} : j \in 1..task}

\* A tool leaves what it has written, and what it has removed stays away until it
\* is written anew.
EffectsInv ==
  tool # Idle =>
    \A o \in Executed :
      \/ o.op = "write" /\ files[o.path] = o.bytes
      \/ /\ o.op = "remove"
         /\ \A path \in o.paths :
              IsFile(path) => \E w \in Executed : w.op = "write" /\ w.path = path

PositivesInv ==
  \A p \in ToSet(Positives) : files[<<"positive", p, "record">>] \in Records(p) \cup {Absent}

\* A case with a whole meta.json has no file but of the baseline it describes.
WholeInv ==
  damages = 0 =>
    \A n \in ToSet(CaseNames) :
      \/ files[<<"case", n, "meta">>] \in {Absent, Torn}
      \/ \E b \in Baselines : \A part \in CaseFiles :
           files[<<"case", n, part>>] \in {CaseFile(n, b)[part], Absent}

\* The vectors that are whole are of one run, and so is the index, if not of the same.
VectorsInv ==
  /\ \E src \in Sources : \A t \in ToSet(VectorNames) :
       /\ files[<<"vector", t, "record">>] \in {VectorBytes(t, src), Absent, Torn}
       /\ files[<<"vector", t, "sidecar">>] \in {Sha256(VectorBytes(t, src)), Absent, Torn}
  /\ \/ files[IndexPath] \in {Absent, Torn}
     \/ \E v \in Versions, src \in Sources : files[IndexPath] = Index(Vectors(v), src)

\* The logs that the running audit has written are about the fixtures as they are.
LogsInv ==
  /\ current \subseteq Logs
  /\ tool = "audit" => \A o \in Executed : o.op = "write" => o.path \in current

AreDerived(paths) == \A path \in paths : files[path] = Derived(version)[path]

\* What each tool of the workflow adds to what those before it have left: the tree
\* after the first n of them.
Ladder(n) ==
  /\ n >= 1 => AreDerived(PositivePaths) /\ \A p \in ToSet(Positives) : Canonical(Example(p, version))
  /\ n >= 2 => /\ AreDerived(CasePaths)
               /\ LET b == Example(Baseline, version)
                  IN  \A m \in ToSet(Cases(version)) : AsExpected(m, CaseRecord(m, b), CaseSidecar(m, b), b)
  /\ n >= 3 => AreDerived(VectorPaths \cup {IndexPath})
  /\ n >= 5 => current = Logs /\ \A l \in Logs : files[l] = <<"PASS">>

\* The tool that is next, or builds the package, disturbs none of it.
OnLadder  == tool \in {Idle, "build"} \/ (stage < Len(Workflow) /\ tool = Workflow[stage + 1])
LadderInv == OnLadder => Ladder(stage)

PackageInv ==
  /\ TypeInv /\ EffectsInv /\ PositivesInv /\ WholeInv /\ VectorsInv
  /\ LogsInv /\ LadderInv /\ PackageReportsItsTree
=============================================================================
