------------------------------ MODULE Fixtures ------------------------------
(***************************************************************************)
(* The fixture tree of the audit package and the three generators that     *)
(* write it.  A generator is a sequence of tasks, most of them iterations  *)
(* of its loops, and each task a sequence of file operations.  Nothing     *)
(* that a task reads is written by the same generator.                     *)
(***************************************************************************)
EXTENDS Integers, Sequences, SequencesExt

CONSTANTS
  Absent,            \* a file that is not there
  Torn,              \* a file that was cut short while it was written, by more than
                     \*   its final LF
  Versions,          \* states of the sources: the examples, the tables of cases and vectors
  Positives,         \* SOURCES in order: the success fixtures, and the baseline last
  Example(_, _),     \* the canonical bytes that version v derives for positive p
  CaseNames,         \* the names of negative cases, sorted
  Cases(_),          \* those that version v generates
  OnSidecar,         \* the cases whose mutation is applied to the sidecar
  Bare,              \* those of them that leave no sidecar
  Mutable(_, _),     \* the anchor of case n occurs exactly once in bytes b
  AsExpected(_, _, _, _), \* audit_record of case n, with this record, sidecar and
                          \*   baseline, gives the reason its meta.json expects
  VectorNames,       \* the names of test vectors, sorted
  Vectors(_),        \* those that version v generates
  Kind(_),           \* identity_only, canonical_record or non_canonical
  VectorBytes(_, _), \* vector t from the positives
  Canonical(_)       \* check_format accepts these bytes

Baseline == Last(Positives)

(***************************************************************************)
(* The files.                                                              *)
(***************************************************************************)

CaseFiles == {"record", "sidecar", "meta"}

PositivePaths == {"positive"} \X ToSet(Positives) \X {"record", "sidecar"}
CasePaths     == {"case"} \X ToSet(CaseNames) \X (CaseFiles \cup {"dir"})
VectorPaths   == {"vector"} \X ToSet(VectorNames) \X {"record", "sidecar"}
IndexPath     == <<"index", "vectors", "json">>

FixturePaths == PositivePaths \cup CasePaths \cup VectorPaths \cup {IndexPath}

Sha256(b) == <<"sha256", b>>

ValidPair(files, area, name) ==
  files[<<area, name, "sidecar">>] = Sha256(files[<<area, name, "record">>])

\* A mutation of the baseline record or, for hash-stage cases, of its sidecar.
CaseRecord(n, b) == IF n \in OnSidecar THEN b ELSE <<"mutated", n, b>>
CaseSidecar(n, b) ==
  IF n \in Bare THEN Absent
  ELSE IF n \in OnSidecar THEN <<"mutated", n, Sha256(b)>>
  ELSE Sha256(CaseRecord(n, b))

CaseFile(n, b) ==
  [part \in CaseFiles \cup {"dir"} |->
     CASE part = "dir"     -> <<"dir">>
       [] part = "record"  -> CaseRecord(n, b)
       [] part = "sidecar" -> CaseSidecar(n, b)
       [] part = "meta"    -> <<"meta", n, b>>]

\* vectors.json: a digest for every vector of the run that wrote it.
Index(ts, src) == <<"index", [t \in ToSet(ts) |-> Sha256(VectorBytes(t, src))]>>

\* The successes and the baseline of version v, and the bytes they can have had.
Examples(v) == [p \in ToSet(Positives) |-> Example(p, v)]
Records(p)  == {Example(p, v) : v \in Versions} \cup {Torn}
Baselines   == Records(Baseline)

\* The positives that vectors can be made of.
Sources ==
  {src \in [ToSet(Positives) -> UNION {Records(p) : p \in ToSet(Positives)}] :
     src[Baseline] # Torn /\ \A p \in ToSet(Positives) : src[p] \in Records(p)}

\* No name occurs twice in a table, and the names are those of every version.
ASSUME NamesAssumption ==
  /\ Positives \in Seq(ToSet(Positives)) /\ Positives # <<>> /\ IsInjective(Positives)
  /\ CaseNames \in Seq(ToSet(CaseNames)) /\ IsInjective(CaseNames)
  /\ \A v \in Versions :
       /\ Cases(v) \in Seq(ToSet(CaseNames)) /\ IsInjective(Cases(v))
       /\ Vectors(v) \in Seq(ToSet(VectorNames)) /\ IsInjective(Vectors(v))

\* What the generators write into a file is never the absence of it, and a torn
\* file is not a whole one, where a sweep can tell.
ASSUME ContentsAssumption ==
  /\ Absent # Torn /\ Sha256(Torn) \notin {Absent, Torn}
  /\ \A v \in Versions :
       /\ \A p \in ToSet(Positives) : Example(p, v) \notin {Absent, Torn}
       /\ \A src \in Sources : Index(Vectors(v), src) \notin {Absent, Torn}
  /\ \A t \in ToSet(VectorNames), src \in Sources : VectorBytes(t, src) # Absent
  /\ \A n \in ToSet(CaseNames), b \in Baselines :
       /\ CaseFile(n, b)["dir"] # Absent /\ CaseFile(n, b)["record"] # Absent
       /\ n \notin Bare => CaseFile(n, b)["sidecar"] # Absent
       /\ CaseFile(n, b)["meta"] \notin {Absent, Torn}

(***************************************************************************)
(* File operations.                                                        *)
(***************************************************************************)

Write(path, bytes) == [op |-> "write", path |-> path, bytes |-> bytes]
Unlink(paths)      == [op |-> "remove", paths |-> paths]  \* those there are, in any order
Fail               == [op |-> "fail"]                     \* an exception or exit status 1

(***************************************************************************)
(* generate_success_fixtures                                               *)
(***************************************************************************)

\* Nothing is removed: a pair is written over the one that was there.
SuccessTasks == [k \in DOMAIN Positives |-> <<"pair", Positives[k]>>]

write_pair(area, name, bytes) ==
  <<Write(<<area, name, "record">>, bytes), Write(<<area, name, "sidecar">>, Sha256(bytes))>>

PairOps(p, v) ==
  IF Canonical(Example(p, v)) THEN write_pair("positive", p, Example(p, v)) ELSE <<Fail>>

(***************************************************************************)
(* generate_negative_cases                                                 *)
(***************************************************************************)

\* Mutant: cases of an earlier version stay where they are.
NegativeTasksOver(v) ==
  <<<<"baseline">>>>
    \o [k \in DOMAIN Cases(v) |-> <<"remove", Cases(v)[k]>>]
    \o [k \in DOMAIN Cases(v) |-> <<"case", Cases(v)[k]>>]
    \o <<<<"verdict">>>>

NegativeTasks(v) ==
  <<<<"baseline">>>>
    \o [k \in DOMAIN CaseNames |-> <<"remove", CaseNames[k]>>]
    \o [k \in DOMAIN Cases(v) |-> <<"case", Cases(v)[k]>>]
    \o <<<<"verdict">>>>

BaselineRecord(files) == files[<<"positive", Baseline, "record">>]

BaselineOps(files) == IF BaselineRecord(files) = Absent THEN <<Fail>> ELSE <<>>

\* rmtree: the files of a case, then its directory.
RemoveOps(n) == <<Unlink({"case"} \X {n} \X CaseFiles), Unlink({<<"case", n, "dir">>})>>

\* materialize consults the baseline for records that pass the format stage; an
\* invalid one raises BaselineError after the case was written.
BaselineRaises(files, n, b) ==
  Canonical(CaseRecord(n, b)) /\ ~ (Canonical(b) /\ ValidPair(files, "positive", Baseline))

\* Mutant: meta.json is written before the files it describes.
CasePartsMetaFirst(n) ==
  IF n \in Bare THEN <<"dir", "meta", "record">> ELSE <<"dir", "meta", "record", "sidecar">>

\* The directory and the files of a case, in the order they are made.
CaseParts(n) ==
  IF n \in Bare THEN <<"dir", "record", "meta">> ELSE <<"dir", "record", "sidecar", "meta">>

CaseOps(files, n) ==
  LET b == BaselineRecord(files)
      puts == [k \in DOMAIN CaseParts(n) |->
                 Write(<<"case", n, CaseParts(n)[k]>>, CaseFile(n, b)[CaseParts(n)[k]])]
  IN  IF ~ Mutable(n, b) THEN <<Head(puts), Fail>>
      ELSE IF BaselineRaises(files, n, b) THEN Append(puts, Fail)
      ELSE puts

\* Unexpected outcomes are counted, and the exit status speaks of them at the end.
VerdictOps(files, v) ==
  LET b == BaselineRecord(files)
  IN  IF \A n \in ToSet(Cases(v)) : AsExpected(n, CaseRecord(n, b), CaseSidecar(n, b), b)
      THEN <<>> ELSE <<Fail>>

(***************************************************************************)
(* generate_test_vectors                                                   *)
(***************************************************************************)

\* All vectors are removed before build, and the index is written last.
VectorTasks(v) ==
  <<<<"clear">>>> \o [k \in DOMAIN Vectors(v) |-> <<"vector", Vectors(v)[k]>>] \o <<<<"index">>>>

RecordsOf(files) == [p \in ToSet(Positives) |-> files[<<"positive", p, "record">>]]

\* build fails when a positive is missing, or the baseline cannot be scanned.
Buildable(files) ==
  /\ \A p \in ToSet(Positives) : files[<<"positive", p, "record">>] # Absent
  /\ BaselineRecord(files) # Torn

ClearOps(files) ==
  IF Buildable(files) THEN <<Unlink(VectorPaths)>> ELSE <<Unlink(VectorPaths), Fail>>

\* A vector of the wrong kind ends the run after it was written.
WrongKind(t, bytes) ==
  Kind(t) # "identity_only" /\ (Kind(t) = "canonical_record") # Canonical(bytes)

VectorOps(files, t) ==
  LET bytes == VectorBytes(t, RecordsOf(files))
      pair == write_pair("vector", t, bytes)
  IN  IF WrongKind(t, bytes) THEN Append(pair, Fail) ELSE pair

IndexOps(files, v) == <<Write(IndexPath, Index(Vectors(v), RecordsOf(files)))>>

(***************************************************************************)
(* What version v derives from its examples, file by file.                 *)
(***************************************************************************)

Derived(v) ==
  LET src == Examples(v)
      Pair(bytes, part) == IF part = "record" THEN bytes ELSE Sha256(bytes)
  IN  [path \in FixturePaths |->
         IF path = IndexPath THEN Index(Vectors(v), src)
         ELSE IF path[1] = "positive" THEN Pair(src[path[2]], path[3])
         ELSE IF path[1] = "vector" /\ path[2] \in ToSet(Vectors(v))
              THEN Pair(VectorBytes(path[2], src), path[3])
         ELSE IF path[1] = "case" /\ path[2] \in ToSet(Cases(v))
              THEN CaseFile(path[2], src[Baseline])[path[3]]
         ELSE Absent]
=============================================================================
