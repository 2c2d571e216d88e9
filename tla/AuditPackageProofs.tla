------------------------- MODULE AuditPackageProofs -------------------------
(***************************************************************************)
(* Proofs about AuditPackage, for every set of versions, every table of    *)
(* the generators and every number of faults and edits.                    *)
(***************************************************************************)
EXTENDS AuditPackage, SequenceTheorems, TLAPS

(***************************************************************************)
(* The tables.                                                             *)
(***************************************************************************)

\* The tables are sequences, and that of the positives is not empty.
LEMMA Tables ==
  ASSUME NEW v \in Versions
  PROVE  /\ Len(Positives) \in Nat \ {0} /\ DOMAIN Positives = 1..Len(Positives)
         /\ Len(CaseNames) \in Nat /\ DOMAIN CaseNames = 1..Len(CaseNames)
         /\ Len(Cases(v)) \in Nat /\ DOMAIN Cases(v) = 1..Len(Cases(v))
         /\ Len(Vectors(v)) \in Nat /\ DOMAIN Vectors(v) = 1..Len(Vectors(v))
BY NamesAssumption DEF NamesAssumption

\* The elements of a table are those that its indices reach.
LEMMA Members ==
  ASSUME NEW v \in Versions
  PROVE  /\ \A i \in 1..Len(Positives) : Positives[i] \in ToSet(Positives)
         /\ \A p \in ToSet(Positives) : \E i \in 1..Len(Positives) : Positives[i] = p
         /\ \A i \in 1..Len(CaseNames) : CaseNames[i] \in ToSet(CaseNames)
         /\ \A n \in ToSet(CaseNames) : \E i \in 1..Len(CaseNames) : CaseNames[i] = n
         /\ \A i \in 1..Len(Cases(v)) : Cases(v)[i] \in ToSet(Cases(v)) \cap ToSet(CaseNames)
         /\ \A n \in ToSet(Cases(v)) : \E i \in 1..Len(Cases(v)) : Cases(v)[i] = n
         /\ \A i \in 1..Len(Vectors(v)) : Vectors(v)[i] \in ToSet(Vectors(v)) \cap ToSet(VectorNames)
         /\ \A t \in ToSet(Vectors(v)) : \E i \in 1..Len(Vectors(v)) : Vectors(v)[i] = t
         /\ Baseline \in ToSet(Positives)
<1>1. /\ \A i \in 1..Len(Positives) : Positives[i] \in ToSet(Positives)
      /\ \A p \in ToSet(Positives) : \E i \in 1..Len(Positives) : Positives[i] = p
  BY Tables DEF ToSet
<1>2. /\ \A i \in 1..Len(CaseNames) : CaseNames[i] \in ToSet(CaseNames)
      /\ \A n \in ToSet(CaseNames) : \E i \in 1..Len(CaseNames) : CaseNames[i] = n
  BY Tables DEF ToSet
<1>3. \A i \in 1..Len(Cases(v)) : Cases(v)[i] \in ToSet(Cases(v)) \cap ToSet(CaseNames)
  <2>1. \A i \in 1..Len(Cases(v)) : Cases(v)[i] \in ToSet(Cases(v))
    BY Tables DEF ToSet
  <2>2. \A i \in 1..Len(Cases(v)) : Cases(v)[i] \in ToSet(CaseNames)
    BY NamesAssumption DEF NamesAssumption
  <2> QED
    BY <2>1, <2>2
<1>4. \A n \in ToSet(Cases(v)) : \E i \in 1..Len(Cases(v)) : Cases(v)[i] = n
  BY Tables DEF ToSet
<1>5. \A i \in 1..Len(Vectors(v)) : Vectors(v)[i] \in ToSet(Vectors(v)) \cap ToSet(VectorNames)
  <2>1. \A i \in 1..Len(Vectors(v)) : Vectors(v)[i] \in ToSet(Vectors(v))
    BY Tables DEF ToSet
  <2>2. \A i \in 1..Len(Vectors(v)) : Vectors(v)[i] \in ToSet(VectorNames)
    BY NamesAssumption DEF NamesAssumption
  <2> QED
    BY <2>1, <2>2
<1>6. \A t \in ToSet(Vectors(v)) : \E i \in 1..Len(Vectors(v)) : Vectors(v)[i] = t
  BY Tables DEF ToSet
<1>7. Baseline \in ToSet(Positives)
  <2>1. Len(Positives) \in 1..Len(Positives)
    BY Tables
  <2> QED
    BY <2>1, <1>1 DEF Baseline, Last
<1> QED
  BY <1>1, <1>2, <1>3, <1>4, <1>5, <1>6, <1>7

\* An element of a table has one index.
LEMMA NoRepetition ==
  ASSUME NEW v \in Versions
  PROVE  /\ \A i, j \in 1..Len(Positives) : Positives[i] = Positives[j] => i = j
         /\ \A i, j \in 1..Len(CaseNames) : CaseNames[i] = CaseNames[j] => i = j
         /\ \A i, j \in 1..Len(Cases(v)) : Cases(v)[i] = Cases(v)[j] => i = j
         /\ \A i, j \in 1..Len(Vectors(v)) : Vectors(v)[i] = Vectors(v)[j] => i = j
BY NamesAssumption, Tables DEF NamesAssumption, IsInjective

(***************************************************************************)
(* The tasks.                                                              *)
(***************************************************************************)

\* Where the elements of two sequences are in their concatenation.
Joined(s, t) ==
  /\ Len(s \o t) = Len(s) + Len(t)
  /\ \A i \in 1..Len(s) : (s \o t)[i] = s[i]
  /\ \A i \in 1..Len(t) : (s \o t)[Len(s) + i] = t[i]

\* Both parts of a concatenation keep their order.
LEMMA Concat ==
  ASSUME NEW S, NEW s \in Seq(S), NEW t \in Seq(S)
  PROVE  s \o t \in Seq(S) /\ Joined(s, t)
<1>1. /\ s \o t \in Seq(S) /\ Len(s \o t) = Len(s) + Len(t)
      /\ \A i \in 1..Len(s) + Len(t) :
           (s \o t)[i] = IF i <= Len(s) THEN s[i] ELSE t[i - Len(s)]
  BY ConcatProperties
<1>2. \A i \in 1..Len(t) : (s \o t)[Len(s) + i] = t[i]
  <2> TAKE i \in 1..Len(t)
  <2>1. Len(s) + i \in 1..Len(s) + Len(t) /\ ~ (Len(s) + i <= Len(s)) /\ (Len(s) + i) - Len(s) = i
    OBVIOUS
  <2> QED
    BY <1>1, <2>1
<1> QED
  BY <1>1, <1>2 DEF Joined

\* generate_negative_cases: the baseline, the removals, the cases, the verdict.
LEMMA NegativeTasksAre ==
  ASSUME NEW v \in Versions
  PROVE  LET R == Len(CaseNames)
             W == Len(Cases(v))
             T == NegativeTasks(v)
         IN  /\ DOMAIN T = 1..(2 + R + W) /\ Len(T) = 2 + R + W
             /\ T[1] = <<"baseline">>
             /\ \A i \in 1..R : T[1 + i] = <<"remove", CaseNames[i]>>
             /\ \A i \in 1..W : T[1 + R + i] = <<"case", Cases(v)[i]>>
             /\ T[2 + R + W] = <<"verdict">>
<1> DEFINE R == Len(CaseNames)
           W == Len(Cases(v))
           Tuples == {<<"baseline">>, <<"verdict">>}
                       \cup ({"remove", "case"} \X ToSet(CaseNames))
           a == <<<<"baseline">>>>
           b == [k \in 1..R |-> <<"remove", CaseNames[k]>>]
           c == [k \in 1..W |-> <<"case", Cases(v)[k]>>]
           d == <<<<"verdict">>>>
<1>1. R \in Nat /\ W \in Nat
  BY Tables
<1>2. a \in Seq(Tuples) /\ Len(a) = 1 /\ a[1] = <<"baseline">>
  OBVIOUS
<1>3. b \in Seq(Tuples) /\ Len(b) = R /\ \A i \in 1..R : b[i] = <<"remove", CaseNames[i]>>
  BY <1>1, Members
<1>4. c \in Seq(Tuples) /\ Len(c) = W /\ \A i \in 1..W : c[i] = <<"case", Cases(v)[i]>>
  BY <1>1, Members
<1>5. d \in Seq(Tuples) /\ Len(d) = 1 /\ d[1] = <<"verdict">>
  OBVIOUS
<1>6. NegativeTasks(v) = a \o b \o c \o d
  BY Tables DEF NegativeTasks
<1> HIDE DEF a, b, c, d, R, W, Tuples
<1>7. /\ a \o b \in Seq(Tuples) /\ Len(a \o b) = 1 + R
      /\ (a \o b)[1] = <<"baseline">>
      /\ \A i \in 1..R : (a \o b)[1 + i] = <<"remove", CaseNames[i]>>
  <2>1. a \o b \in Seq(Tuples) /\ Joined(a, b)
    BY ONLY Concat, <1>2, <1>3
  <2> QED
    BY <2>1, <1>2, <1>3 DEF Joined
<1>8. /\ a \o b \o c \in Seq(Tuples) /\ Len(a \o b \o c) = 1 + R + W
      /\ (a \o b \o c)[1] = <<"baseline">>
      /\ \A i \in 1..R : (a \o b \o c)[1 + i] = <<"remove", CaseNames[i]>>
      /\ \A i \in 1..W : (a \o b \o c)[1 + R + i] = <<"case", Cases(v)[i]>>
  <2>1. a \o b \o c \in Seq(Tuples) /\ Joined(a \o b, c)
    BY ONLY Concat, <1>4, <1>7
  <2>2. 1 \in 1..(1 + R) /\ \A i \in 1..R : 1 + i \in 1..(1 + R)
    BY <1>1
  <2> QED
    BY <2>1, <2>2, <1>4, <1>7 DEF Joined
<1>9. /\ Len(a \o b \o c \o d) = 2 + R + W
      /\ (a \o b \o c \o d)[1] = <<"baseline">>
      /\ \A i \in 1..R : (a \o b \o c \o d)[1 + i] = <<"remove", CaseNames[i]>>
      /\ \A i \in 1..W : (a \o b \o c \o d)[1 + R + i] = <<"case", Cases(v)[i]>>
      /\ (a \o b \o c \o d)[2 + R + W] = <<"verdict">>
  <2>1. Joined(a \o b \o c, d)
    BY ONLY Concat, <1>5, <1>8
  <2>2. /\ 1 \in 1..(1 + R + W) /\ 1 \in 1..1 /\ 1 + R + W + 1 = 2 + R + W
        /\ \A i \in 1..R : 1 + i \in 1..(1 + R + W)
        /\ \A i \in 1..W : 1 + R + i \in 1..(1 + R + W)
    BY <1>1
  <2>3. (a \o b \o c \o d)[2 + R + W] = d[1]
    BY <2>1, <2>2, <1>5, <1>8 DEF Joined
  <2> QED
    BY <2>1, <2>2, <2>3, <1>5, <1>8 DEF Joined
<1>10. DOMAIN (a \o b \o c \o d) = 1..(2 + R + W)
  <2>1. a \o b \o c \o d \in Seq(Tuples)
    BY <1>5, <1>8, ConcatProperties
  <2> QED
    BY <2>1, <1>9
<1> QED
  BY <1>6, <1>9, <1>10 DEF R, W
\* generate_test_vectors: the removal, the vectors, the index.
LEMMA VectorTasksAre ==
  ASSUME NEW v \in Versions
  PROVE  LET W == Len(Vectors(v))
             T == VectorTasks(v)
         IN  /\ DOMAIN T = 1..(2 + W) /\ Len(T) = 2 + W
             /\ T[1] = <<"clear">>
             /\ \A i \in 1..W : T[1 + i] = <<"vector", Vectors(v)[i]>>
             /\ T[2 + W] = <<"index">>
<1> DEFINE W == Len(Vectors(v))
           Tuples == {<<"clear">>, <<"index">>} \cup ({"vector"} \X ToSet(VectorNames))
           a == <<<<"clear">>>>
           b == [k \in 1..W |-> <<"vector", Vectors(v)[k]>>]
           c == <<<<"index">>>>
<1>1. W \in Nat
  BY Tables
<1>2. a \in Seq(Tuples) /\ Len(a) = 1 /\ a[1] = <<"clear">>
  OBVIOUS
<1>3. b \in Seq(Tuples) /\ Len(b) = W /\ \A i \in 1..W : b[i] = <<"vector", Vectors(v)[i]>>
  BY <1>1, Members
<1>4. c \in Seq(Tuples) /\ Len(c) = 1 /\ c[1] = <<"index">>
  OBVIOUS
<1>5. VectorTasks(v) = a \o b \o c
  BY Tables DEF VectorTasks
<1> HIDE DEF a, b, c, W, Tuples
<1>6. /\ a \o b \in Seq(Tuples) /\ Len(a \o b) = 1 + W
      /\ (a \o b)[1] = <<"clear">>
      /\ \A i \in 1..W : (a \o b)[1 + i] = <<"vector", Vectors(v)[i]>>
  <2>1. a \o b \in Seq(Tuples) /\ Joined(a, b)
    BY ONLY Concat, <1>2, <1>3
  <2> QED
    BY <2>1, <1>2, <1>3 DEF Joined
<1>7. /\ a \o b \o c \in Seq(Tuples) /\ Len(a \o b \o c) = 2 + W
      /\ (a \o b \o c)[1] = <<"clear">>
      /\ \A i \in 1..W : (a \o b \o c)[1 + i] = <<"vector", Vectors(v)[i]>>
      /\ (a \o b \o c)[2 + W] = <<"index">>
  <2>1. a \o b \o c \in Seq(Tuples) /\ Joined(a \o b, c)
    BY ONLY Concat, <1>4, <1>6
  <2>2. /\ 1 \in 1..(1 + W) /\ 1 \in 1..1 /\ 1 + W + 1 = 2 + W
        /\ \A i \in 1..W : 1 + i \in 1..(1 + W)
    BY <1>1
  <2>3. (a \o b \o c)[2 + W] = c[1]
    BY <2>1, <2>2, <1>4, <1>6 DEF Joined
  <2> QED
    BY <2>1, <2>2, <2>3, <1>4, <1>6 DEF Joined
<1>8. DOMAIN (a \o b \o c) = 1..(2 + W)
  BY <1>7
<1> QED
  BY <1>5, <1>7, <1>8 DEF W

(***************************************************************************)
(* The operations of a task.                                               *)
(***************************************************************************)

IsWrite(o, path, bytes) == o.op = "write" /\ o.path = path /\ o.bytes = bytes
IsUnlink(o, paths)      == o.op = "remove" /\ o.paths = paths
IsFail(o)               == o.op = "fail"

\* The kinds of the three constructors of operations.
LEMMA OpKinds ==
  /\ \A path, bytes : IsWrite(Write(path, bytes), path, bytes)
  /\ \A paths : IsUnlink(Unlink(paths), paths)
  /\ IsFail(Fail)
BY DEF IsWrite, IsUnlink, IsFail, Write, Unlink, Fail

\* The operations of a task are numbered from 1.
IsTask(ops) == Len(ops) \in Nat /\ DOMAIN ops = 1..Len(ops)

WritesPart(o, n, part) ==
  IsWrite(o, <<"case", n, part>>, CaseFile(n, BaselineRecord(files))[part])

\* A case is written part by part, unless it fails.
LEMMA CaseOpsAre ==
  ASSUME NEW n
  PROVE  LET ops == CaseOps(files, n)
             L == Len(CaseParts(n))
         IN  /\ IsTask(ops)
             /\ \A k \in DOMAIN ops :
                  IsFail(ops[k]) \/ (k \in 1..L /\ WritesPart(ops[k], n, CaseParts(n)[k]))
             /\ (\A k \in DOMAIN ops : ~ IsFail(ops[k])) => Len(ops) = L
<1> DEFINE b == BaselineRecord(files)
           PutPart(part) == Write(<<"case", n, part>>, CaseFile(n, b)[part])
           puts == [k \in DOMAIN CaseParts(n) |-> PutPart(CaseParts(n)[k])]
           fail == Fail
           raises == BaselineRaises(files, n, b)
           ops == CaseOps(files, n)
           L == Len(CaseParts(n))
<1>1. ops = IF ~ Mutable(n, b) THEN <<Head(puts), fail>>
            ELSE IF raises THEN Append(puts, fail) ELSE puts
  BY DEF CaseOps
<1>2. L \in {3, 4} /\ DOMAIN CaseParts(n) = 1..L
  <2>1. CASE n \in Bare
    BY <2>1 DEF CaseParts
  <2>2. CASE n \notin Bare
    BY <2>2 DEF CaseParts
  <2> QED
    BY <2>1, <2>2
<1>3. /\ \A k \in 1..L : WritesPart(puts[k], n, CaseParts(n)[k])
      /\ IsFail(fail)
  BY OpKinds, <1>2 DEF WritesPart
<1>4. /\ Len(puts) = L /\ DOMAIN puts = 1..L /\ Head(puts) = puts[1]
      /\ Len(Append(puts, fail)) = L + 1 /\ DOMAIN Append(puts, fail) = 1..(L + 1)
      /\ \A k \in 1..L : Append(puts, fail)[k] = puts[k]
      /\ Append(puts, fail)[L + 1] = fail
  BY <1>2
<1> HIDE DEF puts, fail, raises, ops, b, L
<1>5. CASE ~ Mutable(n, b)
  BY <1>1, <1>2, <1>3, <1>4, <1>5 DEF IsTask, ops, L
<1>6. CASE Mutable(n, b) /\ raises
  <2>1. ops = Append(puts, fail)
    BY <1>1, <1>6
  <2>2. Len(ops) = L + 1 /\ IsTask(ops)
    BY <2>1, <1>2, <1>4 DEF IsTask
  <2>3. ASSUME NEW k \in DOMAIN ops
        PROVE  IsFail(ops[k]) \/ (k \in 1..L /\ WritesPart(ops[k], n, CaseParts(n)[k]))
    <3>1. k \in 1..L \/ k = L + 1
      BY <2>1, <1>2, <1>4
    <3> QED
      BY <3>1, <2>1, <1>3, <1>4
  <2>4. L + 1 \in DOMAIN ops /\ IsFail(ops[L + 1])
    BY <2>1, <1>2, <1>3, <1>4
  <2> QED
    BY <2>2, <2>3, <2>4 DEF ops, L
<1>7. CASE Mutable(n, b) /\ ~ raises
  BY <1>1, <1>2, <1>3, <1>4, <1>7 DEF IsTask, ops, L
<1> QED
  BY <1>5, <1>6, <1>7

WritesPair(o, k, area, name, bytes) ==
  \/ k = 1 /\ IsWrite(o, <<area, name, "record">>, bytes)
  \/ k = 2 /\ IsWrite(o, <<area, name, "sidecar">>, Sha256(bytes))

\* A pair is the record, then the sidecar, then perhaps a failure.
LEMMA PairIs ==
  ASSUME NEW area, NEW name, NEW bytes
  PROVE  LET pair == write_pair(area, name, bytes)
         IN  /\ IsTask(pair) /\ Len(pair) = 2
             /\ \A k \in 1..2 : WritesPair(pair[k], k, area, name, bytes)
             /\ IsTask(Append(pair, Fail)) /\ Len(Append(pair, Fail)) = 3
             /\ \A k \in 1..2 : Append(pair, Fail)[k] = pair[k]
             /\ Append(pair, Fail)[3] = Fail
<1> DEFINE a == Write(<<area, name, "record">>, bytes)
           b == Write(<<area, name, "sidecar">>, Sha256(bytes))
           f == Fail
           pair == <<a, b>>
<1>1. write_pair(area, name, bytes) = pair
  BY DEF write_pair
<1>2. /\ IsWrite(a, <<area, name, "record">>, bytes)
      /\ IsWrite(b, <<area, name, "sidecar">>, Sha256(bytes))
  BY OpKinds
<1> HIDE DEF a, b, f
<1>3. /\ IsTask(pair) /\ Len(pair) = 2 /\ pair[1] = a /\ pair[2] = b
      /\ IsTask(Append(pair, f)) /\ Len(Append(pair, f)) = 3
      /\ Append(pair, f)[1] = a /\ Append(pair, f)[2] = b /\ Append(pair, f)[3] = f
  BY DEF IsTask
<1>4. \A k \in 1..2 : WritesPair(pair[k], k, area, name, bytes)
  BY <1>2, <1>3 DEF WritesPair
<1>5. \A k \in 1..2 : Append(pair, f)[k] = pair[k]
  BY <1>3
<1> QED
  BY <1>1, <1>3, <1>4, <1>5 DEF f

\* The operations of each kind of task.
LEMMA JobOps ==
  /\ \A p : Ops(<<"pair", p>>) = PairOps(p, version)
  /\ Ops(<<"baseline">>) = BaselineOps(files)
  /\ \A n : Ops(<<"remove", n>>) = RemoveOps(n)
  /\ \A n : Ops(<<"case", n>>) = CaseOps(files, n)
  /\ Ops(<<"verdict">>) = VerdictOps(files, version)
  /\ Ops(<<"clear">>) = ClearOps(files)
  /\ \A t : Ops(<<"vector", t>>) = VectorOps(files, t)
  /\ Ops(<<"index">>) = IndexOps(files, version)
  /\ Ops(<<"hashes">>) = IF HashesPass THEN <<>> ELSE <<Fail>>
  /\ Ops(<<"audit">>) = AuditOps
  /\ Ops(<<"build">>) = BuildOps
BY DEF Ops

(***************************************************************************)
(* The tools, task by task.                                                *)
(***************************************************************************)

Completes(ops) == \A k \in DOMAIN ops : ~ IsFail(ops[k])

\* The tasks of generate_success_fixtures, one for each positive.
LEMMA SuccessLen ==
  version \in Versions /\ tool = "success" =>
         /\ Len(Tasks(tool)) = Len(Positives) /\ Len(Positives) \in Nat
         /\ \A i \in 1..Len(Positives) : Begun(i) = PairOps(Positives[i], version)
<1> SUFFICES ASSUME version \in Versions, tool = "success"
             PROVE  /\ Len(Tasks(tool)) = Len(Positives) /\ Len(Positives) \in Nat
                    /\ \A i \in 1..Len(Positives) : Begun(i) = PairOps(Positives[i], version)
  OBVIOUS
<1>1. /\ Len(Tasks(tool)) = Len(Positives) /\ Len(Positives) \in Nat
      /\ \A j \in 1..Len(Positives) : Tasks(tool)[j] = <<"pair", Positives[j]>>
  BY Tables DEF Tasks, SuccessTasks
<1> QED
  BY <1>1, JobOps DEF Begun

\* Such a task writes a pair, unless it fails; it fails on a record that is not canonical.
LEMMA SuccessTask ==
  ASSUME version \in Versions, tool = "success", NEW j \in 1..Len(Tasks(tool))
  PROVE  LET ops == Begun(j)
             p == Positives[j]
             b == Example(p, version)
         IN  /\ j \in 1..Len(Positives) /\ Len(Tasks(tool)) = Len(Positives)
             /\ IsTask(ops)
             /\ \A k \in DOMAIN ops : IsFail(ops[k]) \/ WritesPair(ops[k], k, "positive", p, b)
             /\ Completes(ops) => Len(ops) = 2 /\ Canonical(b)
<1> DEFINE p == Positives[j]
           b == Example(p, version)
           pair == write_pair("positive", p, b)
<1>1. j \in 1..Len(Positives) /\ Len(Tasks(tool)) = Len(Positives)
  BY SuccessLen
<1>2. Begun(j) = PairOps(p, version)
  BY <1>1, SuccessLen
<1>3. CASE Canonical(b)
  <2>1. Begun(j) = pair
    BY <1>2, <1>3 DEF PairOps
  <2>2. /\ IsTask(pair) /\ Len(pair) = 2
        /\ \A k \in 1..2 : WritesPair(pair[k], k, "positive", p, b)
    BY PairIs
  <2> HIDE DEF pair, b, p
  <2>3. DOMAIN pair = 1..2
    BY <2>2 DEF IsTask
  <2>4. /\ IsTask(Begun(j)) /\ Len(Begun(j)) = 2
        /\ \A k \in DOMAIN Begun(j) : WritesPair(Begun(j)[k], k, "positive", p, b)
    BY <2>1, <2>2, <2>3
  <2> QED
    BY <1>1, <1>3, <2>4 DEF b, p
<1>4. CASE ~ Canonical(b)
  <2> DEFINE f == Fail
  <2>1. Begun(j) = <<f>> /\ IsFail(f)
    BY <1>2, <1>4, OpKinds DEF PairOps
  <2> HIDE DEF f, b, p
  <2>2. /\ IsTask(Begun(j)) /\ DOMAIN Begun(j) = 1..1
        /\ \A k \in DOMAIN Begun(j) : IsFail(Begun(j)[k])
    BY <2>1 DEF IsTask
  <2>3. ~ Completes(Begun(j))
    BY <2>2 DEF Completes
  <2> QED
    BY <1>1, <2>2, <2>3 DEF b, p
<1> QED
  BY <1>3, <1>4

R == Len(CaseNames)
W == Len(Cases(version))
X == Len(Vectors(version))

\* The tasks of generate_negative_cases and their operations.
LEMMA NegativeLen ==
  version \in Versions /\ tool = "negative" =>
         /\ Len(Tasks(tool)) = 2 + R + W /\ R \in Nat /\ W \in Nat
         /\ Begun(1) = BaselineOps(files)
         /\ \A i \in 1..R : Begun(1 + i) = RemoveOps(CaseNames[i])
         /\ \A i \in 1..W : Begun(1 + R + i) = CaseOps(files, Cases(version)[i])
         /\ Begun(2 + R + W) = VerdictOps(files, version)
<1> SUFFICES ASSUME version \in Versions, tool = "negative"
             PROVE  /\ Len(Tasks(tool)) = 2 + R + W /\ R \in Nat /\ W \in Nat
                    /\ Begun(1) = BaselineOps(files)
                    /\ \A i \in 1..R : Begun(1 + i) = RemoveOps(CaseNames[i])
                    /\ \A i \in 1..W : Begun(1 + R + i) = CaseOps(files, Cases(version)[i])
                    /\ Begun(2 + R + W) = VerdictOps(files, version)
  OBVIOUS
<1>1. Tasks(tool) = NegativeTasks(version)
  BY DEF Tasks
<1>2. R \in Nat /\ W \in Nat
  BY Tables DEF R, W
<1>3. /\ Len(Tasks(tool)) = 2 + R + W
      /\ Tasks(tool)[1] = <<"baseline">>
      /\ \A i \in 1..R : Tasks(tool)[1 + i] = <<"remove", CaseNames[i]>>
      /\ \A i \in 1..W : Tasks(tool)[1 + R + i] = <<"case", Cases(version)[i]>>
      /\ Tasks(tool)[2 + R + W] = <<"verdict">>
  BY <1>1, NegativeTasksAre DEF R, W
<1>4. \A i \in 1..R : Begun(1 + i) = RemoveOps(CaseNames[i])
  BY <1>3, JobOps DEF Begun
<1>5. \A i \in 1..W : Begun(1 + R + i) = CaseOps(files, Cases(version)[i])
  BY <1>3, JobOps DEF Begun
<1> QED
  BY <1>2, <1>3, <1>4, <1>5, JobOps DEF Begun

\* Every task is one of the five kinds.
LEMMA NegativeIndex ==
  ASSUME version \in Versions, tool = "negative", NEW j \in 1..Len(Tasks(tool))
  PROVE  \/ j = 1
         \/ \E i \in 1..R : j = 1 + i
         \/ \E i \in 1..W : j = 1 + R + i
         \/ j = 2 + R + W
<1>1. Len(Tasks(tool)) = 2 + R + W /\ R \in Nat /\ W \in Nat
  BY NegativeLen
<1>2. CASE j >= 2 /\ j <= 1 + R
  <2>1. j - 1 \in 1..R /\ j = 1 + (j - 1)
    BY <1>1, <1>2
  <2> QED
    BY <2>1
<1>3. CASE j >= 2 + R /\ j <= 1 + R + W
  <2>1. j - (1 + R) \in 1..W /\ j = 1 + R + (j - (1 + R))
    BY <1>1, <1>3
  <2> QED
    BY <2>1
<1> QED
  BY <1>1, <1>2, <1>3

\* Without a baseline record the generator stops.
LEMMA BaselineTask ==
  /\ IsTask(BaselineOps(files))
  /\ \A k \in DOMAIN BaselineOps(files) : IsFail(BaselineOps(files)[k])
  /\ Completes(BaselineOps(files)) => BaselineRecord(files) # Absent
<1> DEFINE f == Fail
<1>1. IsFail(f)
  BY OpKinds
<1>2. BaselineOps(files) = IF BaselineRecord(files) = Absent THEN <<f>> ELSE <<>>
  BY DEF BaselineOps
<1> HIDE DEF f
<1>3. CASE BaselineRecord(files) = Absent
  BY <1>1, <1>2, <1>3 DEF IsTask, Completes
<1>4. CASE BaselineRecord(files) # Absent
  BY <1>1, <1>2, <1>4 DEF IsTask, Completes
<1> QED
  BY <1>3, <1>4

\* A removal of a case unlinks its files, then its directory.
LEMMA RemoveTask ==
  ASSUME NEW n
  PROVE  /\ IsTask(RemoveOps(n)) /\ Len(RemoveOps(n)) = 2
         /\ IsUnlink(RemoveOps(n)[1], {"case"} \X {n} \X CaseFiles)
         /\ IsUnlink(RemoveOps(n)[2], {<<"case", n, "dir">>})
<1> DEFINE a == Unlink({"case"} \X {n} \X CaseFiles)
           b == Unlink({<<"case", n, "dir">>})
<1>1. RemoveOps(n) = <<a, b>>
  BY DEF RemoveOps
<1>2. IsUnlink(a, {"case"} \X {n} \X CaseFiles) /\ IsUnlink(b, {<<"case", n, "dir">>})
  BY OpKinds
<1> HIDE DEF a, b
<1> QED
  BY <1>1, <1>2 DEF IsTask

\* The verdict of the version on its cases, with the baseline it is derived from.
AllAsExpected(b) ==
  \A n \in ToSet(Cases(version)) : AsExpected(n, CaseRecord(n, b), CaseSidecar(n, b), b)

\* The verdict fails when a case is not as expected.
LEMMA VerdictTask ==
  /\ IsTask(VerdictOps(files, version))
  /\ \A k \in DOMAIN VerdictOps(files, version) : IsFail(VerdictOps(files, version)[k])
  /\ Completes(VerdictOps(files, version)) => AllAsExpected(BaselineRecord(files))
<1> DEFINE f == Fail
           good == AllAsExpected(BaselineRecord(files))
<1>1. IsFail(f)
  BY OpKinds
<1>2. VerdictOps(files, version) = IF good THEN <<>> ELSE <<f>>
  BY DEF VerdictOps, AllAsExpected
<1> HIDE DEF f, good
<1>3. CASE good
  BY <1>1, <1>2, <1>3 DEF IsTask, Completes, good
<1>4. CASE ~ good
  BY <1>1, <1>2, <1>4 DEF IsTask, Completes
<1> QED
  BY <1>3, <1>4

\* The tasks of generate_test_vectors and their operations.
LEMMA VectorLen ==
  version \in Versions /\ tool = "vectors" =>
         /\ Len(Tasks(tool)) = 2 + X /\ X \in Nat
         /\ Begun(1) = ClearOps(files)
         /\ \A i \in 1..X : Begun(1 + i) = VectorOps(files, Vectors(version)[i])
         /\ Begun(2 + X) = IndexOps(files, version)
<1> SUFFICES ASSUME version \in Versions, tool = "vectors"
             PROVE  /\ Len(Tasks(tool)) = 2 + X /\ X \in Nat
                    /\ Begun(1) = ClearOps(files)
                    /\ \A i \in 1..X : Begun(1 + i) = VectorOps(files, Vectors(version)[i])
                    /\ Begun(2 + X) = IndexOps(files, version)
  OBVIOUS
<1>1. Tasks(tool) = VectorTasks(version)
  BY DEF Tasks
<1>2. X \in Nat
  BY Tables DEF X
<1>3. /\ Len(Tasks(tool)) = 2 + X
      /\ Tasks(tool)[1] = <<"clear">>
      /\ \A i \in 1..X : Tasks(tool)[1 + i] = <<"vector", Vectors(version)[i]>>
      /\ Tasks(tool)[2 + X] = <<"index">>
  BY <1>1, VectorTasksAre DEF X
<1>4. \A i \in 1..X : Begun(1 + i) = VectorOps(files, Vectors(version)[i])
  BY <1>3, JobOps DEF Begun
<1> QED
  BY <1>2, <1>3, <1>4, JobOps DEF Begun

\* Every task is one of the three kinds.
LEMMA VectorIndex ==
  ASSUME version \in Versions, tool = "vectors", NEW j \in 1..Len(Tasks(tool))
  PROVE  \/ j = 1
         \/ \E i \in 1..X : j = 1 + i
         \/ j = 2 + X
<1>1. Len(Tasks(tool)) = 2 + X /\ X \in Nat
  BY VectorLen
<1>2. CASE j >= 2 /\ j <= 1 + X
  <2>1. j - 1 \in 1..X /\ j = 1 + (j - 1)
    BY <1>1, <1>2
  <2> QED
    BY <2>1
<1> QED
  BY <1>1, <1>2

\* The first task unlinks all vectors, and fails when it cannot build new ones.
LEMMA ClearTask ==
  LET ops == ClearOps(files)
  IN  /\ IsTask(ops) /\ Len(ops) \in {1, 2}
      /\ IsUnlink(ops[1], VectorPaths)
      /\ \A k \in DOMAIN ops : k # 1 => IsFail(ops[k])
      /\ Completes(ops) => Len(ops) = 1 /\ Buildable(files)
<1> DEFINE f == Fail
           a == Unlink(VectorPaths)
           good == Buildable(files)
<1>1. IsFail(f) /\ IsUnlink(a, VectorPaths)
  BY OpKinds
<1>2. ClearOps(files) = IF good THEN <<a>> ELSE <<a, f>>
  BY DEF ClearOps
<1> HIDE DEF f, a, good
<1>3. LET ops == ClearOps(files)
      IN  /\ IsTask(ops) /\ Len(ops) \in {1, 2}
          /\ IsUnlink(ops[1], VectorPaths)
          /\ \A k \in DOMAIN ops : k # 1 => IsFail(ops[k])
          /\ Completes(ops) => Len(ops) = 1 /\ good
  <2>1. CASE good
    BY <1>1, <1>2, <2>1 DEF IsTask, Completes
  <2>2. CASE ~ good
    BY <1>1, <1>2, <2>2 DEF IsTask, Completes
  <2> QED
    BY <2>1, <2>2
<1> QED
  BY <1>3 DEF good

\* A vector is written as a pair, unless its kind is wrong.
LEMMA VectorTask ==
  ASSUME NEW t
  PROVE  LET ops == VectorOps(files, t)
             bytes == VectorBytes(t, RecordsOf(files))
         IN  /\ IsTask(ops)
             /\ \A k \in DOMAIN ops : IsFail(ops[k]) \/ WritesPair(ops[k], k, "vector", t, bytes)
             /\ Completes(ops) => Len(ops) = 2
<1> DEFINE ops == VectorOps(files, t)
           bytes == VectorBytes(t, RecordsOf(files))
           pair == write_pair("vector", t, bytes)
           f == Fail
           more == Append(pair, f)
           wrong == WrongKind(t, bytes)
<1>1. ops = IF wrong THEN more ELSE pair
  BY DEF VectorOps
<1>2. /\ IsTask(pair) /\ Len(pair) = 2
      /\ \A k \in 1..2 : WritesPair(pair[k], k, "vector", t, bytes)
      /\ IsTask(more) /\ Len(more) = 3
      /\ \A k \in 1..2 : more[k] = pair[k]
      /\ more[3] = f
  BY PairIs
<1>3. IsFail(f)
  BY OpKinds
<1> HIDE DEF f, pair, more, bytes, ops, wrong
<1>4. DOMAIN pair = 1..2 /\ DOMAIN more = 1..3
  BY <1>2 DEF IsTask
<1>5. CASE ~ wrong
  <2>1. IsTask(ops) /\ Len(ops) = 2
    BY <1>1, <1>2, <1>5
  <2>2. \A k \in DOMAIN ops : WritesPair(ops[k], k, "vector", t, bytes)
    BY <1>1, <1>2, <1>4, <1>5
  <2> QED
    BY <2>1, <2>2 DEF ops, bytes
<1>6. CASE wrong
  <2>1. IsTask(ops)
    BY <1>1, <1>2, <1>6
  <2>2. ASSUME NEW k \in DOMAIN ops
        PROVE  IsFail(ops[k]) \/ WritesPair(ops[k], k, "vector", t, bytes)
    <3>1. k \in 1..2 \/ k = 3
      BY <1>1, <1>4, <1>6
    <3> QED
      BY <3>1, <1>1, <1>2, <1>3, <1>6
  <2>3. 3 \in DOMAIN ops /\ IsFail(ops[3])
    BY <1>1, <1>2, <1>3, <1>4, <1>6
  <2>4. ~ Completes(ops)
    BY <2>3 DEF Completes
  <2> QED
    BY <2>1, <2>2, <2>4 DEF ops, bytes
<1> QED
  BY <1>5, <1>6

\* The index is a single write.
LEMMA IndexTask ==
  LET ops == IndexOps(files, version)
  IN  /\ IsTask(ops) /\ Len(ops) = 1
      /\ IsWrite(ops[1], IndexPath, Index(Vectors(version), RecordsOf(files)))
<1> DEFINE a == Write(IndexPath, Index(Vectors(version), RecordsOf(files)))
<1>1. IsWrite(a, IndexPath, Index(Vectors(version), RecordsOf(files)))
  BY OpKinds
<1>2. IndexOps(files, version) = <<a>>
  BY DEF IndexOps
<1> HIDE DEF a
<1> QED
  BY <1>1, <1>2 DEF IsTask

\* The sweeps and the builder are a single task.
LEMMA SingleTask ==
  tool \in {"hashes", "audit", "build"} =>
         /\ Len(Tasks(tool)) = 1 /\ \A i \in 1..Len(Tasks(tool)) : i = 1
         /\ tool = "hashes" => Begun(1) = IF HashesPass THEN <<>> ELSE <<Fail>>
         /\ tool = "audit" => Begun(1) = AuditOps
         /\ tool = "build" => Begun(1) = BuildOps
<1> SUFFICES ASSUME tool \in {"hashes", "audit", "build"}
             PROVE  /\ Len(Tasks(tool)) = 1 /\ \A i \in 1..Len(Tasks(tool)) : i = 1
                    /\ tool = "hashes" => Begun(1) = IF HashesPass THEN <<>> ELSE <<Fail>>
                    /\ tool = "audit" => Begun(1) = AuditOps
                    /\ tool = "build" => Begun(1) = BuildOps
  OBVIOUS
<1>1. Tasks(tool) = <<<<tool>>>>
  BY DEF Tasks
<1>2. Len(Tasks(tool)) = 1 /\ Tasks(tool)[1] = <<tool>>
  BY <1>1
<1>3. \A j \in 1..Len(Tasks(tool)) : j = 1
  BY <1>2
<1> QED
  BY <1>2, <1>3, JobOps DEF Begun

\* verify_hashes writes nothing.
LEMMA HashesTask ==
  ASSUME tool = "hashes"
  PROVE  IsTask(Begun(1)) /\ \A k \in DOMAIN Begun(1) : IsFail(Begun(1)[k])
<1> DEFINE f == Fail
           good == HashesPass
<1>1. IsFail(f)
  BY OpKinds
<1>2. Begun(1) = IF good THEN <<>> ELSE <<f>>
  BY SingleTask
<1> HIDE DEF f, good
<1>3. CASE good
  BY <1>1, <1>2, <1>3 DEF IsTask
<1>4. CASE ~ good
  BY <1>1, <1>2, <1>4 DEF IsTask
<1> QED
  BY <1>3, <1>4

BuildTaskBytes == Package({files[l] : l \in Logs}, current = Logs, FixturesDerived)

\* The builder writes the archive.
LEMMA BuildTask ==
  IsTask(BuildOps) /\ Len(BuildOps) = 1 /\ IsWrite(BuildOps[1], PackagePath, BuildTaskBytes)
<1> DEFINE a == Write(PackagePath, BuildTaskBytes)
<1>1. IsWrite(a, PackagePath, BuildTaskBytes)
  BY OpKinds
<1>2. BuildOps = <<a>>
  BY DEF BuildOps, BuildTaskBytes
<1> HIDE DEF a
<1> QED
  BY <1>1, <1>2 DEF IsTask

LogAt(k) == CASE k = 1 -> HashLog [] k = 2 -> ReplayLog [] OTHER -> AuditLog

\* audit.py writes three logs of one result, unless it raises an exception.
LEMMA AuditTask ==
  LET result == IF AuditFails THEN <<"FAIL">> ELSE <<"PASS">>
  IN  /\ IsTask(AuditOps)
      /\ \A k \in DOMAIN AuditOps :
           IsFail(AuditOps[k]) \/ (k \in 1..3 /\ IsWrite(AuditOps[k], LogAt(k), result))
      /\ Completes(AuditOps) => Len(AuditOps) = 3 /\ result = <<"PASS">>
<1> DEFINE f == Fail
           result == IF AuditFails THEN <<"FAIL">> ELSE <<"PASS">>
           a == Write(HashLog, result)
           b == Write(ReplayLog, result)
           c == Write(AuditLog, result)
           raises == AuditRaises
           fails == AuditFails
           all == <<a, b, c>>
           more == Append(all, f)
<1>1. /\ IsFail(f) /\ IsWrite(a, LogAt(1), result) /\ IsWrite(b, LogAt(2), result)
      /\ IsWrite(c, LogAt(3), result)
  BY OpKinds DEF LogAt
<1>2. AuditOps = IF raises THEN <<f>> ELSE IF fails THEN more ELSE all
  BY DEF AuditOps
<1>3. ~ fails => result = <<"PASS">>
  OBVIOUS
<1> HIDE DEF f, a, b, c, raises, fails, result
<1>4. /\ all[1] = a /\ all[2] = b /\ all[3] = c /\ DOMAIN all = 1..3 /\ Len(all) = 3
      /\ more[1] = a /\ more[2] = b /\ more[3] = c /\ more[4] = f
      /\ DOMAIN more = 1..4 /\ Len(more) = 4
  OBVIOUS
<1> HIDE DEF all, more
<1>5. IsTask(all) /\ IsTask(more)
  BY <1>4 DEF IsTask
<1>6. CASE raises
  BY <1>1, <1>2, <1>6 DEF IsTask, Completes, result, fails
<1>7. CASE ~ raises /\ fails
  <2>1. IsTask(AuditOps)
    BY <1>2, <1>5, <1>7
  <2>2. ASSUME NEW k \in DOMAIN AuditOps
        PROVE  IsFail(AuditOps[k]) \/ (k \in 1..3 /\ IsWrite(AuditOps[k], LogAt(k), result))
    <3>1. k = 1 \/ k = 2 \/ k = 3 \/ k = 4
      BY <1>2, <1>4, <1>7
    <3> QED
      BY <3>1, <1>1, <1>2, <1>4, <1>7
  <2>3. 4 \in DOMAIN AuditOps /\ IsFail(AuditOps[4])
    BY <1>1, <1>2, <1>4, <1>7
  <2>4. ~ Completes(AuditOps)
    BY <2>3 DEF Completes
  <2> QED
    BY <2>1, <2>2, <2>4 DEF result, fails
<1>8. CASE ~ raises /\ ~ fails
  <2>1. IsTask(AuditOps) /\ Len(AuditOps) = 3
    BY <1>2, <1>4, <1>8, <1>5
  <2>2. ASSUME NEW k \in DOMAIN AuditOps
        PROVE  k \in 1..3 /\ IsWrite(AuditOps[k], LogAt(k), result)
    <3>1. k = 1 \/ k = 2 \/ k = 3
      BY <1>2, <1>4, <1>8
    <3> QED
      BY <3>1, <1>1, <1>2, <1>4, <1>8
  <2> QED
    BY <2>1, <2>2, <1>3, <1>8 DEF result, fails
<1> QED
  BY <1>6, <1>7, <1>8

(***************************************************************************)
(* What the operations of the running tool can be.                         *)
(***************************************************************************)

PositiveWrite(j, k, o) ==
  /\ tool = "success" /\ j \in 1..Len(Positives)
  /\ WritesPair(o, k, "positive", Positives[j], Example(Positives[j], version))

CaseWrite(j, k, o) ==
  /\ tool = "negative"
  /\ \E i \in 1..W : LET n == Cases(version)[i]
                     IN  /\ j = 1 + R + i /\ k \in 1..Len(CaseParts(n))
                         /\ WritesPart(o, n, CaseParts(n)[k])

VectorWrite(j, k, o) ==
  /\ tool = "vectors"
  /\ \E i \in 1..X : LET t == Vectors(version)[i]
                     IN  j = 1 + i /\ WritesPair(o, k, "vector", t, VectorBytes(t, RecordsOf(files)))

IndexWrite(j, k, o) ==
  /\ tool = "vectors" /\ j = 2 + X /\ k = 1
  /\ IsWrite(o, IndexPath, Index(Vectors(version), RecordsOf(files)))

LogWrite(j, k, o) ==
  /\ tool = "audit" /\ j = 1 /\ k \in 1..3
  /\ IsWrite(o, LogAt(k), IF AuditFails THEN <<"FAIL">> ELSE <<"PASS">>)

PackageWrite(j, k, o) ==
  tool = "build" /\ j = 1 /\ k = 1 /\ IsWrite(o, PackagePath, BuildTaskBytes)

CaseRemoval(j, k, o) ==
  /\ tool = "negative"
  /\ \E i \in 1..R : LET n == CaseNames[i]
                     IN  /\ j = 1 + i
                         /\ \/ k = 1 /\ IsUnlink(o, {"case"} \X {n} \X CaseFiles)
                            \/ k = 2 /\ IsUnlink(o, {<<"case", n, "dir">>})

VectorRemoval(j, k, o) ==
  tool = "vectors" /\ j = 1 /\ k = 1 /\ IsUnlink(o, VectorPaths)

\* Every operation of a tool is one of these, or ends it.
Known(j, k, o) ==
  \/ IsFail(o)
  \/ PositiveWrite(j, k, o) \/ CaseWrite(j, k, o) \/ VectorWrite(j, k, o)
  \/ IndexWrite(j, k, o) \/ LogWrite(j, k, o) \/ PackageWrite(j, k, o)
  \/ CaseRemoval(j, k, o) \/ VectorRemoval(j, k, o)

\* The operations of every task of every tool are known.
LEMMA OperationsAreKnown ==
  ASSUME version \in Versions, tool \in Tools, NEW j \in 1..Len(Tasks(tool))
  PROVE  IsTask(Begun(j)) /\ \A k \in DOMAIN Begun(j) : Known(j, k, Begun(j)[k])
<1>1. CASE tool = "success"
  BY <1>1, SuccessTask DEF Known, PositiveWrite
<1>2. CASE tool = "negative"
  <2>1. CASE j = 1
    BY <1>2, <2>1, NegativeLen, BaselineTask DEF Known
  <2>2. ASSUME NEW i \in 1..R, j = 1 + i
        PROVE  IsTask(Begun(j)) /\ \A k \in DOMAIN Begun(j) : Known(j, k, Begun(j)[k])
    <3> DEFINE ops == RemoveOps(CaseNames[i])
    <3>1. Begun(j) = ops
      BY <1>2, <2>2, NegativeLen
    <3>2. /\ IsTask(ops) /\ Len(ops) = 2
          /\ IsUnlink(ops[1], {"case"} \X {CaseNames[i]} \X CaseFiles)
          /\ IsUnlink(ops[2], {<<"case", CaseNames[i], "dir">>})
      BY RemoveTask
    <3> HIDE DEF ops
    <3>3. \A k \in DOMAIN ops : k = 1 \/ k = 2
      BY <3>2 DEF IsTask
    <3>4. \A k \in DOMAIN ops : CaseRemoval(j, k, ops[k])
      BY <1>2, <2>2, <3>2, <3>3 DEF CaseRemoval
    <3> QED
      BY <3>1, <3>2, <3>4 DEF Known
  <2>3. ASSUME NEW i \in 1..W, j = 1 + R + i
        PROVE  IsTask(Begun(j)) /\ \A k \in DOMAIN Begun(j) : Known(j, k, Begun(j)[k])
    <3> DEFINE n == Cases(version)[i]
               ops == CaseOps(files, n)
    <3>1. Begun(j) = ops
      BY <1>2, <2>3, NegativeLen
    <3>2. /\ IsTask(ops)
          /\ \A k \in DOMAIN ops : \/ IsFail(ops[k])
                                   \/ /\ k \in 1..Len(CaseParts(n))
                                      /\ WritesPart(ops[k], n, CaseParts(n)[k])
      BY CaseOpsAre
    <3> HIDE DEF ops
    <3>3. \A k \in DOMAIN ops : IsFail(ops[k]) \/ CaseWrite(j, k, ops[k])
      BY <1>2, <2>3, <3>2 DEF CaseWrite
    <3> QED
      BY <3>1, <3>2, <3>3 DEF Known
  <2>4. CASE j = 2 + R + W
    BY <1>2, <2>4, NegativeLen, VerdictTask DEF Known
  <2> QED
    BY <1>2, <2>1, <2>2, <2>3, <2>4, NegativeIndex
<1>3. CASE tool = "vectors"
  <2>1. CASE j = 1
    <3>1. Begun(j) = ClearOps(files)
      BY <1>3, <2>1, VectorLen
    <3>2. \A k \in DOMAIN ClearOps(files) :
            IsFail(ClearOps(files)[k]) \/ VectorRemoval(j, k, ClearOps(files)[k])
      BY <1>3, <2>1, ClearTask DEF VectorRemoval
    <3> QED
      BY <3>1, <3>2, ClearTask DEF Known
  <2>2. ASSUME NEW i \in 1..X, j = 1 + i
        PROVE  IsTask(Begun(j)) /\ \A k \in DOMAIN Begun(j) : Known(j, k, Begun(j)[k])
    <3> DEFINE t == Vectors(version)[i]
               ops == VectorOps(files, t)
    <3>1. Begun(j) = ops
      BY <1>3, <2>2, VectorLen
    <3>2. /\ IsTask(ops)
          /\ \A k \in DOMAIN ops : \/ IsFail(ops[k])
                                   \/ WritesPair(ops[k], k, "vector", t, VectorBytes(t, RecordsOf(files)))
      BY VectorTask
    <3> HIDE DEF ops
    <3>3. \A k \in DOMAIN ops : IsFail(ops[k]) \/ VectorWrite(j, k, ops[k])
      BY <1>3, <2>2, <3>2 DEF VectorWrite
    <3> QED
      BY <3>1, <3>2, <3>3 DEF Known
  <2>3. CASE j = 2 + X
    <3> DEFINE ops == IndexOps(files, version)
    <3>1. Begun(j) = ops
      BY <1>3, <2>3, VectorLen
    <3>2. /\ IsTask(ops) /\ Len(ops) = 1
          /\ IsWrite(ops[1], IndexPath, Index(Vectors(version), RecordsOf(files)))
      BY IndexTask
    <3> HIDE DEF ops
    <3>3. \A k \in DOMAIN ops : k = 1
      BY <3>2 DEF IsTask
    <3>4. \A k \in DOMAIN ops : IndexWrite(j, k, ops[k])
      BY <1>3, <2>3, <3>2, <3>3 DEF IndexWrite
    <3> QED
      BY <3>1, <3>2, <3>4 DEF Known
  <2> QED
    BY <1>3, <2>1, <2>2, <2>3, VectorIndex
<1>4. CASE tool = "hashes"
  <2>1. j = 1
    BY <1>4, SingleTask
  <2> QED
    BY <1>4, <2>1, HashesTask DEF Known
<1>5. CASE tool = "audit"
  <2>1. j = 1 /\ Begun(j) = AuditOps
    BY <1>5, SingleTask
  <2>2. \A k \in DOMAIN AuditOps : IsFail(AuditOps[k]) \/ LogWrite(j, k, AuditOps[k])
    BY <1>5, <2>1, AuditTask DEF LogWrite
  <2> QED
    BY <2>1, <2>2, AuditTask DEF Known
<1>6. CASE tool = "build"
  <2>1. j = 1 /\ Begun(j) = BuildOps
    BY <1>6, SingleTask
  <2>2. \A k \in DOMAIN BuildOps : k = 1
    BY BuildTask DEF IsTask
  <2>3. \A k \in DOMAIN BuildOps : PackageWrite(j, k, BuildOps[k])
    BY <1>6, <2>1, <2>2, BuildTask DEF PackageWrite
  <2> QED
    BY <2>1, <2>3, BuildTask DEF Known
<1> QED
  BY <1>1, <1>2, <1>3, <1>4, <1>5, <1>6 DEF Tools

(***************************************************************************)
(* No tool writes a file twice, and what it removes it has not yet written. *)
(***************************************************************************)

\* No part of a case is written twice.
LEMMA PartsDiffer ==
  ASSUME NEW n, NEW k \in 1..Len(CaseParts(n)), NEW m \in 1..Len(CaseParts(n)),
         CaseParts(n)[k] = CaseParts(n)[m]
  PROVE  k = m
<1>1. CASE n \in Bare
  <2>1. CaseParts(n) = <<"dir", "record", "meta">>
    BY <1>1 DEF CaseParts
  <2> QED
    BY <2>1
<1>2. CASE n \notin Bare
  <2>1. CaseParts(n) = <<"dir", "record", "sidecar", "meta">>
    BY <1>2 DEF CaseParts
  <2> QED
    BY <2>1
<1> QED
  BY <1>1, <1>2

\* Two writes of a tool to the same path are one operation.
LEMMA WrittenOnce ==
  ASSUME version \in Versions, NEW j \in Nat, NEW i \in Nat, NEW k, NEW m, NEW o, NEW w,
         Known(j, k, o), Known(i, m, w), o.op = "write", w.op = "write", o.path = w.path
  PROVE  j = i /\ k = m
<1>1. CASE PositiveWrite(j, k, o)
  <2>1. PositiveWrite(i, m, w)
    BY <1>1 DEF Known, PositiveWrite, CaseWrite, VectorWrite, IndexWrite, LogWrite,
                PackageWrite, CaseRemoval, VectorRemoval, IsFail
  <2>2. \/ k = 1 /\ o.path = <<"positive", Positives[j], "record">>
        \/ k = 2 /\ o.path = <<"positive", Positives[j], "sidecar">>
    BY <1>1 DEF PositiveWrite, WritesPair, IsWrite
  <2>3. \/ m = 1 /\ w.path = <<"positive", Positives[i], "record">>
        \/ m = 2 /\ w.path = <<"positive", Positives[i], "sidecar">>
    BY <2>1 DEF PositiveWrite, WritesPair, IsWrite
  <2>4. Positives[j] = Positives[i] /\ k = m
    BY <2>2, <2>3
  <2> QED
    BY <1>1, <2>1, <2>4, NoRepetition DEF PositiveWrite
<1>2. CASE CaseWrite(j, k, o)
  <2>1. CaseWrite(i, m, w)
    BY <1>2 DEF Known, PositiveWrite, CaseWrite, VectorWrite, IndexWrite, LogWrite,
                PackageWrite, CaseRemoval, VectorRemoval, IsFail, IsUnlink
  <2>2. PICK a \in 1..W : /\ j = 1 + R + a /\ k \in 1..Len(CaseParts(Cases(version)[a]))
                          /\ WritesPart(o, Cases(version)[a], CaseParts(Cases(version)[a])[k])
    BY <1>2 DEF CaseWrite
  <2>3. PICK b \in 1..W : /\ i = 1 + R + b /\ m \in 1..Len(CaseParts(Cases(version)[b]))
                          /\ WritesPart(w, Cases(version)[b], CaseParts(Cases(version)[b])[m])
    BY <2>1 DEF CaseWrite
  <2>4. o.path = <<"case", Cases(version)[a], CaseParts(Cases(version)[a])[k]>>
    BY <2>2 DEF WritesPart, IsWrite
  <2>5. w.path = <<"case", Cases(version)[b], CaseParts(Cases(version)[b])[m]>>
    BY <2>3 DEF WritesPart, IsWrite
  <2>6. /\ Cases(version)[a] = Cases(version)[b]
        /\ CaseParts(Cases(version)[a])[k] = CaseParts(Cases(version)[b])[m]
    <3> DEFINE n == Cases(version)[a]
               u == Cases(version)[b]
               p == CaseParts(n)[k]
               q == CaseParts(u)[m]
    <3>1. <<"case", n, p>> = <<"case", u, q>>
      BY <2>4, <2>5
    <3> HIDE DEF n, u, p, q
    <3>2. n = u /\ p = q
      BY <3>1
    <3> QED
      BY <3>2 DEF n, u, p, q
  <2>7. a = b
    BY <2>6, NoRepetition DEF W
  <2>8. k = m
    BY <2>2, <2>3, <2>6, <2>7, PartsDiffer
  <2> QED
    BY <2>2, <2>3, <2>7, <2>8
<1>3. CASE VectorWrite(j, k, o) \/ IndexWrite(j, k, o)
  <2>1. VectorWrite(i, m, w) \/ IndexWrite(i, m, w)
    BY <1>3 DEF Known, PositiveWrite, CaseWrite, VectorWrite, IndexWrite, LogWrite,
                PackageWrite, CaseRemoval, VectorRemoval, IsFail, IsUnlink
  <2>2. ASSUME IndexWrite(j, k, o)
        PROVE  o.path = IndexPath /\ j = 2 + X /\ k = 1
    BY <2>2 DEF IndexWrite, IsWrite
  <2>3. ASSUME IndexWrite(i, m, w)
        PROVE  w.path = IndexPath /\ i = 2 + X /\ m = 1
    BY <2>3 DEF IndexWrite, IsWrite
  <2>4. ASSUME VectorWrite(j, k, o)
        PROVE  \E a \in 1..X : /\ j = 1 + a
                               /\ \/ k = 1 /\ o.path = <<"vector", Vectors(version)[a], "record">>
                                  \/ k = 2 /\ o.path = <<"vector", Vectors(version)[a], "sidecar">>
    BY <2>4 DEF VectorWrite, WritesPair, IsWrite
  <2>5. ASSUME VectorWrite(i, m, w)
        PROVE  \E a \in 1..X : /\ i = 1 + a
                               /\ \/ m = 1 /\ w.path = <<"vector", Vectors(version)[a], "record">>
                                  \/ m = 2 /\ w.path = <<"vector", Vectors(version)[a], "sidecar">>
    BY <2>5 DEF VectorWrite, WritesPair, IsWrite
  <2>6. CASE IndexWrite(j, k, o) /\ IndexWrite(i, m, w)
    BY <2>2, <2>3, <2>6
  <2>7. CASE IndexWrite(j, k, o) /\ VectorWrite(i, m, w)
    BY <2>2, <2>5, <2>7 DEF IndexPath
  <2>8. CASE VectorWrite(j, k, o) /\ IndexWrite(i, m, w)
    BY <2>3, <2>4, <2>8 DEF IndexPath
  <2>9. CASE VectorWrite(j, k, o) /\ VectorWrite(i, m, w)
    <3>1. PICK a \in 1..X : /\ j = 1 + a
                            /\ \/ k = 1 /\ o.path = <<"vector", Vectors(version)[a], "record">>
                               \/ k = 2 /\ o.path = <<"vector", Vectors(version)[a], "sidecar">>
      BY <2>4, <2>9
    <3>2. PICK b \in 1..X : /\ i = 1 + b
                            /\ \/ m = 1 /\ w.path = <<"vector", Vectors(version)[b], "record">>
                               \/ m = 2 /\ w.path = <<"vector", Vectors(version)[b], "sidecar">>
      BY <2>5, <2>9
    <3>3. Vectors(version)[a] = Vectors(version)[b] /\ k = m
      BY <3>1, <3>2
    <3>4. a = b
      BY <3>3, NoRepetition DEF X
    <3> QED
      BY <3>1, <3>2, <3>3, <3>4
  <2> QED
    BY <1>3, <2>1, <2>6, <2>7, <2>8, <2>9
<1>4. CASE LogWrite(j, k, o)
  <2>1. LogWrite(i, m, w)
    BY <1>4 DEF Known, PositiveWrite, CaseWrite, VectorWrite, IndexWrite, LogWrite,
                PackageWrite, CaseRemoval, VectorRemoval, IsFail, IsUnlink
  <2>2. /\ j = 1 /\ i = 1 /\ k \in 1..3 /\ m \in 1..3
        /\ o.path = LogAt(k) /\ w.path = LogAt(m)
    BY <1>4, <2>1 DEF LogWrite, IsWrite
  <2>3. LogAt(1) # LogAt(2) /\ LogAt(1) # LogAt(3) /\ LogAt(2) # LogAt(3)
    <3>1. LogAt(1) = HashLog /\ LogAt(2) = ReplayLog /\ LogAt(3) = AuditLog
      BY DEF LogAt
    <3>2. HashLog # ReplayLog /\ HashLog # AuditLog /\ ReplayLog # AuditLog
      BY DEF HashLog, ReplayLog, AuditLog
    <3> QED
      BY <3>1, <3>2
  <2>4. (k = 1 \/ k = 2 \/ k = 3) /\ (m = 1 \/ m = 2 \/ m = 3)
    BY <2>2
  <2> QED
    BY <2>2, <2>3, <2>4
<1>5. CASE PackageWrite(j, k, o)
  <2>1. PackageWrite(i, m, w)
    BY <1>5 DEF Known, PositiveWrite, CaseWrite, VectorWrite, IndexWrite, LogWrite,
                PackageWrite, CaseRemoval, VectorRemoval, IsFail, IsUnlink
  <2> QED
    BY <1>5, <2>1 DEF PackageWrite
<1>6. ~ IsFail(o) /\ ~ CaseRemoval(j, k, o) /\ ~ VectorRemoval(j, k, o)
  BY DEF IsFail, CaseRemoval, VectorRemoval, IsUnlink
<1> QED
  BY <1>1, <1>2, <1>3, <1>4, <1>5, <1>6 DEF Known

\* A file is written in a later task than the one that removes it.
LEMMA RemovedBefore ==
  ASSUME version \in Versions, NEW j \in Nat, NEW i \in Nat, NEW k, NEW m, NEW o, NEW w,
         Known(j, k, o), Known(i, m, w), o.op = "remove", w.op = "write", w.path \in o.paths
  PROVE  j < i
<1>1. R \in Nat /\ W \in Nat /\ X \in Nat
  BY Tables DEF R, W, X
<1>2. CASE CaseRemoval(j, k, o)
  <2>1. CaseWrite(i, m, w)
    BY <1>2 DEF Known, PositiveWrite, CaseWrite, VectorWrite, IndexWrite, LogWrite,
                PackageWrite, CaseRemoval, VectorRemoval, IsFail, IsUnlink
  <2>2. \E a \in 1..R : j = 1 + a
    BY <1>2 DEF CaseRemoval
  <2>3. \E b \in 1..W : i = 1 + R + b
    BY <2>1 DEF CaseWrite
  <2> QED
    BY <1>1, <2>2, <2>3
<1>3. CASE VectorRemoval(j, k, o)
  <2>1. VectorWrite(i, m, w) \/ IndexWrite(i, m, w)
    BY <1>3 DEF Known, PositiveWrite, CaseWrite, VectorWrite, IndexWrite, LogWrite,
                PackageWrite, CaseRemoval, VectorRemoval, IsFail, IsUnlink
  <2>2. j = 1
    BY <1>3 DEF VectorRemoval
  <2>3. i > 1
    BY <1>1, <2>1 DEF VectorWrite, IndexWrite
  <2> QED
    BY <2>2, <2>3
<1>4. CaseRemoval(j, k, o) \/ VectorRemoval(j, k, o)
  BY DEF Known, PositiveWrite, CaseWrite, VectorWrite, IndexWrite, LogWrite,
         PackageWrite, IsFail, IsWrite, WritesPair, WritesPart
<1> QED
  BY <1>2, <1>3, <1>4

(***************************************************************************)
(* Where the tools write.                                                  *)
(***************************************************************************)

Areas(t) ==
  CASE t = "success"  -> {"positive"}
    [] t = "negative" -> {"case"}
    [] t = "vectors"  -> {"vector", "index"}
    [] t = "audit"    -> {"report"}
    [] t = "build"    -> {"package"}
    [] OTHER          -> {}

\* The files of the tables are paths of the tree.
LEMMA PathsAre ==
  /\ \A p \in ToSet(Positives), part \in {"record", "sidecar"} : <<"positive", p, part>> \in Paths
  /\ \A n \in ToSet(CaseNames), part \in CaseFiles \cup {"dir"} : <<"case", n, part>> \in Paths
  /\ \A t \in ToSet(VectorNames), part \in {"record", "sidecar"} : <<"vector", t, part>> \in Paths
  /\ IndexPath \in Paths /\ PackagePath \in Paths /\ Logs \subseteq Paths
BY DEF Paths, FixturePaths, PositivePaths, CasePaths, VectorPaths

\* The first component of a path is its area.
LEMMA PathAreas ==
  /\ \A path \in PositivePaths : path[1] = "positive"
  /\ \A path \in CasePaths : path[1] = "case"
  /\ \A path \in VectorPaths : path[1] = "vector"
  /\ IndexPath[1] = "index" /\ PackagePath[1] = "package"
  /\ \A path \in Logs : path[1] = "report"
BY DEF PositivePaths, CasePaths, VectorPaths, IndexPath, PackagePath, Logs, HashLog, ReplayLog,
       AuditLog

\* The parts of a case are its files.
LEMMA PartsAreFiles ==
  ASSUME NEW n, NEW k \in 1..Len(CaseParts(n))
  PROVE  CaseParts(n)[k] \in CaseFiles \cup {"dir"}
<1>1. CASE n \in Bare
  <2>1. CaseParts(n) = <<"dir", "record", "meta">>
    BY <1>1 DEF CaseParts
  <2> QED
    BY <2>1 DEF CaseFiles
<1>2. CASE n \notin Bare
  <2>1. CaseParts(n) = <<"dir", "record", "sidecar", "meta">>
    BY <1>2 DEF CaseParts
  <2> QED
    BY <2>1 DEF CaseFiles
<1> QED
  BY <1>1, <1>2

Reaches(path) == path \in Paths /\ path[1] \in Areas(tool)

\* The operations of a tool stay within its areas.
LEMMA OperationPaths ==
  ASSUME version \in Versions, NEW j, NEW k, NEW o, Known(j, k, o)
  PROVE  /\ o.op = "write" => Reaches(o.path)
         /\ o.op = "remove" => \A path \in o.paths : Reaches(path)
<1>1. CASE PositiveWrite(j, k, o)
  <2> DEFINE p == Positives[j]
  <2>1. p \in ToSet(Positives) /\ tool = "success"
    BY <1>1, Members DEF PositiveWrite
  <2>2. PICK part \in {"record", "sidecar"} : o.op = "write" /\ o.path = <<"positive", p, part>>
    BY <1>1 DEF PositiveWrite, WritesPair, IsWrite
  <2> HIDE DEF p
  <2>3. <<"positive", p, part>> \in Paths
    BY <2>1, PathsAre
  <2>4. "positive" \in Areas(tool)
    BY <2>1 DEF Areas
  <2> QED
    BY <2>2, <2>3, <2>4 DEF Reaches
<1>2. CASE CaseWrite(j, k, o)
  <2>1. PICK i \in 1..W : /\ k \in 1..Len(CaseParts(Cases(version)[i]))
                          /\ WritesPart(o, Cases(version)[i], CaseParts(Cases(version)[i])[k])
    BY <1>2 DEF CaseWrite
  <2> DEFINE n == Cases(version)[i]
             part == CaseParts(n)[k]
  <2>2. n \in ToSet(CaseNames) /\ part \in CaseFiles \cup {"dir"}
    BY <2>1, Members, PartsAreFiles DEF W
  <2>3. o.op = "write" /\ o.path = <<"case", n, part>>
    BY <2>1 DEF WritesPart, IsWrite
  <2>4. tool = "negative"
    BY <1>2 DEF CaseWrite
  <2> HIDE DEF n, part
  <2> QED
    BY <2>2, <2>3, <2>4, PathsAre DEF Areas, Reaches
<1>3. CASE VectorWrite(j, k, o)
  <2>1. PICK i \in 1..X : WritesPair(o, k, "vector", Vectors(version)[i],
                                      VectorBytes(Vectors(version)[i], RecordsOf(files)))
    BY <1>3 DEF VectorWrite
  <2> DEFINE t == Vectors(version)[i]
  <2>2. t \in ToSet(VectorNames) /\ tool = "vectors"
    BY <1>3, <2>1, Members DEF VectorWrite, X
  <2>3. PICK part \in {"record", "sidecar"} : o.op = "write" /\ o.path = <<"vector", t, part>>
    BY <2>1 DEF WritesPair, IsWrite
  <2> HIDE DEF t
  <2>4. <<"vector", t, part>> \in Paths
    BY <2>2, PathsAre
  <2>5. "vector" \in Areas(tool)
    BY <2>2 DEF Areas
  <2> QED
    BY <2>3, <2>4, <2>5 DEF Reaches
<1>4. CASE IndexWrite(j, k, o)
  BY <1>4, PathsAre, PathAreas DEF IndexWrite, IsWrite, Areas, Reaches
<1>5. CASE LogWrite(j, k, o)
  <2>1. o.op = "write" /\ o.path \in Logs /\ tool = "audit"
    BY <1>5 DEF LogWrite, IsWrite, LogAt, Logs
  <2> QED
    BY <2>1, PathsAre, PathAreas DEF Areas, Reaches
<1>6. CASE PackageWrite(j, k, o)
  BY <1>6, PathsAre, PathAreas DEF PackageWrite, IsWrite, Areas, Reaches
<1>7. CASE CaseRemoval(j, k, o)
  <2>1. PICK i \in 1..R : \/ IsUnlink(o, {"case"} \X {CaseNames[i]} \X CaseFiles)
                          \/ IsUnlink(o, {<<"case", CaseNames[i], "dir">>})
    BY <1>7 DEF CaseRemoval
  <2>2. CaseNames[i] \in ToSet(CaseNames) /\ tool = "negative"
    BY <1>7, <2>1, Members DEF R, CaseRemoval
  <2>3. \A path \in {"case"} \X {CaseNames[i]} \X CaseFiles : Reaches(path)
    BY <2>2 DEF Areas, Reaches, Paths, FixturePaths, CasePaths
  <2>4. Reaches(<<"case", CaseNames[i], "dir">>)
    BY <2>2, PathsAre DEF Areas, Reaches
  <2> QED
    BY <2>1, <2>3, <2>4 DEF IsUnlink
<1>8. CASE VectorRemoval(j, k, o)
  <2>1. \A path \in VectorPaths : Reaches(path)
    BY <1>8, PathAreas DEF VectorRemoval, Areas, Reaches, Paths, FixturePaths
  <2> QED
    BY <1>8, <2>1 DEF VectorRemoval, IsUnlink
<1>9. CASE IsFail(o)
  BY <1>9 DEF IsFail
<1> QED
  BY <1>1, <1>2, <1>3, <1>4, <1>5, <1>6, <1>7, <1>8, <1>9 DEF Known

(***************************************************************************)
(* No tool reads what it writes: its tasks stay as they are.               *)
(***************************************************************************)

\* The generators of cases and vectors read nothing but positives.
LEMMA ReadsPositives ==
  ASSUME NEW f, NEW g,
         \A p \in ToSet(Positives), part \in {"record", "sidecar"} :
           f[<<"positive", p, part>>] = g[<<"positive", p, part>>]
  PROVE  /\ BaselineOps(f) = BaselineOps(g)
         /\ \A n : CaseOps(f, n) = CaseOps(g, n)
         /\ \A v : VerdictOps(f, v) = VerdictOps(g, v)
         /\ ClearOps(f) = ClearOps(g)
         /\ \A t : VectorOps(f, t) = VectorOps(g, t)
         /\ \A v : IndexOps(f, v) = IndexOps(g, v)
<1>1. Baseline \in ToSet(Positives)
  <2>1. Len(Positives) \in DOMAIN Positives
    BY NamesAssumption DEF NamesAssumption
  <2> QED
    BY <2>1 DEF Baseline, Last, ToSet
<1>2. /\ BaselineRecord(f) = BaselineRecord(g)
      /\ ValidPair(f, "positive", Baseline) = ValidPair(g, "positive", Baseline)
  BY <1>1 DEF BaselineRecord, ValidPair
<1>3. RecordsOf(f) = RecordsOf(g)
  BY DEF RecordsOf
<1>4. Buildable(f) = Buildable(g)
  BY <1>2 DEF Buildable
<1>5. \A n, b : BaselineRaises(f, n, b) = BaselineRaises(g, n, b)
  BY <1>2 DEF BaselineRaises
<1> HIDE DEF BaselineRecord, RecordsOf, Buildable, BaselineRaises
<1>6. \A n : CaseOps(f, n) = CaseOps(g, n)
  BY <1>2, <1>5 DEF CaseOps
<1> QED
  BY <1>2, <1>3, <1>4, <1>6 DEF BaselineOps, VerdictOps, ClearOps, VectorOps, IndexOps

\* The step changes no file outside these areas.
Keeps(areas) == \A path \in Paths : path[1] \notin areas => files'[path] = files[path]

\* The fixtures stay as they are.
KeepsFixtures == \A path \in FixturePaths : files'[path] = files[path]

\* A step that reaches no area of the fixtures keeps them.
LEMMA FixturesAreKept ==
  ASSUME NEW A, A \cap {"positive", "case", "vector", "index"} = {}, Keeps(A)
  PROVE  KeepsFixtures
BY PathAreas DEF Keeps, KeepsFixtures, Paths, FixturePaths

\* The audit depends on nothing but the fixtures: its own logs do not change it.
LEMMA AuditStays ==
  ASSUME KeepsFixtures, IndexReadable => DOMAIN Indexed \subseteq ToSet(VectorNames)
  PROVE  AuditOps' = AuditOps
<1>1. /\ \A p \in ToSet(Positives), part \in {"record", "sidecar"} :
           files'[<<"positive", p, part>>] = files[<<"positive", p, part>>]
      /\ \A n \in ToSet(CaseNames), part \in CaseFiles \cup {"dir"} :
           files'[<<"case", n, part>>] = files[<<"case", n, part>>]
      /\ \A t \in ToSet(VectorNames) :
           files'[<<"vector", t, "record">>] = files[<<"vector", t, "record">>]
      /\ files'[IndexPath] = files[IndexPath]
  BY DEF KeepsFixtures, FixturePaths, PositivePaths, CasePaths, VectorPaths
<1>2. Baseline \in ToSet(Positives)
  <2>1. Len(Positives) \in DOMAIN Positives
    BY NamesAssumption DEF NamesAssumption
  <2> QED
    BY <2>1 DEF Baseline, Last, ToSet
<1>3. \A p \in ToSet(Positives) :
        /\ ValidPositive(p)' <=> ValidPositive(p)
        /\ IsFile(<<"positive", p, "record">>)' <=> IsFile(<<"positive", p, "record">>)
  BY <1>1 DEF ValidPositive, ValidPair, IsFile
<1>4. \A n \in ToSet(CaseNames) :
        /\ CaseReadable(n)' <=> CaseReadable(n)
        /\ IsFile(<<"case", n, "dir">>)' <=> IsFile(<<"case", n, "dir">>)
  BY <1>1 DEF CaseReadable, IsFile, CaseFiles
<1>5. SweptCases' = SweptCases
  BY <1>4 DEF SweptCases
<1>6. (IndexReadable' <=> IndexReadable) /\ Indexed' = Indexed
  BY <1>1 DEF IndexReadable, Indexed
<1>7. IndexReadable => \A t \in DOMAIN Indexed :
        files'[<<"vector", t, "record">>] = files[<<"vector", t, "record">>]
  BY <1>1
<1>8. AuditRaises' <=> AuditRaises
  <2>1. \A n \in SweptCases :
          /\ n \in ToSet(CaseNames)
          /\ files'[<<"case", n, "record">>] = files[<<"case", n, "record">>]
    BY <1>1 DEF SweptCases, CaseFiles
  <2>2. (\E n \in SweptCases :
           \/ ~ CaseReadable(n)
           \/ Canonical(files[<<"case", n, "record">>]) /\ ~ ValidPositive(Baseline))'
        <=> (\E n \in SweptCases :
               \/ ~ CaseReadable(n)
               \/ Canonical(files[<<"case", n, "record">>]) /\ ~ ValidPositive(Baseline))
    BY <2>1, <1>2, <1>3, <1>4, <1>5
  <2>3. IndexReadable =>
          ((\E t \in DOMAIN Indexed : ~ IsFile(<<"vector", t, "record">>))'
             <=> \E t \in DOMAIN Indexed : ~ IsFile(<<"vector", t, "record">>))
    BY <1>6, <1>7 DEF IsFile
  <2>4. /\ IsFile(<<"positive", Baseline, "record">>)' <=> IsFile(<<"positive", Baseline, "record">>)
        /\ ValidPositive(Baseline)' <=> ValidPositive(Baseline)
        /\ files'[<<"positive", Baseline, "record">>] = files[<<"positive", Baseline, "record">>]
    BY <1>1, <1>2, <1>3
  <2> DEFINE record  == IsFile(<<"positive", Baseline, "record">>)
             compare == Canonical(files[<<"positive", Baseline, "record">>]) /\ ~ ValidPositive(Baseline)
             cases   == \E n \in SweptCases :
                          \/ ~ CaseReadable(n)
                          \/ Canonical(files[<<"case", n, "record">>]) /\ ~ ValidPositive(Baseline)
             vectors == \E t \in DOMAIN Indexed : ~ IsFile(<<"vector", t, "record">>)
  <2>5. /\ AuditRaises <=> ~ record \/ compare \/ cases \/ ~ IndexReadable \/ vectors
        /\ (AuditRaises <=> ~ record \/ compare \/ cases \/ ~ IndexReadable \/ vectors)'
    BY DEF AuditRaises
  <2>6. (record' <=> record) /\ (compare' <=> compare)
    BY <2>4
  <2>7. cases' <=> cases
    BY <2>2
  <2>8. IndexReadable => (vectors' <=> vectors)
    BY <2>3
  <2> HIDE DEF record, compare, cases, vectors
  <2> QED
    BY <2>5, <2>6, <2>7, <2>8, <1>6
<1>9. IndexReadable => (AuditFails' <=> AuditFails)
  <2>1. \A n \in SweptCases :
          /\ files'[<<"case", n, "record">>] = files[<<"case", n, "record">>]
          /\ files'[<<"case", n, "sidecar">>] = files[<<"case", n, "sidecar">>]
    BY <1>1 DEF SweptCases, CaseFiles
  <2>2. (\E n \in SweptCases :
           ~ AsExpected(n, files[<<"case", n, "record">>], files[<<"case", n, "sidecar">>],
                        files[<<"positive", Baseline, "record">>]))'
        <=> (\E n \in SweptCases :
           ~ AsExpected(n, files[<<"case", n, "record">>], files[<<"case", n, "sidecar">>],
                        files[<<"positive", Baseline, "record">>]))
    BY <2>1, <1>1, <1>2, <1>5
  <2>3. IndexReadable =>
          ((\E t \in DOMAIN Indexed : Sha256(files[<<"vector", t, "record">>]) # Indexed[t])'
             <=> \E t \in DOMAIN Indexed : Sha256(files[<<"vector", t, "record">>]) # Indexed[t])
    BY <1>6, <1>7
  <2>4. (\E p \in ToSet(Positives) : IsFile(<<"positive", p, "record">>) /\ ~ ValidPositive(p))'
        <=> \E p \in ToSet(Positives) : IsFile(<<"positive", p, "record">>) /\ ~ ValidPositive(p)
    BY <1>3
  <2> QED
    BY <2>2, <2>3, <2>4 DEF AuditFails
<1>10. ~ AuditRaises => IndexReadable
  BY DEF AuditRaises
<1> QED
  BY <1>8, <1>9, <1>10 DEF AuditOps

\* The archive does not depend on itself.
LEMMA BuildStays ==
  ASSUME version' = version, current' = current, Keeps({"package"})
  PROVE  BuildOps' = BuildOps
<1>1. \A l \in Logs : files'[l] = files[l]
  BY PathAreas, PathsAre DEF Keeps
<1>2. {files[l] : l \in Logs}' = {files[l] : l \in Logs}
  BY <1>1
<1>3. KeepsFixtures
  BY FixturesAreKept
<1>4. FixturesDerived' = FixturesDerived
  BY <1>3 DEF KeepsFixtures, FixturesDerived
<1>5. (current = Logs)' = (current = Logs)
  OBVIOUS
<1> QED
  BY <1>2, <1>4, <1>5 DEF BuildOps

\* While the files of other areas stay, each task of the running tool stays.
LEMMA TasksStay ==
  ASSUME version \in Versions, version' = version,
         tool \in Tools \ {"hashes"}, tool' = tool,
         IndexReadable => DOMAIN Indexed \subseteq ToSet(VectorNames),
         Keeps(Areas(tool)), tool = "build" => current' = current,
         NEW j \in 1..Len(Tasks(tool))
  PROVE  Begun(j)' = Begun(j)
<1>1. Tasks(tool)' = Tasks(tool)
  BY DEF Tasks
<1>2. ASSUME "positive" \notin Areas(tool)
      PROVE  /\ BaselineOps(files') = BaselineOps(files)
             /\ \A n : CaseOps(files', n) = CaseOps(files, n)
             /\ VerdictOps(files', version) = VerdictOps(files, version)
             /\ ClearOps(files') = ClearOps(files)
             /\ \A t : VectorOps(files', t) = VectorOps(files, t)
             /\ IndexOps(files', version) = IndexOps(files, version)
  <2>1. \A p \in ToSet(Positives), part \in {"record", "sidecar"} :
          files'[<<"positive", p, part>>] = files[<<"positive", p, part>>]
    BY <1>2, PathsAre DEF Keeps
  <2>2. \A f, g : (\A p \in ToSet(Positives), part \in {"record", "sidecar"} :
                     f[<<"positive", p, part>>] = g[<<"positive", p, part>>])
                  => /\ BaselineOps(f) = BaselineOps(g)
                     /\ \A n : CaseOps(f, n) = CaseOps(g, n)
                     /\ \A v : VerdictOps(f, v) = VerdictOps(g, v)
                     /\ ClearOps(f) = ClearOps(g)
                     /\ \A t : VectorOps(f, t) = VectorOps(g, t)
                     /\ \A v : IndexOps(f, v) = IndexOps(g, v)
    BY ReadsPositives
  <2> QED
    BY <2>1, <2>2
<1>3. CASE tool = "success"
  <2>1. (version \in Versions /\ tool = "success" =>
          /\ Len(Tasks(tool)) = Len(Positives) /\ Len(Positives) \in Nat
          /\ \A i \in 1..Len(Positives) : Begun(i) = PairOps(Positives[i], version))'
    BY SuccessLen, PTL
  <2> QED
    BY <1>3, <2>1, SuccessLen
<1>4. CASE tool = "negative"
  <2>1. (version \in Versions /\ tool = "negative" =>
          /\ Len(Tasks(tool)) = 2 + R + W /\ R \in Nat /\ W \in Nat
          /\ Begun(1) = BaselineOps(files)
          /\ \A i \in 1..R : Begun(1 + i) = RemoveOps(CaseNames[i])
          /\ \A i \in 1..W : Begun(1 + R + i) = CaseOps(files, Cases(version)[i])
          /\ Begun(2 + R + W) = VerdictOps(files, version))'
    BY NegativeLen, PTL
  <2>2. R' = R /\ W' = W
    BY DEF R, W
  <2>3. "positive" \notin Areas(tool)
    BY <1>4 DEF Areas
  <2>4. /\ Begun(1)' = BaselineOps(files')
        /\ \A i \in 1..R : Begun(1 + i)' = RemoveOps(CaseNames[i])
        /\ \A i \in 1..W : Begun(1 + R + i)' = CaseOps(files', Cases(version)[i])
        /\ Begun(2 + R + W)' = VerdictOps(files', version)
    BY <1>4, <2>1, <2>2
  <2>5. CASE j = 1
    BY <1>2, <1>4, <2>3, <2>4, <2>5, NegativeLen
  <2>6. ASSUME NEW i \in 1..R, j = 1 + i
        PROVE  Begun(j)' = Begun(j)
    <3>1. Begun(1 + i)' = Begun(1 + i)
      BY <1>4, <2>4, NegativeLen
    <3> QED
      BY <2>6, <3>1
  <2>7. ASSUME NEW i \in 1..W, j = 1 + R + i
        PROVE  Begun(j)' = Begun(j)
    <3>1. Begun(1 + R + i)' = Begun(1 + R + i)
      BY <1>2, <1>4, <2>3, <2>4, NegativeLen
    <3> QED
      BY <2>7, <3>1, <2>2
  <2>8. CASE j = 2 + R + W
    BY <1>2, <1>4, <2>2, <2>3, <2>4, <2>8, NegativeLen
  <2> QED
    BY <1>4, <2>5, <2>6, <2>7, <2>8, NegativeIndex
<1>5. CASE tool = "vectors"
  <2>1. (version \in Versions /\ tool = "vectors" =>
          /\ Len(Tasks(tool)) = 2 + X /\ X \in Nat
          /\ Begun(1) = ClearOps(files)
          /\ \A i \in 1..X : Begun(1 + i) = VectorOps(files, Vectors(version)[i])
          /\ Begun(2 + X) = IndexOps(files, version))'
    BY VectorLen, PTL
  <2>2. X' = X
    BY DEF X
  <2>3. "positive" \notin Areas(tool)
    BY <1>5 DEF Areas
  <2>4. /\ Begun(1)' = ClearOps(files')
        /\ \A i \in 1..X : Begun(1 + i)' = VectorOps(files', Vectors(version)[i])
        /\ Begun(2 + X)' = IndexOps(files', version)
    BY <1>5, <2>1, <2>2
  <2>5. CASE j = 1
    BY <1>2, <1>5, <2>3, <2>4, <2>5, VectorLen
  <2>6. ASSUME NEW i \in 1..X, j = 1 + i
        PROVE  Begun(j)' = Begun(j)
    <3>1. Begun(1 + i)' = Begun(1 + i)
      BY <1>2, <1>5, <2>3, <2>4, VectorLen
    <3> QED
      BY <2>6, <3>1
  <2>7. CASE j = 2 + X
    BY <1>2, <1>5, <2>2, <2>3, <2>4, <2>7, VectorLen
  <2> QED
    BY <1>5, <2>5, <2>6, <2>7, VectorIndex
<1>6. ASSUME tool \in {"hashes", "audit", "build"}
      PROVE  /\ j = 1
             /\ tool = "audit" => Begun(1) = AuditOps /\ Begun(1)' = AuditOps'
             /\ tool = "build" => Begun(1) = BuildOps /\ Begun(1)' = BuildOps'
  <2>1. (tool \in {"hashes", "audit", "build"} =>
          /\ Len(Tasks(tool)) = 1 /\ \A i \in 1..Len(Tasks(tool)) : i = 1
          /\ tool = "hashes" => Begun(1) = IF HashesPass THEN <<>> ELSE <<Fail>>
          /\ tool = "audit" => Begun(1) = AuditOps
          /\ tool = "build" => Begun(1) = BuildOps)'
    BY SingleTask, PTL
  <2> QED
    BY <1>6, <2>1, SingleTask
<1>7. CASE tool = "audit"
  <2>1. KeepsFixtures
    BY <1>7, FixturesAreKept DEF Areas
  <2> QED
    BY <1>6, <1>7, <2>1, AuditStays
<1>8. CASE tool = "build"
  <2>1. Keeps({"package"})
    BY <1>8 DEF Areas
  <2> QED
    BY <1>6, <1>8, <2>1, BuildStays
<1> QED
  BY <1>3, <1>4, <1>5, <1>7, <1>8 DEF Tools

(***************************************************************************)
(* One step of a tool.                                                     *)
(***************************************************************************)

\* Put changes one file.
LEMMA PutIs ==
  ASSUME DOMAIN files = Paths, NEW path \in Paths, NEW bytes, Put(path, bytes)
  PROVE  /\ DOMAIN files' = Paths
         /\ files'[path] = bytes
         /\ \A p \in Paths : p # path => files'[p] = files[p]
BY DEF Put

\* The upcoming operation is a known one of the current task.
LEMMA UpcomingIs ==
  ASSUME TypeInv, NEW o \in Upcoming
  PROVE  /\ tool \in Tools /\ task \in 1..Len(Tasks(tool))
         /\ done + 1 \in DOMAIN Begun(task) /\ o = Begun(task)[done + 1]
         /\ Known(task, done + 1, o)
<1>1. tool \in Tools /\ version \in Versions /\ task \in 1..Len(Tasks(tool))
  BY DEF TypeInv, Upcoming
<1>2. done + 1 \in DOMAIN Begun(task) /\ o = Begun(task)[done + 1]
  BY <1>1 DEF Upcoming, operations, Begun
<1> QED
  BY <1>1, <1>2, OperationsAreKnown

\* An executed operation has a task and a place in it.
LEMMA ExecutedIs ==
  \A o : o \in Executed <=> \E j \in 1..task : \E k \in DOMAIN Begun(j) :
                              (j < task \/ k <= done) /\ o = Begun(j)[k]
BY DEF Executed

\* A file operation reaches no other area, and the tasks stay.
LEMMA FileStep ==
  ASSUME TypeInv, NEW o \in Upcoming, WriteFile(o) \/ RemoveFile(o)
  PROVE  /\ tool' = tool /\ version' = version /\ task' = task /\ stage' = stage
         /\ Keeps(Areas(tool)) /\ DOMAIN files' = Paths
         /\ tool \in Tools \ {"hashes"}
         /\ tool = "build" => current' = current
         /\ \A j \in 1..Len(Tasks(tool)) : Begun(j)' = Begun(j)
<1>1. /\ tool \in Tools /\ task \in 1..Len(Tasks(tool)) /\ Known(task, done + 1, o)
      /\ version \in Versions /\ DOMAIN files = Paths
      /\ IndexReadable => DOMAIN Indexed \subseteq ToSet(VectorNames)
  BY UpcomingIs DEF TypeInv
<1>2. PICK path, bytes : Reaches(path) /\ Put(path, bytes)
  <2>1. CASE WriteFile(o)
    BY <1>1, <2>1, OperationPaths DEF WriteFile
  <2>2. CASE RemoveFile(o)
    BY <1>1, <2>2, OperationPaths DEF RemoveFile
  <2> QED
    BY <2>1, <2>2
<1>3. tool' = tool /\ version' = version /\ task' = task /\ stage' = stage
  BY DEF WriteFile, RemoveFile
<1>4. Keeps(Areas(tool)) /\ DOMAIN files' = Paths
  BY <1>1, <1>2, PutIs DEF Keeps, Reaches
<1>5. tool # "hashes"
  BY <1>2 DEF Reaches, Areas
<1>6. ASSUME tool = "build"
      PROVE  current' = current
  <2>1. PackageWrite(task, done + 1, o)
    BY <1>1, <1>6 DEF Known, PositiveWrite, CaseWrite, VectorWrite, IndexWrite, LogWrite,
                      CaseRemoval, VectorRemoval, IsFail, WriteFile, RemoveFile
  <2>2. o.op = "write" /\ o.path = PackagePath
    BY <2>1 DEF PackageWrite, IsWrite
  <2>3. Put(PackagePath, o.bytes)
    BY <2>2 DEF WriteFile, RemoveFile
  <2>4. PackagePath \notin Logs
    BY PathAreas
  <2> QED
    BY <2>3, <2>4 DEF Put
<1>7. \A j \in 1..Len(Tasks(tool)) : Begun(j)' = Begun(j)
  BY <1>1, <1>3, <1>4, <1>5, <1>6, TasksStay
<1> QED
  BY <1>1, <1>3, <1>4, <1>5, <1>6, <1>7

\* What was written before the next operation is neither written nor removed by it.
LEMMA NoClash ==
  ASSUME TypeInv, NEW o \in Upcoming, NEW w \in Executed, w.op = "write"
  PROVE  /\ o.op = "write" => o.path # w.path
         /\ o.op = "remove" => w.path \notin o.paths
<1>1. /\ task \in 1..Len(Tasks(tool)) /\ Known(task, done + 1, o)
      /\ tool \in Tools /\ version \in Versions /\ done \in Nat
  BY UpcomingIs DEF TypeInv
<1>2. PICK j \in 1..task : \E k \in DOMAIN Begun(j) : (j < task \/ k <= done) /\ w = Begun(j)[k]
  BY ExecutedIs
<1>3. PICK k \in DOMAIN Begun(j) : (j < task \/ k <= done) /\ w = Begun(j)[k]
  BY <1>2
<1>4. j \in 1..Len(Tasks(tool)) /\ task \in Nat /\ j \in Nat /\ j <= task
  BY <1>1
<1>5. IsTask(Begun(j)) /\ Known(j, k, w)
  BY <1>1, <1>3, <1>4, OperationsAreKnown
<1>6. k \in Nat
  BY <1>5 DEF IsTask
<1>7. o.op = "write" /\ o.path = w.path => task = j /\ done + 1 = k
  BY <1>1, <1>4, <1>5, WrittenOnce
<1>8. o.op = "remove" /\ w.path \in o.paths => task < j
  BY <1>1, <1>4, <1>5, RemovedBefore
<1> QED
  BY <1>1, <1>3, <1>4, <1>6, <1>7, <1>8

(***************************************************************************)
(* EffectsInv, action by action.                                           *)
(***************************************************************************)

\* What has been executed stays within the areas of the tool, too.
LEMMA ExecutedReaches ==
  ASSUME TypeInv, tool # Idle, NEW w \in Executed
  PROVE  /\ w.op = "write" => Reaches(w.path)
         /\ w.op = "remove" => \A path \in w.paths : Reaches(path)
<1>1. tool \in Tools /\ version \in Versions /\ task \in 1..Len(Tasks(tool))
  BY DEF TypeInv
<1>2. PICK j \in 1..task : \E k \in DOMAIN Begun(j) : w = Begun(j)[k]
  BY ExecutedIs
<1>3. PICK k \in DOMAIN Begun(j) : w = Begun(j)[k]
  BY <1>2
<1>4. j \in 1..Len(Tasks(tool))
  BY <1>1
<1>5. Known(j, k, w)
  BY <1>1, <1>3, <1>4, OperationsAreKnown
<1> QED
  BY <1>1, <1>5, OperationPaths

\* A step of the program counter adds its operation to the executed ones.
LEMMA MoreExecuted ==
  ASSUME TypeInv, NEW o \in Upcoming, task' = task, done' = done + 1,
         \A j \in 1..Len(Tasks(tool)) : Begun(j)' = Begun(j)
  PROVE  Executed' = Executed \cup {o}
<1>1. /\ task \in 1..Len(Tasks(tool)) /\ done \in Nat
      /\ done + 1 \in DOMAIN Begun(task) /\ o = Begun(task)[done + 1]
  BY UpcomingIs DEF TypeInv
<1>2. IsTask(Begun(task))
  BY <1>1, UpcomingIs, OperationsAreKnown DEF TypeInv
<1>3. \A w : w \in Executed' <=> \E j \in 1..task : \E k \in DOMAIN Begun(j)' :
                                   (j < task \/ k <= done + 1) /\ w = Begun(j)'[k]
  BY DEF Executed
<1>4. \A j \in 1..task : Begun(j)' = Begun(j)
  BY <1>1
<1>5. \A w : w \in Executed' <=> \E j \in 1..task : \E k \in DOMAIN Begun(j) :
                                   (j < task \/ k <= done + 1) /\ w = Begun(j)[k]
  BY <1>3, <1>4
<1>6. o \in Executed'
  BY <1>1, <1>5
<1>7. ASSUME NEW w \in Executed
      PROVE  w \in Executed'
  <2>1. PICK j \in 1..task : \E k \in DOMAIN Begun(j) : (j < task \/ k <= done) /\ w = Begun(j)[k]
    BY ExecutedIs
  <2>2. PICK k \in DOMAIN Begun(j) : (j < task \/ k <= done) /\ w = Begun(j)[k]
    BY <2>1
  <2>3. j < task \/ k <= done + 1
    <3>1. CASE j < task
      BY <3>1
    <3>2. CASE ~ (j < task)
      <4>1. j = task
        BY <1>1, <3>2
      <4>2. k \in Nat
        BY <1>2, <4>1 DEF IsTask
      <4> QED
        BY <1>1, <2>2, <3>2, <4>2
    <3> QED
      BY <3>1, <3>2
  <2> QED
    BY <1>5, <2>2, <2>3
<1>8. ASSUME NEW w \in Executed', w # o
      PROVE  w \in Executed
  <2>1. PICK j \in 1..task : \E k \in DOMAIN Begun(j) :
                               (j < task \/ k <= done + 1) /\ w = Begun(j)[k]
    BY <1>5
  <2>2. PICK k \in DOMAIN Begun(j) : (j < task \/ k <= done + 1) /\ w = Begun(j)[k]
    BY <2>1
  <2>3. j < task \/ k <= done
    <3>1. CASE j < task
      BY <3>1
    <3>2. CASE ~ (j < task)
      <4>1. j = task
        BY <1>1, <3>2
      <4>2. k \in Nat /\ k # done + 1
        BY <1>1, <1>2, <1>8, <2>2, <4>1 DEF IsTask
      <4> QED
        BY <1>1, <2>2, <3>2, <4>2
    <3> QED
      BY <3>1, <3>2
  <2> QED
    BY <2>2, <2>3, ExecutedIs
<1> QED
  BY <1>6, <1>7, <1>8

\* Without such a step they are the same.
LEMMA SameExecuted ==
  ASSUME TypeInv, tool \in Tools, task' = task, done' = done,
         \A j \in 1..Len(Tasks(tool)) : Begun(j)' = Begun(j)
  PROVE  Executed' = Executed
<1>1. task \in 1..Len(Tasks(tool))
  BY DEF TypeInv, Tools, Idle
<1>2. \A w : w \in Executed' <=> \E j \in 1..task : \E k \in DOMAIN Begun(j)' :
                                   (j < task \/ k <= done) /\ w = Begun(j)'[k]
  BY DEF Executed
<1>3. \A j \in 1..task : Begun(j)' = Begun(j)
  BY <1>1
<1>4. \A w : w \in Executed' <=> \E j \in 1..task : \E k \in DOMAIN Begun(j) :
                                   (j < task \/ k <= done) /\ w = Begun(j)[k]
  BY <1>2, <1>3
<1> QED
  BY <1>4, ExecutedIs

\* A write is the last word on its file, and no earlier write loses its file.
LEMMA WriteKeepsEffects ==
  ASSUME TypeInv, EffectsInv, NEW o \in Upcoming, WriteFile(o)
  PROVE  EffectsInv'
<1>1. /\ tool' = tool /\ task' = task /\ tool \in Tools
      /\ \A j \in 1..Len(Tasks(tool)) : Begun(j)' = Begun(j)
  BY FileStep
<1>2. Executed' = Executed \cup {o}
  BY <1>1, MoreExecuted DEF WriteFile
<1>3. DOMAIN files = Paths /\ version \in Versions /\ tool # Idle
  BY <1>1 DEF TypeInv, Tools, Idle
<1>4. o.op = "write" /\ o.path \in Paths /\ Put(o.path, o.bytes)
  BY <1>3, UpcomingIs, OperationPaths DEF WriteFile, Reaches
<1>5. files'[o.path] = o.bytes /\ \A p \in Paths : p # o.path => files'[p] = files[p]
  BY <1>3, <1>4, PutIs
<1>6. ASSUME NEW w \in Executed'
      PROVE  \/ w.op = "write" /\ files'[w.path] = w.bytes
             \/ /\ w.op = "remove"
                /\ \A path \in w.paths :
                     files'[path] # Absent => \E u \in Executed' : u.op = "write" /\ u.path = path
  <2>1. CASE w = o
    BY <1>4, <1>5, <2>1
  <2>2. CASE w \in Executed /\ w.op = "write"
    <3>1. w.path # o.path /\ files[w.path] = w.bytes
      BY <1>3, <1>4, <2>2, NoClash DEF EffectsInv
    <3>2. w.path \in Paths
      BY <1>3, <2>2, ExecutedReaches DEF Reaches
    <3> QED
      BY <1>5, <2>2, <3>1, <3>2
  <2>3. CASE w \in Executed /\ w.op # "write"
    <3>1. /\ w.op = "remove"
          /\ \A path \in w.paths : IsFile(path) => \E u \in Executed : u.op = "write" /\ u.path = path
      BY <1>3, <2>3 DEF EffectsInv
    <3>2. ASSUME NEW path \in w.paths, files'[path] # Absent
          PROVE  \E u \in Executed' : u.op = "write" /\ u.path = path
      <4>1. CASE path = o.path
        BY <1>2, <1>4, <4>1
      <4>2. CASE path # o.path
        <5>1. path \in Paths
          BY <1>3, <2>3, <3>1, ExecutedReaches DEF Reaches
        <5>2. IsFile(path)
          BY <1>5, <3>2, <4>2, <5>1 DEF IsFile
        <5> QED
          BY <1>2, <3>1, <5>2
      <4> QED
        BY <4>1, <4>2
    <3> QED
      BY <3>1, <3>2
  <2> QED
    BY <1>2, <2>1, <2>2, <2>3
<1> QED
  BY <1>6 DEF EffectsInv, IsFile

\* A removal takes no file that the tool has written.
LEMMA RemoveKeepsEffects ==
  ASSUME TypeInv, EffectsInv, NEW o \in Upcoming, RemoveFile(o)
  PROVE  EffectsInv'
<1>1. /\ tool' = tool /\ task' = task /\ tool \in Tools
      /\ \A j \in 1..Len(Tasks(tool)) : Begun(j)' = Begun(j)
  BY FileStep
<1>2. Executed' = Executed
  BY <1>1, SameExecuted DEF RemoveFile
<1>3. DOMAIN files = Paths /\ version \in Versions /\ tool # Idle
  BY <1>1 DEF TypeInv, Tools, Idle
<1>4. PICK q \in o.paths : Put(q, Absent)
  BY DEF RemoveFile
<1>5. o.op = "remove" /\ q \in Paths
  BY <1>3, UpcomingIs, OperationPaths DEF RemoveFile, Reaches
<1>6. files'[q] = Absent /\ \A p \in Paths : p # q => files'[p] = files[p]
  BY <1>3, <1>4, <1>5, PutIs
<1>7. ASSUME NEW w \in Executed
      PROVE  \/ w.op = "write" /\ files'[w.path] = w.bytes
             \/ /\ w.op = "remove"
                /\ \A path \in w.paths :
                     files'[path] # Absent => \E u \in Executed : u.op = "write" /\ u.path = path
  <2>1. CASE w.op = "write"
    <3>1. w.path # q /\ files[w.path] = w.bytes
      BY <1>3, <1>5, <2>1, NoClash DEF EffectsInv
    <3>2. w.path \in Paths
      BY <1>3, <2>1, ExecutedReaches DEF Reaches
    <3> QED
      BY <1>6, <2>1, <3>1, <3>2
  <2>2. CASE w.op # "write"
    <3>1. /\ w.op = "remove"
          /\ \A path \in w.paths : IsFile(path) => \E u \in Executed : u.op = "write" /\ u.path = path
      BY <1>3, <2>2 DEF EffectsInv
    <3>2. ASSUME NEW path \in w.paths, files'[path] # Absent
          PROVE  \E u \in Executed : u.op = "write" /\ u.path = path
      <4>1. path \in Paths
        BY <1>3, <3>1, ExecutedReaches DEF Reaches
      <4>2. IsFile(path)
        BY <1>6, <3>2, <4>1 DEF IsFile
      <4> QED
        BY <3>1, <4>2
    <3> QED
      BY <3>1, <3>2
  <2> QED
    BY <2>1, <2>2
<1> QED
  BY <1>2, <1>7 DEF EffectsInv, IsFile

\* The tasks stay when no file changes.
LEMMA SilentStep ==
  ASSUME TypeInv, tool \in Tools, tool' = tool, UNCHANGED <<version, files, current>>
  PROVE  \A j \in 1..Len(Tasks(tool)) : Begun(j)' = Begun(j)
<1>1. CASE tool # "hashes"
  <2>1. Keeps(Areas(tool))
    BY DEF Keeps
  <2> QED
    BY <1>1, <2>1, TasksStay DEF TypeInv
<1>2. CASE tool = "hashes"
  <2>1. (tool \in {"hashes", "audit", "build"} =>
           /\ Len(Tasks(tool)) = 1 /\ \A i \in 1..Len(Tasks(tool)) : i = 1
           /\ tool = "hashes" => Begun(1) = IF HashesPass THEN <<>> ELSE <<Fail>>
           /\ tool = "audit" => Begun(1) = AuditOps
           /\ tool = "build" => Begun(1) = BuildOps)'
    BY SingleTask, PTL
  <2>2. HashesPass' <=> HashesPass
    BY DEF HashesPass, IndexReadable, Indexed, IsFile, ValidPair
  <2>3. Begun(1)' = IF HashesPass' THEN <<>> ELSE <<Fail>>
    BY <1>2, <2>1
  <2>4. Begun(1) = IF HashesPass THEN <<>> ELSE <<Fail>>
    BY <1>2, SingleTask
  <2>5. Begun(1)' = Begun(1)
    BY <2>2, <2>3, <2>4
  <2> QED
    BY <1>2, <2>5, SingleTask
<1> QED
  BY <1>1, <1>2

\* A removal ends when none of its files is left.
LEMMA EndRemovalKeepsEffects ==
  ASSUME TypeInv, EffectsInv, NEW o \in Upcoming, EndRemoval(o)
  PROVE  EffectsInv'
<1>1. tool \in Tools /\ Known(task, done + 1, o) /\ o.op = "remove"
  BY UpcomingIs DEF EndRemoval
<1>2. \A j \in 1..Len(Tasks(tool)) : Begun(j)' = Begun(j)
  BY <1>1, SilentStep DEF EndRemoval
<1>3. Executed' = Executed \cup {o}
  BY <1>2, MoreExecuted DEF EndRemoval
<1>4. files' = files /\ tool' = tool /\ \A path \in o.paths : ~ IsFile(path)
  BY DEF EndRemoval
<1> QED
  BY <1>1, <1>3, <1>4 DEF EffectsInv, IsFile, Tools, Idle

\* The next task starts with what the ones before it have executed.
LEMMA NextTaskKeepsEffects ==
  ASSUME TypeInv, EffectsInv, NextTask
  PROVE  EffectsInv' /\ Executed' = Executed
<1>1. /\ tool \in Tools /\ task \in 1..Len(Tasks(tool)) /\ task < Len(Tasks(tool))
      /\ done \in Nat /\ version \in Versions
  BY DEF TypeInv, NextTask
<1>2. \A j \in 1..Len(Tasks(tool)) : Begun(j)' = Begun(j)
  BY <1>1, SilentStep DEF NextTask
<1>3. done + 1 \notin DOMAIN Begun(task)
  BY DEF NextTask, Upcoming, operations, Begun
<1>4. \A j \in 1..(task + 1) : IsTask(Begun(j)) /\ j \in 1..Len(Tasks(tool))
  BY <1>1, OperationsAreKnown
<1>5. \A w : w \in Executed' <=> \E j \in 1..(task + 1) : \E k \in DOMAIN Begun(j)' :
                                   (j < task + 1 \/ k <= 0) /\ w = Begun(j)'[k]
  BY DEF Executed, NextTask
<1>6. \A w : w \in Executed' <=> \E j \in 1..(task + 1) : \E k \in DOMAIN Begun(j) :
                                   (j < task + 1 \/ k <= 0) /\ w = Begun(j)[k]
  BY <1>2, <1>4, <1>5
<1>7. \A j \in 1..(task + 1) : \A k \in DOMAIN Begun(j) :
        /\ (j < task + 1 \/ k <= 0) <=> (j <= task /\ (j < task \/ k <= done))
        /\ j <= task <=> j \in 1..task
  <2> TAKE j \in 1..(task + 1)
  <2> TAKE k \in DOMAIN Begun(j)
  <2>1. k \in Nat /\ k >= 1
    BY <1>4 DEF IsTask
  <2>2. CASE j = task
    <3>1. k <= done
      BY <1>1, <1>3, <1>4, <2>2 DEF IsTask
    <3> QED
      BY <1>1, <2>2, <3>1
  <2>3. CASE j # task
    BY <1>1, <2>1, <2>3
  <2> QED
    BY <2>2, <2>3
<1>8. Executed' = Executed
  <2>1. 1..task \subseteq 1..(task + 1)
    BY <1>1
  <2> QED
    BY <1>6, <1>7, <2>1, ExecutedIs
<1>9. files' = files /\ tool' = tool
  BY DEF NextTask
<1> QED
  BY <1>8, <1>9 DEF EffectsInv, IsFile

\* Every tool has a task, and the operations of each are numbered.
LEMMA TasksAreNumbered ==
  version \in Versions /\ tool \in Tools =>
    /\ Len(Tasks(tool)) \in Nat \ {0}
    /\ \A j \in 1..Len(Tasks(tool)) : IsTask(Begun(j))
<1> SUFFICES ASSUME version \in Versions, tool \in Tools
             PROVE  /\ Len(Tasks(tool)) \in Nat \ {0}
                    /\ \A j \in 1..Len(Tasks(tool)) : IsTask(Begun(j))
  OBVIOUS
<1>1. tool = "success" => Len(Tasks(tool)) \in Nat \ {0}
  BY SuccessLen, Tables
<1>2. tool = "negative" => Len(Tasks(tool)) \in Nat \ {0}
  BY NegativeLen
<1>3. tool = "vectors" => Len(Tasks(tool)) \in Nat \ {0}
  BY VectorLen
<1>4. tool \in {"hashes", "audit", "build"} => Len(Tasks(tool)) \in Nat \ {0}
  BY SingleTask
<1>5. Len(Tasks(tool)) \in Nat \ {0}
  BY <1>1, <1>2, <1>3, <1>4 DEF Tools
<1> QED
  BY <1>5, OperationsAreKnown

\* A tool that has just been launched has executed nothing.
LEMMA LaunchHasNoEffects ==
  ASSUME TypeInv, NEW t \in Tools, Launch(t)
  PROVE  EffectsInv' /\ Executed' = {} /\ Len(Tasks(tool))' \in Nat \ {0}
<1>1. task' = 1 /\ done' = 0 /\ tool' \in Tools /\ version' \in Versions
  BY DEF Launch, TypeInv
<1>2. (version \in Versions /\ tool \in Tools =>
         /\ Len(Tasks(tool)) \in Nat \ {0}
         /\ \A j \in 1..Len(Tasks(tool)) : IsTask(Begun(j)))'
  BY TasksAreNumbered, PTL
<1>3. Len(Tasks(tool))' \in Nat \ {0} /\ IsTask(Begun(1))'
  BY <1>1, <1>2
<1>4. \A w : w \in Executed' => \E j \in 1..1 : \E k \in DOMAIN Begun(j)' : j < 1 \/ k <= 0
  BY <1>1 DEF Executed
<1>5. \A k \in DOMAIN Begun(1)' : k \in Nat /\ k >= 1
  BY <1>3 DEF IsTask
<1>6. Executed' = {}
  BY <1>4, <1>5
<1> QED
  BY <1>3, <1>6 DEF EffectsInv

(***************************************************************************)
(* What a step can leave in a file, and the types.                         *)
(***************************************************************************)

\* The step puts one file, or none.
Changes(q) == \A path \in Paths : path # q => files'[path] = files[path]

PutsOne(q) ==
  /\ Changes(q)
  /\ \/ files'[q] = Absent
     \/ files'[q] = Torn /\ Damage
     \/ \E o \in Upcoming : o.op = "write" /\ o.path = q /\ files'[q] \in {o.bytes, Torn}

\* A step changes one file at most: removed, torn, or written whole.
LEMMA OneFile ==
  ASSUME TypeInv, Next
  PROVE  DOMAIN files' = Paths /\ (UNCHANGED files \/ \E q \in Paths : PutsOne(q))
<1>1. DOMAIN files = Paths
  BY DEF TypeInv
<1>2. \A o \in Upcoming : /\ o.op = "write" => o.path \in Paths
                          /\ o.op = "remove" => \A path \in o.paths : path \in Paths
  BY UpcomingIs, OperationPaths DEF TypeInv, Reaches
<1>3. ASSUME NEW q \in Paths, NEW bytes, Put(q, bytes)
      PROVE  DOMAIN files' = Paths /\ files'[q] = bytes /\ Changes(q)
  BY <1>1, <1>3, PutIs DEF Changes
<1>4. ASSUME UNCHANGED files
      PROVE  DOMAIN files' = Paths /\ (UNCHANGED files \/ \E q \in Paths : PutsOne(q))
  BY <1>1, <1>4
<1>5. ASSUME NEW o \in Upcoming, WriteFile(o)
      PROVE  DOMAIN files' = Paths /\ \E q \in Paths : PutsOne(q)
  <2>1. o.op = "write" /\ o.path \in Paths /\ Put(o.path, o.bytes)
    BY <1>2, <1>5 DEF WriteFile
  <2>2. DOMAIN files' = Paths /\ files'[o.path] = o.bytes /\ Changes(o.path)
    BY <1>3, <2>1
  <2>3. PutsOne(o.path)
    BY <2>1, <2>2 DEF PutsOne
  <2> QED
    BY <2>1, <2>2, <2>3
<1>6. ASSUME NEW o \in Upcoming, RemoveFile(o)
      PROVE  DOMAIN files' = Paths /\ \E q \in Paths : PutsOne(q)
  <2>1. PICK q \in o.paths : Put(q, Absent)
    BY <1>6 DEF RemoveFile
  <2>2. q \in Paths
    BY <1>2, <1>6 DEF RemoveFile
  <2> QED
    BY <1>3, <2>1, <2>2 DEF PutsOne
<1>7. ASSUME NEW o \in Upcoming, o.op = "write", Put(o.path, Torn)
      PROVE  DOMAIN files' = Paths /\ \E q \in Paths : PutsOne(q)
  <2>1. DOMAIN files' = Paths /\ files'[o.path] = Torn /\ Changes(o.path) /\ o.path \in Paths
    BY <1>2, <1>3, <1>7
  <2>2. PutsOne(o.path)
    BY <1>7, <2>1 DEF PutsOne
  <2> QED
    BY <2>1, <2>2
<1>8. ASSUME Damage
      PROVE  DOMAIN files' = Paths /\ \E q \in Paths : PutsOne(q)
  <2>1. PICK q \in FixturePaths, bytes \in {Absent, Torn} : Put(q, bytes)
    BY <1>8 DEF Damage
  <2>2. q \in Paths
    BY DEF Paths
  <2>3. DOMAIN files' = Paths /\ files'[q] = bytes /\ Changes(q)
    BY <1>3, <2>1, <2>2
  <2> QED
    BY <1>8, <2>2, <2>3 DEF PutsOne
<1>9. ASSUME NEW o \in Upcoming, EndRemoval(o) \/ FailTool(o)
      PROVE  UNCHANGED files
  BY <1>9 DEF EndRemoval, FailTool
<1>10. ASSUME NextTask \/ Finish \/ Edit \/ \E t \in Tools : Launch(t)
       PROVE  UNCHANGED files
  BY <1>10 DEF NextTask, Finish, Edit, Launch
<1>11. ASSUME Kill
       PROVE  UNCHANGED files \/ \E o \in Upcoming : o.op = "write" /\ Put(o.path, Torn)
  BY <1>11 DEF Kill
<1> QED
  BY <1>4, <1>5, <1>6, <1>7, <1>8, <1>9, <1>10, <1>11 DEF Next

FromWrite(path) == \E o \in Upcoming : o.op = "write" /\ path = o.path /\ files'[path] = o.bytes

\* So a file has new contents only from the upcoming operation.
LEMMA NewContents ==
  ASSUME TypeInv, Next, NEW path \in Paths
  PROVE  files'[path] \in {files[path], Absent, Torn} \/ FromWrite(path)
BY OneFile DEF PutsOne, Changes, FromWrite

\* What the index of a version tells the sweeps.
LEMMA IndexIs ==
  ASSUME NEW v \in Versions, NEW src
  PROVE  /\ DOMAIN (Index(Vectors(v), src)[2]) = ToSet(Vectors(v))
         /\ \A t \in ToSet(Vectors(v)) : Index(Vectors(v), src)[2][t] = Sha256(VectorBytes(t, src))
         /\ ToSet(Vectors(v)) \subseteq ToSet(VectorNames)
<1>1. \A t \in ToSet(Vectors(v)) : t \in ToSet(VectorNames)
  BY Members
<1> QED
  BY <1>1 DEF Index

\* An index lists no vector but of the table.
LEMMA IndexStaysKnown ==
  ASSUME TypeInv, Next
  PROVE  (IndexReadable => DOMAIN Indexed \subseteq ToSet(VectorNames))'
<1>1. IndexPath \in Paths
  BY PathsAre
<1>2. CASE files'[IndexPath] = files[IndexPath]
  BY <1>2 DEF TypeInv, IndexReadable, Indexed
<1>3. CASE files'[IndexPath] \in {Absent, Torn}
  BY <1>3 DEF IndexReadable
<1>4. CASE FromWrite(IndexPath)
  <2>1. PICK o \in Upcoming : o.op = "write" /\ o.path = IndexPath /\ files'[IndexPath] = o.bytes
    BY <1>4 DEF FromWrite
  <2>2. Known(task, done + 1, o) /\ version \in Versions
    BY UpcomingIs DEF TypeInv
  <2>3. IndexWrite(task, done + 1, o)
    <3>1. o.path[1] = "index"
      BY <2>1, PathAreas
    <3>2. "index" \in Areas(tool)
      BY <2>1, <2>2, <3>1, OperationPaths DEF Reaches
    <3>3. tool = "vectors"
      BY <3>2 DEF Areas
    <3>4. ~ VectorWrite(task, done + 1, o)
      BY <3>1 DEF VectorWrite, WritesPair, IsWrite
    <3> QED
      BY <2>1, <2>2, <3>3, <3>4 DEF Known, PositiveWrite, CaseWrite, LogWrite, PackageWrite,
                                   CaseRemoval, VectorRemoval, IsFail, IsUnlink
  <2>4. o.bytes = Index(Vectors(version), RecordsOf(files))
    BY <2>3 DEF IndexWrite, IsWrite
  <2> QED
    BY <2>1, <2>2, <2>4, IndexIs DEF Indexed
<1> QED
  BY <1>1, <1>2, <1>3, <1>4, NewContents

\* The part of TypeInv that is about the running tool.
Running == tool # Idle => task \in 1..Len(Tasks(tool))

\* The types are kept by every step.
LEMMA TypesStay ==
  ASSUME TypeInv, [Next]_vars
  PROVE  TypeInv'
<1>1. CASE UNCHANGED vars
  <2>1. Running'
    BY <1>1 DEF TypeInv, Running, vars, Tasks
  <2>2. (IndexReadable => DOMAIN Indexed \subseteq ToSet(VectorNames))'
    BY <1>1 DEF TypeInv, vars, IndexReadable, Indexed
  <2> QED
    BY <1>1, <2>1, <2>2 DEF TypeInv, vars, Running
<1>2. CASE Next
  <2>1. DOMAIN files' = Paths
    BY <1>2, OneFile
  <2>2. (IndexReadable => DOMAIN Indexed \subseteq ToSet(VectorNames))'
    BY <1>2, IndexStaysKnown
  <2>3. version' \in Versions
    BY <1>2 DEF TypeInv, Next, Launch, WriteFile, RemoveFile, EndRemoval, FailTool, NextTask,
                Finish, Kill, Edit, Damage
  <2>4. tool' \in Tools \cup {Idle} /\ done' \in Nat /\ damages' \in Nat
    BY <1>2 DEF TypeInv, Next, Launch, WriteFile, RemoveFile, EndRemoval, FailTool, NextTask,
                Finish, Kill, Edit, Damage, End
  <2>5. stage' \in 0..Len(Workflow)
    <3>1. Len(Workflow) = 6
      BY DEF Workflow
    <3>2. stage' = stage \/ stage' = 0 \/ stage' = 1 \/ (stage < Len(Workflow) /\ stage' = stage + 1)
      BY <1>2 DEF Next, Launch, WriteFile, RemoveFile, EndRemoval, FailTool, NextTask,
                  Finish, Kill, Edit, Damage, End
    <3> QED
      BY <3>1, <3>2 DEF TypeInv
  <2>6. Running'
    <3>1. CASE tool' = Idle
      BY <3>1 DEF Running
    <3>2. ASSUME tool' = tool, version' = version, task' = task
          PROVE  Running'
      <4>1. Tasks(tool)' = Tasks(tool)
        BY <3>2 DEF Tasks
      <4> QED
        BY <3>2, <4>1 DEF Running, TypeInv
    <3>3. ASSUME NEW o \in Upcoming, WriteFile(o) \/ RemoveFile(o) \/ EndRemoval(o) \/ FailTool(o)
          PROVE  Running'
      BY <3>1, <3>2, <3>3 DEF WriteFile, RemoveFile, EndRemoval, FailTool, End
    <3>4. CASE NextTask
      <4>1. Tasks(tool)' = Tasks(tool)
        BY <3>4 DEF Tasks, NextTask
      <4>2. tool \in Tools /\ version \in Versions
        BY <3>4 DEF NextTask, TypeInv
      <4>3. Len(Tasks(tool)) \in Nat
        BY <4>2, TasksAreNumbered
      <4> QED
        BY <3>4, <4>1, <4>3 DEF Running, TypeInv, NextTask
    <3>5. ASSUME NEW t \in Tools, Launch(t)
          PROVE  Running'
      BY <3>5, LaunchHasNoEffects DEF Running, Launch
    <3>6. CASE Edit \/ Damage
      BY <3>6 DEF Edit, Damage, Running
    <3>7. CASE Finish \/ Kill
      BY <3>1, <3>7 DEF Finish, Kill, End
    <3> QED
      BY <1>2, <3>3, <3>4, <3>5, <3>6, <3>7 DEF Next
  <2> QED
    BY <2>1, <2>2, <2>3, <2>4, <2>5, <2>6 DEF TypeInv, Running
<1> QED
  BY <1>1, <1>2

\* So are the effects of the running tool.
LEMMA EffectsStay ==
  ASSUME TypeInv, EffectsInv, [Next]_vars
  PROVE  EffectsInv'
<1>1. CASE UNCHANGED vars
  <2>1. CASE tool = Idle
    BY <1>1, <2>1 DEF EffectsInv, vars
  <2>2. CASE tool \in Tools
    <3>1. Executed' = Executed
      BY <1>1, <2>2, SilentStep, SameExecuted DEF vars
    <3> QED
      BY <1>1, <3>1 DEF EffectsInv, vars, IsFile
  <2> QED
    BY <2>1, <2>2 DEF TypeInv
<1>2. CASE Next
  <2>1. ASSUME NEW o \in Upcoming, WriteFile(o) \/ RemoveFile(o) \/ EndRemoval(o) \/ FailTool(o)
        PROVE  EffectsInv'
    BY <2>1, WriteKeepsEffects, RemoveKeepsEffects, EndRemovalKeepsEffects
       DEF FailTool, End, EffectsInv
  <2>2. CASE Finish \/ Kill \/ Edit \/ Damage
    BY <2>2 DEF Finish, Kill, Edit, Damage, End, EffectsInv
  <2> QED
    BY <1>2, <2>1, <2>2, NextTaskKeepsEffects, LaunchHasNoEffects DEF Next
<1> QED
  BY <1>1, <1>2

(***************************************************************************)
(* The baseline, and the cases.                                            *)
(***************************************************************************)

\* Only generate_success_fixtures writes positives, those of its version.
LEMMA WritesToPositives ==
  ASSUME TypeInv, NEW o \in Upcoming, o.op = "write", NEW p, NEW part,
         o.path = <<"positive", p, part>>
  PROVE  /\ tool = "success" /\ PositiveWrite(task, done + 1, o) /\ p = Positives[task]
         /\ part = "record" => o.bytes = Example(p, version)
         /\ part = "sidecar" => o.bytes = Sha256(Example(p, version))
<1>1. Known(task, done + 1, o) /\ version \in Versions
  BY UpcomingIs DEF TypeInv
<1>2. "positive" \in Areas(tool)
  BY <1>1, OperationPaths DEF Reaches
<1>3. tool = "success"
  BY <1>2 DEF Areas
<1>4. PositiveWrite(task, done + 1, o)
  BY <1>1, <1>3 DEF Known, CaseWrite, VectorWrite, IndexWrite, LogWrite, PackageWrite,
                    CaseRemoval, VectorRemoval, IsFail
<1> DEFINE q == Positives[task]
<1>5. \/ o.path = <<"positive", q, "record">> /\ o.bytes = Example(q, version)
      \/ o.path = <<"positive", q, "sidecar">> /\ o.bytes = Sha256(Example(q, version))
  BY <1>4 DEF PositiveWrite, WritesPair, IsWrite
<1> HIDE DEF q
<1>6. p = q
  BY <1>5
<1> QED
  BY <1>3, <1>4, <1>5, <1>6 DEF q

\* The record of a positive is one of some version, torn, or missing.
LEMMA PositivesStay ==
  ASSUME TypeInv, PositivesInv, [Next]_vars
  PROVE  PositivesInv'
<1>1. CASE UNCHANGED vars
  BY <1>1 DEF PositivesInv, vars
<1>2. ASSUME Next, NEW p \in ToSet(Positives)
      PROVE  files'[<<"positive", p, "record">>] \in Records(p) \cup {Absent}
  <2> DEFINE path == <<"positive", p, "record">>
  <2>1. path \in Paths /\ version \in Versions
    BY PathsAre DEF TypeInv
  <2>2. files'[path] \in {files[path], Absent, Torn} \/ FromWrite(path)
    BY <1>2, <2>1, NewContents
  <2>3. FromWrite(path) => files'[path] = Example(p, version)
    BY WritesToPositives DEF FromWrite
  <2>4. Torn \in Records(p) /\ Example(p, version) \in Records(p)
    BY <2>1 DEF Records
  <2>5. files[path] \in Records(p) \cup {Absent}
    BY DEF PositivesInv
  <2> QED
    BY <2>2, <2>3, <2>4, <2>5
<1> QED
  BY <1>1, <1>2 DEF PositivesInv

\* Only generate_negative_cases writes cases, from the baseline that is there.
LEMMA WritesToCases ==
  ASSUME version \in Versions, NEW j, NEW k, NEW w, Known(j, k, w), w.op = "write",
         NEW n, NEW part, w.path = <<"case", n, part>>
  PROVE  /\ tool = "negative"
         /\ \E i \in 1..W : Cases(version)[i] = n /\ j = 1 + R + i
         /\ k \in 1..Len(CaseParts(n)) /\ CaseParts(n)[k] = part
         /\ w.bytes = CaseFile(n, BaselineRecord(files))[part]
<1>1. w.path[1] = "case"
  OBVIOUS
<1>2. "case" \in Areas(tool)
  BY <1>1, OperationPaths DEF Reaches
<1>3. tool = "negative"
  BY <1>2 DEF Areas
<1>4. CaseWrite(j, k, w)
  BY <1>3 DEF Known, PositiveWrite, VectorWrite, IndexWrite, LogWrite, PackageWrite,
              CaseRemoval, VectorRemoval, IsFail, IsUnlink
<1>5. PICK i \in 1..W : /\ j = 1 + R + i /\ k \in 1..Len(CaseParts(Cases(version)[i]))
                        /\ WritesPart(w, Cases(version)[i], CaseParts(Cases(version)[i])[k])
  BY <1>4 DEF CaseWrite
<1> DEFINE m == Cases(version)[i]
           q == CaseParts(m)[k]
<1>6. w.path = <<"case", m, q>> /\ w.bytes = CaseFile(m, BaselineRecord(files))[q]
  BY <1>5 DEF WritesPart, IsWrite
<1>7. m = n /\ q = part
  <2>1. <<"case", m, q>> = <<"case", n, part>>
    BY <1>6
  <2> HIDE DEF m, q
  <2> QED
    BY <2>1
<1> QED
  BY <1>3, <1>5, <1>6, <1>7

\* A file that the running tool has removed is there again only as it has written it.
LEMMA OnceRemoved ==
  ASSUME TypeInv, EffectsInv, tool # Idle, NEW o \in Executed, o.op = "remove",
         NEW path \in o.paths, IsFile(path)
  PROVE  \E j \in 1..task : \E k \in DOMAIN Begun(j) :
           LET w == Begun(j)[k]
           IN  /\ j < task \/ k <= done
               /\ Known(j, k, w)
               /\ w.op = "write" /\ w.path = path /\ files[path] = w.bytes
<1>1. PICK w \in Executed : w.op = "write" /\ w.path = path
  BY DEF EffectsInv
<1>2. files[path] = w.bytes
  BY <1>1 DEF EffectsInv
<1>3. PICK j \in 1..task : \E k \in DOMAIN Begun(j) : (j < task \/ k <= done) /\ w = Begun(j)[k]
  BY ExecutedIs
<1>4. PICK k \in DOMAIN Begun(j) : (j < task \/ k <= done) /\ w = Begun(j)[k]
  BY <1>3
<1>5. j \in 1..Len(Tasks(tool)) /\ tool \in Tools /\ version \in Versions
  BY DEF TypeInv
<1>6. Known(j, k, w)
  BY <1>4, <1>5, OperationsAreKnown
<1> QED
  BY <1>1, <1>2, <1>4, <1>6

\* Before the first case is made, all of them are removed.
LEMMA CasesAreRemoved ==
  ASSUME TypeInv, tool = "negative", task > 1 + R,
         NEW n \in ToSet(CaseNames), NEW part \in CaseFiles \cup {"dir"}
  PROVE  \E o \in Executed : o.op = "remove" /\ <<"case", n, part>> \in o.paths
<1>1. version \in Versions /\ task \in 1..Len(Tasks(tool)) /\ R \in Nat
  BY NegativeLen DEF TypeInv, Tools, Idle
<1>2. PICK i \in 1..R : CaseNames[i] = n
  BY <1>1, Members DEF R
<1>3. Begun(1 + i) = RemoveOps(n)
  BY <1>1, <1>2, NegativeLen
<1>4. /\ IsTask(RemoveOps(n)) /\ Len(RemoveOps(n)) = 2
      /\ IsUnlink(RemoveOps(n)[1], {"case"} \X {n} \X CaseFiles)
      /\ IsUnlink(RemoveOps(n)[2], {<<"case", n, "dir">>})
  BY RemoveTask
<1>5. 1 + i \in 1..task /\ 1 + i < task
  BY <1>1
<1>6. 1 \in DOMAIN Begun(1 + i) /\ 2 \in DOMAIN Begun(1 + i)
  BY <1>3, <1>4 DEF IsTask
<1>7. RemoveOps(n)[1] \in Executed /\ RemoveOps(n)[2] \in Executed
  BY <1>3, <1>5, <1>6, ExecutedIs
<1>8. CASE part \in CaseFiles
  BY <1>4, <1>7, <1>8 DEF IsUnlink
<1>9. CASE part = "dir"
  BY <1>4, <1>7, <1>9 DEF IsUnlink
<1> QED
  BY <1>8, <1>9

\* So a file of a case is there only as the running tool has written it.
LEMMA CaseSoFar ==
  ASSUME TypeInv, EffectsInv, tool = "negative", task > 1 + R,
         NEW n \in ToSet(CaseNames), NEW part \in CaseFiles \cup {"dir"},
         IsFile(<<"case", n, part>>)
  PROVE  /\ files[<<"case", n, part>>] = CaseFile(n, BaselineRecord(files))[part]
         /\ \E i \in 1..W, k \in 1..Len(CaseParts(n)) :
              /\ Cases(version)[i] = n /\ CaseParts(n)[k] = part
              /\ 1 + R + i < task \/ (1 + R + i = task /\ k <= done)
<1> DEFINE path == <<"case", n, part>>
<1>1. tool # Idle /\ version \in Versions /\ task \in Nat
  BY DEF TypeInv, Idle
<1>2. PICK o \in Executed : o.op = "remove" /\ path \in o.paths
  BY CasesAreRemoved
<1>3. PICK j \in 1..task : \E k \in DOMAIN Begun(j) :
             LET w == Begun(j)[k]
             IN  /\ j < task \/ k <= done
                 /\ Known(j, k, w)
                 /\ w.op = "write" /\ w.path = path /\ files[path] = w.bytes
  BY <1>1, <1>2, OnceRemoved
<1>4. PICK k \in DOMAIN Begun(j) :
             LET w == Begun(j)[k]
             IN  /\ j < task \/ k <= done
                 /\ Known(j, k, w)
                 /\ w.op = "write" /\ w.path = path /\ files[path] = w.bytes
  BY <1>3
<1>5. /\ \E i \in 1..W : Cases(version)[i] = n /\ j = 1 + R + i
      /\ k \in 1..Len(CaseParts(n)) /\ CaseParts(n)[k] = part
      /\ Begun(j)[k].bytes = CaseFile(n, BaselineRecord(files))[part]
  BY <1>1, <1>4, WritesToCases
<1>6. j < task \/ (j = task /\ k <= done)
  BY <1>1, <1>4
<1> QED
  BY <1>4, <1>5, <1>6

\* A task that is over did not fail.
LEMMA PastCompletes ==
  ASSUME TypeInv, EffectsInv, tool # Idle, NEW j \in 1..task, j < task
  PROVE  Completes(Begun(j)) /\ \A k \in DOMAIN Begun(j) : Begun(j)[k] \in Executed
<1>1. \A k \in DOMAIN Begun(j) : Begun(j)[k] \in Executed
  BY ExecutedIs
<1>2. \A k \in DOMAIN Begun(j) : ~ IsFail(Begun(j)[k])
  BY <1>1 DEF EffectsInv, IsFail
<1> QED
  BY <1>1, <1>2 DEF Completes

\* Past its first task that generator has a baseline.
LEMMA BaselineIsThere ==
  ASSUME TypeInv, EffectsInv, tool = "negative", task > 1
  PROVE  BaselineRecord(files) # Absent
<1>1. version \in Versions /\ tool # Idle /\ 1 \in 1..task /\ 1 < task
  BY DEF TypeInv, Idle
<1>2. Completes(BaselineOps(files))
  BY <1>1, PastCompletes, NegativeLen
<1> QED
  BY <1>2, BaselineTask

\* meta.json is the last file of a case.
LEMMA MetaIsLast ==
  ASSUME NEW n, NEW k \in 1..Len(CaseParts(n)), CaseParts(n)[k] = "meta"
  PROVE  k = Len(CaseParts(n)) /\ Len(CaseParts(n)) \in {3, 4}
<1>1. CASE n \in Bare
  <2>1. CaseParts(n) = <<"dir", "record", "meta">>
    BY <1>1 DEF CaseParts
  <2> QED
    BY <2>1
<1>2. CASE n \notin Bare
  <2>1. CaseParts(n) = <<"dir", "record", "sidecar", "meta">>
    BY <1>2 DEF CaseParts
  <2> QED
    BY <2>1
<1> QED
  BY <1>1, <1>2

\* What a step that puts a file of a case finds of this case.
LEMMA WholeSoFar ==
  ASSUME TypeInv, EffectsInv, PositivesInv, NEW o \in Upcoming, o.op = "write",
         NEW n, NEW part \in CaseFiles, o.path = <<"case", n, part>>
  PROVE  LET b == BaselineRecord(files)
         IN  /\ n \in ToSet(CaseNames) /\ b \in Baselines
             /\ o.bytes = CaseFile(n, b)[part]
             /\ \A other \in CaseFiles : files[<<"case", n, other>>] \in {CaseFile(n, b)[other], Absent}
             /\ part # "meta" => files[<<"case", n, "meta">>] = Absent
<1> DEFINE b == BaselineRecord(files)
<1>1. version \in Versions /\ Known(task, done + 1, o) /\ task \in Nat /\ done \in Nat
  BY UpcomingIs DEF TypeInv
<1>2. /\ tool = "negative"
      /\ done + 1 \in 1..Len(CaseParts(n)) /\ CaseParts(n)[done + 1] = part
      /\ o.bytes = CaseFile(n, b)[part]
  BY <1>1, WritesToCases
<1>3. PICK i \in 1..W : Cases(version)[i] = n /\ task = 1 + R + i
  BY <1>1, WritesToCases
<1>4. R \in Nat /\ W \in Nat
  BY <1>1, <1>2, NegativeLen
<1>5. n \in ToSet(CaseNames) /\ task > 1 + R /\ task > 1
  BY <1>1, <1>3, <1>4, Members DEF W
<1>6. b \in Baselines
  <2>1. Baseline \in ToSet(Positives)
    BY <1>1, Members
  <2> QED
    BY <1>2, <1>5, <2>1, BaselineIsThere DEF PositivesInv, BaselineRecord, Baselines
<1>7. \A other \in CaseFiles : files[<<"case", n, other>>] \in {CaseFile(n, b)[other], Absent}
  BY <1>2, <1>5, CaseSoFar DEF IsFile
<1>8. ASSUME part # "meta", files[<<"case", n, "meta">>] # Absent
      PROVE  FALSE
  <2>1. PICK a \in 1..W, k \in 1..Len(CaseParts(n)) :
          /\ Cases(version)[a] = n /\ CaseParts(n)[k] = "meta"
          /\ 1 + R + a < task \/ (1 + R + a = task /\ k <= done)
    <3>1. "meta" \in CaseFiles \cup {"dir"} /\ IsFile(<<"case", n, "meta">>)
      BY <1>8 DEF IsFile, CaseFiles
    <3> QED
      BY <1>2, <1>5, <3>1, CaseSoFar
  <2>2. a = i
    BY <1>1, <1>3, <2>1, NoRepetition DEF W
  <2>3. k <= done
    BY <1>1, <1>3, <1>4, <2>1, <2>2
  <2>4. k = Len(CaseParts(n)) /\ Len(CaseParts(n)) \in {3, 4}
    BY <2>1, MetaIsLast
  <2> QED
    BY <1>1, <1>2, <2>3, <2>4
<1> QED
  BY <1>2, <1>5, <1>6, <1>7, <1>8

Whole(n) ==
  \/ files[<<"case", n, "meta">>] \in {Absent, Torn}
  \/ \E b \in Baselines : \A part \in CaseFiles :
       files[<<"case", n, part>>] \in {CaseFile(n, b)[part], Absent}

\* Every step keeps a case with a whole meta.json from mixing baselines.
LEMMA WholeStays ==
  ASSUME TypeInv, EffectsInv, PositivesInv, WholeInv, [Next]_vars
  PROVE  WholeInv'
<1>1. CASE UNCHANGED vars
  BY <1>1 DEF WholeInv, vars
<1>2. ASSUME Next, damages' = 0, NEW n \in ToSet(CaseNames)
      PROVE  Whole(n)'
  <2>1. damages = 0 /\ ~ Damage
    BY <1>2 DEF TypeInv, Next, Launch, WriteFile, RemoveFile, EndRemoval, FailTool, NextTask,
                Finish, Kill, Edit, Damage
  <2>2. Whole(n)
    BY <2>1 DEF WholeInv, Whole
  <2>3. CASE UNCHANGED files
    BY <2>2, <2>3 DEF Whole
  <2>4. ASSUME NEW q \in Paths, PutsOne(q)
        PROVE  Whole(n)'
    <3>1. \A part \in CaseFiles : <<"case", n, part>> \in Paths
      BY PathsAre
    <3>2. \A part \in CaseFiles :
            <<"case", n, part>> # q => files'[<<"case", n, part>>] = files[<<"case", n, part>>]
      BY <2>4, <3>1 DEF PutsOne, Changes
    <3>3. "meta" \in CaseFiles
      BY DEF CaseFiles
    <3>4. CASE \A part \in CaseFiles : q # <<"case", n, part>>
      BY <2>2, <3>2, <3>3, <3>4 DEF Whole
    <3>5. ASSUME NEW part \in CaseFiles, q = <<"case", n, part>>
          PROVE  Whole(n)'
      <4>1. \A other \in CaseFiles :
              other # part => files'[<<"case", n, other>>] = files[<<"case", n, other>>]
        BY <3>2, <3>5
      <4>2. CASE files'[q] = Absent
        <5>1. CASE files[<<"case", n, "meta">>] \in {Absent, Torn}
          BY <3>3, <3>5, <4>1, <4>2, <5>1 DEF Whole
        <5>2. CASE \E b \in Baselines : \A other \in CaseFiles :
                     files[<<"case", n, other>>] \in {CaseFile(n, b)[other], Absent}
          BY <3>5, <4>1, <4>2, <5>2 DEF Whole
        <5> QED
          BY <2>2, <5>1, <5>2 DEF Whole
      <4>3. ASSUME NEW o \in Upcoming, o.op = "write", o.path = q, files'[q] \in {o.bytes, Torn}
            PROVE  Whole(n)'
        <5> DEFINE b == BaselineRecord(files)
        <5>1. /\ b \in Baselines /\ o.bytes = CaseFile(n, b)[part]
              /\ \A other \in CaseFiles :
                   files[<<"case", n, other>>] \in {CaseFile(n, b)[other], Absent}
              /\ part # "meta" => files[<<"case", n, "meta">>] = Absent
          BY <3>5, <4>3, WholeSoFar
        <5> HIDE DEF b
        <5>2. CASE part # "meta"
          BY <3>3, <4>1, <5>1, <5>2 DEF Whole
        <5>3. CASE part = "meta" /\ files'[q] = Torn
          BY <3>5, <5>3 DEF Whole
        <5>4. CASE part = "meta" /\ files'[q] = o.bytes
          <6>1. \A other \in CaseFiles :
                  files'[<<"case", n, other>>] \in {CaseFile(n, b)[other], Absent}
            BY <3>5, <4>1, <5>1, <5>4
          <6> QED
            BY <5>1, <6>1 DEF Whole
        <5> QED
          BY <4>3, <5>2, <5>3, <5>4
      <4> QED
        BY <2>1, <2>4, <4>2, <4>3 DEF PutsOne
    <3> QED
      BY <3>4, <3>5
  <2> QED
    BY <1>2, <2>3, <2>4, OneFile
<1> QED
  BY <1>1, <1>2 DEF WholeInv, Whole

(***************************************************************************)
(* The logs.                                                               *)
(***************************************************************************)

\* A write of the audit makes its log a current one.
LEMMA LogWrites ==
  ASSUME TypeInv, tool = "audit", NEW o \in Upcoming
  PROVE  /\ o.op # "remove"
         /\ o.op = "write" => o.path \in Logs /\ o.bytes # Torn
<1>1. Known(task, done + 1, o)
  BY UpcomingIs
<1>2. IsFail(o) \/ LogWrite(task, done + 1, o)
  BY <1>1 DEF Known, PositiveWrite, CaseWrite, VectorWrite, IndexWrite, PackageWrite,
              CaseRemoval, VectorRemoval
<1>3. LogWrite(task, done + 1, o) => o.op = "write" /\ o.path \in Logs /\ o.bytes # Torn
  BY LogsAssumption DEF LogWrite, IsWrite, LogAt, Logs
<1> QED
  BY <1>2, <1>3 DEF IsFail

\* Every step keeps the bookkeeping of current logs.
LEMMA LogsStay ==
  ASSUME TypeInv, EffectsInv, LogsInv, [Next]_vars
  PROVE  LogsInv'
<1> DEFINE Written == tool = "audit" => \A o \in Executed : o.op = "write" => o.path \in current
<1>1. ASSUME NEW path, NEW bytes, Put(path, bytes)
      PROVE  current' \subseteq Logs
  BY <1>1 DEF Put, LogsInv
<1>2. ASSUME current' = current
      PROVE  current' \subseteq Logs
  BY <1>2 DEF LogsInv
<1>3. current' \subseteq Logs
  <2>1. ASSUME NEW o \in Upcoming, WriteFile(o) \/ RemoveFile(o) \/ EndRemoval(o) \/ FailTool(o)
        PROVE  current' \subseteq Logs
    BY <1>1, <1>2, <2>1 DEF WriteFile, RemoveFile, EndRemoval, FailTool
  <2>2. CASE Kill \/ Damage
    BY <1>1, <1>2, <2>2 DEF Kill, Damage
  <2>3. ASSUME (\E t \in Tools : Launch(t)) \/ NextTask \/ Finish \/ Edit \/ UNCHANGED vars
        PROVE  current' \subseteq Logs
    BY <1>2, <2>3 DEF Launch, NextTask, Finish, Edit, vars
  <2> QED
    BY <2>1, <2>2, <2>3 DEF Next
<1>4. Written'
  <2>1. CASE tool' # "audit"
    BY <2>1
  <2>2. ASSUME Executed' = Executed, tool' = tool, current' = current
        PROVE  Written'
    BY <2>2 DEF LogsInv
  <2>3. CASE UNCHANGED vars
    <3>1. CASE tool \in Tools
      <4>1. Executed' = Executed
        BY <2>3, <3>1, SilentStep, SameExecuted DEF vars
      <4> QED
        BY <2>2, <2>3, <4>1 DEF vars
    <3>2. CASE tool = Idle
      BY <2>1, <2>3, <3>2 DEF vars, Idle
    <3> QED
      BY <3>1, <3>2 DEF TypeInv
  <2>4. ASSUME NEW t \in Tools, Launch(t)
        PROVE  Written'
    <3>1. Executed' = {}
      BY <2>4, LaunchHasNoEffects
    <3> QED
      BY <3>1
  <2>5. CASE NextTask
    BY <2>2, <2>5, NextTaskKeepsEffects DEF NextTask
  <2>6. CASE Finish \/ Kill
    BY <2>6 DEF Finish, Kill, End, Idle
  <2>7. CASE Edit \/ Damage
    BY <2>7 DEF Edit, Damage, Idle
  <2>8. ASSUME NEW o \in Upcoming, RemoveFile(o) \/ EndRemoval(o) \/ FailTool(o)
        PROVE  Written'
    BY <2>8, LogWrites DEF RemoveFile, EndRemoval, FailTool, End, Idle
  <2>9. ASSUME NEW o \in Upcoming, WriteFile(o), tool' = "audit"
        PROVE  Written'
    <3>1. tool = "audit"
      BY <2>9 DEF WriteFile
    <3>2. o.path \in Logs /\ o.bytes # Torn /\ o.op = "write"
      BY <2>9, <3>1, LogWrites DEF WriteFile
    <3>3. current' = current \cup {o.path}
      BY <2>9, <3>2 DEF WriteFile, Put
    <3>4. Executed' = Executed \cup {o}
      BY <2>9, FileStep, MoreExecuted DEF WriteFile
    <3> QED
      BY <3>1, <3>3, <3>4 DEF LogsInv
  <2> QED
    BY <2>1, <2>3, <2>4, <2>5, <2>6, <2>7, <2>8, <2>9 DEF Next
<1> QED
  BY <1>3, <1>4 DEF LogsInv

(***************************************************************************)
(* What a version derives, file by file.                                   *)
(***************************************************************************)

PairPart(bytes, part) == IF part = "record" THEN bytes ELSE Sha256(bytes)

Fixture(v, path) ==
  IF path = IndexPath THEN Index(Vectors(v), Examples(v))
  ELSE IF path[1] = "positive" THEN PairPart(Examples(v)[path[2]], path[3])
  ELSE IF path[1] = "vector" /\ path[2] \in ToSet(Vectors(v))
       THEN PairPart(VectorBytes(path[2], Examples(v)), path[3])
  ELSE IF path[1] = "case" /\ path[2] \in ToSet(Cases(v))
       THEN CaseFile(path[2], Examples(v)[Baseline])[path[3]]
  ELSE Absent

\* Derived, without its function constructor.
LEMMA DerivedIs ==
  ASSUME NEW v, NEW path \in FixturePaths
  PROVE  Derived(v)[path] = Fixture(v, path)
BY DEF Derived, Fixture, PairPart

\* The pair of a positive.
LEMMA DerivedPositive ==
  ASSUME NEW v, NEW p \in ToSet(Positives), NEW part \in {"record", "sidecar"}
  PROVE  /\ <<"positive", p, part>> \in PositivePaths
         /\ Derived(v)[<<"positive", p, part>>] = PairPart(Example(p, v), part)
<1> DEFINE path == <<"positive", p, part>>
<1>1. path \in PositivePaths /\ path \in FixturePaths
  BY DEF PositivePaths, FixturePaths
<1>2. path[1] = "positive" /\ path[2] = p /\ path[3] = part /\ path # IndexPath
  BY DEF IndexPath
<1> HIDE DEF path
<1>3. Fixture(v, path) = PairPart(Examples(v)[p], part)
  BY <1>2 DEF Fixture
<1>4. Examples(v)[p] = Example(p, v)
  BY DEF Examples
<1> QED
  BY <1>1, <1>3, <1>4, DerivedIs DEF path

\* The files of a case, if the version generates it.
LEMMA DerivedCase ==
  ASSUME NEW v \in Versions, NEW n \in ToSet(CaseNames), NEW part \in CaseFiles \cup {"dir"}
  PROVE  /\ <<"case", n, part>> \in CasePaths
         /\ Derived(v)[<<"case", n, part>>] =
              IF n \in ToSet(Cases(v)) THEN CaseFile(n, Example(Baseline, v))[part] ELSE Absent
<1> DEFINE path == <<"case", n, part>>
<1>1. path \in CasePaths /\ path \in FixturePaths
  BY DEF CasePaths, FixturePaths
<1>2. path[1] = "case" /\ path[2] = n /\ path[3] = part /\ path # IndexPath
  BY DEF IndexPath
<1> HIDE DEF path
<1>3. Fixture(v, path) = IF n \in ToSet(Cases(v)) THEN CaseFile(n, Examples(v)[Baseline])[part] ELSE Absent
  BY <1>2 DEF Fixture
<1>4. Examples(v)[Baseline] = Example(Baseline, v)
  BY Members DEF Examples
<1> QED
  BY <1>1, <1>3, <1>4, DerivedIs DEF path

\* The pair of a vector, if the version generates it.
LEMMA DerivedVector ==
  ASSUME NEW v, NEW t \in ToSet(VectorNames), NEW part \in {"record", "sidecar"}
  PROVE  /\ <<"vector", t, part>> \in VectorPaths
         /\ Derived(v)[<<"vector", t, part>>] =
              IF t \in ToSet(Vectors(v)) THEN PairPart(VectorBytes(t, Examples(v)), part) ELSE Absent
<1> DEFINE path == <<"vector", t, part>>
<1>1. path \in VectorPaths /\ path \in FixturePaths
  BY DEF VectorPaths, FixturePaths
<1>2. path[1] = "vector" /\ path[2] = t /\ path[3] = part /\ path # IndexPath
  BY DEF IndexPath
<1> HIDE DEF path
<1>3. Fixture(v, path) =
        IF t \in ToSet(Vectors(v)) THEN PairPart(VectorBytes(t, Examples(v)), part) ELSE Absent
  BY <1>2 DEF Fixture
<1> QED
  BY <1>1, <1>3, DerivedIs DEF path

\* The index of the version.
LEMMA DerivedIndex ==
  ASSUME NEW v
  PROVE  IndexPath \in FixturePaths /\ Derived(v)[IndexPath] = Index(Vectors(v), Examples(v))
<1>1. IndexPath \in FixturePaths
  BY DEF FixturePaths
<1> QED
  BY <1>1, DerivedIs DEF Fixture

\* Vectors can be made of the examples of a version.
LEMMA ExamplesAreSources ==
  ASSUME NEW v \in Versions
  PROVE  Examples(v) \in Sources
<1>1. \A p \in ToSet(Positives) : Examples(v)[p] = Example(p, v) /\ Examples(v)[p] \in Records(p)
  BY DEF Examples, Records
<1>2. Examples(v) \in [ToSet(Positives) -> UNION {Records(p) : p \in ToSet(Positives)}]
  BY <1>1 DEF Examples
<1>3. Examples(v)[Baseline] # Torn
  BY <1>1, Members, ContentsAssumption
<1> QED
  BY <1>1, <1>2, <1>3 DEF Sources

(***************************************************************************)
(* What a tool that succeeds has done.                                     *)
(***************************************************************************)

Ended == tool # Idle /\ Upcoming = {} /\ task = Len(Tasks(tool))

\* It has executed all operations of all its tasks, and none was a failure.
LEMMA EndedIsWhole ==
  ASSUME TypeInv, EffectsInv, Ended, NEW j \in 1..Len(Tasks(tool))
  PROVE  /\ IsTask(Begun(j)) /\ Completes(Begun(j))
         /\ \A k \in DOMAIN Begun(j) : Begun(j)[k] \in Executed
<1>1. /\ tool \in Tools /\ version \in Versions /\ done \in Nat
      /\ task \in 1..Len(Tasks(tool)) /\ Len(Tasks(tool)) \in Nat /\ task = Len(Tasks(tool))
  BY TasksAreNumbered DEF TypeInv, Ended
<1>2. IsTask(Begun(j))
  BY <1>1, OperationsAreKnown
<1>3. done + 1 \notin DOMAIN Begun(task)
  BY DEF Ended, Upcoming, operations, Begun
<1>4. \A k \in DOMAIN Begun(j) : j < task \/ k <= done
  BY <1>1, <1>2, <1>3 DEF IsTask
<1>5. \A k \in DOMAIN Begun(j) : Begun(j)[k] \in Executed
  BY <1>1, <1>4, ExecutedIs
<1>6. \A k \in DOMAIN Begun(j) : ~ IsFail(Begun(j)[k])
  BY <1>1, <1>5 DEF EffectsInv, IsFail, Tools, Idle, Ended
<1> QED
  BY <1>2, <1>5, <1>6 DEF Completes

\* So what they wrote is there.
LEMMA EndedHasWritten ==
  ASSUME TypeInv, EffectsInv, Ended, NEW j \in 1..Len(Tasks(tool)), NEW k \in DOMAIN Begun(j),
         NEW path, NEW bytes, IsWrite(Begun(j)[k], path, bytes)
  PROVE  files[path] = bytes
<1>1. Begun(j)[k] \in Executed
  BY EndedIsWhole
<1> QED
  BY <1>1 DEF EffectsInv, IsWrite, Ended

PairTask(j, area, name, bytes) ==
  /\ Len(Begun(j)) = 2
  /\ \A k \in DOMAIN Begun(j) :
       IsFail(Begun(j)[k]) \/ WritesPair(Begun(j)[k], k, area, name, bytes)

\* A task that writes a pair has written both files.
LEMMA PairIsWritten ==
  ASSUME TypeInv, EffectsInv, Ended, NEW j \in 1..Len(Tasks(tool)), NEW area, NEW name, NEW bytes,
         PairTask(j, area, name, bytes), NEW part \in {"record", "sidecar"}
  PROVE  files[<<area, name, part>>] = PairPart(bytes, part)
<1>1. /\ 1 \in DOMAIN Begun(j) /\ 2 \in DOMAIN Begun(j)
      /\ ~ IsFail(Begun(j)[1]) /\ ~ IsFail(Begun(j)[2])
  BY EndedIsWhole DEF IsTask, Completes, PairTask
<1>2. /\ IsWrite(Begun(j)[1], <<area, name, "record">>, bytes)
      /\ IsWrite(Begun(j)[2], <<area, name, "sidecar">>, Sha256(bytes))
  BY <1>1 DEF WritesPair, PairTask
<1>3. files[<<area, name, "record">>] = bytes
  BY <1>1, <1>2, EndedHasWritten
<1>4. files[<<area, name, "sidecar">>] = Sha256(bytes)
  BY <1>1, <1>2, EndedHasWritten
<1> QED
  BY <1>3, <1>4 DEF PairPart

\* generate_success_fixtures leaves the positives as its sources derive them.
LEMMA SuccessDerives ==
  ASSUME TypeInv, EffectsInv, Ended, tool = "success"
  PROVE  AreDerived(PositivePaths) /\ \A p \in ToSet(Positives) : Canonical(Example(p, version))
<1>1. version \in Versions
  BY DEF TypeInv
<1>2. ASSUME NEW p \in ToSet(Positives)
      PROVE  /\ Canonical(Example(p, version))
             /\ \A part \in {"record", "sidecar"} :
                  files[<<"positive", p, part>>] = PairPart(Example(p, version), part)
  <2>1. PICK j \in 1..Len(Positives) : Positives[j] = p
    BY <1>1, <1>2, Members
  <2>2. j \in 1..Len(Tasks(tool))
    BY <1>1, SuccessLen
  <2>3. /\ \A k \in DOMAIN Begun(j) : \/ IsFail(Begun(j)[k])
                                      \/ WritesPair(Begun(j)[k], k, "positive", p, Example(p, version))
        /\ Completes(Begun(j)) => Len(Begun(j)) = 2 /\ Canonical(Example(p, version))
    BY <1>1, <2>1, <2>2, SuccessTask
  <2>4. Completes(Begun(j))
    BY <2>2, EndedIsWhole
  <2>5. PairTask(j, "positive", p, Example(p, version))
    BY <2>3, <2>4 DEF PairTask
  <2> QED
    BY <2>2, <2>3, <2>4, <2>5, PairIsWritten
<1>3. ASSUME NEW path \in PositivePaths
      PROVE  files[path] = Derived(version)[path]
  <2>1. PICK p \in ToSet(Positives), part \in {"record", "sidecar"} : path = <<"positive", p, part>>
    BY DEF PositivePaths
  <2> QED
    BY <1>2, <2>1, DerivedPositive
<1> QED
  BY <1>2, <1>3 DEF AreDerived

\* Every file of a case is made, but for the sidecar that a bare one does without.
LEMMA PartsCover ==
  ASSUME NEW n, NEW part \in CaseFiles \cup {"dir"}
  PROVE  \/ \E k \in 1..Len(CaseParts(n)) : CaseParts(n)[k] = part
         \/ /\ n \in Bare /\ part = "sidecar"
            /\ \A k \in 1..Len(CaseParts(n)) : CaseParts(n)[k] # part
<1>1. CASE n \in Bare
  <2>1. CaseParts(n) = <<"dir", "record", "meta">>
    BY <1>1 DEF CaseParts
  <2>2. /\ Len(CaseParts(n)) = 3 /\ CaseParts(n)[1] = "dir"
        /\ CaseParts(n)[2] = "record" /\ CaseParts(n)[3] = "meta"
    BY <2>1
  <2>3. \A k \in 1..3 : k = 1 \/ k = 2 \/ k = 3
    OBVIOUS
  <2> QED
    BY <1>1, <2>2, <2>3 DEF CaseFiles
<1>2. CASE n \notin Bare
  <2>1. CaseParts(n) = <<"dir", "record", "sidecar", "meta">>
    BY <1>2 DEF CaseParts
  <2>2. /\ Len(CaseParts(n)) = 4 /\ CaseParts(n)[1] = "dir" /\ CaseParts(n)[2] = "record"
        /\ CaseParts(n)[3] = "sidecar" /\ CaseParts(n)[4] = "meta"
    BY <2>1
  <2> QED
    BY <2>2 DEF CaseFiles
<1> QED
  BY <1>1, <1>2

\* The baseline of derived positives is that of the version.
LEMMA BaselineIs ==
  ASSUME version \in Versions, AreDerived(PositivePaths)
  PROVE  BaselineRecord(files) = Example(Baseline, version)
<1>1. Baseline \in ToSet(Positives)
  BY Members
<1>2. /\ <<"positive", Baseline, "record">> \in PositivePaths
      /\ Derived(version)[<<"positive", Baseline, "record">>] = PairPart(Example(Baseline, version), "record")
  BY <1>1, DerivedPositive
<1> QED
  BY <1>2 DEF AreDerived, BaselineRecord, PairPart

\* From derived positives, generate_negative_cases leaves the cases of its sources, and
\* none of another version.
LEMMA NegativeDerives ==
  ASSUME TypeInv, EffectsInv, Ended, tool = "negative", AreDerived(PositivePaths)
  PROVE  AreDerived(CasePaths) /\ AllAsExpected(Example(Baseline, version))
<1> DEFINE b == BaselineRecord(files)
<1>1. version \in Versions
  BY DEF TypeInv
<1>2. /\ Len(Tasks(tool)) = 2 + R + W /\ R \in Nat /\ W \in Nat
      /\ \A i \in 1..W : Begun(1 + R + i) = CaseOps(files, Cases(version)[i])
      /\ Begun(2 + R + W) = VerdictOps(files, version)
  BY <1>1, NegativeLen
<1>3. b = Example(Baseline, version)
  BY <1>1, BaselineIs
<1>4. AllAsExpected(b)
  <2>1. 2 + R + W \in 1..Len(Tasks(tool))
    BY <1>2
  <2>2. Completes(VerdictOps(files, version))
    BY <1>2, <2>1, EndedIsWhole
  <2> QED
    BY <2>2, VerdictTask
<1>5. task > 1 + R
  BY <1>2 DEF Ended
<1>6. ASSUME NEW n \in ToSet(CaseNames), NEW part \in CaseFiles \cup {"dir"}
      PROVE  files[<<"case", n, part>>] =
               IF n \in ToSet(Cases(version)) THEN CaseFile(n, b)[part] ELSE Absent
  <2>1. CASE n \notin ToSet(Cases(version))
    <3>1. \A i \in 1..W : Cases(version)[i] # n
      BY <1>1, <2>1, Members DEF W
    <3> QED
      BY <1>5, <2>1, <3>1, CaseSoFar DEF IsFile
  <2>2. CASE n \in ToSet(Cases(version))
    <3>1. PICK i \in 1..W : Cases(version)[i] = n
      BY <1>1, <2>2, Members DEF W
    <3>2. 1 + R + i \in 1..Len(Tasks(tool)) /\ Begun(1 + R + i) = CaseOps(files, n)
      BY <1>2, <3>1
    <3>3. Completes(CaseOps(files, n)) /\ IsTask(CaseOps(files, n))
      BY <3>2, EndedIsWhole
    <3>4. /\ \A k \in DOMAIN CaseOps(files, n) :
               IsFail(CaseOps(files, n)[k]) \/ WritesPart(CaseOps(files, n)[k], n, CaseParts(n)[k])
          /\ Len(CaseOps(files, n)) = Len(CaseParts(n))
      BY <3>3, CaseOpsAre DEF Completes
    <3>5. CASE \E k \in 1..Len(CaseParts(n)) : CaseParts(n)[k] = part
      <4>1. PICK k \in 1..Len(CaseParts(n)) : CaseParts(n)[k] = part
        BY <3>5
      <4>2. k \in DOMAIN Begun(1 + R + i)
        BY <3>2, <3>3, <3>4 DEF IsTask
      <4>3. IsWrite(Begun(1 + R + i)[k], <<"case", n, part>>, CaseFile(n, b)[part])
        BY <3>2, <3>3, <3>4, <4>1, <4>2 DEF Completes, WritesPart
      <4> QED
        BY <2>2, <3>2, <4>2, <4>3, EndedHasWritten
    <3>6. CASE /\ n \in Bare /\ part = "sidecar"
               /\ \A k \in 1..Len(CaseParts(n)) : CaseParts(n)[k] # part
      <4>1. files[<<"case", n, part>>] = Absent
        BY <1>5, <3>6, CaseSoFar DEF IsFile
      <4>2. CaseFile(n, b)[part] = Absent
        BY <3>6 DEF CaseFile, CaseFiles, CaseSidecar
      <4> QED
        BY <2>2, <4>1, <4>2
    <3> QED
      BY <3>5, <3>6, PartsCover
  <2> QED
    BY <2>1, <2>2
<1>7. ASSUME NEW path \in CasePaths
      PROVE  files[path] = Derived(version)[path]
  <2>1. PICK n \in ToSet(CaseNames), part \in CaseFiles \cup {"dir"} : path = <<"case", n, part>>
    BY DEF CasePaths
  <2> QED
    BY <1>1, <1>3, <1>6, <2>1, DerivedCase
<1> QED
  BY <1>3, <1>4, <1>7 DEF AreDerived

\* Only generate_test_vectors writes vectors, those of its version, from the records there are.
LEMMA WritesToVectors ==
  ASSUME version \in Versions, NEW j, NEW k, NEW w, Known(j, k, w), w.op = "write",
         NEW t, NEW part, w.path = <<"vector", t, part>>
  PROVE  /\ tool = "vectors" /\ \E i \in 1..X : Vectors(version)[i] = t /\ j = 1 + i
         /\ w.bytes = PairPart(VectorBytes(t, RecordsOf(files)), part)
<1>1. w.path[1] = "vector"
  OBVIOUS
<1>2. "vector" \in Areas(tool)
  BY <1>1, OperationPaths DEF Reaches
<1>3. tool = "vectors"
  BY <1>2 DEF Areas
<1>4. VectorWrite(j, k, w)
  <2>1. ~ IndexWrite(j, k, w)
    BY <1>1 DEF IndexWrite, IsWrite, IndexPath
  <2> QED
    BY <1>3, <2>1 DEF Known, PositiveWrite, CaseWrite, LogWrite, PackageWrite,
                      CaseRemoval, VectorRemoval, IsFail, IsUnlink
<1>5. PICK i \in 1..X :
        /\ j = 1 + i
        /\ WritesPair(w, k, "vector", Vectors(version)[i], VectorBytes(Vectors(version)[i], RecordsOf(files)))
  BY <1>4 DEF VectorWrite
<1> DEFINE u == Vectors(version)[i]
           bytes == VectorBytes(u, RecordsOf(files))
<1>6. \/ w.path = <<"vector", u, "record">> /\ w.bytes = bytes
      \/ w.path = <<"vector", u, "sidecar">> /\ w.bytes = Sha256(bytes)
  BY <1>5 DEF WritesPair, IsWrite
<1>7. u = t /\ w.bytes = PairPart(bytes, part)
  <2> HIDE DEF u, bytes
  <2>1. CASE w.path = <<"vector", u, "record">> /\ w.bytes = bytes
    <3>1. <<"vector", u, "record">> = <<"vector", t, part>>
      BY <2>1
    <3>2. u = t /\ part = "record"
      BY <3>1
    <3> QED
      BY <2>1, <3>2 DEF PairPart
  <2>2. CASE w.path = <<"vector", u, "sidecar">> /\ w.bytes = Sha256(bytes)
    <3>1. <<"vector", u, "sidecar">> = <<"vector", t, part>>
      BY <2>2
    <3>2. u = t /\ part = "sidecar"
      BY <3>1
    <3> QED
      BY <2>2, <3>2 DEF PairPart
  <2> QED
    BY <1>6, <2>1, <2>2
<1> QED
  BY <1>3, <1>5, <1>7

\* So is the index.
LEMMA WritesToIndex ==
  ASSUME version \in Versions, NEW j, NEW k, NEW w, Known(j, k, w), w.op = "write",
         w.path = IndexPath
  PROVE  tool = "vectors" /\ j = 2 + X /\ w.bytes = Index(Vectors(version), RecordsOf(files))
<1>1. w.path[1] = "index"
  BY DEF IndexPath
<1>2. "index" \in Areas(tool)
  BY <1>1, OperationPaths DEF Reaches
<1>3. tool = "vectors"
  BY <1>2 DEF Areas
<1>4. ~ VectorWrite(j, k, w)
  BY <1>1 DEF VectorWrite, WritesPair, IsWrite
<1>5. IndexWrite(j, k, w)
  BY <1>3, <1>4 DEF Known, PositiveWrite, CaseWrite, LogWrite, PackageWrite,
                    CaseRemoval, VectorRemoval, IsFail, IsUnlink
<1> QED
  BY <1>3, <1>5 DEF IndexWrite, IsWrite

\* Past its first task the running tool has removed all vectors, so a file of one is there
\* only as it has written it.
LEMMA VectorSoFar ==
  ASSUME TypeInv, EffectsInv, tool = "vectors", task > 1,
         NEW t \in ToSet(VectorNames), NEW part \in {"record", "sidecar"},
         IsFile(<<"vector", t, part>>)
  PROVE  /\ files[<<"vector", t, part>>] = PairPart(VectorBytes(t, RecordsOf(files)), part)
         /\ \E i \in 1..X : Vectors(version)[i] = t
<1> DEFINE path == <<"vector", t, part>>
<1>1. version \in Versions /\ tool # Idle /\ 1 \in 1..task /\ 1 < task
  BY DEF TypeInv, Idle
<1>2. Begun(1) = ClearOps(files)
  BY <1>1, VectorLen
<1>3. 1 \in DOMAIN Begun(1)
  BY <1>2, ClearTask DEF IsTask
<1>4. Begun(1)[1] \in Executed
  BY <1>1, <1>3, PastCompletes
<1>5. Begun(1)[1].op = "remove" /\ path \in Begun(1)[1].paths
  BY <1>2, ClearTask DEF IsUnlink, VectorPaths
<1>6. PICK j \in 1..task : \E k \in DOMAIN Begun(j) :
         LET w == Begun(j)[k]
         IN  /\ j < task \/ k <= done
             /\ Known(j, k, w)
             /\ w.op = "write" /\ w.path = path /\ files[path] = w.bytes
  BY <1>1, <1>4, <1>5, OnceRemoved
<1>7. PICK k \in DOMAIN Begun(j) :
         LET w == Begun(j)[k]
         IN  Known(j, k, w) /\ w.op = "write" /\ w.path = path /\ files[path] = w.bytes
  BY <1>6
<1> QED
  BY <1>1, <1>7, WritesToVectors

\* The records that vectors are built from, among derived positives.
LEMMA RecordsAre ==
  ASSUME AreDerived(PositivePaths)
  PROVE  RecordsOf(files) = Examples(version)
<1>1. ASSUME NEW p \in ToSet(Positives)
      PROVE  files[<<"positive", p, "record">>] = Example(p, version)
  BY <1>1, DerivedPositive DEF AreDerived, PairPart
<1> QED
  BY <1>1 DEF RecordsOf, Examples

\* From derived positives, generate_test_vectors leaves the vectors and the index of its
\* sources, and no vector of another version.
LEMMA VectorsDerive ==
  ASSUME TypeInv, EffectsInv, Ended, tool = "vectors", AreDerived(PositivePaths)
  PROVE  AreDerived(VectorPaths \cup {IndexPath})
<1>1. version \in Versions
  BY DEF TypeInv
<1>2. /\ Len(Tasks(tool)) = 2 + X /\ X \in Nat
      /\ Begun(1) = ClearOps(files)
      /\ \A i \in 1..X : Begun(1 + i) = VectorOps(files, Vectors(version)[i])
      /\ Begun(2 + X) = IndexOps(files, version)
  BY <1>1, VectorLen
<1>3. RecordsOf(files) = Examples(version)
  BY RecordsAre
<1>4. files[IndexPath] = Index(Vectors(version), Examples(version))
  <2>1. 2 + X \in 1..Len(Tasks(tool))
    BY <1>2
  <2>2. 1 \in DOMAIN Begun(2 + X)
    BY <1>2, IndexTask DEF IsTask
  <2>3. IsWrite(Begun(2 + X)[1], IndexPath, Index(Vectors(version), Examples(version)))
    BY <1>2, <1>3, IndexTask
  <2> QED
    BY <2>1, <2>2, <2>3, EndedHasWritten
<1>5. ASSUME NEW t \in ToSet(VectorNames), NEW part \in {"record", "sidecar"}
      PROVE  files[<<"vector", t, part>>] =
               IF t \in ToSet(Vectors(version)) THEN PairPart(VectorBytes(t, Examples(version)), part)
               ELSE Absent
  <2>1. CASE t \notin ToSet(Vectors(version))
    <3>1. \A i \in 1..X : Vectors(version)[i] # t
      BY <1>1, <2>1, Members DEF X
    <3>2. task > 1
      BY <1>2 DEF Ended
    <3> QED
      BY <2>1, <3>1, <3>2, VectorSoFar DEF IsFile
  <2>2. CASE t \in ToSet(Vectors(version))
    <3>1. PICK i \in 1..X : Vectors(version)[i] = t
      BY <1>1, <2>2, Members DEF X
    <3>2. 1 + i \in 1..Len(Tasks(tool)) /\ Begun(1 + i) = VectorOps(files, t)
      BY <1>2, <3>1
    <3>3. Completes(Begun(1 + i))
      BY <3>2, EndedIsWhole
    <3>4. PairTask(1 + i, "vector", t, VectorBytes(t, Examples(version)))
      BY <1>3, <3>2, <3>3, VectorTask DEF PairTask
    <3>5. files[<<"vector", t, part>>] = PairPart(VectorBytes(t, Examples(version)), part)
      BY <3>2, <3>4, PairIsWritten
    <3> QED
      BY <2>2, <3>5
  <2> QED
    BY <2>1, <2>2
<1>6. ASSUME NEW path \in VectorPaths
      PROVE  files[path] = Derived(version)[path]
  <2>1. PICK t \in ToSet(VectorNames), part \in {"record", "sidecar"} : path = <<"vector", t, part>>
    BY DEF VectorPaths
  <2> QED
    BY <1>5, <2>1, DerivedVector
<1> QED
  BY <1>4, <1>6, DerivedIndex DEF AreDerived

\* What generate_test_vectors writes after its first task is made of whole sources.
LEMMA SourcesAre ==
  ASSUME TypeInv, EffectsInv, PositivesInv, tool = "vectors", task > 1
  PROVE  RecordsOf(files) \in Sources
<1>1. version \in Versions /\ tool # Idle /\ 1 \in 1..task /\ 1 < task
  BY DEF TypeInv, Idle
<1>2. Begun(1) = ClearOps(files) /\ Completes(Begun(1))
  BY <1>1, VectorLen, PastCompletes
<1>3. Buildable(files) /\ Baseline \in ToSet(Positives)
  BY <1>1, <1>2, ClearTask, Members
<1>4. \A p \in ToSet(Positives) :
        RecordsOf(files)[p] = files[<<"positive", p, "record">>] /\ RecordsOf(files)[p] \in Records(p)
  BY <1>3 DEF Buildable, RecordsOf, PositivesInv
<1>5. RecordsOf(files) \in [ToSet(Positives) -> UNION {Records(p) : p \in ToSet(Positives)}]
  BY <1>4 DEF RecordsOf
<1>6. RecordsOf(files)[Baseline] # Torn
  BY <1>3, <1>4 DEF Buildable, BaselineRecord
<1> QED
  BY <1>4, <1>5, <1>6 DEF Sources

VectorsAt(src) ==
  \A t \in ToSet(VectorNames) :
    /\ files[<<"vector", t, "record">>] \in {VectorBytes(t, src), Absent, Torn}
    /\ files[<<"vector", t, "sidecar">>] \in {Sha256(VectorBytes(t, src)), Absent, Torn}

IndexKnown ==
  \/ files[IndexPath] \in {Absent, Torn}
  \/ \E v \in Versions, src \in Sources : files[IndexPath] = Index(Vectors(v), src)

\* Every step keeps the whole vectors those of one run.
LEMMA VectorsStay ==
  ASSUME TypeInv, EffectsInv, PositivesInv, VectorsInv, [Next]_vars
  PROVE  VectorsInv'
<1>1. PICK src \in Sources : VectorsAt(src)
  BY DEF VectorsInv, VectorsAt
<1>2. IndexKnown
  BY DEF VectorsInv, IndexKnown
<1>3. ASSUME VectorsAt(src)', IndexKnown'
      PROVE  VectorsInv'
  BY <1>3 DEF VectorsInv, VectorsAt, IndexKnown
<1>4. CASE UNCHANGED files
  BY <1>1, <1>2, <1>3, <1>4 DEF VectorsAt, IndexKnown
<1>5. ASSUME NEW q \in Paths, PutsOne(q)
      PROVE  VectorsInv'
  <2>1. /\ IndexPath \in Paths
        /\ \A t \in ToSet(VectorNames), part \in {"record", "sidecar"} : <<"vector", t, part>> \in Paths
    BY PathsAre
  <2>2. \A path \in Paths : path # q => files'[path] = files[path]
    BY <1>5 DEF PutsOne, Changes
  <2>3. CASE files'[q] \in {Absent, Torn}
    <3>1. VectorsAt(src)'
      BY <1>1, <2>1, <2>2, <2>3 DEF VectorsAt
    <3>2. IndexKnown'
      BY <1>2, <2>1, <2>2, <2>3 DEF IndexKnown
    <3> QED
      BY <1>3, <3>1, <3>2
  <2>4. ASSUME NEW o \in Upcoming, o.op = "write", o.path = q, files'[q] = o.bytes
        PROVE  VectorsInv'
    <3>1. Known(task, done + 1, o) /\ version \in Versions /\ task \in Nat
      BY UpcomingIs DEF TypeInv
    <3>2. ASSUME NEW u \in ToSet(VectorNames), NEW piece \in {"record", "sidecar"},
                 q = <<"vector", u, piece>>
          PROVE  VectorsInv'
      <4>1. PICK new : new = RecordsOf(files)
        OBVIOUS
      <4>2. /\ tool = "vectors" /\ \E i \in 1..X : task = 1 + i
            /\ o.bytes = PairPart(VectorBytes(u, new), piece)
        BY <2>4, <3>1, <3>2, <4>1, WritesToVectors
      <4>3. X \in Nat
        BY <3>1, <4>2, VectorLen
      <4>4. task > 1
        BY <4>2, <4>3
      <4>5. new \in Sources
        BY <4>1, <4>2, <4>4, SourcesAre
      <4>6. ASSUME NEW t \in ToSet(VectorNames), NEW part \in {"record", "sidecar"}
            PROVE  files'[<<"vector", t, part>>] \in {PairPart(VectorBytes(t, new), part), Absent}
        <5>1. CASE <<"vector", t, part>> = q
          <6>1. t = u /\ part = piece
            BY <3>2, <5>1
          <6> QED
            BY <2>4, <4>2, <5>1, <6>1
        <5>2. CASE <<"vector", t, part>> # q
          <6>1. files'[<<"vector", t, part>>] = files[<<"vector", t, part>>]
            BY <2>1, <2>2, <5>2
          <6>2. IsFile(<<"vector", t, part>>) =>
                  files[<<"vector", t, part>>] = PairPart(VectorBytes(t, new), part)
            BY <4>1, <4>2, <4>4, VectorSoFar
          <6> QED
            BY <6>1, <6>2 DEF IsFile
        <5> QED
          BY <5>1, <5>2
      <4>7. VectorsAt(new)'
        <5>1. ASSUME NEW t \in ToSet(VectorNames)
              PROVE  /\ files'[<<"vector", t, "record">>] \in {VectorBytes(t, new), Absent}
                     /\ files'[<<"vector", t, "sidecar">>] \in {Sha256(VectorBytes(t, new)), Absent}
          BY <4>6 DEF PairPart
        <5> QED
          BY <5>1 DEF VectorsAt
      <4>8. IndexPath # q
        BY <3>2 DEF IndexPath
      <4>9. IndexKnown'
        BY <1>2, <2>1, <2>2, <4>8 DEF IndexKnown
      <4> QED
        BY <4>5, <4>7, <4>9 DEF VectorsInv, VectorsAt, IndexKnown
    <3>3. ASSUME \A t \in ToSet(VectorNames), part \in {"record", "sidecar"} : q # <<"vector", t, part>>
          PROVE  VectorsInv'
      <4>1. VectorsAt(src)'
        <5>1. ASSUME NEW t \in ToSet(VectorNames)
              PROVE  /\ files'[<<"vector", t, "record">>] = files[<<"vector", t, "record">>]
                     /\ files'[<<"vector", t, "sidecar">>] = files[<<"vector", t, "sidecar">>]
          BY <2>1, <2>2, <3>3
        <5> QED
          BY <1>1, <5>1 DEF VectorsAt
      <4>2. CASE q # IndexPath
        <5>1. IndexKnown'
          BY <1>2, <2>1, <2>2, <4>2 DEF IndexKnown
        <5> QED
          BY <1>3, <4>1, <5>1
      <4>3. CASE q = IndexPath
        <5>1. /\ tool = "vectors" /\ task = 2 + X
              /\ o.bytes = Index(Vectors(version), RecordsOf(files))
          BY <2>4, <3>1, <4>3, WritesToIndex
        <5>2. X \in Nat
          BY <3>1, <5>1, VectorLen
        <5>3. RecordsOf(files) \in Sources
          BY <5>1, <5>2, SourcesAre
        <5>4. IndexKnown'
          BY <2>4, <3>1, <4>3, <5>1, <5>3 DEF IndexKnown
        <5> QED
          BY <1>3, <4>1, <5>4
      <4> QED
        BY <4>2, <4>3
    <3> QED
      BY <3>2, <3>3
  <2> QED
    BY <1>5, <2>3, <2>4 DEF PutsOne
<1> QED
  BY <1>4, <1>5, OneFile DEF vars

\* An audit that succeeds leaves three logs that say so, about the fixtures as they are.
LEMMA AuditReports ==
  ASSUME TypeInv, EffectsInv, LogsInv, Ended, tool = "audit"
  PROVE  current = Logs /\ \A l \in Logs : files[l] = <<"PASS">>
<1>1. 1 \in 1..Len(Tasks(tool)) /\ Begun(1) = AuditOps
  BY SingleTask
<1>2. Completes(AuditOps) /\ IsTask(AuditOps)
  BY <1>1, EndedIsWhole
<1> DEFINE result == IF AuditFails THEN <<"FAIL">> ELSE <<"PASS">>
<1>3. /\ \A k \in DOMAIN AuditOps :
           IsFail(AuditOps[k]) \/ (k \in 1..3 /\ IsWrite(AuditOps[k], LogAt(k), result))
      /\ Len(AuditOps) = 3 /\ result = <<"PASS">>
  BY <1>2, AuditTask
<1>4. ASSUME NEW k \in 1..3
      PROVE  files[LogAt(k)] = <<"PASS">> /\ LogAt(k) \in current
  <2>1. k \in DOMAIN Begun(1)
    BY <1>1, <1>2, <1>3 DEF IsTask
  <2>2. IsWrite(Begun(1)[k], LogAt(k), <<"PASS">>)
    BY <1>1, <1>2, <1>3, <2>1 DEF Completes
  <2>3. Begun(1)[k] \in Executed
    BY <1>1, <2>1, EndedIsWhole
  <2>4. files[LogAt(k)] = <<"PASS">>
    BY <1>1, <2>1, <2>2, EndedHasWritten
  <2> QED
    BY <2>2, <2>3, <2>4 DEF LogsInv, IsWrite
<1>5. LogAt(1) = HashLog /\ LogAt(2) = ReplayLog /\ LogAt(3) = AuditLog
  BY DEF LogAt
<1> QED
  BY <1>4, <1>5 DEF Logs, LogsInv

(***************************************************************************)
(* The workflow, tool by tool.                                             *)
(***************************************************************************)

\* The order of the workflow.
LEMMA WorkflowIs ==
  /\ Len(Workflow) = 6
  /\ Workflow[1] = "success" /\ Workflow[2] = "negative" /\ Workflow[3] = "vectors"
  /\ Workflow[4] = "hashes" /\ Workflow[5] = "audit" /\ Workflow[6] = "build"
BY DEF Workflow

\* Ladder depends on the tree and the version alone.
LEMMA SameLadder ==
  ASSUME NEW n, Ladder(n), UNCHANGED <<version, files, current>>
  PROVE  Ladder(n)'
BY DEF Ladder, AreDerived

\* Before the first tool nothing is asked of the tree.
LEMMA FirstRung == Ladder(0)
BY DEF Ladder

\* A path of an area that the step does not reach is as derived as before.
LEMMA StaysDerived ==
  ASSUME NEW A, Keeps(A), version' = version
  PROVE  /\ "positive" \notin A => (AreDerived(PositivePaths) => AreDerived(PositivePaths)')
         /\ "case" \notin A => (AreDerived(CasePaths) => AreDerived(CasePaths)')
         /\ "vector" \notin A /\ "index" \notin A =>
              (AreDerived(VectorPaths \cup {IndexPath}) => AreDerived(VectorPaths \cup {IndexPath})')
         /\ "report" \notin A => \A l \in Logs : files'[l] = files[l]
<1>1. PositivePaths \subseteq Paths /\ CasePaths \subseteq Paths /\ VectorPaths \subseteq Paths
      /\ IndexPath \in Paths /\ Logs \subseteq Paths
  BY DEF Paths, FixturePaths
<1>2. "positive" \notin A => (AreDerived(PositivePaths) => AreDerived(PositivePaths)')
  BY <1>1, PathAreas DEF AreDerived, Keeps
<1>3. "case" \notin A => (AreDerived(CasePaths) => AreDerived(CasePaths)')
  BY <1>1, PathAreas DEF AreDerived, Keeps
<1>4. "vector" \notin A /\ "index" \notin A =>
        (AreDerived(VectorPaths \cup {IndexPath}) => AreDerived(VectorPaths \cup {IndexPath})')
  BY <1>1, PathAreas DEF AreDerived, Keeps
<1>5. "report" \notin A => \A l \in Logs : files'[l] = files[l]
  BY <1>1, PathAreas DEF Keeps
<1> QED
  BY <1>2, <1>3, <1>4, <1>5

\* A tool that runs at its place in the workflow keeps what those before it have left.
LEMMA FileStepKeepsLadder ==
  ASSUME TypeInv, LadderInv, OnLadder, NEW o \in Upcoming, WriteFile(o) \/ RemoveFile(o)
  PROVE  Ladder(stage)'
<1>1. /\ version' = version /\ stage' = stage /\ Keeps(Areas(tool))
      /\ tool \in Tools \ {"hashes"}
      /\ tool = "build" => current' = current
  BY FileStep
<1>2. stage \in 0..6 /\ Ladder(stage)
  BY WorkflowIs DEF TypeInv, LadderInv
<1>3. CASE tool = "build"
  <2>1. Keeps({"package"}) /\ current' = current
    BY <1>1, <1>3 DEF Areas
  <2>2. /\ AreDerived(PositivePaths) => AreDerived(PositivePaths)'
        /\ AreDerived(CasePaths) => AreDerived(CasePaths)'
        /\ AreDerived(VectorPaths \cup {IndexPath}) => AreDerived(VectorPaths \cup {IndexPath})'
        /\ \A l \in Logs : files'[l] = files[l]
    BY <1>1, <2>1, StaysDerived
  <2> QED
    BY <1>1, <1>2, <2>1, <2>2 DEF Ladder
<1>4. CASE stage = 0
  BY <1>1, <1>4 DEF Ladder
<1>5. CASE stage = 1 /\ tool = "negative"
  <2>1. Keeps({"case"})
    BY <1>1, <1>5 DEF Areas
  <2>2. AreDerived(PositivePaths) => AreDerived(PositivePaths)'
    BY <1>1, <2>1, StaysDerived
  <2> QED
    BY <1>1, <1>2, <1>5, <2>2 DEF Ladder
<1>6. CASE stage = 2 /\ tool = "vectors"
  <2>1. Keeps({"vector", "index"})
    BY <1>1, <1>6 DEF Areas
  <2>2. /\ AreDerived(PositivePaths) => AreDerived(PositivePaths)'
        /\ AreDerived(CasePaths) => AreDerived(CasePaths)'
    BY <1>1, <2>1, StaysDerived
  <2> QED
    BY <1>1, <1>2, <1>6, <2>2 DEF Ladder
<1>7. CASE stage = 4 /\ tool = "audit"
  <2>1. Keeps({"report"})
    BY <1>1, <1>7 DEF Areas
  <2>2. /\ AreDerived(PositivePaths) => AreDerived(PositivePaths)'
        /\ AreDerived(CasePaths) => AreDerived(CasePaths)'
        /\ AreDerived(VectorPaths \cup {IndexPath}) => AreDerived(VectorPaths \cup {IndexPath})'
    BY <1>1, <2>1, StaysDerived
  <2> QED
    BY <1>1, <1>2, <1>7, <2>2 DEF Ladder
<1>8. \/ tool = "build" \/ stage = 0 \/ (stage = 1 /\ tool = "negative")
      \/ (stage = 2 /\ tool = "vectors") \/ (stage = 4 /\ tool = "audit")
  <2>1. tool # Idle
    BY <1>1 DEF Tools, Idle
  <2>2. CASE stage < 6 /\ tool = Workflow[stage + 1]
    <3>1. stage \in {0, 1, 2, 3, 4, 5}
      BY <1>2, <2>2
    <3> QED
      BY <1>1, <2>2, <3>1, WorkflowIs
  <2> QED
    BY <2>1, <2>2, WorkflowIs DEF OnLadder
<1> QED
  BY <1>3, <1>4, <1>5, <1>6, <1>7, <1>8

\* The tool that succeeds at its place adds its rung.
LEMMA FinishClimbs ==
  ASSUME TypeInv, EffectsInv, LogsInv, LadderInv, Finish
  PROVE  LadderInv'
<1>1. Ended /\ UNCHANGED <<version, files, current>> /\ stage \in 0..6 /\ version \in Versions
  BY WorkflowIs DEF Finish, Ended, TypeInv
<1>2. stage' = IF stage < 6 /\ tool = Workflow[stage + 1] THEN stage + 1
               ELSE IF tool = "success" THEN 1 ELSE 0
  BY WorkflowIs DEF Finish, End
<1>3. tool = "success" => Ladder(1)
  BY <1>1, SuccessDerives DEF Ladder
<1>4. CASE stage < 6 /\ tool = Workflow[stage + 1]
  <2>1. stage' = stage + 1 /\ Ladder(stage)
    BY <1>2, <1>4, WorkflowIs DEF LadderInv, OnLadder
  <2>2. ASSUME stage = 0 PROVE Ladder(stage + 1)
    BY <1>3, <1>4, <2>2, WorkflowIs
  <2>3. ASSUME stage = 1 PROVE Ladder(stage + 1)
    <3>1. /\ tool = "negative" /\ AreDerived(PositivePaths)
          /\ \A p \in ToSet(Positives) : Canonical(Example(p, version))
      BY <1>4, <2>1, <2>3, WorkflowIs DEF Ladder
    <3>2. AreDerived(CasePaths) /\ AllAsExpected(Example(Baseline, version))
      BY <1>1, <3>1, NegativeDerives
    <3> QED
      BY <2>3, <3>1, <3>2 DEF Ladder, AllAsExpected
  <2>4. ASSUME stage = 2 PROVE Ladder(stage + 1)
    <3>1. tool = "vectors" /\ AreDerived(PositivePaths)
      BY <1>4, <2>1, <2>4, WorkflowIs DEF Ladder
    <3>2. AreDerived(VectorPaths \cup {IndexPath})
      BY <1>1, <3>1, VectorsDerive
    <3> QED
      BY <2>1, <2>4, <3>2 DEF Ladder
  <2>5. ASSUME stage = 3 PROVE Ladder(stage + 1)
    BY <2>1, <2>5 DEF Ladder
  <2>6. ASSUME stage = 4 PROVE Ladder(stage + 1)
    <3>1. tool = "audit"
      BY <1>4, <2>6, WorkflowIs
    <3>2. current = Logs /\ \A l \in Logs : files[l] = <<"PASS">>
      BY <1>1, <3>1, AuditReports
    <3> QED
      BY <2>1, <2>6, <3>2 DEF Ladder
  <2>7. ASSUME stage = 5 PROVE Ladder(stage + 1)
    BY <2>1, <2>7 DEF Ladder
  <2>8. Ladder(stage + 1)
    BY <1>1, <1>4, <2>2, <2>3, <2>4, <2>5, <2>6, <2>7
  <2> QED
    BY <1>1, <2>1, <2>8, SameLadder DEF LadderInv
<1>5. CASE ~ (stage < 6 /\ tool = Workflow[stage + 1]) /\ tool = "success"
  BY <1>1, <1>2, <1>3, <1>5, SameLadder DEF LadderInv
<1>6. CASE ~ (stage < 6 /\ tool = Workflow[stage + 1]) /\ tool # "success"
  BY <1>1, <1>2, <1>6, FirstRung, SameLadder DEF LadderInv
<1> QED
  BY <1>4, <1>5, <1>6

\* Every step keeps what the succeeded part of the workflow has left.
LEMMA LadderStays ==
  ASSUME TypeInv, EffectsInv, LogsInv, LadderInv, [Next]_vars
  PROVE  LadderInv'
<1>1. ASSUME stage' = 0
      PROVE  LadderInv'
  <2>1. Ladder(0)'
    BY DEF Ladder
  <2> QED
    BY <1>1, <2>1 DEF LadderInv
<1>2. ASSUME UNCHANGED <<version, files, current, stage>>, tool = Idle \/ tool' = tool
      PROVE  LadderInv'
  <2>1. OnLadder' => OnLadder
    BY <1>2 DEF OnLadder
  <2> QED
    BY <1>2, <2>1, SameLadder DEF LadderInv
<1>3. ASSUME NEW o \in Upcoming, WriteFile(o) \/ RemoveFile(o)
      PROVE  LadderInv'
  <2>1. stage' = stage /\ tool' = tool
    BY <1>3, FileStep
  <2>2. OnLadder' => OnLadder
    BY <2>1 DEF OnLadder
  <2> QED
    BY <1>3, <2>2, FileStepKeepsLadder DEF LadderInv
<1>4. ASSUME NEW o \in Upcoming, EndRemoval(o)
      PROVE  LadderInv'
  BY <1>2, <1>4 DEF EndRemoval
<1>5. CASE UNCHANGED vars
  BY <1>2, <1>5 DEF vars
<1>6. ASSUME NEW t \in Tools, Launch(t)
      PROVE  LadderInv'
  BY <1>2, <1>6 DEF Launch
<1>7. CASE NextTask
  BY <1>2, <1>7 DEF NextTask
<1>8. ASSUME NEW o \in Upcoming, FailTool(o)
      PROVE  LadderInv'
  BY <1>1, <1>8 DEF FailTool, End
<1>9. CASE Kill \/ Edit \/ Damage
  BY <1>1, <1>9 DEF Kill, Edit, Damage, End
<1> QED
  BY <1>3, <1>4, <1>5, <1>6, <1>7, <1>8, <1>9, FinishClimbs DEF Next

(***************************************************************************)
(* The package.                                                            *)
(***************************************************************************)

\* The four areas are all of the fixtures.
LEMMA AllAreDerived ==
  ASSUME AreDerived(PositivePaths), AreDerived(CasePaths), AreDerived(VectorPaths \cup {IndexPath})
  PROVE  FixturesDerived
BY DEF AreDerived, FixturesDerived, FixturePaths

\* What build_audit_package puts into the archive after an audit of the derived tree.
LEMMA PackageOfLadder ==
  ASSUME NEW n \in 5..6, Ladder(n)
  PROVE  BuildTaskBytes = Package({<<"PASS">>}, TRUE, TRUE)
<1>1. current = Logs /\ \A l \in Logs : files[l] = <<"PASS">>
  BY DEF Ladder
<1>2. FixturesDerived
  BY AllAreDerived DEF Ladder
<1>3. {files[l] : l \in Logs} = {<<"PASS">>}
  <2>1. HashLog \in Logs
    BY DEF Logs
  <2> QED
    BY <1>1, <2>1
<1>4. (current = Logs) = TRUE /\ FixturesDerived = TRUE
  BY <1>1, <1>2
<1> QED
  BY <1>3, <1>4 DEF BuildTaskBytes

\* Only the builder writes the package.
LEMMA OnlyBuildPacks ==
  ASSUME TypeInv, NEW o \in Upcoming, WriteFile(o) \/ RemoveFile(o)
  PROVE  \/ files'[PackagePath] = files[PackagePath]
         \/ tool = "build" /\ files'[PackagePath] = BuildTaskBytes
<1>1. Keeps(Areas(tool)) /\ tool \in Tools
  BY FileStep
<1>2. PackagePath \in Paths /\ PackagePath[1] = "package"
  BY PathsAre, PathAreas
<1>3. CASE tool # "build"
  <2>1. "package" \notin Areas(tool)
    BY <1>3 DEF Areas
  <2> QED
    BY <1>1, <1>2, <2>1 DEF Keeps
<1>4. CASE tool = "build"
  <2>1. Known(task, done + 1, o) /\ DOMAIN files = Paths
    BY UpcomingIs DEF TypeInv
  <2>2. IsFail(o) \/ PackageWrite(task, done + 1, o)
    BY <1>4, <2>1 DEF Known, PositiveWrite, CaseWrite, VectorWrite, IndexWrite, LogWrite,
                      CaseRemoval, VectorRemoval
  <2>3. o.path = PackagePath /\ o.bytes = BuildTaskBytes /\ Put(o.path, o.bytes)
    BY <2>2 DEF IsFail, PackageWrite, IsWrite, WriteFile, RemoveFile
  <2> QED
    BY <1>2, <1>4, <2>1, <2>3, PutIs
<1> QED
  BY <1>3, <1>4

\* Every step keeps the package of the workflow a report of its tree.
LEMMA PackageStays ==
  ASSUME TypeInv, EffectsInv, LogsInv, LadderInv, PackageReportsItsTree, [Next]_vars
  PROVE  PackageReportsItsTree'
<1>1. ASSUME stage' = 0 \/ stage' = 1
      PROVE  PackageReportsItsTree'
  BY <1>1, WorkflowIs DEF PackageReportsItsTree
<1>2. ASSUME stage' = stage, files'[PackagePath] = files[PackagePath]
      PROVE  PackageReportsItsTree'
  BY <1>2 DEF PackageReportsItsTree
<1>3. ASSUME NEW o \in Upcoming, WriteFile(o) \/ RemoveFile(o)
      PROVE  PackageReportsItsTree'
  <2>1. stage' = stage
    BY <1>3, FileStep
  <2>2. ASSUME stage = 6, tool = "build"
        PROVE  BuildTaskBytes = Package({<<"PASS">>}, TRUE, TRUE)
    BY <2>2, PackageOfLadder DEF LadderInv, OnLadder
  <2> QED
    BY <1>2, <1>3, <2>1, <2>2, OnlyBuildPacks, WorkflowIs DEF PackageReportsItsTree
<1>4. CASE Finish
  <2>1. files' = files /\ Ended /\ stage \in 0..6
    BY <1>4, WorkflowIs DEF Finish, Ended, TypeInv
  <2>2. stage' = IF stage < 6 /\ tool = Workflow[stage + 1] THEN stage + 1
                 ELSE IF tool = "success" THEN 1 ELSE 0
    BY <1>4, WorkflowIs DEF Finish, End
  <2>3. ASSUME stage' = 6
        PROVE  files[PackagePath] = Package({<<"PASS">>}, TRUE, TRUE)
    <3>1. stage = 5 /\ tool = "build" /\ Ladder(5)
      BY <2>1, <2>2, <2>3, WorkflowIs DEF LadderInv, OnLadder
    <3>2. 1 \in 1..Len(Tasks(tool)) /\ Begun(1) = BuildOps
      BY <3>1, SingleTask
    <3>3. 1 \in DOMAIN Begun(1) /\ IsWrite(Begun(1)[1], PackagePath, BuildTaskBytes)
      BY <3>2, BuildTask DEF IsTask
    <3>4. files[PackagePath] = BuildTaskBytes
      BY <2>1, <3>2, <3>3, EndedHasWritten
    <3> QED
      BY <3>1, <3>4, PackageOfLadder
  <2> QED
    BY <2>1, <2>3, WorkflowIs DEF PackageReportsItsTree
<1>5. ASSUME NEW o \in Upcoming, EndRemoval(o)
      PROVE  PackageReportsItsTree'
  BY <1>2, <1>5 DEF EndRemoval
<1>6. CASE UNCHANGED vars
  BY <1>2, <1>6 DEF vars
<1>7. ASSUME NEW t \in Tools, Launch(t)
      PROVE  PackageReportsItsTree'
  BY <1>2, <1>7 DEF Launch
<1>8. CASE NextTask
  BY <1>2, <1>8 DEF NextTask
<1>9. ASSUME NEW o \in Upcoming, FailTool(o)
      PROVE  PackageReportsItsTree'
  BY <1>1, <1>9 DEF FailTool, End
<1>10. CASE Kill \/ Edit \/ Damage
  BY <1>1, <1>10 DEF Kill, Edit, Damage, End
<1> QED
  BY <1>3, <1>4, <1>5, <1>6, <1>7, <1>8, <1>9, <1>10 DEF Next

(***************************************************************************)
(* The invariant, and what follows from it.                                *)
(***************************************************************************)

\* The initial tree, which is derived, satisfies the invariant.
LEMMA InitIsWhole ==
  ASSUME Init
  PROVE  PackageInv
<1>1. /\ version \in Versions /\ tool = Idle /\ stage = 0 /\ current = {}
      /\ task = 0 /\ done = 0 /\ damages = 0
      /\ files = [p \in Paths |-> IF p \in FixturePaths THEN Derived(version)[p] ELSE Absent]
  BY DEF Init
<1>2. DOMAIN files = Paths /\ \A p \in FixturePaths : files[p] = Derived(version)[p]
  BY <1>1 DEF Paths
<1>3. TypeInv
  <2>1. files[IndexPath] = Index(Vectors(version), Examples(version))
    BY <1>2, DerivedIndex
  <2>2. DOMAIN Indexed \subseteq ToSet(VectorNames)
    BY <1>1, <2>1, IndexIs DEF Indexed
  <2> QED
    BY <1>1, <1>2, <2>2, WorkflowIs DEF TypeInv
<1>4. PositivesInv /\ VectorsInv
  <2>1. ASSUME NEW p \in ToSet(Positives)
        PROVE  files[<<"positive", p, "record">>] \in Records(p)
    <3>1. files[<<"positive", p, "record">>] = Example(p, version)
      BY <1>2, DerivedPositive DEF FixturePaths, PairPart
    <3> QED
      BY <1>1, <3>1 DEF Records
  <2>2. Examples(version) \in Sources
    BY <1>1, ExamplesAreSources
  <2>3. files[IndexPath] = Index(Vectors(version), Examples(version))
    BY <1>2, DerivedIndex
  <2>4. VectorsAt(Examples(version))
    BY <1>2, DerivedVector DEF VectorsAt, FixturePaths, PairPart
  <2> QED
    BY <1>1, <2>1, <2>2, <2>3, <2>4 DEF PositivesInv, VectorsInv, VectorsAt
<1>5. ASSUME NEW n \in ToSet(CaseNames)
      PROVE  Whole(n)
  <2>1. \A part \in CaseFiles :
          files[<<"case", n, part>>] =
            IF n \in ToSet(Cases(version)) THEN CaseFile(n, Example(Baseline, version))[part] ELSE Absent
    BY <1>1, <1>2, DerivedCase DEF FixturePaths
  <2>2. "meta" \in CaseFiles /\ Example(Baseline, version) \in Baselines
    BY <1>1 DEF CaseFiles, Baselines, Records
  <2> QED
    BY <2>1, <2>2 DEF Whole
<1>6. EffectsInv /\ LogsInv /\ LadderInv /\ PackageReportsItsTree
  BY <1>1, WorkflowIs, FirstRung DEF EffectsInv, LogsInv, LadderInv, PackageReportsItsTree, Idle
<1> QED
  BY <1>3, <1>4, <1>5, <1>6 DEF PackageInv, WholeInv, Whole

\* The invariant of the package tree holds whatever the tools are run, killed, and fed
\* with: versions, tables, faults and edits of any number.
THEOREM PackageInvariant == Spec => []PackageInv
<1>1. Init => PackageInv
  BY InitIsWhole
<1>2. PackageInv /\ [Next]_vars => PackageInv'
  <2> SUFFICES ASSUME PackageInv, [Next]_vars
               PROVE  PackageInv'
    OBVIOUS
  <2>1. /\ TypeInv /\ EffectsInv /\ PositivesInv /\ WholeInv /\ VectorsInv
        /\ LogsInv /\ LadderInv /\ PackageReportsItsTree
    BY DEF PackageInv
  <2>2. TypeInv' /\ EffectsInv'
    BY <2>1, TypesStay, EffectsStay
  <2>3. PositivesInv' /\ WholeInv' /\ VectorsInv'
    BY <2>1, PositivesStay, WholeStays, VectorsStay
  <2>4. LogsInv' /\ LadderInv' /\ PackageReportsItsTree'
    BY <2>1, LogsStay, LadderStays, PackageStays
  <2> QED
    BY <2>2, <2>3, <2>4 DEF PackageInv
<1> QED
  BY <1>1, <1>2, PTL DEF Spec

\* The tree after the three generators have succeeded in order.
Regenerated ==
  /\ version \in Versions
  /\ AreDerived(PositivePaths) /\ AreDerived(CasePaths) /\ AreDerived(VectorPaths \cup {IndexPath})
  /\ \A p \in ToSet(Positives) : Canonical(Example(p, version))
  /\ AllAsExpected(Example(Baseline, version))

\* The ladder after three tools.
LEMMA TopOfLadder ==
  ASSUME PackageInv, tool = Idle, stage >= 3
  PROVE  Regenerated
<1>1. stage \in 0..6 /\ Ladder(stage) /\ version \in Versions
  BY WorkflowIs DEF PackageInv, TypeInv, LadderInv, OnLadder
<1> QED
  BY <1>1 DEF Ladder, Regenerated, AllAsExpected

\* Once the generators have succeeded in the order of the workflow, nothing of what was
\* killed, damaged or left from another version remains in the tree.
THEOREM WorkflowHeals == Spec => []RegenerationHeals
<1>1. PackageInv => RegenerationHeals
  BY TopOfLadder, AllAreDerived DEF RegenerationHeals, Regenerated
<1> QED
  BY <1>1, PackageInvariant, PTL

\* A case is judged only if no file of it is missing, torn or of another baseline.
THEOREM JudgedCaseIsWhole == Spec => []SweptCaseIsWhole
<1>1. ASSUME PackageInv, tool = Idle, damages = 0, NEW n \in SweptCases, CaseReadable(n)
      PROVE  \E b \in Baselines : \A part \in CaseFiles :
               files[<<"case", n, part>>] = CaseFile(n, b)[part]
  <2>1. n \in ToSet(CaseNames)
    BY DEF SweptCases
  <2>2. /\ files[<<"case", n, "meta">>] \notin {Absent, Torn}
        /\ files[<<"case", n, "record">>] # Absent
        /\ n \notin Bare => files[<<"case", n, "sidecar">>] # Absent
    BY <1>1 DEF CaseReadable, IsFile
  <2>3. PICK b \in Baselines : \A part \in CaseFiles :
                files[<<"case", n, part>>] \in {CaseFile(n, b)[part], Absent}
    BY <1>1, <2>1, <2>2 DEF PackageInv, WholeInv
  <2>4. n \in Bare => CaseFile(n, b)["sidecar"] = Absent
    BY DEF CaseFile, CaseFiles, CaseSidecar
  <2>5. \A part \in CaseFiles : part = "record" \/ part = "sidecar" \/ part = "meta"
    BY DEF CaseFiles
  <2>6. \A part \in CaseFiles : files[<<"case", n, part>>] = CaseFile(n, b)[part]
    BY <2>2, <2>3, <2>4, <2>5
  <2> QED
    BY <2>6
<1>2. PackageInv => SweptCaseIsWhole
  BY <1>1 DEF SweptCaseIsWhole
<1> QED
  BY <1>2, PackageInvariant, PTL

\* verify_hashes passes only on an index with all the vectors it names, and there are
\* positives of which the index and every vector on disk, named or not, is made.
THEOREM PassedHashesAreOneSource == Spec => []HashPassIsOneSource
<1>1. ASSUME PackageInv, HashesPass
      PROVE  \E v \in Versions, src \in Sources :
               /\ files[IndexPath] = Index(Vectors(v), src)
               /\ \A t \in ToSet(Vectors(v)) : IsFile(<<"vector", t, "record">>)
               /\ \A t \in ToSet(VectorNames) :
                    IsFile(<<"vector", t, "record">>) =>
                      files[<<"vector", t, "record">>] = VectorBytes(t, src)
  <2>1. PICK src \in Sources : VectorsAt(src)
    BY <1>1 DEF PackageInv, VectorsInv, VectorsAt
  <2>2. PICK v \in Versions, old \in Sources : files[IndexPath] = Index(Vectors(v), old)
    BY <1>1 DEF PackageInv, VectorsInv, HashesPass, IndexReadable
  <2>3. ASSUME NEW t \in ToSet(VectorNames), IsFile(<<"vector", t, "record">>)
        PROVE  files[<<"vector", t, "record">>] = VectorBytes(t, src)
    <3>1. ValidPair(files, "vector", t)
      <4>1. "vector" \in {"positive", "vector"}
            /\ t \in ToSet(IF "vector" = "positive" THEN Positives ELSE VectorNames)
        OBVIOUS
      <4> QED
        BY <1>1, <2>3, <4>1 DEF HashesPass
    <3>2. files[<<"vector", t, "sidecar">>] = Sha256(files[<<"vector", t, "record">>])
      BY <3>1 DEF ValidPair
    <3>3. /\ files[<<"vector", t, "record">>] \in {VectorBytes(t, src), Torn}
          /\ files[<<"vector", t, "sidecar">>] \in {Sha256(VectorBytes(t, src)), Absent, Torn}
      BY <2>1, <2>3 DEF VectorsAt, IsFile
    <3>4. CASE files[<<"vector", t, "record">>] = Torn
      <4>1. Sha256(Torn) = Sha256(VectorBytes(t, src))
        BY <3>2, <3>3, <3>4, ContentsAssumption
      <4> QED
        BY <3>4, <4>1 DEF Sha256
    <3> QED
      BY <3>3, <3>4
  <2>4. ASSUME NEW t \in ToSet(Vectors(v))
        PROVE  /\ IsFile(<<"vector", t, "record">>)
               /\ VectorBytes(t, src) = VectorBytes(t, old)
    <3>1. /\ t \in ToSet(VectorNames) /\ t \in DOMAIN Indexed
          /\ Indexed[t] = Sha256(VectorBytes(t, old))
      BY <2>2, IndexIs DEF Indexed
    <3>2. Sha256(files[<<"vector", t, "record">>]) = Sha256(VectorBytes(t, old))
      BY <1>1, <3>1 DEF HashesPass
    <3>3. files[<<"vector", t, "record">>] = VectorBytes(t, old)
      BY <3>2 DEF Sha256
    <3>4. IsFile(<<"vector", t, "record">>)
      BY <3>1, <3>3, ContentsAssumption DEF IsFile
    <3> QED
      BY <2>3, <3>1, <3>3, <3>4
  <2>5. Index(Vectors(v), src) = Index(Vectors(v), old)
    BY <2>4 DEF Index
  <2> QED
    BY <2>2, <2>3, <2>4, <2>5
<1>2. PackageInv => HashPassIsOneSource
  BY <1>1 DEF HashPassIsOneSource
<1> QED
  BY <1>2, PackageInvariant, PTL

\* The package that the workflow builds speaks of its own tree.
THEOREM PackageIsOfItsTree == Spec => []PackageReportsItsTree
<1>1. PackageInv => PackageReportsItsTree
  BY DEF PackageInv
<1> QED
  BY <1>1, PackageInvariant, PTL

\* Every positive of a regenerated tree is valid.
LEMMA RegeneratedPositives ==
  ASSUME Regenerated, NEW p \in ToSet(Positives)
  PROVE  /\ files[<<"positive", p, "record">>] = Example(p, version)
         /\ IsFile(<<"positive", p, "record">>) /\ ValidPositive(p)
<1>1. /\ files[<<"positive", p, "record">>] = Example(p, version)
      /\ files[<<"positive", p, "sidecar">>] = Sha256(Example(p, version))
  BY DerivedPositive DEF Regenerated, AreDerived, PairPart
<1> QED
  BY <1>1, ContentsAssumption DEF Regenerated, IsFile, ValidPositive, ValidPair

\* Every case of it is one of the version, and readable.
LEMMA RegeneratedCases ==
  ASSUME Regenerated, NEW n \in SweptCases
  PROVE  LET b == Example(Baseline, version)
         IN  /\ n \in ToSet(Cases(version)) /\ CaseReadable(n)
             /\ files[<<"case", n, "record">>] = CaseRecord(n, b)
             /\ files[<<"case", n, "sidecar">>] = CaseSidecar(n, b)
<1> DEFINE b == Example(Baseline, version)
<1>1. version \in Versions /\ n \in ToSet(CaseNames) /\ files[<<"case", n, "dir">>] # Absent
  BY DEF Regenerated, SweptCases, IsFile
<1>2. \A part \in CaseFiles \cup {"dir"} :
        files[<<"case", n, part>>] = IF n \in ToSet(Cases(version)) THEN CaseFile(n, b)[part] ELSE Absent
  BY <1>1, DerivedCase DEF Regenerated, AreDerived
<1>3. n \in ToSet(Cases(version)) /\ b \in Baselines
  BY <1>1, <1>2 DEF Baselines, Records
<1>4. /\ files[<<"case", n, "record">>] = CaseFile(n, b)["record"]
      /\ files[<<"case", n, "sidecar">>] = CaseFile(n, b)["sidecar"]
      /\ files[<<"case", n, "meta">>] = CaseFile(n, b)["meta"]
  BY <1>2, <1>3 DEF CaseFiles
<1>5. CaseReadable(n)
  BY <1>1, <1>3, <1>4, ContentsAssumption DEF CaseReadable, IsFile
<1>6. CaseFile(n, b)["record"] = CaseRecord(n, b) /\ CaseFile(n, b)["sidecar"] = CaseSidecar(n, b)
  BY DEF CaseFile, CaseFiles
<1> QED
  BY <1>3, <1>4, <1>5, <1>6

\* Its index can be read and agrees with its vectors, and every vector has its sidecar.
LEMMA RegeneratedVectors ==
  ASSUME Regenerated
  PROVE  /\ IndexReadable
         /\ \A t \in DOMAIN Indexed : /\ IsFile(<<"vector", t, "record">>)
                                      /\ Sha256(files[<<"vector", t, "record">>]) = Indexed[t]
         /\ \A t \in ToSet(VectorNames) :
              IsFile(<<"vector", t, "record">>) => ValidPair(files, "vector", t)
<1>1. version \in Versions /\ Examples(version) \in Sources
  BY ExamplesAreSources DEF Regenerated
<1>2. files[IndexPath] = Index(Vectors(version), Examples(version))
  BY DerivedIndex DEF Regenerated, AreDerived
<1>3. IndexReadable
  BY <1>1, <1>2, ContentsAssumption DEF IndexReadable
<1>4. ASSUME NEW t \in ToSet(VectorNames)
      PROVE  /\ files[<<"vector", t, "record">>] =
                  IF t \in ToSet(Vectors(version)) THEN VectorBytes(t, Examples(version)) ELSE Absent
             /\ files[<<"vector", t, "sidecar">>] =
                  IF t \in ToSet(Vectors(version)) THEN Sha256(VectorBytes(t, Examples(version))) ELSE Absent
  BY DerivedVector DEF Regenerated, AreDerived, PairPart
<1>5. /\ DOMAIN Indexed = ToSet(Vectors(version))
      /\ \A t \in ToSet(Vectors(version)) :
           t \in ToSet(VectorNames) /\ Indexed[t] = Sha256(VectorBytes(t, Examples(version)))
  BY <1>1, <1>2, IndexIs DEF Indexed
<1>6. ASSUME NEW t \in DOMAIN Indexed
      PROVE  /\ IsFile(<<"vector", t, "record">>)
             /\ Sha256(files[<<"vector", t, "record">>]) = Indexed[t]
  BY <1>1, <1>4, <1>5, ContentsAssumption DEF IsFile
<1>7. ASSUME NEW t \in ToSet(VectorNames), IsFile(<<"vector", t, "record">>)
      PROVE  ValidPair(files, "vector", t)
  BY <1>4, <1>7 DEF IsFile, ValidPair
<1> QED
  BY <1>3, <1>6, <1>7

\* The sweeps accept every tree that the generators have derived, whatever was swept
\* before.
THEOREM SweepsAcceptTheRegenerated == Spec => []RegeneratedTreePasses
<1>1. ASSUME Regenerated
      PROVE  HashesPass
  <2>1. ASSUME NEW area \in {"positive", "vector"},
               NEW name \in ToSet(IF area = "positive" THEN Positives ELSE VectorNames),
               IsFile(<<area, name, "record">>)
        PROVE  ValidPair(files, area, name)
    <3>1. CASE area = "positive"
      BY <1>1, <2>1, <3>1, RegeneratedPositives DEF ValidPositive
    <3>2. CASE area = "vector"
      BY <1>1, <2>1, <3>2, RegeneratedVectors
    <3> QED
      BY <3>1, <3>2
  <2> QED
    BY <1>1, <2>1, RegeneratedVectors DEF HashesPass
<1>2. ASSUME Regenerated
      PROVE  IsFile(<<"positive", Baseline, "record">>) /\ ValidPositive(Baseline)
  <2>1. Baseline \in ToSet(Positives)
    BY <1>2, Members DEF Regenerated
  <2> QED
    BY <1>2, <2>1, RegeneratedPositives
<1>3. ASSUME Regenerated
      PROVE  ~ AuditRaises
  BY <1>2, <1>3, RegeneratedCases, RegeneratedVectors DEF AuditRaises
<1>4. ASSUME Regenerated
      PROVE  ~ AuditFails
  <2> DEFINE b == Example(Baseline, version)
  <2>1. files[<<"positive", Baseline, "record">>] = b
    <3>1. Baseline \in ToSet(Positives)
      BY <1>4, Members DEF Regenerated
    <3> QED
      BY <1>4, <3>1, RegeneratedPositives
  <2>2. ASSUME NEW n \in SweptCases
        PROVE  AsExpected(n, files[<<"case", n, "record">>], files[<<"case", n, "sidecar">>],
                          files[<<"positive", Baseline, "record">>])
    <3>1. /\ n \in ToSet(Cases(version))
          /\ files[<<"case", n, "record">>] = CaseRecord(n, b)
          /\ files[<<"case", n, "sidecar">>] = CaseSidecar(n, b)
      BY <1>4, RegeneratedCases
    <3>2. AsExpected(n, CaseRecord(n, b), CaseSidecar(n, b), b)
      BY <1>4, <3>1 DEF Regenerated, AllAsExpected
    <3> QED
      BY <2>1, <3>1, <3>2
  <2>3. \A p \in ToSet(Positives) : ValidPositive(p)
    BY <1>4, RegeneratedPositives
  <2> QED
    BY <1>4, <2>2, <2>3, RegeneratedVectors DEF AuditFails
<1>5. PackageInv => RegeneratedTreePasses
  BY <1>1, <1>3, <1>4, TopOfLadder DEF RegeneratedTreePasses
<1> QED
  BY <1>5, PackageInvariant, PTL
=============================================================================
