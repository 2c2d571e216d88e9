---------------------------- MODULE FormatProofs ----------------------------
(***************************************************************************)
(* Proofs about the scanner inside the format stage, for texts of any      *)
(* length and any limit of recursion: what it reads nests, what the stage  *)
(* accepts is canonical, and the scanner reads the language that the       *)
(* grammar describes.                                                      *)
(***************************************************************************)
EXTENDS FormatRules, SequenceTheorems, FiniteSetTheorems, TLAPS


---------------------------------------------------------------------------
(* The invariant of the scanner's stack: frames lie inside one another,   *)
(* and the members read so far beside one another.                        *)

\* The stack holds frames whose names and members are among some set.
Frames(M) == [kind : {"object", "array"}, start : Nat, seen : SUBSET M, key : M, members : Seq(M)]

\* The members of f lie one after the other between its bracket and to.
MembersPlaced(t, f, to) ==
  \A m \in 1..Len(f.members) :
    /\ f.members[m].node.start \in Nat /\ f.members[m].node.end \in Nat
    /\ WellPlaced(t, f.members[m].node,
                  IF m = 1 THEN f.start + 1 ELSE f.members[m - 1].node.end + 1,
                  to)

\* There is a lexeme, the comma, between the members of f and position to.
Separated(f, to) ==
  \A m \in 1..Len(f.members) : f.members[m].node.end \in Nat /\ f.members[m].node.end < to

\* The frames fs contain one another, and the innermost is read up to position to.
Nested(t, fs, to) ==
  /\ \A i \in 1..Len(fs) : StartsAsKind(t, fs[i]) /\ 0 < fs[i].start /\ fs[i].start < to
  /\ \A i, j \in 1..Len(fs) : i < j => fs[i].start < fs[j].start
  /\ \A i \in 1..Len(fs) : MembersPlaced(t, fs[i], IF i < Len(fs) THEN fs[i + 1].start ELSE to)
  /\ \A i \in 1..Len(fs) : i < Len(fs) => Separated(fs[i], fs[i + 1].start)

\* The innermost frame can take a member that starts at to.
Ready(fs, to) == fs # <<>> => Separated(fs[Len(fs)], to)

\* The first n elements of a sequence.
LEMMA PrefixProperties ==
  ASSUME NEW S, NEW s \in Seq(S), NEW n \in 0..Len(s)
  PROVE  /\ SubSeq(s, 1, n) \in Seq(S) /\ Len(SubSeq(s, 1, n)) = n
         /\ \A i \in 1..n : SubSeq(s, 1, n)[i] = s[i]
OBVIOUS

\* Each frame has its types.
LEMMA FrameTypes ==
  ASSUME NEW M, NEW fs \in Seq(Frames(M))
  PROVE  /\ Len(fs) \in Nat
         /\ \A i \in 1..Len(fs) : fs[i] \in Frames(M)
         /\ \A i \in 1..Len(fs) :
              /\ fs[i].kind \in {"object", "array"} /\ fs[i].start \in Nat
              /\ fs[i].seen \subseteq M /\ fs[i].key \in M /\ fs[i].members \in Seq(M)
<1>1. \A i \in 1..Len(fs) : fs[i] \in Frames(M)
  BY ElementOfSeq
<1>2. QED
  BY <1>1, LenProperties DEF Frames

\* A stack may be seen as one over more names and members.
LEMMA FramesMonotonic ==
  ASSUME NEW M, NEW item, NEW fs \in Seq(Frames(M))
  PROVE  fs \in Seq(Frames(M \cup {item}))
<1>1. Seq(M) \subseteq Seq(M \cup {item})
  BY SeqMonotonic
<1>2. Frames(M) \subseteq Frames(M \cup {item})
  BY <1>1 DEF Frames
<1>3. QED
  BY <1>2, SeqMonotonic

\* What has been read up to a stays where it is when more is read.
LEMMA NestedLater ==
  ASSUME NEW M, NEW t, NEW fs \in Seq(Frames(M)), NEW a \in Nat, NEW b \in Nat, a <= b
  PROVE  /\ Nested(t, fs, a) => Nested(t, fs, b)
         /\ Ready(fs, a) => Ready(fs, b)
<1>1. ASSUME NEW f, MembersPlaced(t, f, a)
      PROVE  MembersPlaced(t, f, b)
  BY <1>1 DEF MembersPlaced, WellPlaced
<1>2. ASSUME Nested(t, fs, a)
      PROVE  Nested(t, fs, b)
  <2>1. \A i \in 1..Len(fs) : StartsAsKind(t, fs[i]) /\ 0 < fs[i].start /\ fs[i].start < b
    BY <1>2, FrameTypes DEF Nested
  <2>2. ASSUME NEW i \in 1..Len(fs)
        PROVE  MembersPlaced(t, fs[i], IF i < Len(fs) THEN fs[i + 1].start ELSE b)
    BY <1>1, <1>2 DEF Nested
  <2>3. QED
    BY <1>2, <2>1, <2>2 DEF Nested
<1>3. Ready(fs, a) => Ready(fs, b)
  BY DEF Ready, Separated
<1>4. QED
  BY <1>2, <1>3

\* A bracket opens a frame inside the innermost one.
LEMMA NestedOpen ==
  ASSUME NEW M, NoName \in M, NEW t, NEW fs \in Seq(Frames(M)), NEW to \in Nat \ {0},
         Nested(t, fs, to), Ready(fs, to), NEW kind \in {"object", "array"},
         StartsAsKind(t, Frame(kind, to))
  PROVE  /\ Append(fs, Frame(kind, to)) \in Seq(Frames(M))
         /\ Len(Append(fs, Frame(kind, to))) = Len(fs) + 1
         /\ Append(fs, Frame(kind, to))[Len(fs) + 1] = Frame(kind, to)
         /\ Nested(t, Append(fs, Frame(kind, to)), to + 1)
<1> DEFINE f == Frame(kind, to)
           new == Append(fs, f)
<1>1. f \in Frames(M)
  BY DEF Frame, Frames
<1>2. /\ new \in Seq(Frames(M)) /\ Len(new) = Len(fs) + 1 /\ Len(fs) \in Nat
      /\ new[Len(fs) + 1] = f /\ \A i \in 1..Len(fs) : new[i] = fs[i]
  BY <1>1, AppendProperties, LenProperties
<1>3. f.start = to /\ f.kind = kind /\ f.members = <<>> /\ Len(f.members) = 0
  BY DEF Frame
<1> HIDE DEF f, new
<1>4. StartsAsKind(t, f) /\ MembersPlaced(t, f, to + 1)
  BY <1>3 DEF f, MembersPlaced
<1>5. \A i \in 1..Len(fs) : fs[i].start \in Nat /\ 0 < fs[i].start /\ fs[i].start < to
  BY FrameTypes DEF Nested
<1>6. \A i \in 1..Len(new) :
        StartsAsKind(t, new[i]) /\ 0 < new[i].start /\ new[i].start < to + 1
  BY <1>2, <1>3, <1>4, <1>5 DEF Nested
<1>7. \A i, j \in 1..Len(new) : i < j => new[i].start < new[j].start
  <2>1. \A i, j \in 1..Len(fs) : i < j => fs[i].start < fs[j].start
    BY DEF Nested
  <2>2. ASSUME NEW i \in 1..Len(new), NEW j \in 1..Len(new), i < j
        PROVE  new[i].start < new[j].start
    <3>1. i \in 1..Len(fs) /\ new[i] = fs[i]
      BY <1>2, <2>2
    <3>2. CASE j = Len(fs) + 1
      BY <1>2, <1>3, <1>5, <3>1, <3>2
    <3>3. CASE j \in 1..Len(fs)
      BY <1>2, <2>1, <2>2, <3>1, <3>3
    <3>4. QED
      BY <1>2, <3>2, <3>3
  <2>3. QED
    BY <2>2
<1>8. ASSUME NEW i \in 1..Len(new)
      PROVE  MembersPlaced(t, new[i], IF i < Len(new) THEN new[i + 1].start ELSE to + 1)
  <2>1. CASE i = Len(fs) + 1
    BY <1>2, <1>4, <2>1
  <2>2. CASE i < Len(fs)
    BY <1>2, <2>2 DEF Nested
  <2>3. CASE i = Len(fs)
    BY <1>2, <1>3, <2>3 DEF Nested
  <2>4. QED
    BY <1>2, <2>1, <2>2, <2>3
<1>9. ASSUME NEW i \in 1..Len(new), i < Len(new)
      PROVE  Separated(new[i], new[i + 1].start)
  <2>1. CASE i < Len(fs)
    BY <1>2, <2>1 DEF Nested
  <2>2. CASE i = Len(fs)
    BY <1>2, <1>3, <2>2 DEF Ready
  <2>3. QED
    BY <1>2, <1>9, <2>1, <2>2
<1>10. Nested(t, new, to + 1)
  BY <1>6, <1>7, <1>8, <1>9 DEF Nested
<1>11. QED
  BY <1>2, <1>10 DEF f, new

\* When the innermost frame is complete, the frames around it are ready to take
\* its node where it began.
LEMMA NestedClose ==
  ASSUME NEW M, NEW t, NEW fs \in Seq(Frames(M)), fs # <<>>, NEW to \in Nat,
         Nested(t, fs, to)
  PROVE  /\ SubSeq(fs, 1, Len(fs) - 1) \in Seq(Frames(M))
         /\ Len(SubSeq(fs, 1, Len(fs) - 1)) = Len(fs) - 1
         /\ Nested(t, SubSeq(fs, 1, Len(fs) - 1), fs[Len(fs)].start)
         /\ Ready(SubSeq(fs, 1, Len(fs) - 1), fs[Len(fs)].start)
<1> DEFINE new == SubSeq(fs, 1, Len(fs) - 1)
<1>1. Len(fs) \in Nat \ {0}
  BY EmptySeq
<1>2. /\ new \in Seq(Frames(M)) /\ Len(new) = Len(fs) - 1
      /\ \A i \in 1..Len(new) : new[i] = fs[i]
  <2>1. Len(fs) - 1 \in 0..Len(fs)
    BY <1>1
  <2>2. QED
    BY <2>1, PrefixProperties
<1> HIDE DEF new
<1>3. Nested(t, new, fs[Len(fs)].start)
  <2>1. /\ \A i \in 1..Len(new) :
             StartsAsKind(t, new[i]) /\ 0 < new[i].start /\ new[i].start < fs[Len(fs)].start
        /\ \A i, j \in 1..Len(new) : i < j => new[i].start < new[j].start
    <3>1. \A i \in 1..Len(new) : i \in 1..Len(fs) /\ i < Len(fs)
      BY <1>1, <1>2
    <3>2. ASSUME NEW i \in 1..Len(new)
          PROVE  StartsAsKind(t, new[i]) /\ 0 < new[i].start /\ new[i].start < fs[Len(fs)].start
      <4>1. fs[i].start < fs[Len(fs)].start
        BY <1>1, <3>1 DEF Nested
      <4>2. QED
        BY <1>2, <3>1, <4>1 DEF Nested
    <3>3. \A i, j \in 1..Len(new) : i < j => new[i].start < new[j].start
      BY <1>2, <3>1 DEF Nested
    <3>4. QED
      BY <3>2, <3>3
  <2>2. ASSUME NEW i \in 1..Len(new)
        PROVE  MembersPlaced(t, new[i], IF i < Len(new) THEN new[i + 1].start
                                        ELSE fs[Len(fs)].start)
    <3>1. /\ i \in 1..Len(fs) /\ i < Len(fs) /\ new[i] = fs[i]
          /\ IF i < Len(new) THEN new[i + 1] = fs[i + 1] ELSE i + 1 = Len(fs)
      BY <1>1, <1>2
    <3>2. MembersPlaced(t, fs[i], fs[i + 1].start)
      BY <3>1 DEF Nested
    <3>3. QED
      BY <3>1, <3>2
  <2>3. ASSUME NEW i \in 1..Len(new), i < Len(new)
        PROVE  Separated(new[i], new[i + 1].start)
    <3>1. i \in 1..Len(fs) /\ i < Len(fs) /\ new[i] = fs[i] /\ new[i + 1] = fs[i + 1]
      BY <1>1, <1>2, <2>3
    <3>2. Separated(fs[i], fs[i + 1].start)
      BY <3>1 DEF Nested
    <3>3. QED
      BY <3>1, <3>2
  <2>4. QED
    BY <2>1, <2>2, <2>3 DEF Nested
<1>4. Ready(new, fs[Len(fs)].start)
  BY <1>1, <1>2, EmptySeq DEF Nested, Ready
<1>5. QED
  BY <1>2, <1>3, <1>4 DEF new

\* Only the kind and the start of a frame decide whether it starts at its bracket.
LEMMA StartsAlike ==
  ASSUME NEW t, NEW f, NEW g, f.kind = g.kind, f.start = g.start, StartsAsKind(t, f)
  PROVE  StartsAsKind(t, g)
BY Zenon DEF StartsAsKind

\* The innermost frame may be exchanged for one that starts at the same bracket
\* and whose members lie before to.
LEMMA NestedUpdate ==
  ASSUME NEW M, NEW t, NEW fs \in Seq(Frames(M)), fs # <<>>, NEW from \in Nat, NEW to \in Nat,
         from <= to, Nested(t, fs, from),
         NEW gs, Len(gs) = Len(fs), NEW f, f.kind = fs[Len(fs)].kind, f.start = fs[Len(fs)].start,
         gs[Len(fs)] = f, \A i \in 1..Len(fs) : i # Len(fs) => gs[i] = fs[i],
         MembersPlaced(t, f, to)
  PROVE  Nested(t, gs, to)
<1>1. Len(fs) \in Nat \ {0}
  BY EmptySeq
<1>2. PICK n \in Nat \ {0} : n = Len(fs)
  BY <1>1
<1>3. /\ \A i \in 1..n : gs[i].kind = fs[i].kind /\ gs[i].start = fs[i].start
      /\ \A i \in 1..n : i < n => gs[i] = fs[i]
      /\ gs[n] = f
  BY <1>2
<1>4. ASSUME NEW i \in 1..n
      PROVE  StartsAsKind(t, gs[i]) /\ 0 < gs[i].start /\ gs[i].start < to
  <2>1. fs[i].start \in Nat /\ StartsAsKind(t, fs[i]) /\ 0 < fs[i].start /\ fs[i].start < from
    BY <1>2, FrameTypes DEF Nested
  <2>2. StartsAsKind(t, gs[i])
    BY <1>3, <2>1, StartsAlike
  <2>3. QED
    BY <1>3, <2>1, <2>2
<1>5. \A i, j \in 1..n : i < j => gs[i].start < gs[j].start
  BY <1>2, <1>3 DEF Nested
<1>6. ASSUME NEW i \in 1..n
      PROVE  MembersPlaced(t, gs[i], IF i < n THEN gs[i + 1].start ELSE to)
  <2>1. CASE i = n
    BY <1>3, <2>1
  <2>2. CASE i < n
    <3>1. MembersPlaced(t, fs[i], fs[i + 1].start)
      BY <1>2, <2>2 DEF Nested
    <3>2. gs[i + 1].start = fs[i + 1].start
      BY <1>3, <2>2
    <3>3. QED
      BY <1>3, <2>2, <3>1, <3>2
  <2>3. QED
    BY <2>1, <2>2
<1>7. \A i \in 1..n : i < n => Separated(gs[i], gs[i + 1].start)
  BY <1>2, <1>3 DEF Nested
<1>8. n = Len(gs)
  BY <1>2
<1>9. QED
  BY <1>4, <1>5, <1>6, <1>7, <1>8 DEF Nested

\* A node read where frame f was ready becomes its last member.
LEMMA MembersAppend ==
  ASSUME NEW M, NEW t, NEW f \in Frames(M), NEW g, NEW item,
         g.start = f.start, g.members = Append(f.members, item),
         NEW from \in Nat, NEW to \in Nat, f.start < from,
         MembersPlaced(t, f, from), Separated(f, from),
         item.node.start \in Nat, item.node.end \in Nat, WellPlaced(t, item.node, from, to)
  PROVE  MembersPlaced(t, g, to)
<1>1. f.members \in Seq(M \cup {item}) /\ f.start \in Nat
  <2>1. f.members \in Seq(M) /\ f.start \in Nat
    BY DEF Frames
  <2>2. QED
    BY <2>1, SeqMonotonic
<1>2. PICK k \in Nat : k = Len(f.members)
  BY <1>1, LenProperties
<1>3. /\ Len(g.members) = k + 1 /\ g.members[k + 1] = item
      /\ \A m \in 1..k : g.members[m] = f.members[m]
  BY <1>1, <1>2, AppendProperties
<1>4. from < to /\ from <= item.node.start
  BY DEF WellPlaced
<1>5. ASSUME NEW m \in 1..k
      PROVE  /\ g.members[m].node.start \in Nat /\ g.members[m].node.end \in Nat
             /\ WellPlaced(t, g.members[m].node,
                           IF m = 1 THEN g.start + 1 ELSE g.members[m - 1].node.end + 1, to)
  <2>1. g.members[m] = f.members[m] /\ (m # 1 => g.members[m - 1] = f.members[m - 1])
    BY <1>3
  <2>2. /\ f.members[m].node.start \in Nat /\ f.members[m].node.end \in Nat
        /\ WellPlaced(t, f.members[m].node,
                      IF m = 1 THEN f.start + 1 ELSE f.members[m - 1].node.end + 1, from)
    BY <1>2 DEF MembersPlaced
  <2>3. \A lower : WellPlaced(t, f.members[m].node, lower, from)
                   => WellPlaced(t, f.members[m].node, lower, to)
    BY <1>4, <2>2 DEF WellPlaced
  <2>4. CASE m = 1
    BY <2>1, <2>2, <2>3, <2>4
  <2>5. CASE m # 1
    BY <2>1, <2>2, <2>3, <2>5
  <2>6. QED
    BY <2>4, <2>5
<1>6. WellPlaced(t, item.node, IF k + 1 = 1 THEN g.start + 1
                               ELSE g.members[(k + 1) - 1].node.end + 1, to)
  <2>1. CASE k = 0
    BY <1>1, <1>4, <2>1 DEF WellPlaced
  <2>2. CASE k # 0
    <3>1. k \in 1..k /\ (k + 1) - 1 = k /\ g.members[k] = f.members[k] /\ k + 1 # 1
      BY <1>3, <2>2
    <3>2. f.members[k].node.end \in Nat /\ f.members[k].node.end < from
      BY <1>2, <3>1 DEF Separated
    <3>3. f.members[k].node.end + 1 <= item.node.start
      <4>1. \A a, b, c \in Nat : a < b /\ b <= c => a + 1 <= c
        OBVIOUS
      <4>2. QED
        BY <1>4, <3>2, <4>1
    <3>4. WellPlaced(t, item.node, f.members[k].node.end + 1, to)
      BY <3>3 DEF WellPlaced
    <3>5. QED
      BY <3>1, <3>4
  <2>3. QED
    BY <2>1, <2>2
<1>7. ASSUME NEW m \in 1..(k + 1)
      PROVE  /\ g.members[m].node.start \in Nat /\ g.members[m].node.end \in Nat
             /\ WellPlaced(t, g.members[m].node,
                           IF m = 1 THEN g.start + 1 ELSE g.members[m - 1].node.end + 1, to)
  <2>1. CASE m \in 1..k
    BY <1>5, <2>1
  <2>2. CASE m = k + 1
    BY <1>3, <1>6, <2>2
  <2>3. m \in 1..k \/ m = k + 1
    OBVIOUS
  <2>4. QED
    BY <2>1, <2>2, <2>3, Zenon
<1>8. QED
  BY <1>3, <1>7 DEF MembersPlaced
\* The kind of the innermost frame.
LastKind(fs) == fs[Len(fs)].kind

\* The stack gs is as high as fs, and its innermost frame of the same kind.
Alike(M, fs, gs) == gs \in Seq(Frames(M)) /\ Len(gs) = Len(fs) /\ LastKind(gs) = LastKind(fs)

\* The stack after a member name, and after a member's value.
WithName(fs, name)   == [fs EXCEPT ![Len(fs)].seen = @ \cup {name}, ![Len(fs)].key = name]
WithMember(fs, item) == [fs EXCEPT ![Len(fs)].members = Append(@, item)]

\* A member name leaves the spans as they are.
LEMMA NestedName ==
  ASSUME NEW M, NEW t, NEW fs \in Seq(Frames(M)), fs # <<>>, NEW to \in Nat,
         Nested(t, fs, to), Ready(fs, to), NEW name
  PROVE  /\ Alike(M \cup {name}, fs, WithName(fs, name))
         /\ Nested(t, WithName(fs, name), to) /\ Ready(WithName(fs, name), to)
<1> DEFINE n == Len(fs)
           f == [fs[n] EXCEPT !.seen = @ \cup {name}, !.key = name]
           gs == WithName(fs, name)
           N == M \cup {name}
<1>1. n \in Nat \ {0} /\ n \in 1..n /\ fs[n] \in Frames(M)
  BY EmptySeq, FrameTypes
<1>2. /\ f \in Frames(N) /\ f.kind = fs[n].kind /\ f.start = fs[n].start
      /\ f.members = fs[n].members
  <2>1. fs[n].members \in Seq(N)
    BY <1>1, FrameTypes, SeqMonotonic
  <2>2. QED
    BY <1>1, <2>1 DEF Frames
<1>3. fs \in Seq(Frames(N))
  BY FramesMonotonic, Zenon
<1>4. gs = [fs EXCEPT ![n] = f]
  BY <1>1, LenProperties DEF Frames, WithName, gs
<1> HIDE DEF f, N, gs
<1>5. /\ gs \in Seq(Frames(N)) /\ Len(gs) = n
      /\ gs[n] = f /\ \A i \in 1..n : i # n => gs[i] = fs[i]
  <2>1. PICK k \in 1..Len(fs) : k = n
    BY <1>1
  <2>2. gs = [fs EXCEPT ![k] = f] /\ f \in Frames(N)
    BY <1>2, <1>4, <2>1
  <2>3. gs \in Seq(Frames(N)) /\ Len(gs) = Len(fs)
    BY <1>3, <2>1, <2>2
  <2>4. [fs EXCEPT ![k] = f][k] = f
    BY <1>3, <2>1, <2>2
  <2>5. \A i \in 1..Len(fs) : i # k => [fs EXCEPT ![k] = f][i] = fs[i]
    BY <1>3, <2>1, <2>2
  <2>6. QED
    BY <2>1, <2>2, <2>3, <2>4, <2>5
<1>6. gs[n] = f /\ Len(gs) = n
  BY <1>1, <1>5
<1>7. MembersPlaced(t, f, to) /\ Separated(f, to)
  <2>1. MembersPlaced(t, fs[n], to) /\ Separated(fs[n], to)
    BY <1>1 DEF Nested, Ready
  <2>2. QED
    BY <1>2, <2>1 DEF MembersPlaced, Separated
<1>8. Nested(t, gs, to)
  <2>1. to <= to
    OBVIOUS
  <2>2. QED
    BY <1>2, <1>5, <1>7, <2>1, NestedUpdate, Zenon
<1>9. Ready(gs, to)
  BY <1>6, <1>7 DEF Ready
<1>10. QED
  BY <1>2, <1>5, <1>6, <1>8, <1>9 DEF N, LastKind, Alike, gs

\* A node read where the innermost frame was ready becomes its last member.
LEMMA NestedMember ==
  ASSUME NEW M, NEW t, NEW fs \in Seq(Frames(M)), fs # <<>>, NEW from \in Nat, NEW to \in Nat,
         Nested(t, fs, from), Ready(fs, from), NEW item,
         item.node.start \in Nat, item.node.end \in Nat, WellPlaced(t, item.node, from, to)
  PROVE  /\ Alike(M \cup {item}, fs, WithMember(fs, item))
         /\ Nested(t, WithMember(fs, item), to)
<1> DEFINE n == Len(fs)
           f == [fs[n] EXCEPT !.members = Append(@, item)]
           gs == WithMember(fs, item)
           N == M \cup {item}
<1>1. n \in Nat \ {0} /\ n \in 1..n /\ fs[n] \in Frames(M)
  BY EmptySeq, FrameTypes
<1>2. fs[n].members \in Seq(N)
  BY <1>1, FrameTypes, SeqMonotonic
<1>3. Append(fs[n].members, item) \in Seq(N)
  BY <1>2, AppendProperties
<1>4. /\ f \in Frames(N) /\ f.kind = fs[n].kind /\ f.start = fs[n].start
      /\ f.members = Append(fs[n].members, item)
  <2>1. f.members \in Seq(N) /\ f.members = Append(fs[n].members, item)
    BY <1>1, <1>3 DEF Frames
  <2>2. QED
    BY <1>1, <2>1 DEF Frames
<1>5. fs \in Seq(Frames(N))
  BY FramesMonotonic, Zenon
<1>6. gs = [fs EXCEPT ![n] = f]
  BY <1>1, LenProperties DEF Frames, WithMember, gs
<1> HIDE DEF f, N, gs
<1>7. /\ gs \in Seq(Frames(N)) /\ Len(gs) = n
      /\ gs[n] = f /\ \A i \in 1..n : i # n => gs[i] = fs[i]
  <2>1. PICK k \in 1..Len(fs) : k = n
    BY <1>1
  <2>2. gs = [fs EXCEPT ![k] = f] /\ f \in Frames(N)
    BY <1>4, <1>6, <2>1
  <2>3. gs \in Seq(Frames(N)) /\ Len(gs) = Len(fs)
    BY <1>5, <2>1, <2>2
  <2>4. [fs EXCEPT ![k] = f][k] = f
    BY <1>5, <2>1, <2>2
  <2>5. \A i \in 1..Len(fs) : i # k => [fs EXCEPT ![k] = f][i] = fs[i]
    BY <1>5, <2>1, <2>2
  <2>6. QED
    BY <2>1, <2>2, <2>3, <2>4, <2>5
<1>8. gs[n] = f /\ Len(gs) = n
  BY <1>1, <1>7
<1>9. from <= to
  BY DEF WellPlaced
<1>10. MembersPlaced(t, f, to)
  <2>1. MembersPlaced(t, fs[n], from) /\ Separated(fs[n], from) /\ fs[n].start < from
    BY <1>1 DEF Nested, Ready
  <2>2. QED
    BY <1>1, <1>4, <2>1, MembersAppend
<1>11. Nested(t, gs, to)
  BY <1>4, <1>7, <1>9, <1>10, NestedUpdate
<1>12. QED
  BY <1>4, <1>7, <1>8, <1>11 DEF N, LastKind, Alike, gs

\* The scanner stays inside the text, or is at its end.
Position ==
  /\ text \in Seq(Lexemes)
  /\ pos \in 1..(Len(text) + 1)

\* The innermost frame is an object, or an array.
Innermost(kind) == stack # <<>> /\ LastKind(stack) = kind

\* The frames fit together, and each point of the grammar finds the frame it
\* needs: an object for a name, and room for the member that comes next.
Structure ==
  /\ \E M : NoName \in M /\ stack \in Seq(Frames(M))
  /\ Len(stack) <= RecursionLimit
  /\ Nested(text, stack, pos)
  /\ ctl \in {"top", "done"} => stack = <<>>
  /\ ctl \in {"object_open", "member", "colon", "member_value", "object_next"} => Innermost("object")
  /\ ctl \in {"array_open", "element", "array_next"} => Innermost("array")
  /\ ctl \in {"object_open", "member", "colon", "member_value", "array_open", "element"}
       => Ready(stack, pos)
  /\ ctl = "done" => WellPlaced(text, top, 1, pos) /\ top.end = pos

\* The points at which a value may start.
ValuePoints == {"top", "member_value", "array_open", "element"}

\* Every lexeme the scanner reads other than by Skip is no whitespace, and the
\* end of the text is no lexeme.
LEMMA WhitespaceIsApart ==
  /\ WHITESPACE \cap (Brackets \cup Strings \cup Scalars \cup {"?", "end"}) = {}
  /\ "end" \notin Lexemes
BY LexemeAssumption DEF WHITESPACE, Brackets, Lexemes

\* What is read is the lexeme at pos.
LEMMA PeekReads ==
  ASSUME Peek \in WHITESPACE \cup Brackets \cup Strings \cup Scalars
  PROVE  pos <= Len(text) /\ Peek = text[pos]
BY WhitespaceIsApart DEF Peek, Lexemes

\* A value that was read returns to the innermost of frames.
LEMMA ReturnKeeps ==
  ASSUME Position, text' = text, pos' = pos + 1,
         NEW M, NoName \in M, NEW frames \in Seq(Frames(M)), Len(frames) <= RecursionLimit,
         NEW from \in Nat, 1 <= from, from <= pos,
         Nested(text, frames, from), Ready(frames, from),
         NEW node, node.start \in Nat, node.end = pos + 1,
         WellPlaced(text, node, from, pos + 1), Return(node, frames)
  PROVE  Structure' /\ ctl' \in {"done", "object_next", "array_next"}
<1>1. pos \in Nat /\ pos + 1 \in Nat /\ from <= pos + 1
  BY DEF Position
<1>2. CASE frames = <<>>
  <2>1. stack' = <<>> /\ ctl' = "done" /\ top' = node
    BY <1>2 DEF Return
  <2>2. WellPlaced(text, node, 1, pos + 1)
    BY <1>1 DEF WellPlaced
  <2>3. Len(stack') <= RecursionLimit /\ stack' \in Seq(Frames(M)) /\ Len(stack') = 0
    BY <1>2, <2>1
  <2>4. Nested(text, stack', pos + 1)
    BY <2>3 DEF Nested
  <2>5. QED
    BY <2>1, <2>2, <2>3, <2>4 DEF Structure
<1>3. CASE frames # <<>>
  <2> DEFINE item == [key |-> frames[Len(frames)].key, node |-> node]
  <2>1. /\ stack' = WithMember(frames, item)
        /\ ctl' = IF LastKind(frames) = "object" THEN "object_next" ELSE "array_next"
    BY <1>3 DEF Return, WithMember, LastKind
  <2>2. item.node = node
    OBVIOUS
  <2> HIDE DEF item
  <2>3. node.end \in Nat
    BY <1>1
  <2>4. /\ stack' \in Seq(Frames(M \cup {item})) /\ Len(stack') = Len(frames)
        /\ LastKind(stack)' = LastKind(frames)
        /\ Nested(text, stack', pos + 1)
    <3>1. PICK to \in Nat : to = pos + 1
      BY <1>1
    <3>2. /\ item.node.start \in Nat /\ item.node.end \in Nat
          /\ WellPlaced(text, item.node, from, to)
      BY <2>2, <2>3, <3>1
    <3>3. /\ Alike(M \cup {item}, frames, WithMember(frames, item))
          /\ Nested(text, WithMember(frames, item), to)
      BY <1>3, <3>2, NestedMember
    <3>4. QED
      BY <2>1, <3>1, <3>3 DEF LastKind, Alike
  <2>5. LastKind(frames) \in {"object", "array"} /\ stack' # <<>>
    BY <1>3, <2>4, EmptySeq, FrameTypes DEF LastKind
  <2>6. QED
    BY <2>1, <2>4, <2>5 DEF Structure, Innermost
<1>4. QED
  BY <1>2, <1>3

\* The points of the grammar at which the scanner reads on.
LEMMA ReadingPoints ==
  Reading = {"top", "object_open", "member", "colon", "member_value", "object_next",
             "array_open", "element", "array_next"}
<1>1. ASSUME NEW a, NEW b, NEW c, NEW d, NEW e, NEW f, NEW g, NEW h, NEW i
      PROVE  DOMAIN [top |-> a, object_open |-> b, member |-> c, colon |-> d, member_value |-> e,
                     object_next |-> f, array_open |-> g, element |-> h, array_next |-> i]
             = {"top", "object_open", "member", "colon", "member_value", "object_next",
                "array_open", "element", "array_next"}
  OBVIOUS
<1>2. QED
  BY <1>1, Zenon DEF Reading, Expected

\* Before anything is read, the stack is empty.
LEMMA InitStructure == ScanInit => Position /\ Structure
<1> SUFFICES ASSUME ScanInit
             PROVE  Position /\ Structure
  OBVIOUS
<1>1. text \in Seq(Lexemes) /\ pos = 1 /\ ctl = "top" /\ stack = <<>> /\ RecursionLimit \in Nat
  BY LexemeAssumption, Zenon DEF ScanInit
<1>2. Position
  BY <1>1 DEF Position
<1>3. NoName \in {NoName} /\ stack \in Seq(Frames({NoName})) /\ Len(stack) = 0
  BY <1>1
<1>4. Nested(text, stack, pos) /\ Ready(stack, pos)
  BY <1>1, <1>3 DEF Nested, Ready
<1>5. \E M : NoName \in M /\ stack \in Seq(Frames(M))
  BY <1>3, Zenon
<1>6. Len(stack) <= RecursionLimit
  BY <1>1, <1>3
<1>7. QED
  BY <1>1, <1>2, <1>4, <1>5, <1>6 DEF Structure

\* Steps that leave the stack alone, and go to a point that finds what it needs.
LEMMA SameStack ==
  ASSUME Position, Structure, text' = text, pos' \in {pos, pos + 1}, UNCHANGED stack,
         ctl' # "done",
         ctl' = "top" => stack = <<>>,
         ctl' \in {"object_open", "member", "colon", "member_value", "object_next"} => Innermost("object"),
         ctl' \in {"array_open", "element", "array_next"} => Innermost("array"),
         ctl' \in {"object_open", "member", "colon", "member_value", "array_open", "element"}
           => Ready(stack, pos')
  PROVE  Structure'
<1>1. PICK M : NoName \in M /\ stack \in Seq(Frames(M))
  BY DEF Structure
<1>2. pos \in Nat /\ pos' \in Nat /\ pos <= pos'
  BY DEF Position
<1>3. Nested(text, stack, pos')
  BY <1>1, <1>2, NestedLater DEF Structure
<1>4. QED
  BY <1>1, <1>3 DEF Structure, Innermost

\* A step of the scanner reads one lexeme or none, and skipping is the only way
\* to read whitespace; the first whitespace that is read is remembered.
LEMMA StepReadsOne ==
  ASSUME Position, ScanStep
  PROVE  /\ text' = text
         /\ \/ pos' = pos /\ first_whitespace' = first_whitespace
            \/ /\ pos <= Len(text) /\ pos' = pos + 1
               /\ first_whitespace' = IF text[pos] \in WHITESPACE /\ first_whitespace = 0
                                      THEN pos ELSE first_whitespace
<1> DEFINE other == Brackets \cup Strings \cup Scalars
<1>1. ASSUME Peek \in other, pos' = pos + 1, UNCHANGED <<text, first_whitespace>>
      PROVE  /\ pos <= Len(text)
             /\ first_whitespace' = IF text[pos] \in WHITESPACE /\ first_whitespace = 0
                                    THEN pos ELSE first_whitespace
  BY <1>1, PeekReads, WhitespaceIsApart
<1>2. CASE Skip
  BY <1>2, PeekReads DEF Skip
<1>3. CASE ReadScalar
  BY <1>1, <1>3 DEF ReadScalar
<1>4. CASE Open
  BY <1>1, <1>4 DEF Open, Brackets
<1>5. CASE Overflow \/ Fail
  BY <1>5 DEF Overflow, Fail
<1>6. CASE ReadName
  BY <1>1, <1>6 DEF ReadName
<1>7. CASE ReadColon \/ ReadComma
  BY <1>1, <1>7 DEF ReadColon, ReadComma, Brackets
<1>8. CASE Close
  BY <1>1, <1>8 DEF Close, Brackets
<1>9. QED
  BY <1>2, <1>3, <1>4, <1>5, <1>6, <1>7, <1>8 DEF ScanStep

\* The scanner stays inside the text.
LEMMA StepPosition ==
  ASSUME Position, ScanStep
  PROVE  Position' /\ text' = text /\ pos' \in {pos, pos + 1}
BY StepReadsOne DEF Position

\* Skip, ReadColon and ReadComma only move along; Overflow and Fail stop.
LEMMA MovesAlong ==
  ASSUME Position, Structure, Skip \/ ReadColon \/ ReadComma \/ Overflow \/ Fail
  PROVE  Structure'
<1>1. PICK M : NoName \in M /\ stack \in Seq(Frames(M))
  BY DEF Structure
<1>2. pos \in Nat
  BY DEF Position
<1>3. CASE Skip
  <2>1. /\ text' = text /\ pos' = pos + 1 /\ stack' = stack /\ ctl' = ctl /\ ctl \in Reading
    BY <1>3, Zenon DEF Skip
  <2>2. Ready(stack, pos) => Ready(stack, pos + 1)
    BY <1>1, <1>2, NestedLater
  <2>3. QED
    BY <2>1, <2>2, ReadingPoints, SameStack DEF Structure
<1>4. CASE ReadColon
  <2>1. text' = text /\ pos' = pos + 1 /\ stack' = stack /\ ctl = "colon" /\ ctl' = "member_value"
    BY <1>4, Zenon DEF ReadColon
  <2>2. Ready(stack, pos) => Ready(stack, pos + 1)
    BY <1>1, <1>2, NestedLater
  <2>3. QED
    BY <2>1, <2>2, SameStack DEF Structure
<1>5. CASE ReadComma
  <2>1. /\ text' = text /\ pos' = pos + 1 /\ stack' = stack
        /\ ctl \in {"object_next", "array_next"}
        /\ ctl' = IF ctl = "object_next" THEN "member" ELSE "element"
    BY <1>5, Zenon DEF ReadComma
  <2>2. stack # <<>> /\ Len(stack) \in 1..Len(stack)
    BY <1>1, <2>1, EmptySeq DEF Structure, Innermost
  <2>3. MembersPlaced(text, stack[Len(stack)], pos)
    BY <2>2 DEF Structure, Nested
  <2>4. Ready(stack, pos + 1)
    BY <1>2, <2>3 DEF Ready, Separated, MembersPlaced, WellPlaced
  <2>5. QED
    BY <2>1, <2>4, SameStack DEF Structure
<1>6. CASE Overflow
  <2>1. text' = text /\ pos' = pos /\ stack' = stack /\ ctl' = "recursion_error"
    BY <1>6, Zenon DEF Overflow
  <2>2. QED
    BY <2>1, SameStack
<1>7. CASE Fail
  <2>1. text' = text /\ pos' = pos /\ stack' = stack /\ ctl' = "parse_error"
    BY <1>7, Zenon DEF Fail
  <2>2. QED
    BY <2>1, SameStack
<1>8. QED
  BY <1>3, <1>4, <1>5, <1>6, <1>7

\* Where a value may start, the innermost frame has room for it.
LEMMA ValueFits ==
  ASSUME Position, Structure, ctl \in ValuePoints
  PROVE  Ready(stack, pos) /\ pos \in Nat \ {0}
BY DEF Position, Structure, ValuePoints, Ready

\* A scalar is read.
LEMMA ScalarStructure ==
  ASSUME Position, Structure, ReadScalar
  PROVE  Structure'
<1> DEFINE node == Node("scalar", pos, pos + 1, <<>>)
<1>1. /\ text' = text /\ pos' = pos + 1 /\ ctl \in ValuePoints
      /\ Peek \in Strings \cup Scalars /\ Return(node, stack)
  BY Zenon DEF ReadScalar, ValuePoints
<1>2. node.kind = "scalar" /\ node.start = pos /\ node.end = pos + 1
  BY DEF Node
<1> HIDE DEF node
<1>3. PICK M : NoName \in M /\ stack \in Seq(Frames(M))
  BY DEF Structure
<1>4. Ready(stack, pos) /\ pos \in Nat \ {0} /\ Nested(text, stack, pos) /\ Len(stack) <= RecursionLimit
  BY <1>1, ValueFits DEF Structure
<1>5. text[pos] \in Strings \cup Scalars
  BY <1>1, PeekReads
<1>6. StartsAsKind(text, node) /\ EndsAsKind(text, node)
  <2>1. text[pos] \notin Brackets
    BY <1>5, LexemeAssumption, Zenon
  <2>2. text[pos] # "{" /\ text[pos] # "["
    BY <2>1, Zenon DEF Brackets
  <2>3. node.kind # "object" /\ node.kind # "array"
    BY <1>2
  <2>4. QED
    BY <1>2, <2>2, <2>3, Zenon DEF StartsAsKind, EndsAsKind
<1>7. WellPlaced(text, node, pos, pos + 1) /\ node.start \in Nat
  BY <1>2, <1>4, <1>6 DEF WellPlaced
<1>8. QED
  BY <1>1, <1>2, <1>3, <1>4, <1>7, ReturnKeeps

\* A bracket opens an object or an array.
LEMMA OpenStructure ==
  ASSUME Position, Structure, Open
  PROVE  Structure'
<1>1. PICK kind \in {"object", "array"} :
        /\ kind = IF Peek = "{" THEN "object" ELSE "array"
        /\ stack' = Append(stack, Frame(kind, pos))
        /\ ctl' = IF kind = "object" THEN "object_open" ELSE "array_open"
  <2>1. CASE Peek = "{"
    BY <2>1, Zenon DEF Open
  <2>2. CASE Peek # "{"
    <3>1. stack' = Append(stack, Frame("array", pos)) /\ ctl' = "array_open"
      BY <2>2, Zenon DEF Open
    <3>2. "array" # "object"
      OBVIOUS
    <3>3. QED
      BY <2>2, <3>1, <3>2, Zenon
  <2>3. QED
    BY <2>1, <2>2, Zenon
<1>2. /\ text' = text /\ pos' = pos + 1 /\ ctl \in ValuePoints /\ Len(stack) < RecursionLimit
      /\ Peek \in {"{", "["}
  BY Zenon DEF Open, ValuePoints
<1>3. PICK M : NoName \in M /\ stack \in Seq(Frames(M))
  BY DEF Structure
<1>4. Ready(stack, pos) /\ pos \in Nat \ {0} /\ Nested(text, stack, pos)
  BY <1>2, ValueFits DEF Structure
<1>5. StartsAsKind(text, Frame(kind, pos))
  <2>1. Peek = text[pos]
    BY <1>2, PeekReads, Zenon DEF Brackets
  <2>2. Frame(kind, pos).kind = kind /\ Frame(kind, pos).start = pos
    BY DEF Frame
  <2>3. (kind = "object" <=> text[pos] = "{") /\ (kind = "array" <=> text[pos] = "[")
    BY <1>1, <1>2, <2>1, Zenon
  <2>4. QED
    BY <2>2, <2>3, Zenon DEF StartsAsKind
<1>6. /\ stack' \in Seq(Frames(M)) /\ Len(stack') = Len(stack) + 1
      /\ stack'[Len(stack) + 1] = Frame(kind, pos)
      /\ Nested(text, stack', pos + 1)
  <2> DEFINE opened == Append(stack, Frame(kind, pos))
  <2>1. opened \in Seq(Frames(M))
    BY <1>3, <1>4, <1>5, NestedOpen
  <2>2. Len(opened) = Len(stack) + 1
    BY <1>3, <1>4, <1>5, NestedOpen
  <2>3. opened[Len(stack) + 1] = Frame(kind, pos)
    BY <1>3, <1>4, <1>5, NestedOpen
  <2>4. Nested(text, opened, pos + 1)
    BY <1>3, <1>4, <1>5, NestedOpen
  <2>5. QED
    BY <1>1, <2>1, <2>2, <2>3, <2>4
<1>7. LastKind(stack') = kind /\ stack' # <<>> /\ Ready(stack', pos + 1)
  <2>1. Frame(kind, pos).kind = kind /\ Frame(kind, pos).members = <<>>
    BY DEF Frame
  <2>2. Len(stack) \in Nat
    BY <1>3
  <2>3. QED
    BY <1>6, <2>1, <2>2 DEF LastKind, Ready, Separated
<1>8. Len(stack') <= RecursionLimit
  <2>1. RecursionLimit \in Nat
    BY LexemeAssumption, Zenon
  <2>2. Len(stack) < RecursionLimit
    BY <1>2, Zenon
  <2>3. QED
    BY <1>3, <1>6, <2>1, <2>2
<1>9. QED
  BY <1>1, <1>2, <1>3, <1>6, <1>7, <1>8 DEF Structure, Innermost

\* A member name is read.
LEMMA NameStructure ==
  ASSUME Position, Structure, ReadName
  PROVE  Structure'
<1>1. PICK name :
        /\ stack' = WithName(stack, name) /\ ctl' = "colon"
        /\ text' = text /\ pos' = pos + 1 /\ ctl \in {"object_open", "member"}
  BY DEF ReadName, WithName
<1>2. PICK M : NoName \in M /\ stack \in Seq(Frames(M))
  BY DEF Structure
<1>3. /\ pos \in Nat /\ stack # <<>> /\ LastKind(stack) = "object" /\ Len(stack) <= RecursionLimit
      /\ Nested(text, stack, pos) /\ Ready(stack, pos)
  BY <1>1 DEF Position, Structure, Innermost
<1>4. /\ Alike(M \cup {name}, stack, WithName(stack, name))
      /\ Nested(text, WithName(stack, name), pos) /\ Ready(WithName(stack, name), pos)
  BY <1>2, <1>3, NestedName
<1>5. Nested(text, stack', pos + 1) /\ Ready(stack', pos + 1)
  BY <1>1, <1>3, <1>4, NestedLater DEF Alike
<1>6. /\ stack' \in Seq(Frames(M \cup {name})) /\ NoName \in M \cup {name}
      /\ Len(stack') = Len(stack) /\ LastKind(stack') = "object" /\ stack' # <<>>
  BY <1>1, <1>2, <1>3, <1>4, EmptySeq DEF Alike
<1>7. QED
  BY <1>1, <1>3, <1>5, <1>6 DEF Structure, Innermost

\* A bracket closes the innermost frame.
LEMMA CloseStructure ==
  ASSUME Position, Structure, Close
  PROVE  Structure'
<1> DEFINE frame == stack[Len(stack)]
           outer == SubSeq(stack, 1, Len(stack) - 1)
           node  == Node(frame.kind, frame.start, pos + 1, frame.members)
<1>1. text' = text /\ pos' = pos + 1 /\ Return(node, outer)
  BY Zenon DEF Close
<1>2. /\ node.kind = frame.kind /\ node.start = frame.start /\ node.end = pos + 1
      /\ LastKind(stack) = frame.kind
  BY DEF Node, LastKind
<1> HIDE DEF node
<1>3. /\ ctl \in {"object_open", "object_next", "array_open", "array_next"}
      /\ ctl \in {"object_open", "object_next"} => Peek = "}"
      /\ ctl \in {"array_open", "array_next"} => Peek = "]"
  BY Zenon DEF Close
<1>4. ctl \in {"object_open", "object_next", "array_open", "array_next"}
  BY <1>3, Zenon
<1>5. PICK M : NoName \in M /\ stack \in Seq(Frames(M))
  BY DEF Structure
<1>6. /\ pos \in Nat /\ stack # <<>> /\ Len(stack) <= RecursionLimit
      /\ Nested(text, stack, pos)
  BY <1>4 DEF Position, Structure, Innermost
<1>7. Len(stack) \in 1..Len(stack)
  BY <1>5, <1>6, EmptySeq
<1>8. /\ frame.start \in Nat /\ 1 <= frame.start /\ frame.start < pos
      /\ StartsAsKind(text, frame)
  <2>1. frame.start \in Nat
    BY <1>5, <1>7, FrameTypes
  <2>2. StartsAsKind(text, frame) /\ 0 < frame.start /\ frame.start < pos
    BY <1>6, <1>7 DEF Nested
  <2>3. QED
    BY <2>1, <2>2
<1>9. outer \in Seq(Frames(M))
  BY <1>5, <1>6, NestedClose
<1>10. Len(outer) <= RecursionLimit
  <2>1. RecursionLimit \in Nat
    BY LexemeAssumption, Zenon
  <2>2. Len(outer) = Len(stack) - 1
    BY <1>5, <1>6, NestedClose
  <2>3. QED
    BY <1>6, <1>7, <2>1, <2>2
<1>11. Nested(text, outer, frame.start)
  BY <1>5, <1>6, NestedClose
<1>12. Ready(outer, frame.start)
  BY <1>5, <1>6, NestedClose
<1>13. EndsAsKind(text, node)
  <2>1. Peek = text[pos]
    BY <1>3, PeekReads, Zenon DEF Brackets
  <2>2. node.end - 1 = pos
    BY <1>2, <1>6
  <2>3. (frame.kind = "object" => ctl \in {"object_open", "object_next"})
        /\ (frame.kind = "array" => ctl \in {"array_open", "array_next"})
    BY <1>2, <1>4 DEF Structure, Innermost
  <2>4. (node.kind = "object" => text[pos] = "}") /\ (node.kind = "array" => text[pos] = "]")
    BY <1>2, <1>3, <2>1, <2>3, Zenon
  <2>5. QED
    BY <2>2, <2>4, Zenon DEF EndsAsKind
<1>14. StartsAsKind(text, node)
  BY <1>2, <1>8, StartsAlike
<1>15. WellPlaced(text, node, frame.start, pos + 1) /\ node.start \in Nat
  BY <1>2, <1>6, <1>8, <1>13, <1>14 DEF WellPlaced
<1> HIDE DEF frame, outer
<1>16. PICK from \in Nat : from = frame.start
  BY <1>8
<1>17. PICK frames \in Seq(Frames(M)) : frames = outer
  BY <1>9
<1>18. /\ Len(frames) <= RecursionLimit /\ 1 <= from /\ from <= pos
       /\ Nested(text, frames, from) /\ Ready(frames, from)
       /\ WellPlaced(text, node, from, pos + 1) /\ Return(node, frames)
  BY <1>1, <1>6, <1>8, <1>10, <1>11, <1>12, <1>15, <1>16, <1>17
<1>19. QED
  BY <1>1, <1>2, <1>5, <1>15, <1>18, ReturnKeeps

\* Every step of the scanner keeps the frames in place.
LEMMA StepStructure == Position /\ Structure /\ ScanStep => Position' /\ Structure'
BY StepPosition, MovesAlong, ScalarStructure, OpenStructure, NameStructure, CloseStructure
   DEF ScanStep

\* What the invariant says of spans.
LEMMA StructureNests == Position /\ Structure => SpansNest
<1> SUFFICES ASSUME Position, Structure
             PROVE  SpansNest
  OBVIOUS
<1>1. PICK M : stack \in Seq(Frames(M))
  BY DEF Structure
<1>2. /\ pos \in Nat /\ Nested(text, stack, pos)
      /\ ctl = "done" => WellPlaced(text, top, 1, pos) /\ top.end = pos
  BY DEF Position, Structure
<1>3. ASSUME NEW i \in 1..Len(stack)
      PROVE  /\ StartsAsKind(text, stack[i])
             /\ i > 1 => stack[i - 1].start < stack[i].start
             /\ \A m \in 1..Len(stack[i].members) :
                  WellPlaced(text, stack[i].members[m].node,
                             IF m = 1 THEN stack[i].start + 1
                             ELSE stack[i].members[m - 1].node.end + 1,
                             IF i < Len(stack) THEN stack[i + 1].start ELSE pos)
  <2>1. StartsAsKind(text, stack[i])
    BY <1>2 DEF Nested
  <2>2. i > 1 => stack[i - 1].start < stack[i].start
    BY <1>1, <1>2 DEF Nested
  <2>3. MembersPlaced(text, stack[i], IF i < Len(stack) THEN stack[i + 1].start ELSE pos)
    BY <1>2 DEF Nested
  <2>4. QED
    BY <2>1, <2>2, <2>3 DEF MembersPlaced
<1>4. QED
  BY <1>2, <1>3 DEF SpansNest

\* The point of the grammar and the positions that were reported.
Reports ==
  /\ ctl \in Reading \cup Stopped
  /\ first_whitespace \in 0..Len(text)
  /\ first_duplicate \in 0..Len(text)

\* Positions are reported inside the text, and no step leaves the grammar.
LEMMA StepReports == Position /\ Reports /\ ScanStep => Reports'
<1> SUFFICES ASSUME Position, Reports, ScanStep
             PROVE  Reports'
  OBVIOUS
<1>1. text' = text
  BY StepReadsOne
<1>2. pos \in Nat /\ Len(text) \in Nat /\ 1 <= pos
  BY DEF Position
<1>3. first_whitespace' \in 0..Len(text)
  BY <1>2, StepReadsOne DEF Reports
<1>4. first_duplicate' \in 0..Len(text)
  <2>1. CASE UNCHANGED first_duplicate
    BY <2>1 DEF Reports
  <2>2. CASE ReadName
    <3>1. pos <= Len(text) /\ first_duplicate' \in {pos, first_duplicate}
      BY <2>2, PeekReads DEF ReadName
    <3>2. QED
      BY <1>2, <3>1 DEF Reports
  <2>3. Skip \/ ReadScalar \/ Open \/ Overflow \/ ReadColon \/ ReadComma \/ Close \/ Fail
          => UNCHANGED first_duplicate
    BY Zenon DEF Skip, ReadScalar, Open, Overflow, ReadColon, ReadComma, Close, Fail
  <2>4. QED
    BY <2>1, <2>2, <2>3, Zenon DEF ScanStep
<1>5. ctl' \in {ctl, "done", "object_next", "array_next", "object_open", "array_open",
                "recursion_error", "colon", "member_value", "member", "element", "parse_error"}
  <2>1. CASE Skip \/ Overflow \/ ReadName \/ ReadColon \/ ReadComma \/ Fail
    BY <2>1, Zenon DEF Skip, Overflow, ReadName, ReadColon, ReadComma, Fail
  <2>2. CASE ReadScalar \/ Close
    BY <2>2, Zenon DEF ReadScalar, Close, Return
  <2>3. CASE Open
    BY <2>3, Zenon DEF Open
  <2>4. QED
    BY <2>1, <2>2, <2>3, Zenon DEF ScanStep
<1>6. ctl' \in Reading \cup Stopped
  BY <1>5, ReadingPoints DEF Reports, Stopped
<1>7. QED
  BY <1>1, <1>3, <1>4, <1>6 DEF Reports

\* What the invariant says of types.
LEMMA StructureTypes == Position /\ Structure /\ Reports => ScanTypeOK
<1> SUFFICES ASSUME Position, Structure, Reports
             PROVE  ScanTypeOK
  OBVIOUS
<1>1. PICK M : stack \in Seq(Frames(M))
  BY DEF Structure
<1>2. pos \in Nat /\ Nested(text, stack, pos) /\ Len(stack) <= RecursionLimit
  BY DEF Position, Structure
<1>3. ASSUME NEW i \in 1..Len(stack)
      PROVE  stack[i].kind \in {"object", "array"} /\ stack[i].start \in 1..(pos - 1)
  <2>1. stack[i].kind \in {"object", "array"} /\ stack[i].start \in Nat
    BY <1>1, FrameTypes
  <2>2. 0 < stack[i].start /\ stack[i].start < pos
    BY <1>2 DEF Nested
  <2>3. QED
    BY <1>2, <2>1, <2>2
<1>4. QED
  BY <1>2, <1>3 DEF ScanTypeOK, Position, Reports

---------------------------------------------------------------------------
(* The scanner inside the format stage.                                   *)

\* The scanner starts with nothing read and nothing skipped.
LEMMA InitWhitespace == FormatInit => Position /\ WhitespaceIsExact
BY LexemeAssumption DEF FormatInit, ScanInit, Position, WhitespaceIsExact

\* Every step of the format stage keeps the report exact.
LEMMA NextWhitespace ==
  Position /\ WhitespaceIsExact /\ [FormatNext]_formatVars => (Position /\ WhitespaceIsExact)'
<1> SUFFICES ASSUME Position, WhitespaceIsExact, [FormatNext]_formatVars
             PROVE  Position' /\ WhitespaceIsExact'
  OBVIOUS
<1> DEFINE skipped(n) == {i \in 1..(n - 1) : text[i] \in WHITESPACE}
<1>1. CASE UNCHANGED <<text, pos, first_whitespace>>
  BY <1>1 DEF Position, WhitespaceIsExact
<1>2. CASE /\ text' = text /\ pos <= Len(text) /\ pos' = pos + 1
           /\ first_whitespace' = IF text[pos] \in WHITESPACE /\ first_whitespace = 0
                                  THEN pos ELSE first_whitespace
  <2>1. Position'
    BY <1>2 DEF Position
  <2>2. /\ skipped(pos + 1) = skipped(pos) \cup {i \in {pos} : text[i] \in WHITESPACE}
        /\ \A i \in skipped(pos) : i \in Nat /\ 0 < i /\ i < pos
    BY DEF Position
  <2>3. IF skipped(pos) = {} THEN first_whitespace = 0
        ELSE first_whitespace \in skipped(pos) /\ \A i \in skipped(pos) : first_whitespace <= i
    BY DEF WhitespaceIsExact
  <2>4. IF skipped(pos + 1) = {} THEN first_whitespace' = 0
        ELSE /\ first_whitespace' \in skipped(pos + 1)
             /\ \A i \in skipped(pos + 1) : first_whitespace' <= i
    <3> HIDE DEF skipped
    <3>1. CASE text[pos] \notin WHITESPACE
      BY <1>2, <2>2, <2>3, <3>1
    <3>2. CASE text[pos] \in WHITESPACE /\ skipped(pos) = {}
      BY <1>2, <2>2, <2>3, <3>2 DEF Position
    <3>3. CASE text[pos] \in WHITESPACE /\ skipped(pos) # {}
      BY <1>2, <2>2, <2>3, <3>3 DEF Position
    <3>4. QED
      BY <3>1, <3>2, <3>3
  <2>5. QED
    BY <1>2, <2>1, <2>4 DEF WhitespaceIsExact
<1>3. CASE Scan
  BY <1>1, <1>2, <1>3, StepReadsOne DEF Scan
<1>4. CASE Decode \/ ScanFailed \/ CheckNode
  BY <1>1, <1>4 DEF Decode, ScanFailed, CheckNode, scanVars
<1>5. CASE UNCHANGED formatVars
  BY <1>1, <1>5 DEF formatVars, scanVars
<1>6. QED
  BY <1>3, <1>4, <1>5 DEF FormatNext

\* At every point of the scan of a text of any length and depth, whitespace is
\* remembered exactly when some was read, and the first of it: the code
\* NON_CANONICAL_WHITESPACE is neither missed nor invented.
THEOREM WhitespaceExact == FormatSpec => []WhitespaceIsExact
BY InitWhitespace, NextWhitespace, PTL DEF FormatSpec

\* The scanner's state has its types, and its frames are in place.
ScanInv == Position /\ Structure /\ Reports

\* A file starts out unread.
LEMMA InitScan == FormatInit => ScanInv
<1> SUFFICES ASSUME FormatInit
             PROVE  ScanInv
  OBVIOUS
<1>1. ScanInit
  BY DEF FormatInit
<1>2. ctl = "top" /\ first_whitespace = 0 /\ first_duplicate = 0
  BY <1>1, Zenon DEF ScanInit
<1>3. Position /\ Structure
  BY <1>1, InitStructure
<1>4. QED
  BY <1>2, <1>3, ReadingPoints DEF ScanInv, Reports, Position

\* Only Scan touches the scanner's state.
LEMMA NextScan == ScanInv /\ [FormatNext]_formatVars => ScanInv'
<1> SUFFICES ASSUME ScanInv, [FormatNext]_formatVars
             PROVE  ScanInv'
  OBVIOUS
<1>1. CASE ScanStep
  BY <1>1, StepStructure, StepReports DEF ScanInv
<1>2. CASE UNCHANGED scanVars
  <2>1. UNCHANGED <<text, pos, ctl, stack, top, first_whitespace, first_duplicate>>
    BY <1>2 DEF scanVars
  <2>2. Position' /\ Structure' /\ Reports'
    BY <2>1 DEF ScanInv, Position, Structure, Innermost, Reports
  <2>3. QED
    BY <2>2 DEF ScanInv
<1>3. CASE FormatNext
  BY <1>1, <1>2, <1>3, Zenon DEF FormatNext, Scan, Decode, ScanFailed, CheckNode
<1>4. CASE UNCHANGED formatVars
  BY <1>2, <1>4 DEF formatVars
<1>5. QED
  BY <1>3, <1>4

\* The state of the scanner has its types, and it never nests deeper than the
\* interpreter allows, for texts of any length and any limit of recursion.
THEOREM ScanTypes == FormatSpec => []ScanTypeOK
<1>1. ScanInv => ScanTypeOK
  BY StructureTypes DEF ScanInv
<1>2. QED
  BY <1>1, InitScan, NextScan, PTL DEF FormatSpec

\* At every point of the scan of a text of any length and depth, the spans of
\* the values read so far begin and end at their own brackets, and members lie
\* one after the other inside the value that holds them: the raw slice that is
\* hashed as a section is the section.
THEOREM SpansAlwaysNest == FormatSpec => []SpansNest
<1>1. ScanInv => SpansNest
  BY StructureNests DEF ScanInv
<1>2. QED
  BY <1>1, InitScan, NextScan, PTL DEF FormatSpec

---------------------------------------------------------------------------
(* What the scanner has read when it has skipped no whitespace: the text   *)
(* around the sections of an accepted file.                                *)

\* Where the m-th member of the object f is to start, and how it is to start:
\* after a comma, unless it is the first, and with its name and a colon.
Before(f, m) == IF m = 1 THEN f.start + 1 ELSE f.members[m - 1].node.end + 1
Comma(t, f, m) == m > 1 => t[f.members[m - 1].node.end] = ","
Named(t, f, m, name, value) ==
  Comma(t, f, m) /\ Decoded(t[Before(f, m)]) = name /\ value = Before(f, m) + 2

\* The members of f lie side by side.
Packed(t, f) ==
  \A m \in 1..Len(f.members) : Named(t, f, m, f.members[m].key, f.members[m].node.start)

\* The member of f that is being read.
Upcoming(f) == Len(f.members) + 1
Pending(t, f, value) == Named(t, f, Upcoming(f), f.key, value)

\* The last member of f ends at position p.
Reached(f, p) == f.members # <<>> /\ f.members[Len(f.members)].node.end = p

\* The outermost of the frames fs starts the text; its members and the name of
\* the next one lie side by side, whose value starts at value or has its frame.
Awaits(t, fs, value) ==
  fs # <<>> =>
    /\ fs[1].start = 1
    /\ fs[1].kind = "object" =>
         /\ Packed(t, fs[1])
         /\ Pending(t, fs[1], IF Len(fs) > 1 THEN fs[2].start ELSE value)

\* The top-level value ends after its last member, if it has one.
Closed(t, f) ==
  /\ Len(f.members) \in Nat
  /\ f.members # <<>> => t[f.end - 1] = "}" /\ Reached(f, f.end - 1)

\* How much of the next member of the top-level object f has been read at each
\* point of the grammar.
Progress(t, f, c, p) ==
  /\ c = "object_open" => f.members = <<>> /\ p = Before(f, 1)
  /\ c = "member" => p = Before(f, Upcoming(f)) /\ Comma(t, f, Upcoming(f))
  /\ c = "colon" => Pending(t, f, p + 1)
  /\ c = "member_value" => Pending(t, f, p)
  /\ c = "object_next" => Reached(f, p)

\* The outermost of the frames fs starts the text, and its members and what has
\* been read of the next one lie side by side.
Outermost(t, fs, c, p) ==
  fs # <<>> =>
    /\ fs[1].start = 1
    /\ fs[1].kind = "object" =>
         /\ Packed(t, fs[1])
         /\ IF Len(fs) > 1 THEN Pending(t, fs[1], fs[2].start)
            ELSE Progress(t, fs[1], c, p)

\* Nothing lies between the lexemes that the grammar asks for.
Dense ==
  first_whitespace = 0 =>
    /\ ctl = "top" => pos = 1
    /\ Outermost(text, stack, ctl, pos)
    /\ ctl = "done" =>
         /\ top.start = 1
         /\ top.kind = "object" => Packed(text, top) /\ Closed(text, top)

\* Two objects whose m-th members start alike.
LEMMA NamedAlike ==
  ASSUME NEW t, NEW f, NEW g, NEW m, Before(f, m) = Before(g, m),
         m > 1 => f.members[m - 1] = g.members[m - 1], NEW name, NEW value
  PROVE  Named(t, f, m, name, value) <=> Named(t, g, m, name, value)
BY Zenon DEF Named, Comma

\* Only its start and its members decide whether a value is packed.
LEMMA PackedAlike ==
  ASSUME NEW t, NEW f, NEW g, f.start = g.start, f.members = g.members, Packed(t, f)
  PROVE  Packed(t, g) /\ \A m : Before(f, m) = Before(g, m)
<1>1. \A m : Before(f, m) = Before(g, m)
  BY Zenon DEF Before
<1>2. QED
  BY <1>1, NamedAlike, Zenon DEF Packed

\* The value that f awaits becomes its last member.
LEMMA PackedAppend ==
  ASSUME NEW M, NEW t, NEW f \in Frames(M), NEW g, NEW item,
         g.start = f.start, g.members = Append(f.members, item), item.key = f.key,
         Packed(t, f), Pending(t, f, item.node.start)
  PROVE  Packed(t, g) /\ Reached(g, item.node.end)
<1>1. f.members \in Seq(M \cup {item})
  <2>1. f.members \in Seq(M)
    BY DEF Frames
  <2>2. QED
    BY <2>1, SeqMonotonic
<1>2. PICK k \in Nat : k = Len(f.members)
  BY <1>1, LenProperties
<1>3. /\ Len(g.members) = k + 1 /\ g.members[k + 1] = item
      /\ \A m \in 1..k : g.members[m] = f.members[m]
  BY <1>1, <1>2, AppendProperties
<1>4. \A m \in 1..(k + 1) :
        Before(g, m) = Before(f, m) /\ (m > 1 => f.members[m - 1] = g.members[m - 1])
  BY <1>3 DEF Before
<1>5. ASSUME NEW m \in 1..(k + 1)
      PROVE  Named(t, g, m, g.members[m].key, g.members[m].node.start)
  <2>1. CASE m \in 1..k
    <3>1. Named(t, f, m, f.members[m].key, f.members[m].node.start)
      BY <1>2, <2>1 DEF Packed
    <3>2. QED
      BY <1>3, <1>4, <2>1, <3>1, NamedAlike
  <2>2. CASE m = k + 1
    <3>1. Named(t, f, m, item.key, item.node.start)
      BY <1>2, <2>2 DEF Pending, Upcoming
    <3>2. Named(t, g, m, item.key, item.node.start)
      BY <1>4, <3>1, NamedAlike
    <3>3. g.members[m] = item
      BY <1>3, <2>2
    <3>4. QED
      BY <3>2, <3>3
  <2>3. m \in 1..k \/ m = k + 1
    OBVIOUS
  <2>4. QED
    BY <2>1, <2>2, <2>3, Zenon
<1>6. Reached(g, item.node.end)
  <2>1. g.members # <<>>
    BY <1>3
  <2>2. QED
    BY <1>3, <2>1 DEF Reached
<1>7. QED
  BY <1>3, <1>5, <1>6 DEF Packed

\* A bracket opens the value that is awaited.
LEMMA OpenedAwaits ==
  ASSUME NEW M, NEW t, NEW fs \in Seq(Frames(M)), NEW p \in Nat, NEW kind, NEW c,
         fs = <<>> => p = 1, Awaits(t, fs, p), c = "object_open" \/ kind = "array"
  PROVE  Outermost(t, Append(fs, Frame(kind, p)), c, p + 1)
<1> DEFINE f == Frame(kind, p)
           new == Append(fs, f)
<1>1. PICK n \in Nat : n = Len(fs)
  BY LenProperties
<1>2. /\ Len(new) = n + 1 /\ new[n + 1] = f
      /\ \A i \in 1..n : new[i] = fs[i]
  BY <1>1, AppendProperties
<1>3. f.kind = kind /\ f.start = p /\ f.members = <<>>
  BY DEF Frame
<1> HIDE DEF f, new
<1>4. CASE n = 0
  <2>1. fs = <<>>
    BY <1>1, <1>4, EmptySeq
  <2>2. new[1] = f /\ p = 1 /\ Len(new) = 1
    BY <1>2, <1>4, <2>1
  <2>3. Packed(t, f) /\ Before(f, 1) = 2
    BY <1>3, <2>2 DEF Packed, Before
  <2>4. kind # "array" => Progress(t, f, c, p + 1)
    BY <1>3, <2>2, <2>3 DEF Progress
  <2>5. kind = "object" => kind # "array"
    OBVIOUS
  <2>6. QED
    BY <1>3, <2>2, <2>3, <2>4, <2>5 DEF Outermost, new, f
<1>5. CASE n # 0
  <2>1. /\ fs # <<>> /\ new[1] = fs[1] /\ Len(new) > 1
        /\ new[2].start = IF Len(fs) > 1 THEN fs[2].start ELSE p
    BY <1>1, <1>2, <1>3, <1>5
  <2>2. QED
    BY <2>1 DEF Awaits, Outermost, new, f
<1>6. QED
  BY <1>4, <1>5

\* The innermost frame closes, and is the value that the one around it awaits.
LEMMA ClosedAwaits ==
  ASSUME NEW M, NEW t, NEW fs \in Seq(Frames(M)), fs # <<>>, NEW c, NEW p,
         Outermost(t, fs, c, p)
  PROVE  Awaits(t, SubSeq(fs, 1, Len(fs) - 1), fs[Len(fs)].start)
<1> DEFINE new == SubSeq(fs, 1, Len(fs) - 1)
<1>1. PICK n \in Nat \ {0} : n = Len(fs)
  BY EmptySeq, LenProperties
<1>2. Len(new) = n - 1 /\ \A i \in 1..(n - 1) : new[i] = fs[i]
  <2>1. n - 1 \in 0..Len(fs) /\ Len(fs) - 1 = n - 1
    BY <1>1
  <2>2. QED
    BY <2>1, PrefixProperties
<1> HIDE DEF new
<1>3. CASE new = <<>>
  BY <1>3 DEF Awaits, new
<1>4. CASE new # <<>>
  <2>1. new[1] = fs[1] /\ Len(fs) > 1
    BY <1>1, <1>2, <1>4 DEF new
  <2>2. fs[2].start = IF Len(new) > 1 THEN new[2].start ELSE fs[Len(fs)].start
    BY <1>1, <1>2, <2>1
  <2>3. QED
    BY <2>1, <2>2 DEF Outermost, Awaits, new
<1>5. QED
  BY <1>3, <1>4

\* The value that is awaited has been read.
LEMMA ReturnedAwaits ==
  ASSUME NEW M, NEW t, NEW fs \in Seq(Frames(M)), fs # <<>>, NEW item, NEW p \in Nat, NEW c,
         item.key = fs[Len(fs)].key, item.node.end = p, Awaits(t, fs, item.node.start),
         c = "object_next" \/ (LastKind(fs) # "object" /\ c = "array_next")
  PROVE  Outermost(t, WithMember(fs, item), c, p)
<1> DEFINE gs == WithMember(fs, item)
           f == [fs[Len(fs)] EXCEPT !.members = Append(@, item)]
<1>1. PICK n \in 1..Len(fs) : n = Len(fs)
  BY EmptySeq, LenProperties
<1>2. fs[n] \in Frames(M) /\ Len(fs) \in Nat
  BY <1>1, FrameTypes
<1>3. gs = [fs EXCEPT ![n] = f]
  BY <1>1, <1>2 DEF Frames, WithMember, gs
<1>4. /\ f.kind = fs[n].kind /\ f.start = fs[n].start
      /\ f.members = Append(fs[n].members, item)
  BY <1>1, <1>2 DEF Frames
<1> HIDE DEF f, gs
<1>5. /\ Len(gs) = Len(fs) /\ \A i \in 1..Len(fs) : i # n => gs[i] = fs[i]
  BY <1>1, <1>3
<1>6. gs[n] = f
  BY <1>1, <1>3
<1>7. CASE n = 1
  <2>1. ASSUME Packed(t, fs[1]), Pending(t, fs[1], item.node.start)
        PROVE  Packed(t, gs[1]) /\ Reached(gs[1], p)
    <3>1. /\ fs[1] \in Frames(M) /\ gs[1].start = fs[1].start
          /\ gs[1].members = Append(fs[1].members, item) /\ item.key = fs[1].key
      BY <1>1, <1>2, <1>4, <1>6, <1>7
    <3>2. Packed(t, gs[1])
      BY <2>1, <3>1, PackedAppend
    <3>3. Reached(gs[1], item.node.end)
      BY <2>1, <3>1, PackedAppend
    <3>4. QED
      BY <3>2, <3>3
  <2>2. fs[1].start = 1
        /\ (fs[1].kind = "object" => Packed(t, fs[1]) /\ Pending(t, fs[1], item.node.start))
    BY <1>1, <1>7 DEF Awaits
  <2>3. fs[1].kind = "object" => Progress(t, gs[1], c, p)
    BY <1>1, <1>7, <2>1, <2>2 DEF Progress, LastKind
  <2>4. QED
    BY <1>1, <1>4, <1>5, <1>6, <1>7, <2>1, <2>2, <2>3 DEF Outermost, gs
<1>8. CASE n # 1
  <2>1. /\ gs[1] = fs[1] /\ Len(gs) > 1 /\ Len(fs) > 1
        /\ gs[2].start = fs[2].start
    BY <1>1, <1>4, <1>5, <1>6, <1>8
  <2>2. QED
    BY <2>1 DEF Outermost, Awaits, gs
<1>9. QED
  BY <1>7, <1>8

\* A name is read right where the next member was to start.
LEMMA NamedAwaits ==
  ASSUME NEW M, NEW t, NEW fs \in Seq(Frames(M)), fs # <<>>, NEW p \in Nat,
         NEW c \in {"object_open", "member"}, Outermost(t, fs, c, p), NEW name, name = Decoded(t[p])
  PROVE  Outermost(t, WithName(fs, name), "colon", p + 1)
<1> DEFINE gs == WithName(fs, name)
           f == [fs[Len(fs)] EXCEPT !.seen = @ \cup {name}, !.key = name]
<1>1. PICK n \in 1..Len(fs) : n = Len(fs)
  BY EmptySeq, LenProperties
<1>2. fs[n] \in Frames(M) /\ Len(fs) \in Nat
  BY <1>1, FrameTypes
<1>3. gs = [fs EXCEPT ![n] = f]
  BY <1>1, <1>2 DEF Frames, WithName, gs
<1>4. /\ f.kind = fs[n].kind /\ f.start = fs[n].start
      /\ f.members = fs[n].members /\ f.key = name
  BY <1>1, <1>2 DEF Frames
<1> HIDE DEF f, gs
<1>5. /\ Len(gs) = Len(fs) /\ \A i \in 1..Len(fs) : i # n => gs[i] = fs[i]
  BY <1>1, <1>3
<1>6. gs[n] = f
  BY <1>1, <1>3
<1>7. CASE n = 1
  <2>1. ASSUME fs[1].kind = "object"
        PROVE  Packed(t, f) /\ Progress(t, f, "colon", p + 1)
    <3>1. Packed(t, fs[1]) /\ Progress(t, fs[1], c, p)
      BY <1>1, <1>7, <2>1 DEF Outermost
    <3>2. Packed(t, f) /\ \A m : Before(f, m) = Before(fs[1], m)
      BY <1>4, <1>7, <3>1, PackedAlike
    <3>3. Upcoming(f) = Upcoming(fs[1])
      BY <1>4, <1>7 DEF Upcoming
    <3>4. Before(fs[1], Upcoming(fs[1])) = p /\ Comma(t, fs[1], Upcoming(fs[1]))
      <4>1. CASE c = "member"
        BY <3>1, <4>1 DEF Progress
      <4>2. CASE c = "object_open"
        <5>1. fs[1].members = <<>> /\ p = Before(fs[1], 1)
          BY <3>1, <4>2 DEF Progress
        <5>2. Upcoming(fs[1]) = 1 /\ ~ 1 > 1
          BY <5>1 DEF Upcoming
        <5>3. QED
          BY <5>1, <5>2, Zenon DEF Comma
      <4>3. QED
        BY <4>1, <4>2
    <3>5. Named(t, fs[1], Upcoming(fs[1]), name, p + 2)
      BY <3>4, Zenon DEF Named
    <3>6. f.members = fs[1].members
      BY <1>4, <1>7
    <3>7. Named(t, f, Upcoming(fs[1]), name, p + 2)
      BY <3>2, <3>5, <3>6, NamedAlike
    <3>8. QED
      BY <1>4, <3>2, <3>3, <3>7 DEF Progress, Pending
  <2>2. QED
    BY <1>1, <1>4, <1>5, <1>6, <1>7, <2>1 DEF Outermost, gs
<1>8. CASE n # 1
  <2>1. /\ gs[1] = fs[1] /\ Len(gs) > 1 /\ Len(fs) > 1
        /\ gs[2].start = fs[2].start
    BY <1>1, <1>4, <1>5, <1>6, <1>8
  <2>2. QED
    BY <2>1 DEF Outermost, gs
<1>9. QED
  BY <1>7, <1>8

\* Where a value may start, one is awaited.
LEMMA ValueAwaited ==
  ASSUME Position, Structure, Dense, first_whitespace = 0, ctl \in ValuePoints
  PROVE  Awaits(text, stack, pos) /\ (stack = <<>> => pos = 1)
<1>1. PICK M : stack \in Seq(Frames(M))
  BY DEF Structure
<1>2. Outermost(text, stack, ctl, pos) /\ (ctl = "top" => pos = 1)
  BY DEF Dense
<1>3. CASE stack = <<>>
  <2>1. ctl = "top"
    BY <1>3 DEF Structure, Innermost, ValuePoints
  <2>2. QED
    BY <1>2, <1>3, <2>1 DEF Awaits
<1>4. CASE stack # <<>> /\ Len(stack) > 1
  BY <1>2, <1>4 DEF Outermost, Awaits
<1>5. CASE stack # <<>> /\ ~ Len(stack) > 1
  <2>1. Len(stack) = 1
    <3>1. Len(stack) \in Nat \ {0}
      BY <1>1, <1>5, EmptySeq
    <3>2. QED
      BY <1>5, <3>1
  <2>2. stack[1].kind = "object" => ctl = "member_value"
    BY <1>5, <2>1 DEF Structure, Innermost, LastKind, ValuePoints
  <2>3. QED
    BY <1>2, <1>5, <2>2 DEF Outermost, Awaits, Progress
<1>6. QED
  BY <1>3, <1>4, <1>5

\* A value is read where one was awaited.
LEMMA ReturnDense ==
  ASSUME text' = text, pos' \in Nat, NEW M, NEW frames \in Seq(Frames(M)),
         NEW node, node.end = pos', Return(node, frames), Awaits(text, frames, node.start),
         frames = <<>> => node.start = 1,
         frames = <<>> /\ node.kind = "object" => Packed(text, node) /\ Closed(text, node)
  PROVE  Dense'
<1>1. CASE frames = <<>>
  <2>1. stack' = <<>> /\ ctl' = "done" /\ top' = node
    BY <1>1 DEF Return
  <2>2. QED
    BY <1>1, <2>1 DEF Dense, Outermost
<1>2. CASE frames # <<>>
  <2> DEFINE item == [key |-> frames[Len(frames)].key, node |-> node]
  <2>1. /\ stack' = WithMember(frames, item)
        /\ ctl' = IF LastKind(frames) = "object" THEN "object_next" ELSE "array_next"
    BY <1>2 DEF Return, WithMember, LastKind
  <2>2. item.key = frames[Len(frames)].key /\ item.node = node
    OBVIOUS
  <2> HIDE DEF item
  <2>3. PICK p \in Nat : p = pos'
    OBVIOUS
  <2>4. ctl' = "object_next" \/ (LastKind(frames) # "object" /\ ctl' = "array_next")
    BY <2>1
  <2>5. Awaits(text, frames, item.node.start) /\ item.node.end = p
    BY <2>2, <2>3
  <2>6. Outermost(text, WithMember(frames, item), ctl', p)
    BY <1>2, <2>2, <2>4, <2>5, ReturnedAwaits
  <2>7. ctl' # "top" /\ ctl' # "done"
    BY <2>1
  <2>8. QED
    BY <2>1, <2>3, <2>6, <2>7 DEF Dense
<1>3. QED
  BY <1>1, <1>2

\* While no whitespace is skipped, every step of the scanner reads the lexeme
\* right after the last one.
LEMMA StepDense ==
  ASSUME Position, Structure, Dense, ScanStep
  PROVE  Dense'
<1>1. /\ text' = text /\ pos \in Nat \ {0} /\ pos' \in Nat
      /\ first_whitespace' # first_whitespace => first_whitespace' # 0
  BY StepReadsOne DEF Position
<1>2. CASE first_whitespace' # 0
  BY <1>2 DEF Dense
<1>3. CASE first_whitespace' = 0
  <2>1. first_whitespace = 0
    BY <1>1, <1>3
  <2>2. /\ Outermost(text, stack, ctl, pos) /\ (ctl = "top" => pos = 1)
    BY <2>1 DEF Dense
  <2>3. PICK M : stack \in Seq(Frames(M))
    BY DEF Structure
  <2>4. CASE Skip
    <3>1. first_whitespace' = pos
      BY <2>1, <2>4, Zenon DEF Skip
    <3>2. QED
      BY <1>1, <1>3, <3>1
  <2>5. CASE ReadScalar
    <3> DEFINE node == Node("scalar", pos, pos + 1, <<>>)
    <3>1. pos' = pos + 1 /\ ctl \in ValuePoints /\ Return(node, stack)
      BY <2>5, Zenon DEF ReadScalar, ValuePoints
    <3>2. node.start = pos /\ node.end = pos + 1 /\ node.kind # "object"
      BY DEF Node
    <3>3. Awaits(text, stack, pos) /\ (stack = <<>> => pos = 1)
      BY <2>1, <3>1, ValueAwaited
    <3> HIDE DEF node
    <3>4. QED
      BY <1>1, <2>3, <3>1, <3>2, <3>3, ReturnDense
  <2>6. CASE Open
    <3>1. PICK kind, c :
            /\ stack' = Append(stack, Frame(kind, pos)) /\ ctl' = c
            /\ c = "object_open" \/ (kind = "array" /\ c = "array_open")
      BY <2>6, Zenon DEF Open
    <3>2. pos' = pos + 1 /\ ctl \in ValuePoints
      BY <2>6, Zenon DEF Open, ValuePoints
    <3>3. Awaits(text, stack, pos) /\ (stack = <<>> => pos = 1)
      BY <2>1, <3>2, ValueAwaited
    <3>4. Outermost(text, Append(stack, Frame(kind, pos)), c, pos + 1)
      BY <1>1, <2>3, <3>1, <3>3, OpenedAwaits
    <3>5. c # "top" /\ c # "done"
      BY <3>1
    <3>6. QED
      BY <1>1, <3>1, <3>2, <3>4, <3>5 DEF Dense
  <2>7. CASE ReadName
    <3>1. PICK name :
            /\ name = Decoded(text[pos]) /\ stack' = WithName(stack, name)
      BY <2>7, PeekReads DEF ReadName, WithName
    <3>2. ctl' = "colon" /\ pos' = pos + 1 /\ ctl \in {"object_open", "member"}
      BY <2>7, Zenon DEF ReadName
    <3>3. stack # <<>>
      BY <3>2 DEF Structure, Innermost
    <3>4. PICK c \in {"object_open", "member"} : c = ctl
      BY <3>2
    <3>5. Outermost(text, WithName(stack, name), "colon", pos + 1)
      BY <1>1, <2>2, <2>3, <3>1, <3>3, <3>4, NamedAwaits
    <3>6. QED
      BY <1>1, <3>1, <3>2, <3>5 DEF Dense
  <2>8. CASE ReadColon
    <3>1. stack' = stack /\ ctl = "colon" /\ ctl' = "member_value" /\ pos' = pos + 1
      BY <2>8, Zenon DEF ReadColon
    <3>2. Outermost(text, stack, "member_value", pos + 1)
      BY <2>2, <3>1 DEF Outermost, Progress
    <3>3. QED
      BY <1>1, <3>1, <3>2 DEF Dense
  <2>9. CASE ReadComma
    <3>1. /\ stack' = stack /\ ctl \in {"object_next", "array_next"} /\ pos' = pos + 1
          /\ ctl' = IF ctl = "object_next" THEN "member" ELSE "element"
      BY <2>9, Zenon DEF ReadComma
    <3>2. ASSUME NEW f \in Frames(M), Reached(f, pos)
          PROVE  pos + 1 = Before(f, Upcoming(f)) /\ Comma(text, f, Upcoming(f))
      <4>1. text[pos] = ","
        BY <2>9, PeekReads, Zenon DEF ReadComma, Brackets
      <4>2. f.members \in Seq(M) /\ f.members # <<>>
        BY <3>2 DEF Frames, Reached
      <4>3. PICK k \in Nat \ {0} : k = Len(f.members)
        BY <4>2, EmptySeq, LenProperties
      <4>4. Upcoming(f) # 1 /\ Upcoming(f) - 1 = Len(f.members)
        BY <4>3 DEF Upcoming
      <4>5. f.members[Upcoming(f) - 1].node.end = pos
        BY <3>2, <4>4 DEF Reached
      <4>6. Before(f, Upcoming(f)) = pos + 1
        BY <4>4, <4>5 DEF Before
      <4>7. QED
        BY <4>1, <4>5, <4>6, Zenon DEF Comma
    <3>3. Outermost(text, stack, ctl', pos + 1)
      <4>1. stack # <<>> => stack[1] \in Frames(M)
        BY <2>3, EmptySeq, FrameTypes
      <4>2. QED
        BY <2>2, <3>1, <3>2, <4>1 DEF Outermost, Progress
    <3>4. ctl' # "top" /\ ctl' # "done"
      BY <3>1
    <3>5. QED
      BY <1>1, <3>1, <3>3, <3>4 DEF Dense
  <2>10. CASE Close
    <3> DEFINE frame == stack[Len(stack)]
               outer == SubSeq(stack, 1, Len(stack) - 1)
               node  == Node(frame.kind, frame.start, pos + 1, frame.members)
    <3>1. pos' = pos + 1 /\ Return(node, outer)
      BY <2>10, Zenon DEF Close
    <3>2. /\ node.kind = frame.kind /\ node.start = frame.start /\ node.end = pos + 1
          /\ node.members = frame.members
      BY DEF Node
    <3>3. /\ ctl \in {"object_open", "object_next", "array_open", "array_next"}
          /\ ctl = "object_next" => Peek = "}"
      BY <2>10, Zenon DEF Close
    <3>4. ctl \in {"object_open", "object_next", "array_open", "array_next"} /\ stack # <<>>
      <4>1. ctl \in {"object_open", "object_next", "array_open", "array_next"}
        BY <3>3, Zenon
      <4>2. QED
        BY <4>1 DEF Structure, Innermost
    <3>5. Awaits(text, outer, frame.start)
      BY <2>2, <2>3, <3>4, ClosedAwaits
    <3>6. outer \in Seq(Frames(M)) /\ Len(outer) = Len(stack) - 1
      <4>1. Len(stack) \in Nat \ {0}
        BY <2>3, <3>4, EmptySeq
      <4>2. Len(stack) - 1 \in 0..Len(stack)
        BY <4>1
      <4>3. QED
        BY <2>3, <4>2, PrefixProperties
    <3> HIDE DEF outer, node
    <3>7. ASSUME outer = <<>>
          PROVE  /\ node.start = 1
                 /\ node.kind = "object" => Packed(text, node) /\ Closed(text, node)
      <4>1. Len(stack) = 1
        <5>1. Len(stack) \in Nat /\ Len(outer) = 0
          BY <2>3, <3>7
        <5>2. QED
          BY <3>6, <5>1
      <4>2. /\ frame.start = 1
            /\ frame.kind = "object" => Packed(text, frame) /\ Progress(text, frame, ctl, pos)
        BY <2>2, <3>4, <4>1 DEF Outermost
      <4>3. ASSUME frame.kind = "object"
            PROVE  Packed(text, node) /\ Closed(text, node)
        <5>1. Packed(text, node) /\ \A m : Before(node, m) = Before(frame, m)
          <6>1. PICK f : f = frame
            OBVIOUS
          <6>2. /\ f.start = node.start /\ f.members = node.members /\ Packed(text, f)
            BY <3>2, <4>2, <4>3, <6>1
          <6>3. Packed(text, node) /\ \A m : Before(f, m) = Before(node, m)
            BY <6>2, PackedAlike
          <6>4. QED
            BY <6>1, <6>3
        <5>2. ctl \in {"object_open", "object_next"}
          BY <3>4, <4>3 DEF Structure, Innermost, LastKind
        <5>3. CASE ctl = "object_open"
          <6>1. frame.members = <<>>
            BY <4>2, <4>3, <5>3 DEF Progress
          <6>2. QED
            BY <3>2, <5>1, <6>1 DEF Closed
        <5>4. CASE ctl = "object_next"
          <6>1. text[pos] = "}"
            BY <3>3, <5>4, PeekReads, Zenon DEF Brackets
          <6>2. Reached(frame, pos)
            BY <4>2, <4>3, <5>4 DEF Progress
          <6>3. Reached(node, pos) /\ node.end - 1 = pos
            BY <1>1, <3>2, <6>2 DEF Reached
          <6>4. Len(node.members) \in Nat
            BY <2>3, <3>2, <4>1, FrameTypes
          <6>5. QED
            BY <5>1, <6>1, <6>3, <6>4, Zenon DEF Closed
        <5>5. QED
          BY <5>2, <5>3, <5>4
      <4>4. QED
        BY <3>2, <4>2, <4>3
    <3>8. QED
      BY <1>1, <3>1, <3>2, <3>5, <3>6, <3>7, ReturnDense
  <2>11. CASE Overflow \/ Fail
    <3>1. stack' = stack /\ ctl' \in {"recursion_error", "parse_error"}
      BY <2>11, Zenon DEF Overflow, Fail
    <3>2. Outermost(text, stack, ctl', pos')
      BY <2>2, <3>1 DEF Outermost, Progress
    <3>3. QED
      BY <1>1, <3>1, <3>2 DEF Dense
  <2>12. QED
    BY <2>4, <2>5, <2>6, <2>7, <2>8, <2>9, <2>10, <2>11, Zenon DEF ScanStep
<1>4. QED
  BY <1>2, <1>3

\* Nothing has been read of a file that starts out.
LEMMA InitDense == FormatInit => Dense
<1> SUFFICES ASSUME FormatInit
             PROVE  Dense
  OBVIOUS
<1>1. pos = 1 /\ stack = <<>> /\ ctl = "top"
  BY Zenon DEF FormatInit, ScanInit
<1>2. QED
  BY <1>1 DEF Dense, Outermost

\* Only Scan reads on.
LEMMA NextDense == ScanInv /\ Dense /\ [FormatNext]_formatVars => Dense'
<1> SUFFICES ASSUME ScanInv, Dense, [FormatNext]_formatVars
             PROVE  Dense'
  OBVIOUS
<1>1. CASE ScanStep
  BY <1>1, StepDense DEF ScanInv
<1>2. CASE UNCHANGED scanVars
  BY <1>2 DEF scanVars, Dense
<1>3. CASE FormatNext
  BY <1>1, <1>2, <1>3, Zenon DEF FormatNext, Scan, Decode, ScanFailed, CheckNode
<1>4. CASE UNCHANGED formatVars
  BY <1>2, <1>4 DEF formatVars
<1>5. QED
  BY <1>3, <1>4

\* The smallest of some of the eleven checks.
LEMMA FirstOfEleven ==
  ASSUME NEW S \in SUBSET (1..11), S # {}
  PROVE  \E i \in S : \A j \in S : i <= j
<1> SUFFICES ASSUME \A i \in S : \E j \in S : j < i
             PROVE  FALSE
  OBVIOUS
<1>1. 1 \notin S /\ 2 \notin S
  OBVIOUS
<1>2. 3 \notin S /\ 4 \notin S
  BY <1>1
<1>3. 5 \notin S /\ 6 \notin S
  BY <1>1, <1>2
<1>4. 7 \notin S /\ 8 \notin S
  BY <1>1, <1>2, <1>3
<1>5. 9 \notin S /\ 10 \notin S
  BY <1>1, <1>2, <1>3, <1>4
<1>6. 11 \notin S
  BY <1>1, <1>2, <1>3, <1>4, <1>5
<1>7. 1..11 = {1, 2, 3, 4, 5, 6, 7, 8, 9, 10, 11}
  OBVIOUS
<1>8. PICK i : i \in S
  OBVIOUS
<1>9. i \in {1, 2, 3, 4, 5, 6, 7, 8, 9, 10, 11}
  BY <1>7, <1>8
<1>10. QED
  BY <1>1, <1>2, <1>3, <1>4, <1>5, <1>6, <1>8, <1>9

\* A value is accepted when none of the checks on it fails.
LEMMA ChecksPassed ==
  ASSUME CheckNode, format' = Accepted
  PROVE  /\ rest = <<"LF">> /\ first_whitespace = 0
         /\ top.kind = "object" /\ keys = TOP_LEVEL_ORDER
<1> DEFINE failing == {i \in 1..Len(Checks) : Checks[i][2]}
           first == CHOOSE i \in failing : \A j \in failing : i <= j
<1>1. Len(Checks) = 11
  BY DEF Checks
<1>2. \A i \in 1..11 : Checks[i][1] # Accepted
  BY DEF Checks, Accepted, Uncaught
<1>3. failing = {}
  <2>1. format' = IF failing = {} THEN Accepted ELSE Checks[first][1]
    BY DEF CheckNode
  <2>2. failing # {} => first \in 1..11
    BY <1>1, FirstOfEleven
  <2>3. QED
    BY <1>2, <2>1, <2>2
<1>4. ~ Checks[2][2] /\ ~ Checks[3][2] /\ ~ Checks[5][2] /\ ~ Checks[9][2]
  BY <1>1, <1>3
<1>5. QED
  BY <1>4 DEF Checks

\* What the invariants say of a file all of whose checks pass.
LEMMA PassedIsCanonical ==
  ASSUME ScanInv, WhitespaceIsExact, Dense, ctl = "done",
         rest = <<"LF">>, first_whitespace = 0, top.kind = "object", keys = TOP_LEVEL_ORDER
  PROVE  FileIsCanonical
<1>1. pos = Len(text) /\ text[pos] = "LF" /\ pos \in Nat \ {0} /\ text \in Seq(Lexemes)
  <2>1. text \in Seq(Lexemes) /\ pos \in 1..(Len(text) + 1) /\ Len(text) \in Nat
    BY DEF ScanInv, Position
  <2>2. Len(SubSeq(text, pos, Len(text))) = 1 /\ SubSeq(text, pos, Len(text))[1] = "LF"
    BY DEF rest
  <2>3. pos = Len(text)
    BY <2>1, <2>2
  <2>4. SubSeq(text, pos, Len(text))[1] = text[pos]
    BY <2>1, <2>3
  <2>5. QED
    BY <2>1, <2>2, <2>3, <2>4
<1>2. \A i \in 1..Len(text) : text[i] \in WHITESPACE <=> i = Len(text)
  <2>1. {i \in 1..(pos - 1) : text[i] \in WHITESPACE} = {}
    BY <1>1 DEF WhitespaceIsExact
  <2>2. text[pos] \in WHITESPACE
    BY <1>1 DEF WHITESPACE
  <2>3. ASSUME NEW i \in 1..Len(text), i # Len(text)
        PROVE  text[i] \notin WHITESPACE
    <3>1. i \in 1..(pos - 1)
      BY <1>1, <2>3
    <3>2. QED
      BY <2>1, <3>1
  <2>4. QED
    BY <1>1, <2>2, <2>3
<1>3. /\ top.start = 1 /\ top.end = pos
      /\ Packed(text, top) /\ Closed(text, top)
  BY DEF ScanInv, Structure, Dense
<1>4. /\ Len(top.members) = 5
      /\ \A k \in 1..5 : top.members[k].key = TOP_LEVEL_ORDER[k]
  <2>1. PICK n \in Nat : n = Len(top.members)
    BY <1>3, Zenon DEF Closed
  <2>2. [i \in 1..n |-> top.members[i].key] = TOP_LEVEL_ORDER
    BY <2>1, Zenon DEF keys
  <2>3. DOMAIN TOP_LEVEL_ORDER = 1..5
    BY DEF TOP_LEVEL_ORDER
  <2>4. n = 5
    <3>1. 1..n = 1..5
      BY <2>2, <2>3
    <3>2. 5 \in 1..n /\ 6 \notin 1..n
      BY <3>1
    <3>3. QED
      BY <3>2
  <2>5. QED
    BY <2>1, <2>2, <2>4
<1>5. ASSUME NEW k \in 1..5
      PROVE  /\ top.members[k].node.start = (IF k = 1 THEN 2 ELSE top.members[k - 1].node.end + 1) + 2
             /\ Decoded(text[IF k = 1 THEN 2 ELSE top.members[k - 1].node.end + 1]) = TOP_LEVEL_ORDER[k]
             /\ text[top.members[k].node.end] = IF k = 5 THEN "}" ELSE ","
  <2>1. Named(text, top, k, TOP_LEVEL_ORDER[k], top.members[k].node.start)
    BY <1>3, <1>4 DEF Packed
  <2>2. Before(top, k) = IF k = 1 THEN 2 ELSE top.members[k - 1].node.end + 1
    BY <1>3 DEF Before
  <2>3. CASE k = 5
    <3>1. top.members # <<>>
      BY <1>4
    <3>2. text[top.end - 1] = "}" /\ top.members[5].node.end = top.end - 1
      BY <1>3, <1>4, <3>1, Zenon DEF Closed, Reached
    <3>3. QED
      BY <2>1, <2>2, <2>3, <3>2, Zenon DEF Named
  <2>4. CASE k # 5
    <3>1. k + 1 \in 1..5 /\ k + 1 > 1 /\ (k + 1) - 1 = k
      BY <2>4
    <3>2. Named(text, top, k + 1, TOP_LEVEL_ORDER[k + 1], top.members[k + 1].node.start)
      BY <1>3, <1>4, <3>1 DEF Packed
    <3>3. text[top.members[k].node.end] = ","
      BY <3>1, <3>2, Zenon DEF Named, Comma
    <3>4. QED
      BY <2>1, <2>2, <2>4, <3>3, Zenon DEF Named
  <2>5. QED
    BY <2>3, <2>4
<1>6. QED
  BY <1>1, <1>2, <1>3, <1>4, <1>5, Zenon DEF FileIsCanonical

\* Every step keeps it that an accepted file is canonical.
LEMMA NextCanonical ==
  ASSUME ScanInv, WhitespaceIsExact, Dense, AcceptedIsCanonical, [FormatNext]_formatVars
  PROVE  AcceptedIsCanonical'
<1>1. CASE CheckNode
  <2>1. format' = Accepted => FileIsCanonical
    BY <1>1, ChecksPassed, PassedIsCanonical DEF CheckNode
  <2>2. UNCHANGED <<text, top>>
    BY <1>1 DEF CheckNode, scanVars
  <2>3. FileIsCanonical => FileIsCanonical'
    BY <2>2, Zenon DEF FileIsCanonical, keys
  <2>4. QED
    BY <2>1, <2>3 DEF AcceptedIsCanonical
<1>2. CASE Decode \/ Scan \/ ScanFailed
  <2>1. stage' = "finished" => format' # Accepted
    BY <1>2 DEF Decode, Scan, stageVars, ScanFailed, Accepted, Uncaught
  <2>2. QED
    BY <2>1 DEF AcceptedIsCanonical
<1>3. CASE UNCHANGED formatVars
  <2>1. UNCHANGED <<text, top, stage, format>>
    BY <1>3 DEF formatVars, scanVars, stageVars
  <2>2. QED
    BY <2>1, Zenon DEF AcceptedIsCanonical, FileIsCanonical, keys
<1>4. QED
  BY <1>1, <1>2, <1>3 DEF FormatNext

\* A file of any length that the format stage accepts is the five sections in
\* order, side by side between their names, with no whitespace but the final
\* LF, and the span of each section is the section: what is hashed and compared
\* as a section is neither more nor less than its value.
THEOREM AcceptanceIsCanonical == FormatSpec => []AcceptedIsCanonical
<1>1. FormatInit => AcceptedIsCanonical
  BY DEF FormatInit, AcceptedIsCanonical
<1>2. QED
  BY <1>1, InitScan, NextScan, InitWhitespace, NextWhitespace, InitDense, NextDense,
     NextCanonical, PTL DEF FormatSpec

---------------------------------------------------------------------------
(* The scanner and the grammar.                                            *)

\* A set of naturals has a least element.
LEMMA Least ==
  ASSUME NEW T, T \subseteq Nat, T # {}
  PROVE  \E x \in T : \A y \in T : x <= y
<1>1. PICK x \in T : \A y \in T : <<y, x>> \notin OpToRel(<, Nat)
  BY NatLessThanWellFounded, WFMin
<1>2. \A y \in T : ~ (y < x)
  BY <1>1 DEF OpToRel
<1>3. QED
  BY <1>2

---------------------------------------------------------------------------
(* Lists(t) is what its recursive definition says: the rules go from a     *)
(* position to later ones, so there is a function that satisfies them.     *)

Spans(t) == Kinds \X (1..Len(t)) \X (1..Len(t))

\* The same lists start after position i.
SameAfter(t, l1, l2, i) ==
  \A k \in Kinds : \A a, b \in 1..Len(t) : a > i => (l1[<<k, a, b>>] <=> l2[<<k, a, b>>])

\* The rules for what starts at i or later use the lists that start later.
LEMMA RulesGoOn ==
  ASSUME NEW t, Len(t) \in Nat, NEW l1, NEW l2, NEW i \in 1..Len(t), SameAfter(t, l1, l2, i)
  PROVE  \A k \in Kinds : \A j \in 1..Len(t) : List(t, l1, k, i, j) <=> List(t, l2, k, i, j)
<1>1. ASSUME NEW a \in Nat, NEW b \in Nat, a >= i, b <= Len(t)
      PROVE  Value(t, l1, a, b) <=> Value(t, l2, a, b)
  <2>1. ASSUME NEW k \in Kinds, a < b
        PROVE  l1[<<k, a + 1, b>>] <=> l2[<<k, a + 1, b>>]
    BY <1>1, <2>1 DEF SameAfter
  <2>2. QED
    BY <2>1, Zenon DEF Value
<1>2. ASSUME NEW a \in Nat, NEW b \in Int, a >= i, b <= Len(t)
      PROVE  Element(t, l1, a, b) <=> Element(t, l2, a, b)
  <2>1. \A x \in First(t, a, b) : \A y \in x..b : Value(t, l1, x, y) <=> Value(t, l2, x, y)
    BY <1>1, <1>2 DEF First
  <2>2. QED
    BY <2>1, Zenon DEF Element
<1>3. ASSUME NEW a \in Nat, NEW b \in Int, a >= i, b <= Len(t)
      PROVE  NamedElement(t, l1, a, b) <=> NamedElement(t, l2, a, b)
  <2>1. \A x \in First(t, a, b) : Element(t, l1, x + 1, b) <=> Element(t, l2, x + 1, b)
    BY <1>2, <1>3 DEF First
  <2>2. QED
    BY <2>1, Zenon DEF NamedElement
<1>4. ASSUME NEW a \in Nat, NEW b \in Int, a >= i, b <= Len(t)
      PROVE  Member(t, l1, a, b) <=> Member(t, l2, a, b)
  <2>1. \A x \in First(t, a, b) : NamedElement(t, l1, x + 1, b) <=> NamedElement(t, l2, x + 1, b)
    BY <1>3, <1>4 DEF First
  <2>2. QED
    BY <2>1, Zenon DEF Member
<1>5. ASSUME NEW k, NEW b \in Int, b <= Len(t)
      PROVE  Item(t, l1, k, i, b) <=> Item(t, l2, k, i, b)
  <2>1. Element(t, l1, i, b) <=> Element(t, l2, i, b)
    BY <1>2, <1>5
  <2>2. Member(t, l1, i, b) <=> Member(t, l2, i, b)
    BY <1>4, <1>5
  <2>3. QED
    BY <2>1, <2>2, Zenon DEF Item
<1>6. ASSUME NEW k \in Kinds, NEW j \in 1..Len(t)
      PROVE  List(t, l1, k, i, j) <=> List(t, l2, k, i, j)
  <2>1. Item(t, l1, k, i, j - 1) <=> Item(t, l2, k, i, j - 1)
    BY <1>5, <1>6
  <2>2. \A c \in i..(j - 1) : Item(t, l1, k, i, c - 1) <=> Item(t, l2, k, i, c - 1)
    BY <1>5, <1>6
  <2>3. ASSUME NEW c \in i..(j - 1)
        PROVE  l1[<<k, c + 1, j>>] <=> l2[<<k, c + 1, j>>]
    <3>1. c + 1 \in 1..Len(t) /\ c + 1 > i
      BY <1>6, <2>3
    <3>2. QED
      BY <1>6, <3>1, Zenon DEF SameAfter
  <2>4. QED
    BY <2>1, <2>2, <2>3, Zenon DEF List
<1>7. QED
  BY <1>6

\* h obeys the rules for what starts after position i.
Obeys(t, h, i) ==
  \A k \in Kinds : \A a, b \in 1..Len(t) : a > i => (h[<<k, a, b>>] <=> List(t, h, k, a, b))

\* From the end of the text back, a function can be made to obey them.
LEMMA ObeysEarlier ==
  ASSUME NEW t, Len(t) \in Nat, NEW h, NEW i \in 1..Len(t), Obeys(t, h, i)
  PROVE  \E g : Obeys(t, g, i - 1)
<1> DEFINE g == [d \in Spans(t) |-> IF d[2] = i THEN List(t, h, d[1], i, d[3]) ELSE h[d]]
<1>1. ASSUME NEW k \in Kinds, NEW a \in 1..Len(t), NEW b \in 1..Len(t)
      PROVE  g[<<k, a, b>>] = IF a = i THEN List(t, h, k, i, b) ELSE h[<<k, a, b>>]
  <2>1. \A d \in Spans(t) : g[d] = IF d[2] = i THEN List(t, h, d[1], i, d[3]) ELSE h[d]
    BY Zenon
  <2> HIDE DEF g
  <2>2. <<k, a, b>> \in Spans(t) /\ <<k, a, b>>[1] = k /\ <<k, a, b>>[2] = a /\ <<k, a, b>>[3] = b
    BY DEF Spans
  <2>3. g[<<k, a, b>>] = IF <<k, a, b>>[2] = i
                         THEN List(t, h, <<k, a, b>>[1], i, <<k, a, b>>[3]) ELSE h[<<k, a, b>>]
    BY <2>1, <2>2, Zenon
  <2>4. QED
    BY <2>2, <2>3, Zenon
<1> HIDE DEF g
<1>2. SameAfter(t, h, g, i)
  <2>1. ASSUME NEW k \in Kinds, NEW a \in 1..Len(t), NEW b \in 1..Len(t), a > i
        PROVE  h[<<k, a, b>>] <=> g[<<k, a, b>>]
    <3>1. a # i
      BY <2>1
    <3>2. QED
      BY <1>1, <2>1, <3>1, Zenon
  <2>2. QED
    BY <2>1, Zenon DEF SameAfter
<1>3. ASSUME NEW k \in Kinds, NEW a \in 1..Len(t), NEW b \in 1..Len(t), a > i - 1
      PROVE  g[<<k, a, b>>] <=> List(t, g, k, a, b)
  <2>1. SameAfter(t, h, g, a)
    <3>1. \A x \in 1..Len(t) : x > a => x > i
      BY <1>3
    <3>2. QED
      BY <1>2, <3>1, Zenon DEF SameAfter
  <2>2. List(t, h, k, a, b) <=> List(t, g, k, a, b)
    BY <1>3, <2>1, RulesGoOn, Zenon
  <2>3. CASE a = i
    BY <1>1, <1>3, <2>2, <2>3, Zenon
  <2>4. CASE a # i
    <3>1. a > i
      BY <1>3, <2>4
    <3>2. h[<<k, a, b>>] <=> List(t, h, k, a, b)
      BY <1>3, <3>1, Zenon DEF Obeys
    <3>3. QED
      BY <1>1, <1>3, <2>2, <2>4, <3>2, Zenon
  <2>5. QED
    BY <2>3, <2>4
<1>4. QED
  BY <1>3, Zenon DEF Obeys

\* So there is a function that obeys them everywhere.
LEMMA ObeysEverywhere ==
  ASSUME NEW t, Len(t) \in Nat
  PROVE  \E h : Obeys(t, h, 0)
<1> DEFINE N == Len(t)
           lacking == {m \in 0..N : ~ \E h : Obeys(t, h, N - m)}
<1>1. 0 \notin lacking
  <2>1. N - 0 = N
    OBVIOUS
  <2>2. \A a \in 1..N : ~ (a > N)
    OBVIOUS
  <2>3. \A h : Obeys(t, h, N)
    BY <2>2, Zenon DEF Obeys
  <2>4. QED
    BY <2>1, <2>3
<1>2. ASSUME NEW m \in lacking, m # 0
      PROVE  m - 1 \in lacking
  <2>1. m \in 1..N /\ m - 1 \in 0..N /\ N - (m - 1) \in 1..N /\ (N - (m - 1)) - 1 = N - m
    BY <1>2
  <2>2. ASSUME NEW h, Obeys(t, h, N - (m - 1))
        PROVE  FALSE
    <3>1. \E g : Obeys(t, g, (N - (m - 1)) - 1)
      BY <2>1, <2>2, ObeysEarlier
    <3>2. QED
      BY <1>2, <2>1, <3>1
  <2>3. QED
    BY <2>1, <2>2
<1> HIDE DEF lacking
<1>3. lacking = {}
  <2>1. lacking \subseteq Nat
    BY DEF lacking
  <2>2. ASSUME lacking # {}
        PROVE  FALSE
    <3>1. PICK m \in lacking : \A n \in lacking : m <= n
      BY <2>1, <2>2, Least
    <3>2. m \in Nat /\ m # 0
      BY <1>1, <2>1, <3>1
    <3>3. QED
      BY <1>2, <3>1, <3>2
  <2>3. QED
    BY <2>2
<1>4. N \in 0..N /\ N - N = 0
  OBVIOUS
<1>5. QED
  BY <1>3, <1>4 DEF lacking

LEMMA ListsDefined ==
  ASSUME NEW t, Len(t) \in Nat
  PROVE  Lists(t) = [d \in Spans(t) |-> List(t, Lists(t), d[1], d[2], d[3])]
<1>1. PICK h : Obeys(t, h, 0)
  BY ObeysEverywhere
<1> DEFINE g == [d \in Spans(t) |-> List(t, h, d[1], d[2], d[3])]
<1>2. \A k \in Kinds : \A a, b \in 1..Len(t) :
        <<k, a, b>> \in Spans(t) /\ <<k, a, b>>[1] = k /\ <<k, a, b>>[2] = a /\ <<k, a, b>>[3] = b
  BY DEF Spans
<1>3. \A d \in Spans(t) :
        d[1] \in Kinds /\ d[2] \in 1..Len(t) /\ d[3] \in 1..Len(t) /\ d = <<d[1], d[2], d[3]>>
  BY DEF Spans
<1>4. ASSUME NEW k \in Kinds, NEW a \in 1..Len(t), NEW b \in 1..Len(t)
      PROVE  h[<<k, a, b>>] <=> g[<<k, a, b>>]
  <2>1. g[<<k, a, b>>] = List(t, h, <<k, a, b>>[1], <<k, a, b>>[2], <<k, a, b>>[3])
    BY <1>2, Zenon
  <2>2. a > 0
    OBVIOUS
  <2>3. QED
    BY <1>1, <1>2, <2>1, <2>2, Zenon DEF Obeys
<1>5. ASSUME NEW d \in Spans(t)
      PROVE  List(t, h, d[1], d[2], d[3]) <=> List(t, g, d[1], d[2], d[3])
  <2>1. SameAfter(t, h, g, d[2])
    BY <1>4, Zenon DEF SameAfter
  <2>2. QED
    BY <1>3, <2>1, RulesGoOn, Zenon
<1>6. g = [d \in Spans(t) |-> List(t, g, d[1], d[2], d[3])]
  <2>1. \A d \in Spans(t) : List(t, h, d[1], d[2], d[3]) = List(t, g, d[1], d[2], d[3])
    <3> HIDE DEF g
    <3>1. \A l, k, i, j : List(t, l, k, i, j) \in BOOLEAN
      BY DEF List
    <3>2. QED
      BY <1>5, <3>1
  <2> DEFINE f == [d \in Spans(t) |-> List(t, g, d[1], d[2], d[3])]
  <2>2. \A d \in Spans(t) : f[d] = g[d]
    BY <2>1, Zenon
  <2>3. f = g
    BY <2>2, Zenon
  <2>4. QED
    BY <2>3, Zenon
<1> HIDE DEF g
<1>7. QED
  BY <1>6, Zenon DEF Lists, Spans

\* The rule of lists, for the lists of t.
LEMMA ListRule ==
  ASSUME NEW t, Len(t) \in Nat, NEW k \in Kinds, NEW i \in 1..Len(t), NEW j \in 1..Len(t)
  PROVE  Lists(t)[<<k, i, j>>] <=> List(t, Lists(t), k, i, j)
<1>1. <<k, i, j>> \in Spans(t) /\ <<k, i, j>>[1] = k /\ <<k, i, j>>[2] = i /\ <<k, i, j>>[3] = j
  BY DEF Spans
<1>2. \A d \in Spans(t) : Lists(t)[d] = List(t, Lists(t), d[1], d[2], d[3])
  <2> DEFINE g == Lists(t)
  <2>1. g = [d \in Spans(t) |-> List(t, g, d[1], d[2], d[3])]
    BY ListsDefined
  <2> HIDE DEF g
  <2>2. \A d \in Spans(t) : g[d] = List(t, g, d[1], d[2], d[3])
    BY <2>1, Zenon
  <2>3. QED
    BY <2>2 DEF g
<1>3. QED
  BY <1>1, <1>2, Zenon

---------------------------------------------------------------------------
(* The grammar, read from left to right: what there is from position p on, *)
(* up to e, when the scanner is at a point of the grammar inside a k.      *)

\* At c, an item of a k has ended: with the list, or with a comma.
Separator(t, k, c, e) ==
  \/ c = e /\ t[c] = Closing[k]
  \/ c < e /\ t[c] = "," /\ Lists(t)[<<k, c + 1, e>>]

AfterItem(t, k, p, e) == \E c \in First(t, p, e) : Separator(t, k, c, e)

\* What follows a value that ends at b, inside a k or (none) at the top.
Follows(t, k, b, e) ==
  \/ k = "none" /\ b = e
  \/ k # "none" /\ AfterItem(t, k, b + 1, e)

ValueFrom(t, k, a, e) == \E b \in a..e : IsValue(t, a, b) /\ Follows(t, k, b, e)
AfterColon(t, k, p, e) == \E a \in First(t, p, e) : ValueFrom(t, k, a, e)
AfterName(t, k, p, e) == \E c \in First(t, p, e) : t[c] = ":" /\ AfterColon(t, k, c + 1, e)
AtMember(t, k, p, e) == \E a \in First(t, p, e) : t[a] \in Strings /\ AfterName(t, k, a + 1, e)

\* The lexeme at a is the next one that is no whitespace.
Continues(t, point, k, a, e) ==
  \/ point \in {"top", "member_value", "array_open", "element"} /\ ValueFrom(t, k, a, e)
  \/ point \in {"object_open", "member"} /\ t[a] \in Strings /\ AfterName(t, k, a + 1, e)
  \/ point = "colon" /\ t[a] = ":" /\ AfterColon(t, k, a + 1, e)
  \/ point \in {"object_next", "array_next"} /\ Separator(t, k, a, e)
  \/ point \in {"object_open", "array_open"} /\ a = e /\ t[a] = Closing[k]

Rest(t, point, k, p, e) == \E a \in First(t, p, e) : Continues(t, point, k, a, e)

\* Whitespace does not change what comes first; another lexeme is it.
LEMMA FirstSkips ==
  ASSUME NEW t, NEW p \in Int, NEW e \in Int, t[p] \in WHITESPACE
  PROVE  First(t, p, e) = First(t, p + 1, e)
BY DEF First, Blank

LEMMA FirstIsHere ==
  ASSUME NEW t, NEW p \in Int, NEW e \in Int, t[p] \notin WHITESPACE
  PROVE  /\ p <= e => First(t, p, e) = {p}
         /\ p > e => First(t, p, e) = {}
BY DEF First, Blank

\* Opening and closing brackets, the comma and the colon are different lexemes.
LEMMA BracketsAreApart ==
  ASSUME NEW k \in Kinds
  PROVE  /\ Opening[k] \in {"{", "["} /\ Closing[k] \in {"}", "]"}
         /\ Opening[k] = IF k = "object" THEN "{" ELSE "["
         /\ Closing[k] = IF k = "object" THEN "}" ELSE "]"
         /\ Closing[k] \notin WHITESPACE /\ "," \notin WHITESPACE
<1>1. /\ Opening["object"] = "{" /\ Opening["array"] = "["
      /\ Closing["object"] = "}" /\ Closing["array"] = "]"
  BY DEF Opening, Closing
<1>2. k = "object" \/ k = "array"
  BY DEF Kinds
<1>3. QED
  BY <1>1, <1>2 DEF WHITESPACE

\* An element and the separator after it.
LEMMA ElementThen ==
  ASSUME NEW t \in Seq(Lexemes), NEW k \in Kinds, NEW i \in 1..(Len(t) + 1), NEW e \in 1..Len(t)
  PROVE  (\E c \in i..e : Element(t, Lists(t), i, c - 1) /\ Separator(t, k, c, e))
           <=> AfterColon(t, k, i, e)
<1> DEFINE L == Lists(t)
<1>0. Len(t) \in Nat
  BY LenProperties
<1>s. \A c : Separator(t, k, c, e) => t[c] \notin WHITESPACE
  BY BracketsAreApart, Zenon DEF Separator
<1>1. ASSUME NEW c \in i..e, Element(t, L, i, c - 1), Separator(t, k, c, e)
      PROVE  AfterColon(t, k, i, e)
  <2>0. PICK a \in First(t, i, c - 1) : \E b \in a..(c - 1) : Blank(t, b + 1, c - 1) /\ Value(t, L, a, b)
    BY <1>1, Zenon DEF Element
  <2>1. PICK b \in a..(c - 1) : Blank(t, b + 1, c - 1) /\ Value(t, L, a, b)
    BY <2>0
  <2>2. a \in First(t, i, e) /\ a \in i..e /\ b \in a..e
    BY <1>0, <1>1, <2>0, <2>1 DEF First, Blank
  <2>3. c \in First(t, b + 1, e)
    BY <1>0, <1>1, <1>s, <2>1, <2>2 DEF First
  <2>4. Follows(t, k, b, e)
    BY <1>1, <2>3, Zenon DEF Follows, AfterItem, Kinds
  <2>5. QED
    BY <2>1, <2>2, <2>4, Zenon DEF AfterColon, ValueFrom, IsValue
<1>2. ASSUME AfterColon(t, k, i, e)
      PROVE  \E c \in i..e : Element(t, L, i, c - 1) /\ Separator(t, k, c, e)
  <2>0. PICK a \in First(t, i, e) : \E b \in a..e : Value(t, L, a, b) /\ Follows(t, k, b, e)
    BY <1>2, Zenon DEF AfterColon, ValueFrom, IsValue
  <2>1. PICK b \in a..e : Value(t, L, a, b) /\ Follows(t, k, b, e)
    BY <2>0
  <2>2. k # "none"
    BY DEF Kinds
  <2>3. PICK c \in First(t, b + 1, e) : Separator(t, k, c, e)
    BY <2>1, <2>2, Zenon DEF Follows, AfterItem
  <2>4. /\ a \in First(t, i, c - 1) /\ b \in a..(c - 1) /\ Blank(t, b + 1, c - 1)
        /\ c \in i..e
    BY <1>0, <2>0, <2>1, <2>3 DEF First, Blank
  <2>5. QED
    BY <2>1, <2>3, <2>4, Zenon DEF Element
<1>3. QED
  BY <1>1, <1>2

\* A colon and an element, and the separator after it.
LEMMA NamedThen ==
  ASSUME NEW t \in Seq(Lexemes), NEW k \in Kinds, NEW i \in 1..(Len(t) + 1), NEW e \in 1..Len(t)
  PROVE  (\E c \in i..e : NamedElement(t, Lists(t), i, c - 1) /\ Separator(t, k, c, e))
           <=> AfterName(t, k, i, e)
<1> DEFINE L == Lists(t)
<1>0. Len(t) \in Nat
  BY LenProperties
<1>1. ASSUME NEW c \in i..e, NamedElement(t, L, i, c - 1), Separator(t, k, c, e)
      PROVE  AfterName(t, k, i, e)
  <2>1. PICK d \in First(t, i, c - 1) : t[d] = ":" /\ Element(t, L, d + 1, c - 1)
    BY <1>1, Zenon DEF NamedElement
  <2>2. d \in First(t, i, e) /\ d + 1 \in 1..(Len(t) + 1) /\ c \in (d + 1)..e
    BY <1>0, <1>1, <2>1 DEF First, Blank
  <2>3. AfterColon(t, k, d + 1, e)
    BY <1>1, <2>1, <2>2, ElementThen, Zenon
  <2>4. QED
    BY <2>1, <2>2, <2>3, Zenon DEF AfterName
<1>2. ASSUME AfterName(t, k, i, e)
      PROVE  \E c \in i..e : NamedElement(t, L, i, c - 1) /\ Separator(t, k, c, e)
  <2>1. PICK d \in First(t, i, e) : t[d] = ":" /\ AfterColon(t, k, d + 1, e)
    BY <1>2, Zenon DEF AfterName
  <2>2. d \in i..e /\ d + 1 \in 1..(Len(t) + 1)
    BY <1>0, <2>1 DEF First
  <2>3. PICK c \in (d + 1)..e : Element(t, L, d + 1, c - 1) /\ Separator(t, k, c, e)
    BY <2>1, <2>2, ElementThen, Zenon
  <2>4. d \in First(t, i, c - 1) /\ c \in i..e
    BY <1>0, <2>1, <2>2, <2>3 DEF First, Blank
  <2>5. QED
    BY <2>1, <2>3, <2>4, Zenon DEF NamedElement
<1>3. QED
  BY <1>1, <1>2

\* A member, and the separator after it.
LEMMA MemberThen ==
  ASSUME NEW t \in Seq(Lexemes), NEW k \in Kinds, NEW i \in 1..(Len(t) + 1), NEW e \in 1..Len(t)
  PROVE  (\E c \in i..e : Member(t, Lists(t), i, c - 1) /\ Separator(t, k, c, e))
           <=> AtMember(t, k, i, e)
<1> DEFINE L == Lists(t)
<1>0. Len(t) \in Nat
  BY LenProperties
<1>1. ASSUME NEW c \in i..e, Member(t, L, i, c - 1), Separator(t, k, c, e)
      PROVE  AtMember(t, k, i, e)
  <2>1. PICK d \in First(t, i, c - 1) : t[d] \in Strings /\ NamedElement(t, L, d + 1, c - 1)
    BY <1>1, Zenon DEF Member
  <2>2. d \in First(t, i, e) /\ d + 1 \in 1..(Len(t) + 1) /\ c \in (d + 1)..e
    BY <1>0, <1>1, <2>1 DEF First, Blank
  <2>3. AfterName(t, k, d + 1, e)
    BY <1>1, <2>1, <2>2, NamedThen, Zenon
  <2>4. QED
    BY <2>1, <2>2, <2>3, Zenon DEF AtMember
<1>2. ASSUME AtMember(t, k, i, e)
      PROVE  \E c \in i..e : Member(t, L, i, c - 1) /\ Separator(t, k, c, e)
  <2>1. PICK d \in First(t, i, e) : t[d] \in Strings /\ AfterName(t, k, d + 1, e)
    BY <1>2, Zenon DEF AtMember
  <2>2. d \in i..e /\ d + 1 \in 1..(Len(t) + 1)
    BY <1>0, <2>1 DEF First
  <2>3. PICK c \in (d + 1)..e : NamedElement(t, L, d + 1, c - 1) /\ Separator(t, k, c, e)
    BY <2>1, <2>2, NamedThen, Zenon
  <2>4. d \in First(t, i, c - 1) /\ c \in i..e
    BY <1>0, <2>1, <2>2, <2>3 DEF First, Blank
  <2>5. QED
    BY <2>1, <2>3, <2>4, Zenon DEF Member
<1>3. QED
  BY <1>1, <1>2

\* So the lists of t can be read from left to right.
LEMMA ListReads ==
  ASSUME NEW t \in Seq(Lexemes), NEW i \in 1..Len(t), NEW e \in 1..Len(t)
  PROVE  /\ Lists(t)[<<"object", i, e>>] <=> AtMember(t, "object", i, e)
         /\ Lists(t)[<<"array", i, e>>] <=> AfterColon(t, "array", i, e)
<1> DEFINE L == Lists(t)
           Then(k) == \E c \in i..e : Item(t, L, k, i, c - 1) /\ Separator(t, k, c, e)
<1>0. Len(t) \in Nat /\ i \in 1..(Len(t) + 1) /\ "object" \in Kinds /\ "array" \in Kinds
  BY LenProperties DEF Kinds
<1>1. \A k \in Kinds : L[<<k, i, e>>] <=> List(t, L, k, i, e)
  BY <1>0, ListRule, Zenon
<1>2. ASSUME NEW k \in Kinds, List(t, L, k, i, e)
      PROVE  Then(k)
  <2>1. CASE Item(t, L, k, i, e - 1)
    <3>1. i <= e - 1
      BY <2>1, <1>0 DEF Item, Element, Member, First
    <3>2. e \in i..e /\ e = e
      BY <3>1
    <3>3. QED
      BY <1>2, <2>1, <3>2, Zenon DEF List, Separator
  <2>2. CASE \E c \in i..(e - 1) : t[c] = "," /\ Item(t, L, k, i, c - 1) /\ L[<<k, c + 1, e>>]
    <3>1. PICK c \in i..(e - 1) : t[c] = "," /\ Item(t, L, k, i, c - 1) /\ L[<<k, c + 1, e>>]
      BY <2>2
    <3>2. c \in i..e /\ c < e
      BY <1>0
    <3>3. QED
      BY <3>1, <3>2, Zenon DEF Separator
  <2>3. QED
    BY <1>2, <2>1, <2>2, Zenon DEF List
<1>3. ASSUME NEW k \in Kinds, Then(k)
      PROVE  List(t, L, k, i, e)
  <2>1. PICK c \in i..e : Item(t, L, k, i, c - 1) /\ Separator(t, k, c, e)
    BY <1>3
  <2>2. CASE c = e /\ t[c] = Closing[k]
    BY <2>1, <2>2, Zenon DEF List
  <2>3. CASE c < e /\ t[c] = "," /\ L[<<k, c + 1, e>>]
    <3>0. c < e
      BY <2>3, Zenon
    <3>1. c + 1 \in 1..Len(t) /\ c \in i..(e - 1)
      BY <1>0, <2>1, <3>0
    <3>2. List(t, L, k, c + 1, e)
      BY <1>0, <2>3, <3>1, ListRule, Zenon
    <3>3. QED
      BY <2>1, <2>3, <3>1, <3>2, Zenon DEF List
  <2>4. QED
    BY <2>1, <2>2, <2>3, Zenon DEF Separator
<1>4. \A k \in Kinds : L[<<k, i, e>>] <=> Then(k)
  BY <1>1, <1>2, <1>3, Zenon
<1>5. Then("object") <=> AtMember(t, "object", i, e)
  BY <1>0, MemberThen, Zenon DEF Item
<1>6. Then("array") <=> AfterColon(t, "array", i, e)
  BY <1>0, ElementThen, Zenon DEF Item
<1> HIDE DEF Then, L
<1>7. QED
  BY <1>0, <1>4, <1>5, <1>6, Zenon DEF L

---------------------------------------------------------------------------
(* One lexeme further.                                                     *)

\* A value starts at a string, a scalar or an opening bracket.
LEMMA ValueStarts ==
  ASSUME NEW t, NEW a, NEW b, IsValue(t, a, b)
  PROVE  t[a] \in ValueStart
<1>1. CASE t[a] \in Strings \cup Scalars
  BY <1>1 DEF ValueStart
<1>2. CASE \E k \in Kinds : t[a] = Opening[k]
  BY <1>2, BracketsAreApart DEF ValueStart
<1>3. QED
  BY <1>1, <1>2, Zenon DEF IsValue, Value

\* Where a string or a scalar is, it is the value.
LEMMA ScalarValue ==
  ASSUME NEW t, NEW p \in Int, t[p] \in Strings \cup Scalars, NEW b \in Int
  PROVE  IsValue(t, p, b) <=> b = p
<1>1. t[p] \notin {"{", "["}
  BY LexemeAssumption DEF Brackets
<1>2. \A k \in Kinds : t[p] # Opening[k]
  BY <1>1, BracketsAreApart
<1>3. QED
  BY <1>2, Zenon DEF IsValue, Value

\* Whitespace may be skipped; what is no whitespace has to continue the text.
LEMMA RestSkips ==
  ASSUME NEW t, NEW p \in Int, NEW e \in Int, t[p] \in WHITESPACE, NEW point, NEW k
  PROVE  Rest(t, point, k, p, e) <=> Rest(t, point, k, p + 1, e)
BY FirstSkips, Zenon DEF Rest

LEMMA RestIsHere ==
  ASSUME NEW t, NEW p \in Int, NEW e \in Int, t[p] \notin WHITESPACE, NEW point, NEW k
  PROVE  Rest(t, point, k, p, e) <=> p <= e /\ Continues(t, point, k, p, e)
<1>1. CASE p <= e
  <2>1. First(t, p, e) = {p}
    BY <1>1, FirstIsHere
  <2>2. QED
    BY <1>1, <2>1, Zenon DEF Rest
<1>2. CASE p > e
  <2>1. First(t, p, e) = {} /\ ~ (p <= e)
    BY <1>2, FirstIsHere
  <2>2. QED
    BY <2>1, Zenon DEF Rest
<1>3. QED
  BY <1>1, <1>2

\* An opening bracket starts a value that ends where its items do.
LEMMA BracketValue ==
  ASSUME NEW t \in Seq(Lexemes), NEW k \in Kinds, NEW p \in 1..Len(t), t[p] = Opening[k],
         NEW b \in 1..Len(t)
  PROVE  IsValue(t, p, b)
           <=> Rest(t, IF k = "object" THEN "object_open" ELSE "array_open", k, p + 1, b)
<1> DEFINE L == Lists(t)
           point == IF k = "object" THEN "object_open" ELSE "array_open"
           empty == p < b /\ t[b] = Closing[k] /\ Blank(t, p + 1, b - 1)
           full == p < b /\ L[<<k, p + 1, b>>]
<1>0. Len(t) \in Nat
  BY LenProperties
<1>1. t[p] \notin Strings \cup Scalars
  BY BracketsAreApart, LexemeAssumption DEF Brackets
<1>2. \A m \in Kinds : t[p] = Opening[m] <=> m = k
  BY BracketsAreApart DEF Kinds
<1>3. IsValue(t, p, b) <=> empty \/ full
  BY <1>1, <1>2, Zenon DEF IsValue, Value
<1>4. empty <=> b \in First(t, p + 1, b) /\ t[b] = Closing[k]
  <2>1. t[b] = Closing[k] => t[b] \notin WHITESPACE
    BY BracketsAreApart
  <2>2. b \in First(t, p + 1, b) <=> p < b /\ t[b] \notin WHITESPACE /\ Blank(t, p + 1, b - 1)
    BY <1>0 DEF First
  <2>3. QED
    BY <2>1, <2>2, Zenon
<1>5. ASSUME p < b
      PROVE  /\ k = "object" => (L[<<k, p + 1, b>>] <=> AtMember(t, k, p + 1, b))
             /\ k = "array" => (L[<<k, p + 1, b>>] <=> AfterColon(t, k, p + 1, b))
  <2>1. p + 1 \in 1..Len(t)
    BY <1>0, <1>5
  <2>2. QED
    BY <2>1, ListReads, Zenon
<1>6. /\ AtMember(t, k, p + 1, b) => p < b
      /\ AfterColon(t, k, p + 1, b) => p < b
  <2>1. (\E a : a \in First(t, p + 1, b)) => p < b
    BY DEF First
  <2>2. QED
    BY <2>1, Zenon DEF AtMember, AfterColon
<1> HIDE DEF L
<1>7. CASE k = "object"
  <2>1. Rest(t, "object_open", k, p + 1, b)
          <=> AtMember(t, k, p + 1, b) \/ (b \in First(t, p + 1, b) /\ t[b] = Closing[k])
    BY Zenon DEF Rest, Continues, AtMember
  <2>2. QED
    BY <1>3, <1>4, <1>5, <1>6, <1>7, <2>1, Zenon
<1>8. CASE k = "array"
  <2>1. Rest(t, "array_open", k, p + 1, b)
          <=> AfterColon(t, k, p + 1, b) \/ (b \in First(t, p + 1, b) /\ t[b] = Closing[k])
    BY Zenon DEF Rest, Continues, AfterColon
  <2>2. k # "object"
    BY <1>8
  <2>3. QED
    BY <1>3, <1>4, <1>5, <1>6, <1>8, <2>1, <2>2, Zenon
<1>9. QED
  BY <1>7, <1>8, Zenon DEF Kinds

---------------------------------------------------------------------------
(* The invariant: at every point of the scan, the prefixes of the text that *)
(* are values are those that the rest of the text completes.               *)

\* Where the text may end, or the d-th of the objects and arrays being read.
EndsAt(t, fs, d) ==
  IF d = 0 THEN ValueEnds(t) ELSE {e \in 1..Len(t) : IsValue(t, fs[d].start, e)}
KindAt(fs, d) == IF d = 0 THEN "none" ELSE fs[d].kind

\* What contains frame d + 1 ends where the lexemes after that frame complete it.
Chain(t, fs) ==
  \A d \in 0..(Len(fs) - 1) : \A e \in 1..Len(t) :
    e \in EndsAt(t, fs, d)
      <=> \E b \in EndsAt(t, fs, d + 1) : Follows(t, KindAt(fs, d), b, e)

\* The innermost frame ends where the lexemes from p on complete it.
Completed(t, fs, point, p) ==
  \A e \in 1..Len(t) :
    e \in EndsAt(t, fs, Len(fs)) <=> Rest(t, point, KindAt(fs, Len(fs)), p, e)

Foretold ==
  /\ ctl \in Reading => Chain(text, stack) /\ Completed(text, stack, ctl, pos)
  /\ ctl = "done" => ValueEnds(text) = {pos - 1}
  /\ ctl = "parse_error" => ValueEnds(text) = {}

\* The first n frames of both stacks read the same objects and arrays.
Outline(fs, gs, n) ==
  \A i \in 1..n : gs[i].kind = fs[i].kind /\ gs[i].start = fs[i].start

LEMMA OutlineKeeps ==
  ASSUME NEW t, NEW fs, NEW gs, NEW n \in Nat, Outline(fs, gs, n)
  PROVE  \A d \in 0..n : EndsAt(t, gs, d) = EndsAt(t, fs, d) /\ KindAt(gs, d) = KindAt(fs, d)
<1>1. ASSUME NEW d \in 0..n
      PROVE  EndsAt(t, gs, d) = EndsAt(t, fs, d) /\ KindAt(gs, d) = KindAt(fs, d)
  <2>1. d # 0 => gs[d].kind = fs[d].kind /\ gs[d].start = fs[d].start
    BY DEF Outline
  <2>2. QED
    BY <2>1, Zenon DEF EndsAt, KindAt
<1>2. QED
  BY <1>1

LEMMA ChainKeeps ==
  ASSUME NEW t, NEW fs, NEW gs, Len(gs) \in Nat, Len(gs) <= Len(fs), Len(fs) \in Nat,
         Outline(fs, gs, Len(gs)), Chain(t, fs)
  PROVE  Chain(t, gs)
<1>1. ASSUME NEW d \in 0..(Len(gs) - 1), NEW e \in 1..Len(t)
      PROVE  e \in EndsAt(t, gs, d)
               <=> \E b \in EndsAt(t, gs, d + 1) : Follows(t, KindAt(gs, d), b, e)
  <2>1. d \in 0..(Len(fs) - 1) /\ d \in 0..Len(gs) /\ d + 1 \in 0..Len(gs)
    OBVIOUS
  <2>2. /\ EndsAt(t, gs, d) = EndsAt(t, fs, d) /\ KindAt(gs, d) = KindAt(fs, d)
        /\ EndsAt(t, gs, d + 1) = EndsAt(t, fs, d + 1)
    BY <2>1, OutlineKeeps, Zenon
  <2>3. QED
    BY <2>1, <2>2, Zenon DEF Chain
<1>2. QED
  BY <1>1, Zenon DEF Chain

LEMMA CompletedKeeps ==
  ASSUME NEW t, NEW fs, NEW gs, Len(gs) = Len(fs), Len(fs) \in Nat, Outline(fs, gs, Len(fs)),
         NEW point, NEW p, Completed(t, fs, point, p)
  PROVE  Completed(t, gs, point, p)
<1>1. Len(fs) \in 0..Len(fs)
  OBVIOUS
<1>2. /\ EndsAt(t, gs, Len(fs)) = EndsAt(t, fs, Len(fs))
      /\ KindAt(gs, Len(fs)) = KindAt(fs, Len(fs))
  BY <1>1, OutlineKeeps, Zenon
<1>3. QED
  BY <1>2, Zenon DEF Completed

\* A value that can end at one place only, has been read: the frames go on.
LEMMA AfterValue ==
  ASSUME NEW t, Len(t) \in Nat, NEW fs, Len(fs) \in Nat, NEW q \in 1..Len(t),
         \A e \in 1..Len(t) :
           e \in EndsAt(t, fs, Len(fs)) <=> Follows(t, KindAt(fs, Len(fs)), q, e)
  PROVE  /\ Len(fs) = 0 => ValueEnds(t) = {q}
         /\ Len(fs) # 0 /\ KindAt(fs, Len(fs)) # "none" =>
              \A point \in {"object_next", "array_next"} : Completed(t, fs, point, q + 1)
<1>1. ASSUME Len(fs) = 0
      PROVE  ValueEnds(t) = {q}
  <2>1. EndsAt(t, fs, Len(fs)) = ValueEnds(t) /\ KindAt(fs, Len(fs)) = "none"
    BY <1>1, Zenon DEF EndsAt, KindAt
  <2>2. \A e \in 1..Len(t) : e \in ValueEnds(t) <=> q = e
    BY <2>1, Zenon DEF Follows
  <2>3. ValueEnds(t) \subseteq 1..Len(t)
    BY DEF ValueEnds
  <2>4. QED
    BY <2>2, <2>3, Zenon
<1>2. ASSUME KindAt(fs, Len(fs)) # "none", NEW point \in {"object_next", "array_next"}
      PROVE  Completed(t, fs, point, q + 1)
  <2> DEFINE k == KindAt(fs, Len(fs))
  <2> HIDE DEF k
  <2>1. \A e : Follows(t, k, q, e) <=> AfterItem(t, k, q + 1, e)
    BY <1>2, Zenon DEF Follows, k
  <2>2. \A a, e : Continues(t, point, k, a, e) <=> Separator(t, k, a, e)
    <3>1. CASE point = "object_next"
      BY <3>1, Zenon DEF Continues
    <3>2. CASE point = "array_next"
      BY <3>2, Zenon DEF Continues
    <3>3. QED
      BY <1>2, <3>1, <3>2
  <2>3. \A e : AfterItem(t, k, q + 1, e) <=> Rest(t, point, k, q + 1, e)
    BY <2>2, Zenon DEF AfterItem, Rest
  <2>4. QED
    BY <2>1, <2>3, Zenon DEF Completed, k
<1>3. QED
  BY <1>1, <1>2

\* _value returns to its caller.
LEMMA ReturnForetold ==
  ASSUME Position, pos <= Len(text), text' = text, pos' = pos + 1,
         NEW M, NEW frames \in Seq(Frames(M)), NEW node, Return(node, frames),
         Chain(text, frames),
         \A e \in 1..Len(text) :
           e \in EndsAt(text, frames, Len(frames))
             <=> Follows(text, KindAt(frames, Len(frames)), pos, e)
  PROVE  Foretold'
<1> DEFINE n == Len(frames)
<1>1. n \in Nat /\ Len(text) \in Nat /\ pos \in 1..Len(text) /\ pos' - 1 = pos
  BY LenProperties DEF Position
<1>2. CASE frames = <<>>
  <2>1. n = 0 /\ ctl' = "done"
    BY <1>2, Zenon DEF Return
  <2>2. ValueEnds(text) = {pos}
    BY <1>1, <2>1, AfterValue, Zenon
  <2>3. "done" \notin Reading
    BY ReadingPoints
  <2>4. QED
    BY <1>1, <2>1, <2>2, <2>3, Zenon DEF Foretold
<1>3. CASE frames # <<>>
  <2> DEFINE item == [key |-> frames[n].key, node |-> node]
  <2>1. n \in 1..n /\ n # 0
    BY <1>1, <1>3, EmptySeq
  <2>2. frames[n].kind \in {"object", "array"}
    BY <2>1, FrameTypes
  <2>3. KindAt(frames, n) # "none"
    BY <2>1, <2>2 DEF KindAt
  <2>4. /\ stack' = WithMember(frames, item)
        /\ ctl' = IF frames[n].kind = "object" THEN "object_next" ELSE "array_next"
    BY <1>3, Zenon DEF Return, WithMember
  <2>5. ctl' \in {"object_next", "array_next"}
    BY <2>4
  <2>6. Completed(text, frames, ctl', pos + 1)
    BY <1>1, <2>1, <2>3, <2>5, AfterValue, Zenon
  <2>7. /\ Len(WithMember(frames, item)) = n
        /\ Outline(frames, WithMember(frames, item), n)
    <3> HIDE DEF item
    <3>1. Len(WithMember(frames, item)) = n
      BY FrameTypes DEF WithMember
    <3>2. ASSUME NEW i \in 1..n
          PROVE  /\ WithMember(frames, item)[i].kind = frames[i].kind
                 /\ WithMember(frames, item)[i].start = frames[i].start
      BY <3>2, FrameTypes DEF WithMember, Frames
    <3>3. QED
      BY <3>1, <3>2 DEF Outline
  <2>8. Chain(text, stack') /\ Completed(text, stack', ctl', pos + 1)
    <3> HIDE DEF item
    <3>1. Chain(text, WithMember(frames, item))
      BY <1>1, <2>7, ChainKeeps
    <3>2. Completed(text, WithMember(frames, item), ctl', pos + 1)
      BY <1>1, <2>6, <2>7, CompletedKeeps
    <3>3. QED
      BY <2>4, <3>1, <3>2, Zenon
  <2>9. ctl' # "done" /\ ctl' # "parse_error"
    BY <2>5
  <2>10. QED
    BY <2>8, <2>9, Zenon DEF Foretold
<1>4. QED
  BY <1>2, <1>3

\* What kind of thing is being read, at each point of the grammar.
LEMMA KindOfPoint ==
  ASSUME Position, Structure
  PROVE  /\ Len(stack) \in Nat
         /\ ctl \in {"top", "done"} => Len(stack) = 0 /\ KindAt(stack, Len(stack)) = "none"
         /\ ctl \in {"object_open", "member", "colon", "member_value", "object_next"}
              => Len(stack) # 0 /\ KindAt(stack, Len(stack)) = "object"
         /\ ctl \in {"array_open", "element", "array_next"}
              => Len(stack) # 0 /\ KindAt(stack, Len(stack)) = "array"
<1>1. PICK M : stack \in Seq(Frames(M))
  BY DEF Structure
<1>2. Len(stack) \in Nat /\ (stack = <<>> <=> Len(stack) = 0)
  BY <1>1, EmptySeq, LenProperties
<1>3. ctl \in {"top", "done"} => Len(stack) = 0
  BY <1>2 DEF Structure
<1>4. ASSUME NEW kind, Innermost(kind)
      PROVE  Len(stack) # 0 /\ KindAt(stack, Len(stack)) = kind
  BY <1>2, <1>4, Zenon DEF Innermost, LastKind, KindAt
<1>5. Len(stack) = 0 => KindAt(stack, Len(stack)) = "none"
  BY Zenon DEF KindAt
<1>6. QED
  BY <1>2, <1>3, <1>4, <1>5, Zenon DEF Structure

\* The next lexeme is no whitespace: it has to continue the text.
LEMMA LexemeContinues ==
  ASSUME Position, Foretold, ctl \in Reading, pos <= Len(text), text[pos] \notin WHITESPACE
  PROVE  \A e \in 1..Len(text) :
           e \in EndsAt(text, stack, Len(stack))
             <=> pos <= e /\ Continues(text, ctl, KindAt(stack, Len(stack)), pos, e)
<1>1. pos \in Int /\ \A e \in 1..Len(text) : e \in Int
  BY DEF Position
<1>2. Completed(text, stack, ctl, pos)
  BY Zenon DEF Foretold
<1>3. QED
  BY <1>1, <1>2, RestIsHere, Zenon DEF Completed

\* Where a value is expected and starts, the innermost frame goes on after it.
LEMMA ValueAhead ==
  ASSUME Position, Structure, Foretold, ctl \in ValuePoints, pos <= Len(text),
         text[pos] \in ValueStart
  PROVE  \A e \in 1..Len(text) :
           e \in EndsAt(text, stack, Len(stack))
             <=> \E b \in 1..Len(text) :
                   IsValue(text, pos, b) /\ Follows(text, KindAt(stack, Len(stack)), b, e)
<1> DEFINE k == KindAt(stack, Len(stack))
<1>0. pos \in Nat /\ pos >= 1 /\ Len(text) \in Nat
  BY LenProperties DEF Position
<1>1. text[pos] \notin WHITESPACE /\ text[pos] # "]"
  BY LexemeAssumption DEF ValueStart, WHITESPACE, Brackets
<1>2. ctl \in Reading
  BY ReadingPoints DEF ValuePoints
<1>3. ctl = "array_open" => k = "array"
  BY KindOfPoint, Zenon
<1>4. ctl = "array_open" => text[pos] # Closing[k]
  BY <1>1, <1>3, BracketsAreApart DEF Kinds
<1>5. ASSUME NEW e \in 1..Len(text)
      PROVE  Continues(text, ctl, k, pos, e) <=> ValueFrom(text, k, pos, e)
  <2> HIDE DEF k
  <2>1. ctl \notin {"object_open", "member", "colon", "object_next", "array_next"}
    BY DEF ValuePoints
  <2>2. QED
    BY <1>4, <2>1, Zenon DEF Continues, ValuePoints
<1>6. ASSUME NEW e \in 1..Len(text)
      PROVE  pos <= e /\ ValueFrom(text, k, pos, e)
               <=> \E b \in 1..Len(text) : IsValue(text, pos, b) /\ Follows(text, k, b, e)
  <2> HIDE DEF k
  <2>1. \A b \in pos..e : b \in 1..Len(text)
    BY <1>0
  <2>2. ASSUME NEW b \in 1..Len(text), IsValue(text, pos, b)
        PROVE  pos <= b
    <3>1. pos = b \/ pos < b
      BY <2>2, Zenon DEF IsValue, Value
    <3>2. QED
      BY <1>0, <3>1
  <2>3. ASSUME NEW b \in 1..Len(text), Follows(text, k, b, e)
        PROVE  b <= e
    <3>1. b = e \/ \E c : c \in First(text, b + 1, e)
      BY <2>3, Zenon DEF Follows, AfterItem
    <3>2. QED
      BY <1>0, <3>1 DEF First
  <2>4. ASSUME NEW b \in 1..Len(text), IsValue(text, pos, b), Follows(text, k, b, e)
        PROVE  pos <= e /\ b \in pos..e
    <3>1. pos <= b /\ b <= e
      BY <2>2, <2>3, <2>4
    <3>2. QED
      BY <1>0, <3>1
  <2>5. QED
    BY <2>1, <2>4, Zenon DEF ValueFrom
<1>7. \A e \in 1..Len(text) :
        e \in EndsAt(text, stack, Len(stack)) <=> pos <= e /\ Continues(text, ctl, k, pos, e)
  BY <1>1, <1>2, LexemeContinues, Zenon
<1> HIDE DEF k
<1>8. QED
  BY <1>5, <1>6, <1>7, Zenon DEF k

\* Whitespace is skipped.
LEMMA SkipForetold ==
  ASSUME Position, Foretold, Skip
  PROVE  Foretold'
<1>1. /\ text' = text /\ pos' = pos + 1 /\ UNCHANGED <<ctl, stack>> /\ ctl \in Reading
      /\ Peek \in WHITESPACE
  BY Zenon DEF Skip
<1>2. Peek = text[pos] /\ pos \in Int
  BY <1>1, PeekReads DEF Position
<1>3. Chain(text, stack) /\ Completed(text, stack, ctl, pos)
  BY <1>1, Zenon DEF Foretold
<1>4. Completed(text, stack, ctl, pos + 1)
  <2>1. \A e \in 1..Len(text) : e \in Int
    OBVIOUS
  <2>2. QED
    BY <1>1, <1>2, <1>3, <2>1, RestSkips, Zenon DEF Completed
<1>5. ctl # "done" /\ ctl # "parse_error"
  BY <1>1, ReadingPoints
<1>6. QED
  BY <1>1, <1>3, <1>4, <1>5, Zenon DEF Foretold

\* A scalar is a value that ends where it starts.
LEMMA ScalarForetold ==
  ASSUME Position, Structure, Foretold, ReadScalar
  PROVE  Foretold'
<1> DEFINE k == KindAt(stack, Len(stack))
<1>1. /\ text' = text /\ pos' = pos + 1 /\ ctl \in ValuePoints /\ Peek \in Strings \cup Scalars
      /\ Return(Node("scalar", pos, pos + 1, <<>>), stack)
  BY Zenon DEF ReadScalar, ValuePoints
<1>2. Peek = text[pos] /\ pos <= Len(text)
  BY <1>1, PeekReads, Zenon
<1>3. text[pos] \in ValueStart
  BY <1>1, <1>2, Zenon DEF ValueStart
<1>4. pos \in Int /\ pos \in 1..Len(text) /\ \A b \in 1..Len(text) : b \in Int
  BY <1>2, LenProperties DEF Position
<1> HIDE DEF k
<1>5. \A e \in 1..Len(text) :
        e \in EndsAt(text, stack, Len(stack)) <=> Follows(text, k, pos, e)
  <2>1. \A b \in 1..Len(text) : IsValue(text, pos, b) <=> b = pos
    BY <1>1, <1>2, <1>4, ScalarValue, Zenon
  <2>2. QED
    BY <1>1, <1>2, <1>3, <1>4, <2>1, ValueAhead, Zenon DEF k
<1>6. Chain(text, stack)
  BY <1>1, ReadingPoints DEF Foretold, ValuePoints
<1>7. PICK M : stack \in Seq(Frames(M))
  BY DEF Structure
<1>8. QED
  BY <1>1, <1>2, <1>5, <1>6, <1>7, ReturnForetold, Zenon DEF k

\* A bracket opens a value that ends where its own lexemes complete it.
LEMMA OpenForetold ==
  ASSUME Position, Structure, Foretold, Open
  PROVE  Foretold'
<1> DEFINE n == Len(stack)
<1>1. PICK kind \in Kinds :
        /\ Peek = Opening[kind]
        /\ stack' = Append(stack, Frame(kind, pos))
        /\ ctl' = IF kind = "object" THEN "object_open" ELSE "array_open"
  <2>1. CASE Peek = "{"
    <3>1. stack' = Append(stack, Frame("object", pos)) /\ ctl' = "object_open"
      BY <2>1, Zenon DEF Open
    <3>2. "object" \in Kinds /\ Opening["object"] = "{"
      BY DEF Kinds, Opening
    <3>3. QED
      BY <2>1, <3>1, <3>2, Zenon
  <2>2. CASE Peek = "["
    <3>1. Peek # "{" /\ "array" # "object"
      BY <2>2
    <3>2. stack' = Append(stack, Frame("array", pos)) /\ ctl' = "array_open"
      BY <3>1, Zenon DEF Open
    <3>3. "array" \in Kinds /\ Opening["array"] = "["
      BY DEF Kinds, Opening
    <3>4. QED
      BY <2>2, <3>1, <3>2, <3>3, Zenon
  <2>3. QED
    BY <2>1, <2>2, Zenon DEF Open
<1>2. /\ text' = text /\ pos' = pos + 1 /\ ctl \in ValuePoints /\ Peek \in {"{", "["}
  BY Zenon DEF Open, ValuePoints
<1>3. Peek = text[pos] /\ pos <= Len(text)
  BY <1>2, PeekReads, Zenon DEF Brackets
<1>4. text[pos] \in ValueStart
  BY <1>2, <1>3, Zenon DEF ValueStart
<1>5. pos \in 1..Len(text) /\ text \in Seq(Lexemes)
  BY <1>3, LenProperties DEF Position
<1>6. PICK M : NoName \in M /\ stack \in Seq(Frames(M))
  BY DEF Structure
<1>7. Frame(kind, pos) \in Frames(M) /\ Frame(kind, pos).start = pos /\ Frame(kind, pos).kind = kind
  BY <1>5, <1>6 DEF Frame, Frames, Kinds
<1>8. /\ n \in Nat /\ Len(stack') = n + 1 /\ stack'[n + 1] = Frame(kind, pos)
      /\ \A i \in 1..n : stack'[i] = stack[i]
  BY <1>1, <1>6, <1>7, AppendProperties, LenProperties
<1>9. /\ \A d \in 0..n : EndsAt(text, stack', d) = EndsAt(text, stack, d)
                         /\ KindAt(stack', d) = KindAt(stack, d)
      /\ EndsAt(text, stack', n + 1) = {b \in 1..Len(text) : IsValue(text, pos, b)}
      /\ KindAt(stack', n + 1) = kind
  <2>1. Outline(stack, stack', n)
    BY <1>8 DEF Outline
  <2>2. n + 1 # 0
    BY <1>8
  <2>3. EndsAt(text, stack', n + 1) = {b \in 1..Len(text) : IsValue(text, pos, b)}
    BY <1>7, <1>8, <2>2, Zenon DEF EndsAt
  <2>4. KindAt(stack', n + 1) = kind
    BY <1>7, <1>8, <2>2, Zenon DEF KindAt
  <2>5. \A d \in 0..n : EndsAt(text, stack', d) = EndsAt(text, stack, d)
                       /\ KindAt(stack', d) = KindAt(stack, d)
    <3> HIDE DEF n
    <3>1. n \in Nat /\ Outline(stack, stack', n)
      BY <1>8, <2>1
    <3>2. QED
      BY <3>1, OutlineKeeps
  <2>6. QED
    BY <2>3, <2>4, <2>5, Zenon
<1>10. Chain(text, stack')
  <2>1. ASSUME NEW d \in 0..n, NEW e \in 1..Len(text)
        PROVE  e \in EndsAt(text, stack', d)
                 <=> \E b \in EndsAt(text, stack', d + 1) : Follows(text, KindAt(stack', d), b, e)
    <3>1. CASE d = n
      <4>1. e \in EndsAt(text, stack, n)
              <=> \E b \in 1..Len(text) :
                    IsValue(text, pos, b) /\ Follows(text, KindAt(stack, n), b, e)
        BY <1>2, <1>3, <1>4, ValueAhead, Zenon
      <4>2. QED
        BY <1>9, <2>1, <3>1, <4>1, Zenon
    <3>2. CASE d # n
      <4>1. d \in 0..(n - 1) /\ d + 1 \in 0..n
        BY <1>8, <3>2
      <4>2. Chain(text, stack)
        BY <1>2, ReadingPoints DEF Foretold, ValuePoints
      <4>3. QED
        BY <1>9, <4>1, <4>2, Zenon DEF Chain
    <3>3. QED
      BY <3>1, <3>2
  <2>2. (n + 1) - 1 = n
    BY <1>8
  <2>3. QED
    BY <1>8, <2>1, <2>2, Zenon DEF Chain
<1>11. Completed(text, stack', ctl', pos + 1)
  <2>1. \A b \in 1..Len(text) : IsValue(text, pos, b) <=> Rest(text, ctl', kind, pos + 1, b)
    BY <1>1, <1>3, <1>5, BracketValue, Zenon
  <2>2. QED
    BY <1>8, <1>9, <2>1, Zenon DEF Completed
<1>12. ctl' # "done" /\ ctl' # "parse_error"
  BY <1>1
<1>13. QED
  BY <1>2, <1>10, <1>11, <1>12, Zenon DEF Foretold

\* A step that reads one lexeme inside the same frames.
LEMMA PartForetold ==
  ASSUME Position, Structure, Foretold, text' = text, pos' = pos + 1, pos <= Len(text),
         text[pos] \notin WHITESPACE, ctl \in Reading, ctl' \notin Stopped,
         Len(stack') = Len(stack), Outline(stack, stack', Len(stack)),
         \A e \in 1..Len(text) :
           pos <= e /\ Continues(text, ctl, KindAt(stack, Len(stack)), pos, e)
             <=> Rest(text, ctl', KindAt(stack, Len(stack)), pos + 1, e)
  PROVE  Foretold'
<1>1. Len(stack) \in Nat
  BY KindOfPoint
<1>2. Chain(text, stack')
  <2>1. Chain(text, stack)
    BY Zenon DEF Foretold
  <2>2. QED
    BY <1>1, <2>1, ChainKeeps
<1>3. Completed(text, stack, ctl', pos + 1)
  BY LexemeContinues, Zenon DEF Completed
<1>4. Completed(text, stack', ctl', pos + 1)
  BY <1>1, <1>3, CompletedKeeps
<1>5. QED
  BY <1>2, <1>4, Zenon DEF Foretold, Stopped

\* What has to follow comes after position p.
LEMMA FollowsLater ==
  ASSUME NEW t, NEW k, NEW p \in Int, NEW e \in Int
  PROVE  /\ AfterName(t, k, p + 1, e) => p < e
         /\ AfterColon(t, k, p + 1, e) => p < e
         /\ AtMember(t, k, p + 1, e) => p < e
<1>1. (\E a : a \in First(t, p + 1, e)) => p < e
  BY DEF First
<1>2. QED
  BY <1>1, Zenon DEF AfterName, AfterColon, AtMember

\* A member name goes on with a colon.
LEMMA NameForetold ==
  ASSUME Position, Structure, Foretold, ReadName
  PROVE  Foretold'
<1> DEFINE k == KindAt(stack, Len(stack))
<1>1. PICK name :
        /\ stack' = WithName(stack, name) /\ ctl' = "colon"
        /\ text' = text /\ pos' = pos + 1 /\ ctl \in {"object_open", "member"}
        /\ Peek \in Strings
  BY DEF ReadName, WithName
<1>2. Peek = text[pos] /\ pos <= Len(text) /\ pos \in Int
  BY <1>1, PeekReads DEF Position
<1>3. text[pos] \in Strings /\ text[pos] \notin WHITESPACE /\ text[pos] \notin {"}", "]"}
  BY <1>1, <1>2, LexemeAssumption DEF WHITESPACE, Brackets
<1>4. k = "object" /\ Closing[k] = "}"
  <2>1. k = "object"
    BY <1>1, KindOfPoint
  <2>2. QED
    BY <2>1 DEF Closing
<1>5. PICK M : stack \in Seq(Frames(M))
  BY DEF Structure
<1>6. Len(stack') = Len(stack) /\ Outline(stack, stack', Len(stack))
  <2>1. Len(WithName(stack, name)) = Len(stack)
    BY <1>5, FrameTypes DEF WithName
  <2>2. ASSUME NEW i \in 1..Len(stack)
        PROVE  /\ WithName(stack, name)[i].kind = stack[i].kind
               /\ WithName(stack, name)[i].start = stack[i].start
    BY <1>5, <2>2, FrameTypes DEF WithName, Frames
  <2>3. QED
    BY <1>1, <2>1, <2>2 DEF Outline
<1> HIDE DEF k
<1>7. ASSUME NEW e \in 1..Len(text)
      PROVE  pos <= e /\ Continues(text, ctl, k, pos, e) <=> Rest(text, "colon", k, pos + 1, e)
  <2>1. AfterName(text, k, pos + 1, e) <=> Rest(text, "colon", k, pos + 1, e)
    BY Zenon DEF AfterName, Rest, Continues
  <2>2. Continues(text, ctl, k, pos, e) <=> AfterName(text, k, pos + 1, e)
    <3>1. text[pos] # Closing[k]
      BY <1>3, <1>4
    <3>2. CASE ctl = "object_open"
      BY <1>3, <3>1, <3>2, Zenon DEF Continues
    <3>3. CASE ctl = "member"
      BY <1>3, <3>1, <3>3, Zenon DEF Continues
    <3>4. QED
      BY <1>1, <3>2, <3>3
  <2>3. AfterName(text, k, pos + 1, e) => pos < e
    BY <1>2, FollowsLater
  <2>4. pos < e => pos <= e
    BY <1>2
  <2>5. QED
    BY <2>1, <2>2, <2>3, <2>4, Zenon
<1>8. ctl \in Reading /\ ctl' \notin Stopped
  BY <1>1, ReadingPoints DEF Stopped
<1>9. QED
  BY <1>1, <1>2, <1>3, <1>6, <1>7, <1>8, PartForetold, Zenon DEF k

\* After the colon comes the value of the member.
LEMMA ColonForetold ==
  ASSUME Position, Structure, Foretold, ReadColon
  PROVE  Foretold'
<1> DEFINE k == KindAt(stack, Len(stack))
<1>1. /\ text' = text /\ pos' = pos + 1 /\ ctl = "colon" /\ Peek = ":" /\ ctl' = "member_value"
      /\ UNCHANGED stack
  BY DEF ReadColon
<1>2. Peek = text[pos] /\ pos <= Len(text) /\ pos \in Int
  BY <1>1, PeekReads DEF Position, Brackets
<1>3. text[pos] = ":" /\ text[pos] \notin WHITESPACE
  BY <1>1, <1>2 DEF WHITESPACE
<1>4. Len(stack') = Len(stack) /\ Outline(stack, stack', Len(stack))
  BY <1>1 DEF Outline
<1> HIDE DEF k
<1>5. ASSUME NEW e \in 1..Len(text)
      PROVE  pos <= e /\ Continues(text, ctl, k, pos, e) <=> Rest(text, ctl', k, pos + 1, e)
  <2>1. AfterColon(text, k, pos + 1, e) <=> Rest(text, ctl', k, pos + 1, e)
    BY <1>1, Zenon DEF AfterColon, Rest, Continues
  <2>2. Continues(text, ctl, k, pos, e) <=> AfterColon(text, k, pos + 1, e)
    BY <1>1, <1>3, Zenon DEF Continues
  <2>3. AfterColon(text, k, pos + 1, e) => pos < e
    BY <1>2, FollowsLater
  <2>4. pos < e => pos <= e
    BY <1>2
  <2>5. QED
    BY <2>1, <2>2, <2>3, <2>4, Zenon
<1>6. ctl \in Reading /\ ctl' \notin Stopped
  BY <1>1, ReadingPoints DEF Stopped
<1>7. QED
  BY <1>1, <1>2, <1>3, <1>4, <1>5, <1>6, PartForetold, Zenon DEF k

\* After a comma comes the next item.
LEMMA CommaForetold ==
  ASSUME Position, Structure, Foretold, ReadComma
  PROVE  Foretold'
<1> DEFINE k == KindAt(stack, Len(stack))
<1>1. /\ text' = text /\ pos' = pos + 1 /\ Peek = "," /\ UNCHANGED stack
      /\ ctl \in {"object_next", "array_next"}
      /\ ctl' = IF ctl = "object_next" THEN "member" ELSE "element"
  BY DEF ReadComma
<1>2. Peek = text[pos] /\ pos <= Len(text) /\ pos \in Nat /\ pos >= 1 /\ Len(text) \in Nat
      /\ text \in Seq(Lexemes)
  <2>1. Peek = text[pos] /\ pos <= Len(text)
    BY <1>1, PeekReads, Zenon DEF Brackets
  <2>2. QED
    BY <2>1, LenProperties DEF Position
<1>3. text[pos] = "," /\ text[pos] \notin WHITESPACE /\ text[pos] \notin {"}", "]"}
  BY <1>1, <1>2 DEF WHITESPACE
<1>4. Len(stack') = Len(stack) /\ Outline(stack, stack', Len(stack))
  BY <1>1 DEF Outline
<1>5. \/ ctl = "object_next" /\ ctl' = "member" /\ k = "object"
      \/ ctl = "array_next" /\ ctl' = "element" /\ k = "array"
  BY <1>1, KindOfPoint
<1>6. text[pos] # Closing[k]
  BY <1>3, <1>5, BracketsAreApart DEF Kinds
<1> HIDE DEF k
<1>7. ASSUME NEW e \in 1..Len(text)
      PROVE  pos <= e /\ Continues(text, ctl, k, pos, e) <=> Rest(text, ctl', k, pos + 1, e)
  <2>1. Continues(text, ctl, k, pos, e) <=> pos < e /\ Lists(text)[<<k, pos + 1, e>>]
    <3>1. Separator(text, k, pos, e) <=> pos < e /\ Lists(text)[<<k, pos + 1, e>>]
      BY <1>3, <1>6, Zenon DEF Separator
    <3>2. CASE ctl = "object_next"
      BY <3>1, <3>2, Zenon DEF Continues
    <3>3. CASE ctl = "array_next"
      BY <3>1, <3>3, Zenon DEF Continues
    <3>4. QED
      BY <1>1, <3>2, <3>3
  <2>2. pos < e => pos + 1 \in 1..Len(text)
    BY <1>2
  <2>3. pos < e => pos <= e
    BY <1>2
  <2>4. CASE ctl' = "member" /\ k = "object"
    <3>1. AtMember(text, k, pos + 1, e) <=> Rest(text, ctl', k, pos + 1, e)
      BY <2>4, Zenon DEF AtMember, Rest, Continues
    <3>2. AtMember(text, k, pos + 1, e) => pos < e
      BY <1>2, FollowsLater
    <3>3. pos < e => (Lists(text)[<<k, pos + 1, e>>] <=> AtMember(text, k, pos + 1, e))
      BY <1>2, <2>2, <2>4, ListReads, Zenon
    <3>4. QED
      BY <2>1, <2>3, <3>1, <3>2, <3>3, Zenon
  <2>5. CASE ctl' = "element" /\ k = "array"
    <3>1. AfterColon(text, k, pos + 1, e) <=> Rest(text, ctl', k, pos + 1, e)
      BY <2>5, Zenon DEF AfterColon, Rest, Continues
    <3>2. AfterColon(text, k, pos + 1, e) => pos < e
      BY <1>2, FollowsLater
    <3>3. pos < e => (Lists(text)[<<k, pos + 1, e>>] <=> AfterColon(text, k, pos + 1, e))
      BY <1>2, <2>2, <2>5, ListReads, Zenon
    <3>4. QED
      BY <2>1, <2>3, <3>1, <3>2, <3>3, Zenon
  <2>6. QED
    BY <1>5, <2>4, <2>5, Zenon
<1>8. ctl \in Reading /\ ctl' \notin Stopped
  BY <1>1, ReadingPoints DEF Stopped
<1>9. QED
  BY <1>1, <1>2, <1>3, <1>4, <1>7, <1>8, PartForetold, Zenon DEF k

\* A closing bracket is the only place where the innermost frame can end.
LEMMA CloseForetold ==
  ASSUME Position, Structure, Foretold, Close
  PROVE  Foretold'
<1> DEFINE n == Len(stack)
           k == KindAt(stack, n)
           outer == SubSeq(stack, 1, n - 1)
           node  == Node(stack[n].kind, stack[n].start, pos + 1, stack[n].members)
<1>1. /\ text' = text /\ pos' = pos + 1 /\ Return(node, outer)
      /\ \/ ctl \in {"object_open", "object_next"} /\ Peek = "}"
         \/ ctl \in {"array_open", "array_next"} /\ Peek = "]"
  BY Zenon DEF Close
<1> HIDE DEF node
<1>2. Peek = text[pos] /\ pos <= Len(text)
  BY <1>1, PeekReads, Zenon DEF Brackets
<1>3. pos \in 1..Len(text) /\ Len(text) \in Nat
  BY <1>2, LenProperties DEF Position
<1>4. PICK M : NoName \in M /\ stack \in Seq(Frames(M))
  BY DEF Structure
<1>5. ctl \in {"object_open", "object_next", "array_open", "array_next"} /\ ctl \in Reading
  BY <1>1, ReadingPoints
<1>6. /\ n \in Nat /\ n # 0
      /\ ctl \in {"object_open", "object_next"} => k = "object"
      /\ ctl \in {"array_open", "array_next"} => k = "array"
  BY <1>5, KindOfPoint
<1>7. text[pos] = Closing[k]
  BY <1>1, <1>2, <1>6, BracketsAreApart DEF Kinds
<1>8. text[pos] \notin WHITESPACE /\ text[pos] \notin Strings /\ text[pos] # ","
      /\ text[pos] \notin ValueStart
  BY <1>1, <1>2, LexemeAssumption DEF WHITESPACE, Brackets, ValueStart
<1> HIDE DEF k, outer
<1>9. \A e \in 1..Len(text) : e \in EndsAt(text, stack, n) <=> e = pos
  <2>1. ASSUME NEW e \in 1..Len(text)
        PROVE  Continues(text, ctl, k, pos, e) <=> pos = e
    <3>1. ~ ValueFrom(text, k, pos, e)
      BY <1>8, ValueStarts, Zenon DEF ValueFrom
    <3>2. Separator(text, k, pos, e) <=> pos = e
      BY <1>7, <1>8, Zenon DEF Separator
    <3>3. CASE ctl = "object_open"
      BY <1>7, <1>8, <3>3, Zenon DEF Continues
    <3>4. CASE ctl = "array_open"
      BY <1>7, <3>1, <3>4, Zenon DEF Continues
    <3>5. CASE ctl = "object_next"
      BY <3>2, <3>5, Zenon DEF Continues
    <3>6. CASE ctl = "array_next"
      BY <3>2, <3>6, Zenon DEF Continues
    <3>7. QED
      BY <1>5, <3>3, <3>4, <3>5, <3>6, Zenon
  <2>2. \A e \in 1..Len(text) :
          e \in EndsAt(text, stack, n) <=> pos <= e /\ Continues(text, ctl, k, pos, e)
    BY <1>2, <1>5, <1>8, LexemeContinues, Zenon DEF k
  <2>3. pos <= pos
    BY <1>3
  <2>4. QED
    BY <2>1, <2>2, <2>3, Zenon
<1>10. /\ outer \in Seq(Frames(M)) /\ Len(outer) = n - 1 /\ n - 1 \in Nat
       /\ Outline(stack, outer, n - 1)
  <2>1. n - 1 \in 0..n
    BY <1>6
  <2>2. /\ outer \in Seq(Frames(M)) /\ Len(outer) = n - 1
        /\ \A i \in 1..(n - 1) : outer[i] = stack[i]
    <3> HIDE DEF n
    <3>1. n \in 0..Len(stack) /\ n - 1 \in 0..Len(stack)
      BY <1>4, <1>6, <2>1 DEF n
    <3>2. QED
      BY <1>4, <3>1, PrefixProperties DEF outer
  <2>3. QED
    BY <1>6, <2>2 DEF Outline
<1>11. Chain(text, stack)
  BY <1>5, Zenon DEF Foretold
<1>12. Chain(text, outer)
  BY <1>6, <1>10, <1>11, ChainKeeps
<1>13. \A e \in 1..Len(text) :
         e \in EndsAt(text, outer, n - 1) <=> Follows(text, KindAt(outer, n - 1), pos, e)
  <2>1. n - 1 \in 0..(n - 1) /\ (n - 1) + 1 = n
    BY <1>6
  <2>2. /\ EndsAt(text, outer, n - 1) = EndsAt(text, stack, n - 1)
        /\ KindAt(outer, n - 1) = KindAt(stack, n - 1)
    BY <1>10, <2>1, OutlineKeeps
  <2>3. \A e \in 1..Len(text) :
          e \in EndsAt(text, stack, n - 1)
            <=> \E b \in EndsAt(text, stack, n) : Follows(text, KindAt(stack, n - 1), b, e)
    BY <1>11, <2>1, Zenon DEF Chain
  <2>4. EndsAt(text, stack, n) = {pos}
    <3>1. EndsAt(text, stack, n) \subseteq 1..Len(text)
      BY <1>6, Zenon DEF EndsAt
    <3>2. QED
      BY <1>3, <1>9, <3>1, Zenon
  <2>5. QED
    BY <2>2, <2>3, <2>4, Zenon
<1>14. QED
  BY <1>1, <1>2, <1>10, <1>12, <1>13, ReturnForetold

\* What the points of the grammar expect, one by one.
LEMMA ExpectedAt ==
  /\ \A point \in ValuePoints : ValueStart \subseteq Expected[point]
  /\ Strings \subseteq Expected["object_open"] /\ Strings \subseteq Expected["member"]
  /\ ":" \in Expected["colon"]
  /\ "}" \in Expected["object_open"] /\ "}" \in Expected["object_next"]
  /\ "]" \in Expected["array_open"] /\ "]" \in Expected["array_next"]
  /\ "," \in Expected["object_next"] /\ "," \in Expected["array_next"]
<1>1. /\ Expected["top"] = ValueStart /\ Expected["member_value"] = ValueStart
      /\ Expected["array_open"] = ValueStart \cup {"]"} /\ Expected["element"] = ValueStart
      /\ Expected["object_open"] = Strings \cup {"}"} /\ Expected["member"] = Strings
      /\ Expected["colon"] = {":"} /\ Expected["object_next"] = {",", "}"}
      /\ Expected["array_next"] = {",", "]"}
  BY DEF Expected
<1>2. QED
  BY <1>1 DEF ValuePoints

\* Only an expected lexeme continues the text.
LEMMA UnexpectedStops ==
  ASSUME Position, Structure, ctl \in Reading, text[pos] \notin Expected[ctl]
  PROVE  \A e : ~ Continues(text, ctl, KindAt(stack, Len(stack)), pos, e)
<1> DEFINE k == KindAt(stack, Len(stack))
<1>1. /\ ctl \in {"object_open", "object_next"} => k = "object"
      /\ ctl \in {"array_open", "array_next"} => k = "array"
  BY KindOfPoint
<1>2. Closing["object"] = "}" /\ Closing["array"] = "]"
  BY DEF Closing
<1>3. ASSUME ctl \in ValuePoints, NEW e
      PROVE  ~ ValueFrom(text, k, pos, e)
  BY <1>3, ExpectedAt, ValueStarts, Zenon DEF ValueFrom
<1> HIDE DEF k
<1>4. ASSUME NEW e
      PROVE  ~ Continues(text, ctl, k, pos, e)
  <2>1. CASE ctl \in {"top", "member_value", "element"}
    <3>1. ~ ValueFrom(text, k, pos, e)
      BY <1>3, <2>1, Zenon DEF ValuePoints
    <3>2. QED
      BY <2>1, <3>1, Zenon DEF Continues
  <2>2. CASE ctl = "array_open"
    <3>1. ~ ValueFrom(text, k, pos, e)
      BY <1>3, <2>2, Zenon DEF ValuePoints
    <3>2. text[pos] # Closing[k]
      BY <1>1, <1>2, <2>2, ExpectedAt, Zenon
    <3>3. QED
      BY <2>2, <3>1, <3>2, Zenon DEF Continues
  <2>3. CASE ctl = "object_open"
    <3>1. text[pos] # Closing[k] /\ text[pos] \notin Strings
      BY <1>1, <1>2, <2>3, ExpectedAt, Zenon
    <3>2. QED
      BY <2>3, <3>1, Zenon DEF Continues
  <2>4. CASE ctl = "member"
    BY <2>4, ExpectedAt, Zenon DEF Continues
  <2>5. CASE ctl = "colon"
    BY <2>5, ExpectedAt, Zenon DEF Continues
  <2>6. CASE ctl \in {"object_next", "array_next"}
    <3>1. ~ Separator(text, k, pos, e)
      BY <1>1, <1>2, <2>6, ExpectedAt, Zenon DEF Separator
    <3>2. QED
      BY <2>6, <3>1, Zenon DEF Continues
  <2>7. QED
    BY <2>1, <2>2, <2>3, <2>4, <2>5, <2>6, ReadingPoints, Zenon
<1>5. QED
  BY <1>4 DEF k

\* If the innermost frame cannot end, nor can what contains it.
LEMMA NothingEnds ==
  ASSUME NEW t, NEW fs, Len(fs) \in Nat, Chain(t, fs),
         \A e \in 1..Len(t) : e \notin EndsAt(t, fs, Len(fs))
  PROVE  ValueEnds(t) = {}
<1> DEFINE n == Len(fs)
           ending == {m \in 0..n : \E e \in 1..Len(t) : e \in EndsAt(t, fs, n - m)}
<1>1. 0 \notin ending
  <2>1. n - 0 = n
    OBVIOUS
  <2>2. QED
    BY <2>1, Zenon
<1>2. ASSUME NEW m \in ending, m # 0
      PROVE  m - 1 \in ending
  <2>1. m \in 0..n /\ \E e \in 1..Len(t) : e \in EndsAt(t, fs, n - m)
    OBVIOUS
  <2>2. n - m \in 0..(n - 1) /\ (n - m) + 1 = n - (m - 1) /\ m - 1 \in 0..n
    BY <1>2, <2>1
  <2>3. PICK e \in 1..Len(t) : e \in EndsAt(t, fs, n - m)
    BY <2>1
  <2>4. \E b \in EndsAt(t, fs, n - (m - 1)) : TRUE
    BY <2>2, <2>3, Zenon DEF Chain
  <2>5. EndsAt(t, fs, n - (m - 1)) \subseteq 1..Len(t)
    BY Zenon DEF EndsAt, ValueEnds
  <2>6. QED
    BY <2>2, <2>4, <2>5, Zenon
<1> HIDE DEF ending
<1>3. ending = {}
  <2>1. ending \subseteq Nat
    BY DEF ending
  <2>2. ASSUME ending # {}
        PROVE  FALSE
    <3>1. PICK m \in ending : \A x \in ending : m <= x
      BY <2>1, <2>2, Least
    <3>2. m \in Nat /\ m # 0
      BY <1>1, <2>1, <3>1
    <3>3. QED
      BY <1>2, <3>1, <3>2
  <2>3. QED
    BY <2>2
<1>4. n \in 0..n /\ n - n = 0
  OBVIOUS
<1>5. \A e \in 1..Len(t) : e \notin EndsAt(t, fs, 0)
  BY <1>3, <1>4 DEF ending
<1>6. EndsAt(t, fs, 0) = ValueEnds(t) /\ ValueEnds(t) \subseteq 1..Len(t)
  BY Zenon DEF EndsAt, ValueEnds
<1>7. QED
  BY <1>5, <1>6

\* The scanner fails where no lexeme can make the text a value.
LEMMA FailForetold ==
  ASSUME Position, Structure, Foretold, Fail
  PROVE  Foretold'
<1> DEFINE n == Len(stack)
<1>1. /\ text' = text /\ ctl \in Reading /\ ctl' = "parse_error"
      /\ Peek \notin Expected[ctl] \cup WHITESPACE
  BY DEF Fail
<1>2. Chain(text, stack) /\ Completed(text, stack, ctl, pos) /\ n \in Nat
  BY <1>1, KindOfPoint DEF Foretold
<1>3. \A e \in 1..Len(text) : e \notin EndsAt(text, stack, n)
  <2>1. CASE pos <= Len(text)
    <3>1. Peek = text[pos]
      BY <2>1 DEF Peek
    <3>2. QED
      BY <1>1, <2>1, <3>1, LexemeContinues, UnexpectedStops, Zenon
  <2>2. CASE ~ (pos <= Len(text))
    <3>1. \A e \in 1..Len(text) : First(text, pos, e) = {}
      BY <2>2 DEF First, Position
    <3>2. QED
      BY <1>2, <3>1, Zenon DEF Completed, Rest
  <2>3. QED
    BY <2>1, <2>2
<1>4. ValueEnds(text) = {}
  BY <1>2, <1>3, NothingEnds
<1>5. ctl' \notin Reading /\ ctl' # "done"
  BY <1>1, ReadingPoints
<1>6. QED
  BY <1>1, <1>4, <1>5, Zenon DEF Foretold

LEMMA StepForetold ==
  ASSUME Position, Structure, Foretold, ScanStep
  PROVE  Foretold'
<1>1. ASSUME Overflow
      PROVE  Foretold'
  <2>1. text' = text /\ ctl' = "recursion_error"
    BY <1>1 DEF Overflow
  <2>2. ctl' \notin Reading /\ ctl' # "done" /\ ctl' # "parse_error"
    BY <2>1, ReadingPoints
  <2>3. QED
    BY <2>2, Zenon DEF Foretold
<1>2. QED
  BY <1>1, SkipForetold, ScalarForetold, OpenForetold, NameForetold, ColonForetold, CommaForetold,
     CloseForetold, FailForetold DEF ScanStep

\* A text that is still unread may be whatever value it starts with.
LEMMA InitForetold == FormatInit => Foretold
<1> SUFFICES ASSUME FormatInit
             PROVE  Foretold
  OBVIOUS
<1>1. pos = 1 /\ ctl = "top" /\ stack = <<>>
  BY Zenon DEF FormatInit, ScanInit
<1>2. Len(stack) = 0
  BY <1>1, EmptySeq
<1>3. Chain(text, stack)
  BY <1>2 DEF Chain
<1>4. ASSUME NEW e \in 1..Len(text)
      PROVE  e \in ValueEnds(text) <=> Rest(text, "top", "none", 1, e)
  <2>1. \A a \in First(text, 1, e) : Continues(text, "top", "none", a, e) <=> IsValue(text, a, e)
    <3>1. ASSUME NEW a \in First(text, 1, e)
          PROVE  e \in a..e
      BY DEF First
    <3>2. \A a \in First(text, 1, e) : ValueFrom(text, "none", a, e) <=> IsValue(text, a, e)
      BY <3>1, Zenon DEF ValueFrom, Follows
    <3>3. QED
      BY <3>2, Zenon DEF Continues
  <2>2. QED
    BY <2>1, Zenon DEF ValueEnds, Rest
<1>5. Completed(text, stack, ctl, pos)
  <2>1. EndsAt(text, stack, Len(stack)) = ValueEnds(text) /\ KindAt(stack, Len(stack)) = "none"
    BY <1>2, Zenon DEF EndsAt, KindAt
  <2>2. QED
    BY <1>1, <1>4, <2>1, Zenon DEF Completed
<1>6. ctl # "done" /\ ctl # "parse_error"
  BY <1>1
<1>7. QED
  BY <1>3, <1>5, <1>6, Zenon DEF Foretold

---------------------------------------------------------------------------
(* Nesting.                                                                *)

\* Each lexeme changes the depth by at most one.
LEMMA DepthSteps ==
  ASSUME NEW t, NEW i \in Nat
  PROVE  /\ Depth(t, 0) = 0
         /\ Depth(t, i) \in Int
         /\ Depth(t, i + 1) = Depth(t, i) + (IF t[i + 1] \in {"{", "["} THEN 1
                                             ELSE IF t[i + 1] \in {"}", "]"} THEN -1 ELSE 0)
<1> DEFINE O(n) == {j \in 1..n : t[j] \in {"{", "["}}
           C(n) == {j \in 1..n : t[j] \in {"}", "]"}}
<1>1. \A n \in Nat : /\ IsFiniteSet(O(n)) /\ Cardinality(O(n)) \in Nat
                     /\ IsFiniteSet(C(n)) /\ Cardinality(C(n)) \in Nat
  <2>1. ASSUME NEW n \in Nat
        PROVE  /\ IsFiniteSet(O(n)) /\ Cardinality(O(n)) \in Nat
               /\ IsFiniteSet(C(n)) /\ Cardinality(C(n)) \in Nat
    <3>1. IsFiniteSet(1..n)
      BY FS_Interval
    <3>2. O(n) \subseteq 1..n /\ C(n) \subseteq 1..n
      OBVIOUS
    <3> HIDE DEF O, C
    <3>3. QED
      BY <3>1, <3>2, FS_Subset, FS_CardinalityType
  <2>2. QED
    BY <2>1
<1>2. \A n : Depth(t, n) = Cardinality(O(n)) - Cardinality(C(n))
  BY DEF Depth
<1>3. O(0) = {} /\ C(0) = {}
  OBVIOUS
<1>4. /\ O(i + 1) = IF t[i + 1] \in {"{", "["} THEN O(i) \cup {i + 1} ELSE O(i)
      /\ C(i + 1) = IF t[i + 1] \in {"}", "]"} THEN C(i) \cup {i + 1} ELSE C(i)
      /\ i + 1 \notin O(i) /\ i + 1 \notin C(i)
  <2>1. 1..(i + 1) = (1..i) \cup {i + 1} /\ i + 1 \notin 1..i
    OBVIOUS
  <2>2. QED
    BY <2>1
<1> HIDE DEF O, C
<1>5. Depth(t, 0) = 0
  <2>1. Cardinality(O(0)) = 0 /\ Cardinality(C(0)) = 0
    BY <1>3, FS_EmptySet
  <2>2. QED
    BY <1>2, <2>1
<1>6. /\ Cardinality(O(i) \cup {i + 1}) = Cardinality(O(i)) + 1
      /\ Cardinality(C(i) \cup {i + 1}) = Cardinality(C(i)) + 1
  BY <1>1, <1>4, FS_AddElement
<1>7. /\ Cardinality(O(i + 1)) = Cardinality(O(i)) + IF t[i + 1] \in {"{", "["} THEN 1 ELSE 0
      /\ Cardinality(C(i + 1)) = Cardinality(C(i)) + IF t[i + 1] \in {"}", "]"} THEN 1 ELSE 0
  <2> DEFINE opens == t[i + 1] \in {"{", "["}
             closes == t[i + 1] \in {"}", "]"}
  <2>1. Cardinality(O(i)) \in Nat /\ Cardinality(C(i)) \in Nat
    BY <1>1
  <2>2. /\ O(i + 1) = IF opens THEN O(i) \cup {i + 1} ELSE O(i)
        /\ C(i + 1) = IF closes THEN C(i) \cup {i + 1} ELSE C(i)
    BY <1>4
  <2> HIDE DEF opens, closes
  <2>3. /\ Cardinality(O(i + 1)) = Cardinality(O(i)) + IF opens THEN 1 ELSE 0
        /\ Cardinality(C(i + 1)) = Cardinality(C(i)) + IF closes THEN 1 ELSE 0
    BY <1>6, <2>1, <2>2
  <2>4. QED
    BY <2>3 DEF opens, closes
<1>8. ~ (t[i + 1] \in {"{", "["} /\ t[i + 1] \in {"}", "]"})
  OBVIOUS
<1>9. Depth(t, i) \in Int
  BY <1>1, <1>2
<1>10. Depth(t, i + 1) = Depth(t, i) + (IF t[i + 1] \in {"{", "["} THEN 1
                                        ELSE IF t[i + 1] \in {"}", "]"} THEN -1 ELSE 0)
  <2> DEFINE opens == t[i + 1] \in {"{", "["}
             closes == t[i + 1] \in {"}", "]"}
  <2>1. i + 1 \in Nat /\ i \in Nat
    OBVIOUS
  <2>2. /\ Cardinality(O(i)) \in Nat /\ Cardinality(C(i)) \in Nat
        /\ Depth(t, i) = Cardinality(O(i)) - Cardinality(C(i))
        /\ Depth(t, i + 1) = Cardinality(O(i + 1)) - Cardinality(C(i + 1))
    BY <1>1, <1>2, <2>1
  <2> HIDE DEF opens, closes
  <2>3. ~ (opens /\ closes)
    BY <1>8 DEF opens, closes
  <2>4. /\ Cardinality(O(i + 1)) = Cardinality(O(i)) + IF opens THEN 1 ELSE 0
        /\ Cardinality(C(i + 1)) = Cardinality(C(i)) + IF closes THEN 1 ELSE 0
    BY <1>7 DEF opens, closes
  <2>5. Depth(t, i + 1) = Depth(t, i) + (IF opens THEN 1 ELSE IF closes THEN -1 ELSE 0)
    BY <2>2, <2>3, <2>4
  <2>6. QED
    BY <2>5 DEF opens, closes
<1>11. QED
  BY <1>5, <1>9, <1>10

\* The text is as deep as the stack is long, and has not been less deep since
\* the d-th frame was opened.

Level(t, fs, p) ==
  /\ Depth(t, p - 1) = Len(fs)
  /\ \A d \in 1..Len(fs) :
       /\ Depth(t, fs[d].start) = d
       /\ \A i \in fs[d].start..(p - 1) : Depth(t, i) >= d

Levels ==
  /\ ctl \in Reading \cup {"done"} => Level(text, stack, pos)
  /\ ctl = "recursion_error" => \E i \in 1..Len(text) : Depth(text, i) > RecursionLimit

\* A lexeme that leaves or closes frames.
LEMMA LevelKeeps ==
  ASSUME NEW t, NEW fs, NEW gs, Len(fs) \in Nat, Len(gs) \in Nat, Len(gs) <= Len(fs),
         Outline(fs, gs, Len(gs)), NEW p \in Nat \ {0}, Level(t, fs, p), Depth(t, p) = Len(gs),
         \A d \in 1..Len(fs) : fs[d].start \in Nat
  PROVE  Level(t, gs, p + 1)
<1>1. ASSUME NEW d \in 1..Len(gs)
      PROVE  Depth(t, gs[d].start) = d /\ \A i \in gs[d].start..p : Depth(t, i) >= d
  <2>1. d \in 1..Len(fs) /\ gs[d].start = fs[d].start /\ fs[d].start \in Nat
    BY DEF Outline
  <2>2. Depth(t, fs[d].start) = d /\ \A i \in fs[d].start..(p - 1) : Depth(t, i) >= d
    BY <2>1 DEF Level
  <2>3. ASSUME NEW i \in fs[d].start..p
        PROVE  Depth(t, i) >= d
    <3>1. CASE i = p
      BY <3>1
    <3>2. CASE i # p
      BY <2>1, <2>2, <3>2
    <3>3. QED
      BY <3>1, <3>2
  <2>4. QED
    BY <2>1, <2>2, <2>3
<1>2. (p + 1) - 1 = p
  OBVIOUS
<1>3. QED
  BY <1>1, <1>2 DEF Level

\* A lexeme that opens one.
LEMMA LevelOpens ==
  ASSUME NEW t, NEW fs, NEW gs, Len(fs) \in Nat, Len(gs) = Len(fs) + 1,
         Outline(fs, gs, Len(fs)), NEW p \in Nat \ {0}, Level(t, fs, p), Depth(t, p) = Len(fs) + 1,
         \A d \in 1..Len(fs) : fs[d].start \in Nat, gs[Len(gs)].start = p
  PROVE  Level(t, gs, p + 1)
<1>1. ASSUME NEW d \in 1..Len(gs)
      PROVE  Depth(t, gs[d].start) = d /\ \A i \in gs[d].start..p : Depth(t, i) >= d
  <2>1. CASE d = Len(gs)
    <3>1. \A i \in gs[d].start..p : i = p
      BY <2>1
    <3>2. QED
      BY <2>1, <3>1
  <2>2. CASE d # Len(gs)
    <3>1. d \in 1..Len(fs) /\ gs[d].start = fs[d].start /\ fs[d].start \in Nat
      BY <2>2 DEF Outline
    <3>2. Depth(t, fs[d].start) = d /\ \A i \in fs[d].start..(p - 1) : Depth(t, i) >= d
      BY <3>1 DEF Level
    <3>3. ASSUME NEW i \in fs[d].start..p
          PROVE  Depth(t, i) >= d
      <4>1. CASE i = p
        BY <3>1, <4>1
      <4>2. CASE i # p
        BY <3>1, <3>2, <4>2
      <4>3. QED
        BY <4>1, <4>2
    <3>4. QED
      BY <3>1, <3>2, <3>3
  <2>3. QED
    BY <2>1, <2>2
<1>2. (p + 1) - 1 = p
  OBVIOUS
<1>3. QED
  BY <1>1, <1>2 DEF Level

\* The names that have been read in the first n frames stay.
SameSeen(fs, gs, n) == \A i \in 1..n : gs[i].seen = fs[i].seen

\* What returning a value does to the stack.
LEMMA ReturnShape ==
  ASSUME NEW M, NEW frames \in Seq(Frames(M)), NEW node, Return(node, frames)
  PROVE  /\ Len(stack') = Len(frames) /\ Outline(frames, stack', Len(frames))
         /\ SameSeen(frames, stack', Len(frames))
         /\ ctl' \in {"done", "object_next", "array_next"}
<1>1. CASE frames = <<>>
  <2>1. stack' = frames /\ ctl' = "done"
    BY <1>1, Zenon DEF Return
  <2>2. QED
    BY <2>1 DEF Outline, SameSeen
<1>2. CASE frames # <<>>
  <2> DEFINE n == Len(frames)
             item == [key |-> frames[n].key, node |-> node]
  <2>1. n \in 1..n
    BY <1>2, EmptySeq, LenProperties
  <2>2. /\ stack' = WithMember(frames, item)
        /\ ctl' = IF frames[n].kind = "object" THEN "object_next" ELSE "array_next"
    BY <1>2, Zenon DEF Return, WithMember
  <2> HIDE DEF item
  <2>3. Len(WithMember(frames, item)) = n
    BY FrameTypes DEF WithMember
  <2>4. ASSUME NEW i \in 1..n
        PROVE  /\ WithMember(frames, item)[i].kind = frames[i].kind
               /\ WithMember(frames, item)[i].start = frames[i].start
               /\ WithMember(frames, item)[i].seen = frames[i].seen
    BY <2>4, FrameTypes DEF WithMember, Frames
  <2>5. QED
    BY <2>2, <2>3, <2>4 DEF Outline, SameSeen
<1>3. QED
  BY <1>1, <1>2

\* The first frames of the stack when the innermost has been closed.
LEMMA OuterShape ==
  ASSUME NEW M, NEW fs \in Seq(Frames(M)), Len(fs) # 0
  PROVE  /\ Len(fs) - 1 \in Nat
         /\ SubSeq(fs, 1, Len(fs) - 1) \in Seq(Frames(M))
         /\ Len(SubSeq(fs, 1, Len(fs) - 1)) = Len(fs) - 1
         /\ \A i \in 1..(Len(fs) - 1) : SubSeq(fs, 1, Len(fs) - 1)[i] = fs[i]
<1>1. Len(fs) - 1 \in Nat /\ Len(fs) - 1 \in 0..Len(fs)
  <2>1. Len(fs) \in Nat
    BY LenProperties
  <2>2. QED
    BY <2>1
<1>2. PICK n \in 0..Len(fs) : n = Len(fs) - 1
  BY <1>1
<1>3. QED
  BY <1>1, <1>2, PrefixProperties

\* The scanner's steps by what they do to the stack.
LEMMA StepShape ==
  ASSUME Position, Structure, ScanStep
  PROVE  \/ /\ Open
            /\ pos \in 1..Len(text) /\ pos' = pos + 1 /\ text[pos] \in {"{", "["}
            /\ Len(stack') = Len(stack) + 1
            /\ Outline(stack, stack', Len(stack)) /\ SameSeen(stack, stack', Len(stack))
            /\ stack'[Len(stack')].start = pos /\ stack'[Len(stack')].seen = {}
         \/ /\ Close
            /\ pos \in 1..Len(text) /\ pos' = pos + 1 /\ text[pos] \in {"}", "]"}
            /\ Len(stack) # 0 /\ Len(stack') = Len(stack) - 1
            /\ Outline(stack, stack', Len(stack')) /\ SameSeen(stack, stack', Len(stack'))
         \/ /\ Skip \/ ReadScalar \/ ReadName \/ ReadColon \/ ReadComma
            /\ pos \in 1..Len(text) /\ pos' = pos + 1
            /\ text[pos] \notin {"{", "["} /\ text[pos] \notin {"}", "]"}
            /\ Len(stack') = Len(stack)
            /\ Outline(stack, stack', Len(stack))
            /\ ~ ReadName => SameSeen(stack, stack', Len(stack))
         \/ Overflow \/ Fail
<1>1. PICK M : NoName \in M /\ stack \in Seq(Frames(M))
  BY DEF Structure
<1>2. Len(stack) \in Nat /\ pos \in Nat /\ pos >= 1 /\ Len(text) \in Nat
  BY <1>1, LenProperties DEF Position
<1>3. ASSUME pos <= Len(text)
      PROVE  pos \in 1..Len(text)
  BY <1>2, <1>3
<1>4. CASE Open
  <2>1. PICK kind \in Kinds :
          /\ stack' = Append(stack, Frame(kind, pos))
          /\ ctl' = IF kind = "object" THEN "object_open" ELSE "array_open"
    BY <1>4, Zenon DEF Open, Kinds
  <2>2. Frame(kind, pos) \in Frames(M) /\ Frame(kind, pos).start = pos /\ Frame(kind, pos).seen = {}
    BY <1>1, <1>2 DEF Frame, Frames, Kinds
  <2>3. /\ Len(stack') = Len(stack) + 1 /\ stack'[Len(stack) + 1] = Frame(kind, pos)
        /\ \A i \in 1..Len(stack) : stack'[i] = stack[i]
    BY <1>1, <2>1, <2>2, AppendProperties
  <2>4. Outline(stack, stack', Len(stack)) /\ SameSeen(stack, stack', Len(stack))
    BY <2>3 DEF Outline, SameSeen
  <2>5. stack'[Len(stack')].start = pos /\ stack'[Len(stack')].seen = {}
    BY <2>2, <2>3
  <2>6. pos' = pos + 1 /\ Peek \in {"{", "["}
    BY <1>4, Zenon DEF Open
  <2>7. Peek = text[pos] /\ pos <= Len(text)
    BY <2>6, PeekReads, Zenon DEF Brackets
  <2>8. QED
    BY <1>3, <1>4, <2>3, <2>4, <2>5, <2>6, <2>7, Zenon
<1>5. CASE Close
  <2> DEFINE outer == SubSeq(stack, 1, Len(stack) - 1)
             node  == Node(stack[Len(stack)].kind, stack[Len(stack)].start, pos + 1,
                           stack[Len(stack)].members)
  <2>1. /\ pos' = pos + 1 /\ Return(node, outer) /\ Peek \in {"}", "]"}
        /\ ctl \in {"object_open", "object_next", "array_open", "array_next"}
    BY <1>5, Zenon DEF Close
  <2>2. Peek = text[pos] /\ pos <= Len(text)
    BY <2>1, PeekReads, Zenon DEF Brackets
  <2>3. Len(stack) # 0
    BY <2>1, KindOfPoint
  <2>4. /\ outer \in Seq(Frames(M)) /\ Len(outer) = Len(stack) - 1
        /\ \A i \in 1..Len(outer) : outer[i] = stack[i]
    BY <1>1, <2>3, OuterShape
  <2> HIDE DEF outer, node
  <2>5. Len(stack') = Len(outer) /\ Outline(outer, stack', Len(outer)) /\ SameSeen(outer, stack', Len(outer))
    BY <2>1, <2>4, ReturnShape
  <2>6. Outline(stack, stack', Len(stack')) /\ SameSeen(stack, stack', Len(stack'))
    BY <2>4, <2>5 DEF Outline, SameSeen
  <2>7. QED
    BY <1>3, <1>5, <2>1, <2>2, <2>3, <2>4, <2>5, <2>6, Zenon
<1>6. CASE Skip \/ ReadColon \/ ReadComma
  <2>1. /\ pos' = pos + 1 /\ stack' = stack
        /\ Peek \in WHITESPACE \/ Peek = ":" \/ Peek = ","
    BY <1>6, Zenon DEF Skip, ReadColon, ReadComma
  <2>2. Peek = text[pos] /\ pos <= Len(text)
    BY <2>1, PeekReads, Zenon DEF Brackets
  <2>3. text[pos] \notin {"{", "["} /\ text[pos] \notin {"}", "]"}
    BY <2>1, <2>2 DEF WHITESPACE
  <2>4. Outline(stack, stack', Len(stack)) /\ SameSeen(stack, stack', Len(stack))
    BY <2>1 DEF Outline, SameSeen
  <2>5. QED
    BY <1>3, <1>6, <2>1, <2>2, <2>3, <2>4, Zenon
<1>7. CASE ReadScalar
  <2>1. /\ pos' = pos + 1 /\ Peek \in Strings \cup Scalars
        /\ Return(Node("scalar", pos, pos + 1, <<>>), stack)
    BY <1>7, Zenon DEF ReadScalar
  <2>2. Peek = text[pos] /\ pos <= Len(text)
    BY <2>1, PeekReads, Zenon
  <2>3. text[pos] \notin {"{", "["} /\ text[pos] \notin {"}", "]"}
    BY <2>1, <2>2, LexemeAssumption DEF Brackets
  <2>4. Len(stack') = Len(stack) /\ Outline(stack, stack', Len(stack)) /\ SameSeen(stack, stack', Len(stack))
    BY <1>1, <2>1, ReturnShape
  <2>5. QED
    BY <1>3, <1>7, <2>1, <2>2, <2>3, <2>4, Zenon
<1>8. CASE ReadName
  <2>1. PICK name : stack' = WithName(stack, name) /\ pos' = pos + 1 /\ Peek \in Strings
    BY <1>8 DEF ReadName, WithName
  <2>2. Peek = text[pos] /\ pos <= Len(text)
    BY <2>1, PeekReads, Zenon
  <2>3. text[pos] \notin {"{", "["} /\ text[pos] \notin {"}", "]"}
    BY <2>1, <2>2, LexemeAssumption DEF Brackets
  <2>4. Len(stack') = Len(stack) /\ Outline(stack, stack', Len(stack))
    <3>1. Len(WithName(stack, name)) = Len(stack)
      BY <1>1, FrameTypes DEF WithName
    <3>2. ASSUME NEW i \in 1..Len(stack)
          PROVE  /\ WithName(stack, name)[i].kind = stack[i].kind
                 /\ WithName(stack, name)[i].start = stack[i].start
      BY <1>1, <3>2, FrameTypes DEF WithName, Frames
    <3>3. QED
      BY <2>1, <3>1, <3>2 DEF Outline
  <2>5. QED
    BY <1>3, <1>8, <2>1, <2>2, <2>3, <2>4, Zenon
<1>9. QED
  BY <1>4, <1>5, <1>6, <1>7, <1>8 DEF ScanStep

LEMMA StepLevels ==
  ASSUME Position, Structure, Levels, ScanStep
  PROVE  Levels'
<1>1. /\ Len(stack) \in Nat /\ pos \in Nat \ {0} /\ pos - 1 \in Nat /\ (pos - 1) + 1 = pos
      /\ text' = text
  BY KindOfPoint, StepPosition DEF Position
<1>2. \A d \in 1..Len(stack) : stack[d].start \in Nat
  BY FrameTypes DEF Structure
<1>3. ctl \in Reading /\ Level(text, stack, pos) /\ Depth(text, pos - 1) = Len(stack)
  <2>1. ctl \in Reading
    BY ReadingPoints DEF ScanStep, Skip, ReadScalar, Open, Overflow, ReadName, ReadColon,
                         ReadComma, Close, Fail
  <2>2. QED
    BY <2>1, Zenon DEF Levels, Level
<1>4. Depth(text, pos) = Len(stack) + (IF text[pos] \in {"{", "["} THEN 1
                                       ELSE IF text[pos] \in {"}", "]"} THEN -1 ELSE 0)
  BY <1>1, <1>3, DepthSteps
<1>5. CASE Overflow
  <2>1. Peek \in {"{", "["} /\ Len(stack) = RecursionLimit /\ ctl' = "recursion_error"
    BY <1>5, Zenon DEF Overflow
  <2>2. Peek = text[pos] /\ pos <= Len(text)
    BY <2>1, PeekReads, Zenon DEF Brackets
  <2>3. text[pos] \in {"{", "["}
    BY <2>1, <2>2
  <2>4. Depth(text, pos) = RecursionLimit + 1
    BY <1>4, <2>1, <2>3, Zenon
  <2>5. RecursionLimit \in Nat
    BY LexemeAssumption, Zenon
  <2>6. pos \in 1..Len(text) /\ Depth(text, pos) > RecursionLimit
    BY <1>1, <2>2, <2>4, <2>5, LenProperties DEF Position
  <2>7. ctl' \notin Reading \cup {"done"}
    BY <2>1, ReadingPoints
  <2>8. QED
    BY <1>1, <2>1, <2>6, <2>7, Zenon DEF Levels
<1>6. CASE Fail
  <2>1. ctl' = "parse_error"
    BY <1>6 DEF Fail
  <2>2. ctl' \notin Reading \cup {"done"} /\ ctl' # "recursion_error"
    BY <2>1, ReadingPoints
  <2>3. QED
    BY <2>2, Zenon DEF Levels
<1>7. ASSUME ScanStep, ~ Overflow, ~ Fail
      PROVE  pos' = pos + 1 /\ Level(text, stack', pos + 1) /\ ctl' # "recursion_error"
  <2>0. ctl' # "recursion_error"
    <3>1. ASSUME NEW node, NEW frames, Return(node, frames)
          PROVE  ctl' # "recursion_error"
      <4>1. ctl' = "done" \/ ctl' = "object_next" \/ ctl' = "array_next"
        BY <3>1, Zenon DEF Return
      <4>2. QED
        BY <4>1
    <3>2. CASE ReadScalar
      BY <3>1, <3>2, Zenon DEF ReadScalar
    <3>3. CASE Close
      BY <3>1, <3>3, Zenon DEF Close
    <3>4. CASE Skip
      <4>1. ctl' = ctl
        BY <3>4, Zenon DEF Skip
      <4>2. QED
        BY <1>3, <4>1, ReadingPoints
    <3>5. CASE Open \/ ReadName \/ ReadColon \/ ReadComma
      BY <3>5 DEF Open, ReadName, ReadColon, ReadComma
    <3>6. QED
      BY <1>7, <3>2, <3>3, <3>4, <3>5 DEF ScanStep
  <2>1. CASE /\ pos' = pos + 1 /\ text[pos] \in {"{", "["}
             /\ Len(stack') = Len(stack) + 1 /\ Outline(stack, stack', Len(stack))
             /\ stack'[Len(stack')].start = pos
    <3>1. Depth(text, pos) = Len(stack) + 1
      BY <1>4, <2>1, Zenon
    <3>2. Level(text, stack', pos + 1)
      BY <1>1, <1>2, <1>3, <2>1, <3>1, LevelOpens
    <3>3. QED
      BY <2>0, <2>1, <3>2
  <2>2. CASE /\ pos' = pos + 1 /\ text[pos] \in {"}", "]"}
             /\ Len(stack) # 0 /\ Len(stack') = Len(stack) - 1
             /\ Outline(stack, stack', Len(stack'))
    <3>1. text[pos] \notin {"{", "["}
      BY <2>2
    <3>2. Depth(text, pos) = Len(stack) + (-1)
      BY <1>4, <2>2, <3>1, Zenon
    <3>0. Len(stack) # 0 /\ Len(stack') = Len(stack) - 1
      BY <2>2, Zenon
    <3>3. Depth(text, pos) = Len(stack') /\ Len(stack') \in Nat /\ Len(stack') <= Len(stack)
      BY <1>1, <3>0, <3>2
    <3>4. Level(text, stack', pos + 1)
      BY <1>1, <1>2, <1>3, <2>2, <3>3, LevelKeeps
    <3>5. QED
      BY <2>0, <2>2, <3>4
  <2>3. CASE /\ pos' = pos + 1
             /\ text[pos] \notin {"{", "["} /\ text[pos] \notin {"}", "]"}
             /\ Len(stack') = Len(stack) /\ Outline(stack, stack', Len(stack))
    <3>1. Depth(text, pos) = Len(stack) + 0
      BY <1>4, <2>3, Zenon
    <3>0. Len(stack') = Len(stack)
      BY <2>3, Zenon
    <3>2. Depth(text, pos) = Len(stack') /\ Len(stack') \in Nat /\ Len(stack') <= Len(stack)
      BY <1>1, <3>0, <3>1
    <3>3. Level(text, stack', pos + 1)
      BY <1>1, <1>2, <1>3, <2>3, <3>2, LevelKeeps
    <3>4. QED
      BY <2>0, <2>3, <3>3
  <2>4. QED
    BY <1>7, <2>1, <2>2, <2>3, StepShape, Zenon
<1>8. QED
  BY <1>1, <1>5, <1>6, <1>7, Zenon DEF Levels

LEMMA InitLevels == FormatInit => Levels
<1> SUFFICES ASSUME FormatInit
             PROVE  Levels
  OBVIOUS
<1>1. pos = 1 /\ ctl = "top" /\ stack = <<>>
  BY Zenon DEF FormatInit, ScanInit
<1>2. Len(stack) = 0 /\ pos - 1 = 0
  BY <1>1, EmptySeq
<1>3. Level(text, stack, pos)
  <2>1. Depth(text, 0) = 0
    <3>1. \A i \in Nat : Depth(text, 0) = 0
      BY DepthSteps, Zenon
    <3>2. 0 \in Nat
      OBVIOUS
    <3>3. QED
      BY <3>1, <3>2, Zenon
  <2>2. 1..Len(stack) = {}
    BY <1>2
  <2>3. QED
    BY <1>2, <2>1, <2>2, Zenon DEF Level
<1>4. ctl # "recursion_error"
  BY <1>1
<1>5. QED
  BY <1>3, <1>4, Zenon DEF Levels

---------------------------------------------------------------------------

\* The scanner and the grammar agree at every step of the format stage.
GrammarInv == ScanInv /\ Foretold /\ Levels

LEMMA NextGrammar == GrammarInv /\ [FormatNext]_formatVars => GrammarInv'
<1> SUFFICES ASSUME GrammarInv, [FormatNext]_formatVars
             PROVE  GrammarInv'
  OBVIOUS
<1>1. ScanInv'
  BY NextScan, Zenon DEF GrammarInv
<1>2. CASE ScanStep
  BY <1>1, <1>2, StepForetold, StepLevels DEF GrammarInv, ScanInv
<1>3. CASE UNCHANGED scanVars
  <2>1. text' = text /\ pos' = pos /\ ctl' = ctl /\ stack' = stack
    BY <1>3 DEF scanVars
  <2>2. Foretold' /\ Levels'
    BY <2>1, Zenon DEF GrammarInv, Foretold, Levels
  <2>3. QED
    BY <1>1, <2>2 DEF GrammarInv
<1>4. CASE FormatNext
  BY <1>2, <1>3, <1>4, Zenon DEF FormatNext, Scan, Decode, ScanFailed, CheckNode
<1>5. CASE UNCHANGED formatVars
  BY <1>3, <1>5 DEF formatVars
<1>6. QED
  BY <1>4, <1>5

\* The scanner accepts a text of any length exactly when it begins with a JSON
\* value, and reads that value to its end; it stops early only in a text that
\* nests deeper than the interpreter allows.
THEOREM AcceptsExactlyJson == FormatSpec => []AcceptsJson
<1>1. FormatInit => GrammarInv
  BY InitScan, InitForetold, InitLevels DEF GrammarInv
<1>2. GrammarInv => AcceptsJson
  BY Zenon DEF GrammarInv, Foretold, Levels, AcceptsJson
<1>3. QED
  BY <1>1, <1>2, NextGrammar, PTL DEF FormatSpec

---------------------------------------------------------------------------
(* Member names and their duplicates.                                      *)

\* If there is no first one, all of them are whitespace.
LEMMA NoFirst ==
  ASSUME NEW t, NEW i \in Nat, NEW j \in Int
  PROVE  First(t, i, j) = {} <=> Blank(t, i, j)
<1>1. Blank(t, i, j) => First(t, i, j) = {}
  BY DEF Blank, First
<1>2. ASSUME ~ Blank(t, i, j)
      PROVE  First(t, i, j) # {}
  <2> DEFINE dark == {a \in i..j : t[a] \notin WHITESPACE}
  <2>1. dark # {} /\ dark \subseteq Nat
    BY <1>2 DEF Blank
  <2>2. PICK a \in dark : \A b \in dark : a <= b
    BY <2>1, Least
  <2>3. a \in Nat /\ a \in i..j /\ t[a] \notin WHITESPACE
    BY <2>1, <2>2
  <2>4. Blank(t, i, a - 1)
    <3>1. ASSUME NEW b \in i..(a - 1), t[b] \notin WHITESPACE
          PROVE  FALSE
      <4>1. b \in dark
        BY <2>3, <3>1
      <4>2. a <= b
        BY <2>2, <4>1
      <4>3. QED
        BY <2>3, <4>2
    <3>2. QED
      BY <3>1 DEF Blank
  <2>5. a \in First(t, i, j)
    BY <2>3, <2>4 DEF First
  <2>6. QED
    BY <2>5
<1>3. QED
  BY <1>1, <1>2

\* One lexeme more is the first if there was none, and if it is no whitespace.
LEMMA FirstGrows ==
  ASSUME NEW t, NEW i \in Nat, NEW p \in Nat, i <= p
  PROVE  First(t, i, p) = IF t[p] \notin WHITESPACE /\ First(t, i, p - 1) = {} THEN {p}
                          ELSE First(t, i, p - 1)
<1>1. \A a : a \in First(t, i, p) <=> \/ a \in First(t, i, p - 1)
                                      \/ a = p /\ t[p] \notin WHITESPACE /\ Blank(t, i, p - 1)
  BY DEF First
<1>2. First(t, i, p - 1) = {} <=> Blank(t, i, p - 1)
  BY NoFirst
<1>3. CASE t[p] \notin WHITESPACE /\ First(t, i, p - 1) = {}
  <2>1. \A a : a \in First(t, i, p) <=> a = p
    BY <1>1, <1>2, <1>3, Zenon
  <2>2. QED
    BY <1>3, <2>1
<1>4. CASE ~ (t[p] \notin WHITESPACE /\ First(t, i, p - 1) = {})
  <2>1. \A a : a \in First(t, i, p) <=> a \in First(t, i, p - 1)
    BY <1>1, <1>2, <1>4, Zenon
  <2>2. First(t, i, p) = First(t, i, p - 1)
    BY <2>1, Zenon
  <2>3. QED
    BY <1>4, <2>2, Zenon
<1>5. QED
  BY <1>3, <1>4

\* The member names among the lexemes before p: a string and a colon, which is
\* still to come when the scanner waits for it.
NamesRead(t, point, p) ==
  {i \in 1..(p - 1) :
     /\ t[i] \in Strings
     /\ \/ \E c \in First(t, i + 1, p - 1) : t[c] = ":"
        \/ point = "colon" /\ First(t, i + 1, p - 1) = {}}

Repeated(t, names) ==
  {i \in names : \E j \in names :
     j < i /\ Decoded(t[j]) = Decoded(t[i]) /\ Enclosing(t, j) = Enclosing(t, i)}

FirstOf(S, x) == IF S = {} THEN x = 0 ELSE x \in S /\ \A y \in S : x <= y

\* The values of the names that lie in the object which starts at o.
ValuesIn(t, names, o) == {Decoded(t[i]) : i \in {j \in names : Enclosing(t, j) = o}}

\* Each name lies in something that was opened before it.
Enclosed(t, names) == \A i \in names : Enclosing(t, i) \in 1..(i - 1)

\* Each frame has seen the names that it encloses.
NamesKept ==
  ctl \in Reading \cup {"done"} =>
    /\ Enclosed(text, NamesRead(text, ctl, pos))
    /\ \A d \in 1..Len(stack) :
         stack[d].seen = ValuesIn(text, NamesRead(text, ctl, pos), stack[d].start)
    /\ FirstOf(Repeated(text, NamesRead(text, ctl, pos)), first_duplicate)

\* A lexeme that is not a member name does not change them.
LEMMA SameNames ==
  ASSUME NEW t, NEW p \in Nat \ {0}, NEW c, NEW d,
         \/ t[p] \in WHITESPACE /\ c = d
         \/ t[p] = ":" /\ c = "colon" /\ d # "colon"
         \/ t[p] \notin WHITESPACE /\ t[p] # ":" /\ c # "colon" /\ d # "colon"
  PROVE  NamesRead(t, d, p + 1) = NamesRead(t, c, p)
<1>1. WHITESPACE \cap Strings = {} /\ ":" \notin WHITESPACE /\ ":" \notin Strings
  BY LexemeAssumption DEF WHITESPACE, Brackets
<1>2. ASSUME NEW i \in 1..(p - 1)
      PROVE  i \in NamesRead(t, d, p + 1) <=> i \in NamesRead(t, c, p)
  <2> DEFINE F == First(t, i + 1, p - 1)
             G == First(t, i + 1, p)
  <2>1. G = IF t[p] \notin WHITESPACE /\ F = {} THEN {p} ELSE F
    <3>1. i + 1 \in Nat /\ i + 1 <= p
      OBVIOUS
    <3>2. QED
      BY <3>1, FirstGrows, Zenon
  <2>2. (p + 1) - 1 = p /\ i \in 1..p
    OBVIOUS
  <2>3. i \in NamesRead(t, d, p + 1)
          <=> t[i] \in Strings /\ ((\E x \in G : t[x] = ":") \/ (d = "colon" /\ G = {}))
    BY <2>2, Zenon DEF NamesRead
  <2>4. i \in NamesRead(t, c, p)
          <=> t[i] \in Strings /\ ((\E x \in F : t[x] = ":") \/ (c = "colon" /\ F = {}))
    BY Zenon DEF NamesRead
  <2> HIDE DEF F, G
  <2>5. CASE t[p] \in WHITESPACE /\ c = d
    BY <2>1, <2>3, <2>4, <2>5, Zenon
  <2>6. CASE t[p] \notin WHITESPACE
    BY <1>1, <2>1, <2>3, <2>4, <2>6, Zenon
  <2>7. QED
    BY <1>1, <2>5, <2>6, Zenon
<1>3. p \notin NamesRead(t, d, p + 1)
  <2>1. First(t, p + 1, (p + 1) - 1) = {}
    BY DEF First
  <2>2. t[p] \in Strings => d # "colon"
    BY <1>1, Zenon
  <2>3. QED
    BY <2>1, <2>2, Zenon DEF NamesRead
<1>4. NamesRead(t, d, p + 1) \subseteq 1..p /\ NamesRead(t, c, p) \subseteq 1..(p - 1)
  BY DEF NamesRead
<1>5. 1..p = (1..(p - 1)) \cup {p}
  OBVIOUS
<1>6. QED
  BY <1>2, <1>3, <1>4, <1>5, Zenon

\* A member name is one.
LEMMA OneMoreName ==
  ASSUME NEW t, NEW p \in Nat \ {0}, t[p] \in Strings, NEW c, c # "colon"
  PROVE  NamesRead(t, "colon", p + 1) = NamesRead(t, c, p) \cup {p}
<1>1. WHITESPACE \cap Strings = {} /\ ":" \notin Strings
  BY LexemeAssumption DEF Brackets
<1>2. t[p] \notin WHITESPACE /\ t[p] # ":"
  BY <1>1
<1>3. ASSUME NEW i \in 1..(p - 1)
      PROVE  i \in NamesRead(t, "colon", p + 1) <=> i \in NamesRead(t, c, p)
  <2> DEFINE F == First(t, i + 1, p - 1)
             G == First(t, i + 1, p)
  <2>1. G = IF t[p] \notin WHITESPACE /\ F = {} THEN {p} ELSE F
    <3>1. i + 1 \in Nat /\ i + 1 <= p
      OBVIOUS
    <3>2. QED
      BY <3>1, FirstGrows, Zenon
  <2>2. (p + 1) - 1 = p /\ i \in 1..p
    OBVIOUS
  <2>3. i \in NamesRead(t, "colon", p + 1)
          <=> t[i] \in Strings /\ ((\E x \in G : t[x] = ":") \/ G = {})
    BY <2>2, Zenon DEF NamesRead
  <2>4. i \in NamesRead(t, c, p) <=> t[i] \in Strings /\ (\E x \in F : t[x] = ":")
    BY Zenon DEF NamesRead
  <2> HIDE DEF F, G
  <2>5. QED
    BY <1>2, <2>1, <2>3, <2>4, Zenon
<1>4. p \in NamesRead(t, "colon", p + 1)
  <2>1. First(t, p + 1, (p + 1) - 1) = {} /\ p \in 1..((p + 1) - 1)
    BY DEF First
  <2>2. QED
    BY <2>1, Zenon DEF NamesRead
<1>5. NamesRead(t, "colon", p + 1) \subseteq 1..p /\ NamesRead(t, c, p) \subseteq 1..(p - 1)
  BY DEF NamesRead
<1>6. 1..p = (1..(p - 1)) \cup {p}
  OBVIOUS
<1>7. QED
  BY <1>3, <1>4, <1>5, <1>6, Zenon

\* What encloses the next lexeme is the innermost frame.
LEMMA EnclosingHere ==
  ASSUME NEW M, NEW fs \in Seq(Frames(M)), NEW t, NEW p \in Nat, Len(fs) # 0,
         Nested(t, fs, p), Level(t, fs, p)
  PROVE  Enclosing(t, p) = fs[Len(fs)].start /\ Enclosing(t, p) \in 1..(p - 1)
<1> DEFINE n == Len(fs)
           at == fs[n].start
           Encloses(o) == /\ t[o] \in {"{", "["}
                          /\ \A k \in o..(p - 1) : Depth(t, k) >= Depth(t, p - 1)
                          /\ Depth(t, o) = Depth(t, p - 1)
<1>1. n \in Nat /\ n \in 1..n
  BY LenProperties
<1>2. at \in Nat /\ fs[n].kind \in {"object", "array"}
  BY <1>1, FrameTypes
<1>3. 0 < at /\ at < p /\ StartsAsKind(t, fs[n])
  BY <1>1 DEF Nested
<1>4. t[at] \in {"{", "["}
  BY <1>2, <1>3 DEF StartsAsKind
<1>5. Depth(t, p - 1) = n /\ Depth(t, at) = n /\ \A k \in at..(p - 1) : Depth(t, k) >= n
  BY <1>1 DEF Level
<1>6. at \in 1..(p - 1) /\ Encloses(at)
  <2>1. at \in 1..(p - 1)
    BY <1>2, <1>3
  <2>2. QED
    BY <1>4, <1>5, <2>1, Zenon
<1>7. ASSUME NEW a \in 1..(p - 1), NEW b \in 1..(p - 1), Encloses(a), Encloses(b), a < b
      PROVE  FALSE
  <2>1. /\ t[b] \in {"{", "["} /\ Depth(t, b) = n
        /\ \A k \in a..(p - 1) : Depth(t, k) >= n
    BY <1>5, <1>7, Zenon
  <2> HIDE DEF Encloses
  <2>2. b - 1 \in Nat /\ b - 1 \in a..(p - 1) /\ (b - 1) + 1 = b
    BY <1>7
  <2>3. Depth(t, b) = Depth(t, b - 1) + 1 /\ Depth(t, b - 1) \in Int
    <3>1. t[(b - 1) + 1] \in {"{", "["}
      BY <2>1, <2>2
    <3>2. QED
      BY <2>2, <3>1, DepthSteps
  <2>4. Depth(t, b - 1) >= n
    BY <2>1, <2>2
  <2>5. n \in Nat /\ Depth(t, b) = n
    BY <1>1, <2>1, Zenon
  <2> HIDE DEF n
  <2>6. QED
    BY <2>3, <2>4, <2>5
<1> HIDE DEF at, Encloses
<1>8. \A o \in 1..(p - 1) : Encloses(o) <=> o = at
  <2>1. ASSUME NEW o \in 1..(p - 1), Encloses(o)
        PROVE  o = at
    <3>1. ~ (o < at) /\ ~ (at < o)
      BY <1>6, <1>7, <2>1
    <3>2. at \in Nat /\ o \in Nat
      BY <1>6
    <3>3. QED
      BY <3>1, <3>2
  <2>2. QED
    BY <1>6, <2>1
<1>9. (CHOOSE o \in 1..(p - 1) : Encloses(o)) = at
  BY <1>6, <1>8
<1>10. Enclosing(t, p) = at
  BY <1>9, Zenon DEF Enclosing, Encloses
<1>11. QED
  BY <1>6, <1>10 DEF at

\* No step but ReadName reads a member name or finds a duplicate.
LEMMA NamesStay ==
  ASSUME Position, Structure, Skip \/ ReadScalar \/ Open \/ ReadColon \/ ReadComma \/ Close
  PROVE  /\ NamesRead(text, ctl', pos + 1) = NamesRead(text, ctl, pos)
         /\ first_duplicate' = first_duplicate
<1>1. pos \in Nat \ {0}
  BY DEF Position
<1>2. CASE Skip
  <2>1. Peek \in WHITESPACE /\ ctl' = ctl /\ first_duplicate' = first_duplicate
    BY <1>2, Zenon DEF Skip
  <2>2. text[pos] \in WHITESPACE
    BY <2>1, PeekReads, Zenon
  <2>3. QED
    BY <1>1, <2>1, <2>2, SameNames, Zenon
<1>3. CASE ReadColon
  <2>1. Peek = ":" /\ ctl = "colon" /\ ctl' = "member_value" /\ first_duplicate' = first_duplicate
    BY <1>3, Zenon DEF ReadColon
  <2>2. text[pos] = ":"
    BY <2>1, PeekReads, Zenon DEF Brackets
  <2>3. ctl' # "colon"
    BY <2>1
  <2>4. QED
    BY <1>1, <2>1, <2>2, <2>3, SameNames, Zenon
<1>4. CASE ReadScalar \/ Open \/ ReadComma \/ Close
  <2>1. /\ ctl \in {"top", "member_value", "array_open", "element", "object_next", "array_next",
                    "object_open"}
        /\ Peek \in Strings \cup Scalars \cup {"{", "[", "}", "]", ","}
        /\ first_duplicate' = first_duplicate
    BY <1>4, Zenon DEF ReadScalar, Open, ReadComma, Close
  <2>2. Peek = text[pos]
    BY <2>1, PeekReads, Zenon DEF Brackets
  <2>3. text[pos] \notin WHITESPACE /\ text[pos] # ":"
    BY <2>1, <2>2, LexemeAssumption DEF WHITESPACE, Brackets
  <2>4. ctl' # "colon"
    <3>1. ASSUME NEW node, NEW frames, Return(node, frames)
          PROVE  ctl' # "colon"
      <4>1. ctl' = "done" \/ ctl' = "object_next" \/ ctl' = "array_next"
        BY <3>1, Zenon DEF Return
      <4>2. QED
        BY <4>1
    <3>2. CASE ReadScalar
      BY <3>1, <3>2, Zenon DEF ReadScalar
    <3>3. CASE Close
      BY <3>1, <3>3, Zenon DEF Close
    <3>4. CASE Open \/ ReadComma
      BY <3>4 DEF Open, ReadComma
    <3>5. QED
      BY <1>4, <3>2, <3>3, <3>4, Zenon
  <2>5. ctl # "colon"
    BY <2>1
  <2>6. QED
    BY <1>1, <2>1, <2>3, <2>4, <2>5, SameNames, Zenon
<1>5. QED
  BY <1>2, <1>3, <1>4, Zenon

\* A further name is repeated when one before it has its value and its object.
LEMMA RepeatedGrows ==
  ASSUME NEW t, NEW p \in Nat, NEW names \in SUBSET (1..(p - 1))
  PROVE  Repeated(t, names \cup {p})
           = IF \E j \in names : Decoded(t[j]) = Decoded(t[p]) /\ Enclosing(t, j) = Enclosing(t, p)
             THEN Repeated(t, names) \cup {p} ELSE Repeated(t, names)
<1> DEFINE Same(i, j) == Decoded(t[j]) = Decoded(t[i]) /\ Enclosing(t, j) = Enclosing(t, i)
<1>1. \A i \in names : i < p /\ ~ (p < i) /\ i # p
  OBVIOUS
<1>2. ~ (p < p)
  OBVIOUS
<1>3. \A i : i \in Repeated(t, names \cup {p})
               <=> i \in names \cup {p} /\ \E j \in names \cup {p} : j < i /\ Same(i, j)
  BY Zenon DEF Repeated
<1>4. \A i : i \in Repeated(t, names) <=> i \in names /\ \E j \in names : j < i /\ Same(i, j)
  BY Zenon DEF Repeated
<1> HIDE DEF Same
<1>5. \A i : i \in Repeated(t, names \cup {p})
               <=> i \in Repeated(t, names) \/ (i = p /\ \E j \in names : Same(p, j))
  <2>1. ASSUME NEW i \in names
        PROVE  /\ i \in Repeated(t, names \cup {p}) <=> i \in Repeated(t, names)
               /\ i # p
    BY <1>1, <1>3, <1>4, <2>1, Zenon
  <2>2. p \in Repeated(t, names \cup {p}) <=> \E j \in names : Same(p, j)
    BY <1>1, <1>2, <1>3, Zenon
  <2>3. \A i : i \in Repeated(t, names \cup {p}) => i \in names \/ i = p
    BY <1>3, Zenon
  <2>4. p \notin Repeated(t, names) /\ \A i : i \in Repeated(t, names) => i \in names
    BY <1>1, <1>2, <1>4, Zenon
  <2>5. QED
    BY <2>1, <2>2, <2>3, <2>4, Zenon
<1>6. QED
  BY <1>5 DEF Same

\* What comes first stays so when something later is added.
LEMMA FirstOfMore ==
  ASSUME NEW p \in Nat, NEW S \in SUBSET (1..(p - 1)), NEW x, FirstOf(S, x)
  PROVE  FirstOf(S \cup {p}, IF x = 0 THEN p ELSE x)
<1>1. CASE S = {}
  BY <1>1 DEF FirstOf
<1>2. CASE S # {}
  <2>1. x \in S /\ (\A y \in S : x <= y) /\ x \in 1..(p - 1)
    BY <1>2 DEF FirstOf
  <2>2. x # 0 /\ x <= p /\ S \cup {p} # {}
    BY <2>1
  <2>3. QED
    BY <2>1, <2>2, Zenon DEF FirstOf
<1>3. QED
  BY <1>1, <1>2

\* A member name is seen by the object it is in, and by no other.
LEMMA ReadNameKeeps ==
  ASSUME Position, Structure, Levels, NamesKept, ReadName
  PROVE  NamesKept'
<1> DEFINE n == Len(stack)
           names == NamesRead(text, ctl, pos)
           more == NamesRead(text, "colon", pos + 1)
           name == Decoded(text[pos])
<1>1. PICK M : NoName \in M /\ stack \in Seq(Frames(M))
  BY DEF Structure
<1>2. /\ ctl \in {"object_open", "member"} /\ ctl' = "colon" /\ pos' = pos + 1 /\ text' = text
      /\ stack' = WithName(stack, Decoded(Peek)) /\ Peek \in Strings
      /\ first_duplicate' =
           IF Decoded(Peek) \in stack[n].seen /\ first_duplicate = 0 THEN pos ELSE first_duplicate
  BY Zenon DEF ReadName, WithName
<1>3. Peek = text[pos]
  BY <1>2, PeekReads, Zenon
<1>4. pos \in Nat \ {0} /\ pos \in Nat
  BY DEF Position
<1>5. n \in Nat /\ n # 0 /\ n \in 1..n
  <2>1. n \in Nat /\ n # 0
    BY <1>2, KindOfPoint
  <2>2. QED
    BY <2>1
<1>6. ctl \in Reading /\ ctl # "colon"
  BY <1>2, ReadingPoints
<1>7. more = names \cup {pos}
  BY <1>2, <1>3, <1>4, <1>6, OneMoreName, Zenon
<1>8. Enclosing(text, pos) = stack[n].start /\ Enclosing(text, pos) \in 1..(pos - 1)
  <2>1. Nested(text, stack, pos) /\ Level(text, stack, pos)
    BY <1>6, Zenon DEF Structure, Levels
  <2>2. QED
    BY <1>1, <1>4, <1>5, <2>1, EnclosingHere, Zenon
<1>9. /\ Enclosed(text, names)
      /\ \A d \in 1..n :
           stack[d].seen = ValuesIn(text, names, stack[d].start)
      /\ FirstOf(Repeated(text, names), first_duplicate)
  BY <1>6, Zenon DEF NamesKept
<1>10. /\ Len(stack') = n
       /\ \A d \in 1..n :
            /\ stack'[d].start = stack[d].start
            /\ stack'[d].seen = IF d = n THEN stack[d].seen \cup {name} ELSE stack[d].seen
  <2> DEFINE f == [stack[n] EXCEPT !.seen = @ \cup {name}, !.key = name]
  <2>0. f.start = stack[n].start /\ f.seen = stack[n].seen \cup {name}
    BY <1>1, <1>5, FrameTypes DEF Frames
  <2>1. WithName(stack, name) = [stack EXCEPT ![n] = f]
    BY <1>1, <1>5, LenProperties DEF WithName, Frames
  <2> HIDE DEF f
  <2>4. Len(WithName(stack, name)) = n
    <3>1. DOMAIN stack = 1..n /\ DOMAIN [stack EXCEPT ![n] = f] = 1..n
      BY <1>1, LenProperties DEF n
    <3>2. QED
      BY <1>1, <1>5, <2>1, <3>1 DEF n
  <2>2. ASSUME NEW d \in 1..n
        PROVE  /\ WithName(stack, name)[d].start = stack[d].start
               /\ WithName(stack, name)[d].seen
                    = IF d = n THEN stack[d].seen \cup {name} ELSE stack[d].seen
    <3>1. WithName(stack, name)[d] = IF d = n THEN f ELSE stack[d]
      BY <1>1, <2>1, <2>2
    <3>2. QED
      BY <2>0, <3>1
  <2>3. QED
    BY <1>2, <1>3, <2>2, <2>4
<1>11. \A d \in 1..n : stack[d].start = stack[n].start <=> d = n
  <2>1. \A d \in 1..n : stack[d].start \in Nat
    BY <1>1, FrameTypes
  <2>2. \A d \in 1..n : d < n => stack[d].start < stack[n].start
    BY <1>5 DEF Structure, Nested
  <2>3. QED
    BY <1>5, <2>1, <2>2
<1>12. names \subseteq 1..(pos - 1)
  BY DEF NamesRead
<1> HIDE DEF n, names, more, name
<1>13. Enclosed(text, more)
  BY <1>7, <1>8, <1>9, Zenon DEF Enclosed
<1>14. ASSUME NEW d \in 1..n
       PROVE  stack'[d].seen = ValuesIn(text, more, stack'[d].start)
  <2> DEFINE In(s) == {j \in s : Enclosing(text, j) = stack[d].start}
             Values(s) == {Decoded(text[i]) : i \in s}
  <2>1. stack[d].seen = Values(In(names))
    BY <1>9, Zenon DEF ValuesIn
  <2>2. In(more) = IF d = n THEN In(names) \cup {pos} ELSE In(names)
    BY <1>7, <1>8, <1>11
  <2>3. \A s : Values(s \cup {pos}) = Values(s) \cup {name}
    BY DEF name
  <2>4. stack'[d].seen = Values(In(more))
    <3> HIDE DEF In, Values
    <3>1. QED
      BY <1>10, <2>1, <2>2, <2>3, Zenon
  <2>5. stack'[d].start = stack[d].start
    BY <1>10
  <2>6. QED
    BY <2>4, <2>5, Zenon DEF ValuesIn
<1>15. FirstOf(Repeated(text, more), first_duplicate')
  <2>1. name \in stack[n].seen
          <=> \E j \in names : Decoded(text[j]) = name /\ Enclosing(text, j) = Enclosing(text, pos)
    <3>1. stack[n].seen = {Decoded(text[i]) : i \in {j \in names :
                                                       Enclosing(text, j) = stack[n].start}}
      BY <1>5, <1>9, Zenon DEF ValuesIn
    <3>2. QED
      BY <1>8, <3>1
  <2>2. Repeated(text, more) = IF name \in stack[n].seen THEN Repeated(text, names) \cup {pos}
                               ELSE Repeated(text, names)
    BY <1>4, <1>7, <1>12, <2>1, RepeatedGrows, Zenon DEF name
  <2>3. Repeated(text, names) \in SUBSET (1..(pos - 1))
    BY <1>12 DEF Repeated
  <2>4. first_duplicate' = IF name \in stack[n].seen
                           THEN IF first_duplicate = 0 THEN pos ELSE first_duplicate
                           ELSE first_duplicate
    BY <1>2, <1>3, Zenon DEF name, n
  <2>5. QED
    BY <1>4, <1>9, <2>2, <2>3, <2>4, FirstOfMore, Zenon
<1>16. NamesRead(text', ctl', pos') = more
  BY <1>2, Zenon DEF more
<1>17. QED
  BY <1>2, <1>10, <1>13, <1>14, <1>15, <1>16, Zenon DEF NamesKept

LEMMA StepNames ==
  ASSUME Position, Structure, Levels, NamesKept, ScanStep
  PROVE  NamesKept'
<1> DEFINE names == NamesRead(text, ctl, pos)
<1>1. CASE Overflow \/ Fail
  <2>1. ctl' = "recursion_error" \/ ctl' = "parse_error"
    BY <1>1, Zenon DEF Overflow, Fail
  <2>2. ctl' \notin Reading \cup {"done"}
    BY <2>1, ReadingPoints
  <2>3. QED
    BY <2>2, Zenon DEF NamesKept
<1>2. CASE ReadName
  BY <1>2, ReadNameKeeps
<1>3. ASSUME ~ Overflow, ~ Fail, ~ ReadName
      PROVE  NamesKept'
  <2>1. text' = text /\ pos \in Nat \ {0} /\ pos' = pos + 1 /\ Len(stack) \in Nat
    <3>1. pos' = pos + 1
      BY <1>3, StepShape, Zenon
    <3>2. QED
      BY <3>1, KindOfPoint, StepReadsOne DEF Position
  <2>2. ctl \in Reading
    BY ReadingPoints DEF ScanStep, Skip, ReadScalar, Open, Overflow, ReadName, ReadColon,
                         ReadComma, Close, Fail
  <2>3. /\ Enclosed(text, names)
        /\ \A d \in 1..Len(stack) :
             stack[d].seen = ValuesIn(text, names, stack[d].start)
        /\ FirstOf(Repeated(text, names), first_duplicate)
    BY <2>2, Zenon DEF NamesKept
  <2>4. NamesRead(text', ctl', pos') = names /\ first_duplicate' = first_duplicate
    <3>1. Skip \/ ReadScalar \/ Open \/ ReadColon \/ ReadComma \/ Close
      BY <1>3, Zenon DEF ScanStep
    <3>2. QED
      BY <2>1, <3>1, NamesStay, Zenon
  <2>5. names \subseteq 1..(pos - 1)
    BY DEF NamesRead
  <2> HIDE DEF names
  <2>6. ASSUME NEW d \in 1..Len(stack')
        PROVE  stack'[d].seen = ValuesIn(text, names, stack'[d].start)
    <3>1. \/ d \in 1..Len(stack) /\ stack'[d].start = stack[d].start /\ stack'[d].seen = stack[d].seen
          \/ stack'[d].start = pos /\ stack'[d].seen = {}
      <4>1. CASE /\ Len(stack') = Len(stack) + 1
                 /\ Outline(stack, stack', Len(stack)) /\ SameSeen(stack, stack', Len(stack))
                 /\ stack'[Len(stack')].start = pos /\ stack'[Len(stack')].seen = {}
        <5>1. Len(stack') = Len(stack) + 1
          BY <4>1, Zenon
        <5>2. d \in 1..Len(stack) \/ d = Len(stack')
          BY <2>1, <5>1
        <5>3. QED
          BY <4>1, <5>2, Zenon DEF Outline, SameSeen
      <4>2. CASE /\ Len(stack') = Len(stack) - 1
                 /\ Outline(stack, stack', Len(stack')) /\ SameSeen(stack, stack', Len(stack'))
        <5>1. Len(stack') = Len(stack) - 1
          BY <4>2, Zenon
        <5>2. d \in 1..Len(stack)
          BY <2>1, <5>1
        <5>3. QED
          BY <4>2, <5>2, Zenon DEF Outline, SameSeen
      <4>3. CASE /\ Len(stack') = Len(stack)
                 /\ Outline(stack, stack', Len(stack)) /\ SameSeen(stack, stack', Len(stack))
        BY <4>3, Zenon DEF Outline, SameSeen
      <4>4. QED
        BY <1>3, <4>1, <4>2, <4>3, StepShape, Zenon
    <3>2. CASE d \in 1..Len(stack) /\ stack'[d].start = stack[d].start /\ stack'[d].seen = stack[d].seen
      BY <2>3, <3>2, Zenon
    <3>3. CASE stack'[d].start = pos /\ stack'[d].seen = {}
      <4>1. \A i \in names : Enclosing(text, i) # pos
        <5>1. ASSUME NEW i \in names
              PROVE  Enclosing(text, i) # pos
          <6>1. i \in 1..(pos - 1) /\ Enclosing(text, i) \in 1..(i - 1)
            BY <2>3, <2>5 DEF Enclosed
          <6>2. QED
            BY <2>1, <6>1
        <5>2. QED
          BY <5>1
      <4>2. {j \in names : Enclosing(text, j) = stack'[d].start} = {}
        BY <3>3, <4>1, Zenon
      <4>3. ValuesIn(text, names, stack'[d].start) = {}
        BY <4>2 DEF ValuesIn
      <4>4. QED
        BY <3>3, <4>3
    <3>4. QED
      BY <3>1, <3>2, <3>3, Zenon
  <2>7. QED
    BY <2>1, <2>3, <2>4, <2>6, Zenon DEF NamesKept
<1>4. QED
  BY <1>1, <1>2, <1>3

LEMMA InitNames == FormatInit => NamesKept
<1> SUFFICES ASSUME FormatInit
             PROVE  NamesKept
  OBVIOUS
<1>1. pos = 1 /\ ctl = "top" /\ stack = <<>> /\ first_duplicate = 0
  BY Zenon DEF FormatInit, ScanInit
<1>2. NamesRead(text, ctl, pos) = {}
  BY <1>1 DEF NamesRead
<1>3. 1..Len(stack) = {}
  BY <1>1
<1>4. FirstOf(Repeated(text, {}), first_duplicate)
  <2>1. Repeated(text, {}) = {}
    BY DEF Repeated
  <2>2. QED
    BY <1>1, <2>1, Zenon DEF FirstOf
<1>5. Enclosed(text, {})
  BY DEF Enclosed
<1>6. QED
  BY <1>2, <1>3, <1>4, <1>5, Zenon DEF NamesKept

\* A value of more than one lexeme ends with a bracket.
LEMMA ValueCloses ==
  ASSUME NEW t, Len(t) \in Nat, NEW a \in 1..Len(t), NEW n \in 1..Len(t), IsValue(t, a, n), a # n
  PROVE  t[n] \in {"}", "]"}
<1>1. PICK k \in Kinds : a < n /\ (t[n] = Closing[k] \/ Lists(t)[<<k, a + 1, n>>])
  BY Zenon DEF IsValue, Value
<1>2. CASE Lists(t)[<<k, a + 1, n>>]
  <2>0. a < n
    BY <1>1, Zenon
  <2>1. a + 1 \in 1..Len(t)
    BY <2>0
  <2>2. t[n] = Closing[k]
    BY <1>2, <2>1, ListRule, Zenon DEF List
  <2>3. QED
    BY <2>2, BracketsAreApart
<1>3. QED
  BY <1>1, <1>2, BracketsAreApart

\* Where a lexeme follows before n, the names before n are the names of the text.
LEMMA NameIsRead ==
  ASSUME NEW t, Len(t) \in Nat, NEW n \in 1..Len(t), NEW i \in 1..n, First(t, i + 1, n) # {}
  PROVE  IsName(t, i) <=> i \in NamesRead(t, "done", n + 1)
<1>1. PICK a \in i + 1..n : t[a] \notin WHITESPACE /\ Blank(t, i + 1, a - 1)
  BY DEF First
<1>2. ":" \notin WHITESPACE
  BY DEF WHITESPACE
<1>3. \A c \in First(t, i + 1, n) : c \in (i + 1)..Len(t) /\ Blank(t, i + 1, c - 1)
  BY DEF First
<1>4. ASSUME NEW j \in (i + 1)..Len(t), t[j] = ":", Blank(t, i + 1, j - 1)
      PROVE  j \in First(t, i + 1, n)
  <2>1. ~ (j < a)
    <3>1. j < a => j \in (i + 1)..(a - 1)
      OBVIOUS
    <3>2. QED
      BY <1>1, <1>2, <1>4, <3>1 DEF Blank
  <2>2. ~ (a < j)
    <3>1. a < j => a \in (i + 1)..(j - 1)
      OBVIOUS
    <3>2. QED
      BY <1>1, <1>4, <3>1 DEF Blank
  <2>3. j = a
    BY <2>1, <2>2
  <2>4. QED
    BY <1>1, <2>3 DEF First
<1>5. i \in NamesRead(t, "done", n + 1)
        <=> t[i] \in Strings /\ \E c \in First(t, i + 1, n) : t[c] = ":"
  <2>1. (n + 1) - 1 = n /\ "done" # "colon"
    OBVIOUS
  <2>2. QED
    BY <2>1, Zenon DEF NamesRead
<1>6. IsName(t, i)
        <=> t[i] \in Strings /\ \E j \in (i + 1)..Len(t) : t[j] = ":" /\ Blank(t, i + 1, j - 1)
  BY Zenon DEF IsName, Blank
<1>7. QED
  BY <1>3, <1>4, <1>5, <1>6, Zenon

\* The names of a value have all been read at its end, unless it is one lexeme.
LEMMA NamesOfValue ==
  ASSUME NEW t \in Seq(Lexemes), NEW n \in ValueEnds(t)
  PROVE  /\ n \in 1..Len(t)
         /\ \/ /\ t[n] \in {"}", "]"}
               /\ \A i \in 1..n : IsName(t, i) <=> i \in NamesRead(t, "done", n + 1)
            \/ t[n] \in Strings \cup Scalars /\ Blank(t, 1, n - 1)
<1>1. n \in 1..Len(t) /\ Len(t) \in Nat
  BY LenProperties DEF ValueEnds
<1>2. PICK a \in First(t, 1, n) : IsValue(t, a, n)
  BY DEF ValueEnds
<1>3. a \in 1..n /\ a \in 1..Len(t) /\ Blank(t, 1, a - 1)
  BY <1>1 DEF First
<1>4. CASE a = n
  <2>1. t[n] \in Strings \cup Scalars
    <3>1. ~ (n < n)
      BY <1>1
    <3>2. QED
      BY <1>2, <1>4, <3>1, Zenon DEF IsValue, Value
  <2>2. QED
    BY <1>1, <1>3, <1>4, <2>1
<1>5. CASE a # n
  <2>1. t[n] \in {"}", "]"}
    BY <1>1, <1>2, <1>3, <1>5, ValueCloses
  <2>2. t[n] \notin WHITESPACE /\ t[n] \notin Strings
    BY <2>1, LexemeAssumption DEF WHITESPACE, Brackets
  <2>3. ASSUME NEW i \in 1..n
        PROVE  IsName(t, i) <=> i \in NamesRead(t, "done", n + 1)
    <3>1. CASE i = n
      BY <2>2, <3>1, Zenon DEF IsName, NamesRead
    <3>2. CASE i # n
      <4>1. n \in (i + 1)..n /\ i + 1 \in Nat /\ n \in Int
        BY <1>1, <3>2
      <4>2. ~ Blank(t, i + 1, n)
        BY <2>2, <4>1 DEF Blank
      <4>3. First(t, i + 1, n) # {}
        BY <4>1, <4>2, NoFirst, Zenon
      <4>4. QED
        BY <1>1, <4>3, NameIsRead, Zenon
    <3>3. QED
      BY <3>1, <3>2
  <2>4. QED
    BY <1>1, <2>1, <2>3
<1>6. QED
  BY <1>4, <1>5

\* So the names that are repeated are the duplicates of the text.
LEMMA DuplicatesAreRepeated ==
  ASSUME NEW t \in Seq(Lexemes), NEW n \in ValueEnds(t)
  PROVE  Duplicates(t, n) = Repeated(t, NamesRead(t, "done", n + 1))
<1> DEFINE names == NamesRead(t, "done", n + 1)
           Same(i, j) == Decoded(t[j]) = Decoded(t[i]) /\ Enclosing(t, j) = Enclosing(t, i)
<1>1. n \in 1..Len(t) /\ Len(t) \in Nat /\ n \in Nat
  <2>1. n \in 1..Len(t)
    BY NamesOfValue, Zenon
  <2>2. QED
    BY <2>1, LenProperties
<1>2. names \subseteq 1..n /\ \A i \in names : t[i] \in Strings
  BY <1>1 DEF NamesRead
<1>3. \A i : i \in Duplicates(t, n)
               <=> i \in 1..n /\ IsName(t, i) /\ \E j \in 1..(i - 1) : IsName(t, j) /\ Same(i, j)
  BY Zenon DEF Duplicates
<1>4. \A i : i \in Repeated(t, names) <=> i \in names /\ \E j \in names : j < i /\ Same(i, j)
  BY Zenon DEF Repeated
<1> HIDE DEF names, Same
<1>5. CASE \A i \in 1..n : IsName(t, i) <=> i \in names
  <2>1. \A i \in 1..n : \A j : j \in 1..(i - 1) <=> j \in 1..n /\ j < i
    BY <1>1
  <2>2. \A i : i \in Duplicates(t, n) <=> i \in Repeated(t, names)
    BY <1>2, <1>3, <1>4, <1>5, <2>1, Zenon
  <2>3. QED
    BY <2>2, Zenon DEF names
<1>6. CASE Blank(t, 1, n - 1)
  <2>1. WHITESPACE \cap Strings = {}
    BY LexemeAssumption DEF WHITESPACE, Brackets
  <2>2. \A i \in 1..n : t[i] \in Strings => i = n
    BY <1>1, <1>6, <2>1 DEF Blank
  <2>3. Duplicates(t, n) = {}
    <3>1. ASSUME NEW i \in Duplicates(t, n)
          PROVE  FALSE
      <4>1. i \in 1..n /\ t[i] \in Strings /\ \E j \in 1..(i - 1) : t[j] \in Strings
        BY <1>3, Zenon DEF IsName
      <4>2. QED
        BY <1>1, <2>2, <4>1
    <3>2. QED
      BY <3>1
  <2>4. Repeated(t, names) = {}
    <3>1. ASSUME NEW i \in Repeated(t, names)
          PROVE  FALSE
      <4>1. i \in names /\ \E j \in names : j < i
        BY <1>4, Zenon
      <4>2. QED
        BY <1>1, <1>2, <2>2, <4>1
    <3>2. QED
      BY <3>1
  <2>5. QED
    BY <2>3, <2>4 DEF names
<1>7. QED
  BY <1>5, <1>6, NamesOfValue, Zenon DEF names

\* The scanner, the grammar and the names agree at every step of the format stage.
ReadingInv == GrammarInv /\ NamesKept

LEMMA NextReading == ReadingInv /\ [FormatNext]_formatVars => ReadingInv'
<1> SUFFICES ASSUME ReadingInv, [FormatNext]_formatVars
             PROVE  ReadingInv'
  OBVIOUS
<1>1. GrammarInv'
  BY NextGrammar, Zenon DEF ReadingInv
<1>2. CASE ScanStep
  BY <1>1, <1>2, StepNames DEF ReadingInv, GrammarInv, ScanInv
<1>3. CASE UNCHANGED scanVars
  <2>1. /\ text' = text /\ pos' = pos /\ ctl' = ctl /\ stack' = stack
        /\ first_duplicate' = first_duplicate
    BY <1>3 DEF scanVars
  <2>2. NamesKept'
    BY <2>1, Zenon DEF ReadingInv, NamesKept
  <2>3. QED
    BY <1>1, <2>2 DEF ReadingInv
<1>4. CASE FormatNext
  BY <1>2, <1>3, <1>4, Zenon DEF FormatNext, Scan, Decode, ScanFailed, CheckNode
<1>5. CASE UNCHANGED formatVars
  BY <1>3, <1>5 DEF formatVars
<1>6. QED
  BY <1>4, <1>5

LEMMA InitReading == FormatInit => ReadingInv
BY InitScan, InitForetold, InitLevels, InitNames DEF ReadingInv, GrammarInv

LEMMA ReadingDuplicates == ReadingInv => DuplicateIsExact
<1> SUFFICES ASSUME ReadingInv, ctl = "done"
             PROVE  LET found == Duplicates(text, pos - 1)
                    IN  IF found = {} THEN first_duplicate = 0
                        ELSE first_duplicate \in found /\ \A i \in found : first_duplicate <= i
  BY Zenon DEF DuplicateIsExact
<1>1. text \in Seq(Lexemes) /\ pos - 1 \in ValueEnds(text)
  BY DEF ReadingInv, GrammarInv, ScanInv, Position, Foretold
<1>2. (pos - 1) + 1 = pos
  BY DEF ReadingInv, GrammarInv, ScanInv, Position
<1>3. Duplicates(text, pos - 1) = Repeated(text, NamesRead(text, "done", pos))
  BY <1>1, <1>2, DuplicatesAreRepeated, Zenon
<1>4. FirstOf(Repeated(text, NamesRead(text, "done", pos)), first_duplicate)
  BY Zenon DEF ReadingInv, NamesKept
<1>5. QED
  BY <1>3, <1>4, Zenon DEF FirstOf

\* The duplicate that the scanner reports is the first name, at any depth of a
\* text of any length, whose value an earlier name of the same object has, and
\* it reports none when there is none.
THEOREM DuplicatesExact == FormatSpec => []DuplicateIsExact
BY InitReading, NextReading, ReadingDuplicates, PTL DEF FormatSpec

---------------------------------------------------------------------------
(* The sections: the members of the top-level object, when no whitespace    *)
(* lies between them.                                                       *)

\* What ends a section.
Ends(t, j) ==
  \/ t[j] = "," /\ Depth(t, j) = 1
  \/ t[j] = "}" /\ Depth(t, j) = 0
Inside(t, a, b) == \A j \in a..b : ~ Ends(t, j)

\* The values of the members of f end before a lexeme at depth one.
Apart(t, f) ==
  \A m \in 1..Len(f.members) :
    /\ Inside(t, f.members[m].node.start, f.members[m].node.end - 1)
    /\ Depth(t, f.members[m].node.end - 1) = 1

\* The names at depth one, and where the first k members of f are to start.
TopLevel(t, point, p) == {i \in NamesRead(t, point, p) : Depth(t, i) = 1}
Starts(f, k) == {Before(f, m) : m \in 1..k}

\* How many names of the outermost object have been read: one more than it has
\* members when the value of the next is being read.
Begun(fs, point) == Len(fs) > 1 \/ point \in {"colon", "member_value"}
Count(fs, point) == IF Begun(fs, point) THEN Upcoming(fs[1]) ELSE Len(fs[1].members)

\* The names at depth one are those of the first k members of f, all in the
\* object that starts the text.
NamedBy(t, point, p, f, k) ==
  /\ TopLevel(t, point, p) = Starts(f, k)
  /\ \A i \in TopLevel(t, point, p) : Enclosing(t, i) = 1

Sectioned(t, fs, point, p) ==
  /\ Apart(t, fs[1])
  /\ Len(fs) > 1 => Inside(t, fs[2].start, p - 1)
  /\ NamedBy(t, point, p, fs[1], Count(fs, point))

\* The object that starts the text awaits the value that starts at value.
Awaiting(t, fs, value, point, p) ==
  /\ Apart(t, fs[1])
  /\ LET from == IF Len(fs) > 1 THEN fs[2].start ELSE value
     IN  from \in Nat /\ Inside(t, from, p - 1)
  /\ NamedBy(t, point, p, fs[1], Upcoming(fs[1]))

\* The object f has been read up to p.
Finished(t, f, point, p) ==
  /\ Apart(t, f) /\ MembersPlaced(t, f, p - 1)
  /\ NamedBy(t, point, p, f, Len(f.members))

ByObject(fs) == fs # <<>> /\ fs[1].kind = "object"

Sections ==
  first_whitespace = 0 =>
    /\ ctl \in Reading /\ ByObject(stack) => Sectioned(text, stack, ctl, pos)
    /\ ctl = "done" /\ top.kind = "object" => Finished(text, top, ctl, pos)

\* One lexeme more is inside when it does not end a section.
LEMMA InsideGrows ==
  ASSUME NEW t, NEW a, NEW p \in Nat, Inside(t, a, p - 1), ~ Ends(t, p), a \in Nat
  PROVE  Inside(t, a, p)
<1>1. \A j \in a..p : j \in a..(p - 1) \/ j = p
  OBVIOUS
<1>2. QED
  BY <1>1, Zenon DEF Inside

\* A lexeme at depth one or more ends no section unless it is a comma at depth one.
LEMMA EndsNothing ==
  ASSUME NEW t, NEW p, Depth(t, p) # 0, Depth(t, p) # 1 \/ t[p] # ","
  PROVE  ~ Ends(t, p)
BY Zenon DEF Ends

\* Where members start depends on the start of f and the ends of its members.
LEMMA StartsAlikeUpTo ==
  ASSUME NEW f, NEW g, NEW k \in Nat, g.start = f.start,
         \A m \in 1..k : g.members[m] = f.members[m]
  PROVE  Starts(g, k + 1) = Starts(f, k + 1)
<1>1. ASSUME NEW m \in 1..(k + 1)
      PROVE  Before(g, m) = Before(f, m)
  <2>1. CASE m = 1
    BY <2>1, Zenon DEF Before
  <2>2. CASE m # 1
    <3>1. m - 1 \in 1..k
      BY <2>2
    <3>2. g.members[m - 1] = f.members[m - 1]
      BY <3>1
    <3>3. QED
      BY <2>2, <3>2, Zenon DEF Before
  <2>3. QED
    BY <2>1, <2>2
<1>2. QED
  BY <1>1 DEF Starts

\* A value has been read, in the object that starts the text or somewhere in it.
LEMMA ReturnSections ==
  ASSUME text' = text, pos \in Nat \ {0}, pos' = pos + 1, NEW M, NEW frames \in Seq(Frames(M)),
         NEW node, node.end = pos + 1, Return(node, frames),
         frames # <<>> => ~ Ends(text, pos),
         Depth(text, pos) = Len(frames),
         TopLevel(text, ctl', pos + 1) = TopLevel(text, ctl, pos),
         ByObject(frames) => Awaiting(text, frames, node.start, ctl, pos),
         frames = <<>> /\ node.kind = "object" => Finished(text, node, "done", pos + 1)
  PROVE  Sections'
<1>1. CASE frames = <<>>
  <2>1. stack' = <<>> /\ ctl' = "done" /\ top' = node
    BY <1>1, Zenon DEF Return
  <2>2. "done" \notin Reading
    BY ReadingPoints
  <2>3. QED
    BY <1>1, <2>1, <2>2, Zenon DEF Sections
<1>2. CASE frames # <<>> /\ ~ ByObject(frames)
  <2>1. /\ Len(stack') = Len(frames) /\ Outline(frames, stack', Len(frames))
        /\ ctl' \in {"done", "object_next", "array_next"}
    BY ReturnShape
  <2>2. 1 \in 1..Len(frames)
    <3>1. Len(frames) \in Nat /\ Len(frames) # 0
      BY <1>2, EmptySeq, LenProperties
    <3>2. QED
      BY <3>1
  <2>3. stack'[1].kind # "object"
    BY <1>2, <2>1, <2>2, Zenon DEF Outline, ByObject
  <2>4. ctl' # "done"
    <3>1. ctl' = IF frames[Len(frames)].kind = "object" THEN "object_next" ELSE "array_next"
      BY <1>2, Zenon DEF Return
    <3>2. QED
      BY <3>1
  <2>5. QED
    BY <2>3, <2>4, Zenon DEF Sections, ByObject
<1>3. CASE ByObject(frames)
  <2> DEFINE n == Len(frames)
             f == frames[n]
             item == [key |-> f.key, node |-> node]
             g == [f EXCEPT !.members = Append(@, item)]
             gs == WithMember(frames, item)
  <2>0. n \in Nat \ {0} /\ 1 \in 1..n /\ n \in 1..n
    <3>1. Len(frames) \in Nat /\ Len(frames) # 0
      BY <1>3, EmptySeq, LenProperties DEF ByObject
    <3>2. QED
      BY <3>1
  <2>1. n \in Nat \ {0} /\ 1 \in 1..n /\ n \in 1..n /\ f \in Frames(M) /\ frames[1] \in Frames(M)
    BY <2>0, FrameTypes
  <2>11. Awaiting(text, frames, node.start, ctl, pos)
    BY <1>3, Zenon
  <2>2. /\ stack' = gs
        /\ ctl' = IF f.kind = "object" THEN "object_next" ELSE "array_next"
    BY <1>3, Zenon DEF Return, WithMember, ByObject
  <2>3. ctl' # "done" /\ ctl' \notin {"colon", "member_value"}
    BY <2>2
  <2>4. item.node = node
    OBVIOUS
  <2> HIDE DEF item
  <2>5. gs = [frames EXCEPT ![n] = g] /\ g.start = f.start /\ g.kind = f.kind
        /\ g.members = Append(f.members, item) /\ f.members \in Seq(M)
    BY <2>1 DEF Frames, WithMember
  <2>6. Len(gs) = n /\ gs[n] = g /\ \A i \in 1..n : i # n => gs[i] = frames[i]
    <3>1. DOMAIN frames = 1..n /\ DOMAIN [frames EXCEPT ![n] = g] = 1..n
      BY LenProperties
    <3> HIDE DEF g, f, n, gs
    <3>2. Len(gs) = n
      BY <2>1, <2>5, <3>1
    <3>3. gs[n] = g /\ \A i \in 1..n : i # n => gs[i] = frames[i]
      BY <2>1, <2>5, <3>1
    <3>4. QED
      BY <3>2, <3>3
  <2> HIDE DEF g, gs
  <2>7. ~ Ends(text, pos)
    BY <1>3, Zenon DEF ByObject
  <2>8. CASE n = 1
    <3>0. gs[1] = g /\ frames[1] = f /\ ~ (Len(frames) > 1)
      BY <2>6, <2>8
    <3>1. PICK k \in Nat : k = Len(f.members)
      BY <2>5, LenProperties
    <3>2. Len(g.members) = k + 1 /\ g.members[k + 1] = item
          /\ \A m \in 1..k : g.members[m] = f.members[m]
      <4>1. f.members \in Seq(M \cup {item})
        BY <2>5, SeqMonotonic
      <4>2. QED
        BY <2>5, <3>1, <4>1, AppendProperties
    <3>3. Inside(text, node.start, pos) /\ Depth(text, pos) = 1
      <4>1. Inside(text, node.start, pos - 1) /\ node.start \in Nat
        BY <2>11, <3>0, Zenon DEF Awaiting
      <4>2. pos \in Nat
        OBVIOUS
      <4>3. QED
        BY <2>7, <2>8, <4>1, <4>2, InsideGrows, Zenon
    <3>4. Apart(text, g)
      <4>1. Apart(text, f)
        BY <2>11, <3>0, Zenon DEF Awaiting
      <4>2. node.end - 1 = pos
        OBVIOUS
      <4>3. ASSUME NEW m \in 1..(k + 1)
            PROVE  /\ Inside(text, g.members[m].node.start, g.members[m].node.end - 1)
                   /\ Depth(text, g.members[m].node.end - 1) = 1
        <5>1. CASE m \in 1..k
          BY <3>1, <3>2, <4>1, <5>1 DEF Apart
        <5>2. CASE m = k + 1
          <6>1. g.members[m].node = node
            BY <2>4, <3>2, <5>2
          <6>2. QED
            BY <3>3, <4>2, <6>1, Zenon
        <5>3. QED
          BY <5>1, <5>2
      <4>4. QED
        BY <3>2, <4>3 DEF Apart
    <3>5. Count(gs, ctl') = k + 1 /\ Upcoming(f) = k + 1
      <4>1. ~ Begun(gs, ctl')
        BY <2>3, <2>6, <2>8 DEF Begun
      <4>2. QED
        BY <3>0, <3>1, <3>2, <4>1, Zenon DEF Count, Upcoming
    <3>6. Starts(g, k + 1) = Starts(f, k + 1)
      BY <2>5, <3>2, StartsAlikeUpTo, Zenon
    <3>7. NamedBy(text, ctl', pos + 1, g, k + 1)
      <4>1. NamedBy(text, ctl, pos, f, k + 1)
        BY <2>11, <3>0, <3>5, Zenon DEF Awaiting
      <4>2. QED
        BY <3>6, <4>1, Zenon DEF NamedBy
    <3>8. ~ (Len(gs) > 1)
      BY <2>6, <2>8
    <3>9. Sectioned(text, gs, ctl', pos + 1)
      BY <3>0, <3>4, <3>5, <3>7, <3>8, Zenon DEF Sectioned
    <3>10. QED
      BY <2>2, <2>3, <3>9, Zenon DEF Sections
  <2>9. CASE n # 1
    <3>1. Len(frames) > 1 /\ Len(gs) > 1 /\ gs[1] = frames[1]
      BY <2>1, <2>6, <2>9
    <3>2. gs[2].start = frames[2].start
      <4>1. CASE n = 2
        BY <2>5, <2>6, <4>1
      <4>2. CASE n # 2
        BY <2>1, <2>6, <2>9, <4>2
      <4>3. QED
        BY <4>1, <4>2
    <3>3. Inside(text, gs[2].start, (pos + 1) - 1)
      <4>1. Inside(text, frames[2].start, pos - 1) /\ frames[2].start \in Nat
        BY <2>11, <3>1, Zenon DEF Awaiting
      <4>2. (pos + 1) - 1 = pos /\ pos \in Nat
        OBVIOUS
      <4>3. Inside(text, frames[2].start, pos)
        BY <2>7, <4>1, <4>2, InsideGrows, Zenon
      <4>4. QED
        BY <3>2, <4>2, <4>3, Zenon
    <3>4. Count(gs, ctl') = Upcoming(frames[1])
      BY <3>1, Zenon DEF Count, Begun
    <3>5. NamedBy(text, ctl', pos + 1, frames[1], Upcoming(frames[1]))
      BY <2>11, Zenon DEF Awaiting, NamedBy
    <3>6. Sectioned(text, gs, ctl', pos + 1)
      BY <2>11, <3>1, <3>3, <3>4, <3>5, Zenon DEF Sectioned, Awaiting
    <3>7. QED
      BY <2>2, <2>3, <3>6, Zenon DEF Sections
  <2>10. QED
    BY <2>8, <2>9
<1>4. QED
  BY <1>1, <1>2, <1>3

\* The scanner reads on inside the frames it is in, with as many names as before.
LEMMA PartSections ==
  ASSUME text' = text, pos \in Nat \ {0}, pos' = pos + 1, ByObject(stack),
         stack'[1] = stack[1], Len(stack') = Len(stack),
         Len(stack) > 1 => /\ stack'[2].start = stack[2].start
                           /\ stack[2].start \in Nat /\ ~ Ends(text, pos),
         ctl' # "done", Begun(stack', ctl') <=> Begun(stack, ctl),
         TopLevel(text, ctl', pos + 1) = TopLevel(text, ctl, pos),
         Sectioned(text, stack, ctl, pos)
  PROVE  Sections'
<1>1. Len(stack') > 1 => Inside(text, stack'[2].start, (pos + 1) - 1)
  <2>1. (pos + 1) - 1 = pos /\ pos \in Nat
    OBVIOUS
  <2>2. QED
    BY <2>1, InsideGrows, Zenon DEF Sectioned
<1>2. Count(stack', ctl') = Count(stack, ctl)
  BY Zenon DEF Count
<1>3. NamedBy(text, ctl', pos + 1, stack'[1], Count(stack', ctl'))
  BY <1>2, Zenon DEF Sectioned, NamedBy
<1>4. Sectioned(text, stack', ctl', pos + 1)
  BY <1>1, <1>3, Zenon DEF Sectioned
<1>5. QED
  BY <1>4, Zenon DEF Sections

\* The object that starts the text awaits a value, where one may start.
LEMMA ObjectAwaits ==
  ASSUME Position, Structure, ctl \in ValuePoints, ByObject(stack),
         Sectioned(text, stack, ctl, pos)
  PROVE  Awaiting(text, stack, pos, ctl, pos)
<1>1. PICK M : stack \in Seq(Frames(M))
  BY DEF Structure
<1>2. pos \in Nat
  BY DEF Position
<1>3. Len(stack) \in Nat /\ Len(stack) # 0
  BY <1>1, EmptySeq, LenProperties DEF ByObject
<1>4. Begun(stack, ctl)
  <2>1. CASE Len(stack) > 1
    BY <2>1 DEF Begun
  <2>2. CASE ~ (Len(stack) > 1)
    <3>1. Len(stack) = 1
      <4>1. PICK n \in Nat : n = Len(stack)
        BY <1>3
      <4>2. QED
        BY <1>3, <2>2, <4>1
    <3>2. KindAt(stack, Len(stack)) = "object"
      <4>1. Len(stack) # 0
        BY <3>1
      <4>2. QED
        BY <3>1, <4>1, Zenon DEF KindAt, ByObject
    <3>3. ctl \notin {"array_open", "element"} /\ ctl # "top"
      <4>1. "array" # "object" /\ "none" # "object"
        OBVIOUS
      <4>2. QED
        BY <3>2, <4>1, KindOfPoint, Zenon
    <3>4. QED
      BY <3>3 DEF Begun, ValuePoints
  <2>3. QED
    BY <2>1, <2>2
<1>5. NamedBy(text, ctl, pos, stack[1], Upcoming(stack[1])) /\ Apart(text, stack[1])
  BY <1>4, Zenon DEF Sectioned, Count
<1>6. Len(stack) > 1 => stack[2].start \in Nat /\ Inside(text, stack[2].start, pos - 1)
  <2>1. Len(stack) > 1 => 2 \in 1..Len(stack)
    BY <1>3
  <2>2. QED
    BY <1>1, <2>1, FrameTypes, Zenon DEF Sectioned
<1>7. Inside(text, pos, pos - 1)
  <2>1. pos..(pos - 1) = {}
    BY <1>2
  <2>2. QED
    BY <2>1, Zenon DEF Inside
<1>8. QED
  BY <1>2, <1>5, <1>6, <1>7, Zenon DEF Awaiting

\* No step but ReadName reads a name at depth one.
LEMMA TopLevelStays ==
  ASSUME Position, Structure, Skip \/ ReadScalar \/ Open \/ ReadColon \/ ReadComma \/ Close
  PROVE  TopLevel(text, ctl', pos + 1) = TopLevel(text, ctl, pos)
BY NamesStay, Zenon DEF TopLevel

\* A scalar in the object that starts the text, or deeper.
LEMMA ScalarSections ==
  ASSUME Position, Structure, Dense, Sections, ReadScalar, first_whitespace = 0,
         Depth(text, pos) = Len(stack')
  PROVE  Sections'
<1> DEFINE node == Node("scalar", pos, pos + 1, <<>>)
<1>1. /\ text' = text /\ pos' = pos + 1 /\ ctl \in ValuePoints /\ Peek \in Strings \cup Scalars
      /\ Return(node, stack)
  BY Zenon DEF ReadScalar, ValuePoints
<1>2. node.start = pos /\ node.end = pos + 1 /\ node.kind # "object"
  BY DEF Node
<1> HIDE DEF node
<1>3. PICK M : stack \in Seq(Frames(M))
  BY DEF Structure
<1>4. pos \in Nat \ {0}
  BY DEF Position
<1>5. ctl \in Reading
  BY <1>1, ReadingPoints DEF ValuePoints
<1>6. ByObject(stack) => Awaiting(text, stack, node.start, ctl, pos)
  <2>1. ByObject(stack) => Sectioned(text, stack, ctl, pos)
    BY <1>5, Zenon DEF Sections
  <2>2. QED
    BY <1>1, <1>2, <2>1, ObjectAwaits, Zenon
<1>7. stack # <<>> => ~ Ends(text, pos)
  <2>1. Peek = text[pos]
    BY <1>1, PeekReads, Zenon
  <2>2. text[pos] # "," /\ text[pos] # "}"
    BY <1>1, <2>1, LexemeAssumption DEF Brackets
  <2>3. QED
    BY <2>2, Zenon DEF Ends
<1>8. TopLevel(text, ctl', pos + 1) = TopLevel(text, ctl, pos)
  BY TopLevelStays, Zenon
<1>9. Depth(text, pos) = Len(stack)
  BY <1>1, <1>3, ReturnShape, Zenon
<1>10. QED
  BY <1>1, <1>2, <1>3, <1>4, <1>6, <1>7, <1>8, <1>9, ReturnSections, Zenon

\* A bracket closes the object that starts the text, or something in it.
LEMMA CloseSections ==
  ASSUME Position, Structure, Dense, Sections, Close, first_whitespace = 0,
         Depth(text, pos) = Len(stack')
  PROVE  Sections'
<1> DEFINE frame == stack[Len(stack)]
           outer == SubSeq(stack, 1, Len(stack) - 1)
           node  == Node(frame.kind, frame.start, pos + 1, frame.members)
<1>1. /\ text' = text /\ pos' = pos + 1 /\ Peek \in {"}", "]"} /\ Return(node, outer)
      /\ ctl \in {"object_open", "object_next", "array_open", "array_next"}
  BY Zenon DEF Close
<1>2. /\ node.kind = frame.kind /\ node.start = frame.start /\ node.end = pos + 1
      /\ node.members = frame.members
  BY DEF Node
<1>3. PICK M : stack \in Seq(Frames(M))
  BY DEF Structure
<1>4. pos \in Nat \ {0}
  BY DEF Position
<1>5. ctl \in Reading
  BY <1>1, ReadingPoints
<1>6. Len(stack) # 0
  BY <1>1, KindOfPoint
<1>7. PICK n \in Nat \ {0} : n = Len(stack)
  BY <1>3, <1>6, LenProperties
<1>8. /\ outer \in Seq(Frames(M)) /\ Len(outer) = n - 1
      /\ \A i \in 1..(n - 1) : outer[i] = stack[i]
  BY <1>3, <1>6, <1>7, OuterShape
<1>9. stack # <<>> /\ \A i \in 1..n : stack[i].start \in Nat
  BY <1>3, <1>7, EmptySeq, FrameTypes
<1> HIDE DEF frame, outer, node
<1>10. text[pos] # ","
  <2>1. Peek = text[pos]
    BY <1>1, PeekReads, Zenon DEF Brackets
  <2>2. QED
    BY <1>1, <2>1
<1>11. Depth(text, pos) = n - 1
  BY <1>1, <1>8, ReturnShape, Zenon
<1>12. TopLevel(text, ctl', pos + 1) = TopLevel(text, ctl, pos)
  BY TopLevelStays, Zenon
<1>13. ByObject(stack) => Sectioned(text, stack, ctl, pos)
  BY <1>5, Zenon DEF Sections
<1>14. CASE n = 1
  <2>1. outer = <<>> /\ frame = stack[1] /\ ~ (Len(stack) > 1) /\ Depth(text, pos) = 0
    <3>1. Len(outer) = 0
      BY <1>8, <1>14
    <3>2. QED
      BY <1>7, <1>8, <1>11, <1>14, <3>1, EmptySeq DEF frame
  <2>2. ASSUME node.kind = "object"
        PROVE  Finished(text, node, "done", pos + 1)
    <3>1. Sectioned(text, stack, ctl, pos)
      BY <1>2, <1>9, <1>13, <2>1, <2>2, Zenon DEF ByObject
    <3>2. ctl \notin {"colon", "member_value"}
      BY <1>1
    <3>3. Count(stack, ctl) = Len(frame.members)
      BY <2>1, <3>2, Zenon DEF Count, Begun
    <3>4. Len(frame.members) \in Nat
      <4>1. 1 \in 1..Len(stack)
        BY <1>7, <1>14
      <4>2. stack[1].members \in Seq(M)
        BY <1>3, <4>1, FrameTypes, Zenon
      <4>3. QED
        BY <2>1, <4>2, LenProperties, Zenon
    <3>5. Starts(node, Len(node.members)) = Starts(frame, Len(frame.members))
      <4>1. \A m : Before(node, m) = Before(frame, m)
        BY <1>2, Zenon DEF Before
      <4>2. QED
        BY <1>2, <4>1, Zenon DEF Starts
    <3>6. ctl' = "done"
      BY <1>1, <2>1, Zenon DEF Return
    <3>7. NamedBy(text, "done", pos + 1, node, Len(node.members))
      BY <1>12, <2>1, <3>1, <3>3, <3>5, <3>6, Zenon DEF Sectioned, NamedBy
    <3>8. Apart(text, node)
      BY <1>2, <2>1, <3>1, Zenon DEF Sectioned, Apart
    <3>9. MembersPlaced(text, node, pos)
      <4>1. MembersPlaced(text, stack[1], IF 1 < Len(stack) THEN stack[2].start ELSE pos)
        <5>1. Nested(text, stack, pos) /\ 1 \in 1..Len(stack) /\ 1 + 1 = 2
          BY <1>7, <1>14 DEF Structure
        <5>2. MembersPlaced(text, stack[1], IF 1 < Len(stack) THEN stack[1 + 1].start ELSE pos)
          BY <5>1, Zenon DEF Nested
        <5>3. QED
          BY <5>1, <5>2, Zenon
      <4>2. ~ (1 < Len(stack))
        BY <1>7, <1>14
      <4>3. MembersPlaced(text, frame, pos)
        BY <2>1, <4>1, <4>2, Zenon
      <4>4. QED
        BY <1>2, <4>3, Zenon DEF MembersPlaced
    <3>10. (pos + 1) - 1 = pos
      BY <1>4
    <3>11. QED
      BY <3>7, <3>8, <3>9, <3>10, Zenon DEF Finished
  <2>3. ~ ByObject(outer) /\ Depth(text, pos) = Len(outer)
    BY <1>8, <1>11, <2>1, Zenon DEF ByObject
  <2>4. QED
    BY <1>1, <1>2, <1>4, <1>8, <1>12, <2>1, <2>2, <2>3, ReturnSections, Zenon
<1>15. CASE n # 1
  <2>1. /\ outer # <<>> /\ outer[1] = stack[1] /\ Len(stack) > 1
        /\ (IF Len(outer) > 1 THEN outer[2].start ELSE node.start) = stack[2].start
        /\ stack[2].start \in Nat /\ Depth(text, pos) # 0
    <3>1. Len(outer) # 0 /\ outer[1] = stack[1] /\ Len(stack) > 1 /\ 2 \in 1..n
      BY <1>7, <1>8, <1>15
    <3>2. outer # <<>>
      BY <3>1, EmptySeq
    <3>3. CASE n = 2
      <4>1. ~ (Len(outer) > 1) /\ frame = stack[2]
        BY <1>7, <1>8, <3>3 DEF frame
      <4>2. QED
        BY <1>2, <1>8, <1>9, <1>11, <3>1, <3>2, <4>1, Zenon
    <3>4. CASE n # 2
      <4>1. Len(outer) > 1 /\ outer[2] = stack[2]
        BY <1>7, <1>8, <1>15, <3>4
      <4>2. QED
        BY <1>8, <1>9, <1>11, <3>1, <3>2, <4>1, Zenon
    <3>5. QED
      BY <3>3, <3>4
  <2>2. ByObject(outer) => Awaiting(text, outer, node.start, ctl, pos)
    <3>1. ASSUME ByObject(outer)
          PROVE  Sectioned(text, stack, ctl, pos)
      BY <1>9, <1>13, <2>1, <3>1, Zenon DEF ByObject
    <3>2. Count(stack, ctl) = Upcoming(stack[1])
      BY <2>1, Zenon DEF Count, Begun
    <3>3. QED
      BY <2>1, <3>1, <3>2, Zenon DEF Sectioned, Awaiting
  <2>3. ~ Ends(text, pos) /\ Depth(text, pos) = Len(outer)
    BY <1>8, <1>10, <1>11, <2>1, EndsNothing, Zenon
  <2>4. QED
    BY <1>1, <1>2, <1>4, <1>8, <1>12, <2>1, <2>2, <2>3, ReturnSections, Zenon
<1>16. QED
  BY <1>14, <1>15

\* Deeper than depth one, nothing ends a section.
LEMMA DeeperEndsNothing ==
  ASSUME NEW t, NEW p, NEW n \in Nat, Depth(t, p) = n, n > 1
  PROVE  ~ Ends(t, p)
<1>1. n # 0 /\ n # 1
  OBVIOUS
<1>2. QED
  BY <1>1, EndsNothing, Zenon

\* A colon or a comma leaves the frames as they are.
LEMMA SignSections ==
  ASSUME Position, Structure, Dense, Sections, ReadColon \/ ReadComma, first_whitespace = 0,
         Depth(text, pos) = Len(stack')
  PROVE  Sections'
<1>1. /\ text' = text /\ pos' = pos + 1 /\ stack' = stack
      /\ \/ ctl = "colon" /\ ctl' = "member_value"
         \/ ctl = "object_next" /\ ctl' = "member"
         \/ ctl = "array_next" /\ ctl' = "element"
  <2>1. "array_next" # "object_next"
    OBVIOUS
  <2>2. QED
    BY <2>1, Zenon DEF ReadColon, ReadComma
<1>2. PICK M : stack \in Seq(Frames(M))
  BY DEF Structure
<1>3. pos \in Nat \ {0}
  BY DEF Position
<1>4. ctl \in Reading /\ ctl' # "done"
  BY <1>1, ReadingPoints
<1>5. Begun(stack, ctl') <=> Begun(stack, ctl)
  BY <1>1 DEF Begun
<1>6. TopLevel(text, ctl', pos + 1) = TopLevel(text, ctl, pos)
  BY TopLevelStays, Zenon
<1>7. Len(stack) > 1 => stack[2].start \in Nat /\ ~ Ends(text, pos)
  <2>1. Len(stack) \in Nat /\ (Len(stack) > 1 => 2 \in 1..Len(stack))
    BY <1>2, LenProperties
  <2>2. Depth(text, pos) = Len(stack)
    BY <1>1, Zenon
  <2>3. QED
    BY <1>2, <2>1, <2>2, FrameTypes, DeeperEndsNothing, Zenon
<1>8. CASE ByObject(stack)
  <2>1. Sectioned(text, stack, ctl, pos)
    BY <1>4, <1>8, Zenon DEF Sections
  <2>2. QED
    BY <1>1, <1>3, <1>4, <1>5, <1>6, <1>7, <1>8, <2>1, PartSections, Zenon
<1>9. CASE ~ ByObject(stack)
  BY <1>1, <1>4, <1>9, Zenon DEF Sections
<1>10. QED
  BY <1>8, <1>9

\* A bracket opens the object that starts the text, or something in it.
LEMMA OpenSections ==
  ASSUME Position, Structure, Dense, Sections, Open, first_whitespace = 0,
         Depth(text, pos) = Len(stack')
  PROVE  Sections'
<1>1. PICK kind, c :
        /\ stack' = Append(stack, Frame(kind, pos)) /\ ctl' = c
        /\ c = "object_open" \/ c = "array_open"
        /\ kind = "object" \/ kind = "array"
  BY Zenon DEF Open
<1>2. text' = text /\ pos' = pos + 1 /\ ctl \in ValuePoints
  BY Zenon DEF Open, ValuePoints
<1>3. PICK M : NoName \in M /\ stack \in Seq(Frames(M))
  BY DEF Structure
<1>4. pos \in Nat \ {0} /\ pos \in Nat
  BY DEF Position
<1>5. ctl \in Reading /\ ctl' # "done" /\ ctl' \notin {"colon", "member_value"}
  BY <1>1, <1>2, ReadingPoints DEF ValuePoints
<1>6. TopLevel(text, c, pos + 1) = TopLevel(text, ctl, pos)
  BY <1>1, TopLevelStays, Zenon
<1>7. PICK n \in Nat : n = Len(stack)
  BY <1>3, LenProperties
<1>8. /\ Len(stack') = n + 1 /\ stack'[n + 1] = Frame(kind, pos)
      /\ \A i \in 1..n : stack'[i] = stack[i]
  <2>1. Frame(kind, pos) \in Frames(M)
    BY <1>1, <1>3, <1>4 DEF Frame, Frames
  <2>2. QED
    BY <1>1, <1>3, <1>7, <2>1, AppendProperties
<1>9. Frame(kind, pos).start = pos /\ Frame(kind, pos).members = <<>>
  BY DEF Frame
<1>10. CASE n = 0
  <2>1. stack = <<>> /\ stack'[1] = Frame(kind, pos) /\ ~ (Len(stack') > 1)
    <3>1. Len(stack') = 1 /\ n + 1 = 1
      BY <1>8, <1>10
    <3>2. stack = <<>>
      BY <1>3, <1>7, <1>10, EmptySeq
    <3>3. ~ (1 > 1)
      OBVIOUS
    <3>4. QED
      BY <1>8, <3>1, <3>2, <3>3, Zenon
  <2>2. ctl = "top" /\ pos = 1
    BY <1>2, <2>1, ValueAwaited DEF Structure, Innermost, ValuePoints
  <2>3. TopLevel(text, c, pos + 1) = {}
    <3>1. NamesRead(text, ctl, 1) = {}
      BY DEF NamesRead
    <3>2. QED
      BY <1>6, <2>2, <3>1 DEF TopLevel
  <2>4. Count(stack', c) = 0
    <3>1. ~ Begun(stack', c)
      BY <1>1, <1>5, <2>1, Zenon DEF Begun
    <3>2. Len(<<>>) = 0
      OBVIOUS
    <3>3. QED
      BY <1>9, <2>1, <3>1, <3>2, Zenon DEF Count
  <2>5. Starts(stack'[1], 0) = {}
    BY DEF Starts
  <2>6. NamedBy(text, c, pos + 1, stack'[1], Count(stack', c))
    BY <2>3, <2>4, <2>5, Zenon DEF NamedBy
  <2>7. Apart(text, stack'[1])
    <3>1. 1..Len(stack'[1].members) = {}
      BY <1>9, <2>1
    <3>2. QED
      BY <3>1, Zenon DEF Apart
  <2>8. Sectioned(text, stack', c, pos + 1)
    BY <2>1, <2>6, <2>7, Zenon DEF Sectioned
  <2>9. QED
    BY <1>1, <1>2, <1>5, <2>8, Zenon DEF Sections
<1>11. CASE n # 0
  <2>1. /\ stack'[1] = stack[1] /\ Len(stack') > 1
        /\ stack'[2].start = (IF Len(stack) > 1 THEN stack[2].start ELSE pos)
        /\ stack # <<>>
    <3>1. 1 \in 1..n /\ Len(stack') > 1 /\ Len(stack) # 0
      BY <1>7, <1>8, <1>11
    <3>2. stack # <<>>
      BY <3>1, EmptySeq
    <3>3. CASE n = 1
      <4>1. ~ (Len(stack) > 1) /\ stack'[2] = Frame(kind, pos)
        BY <1>7, <1>8, <3>3
      <4>2. QED
        BY <1>8, <1>9, <3>1, <3>2, <4>1, Zenon
    <3>4. CASE n # 1
      <4>1. Len(stack) > 1 /\ 2 \in 1..n
        BY <1>7, <1>11, <3>4
      <4>2. QED
        BY <1>8, <3>1, <3>2, <4>1, Zenon
    <3>5. QED
      BY <3>3, <3>4
  <2>2. ByObject(stack') <=> ByObject(stack)
    <3>1. stack' # <<>>
      BY <1>7, <1>8, EmptySeq
    <3>2. QED
      BY <2>1, <3>1, Zenon DEF ByObject
  <2>3. ASSUME ByObject(stack)
        PROVE  Sectioned(text, stack', c, pos + 1)
    <3>1. Awaiting(text, stack, pos, ctl, pos)
      BY <1>2, <1>5, <2>3, ObjectAwaits, Zenon DEF Sections
    <3>2. stack'[2].start \in Nat /\ Inside(text, stack'[2].start, pos - 1)
      BY <2>1, <3>1, Zenon DEF Awaiting
    <3>3. ~ Ends(text, pos)
      <4>1. n + 1 \in Nat /\ n + 1 > 1 /\ Depth(text, pos) = n + 1
        BY <1>8, <1>11
      <4>2. QED
        BY <4>1, DeeperEndsNothing
    <3>4. Inside(text, stack'[2].start, (pos + 1) - 1)
      <4>1. (pos + 1) - 1 = pos
        BY <1>4
      <4>2. QED
        BY <1>4, <3>2, <3>3, <4>1, InsideGrows, Zenon
    <3>5. Count(stack', c) = Upcoming(stack[1])
      BY <2>1, Zenon DEF Count, Begun
    <3>6. NamedBy(text, c, pos + 1, stack'[1], Count(stack', c))
      BY <1>6, <2>1, <3>1, <3>5, Zenon DEF Awaiting, NamedBy
    <3>7. QED
      BY <2>1, <3>1, <3>4, <3>6, Zenon DEF Sectioned, Awaiting
  <2>4. QED
    BY <1>1, <1>2, <1>5, <2>2, <2>3, Zenon DEF Sections
<1>12. QED
  BY <1>10, <1>11

\* The name of a member of the object that starts the text, or of one in it.
LEMMA NameSections ==
  ASSUME Position, Structure, Dense, Levels, Sections, ReadName, first_whitespace = 0,
         Depth(text, pos) = Len(stack')
  PROVE  Sections'
<1> DEFINE name == Decoded(text[pos])
           f == stack[1]
<1>1. /\ text' = text /\ pos' = pos + 1 /\ ctl' = "colon" /\ ctl \in {"object_open", "member"}
      /\ stack' = WithName(stack, Decoded(Peek)) /\ Peek \in Strings
  BY Zenon DEF ReadName, WithName
<1>2. Peek = text[pos] /\ text[pos] \in Strings
  BY <1>1, PeekReads, Zenon
<1>3. PICK M : stack \in Seq(Frames(M))
  BY DEF Structure
<1>4. pos \in Nat \ {0} /\ pos \in Nat
  BY DEF Position
<1>5. ctl \in Reading /\ ctl' # "done" /\ ctl # "colon"
  BY <1>1, ReadingPoints
<1>6. PICK n \in Nat \ {0} : n = Len(stack)
  BY <1>1, <1>3, KindOfPoint, LenProperties
<1>7. stack # <<>> /\ 1 \in 1..n
  BY <1>3, <1>6, EmptySeq
<1>8. /\ Len(stack') = n
      /\ \A d \in 1..n : stack'[d].start = stack[d].start /\ stack'[d].kind = stack[d].kind
      /\ \A d \in 1..n : stack'[d].members = stack[d].members
      /\ \A d \in 1..n : d # n => stack'[d] = stack[d]
  <2> DEFINE g == [stack[n] EXCEPT !.seen = @ \cup {name}, !.key = name]
  <2>1. stack[n] \in Frames(M)
    BY <1>3, <1>6, FrameTypes
  <2>2. g.start = stack[n].start /\ g.kind = stack[n].kind /\ g.members = stack[n].members
    BY <2>1 DEF Frames
  <2>3. stack' = [stack EXCEPT ![n] = g]
    BY <1>1, <1>2, <1>3, <1>6, <2>1, LenProperties DEF WithName, Frames
  <2> HIDE DEF g
  <2>4. Len(stack') = n
    <3>1. DOMAIN stack = 1..n /\ DOMAIN [stack EXCEPT ![n] = g] = 1..n
      BY <1>3, <1>6, LenProperties
    <3>2. QED
      BY <1>6, <2>3, <3>1
  <2>5. \A d \in 1..n : stack'[d] = IF d = n THEN g ELSE stack[d]
    BY <1>3, <1>6, <2>3
  <2>6. QED
    BY <2>2, <2>4, <2>5, Zenon
<1>9. NamesRead(text, ctl', pos + 1) = NamesRead(text, ctl, pos) \cup {pos}
  BY <1>1, <1>2, <1>4, <1>5, OneMoreName, Zenon
<1>10. ASSUME ByObject(stack)
       PROVE  Sectioned(text, stack, ctl, pos)
  BY <1>5, <1>10, Zenon DEF Sections
<1>11. ByObject(stack') <=> ByObject(stack)
  <2>1. stack'[1].kind = stack[1].kind
    BY <1>7, <1>8
  <2>2. Len(<<>>) = 0 /\ n # 0
    BY <1>6
  <2>3. stack' # <<>>
    BY <1>8, <2>2, Zenon
  <2>4. QED
    BY <1>7, <2>1, <2>3, Zenon DEF ByObject
<1> HIDE DEF name
<1>12. CASE ByObject(stack) /\ n = 1
  <2>1. /\ stack'[1].start = f.start /\ stack'[1].members = f.members
        /\ ~ (Len(stack') > 1) /\ ~ (Len(stack) > 1)
    BY <1>6, <1>7, <1>8, <1>12
  <2>2. Outermost(text, stack, ctl, pos)
    BY Zenon DEF Dense
  <2>3. f.start = 1 /\ Progress(text, f, ctl, pos)
    BY <1>7, <1>12, <2>1, <2>2, Zenon DEF Outermost, ByObject
  <2>4. PICK k \in Nat : k = Len(f.members)
    <3>1. f.members \in Seq(M)
      BY <1>3, <1>6, <1>7, FrameTypes, Zenon
    <3>2. QED
      BY <3>1, LenProperties
  <2>5. pos = Before(f, k + 1) /\ Upcoming(f) = k + 1
    <3>1. Upcoming(f) = k + 1
      BY <2>4 DEF Upcoming
    <3>2. CASE ctl = "member"
      BY <2>3, <3>1, <3>2, Zenon DEF Progress
    <3>3. CASE ctl = "object_open"
      <4>1. f.members = <<>> /\ pos = Before(f, 1)
        BY <2>3, <3>3, Zenon DEF Progress
      <4>2. k + 1 = 1
        BY <2>4, <4>1
      <4>3. QED
        BY <3>1, <4>1, <4>2, Zenon
    <3>4. QED
      BY <1>1, <3>2, <3>3
  <2>6. Count(stack, ctl) = k /\ Count(stack', "colon") = k + 1
    <3>1. ~ Begun(stack, ctl)
      BY <1>1, <2>1 DEF Begun
    <3>2. Begun(stack', "colon")
      BY DEF Begun
    <3>3. Upcoming(stack'[1]) = k + 1
      BY <2>1, <2>5, Zenon DEF Upcoming
    <3>4. QED
      BY <2>4, <3>1, <3>2, <3>3, Zenon DEF Count
  <2>7. Starts(stack'[1], k + 1) = Starts(f, k) \cup {pos}
    <3>1. \A m : Before(stack'[1], m) = Before(f, m)
      BY <2>1, Zenon DEF Before
    <3>2. 1..(k + 1) = (1..k) \cup {k + 1}
      OBVIOUS
    <3>3. Starts(stack'[1], k + 1) = {Before(f, m) : m \in 1..(k + 1)}
      BY <3>1, Zenon DEF Starts
    <3> HIDE DEF f
    <3>4. QED
      BY <2>5, <3>2, <3>3 DEF Starts
  <2>8. TopLevel(text, "colon", pos + 1) = TopLevel(text, ctl, pos) \cup {pos}
    <3>1. Depth(text, pos) = 1
      BY <1>8, <1>12, Zenon
    <3>2. QED
      BY <1>1, <1>9, <3>1 DEF TopLevel
  <2>9. Enclosing(text, pos) = 1
    <3>1. Nested(text, stack, pos) /\ Level(text, stack, pos) /\ Len(stack) # 0
      BY <1>5, <1>6 DEF Structure, Levels
    <3>2. Enclosing(text, pos) = stack[Len(stack)].start
      BY <1>3, <1>4, <3>1, EnclosingHere, Zenon
    <3>3. QED
      BY <1>6, <1>12, <2>3, <3>2, Zenon
  <2>10. Sectioned(text, stack, ctl, pos)
    BY <1>10, <1>12
  <2>11. NamedBy(text, "colon", pos + 1, stack'[1], k + 1)
    BY <2>6, <2>7, <2>8, <2>9, <2>10, Zenon DEF Sectioned, NamedBy
  <2>12. Apart(text, stack'[1])
    BY <2>1, <2>10, Zenon DEF Sectioned, Apart
  <2>13. Sectioned(text, stack', "colon", pos + 1)
    BY <2>1, <2>6, <2>11, <2>12, Zenon DEF Sectioned
  <2>14. QED
    BY <1>1, <1>5, <2>13, Zenon DEF Sections
<1>13. CASE ByObject(stack) /\ n # 1
  <2>1. Len(stack) > 1 /\ Len(stack') > 1 /\ 2 \in 1..n /\ 1 # n
    BY <1>6, <1>8, <1>13
  <2>2. /\ stack'[1] = stack[1] /\ stack'[2].start = stack[2].start /\ stack[2].start \in Nat
        /\ Len(stack') = Len(stack)
    BY <1>3, <1>6, <1>7, <1>8, <2>1, FrameTypes, Zenon
  <2>3. ~ Ends(text, pos) /\ Depth(text, pos) # 1
    <3>1. n > 1 /\ Depth(text, pos) = n /\ n \in Nat
      BY <1>6, <1>8, <2>1
    <3>2. n # 1
      BY <1>13, Zenon
    <3>3. QED
      BY <3>1, <3>2, DeeperEndsNothing, Zenon
  <2>4. TopLevel(text, ctl', pos + 1) = TopLevel(text, ctl, pos)
    BY <1>9, <2>3 DEF TopLevel
  <2>5. Begun(stack', ctl') <=> Begun(stack, ctl)
    BY <2>1, Zenon DEF Begun
  <2>6. Sectioned(text, stack, ctl, pos) /\ ByObject(stack)
    BY <1>10, <1>13, Zenon
  <2>7. QED
    BY <1>1, <1>4, <1>5, <2>2, <2>3, <2>4, <2>5, <2>6, PartSections, Zenon
<1>14. CASE ~ ByObject(stack)
  BY <1>5, <1>11, <1>14, Zenon DEF Sections
<1>15. QED
  BY <1>12, <1>13, <1>14, Zenon

LEMMA StepSections ==
  ASSUME Position, Structure, Dense, Levels, Levels', Sections, ScanStep
  PROVE  Sections'
<1>1. pos \in Nat \ {0} /\ text' = text
      /\ (first_whitespace' = 0 => first_whitespace = 0)
  BY StepReadsOne DEF Position
<1>2. CASE Overflow \/ Fail
  <2>1. ctl' = "recursion_error" \/ ctl' = "parse_error"
    BY <1>2, Zenon DEF Overflow, Fail
  <2>2. ctl' \notin Reading /\ ctl' # "done"
    BY <2>1, ReadingPoints
  <2>3. QED
    BY <2>2, Zenon DEF Sections
<1>3. CASE Skip \/ first_whitespace # 0
  <2>1. first_whitespace' # 0
    <3>1. CASE Skip
      <4>1. first_whitespace' = IF first_whitespace = 0 THEN pos ELSE first_whitespace
        BY <3>1, Zenon DEF Skip
      <4>2. QED
        BY <1>1, <4>1
    <3>2. QED
      BY <1>1, <1>3, <3>1
  <2>2. QED
    BY <2>1, Zenon DEF Sections
<1>4. ASSUME first_whitespace = 0, ScanStep, ~ Skip, ~ Overflow, ~ Fail
      PROVE  Sections'
  <2>1. pos' = pos + 1
    BY <1>4, StepShape, Zenon
  <2>2. ASSUME ctl' \in Reading \cup {"done"}
        PROVE  Depth(text, pos) = Len(stack')
    <3>1. Level(text, stack', pos + 1)
      BY <1>1, <2>1, <2>2, Zenon DEF Levels
    <3>2. (pos + 1) - 1 = pos
      BY <1>1
    <3>3. QED
      BY <3>1, <3>2, Zenon DEF Level
  <2>3. ctl' \notin Reading \cup {"done"} => Sections'
    BY Zenon DEF Sections
  <2>4. QED
    BY <1>4, <2>2, <2>3, ScalarSections, CloseSections, SignSections, OpenSections, NameSections,
       Zenon DEF ScanStep
<1>5. QED
  BY <1>2, <1>3, <1>4

LEMMA InitSections == FormatInit => Sections
<1>1. FormatInit => ctl = "top" /\ stack = <<>>
  BY Zenon DEF FormatInit, ScanInit
<1>2. QED
  BY <1>1, Zenon DEF Sections, ByObject

---------------------------------------------------------------------------
(* What check_format looks at is what rejection-reasons.md speaks of.      *)

\* A sequence of different things has as many of them as it is long.
LEMMA Counted ==
  ASSUME NEW n \in Nat, NEW F, DOMAIN F = 1..n,
         \A i, j \in 1..n : i < j => F[i] # F[j]
  PROVE  Cardinality({F[m] : m \in 1..n}) = n
<1> DEFINE S == {F[m] : m \in 1..n}
           G == [m \in 1..n |-> F[m]]
<1>1. G \in Bijection(1..n, S)
  <2>1. G \in [1..n -> S]
    OBVIOUS
  <2>2. ASSUME NEW i \in 1..n, NEW j \in 1..n, G[i] = G[j]
        PROVE  i = j
    BY <2>2
  <2>3. \A s \in S : \E m \in 1..n : G[m] = s
    OBVIOUS
  <2> HIDE DEF G, S
  <2>4. QED
    BY <2>1, <2>2, <2>3 DEF Bijection, Injection, Surjection, IsInjective
<1> HIDE DEF G, S
<1>2. IsFiniteSet(1..n) /\ Cardinality(1..n) = n
  BY FS_Interval
<1>3. QED
  BY <1>1, <1>2, FS_Bijection, Zenon DEF ExistsBijection, S

\* Each member of f starts after the one before it.
LEMMA MembersClimb ==
  ASSUME NEW t, NEW f, f.start \in Nat, Len(f.members) \in Nat, NEW to, MembersPlaced(t, f, to)
  PROVE  /\ \A m \in 1..Len(f.members) : Before(f, m) \in Nat
         /\ \A i, j \in 1..Len(f.members) : i < j => Before(f, i) < Before(f, j)
<1> DEFINE K == Len(f.members)
<1>1. ASSUME NEW m \in 1..K
      PROVE  /\ f.members[m].node.start \in Nat /\ f.members[m].node.end \in Nat
             /\ Before(f, m) <= f.members[m].node.start
             /\ f.members[m].node.start < f.members[m].node.end
  BY <1>1 DEF MembersPlaced, WellPlaced, Before
<1>2. ASSUME NEW m \in 1..K
      PROVE  Before(f, m) \in Nat
  <2>1. CASE m = 1
    BY <2>1 DEF Before
  <2>2. CASE m # 1
    <3>1. m - 1 \in 1..K
      BY <2>2
    <3>2. f.members[m - 1].node.end \in Nat
      BY <1>1, <3>1
    <3>3. QED
      BY <2>2, <3>2 DEF Before
  <2>3. QED
    BY <2>1, <2>2
<1>3. ASSUME NEW m \in 1..K, m > 1
      PROVE  m - 1 \in 1..K /\ Before(f, m - 1) < Before(f, m)
  <2>1. m - 1 \in 1..K
    BY <1>3
  <2>2. Before(f, m) = f.members[m - 1].node.end + 1
    BY <1>3 DEF Before
  <2> DEFINE at == Before(f, m - 1)
             start == f.members[m - 1].node.start
             end == f.members[m - 1].node.end
  <2>3. at \in Nat /\ start \in Nat /\ end \in Nat /\ at <= start /\ start < end
    BY <1>1, <1>2, <2>1
  <2> HIDE DEF at, start, end
  <2>4. at < end + 1
    BY <2>3
  <2>5. QED
    BY <2>1, <2>2, <2>4 DEF at, end
<1>4. ASSUME NEW i \in 1..K, \E j \in 1..K : i < j /\ ~ (Before(f, i) < Before(f, j))
      PROVE  FALSE
  <2> DEFINE bad == {j \in 1..K : i < j /\ ~ (Before(f, i) < Before(f, j))}
  <2>1. bad \subseteq Nat /\ bad # {}
    BY <1>4
  <2>2. PICK j \in bad : \A x \in bad : j <= x
    BY <2>1, Least
  <2>3. j \in 1..K /\ i < j /\ ~ (Before(f, i) < Before(f, j)) /\ j > 1
    BY <2>2
  <2>4. j - 1 \in 1..K /\ Before(f, j - 1) < Before(f, j)
    BY <1>3, <2>3
  <2>5. j - 1 \notin bad
    BY <2>2, <2>3
  <2>6. i = j - 1 \/ Before(f, i) < Before(f, j - 1)
    BY <2>3, <2>4, <2>5
  <2> DEFINE a == Before(f, i)
             b == Before(f, j - 1)
             c == Before(f, j)
  <2>7. a \in Nat /\ b \in Nat /\ c \in Nat
    BY <1>2, <2>3, <2>4
  <2>8. (i = j - 1 => a = b) /\ b < c /\ ~ (a < c)
    BY <2>3, <2>4
  <2>9. i = j - 1 \/ a < b
    BY <2>6
  <2> HIDE DEF a, b, c, bad
  <2>10. QED
    BY <2>7, <2>8, <2>9
<1>5. QED
  BY <1>2, <1>4

\* The k-th of the members' positions.
LEMMA NthStart ==
  ASSUME NEW f, Len(f.members) \in Nat,
         \A m \in 1..Len(f.members) : Before(f, m) \in Nat,
         \A i, j \in 1..Len(f.members) : i < j => Before(f, i) < Before(f, j)
  PROVE  /\ Cardinality(Starts(f, Len(f.members))) = Len(f.members)
         /\ \A k \in 1..Len(f.members) : Nth(Starts(f, Len(f.members)), k) = Before(f, k)
<1> DEFINE K == Len(f.members)
           UpTo(x) == {y \in Starts(f, K) : y <= x}
<1>1. ASSUME NEW k \in 0..K
      PROVE  Cardinality(Starts(f, k)) = k
  <2> DEFINE F == [m \in 1..k |-> Before(f, m)]
  <2>1. DOMAIN F = 1..k /\ k \in Nat
    OBVIOUS
  <2>2. ASSUME NEW i \in 1..k, NEW j \in 1..k, i < j
        PROVE  F[i] # F[j]
    <3>1. Before(f, i) \in Nat /\ Before(f, j) \in Nat /\ Before(f, i) < Before(f, j)
      BY <2>2
    <3>2. Before(f, i) # Before(f, j)
      BY <3>1
    <3>3. QED
      BY <3>2
  <2>3. {F[m] : m \in 1..k} = Starts(f, k)
    BY DEF Starts
  <2> HIDE DEF F
  <2>4. QED
    BY <2>1, <2>2, <2>3, Counted
<1>2. ASSUME NEW k \in 1..K
      PROVE  UpTo(Before(f, k)) = Starts(f, k)
  <2>1. ASSUME NEW m \in 1..K
        PROVE  Before(f, m) <= Before(f, k) <=> m <= k
    <3> DEFINE a == Before(f, m)
               b == Before(f, k)
    <3>1. a \in Nat /\ b \in Nat /\ (m < k => a < b) /\ (k < m => b < a) /\ (m = k => a = b)
      OBVIOUS
    <3> HIDE DEF a, b
    <3>2. a <= b <=> m <= k
      BY <3>1
    <3>3. QED
      BY <3>2 DEF a, b
  <2>2. \A m : m \in 1..k <=> m \in 1..K /\ m <= k
    OBVIOUS
  <2>3. \A x : x \in Starts(f, k) <=> \E m \in 1..k : x = Before(f, m)
    BY DEF Starts
  <2>4. \A x : x \in Starts(f, K) <=> \E m \in 1..K : x = Before(f, m)
    BY DEF Starts
  <2> DEFINE U == UpTo(Before(f, k))
  <2>5. \A x : x \in U <=> x \in Starts(f, K) /\ x <= Before(f, k)
    OBVIOUS
  <2> HIDE DEF U
  <2>6. \A x : x \in U <=> x \in Starts(f, k)
    <3>1. ASSUME NEW x, x \in U
          PROVE  x \in Starts(f, k)
      <4>1. PICK m \in 1..K : x = Before(f, m)
        BY <2>4, <2>5, <3>1, Zenon
      <4>2. m <= k
        BY <2>1, <2>5, <3>1, <4>1, Zenon
      <4>3. QED
        BY <2>2, <2>3, <4>1, <4>2, Zenon
    <3>2. ASSUME NEW x, x \in Starts(f, k)
          PROVE  x \in U
      <4>1. PICK m \in 1..k : x = Before(f, m)
        BY <2>3, <3>2, Zenon
      <4>2. m \in 1..K /\ m <= k
        BY <2>2, Zenon
      <4>3. QED
        BY <2>1, <2>4, <2>5, <4>1, <4>2, Zenon
    <3>3. QED
      BY <3>1, <3>2, Zenon
  <2>7. QED
    BY <2>6 DEF U
<1>3. ASSUME NEW k \in 1..K
      PROVE  Nth(Starts(f, K), k) = Before(f, k)
  <2>1. Before(f, k) \in Starts(f, K) /\ k \in 0..K
    BY DEF Starts
  <2>2. Cardinality(UpTo(Before(f, k))) = k
    BY <1>1, <1>2, <2>1
  <2>3. ASSUME NEW x \in Starts(f, K), Cardinality(UpTo(x)) = k
        PROVE  x = Before(f, k)
    <3>1. PICK m \in 1..K : x = Before(f, m)
      BY DEF Starts
    <3>2. m \in 0..K
      BY <3>1
    <3>3. Cardinality(UpTo(x)) = m
      BY <1>1, <1>2, <3>1, <3>2
    <3>4. QED
      BY <2>3, <3>1, <3>3
  <2>4. Nth(Starts(f, K), k) = CHOOSE x \in Starts(f, K) : Cardinality(UpTo(x)) = k
    BY DEF Nth
  <2> HIDE DEF UpTo, K
  <2>5. QED
    BY <2>1, <2>2, <2>3, <2>4, Zenon
<1>4. K \in 0..K
  OBVIOUS
<1>5. QED
  BY <1>1, <1>3, <1>4

\* All that the invariants say of the scan.
ReadInv == ReadingInv /\ WhitespaceIsExact /\ Dense /\ Sections

\* A text that was read begins with one value, which ends before pos.
LEMMA ValueRead ==
  ASSUME ReadInv, ctl = "done"
  PROVE  /\ text \in Seq(Lexemes) /\ Len(text) \in Nat
         /\ pos \in Nat /\ pos - 1 \in 1..Len(text) /\ (pos - 1) + 1 = pos
         /\ ValueEnds(text) = {pos - 1}
<1>1. text \in Seq(Lexemes) /\ pos \in 1..(Len(text) + 1) /\ ValueEnds(text) = {pos - 1}
  BY DEF ReadInv, ReadingInv, GrammarInv, ScanInv, Position, Foretold
<1>2. pos - 1 \in 1..Len(text)
  BY <1>1, NamesOfValue
<1>3. QED
  BY <1>1, <1>2, LenProperties

\* What follows the value is the rest.
LEMMA RestFollows ==
  ASSUME ReadInv, ctl = "done"
  PROVE  /\ rest = SubSeq(text, (pos - 1) + 1, Len(text))
         /\ rest = <<>> <=> pos - 1 = Len(text)
<1>1. text \in Seq(Lexemes) /\ Len(text) \in Nat /\ pos - 1 \in 1..Len(text) /\ pos \in Nat
  BY ValueRead
<1>2. (pos - 1) + 1 = pos
  BY ValueRead
<1>3. rest = SubSeq(text, (pos - 1) + 1, Len(text))
  BY <1>2 DEF rest
<1>4. CASE pos - 1 = Len(text)
  BY <1>1, <1>4 DEF rest
<1>5. CASE pos - 1 # Len(text)
  <2>1. Len(rest) = Len(text) - pos + 1
    BY <1>1, <1>5 DEF rest
  <2>2. Len(rest) # 0
    BY <1>1, <1>5, <2>1
  <2>3. QED
    BY <1>3, <1>5, <2>2
<1>6. QED
  BY <1>3, <1>4, <1>5

\* What the scanner reported is what there is to report.
LEMMA ReportsFound ==
  ASSUME ReadInv, ctl = "done"
  PROVE  /\ first_whitespace # 0 <=> \E i \in 1..(pos - 1) : text[i] \in WHITESPACE
         /\ first_duplicate # 0 <=> Duplicates(text, pos - 1) # {}
<1>1. pos - 1 \in 1..Len(text) /\ Len(text) \in Nat
  BY ValueRead
<1>2. first_whitespace # 0 <=> \E i \in 1..(pos - 1) : text[i] \in WHITESPACE
  <2> DEFINE skipped == {i \in 1..(pos - 1) : text[i] \in WHITESPACE}
  <2>1. IF skipped = {} THEN first_whitespace = 0
        ELSE first_whitespace \in skipped /\ \A i \in skipped : first_whitespace <= i
    BY Zenon DEF ReadInv, WhitespaceIsExact
  <2>2. 0 \notin skipped
    BY <1>1
  <2>3. skipped # {} <=> \E i \in 1..(pos - 1) : text[i] \in WHITESPACE
    OBVIOUS
  <2> HIDE DEF skipped
  <2>4. QED
    BY <2>1, <2>2, <2>3, Zenon
<1>3. first_duplicate # 0 <=> Duplicates(text, pos - 1) # {}
  <2> DEFINE found == Duplicates(text, pos - 1)
  <2>1. IF found = {} THEN first_duplicate = 0
        ELSE first_duplicate \in found /\ \A i \in found : first_duplicate <= i
    BY ReadingDuplicates, Zenon DEF ReadInv, DuplicateIsExact
  <2>2. 0 \notin found
    <3>1. 0 \notin 1..(pos - 1)
      BY <1>1
    <3>2. QED
      BY <3>1, Zenon DEF Duplicates
  <2> HIDE DEF found
  <2>3. QED
    BY <2>1, <2>2, Zenon DEF found
<1>4. QED
  BY <1>2, <1>3

\* Without whitespace, the value is the first lexemes of the text.
LEMMA StartsText ==
  ASSUME ReadInv, ctl = "done", first_whitespace = 0
  PROVE  /\ top.start = 1 /\ top.end = pos
         /\ StartsAsKind(text, top) /\ EndsAsKind(text, top)
         /\ First(text, 1, pos - 1) = {1}
         /\ top.kind = "object" <=> text[1] = "{"
         /\ \A i \in 1..(pos - 1) : text[i] \notin WHITESPACE
<1>1. pos - 1 \in 1..Len(text) /\ Len(text) \in Nat /\ pos \in Nat
  BY ValueRead
<1>2. \A i \in 1..(pos - 1) : text[i] \notin WHITESPACE
  BY ReportsFound
<1>3. First(text, 1, pos - 1) = {1}
  <2>1. 1 \in 1..(pos - 1) /\ 1 <= pos - 1 /\ pos - 1 \in Int
    BY <1>1
  <2>2. text[1] \notin WHITESPACE
    BY <1>2, <2>1
  <2>3. QED
    BY <2>1, <2>2, FirstIsHere
<1>4. WellPlaced(text, top, 1, pos) /\ top.end = pos
  BY DEF ReadInv, ReadingInv, GrammarInv, ScanInv, Structure
<1>5. top.start = 1
  BY DEF ReadInv, Dense
<1>6. StartsAsKind(text, top) /\ EndsAsKind(text, top)
  BY <1>4 DEF WellPlaced
<1>7. top.kind = "object" <=> text[1] = "{"
  BY <1>5, <1>6 DEF StartsAsKind
<1>8. QED
  BY <1>2, <1>3, <1>4, <1>5, <1>6, <1>7

\* The top-level object has been read.
AnObject == ReadInv /\ ctl = "done" /\ first_whitespace = 0 /\ top.kind = "object"

\* Its members are where the sections say they are.
LEMMA MembersRead ==
  ASSUME AnObject
  PROVE  /\ Len(top.members) \in Nat
         /\ Packed(text, top) /\ Closed(text, top)
         /\ Apart(text, top) /\ MembersPlaced(text, top, pos - 1)
         /\ TopLevel(text, "done", pos) = Starts(top, Len(top.members))
         /\ \A i \in TopLevel(text, "done", pos) : Enclosing(text, i) = 1
         /\ \A m \in 1..Len(top.members) : Before(top, m) \in Nat
         /\ \A i, j \in 1..Len(top.members) : i < j => Before(top, i) < Before(top, j)
<1>1. Packed(text, top) /\ Closed(text, top)
  BY DEF AnObject, ReadInv, Dense
<1>2. Finished(text, top, "done", pos)
  BY DEF AnObject, ReadInv, Sections
<1>3. Len(top.members) \in Nat
  BY <1>1 DEF Closed
<1>4. /\ Apart(text, top) /\ MembersPlaced(text, top, pos - 1)
      /\ NamedBy(text, "done", pos, top, Len(top.members))
  BY <1>2, Zenon DEF Finished
<1>5. top.start \in Nat
  <2>1. top.start = 1
    BY StartsText, Zenon DEF AnObject
  <2>2. QED
    BY <2>1
<1>6. /\ \A m \in 1..Len(top.members) : Before(top, m) \in Nat
      /\ \A i, j \in 1..Len(top.members) : i < j => Before(top, i) < Before(top, j)
  BY <1>3, <1>4, <1>5, MembersClimb, Zenon
<1>7. QED
  BY <1>1, <1>3, <1>4, <1>6, Zenon DEF NamedBy

\* The names of the top-level object are its keys.
LEMMA NamesAreKeys ==
  ASSUME AnObject
  PROVE  /\ TopNamed(text, pos - 1) = Starts(top, Len(top.members))
         /\ TopNames(text, pos - 1) = keys
<1>0. /\ text \in Seq(Lexemes) /\ pos - 1 \in 1..Len(text) /\ (pos - 1) + 1 = pos
      /\ ValueEnds(text) = {pos - 1} /\ Len(text) \in Nat
  BY ValueRead DEF AnObject
<1>1. \A i \in 1..(pos - 1) : IsName(text, i) <=> i \in NamesRead(text, "done", pos)
  <2>1. CASE text[pos - 1] \in Strings \cup Scalars /\ Blank(text, 1, (pos - 1) - 1)
    <3>1. text[1] = "{" /\ text[1] \notin WHITESPACE /\ pos - 1 \in 1..(pos - 1)
      <4>1. text[1] = "{"
        BY StartsText, Zenon DEF AnObject
      <4>2. text[1] \notin WHITESPACE
        BY <4>1 DEF WHITESPACE
      <4>3. pos - 1 \in 1..(pos - 1)
        BY <1>0
      <4>4. QED
        BY <4>1, <4>2, <4>3
    <3>2. 1 \notin 1..((pos - 1) - 1)
      BY <2>1, <3>1 DEF Blank
    <3>3. pos - 1 = 1
      BY <1>0, <3>2
    <3>4. "{" \notin Strings \cup Scalars
      BY LexemeAssumption DEF Brackets
    <3>5. QED
      BY <2>1, <3>1, <3>3, <3>4
  <2>2. QED
    BY <1>0, <2>1, NamesOfValue, Zenon
<1>2. TopNamed(text, pos - 1) = TopLevel(text, "done", pos)
  <2>1. NamesRead(text, "done", pos) \subseteq 1..(pos - 1)
    BY DEF NamesRead
  <2>2. QED
    BY <1>1, <2>1, Zenon DEF TopNamed, TopLevel
<1>3. TopNamed(text, pos - 1) = Starts(top, Len(top.members))
  BY <1>2, MembersRead, Zenon
<1>4. /\ Cardinality(Starts(top, Len(top.members))) = Len(top.members)
      /\ \A k \in 1..Len(top.members) : Nth(Starts(top, Len(top.members)), k) = Before(top, k)
  BY MembersRead, NthStart, Zenon
<1>5. \A k \in 1..Len(top.members) : Decoded(text[Before(top, k)]) = top.members[k].key
  BY MembersRead, Zenon DEF Packed, Named
<1>6. TopNames(text, pos - 1) = keys
  BY <1>3, <1>4, <1>5, Zenon DEF TopNames, keys
<1>7. QED
  BY <1>3, <1>6

\* Without duplicates, no two keys are the same.
LEMMA KeysDiffer ==
  ASSUME AnObject, first_duplicate = 0
  PROVE  \A i, j \in 1..Len(top.members) : i < j => keys[i] # keys[j]
<1> DEFINE K == Len(top.members)
<1>1. K \in Nat /\ \A m \in 1..K : Before(top, m) \in Nat
  BY MembersRead
<1>2. ASSUME NEW i \in 1..K, NEW j \in 1..K, i < j, keys[i] = keys[j]
      PROVE  FALSE
  <2> DEFINE a == Before(top, i)
             b == Before(top, j)
  <2>1. a \in Nat /\ b \in Nat /\ a < b
    BY <1>1, <1>2, MembersRead
  <2>2. a \in Starts(top, K) /\ b \in Starts(top, K)
    BY DEF Starts
  <2>3. /\ a \in 1..(pos - 1) /\ b \in 1..(pos - 1)
        /\ IsName(text, a) /\ IsName(text, b)
    BY <2>2, NamesAreKeys, Zenon DEF TopNamed
  <2>4. Enclosing(text, a) = 1 /\ Enclosing(text, b) = 1
    BY <2>2, MembersRead, Zenon
  <2>5. Decoded(text[a]) = Decoded(text[b])
    <3>1. \A k \in 1..K : Decoded(text[Before(top, k)]) = top.members[k].key
      BY MembersRead, Zenon DEF Packed, Named
    <3>2. keys[i] = top.members[i].key /\ keys[j] = top.members[j].key
      BY DEF keys
    <3>3. QED
      BY <1>2, <3>1, <3>2, Zenon
  <2>6. a \in 1..(b - 1)
    BY <2>1, <2>3
  <2> HIDE DEF a, b
  <2>7. b \in Duplicates(text, pos - 1)
    BY <2>3, <2>4, <2>5, <2>6, Zenon DEF Duplicates
  <2>8. QED
    BY <2>7, ReportsFound, Zenon DEF AnObject
<1>3. QED
  BY <1>2

\* Then the keys are five when they are the required ones.
LEMMA FiveKeys ==
  ASSUME AnObject, first_duplicate = 0, KeySet = Required
  PROVE  Len(top.members) = 5
<1>1. PICK K \in Nat : K = Len(top.members)
  BY MembersRead
<1>2. Cardinality({keys[m] : m \in 1..K}) = K
  <2>1. DOMAIN keys = 1..K
    BY <1>1 DEF keys
  <2>2. \A i, j \in 1..K : i < j => keys[i] # keys[j]
    BY <1>1, KeysDiffer
  <2>3. QED
    BY <2>1, <2>2, Counted, Zenon
<1>3. KeySet = {keys[m] : m \in 1..K}
  BY <1>1 DEF KeySet, keys
<1>4. Cardinality(Required) = 5
  <2>1. DOMAIN TOP_LEVEL_ORDER = 1..5 /\ Len(TOP_LEVEL_ORDER) = 5
    BY DEF TOP_LEVEL_ORDER
  <2>2. \A i, j \in 1..5 : i < j => TOP_LEVEL_ORDER[i] # TOP_LEVEL_ORDER[j]
    BY DEF TOP_LEVEL_ORDER
  <2>3. Cardinality({TOP_LEVEL_ORDER[m] : m \in 1..5}) = 5
    <3>1. PICK n \in Nat : n = 5
      OBVIOUS
    <3>2. DOMAIN TOP_LEVEL_ORDER = 1..n
      BY <2>1, <3>1
    <3>3. \A i, j \in 1..n : i < j => TOP_LEVEL_ORDER[i] # TOP_LEVEL_ORDER[j]
      BY <2>2, <3>1
    <3>4. Cardinality({TOP_LEVEL_ORDER[m] : m \in 1..n}) = n
      BY <3>2, <3>3, Counted, Zenon
    <3>5. QED
      BY <3>1, <3>4, Zenon
  <2>4. QED
    BY <2>1, <2>3, Zenon DEF Required
<1>5. QED
  BY <1>1, <1>2, <1>3, <1>4, Zenon

\* The comma or the brace after a member is the first lexeme to end its section,
\* and the colon the one after its name: the raw text of the member is its
\* section.
LEMMA SectionIsRaw ==
  ASSUME AnObject, NEW k \in 1..Len(top.members)
  PROVE  SectionLexemes(text, pos - 1, k) = raw(top.members[k].node)
<1> DEFINE K == Len(top.members)
           n == pos - 1
           at == Before(top, k)
           from == top.members[k].node.start
           to == top.members[k].node.end
           after == {j \in (at + 1)..n : Ends(text, j)}
<1>1. /\ K \in Nat /\ n \in Nat /\ n \in 1..Len(text) /\ at \in Nat /\ k \in Nat
      /\ text \in Seq(Lexemes) /\ pos \in Nat /\ n + 1 = pos
  BY MembersRead, ValueRead DEF AnObject
<1>2. /\ from \in Nat /\ to \in Nat /\ from = at + 2 /\ from < to /\ to <= n
      /\ Inside(text, from, to - 1) /\ Depth(text, to - 1) = 1
  <2>1. MembersPlaced(text, top, n) /\ Apart(text, top) /\ Packed(text, top)
    BY MembersRead
  <2>2. from \in Nat /\ to \in Nat /\ from < to /\ to <= n
    BY <2>1 DEF MembersPlaced, WellPlaced
  <2>3. from = at + 2
    BY <2>1, Zenon DEF Packed, Named
  <2>4. Inside(text, from, to - 1) /\ Depth(text, to - 1) = 1
    BY <2>1, Zenon DEF Apart
  <2>5. QED
    BY <2>2, <2>3, <2>4
<1>3. Nth(TopNamed(text, n), k) = at /\ at \in TopNamed(text, n)
  <2>1. TopNamed(text, n) = Starts(top, K)
    BY NamesAreKeys
  <2>2. Nth(Starts(top, K), k) = at
    BY MembersRead, NthStart, Zenon
  <2>3. at \in Starts(top, K)
    BY DEF Starts
  <2>4. QED
    BY <2>1, <2>2, <2>3
<1>4. at + 1 \in 1..n /\ First(text, at + 1, n) = {at + 1}
  <2>1. at + 1 \in 1..n /\ at + 1 <= n /\ at + 1 \in Int /\ n \in Int
    BY <1>1, <1>2
  <2>2. text[at + 1] \notin WHITESPACE
    BY <2>1, StartsText DEF AnObject
  <2>3. QED
    BY <2>1, <2>2, FirstIsHere
<1>5. text[at + 1] = ":"
  <2>1. IsName(text, at)
    BY <1>3, Zenon DEF TopNamed
  <2>2. PICK j \in (at + 1)..Len(text) :
          text[j] = ":" /\ \A i \in (at + 1)..(j - 1) : text[i] \in WHITESPACE
    BY <2>1, Zenon DEF IsName
  <2>3. text[at + 1] \notin WHITESPACE
    BY <1>4 DEF First
  <2>4. j = at + 1
    <3>1. j \in Nat /\ at + 1 <= j
      BY <1>1
    <3>2. at + 1 \notin (at + 1)..(j - 1)
      BY <2>2, <2>3, Zenon
    <3>3. QED
      BY <1>1, <3>1, <3>2
  <2>5. QED
    BY <2>2, <2>4
<1>6. ~ Ends(text, at + 1)
  BY <1>5 DEF Ends
<1>7. Ends(text, to)
  <2>1. text[to] = "," \/ (text[to] = "}" /\ to = n)
    <3>1. CASE k = K
      <4>1. top.members # <<>>
        BY <1>1, <3>1
      <4>2. text[top.end - 1] = "}" /\ Reached(top, top.end - 1)
        BY <4>1, MembersRead, Zenon DEF Closed
      <4>3. top.end = pos
        BY StartsText, Zenon DEF AnObject
      <4>4. QED
        BY <3>1, <4>2, <4>3, Zenon DEF Reached
    <3>2. CASE k # K
      <4>1. k + 1 \in 1..K /\ k + 1 > 1 /\ (k + 1) - 1 = k
        BY <1>1, <3>2
      <4>2. Comma(text, top, k + 1)
        BY <4>1, MembersRead, Zenon DEF Packed, Named
      <4>3. QED
        BY <4>1, <4>2, Zenon DEF Comma
    <3>3. QED
      BY <3>1, <3>2
  <2>2. to - 1 \in Nat /\ (to - 1) + 1 = to
    BY <1>1, <1>2
  <2>3. /\ Depth(text, to) = Depth(text, to - 1)
             + (IF text[to] \in {"{", "["} THEN 1 ELSE IF text[to] \in {"}", "]"} THEN -1 ELSE 0)
    BY <2>2, DepthSteps
  <2>4. CASE text[to] = ","
    <3>1. "," \notin {"{", "["} /\ "," \notin {"}", "]"}
      OBVIOUS
    <3>2. Depth(text, to) = 1 + 0
      BY <1>2, <2>3, <2>4, <3>1, Zenon
    <3>3. 1 + 0 = 1
      OBVIOUS
    <3>4. QED
      BY <2>4, <3>2, <3>3, Zenon DEF Ends
  <2>5. CASE text[to] = "}"
    <3>1. "}" \notin {"{", "["} /\ "}" \in {"}", "]"}
      OBVIOUS
    <3>2. Depth(text, to) = 1 + -1
      BY <1>2, <2>3, <2>5, <3>1, Zenon
    <3>3. 1 + -1 = 0
      OBVIOUS
    <3>4. QED
      BY <2>5, <3>2, <3>3, Zenon DEF Ends
  <2>6. QED
    BY <2>1, <2>4, <2>5
<1>8. to \in after /\ \A j \in after : to <= j
  <2>1. to \in after
    BY <1>1, <1>2, <1>7
  <2>2. ASSUME NEW j \in after, j < to
        PROVE  FALSE
    <3>1. j \in (at + 1)..n /\ Ends(text, j)
      OBVIOUS
    <3>2. j = at + 1 \/ j \in from..(to - 1)
      <4>1. at \in Nat /\ from = at + 2 /\ to \in Nat /\ n \in Nat
        BY <1>1, <1>2
      <4>2. j \in (at + 1)..n /\ j < to
        BY <2>2, <3>1
      <4> HIDE DEF after, to, from, at, n
      <4>3. QED
        BY <4>1, <4>2
    <3>3. QED
      BY <1>2, <1>6, <3>1, <3>2, Zenon DEF Inside
  <2>3. \A j \in after : j \in Nat
    BY <1>1
  <2> HIDE DEF after, to, from
  <2>4. QED
    BY <1>2, <2>1, <2>2, <2>3
<1>9. (CHOOSE j \in after : \A i \in after : j <= i) = to
  <2>1. after \subseteq Nat
    BY <1>1
  <2>2. to \in Nat
    BY <1>2
  <2> HIDE DEF after, to, from, at
  <2>3. ASSUME NEW x \in after, \A i \in after : x <= i
        PROVE  x = to
    BY <1>8, <2>1, <2>2, <2>3
  <2>4. QED
    BY <1>8, <2>3, Zenon
<1>10. (CHOOSE c \in First(text, at + 1, n) : TRUE) = at + 1
  BY <1>4, Zenon
<1>11. SectionLexemes(text, n, k) = SubSeq(text, (at + 1) + 1, to - 1)
  <2>1. after = {j \in (at + 1)..n : \/ text[j] = "," /\ Depth(text, j) = 1
                                     \/ text[j] = "}" /\ Depth(text, j) = 0}
    BY Zenon DEF Ends
  <2> HIDE DEF after, to, from, at, n
  <2>2. QED
    BY <1>3, <1>9, <1>10, <2>1, Zenon DEF SectionLexemes
<1>12. (at + 1) + 1 = from
  BY <1>1, <1>2
<1>13. QED
  BY <1>11, <1>12 DEF raw

\* The parts of ValueCodes, named.
IsObject(n) == \E a \in First(text, 1, n) : text[a] = "{"
NameSet(n)  == {TopNames(text, n)[i] : i \in 1..Len(TopNames(text, n))}
Complete(n) == IsObject(n) /\ NameSet(n) = Required /\ Len(TopNames(text, n)) = 5

\* The codes of the format stage, by precedence.
LEMMA CodesRanked ==
  /\ FormatCodes = {"INVALID_UTF8", "BOM_PRESENT", "INVALID_JSON", "MISSING_FINAL_LF",
                    "TRAILING_DATA", "NON_CANONICAL_WHITESPACE", "DUPLICATE_KEY",
                    "INVARIANT_REMOVED", "MISSING_REQUIRED_FIELD", "UNEXPECTED_FIELD",
                    "FIELD_ORDER_VIOLATION", "TYPE_MISMATCH"}
  /\ PRECEDENCE["INVALID_UTF8"] = 1 /\ PRECEDENCE["BOM_PRESENT"] = 2
  /\ PRECEDENCE["INVALID_JSON"] = 3 /\ PRECEDENCE["MISSING_FINAL_LF"] = 4
  /\ PRECEDENCE["TRAILING_DATA"] = 5 /\ PRECEDENCE["NON_CANONICAL_WHITESPACE"] = 6
  /\ PRECEDENCE["DUPLICATE_KEY"] = 7 /\ PRECEDENCE["INVARIANT_REMOVED"] = 8
  /\ PRECEDENCE["MISSING_REQUIRED_FIELD"] = 9 /\ PRECEDENCE["UNEXPECTED_FIELD"] = 10
  /\ PRECEDENCE["FIELD_ORDER_VIOLATION"] = 11 /\ PRECEDENCE["TYPE_MISMATCH"] = 12
<1>1. FormatCodes = {"INVALID_UTF8", "BOM_PRESENT", "INVALID_JSON", "MISSING_FINAL_LF",
                     "TRAILING_DATA", "NON_CANONICAL_WHITESPACE", "DUPLICATE_KEY",
                     "INVARIANT_REMOVED", "MISSING_REQUIRED_FIELD", "UNEXPECTED_FIELD",
                     "FIELD_ORDER_VIOLATION", "TYPE_MISMATCH"}
  BY DEF FormatCodes, FormatPrecedence
<1>2. \A c \in FormatCodes : PRECEDENCE[c] = FormatPrecedence[c]
  BY DEF PRECEDENCE, ActiveCodes
<1>3. /\ FormatPrecedence["INVALID_UTF8"] = 1 /\ FormatPrecedence["BOM_PRESENT"] = 2
      /\ FormatPrecedence["INVALID_JSON"] = 3 /\ FormatPrecedence["MISSING_FINAL_LF"] = 4
      /\ FormatPrecedence["TRAILING_DATA"] = 5
      /\ FormatPrecedence["NON_CANONICAL_WHITESPACE"] = 6
      /\ FormatPrecedence["DUPLICATE_KEY"] = 7 /\ FormatPrecedence["INVARIANT_REMOVED"] = 8
      /\ FormatPrecedence["MISSING_REQUIRED_FIELD"] = 9
      /\ FormatPrecedence["UNEXPECTED_FIELD"] = 10
      /\ FormatPrecedence["FIELD_ORDER_VIOLATION"] = 11
      /\ FormatPrecedence["TYPE_MISMATCH"] = 12
  BY DEF FormatPrecedence
<1>4. QED
  BY <1>1, <1>2, <1>3

\* What each code of a text that starts with a value says of it.
LEMMA CodesOfValue ==
  ASSUME NEW n
  PROVE  /\ ValueCodes(text, n) \subseteq
              FormatCodes \ {"INVALID_UTF8", "BOM_PRESENT", "INVALID_JSON"}
         /\ "MISSING_FINAL_LF" \in ValueCodes(text, n) <=> n = Len(text)
         /\ "TRAILING_DATA" \in ValueCodes(text, n)
              <=> n < Len(text) /\ SubSeq(text, n + 1, Len(text)) # <<"LF">>
         /\ "NON_CANONICAL_WHITESPACE" \in ValueCodes(text, n)
              <=> \E i \in 1..n : text[i] \in WHITESPACE
         /\ "DUPLICATE_KEY" \in ValueCodes(text, n) <=> Duplicates(text, n) # {}
         /\ "INVARIANT_REMOVED" \in ValueCodes(text, n)
              <=> IsObject(n) /\ "invariant" \notin NameSet(n)
         /\ "MISSING_REQUIRED_FIELD" \in ValueCodes(text, n)
              <=> IsObject(n) /\ \E k \in Required \ {"invariant"} : k \notin NameSet(n)
         /\ "UNEXPECTED_FIELD" \in ValueCodes(text, n)
              <=> IsObject(n) /\ \E k \in NameSet(n) : k \notin Required
         /\ "FIELD_ORDER_VIOLATION" \in ValueCodes(text, n)
              <=> Complete(n) /\ TopNames(text, n) # TOP_LEVEL_ORDER
         /\ "TYPE_MISMATCH" \in ValueCodes(text, n)
              <=> \/ ~ IsObject(n)
                  \/ /\ Complete(n)
                     /\ \E k \in 1..5 :
                           ~ SchemaAccepts(TopNames(text, n)[k], SectionLexemes(text, n, k))
<1> DEFINE noLF     == n = Len(text)
           trails   == n < Len(text) /\ SubSeq(text, n + 1, Len(text)) # <<"LF">>
           spaced   == \E i \in 1..n : text[i] \in WHITESPACE
           repeats  == Duplicates(text, n) # {}
           removed  == IsObject(n) /\ "invariant" \notin NameSet(n)
           missing  == IsObject(n) /\ \E k \in Required \ {"invariant"} : k \notin NameSet(n)
           extra    == IsObject(n) /\ \E k \in NameSet(n) : k \notin Required
           disorder == Complete(n) /\ TopNames(text, n) # TOP_LEVEL_ORDER
           wrong    == /\ Complete(n)
                       /\ \E k \in 1..5 :
                             ~ SchemaAccepts(TopNames(text, n)[k], SectionLexemes(text, n, k))
<1>1. \A c : c \in ValueCodes(text, n)
               <=> /\ c \in FormatCodes
                   /\ \/ c = "MISSING_FINAL_LF" /\ noLF
                      \/ c = "TRAILING_DATA" /\ trails
                      \/ c = "NON_CANONICAL_WHITESPACE" /\ spaced
                      \/ c = "DUPLICATE_KEY" /\ repeats
                      \/ c = "INVARIANT_REMOVED" /\ removed
                      \/ c = "MISSING_REQUIRED_FIELD" /\ missing
                      \/ c = "UNEXPECTED_FIELD" /\ extra
                      \/ c = "FIELD_ORDER_VIOLATION" /\ disorder
                      \/ c = "TYPE_MISMATCH" /\ (~ IsObject(n) \/ wrong)
  BY Zenon DEF ValueCodes, IsObject, NameSet, Complete
<1>2. {"MISSING_FINAL_LF", "TRAILING_DATA", "NON_CANONICAL_WHITESPACE", "DUPLICATE_KEY",
       "INVARIANT_REMOVED", "MISSING_REQUIRED_FIELD", "UNEXPECTED_FIELD",
       "FIELD_ORDER_VIOLATION", "TYPE_MISMATCH"} \subseteq FormatCodes
  BY CodesRanked
<1> HIDE DEF noLF, trails, spaced, repeats, removed, missing, extra, disorder, wrong
<1>3. /\ "MISSING_FINAL_LF" \in ValueCodes(text, n) <=> noLF
      /\ "TRAILING_DATA" \in ValueCodes(text, n) <=> trails
      /\ "NON_CANONICAL_WHITESPACE" \in ValueCodes(text, n) <=> spaced
      /\ "DUPLICATE_KEY" \in ValueCodes(text, n) <=> repeats
  BY <1>1, <1>2
<1>4. /\ "INVARIANT_REMOVED" \in ValueCodes(text, n) <=> removed
      /\ "MISSING_REQUIRED_FIELD" \in ValueCodes(text, n) <=> missing
      /\ "UNEXPECTED_FIELD" \in ValueCodes(text, n) <=> extra
      /\ "FIELD_ORDER_VIOLATION" \in ValueCodes(text, n) <=> disorder
      /\ "TYPE_MISMATCH" \in ValueCodes(text, n) <=> (~ IsObject(n) \/ wrong)
  BY <1>1, <1>2
<1>5. ValueCodes(text, n) \subseteq FormatCodes \ {"INVALID_UTF8", "BOM_PRESENT", "INVALID_JSON"}
  BY <1>1
<1>6. QED
  BY <1>3, <1>4, <1>5, Zenon
     DEF noLF, trails, spaced, repeats, removed, missing, extra, disorder, wrong

\* The check that decides is the first that fails.
LEMMA FirstToFail ==
  ASSUME CheckNode
  PROVE  \/ format' = Accepted /\ \A j \in 1..11 : ~ Checks[j][2]
         \/ \E i \in 1..11 : /\ Checks[i][2] /\ format' = Checks[i][1]
                             /\ \A j \in 1..11 : j < i => ~ Checks[j][2]
<1> DEFINE failing == {i \in 1..Len(Checks) : Checks[i][2]}
           first == CHOOSE i \in failing : \A j \in failing : i <= j
<1>1. Len(Checks) = 11
  BY DEF Checks
<1>2. format' = IF failing = {} THEN Accepted ELSE Checks[first][1]
  BY DEF CheckNode
<1>3. CASE failing = {}
  BY <1>1, <1>2, <1>3
<1>4. CASE failing # {}
  <2>1. first \in failing /\ \A j \in failing : first <= j
    <3>1. failing \in SUBSET (1..11)
      BY <1>1
    <3> HIDE DEF failing
    <3>2. \E i \in failing : \A j \in failing : i <= j
      BY <1>4, <3>1, FirstOfEleven
    <3>3. QED
      BY <3>2, Zenon
  <2>2. first \in 1..11 /\ Checks[first][2]
    BY <1>1, <2>1
  <2>3. ASSUME NEW j \in 1..11, j < first
        PROVE  ~ Checks[j][2]
    <3>1. Checks[j][2] => j \in failing
      BY <1>1
    <3> HIDE DEF first, failing
    <3>2. first <= j => FALSE
      BY <2>2, <2>3
    <3>3. QED
      BY <2>1, <3>1, <3>2, Zenon
  <2>4. format' = Checks[first][1]
    BY <1>2, <1>4
  <2> HIDE DEF first, failing
  <2>5. QED
    BY <2>2, <2>3, <2>4
<1>5. QED
  BY <1>3, <1>4

\* The checks on the text itself.
LEMMA TextChecks ==
  ASSUME ReadInv, ctl = "done"
  PROVE  /\ rest = <<>> <=> "MISSING_FINAL_LF" \in ValueCodes(text, pos - 1)
         /\ rest # <<>> => (rest # <<"LF">> <=> "TRAILING_DATA" \in ValueCodes(text, pos - 1))
         /\ first_whitespace # 0 <=> "NON_CANONICAL_WHITESPACE" \in ValueCodes(text, pos - 1)
         /\ first_duplicate # 0 <=> "DUPLICATE_KEY" \in ValueCodes(text, pos - 1)
         /\ first_whitespace = 0 => (top.kind = "object" <=> IsObject(pos - 1))
<1> DEFINE n == pos - 1
<1>1. n \in 1..Len(text) /\ Len(text) \in Nat
  BY ValueRead
<1>2. n # Len(text) <=> n < Len(text)
  BY <1>1
<1>3. /\ rest = SubSeq(text, n + 1, Len(text))
      /\ rest = <<>> <=> n = Len(text)
  BY RestFollows
<1>4. /\ "MISSING_FINAL_LF" \in ValueCodes(text, n) <=> n = Len(text)
      /\ "TRAILING_DATA" \in ValueCodes(text, n)
           <=> n < Len(text) /\ SubSeq(text, n + 1, Len(text)) # <<"LF">>
      /\ "NON_CANONICAL_WHITESPACE" \in ValueCodes(text, n)
           <=> \E i \in 1..n : text[i] \in WHITESPACE
      /\ "DUPLICATE_KEY" \in ValueCodes(text, n) <=> Duplicates(text, n) # {}
  BY CodesOfValue, Zenon
<1>5. /\ first_whitespace # 0 <=> \E i \in 1..n : text[i] \in WHITESPACE
      /\ first_duplicate # 0 <=> Duplicates(text, n) # {}
  BY ReportsFound
<1>6. ASSUME first_whitespace = 0
      PROVE  top.kind = "object" <=> IsObject(n)
  <2>1. First(text, 1, n) = {1} /\ (top.kind = "object" <=> text[1] = "{")
    BY <1>6, StartsText, Zenon
  <2> HIDE DEF n
  <2>2. QED
    BY <2>1, Zenon DEF IsObject
<1> HIDE DEF n
<1>7. rest # <<>> => (rest # <<"LF">> <=> "TRAILING_DATA" \in ValueCodes(text, n))
  BY <1>2, <1>3, <1>4, Zenon
<1>8. QED
  BY <1>3, <1>4, <1>5, <1>6, <1>7, Zenon DEF n

\* The checks on its names, when there is no whitespace and it is an object.
LEMMA NameChecks ==
  ASSUME AnObject
  PROVE  /\ "invariant" \notin KeySet <=> "INVARIANT_REMOVED" \in ValueCodes(text, pos - 1)
         /\ "invariant" \in KeySet =>
              (~ (Required \subseteq KeySet) <=> "MISSING_REQUIRED_FIELD" \in ValueCodes(text, pos - 1))
         /\ ~ (KeySet \subseteq Required) <=> "UNEXPECTED_FIELD" \in ValueCodes(text, pos - 1)
         /\ first_duplicate = 0 /\ KeySet = Required =>
              /\ keys # TOP_LEVEL_ORDER <=> "FIELD_ORDER_VIOLATION" \in ValueCodes(text, pos - 1)
              /\ SchemaErrors <=> "TYPE_MISMATCH" \in ValueCodes(text, pos - 1)
<1> DEFINE n == pos - 1
<1>1. IsObject(n)
  BY TextChecks, Zenon DEF AnObject
<1>2. TopNames(text, n) = keys
  BY NamesAreKeys
<1>3. NameSet(n) = KeySet
  <2> HIDE DEF n
  <2>1. QED
    BY <1>2, Zenon DEF NameSet, KeySet
<1>4. /\ "INVARIANT_REMOVED" \in ValueCodes(text, n)
           <=> IsObject(n) /\ "invariant" \notin NameSet(n)
      /\ "MISSING_REQUIRED_FIELD" \in ValueCodes(text, n)
           <=> IsObject(n) /\ \E k \in Required \ {"invariant"} : k \notin NameSet(n)
      /\ "UNEXPECTED_FIELD" \in ValueCodes(text, n)
           <=> IsObject(n) /\ \E k \in NameSet(n) : k \notin Required
      /\ "FIELD_ORDER_VIOLATION" \in ValueCodes(text, n)
           <=> Complete(n) /\ TopNames(text, n) # TOP_LEVEL_ORDER
      /\ "TYPE_MISMATCH" \in ValueCodes(text, n)
           <=> \/ ~ IsObject(n)
               \/ /\ Complete(n)
                  /\ \E k \in 1..5 :
                        ~ SchemaAccepts(TopNames(text, n)[k], SectionLexemes(text, n, k))
  BY CodesOfValue, Zenon
<1>5. ASSUME first_duplicate = 0, KeySet = Required
      PROVE  /\ keys # TOP_LEVEL_ORDER <=> "FIELD_ORDER_VIOLATION" \in ValueCodes(text, n)
             /\ SchemaErrors <=> "TYPE_MISMATCH" \in ValueCodes(text, n)
  <2>1. Len(top.members) = 5
    BY <1>5, FiveKeys
  <2>2. Len(keys) = 5
    BY <2>1 DEF keys
  <2>3. Complete(n)
    <3> HIDE DEF n
    <3>1. QED
      BY <1>1, <1>2, <1>3, <1>5, <2>2, Zenon DEF Complete
  <2>4. SchemaErrors
          <=> \E k \in 1..5 : ~ SchemaAccepts(TopNames(text, n)[k], SectionLexemes(text, n, k))
    <3>1. \A k \in 1..5 : SectionLexemes(text, n, k) = raw(top.members[k].node)
      BY <2>1, SectionIsRaw, Zenon
    <3>2. \A k \in 1..5 : TopNames(text, n)[k] = top.members[k].key
      <4>1. \A k \in 1..5 : keys[k] = top.members[k].key
        BY <2>1, Zenon DEF keys
      <4>2. QED
        BY <1>2, <4>1, Zenon
    <3>3. SchemaErrors <=> \E k \in 1..5 :
          ~ SchemaAccepts(top.members[k].key, raw(top.members[k].node))
      BY <2>1, Zenon DEF SchemaErrors
    <3> HIDE DEF n
    <3>4. QED
      BY <3>1, <3>2, <3>3, Zenon
  <2> HIDE DEF n
  <2>5. QED
    BY <1>1, <1>2, <1>4, <2>3, <2>4, Zenon
<1> HIDE DEF n
<1>6. "invariant" \in KeySet =>
        (~ (Required \subseteq KeySet) <=> "MISSING_REQUIRED_FIELD" \in ValueCodes(text, n))
  BY <1>1, <1>3, <1>4, Zenon
<1>7. ~ (KeySet \subseteq Required) <=> "UNEXPECTED_FIELD" \in ValueCodes(text, n)
  BY <1>1, <1>3, <1>4, Zenon
<1>8. QED
  BY <1>1, <1>3, <1>4, <1>5, <1>6, <1>7, Zenon DEF n

\* What it means that an answer is the primary of the codes that apply.
Decides(answer, codes) ==
  IF answer = Uncaught
    THEN \E i \in 1..Len(text) : Depth(text, i) > RecursionLimit \/ text[i] \in Oversized
    ELSE IF codes = {} THEN answer = Accepted
    ELSE answer \in codes /\ \A c \in codes : PRECEDENCE[answer] <= PRECEDENCE[c]

\* A code decides when it applies and no code before it does.
LEMMA CodeDecides ==
  ASSUME NEW codes, codes \subseteq FormatCodes, NEW code \in codes,
         \A c \in FormatCodes : PRECEDENCE[c] < PRECEDENCE[code] => c \notin codes
  PROVE  Decides(code, codes)
<1>1. \A c \in FormatCodes : PRECEDENCE[c] \in Nat /\ c # Uncaught
  BY CodesRanked DEF Uncaught
<1>2. \A c \in codes : PRECEDENCE[code] <= PRECEDENCE[c]
  <2>1. ASSUME NEW c \in codes
        PROVE  PRECEDENCE[code] <= PRECEDENCE[c]
    <3>1. PRECEDENCE[code] \in Nat /\ PRECEDENCE[c] \in Nat /\ ~ (PRECEDENCE[c] < PRECEDENCE[code])
      BY <1>1
    <3>2. QED
      BY <3>1
  <2>2. QED
    BY <2>1
<1>3. code # Uncaught /\ codes # {}
  BY <1>1
<1>4. QED
  BY <1>2, <1>3, Zenon DEF Decides

\* The checks in their order.
LEMMA ChecksAre ==
  /\ Checks[1][1] = "MISSING_FINAL_LF" /\ (Checks[1][2] <=> rest = <<>>)
  /\ Checks[2][1] = "TRAILING_DATA" /\ (Checks[2][2] <=> rest # <<"LF">>)
  /\ Checks[3][1] = "NON_CANONICAL_WHITESPACE" /\ (Checks[3][2] <=> first_whitespace # 0)
  /\ Checks[4][1] = "DUPLICATE_KEY" /\ (Checks[4][2] <=> first_duplicate # 0)
  /\ Checks[5][1] = "TYPE_MISMATCH" /\ (Checks[5][2] <=> top.kind # "object")
  /\ Checks[6][1] = "INVARIANT_REMOVED" /\ (Checks[6][2] <=> "invariant" \notin KeySet)
  /\ Checks[7][1] = "MISSING_REQUIRED_FIELD" /\ (Checks[7][2] <=> ~ (Required \subseteq KeySet))
  /\ Checks[8][1] = "UNEXPECTED_FIELD" /\ (Checks[8][2] <=> ~ (KeySet \subseteq Required))
  /\ Checks[9][1] = "FIELD_ORDER_VIOLATION" /\ (Checks[9][2] <=> keys # TOP_LEVEL_ORDER)
  /\ Checks[10][1] = Uncaught /\ (Checks[10][2] <=> \E i \in 1..(pos - 1) : text[i] \in Oversized)
  /\ Checks[11][1] = "TYPE_MISMATCH" /\ (Checks[11][2] <=> top.kind = "object" /\ SchemaErrors)
BY DEF Checks

\* The answer of the checks on a value is the primary of its codes.
LEMMA CheckDecides ==
  ASSUME ReadInv, CheckNode
  PROVE  Decides(format', ValueCodes(text, pos - 1))
<1> DEFINE V == ValueCodes(text, pos - 1)
<1>1. ctl = "done"
  BY DEF CheckNode
<1>2. V \subseteq FormatCodes \ {"INVALID_UTF8", "BOM_PRESENT", "INVALID_JSON"}
  BY CodesOfValue, Zenon
<1>3. /\ rest = <<>> <=> "MISSING_FINAL_LF" \in V
      /\ rest # <<>> => (rest # <<"LF">> <=> "TRAILING_DATA" \in V)
      /\ first_whitespace # 0 <=> "NON_CANONICAL_WHITESPACE" \in V
      /\ first_duplicate # 0 <=> "DUPLICATE_KEY" \in V
      /\ first_whitespace = 0 => (top.kind = "object" <=> IsObject(pos - 1))
  BY <1>1, TextChecks, Zenon
<1>4. ASSUME ~ IsObject(pos - 1)
      PROVE  /\ "TYPE_MISMATCH" \in V
             /\ "INVARIANT_REMOVED" \notin V /\ "MISSING_REQUIRED_FIELD" \notin V
             /\ "UNEXPECTED_FIELD" \notin V /\ "FIELD_ORDER_VIOLATION" \notin V
  BY <1>4, CodesOfValue, Zenon DEF Complete
<1>5. ASSUME first_whitespace = 0, top.kind = "object"
      PROVE  /\ "invariant" \notin KeySet <=> "INVARIANT_REMOVED" \in V
             /\ "invariant" \in KeySet =>
                  (~ (Required \subseteq KeySet) <=> "MISSING_REQUIRED_FIELD" \in V)
             /\ ~ (KeySet \subseteq Required) <=> "UNEXPECTED_FIELD" \in V
             /\ first_duplicate = 0 /\ KeySet = Required =>
                  /\ keys # TOP_LEVEL_ORDER <=> "FIELD_ORDER_VIOLATION" \in V
                  /\ SchemaErrors <=> "TYPE_MISMATCH" \in V
  BY <1>1, <1>5, NameChecks, Zenon DEF AnObject
<1> HIDE DEF V
<1>6. Required \subseteq KeySet /\ KeySet \subseteq Required => KeySet = Required
  OBVIOUS
<1>7. V \subseteq FormatCodes
  BY <1>2
<1>8. ASSUME NEW i \in 1..11, Checks[i][2], format' = Checks[i][1],
             \A j \in 1..11 : j < i => ~ Checks[j][2]
      PROVE  Decides(format', V)
  <2>0. \A j \in 1..11 : j < i => ~ Checks[j][2]
    BY <1>8
  <2>1. /\ i > 1 => "MISSING_FINAL_LF" \notin V /\ rest # <<>>
        /\ i > 2 => "TRAILING_DATA" \notin V
        /\ i > 3 => "NON_CANONICAL_WHITESPACE" \notin V /\ first_whitespace = 0
        /\ i > 4 => "DUPLICATE_KEY" \notin V /\ first_duplicate = 0
        /\ i > 5 => top.kind = "object"
    <3>1. /\ i > 1 => ~ Checks[1][2]
          /\ i > 2 => ~ Checks[2][2]
          /\ i > 3 => ~ Checks[3][2]
          /\ i > 4 => ~ Checks[4][2]
          /\ i > 5 => ~ Checks[5][2]
      BY <1>8
    <3>2. /\ i > 2 => i > 1
      OBVIOUS
    <3>3. QED
      BY <1>3, <3>1, <3>2, ChecksAre, Zenon
  <2>2. /\ i > 6 => "invariant" \in KeySet /\ "INVARIANT_REMOVED" \notin V
        /\ i > 7 => Required \subseteq KeySet /\ "MISSING_REQUIRED_FIELD" \notin V
        /\ i > 8 => KeySet \subseteq Required /\ "UNEXPECTED_FIELD" \notin V
        /\ i > 9 => keys = TOP_LEVEL_ORDER /\ "FIELD_ORDER_VIOLATION" \notin V
    <3>1. /\ i > 6 => ~ Checks[6][2]
          /\ i > 7 => ~ Checks[7][2]
          /\ i > 8 => ~ Checks[8][2]
          /\ i > 9 => ~ Checks[9][2]
      BY <1>8
    <3>2. /\ i > 9 => i > 8 /\ i > 7 /\ i > 6
          /\ i > 8 => i > 7 /\ i > 6
          /\ i > 7 => i > 6
          /\ i > 6 => i > 5 /\ i > 4 /\ i > 3
      OBVIOUS
    <3>3. QED
      BY <1>5, <1>6, <2>1, <3>1, <3>2, ChecksAre, Zenon
  <2>3. CASE i = 10
    <3>1. format' = Uncaught /\ \E x \in 1..(pos - 1) : text[x] \in Oversized
      BY <1>8, <2>3, ChecksAre, Zenon
    <3>2. 1..(pos - 1) \subseteq 1..Len(text)
      BY <1>1, ValueRead
    <3>3. QED
      BY <3>1, <3>2, Zenon DEF Decides
  <2>4. CASE i # 10
    <3>1. format' \in V
      <4>1. CASE i \in {1, 2, 3, 4}
        BY <1>3, <1>8, <2>1, <4>1, ChecksAre
      <4>2. CASE i = 5
        BY <1>3, <1>4, <1>8, <2>1, <4>2, ChecksAre
      <4>3. CASE i \in {6, 7, 8}
        BY <1>5, <1>8, <2>1, <2>2, <4>3, ChecksAre
      <4>4. CASE i \in {9, 11}
        BY <1>5, <1>6, <1>8, <2>1, <2>2, <4>4, ChecksAre
      <4>5. i \in {1, 2, 3, 4} \/ i = 5 \/ i \in {6, 7, 8} \/ i \in {9, 11}
        BY <2>4
      <4>6. QED
        BY <4>1, <4>2, <4>3, <4>4, <4>5
    <3>2. ASSUME NEW c \in FormatCodes, PRECEDENCE[c] < PRECEDENCE[format'], c \in V
          PROVE  FALSE
      <4>1. CASE i \in {1, 2, 3, 4}
        BY <1>2, <1>8, <2>1, <3>2, <4>1, ChecksAre, CodesRanked
      <4>2. CASE i = 5
        BY <1>2, <1>3, <1>4, <1>8, <2>1, <3>2, <4>2, ChecksAre, CodesRanked
      <4>3. CASE i \in {6, 7, 8}
        BY <1>2, <1>8, <2>1, <2>2, <3>2, <4>3, ChecksAre, CodesRanked
      <4>4. CASE i \in {9, 11}
        BY <1>2, <1>8, <2>1, <2>2, <3>2, <4>4, ChecksAre, CodesRanked
      <4>5. i \in {1, 2, 3, 4} \/ i = 5 \/ i \in {6, 7, 8} \/ i \in {9, 11}
        BY <2>4
      <4>6. QED
        BY <4>1, <4>2, <4>3, <4>4, <4>5
    <3>3. QED
      BY <1>7, <3>1, <3>2, CodeDecides, Zenon
  <2>5. QED
    BY <2>3, <2>4
<1>9. ASSUME format' = Accepted, \A j \in 1..11 : ~ Checks[j][2]
      PROVE  Decides(format', V)
  <2>1. /\ ~ Checks[1][2] /\ ~ Checks[2][2] /\ ~ Checks[3][2] /\ ~ Checks[4][2] /\ ~ Checks[5][2]
        /\ ~ Checks[6][2] /\ ~ Checks[7][2] /\ ~ Checks[8][2] /\ ~ Checks[9][2] /\ ~ Checks[11][2]
    BY <1>9
  <2>2. /\ "MISSING_FINAL_LF" \notin V /\ "TRAILING_DATA" \notin V
        /\ "NON_CANONICAL_WHITESPACE" \notin V /\ "DUPLICATE_KEY" \notin V
        /\ first_whitespace = 0 /\ first_duplicate = 0 /\ top.kind = "object"
    BY <1>3, <2>1, ChecksAre, Zenon
  <2>3. /\ "INVARIANT_REMOVED" \notin V /\ "MISSING_REQUIRED_FIELD" \notin V
        /\ "UNEXPECTED_FIELD" \notin V /\ "FIELD_ORDER_VIOLATION" \notin V
        /\ "TYPE_MISMATCH" \notin V
    BY <1>5, <1>6, <2>1, <2>2, ChecksAre, Zenon
  <2>4. V = {}
    BY <1>2, <2>2, <2>3, CodesRanked
  <2>5. Accepted # Uncaught
    BY DEF Accepted, Uncaught
  <2>6. QED
    BY <1>9, <2>4, <2>5, Zenon DEF Decides
<1>10. QED
  BY <1>8, <1>9, FirstToFail, Zenon DEF V

\* A text that begins with a byte order mark begins with no value.
LEMMA NoValueAtMark ==
  ASSUME text \in Seq(Lexemes), text[1] = "?"
  PROVE  ValueEnds(text) = {}
<1> SUFFICES ASSUME NEW n \in 1..Len(text), NEW a \in First(text, 1, n), IsValue(text, a, n)
             PROVE  FALSE
  BY DEF ValueEnds
<1>1. n \in Nat /\ 1 <= n
  BY LenProperties
<1>2. "?" \notin WHITESPACE /\ "?" \notin ValueStart
  BY LexemeAssumption DEF WHITESPACE, ValueStart
<1>3. First(text, 1, n) = {1}
  BY <1>1, <1>2, FirstIsHere
<1>4. text[1] \in ValueStart
  BY <1>3, ValueStarts
<1>5. QED
  BY <1>2, <1>4

\* How far the format stage is, and what it has answered.
Answering ==
  /\ bom => text # <<>> /\ text[1] = "?"
  /\ stage = "scan" => utf8 /\ ~ bom
  /\ ReportsPrimary

LEMMA NextAnswer ==
  ASSUME ReadInv, Answering, [FormatNext]_formatVars
  PROVE  Answering'
<1> DEFINE Answers == Decides(format', ApplicableCodes)
<1>1. ASSUME UNCHANGED <<text, utf8, bom>>, stage' = "finished", Answers
      PROVE  Answering'
  <2>1. ApplicableCodes' = ApplicableCodes
    BY <1>1, Zenon DEF ApplicableCodes
  <2>2. Decides(format, ApplicableCodes)'
    BY <1>1, <2>1, Zenon DEF Decides
  <2>3. ReportsPrimary'
    BY <2>2, Zenon DEF ReportsPrimary, Decides
  <2>4. stage' # "scan"
    BY <1>1
  <2>5. QED
    BY <1>1, <2>3, <2>4, Zenon DEF Answering
<1>2. ASSUME NEW code \in FormatCodes, format' = code, ApplicableCodes = {code}
      PROVE  Answers
  <2>1. \A c \in ApplicableCodes : ~ (PRECEDENCE[c] < PRECEDENCE[code])
    BY <1>2, CodesRanked
  <2>2. QED
    BY <1>2, <2>1, CodeDecides, Zenon
<1>3. CASE Decode
  <2>1. UNCHANGED <<text, utf8, bom>>
    BY <1>3 DEF Decode, scanVars
  <2>2. CASE ~ utf8
    <3>1. stage' = "finished" /\ format' = "INVALID_UTF8"
      BY <1>3, <2>2, Zenon DEF Decode
    <3>2. ApplicableCodes = {"INVALID_UTF8"} /\ "INVALID_UTF8" \in FormatCodes
      BY <2>2, CodesRanked DEF ApplicableCodes
    <3>3. QED
      BY <1>1, <1>2, <2>1, <3>1, <3>2, Zenon
  <2>3. CASE utf8 /\ bom
    <3>1. stage' = "finished" /\ format' = "BOM_PRESENT"
      BY <1>3, <2>3, Zenon DEF Decode
    <3>2. ValueEnds(text) = {}
      BY <2>3, NoValueAtMark DEF Answering, ReadInv, ReadingInv, GrammarInv, ScanInv, Position
    <3>3. ApplicableCodes = {"BOM_PRESENT"} \cup {"INVALID_JSON"}
      BY <2>3, <3>2, Zenon DEF ApplicableCodes
    <3>4. /\ ApplicableCodes \subseteq FormatCodes /\ "BOM_PRESENT" \in ApplicableCodes
          /\ \A c \in FormatCodes :
               PRECEDENCE[c] < PRECEDENCE["BOM_PRESENT"] => c \notin ApplicableCodes
      BY <3>3, CodesRanked
    <3>5. Answers
      BY <3>1, <3>4, CodeDecides, Zenon
    <3>6. QED
      BY <1>1, <2>1, <3>1, <3>5, Zenon
  <2>4. CASE utf8 /\ ~ bom
    <3>1. stage' = "scan"
      BY <1>3, <2>4, Zenon DEF Decode
    <3>2. stage' # "finished"
      BY <3>1
    <3>3. QED
      BY <2>1, <2>4, <3>2, Zenon DEF Answering, ReportsPrimary
  <2>5. QED
    BY <2>2, <2>3, <2>4
<1>4. CASE Scan
  <2>1. stage = "scan" /\ UNCHANGED <<stage, utf8, bom>> /\ ScanStep
    BY <1>4 DEF Scan, stageVars
  <2>2. text' = text
    BY <2>1, StepReadsOne DEF ReadInv, ReadingInv, GrammarInv, ScanInv
  <2>3. stage' # "finished"
    BY <2>1
  <2>4. QED
    BY <2>1, <2>2, <2>3, Zenon DEF Answering, ReportsPrimary
<1>5. ASSUME ScanFailed \/ CheckNode
      PROVE  /\ UNCHANGED <<text, utf8, bom>> /\ stage' = "finished" /\ utf8 /\ ~ bom
             /\ ApplicableCodes = IF ValueEnds(text) = {} THEN {"INVALID_JSON"}
                                  ELSE ValueCodes(text, CHOOSE n \in ValueEnds(text) : TRUE)
  <2>1. UNCHANGED <<text, utf8, bom>> /\ stage' = "finished" /\ stage = "scan"
    BY <1>5 DEF ScanFailed, CheckNode, scanVars
  <2>2. utf8 /\ ~ bom
    BY <2>1, Zenon DEF Answering
  <2>3. QED
    BY <2>1, <2>2 DEF ApplicableCodes
<1>6. CASE ScanFailed
  <2>1. CASE ctl = "parse_error" /\ format' = "INVALID_JSON"
    <3>1. ValueEnds(text) = {}
      BY <2>1, Zenon DEF ReadInv, ReadingInv, GrammarInv, Foretold
    <3>2. ApplicableCodes = {"INVALID_JSON"} /\ "INVALID_JSON" \in FormatCodes
      BY <1>5, <1>6, <3>1, CodesRanked
    <3>3. QED
      BY <1>1, <1>2, <1>5, <1>6, <2>1, <3>2, Zenon
  <2>2. CASE ctl = "recursion_error" /\ format' = Uncaught
    <3>1. \E i \in 1..Len(text) : Depth(text, i) > RecursionLimit
      BY <2>2, Zenon DEF ReadInv, ReadingInv, GrammarInv, Levels
    <3>2. Answers
      BY <2>2, <3>1, Zenon DEF Decides
    <3>3. QED
      BY <1>1, <1>5, <1>6, <3>2, Zenon
  <2>3. QED
    BY <1>6, <2>1, <2>2, Zenon DEF ScanFailed
<1>7. CASE CheckNode
  <2>1. ValueEnds(text) = {pos - 1}
    BY <1>7, ValueRead DEF CheckNode
  <2>2. ApplicableCodes = ValueCodes(text, pos - 1)
    <3>1. (CHOOSE n \in {pos - 1} : TRUE) = pos - 1
      OBVIOUS
    <3>2. {pos - 1} # {}
      OBVIOUS
    <3>3. QED
      BY <1>5, <1>7, <2>1, <3>1, <3>2, Zenon
  <2>3. Answers
    BY <1>7, <2>2, CheckDecides, Zenon
  <2>4. QED
    BY <1>1, <1>5, <1>7, <2>3, Zenon
<1>8. CASE UNCHANGED formatVars
  <2>1. UNCHANGED <<text, utf8, bom, stage, format>>
    BY <1>8 DEF formatVars, scanVars, stageVars
  <2>2. ApplicableCodes' = ApplicableCodes
    BY <2>1, Zenon DEF ApplicableCodes
  <2>3. QED
    BY <2>1, <2>2, Zenon DEF Answering, ReportsPrimary
<1>9. QED
  BY <1>3, <1>4, <1>6, <1>7, <1>8, Zenon DEF FormatNext

LEMMA NextRead ==
  ASSUME ReadInv, [FormatNext]_formatVars
  PROVE  ReadInv'
<1>1. ReadingInv' /\ WhitespaceIsExact' /\ Dense'
  <2>1. ScanInv /\ Position
    BY DEF ReadInv, ReadingInv, GrammarInv, ScanInv
  <2>2. QED
    BY <2>1, NextReading, NextWhitespace, NextDense, Zenon DEF ReadInv
<1>2. Sections'
  <2>1. CASE ScanStep
    BY <1>1, <2>1, StepSections DEF ReadInv, ReadingInv, GrammarInv, ScanInv
  <2>2. CASE UNCHANGED scanVars
    <3>1. UNCHANGED <<text, pos, ctl, stack, top, first_whitespace>>
      BY <2>2 DEF scanVars
    <3>2. QED
      BY <3>1, Zenon DEF ReadInv, Sections
  <2>3. CASE FormatNext
    BY <2>1, <2>2, <2>3, Zenon DEF FormatNext, Scan, Decode, ScanFailed, CheckNode
  <2>4. CASE UNCHANGED formatVars
    BY <2>2, <2>4 DEF formatVars
  <2>5. QED
    BY <2>3, <2>4
<1>3. QED
  BY <1>1, <1>2 DEF ReadInv

LEMMA InitAnswer == FormatInit => ReadInv /\ Answering
<1>1. FormatInit => ReadInv
  BY InitReading, InitWhitespace, InitDense, InitSections DEF ReadInv
<1>2. FormatInit => Answering
  BY DEF FormatInit, Answering, ReportsPrimary
<1>3. QED
  BY <1>1, <1>2

\* Of a file of any content the format stage reports the code with the lowest
\* precedence number among all those that apply to it, as they are defined of
\* the whole text and without the scanner; it accepts exactly the files to which
\* none applies, and fails to answer only on those that exhaust the interpreter.
THEOREM PrimaryReported == FormatSpec => []ReportsPrimary
<1>1. ReadInv /\ Answering /\ [FormatNext]_formatVars => (ReadInv /\ Answering)'
  BY NextRead, NextAnswer
<1>2. Answering => ReportsPrimary
  BY DEF Answering
<1>3. QED
  BY <1>1, <1>2, InitAnswer, PTL DEF FormatSpec
=============================================================================
