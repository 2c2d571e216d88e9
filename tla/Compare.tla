------------------------------ MODULE Compare ------------------------------
(***************************************************************************)
(* verify.compare_to_baseline: what kind of difference there is between a  *)
(* candidate and a reference.  A canonical text has no whitespace, so it   *)
(* and the tree of its lexemes determine each other: "the raw texts are    *)
(* equal" is equality of the trees, spellings included.                    *)
(***************************************************************************)
EXTENDS RejectionReasons, Sequences

CONSTANTS
  Files,             \* the files that are compared
  Nodes,             \* the nodes of their texts
  Nesting(_),        \* how deep a node nests
  Decoded(_),        \* a member name's value, its escapes resolved
  NumericValue(_),   \* the exact decimal value of a number lexeme
  InRange(_)         \* its exponent is one that Decimal takes

\* A scalar has a lexeme; objects and arrays have members, each with the
\* spelling of its name (arrays: no name).
Scalar(kind, raw)     == [kind |-> kind, raw |-> raw, members |-> <<>>]
Tree(kind, members)   == [kind |-> kind, raw |-> "", members |-> members]
Member(name, node)    == [name |-> name, node |-> node]

Containers == {"object", "array"}

\* A member nests less deep than what it is a member of: a text is finite.
ASSUME NodesAssumption ==
  \A x \in Nodes :
    /\ Nesting(x) \in Nat
    /\ \/ x = Scalar(x.kind, x.raw) /\ x.kind \in {"string", "number", "true", "false", "null"}
       \/ /\ x = Tree(x.kind, x.members) /\ x.kind \in Containers
          /\ x.members \in Seq([name : STRING, node : Nodes])
          /\ \A i \in 1..Len(x.members) :
               /\ Nesting(x.members[i].node) < Nesting(x)
               /\ x.kind = "array" => x.members[i].name = ""

TOP_LEVEL_ORDER == <<"intent", "event", "observe", "meta", "invariant">>
MODIFIED == [ intent  |-> "INTENT_MODIFIED",  event |-> "EVENT_MODIFIED",
              observe |-> "OBSERVE_MODIFIED", meta  |-> "META_MODIFIED" ]

\* A file: what the format stage says of it, and its top-level members, which
\* are TOP_LEVEL_ORDER once decoded if it is canonical.
ASSUME FilesAssumption ==
  \A f \in Files :
    /\ f = [format |-> f.format, members |-> f.members]
    /\ f.format \in FormatCodes \cup {Accepted}
    /\ f.members \in Seq([name : STRING, node : Nodes])
    /\ f.format = Accepted =>
         [i \in 1..Len(f.members) |-> Decoded(f.members[i].name)] = TOP_LEVEL_ORDER

VARIABLES
  candidate,
  reference,
  section,     \* index of the next section to compare
  answer       \* "" while comparing; then None (Accepted), a code, or an exception

compareVars == <<candidate, reference, section, answer>>

BaselineError == "BASELINE_ERROR"

\* The exceptions that no caller catches.
InvalidOperation == "InvalidOperation"
AssertionError   == "AssertionError"

CompareInit ==
  /\ candidate \in Files
  /\ reference \in Files
  /\ section = 0
  /\ answer = ""

Answer(a) == answer' = a /\ UNCHANGED <<candidate, reference, section>>

---------------------------------------------------------------------------

json_type(node) == IF node.kind \in {"true", "false"} THEN "boolean" ELSE node.kind

\* Mutant: all the results are there before all() sees the first.
allOfList(results) ==
  IF \E i \in DOMAIN results : results[i] = InvalidOperation THEN InvalidOperation
  ELSE IF \A i \in DOMAIN results : results[i] = "yes" THEN "yes" ELSE "no"

\* all() takes one result after the other and stops at the first that is not
\* TRUE: a difference, or the exception of a number.
all(results) ==
  IF \A i \in DOMAIN results : results[i] = "yes" THEN "yes"
  ELSE results[CHOOSE i \in DOMAIN results :
                 results[i] # "yes" /\ \A j \in 1..(i - 1) : results[j] = "yes"]

\* The results for the members of two objects or arrays, names compared decoded;
\* difference is what the values are compared by.
MemberResults(difference, a, b) ==
  [i \in 1..Len(a.members) |->
     IF a.kind = "object" /\ Decoded(a.members[i].name) # Decoded(b.members[i].name)
     THEN "no" ELSE difference[<<a.members[i].node, b.members[i].node>>]]

\* Numbers are compared by value, everything else as spelled.
Difference(difference, a, b) ==
  LET yes(same) == IF same THEN "yes" ELSE "no"
  IN  CASE a.kind # b.kind -> "no"
        [] a.kind = b.kind /\ a.kind = "number" ->
             IF InRange(a.raw) /\ InRange(b.raw)
             THEN yes(NumericValue(a.raw) = NumericValue(b.raw)) ELSE InvalidOperation
        [] a.kind = b.kind /\ a.kind \in Containers ->
             IF Len(a.members) = Len(b.members) THEN all(MemberResults(difference, a, b)) ELSE "no"
        [] OTHER -> yes(a.raw = b.raw)

\* "yes", "no" or the exception.
numeric_only_difference[p \in Nodes \X Nodes] ==
  Difference(numeric_only_difference, p[1], p[2])

SameBytes ==
  /\ answer = "" /\ section = 0
  /\ candidate = reference
  /\ Answer(Accepted)

\* The reference is checked first, then the candidate.
InvalidInput ==
  /\ answer = "" /\ section = 0
  /\ candidate # reference
  /\ \/ reference.format # Accepted /\ Answer(BaselineError)
     \/ reference.format = Accepted /\ candidate.format # Accepted /\ Answer(candidate.format)

Begin ==
  /\ answer = "" /\ section = 0
  /\ candidate # reference
  /\ reference.format = Accepted /\ candidate.format = Accepted
  /\ section' = 1
  /\ UNCHANGED <<candidate, reference, answer>>

\* The sections are looked up by their decoded names.
sections(file) ==
  [name \in {TOP_LEVEL_ORDER[i] : i \in 1..5} |->
     file.members[CHOOSE i \in 1..Len(file.members) :
                    Decoded(file.members[i].name) = name].node]

name == TOP_LEVEL_ORDER[section]
c == sections(candidate)[name]
r == sections(reference)[name]
Comparing == answer = "" /\ section \in 1..5

SameSection ==
  /\ Comparing
  /\ c = r
  /\ section' = section + 1
  /\ UNCHANGED <<candidate, reference, answer>>

\* What differs in the section: only the form of numbers, or more (code).
Differs(code) ==
  \/ numeric_only_difference[<<c, r>>] = "yes" /\ Answer("NUMERIC_REPRESENTATION_CHANGE")
  \/ numeric_only_difference[<<c, r>>] = "no" /\ Answer(code)
  \/ numeric_only_difference[<<c, r>>] = InvalidOperation /\ Answer(InvalidOperation)

\* Mutant: the types are not looked at.
InvariantDiffersAnyType ==
  /\ Comparing
  /\ name = "invariant"
  /\ c # r
  /\ Differs("INVARIANT_VALUE_CHANGED")

InvariantDiffers ==
  /\ Comparing
  /\ name = "invariant"
  /\ c # r
  /\ \/ json_type(c) # json_type(r) /\ Answer("INVARIANT_TYPE_CHANGED")
     \/ json_type(c) = json_type(r) /\ Differs("INVARIANT_VALUE_CHANGED")

SectionDiffers ==
  /\ Comparing
  /\ name # "invariant"
  /\ c # r
  /\ Differs(MODIFIED[name])

\* Mutant: files in which no section differs are taken for identical.
NoSectionDiffersAccepted ==
  /\ answer = "" /\ section = 6
  /\ Answer(Accepted)

\* The AssertionError after the loop.
NoSectionDiffers ==
  /\ answer = "" /\ section = 6
  /\ Answer(AssertionError)

CompareNext ==
  \/ SameBytes
  \/ InvalidInput
  \/ Begin
  \/ SameSection
  \/ InvariantDiffers
  \/ SectionDiffers
  \/ NoSectionDiffers

CompareSpec == CompareInit /\ [][CompareNext]_compareVars /\ WF_compareVars(CompareNext)

---------------------------------------------------------------------------
(* Properties, over the lexemes of a node and their places in it.          *)

\* The place of a lexeme says which member it is in, which member of that, ...
InMember(i, member, l) ==
  [ at |-> <<i>> \o l.at, name |-> IF l.at = <<>> THEN member.name ELSE l.name,
    kind |-> l.kind, raw |-> l.raw ]

Root(x) == [at |-> <<>>, name |-> "", kind |-> x.kind, raw |-> x.raw]

Within(parts, x, i) == {InMember(i, x.members[i], l) : l \in parts[x.members[i].node]}
PartsOf(parts, x)   == {Root(x)} \cup UNION {Within(parts, x, i) : i \in 1..Len(x.members)}

Parts[x \in Nodes] == PartsOf(Parts, x)

BothNumbers(l, m) == l.kind = "number" /\ m.kind = "number"

\* At one place, with one name: the same, or equal numbers.
Alike(l, m) ==
  /\ l.at = m.at /\ l.name = m.name
  /\ \/ l.kind = m.kind /\ l.raw = m.raw
     \/ BothNumbers(l, m) /\ NumericValue(l.raw) = NumericValue(m.raw)

AllAlike(S, T) == \A l \in S : \E m \in T : Alike(l, m)

\* Two texts differ only in the form of equal numbers: lexeme by lexeme they
\* are the same, but where both have a number.
OnlyNumbersDiffer(x, y) == AllAlike(Parts[x], Parts[y]) /\ AllAlike(Parts[y], Parts[x])

\* Place p comes before q in the text.
Precedes(p, q) ==
  \E n \in 0..Len(p) :
    /\ n < Len(q)
    /\ \A j \in 1..n : p[j] = q[j]
    /\ n < Len(p) => p[n + 1] < q[n + 1]

\* What comes before place p in x has its like in y.
AlikeBefore(x, y, p) == AllAlike({l \in Parts[x] : Precedes(l.at, p)}, Parts[y])

\* x and y hold a number beyond the range at one place, and what comes before
\* it in the one has its like in the other.
RaisedBy(x, y) ==
  \E l \in Parts[x] : \E m \in Parts[y] :
    /\ l.at = m.at /\ BothNumbers(l, m)
    /\ ~ (InRange(l.raw) /\ InRange(m.raw))
    /\ AlikeBefore(x, y, l.at) /\ AlikeBefore(y, x, l.at)

\* The sections of two canonical files, by position.
FirstDifference ==
  CHOOSE i \in 1..5 :
    /\ candidate.members[i].node # reference.members[i].node
    /\ \A j \in 1..(i - 1) : candidate.members[j].node = reference.members[j].node

\* The code that rejection-reasons.md gives to the first differing section.
DocumentedCode ==
  LET i == FirstDifference
      x == candidate.members[i].node
      y == reference.members[i].node
  IN  IF i = 5 /\ json_type(x) # json_type(y) THEN "INVARIANT_TYPE_CHANGED"
      ELSE IF OnlyNumbersDiffer(x, y) THEN "NUMERIC_REPRESENTATION_CHANGE"
      ELSE IF i = 5 THEN "INVARIANT_VALUE_CHANGED"
      ELSE MODIFIED[TOP_LEVEL_ORDER[i]]

\* Two different canonical files get the documented code of their first
\* difference; the escapes of a member name are part of that difference.
ClassifiesAsDocumented ==
  /\ answer \in BaselineCodes
  => answer = DocumentedCode

\* Only identical bytes pass, and identical bytes always do.
AcceptsIdentityOnly ==
  answer # "" => (answer = Accepted <=> candidate = reference)

\* The exception of a number beyond Decimal's range comes only from the first
\* section that differs, and there only from a number with nothing but equal
\* lexemes before it: a difference that is met first is reported, and such a
\* number in a section that did not change, or behind the difference, never
\* keeps a record from its code.
RaisesOnlyBeforeDifference ==
  answer = InvalidOperation =>
    RaisedBy(candidate.members[FirstDifference].node, reference.members[FirstDifference].node)

\* The end of the loop is "unreachable for canonical input".
EndIsUnreachable == answer # AssertionError
===========================================================================
