---------------------------- MODULE Derivation -----------------------------
(***************************************************************************)
(* How the generators derive texts: a success fixture from an example, the *)
(* negative cases from the baseline by one edit each, and the test         *)
(* vectors.  Texts are sequences of lexemes, as in module Scanner; the     *)
(* edits search their bytes, of which Pieces keeps what anchors tell       *)
(* apart.  Left out of the records are members that no edit names.         *)
(***************************************************************************)
EXTENDS FormatRules, SequencesExt

CONSTANTS
  Baselines,   \* canonical records: the cases and the vectors are derived from one
  Examples,    \* example files, each with the path to a record in it
  Pieces(_)    \* the bytes of a lexeme, cut where an anchor can begin or end within
               \*   it: the number 30 is 3 and 0; a piece is its own only piece

\* A KeyError, or an anchor that does not occur exactly once.
Refused == <<>>

\* The raw text of the value that starts at or after position i.
raw_at(t, i) ==
  LET start == CHOOSE s \in i..Len(t) :
                 t[s] \notin WHITESPACE /\ \A k \in i..(s - 1) : t[k] \in WHITESPACE
      outside == Depth(t, start) - (IF t[start] \in {"{", "["} THEN 1 ELSE 0)
      end == CHOOSE e \in start..Len(t) :
               Depth(t, e) = outside /\ \A k \in start..(e - 1) : Depth(t, k) > outside
  IN  SubSeq(t, start, end)

\* dict(node.members)[name]: the last member of that decoded name.
member(t, name) ==
  LET named == {i \in 1..Len(t) : IsName(t, i) /\ Depth(t, i) = 1 /\ Decoded(t[i]) = name}
      colon == CHOOSE j \in Max(named)..Len(t) :
                 t[j] = ":" /\ \A k \in Max(named)..(j - 1) : t[k] # ":"
  IN  raw_at(t, colon + 1)

(***************************************************************************)
(* generate_success_fixtures                                               *)
(***************************************************************************)

\* The n-th element of an array, counted from 0.
element(t, n) ==
  LET starts == {j \in 1..Len(t) : Depth(t, j) = 1 /\ (j = 1 \/ t[j] = ",")}
      start  == CHOOSE j \in starts : Cardinality({k \in starts : k < j}) = n
  IN  raw_at(t, start + 1)

locate(t, path) ==
  FoldLeft(LAMBDA v, step : IF step[1] = "member" THEN member(v, step[2]) ELSE element(v, step[2]),
           t, path)

\* Whitespace between lexemes goes; inside strings it belongs to the lexeme.
minify(t) == SelectSeq(t, LAMBDA x : x \notin WHITESPACE)

\* Mutant: the record keeps the layout of its example.
SuccessRecordAsWritten(example, path) == Append(locate(example, path), "LF")

SuccessRecord(example, path) == Append(minify(locate(example, path)), "LF")

(***************************************************************************)
(* generate_negative_cases                                                 *)
(***************************************************************************)

Bytes(t) == FlattenSeq([i \in 1..Len(t) |-> Pieces(t[i])])

Spelled == {Pieces(x) : x \in Lexemes}

ASSUME PiecesAssumption ==
  /\ Cardinality(Spelled) = Cardinality(Lexemes)
  /\ \A p \in Spelled : Bytes(p) = p

\* What the scanner makes of bytes: at each point the longest lexeme, or none.
Lexed(bytes) ==
  LET spelled == Spelled
      lengths == {Len(p) : p \in spelled}
      Fit(i)  == {n \in lengths : /\ i + n - 1 <= Len(bytes)
                                 /\ SubSeq(bytes, i, i + n - 1) \in spelled}
      from[i \in 1..(Len(bytes) + 1)] ==
        IF i > Len(bytes) THEN <<>>
        ELSE IF Fit(i) = {} THEN <<"?">> \o from[i + 1]
        ELSE LET n == Max(Fit(i))
             IN  <<CHOOSE x \in Lexemes : Pieces(x) = SubSeq(bytes, i, i + n - 1)>> \o from[i + n]
  IN  from[1]

Occurrences(bytes, old) ==
  {i \in 1..(Len(bytes) - Len(old) + 1) : SubSeq(bytes, i, i + Len(old) - 1) = old}

\* What an edit gives, and the anchor it has searched for, if any.
Edit(anchor, result) == [anchor |-> anchor, text |-> result]

\* Mutant: one occurrence of several is edited.
replaceFirst(t, old, new) ==
  LET found == Occurrences(Bytes(t), Bytes(old))
  IN  Edit(old, IF found = {} THEN Refused
                ELSE Lexed(ReplaceSubSeqAt(Min(found), Bytes(new), Bytes(old), Bytes(t))))

\* once raises unless there is one occurrence; and what is done at the place it finds.
replace(t, old, new) ==
  LET found == Occurrences(Bytes(t), Bytes(old))
  IN  Edit(old, IF Cardinality(found) # 1 THEN Refused
                ELSE Lexed(ReplaceSubSeqAt(Min(found), Bytes(new), Bytes(old), Bytes(t))))

insert_after(t, anchor, new) == replace(t, anchor, anchor \o new)

\* The name as the code spells it, whatever its spelling in t.
section_bytes(t, name) == <<name, ":">> \o member(t, name)

delete_section(t, name) == replace(t, <<",">> \o section_bytes(t, name), <<>>)

swap_sections(t, a, b) ==
  replace(t, section_bytes(t, a) \o <<",">> \o section_bytes(t, b),
             section_bytes(t, b) \o <<",">> \o section_bytes(t, a))

BeforeEnd(t, n, new) == SubSeq(t, 1, Len(t) - n) \o new \o SubSeq(t, Len(t) - n + 1, Len(t))

\* A case: the expected reason, the section it is meant for, if there is one, and
\* the edit.  Here are the cases whose target is the record; the byte 0xFF and the
\* byte order mark are no lexemes: utf8 and bom stand for them.
Case(reason, section, edit) ==
  [reason |-> reason, section |-> section, anchor |-> edit.anchor, text |-> edit.text]
Unanchored(reason, result) == Case(reason, "", Edit(<<>>, result))

record_cases(t) ==
  << Case("INVALID_UTF8", "invariant", insert_after(t, <<"illustrative..">>, <<>>)),
     Unanchored("BOM_PRESENT", <<"?">> \o t),
     Unanchored("INVALID_JSON", SubSeq(t, 1, Len(t) - 2) \o <<Last(t)>>),
     Unanchored("MISSING_FINAL_LF", Front(t)),
     Unanchored("TRAILING_DATA", Append(t, "LF")),
     Unanchored("TRAILING_DATA", BeforeEnd(t, 1, <<"space">>)),   \* a CR
     Case("NON_CANONICAL_WHITESPACE", "",
          insert_after(t, <<"{", "intent", ":">>, <<"space">>)),
     Case("DUPLICATE_KEY", "intent",
          insert_after(t, <<"target", ":", "v1.4", ",">>, <<"target", ":", "v1.4", ",">>)),
     Case("INVARIANT_REMOVED", "", delete_section(t, "invariant")),
     Case("MISSING_REQUIRED_FIELD", "", delete_section(t, "meta")),
     Unanchored("UNEXPECTED_FIELD", BeforeEnd(t, 2, <<",", "record_hash", ":", "sha256">>)),
     Case("FIELD_ORDER_VIOLATION", "", swap_sections(t, "intent", "event")),
     Case("TYPE_MISMATCH", "event", replace(t, <<"sequence", ":", "3">>,
                                               <<"sequence", ":", "string 3">>)),
     Case("INTENT_MODIFIED", "intent", replace(t, <<"target", ":", "v1.4">>,
                                                  <<"target", ":", "v1.3">>)),
     Case("INTENT_MODIFIED", "intent",
          replace(t, <<"id", ":", "intent-0003", ",", "action", ":", "verify">>,
                     <<"action", ":", "verify", ",", "id", ":", "intent-0003">>)),
     Case("EVENT_MODIFIED", "event", replace(t, <<"sequence", ":", "3">>,
                                                <<"sequence", ":", "4">>)),
     Case("OBSERVE_MODIFIED", "observe", replace(t, <<"result", ":", "Verified OK">>,
                                                    <<"result", ":", "rejected">>)),
     Case("META_MODIFIED", "meta", replace(t, <<"runtime_version", ":", "0.0.0">>,
                                              <<"runtime_version", ":", "0.0.1">>)),
     Case("INVARIANT_TYPE_CHANGED", "invariant",
          replace(t, <<"invariant", ":", "{", "opaque", ":", "[", "illustrative", ",", "1", ",",
                       "null", "]", "}">>, <<"invariant", ":", "null">>)),
     Case("INVARIANT_VALUE_CHANGED", "invariant",
          replace(t, <<"illustrative", ",", "1", ",", "null">>, <<"illustrative", ",", "2", ",", "null">>)),
     Case("NUMERIC_REPRESENTATION_CHANGE", "invariant",
          replace(t, <<"illustrative", ",", "1", ",", "null">>, <<"illustrative", ",", "1.0", ",", "null">>)),
     Case("NUMERIC_REPRESENTATION_CHANGE", "invariant",
          replace(t, <<"illustrative", ",", "1", ",", "null">>, <<"illustrative", ",", "1e0", ",", "null">>)),
     Case("NUMERIC_REPRESENTATION_CHANGE", "observe",
          replace(t, <<"exit_code", ":", "0">>, <<"exit_code", ":", "0.0">>)) >>

(***************************************************************************)
(* generate_test_vectors                                                   *)
(***************************************************************************)

\* Mutant: the lexemes are put before the value, which stays.
splice_invariantBefore(t, lexemes) ==
  LET start == Len(t) - 2 - Len(member(t, "invariant"))
  IN  SubSeq(t, 1, start) \o lexemes \o SubSeq(t, start + 1, Len(t))

splice_invariant(t, lexemes) ==
  LET value == member(t, "invariant")
      start == Len(t) - 2 - Len(value)    \* of the value, which is the last
  IN  SubSeq(t, 1, start) \o lexemes \o SubSeq(t, start + Len(value) + 1, Len(t))

\* bytes.replace takes all occurrences, and none is no error.
RECURSIVE replaced(_, _, _)
replaced(bytes, old, new) ==
  IF Occurrences(bytes, old) = {} THEN bytes
  ELSE LET i == Min(Occurrences(bytes, old))
       IN  SubSeq(bytes, 1, i - 1) \o new
             \o replaced(SubSeq(bytes, i + Len(old), Len(bytes)), old, new)

replace_all(t, old, new) == Lexed(replaced(Bytes(t), Bytes(old), Bytes(new)))

swap_intent_event(t) ==
  LET a == section_bytes(t, "intent")
      b == section_bytes(t, "event")
  IN  replace_all(t, a \o <<",">> \o b, b \o <<",">> \o a)

Spliced == {<<"1">>, <<"1.0">>, <<"1e0">>, <<"text">>, <<"text escaped">>, <<"null">>,
            <<"{", "}">>, <<"[", "]">>, <<"empty">>}

\* bytes.index takes the first occurrence, and raises when there is none.
space_after_first(t, anchor) ==
  LET found == Occurrences(Bytes(t), Bytes(anchor))
  IN  IF found = {} THEN Refused
      ELSE Lexed(ReplaceSubSeqAt(Min(found), Bytes(anchor) \o <<"space">>, Bytes(anchor), Bytes(t)))

canonical_vectors(t) == {t} \cup {splice_invariant(t, v) : v \in Spliced}

non_canonical_vectors(t) ==
  { <<"?">> \o t,
    Front(t),
    BeforeEnd(t, 1, <<"space">>),
    space_after_first(t, <<"{", "intent", ":">>),
    replace_all(t, <<"sequence", ":", "3">>, <<"sequence", ":", "3", ",", "sequence", ":", "3">>),
    swap_intent_event(t) }
---------------------------------------------------------------------------

successes == {SuccessRecord(x.text, x.path) : x \in Examples}

\* Each case with the baseline it is derived from; one whose edit is refused ends
\* the generator.
cases ==
  UNION {{[case |-> c, of |-> b] :
            c \in {d \in ToSet(record_cases(b)) : d.text # Refused}} : b \in Baselines}

canonical     == UNION {canonical_vectors(b) : b \in Baselines}
non_canonical == UNION {non_canonical_vectors(b) \ {b, Refused} : b \in Baselines}

DerivedTexts == successes \cup {x.case.text : x \in cases} \cup canonical \cup non_canonical

\* The bytes are those of the text, but for the byte of the one or the mark of
\* the other case.
Plain == stage = "finished" /\ utf8 /\ ~ bom

\* A record is located in its example and taken over without its layout; the
\* bytes are canonical whatever whitespace the example has.
DerivedIsCanonical == Plain /\ text \in successes => format = Accepted

\* The edit lies in the section it is meant for.
InItsSection(x) ==
  x.case.section \in Required => member(text, x.case.section) # member(x.of, x.case.section)

\* Where a lexeme of t begins or ends.
Boundaries(t) ==
  LET before[n \in 0..Len(t)] == IF n = 0 THEN 1 ELSE before[n - 1] + Len(Pieces(t[n]))
  IN  {before[n] : n \in 0..Len(t)}

\* The only place of the anchor begins, or ends, at such a point.
Found(x)     == Min(Occurrences(Bytes(x.of), Bytes(x.case.anchor)))
Begins(x)    == x.case.anchor = <<>> \/ Found(x) \in Boundaries(x.of)
EndsWhole(x) == x.case.anchor = <<>> \/ Found(x) + Len(Bytes(x.case.anchor)) \in Boundaries(x.of)

FailsAsExpected(x) ==
  IF x.case.reason \in FormatCodes THEN format = x.case.reason
  ELSE /\ format = Accepted
       /\ \A name \in Required :
            member(text, name) # member(x.of, name) <=> name = x.case.section

\* "Only the intended stage fails": an edit that is applied, and that lies where
\* it is meant to, makes the format stage give the expected code if that is one
\* of its own, and accept the record otherwise, with one changed section for
\* the baseline stage to find.  Anchors are searched as bytes: one that ends
\* within a longer number gives this or a text that is no JSON, never another
\* code.  Left aside is one that begins within a string, at an escaped quote.
CasesAsExpected ==
  stage = "finished" =>
    \A x \in {y \in cases : y.case.text = text} :
      /\ utf8 <=> x.case.reason # "INVALID_UTF8"
      /\ utf8 => (bom <=> x.case.reason = "BOM_PRESENT")
      /\ utf8 => InItsSection(x)
      /\ Begins(x)
      => FailsAsExpected(x) \/ (~ EndsWhole(x) /\ format = "INVALID_JSON")

\* Vectors have the kind they are listed with, unless an edit by bytes.replace
\* found nothing to change: the run ends with an error then.
VectorsHaveTheirKind ==
  /\ Plain /\ text \in canonical => format = Accepted
  /\ stage = "finished" /\ text \in non_canonical \ canonical => format \in FormatCodes
===========================================================================
