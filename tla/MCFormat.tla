----------------------------- MODULE MCFormat ------------------------------
(* Instance of FormatStage for TLC: every text of at most MaxLength        *)
(* lexemes, every text one edit away from a longer well-formed one,        *)
(* records that lack, repeat, rename or misplace members, with an edit of  *)
(* a few lexemes on top, and what the generators derive from records.      *)
EXTENDS Derivation

CONSTANT MaxLength

\* "k" and "k_escaped", "intent" and "intent_escaped" decode to the same name.
MCStrings ==
  Required \cup {"extra", "k", "k_escaped", "intent_escaped"}
    \cup {"id", "intent-0003", "action", "verify", "target", "v1.4", "v1.3", "parameters",
          "sequence", "string 3", "result", "Verified OK", "rejected", "outputs", "exit_code",
          "runtime_version", "0.0.0", "0.0.1", "opaque", "illustrative", "record_hash",
          "sha256", "text", "text escaped", "empty", "records", "submissions",
          "illustrative text", "quoted target"}
MCScalars == {"0", "0.0", "1", "1.0", "1e0", "2", "3", "4", "null", "digits",
              "30", "40", "0.5", "0e5", "0.0e5"}
MCOversized == {"digits"}
MCDecoded(s) ==
  CASE s = "k_escaped" -> "k" [] s = "intent_escaped" -> "intent" [] OTHER -> s

\* Numbers that begin with another one, two strings that begin with "illustrative,
\* and the name x"target, spelled "x\"target".
MCPieces(x) ==
  CASE x = "30"    -> <<"3", "0">>
    [] x = "40"    -> <<"4", "0">>
    [] x = "0.5"   -> <<"0", ".5">>
    [] x = "0e5"   -> <<"0", "e5">>
    [] x = "0.0"   -> <<"0", ".0">>
    [] x = "0.0e5" -> <<"0", ".0", "e5">>
    [] x = "1.0"   -> <<"1", ".0">>
    [] x = "1e0"   -> <<"1", "e0">>
    [] x = "illustrative"      -> <<"illustrative..", "..">>
    [] x = "illustrative text" -> <<"illustrative..", ".. text">>
    [] x = "quoted target"     -> <<"quoted..", "target">>
    [] OTHER -> <<x>>

\* Stands in for the F.1 schema: a section is an object, and the sequence number
\* of an event is no string; the invariant is anything.
MCSchemaAccepts(name, lexemes) ==
  \/ name = "invariant"
  \/ /\ lexemes[1] = "{"
     /\ name = "event" =>
          \A i \in 1..Len(lexemes) :
            lexemes[i] = "sequence" /\ Depth(lexemes, i) = 1 => lexemes[i + 2] \notin MCStrings

Empty      == <<"{", "}">>
Nested     == <<"{", "k", ":", "[", "0", ",", "{", "k", ":", "null", "}", "]", "}">>
Duplicated == <<"{", "k", ":", "0", ",", "k_escaped", ":", "0", "}">>
Deep       == <<"[", "[", "[", "[", "]", "]", "]", "]">>

MemberOf(name, value) == [name |-> name, value |-> value]
Members(value) == [i \in 1..5 |-> MemberOf(TOP_LEVEL_ORDER[i], IF i = 2 THEN value ELSE Empty)]

Swapped(ms, i) == [ms EXCEPT ![i] = ms[i + 1], ![i + 1] = ms[i]]
Dropped(ms, i) == SubSeq(ms, 1, i - 1) \o SubSeq(ms, i + 1, Len(ms))

MemberEdits(ms) ==
  {ms} \cup {Swapped(ms, i) : i \in 1..(Len(ms) - 1)}
       \cup {Dropped(ms, i) : i \in 1..Len(ms)}
       \cup {Append(ms, m) : m \in {ms[1], ms[Len(ms)], MemberOf("extra", Empty)}}
       \cup {[ms EXCEPT ![i].name = x] : i \in {1, Len(ms)}, x \in {"extra", "intent_escaped"}}
       \cup {[ms EXCEPT ![i].value = v] : i \in {1, Len(ms)},
                v \in {<<"0">>, <<"digits">>, Duplicated, Deep}}

Records ==
  LET edited == MemberEdits(Members(Nested))
  IN  edited \cup UNION {MemberEdits(ms) : ms \in {m \in edited : Len(m) = 4}}
             \cup MemberEdits(Members(Duplicated))

Written(ms) ==
  LET from[i \in 1..Len(ms)] ==
        (IF i = 1 THEN <<"{">> ELSE <<",">>)
          \o <<ms[i].name, ":">> \o ms[i].value
          \o (IF i = Len(ms) THEN <<"}", "LF">> ELSE from[i + 1])
  IN  from[1]

Inserted(t, i, x) == SubSeq(t, 1, i - 1) \o <<x>> \o SubSeq(t, i, Len(t))

TextEdits(t) ==
  LET n == Len(t)
  IN  {t, SubSeq(t, 1, n - 1), SubSeq(t, 1, n - 2), Append(t, "LF"), Append(t, "?"),
       [t EXCEPT ![n] = "space"]}
        \cup {Inserted(t, i, x) : i \in {1, 2, 5, n - 2}, x \in {"space", "?", "]"}}

Others == {<<>>, <<"LF">>, <<"0", "LF">>, <<"[", "]", "LF">>, <<"k", "LF">>, <<"null">>,
           <<"{", "}", "LF">>, <<"{", "}", "LF", "LF">>}

Alphabet == {"space", "LF", "?", "k", "k_escaped", "extra", "0", "null"} \cup Brackets

AllShort == UNION {[1..n -> Alphabet] : n \in 0..MaxLength}

\* {"k":{"k":0,"extra":[]},"extra":[{},null]}, with the inner k spelled in
\* another way, and [[0,{"k":["extra"]}],{"extra":0}]
Long ==
  { <<"{", "k", ":", "{", "k_escaped", ":", "0", ",", "extra", ":", "[", "]", "}", ",",
      "extra", ":", "[", "{", "}", ",", "null", "]", "}", "LF">>,
    <<"[", "[", "0", ",", "{", "k", ":", "[", "extra", "]", "}", "]", ",",
      "{", "extra", ":", "0", "}", "]", "LF">> }

Deleted(t, i)     == SubSeq(t, 1, i - 1) \o SubSeq(t, i + 1, Len(t))
Replaced(t, i, x) == [t EXCEPT ![i] = x]

Edits(t) ==
  {t} \cup {Deleted(t, i) : i \in 1..Len(t)}
      \cup {Inserted(t, i, x) : i \in 1..Len(t), x \in Alphabet}
      \cup {Replaced(t, i, x) : i \in 1..Len(t), x \in Alphabet}

\* The baseline, but for members that no edit names.
Intent(target, parameters) ==
  <<"{", "id", ":", "intent-0003", ",", "action", ":", "verify", ",", "target", ":", target, ",",
    "parameters", ":", "{">> \o parameters \o <<"}", "}">>
Event(n) == <<"{", "sequence", ":", n, "}">>
Observe(n) == <<"{", "result", ":", "Verified OK", ",", "outputs", ":", "{", "exit_code", ":", n,
                "}", "}">>
Meta     == <<"{", "runtime_version", ":", "0.0.0", "}">>
Opaque   == <<"{", "opaque", ":", "[", "illustrative", ",", "1", ",", "null", "]", "}">>

RecordOf(intent, event, observe, invariant) ==
  Written(<<MemberOf("intent", intent), MemberOf("event", event), MemberOf("observe", observe),
            MemberOf("meta", Meta), MemberOf("invariant", invariant)>>)

BaselineRecord == RecordOf(Intent("v1.4", <<>>), Event("3"), Observe("0"), Opaque)

\* Further baselines, in which anchors lie elsewhere, twice or nowhere.
Displaced ==
  { RecordOf(Intent("v1.4", <<"target", ":", "v1.4">>),
             <<"{", "extra", ":">> \o Event("3") \o <<",", "sequence", ":", "3", "}">>,
             Observe("0"), Opaque),
    RecordOf(Intent("v1.3", <<"target", ":", "v1.4">>), Event("4"), Observe("0"),
             <<"{", "sequence", ":", "3", "}">>),
    RecordOf(Empty, Event("3"), Observe("0"),
             <<"{", "intent", ":", "{", "}", ",", "event", ":">> \o Event("3")
               \o <<",", "meta", ":">> \o Meta \o <<"}">>),
    RecordOf(Intent("v1.4", <<>>), Event("3"), Observe("0"),
             <<"[", "illustrative", ",", "1", ",", "null", "]">>),
    Replaced(BaselineRecord, 2, "intent_escaped") }

\* And some in which anchors end within a longer number, lie in a longer string or
\* begin within one.
Overlapping ==
  { RecordOf(Intent("v1.4", <<>>), Event("30"), Observe("0.5"), Opaque),
    RecordOf(Intent("v1.4", <<"sequence", ":", "30">>), Event("3"), Observe("0e5"),
             <<"[", "illustrative text", "]">>),
    RecordOf(Intent("v1.3", <<"quoted target", ":", "v1.4", ",", "k", ":", "0">>), Event("3"),
             Observe("0"), <<"[", "illustrative text", ",", "illustrative", ",", "1", ",", "null", "]">>) }

MCBaselines == {BaselineRecord} \cup Displaced \cup Overlapping

\* Examples: an envelope around a record, or around several, with whitespace
\* after every comma and colon.
Spread(t) ==
  FlattenSeq([i \in 1..Len(t) |-> IF t[i] \in {",", ":", "{"} THEN <<t[i], "LF", "space">> ELSE <<t[i]>>])
MCExamples ==
  { [text |-> Spread(<<"{", "extra", ":", "{", "}", ",", "records", ":", "[">>
                       \o Front(b) \o <<",">> \o Front(BaselineRecord) \o <<"]", "}", "LF">>),
     path |-> << <<"member", "records">>, <<"element", n>> >>] : b \in {BaselineRecord} \cup Displaced, n \in {0, 1} }

MCTexts ==
  AllShort \cup UNION {Edits(t) : t \in Long} \cup Others
    \cup UNION {TextEdits(Written(ms)) : ms \in Records}
    \cup DerivedTexts
===========================================================================
