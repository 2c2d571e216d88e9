---------------------------- MODULE FormatRules ----------------------------
(***************************************************************************)
(* What spec/rejection-reasons.md says of each format code, of the whole   *)
(* text at once and without the scanner.                                   *)
(***************************************************************************)
EXTENDS FormatStage, JsonGrammar

\* The lexemes of the value of the k-th name of the top-level object: from the
\* colon to the comma or the brace that ends it.
SectionLexemes(t, n, k) ==
  LET named == Nth(TopNamed(t, n), k)
      colon == CHOOSE c \in First(t, named + 1, n) : TRUE
      after == {j \in (named + 1)..n :
                  \/ t[j] = "," /\ Depth(t, j) = 1
                  \/ t[j] = "}" /\ Depth(t, j) = 0}
      stop  == CHOOSE j \in after : \A i \in after : j <= i
  IN  SubSeq(t, colon + 1, stop - 1)

\* Codes that apply to a text that starts with a value of n lexemes.
ValueCodes(t, n) ==
  LET isObject == \E a \in First(t, 1, n) : t[a] = "{"
      names    == TopNames(t, n)
      nameSet  == {names[i] : i \in 1..Len(names)}
      complete == isObject /\ nameSet = Required /\ Len(names) = 5
  IN  {c \in FormatCodes :
         \/ c = "MISSING_FINAL_LF" /\ n = Len(t)
         \/ c = "TRAILING_DATA" /\ n < Len(t) /\ SubSeq(t, n + 1, Len(t)) # <<"LF">>
         \/ c = "NON_CANONICAL_WHITESPACE" /\ \E i \in 1..n : t[i] \in WHITESPACE
         \/ c = "DUPLICATE_KEY" /\ Duplicates(t, n) # {}
         \/ c = "INVARIANT_REMOVED" /\ isObject /\ "invariant" \notin nameSet
         \/ c = "MISSING_REQUIRED_FIELD" /\ isObject /\ \E k \in Required \ {"invariant"} : k \notin nameSet
         \/ c = "UNEXPECTED_FIELD" /\ isObject /\ \E k \in nameSet : k \notin Required
         \/ c = "FIELD_ORDER_VIOLATION" /\ complete /\ names # TOP_LEVEL_ORDER
         \/ c = "TYPE_MISMATCH" /\ ~isObject
         \/ /\ c = "TYPE_MISMATCH"
            /\ complete
            /\ \E k \in 1..5 : ~ SchemaAccepts(names[k], SectionLexemes(t, n, k))}

ApplicableCodes ==
  IF ~utf8 THEN {"INVALID_UTF8"}
  ELSE (IF bom THEN {"BOM_PRESENT"} ELSE {})
         \cup (IF ValueEnds(text) = {} THEN {"INVALID_JSON"}
               ELSE ValueCodes(text, CHOOSE n \in ValueEnds(text) : TRUE))

\* The format stage reports the code with the lowest precedence number among
\* those that apply, and accepts when none does; it fails to answer only on a
\* text that exhausts the interpreter.
ReportsPrimary ==
  stage = "finished" =>
    IF format = Uncaught
      THEN \E i \in 1..Len(text) :
             Depth(text, i) > RecursionLimit \/ text[i] \in Oversized
      ELSE IF ApplicableCodes = {} THEN format = Accepted
      ELSE /\ format \in ApplicableCodes
           /\ \A c \in ApplicableCodes : PRECEDENCE[format] <= PRECEDENCE[c]
===========================================================================
