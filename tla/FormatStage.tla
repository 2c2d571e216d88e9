---------------------------- MODULE FormatStage ----------------------------
(***************************************************************************)
(* canonical.check_format: the format stage on the bytes of one file.  It  *)
(* decodes them, scans the text (module Scanner) and applies its checks in *)
(* order; the first that fails is the code it reports.                     *)
(***************************************************************************)
EXTENDS Scanner, RejectionReasons

CONSTANTS
  Oversized,           \* integer lexemes of more digits than int() converts
  SchemaAccepts(_, _)  \* external: does the value of the named section, a
                       \*   sequence of lexemes, satisfy its F.1 schema?

ASSUME OversizedAssumption == Oversized \subseteq Scalars

VARIABLES
  utf8,     \* the bytes are valid UTF-8 (they decode to text)
  bom,      \* the bytes start with EF BB BF
  stage,    \* "decode", "scan" or "finished"
  format    \* how check_format ended: Accepted, a code, or Uncaught

stageVars  == <<utf8, bom, stage, format>>
formatVars == <<scanVars, stageVars>>

TOP_LEVEL_ORDER == <<"intent", "event", "observe", "meta", "invariant">>
Required        == {TOP_LEVEL_ORDER[i] : i \in 1..Len(TOP_LEVEL_ORDER)}

\* A byte order mark decodes to a character with which no value starts.
FormatInit ==
  /\ ScanInit
  /\ utf8 \in BOOLEAN
  /\ bom \in BOOLEAN
  /\ bom => text # <<>> /\ text[1] = "?"
  /\ stage = "decode"
  /\ format = Accepted

---------------------------------------------------------------------------

Decode ==
  /\ stage = "decode"
  /\ \/ /\ ~utf8
        /\ stage' = "finished" /\ format' = "INVALID_UTF8"
     \/ /\ utf8 /\ bom
        /\ stage' = "finished" /\ format' = "BOM_PRESENT"
     \/ /\ utf8 /\ ~bom
        /\ stage' = "scan" /\ UNCHANGED format
  /\ UNCHANGED <<scanVars, utf8, bom>>

Scan ==
  /\ stage = "scan"
  /\ ScanStep
  /\ UNCHANGED stageVars

\* Only ParseError is turned into a rejection.
ScanFailed ==
  /\ stage = "scan"
  /\ \/ ctl = "parse_error" /\ format' = "INVALID_JSON"
     \/ ctl = "recursion_error" /\ format' = Uncaught
  /\ stage' = "finished"
  /\ UNCHANGED <<scanVars, utf8, bom>>

\* The raw lexemes of a node.
raw(node) == SubSeq(text, node.start, node.end - 1)

keys == [i \in 1..Len(top.members) |-> top.members[i].key]
KeySet == {keys[i] : i \in 1..Len(keys)}

SchemaErrors ==
  \E i \in 1..Len(top.members) :
    ~ SchemaAccepts(top.members[i].key, raw(top.members[i].node))

\* The checks on the scanned node in the order of the code: what is reported
\* when the condition holds.  to_python raises on an oversized integer.
Checks ==
  << <<"MISSING_FINAL_LF",         rest = <<>> >>,
     <<"TRAILING_DATA",            rest # <<"LF">> >>,
     <<"NON_CANONICAL_WHITESPACE", first_whitespace # 0>>,
     <<"DUPLICATE_KEY",            first_duplicate # 0>>,
     <<"TYPE_MISMATCH",            top.kind # "object">>,
     <<"INVARIANT_REMOVED",        "invariant" \notin KeySet>>,
     <<"MISSING_REQUIRED_FIELD",   ~ (Required \subseteq KeySet)>>,
     <<"UNEXPECTED_FIELD",         ~ (KeySet \subseteq Required)>>,
     <<"FIELD_ORDER_VIOLATION",    keys # TOP_LEVEL_ORDER>>,
     <<Uncaught,                   \E i \in 1..(pos - 1) : text[i] \in Oversized>>,
     <<"TYPE_MISMATCH",            top.kind = "object" /\ SchemaErrors>> >>

\* Mutant: the checks run in the opposite order.
CheckNodeBackwards ==
  /\ stage = "scan"
  /\ ctl = "done"
  /\ LET failing == {i \in 1..Len(Checks) : Checks[i][2]}
     IN  format' = IF failing = {} THEN Accepted
                   ELSE Checks[CHOOSE i \in failing : \A j \in failing : i >= j][1]
  /\ stage' = "finished"
  /\ UNCHANGED <<scanVars, utf8, bom>>

CheckNode ==
  /\ stage = "scan"
  /\ ctl = "done"
  /\ LET failing == {i \in 1..Len(Checks) : Checks[i][2]}
     IN  format' = IF failing = {} THEN Accepted
                   ELSE Checks[CHOOSE i \in failing : \A j \in failing : i <= j][1]
  /\ stage' = "finished"
  /\ UNCHANGED <<scanVars, utf8, bom>>

FormatNext ==
  \/ Decode
  \/ Scan
  \/ ScanFailed
  \/ CheckNode

FormatSpec == FormatInit /\ [][FormatNext]_formatVars /\ WF_formatVars(FormatNext)

---------------------------------------------------------------------------

FileIsCanonical ==
  /\ \A i \in 1..Len(text) : text[i] \in WHITESPACE <=> i = Len(text)
  /\ text[Len(text)] = "LF"
  /\ keys = TOP_LEVEL_ORDER
  /\ top.start = 1 /\ top.end = Len(text)
  /\ \A k \in 1..Len(top.members) :
       LET section == top.members[k].node
           before  == IF k = 1 THEN 2 ELSE top.members[k - 1].node.end + 1
       IN  /\ section.start = before + 2
           /\ Decoded(text[before]) = TOP_LEVEL_ORDER[k]
           /\ text[section.end] = IF k = 5 THEN "}" ELSE ","

\* An accepted file is the five sections in order and nothing else: no
\* whitespace but the final LF, sections that lie side by side between their
\* names, and a slice for each that begins and ends with the section's value.
AcceptedIsCanonical == stage = "finished" /\ format = Accepted => FileIsCanonical

\* check_format ends on every text: at every turn each loop of the scanner, that of
\* _ws too, leaves something of the text behind, or is left.
FormatEnds == <>(stage = "finished")
===========================================================================
