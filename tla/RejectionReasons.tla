------------------------- MODULE RejectionReasons -------------------------
(***************************************************************************)
(* The registry of rejection reasons (spec/rejection-reasons.json) and the *)
(* choice of the primary code (errors.py).  Each stage maps its active     *)
(* codes to their precedence numbers; the lowest number wins.              *)
(***************************************************************************)
EXTENDS Naturals

FormatPrecedence ==
  [ INVALID_UTF8             |-> 1,
    BOM_PRESENT              |-> 2,
    INVALID_JSON             |-> 3,
    MISSING_FINAL_LF         |-> 4,
    TRAILING_DATA            |-> 5,
    NON_CANONICAL_WHITESPACE |-> 6,
    DUPLICATE_KEY            |-> 7,
    INVARIANT_REMOVED        |-> 8,
    MISSING_REQUIRED_FIELD   |-> 9,
    UNEXPECTED_FIELD         |-> 10,
    FIELD_ORDER_VIOLATION    |-> 11,
    TYPE_MISMATCH            |-> 12 ]

HashPrecedence ==
  [ HASH_FILE_MISSING   |-> 13,
    HASH_FORMAT_INVALID |-> 14,
    HASH_MISMATCH       |-> 15 ]

BaselinePrecedence ==
  [ INTENT_MODIFIED               |-> 16,
    EVENT_MODIFIED                |-> 17,
    OBSERVE_MODIFIED              |-> 18,
    META_MODIFIED                 |-> 19,
    INVARIANT_TYPE_CHANGED        |-> 20,
    INVARIANT_VALUE_CHANGED       |-> 21,
    NUMERIC_REPRESENTATION_CHANGE |-> 22 ]

\* Registered, but ValidationError refuses to construct it.
ReservedCodes == {"UNSUPPORTED_SCHEMA_VERSION"}

FormatCodes   == DOMAIN FormatPrecedence
HashCodes     == DOMAIN HashPrecedence
BaselineCodes == DOMAIN BaselinePrecedence
ActiveCodes   == FormatCodes \cup HashCodes \cup BaselineCodes

PRECEDENCE ==
  [ c \in ActiveCodes |->
      IF c \in FormatCodes THEN FormatPrecedence[c]
      ELSE IF c \in HashCodes THEN HashPrecedence[c]
      ELSE BaselinePrecedence[c] ]

\* What a stage answers when it raises no ValidationError: None, or an
\* exception no caller catches (RecursionError, AssertionError, ...).
Accepted == "ACCEPTED"
Uncaught == "UNCAUGHT"

\* Mutant: the highest number wins.
primaryHighest(codes) ==
  IF codes = {} THEN Accepted
  ELSE CHOOSE c \in codes : \A d \in codes : PRECEDENCE[c] >= PRECEDENCE[d]

\* errors.primary: the code with the lowest precedence number, or None.
primary(codes) ==
  IF codes = {} THEN Accepted
  ELSE CHOOSE c \in codes : \A d \in codes : PRECEDENCE[c] <= PRECEDENCE[d]
===========================================================================
