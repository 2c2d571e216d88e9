------------------------------ MODULE Lexemes ------------------------------
(***************************************************************************)
(* The lexemes that module Scanner takes for granted, one at a time and    *)
(* character by character: how Scanner._value recognises a literal, and    *)
(* what _string and _number read, decode and reject.  Characters are code  *)
(* points.                                                                 *)
(***************************************************************************)
EXTENDS Naturals, Sequences, FiniteSets

CONSTANT CharTexts    \* the texts at whose start a lexeme is read

ASSUME CharsAssumption == \A t \in CharTexts : t \in Seq(Nat)

VARIABLES
  chars,   \* the text
  at,      \* the next character, counted from 1
  mode,    \* what is being read, or how it ended
  out      \* the decoded characters of a string

lexVars == <<chars, at, mode, out>>

QUOTE     == 34
BACKSLASH == 92
MINUS     == 45
PLUS      == 43
DOT       == 46
LETTER_U  == 117
ASCII_DIGITS == 48..57

\* str.isdigit is also true of digits of other scripts, here one of them.
isdigit(c) == c \in ASCII_DIGITS \cup {1635}

\* _ESC: the character after the backslash and the character it stands for.
ESC == [c \in {34, 92, 47, 98, 102, 110, 114, 116} |->
          CASE c = 98 -> 8 [] c = 102 -> 12 [] c = 110 -> 10
            [] c = 114 -> 13 [] c = 116 -> 9 [] OTHER -> c]

HexDigit(c) ==
  IF c \in 48..57 THEN c - 48
  ELSE IF c \in 97..102 THEN c - 87
  ELSE c - 55
isHex(c) == c \in 48..57 \cup 97..102 \cup 65..70

\* "true", "false" and "null".
Literals ==
  {<<116, 114, 117, 101>>, <<102, 97, 108, 115, 101>>, <<110, 117, 108, 108>>}

CharAt(i) == IF i <= Len(chars) THEN chars[i] ELSE 0
StartsWith(s) == Len(chars) >= Len(s) /\ SubSeq(chars, 1, Len(s)) = s

\* Where the run of ASCII digits that starts at i ends; i when there is none.
digits(i) ==
  CHOOSE j \in i..(Len(chars) + 1) :
    /\ \A k \in i..(j - 1) : chars[k] \in ASCII_DIGITS
    /\ CharAt(j) \notin ASCII_DIGITS

LexInit ==
  /\ chars \in CharTexts
  /\ at = 1
  /\ mode = "value"
  /\ out = <<>>

Goto(m, i) == mode' = m /\ at' = i /\ UNCHANGED <<chars, out>>
ParseError == Goto("parse_error", at)

---------------------------------------------------------------------------
(* _value on a scalar.                                                     *)

StartString == mode = "value" /\ CharAt(1) = QUOTE /\ Goto("string", 2)

StartNumber ==
  /\ mode = "value"
  /\ CharAt(1) = MINUS \/ isdigit(CharAt(1))
  /\ Goto("integer", IF CharAt(1) = MINUS THEN 2 ELSE 1)

Literal ==
  /\ mode = "value"
  /\ \E s \in Literals : StartsWith(s) /\ Goto("literal", Len(s) + 1)

NoLexeme ==
  /\ mode = "value"
  /\ CharAt(1) \notin {QUOTE, MINUS} /\ ~ isdigit(CharAt(1))
  /\ \A s \in Literals : ~ StartsWith(s)
  /\ ParseError

---------------------------------------------------------------------------
(* _string: one action for each way an iteration of its loop ends.         *)

InString == mode = "string" /\ at <= Len(chars)

Unterminated == mode = "string" /\ at > Len(chars) /\ ParseError

EndString == InString /\ chars[at] = QUOTE /\ Goto("string_read", at + 1)

ControlCharacter == InString /\ chars[at] < 32 /\ ParseError

Emit(c, width) == out' = Append(out, c) /\ at' = at + width /\ UNCHANGED <<chars, mode>>

\* Mutant: the escaped character stands for itself.
EscapeVerbatim ==
  /\ InString /\ chars[at] = BACKSLASH
  /\ CharAt(at + 1) \in DOMAIN ESC
  /\ Emit(CharAt(at + 1), 2)

Escape ==
  /\ InString /\ chars[at] = BACKSLASH
  /\ CharAt(at + 1) \in DOMAIN ESC
  /\ Emit(ESC[CharAt(at + 1)], 2)

FourHex(i) == i + 3 <= Len(chars) /\ \A k \in i..(i + 3) : isHex(chars[k])

CodeUnit(i) ==
  4096 * HexDigit(chars[i]) + 256 * HexDigit(chars[i + 1])
    + 16 * HexDigit(chars[i + 2]) + HexDigit(chars[i + 3])

\* Each escape is decoded by itself: chr(int(hexdigits, 16)).
UnicodeEscape ==
  /\ InString /\ chars[at] = BACKSLASH
  /\ CharAt(at + 1) = LETTER_U
  /\ FourHex(at + 2)
  /\ Emit(CodeUnit(at + 2), 6)

InvalidEscape ==
  /\ InString /\ chars[at] = BACKSLASH
  /\ CharAt(at + 1) \notin DOMAIN ESC
  /\ CharAt(at + 1) = LETTER_U => ~ FourHex(at + 2)
  /\ ParseError

\* Mutant: control characters are taken as they are.
PlainCharacterOrControl ==
  /\ InString
  /\ chars[at] \notin {QUOTE, BACKSLASH}
  /\ Emit(chars[at], 1)

PlainCharacter ==
  /\ InString /\ chars[at] >= 32
  /\ chars[at] \notin {QUOTE, BACKSLASH}
  /\ Emit(chars[at], 1)

---------------------------------------------------------------------------
(* _number, part by part.                                                  *)

\* Mutant: leading zeros are digits like others.
ReadIntegerLeadingZeros ==
  /\ mode = "integer"
  /\ IF digits(at) > at THEN Goto("fraction", digits(at)) ELSE ParseError

ReadInteger ==
  /\ mode = "integer"
  /\ \/ CharAt(at) = 48 /\ Goto("fraction", at + 1)
     \/ CharAt(at) # 48 /\ digits(at) > at /\ Goto("fraction", digits(at))
     \/ digits(at) = at /\ ParseError

ReadFraction ==
  /\ mode = "fraction"
  /\ \/ CharAt(at) # DOT /\ Goto("exponent", at)
     \/ /\ CharAt(at) = DOT
        /\ IF digits(at + 1) = at + 1 THEN ParseError ELSE Goto("exponent", digits(at + 1))

ReadExponent ==
  /\ mode = "exponent"
  /\ \/ CharAt(at) \notin {69, 101} /\ Goto("number_read", at)
     \/ /\ CharAt(at) \in {69, 101}
        /\ LET first == IF CharAt(at + 1) \in {PLUS, MINUS} THEN at + 2 ELSE at + 1
           IN  IF digits(first) = first THEN ParseError ELSE Goto("number_read", digits(first))

---------------------------------------------------------------------------

LexStep ==
  \/ StartString \/ StartNumber \/ Literal \/ NoLexeme
  \/ Unterminated \/ EndString \/ ControlCharacter
  \/ Escape \/ UnicodeEscape \/ InvalidEscape \/ PlainCharacter
  \/ ReadInteger \/ ReadFraction \/ ReadExponent

LexSpec == LexInit /\ [][LexStep]_lexVars /\ WF_lexVars(LexStep)

LexEnded == {"string_read", "number_read", "literal", "parse_error"}

---------------------------------------------------------------------------
(* What the lexemes are, said of the whole text (RFC 8259).                *)

\* A character of a string is escaped when an odd run of backslashes precedes it.
Escaped(i) ==
  \E j \in 2..i :
    /\ \A k \in j..(i - 1) : chars[k] = BACKSLASH
    /\ j = 2 \/ chars[j - 1] # BACKSLASH
    /\ (i - j) % 2 = 1

Closes(i) == i > 1 /\ chars[i] = QUOTE /\ ~ Escaped(i)

ValidEscape(i) ==
  \/ chars[i] \in DOMAIN ESC
  \/ chars[i] = LETTER_U /\ FourHex(i + 1)

ValidString(n) ==
  /\ Closes(n)
  /\ \A i \in 2..(n - 1) :
       /\ ~ Closes(i)
       /\ chars[i] >= 32
       /\ Escaped(i) => ValidEscape(i)

\* A string is read exactly when the text starts with one, to its closing quote.
StringIsExact ==
  /\ mode = "string_read" => ValidString(at - 1)
  /\ mode = "parse_error" /\ CharAt(1) = QUOTE => \A n \in 1..Len(chars) : ~ ValidString(n)

DigitRun(i, j) == i <= j /\ \A k \in i..j : chars[k] \in ASCII_DIGITS
Integer(i, j) == DigitRun(i, j) /\ (chars[i] = 48 => i = j)
Exponent(i, j) ==
  /\ i < j /\ chars[i] \in {69, 101}
  /\ DigitRun(i + 1, j) \/ (chars[i + 1] \in {PLUS, MINUS} /\ DigitRun(i + 2, j))

\* The first n characters are a number of the grammar.
ValidNumber(n) ==
  \E first \in {1, 2}, i, f \in 1..n :
    /\ first = 2 <=> chars[1] = MINUS
    /\ i <= f /\ Integer(first, i)
    /\ f = i \/ (chars[i + 1] = DOT /\ DigitRun(i + 2, f))
    /\ n = f \/ Exponent(f + 1, n)

\* A number is read to its longest form; where reading fails, what there is of
\* a number is followed by the start of a fraction or an exponent without digits.
NumberIsExact ==
  /\ mode = "number_read" =>
       /\ ValidNumber(at - 1)
       /\ \A n \in at..Len(chars) : ~ ValidNumber(n)
  /\ mode = "parse_error" =>
       \A n \in 1..Len(chars) :
         \/ ~ ValidNumber(n)
         \/ CharAt(n + 1) \in {DOT, 69, 101}
         \/ \E longer \in (n + 1)..Len(chars) : ValidNumber(longer)

\* Where a character or an escape of the spelling starts.
InHexDigits(i) ==
  \E k \in 2..(i - 1) : i <= k + 4 /\ Escaped(k) /\ chars[k] = LETTER_U
UnitStarts(end) == {i \in 2..end : ~ Escaped(i) /\ ~ InHexDigits(i)}

UnitAt(i) ==
  IF chars[i] # BACKSLASH THEN chars[i]
  ELSE IF chars[i + 1] = LETTER_U THEN CodeUnit(i + 2)
  ELSE ESC[chars[i + 1]]

\* A decoded string has one code unit for each character and each escape of its
\* spelling, in order: two spellings of the same units are the same name.
DecodesUnits ==
  mode = "string_read" =>
    LET starts == UnitStarts(at - 2)
    IN  /\ Len(out) = Cardinality(starts)
        /\ \A i \in starts :
             out[Cardinality({j \in starts : j <= i})] = UnitAt(i)

---------------------------------------------------------------------------
(* minify: it tells strings from the rest by itself, character by character. *)

CharWhitespace == {32, 9, 10, 13}

\* Mutant: a quote ends a string whatever precedes it.
KeepCharUnescaped(m, c) ==
  [kept   |-> IF m.in_str \/ c \notin CharWhitespace THEN Append(m.kept, c) ELSE m.kept,
   in_str |-> IF c = QUOTE THEN ~ m.in_str ELSE m.in_str,
   esc    |-> FALSE]

KeepChar(m, c) ==
  [kept   |-> IF m.in_str \/ c \notin CharWhitespace THEN Append(m.kept, c) ELSE m.kept,
   in_str |-> IF c = QUOTE /\ ~ m.esc THEN ~ m.in_str ELSE m.in_str,
   esc    |-> m.in_str /\ c = BACKSLASH /\ ~ m.esc]

\* The state of the loop after each character; 0 stands for the start.
NothingKept == [kept |-> <<>>, in_str |-> FALSE, esc |-> FALSE]
minifying(s) ==
  LET m[i \in 0..Len(s)] == IF i = 0 THEN NothingKept ELSE KeepChar(m[i - 1], s[i])
  IN  m
minified(s) == minifying(s)[Len(s)].kept

\* "Lexemes are kept verbatim": of a lexeme that the scanner reads, minify keeps
\* every character, and of the whitespace around it none.
MinifyKeepsLexemes ==
  mode \in LexEnded \ {"parse_error"} =>
    LET lexeme == SubSeq(chars, 1, at - 1)
    IN  minified(<<32>> \o lexeme \o <<9, 10>> \o lexeme \o <<13>>) = lexeme \o lexeme
===========================================================================
