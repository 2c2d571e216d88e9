--------------------------- MODULE LexemesProofs ---------------------------
(***************************************************************************)
(* Proofs about the lexemes, for texts of any length.                      *)
(***************************************************************************)
EXTENDS Lexemes, FiniteSetTheorems, SequenceTheorems, WellFoundedInduction, TLAPS

\* A set of natural numbers has a least one.
LEMMA Least ==
  ASSUME NEW T, T \subseteq Nat, T # {}
  PROVE  \E x \in T : \A y \in T : x <= y
<1> DEFINE less == OpToRel(<, Nat)
<1>1. IsWellFoundedOn(less, Nat)
  BY NatLessThanWellFounded
<1>2. PICK x \in T : \A y \in T : ~ (<<y, x>> \in less)
  <2> HIDE DEF less
  <2> QED
    BY <1>1, WFMin
<1>3. \A y \in T : ~ (y < x)
  BY <1>2 DEF OpToRel
<1> QED
  BY <1>3

---------------------------------------------------------------------------
(* Escapes.                                                                *)

\* The backslashes right before position i start at j.
RunFrom(j, i) ==
  /\ j \in 2..i
  /\ \A k \in j..(i - 1) : chars[k] = BACKSLASH
  /\ j = 2 \/ chars[j - 1] # BACKSLASH

\* There is exactly one such j.
LEMMA OneRun ==
  ASSUME NEW i \in Nat, i >= 2
  PROVE  /\ \E j \in 2..i : RunFrom(j, i)
         /\ \A j, k : RunFrom(j, i) /\ RunFrom(k, i) => j = k
<1> DEFINE T == {j \in 2..i : \A k \in j..(i - 1) : chars[k] = BACKSLASH}
<1>1. i \in T /\ T \subseteq Nat
  OBVIOUS
<1>2. PICK j \in T : \A k \in T : j <= k
  <2> HIDE DEF T
  <2> QED
    BY <1>1, Least
<1>0. \A k, m : RunFrom(k, i) /\ RunFrom(m, i) => k = m
  BY DEF RunFrom
<1>3. CASE j = 2
  BY <1>2, <1>3 DEF RunFrom
<1>4. CASE j # 2
  <2>1. j - 1 \in 2..i /\ j - 1 \notin T
    BY <1>2, <1>4
  <2>2. chars[j - 1] # BACKSLASH
    BY <1>2, <1>4, <2>1
  <2> QED
    BY <1>2, <2>1, <2>2 DEF RunFrom
<1> QED
  BY <1>3, <1>4, <1>0

\* A character is escaped when the one before it is an unescaped backslash.
LEMMA EscapedNext ==
  ASSUME NEW i \in Nat, i >= 2
  PROVE  /\ ~ Escaped(2)
         /\ Escaped(i + 1) <=> chars[i] = BACKSLASH /\ ~ Escaped(i)
<1>1. \A m \in Nat, n \in Nat : m >= 2 => (Escaped(m) <=> \E j : RunFrom(j, m) /\ (m - j) % 2 = 1)
  BY DEF Escaped, RunFrom
<1>2. ~ Escaped(2)
  <2>1. \A j : RunFrom(j, 2) => (2 - j) % 2 = 0
    BY DEF RunFrom
  <2> QED
    BY <1>1, <2>1
<1>3. CASE chars[i] # BACKSLASH
  <2>1. \A j : RunFrom(j, i + 1) => j = i + 1
    BY <1>3 DEF RunFrom
  <2>2. ((i + 1) - (i + 1)) % 2 = 0
    OBVIOUS
  <2> QED
    BY <1>1, <1>2, <1>3, <2>1, <2>2
<1>4. CASE chars[i] = BACKSLASH
  <2>1. PICK j \in 2..i : RunFrom(j, i)
    BY OneRun
  <2>2. RunFrom(j, i + 1)
    BY <1>4, <2>1 DEF RunFrom
  <2>3. ((i + 1) - j) % 2 = 1 <=> (i - j) % 2 # 1
    <3>1. \A d \in Nat : (d + 1) % 2 = 1 <=> d % 2 # 1
      OBVIOUS
    <3>2. i - j \in Nat /\ (i + 1) - j = (i - j) + 1
      OBVIOUS
    <3> QED
      BY <3>1, <3>2
  <2>4. Escaped(i) <=> (i - j) % 2 = 1
    BY <1>1, <2>1, OneRun
  <2>5. Escaped(i + 1) <=> ((i + 1) - j) % 2 = 1
    <3>1. \A k, m : RunFrom(k, i + 1) /\ RunFrom(m, i + 1) => k = m
      BY OneRun
    <3> QED
      BY <1>1, <2>2, <3>1
  <2> QED
    BY <1>2, <1>4, <2>3, <2>4, <2>5
<1> QED
  BY <1>3, <1>4

---------------------------------------------------------------------------
(* Strings.                                                                *)

\* The string that begins the text has been read up to position i, where a character
\* or an escape of its spelling starts.
StringSoFar(i) ==
  /\ i \in 2..(Len(chars) + 1) /\ chars[1] = QUOTE
  /\ ~ Escaped(i) /\ ~ InHexDigits(i)
  /\ \A k \in 2..(i - 1) :
       /\ ~ Closes(k) /\ chars[k] >= 32
       /\ Escaped(k) => ValidEscape(k)

\* The rest of an escape that starts at i and goes on to j.
Rest(i, j) == \A k \in (i + 1)..(j - 1) : Escaped(k) \/ InHexDigits(k)

Text == chars \in Seq(Nat)

\* A plain character is read.
LEMMA AfterPlain ==
  ASSUME Text, NEW i, StringSoFar(i), i <= Len(chars),
         chars[i] >= 32, chars[i] \notin {QUOTE, BACKSLASH}
  PROVE  StringSoFar(i + 1) /\ Rest(i, i + 1)
<1>1. i \in Nat /\ i >= 2 /\ i + 1 \in 2..(Len(chars) + 1)
  BY DEF StringSoFar, Text
<1>2. ~ Escaped(i + 1)
  BY <1>1, EscapedNext
<1>3. ~ InHexDigits(i + 1)
  <2> SUFFICES ASSUME NEW k \in 2..i, i + 1 <= k + 4, Escaped(k), chars[k] = LETTER_U
               PROVE  FALSE
    BY <1>1 DEF InHexDigits
  <2>1. k # i
    BY DEF StringSoFar
  <2>2. k \in 2..(i - 1) /\ i <= k + 4
    BY <1>1, <2>1
  <2> QED
    BY <2>2 DEF StringSoFar, InHexDigits
<1>4. \A k \in 2..i : ~ Closes(k) /\ chars[k] >= 32 /\ (Escaped(k) => ValidEscape(k))
  BY <1>1 DEF StringSoFar, Closes
<1> QED
  BY <1>1, <1>2, <1>3, <1>4 DEF StringSoFar, Rest

\* An escape is a backslash and an escaped character.
LEMMA InEscape ==
  ASSUME Text, NEW i, StringSoFar(i), i < Len(chars), chars[i] = BACKSLASH
  PROVE  /\ i \in Nat /\ i >= 2
         /\ Escaped(i + 1) /\ ~ Escaped(i + 2)
         /\ ~ Closes(i) /\ ~ Closes(i + 1)
         /\ \A k \in 2..i : ~ Closes(k) /\ chars[k] >= 32 /\ (Escaped(k) => ValidEscape(k))
         /\ \A k \in 2..i : Escaped(k) /\ chars[k] = LETTER_U => k + 4 < i
<1>1. i \in Nat /\ i >= 2 /\ ~ Escaped(i)
  BY DEF StringSoFar, Text
<1>2. Escaped(i + 1) /\ ~ Escaped(i + 2)
  <2>1. Escaped(i + 1)
    BY <1>1, EscapedNext
  <2>2. i + 1 \in Nat /\ i + 1 >= 2 /\ i + 2 = (i + 1) + 1
    BY <1>1
  <2> QED
    BY <2>1, <2>2, EscapedNext
<1>3. ~ Closes(i) /\ ~ Closes(i + 1)
  BY <1>2 DEF Closes, QUOTE, BACKSLASH
<1>4. \A k \in 2..i : ~ Closes(k) /\ chars[k] >= 32 /\ (Escaped(k) => ValidEscape(k))
  BY <1>1, <1>3 DEF StringSoFar, BACKSLASH
<1>5. \A k \in 2..i : Escaped(k) /\ chars[k] = LETTER_U => k + 4 < i
  <2> SUFFICES ASSUME NEW k \in 2..i, Escaped(k), chars[k] = LETTER_U, ~ (k + 4 < i)
               PROVE  FALSE
    OBVIOUS
  <2>1. k # i
    BY <1>1
  <2>2. k \in 2..(i - 1) /\ i <= k + 4
    BY <1>1, <2>1
  <2> QED
    BY <2>2 DEF StringSoFar, InHexDigits
<1> QED
  BY <1>1, <1>2, <1>3, <1>4, <1>5

\* An escape of one character is read.
LEMMA AfterEscape ==
  ASSUME Text, NEW i, StringSoFar(i), i < Len(chars),
         chars[i] = BACKSLASH, chars[i + 1] \in DOMAIN ESC
  PROVE  StringSoFar(i + 2) /\ Rest(i, i + 2)
<1>1. i \in Nat /\ i >= 2 /\ i + 2 \in 2..(Len(chars) + 1)
  BY InEscape DEF Text
<1>2. ~ InHexDigits(i + 2)
  <2> SUFFICES ASSUME NEW k \in 2..(i + 1), i + 2 <= k + 4, Escaped(k), chars[k] = LETTER_U
               PROVE  FALSE
    BY <1>1 DEF InHexDigits
  <2>1. k # i + 1
    BY DEF ESC, LETTER_U
  <2>2. k \in 2..i /\ ~ (k + 4 < i)
    BY <1>1, <2>1
  <2> QED
    BY <2>2, InEscape
<1>3. chars[i + 1] >= 32 /\ ValidEscape(i + 1) /\ ~ Closes(i + 1)
  BY InEscape DEF ValidEscape, ESC
<1>4. \A k \in 2..(i + 1) : ~ Closes(k) /\ chars[k] >= 32 /\ (Escaped(k) => ValidEscape(k))
  <2> TAKE k \in 2..(i + 1)
  <2>1. k \in 2..i \/ k = i + 1
    BY <1>1
  <2> QED
    BY <2>1, <1>3, InEscape
<1>5. ~ Escaped(i + 2) /\ chars[1] = QUOTE
  BY InEscape DEF StringSoFar
<1>6. Rest(i, i + 2)
  BY <1>1, InEscape DEF Rest
<1> QED
  BY <1>1, <1>2, <1>4, <1>5, <1>6 DEF StringSoFar

\* An escape with four hexadecimal digits is read.
LEMMA AfterUnicode ==
  ASSUME Text, NEW i, StringSoFar(i), i < Len(chars),
         chars[i] = BACKSLASH, chars[i + 1] = LETTER_U, FourHex(i + 2)
  PROVE  StringSoFar(i + 6) /\ Rest(i, i + 6)
<1>0. i \in Nat /\ i >= 2 /\ (i + 2) + 3 = i + 5
  BY InEscape
<1>1. i \in Nat /\ i >= 2 /\ i + 6 \in 2..(Len(chars) + 1)
  BY <1>0 DEF Text, FourHex
<1>2. \A k \in (i + 2)..(i + 5) : chars[k] >= 32 /\ chars[k] \notin {QUOTE, BACKSLASH}
  <2>1. \A k \in (i + 2)..(i + 5) : isHex(chars[k])
    BY <1>0 DEF FourHex
  <2>2. \A c : isHex(c) => c >= 32 /\ c # QUOTE /\ c # BACKSLASH
    BY DEF isHex, QUOTE, BACKSLASH
  <2> QED
    BY <2>1, <2>2
<1>3. ~ Escaped(i + 2) /\ ~ Escaped(i + 3) /\ ~ Escaped(i + 4) /\ ~ Escaped(i + 5) /\ ~ Escaped(i + 6)
  <2>1. \A m \in Nat : m >= 2 => (Escaped(m + 1) <=> chars[m] = BACKSLASH /\ ~ Escaped(m))
    BY EscapedNext
  <2>2. \A m \in (i + 2)..(i + 5) : ~ Escaped(m + 1)
    <3> TAKE m \in (i + 2)..(i + 5)
    <3>1. m \in Nat /\ m >= 2 /\ chars[m] # BACKSLASH
      BY <1>1, <1>2
    <3> QED
      BY <3>1, <2>1
  <2>3. /\ i + 3 = (i + 2) + 1 /\ i + 4 = (i + 3) + 1 /\ i + 5 = (i + 4) + 1 /\ i + 6 = (i + 5) + 1
        /\ i + 2 \in (i + 2)..(i + 5) /\ i + 3 \in (i + 2)..(i + 5)
        /\ i + 4 \in (i + 2)..(i + 5) /\ i + 5 \in (i + 2)..(i + 5)
    BY <1>1
  <2> QED
    BY <2>2, <2>3, InEscape
<1>4. \A k \in (i + 2)..(i + 5) : ~ Escaped(k)
  <2> TAKE k \in (i + 2)..(i + 5)
  <2>1. k = i + 2 \/ k = i + 3 \/ k = i + 4 \/ k = i + 5
    BY <1>1
  <2> QED
    BY <2>1, <1>3
<1>5. ~ InHexDigits(i + 6)
  <2> SUFFICES ASSUME NEW k \in 2..(i + 5), i + 6 <= k + 4, Escaped(k), chars[k] = LETTER_U
               PROVE  FALSE
    BY <1>1 DEF InHexDigits
  <2>1. k \in (i + 2)..(i + 5)
    BY <1>1
  <2> QED
    BY <2>1, <1>4
<1>6. chars[i + 1] >= 32 /\ ValidEscape(i + 1) /\ ~ Closes(i + 1)
  <2>1. FourHex((i + 1) + 1)
    <3>1. (i + 1) + 1 = i + 2
      BY <1>1
    <3> QED
      BY <3>1
  <2> QED
    BY <2>1, InEscape DEF ValidEscape, LETTER_U
<1>7. \A k \in 2..(i + 5) : ~ Closes(k) /\ chars[k] >= 32 /\ (Escaped(k) => ValidEscape(k))
  <2> TAKE k \in 2..(i + 5)
  <2>1. k \in 2..i \/ k = i + 1 \/ k \in (i + 2)..(i + 5)
    BY <1>1
  <2>2. CASE k \in (i + 2)..(i + 5)
    BY <2>2, <1>2, <1>4 DEF Closes
  <2> QED
    BY <2>1, <2>2, <1>6, InEscape
<1>8. Rest(i, i + 6)
  <2> SUFFICES ASSUME NEW k \in (i + 1)..(i + 5)
               PROVE  Escaped(k) \/ InHexDigits(k)
    BY <1>1 DEF Rest
  <2>1. CASE k = i + 1
    BY <2>1, InEscape
  <2>2. CASE k # i + 1
    <3>1. i + 1 \in 2..(k - 1) /\ k <= (i + 1) + 4
      BY <1>1, <2>2
    <3> QED
      BY <3>1, InEscape DEF InHexDigits
  <2> QED
    BY <2>1, <2>2
<1>9. chars[1] = QUOTE
  BY DEF StringSoFar
<1> QED
  BY <1>1, <1>3, <1>5, <1>7, <1>8, <1>9 DEF StringSoFar

\* A closing quote makes what has been read a string.
LEMMA AtQuote ==
  ASSUME Text, NEW i, StringSoFar(i), i <= Len(chars), chars[i] = QUOTE
  PROVE  ValidString(i)
BY DEF ValidString, StringSoFar, Closes, Text

\* Where there is no way on, the text starts with no string.
LEMMA NoWayOn ==
  ASSUME Text, NEW i, StringSoFar(i),
         \/ i > Len(chars)
         \/ i <= Len(chars) /\ chars[i] < 32
         \/ /\ i <= Len(chars) /\ chars[i] = BACKSLASH
            /\ CharAt(i + 1) \notin DOMAIN ESC
            /\ CharAt(i + 1) = LETTER_U => ~ FourHex(i + 2)
  PROVE  \A n \in 1..Len(chars) : ~ ValidString(n)
<1> SUFFICES ASSUME NEW n \in 1..Len(chars), ValidString(n)
             PROVE  FALSE
  OBVIOUS
<1>1. i \in Nat /\ i >= 2 /\ n >= i /\ n > 1
  BY DEF ValidString, StringSoFar, Closes, Text
<1>2. CASE i <= Len(chars) /\ chars[i] < 32
  <2>1. n # i
    BY <1>2 DEF ValidString, Closes, QUOTE
  <2> QED
    BY <1>1, <1>2, <2>1 DEF ValidString, Text
<1>3. CASE /\ i <= Len(chars) /\ chars[i] = BACKSLASH
           /\ CharAt(i + 1) \notin DOMAIN ESC
           /\ CharAt(i + 1) = LETTER_U => ~ FourHex(i + 2)
  <2>1. n # i
    BY <1>3 DEF ValidString, Closes, QUOTE, BACKSLASH
  <2>2. i < Len(chars) /\ n >= i + 1
    BY <1>1, <2>1 DEF Text
  <2>3. Escaped(i + 1)
    BY <1>3, <2>2, InEscape
  <2>4. n # i + 1
    BY <2>3 DEF ValidString, Closes
  <2>5. ValidEscape(i + 1)
    BY <1>1, <2>2, <2>3, <2>4 DEF ValidString
  <2>6. chars[i + 1] = CharAt(i + 1) /\ (i + 1) + 1 = i + 2
    BY <1>1, <2>2 DEF CharAt, Text
  <2> QED
    BY <1>3, <2>5, <2>6 DEF ValidEscape
<1> QED
  BY <1>1, <1>2, <1>3 DEF Text

---------------------------------------------------------------------------
(* Steps.                                                                  *)

Modes == {"value", "string", "integer", "fraction", "exponent"} \cup LexEnded

LexType ==
  /\ Text
  /\ at \in 1..(Len(chars) + 1)
  /\ mode \in Modes
  /\ out \in Seq(Nat)

StringInv == mode = "string" => StringSoFar(at)

\* What begins as a number is no string.
NumberBegun == CharAt(1) = MINUS \/ isdigit(CharAt(1))
KindInv == mode \in {"integer", "fraction", "exponent", "number_read"} => NumberBegun

\* Where a run of digits ends.
LEMMA DigitsEnd ==
  ASSUME Text, NEW i \in 1..(Len(chars) + 1)
  PROVE  /\ digits(i) \in i..(Len(chars) + 1)
         /\ \A k \in i..(digits(i) - 1) : chars[k] \in ASCII_DIGITS
         /\ CharAt(digits(i)) \notin ASCII_DIGITS
<1> DEFINE T == {j \in i..(Len(chars) + 1) : CharAt(j) \notin ASCII_DIGITS}
<1>1. Len(chars) + 1 \in T /\ T \subseteq Nat
  BY DEF Text, CharAt, ASCII_DIGITS
<1>2. PICK j \in T : \A k \in T : j <= k
  <2> HIDE DEF T
  <2> QED
    BY <1>1, Least
<1>3. \A k \in i..(j - 1) : chars[k] \in ASCII_DIGITS
  <2> TAKE k \in i..(j - 1)
  <2>1. k \in i..(Len(chars) + 1) /\ k \notin T /\ k <= Len(chars)
    BY <1>2 DEF Text
  <2> QED
    BY <2>1 DEF CharAt
<1>4. /\ j \in i..(Len(chars) + 1)
      /\ \A k \in i..(j - 1) : chars[k] \in ASCII_DIGITS
      /\ CharAt(j) \notin ASCII_DIGITS
  BY <1>2, <1>3
<1> QED
  BY <1>4 DEF digits

LEMMA InitTypes == LexInit => LexType /\ StringInv /\ KindInv
BY CharsAssumption DEF LexInit, LexType, Text, StringInv, KindInv, Modes

LEMMA NextTypes == LexType /\ [LexStep]_lexVars => LexType'
<1> SUFFICES ASSUME LexType, [LexStep]_lexVars
             PROVE  LexType'
  OBVIOUS
<1> USE DEF LexType, Modes, LexEnded
<1>1. CASE UNCHANGED lexVars
  BY <1>1 DEF lexVars, Text
<1>2. ASSUME NEW m \in Modes, NEW i \in 1..(Len(chars) + 1), Goto(m, i)
      PROVE  LexType'
  BY <1>2 DEF Goto, Text
<1>3. ASSUME NEW c \in Nat, NEW w \in Nat, at + w <= Len(chars) + 1, Emit(c, w)
      PROVE  LexType'
  BY <1>3 DEF Emit, Text
<1>4. ASSUME ParseError
      PROVE  LexType'
  BY <1>2, <1>4 DEF ParseError
<1>5. ASSUME NEW s \in Literals, StartsWith(s)
      PROVE  Len(s) + 1 \in 1..(Len(chars) + 1)
  BY <1>5 DEF Literals, StartsWith, Text
<1>6. CharAt(1) # 0 => 1 <= Len(chars)
  BY DEF CharAt
<1>7. CASE StartString
  BY <1>2, <1>6, <1>7 DEF StartString, QUOTE, Text
<1>8. CASE StartNumber
  BY <1>2, <1>6, <1>8 DEF StartNumber, MINUS, isdigit, ASCII_DIGITS, Text
<1>9. CASE Literal
  BY <1>2, <1>5, <1>9 DEF Literal
<1>10. CASE NoLexeme \/ Unterminated \/ ControlCharacter \/ InvalidEscape
  BY <1>4, <1>10 DEF NoLexeme, Unterminated, ControlCharacter, InvalidEscape
<1>11. CASE EndString
  BY <1>2, <1>11 DEF EndString, InString, Text
<1>12. CASE Escape
  <2>1. at + 1 <= Len(chars)
    BY <1>12 DEF Escape, InString, CharAt, ESC, Text
  <2>2. ESC[CharAt(at + 1)] \in Nat
    BY <1>12 DEF Escape, ESC
  <2> QED
    BY <1>3, <1>12, <2>1, <2>2 DEF Escape, Text
<1>13. CASE UnicodeEscape
  <2>1. at + 5 <= Len(chars)
    BY <1>13 DEF UnicodeEscape, FourHex, Text
  <2>2. CodeUnit(at + 2) \in Nat
    <3>1. \A c : isHex(c) => HexDigit(c) \in Nat
      BY DEF isHex, HexDigit
    <3>2. \A k \in (at + 2)..((at + 2) + 3) : HexDigit(chars[k]) \in Nat
      BY <1>13, <3>1 DEF UnicodeEscape, FourHex
    <3>3. /\ HexDigit(chars[at + 2]) \in Nat /\ HexDigit(chars[(at + 2) + 1]) \in Nat
          /\ HexDigit(chars[(at + 2) + 2]) \in Nat /\ HexDigit(chars[(at + 2) + 3]) \in Nat
      BY <3>2
    <3>4. \A a, b, c, d \in Nat : 4096 * a + 256 * b + 16 * c + d \in Nat
      OBVIOUS
    <3> DEFINE a == HexDigit(chars[at + 2])
               b == HexDigit(chars[(at + 2) + 1])
               c == HexDigit(chars[(at + 2) + 2])
               d == HexDigit(chars[(at + 2) + 3])
    <3>5. CodeUnit(at + 2) = 4096 * a + 256 * b + 16 * c + d
      BY Zenon DEF CodeUnit
    <3>6. a \in Nat /\ b \in Nat /\ c \in Nat /\ d \in Nat
      BY <3>3
    <3> HIDE DEF a, b, c, d
    <3> QED
      BY <3>4, <3>5, <3>6
  <2>3. at + 6 <= Len(chars) + 1 /\ Emit(CodeUnit(at + 2), 6)
    BY <1>13, <2>1 DEF UnicodeEscape, Text
  <2> QED
    BY <1>3, <2>2, <2>3
<1>14. CASE PlainCharacter
  BY <1>3, <1>14 DEF PlainCharacter, InString, Text
<1>15. CASE ReadInteger
  <2>1. CharAt(at) = 48 => at + 1 \in 1..(Len(chars) + 1)
    BY DEF CharAt, Text
  <2> QED
    BY <1>2, <1>4, <1>15, <2>1, DigitsEnd DEF ReadInteger
<1>16. CASE ReadFraction
  <2>1. CharAt(at) = DOT => at + 1 \in 1..(Len(chars) + 1)
    BY DEF CharAt, DOT, Text
  <2>2. CharAt(at) = DOT => digits(at + 1) \in 1..(Len(chars) + 1)
    BY <2>1, DigitsEnd DEF Text
  <2> QED
    BY <1>2, <1>4, <1>16, <2>2 DEF ReadFraction
<1>17. CASE ReadExponent
  <2> DEFINE first == IF CharAt(at + 1) \in {PLUS, MINUS} THEN at + 2 ELSE at + 1
  <2>1. CharAt(at) \in {69, 101} => first \in 1..(Len(chars) + 1)
    BY DEF CharAt, PLUS, MINUS, Text
  <2>2. CharAt(at) \in {69, 101} => digits(first) \in 1..(Len(chars) + 1)
    <3> HIDE DEF first
    <3> QED
      BY <2>1, DigitsEnd DEF Text
  <2> QED
    BY <1>2, <1>4, <1>17, <2>2 DEF ReadExponent
<1> QED
  BY <1>1, <1>7, <1>8, <1>9, <1>10, <1>11, <1>12, <1>13, <1>14, <1>15, <1>16, <1>17 DEF LexStep

\* Every step goes on with the same text.
LEMMA SameText == [LexStep]_lexVars => chars' = chars
BY DEF LexStep, lexVars, StartString, StartNumber, Literal, NoLexeme, Unterminated, EndString,
       ControlCharacter, Escape, UnicodeEscape, InvalidEscape, PlainCharacter, ReadInteger,
       ReadFraction, ReadExponent, Goto, ParseError, Emit

LEMMA NextKind == LexType /\ KindInv /\ [LexStep]_lexVars => KindInv'
<1> SUFFICES ASSUME LexType, KindInv, [LexStep]_lexVars
             PROVE  KindInv'
  OBVIOUS
<1>1. NumberBegun => NumberBegun'
  BY SameText DEF NumberBegun, CharAt
<1>2. mode' \in {"integer", "fraction", "exponent", "number_read"} => NumberBegun
  BY DEF LexType, KindInv, NumberBegun, LexStep, lexVars, StartString, StartNumber, Literal,
         NoLexeme, Unterminated, EndString, ControlCharacter, Escape, UnicodeEscape, InString,
         InvalidEscape, PlainCharacter, ReadInteger, ReadFraction, ReadExponent, Goto,
         ParseError, Emit
<1> QED
  BY <1>1, <1>2 DEF KindInv

\* What the steps in a string read of it.
LEMMA StringStep ==
  ASSUME LexType, StringInv, LexStep, mode = "string"
  PROVE  \/ /\ mode' = "string" /\ StringSoFar(at') /\ Rest(at, at') /\ at < at'
            /\ out' = Append(out, UnitAt(at))
         \/ mode' = "string_read" /\ at' = at + 1 /\ out' = out /\ ValidString(at)
         \/ mode' = "parse_error" /\ \A n \in 1..Len(chars) : ~ ValidString(n)
<1>1. Text /\ StringSoFar(at) /\ at \in 1..(Len(chars) + 1) /\ Len(chars) \in Nat
  BY DEF LexType, Text, StringInv
<1> USE DEF InString
<1>2. CASE EndString
  BY <1>1, <1>2, AtQuote DEF EndString, Goto
<1>3. CASE Unterminated
  BY <1>1, <1>3, NoWayOn DEF Unterminated, ParseError, Goto
<1>4. CASE ControlCharacter
  BY <1>1, <1>4, NoWayOn DEF ControlCharacter, ParseError, Goto
<1>5. CASE InvalidEscape
  BY <1>1, <1>5, NoWayOn DEF InvalidEscape, ParseError, Goto
<1>6. CASE PlainCharacter
  <2>1. /\ at' = at + 1 /\ mode' = mode /\ out' = Append(out, chars[at])
        /\ at <= Len(chars) /\ chars[at] >= 32 /\ chars[at] \notin {QUOTE, BACKSLASH}
    BY <1>6 DEF PlainCharacter, Emit
  <2>2. StringSoFar(at + 1) /\ Rest(at, at + 1)
    BY <1>1, <2>1, AfterPlain
  <2>3. UnitAt(at) = chars[at]
    BY <2>1 DEF UnitAt
  <2> QED
    BY <1>1, <2>1, <2>2, <2>3
<1>7. CASE Escape
  <2>1. /\ at < Len(chars) /\ CharAt(at + 1) = chars[at + 1]
        /\ chars[at] = BACKSLASH /\ chars[at + 1] \in DOMAIN ESC
    BY <1>1, <1>7 DEF Escape, CharAt, ESC
  <2>2. at' = at + 2 /\ mode' = mode /\ out' = Append(out, ESC[chars[at + 1]])
    BY <1>7, <2>1 DEF Escape, Emit
  <2>3. StringSoFar(at + 2) /\ Rest(at, at + 2)
    BY <1>1, <2>1, AfterEscape
  <2>4. UnitAt(at) = ESC[chars[at + 1]]
    <3>1. chars[at + 1] # LETTER_U
      BY <2>1 DEF ESC, LETTER_U
    <3> QED
      BY <2>1, <3>1 DEF UnitAt
  <2> QED
    BY <1>1, <2>2, <2>3, <2>4
<1>8. CASE UnicodeEscape
  <2>1. /\ at < Len(chars) /\ CharAt(at + 1) = chars[at + 1]
        /\ chars[at] = BACKSLASH /\ chars[at + 1] = LETTER_U /\ FourHex(at + 2)
    BY <1>1, <1>8 DEF UnicodeEscape, CharAt, LETTER_U
  <2>2. at' = at + 6 /\ mode' = mode /\ out' = Append(out, CodeUnit(at + 2))
    BY <1>8 DEF UnicodeEscape, Emit
  <2>3. StringSoFar(at + 6) /\ Rest(at, at + 6)
    BY <1>1, <2>1, AfterUnicode
  <2>4. UnitAt(at) = CodeUnit(at + 2)
    BY <2>1 DEF UnitAt
  <2> QED
    BY <1>1, <2>2, <2>3, <2>4
<1> QED
  BY <1>2, <1>3, <1>4, <1>5, <1>6, <1>7, <1>8
     DEF LexStep, StartString, StartNumber, Literal, NoLexeme, ReadInteger, ReadFraction,
         ReadExponent

\* What the first step in a text finds.
LEMMA FirstStep ==
  ASSUME LexType, LexStep, mode = "value"
  PROVE  \/ mode' = "string" /\ at' = 2 /\ StringSoFar(2) /\ out' = out
         \/ mode' = "integer" /\ NumberBegun /\ at' = IF CharAt(1) = MINUS THEN 2 ELSE 1
         \/ mode' = "literal"
         \/ mode' = "parse_error" /\ CharAt(1) # QUOTE /\ ~ NumberBegun
<1>1. CASE StartString
  <2>1. 2 \in 2..(Len(chars) + 1) /\ chars[1] = QUOTE
    BY <1>1 DEF StartString, CharAt, QUOTE, LexType, Text
  <2>2. StringSoFar(2)
    BY <2>1, EscapedNext DEF StringSoFar, InHexDigits
  <2> QED
    BY <1>1, <2>2 DEF StartString, Goto
<1>2. CASE StartNumber
  BY <1>2 DEF StartNumber, NumberBegun, Goto
<1>3. CASE Literal
  BY <1>3 DEF Literal, Goto
<1>4. CASE NoLexeme
  BY <1>4 DEF NoLexeme, NumberBegun, ParseError, Goto
<1> QED
  BY <1>1, <1>2, <1>3, <1>4
     DEF LexStep, Unterminated, EndString, InString, ControlCharacter, Escape, UnicodeEscape,
         InvalidEscape, PlainCharacter, ReadInteger, ReadFraction, ReadExponent

\* The steps of a number stay in it or end it.
LEMMA NumberStep ==
  ASSUME LexStep, mode \notin {"value", "string"}
  PROVE  /\ ReadInteger \/ ReadFraction \/ ReadExponent
         /\ mode \in {"integer", "fraction", "exponent"}
         /\ mode' \in {"fraction", "exponent", "number_read", "parse_error"}
BY DEF LexStep, StartString, StartNumber, Literal, NoLexeme, Unterminated, EndString, InString,
       ControlCharacter, Escape, UnicodeEscape, InvalidEscape, PlainCharacter, ReadInteger,
       ReadFraction, ReadExponent, ParseError, Goto

LEMMA NextString ==
  LexType /\ KindInv /\ StringInv /\ StringIsExact /\ [LexStep]_lexVars
    => (StringInv /\ StringIsExact)'
<1> SUFFICES ASSUME LexType, KindInv, StringInv, StringIsExact, [LexStep]_lexVars
             PROVE  (StringInv /\ StringIsExact)'
  OBVIOUS
<1> DEFINE Kept == /\ mode' = "string" => StringSoFar(at')
                   /\ mode' = "string_read" => ValidString(at' - 1)
                   /\ mode' = "parse_error" /\ CharAt(1) = QUOTE
                        => \A n \in 1..Len(chars) : ~ ValidString(n)
<1>1. Kept
  <2>1. CASE UNCHANGED lexVars
    BY <2>1 DEF lexVars, StringInv, StringIsExact
  <2>2. CASE LexStep /\ mode = "value"
    BY <2>2, FirstStep
  <2>3. CASE LexStep /\ mode = "string"
    <3>1. at \in Nat
      BY DEF LexType
    <3>2. mode' = "string_read" /\ at' = at + 1 => at' - 1 = at
      BY <3>1
    <3> QED
      BY <2>3, <3>2, StringStep
  <2>4. CASE LexStep /\ mode \notin {"value", "string"}
    <3>1. CharAt(1) # QUOTE
      BY <2>4, NumberStep DEF KindInv, NumberBegun, isdigit, ASCII_DIGITS, MINUS, QUOTE
    <3> QED
      BY <2>4, <3>1, NumberStep
  <2> QED
    BY <2>1, <2>2, <2>3, <2>4
<1>2. chars' = chars
  BY SameText
<1>3. StringInv'
  BY <1>1, <1>2 DEF StringInv, StringSoFar, Closes, Escaped, ValidEscape, FourHex, InHexDigits
<1>4. StringIsExact'
  BY <1>1, <1>2 DEF StringIsExact, ValidString, Closes, Escaped, ValidEscape, FourHex, CharAt
<1> QED
  BY <1>3, <1>4

\* A string is read exactly when the text starts with one, to its closing quote: the
\* scanner looks at one character and the next, the rule at runs of backslashes.
THEOREM StringExact == LexSpec => []StringIsExact
<1>1. LexInit => LexType /\ StringInv /\ KindInv /\ StringIsExact
  BY InitTypes DEF LexInit, StringIsExact
<1>2. LexType /\ StringInv /\ KindInv /\ StringIsExact /\ [LexStep]_lexVars
        => (LexType /\ StringInv /\ KindInv /\ StringIsExact)'
  BY NextTypes, NextKind, NextString
<1> QED
  BY <1>1, <1>2, PTL DEF LexSpec

---------------------------------------------------------------------------
(* Numbers.                                                                *)

LEMMA DigitsAreNoSigns == \A c \in ASCII_DIGITS : c \notin {DOT, PLUS, MINUS, 69, 101}
BY DEF ASCII_DIGITS, DOT, PLUS, MINUS

\* The first f characters are a number without exponent.
Mantissa(f) ==
  \E first \in {1, 2}, i \in 1..f :
    /\ first = 2 <=> chars[1] = MINUS
    /\ Integer(first, i)
    /\ f = i \/ (chars[i + 1] = DOT /\ DigitRun(i + 2, f))

\* The integer ends before position e, and so does every other.
IntegerSoFar(e) ==
  /\ e - 1 \in 1..Len(chars)
  /\ \E first \in {1, 2} : (first = 2 <=> chars[1] = MINUS) /\ Integer(first, e - 1)
  /\ \A first \in {1, 2}, i \in 1..Len(chars) :
       (first = 2 <=> chars[1] = MINUS) /\ Integer(first, i) =>
         /\ i <= e - 1
         /\ i < e - 1 => chars[i + 1] \in ASCII_DIGITS

\* The mantissa ends before position e, and so does every other.
MantissaSoFar(e) ==
  /\ e - 1 \in 1..Len(chars)
  /\ Mantissa(e - 1)
  /\ \A f \in 1..Len(chars) :
       Mantissa(f) => f <= e - 1 /\ (f < e - 1 => chars[f + 1] \notin {69, 101})

\* A number is a mantissa, with or without an exponent.
LEMMA NumberIs ==
  ASSUME NEW n \in Nat
  PROVE  ValidNumber(n) <=> \E f \in 1..n : Mantissa(f) /\ (n = f \/ Exponent(f + 1, n))
BY DEF ValidNumber, Mantissa

\* A number starts with a minus or a digit.
LEMMA NumberStarts ==
  ASSUME LexType, NEW n \in 1..Len(chars), ValidNumber(n)
  PROVE  NumberBegun
<1>1. PICK first \in {1, 2}, i \in 1..n : (first = 2 <=> chars[1] = MINUS) /\ Integer(first, i)
  BY DEF ValidNumber
<1>2. CharAt(1) = chars[1]
  BY DEF CharAt, LexType, Text
<1>3. CASE first = 1
  BY <1>1, <1>2, <1>3 DEF Integer, DigitRun, NumberBegun, isdigit
<1> QED
  BY <1>1, <1>2, <1>3 DEF NumberBegun

NumberInv ==
  /\ mode = "integer" => NumberBegun /\ at = IF CharAt(1) = MINUS THEN 2 ELSE 1
  /\ mode = "fraction" => IntegerSoFar(at)
  /\ mode = "exponent" => MantissaSoFar(at)

\* What NumberIsExact says of the two ends.
LongestRead(e) ==
  /\ ValidNumber(e - 1)
  /\ \A n \in e..Len(chars) : ~ ValidNumber(n)

NoLongerNumber ==
  \A n \in 1..Len(chars) :
    \/ ~ ValidNumber(n)
    \/ CharAt(n + 1) \in {DOT, 69, 101}
    \/ \E longer \in (n + 1)..Len(chars) : ValidNumber(longer)

LEMMA IntegerStep ==
  ASSUME LexType, NumberInv, ReadInteger
  PROVE  \/ mode' = "fraction" /\ IntegerSoFar(at')
         \/ mode' = "parse_error" /\ NoLongerNumber
<1> DEFINE L == Len(chars)
           first == IF CharAt(1) = MINUS THEN 2 ELSE 1
<1>1. at = first /\ NumberBegun /\ Text /\ L \in Nat /\ at \in 1..(L + 1)
  BY DEF ReadInteger, NumberInv, LexType, Text
<1>2. L >= 1 /\ CharAt(1) = chars[1]
  BY <1>1 DEF NumberBegun, CharAt, MINUS, isdigit, ASCII_DIGITS
<1>3. \A x \in {1, 2} : (x = 2 <=> chars[1] = MINUS) <=> x = at
  BY <1>1, <1>2
<1>4. /\ digits(at) \in at..(L + 1)
      /\ \A k \in at..(digits(at) - 1) : chars[k] \in ASCII_DIGITS
      /\ CharAt(digits(at)) \notin ASCII_DIGITS
  BY <1>1, DigitsEnd
<1>5. CASE CharAt(at) = 48 /\ Goto("fraction", at + 1)
  <2>1. at <= L /\ chars[at] = 48 /\ (at + 1) - 1 = at
    BY <1>1, <1>5 DEF CharAt
  <2>2. Integer(at, at) /\ \A i \in 1..L : Integer(at, i) => i = at
    BY <1>1, <2>1 DEF Integer, DigitRun, ASCII_DIGITS
  <2>3. IntegerSoFar(at + 1)
    BY <1>1, <1>3, <2>1, <2>2 DEF IntegerSoFar
  <2> QED
    BY <1>5, <2>3 DEF Goto
<1>6. CASE CharAt(at) # 48 /\ digits(at) > at /\ Goto("fraction", digits(at))
  <2> DEFINE e == digits(at)
  <2>1. e \in (at + 1)..(L + 1) /\ e - 1 \in 1..L /\ at <= e - 1 /\ at <= L /\ chars[at] = CharAt(at)
    BY <1>1, <1>4, <1>6 DEF CharAt
  <2>2. Integer(at, e - 1)
    BY <1>4, <1>6, <2>1 DEF Integer, DigitRun
  <2>3. ASSUME NEW i \in 1..L, Integer(at, i)
        PROVE  i <= e - 1 /\ (i < e - 1 => chars[i + 1] \in ASCII_DIGITS)
    <3>1. at <= i /\ \A k \in at..i : chars[k] \in ASCII_DIGITS
      BY <2>3 DEF Integer, DigitRun
    <3>2. ~ (e <= i)
      <4>1. e <= i => e \in at..i /\ CharAt(e) = chars[e]
        BY <1>1, <2>1 DEF CharAt
      <4> QED
        BY <4>1, <3>1, <1>4
    <3>3. i < e - 1 => i + 1 \in at..(e - 1)
      BY <1>1, <2>1, <3>1
    <3> QED
      BY <1>1, <1>4, <2>1, <3>2, <3>3
  <2>4. IntegerSoFar(e)
    <3> HIDE DEF e
    <3> QED
      BY <1>1, <1>3, <2>1, <2>2, <2>3 DEF IntegerSoFar
  <2> QED
    BY <1>6, <2>4 DEF Goto
<1>7. CASE digits(at) = at /\ ParseError
  <2>1. \A i \in 1..L : ~ Integer(at, i)
    <3> SUFFICES ASSUME NEW i \in 1..L, Integer(at, i)
                 PROVE  FALSE
      OBVIOUS
    <3>1. at \in at..i /\ at <= L /\ chars[at] \in ASCII_DIGITS
      BY <1>1 DEF Integer, DigitRun
    <3> QED
      BY <1>4, <1>7, <3>1 DEF CharAt
  <2>2. \A n \in 1..L : ~ ValidNumber(n)
    BY <1>1, <1>3, <2>1 DEF ValidNumber
  <2> QED
    BY <1>7, <2>2 DEF ParseError, Goto, NoLongerNumber
<1> QED
  BY <1>5, <1>6, <1>7 DEF ReadInteger

\* The mantissas of a text whose integer ends before e, and has no fraction.
LEMMA NoFraction ==
  ASSUME LexType, NEW e \in Nat, IntegerSoFar(e),
         \A f \in 1..Len(chars) : ~ (chars[e] = DOT /\ DigitRun(e + 1, f))
  PROVE  MantissaSoFar(e)
<1> DEFINE L == Len(chars)
<1>1. L \in Nat /\ e - 1 \in 1..L /\ (e - 1) + 1 = e /\ (e - 1) + 2 = e + 1
  BY DEF LexType, Text, IntegerSoFar
<1>2. Mantissa(e - 1)
  BY <1>1 DEF IntegerSoFar, Mantissa
<1>3. ASSUME NEW f \in 1..L, Mantissa(f)
      PROVE  f <= e - 1 /\ (f < e - 1 => chars[f + 1] \notin {69, 101})
  <2>1. PICK x \in {1, 2}, i \in 1..f :
          /\ x = 2 <=> chars[1] = MINUS
          /\ Integer(x, i)
          /\ f = i \/ (chars[i + 1] = DOT /\ DigitRun(i + 2, f))
    BY <1>3 DEF Mantissa
  <2>2. i \in 1..L /\ i <= e - 1 /\ (i < e - 1 => chars[i + 1] \in ASCII_DIGITS)
    BY <1>1, <2>1 DEF IntegerSoFar
  <2>3. f = i
    <3>1. CASE i < e - 1
      BY <2>1, <2>2, <3>1, DigitsAreNoSigns
    <3>2. CASE i = e - 1
      BY <1>1, <2>1, <3>2
    <3> QED
      BY <1>1, <2>2, <3>1, <3>2
  <2> QED
    BY <2>2, <2>3, DigitsAreNoSigns
<1> QED
  BY <1>1, <1>2, <1>3 DEF MantissaSoFar

LEMMA FractionStep ==
  ASSUME LexType, NumberInv, ReadFraction
  PROVE  \/ mode' = "exponent" /\ MantissaSoFar(at')
         \/ mode' = "parse_error" /\ NoLongerNumber
<1> DEFINE L == Len(chars)
<1>1. IntegerSoFar(at) /\ L \in Nat /\ at \in 1..(L + 1) /\ at - 1 \in 1..L
      /\ (at - 1) + 1 = at /\ (at - 1) + 2 = at + 1
  BY DEF ReadFraction, NumberInv, LexType, Text, IntegerSoFar
<1>2. CASE CharAt(at) # DOT /\ Goto("exponent", at)
  <2>1. ASSUME NEW f \in 1..L, chars[at] = DOT, DigitRun(at + 1, f)
        PROVE  FALSE
    BY <1>1, <1>2, <2>1 DEF CharAt, DigitRun
  <2>2. MantissaSoFar(at)
    BY <1>1, <2>1, NoFraction
  <2> QED
    BY <1>2, <2>2 DEF Goto
<1>3. CASE CharAt(at) = DOT
  <2>1. at <= L /\ chars[at] = DOT /\ at + 1 \in 1..(L + 1)
    BY <1>1, <1>3 DEF CharAt, DOT
  <2> DEFINE e == digits(at + 1)
  <2>2. /\ e \in (at + 1)..(L + 1)
        /\ \A k \in (at + 1)..(e - 1) : chars[k] \in ASCII_DIGITS
        /\ CharAt(e) \notin ASCII_DIGITS
    BY <2>1, DigitsEnd DEF LexType
  <2> HIDE DEF e
  <2>3. CASE e = at + 1
    <3>1. ASSUME NEW f \in 1..L, DigitRun(at + 1, f)
          PROVE  FALSE
      <4>1. at + 1 \in (at + 1)..f /\ at + 1 <= L /\ chars[at + 1] \in ASCII_DIGITS
        BY <1>1, <3>1 DEF DigitRun
      <4> QED
        BY <2>2, <2>3, <4>1 DEF CharAt
    <3>2. MantissaSoFar(at)
      BY <1>1, <3>1, NoFraction
    <3>3. ValidNumber(at - 1)
      BY <1>1, <3>2, NumberIs DEF MantissaSoFar
    <3>4. ASSUME NEW n \in 1..L, ValidNumber(n)
          PROVE  n = at - 1 \/ n < at - 1
      <4>1. PICK f \in 1..n : Mantissa(f) /\ (n = f \/ Exponent(f + 1, n))
        BY <3>4, NumberIs
      <4>2. f <= at - 1 /\ (f < at - 1 => chars[f + 1] \notin {69, 101})
        BY <3>2, <4>1 DEF MantissaSoFar
      <4>3. f = at - 1 => chars[f + 1] \notin {69, 101}
        BY <1>1, <2>1 DEF DOT
      <4>4. ~ Exponent(f + 1, n)
        BY <1>1, <4>2, <4>3 DEF Exponent
      <4> QED
        BY <1>1, <4>1, <4>2, <4>4
    <3>5. NoLongerNumber
      <4> SUFFICES ASSUME NEW n \in 1..L, ValidNumber(n)
                   PROVE  \/ CharAt(n + 1) \in {DOT, 69, 101}
                          \/ \E longer \in (n + 1)..L : ValidNumber(longer)
        BY DEF NoLongerNumber
      <4>1. CASE n = at - 1
        BY <1>1, <1>3, <4>1
      <4>2. CASE n < at - 1
        <5>1. at - 1 \in (n + 1)..L
          BY <1>1, <4>2
        <5> QED
          BY <3>3, <5>1
      <4> QED
        BY <3>4, <4>1, <4>2
    <3> QED
      BY <1>3, <2>3, <3>5 DEF ReadFraction, ParseError, Goto, e
  <2>4. CASE e # at + 1
    <3>1. e - 1 \in 1..L /\ at + 1 <= e - 1
      BY <1>1, <2>2, <2>4
    <3>2. Mantissa(e - 1)
      <4>1. PICK x \in {1, 2} : (x = 2 <=> chars[1] = MINUS) /\ Integer(x, at - 1)
        BY <1>1 DEF IntegerSoFar
      <4>2. DigitRun(at + 1, e - 1)
        BY <2>2, <3>1 DEF DigitRun
      <4>3. at - 1 \in 1..(e - 1)
        BY <1>1, <3>1
      <4> QED
        BY <1>1, <2>1, <4>1, <4>2, <4>3 DEF Mantissa
    <3>3. ASSUME NEW f \in 1..L, Mantissa(f)
          PROVE  f <= e - 1 /\ (f < e - 1 => chars[f + 1] \notin {69, 101})
      <4>1. PICK x \in {1, 2}, i \in 1..f :
              /\ x = 2 <=> chars[1] = MINUS
              /\ Integer(x, i)
              /\ f = i \/ (chars[i + 1] = DOT /\ DigitRun(i + 2, f))
        BY <3>3 DEF Mantissa
      <4>2. i \in 1..L /\ i <= at - 1 /\ (i < at - 1 => chars[i + 1] \in ASCII_DIGITS)
        BY <1>1, <4>1 DEF IntegerSoFar
      <4>3. CASE f = i
        <5>1. f = at - 1 => chars[f + 1] \notin {69, 101}
          BY <1>1, <2>1 DEF DOT
        <5>2. f < at - 1 => chars[f + 1] \notin {69, 101}
          BY <4>2, <4>3, DigitsAreNoSigns
        <5>3. f <= at - 1 /\ at - 1 <= e - 1 /\ (f = at - 1 \/ f < at - 1)
          BY <1>1, <2>2, <4>2, <4>3
        <5> QED
          BY <1>1, <2>2, <5>1, <5>2, <5>3
      <4>4. CASE f # i
        <5>1. i = at - 1
          BY <1>1, <4>1, <4>2, <4>4, DigitsAreNoSigns
        <5>2. at + 1 <= f /\ \A k \in (at + 1)..f : chars[k] \in ASCII_DIGITS
          BY <1>1, <4>1, <4>4, <5>1 DEF DigitRun
        <5>3. ~ (e <= f)
          <6>1. e <= f => e \in (at + 1)..f /\ CharAt(e) = chars[e]
            BY <1>1, <2>2 DEF CharAt
          <6> QED
            BY <6>1, <5>2, <2>2
        <5>4. f < e - 1 => chars[f + 1] \in ASCII_DIGITS
          <6>1. f < e - 1 => f + 1 \in (at + 1)..(e - 1)
            BY <1>1, <2>2, <5>2
          <6> QED
            BY <6>1, <2>2
        <5>5. f < e - 1 => chars[f + 1] \notin {69, 101}
          BY <5>4, DigitsAreNoSigns
        <5>6. f \in Int /\ e \in Int
          BY <1>1, <2>2
        <5> QED
          BY <5>3, <5>5, <5>6
      <4> QED
        BY <4>3, <4>4
    <3>4. MantissaSoFar(e)
      BY <3>1, <3>2, <3>3 DEF MantissaSoFar
    <3> QED
      BY <1>3, <2>4, <3>4 DEF ReadFraction, Goto, e
  <2> QED
    BY <2>3, <2>4
<1> QED
  BY <1>2, <1>3 DEF ReadFraction

LEMMA ExponentStep ==
  ASSUME LexType, NumberInv, ReadExponent
  PROVE  \/ mode' = "number_read" /\ LongestRead(at')
         \/ mode' = "parse_error" /\ NoLongerNumber
<1> DEFINE L == Len(chars)
           first == IF CharAt(at + 1) \in {PLUS, MINUS} THEN at + 2 ELSE at + 1
           e == digits(first)
<1>1. MantissaSoFar(at) /\ L \in Nat /\ at \in 1..(L + 1) /\ at - 1 \in 1..L /\ (at - 1) + 1 = at
  BY DEF ReadExponent, NumberInv, LexType, Text, MantissaSoFar
<1>2. ValidNumber(at - 1)
  BY <1>1, NumberIs DEF MantissaSoFar
\* Whatever number there is ends before at, or has its exponent there.
<1>3. ASSUME NEW n \in 1..L, ValidNumber(n)
      PROVE  n <= at - 1 \/ (at <= L /\ n >= at /\ Exponent(at, n))
  <2>1. PICK f \in 1..n : Mantissa(f) /\ (n = f \/ Exponent(f + 1, n))
    BY <1>3, NumberIs
  <2>2. f <= at - 1 /\ (f < at - 1 => chars[f + 1] \notin {69, 101})
    BY <1>1, <2>1 DEF MantissaSoFar
  <2>3. CASE n # f
    <3>1. f + 1 < n /\ chars[f + 1] \in {69, 101}
      BY <2>1, <2>3 DEF Exponent
    <3>2. f + 1 = at
      BY <1>1, <2>2, <3>1
    <3> QED
      BY <1>1, <2>1, <2>3, <3>1, <3>2
  <2> QED
    BY <1>1, <2>2, <2>3
<1>4. CASE CharAt(at) \notin {69, 101} /\ Goto("number_read", at)
  <2>1. ASSUME NEW n \in at..L, ValidNumber(n)
        PROVE  FALSE
    <3>1. n \in 1..L /\ ~ (n <= at - 1)
      BY <1>1
    <3>2. at <= L /\ chars[at] \in {69, 101}
      BY <1>3, <2>1, <3>1 DEF Exponent
    <3> QED
      BY <1>4, <3>2 DEF CharAt
  <2> QED
    BY <1>2, <1>4, <2>1 DEF Goto, LongestRead
<1>5. CASE CharAt(at) \in {69, 101}
  <2>1. at <= L /\ chars[at] \in {69, 101}
    BY <1>1, <1>5 DEF CharAt
  <2>2. first \in (at + 1)..(at + 2) /\ first \in 1..(L + 1)
    BY <1>1, <2>1 DEF CharAt, PLUS, MINUS
  <2>3. /\ e \in first..(L + 1)
        /\ \A k \in first..(e - 1) : chars[k] \in ASCII_DIGITS
        /\ CharAt(e) \notin ASCII_DIGITS
    <3> HIDE DEF first
    <3> QED
      BY <2>2, DigitsEnd DEF LexType
  \* An exponent has its digits between first and e.
  <2>4. ASSUME NEW n \in 1..L, n >= at, Exponent(at, n)
        PROVE  n < e /\ first < e
    <3>1. at < n /\ at + 1 <= L /\ CharAt(at + 1) = chars[at + 1]
      BY <1>1, <2>4 DEF Exponent, CharAt
    <3>2. DigitRun(first, n)
      <4>1. CASE CharAt(at + 1) \in {PLUS, MINUS}
        <5>1. ~ DigitRun(at + 1, n)
          BY <1>1, <3>1, <4>1, DigitsAreNoSigns DEF DigitRun
        <5> QED
          BY <2>4, <4>1, <5>1 DEF Exponent
      <4>2. CASE CharAt(at + 1) \notin {PLUS, MINUS}
        BY <2>4, <3>1, <4>2 DEF Exponent
      <4> QED
        BY <4>1, <4>2
    <3> HIDE DEF first, e
    <3>3. first <= n /\ \A k \in first..n : chars[k] \in ASCII_DIGITS
      BY <3>2 DEF DigitRun
    <3>4. ~ (e <= n)
      <4>1. e <= n => e \in first..n /\ CharAt(e) = chars[e]
        BY <1>1, <2>2, <2>3 DEF CharAt
      <4> QED
        BY <4>1, <3>3, <2>3
    <3> QED
      BY <1>1, <2>2, <2>3, <3>3, <3>4
  <2>5. CASE e = first
    <3>1. ASSUME NEW n \in 1..L, ValidNumber(n)
          PROVE  n = at - 1 \/ n < at - 1
      <4>1. ~ (at <= L /\ n >= at /\ Exponent(at, n))
        BY <2>2, <2>4, <2>5
      <4> QED
        BY <1>1, <1>3, <3>1, <4>1
    <3>2. NoLongerNumber
      <4> SUFFICES ASSUME NEW n \in 1..L, ValidNumber(n)
                   PROVE  \/ CharAt(n + 1) \in {DOT, 69, 101}
                          \/ \E longer \in (n + 1)..L : ValidNumber(longer)
        BY DEF NoLongerNumber
      <4>1. CASE n = at - 1
        BY <1>1, <1>5, <4>1
      <4>2. CASE n < at - 1
        <5>1. at - 1 \in (n + 1)..L
          BY <1>1, <4>2
        <5> QED
          BY <1>2, <5>1
      <4> QED
        BY <3>1, <4>1, <4>2
    <3> QED
      BY <1>5, <2>5, <3>2 DEF ReadExponent, ParseError, Goto
  <2>6. CASE e # first
    <3>1. e - 1 \in 1..L /\ first <= e - 1 /\ at < e - 1
      <4> HIDE DEF first, e
      <4> QED
        BY <1>1, <2>2, <2>3, <2>6
    <3>2. Exponent(at, e - 1)
      <4>1. DigitRun(first, e - 1)
        <5> HIDE DEF first, e
        <5> QED
          BY <2>3, <3>1 DEF DigitRun
      <4>2. CASE CharAt(at + 1) \in {PLUS, MINUS}
        <5>1. chars[at + 1] = CharAt(at + 1)
          BY <1>1, <3>1 DEF CharAt
        <5>2. first = at + 2
          BY <4>2
        <5> HIDE DEF first, e
        <5> QED
          BY <2>1, <3>1, <4>1, <4>2, <5>1, <5>2 DEF Exponent
      <4>3. CASE CharAt(at + 1) \notin {PLUS, MINUS}
        <5>1. first = at + 1
          BY <4>3
        <5> HIDE DEF first, e
        <5> QED
          BY <2>1, <3>1, <4>1, <5>1 DEF Exponent
      <4> QED
        BY <4>2, <4>3
    <3>3. ValidNumber(e - 1)
      <4> HIDE DEF first, e
      <4>1. e - 1 \in Nat /\ at - 1 \in 1..(e - 1)
        BY <1>1, <3>1
      <4> QED
        BY <1>1, <3>2, <4>1, NumberIs DEF MantissaSoFar
    <3>4. ASSUME NEW n \in e..L, ValidNumber(n)
          PROVE  FALSE
      <4> HIDE DEF first, e
      <4>1. n \in 1..L /\ ~ (n <= at - 1) /\ ~ (n < e)
        BY <1>1, <2>3, <3>1
      <4> QED
        BY <1>3, <2>4, <3>4, <4>1
    <3>5. LongestRead(e)
      <4> HIDE DEF e
      <4> QED
        BY <3>3, <3>4 DEF LongestRead
    <3> QED
      BY <1>5, <2>6, <3>5 DEF ReadExponent, Goto
  <2> QED
    BY <2>5, <2>6
<1> QED
  BY <1>4, <1>5 DEF ReadExponent

LEMMA NextNumber ==
  LexType /\ KindInv /\ StringInv /\ NumberInv /\ NumberIsExact /\ [LexStep]_lexVars
    => (NumberInv /\ NumberIsExact)'
<1> SUFFICES ASSUME LexType, KindInv, StringInv, NumberInv, NumberIsExact, [LexStep]_lexVars
             PROVE  (NumberInv /\ NumberIsExact)'
  OBVIOUS
<1> DEFINE Kept == /\ mode' = "integer" => NumberBegun /\ at' = IF CharAt(1) = MINUS THEN 2 ELSE 1
                   /\ mode' = "fraction" => IntegerSoFar(at')
                   /\ mode' = "exponent" => MantissaSoFar(at')
                   /\ mode' = "number_read" => LongestRead(at')
                   /\ mode' = "parse_error" => NoLongerNumber
<1>1. Kept
  <2>1. CASE UNCHANGED lexVars
    BY <2>1 DEF lexVars, NumberInv, NumberIsExact, LongestRead, NoLongerNumber
  <2>2. CASE LexStep /\ mode = "value"
    BY <2>2, FirstStep, NumberStarts DEF NoLongerNumber
  <2>3. CASE LexStep /\ mode = "string"
    <3>1. ~ NumberBegun
      <4>1. CharAt(1) = QUOTE
        BY <2>3 DEF StringInv, StringSoFar, CharAt, LexType, Text
      <4> QED
        BY <4>1 DEF NumberBegun, QUOTE, MINUS, isdigit, ASCII_DIGITS
    <3>2. NoLongerNumber
      BY <3>1, NumberStarts DEF NoLongerNumber
    <3> QED
      BY <2>3, <3>2, StringStep
  <2>4. CASE LexStep /\ mode \notin {"value", "string"}
    BY <2>4, NumberStep, IntegerStep, FractionStep, ExponentStep
  <2> QED
    BY <2>1, <2>2, <2>3, <2>4
<1>2. chars' = chars
  BY SameText
<1>3. NumberInv'
  BY <1>1, <1>2 DEF NumberInv, IntegerSoFar, MantissaSoFar, Mantissa, NumberBegun, Integer,
                    DigitRun, CharAt
<1>4. NumberIsExact'
  <2>1. mode' = "number_read" =>
          ValidNumber(at' - 1) /\ \A n \in at'..Len(chars) : ~ ValidNumber(n)
    BY <1>1 DEF LongestRead
  <2>2. mode' = "parse_error" =>
          \A n \in 1..Len(chars) :
            \/ ~ ValidNumber(n)
            \/ CharAt(n + 1) \in {DOT, 69, 101}
            \/ \E longer \in (n + 1)..Len(chars) : ValidNumber(longer)
    BY <1>1 DEF NoLongerNumber
  <2> QED
    BY <1>2, <2>1, <2>2 DEF NumberIsExact, ValidNumber, Integer, Exponent, DigitRun, CharAt
<1> QED
  BY <1>3, <1>4

\* A number is read to its longest form, although the scanner never goes back; where it
\* fails there is nothing but the start of a fraction or an exponent without digits.
THEOREM NumberExact == LexSpec => []NumberIsExact
<1>1. LexInit => LexType /\ StringInv /\ KindInv /\ NumberInv /\ NumberIsExact
  BY InitTypes DEF LexInit, NumberIsExact, NumberInv
<1>2. LexType /\ StringInv /\ StringIsExact /\ KindInv /\ NumberInv /\ NumberIsExact /\ [LexStep]_lexVars
        => (LexType /\ StringInv /\ KindInv /\ NumberInv /\ NumberIsExact)'
  <2> SUFFICES ASSUME LexType, StringInv, StringIsExact, KindInv, NumberInv, NumberIsExact,
                      [LexStep]_lexVars
               PROVE  (LexType /\ StringInv /\ KindInv /\ NumberInv /\ NumberIsExact)'
    OBVIOUS
  <2>1. LexType' /\ KindInv'
    BY NextTypes, NextKind
  <2>2. StringInv'
    BY NextString
  <2>3. NumberInv' /\ NumberIsExact'
    BY NextNumber
  <2> QED
    BY <2>1, <2>2, <2>3
<1> QED
  BY <1>1, <1>2, StringExact, PTL DEF LexSpec

---------------------------------------------------------------------------
(* Decoding.                                                               *)

\* What has been decoded of the characters up to position e: a unit for each start.
Decoded(e) ==
  LET starts == UnitStarts(e)
  IN  /\ Len(out) = Cardinality(starts)
      /\ \A i \in starts : out[Cardinality({j \in starts : j <= i})] = UnitAt(i)

DecodedInv ==
  /\ mode = "value" => out = <<>>
  /\ mode = "string" => Decoded(at - 1)

\* A unit that starts at i and has no start in the rest of it is one start more.
LEMMA StartsGrow ==
  ASSUME Text, NEW i \in Nat, NEW j \in Nat, StringSoFar(i), Rest(i, j), i < j
  PROVE  /\ UnitStarts(j - 1) = UnitStarts(i - 1) \cup {i}
         /\ i \notin UnitStarts(i - 1)
         /\ IsFiniteSet(UnitStarts(i - 1))
         /\ UnitStarts(i - 1) \subseteq 2..(i - 1)
<1>1. i >= 2 /\ ~ Escaped(i) /\ ~ InHexDigits(i)
  BY DEF StringSoFar
<1>2. UnitStarts(i - 1) \subseteq 2..(i - 1)
  BY DEF UnitStarts
<1>3. IsFiniteSet(UnitStarts(i - 1))
  <2>1. IsFiniteSet(2..(i - 1))
    BY FS_Interval
  <2> QED
    BY <1>2, <2>1, FS_Subset
<1>4. UnitStarts(j - 1) = UnitStarts(i - 1) \cup {i}
  <2>1. \A k \in 2..(j - 1) : k \in 2..(i - 1) \/ k = i \/ k \in (i + 1)..(j - 1)
    OBVIOUS
  <2>2. \A k \in (i + 1)..(j - 1) : Escaped(k) \/ InHexDigits(k)
    BY DEF Rest
  <2>3. i \in 2..(j - 1) /\ \A k \in 2..(i - 1) : k \in 2..(j - 1)
    BY <1>1
  <2> QED
    BY <1>1, <2>1, <2>2, <2>3 DEF UnitStarts
<1> QED
  BY <1>2, <1>3, <1>4

UpTo(S, j) == {k \in S : k <= j}

\* The units o are those that start at the positions S, in order.
UnitsOf(o, S) ==
  /\ Len(o) = Cardinality(S)
  /\ \A j \in S : o[Cardinality(UpTo(S, j))] = UnitAt(j)

\* One start more and one unit more.
LEMMA OneUnitMore ==
  ASSUME LexType, NEW S, IsFiniteSet(S), S \subseteq Nat, NEW i \in Nat,
         \A j \in S : j < i,
         UnitsOf(out, S), out' = Append(out, UnitAt(i))
  PROVE  UnitsOf(out', S \cup {i})
<1> USE DEF UnitsOf
<1> DEFINE T == S \cup {i}
<1>1. i \notin S /\ Cardinality(T) = Cardinality(S) + 1 /\ Cardinality(S) \in Nat
  <2>1. i \notin S
    OBVIOUS
  <2>2. Cardinality(T) = Cardinality(S) + 1
    BY <2>1, FS_AddElement
  <2>3. Cardinality(S) \in Nat
    BY FS_CardinalityType
  <2> QED
    BY <2>1, <2>2, <2>3
<1>2. /\ Len(out') = Cardinality(T) /\ Len(out') = Len(out) + 1 /\ Len(out) \in Nat
      /\ \A k \in 1..Len(out) : out'[k] = out[k]
      /\ out'[Len(out) + 1] = UnitAt(i)
  <2> DEFINE E == Nat \cup {UnitAt(i)}
             u == UnitAt(i)
  <2>1. out \in Seq(E) /\ u \in E
    BY DEF LexType
  <2>2. out' = Append(out, u)
    OBVIOUS
  <2> HIDE DEF E, u
  <2>3. /\ Len(out') = Len(out) + 1 /\ Len(out) \in Nat
        /\ \A k \in 1..Len(out) : out'[k] = out[k]
        /\ out'[Len(out) + 1] = u
    BY <2>1, <2>2
  <2> QED
    BY <1>1, <2>3 DEF u
<1>3. ASSUME NEW j \in T
      PROVE  out'[Cardinality(UpTo(T, j))] = UnitAt(j)
  <2>1. CASE j = i
    <3>1. UpTo(T, j) = T
      <4>1. \A k \in T : k <= j
        BY <2>1
      <4> QED
        BY <4>1 DEF UpTo
    <3> QED
      BY <1>1, <1>2, <2>1, <3>1
  <2>2. CASE j \in S
    <3>1. UpTo(T, j) = UpTo(S, j) /\ j \in UpTo(S, j) /\ UpTo(S, j) \subseteq S
      BY <2>2 DEF UpTo
    <3>2. IsFiniteSet(UpTo(S, j)) /\ Cardinality(UpTo(S, j)) <= Cardinality(S)
      BY <3>1, FS_Subset
    <3>3. Cardinality(UpTo(S, j)) \in Nat /\ Cardinality(UpTo(S, j)) # 0
      BY <3>1, <3>2, FS_CardinalityType, FS_EmptySet
    <3>4. Cardinality(UpTo(S, j)) \in 1..Len(out)
      BY <1>1, <3>2, <3>3
    <3>5. out'[Cardinality(UpTo(S, j))] = out[Cardinality(UpTo(S, j))]
      BY <1>2, <3>4
    <3> QED
      BY <2>2, <3>1, <3>5
  <2> QED
    BY <2>1, <2>2
<1> QED
  BY <1>2, <1>3

LEMMA NextDecoded ==
  LexType /\ StringInv /\ DecodedInv /\ DecodesUnits /\ [LexStep]_lexVars
    => (DecodedInv /\ DecodesUnits)'
<1> SUFFICES ASSUME LexType, StringInv, DecodedInv, DecodesUnits, [LexStep]_lexVars
             PROVE  (DecodedInv /\ DecodesUnits)'
  OBVIOUS
<1> DEFINE Units(o, e) ==
             LET starts == UnitStarts(e)
             IN  /\ Len(o) = Cardinality(starts)
                 /\ \A i \in starts : o[Cardinality({j \in starts : j <= i})] = UnitAt(i)
           Kept == /\ mode' = "value" => out' = <<>>
                   /\ mode' = "string" => Units(out', at' - 1)
                   /\ mode' = "string_read" => Units(out', at' - 2)
<1>1. Kept
  <2>1. CASE UNCHANGED lexVars
    BY <2>1 DEF lexVars, DecodedInv, DecodesUnits, Decoded
  <2>2. CASE LexStep /\ mode = "value"
    <3>1. mode' = "string" => at' - 1 = 1 /\ out' = out
      BY <2>2, FirstStep
    <3>2. UnitStarts(1) = {}
      BY DEF UnitStarts
    <3>3. out = <<>>
      BY <2>2 DEF DecodedInv
    <3> QED
      BY <2>2, <3>1, <3>2, <3>3, FS_EmptySet, FirstStep
  <2>3. CASE LexStep /\ mode = "string"
    <3>1. Units(out, at - 1) /\ StringSoFar(at) /\ Text /\ at \in Nat /\ at >= 2
      BY <2>3 DEF DecodedInv, Decoded, StringInv, StringSoFar, LexType
    <3>2. CASE /\ mode' = "string" /\ StringSoFar(at') /\ Rest(at, at') /\ at < at'
               /\ out' = Append(out, UnitAt(at))
      <4>1. at' \in Nat
        BY <3>1, <3>2 DEF StringSoFar, Text
      <4>2. /\ UnitStarts(at' - 1) = UnitStarts(at - 1) \cup {at}
            /\ at \notin UnitStarts(at - 1)
            /\ IsFiniteSet(UnitStarts(at - 1))
            /\ UnitStarts(at - 1) \subseteq 2..(at - 1)
        BY <3>1, <3>2, <4>1, StartsGrow
      <4>3. \A j \in UnitStarts(at - 1) : j \in Nat /\ j < at
        BY <3>1, <4>2
      <4>4. Units(out', at' - 1)
        <5> DEFINE S == UnitStarts(at - 1)
        <5>1. UnitsOf(out, S)
          BY <3>1 DEF UpTo, UnitsOf
        <5>2. UnitStarts(at' - 1) = S \cup {at} /\ IsFiniteSet(S) /\ S \subseteq Nat
              /\ \A j \in S : j < at
          BY <4>2, <4>3
        <5> HIDE DEF S
        <5>3. UnitsOf(out', S \cup {at})
          <6>1. at \in Nat /\ out' = Append(out, UnitAt(at)) /\ IsFiniteSet(S) /\ S \subseteq Nat
            BY <3>1, <3>2, <5>2
          <6>2. \A j \in S : j < at
            BY <5>2
          <6> QED
            BY <5>1, <6>1, <6>2, OneUnitMore
        <5> QED
          BY <5>2, <5>3 DEF UpTo, UnitsOf
      <4> QED
        BY <3>2, <4>4
    <3>3. CASE mode' = "string_read" /\ at' = at + 1 /\ out' = out
      <4>1. at' - 2 = at - 1
        BY <3>1, <3>3
      <4> QED
        BY <3>1, <3>3, <4>1
    <3>4. CASE mode' = "parse_error"
      BY <3>4
    <3> QED
      BY <2>3, <3>2, <3>3, <3>4, StringStep
  <2>4. CASE LexStep /\ mode \notin {"value", "string"}
    BY <2>4, NumberStep
  <2> QED
    BY <2>1, <2>2, <2>3, <2>4
<1>2. chars' = chars
  BY SameText
<1>3. \A e : UnitStarts(e)' = UnitStarts(e)
  BY <1>2 DEF UnitStarts, InHexDigits, Escaped
<1>4. \A i : UnitAt(i)' = UnitAt(i)
  BY <1>2 DEF UnitAt, CodeUnit
<1>5. DecodedInv'
  BY <1>1, <1>3, <1>4 DEF DecodedInv, Decoded
<1>6. DecodesUnits'
  BY <1>1, <1>3, <1>4 DEF DecodesUnits
<1> QED
  BY <1>5, <1>6

\* A decoded name has one code unit for each character and each escape of its spelling, in
\* order, however long it is: names are the same exactly when their units are.
THEOREM DecodingExact == LexSpec => []DecodesUnits
<1>1. LexInit => LexType /\ StringInv /\ KindInv /\ DecodedInv /\ DecodesUnits
  BY InitTypes DEF LexInit, DecodesUnits, DecodedInv
<1>2. LexType /\ StringInv /\ StringIsExact /\ KindInv /\ DecodedInv /\ DecodesUnits /\ [LexStep]_lexVars
        => (LexType /\ StringInv /\ KindInv /\ DecodedInv /\ DecodesUnits)'
  <2> SUFFICES ASSUME LexType, StringInv, StringIsExact, KindInv, DecodedInv, DecodesUnits,
                      [LexStep]_lexVars
               PROVE  (LexType /\ StringInv /\ KindInv /\ DecodedInv /\ DecodesUnits)'
    OBVIOUS
  <2>1. LexType' /\ KindInv'
    BY NextTypes, NextKind
  <2>2. StringInv'
    BY NextString
  <2>3. DecodedInv' /\ DecodesUnits'
    BY NextDecoded
  <2> QED
    BY <2>1, <2>2, <2>3
<1> QED
  BY <1>1, <1>2, StringExact, PTL DEF LexSpec

---------------------------------------------------------------------------
(* minify.                                                                 *)

Minified == [kept : Seq(Nat), in_str : BOOLEAN, esc : BOOLEAN]

LEMMA KeepCharType ==
  /\ NothingKept \in Minified
  /\ \A m \in Minified, c \in Nat : KeepChar(m, c) \in Minified
<1>1. NothingKept \in Minified
  <2>1. <<>> \in Seq(Nat)
    OBVIOUS
  <2> QED
    BY <2>1, Zenon DEF NothingKept, Minified
<1>2. ASSUME NEW m \in Minified, NEW c \in Nat
      PROVE  KeepChar(m, c) \in Minified
  <2>1. m.kept \in Seq(Nat) /\ m.in_str \in BOOLEAN /\ m.esc \in BOOLEAN
    BY Zenon DEF Minified
  <2>2. Append(m.kept, c) \in Seq(Nat)
    BY <2>1
  <2> QED
    BY <2>1, <2>2, Zenon DEF KeepChar, Minified
<1> QED
  BY <1>1, <1>2

\* A loop over the first n characters of s that ends has gone through states g.
Loop(g, s, n) ==
  g = [i \in 0..n |-> IF i = 0 THEN NothingKept ELSE KeepChar(g[i - 1], s[i])]

\* The loop ends on every text.
LEMMA LoopEnds ==
  ASSUME NEW s \in Seq(Nat), NEW n \in 0..Len(s)
  PROVE  \E g : Loop(g, s, n)
<1> DEFINE Unended == {k \in 0..Len(s) : ~ \E g : Loop(g, s, k)}
<1> SUFFICES ASSUME Unended # {}
             PROVE  FALSE
  OBVIOUS
<1>1. PICK k \in Unended : \A j \in Unended : k <= j
  <2>1. Unended \subseteq Nat
    OBVIOUS
  <2> HIDE DEF Unended
  <2> QED
    BY <2>1, Least
<1>2. CASE k = 0
  <2>1. Loop([i \in 0..0 |-> NothingKept], s, 0)
    BY DEF Loop
  <2> QED
    BY <1>1, <1>2, <2>1
<1>3. CASE k # 0
  <2>1. k \in Nat /\ k - 1 \in 0..Len(s) /\ k - 1 \notin Unended
    BY <1>1, <1>3
  <2>2. PICK g : Loop(g, s, k - 1)
    BY <2>1
  <2> DEFINE h == [i \in 0..k |-> IF i = k THEN KeepChar(g[k - 1], s[k]) ELSE g[i]]
  <2>3. \A i \in 0..(k - 1) : g[i] = IF i = 0 THEN NothingKept ELSE KeepChar(g[i - 1], s[i])
    BY <2>2 DEF Loop
  <2>4. \A i \in 0..k : h[i] = IF i = 0 THEN NothingKept ELSE KeepChar(h[i - 1], s[i])
    <3> SUFFICES ASSUME NEW i \in 0..k
                 PROVE  h[i] = IF i = 0 THEN NothingKept ELSE KeepChar(h[i - 1], s[i])
      OBVIOUS
    <3>1. CASE i = k
      <4>1. h[k] = KeepChar(g[k - 1], s[k]) /\ h[k - 1] = g[k - 1]
        BY <2>1
      <4> QED
        BY <1>3, <3>1, <4>1
    <3>2. CASE i # k
      <4>1. i \in 0..(k - 1) /\ h[i] = g[i] /\ (i # 0 => i - 1 \in 0..k /\ i - 1 # k)
        BY <2>1, <3>2
      <4>2. i # 0 => h[i - 1] = g[i - 1]
        BY <4>1
      <4> QED
        BY <2>3, <4>1, <4>2
    <3> QED
      BY <3>1, <3>2
  <2>5. Loop(h, s, k)
    <3>1. h = [i \in 0..k |-> h[i]]
      OBVIOUS
    <3> HIDE DEF h
    <3> QED
      BY <2>4, <3>1 DEF Loop
  <2> QED
    BY <1>1, <2>5
<1> QED
  BY <1>2, <1>3

\* What minify has kept after each character.
LEMMA MinifyingStep ==
  ASSUME NEW s \in Seq(Nat)
  PROVE  /\ minifying(s)[0] = NothingKept
         /\ \A i \in 1..Len(s) : minifying(s)[i] = KeepChar(minifying(s)[i - 1], s[i])
<1>1. \E g : Loop(g, s, Len(s))
  BY LoopEnds
<1>2. minifying(s) = CHOOSE g : Loop(g, s, Len(s))
  BY DEF minifying, Loop
<1>3. Loop(minifying(s), s, Len(s))
  BY <1>1, <1>2
<1> HIDE DEF minifying
<1> QED
  BY <1>3 DEF Loop

LEMMA MinifyingType ==
  ASSUME NEW s \in Seq(Nat)
  PROVE  \A i \in 0..Len(s) : minifying(s)[i] \in Minified
<1> DEFINE Bad == {i \in 0..Len(s) : minifying(s)[i] \notin Minified}
<1> SUFFICES ASSUME Bad # {}
             PROVE  FALSE
  OBVIOUS
<1>1. PICK i \in Bad : \A j \in Bad : i <= j
  <2>1. Bad \subseteq Nat
    OBVIOUS
  <2> HIDE DEF Bad
  <2> QED
    BY <2>1, Least
<1>2. CASE i = 0
  BY <1>1, <1>2, MinifyingStep, KeepCharType
<1>3. CASE i # 0
  <2>1. i - 1 \in 0..Len(s) /\ i \in 1..Len(s) /\ minifying(s)[i - 1] \in Minified
    BY <1>1, <1>3
  <2>2. s[i] \in Nat
    BY <2>1
  <2>3. minifying(s)[i] \in Minified
    BY <2>1, <2>2, MinifyingStep, KeepCharType
  <2> QED
    BY <1>1, <2>3
<1> QED
  BY <1>2, <1>3

\* A lexeme through which minify comes without dropping a character: after i
\* characters it takes itself to be inside a string, and behind a backslash there, or not.
Contained(lexeme, inside, escaped) ==
  /\ ~ inside[0] /\ ~ escaped[0]
  /\ ~ inside[Len(lexeme)] /\ ~ escaped[Len(lexeme)]
  /\ \A i \in 1..Len(lexeme) :
       /\ inside[i - 1] \/ lexeme[i] \notin CharWhitespace
       /\ inside[i] <=> (IF lexeme[i] = QUOTE /\ ~ escaped[i - 1] THEN ~ inside[i - 1] ELSE inside[i - 1])
       /\ escaped[i] <=> inside[i - 1] /\ lexeme[i] = BACKSLASH /\ ~ escaped[i - 1]

Outside(m, kept) == m = [kept |-> kept, in_str |-> FALSE, esc |-> FALSE]

LEMMA Associative ==
  \A s, t, u \in Seq(Nat) : (s \o t) \o u = s \o (t \o u)
OBVIOUS

LEMMA OneMoreKept ==
  ASSUME NEW kept \in Seq(Nat), NEW s \in Seq(Nat), NEW i \in 1..Len(s)
  PROVE  Append(kept \o SubSeq(s, 1, i - 1), s[i]) = kept \o SubSeq(s, 1, i)
<1> DEFINE before == SubSeq(s, 1, i - 1)
<1>1. SubSeq(s, 1, i) = before \o <<s[i]>>
  BY SubSeqRecursiveSecond
<1>2. before \in Seq(Nat) /\ s[i] \in Nat /\ <<s[i]>> \in Seq(Nat)
  OBVIOUS
<1> HIDE DEF before
<1>3. Append(kept \o before, s[i]) = (kept \o before) \o <<s[i]>>
  BY <1>2, AppendIsConcat
<1>4. (kept \o before) \o <<s[i]>> = kept \o (before \o <<s[i]>>)
  BY <1>2, Associative, Zenon
<1> QED
  BY <1>1, <1>3, <1>4 DEF before

\* Wherever it stands, such a lexeme is kept.
LEMMA LexemeKept ==
  ASSUME NEW s \in Seq(Nat), NEW lexeme \in Seq(Nat), NEW a \in Nat, NEW kept \in Seq(Nat),
         NEW inside \in [0..Len(lexeme) -> BOOLEAN], NEW escaped \in [0..Len(lexeme) -> BOOLEAN],
         Contained(lexeme, inside, escaped),
         a + Len(lexeme) <= Len(s),
         \A i \in 1..Len(lexeme) : s[a + i] = lexeme[i],
         Outside(minifying(s)[a], kept)
  PROVE  Outside(minifying(s)[a + Len(lexeme)], kept \o lexeme)
<1> DEFINE State(i) == [kept |-> kept \o SubSeq(lexeme, 1, i), in_str |-> inside[i], esc |-> escaped[i]]
           Bad == {i \in 0..Len(lexeme) : minifying(s)[a + i] # State(i)}
<1>0. 0 \in 0..Len(lexeme) /\ Len(lexeme) \in 0..Len(lexeme)
  OBVIOUS
<1>1. Bad = {}
  <2> SUFFICES ASSUME Bad # {}
               PROVE  FALSE
    OBVIOUS
  <2>1. PICK i \in Bad : \A j \in Bad : i <= j
    <3>1. Bad \subseteq Nat
      OBVIOUS
    <3> HIDE DEF Bad
    <3> QED
      BY <3>1, Least
  <2>2. CASE i = 0
    <3>1. kept \o SubSeq(lexeme, 1, 0) = kept /\ a + 0 = a
      OBVIOUS
    <3>2. inside[0] = FALSE /\ escaped[0] = FALSE
      <4>1. inside[0] \in BOOLEAN /\ escaped[0] \in BOOLEAN
        BY <1>0
      <4> QED
        BY <4>1, Zenon DEF Contained
    <3>3. minifying(s)[a + 0] = State(0)
      BY <3>1, <3>2, Zenon DEF Outside
    <3> QED
      BY <2>1, <2>2, <3>3
  <2>3. CASE i # 0
    <3>0. i \in 0..Len(lexeme)
      BY <2>1
    <3>1. /\ i - 1 \in 0..Len(lexeme) /\ i \in 1..Len(lexeme)
          /\ a + i \in 1..Len(s) /\ (a + i) - 1 = a + (i - 1) /\ ~ (i <= i - 1)
          /\ a + (i - 1) \in 0..Len(s)
      BY <3>0, <2>3
    <3>9. i - 1 \notin Bad
      BY <2>1, <3>1, Zenon
    <3>2. minifying(s)[a + (i - 1)] = State(i - 1)
      BY <3>1, <3>9
    <3>3. minifying(s)[a + i] = KeepChar(State(i - 1), lexeme[i])
      <4>1. s[a + i] = lexeme[i]
        BY <3>1
      <4>2. minifying(s)[a + i] = KeepChar(minifying(s)[a + (i - 1)], s[a + i])
        <5> HIDE DEF State, Bad
        <5> QED
          BY <3>1, MinifyingStep
      <4> QED
        BY <3>2, <4>1, <4>2, Zenon
    <3>4. Append(kept \o SubSeq(lexeme, 1, i - 1), lexeme[i]) = kept \o SubSeq(lexeme, 1, i)
      BY <3>1, OneMoreKept, Zenon
    <3>5. /\ inside[i - 1] \/ lexeme[i] \notin CharWhitespace
          /\ inside[i] = IF lexeme[i] = QUOTE /\ ~ escaped[i - 1] THEN ~ inside[i - 1] ELSE inside[i - 1]
          /\ escaped[i] = (inside[i - 1] /\ lexeme[i] = BACKSLASH /\ ~ escaped[i - 1])
      <4>1. /\ inside[i] \in BOOLEAN /\ inside[i - 1] \in BOOLEAN
            /\ escaped[i] \in BOOLEAN /\ escaped[i - 1] \in BOOLEAN
        BY <3>1
      <4> QED
        BY <3>1, <4>1, Zenon DEF Contained
    <3>6. KeepChar(State(i - 1), lexeme[i]) = State(i)
      BY <3>4, <3>5, Zenon DEF KeepChar
    <3> QED
      BY <2>1, <3>3, <3>6
  <2> QED
    BY <2>2, <2>3
<1>3. minifying(s)[a + Len(lexeme)] = State(Len(lexeme))
  BY <1>0, <1>1
<1>4. SubSeq(lexeme, 1, Len(lexeme)) = lexeme
  OBVIOUS
<1>5. inside[Len(lexeme)] = FALSE /\ escaped[Len(lexeme)] = FALSE
  <2>1. inside[Len(lexeme)] \in BOOLEAN /\ escaped[Len(lexeme)] \in BOOLEAN
    BY <1>0
  <2> QED
    BY <2>1, Zenon DEF Contained
<1> QED
  BY <1>3, <1>4, <1>5, Zenon DEF Outside

\* Whitespace outside strings is dropped.
LEMMA WhitespaceDropped ==
  ASSUME NEW s \in Seq(Nat), NEW a \in 0..(Len(s) - 1), NEW kept,
         s[a + 1] \in CharWhitespace, Outside(minifying(s)[a], kept)
  PROVE  Outside(minifying(s)[a + 1], kept)
<1>1. a + 1 \in 1..Len(s) /\ (a + 1) - 1 = a
  OBVIOUS
<1>2. minifying(s)[a + 1] = KeepChar(minifying(s)[a], s[a + 1])
  BY <1>1, MinifyingStep
<1>3. s[a + 1] # QUOTE /\ s[a + 1] # BACKSLASH
  BY DEF CharWhitespace, QUOTE, BACKSLASH
<1>4. \A c : c \in CharWhitespace /\ c # QUOTE /\ c # BACKSLASH
               => KeepChar([kept |-> kept, in_str |-> FALSE, esc |-> FALSE], c)
                    = [kept |-> kept, in_str |-> FALSE, esc |-> FALSE]
  <2> SUFFICES ASSUME NEW c \in CharWhitespace, c # QUOTE, c # BACKSLASH
               PROVE  KeepChar([kept |-> kept, in_str |-> FALSE, esc |-> FALSE], c)
                        = [kept |-> kept, in_str |-> FALSE, esc |-> FALSE]
    OBVIOUS
  <2>1. /\ (IF FALSE \/ c \notin CharWhitespace THEN Append(kept, c) ELSE kept) = kept
        /\ (IF c = QUOTE /\ ~ FALSE THEN ~ FALSE ELSE FALSE) = FALSE
        /\ (FALSE /\ c = BACKSLASH /\ ~ FALSE) = FALSE
    BY SMT
  <2> QED
    BY <2>1, Zenon DEF KeepChar
<1> QED
  BY <1>2, <1>3, <1>4, Zenon DEF Outside

LEMMA Joined ==
  ASSUME NEW s \in Seq(Nat), NEW t \in Seq(Nat)
  PROVE  /\ s \o t \in Seq(Nat) /\ Len(s \o t) = Len(s) + Len(t)
         /\ \A i \in 1..Len(s) : (s \o t)[i] = s[i]
         /\ \A i \in 1..Len(t) : (s \o t)[Len(s) + i] = t[i]
OBVIOUS

\* Such a lexeme between whitespace is kept, and the whitespace is not.
LEMMA LexemesKept ==
  ASSUME NEW lexeme \in Seq(Nat),
         NEW inside \in [0..Len(lexeme) -> BOOLEAN], NEW escaped \in [0..Len(lexeme) -> BOOLEAN],
         Contained(lexeme, inside, escaped)
  PROVE  minified(<<32>> \o lexeme \o <<9, 10>> \o lexeme \o <<13>>) = lexeme \o lexeme
<1> DEFINE n == Len(lexeme)
           t1 == <<32>> \o lexeme
           t2 == t1 \o <<9, 10>>
           t3 == t2 \o lexeme
           s  == t3 \o <<13>>
<1>0. n \in Nat /\ <<32>> \in Seq(Nat) /\ <<9, 10>> \in Seq(Nat) /\ <<13>> \in Seq(Nat)
  OBVIOUS
<1>1. /\ t1 \in Seq(Nat) /\ Len(t1) = n + 1
      /\ t1[1] = 32 /\ \A i \in 1..n : t1[1 + i] = lexeme[i]
  BY <1>0, Joined
<1>2. /\ t2 \in Seq(Nat) /\ Len(t2) = n + 3
      /\ \A i \in 1..(n + 1) : t2[i] = t1[i]
      /\ t2[n + 2] = 9 /\ t2[n + 3] = 10
  <2> HIDE DEF t1, n
  <2>1. /\ Len(t2) = (n + 1) + 2 /\ t2 \in Seq(Nat)
        /\ \A i \in 1..(n + 1) : t2[i] = t1[i]
        /\ t2[(n + 1) + 1] = 9 /\ t2[(n + 1) + 2] = 10
    BY <1>0, <1>1, Joined
  <2>2. (n + 1) + 1 = n + 2 /\ (n + 1) + 2 = n + 3
    BY <1>0
  <2> QED
    BY <2>1, <2>2
<1>3. /\ t3 \in Seq(Nat) /\ Len(t3) = (n + 3) + n
      /\ \A i \in 1..(n + 3) : t3[i] = t2[i]
      /\ \A i \in 1..n : t3[(n + 3) + i] = lexeme[i]
  <2>1. n = Len(lexeme)
    OBVIOUS
  <2> HIDE DEF t2, n
  <2>2. /\ t3 \in Seq(Nat) /\ Len(t3) = Len(t2) + Len(lexeme)
        /\ \A i \in 1..Len(t2) : t3[i] = t2[i]
        /\ \A i \in 1..Len(lexeme) : t3[Len(t2) + i] = lexeme[i]
    BY <1>2, Joined
  <2> QED
    BY <1>2, <2>1, <2>2, Zenon
<1>4. /\ s \in Seq(Nat) /\ Len(s) = ((n + 3) + n) + 1
      /\ \A i \in 1..((n + 3) + n) : s[i] = t3[i]
      /\ s[((n + 3) + n) + 1] = 13
  <2> HIDE DEF t3, n
  <2>1. Len(<<13>>) = 1 /\ <<13>>[1] = 13 /\ 1 \in 1..1
    OBVIOUS
  <2>2. /\ s \in Seq(Nat) /\ Len(s) = Len(t3) + Len(<<13>>)
        /\ \A i \in 1..Len(t3) : s[i] = t3[i]
        /\ \A i \in 1..Len(<<13>>) : s[Len(t3) + i] = <<13>>[i]
    BY <1>0, <1>3, Joined
  <2> QED
    BY <1>3, <2>1, <2>2, Zenon
<1> HIDE DEF t1, t2, t3, s, n
<1>5. /\ s[1] = 32 /\ s[(n + 1) + 1] = 9 /\ s[(n + 2) + 1] = 10
      /\ \A i \in 1..n : s[1 + i] = lexeme[i] /\ s[(n + 3) + i] = lexeme[i]
  <2>1. /\ 1 \in 1..(n + 1) /\ 1 \in 1..(n + 3) /\ 1 \in 1..((n + 3) + n)
        /\ n + 2 \in 1..(n + 3) /\ n + 2 \in 1..((n + 3) + n)
        /\ n + 3 \in 1..(n + 3) /\ n + 3 \in 1..((n + 3) + n)
        /\ (n + 1) + 1 = n + 2 /\ (n + 2) + 1 = n + 3
    BY <1>0
  <2>2. \A i \in 1..n : /\ 1 + i \in 1..(n + 1) /\ 1 + i \in 1..(n + 3) /\ 1 + i \in 1..((n + 3) + n)
                        /\ (n + 3) + i \in 1..((n + 3) + n)
    BY <1>0
  <2>3. s[1] = t1[1]
    <3>1. t2[1] = t1[1]
      BY <1>2, <2>1, Zenon
    <3>2. t3[1] = t2[1]
      BY <1>3, <2>1, Zenon
    <3>3. s[1] = t3[1]
      BY <1>4, <2>1, Zenon
    <3> QED
      BY <3>1, <3>2, <3>3
  <2>4. s[n + 2] = t2[n + 2] /\ s[n + 3] = t2[n + 3]
    BY <1>3, <1>4, <2>1, Zenon
  <2>5. ASSUME NEW i \in 1..n
        PROVE  s[1 + i] = lexeme[i] /\ s[(n + 3) + i] = lexeme[i]
    <3>1. s[1 + i] = t1[1 + i]
      BY <1>2, <1>3, <1>4, <2>2, Zenon
    <3>2. s[(n + 3) + i] = t3[(n + 3) + i]
      BY <1>4, <2>2, Zenon
    <3> QED
      BY <1>1, <1>3, <3>1, <3>2, Zenon
  <2> QED
    BY <1>1, <1>2, <2>1, <2>3, <2>4, <2>5, Zenon
<1>6. <<>> \in Seq(Nat) /\ <<>> \o lexeme = lexeme /\ lexeme \o lexeme \in Seq(Nat)
  BY ConcatEmptySeq, ConcatProperties
<1>7. Outside(minifying(s)[0], <<>>)
  BY <1>4, MinifyingStep DEF Outside, NothingKept
<1>8. Outside(minifying(s)[1], <<>>)
  <2>1. 0 \in 0..(Len(s) - 1) /\ s[0 + 1] \in CharWhitespace /\ 0 + 1 = 1
    BY <1>0, <1>4, <1>5 DEF CharWhitespace
  <2> QED
    BY <1>4, <1>7, <2>1, WhitespaceDropped
<1>9. Outside(minifying(s)[1 + n], lexeme)
  <2>1. 1 + n <= Len(s)
    BY <1>0, <1>4
  <2> QED
    BY <1>4, <1>5, <1>6, <1>8, <2>1, LexemeKept DEF n
<1>10. Outside(minifying(s)[n + 2], lexeme)
  <2>1. n + 1 \in 0..(Len(s) - 1) /\ s[(n + 1) + 1] \in CharWhitespace /\ (n + 1) + 1 = n + 2 /\ 1 + n = n + 1
    BY <1>0, <1>4, <1>5 DEF CharWhitespace
  <2> QED
    BY <1>4, <1>9, <2>1, WhitespaceDropped
<1>11. Outside(minifying(s)[n + 3], lexeme)
  <2>1. n + 2 \in 0..(Len(s) - 1) /\ s[(n + 2) + 1] \in CharWhitespace /\ (n + 2) + 1 = n + 3
    BY <1>0, <1>4, <1>5 DEF CharWhitespace
  <2> QED
    BY <1>4, <1>10, <2>1, WhitespaceDropped
<1>12. Outside(minifying(s)[(n + 3) + n], lexeme \o lexeme)
  <2>1. (n + 3) + n <= Len(s) /\ n + 3 \in Nat
    BY <1>0, <1>4
  <2> QED
    BY <1>4, <1>5, <1>11, <2>1, LexemeKept DEF n
<1>13. Outside(minifying(s)[Len(s)], lexeme \o lexeme)
  <2>1. /\ (n + 3) + n \in 0..(Len(s) - 1) /\ s[((n + 3) + n) + 1] \in CharWhitespace
        /\ ((n + 3) + n) + 1 = Len(s)
    BY <1>0, <1>4 DEF CharWhitespace
  <2> QED
    BY <1>4, <1>12, <2>1, WhitespaceDropped
<1>14. minified(s) = lexeme \o lexeme
  <2>1. minifying(s)[Len(s)].kept = lexeme \o lexeme
    BY <1>13 DEF Outside
  <2> QED
    BY <2>1, Zenon DEF minified
<1> QED
  BY <1>14 DEF s, t3, t2, t1

\* The lexeme that has been read.
ReadLexeme == SubSeq(chars, 1, at - 1)

LEMMA ReadCharacters ==
  ASSUME Text, at \in 1..(Len(chars) + 1)
  PROVE  /\ ReadLexeme \in Seq(Nat) /\ Len(ReadLexeme) = at - 1
         /\ \A i \in 1..(at - 1) : ReadLexeme[i] = chars[i]
BY DEF Text, ReadLexeme

\* A string contains its quotes: a backslash in it counts where minify counts it.
LEMMA StringContained ==
  ASSUME LexType, chars[1] = QUOTE, at - 1 \in 1..Len(chars), ValidString(at - 1)
  PROVE  \E inside, escaped \in [0..(at - 1) -> BOOLEAN] : Contained(ReadLexeme, inside, escaped)
<1> DEFINE n == at - 1
           inside  == [i \in 0..n |-> 1 <= i /\ i < n]
           escaped == [i \in 0..n |-> 1 <= i /\ i < n /\ Escaped(i + 1)]
<1>1. /\ n \in Nat /\ n >= 2 /\ Len(ReadLexeme) = n
      /\ \A i \in 1..n : ReadLexeme[i] = chars[i]
  BY ReadCharacters DEF LexType, Text, ValidString, Closes
<1>2. inside \in [0..n -> BOOLEAN] /\ escaped \in [0..n -> BOOLEAN]
  BY DEF Escaped
<1> HIDE DEF n
<1>6. \A i \in 0..n : /\ inside[i] <=> 1 <= i /\ i < n
                      /\ escaped[i] <=> 1 <= i /\ i < n /\ Escaped(i + 1)
  BY Zenon
<1>7. 0 \in 0..n /\ 1 \in 0..n /\ n \in 0..n /\ 1 < n /\ 1 <= 1 /\ ~ (1 <= 0) /\ ~ (n < n) /\ 1 + 1 = 2
  BY <1>1
<1> HIDE DEF inside, escaped
<1>3. ASSUME NEW i \in 1..n
      PROVE  /\ inside[i - 1] \/ chars[i] \notin CharWhitespace
             /\ inside[i] <=> (IF chars[i] = QUOTE /\ ~ escaped[i - 1] THEN ~ inside[i - 1] ELSE inside[i - 1])
             /\ escaped[i] <=> inside[i - 1] /\ chars[i] = BACKSLASH /\ ~ escaped[i - 1]
  <2>0. i \in Nat /\ i - 1 \in 0..n /\ (i - 1) + 1 = i /\ QUOTE # BACKSLASH /\ QUOTE \notin CharWhitespace
    BY <1>1 DEF QUOTE, BACKSLASH, CharWhitespace
  <2>1. CASE i = 1
    <3>1. ~ inside[0] /\ ~ escaped[0] /\ inside[1]
      BY <1>6, <1>7, Zenon
    <3>3. ~ Escaped(2)
      BY EscapedNext
    <3>2. ~ escaped[1]
      BY <1>6, <1>7, <3>3, Zenon
    <3> QED
      BY <2>0, <2>1, <3>1, <3>2
  <2>2. CASE i # 1
    <3>9. i >= 2 /\ 1 <= i /\ 1 <= i - 1 /\ i - 1 < n /\ i \in 0..n
      BY <1>1, <2>2
    <3>1. inside[i - 1] /\ (escaped[i - 1] <=> Escaped(i)) /\ i >= 2
      BY <1>6, <2>0, <3>9, Zenon
    <3>2. inside[i] <=> i < n
      BY <1>6, <3>9, Zenon
    <3>3. escaped[i] <=> i < n /\ Escaped(i + 1)
      BY <1>6, <3>9, Zenon
    <3>4. Escaped(i + 1) <=> chars[i] = BACKSLASH /\ ~ Escaped(i)
      BY <2>0, <3>1, EscapedNext
    <3>5. i < n => ~ (chars[i] = QUOTE /\ ~ Escaped(i))
      BY <1>1, <3>1 DEF ValidString, Closes, n
    <3>6. i = n => chars[i] = QUOTE /\ ~ Escaped(i)
      BY DEF ValidString, Closes, n
    <3>7. i < n \/ i = n
      BY <1>1
    <3> QED
      BY <2>0, <3>1, <3>2, <3>3, <3>4, <3>5, <3>6, <3>7
  <2> QED
    BY <2>1, <2>2
<1>4. ~ inside[0] /\ ~ escaped[0] /\ ~ inside[n] /\ ~ escaped[n]
  BY <1>6, <1>7, Zenon
<1>5. Contained(ReadLexeme, inside, escaped)
  BY <1>1, <1>3, <1>4 DEF Contained
<1> QED
  BY <1>2, <1>5 DEF n

\* A number or a literal has no quote and no whitespace.
LEMMA PlainContained ==
  ASSUME LexType, \A i \in 1..(at - 1) : chars[i] \notin CharWhitespace \cup {QUOTE}
  PROVE  \E inside, escaped \in [0..(at - 1) -> BOOLEAN] : Contained(ReadLexeme, inside, escaped)
<1> DEFINE never == [i \in 0..(at - 1) |-> FALSE]
<1>1. never \in [0..(at - 1) -> BOOLEAN]
  OBVIOUS
<1>2. /\ Len(ReadLexeme) = at - 1 /\ at - 1 \in Nat
      /\ \A i \in 1..(at - 1) : ReadLexeme[i] = chars[i]
  BY ReadCharacters DEF LexType, Text
<1>3. \A i \in 0..(at - 1) : ~ never[i]
  OBVIOUS
<1>4. \A i \in 1..(at - 1) : i - 1 \in 0..(at - 1) /\ i \in 0..(at - 1)
  BY <1>2
<1>5. 0 \in 0..(at - 1) /\ at - 1 \in 0..(at - 1)
  BY <1>2
<1> HIDE DEF never
<1>6. Contained(ReadLexeme, never, never)
  BY <1>2, <1>3, <1>4, <1>5 DEF Contained
<1> QED
  BY <1>1, <1>6

\* What has been read begins with the characters of its kind.
LexemeInv ==
  /\ mode = "literal" => \E w \in Literals : StartsWith(w) /\ at = Len(w) + 1
  /\ mode = "string_read" => chars[1] = QUOTE

LEMMA NextLexeme == LexType /\ StringInv /\ LexemeInv /\ [LexStep]_lexVars => LexemeInv'
<1> SUFFICES ASSUME LexType, StringInv, LexemeInv, [LexStep]_lexVars
             PROVE  LexemeInv'
  OBVIOUS
<1>1. CASE UNCHANGED lexVars
  BY <1>1 DEF lexVars, LexemeInv, StartsWith
<1>2. CASE Literal
  BY <1>2, SameText DEF Literal, Goto, LexemeInv, StartsWith
<1>3. CASE EndString
  BY <1>3, SameText DEF EndString, InString, Goto, LexemeInv, StringInv, StringSoFar
<1>4. CASE LexStep /\ ~ Literal /\ ~ EndString
  BY <1>4 DEF LexemeInv, LexStep, StartString, StartNumber, NoLexeme, Unterminated,
              InString, ControlCharacter, Escape, UnicodeEscape, InvalidEscape, PlainCharacter,
              ReadInteger, ReadFraction, ReadExponent, ParseError, Goto, Emit
<1> QED
  BY <1>1, <1>2, <1>3, <1>4

NumberCharacters == ASCII_DIGITS \cup {MINUS, PLUS, DOT, 69, 101}

LEMMA NumberPlain ==
  ASSUME NEW n \in Nat, ValidNumber(n)
  PROVE  \A k \in 1..n : chars[k] \in NumberCharacters
<1>1. PICK first \in {1, 2}, i \in 1..n, f \in 1..n :
        /\ first = 2 <=> chars[1] = MINUS
        /\ i <= f /\ Integer(first, i)
        /\ f = i \/ (chars[i + 1] = DOT /\ DigitRun(i + 2, f))
        /\ n = f \/ Exponent(f + 1, n)
  BY DEF ValidNumber
<1>2. \A k \in first..i : chars[k] \in NumberCharacters
  BY <1>1 DEF Integer, DigitRun, NumberCharacters
<1>3. first = 2 => chars[1] \in NumberCharacters
  BY <1>1 DEF NumberCharacters
<1>4. \A k \in (i + 1)..f : chars[k] \in NumberCharacters
  BY <1>1 DEF DigitRun, NumberCharacters
<1>5. \A k \in (f + 1)..n : chars[k] \in NumberCharacters
  BY <1>1 DEF Exponent, DigitRun, NumberCharacters
<1>6. \A k \in 1..n : (first = 2 /\ k = 1) \/ k \in first..i \/ k \in (i + 1)..f \/ k \in (f + 1)..n
  OBVIOUS
<1> QED
  BY <1>2, <1>3, <1>4, <1>5, <1>6, Zenon

LEMMA LettersPlain ==
  \A w \in Literals : w \in Seq(Nat) /\ \A k \in 1..Len(w) : w[k] \notin CharWhitespace \cup {QUOTE}
<1> DEFINE Plain(w) == w \in Seq(Nat) /\ \A k \in 1..Len(w) : w[k] \notin CharWhitespace \cup {QUOTE}
<1> USE DEF CharWhitespace, QUOTE
<1>1. Plain(<<116, 114, 117, 101>>)
  OBVIOUS
<1>2. Plain(<<102, 97, 108, 115, 101>>)
  OBVIOUS
<1>3. Plain(<<110, 117, 108, 108>>)
  OBVIOUS
<1> HIDE DEF Plain
<1>4. \A w \in Literals : Plain(w)
  BY <1>1, <1>2, <1>3 DEF Literals
<1> QED
  BY <1>4 DEF Plain

LEMMA ReadContained ==
  ASSUME LexType, StringIsExact, NumberIsExact, LexemeInv,
         mode \in {"string_read", "number_read", "literal"}
  PROVE  \E inside, escaped \in [0..(at - 1) -> BOOLEAN] : Contained(ReadLexeme, inside, escaped)
<1>0. at - 1 \in Nat /\ Len(chars) \in Nat /\ at \in 1..(Len(chars) + 1)
  BY DEF LexType, Text
<1>1. CASE mode = "number_read"
  <2>1. \A k \in 1..(at - 1) : chars[k] \in NumberCharacters
    BY <1>0, <1>1, NumberPlain DEF NumberIsExact
  <2>2. \A c \in NumberCharacters : c \notin CharWhitespace \cup {QUOTE}
    BY DEF NumberCharacters, ASCII_DIGITS, MINUS, PLUS, DOT, CharWhitespace, QUOTE
  <2> QED
    BY <2>1, <2>2, PlainContained
<1>2. CASE mode = "literal"
  <2>1. PICK w \in Literals : StartsWith(w) /\ at = Len(w) + 1
    BY <1>2 DEF LexemeInv
  <2>2. w \in Seq(Nat) /\ \A k \in 1..Len(w) : w[k] \notin CharWhitespace \cup {QUOTE}
    BY LettersPlain
  <2>3. \A k \in 1..(at - 1) : chars[k] = w[k] /\ k \in 1..Len(w)
    BY <1>0, <2>1, <2>2 DEF StartsWith, LexType, Text
  <2> QED
    BY <2>2, <2>3, PlainContained
<1>3. CASE mode = "string_read"
  <2>1. ValidString(at - 1)
    BY <1>3 DEF StringIsExact
  <2>2. chars[1] = QUOTE
    BY <1>3 DEF LexemeInv
  <2> QED
    BY <1>0, <2>1, <2>2, StringContained DEF ValidString, Closes
<1> QED
  BY <1>1, <1>2, <1>3

\* minify finds its own way through strings, and takes the same characters to be in them
\* as the scanner: it changes no lexeme, and drops what stands between lexemes.
THEOREM MinifyKeeps == LexSpec => []MinifyKeepsLexemes
<1>1. LexInit => LexType /\ StringInv /\ KindInv /\ StringIsExact /\ LexemeInv
  BY InitTypes DEF LexInit, StringIsExact, LexemeInv
<1>2. LexType /\ StringInv /\ KindInv /\ StringIsExact /\ LexemeInv /\ [LexStep]_lexVars
        => (LexType /\ StringInv /\ KindInv /\ StringIsExact /\ LexemeInv)'
  BY NextTypes, NextKind, NextString, NextLexeme
<1>3. LexType /\ StringIsExact /\ NumberIsExact /\ LexemeInv => MinifyKeepsLexemes
  <2> SUFFICES ASSUME LexType, StringIsExact, NumberIsExact, LexemeInv,
                      mode \in LexEnded \ {"parse_error"}
               PROVE  minified(<<32>> \o ReadLexeme \o <<9, 10>> \o ReadLexeme \o <<13>>)
                        = ReadLexeme \o ReadLexeme
    BY DEF MinifyKeepsLexemes, ReadLexeme
  <2>1. PICK inside, escaped \in [0..(at - 1) -> BOOLEAN] : Contained(ReadLexeme, inside, escaped)
    BY ReadContained DEF LexEnded
  <2>2. ReadLexeme \in Seq(Nat) /\ Len(ReadLexeme) = at - 1
    BY ReadCharacters DEF LexType
  <2> QED
    BY <2>1, <2>2, LexemesKept
<1> QED
  BY <1>1, <1>2, <1>3, NumberExact, PTL DEF LexSpec
===========================================================================
