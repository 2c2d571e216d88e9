----------------------------- MODULE MCLexemes -----------------------------
(* Instance of Lexemes for TLC: every short text over the characters that  *)
(* matter, and longer spellings one character away from a valid one.       *)
EXTENDS Lexemes

CONSTANT MaxChars

\* " \ u n 0 d x, a space and a control character
StringChars == {34, 92, 117, 110, 48, 100, 120, 32, 31}
\* - + . 0 7 e and a digit that is not ASCII
NumberChars == {45, 43, 46, 48, 55, 101, 1635}

\* "\ud83d\ude00", "x\\\u00e9\"n", -70.07e+70, false
Spellings ==
  { <<34, 92, 117, 100, 56, 51, 100, 92, 117, 100, 101, 48, 48, 34>>,
    <<34, 120, 92, 92, 92, 117, 48, 48, 101, 57, 92, 34, 110, 34>>,
    <<45, 55, 48, 46, 48, 55, 101, 43, 55, 48>>,
    <<102, 97, 108, 115, 101>> }

Edits(t) ==
  {t} \cup {SubSeq(t, 1, i - 1) \o SubSeq(t, i + 1, Len(t)) : i \in 1..Len(t)}
      \cup {[t EXCEPT ![i] = c] : i \in 1..Len(t), c \in StringChars \cup NumberChars}
      \cup {SubSeq(t, 1, i) \o <<c>> \o SubSeq(t, i + 1, Len(t)) :
              i \in 0..Len(t), c \in StringChars \cup NumberChars}

MCCharTexts ==
  {<<34>> \o s : s \in UNION {[1..n -> StringChars] : n \in 0..(MaxChars - 1)}}
    \cup UNION {[1..n -> NumberChars] : n \in 0..MaxChars}
    \cup UNION {Edits(t) : t \in Spellings}
===========================================================================
