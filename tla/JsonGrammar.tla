---------------------------- MODULE JsonGrammar ----------------------------
(***************************************************************************)
(* What the scanner is to compute, said of the whole text at once: the     *)
(* grammar of RFC 8259 over lexemes, nesting depth and member names.       *)
(***************************************************************************)
EXTENDS Scanner, FiniteSets

Kinds   == {"object", "array"}
Opening == [object |-> "{", array |-> "["]
Closing == [object |-> "}", array |-> "]"]

Blank(t, i, j) == \A k \in i..j : t[k] \in WHITESPACE

\* Where in the lexemes i .. j the first one is that is no whitespace.
First(t, i, j) == {a \in i..j : t[a] \notin WHITESPACE /\ Blank(t, i, a - 1)}

(***************************************************************************)
(* The rules of the grammar, for the lexemes i .. j of t.  lists says which *)
(* lexemes, <<k, i, j>>, are the items of a k and the bracket that closes it. *)
(***************************************************************************)
Value(t, lists, i, j) ==
  \/ i = j /\ t[i] \in Strings \cup Scalars
  \/ \E k \in Kinds :
       /\ i < j
       /\ t[i] = Opening[k]
       /\ \/ t[j] = Closing[k] /\ Blank(t, i + 1, j - 1)
          \/ lists[<<k, i + 1, j>>]

Element(t, lists, i, j) ==
  \E a \in First(t, i, j) : \E b \in a..j : Blank(t, b + 1, j) /\ Value(t, lists, a, b)

NamedElement(t, lists, i, j) ==
  \E c \in First(t, i, j) : t[c] = ":" /\ Element(t, lists, c + 1, j)

Member(t, lists, i, j) ==
  \E a \in First(t, i, j) : t[a] \in Strings /\ NamedElement(t, lists, a + 1, j)

Item(t, lists, k, i, j) ==
  \/ k = "object" /\ Member(t, lists, i, j)
  \/ k = "array" /\ Element(t, lists, i, j)

List(t, lists, k, i, j) ==
  /\ t[j] = Closing[k]
  /\ \/ Item(t, lists, k, i, j - 1)
     \/ \E c \in i..(j - 1) : t[c] = "," /\ Item(t, lists, k, i, c - 1) /\ lists[<<k, c + 1, j>>]

Lists(t) ==
  LET lists[d \in Kinds \X (1..Len(t)) \X (1..Len(t))] == List(t, lists, d[1], d[2], d[3])
  IN  lists

IsValue(t, i, j) == Value(t, Lists(t), i, j)

\* The lengths at which t begins with a JSON value, ending in a lexeme of it.
ValueEnds(t) ==
  {n \in 1..Len(t) : \E a \in First(t, 1, n) : IsValue(t, a, n)}

\* Brackets open after the first i lexemes of t.
Depth(t, i) ==
  Cardinality({j \in 1..i : t[j] \in {"{", "["}})
    - Cardinality({j \in 1..i : t[j] \in {"}", "]"}})

\* A string lexeme that a colon follows is a member name.
IsName(t, i) ==
  /\ t[i] \in Strings
  /\ \E j \in (i + 1)..Len(t) :
        t[j] = ":" /\ \A k \in (i + 1)..(j - 1) : t[k] \in WHITESPACE

\* The brackets opened before position i and not closed before it; the last is
\* the object or array that i is in.
Enclosing(t, i) ==
  CHOOSE o \in 1..(i - 1) :
    /\ t[o] \in {"{", "["}
    /\ \A k \in o..(i - 1) : Depth(t, k) >= Depth(t, i - 1)
    /\ Depth(t, o) = Depth(t, i - 1)

\* Names of the same object with the same value; the later one is the duplicate.
Duplicates(t, n) ==
  {i \in 1..n :
     /\ IsName(t, i)
     /\ \E j \in 1..(i - 1) :
          /\ IsName(t, j)
          /\ Decoded(t[j]) = Decoded(t[i])
          /\ Enclosing(t, j) = Enclosing(t, i)}

\* Where the names of the top-level object are within the first n lexemes.
TopNamed(t, n) == {i \in 1..n : IsName(t, i) /\ Depth(t, i) = 1}

\* The k-th of a set of positions.
Nth(positions, k) == CHOOSE i \in positions : Cardinality({j \in positions : j <= i}) = k

TopNames(t, n) ==
  [k \in 1..Cardinality(TopNamed(t, n)) |-> Decoded(t[Nth(TopNamed(t, n), k)])]

---------------------------------------------------------------------------

\* The scanner accepts the texts that begin with a JSON value and no others,
\* and it reads that value to its end; it gives up on a valid text only when
\* the text nests deeper than the interpreter's stack.
AcceptsJson ==
  /\ ctl = "done" => pos - 1 \in ValueEnds(text)
  /\ ctl = "parse_error" => ValueEnds(text) = {}
  /\ ctl = "recursion_error" => \E i \in 1..Len(text) : Depth(text, i) > RecursionLimit

\* The duplicate it reports is the first one at any depth, and there is one.
DuplicateIsExact ==
  ctl = "done" =>
    LET found == Duplicates(text, pos - 1)
    IN  IF found = {} THEN first_duplicate = 0
        ELSE first_duplicate \in found /\ \A i \in found : first_duplicate <= i
===========================================================================
