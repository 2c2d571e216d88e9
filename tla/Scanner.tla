------------------------------ MODULE Scanner ------------------------------
(***************************************************************************)
(* canonical.Scanner: the recursive-descent scanner that reads one JSON    *)
(* value at the start of a text.  The text is a sequence of lexemes; the   *)
(* recursion of _value, _object and _array is an explicit stack with one   *)
(* frame for each object or array being read.  Module Lexemes says which   *)
(* characters make a lexeme.                                               *)
(***************************************************************************)
EXTENDS Naturals, Sequences

CONSTANTS
  Texts,            \* the decoded texts that are scanned
  Strings,          \* string lexemes: a spelling between two quotes
  Scalars,          \* number lexemes and the literals true, false and null
  Decoded(_),       \* a string lexeme's value, its escapes resolved
  RecursionLimit    \* nesting at which the interpreter raises RecursionError

WHITESPACE == {"space", "LF"}
Brackets   == {"{", "}", "[", "]", ":", ","}

\* "?" is where no lexeme starts, or one that is cut short.
Lexemes == WHITESPACE \cup Brackets \cup Strings \cup Scalars \cup {"?"}

ASSUME LexemeAssumption ==
  /\ Texts \subseteq Seq(Lexemes)
  /\ Strings \cap (WHITESPACE \cup Brackets \cup Scalars \cup {"?", "end"}) = {}
  /\ Scalars \cap (WHITESPACE \cup Brackets \cup {"?", "end"}) = {}
  /\ RecursionLimit \in Nat \ {0}

VARIABLES
  text,
  pos,               \* the next lexeme to read, counted from 1
  ctl,               \* where in the grammar the scanner is
  stack,             \* the objects and arrays being read, outermost first
  top,               \* the node of the top-level value, once it is read
  first_whitespace,  \* position of the first whitespace that was skipped, or 0
  first_duplicate    \* position of the first repeated member name, or 0

scanVars == <<text, pos, ctl, stack, top, first_whitespace, first_duplicate>>

\* A node is a kind, the span [start, end) of its lexemes and its members; the
\* member of an object also has its (decoded) key.
Node(kind, start, end, members) ==
  [kind |-> kind, start |-> start, end |-> end, members |-> members]
NoNode == Node("none", 0, 0, <<>>)

\* One activation of _object or _array: seen holds the names read so far, key
\* the one whose value is being read.
NoName == ""
Frame(kind, start) ==
  [kind |-> kind, start |-> start, seen |-> {}, key |-> NoName, members |-> <<>>]

Peek == IF pos <= Len(text) THEN text[pos] ELSE "end"

\* The lexemes from which each point of the grammar goes on; every other one
\* but whitespace raises ParseError.
ValueStart == {"{", "["} \cup Strings \cup Scalars
Expected ==
  [ top          |-> ValueStart,
    object_open  |-> Strings \cup {"}"},
    member       |-> Strings,
    colon        |-> {":"},
    member_value |-> ValueStart,
    object_next  |-> {",", "}"},
    array_open   |-> ValueStart \cup {"]"},
    element      |-> ValueStart,
    array_next   |-> {",", "]"} ]

Reading == DOMAIN Expected
Stopped == {"done", "parse_error", "recursion_error"}

ScanInit ==
  /\ text \in Texts
  /\ pos = 1
  /\ ctl = "top"
  /\ stack = <<>>
  /\ top = NoNode
  /\ first_whitespace = 0
  /\ first_duplicate = 0

---------------------------------------------------------------------------

\* Mutant: the last whitespace is reported.
SkipReportingLast ==
  /\ ctl \in Reading
  /\ Peek \in WHITESPACE
  /\ first_whitespace' = pos
  /\ pos' = pos + 1
  /\ UNCHANGED <<text, ctl, stack, top, first_duplicate>>

\* Mutant: the position advances under the condition of the assignment above it,
\* so that a second character of whitespace is never passed.
SkipFirstOnly ==
  /\ ctl \in Reading
  /\ Peek \in WHITESPACE
  /\ first_whitespace' = IF first_whitespace = 0 THEN pos ELSE first_whitespace
  /\ pos' = IF first_whitespace = 0 THEN pos + 1 ELSE pos
  /\ UNCHANGED <<text, ctl, stack, top, first_duplicate>>

\* _ws: each point of the grammar first skips whitespace.
Skip ==
  /\ ctl \in Reading
  /\ Peek \in WHITESPACE
  /\ first_whitespace' = IF first_whitespace = 0 THEN pos ELSE first_whitespace
  /\ pos' = pos + 1
  /\ UNCHANGED <<text, ctl, stack, top, first_duplicate>>

\* _value returns node to the caller whose frames are frames.
Return(node, frames) ==
  \/ /\ frames = <<>>
     /\ top' = node
     /\ stack' = frames
     /\ ctl' = "done"
  \/ /\ frames # <<>>
     /\ LET caller == frames[Len(frames)]
        IN  /\ stack' = [frames EXCEPT ![Len(frames)].members =
                           Append(@, [key |-> caller.key, node |-> node])]
            /\ ctl' = IF caller.kind = "object" THEN "object_next" ELSE "array_next"
     /\ UNCHANGED top

\* A string, a number or a literal.
ReadScalar ==
  /\ ctl \in {"top", "member_value", "array_open", "element"}
  /\ Peek \in Strings \cup Scalars
  /\ pos' = pos + 1
  /\ Return(Node("scalar", pos, pos + 1, <<>>), stack)
  /\ UNCHANGED <<text, first_whitespace, first_duplicate>>

\* Mutant: one level too many.
OpenTooDeep ==
  /\ ctl \in {"top", "member_value", "array_open", "element"}
  /\ Peek \in {"{", "["}
  /\ Len(stack) <= RecursionLimit
  /\ stack' = Append(stack, Frame(IF Peek = "{" THEN "object" ELSE "array", pos))
  /\ ctl' = IF Peek = "{" THEN "object_open" ELSE "array_open"
  /\ pos' = pos + 1
  /\ UNCHANGED <<text, top, first_whitespace, first_duplicate>>

\* _object and _array are entered, unless the interpreter's stack is full.
Open ==
  /\ ctl \in {"top", "member_value", "array_open", "element"}
  /\ Peek \in {"{", "["}
  /\ Len(stack) < RecursionLimit
  /\ stack' = Append(stack, Frame(IF Peek = "{" THEN "object" ELSE "array", pos))
  /\ ctl' = IF Peek = "{" THEN "object_open" ELSE "array_open"
  /\ pos' = pos + 1
  /\ UNCHANGED <<text, top, first_whitespace, first_duplicate>>

\* RecursionError, as the limit is counted in brackets.  The code can raise it one
\* call earlier, at a scalar or a name inside the last bracket that it entered.
Overflow ==
  /\ ctl \in {"top", "member_value", "array_open", "element"}
  /\ Peek \in {"{", "["}
  /\ Len(stack) = RecursionLimit
  /\ ctl' = "recursion_error"
  /\ UNCHANGED <<text, pos, stack, top, first_whitespace, first_duplicate>>

\* Mutant: names are compared as they are spelled.
ReadNameAsSpelled ==
  /\ ctl \in {"object_open", "member"}
  /\ Peek \in Strings
  /\ first_duplicate' =
       IF Peek \in stack[Len(stack)].seen /\ first_duplicate = 0 THEN pos ELSE first_duplicate
  /\ stack' = [stack EXCEPT ![Len(stack)].seen = @ \cup {Peek},
                            ![Len(stack)].key = Decoded(Peek)]
  /\ ctl' = "colon"
  /\ pos' = pos + 1
  /\ UNCHANGED <<text, top, first_whitespace>>

\* A member name.  Names are compared by their decoded values.
ReadName ==
  /\ ctl \in {"object_open", "member"}
  /\ Peek \in Strings
  /\ LET name   == Decoded(Peek)
         object == stack[Len(stack)]
     IN  /\ first_duplicate' =
              IF name \in object.seen /\ first_duplicate = 0 THEN pos ELSE first_duplicate
         /\ stack' = [stack EXCEPT ![Len(stack)].seen = @ \cup {name},
                                   ![Len(stack)].key = name]
  /\ ctl' = "colon"
  /\ pos' = pos + 1
  /\ UNCHANGED <<text, top, first_whitespace>>

ReadColon ==
  /\ ctl = "colon"
  /\ Peek = ":"
  /\ ctl' = "member_value"
  /\ pos' = pos + 1
  /\ UNCHANGED <<text, stack, top, first_whitespace, first_duplicate>>

\* Mutant: "}" may follow a comma.
ReadCommaTrailing ==
  /\ ctl \in {"object_next", "array_next"}
  /\ Peek = ","
  /\ ctl' = IF ctl = "object_next" THEN "object_open" ELSE "element"
  /\ pos' = pos + 1
  /\ UNCHANGED <<text, stack, top, first_whitespace, first_duplicate>>

ReadComma ==
  /\ ctl \in {"object_next", "array_next"}
  /\ Peek = ","
  /\ ctl' = IF ctl = "object_next" THEN "member" ELSE "element"
  /\ pos' = pos + 1
  /\ UNCHANGED <<text, stack, top, first_whitespace, first_duplicate>>

\* Mutant: the span ends before the bracket.
CloseBeforeBracket ==
  /\ \/ ctl \in {"object_open", "object_next"} /\ Peek = "}"
     \/ ctl \in {"array_open", "array_next"} /\ Peek = "]"
  /\ pos' = pos + 1
  /\ LET frame == stack[Len(stack)]
     IN  Return(Node(frame.kind, frame.start, pos, frame.members),
                SubSeq(stack, 1, Len(stack) - 1))
  /\ UNCHANGED <<text, first_whitespace, first_duplicate>>

\* "}" or "]": the node of the innermost frame is complete.
Close ==
  /\ \/ ctl \in {"object_open", "object_next"} /\ Peek = "}"
     \/ ctl \in {"array_open", "array_next"} /\ Peek = "]"
  /\ pos' = pos + 1
  /\ LET frame == stack[Len(stack)]
     IN  Return(Node(frame.kind, frame.start, pos + 1, frame.members),
                SubSeq(stack, 1, Len(stack) - 1))
  /\ UNCHANGED <<text, first_whitespace, first_duplicate>>

Fail ==
  /\ ctl \in Reading
  /\ Peek \notin Expected[ctl] \cup WHITESPACE
  /\ ctl' = "parse_error"
  /\ UNCHANGED <<text, pos, stack, top, first_whitespace, first_duplicate>>

ScanStep ==
  \/ Skip
  \/ ReadScalar
  \/ Open
  \/ Overflow
  \/ ReadName
  \/ ReadColon
  \/ ReadComma
  \/ Close
  \/ Fail

\* Mutant: no more than the next lexeme is looked at.
restNext == IF pos > Len(text) THEN <<>> ELSE <<text[pos]>>

\* What parse_top leaves after the value.
rest == SubSeq(text, pos, Len(text))

---------------------------------------------------------------------------

\* A node or frame of text t starts, and a node ends, at a bracket of its kind.
StartsAsKind(t, node) ==
  /\ node.kind = "object" <=> t[node.start] = "{"
  /\ node.kind = "array" <=> t[node.start] = "["
EndsAsKind(t, node) ==
  /\ node.kind = "object" => t[node.end - 1] = "}"
  /\ node.kind = "array" => t[node.end - 1] = "]"

\* The node is a slice of t[from .. to - 1], and of the kind it claims to be.
WellPlaced(t, node, from, to) ==
  /\ from <= node.start /\ node.start < node.end /\ node.end <= to
  /\ StartsAsKind(t, node)
  /\ EndsAsKind(t, node)

ScanTypeOK ==
  /\ text \in Seq(Lexemes)
  /\ pos \in 1..(Len(text) + 1)
  /\ ctl \in Reading \cup Stopped
  /\ first_whitespace \in 0..Len(text)
  /\ first_duplicate \in 0..Len(text)
  /\ Len(stack) <= RecursionLimit
  /\ \A i \in 1..Len(stack) :
       /\ stack[i].kind \in {"object", "array"}
       /\ stack[i].start \in 1..(pos - 1)

\* The raw text of every section is the slice its span names: spans begin and
\* end at their own brackets, and members lie one after the other inside.
SpansNest ==
  /\ \A i \in 1..Len(stack) :
       /\ StartsAsKind(text, stack[i])
       /\ i > 1 => stack[i - 1].start < stack[i].start
       /\ \A m \in 1..Len(stack[i].members) :
            WellPlaced(text, stack[i].members[m].node,
                       IF m = 1 THEN stack[i].start + 1
                       ELSE stack[i].members[m - 1].node.end + 1,
                       IF i < Len(stack) THEN stack[i + 1].start ELSE pos)
  /\ ctl = "done" => WellPlaced(text, top, 1, pos) /\ top.end = pos

\* Whitespace is reported exactly when some was skipped, at its first position.
WhitespaceIsExact ==
  LET skipped == {i \in 1..(pos - 1) : text[i] \in WHITESPACE}
  IN  IF skipped = {} THEN first_whitespace = 0
      ELSE first_whitespace \in skipped /\ \A i \in skipped : first_whitespace <= i
===========================================================================
