----------------------------- MODULE MCCompare -----------------------------
(* Instance of Compare for TLC.                                            *)
EXTENDS Compare

MCDecoded(s) ==
  CASE s = "k_escaped" -> "k" [] s = "intent_escaped" -> "intent" [] OTHER -> s

\* Two numbers with exponents that Decimal refuses.
Beyond == {"1e1000000000000000000", "2e1000000000000000000"}

\* 1, 1.0 and 1e0 are equal, and so are 2 and 20e-1; 100 and 200 stand for large values.
MCNumericValue(raw) ==
  CASE raw \in {"1", "1.0", "1e0"} -> 1 [] raw \in {"2", "20e-1"} -> 2
    [] raw = "1e1000000000000000000" -> 100 [] raw = "2e1000000000000000000" -> 200
MCInRange(raw) == raw \notin Beyond

Numbers == {Scalar("number", x) : x \in {"1", "1.0", "2"}}
Scalars == Numbers \cup {Scalar("string", "s"), Scalar("string", "s_escaped"),
                         Scalar("true", "true"), Scalar("false", "false"), Scalar("null", "null")}

Arrays(nodes) ==
  {Tree("array", <<>>)} \cup {Tree("array", <<Member("", x)>>) : x \in nodes}
    \cup {Tree("array", <<Member("", x), Member("", y)>>) : x, y \in nodes}

Objects(names, nodes) ==
  {Tree("object", <<>>)}
    \cup {Tree("object", <<Member(k, x)>>) : k \in names, x \in nodes}
    \cup {Tree("object", <<Member(k, x), Member("l", y)>>) : k \in names, x, y \in nodes}
    \cup {Tree("object", <<Member("l", y), Member(k, x)>>) : k \in names, x, y \in nodes}

One == Tree("object", <<Member("k", Scalar("number", "1"))>>)

Record(first, event, meta, invariant) ==
  [ format  |-> Accepted,
    members |-> << Member(first, One), Member("event", event), Member("observe", One),
                   Member("meta", meta), Member("invariant", invariant) >> ]

Invalid(code) == [format |-> code, members |-> <<>>]

Values(names) ==
  Scalars \cup Arrays(Numbers) \cup Objects(names, Numbers)
    \cup {Tree("array", <<Member("", x)>>) : x \in Objects(names, {Scalar("number", "1")})}

\* Numbers beyond Decimal's range, alone and before or behind a difference.
Extreme ==
  LET numbers == {Scalar("number", x) : x \in Beyond \cup {"1", "1.0", "2"}}
      pairs == {Tree("array", <<Member("", x), Member("", y)>>) : x, y \in numbers}
  IN  numbers \cup pairs
        \cup {Tree("object", <<Member(k, x), Member("l", One)>>) : k \in {"k", "m"}, x \in pairs}

Small == {One, Tree("object", <<Member("k", Scalar("number", "1.0"))>>),
          Tree("object", <<Member("k", Scalar("number", "2"))>>)}

MCFiles ==
  {Record("intent", One, One, v) : v \in Values({"k"})}
    \cup {Record("intent", e, m, v) : e, m \in Small, v \in Numbers}
    \cup {Record("intent_escaped", One, One, v) : v \in Numbers}
    \cup {Record("intent", e, One, v) : e \in Small, v \in Extreme}
    \cup {Invalid("INVALID_JSON"), Invalid("DUPLICATE_KEY")}

\* With names that are spelled with an escape inside the invariant ...
EscapedNames == {Record("intent", One, One, v) : v \in Values({"k", "k_escaped"})}
\* ... and at the top level.
EscapedSections == {Record(k, e, One, v) : k \in {"intent", "intent_escaped"}, e \in Small,
                                          v \in Values({"k"})}

\* The nodes of some files, whose sections are at most four levels deep.
Children(nodes) == UNION {{x.members[i].node : i \in 1..Len(x.members)} : x \in nodes}

NodesOf(files) ==
  LET first  == Children(files)
      second == Children(first)
      third  == Children(second)
  IN  first \cup second \cup third \cup Children(third)

\* How deep a node nests.
RECURSIVE MCNesting(_)
MCNesting(node) ==
  LET deep == {MCNesting(node.members[i].node) : i \in 1..Len(node.members)}
  IN  IF deep = {} THEN 0 ELSE 1 + CHOOSE n \in deep : \A k \in deep : k <= n

MCNodes == NodesOf(MCFiles)
NodesOfNames == NodesOf(EscapedNames)
NodesOfSections == NodesOf(EscapedSections)
===========================================================================
