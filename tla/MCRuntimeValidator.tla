------------------------- MODULE MCRuntimeValidator -------------------------
(* Instance of RuntimeValidator for TLC: streams of up to three records,   *)
(* built from one that is in order by changes of one or two fields.        *)
EXTENDS RuntimeValidator

CONSTANT r1, r2, r3, never

MCIds    == {r1, r2, r3}
MCValues == {"1", "1.0", "1e0"}

\* json.dumps writes every float in one form.
MCRewritten(v) == IF v = "1e0" THEN "1.0" ELSE v

IdOf == <<r1, r2, r3>>
Good(n) ==
  [ schema |-> TRUE, refs |-> TRUE, occurred |-> 2 * n, observed |-> 2 * n,
    timestamp |-> 2 * n + 1, sequence |-> n, id |-> IdOf[n], invariant |-> "1.0",
    intent |-> "1" ]

Submitted(r) == [id |-> r.id, invariant |-> r.invariant, intent |-> r.intent]

Stream(n) == [k \in 1..n |-> Good(k)]
Doc(stream, rs, ss) ==
  [envelope |-> TRUE, stream |-> stream, records |-> rs, submissions |-> ss]

\* A record with one field changed.
RecordEdits(r) ==
  {[r EXCEPT !.schema = FALSE], [r EXCEPT !.refs = FALSE]}
    \cup {[r EXCEPT !.occurred = t] : t \in {never} \cup 1..7}
    \cup {[r EXCEPT !.observed = t] : t \in {never} \cup 1..7}
    \cup {[r EXCEPT !.timestamp = t] : t \in {never} \cup 1..7}
    \cup {[r EXCEPT !.sequence = n] : n \in 0..3}
    \cup {[r EXCEPT !.id = x] : x \in MCIds}
    \cup {[r EXCEPT !.invariant = v] : v \in MCValues}
    \cup {[r EXCEPT !.intent = v] : v \in MCValues}

StreamEdits(rs) ==
  {rs} \cup UNION {{[rs EXCEPT ![n] = e] : e \in RecordEdits(rs[n])} : n \in 1..Len(rs)}

Swapped(rs, n) == [rs EXCEPT ![n] = rs[n + 1], ![n + 1] = rs[n]]

Submissions(n) ==
  LET all == [k \in 1..n |-> Submitted(Good(k))]
  IN  {all, SubSeq(all, 1, n - 1), Append(all, all[1]), <<>>}
        \cup {Swapped(all, k) : k \in 1..(n - 1)}

Streams(n) ==
  UNION {StreamEdits(rs) : rs \in StreamEdits(Stream(n)) \cup
                                  {Swapped(Stream(n), k) : k \in 1..(n - 1)}}

MCDocs ==
  {Doc(TRUE, rs, ss) : rs \in Streams(2), ss \in Submissions(2)}
    \cup {Doc(TRUE, rs, ss) : rs \in StreamEdits(Stream(3)), ss \in Submissions(3)}
    \cup {Doc(FALSE, rs, ss) : rs \in StreamEdits(Stream(1)),
                               ss \in {<<>>, <<Submitted(Good(1))>>}}
    \cup {[Doc(s, Stream(1), <<>>) EXCEPT !.envelope = FALSE] : s \in BOOLEAN}
===========================================================================
