-------------------------- MODULE MCRuntimeChecks --------------------------
(* Instance of RuntimeChecks for TLC: the repository as it is, with one or *)
(* two files changed or the contract edited, and one with a further        *)
(* example for every document of MCRuntimeValidator.                       *)
EXTENDS RuntimeChecks, MCRuntimeValidator

Other == "examples/other.json"
MCPaths == REQUIRED_FILES \cup {Other}

Contract(examples) ==
  [ schema |-> SchemaFile("canonical-record"), fields |-> RECORD_FIELDS,
    layers |-> [n \in DOMAIN RECORD_FIELDS |->
                  [field |-> RECORD_FIELDS[n], schema |-> SchemaFile(RECORD_FIELDS[n])]],
    examples |-> examples, spec |-> TRUE, reserved |-> TRUE,
    guarantees |-> <<"G1", "G2", "G3", "G4">> ]

Examples == <<"examples/verify-success.json", "examples/verify-fail.json",
              "examples/replay.json">>

Committed ==
  [p \in MCPaths |->
     CASE p = CONTRACT -> Contract(Examples)
       [] p \in SchemaFiles -> "valid"
       [] p = Examples[1] -> VerifySuccess
       [] p = Examples[2] -> ExampleDoc(FALSE, <<ExampleRecord(1, "null")>>)
       [] p = Examples[3] -> ReplayStream
       [] p = Other -> Absent
       [] OTHER -> NotJson]

BrokenDocs ==
  {[ReplayStream EXCEPT !.records[2].invariant = "1"],
   [ReplayStream EXCEPT !.records[3].sequence = 1],
   [ReplayStream EXCEPT !.records[1].schema = FALSE],
   [VerifySuccess EXCEPT !.submissions = <<>>],
   [VerifySuccess EXCEPT !.records[1].refs = FALSE],
   [VerifySuccess EXCEPT !.envelope = FALSE]}

FileEdits(r) ==
  {[r EXCEPT ![p] = x] : p \in REQUIRED_FILES, x \in {Absent, Blank, Binary, NotJson}}
    \cup {[r EXCEPT ![p] = x] : p \in SchemaFiles, x \in {"other dialect", "invalid"}}
    \cup {[r EXCEPT ![p] = d] : p \in ExampleFiles, d \in BrokenDocs}

ContractEdits(c) ==
  {[c EXCEPT !.schema = x] : x \in {None, Other}}
    \cup {[c EXCEPT !.fields = Tail(@)], [c EXCEPT !.layers = <<>>],
          [c EXCEPT !.layers = Reverse(@)], [c EXCEPT !.layers[1].schema = None],
          [c EXCEPT !.spec = FALSE], [c EXCEPT !.reserved = FALSE],
          [c EXCEPT !.guarantees = Tail(@)]}
    \cup {[c EXCEPT !.examples = x] :
            x \in {None, <<>>, Tail(c.examples), Append(c.examples, Other), <<Other>>}}

Combined ==
  UNION {FileEdits([Committed EXCEPT ![CONTRACT] = c]) : c \in ContractEdits(Contract(Examples))}
    \cup UNION {FileEdits([Committed EXCEPT ![Examples[1]] = d]) : d \in BrokenDocs}
    \cup {[Committed EXCEPT ![CONTRACT] = Contract(<<Other>>), ![Other] = d] : d \in MCDocs}

SelfTested ==
  FileEdits(Committed)
    \cup {[Committed EXCEPT ![CONTRACT] = c] : c \in ContractEdits(Contract(Examples))}

\* Every document of a run; ids, invariants and intents are the ones they hold.
RunDocs ==
  MCDocs \cup {VerifySuccess, ReplayStream, ExampleDoc(FALSE, <<ExampleRecord(1, "null")>>)}
    \cup BrokenDocs
RunIds    == MCIds \cup 1..3
RunValues == MCValues \cup {"A", "B", "null", "intent-1", "intent-2", "intent-3"}

MCRuns ==
  (({Committed} \cup SelfTested \cup Combined) \X {"run"})
    \cup (({Committed} \cup SelfTested) \X {"self_test"})
===========================================================================
