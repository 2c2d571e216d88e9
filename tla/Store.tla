------------------------------- MODULE Store -------------------------------
(***************************************************************************)
(* Record files with their .sha256 sidecars on disk, the generator that    *)
(* writes such pairs (write_pair: the record first, then the sidecar), and *)
(* what happens to the files from outside: a killed generator, a record    *)
(* that is edited, truncated or deleted, a sidecar that is lost or         *)
(* corrupted.  File contents are opaque: all that matters of a byte string *)
(* is what check_format says of it and its digest.                         *)
(***************************************************************************)
EXTENDS RejectionReasons

CONSTANTS
  Paths,           \* record paths; the sidecar of p is p with ".sha256" appended
  Bytes,           \* contents a record file can have
  Empty,           \* the contents of a file that was opened for writing
  Absent,          \* there is no such file
  Malformed,       \* a sidecar that is not 64 lowercase hex characters and LF
  Stray,           \* a well-formed digest that is the SHA-256 of none of Bytes
  FormatCode(_),   \* what check_format answers for the given contents
  Sha256(_),       \* SHA-256
  MaxWrites,       \* bound on the pairs the generator starts to write
  MaxChanges       \* bound on the changes made from outside

ASSUME FileAssumption ==
  /\ Empty \in Bytes
  /\ Absent \notin Bytes
  /\ FormatCode(Empty) \in FormatCodes
  /\ \A b \in Bytes : FormatCode(b) \in FormatCodes \cup {Accepted, Uncaught}

\* Digests identify contents and differ from everything else a sidecar holds.
ASSUME DigestAssumption ==
  /\ \A a, b \in Bytes : Sha256(a) = Sha256(b) => a = b
  /\ \A b \in Bytes : Sha256(b) \notin {Absent, Malformed, Stray}
  /\ Stray # Absent /\ Stray # Malformed /\ Malformed # Absent

ASSUME BoundAssumption == MaxWrites \in Nat /\ MaxChanges \in Nat

VARIABLES
  record,     \* contents of each record file
  sidecar,    \* contents of each sidecar file
  wpc,        \* next step of write_pair
  wpath,      \* path argument of write_pair
  wdata,      \* data argument of write_pair
  writes,     \* pairs started so far
  changes,    \* changes made from outside so far
  published   \* history: the contents whose sidecar was written to each path

disk      == <<record, sidecar>>
writer    == <<wpc, wpath, wdata>>
storeVars == <<record, sidecar, wpc, wpath, wdata, writes, changes, published>>

Digests   == {Sha256(b) : b \in Bytes}
Sidecars  == Digests \cup {Absent, Malformed, Stray}
Canonical == {b \in Bytes : FormatCode(b) = Accepted}

StoreTypeOK ==
  /\ record \in [Paths -> Bytes \cup {Absent}]
  /\ sidecar \in [Paths -> Sidecars]
  /\ wpc \in {"idle", "write_record", "open_sidecar", "write_sidecar"}
  /\ wpath \in Paths
  /\ wdata \in Bytes
  /\ wpc # "idle" => wdata \in Canonical
  /\ writes \in 0..MaxWrites
  /\ changes \in 0..MaxChanges
  /\ published \in [Paths -> SUBSET Canonical]

\* Every path holds nothing or a committed pair.
StoreInit ==
  /\ record \in [Paths -> Canonical \cup {Absent}]
  /\ sidecar = [p \in Paths |->
                  IF record[p] = Absent THEN Absent ELSE Sha256(record[p])]
  /\ wpc = "idle"
  /\ wpath \in Paths
  /\ wdata = Empty
  /\ writes = 0
  /\ changes = 0
  /\ published = [p \in Paths |-> {record[p]} \ {Absent}]

---------------------------------------------------------------------------
(* The hash stage on contents b and a sidecar read as s (Absent: None).    *)

\* Mutant: any well-formed digest will do.
verify_hash_pairWellFormed(b, s) ==
  IF s = Absent THEN "HASH_FILE_MISSING"
  ELSE IF s = Malformed THEN "HASH_FORMAT_INVALID"
  ELSE Accepted

verify_hash_pair(b, s) ==
  IF s = Absent THEN "HASH_FILE_MISSING"
  ELSE IF s = Malformed THEN "HASH_FORMAT_INVALID"
  ELSE IF s # Sha256(b) THEN "HASH_MISMATCH"
  ELSE Accepted

---------------------------------------------------------------------------
(* write_pair, called by the generator on bytes that check_format accepts. *)
(* Opening a file for writing truncates it; a partly written record is one *)
(* without its final LF and is rejected just as the empty file is.         *)

OpenRecord(p, b) ==
  /\ wpc = "idle"
  /\ writes < MaxWrites
  /\ FormatCode(b) = Accepted
  /\ writes' = writes + 1
  /\ wpath' = p
  /\ wdata' = b
  /\ record' = [record EXCEPT ![p] = Empty]
  /\ wpc' = "write_record"
  /\ UNCHANGED <<sidecar, changes, published>>

\* Mutant: a write that fails halfway is not noticed.
WriteRecordPartly ==
  /\ wpc = "write_record"
  /\ wpc' = "open_sidecar"
  /\ UNCHANGED <<record, sidecar, wpath, wdata, writes, changes, published>>

WriteRecord ==
  /\ wpc = "write_record"
  /\ record' = [record EXCEPT ![wpath] = wdata]
  /\ wpc' = "open_sidecar"
  /\ UNCHANGED <<sidecar, wpath, wdata, writes, changes, published>>

OpenSidecar ==
  /\ wpc = "open_sidecar"
  /\ sidecar' = [sidecar EXCEPT ![wpath] = Malformed]
  /\ wpc' = "write_sidecar"
  /\ UNCHANGED <<record, wpath, wdata, writes, changes, published>>

WriteSidecar ==
  /\ wpc = "write_sidecar"
  /\ sidecar' = [sidecar EXCEPT ![wpath] = Sha256(wdata)]
  /\ published' = [published EXCEPT ![wpath] = @ \cup {wdata}]
  /\ wpc' = "idle"
  /\ UNCHANGED <<record, wpath, wdata, writes, changes>>

\* The generator is killed between two of its steps; a later run starts over.
Crash ==
  /\ wpc # "idle"
  /\ wpc' = "idle"
  /\ UNCHANGED <<record, sidecar, wpath, wdata, writes, changes, published>>

Writer ==
  \/ \E p \in Paths, b \in Bytes : OpenRecord(p, b)
  \/ WriteRecord
  \/ OpenSidecar
  \/ WriteSidecar
  \/ Crash

---------------------------------------------------------------------------
(* The world outside the package.                                          *)

ChangeRecord(p, b) ==
  /\ changes < MaxChanges
  /\ b # record[p]
  /\ record' = [record EXCEPT ![p] = b]
  /\ changes' = changes + 1
  /\ UNCHANGED <<sidecar, wpc, wpath, wdata, writes, published>>

ChangeSidecar(p, s) ==
  /\ changes < MaxChanges
  /\ s # sidecar[p]
  /\ sidecar' = [sidecar EXCEPT ![p] = s]
  /\ changes' = changes + 1
  /\ UNCHANGED <<record, wpc, wpath, wdata, writes, published>>

Outside ==
  \/ \E p \in Paths, b \in Bytes \cup {Absent} : ChangeRecord(p, b)
  \/ \E p \in Paths, s \in {Absent, Malformed, Stray} : ChangeSidecar(p, s)

===========================================================================
