---------------------------- MODULE StoreProofs ----------------------------
(***************************************************************************)
(* Lemmas about Store, for the calls that read the disk.                   *)
(***************************************************************************)
EXTENDS Store, TLAPS

\* The hash stage answers with acceptance or with one of its three codes.
LEMMA HashAnswers ==
  ASSUME NEW b, NEW s
  PROVE  verify_hash_pair(b, s) \in HashCodes \cup {Accepted}
BY DEF verify_hash_pair, HashCodes, HashPrecedence

\* The hash stage accepts only a sidecar that holds the record's digest.
LEMMA HashAccepts ==
  ASSUME NEW b, NEW s, verify_hash_pair(b, s) = Accepted
  PROVE  s = Sha256(b)
BY DEF verify_hash_pair, Accepted

\* A step of the generator or of the outside world keeps the disk well typed.
LEMMA DiskTypeOK ==
  ASSUME StoreTypeOK, Writer \/ Outside
  PROVE  StoreTypeOK'
<1> USE FileAssumption, BoundAssumption DEF StoreTypeOK
<1>1. ASSUME NEW p \in Paths, NEW b \in Bytes, OpenRecord(p, b)
      PROVE  StoreTypeOK'
  BY <1>1 DEF OpenRecord, Canonical
<1>2. CASE WriteRecord
  BY <1>2 DEF WriteRecord
<1>3. CASE OpenSidecar
  BY <1>3 DEF OpenSidecar, Sidecars
<1>4. CASE WriteSidecar
  BY <1>4 DEF WriteSidecar, Sidecars, Digests
<1>5. CASE Crash
  BY <1>5 DEF Crash
<1>6. ASSUME NEW p \in Paths, NEW b \in Bytes \cup {Absent}, ChangeRecord(p, b)
      PROVE  StoreTypeOK'
  BY <1>6 DEF ChangeRecord
<1>7. ASSUME NEW p \in Paths, NEW s \in {Absent, Malformed, Stray}, ChangeSidecar(p, s)
      PROVE  StoreTypeOK'
  BY <1>7 DEF ChangeSidecar, Sidecars
<1>8. QED
  BY <1>1, <1>2, <1>3, <1>4, <1>5, <1>6, <1>7 DEF Writer, Outside

\* A step that touches files: only write_pair brings in a digest, and the
\* history of what was published only grows.
LEMMA DigestsArePublished ==
  ASSUME StoreTypeOK, Writer \/ Outside,
         \A p \in Paths, b \in Bytes : sidecar[p] = Sha256(b) => b \in published[p]
  PROVE  /\ \A p \in Paths : published[p] \subseteq published'[p]
         /\ \A p \in Paths, b \in Bytes : sidecar'[p] = Sha256(b) => b \in published'[p]
<1> USE DEF StoreTypeOK
<1>1. \A p \in Paths : published[p] \subseteq published'[p]
  BY DEF Writer, Outside, OpenRecord, WriteRecord, OpenSidecar, WriteSidecar, Crash,
         ChangeRecord, ChangeSidecar
<1>2. ASSUME NEW p \in Paths, NEW b \in Bytes, sidecar'[p] = Sha256(b)
      PROVE  b \in published'[p]
  <2>1. CASE sidecar'[p] = sidecar[p]
    BY <1>1, <1>2, <2>1
  <2>2. CASE OpenSidecar
    BY <1>1, <1>2, <2>2, DigestAssumption DEF OpenSidecar
  <2>3. CASE WriteSidecar
    <3>1. CASE p = wpath
      BY <1>2, <2>3, <3>1, DigestAssumption DEF WriteSidecar
    <3>2. CASE p # wpath
      BY <1>2, <2>3, <3>2, <2>1 DEF WriteSidecar
    <3>3. QED
      BY <3>1, <3>2
  <2>4. ASSUME NEW q \in Paths, NEW s \in {Absent, Malformed, Stray}, ChangeSidecar(q, s)
        PROVE  b \in published'[p]
    BY <1>1, <1>2, <2>4, DigestAssumption DEF ChangeSidecar
  <2>5. QED
    BY <2>1, <2>2, <2>3, <2>4
       DEF Writer, Outside, OpenRecord, WriteRecord, Crash, ChangeRecord
<1>3. QED
  BY <1>1, <1>2

\* The generator's next step keeps what is known of a record that was read and
\* whose sidecar is not: it vouches for bytes only while the record has them.
\* before and after are the bytes seen with their digest, up to the step and with it.
LEMMA PendingKept ==
  ASSUME StoreTypeOK, Writer, NEW p \in Paths, NEW b \in Bytes,
         NEW before, NEW after, before \subseteq after,
         record'[p] = b /\ sidecar'[p] = Sha256(b) => b \in after,
         sidecar[p] = Sha256(b) => b \in before,
         wpc \in {"open_sidecar", "write_sidecar"} /\ wpath = p /\ wdata = b
              => record[p] = b
  PROVE  /\ sidecar'[p] = Sha256(b) => b \in after
         /\ wpc' \in {"open_sidecar", "write_sidecar"} /\ wpath' = p /\ wdata' = b
              => record'[p] = b
<1> USE DEF StoreTypeOK
<1>1. ASSUME NEW q \in Paths, NEW c \in Bytes, OpenRecord(q, c)
      PROVE  /\ sidecar' = sidecar
             /\ wpc' \notin {"open_sidecar", "write_sidecar"}
  BY <1>1 DEF OpenRecord
<1>2. CASE WriteRecord
  BY <1>2 DEF WriteRecord
<1>3. CASE OpenSidecar
  <2>1. sidecar'[p] \in {sidecar[p], Malformed}
    BY <1>3 DEF OpenSidecar
  <2>2. QED
    BY <1>3, <2>1, DigestAssumption DEF OpenSidecar
<1>4. CASE WriteSidecar
  <2>1. CASE p = wpath /\ wdata = b
    BY <1>4, <2>1 DEF WriteSidecar
  <2>2. CASE p = wpath /\ wdata # b
    BY <1>4, <2>2, DigestAssumption DEF WriteSidecar
  <2>3. CASE p # wpath
    BY <1>4, <2>3 DEF WriteSidecar
  <2>4. QED
    BY <2>1, <2>2, <2>3
<1>5. CASE Crash
  BY <1>5 DEF Crash
<1>6. QED
  BY <1>1, <1>2, <1>3, <1>4, <1>5 DEF Writer
===========================================================================
