---------------------------- MODULE ReplayProofs ----------------------------
(***************************************************************************)
(* Proofs about Replay, for every set of paths, contents and bounds.       *)
(***************************************************************************)
EXTENDS Replay, StoreProofs

\* The initial state is well typed.
LEMMA InitTypeOK == Init => TypeOK
<1> SUFFICES ASSUME Init PROVE TypeOK
  OBVIOUS
<1>1. StoreTypeOK
  BY FileAssumption, BoundAssumption
     DEF Init, StoreInit, StoreTypeOK, Sidecars, Digests, Canonical
<1>2. QED
  BY <1>1, FileAssumption, DigestAssumption DEF Init, TypeOK, Sidecars, MatchingPair

\* Every step of the system keeps it well typed.
LEMMA NextTypeOK == TypeOK /\ [Next]_vars => TypeOK'
<1> SUFFICES ASSUME TypeOK, [Next]_vars PROVE TypeOK'
  OBVIOUS
<1> USE DEF TypeOK, Finish, history
<1>s. ASSUME UNCHANGED storeVars PROVE StoreTypeOK'
  BY <1>s DEF storeVars, StoreTypeOK
<1>1. ASSUME NEW p \in Paths, StartReplay(p)
      PROVE  TypeOK'
  BY <1>1, <1>s, FileAssumption, DigestAssumption
     DEF StartReplay, Sidecars, MatchingPair, StoreTypeOK
<1>2. CASE CopyFile
  BY <1>2, <1>s DEF CopyFile, StoreTypeOK
<1>3. CASE ReadCopy
  BY <1>3, <1>s DEF ReadCopy
<1>4. CASE StatSidecar
  BY <1>4, <1>s DEF StatSidecar, replayVars
<1>5. CASE ReadSidecar
  BY <1>5, <1>s DEF ReadSidecar, StoreTypeOK
<1>6. CASE Conclude
  BY <1>6, <1>s DEF Conclude
<1>7. ASSUME NEW b \in Bytes, DamageCopy(b)
      PROVE  TypeOK'
  <2>1. StoreTypeOK'
    BY <1>7, BoundAssumption DEF DamageCopy, StoreTypeOK, writer
  <2>2. QED
    BY <1>7, <2>1 DEF DamageCopy
<1>8. CASE DiskStep
  BY <1>8, DiskTypeOK DEF DiskStep, replayVars, MatchingPair
<1>9. CASE UNCHANGED vars
  BY <1>9, <1>s DEF vars, replayVars
<1>10. QED
  BY <1>1, <1>2, <1>3, <1>4, <1>5, <1>6, <1>7, <1>8, <1>9 DEF Next, ReplayStep

\* Every step keeps what a result rests on.
LEMMA NextCallInv == CallInv /\ [Next]_vars => CallInv'
<1> SUFFICES ASSUME CallInv, [Next]_vars PROVE CallInv'
  OBVIOUS
<1> USE DEF CallInv, UnreadPCs, Finish, ok, bytes_equal, sidecar_match
<1>1. ASSUME NEW p \in Paths, StartReplay(p)
      PROVE  CallInv'
  BY <1>1 DEF StartReplay
<1>2. CASE CopyFile
  BY <1>2 DEF CopyFile
<1>3. CASE ReadCopy
  BY <1>3 DEF ReadCopy
<1>4. CASE StatSidecar
  BY <1>4 DEF StatSidecar, replayVars
<1>5. CASE ReadSidecar
  BY <1>5 DEF ReadSidecar
<1>6. CASE Conclude
  BY <1>6 DEF Conclude
<1>7. ASSUME NEW b \in Bytes, DamageCopy(b)
      PROVE  CallInv'
  BY <1>7 DEF DamageCopy
<1>8. CASE DiskStep
  BY <1>8 DEF DiskStep, replayVars
<1>9. CASE UNCHANGED vars
  BY <1>9 DEF vars, replayVars
<1>10. QED
  BY <1>1, <1>2, <1>3, <1>4, <1>5, <1>6, <1>7, <1>8, <1>9 DEF Next, ReplayStep

\* The committed pairs of the initial disk count as published.
LEMMA InitPublishedInv == Init => PublishedInv
<1> SUFFICES ASSUME Init PROVE PublishedInv
  OBVIOUS
<1>1. ASSUME NEW p \in Paths, NEW b \in Bytes, sidecar[p] = Sha256(b)
      PROVE  b \in published[p]
  BY <1>1, DigestAssumption, FileAssumption DEF Init, StoreInit, Canonical
<1>2. QED
  BY <1>1, DigestAssumption DEF Init, PublishedInv

\* A step that touches files brings in a digest only with its publication.
LEMMA DiskPublishedInv == TypeOK /\ PublishedInv /\ DiskStep => PublishedInv'
<1> SUFFICES ASSUME TypeOK, PublishedInv, DiskStep PROVE PublishedInv'
  OBVIOUS
<1>1. /\ \A p \in Paths : published[p] \subseteq published'[p]
      /\ \A p \in Paths, b \in Bytes : sidecar'[p] = Sha256(b) => b \in published'[p]
  BY DigestsArePublished DEF DiskStep, TypeOK, PublishedInv
<1>2. QED
  BY <1>1 DEF DiskStep, replayVars, PublishedInv, TypeOK
\* Every step keeps it: replay_compare only copies digests that are on disk.
LEMMA NextPublishedInv == TypeOK /\ PublishedInv /\ [Next]_vars => PublishedInv'
<1> SUFFICES ASSUME TypeOK, PublishedInv, [Next]_vars PROVE PublishedInv'
  OBVIOUS
<1> USE DEF PublishedInv, Finish, storeVars
<1>1. ASSUME NEW p \in Paths, StartReplay(p)
      PROVE  PublishedInv'
  BY <1>1, DigestAssumption DEF StartReplay
<1>2. CASE CopyFile
  BY <1>2 DEF CopyFile
<1>3. CASE ReadCopy
  BY <1>3 DEF ReadCopy
<1>4. CASE StatSidecar
  BY <1>4 DEF StatSidecar, replayVars
<1>5. CASE ReadSidecar
  BY <1>5 DEF ReadSidecar, TypeOK
<1>6. CASE Conclude
  BY <1>6 DEF Conclude
<1>7. ASSUME NEW b \in Bytes, DamageCopy(b)
      PROVE  PublishedInv'
  BY <1>7 DEF DamageCopy
<1>8. CASE DiskStep
  BY <1>8, DiskPublishedInv
<1>9. CASE UNCHANGED vars
  BY <1>9 DEF vars, replayVars
<1>10. QED
  BY <1>1, <1>2, <1>3, <1>4, <1>5, <1>6, <1>7, <1>8, <1>9 DEF Next, ReplayStep

\* Whatever happens to the record, its sidecar and the copy, a replay is ok only
\* for bytes that the generator published at that very path.
THEOREM OkOnlyPublished == Spec => []OkIsPublished
<1> DEFINE Inv == TypeOK /\ CallInv /\ PublishedInv
<1>1. Init => Inv
  BY InitTypeOK, InitPublishedInv DEF Init, CallInv, UnreadPCs
<1>2. Inv /\ [Next]_vars => Inv'
  BY NextTypeOK, NextCallInv, NextPublishedInv
<1>3. Inv => OkIsPublished
  BY DEF TypeOK, CallInv, PublishedInv, OkIsPublished, ok, bytes_equal, sidecar_match
<1>4. QED
  BY <1>1, <1>2, <1>3, PTL DEF Spec

(***************************************************************************)
(* An ok pair was on disk as a pair.                                       *)
(***************************************************************************)

\* A step that touches files keeps what the call relies on about its pair.
LEMMA DiskMatchedInv == TypeOK /\ MatchedInv /\ DiskStep => MatchedInv'
<1> SUFFICES ASSUME TypeOK, MatchedInv, DiskStep, ~ disturbed' PROVE MatchedInv'
  BY DEF MatchedInv
<1>1. ~ disturbed /\ Writer /\ UNCHANGED <<pc, replayVars>>
  BY DEF DiskStep
<1>2. /\ MatchingPair(record', sidecar', target) \subseteq matched'[target]
      /\ matched[target] \subseteq matched'[target]
  BY DEF DiskStep, TypeOK
<1>3. ASSUME pc \in UnreadPCs
      PROVE  /\ sidecar'[target] = Sha256(stored) => stored \in matched'[target]
             /\ wpc' \in {"open_sidecar", "write_sidecar"} /\ wpath' = target /\ wdata' = stored
                  => record'[target] = stored
  BY <1>1, <1>2, <1>3, PendingKept DEF TypeOK, MatchedInv, MatchingPair
<1>4. QED
  BY <1>1, <1>2, <1>3 DEF MatchedInv, replayVars

\* Every step of the replay keeps it: the sidecar is read after the record.
LEMMA NextMatchedInv == TypeOK /\ CallInv /\ MatchedInv /\ [Next]_vars => MatchedInv'
<1> SUFFICES ASSUME TypeOK, CallInv, MatchedInv, [Next]_vars PROVE MatchedInv'
  OBVIOUS
<1> USE DEF MatchedInv, UnreadPCs, Finish, storeVars, history
<1>1. ASSUME NEW p \in Paths, StartReplay(p)
      PROVE  MatchedInv'
  <2>1. matched'[p] = MatchingPair(record, sidecar, p) /\ target' = p
    BY <1>1 DEF StartReplay
  <2>2. stored' \in Bytes /\ (pc' = "copy" => stored' = record[p])
    BY <1>1, FileAssumption DEF StartReplay, TypeOK, StoreTypeOK
  <2>3. replay_sidecar' = Malformed /\ pc' \in {"copy", "done"} /\ UNCHANGED storeVars
    BY <1>1 DEF StartReplay
  <2>4. QED
    BY <2>1, <2>2, <2>3, DigestAssumption DEF MatchingPair
<1>2. CASE CopyFile
  BY <1>2 DEF CopyFile
<1>3. CASE ReadCopy
  BY <1>3 DEF ReadCopy
<1>4. CASE StatSidecar
  BY <1>4 DEF StatSidecar, replayVars
<1>5. CASE ReadSidecar
  BY <1>5 DEF ReadSidecar
<1>6. CASE Conclude
  BY <1>6 DEF Conclude
<1>7. ASSUME NEW b \in Bytes, DamageCopy(b)
      PROVE  MatchedInv'
  BY <1>7 DEF DamageCopy
<1>8. CASE DiskStep
  BY <1>8, DiskMatchedInv
<1>9. CASE UNCHANGED vars
  BY <1>9 DEF vars, replayVars
<1>10. QED
  BY <1>1, <1>2, <1>3, <1>4, <1>5, <1>6, <1>7, <1>8, <1>9 DEF Next, ReplayStep

\* Record, copy and sidecar are read at three instants, yet while only the
\* generator writes, the bytes of an ok replay were on disk with their digest.
THEOREM OkPairOnDisk == Spec => []OkPairWasOnDisk
<1> DEFINE Inv == TypeOK /\ CallInv /\ MatchedInv
<1>1. Init => Inv
  BY InitTypeOK, DigestAssumption DEF Init, CallInv, UnreadPCs, MatchedInv, TypeOK
<1>2. Inv /\ [Next]_vars => Inv'
  BY NextTypeOK, NextCallInv, NextMatchedInv
<1>3. Inv => OkPairWasOnDisk
  BY DEF CallInv, MatchedInv, OkPairWasOnDisk, ok, bytes_equal, sidecar_match
<1>4. QED
  BY <1>1, <1>2, <1>3, PTL DEF Spec

(***************************************************************************)
(* On files that stand still, replay agrees with the hash stage.           *)
(***************************************************************************)

\* What the call has read stays what the files hold.
LEMMA NextQuietInv == TypeOK /\ CallInv /\ QuietInv /\ [Next]_vars => QuietInv'
<1> SUFFICES ASSUME TypeOK, CallInv, QuietInv, [Next]_vars, quiet' PROVE QuietInv'
  BY DEF QuietInv
<1> USE DEF QuietInv, QuietReplayIsHashStage, UnreadPCs, Finish, storeVars, history
<1>1. ASSUME NEW p \in Paths, StartReplay(p)
      PROVE  QuietInv'
  BY <1>1 DEF StartReplay
<1>2. CASE CopyFile
  BY <1>2 DEF CopyFile
<1>3. CASE ReadCopy
  BY <1>3 DEF ReadCopy
<1>4. CASE StatSidecar
  BY <1>4 DEF StatSidecar, replayVars, CallInv
<1>5. CASE ReadSidecar
  BY <1>5 DEF ReadSidecar
<1>6. CASE Conclude
  <2>1. quiet /\ record[target] # Absent /\ stored = record[target] /\ replayed = stored
    BY <1>6 DEF Conclude
  <2>2. ok <=> verify_hash_pair(record[target], sidecar[target]) = Accepted
    BY <1>6, <2>1, DigestAssumption
       DEF Conclude, TypeOK, ok, bytes_equal, sidecar_match, verify_hash_pair, Accepted
  <2>3. QED
    BY <1>6, <2>1, <2>2 DEF Conclude, verify_hash_pair
<1>7. ASSUME NEW b \in Bytes, DamageCopy(b)
      PROVE  QuietInv'
  BY <1>7 DEF DamageCopy
<1>8. CASE DiskStep
  BY <1>8 DEF DiskStep, disk, replayVars, verify_hash_pair
<1>9. CASE UNCHANGED vars
  BY <1>9 DEF vars, replayVars, verify_hash_pair
<1>10. QED
  BY <1>1, <1>2, <1>3, <1>4, <1>5, <1>6, <1>7, <1>8, <1>9 DEF Next, ReplayStep

\* On files that do not change during the call, replay_compare is ok exactly when
\* the hash stage of audit_record accepts the pair.
THEOREM QuietReplayIsExact == Spec => []QuietReplayIsHashStage
<1> DEFINE Inv == TypeOK /\ CallInv /\ QuietInv
<1>1. Init => Inv
  BY InitTypeOK DEF Init, CallInv, UnreadPCs, QuietInv, QuietReplayIsHashStage
<1>2. Inv /\ [Next]_vars => Inv'
  BY NextTypeOK, NextCallInv, NextQuietInv
<1>3. Inv => QuietReplayIsHashStage
  BY DEF QuietInv, QuietReplayIsHashStage
<1>4. QED
  BY <1>1, <1>2, <1>3, PTL DEF Spec
===========================================================================
