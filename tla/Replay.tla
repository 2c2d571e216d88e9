------------------------------- MODULE Replay -------------------------------
(***************************************************************************)
(* verify.replay_compare: the stored bytes are copied to another directory *)
(* and read back; the copy is compared with the first reading and with the *)
(* stored sidecar.  The record is read twice, the copy can be damaged on   *)
(* its way, and the disk changes underneath as in module Store.            *)
(***************************************************************************)
EXTENDS Store

VARIABLES
  pc,             \* next step of replay_compare
  target,         \* record_path
  stored,         \* the bytes of the first reading
  copy,           \* the file in the temporary directory
  replayed,       \* the bytes read back from it
  replay_sidecar, \* the sidecar as read; Malformed stands for b"" too
  result,         \* the ReplayResult: "none" yet, "ok", "not_ok" or "aborted"
  matched,        \* history: as in module Audit
  disturbed,      \* history: a change from outside, or of the copy, since the call began
  quiet           \* history: no record, sidecar or copy has changed since then

replayVars == <<target, stored, copy, replayed, replay_sidecar, result>>
history    == <<matched, disturbed, quiet>>
vars       == <<storeVars, pc, replayVars, history>>

MatchingPair(rec, sc, p) == {b \in Bytes : rec[p] = b /\ sc[p] = Sha256(b)}

Init ==
  /\ StoreInit
  /\ pc = "idle"
  /\ target \in Paths
  /\ stored = Empty
  /\ copy = Empty
  /\ replayed = Empty
  /\ replay_sidecar = Malformed
  /\ result = "none"
  /\ matched = [p \in Paths |-> MatchingPair(record, sidecar, p)]
  /\ disturbed = FALSE
  /\ quiet = TRUE

---------------------------------------------------------------------------

Finish(r) == pc' = "done" /\ result' = r

StartReplay(p) ==
  /\ pc \in {"idle", "done"}
  /\ target' = p
  /\ copy' = Empty
  /\ replayed' = Empty
  /\ replay_sidecar' = Malformed
  /\ matched' = [q \in Paths |-> MatchingPair(record, sidecar, q)]
  /\ disturbed' = FALSE
  /\ quiet' = TRUE
  /\ \/ record[p] = Absent /\ stored' = Empty /\ Finish("aborted")
     \/ record[p] # Absent /\ stored' = record[p] /\ pc' = "copy" /\ result' = "none"
  /\ UNCHANGED storeVars

\* shutil.copyfile reads the record once more.
CopyFile ==
  /\ pc = "copy"
  /\ \/ record[target] = Absent /\ Finish("aborted") /\ UNCHANGED copy
     \/ record[target] # Absent /\ copy' = record[target] /\ pc' = "read_copy" /\ UNCHANGED result
  /\ UNCHANGED <<storeVars, history, target, stored, replayed, replay_sidecar>>

ReadCopy ==
  /\ pc = "read_copy"
  /\ replayed' = copy
  /\ pc' = "stat_sidecar"
  /\ UNCHANGED <<storeVars, history, target, stored, copy, replay_sidecar, result>>

StatSidecar ==
  /\ pc = "stat_sidecar"
  /\ pc' = IF sidecar[target] = Absent THEN "conclude" ELSE "read_sidecar"
  /\ UNCHANGED <<storeVars, history, replayVars>>

\* Mutant: a sidecar that is gone is waited for.
ReadSidecarRetrying ==
  /\ pc = "read_sidecar"
  /\ \/ sidecar[target] = Absent /\ UNCHANGED <<pc, replay_sidecar, result>>
     \/ /\ sidecar[target] # Absent
        /\ replay_sidecar' = sidecar[target]
        /\ pc' = "conclude" /\ UNCHANGED result
  /\ UNCHANGED <<storeVars, history, target, stored, copy, replayed>>

ReadSidecar ==
  /\ pc = "read_sidecar"
  /\ \/ sidecar[target] = Absent /\ Finish("aborted") /\ UNCHANGED replay_sidecar
     \/ /\ sidecar[target] # Absent
        /\ replay_sidecar' = sidecar[target]
        /\ pc' = "conclude" /\ UNCHANGED result
  /\ UNCHANGED <<storeVars, history, target, stored, copy, replayed>>

bytes_equal == stored = replayed

\* Mutants: any digest matches; a missing or malformed sidecar is let pass.
sidecar_matchAny      == replay_sidecar # Malformed
sidecar_matchOptional == replay_sidecar \in {Malformed, Sha256(replayed)}

sidecar_match == replay_sidecar = Sha256(replayed)

\* Mutant: the digest of the copy is all that counts.
okBySidecar == sidecar_match

ok == bytes_equal /\ Sha256(stored) = Sha256(replayed) /\ sidecar_match

Conclude ==
  /\ pc = "conclude"
  /\ Finish(IF ok THEN "ok" ELSE "not_ok")
  /\ UNCHANGED <<storeVars, history, target, stored, copy, replayed, replay_sidecar>>

ReplayStep ==
  \/ CopyFile
  \/ ReadCopy
  \/ StatSidecar
  \/ ReadSidecar
  \/ Conclude

\* The transfer that replay is there to test: the copy is not what was sent.
DamageCopy(b) ==
  /\ pc = "read_copy"
  /\ changes < MaxChanges
  /\ b # copy
  /\ copy' = b
  /\ changes' = changes + 1
  /\ disturbed' = TRUE
  /\ quiet' = FALSE
  /\ UNCHANGED <<record, sidecar, writer, writes, published>>
  /\ UNCHANGED <<pc, target, stored, replayed, replay_sidecar, result, matched>>

DiskStep ==
  /\ \/ Writer /\ UNCHANGED disturbed
     \/ Outside /\ disturbed' = TRUE
  /\ matched' = [p \in Paths |-> matched[p] \cup MatchingPair(record', sidecar', p)]
  /\ quiet' = (quiet /\ UNCHANGED disk)
  /\ UNCHANGED <<pc, replayVars>>

Next ==
  \/ \E p \in Paths : StartReplay(p)
  \/ ReplayStep
  \/ \E b \in Bytes : DamageCopy(b)
  \/ DiskStep

\* A call runs on: nothing in replay_compare waits for anyone.
Spec == Init /\ [][Next]_vars /\ WF_vars(ReplayStep)

---------------------------------------------------------------------------

\* A replay that is ok returned the bytes of the first reading, and the
\* generator published them at this path.
OkIsPublished ==
  pc = "done" /\ result = "ok" => stored = replayed /\ stored \in published[target]

\* While only the generator writes, those bytes were on disk with their digest
\* at one instant of the call, although three files were read at three instants.
OkPairWasOnDisk ==
  pc = "done" /\ result = "ok" /\ ~disturbed => stored \in matched[target]

\* On files that do not change, replay reports no difference of bytes and agrees
\* with the hash stage, though the two read the sidecar by different rules.
QuietReplayIsHashStage ==
  pc = "done" /\ quiet =>
    IF record[target] = Absent THEN result = "aborted"
    ELSE /\ stored = replayed
         /\ result = IF verify_hash_pair(record[target], sidecar[target]) = Accepted
                     THEN "ok" ELSE "not_ok"

\* Every call of replay_compare ends, whatever appears and vanishes under it.
ReplayEnds == (pc # "idle") ~> (pc = "done")

---------------------------------------------------------------------------
(* The inductive invariants behind the safety properties.                  *)

TypeOK ==
  /\ StoreTypeOK
  /\ pc \in {"idle", "copy", "read_copy", "stat_sidecar", "read_sidecar", "conclude", "done"}
  /\ target \in Paths
  /\ stored \in Bytes /\ copy \in Bytes /\ replayed \in Bytes
  /\ replay_sidecar \in Sidecars \ {Absent}
  /\ result \in {"none", "ok", "not_ok", "aborted"}
  /\ matched \in [Paths -> SUBSET Bytes]
  /\ disturbed \in BOOLEAN /\ quiet \in BOOLEAN

UnreadPCs == {"copy", "read_copy", "stat_sidecar", "read_sidecar"}

\* A result rests on what was read; nothing is known of the sidecar before.
CallInv ==
  /\ pc \in UnreadPCs => replay_sidecar = Malformed
  /\ pc = "done" /\ result = "ok" => ok

\* Digests come from write_pair only.
PublishedInv ==
  /\ \A p \in Paths, b \in Bytes : sidecar[p] = Sha256(b) => b \in published[p]
  /\ \A b \in Bytes : replay_sidecar = Sha256(b) => b \in published[target]

\* As in module Audit: while its sidecar is unread, the generator lets the disk
\* vouch for the bytes of the first reading only beside those bytes.
MatchedInv ==
  ~disturbed =>
    /\ pc \in UnreadPCs =>
         /\ sidecar[target] = Sha256(stored) => stored \in matched[target]
         /\ wpc \in {"open_sidecar", "write_sidecar"} /\ wpath = target /\ wdata = stored
              => record[target] = stored
    /\ replay_sidecar = Sha256(stored) => stored \in matched[target]

\* What the call has read is still what the files hold.
QuietInv ==
  quiet =>
    /\ pc \in UnreadPCs \cup {"conclude"} => record[target] # Absent /\ stored = record[target]
    /\ pc = "read_copy" => copy = stored
    /\ pc \in {"stat_sidecar", "read_sidecar", "conclude"} => replayed = stored
    /\ pc = "read_sidecar" => sidecar[target] # Absent
    /\ pc = "conclude" =>
         replay_sidecar = IF sidecar[target] = Absent THEN Malformed ELSE sidecar[target]
    /\ QuietReplayIsHashStage

IInv == TypeOK /\ CallInv /\ PublishedInv /\ MatchedInv /\ QuietInv
===========================================================================
