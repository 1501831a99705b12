-------------------------- MODULE QuarantineProofs --------------------------
(* Proofs about Quarantine, for any set of files and of callers.              *)
EXTENDS Quarantine, TLAPS

Staged == {"write", "link"}
Syncing == {"heal_sync_incoming", "heal_sync_leaf", "reopen",
            "sync_incoming", "sync_leaf", "verify"}
Recovering == {"inspect", "match", "heal"}
Losing == {"lost_sync_incoming", "open", "heal_sync_incoming",
           "heal_sync_leaf", "reopen", "refused"} \cup Recovering
Found == {"unlink"} \cup Losing \cup Syncing

(* A file that was never created has no name and no owner.                    *)
FreshFiles ==
  \A f \in Files : bytes[f] = "none" =>
    /\ f \notin incoming \cup unsynced /\ f # object
    /\ \A p \in Callers : file[p] # f

(* Publishers before their link own distinct staging files, which are there.  *)
OwnStaging ==
  \A p \in Callers : pc[p] \in Staged =>
    /\ file[p] \in incoming /\ file[p] # object
    /\ \A q \in Callers \ {p} : pc[q] \in Staged => file[q] # file[p]

VerifiedFiles ==
  /\ object # NoFile => bytes[object] = "right" /\ object \in synced
  /\ \A p \in Callers : pc[p] = "link" =>
       bytes[file[p]] = "right" /\ file[p] \in synced

(* What a caller has seen of the object still holds.                          *)
SeenObject ==
  \A p \in Callers :
    /\ pc[p] \in Found => object # NoFile
    /\ pc[p] \in Syncing => object \notin incoming
    /\ pc[p] = "unlink" => object = file[p]
    /\ pc[p] = "verify" => kept
    /\ pc[p] \in Losing /\ kind[p] = "persist" => object # file[p]

Promised == "persist" \in returned => object # NoFile /\ kept

AloneSees ==
  \A p \in alone :
    /\ \A q \in Callers \ {p} : ~InCall(q)
    /\ pc[p] \in Recovering => object \in incoming
    /\ pc[p] # "refused"

IInv == TypeOK /\ FreshFiles /\ OwnStaging /\ VerifiedFiles /\ SeenObject
        /\ Promised /\ AloneSees
-----------------------------------------------------------------------------
(* Every step keeps the types. *)
LEMMA TypesKept ==
  ASSUME TypeOK, [Next]_vars
  PROVE  TypeOK'
<1> USE ConstantsAssumption DEF TypeOK, Points, Resting, InCall
<1>1. ASSUME NEW p \in Callers, CreateStaging(p) PROVE TypeOK'
  BY <1>1 DEF CreateStaging, Begins, OpenLeaf, Goto, directory
<1>2. ASSUME NEW p \in Callers, WriteRight(p) PROVE TypeOK'
  BY <1>2 DEF WriteRight, Continues, Goto, directory
<1>3. ASSUME NEW p \in Callers, Discard(p) PROVE TypeOK'
  BY <1>3 DEF Discard, Continues, RemoveStaging, Goto, directory
<1>4. ASSUME NEW p \in Callers, LinkObject(p) PROVE TypeOK'
  BY <1>4 DEF LinkObject, Continues, Goto, directory
<1>5. ASSUME NEW p \in Callers, ObjectExists(p) PROVE TypeOK'
  BY <1>5 DEF ObjectExists, Continues, RemoveStaging, Goto, directory
<1>6. ASSUME NEW p \in Callers, UnlinkStaging(p) PROVE TypeOK'
  BY <1>6 DEF UnlinkStaging, Continues, RemoveStaging, Goto, directory
<1>7. ASSUME NEW p \in Callers, ReturnPublished(p) PROVE TypeOK'
  BY <1>7 DEF ReturnPublished, Sound, Links, Goto, directory
<1>8. ASSUME NEW p \in Callers, BeginGet(p) PROVE TypeOK'
  BY <1>8 DEF BeginGet, Begins, Goto, directory
<1>9. ASSUME NEW p \in Callers, OpenObject(p) PROVE TypeOK'
  BY <1>9 DEF OpenObject, Verified, Sound, Links, Goto, directory
<1>10. ASSUME NEW p \in Callers, InspectObject(p) PROVE TypeOK'
  BY <1>10 DEF InspectObject, Continues, Links, Goto, directory
<1>11. ASSUME NEW p \in Callers, MatchStaging(p) PROVE TypeOK'
  BY <1>11 DEF MatchStaging, Continues, Goto, directory
<1>12. ASSUME NEW p \in Callers, RemoveCrashLink(p) PROVE TypeOK'
  BY <1>12 DEF RemoveCrashLink, Continues, RemoveStaging, Goto, directory
<1>13. ASSUME NEW p \in Callers, Reopen(p) PROVE TypeOK'
  BY <1>13 DEF Reopen, Verified, Sound, Links, Goto, directory
<1>14. ASSUME NEW p \in Callers, FsyncIncoming(p) PROVE TypeOK'
  BY <1>14 DEF FsyncIncoming, Continues, SyncIncoming, Goto, directory
<1>15. ASSUME NEW p \in Callers, FsyncLeaf(p) PROVE TypeOK'
  BY <1>15 DEF FsyncLeaf, Continues, SyncLeaf, Goto, directory
<1>16. ASSUME NEW p \in Callers, Crash(p) PROVE TypeOK'
  BY <1>16 DEF Crash, Continues, Goto, directory
<1>17. CASE PowerLoss
  BY <1>17 DEF PowerLoss, Continues
<1>18. CASE WriteBack
  BY <1>18 DEF WriteBack, Continues
<1>19. CASE UNCHANGED vars
  BY <1>19 DEF vars, directory
<1>20. QED
  BY <1>1, <1>2, <1>3, <1>4, <1>5, <1>6, <1>7, <1>8, <1>9, <1>10, <1>11,
     <1>12, <1>13, <1>14, <1>15, <1>16, <1>17, <1>18, <1>19
     DEF Next, Step, Persist, Open, Recover

(* A new staging file is new to everyone. *)
LEMMA FreshKept ==
  ASSUME TypeOK, FreshFiles, [Next]_vars
  PROVE  FreshFiles'
<1> USE ConstantsAssumption DEF TypeOK, Points, Resting, InCall, FreshFiles
<1>1. ASSUME NEW p \in Callers, CreateStaging(p) PROVE FreshFiles'
  BY <1>1 DEF CreateStaging, Begins, OpenLeaf, Goto, directory
<1>2. ASSUME NEW p \in Callers, WriteRight(p) PROVE FreshFiles'
  BY <1>2 DEF WriteRight, Continues, Goto, directory
<1>3. ASSUME NEW p \in Callers, Discard(p) PROVE FreshFiles'
  BY <1>3 DEF Discard, Continues, RemoveStaging, Goto, directory
<1>4. ASSUME NEW p \in Callers, LinkObject(p) PROVE FreshFiles'
  BY <1>4 DEF LinkObject, Continues, Goto, directory
<1>5. ASSUME NEW p \in Callers, ObjectExists(p) PROVE FreshFiles'
  BY <1>5 DEF ObjectExists, Continues, RemoveStaging, Goto, directory
<1>6. ASSUME NEW p \in Callers, UnlinkStaging(p) PROVE FreshFiles'
  BY <1>6 DEF UnlinkStaging, Continues, RemoveStaging, Goto, directory
<1>7. ASSUME NEW p \in Callers, ReturnPublished(p) PROVE FreshFiles'
  BY <1>7 DEF ReturnPublished, Sound, Links, Goto, directory
<1>8. ASSUME NEW p \in Callers, BeginGet(p) PROVE FreshFiles'
  BY <1>8 DEF BeginGet, Begins, Goto, directory
<1>9. ASSUME NEW p \in Callers, OpenObject(p) PROVE FreshFiles'
  BY <1>9 DEF OpenObject, Verified, Sound, Links, Goto, directory
<1>10. ASSUME NEW p \in Callers, InspectObject(p) PROVE FreshFiles'
  BY <1>10 DEF InspectObject, Continues, Links, Goto, directory
<1>11. ASSUME NEW p \in Callers, MatchStaging(p) PROVE FreshFiles'
  BY <1>11 DEF MatchStaging, Continues, Goto, directory
<1>12. ASSUME NEW p \in Callers, RemoveCrashLink(p) PROVE FreshFiles'
  BY <1>12 DEF RemoveCrashLink, Continues, RemoveStaging, Goto, directory
<1>13. ASSUME NEW p \in Callers, Reopen(p) PROVE FreshFiles'
  BY <1>13 DEF Reopen, Verified, Sound, Links, Goto, directory
<1>14. ASSUME NEW p \in Callers, FsyncIncoming(p) PROVE FreshFiles'
  BY <1>14 DEF FsyncIncoming, Continues, SyncIncoming, Goto, directory
<1>15. ASSUME NEW p \in Callers, FsyncLeaf(p) PROVE FreshFiles'
  BY <1>15 DEF FsyncLeaf, Continues, SyncLeaf, Goto, directory
<1>16. ASSUME NEW p \in Callers, Crash(p) PROVE FreshFiles'
  BY <1>16 DEF Crash, Continues, Goto, directory
<1>17. CASE PowerLoss
  BY <1>17 DEF PowerLoss, Continues
<1>18. CASE WriteBack
  BY <1>18 DEF WriteBack, Continues
<1>19. CASE UNCHANGED vars
  BY <1>19 DEF vars, directory
<1>20. QED
  BY <1>1, <1>2, <1>3, <1>4, <1>5, <1>6, <1>7, <1>8, <1>9, <1>10, <1>11,
     <1>12, <1>13, <1>14, <1>15, <1>16, <1>17, <1>18, <1>19
     DEF Next, Step, Persist, Open, Recover

(* Staging files of publishers stay apart and stay in place. *)
LEMMA OwnKept ==
  ASSUME IInv, [Next]_vars
  PROVE  OwnStaging'
<1> USE ConstantsAssumption DEF TypeOK, Points, Resting, InCall, IInv, FreshFiles,
        OwnStaging, SeenObject, Staged, Syncing, Recovering, Losing, Found
<1>1. ASSUME NEW p \in Callers, CreateStaging(p) PROVE OwnStaging'
  BY <1>1 DEF CreateStaging, Begins, OpenLeaf, Goto, directory
<1>2. ASSUME NEW p \in Callers, WriteRight(p) PROVE OwnStaging'
  BY <1>2 DEF WriteRight, Continues, Goto, directory
<1>3. ASSUME NEW p \in Callers, Discard(p) PROVE OwnStaging'
  BY <1>3 DEF Discard, Continues, RemoveStaging, Goto, directory
<1>4. ASSUME NEW p \in Callers, LinkObject(p) PROVE OwnStaging'
  BY <1>4 DEF LinkObject, Continues, Goto, directory
<1>5. ASSUME NEW p \in Callers, ObjectExists(p) PROVE OwnStaging'
  BY <1>5 DEF ObjectExists, Continues, RemoveStaging, Goto, directory
<1>6. ASSUME NEW p \in Callers, UnlinkStaging(p) PROVE OwnStaging'
  BY <1>6 DEF UnlinkStaging, Continues, RemoveStaging, Goto, directory
<1>7. ASSUME NEW p \in Callers, ReturnPublished(p) PROVE OwnStaging'
  BY <1>7 DEF ReturnPublished, Sound, Links, Goto, directory
<1>8. ASSUME NEW p \in Callers, BeginGet(p) PROVE OwnStaging'
  BY <1>8 DEF BeginGet, Begins, Goto, directory
<1>9. ASSUME NEW p \in Callers, OpenObject(p) PROVE OwnStaging'
  BY <1>9 DEF OpenObject, Verified, Sound, Links, Goto, directory
<1>10. ASSUME NEW p \in Callers, InspectObject(p) PROVE OwnStaging'
  BY <1>10 DEF InspectObject, Continues, Links, Goto, directory
<1>11. ASSUME NEW p \in Callers, MatchStaging(p) PROVE OwnStaging'
  BY <1>11 DEF MatchStaging, Continues, Goto, directory
<1>12. ASSUME NEW p \in Callers, RemoveCrashLink(p) PROVE OwnStaging'
  BY <1>12 DEF RemoveCrashLink, Continues, RemoveStaging, Goto, directory
<1>13. ASSUME NEW p \in Callers, Reopen(p) PROVE OwnStaging'
  BY <1>13 DEF Reopen, Verified, Sound, Links, Goto, directory
<1>14. ASSUME NEW p \in Callers, FsyncIncoming(p) PROVE OwnStaging'
  BY <1>14 DEF FsyncIncoming, Continues, SyncIncoming, Goto, directory
<1>15. ASSUME NEW p \in Callers, FsyncLeaf(p) PROVE OwnStaging'
  BY <1>15 DEF FsyncLeaf, Continues, SyncLeaf, Goto, directory
<1>16. ASSUME NEW p \in Callers, Crash(p) PROVE OwnStaging'
  BY <1>16 DEF Crash, Continues, Goto, directory
<1>17. CASE PowerLoss
  BY <1>17 DEF PowerLoss, Continues
<1>18. CASE WriteBack
  BY <1>18 DEF WriteBack, Continues
<1>19. CASE UNCHANGED vars
  BY <1>19 DEF vars, directory
<1>20. QED
  BY <1>1, <1>2, <1>3, <1>4, <1>5, <1>6, <1>7, <1>8, <1>9, <1>10, <1>11,
     <1>12, <1>13, <1>14, <1>15, <1>16, <1>17, <1>18, <1>19
     DEF Next, Step, Persist, Open, Recover

(* Only files with the right bytes are linked, and they were fsynced. *)
LEMMA VerifiedKept ==
  ASSUME IInv, [Next]_vars
  PROVE  VerifiedFiles'
<1> USE ConstantsAssumption DEF TypeOK, Points, Resting, InCall, IInv, FreshFiles,
        OwnStaging, VerifiedFiles, Staged, Syncing, Recovering, Losing, Found
<1>1. ASSUME NEW p \in Callers, CreateStaging(p) PROVE VerifiedFiles'
  BY <1>1 DEF CreateStaging, Begins, OpenLeaf, Goto, directory
<1>2. ASSUME NEW p \in Callers, WriteRight(p) PROVE VerifiedFiles'
  BY <1>2 DEF WriteRight, Continues, Goto, directory
<1>3. ASSUME NEW p \in Callers, Discard(p) PROVE VerifiedFiles'
  BY <1>3 DEF Discard, Continues, RemoveStaging, Goto, directory
<1>4. ASSUME NEW p \in Callers, LinkObject(p) PROVE VerifiedFiles'
  BY <1>4 DEF LinkObject, Continues, Goto, directory
<1>5. ASSUME NEW p \in Callers, ObjectExists(p) PROVE VerifiedFiles'
  BY <1>5 DEF ObjectExists, Continues, RemoveStaging, Goto, directory
<1>6. ASSUME NEW p \in Callers, UnlinkStaging(p) PROVE VerifiedFiles'
  BY <1>6 DEF UnlinkStaging, Continues, RemoveStaging, Goto, directory
<1>7. ASSUME NEW p \in Callers, ReturnPublished(p) PROVE VerifiedFiles'
  BY <1>7 DEF ReturnPublished, Sound, Links, Goto, directory
<1>8. ASSUME NEW p \in Callers, BeginGet(p) PROVE VerifiedFiles'
  BY <1>8 DEF BeginGet, Begins, Goto, directory
<1>9. ASSUME NEW p \in Callers, OpenObject(p) PROVE VerifiedFiles'
  BY <1>9 DEF OpenObject, Verified, Sound, Links, Goto, directory
<1>10. ASSUME NEW p \in Callers, InspectObject(p) PROVE VerifiedFiles'
  BY <1>10 DEF InspectObject, Continues, Links, Goto, directory
<1>11. ASSUME NEW p \in Callers, MatchStaging(p) PROVE VerifiedFiles'
  BY <1>11 DEF MatchStaging, Continues, Goto, directory
<1>12. ASSUME NEW p \in Callers, RemoveCrashLink(p) PROVE VerifiedFiles'
  BY <1>12 DEF RemoveCrashLink, Continues, RemoveStaging, Goto, directory
<1>13. ASSUME NEW p \in Callers, Reopen(p) PROVE VerifiedFiles'
  BY <1>13 DEF Reopen, Verified, Sound, Links, Goto, directory
<1>14. ASSUME NEW p \in Callers, FsyncIncoming(p) PROVE VerifiedFiles'
  BY <1>14 DEF FsyncIncoming, Continues, SyncIncoming, Goto, directory
<1>15. ASSUME NEW p \in Callers, FsyncLeaf(p) PROVE VerifiedFiles'
  BY <1>15 DEF FsyncLeaf, Continues, SyncLeaf, Goto, directory
<1>16. ASSUME NEW p \in Callers, Crash(p) PROVE VerifiedFiles'
  BY <1>16 DEF Crash, Continues, Goto, directory
<1>17. CASE PowerLoss
  BY <1>17 DEF PowerLoss, Continues
<1>18. CASE WriteBack
  BY <1>18 DEF WriteBack, Continues
<1>19. CASE UNCHANGED vars
  BY <1>19 DEF vars, directory
<1>20. QED
  BY <1>1, <1>2, <1>3, <1>4, <1>5, <1>6, <1>7, <1>8, <1>9, <1>10, <1>11,
     <1>12, <1>13, <1>14, <1>15, <1>16, <1>17, <1>18, <1>19
     DEF Next, Step, Persist, Open, Recover

(* What a caller has seen of the object stays true until its next step. *)
LEMMA SeenKept ==
  ASSUME IInv, [Next]_vars
  PROVE  SeenObject'
<1> USE ConstantsAssumption DEF TypeOK, Points, Resting, InCall, IInv, FreshFiles,
        OwnStaging, VerifiedFiles, SeenObject, Staged, Syncing, Recovering, Losing,
        Found
<1>1. ASSUME NEW p \in Callers, CreateStaging(p) PROVE SeenObject'
  BY <1>1 DEF CreateStaging, Begins, OpenLeaf, Goto, directory
<1>2. ASSUME NEW p \in Callers, WriteRight(p) PROVE SeenObject'
  BY <1>2 DEF WriteRight, Continues, Goto, directory
<1>3. ASSUME NEW p \in Callers, Discard(p) PROVE SeenObject'
  BY <1>3 DEF Discard, Continues, RemoveStaging, Goto, directory
<1>4. ASSUME NEW p \in Callers, LinkObject(p) PROVE SeenObject'
  BY <1>4 DEF LinkObject, Continues, Goto, directory
<1>5. ASSUME NEW p \in Callers, ObjectExists(p) PROVE SeenObject'
  BY <1>5 DEF ObjectExists, Continues, RemoveStaging, Goto, directory
<1>6. ASSUME NEW p \in Callers, UnlinkStaging(p) PROVE SeenObject'
  BY <1>6 DEF UnlinkStaging, Continues, RemoveStaging, Goto, directory
<1>7. ASSUME NEW p \in Callers, ReturnPublished(p) PROVE SeenObject'
  BY <1>7 DEF ReturnPublished, Sound, Links, Goto, directory
<1>8. ASSUME NEW p \in Callers, BeginGet(p) PROVE SeenObject'
  BY <1>8 DEF BeginGet, Begins, Goto, directory
<1>9. ASSUME NEW p \in Callers, OpenObject(p) PROVE SeenObject'
  BY <1>9 DEF OpenObject, Verified, Sound, Links, Goto, directory
<1>10. ASSUME NEW p \in Callers, InspectObject(p) PROVE SeenObject'
  BY <1>10 DEF InspectObject, Continues, Links, Goto, directory
<1>11. ASSUME NEW p \in Callers, MatchStaging(p) PROVE SeenObject'
  BY <1>11 DEF MatchStaging, Continues, Goto, directory
<1>12. ASSUME NEW p \in Callers, RemoveCrashLink(p) PROVE SeenObject'
  BY <1>12 DEF RemoveCrashLink, Continues, RemoveStaging, Goto, directory
<1>13. ASSUME NEW p \in Callers, Reopen(p) PROVE SeenObject'
  BY <1>13 DEF Reopen, Verified, Sound, Links, Goto, directory
<1>14. ASSUME NEW p \in Callers, FsyncIncoming(p) PROVE SeenObject'
  BY <1>14 DEF FsyncIncoming, Continues, SyncIncoming, Goto, directory
<1>15. ASSUME NEW p \in Callers, FsyncLeaf(p) PROVE SeenObject'
  <2> SUFFICES ASSUME NEW q \in Callers PROVE SeenObject!(q)'
    BY DEF SeenObject
  <2>1. pc[p] \in Syncing /\ object # NoFile
    BY <1>15 DEF FsyncLeaf, Goto
  <2>2. object' = object /\ incoming' = incoming /\ kept' /\ kind' = kind /\ file' = file
    BY <1>15, <2>1 DEF FsyncLeaf, SyncLeaf, Continues
  <2>3. CASE q # p
    BY <1>15, <2>2, <2>3 DEF FsyncLeaf, Goto
  <2>4. CASE q = p
    <3>1. pc'[p] \in {"reopen", "verify"}
      BY <1>15 DEF FsyncLeaf, Goto
    <3>2. pc[p] = "heal_sync_leaf" <=> pc'[p] = "reopen"
      BY <1>15 DEF FsyncLeaf, Goto
    <3> QED
      BY <2>1, <2>2, <2>4, <3>1, <3>2
  <2> QED
    BY <2>3, <2>4
<1>16. ASSUME NEW p \in Callers, Crash(p) PROVE SeenObject'
  BY <1>16 DEF Crash, Continues, Goto, directory
<1>17. CASE PowerLoss
  BY <1>17 DEF PowerLoss, Continues
<1>18. CASE WriteBack
  BY <1>18 DEF WriteBack, Continues
<1>19. CASE UNCHANGED vars
  BY <1>19 DEF vars, directory
<1>20. QED
  BY <1>1, <1>2, <1>3, <1>4, <1>5, <1>6, <1>7, <1>8, <1>9, <1>10, <1>11,
     <1>12, <1>13, <1>14, <1>15, <1>16, <1>17, <1>18, <1>19
     DEF Next, Step, Persist, Open, Recover

(* What persist returned stays. *)
LEMMA PromiseKept ==
  ASSUME IInv, [Next]_vars
  PROVE  Promised'
<1> USE ConstantsAssumption DEF TypeOK, Points, Resting, InCall, IInv, VerifiedFiles,
        SeenObject, Promised, Staged, Syncing, Recovering, Losing, Found
<1>1. ASSUME NEW p \in Callers, CreateStaging(p) PROVE Promised'
  BY <1>1 DEF CreateStaging, Begins, OpenLeaf, Goto, directory
<1>2. ASSUME NEW p \in Callers, WriteRight(p) PROVE Promised'
  BY <1>2 DEF WriteRight, Continues, Goto, directory
<1>3. ASSUME NEW p \in Callers, Discard(p) PROVE Promised'
  BY <1>3 DEF Discard, Continues, RemoveStaging, Goto, directory
<1>4. ASSUME NEW p \in Callers, LinkObject(p) PROVE Promised'
  BY <1>4 DEF LinkObject, Continues, Goto, directory
<1>5. ASSUME NEW p \in Callers, ObjectExists(p) PROVE Promised'
  BY <1>5 DEF ObjectExists, Continues, RemoveStaging, Goto, directory
<1>6. ASSUME NEW p \in Callers, UnlinkStaging(p) PROVE Promised'
  BY <1>6 DEF UnlinkStaging, Continues, RemoveStaging, Goto, directory
<1>7. ASSUME NEW p \in Callers, ReturnPublished(p) PROVE Promised'
  BY <1>7 DEF ReturnPublished, Sound, Links, Goto, directory
<1>8. ASSUME NEW p \in Callers, BeginGet(p) PROVE Promised'
  BY <1>8 DEF BeginGet, Begins, Goto, directory
<1>9. ASSUME NEW p \in Callers, OpenObject(p) PROVE Promised'
  BY <1>9 DEF OpenObject, Verified, Sound, Links, Goto, directory
<1>10. ASSUME NEW p \in Callers, InspectObject(p) PROVE Promised'
  BY <1>10 DEF InspectObject, Continues, Links, Goto, directory
<1>11. ASSUME NEW p \in Callers, MatchStaging(p) PROVE Promised'
  BY <1>11 DEF MatchStaging, Continues, Goto, directory
<1>12. ASSUME NEW p \in Callers, RemoveCrashLink(p) PROVE Promised'
  BY <1>12 DEF RemoveCrashLink, Continues, RemoveStaging, Goto, directory
<1>13. ASSUME NEW p \in Callers, Reopen(p) PROVE Promised'
  BY <1>13 DEF Reopen, Verified, Sound, Links, Goto, directory
<1>14. ASSUME NEW p \in Callers, FsyncIncoming(p) PROVE Promised'
  BY <1>14 DEF FsyncIncoming, Continues, SyncIncoming, Goto, directory
<1>15. ASSUME NEW p \in Callers, FsyncLeaf(p) PROVE Promised'
  BY <1>15 DEF FsyncLeaf, Continues, SyncLeaf, Goto, directory
<1>16. ASSUME NEW p \in Callers, Crash(p) PROVE Promised'
  BY <1>16 DEF Crash, Continues, Goto, directory
<1>17. CASE PowerLoss
  BY <1>17 DEF PowerLoss, Continues
<1>18. CASE WriteBack
  BY <1>18 DEF WriteBack, Continues
<1>19. CASE UNCHANGED vars
  BY <1>19 DEF vars, directory
<1>20. QED
  BY <1>1, <1>2, <1>3, <1>4, <1>5, <1>6, <1>7, <1>8, <1>9, <1>10, <1>11,
     <1>12, <1>13, <1>14, <1>15, <1>16, <1>17, <1>18, <1>19
     DEF Next, Step, Persist, Open, Recover

(* A lone caller meets nothing that it cannot heal. *)
LEMMA AloneKept ==
  ASSUME IInv, [Next]_vars
  PROVE  AloneSees'
<1> USE ConstantsAssumption DEF TypeOK, Points, Resting, InCall, IInv, VerifiedFiles,
        SeenObject, AloneSees, Staged, Syncing, Recovering, Losing, Found
<1>1. ASSUME NEW p \in Callers, CreateStaging(p) PROVE AloneSees'
  BY <1>1 DEF CreateStaging, Begins, OpenLeaf, Goto, directory
<1>2. ASSUME NEW p \in Callers, WriteRight(p) PROVE AloneSees'
  BY <1>2 DEF WriteRight, Continues, Goto, directory
<1>3. ASSUME NEW p \in Callers, Discard(p) PROVE AloneSees'
  BY <1>3 DEF Discard, Continues, RemoveStaging, Goto, directory
<1>4. ASSUME NEW p \in Callers, LinkObject(p) PROVE AloneSees'
  BY <1>4 DEF LinkObject, Continues, Goto, directory
<1>5. ASSUME NEW p \in Callers, ObjectExists(p) PROVE AloneSees'
  BY <1>5 DEF ObjectExists, Continues, RemoveStaging, Goto, directory
<1>6. ASSUME NEW p \in Callers, UnlinkStaging(p) PROVE AloneSees'
  BY <1>6 DEF UnlinkStaging, Continues, RemoveStaging, Goto, directory
<1>7. ASSUME NEW p \in Callers, ReturnPublished(p) PROVE AloneSees'
  BY <1>7 DEF ReturnPublished, Sound, Links, Goto, directory
<1>8. ASSUME NEW p \in Callers, BeginGet(p) PROVE AloneSees'
  BY <1>8 DEF BeginGet, Begins, Goto, directory
<1>9. ASSUME NEW p \in Callers, OpenObject(p) PROVE AloneSees'
  BY <1>9 DEF OpenObject, Verified, Sound, Links, Goto, directory
<1>10. ASSUME NEW p \in Callers, InspectObject(p) PROVE AloneSees'
  BY <1>10 DEF InspectObject, Continues, Links, Goto, directory
<1>11. ASSUME NEW p \in Callers, MatchStaging(p) PROVE AloneSees'
  BY <1>11 DEF MatchStaging, Continues, Goto, directory
<1>12. ASSUME NEW p \in Callers, RemoveCrashLink(p) PROVE AloneSees'
  BY <1>12 DEF RemoveCrashLink, Continues, RemoveStaging, Goto, directory
<1>13. ASSUME NEW p \in Callers, Reopen(p) PROVE AloneSees'
  BY <1>13 DEF Reopen, Verified, Sound, Links, Goto, directory
<1>14. ASSUME NEW p \in Callers, FsyncIncoming(p) PROVE AloneSees'
  BY <1>14 DEF FsyncIncoming, Continues, SyncIncoming, Goto, directory
<1>15. ASSUME NEW p \in Callers, FsyncLeaf(p) PROVE AloneSees'
  BY <1>15 DEF FsyncLeaf, Continues, SyncLeaf, Goto, directory
<1>16. ASSUME NEW p \in Callers, Crash(p) PROVE AloneSees'
  BY <1>16 DEF Crash, Continues, Goto, directory
<1>17. CASE PowerLoss
  BY <1>17 DEF PowerLoss, Continues
<1>18. CASE WriteBack
  BY <1>18 DEF WriteBack, Continues
<1>19. CASE UNCHANGED vars
  BY <1>19 DEF vars, directory
<1>20. QED
  BY <1>1, <1>2, <1>3, <1>4, <1>5, <1>6, <1>7, <1>8, <1>9, <1>10, <1>11,
     <1>12, <1>13, <1>14, <1>15, <1>16, <1>17, <1>18, <1>19
     DEF Next, Step, Persist, Open, Recover

LEMMA Inductive ==
  ASSUME IInv, [Next]_vars
  PROVE  IInv'
<1> QED
  BY TypesKept, FreshKept, OwnKept, VerifiedKept, SeenKept, PromiseKept, AloneKept
     DEF IInv

(* The inductive invariant holds in every reachable state.                    *)
THEOREM Invariance == Spec => []IInv
<1>1. Init => IInv
  <2> SUFFICES ASSUME Init PROVE IInv
    OBVIOUS
  <2> USE ConstantsAssumption DEF Init
  <2>1. TypeOK
    BY DEF TypeOK, Points, Resting
  <2>2. FreshFiles /\ OwnStaging
    BY DEF FreshFiles, OwnStaging, Staged
  <2>3. VerifiedFiles /\ SeenObject
    BY DEF VerifiedFiles, SeenObject, Found, Losing, Recovering, Syncing
  <2>4. Promised /\ AloneSees
    BY DEF Promised, AloneSees
  <2> QED
    BY <2>1, <2>2, <2>3, <2>4 DEF IInv
<1>2. IInv /\ [Next]_vars => IInv'
  BY Inductive
<1> QED
  BY <1>1, <1>2, PTL DEF Spec

(* Every reachable state is well typed; a publisher always has its file.      *)
THEOREM TypeCorrect == Spec => []TypeOK
<1>1. IInv => TypeOK
  BY DEF IInv
<1> QED
  BY <1>1, Invariance, PTL

(* The name of a digest leads to its bytes, after any crash or power loss.    *)
THEOREM ObjectIsVerified == Spec => []OnlyVerifiedBytes
<1>1. IInv => OnlyVerifiedBytes
  BY DEF IInv, VerifiedFiles, OnlyVerifiedBytes
<1> QED
  BY <1>1, Invariance, PTL

(* A publisher whose file became the object is not refused.                   *)
THEOREM WinnerReturns == Spec => []WinnerIsNotRefused
<1>1. IInv => WinnerIsNotRefused
  BY DEF IInv, SeenObject, Losing, WinnerIsNotRefused
<1> QED
  BY <1>1, Invariance, PTL

(* No clean-up takes the staging file of a publisher that is not done.        *)
THEOREM StagingStays == Spec => []LiveStagingStays
<1>1. IInv => LiveStagingStays
  BY DEF IInv, OwnStaging, Staged, LiveStagingStays
<1> QED
  BY <1>1, Invariance, PTL

(* Whatever crashed before, a call that runs alone is not refused.            *)
THEOREM CrashesHeal == Spec => []AloneNeverRefused
<1>1. IInv => AloneNeverRefused
  BY DEF IInv, AloneSees, AloneNeverRefused
<1> QED
  BY <1>1, Invariance, PTL

(* What a step may do to the object.  While it is there, only a loss of power *)
(* takes it away: before the fsync of its directory, or together with new     *)
(* directories that lead to it.                                               *)
LEMMA ObjectSteps ==
  ASSUME IInv, [Next]_vars, object # NoFile
  PROVE  \/ object' = object
         \/ object' = NoFile /\ (~kept \/ (path = "new" /\ path' = "none"))
<1>1. ASSUME NEW p \in Callers, Persist(p) PROVE object' = object
  BY <1>1 DEF Persist, CreateStaging, WriteRight, Discard, LinkObject,
     ObjectExists, UnlinkStaging, ReturnPublished, RemoveStaging, directory
<1>2. ASSUME NEW p \in Callers, Open(p) \/ Recover(p) PROVE object' = object
  BY <1>2 DEF Open, BeginGet, OpenObject, Recover, InspectObject, MatchStaging,
     RemoveCrashLink, Reopen, RemoveStaging, directory
<1>3. ASSUME NEW p \in Callers, FsyncIncoming(p) \/ FsyncLeaf(p) \/ Crash(p)
      PROVE object' = object
  BY <1>3 DEF FsyncIncoming, SyncIncoming, FsyncLeaf, SyncLeaf, Crash, directory
<1>4. CASE PowerLoss
  BY <1>4 DEF PowerLoss, IInv, TypeOK
<1>5. CASE WriteBack
  BY <1>5 DEF WriteBack
<1>6. CASE UNCHANGED vars
  BY <1>6 DEF vars, directory
<1> QED
  BY <1>1, <1>2, <1>3, <1>4, <1>5, <1>6 DEF Next, Step

(* An object is never replaced by another file.                               *)
THEOREM NoOverwrite == Spec => NeverOverwritten
<1>1. IInv /\ [Next]_vars => [object # NoFile => object' \in {object, NoFile}]_vars
  BY ObjectSteps
<1> QED
  BY <1>1, Invariance, PTL DEF Spec, NeverOverwritten

(* What a call of persist returned goes only with the new directories that    *)
(* lead to it: neither another publisher, a clean-up, a crash nor a loss of   *)
(* power takes it away when they are on disk.                                 *)
THEOREM PublicationIsDurable == Spec => PublicationLasts
<1>1. IInv /\ [Next]_vars =>
        [("persist" \in returned) =>
          /\ object # NoFile
          /\ object' = object \/ (path = "new" /\ path' = "none")]_vars
  BY ObjectSteps DEF IInv, Promised
<1> QED
  BY <1>1, Invariance, PTL DEF Spec, PublicationLasts
=============================================================================
